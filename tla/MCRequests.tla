----------------------------- MODULE MCRequests -----------------------------
(***************************************************************************)
(* One type; ann asks, and she, hr or nobody is her manager.  Days 31 to   *)
(* 89 are a year of two months, day 90 is in the next year.  Day 55 is a   *)
(* Sunday and 58 the Wednesday after it, the last of its month; 62 is the  *)
(* Sunday after that: two of them share a month, a week that ends with a   *)
(* Sunday, or neither.  Text 117 comes after the date of day 58 and is no  *)
(* date.                                                                   *)
(***************************************************************************)
EXTENDS Requests, TLC

CONSTANTS k1, k2, q1, ann, hr, sick

MCCall == {k1, k2}
MCPerson == {ann, hr}
MCType == {sick}
MCFirsts == {0, 31, 59, 90, 121}
MCNewYears == {31, 90, 121}
NoDate == 117
MCText == {Written(d) : d \in {55, 58, 62, 90}} \cup {NoDate}

\* A day in one year or the other, a leave without a start, and one without an end.
Leave(start, end) ==
  [kind |-> "leave", user |-> ann, type |-> sick, start |-> start, end |-> end]
MCAsked == {Leave(Written(d), Written(d)) : d \in {58, 90}}
             \cup {Leave(NoDate, NoDate), Leave(Written(58), NoDate)}
             \cup [kind : {"wfh"}, user : {ann}, date : MCText \ {Written(90)}]
Every(n) == [l \in Limit |-> n]
MCPolicies == {Every(0), Every(1)}
MCDefault == Every(1)

Symmetry == Permutations(MCCall)
============================================================================
