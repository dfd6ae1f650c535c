------------------------------ MODULE Requests ------------------------------
(***************************************************************************)
(* Requests for leave and to work from home: internal/auth/service/leave.go*)
(* and wfh.go over their repositories and the policy.  The HTTP server     *)
(* runs every call in a goroutine of its own; a call is a few database     *)
(* accesses with nothing held between them, so each access is a step and   *)
(* calls interleave there.  The two tables are one here, told apart by the *)
(* kind of a form; both kinds find an approver and are decided alike.      *)
(*                                                                         *)
(* Dates are texts: the service parses them, the database compares them as *)
(* they are.  Days are numbers, with day 0 on 1 January of the year 1, a   *)
(* Monday, and what time.Parse leaves of a text it cannot read.  Texts are *)
(* numbers in alphabetical order: 2d is the date of day d, 2d + 1 any text *)
(* between that and the next date, as 2025-02-30 is after 2025-02-28.      *)
(* Of the dates before the year 1000 only the first, 0001-01-01, is here;  *)
(* the number before the date of 1000-01-01 stands for the texts that a    *)
(* query for the year 1, which is written 1-01-01, finds.                  *)
(***************************************************************************)
EXTENDS Integers, FiniteSets, FiniteSetsExt

CONSTANTS
  Call,      \* HTTP calls that can be in progress at the same time
  Request,   \* ids of requests, handed out by the server
  Person,    \* user ids
  HR,        \* the user with the HR role resolveApprover falls back to, if any
  Nobody,    \* no manager, no such user
  Type,      \* vacation, sick, personal
  Text,      \* what forms have for dates
  Horizon,   \* the longest time.Duration, in whole days (code: 106751)
  Firsts,    \* the first days of the months
  NewYears,  \* the first days of the years, from the year 1000 on
  Asked,     \* the forms that are sent
  Policies,  \* the policies HR may set
  Default,   \* DefaultPolicy
  DbFails    \* may the database refuse a query?

Limit == Type \cup {"week", "month"}
Policy == [Limit -> Nat]
\* A leave that ends before it starts, as texts go, is refused at once.
LeaveForm ==
  {f \in [kind : {"leave"}, user : Person, type : Type, start : Text, end : Text] :
     f.start <= f.end}
WFHForm == [kind : {"wfh"}, user : Person, date : Text]
Form == LeaveForm \cup WFHForm

\* time.Parse, and Format: the error is never looked at, the zero time is used.
Parsed(t) == IF t % 2 = 0 THEN t \div 2 ELSE 0
Written(d) == 2 * d

Between(starts, d) == (\E m \in starts : m <= d) /\ (\E m \in starts : m > d)

ASSUME RequestsAssumption ==
  /\ HR \in Person \cup {Nobody} /\ Nobody \notin Person
  /\ Text \subseteq Nat /\ Firsts \subseteq Nat /\ NewYears \subseteq Nat \ {0}
  /\ Horizon \in Nat
  /\ \A t \in Text : /\ Between(Firsts, Parsed(t))
                     /\ Parsed(t) # 0 => Between(NewYears, Parsed(t))
  /\ Asked \subseteq Form
  /\ Policies \subseteq Policy /\ Default \in Policy
  /\ DbFails \in BOOLEAN

VARIABLES
  requests,  \* tables leave_requests and wfh_requests: a function on the ids in use
  policy,    \* table leave_policy: its row
  manager,   \* User.ManagerID of each user
  call,      \* what each goroutine is doing, with its local variables
  cleared    \* history: calls whose form has been within the policy since they
             \* began, or that a failed query or an approval undone has misled

requestVars == <<requests, policy, manager, call, cleared>>

Status == {"pending", "approved", "rejected"}
Row == [form : Form, status : Status, approver : Person]

\* The states of a call, one record set for each place it can be at.
Idling == [at : {"idle"}]
Creating == [at : {"create"}, form : Form]
Limited == [at : {"limited", "weekly"}, form : Form, policy : Policy]
Checked == [at : {"checked"}, form : Form]
Routed == [at : {"routed"}, form : Form, approver : Person]
Deciding == [at : {"decide"}, id : Request, caller : Person, approve : BOOLEAN]
Decided == [at : {"decided"}, id : Request, caller : Person, row : Row]
CallState == Idling \cup Creating \cup Limited \cup Checked \cup Routed
               \cup Deciding \cup Decided

Idle == [at |-> "idle"]
InUse == DOMAIN requests

Init ==
  /\ requests = <<>>
  /\ policy = Default
  /\ manager = [u \in Person |-> Nobody]
  /\ call = [k \in Call |-> Idle]
  /\ cleared = {}

TypeOK ==
  /\ InUse \subseteq Request
  /\ \A q \in InUse : requests[q] \in Row
  /\ policy \in Policy
  /\ manager \in [Person -> Person \cup {Nobody}]
  /\ call \in [Call -> CallState]
  /\ cleared \subseteq Call

At(k, place) == call[k].at = place
Goto(k, state) == call' = [call EXCEPT ![k] = state]
Return(k) == Goto(k, Idle)

----------------------------------------------------------------------------
(* What the quota checks count: approved requests of the same user and kind.*)

Approved(f) == {q \in InUse : /\ requests[q].status = "approved"
                              /\ requests[q].form.kind = f.kind
                              /\ requests[q].form.user = f.user}

\* From the last of these days up to d, to the day before the next of them: the
\* texts that are not before the date of the one nor after that of the other.
Period(starts, d) ==
  Written(Max({m \in starts : m <= d})) .. Written(Min({m \in starts : m > d}) - 1)

\* The year of a date, written with %d: that of the zero time is 1-01-01 to 1-12-31,
\* between 0999-12-31 and 1000-01-01, where there are texts but no dates.
Year(t) ==
  IF Parsed(t) = 0 THEN {Written(Min(NewYears)) - 1} ELSE Period(NewYears, Parsed(t))

\* ApprovedByUserTypeYear.
OfYear(f) == {q \in Approved(f) : /\ requests[q].form.type = f.type
                                  /\ requests[q].form.start \in Year(f.start)}

\* countDays, negative when only the end is no date.  Sub stops at the longest Duration.
Span(f) ==
  LET n == Parsed(f.end) - Parsed(f.start)
  IN (IF n > Horizon THEN Horizon ELSE IF n < -Horizon THEN -Horizon ELSE n) + 1

\* The sum of the Spans of a year: the days themselves are counted, told apart by
\* their leave and by their number in it.
Taken(f) == UNION {{q} \X (1 .. Span(requests[q].form)) : q \in OfYear(f)}
Owed(f) == UNION {{q} \X (1 .. -Span(requests[q].form)) : q \in OfYear(f)}
Days(f) == Cardinality(Taken(f)) - Cardinality(Owed(f))

\* CountApprovedByUserInRange.
Count(f, range) == Cardinality({q \in Approved(f) : requests[q].form.date \in range})

\* The two ranges of checkWFHQuota.  Go's Sunday is weekday 0.
Weekday(d) == (d + 1) % 7

\* Mutant: a Sunday stays weekday 0.
Week_Sunday(t) ==
  LET d == Parsed(t)
      monday == d - (Weekday(d) - 1)
  IN Written(monday) .. Written(monday + 6)

Week(t) ==
  LET d == Parsed(t)
      weekday == IF Weekday(d) = 0 THEN 7 ELSE Weekday(d)
      monday == d - (weekday - 1)
  IN Written(monday) .. Written(monday + 6)

Month(t) == Period(Firsts, Parsed(t))

\* A failed query is an empty result, or a count of zero.
Seen(n) == {n} \cup (IF DbFails THEN {0} ELSE {})

----------------------------------------------------------------------------
(* LeaveStore.Create and WFHStore.Create. *)

StartCreate(k, f) ==
  /\ At(k, "idle")
  /\ Goto(k, [at |-> "create", form |-> f])
  /\ UNCHANGED <<requests, policy, manager>>

\* policy.Get: a failed query answers DefaultPolicy.
ReadPolicy(k) ==
  /\ At(k, "create")
  /\ \E p \in {policy} \cup (IF DbFails THEN {Default} ELSE {}) :
       Goto(k, [at |-> "limited", form |-> call[k].form, policy |-> p])
  /\ UNCHANGED <<requests, policy, manager>>

Passed(k) == [at |-> "checked", form |-> call[k].form]

\* The approved days are added up; over the limit the call ends with an error.
CheckQuota(k) ==
  LET c == call[k] IN
    /\ At(k, "limited") /\ c.form.kind = "leave"
    /\ \E used \in Seen(Days(c.form)) :
         IF used + Span(c.form) > c.policy[c.form.type] THEN Return(k) ELSE Goto(k, Passed(k))
    /\ UNCHANGED <<requests, policy, manager>>

\* A day to work from home has to fit its week, then its month.
CheckWeek(k) ==
  LET c == call[k] IN
    /\ At(k, "limited") /\ c.form.kind = "wfh"
    /\ \E n \in Seen(Count(c.form, Week(c.form.date))) :
         IF n >= c.policy["week"]
           THEN Return(k)
           ELSE Goto(k, [at |-> "weekly", form |-> c.form, policy |-> c.policy])
    /\ UNCHANGED <<requests, policy, manager>>

CheckMonth(k) ==
  LET c == call[k] IN
    /\ At(k, "weekly")
    /\ \E n \in Seen(Count(c.form, Month(c.form.date))) :
         IF n >= c.policy["month"] THEN Return(k) ELSE Goto(k, Passed(k))
    /\ UNCHANGED <<requests, policy, manager>>

\* resolveApprover: the manager, or somebody of HR, or an error.
Approver(u) == IF manager[u] # Nobody THEN manager[u] ELSE HR

FindApprover(k) ==
  /\ At(k, "checked")
  /\ LET f == call[k].form IN
       IF Approver(f.user) = Nobody
         THEN Return(k)
         ELSE Goto(k, [at |-> "routed", form |-> f, approver |-> Approver(f.user)])
  /\ UNCHANGED <<requests, policy, manager>>

\* Mutant: the manager is stored, not the approver that was found.
Insert_Manager(k, q) ==
  /\ At(k, "routed")
  /\ q \notin InUse
  /\ LET row == [form |-> call[k].form, status |-> "pending",
                 approver |-> manager[call[k].form.user]]
     IN requests' = [i \in InUse \cup {q} |-> IF i = q THEN row ELSE requests[i]]
  /\ Return(k)
  /\ UNCHANGED <<policy, manager>>

\* repo.Create, with an id nobody has.
Insert(k, q) ==
  /\ At(k, "routed")
  /\ q \notin InUse
  /\ LET row == [form |-> call[k].form, status |-> "pending",
                 approver |-> call[k].approver]
     IN requests' = [i \in InUse \cup {q} |-> IF i = q THEN row ELSE requests[i]]
  /\ Return(k)
  /\ UNCHANGED <<policy, manager>>

\* A query on the way fails, and the call ends with an error.
Refused(k) ==
  /\ DbFails
  /\ call[k].at \in {"checked", "routed", "decide", "decided"}
  /\ Return(k)
  /\ UNCHANGED <<requests, policy, manager>>

----------------------------------------------------------------------------
(* Decide, of either store: read the row, change the copy, save the copy. *)

StartDecide(k, u, q, approve) ==
  /\ At(k, "idle")
  /\ Goto(k, [at |-> "decide", id |-> q, caller |-> u, approve |-> approve])
  /\ UNCHANGED <<requests, policy, manager>>

\* Mutant: today's manager decides.
MayDecide_Manager(q, u) ==
  /\ q \in InUse
  /\ Approver(requests[q].form.user) = u
  /\ requests[q].status = "pending"

MayDecide(q, u) ==
  /\ q \in InUse
  /\ requests[q].approver = u
  /\ requests[q].status = "pending"

\* Mutant: the approver is looked up again.
ReadRow_Reroutes(k) ==
  /\ At(k, "decide")
  /\ LET c == call[k] IN
       IF MayDecide(c.id, c.caller)
         THEN Goto(k, [at |-> "decided", id |-> c.id, caller |-> c.caller,
                       row |-> [requests[c.id] EXCEPT
                                  !.approver = Approver(requests[c.id].form.user),
                                  !.status = IF c.approve THEN "approved"
                                                          ELSE "rejected"]])
         ELSE Return(k)
  /\ UNCHANGED <<requests, policy, manager>>

ReadRow(k) ==
  /\ At(k, "decide")
  /\ LET c == call[k] IN
       IF MayDecide(c.id, c.caller)
         THEN Goto(k, [at |-> "decided", id |-> c.id, caller |-> c.caller,
                       row |-> [requests[c.id] EXCEPT
                                  !.status = IF c.approve THEN "approved"
                                                          ELSE "rejected"]])
         ELSE Return(k)
  /\ UNCHANGED <<requests, policy, manager>>

SaveRow(k) ==
  /\ At(k, "decided")
  /\ requests' = [requests EXCEPT ![call[k].id] = call[k].row]
  /\ Return(k)
  /\ UNCHANGED <<policy, manager>>

----------------------------------------------------------------------------
(* What others may change meanwhile. *)

\* PolicyStore.Update, by HR; a negative limit is refused.
SetPolicy(p) ==
  /\ policy' = p
  /\ UNCHANGED <<requests, manager, call>>

\* AuthStore.SetManager; only the manager of who asks is ever read here.
Asker == {f.user : f \in Asked}

SetManager(u, m) ==
  /\ manager' = [manager EXCEPT ![u] = m]
  /\ UNCHANGED <<requests, policy, call>>

----------------------------------------------------------------------------
Create(k) ==
  \/ \E f \in Asked : StartCreate(k, f)
  \/ ReadPolicy(k) \/ CheckQuota(k) \/ CheckWeek(k) \/ CheckMonth(k) \/ FindApprover(k)
  \/ \E q \in Request : Insert(k, q)

Decide(k) ==
  \/ \E u \in Person, q \in Request, b \in BOOLEAN : StartDecide(k, u, q, b)
  \/ ReadRow(k) \/ SaveRow(k)

Others ==
  \/ \E p \in Policies : SetPolicy(p)
  \/ \E u \in Asker, m \in Person \cup {Nobody} : SetManager(u, m)

Acts == (\E k \in Call : Create(k) \/ Decide(k) \/ Refused(k)) \/ Others

----------------------------------------------------------------------------
(* The quota as a calendar on the wall has it, and the history variable.    *)

SameWeek(d, e) == d \div 7 = e \div 7
SamePeriod(starts, d, e) == \A m \in starts : m <= d <=> m <= e
SameMonth(d, e) == SamePeriod(Firsts, d, e)
SameYear(d, e) == SamePeriod(NewYears, d, e)

Readable(t) == Parsed(t) # 0
Dated(f) == IF f.kind = "leave" THEN Readable(f.start) /\ Readable(f.end) ELSE Readable(f.date)

\* The days at home in the week, or the month, of this one.
Near(f, Same(_, _)) ==
  Cardinality({q \in Approved(f) : /\ Readable(requests[q].form.date)
                                   /\ Same(Parsed(requests[q].form.date), Parsed(f.date))})

\* The leaves of the year this one starts in, and the days they take, of each no
\* more than a Duration can hold.
Beside(f) == {q \in Approved(f) : /\ requests[q].form.type = f.type
                                  /\ Readable(requests[q].form.start)
                                  /\ SameYear(Parsed(requests[q].form.start), Parsed(f.start))}
DaysOff(f) == {d \in Parsed(f.start) .. Parsed(f.end) : d <= Parsed(f.start) + Horizon}
Used(f) == Cardinality(UNION {{q} \X DaysOff(requests[q].form) : q \in Beside(f)})

\* One of them has an end that is no date, which the code takes for less than nothing.
Spoilt(f) == \E q \in Beside(f) : ~Readable(requests[q].form.end)

\* One more request like this would not exceed the policy.  Nothing is said of what
\* has no place in a calendar.
Fits(f) ==
  \/ ~Dated(f)
  \/ f.kind = "leave" /\ (Spoilt(f) \/ Used(f) + Cardinality(DaysOff(f)) <= policy[f.type])
  \/ f.kind = "wfh" /\ /\ Near(f, SameWeek) < policy["week"]
                       /\ Near(f, SameMonth) < policy["month"]

Asking == {k \in Call : call[k].at \in {"create", "limited", "weekly", "checked", "routed"}}
Fitting == {k \in Asking : Fits(call[k].form)}

\* A query of a check has failed and its answer was not the one the table has.
Misled(k) ==
  \/ At(k, "create") /\ call'[k].policy # policy
  \/ At(k, "limited") /\ LET c == call[k] IN
       IF c.form.kind = "leave" THEN Days(c.form) + Span(c.form) > c.policy[c.form.type]
                                ELSE Count(c.form, Week(c.form.date)) >= c.policy["week"]
  \/ At(k, "weekly") /\ LET c == call[k] IN
       Count(c.form, Month(c.form.date)) >= c.policy["month"]

\* An approval is overwritten.
Undone == \E q \in InUse : requests[q].status = "approved" /\ requests'[q].status # "approved"

Remember ==
  LET misled == {k \in Asking' : Undone \/ (call'[k] # call[k] /\ Misled(k))}
  IN cleared' = Fitting' \cup misled \cup (cleared \cap Asking')

Next == Acts /\ Remember

Spec == Init /\ [][Next]_requestVars

----------------------------------------------------------------------------
\* leave.go:112 and wfh.go:89 (service): the quota is checked in up to four
\* queries over texts, between which requests are decided and the policy is changed;
\* still, unless a query failed or an approval was overwritten, a request that passes
\* was within the policy in force at some moment of its call, by the calendar: in its
\* year, or in its week of Monday to Sunday and in its month.  Only real dates are
\* promised this, counted beside leaves that end on real dates; requests without a
\* real date are counted all the same where the texts fall.
Admitted ==
  \A k \in Call : call[k].at \in {"checked", "routed"} => k \in cleared

\* leave.go:26, wfh.go:5 (domain): the approver is a snapshot, and what was asked for is
\* never altered: no interleaving of decisions, changes of manager or failures
\* makes a save of an older copy rewrite a request, or lose one.
RequestsAreFixed ==
  [][/\ InUse \subseteq DOMAIN requests'
     /\ \A q \in InUse : /\ requests'[q].form = requests[q].form
                         /\ requests'[q].approver = requests[q].approver]_requestVars

\* A status changes by a decision of the approver the request names, however the
\* manager of its owner has changed since, and never back to pending.
ApproverDecides ==
  [][\A q \in InUse : requests'[q].status # requests[q].status =>
       /\ requests'[q].status # "pending"
       /\ \E k \in Call : /\ At(k, "decided") /\ call[k].id = q
                          /\ call[k].caller = requests[q].approver]_requestVars

\* leave.go:77, wfh.go:54 (service): only a pending request is decided; what is decided
\* stays as it was decided.
DecidedForGood ==
  [][\A q \in InUse : requests[q].status # "pending"
                        => requests'[q].status = requests[q].status]_requestVars

----------------------------------------------------------------------------
(* What holds RequestsAreFixed and ApproverDecides up: the inductive       *)
(* invariant of RequestsProofs.                                            *)

\* A copy that is about to be saved is the request as it was made, decided, and
\* its decider is the approver.
CopiesDecided ==
  \A k \in Call : At(k, "decided") =>
    LET q == call[k].id IN
      /\ q \in InUse
      /\ call[k].row.form = requests[q].form
      /\ call[k].row.approver = requests[q].approver
      /\ call[k].row.status # "pending"
      /\ call[k].caller = requests[q].approver

RequestsInv == TypeOK /\ CopiesDecided

----------------------------------------------------------------------------
(* What holds Admitted up.                                                 *)

\* What stops a call, at the check it has come to, whose form has not fitted yet.
Stopped(k) ==
  LET c == call[k] IN
    \/ At(k, "create")
    \/ At(k, "limited") /\ \/ /\ c.form.kind = "leave"
                              /\ Used(c.form) + Cardinality(DaysOff(c.form)) > c.policy[c.form.type]
                           \/ /\ c.form.kind = "wfh"
                              /\ \/ Near(c.form, SameWeek) >= c.policy["week"]
                                 \/ Near(c.form, SameMonth) >= c.policy["month"]
    \/ At(k, "weekly") /\ c.form.kind = "wfh" /\ Near(c.form, SameMonth) >= c.policy["month"]

QuotaInv ==
  /\ RequestsInv
  /\ IsFiniteSet(InUse)
  /\ Fitting \subseteq cleared
  /\ \A k \in Asking \ cleared : Stopped(k)
============================================================================
