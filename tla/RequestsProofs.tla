--------------------------- MODULE RequestsProofs ---------------------------
(***************************************************************************)
(* Theorems about requests for leave and to work from home, for every      *)
(* number of calls, requests and people, any dates and any policies.       *)
(***************************************************************************)
EXTENDS Requests, FiniteSetTheorems, WellFoundedInduction, TLAPS

USE RequestsAssumption DEF RequestsAssumption

----------------------------------------------------------------------------
(* The steps of a call. *)

\* What a call becomes is a state of a call.
LEMMA GotoType ==
  ASSUME TypeOK, NEW k \in Call, NEW state \in CallState, Goto(k, state)
  PROVE  call' \in [Call -> CallState]
  BY DEF TypeOK, Goto

LEMMA ReturnType ==
  ASSUME TypeOK, NEW k \in Call, Return(k)
  PROVE  call' \in [Call -> CallState]
<1>1. Idle \in CallState
  BY DEF CallState, Idle, Idling
<1>2. QED
  BY <1>1, GotoType DEF Return

\* The local variables of a call, at each place it can be at.
LEMMA Locals ==
  ASSUME TypeOK, NEW k \in Call
  PROVE  /\ call[k].at \in {"create", "limited", "weekly", "checked", "routed"} => call[k].form \in Form
         /\ call[k].at \in {"limited", "weekly"} => call[k] \in Limited
         /\ At(k, "routed") => call[k].approver \in Person
         /\ call[k].at \in {"decide", "decided"} => call[k].id \in Request /\ call[k].caller \in Person
         /\ At(k, "decided") => call[k].row \in Row
<1>1. call[k] \in CallState
  BY DEF TypeOK
<1>2. QED
  BY <1>1 DEF CallState, Idling, Creating, Limited, Checked, Routed, Deciding, Decided, At

\* A new request, or a decided one, is a request.
LEMMA Inserted ==
  ASSUME TypeOK, NEW k \in Call, NEW q \in Request, Insert(k, q)
  PROVE  /\ q \notin InUse /\ InUse' = InUse \cup {q}
         /\ requests'[q] \in Row
         /\ \A i \in InUse : requests'[i] = requests[i]
<1> DEFINE row == [form |-> call[k].form, status |-> "pending",
                   approver |-> call[k].approver]
<1>1. row \in Row
  BY Locals DEF Insert, At, Row, Status
<1>2. q \notin InUse /\ requests' = [i \in InUse \cup {q} |-> IF i = q THEN row ELSE requests[i]]
  BY DEF Insert
<1> HIDE DEF row
<1>3. QED
  BY <1>1, <1>2 DEF InUse

LEMMA Saved ==
  ASSUME RequestsInv, NEW k \in Call, SaveRow(k)
  PROVE  /\ call[k].id \in InUse /\ InUse' = InUse
         /\ requests'[call[k].id] = call[k].row /\ call[k].row \in Row
         /\ \A i \in InUse : i # call[k].id => requests'[i] = requests[i]
<1>1. call[k].id \in InUse /\ call[k].row \in Row
  BY Locals DEF SaveRow, RequestsInv, CopiesDecided, At
<1>2. requests' = [requests EXCEPT ![call[k].id] = call[k].row]
  BY DEF SaveRow
<1>3. QED
  BY <1>1, <1>2 DEF InUse

\* All other steps leave the requests as they are.
LEMMA Unwritten ==
  ASSUME Next,
         ~\E k \in Call, q \in Request : Insert(k, q),
         ~\E k \in Call : SaveRow(k)
  PROVE  UNCHANGED requests
  BY DEF Next, Acts, Create, Decide, Others, StartCreate, ReadPolicy, CheckQuota, CheckWeek, CheckMonth, FindApprover,
         Refused, StartDecide, ReadRow, SetPolicy, SetManager

----------------------------------------------------------------------------
(* The invariant. *)

LEMMA InvInit == Init => RequestsInv
  BY DEF Init, RequestsInv, TypeOK, CopiesDecided, InUse, CallState, Idling, Idle, At

LEMMA TableType ==
  ASSUME RequestsInv, Next
  PROVE  /\ InUse' \subseteq Request /\ \A q \in InUse' : requests'[q] \in Row
         /\ policy' \in Policy
         /\ manager' \in [Person -> Person \cup {Nobody}]
<1>1. InUse \subseteq Request /\ \A q \in InUse : requests[q] \in Row
  BY DEF RequestsInv, TypeOK
<1>2. ASSUME NEW k \in Call, NEW q \in Request, Insert(k, q)
      PROVE  InUse' \subseteq Request /\ \A i \in InUse' : requests'[i] \in Row
  BY <1>1, <1>2, Inserted DEF RequestsInv
<1>3. ASSUME NEW k \in Call, SaveRow(k)
      PROVE  InUse' \subseteq Request /\ \A i \in InUse' : requests'[i] \in Row
  BY <1>1, <1>3, Saved
<1>4. ASSUME UNCHANGED requests
      PROVE  InUse' \subseteq Request /\ \A i \in InUse' : requests'[i] \in Row
  BY <1>1, <1>4 DEF InUse
<1>5. InUse' \subseteq Request /\ \A q \in InUse' : requests'[q] \in Row
  BY <1>2, <1>3, <1>4, Unwritten
<1>6. policy' \in Policy /\ manager' \in [Person -> Person \cup {Nobody}]
  <2>1. policy \in Policy /\ manager \in [Person -> Person \cup {Nobody}]
    BY DEF RequestsInv, TypeOK
  <2>2. ASSUME NEW p \in Policies, SetPolicy(p)
        PROVE  policy' \in Policy /\ manager' = manager
    BY <2>2 DEF SetPolicy
  <2>3. ASSUME NEW u \in Asker, NEW m \in Person \cup {Nobody}, SetManager(u, m)
        PROVE  policy' = policy /\ manager' \in [Person -> Person \cup {Nobody}]
    BY <2>1, <2>3 DEF SetManager
  <2>4. ASSUME NEW k \in Call, Create(k) \/ Decide(k) \/ Refused(k)
        PROVE  UNCHANGED <<policy, manager>>
    BY <2>4 DEF Create, Decide, StartCreate, ReadPolicy, CheckQuota, CheckWeek, CheckMonth,
                FindApprover, Insert, Refused, StartDecide, ReadRow, SaveRow
  <2>5. QED
    BY <2>1, <2>2, <2>3, <2>4 DEF Next, Acts, Others
<1>7. QED
  BY <1>5, <1>6

LEMMA CallType ==
  ASSUME TypeOK, Next
  PROVE  call' \in [Call -> CallState]
<1>1. ASSUME NEW k \in Call, Create(k)
      PROVE  call' \in [Call -> CallState]
  <2>1. ASSUME NEW f \in Asked, StartCreate(k, f)
        PROVE  call' \in [Call -> CallState]
    <3>1. [at |-> "create", form |-> f] \in CallState
      BY DEF CallState, Creating
    <3>2. QED
      BY <2>1, <3>1, GotoType DEF StartCreate
  <2>2. CASE ReadPolicy(k)
    <3>1. call[k].form \in Form
      BY <2>2, Locals DEF ReadPolicy, At
    <3>2. PICK p \in Policy : Goto(k, [at |-> "limited", form |-> call[k].form, policy |-> p])
      BY <2>2 DEF ReadPolicy, TypeOK
    <3>3. [at |-> "limited", form |-> call[k].form, policy |-> p] \in CallState
      BY <3>1 DEF CallState, Limited
    <3>4. QED
      BY <3>2, <3>3, GotoType
  <2>3. CASE CheckQuota(k)
    <3>1. Passed(k) \in CallState
      BY <2>3, Locals DEF CheckQuota, At, Passed, CallState, Checked
    <3>2. QED
      BY <2>3, <3>1, GotoType, ReturnType DEF CheckQuota
  <2>7. CASE CheckWeek(k)
    <3>1. [at |-> "weekly", form |-> call[k].form, policy |-> call[k].policy] \in CallState
      BY <2>7, Locals DEF CheckWeek, At, Limited, CallState
    <3>2. QED
      BY <2>7, <3>1, GotoType, ReturnType DEF CheckWeek
  <2>8. CASE CheckMonth(k)
    <3>1. Passed(k) \in CallState
      BY <2>8, Locals DEF CheckMonth, At, Passed, CallState, Checked
    <3>2. QED
      BY <2>8, <3>1, GotoType, ReturnType DEF CheckMonth
  <2>4. CASE FindApprover(k)
    <3> DEFINE u == call[k].form.user
    <3>1. call[k].form \in Form /\ u \in Person
      BY <2>4, Locals DEF FindApprover, At, Form, LeaveForm, WFHForm
    <3>2. Approver(u) # Nobody => Approver(u) \in Person
      BY <3>1 DEF Approver, TypeOK
    <3>3. Approver(u) # Nobody =>
            [at |-> "routed", form |-> call[k].form, approver |-> Approver(u)] \in CallState
      BY <3>1, <3>2 DEF CallState, Routed
    <3>4. QED
      BY <2>4, <3>3, GotoType, ReturnType DEF FindApprover
  <2>5. ASSUME NEW q \in Request, Insert(k, q)
        PROVE  call' \in [Call -> CallState]
    BY <2>5, ReturnType DEF Insert
  <2>6. QED
    BY <1>1, <2>1, <2>2, <2>3, <2>4, <2>5, <2>7, <2>8 DEF Create
<1>2. ASSUME NEW k \in Call, Decide(k)
      PROVE  call' \in [Call -> CallState]
  <2>1. ASSUME NEW u \in Person, NEW q \in Request, NEW b \in BOOLEAN, StartDecide(k, u, q, b)
        PROVE  call' \in [Call -> CallState]
    <3>1. [at |-> "decide", id |-> q, caller |-> u, approve |-> b] \in CallState
      BY DEF CallState, Deciding
    <3>2. QED
      BY <2>1, <3>1, GotoType DEF StartDecide
  <2>2. CASE ReadRow(k)
    <3> DEFINE c == call[k]
               row == [requests[c.id] EXCEPT !.status = IF c.approve THEN "approved"
                                                                     ELSE "rejected"]
    <3>1. c.id \in Request /\ c.caller \in Person
      BY <2>2, Locals DEF ReadRow, At
    <3>2. MayDecide(c.id, c.caller) => row \in Row
      BY DEF MayDecide, TypeOK, Row, Status
    <3>3. MayDecide(c.id, c.caller) =>
            [at |-> "decided", id |-> c.id, caller |-> c.caller, row |-> row] \in CallState
      BY <3>1, <3>2 DEF CallState, Decided
    <3>4. QED
      BY <2>2, <3>3, GotoType, ReturnType DEF ReadRow
  <2>3. CASE SaveRow(k)
    BY <2>3, ReturnType DEF SaveRow
  <2>4. QED
    BY <1>2, <2>1, <2>2, <2>3 DEF Decide
<1>3. ASSUME NEW k \in Call, Refused(k)
      PROVE  call' \in [Call -> CallState]
  BY <1>3, ReturnType DEF Refused
<1>4. CASE Others
  BY <1>4 DEF Others, SetPolicy, SetManager, TypeOK
<1>5. QED
  BY <1>1, <1>2, <1>3, <1>4 DEF Next, Acts

\* Nothing a step does alters what a request was made with.
LEMMA Fixed ==
  ASSUME RequestsInv, Next
  PROVE  /\ InUse \subseteq InUse'
         /\ \A q \in InUse : /\ requests'[q].form = requests[q].form
                             /\ requests'[q].approver = requests[q].approver
<1>1. ASSUME NEW k \in Call, NEW q \in Request, Insert(k, q)
      PROVE  InUse \subseteq InUse' /\ \A i \in InUse : requests'[i] = requests[i]
  BY <1>1, Inserted DEF RequestsInv
<1>2. ASSUME NEW k \in Call, SaveRow(k)
      PROVE  /\ InUse \subseteq InUse'
             /\ \A q \in InUse : /\ requests'[q].form = requests[q].form
                                 /\ requests'[q].approver = requests[q].approver
  <2>1. /\ call[k].row.form = requests[call[k].id].form
        /\ call[k].row.approver = requests[call[k].id].approver
    BY <1>2 DEF SaveRow, RequestsInv, CopiesDecided
  <2>2. QED
    BY <1>2, <2>1, Saved
<1>3. CASE UNCHANGED requests
  BY <1>3 DEF InUse
<1>4. QED
  BY <1>1, <1>2, <1>3, Unwritten

LEMMA CopiesStep ==
  ASSUME RequestsInv, Next
  PROVE  CopiesDecided'
<1> SUFFICES ASSUME NEW k \in Call, call'[k].at = "decided"
             PROVE  LET q == call'[k].id IN
                      /\ q \in InUse'
                      /\ call'[k].row.form = requests'[q].form
                      /\ call'[k].row.approver = requests'[q].approver
                      /\ call'[k].row.status # "pending"
                      /\ call'[k].caller = requests'[q].approver
  BY DEF CopiesDecided, At
<1>1. CASE call'[k] = call[k]
  <2>1. At(k, "decided") /\ call[k].id \in InUse
    BY <1>1 DEF RequestsInv, CopiesDecided, At
  <2>2. QED
    BY <1>1, <2>1, Fixed DEF RequestsInv, CopiesDecided
<1>2. CASE call'[k] # call[k]
  <2>1. ReadRow(k)
    <3>1. PICK j \in Call : Create(j) \/ Decide(j) \/ Refused(j)
      BY <1>2 DEF Next, Acts, Others, SetPolicy, SetManager
    <3>2. PICK state : Goto(j, state)
      BY <3>1 DEF Create, Decide, StartCreate, ReadPolicy, CheckQuota, CheckWeek, CheckMonth, FindApprover,
                  Insert, Refused, StartDecide, SaveRow, ReadRow, Return
    <3>3. j = k
      BY <1>2, <3>2 DEF Goto, RequestsInv, TypeOK
    <3>4. ~Create(k)
      <4>1. \A to : Goto(k, to) => to.at = "decided"
        BY DEF Goto, RequestsInv, TypeOK
      <4>2. ASSUME NEW f \in Asked, StartCreate(k, f)
            PROVE  FALSE
        <5>1. [at |-> "create", form |-> f].at = "decided"
          BY ONLY <4>1, <4>2 DEF StartCreate
        <5>2. QED
          BY <5>1
      <4>3. ~ReadPolicy(k)
        <5> SUFFICES ASSUME ReadPolicy(k) PROVE FALSE
          OBVIOUS
        <5>1. PICK p : Goto(k, [at |-> "limited", form |-> call[k].form, policy |-> p])
          BY DEF ReadPolicy
        <5>2. [at |-> "limited", form |-> call[k].form, policy |-> p].at = "decided"
          BY ONLY <4>1, <5>1
        <5>3. QED
          BY <5>2
      <4>4. ~CheckQuota(k) /\ ~CheckWeek(k) /\ ~CheckMonth(k)
        BY <4>1 DEF CheckQuota, CheckWeek, CheckMonth, Passed, Return, Idle
      <4>5. ~FindApprover(k)
        BY <4>1 DEF FindApprover, Return, Idle
      <4>6. ASSUME NEW q \in Request, Insert(k, q)
            PROVE  FALSE
        <5>1. Idle.at = "decided"
          BY ONLY <4>1, <4>6 DEF Insert, Return
        <5>2. QED
          BY <5>1 DEF Idle
      <4>7. QED
        BY <4>2, <4>3, <4>4, <4>5, <4>6 DEF Create
    <3>5. ~Refused(k)
      BY DEF Refused, Return, Goto, Idle, RequestsInv, TypeOK
    <3>6. ~SaveRow(k) /\ \A u \in Person, q \in Request, b \in BOOLEAN : ~StartDecide(k, u, q, b)
      BY DEF SaveRow, StartDecide, Return, Goto, Idle, RequestsInv, TypeOK
    <3>7. QED
      BY <3>1, <3>3, <3>4, <3>5, <3>6 DEF Decide
  <2> DEFINE c == call[k]
             row == [requests[c.id] EXCEPT !.status = IF c.approve THEN "approved"
                                                                   ELSE "rejected"]
  <2>2. /\ MayDecide(c.id, c.caller)
        /\ call'[k] = [at |-> "decided", id |-> c.id, caller |-> c.caller, row |-> row]
    BY <2>1 DEF ReadRow, Return, Goto, Idle, RequestsInv, TypeOK
  <2>3. c.id \in InUse /\ requests[c.id] \in Row /\ requests[c.id].approver = c.caller
    BY <2>2 DEF MayDecide, RequestsInv, TypeOK
  <2>4. /\ row.form = requests[c.id].form /\ row.approver = requests[c.id].approver
        /\ row.status # "pending"
    BY <2>3 DEF Row
  <2>5. /\ c.id \in InUse' /\ requests'[c.id].form = requests[c.id].form
        /\ requests'[c.id].approver = requests[c.id].approver
    BY <2>3, Fixed
  <2> HIDE DEF row
  <2>6. /\ call'[k].id = c.id /\ call'[k].row = row /\ call'[k].caller = c.caller
    BY <2>2
  <2>7. QED
    BY <2>3, <2>4, <2>5, <2>6
<1>3. QED
  BY <1>1, <1>2

LEMMA HistoryType ==
  ASSUME TypeOK, Next
  PROVE  cleared' \subseteq Call
  BY DEF TypeOK, Next, Remember, Fitting, Asking

LEMMA InvStep == RequestsInv /\ [Next]_requestVars => RequestsInv'
<1>1. ASSUME RequestsInv, Next
      PROVE  RequestsInv'
  BY <1>1, TableType, CallType, CopiesStep, HistoryType DEF RequestsInv, TypeOK
<1>2. ASSUME RequestsInv, UNCHANGED requestVars
      PROVE  RequestsInv'
  BY <1>2 DEF requestVars, RequestsInv, TypeOK, CopiesDecided, InUse, At
<1>3. QED
  BY <1>1, <1>2

----------------------------------------------------------------------------
\* RequestsInv is inductive; the properties of run requests follow.
THEOREM Requests == Spec => []RequestsInv
  BY InvInit, InvStep, PTL DEF Spec

\* Rows, policy and calls in progress keep their types: every request has an
\* approver, who is a user.
THEOREM RequestTypes == Spec => []TypeOK
<1>1. RequestsInv => TypeOK
  BY DEF RequestsInv
<1>2. QED
  BY <1>1, Requests, PTL

\* A request is never lost, its content and its approver never change.
THEOREM NothingRewritten == Spec => RequestsAreFixed
<1> DEFINE Same == /\ InUse \subseteq DOMAIN requests'
                   /\ \A q \in InUse : /\ requests'[q].form = requests[q].form
                                       /\ requests'[q].approver = requests[q].approver
<1>1. RequestsInv /\ [Next]_requestVars => [Same]_requestVars
  BY Fixed DEF InUse
<1>2. QED
  BY <1>1, Requests, PTL DEF Spec, RequestsAreFixed

\* Only the approver a request names decides it, and nobody undecides it.
THEOREM OnlyTheApprover == Spec => ApproverDecides
<1> DEFINE Right == \A q \in InUse : requests'[q].status # requests[q].status =>
                      /\ requests'[q].status # "pending"
                      /\ \E k \in Call : /\ At(k, "decided") /\ call[k].id = q
                                         /\ call[k].caller = requests[q].approver
<1>1. RequestsInv /\ [Next]_requestVars => [Right]_requestVars
  <2> SUFFICES ASSUME RequestsInv, Next
               PROVE  Right
    OBVIOUS
  <2>1. ASSUME NEW k \in Call, NEW q \in Request, Insert(k, q)
        PROVE  Right
    BY <2>1, Inserted DEF RequestsInv
  <2>2. ASSUME NEW k \in Call, SaveRow(k)
        PROVE  Right
    BY <2>2, Saved DEF SaveRow, RequestsInv, CopiesDecided
  <2>3. CASE UNCHANGED requests
    BY <2>3
  <2>4. QED
    BY <2>1, <2>2, <2>3, Unwritten
<1>2. QED
  BY <1>1, Requests, PTL DEF Spec, ApproverDecides

----------------------------------------------------------------------------
(* The calendar: the ranges the code counts in are weeks and months. *)

LEMMA MinIs ==
  ASSUME NEW S \in SUBSET Nat, S # {}
  PROVE  Min(S) \in S /\ \A y \in S : Min(S) <= y
<1>1. PICK x \in S : \A y \in S : ~(<<y, x>> \in OpToRel(<, Nat))
  BY WFMin, NatLessThanWellFounded
<1>2. \A y \in S : x <= y
  <2> SUFFICES ASSUME NEW y \in S PROVE ~(y < x)
    OBVIOUS
  <2>1. ~(<<y, x>> \in OpToRel(<, Nat))
    BY <1>1
  <2> QED
    BY <2>1 DEF OpToRel
<1> QED
  BY <1>2 DEF Min

LEMMA MaxIs ==
  ASSUME NEW S \in SUBSET Nat, S # {}, NEW d \in Nat, \A y \in S : y <= d
  PROVE  Max(S) \in S /\ \A y \in S : Max(S) >= y
<1> DEFINE T == {d - y : y \in S}
<1>0. \A y \in S : y \in Nat /\ d - y \in Nat
  OBVIOUS
<1>1. T \in SUBSET Nat /\ T # {}
  BY <1>0
<1>2. Min(T) \in T /\ \A t \in T : Min(T) <= t
  BY <1>1, MinIs
<1>3. PICK x \in S : Min(T) = d - x
  BY <1>2
<1>4. \A y \in S : d - x <= d - y
  BY <1>2, <1>3
<1>5. \A y \in S : x >= y
  BY <1>4
<1> QED
  BY <1>5 DEF Max

\* What can be read is the date of its day.
LEMMA DateOf ==
  ASSUME NEW t \in Nat
  PROVE  /\ Parsed(t) \in Nat
         /\ Readable(t) => t = Written(Parsed(t))
<1>1. t = 2 * (t \div 2) + (t % 2) /\ t % 2 \in 0..1 /\ t \div 2 \in Nat
  BY Z3
<1> QED
  BY <1>1 DEF Parsed, Readable, Written

\* wfh.go:92-101: Monday to Sunday, with Go's Sunday being weekday 0.
LEMMA WeekIs ==
  ASSUME NEW t \in Text, Readable(t), NEW u \in Nat, Readable(u)
  PROVE  u \in Week(t) <=> SameWeek(Parsed(u), Parsed(t))
<1> DEFINE d == Parsed(t)
           e == Parsed(u)
<1>1. d \in Nat /\ e \in Nat /\ u = 2 * e
  BY DateOf DEF Written
<1>2. Week(t) = LET weekday == IF (d + 1) % 7 = 0 THEN 7 ELSE (d + 1) % 7
                    monday == d - (weekday - 1)
                IN 2 * monday .. 2 * (monday + 6)
  BY DEF Week, Weekday, Written
<1> HIDE DEF d, e
<1>3. d = 7 * (d \div 7) + (d % 7) /\ d % 7 \in 0..6 /\ d \div 7 \in Nat
  BY <1>1, Z3
<1>4. (d + 1) % 7 = IF d % 7 = 6 THEN 0 ELSE (d % 7) + 1
  BY <1>1, Z3
<1>5. e = 7 * (e \div 7) + (e % 7) /\ e % 7 \in 0..6 /\ e \div 7 \in Nat
  BY <1>1, Z3
<1>6. u \in Week(t) <=> e \div 7 = d \div 7
  BY <1>1, <1>2, <1>3, <1>4, <1>5
<1> QED
  BY <1>6 DEF SameWeek, d, e

\* From the first day of a month or of a year to the day before the next.
LEMMA PeriodIs ==
  ASSUME NEW starts \in SUBSET Nat, NEW d \in Nat, Between(starts, d), NEW e \in Nat
  PROVE  Written(e) \in Period(starts, d) <=> SamePeriod(starts, e, d)
<1> DEFINE Past == {m \in starts : m <= d}
           Ahead == {m \in starts : m > d}
<1>1. Past # {} /\ Ahead # {}
  BY DEF Between
<1>2. Max(Past) \in Past /\ \A m \in Past : Max(Past) >= m
  BY <1>1, MaxIs
<1>3. Min(Ahead) \in Ahead /\ \A m \in Ahead : Min(Ahead) <= m
  BY <1>1, MinIs
<1> DEFINE a == Max(Past)
           b == Min(Ahead)
<1>4. Period(starts, d) = 2 * a .. 2 * (b - 1)
  BY DEF Period, Written
<1>5. /\ a \in starts /\ a <= d /\ \A m \in starts : m <= d => m <= a
      /\ b \in starts /\ b > d /\ \A m \in starts : m > d => b <= m
      /\ a \in Nat /\ b \in Nat
  BY <1>2, <1>3
<1> HIDE DEF a, b
<1>6. Written(e) \in Period(starts, d) <=> a <= e /\ e < b
  BY <1>4, <1>5 DEF Written
<1>7. ASSUME a <= e, e < b
      PROVE  SamePeriod(starts, e, d)
  BY <1>5, <1>7 DEF SamePeriod
<1>8. ASSUME SamePeriod(starts, e, d)
      PROVE  a <= e /\ e < b
  BY <1>5, <1>8 DEF SamePeriod
<1> QED
  BY <1>6, <1>7, <1>8

LEMMA MonthIs ==
  ASSUME NEW t \in Text, NEW u \in Nat, Readable(u)
  PROVE  u \in Month(t) <=> SameMonth(Parsed(u), Parsed(t))
<1>1. /\ Parsed(t) \in Nat /\ Parsed(u) \in Nat /\ u = Written(Parsed(u))
      /\ Firsts \in SUBSET Nat /\ Between(Firsts, Parsed(t))
  BY DateOf
<1> QED
  BY <1>1, PeriodIs DEF Month, SameMonth

LEMMA YearIs ==
  ASSUME NEW t \in Text, Readable(t), NEW u \in Nat, Readable(u)
  PROVE  u \in Year(t) <=> SameYear(Parsed(u), Parsed(t))
<1>1. /\ Parsed(t) \in Nat /\ Parsed(u) \in Nat /\ u = Written(Parsed(u))
      /\ NewYears \in SUBSET Nat /\ Between(NewYears, Parsed(t))
  BY DateOf DEF Readable
<1> QED
  BY <1>1, PeriodIs DEF Year, SameYear, Readable

----------------------------------------------------------------------------
(* What the checks count. *)

LEMMA ApprovedForms ==
  ASSUME TypeOK, NEW f, NEW q \in Approved(f)
  PROVE  /\ q \in InUse
         /\ f.kind = "leave" => requests[q].form \in LeaveForm
         /\ f.kind = "wfh" => requests[q].form \in WFHForm
<1>1. q \in InUse /\ requests[q].form \in Form /\ requests[q].form.kind = f.kind
  BY DEF Approved, TypeOK, Row
<1> QED
  BY <1>1 DEF Form, LeaveForm, WFHForm

\* The texts of a week or a month hold all its days, and maybe more.
LEMMA CountsEnough ==
  ASSUME TypeOK, IsFiniteSet(InUse), NEW f \in WFHForm, Readable(f.date)
  PROVE  /\ Count(f, Week(f.date)) \in Nat /\ Count(f, Week(f.date)) >= Near(f, SameWeek)
         /\ Count(f, Month(f.date)) \in Nat /\ Count(f, Month(f.date)) >= Near(f, SameMonth)
         /\ Near(f, SameWeek) \in Nat /\ Near(f, SameMonth) \in Nat
<1> DEFINE W == {q \in Approved(f) : /\ Readable(requests[q].form.date)
                                     /\ SameWeek(Parsed(requests[q].form.date), Parsed(f.date))}
           M == {q \in Approved(f) : /\ Readable(requests[q].form.date)
                                     /\ SameMonth(Parsed(requests[q].form.date), Parsed(f.date))}
           CW == {q \in Approved(f) : requests[q].form.date \in Week(f.date)}
           CM == {q \in Approved(f) : requests[q].form.date \in Month(f.date)}
<1>1. f.date \in Text /\ \A q \in Approved(f) : requests[q].form.date \in Nat
  BY ApprovedForms DEF WFHForm
<1>2. W \subseteq CW /\ M \subseteq CM
  BY <1>1, WeekIs, MonthIs
<1>3. CW \subseteq InUse /\ CM \subseteq InUse
  BY DEF Approved
<1>4. /\ Near(f, SameWeek) = Cardinality(W) /\ Near(f, SameMonth) = Cardinality(M)
      /\ Count(f, Week(f.date)) = Cardinality(CW) /\ Count(f, Month(f.date)) = Cardinality(CM)
  BY DEF Near, Count
<1> HIDE DEF W, M, CW, CM
<1>5. IsFiniteSet(CW) /\ IsFiniteSet(CM)
  BY <1>3, FS_Subset
<1>6. /\ IsFiniteSet(W) /\ IsFiniteSet(M)
      /\ Cardinality(W) <= Cardinality(CW) /\ Cardinality(M) <= Cardinality(CM)
  BY <1>2, <1>5, FS_Subset
<1>7. {Cardinality(W), Cardinality(M), Cardinality(CW), Cardinality(CM)} \subseteq Nat
  BY <1>5, <1>6, FS_CardinalityType
<1> QED
  BY <1>4, <1>6, <1>7

\* Finitely many leaves of finitely many days each.
LEMMA FiniteDays ==
  ASSUME NEW S, IsFiniteSet(S), NEW D, \A q \in S : IsFiniteSet(D[q])
  PROVE  IsFiniteSet(UNION {{q} \X D[q] : q \in S})
<1> DEFINE T == {{q} \X D[q] : q \in S}
           g == [q \in S |-> {q} \X D[q]]
<1>1. g \in Surjection(S, T)
  BY DEF Surjection
<1>2. IsFiniteSet(T)
  BY <1>1, FS_Surjection
<1>3. ASSUME NEW q \in S
      PROVE  IsFiniteSet({q} \X D[q])
  BY FS_Singleton, FS_Product
<1> QED
  BY <1>2, <1>3, FS_UNION

\* leave.go:142-147: only an end that is no date makes a negative number of days.
LEMMA SpanIs ==
  ASSUME NEW f \in LeaveForm
  PROVE  /\ Span(f) \in Int
         /\ (Readable(f.start) => Readable(f.end)) => Span(f) >= 0
         /\ Dated(f) => DaysOff(f) = Parsed(f.start) .. Parsed(f.start) + Span(f) - 1
<1>1. /\ f.kind = "leave" /\ f.start \in Nat /\ f.end \in Nat /\ f.start <= f.end
      /\ Horizon \in Nat
  BY DEF LeaveForm
<1> DEFINE a == Parsed(f.start)
           b == Parsed(f.end)
<1>2. /\ a \in Nat /\ b \in Nat
      /\ a # 0 => f.start = 2 * a
      /\ b # 0 => f.end = 2 * b
  BY <1>1, DateOf DEF Readable, Written
<1>3. Span(f) = (IF b - a > Horizon THEN Horizon ELSE IF b - a < -Horizon THEN -Horizon ELSE b - a) + 1
  BY DEF Span
<1>4. DaysOff(f) = {d \in a .. b : d <= a + Horizon}
  BY DEF DaysOff
<1>5. (Readable(f.start) <=> a # 0) /\ (Readable(f.end) <=> b # 0)
  BY DEF Readable
<1> HIDE DEF a, b
<1>6. Span(f) \in Int
  BY <1>1, <1>2, <1>3
<1>7. (a # 0 => b # 0) => a <= b
  BY <1>1, <1>2
<1>8. ASSUME a <= b
      PROVE  Span(f) >= 0 /\ DaysOff(f) = a .. a + Span(f) - 1
  BY <1>1, <1>2, <1>3, <1>4, <1>8
<1> QED
  BY <1>1, <1>5, <1>6, <1>7, <1>8 DEF Dated, a

\* The days of a request.
LEMMA OwnDays ==
  ASSUME NEW f \in LeaveForm, Dated(f)
  PROVE  Cardinality(DaysOff(f)) = Span(f)
<1>1. Parsed(f.start) \in Nat /\ Span(f) \in Int /\ Span(f) >= 0
  BY SpanIs, DateOf DEF LeaveForm, Dated
<1>2. DaysOff(f) = Parsed(f.start) .. Parsed(f.start) + Span(f) - 1
  BY SpanIs
<1> QED
  BY <1>1, <1>2, FS_Interval

LEMMA OwnDaysType ==
  ASSUME NEW f \in LeaveForm
  PROVE  IsFiniteSet(DaysOff(f)) /\ Cardinality(DaysOff(f)) \in Nat
<1>1. Parsed(f.start) \in Nat /\ Parsed(f.end) \in Nat
  BY DateOf DEF LeaveForm
<1>2. DaysOff(f) \subseteq Parsed(f.start) .. Parsed(f.end)
  BY DEF DaysOff
<1>3. IsFiniteSet(Parsed(f.start) .. Parsed(f.end))
  BY <1>1, FS_Interval
<1>4. IsFiniteSet(DaysOff(f))
  BY <1>2, <1>3, FS_Subset
<1> QED
  BY <1>4, FS_CardinalityType

LEMMA FiniteUse ==
  ASSUME NEW S, IsFiniteSet(S), NEW r, \A q \in S : r[q].form \in LeaveForm
  PROVE  IsFiniteSet(UNION {{q} \X DaysOff(r[q].form) : q \in S})
<1> DEFINE D == [q \in S |-> DaysOff(r[q].form)]
<1>1. \A q \in S : IsFiniteSet(D[q])
  BY OwnDaysType
<1>2. UNION {{q} \X DaysOff(r[q].form) : q \in S} = UNION {{q} \X D[q] : q \in S}
  OBVIOUS
<1> HIDE DEF D
<1> QED
  BY <1>1, <1>2, FiniteDays

\* The year the code adds up has all the days of the calendar's year, unless a leave
\* of it has no end.
LEMMA DaysEnough ==
  ASSUME TypeOK, IsFiniteSet(InUse), NEW f \in LeaveForm, Dated(f), ~Spoilt(f)
  PROVE  Used(f) \in Nat /\ Days(f) \in Int /\ Days(f) >= Used(f)
<1> DEFINE U == UNION {{q} \X DaysOff(requests[q].form) : q \in Beside(f)}
<1>1. f.kind = "leave" /\ f.start \in Text /\ Readable(f.start)
  BY DEF LeaveForm, Dated
<1>2. \A q \in OfYear(f) : q \in InUse /\ q \in Approved(f) /\ requests[q].form \in LeaveForm
  BY <1>1, ApprovedForms DEF OfYear
<1>3. \A q \in Approved(f) : requests[q].form.start \in Nat
  BY <1>1, ApprovedForms DEF LeaveForm
<1>4. Beside(f) = {q \in OfYear(f) : Readable(requests[q].form.start)}
  BY <1>1, <1>3, YearIs DEF Beside, OfYear
<1>5. \A q \in Beside(f) : Dated(requests[q].form) /\ requests[q].form \in LeaveForm
  BY <1>2, <1>4 DEF Spoilt, Dated, LeaveForm
<1>6. \A q \in OfYear(f) : Span(requests[q].form) \in Int /\ Span(requests[q].form) >= 0
  BY <1>2, <1>4, <1>5, SpanIs DEF Dated, LeaveForm
<1>7. Owed(f) = {}
  <2>1. \A q \in OfYear(f) : {q} \X (1 .. -Span(requests[q].form)) = {}
    BY <1>6
  <2> QED
    BY <2>1 DEF Owed
<1>8. IsFiniteSet(Taken(f))
  <2> DEFINE D == [q \in OfYear(f) |-> 1 .. Span(requests[q].form)]
  <2>1. IsFiniteSet(OfYear(f))
    BY <1>2, FS_Subset
  <2>2. \A q \in OfYear(f) : IsFiniteSet(D[q])
    BY <1>6, FS_Interval
  <2>3. Taken(f) = UNION {{q} \X D[q] : q \in OfYear(f)}
    BY DEF Taken
  <2> HIDE DEF D
  <2> QED
    BY <2>1, <2>2, <2>3, FiniteDays
<1>9. Cardinality(U) <= Cardinality(Taken(f))
  <2> DEFINE first(q) == Parsed(requests[q].form.start)
             g == [x \in U |-> <<x[1], x[2] - first(x[1]) + 1>>]
  <2>1. ASSUME NEW x \in U
        PROVE  /\ x[1] \in OfYear(f) /\ first(x[1]) \in Nat /\ x = <<x[1], x[2]>>
               /\ x[2] \in first(x[1]) .. first(x[1]) + Span(requests[x[1]].form) - 1
    <3>1. PICK q \in Beside(f) : x \in {q} \X DaysOff(requests[q].form)
      OBVIOUS
    <3>2. requests[q].form \in LeaveForm /\ Dated(requests[q].form) /\ q \in OfYear(f)
      BY <1>4, <1>5
    <3>3. DaysOff(requests[q].form) = first(q) .. first(q) + Span(requests[q].form) - 1
      BY <3>2, SpanIs
    <3>4. first(q) \in Nat
      BY <3>2, DateOf DEF LeaveForm
    <3> QED
      BY <3>1, <3>2, <3>3, <3>4
  <2>2. ASSUME NEW x \in U
        PROVE  g[x] \in Taken(f)
    <3>1. g[x][2] \in 1 .. Span(requests[x[1]].form)
      BY <1>6, <2>1
    <3>2. g[x] = <<x[1], g[x][2]>>
      OBVIOUS
    <3>3. g[x] \in {x[1]} \X (1 .. Span(requests[x[1]].form))
      BY <3>1, <3>2
    <3> QED
      BY <2>1, <3>3 DEF Taken
  <2>3. ASSUME NEW x \in U, NEW y \in U, g[x] = g[y]
        PROVE  x = y
    <3>1. x[1] = y[1] /\ x[2] - first(x[1]) + 1 = y[2] - first(y[1]) + 1
      BY <2>3
    <3>2. x[2] \in Int /\ y[2] \in Int /\ first(x[1]) \in Nat
      BY <1>6, <2>1
    <3>3. x[2] = y[2]
      BY <3>1, <3>2
    <3> QED
      BY <2>1, <3>1, <3>3
  <2>5. g \in [U -> Taken(f)]
    BY <2>2
  <2> HIDE DEF g
  <2>4. g \in Injection(U, Taken(f))
    <3>1. DOMAIN g = U
      BY <2>5
    <3> QED
      BY <2>3, <2>5, <3>1 DEF Injection, IsInjective
  <2> QED
    BY <1>8, <2>4, FS_Injection
<1>10. Days(f) = Cardinality(Taken(f)) - 0 /\ Used(f) = Cardinality(U)
  BY <1>7, FS_EmptySet DEF Days, Used
<1>11. IsFiniteSet(U)
  <2>1. Beside(f) \subseteq InUse
    BY <1>2, <1>4
  <2>2. IsFiniteSet(InUse)
    OBVIOUS
  <2>3. IsFiniteSet(Beside(f))
    BY <2>1, <2>2, FS_Subset
  <2>4. \A q \in Beside(f) : requests[q].form \in LeaveForm /\ Dated(requests[q].form)
    BY <1>4, <1>5
  <2> QED
    BY <2>3, <2>4, FiniteUse
<1> HIDE DEF U
<1> QED
  BY <1>8, <1>9, <1>10, <1>11, FS_CardinalityType

----------------------------------------------------------------------------
(* What is approved only grows, unless Undone. *)

LEMMA ApprovedGrows ==
  ASSUME RequestsInv, Next, ~Undone, NEW f
  PROVE  /\ Approved(f) \subseteq Approved(f)'
         /\ \A q \in Approved(f) : requests'[q].form = requests[q].form
<1>1. \A q \in Approved(f) : /\ q \in InUse /\ q \in InUse'
                             /\ requests'[q].form = requests[q].form
                             /\ requests'[q].status = "approved"
  BY Fixed DEF Approved, Undone
<1>2. Approved(f) \subseteq Approved(f)'
  BY <1>1 DEF Approved
<1> QED
  BY <1>1, <1>2

LEMMA NearGrows ==
  ASSUME RequestsInv, IsFiniteSet(InUse'), Next, ~Undone, NEW f
  PROVE  /\ Near(f, SameWeek)' >= Near(f, SameWeek)
         /\ Near(f, SameMonth)' >= Near(f, SameMonth)
         /\ {Near(f, SameWeek), Near(f, SameWeek)', Near(f, SameMonth), Near(f, SameMonth)'} \subseteq Nat
<1> DEFINE W == {q \in Approved(f) : /\ Readable(requests[q].form.date)
                                     /\ SameWeek(Parsed(requests[q].form.date), Parsed(f.date))}
           M == {q \in Approved(f) : /\ Readable(requests[q].form.date)
                                     /\ SameMonth(Parsed(requests[q].form.date), Parsed(f.date))}
<1>1. W \subseteq W' /\ M \subseteq M'
  BY ApprovedGrows
<1>2. W' \subseteq InUse' /\ M' \subseteq InUse'
  BY DEF Approved
<1>3. /\ Near(f, SameWeek) = Cardinality(W) /\ Near(f, SameWeek)' = Cardinality(W')
      /\ Near(f, SameMonth) = Cardinality(M) /\ Near(f, SameMonth)' = Cardinality(M')
  BY DEF Near
<1> HIDE DEF W, M
<1>4. IsFiniteSet(W') /\ IsFiniteSet(M')
  BY <1>2, FS_Subset
<1>5. /\ Cardinality(W) <= Cardinality(W') /\ Cardinality(M) <= Cardinality(M')
      /\ IsFiniteSet(W) /\ IsFiniteSet(M)
  BY <1>1, <1>4, FS_Subset
<1>6. Cardinality(W) \in Nat /\ Cardinality(M) \in Nat /\ Cardinality(W') \in Nat /\ Cardinality(M') \in Nat
  BY <1>4, <1>5, FS_CardinalityType
<1> QED
  BY <1>3, <1>5, <1>6

LEMMA UsedGrows ==
  ASSUME RequestsInv, IsFiniteSet(InUse'), Next, ~Undone, NEW f, f.kind = "leave"
  PROVE  Used(f)' >= Used(f) /\ Used(f) \in Nat /\ Used(f)' \in Nat
<1>0. TypeOK'
  BY InvStep DEF RequestsInv
<1> DEFINE U == UNION {{q} \X DaysOff(requests[q].form) : q \in Beside(f)}
<1>1. /\ Beside(f) \subseteq Beside(f)'
      /\ \A q \in Beside(f) : requests'[q].form = requests[q].form
  BY ApprovedGrows DEF Beside
<1>2. U \subseteq U'
  BY <1>1
<1>3. IsFiniteSet(U')
  <2>1. \A q \in Beside(f)' : q \in InUse' /\ requests'[q] \in Row /\ requests'[q].form.kind = "leave"
    BY <1>0 DEF Beside, Approved, TypeOK
  <2>2. \A q \in Beside(f)' : requests'[q].form \in LeaveForm
    BY <2>1 DEF Row, Form, WFHForm
  <2>3. IsFiniteSet(Beside(f)')
    BY <2>1, FS_Subset
  <2> QED
    BY <2>2, <2>3, FiniteUse
<1>4. IsFiniteSet(U) /\ Cardinality(U) <= Cardinality(U')
  BY <1>2, <1>3, FS_Subset
<1>5. Used(f) = Cardinality(U) /\ Used(f)' = Cardinality(U')
  BY DEF Used
<1> HIDE DEF U
<1> QED
  BY <1>3, <1>4, <1>5, FS_CardinalityType

----------------------------------------------------------------------------
(* The quota. *)

\* Whoever is acting, only its own call changes.
LEMMA OwnCall ==
  ASSUME TypeOK, Next, NEW k \in Call, call'[k] # call[k]
  PROVE  Create(k) \/ Decide(k) \/ Refused(k)
<1>1. PICK j \in Call : Create(j) \/ Decide(j) \/ Refused(j)
  BY DEF Next, Acts, Others, SetPolicy, SetManager
<1>2. PICK state : Goto(j, state)
  BY <1>1 DEF Create, Decide, StartCreate, ReadPolicy, CheckQuota, CheckWeek, CheckMonth, FindApprover,
              Insert, Refused, StartDecide, SaveRow, ReadRow, Return
<1> QED
  BY <1>1, <1>2 DEF Goto, TypeOK

LEMMA FiniteTable ==
  ASSUME RequestsInv, IsFiniteSet(InUse), Next
  PROVE  IsFiniteSet(InUse')
<1>1. ASSUME NEW k \in Call, NEW q \in Request, Insert(k, q)
      PROVE  IsFiniteSet(InUse')
  BY <1>1, Inserted, FS_AddElement DEF RequestsInv
<1>2. ASSUME NEW k \in Call, SaveRow(k)
      PROVE  IsFiniteSet(InUse')
  BY <1>2, Saved
<1>3. CASE UNCHANGED requests
  BY <1>3 DEF InUse
<1> QED
  BY <1>1, <1>2, <1>3, Unwritten

\* What the history says of a call that has not fitted and was not misled.
LEMMA Unlucky ==
  ASSUME TypeOK, Next, NEW k \in Asking', k \notin cleared'
  PROVE  /\ k \in Call /\ ~Undone /\ ~Fits(call[k].form)'
         /\ k \in Asking => k \notin cleared
         /\ call'[k] # call[k] => ~Misled(k)
  BY DEF Next, Remember, Fitting, Asking

\* A call that waits is stopped by as much as before.
LEMMA StillStopped ==
  ASSUME RequestsInv, IsFiniteSet(InUse'), Next, ~Undone,
         NEW k \in Call, call'[k] = call[k], Stopped(k)
  PROVE  Stopped(k)'
<1>1. PICK f : f = call[k].form
  OBVIOUS
<1>2. f = call'[k].form
  BY <1>1
<1>3. CASE At(k, "create")
  BY <1>3 DEF Stopped, At
<1>4. CASE At(k, "limited") /\ f.kind = "leave" /\ Used(f) + Cardinality(DaysOff(f)) > call[k].policy[f.type]
  <2>1. /\ f \in LeaveForm /\ call[k].policy \in Policy
    BY <1>1, <1>4, Locals DEF RequestsInv, At, Limited, Form, LeaveForm, WFHForm
  <2>2. Cardinality(DaysOff(f)) \in Nat /\ call[k].policy[f.type] \in Nat
    BY <2>1, OwnDaysType DEF LeaveForm, Policy, Limit
  <2>3. Used(f)' + Cardinality(DaysOff(f)) > call[k].policy[f.type]
    BY <1>4, <2>2, UsedGrows
  <2> QED
    BY <1>2, <1>4, <2>3 DEF Stopped, At
<1>5. CASE /\ At(k, "limited") /\ f.kind = "wfh"
           /\ Near(f, SameWeek) >= call[k].policy["week"] \/ Near(f, SameMonth) >= call[k].policy["month"]
  <2>1. call[k].policy["week"] \in Nat /\ call[k].policy["month"] \in Nat
    BY <1>5, Locals DEF RequestsInv, At, Limited, Policy, Limit
  <2>2. Near(f, SameWeek)' >= call[k].policy["week"] \/ Near(f, SameMonth)' >= call[k].policy["month"]
    BY <1>5, <2>1, NearGrows
  <2> QED
    BY <1>2, <1>5, <2>2 DEF Stopped, At
<1>6. CASE At(k, "weekly") /\ f.kind = "wfh" /\ Near(f, SameMonth) >= call[k].policy["month"]
  <2>1. call[k].policy["month"] \in Nat
    BY <1>6, Locals DEF RequestsInv, At, Limited, Policy, Limit
  <2>2. Near(f, SameMonth)' >= call[k].policy["month"]
    BY <1>6, <2>1, NearGrows
  <2> QED
    BY <1>2, <1>6, <2>2 DEF Stopped, At
<1> QED
  BY <1>1, <1>3, <1>4, <1>5, <1>6 DEF Stopped

\* A call that goes on, and still has not fitted, meets a limit at its next check.
LEMMA StoppedAgain ==
  ASSUME RequestsInv, RequestsInv', IsFiniteSet(InUse), IsFiniteSet(InUse'), Next, NEW k \in Asking',
         k \notin cleared', call'[k] # call[k],
         k \in Asking => Stopped(k) /\ ~Fits(call[k].form)
  PROVE  Stopped(k)'
<1> DEFINE c == call[k]
           f == c.form
<1>1. /\ k \in Call /\ ~Fits(call[k].form)' /\ ~Misled(k)
      /\ call'[k].at \in {"create", "limited", "weekly", "checked", "routed"}
  BY Unlucky DEF RequestsInv, Asking
<1>2. Create(k) \/ Decide(k) \/ Refused(k)
  BY <1>1, OwnCall DEF RequestsInv
<1>3. \A to : Goto(k, to) => call'[k] = to
  BY <1>1 DEF Goto, RequestsInv, TypeOK
<1>4. ~Return(k)
  BY <1>1, <1>3 DEF Return, Idle
<1>5. ~Refused(k)
  BY <1>4 DEF Refused
<1>6. ~Decide(k)
  <2>1. \A u \in Person, q \in Request, b \in BOOLEAN : ~StartDecide(k, u, q, b)
    BY <1>1, <1>3 DEF StartDecide
  <2>2. ~ReadRow(k)
    <3> SUFFICES ASSUME ReadRow(k) PROVE FALSE
      OBVIOUS
    <3> DEFINE row == [requests[c.id] EXCEPT !.status = IF c.approve THEN "approved" ELSE "rejected"]
    <3>1. Goto(k, [at |-> "decided", id |-> c.id, caller |-> c.caller, row |-> row])
      BY <1>4 DEF ReadRow
    <3> HIDE DEF row
    <3>2. call'[k].at = "decided"
      BY <1>3, <3>1
    <3> QED
      BY <1>1, <3>2
  <2>3. ~SaveRow(k)
    BY <1>4 DEF SaveRow
  <2> QED
    BY <2>1, <2>2, <2>3 DEF Decide
<1>7. ASSUME NEW g \in Asked, StartCreate(k, g)
      PROVE  Stopped(k)'
  <2>1. call'[k].at = "create"
    BY <1>3, <1>7 DEF StartCreate
  <2> QED
    BY <2>1 DEF Stopped, At
<1>8. ASSUME ReadPolicy(k)
      PROVE  Stopped(k)'
  <2>1. /\ At(k, "create") /\ UNCHANGED <<requests, policy>>
        /\ f \in Form
    BY <1>1, <1>8, Locals DEF ReadPolicy, At, RequestsInv
  <2>2. PICK p \in Policy : Goto(k, [at |-> "limited", form |-> f, policy |-> p])
    BY <1>8 DEF ReadPolicy, RequestsInv, TypeOK
  <2>3. call'[k] = [at |-> "limited", form |-> f, policy |-> p]
    BY <1>3, <2>2
  <2>4. p = policy
    BY <1>1, <2>1, <2>3 DEF Misled
  <2>5. call'[k].at = "limited" /\ call'[k].form = f /\ call'[k].policy = policy'
    BY <2>1, <2>3, <2>4
  <2>6. f \in Form /\ policy' \in Policy
    BY <2>1, <2>2, <2>4
  <2>7. PICK g : g = f
    OBVIOUS
  <2>8. ~Fits(g)'
    BY <1>1, <2>5, <2>7
  <2>9. CASE g.kind = "leave"
    <3>1. Used(g)' + Cardinality(DaysOff(g)) > policy'[g.type]
      <4>1. ~(Used(g)' + Cardinality(DaysOff(g)) <= policy'[g.type])
        BY <2>8, <2>9 DEF Fits
      <4>2. g \in LeaveForm
        BY <2>6, <2>7, <2>9 DEF Form, WFHForm
      <4>3. Cardinality(DaysOff(g)) \in Nat /\ policy'[g.type] \in Nat
        BY <2>6, <4>2, OwnDaysType DEF LeaveForm, Policy, Limit
      <4>4. Used(g)' \in Nat
        BY <1>1, <2>9, UsedGrows, Unlucky DEF RequestsInv
      <4> QED
        BY <4>1, <4>3, <4>4
    <3> QED
      BY <2>5, <2>7, <2>9, <3>1 DEF Stopped, At
  <2>10. CASE g.kind = "wfh"
    <3>1. ~(Near(g, SameWeek)' < policy'["week"] /\ Near(g, SameMonth)' < policy'["month"])
      BY <2>8, <2>10 DEF Fits
    <3>2. Near(g, SameWeek)' \in Nat /\ Near(g, SameMonth)' \in Nat
      BY NearGrows, Unlucky DEF RequestsInv
    <3>3. policy'["week"] \in Nat /\ policy'["month"] \in Nat
      BY <2>6 DEF Policy, Limit
    <3>4. Near(g, SameWeek)' >= policy'["week"] \/ Near(g, SameMonth)' >= policy'["month"]
      BY <3>1, <3>2, <3>3
    <3> QED
      BY <2>5, <2>7, <2>10, <3>4 DEF Stopped, At
  <2> QED
    BY <2>6, <2>7, <2>9, <2>10 DEF Form, LeaveForm, WFHForm
<1>9. ~CheckQuota(k)
  <2> SUFFICES ASSUME CheckQuota(k) PROVE FALSE
    OBVIOUS
  <2>1. At(k, "limited") /\ f.kind = "leave" /\ k \in Asking
    BY <1>1 DEF CheckQuota, Asking, At
  <2>2. Used(f) + Cardinality(DaysOff(f)) > c.policy[f.type]
    BY <2>1 DEF Stopped, At
  <2>3. f \in LeaveForm /\ c.policy \in Policy
    BY <1>1, <2>1, Locals DEF RequestsInv, At, Limited, Form, WFHForm
  <2>4. Dated(f) /\ ~Spoilt(f)
    BY <2>1 DEF Fits
  <2>5. /\ Used(f) \in Nat /\ Days(f) \in Int /\ Days(f) >= Used(f)
        /\ Cardinality(DaysOff(f)) = Span(f) /\ Span(f) \in Int
    BY <2>3, <2>4, DaysEnough, OwnDays, SpanIs DEF RequestsInv
  <2>6. c.policy[f.type] \in Nat
    BY <2>3 DEF LeaveForm, Policy, Limit
  <2>7. Days(f) + Span(f) > c.policy[f.type]
    BY <2>2, <2>5, <2>6
  <2> QED
    BY <1>1, <2>1, <2>7 DEF Misled
<1>10. ASSUME CheckWeek(k)
       PROVE  Stopped(k)'
  <2>1. /\ At(k, "limited") /\ f.kind = "wfh" /\ k \in Asking /\ UNCHANGED requests
        /\ c \in Limited /\ f \in WFHForm
    BY <1>1, <1>10, Locals DEF CheckWeek, Asking, At, RequestsInv, Limited, Form, LeaveForm
  <2>2. Goto(k, [at |-> "weekly", form |-> f, policy |-> c.policy])
    BY <1>4, <1>10 DEF CheckWeek
  <2>3. call'[k] = [at |-> "weekly", form |-> f, policy |-> c.policy]
    BY <1>3, <2>2
  <2>4. call'[k].at = "weekly" /\ call'[k].form = f /\ call'[k].policy = c.policy
    BY <2>3
  <2>5. Readable(f.date)
    BY <2>1 DEF Fits, Dated
  <2>10. /\ Count(f, Week(f.date)) \in Nat /\ Near(f, SameWeek) \in Nat
         /\ Count(f, Week(f.date)) >= Near(f, SameWeek) /\ c.policy["week"] \in Nat
    BY <2>1, <2>5, CountsEnough DEF RequestsInv, Limited, Policy, Limit
  <2>11. ~(Count(f, Week(f.date)) >= c.policy["week"])
    BY <1>1, <2>1 DEF Misled, At
  <2>6. ~(Near(f, SameWeek) >= c.policy["week"])
    BY <2>10, <2>11
  <2>7. Near(f, SameMonth) >= c.policy["month"]
    BY <2>1, <2>6 DEF Stopped, At
  <2>8. PICK g : g = f
    OBVIOUS
  <2>9. Near(g, SameMonth)' = Near(g, SameMonth)
    BY <2>1 DEF Near, Approved, InUse
  <2> QED
    BY <2>1, <2>4, <2>7, <2>8, <2>9 DEF Stopped, At
<1>11. ~CheckMonth(k)
  <2> SUFFICES ASSUME CheckMonth(k) PROVE FALSE
    OBVIOUS
  <2>1. At(k, "weekly") /\ k \in Asking
    BY <1>1 DEF CheckMonth, Asking, At
  <2>2. f.kind = "wfh" /\ Near(f, SameMonth) >= c.policy["month"]
    BY <2>1 DEF Stopped, At
  <2>3. f \in WFHForm
    BY <1>1, <2>1, <2>2, Locals DEF At, RequestsInv, Form, LeaveForm
  <2>4. Readable(f.date)
    BY <2>1, <2>2 DEF Fits, Dated
  <2>5. c.policy["month"] \in Nat
    BY <1>1, <2>1, Locals DEF At, RequestsInv, Limited, Policy, Limit
  <2>6. /\ Count(f, Month(f.date)) \in Nat /\ Near(f, SameMonth) \in Nat
        /\ Count(f, Month(f.date)) >= Near(f, SameMonth)
    BY <2>3, <2>4, CountsEnough DEF RequestsInv
  <2>7. Count(f, Month(f.date)) >= c.policy["month"]
    BY <2>2, <2>5, <2>6
  <2> QED
    BY <1>1, <2>1, <2>7 DEF Misled
<1>12. ~FindApprover(k)
  <2> SUFFICES ASSUME FindApprover(k) PROVE FALSE
    OBVIOUS
  <2>1. At(k, "checked") /\ k \in Asking
    BY <1>1 DEF FindApprover, Asking, At
  <2> QED
    BY <2>1 DEF Stopped, At
<1>13. \A q \in Request : ~Insert(k, q)
  BY <1>4 DEF Insert
<1> QED
  BY <1>2, <1>5, <1>6, <1>7, <1>8, <1>9, <1>10, <1>11, <1>12, <1>13 DEF Create

LEMMA QuotaStep ==
  ASSUME QuotaInv, Next
  PROVE  QuotaInv'
<1>1. RequestsInv /\ RequestsInv' /\ IsFiniteSet(InUse) /\ IsFiniteSet(InUse')
  BY InvStep, FiniteTable DEF QuotaInv
<1>2. Fitting' \subseteq cleared'
  BY DEF Next, Remember
<1>3. ASSUME NEW k \in Asking', k \notin cleared'
      PROVE  Stopped(k)'
  <2>1. /\ k \in Call /\ ~Undone
        /\ k \in Asking => Stopped(k) /\ ~Fits(call[k].form)
    BY <1>1, <1>3, Unlucky DEF QuotaInv, RequestsInv, Fitting
  <2>2. CASE call'[k] = call[k]
    <3>1. k \in Asking
      BY <2>1, <2>2 DEF Asking
    <3> QED
      BY <1>1, <2>1, <2>2, <3>1, StillStopped
  <2>3. CASE call'[k] # call[k]
    BY <1>1, <1>3, <2>1, <2>3, StoppedAgain
  <2> QED
    BY <2>2, <2>3
<1> QED
  BY <1>1, <1>2, <1>3 DEF QuotaInv

\* leave.go:112 and wfh.go:89 (service): for any policies, calendar and forms, and
\* however decisions, changes of the policy and other calls come between its queries,
\* a request that passes its checks has been within the policy in force at some
\* moment of its call, by the calendar, unless a query failed or an approval was
\* overwritten.  The texts the code compares and the dates it makes of them are those
\* of the code, unreadable ones included; the promise is for real dates.
THEOREM AdmittedRightly == Spec => []Admitted
<1>1. Init => QuotaInv
  BY InvInit, FS_EmptySet DEF Init, QuotaInv, InUse, Asking, Fitting, Idle
<1>2. QuotaInv /\ [Next]_requestVars => QuotaInv'
  <2>1. ASSUME QuotaInv, UNCHANGED requestVars
        PROVE  QuotaInv'
    <3>1. RequestsInv' /\ IsFiniteSet(InUse')
      BY <2>1, InvStep DEF QuotaInv, requestVars, InUse
    <3>2. /\ Asking' = Asking /\ cleared' = cleared
          /\ \A k \in Call : Stopped(k)' <=> Stopped(k)
      BY <2>1 DEF requestVars, Asking, Stopped, At, Used, Beside, Near, Approved, InUse
    <3>3. Fitting' = Fitting
      BY <2>1 DEF requestVars, Asking, Fitting, Fits, Spoilt, Used, Beside, Near, Approved, InUse
    <3> QED
      BY <2>1, <3>1, <3>2, <3>3 DEF QuotaInv, Asking
  <2> QED
    BY <2>1, QuotaStep
<1>3. QuotaInv => Admitted
  BY DEF QuotaInv, Admitted, Stopped, At, Asking
<1> QED
  BY <1>1, <1>2, <1>3, PTL DEF Spec
============================================================================
