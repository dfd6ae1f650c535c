---------------------------- MODULE UsersProofs ----------------------------
(***************************************************************************)
(* Theorems about accounts, for every number of calls, users and emails.   *)
(***************************************************************************)
EXTENDS Users, TLAPS

USE UsersAssumption DEF UsersAssumption

----------------------------------------------------------------------------
(* Rows and changes of them. *)

\* What a change asks for.
LEMMA ChangeType ==
  ASSUME NEW c \in Change
  PROVE  /\ c.of \in User
         /\ c.column \in Columns
         /\ c.value \in Values(c.column)
<1>1. PICK d \in Columns : c \in [of : User, column : {d}, value : Values(d)]
  BY DEF Change
<1>2. QED
  BY <1>1

\* A row with a valid change in it is a row, with the same email.
LEMMA Stored ==
  ASSUME NEW row \in Row, NEW c \in Change, Valid(c)
  PROVE  /\ [row EXCEPT ![c.column] = c.value] \in Row
         /\ [row EXCEPT ![c.column] = c.value].email = row.email
<1>1. c.column \in Columns /\ c.value \in Values(c.column)
  BY ChangeType
<1>2. CASE c.column = "role"
  BY <1>2 DEF Row, Valid
<1>3. CASE c.column = "manager"
  BY <1>1, <1>3 DEF Row, Values
<1>4. CASE c.column = "profile"
  BY <1>1, <1>4 DEF Row, Values
<1>5. CASE c.column = "deleted"
  BY <1>1, <1>5 DEF Row, Values
<1>6. QED
  BY <1>1, <1>2, <1>3, <1>4, <1>5 DEF Columns

LEMMA NewRowType ==
  ASSUME NEW e \in Email, NEW r \in Role
  PROVE  NewRow(e, r) \in Row
  BY DEF NewRow, Row

----------------------------------------------------------------------------
(* The bookkeeping of the history variables. *)

\* Calls that may change a row were judged while their caller had the power.
LEMMA JudgedStep ==
  ASSUME TypeOK, Judged, Next
  PROVE  Judged'
<1> SUFFICES ASSUME NEW k \in Call
             PROVE  /\ call'[k].at \in {"allowed", "found"}
                         => k \in entitled' /\ Valid(call'[k].change)
                    /\ At(k, "token")' /\ call'[k].caller \in OfHR' => k \in entitled'
  BY DEF Judged, At, Valid
<1>1. At(k, "token")' /\ call'[k].caller \in OfHR' => k \in entitled'
  BY DEF Next, Remember, At, Idle
<1>2. ASSUME call'[k].at \in {"allowed", "found"}
      PROVE  k \in entitled /\ Valid(call'[k].change)
  <2>1. CASE call'[k] = call[k]
    BY <1>2, <2>1 DEF Judged
  <2>2. CASE call'[k] # call[k]
    <3>1. PICK j \in Call : Manage(j)
      BY <2>2 DEF Next, Register
    <3>2. j = k
      BY <2>2, <3>1 DEF Manage, Start, Authenticate, Find, Save, Delete, Refused,
                        Return, Goto, TypeOK
    <3>3. Authenticate(k) \/ Find(k)
      BY <1>2, <3>1, <3>2 DEF Manage, Start, Authenticate, Find, Save, Delete, Refused,
                        Return, Goto, TypeOK, Idle
    <3>4. CASE Authenticate(k)
      BY <1>2, <3>4 DEF Authenticate, Return, Goto, TypeOK, Idle, Judged, At
    <3>5. CASE Find(k)
      BY <1>2, <3>5 DEF Find, Return, Goto, TypeOK, Idle, Judged, At
    <3>6. QED
      BY <3>3, <3>4, <3>5
  <2>3. QED
    BY <2>1, <2>2
<1>3. call'[k].at \in {"allowed", "found"} => k \in entitled'
  BY <1>2 DEF Next, Remember, Idle
<1>4. QED
  BY <1>1, <1>2, <1>3

\* Two calls at a row at the same time are noticed at once, and remembered until
\* the last of them is through.
LEMMA RacesStep ==
  ASSUME TypeOK, RacesSeen, Next
  PROVE  /\ RacesSeen'
         /\ \A k \in Call, u \in User : Has(k, u)' /\ u \in raced => u \in raced'
<1>1. raced \subseteq User
  BY DEF TypeOK
<1>2. RacesSeen'
  BY DEF RacesSeen, Next, Remember, Racing
<1>3. QED
  BY <1>1, <1>2 DEF Next, Remember

----------------------------------------------------------------------------
(* The type invariant. *)

\* The parts of TypeOK that every action has in common.
LEMMA HistoryType ==
  ASSUME Next
  PROVE  entitled' \subseteq Call /\ raced' \subseteq User
  BY DEF Next, Remember

\* What a call becomes is a state of a call.
LEMMA GotoType ==
  ASSUME TypeOK, NEW k \in Call, NEW state \in CallState, Goto(k, state)
  PROVE  call' \in [Call -> CallState]
  BY DEF TypeOK, Goto

\* A copied row that is saved, or a row that is deleted, is a row.
LEMMA FoundType ==
  ASSUME TypeOK, Judged, NEW k \in Call, At(k, "found")
  PROVE  /\ call[k].row \in Row
         /\ call[k].change \in Change /\ Valid(call[k].change)
<1>1. call[k] \in [at : {"found"}, change : Change, row : Row]
  BY DEF TypeOK, CallState, At, Idle
<1>2. QED
  BY <1>1 DEF Judged, At

\* A promise keeps the rows promised rows.
LEMMA PromiseType ==
  ASSUME TypeOK, NEW c \in Change, Valid(c), Promise(c), InUse' = InUse,
         \A u \in InUse : rows'[u] \in Row
  PROVE  DOMAIN promised' = InUse' /\ \A u \in InUse : promised'[u] \in Row
<1>1. DOMAIN promised = InUse /\ \A u \in InUse : promised[u] \in Row
  BY DEF TypeOK
<1>2. \A u \in InUse : [promised[u] EXCEPT ![c.column] = c.value] \in Row
  BY <1>1, Stored
<1>3. promised' = [promised EXCEPT ![c.of] =
                     IF c.of \in raced THEN rows'[c.of]
                                      ELSE [promised[c.of] EXCEPT ![c.column] = c.value]]
  BY DEF Promise
<1>4. DOMAIN promised' = InUse
  BY <1>1, <1>3
<1>5. ASSUME NEW u \in InUse
      PROVE  promised'[u] \in Row
  <2>1. CASE u = c.of
    BY <1>1, <1>2, <1>3, <2>1
  <2>2. CASE u # c.of
    BY <1>1, <1>3, <2>2
  <2>3. QED
    BY <2>1, <2>2
<1>6. QED
  BY <1>4, <1>5

LEMMA TypeStep ==
  ASSUME TypeOK, Judged, Next
  PROVE  TypeOK'
<1>1. entitled' \subseteq Call /\ raced' \subseteq User
  BY HistoryType
<1>2. Idle \in CallState
  BY DEF CallState
<1>3. ASSUME NEW u \in User, NEW e \in Email, NEW r \in Role, Register(u, e, r)
      PROVE  TypeOK'
  <2>1. NewRow(e, r) \in Row
    BY NewRowType
  <2>2. /\ InUse' = InUse \cup {u} /\ DOMAIN promised' = InUse'
        /\ \A i \in InUse' : rows'[i] \in Row /\ promised'[i] \in Row
    BY <1>3, <2>1 DEF Register, With, InUse, TypeOK
  <2>3. QED
    BY <1>1, <1>3, <2>2 DEF TypeOK, Register
<1>4. ASSUME NEW k \in Call, NEW u \in User, NEW c \in Change, Start(k, u, c)
      PROVE  TypeOK'
  <2>1. [at |-> "token", caller |-> u, change |-> c] \in CallState
    BY DEF CallState
  <2>2. call' \in [Call -> CallState]
    BY <1>4, <2>1, GotoType DEF Start
  <2>3. QED
    BY <1>1, <1>4, <2>2 DEF TypeOK, Start, InUse
<1>5. ASSUME NEW k \in Call, Authenticate(k)
      PROVE  TypeOK'
  <2>1. call[k].change \in Change
    BY <1>5 DEF TypeOK, CallState, Authenticate, At, Idle
  <2>2. [at |-> "allowed", change |-> call[k].change] \in CallState
    BY <2>1 DEF CallState
  <2>3. call' \in [Call -> CallState]
    BY <1>2, <1>5, <2>2, GotoType DEF Authenticate, Return
  <2>4. QED
    BY <1>1, <1>5, <2>3 DEF TypeOK, Authenticate, InUse
<1>6. ASSUME NEW k \in Call, Find(k)
      PROVE  TypeOK'
  <2>1. call[k].change \in Change
    BY <1>6 DEF TypeOK, CallState, Find, At, Idle
  <2>2. ASSUME call[k].change.of \in Live
        PROVE  [at |-> "found", change |-> call[k].change,
                row |-> rows[call[k].change.of]] \in CallState
    BY <2>1, <2>2 DEF CallState, TypeOK, Live
  <2>3. call' \in [Call -> CallState]
    BY <1>2, <1>6, <2>2, GotoType DEF Find, Return
  <2>4. QED
    BY <1>1, <1>6, <2>3 DEF TypeOK, Find, InUse
<1>7. ASSUME NEW k \in Call, Save(k)
      PROVE  TypeOK'
  <2>1. call[k].row \in Row /\ call[k].change \in Change /\ Valid(call[k].change)
    BY <1>7, FoundType DEF Save
  <2>2. InUse' = InUse /\ \A u \in InUse : rows'[u] \in Row
    <3> DEFINE c == call[k].change
               new == [call[k].row EXCEPT ![c.column] = c.value]
    <3>1. new \in Row
      BY <2>1, Stored
    <3>2. rows' = [rows EXCEPT ![c.of] = new]
      BY <1>7 DEF Save
    <3> HIDE DEF c, new
    <3>3. QED
      BY <3>1, <3>2 DEF InUse, TypeOK
  <2>3. DOMAIN promised' = InUse' /\ \A u \in InUse : promised'[u] \in Row
    BY <1>7, <2>1, <2>2, PromiseType DEF Save
  <2>4. call' \in [Call -> CallState]
    BY <1>2, <1>7, GotoType DEF Save, Return
  <2>5. QED
    BY <1>1, <2>2, <2>3, <2>4 DEF TypeOK
<1>8. ASSUME NEW k \in Call, Delete(k)
      PROVE  TypeOK'
  <2>1. call[k].change \in Change /\ Valid(call[k].change)
    BY <1>8, FoundType DEF Delete
  <2>2. InUse' = InUse /\ \A u \in InUse : rows'[u] \in Row
    <3> DEFINE d == call[k].change.of
               new == [rows[d] EXCEPT !.deleted = TRUE]
    <3>1. rows' = [rows EXCEPT ![d] = new]
      BY <1>8 DEF Delete
    <3>2. d \in InUse => new \in Row
      BY DEF TypeOK, Row
    <3> HIDE DEF d, new
    <3>3. QED
      BY <3>1, <3>2 DEF InUse, TypeOK
  <2>3. DOMAIN promised' = InUse' /\ \A u \in InUse : promised'[u] \in Row
    BY <1>8, <2>1, <2>2, PromiseType DEF Delete
  <2>4. call' \in [Call -> CallState]
    BY <1>2, <1>8, GotoType DEF Delete, Return
  <2>5. QED
    BY <1>1, <2>2, <2>3, <2>4 DEF TypeOK
<1>9. ASSUME NEW k \in Call, Refused(k)
      PROVE  TypeOK'
  <2>1. call' \in [Call -> CallState]
    BY <1>2, <1>9, GotoType DEF Refused, Return
  <2>2. QED
    BY <1>1, <1>9, <2>1 DEF TypeOK, Refused, InUse
<1>10. QED
  BY <1>3, <1>4, <1>5, <1>6, <1>7, <1>8, <1>9 DEF Next, Manage

----------------------------------------------------------------------------
(* The invariant. *)

\* A copy that is saved, or a deletion, changes one row and no email.
LEMMA Written ==
  ASSUME UsersInv, NEW k \in Call, Save(k) \/ Delete(k)
  PROVE  /\ At(k, "found") /\ call[k].change.of \in InUse
         /\ InUse' = InUse
         /\ \A u \in InUse : rows'[u].email = rows[u].email
         /\ \A u \in InUse : u # call[k].change.of => rows'[u] = rows[u]
<1> DEFINE c == call[k].change
<1>1. At(k, "found")
  BY DEF Save, Delete
<1>2. c.of \in InUse /\ call[k].row.email = rows[c.of].email
  BY <1>1 DEF UsersInv, CopiesFit
<1>3. call[k].row \in Row /\ c \in Change /\ Valid(c) /\ rows[c.of] \in Row
  BY <1>1, <1>2, FoundType DEF UsersInv, TypeOK
<1>4. PICK new : new.email = rows[c.of].email /\ rows' = [rows EXCEPT ![c.of] = new]
  <2>1. CASE Save(k)
    <3>1. [call[k].row EXCEPT ![c.column] = c.value].email = rows[c.of].email
      BY <1>2, <1>3, Stored
    <3>2. QED
      BY <2>1, <3>1 DEF Save
  <2>2. CASE Delete(k)
    <3>1. [rows[c.of] EXCEPT !.deleted = TRUE].email = rows[c.of].email
      BY <1>3 DEF Row
    <3>2. QED
      BY <2>2, <3>1 DEF Delete
  <2>3. QED
    BY <2>1, <2>2
<1> HIDE DEF c
<1>5. QED
  BY <1>1, <1>2, <1>4 DEF InUse, c

\* What the other actions do to the table.
LEMMA Unwritten ==
  ASSUME Next, ~\E k \in Call : Save(k) \/ Delete(k)
  PROVE  \/ \E u \in User, e \in Email, r \in Role : Register(u, e, r)
         \/ UNCHANGED <<rows, promised>>
  BY DEF Next, Manage, Start, Authenticate, Find, Refused

LEMMA EmailsStep ==
  ASSUME UsersInv, Next
  PROVE  EmailsUnique'
<1>1. ASSUME NEW u \in User, NEW e \in Email, NEW r \in Role, Register(u, e, r)
      PROVE  EmailsUnique'
  <2>1. InUse' = InUse \cup {u} /\ u \notin InUse
    BY <1>1 DEF Register, With, InUse
  <2>2. rows'[u].email = e /\ \A i \in InUse : rows'[i] = rows[i] /\ rows[i].email # e
    BY <1>1 DEF Register, With, InUse, NewRow
  <2>3. QED
    BY <2>1, <2>2 DEF UsersInv, EmailsUnique
<1>2. ASSUME NEW k \in Call, Save(k) \/ Delete(k)
      PROVE  EmailsUnique'
  BY <1>2, Written DEF UsersInv, EmailsUnique
<1>3. CASE UNCHANGED <<rows, promised>>
  BY <1>3 DEF UsersInv, EmailsUnique, InUse
<1>4. QED
  BY <1>1, <1>2, <1>3, Unwritten

LEMMA AnswersStep ==
  ASSUME UsersInv, Next
  PROVE  AnswersAreKept'
<1>0. DOMAIN promised = InUse /\ \A u \in InUse : rows[u] = promised[u]
  BY DEF UsersInv, TypeOK, AnswersAreKept
<1>1. ASSUME NEW u \in User, NEW e \in Email, NEW r \in Role, Register(u, e, r)
      PROVE  AnswersAreKept'
  BY <1>0, <1>1 DEF Register, With, InUse, AnswersAreKept
<1>2. ASSUME NEW k \in Call, Save(k)
      PROVE  AnswersAreKept'
  <2> DEFINE c == call[k].change
             new == [call[k].row EXCEPT ![c.column] = c.value]
             kept == [promised[c.of] EXCEPT ![c.column] = c.value]
  <2>1. c.of \notin raced => new = kept
    BY <1>0, <1>2 DEF Save, UsersInv, CopiesFit
  <2>2. /\ rows' = [rows EXCEPT ![c.of] = new]
        /\ promised' = [promised EXCEPT ![c.of] = IF c.of \in raced THEN rows'[c.of] ELSE kept]
    BY <1>2 DEF Save, Promise
  <2> HIDE DEF c, new, kept
  <2>3. QED
    BY <1>0, <2>1, <2>2 DEF AnswersAreKept, InUse
<1>3. ASSUME NEW k \in Call, Delete(k)
      PROVE  AnswersAreKept'
  <2> DEFINE c == call[k].change
             new == [rows[c.of] EXCEPT !.deleted = TRUE]
             kept == [promised[c.of] EXCEPT ![c.column] = c.value]
  <2>1. c.column = "deleted" /\ c.value = TRUE /\ c.of \in InUse
    <3>1. c \in Change /\ c.column = "deleted" /\ c.of \in InUse
      BY <1>3, FoundType, Written DEF Delete, UsersInv
    <3>2. c.value \in Values("deleted")
      BY <3>1, ChangeType
    <3>3. QED
      BY <3>1, <3>2 DEF Values
  <2>2. new = kept
    BY <1>0, <2>1
  <2>3. /\ rows' = [rows EXCEPT ![c.of] = new]
        /\ promised' = [promised EXCEPT ![c.of] = IF c.of \in raced THEN rows'[c.of] ELSE kept]
    BY <1>3 DEF Delete, Promise
  <2> HIDE DEF c, new, kept
  <2>4. QED
    BY <1>0, <2>2, <2>3 DEF AnswersAreKept, InUse
<1>4. CASE UNCHANGED <<rows, promised>>
  BY <1>0, <1>4 DEF AnswersAreKept, InUse
<1>5. QED
  BY <1>1, <1>2, <1>3, <1>4, Unwritten

\* The copy of a call that stays where it is goes on to fit.
LEMMA CopyStays ==
  ASSUME UsersInv, Next, NEW j \in Call, call'[j] = call[j], At(j, "found")
  PROVE  LET u == call[j].change.of IN
           /\ u \in InUse'
           /\ call[j].row.email = rows'[u].email
           /\ u \notin raced' => call[j].row = rows'[u]
<1> DEFINE u == call[j].change.of
<1>1. /\ u \in InUse /\ InUse \subseteq User
      /\ call[j].row.email = rows[u].email
      /\ u \notin raced => call[j].row = rows[u]
  BY DEF UsersInv, CopiesFit, TypeOK
<1>2. u \notin raced' => u \notin raced
  <2>1. Has(j, u)'
    BY DEF Has, At
  <2>2. QED
    BY <1>1, <2>1, RacesStep DEF UsersInv
<1>3. ASSUME NEW v \in User, NEW e \in Email, NEW r \in Role, Register(v, e, r)
      PROVE  u \in InUse' /\ rows'[u] = rows[u]
  BY <1>1, <1>3 DEF Register, With, InUse
<1>4. ASSUME NEW k \in Call, Save(k) \/ Delete(k)
      PROVE  /\ u \in InUse' /\ rows'[u].email = rows[u].email
             /\ u \notin raced => rows'[u] = rows[u]
  <2>1. /\ At(k, "found") /\ InUse' = InUse /\ rows'[u].email = rows[u].email
        /\ u # call[k].change.of => rows'[u] = rows[u]
    BY <1>1, <1>4, Written
  <2>2. k # j
    <3>1. call'[k] = Idle
      BY <1>4 DEF Save, Delete, Return, Goto, UsersInv, TypeOK
    <3>2. QED
      BY <3>1 DEF Idle, At
  <2>3. u = call[k].change.of => u \in raced
    BY <1>1, <2>1, <2>2 DEF UsersInv, RacesSeen, Racing, Has
  <2>4. QED
    BY <1>1, <2>1, <2>3
<1>5. CASE UNCHANGED <<rows, promised>>
  BY <1>1, <1>2, <1>5 DEF InUse
<1> HIDE DEF u
<1>6. /\ u \in InUse' /\ rows'[u].email = rows[u].email
      /\ u \notin raced => rows'[u] = rows[u]
  BY <1>1, <1>3, <1>4, <1>5, Unwritten DEF InUse
<1>7. QED
  BY <1>1, <1>2, <1>6 DEF u

LEMMA CopiesStep ==
  ASSUME UsersInv, Next
  PROVE  CopiesFit'
<1> SUFFICES ASSUME NEW j \in Call, At(j, "found")'
             PROVE  LET u == call'[j].change.of IN
                      /\ u \in InUse'
                      /\ call'[j].row.email = rows'[u].email
                      /\ u \notin raced' => call'[j].row = rows'[u]
  BY DEF CopiesFit
<1>1. CASE call'[j] = call[j]
  BY <1>1, CopyStays DEF At
<1>2. CASE call'[j] # call[j]
  <2>1. PICK k \in Call : Manage(k)
    BY <1>2 DEF Next, Register
  <2>2. k = j
    BY <1>2, <2>1 DEF Manage, Start, Authenticate, Find, Save, Delete, Refused,
                      Return, Goto, UsersInv, TypeOK
  <2>3. Find(j)
    BY <2>1, <2>2 DEF Manage, Start, Authenticate, Save, Delete, Refused,
                      Return, Goto, UsersInv, TypeOK, At, Idle
  <2>4. /\ call'[j] = [at |-> "found", change |-> call[j].change,
                       row |-> rows[call[j].change.of]]
        /\ call[j].change.of \in Live
    BY <2>3 DEF Find, Return, Goto, UsersInv, TypeOK, At, Idle
  <2>5. QED
    BY <2>3, <2>4 DEF Find, Live, InUse
<1>3. QED
  BY <1>1, <1>2

LEMMA InvInit == Init => UsersInv
  BY DEF Init, UsersInv, TypeOK, EmailsUnique, AnswersAreKept, Judged, CopiesFit,
         RacesSeen, Racing, Has, At, InUse, Idle, CallState

LEMMA InvStep == UsersInv /\ [Next]_usersVars => UsersInv'
<1> SUFFICES ASSUME UsersInv, [Next]_usersVars
             PROVE  UsersInv'
  OBVIOUS
<1>1. CASE Next
  <2>1. TypeOK' /\ Judged' /\ RacesSeen'
    BY <1>1, TypeStep, JudgedStep, RacesStep DEF UsersInv
  <2>2. QED
    BY <1>1, <2>1, EmailsStep, AnswersStep, CopiesStep DEF UsersInv
<1>2. CASE UNCHANGED usersVars
  BY <1>2 DEF usersVars, UsersInv, TypeOK, EmailsUnique, AnswersAreKept, Judged,
              CopiesFit, RacesSeen, Racing, Has, At, InUse, OfHR, Live
<1>3. QED
  BY <1>1, <1>2

----------------------------------------------------------------------------
\* UsersInv is inductive; the properties of run users follow.
THEOREM Accounts == Spec => []UsersInv
  BY InvInit, InvStep, PTL DEF Spec

\* Rows, copies and calls in progress keep their types; no row gets a role that
\* Role.Valid does not know.
THEOREM UsersTypes == Spec => []TypeOK
<1>1. UsersInv => TypeOK
  BY DEF UsersInv
<1>2. QED
  BY <1>1, Accounts, PTL

\* No two accounts, deleted ones included, have the same email.
THEOREM OneAccountPerEmail == Spec => []EmailsUnique
<1>1. UsersInv => EmailsUnique
  BY DEF UsersInv
<1>2. QED
  BY <1>1, Accounts, PTL

\* Without a race, saving whole copies amounts to writing single columns.
THEOREM NothingLostWithoutARace == Spec => []AnswersAreKept
<1>1. UsersInv => AnswersAreKept
  BY DEF UsersInv
<1>2. QED
  BY <1>1, Accounts, PTL

\* Who has lost the role, or the account, before a call changes no row by it.
THEOREM PowerEnds == Spec => PowerIsCurrent
<1> DEFINE Power == \A u \in InUse : rows'[u] # rows[u] => \E k \in entitled : Has(k, u)
<1>1. UsersInv /\ [Next]_usersVars => [Power]_usersVars
  <2> SUFFICES ASSUME UsersInv, Next
               PROVE  Power
    OBVIOUS
  <2>1. ASSUME NEW u \in User, NEW e \in Email, NEW r \in Role, Register(u, e, r)
        PROVE  Power
    BY <2>1 DEF Register, With, InUse
  <2>2. ASSUME NEW k \in Call, Save(k) \/ Delete(k)
        PROVE  Power
    <3>1. k \in entitled /\ Has(k, call[k].change.of)
      BY <2>2, Written DEF UsersInv, Judged, At, Has
    <3>2. QED
      BY <2>2, <3>1, Written
  <2>3. CASE UNCHANGED <<rows, promised>>
    BY <2>3
  <2>4. QED
    BY <2>1, <2>2, <2>3, Unwritten
<1>2. QED
  BY <1>1, Accounts, PTL DEF Spec, PowerIsCurrent
============================================================================
