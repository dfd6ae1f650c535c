------------------------------- MODULE Users -------------------------------
(***************************************************************************)
(* Accounts and their management by HR: internal/auth/service/auth.go over *)
(* its repository, behind RequireAuth.  A call reads the row of its caller *)
(* (RequireAuth), then the row it is about, then saves that row whole with *)
(* one thing changed; other calls run in between.                          *)
(*                                                                         *)
(* Tokens are signatures over a user id that nobody can take back, so any  *)
(* user who ever registered may call; passwords are left out, and of the   *)
(* profile, which UpdateProfile changes, only a version is kept.           *)
(***************************************************************************)
CONSTANTS
  Call,      \* HTTP calls that can be in progress at the same time
  User,      \* user ids, handed out by the server
  Email,
  Role,      \* the roles Role.Valid knows
  HR,
  NoRole,    \* any other text sent as a role
  Manager,   \* what is sent as the id of a manager, which nobody checks
  Nobody,    \* no manager
  Profile,   \* contents of a profile
  Blank      \* the profile of a new user

ASSUME UsersAssumption ==
  /\ HR \in Role /\ NoRole \notin Role
  /\ Nobody \in Manager /\ Blank \in Profile

VARIABLES
  rows,      \* table users: a function on the ids in use
  call,      \* what each goroutine is doing, with its local variables
  entitled,  \* history: calls whose caller has been of HR since they began
  promised,  \* history: what the calls that succeeded have made of each row
  raced      \* history: rows two calls have read and not all of them saved

usersVars == <<rows, call, entitled, promised, raced>>

Row == [email : Email, role : Role, manager : Manager,
        profile : Profile, deleted : BOOLEAN]

\* What a call asks for: one column of one row and its new value.
Columns == {"role", "manager", "profile", "deleted"}
Values(c) == CASE c = "role" -> Role \cup {NoRole}
               [] c = "manager" -> Manager
               [] c = "profile" -> Profile
               [] c = "deleted" -> {TRUE}
Valid(change) == change.column = "role" => change.value \in Role
Change == UNION {[of : User, column : {c}, value : Values(c)] : c \in Columns}

\* The states of a call, one record set for each place it can be at.
Idle == [at |-> "idle"]
CallState == {Idle}
  \cup [at : {"token"}, caller : User, change : Change]
  \cup [at : {"allowed"}, change : Change]
  \cup [at : {"found"}, change : Change, row : Row]

InUse == DOMAIN rows
Live == {u \in InUse : ~rows[u].deleted}
OfHR == {u \in Live : rows[u].role = HR}

At(k, place) == call[k].at = place
Goto(k, state) == call' = [call EXCEPT ![k] = state]
Return(k) == Goto(k, Idle)

Init ==
  /\ rows = <<>> /\ promised = <<>>
  /\ call = [k \in Call |-> Idle]
  /\ entitled = {} /\ raced = {}

TypeOK ==
  /\ InUse \subseteq User
  /\ \A u \in InUse : rows[u] \in Row
  /\ DOMAIN promised = InUse
  /\ \A u \in InUse : promised[u] \in Row
  /\ call \in [Call -> CallState]
  /\ entitled \subseteq Call /\ raced \subseteq User

----------------------------------------------------------------------------
(* Registration: one insert, which the unique index refuses when any row,  *)
(* of a deleted user too, has the email.                                   *)

NewRow(e, r) == [email |-> e, role |-> r, manager |-> Nobody, profile |-> Blank,
                 deleted |-> FALSE]
With(f, u, row) == [i \in DOMAIN f \cup {u} |-> IF i = u THEN row ELSE f[i]]

\* Mutant: the email is looked up with ByEmail, which hides deleted users.
Register_ByEmail(u, e, r) ==
  /\ u \in User \ InUse
  /\ \A i \in Live : rows[i].email # e
  /\ rows' = With(rows, u, NewRow(e, r))
  /\ promised' = With(promised, u, NewRow(e, r))
  /\ UNCHANGED call

Register(u, e, r) ==
  /\ u \in User \ InUse
  /\ \A i \in InUse : rows[i].email # e
  /\ rows' = With(rows, u, NewRow(e, r))
  /\ promised' = With(promised, u, NewRow(e, r))
  /\ UNCHANGED call

----------------------------------------------------------------------------
(* SetManager, UpdateProfile, ChangeRole, DeleteUser. *)

Start(k, u, change) ==
  /\ At(k, "idle") /\ u \in InUse
  /\ Goto(k, [at |-> "token", caller |-> u, change |-> change])
  /\ UNCHANGED <<rows, promised>>

\* Mutant: the caller is looked up among deleted users, too.
Authenticate_Deleted(k) ==
  /\ At(k, "token")
  /\ LET c == call[k] IN
       IF rows[c.caller].role = HR /\ Valid(c.change)
         THEN Goto(k, [at |-> "allowed", change |-> c.change])
         ELSE Return(k)
  /\ UNCHANGED <<rows, promised>>

\* Mutant: the role is not validated.
Authenticate_AnyRole(k) ==
  /\ At(k, "token")
  /\ LET c == call[k] IN
       IF c.caller \in OfHR
         THEN Goto(k, [at |-> "allowed", change |-> c.change])
         ELSE Return(k)
  /\ UNCHANGED <<rows, promised>>

\* RequireAuth reads the caller; 401 when there is none, 403 when not of HR,
\* 400 when the role is unknown.
Authenticate(k) ==
  /\ At(k, "token")
  /\ LET c == call[k] IN
       IF c.caller \in OfHR /\ Valid(c.change)
         THEN Goto(k, [at |-> "allowed", change |-> c.change])
         ELSE Return(k)
  /\ UNCHANGED <<rows, promised>>

\* repo.ByID: 404 when the row is not there or deleted.
Find(k) ==
  /\ At(k, "allowed")
  /\ LET c == call[k] IN
       IF c.change.of \in Live
         THEN Goto(k, [at |-> "found", change |-> c.change,
                       row |-> rows[c.change.of]])
         ELSE Return(k)
  /\ UNCHANGED <<rows, promised>>

\* What two calls race for is promised to nobody.
Promise(c) ==
  promised' = [promised EXCEPT ![c.of] =
                 IF c.of \in raced THEN rows'[c.of]
                                  ELSE [@ EXCEPT ![c.column] = c.value]]

\* Mutant: what the request does not name is blanked.
Save_Blanks(k) ==
  /\ At(k, "found") /\ call[k].change.column # "deleted"
  /\ LET c == call[k] IN
       /\ rows' = [rows EXCEPT ![c.change.of] =
                     [NewRow(c.row.email, c.row.role)
                        EXCEPT ![c.change.column] = c.change.value]]
       /\ Promise(c.change)
  /\ Return(k)

\* repo.Update: Save writes the whole copy.  A row that has been deleted since is
\* not found by the UPDATE, and Save goes on to insert over it: it is back.
Save(k) ==
  /\ At(k, "found") /\ call[k].change.column # "deleted"
  /\ LET c == call[k] IN
       /\ rows' = [rows EXCEPT ![c.change.of] =
                     [c.row EXCEPT ![c.change.column] = c.change.value]]
       /\ Promise(c.change)
  /\ Return(k)

\* repo.Delete sets deleted_at and no other column.
Delete(k) ==
  /\ At(k, "found") /\ call[k].change.column = "deleted"
  /\ rows' = [rows EXCEPT ![call[k].change.of].deleted = TRUE]
  /\ Promise(call[k].change)
  /\ Return(k)

\* A query fails: 401, 404 or 500.
Refused(k) ==
  /\ ~At(k, "idle")
  /\ Return(k)
  /\ UNCHANGED <<rows, promised>>

----------------------------------------------------------------------------
Manage(k) ==
  \/ \E u \in User, c \in Change : Start(k, u, c)
  \/ Authenticate(k) \/ Find(k) \/ Save(k) \/ Delete(k) \/ Refused(k)

Has(k, u) == At(k, "found") /\ call[k].change.of = u
Racing(u) == \E i, j \in Call : i # j /\ Has(i, u) /\ Has(j, u)

Remember ==
  /\ raced' = {u \in User : /\ \E k \in Call : Has(k, u)'
                            /\ u \in raced \/ Racing(u)'}
  /\ entitled' = {k \in Call : /\ call'[k] # Idle
                               /\ \/ k \in entitled
                                  \/ At(k, "token")' /\ call'[k].caller \in OfHR'}

Next ==
  /\ \/ \E u \in User, e \in Email, r \in Role : Register(u, e, r)
     \/ \E k \in Call : Manage(k)
  /\ Remember

Spec == Init /\ [][Next]_usersVars

----------------------------------------------------------------------------
\* Rows that exist are changed, deleted and brought back only by calls whose
\* caller was an undeleted user of HR at some time since the call began: who was
\* demoted or deleted before has no power left, whatever tokens are still good
\* (middleware.go:15 and the checks of callerRole in service/auth.go).
PowerIsCurrent ==
  [][\A u \in InUse : rows'[u] # rows[u] =>
       \E k \in entitled : Has(k, u)]_usersVars

\* auth.go:15 (repository): nobody ever registers with the email of another, not
\* even one who was deleted; so one who is back shares it with nobody.
EmailsUnique ==
  \A u, v \in InUse : rows[u].email = rows[v].email => u = v

\* As long as no two calls are at a row at the same time, every answer of success
\* is kept: reading, changing and saving a copy of the whole row amounts to
\* writing one column, and a deleted user stays deleted (repository/auth.go:101 and
\* 129).
AnswersAreKept ==
  \A u \in InUse : rows[u] = promised[u]

----------------------------------------------------------------------------
(* What holds these up: the inductive invariant of UsersProofs. *)

\* What has been judged may be stored, and was asked for by one with the power;
\* a call whose caller has the power now will be remembered to have had it.
Judged ==
  \A k \in Call :
    /\ call[k].at \in {"allowed", "found"} => k \in entitled /\ Valid(call[k].change)
    /\ At(k, "token") /\ call[k].caller \in OfHR => k \in entitled

\* No copy is of a row that is not there, or has another email than the row; and
\* it is the row as it is, as long as no other call has one.
CopiesFit ==
  \A k \in Call : At(k, "found") =>
    LET u == call[k].change.of IN
      /\ u \in InUse
      /\ call[k].row.email = rows[u].email
      /\ u \notin raced => call[k].row = rows[u]

\* No race goes unnoticed.
RacesSeen == \A u \in User : Racing(u) => u \in raced

UsersInv ==
  TypeOK /\ EmailsUnique /\ AnswersAreKept /\ Judged /\ CopiesFit /\ RacesSeen
============================================================================
