------------------------------- MODULE MCHub -------------------------------
(***************************************************************************)
(* Two users in two rooms; the first has two connections, so that a        *)
(* refresh, a second tab in another room and a switch onto one's own older *)
(* connection all happen.  Every channel holds one entry: full and empty   *)
(* are one step apart.                                                     *)
(***************************************************************************)
EXTENDS HubSystem, TLC

CONSTANTS c1, c2, c3, u1, u2, r1, r2, d1

MCClient == {c1, c2, c3}
MCUser == {u1, u2}
MCRoom == {r1, r2}
MCData == {d1}
MCId == (c1 :> u1) @@ (c2 :> u1) @@ (c3 :> u2)

\* Commands for a room and for a user; they only differ in whom the hub waits for.
MCCommand == {ToRoom(r1, d1), ToUser(u1, d1)}

\* Both users may move, u1 there and back, and ask for a move to nowhere.
MCRequest == {[room |-> r1, id |-> u1, newRoom |-> r2],
              [room |-> r2, id |-> u1, newRoom |-> r1],
              [room |-> r1, id |-> u1, newRoom |-> None],
              [room |-> r1, id |-> u2, newRoom |-> r2]}

\* c1 and c2 differ in nothing but their names.
Symmetry == Permutations({c1, c2})
============================================================================
