------------------------------ MODULE MCRouter ------------------------------
(***************************************************************************)
(* Constants for the server as a whole; the .cfg chooses the connections   *)
(* and what their peers say.                                               *)
(***************************************************************************)
EXTENDS RouterSystem, TLC

CONSTANTS c1, c2, u1, u2, r1, r2

MCClient == {c1, c2}
MCUser == {u1, u2}
MCRoom == {r1, r2}
SameUser == (c1 :> u1) @@ (c2 :> u1)
TwoUsers == (c1 :> u1) @@ (c2 :> u2)

Switches == {[type |-> "switch_room", room |-> r] : r \in MCRoom}
Moves == {[type |-> "move"]}

\* Something of everything a peer may say.
Everything ==
  {[type |-> t] : t \in {"move", "object", "edit"}}
    \cup {[type |-> "call_status", inCall |-> TRUE],
          [type |-> "switch_room", room |-> r2],
          [type |-> "signal", to |-> u2]}
    \cup {[type |-> "chat", scope |-> s, to |-> None] : s \in {"room", "all"}}
    \cup {[type |-> "chat", scope |-> "private", to |-> u] : u \in {u2, None}}
    \cup {[type |-> "call", to |-> u] : u \in {u2, None}}
============================================================================
