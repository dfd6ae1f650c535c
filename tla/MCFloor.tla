------------------------------ MODULE MCFloor ------------------------------
(***************************************************************************)
(* Two clients and two rooms, one board with one task, two chat messages   *)
(* of which a history shows one.                                           *)
(***************************************************************************)
EXTENDS FloorSystem, TLC

CONSTANTS c1, c2, r1, r2, b1, t1, m1, m2

MCClient == {c1, c2}
MCRoom == {r1, r2}
MCBoard == {b1}
MCTask == {t1}
MCMessage == {m1, m2}
MCItem == MCBoard \cup MCTask \cup MCMessage
MCPools == {MCBoard \cup MCTask, MCMessage}

\* Nothing tells the clients from each other, nor the rooms, nor the messages.
Symmetry == Permutations(MCClient) \cup Permutations(MCRoom) \cup Permutations(MCMessage)
============================================================================
