------------------------------ MODULE MCUsers ------------------------------
(***************************************************************************)
(* Two users, two calls at a time.                                         *)
(***************************************************************************)
EXTENDS Users, TLC

CONSTANTS k1, k2, u1, u2, e1, e2

MCCall == {k1, k2}
MCUser == {u1, u2}
MCEmail == {e1, e2}

\* Calls, users and emails differ by nothing but their names.
Symmetry == Permutations(MCCall) \cup Permutations(MCUser) \cup Permutations(MCEmail)
============================================================================
