---------------------------- MODULE MCPositions ----------------------------
(***************************************************************************)
(* Two keys, so that a pipeline can be written in part; three places.      *)
(***************************************************************************)
EXTENDS Positions

CONSTANTS k1, k2, origin, p1, p2

MCKey == {k1, k2}
MCPlace == {origin, p1, p2}
MCSpawn == {p1}
============================================================================
