------------------------------ MODULE MCClient ------------------------------
(***************************************************************************)
(* One user whose second connection kicks the first, in one room, every    *)
(* channel with one place.  Flaky, chosen by the .cfg, are the connections *)
(* whose writes may fail while the hub still holds them.                   *)
(***************************************************************************)
EXTENDS ClientSystem, TLC

CONSTANTS c1, c2, u1, r1, d1, m1

MCClients == {c1, c2}
MCUser == {u1}
MCRoom == {r1}
MCData == {d1}
MCMessage == {m1}
MCId == (c1 :> u1) @@ (c2 :> u1)
MCCommand == {ToAll(d1)}
============================================================================
