---------------------------- MODULE ClientSystem ----------------------------
(***************************************************************************)
(* Hub and connections together, against a router that may issue every     *)
(* command and takes what they send it.                                    *)
(***************************************************************************)
EXTENDS Client

CONSTANT Command   \* the outbound commands the router may give

ASSUME CommandAssumption == Command \subseteq Outbound

TakeIncoming ==
  /\ incoming # <<>>
  /\ incoming' = Tail(incoming)
  /\ UNCHANGED <<hubVars, held, dead, cut>>

Router ==
  \/ \E o \in Command : PutOut(o) /\ UNCHANGED pumpVars
  \/ TakeEvent /\ UNCHANGED pumpVars
  \/ TakeIncoming

Init == ClientInit

Next ==
  \/ HubStep /\ UNCHANGED pumpVars
  \/ \E c \in Client : \E r \in Room : ServeWs(c, r) /\ UNCHANGED pumpVars
  \/ \E c \in Client : Pumps(c)
  \/ Router

Spec == Init /\ [][Next]_clientVars

FairSpec ==
  /\ Spec
  /\ HubFairness
  /\ ClientFairness
  /\ WF_hubVars(TakeEvent) /\ WF_clientVars(TakeIncoming)

TypeOK == ClientTypeOK

----------------------------------------------------------------------------
\* As long as somebody drains events, incoming and the send channels, no ServeWs
\* waits for ever: a register is answered, however busy the router keeps the hub.
RegisterAnswered ==
  \A c \in Client : phase[c] = "registering" ~> phase[c] # "registering"

\* A connection the hub lets go dies without help: once its send channel is
\* closed both pumps end, whatever the peer does -- writePump drains and closes
\* the socket, that ends readPump, and the hub answers its unregister
\* (hub.go:138: "the old connection dies by itself").
KickedDies == \A c \in Client : c \in closed ~> c \in dead /\ phase[c] = "gone"
============================================================================
