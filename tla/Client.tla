------------------------------- MODULE Client -------------------------------
(***************************************************************************)
(* The two goroutines of a connection, internal/hub/client.go: readPump,   *)
(* which tags what it reads and blocks on incoming, and writePump, which   *)
(* drains send until the channel is closed or a write fails.  They share   *)
(* the socket: whichever ends closes it, and that ends the other.          *)
(***************************************************************************)
EXTENDS Hub

CONSTANTS
  Message,      \* what a peer may send
  IncomingCap,  \* capacity of Hub.incoming (code: 256)
  Flaky         \* connections whose writes may fail while the hub holds them

ASSUME ClientAssumption == Flaky \subseteq Client

VARIABLES
  held,      \* the Inbound readPump is blocked with, tagged already
  dead,      \* connections whose writePump has returned
  cut,       \* connections whose socket one of the pumps has closed
  incoming   \* contents of Hub.incoming

pumpVars == <<held, dead, cut, incoming>>
clientVars == <<hubVars, pumpVars>>

Inbound == [id : User, room : Room, data : Message]

ClientInit ==
  /\ HubInit
  /\ held = [c \in Client |-> <<>>]
  /\ dead = {} /\ cut = {}
  /\ incoming = <<>>

ClientTypeOK ==
  /\ HubTypeOK
  /\ held \in [Client -> Seq(Inbound)]
  /\ dead \in SUBSET Client
  /\ cut \in SUBSET Client
  /\ incoming \in Seq(Inbound)

----------------------------------------------------------------------------
(* readPump. *)

\* Mutant: the message is sent on untagged.
Read_Untagged(c, msg) ==
  /\ phase[c] = "registered" /\ held[c] = <<>>
  /\ held' = [held EXCEPT ![c] = <<[id |-> Id[c], room |-> None, data |-> msg]>>]
  /\ UNCHANGED <<hubVars, dead, cut, incoming>>

\* A message is read; its tag is the room of this moment, evaluated before the
\* send on incoming blocks.
Read(c, msg) ==
  /\ phase[c] = "registered" /\ held[c] = <<>>
  /\ held' = [held EXCEPT ![c] = <<[id |-> Id[c], room |-> room[c], data |-> msg]>>]
  /\ UNCHANGED <<hubVars, dead, cut, incoming>>

Push(c) ==
  /\ held[c] # <<>>
  /\ Len(incoming) < IncomingCap
  /\ incoming' = Append(incoming, Head(held[c]))
  /\ held' = [held EXCEPT ![c] = <<>>]
  /\ UNCHANGED <<hubVars, dead, cut>>

\* ReadMessage fails: the peer has gone, was silent too long, sent too much, or
\* writePump has closed the socket.
ReadFail(c) ==
  /\ held[c] = <<>>
  /\ Hangup(c)
  /\ UNCHANGED pumpVars

\* The hub has taken the unregister; the deferred conn.Close follows.
CloseConn(c) ==
  /\ phase[c] = "gone" /\ c \notin cut
  /\ cut' = cut \cup {c}
  /\ UNCHANGED <<hubVars, held, dead, incoming>>

----------------------------------------------------------------------------
(* writePump: runs from the moment register is answered. *)

Writing(c) == phase[c] \in {"registered", "unregistering", "gone"} /\ c \notin dead

WriteOk(c) ==
  /\ Writing(c) /\ c \notin cut
  /\ TakeSend(c)
  /\ UNCHANGED pumpVars

\* Mutant: the socket is left open.
Return_LeavesOpen(c) ==
  /\ dead' = dead \cup {c}
  /\ UNCHANGED <<held, cut, incoming>>

Return(c) ==
  /\ dead' = dead \cup {c}
  /\ cut' = cut \cup {c}
  /\ UNCHANGED <<held, incoming>>

\* A write fails: the socket is closed already, the peer has gone, or it reads
\* so slowly that writeWait expires.  The message is lost, the rest stays.
WriteFail(c) ==
  /\ Writing(c)
  /\ c \in Flaky \cup closed \cup cut
  /\ TakeSend(c)
  /\ Return(c)

PingFail(c) ==
  /\ Writing(c)
  /\ c \in Flaky \cup closed \cup cut
  /\ Return(c)
  /\ UNCHANGED hubVars

\* The channel is closed and drained.
WriteClosed(c) ==
  /\ Writing(c)
  /\ c \in closed /\ send[c] = <<>>
  /\ Return(c)
  /\ UNCHANGED hubVars

Pumps(c) ==
  \/ \E msg \in Message : Read(c, msg)
  \/ Push(c) \/ ReadFail(c) \/ CloseConn(c)
  \/ WriteOk(c) \/ WriteFail(c) \/ PingFail(c) \/ WriteClosed(c)

\* A pump that can step does.  Reading from a socket that is closed fails as
\* soon as what was buffered is used up; no peer has to send, or to go away.
ClientFairness ==
  \A c \in Client :
    /\ SF_clientVars(Push(c))
    /\ SF_clientVars(c \in cut /\ ReadFail(c))
    /\ WF_clientVars(CloseConn(c))
    /\ WF_clientVars(WriteOk(c) \/ WriteFail(c) \/ WriteClosed(c))
============================================================================
