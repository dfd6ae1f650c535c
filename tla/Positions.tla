----------------------------- MODULE Positions -----------------------------
(***************************************************************************)
(* Where an avatar stands, and how it survives its owner's absence:        *)
(* room.Manager holds the avatars of those who are here, presence.Redis    *)
(* (internal/presence/redis.go) writes them behind.                        *)
(*                                                                         *)
(*   router       Load on arrival, Save on every change; Save never waits  *)
(*   saves        channel to the writer; full: the save is dropped         *)
(*   writeLoop    keeps the newest save of each key in pending, and once a *)
(*                second sends pending to Redis and forgets it, whether    *)
(*                Redis took it or not                                     *)
(*   redis        the database; survives the process, pending does not     *)
(*                                                                         *)
(* A key stands for one user in one room.  Saves are numbered, so that two *)
(* saves of the same place are told apart.                                 *)
(***************************************************************************)
EXTENDS Naturals, Sequences

CONSTANTS
  Key,        \* "pos:{room}:{id}"
  Place,      \* where an avatar can stand
  Spawn,      \* where one without a stored place is put, at random
  Origin,     \* (0,0), the place of an avatar nobody put anywhere
  Nowhere,    \* no avatar, no entry
  SavesCap,   \* capacity of Redis.saves (code: 1024)
  MaxSaves    \* bound of the model: saves in a behaviour

ASSUME PositionsAssumption ==
  /\ Spawn \subseteq Place /\ Spawn # {}
  /\ Origin \in Place
  /\ Nowhere \notin Place
  /\ SavesCap \in Nat /\ MaxSaves \in Nat

VARIABLES
  avatar,    \* room.Manager: the place of each avatar
  saves,     \* contents of the channel
  pending,   \* what writeLoop has taken since the last flush
  redis,     \* the stored entries
  count,     \* saves asked for so far
  lost       \* history: keys whose newest save is nowhere any more

posVars == <<avatar, saves, pending, redis, count, lost>>

Save == [key : Key, place : Place, n : Nat]
Entry == [place : Place, n : Nat]
Empty == [place |-> Nowhere, n |-> 0]

Init ==
  /\ avatar = [k \in Key |-> Nowhere]
  /\ saves = <<>>
  /\ pending = [k \in Key |-> Empty]
  /\ redis = [k \in Key |-> Empty]
  /\ count = 0
  /\ lost = {}

TypeOK ==
  /\ avatar \in [Key -> Place \cup {Nowhere}]
  /\ saves \in Seq(Save) /\ Len(saves) <= SavesCap
  /\ pending \in [Key -> Entry \cup {Empty}]
  /\ redis \in [Key -> Entry \cup {Empty}]
  /\ count \in 0..MaxSaves
  /\ lost \in SUBSET Key

----------------------------------------------------------------------------
(* The router's side. *)

\* Mutant: every save is sent by a goroutine of its own, so two may overtake.
Put_Spawned(k, p) ==
  /\ count < MaxSaves
  /\ count' = count + 1
  /\ avatar' = [avatar EXCEPT ![k] = p]
  /\ lost' = lost \ {k}
  /\ Len(saves) < SavesCap
  /\ LET s == [key |-> k, place |-> p, n |-> count'] IN
       saves' \in {Append(saves, s), <<s>> \o saves}

\* rooms.Add and positions.Save, which drops the save when the channel is full.
Put(k, p) ==
  /\ count < MaxSaves
  /\ count' = count + 1
  /\ avatar' = [avatar EXCEPT ![k] = p]
  /\ IF Len(saves) < SavesCap
       THEN /\ saves' = Append(saves, [key |-> k, place |-> p, n |-> count'])
            /\ lost' = lost \ {k}
       ELSE /\ lost' = lost \cup {k}
            /\ UNCHANGED saves

\* What Load may return: the stored entry, or nothing when Redis is away, or
\* the entry has expired (posTTL).
Loaded(k) == {redis[k].place, Nowhere}

\* Joined: an avatar is made only if there is none.
Arrive(k) ==
  /\ avatar[k] = Nowhere
  /\ \E p \in Loaded(k) :
       \/ p # Nowhere /\ Put(k, p)
       \/ p = Nowhere /\ \E s \in Spawn : Put(k, s)
  /\ UNCHANGED <<pending, redis>>

\* move.  A message may be handled before its sender's Joined, and after the Left.
Move(k, p) ==
  /\ Put(k, p)
  /\ UNCHANGED <<pending, redis>>

\* Mutant: a missing avatar is not replaced by a fresh one.
Touch_Unchecked(k) ==
  /\ Put(k, avatar[k])
  /\ UNCHANGED <<pending, redis>>

\* join and sprite_change save the place the avatar has, Origin if it has none.
Touch(k) ==
  /\ Put(k, IF avatar[k] = Nowhere THEN Origin ELSE avatar[k])
  /\ UNCHANGED <<pending, redis>>

\* Left: the avatar goes, its last place is Redis's to remember.
Depart(k) ==
  /\ avatar[k] # Nowhere
  /\ avatar' = [avatar EXCEPT ![k] = Nowhere]
  /\ UNCHANGED <<saves, pending, redis, count, lost>>

----------------------------------------------------------------------------
(* The writer's side. *)

\* Mutant: the first save of a key since the last flush wins.
Coalesce_KeepsFirst ==
  /\ saves # <<>>
  /\ LET s == Head(saves) IN
       pending' = IF pending[s.key] = Empty
                    THEN [pending EXCEPT ![s.key] = [place |-> s.place, n |-> s.n]]
                    ELSE pending
  /\ saves' = Tail(saves)
  /\ UNCHANGED <<avatar, redis, count, lost>>

Coalesce ==
  /\ saves # <<>>
  /\ LET s == Head(saves) IN
       pending' = [pending EXCEPT ![s.key] = [place |-> s.place, n |-> s.n]]
  /\ saves' = Tail(saves)
  /\ UNCHANGED <<avatar, redis, count, lost>>

\* Mutant: pending is kept after the pipeline.
Flush_KeepsPending(done) ==
  /\ \E k \in Key : pending[k] # Empty
  /\ redis' = [k \in Key |-> IF k \in done /\ pending[k] # Empty
                               THEN pending[k] ELSE redis[k]]
  /\ UNCHANGED <<pending, avatar, saves, count, lost>>

\* The pipeline reaches Redis for the keys in done; pending is forgotten.
Flush(done) ==
  /\ \E k \in Key : pending[k] # Empty
  /\ redis' = [k \in Key |-> IF k \in done /\ pending[k] # Empty
                               THEN pending[k] ELSE redis[k]]
  /\ pending' = [k \in Key |-> Empty]
  /\ lost' = lost \cup {k \in Key \ done :
                         pending[k] # Empty /\ \A i \in DOMAIN saves : saves[i].key # k}
  /\ UNCHANGED <<avatar, saves, count>>

\* The process ends and starts again: everything but Redis is lost.
Restart ==
  /\ avatar' = [k \in Key |-> Nowhere]
  /\ saves' = <<>>
  /\ pending' = [k \in Key |-> Empty]
  /\ UNCHANGED <<redis, count, lost>>

----------------------------------------------------------------------------
Next ==
  \/ \E k \in Key : Arrive(k) \/ Touch(k) \/ Depart(k)
  \/ \E k \in Key, p \in Place \ {Origin} : Move(k, p)
  \/ Coalesce
  \/ \E done \in SUBSET Key : Flush(done)
  \/ Restart

Spec == Init /\ [][Next]_posVars

\* The writer runs and its ticker ticks; nobody has to come, move or go.
FairSpec ==
  /\ Spec
  /\ SF_posVars(Coalesce)
  /\ SF_posVars(\E done \in SUBSET Key : Flush(done))

----------------------------------------------------------------------------
\* Redis never goes back: an entry is only replaced by a later save of the same
\* key, whatever is dropped, coalesced, lost with a flush or with the process.
RedisInOrder == [][\A k \in Key : redis'[k].n >= redis[k].n]_posVars

\* Between channel, pending and Redis the newest copy is the one nearest to the
\* router: what is still in the channel is later than what is pending, and that
\* is later than what is stored.
NewestFirst ==
  /\ \A k \in Key : pending[k] # Empty => pending[k].n > redis[k].n
  /\ \A i \in 1..Len(saves) :
       /\ saves[i].n > pending[saves[i].key].n
       /\ saves[i].n > redis[saves[i].key].n
       /\ \A j \in 1..(i - 1) : saves[j].n < saves[i].n

\* An avatar that stands still for good is in Redis where it stands: nothing but
\* a full channel or a failed pipeline loses its last save, coalescing with
\* earlier ones and restarts in between do not.
StandingIsStored ==
  \A k \in Key, p \in Place :
    <>[](avatar[k] = p /\ k \notin lost) => <>[](redis[k].place = p)
============================================================================
