-------------------------- MODULE PositionsProofs --------------------------
(***************************************************************************)
(* For any keys, places and capacities: what is stored of an avatar is     *)
(* never replaced by something older.                                      *)
(***************************************************************************)
EXTENDS Positions, SequenceTheorems, TLAPS

\* Numbers are given out by count: nothing has one that is still to come.
Numbered ==
  /\ \A k \in Key : pending[k].n <= count /\ redis[k].n <= count
  /\ \A i \in 1..Len(saves) : saves[i].n <= count

PositionsInv == TypeOK /\ NewestFirst /\ Numbered

----------------------------------------------------------------------------
\* An entry, also the empty one, has a number.
LEMMA Entries == \A e \in Entry \cup {Empty} : e.n \in Nat
  BY DEF Entry, Empty

\* What is in the channel has a key and a number.
LEMMA Queued == TypeOK => \A i \in 1..Len(saves) : saves[i].key \in Key /\ saves[i].n \in Nat
<1> SUFFICES ASSUME TypeOK, NEW i \in 1..Len(saves)
             PROVE  saves[i].key \in Key /\ saves[i].n \in Nat
  OBVIOUS
<1>1. saves[i] \in Save
  BY DEF TypeOK
<1> QED
  BY <1>1 DEF Save

LEMMA Begins == Init => PositionsInv
<1> SUFFICES ASSUME Init PROVE PositionsInv
  OBVIOUS
<1> USE DEF Init
<1>1. TypeOK
  BY PositionsAssumption, EmptySeq DEF TypeOK
<1>2. NewestFirst
  BY DEF NewestFirst, Empty
<1>3. Numbered
  BY DEF Numbered, Empty
<1> QED
  BY <1>1, <1>2, <1>3 DEF PositionsInv

\* positions.Save: the newest number goes to the end of the channel, or nowhere.
LEMMA Saved ==
  ASSUME PositionsInv, NEW k \in Key, NEW p \in Place, Put(k, p),
         UNCHANGED <<pending, redis>>
  PROVE  PositionsInv'
<1> USE DEF PositionsInv
<1> DEFINE s == [key |-> k, place |-> p, n |-> count + 1]
<1>1. /\ count \in Nat /\ count' = count + 1 /\ count' \in 0..MaxSaves
      /\ avatar' \in [Key -> Place \cup {Nowhere}]
      /\ lost' \in SUBSET Key
  BY PositionsAssumption DEF Put, TypeOK
<1>2. s \in Save /\ s.key = k /\ s.n = count + 1
  BY <1>1 DEF Save
<1>3. /\ saves \in Seq(Save)
      /\ \A i \in 1..Len(saves) : saves[i] \in Save
  BY DEF TypeOK
<1>4. \A l \in Key : pending[l].n \in Nat /\ redis[l].n \in Nat
  BY Entries DEF TypeOK
<1>5. CASE saves' = saves
  <2>1. TypeOK'
    BY <1>1, <1>5 DEF TypeOK
  <2>2. NewestFirst'
    BY <1>5 DEF NewestFirst
  <2>3. Numbered'
    BY <1>1, <1>3, <1>4, <1>5 DEF Numbered, Save
  <2> QED
    BY <2>1, <2>2, <2>3
<1>6. CASE Len(saves) < SavesCap /\ saves' = Append(saves, s)
  <2> HIDE DEF s
  <2>1. /\ saves' \in Seq(Save) /\ Len(saves') = Len(saves) + 1
        /\ \A i \in 1..Len(saves) : saves'[i] = saves[i]
        /\ saves'[Len(saves) + 1] = s
        /\ Len(saves) \in Nat
    BY <1>2, <1>3, <1>6
  <2>2. TypeOK'
    BY <1>1, <1>6, <2>1, PositionsAssumption DEF TypeOK
  <2>3. ASSUME NEW i \in 1..Len(saves')
        PROVE  i \in 1..Len(saves) \/ (i = Len(saves) + 1 /\ saves'[i] = s)
    BY <2>1
  <2>4. NewestFirst'
    <3>1. \A l \in Key : pending'[l] # Empty => pending'[l].n > redis'[l].n
      BY DEF NewestFirst
    <3>2. ASSUME NEW i \in 1..Len(saves')
          PROVE  /\ saves'[i].n > pending'[saves'[i].key].n
                 /\ saves'[i].n > redis'[saves'[i].key].n
                 /\ \A j \in 1..(i - 1) : saves'[j].n < saves'[i].n
      <4>1. CASE i \in 1..Len(saves)
        <5>1. saves'[i] = saves[i] /\ \A j \in 1..(i - 1) : j \in 1..Len(saves) /\ saves'[j] = saves[j]
          BY <2>1, <4>1
        <5> QED
          BY <4>1, <5>1 DEF NewestFirst
      <4>2. CASE i = Len(saves) + 1 /\ saves'[i] = s
        <5>1. \A j \in 1..(i - 1) : saves'[j].n < saves'[i].n
          <6>1. \A j \in 1..(i - 1) : j \in 1..Len(saves)
            BY <2>1, <4>2
          <6> QED
            BY <6>1, <1>1, <1>2, <2>1, <4>2, Queued DEF Numbered
        <5>2. pending[k].n < count + 1 /\ redis[k].n < count + 1
          BY <1>1, <1>4 DEF Numbered
        <5> QED
          BY <1>2, <4>2, <5>1, <5>2
      <4> QED
        BY <2>3, <4>1, <4>2
    <3> QED
      BY <3>1, <3>2 DEF NewestFirst
  <2>5. Numbered'
    <3>1. ASSUME NEW i \in 1..Len(saves') PROVE saves'[i].n <= count'
      <4>1. CASE i \in 1..Len(saves)
        BY <4>1, <1>1, <2>1, Queued DEF Numbered
      <4>2. CASE saves'[i] = s
        BY <4>2, <1>1, <1>2
      <4> QED
        BY <2>3, <4>1, <4>2
    <3>2. \A l \in Key : pending'[l].n <= count' /\ redis'[l].n <= count'
      BY <1>1, <1>4 DEF Numbered
    <3> QED
      BY <3>1, <3>2 DEF Numbered
  <2> QED
    BY <2>2, <2>4, <2>5
<1> QED
  BY <1>1, <1>5, <1>6 DEF Put

\* writeLoop takes the oldest save there is: later than what it replaces, and
\* earlier than all that stay in the channel.
LEMMA Taken ==
  ASSUME PositionsInv, Coalesce
  PROVE  PositionsInv'
<1> USE DEF PositionsInv
<1> DEFINE s == saves[1]
           e == [place |-> s.place, n |-> s.n]
<1>1. /\ saves \in Seq(Save) /\ saves # <<>> /\ Head(saves) = s
      /\ 1 \in 1..Len(saves)
      /\ s \in Save
  BY DEF TypeOK, Coalesce
<1>2. /\ saves' \in Seq(Save) /\ Len(saves') = Len(saves) - 1 /\ Len(saves) \in Nat \ {0}
      /\ \A i \in 1..Len(saves') : i + 1 \in 1..Len(saves) /\ saves'[i] = saves[i + 1]
  BY <1>1 DEF Coalesce
<1>3. e \in Entry /\ e.n = s.n /\ s.key \in Key /\ s.n \in Nat
  BY <1>1 DEF Entry, Save
<1>4. pending' = [pending EXCEPT ![s.key] = e]
  BY <1>1 DEF Coalesce
<1>5. pending' \in [Key -> Entry \cup {Empty}] /\ pending'[s.key] = e
  BY <1>3, <1>4 DEF TypeOK
<1>6. UNCHANGED <<avatar, redis, count, lost>>
  BY DEF Coalesce
<1>7. \A k \in Key : k # s.key => pending'[k] = pending[k]
  BY <1>4 DEF TypeOK
<1>8. \A i \in 1..Len(saves) : saves[i].key \in Key /\ saves[i].n \in Nat
  BY Queued
<1> HIDE DEF s, e
<1>9. TypeOK'
  BY <1>2, <1>5, <1>6, PositionsAssumption DEF TypeOK
<1>10. NewestFirst'
  <2>1. \A k \in Key : pending'[k] # Empty => pending'[k].n > redis'[k].n
    BY <1>1, <1>3, <1>5, <1>6, <1>7 DEF NewestFirst, s
  <2>2. ASSUME NEW i \in 1..Len(saves')
        PROVE  /\ saves'[i].n > pending'[saves'[i].key].n
               /\ saves'[i].n > redis'[saves'[i].key].n
               /\ \A j \in 1..(i - 1) : saves'[j].n < saves'[i].n
    <3>1. i + 1 \in 1..Len(saves) /\ saves'[i] = saves[i + 1] /\ 1 \in 1..(i + 1 - 1)
      BY <1>2
    <3>2. saves[i + 1].n > s.n
      BY <3>1, <1>8 DEF NewestFirst, s
    <3>3. \A j \in 1..(i - 1) : saves'[j] = saves[j + 1] /\ j + 1 \in 1..(i + 1 - 1)
      BY <1>2
    <3>4. saves'[i].n > pending'[saves'[i].key].n
      <4>1. CASE saves'[i].key = s.key
        BY <4>1, <3>1, <3>2, <1>3, <1>5
      <4>2. CASE saves'[i].key # s.key
        BY <4>2, <3>1, <1>7, <1>8 DEF NewestFirst
      <4> QED
        BY <4>1, <4>2
    <3>5. saves'[i].n > redis'[saves'[i].key].n
      BY <3>1, <1>6 DEF NewestFirst
    <3>6. \A j \in 1..(i - 1) : saves'[j].n < saves'[i].n
      <4>1. \A j \in 1..(i + 1 - 1) : saves[j].n < saves[i + 1].n
        BY <3>1 DEF NewestFirst
      <4> QED
        BY <3>1, <3>3, <4>1
    <3> QED
      BY <3>4, <3>5, <3>6
  <2> QED
    BY <2>1, <2>2 DEF NewestFirst
<1>11. Numbered'
  <2>1. \A k \in Key : pending'[k].n <= count' /\ redis'[k].n <= count'
    BY <1>1, <1>3, <1>5, <1>6, <1>7 DEF Numbered, s
  <2>2. \A i \in 1..Len(saves') : saves'[i].n <= count'
    BY <1>2, <1>6 DEF Numbered
  <2> QED
    BY <2>1, <2>2 DEF Numbered
<1> QED
  BY <1>9, <1>10, <1>11

\* The pipeline replaces what is stored by what is pending, or not at all; what
\* is in the channel is later than either.
LEMMA Flushed ==
  ASSUME PositionsInv, NEW done \in SUBSET Key, Flush(done)
  PROVE  /\ PositionsInv'
         /\ \A k \in Key : redis'[k].n >= redis[k].n
<1> USE DEF PositionsInv
<1>1. \A k \in Key : /\ pending[k] \in Entry \cup {Empty} /\ redis[k] \in Entry \cup {Empty}
                     /\ pending[k].n \in Nat /\ redis[k].n \in Nat
  BY Entries DEF TypeOK
<1>2. \A k \in Key : /\ pending'[k] = Empty
                     /\ redis'[k] \in {redis[k], pending[k]}
                     /\ redis'[k] = pending[k] => redis[k] = pending[k] \/ pending[k] # Empty
  BY DEF Flush
<1>3. saves' = saves /\ count' = count /\ avatar' = avatar
  BY DEF Flush
<1>4. Empty.n = 0
  BY DEF Empty
<1>5. TypeOK'
  <2>1. redis' \in [Key -> Entry \cup {Empty}] /\ pending' \in [Key -> Entry \cup {Empty}]
    BY <1>1 DEF Flush
  <2>2. lost' \in SUBSET Key
    BY DEF Flush, TypeOK
  <2> QED
    BY <1>3, <2>1, <2>2 DEF TypeOK
<1>6. \A i \in 1..Len(saves) : saves[i].key \in Key /\ saves[i].n \in Nat
  BY Queued
<1>7. NewestFirst'
  <2>1. \A k \in Key : pending'[k] # Empty => pending'[k].n > redis'[k].n
    BY <1>2
  <2>2. \A i \in 1..Len(saves') :
          /\ saves'[i].n > pending'[saves'[i].key].n
          /\ saves'[i].n > redis'[saves'[i].key].n
          /\ \A j \in 1..(i - 1) : saves'[j].n < saves'[i].n
    BY <1>1, <1>2, <1>3, <1>4, <1>6 DEF NewestFirst
  <2> QED
    BY <2>1, <2>2 DEF NewestFirst
<1>8. Numbered'
  BY <1>1, <1>2, <1>3, <1>4, PositionsAssumption DEF Numbered, TypeOK
<1>9. \A k \in Key : redis'[k].n >= redis[k].n
  BY <1>1, <1>2 DEF NewestFirst
<1> QED
  BY <1>5, <1>7, <1>8, <1>9

LEMMA Restarted ==
  ASSUME PositionsInv, Restart
  PROVE  PositionsInv'
<1> USE DEF PositionsInv, Restart
<1>1. TypeOK'
  BY PositionsAssumption, EmptySeq DEF TypeOK
<1>2. NewestFirst'
  BY DEF NewestFirst
<1>3. Numbered'
  BY PositionsAssumption DEF Numbered, Empty, TypeOK
<1> QED
  BY <1>1, <1>2, <1>3

\* Every step keeps the invariant, and none takes Redis back.
LEMMA Steps == PositionsInv /\ [Next]_posVars =>
                 PositionsInv' /\ \A k \in Key : redis'[k].n >= redis[k].n
<1> SUFFICES ASSUME PositionsInv, [Next]_posVars
             PROVE  PositionsInv' /\ \A k \in Key : redis'[k].n >= redis[k].n
  OBVIOUS
<1>1. \A k \in Key : redis[k].n \in Nat
  BY Entries DEF PositionsInv, TypeOK
<1>2. ASSUME NEW k \in Key, Arrive(k)
      PROVE  PositionsInv' /\ redis' = redis
  <2>1. \A p \in Loaded(k) : p # Nowhere => p \in Place
    BY DEF PositionsInv, TypeOK, Loaded, Entry, Empty
  <2>2. PICK p \in Place : Put(k, p)
    BY <1>2, <2>1, PositionsAssumption DEF Arrive
  <2> QED
    BY <1>2, <2>2, Saved DEF Arrive
<1>3. ASSUME NEW k \in Key, Touch(k)
      PROVE  PositionsInv' /\ redis' = redis
  <2>1. PICK p \in Place : Put(k, p)
    BY <1>3, PositionsAssumption DEF Touch, PositionsInv, TypeOK
  <2> QED
    BY <1>3, <2>1, Saved DEF Touch
<1>4. ASSUME NEW k \in Key, Depart(k)
      PROVE  PositionsInv' /\ redis' = redis
  BY <1>4 DEF Depart, PositionsInv, TypeOK, NewestFirst, Numbered
<1>5. ASSUME NEW k \in Key, NEW p \in Place, Move(k, p)
      PROVE  PositionsInv' /\ redis' = redis
  BY <1>5, Saved DEF Move
<1>6. CASE Coalesce
  BY <1>1, <1>6, Taken DEF Coalesce
<1>7. ASSUME NEW done \in SUBSET Key, Flush(done)
      PROVE  PositionsInv' /\ \A k \in Key : redis'[k].n >= redis[k].n
  BY <1>7, Flushed
<1>8. CASE Restart
  BY <1>1, <1>8, Restarted DEF Restart
<1>9. CASE UNCHANGED posVars
  BY <1>1, <1>9 DEF posVars, PositionsInv, TypeOK, NewestFirst, Numbered
<1> QED
  BY <1>1, <1>2, <1>3, <1>4, <1>5, <1>6, <1>7, <1>8, <1>9 DEF Next

----------------------------------------------------------------------------
\* The inductive invariant holds: copies get newer towards the router.
THEOREM Stored == Spec => []PositionsInv
<1> QED
  BY Begins, Steps, PTL DEF Spec

\* Every state of the store of positions has the types the model gives it.
THEOREM PositionTypes == Spec => []TypeOK
<1>1. PositionsInv => TypeOK
  BY DEF PositionsInv
<1> QED
  BY <1>1, Stored, PTL

\* What is in the channel is later than what is pending, and that is later than
\* what Redis has, for any number of avatars and any capacity (redis.go:52-96).
THEOREM CopiesInOrder == Spec => []NewestFirst
<1>1. PositionsInv => NewestFirst
  BY DEF PositionsInv
<1> QED
  BY <1>1, Stored, PTL

\* Nothing Redis has of an avatar is ever replaced by an older place.
THEOREM NeverOlder == Spec => RedisInOrder
<1>1. PositionsInv /\ [Next]_posVars => [\A k \in Key : redis'[k].n >= redis[k].n]_posVars
  BY Steps
<1> QED
  BY <1>1, Stored, PTL DEF Spec, RedisInOrder
============================================================================
