--------------------------- MODULE AdmissionProofs ---------------------------
(***************************************************************************)
(* Proofs about Admission, for any number of connections and peers, any    *)
(* limit, cache size and cache time.                                       *)
(***************************************************************************)
EXTENDS Admission, FiniteSetTheorems, TLAPS

\* A task that reads or serves does so for a peer.
Identified ==
    \A c \in Conns : task[c] \in {"look", "parse", "serve"} => peerOf[c] \in Peers

\* The part of TypeOK that the counters need.
ConnTypes ==
    /\ task \in [Conns -> TaskStates]
    /\ peerOf \in [Conns -> Peers \cup {NoPeer}]
    /\ counters \in [Peers -> Nat]

Slots == ConnTypes /\ Identified /\ SlotsExact

-----------------------------------------------------------------------------
(* The counters                                                            *)

LEMMA ServingFinite ==
    ASSUME NEW p
    PROVE  IsFiniteSet(Serving(p)) /\ Cardinality(Serving(p)) \in Nat
<1>1. Serving(p) \in SUBSET Conns
  BY DEF Serving
<1>2. IsFiniteSet(Serving(p))
  BY <1>1, FS_Subset, ConnsAssumption
<1> QED
  BY <1>2, FS_CardinalityType

\* A step that changes neither who serves nor the counters keeps the count.
LEMMA SameSlots ==
    ASSUME Slots, counters' = counters, \A p \in Peers : Serving(p)' = Serving(p)
    PROVE  SlotsExact'
<1> SUFFICES ASSUME NEW p \in Peers
             PROVE  counters'[p] = Cardinality(Serving(p)') /\ counters'[p] <= Limit
  BY DEF SlotsExact
<1>1. counters[p] = Cardinality(Serving(p)) /\ counters[p] <= Limit
  BY DEF Slots, SlotsExact
<1>2. Serving(p)' = Serving(p)
  OBVIOUS
<1> QED
  BY <1>1, <1>2

\* A refusal, whatever the connection is said to be.
LEMMA RefuseStep ==
    ASSUME Slots, NEW c \in Conns, task[c] # "serve", Refuse(c),
           NEW q \in Peers \cup {NoPeer}, peerOf' = [peerOf EXCEPT ![c] = q]
    PROVE  Slots'
<1> USE DEF Slots, ConnTypes, Refuse
<1>1. ConnTypes'
  BY DEF TaskStates
<1>2. Identified'
  BY DEF Identified
<1>3. \A p \in Peers : Serving(p)' = Serving(p)
  BY DEF Serving
<1> QED
  BY <1>1, <1>2, <1>3, SameSlots

\* The check and the increment are one step.
LEMMA DecideStep ==
    ASSUME Slots, NEW c \in Conns, NEW q \in Peers, task[c] # "serve", Decide(c, q),
           peerOf' = [peerOf EXCEPT ![c] = q]
    PROVE  Slots'
<1>1. CASE counters[q] >= Limit
  <2>1. Refuse(c)
    BY <1>1 DEF Decide
  <2> QED
    BY <2>1, RefuseStep
<1>2. CASE ~(counters[q] >= Limit)
  <2>1. /\ task' = [task EXCEPT ![c] = "serve"]
        /\ counters' = [counters EXCEPT ![q] = @ + 1]
    BY <1>2 DEF Decide
  <2>2. ConnTypes'
    BY <2>1 DEF Slots, ConnTypes, TaskStates
  <2>3. Identified'
    BY <2>1 DEF Slots, ConnTypes, Identified
  <2>4. ASSUME NEW p \in Peers
        PROVE  counters'[p] = Cardinality(Serving(p)') /\ counters'[p] <= Limit
    <3>1. counters[p] = Cardinality(Serving(p)) /\ counters[p] <= Limit /\ counters[p] \in Nat
      BY DEF Slots, ConnTypes, SlotsExact
    <3>2. CASE p = q
      <4>1. Serving(p)' = Serving(p) \cup {c} /\ c \notin Serving(p)
        BY <2>1, <3>2 DEF Serving, Slots, ConnTypes
      <4>2. Cardinality(Serving(p) \cup {c}) = Cardinality(Serving(p)) + 1
        BY <4>1, ServingFinite, FS_AddElement
      <4>3. counters'[p] = counters[p] + 1
        BY <2>1, <3>2 DEF Slots, ConnTypes
      <4> QED
        BY <4>1, <4>2, <4>3, <3>1, <3>2, <1>2, LimitAssumption
    <3>3. CASE p # q
      <4>1. Serving(p)' = Serving(p)
        BY <2>1, <3>3 DEF Serving, Slots, ConnTypes
      <4>2. counters'[p] = counters[p]
        BY <2>1, <3>3 DEF Slots, ConnTypes
      <4> QED
        BY <4>1, <4>2, <3>1
    <3> QED
      BY <3>2, <3>3
  <2> QED
    BY <2>2, <2>3, <2>4 DEF Slots, SlotsExact
<1> QED
  BY <1>1, <1>2

LEMMA EndsStep ==
    ASSUME Slots, NEW c \in Conns, PublishEnds(c)
    PROVE  Slots'
<1> DEFINE q == peerOf[c]
<1>1. /\ task[c] = "serve" /\ peerOf' = peerOf
      /\ task' = [task EXCEPT ![c] = "ended"]
      /\ counters' = [counters EXCEPT ![q] = IF @ <= 1 THEN 0 ELSE @ - 1]
  BY DEF PublishEnds
<1>2. q \in Peers
  BY <1>1 DEF Slots, Identified
<1>3. ConnTypes'
  BY <1>1, <1>2 DEF Slots, ConnTypes, TaskStates
<1>4. Identified'
  BY <1>1 DEF Slots, ConnTypes, Identified
<1>5. ASSUME NEW p \in Peers
      PROVE  counters'[p] = Cardinality(Serving(p)') /\ counters'[p] <= Limit
  <2>1. counters[p] = Cardinality(Serving(p)) /\ counters[p] <= Limit /\ counters[p] \in Nat
    BY DEF Slots, ConnTypes, SlotsExact
  <2>2. CASE p = q
    <3>1. Serving(p)' = Serving(p) \ {c} /\ c \in Serving(p)
      BY <1>1, <2>2 DEF Serving, Slots, ConnTypes
    <3>2. Cardinality(Serving(p) \ {c}) = Cardinality(Serving(p)) - 1
      BY <3>1, ServingFinite, FS_RemoveElement
    <3>3. Cardinality(Serving(p)) # 0
      BY <3>1, ServingFinite, FS_EmptySet
    <3>4. counters'[p] = IF counters[p] <= 1 THEN 0 ELSE counters[p] - 1
      BY <1>1, <2>2 DEF Slots, ConnTypes
    <3> QED
      BY <3>1, <3>2, <3>3, <3>4, <2>1, LimitAssumption
  <2>3. CASE p # q
    <3>1. Serving(p)' = Serving(p)
      BY <1>1, <2>3 DEF Serving, Slots, ConnTypes
    <3>2. counters'[p] = counters[p]
      BY <1>1, <1>2, <2>3 DEF Slots, ConnTypes
    <3> QED
      BY <3>1, <3>2, <2>1
  <2> QED
    BY <2>2, <2>3
<1> QED
  BY <1>3, <1>4, <1>5 DEF Slots, SlotsExact

\* A step of a task that goes on reading.
LEMMA ReadStep ==
    ASSUME Slots, NEW c \in Conns, NEW s \in {"look", "parse"}, task[c] # "serve",
           NEW q \in Peers, peerOf' = [peerOf EXCEPT ![c] = q],
           task' = [task EXCEPT ![c] = s], counters' = counters
    PROVE  Slots'
<1>1. ConnTypes'
  BY DEF Slots, ConnTypes, TaskStates
<1>2. Identified'
  BY DEF Slots, ConnTypes, Identified
<1>3. \A p \in Peers : Serving(p)' = Serving(p)
  BY DEF Slots, ConnTypes, Serving
<1> QED
  BY <1>1, <1>2, <1>3, SameSlots DEF Slots

LEMMA SlotsInit == Init => Slots
<1> SUFFICES ASSUME Init PROVE Slots
  OBVIOUS
<1> USE DEF Init
<1>1. ConnTypes
  BY DEF ConnTypes, TaskStates
<1>2. \A p \in Peers : Serving(p) = {}
  BY DEF Serving
<1>3. SlotsExact
  BY <1>2, FS_EmptySet, LimitAssumption DEF SlotsExact
<1> QED
  BY <1>1, <1>3 DEF Slots, Identified

LEMMA SlotsStep == Slots /\ [Next]_vars => Slots'
<1> SUFFICES ASSUME Slots, [Next]_vars PROVE Slots'
  OBVIOUS
<1>0. ASSUME NEW c \in Conns, peerOf' = peerOf
      PROVE  /\ peerOf[c] \in Peers \cup {NoPeer}
             /\ peerOf' = [peerOf EXCEPT ![c] = peerOf[c]]
  BY <1>0 DEF Slots, ConnTypes
<1>1. ASSUME NEW c \in Conns, NEW p \in Peers \cup {NoPeer}, Start(c, p) PROVE Slots'
  <2>1. task[c] # "serve" /\ peerOf' = [peerOf EXCEPT ![c] = p]
    BY <1>1 DEF Start
  <2>2. CASE Refuse(c)
    BY <2>1, <2>2, RefuseStep
  <2>3. CASE p \in Peers /\ Decide(c, p)
    BY <2>1, <2>3, DecideStep
  <2>4. CASE p \in Peers /\ task' = [task EXCEPT ![c] = "look"] /\ counters' = counters
    BY <2>1, <2>4, ReadStep
  <2> QED
    BY <1>1, <2>2, <2>3, <2>4 DEF Start
<1>2. ASSUME NEW c \in Conns, LookForPeer(c) PROVE Slots'
  <2>1. task[c] = "look" /\ peerOf' = peerOf /\ peerOf[c] \in Peers
    BY <1>2 DEF LookForPeer, Slots, Identified
  <2>2. CASE Refuse(c)
    BY <1>0, <2>1, <2>2, RefuseStep
  <2>3. CASE task' = [task EXCEPT ![c] = "parse"] /\ counters' = counters
    BY <1>0, <2>1, <2>3, ReadStep
  <2> QED
    BY <1>2, <2>2, <2>3 DEF LookForPeer
<1>3. ASSUME NEW c \in Conns, PeerDataRead(c) PROVE Slots'
  <2>1. /\ task[c] = "parse" /\ peerOf' = peerOf /\ peerOf[c] \in Peers
        /\ Decide(c, peerOf[c])
    BY <1>3 DEF PeerDataRead, Slots, Identified
  <2> QED
    BY <1>0, <2>1, DecideStep
<1>4. ASSUME NEW c \in Conns, ReadFails(c) PROVE Slots'
  <2>1. task[c] # "serve" /\ peerOf' = peerOf /\ Refuse(c)
    BY <1>4 DEF ReadFails
  <2> QED
    BY <1>0, <2>1, RefuseStep
<1>5. ASSUME NEW c \in Conns, PublishEnds(c) PROVE Slots'
  BY <1>5, EndsStep
<1>6. CASE UNCHANGED <<connVars, counters>>
  <2>1. task' = task /\ peerOf' = peerOf /\ counters' = counters
    BY <1>6 DEF connVars
  <2>2. \A p \in Peers : Serving(p)' = Serving(p)
    BY <2>1 DEF Serving
  <2>3. ConnTypes' /\ Identified'
    BY <2>1 DEF Slots, ConnTypes, Identified
  <2> QED
    BY <2>1, <2>2, <2>3, SameSlots DEF Slots
<1>7. CASE Tick \/ (\E p \in Peers : ChangeActive(p)) \/ UNCHANGED vars
  BY <1>6, <1>7 DEF Tick, ChangeActive, vars, connVars
<1> QED
  BY <1>1, <1>2, <1>3, <1>4, <1>5, <1>7 DEF Next

\* _connection_counters is exact and within max_connections_per_peer, for any
\* set of connections whose publish tasks interleave in any way.
THEOREM SlotsAreExact == Spec => []SlotsExact
<1>1. Slots => SlotsExact
  BY DEF Slots
<1> QED
  BY <1>1, SlotsInit, SlotsStep, PTL DEF Spec

-----------------------------------------------------------------------------
(* The cache                                                               *)

Records == [peer : Peers, time : Times]

\* What is cached was read while the peer was active, or shortly after.
Recent(r) == r.time <= lastActive[r.peer] + MaxRead

LEMMA EvictedIsPrefix ==
    ASSUME cache \in Seq(Records)
    PROVE  /\ Evicted \in Seq(Records)
           /\ Len(Evicted) < CacheSize
           /\ Len(Evicted) <= Len(cache)
           /\ \A i \in 1 .. Len(Evicted) : Evicted[i] = cache[i]
<1> DEFINE n == IF Len(cache) < CacheSize THEN Len(cache) ELSE CacheSize - 1
<1>1. n \in 0 .. Len(cache) /\ n < CacheSize
  BY CacheAssumption
<1>2. Evicted = SubSeq(cache, 1, n)
  BY DEF Evicted
<1> HIDE DEF n
<1> QED
  BY <1>1, <1>2

\* The record that is stored takes the place of its peer's, or the last place.
LEMMA StoreStep ==
    ASSUME cache \in Seq(Records), NEW p \in Peers, now \in Times, CacheBounded,
           StorePeerData(p)
    PROVE  /\ cache' \in Seq(Records)
           /\ CacheBounded'
           /\ \A i \in DOMAIN cache' : \/ cache'[i] = [peer |-> p, time |-> now]
                                       \/ \E j \in DOMAIN cache : cache'[i] = cache[j]
<1> DEFINE E == Evicted
           record == [peer |-> p, time |-> now]
<1>1. /\ E \in Seq(Records) /\ Len(E) < CacheSize /\ Len(E) <= Len(cache)
      /\ \A i \in 1 .. Len(E) : E[i] = cache[i]
  BY EvictedIsPrefix
<1>2. record \in Records /\ record.peer = p
  BY DEF Records
<1>3. \A i, j \in 1 .. Len(E) : E[i].peer = E[j].peer => i = j
  BY <1>1 DEF CacheBounded
<1>4. \A i \in 1 .. Len(E) : i \in DOMAIN cache
  BY <1>1
<1>5. /\ cache' = IF \E i \in DOMAIN E : E[i].peer = p
                  THEN [i \in DOMAIN E |-> IF E[i].peer = p THEN record ELSE E[i]]
                  ELSE Append(E, record)
  BY DEF StorePeerData
<1> HIDE DEF E, record
<1>6. CASE \E i \in DOMAIN E : E[i].peer = p
  <2>1. cache' = [i \in 1 .. Len(E) |-> IF E[i].peer = p THEN record ELSE E[i]]
    <3>1. DOMAIN E = 1 .. Len(E)
      BY <1>1
    <3>2. cache' = [i \in DOMAIN E |-> IF E[i].peer = p THEN record ELSE E[i]]
      BY <1>5, <1>6
    <3> QED
      BY <3>1, <3>2, Zenon
  <2>2. cache' \in Seq(Records) /\ Len(cache') = Len(E)
    BY <2>1, <1>1, <1>2
  <2>3. \A i \in 1 .. Len(E) : cache'[i].peer = E[i].peer
    BY <2>1, <1>2
  <2>4. DOMAIN cache' = 1 .. Len(E)
    BY <2>1
  <2>5. CacheBounded'
    BY <2>2, <2>3, <2>4, <1>1, <1>3, CacheAssumption DEF CacheBounded
  <2>6. \A i \in DOMAIN cache' : cache'[i] = record \/ \E j \in DOMAIN cache : cache'[i] = cache[j]
    BY <2>1, <2>4, <1>1, <1>4
  <2> QED
    BY <2>2, <2>5, <2>6 DEF record
<1>7. CASE ~ \E i \in DOMAIN E : E[i].peer = p
  <2>1. cache' = Append(E, record)
    BY <1>5, <1>7
  <2>2. /\ cache' \in Seq(Records) /\ Len(cache') = Len(E) + 1
        /\ DOMAIN cache' = 1 .. Len(E) + 1
        /\ cache'[Len(E) + 1] = record
        /\ \A i \in 1 .. Len(E) : cache'[i] = E[i]
    BY <2>1, <1>1, <1>2
  <2>3. \A i \in 1 .. Len(E) : E[i].peer # p
    BY <1>1, <1>7
  <2>4. \A i, j \in 1 .. Len(E) + 1 : cache'[i].peer = cache'[j].peer => i = j
    <3> SUFFICES ASSUME NEW i \in 1 .. Len(E) + 1, NEW j \in 1 .. Len(E) + 1,
                        cache'[i].peer = cache'[j].peer
                 PROVE  i = j
      OBVIOUS
    <3>0. Len(E) \in Nat
      BY <1>1
    <3>1. CASE i \in 1 .. Len(E) /\ j \in 1 .. Len(E)
      <4>1. E[i].peer = E[j].peer
        BY <2>2, <3>1
      <4> QED
        BY <1>3, <3>1, <4>1
    <3>2. CASE i \in 1 .. Len(E) /\ j = Len(E) + 1
      <4>1. E[i].peer = p
        BY <1>2, <2>2, <3>2
      <4> QED
        BY <2>3, <3>2, <4>1
    <3>3. CASE i = Len(E) + 1 /\ j \in 1 .. Len(E)
      <4>1. E[j].peer = p
        BY <1>2, <2>2, <3>3
      <4> QED
        BY <2>3, <3>3, <4>1
    <3> QED
      BY <3>0, <3>1, <3>2, <3>3
  <2>5. CacheBounded'
    BY <2>2, <2>4, <1>1, CacheAssumption DEF CacheBounded
  <2>6. \A i \in DOMAIN cache' : cache'[i] = record \/ \E j \in DOMAIN cache : cache'[i] = cache[j]
    BY <2>2, <1>1, <1>4
  <2> QED
    BY <2>2, <2>5, <2>6 DEF record
<1> QED
  BY <1>6, <1>7

-----------------------------------------------------------------------------
(* Types, the cache and the age of what it holds                           *)

CacheRecent == \A i \in DOMAIN cache : Recent(cache[i])

\* A task that has seen the ACTIVE file saw it at most MaxRead ago.
ReadsRecent ==
    \A c \in Conns : task[c] = "parse" =>
        readAt[c] <= lastActive[peerOf[c]] /\ now <= readAt[c] + MaxRead

\* lastActive never goes back; what a task read, and what is cached, is no
\* older than the time that reading takes.
Fresh ==
    /\ TypeOK /\ Identified /\ CacheBounded
    /\ \A p \in Peers : lastActive[p] <= now /\ (p \in active => lastActive[p] = now)
    /\ ReadsRecent /\ CacheRecent

LEMMA FreshInit == Init => Fresh
<1> SUFFICES ASSUME Init PROVE Fresh
  OBVIOUS
<1> USE DEF Init
<1>1. 0 \in Times
  BY TimeAssumption DEF Times
<1>2. TypeOK
  BY <1>1 DEF TypeOK, TaskStates
<1>3. CacheBounded
  BY CacheAssumption DEF CacheBounded
<1> QED
  BY <1>2, <1>3 DEF Fresh, Identified, ReadsRecent, CacheRecent

\* What Fresh says of the part of the state that a step of a task changes.
LEMMA TaskStep ==
    ASSUME Fresh, NEW c \in Conns, NEW s \in TaskStates, NEW q \in Peers \cup {NoPeer},
           s \in {"look", "parse", "serve"} => q \in Peers,
           NEW t \in Times, s = "parse" => t = now /\ q \in active,
           task' = [task EXCEPT ![c] = s], peerOf' = [peerOf EXCEPT ![c] = q],
           readAt' = [readAt EXCEPT ![c] = t], UNCHANGED envVars,
           counters' \in [Peers -> Nat],
           cache' \in Seq(Records), CacheBounded', \A i \in DOMAIN cache' : Recent(cache'[i])
    PROVE  Fresh'
<1>1. active' = active /\ now' = now /\ lastActive' = lastActive
  BY DEF envVars
<1>2. TypeOK'
  BY <1>1 DEF Fresh, TypeOK, Records
<1>3. Identified'
  BY DEF Fresh, TypeOK, Identified
<1>4. ASSUME NEW d \in Conns, task'[d] = "parse"
      PROVE  readAt'[d] <= lastActive'[peerOf'[d]] /\ now' <= readAt'[d] + MaxRead
  <2>1. CASE d = c
    <3>1. s = "parse" /\ t = now /\ readAt'[d] = now /\ peerOf'[d] = q /\ q \in Peers
      BY <1>4, <2>1 DEF Fresh, TypeOK
    <3>2. lastActive[q] = now /\ now \in Nat
      BY <3>1 DEF Fresh, TypeOK, Times
    <3> QED
      BY <1>1, <3>1, <3>2, TimeAssumption
  <2>2. CASE d # c
    BY <1>1, <1>4, <2>2 DEF Fresh, TypeOK, ReadsRecent
  <2> QED
    BY <2>1, <2>2
<1>5. CacheRecent'
  BY <1>1 DEF CacheRecent, Recent
<1>6. ReadsRecent'
  BY <1>4 DEF ReadsRecent
<1>7. \A p \in Peers : lastActive'[p] <= now' /\ (p \in active' => lastActive'[p] = now')
  BY <1>1 DEF Fresh
<1> QED
  BY <1>2, <1>3, <1>5, <1>6, <1>7 DEF Fresh

LEMMA DecideTypes ==
    ASSUME TypeOK, NEW c, NEW p \in Peers, Decide(c, p)
    PROVE  /\ counters' \in [Peers -> Nat]
           /\ \E s \in {"refused", "serve"} : task' = [task EXCEPT ![c] = s]
<1>0. counters \in [Peers -> Nat]
  BY DEF TypeOK
<1>1. CASE counters[p] >= Limit
  <2>1. task' = [task EXCEPT ![c] = "refused"] /\ counters' = counters
    BY <1>1 DEF Decide, Refuse
  <2> QED
    BY <1>0, <2>1
<1>2. CASE ~(counters[p] >= Limit)
  <2>1. task' = [task EXCEPT ![c] = "serve"] /\ counters' = [counters EXCEPT ![p] = @ + 1]
    BY <1>2 DEF Decide
  <2>2. counters' \in [Peers -> Nat]
    BY <1>0, <2>1
  <2> QED
    BY <2>1, <2>2
<1> QED
  BY <1>1, <1>2

\* When lastActive only grows, what was fresh stays so.
LEMMA LaterStillFresh ==
    ASSUME Fresh, TypeOK', UNCHANGED <<task, peerOf, readAt, cache>>,
           \A q \in Peers : lastActive[q] <= lastActive'[q],
           \A d \in Conns : task[d] = "parse" => now' <= readAt[d] + MaxRead
    PROVE  ReadsRecent' /\ CacheRecent'
<1>0. /\ \A q \in Peers : lastActive[q] \in Nat /\ lastActive'[q] \in Nat
      /\ readAt \in [Conns -> Nat] /\ cache \in Seq(Records)
  BY DEF Fresh, TypeOK, Times, Records
<1>1. ASSUME NEW d \in Conns, task[d] = "parse" PROVE readAt[d] <= lastActive'[peerOf[d]]
  <2>1. peerOf[d] \in Peers /\ readAt[d] <= lastActive[peerOf[d]]
    BY <1>1 DEF Fresh, Identified, ReadsRecent
  <2> QED
    BY <1>0, <2>1
<1>2. ASSUME NEW i \in DOMAIN cache
      PROVE  cache[i].time <= lastActive'[cache[i].peer] + MaxRead
  <2>0. cache[i] \in Records
    BY <1>0
  <2>1. cache[i].peer \in Peers /\ cache[i].time \in Nat
    BY <2>0 DEF Records, Times
  <2>2. cache[i].time <= lastActive[cache[i].peer] + MaxRead
    BY DEF Fresh, CacheRecent, Recent
  <2> QED
    BY <1>0, <2>1, <2>2, TimeAssumption
<1> QED
  BY <1>1, <1>2 DEF ReadsRecent, CacheRecent, Recent

LEMMA FreshStep == Fresh /\ [Next]_vars => Fresh'
<1> SUFFICES ASSUME Fresh, [Next]_vars PROVE Fresh'
  OBVIOUS
<1>0. /\ TypeOK /\ Identified /\ CacheBounded /\ cache \in Seq(Records)
      /\ \A i \in DOMAIN cache : Recent(cache[i])
      /\ now \in Times /\ 0 \in Times /\ readAt \in [Conns -> Times]
      /\ peerOf \in [Conns -> Peers \cup {NoPeer}] /\ counters \in [Peers -> Nat]
  BY TimeAssumption DEF Fresh, TypeOK, Records, Times, CacheRecent
<1>a. ASSUME cache' = cache
      PROVE  /\ cache' \in Seq(Records) /\ CacheBounded'
             /\ \A i \in DOMAIN cache' : Recent(cache'[i])
  BY <1>0, <1>a DEF CacheBounded
<1>b. ASSUME NEW c \in Conns, UNCHANGED readAt
      PROVE  readAt[c] \in Times /\ readAt' = [readAt EXCEPT ![c] = readAt[c]]
  BY <1>0, <1>b
<1>c. ASSUME NEW c \in Conns, UNCHANGED peerOf
      PROVE  /\ peerOf[c] \in Peers \cup {NoPeer}
             /\ peerOf' = [peerOf EXCEPT ![c] = peerOf[c]]
  BY <1>0, <1>c
<1>1. ASSUME NEW c \in Conns, NEW p \in Peers \cup {NoPeer}, Start(c, p) PROVE Fresh'
  <2>1. /\ peerOf' = [peerOf EXCEPT ![c] = p]
        /\ UNCHANGED readAt /\ cache' = cache /\ UNCHANGED envVars
    BY <1>1 DEF Start
  <2>2. /\ counters' \in [Peers -> Nat]
        /\ \/ task' = [task EXCEPT ![c] = "refused"]
           \/ p \in Peers /\ task' = [task EXCEPT ![c] = "serve"]
           \/ p \in Peers /\ task' = [task EXCEPT ![c] = "look"]
    BY <1>0, <1>1, DecideTypes DEF Start, Refuse
  <2> QED
    BY <1>a, <1>b, <2>1, <2>2, TaskStep DEF TaskStates
<1>2. ASSUME NEW c \in Conns, LookForPeer(c) PROVE Fresh'
  <2>1. /\ UNCHANGED peerOf /\ cache' = cache /\ UNCHANGED envVars /\ counters' = counters
        /\ peerOf[c] \in Peers
    BY <1>0, <1>2 DEF LookForPeer, Refuse, Identified
  <2>2. CASE peerOf[c] \in active
    <3>1. task' = [task EXCEPT ![c] = "parse"] /\ readAt' = [readAt EXCEPT ![c] = now]
      BY <1>2, <2>2 DEF LookForPeer
    <3> QED
      BY <1>0, <1>a, <1>c, <2>1, <2>2, <3>1, TaskStep DEF TaskStates
  <2>3. CASE peerOf[c] \notin active
    <3>1. task' = [task EXCEPT ![c] = "refused"] /\ UNCHANGED readAt
      BY <1>2, <2>3 DEF LookForPeer, Refuse
    <3> QED
      <4>1. peerOf' = [peerOf EXCEPT ![c] = peerOf[c]]
        BY <1>c, <2>1
      <4>2. readAt[c] \in Times /\ readAt' = [readAt EXCEPT ![c] = readAt[c]]
        BY <1>b, <3>1
      <4> QED
        BY <1>0, <1>a, <2>1, <3>1, <4>1, <4>2, TaskStep DEF TaskStates
  <2> QED
    BY <2>2, <2>3
<1>3. ASSUME NEW c \in Conns, PeerDataRead(c) PROVE Fresh'
  <2> DEFINE p == peerOf[c]
  <2>1. /\ task[c] = "parse" /\ p \in Peers /\ UNCHANGED peerOf /\ UNCHANGED envVars
        /\ readAt' = [readAt EXCEPT ![c] = 0]
        /\ StorePeerData(p) /\ Decide(c, p)
    BY <1>0, <1>3 DEF PeerDataRead, Identified
  <2>2. /\ cache' \in Seq(Records) /\ CacheBounded'
        /\ \A i \in DOMAIN cache' : \/ cache'[i] = [peer |-> p, time |-> now]
                                    \/ \E j \in DOMAIN cache : cache'[i] = cache[j]
    BY <1>0, <2>1, StoreStep
  <2>3. Recent([peer |-> p, time |-> now])
    <3>1. readAt[c] <= lastActive[p] /\ now <= readAt[c] + MaxRead
      BY <2>1 DEF Fresh, ReadsRecent
    <3>2. readAt[c] \in Nat /\ lastActive[p] \in Nat /\ now \in Nat
      BY <2>1 DEF Fresh, TypeOK, Times
    <3> QED
      BY <3>1, <3>2, TimeAssumption DEF Recent
  <2>4. \A i \in DOMAIN cache' : Recent(cache'[i])
    BY <1>0, <2>2, <2>3
  <2>5. PICK s \in {"refused", "serve"} : task' = [task EXCEPT ![c] = s]
    BY <1>0, <2>1, DecideTypes
  <2>6. counters' \in [Peers -> Nat]
    BY <1>0, <2>1, DecideTypes
  <2>7. s \in TaskStates /\ s # "parse"
    BY <2>5 DEF TaskStates
  <2>8. p \in Peers \cup {NoPeer} /\ peerOf' = [peerOf EXCEPT ![c] = p]
    BY <1>c, <2>1
  <2>9. 0 \in Times /\ cache' \in Seq(Records) /\ CacheBounded'
    BY <1>0, <2>2
  <2> HIDE DEF p
  <2> QED
    BY <2>1, <2>4, <2>5, <2>6, <2>7, <2>8, <2>9, TaskStep
<1>4. ASSUME NEW c \in Conns, ReadFails(c) PROVE Fresh'
  <2>1. /\ task' = [task EXCEPT ![c] = "refused"] /\ readAt' = [readAt EXCEPT ![c] = 0]
        /\ UNCHANGED peerOf /\ cache' = cache /\ UNCHANGED envVars /\ counters' = counters
    BY <1>4 DEF ReadFails, Refuse
  <2> QED
    BY <1>0, <1>a, <1>c, <2>1, TaskStep DEF TaskStates
<1>5. ASSUME NEW c \in Conns, PublishEnds(c) PROVE Fresh'
  <2>1. /\ task' = [task EXCEPT ![c] = "ended"] /\ UNCHANGED readAt
        /\ UNCHANGED peerOf /\ cache' = cache /\ UNCHANGED envVars
        /\ peerOf[c] \in Peers
        /\ counters' = [counters EXCEPT ![peerOf[c]] = IF @ <= 1 THEN 0 ELSE @ - 1]
    BY <1>0, <1>5 DEF PublishEnds, Identified
  <2>2. counters' \in [Peers -> Nat]
    BY <1>0, <2>1
  <2> QED
    <3>1. peerOf' = [peerOf EXCEPT ![c] = peerOf[c]]
      BY <1>c, <2>1
    <3>2. readAt[c] \in Times /\ readAt' = [readAt EXCEPT ![c] = readAt[c]]
      BY <1>b, <2>1
    <3> QED
      BY <1>a, <2>1, <2>2, <3>1, <3>2, TaskStep DEF TaskStates
<1>6. ASSUME NEW p \in Peers, ChangeActive(p) PROVE Fresh'
  <2>1. /\ UNCHANGED <<task, peerOf, readAt, cache, counters, now>>
        /\ active' = IF p \in active THEN active \ {p} ELSE active \cup {p}
        /\ lastActive' = [lastActive EXCEPT ![p] = now]
    BY <1>6 DEF ChangeActive, connVars
  <2>2. TypeOK'
    BY <1>0, <2>1 DEF TypeOK
  <2>3. Identified' /\ CacheBounded'
    BY <1>0, <2>1 DEF Identified, CacheBounded
  <2>4. \A q \in Peers : lastActive[q] \in Nat /\ now \in Nat /\ lastActive[q] <= now
    BY DEF Fresh, TypeOK, Times
  <2>5. \A q \in Peers : lastActive[q] <= lastActive'[q] /\ lastActive'[q] <= now
    BY <1>0, <2>1, <2>4 DEF TypeOK
  <2>6. \A q \in Peers : q \in active' => lastActive'[q] = now
    BY <1>0, <2>1 DEF Fresh, TypeOK
  <2>7. ReadsRecent' /\ CacheRecent'
    BY <2>1, <2>2, <2>4, <2>5, LaterStillFresh DEF Fresh, ReadsRecent
  <2> QED
    BY <2>1, <2>2, <2>3, <2>5, <2>6, <2>7 DEF Fresh
<1>7. CASE Tick
  <2>1. /\ UNCHANGED <<task, peerOf, readAt, cache, counters, active>>
        /\ now' = now + 1 /\ now < MaxTime
        /\ lastActive' = [q \in Peers |-> IF q \in active THEN now + 1 ELSE lastActive[q]]
        /\ \A c \in Conns : task[c] = "parse" => now - readAt[c] < MaxRead
    BY <1>7 DEF Tick, connVars
  <2>2. TypeOK'
    BY <1>0, <2>1, TimeAssumption DEF TypeOK, Times
  <2>3. Identified' /\ CacheBounded'
    BY <1>0, <2>1 DEF Identified, CacheBounded
  <2>4. \A q \in Peers : lastActive[q] \in Nat /\ now \in Nat /\ lastActive[q] <= now
    BY DEF Fresh, TypeOK, Times
  <2>5. \A q \in Peers : lastActive[q] <= lastActive'[q] /\ lastActive'[q] <= now'
    BY <2>1, <2>4
  <2>6. \A q \in Peers : q \in active' => lastActive'[q] = now'
    BY <2>1
  <2>7. \A d \in Conns : task[d] = "parse" => now' <= readAt[d] + MaxRead
    BY <1>0, <2>1, TimeAssumption DEF Times
  <2>8. ReadsRecent' /\ CacheRecent'
    BY <2>1, <2>2, <2>5, <2>7, LaterStillFresh
  <2> QED
    BY <2>2, <2>3, <2>5, <2>6, <2>8 DEF Fresh
<1>8. CASE UNCHANGED vars
  BY <1>8 DEF vars, connVars, envVars, Fresh, TypeOK, Identified, CacheBounded,
              ReadsRecent, CacheRecent, Recent
<1> QED
  BY <1>1, <1>2, <1>3, <1>4, <1>5, <1>6, <1>7, <1>8 DEF Next

\* The state of the tasks, the cache, the counters and the clock is well typed.
THEOREM AdmissionTypes == Spec => []TypeOK
<1>1. Fresh => TypeOK
  BY DEF Fresh
<1> QED
  BY <1>1, FreshInit, FreshStep, PTL DEF Spec

\* __store_peer_data keeps the cache within max_cached_peers, with one record
\* for a peer, for any number of tasks that store.
THEOREM CacheIsBounded == Spec => []CacheBounded
<1>1. Fresh => CacheBounded
  BY DEF Fresh
<1> QED
  BY <1>1, FreshInit, FreshStep, PTL DEF Spec

\* A connection is admitted on data that is no older than peers_cache_seconds
\* and the time it took to read: cached data does not grow old unnoticed.
LEMMA AdmitStep ==
    ASSUME Fresh, Next, NEW c \in Conns, task[c] # "serve", task'[c] = "serve"
    PROVE  now - lastActive[peerOf'[c]] <= CacheSeconds + MaxRead
<1>0. /\ task \in [Conns -> TaskStates] /\ peerOf \in [Conns -> Peers \cup {NoPeer}]
      /\ now \in Nat /\ \A q \in Peers : lastActive[q] \in Nat
      /\ cache \in Seq(Records) /\ readAt \in [Conns -> Nat]
  BY DEF Fresh, TypeOK, Times, Records
<1>1. \/ \E p \in Peers \cup {NoPeer} : Start(c, p)
      \/ PeerDataRead(c)
  <2>1. ASSUME NEW d \in Conns, NEW p \in Peers \cup {NoPeer}, Start(d, p) PROVE d = c
    BY <1>0, <2>1 DEF Start, Refuse, Decide
  <2>2. ASSUME NEW d \in Conns,
               LookForPeer(d) \/ ReadFails(d) \/ PublishEnds(d) \/ PeerDataRead(d)
        PROVE  d = c /\ PeerDataRead(d)
    BY <1>0, <2>2 DEF LookForPeer, ReadFails, PublishEnds, PeerDataRead, Refuse, Decide
  <2>3. ASSUME Tick \/ \E p \in Peers : ChangeActive(p) PROVE FALSE
    BY <2>3 DEF Tick, ChangeActive, connVars
  <2> QED
    BY <2>1, <2>2, <2>3 DEF Next
<1>2. CASE PeerDataRead(c)
  <2>1. /\ task[c] = "parse" /\ peerOf'[c] = peerOf[c] /\ peerOf[c] \in Peers
    BY <1>2 DEF PeerDataRead, Fresh, Identified
  <2>2. readAt[c] <= lastActive[peerOf[c]] /\ now <= readAt[c] + MaxRead
    BY <2>1 DEF Fresh, ReadsRecent
  <2> QED
    BY <1>0, <2>1, <2>2, TimeAssumption, CacheAssumption
<1>3. CASE \E p \in Peers \cup {NoPeer} : Start(c, p)
  <2>1. PICK p \in Peers \cup {NoPeer} : Start(c, p)
    BY <1>3
  <2>2. peerOf'[c] = p /\ p \in Peers /\ IsCached(p)
    BY <1>0, <2>1 DEF Start, Refuse
  <2>3. PICK i \in DOMAIN cache : cache[i].peer = p /\ cache[i].time >= now - CacheSeconds
    BY <2>2 DEF IsCached
  <2>4. cache[i].time \in Nat
    <3>1. cache[i] \in Records
      BY <1>0, <2>3
    <3> QED
      BY <3>1 DEF Records, Times
  <2>5. cache[i].time <= lastActive[p] + MaxRead
    BY <2>3 DEF Fresh, CacheRecent, Recent
  <2> QED
    BY <1>0, <2>2, <2>3, <2>4, <2>5, TimeAssumption, CacheAssumption
<1> QED
  BY <1>1, <1>2, <1>3

\* A peer whose ACTIVE file was removed is refused once peers_cache_seconds and
\* the time that reading its files takes are over.
THEOREM AdmittedPeersAreFresh == Spec => AdmittedAreFresh
<1>1. Fresh /\ [Next]_vars =>
        [\A c \in Conns : task[c] # "serve" /\ task'[c] = "serve" =>
            now - lastActive[peerOf'[c]] <= CacheSeconds + MaxRead]_vars
  BY AdmitStep
<1> QED
  BY <1>1, FreshInit, FreshStep, PTL DEF Spec, AdmittedAreFresh

=============================================================================
