------------------------------ MODULE Admission ------------------------------
(***************************************************************************)
(* Who may publish: the part of the server's publisher tasks that runs     *)
(* before and around publish_to_exchange (server.py, publish and           *)
(* _allowed_peer_connection), for all the connections of one server, with  *)
(* the cache of peer data they share (peer_data.py).                       *)
(*                                                                         *)
(* A task suspends only while it reads the files of a peer that is not in  *)
(* the cache.  The node's own data was read when the server started.       *)
(***************************************************************************)
EXTENDS Integers, Sequences, FiniteSets

CONSTANTS
    Conns,          \* the connections that are made to the server
    Peers,          \* the serial numbers that certificates carry
    NoPeer,         \* a certificate without a valid subject
    Limit,          \* max_connections_per_peer
    CacheSize,      \* max_cached_peers
    CacheSeconds,   \* peers_cache_seconds
    MaxRead,        \* bound: time that reading the files of a peer takes
    MaxTime         \* bound: time.time()

ASSUME ConnsAssumption == IsFiniteSet(Conns) /\ NoPeer \notin Peers
ASSUME LimitAssumption == Limit \in Nat
ASSUME CacheAssumption == CacheSize \in Nat \ {0} /\ CacheSeconds \in Nat
ASSUME TimeAssumption == MaxRead \in Nat /\ MaxTime \in Nat

VARIABLES
    task,         \* of each connection: what its publish task is doing
    peerOf,       \* the serial number in the certificate of each connection
    readAt,       \* when the task, still reading, saw the peer's ACTIVE file
    cache,        \* the OrderedDict __peers: records in the order of insertion
    counters,     \* _connection_counters; zero where there is no key
    active,       \* the peers with an ACTIVE file
    now,          \* time.time()
    lastActive    \* history: when each peer was last active

connVars == <<task, peerOf, readAt>>
envVars  == <<active, now, lastActive>>
vars == <<connVars, cache, counters, envVars>>

\* "look": about to read the directory and the ACTIVE file of the peer;
\* "parse": about to read its other files; "serve": in publish_to_exchange.
TaskStates == {"none", "look", "parse", "serve", "refused", "ended"}

Times == 0 .. MaxTime

TypeOK ==
    /\ task \in [Conns -> TaskStates]
    /\ peerOf \in [Conns -> Peers \cup {NoPeer}]
    /\ readAt \in [Conns -> Times]
    /\ cache \in Seq([peer : Peers, time : Times])
    /\ counters \in [Peers -> Nat]
    /\ active \in SUBSET Peers
    /\ now \in Times
    /\ lastActive \in [Peers -> Times]

Init ==
    /\ task = [c \in Conns |-> "none"]
    /\ peerOf = [c \in Conns |-> NoPeer]
    /\ readAt = [c \in Conns |-> 0]
    /\ cache = <<>>
    /\ counters = [p \in Peers |-> 0]
    /\ active = Peers
    /\ now = 0
    /\ lastActive = [p \in Peers |-> 0]

-----------------------------------------------------------------------------
(* The cache                                                               *)

\* Mutant: what is cached is used as long as it stays there.
IsCachedForever(p) == \E i \in DOMAIN cache : cache[i].peer = p

\* __get_stored_peer_data finds a record that is not too old.
IsCached(p) ==
    \E i \in DOMAIN cache : cache[i].peer = p /\ cache[i].time >= now - CacheSeconds

\* Mutant: > in place of >=.
EvictedLate == SubSeq(cache, 1, IF Len(cache) <= CacheSize THEN Len(cache) ELSE CacheSize)

\* The records that popitem leaves: it takes the last one, until there is room.
Evicted == SubSeq(cache, 1, IF Len(cache) < CacheSize THEN Len(cache) ELSE CacheSize - 1)

\* __store_peer_data: a key that is still there keeps its place.
StorePeerData(p) ==
    LET record == [peer |-> p, time |-> now]
    IN  cache' = IF \E i \in DOMAIN Evicted : Evicted[i].peer = p
                 THEN [i \in DOMAIN Evicted |->
                          IF Evicted[i].peer = p THEN record ELSE Evicted[i]]
                 ELSE Append(Evicted, record)

-----------------------------------------------------------------------------
(* publish, the task of connection c                                       *)

Refuse(c) ==
    /\ task' = [task EXCEPT ![c] = "refused"]
    /\ UNCHANGED counters

\* Mutant: the limit itself is let through.
DecideOffByOne(c, p) ==
    IF counters[p] > Limit
    THEN Refuse(c)
    ELSE /\ task' = [task EXCEPT ![c] = "serve"]
         /\ counters' = [counters EXCEPT ![p] = @ + 1]

\* The peer is known: check its counter and enter _allowed_peer_connection.
Decide(c, p) ==
    IF counters[p] >= Limit
    THEN Refuse(c)
    ELSE /\ task' = [task EXCEPT ![c] = "serve"]
         /\ counters' = [counters EXCEPT ![p] = @ + 1]

\* The connection is made and its task runs up to the first suspension.
Start(c, p) ==
    /\ task[c] = "none"
    /\ peerOf' = [peerOf EXCEPT ![c] = p]
    /\ \/ p = NoPeer /\ Refuse(c)
       \/ p \in Peers /\ IsCached(p) /\ Decide(c, p)
       \/ /\ p \in Peers /\ ~IsCached(p)
          /\ task' = [task EXCEPT ![c] = "look"]
          /\ UNCHANGED counters
    /\ UNCHANGED <<readAt, cache, envVars>>

\* _get_peer_data sees the ACTIVE file and goes on, or returns None.
LookForPeer(c) ==
    /\ task[c] = "look"
    /\ IF peerOf[c] \in active
       THEN /\ task' = [task EXCEPT ![c] = "parse"]
            /\ readAt' = [readAt EXCEPT ![c] = now]
            /\ UNCHANGED counters
       ELSE Refuse(c) /\ UNCHANGED readAt
    /\ UNCHANGED <<peerOf, cache, envVars>>

\* _get_peer_data returns: get_peer_data stores, and publish decides, without
\* another suspension.
PeerDataRead(c) ==
    /\ task[c] = "parse"
    /\ StorePeerData(peerOf[c])
    /\ Decide(c, peerOf[c])
    /\ readAt' = [readAt EXCEPT ![c] = 0]
    /\ UNCHANGED <<peerOf, envVars>>

\* A file is missing or invalid: "Internal server error."
ReadFails(c) ==
    /\ task[c] \in {"look", "parse"}
    /\ Refuse(c)
    /\ readAt' = [readAt EXCEPT ![c] = 0]
    /\ UNCHANGED <<peerOf, cache, envVars>>

\* Mutant: the finally clause also covers the refusals, and has no floor.
PublishEndsRefused(c) ==
    /\ task[c] \in {"serve", "refused"} /\ peerOf[c] \in Peers
    /\ task' = [task EXCEPT ![c] = "ended"]
    /\ counters' = [counters EXCEPT ![peerOf[c]] = @ - 1]
    /\ UNCHANGED <<peerOf, readAt, cache, envVars>>

\* publish_to_exchange returns or raises: the finally clause of
\* _allowed_peer_connection runs.
PublishEnds(c) ==
    /\ task[c] = "serve"
    /\ task' = [task EXCEPT ![c] = "ended"]
    /\ counters' = [counters EXCEPT ![peerOf[c]] = IF @ <= 1 THEN 0 ELSE @ - 1]
    /\ UNCHANGED <<peerOf, readAt, cache, envVars>>

-----------------------------------------------------------------------------
(* The files and the clock                                                 *)

\* An operator removes or creates the ACTIVE file of p.
ChangeActive(p) ==
    /\ active' = IF p \in active THEN active \ {p} ELSE active \cup {p}
    /\ lastActive' = [lastActive EXCEPT ![p] = now]
    /\ UNCHANGED <<connVars, cache, counters, now>>

Tick ==
    /\ now < MaxTime
    /\ \A c \in Conns : task[c] = "parse" => now - readAt[c] < MaxRead
    /\ now' = now + 1
    /\ lastActive' = [p \in Peers |-> IF p \in active THEN now + 1 ELSE lastActive[p]]
    /\ UNCHANGED <<connVars, cache, counters, active>>

Next ==
    \/ \E c \in Conns :
          \/ \E p \in Peers \cup {NoPeer} : Start(c, p)
          \/ LookForPeer(c) \/ PeerDataRead(c) \/ ReadFails(c) \/ PublishEnds(c)
    \/ \E p \in Peers : ChangeActive(p)
    \/ Tick

Spec == Init /\ [][Next]_vars

-----------------------------------------------------------------------------
(* Properties                                                              *)

Serving(p) == {c \in Conns : task[c] = "serve" /\ peerOf[c] = p}

\* The counter of a peer is the number of its connections that publish, however
\* their tasks interleave and end, and there are never more than the limit: no
\* suspension separates the check of the counter from its increment.
SlotsExact ==
    \A p \in Peers : counters[p] = Cardinality(Serving(p)) /\ counters[p] <= Limit

\* The cache never outgrows its size and has one record for a peer, also when
\* two tasks read the files of the same peer at the same time.
CacheBounded ==
    /\ Len(cache) <= CacheSize
    /\ \A i, j \in DOMAIN cache : cache[i].peer = cache[j].peer => i = j

\* A connection is let in only if its peer had its ACTIVE file not longer ago
\* than the cache keeps a record and reading the files takes.
AdmittedAreFresh ==
    [][\A c \in Conns : task[c] # "serve" /\ task'[c] = "serve" =>
          now - lastActive[peerOf'[c]] <= CacheSeconds + MaxRead]_vars

=============================================================================
