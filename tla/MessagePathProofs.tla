-------------------------- MODULE MessagePathProofs --------------------------
(***************************************************************************)
(* The properties of MessagePath, for every set of nodes, directories and  *)
(* IDs that satisfies the assumptions.  The invariant PathInv says of      *)
(* every message in an inbox where it comes from, and of every message in  *)
(* a queue why the bindings placed it there.                               *)
(***************************************************************************)
EXTENDS MessagePathLemmas

-----------------------------------------------------------------------------
(* The invariant                                                           *)

\* The invariant.  Every inbox holds only what FromAgent or FromAuthority allows;
InboxInv ==
    \A n \in Nodes : \A x \in inbox[n] :
        IF Net[n].nodetype = "AA" THEN FromAgent(n, x) ELSE FromAuthority(n, x)

\* a queue only what its bindings select among the messages of the application;
QueueInv ==
    \A l \in Links : \A m \in queue[l] :
        /\ Configurable(l) /\ SameExchange(l, m)
        /\ KeyMatches(BindingSubnet(l), KeyedId(l, m))
        /\ \E q \in Publishable(l[1]) : m = q \/ m \in Unsound(q)

\* and no queue is bound without a binding key.
PathInv ==
    /\ pc \in [Links -> 0 .. Len(Steps)]
    /\ objects \in [Links -> SUBSET AllObjects]
    /\ queue = [l \in Links |-> queue[l]]
    /\ inbox = [n \in Nodes |-> inbox[n]]
    /\ \A l \in Links : "exchange_binding" \in objects[l] => Configurable(l)
    /\ QueueInv
    /\ InboxInv

\* The IDs of an account that an agent sends requests about.
LEMMA AccountIds ==
  ASSUME NEW n \in Nodes, Net[n].nodetype # "AA", NEW a \in Accounts(n)
  PROVE  /\ a.debtor_id \in Int64 /\ a.creditor_id \in Int64
         /\ Match(NodeData[n].debtors_subnet, a.debtor_id)
         /\ Match(NodeData[n].creditors_subnet, a.creditor_id)
<1>1. /\ a.debtor_id \in {d \in SampleIds : Match(NodeData[n].debtors_subnet, d)}
      /\ a.creditor_id \in {c \in SampleIds \cup {ROOT_CREDITOR_ID} :
                              Match(NodeData[n].creditors_subnet, c)}
  BY DEF Accounts
<1> QED
  BY <1>1 DEF Match

\* What the application of n may publish: a request about one of its accounts, or
\* an answer to something in its inbox.
Origin(n, q) ==
    IF Net[n].nodetype = "AA"
    THEN \E y \in inbox[n] : FromAgent(n, y) /\ AnswerOf(q, y.message)
    ELSE \E d, c \in Int64 : /\ Match(NodeData[n].debtors_subnet, d)
                             /\ Match(NodeData[n].creditors_subnet, c)
                             /\ Asks(n, q, d, c)

\* With sound inboxes, the applications publish only such messages.
LEMMA PublishableOrigin ==
  ASSUME NEW n \in Nodes, InboxInv, NEW q \in Publishable(n)
  PROVE  Origin(n, q)
<1>1. CASE Net[n].nodetype = "AA"
  <2>1. PICK y \in inbox[n] : q \in Answers(y.message)
    BY <1>1 DEF Publishable
  <2>2. FromAgent(n, y) /\ AnswerOf(q, y.message)
    BY <1>1, <2>1, AnswersAre DEF InboxInv
  <2> QED
    BY <1>1, <2>2 DEF Origin
<1>2. CASE Net[n].nodetype # "AA"
  <2>1. PICK a \in Accounts(n) : q \in Requests(n, a.debtor_id, a.creditor_id)
    BY <1>2 DEF Publishable
  <2>2. Asks(n, q, a.debtor_id, a.creditor_id)
    BY <2>1, RequestsAsk
  <2> QED
    BY <1>2, <2>1, <2>2, AccountIds DEF Origin
<1> QED
  BY <1>1, <1>2

\* These are well-formed, sound, and have the right coordinator.
LEMMA OriginFacts ==
  ASSUME NEW n \in Nodes, NEW q, Origin(n, q)
  PROVE  /\ q.type \in MsgTypes /\ DOMAIN q = FieldsOf(q.type) /\ Amounts(q)
         /\ Coordinates(q) /\ q.sound = TRUE
<1>1. CASE Net[n].nodetype = "AA"
  <2>1. PICK y : AnswerOf(q, y.message)
    BY <1>1 DEF Origin
  <2>2. q.type \in OUT_MESSAGE_TYPES /\ DOMAIN q = FieldsOf(q.type) /\ Amounts(q) /\ q.sound = TRUE
    BY <2>1 DEF AnswerOf, Sent
  <2> QED
    BY <2>2 DEF MsgTypes, Coordinates, OUT_MESSAGE_TYPES
<1>2. CASE Net[n].nodetype # "AA"
  <2>1. PICK d, c \in Int64 : Match(NodeData[n].creditors_subnet, c) /\ Asks(n, q, d, c)
    BY <1>2 DEF Origin
  <2>2. /\ q.type \in IN_MESSAGE_TYPES /\ DOMAIN q = FieldsOf(q.type) /\ Amounts(q)
        /\ q.debtor_id = d /\ q.creditor_id = c /\ q.sound = TRUE
    BY <2>1 DEF Asks, Sent
  <2>3. q.type \in MsgTypes
    BY <2>2 DEF MsgTypes
  <2>4. q.type = "PrepareTransfer" => HasCoordinator(q)
    BY <2>2, <2>3, FieldFacts
  <2>5. Net[n].nodetype # "CA" => c = ROOT_CREDITOR_ID
    <3>1. Net[n].nodetype # "CA" => Net[n].nodetype = "DA"
      BY <1>2, NetAssumption
    <3>2. Net[n].nodetype = "DA" => NodeData[n].creditors_subnet = ZERO_SUBNET
      BY NodeDataIs
    <3>3. c \in Int
      BY <2>1, Ints
    <3> QED
      BY <2>1, <3>1, <3>2, <3>3, MatchZero DEF ROOT_CREDITOR_ID
  <2>6. Coordinates(q)
    BY <2>1, <2>2, <2>4, <2>5 DEF Asks, CoordinatorIs, Coordinates
  <2> QED
    BY <2>2, <2>3, <2>6
<1> QED
  BY <1>1, <1>2, Zenon

\* The unsound variants of them are broken.
LEMMA UnsoundOrigin ==
  ASSUME NEW n \in Nodes, NEW q, Origin(n, q), NEW u \in Unsound(q)
  PROVE  Broken(u)
  BY OriginFacts, UnsoundBroken, Zenon

\* The invariant holds at first, and every action keeps it.
LEMMA InitPath == Init => PathInv
<1> SUFFICES ASSUME Init PROVE PathInv
  OBVIOUS
<1>1. Len(Steps) \in Nat
  BY DEF Steps
<1>2. pc \in [Links -> 0 .. Len(Steps)]
  BY <1>1 DEF Init
<1>3. objects \in [Links -> SUBSET AllObjects]
  BY DEF Init
<1>4. queue = [l \in Links |-> queue[l]] /\ inbox = [n \in Nodes |-> inbox[n]]
  BY DEF Init
<1>5. \A l \in Links : "exchange_binding" \in objects[l] => Configurable(l)
  BY DEF Init
<1>6. QueueInv /\ InboxInv
  BY DEF Init, QueueInv, InboxInv
<1> QED
  BY <1>2, <1>3, <1>4, <1>5, <1>6 DEF PathInv

\* The steps of bind_queue.
LEMMA StepsFacts ==
  /\ Len(Steps) = 6 /\ \A i \in 1 .. 6 : Steps[i] \in AllObjects
  /\ \A i \in 1 .. 6 : Steps[i] = "exchange_binding" => i = 3
  /\ {"exchange_binding", "queue", "queue_binding"} \subseteq AllObjects
<1>1. /\ Len(Steps) = 6 /\ DOMAIN Steps = 1 .. 6
      /\ Steps[1] = "main_exchange" /\ Steps[2] = "peer_exchange"
      /\ Steps[3] = "exchange_binding" /\ Steps[4] = "dead_letter_queue"
      /\ Steps[5] = "queue" /\ Steps[6] = "queue_binding"
  BY DEF Steps
<1>2. \A i \in 1 .. 6 : i = 1 \/ i = 2 \/ i = 3 \/ i = 4 \/ i = 5 \/ i = 6
  OBVIOUS
<1>3. \A i \in 1 .. 6 : Steps[i] \in AllObjects
  BY <1>1 DEF AllObjects
<1>4. 3 \in 1 .. 6 /\ 5 \in 1 .. 6 /\ 6 \in 1 .. 6
  OBVIOUS
<1>5. {"exchange_binding", "queue", "queue_binding"} \subseteq AllObjects
  BY <1>1, <1>3, <1>4
<1> QED
  BY <1>1, <1>2, <1>3, <1>5

\* The queues and the inboxes do not depend on the rest of the state.
LEMMA SamePath ==
  ASSUME PathInv, queue' = queue, inbox' = inbox
  PROVE  /\ QueueInv' /\ InboxInv'
         /\ queue' = [l \in Links |-> queue'[l]] /\ inbox' = [n \in Nodes |-> inbox'[n]]
<1>1. \A n : Publishable(n)' = Publishable(n)
  BY DEF Publishable, Accounts
<1> QED
  BY <1>1 DEF PathInv, QueueInv, InboxInv

\* bind_queue makes the binding only for a peer whose range has a binding key.
LEMMA ConfigureStepPath ==
  ASSUME PathInv, NEW l \in Links, ConfigureStep(l)
  PROVE  PathInv'
<1>1. queue' = queue /\ inbox' = inbox
  BY DEF ConfigureStep
<1>2. pc[l] \in 0 .. 5 /\ pc' = [pc EXCEPT ![l] = @ + 1]
  BY StepsFacts DEF ConfigureStep, PathInv
<1>3. pc' \in [Links -> 0 .. Len(Steps)]
  BY <1>2, StepsFacts DEF PathInv
<1>4. objects' = [objects EXCEPT ![l] = @ \cup {Steps[pc[l] + 1]}]
  BY DEF ConfigureStep
<1>5. objects' \in [Links -> SUBSET AllObjects]
  <2>1. Steps[pc[l] + 1] \in AllObjects
    BY <1>2, StepsFacts
  <2> QED
    BY <1>4, <2>1 DEF PathInv
<1>6. ASSUME NEW k \in Links, "exchange_binding" \in objects'[k]
      PROVE  Configurable(k)
  <2>1. CASE "exchange_binding" \in objects[k]
    BY <2>1 DEF PathInv
  <2>2. CASE k = l /\ Steps[pc[l] + 1] = "exchange_binding"
    <3>1. pc[l] + 1 = 3
      BY <1>2, <2>2, StepsFacts
    <3>2. pc[l] >= 1
      BY <1>2, <3>1
    <3> QED
      BY <2>2, <3>2 DEF ConfigureStep, Configurable
  <2> QED
    BY <1>4, <1>6, <2>1, <2>2 DEF PathInv
<1> QED
  BY <1>1, <1>3, <1>5, <1>6, SamePath DEF PathInv

\* Running the command again does not disturb what it made.
LEMMA ConfigureAgainPath ==
  ASSUME PathInv, NEW l \in Links, ConfigureAgain(l)
  PROVE  PathInv'
<1>1. pc' \in [Links -> 0 .. Len(Steps)]
  BY StepsFacts DEF ConfigureAgain, PathInv
<1> QED
  BY <1>1, SamePath DEF ConfigureAgain, PathInv

\* Publishing places a message only where the bindings say.
LEMMA PublishPath ==
  ASSUME PathInv, NEW n \in Nodes, NEW m, Publish(n, m),
         \E q \in Publishable(n) : m = q \/ m \in Unsound(q)
  PROVE  PathInv'
<1>1. pc' = pc /\ objects' = objects /\ inbox' = inbox
  BY DEF Publish
<1>2. queue' = [l \in Links |-> IF l[1] = n /\ Routed(l, m)
                                THEN queue[l] \cup {m} ELSE queue[l]]
  BY DEF Publish
<1>3. \A i : Publishable(i)' = Publishable(i)
  BY <1>1 DEF Publishable, Accounts
<1>4. ASSUME NEW l \in Links, NEW p \in queue'[l]
      PROVE  /\ Configurable(l) /\ SameExchange(l, p)
             /\ KeyMatches(BindingSubnet(l), KeyedId(l, p))
             /\ \E q \in Publishable(l[1]) : p = q \/ p \in Unsound(q)
  <2>1. CASE p \in queue[l]
    BY <2>1 DEF PathInv, QueueInv
  <2>2. CASE p = m /\ l[1] = n /\ Routed(l, m)
    <3>1. Configurable(l)
      BY <2>2 DEF Routed, PathInv
    <3>2. SameExchange(l, m) /\ KeyMatches(BindingSubnet(l), KeyedId(l, m))
      BY <2>2 DEF Routed
    <3> QED
      BY <2>2, <3>1, <3>2
  <2> QED
    BY <1>2, <1>4, <2>1, <2>2
<1>5. QueueInv'
  BY <1>3, <1>4 DEF QueueInv
<1>6. InboxInv'
  BY <1>1 DEF InboxInv, PathInv
<1>7. queue' = [l \in Links |-> queue'[l]]
  BY <1>2
<1> QED
  BY <1>1, <1>5, <1>6, <1>7 DEF PathInv

\* What a server publishes for its application.
LEMMA TransferArrives ==
  ASSUME PathInv, NEW l \in Links, Connected(l), NEW m \in queue[l], Arriving(l, m) # Refused,
         NEW x, x = [message |-> Arriving(l, m), from |-> l[1],
                     shard |-> ShardOf(NodeData[l[2]], Arriving(l, m))]
  PROVE  IF Net[l[2]].nodetype = "AA" THEN FromAgent(l[2], x) ELSE FromAuthority(l[2], x)
<1>1. /\ Configurable(l) /\ SameExchange(l, m)
      /\ KeyMatches(BindingSubnet(l), KeyedId(l, m))
      /\ l[1] \in Nodes
  BY LinkFacts DEF PathInv, QueueInv
<1>2. PICK q \in Publishable(l[1]) : m = q \/ m \in Unsound(q)
  BY DEF PathInv, QueueInv
<1>3. Origin(l[1], q)
  BY <1>1, <1>2, PublishableOrigin DEF PathInv
<1>4. m = q
  BY <1>1, <1>2, <1>3, UnsoundOrigin, BrokenRefused
<1>5. CASE Net[l[1]].nodetype = "AA"
  <2>1. PICK y \in inbox[l[1]] : FromAgent(l[1], y) /\ AnswerOf(m, y.message)
    BY <1>3, <1>4, <1>5 DEF Origin
  <2>2. m.creditor_id = y.message.creditor_id /\ m.debtor_id = y.message.debtor_id
    BY <2>1 DEF AnswerOf, Sent
  <2>3. y.from = l[2]
    BY <1>1, <1>5, <2>1, <2>2, AskerFound
  <2> QED
    BY <1>5, <2>1, <2>3, AnswerArrives
<1>6. CASE Net[l[1]].nodetype # "AA"
  <2>1. PICK d, c \in Int64 : Match(NodeData[l[1]].creditors_subnet, c) /\ Asks(l[1], m, d, c)
    BY <1>3, <1>4, <1>6 DEF Origin
  <2> QED
    BY <1>6, <2>1, RequestArrives
<1> QED
  BY <1>5, <1>6

\* A transfer adds to an inbox what TransferArrives says, and takes from a queue.
LEMMA TransferPath ==
  ASSUME PathInv, NEW l \in Links, Transfer(l)
  PROVE  PathInv'
<1>1. /\ pc' = pc /\ objects' = objects /\ Connected(l)
      /\ l[1] \in Nodes /\ l[2] \in Nodes
  BY LinkFacts DEF Transfer
<1>2. PICK m \in queue[l] :
        /\ Arriving(l, m) # Refused
        /\ queue' = [queue EXCEPT ![l] = @ \ {m}]
        /\ inbox' = [inbox EXCEPT ![l[2]] = @ \cup
                        {[message |-> Arriving(l, m), from |-> l[1],
                          shard |-> ShardOf(NodeData[l[2]], Arriving(l, m))]}]
  BY Zenon DEF Transfer
<1> DEFINE x == [message |-> Arriving(l, m), from |-> l[1],
                 shard |-> ShardOf(NodeData[l[2]], Arriving(l, m))]
<1>3. IF Net[l[2]].nodetype = "AA" THEN FromAgent(l[2], x) ELSE FromAuthority(l[2], x)
  BY <1>1, <1>2, TransferArrives
<1>4. inbox' = [inbox EXCEPT ![l[2]] = @ \cup {x}]
  BY <1>2
<1> HIDE DEF x
<1>5. InboxInv'
  <2>1. ASSUME NEW n \in Nodes, NEW y \in inbox'[n]
        PROVE  IF Net[n].nodetype = "AA" THEN FromAgent(n, y) ELSE FromAuthority(n, y)
    <3>1. y \in inbox[n] \/ (n = l[2] /\ y = x)
      BY <1>4, <2>1 DEF PathInv
    <3> QED
      BY <1>3, <3>1 DEF PathInv, InboxInv
  <2> QED
    BY <2>1 DEF InboxInv
<1>6. \A n \in Nodes : inbox[n] \subseteq inbox'[n]
  BY <1>4 DEF PathInv
<1>7. \A n \in Nodes : Publishable(n) \subseteq Publishable(n)'
  BY <1>6 DEF Publishable, Accounts
<1>8. \A k \in Links : queue'[k] \subseteq queue[k] /\ k[1] \in Nodes
  BY <1>2, LinkFacts DEF PathInv
<1>9. QueueInv'
  BY <1>7, <1>8 DEF QueueInv, PathInv
<1>10. queue' = [k \in Links |-> queue'[k]] /\ inbox' = [n \in Nodes |-> inbox'[n]]
  BY <1>2, <1>4, Zenon DEF PathInv
<1> QED
  BY <1>1, <1>5, <1>9, <1>10 DEF PathInv

\* Every step keeps the invariant.
LEMMA NextPath == PathInv /\ [Next]_vars => PathInv'
<1> SUFFICES ASSUME PathInv, [Next]_vars PROVE PathInv'
  OBVIOUS
<1>1. CASE vars' = vars
  BY <1>1, SamePath DEF vars, PathInv
<1>2. ASSUME NEW l \in Links, ConfigureStep(l) PROVE PathInv'
  BY <1>2, ConfigureStepPath
<1>3. ASSUME NEW l \in Links, ConfigureAgain(l) PROVE PathInv'
  BY <1>3, ConfigureAgainPath
<1>4. ASSUME NEW l \in Links, Activate(l) PROVE PathInv'
  BY <1>4, SamePath DEF Activate, PathInv
<1>5. ASSUME NEW l \in Links, Transfer(l) PROVE PathInv'
  BY <1>5, TransferPath
<1>6. ASSUME NEW n \in Nodes, ApplicationSends(n) PROVE PathInv'
  BY <1>6, PublishPath DEF ApplicationSends
<1> QED
  BY <1>1, <1>2, <1>3, <1>4, <1>5, <1>6 DEF Next

\* For every set of nodes and directories that satisfy the assumptions, PathInv is an
\* invariant of the way of the messages through configure_queue.py, client.py,
\* server.py and process_messages.py.
THEOREM PathInvariant == Spec => []PathInv
  BY InitPath, NextPath, PTL DEF Spec

-----------------------------------------------------------------------------
(* Inboxes                                                                 *)

\* InboxSound: preprocess_message of a server accepts only messages that are valid,
\* of its direction, and about accounts that its own directory gives to the peer.
THEOREM InboxSoundHolds == Spec => []InboxSound
<1>1. PathInv => InboxSound
  <2> SUFFICES ASSUME PathInv, NEW n \in Nodes, NEW x \in inbox[n]
               PROVE  LET m    == x.message
                          aa   == NodeData[IF Net[n].nodetype = "AA" THEN n ELSE x.from]
                          peer == KnownPeer(<<n, x.from>>)
                      IN /\ Loads(m) /\ m.sound
                         /\ m.type \in IF Net[n].nodetype = "AA" THEN IN_MESSAGE_TYPES
                                                                 ELSE OUT_MESSAGE_TYPES
                         /\ Match(NodeData[n].creditors_subnet, m.creditor_id)
                         /\ Net[n].nodetype = "AA" =>
                               Match(peer.creditors_subnet, m.creditor_id)
                         /\ Match(aa.debtors_subnet, m.debtor_id)
                         /\ Match(peer.debtors_subnet, m.debtor_id)
    BY Zenon DEF InboxSound
  <2> DEFINE m == x.message
             l == <<n, x.from>>
  <2>1. CASE Net[n].nodetype = "AA"
    <3>1. FromAgent(n, x)
      BY <2>1 DEF PathInv, InboxInv
    <3>2. /\ l \in Links /\ l[1] = n /\ KnownPeer(l) # NoPeer /\ Loads(m)
          /\ m.sound = TRUE /\ m.type \in IN_MESSAGE_TYPES
          /\ Match(KnownPeer(l).creditors_subnet, m.creditor_id)
          /\ Match(KnownPeer(l).debtors_subnet, m.debtor_id)
      BY <3>1 DEF FromAgent, Sent
    <3>3. m.creditor_id \in Int64 /\ m.debtor_id \in Int64 /\ m.creditor_id \in Int
      BY <3>2, Ints, Zenon DEF Match
    <3>4. Match(NodeData[n].creditors_subnet, m.creditor_id)
      BY <2>1, <3>3, NodeDataIs, MatchUniversal
    <3>5. Match(NodeData[n].debtors_subnet, m.debtor_id)
      <4> HIDE DEF m, l
      <4> QED
        BY <2>1, <3>2, <3>3, AgentOfAccount
    <3> QED
      BY <2>1, <3>2, <3>4, <3>5
  <2>2. CASE Net[n].nodetype # "AA"
    <3>1. FromAuthority(n, x)
      BY <2>2 DEF PathInv, InboxInv
    <3> QED
      BY <2>2, <3>1 DEF FromAuthority, Sent
  <2> QED
    BY <2>1, <2>2
<1> QED
  BY <1>1, PathInvariant, PTL

\* AnswersReachAskers: an answer comes back to the node and the creditor that asked,
\* under the ID that the asker knows; the translations of transform_message and
\* preprocess_message cancel out.
THEOREM AnswersReachAskersHolds == Spec => []AnswersReachAskers
<1>1. PathInv => AnswersReachAskers
  BY Zenon DEF PathInv, InboxInv, FromAuthority, AnswersReachAskers
<1> QED
  BY <1>1, PathInvariant, PTL

\* Two askers of one accounting authority have different IDs there.
LEMMA OneAsker ==
  ASSUME NEW n \in Nodes, Net[n].nodetype = "AA",
         NEW x, FromAgent(n, x), NEW y, FromAgent(n, y),
         x.message.debtor_id = y.message.debtor_id
  PROVE  x.message.creditor_id = y.message.creditor_id <=> x.message.asker = y.message.asker
<1> DEFINE p == x.from
           l == <<p, n>>
<1>1. PICK c \in Int64 : /\ x.message.asker = <<p, c>> /\ Match(NodeData[p].creditors_subnet, c)
                         /\ x.message.creditor_id = AuthorityId(l, c)
  BY DEF FromAgent
<1>2. PICK b \in Int64 : /\ y.message.asker = <<y.from, b>>
                         /\ Match(NodeData[y.from].creditors_subnet, b)
                         /\ y.message.creditor_id = AuthorityId(<<y.from, n>>, b)
  BY DEF FromAgent
<1>3. x.message.asker = y.message.asker => x.message.creditor_id = y.message.creditor_id
  BY <1>1, <1>2
<1>4. ASSUME x.message.creditor_id = y.message.creditor_id
      PROVE  x.message.asker = y.message.asker
  <2>1. x.from = y.from
    <3> DEFINE j == <<n, x.from>>
               k == <<n, y.from>>
               e == x.message.creditor_id
               d == x.message.debtor_id
    <3>1. /\ j \in Links /\ KnownPeer(j) # NoPeer /\ j[1] = n /\ j[2] = x.from
          /\ Match(KnownPeer(j).creditors_subnet, e) /\ Match(KnownPeer(j).debtors_subnet, d)
      BY DEF FromAgent
    <3>2. /\ k \in Links /\ KnownPeer(k) # NoPeer /\ k[1] = n /\ k[2] = y.from
          /\ Match(KnownPeer(k).creditors_subnet, e) /\ Match(KnownPeer(k).debtors_subnet, d)
      BY <1>4 DEF FromAgent
    <3> HIDE DEF j, k, e, d
    <3>3. e \in Int64 /\ d \in Int64
      BY <3>1 DEF Match
    <3>4. j = k
      BY <3>1, <3>2, <3>3, OneAgent
    <3> QED
      BY <3>1, <3>2, <3>4
  <2>2. c = b
    <3> DEFINE own == NodeData[p].creditors_subnet
               to == KnownPeer(l).creditors_subnet
    <3>1. /\ l \in Links /\ KnownPeer(l) # NoPeer /\ l[1] = p /\ l[2] = n
      BY DEF FromAgent
    <3>2. AuthorityId(l, c) = AuthorityId(l, b) /\ Match(own, c) /\ Match(own, b)
      BY <1>1, <1>2, <1>4, <2>1
    <3> HIDE DEF p, l
    <3>3. CASE Net[p].nodetype = "CA"
      <4>1. /\ IsSubnet(own) /\ IsSubnet(to) /\ own.subnet_mask = to.subnet_mask
            /\ ChangeSubnet(c, own, to) = ChangeSubnet(b, own, to)
        BY <3>1, <3>2, <3>3, KnownPeerIs DEF PeerIs, AuthorityId
      <4>2. /\ c \in Int /\ b \in Int
            /\ And(c, own.subnet_mask) = own.subnet /\ And(b, own.subnet_mask) = own.subnet
        BY <3>2, Ints DEF Match
      <4> HIDE DEF own, to
      <4>3. ChangeSubnet(ChangeSubnet(c, own, to), to, own) = c
        BY <4>1, <4>2, ChangeBack
      <4>4. ChangeSubnet(ChangeSubnet(b, own, to), to, own) = b
        BY <4>1, <4>2, ChangeBack
      <4> QED
        BY <4>1, <4>3, <4>4
    <3>4. CASE Net[p].nodetype # "CA"
      BY <3>1, <3>2, <3>4 DEF AuthorityId
    <3> QED
      BY <3>3, <3>4
  <2> QED
    BY <1>1, <1>2, <2>1, <2>2
<1> QED
  BY <1>3, <1>4

\* OneShardPerAccount: the routing key that preprocess_message computes for an
\* accounting authority is the same exactly for the same asker and debtor.
THEOREM OneShardPerAccountHolds == Spec => []OneShardPerAccount
<1>1. PathInv => OneShardPerAccount
  <2> SUFFICES ASSUME PathInv, NEW n \in Nodes, Net[n].nodetype = "AA",
                      NEW x \in inbox[n], NEW y \in inbox[n]
               PROVE  x.shard = y.shard <=> /\ x.message.asker = y.message.asker
                                            /\ x.message.debtor_id = y.message.debtor_id
    BY DEF OneShardPerAccount
  <2>1. FromAgent(n, x) /\ FromAgent(n, y)
    BY DEF PathInv, InboxInv
  <2>2. NodeData[n].node_type = "AA"
    BY NodeDataIs
  <2>3. /\ x.shard = <<x.message.debtor_id, x.message.creditor_id>>
        /\ y.shard = <<y.message.debtor_id, y.message.creditor_id>>
    BY <2>1, <2>2 DEF FromAgent, ShardOf
  <2>4. x.message.debtor_id = y.message.debtor_id =>
           (x.message.creditor_id = y.message.creditor_id
               <=> x.message.asker = y.message.asker)
    BY <2>1, OneAsker
  <2> QED
    BY <2>3, <2>4
<1> QED
  BY <1>1, PathInvariant, PTL

-----------------------------------------------------------------------------
(* Queues                                                                  *)

\* A request about an account of the sender is accepted over a link that the two
\* nodes agree on.
LEMMA RequestDeliverable ==
  ASSUME NEW l \in Links, Connected(l), Agreed(l), Net[l[1]].nodetype # "AA", Configurable(l),
         NEW d \in Int64, NEW c \in Int64, Match(NodeData[l[1]].creditors_subnet, c),
         Match(NodeData[l[1]].debtors_subnet, d),
         NEW m, Asks(l[1], m, d, c), KeyMatches(BindingSubnet(l), KeyedId(l, m)), Coordinates(m)
  PROVE  Arriving(l, m) # Refused
<1> DEFINE own == NodeData[l[1]].creditors_subnet
           to == KnownPeer(l).creditors_subnet
           back == KnownPeer(Back(l))
           o == Leaving(l, m)
           e == AuthorityId(l, c)
<1>1. /\ l[1] \in Nodes /\ l[2] \in Nodes /\ KnownPeer(l) # NoPeer /\ Back(l) = <<l[2], l[1]>>
      /\ PeerIs(l[1], l[2], KnownPeer(l)) /\ PeerIs(l[2], l[1], back)
      /\ IsSubnet(own) /\ IsSubnet(to)
  BY ConnectedLinks
<1>2. Net[l[1]].nodetype \in {"CA", "DA"} /\ Net[l[2]].nodetype = "AA"
  BY <1>1, Zenon DEF PeerIs
<1>3. /\ Sent(m, IN_MESSAGE_TYPES, d, c, <<l[1], c>>) /\ IN_MESSAGE_TYPES \subseteq MsgTypes
      /\ m.type \in IN_MESSAGE_TYPES /\ m.creditor_id = c /\ m.debtor_id = d
      /\ m.content_type = "application/json"
  BY DEF Asks, Sent, MsgTypes
<1>4. IN_MESSAGE_TYPES \cap OUT_MESSAGE_TYPES = {}
  BY DEF IN_MESSAGE_TYPES, OUT_MESSAGE_TYPES
<1>5. Loads(m)
  <2>1. HasCoordinator(m) => m.coordinator_id \in Int64
    BY DEF Asks, CoordinatorIs
  <2> QED
    BY <1>3, <2>1, SentLoads
<1>6. /\ Match(to, e) /\ Match(back.creditors_subnet, e)
      /\ Match(KnownPeer(l).debtors_subnet, d) /\ Match(back.debtors_subnet, d)
  <2>1. CASE Net[l[1]].nodetype = "CA"
    <3>1. /\ Net[l[2]].peers[l[1]].subnet = Net[l[1]].peers[l[2]].subnet
          /\ SameHalf(Parse(Net[l[1]].peers[l[2]].subnet), Parse(Net[l[1]].subnet))
      <4>1. Back(l)[1] = l[2] /\ Back(l)[2] = l[1]
        BY <1>1
      <4> QED
        BY <2>1, <4>1, Zenon DEF Agreed
    <3>2. /\ to = Parse(Net[l[1]].peers[l[2]].subnet) /\ own.subnet_mask = to.subnet_mask
          /\ KnownPeer(l).debtors_subnet = Parse(Net[l[2]].nodeid)
      BY <1>1, <2>1, Zenon DEF PeerIs
    <3>3. own = Parse(Net[l[1]].subnet) /\ NodeData[l[2]].debtors_subnet = Parse(Net[l[2]].nodeid)
      BY <1>1, <1>2, <2>1, NodeDataIs, Zenon
    <3>4. /\ back.creditors_subnet = Parse(Net[l[2]].peers[l[1]].subnet)
          /\ back.debtors_subnet = NodeData[l[2]].debtors_subnet
      BY <1>1, <1>2, <2>1, Zenon DEF PeerIs
    <3>5. own.subnet >= 2 ^ (Width - 1) <=> to.subnet >= 2 ^ (Width - 1)
      BY <3>1, <3>2, <3>3, Zenon DEF SameHalf
    <3>6. Match(to, e)
      <4>1. c \in Int /\ e = ChangeSubnet(c, own, to) /\ Match(own, c)
        BY <2>1, Ints DEF AuthorityId
      <4> HIDE DEF own, to, e
      <4>2. And(e, to.subnet_mask) = to.subnet
        <5>1. And(ChangeSubnet(c, own, to), to.subnet_mask) = to.subnet
          BY <1>1, <3>2, <4>1, ChangeInto, Zenon
        <5> QED
          BY <4>1, <5>1
      <4>3. e \in Int64
        <5>1. ChangeSubnet(c, own, to) \in Int64
          BY <1>1, <3>2, <3>5, <4>1, ChangeInInt64, Zenon
        <5> QED
          BY <4>1, <5>1
      <4> QED
        BY <4>2, <4>3 DEF Match
    <3>7. Match(KnownPeer(l).debtors_subnet, d)
      <4>1. BindingSubnet(l) = KnownPeer(l).debtors_subnet /\ IsSubnet(BindingSubnet(l))
        BY <1>1, <1>2, <2>1, BindingIs
      <4>2. KeyedId(l, m) = d /\ HasBindingKey(BindingSubnet(l))
        BY <1>2, <1>3 DEF KeyedId, Configurable
      <4> QED
        BY <4>1, <4>2, KeyMatchesIffMatch
    <3> HIDE DEF to, back, e
    <3> QED
      BY <3>1, <3>2, <3>3, <3>4, <3>6, <3>7, Zenon
  <2>2. CASE Net[l[1]].nodetype = "DA"
    <3>1. Net[l[2]].peers[l[1]].subnet = Net[l[1]].subnet
      <4>1. Back(l)[1] = l[2] /\ Back(l)[2] = l[1]
        BY <1>1
      <4> QED
        BY <2>2, <4>1, Zenon DEF Agreed
    <3>2. to = ZERO_SUBNET /\ KnownPeer(l).debtors_subnet = NodeData[l[1]].debtors_subnet
      BY <1>1, <2>2, Zenon DEF PeerIs
    <3>3. own = ZERO_SUBNET /\ NodeData[l[1]].debtors_subnet = Parse(Net[l[1]].subnet)
      BY <1>1, <2>2, NodeDataIs, Zenon
    <3>4. /\ back.creditors_subnet = ZERO_SUBNET
          /\ back.debtors_subnet = Parse(Net[l[2]].peers[l[1]].subnet)
      BY <1>1, <1>2, <2>2, Zenon DEF PeerIs
    <3>5. e = c
      BY <2>2 DEF AuthorityId
    <3> HIDE DEF e
    <3> QED
      BY <3>1, <3>2, <3>3, <3>4, <3>5
  <2> QED
    BY <1>2, <2>1, <2>2
<1> HIDE DEF o, e
<1>7. e \in Int64
  BY <1>6 DEF Match
<1>8. /\ Sent(o, IN_MESSAGE_TYPES, d, e, <<l[1], c>>)
      /\ CoordinatorIs(l[1], o, e, d)
  BY RequestLeaves, Zenon DEF o, e
<1>9. /\ o.type \in IN_MESSAGE_TYPES /\ o.type \in MsgTypes /\ DOMAIN o = FieldsOf(o.type)
      /\ o.creditor_id = e /\ o.debtor_id = d /\ o.content_type = "application/json"
  BY <1>3, <1>8 DEF Sent
<1>10. Loads(o)
  <2>1. o.type = "PrepareTransfer" => HasCoordinator(o)
    BY <1>9, FieldFacts
  <2>2. Net[l[1]].nodetype # "CA" => o = m
    BY DEF o, Leaving
  <2>3. Coordinates(o)
    BY <1>7, <1>8, <1>9, <2>1, <2>2 DEF CoordinatorIs, Coordinates
  <2>4. HasCoordinator(o) => o.coordinator_id \in Int64
    BY <1>7, <1>8 DEF CoordinatorIs
  <2> QED
    BY <1>3, <1>7, <1>8, <2>3, <2>4, SentLoads
<1>11. LeavingChecks(l, m)
  <2>1. ParseMessageBody(m, Net[l[1]].nodetype # "AA", Net[l[1]].nodetype = "AA")
    BY <1>3, <1>4, <1>5 DEF ParseMessageBody
  <2>2. Net[l[1]].nodetype = "CA" => Translatable(m)
    BY <1>3 DEF Asks, CoordinatorIs, Translatable, DirectlyCoordinated
  <2>3. /\ Match(to, Leaving(l, m).creditor_id)
        /\ Match(KnownPeer(l).debtors_subnet, Leaving(l, m).debtor_id)
    BY <1>6, <1>9 DEF o
  <2> QED
    BY <1>3, <2>1, <2>2, <2>3 DEF LeavingChecks
<1>12. Entering(l, o) = o
  BY <1>2 DEF Entering
<1>13. EnteringChecks(l, o)
  <2>1. ParseMessageBody(o, Net[l[2]].nodetype = "AA", Net[l[2]].nodetype # "AA")
    BY <1>2, <1>4, <1>9, <1>10 DEF ParseMessageBody
  <2>2. AllowedCoordinator(back, o)
    <3>1. back.node_type = Net[l[1]].nodetype
      BY <1>1, Zenon DEF PeerIs
    <3> QED
      BY <1>2, <1>8, <3>1 DEF AllowedCoordinator, CoordinatorIs
  <2> QED
    BY <1>2, <1>6, <1>7, <1>9, <1>12, <2>1, <2>2 DEF EnteringChecks
<1> QED
  BY <1>9, <1>11, <1>12, <1>13, NotRefused DEF o

\* So is an answer.
LEMMA AnswerDeliverable ==
  ASSUME NEW l \in Links, Connected(l), Agreed(l), Net[l[1]].nodetype = "AA",
         NEW y, FromAgent(l[1], y), y.from = l[2],
         NEW a, AnswerOf(a, y.message)
  PROVE  Arriving(l, a) # Refused
<1> DEFINE back == KnownPeer(Back(l))
           o == Entering(l, a)
           d == y.message.debtor_id
           e == a.creditor_id
<1>1. /\ l[1] \in Nodes /\ l[2] \in Nodes
      /\ PeerIs(l[1], l[2], KnownPeer(l)) /\ PeerIs(l[2], l[1], back)
  BY ConnectedLinks
<1>2. /\ Sent(a, OUT_MESSAGE_TYPES, d, e, a.asker) /\ OUT_MESSAGE_TYPES \subseteq MsgTypes
      /\ a.type \in OUT_MESSAGE_TYPES /\ a.debtor_id = d
      /\ a.content_type = "application/json"
  BY DEF AnswerOf, Sent, MsgTypes
<1>3. IN_MESSAGE_TYPES \cap OUT_MESSAGE_TYPES = {} /\ Coordinates(a)
  BY <1>2 DEF IN_MESSAGE_TYPES, OUT_MESSAGE_TYPES, Coordinates
<1>4. /\ Net[l[2]].nodetype \in {"CA", "DA"}
      /\ Match(KnownPeer(l).creditors_subnet, e) /\ e \in Int64
      /\ Match(KnownPeer(l).debtors_subnet, d) /\ d \in Int64
      /\ Match(NodeData[l[1]].debtors_subnet, d)
      /\ CoordinatorIs(l[2], a, e, d)
      /\ EnteredFor(l, o, d)
  BY AnswerEnters, Zenon
<1> HIDE DEF o, d
<1>5. o.type \in MsgTypes /\ o.creditor_id \in Int64
  BY <1>2, <1>4 DEF EnteredFor, Sent
<1> HIDE DEF e
<1>6. Loads(a)
  <2>1. HasCoordinator(a) => a.coordinator_id \in Int64
    BY <1>4 DEF CoordinatorIs
  <2> QED
    BY <1>2, <1>3, <1>4, <2>1, SentLoads
<1>7. Match(back.creditors_subnet, e) /\ Match(back.debtors_subnet, d)
  <2>1. CASE Net[l[2]].nodetype = "CA"
    <3>1. Net[l[1]].peers[l[2]].subnet = Net[l[2]].peers[l[1]].subnet
      BY <2>1, Zenon DEF Agreed
    <3>2. KnownPeer(l).creditors_subnet = Parse(Net[l[1]].peers[l[2]].subnet)
      BY <1>1, <2>1, Zenon DEF PeerIs
    <3>3. /\ back.creditors_subnet = Parse(Net[l[2]].peers[l[1]].subnet)
          /\ back.debtors_subnet = Parse(Net[l[1]].nodeid)
      BY <1>1, <2>1, Zenon DEF PeerIs
    <3>4. NodeData[l[1]].debtors_subnet = Parse(Net[l[1]].nodeid)
      BY <1>1, NodeDataIs, Zenon
    <3> HIDE DEF back
    <3> QED
      BY <1>4, <3>1, <3>2, <3>3, <3>4, Zenon
  <2>2. CASE Net[l[2]].nodetype = "DA"
    <3>1. Net[l[1]].peers[l[2]].subnet = Net[l[2]].subnet
      BY <2>2 DEF Agreed
    <3>2. /\ KnownPeer(l).creditors_subnet = ZERO_SUBNET
          /\ KnownPeer(l).debtors_subnet = Parse(Net[l[1]].peers[l[2]].subnet)
      BY <1>1, <2>2, Zenon DEF PeerIs
    <3>3. back.creditors_subnet = ZERO_SUBNET /\ back.debtors_subnet = NodeData[l[2]].debtors_subnet
      BY <1>1, <2>2, Zenon DEF PeerIs
    <3>4. NodeData[l[2]].debtors_subnet = Parse(Net[l[2]].subnet)
      BY <1>1, <2>2, NodeDataIs, Zenon
    <3> HIDE DEF back
    <3> QED
      BY <1>4, <3>1, <3>2, <3>3, <3>4
  <2> QED
    BY <1>4, <2>1, <2>2
<1>8. Leaving(l, a) = a
  BY DEF Leaving
<1>9. LeavingChecks(l, a)
  <2>1. ParseMessageBody(a, Net[l[1]].nodetype # "AA", Net[l[1]].nodetype = "AA")
    BY <1>2, <1>3, <1>6 DEF ParseMessageBody
  <2> QED
    BY <1>2, <1>4, <1>8, <2>1 DEF LeavingChecks, e
<1>10. EnteringChecks(l, a)
  <2>1. ParseMessageBody(a, Net[l[2]].nodetype = "AA", Net[l[2]].nodetype # "AA")
    BY <1>2, <1>3, <1>4, <1>6 DEF ParseMessageBody
  <2>2. AllowedCoordinator(back, a)
    <3>1. back.node_type = "AA"
      BY <1>1, Zenon DEF PeerIs
    <3> QED
      BY <3>1 DEF AllowedCoordinator
  <2>3. Net[l[2]].nodetype = "CA" => Translatable(a)
    BY <1>4 DEF CoordinatorIs, Translatable, DirectlyCoordinated, e
  <2> QED
    BY <1>2, <1>5, <1>7, <2>1, <2>2, <2>3 DEF EnteringChecks, o, e
<1> QED
  BY <1>2, <1>5, <1>8, <1>9, <1>10, NotRefused DEF o

\* QueuedIsDeliverable: no sound message that the bindings of configure_queue.py place
\* in a queue is refused by transform_message or by preprocess_message of the peer,
\* if the two nodes agree on the range of the link.
THEOREM QueuedIsDeliverableHolds == Spec => []QueuedIsDeliverable
<1>1. PathInv => QueuedIsDeliverable
  <2> SUFFICES ASSUME PathInv, NEW l \in Links, Agreed(l), Connected(l),
                      NEW m \in queue[l], m.sound
               PROVE  Arriving(l, m) # Refused
    BY DEF QueuedIsDeliverable, AgreedLinks
  <2>1. /\ Configurable(l) /\ SameExchange(l, m)
        /\ KeyMatches(BindingSubnet(l), KeyedId(l, m))
        /\ l[1] \in Nodes
    BY LinkFacts DEF PathInv, QueueInv
  <2>2. PICK q \in Publishable(l[1]) : m = q \/ m \in Unsound(q)
    BY DEF PathInv, QueueInv
  <2>3. Origin(l[1], q)
    BY <2>1, <2>2, PublishableOrigin DEF PathInv
  <2>4. m = q
    BY <2>1, <2>2, <2>3, UnsoundOrigin DEF Broken
  <2>5. Coordinates(m)
    BY <2>1, <2>3, <2>4, OriginFacts, Zenon
  <2>6. CASE Net[l[1]].nodetype = "AA"
    <3>1. PICK y \in inbox[l[1]] : FromAgent(l[1], y) /\ AnswerOf(m, y.message)
      BY <2>3, <2>4, <2>6 DEF Origin
    <3>2. m.creditor_id = y.message.creditor_id /\ m.debtor_id = y.message.debtor_id
      BY <3>1 DEF AnswerOf, Sent
    <3>3. y.from = l[2]
      BY <2>1, <2>6, <3>1, <3>2, AskerFound
    <3> QED
      BY <2>6, <3>1, <3>3, AnswerDeliverable
  <2>7. CASE Net[l[1]].nodetype # "AA"
    <3>1. PICK d, c \in Int64 : /\ Match(NodeData[l[1]].debtors_subnet, d)
                                /\ Match(NodeData[l[1]].creditors_subnet, c)
                                /\ Asks(l[1], m, d, c)
      BY <2>3, <2>4, <2>7 DEF Origin
    <3> QED
      BY <2>1, <2>5, <2>7, <3>1, RequestDeliverable
  <2> QED
    BY <2>6, <2>7
<1> QED
  BY <1>1, PathInvariant, PTL

\* Where a message about an account goes once all queues are configured.
LEMMA AccountRouted ==
  ASSUME NEW l \in Links, Configurable(l), objects[l] = AllObjects, NEW a,
         a.creditor_id \in Int64, a.debtor_id \in Int64
  PROVE  Routed(l, a) <=> SameExchange(l, a) /\ Match(BindingSubnet(l), KeyedId(l, a))
<1>1. {"exchange_binding", "queue", "queue_binding"} \subseteq AllObjects
  BY StepsFacts
<1>2. KeyedId(l, a) \in Int64
  BY DEF KeyedId
<1>3. IsSubnet(BindingSubnet(l)) /\ HasBindingKey(BindingSubnet(l))
  BY BindingIs DEF Configurable
<1>4. KeyMatches(BindingSubnet(l), KeyedId(l, a)) <=> Match(BindingSubnet(l), KeyedId(l, a))
  BY <1>2, <1>3, KeyMatchesIffMatch
<1> QED
  BY <1>1, <1>4 DEF Routed

\* RoutedOnce: once configure_queue.py has succeeded for all peers of a node, its
\* bindings place every message about an account that some peer has in one queue.
THEOREM RoutedOnceHolds == Spec => []RoutedOnce
<1>1. PathInv => RoutedOnce
  <2> SUFFICES ASSUME PathInv, NEW n \in Nodes,
                      \A l \in {k \in Links : k[1] = n} : objects[l] = AllObjects,
                      NEW a \in Accounts(n),
                      \E l \in {k \in Links : k[1] = n} :
                          Match(KnownPeer(l).debtors_subnet, a.debtor_id)
               PROVE  Cardinality({l \in {k \in Links : k[1] = n} : Routed(l, a)}) = 1
    BY DEF RoutedOnce
  <2> DEFINE mine == {k \in Links : k[1] = n}
             R == {l \in mine : Routed(l, a)}
  <2>1. \A l \in mine : Configurable(l) /\ KnownPeer(l) # NoPeer
    BY StepsFacts DEF PathInv, Configurable
  <2>2. PICK s \in mine : Match(KnownPeer(s).debtors_subnet, a.debtor_id)
    OBVIOUS
  <2>3. \E k \in mine : R = {k}
    <3>1. CASE Net[n].nodetype = "AA"
      <4>1. PICK y \in inbox[n] : a = [debtor_id |-> y.message.debtor_id,
                                       creditor_id |-> y.message.creditor_id]
        BY <3>1 DEF Accounts
      <4>2. FromAgent(n, y)
        BY <3>1, <4>1 DEF PathInv, InboxInv
      <4>3. <<n, y.from>> \in mine
        BY <4>2 DEF FromAgent
      <4>4. a.creditor_id = y.message.creditor_id /\ a.debtor_id = y.message.debtor_id
        BY <4>1
      <4>5. ASSUME NEW l \in mine PROVE Routed(l, a) <=> l = <<n, y.from>>
        <5>1. /\ l \in Links /\ Net[l[1]].nodetype = "AA" /\ Configurable(l)
              /\ FromAgent(l[1], y) /\ l = <<n, l[2]>> /\ objects[l] = AllObjects
          BY <2>1, <3>1, <4>2, <4>5, LinkFacts
        <5>2. SameExchange(l, a) /\ KeyMatches(BindingSubnet(l), KeyedId(l, a)) <=> l[2] = y.from
          BY <4>4, <5>1, AskerFound
        <5>3. {"exchange_binding", "queue", "queue_binding"} \subseteq objects[l]
          BY <5>1, StepsFacts
        <5> QED
          BY <5>1, <5>2, <5>3 DEF Routed
      <4> QED
        BY <4>3, <4>5
    <3>2. CASE Net[n].nodetype # "AA"
      <4>1. /\ a.debtor_id \in Int64 /\ a.creditor_id \in Int64
            /\ Match(NodeData[n].debtors_subnet, a.debtor_id)
        BY <3>2, AccountIds
      <4>2. ASSUME NEW l \in mine
            PROVE  /\ Routed(l, a) <=> Match(BindingSubnet(l), a.debtor_id)
                   /\ Net[l[2]].nodetype = "AA" /\ Net[n].nodetype \in {"CA", "DA"}
        <5>1. /\ l \in Links /\ l[1] = n /\ Configurable(l)
              /\ PeerIs(l[1], l[2], KnownPeer(l)) /\ objects[l] = AllObjects
          BY <2>1, <4>2, KnownPeerIs
        <5>2. /\ Net[l[2]].nodetype = "AA" /\ Net[n].nodetype \in {"CA", "DA"}
              /\ NodeData[l[1]].node_type = Net[n].nodetype
          BY <3>2, <5>1, NodeDataIs, Zenon DEF PeerIs
        <5>3. SameExchange(l, a) /\ KeyedId(l, a) = a.debtor_id
          BY <3>2, <5>2 DEF SameExchange, KeyedId
        <5> QED
          BY <4>1, <5>1, <5>2, <5>3, AccountRouted
      <4>3. CASE Net[n].nodetype = "CA"
        <5>1. ASSUME NEW l \in mine
              PROVE  /\ Routed(l, a) <=> Match(KnownPeer(l).debtors_subnet, a.debtor_id)
                     /\ KnownPeer(l).debtors_subnet = Parse(Net[l[2]].nodeid)
                     /\ IsSubnet(KnownPeer(l).debtors_subnet)
          <6>1. l \in Links /\ l[1] = n /\ KnownPeer(l) # NoPeer
            BY <2>1, <5>1
          <6>2. PeerIs(l[1], l[2], KnownPeer(l)) /\ IsSubnet(KnownPeer(l).debtors_subnet)
            BY <6>1, KnownPeerIs
          <6>3. BindingSubnet(l) = KnownPeer(l).debtors_subnet
            BY <4>2, <4>3, <6>1, BindingIs
          <6> QED
            BY <4>2, <4>3, <6>1, <6>2, <6>3 DEF PeerIs
        <5>2. ASSUME NEW l \in mine, Routed(l, a) PROVE l = s
          <6>1. a.debtor_id \in Ids(Net[l[2]].nodeid)
            BY <4>1, <5>1, <5>2, SubnetNotInvalid DEF Ids
          <6>2. a.debtor_id \in Ids(Net[s[2]].nodeid)
            BY <2>2, <4>1, <5>1, SubnetNotInvalid DEF Ids
          <6>3. l \in Links /\ s \in Links /\ l[1] = s[1] /\ Net[s[1]].nodetype = "CA"
            BY <2>2, <4>3, <5>2
          <6>4. l # s => Ids(Net[l[2]].nodeid) \cap Ids(Net[s[2]].nodeid) = {}
            BY <6>3, AuthoritiesAssumption
          <6> QED
            BY <6>1, <6>2, <6>4
        <5>3. Routed(s, a)
          BY <2>2, <5>1
        <5> QED
          BY <2>2, <5>2, <5>3
      <4>4. CASE Net[n].nodetype = "DA"
        <5>1. ASSUME NEW l \in mine PROVE l = s
          <6>1. l \in Links /\ s \in Links /\ l[1] = s[1] /\ Net[s[1]].nodetype = "DA"
            BY <2>2, <4>4, <5>1
          <6> QED
            BY <6>1, AuthoritiesAssumption
        <5>2. Routed(s, a)
          <6>1. s \in Links /\ s[1] = n /\ KnownPeer(s) # NoPeer
            BY <2>1, <2>2
          <6>2. BindingSubnet(s) = UNIVERSAL_SUBNET
            BY <4>4, <6>1, BindingIs
          <6>3. a.debtor_id \in Int
            BY <4>1, Ints, Zenon
          <6>4. Match(BindingSubnet(s), a.debtor_id)
            BY <4>1, <6>2, <6>3, MatchUniversal
          <6> QED
            BY <2>2, <4>2, <6>4
        <5> QED
          BY <2>2, <5>1, <5>2
      <4>5. Net[n].nodetype \in {"CA", "DA"}
        BY <2>2, <4>2
      <4> QED
        BY <4>3, <4>4, <4>5
    <3> QED
      BY <3>1, <3>2
  <2> HIDE DEF R
  <2>4. Cardinality(R) = 1
    BY <2>3, FS_Singleton, Zenon
  <2> QED
    BY <2>4 DEF R
<1> QED
  BY <1>1, PathInvariant, PTL

=============================================================================
