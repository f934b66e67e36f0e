----------------------------- MODULE MessagePath -----------------------------
(***************************************************************************)
(* The way of SMP messages between nodes: an application publishes a       *)
(* message to an exchange of its node, the bindings made by the command    *)
(* configure-queue (configure_queue.py) place it in the queue of a peer,   *)
(* the client transforms and sends it, the server of the peer preprocesses *)
(* it and publishes it for its own application, which may answer.          *)
(*                                                                         *)
(* The transfer over a connection is one step here: Consumer, StompSession *)
(* and Publisher model it.  A message that either side refuses stays in    *)
(* the queue, since its connection ends without an acknowledgement.        *)
(*                                                                         *)
(* The applications and the broker are external.  A message carries, for   *)
(* the properties only, the node and creditor ID of its asker and whether  *)
(* it is sound.                                                            *)
(***************************************************************************)
EXTENDS ProcessMessages, PeerDirectory

CONSTANTS
    Net,            \* the directory of every node
    Fresh,          \* the links <<owner, peer>> for which configure-queue is run;
                    \* the others are configured from the start, if they can be
    SampleIds,      \* the creditor and debtor IDs in use
    MaxPublished    \* bound: messages published by the applications

ASSUME SampleAssumption == SampleIds \subseteq Int64

Nodes == DOMAIN Net
Links == {l \in Nodes \X Nodes : l[2] \in DOMAIN Net[l[1]].peers}
Back(l) == <<l[2], l[1]>>

\* The files are well-formed, and name the type that a peer really has.
ASSUME NetAssumption ==
    \A n \in Nodes :
        /\ Net[n].nodetype \in {"AA", "CA", "DA"}
        /\ Net[n].nodeid \in Seq(Digits) /\ Net[n].subnet \in Seq(Digits)
        /\ \A p \in Nodes \cap DOMAIN Net[n].peers :
              /\ Net[n].peers[p].nodetype = Net[p].nodetype
              /\ Net[n].peers[p].subnet \in Seq(Digits)

NodeData == [n \in Nodes |-> GetNodeData(Net[n])]
PeerDataBy ==
    [l \in Links |-> [isActive \in BOOLEAN |-> [active_peers_only \in BOOLEAN |->
        GetPeerData(Net[l[1]], l[2], Net[l[2]].nodeid, isActive, active_peers_only)]]]

Ids(s) == {id \in Int64 : Parse(s) # Invalid /\ Match(Parse(s), id)}
IdRange(l) == Ids(Net[l[1]].peers[l[2]].subnet)

\* How operators share out the IDs.  The ranges that an accounting authority has
\* for different agents of a type have no ID in common; none of a creditors agent
\* has the root creditor; those of debtors agents are parts of its own.
ASSUME RangesAssumption ==
    \A l \in Links : Net[l[1]].nodetype = "AA" =>
        /\ Net[l[2]].nodetype = "CA" => ROOT_CREDITOR_ID \notin IdRange(l)
        /\ Net[l[2]].nodetype = "DA" => IdRange(l) \subseteq Ids(Net[l[1]].nodeid)
        /\ \A k \in Links : k[1] = l[1] /\ k # l /\ Net[k[2]].nodetype = Net[l[2]].nodetype =>
              IdRange(k) \cap IdRange(l) = {}

\* The accounting authorities of a creditors agent have no debtor in common, and
\* a debtors agent has one accounting authority.
ASSUME AuthoritiesAssumption ==
    \A k, l \in Links : k # l /\ k[1] = l[1] =>
        /\ Net[l[1]].nodetype # "DA"
        /\ Net[l[1]].nodetype = "CA" => Ids(Net[k[2]].nodeid) \cap Ids(Net[l[2]].nodeid) = {}

VARIABLES
    pc,          \* pc[l]: steps that the running configure-queue has done
    objects,     \* objects[l]: what the broker of the owner has for the link l
    active,      \* the links whose owner has a file ACTIVE for the peer
    queue,       \* queue[l]: messages waiting to be sent
    inbox,       \* inbox[n]: what was published for the application of n
    published    \* messages published so far

vars == <<pc, objects, active, queue, inbox, published>>

\* get_peer_data without and with active_peers_only
KnownPeer(l) == PeerDataBy[l][FALSE][FALSE]
ActivePeer(l) == PeerDataBy[l][(l \in active)][TRUE]

\* Mutant: all queues of a node are bound with the node's own range.
BindingSubnetOwn(l) == NodeData[l[1]].creditors_subnet

\* The subnet whose binding key binds the peer's exchange to the main exchange;
\* a debtors agent has a fanout exchange.
BindingSubnet(l) ==
    CASE NodeData[l[1]].node_type = "AA" /\ KnownPeer(l).node_type = "CA" ->
            KnownPeer(l).creditors_subnet
      [] NodeData[l[1]].node_type = "DA" -> UNIVERSAL_SUBNET
      [] OTHER -> KnownPeer(l).debtors_subnet

\* The command configure-queue does not fail for the link.
Configurable(l) == KnownPeer(l) # NoPeer /\ HasBindingKey(BindingSubnet(l))

\* bind_queue
Steps == <<"main_exchange", "peer_exchange", "exchange_binding", "dead_letter_queue",
           "queue", "queue_binding">>
AllObjects == {Steps[i] : i \in DOMAIN Steps}

Init ==
    /\ active = {l \in Links \ Fresh : Configurable(l)}
    /\ pc = [l \in Links |-> IF l \in active THEN Len(Steps) ELSE 0]
    /\ objects = [l \in Links |-> IF l \in active THEN AllObjects ELSE {}]
    /\ queue = [l \in Links |-> {}]
    /\ inbox = [n \in Nodes |-> {}]
    /\ published = 0

-----------------------------------------------------------------------------
(* configure_queue.py                                                      *)

\* The next request of bind_queue to the broker; each of them is idempotent.
ConfigureStep(l) ==
    /\ pc[l] < Len(Steps)
    /\ KnownPeer(l) # NoPeer
    /\ pc[l] >= 1 => HasBindingKey(BindingSubnet(l))
    /\ pc' = [pc EXCEPT ![l] = @ + 1]
    /\ objects' = [objects EXCEPT ![l] = @ \cup {Steps[pc[l] + 1]}]
    /\ UNCHANGED <<active, queue, inbox, published>>

\* The command fails half-way, or is given again after it succeeded.
ConfigureAgain(l) ==
    /\ l \in Fresh /\ pc[l] > 0
    /\ pc' = [pc EXCEPT ![l] = 0]
    /\ UNCHANGED <<objects, active, queue, inbox, published>>

\* The operator marks the peer as active once the command has succeeded.
Activate(l) ==
    /\ pc[l] = Len(Steps) /\ l \notin active
    /\ active' = active \cup {l}
    /\ UNCHANGED <<pc, objects, queue, inbox, published>>

-----------------------------------------------------------------------------
(* The applications                                                        *)

\* The exchange of a message: an accounting authority has one for creditors
\* agents and one for debtors agents.
SameExchange(l, m) ==
    NodeData[l[1]].node_type = "AA" =>
        Net[l[1]].peers[l[2]].nodetype =
            IF m.creditor_id = ROOT_CREDITOR_ID THEN "DA" ELSE "CA"

KeyedId(l, m) ==
    IF Net[l[2]].nodetype = "CA" THEN m.creditor_id ELSE m.debtor_id

Routed(l, m) ==
    /\ {"exchange_binding", "queue", "queue_binding"} \subseteq objects[l]
    /\ SameExchange(l, m)
    /\ KeyMatches(BindingSubnet(l), KeyedId(l, m))

Publish(n, m) ==
    /\ published < MaxPublished
    /\ published' = published + 1
    /\ queue' = [l \in Links |-> IF l[1] = n /\ Routed(l, m)
                                 THEN queue[l] \cup {m} ELSE queue[l]]
    /\ UNCHANGED <<pc, objects, active, inbox>>

Basic(type, debtor, creditor, asker) ==
    [type |-> type, debtor_id |-> debtor, creditor_id |-> creditor, rest_ok |-> TRUE,
     content_type |-> "application/json", asker |-> asker, sound |-> TRUE]

With(m, fields) ==
    [k \in DOMAIN m \cup DOMAIN fields |-> IF k \in DOMAIN m THEN m[k] ELSE fields[k]]

Coordinated(m, type, id) ==
    With(m, [coordinator_type |-> type, coordinator_id |-> id])

\* Messages that break one rule of m: a field, the content type, an amount,
\* a coordinator, a status or a transfer number.  A wrong coordinator type and
\* a message type of the other direction are not among them.
Unsound(m) ==
    {[m EXCEPT !.sound = FALSE, !.rest_ok = FALSE],
     [m EXCEPT !.sound = FALSE, !.content_type = "text/plain"]}
    \cup (IF "max_locked_amount" \in DOMAIN m
          THEN {[m EXCEPT !.sound = FALSE, !.max_locked_amount = -1],
                [m EXCEPT !.sound = FALSE, !.coordinator_id = @ + 1]} ELSE {})
    \cup (IF "status_code" \in DOMAIN m
          THEN {[m EXCEPT !.sound = FALSE,
                          !.status_code = IF @ = "OK" THEN "LATE" ELSE "OK"]} ELSE {})
    \cup (IF "acquired_amount" \in DOMAIN m
          THEN {[m EXCEPT !.sound = FALSE, !.acquired_amount = 0],
                [m EXCEPT !.sound = FALSE, !.transfer_number = 0]} ELSE {})

\* The requests of a creditor, or of a debtors agent for the root creditor.
Requests(n, debtor, creditor) ==
    LET of(type) == Basic(type, debtor, creditor, <<n, creditor>>)
        by(m) == IF Net[n].nodetype = "CA"
                 THEN Coordinated(m, "direct", creditor)
                 ELSE Coordinated(m, "issuing", debtor)
    IN {of("ConfigureAccount"), by(of("FinalizeTransfer")),
        With(by(of("PrepareTransfer")), [min_locked_amount |-> 0, max_locked_amount |-> 0])}

\* What an accounting authority sends about an account, and in answer to a
\* request, whose coordinator it repeats.
Answers(m) ==
    LET of(type) == Basic(type, m.debtor_id, m.creditor_id, m.asker)
        by(a) == Coordinated(a, m.coordinator_type, m.coordinator_id)
    IN {of("AccountUpdate"), of("AccountPurge"), of("RejectedConfig"),
        With(of("AccountTransfer"),
             [coordinator_type |-> "direct", acquired_amount |-> 1,
              transfer_number |-> 1, previous_transfer_number |-> 0])}
       \cup IF ~HasCoordinator(m) THEN {}
            ELSE {by(of("PreparedTransfer")),
                  With(by(of("RejectedTransfer")), [status_code |-> "LATE"]),
                  With(by(of("FinalizedTransfer")),
                       [status_code |-> "OK", committed_amount |-> 1])}

\* The accounts that the application of a node sends messages about.
Accounts(n) ==
    IF Net[n].nodetype = "AA"
    THEN {[debtor_id |-> x.message.debtor_id, creditor_id |-> x.message.creditor_id] :
            x \in inbox[n]}
    ELSE [debtor_id : {d \in SampleIds : Match(NodeData[n].debtors_subnet, d)},
          creditor_id : {c \in SampleIds \cup {ROOT_CREDITOR_ID} :
                            Match(NodeData[n].creditors_subnet, c)}]

Publishable(n) ==
    IF Net[n].nodetype = "AA"
    THEN UNION {Answers(x.message) : x \in inbox[n]}
    ELSE UNION {Requests(n, a.debtor_id, a.creditor_id) : a \in Accounts(n)}

ApplicationSends(n) ==
    \E m \in Publishable(n) : Publish(n, m) \/ \E u \in Unsound(m) : Publish(n, u)

-----------------------------------------------------------------------------
(* client.py and server.py                                                 *)

\* What the server at the end of l makes of what the client at its start sends.
Arriving(l, m) ==
    LET out == TransformMessage(NodeData[l[1]], ActivePeer(l), m)
    IN IF out = Refused THEN Refused
       ELSE PreprocessMessage(NodeData[l[2]], ActivePeer(Back(l)), out)

\* A server rejects the login of a node that is not in its directory.
Connected(l) ==
    /\ Back(l) \in Links
    /\ ActivePeer(l) # NoPeer /\ ActivePeer(Back(l)) # NoPeer

Transfer(l) ==
    /\ Connected(l)
    /\ \E m \in queue[l] :
          LET in == Arriving(l, m)
          IN /\ in # Refused
             /\ queue' = [queue EXCEPT ![l] = @ \ {m}]
             /\ inbox' = [inbox EXCEPT ![l[2]] = @ \cup
                             {[message |-> in, from |-> l[1],
                               shard |-> ShardOf(NodeData[l[2]], in)]}]
    /\ UNCHANGED <<pc, objects, active, published>>

Next ==
    \/ \E l \in Links : ConfigureStep(l) \/ ConfigureAgain(l) \/ Activate(l) \/ Transfer(l)
    \/ \E n \in Nodes : ApplicationSends(n)

Spec == Init /\ [][Next]_vars

-----------------------------------------------------------------------------
(* Properties                                                              *)

SameHalf(sn1, sn2) == (sn1.subnet >= 2 ^ (Width - 1)) = (sn2.subnet >= 2 ^ (Width - 1))

\* The accounting authority and the other node of a link have the same range for
\* it, and the two ranges of a creditors agent have IDs of the same sign.
Agreed(l) ==
    LET aa    == IF Net[l[1]].nodetype = "AA" THEN l ELSE Back(l)
        range == Net[aa[1]].peers[aa[2]].subnet
        peer  == Net[aa[2]]
    IN IF peer.nodetype = "DA" THEN range = peer.subnet
       ELSE /\ range = peer.peers[aa[1]].subnet
            /\ SameHalf(Parse(range), Parse(peer.subnet))
AgreedLinks == {l \in Links : Agreed(l)}

\* No message blocks the queue of a peer: a sound message that the bindings
\* place there passes the checks of transform_message and, after the
\* translation of its IDs, those of the peer's preprocess_message.
QueuedIsDeliverable ==
    \A l \in AgreedLinks : Connected(l) =>
        \A m \in queue[l] : m.sound => Arriving(l, m) # Refused

\* Whatever the directory of the sender says and whatever its application
\* publishes, a server accepts only messages that are valid, of its direction,
\* and about accounts that its own directory gives to that peer.
InboxSound ==
    \A n \in Nodes : \A x \in inbox[n] :
        LET m    == x.message
            aa   == NodeData[IF Net[n].nodetype = "AA" THEN n ELSE x.from]
            peer == KnownPeer(<<n, x.from>>)
        IN /\ Loads(m) /\ m.sound
           /\ m.type \in IF Net[n].nodetype = "AA" THEN IN_MESSAGE_TYPES
                                                   ELSE OUT_MESSAGE_TYPES
           /\ Match(NodeData[n].creditors_subnet, m.creditor_id)
           /\ Net[n].nodetype = "AA" => Match(peer.creditors_subnet, m.creditor_id)
           /\ Match(aa.debtors_subnet, m.debtor_id)
           /\ Match(peer.debtors_subnet, m.debtor_id)

\* An answer about an account comes back, under the ID that the asker knows,
\* to the node and the creditor that asked, though the accounting authority
\* knows the creditor under another ID.
AnswersReachAskers ==
    \A n \in Nodes : Net[n].nodetype # "AA" =>
        \A x \in inbox[n] :
            /\ x.message.asker = <<n, x.message.creditor_id>>
            /\ HasCoordinator(x.message) /\ x.message.coordinator_type = "direct" =>
                  x.message.coordinator_id = x.message.creditor_id

\* An accounting authority keeps creditors of different agents apart, and all
\* messages about one account go to one shard: the IDs that the routing key is
\* computed from are the same exactly when the asker and the debtor are.
OneShardPerAccount ==
    \A n \in Nodes : Net[n].nodetype = "AA" =>
        \A x, y \in inbox[n] :
            x.shard = y.shard <=> /\ x.message.asker = y.message.asker
                                  /\ x.message.debtor_id = y.message.debtor_id

\* Once configure-queue has succeeded for all peers of a node, even if it is
\* run again and fails, every message of its application about an account of a
\* debtor that some peer has is placed in the queue of exactly one peer.
RoutedOnce ==
    \A n \in Nodes :
        LET mine == {l \in Links : l[1] = n}
            served(a) == \E l \in mine : Match(KnownPeer(l).debtors_subnet, a.debtor_id)
        IN (\A l \in mine : objects[l] = AllObjects) =>
              \A a \in Accounts(n) :
                  served(a) => Cardinality({l \in mine : Routed(l, a)}) = 1

\* transform_message: "before we send a message to an accounting authority, we
\* must update creditor_id and coordinator_id fields, so as they are in the
\* range (subnet) reserved for the creditors agent".
TranslatedIntoRange ==
    \A l \in Links : Net[l[1]].nodetype = "CA" =>
        \A m \in queue[l] : m.sound =>
            Match(KnownPeer(l).creditors_subnet,
                  Translate(m, NodeData[l[1]].creditors_subnet,
                            KnownPeer(l).creditors_subnet).creditor_id)

=============================================================================
