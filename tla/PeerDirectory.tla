---------------------------- MODULE PeerDirectory ----------------------------
(***************************************************************************)
(* What a node knows of itself and of its peers (peer_data.py,             *)
(* _LocalDirectory): the files of its directory, and the IDs that it       *)
(* accepts from, and sends to, each peer.                                  *)
(*                                                                         *)
(* dir is the directory of a node: nodetype and nodeid, creditors-subnet   *)
(* or debtors-subnet as `subnet`, and for every peer in peers its nodetype *)
(* and, as `subnet`, its subnet.txt or masq-subnet.txt.                    *)
(***************************************************************************)
EXTENDS Subnets

NoPeer == [node_type |-> "none"]   \* None, or a DatabaseError

\* _get_node_data
GetNodeData(dir) ==
    [node_type |-> dir.nodetype,
     creditors_subnet |-> CASE dir.nodetype = "AA" -> UNIVERSAL_SUBNET
                            [] dir.nodetype = "CA" -> Parse(dir.subnet)
                            [] dir.nodetype = "DA" -> ZERO_SUBNET,
     debtors_subnet   |-> CASE dir.nodetype = "AA" -> Parse(dir.nodeid)
                            [] dir.nodetype = "CA" -> UNIVERSAL_SUBNET
                            [] dir.nodetype = "DA" -> Parse(dir.subnet)]

\* The subnets that _get_peer_data chooses for a peer with the node ID node_id,
\* by the types of the owner and of the peer.
PeerSubnets(owner, node_id, peer) ==
    CASE owner.node_type = "AA" /\ peer.nodetype = "CA" ->
            <<Parse(peer.subnet), owner.debtors_subnet>>
      [] owner.node_type = "AA" /\ peer.nodetype = "DA" ->
            <<ZERO_SUBNET, Parse(peer.subnet)>>
      [] owner.node_type = "CA" /\ peer.nodetype = "AA" ->
            <<Parse(peer.subnet), Parse(node_id)>>
      [] owner.node_type = "DA" /\ peer.nodetype = "AA" ->
            <<ZERO_SUBNET, owner.debtors_subnet>>
      [] OTHER -> <<Invalid, Invalid>>

\* _get_peer_data of the peer p, whose node ID is node_id; isActive: there is a
\* file ACTIVE.
GetPeerData(dir, p, node_id, isActive, active_peers_only) ==
    LET owner   == GetNodeData(dir)
        peer    == dir.peers[p]
        subnets == PeerSubnets(owner, node_id, peer)
    IN IF \/ p \notin DOMAIN dir.peers
          \/ active_peers_only /\ ~isActive
          \/ Invalid \in {owner.creditors_subnet, owner.debtors_subnet}
          \/ Invalid \in {subnets[1], subnets[2]}
          \/ /\ owner.node_type = "CA"
             /\ subnets[1].subnet_mask # owner.creditors_subnet.subnet_mask
       THEN NoPeer
       ELSE [node_type |-> peer.nodetype,
             creditors_subnet |-> subnets[1],
             debtors_subnet |-> subnets[2]]

=============================================================================
