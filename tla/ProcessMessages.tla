--------------------------- MODULE ProcessMessages ---------------------------
(***************************************************************************)
(* What happens to a message between the queue of the sending node and the *)
(* exchange of the receiving one (process_messages.py): transform_message  *)
(* before it is sent, preprocess_message when it is received.  owner and   *)
(* peer are the NodeData and the PeerData of PeerDirectory.                *)
(***************************************************************************)
EXTENDS SmpSchemas

Refused == [type |-> "refused"]   \* an exception: ProcessingError or another

HasCoordinator(m) == "coordinator_id" \in DOMAIN m

ParseMessageBody(m, allow_in_messages, allow_out_messages) ==
    /\ m.content_type = "application/json"
    /\ m.type \in IN_MESSAGE_TYPES => allow_in_messages
    /\ m.type \in OUT_MESSAGE_TYPES => allow_out_messages
    /\ Loads(m)

DirectlyCoordinated(m) == HasCoordinator(m) /\ m.coordinator_type = "direct"

\* Mutant: the coordinator ID is not translated.
TranslateCreditorOnly(m, from, to) ==
    [m EXCEPT !.creditor_id = ChangeSubnet(m.creditor_id, from, to)]

\* A creditors agent and the accounting authority know a creditor under two IDs.
Translate(m, from, to) ==
    LET creditor_id == ChangeSubnet(m.creditor_id, from, to)
    IN IF DirectlyCoordinated(m)
       THEN [m EXCEPT !.creditor_id = creditor_id, !.coordinator_id = creditor_id]
       ELSE [m EXCEPT !.creditor_id = creditor_id]

Translatable(m) == DirectlyCoordinated(m) => m.coordinator_id = m.creditor_id

TransformMessage(owner, peer, m) ==
    LET out == IF owner.node_type = "CA"
               THEN Translate(m, owner.creditors_subnet, peer.creditors_subnet)
               ELSE m
    IN IF /\ ParseMessageBody(m, owner.node_type # "AA", owner.node_type = "AA")
          /\ owner.node_type = "CA" =>
                Match(owner.creditors_subnet, m.creditor_id) /\ Translatable(m)
          /\ Match(peer.creditors_subnet, out.creditor_id)
          /\ Match(peer.debtors_subnet, out.debtor_id)
       THEN out
       ELSE Refused

\* A coordinator type that this kind of peer may use.
AllowedCoordinator(peer, m) ==
    HasCoordinator(m) =>
        /\ peer.node_type = "CA" => m.coordinator_type = "direct"
        /\ peer.node_type = "DA" => m.coordinator_type = "issuing"

\* Mutant: the debtor ID is not looked at.
PreprocessMessageAnyDebtor(owner, peer, m) ==
    LET in == IF owner.node_type = "CA"
              THEN Translate(m, peer.creditors_subnet, owner.creditors_subnet)
              ELSE m
    IN IF /\ ParseMessageBody(m, owner.node_type = "AA", owner.node_type # "AA")
          /\ Match(peer.creditors_subnet, m.creditor_id)
          /\ owner.node_type = "CA" => Translatable(m)
          /\ AllowedCoordinator(peer, m)
          /\ in.creditor_id \in Int64
       THEN in
       ELSE Refused

\* Mutant: a creditors agent keeps the IDs that the accounting authority uses.
PreprocessMessageUntranslated(owner, peer, m) ==
    IF /\ ParseMessageBody(m, owner.node_type = "AA", owner.node_type # "AA")
       /\ Match(peer.creditors_subnet, m.creditor_id)
       /\ Match(peer.debtors_subnet, m.debtor_id)
       /\ AllowedCoordinator(peer, m)
    THEN m
    ELSE Refused

\* What cannot be written in 8 bytes ends _calc_bin_routing_key.
PreprocessMessage(owner, peer, m) ==
    LET in == IF owner.node_type = "CA"
              THEN Translate(m, peer.creditors_subnet, owner.creditors_subnet)
              ELSE m
    IN IF /\ ParseMessageBody(m, owner.node_type = "AA", owner.node_type # "AA")
          /\ Match(peer.creditors_subnet, m.creditor_id)
          /\ Match(peer.debtors_subnet, m.debtor_id)
          /\ owner.node_type = "CA" => Translatable(m)
          /\ AllowedCoordinator(peer, m)
          /\ in.creditor_id \in Int64
       THEN in
       ELSE Refused

\* Mutant: the key is computed from the debtor ID alone.
ShardOfDebtor(owner, m) ==
    IF owner.node_type = "CA" THEN <<m.creditor_id>> ELSE <<m.debtor_id>>

\* The IDs whose MD5 digest is the routing key of a received message.
ShardOf(owner, m) ==
    CASE owner.node_type = "AA" -> <<m.debtor_id, m.creditor_id>>
      [] owner.node_type = "CA" -> <<m.creditor_id>>
      [] owner.node_type = "DA" -> <<m.debtor_id>>

=============================================================================
