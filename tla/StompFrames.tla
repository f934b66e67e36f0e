----------------------------- MODULE StompFrames -----------------------------
(***************************************************************************)
(* The STOMP 1.2 frames that the two protocols of aio_protocols.py exchange*)
(* and the items of their queues.  A frame keeps its command, the id in    *)
(* its receipt or receipt-id header, and whether the other headers are the *)
(* ones the receiver asks for (version, heart-beat, type, destination).    *)
(***************************************************************************)
EXTENDS Integers, Sequences

NoId  == 0      \* no id header; also the None that ends a queue
None  == 0
Error == -1     \* a ServerError instance in a send queue

Frame(cmd, id) == [cmd |-> cmd, id |-> id, ok |-> TRUE]
Refused(cmd, id) == [cmd |-> cmd, id |-> id, ok |-> FALSE]

ErrorFrame == Frame("ERROR", NoId)
Receipt(id) == Frame("RECEIPT", id)

\* Bytes that StompParser.add_bytes refuses.
Malformed == Refused("MALFORMED", NoId)

Commands == {"STOMP", "CONNECTED", "SEND", "RECEIPT", "DISCONNECT", "ERROR",
             "OTHER", "MALFORMED"}

FramesOver(ids) == [cmd : Commands, id : ids \cup {NoId}, ok : BOOLEAN]

=============================================================================
