---------------------------- MODULE StompClient -----------------------------
(***************************************************************************)
(* The StompClient protocol (aio_protocols.py) of one connection, between  *)
(* the transport and the two queues it shares with the consumer task.  The *)
(* ids of the messages are 1, 2, ... in the order of the send queue.       *)
(***************************************************************************)
EXTENDS StompFrames

CONSTANTS
    MaxMsgs     \* bound: messages put in the send queue of the connection

Msgs == 1 .. MaxMsgs

VARIABLES
    connected,   \* _connected
    done,        \* _done: the transport is being closed, or is lost
    lost,        \* connection_lost has run
    writer,      \* _process_send_queue: "off", "on", "end"
    lastMsg,     \* _last_message_id
    lastRcpt,    \* _last_receipt_id
    sentDisc,    \* _sent_disconnect
    produced,    \* messages 1 .. produced were put in send_queue
    ended,       \* the consumer has put None or a ServerError
    sendQ,       \* send_queue
    recvQ,       \* history: what was put in recv_queue
    out          \* frames written to the transport

queues == <<produced, ended, sendQ, recvQ>>
vars == <<connected, done, lost, writer, lastMsg, lastRcpt, sentDisc, queues, out>>

\* connection_made wrote the STOMP frame.
Init ==
    /\ connected = FALSE /\ done = FALSE /\ lost = FALSE
    /\ writer = "off"
    /\ lastMsg = NoId /\ lastRcpt = NoId /\ sentDisc = FALSE
    /\ produced = 0 /\ ended = FALSE
    /\ sendQ = <<>> /\ recvQ = <<>>
    /\ out = <<Frame("STOMP", NoId)>>

-----------------------------------------------------------------------------
(* data_received, for one frame f                                          *)

\* A frame that arrives when the protocol is done is dropped.
IgnoreFrame(f) ==
    /\ done /\ ~lost
    /\ UNCHANGED vars

\* An ERROR frame, or one that the parser, data_received or the handler of its
\* command refuses.
Refuses(f) ==
    \/ f.cmd \notin {"CONNECTED", "RECEIPT"}
    \/ f.cmd = "CONNECTED" /\ (connected \/ ~f.ok)
    \/ f.cmd = "RECEIPT" /\ (~connected \/ f.id = NoId)

RejectFrame(f) ==
    /\ ~done /\ Refuses(f)
    /\ done' = TRUE
    /\ UNCHANGED <<connected, lost, writer, lastMsg, lastRcpt, sentDisc, queues, out>>

\* _connect, of a frame with a valid heart-beat: the writer starts.
Connect ==
    /\ connected' = TRUE
    /\ writer' = "on"

\* Mutant: _connected is not set.
ReceivedConnectedUnmarked(f) ==
    /\ ~done /\ ~Refuses(f)
    /\ f.cmd = "CONNECTED"
    /\ writer' = "on"
    /\ UNCHANGED <<connected, done, lost, lastMsg, lastRcpt, sentDisc, queues, out>>

\* _received_connected_command
ReceivedConnected(f) ==
    /\ ~done /\ ~Refuses(f)
    /\ f.cmd = "CONNECTED"
    /\ Connect
    /\ UNCHANGED <<done, lost, lastMsg, lastRcpt, sentDisc, queues, out>>

\* Mutant: the receipt that answers DISCONNECT does not close the transport.
ReceivedReceiptStaysOpen(f) ==
    /\ ~done /\ ~Refuses(f)
    /\ f.cmd = "RECEIPT"
    /\ recvQ' = Append(recvQ, f.id)
    /\ lastRcpt' = f.id
    /\ UNCHANGED <<connected, done, lost, writer, lastMsg, sentDisc, produced, ended,
                   sendQ, out>>

\* _received_receipt_command
ReceivedReceipt(f) ==
    /\ ~done /\ ~Refuses(f)
    /\ f.cmd = "RECEIPT"
    /\ recvQ' = Append(recvQ, f.id)
    /\ lastRcpt' = f.id
    /\ done' = (sentDisc /\ f.id = lastMsg)
    /\ UNCHANGED <<connected, lost, writer, lastMsg, sentDisc, produced, ended,
                   sendQ, out>>

DataReceived(f) ==
    \/ IgnoreFrame(f)
    \/ RejectFrame(f)
    \/ ReceivedConnected(f)
    \/ ReceivedReceipt(f)

-----------------------------------------------------------------------------
(* _process_send_queue                                                     *)

WriterTakes ==
    /\ writer = "on" /\ sendQ # <<>>
    /\ sendQ' = Tail(sendQ)
    /\ UNCHANGED <<connected, lost, lastRcpt, produced, ended, recvQ>>

\* _send_frame
SendMessage ==
    /\ WriterTakes
    /\ Head(sendQ) \in Msgs
    /\ IF done
       THEN UNCHANGED <<out, lastMsg>>
       ELSE /\ out' = Append(out, Frame("SEND", Head(sendQ)))
            /\ lastMsg' = Head(sendQ)
    /\ UNCHANGED <<done, writer, sentDisc>>

\* Mutant: no DISCONNECT is sent while receipts are pending.
CloseGracefullyWaits ==
    /\ WriterTakes
    /\ Head(sendQ) \in {None, Error}
    /\ writer' = "end"
    /\ IF Head(sendQ) = Error \/ lastMsg = NoId \/ lastMsg = lastRcpt
       THEN done' = TRUE
       ELSE UNCHANGED done
    /\ UNCHANGED <<lastMsg, out, sentDisc>>

\* _close_gracefully: close when there is nothing to wait for, else ask for the
\* receipt of the last message.  _done is not asked: a transport that is closing
\* drops the frame, or still sends it if its buffer was not empty.
CloseGracefully ==
    /\ WriterTakes
    /\ Head(sendQ) \in {None, Error}
    /\ writer' = "end"
    /\ IF Head(sendQ) = Error \/ lastMsg = NoId \/ lastMsg = lastRcpt
       THEN done' = TRUE /\ UNCHANGED <<out, sentDisc>>
       ELSE /\ \/ out' = Append(out, Frame("DISCONNECT", lastMsg))
               \/ done /\ UNCHANGED out
            /\ sentDisc' = TRUE
            /\ UNCHANGED done
    /\ UNCHANGED lastMsg

-----------------------------------------------------------------------------
(* Timers and the transport                                                *)

\* _detect_connected_timeout, and _check_aliveness once connected.
TimeoutFires ==
    /\ ~done
    /\ done' = TRUE
    /\ UNCHANGED <<connected, lost, writer, lastMsg, lastRcpt, sentDisc, queues, out>>

\* connection_lost: writer and watchdog are cancelled, None ends recv_queue.
ConnectionLost ==
    /\ ~lost
    /\ lost' = TRUE /\ done' = TRUE
    /\ writer' = "end"
    /\ recvQ' = Append(recvQ, None)
    /\ UNCHANGED <<connected, lastMsg, lastRcpt, sentDisc, produced, ended, sendQ, out>>

-----------------------------------------------------------------------------
(* The user of the protocol: messages, then None or a ServerError.         *)

ConsumerPuts ==
    /\ ~ended /\ produced < MaxMsgs
    /\ produced' = produced + 1
    /\ sendQ' = Append(sendQ, produced + 1)
    /\ UNCHANGED <<connected, done, lost, writer, lastMsg, lastRcpt, sentDisc, ended,
                   recvQ, out>>

ConsumerEnds ==
    /\ ~ended
    /\ ended' = TRUE
    /\ \E e \in {None, Error} : sendQ' = Append(sendQ, e)
    /\ UNCHANGED <<connected, done, lost, writer, lastMsg, lastRcpt, sentDisc,
                   produced, recvQ, out>>

=============================================================================
