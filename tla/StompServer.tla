---------------------------- MODULE StompServer -----------------------------
(***************************************************************************)
(* The StompServer protocol (aio_protocols.py) of one connection, between  *)
(* the transport and the two queues it shares with the publisher task.     *)
(* Callbacks of the event loop run to completion, so each is one action.   *)
(* Clients use every receipt id once; here the ids of SEND frames are      *)
(* 1, 2, ... in the order of arrival.  Pausing of reading and of writing   *)
(* only delays an action and needs no state here.                          *)
(***************************************************************************)
EXTENDS StompFrames

CONSTANTS
    MaxMsgs     \* bound: SEND frames accepted on the connection

ASSUME MsgsAssumption == MaxMsgs \in Nat

Msgs == 1 .. MaxMsgs
\* The id of a DISCONNECT may be one that no message has.
OwnId == MaxMsgs + 1
Ids == Msgs \cup {OwnId}

VARIABLES
    connected,   \* _connected
    done,        \* _done: the transport is being closed, or is lost
    lost,        \* connection_lost has run
    writer,      \* _process_send_queue: "off", "on", "end"
    lastMsg,     \* _last_message_id
    lastRcpt,    \* _last_receipt_id
    discId,      \* _disconnect_receipt_id
    recvQ,       \* history: what was put in recv_queue
    sendQ,       \* send_queue
    given,       \* the publisher has put the receipt of message given
    ended,       \* the publisher has put None or a ServerError
    out          \* frames written to the transport

queues == <<recvQ, sendQ, given, ended>>
ids == <<lastMsg, lastRcpt, discId>>
vars == <<connected, done, lost, writer, ids, queues, out>>

TypeOK ==
    /\ connected \in BOOLEAN /\ done \in BOOLEAN /\ lost \in BOOLEAN
    /\ writer \in {"off", "on", "end"}
    /\ lastMsg \in Msgs \cup {NoId} /\ lastRcpt \in Msgs \cup {NoId}
    /\ discId \in Ids \cup {NoId}
    /\ recvQ \in Seq(Msgs \cup {None})
    /\ sendQ \in Seq(Msgs \cup {None, Error})
    /\ given \in Msgs \cup {0} /\ ended \in BOOLEAN
    /\ out \in Seq(FramesOver(Ids))

Init ==
    /\ connected = FALSE /\ done = FALSE /\ lost = FALSE
    /\ writer = "off"
    /\ lastMsg = NoId /\ lastRcpt = NoId /\ discId = NoId
    /\ recvQ = <<>> /\ sendQ = <<>> /\ given = 0 /\ ended = FALSE
    /\ out = <<>>

-----------------------------------------------------------------------------
(* Closing.  A transport that is closing drops what is written to it.      *)

\* Mutant: frames are written without asking transport.is_closing().
WriteAndCloseUnchecked(frames) ==
    /\ done' = TRUE
    /\ out' = out \o frames

\* _close, after frames have been written.
WriteAndClose(frames) ==
    /\ done' = TRUE
    /\ out' = IF done THEN out ELSE out \o frames

\* _close_with_error and _close_with_warning.
CloseWithError == WriteAndClose(<<ErrorFrame>>)

-----------------------------------------------------------------------------
(* data_received, for one frame f                                          *)

\* A frame that arrives when the protocol is done is dropped.
IgnoreFrame(f) ==
    /\ done /\ ~lost
    /\ UNCHANGED vars

\* The parser raises, the frame follows DISCONNECT, the command is not a
\* client's, or the handler of the command refuses the frame.
Refuses(f) ==
    \/ f.cmd = "MALFORMED"
    \/ discId # NoId
    \/ f.cmd \notin {"STOMP", "SEND", "DISCONNECT"}
    \/ f.cmd = "STOMP" /\ (connected \/ ~f.ok)
    \/ f.cmd = "SEND" /\ (~connected \/ ~f.ok)
    \/ f.cmd = "DISCONNECT" /\ ~connected

RejectFrame(f) ==
    /\ ~done /\ Refuses(f)
    /\ CloseWithError
    /\ UNCHANGED <<connected, lost, writer, ids, queues>>

\* _connect, of a frame with a valid heart-beat: the writer starts.
Connect ==
    /\ connected' = TRUE
    /\ writer' = "on"

\* _received_connect_command
ReceivedConnect(f) ==
    /\ ~done /\ ~Refuses(f)
    /\ f.cmd = "STOMP"
    /\ Connect
    /\ out' = Append(out, Frame("CONNECTED", NoId))
    /\ UNCHANGED <<done, lost, ids, queues>>

\* _received_send_command
ReceivedSend(f) ==
    /\ ~done /\ ~Refuses(f)
    /\ f.cmd = "SEND"
    /\ recvQ' = Append(recvQ, f.id)
    /\ lastMsg' = f.id
    /\ UNCHANGED <<connected, done, lost, writer, lastRcpt, discId, sendQ, given,
                   ended, out>>

\* Mutant: DISCONNECT is answered without looking at the pending receipts.
ReceivedDisconnectEager(f) ==
    /\ ~done /\ ~Refuses(f)
    /\ f.cmd = "DISCONNECT"
    /\ discId' = f.id
    /\ WriteAndClose(IF f.id = NoId THEN <<>> ELSE <<Receipt(f.id)>>)
    /\ UNCHANGED <<connected, lost, writer, lastMsg, lastRcpt, queues>>

\* Mutant: the transport stays open after DISCONNECT is answered at once.
ReceivedDisconnectStaysOpen(f) ==
    /\ ~done /\ ~Refuses(f)
    /\ f.cmd = "DISCONNECT"
    /\ discId' = f.id
    /\ IF f.id # NoId /\ (lastMsg = NoId \/ lastMsg = lastRcpt)
       THEN out' = Append(out, Receipt(f.id))
       ELSE UNCHANGED out
    /\ UNCHANGED <<connected, done, lost, writer, lastMsg, lastRcpt, queues>>

\* Mutant: DISCONNECT closes the transport at once, receipts or not.
ReceivedDisconnectSilent(f) ==
    /\ ~done /\ ~Refuses(f)
    /\ f.cmd = "DISCONNECT"
    /\ discId' = f.id
    /\ WriteAndClose(<<>>)
    /\ UNCHANGED <<connected, lost, writer, lastMsg, lastRcpt, queues>>

\* _received_disconnect_command: without a receipt header the transport is
\* closed at once; with one, when the last message has its receipt, or later.
ReceivedDisconnect(f) ==
    /\ ~done /\ ~Refuses(f)
    /\ f.cmd = "DISCONNECT"
    /\ discId' = f.id
    /\ IF f.id = NoId \/ lastMsg = NoId \/ lastMsg = lastRcpt
       THEN WriteAndClose(IF f.id = NoId THEN <<>> ELSE <<Receipt(f.id)>>)
       ELSE UNCHANGED <<done, out>>
    /\ UNCHANGED <<connected, lost, writer, lastMsg, lastRcpt, queues>>

DataReceived(f) ==
    \/ IgnoreFrame(f)
    \/ RejectFrame(f)
    \/ ReceivedConnect(f)
    \/ ReceivedSend(f)
    \/ ReceivedDisconnect(f)

-----------------------------------------------------------------------------
(* _process_send_queue                                                     *)

WriterTakes ==
    /\ writer = "on" /\ sendQ # <<>>
    /\ sendQ' = Tail(sendQ)
    /\ UNCHANGED <<connected, lost, lastMsg, discId, recvQ, given, ended>>

\* Mutant: the writer does not recognise a ServerError.
SendReceiptOrError ==
    /\ WriterTakes
    /\ Head(sendQ) # None
    /\ out' = IF done THEN out ELSE Append(out, Receipt(Head(sendQ)))
    /\ lastRcpt' = IF done THEN lastRcpt ELSE Head(sendQ)
    /\ UNCHANGED <<done, writer>>

\* Mutant: a pending DISCONNECT is forgotten.
SendReceiptOnly ==
    /\ WriterTakes
    /\ Head(sendQ) \in Msgs
    /\ out' = IF done THEN out ELSE Append(out, Receipt(Head(sendQ)))
    /\ lastRcpt' = IF done THEN lastRcpt ELSE Head(sendQ)
    /\ UNCHANGED <<done, writer>>

\* _send_frame: the receipt of the last message also answers a DISCONNECT.
SendReceipt ==
    /\ WriterTakes
    /\ Head(sendQ) \in Msgs
    /\ IF ~done /\ discId # NoId /\ Head(sendQ) = lastMsg
       THEN /\ WriteAndClose(<<Receipt(discId)>>)
            /\ UNCHANGED lastRcpt
       ELSE /\ out' = IF done THEN out ELSE Append(out, Receipt(Head(sendQ)))
            /\ lastRcpt' = IF done THEN lastRcpt ELSE Head(sendQ)
            /\ UNCHANGED done
    /\ UNCHANGED writer

\* _close_gracefully: None and ServerError both end in an ERROR frame.
CloseGracefully ==
    /\ WriterTakes
    /\ Head(sendQ) \in {None, Error}
    /\ CloseWithError
    /\ writer' = "end"
    /\ UNCHANGED lastRcpt

-----------------------------------------------------------------------------
(* Timers and the transport                                                *)

\* _detect_connected_timeout
ConnectedTimeout ==
    /\ ~connected /\ ~done
    /\ done' = TRUE
    /\ UNCHANGED <<connected, lost, writer, ids, queues, out>>

\* _check_aliveness: the watchdog saw no data for too long.
WatchdogFires ==
    /\ connected /\ ~done
    /\ CloseWithError
    /\ UNCHANGED <<connected, lost, writer, ids, queues>>

\* connection_lost: writer and watchdog are cancelled, None ends recv_queue.
ConnectionLost ==
    /\ ~lost
    /\ lost' = TRUE /\ done' = TRUE
    /\ writer' = "end"
    /\ recvQ' = Append(recvQ, None)
    /\ UNCHANGED <<connected, ids, sendQ, given, ended, out>>

-----------------------------------------------------------------------------
(* The publisher task, as ReceiptService has it: one receipt for a prefix  *)
(* of what was received, then at most one None or ServerError.             *)

PublisherConfirms ==
    /\ ~ended
    /\ \E k \in given + 1 .. lastMsg :
          /\ sendQ' = Append(sendQ, k)
          /\ given' = k
    /\ UNCHANGED <<connected, done, lost, writer, ids, recvQ, ended, out>>

PublisherEnds ==
    /\ ~ended
    /\ ended' = TRUE
    /\ \E e \in {None, Error} : sendQ' = Append(sendQ, e)
    /\ UNCHANGED <<connected, done, lost, writer, ids, recvQ, given, out>>

-----------------------------------------------------------------------------

\* What any client may send next; an accepted message has the next id.
Inputs ==
    {Frame("STOMP", NoId), Refused("STOMP", NoId), Malformed, Frame("OTHER", NoId),
     Refused("SEND", NoId)}
    \cup {Frame("SEND", m) : m \in Msgs \cap {lastMsg + 1}}
    \cup {Frame("DISCONNECT", id) : id \in {NoId, OwnId, lastMsg}}

Local ==
    \/ SendReceipt \/ CloseGracefully
    \/ ConnectedTimeout \/ WatchdogFires
    \/ PublisherConfirms \/ PublisherEnds

Next ==
    \/ ~lost /\ \E f \in Inputs : DataReceived(f)
    \/ Local
    \/ ConnectionLost

\* The writer runs when there is something to send, and the publisher sooner or
\* later confirms what it was given, or ends.
Fairness ==
    /\ WF_vars(SendReceipt \/ CloseGracefully)
    /\ WF_vars(PublisherConfirms)

Spec == Init /\ [][Next]_vars
FairSpec == Spec /\ Fairness

-----------------------------------------------------------------------------
(* Properties                                                              *)

\* A RECEIPT on the wire is backed by the publisher, and one that answers a
\* DISCONNECT by the publisher's receipt for the last message received, in
\* whatever order DISCONNECT and that receipt reach the protocol.
ReceiptsBacked ==
    \A i \in DOMAIN out : out[i].cmd = "RECEIPT" =>
        IF out[i].id = OwnId THEN given = lastMsg ELSE out[i].id <= given

\* On the wire no message gets a second RECEIPT, nor one after a later message;
\* only the answer to a DISCONNECT may repeat an id, and it is the last frame.
ReceiptsOrdered ==
    \A i, j \in DOMAIN out :
        i < j /\ out[i].cmd = "RECEIPT" /\ out[j].cmd = "RECEIPT" =>
            out[i].id < out[j].id \/ (j = Len(out) /\ out[j].id = discId /\ done)

\* ERROR is the last frame of a connection, and CONNECTED the first unless the
\* connection never got that far: an early end of the publisher waits for it.
FramesWellFormed ==
    \A i \in DOMAIN out :
        /\ out[i].cmd = "ERROR" => i = Len(out) /\ done
        /\ out[i].cmd = "CONNECTED" <=> i = 1 /\ connected

\* A DISCONNECT that has to wait for receipts is answered, or the connection
\* ends: the server never forgets it.
DisconnectAnswered == discId # NoId ~> done

=============================================================================
