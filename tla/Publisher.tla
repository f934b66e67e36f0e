------------------------------ MODULE Publisher ------------------------------
(***************************************************************************)
(* The publisher task of the STOMP server (rmq.py, publish_to_exchange and *)
(* _publish_to_exchange) between the two queues it shares with the         *)
(* StompServer protocol and the RabbitMQ exchange it publishes to.         *)
(*                                                                         *)
(* The task runs three coroutines on one event loop: publish_messages,     *)
(* send_receipts and report_failed_confirmations, and one future for every *)
(* delivery that is under way.  An action below is what runs between two   *)
(* suspension points.  Messages are numbered in the order in which the     *)
(* protocol put them in recv_queue.                                        *)
(***************************************************************************)
EXTENDS Integers, Sequences, Functions

CONSTANTS
    QueueSize,   \* server_queue_size: send_queue.maxsize and high watermark
    MaxMsgs,     \* bound: messages received on the connection
    MaxChunk     \* bound: messages that one data_received call completes

ASSUME QueueAssumption == QueueSize \in Nat
ASSUME BoundAssumption == MaxMsgs \in Nat /\ MaxChunk \in Nat

Msgs == 1 .. MaxMsgs

None  == 0      \* the None that ends either queue
Error == -1     \* a ServerError instance
NoEnd == -2     \* no end of the task waits for room in send_queue

HighWatermark == QueueSize
LowWatermark  == QueueSize \div 4
MaxParallel   == IF QueueSize = 0 THEN 1 ELSE QueueSize

VARIABLES
    received,      \* number of messages put in recv_queue so far
    recvQueue,     \* recv_queue: messages, then None once the peer is gone
    paused,        \* recv_queue.__paused: reading from the peer is paused
    conn,          \* "up" until StompServer.connection_lost ran, then "lost"
    phase,         \* of the task: "open", "run", "drain", "done"
    pubState,      \* publish_messages: "get", "wait" (for the window), "end"
    inHand,        \* the message publish_messages holds while it waits
    deliveries,    \* the deque of deliveries without a receipt
    confirmed,     \* the messages with delivery.confirmed
    future,        \* the state of each message's deliver_message future
    canMake,       \* can_make_deliveries is set
    hasConfirmed,  \* has_confirmed_deliveries is set
    failure,       \* failed_confirmation: how the first failed one ended
    outcome,       \* what the task will put in send_queue at its end
    drainSet,      \* the futures the finally clause waits for
    rcptState,     \* send_receipts: "wait", "put" (blocked), "end"
    receiptId,     \* the receipt that a blocked send_receipts holds
    sendQueue,     \* send_queue: receipts, then None or Error
    lateEnd,       \* what terminate_queue's put task has to put, or NoEnd
    broker,        \* each message at the broker: "none", "wire", "stored"
    sent           \* history: what the protocol took from send_queue

envVars  == <<received, conn, sent>>
pubVars  == <<recvQueue, paused, pubState, inHand>>
rcptVars == <<rcptState, receiptId>>
futVars  == <<future, failure>>
endVars  == <<phase, outcome, drainSet, lateEnd>>
vars == <<received, recvQueue, paused, conn, phase, pubState, inHand,
          deliveries, confirmed, future, canMake, hasConfirmed, failure,
          outcome, drainSet, rcptState, receiptId, sendQueue, lateEnd, broker, sent>>

Running  == {"preprocess", "publish"}
Ended    == {"ok", "error", "cancelled"}
\* "cancelling": cancel() was called and the coroutine has not yet ended;
\* "gone": on_confirmation ran and removed it from pending_confirmations.
FutureStates == {"none"} \cup Running \cup {"cancelling"} \cup Ended \cup {"gone"}

TypeOK ==
    /\ received \in 0 .. MaxMsgs
    /\ recvQueue \in Seq(Msgs \cup {None})
    /\ paused \in BOOLEAN
    /\ conn \in {"up", "lost"}
    /\ phase \in {"open", "run", "drain", "done"}
    /\ pubState \in {"get", "wait", "end"}
    /\ inHand \in Msgs \cup {None}
    /\ deliveries \in Seq(Msgs)
    /\ confirmed \in SUBSET Msgs
    /\ future \in [Msgs -> FutureStates]
    /\ canMake \in BOOLEAN
    /\ hasConfirmed \in BOOLEAN
    /\ failure \in {"none", "error", "cancelled"}
    /\ outcome \in {None, Error}
    /\ drainSet \in SUBSET Msgs
    /\ rcptState \in {"wait", "put", "end"}
    /\ receiptId \in Msgs \cup {None}
    /\ sendQueue \in Seq(Msgs \cup {None, Error})
    /\ lateEnd \in {NoEnd, None, Error}
    /\ broker \in [Msgs -> {"none", "wire", "stored"}]
    /\ sent \in Seq(Msgs \cup {None, Error})

Init ==
    /\ received = 0
    /\ recvQueue = <<>>
    /\ paused = FALSE
    /\ conn = "up"
    /\ phase = "open"
    /\ pubState = "get"
    /\ inHand = None
    /\ deliveries = <<>>
    /\ confirmed = {}
    /\ future = [m \in Msgs |-> "none"]
    /\ canMake = TRUE
    /\ hasConfirmed = FALSE
    /\ failure = "none"
    /\ outcome = None
    /\ drainSet = {}
    /\ rcptState = "wait"
    /\ receiptId = None
    /\ sendQueue = <<>>
    /\ lateEnd = NoEnd
    /\ broker = [m \in Msgs |-> "none"]
    /\ sent = <<>>

-----------------------------------------------------------------------------
(* The queues.                                                             *)

\* asyncio.Queue.full(): a maxsize of zero is no limit.
SendQueueFull == QueueSize > 0 /\ Len(sendQueue) >= QueueSize

\* Mutant: the mark is passed, not reached, before reading is paused.
PutNowaitLate(items) ==
    /\ recvQueue' = recvQueue \o items
    /\ paused' = (paused \/ Len(recvQueue) + Len(items) > HighWatermark)

\* WatermarkQueue.put_nowait, of one or more items in a row.
PutNowait(items) ==
    /\ recvQueue' = recvQueue \o items
    /\ paused' = (paused \/ Len(recvQueue) + Len(items) >= HighWatermark)

\* Mutant: below, not at, the low watermark.
TaskDoneBelow(queue) == paused' = (paused /\ Len(queue) >= LowWatermark)

\* WatermarkQueue.task_done, when queue is what is left in it.
TaskDone(queue) == paused' = (paused /\ Len(queue) > LowWatermark)

\* terminate_queue(send_queue, e): put now, or leave it to a task.
TerminateQueue(e) ==
    IF SendQueueFull
    THEN lateEnd' = e /\ UNCHANGED sendQueue
    ELSE sendQueue' = Append(sendQueue, e) /\ UNCHANGED lateEnd

-----------------------------------------------------------------------------
(* The StompServer protocol, as the publisher sees it.                     *)

\* _process_send_queue met None or a ServerError: it closed the transport and
\* set _done, after which data_received drops everything.
WriterEnded == \E i \in DOMAIN sent : sent[i] \in {None, Error}

\* data_received: the SEND frames one chunk completes go to recv_queue.
Receive ==
    /\ conn = "up" /\ ~paused /\ ~WriterEnded
    /\ \E n \in 1 .. MaxChunk :
          /\ received + n <= MaxMsgs
          /\ received' = received + n
          /\ PutNowait([i \in 1 .. n |-> received + i])
    /\ UNCHANGED <<conn, phase, pubState, inHand, deliveries, confirmed, futVars,
                   canMake, hasConfirmed, outcome, drainSet, rcptVars, sendQueue,
                   lateEnd, broker, sent>>

\* Mutant: the end is not marked in recv_queue.
ConnectionLostUnmarked ==
    /\ conn = "up"
    /\ conn' = "lost"
    /\ UNCHANGED <<received, phase, pubVars, deliveries, confirmed, futVars,
                   canMake, hasConfirmed, outcome, drainSet, rcptVars,
                   sendQueue, lateEnd, broker, sent>>

\* connection_lost: the writer is cancelled and None ends recv_queue.
ConnectionLost ==
    /\ conn = "up"
    /\ conn' = "lost"
    /\ PutNowait(<<None>>)
    /\ UNCHANGED <<received, phase, pubState, inHand, deliveries, confirmed,
                   futVars, canMake, hasConfirmed, outcome, drainSet, rcptVars,
                   sendQueue, lateEnd, broker, sent>>

\* _process_send_queue: it stops at the first None or ServerError.
WriterGet ==
    /\ conn = "up" /\ ~WriterEnded /\ sendQueue # <<>>
    /\ sent' = Append(sent, Head(sendQueue))
    /\ sendQueue' = Tail(sendQueue)
    /\ UNCHANGED <<received, conn, phase, pubVars, deliveries, confirmed, futVars,
                   canMake, hasConfirmed, outcome, drainSet, rcptVars, lateEnd, broker>>

-----------------------------------------------------------------------------
(* publish_messages                                                        *)

\* Mutant: > in place of >= when the window is closed.
StartDeliveryOffByOne(m, queue) ==
    /\ deliveries' = Append(deliveries, m)
    /\ canMake' = (canMake /\ Len(deliveries) + 1 <= MaxParallel)
    /\ future' = [future EXCEPT ![m] = "preprocess"]
    /\ TaskDone(queue)

\* The deliver_message future of m starts and m joins the window; m has left
\* recv_queue, where queue remains.
StartDelivery(m, queue) ==
    /\ deliveries' = Append(deliveries, m)
    /\ canMake' = (canMake /\ Len(deliveries) + 1 < MaxParallel)
    /\ future' = [future EXCEPT ![m] = "preprocess"]
    /\ TaskDone(queue)

\* Mutant: None is not told from a message.
PublishMessageOrNone ==
    /\ phase \in {"run", "drain"} /\ pubState = "get"
    /\ recvQueue # <<>>
    /\ canMake
    /\ recvQueue' = Tail(recvQueue)
    /\ StartDelivery(Head(recvQueue), Tail(recvQueue))
    /\ UNCHANGED <<envVars, pubState, inHand, confirmed, failure, hasConfirmed,
                   endVars, rcptVars, sendQueue, broker>>

\* One turn of the loop with the window open: nothing in it suspends.
PublishMessage ==
    /\ phase \in {"run", "drain"} /\ pubState = "get"
    /\ recvQueue # <<>> /\ Head(recvQueue) # None
    /\ canMake
    /\ recvQueue' = Tail(recvQueue)
    /\ StartDelivery(Head(recvQueue), Tail(recvQueue))
    /\ UNCHANGED <<envVars, pubState, inHand, confirmed, failure, hasConfirmed,
                   endVars, rcptVars, sendQueue, broker>>

\* With the window full, the coroutine holds the message and waits.
PublishBlocks ==
    /\ phase \in {"run", "drain"} /\ pubState = "get"
    /\ recvQueue # <<>> /\ Head(recvQueue) # None
    /\ ~canMake
    /\ recvQueue' = Tail(recvQueue)
    /\ inHand' = Head(recvQueue)
    /\ pubState' = "wait"
    /\ UNCHANGED <<envVars, paused, deliveries, confirmed, futVars, canMake,
                   hasConfirmed, endVars, rcptVars, sendQueue, broker>>

PublishResumes ==
    /\ phase \in {"run", "drain"} /\ pubState = "wait"
    /\ canMake
    /\ StartDelivery(inHand, recvQueue)
    /\ inHand' = None
    /\ pubState' = "get"
    /\ UNCHANGED <<envVars, recvQueue, confirmed, failure, hasConfirmed, endVars,
                   rcptVars, sendQueue, broker>>

\* The finally clause: cancel the pending futures and wait for them.  The
\* coroutines that still run keep running meanwhile.
EnterFinally(end) ==
    /\ phase' = "drain"
    /\ outcome' = end
    /\ drainSet' = {m \in Msgs : future[m] \in Running \cup Ended}
    /\ future' = [m \in Msgs |-> IF future[m] \in Running THEN "cancelling"
                                                         ELSE future[m]]

\* None was received: the coroutine cancels the other two and ends, and gather
\* gives up.  In the finally clause of a failure gather has given up already.
PublishEnds ==
    /\ phase \in {"run", "drain"} /\ pubState = "get"
    /\ recvQueue # <<>> /\ Head(recvQueue) = None
    /\ recvQueue' = Tail(recvQueue)
    /\ pubState' = "end"
    /\ rcptState' = "end"
    /\ receiptId' = None
    /\ IF phase = "run" THEN EnterFinally(None)
                        ELSE UNCHANGED <<phase, outcome, drainSet, future>>
    /\ UNCHANGED <<envVars, paused, inHand, deliveries, confirmed, failure,
                   canMake, hasConfirmed, sendQueue, lateEnd, broker>>

-----------------------------------------------------------------------------
(* deliver_message and the broker                                          *)

\* preprocess_message returned and exchange.publish wrote the message.
PreprocessOk(m) ==
    /\ future[m] = "preprocess"
    /\ future' = [future EXCEPT ![m] = "publish"]
    /\ broker' = [broker EXCEPT ![m] = "wire"]
    /\ UNCHANGED <<envVars, pubVars, deliveries, confirmed, failure, canMake,
                   hasConfirmed, endVars, rcptVars, sendQueue>>

\* The message reaches a durable queue, whatever became of the future.
BrokerStores(m) ==
    /\ broker[m] = "wire"
    /\ broker' = [broker EXCEPT ![m] = "stored"]
    /\ UNCHANGED <<envVars, pubVars, deliveries, confirmed, futVars, canMake,
                   hasConfirmed, endVars, rcptVars, sendQueue>>

\* Mutant: a channel without publisher confirms.
PublishUnconfirmed(m) ==
    /\ future[m] = "publish"
    /\ future' = [future EXCEPT ![m] = "ok"]
    /\ UNCHANGED <<envVars, pubVars, deliveries, confirmed, failure, canMake,
                   hasConfirmed, endVars, rcptVars, sendQueue, broker>>

\* exchange.publish returns: the broker confirmed that it stored the message.
PublishConfirmed(m) ==
    /\ future[m] \in {"publish", "cancelling"} /\ broker[m] = "stored"
    /\ future' = [future EXCEPT ![m] = "ok"]
    /\ UNCHANGED <<envVars, pubVars, deliveries, confirmed, failure, canMake,
                   hasConfirmed, endVars, rcptVars, sendQueue, broker>>

\* preprocess_message raised, or exchange.publish did: the message was
\* returned or refused, the confirmation timed out, the broker was lost.  A
\* future that the AMQP library or the finally clause cancelled is cancelled.
DeliveryFails(m) ==
    /\ \E how \in {"error", "cancelled"} :
          /\ \/ future[m] \in Running
             \/ future[m] = "cancelling" /\ how = "cancelled"
          /\ future' = [future EXCEPT ![m] = how]
    /\ UNCHANGED <<envVars, pubVars, deliveries, confirmed, failure, canMake,
                   hasConfirmed, endVars, rcptVars, sendQueue, broker>>

\* on_confirmation, the callback of the ended future.
OnConfirmation(m) ==
    /\ future[m] \in Ended
    /\ future' = [future EXCEPT ![m] = "gone"]
    /\ IF future[m] = "ok"
       THEN /\ confirmed' = confirmed \cup {m}
            /\ hasConfirmed' = TRUE
            /\ UNCHANGED failure
       ELSE /\ failure' = IF failure = "none" THEN future[m] ELSE failure
            /\ UNCHANGED <<confirmed, hasConfirmed>>
    /\ UNCHANGED <<envVars, pubVars, deliveries, canMake, endVars, rcptVars,
                   sendQueue, broker>>

-----------------------------------------------------------------------------
(* send_receipts                                                           *)

\* Mutant: everything up to the last confirmed delivery is popped.
LastConfirmed(n) ==
    /\ n > 0 => deliveries[n] \in confirmed
    /\ \A i \in n + 1 .. Len(deliveries) : deliveries[i] \notin confirmed

\* The first n deliveries are the longest confirmed prefix of the deque.
ConfirmedPrefix(n) ==
    /\ \A i \in 1 .. n : deliveries[i] \in confirmed
    /\ n < Len(deliveries) => deliveries[n + 1] \notin confirmed

\* Mutant: the last confirmed delivery is read and not popped.
AfterPeek(n) == SubSeq(deliveries, IF n = 0 THEN 1 ELSE n, Len(deliveries))

\* What n calls of deliveries.popleft leave.
AfterPop(n) == SubSeq(deliveries, n + 1, Len(deliveries))

\* Pop the confirmed prefix, keep the last id, reopen the window and put one
\* receipt for all of it.  Only a full send_queue suspends the put.
SendReceipts ==
    /\ phase \in {"run", "drain"} /\ rcptState = "wait"
    /\ hasConfirmed
    /\ hasConfirmed' = FALSE
    /\ \E n \in 0 .. Len(deliveries) :
          /\ ConfirmedPrefix(n)
          /\ deliveries' = AfterPop(n)
          /\ IF n = 0
             THEN UNCHANGED <<canMake, rcptVars, sendQueue>>
             ELSE /\ canMake' = (canMake \/ Len(deliveries) - n < MaxParallel)
                  /\ IF SendQueueFull
                     THEN /\ rcptState' = "put"
                          /\ receiptId' = deliveries[n]
                          /\ UNCHANGED sendQueue
                     ELSE /\ sendQueue' = Append(sendQueue, deliveries[n])
                          /\ UNCHANGED rcptVars
    /\ UNCHANGED <<envVars, pubVars, confirmed, futVars, endVars, broker>>

\* Mutant: has_confirmed_deliveries is cleared after the put.
ReceiptPutThenClear ==
    /\ phase \in {"run", "drain"} /\ rcptState = "put"
    /\ ~SendQueueFull
    /\ sendQueue' = Append(sendQueue, receiptId)
    /\ rcptState' = "wait"
    /\ receiptId' = None
    /\ hasConfirmed' = FALSE
    /\ UNCHANGED <<envVars, pubVars, deliveries, confirmed, futVars, canMake,
                   endVars, broker>>

\* The blocked put finds room.
ReceiptPut ==
    /\ phase \in {"run", "drain"} /\ rcptState = "put"
    /\ ~SendQueueFull
    /\ sendQueue' = Append(sendQueue, receiptId)
    /\ rcptState' = "wait"
    /\ receiptId' = None
    /\ UNCHANGED <<envVars, pubVars, deliveries, confirmed, futVars, canMake,
                   hasConfirmed, endVars, broker>>

-----------------------------------------------------------------------------
(* report_failed_confirmations, the finally clause and publish_to_exchange *)

OpenChannel ==
    /\ phase = "open"
    /\ phase' = "run"
    /\ UNCHANGED <<envVars, pubVars, deliveries, confirmed, futVars, canMake,
                   hasConfirmed, outcome, drainSet, lateEnd, rcptVars, sendQueue, broker>>

OpenChannelFails ==
    /\ phase = "open"
    /\ phase' = "done"
    /\ TerminateQueue(Error)
    /\ UNCHANGED <<envVars, pubVars, deliveries, confirmed, futVars, canMake,
                   hasConfirmed, outcome, drainSet, rcptVars, broker>>

\* The reporter awaits the failed confirmation, which ends gather: with its
\* exception, or with a CancelledError, which _publish_to_exchange swallows.
ReportFailure ==
    /\ phase = "run" /\ failure # "none"
    /\ EnterFinally(IF failure = "error" THEN Error ELSE None)
    /\ UNCHANGED <<envVars, pubVars, deliveries, confirmed, failure, canMake,
                   hasConfirmed, lateEnd, rcptVars, sendQueue, broker>>

\* The cancelled futures are gone: the coroutines are cancelled, with what they
\* hold, and the end of the task goes to send_queue.
Finish ==
    /\ phase = "drain"
    /\ \A m \in drainSet : future[m] = "gone"
    /\ phase' = "done"
    /\ pubState' = "end" /\ inHand' = None
    /\ rcptState' = "end" /\ receiptId' = None
    /\ TerminateQueue(outcome)
    /\ UNCHANGED <<envVars, recvQueue, paused, deliveries, confirmed, futVars,
                   canMake, hasConfirmed, outcome, drainSet, broker>>

\* The task that terminate_queue left behind finds room.
LateEndPut ==
    /\ lateEnd # NoEnd /\ ~SendQueueFull
    /\ sendQueue' = Append(sendQueue, lateEnd)
    /\ lateEnd' = NoEnd
    /\ UNCHANGED <<envVars, pubVars, deliveries, confirmed, futVars, canMake,
                   hasConfirmed, phase, outcome, drainSet, rcptVars, broker>>

-----------------------------------------------------------------------------

Deliver(m) ==
    \/ PreprocessOk(m)
    \/ PublishConfirmed(m)
    \/ DeliveryFails(m)
    \/ OnConfirmation(m)

Coroutines ==
    \/ PublishMessage \/ PublishBlocks \/ PublishResumes \/ PublishEnds
    \/ SendReceipts \/ ReceiptPut
    \/ OpenChannel \/ OpenChannelFails \/ ReportFailure \/ Finish \/ LateEndPut

Next ==
    \/ Receive
    \/ ConnectionLost
    \/ WriterGet
    \/ Coroutines
    \/ \E m \in Msgs : Deliver(m) \/ BrokerStores(m)

Spec == Init /\ [][Next]_vars

\* The event loop runs whatever is ready, every future ends (preprocessing
\* returns, confirmation_timeout bounds the wait for the broker), and as long
\* as the connection is up the writer goes on taking from send_queue.
Fairness ==
    /\ WF_vars(PublishMessage \/ PublishBlocks \/ PublishResumes \/ PublishEnds)
    /\ WF_vars(SendReceipts \/ ReceiptPut)
    /\ WF_vars(OpenChannel \/ OpenChannelFails \/ ReportFailure \/ Finish)
    /\ WF_vars(LateEndPut)
    /\ WF_vars(WriterGet)
    /\ \A m \in Msgs : WF_vars(Deliver(m))

FairSpec == Spec /\ Fairness

-----------------------------------------------------------------------------
(* Properties                                                              *)

\* Everything that entered send_queue, in order.
Out == sent \o sendQueue

\* A receipt vouches for its message and for every earlier one: when the
\* publisher puts the receipt of k in send_queue, the broker has stored all of
\* 1 .. k, though confirmations arrive in any order and some deliveries fail.
ReceiptsTruthful ==
    \A i \in DOMAIN Out : Out[i] \in Msgs =>
        \A m \in 1 .. Out[i] : broker[m] = "stored"

\* No message is confirmed twice or after a later one, and None or ServerError
\* is the last item of send_queue: a receipt cancelled while it waited for room
\* never turns up behind it.
ReceiptsAscend ==
    \A i, j \in DOMAIN Out : i < j =>
        Out[i] \in Msgs /\ (Out[j] \in Msgs => Out[i] < Out[j])

\* At most max_parallel_deliveries messages are without a receipt, and
\* publish_messages waits for the window only while it is really full.
WindowBound ==
    /\ Len(deliveries) <= MaxParallel
    /\ ~canMake => Len(deliveries) = MaxParallel

\* Reading is never left paused with nobody to resume it: when the queue is at
\* or below the low watermark, publish_messages still has a task_done to call.
NoLostResume ==
    paused /\ phase # "done" /\ pubState # "end" =>
        Len(recvQueue) > LowWatermark \/ pubState = "wait"

\* send_receipts never sleeps on a confirmed head of the deque: the clear() of
\* has_confirmed_deliveries cannot swallow a confirmation, not even one that
\* arrives while the coroutine is blocked in send_queue.put.
NoLostWakeup ==
    /\ phase \in {"run", "drain"} /\ rcptState # "end"
    /\ deliveries # <<>> /\ Head(deliveries) \in confirmed
    => hasConfirmed

\* Pausing at the high watermark bounds the backlog: one chunk more than what
\* was below the mark, and the final None.
BacklogBound ==
    Len(recvQueue) <= (IF HighWatermark = 0 THEN 0 ELSE HighWatermark - 1)
                      + MaxChunk + (IF conn = "lost" THEN 1 ELSE 0)

\* A received message is receipted unless a delivery failed, the connection was
\* lost, or the channel could not be opened.
EveryMessageReceipted ==
    \A m \in Msgs :
        m <= received ~> \/ \E i \in DOMAIN sent : sent[i] \in Msgs /\ sent[i] >= m
                        \/ failure # "none" \/ conn = "lost" \/ phase = "done"

\* The task is wedged: the window is full, send_receipts is blocked on a full
\* send_queue that nobody reads any more, and None is behind the message that
\* publish_messages holds.
Wedged ==
    /\ conn = "lost"
    /\ pubState = "wait" /\ ~canMake
    /\ rcptState = "put" /\ SendQueueFull

\* When the connection is lost the task ends, or it is wedged as above: that is
\* the only way in which it can outlive its connection.
EndsUnlessWedged == conn = "lost" ~> phase = "done" \/ Wedged

\* "putting None in the recv_queue cancels the publisher task immediately"
\* (server.py): once the connection is lost, the task comes to its end.
LostConnectionEndsTask == conn = "lost" ~> phase = "done"

\* The publisher keeps the promise of ReceiptService to the client.
LastReceipt ==
    LET R == {Out[i] : i \in DOMAIN Out} \cap Msgs
    IN  IF R = {} THEN 0 ELSE CHOOSE k \in R : \A r \in R : r <= k

RS == INSTANCE ReceiptService WITH
        accepted  <- received,
        durable   <- {m \in Msgs : broker[m] = "stored"},
        receipted <- LastReceipt,
        serving   <- \A i \in DOMAIN Out : Out[i] \in Msgs

\* Every behaviour of the publisher is one of ReceiptService: receipts are
\* cumulative, ascending, only for durable prefixes, and none follows the end.
ImplementsReceiptService == RS!Spec

=============================================================================
