------------------------------ MODULE Consumer ------------------------------
(***************************************************************************)
(* The sending side of a transfer: the consumer task (rmq.py,              *)
(* consume_from_queue and _consume_from_queue) between a RabbitMQ queue    *)
(* and the two queues that it shares with the StompClient protocol, and    *)
(* the client process (client.py) that is started again after it ends.     *)
(*                                                                         *)
(* Everything behind the queues, StompClient, the network, the peer's      *)
(* StompServer and its publisher, is here what StompSession and Publisher  *)
(* show of it: a message that was sent may be stored by the peer, and a    *)
(* receipt arrives only for a prefix that was, in ascending order.         *)
(*                                                                         *)
(* Messages are numbered in the order of the RabbitMQ queue.  A delivery   *)
(* tag counts the deliveries of the current channel; it becomes the id of  *)
(* the STOMP message.                                                      *)
(***************************************************************************)
EXTENDS Integers, Sequences

CONSTANTS
    QueueSize,     \* client_queue_size: send_queue.maxsize and high watermark
    MaxMsgs,       \* bound: messages in the RabbitMQ queue
    MaxFailures,   \* bound: failures of the network, the broker, the process
    Poison         \* the messages for which transform_message may raise

Msgs == 1 .. MaxMsgs

ASSUME QueueAssumption == QueueSize \in Nat
ASSUME BoundAssumption == MaxMsgs \in Nat /\ MaxFailures \in Nat
ASSUME PoisonAssumption == Poison \subseteq Msgs

None  == 0      \* the None that ends either queue
Error == -1     \* a ServerError instance
NoEnd == -2     \* no end of the task waits for room in send_queue

HighWatermark == QueueSize
LowWatermark  == QueueSize \div 4

\* The prefetch count of the channel.
Prefetch == IF QueueSize = 0 THEN 1 ELSE QueueSize

VARIABLES
    poison,      \* the messages for which transform_message raises
    queue,       \* the RabbitMQ queue: the messages ready for delivery
    delivered,   \* delivered[t]: the message with delivery tag t
    acked,       \* tags 1 .. acked are acknowledged
    taken,       \* consume_queue has taken tags 1 .. taken from queue_iter
    phase,       \* of the task: "open", "run", "done"
    sendQ,       \* send_queue: tags, then None or Error
    lateEnd,     \* what terminate_queue's put task has to put, or NoEnd
    recvQ,       \* recv_queue: receipted tags, then None
    paused,      \* recv_queue.__paused: reading from the peer is paused
    conn,        \* the STOMP connection: "up", "closing", "lost"
    sent,        \* tags 1 .. sent were sent to the peer
    storedTags,  \* the tags of this connection that the peer stored
    receipted,   \* the last tag with a receipt
    stored,      \* the messages stored by the peer
    failures     \* failures so far

taskVars == <<taken, phase, sendQ, lateEnd>>
recvVars == <<recvQ, paused>>
rmqVars  == <<queue, delivered, acked>>
peerVars == <<storedTags, receipted, stored>>
vars == <<poison, rmqVars, taskVars, recvVars, conn, sent, peerVars, failures>>

Init ==
    /\ poison \in SUBSET Poison
    /\ queue = [i \in Msgs |-> i]
    /\ delivered = <<>> /\ acked = 0 /\ taken = 0
    /\ phase = "open"
    /\ sendQ = <<>> /\ lateEnd = NoEnd /\ recvQ = <<>> /\ paused = FALSE
    /\ conn = "up" /\ sent = 0
    /\ storedTags = {} /\ receipted = 0 /\ stored = {}
    /\ failures = 0

-----------------------------------------------------------------------------

SendQueueFull == QueueSize > 0 /\ Len(sendQ) >= QueueSize

\* WatermarkQueue.put_nowait
PutNowait(item) ==
    /\ recvQ' = Append(recvQ, item)
    /\ paused' = (paused \/ Len(recvQ) + 1 >= HighWatermark)

\* Deliveries without an acknowledgement, and what RabbitMQ makes of them when
\* their channel is closed.
Unacked == SubSeq(delivered, acked + 1, Len(delivered))
Requeued == IF phase = "run" THEN Unacked \o queue ELSE queue

Fails ==
    /\ failures < MaxFailures
    /\ failures' = failures + 1

\* The coroutines are cancelled, the channel is closed, and terminate_queue puts
\* the end of the task in send_queue, now or when there is room.
EndTask(e) ==
    /\ phase' = "done"
    /\ queue' = Requeued
    /\ IF SendQueueFull
       THEN lateEnd' = e /\ UNCHANGED sendQ
       ELSE sendQ' = Append(sendQ, e) /\ UNCHANGED lateEnd
    /\ UNCHANGED <<poison, delivered, acked, taken>>

OpenChannel ==
    /\ phase = "open"
    /\ phase' = "run"
    /\ UNCHANGED <<poison, rmqVars, taken, sendQ, lateEnd, recvVars, conn, sent, peerVars,
                   failures>>

\* The broker cannot be reached, or the peer's certificate is another's.
OpenChannelFails ==
    /\ phase = "open" /\ Fails
    /\ EndTask(Error)
    /\ UNCHANGED <<recvVars, conn, sent, peerVars>>

\* The connection to the broker breaks: an exception, or a CancelledError that
\* _consume_from_queue swallows.
BrokerLost ==
    /\ phase = "run" /\ Fails
    /\ \E e \in {None, Error} : EndTask(e)
    /\ UNCHANGED <<recvVars, conn, sent, peerVars>>

LateEndPut ==
    /\ lateEnd # NoEnd /\ ~SendQueueFull
    /\ sendQ' = Append(sendQ, lateEnd)
    /\ lateEnd' = NoEnd
    /\ UNCHANGED <<poison, rmqVars, taken, phase, recvVars, conn, sent, peerVars, failures>>

-----------------------------------------------------------------------------
(* consume_queue                                                           *)

\* Mutant: no limit on the deliveries in flight.
BrokerDeliversAll ==
    /\ phase = "run" /\ queue # <<>>
    /\ delivered' = Append(delivered, Head(queue))
    /\ queue' = Tail(queue)
    /\ UNCHANGED <<poison, acked, taskVars, recvVars, conn, sent, peerVars, failures>>

\* RabbitMQ delivers up to the prefetch count; queue_iter buffers.
BrokerDelivers ==
    /\ phase = "run" /\ queue # <<>>
    /\ Len(delivered) - acked < Prefetch
    /\ delivered' = Append(delivered, Head(queue))
    /\ queue' = Tail(queue)
    /\ UNCHANGED <<poison, acked, taskVars, recvVars, conn, sent, peerVars, failures>>

\* Mutant: the queue is consumed with automatic acknowledgement.
ConsumeMessageNoAck ==
    /\ phase = "run" /\ taken < Len(delivered)
    /\ delivered[taken + 1] \notin poison
    /\ ~SendQueueFull
    /\ taken' = taken + 1
    /\ acked' = IF acked > taken THEN acked ELSE taken + 1
    /\ sendQ' = Append(sendQ, taken + 1)
    /\ UNCHANGED <<poison, queue, delivered, phase, lateEnd, recvVars, conn, sent, peerVars,
                   failures>>

\* One turn of the loop.  The put would wait for room; PutFindsRoom says that it
\* never has to.
ConsumeMessage ==
    /\ phase = "run" /\ taken < Len(delivered)
    /\ delivered[taken + 1] \notin poison
    /\ ~SendQueueFull
    /\ taken' = taken + 1
    /\ sendQ' = Append(sendQ, taken + 1)
    /\ UNCHANGED <<poison, rmqVars, phase, lateEnd, recvVars, conn, sent, peerVars, failures>>

\* transform_message raises, and the task ends with what it has not yet acked.
TransformFails ==
    /\ phase = "run" /\ taken < Len(delivered)
    /\ delivered[taken + 1] \in poison
    /\ EndTask(Error)
    /\ UNCHANGED <<recvVars, conn, sent, peerVars, failures>>

-----------------------------------------------------------------------------
(* send_acks                                                               *)

\* Mutant: the acknowledged receipt stays in recv_queue.
SendAckPeeks ==
    /\ phase = "run" /\ recvQ # <<>> /\ Head(recvQ) # None
    /\ acked' = Head(recvQ)
    /\ UNCHANGED <<poison, queue, delivered, taskVars, recvVars, conn, sent, peerVars, failures>>

\* Mutant: the watermark is left alone, task_done is not called.
SendAckNotDone ==
    /\ phase = "run" /\ recvQ # <<>> /\ Head(recvQ) # None
    /\ acked' = Head(recvQ)
    /\ recvQ' = Tail(recvQ)
    /\ UNCHANGED <<poison, queue, delivered, paused, taskVars, conn, sent, peerVars, failures>>

\* Mutant: basic_ack(0, multiple=True), which stands for all deliveries.
SendAckAll ==
    /\ phase = "run" /\ recvQ # <<>> /\ Head(recvQ) # None
    /\ acked' = Len(delivered)
    /\ recvQ' = Tail(recvQ)
    /\ paused' = (paused /\ Len(recvQ) - 1 > LowWatermark)
    /\ UNCHANGED <<poison, queue, delivered, taskVars, conn, sent, peerVars, failures>>

\* basic_ack(delivery_tag, multiple=True), then task_done.
SendAck ==
    /\ phase = "run" /\ recvQ # <<>> /\ Head(recvQ) # None
    /\ acked' = Head(recvQ)
    /\ recvQ' = Tail(recvQ)
    /\ paused' = (paused /\ Len(recvQ) - 1 > LowWatermark)
    /\ UNCHANGED <<poison, queue, delivered, taskVars, conn, sent, peerVars, failures>>

\* None was received: the loop ends and cancels consume_queue.
AcksEnd ==
    /\ phase = "run" /\ recvQ # <<>> /\ Head(recvQ) = None
    /\ recvQ' = Tail(recvQ)
    /\ EndTask(None)
    /\ UNCHANGED <<paused, conn, sent, peerVars, failures>>

-----------------------------------------------------------------------------
(* StompClient and everything behind it                                    *)

LinkSends ==
    /\ conn = "up" /\ sendQ # <<>>
    /\ sendQ' = Tail(sendQ)
    /\ IF Head(sendQ) \in {None, Error}
       THEN conn' = "closing" /\ UNCHANGED sent
       ELSE sent' = Head(sendQ) /\ UNCHANGED conn
    /\ UNCHANGED <<poison, rmqVars, taken, phase, lateEnd, recvVars, peerVars, failures>>

\* The peer's publisher stores in any order, even after the connection is lost.
PeerStores(m) ==
    /\ \E t \in 1 .. sent \ storedTags :
          /\ delivered[t] = m
          /\ storedTags' = storedTags \cup {t}
          /\ stored' = stored \cup {m}
    /\ UNCHANGED <<poison, rmqVars, taskVars, recvVars, conn, sent, receipted, failures>>

PeerReceipts ==
    /\ conn # "lost" /\ ~paused
    /\ \E t \in receipted + 1 .. sent :
          /\ 1 .. t \subseteq storedTags
          /\ receipted' = t
          /\ PutNowait(t)
    /\ UNCHANGED <<poison, rmqVars, taskVars, conn, sent, storedTags, stored, failures>>

\* connection_lost, of itself or after the protocol closed the transport.
ConnectionLost ==
    /\ \/ conn = "closing" /\ UNCHANGED failures
       \/ conn = "up" /\ Fails
    /\ conn' = "lost"
    /\ PutNowait(None)
    /\ UNCHANGED <<poison, rmqVars, taskVars, sent, peerVars>>

\* A client process starts anew and nothing of the earlier one is left; its
\* channel is closed, so RabbitMQ delivers again what was not acknowledged.
NewProcess ==
    /\ queue' = Requeued
    /\ delivered' = <<>> /\ acked' = 0 /\ taken' = 0
    /\ phase' = "open"
    /\ sendQ' = <<>> /\ lateEnd' = NoEnd /\ recvQ' = <<>> /\ paused' = FALSE
    /\ conn' = "up" /\ sent' = 0
    /\ storedTags' = {} /\ receipted' = 0
    /\ UNCHANGED <<poison, stored>>

\* connection_lost_event is set: connect() returns and asyncio.run cancels what
\* still runs, receipts that wait in recv_queue included.
Restart == conn = "lost" /\ NewProcess /\ UNCHANGED failures

Crash == Fails /\ NewProcess

Next ==
    \/ OpenChannel \/ OpenChannelFails \/ BrokerLost \/ LateEndPut
    \/ BrokerDelivers \/ ConsumeMessage \/ TransformFails
    \/ SendAck \/ AcksEnd
    \/ LinkSends \/ (\E m \in Msgs : PeerStores(m)) \/ PeerReceipts \/ ConnectionLost
    \/ Restart \/ Crash

Spec == Init /\ [][Next]_vars

\* The event loop runs what is ready, the broker delivers, and a supervisor
\* restarts the client.  The peer confirms what it stored, and what is sent to
\* it again and again reaches it and is stored some time, though a connection
\* may end first.
Fairness ==
    /\ WF_vars(OpenChannel) /\ WF_vars(LateEndPut)
    /\ WF_vars(BrokerDelivers) /\ WF_vars(ConsumeMessage \/ TransformFails)
    /\ WF_vars(SendAck \/ AcksEnd)
    /\ WF_vars(LinkSends) /\ WF_vars(PeerReceipts) /\ \A m \in Msgs : SF_vars(PeerStores(m))
    /\ WF_vars(conn = "closing" /\ ConnectionLost)
    /\ WF_vars(Restart)

FairSpec == Spec /\ Fairness

-----------------------------------------------------------------------------
(* Properties                                                              *)

Elements(seq) == {seq[i] : i \in DOMAIN seq}

\* Messages are delivered at least once: one that is neither in the RabbitMQ
\* queue nor unacknowledged is stored by the peer, whatever process, connection
\* or broker channel failed, and though acknowledging tag t also acknowledges
\* every tag below it.
NoLoss ==
    \A m \in Msgs : m \in stored \cup Elements(Requeued)

\* send_acks never acknowledges a tag twice or out of turn, which RabbitMQ
\* answers by closing the channel: the receipts in recv_queue are ascending,
\* above the last acknowledged tag, and of messages of this channel.
AcksOutstanding ==
    \A i \in DOMAIN recvQ : phase = "run" /\ recvQ[i] # None =>
        /\ acked < recvQ[i] /\ recvQ[i] <= Len(delivered)
        /\ \A j \in 1 .. i - 1 : recvQ[j] # None /\ recvQ[j] < recvQ[i]

\* The prefetch count is what send_queue holds, so that consume_queue never
\* waits for room in it and recv_queue never holds more receipts than that.
PutFindsRoom ==
    phase = "run" =>
        /\ taken < Len(delivered) => ~SendQueueFull
        /\ Len(recvQ) <= Prefetch + (IF conn = "lost" THEN 1 ELSE 0)

ALO == INSTANCE AtLeastOnce WITH waiting <- Requeued

\* Every behaviour of the consumer is one of AtLeastOnce: whatever fails, the
\* queue loses, from its front, only messages that the peer has stored, and
\* none comes back or changes its place.
ImplementsAtLeastOnce == ALO!Spec

\* When failures cease, every message in front of the first one that
\* transform_message refuses is stored by the peer, and with no such message
\* the RabbitMQ queue is drained: pausing, the prefetch limit and restarts
\* stall nothing.
EveryMessageTransferred ==
    /\ \A m \in Msgs : (\A p \in poison : m < p) => <>(m \in stored)
    /\ poison = {} => <>[](Requeued = <<>>)

=============================================================================
