--------------------------- MODULE PublisherProofs ---------------------------
(***************************************************************************)
(* Proofs about the publisher task for every queue size and every number   *)
(* of messages.  The argument: at any time there is a base b such that the *)
(* deque of deliveries is b+1, b+2, ..., everything up to b is stored by   *)
(* the broker, and no receipt beyond b was given.  From it follow the      *)
(* properties, that Publisher implements ReceiptService, and the bound of  *)
(* its backlog.                                                            *)
(***************************************************************************)
EXTENDS Publisher, SequenceTheorems, TLAPS

\* The messages of the sequence s are c+1, c+2, ...
Run(s, c) == \A i \in 1 .. Len(s) : s[i] # None => s[i] = c + i

Holding == IF pubState = "wait" THEN 1 ELSE 0

\* The place of every message: receipted or about to be (up to b), in the deque,
\* in the hands of publish_messages, or still in recv_queue.
Places(b) ==
    /\ Run(deliveries, b)
    /\ pubState = "wait" => inHand = b + Len(deliveries) + 1
    /\ pubState # "end" =>
          /\ conn = "up" =>
                received = b + Len(deliveries) + Holding + Len(recvQueue)
          /\ Run(recvQueue, b + Len(deliveries) + Holding)

\* What the confirmations say of the broker.
Stored(b) ==
    /\ \A m \in 1 .. b : broker[m] = "stored"
    /\ \A m \in confirmed : broker[m] = "stored"
    /\ \A m \in Msgs : future[m] = "ok" => broker[m] = "stored"
    /\ \A m \in Msgs : future[m] \in {"none", "preprocess"} => broker[m] = "none"
    /\ \A m \in Msgs : m > b + Len(deliveries) =>
          future[m] = "none" /\ m \notin confirmed

\* Receipts are ascending and at most b; the task's end comes last.
Receipts(b) ==
    /\ \A i \in 1 .. Len(Out) : Out[i] \in Msgs => Out[i] <= b
    /\ rcptState = "put" =>
          /\ receiptId \in Msgs /\ receiptId <= b
          /\ \A i \in 1 .. Len(Out) : Out[i] \in Msgs => Out[i] < receiptId
    /\ \A i, j \in 1 .. Len(Out) : i < j =>
          Out[i] \in Msgs /\ (Out[j] \in Msgs => Out[i] < Out[j])
    /\ phase # "done" \/ lateEnd # NoEnd => \A i \in 1 .. Len(Out) : Out[i] \in Msgs
    /\ lateEnd # NoEnd => phase = "done"

Inv == \E b \in 0 .. MaxMsgs : Places(b) /\ Stored(b) /\ Receipts(b)

-----------------------------------------------------------------------------
(* Sequences                                                               *)

\* What the writer takes from send_queue does not change what was put in it.
LEMMA TakeKeepsOut ==
    ASSUME NEW S, NEW s \in Seq(S), NEW t \in Seq(S), t # <<>>
    PROVE  Append(s, Head(t)) \o Tail(t) = s \o t
<1>1. /\ Append(s, Head(t)) \in Seq(S) /\ Tail(t) \in Seq(S)
      /\ Len(Tail(t)) = Len(t) - 1 /\ Len(t) \in Nat \ {0} /\ Len(s) \in Nat
      /\ Len(Append(s, Head(t))) = Len(s) + 1
  OBVIOUS
<1>2. /\ Append(s, Head(t)) \o Tail(t) \in Seq(S) /\ s \o t \in Seq(S)
      /\ Len(Append(s, Head(t)) \o Tail(t)) = Len(s \o t)
  BY <1>1, ConcatProperties
<1>3. ASSUME NEW i \in 1 .. Len(s \o t)
      PROVE  (Append(s, Head(t)) \o Tail(t))[i] = (s \o t)[i]
  <2>1. CASE i <= Len(s)
    BY <1>1, <2>1, ConcatProperties
  <2>2. CASE i = Len(s) + 1
    BY <1>1, <2>2, ConcatProperties
  <2>3. CASE i > Len(s) + 1
    BY <1>1, <2>3, ConcatProperties
  <2> QED
    BY <1>1, <1>3, <2>1, <2>2, <2>3
<1> QED
  BY <1>2, <1>3, SeqEqual

\* What is put in send_queue is the last item of everything that was.
LEMMA PutExtendsOut ==
    ASSUME NEW S, NEW s \in Seq(S), NEW t \in Seq(S), NEW e \in S
    PROVE  /\ s \o t \in Seq(S)
           /\ s \o Append(t, e) \in Seq(S)
           /\ Len(s \o Append(t, e)) = Len(s \o t) + 1
           /\ \A i \in 1 .. Len(s \o t) : (s \o Append(t, e))[i] = (s \o t)[i]
           /\ (s \o Append(t, e))[Len(s \o t) + 1] = e
<1>1. Append(t, e) \in Seq(S) /\ Len(Append(t, e)) = Len(t) + 1
  OBVIOUS
<1> QED
  BY <1>1, ConcatProperties

\* What is left of the deque after n deliveries are popped.
LEMMA PopDeque ==
    ASSUME NEW S, NEW s \in Seq(S), NEW n \in 0 .. Len(s)
    PROVE  /\ SubSeq(s, n + 1, Len(s)) \in Seq(S)
           /\ Len(SubSeq(s, n + 1, Len(s))) = Len(s) - n
           /\ \A i \in 1 .. Len(s) - n : SubSeq(s, n + 1, Len(s))[i] = s[n + i]
  BY SubSeqProperties

\* Runs of consecutive messages: the next one may be appended, ...
LEMMA RunAppend ==
    ASSUME NEW s \in Seq(Int), NEW c \in Int, Run(s, c)
    PROVE  Run(Append(s, c + Len(s) + 1), c)
<1> DEFINE e == c + Len(s) + 1
<1>1. Len(s) \in Nat /\ e \in Int
  OBVIOUS
<1>2. /\ Len(Append(s, e)) = Len(s) + 1
      /\ \A i \in 1 .. Len(s) : Append(s, e)[i] = s[i]
      /\ Append(s, e)[Len(s) + 1] = e
  <2> HIDE DEF e
  <2> QED
    BY <1>1, AppendProperties
<1> QED
  BY <1>1, <1>2 DEF Run

\* ... the first one dropped, ...
LEMMA RunTail ==
    ASSUME NEW s \in Seq(Int), s # <<>>, NEW c \in Int, Run(s, c)
    PROVE  Run(Tail(s), c + 1)
<1>1. /\ Len(Tail(s)) = Len(s) - 1 /\ Len(s) \in Nat
      /\ \A i \in 1 .. Len(Tail(s)) : Tail(s)[i] = s[i + 1]
  BY HeadTailProperties
<1> QED
  BY <1>1 DEF Run

\* ... a run that continues it appended, ...
LEMMA RunConcat ==
    ASSUME NEW s \in Seq(Int), NEW t \in Seq(Int), NEW c \in Int,
           Run(s, c), Run(t, c + Len(s))
    PROVE  Run(s \o t, c)
<1>1. /\ Len(s \o t) = Len(s) + Len(t) /\ Len(s) \in Nat /\ Len(t) \in Nat
      /\ \A i \in 1 .. Len(s) + Len(t) : (s \o t)[i] =
                     IF i <= Len(s) THEN s[i] ELSE t[i - Len(s)]
  BY ConcatProperties
<1>2. ASSUME NEW i \in 1 .. Len(s \o t), (s \o t)[i] # None PROVE (s \o t)[i] = c + i
  <2>1. CASE i <= Len(s)
    BY <1>1, <1>2, <2>1 DEF Run
  <2>2. CASE i > Len(s)
    <3>1. i - Len(s) \in 1 .. Len(t) /\ (s \o t)[i] = t[i - Len(s)]
      BY <1>1, <2>2
    <3> QED
      BY <1>1, <1>2, <3>1 DEF Run
  <2> QED
    BY <1>1, <2>1, <2>2
<1> QED
  BY <1>2 DEF Run

\* ... and the first n popped.
LEMMA RunPop ==
    ASSUME NEW s \in Seq(Int), NEW c \in Int, Run(s, c), NEW n \in 0 .. Len(s)
    PROVE  Run(SubSeq(s, n + 1, Len(s)), c + n)
<1>1. /\ Len(SubSeq(s, n + 1, Len(s))) = Len(s) - n
      /\ \A i \in 1 .. Len(s) - n : SubSeq(s, n + 1, Len(s))[i] = s[n + i]
  BY PopDeque
<1> QED
  BY <1>1 DEF Run

-----------------------------------------------------------------------------
(* Type correctness                                                        *)

\* TypeOK is inductive once publish_messages is known to hold a message, and not
\* None, while it waits for the window.
TypeInv == TypeOK /\ (pubState = "wait" => inHand \in Msgs)

\* A receipt, None or a ServerError may be put in send_queue.
LEMMA PutType ==
    ASSUME TypeOK, NEW e \in Msgs \cup {None, Error}
    PROVE  Append(sendQueue, e) \in Seq(Msgs \cup {None, Error})
  BY DEF TypeOK

LEMMA TypeInit == Init => TypeInv
<1> SUFFICES ASSUME Init PROVE TypeInv
  OBVIOUS
<1>1. future \in [Msgs -> FutureStates] /\ broker \in [Msgs -> {"none", "wire", "stored"}]
  BY DEF Init, FutureStates
<1>2. /\ recvQueue \in Seq(Msgs \cup {None}) /\ deliveries \in Seq(Msgs)
      /\ sendQueue \in Seq(Msgs \cup {None, Error})
      /\ sent \in Seq(Msgs \cup {None, Error})
  BY DEF Init
<1>3. received \in 0 .. MaxMsgs /\ confirmed \in SUBSET Msgs /\ drainSet \in SUBSET Msgs
  BY BoundAssumption DEF Init
<1>4. paused \in BOOLEAN /\ canMake \in BOOLEAN /\ hasConfirmed \in BOOLEAN
  BY DEF Init
<1>5. outcome \in {None, Error} /\ lateEnd \in {NoEnd, None, Error}
  BY DEF Init
<1> QED
  BY <1>1, <1>2, <1>3, <1>4, <1>5 DEF Init, TypeInv, TypeOK

LEMMA TypeNext == TypeInv /\ [Next]_vars => TypeInv'
<1> SUFFICES ASSUME TypeInv, [Next]_vars PROVE TypeInv'
  OBVIOUS
<1> USE QueueAssumption, BoundAssumption
<1> USE DEF TypeInv, TypeOK, envVars, pubVars, rcptVars, futVars, endVars
<1>1. CASE Receive
  <2>1. PICK n \in 1 .. MaxChunk :
           /\ received + n <= MaxMsgs
           /\ received' = received + n
           /\ PutNowait([i \in 1 .. n |-> received + i])
    BY <1>1 DEF Receive
  <2>2. [i \in 1 .. n |-> received + i] \in Seq(Msgs \cup {None})
    BY <2>1 DEF Msgs
  <2>3. recvQueue' \in Seq(Msgs \cup {None}) /\ paused' \in BOOLEAN
    BY <2>1, <2>2 DEF PutNowait
  <2> QED
    BY <1>1, <2>1, <2>3 DEF Receive
<1>2. CASE ConnectionLost
  BY <1>2 DEF ConnectionLost, PutNowait
<1>3. CASE WriterGet
  BY <1>3 DEF WriterGet
<1>4. CASE PublishMessage
  <2>1. Head(recvQueue) \in Msgs /\ recvQueue' \in Seq(Msgs \cup {None})
    BY <1>4 DEF PublishMessage
  <2>2. /\ deliveries' \in Seq(Msgs) /\ canMake' \in BOOLEAN
        /\ future' \in [Msgs -> FutureStates] /\ paused' \in BOOLEAN
    BY <1>4, <2>1 DEF PublishMessage, StartDelivery, TaskDone, FutureStates, Running
  <2> QED
    BY <1>4, <2>1, <2>2 DEF PublishMessage
<1>5. CASE PublishBlocks
  BY <1>5 DEF PublishBlocks
<1>6. CASE PublishResumes
  <2>1. /\ deliveries' \in Seq(Msgs) /\ canMake' \in BOOLEAN
        /\ future' \in [Msgs -> FutureStates] /\ paused' \in BOOLEAN
    BY <1>6 DEF PublishResumes, StartDelivery, TaskDone, FutureStates, Running
  <2> QED
    BY <1>6, <2>1 DEF PublishResumes
<1>7. CASE PublishEnds
  <2>1. /\ recvQueue' \in Seq(Msgs \cup {None})
        /\ drainSet' \in SUBSET Msgs /\ future' \in [Msgs -> FutureStates]
        /\ phase' \in {"open", "run", "drain", "done"} /\ outcome' \in {None, Error}
    BY <1>7 DEF PublishEnds, EnterFinally, FutureStates, Running
  <2> QED
    BY <1>7, <2>1 DEF PublishEnds
<1>8. ASSUME NEW m \in Msgs, Deliver(m) \/ BrokerStores(m) PROVE TypeInv'
  <2>1. CASE PreprocessOk(m)
    BY <2>1 DEF PreprocessOk, FutureStates, Running
  <2>2. CASE PublishConfirmed(m)
    BY <2>2 DEF PublishConfirmed, FutureStates, Ended
  <2>3. CASE DeliveryFails(m)
    BY <2>3 DEF DeliveryFails, FutureStates, Ended
  <2>4. CASE OnConfirmation(m)
    <3>1. future' \in [Msgs -> FutureStates]
      BY <2>4 DEF OnConfirmation, FutureStates
    <3>2. /\ confirmed' \in SUBSET Msgs /\ hasConfirmed' \in BOOLEAN
          /\ failure' \in {"none", "error", "cancelled"}
      BY <2>4 DEF OnConfirmation, Ended
    <3> QED
      BY <2>4, <3>1, <3>2 DEF OnConfirmation
  <2>5. CASE BrokerStores(m)
    BY <2>5 DEF BrokerStores
  <2> QED
    BY <1>8, <2>1, <2>2, <2>3, <2>4, <2>5 DEF Deliver
<1>9. CASE SendReceipts
  <2>1. PICK n \in 0 .. Len(deliveries) :
           /\ deliveries' = AfterPop(n)
           /\ IF n = 0
              THEN UNCHANGED <<canMake, rcptVars, sendQueue>>
              ELSE /\ canMake' = (canMake \/ Len(deliveries) - n < MaxParallel)
                   /\ IF SendQueueFull
                      THEN /\ rcptState' = "put"
                           /\ receiptId' = deliveries[n]
                           /\ UNCHANGED sendQueue
                      ELSE /\ sendQueue' = Append(sendQueue, deliveries[n])
                           /\ UNCHANGED rcptVars
    BY <1>9 DEF SendReceipts
  <2>2. deliveries' \in Seq(Msgs)
    BY <2>1, PopDeque DEF AfterPop
  <2>3. n # 0 => deliveries[n] \in Msgs
    OBVIOUS
  <2>4. /\ canMake' \in BOOLEAN /\ rcptState' \in {"wait", "put", "end"}
        /\ receiptId' \in Msgs \cup {None}
        /\ sendQueue' \in Seq(Msgs \cup {None, Error})
    BY <2>1, <2>3, PutType
  <2> QED
    BY <1>9, <2>2, <2>4, ZenonT(60) DEF SendReceipts
<1>10. CASE ReceiptPut
  BY <1>10 DEF ReceiptPut
<1>11. CASE OpenChannel
  BY <1>11 DEF OpenChannel
<1>12. CASE OpenChannelFails
  <2>1. /\ sendQueue' \in Seq(Msgs \cup {None, Error})
        /\ lateEnd' \in {NoEnd, None, Error}
    BY <1>12, PutType DEF OpenChannelFails, TerminateQueue
  <2> QED
    BY <1>12, <2>1 DEF OpenChannelFails
<1>13. CASE ReportFailure
  BY <1>13 DEF ReportFailure, EnterFinally, FutureStates, Running
<1>14. CASE Finish
  <2>1. /\ sendQueue' \in Seq(Msgs \cup {None, Error})
        /\ lateEnd' \in {NoEnd, None, Error}
    BY <1>14, PutType DEF Finish, TerminateQueue
  <2> QED
    BY <1>14, <2>1 DEF Finish
<1>15. CASE LateEndPut
  BY <1>15 DEF LateEndPut
<1>16. CASE UNCHANGED vars
  BY <1>16 DEF vars
<1> QED
  BY <1>1, <1>2, <1>3, <1>4, <1>5, <1>6, <1>7, <1>8, <1>9, <1>10, <1>11, <1>12,
     <1>13, <1>14, <1>15, <1>16 DEF Next, Coroutines

\* The variables of the publisher keep their types, for every queue size: what
\* is put in send_queue is a message's receipt, None or a ServerError.
THEOREM TypeCorrect == Spec => []TypeOK
<1>1. Init => TypeInv
  BY TypeInit
<1>2. TypeInv /\ [Next]_vars => TypeInv'
  BY TypeNext
<1>3. TypeInv => TypeOK
  BY DEF TypeInv
<1> QED
  BY <1>1, <1>2, <1>3, PTL DEF Spec

-----------------------------------------------------------------------------
(* Where the messages are                                                  *)

LEMMA PlacesStep ==
    ASSUME TypeInv, NEW b \in 0 .. MaxMsgs, Places(b), [Next]_vars, ~SendReceipts
    PROVE  Places(b)'
<1> USE DEF envVars, pubVars, rcptVars, futVars, endVars
<1>0. /\ recvQueue \in Seq(Int) /\ deliveries \in Seq(Int)
      /\ received \in Int /\ inHand \in Int /\ b \in Int /\ None \in Int
      /\ Len(recvQueue) \in Nat /\ Len(deliveries) \in Nat
  BY BoundAssumption DEF TypeInv, TypeOK, Msgs, None
<1> DEFINE d == Len(deliveries)
<1>1. CASE Receive
  <2>1. PICK n \in 1 .. MaxChunk :
           /\ received' = received + n
           /\ PutNowait([i \in 1 .. n |-> received + i])
    BY <1>1 DEF Receive
  <2> DEFINE new == [i \in 1 .. n |-> received + i]
  <2>2. new \in Seq(Int) /\ Len(new) = n /\ n \in Nat
    BY <1>0, BoundAssumption
  <2>3. Run(new, received)
    BY <1>0, <2>2 DEF Run
  <2>4. /\ UNCHANGED <<conn, pubState, inHand, deliveries>> /\ conn = "up"
        /\ recvQueue' = recvQueue \o new
    BY <1>1, <2>1 DEF Receive, PutNowait
  <2>5. CASE pubState # "end"
    <3>1. received = b + d + Holding + Len(recvQueue) /\ Run(recvQueue, b + d + Holding)
      BY <2>4, <2>5 DEF Places
    <3>2. b + d + Holding \in Int
      BY <1>0 DEF Holding
    <3> HIDE DEF new
    <3>3. Run(recvQueue', b + d + Holding)
      BY <1>0, <2>2, <2>3, <2>4, <3>1, <3>2, RunConcat
    <3>4. Len(recvQueue') = Len(recvQueue) + n
      BY <1>0, <2>2, <2>4, ConcatProperties
    <3> QED
      BY <1>0, <2>1, <2>2, <2>4, <3>1, <3>3, <3>4 DEF Places, Holding
  <2> QED
    BY <2>4, <2>5 DEF Places, Holding
<1>2. CASE ConnectionLost
  <2>1. /\ recvQueue' = recvQueue \o <<None>> /\ conn' = "lost"
        /\ UNCHANGED <<pubState, inHand, deliveries, received>>
    BY <1>2 DEF ConnectionLost, PutNowait
  <2>2. <<None>> \in Seq(Int) /\ Run(<<None>>, b + d + Holding + Len(recvQueue))
    BY <1>0 DEF Run
  <2>3. b + d + Holding \in Int
    BY <1>0 DEF Holding
  <2>4. Run(recvQueue, b + d + Holding) => Run(recvQueue', b + d + Holding)
    BY <1>0, <2>1, <2>2, <2>3, RunConcat
  <2> QED
    BY <2>1, <2>4 DEF Places, Holding
<1>3. CASE PublishMessage
  <2>1. /\ recvQueue # <<>> /\ Head(recvQueue) # None
        /\ pubState = "get" /\ pubState' = "get"
        /\ recvQueue' = Tail(recvQueue)
        /\ deliveries' = Append(deliveries, Head(recvQueue))
        /\ UNCHANGED <<conn, received, inHand>>
    BY <1>3 DEF PublishMessage, StartDelivery
  <2>2. Run(deliveries, b) /\ Run(recvQueue, b + d)
    BY <1>0, <2>1 DEF Places, Holding
  <2>3. Head(recvQueue) = b + d + 1
    BY <1>0, <2>1, <2>2 DEF Run
  <2>4. Run(deliveries', b) /\ Len(deliveries') = d + 1
    BY <1>0, <2>1, <2>2, <2>3, RunAppend
  <2>5. Run(recvQueue', b + d + 1) /\ Len(recvQueue') = Len(recvQueue) - 1
    BY <1>0, <2>1, <2>2, RunTail
  <2>6. b + Len(deliveries)' + Holding' = b + d + 1
    BY <1>0, <2>1, <2>4 DEF Holding
  <2>7. conn = "up" => received = b + d + 1 + (Len(recvQueue) - 1)
    BY <1>0, <2>1 DEF Places, Holding
  <2> QED
    BY <2>1, <2>4, <2>5, <2>6, <2>7 DEF Places
<1>4. CASE PublishBlocks
  <2>1. /\ recvQueue # <<>> /\ Head(recvQueue) # None
        /\ pubState = "get" /\ pubState' = "wait"
        /\ recvQueue' = Tail(recvQueue) /\ inHand' = Head(recvQueue)
        /\ UNCHANGED <<conn, received, deliveries>>
    BY <1>4 DEF PublishBlocks
  <2>2. Run(deliveries, b) /\ Run(recvQueue, b + d)
    BY <1>0, <2>1 DEF Places, Holding
  <2>3. inHand' = b + d + 1
    BY <1>0, <2>1, <2>2 DEF Run
  <2>4. Run(recvQueue', b + d + 1) /\ Len(recvQueue') = Len(recvQueue) - 1
    BY <1>0, <2>1, <2>2, RunTail
  <2>5. b + Len(deliveries)' + Holding' = b + d + 1
    BY <1>0, <2>1 DEF Holding
  <2>6. conn = "up" => received = b + d + 1 + (Len(recvQueue) - 1)
    BY <1>0, <2>1 DEF Places, Holding
  <2> QED
    BY <2>1, <2>2, <2>3, <2>4, <2>5, <2>6 DEF Places
<1>5. CASE PublishResumes
  <2>1. /\ pubState = "wait" /\ pubState' = "get"
        /\ deliveries' = Append(deliveries, inHand)
        /\ UNCHANGED <<conn, received, recvQueue>>
    BY <1>5 DEF PublishResumes, StartDelivery
  <2>2. Run(deliveries, b) /\ inHand = b + d + 1 /\ Run(recvQueue, b + d + 1)
    BY <1>0, <2>1 DEF Places, Holding
  <2>3. Run(deliveries', b) /\ Len(deliveries') = d + 1
    BY <1>0, <2>1, <2>2, RunAppend
  <2> QED
    BY <1>0, <2>1, <2>2, <2>3 DEF Places, Holding
<1>6. CASE PublishEnds
  BY <1>6 DEF PublishEnds, Places
<1>7. CASE Finish
  BY <1>7 DEF Finish, Places
<1>8. CASE UNCHANGED <<received, conn, pubState, inHand, deliveries, recvQueue>>
  BY <1>8 DEF Places, Holding
<1>9. \/ Receive \/ ConnectionLost \/ PublishMessage \/ PublishBlocks
      \/ PublishResumes \/ PublishEnds \/ Finish
      \/ UNCHANGED <<received, conn, pubState, inHand, deliveries, recvQueue>>
  <2>1. ASSUME NEW m \in Msgs, Deliver(m) \/ BrokerStores(m)
        PROVE  UNCHANGED <<received, conn, pubState, inHand, deliveries, recvQueue>>
    BY <2>1 DEF Deliver, PreprocessOk, PublishConfirmed, DeliveryFails,
                OnConfirmation, BrokerStores
  <2> QED
    BY <2>1 DEF Next, Coroutines, WriterGet, ReceiptPut, OpenChannel,
                OpenChannelFails, ReportFailure, LateEndPut, vars
<1> QED
  BY <1>1, <1>2, <1>3, <1>4, <1>5, <1>6, <1>7, <1>8, <1>9

-----------------------------------------------------------------------------
(* What the broker stored                                                  *)

LEMMA StoredStep ==
    ASSUME TypeInv, NEW b \in 0 .. MaxMsgs, Places(b), Stored(b), [Next]_vars,
           ~SendReceipts
    PROVE  Stored(b)'
<1> USE DEF envVars, pubVars, rcptVars, futVars, endVars
<1>0. /\ future \in [Msgs -> FutureStates] /\ broker \in [Msgs -> {"none", "wire", "stored"}]
      /\ confirmed \in SUBSET Msgs
      /\ deliveries \in Seq(Msgs) /\ Len(deliveries) \in Nat
      /\ b \in Int /\ Msgs \subseteq Int /\ 1 .. b \subseteq Msgs
  BY BoundAssumption DEF TypeInv, TypeOK, Msgs
\* A delivery that starts is the one after the last of the deque.
<1>1. ASSUME NEW m, m = b + Len(deliveries) + 1, m \in Msgs,
             deliveries' = Append(deliveries, m),
             future' = [future EXCEPT ![m] = "preprocess"],
             UNCHANGED <<broker, confirmed>>
      PROVE  Stored(b)'
  <2>1. Len(deliveries') = Len(deliveries) + 1
    BY <1>0, <1>1
  <2>2. \A k \in Msgs : k # m => future'[k] = future[k]
    BY <1>0, <1>1
  <2>3. future'[m] = "preprocess"
    BY <1>0, <1>1
  <2> QED
    BY <1>0, <1>1, <2>1, <2>2, <2>3 DEF Stored
<1>2. CASE PublishMessage
  <2>1. /\ recvQueue # <<>> /\ Head(recvQueue) # None /\ pubState = "get"
        /\ deliveries' = Append(deliveries, Head(recvQueue))
        /\ future' = [future EXCEPT ![Head(recvQueue)] = "preprocess"]
        /\ UNCHANGED <<broker, confirmed>>
    BY <1>2 DEF PublishMessage, StartDelivery
  <2>2. Head(recvQueue) = b + Len(deliveries) + 1
    BY <1>0, <2>1 DEF Places, Holding, Run, TypeInv, TypeOK
  <2>3. Head(recvQueue) \in Msgs
    BY <2>1 DEF TypeInv, TypeOK
  <2> QED
    BY <1>1, <2>1, <2>2, <2>3
<1>3. CASE PublishResumes
  <2>1. /\ pubState = "wait"
        /\ deliveries' = Append(deliveries, inHand)
        /\ future' = [future EXCEPT ![inHand] = "preprocess"]
        /\ UNCHANGED <<broker, confirmed>>
    BY <1>3 DEF PublishResumes, StartDelivery
  <2>2. inHand = b + Len(deliveries) + 1 /\ inHand \in Msgs
    BY <2>1 DEF Places, TypeInv
  <2> QED
    BY <1>1, <2>1, <2>2
<1>4. ASSUME NEW m \in Msgs, Deliver(m) \/ BrokerStores(m) PROVE Stored(b)'
  <2>1. UNCHANGED deliveries
    BY <1>4 DEF Deliver, PreprocessOk, PublishConfirmed, DeliveryFails,
                OnConfirmation, BrokerStores
  <2>2. CASE PreprocessOk(m)
    BY <1>0, <2>1, <2>2 DEF PreprocessOk, Stored
  <2>3. CASE PublishConfirmed(m)
    BY <1>0, <2>1, <2>3 DEF PublishConfirmed, Stored
  <2>4. CASE DeliveryFails(m)
    BY <1>0, <2>1, <2>4 DEF DeliveryFails, Stored, Running
  <2>5. CASE OnConfirmation(m)
    BY <1>0, <2>1, <2>5 DEF OnConfirmation, Stored, Ended
  <2>6. CASE BrokerStores(m)
    BY <1>0, <2>1, <2>6 DEF BrokerStores, Stored
  <2> QED
    BY <1>4, <2>2, <2>3, <2>4, <2>5, <2>6 DEF Deliver
<1>5. ASSUME EnterFinally(None) \/ EnterFinally(Error),
             UNCHANGED <<deliveries, broker, confirmed>>
      PROVE  Stored(b)'
  <2>1. \A m \in Msgs : future'[m] = IF future[m] \in Running THEN "cancelling"
                                     ELSE future[m]
    BY <1>5 DEF EnterFinally
  <2> QED
    BY <1>0, <1>5, <2>1 DEF Stored, Running
<1>6. CASE PublishEnds
  <2>1. CASE phase = "run"
    BY <1>5, <1>6, <2>1 DEF PublishEnds
  <2>2. CASE phase # "run"
    BY <1>6, <2>2 DEF PublishEnds, Stored
  <2> QED
    BY <2>1, <2>2
<1>7. CASE ReportFailure
  BY <1>5, <1>7 DEF ReportFailure
<1>8. CASE UNCHANGED <<deliveries, future, broker, confirmed>>
  BY <1>8 DEF Stored
<1>9. CASE \/ Receive \/ ConnectionLost \/ WriterGet \/ PublishBlocks \/ ReceiptPut
           \/ OpenChannel \/ OpenChannelFails \/ Finish \/ LateEndPut
           \/ UNCHANGED vars
  BY <1>8, <1>9 DEF Receive, ConnectionLost, WriterGet, PublishBlocks, ReceiptPut,
                    OpenChannel, OpenChannelFails, Finish, LateEndPut, vars
<1> QED
  BY <1>2, <1>3, <1>4, <1>6, <1>7, <1>9 DEF Next, Coroutines

-----------------------------------------------------------------------------
(* The receipts                                                            *)

LEMMA OutType == TypeOK => Out \in Seq(Msgs \cup {None, Error}) /\ Len(Out) \in Nat
  BY ConcatProperties DEF TypeOK, Out

\* Neither of the ends is a message.
LEMMA EndsNotMsgs == None \notin Msgs /\ Error \notin Msgs
  BY BoundAssumption DEF None, Error, Msgs

\* One more item e behind receipts only, above all of them if it is a receipt.
LEMMA AscendAppend ==
    ASSUME NEW o, NEW p, NEW e, Len(o) \in Nat, Len(p) = Len(o) + 1,
           \A i \in 1 .. Len(o) : p[i] = o[i] /\ o[i] \in Msgs,
           p[Len(o) + 1] = e,
           e \in Msgs => \A i \in 1 .. Len(o) : o[i] < e,
           \A i, j \in 1 .. Len(o) : i < j => o[i] < o[j]
    PROVE  \A i, j \in 1 .. Len(p) : i < j =>
               p[i] \in Msgs /\ (p[j] \in Msgs => p[i] < p[j])
<1> SUFFICES ASSUME NEW i \in 1 .. Len(p), NEW j \in 1 .. Len(p), i < j
             PROVE  p[i] \in Msgs /\ (p[j] \in Msgs => p[i] < p[j])
  OBVIOUS
<1>1. i \in 1 .. Len(o)
  OBVIOUS
<1>2. CASE j \in 1 .. Len(o)
  BY <1>1, <1>2
<1>3. CASE j = Len(o) + 1
  BY <1>1, <1>3
<1> QED
  BY <1>2, <1>3

\* The put of e in send_queue, as a step of Out.
LEMMA PutStep ==
    ASSUME TypeOK, NEW e \in Msgs \cup {None, Error},
           sendQueue' = Append(sendQueue, e), sent' = sent
    PROVE  /\ Len(Out') = Len(Out) + 1 /\ Out'[Len(Out) + 1] = e
           /\ \A i \in 1 .. Len(Out) : Out'[i] = Out[i]
<1>1. /\ sent \in Seq(Msgs \cup {None, Error})
      /\ sendQueue \in Seq(Msgs \cup {None, Error})
  BY DEF TypeOK
<1>2. Out' = sent \o Append(sendQueue, e)
  BY DEF Out
<1> QED
  BY <1>1, <1>2, PutExtendsOut DEF Out

LEMMA ReceiptsStep ==
    ASSUME TypeInv, NEW b \in 0 .. MaxMsgs, Receipts(b), [Next]_vars, ~SendReceipts
    PROVE  Receipts(b)'
<1> USE DEF envVars, pubVars, rcptVars, futVars, endVars
<1>0. TypeOK /\ Len(Out) \in Nat
  BY OutType DEF TypeInv
\* Nothing is put, and a blocked receipt stays blocked or is dropped.
<1>1. ASSUME Out' = Out, UNCHANGED lateEnd,
             UNCHANGED rcptVars \/ rcptState' = "end",
             UNCHANGED phase \/ (phase # "done" /\ phase' # "done")
      PROVE  Receipts(b)'
  BY <1>1 DEF Receipts
\* The end of the task is put, or left to the task of terminate_queue.
<1>2. ASSUME NEW e \in {None, Error}, TerminateQueue(e), UNCHANGED sent,
             phase # "done", phase' = "done", UNCHANGED rcptVars \/ rcptState' = "end"
      PROVE  Receipts(b)'
  <2>1. \A i \in 1 .. Len(Out) : Out[i] \in Msgs
    BY <1>2 DEF Receipts
  <2>2. lateEnd = NoEnd
    BY <1>2 DEF Receipts
  <2>3. CASE sendQueue' = Append(sendQueue, e) /\ UNCHANGED lateEnd
    <3>1. /\ Len(Out') = Len(Out) + 1 /\ Out'[Len(Out) + 1] = e
          /\ \A i \in 1 .. Len(Out) : Out'[i] = Out[i]
      BY <1>0, <1>2, <2>3, PutStep
    <3>2. \A i, j \in 1 .. Len(Out') : i < j =>
              Out'[i] \in Msgs /\ (Out'[j] \in Msgs => Out'[i] < Out'[j])
      BY <1>0, <1>2, <2>1, <3>1, EndsNotMsgs, AscendAppend DEF Receipts
    <3> QED
      BY <1>0, <1>2, <2>2, <2>3, <3>1, <3>2, EndsNotMsgs DEF Receipts
  <2>4. CASE lateEnd' = e /\ UNCHANGED sendQueue
    BY <1>2, <2>1, <2>4 DEF Receipts, Out
  <2> QED
    BY <1>2, <2>3, <2>4 DEF TerminateQueue
<1>3. CASE WriterGet
  <2>1. Out' = Append(sent, Head(sendQueue)) \o Tail(sendQueue)
    BY <1>3 DEF WriterGet, Out
  <2>2. Out' = Out
    BY <1>0, <1>3, <2>1, TakeKeepsOut DEF WriterGet, Out, TypeOK
  <2> QED
    BY <1>1, <1>3, <2>2 DEF WriterGet
<1>4. CASE ReceiptPut
  <2>1. /\ sendQueue' = Append(sendQueue, receiptId) /\ UNCHANGED <<sent, phase, lateEnd>>
        /\ rcptState = "put" /\ rcptState' = "wait" /\ phase # "done"
    BY <1>4 DEF ReceiptPut
  <2>2. /\ receiptId \in Msgs /\ receiptId <= b
        /\ \A i \in 1 .. Len(Out) : Out[i] \in Msgs /\ Out[i] < receiptId
    BY <2>1 DEF Receipts
  <2>3. /\ Len(Out') = Len(Out) + 1 /\ Out'[Len(Out) + 1] = receiptId
        /\ \A i \in 1 .. Len(Out) : Out'[i] = Out[i]
    BY <1>0, <2>1, <2>2, PutStep
  <2>4. \A i, j \in 1 .. Len(Out') : i < j =>
            Out'[i] \in Msgs /\ (Out'[j] \in Msgs => Out'[i] < Out'[j])
    BY <1>0, <2>2, <2>3, AscendAppend DEF Receipts
  <2> QED
    BY <1>0, <2>1, <2>2, <2>3, <2>4 DEF Receipts
<1>5. CASE LateEndPut
  <2>1. /\ sendQueue' = Append(sendQueue, lateEnd) /\ lateEnd # NoEnd /\ lateEnd' = NoEnd
        /\ UNCHANGED <<sent, phase, rcptState, receiptId>>
    BY <1>5 DEF LateEndPut
  <2>2. /\ lateEnd \in {None, Error} /\ phase = "done"
        /\ \A i \in 1 .. Len(Out) : Out[i] \in Msgs
    BY <1>0, <2>1 DEF Receipts, TypeOK
  <2>3. /\ Len(Out') = Len(Out) + 1 /\ Out'[Len(Out) + 1] = lateEnd
        /\ \A i \in 1 .. Len(Out) : Out'[i] = Out[i]
    BY <1>0, <2>1, <2>2, PutStep
  <2>4. \A i, j \in 1 .. Len(Out') : i < j =>
            Out'[i] \in Msgs /\ (Out'[j] \in Msgs => Out'[i] < Out'[j])
    BY <1>0, <2>2, <2>3, EndsNotMsgs, AscendAppend DEF Receipts
  <2> QED
    BY <1>0, <2>1, <2>2, <2>3, <2>4, EndsNotMsgs DEF Receipts
<1>6. CASE OpenChannelFails
  BY <1>2, <1>6 DEF OpenChannelFails
<1>7. CASE Finish
  BY <1>0, <1>2, <1>7 DEF Finish, TypeOK
<1>8. CASE PublishEnds
  BY <1>1, <1>8 DEF PublishEnds, EnterFinally, Out
<1>9. CASE OpenChannel \/ ReportFailure
  BY <1>1, <1>9 DEF OpenChannel, ReportFailure, EnterFinally, Out
<1>10. CASE \/ Receive \/ ConnectionLost \/ PublishMessage \/ PublishBlocks
            \/ PublishResumes \/ UNCHANGED vars
  <2>1. CASE Receive \/ ConnectionLost
    BY <1>1, <2>1 DEF Receive, ConnectionLost, Out
  <2>2. CASE PublishMessage \/ PublishBlocks
    BY <1>1, <2>2 DEF PublishMessage, PublishBlocks, Out
  <2>3. CASE PublishResumes
    BY <1>1, <2>3 DEF PublishResumes, Out
  <2>4. CASE UNCHANGED vars
    BY <1>1, <2>4 DEF vars, Out
  <2> QED
    BY <1>10, <2>1, <2>2, <2>3, <2>4
<1>11. ASSUME NEW m \in Msgs, Deliver(m) \/ BrokerStores(m) PROVE Receipts(b)'
  <2>1. CASE PreprocessOk(m)
    BY <1>1, <2>1 DEF PreprocessOk, Out
  <2>2. CASE PublishConfirmed(m)
    BY <1>1, <2>2 DEF PublishConfirmed, Out
  <2>3. CASE DeliveryFails(m)
    BY <1>1, <2>3 DEF DeliveryFails, Out
  <2>4. CASE OnConfirmation(m)
    BY <1>1, <2>4 DEF OnConfirmation, Out
  <2>5. CASE BrokerStores(m)
    BY <1>1, <2>5 DEF BrokerStores, Out
  <2> QED
    BY <1>11, <2>1, <2>2, <2>3, <2>4, <2>5 DEF Deliver
<1> QED
  BY <1>3, <1>4, <1>5, <1>6, <1>7, <1>8, <1>9, <1>10, <1>11 DEF Next, Coroutines

\* send_receipts moves the base past the confirmed prefix that it pops.
LEMMA SendReceiptsStep ==
    ASSUME TypeInv, NEW b \in 0 .. MaxMsgs, Places(b), Stored(b), Receipts(b),
           SendReceipts
    PROVE  \E c \in 0 .. MaxMsgs : Places(c)' /\ Stored(c)' /\ Receipts(c)'
<1> USE DEF envVars, pubVars, rcptVars, futVars, endVars
<1>0. /\ TypeOK /\ Len(Out) \in Nat /\ Len(deliveries) \in Nat
      /\ deliveries \in Seq(Msgs) /\ deliveries \in Seq(Int) /\ b \in Int
      /\ Len(recvQueue) \in Nat /\ 0 \notin Msgs /\ MaxMsgs \in Nat /\ Msgs \subseteq Int
  BY OutType, BoundAssumption DEF TypeInv, TypeOK, Msgs
<1>1. PICK n \in 0 .. Len(deliveries) :
         /\ ConfirmedPrefix(n)
         /\ deliveries' = AfterPop(n)
         /\ IF n = 0
            THEN UNCHANGED <<canMake, rcptVars, sendQueue>>
            ELSE /\ canMake' = (canMake \/ Len(deliveries) - n < MaxParallel)
                 /\ IF SendQueueFull
                    THEN /\ rcptState' = "put"
                         /\ receiptId' = deliveries[n]
                         /\ UNCHANGED sendQueue
                    ELSE /\ sendQueue' = Append(sendQueue, deliveries[n])
                         /\ UNCHANGED rcptVars
  BY DEF SendReceipts
<1>2. /\ UNCHANGED <<received, conn, recvQueue, pubState, inHand, sent, phase, lateEnd>>
      /\ UNCHANGED <<broker, confirmed, future>>
      /\ phase # "done" /\ rcptState = "wait"
  BY DEF SendReceipts
<1>3. n \in Nat /\ \A i \in 1 .. n : deliveries[i] \in Msgs /\ deliveries[i] = b + i
  <2>1. n \in Nat
    BY <1>0
  <2>2. ASSUME NEW i \in 1 .. n PROVE deliveries[i] \in Msgs /\ deliveries[i] = b + i
    <3>1. i \in 1 .. Len(deliveries)
      BY <1>0
    <3>2. deliveries[i] \in Msgs
      BY <1>0, <3>1
    <3>3. deliveries[i] # None
      BY <1>0, <3>2 DEF None
    <3> QED
      BY <3>1, <3>2, <3>3 DEF Places, Run
  <2> QED
    BY <2>1, <2>2
<1>4. b + n \in 0 .. MaxMsgs
  <2>1. CASE n = 0
    BY <1>0, <2>1
  <2>2. CASE n # 0
    <3>1. deliveries[n] \in Msgs /\ deliveries[n] = b + n
      BY <1>3, <2>2
    <3> QED
      BY <1>0, <3>1 DEF Msgs
  <2> QED
    BY <2>1, <2>2
<1>5. Len(deliveries') = Len(deliveries) - n
  BY <1>0, <1>1, PopDeque DEF AfterPop
<1>6. Places(b + n)'
  <2>1. Run(deliveries', b + n)
    BY <1>0, <1>1, RunPop DEF AfterPop, Places
  <2>2. b + n + Len(deliveries') = b + Len(deliveries) /\ Holding' = Holding
    BY <1>0, <1>2, <1>3, <1>5 DEF Holding
  <2> QED
    BY <1>2, <2>1, <2>2 DEF Places
<1>7. Stored(b + n)'
  <2>1. \A m \in 1 .. b + n : broker[m] = "stored"
    <3> SUFFICES ASSUME NEW m \in 1 .. b + n PROVE broker[m] = "stored"
      OBVIOUS
    <3>1. CASE m <= b
      BY <1>0, <3>1 DEF Stored
    <3>2. CASE m > b
      <4>1. m - b \in 1 .. n /\ deliveries[m - b] = m
        BY <1>0, <1>3, <3>2
      <4>2. m \in confirmed
        BY <1>1, <4>1 DEF ConfirmedPrefix
      <4> QED
        BY <4>2 DEF Stored
    <3> QED
      BY <1>0, <1>3, <3>1, <3>2
  <2>2. b + n + Len(deliveries') = b + Len(deliveries)
    BY <1>0, <1>3, <1>5
  <2> QED
    BY <1>2, <2>1, <2>2 DEF Stored
<1>8. Receipts(b + n)'
  <2>1. \A i \in 1 .. Len(Out) : Out[i] \in Msgs /\ Out[i] <= b /\ Out[i] \in Int
    BY <1>0, <1>2 DEF Receipts
  <2>2. CASE n = 0
    BY <1>0, <1>1, <1>2, <2>2 DEF Receipts, Out
  <2>3. CASE n # 0 /\ UNCHANGED sendQueue /\ receiptId' = deliveries[n]
    <3>1. Out' = Out /\ receiptId' \in Msgs /\ receiptId' = b + n
      BY <1>2, <1>3, <2>3 DEF Out
    <3> QED
      BY <1>0, <1>2, <1>3, <2>1, <2>3, <3>1 DEF Receipts
  <2>4. CASE n # 0 /\ sendQueue' = Append(sendQueue, deliveries[n]) /\ UNCHANGED rcptVars
    <3>1. deliveries[n] \in Msgs /\ deliveries[n] = b + n
      BY <1>3, <2>4
    <3>2. /\ Len(Out') = Len(Out) + 1 /\ Out'[Len(Out) + 1] = deliveries[n]
          /\ \A i \in 1 .. Len(Out) : Out'[i] = Out[i]
      BY <1>0, <1>2, <2>4, <3>1, PutStep
    <3>3. \A i \in 1 .. Len(Out) : Out[i] < deliveries[n]
      BY <1>0, <1>3, <2>1, <2>4, <3>1
    <3>4. \A i, j \in 1 .. Len(Out') : i < j =>
              Out'[i] \in Msgs /\ (Out'[j] \in Msgs => Out'[i] < Out'[j])
      BY <1>0, <2>1, <3>2, <3>3, AscendAppend DEF Receipts
    <3>5. \A i \in 1 .. Len(Out') : Out'[i] \in Msgs /\ Out'[i] <= b + n
      <4> SUFFICES ASSUME NEW i \in 1 .. Len(Out')
                   PROVE  Out'[i] \in Msgs /\ Out'[i] <= b + n
        OBVIOUS
      <4>1. CASE i \in 1 .. Len(Out)
        <5>1. Out'[i] = Out[i]
          BY <3>2, <4>1
        <5>2. Out[i] \in Msgs /\ Out[i] <= b /\ Out[i] \in Int
          BY <2>1, <4>1
        <5>3. b \in Int /\ n \in Nat
          BY <1>0, <1>3
        <5>4. Out[i] <= b + n
          BY <5>2, <5>3
        <5> QED
          BY <5>1, <5>2, <5>4
      <4>2. CASE i = Len(Out) + 1
        BY <1>0, <1>3, <3>1, <3>2, <4>2
      <4> QED
        BY <1>0, <3>2, <4>1, <4>2
    <3> QED
      BY <1>2, <2>4, <3>4, <3>5 DEF Receipts
  <2> QED
    BY <1>1, <2>2, <2>3, <2>4
<1> QED
  BY <1>4, <1>6, <1>7, <1>8

LEMMA InvInit == Init => Inv
<1> SUFFICES ASSUME Init PROVE Inv
  OBVIOUS
<1>1. Out = <<>>
  BY DEF Init, Out
<1>2. 0 \in 0 .. MaxMsgs /\ Len(recvQueue) = 0 /\ Len(deliveries) = 0 /\ Len(Out) = 0
  BY <1>1, BoundAssumption DEF Init
<1>3. Places(0)
  BY <1>2 DEF Init, Places, Run, Holding
<1>4. Stored(0)
  BY <1>2 DEF Init, Stored
<1>5. Receipts(0)
  BY <1>2 DEF Init, Receipts
<1> QED
  BY <1>2, <1>3, <1>4, <1>5 DEF Inv

LEMMA InvNext == TypeInv /\ Inv /\ [Next]_vars => Inv'
<1> SUFFICES ASSUME TypeInv, Inv, [Next]_vars PROVE Inv'
  OBVIOUS
<1>1. PICK b \in 0 .. MaxMsgs : Places(b) /\ Stored(b) /\ Receipts(b)
  BY DEF Inv
<1>2. CASE SendReceipts
  BY <1>1, <1>2, SendReceiptsStep DEF Inv
<1>3. CASE ~SendReceipts
  BY <1>1, <1>3, PlacesStep, StoredStep, ReceiptsStep DEF Inv
<1> QED
  BY <1>2, <1>3

LEMMA InvHolds == Spec => [](TypeInv /\ Inv)
  BY TypeInit, TypeNext, InvInit, InvNext, PTL DEF Spec

\* However confirmations arrive and deliveries fail, a receipt in send_queue
\* vouches for messages that the broker has stored, for every queue size.
THEOREM ReceiptsAreTruthful == Spec => []ReceiptsTruthful
<1>1. TypeInv /\ Inv => ReceiptsTruthful
  <2> SUFFICES ASSUME TypeInv, Inv, NEW i \in DOMAIN Out, Out[i] \in Msgs,
                      NEW m \in 1 .. Out[i]
               PROVE  broker[m] = "stored"
    BY DEF ReceiptsTruthful
  <2>1. PICK b \in 0 .. MaxMsgs : Stored(b) /\ Receipts(b)
    BY DEF Inv
  <2>2. DOMAIN Out = 1 .. Len(Out)
    BY OutType DEF TypeInv
  <2>3. Out[i] <= b
    BY <2>1, <2>2 DEF Receipts
  <2>4. m \in 1 .. b
    BY <2>1, <2>3, BoundAssumption DEF Msgs
  <2> QED
    BY <2>1, <2>4 DEF Stored
<1> QED
  BY <1>1, InvHolds, PTL

\* Receipts are put in ascending order, each message's at most once, and None or
\* ServerError is the last item that ever enters send_queue.
THEOREM ReceiptsDoAscend == Spec => []ReceiptsAscend
<1>1. TypeInv /\ Inv => ReceiptsAscend
  <2> SUFFICES ASSUME TypeInv, Inv PROVE ReceiptsAscend
    OBVIOUS
  <2>1. PICK b \in 0 .. MaxMsgs : Receipts(b)
    BY DEF Inv
  <2>2. DOMAIN Out = 1 .. Len(Out)
    BY OutType DEF TypeInv
  <2> QED
    BY <2>1, <2>2 DEF Receipts, ReceiptsAscend
<1> QED
  BY <1>1, InvHolds, PTL

-----------------------------------------------------------------------------
(* The window, the events and the watermarks                               *)

\* can_make_deliveries is set exactly while the window has room.
Window ==
    /\ Len(deliveries) <= MaxParallel
    /\ canMake => Len(deliveries) < MaxParallel
    /\ ~canMake => Len(deliveries) = MaxParallel

LEMMA WindowStep == TypeInv /\ Window /\ [Next]_vars => Window'
<1> SUFFICES ASSUME TypeInv, Window, [Next]_vars PROVE Window'
  OBVIOUS
<1> USE DEF envVars, pubVars, rcptVars, futVars, endVars
<1>0. /\ Len(deliveries) \in Nat /\ deliveries \in Seq(Msgs) /\ canMake \in BOOLEAN
      /\ MaxParallel \in Nat
  BY QueueAssumption DEF TypeInv, TypeOK, MaxParallel
<1>1. ASSUME NEW m \in Msgs, canMake, deliveries' = Append(deliveries, m),
             canMake' = (canMake /\ Len(deliveries) + 1 < MaxParallel)
      PROVE  Window'
  <2>1. Len(deliveries') = Len(deliveries) + 1
    BY <1>0, <1>1
  <2>2. Len(deliveries) < MaxParallel
    BY <1>1 DEF Window
  <2>3. CASE Len(deliveries) + 1 < MaxParallel
    <3>1. canMake'
      BY <1>1, <2>3
    <3> QED
      BY <1>0, <2>1, <2>3, <3>1 DEF Window, MaxParallel
  <2>4. CASE Len(deliveries) + 1 = MaxParallel
    <3>1. ~(Len(deliveries) + 1 < MaxParallel)
      BY <1>0, <2>4
    <3>2. ~canMake'
      BY <1>1, <3>1
    <3> QED
      BY <1>0, <2>1, <2>4, <3>2 DEF Window, MaxParallel
  <2> QED
    BY <1>0, <2>2, <2>3, <2>4
<1>2. CASE PublishMessage
  <2>1. Head(recvQueue) \in Msgs
    BY <1>2 DEF PublishMessage, TypeInv, TypeOK
  <2> QED
    BY <1>1, <1>2, <2>1 DEF PublishMessage, StartDelivery
<1>3. CASE PublishResumes
  BY <1>1, <1>3 DEF PublishResumes, StartDelivery, TypeInv
<1>4. CASE SendReceipts
  <2>1. PICK n \in 0 .. Len(deliveries) :
           /\ deliveries' = AfterPop(n)
           /\ IF n = 0 THEN UNCHANGED canMake
              ELSE canMake' = (canMake \/ Len(deliveries) - n < MaxParallel)
    BY <1>4 DEF SendReceipts
  <2>2. Len(deliveries') = Len(deliveries) - n
    BY <1>0, <2>1, PopDeque DEF AfterPop
  <2>3. CASE n = 0
    BY <1>0, <2>1, <2>2, <2>3 DEF Window, MaxParallel
  <2>4. CASE n # 0
    <3>1. Len(deliveries) - n < MaxParallel
      BY <1>0, <2>4 DEF Window
    <3>2. canMake'
      BY <2>1, <2>4, <3>1
    <3> QED
      BY <1>0, <2>2, <3>1, <3>2 DEF Window, MaxParallel
  <2> QED
    BY <2>3, <2>4
<1>5. CASE UNCHANGED <<deliveries, canMake>>
  BY <1>5 DEF Window, MaxParallel
<1>6. ASSUME NEW m \in Msgs, Deliver(m) \/ BrokerStores(m) PROVE Window'
  <2>1. CASE PreprocessOk(m) \/ PublishConfirmed(m) \/ DeliveryFails(m)
    BY <1>5, <2>1 DEF PreprocessOk, PublishConfirmed, DeliveryFails
  <2>2. CASE OnConfirmation(m) \/ BrokerStores(m)
    BY <1>5, <2>2 DEF OnConfirmation, BrokerStores
  <2> QED
    BY <1>6, <2>1, <2>2 DEF Deliver
<1> QED
  BY <1>2, <1>3, <1>4, <1>5, <1>6 DEF Next, Coroutines, Receive, ConnectionLost,
     WriterGet, PublishBlocks, PublishEnds, ReceiptPut, OpenChannel,
     OpenChannelFails, ReportFailure, Finish, LateEndPut, vars

\* The deque of deliveries without a receipt never outgrows
\* max_parallel_deliveries, and publish_messages waits only while it is full.
THEOREM WindowIsBounded == Spec => []WindowBound
<1>1. Init => Window
  BY QueueAssumption DEF Init, Window, MaxParallel
<1>2. TypeInv /\ Window => WindowBound
  BY DEF Window, WindowBound
<1> QED
  BY <1>1, <1>2, TypeInit, TypeNext, WindowStep, PTL DEF Spec

\* The low watermark is below the high one, except for queues of size zero.
LEMMA Watermarks ==
    /\ LowWatermark \in Nat /\ HighWatermark \in Nat
    /\ LowWatermark < HighWatermark \/ (HighWatermark = 0 /\ LowWatermark = 0)
  BY QueueAssumption DEF LowWatermark, HighWatermark

LEMMA ResumeStep == TypeInv /\ NoLostResume /\ [Next]_vars => NoLostResume'
<1> SUFFICES ASSUME TypeInv, NoLostResume, [Next]_vars PROVE NoLostResume'
  OBVIOUS
<1> USE DEF envVars, pubVars, rcptVars, futVars, endVars
<1>0. /\ Len(recvQueue) \in Nat /\ recvQueue \in Seq(Msgs \cup {None})
      /\ paused \in BOOLEAN
  BY DEF TypeInv, TypeOK
<1>1. ASSUME NEW items \in Seq(Int), Len(items) > 0, PutNowait(items),
             UNCHANGED <<phase, pubState>>
      PROVE  NoLostResume'
  <2>1. recvQueue \in Seq(Int)
    BY DEF TypeInv, TypeOK, Msgs, None
  <2>2. Len(recvQueue') = Len(recvQueue) + Len(items) /\ Len(items) \in Nat
    BY <1>1, <2>1, ConcatProperties DEF PutNowait
  <2> QED
    BY <1>0, <1>1, <2>2, Watermarks DEF PutNowait, NoLostResume
<1>2. CASE Receive
  <2>1. PICK n \in 1 .. MaxChunk : PutNowait([i \in 1 .. n |-> received + i])
    BY <1>2 DEF Receive
  <2> DEFINE new == [i \in 1 .. n |-> received + i]
  <2>2. new \in Seq(Int) /\ Len(new) > 0
    BY BoundAssumption DEF TypeInv, TypeOK
  <2>3. PutNowait(new) /\ UNCHANGED <<phase, pubState>>
    BY <1>2, <2>1 DEF Receive
  <2> HIDE DEF new
  <2> QED
    BY <1>1, <2>2, <2>3
<1>3. CASE ConnectionLost
  <2>1. <<None>> \in Seq(Int) /\ Len(<<None>>) > 0
    BY DEF None
  <2> QED
    BY <1>1, <1>3, <2>1 DEF ConnectionLost
<1>4. CASE PublishMessage
  BY <1>4 DEF PublishMessage, StartDelivery, TaskDone, NoLostResume, LowWatermark
<1>5. CASE PublishResumes
  BY <1>5 DEF PublishResumes, StartDelivery, TaskDone, NoLostResume, LowWatermark
<1>6. CASE PublishBlocks \/ PublishEnds \/ Finish \/ OpenChannelFails
  BY <1>6 DEF PublishBlocks, PublishEnds, Finish, OpenChannelFails, NoLostResume
<1>7. CASE UNCHANGED <<paused, pubState, recvQueue>> /\ (phase' # "done" => phase # "done")
  BY <1>7 DEF NoLostResume, LowWatermark
<1>8. ASSUME NEW m \in Msgs, Deliver(m) \/ BrokerStores(m) PROVE NoLostResume'
  BY <1>7, <1>8 DEF Deliver, PreprocessOk, PublishConfirmed, DeliveryFails,
                    OnConfirmation, BrokerStores
<1> QED
  BY <1>2, <1>3, <1>4, <1>5, <1>6, <1>7, <1>8 DEF Next, Coroutines, WriterGet,
     SendReceipts, ReceiptPut, OpenChannel, ReportFailure, EnterFinally,
     LateEndPut, vars

\* Reading from the peer is never left paused with no task_done to resume it.
THEOREM ResumeIsNotLost == Spec => []NoLostResume
<1>1. Init => NoLostResume
  BY DEF Init, NoLostResume
<1> QED
  BY <1>1, TypeInit, TypeNext, ResumeStep, PTL DEF Spec

\* Deliveries start only when the channel is open.
Idle == phase = "open" => deliveries = <<>>

LEMMA IdleStep == Idle /\ [Next]_vars => Idle'
<1> SUFFICES ASSUME Idle, [Next]_vars PROVE Idle'
  OBVIOUS
<1> USE DEF envVars, pubVars, rcptVars, futVars, endVars, Idle
<1>1. ASSUME NEW m \in Msgs, Deliver(m) \/ BrokerStores(m) PROVE Idle'
  <2>1. CASE PreprocessOk(m) \/ PublishConfirmed(m) \/ DeliveryFails(m)
    BY <2>1 DEF PreprocessOk, PublishConfirmed, DeliveryFails
  <2>2. CASE OnConfirmation(m) \/ BrokerStores(m)
    BY <2>2 DEF OnConfirmation, BrokerStores
  <2> QED
    BY <1>1, <2>1, <2>2 DEF Deliver
<1>2. CASE \/ PublishMessage \/ PublishBlocks \/ PublishResumes \/ SendReceipts
           \/ ReceiptPut \/ PublishEnds \/ Finish
  <2>1. CASE PublishMessage \/ PublishBlocks \/ PublishResumes
    BY <2>1 DEF PublishMessage, PublishBlocks, PublishResumes
  <2>2. CASE SendReceipts \/ ReceiptPut
    BY <2>2 DEF SendReceipts, ReceiptPut
  <2>3. CASE PublishEnds \/ Finish
    BY <2>3 DEF PublishEnds, EnterFinally, Finish
  <2> QED
    BY <1>2, <2>1, <2>2, <2>3
<1>3. CASE OpenChannel \/ OpenChannelFails \/ ReportFailure
  BY <1>3 DEF OpenChannel, OpenChannelFails, ReportFailure, EnterFinally
<1>4. CASE Receive \/ ConnectionLost \/ WriterGet \/ LateEndPut \/ UNCHANGED vars
  BY <1>4 DEF Receive, ConnectionLost, WriterGet, LateEndPut, vars
<1> QED
  BY <1>1, <1>2, <1>3, <1>4 DEF Next, Coroutines

LEMMA WakeupStep == TypeInv /\ Inv /\ Idle /\ NoLostWakeup /\ [Next]_vars => NoLostWakeup'
<1> SUFFICES ASSUME TypeInv, Inv, Idle, NoLostWakeup, [Next]_vars PROVE NoLostWakeup'
  OBVIOUS
<1> USE DEF envVars, pubVars, rcptVars, futVars, endVars
<1>0. PICK b \in 0 .. MaxMsgs : Places(b) /\ Stored(b)
  BY DEF Inv
<1>1. /\ deliveries \in Seq(Msgs) /\ Len(deliveries) \in Nat /\ b \in Int /\ Msgs \subseteq Int
  BY BoundAssumption DEF TypeInv, TypeOK, Msgs
\* A delivery that starts is not confirmed, should it become the head.
<1>2. ASSUME NEW m \in Msgs, m = b + Len(deliveries) + 1,
             deliveries' = Append(deliveries, m),
             UNCHANGED <<confirmed, hasConfirmed, phase, rcptState>>
      PROVE  NoLostWakeup'
  <2>1. m \notin confirmed
    BY <1>0, <1>1, <1>2 DEF Stored
  <2>2. CASE deliveries = <<>>
    <3>1. Head(deliveries') = m
      BY <1>1, <1>2, <2>2
    <3> QED
      BY <1>2, <2>1, <3>1 DEF NoLostWakeup
  <2>3. CASE deliveries # <<>>
    <3>1. Head(deliveries') = Head(deliveries)
      BY <1>1, <1>2, <2>3
    <3> QED
      BY <1>2, <2>3, <3>1 DEF NoLostWakeup
  <2> QED
    BY <2>2, <2>3
<1>3. CASE PublishMessage
  <2>1. /\ recvQueue # <<>> /\ Head(recvQueue) # None /\ pubState = "get"
        /\ deliveries' = Append(deliveries, Head(recvQueue))
        /\ UNCHANGED <<confirmed, hasConfirmed, phase, rcptState>>
    BY <1>3 DEF PublishMessage, StartDelivery
  <2>2. Head(recvQueue) = b + Len(deliveries) + 1
    BY <1>0, <1>1, <2>1, SMTT(30) DEF Places, Holding, Run, TypeInv, TypeOK
  <2>3. Head(recvQueue) \in Msgs
    BY <2>1 DEF TypeInv, TypeOK
  <2> QED
    BY <1>2, <2>1, <2>2, <2>3
<1>4. CASE PublishResumes
  <2>1. /\ pubState = "wait"
        /\ deliveries' = Append(deliveries, inHand)
        /\ UNCHANGED <<confirmed, hasConfirmed, phase, rcptState>>
    BY <1>4 DEF PublishResumes, StartDelivery
  <2>2. inHand = b + Len(deliveries) + 1 /\ inHand \in Msgs
    BY <1>0, <2>1 DEF Places, TypeInv
  <2> QED
    BY <1>2, <2>1, <2>2
\* What is popped is the longest confirmed prefix.
<1>5. CASE SendReceipts
  <2>1. PICK n \in 0 .. Len(deliveries) :
           ConfirmedPrefix(n) /\ deliveries' = AfterPop(n) /\ UNCHANGED confirmed
    BY <1>5 DEF SendReceipts
  <2>2. SUFFICES ASSUME deliveries' # <<>> PROVE Head(deliveries') \notin confirmed'
    BY DEF NoLostWakeup
  <2>3. /\ deliveries' \in Seq(Msgs) /\ Len(deliveries') = Len(deliveries) - n
        /\ \A i \in 1 .. Len(deliveries) - n : deliveries'[i] = deliveries[n + i]
    BY <1>1, <2>1, PopDeque DEF AfterPop
  <2>4. Len(deliveries') > 0 /\ Head(deliveries') = deliveries'[1]
    BY <2>2, <2>3
  <2>5. n < Len(deliveries) /\ deliveries'[1] = deliveries[n + 1]
    BY <1>1, <2>3, <2>4, SMTT(30)
  <2> QED
    BY <2>1, <2>4, <2>5 DEF ConfirmedPrefix
<1>6. ASSUME NEW m \in Msgs, Deliver(m) \/ BrokerStores(m) PROVE NoLostWakeup'
  <2>1. CASE OnConfirmation(m)
    BY <2>1 DEF OnConfirmation, NoLostWakeup
  <2>2. CASE PreprocessOk(m) \/ PublishConfirmed(m) \/ DeliveryFails(m) \/ BrokerStores(m)
    <3>1. CASE PreprocessOk(m) \/ PublishConfirmed(m)
      BY <3>1 DEF PreprocessOk, PublishConfirmed, NoLostWakeup
    <3>2. CASE DeliveryFails(m) \/ BrokerStores(m)
      BY <3>2 DEF DeliveryFails, BrokerStores, NoLostWakeup
    <3> QED
      BY <2>2, <3>1, <3>2
  <2> QED
    BY <1>6, <2>1, <2>2 DEF Deliver
<1>7. CASE PublishEnds \/ Finish \/ OpenChannelFails
  BY <1>7 DEF PublishEnds, Finish, OpenChannelFails, NoLostWakeup
<1>8. CASE ReceiptPut \/ ReportFailure
  BY <1>8 DEF ReceiptPut, ReportFailure, EnterFinally, NoLostWakeup
<1>9. CASE \/ Receive \/ ConnectionLost \/ WriterGet \/ PublishBlocks \/ LateEndPut
           \/ UNCHANGED vars
  <2>1. CASE Receive \/ ConnectionLost \/ WriterGet
    BY <2>1 DEF Receive, ConnectionLost, WriterGet, NoLostWakeup
  <2>2. CASE PublishBlocks \/ LateEndPut \/ UNCHANGED vars
    BY <2>2 DEF PublishBlocks, LateEndPut, vars, NoLostWakeup
  <2> QED
    BY <1>9, <2>1, <2>2
<1>10. CASE OpenChannel
  BY <1>10 DEF OpenChannel, Idle, NoLostWakeup
<1> QED
  BY <1>3, <1>4, <1>5, <1>6, <1>7, <1>8, <1>9, <1>10 DEF Next, Coroutines

\* The clear() of has_confirmed_deliveries never swallows a confirmation:
\* send_receipts does not sleep on a confirmed head of the deque.
THEOREM WakeupIsNotLost == Spec => []NoLostWakeup
<1>1. Init => Idle /\ NoLostWakeup
  BY DEF Init, Idle, NoLostWakeup
<1> QED
  BY <1>1, InvHolds, IdleStep, WakeupStep, PTL DEF Spec

-----------------------------------------------------------------------------
(* Refinement of ReceiptService, and the bound that pausing puts on the     *)
(* backlog                                                                 *)

\* Nothing is delivered or receipted that was not received.
Within ==
    /\ \A i \in 1 .. Len(recvQueue) : recvQueue[i] <= received
    /\ inHand <= received
    /\ \A i \in 1 .. Len(deliveries) : deliveries[i] <= received
    /\ \A m \in Msgs : future[m] # "none" => m <= received
    /\ receiptId <= received

LEMMA Numbers ==
    ASSUME TypeInv
    PROVE  /\ received \in Nat /\ inHand \in Int /\ receiptId \in Int /\ None = 0
           /\ Msgs \subseteq Int /\ None \notin Msgs /\ Error \notin Msgs
           /\ recvQueue \in Seq(Int) /\ Len(recvQueue) \in Nat
           /\ deliveries \in Seq(Int) /\ Len(deliveries) \in Nat
           /\ \A i \in 1 .. Len(recvQueue) : recvQueue[i] \in Int
           /\ \A i \in 1 .. Len(deliveries) : deliveries[i] \in Int
<1>1. /\ received \in Nat /\ inHand \in Int /\ receiptId \in Int /\ None = 0 /\ Msgs \subseteq Int
      /\ recvQueue \in Seq(Int) /\ deliveries \in Seq(Int)
  BY BoundAssumption DEF TypeInv, TypeOK, Msgs, None
<1> QED
  BY <1>1, EndsNotMsgs, LenProperties, ElementOfSeq

LEMMA WithinInit == Init => Within
  BY DEF Init, Within, None

\* A sequence that loses its head keeps its bound.
LEMMA TailWithin ==
    ASSUME NEW s \in Seq(Int), s # <<>>, NEW r \in Int, \A i \in 1 .. Len(s) : s[i] <= r
    PROVE  Head(s) <= r /\ Len(Tail(s)) = Len(s) - 1 /\ \A i \in 1 .. Len(Tail(s)) : Tail(s)[i] <= r
<1>1. /\ Len(s) \in Nat \ {0} /\ Head(s) = s[1] /\ Len(Tail(s)) = Len(s) - 1
      /\ \A i \in 1 .. Len(Tail(s)) : Tail(s)[i] = s[i + 1]
  BY HeadTailProperties, EmptySeq, LenProperties
<1> QED
  BY <1>1

LEMMA AppendWithin ==
    ASSUME NEW s \in Seq(Int), NEW r \in Int, NEW x \in Int, x <= r, \A i \in 1 .. Len(s) : s[i] <= r
    PROVE  \A i \in 1 .. Len(Append(s, x)) : Append(s, x)[i] <= r
<1>1. /\ Len(s) \in Nat /\ Len(Append(s, x)) = Len(s) + 1
      /\ \A i \in 1 .. Len(s) : Append(s, x)[i] = s[i]
      /\ Append(s, x)[Len(s) + 1] = x
  BY AppendProperties, LenProperties
<1> QED
  BY <1>1

LEMMA ConcatWithin ==
    ASSUME NEW s \in Seq(Int), NEW t \in Seq(Int), NEW r \in Int,
           \A i \in 1 .. Len(s) : s[i] <= r, \A i \in 1 .. Len(t) : t[i] <= r
    PROVE  \A i \in 1 .. Len(s \o t) : (s \o t)[i] <= r
<1>1. /\ Len(s) \in Nat /\ Len(t) \in Nat /\ Len(s \o t) = Len(s) + Len(t)
      /\ \A i \in 1 .. Len(s) + Len(t) : (s \o t)[i] = IF i <= Len(s) THEN s[i] ELSE t[i - Len(s)]
  BY ConcatProperties, LenProperties
<1> QED
  BY <1>1

LEMMA WithinNext == TypeInv /\ Within /\ [Next]_vars => Within'
<1> SUFFICES ASSUME TypeInv, Within, [Next]_vars
             PROVE  Within'
  OBVIOUS
<1> USE DEF envVars, pubVars, rcptVars, futVars, endVars
<1>0. /\ received \in Nat /\ received \in Int /\ inHand \in Int /\ receiptId \in Int /\ None = 0
      /\ Msgs \subseteq Int /\ None \notin Msgs
      /\ recvQueue \in Seq(Int) /\ Len(recvQueue) \in Nat
      /\ deliveries \in Seq(Int) /\ Len(deliveries) \in Nat
      /\ \A i \in 1 .. Len(recvQueue) : recvQueue[i] \in Int
      /\ \A i \in 1 .. Len(deliveries) : deliveries[i] \in Int
      /\ future \in [Msgs -> FutureStates]
  BY Numbers DEF TypeInv, TypeOK
<1>1. CASE Receive
  <2>1. PICK n \in 1 .. MaxChunk :
           /\ received' = received + n
           /\ recvQueue' = recvQueue \o [i \in 1 .. n |-> received + i]
    BY <1>1 DEF Receive, PutNowait
  <2> DEFINE new == [i \in 1 .. n |-> received + i]
  <2>2. n \in Nat /\ received' \in Int /\ received <= received'
    BY <1>0, <2>1, BoundAssumption
  <2>3. new \in Seq(Int) /\ Len(new) = n /\ \A i \in 1 .. n : new[i] <= received'
    BY <1>0, <2>1, <2>2
  <2> HIDE DEF new
  <2>4. \A i \in 1 .. Len(recvQueue) : recvQueue[i] <= received'
    BY <1>0, <2>2 DEF Within
  <2>5. \A i \in 1 .. Len(recvQueue') : recvQueue'[i] <= received'
    <3>1. recvQueue' = recvQueue \o new
      BY <2>1 DEF new
    <3> QED
      BY <1>0, <2>2, <2>3, <2>4, <3>1, ConcatWithin
  <2>6. UNCHANGED <<inHand, deliveries, future, receiptId>>
    BY <1>1 DEF Receive
  <2>7. inHand' <= received' /\ receiptId' <= received'
    BY <1>0, <2>2, <2>6 DEF Within
  <2>8. \A i \in 1 .. Len(deliveries) : deliveries[i] <= received'
    BY <1>0, <2>2 DEF Within
  <2>9. \A m \in Msgs : future[m] # "none" => m <= received'
    BY <1>0, <2>2 DEF Within
  <2> QED
    BY <2>5, <2>6, <2>7, <2>8, <2>9 DEF Within
<1>2. CASE ConnectionLost
  <2>1. recvQueue' = recvQueue \o <<None>>
        /\ UNCHANGED <<received, inHand, deliveries, future, receiptId>>
    BY <1>2 DEF ConnectionLost, PutNowait
  <2>2. <<None>> \in Seq(Int) /\ Len(<<None>>) = 1 /\ \A i \in 1 .. 1 : <<None>>[i] <= received
    BY <1>0
  <2>3. \A i \in 1 .. Len(recvQueue') : recvQueue'[i] <= received
    BY <1>0, <2>1, <2>2, ConcatWithin DEF Within
  <2> QED
    BY <2>1, <2>3 DEF Within
\* A delivery of a received message starts.
<1>3. ASSUME NEW m \in Int, m <= received, StartDelivery(m, recvQueue'),
             UNCHANGED <<received, receiptId>>, inHand' <= received,
             \A i \in 1 .. Len(recvQueue') : recvQueue'[i] <= received
      PROVE  Within'
  <2>1. deliveries' = Append(deliveries, m) /\ future' = [future EXCEPT ![m] = "preprocess"]
    BY <1>3 DEF StartDelivery
  <2>2. \A i \in 1 .. Len(deliveries') : deliveries'[i] <= received
    BY <1>0, <1>3, <2>1, AppendWithin DEF Within
  <2>3. \A k \in Msgs : future'[k] # "none" => k = m \/ future[k] # "none"
    BY <1>0, <2>1
  <2>4. \A k \in Msgs : future'[k] # "none" => k <= received
    BY <1>3, <2>3 DEF Within
  <2> QED
    BY <1>3, <2>2, <2>4 DEF Within
<1>4. CASE PublishMessage
  <2>1. /\ recvQueue # <<>> /\ recvQueue' = Tail(recvQueue) /\ Head(recvQueue) \in Int
        /\ StartDelivery(Head(recvQueue), recvQueue') /\ UNCHANGED <<received, receiptId, inHand>>
    BY <1>0, <1>4, HeadTailProperties DEF PublishMessage, StartDelivery, TaskDone
  <2>2. Head(recvQueue) <= received /\ \A i \in 1 .. Len(recvQueue') : recvQueue'[i] <= received
    BY <1>0, <2>1, TailWithin DEF Within
  <2>3. inHand' <= received
    BY <2>1 DEF Within
  <2> QED
    BY <1>3, <2>1, <2>2, <2>3
<1>5. CASE PublishBlocks
  <2>1. /\ recvQueue # <<>> /\ recvQueue' = Tail(recvQueue) /\ inHand' = Head(recvQueue)
        /\ UNCHANGED <<received, receiptId, deliveries, future>>
    BY <1>5 DEF PublishBlocks
  <2>2. Head(recvQueue) <= received /\ \A i \in 1 .. Len(recvQueue') : recvQueue'[i] <= received
    BY <1>0, <2>1, TailWithin DEF Within
  <2> QED
    BY <2>1, <2>2 DEF Within
<1>6. CASE PublishResumes
  <2>1. /\ StartDelivery(inHand, recvQueue') /\ inHand' = None
        /\ UNCHANGED <<received, receiptId, recvQueue>>
    BY <1>6 DEF PublishResumes, StartDelivery, TaskDone
  <2>2. inHand <= received /\ inHand' <= received
    BY <1>0, <2>1 DEF Within
  <2>3. \A i \in 1 .. Len(recvQueue') : recvQueue'[i] <= received
    BY <2>1 DEF Within
  <2> QED
    BY <1>0, <1>3, <2>1, <2>2, <2>3
\* The finally clause starts no delivery.
<1>7. ASSUME NEW e, EnterFinally(e)
      PROVE  \A m \in Msgs : future'[m] # "none" => future[m] # "none"
  BY <1>7 DEF EnterFinally, Running
<1>8. CASE PublishEnds
  <2>1. /\ recvQueue # <<>> /\ recvQueue' = Tail(recvQueue) /\ receiptId' = None
        /\ UNCHANGED <<received, inHand, deliveries>>
    BY <1>8 DEF PublishEnds
  <2>2. \A i \in 1 .. Len(recvQueue') : recvQueue'[i] <= received
    BY <1>0, <2>1, TailWithin DEF Within
  <2>3. \A m \in Msgs : future'[m] # "none" => future[m] # "none"
    BY <1>7, <1>8 DEF PublishEnds
  <2>4. receiptId' <= received
    BY <1>0, <2>1
  <2> QED
    BY <2>1, <2>2, <2>3, <2>4 DEF Within
<1>9. ASSUME NEW m \in Msgs, Deliver(m) \/ BrokerStores(m)
      PROVE  Within'
  <2>1. UNCHANGED <<received, recvQueue, inHand, deliveries, receiptId>>
    BY <1>9 DEF Deliver, PreprocessOk, PublishConfirmed, DeliveryFails, OnConfirmation, BrokerStores
  <2>2. \A k \in Msgs : future'[k] # "none" => future[k] # "none"
    BY <1>0, <1>9 DEF Deliver, PreprocessOk, PublishConfirmed, DeliveryFails, OnConfirmation,
                      BrokerStores, Running, Ended
  <2> QED
    BY <2>1, <2>2 DEF Within
<1>10. CASE SendReceipts
  <2>1. PICK n \in 0 .. Len(deliveries) :
           /\ deliveries' = SubSeq(deliveries, n + 1, Len(deliveries))
           /\ receiptId' = receiptId \/ (n # 0 /\ receiptId' = deliveries[n])
    BY <1>10 DEF SendReceipts, AfterPop
  <2>2. UNCHANGED <<received, recvQueue, inHand, future>>
    BY <1>10 DEF SendReceipts
  <2>3. receiptId' <= received
    BY <1>0, <2>1 DEF Within
  <2>4. /\ Len(deliveries') = Len(deliveries) - n
        /\ \A i \in 1 .. Len(deliveries) - n : deliveries'[i] = deliveries[n + i]
    BY <1>0, <2>1, PopDeque
  <2>5. \A i \in 1 .. Len(deliveries') : deliveries'[i] <= received
    <3> TAKE i \in 1 .. Len(deliveries')
    <3>1. i \in 1 .. Len(deliveries) - n /\ n + i \in 1 .. Len(deliveries)
      BY <1>0, <2>1, <2>4
    <3> QED
      BY <2>4, <3>1 DEF Within
  <2> QED
    BY <2>2, <2>3, <2>5 DEF Within
<1>11. CASE ReceiptPut
  BY <1>0, <1>11 DEF ReceiptPut, Within
<1>12. CASE Finish
  BY <1>0, <1>12 DEF Finish, Within
<1>13. CASE ReportFailure
  <2>1. \A m \in Msgs : future'[m] # "none" => future[m] # "none"
    BY <1>7, <1>13 DEF ReportFailure
  <2>2. UNCHANGED <<received, recvQueue, inHand, deliveries, receiptId>>
    BY <1>13 DEF ReportFailure
  <2> QED
    BY <2>1, <2>2 DEF Within
<1>14. CASE WriterGet \/ OpenChannel \/ OpenChannelFails \/ LateEndPut \/ UNCHANGED vars
  <2>1. UNCHANGED <<received, recvQueue, inHand, deliveries, future, receiptId>>
    BY <1>14 DEF WriterGet, OpenChannel, OpenChannelFails, LateEndPut, vars
  <2> QED
    BY <2>1 DEF Within
<1> QED
  BY <1>1, <1>2, <1>4, <1>5, <1>6, <1>8, <1>9, <1>10, <1>11, <1>12, <1>13, <1>14
     DEF Next, Coroutines

-----------------------------------------------------------------------------
(* Publisher implements ReceiptService                                     *)

Durable == {m \in Msgs : broker[m] = "stored"}
Serving == \A i \in DOMAIN Out : Out[i] \in Msgs

\* The receipts that were given.
Given == {Out[i] : i \in DOMAIN Out} \cap Msgs

\* What a step of the publisher is to ReceiptService.
AbstractStep == [RS!Next]_(RS!vars)

Latest(R) == IF R = {} THEN 0 ELSE CHOOSE k \in R : \A r \in R : r <= k

LEMMA LastOfGiven == LastReceipt = Latest(Given)
  BY DEF LastReceipt, Latest, Given

LEMMA LastOfGivenNext == (LastReceipt = Latest(Given))'
  BY LastOfGiven, PTL

LEMMA Greatest ==
    ASSUME NEW R \in SUBSET Int, NEW k \in R, \A r \in R : r <= k
    PROVE  (CHOOSE x \in R : \A r \in R : r <= x) = k
<1> DEFINE c == CHOOSE x \in R : \A r \in R : r <= x
<1>1. c \in R /\ \A r \in R : r <= c
  OBVIOUS
<1> HIDE DEF c
<1>2. c \in Int /\ k \in Int /\ c <= k /\ k <= c
  BY <1>1
<1>3. c = k
  BY <1>2
<1> QED
  BY <1>3 DEF c

LEMMA Stutters ==
    ASSUME received' = received, Durable' = Durable, Out' = Out
    PROVE  AbstractStep
<1>1. LastReceipt' = LastReceipt
  BY DEF LastReceipt
<1>2. (\A i \in DOMAIN Out' : Out'[i] \in Msgs) = (\A i \in DOMAIN Out : Out[i] \in Msgs)
  OBVIOUS
<1>3. {m \in Msgs : broker'[m] = "stored"} = {m \in Msgs : broker[m] = "stored"}
  BY DEF Durable
<1> QED
  BY <1>1, <1>2, <1>3 DEF AbstractStep, RS!vars

LEMMA OutDomain ==
    ASSUME TypeInv
    PROVE  DOMAIN Out = 1 .. Len(Out) /\ Len(Out) \in Nat
  BY OutType, LenProperties DEF TypeInv

\* Before the end of the task the last receipt is the last item of Out.
LEMMA LastItem ==
    TypeInv /\ Inv /\ Serving => LastReceipt = IF Len(Out) = 0 THEN 0 ELSE Out[Len(Out)]
<1> SUFFICES ASSUME TypeInv, Inv, Serving
             PROVE  LastReceipt = IF Len(Out) = 0 THEN 0 ELSE Out[Len(Out)]
  OBVIOUS
<1>1. DOMAIN Out = 1 .. Len(Out) /\ Len(Out) \in Nat
  BY OutDomain
<1>2. \A i \in 1 .. Len(Out) : Out[i] \in Msgs /\ Out[i] \in Int
  BY <1>1, Numbers DEF Serving
<1>3. CASE Len(Out) = 0
  <2>1. Given = {}
    BY <1>1, <1>3 DEF Given
  <2> QED
    BY <1>3, <2>1, LastOfGiven DEF Latest
<1>4. CASE Len(Out) # 0
  <2>1. PICK b \in 0 .. MaxMsgs : Receipts(b)
    BY DEF Inv
  <2>2. Len(Out) \in 1 .. Len(Out)
    BY <1>1, <1>4
  <2>3. \A i \in 1 .. Len(Out) : Out[i] <= Out[Len(Out)]
    <3> TAKE i \in 1 .. Len(Out)
    <3>1. i < Len(Out) => Out[i] < Out[Len(Out)]
      <4>1. Out[Len(Out)] \in Msgs
        BY <1>2, <2>2
      <4> QED
        BY <2>1, <2>2, <4>1 DEF Receipts
    <3>0. Len(Out) \in Nat
      BY <1>1
    <3>2. i = Len(Out) \/ i < Len(Out)
      BY <3>0
    <3>3. Out[i] \in Int /\ Out[Len(Out)] \in Int
      BY <1>2, <2>2
    <3> QED
      BY <3>1, <3>2, <3>3
  <2>4. Given \in SUBSET Int /\ Out[Len(Out)] \in Given /\ \A r \in Given : r <= Out[Len(Out)]
    BY <1>1, <1>2, <2>2, <2>3 DEF Given
  <2>5. Given # {}
    BY <2>4
  <2>6. (CHOOSE x \in Given : \A r \in Given : r <= x) = Out[Len(Out)]
    BY <2>4, Greatest
  <2> QED
    BY <1>4, <2>5, <2>6, LastOfGiven DEF Latest
<1> QED
  BY <1>3, <1>4

LEMMA LastItemNext ==
    (TypeInv /\ Inv /\ Serving => LastReceipt = IF Len(Out) = 0 THEN 0 ELSE Out[Len(Out)])'
  BY LastItem, PTL

\* The put of a receipt.
LEMMA ReceiptIsGiven ==
    ASSUME TypeInv, TypeInv', Inv, Inv', NEW k \in Msgs, k <= received,
           sendQueue' = Append(sendQueue, k), UNCHANGED <<sent, received, broker>>
    PROVE  AbstractStep
<1>1. /\ Len(Out') = Len(Out) + 1 /\ Out'[Len(Out) + 1] = k
      /\ \A i \in 1 .. Len(Out) : Out'[i] = Out[i]
  BY PutStep DEF TypeInv
<1>2. /\ DOMAIN Out = 1 .. Len(Out) /\ Len(Out) \in Nat
      /\ DOMAIN Out' = 1 .. Len(Out) + 1
  BY <1>1, OutDomain
<1>3. PICK b \in 0 .. MaxMsgs : Stored(b)' /\ Receipts(b)'
  BY DEF Inv
<1>4. ASSUME NEW i \in 1 .. Len(Out)
      PROVE  Out[i] \in Msgs /\ Out[i] < k
  <2>1. /\ i \in 1 .. Len(Out') /\ Len(Out) + 1 \in 1 .. Len(Out') /\ i < Len(Out) + 1
    BY <1>1, <1>2
  <2>2. Out'[i] \in Msgs /\ (Out'[Len(Out) + 1] \in Msgs => Out'[i] < Out'[Len(Out) + 1])
    BY <1>3, <2>1 DEF Receipts
  <2> QED
    BY <1>1, <2>2
<1>5. Serving /\ Serving'
  <2>1. Serving
    BY <1>2, <1>4 DEF Serving
  <2>2. \A i \in 1 .. Len(Out) + 1 : Out'[i] \in Msgs
    BY <1>1, <1>2, <1>4
  <2> QED
    BY <1>2, <2>1, <2>2 DEF Serving
<1>6. LastReceipt' = k
  <2>1. LastReceipt' = IF Len(Out') = 0 THEN 0 ELSE Out'[Len(Out')]
    BY <1>5, LastItemNext
  <2>2. Len(Out') # 0 /\ Out'[Len(Out')] = k
    BY <1>1, <1>2
  <2> QED
    BY <2>1, <2>2
<1>7. LastReceipt \in Int /\ k \in Int /\ received \in Int /\ LastReceipt < k /\ k >= 1
  <2>1. LastReceipt = IF Len(Out) = 0 THEN 0 ELSE Out[Len(Out)]
    BY <1>5, LastItem
  <2>2. k \in Int /\ k >= 1 /\ received \in Int
    BY Numbers, BoundAssumption DEF Msgs
  <2>3. CASE Len(Out) = 0
    BY <2>1, <2>2, <2>3
  <2>4. CASE Len(Out) # 0
    <3>1. Len(Out) \in 1 .. Len(Out)
      BY <1>2, <2>4
    <3>2. Out[Len(Out)] \in Int /\ Out[Len(Out)] < k
      BY <1>4, <3>1, Numbers
    <3> QED
      BY <2>1, <2>2, <2>4, <3>2
  <2> QED
    BY <2>3, <2>4
<1>8. k <= b
  <2>1. Len(Out) + 1 \in 1 .. Len(Out')
    BY <1>1, <1>2
  <2> QED
    BY <1>1, <1>3, <2>1 DEF Receipts
<1>9. 1 .. k \subseteq Durable
  <2>1. MaxMsgs \in Nat
    BY BoundAssumption
  <2>2. \A m \in 1 .. k : m \in 1 .. b /\ m \in Msgs
    BY <1>3, <1>7, <1>8, <2>1 DEF Msgs
  <2>3. \A m \in 1 .. b : broker[m] = "stored"
    BY <1>3 DEF Stored
  <2> QED
    BY <2>2, <2>3 DEF Durable
<1>10. k \in LastReceipt + 1 .. received
  BY <1>7
<1>11. RS!Receipt
  <2>1. {m \in Msgs : broker'[m] = "stored"} = {m \in Msgs : broker[m] = "stored"}
    OBVIOUS
  <2>2. 1 .. k \subseteq {m \in Msgs : broker[m] = "stored"}
    BY <1>9 DEF Durable
  <2>3. (\A i \in DOMAIN Out : Out[i] \in Msgs) /\ (\A i \in DOMAIN Out' : Out'[i] \in Msgs)
    BY <1>5 DEF Serving
  <2> QED
    BY <1>6, <1>10, <2>1, <2>2, <2>3 DEF RS!Receipt
<1> QED
  BY <1>11 DEF AbstractStep, RS!Next

\* The put of the end of the task.
LEMMA EndIsGiven ==
    ASSUME TypeInv, TypeInv', Serving, NEW e \in {None, Error},
           sendQueue' = Append(sendQueue, e), UNCHANGED <<sent, received, broker>>
    PROVE  AbstractStep
<1>1. /\ Len(Out') = Len(Out) + 1 /\ Out'[Len(Out) + 1] = e
      /\ \A i \in 1 .. Len(Out) : Out'[i] = Out[i]
  BY PutStep DEF TypeInv
<1>2. /\ DOMAIN Out = 1 .. Len(Out) /\ Len(Out) \in Nat
      /\ DOMAIN Out' = 1 .. Len(Out) + 1 /\ e \notin Msgs
  BY <1>1, OutDomain, EndsNotMsgs
<1>3. Given' = Given
  <2>1. \A x \in Msgs : (\E i \in 1 .. Len(Out) : Out[i] = x)
                        <=> (\E i \in 1 .. Len(Out) + 1 : Out'[i] = x)
    <3> TAKE x \in Msgs
    <3>1. ASSUME NEW i \in 1 .. Len(Out), Out[i] = x
          PROVE  i \in 1 .. Len(Out) + 1 /\ Out'[i] = x
      BY <1>1, <1>2, <3>1
    <3>2. ASSUME NEW i \in 1 .. Len(Out) + 1, Out'[i] = x
          PROVE  i \in 1 .. Len(Out) /\ Out[i] = x
      <4>1. i # Len(Out) + 1
        BY <1>1, <1>2, <3>2
      <4>2. i \in 1 .. Len(Out)
        BY <1>2, <4>1
      <4> QED
        BY <1>1, <3>2, <4>2
    <3> QED
      BY <3>1, <3>2
  <2> QED
    BY <1>2, <2>1 DEF Given
<1>4. LastReceipt' = LastReceipt
  BY <1>3, LastOfGiven, LastOfGivenNext
<1>5. ~Serving'
  <2>1. Len(Out) + 1 \in 1 .. Len(Out) + 1
    BY <1>2
  <2> QED
    BY <1>1, <1>2, <2>1 DEF Serving
<1>6. RS!End
  <2>1. {m \in Msgs : broker'[m] = "stored"} = {m \in Msgs : broker[m] = "stored"}
    OBVIOUS
  <2>2. (\A i \in DOMAIN Out : Out[i] \in Msgs) /\ ~(\A i \in DOMAIN Out' : Out'[i] \in Msgs)
    BY <1>5 DEF Serving
  <2> QED
    BY <1>4, <2>1, <2>2 DEF RS!End
<1> QED
  BY <1>6 DEF AbstractStep, RS!Next

LEMMA NextAbstract ==
    ASSUME TypeInv, TypeInv', Inv, Inv', Within, [Next]_vars
    PROVE  AbstractStep
<1> USE DEF envVars, pubVars, rcptVars, futVars, endVars
<1>0. PICK b \in 0 .. MaxMsgs : Stored(b) /\ Receipts(b)
  BY DEF Inv
<1>d. DOMAIN Out = 1 .. Len(Out)
  BY OutDomain
<1>1. CASE Receive
  <2>1. PICK n \in 1 .. MaxChunk : received' = received + n /\ received + n <= MaxMsgs
    BY <1>1 DEF Receive
  <2>2. UNCHANGED <<broker, sent, sendQueue>>
    BY <1>1 DEF Receive
  <2>3. Out' = Out
    BY <2>2 DEF Out
  <2>4. LastReceipt' = LastReceipt
    BY <2>3 DEF LastReceipt
  <2>5. received' \in received + 1 .. MaxMsgs
    BY <2>1, BoundAssumption DEF TypeInv, TypeOK
  <2>6. RS!Accept
    BY <2>2, <2>3, <2>4, <2>5 DEF RS!Accept
  <2> QED
    BY <2>6 DEF AbstractStep, RS!Next
<1>2. ASSUME UNCHANGED <<received, broker, sent, sendQueue>>
      PROVE  AbstractStep
  <2>1. Out' = Out /\ Durable' = Durable
    BY <1>2 DEF Out, Durable
  <2> QED
    BY <1>2, <2>1, Stutters
<1>3. CASE WriterGet
  <2>1. Out' = Append(sent, Head(sendQueue)) \o Tail(sendQueue)
    BY <1>3 DEF WriterGet, Out
  <2>2. Out' = Out
    BY <1>3, <2>1, TakeKeepsOut DEF WriterGet, Out, TypeInv, TypeOK
  <2>3. received' = received /\ Durable' = Durable
    BY <1>3 DEF WriterGet, Durable
  <2> QED
    BY <2>2, <2>3, Stutters
<1>4. CASE SendReceipts
  <2>1. UNCHANGED <<received, broker, sent>>
    BY <1>4 DEF SendReceipts
  <2>2. CASE sendQueue' = sendQueue
    BY <1>2, <2>1, <2>2
  <2>3. CASE sendQueue' # sendQueue
    <3>1. PICK n \in 0 .. Len(deliveries) : n # 0 /\ sendQueue' = Append(sendQueue, deliveries[n])
      BY <1>4, <2>3 DEF SendReceipts
    <3>2. n \in 1 .. Len(deliveries)
      BY <3>1, Numbers
    <3>3. deliveries[n] \in Msgs /\ deliveries[n] <= received
      BY <3>2, ElementOfSeq DEF TypeInv, TypeOK, Within
    <3> QED
      BY <2>1, <3>1, <3>3, ReceiptIsGiven
  <2> QED
    BY <2>2, <2>3
<1>5. CASE ReceiptPut
  <2>1. /\ UNCHANGED <<received, broker, sent>> /\ rcptState = "put"
        /\ sendQueue' = Append(sendQueue, receiptId)
    BY <1>5 DEF ReceiptPut
  <2>2. receiptId \in Msgs /\ receiptId <= received
    BY <1>0, <2>1 DEF Receipts, Within
  <2> QED
    BY <2>1, <2>2, ReceiptIsGiven
<1>6. ASSUME NEW e \in {None, Error}, TerminateQueue(e), phase # "done",
             UNCHANGED <<received, broker, sent>>
      PROVE  AbstractStep
  <2>1. Serving
    BY <1>0, <1>d, <1>6 DEF Receipts, Serving
  <2>2. CASE sendQueue' = sendQueue
    BY <1>2, <1>6, <2>2
  <2>3. CASE sendQueue' = Append(sendQueue, e)
    BY <1>6, <2>1, <2>3, EndIsGiven
  <2> QED
    BY <1>6, <2>2, <2>3 DEF TerminateQueue
<1>7. CASE OpenChannelFails
  BY <1>6, <1>7 DEF OpenChannelFails
<1>8. CASE Finish
  BY <1>6, <1>8 DEF Finish, TypeInv, TypeOK
<1>9. CASE LateEndPut
  <2>1. /\ UNCHANGED <<received, broker, sent>> /\ lateEnd # NoEnd
        /\ sendQueue' = Append(sendQueue, lateEnd)
    BY <1>9 DEF LateEndPut
  <2>2. lateEnd \in {None, Error}
    BY <2>1 DEF TypeInv, TypeOK
  <2>3. Serving
    BY <1>0, <1>d, <2>1 DEF Receipts, Serving
  <2> QED
    BY <2>1, <2>2, <2>3, EndIsGiven
<1>10. ASSUME NEW m \in Msgs, PreprocessOk(m)
       PROVE  AbstractStep
  <2>1. broker' = [broker EXCEPT ![m] = "wire"] /\ future[m] = "preprocess"
        /\ UNCHANGED <<received, sent, sendQueue>>
    BY <1>10 DEF PreprocessOk
  <2>2. broker[m] = "none" /\ broker \in [Msgs -> {"none", "wire", "stored"}]
    BY <1>0, <2>1 DEF Stored, TypeInv, TypeOK
  <2>3. \A k \in Msgs : broker'[k] = "stored" <=> broker[k] = "stored"
    BY <2>1, <2>2
  <2>4. Durable' = Durable
    BY <2>3 DEF Durable
  <2>5. Out' = Out
    BY <2>1 DEF Out
  <2> QED
    BY <2>1, <2>4, <2>5, Stutters
<1>11. ASSUME NEW m \in Msgs, BrokerStores(m)
       PROVE  AbstractStep
  <2>1. broker' = [broker EXCEPT ![m] = "stored"] /\ broker[m] = "wire"
        /\ UNCHANGED <<received, sent, sendQueue>>
    BY <1>11 DEF BrokerStores
  <2>2. future[m] # "none"
    BY <1>0, <2>1 DEF Stored
  <2>3. m \in 1 .. received
    <3>1. m <= received
      BY <2>2 DEF Within
    <3>2. m \in Int /\ m >= 1 /\ received \in Nat
      BY Numbers, BoundAssumption DEF Msgs
    <3> QED
      BY <3>1, <3>2
  <2>4. broker \in [Msgs -> {"none", "wire", "stored"}]
    BY DEF TypeInv, TypeOK
  <2>5. {k \in Msgs : broker'[k] = "stored"} = {k \in Msgs : broker[k] = "stored"} \cup {m}
    BY <2>1, <2>4
  <2>6. m \notin {k \in Msgs : broker[k] = "stored"}
    BY <2>1
  <2>7. Out' = Out
    BY <2>1 DEF Out
  <2>8. LastReceipt' = LastReceipt
    BY <2>7 DEF LastReceipt
  <2>9. RS!Store
    BY <2>1, <2>3, <2>5, <2>6, <2>7, <2>8 DEF RS!Store
  <2> QED
    BY <2>9 DEF AbstractStep, RS!Next
<1>12. ASSUME NEW m \in Msgs, Deliver(m) \/ BrokerStores(m)
       PROVE  AbstractStep
  <2>1. CASE PublishConfirmed(m) \/ DeliveryFails(m) \/ OnConfirmation(m)
    BY <1>2, <2>1 DEF PublishConfirmed, DeliveryFails, OnConfirmation
  <2> QED
    BY <1>10, <1>11, <1>12, <2>1 DEF Deliver
<1>13. CASE PublishMessage \/ PublishBlocks \/ PublishResumes \/ PublishEnds
  BY <1>2, <1>13 DEF PublishMessage, PublishBlocks, PublishResumes, PublishEnds
<1>14. CASE ConnectionLost \/ OpenChannel \/ ReportFailure \/ UNCHANGED vars
  BY <1>2, <1>14 DEF ConnectionLost, OpenChannel, ReportFailure, vars
<1> QED
  BY <1>1, <1>3, <1>4, <1>5, <1>7, <1>8, <1>9, <1>12, <1>13, <1>14 DEF Next, Coroutines

LEMMA InitAbstract == Init => RS!Init
<1> SUFFICES ASSUME Init
             PROVE  RS!Init
  OBVIOUS
<1>1. Out = <<>>
  BY DEF Init, Out
<1>2. DOMAIN Out = {}
  BY <1>1
<1>3. Given = {}
  BY <1>2 DEF Given
<1>4. LastReceipt = 0
  BY <1>3, LastOfGiven DEF Latest
<1>5. {m \in Msgs : broker[m] = "stored"} = {}
  BY DEF Init
<1>6. \A i \in DOMAIN Out : Out[i] \in Msgs
  BY <1>2
<1> QED
  BY <1>4, <1>5, <1>6 DEF Init, RS!Init

\* The publisher implements ReceiptService for every queue size: receipts are
\* cumulative, ascending and true, and none follows the end of the task.
THEOREM ImplementsReceiptServiceHolds == Spec => ImplementsReceiptService
<1>1. Spec => [](TypeInv /\ Inv /\ Within)
  BY InvHolds, WithinInit, WithinNext, PTL DEF Spec
<1>2. TypeInv /\ Inv /\ Within /\ (TypeInv /\ Inv)' /\ [Next]_vars => [RS!Next]_(RS!vars)
  BY NextAbstract DEF AbstractStep
<1> QED
  BY <1>1, <1>2, InitAbstract, PTL DEF Spec, ImplementsReceiptService, RS!Spec

-----------------------------------------------------------------------------
(* Pausing bounds the backlog                                              *)

\* The most that recv_queue holds while reading is not paused.
Slack == IF HighWatermark = 0 THEN 0 ELSE HighWatermark - 1

Backlog ==
    /\ conn = "up" /\ ~paused => Len(recvQueue) <= Slack
    /\ conn = "up" => Len(recvQueue) <= Slack + MaxChunk
    /\ Len(recvQueue) <= Slack + MaxChunk + 1

LEMMA BacklogStep == TypeInv /\ Backlog /\ [Next]_vars => Backlog'
<1> SUFFICES ASSUME TypeInv, Backlog, [Next]_vars
             PROVE  Backlog'
  OBVIOUS
<1> USE DEF envVars, pubVars, rcptVars, futVars, endVars
<1>0. /\ Len(recvQueue) \in Nat /\ recvQueue \in Seq(Int) /\ MaxChunk \in Nat
      /\ paused \in BOOLEAN /\ conn \in {"up", "lost"}
  BY Numbers, BoundAssumption DEF TypeInv, TypeOK
<1>1. /\ Slack \in Nat /\ LowWatermark \in Nat /\ LowWatermark <= Slack
      /\ \A k \in Nat : k < HighWatermark => k <= Slack
  BY Watermarks DEF Slack
<1> HIDE DEF Slack, LowWatermark, HighWatermark
<1>2. CASE Receive
  <2>1. PICK n \in 1 .. MaxChunk : PutNowait([i \in 1 .. n |-> received + i])
    BY <1>2 DEF Receive
  <2> DEFINE new == [i \in 1 .. n |-> received + i]
  <2>2. n \in Nat /\ n <= MaxChunk
    BY <1>0
  <2>3. new \in Seq(Int) /\ Len(new) = n
    BY <2>2, Numbers
  <2>4. recvQueue' = recvQueue \o new /\ paused' = (paused \/ Len(recvQueue) + Len(new) >= HighWatermark)
    BY <2>1 DEF PutNowait
  <2> HIDE DEF new
  <2>5. Len(recvQueue') = Len(recvQueue) + n
    BY <1>0, <2>3, <2>4, ConcatProperties
  <2>6. conn = "up" /\ ~paused /\ conn' = conn
    BY <1>2 DEF Receive
  <2>7. Len(recvQueue) <= Slack
    BY <2>6 DEF Backlog
  <2>8. ~paused' => Len(recvQueue') <= Slack
    <3>1. HighWatermark \in Nat /\ Len(recvQueue) + n \in Nat
      BY <1>0, <2>2, Watermarks
    <3>2. ~paused' => Len(recvQueue) + n < HighWatermark
      <4>1. paused' = (paused \/ Len(recvQueue) + n >= HighWatermark)
        BY <2>3, <2>4
      <4>2. ~(Len(recvQueue) + n >= HighWatermark) => Len(recvQueue) + n < HighWatermark
        BY <3>1
      <4> QED
        BY <4>1, <4>2, Zenon
    <3> QED
      BY <1>1, <2>5, <3>1, <3>2
  <2>9. Len(recvQueue') <= Slack + MaxChunk /\ Len(recvQueue') <= Slack + MaxChunk + 1
    BY <1>0, <1>1, <2>2, <2>5, <2>7
  <2> QED
    BY <2>8, <2>9 DEF Backlog
<1>3. CASE ConnectionLost
  <2>1. conn = "up" /\ conn' = "lost" /\ recvQueue' = recvQueue \o <<None>>
    BY <1>3 DEF ConnectionLost, PutNowait
  <2>2. <<None>> \in Seq(Int) /\ Len(<<None>>) = 1
    BY DEF None
  <2>3. Len(recvQueue') = Len(recvQueue) + 1
    BY <1>0, <2>1, <2>2, ConcatProperties
  <2>4. Len(recvQueue) <= Slack + MaxChunk
    BY <2>1 DEF Backlog
  <2>5. Len(recvQueue') <= Slack + MaxChunk + 1
    BY <1>0, <1>1, <2>3, <2>4
  <2> QED
    BY <2>1, <2>5 DEF Backlog
\* Every other step leaves recv_queue alone or takes its first item, and resumes
\* reading only at the low watermark.
<1>4. ASSUME recvQueue' = recvQueue \/ (recvQueue # <<>> /\ recvQueue' = Tail(recvQueue)),
             paused' = paused \/ TaskDone(recvQueue'), conn' = conn
      PROVE  Backlog'
  <2>1. Len(recvQueue') \in Nat /\ Len(recvQueue') <= Len(recvQueue)
    <3>1. CASE recvQueue' = recvQueue
      BY <1>0, <3>1
    <3>2. CASE recvQueue # <<>> /\ recvQueue' = Tail(recvQueue)
      <4>1. Len(recvQueue') = Len(recvQueue) - 1 /\ Len(recvQueue) # 0
        BY <1>0, <3>2, HeadTailProperties, EmptySeq
      <4> QED
        BY <1>0, <4>1
    <3> QED
      BY <1>4, <3>1, <3>2
  <2>2. ~paused' => ~paused \/ Len(recvQueue') <= LowWatermark
    BY <1>0, <1>1, <1>4, <2>1 DEF TaskDone
  <2>3. conn = "up" /\ ~paused' => Len(recvQueue') <= Slack
    <3>1. conn = "up" /\ ~paused => Len(recvQueue) <= Slack
      BY DEF Backlog
    <3> QED
      BY <1>0, <1>1, <2>1, <2>2, <3>1
  <2>4. conn = "up" => Len(recvQueue') <= Slack + MaxChunk
    <3>1. conn = "up" => Len(recvQueue) <= Slack + MaxChunk
      BY DEF Backlog
    <3> QED
      BY <1>0, <1>1, <2>1, <3>1
  <2>5. Len(recvQueue') <= Slack + MaxChunk + 1
    <3>1. Len(recvQueue) <= Slack + MaxChunk + 1
      BY DEF Backlog
    <3> QED
      BY <1>0, <1>1, <2>1, <3>1
  <2> QED
    BY <1>4, <2>3, <2>4, <2>5 DEF Backlog
<1>5. CASE PublishMessage
  BY <1>4, <1>5 DEF PublishMessage, StartDelivery, TaskDone
<1>6. CASE PublishResumes
  BY <1>4, <1>6 DEF PublishResumes, StartDelivery, TaskDone
<1>7. CASE PublishBlocks \/ PublishEnds
  BY <1>4, <1>7 DEF PublishBlocks, PublishEnds
<1>8. ASSUME UNCHANGED <<recvQueue, paused, conn>>
      PROVE  Backlog'
  BY <1>4, <1>8
<1>9. ASSUME NEW m \in Msgs, Deliver(m) \/ BrokerStores(m)
      PROVE  Backlog'
  BY <1>8, <1>9 DEF Deliver, PreprocessOk, PublishConfirmed, DeliveryFails, OnConfirmation,
                    BrokerStores
<1>10. CASE \/ WriterGet \/ SendReceipts \/ ReceiptPut \/ OpenChannel \/ OpenChannelFails
            \/ ReportFailure \/ Finish \/ LateEndPut \/ UNCHANGED vars
  BY <1>8, <1>10 DEF WriterGet, SendReceipts, ReceiptPut, OpenChannel, OpenChannelFails,
                     ReportFailure, Finish, LateEndPut, vars
<1> QED
  BY <1>2, <1>3, <1>5, <1>6, <1>7, <1>9, <1>10 DEF Next, Coroutines

\* Pausing at the high watermark bounds recv_queue for every size of a chunk.
THEOREM BacklogIsBounded == Spec => []BacklogBound
<1>1. Init => Backlog
  BY Watermarks, BoundAssumption DEF Init, Backlog, Slack
<1>2. TypeInv /\ Backlog => BacklogBound
  <2> SUFFICES ASSUME TypeInv, Backlog
               PROVE  Len(recvQueue) <= Slack + MaxChunk + (IF conn = "lost" THEN 1 ELSE 0)
    BY DEF BacklogBound, Slack
  <2>1. conn \in {"up", "lost"} /\ Slack + MaxChunk \in Nat
    BY Watermarks, BoundAssumption DEF TypeInv, TypeOK, Slack
  <2> HIDE DEF Slack
  <2> QED
    BY <2>1 DEF Backlog
<1> QED
  BY <1>1, <1>2, TypeInit, TypeNext, BacklogStep, PTL DEF Spec

=============================================================================
