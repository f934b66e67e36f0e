---------------------------- MODULE ConsumerProofs ----------------------------
(***************************************************************************)
(* Proofs about Consumer, for any size of the queues, any number of        *)
(* messages and of failures, and any messages that are refused.            *)
(***************************************************************************)
EXTENDS Consumer, SequenceTheorems, TLAPS

Types ==
    /\ queue \in Seq(Msgs) /\ delivered \in Seq(Msgs)
    /\ acked \in Nat /\ taken \in Nat /\ sent \in Nat /\ receipted \in Nat
    /\ sendQ \in Seq(Int) /\ recvQ \in Seq(Int)
    /\ phase \in {"open", "run", "done"}
    /\ conn \in {"up", "closing", "lost"}
    /\ lateEnd \in {NoEnd, None, Error}

\* How far a delivery has come: delivered, taken, sent, receipted, acknowledged.
Progress ==
    /\ acked <= receipted /\ receipted <= sent /\ sent <= taken /\ taken <= Len(delivered)
    /\ phase = "open" => delivered = <<>> /\ sendQ = <<>>
    /\ phase = "run" => Len(delivered) <= acked + Prefetch

\* send_queue holds the tags that are taken and not sent, then ends.
Ends == {None, Error}
Sending ==
    /\ \A i \in DOMAIN sendQ : sendQ[i] \notin Ends =>
          /\ sendQ[i] = sent + i /\ sendQ[i] <= taken
          /\ \A j \in 1 .. i - 1 : sendQ[j] \notin Ends
    /\ phase = "run" => Len(sendQ) = taken - sent /\ \A i \in DOMAIN sendQ : sendQ[i] \notin Ends
    /\ lateEnd # NoEnd => phase = "done"

\* A tag with a receipt, and every one below it, is stored.
Storing ==
    /\ storedTags \subseteq 1 .. sent /\ 1 .. receipted \subseteq storedTags
    /\ \A t \in storedTags : delivered[t] \in stored

\* The receipts in recv_queue ascend from above the last acknowledged tag; only
\* the loss of the connection ends them.
Receipts ==
    \A i \in DOMAIN recvQ :
        /\ recvQ[i] = None => conn = "lost" /\ i = Len(recvQ)
        /\ recvQ[i] # None => acked + i <= recvQ[i] /\ recvQ[i] <= receipted
        /\ \A j \in i + 1 .. Len(recvQ) : recvQ[j] # None => recvQ[i] + (j - i) <= recvQ[j]

\* What was not acknowledged is back at the front of the RabbitMQ queue.
Returned ==
    phase = "done" =>
        /\ Len(delivered) - acked <= Len(queue)
        /\ \A t \in acked + 1 .. Len(delivered) : queue[t - acked] = delivered[t]

CInv == Types /\ Progress /\ Sending /\ Storing /\ Receipts /\ Returned

-----------------------------------------------------------------------------
(* Sequences                                                               *)

LEMMA AppendFacts ==
    ASSUME NEW S, NEW s \in Seq(S), NEW x \in S
    PROVE  /\ Append(s, x) \in Seq(S) /\ Len(Append(s, x)) = Len(s) + 1
           /\ DOMAIN Append(s, x) = 1 .. Len(s) + 1 /\ DOMAIN s = 1 .. Len(s) /\ Len(s) \in Nat
           /\ \A i \in 1 .. Len(s) : Append(s, x)[i] = s[i]
           /\ Append(s, x)[Len(s) + 1] = x
BY AppendProperties, LenProperties

LEMMA TailFacts ==
    ASSUME NEW S, NEW s \in Seq(S), s # <<>>
    PROVE  /\ Tail(s) \in Seq(S) /\ Len(Tail(s)) = Len(s) - 1 /\ Len(s) \in Nat \ {0}
           /\ DOMAIN Tail(s) = 1 .. Len(s) - 1 /\ DOMAIN s = 1 .. Len(s)
           /\ \A i \in 1 .. Len(s) - 1 : Tail(s)[i] = s[i + 1]
           /\ Head(s) = s[1] /\ s[1] \in S
<1>1. Len(s) \in Nat \ {0} /\ DOMAIN s = 1 .. Len(s)
  BY EmptySeq, LenProperties
<1>2. /\ Tail(s) \in Seq(S) /\ Len(Tail(s)) = Len(s) - 1
      /\ \A i \in 1 .. Len(Tail(s)) : Tail(s)[i] = s[i + 1]
  BY HeadTailProperties
<1>3. DOMAIN Tail(s) = 1 .. Len(s) - 1
  BY <1>2, LenProperties
<1>4. Head(s) = s[1] /\ s[1] \in S
  BY <1>1, ElementOfSeq
<1> QED
  BY <1>1, <1>2, <1>3, <1>4

LEMMA Below ==
    ASSUME NEW n \in Nat
    PROVE  /\ n - 1 # n
           /\ \A i \in 1 .. n : \A j \in 1 .. i - 1 :
                 /\ j \in 1 .. n /\ j # n /\ i \in j + 1 .. n
                 /\ i - j \in Int /\ i - j >= 1
OBVIOUS

\* Deliveries that return to the front of the queue.
Join(d, a, q) == SubSeq(d, a + 1, Len(d)) \o q

LEMMA JoinFacts ==
    ASSUME NEW S, NEW d \in Seq(S), NEW q \in Seq(S), NEW a \in 0 .. Len(d)
    PROVE  /\ Join(d, a, q) \in Seq(S)
           /\ Len(Join(d, a, q)) = Len(d) - a + Len(q)
           /\ \A i \in 1 .. Len(d) - a + Len(q) :
                 Join(d, a, q)[i] = IF i <= Len(d) - a THEN d[a + i] ELSE q[i - (Len(d) - a)]
<1> DEFINE u == SubSeq(d, a + 1, Len(d))
<1>1. Len(d) \in Nat /\ Len(q) \in Nat /\ a \in Nat /\ a <= Len(d)
  BY LenProperties
<1>2. \A i \in a + 1 .. Len(d) : d[i] \in S
  BY <1>1, ElementOfSeq
<1>3. /\ u \in Seq(S)
      /\ Len(u) = IF a + 1 <= Len(d) THEN Len(d) - (a + 1) + 1 ELSE 0
      /\ \A i \in 1 .. Len(d) - (a + 1) + 1 : u[i] = d[a + 1 + i - 1]
  <2>1. a + 1 \in Int /\ Len(d) \in Int
    BY <1>1
  <2> HIDE DEF u
  <2> QED
    BY <1>2, <2>1, SubSeqProperties DEF u
<1>4. Len(u) = Len(d) - a /\ \A i \in 1 .. Len(d) - a : u[i] = d[a + i]
  BY <1>1, <1>3
<1> HIDE DEF u
<1>5. /\ u \o q \in Seq(S) /\ Len(u \o q) = Len(u) + Len(q)
      /\ \A i \in 1 .. Len(u) + Len(q) :
            (u \o q)[i] = IF i <= Len(u) THEN u[i] ELSE q[i - Len(u)]
  BY <1>3, ConcatProperties
<1>6. Join(d, a, q) = u \o q
  BY DEF Join, u
<1> QED
  BY <1>1, <1>4, <1>5, <1>6

LEMMA RequeuedFacts ==
    ASSUME CInv
    PROVE  /\ Requeued \in Seq(Msgs)
           /\ Requeued = IF phase = "run" THEN Join(delivered, acked, queue) ELSE queue
           /\ Len(delivered) \in Nat /\ acked \in 0 .. Len(delivered)
<1>1. Len(delivered) \in Nat /\ acked \in 0 .. Len(delivered)
  BY LenProperties DEF CInv, Types, Progress
<1>2. Requeued = IF phase = "run" THEN Join(delivered, acked, queue) ELSE queue
  BY DEF Requeued, Unacked, Join
<1> QED
  BY <1>1, <1>2, JoinFacts DEF CInv, Types

-----------------------------------------------------------------------------
(* Every step keeps the invariant                                          *)

LEMMA InitCInv == Init => CInv
<1> SUFFICES ASSUME Init PROVE CInv
  OBVIOUS
<1>1. queue \in Seq(Msgs)
  BY BoundAssumption DEF Init, Msgs
<1>2. Len(delivered) = 0 /\ delivered \in Seq(Msgs) /\ sendQ \in Seq(Int) /\ recvQ \in Seq(Int)
      /\ DOMAIN sendQ = {} /\ DOMAIN recvQ = {}
  BY EmptySeq DEF Init
<1> QED
  BY <1>1, <1>2 DEF Init, CInv, Types, Progress, Sending, Storing, Receipts, Returned, NoEnd

\* An end in send_queue, or one that waits for room there, disturbs no tag.
LEMMA EndOnSendQ ==
    ASSUME Types, Sending, NEW e \in Ends, phase' = "done",
           \/ sendQ' = sendQ
           \/ sendQ' = Append(sendQ, e),
           UNCHANGED <<sent, taken>>
    PROVE  Sending'
<1>e. e \in Int
  BY DEF Ends, None, Error
<1>s. /\ DOMAIN Append(sendQ, e) = 1 .. Len(sendQ) + 1 /\ DOMAIN sendQ = 1 .. Len(sendQ)
      /\ Len(sendQ) \in Nat
      /\ \A i \in 1 .. Len(sendQ) : Append(sendQ, e)[i] = sendQ[i]
      /\ Append(sendQ, e)[Len(sendQ) + 1] = e
  BY <1>e, AppendFacts DEF Types
<1>1. ASSUME NEW i \in DOMAIN sendQ', sendQ'[i] \notin Ends
      PROVE  /\ sendQ'[i] = sent + i /\ sendQ'[i] <= taken
             /\ \A j \in 1 .. i - 1 : sendQ'[j] \notin Ends
  <2>1. i \in 1 .. Len(sendQ) /\ \A j \in 1 .. i : sendQ'[j] = sendQ[j]
    BY <1>s, <1>1
  <2>2. i \in DOMAIN sendQ /\ sendQ[i] \notin Ends /\ i \in 1 .. i
    BY <1>s, <1>1, <2>1
  <2>3. /\ sendQ[i] = sent + i /\ sendQ[i] <= taken
        /\ \A j \in 1 .. i - 1 : sendQ[j] \notin Ends
    BY <2>2 DEF Sending
  <2> QED
    BY <1>s, <2>1, <2>2, <2>3
<1> QED
  BY <1>1 DEF Sending

\* The task ends: nothing that a connection still does depends on it.
LEMMA EndTaskStep ==
    ASSUME CInv, phase # "done", NEW e \in Ends, EndTask(e), recvQ' \in Seq(Int), Receipts',
           UNCHANGED <<conn, sent, storedTags, receipted, stored>>
    PROVE  CInv'
<1>e. e \in Int /\ e \in {NoEnd, None, Error}
  BY DEF Ends, None, Error
<1>q. /\ phase' = "done" /\ queue' = Requeued /\ delivered' = delivered /\ acked' = acked
      /\ taken' = taken
      /\ \/ lateEnd' = e /\ sendQ' = sendQ
         \/ sendQ' = Append(sendQ, e) /\ lateEnd' = lateEnd
  BY DEF EndTask
<1>r. /\ Requeued \in Seq(Msgs)
      /\ Requeued = IF phase = "run" THEN Join(delivered, acked, queue) ELSE queue
      /\ Len(delivered) \in Nat /\ acked \in 0 .. Len(delivered)
  BY RequeuedFacts
<1>s. /\ sendQ \in Seq(Int) /\ Append(sendQ, e) \in Seq(Int) /\ Len(sendQ) \in Nat
      /\ DOMAIN Append(sendQ, e) = 1 .. Len(sendQ) + 1 /\ DOMAIN sendQ = 1 .. Len(sendQ)
      /\ \A i \in 1 .. Len(sendQ) : Append(sendQ, e)[i] = sendQ[i]
      /\ Append(sendQ, e)[Len(sendQ) + 1] = e
  BY <1>e, AppendFacts DEF CInv, Types
<1>1. Types'
  BY <1>e, <1>q, <1>r, <1>s DEF CInv, Types
<1>2. Progress'
  BY <1>q DEF CInv, Progress
<1>3. Sending'
  BY <1>q, EndOnSendQ DEF CInv
<1>4. Storing'
  BY <1>q DEF CInv, Storing
<1>5. Returned'
  <2>1. CASE phase = "run"
    <3>1. /\ Len(queue') = Len(delivered) - acked + Len(queue) /\ Len(queue) \in Nat
          /\ \A i \in 1 .. Len(delivered) - acked : queue'[i] = delivered[acked + i]
      <4>1. queue \in Seq(Msgs) /\ delivered \in Seq(Msgs) /\ Len(queue) \in Nat
        BY LenProperties DEF CInv, Types
      <4>2. queue' = Join(delivered, acked, queue)
        BY <1>q, <1>r, <2>1
      <4>3. /\ Len(Join(delivered, acked, queue)) = Len(delivered) - acked + Len(queue)
            /\ \A i \in 1 .. Len(delivered) - acked + Len(queue) :
                  Join(delivered, acked, queue)[i] =
                     IF i <= Len(delivered) - acked THEN delivered[acked + i]
                     ELSE queue[i - (Len(delivered) - acked)]
        BY <1>r, <4>1, JoinFacts
      <4>4. \A i \in 1 .. Len(delivered) - acked :
               i \in 1 .. Len(delivered) - acked + Len(queue) /\ i <= Len(delivered) - acked
        BY <1>r, <4>1
      <4> QED
        BY <4>1, <4>2, <4>3, <4>4
    <3>2. Len(delivered') - acked' <= Len(queue')
      BY <1>q, <1>r, <3>1
    <3>3. ASSUME NEW t \in acked + 1 .. Len(delivered)
          PROVE  queue'[t - acked] = delivered[t]
      <4>1. t - acked \in 1 .. Len(delivered) - acked /\ acked + (t - acked) = t
        BY <1>r
      <4> QED
        BY <3>1, <4>1
    <3>4. \A t \in acked' + 1 .. Len(delivered') : queue'[t - acked'] = delivered'[t]
      BY <1>q, <3>3
    <3> QED
      BY <3>2, <3>4 DEF Returned
  <2>2. CASE phase = "open"
    <3>1. Len(delivered) = 0 /\ Len(queue) \in Nat
      BY <2>2, EmptySeq, LenProperties DEF CInv, Types, Progress
    <3> QED
      BY <1>q, <1>r, <2>2, <3>1 DEF Returned
  <2> QED
    BY <2>1, <2>2 DEF CInv, Types
<1> QED
  BY <1>1, <1>2, <1>3, <1>4, <1>5 DEF CInv

\* A new process has nothing of the old one, and what was not acknowledged.
LEMMA NewProcessStep ==
    ASSUME CInv, NewProcess
    PROVE  CInv'
<1>1. queue' \in Seq(Msgs)
  BY RequeuedFacts DEF NewProcess
<1>2. /\ <<>> \in Seq(Msgs) /\ <<>> \in Seq(Int) /\ Len(<<>>) = 0 /\ DOMAIN <<>> = {}
  BY EmptySeq
<1> QED
  BY <1>1, <1>2 DEF NewProcess, CInv, Types, Progress, Sending, Storing, Receipts, Returned, NoEnd

LEMMA OpenChannelStep ==
    ASSUME CInv, OpenChannel
    PROVE  CInv'
<1>1. Len(delivered) = 0 /\ Len(sendQ) = 0 /\ DOMAIN sendQ = {} /\ Prefetch \in Nat
  BY EmptySeq, QueueAssumption DEF CInv, Progress, OpenChannel, Prefetch
<1>2. acked = 0 /\ taken = 0 /\ sent = 0
  BY <1>1 DEF CInv, Types, Progress
<1> USE DEF OpenChannel, rmqVars, recvVars, peerVars
<1>3. Sending'
  BY <1>1, <1>2 DEF CInv, Sending
<1> QED
  BY <1>1, <1>2, <1>3 DEF CInv, Types, Progress, Storing, Receipts, Returned

LEMMA LateEndPutStep ==
    ASSUME CInv, LateEndPut
    PROVE  CInv'
<1> USE DEF LateEndPut, rmqVars, recvVars, peerVars
<1>1. lateEnd \in Ends /\ lateEnd \in Int /\ phase = "done" /\ phase' = "done"
  BY DEF CInv, Types, Sending, Ends, None, Error
<1>2. sendQ' \in Seq(Int)
  BY <1>1, AppendFacts DEF CInv, Types
<1>3. Sending'
  BY <1>1, EndOnSendQ DEF CInv
<1> QED
  BY <1>1, <1>2, <1>3 DEF CInv, Types, Progress, Storing, Receipts, Returned

LEMMA BrokerDeliversStep ==
    ASSUME CInv, BrokerDelivers
    PROVE  CInv'
<1> USE DEF BrokerDelivers, taskVars, recvVars, peerVars
<1>1. /\ Head(queue) \in Msgs /\ Tail(queue) \in Seq(Msgs)
  BY TailFacts DEF CInv, Types
<1>2. /\ delivered' \in Seq(Msgs) /\ Len(delivered') = Len(delivered) + 1
      /\ Len(delivered) \in Nat
      /\ \A t \in 1 .. Len(delivered) : delivered'[t] = delivered[t]
  BY <1>1, AppendFacts DEF CInv, Types
<1>3. Prefetch \in Nat
  BY QueueAssumption DEF Prefetch
<1>4. Types'
  BY <1>1, <1>2 DEF CInv, Types
<1>5. Progress'
  BY <1>2, <1>3 DEF CInv, Types, Progress
<1>6. Storing'
  BY <1>2 DEF CInv, Types, Progress, Storing
<1> QED
  BY <1>4, <1>5, <1>6 DEF CInv, Sending, Receipts, Returned

LEMMA ConsumeMessageStep ==
    ASSUME CInv, ConsumeMessage
    PROVE  CInv'
<1> USE DEF ConsumeMessage, rmqVars, recvVars, peerVars
<1>1. Len(delivered) \in Nat /\ taken + 1 <= Len(delivered) /\ taken \in Nat /\ sent \in Nat
      /\ sent <= taken
  BY LenProperties DEF CInv, Types, Progress
<1>2. /\ sendQ' \in Seq(Int) /\ Len(sendQ') = Len(sendQ) + 1
      /\ DOMAIN sendQ' = 1 .. Len(sendQ) + 1 /\ DOMAIN sendQ = 1 .. Len(sendQ)
      /\ Len(sendQ) \in Nat
      /\ \A i \in 1 .. Len(sendQ) : sendQ'[i] = sendQ[i]
      /\ sendQ'[Len(sendQ) + 1] = taken + 1
  BY <1>1, AppendFacts DEF CInv, Types
<1>3. /\ Len(sendQ) = taken - sent
      /\ \A i \in 1 .. Len(sendQ) : sendQ[i] \notin Ends /\ sendQ[i] = sent + i
  BY <1>2 DEF CInv, Sending
<1>4. \A i \in 1 .. Len(sendQ) + 1 : sendQ'[i] = sent + i
  BY <1>1, <1>2, <1>3
<1>5. Sending'
  <2>1. \A i \in 1 .. Len(sendQ) + 1 : sendQ'[i] \notin Ends /\ sendQ'[i] <= taken + 1
    BY <1>1, <1>2, <1>3, <1>4 DEF Ends, None, Error
  <2>2. \A i \in DOMAIN sendQ' : \A j \in 1 .. i - 1 : sendQ'[j] \notin Ends
    BY <1>2, <2>1
  <2> QED
    <3>1. /\ phase' = phase /\ lateEnd' = lateEnd /\ sent' = sent /\ taken' = taken + 1
          /\ Len(sendQ') = taken' - sent'
      BY <1>1, <1>2, <1>3
    <3>2. lateEnd' # NoEnd => phase' = "done"
      BY <3>1 DEF CInv, Sending
    <3> QED
      BY <1>2, <1>4, <2>1, <2>2, <3>1, <3>2 DEF Sending
<1>6. Types'
  BY <1>1, <1>2 DEF CInv, Types
<1>7. Progress'
  BY <1>1 DEF CInv, Types, Progress
<1> QED
  BY <1>5, <1>6, <1>7 DEF CInv, Storing, Receipts, Returned

LEMMA SendAckStep ==
    ASSUME CInv, SendAck
    PROVE  CInv'
<1> USE DEF SendAck, taskVars, peerVars
<1>1. /\ recvQ' \in Seq(Int) /\ Len(recvQ') = Len(recvQ) - 1 /\ Len(recvQ) \in Nat \ {0}
      /\ DOMAIN recvQ' = 1 .. Len(recvQ) - 1 /\ DOMAIN recvQ = 1 .. Len(recvQ)
      /\ \A i \in 1 .. Len(recvQ) - 1 : recvQ'[i] = recvQ[i + 1]
      /\ acked' = recvQ[1] /\ recvQ[1] \in Int /\ recvQ[1] # None
  BY TailFacts DEF CInv, Types
<1>2. /\ acked + 1 <= recvQ[1] /\ recvQ[1] <= receipted
      /\ \A j \in 1 + 1 .. Len(recvQ) : recvQ[j] # None => recvQ[1] + (j - 1) <= recvQ[j]
  <2>1. 1 \in DOMAIN recvQ
    BY <1>1
  <2> QED
    BY <1>1, <2>1 DEF CInv, Receipts
<1>3. Prefetch \in Nat /\ Len(delivered) \in Nat /\ acked \in Nat /\ receipted \in Nat
  BY QueueAssumption, LenProperties DEF Prefetch, CInv, Types
<1>4. Types'
  BY <1>1, <1>2, <1>3 DEF CInv, Types
<1>5. Progress'
  BY <1>1, <1>2, <1>3 DEF CInv, Types, Progress
<1>6. Receipts'
  <2> SUFFICES ASSUME NEW i \in 1 .. Len(recvQ) - 1
               PROVE  /\ recvQ'[i] = None => conn' = "lost" /\ i = Len(recvQ')
                      /\ recvQ'[i] # None => acked' + i <= recvQ'[i] /\ recvQ'[i] <= receipted'
                      /\ \A j \in i + 1 .. Len(recvQ') :
                            recvQ'[j] # None => recvQ'[i] + (j - i) <= recvQ'[j]
    BY <1>1 DEF Receipts
  <2>1. i + 1 \in DOMAIN recvQ /\ recvQ'[i] = recvQ[i + 1]
    BY <1>1
  <2>2. /\ recvQ[i + 1] = None => conn = "lost" /\ i + 1 = Len(recvQ)
        /\ recvQ[i + 1] # None => recvQ[i + 1] <= receipted
        /\ \A j \in (i + 1) + 1 .. Len(recvQ) :
              recvQ[j] # None => recvQ[i + 1] + (j - (i + 1)) <= recvQ[j]
    BY <2>1 DEF CInv, Receipts
  <2>3. recvQ[i + 1] # None => recvQ[1] + i <= recvQ[i + 1]
    <3>1. i + 1 \in 1 + 1 .. Len(recvQ) /\ (i + 1) - 1 = i
      BY <1>1
    <3> QED
      BY <1>2, <3>1
  <2>4. ASSUME NEW j \in i + 1 .. Len(recvQ'), recvQ'[j] # None
        PROVE  recvQ'[i] + (j - i) <= recvQ'[j]
    <3>1. j + 1 \in (i + 1) + 1 .. Len(recvQ) /\ recvQ'[j] = recvQ[j + 1]
      BY <1>1, <2>4
    <3>2. recvQ[i + 1] + ((j + 1) - (i + 1)) <= recvQ[j + 1]
      BY <2>2, <2>4, <3>1
    <3>3. (j + 1) - (i + 1) = j - i
      BY <2>4, <1>1
    <3> QED
      BY <2>1, <3>1, <3>2, <3>3
  <2>5. recvQ'[i] = None => conn' = "lost" /\ i = Len(recvQ')
    <3>1. conn' = conn
      OBVIOUS
    <3>2. Len(recvQ') = Len(recvQ) - 1 /\ Len(recvQ) \in Nat
      BY <1>1
    <3> QED
      BY <2>1, <2>2, <3>1, <3>2
  <2>6. recvQ'[i] # None => acked' + i <= recvQ'[i] /\ recvQ'[i] <= receipted'
    BY <1>1, <2>1, <2>2, <2>3
  <2> QED
    BY <2>4, <2>5, <2>6
<1> QED
  BY <1>4, <1>5, <1>6 DEF CInv, Sending, Storing, Returned

LEMMA AcksEndStep ==
    ASSUME CInv, AcksEnd
    PROVE  CInv'
<1> USE DEF AcksEnd, peerVars
<1>1. /\ recvQ' \in Seq(Int) /\ Len(recvQ) \in Nat \ {0} /\ recvQ[1] = None
      /\ DOMAIN recvQ' = 1 .. Len(recvQ) - 1 /\ DOMAIN recvQ = 1 .. Len(recvQ)
  BY TailFacts DEF CInv, Types
<1>2. Len(recvQ) = 1
  BY <1>1 DEF CInv, Receipts
<1>3. Receipts'
  BY <1>1, <1>2 DEF Receipts
<1> QED
  BY <1>1, <1>3, EndTaskStep DEF Ends

LEMMA LinkSendsStep ==
    ASSUME CInv, LinkSends
    PROVE  CInv'
<1> USE DEF LinkSends, rmqVars, recvVars, peerVars
<1>1. /\ sendQ' \in Seq(Int) /\ Len(sendQ') = Len(sendQ) - 1 /\ Len(sendQ) \in Nat \ {0}
      /\ DOMAIN sendQ' = 1 .. Len(sendQ) - 1 /\ DOMAIN sendQ = 1 .. Len(sendQ)
      /\ \A i \in 1 .. Len(sendQ) - 1 : sendQ'[i] = sendQ[i + 1]
      /\ Head(sendQ) = sendQ[1]
  BY TailFacts DEF CInv, Types
<1>2. phase # "open" /\ taken \in Nat /\ sent \in Nat /\ receipted \in Nat
  BY DEF CInv, Types, Progress
<1>3. CASE sendQ[1] \in Ends
  <2>1. conn' = "closing" /\ sent' = sent /\ conn = "up"
    BY <1>1, <1>3 DEF Ends
  <2>2. phase # "run" /\ \A i \in 1 .. Len(sendQ) : sendQ[i] \in Ends
    BY <1>1, <1>3 DEF CInv, Sending
  <2>3. \A i \in DOMAIN sendQ' : sendQ'[i] \in Ends
    BY <1>1, <2>2
  <2>4. Sending'
    BY <2>2, <2>3 DEF CInv, Sending
  <2>5. Receipts'
    BY <2>1 DEF CInv, Receipts
  <2> QED
    BY <1>1, <1>2, <2>1, <2>2, <2>4, <2>5 DEF CInv, Types, Progress, Storing, Returned
<1>4. CASE sendQ[1] \notin Ends
  <2>1. conn' = conn /\ sent' = sendQ[1]
    BY <1>1, <1>4 DEF Ends
  <2>2. sendQ[1] = sent + 1 /\ sendQ[1] <= taken
    BY <1>1, <1>4 DEF CInv, Sending
  <2>3. Sending'
    <3>1. ASSUME NEW i \in 1 .. Len(sendQ) - 1, sendQ'[i] \notin Ends
          PROVE  /\ sendQ'[i] = sent' + i /\ sendQ'[i] <= taken
                 /\ \A j \in 1 .. i - 1 : sendQ'[j] \notin Ends
      <4>1. i + 1 \in DOMAIN sendQ /\ sendQ'[i] = sendQ[i + 1]
        BY <1>1
      <4>2. /\ sendQ[i + 1] = sent + (i + 1) /\ sendQ[i + 1] <= taken
            /\ \A j \in 1 .. (i + 1) - 1 : sendQ[j] \notin Ends
        BY <3>1, <4>1 DEF CInv, Sending
      <4>3. ASSUME NEW j \in 1 .. i - 1
            PROVE  sendQ'[j] \notin Ends
        <5>1. j + 1 \in 1 .. (i + 1) - 1 /\ sendQ'[j] = sendQ[j + 1]
          BY <1>1, <4>3
        <5> QED
          BY <4>2, <5>1
      <4> QED
        BY <1>2, <2>1, <2>2, <4>1, <4>2, <4>3
    <3>2. phase = "run" => /\ Len(sendQ') = taken - sent'
                           /\ \A i \in 1 .. Len(sendQ) - 1 : sendQ'[i] \notin Ends
      <4>1. phase = "run" => Len(sendQ) = taken - sent /\ \A i \in DOMAIN sendQ : sendQ[i] \notin Ends
        BY DEF CInv, Sending
      <4>2. \A i \in 1 .. Len(sendQ) - 1 : i + 1 \in DOMAIN sendQ
        BY <1>1
      <4>3. phase = "run" => Len(sendQ') = taken - sent'
        BY <1>1, <1>2, <2>1, <2>2, <4>1
      <4>4. phase = "run" => \A i \in 1 .. Len(sendQ) - 1 : sendQ[i + 1] \notin Ends
        BY <4>1, <4>2
      <4> QED
        BY <1>1, <4>3, <4>4
    <3> QED
      BY <1>1, <3>1, <3>2 DEF CInv, Sending
  <2>4. Types'
    BY <1>1, <1>2, <2>1, <2>2 DEF CInv, Types
  <2>5. Progress'
    BY <1>2, <2>1, <2>2 DEF CInv, Types, Progress
  <2>6. Storing'
    BY <1>2, <2>1, <2>2 DEF CInv, Storing
  <2> QED
    BY <2>1, <2>3, <2>4, <2>5, <2>6 DEF CInv, Receipts, Returned
<1> QED
  BY <1>3, <1>4

LEMMA PeerStoresStep ==
    ASSUME CInv, NEW m \in Msgs, PeerStores(m)
    PROVE  CInv'
<1> USE DEF PeerStores, rmqVars, taskVars, recvVars
<1>1. PICK t \in 1 .. sent \ storedTags :
         delivered[t] = m /\ storedTags' = storedTags \cup {t} /\ stored' = stored \cup {m}
  OBVIOUS
<1>2. Storing'
  BY <1>1 DEF CInv, Storing
<1> QED
  BY <1>2 DEF CInv, Types, Progress, Sending, Receipts, Returned

\* A step that puts one item at the end of recv_queue.
LEMMA RecvQPut ==
    ASSUME CInv, NEW x \in Int, recvQ' = Append(recvQ, x), conn # "lost", acked' = acked,
           conn' = IF x = None THEN "lost" ELSE conn,
           receipted' \in Nat, receipted <= receipted',
           x # None => receipted < x /\ x <= receipted'
    PROVE  recvQ' \in Seq(Int) /\ Receipts'
<1> DEFINE n == Len(recvQ)
<1>1. /\ recvQ' \in Seq(Int) /\ Len(recvQ') = n + 1 /\ n \in Nat
      /\ DOMAIN recvQ' = 1 .. n + 1 /\ DOMAIN recvQ = 1 .. n
      /\ \A i \in 1 .. n : recvQ'[i] = recvQ[i]
      /\ recvQ'[n + 1] = x
  BY AppendFacts DEF CInv, Types
<1>2. \A i \in 1 .. n : recvQ[i] \in Int /\ recvQ[i] # None
  BY <1>1, ElementOfSeq DEF CInv, Types, Receipts
<1>3. \A i \in 1 .. n : /\ acked + i <= recvQ[i] /\ recvQ[i] <= receipted
                        /\ \A j \in i + 1 .. n : recvQ[i] + (j - i) <= recvQ[j]
  <2> TAKE i \in 1 .. n
  <2>1. i \in DOMAIN recvQ /\ recvQ[i] # None /\ \A j \in i + 1 .. n : recvQ[j] # None
    BY <1>1, <1>2
  <2> QED
    BY <2>1 DEF CInv, Receipts
<1>4. acked \in Nat /\ receipted \in Nat /\ acked <= receipted
  BY DEF CInv, Types, Progress
<1>5. x # None => acked + (n + 1) <= x /\ \A i \in 1 .. n : recvQ[i] + (n + 1 - i) <= x
  <2>1. CASE n = 0
    BY <1>4, <2>1
  <2>2. CASE n # 0
    <3>1. n \in 1 .. n /\ acked + n <= recvQ[n] /\ recvQ[n] <= receipted
      BY <1>1, <1>3, <2>2
    <3>2. \A i \in 1 .. n : recvQ[i] + (n - i) <= recvQ[n]
      BY <1>1, <1>2, <1>3, <3>1
    <3>3. n \in Nat /\ recvQ[n] \in Int
      BY <1>1, <1>2, <3>1
    <3> HIDE DEF n
    <3>4. x # None => acked + (n + 1) <= x
      BY <1>4, <3>1, <3>3
    <3>5. ASSUME NEW i \in 1 .. n, x # None
          PROVE  recvQ[i] + (n + 1 - i) <= x
      <4>1. recvQ[i] \in Int /\ recvQ[i] + (n - i) <= recvQ[n]
        BY <1>2, <3>2
      <4>2. recvQ[n] < x
        BY <1>4, <3>1, <3>3, <3>5
      <4> QED
        BY <3>3, <4>1, <4>2
    <3> QED
      BY <3>4, <3>5
  <2> QED
    BY <2>1, <2>2
<1>6. Receipts'
  <2> SUFFICES ASSUME NEW i \in 1 .. n + 1
               PROVE  /\ recvQ'[i] = None => conn' = "lost" /\ i = n + 1
                      /\ recvQ'[i] # None => acked + i <= recvQ'[i] /\ recvQ'[i] <= receipted'
                      /\ \A j \in i + 1 .. n + 1 :
                            recvQ'[j] # None => recvQ'[i] + (j - i) <= recvQ'[j]
    BY <1>1 DEF Receipts
  <2>1. CASE i = n + 1
    BY <1>1, <1>5, <2>1
  <2>2. CASE i \in 1 .. n
    <3>1. recvQ'[i] = recvQ[i] /\ recvQ'[i] # None
      BY <1>1, <1>2, <2>2
    <3>2. acked + i <= recvQ'[i] /\ recvQ'[i] <= receipted'
      BY <1>2, <1>3, <1>4, <2>2, <3>1
    <3>3. ASSUME NEW j \in i + 1 .. n + 1, recvQ'[j] # None
          PROVE  recvQ'[i] + (j - i) <= recvQ'[j]
      <4>1. CASE j = n + 1
        BY <1>1, <1>5, <2>2, <3>1, <3>3, <4>1
      <4>2. CASE j \in i + 1 .. n
        BY <1>1, <1>3, <2>2, <3>1, <4>2
      <4>3. n \in Nat
        BY <1>1
      <4>4. j = n + 1 \/ j \in i + 1 .. n
        <5> HIDE DEF n
        <5> QED
          BY <2>2, <4>3
      <4> QED
        BY <4>1, <4>2, <4>4
    <3>4. \A j \in i + 1 .. n + 1 : recvQ'[j] # None => recvQ'[i] + (j - i) <= recvQ'[j]
      BY <3>3
    <3> QED
      BY <3>1, <3>2, <3>4
  <2> QED
    BY <1>1, <2>1, <2>2
<1> QED
  BY <1>1, <1>6

LEMMA PeerReceiptsStep ==
    ASSUME CInv, PeerReceipts
    PROVE  CInv'
<1> USE DEF PeerReceipts, PutNowait, rmqVars, taskVars
<1>1. PICK t \in receipted + 1 .. sent :
         1 .. t \subseteq storedTags /\ receipted' = t /\ recvQ' = Append(recvQ, t)
  OBVIOUS
<1>2. /\ t \in Nat /\ receipted < t /\ t <= sent /\ t # None /\ receipted \in Nat /\ sent \in Nat
  BY <1>1 DEF CInv, Types, None
<1>3. recvQ' \in Seq(Int) /\ Receipts'
  BY <1>1, <1>2, RecvQPut
<1>4. Progress'
  BY <1>1, <1>2 DEF CInv, Types, Progress
<1>5. Storing'
  BY <1>1 DEF CInv, Storing
<1> QED
  BY <1>1, <1>2, <1>3, <1>4, <1>5 DEF CInv, Types, Sending, Returned

LEMMA ConnectionLostStep ==
    ASSUME CInv, ConnectionLost
    PROVE  CInv'
<1> USE DEF ConnectionLost, PutNowait, rmqVars, taskVars, peerVars
<1>1. /\ recvQ' = Append(recvQ, None) /\ conn' = "lost" /\ conn # "lost" /\ acked' = acked
      /\ receipted' = receipted /\ receipted \in Nat /\ None \in Int
  BY DEF CInv, Types, None
<1>2. recvQ' \in Seq(Int) /\ Receipts'
  BY <1>1, RecvQPut
<1> QED
  BY <1>1, <1>2 DEF CInv, Types, Progress, Sending, Storing, Returned

LEMMA NextCInv == CInv /\ [Next]_vars => CInv'
<1> SUFFICES ASSUME CInv, [Next]_vars
             PROVE  CInv'
  OBVIOUS
<1>1. CASE OpenChannel
  BY <1>1, OpenChannelStep
<1>2. ASSUME NEW e \in Ends, phase # "done", EndTask(e),
             UNCHANGED <<recvVars, conn, sent, peerVars>>
      PROVE  CInv'
  <2>1. recvQ' \in Seq(Int) /\ Receipts'
    BY <1>2 DEF CInv, Types, Receipts, recvVars, peerVars, EndTask
  <2> QED
    BY <1>2, <2>1, EndTaskStep DEF peerVars
<1>3. CASE OpenChannelFails \/ BrokerLost \/ TransformFails
  BY <1>2, <1>3 DEF OpenChannelFails, BrokerLost, TransformFails, Ends
<1>4. CASE LateEndPut
  BY <1>4, LateEndPutStep
<1>5. CASE BrokerDelivers
  BY <1>5, BrokerDeliversStep
<1>6. CASE ConsumeMessage
  BY <1>6, ConsumeMessageStep
<1>7. CASE SendAck
  BY <1>7, SendAckStep
<1>8. CASE AcksEnd
  BY <1>8, AcksEndStep
<1>9. CASE LinkSends
  BY <1>9, LinkSendsStep
<1>10. CASE \E m \in Msgs : PeerStores(m)
  BY <1>10, PeerStoresStep
<1>11. CASE PeerReceipts
  BY <1>11, PeerReceiptsStep
<1>12. CASE ConnectionLost
  BY <1>12, ConnectionLostStep
<1>13. CASE Restart \/ Crash
  BY <1>13, NewProcessStep DEF Restart, Crash
<1>14. CASE UNCHANGED vars
  BY <1>14 DEF vars, rmqVars, taskVars, recvVars, peerVars,
               CInv, Types, Progress, Sending, Storing, Receipts, Returned
<1> QED
  BY <1>1, <1>3, <1>4, <1>5, <1>6, <1>7, <1>8, <1>9, <1>10, <1>11, <1>12, <1>13, <1>14
     DEF Next

-----------------------------------------------------------------------------
(* The theorems                                                            *)

\* The invariant: however the connection, the broker and the process fail, the
\* two queues of the client and the delivery tags of the channel agree.
THEOREM Invariance == Spec => []CInv
BY InitCInv, NextCInv, PTL DEF Spec

\* send_acks acknowledges every tag at most once, in ascending order, and only
\* tags of its channel.
THEOREM AcksOutstandingHolds == Spec => []AcksOutstanding
<1>1. CInv => AcksOutstanding
  <2> SUFFICES ASSUME CInv, NEW i \in DOMAIN recvQ, recvQ[i] # None
               PROVE  /\ acked < recvQ[i] /\ recvQ[i] <= Len(delivered)
                      /\ \A j \in 1 .. i - 1 : recvQ[j] # None /\ recvQ[j] < recvQ[i]
    BY DEF AcksOutstanding
  <2>1. DOMAIN recvQ = 1 .. Len(recvQ) /\ Len(recvQ) \in Nat /\ Len(delivered) \in Nat
    BY LenProperties DEF CInv, Types
  <2>2. \A j \in 1 .. Len(recvQ) : recvQ[j] \in Int
    BY ElementOfSeq DEF CInv, Types
  <2>3. acked + i <= recvQ[i] /\ recvQ[i] <= receipted
    BY DEF CInv, Receipts
  <2>4. acked \in Nat /\ receipted \in Nat /\ receipted <= Len(delivered)
    BY <2>1 DEF CInv, Types, Progress
  <2>5. ASSUME NEW j \in 1 .. i - 1
        PROVE  recvQ[j] # None /\ recvQ[j] < recvQ[i]
    <3>0. i \in 1 .. Len(recvQ)
      BY <2>1
    <3>l. Len(recvQ) \in Nat
      BY <2>1
    <3>1. /\ j \in 1 .. Len(recvQ) /\ j # Len(recvQ) /\ i \in j + 1 .. Len(recvQ)
          /\ i - j \in Int /\ i - j >= 1
      BY <3>l, <3>0, Below
    <3>2. j \in DOMAIN recvQ
      BY <2>1, <3>1
    <3>3. recvQ[j] # None
      BY <3>1, <3>2 DEF CInv, Receipts
    <3>4. recvQ[j] + (i - j) <= recvQ[i]
      BY <3>1, <3>2 DEF CInv, Receipts
    <3>5. recvQ[i] \in Int /\ recvQ[j] \in Int
      BY <2>2, <3>0, <3>1
    <3> HIDE DEF None
    <3>6. recvQ[j] < recvQ[i]
      BY <3>1, <3>4, <3>5
    <3> QED
      BY <3>3, <3>6
  <2> QED
    BY <2>1, <2>2, <2>3, <2>4, <2>5
<1> QED
  BY <1>1, Invariance, PTL

\* With the prefetch count of _consume_from_queue the queues never fill up, for
\* every size that they are configured with.
THEOREM PutFindsRoomHolds == Spec => []PutFindsRoom
<1>1. CInv => PutFindsRoom
  <2> SUFFICES ASSUME CInv, phase = "run"
               PROVE  /\ taken < Len(delivered) => ~SendQueueFull
                      /\ Len(recvQ) <= Prefetch + (IF conn = "lost" THEN 1 ELSE 0)
    BY DEF PutFindsRoom
  <2>1. /\ Len(delivered) \in Nat /\ Len(recvQ) \in Nat /\ DOMAIN recvQ = 1 .. Len(recvQ)
        /\ acked \in Nat /\ taken \in Nat /\ sent \in Nat /\ receipted \in Nat
    BY LenProperties DEF CInv, Types
  <2>2. /\ Len(delivered) <= acked + Prefetch /\ acked <= receipted /\ receipted <= sent
        /\ sent <= taken /\ taken <= Len(delivered) /\ Prefetch \in Nat
        /\ QueueSize > 0 => Prefetch = QueueSize
    BY QueueAssumption DEF CInv, Progress, Prefetch
  <2>3. taken < Len(delivered) => ~SendQueueFull
    <3>1. Len(sendQ) = taken - sent
      BY DEF CInv, Sending
    <3> QED
      BY <2>1, <2>2, <3>1, QueueAssumption DEF SendQueueFull
  <2>4. \A i \in 1 .. Len(recvQ) : recvQ[i] # None => i <= Prefetch
    <3> TAKE i \in 1 .. Len(recvQ)
    <3>1. recvQ[i] # None => acked + i <= recvQ[i] /\ recvQ[i] <= receipted
      BY <2>1 DEF CInv, Receipts
    <3>2. recvQ[i] \in Int
      BY ElementOfSeq DEF CInv, Types
    <3> QED
      BY <2>1, <2>2, <3>1, <3>2
  <2>5. \A i \in 1 .. Len(recvQ) : recvQ[i] = None => conn = "lost" /\ i = Len(recvQ)
    BY <2>1 DEF CInv, Receipts
  <2>6. Len(recvQ) <= Prefetch + (IF conn = "lost" THEN 1 ELSE 0)
    <3>1. CASE Len(recvQ) <= 1
      <4>1. Prefetch >= 1
        BY QueueAssumption DEF Prefetch
      <4> QED
        BY <2>1, <2>2, <3>1, <4>1
    <3>2. CASE Len(recvQ) > 1
      <4>1. Len(recvQ) \in 1 .. Len(recvQ) /\ Len(recvQ) - 1 \in 1 .. Len(recvQ)
        BY <2>1, <3>2
      <4>2. Len(recvQ) - 1 <= Prefetch
        <5>0. Len(recvQ) \in Nat
          BY <2>1
        <5>1. Len(recvQ) - 1 # Len(recvQ)
          BY <5>0, Below
        <5>2. recvQ[Len(recvQ) - 1] # None
          BY <2>5, <4>1, <5>1
        <5> QED
          BY <2>4, <4>1, <5>2
      <4>3. conn # "lost" => Len(recvQ) <= Prefetch
        BY <2>4, <2>5, <4>1
      <4> QED
        BY <2>1, <2>2, <4>2, <4>3
    <3> QED
      BY <2>1, <3>1, <3>2
  <2> QED
    BY <2>3, <2>6
<1> QED
  BY <1>1, Invariance, PTL

-----------------------------------------------------------------------------
(* The consumer implements AtLeastOnce                                     *)

LEMMA JoinNothing ==
    ASSUME NEW S, NEW d \in Seq(S), NEW q \in Seq(S), NEW a \in 0 .. Len(d)
    PROVE  a = Len(d) => Join(d, a, q) = q
<1> DEFINE z == Join(d, a, q)
<1>1. Len(d) \in Nat /\ Len(q) \in Nat
  BY LenProperties
<1>2. /\ z \in Seq(S) /\ Len(z) = Len(d) - a + Len(q)
      /\ \A i \in 1 .. Len(d) - a + Len(q) :
            z[i] = IF i <= Len(d) - a THEN d[a + i] ELSE q[i - (Len(d) - a)]
  BY JoinFacts
<1> HIDE DEF z
<1>3. a = Len(d) => Len(z) = Len(q) /\ \A i \in 1 .. Len(q) : z[i] = q[i]
  BY <1>1, <1>2
<1>4. a = Len(d) => z = q
  BY <1>2, <1>3, SeqEqual
<1> QED
  BY <1>4 DEF z

\* A delivery takes the message from the queue and keeps its place in front.
LEMMA JoinDelivery ==
    ASSUME NEW S, NEW d \in Seq(S), NEW q \in Seq(S), NEW a \in 0 .. Len(d), q # <<>>
    PROVE  Join(Append(d, Head(q)), a, Tail(q)) = Join(d, a, q)
<1> DEFINE e == Append(d, Head(q))
           r == Tail(q)
           y == Join(d, a, q)
           z == Join(e, a, r)
<1>1. /\ r \in Seq(S) /\ Len(r) = Len(q) - 1 /\ Len(q) \in Nat \ {0} /\ Head(q) = q[1]
      /\ q[1] \in S /\ \A i \in 1 .. Len(q) - 1 : r[i] = q[i + 1]
  BY TailFacts
<1>2. /\ e \in Seq(S) /\ Len(e) = Len(d) + 1 /\ Len(d) \in Nat
      /\ \A i \in 1 .. Len(d) : e[i] = d[i]
      /\ e[Len(d) + 1] = q[1]
  BY <1>1, AppendFacts
<1>3. /\ y \in Seq(S) /\ Len(y) = Len(d) - a + Len(q)
      /\ \A i \in 1 .. Len(d) - a + Len(q) :
            y[i] = IF i <= Len(d) - a THEN d[a + i] ELSE q[i - (Len(d) - a)]
  BY JoinFacts
<1> HIDE DEF e, r
<1>4. a \in 0 .. Len(e)
  BY <1>2
<1>5. /\ z \in Seq(S) /\ Len(z) = Len(e) - a + Len(r)
      /\ \A i \in 1 .. Len(e) - a + Len(r) :
            z[i] = IF i <= Len(e) - a THEN e[a + i] ELSE r[i - (Len(e) - a)]
  <2>1. e \in Seq(S) /\ r \in Seq(S)
    BY <1>1, <1>2
  <2> QED
    BY <1>4, <2>1, JoinFacts
<1> HIDE DEF y, z
<1>6. Len(z) = Len(y) /\ a \in Nat /\ a <= Len(d)
  BY <1>1, <1>2, <1>3, <1>5
<1>7. ASSUME NEW i \in 1 .. Len(y)
      PROVE  z[i] = y[i]
  <2>1. i \in Nat /\ i >= 1 /\ i <= Len(d) - a + Len(q)
    BY <1>1, <1>2, <1>3, <1>6
  <2>2. /\ y[i] = IF i <= Len(d) - a THEN d[a + i] ELSE q[i - (Len(d) - a)]
        /\ z[i] = IF i <= Len(d) + 1 - a THEN e[a + i] ELSE r[i - (Len(d) + 1 - a)]
    BY <1>1, <1>2, <1>3, <1>5, <1>6, <2>1
  <2>3. CASE i <= Len(d) - a
    <3>1. a + i \in 1 .. Len(d) /\ i <= Len(d) + 1 - a
      BY <1>2, <1>6, <2>1, <2>3
    <3> QED
      BY <1>2, <2>2, <2>3, <3>1
  <2>4. CASE i = Len(d) + 1 - a
    <3>1. a + i = Len(d) + 1 /\ i - (Len(d) - a) = 1 /\ ~(i <= Len(d) - a) /\ i <= Len(d) + 1 - a
      BY <1>2, <1>6, <2>1, <2>4
    <3> QED
      BY <1>2, <2>2, <3>1
  <2>5. CASE i > Len(d) + 1 - a
    <3>1. /\ i - (Len(d) + 1 - a) \in 1 .. Len(q) - 1
          /\ i - (Len(d) + 1 - a) + 1 = i - (Len(d) - a)
          /\ ~(i <= Len(d) - a) /\ ~(i <= Len(d) + 1 - a)
      BY <1>1, <1>2, <1>6, <2>1, <2>5
    <3> QED
      BY <1>1, <2>2, <3>1
  <2> QED
    BY <1>2, <1>6, <2>1, <2>3, <2>4, <2>5
<1>8. z = y
  BY <1>3, <1>5, <1>6, <1>7, SeqEqual
<1> QED
  BY <1>8 DEF e, r, y, z

\* An acknowledgement takes the first messages away.
LEMMA JoinAck ==
    ASSUME NEW S, NEW d \in Seq(S), NEW q \in Seq(S), NEW a \in 0 .. Len(d), NEW b \in a .. Len(d)
    PROVE  Join(d, b, q) = SubSeq(Join(d, a, q), b - a + 1, Len(Join(d, a, q)))
<1> DEFINE y == Join(d, a, q)
           z == Join(d, b, q)
           x == SubSeq(y, b - a + 1, Len(y))
<1>1. /\ Len(d) \in Nat /\ Len(q) \in Nat /\ a \in Nat /\ b \in Nat /\ a <= b /\ b <= Len(d)
      /\ b \in 0 .. Len(d)
  BY LenProperties
<1>2. /\ y \in Seq(S) /\ Len(y) = Len(d) - a + Len(q)
      /\ \A i \in 1 .. Len(d) - a + Len(q) :
            y[i] = IF i <= Len(d) - a THEN d[a + i] ELSE q[i - (Len(d) - a)]
  BY JoinFacts
<1>3. /\ z \in Seq(S) /\ Len(z) = Len(d) - b + Len(q)
      /\ \A i \in 1 .. Len(d) - b + Len(q) :
            z[i] = IF i <= Len(d) - b THEN d[b + i] ELSE q[i - (Len(d) - b)]
  BY <1>1, JoinFacts
<1> HIDE DEF y, z
<1>4. b - a + 1 \in Int /\ Len(y) \in Int
  BY <1>1, <1>2
<1>5. \A i \in b - a + 1 .. Len(y) : y[i] \in S
  <2> TAKE i \in b - a + 1 .. Len(y)
  <2>1. i \in 1 .. Len(y)
    BY <1>1, <1>2
  <2> QED
    BY <1>2, <2>1, ElementOfSeq
<1>6. /\ x \in Seq(S)
      /\ Len(x) = IF b - a + 1 <= Len(y) THEN Len(y) - (b - a + 1) + 1 ELSE 0
      /\ \A i \in 1 .. Len(y) - (b - a + 1) + 1 : x[i] = y[b - a + 1 + i - 1]
  BY <1>4, <1>5, SubSeqProperties
<1> HIDE DEF x
<1>7. Len(x) = Len(z)
  BY <1>1, <1>2, <1>3, <1>6
<1>8. ASSUME NEW i \in 1 .. Len(z)
      PROVE  x[i] = z[i]
  <2>1. i \in Nat /\ i >= 1 /\ i <= Len(d) - b + Len(q)
    BY <1>1, <1>3
  <2>2. /\ i \in 1 .. Len(y) - (b - a + 1) + 1 /\ b - a + 1 + i - 1 = b - a + i
        /\ b - a + i \in 1 .. Len(d) - a + Len(q)
    BY <1>1, <1>2, <2>1
  <2>3. x[i] = y[b - a + i]
    BY <1>6, <2>2
  <2>4. /\ y[b - a + i] = IF b - a + i <= Len(d) - a THEN d[a + (b - a + i)]
                          ELSE q[b - a + i - (Len(d) - a)]
        /\ z[i] = IF i <= Len(d) - b THEN d[b + i] ELSE q[i - (Len(d) - b)]
    BY <1>2, <1>3, <2>1, <2>2
  <2>5. /\ (b - a + i <= Len(d) - a) <=> (i <= Len(d) - b)
        /\ a + (b - a + i) = b + i /\ b - a + i - (Len(d) - a) = i - (Len(d) - b)
    BY <1>1, <2>1
  <2> QED
    BY <2>3, <2>4, <2>5
<1>9. x = z
  BY <1>3, <1>6, <1>7, <1>8, SeqEqual
<1> QED
  BY <1>9 DEF x, y, z

\* What a step of the consumer is to AtLeastOnce.
AbstractStep == [ALO!Store \/ ALO!Remove]_(ALO!vars)

LEMMA Stutters ==
    ASSUME UNCHANGED <<phase, queue, delivered, acked, stored>>
    PROVE  AbstractStep
BY DEF AbstractStep, ALO!vars, Requeued, Unacked

LEMMA Returns ==
    ASSUME queue' = Requeued, phase' # "run", UNCHANGED stored
    PROVE  AbstractStep
<1>1. Requeued' = Requeued
  BY DEF Requeued
<1> QED
  BY <1>1 DEF AbstractStep, ALO!vars

LEMMA OpenChannelAbstract ==
    ASSUME CInv, OpenChannel
    PROVE  AbstractStep
<1>1. /\ queue' = queue /\ delivered' = delivered /\ acked' = acked /\ stored' = stored
      /\ phase = "open" /\ phase' = "run"
  BY DEF OpenChannel, rmqVars, peerVars
<1>2. /\ queue \in Seq(Msgs) /\ delivered \in Seq(Msgs) /\ acked \in 0 .. Len(delivered)
      /\ acked = Len(delivered)
  <2>1. Len(delivered) = 0
    BY <1>1, EmptySeq DEF CInv, Progress
  <2> QED
    BY <2>1, RequeuedFacts DEF CInv, Types
<1>3. Requeued = queue /\ Requeued' = Join(delivered, acked, queue)
  BY <1>1 DEF Requeued, Unacked, Join
<1>4. Requeued' = Requeued
  BY <1>2, <1>3, JoinNothing
<1> QED
  BY <1>1, <1>4 DEF AbstractStep, ALO!vars

LEMMA BrokerDeliversAbstract ==
    ASSUME CInv, BrokerDelivers
    PROVE  AbstractStep
<1>1. /\ delivered' = Append(delivered, Head(queue)) /\ queue' = Tail(queue) /\ queue # <<>>
      /\ acked' = acked /\ stored' = stored /\ phase = "run" /\ phase' = "run"
  BY DEF BrokerDelivers, taskVars, peerVars
<1>2. queue \in Seq(Msgs) /\ delivered \in Seq(Msgs) /\ acked \in 0 .. Len(delivered)
  BY RequeuedFacts DEF CInv, Types
<1>3. /\ Requeued = Join(delivered, acked, queue)
      /\ Requeued' = Join(Append(delivered, Head(queue)), acked, Tail(queue))
  BY <1>1 DEF Requeued, Unacked, Join
<1>4. Requeued' = Requeued
  BY <1>1, <1>2, <1>3, JoinDelivery
<1> QED
  BY <1>1, <1>4 DEF AbstractStep, ALO!vars

LEMMA SendAckAbstract ==
    ASSUME CInv, SendAck
    PROVE  AbstractStep
<1> DEFINE b == Head(recvQ)
           y == Join(delivered, acked, queue)
           n == b - acked
<1>1. /\ recvQ # <<>> /\ b # None /\ acked' = b /\ stored' = stored
      /\ queue' = queue /\ delivered' = delivered /\ phase = "run" /\ phase' = "run"
  BY DEF SendAck, taskVars, peerVars
<1>2. queue \in Seq(Msgs) /\ delivered \in Seq(Msgs) /\ acked \in 0 .. Len(delivered)
  BY RequeuedFacts DEF CInv, Types
<1>3. b \in Int /\ b = recvQ[1] /\ 1 \in DOMAIN recvQ
  <2>1. recvQ \in Seq(Int)
    BY DEF CInv, Types
  <2> QED
    BY <1>1, <2>1, TailFacts
<1>4. /\ acked \in Nat /\ receipted \in Nat /\ Len(delivered) \in Nat /\ Len(queue) \in Nat
      /\ acked + 1 <= b /\ b <= receipted /\ receipted <= Len(delivered)
  BY <1>1, <1>3, LenProperties DEF CInv, Types, Progress, Receipts
<1>5. Requeued = y /\ Requeued' = Join(delivered, b, queue)
  BY <1>1 DEF Requeued, Unacked, Join
<1> HIDE DEF b
<1>6. b \in acked .. Len(delivered) /\ n \in Nat /\ n >= 1 /\ n <= Len(delivered) - acked
  BY <1>3, <1>4
<1>7. Requeued' = SubSeq(Requeued, n + 1, Len(Requeued))
  BY <1>2, <1>5, <1>6, JoinAck
<1>8. /\ y \in Seq(Msgs) /\ Len(y) = Len(delivered) - acked + Len(queue)
      /\ \A i \in 1 .. Len(delivered) - acked + Len(queue) :
            y[i] = IF i <= Len(delivered) - acked THEN delivered[acked + i]
                   ELSE queue[i - (Len(delivered) - acked)]
  BY <1>2, JoinFacts
<1> HIDE DEF y
<1>9. n \in DOMAIN Requeued
  <2>1. DOMAIN y = 1 .. Len(y)
    BY <1>8, LenProperties
  <2>2. n \in 1 .. Len(y)
    BY <1>4, <1>6, <1>8
  <2> QED
    BY <1>5, <2>1, <2>2
<1>10. \A i \in 1 .. n : Requeued[i] \in stored
  <2> TAKE i \in 1 .. n
  <2>1. /\ i \in 1 .. Len(delivered) - acked + Len(queue) /\ i <= Len(delivered) - acked
        /\ acked + i \in 1 .. receipted
    BY <1>3, <1>4, <1>6
  <2>2. y[i] = delivered[acked + i]
    BY <1>8, <2>1
  <2>3. delivered[acked + i] \in stored
    BY <2>1 DEF CInv, Storing
  <2> QED
    BY <1>5, <2>2, <2>3
<1> HIDE DEF n
<1>11. ALO!Remove
  BY <1>1, <1>7, <1>9, <1>10 DEF ALO!Remove
<1> QED
  BY <1>11 DEF AbstractStep

LEMMA PeerStoresAbstract ==
    ASSUME CInv, NEW m \in Msgs, PeerStores(m)
    PROVE  AbstractStep
<1>1. PICK t \in 1 .. sent \ storedTags : delivered[t] = m /\ stored' = stored \cup {m}
  BY DEF PeerStores
<1>2. Requeued' = Requeued
  BY DEF PeerStores, rmqVars, taskVars, Requeued, Unacked
<1>3. /\ acked \in Nat /\ receipted \in Nat /\ sent \in Nat /\ Len(delivered) \in Nat
      /\ Len(queue) \in Nat /\ acked <= receipted /\ sent <= Len(delivered)
  BY LenProperties DEF CInv, Types, Progress
<1>4. t \in Nat /\ t >= 1 /\ t <= Len(delivered) /\ acked < t
  <2>1. t \notin 1 .. receipted
    BY <1>1 DEF CInv, Storing
  <2> QED
    BY <1>1, <1>3, <2>1
<1>5. t - acked \in DOMAIN Requeued /\ Requeued[t - acked] = m
  <2>1. CASE phase = "run"
    <3> DEFINE y == Join(delivered, acked, queue)
    <3>1. Requeued = y /\ acked \in 0 .. Len(delivered)
      BY <2>1, RequeuedFacts
    <3>2. /\ y \in Seq(Msgs) /\ Len(y) = Len(delivered) - acked + Len(queue)
          /\ \A i \in 1 .. Len(delivered) - acked + Len(queue) :
                y[i] = IF i <= Len(delivered) - acked THEN delivered[acked + i]
                       ELSE queue[i - (Len(delivered) - acked)]
      <4>1. queue \in Seq(Msgs) /\ delivered \in Seq(Msgs) /\ acked \in 0 .. Len(delivered)
        BY <3>1 DEF CInv, Types
      <4> QED
        BY <4>1, JoinFacts
    <3> HIDE DEF y
    <3>3. DOMAIN y = 1 .. Len(y)
      BY <3>2, LenProperties
    <3>4. /\ t - acked \in 1 .. Len(delivered) - acked + Len(queue)
          /\ t - acked <= Len(delivered) - acked /\ acked + (t - acked) = t
      BY <1>3, <1>4
    <3>5. y[t - acked] = delivered[t]
      BY <3>2, <3>4
    <3> QED
      BY <1>1, <3>1, <3>2, <3>3, <3>4, <3>5
  <2>2. CASE phase = "done"
    <3>1. Requeued = queue /\ DOMAIN queue = 1 .. Len(queue)
      BY <2>2, LenProperties DEF Requeued, CInv, Types
    <3>2. /\ Len(delivered) - acked <= Len(queue)
          /\ \A u \in acked + 1 .. Len(delivered) : queue[u - acked] = delivered[u]
      BY <2>2 DEF CInv, Returned
    <3>3. t \in acked + 1 .. Len(delivered) /\ t - acked \in 1 .. Len(queue)
      BY <1>3, <1>4, <3>2
    <3> QED
      BY <1>1, <3>1, <3>2, <3>3
  <2>3. CASE phase = "open"
    <3>1. Len(delivered) = 0
      BY <2>3, EmptySeq DEF CInv, Progress
    <3> QED
      BY <1>4, <3>1
  <2> QED
    BY <2>1, <2>2, <2>3 DEF CInv, Types
<1>6. ALO!Store
  BY <1>1, <1>2, <1>5 DEF ALO!Store
<1> QED
  BY <1>6 DEF AbstractStep

LEMMA NextAbstract == CInv /\ [Next]_vars => AbstractStep
<1> SUFFICES ASSUME CInv, [Next]_vars
             PROVE  AbstractStep
  OBVIOUS
<1>1. CASE OpenChannel
  BY <1>1, OpenChannelAbstract
<1>2. ASSUME NEW e, EndTask(e), UNCHANGED stored
      PROVE  AbstractStep
  BY <1>2, Returns DEF EndTask
<1>3. CASE OpenChannelFails \/ BrokerLost \/ TransformFails \/ AcksEnd
  BY <1>2, <1>3 DEF OpenChannelFails, BrokerLost, TransformFails, AcksEnd, peerVars
<1>4. CASE LateEndPut \/ ConsumeMessage \/ LinkSends \/ PeerReceipts \/ ConnectionLost
  BY <1>4, Stutters DEF LateEndPut, ConsumeMessage, LinkSends, PeerReceipts, ConnectionLost,
                        rmqVars, taskVars, peerVars
<1>5. CASE BrokerDelivers
  BY <1>5, BrokerDeliversAbstract
<1>6. CASE SendAck
  BY <1>6, SendAckAbstract
<1>7. CASE \E m \in Msgs : PeerStores(m)
  BY <1>7, PeerStoresAbstract
<1>8. CASE Restart \/ Crash
  <2>1. queue' = Requeued /\ phase' # "run" /\ stored' = stored
    BY <1>8 DEF Restart, Crash, NewProcess
  <2> QED
    BY <2>1, Returns
<1>9. CASE UNCHANGED vars
  BY <1>9, Stutters DEF vars, rmqVars, taskVars, peerVars
<1> QED
  BY <1>1, <1>3, <1>4, <1>5, <1>6, <1>7, <1>8, <1>9 DEF Next

LEMMA InitAbstract == Init => ALO!Init
<1> SUFFICES ASSUME Init
             PROVE  ALO!Init
  OBVIOUS
<1>1. Requeued \in Seq(Msgs)
  BY InitCInv, RequeuedFacts
<1> QED
  BY <1>1 DEF Init, ALO!Init

\* The consumer implements AtLeastOnce: whatever the network, the broker and the
\* process do, the queue loses, from its front, only messages that are stored.
THEOREM ImplementsAtLeastOnceHolds == Spec => ImplementsAtLeastOnce
<1>1. Spec => [][ALO!Store \/ ALO!Remove]_(ALO!vars)
  BY Invariance, NextAbstract, PTL DEF Spec, AbstractStep
<1>2. Spec => ALO!Init
  BY InitAbstract DEF Spec
<1> QED
  BY <1>1, <1>2, PTL DEF ImplementsAtLeastOnce, ALO!Spec

\* No step of AtLeastOnce loses a message.
LEMMA NoLossStep ==
    ASSUME CInv, NoLoss, AbstractStep
    PROVE  NoLoss'
<1> SUFFICES ASSUME NEW m \in Msgs
             PROVE  m \in stored' \/ \E i \in DOMAIN Requeued' : Requeued'[i] = m
  BY DEF NoLoss, Elements
<1>1. m \in stored \/ \E i \in DOMAIN Requeued : Requeued[i] = m
  BY DEF NoLoss, Elements
<1>2. CASE ALO!Store \/ UNCHANGED ALO!vars
  <2>1. Requeued' = Requeued /\ stored \subseteq stored'
    BY <1>2 DEF ALO!Store, ALO!vars
  <2> QED
    BY <1>1, <2>1
<1>3. CASE ALO!Remove
  <2> DEFINE w == Requeued
             x == Requeued'
  <2>1. PICK n \in DOMAIN w : (\A i \in 1 .. n : w[i] \in stored) /\ x = SubSeq(w, n + 1, Len(w))
    BY <1>3 DEF ALO!Remove
  <2>2. stored' = stored
    BY <1>3 DEF ALO!Remove
  <2>3. w \in Seq(Msgs) /\ DOMAIN w = 1 .. Len(w) /\ Len(w) \in Nat
    BY RequeuedFacts, LenProperties
  <2> HIDE DEF w
  <2>4. n \in Nat /\ n >= 1 /\ n <= Len(w) /\ n + 1 \in Int /\ Len(w) \in Int
    BY <2>1, <2>3
  <2>5. \A i \in n + 1 .. Len(w) : w[i] \in Msgs
    BY <2>3, <2>4, ElementOfSeq
  <2>6. /\ x \in Seq(Msgs)
        /\ Len(x) = IF n + 1 <= Len(w) THEN Len(w) - (n + 1) + 1 ELSE 0
        /\ \A i \in 1 .. Len(w) - (n + 1) + 1 : x[i] = w[n + 1 + i - 1]
    <3> HIDE DEF x
    <3> QED
      BY <2>1, <2>4, <2>5, SubSeqProperties
  <2> HIDE DEF x
  <2>7. DOMAIN x = 1 .. Len(x) /\ Len(x) = Len(w) - n
    <3>1. DOMAIN x = 1 .. Len(x)
      BY <2>6, LenProperties
    <3> QED
      BY <2>4, <2>6, <3>1
  <2>8. ASSUME NEW i \in DOMAIN w, w[i] = m, m \notin stored
        PROVE  i - n \in DOMAIN x /\ x[i - n] = m
    <3>1. i \in 1 .. Len(w) /\ i \notin 1 .. n
      BY <2>1, <2>3, <2>8
    <3>2. /\ i - n \in 1 .. Len(w) - n /\ i - n \in 1 .. Len(w) - (n + 1) + 1
          /\ n + 1 + (i - n) - 1 = i
      BY <2>4, <3>1
    <3> QED
      BY <2>6, <2>7, <2>8, <3>2
  <2>9. m \in stored \/ \E i \in DOMAIN w : w[i] = m
    BY <1>1 DEF w
  <2>10. m \in stored \/ \E i \in DOMAIN x : x[i] = m
    BY <2>8, <2>9
  <2> QED
    BY <2>2, <2>10 DEF x
<1> QED
  BY <1>2, <1>3 DEF AbstractStep

\* A message that is neither in the RabbitMQ queue nor unacknowledged is stored
\* by the peer, in every state.
THEOREM NoLossHolds == Spec => []NoLoss
<1>1. Init => NoLoss
  <2> SUFFICES ASSUME Init, NEW m \in Msgs
               PROVE  m \in Elements(Requeued)
    BY DEF NoLoss
  <2>1. Requeued = [i \in Msgs |-> i]
    BY DEF Init, Requeued
  <2> QED
    BY <2>1 DEF Elements
<1>2. CInv /\ NoLoss /\ [Next]_vars => NoLoss'
  BY NextAbstract, NoLossStep
<1> QED
  BY <1>1, <1>2, Invariance, PTL DEF Spec

=============================================================================
