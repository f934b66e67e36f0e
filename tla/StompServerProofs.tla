-------------------------- MODULE StompServerProofs --------------------------
(***************************************************************************)
(* Proofs about the StompServer protocol, for any number of messages and   *)
(* against any client: what it writes to the wire.                         *)
(***************************************************************************)
EXTENDS StompServer, SequenceTheorems, TLAPS

Types ==
    /\ connected \in BOOLEAN /\ done \in BOOLEAN /\ lost \in BOOLEAN
    /\ writer \in {"off", "on", "end"}
    /\ sendQ \in Seq(Int) /\ out \in Seq(FramesOver(Ids))

\* A message is received, then confirmed by the publisher, then receipted; a
\* DISCONNECT comes after the last message.
Counts ==
    /\ lastMsg \in 0 .. MaxMsgs /\ given \in Nat /\ lastRcpt \in Nat
    /\ lastRcpt <= given /\ given <= lastMsg
    /\ discId \in {NoId, OwnId, lastMsg}

\* The receipts in send_queue ascend from above the last one written; an end is
\* the last item.
Queue ==
    \A i \in 1 .. Len(sendQ) :
        /\ sendQ[i] \in Msgs => lastRcpt < sendQ[i] /\ sendQ[i] <= given
        /\ sendQ[i] \notin Msgs => sendQ[i] \in {None, Error} /\ i = Len(sendQ) /\ ended
        /\ \A j \in i + 1 .. Len(sendQ) : sendQ[j] \in Msgs => sendQ[i] < sendQ[j]

\* Before CONNECTED nothing else is written, unless it is the last frame.
Stage ==
    /\ ~connected => writer # "on" /\ (~done => out = <<>>)
    /\ connected => Len(out) >= 1

IsReceipt(f) == f.cmd = "RECEIPT"

Wire ==
    \A i \in 1 .. Len(out) :
        /\ IsReceipt(out[i]) /\ out[i].id = OwnId => done /\ given = lastMsg
        /\ IsReceipt(out[i]) /\ out[i].id # OwnId => out[i].id \in Msgs /\ out[i].id <= given
        /\ IsReceipt(out[i]) /\ ~done => out[i].id <= lastRcpt
        /\ \A j \in i + 1 .. Len(out) : IsReceipt(out[i]) /\ IsReceipt(out[j]) =>
              out[i].id < out[j].id \/ (j = Len(out) /\ out[j].id = discId /\ done)
        /\ out[i].cmd = "ERROR" => i = Len(out) /\ done
        /\ out[i].cmd = "CONNECTED" <=> i = 1 /\ connected

SInv == Types /\ Counts /\ Queue /\ Stage /\ Wire

-----------------------------------------------------------------------------
(* Frames and sequences                                                    *)

LEMMA FrameFacts ==
    /\ ErrorFrame \in FramesOver(Ids) /\ ErrorFrame.cmd = "ERROR"
    /\ Frame("CONNECTED", NoId) \in FramesOver(Ids)
    /\ Frame("CONNECTED", NoId).cmd = "CONNECTED"
    /\ \A k \in Ids : Receipt(k) \in FramesOver(Ids) /\ Receipt(k).cmd = "RECEIPT" /\ Receipt(k).id = k
  BY DEF ErrorFrame, Receipt, Frame, FramesOver, Commands

LEMMA MsgFacts ==
    /\ MaxMsgs \in Nat /\ OwnId \in Int /\ OwnId \notin Msgs /\ NoId = 0 /\ None = 0 /\ Error = -1
    /\ None \notin Msgs /\ Error \notin Msgs /\ NoId # OwnId
    /\ Msgs \subseteq Ids /\ OwnId \in Ids
    /\ \A k : k \in Msgs <=> (k \in Int /\ 1 <= k /\ k <= MaxMsgs)
  BY MsgsAssumption DEF Msgs, OwnId, Ids, NoId, None, Error

LEMMA AppendFacts ==
    ASSUME NEW S, NEW s \in Seq(S), NEW x \in S
    PROVE  /\ Append(s, x) \in Seq(S) /\ Len(Append(s, x)) = Len(s) + 1 /\ Len(s) \in Nat
           /\ \A i \in 1 .. Len(s) : Append(s, x)[i] = s[i]
           /\ Append(s, x)[Len(s) + 1] = x
BY AppendProperties, LenProperties

LEMMA TailFacts ==
    ASSUME NEW S, NEW s \in Seq(S), s # <<>>
    PROVE  /\ Tail(s) \in Seq(S) /\ Len(Tail(s)) = Len(s) - 1 /\ Len(s) \in Nat \ {0}
           /\ \A i \in 1 .. Len(s) - 1 : Tail(s)[i] = s[i + 1]
           /\ Head(s) = s[1] /\ s[1] \in S
<1>1. Len(s) \in Nat \ {0}
  BY EmptySeq, LenProperties
<1>2. /\ Tail(s) \in Seq(S) /\ Len(Tail(s)) = Len(s) - 1
      /\ \A i \in 1 .. Len(Tail(s)) : Tail(s)[i] = s[i + 1]
  BY HeadTailProperties
<1>3. Head(s) = s[1] /\ s[1] \in S
  BY <1>1, ElementOfSeq
<1> QED
  BY <1>1, <1>2, <1>3

\* One frame, or none, behind what was written.
LEMMA ConcatOne ==
    ASSUME NEW S, NEW s \in Seq(S), NEW x \in S
    PROVE  s \o <<x>> = Append(s, x) /\ s \o <<>> = s
  BY AppendIsConcat, ConcatEmptySeq

-----------------------------------------------------------------------------
(* The wire                                                                *)

\* Nothing is written.
LEMMA WireSame ==
    ASSUME SInv, UNCHANGED <<out, connected>>, given \in Nat, given' \in Nat, given <= given',
           done => done' /\ UNCHANGED <<discId, lastMsg>> /\ given' <= lastMsg,
           ~done' => lastRcpt <= lastRcpt', lastRcpt' \in Nat
    PROVE  Wire'
<1>1. ASSUME NEW i \in 1 .. Len(out)
      PROVE  /\ IsReceipt(out[i]) /\ out[i].id = OwnId => done' /\ given' = lastMsg'
             /\ IsReceipt(out[i]) /\ out[i].id # OwnId => out[i].id \in Msgs /\ out[i].id <= given'
             /\ IsReceipt(out[i]) /\ ~done' => out[i].id <= lastRcpt'
             /\ \A j \in i + 1 .. Len(out) : IsReceipt(out[i]) /\ IsReceipt(out[j]) =>
                   out[i].id < out[j].id \/ (j = Len(out) /\ out[j].id = discId' /\ done')
             /\ out[i].cmd = "ERROR" => i = Len(out) /\ done'
             /\ out[i].cmd = "CONNECTED" <=> i = 1 /\ connected
  <2>0. Msgs \subseteq Int /\ lastMsg \in Int /\ lastRcpt \in Int
    BY MsgFacts DEF SInv, Counts
  <2>1. IsReceipt(out[i]) /\ out[i].id = OwnId => done' /\ given' = lastMsg'
    <3>1. IsReceipt(out[i]) /\ out[i].id = OwnId => done /\ given = lastMsg
      BY DEF SInv, Wire
    <3> QED
      BY <2>0, <3>1
  <2>2. IsReceipt(out[i]) /\ out[i].id # OwnId => out[i].id \in Msgs /\ out[i].id <= given'
    <3>1. IsReceipt(out[i]) /\ out[i].id # OwnId => out[i].id \in Msgs /\ out[i].id <= given
      BY DEF SInv, Wire
    <3>2. \A x \in Msgs : x <= given => x <= given'
      BY <2>0
    <3> QED
      BY <3>1, <3>2
  <2>3. IsReceipt(out[i]) /\ ~done' => out[i].id <= lastRcpt'
    <3>1. IsReceipt(out[i]) /\ ~done' => out[i].id <= lastRcpt /\ out[i].id # OwnId /\ ~done
      BY DEF SInv, Wire
    <3>2. IsReceipt(out[i]) /\ out[i].id # OwnId => out[i].id \in Int
      BY <2>0 DEF SInv, Wire
    <3> QED
      BY <2>0, <3>1, <3>2
  <2>4. \A j \in i + 1 .. Len(out) : IsReceipt(out[i]) /\ IsReceipt(out[j]) =>
           out[i].id < out[j].id \/ (j = Len(out) /\ out[j].id = discId' /\ done')
    BY DEF SInv, Wire
  <2>5. /\ out[i].cmd = "ERROR" => i = Len(out) /\ done'
        /\ out[i].cmd = "CONNECTED" <=> i = 1 /\ connected
    BY DEF SInv, Wire
  <2> QED
    BY <2>1, <2>2, <2>3, <2>4, <2>5
<1> QED
  BY <1>1 DEF Wire

\* A frame f is written.
LEMMA WireWrite ==
    ASSUME SInv, ~done, NEW f \in FramesOver(Ids), out' = Append(out, f),
           UNCHANGED <<given, lastMsg>>, lastRcpt' \in Nat, lastRcpt <= lastRcpt',
           f.cmd = "ERROR" => done',
           IsReceipt(f) => f.id \in Ids,
           IsReceipt(f) /\ f.id = OwnId => done' /\ given = lastMsg,
           IsReceipt(f) /\ f.id # OwnId => f.id <= given,
           IsReceipt(f) /\ ~done' => f.id <= lastRcpt',
           IsReceipt(f) => lastRcpt < f.id \/ (f.id = discId' /\ done'),
           f.cmd = "CONNECTED" => out = <<>> /\ connected',
           f.cmd # "CONNECTED" => connected' = connected
    PROVE  Wire'
<1> DEFINE n == Len(out)
<1>1. /\ Len(out') = n + 1 /\ n \in Nat /\ out'[n + 1] = f
      /\ \A i \in 1 .. n : out'[i] = out[i]
  BY AppendFacts DEF SInv, Types
<1>2. out = <<>> <=> n = 0
  BY EmptySeq DEF SInv, Types
<1>3. Msgs \subseteq Int /\ lastMsg \in Int /\ lastRcpt \in Int /\ OwnId \in Int /\ given \in Int
      /\ \A k \in Ids : k # OwnId => k \in Msgs
  BY MsgFacts DEF SInv, Counts, Ids
<1>4. \A i \in 1 .. n : /\ IsReceipt(out[i]) => /\ out[i].id \in Msgs /\ out[i].id <= given
                                                /\ out[i].id # OwnId /\ out[i].id <= lastRcpt
                        /\ out[i].cmd # "ERROR"
                        /\ out[i].cmd = "CONNECTED" <=> i = 1 /\ connected
                        /\ \A j \in i + 1 .. n : IsReceipt(out[i]) /\ IsReceipt(out[j]) =>
                              out[i].id < out[j].id
  BY DEF SInv, Wire
<1>5. connected => n >= 1
  BY DEF SInv, Stage
<1> HIDE DEF n
<1>6. ASSUME NEW i \in 1 .. n
      PROVE  /\ IsReceipt(out'[i]) => /\ out'[i].id \in Msgs /\ out'[i].id <= given
                                      /\ out'[i].id # OwnId /\ out'[i].id <= lastRcpt'
             /\ out'[i].cmd # "ERROR"
             /\ out'[i].cmd = "CONNECTED" <=> i = 1 /\ connected'
             /\ \A j \in i + 1 .. n + 1 : IsReceipt(out'[i]) /\ IsReceipt(out'[j]) =>
                   out'[i].id < out'[j].id \/ (j = n + 1 /\ out'[j].id = discId' /\ done')
  <2>1. out'[i] = out[i] /\ n # 0
    BY <1>1
  <2>2. IsReceipt(out[i]) => out[i].id \in Int /\ out[i].id <= lastRcpt'
    <3>1. \A x \in Msgs : x <= lastRcpt => x <= lastRcpt'
      BY <1>3
    <3> QED
      BY <1>3, <1>4, <3>1
  <2>3. ASSUME NEW j \in i + 1 .. n + 1, IsReceipt(out'[i]), IsReceipt(out'[j])
        PROVE  out'[i].id < out'[j].id \/ (j = n + 1 /\ out'[j].id = discId' /\ done')
    <3>1. CASE j = n + 1
      <4>1. out'[j] = f
        BY <1>1, <3>1
      <4>2. f.id \in Int
        BY <1>3, <2>3, <4>1
      <4>3. out[i].id \in Int /\ out[i].id <= lastRcpt
        BY <1>3, <1>4, <2>1, <2>3
      <4>4. CASE lastRcpt < f.id
        BY <1>3, <2>1, <4>1, <4>2, <4>3, <4>4
      <4> QED
        BY <2>3, <3>1, <4>1, <4>4
    <3>2. CASE j \in i + 1 .. n
      <4>1. j \in 1 .. n
        BY <1>1, <3>2
      <4> QED
        BY <1>1, <1>4, <2>1, <2>3, <3>2, <4>1
    <3>3. j = n + 1 \/ j \in i + 1 .. n
      BY <1>1
    <3> QED
      BY <3>1, <3>2, <3>3
  <2>4. connected' = connected
    BY <1>2, <2>1
  <2>5. IsReceipt(out'[i]) => /\ out'[i].id \in Msgs /\ out'[i].id <= given
                              /\ out'[i].id # OwnId /\ out'[i].id <= lastRcpt'
    BY <1>4, <2>1, <2>2
  <2>6. out'[i].cmd # "ERROR" /\ (out'[i].cmd = "CONNECTED" <=> i = 1 /\ connected')
    BY <1>4, <2>1, <2>4
  <2> QED
    BY <2>3, <2>5, <2>6
<1>7. f.cmd = "CONNECTED" <=> n + 1 = 1 /\ connected'
  BY <1>1, <1>2, <1>5
<1>8. ASSUME NEW i \in 1 .. n + 1
      PROVE  /\ IsReceipt(out'[i]) /\ out'[i].id = OwnId => done' /\ given = lastMsg
             /\ IsReceipt(out'[i]) /\ out'[i].id # OwnId => out'[i].id \in Msgs /\ out'[i].id <= given
             /\ IsReceipt(out'[i]) /\ ~done' => out'[i].id <= lastRcpt'
             /\ \A j \in i + 1 .. n + 1 : IsReceipt(out'[i]) /\ IsReceipt(out'[j]) =>
                   out'[i].id < out'[j].id \/ (j = n + 1 /\ out'[j].id = discId' /\ done')
             /\ out'[i].cmd = "ERROR" => i = n + 1 /\ done'
             /\ out'[i].cmd = "CONNECTED" <=> i = 1 /\ connected'
  <2>1. CASE i \in 1 .. n
    BY <1>6, <2>1
  <2>2. CASE i = n + 1
    <3>1. out'[i] = f
      BY <1>1, <2>2
    <3>2. i + 1 .. n + 1 = {}
      BY <1>1, <2>2
    <3>3. IsReceipt(f) /\ f.id # OwnId => f.id \in Msgs
      BY <1>3
    <3> QED
      BY <1>7, <2>2, <3>1, <3>2, <3>3
  <2>3. i = n + 1 \/ i \in 1 .. n
    BY <1>1
  <2> QED
    BY <2>1, <2>2, <2>3
<1> QED
  BY <1>1, <1>8 DEF Wire

-----------------------------------------------------------------------------
(* send_queue                                                              *)

\* The writer takes the first item; a receipt among what is left is above it.
LEMMA QueueTake ==
    ASSUME SInv, sendQ # <<>>, sendQ' = Tail(sendQ), UNCHANGED <<given, ended>>,
           lastRcpt' = lastRcpt \/ (Head(sendQ) \in Msgs /\ lastRcpt' = Head(sendQ))
    PROVE  sendQ' \in Seq(Int) /\ Queue'
<1> DEFINE n == Len(sendQ)
<1>1. /\ sendQ' \in Seq(Int) /\ Len(sendQ') = n - 1 /\ n \in Nat \ {0}
      /\ \A i \in 1 .. n - 1 : sendQ'[i] = sendQ[i + 1]
      /\ Head(sendQ) = sendQ[1] /\ sendQ[1] \in Int
  BY TailFacts DEF SInv, Types
<1>2. \A i \in 1 .. n :
         /\ sendQ[i] \in Msgs => lastRcpt < sendQ[i] /\ sendQ[i] <= given
         /\ sendQ[i] \notin Msgs => sendQ[i] \in {None, Error} /\ i = n /\ ended
         /\ \A j \in i + 1 .. n : sendQ[j] \in Msgs => sendQ[i] < sendQ[j]
  BY DEF SInv, Queue
<1> HIDE DEF n
<1>3. ASSUME NEW i \in 1 .. n - 1
      PROVE  /\ sendQ'[i] \in Msgs => lastRcpt' < sendQ'[i] /\ sendQ'[i] <= given
             /\ sendQ'[i] \notin Msgs => sendQ'[i] \in {None, Error} /\ i = n - 1 /\ ended
             /\ \A j \in i + 1 .. n - 1 : sendQ'[j] \in Msgs => sendQ'[i] < sendQ'[j]
  <2>1. i + 1 \in 1 .. n /\ 1 \in 1 .. n /\ i + 1 \in 1 + 1 .. n /\ (i + 1 = n <=> i = n - 1)
    BY <1>1
  <2>2. sendQ'[i] = sendQ[i + 1]
    BY <1>1
  <2>3. sendQ'[i] \in Msgs => lastRcpt' < sendQ'[i] /\ sendQ'[i] <= given
    BY <1>1, <1>2, <2>1, <2>2
  <2>4. sendQ'[i] \notin Msgs => sendQ'[i] \in {None, Error} /\ i = n - 1 /\ ended
    BY <1>2, <2>1, <2>2
  <2>5. ASSUME NEW j \in i + 1 .. n - 1, sendQ'[j] \in Msgs
        PROVE  sendQ'[i] < sendQ'[j]
    <3>1. j \in 1 .. n - 1 /\ j + 1 \in i + 1 + 1 .. n
      BY <1>1
    <3>2. sendQ'[j] = sendQ[j + 1]
      BY <1>1, <3>1
    <3> QED
      BY <1>2, <2>1, <2>2, <2>5, <3>1, <3>2
  <2> QED
    BY <2>3, <2>4, <2>5
<1> QED
  BY <1>1, <1>3 DEF Queue

\* The publisher puts the next receipt, or the end.
LEMMA QueuePut ==
    ASSUME SInv, ~ended, NEW x \in Int, sendQ' = Append(sendQ, x), lastRcpt' = lastRcpt,
           given' \in Nat, given <= given',
           x \in Msgs => given < x /\ x <= given',
           x \notin Msgs => x \in {None, Error} /\ ended'
    PROVE  sendQ' \in Seq(Int) /\ Queue'
<1> DEFINE n == Len(sendQ)
<1>1. /\ sendQ' \in Seq(Int) /\ Len(sendQ') = n + 1 /\ n \in Nat
      /\ \A i \in 1 .. n : sendQ'[i] = sendQ[i]
      /\ sendQ'[n + 1] = x
  BY AppendFacts DEF SInv, Types
<1>2. \A i \in 1 .. n :
         /\ sendQ[i] \in Msgs /\ lastRcpt < sendQ[i] /\ sendQ[i] <= given
         /\ \A j \in i + 1 .. n : sendQ[j] \in Msgs => sendQ[i] < sendQ[j]
  BY DEF SInv, Queue
<1>3. Msgs \subseteq Int /\ given \in Int /\ lastRcpt \in Int /\ lastRcpt <= given
  BY MsgFacts DEF SInv, Counts
<1> HIDE DEF n
<1>4. ASSUME NEW i \in 1 .. n
      PROVE  /\ sendQ'[i] \in Msgs /\ lastRcpt < sendQ'[i] /\ sendQ'[i] <= given'
             /\ \A j \in i + 1 .. n + 1 : sendQ'[j] \in Msgs => sendQ'[i] < sendQ'[j]
  <2>1. sendQ'[i] = sendQ[i] /\ sendQ[i] \in Int
    BY <1>1, <1>2, <1>3
  <2>2. sendQ'[i] \in Msgs /\ lastRcpt < sendQ'[i]
    BY <1>2, <2>1
  <2>3. sendQ[i] <= given'
    <3>1. sendQ[i] <= given
      BY <1>2
    <3> QED
      BY <1>3, <2>1, <3>1
  <2>4. ASSUME NEW j \in i + 1 .. n + 1, sendQ'[j] \in Msgs
        PROVE  sendQ'[i] < sendQ'[j]
    <3>1. CASE j = n + 1
      <4>1. x \in Msgs /\ sendQ'[j] = x /\ sendQ[i] <= given
        BY <1>1, <1>2, <2>4, <3>1
      <4> QED
        BY <1>3, <2>1, <4>1
    <3>2. CASE j \in i + 1 .. n
      <4>1. j \in 1 .. n
        BY <1>1, <3>2
      <4> QED
        BY <1>1, <1>2, <2>1, <2>4, <3>2, <4>1
    <3>3. j = n + 1 \/ j \in i + 1 .. n
      BY <1>1
    <3> QED
      BY <3>1, <3>2, <3>3
  <2> QED
    BY <2>1, <2>2, <2>3, <2>4
<1>5. /\ x \in Msgs => lastRcpt < x /\ x <= given'
      /\ x \notin Msgs => x \in {None, Error} /\ ended'
      /\ n + 1 + 1 .. n + 1 = {}
  BY <1>1, <1>3
<1>6. ASSUME NEW i \in 1 .. n + 1
      PROVE  /\ sendQ'[i] \in Msgs => lastRcpt < sendQ'[i] /\ sendQ'[i] <= given'
             /\ sendQ'[i] \notin Msgs => sendQ'[i] \in {None, Error} /\ i = n + 1 /\ ended'
             /\ \A j \in i + 1 .. n + 1 : sendQ'[j] \in Msgs => sendQ'[i] < sendQ'[j]
  <2>1. CASE i \in 1 .. n
    BY <1>4, <2>1
  <2>2. CASE i = n + 1
    BY <1>1, <1>5, <2>2
  <2>3. i = n + 1 \/ i \in 1 .. n
    BY <1>1
  <2> QED
    BY <2>1, <2>2, <2>3
<1> QED
  BY <1>1, <1>6 DEF Queue

-----------------------------------------------------------------------------
(* Every step keeps the invariant                                          *)

LEMMA InitSInv == Init => SInv
<1> SUFFICES ASSUME Init
             PROVE  SInv
  OBVIOUS
<1>1. sendQ \in Seq(Int) /\ out \in Seq(FramesOver(Ids)) /\ Len(sendQ) = 0 /\ Len(out) = 0
  BY EmptySeq DEF Init
<1>2. Types /\ Stage
  BY <1>1 DEF Init, Types, Stage
<1>3. Counts
  BY MsgsAssumption DEF Init, Counts, NoId
<1>4. Queue /\ Wire
  BY <1>1 DEF Queue, Wire
<1> QED
  BY <1>2, <1>3, <1>4 DEF SInv

\* The transport is closed after an ERROR frame, or with one already closing.
LEMMA CloseStep ==
    ASSUME SInv, CloseWithError, UNCHANGED <<connected, lost, given, ended, ids>>,
           sendQ' \in Seq(Int), Queue', writer' \in {writer, "end"}
    PROVE  SInv'
<1> USE DEF ids
<1>1. done' = TRUE /\ out' = IF done THEN out ELSE out \o <<ErrorFrame>>
  BY DEF CloseWithError, WriteAndClose
<1>2. out \in Seq(FramesOver(Ids)) /\ ErrorFrame \in FramesOver(Ids) /\ ErrorFrame.cmd = "ERROR"
      /\ ~IsReceipt(ErrorFrame)
  BY FrameFacts DEF SInv, Types, IsReceipt
<1>3. given \in Nat /\ lastRcpt \in Nat /\ given <= lastMsg
  BY DEF SInv, Counts
<1>4. CASE done
  <2>1. Wire'
    BY <1>1, <1>3, <1>4, WireSame
  <2> QED
    BY <1>1, <1>4, <2>1 DEF SInv, Types, Counts, Stage
<1>5. CASE ~done
  <2>1. out' = Append(out, ErrorFrame)
    BY <1>1, <1>2, <1>5, ConcatOne
  <2>2. Wire'
    BY <1>1, <1>2, <1>3, <1>5, <2>1, WireWrite
  <2>3. out' \in Seq(FramesOver(Ids)) /\ Len(out') = Len(out) + 1 /\ Len(out) \in Nat
    BY <1>2, <2>1, AppendFacts
  <2>4. Types' /\ Stage'
    BY <1>1, <2>3 DEF SInv, Types, Stage
  <2> QED
    BY <2>2, <2>4 DEF SInv, Counts
<1> QED
  BY <1>4, <1>5

\* A step that writes nothing and leaves send_queue alone.
LEMMA QuietStep ==
    ASSUME SInv, UNCHANGED <<connected, out, sendQ, given, ended, lastRcpt>>,
           done' \in BOOLEAN, lost' \in BOOLEAN, writer' \in {writer, "end"}, Counts',
           done => done' /\ UNCHANGED <<discId, lastMsg>>
    PROVE  SInv'
<1>1. given \in Nat /\ lastRcpt \in Nat /\ given <= lastMsg
  BY DEF SInv, Counts
<1>2. Wire'
  BY <1>1, WireSame
<1>3. Types' /\ Stage'
  BY DEF SInv, Types, Stage
<1>4. Queue'
  BY DEF SInv, Queue
<1> QED
  BY <1>2, <1>3, <1>4 DEF SInv

LEMMA ReceivedConnectStep ==
    ASSUME SInv, NEW f, ReceivedConnect(f)
    PROVE  SInv'
<1>1. /\ ~done /\ ~connected /\ connected' = TRUE /\ writer' = "on" /\ done' = done
      /\ out' = Append(out, Frame("CONNECTED", NoId))
      /\ UNCHANGED <<lost, lastMsg, lastRcpt, discId, sendQ, given, ended>>
  BY DEF ReceivedConnect, Refuses, Connect, ids, queues
<1>2. out = <<>> /\ out \in Seq(FramesOver(Ids)) /\ lastRcpt \in Nat
  BY <1>1 DEF SInv, Stage, Types, Counts
<1> DEFINE g == Frame("CONNECTED", NoId)
<1>3. g \in FramesOver(Ids) /\ g.cmd = "CONNECTED" /\ ~IsReceipt(g)
  BY FrameFacts DEF IsReceipt
<1> HIDE DEF g
<1>4. out' = Append(out, g)
  BY <1>1 DEF g
<1>5. Wire'
  <2>1. lastRcpt' \in Nat /\ lastRcpt <= lastRcpt'
    BY <1>1, <1>2
  <2>2. g.cmd # "ERROR"
    BY <1>3
  <2> QED
    BY <1>1, <1>2, <1>3, <1>4, <2>1, <2>2, WireWrite, Zenon
<1>6. out' \in Seq(FramesOver(Ids)) /\ Len(out') = Len(out) + 1 /\ Len(out) \in Nat
  BY <1>2, <1>3, <1>4, AppendFacts
<1>7. Types' /\ Stage'
  BY <1>1, <1>6 DEF SInv, Types, Stage
<1> QED
  BY <1>1, <1>5, <1>7 DEF SInv, Counts, Queue

LEMMA ReceivedSendStep ==
    ASSUME SInv, NEW f \in Inputs, ReceivedSend(f)
    PROVE  SInv'
<1>1. /\ ~done /\ discId = NoId /\ f.cmd = "SEND" /\ f.ok /\ lastMsg' = f.id
      /\ UNCHANGED <<connected, done, lost, writer, lastRcpt, discId, sendQ, given, ended, out>>
  BY DEF ReceivedSend, Refuses
<1>2. f.id \in Msgs /\ f.id = lastMsg + 1
  BY <1>1 DEF Inputs, Frame, Refused, Malformed
<1>3. Counts'
  BY <1>1, <1>2, MsgFacts DEF SInv, Counts
<1> QED
  BY <1>1, <1>3, QuietStep DEF SInv, Types

\* RECEIPT is written as the answer to a DISCONNECT.
LEMMA AnswerStep ==
    ASSUME SInv, ~done, done' = TRUE, discId' \in {OwnId, lastMsg}, discId' # NoId,
           given = lastMsg, out' = Append(out, Receipt(discId')),
           UNCHANGED <<connected, lost, writer, lastMsg, lastRcpt, given, ended>>,
           sendQ' \in Seq(Int), Queue', writer = "on" \/ connected
    PROVE  SInv'
<1>1. /\ lastMsg \in 0 .. MaxMsgs /\ given \in Nat /\ lastRcpt \in Nat /\ lastRcpt <= given
      /\ out \in Seq(FramesOver(Ids))
  BY DEF SInv, Counts, Types
<1>2. discId' \in Ids
  BY <1>1, MsgsAssumption DEF Ids, Msgs, NoId, OwnId
<1> DEFINE g == Receipt(discId')
<1>3. g \in FramesOver(Ids) /\ g.cmd = "RECEIPT" /\ g.id = discId' /\ IsReceipt(g)
  BY <1>2, FrameFacts DEF IsReceipt
<1>4. out' = Append(out, g)
  OBVIOUS
<1> HIDE DEF g
<1>5. g.id # OwnId => g.id <= given
  BY <1>1, <1>3
<1>6. Wire'
  BY <1>1, <1>2, <1>3, <1>4, <1>5, WireWrite
<1>7. out' \in Seq(FramesOver(Ids)) /\ Len(out') = Len(out) + 1 /\ Len(out) \in Nat
  BY <1>1, <1>3, <1>4, AppendFacts
<1>8. Types' /\ Stage'
  BY <1>7 DEF SInv, Types, Stage
<1>9. Counts'
  BY <1>1 DEF Counts
<1> QED
  BY <1>6, <1>8, <1>9 DEF SInv

LEMMA ReceivedDisconnectStep ==
    ASSUME SInv, NEW f \in Inputs, ReceivedDisconnect(f)
    PROVE  SInv'
<1>1. /\ ~done /\ discId = NoId /\ connected /\ f.cmd = "DISCONNECT" /\ discId' = f.id
      /\ UNCHANGED <<connected, lost, writer, lastMsg, lastRcpt, sendQ, given, ended>>
  BY DEF ReceivedDisconnect, Refuses, queues
<1>2. f.id \in {NoId, OwnId, lastMsg}
  BY <1>1 DEF Inputs, Frame, Refused, Malformed
<1>3. Counts'
  BY <1>1, <1>2 DEF SInv, Counts
<1>4. sendQ' \in Seq(Int) /\ Queue'
  BY <1>1 DEF SInv, Types, Queue
<1>5. CASE f.id = NoId
  <2>1. out' = out \o <<>> /\ done' = TRUE
    BY <1>1, <1>5 DEF ReceivedDisconnect, WriteAndClose
  <2>2. out' = out
    BY <2>1, ConcatEmptySeq DEF SInv, Types
  <2> QED
    BY <1>1, <1>3, <2>1, <2>2, QuietStep DEF SInv, Types
<1>6. CASE f.id # NoId /\ (lastMsg = NoId \/ lastMsg = lastRcpt)
  <2>1. out' = out \o <<Receipt(f.id)>> /\ done' = TRUE
    BY <1>1, <1>6 DEF ReceivedDisconnect, WriteAndClose
  <2>2. f.id \in Ids /\ given = lastMsg
    BY <1>2, <1>6, MsgFacts DEF SInv, Counts
  <2>3. out' = Append(out, Receipt(f.id))
    <3>1. Receipt(f.id) \in FramesOver(Ids) /\ out \in Seq(FramesOver(Ids))
      BY <2>2, FrameFacts DEF SInv, Types
    <3> QED
      BY <2>1, <3>1, ConcatOne
  <2>4. f.id \in {OwnId, lastMsg}
    BY <1>2, <1>6
  <2> QED
    BY <1>1, <1>4, <1>6, <2>1, <2>2, <2>3, <2>4, AnswerStep
<1>7. CASE f.id # NoId /\ ~(lastMsg = NoId \/ lastMsg = lastRcpt)
  <2>1. UNCHANGED <<done, out>>
    BY <1>7 DEF ReceivedDisconnect
  <2> QED
    BY <1>1, <1>3, <2>1, QuietStep DEF SInv, Types
<1> QED
  BY <1>5, <1>6, <1>7

LEMMA SendReceiptStep ==
    ASSUME SInv, SendReceipt
    PROVE  SInv'
<1> DEFINE k == Head(sendQ)
<1>1. /\ writer = "on" /\ sendQ # <<>> /\ sendQ' = Tail(sendQ) /\ k \in Msgs
      /\ UNCHANGED <<connected, lost, writer, lastMsg, discId, given, ended>>
  BY DEF SendReceipt, WriterTakes
<1>2. /\ k \in Int /\ k >= 1 /\ k <= MaxMsgs /\ lastRcpt < k /\ k <= given /\ lastRcpt \in Nat
      /\ given \in Nat /\ given <= lastMsg /\ lastMsg \in 0 .. MaxMsgs /\ MaxMsgs \in Nat
      /\ out \in Seq(FramesOver(Ids))
  <2>1. k = sendQ[1] /\ 1 \in 1 .. Len(sendQ)
    BY <1>1, TailFacts DEF SInv, Types
  <2>2. lastRcpt < k /\ k <= given
    BY <1>1, <2>1 DEF SInv, Queue
  <2>3. k \in Int /\ k >= 1 /\ k <= MaxMsgs /\ MaxMsgs \in Nat
    BY <1>1, MsgFacts
  <2> QED
    BY <2>2, <2>3 DEF SInv, Counts, Types
<1>3. connected
  BY <1>1 DEF SInv, Stage
<1>4. CASE ~done /\ discId # NoId /\ k = lastMsg
  <2>1. done' = TRUE /\ out' = out \o <<Receipt(discId)>> /\ lastRcpt' = lastRcpt
    BY <1>4 DEF SendReceipt, WriteAndClose
  <2>2. discId \in {OwnId, lastMsg} /\ discId \in Ids
    BY <1>1, <1>4, MsgFacts DEF SInv, Counts
  <2>3. Receipt(discId) \in FramesOver(Ids)
    BY <2>2, FrameFacts
  <2>4. out' = Append(out, Receipt(discId))
    BY <1>2, <2>1, <2>3, ConcatOne
  <2>5. sendQ' \in Seq(Int) /\ Queue'
    BY <1>1, <2>1, QueueTake
  <2>6. given = lastMsg
    BY <1>2, <1>4
  <2> QED
    BY <1>1, <1>3, <1>4, <2>1, <2>2, <2>4, <2>5, <2>6, AnswerStep
<1>5. CASE ~done /\ ~(discId # NoId /\ k = lastMsg)
  <2>1. done' = done /\ out' = Append(out, Receipt(k)) /\ lastRcpt' = k
    BY <1>5 DEF SendReceipt
  <2>2. sendQ' \in Seq(Int) /\ Queue'
    BY <1>1, <2>1, QueueTake
  <2> DEFINE g == Receipt(k)
  <2>3. g \in FramesOver(Ids) /\ g.cmd = "RECEIPT" /\ g.id = k /\ IsReceipt(g) /\ k \in Ids
        /\ k # OwnId
    BY <1>1, FrameFacts, MsgFacts DEF IsReceipt
  <2>4. out' = Append(out, g)
    BY <2>1
  <2> HIDE DEF g, k
  <2>5. lastRcpt' \in Nat /\ lastRcpt <= lastRcpt' /\ g.id <= lastRcpt' /\ lastRcpt < g.id
    BY <1>2, <2>1, <2>3
  <2>6. Wire'
    BY <1>1, <1>2, <1>5, <2>1, <2>3, <2>4, <2>5, WireWrite
  <2>7. out' \in Seq(FramesOver(Ids)) /\ Len(out') = Len(out) + 1 /\ Len(out) \in Nat
    BY <1>2, <2>3, <2>4, AppendFacts
  <2>8. Types' /\ Stage'
    BY <1>1, <1>3, <2>1, <2>2, <2>7 DEF SInv, Types, Stage
  <2>9. Counts'
    BY <1>1, <1>2, <2>1, <2>5 DEF SInv, Counts
  <2> QED
    BY <2>2, <2>6, <2>8, <2>9 DEF SInv
<1>6. CASE done
  <2>1. done' = done /\ out' = out /\ lastRcpt' = lastRcpt
    BY <1>6 DEF SendReceipt
  <2>2. sendQ' \in Seq(Int) /\ Queue'
    BY <1>1, <2>1, QueueTake
  <2>3. Wire'
    BY <1>1, <1>2, <1>6, <2>1, WireSame
  <2>4. Types' /\ Stage'
    BY <1>1, <2>1, <2>2 DEF SInv, Types, Stage
  <2>5. Counts'
    BY <1>1, <2>1 DEF SInv, Counts
  <2> QED
    BY <2>2, <2>3, <2>4, <2>5 DEF SInv
<1> QED
  BY <1>4, <1>5, <1>6

LEMMA NextSInv == SInv /\ [Next]_vars => SInv'
<1> SUFFICES ASSUME SInv, [Next]_vars
             PROVE  SInv'
  OBVIOUS
<1> USE DEF ids, queues
<1>0. /\ given \in Nat /\ lastRcpt \in Nat /\ given <= lastMsg /\ Counts /\ lastMsg \in 0 .. MaxMsgs
      /\ lastRcpt <= given /\ MaxMsgs \in Nat
  BY MsgFacts DEF SInv, Counts
<1>1. ASSUME NEW f \in Inputs, DataReceived(f)
      PROVE  SInv'
  <2>1. CASE IgnoreFrame(f)
    BY <2>1 DEF IgnoreFrame, vars, SInv, Types, Counts, Queue, Stage, Wire
  <2>2. CASE RejectFrame(f)
    <3>1. sendQ' \in Seq(Int) /\ Queue'
      BY <2>2 DEF RejectFrame, SInv, Types, Queue
    <3> QED
      BY <2>2, <3>1, CloseStep DEF RejectFrame
  <2> QED
    BY <1>1, <2>1, <2>2, ReceivedConnectStep, ReceivedSendStep, ReceivedDisconnectStep
       DEF DataReceived
<1>2. CASE SendReceipt
  BY <1>2, SendReceiptStep
<1>3. CASE CloseGracefully
  <2>1. /\ sendQ # <<>> /\ sendQ' = Tail(sendQ) /\ CloseWithError /\ writer' = "end"
        /\ UNCHANGED <<connected, lost, lastMsg, discId, lastRcpt, given, ended>>
    BY <1>3 DEF CloseGracefully, WriterTakes
  <2>2. sendQ' \in Seq(Int) /\ Queue'
    BY <2>1, QueueTake
  <2> QED
    BY <2>1, <2>2, CloseStep
<1>4. CASE ConnectedTimeout
  <2>1. Counts'
    BY <1>0, <1>4 DEF ConnectedTimeout, Counts
  <2> QED
    BY <1>4, <2>1, QuietStep DEF ConnectedTimeout, SInv, Types
<1>5. CASE WatchdogFires
  <2>1. sendQ' \in Seq(Int) /\ Queue'
    BY <1>5 DEF WatchdogFires, SInv, Types, Queue
  <2> QED
    BY <1>5, <2>1, CloseStep DEF WatchdogFires
<1>6. CASE ConnectionLost
  <2>1. Counts'
    BY <1>0, <1>6 DEF ConnectionLost, Counts
  <2> QED
    BY <1>6, <2>1, QuietStep DEF ConnectionLost
<1>7. CASE PublisherConfirms
  <2>1. PICK k \in given + 1 .. lastMsg : sendQ' = Append(sendQ, k) /\ given' = k
    BY <1>7 DEF PublisherConfirms
  <2>2. /\ ~ended
        /\ UNCHANGED <<connected, done, lost, writer, lastMsg, lastRcpt, discId, ended, out>>
    BY <1>7 DEF PublisherConfirms
  <2>3. k \in Nat /\ given < k /\ k <= lastMsg
    BY <1>0, <2>1
  <2>4. k \in Msgs
    BY <1>0, <2>3 DEF Msgs
  <2>5. given <= given' /\ given' \in Nat /\ k <= given' /\ k \in Int
    BY <1>0, <2>1, <2>3
  <2>6. sendQ' \in Seq(Int) /\ Queue'
    BY <2>1, <2>2, <2>3, <2>4, <2>5, QueuePut, Zenon
  <2>7. Wire'
    BY <1>0, <2>1, <2>2, <2>3, <2>5, WireSame
  <2>8. Counts'
    BY <1>0, <2>1, <2>2, <2>3 DEF Counts
  <2>9. Types' /\ Stage'
    BY <2>2, <2>6 DEF SInv, Types, Stage
  <2> QED
    BY <2>6, <2>7, <2>8, <2>9 DEF SInv
<1>8. CASE PublisherEnds
  <2>1. PICK e \in {None, Error} : sendQ' = Append(sendQ, e)
    BY <1>8 DEF PublisherEnds
  <2>2. /\ ~ended /\ ended' = TRUE
        /\ UNCHANGED <<connected, done, lost, writer, lastMsg, lastRcpt, discId, given, out>>
    BY <1>8 DEF PublisherEnds
  <2>3. e \in Int /\ e \notin Msgs
    BY <2>1, MsgFacts
  <2>4. sendQ' \in Seq(Int) /\ Queue'
    BY <1>0, <2>1, <2>2, <2>3, QueuePut
  <2>5. Wire'
    BY <1>0, <2>2, WireSame
  <2>6. Counts'
    BY <1>0, <2>2 DEF Counts
  <2>7. Types' /\ Stage'
    BY <2>2, <2>4 DEF SInv, Types, Stage
  <2> QED
    BY <2>4, <2>5, <2>6, <2>7 DEF SInv
<1>9. CASE UNCHANGED vars
  BY <1>9 DEF vars, SInv, Types, Counts, Queue, Stage, Wire
<1> QED
  BY <1>1, <1>2, <1>3, <1>4, <1>5, <1>6, <1>7, <1>8, <1>9 DEF Next, Local

-----------------------------------------------------------------------------
(* The theorems                                                            *)

\* The invariant of the protocol, against any client.
THEOREM Invariance == Spec => []SInv
BY InitSInv, NextSInv, PTL DEF Spec

\* What the invariant says of the types, and the two variables it does not name.
History == recvQ \in Seq(Msgs \cup {None}) /\ ended \in BOOLEAN

LEMMA NextHistory == SInv /\ History /\ [Next]_vars => History'
<1> SUFFICES ASSUME SInv, History, [Next]_vars
             PROVE  History'
  OBVIOUS
<1>1. ASSUME NEW f \in Inputs, ReceivedSend(f)
      PROVE  History'
  <2>1. f.cmd = "SEND" /\ f.ok
    BY <1>1 DEF ReceivedSend, Refuses
  <2>2. f.id \in Msgs
    BY <2>1 DEF Inputs, Frame, Refused, Malformed
  <2>3. recvQ' = Append(recvQ, f.id) /\ ended' = ended
    BY <1>1 DEF ReceivedSend
  <2> QED
    BY <2>2, <2>3, AppendFacts DEF History
<1>2. ASSUME NEW f \in Inputs, DataReceived(f), ~ReceivedSend(f)
      PROVE  History'
  BY <1>2 DEF DataReceived, IgnoreFrame, RejectFrame, ReceivedConnect, ReceivedDisconnect,
              History, vars, queues
<1>3. CASE Local
  BY <1>3 DEF Local, SendReceipt, CloseGracefully, WriterTakes, ConnectedTimeout,
              WatchdogFires, PublisherConfirms, PublisherEnds, History, queues
<1>4. CASE ConnectionLost
  <2>1. recvQ' = Append(recvQ, None) /\ ended' = ended
    BY <1>4 DEF ConnectionLost
  <2> QED
    BY <2>1, AppendFacts DEF History
<1>5. CASE UNCHANGED vars
  BY <1>5 DEF vars, queues, History
<1> QED
  BY <1>1, <1>2, <1>3, <1>4, <1>5 DEF Next

\* Every callback keeps the types: what the protocol puts in recv_queue, takes from
\* send_queue and writes to the transport are messages, ends and frames, and its ids
\* are of messages that have arrived.
THEOREM TypesHold == Spec => []TypeOK
<1>1. Init => History
  BY EmptySeq DEF Init, History
<1>2. SInv /\ History => TypeOK
  <2> SUFFICES ASSUME SInv, History
               PROVE  TypeOK
    OBVIOUS
  <2>1. /\ lastMsg \in Msgs \cup {NoId} /\ lastRcpt \in Msgs \cup {NoId}
        /\ given \in Msgs \cup {0} /\ discId \in Ids \cup {NoId}
    BY MsgFacts DEF SInv, Counts
  <2>2. sendQ \in Seq(Msgs \cup {None, Error})
    <3>1. /\ sendQ \in Seq(Int) /\ Len(sendQ) \in Nat
          /\ \A i \in 1 .. Len(sendQ) : sendQ[i] \in Msgs \cup {None, Error}
      BY LenProperties DEF SInv, Types, Queue
    <3> QED
      BY <3>1, SeqDef, LenProperties
  <2> QED
    BY <2>1, <2>2 DEF SInv, Types, History, TypeOK
<1> QED
  BY <1>1, <1>2, Invariance, NextHistory, PTL DEF Spec

\* A RECEIPT on the wire is backed by the publisher, also when it answers a
\* DISCONNECT that crosses the receipt of the last message.
THEOREM ReceiptsBackedHolds == Spec => []ReceiptsBacked
<1>1. SInv => ReceiptsBacked
  BY LenProperties DEF SInv, Types, Wire, IsReceipt, ReceiptsBacked
<1> QED
  BY <1>1, Invariance, PTL

\* No message gets a second RECEIPT, or one after a later message, but for the
\* answer to a DISCONNECT, which is the last frame.
THEOREM ReceiptsOrderedHolds == Spec => []ReceiptsOrdered
<1>1. SInv => ReceiptsOrdered
  <2> SUFFICES ASSUME SInv, NEW i \in DOMAIN out, NEW j \in DOMAIN out, i < j,
                      out[i].cmd = "RECEIPT", out[j].cmd = "RECEIPT"
               PROVE  out[i].id < out[j].id \/ (j = Len(out) /\ out[j].id = discId /\ done)
    BY DEF ReceiptsOrdered
  <2>1. DOMAIN out = 1 .. Len(out) /\ Len(out) \in Nat
    BY LenProperties DEF SInv, Types
  <2>2. i \in 1 .. Len(out) /\ j \in i + 1 .. Len(out)
    BY <2>1
  <2> QED
    BY <2>2 DEF SInv, Wire, IsReceipt
<1> QED
  BY <1>1, Invariance, PTL

\* CONNECTED is the first frame that is not an ERROR, and ERROR the last one.
THEOREM FramesWellFormedHolds == Spec => []FramesWellFormed
<1>1. SInv => FramesWellFormed
  BY LenProperties DEF SInv, Types, Wire, FramesWellFormed
<1> QED
  BY <1>1, Invariance, PTL

=============================================================================
