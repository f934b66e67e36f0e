---------------------------- MODULE SessionProofs -----------------------------
(***************************************************************************)
(* Proofs about StompSession, for any number of messages: what the client  *)
(* tells its consumer task, and that neither end refuses a frame of the    *)
(* other, under every interleaving, timer and failure of the network.      *)
(***************************************************************************)
EXTENDS StompSession, SequenceTheorems, TLAPS

IsReceipt(f) == f.cmd = "RECEIPT"
Frames == FramesOver(Nat)

Types ==
    /\ cSendQ \in Seq(Int) /\ cRecvQ \in Seq(Int) /\ c2s \in Seq(Frames)
    /\ sSendQ \in Seq(Int) /\ sRecvQ \in Seq(Int) /\ s2c \in Seq(Frames)
    /\ {cConnected, cDone, cLost, cSentDisc, cEnded, sConnected, sDone, sLost} \subseteq BOOLEAN
    /\ cWriter \in {"off", "on", "end"} /\ sWriter \in {"off", "on", "end"}

\* A message is sent, received, confirmed by the publisher, then receipted.
Numbers ==
    /\ {cLastMsg, cLastRcpt, produced, sLastMsg, sLastRcpt, sDiscId, given} \subseteq Nat
    /\ sLastRcpt <= given /\ given <= sLastMsg /\ sLastMsg <= cLastMsg /\ cLastRcpt <= given

\* The messages in the send_queue of the client continue those that were sent.
ToSend(q, last) == \A i \in 1 .. Len(q) : q[i] > 0 => q[i] = last + i

ClientSide ==
    /\ cLost => cDone
    /\ cWriter = "on" => cConnected
    /\ ~cDone /\ ~cConnected => cWriter = "off"
    /\ cSentDisc => cWriter = "end"
    /\ cSentDisc /\ ~cDone => cLastRcpt < cLastMsg
    /\ ~cDone /\ cWriter # "end" =>
          ToSend(cSendQ, cLastMsg) /\ (~cEnded => produced = cLastMsg + Len(cSendQ))

\* The receipts in the send_queue of the server ascend from above rcpt.
Pending(q, rcpt, most) ==
    \A i \in 1 .. Len(q) :
        /\ q[i] > 0 => rcpt < q[i] /\ q[i] <= most
        /\ \A j \in i + 1 .. Len(q) : q[j] > 0 => q[i] < q[j]

ServerSide ==
    /\ sLost => sDone
    /\ sWriter = "on" => sConnected
    /\ cConnected => sConnected
    /\ ~sConnected => cLastMsg = 0
    /\ ~sConnected /\ ~sDone => s2c = <<>>
    /\ sDiscId # 0 => cSentDisc /\ sDiscId = cLastMsg /\ sLastMsg = cLastMsg /\ c2s = <<>>
    /\ Pending(sSendQ, sLastRcpt, given)

\* What the server has received is an initial part of what the client sent.
Received ==
    /\ sLastMsg <= Len(sRecvQ) /\ (~sDone => Len(sRecvQ) = sLastMsg)
    /\ \A m \in 1 .. sLastMsg : sRecvQ[m] = m

\* The way to the server: the messages from received + 1 on, at most one
\* DISCONNECT behind all of them.
Upward(q, received, last, sentDisc) ==
    /\ \A i \in 1 .. Len(q) :
          \/ q[i] = Frame("SEND", received + i) /\ received + i <= last
          \/ /\ q[i] = Frame("DISCONNECT", last) /\ sentDisc /\ last # 0
             /\ i = Len(q) /\ last = received + Len(q) - 1
    /\ ~sentDisc => last = received + Len(q)

Up ==
    ~sDone => IF sConnected THEN Upward(c2s, sLastMsg, cLastMsg, cSentDisc)
                            ELSE c2s = <<Frame("STOMP", NoId)>>

\* The way to the client.
Legal(q) ==
    \A i \in 1 .. Len(q) :
        /\ q[i].cmd \in {"CONNECTED", "RECEIPT", "ERROR"} /\ q[i].ok
        /\ IsReceipt(q[i]) => q[i].id > 0
Below(q, n) == \A i \in 1 .. Len(q) : IsReceipt(q[i]) => q[i].id <= n
Above(q, n) == \A i \in 1 .. Len(q) : IsReceipt(q[i]) => n < q[i].id

\* Receipts ascend, but for those behind the one for the message final.
Ascending(q, final) ==
    \A i \in 1 .. Len(q) : \A j \in i + 1 .. Len(q) :
        IsReceipt(q[i]) /\ IsReceipt(q[j]) => q[i].id < q[j].id \/ q[i].id = final

Greeting(q, sent, seen) ==
    /\ \A i \in 1 .. Len(q) : /\ q[i].cmd = "CONNECTED" => i = 1 /\ sent /\ ~seen
                              /\ IsReceipt(q[i]) => sent
    /\ sent /\ ~seen => Len(q) >= 1 /\ q[1].cmd = "CONNECTED"

\* The receipt at which the client will close.
Final == IF cSentDisc THEN cLastMsg ELSE 0

Down ==
    /\ Legal(s2c) /\ Below(s2c, given)
    /\ ~sDone => Below(s2c, sLastRcpt) /\ cLastRcpt <= sLastRcpt
    /\ ~cDone => /\ Above(s2c, cLastRcpt) /\ Ascending(s2c, Final)
                 /\ Greeting(s2c, sConnected, cConnected)

\* What the consumer task has been told.
Told ==
    \A i \in 1 .. Len(cRecvQ) :
        /\ cRecvQ[i] = None => i = Len(cRecvQ) /\ cLost
        /\ cRecvQ[i] # None => cRecvQ[i] > 0 /\ cRecvQ[i] <= cLastRcpt
        /\ \A j \in i + 1 .. Len(cRecvQ) : cRecvQ[j] # None => cRecvQ[i] < cRecvQ[j]

IInv == Types /\ Numbers /\ ClientSide /\ ServerSide /\ Received /\ Up /\ Down /\ Told

-----------------------------------------------------------------------------
(* Frames and sequences                                                    *)

\* The two protocols are instances with frames of their own.
LEMMA Names ==
    /\ NoId = 0 /\ C!NoId = 0 /\ S!NoId = 0
    /\ None = 0 /\ C!None = 0 /\ S!None = 0 /\ C!Error = -1 /\ S!Error = -1
    /\ \A cmd, id : C!Frame(cmd, id) = Frame(cmd, id) /\ S!Frame(cmd, id) = Frame(cmd, id)
    /\ \A id : S!Receipt(id) = Frame("RECEIPT", id)
    /\ S!ErrorFrame = Frame("ERROR", 0)
    /\ \A k \in C!Msgs : k \in Nat /\ k > 0
    /\ \A k \in S!Msgs : k \in Nat /\ k > 0
  BY SessionAssumption
     DEF NoId, C!NoId, S!NoId, None, C!None, S!None, C!Error, S!Error, Frame, C!Frame, S!Frame,
         S!Receipt, S!ErrorFrame, C!Msgs, S!Msgs

LEMMA FrameFacts ==
    ASSUME NEW cmd \in Commands, NEW id \in Nat
    PROVE  /\ Frame(cmd, id) \in Frames /\ Frame(cmd, id).ok
           /\ Frame(cmd, id).cmd = cmd /\ Frame(cmd, id).id = id
  BY DEF Frame, Frames, FramesOver

LEMMA CommandNames ==
    {"STOMP", "CONNECTED", "SEND", "RECEIPT", "DISCONNECT", "ERROR"} \subseteq Commands
  BY DEF Commands

LEMMA AppendFacts ==
    ASSUME NEW T, NEW s \in Seq(T), NEW x \in T
    PROVE  /\ Append(s, x) \in Seq(T) /\ Len(Append(s, x)) = Len(s) + 1 /\ Len(s) \in Nat
           /\ \A i \in 1 .. Len(s) : Append(s, x)[i] = s[i]
           /\ Append(s, x)[Len(s) + 1] = x
           /\ \A i \in 1 .. Len(s) : s[i] \in T
BY AppendProperties, LenProperties, ElementOfSeq

LEMMA TailFacts ==
    ASSUME NEW T, NEW s \in Seq(T), s # <<>>
    PROVE  /\ Tail(s) \in Seq(T) /\ Len(Tail(s)) = Len(s) - 1 /\ Len(s) \in Nat \ {0}
           /\ \A i \in 1 .. Len(s) - 1 : Tail(s)[i] = s[i + 1]
           /\ Head(s) = s[1]
           /\ \A i \in 1 .. Len(s) : s[i] \in T
<1>1. Len(s) \in Nat \ {0}
  BY EmptySeq, LenProperties
<1>2. /\ Tail(s) \in Seq(T) /\ Len(Tail(s)) = Len(s) - 1
      /\ \A i \in 1 .. Len(Tail(s)) : Tail(s)[i] = s[i + 1]
  BY HeadTailProperties
<1>3. Head(s) = s[1] /\ \A i \in 1 .. Len(s) : s[i] \in T
  BY <1>1, ElementOfSeq
<1> QED
  BY <1>1, <1>2, <1>3

\* One frame, or none, behind what was written.
LEMMA ConcatOne ==
    ASSUME NEW T, NEW s \in Seq(T), NEW x \in T
    PROVE  s \o <<x>> = Append(s, x) /\ s \o <<>> = s
  BY AppendIsConcat, ConcatEmptySeq

LEMMA FrameIds ==
    ASSUME NEW q \in Seq(Frames)
    PROVE  \A i \in 1 .. Len(q) : q[i].id \in Nat
<1> TAKE i \in 1 .. Len(q)
<1>1. q[i] \in Frames
  BY ElementOfSeq
<1> QED
  BY <1>1 DEF Frames, FramesOver, NoId

-----------------------------------------------------------------------------
(* The queues                                                              *)

LEMMA ToSendTail ==
    ASSUME NEW q \in Seq(Int), q # <<>>, NEW last \in Nat, ToSend(q, last), Head(q) > 0
    PROVE  Head(q) = last + 1 /\ ToSend(Tail(q), last + 1) /\ Len(Tail(q)) = Len(q) - 1
<1>1. /\ Len(Tail(q)) = Len(q) - 1 /\ Len(q) \in Nat \ {0} /\ Head(q) = q[1]
      /\ \A i \in 1 .. Len(q) - 1 : Tail(q)[i] = q[i + 1]
  BY TailFacts
<1>2. \A i \in 1 .. Len(q) : q[i] > 0 => q[i] = last + i
  BY DEF ToSend
<1>3. Head(q) = last + 1
  BY <1>1, <1>2
<1>4. ASSUME NEW i \in 1 .. Len(q) - 1, Tail(q)[i] > 0
      PROVE  Tail(q)[i] = last + 1 + i
  <2>1. i + 1 \in 1 .. Len(q) /\ Tail(q)[i] = q[i + 1] /\ last + (i + 1) = last + 1 + i
    BY <1>1
  <2> QED
    BY <1>2, <1>4, <2>1
<1> QED
  BY <1>1, <1>3, <1>4 DEF ToSend

LEMMA ToSendAppend ==
    ASSUME NEW q \in Seq(Int), NEW last \in Nat, NEW x \in Int, ToSend(q, last),
           x > 0 => x = last + Len(q) + 1
    PROVE  ToSend(Append(q, x), last) /\ Len(Append(q, x)) = Len(q) + 1 /\ Len(q) \in Nat
<1>1. /\ Len(Append(q, x)) = Len(q) + 1 /\ Len(q) \in Nat
      /\ \A i \in 1 .. Len(q) : Append(q, x)[i] = q[i]
      /\ Append(q, x)[Len(q) + 1] = x
  BY AppendFacts
<1> QED
  BY <1>1 DEF ToSend

LEMMA PendingTail ==
    ASSUME NEW q \in Seq(Int), q # <<>>, NEW r \in Nat, NEW r2 \in Nat, NEW g \in Nat,
           Pending(q, r, g), r2 = r \/ (Head(q) > 0 /\ r2 = Head(q))
    PROVE  Pending(Tail(q), r2, g) /\ (Head(q) > 0 => r < Head(q) /\ Head(q) <= g)
<1> DEFINE n == Len(q)
           t == Tail(q)
<1>1. /\ Len(t) = n - 1 /\ n \in Nat \ {0} /\ Head(q) = q[1]
      /\ \A i \in 1 .. n - 1 : t[i] = q[i + 1]
      /\ \A i \in 1 .. n : q[i] \in Int
  BY TailFacts
<1>2. \A i \in 1 .. n :
         /\ q[i] > 0 => r < q[i] /\ q[i] <= g
         /\ \A j \in i + 1 .. n : q[j] > 0 => q[i] < q[j]
  BY DEF Pending
<1> HIDE DEF n, t
<1>3. ASSUME NEW i \in 1 .. n - 1
      PROVE  /\ t[i] > 0 => r2 < t[i] /\ t[i] <= g
             /\ \A j \in i + 1 .. n - 1 : t[j] > 0 => t[i] < t[j]
  <2>1. i + 1 \in 1 .. n /\ 1 \in 1 .. n /\ i + 1 \in 1 + 1 .. n /\ t[i] = q[i + 1]
    BY <1>1
  <2>2. t[i] > 0 => r2 < t[i] /\ t[i] <= g
    BY <1>1, <1>2, <2>1
  <2>3. ASSUME NEW j \in i + 1 .. n - 1, t[j] > 0
        PROVE  t[i] < t[j]
    <3>1. j \in 1 .. n - 1 /\ j + 1 \in (i + 1) + 1 .. n
      BY <1>1
    <3>2. t[j] = q[j + 1]
      BY <1>1, <3>1
    <3> QED
      BY <1>2, <2>1, <2>3, <3>1, <3>2
  <2> QED
    BY <2>2, <2>3
<1>4. Head(q) > 0 => r < Head(q) /\ Head(q) <= g
  BY <1>1, <1>2
<1>5. Pending(t, r2, g)
  BY <1>1, <1>3 DEF Pending
<1> QED
  BY <1>4, <1>5 DEF t

LEMMA PendingAppend ==
    ASSUME NEW q \in Seq(Int), NEW r \in Nat, NEW g \in Nat, NEW g2 \in Nat, NEW x \in Int,
           Pending(q, r, g), r <= g, g <= g2, x > 0 => g < x /\ x <= g2
    PROVE  Pending(Append(q, x), r, g2)
<1> DEFINE n == Len(q)
           a == Append(q, x)
<1>1. /\ Len(a) = n + 1 /\ n \in Nat /\ a[n + 1] = x
      /\ \A i \in 1 .. n : a[i] = q[i] /\ q[i] \in Int
  BY AppendFacts
<1>2. \A i \in 1 .. n :
         /\ q[i] > 0 => r < q[i] /\ q[i] <= g
         /\ \A j \in i + 1 .. n : q[j] > 0 => q[i] < q[j]
  BY DEF Pending
<1> HIDE DEF n, a
<1>3. ASSUME NEW i \in 1 .. n + 1
      PROVE  /\ a[i] > 0 => r < a[i] /\ a[i] <= g2
             /\ \A j \in i + 1 .. n + 1 : a[j] > 0 => a[i] < a[j]
  <2>1. CASE i = n + 1
    <3>1. a[i] = x /\ i + 1 .. n + 1 = {}
      BY <1>1, <2>1
    <3>2. x > 0 => r < x /\ x <= g2
      OBVIOUS
    <3> QED
      BY <3>1, <3>2
  <2>2. CASE i \in 1 .. n
    <3>1. a[i] = q[i] /\ q[i] \in Int
      BY <1>1, <2>2
    <3>2. q[i] > 0 => r < q[i] /\ q[i] <= g
      BY <1>2, <2>2
    <3>3. a[i] > 0 => r < a[i] /\ a[i] <= g2
      BY <3>1, <3>2
    <3>4. ASSUME NEW j \in i + 1 .. n + 1, a[j] > 0
          PROVE  a[i] < a[j]
      <4>1. CASE j = n + 1
        BY <1>1, <3>1, <3>2, <3>4, <4>1
      <4>2. CASE j \in i + 1 .. n
        <5>1. j \in 1 .. n
          BY <1>1, <2>2, <4>2
        <5> QED
          BY <1>1, <1>2, <2>2, <3>1, <3>4, <4>2, <5>1
      <4> QED
        BY <1>1, <2>2, <4>1, <4>2
    <3> QED
      BY <3>3, <3>4
  <2> QED
    BY <1>1, <2>1, <2>2
<1>4. Pending(a, r, g2)
  BY <1>1, <1>3 DEF Pending
<1> QED
  BY <1>4 DEF a

-----------------------------------------------------------------------------
(* The way to the server                                                   *)

\* The client writes its next message.
LEMMA UpwardSend ==
    ASSUME NEW q \in Seq(Frames), NEW r \in Nat, NEW last \in Nat, Upward(q, r, last, FALSE)
    PROVE  Upward(Append(q, Frame("SEND", last + 1)), r, last + 1, FALSE)
<1> DEFINE n == Len(q)
           f == Frame("SEND", last + 1)
           a == Append(q, f)
<1>1. f \in Frames
  BY FrameFacts, CommandNames
<1>2. /\ Len(a) = n + 1 /\ n \in Nat /\ a[n + 1] = f
      /\ \A i \in 1 .. n : a[i] = q[i]
  BY <1>1, AppendFacts
<1>3. last = r + n /\ \A i \in 1 .. n : q[i] = Frame("SEND", r + i) /\ r + i <= last
  BY DEF Upward
<1>4. f = Frame("SEND", r + (n + 1)) /\ r + (n + 1) <= last + 1 /\ last + 1 = r + (n + 1)
  <2>1. last + 1 = r + (n + 1)
    BY <1>2, <1>3
  <2> QED
    BY <1>2, <2>1
<1> HIDE DEF n, f, a
<1>5. ASSUME NEW i \in 1 .. n + 1
      PROVE  a[i] = Frame("SEND", r + i) /\ r + i <= last + 1
  <2>1. CASE i = n + 1
    BY <1>2, <1>4, <2>1
  <2>2. CASE i \in 1 .. n
    <3>1. r + i <= last => r + i <= last + 1
      BY <1>2
    <3> QED
      BY <1>2, <1>3, <2>2, <3>1
  <2> QED
    BY <1>2, <2>1, <2>2
<1>6. Upward(a, r, last + 1, FALSE)
  BY <1>2, <1>4, <1>5 DEF Upward
<1> QED
  BY <1>6 DEF a, f

\* The client writes DISCONNECT, or gives up writing it.
LEMMA UpwardDisconnect ==
    ASSUME NEW q \in Seq(Frames), NEW r \in Nat, NEW last \in Nat, last # 0,
           Upward(q, r, last, FALSE)
    PROVE  Upward(Append(q, Frame("DISCONNECT", last)), r, last, TRUE) /\ Upward(q, r, last, TRUE)
<1> DEFINE n == Len(q)
           f == Frame("DISCONNECT", last)
           a == Append(q, f)
<1>1. f \in Frames
  BY FrameFacts, CommandNames
<1>2. /\ Len(a) = n + 1 /\ n \in Nat /\ a[n + 1] = f
      /\ \A i \in 1 .. n : a[i] = q[i]
  BY <1>1, AppendFacts
<1>3. last = r + n /\ \A i \in 1 .. n : q[i] = Frame("SEND", r + i) /\ r + i <= last
  BY DEF Upward
<1>4. last = r + (n + 1) - 1
  BY <1>2, <1>3
<1>5. Upward(q, r, last, TRUE)
  BY <1>3 DEF Upward
<1> HIDE DEF n, a
<1>6. ASSUME NEW i \in 1 .. n + 1
      PROVE  \/ a[i] = Frame("SEND", r + i) /\ r + i <= last
             \/ a[i] = f /\ i = n + 1
  BY <1>2, <1>3
<1>7. Upward(a, r, last, TRUE)
  BY <1>2, <1>4, <1>6 DEF Upward
<1> QED
  BY <1>5, <1>7 DEF a

\* The server takes a frame.
LEMMA UpwardTail ==
    ASSUME NEW q \in Seq(Frames), q # <<>>, NEW r \in Nat, NEW last \in Nat, NEW d \in BOOLEAN,
           Upward(q, r, last, d)
    PROVE  \/ /\ Head(q) = Frame("SEND", r + 1) /\ r + 1 <= last
              /\ Upward(Tail(q), r + 1, last, d)
           \/ /\ Head(q) = Frame("DISCONNECT", last) /\ last # 0 /\ d /\ last = r
              /\ Tail(q) = <<>>
<1> DEFINE n == Len(q)
           t == Tail(q)
<1>1. /\ Len(t) = n - 1 /\ n \in Nat \ {0} /\ Head(q) = q[1] /\ t \in Seq(Frames)
      /\ \A i \in 1 .. n - 1 : t[i] = q[i + 1]
  BY TailFacts
<1>2. /\ \A i \in 1 .. n :
            \/ q[i] = Frame("SEND", r + i) /\ r + i <= last
            \/ /\ q[i] = Frame("DISCONNECT", last) /\ d /\ last # 0
               /\ i = n /\ last = r + n - 1
      /\ ~d => last = r + n
  BY DEF Upward
<1> HIDE DEF n, t
<1>3. n = 1 => t = <<>>
  <2>1. Len(t) = 0 => t = <<>>
    BY <1>1, EmptySeq
  <2> QED
    BY <1>1, <2>1
<1>4. CASE q[1] = Frame("SEND", r + 1) /\ r + 1 <= last
  <2>1. ASSUME NEW i \in 1 .. n - 1
        PROVE  \/ t[i] = Frame("SEND", (r + 1) + i) /\ (r + 1) + i <= last
               \/ /\ t[i] = Frame("DISCONNECT", last) /\ d /\ last # 0
                  /\ i = n - 1 /\ last = (r + 1) + (n - 1) - 1
    <3>1. /\ i + 1 \in 1 .. n /\ t[i] = q[i + 1] /\ r + (i + 1) = (r + 1) + i
          /\ (i + 1 = n => i = n - 1) /\ r + n - 1 = (r + 1) + (n - 1) - 1
      BY <1>1
    <3> QED
      BY <1>2, <3>1
  <2>2. ~d => last = (r + 1) + (n - 1)
    BY <1>1, <1>2
  <2>3. Upward(t, r + 1, last, d)
    BY <1>1, <2>1, <2>2 DEF Upward
  <2> QED
    BY <1>1, <1>4, <2>3 DEF t
<1>5. CASE q[1] = Frame("DISCONNECT", last) /\ d /\ last # 0 /\ 1 = n /\ last = r + n - 1
  <2>1. last = r
    BY <1>5
  <2> QED
    BY <1>1, <1>3, <1>5, <2>1 DEF t
<1>6. 1 \in 1 .. n
  BY <1>1
<1> QED
  BY <1>2, <1>4, <1>5, <1>6

-----------------------------------------------------------------------------
(* The way to the client                                                   *)

\* The client takes a frame.
LEMMA DownTail ==
    ASSUME NEW q \in Seq(Frames), q # <<>>
    PROVE  /\ Legal(q) => Legal(Tail(q))
           /\ \A n : Below(q, n) => Below(Tail(q), n)
           /\ \A n : Above(q, n) => Above(Tail(q), n)
           /\ \A n : Ascending(q, n) =>
                 /\ Ascending(Tail(q), n)
                 /\ IsReceipt(Head(q)) /\ Head(q).id # n => Above(Tail(q), Head(q).id)
<1> DEFINE n == Len(q)
           t == Tail(q)
<1>1. /\ Len(t) = n - 1 /\ n \in Nat \ {0} /\ Head(q) = q[1]
      /\ \A i \in 1 .. n - 1 : t[i] = q[i + 1]
  BY TailFacts
<1> HIDE DEF n, t
<1>2. \A i \in 1 .. n - 1 : i + 1 \in 1 .. n /\ i + 1 \in 1 + 1 .. n /\ 1 \in 1 .. n
  BY <1>1
<1>3. /\ Legal(q) => Legal(t)
      /\ \A k : Below(q, k) => Below(t, k)
      /\ \A k : Above(q, k) => Above(t, k)
  BY <1>1, <1>2 DEF Legal, Below, Above, n
<1>4. ASSUME NEW k, Ascending(q, k)
      PROVE  Ascending(t, k)
  <2>1. ASSUME NEW i \in 1 .. n - 1, NEW j \in i + 1 .. n - 1, IsReceipt(t[i]), IsReceipt(t[j])
        PROVE  t[i].id < t[j].id \/ t[i].id = k
    <3>1. i + 1 \in 1 .. n /\ j + 1 \in (i + 1) + 1 .. n /\ j \in 1 .. n - 1
      BY <1>1
    <3>2. t[i] = q[i + 1] /\ t[j] = q[j + 1]
      BY <1>1, <3>1
    <3> QED
      BY <1>4, <2>1, <3>1, <3>2 DEF Ascending, n
  <2> QED
    BY <1>1, <2>1 DEF Ascending
<1>5. ASSUME NEW k, Ascending(q, k), IsReceipt(q[1]), q[1].id # k
      PROVE  Above(t, q[1].id)
  BY <1>1, <1>2, <1>5 DEF Ascending, Above, n
<1> QED
  BY <1>1, <1>3, <1>4, <1>5 DEF t

LEMMA GreetingTail ==
    ASSUME NEW q \in Seq(Frames), q # <<>>, NEW sent \in BOOLEAN, NEW seen \in BOOLEAN,
           Greeting(q, sent, seen), seen => sent
    PROVE  IF Head(q).cmd = "CONNECTED" THEN ~seen /\ sent /\ Greeting(Tail(q), sent, TRUE)
           ELSE (sent => seen) /\ Greeting(Tail(q), sent, seen) /\ (IsReceipt(Head(q)) => sent)
<1> DEFINE n == Len(q)
           t == Tail(q)
<1>1. /\ Len(t) = n - 1 /\ n \in Nat \ {0} /\ Head(q) = q[1]
      /\ \A i \in 1 .. n - 1 : t[i] = q[i + 1]
  BY TailFacts
<1>2. /\ \A i \in 1 .. n : /\ q[i].cmd = "CONNECTED" => i = 1 /\ sent /\ ~seen
                           /\ IsReceipt(q[i]) => sent
      /\ sent /\ ~seen => n >= 1 /\ q[1].cmd = "CONNECTED"
  BY DEF Greeting
<1> HIDE DEF n, t
<1>3. \A i \in 1 .. n - 1 : t[i].cmd # "CONNECTED" /\ (IsReceipt(t[i]) => sent)
  <2> TAKE i \in 1 .. n - 1
  <2>1. i + 1 \in 1 .. n /\ i + 1 # 1 /\ t[i] = q[i + 1]
    BY <1>1
  <2> QED
    BY <1>2, <2>1
<1>4. 1 \in 1 .. n
  BY <1>1
<1>5. CASE q[1].cmd = "CONNECTED"
  BY <1>1, <1>2, <1>3, <1>4, <1>5 DEF Greeting, t
<1>6. CASE q[1].cmd # "CONNECTED"
  BY <1>1, <1>2, <1>3, <1>4, <1>6 DEF Greeting, t
<1> QED
  BY <1>1, <1>5, <1>6

\* The server writes a frame.
LEMMA DownAppend ==
    ASSUME NEW q \in Seq(Frames), NEW f \in Frames
    PROVE  /\ Legal(q) /\ f.cmd \in {"CONNECTED", "RECEIPT", "ERROR"} /\ f.ok
              /\ (IsReceipt(f) => f.id > 0) => Legal(Append(q, f))
           /\ \A n : Below(q, n) /\ (IsReceipt(f) => f.id <= n) => Below(Append(q, f), n)
           /\ \A n : Above(q, n) /\ (IsReceipt(f) => n < f.id) => Above(Append(q, f), n)
           /\ \A n : Ascending(q, n) /\ (IsReceipt(f) =>
                         \A i \in 1 .. Len(q) : IsReceipt(q[i]) => q[i].id < f.id \/ q[i].id = n)
                     => Ascending(Append(q, f), n)
<1> DEFINE n == Len(q)
           a == Append(q, f)
<1>1. /\ Len(a) = n + 1 /\ n \in Nat /\ a[n + 1] = f
      /\ \A i \in 1 .. n : a[i] = q[i]
  BY AppendFacts
<1> HIDE DEF n, a
<1>2. \A i \in 1 .. n + 1 : i \in 1 .. n \/ i = n + 1
  BY <1>1
<1>3. /\ Legal(q) /\ f.cmd \in {"CONNECTED", "RECEIPT", "ERROR"} /\ f.ok
         /\ (IsReceipt(f) => f.id > 0) => Legal(a)
      /\ \A k : Below(q, k) /\ (IsReceipt(f) => f.id <= k) => Below(a, k)
      /\ \A k : Above(q, k) /\ (IsReceipt(f) => k < f.id) => Above(a, k)
  BY <1>1, <1>2 DEF Legal, Below, Above, n
<1>4. ASSUME NEW k, Ascending(q, k),
             IsReceipt(f) => \A i \in 1 .. n : IsReceipt(q[i]) => q[i].id < f.id \/ q[i].id = k
      PROVE  Ascending(a, k)
  <2>1. ASSUME NEW i \in 1 .. n + 1, NEW j \in i + 1 .. n + 1, IsReceipt(a[i]), IsReceipt(a[j])
        PROVE  a[i].id < a[j].id \/ a[i].id = k
    <3>1. i \in 1 .. n /\ a[i] = q[i]
      BY <1>1
    <3>2. CASE j = n + 1
      BY <1>1, <1>4, <2>1, <3>1, <3>2
    <3>3. CASE j \in i + 1 .. n
      <4>1. j \in 1 .. n /\ a[j] = q[j]
        BY <1>1, <3>3
      <4> QED
        BY <1>4, <2>1, <3>1, <3>3, <4>1 DEF Ascending, n
    <3> QED
      BY <1>1, <3>2, <3>3
  <2> QED
    BY <1>1, <2>1 DEF Ascending
<1> QED
  BY <1>3, <1>4 DEF a, n

LEMMA GreetingAppend ==
    ASSUME NEW q \in Seq(Frames), NEW f \in Frames, NEW sent \in BOOLEAN, NEW seen \in BOOLEAN,
           Greeting(q, sent, seen), f.cmd # "CONNECTED", IsReceipt(f) => sent
    PROVE  Greeting(Append(q, f), sent, seen)
<1> DEFINE n == Len(q)
           a == Append(q, f)
<1>1. /\ Len(a) = n + 1 /\ n \in Nat /\ a[n + 1] = f
      /\ \A i \in 1 .. n : a[i] = q[i]
  BY AppendFacts
<1>2. /\ \A i \in 1 .. n : /\ q[i].cmd = "CONNECTED" => i = 1 /\ sent /\ ~seen
                           /\ IsReceipt(q[i]) => sent
      /\ sent /\ ~seen => n >= 1 /\ q[1].cmd = "CONNECTED"
  BY DEF Greeting
<1> HIDE DEF n, a
<1>3. \A i \in 1 .. n + 1 : i \in 1 .. n \/ i = n + 1
  BY <1>1
<1>4. \A i \in 1 .. n + 1 : /\ a[i].cmd = "CONNECTED" => i = 1 /\ sent /\ ~seen
                            /\ IsReceipt(a[i]) => sent
  BY <1>1, <1>2, <1>3
<1>5. sent /\ ~seen => n + 1 >= 1 /\ a[1].cmd = "CONNECTED"
  <2>1. n >= 1 => 1 \in 1 .. n /\ n + 1 >= 1
    BY <1>1
  <2> QED
    BY <1>1, <1>2, <2>1
<1>6. Greeting(a, sent, seen)
  BY <1>1, <1>4, <1>5 DEF Greeting
<1> QED
  BY <1>6 DEF a

\* A higher bound.
LEMMA BelowMore ==
    ASSUME NEW q \in Seq(Frames), NEW m \in Int, NEW n \in Int, m <= n, Below(q, m)
    PROVE  Below(q, n)
<1>1. \A x \in Nat : x <= m => x <= n
  OBVIOUS
<1> QED
  BY <1>1, FrameIds DEF Below

\* Without a final message, receipts ascend strictly.
LEMMA StrictlyAscending ==
    ASSUME NEW q \in Seq(Frames), Legal(q), Ascending(q, 0)
    PROVE  \A n : Ascending(q, n)
<1>1. Len(q) \in Nat
  BY LenProperties
<1>2. ASSUME NEW i \in 1 .. Len(q), NEW j \in i + 1 .. Len(q), IsReceipt(q[i]), IsReceipt(q[j])
      PROVE  q[i].id < q[j].id
  <2>1. q[i].id \in Nat /\ q[i].id > 0
    BY <1>2, FrameIds DEF Legal
  <2> QED
    BY <1>2, <2>1 DEF Ascending
<1> QED
  BY <1>2 DEF Ascending

-----------------------------------------------------------------------------
(* What the client does                                                    *)

LEMMA InitIInv == Init => IInv
<1> SUFFICES ASSUME Init
             PROVE  IInv
  OBVIOUS
<1>1. /\ cConnected = FALSE /\ cDone = FALSE /\ cLost = FALSE /\ cWriter = "off"
      /\ cLastMsg = 0 /\ cLastRcpt = 0 /\ cSentDisc = FALSE /\ produced = 0 /\ cEnded = FALSE
      /\ cSendQ = <<>> /\ cRecvQ = <<>> /\ c2s = <<Frame("STOMP", NoId)>>
  BY Names DEF Init, C!Init
<1>2. /\ sConnected = FALSE /\ sDone = FALSE /\ sLost = FALSE /\ sWriter = "off"
      /\ sLastMsg = 0 /\ sLastRcpt = 0 /\ sDiscId = 0 /\ given = 0
      /\ sRecvQ = <<>> /\ sSendQ = <<>> /\ s2c = <<>>
  BY Names DEF Init, S!Init
<1>3. \A T : <<>> \in Seq(T) /\ Len(<<>>) = 0
  BY EmptySeq
<1>4. Len(cSendQ) = 0 /\ Len(cRecvQ) = 0 /\ Len(sSendQ) = 0 /\ Len(sRecvQ) = 0 /\ Len(s2c) = 0
  BY <1>1, <1>2, <1>3
<1>5. c2s \in Seq(Frames)
  <2>1. Frame("STOMP", NoId) \in Frames
    BY Names, FrameFacts, CommandNames
  <2> QED
    BY <1>1, <2>1
<1>6. Types
  BY <1>1, <1>2, <1>3, <1>5 DEF Types
<1>7. Numbers
  BY <1>1, <1>2 DEF Numbers
<1>8. ClientSide
  BY <1>1, <1>4 DEF ClientSide, ToSend
<1>9. ServerSide
  BY <1>1, <1>2, <1>4 DEF ServerSide, Pending
<1>10. Received /\ Up /\ Told
  BY <1>1, <1>2, <1>4 DEF Received, Up, Told
<1>11. Down
  BY <1>1, <1>2, <1>4 DEF Down, Legal, Below, Above, Ascending, Greeting
<1> QED
  BY <1>6, <1>7, <1>8, <1>9, <1>10, <1>11 DEF IInv

\* A step of the client that neither reads nor writes.
LEMMA ClientQuiet ==
    ASSUME IInv, ClientSide', UNCHANGED <<serverVars, c2s, s2c>>,
           UNCHANGED <<cConnected, cWriter, cLastMsg, cLastRcpt, cSentDisc, cLost, cRecvQ>>,
           cDone => cDone', cDone' \in BOOLEAN, cEnded' \in BOOLEAN, produced' \in Nat,
           cSendQ' \in Seq(Int)
    PROVE  IInv'
<1> USE DEF serverVars
<1>1. Types'
  BY DEF IInv, Types
<1>2. Numbers'
  BY DEF IInv, Numbers
<1>3. ServerSide'
  BY DEF IInv, ServerSide
<1>4. Received' /\ Up' /\ Told'
  BY DEF IInv, Received, Up, Told
<1>5. Down'
  BY DEF IInv, Down, Final
<1> QED
  BY <1>1, <1>2, <1>3, <1>4, <1>5 DEF IInv

LEMMA ConsumerStep ==
    ASSUME IInv, Consumer
    PROVE  IInv'
<1>1. /\ UNCHANGED <<serverVars, s2c, c2s, cConnected, cDone, cLost, cWriter, cLastMsg,
                     cLastRcpt, cSentDisc, cRecvQ>>
  BY DEF Consumer, C!ConsumerPuts, C!ConsumerEnds
<1>2. /\ cSendQ \in Seq(Int) /\ cLastMsg \in Nat /\ produced \in Nat /\ cDone \in BOOLEAN
      /\ cEnded \in BOOLEAN
  BY DEF IInv, Types, Numbers
<1>3. CASE C!ConsumerPuts
  <2>1. /\ ~cEnded /\ cEnded' = cEnded /\ produced' = produced + 1
        /\ cSendQ' = Append(cSendQ, produced + 1)
    BY <1>3 DEF C!ConsumerPuts
  <2>2. produced + 1 \in Int /\ produced' \in Nat
    BY <1>2, <2>1
  <2>3. cSendQ' \in Seq(Int)
    BY <1>2, <2>1, <2>2, AppendFacts
  <2>4. ~cDone /\ cWriter # "end" =>
           ToSend(cSendQ', cLastMsg) /\ produced' = cLastMsg + Len(cSendQ')
    <3> SUFFICES ASSUME ~cDone, cWriter # "end"
                 PROVE  ToSend(cSendQ', cLastMsg) /\ produced' = cLastMsg + Len(cSendQ')
      OBVIOUS
    <3>1. ToSend(cSendQ, cLastMsg) /\ produced = cLastMsg + Len(cSendQ)
      BY <2>1 DEF IInv, ClientSide
    <3>2. Len(cSendQ) \in Nat
      BY <1>2, LenProperties
    <3>3. produced + 1 = cLastMsg + Len(cSendQ) + 1
      BY <3>1
    <3>4. ToSend(cSendQ', cLastMsg) /\ Len(cSendQ') = Len(cSendQ) + 1
      BY <1>2, <2>1, <2>2, <3>1, <3>3, ToSendAppend
    <3> QED
      BY <1>2, <2>1, <3>1, <3>2, <3>4
  <2>5. ClientSide'
    BY <1>1, <2>1, <2>4 DEF IInv, ClientSide
  <2> QED
    BY <1>1, <1>2, <2>1, <2>2, <2>3, <2>5, ClientQuiet
<1>4. CASE C!ConsumerEnds
  <2>1. PICK e \in {C!None, C!Error} : cSendQ' = Append(cSendQ, e)
    BY <1>4 DEF C!ConsumerEnds
  <2>2. cEnded' = TRUE /\ produced' = produced
    BY <1>4 DEF C!ConsumerEnds
  <2>3. e \in Int /\ ~(e > 0)
    BY <2>1, Names
  <2>4. cSendQ' \in Seq(Int)
    BY <1>2, <2>1, <2>3, AppendFacts
  <2>5. ~cDone /\ cWriter # "end" => ToSend(cSendQ', cLastMsg)
    BY <1>2, <2>1, <2>3, ToSendAppend DEF IInv, ClientSide
  <2>6. ClientSide'
    BY <1>1, <2>2, <2>5 DEF IInv, ClientSide
  <2> QED
    BY <1>1, <1>2, <2>2, <2>4, <2>6, ClientQuiet
<1> QED
  BY <1>3, <1>4 DEF Consumer

LEMMA TimeoutStep ==
    ASSUME IInv, C!TimeoutFires, UNCHANGED <<serverVars, s2c>>
    PROVE  IInv'
<1>1. /\ cDone' = TRUE
      /\ UNCHANGED <<serverVars, s2c, c2s, cConnected, cLost, cWriter, cLastMsg, cLastRcpt,
                     cSentDisc, cRecvQ, produced, cEnded, cSendQ>>
  BY DEF C!TimeoutFires, C!queues
<1>2. ClientSide'
  BY <1>1 DEF IInv, ClientSide
<1>3. cSendQ' \in Seq(Int) /\ produced' \in Nat /\ cEnded' \in BOOLEAN
  BY <1>1 DEF IInv, Types, Numbers
<1> QED
  BY <1>1, <1>2, <1>3, ClientQuiet

\* The client writes f, or nothing.
LEMMA ClientWriteStep ==
    ASSUME IInv, Numbers', ClientSide', Up',
           UNCHANGED <<serverVars, s2c, cConnected, cLost, cLastRcpt, cRecvQ, produced, cEnded>>,
           cDone => cDone', cDone' \in BOOLEAN, cSentDisc' \in BOOLEAN,
           cWriter = "on", cWriter' \in {"on", "end"}, cSendQ' \in Seq(Int), c2s' \in Seq(Frames)
    PROVE  IInv'
<1> USE DEF serverVars
<1>1. Types'
  BY DEF IInv, Types
<1>2. ~cSentDisc /\ cConnected /\ sConnected /\ sDiscId = 0
  BY DEF IInv, ClientSide, ServerSide
<1>3. ServerSide'
  BY <1>2 DEF IInv, ServerSide
<1>4. Received' /\ Told'
  BY DEF IInv, Received, Told
<1>5. Legal(s2c) /\ Ascending(s2c, 0) => Ascending(s2c, Final')
  BY StrictlyAscending DEF IInv, Types
<1>6. Final = 0
  BY <1>2 DEF Final
<1>7. Legal(s2c) /\ Below(s2c, given)
      /\ (~sDone => Below(s2c, sLastRcpt) /\ cLastRcpt <= sLastRcpt)
      /\ (~cDone => /\ Above(s2c, cLastRcpt) /\ Ascending(s2c, 0)
                    /\ Greeting(s2c, sConnected, cConnected))
  BY <1>6 DEF IInv, Down
<1>8. Down'
  BY <1>5, <1>7 DEF Down
<1> QED
  BY <1>1, <1>3, <1>4, <1>8 DEF IInv

LEMMA SendMessageStep ==
    ASSUME IInv, C!SendMessage, UNCHANGED <<serverVars, s2c>>
    PROVE  IInv'
<1> DEFINE k == Head(cSendQ)
<1>1. /\ cWriter = "on" /\ cSendQ # <<>> /\ cSendQ' = Tail(cSendQ) /\ k \in C!Msgs
      /\ UNCHANGED <<cConnected, cLost, cLastRcpt, produced, cEnded, cRecvQ, cDone, cWriter,
                     cSentDisc>>
  BY DEF C!SendMessage, C!WriterTakes
<1>2. k \in Nat /\ k > 0 /\ ~cSentDisc /\ cConnected /\ sConnected /\ sDiscId = 0
  BY <1>1, Names DEF IInv, ClientSide, ServerSide
<1>3. /\ cSendQ \in Seq(Int) /\ c2s \in Seq(Frames) /\ cLastMsg \in Nat /\ produced \in Nat
      /\ sLastMsg \in Nat /\ cDone \in BOOLEAN /\ cSentDisc \in BOOLEAN
      /\ cLastRcpt \in Nat /\ sLastRcpt \in Nat /\ sDiscId \in Nat /\ given \in Nat
      /\ sLastRcpt <= given /\ given <= sLastMsg /\ sLastMsg <= cLastMsg /\ cLastRcpt <= given
  BY DEF IInv, Types, Numbers
<1>4. cSendQ' \in Seq(Int) /\ Len(cSendQ') = Len(cSendQ) - 1 /\ Len(cSendQ) \in Nat \ {0}
  BY <1>1, <1>3, TailFacts
<1>5. CASE cDone
  <2>1. UNCHANGED <<c2s, cLastMsg>>
    BY <1>5 DEF C!SendMessage
  <2>2. Numbers' /\ ClientSide' /\ Up'
    BY <1>1, <1>5, <2>1 DEF IInv, Numbers, ClientSide, Up, serverVars
  <2> QED
    BY <1>1, <1>3, <1>4, <2>1, <2>2, ClientWriteStep
<1>6. CASE ~cDone
  <2>1. c2s' = Append(c2s, Frame("SEND", k)) /\ cLastMsg' = k
    BY <1>6, Names DEF C!SendMessage
  <2>2. ToSend(cSendQ, cLastMsg) /\ (~cEnded => produced = cLastMsg + Len(cSendQ))
    BY <1>1, <1>6 DEF IInv, ClientSide
  <2>3. k = cLastMsg + 1 /\ ToSend(cSendQ', cLastMsg + 1)
    BY <1>1, <1>2, <1>3, <2>2, ToSendTail
  <2> HIDE DEF k
  <2>4. cLastMsg' = cLastMsg + 1
    BY <2>1, <2>3
  <2>5. Numbers'
    BY <1>1, <1>3, <2>4 DEF Numbers, serverVars
  <2>6. ~cEnded => produced = cLastMsg' + Len(cSendQ')
    BY <1>3, <1>4, <2>2, <2>4
  <2>7. ClientSide'
    BY <1>1, <1>2, <2>3, <2>4, <2>6 DEF IInv, ClientSide
  <2>8. Frame("SEND", k) \in Frames
    BY <1>2, FrameFacts, CommandNames
  <2>9. c2s' \in Seq(Frames)
    BY <1>3, <2>1, <2>8, AppendFacts
  <2>10. ~sDone => Upward(c2s, sLastMsg, cLastMsg, FALSE)
    BY <1>2 DEF IInv, Up, Upward
  <2>11. ~sDone => Upward(c2s', sLastMsg, cLastMsg', FALSE)
    BY <1>3, <2>1, <2>3, <2>4, <2>10, UpwardSend
  <2>12. Up'
    BY <1>1, <1>2, <2>11 DEF Up, Upward, serverVars
  <2> QED
    BY <1>1, <1>3, <1>4, <2>5, <2>7, <2>9, <2>12, ClientWriteStep
<1> QED
  BY <1>5, <1>6

LEMMA ClientClosesStep ==
    ASSUME IInv, C!CloseGracefully, UNCHANGED <<serverVars, s2c>>
    PROVE  IInv'
<1>1. /\ cWriter = "on" /\ cWriter' = "end" /\ cSendQ # <<>> /\ cSendQ' = Tail(cSendQ)
      /\ UNCHANGED <<cConnected, cLost, cLastRcpt, cLastMsg, produced, cEnded, cRecvQ>>
  BY DEF C!CloseGracefully, C!WriterTakes
<1>2. ~cSentDisc /\ cConnected /\ sConnected /\ sDiscId = 0
  BY <1>1 DEF IInv, ClientSide, ServerSide
<1>3. /\ cSendQ \in Seq(Int) /\ c2s \in Seq(Frames) /\ cLastMsg \in Nat /\ cLastRcpt \in Nat
      /\ sLastMsg \in Nat /\ cDone \in BOOLEAN /\ cSentDisc \in BOOLEAN /\ cLastRcpt <= cLastMsg
  <2>1. /\ cSendQ \in Seq(Int) /\ c2s \in Seq(Frames) /\ cLastMsg \in Nat /\ cLastRcpt \in Nat
        /\ sLastMsg \in Nat /\ cDone \in BOOLEAN /\ cSentDisc \in BOOLEAN /\ given \in Nat
        /\ given <= sLastMsg /\ sLastMsg <= cLastMsg /\ cLastRcpt <= given
    BY DEF IInv, Types, Numbers
  <2> QED
    BY <2>1
<1>4. cSendQ' \in Seq(Int)
  BY <1>1, <1>3, TailFacts
<1>5. Numbers'
  BY <1>1 DEF IInv, Numbers, serverVars
<1>6. CASE cDone' = TRUE /\ UNCHANGED <<c2s, cSentDisc>>
  <2>1. ClientSide' /\ Up'
    BY <1>1, <1>2, <1>6 DEF IInv, ClientSide, Up, serverVars
  <2> QED
    BY <1>1, <1>3, <1>4, <1>5, <1>6, <2>1, ClientWriteStep
<1>7. CASE /\ cLastMsg # 0 /\ cLastMsg # cLastRcpt /\ cSentDisc' = TRUE /\ cDone' = cDone
           /\ c2s' = Append(c2s, Frame("DISCONNECT", cLastMsg)) \/ c2s' = c2s
  <2>1. cLastRcpt < cLastMsg
    BY <1>3, <1>7
  <2>2. ClientSide'
    BY <1>1, <1>7, <2>1 DEF IInv, ClientSide
  <2>3. Frame("DISCONNECT", cLastMsg) \in Frames
    BY <1>3, FrameFacts, CommandNames
  <2>4. c2s' \in Seq(Frames)
    <3>1. Append(c2s, Frame("DISCONNECT", cLastMsg)) \in Seq(Frames) /\ c2s \in Seq(Frames)
      BY <1>3, <2>3, AppendFacts
    <3> QED
      BY <1>7, <3>1
  <2>5. ~sDone => Upward(c2s, sLastMsg, cLastMsg, FALSE)
    BY <1>2 DEF IInv, Up, Upward
  <2>6. ~sDone => Upward(c2s', sLastMsg, cLastMsg, TRUE)
    BY <1>3, <1>7, <2>5, UpwardDisconnect
  <2>7. Up'
    BY <1>1, <1>2, <1>7, <2>6 DEF Up, serverVars
  <2> QED
    BY <1>1, <1>3, <1>4, <1>5, <1>7, <2>2, <2>4, <2>7, ClientWriteStep
<1> QED
  BY <1>6, <1>7, Names DEF C!CloseGracefully

\* What is put behind the other items of the client's recv_queue.
LEMMA ToldAppend ==
    ASSUME NEW q \in Seq(Int), NEW x \in Int, NEW r \in Nat, NEW r2 \in Nat, r <= r2,
           \A i \in 1 .. Len(q) : q[i] # 0 /\ q[i] > 0 /\ q[i] <= r
                                  /\ \A j \in i + 1 .. Len(q) : q[j] # 0 => q[i] < q[j],
           x # 0 => r < x /\ x <= r2
    PROVE  \A i \in 1 .. Len(Append(q, x)) :
              /\ Append(q, x)[i] = 0 => i = Len(Append(q, x)) /\ x = 0
              /\ Append(q, x)[i] # 0 => Append(q, x)[i] > 0 /\ Append(q, x)[i] <= r2
              /\ \A j \in i + 1 .. Len(Append(q, x)) :
                    Append(q, x)[j] # 0 => Append(q, x)[i] < Append(q, x)[j]
<1> DEFINE n == Len(q)
           a == Append(q, x)
<1>1. /\ Len(a) = n + 1 /\ n \in Nat /\ a[n + 1] = x
      /\ \A i \in 1 .. n : a[i] = q[i] /\ q[i] \in Int
  BY AppendFacts
<1>2. \A i \in 1 .. n : q[i] # 0 /\ q[i] > 0 /\ q[i] <= r
                        /\ \A j \in i + 1 .. n : q[j] # 0 => q[i] < q[j]
  OBVIOUS
<1> SUFFICES ASSUME NEW i \in 1 .. n + 1
             PROVE  /\ a[i] = 0 => i = n + 1 /\ x = 0
                    /\ a[i] # 0 => a[i] > 0 /\ a[i] <= r2
                    /\ \A j \in i + 1 .. n + 1 : a[j] # 0 => a[i] < a[j]
  BY <1>1
<1> HIDE DEF n, a
<1>3. CASE i = n + 1
  <2>1. a[i] = x /\ i + 1 .. n + 1 = {}
    BY <1>1, <1>3
  <2>2. x # 0 => x > 0 /\ x <= r2
    OBVIOUS
  <2> QED
    BY <1>3, <2>1, <2>2
<1>4. CASE i \in 1 .. n
  <2>1. a[i] = q[i] /\ q[i] \in Int /\ q[i] # 0 /\ q[i] > 0 /\ q[i] <= r
    BY <1>1, <1>2, <1>4
  <2>2. ASSUME NEW j \in i + 1 .. n + 1, a[j] # 0
        PROVE  a[i] < a[j]
    <3>1. CASE j = n + 1
      BY <1>1, <2>1, <2>2, <3>1
    <3>2. CASE j \in i + 1 .. n
      <4>1. j \in 1 .. n /\ a[j] = q[j]
        BY <1>1, <1>4, <3>2
      <4> QED
        BY <1>2, <1>4, <2>1, <2>2, <3>2, <4>1
    <3> QED
      BY <1>1, <1>4, <3>1, <3>2
  <2>3. a[i] # 0 /\ a[i] > 0 /\ a[i] <= r2
    BY <2>1
  <2> QED
    BY <2>2, <2>3
<1> QED
  BY <1>1, <1>3, <1>4

LEMMA ClientLostStep ==
    ASSUME IInv, C!ConnectionLost, UNCHANGED <<serverVars, s2c>>
    PROVE  IInv'
<1> USE DEF serverVars
<1>1. /\ ~cLost /\ cLost' = TRUE /\ cDone' = TRUE /\ cWriter' = "end"
      /\ cRecvQ' = Append(cRecvQ, 0)
      /\ UNCHANGED <<cConnected, cLastMsg, cLastRcpt, cSentDisc, produced, cEnded, cSendQ, c2s>>
  BY Names DEF C!ConnectionLost
<1>2. cRecvQ \in Seq(Int) /\ cLastRcpt \in Nat
  BY DEF IInv, Types, Numbers
<1>3. cRecvQ' \in Seq(Int)
  BY <1>1, <1>2, AppendFacts
<1>4. Types' /\ Numbers'
  BY <1>1, <1>3 DEF IInv, Types, Numbers
<1>5. ClientSide' /\ ServerSide'
  BY <1>1 DEF IInv, ClientSide, ServerSide
<1>6. Received' /\ Up' /\ Down'
  BY <1>1 DEF IInv, Received, Up, Down
<1>7. \A i \in 1 .. Len(cRecvQ) :
         cRecvQ[i] # 0 /\ cRecvQ[i] > 0 /\ cRecvQ[i] <= cLastRcpt
         /\ \A j \in i + 1 .. Len(cRecvQ) : cRecvQ[j] # 0 => cRecvQ[i] < cRecvQ[j]
  BY <1>1, Names DEF IInv, Told
<1>8. Told'
  BY <1>1, <1>2, <1>7, ToldAppend, Names DEF Told
<1> QED
  BY <1>4, <1>5, <1>6, <1>8 DEF IInv

\* A frame that does not reach the handlers of the client.
LEMMA DroppedStep ==
    ASSUME IInv, s2c # <<>>, s2c' = Tail(s2c), cDone', cDone' \in BOOLEAN,
           UNCHANGED <<serverVars, c2s, cConnected, cLost, cWriter, cLastMsg, cLastRcpt, cSentDisc,
                       produced, cEnded, cSendQ, cRecvQ>>
    PROVE  IInv'
<1> USE DEF serverVars
<1>1. s2c \in Seq(Frames)
  BY DEF IInv, Types
<1>2. s2c' \in Seq(Frames)
  BY <1>1, TailFacts
<1>3. Types' /\ Numbers'
  BY <1>2 DEF IInv, Types, Numbers
<1>4. ClientSide' /\ ServerSide'
  BY DEF IInv, ClientSide, ServerSide
<1>5. Received' /\ Up' /\ Told'
  BY DEF IInv, Received, Up, Told
<1>6. Down'
  BY <1>1, DownTail DEF IInv, Down
<1> QED
  BY <1>3, <1>4, <1>5, <1>6 DEF IInv

LEMMA ReceivedConnectedStep ==
    ASSUME IInv, s2c # <<>>, s2c' = Tail(s2c), C!ReceivedConnected(Head(s2c)),
           UNCHANGED serverVars
    PROVE  IInv'
<1> USE DEF serverVars
<1>1. /\ ~cDone /\ ~cConnected /\ Head(s2c).cmd = "CONNECTED" /\ cConnected' = TRUE
      /\ cWriter' = "on"
      /\ UNCHANGED <<cDone, cLost, cLastMsg, cLastRcpt, cSentDisc, produced, cEnded, cSendQ,
                     cRecvQ, c2s>>
  BY DEF C!ReceivedConnected, C!Refuses, C!Connect, C!queues
<1>2. s2c \in Seq(Frames) /\ sConnected \in BOOLEAN /\ cConnected \in BOOLEAN
  BY DEF IInv, Types
<1>3. s2c' \in Seq(Frames)
  BY <1>2, TailFacts
<1>4. Types' /\ Numbers'
  BY <1>1, <1>3 DEF IInv, Types, Numbers
<1>5. cWriter = "off" /\ ~cSentDisc
  BY <1>1 DEF IInv, ClientSide
<1>6. ClientSide'
  BY <1>1, <1>5 DEF IInv, ClientSide
<1>7. Greeting(s2c, sConnected, cConnected)
  BY <1>1 DEF IInv, Down
<1>8. sConnected /\ Greeting(s2c', sConnected, TRUE)
  BY <1>1, <1>2, <1>7, GreetingTail
<1>9. ServerSide'
  BY <1>1, <1>8 DEF IInv, ServerSide
<1>10. Received' /\ Up' /\ Told'
  BY <1>1 DEF IInv, Received, Up, Told
<1>11. /\ Legal(s2c') /\ Below(s2c', given) /\ (~sDone => Below(s2c', sLastRcpt))
       /\ Above(s2c', cLastRcpt) /\ Ascending(s2c', Final)
  BY <1>1, <1>2, DownTail DEF IInv, Down
<1>12. Final' = Final /\ (~sDone => cLastRcpt <= sLastRcpt)
  BY <1>1 DEF IInv, Down, Final
<1>13. Down'
  BY <1>1, <1>8, <1>11, <1>12 DEF Down
<1> QED
  BY <1>4, <1>6, <1>9, <1>10, <1>13 DEF IInv

LEMMA ReceivedReceiptStep ==
    ASSUME IInv, s2c # <<>>, s2c' = Tail(s2c), C!ReceivedReceipt(Head(s2c)),
           UNCHANGED serverVars
    PROVE  IInv'
<1> USE DEF serverVars
<1> DEFINE k == Head(s2c).id
<1>1. /\ ~cDone /\ cConnected /\ IsReceipt(Head(s2c)) /\ cRecvQ' = Append(cRecvQ, k)
      /\ cLastRcpt' = k /\ cDone' = (cSentDisc /\ k = cLastMsg)
      /\ UNCHANGED <<cConnected, cLost, cWriter, cLastMsg, cSentDisc, produced, cEnded, cSendQ,
                     c2s>>
  BY DEF C!ReceivedReceipt, C!Refuses, IsReceipt
<1>2. /\ s2c \in Seq(Frames) /\ cRecvQ \in Seq(Int) /\ sConnected \in BOOLEAN
      /\ cConnected \in BOOLEAN /\ cSentDisc \in BOOLEAN
      /\ cLastRcpt \in Nat /\ cLastMsg \in Nat /\ given \in Nat /\ sLastRcpt \in Nat
      /\ sLastMsg \in Nat /\ given <= sLastMsg /\ sLastMsg <= cLastMsg
  BY DEF IInv, Types, Numbers
<1>3. s2c' \in Seq(Frames) /\ Head(s2c) = s2c[1] /\ 1 \in 1 .. Len(s2c)
  BY <1>2, TailFacts
<1>4. /\ k \in Nat /\ k > 0 /\ cLastRcpt < k /\ k <= given /\ (~sDone => k <= sLastRcpt)
  <2>1. k \in Nat
    BY <1>2, <1>3, FrameIds
  <2> QED
    BY <1>1, <1>3, <2>1 DEF IInv, Down, Legal, Below, Above
<1>5. /\ Legal(s2c') /\ Below(s2c', given) /\ (~sDone => Below(s2c', sLastRcpt))
      /\ Ascending(s2c', Final) /\ (k # Final => Above(s2c', k))
  BY <1>1, <1>2, DownTail DEF IInv, Down
<1>6. Greeting(s2c', sConnected, cConnected)
  <2>1. Greeting(s2c, sConnected, cConnected) /\ (cConnected => sConnected)
    BY <1>1 DEF IInv, Down, ServerSide
  <2>2. Head(s2c).cmd # "CONNECTED"
    BY <1>1 DEF IsReceipt
  <2> QED
    BY <1>2, <2>1, <2>2, GreetingTail
<1> HIDE DEF k
<1>7. cRecvQ' \in Seq(Int) /\ cDone' \in BOOLEAN
  BY <1>1, <1>2, <1>4, AppendFacts
<1>8. Types'
  BY <1>1, <1>3, <1>7 DEF IInv, Types
<1>9. Numbers'
  BY <1>1, <1>4 DEF IInv, Numbers
<1>10. cSentDisc /\ ~cDone' => k < cLastMsg
  <2>1. cSentDisc /\ ~cDone' => k # cLastMsg
    BY <1>1, Zenon
  <2>2. k # cLastMsg => k < cLastMsg
    BY <1>2, <1>4
  <2> QED
    BY <2>1, <2>2
<1>11. ~cLost
  BY <1>1 DEF IInv, ClientSide
<1>12. ClientSide'
  BY <1>1, <1>10, <1>11 DEF IInv, ClientSide
<1>13. ServerSide'
  BY <1>1 DEF IInv, ServerSide
<1>14. Received' /\ Up'
  BY <1>1 DEF IInv, Received, Up
<1>15. ~cDone' => k # Final
  <2>1. cSentDisc /\ ~cDone' => k # cLastMsg
    BY <1>1, Zenon
  <2> QED
    BY <1>4, <2>1 DEF Final
<1>16. Final' = Final
  BY <1>1 DEF Final
<1>17. Down'
  BY <1>1, <1>4, <1>5, <1>6, <1>15, <1>16 DEF Down
<1>18. \A i \in 1 .. Len(cRecvQ) :
          cRecvQ[i] # 0 /\ cRecvQ[i] > 0 /\ cRecvQ[i] <= cLastRcpt
          /\ \A j \in i + 1 .. Len(cRecvQ) : cRecvQ[j] # 0 => cRecvQ[i] < cRecvQ[j]
  BY <1>11, Names DEF IInv, Told
<1>19. cLastRcpt <= k /\ k \in Int /\ (k # 0 => cLastRcpt < k /\ k <= k)
  BY <1>2, <1>4
<1>20. Told'
  <2>1. \A i \in 1 .. Len(cRecvQ') :
           /\ cRecvQ'[i] = 0 => i = Len(cRecvQ') /\ k = 0
           /\ cRecvQ'[i] # 0 => cRecvQ'[i] > 0 /\ cRecvQ'[i] <= k
           /\ \A j \in i + 1 .. Len(cRecvQ') : cRecvQ'[j] # 0 => cRecvQ'[i] < cRecvQ'[j]
    <3>1. cRecvQ \in Seq(Int) /\ cLastRcpt \in Nat /\ k \in Nat /\ k \in Int
      BY <1>2, <1>4
    <3> QED
      BY <1>1, <1>18, <1>19, <3>1, ToldAppend
  <2>2. k # 0 /\ None = 0
    BY <1>4, Names
  <2>3. cLastRcpt' = k
    BY <1>1
  <2> QED
    BY <2>1, <2>2, <2>3 DEF Told
<1> QED
  BY <1>8, <1>9, <1>12, <1>13, <1>14, <1>17, <1>20 DEF IInv

LEMMA ClientReceivesStep ==
    ASSUME IInv, ClientReceives
    PROVE  IInv'
<1>1. s2c # <<>> /\ s2c' = Tail(s2c) /\ UNCHANGED serverVars
  BY DEF ClientReceives
<1>2. CASE C!IgnoreFrame(Head(s2c))
  BY <1>1, <1>2, DroppedStep DEF C!IgnoreFrame, C!vars, C!queues, IInv, Types
<1>3. CASE C!RejectFrame(Head(s2c))
  BY <1>1, <1>3, DroppedStep DEF C!RejectFrame, C!queues
<1> QED
  BY <1>1, <1>2, <1>3, ReceivedConnectedStep, ReceivedReceiptStep
     DEF ClientReceives, C!DataReceived

-----------------------------------------------------------------------------
(* What the server does                                                    *)

\* The server writes f, which is no CONNECTED.
LEMMA WriteDown ==
    ASSUME IInv, ~sDone, NEW f \in Frames, s2c' = Append(s2c, f),
           UNCHANGED <<clientVars, sConnected, given>>,
           f.cmd \in {"RECEIPT", "ERROR"}, f.ok, sLastRcpt' \in Nat, sLastRcpt <= sLastRcpt',
           IsReceipt(f) => f.id > 0 /\ f.id <= given /\ sConnected,
           IsReceipt(f) => sLastRcpt < f.id \/ (f.id = sLastRcpt /\ f.id = Final),
           IsReceipt(f) /\ ~cDone => cLastRcpt < f.id,
           IsReceipt(f) /\ ~sDone' => f.id <= sLastRcpt'
    PROVE  s2c' \in Seq(Frames) /\ Down'
<1>0. UNCHANGED <<cDone, cLastRcpt, cSentDisc, cLastMsg, cConnected>>
  BY DEF clientVars
<1>1. /\ s2c \in Seq(Frames) /\ sConnected \in BOOLEAN /\ cConnected \in BOOLEAN
      /\ sLastRcpt \in Nat /\ cLastRcpt \in Nat /\ given \in Nat
  BY DEF IInv, Types, Numbers
<1>2. s2c' \in Seq(Frames)
  BY <1>1, AppendFacts
<1>3. f.cmd # "CONNECTED" /\ f.cmd \in {"CONNECTED", "RECEIPT", "ERROR"}
  OBVIOUS
<1>4. /\ Legal(s2c) /\ Below(s2c, given) /\ Below(s2c, sLastRcpt) /\ cLastRcpt <= sLastRcpt
      /\ ~cDone => /\ Above(s2c, cLastRcpt) /\ Ascending(s2c, Final)
                   /\ Greeting(s2c, sConnected, cConnected)
  BY DEF IInv, Down
<1>5. Legal(s2c') /\ Below(s2c', given) /\ (~cDone => Above(s2c', cLastRcpt))
  BY <1>1, <1>3, <1>4, DownAppend
<1>6. ~sDone' => Below(s2c', sLastRcpt') /\ cLastRcpt <= sLastRcpt'
  <2>1. Below(s2c, sLastRcpt')
    BY <1>1, <1>4, BelowMore
  <2>2. ~sDone' => Below(s2c', sLastRcpt')
    BY <1>1, <2>1, DownAppend
  <2>3. cLastRcpt <= sLastRcpt'
    BY <1>1, <1>4
  <2> QED
    BY <2>2, <2>3
<1>7. ~cDone => Ascending(s2c', Final)
  <2>1. ASSUME IsReceipt(f), NEW i \in 1 .. Len(s2c), IsReceipt(s2c[i])
        PROVE  s2c[i].id < f.id \/ s2c[i].id = Final
    <3>1. s2c[i].id \in Nat /\ f.id \in Nat
      <4>1. f.id \in Nat
        BY DEF Frames, FramesOver, NoId
      <4> QED
        BY <1>1, <4>1, FrameIds
    <3>2. s2c[i].id <= sLastRcpt
      BY <1>4, <2>1 DEF Below
    <3> DEFINE x == s2c[i].id
               y == f.id
    <3>0. x \in Nat /\ y \in Nat /\ x <= sLastRcpt /\ sLastRcpt \in Nat
      BY <1>1, <3>1, <3>2
    <3> HIDE DEF x, y, Final
    <3>3. CASE sLastRcpt < y
      <4>1. x < y
        BY <3>0, <3>3
      <4> QED
        BY <4>1 DEF x, y
    <3>4. CASE y = sLastRcpt /\ y = Final
      <4>1. x < y \/ x = Final
        BY <3>0, <3>4
      <4> QED
        BY <4>1 DEF x, y
    <3>5. sLastRcpt < y \/ (y = sLastRcpt /\ y = Final)
      BY <2>1 DEF y
    <3> QED
      BY <3>3, <3>4, <3>5
  <2> QED
    BY <1>1, <1>4, <2>1, DownAppend
<1>8. ~cDone => Greeting(s2c', sConnected, cConnected)
  BY <1>1, <1>3, <1>4, GreetingAppend
<1>9. Final' = Final
  BY <1>0 DEF Final
<1>10. Down'
  BY <1>0, <1>5, <1>6, <1>7, <1>8, <1>9 DEF Down
<1> QED
  BY <1>2, <1>10

\* The server closes after an ERROR frame, or is already closing.
LEMMA ServerClosesStep ==
    ASSUME IInv, S!CloseWithError,
           UNCHANGED <<clientVars, sConnected, sLost, sLastMsg, sLastRcpt, sDiscId, given, sRecvQ>>,
           c2s' \in Seq(Frames), c2s = <<>> => c2s' = <<>>,
           sWriter' \in {sWriter, "end"},
           sSendQ' \in Seq(Int), Pending(sSendQ', sLastRcpt, given)
    PROVE  IInv'
<1> USE DEF clientVars
<1>1. sDone' = TRUE /\ s2c' = IF sDone THEN s2c ELSE s2c \o <<Frame("ERROR", 0)>>
  BY Names DEF S!CloseWithError, S!WriteAndClose
<1>2. /\ Frame("ERROR", 0) \in Frames /\ Frame("ERROR", 0).cmd = "ERROR" /\ Frame("ERROR", 0).ok
      /\ ~IsReceipt(Frame("ERROR", 0)) /\ s2c \in Seq(Frames) /\ sLastRcpt \in Nat
  <2>1. Frame("ERROR", 0) \in Frames /\ Frame("ERROR", 0).cmd = "ERROR" /\ Frame("ERROR", 0).ok
    BY FrameFacts, CommandNames
  <2>2. s2c \in Seq(Frames) /\ sLastRcpt \in Nat
    BY DEF IInv, Types, Numbers
  <2> QED
    BY <2>1, <2>2 DEF IsReceipt
<1>3. s2c' \in Seq(Frames) /\ Down'
  <2>1. CASE sDone
    BY <1>1, <2>1 DEF IInv, Types, Down, Final
  <2>2. CASE ~sDone
    <3>1. s2c' = Append(s2c, Frame("ERROR", 0))
      BY <1>1, <1>2, <2>2, ConcatOne
    <3>2. sLastRcpt' \in Nat /\ sLastRcpt <= sLastRcpt'
      BY <1>2
    <3> QED
      BY <1>1, <1>2, <2>2, <3>1, <3>2, WriteDown
  <2> QED
    BY <2>1, <2>2
<1>4. Types' /\ Numbers'
  BY <1>1, <1>3 DEF IInv, Types, Numbers
<1>5. ClientSide' /\ ServerSide'
  BY <1>1 DEF IInv, ClientSide, ServerSide
<1>6. Received' /\ Up' /\ Told'
  BY <1>1 DEF IInv, Received, Up, Told
<1> QED
  BY <1>3, <1>4, <1>5, <1>6 DEF IInv

\* A step of the server that writes nothing.
LEMMA ServerQuiet ==
    ASSUME IInv, UNCHANGED <<clientVars, s2c, sConnected, sLastRcpt, sDiscId>>,
           Types', Numbers', Received', Up', Pending(sSendQ', sLastRcpt, given'),
           sDiscId # 0 => sLastMsg' = sLastMsg /\ c2s' = c2s,
           ~sConnected => sWriter' # "on",
           sDone => sDone', sLost' => sDone', given <= given'
    PROVE  IInv'
<1> USE DEF clientVars
<1>1. ClientSide' /\ Told'
  BY DEF IInv, ClientSide, Told
<1>2. ServerSide'
  BY DEF IInv, ServerSide
<1>3. Below(s2c, given')
  <2>1. s2c \in Seq(Frames) /\ given \in Nat /\ given' \in Nat
    BY DEF IInv, Types, Numbers
  <2> QED
    BY <2>1, BelowMore DEF IInv, Down
<1>4. Down'
  BY <1>3 DEF IInv, Down, Final
<1> QED
  BY <1>1, <1>2, <1>4 DEF IInv

\* Nothing is on the way to the server.
LEMMA UpwardNone ==
    ASSUME NEW q, NEW r, NEW last, NEW d, Len(q) = 0, d \/ last = r + Len(q)
    PROVE  Upward(q, r, last, d)
<1>1. \A i \in 1 .. Len(q) : FALSE
  OBVIOUS
<1> QED
  BY <1>1, Zenon DEF Upward

LEMMA ReceivedConnectStep ==
    ASSUME IInv, c2s # <<>>, c2s' = Tail(c2s), S!ReceivedConnect(Head(c2s)),
           UNCHANGED clientVars
    PROVE  IInv'
<1> USE DEF clientVars
<1> DEFINE f == Frame("CONNECTED", 0)
<1>1. /\ ~sDone /\ ~sConnected /\ sConnected' = TRUE /\ sWriter' = "on" /\ s2c' = Append(s2c, f)
      /\ UNCHANGED <<sDone, sLost, sLastMsg, sLastRcpt, sDiscId, sRecvQ, sSendQ, given, sEnded>>
  BY Names DEF S!ReceivedConnect, S!Refuses, S!Connect, S!ids, S!queues
<1>2. /\ s2c = <<>> /\ cLastMsg = 0 /\ ~cConnected /\ c2s = <<Frame("STOMP", NoId)>>
      /\ s2c \in Seq(Frames) /\ c2s \in Seq(Frames)
  BY <1>1 DEF IInv, ServerSide, Up, Types
<1>3. f \in Frames /\ f.cmd = "CONNECTED" /\ f.ok /\ ~IsReceipt(f)
  BY FrameFacts, CommandNames DEF IsReceipt
<1> HIDE DEF f
<1>4. s2c' \in Seq(Frames) /\ Len(s2c') = 1 /\ s2c'[1] = f
  <2>1. s2c' \in Seq(Frames) /\ Len(s2c') = Len(s2c) + 1 /\ s2c'[Len(s2c) + 1] = f /\ Len(s2c) = 0
    <3>1. s2c \in Seq(Frames) /\ Len(s2c) = 0
      BY <1>2, EmptySeq
    <3>2. /\ Append(s2c, f) \in Seq(Frames) /\ Len(Append(s2c, f)) = Len(s2c) + 1
          /\ Append(s2c, f)[Len(s2c) + 1] = f
      BY <1>3, <3>1, AppendFacts
    <3> QED
      BY <1>1, <3>1, <3>2
  <2>2. Len(s2c) + 1 = 1
    BY <2>1
  <2> QED
    BY <2>1, <2>2
<1>5. c2s' = <<>> /\ c2s' \in Seq(Frames) /\ Len(c2s') = 0
  BY <1>2, EmptySeq
<1>6. Types' /\ Numbers'
  BY <1>1, <1>4, <1>5 DEF IInv, Types, Numbers
<1>7. ClientSide' /\ Received' /\ Told'
  BY <1>1 DEF IInv, ClientSide, Received, Told
<1>8. ServerSide'
  BY <1>1, <1>5 DEF IInv, ServerSide
<1>9. sLastMsg = 0
  <2>1. sLastMsg \in Nat /\ sLastMsg <= cLastMsg
    BY DEF IInv, Numbers
  <2> QED
    BY <1>2, <2>1
<1>10. Up'
  <2>1. Len(c2s') = 0
    BY <1>5
  <2>2. cLastMsg = sLastMsg + Len(c2s')
    BY <1>2, <1>9, <2>1
  <2>3. Upward(c2s', sLastMsg, cLastMsg, cSentDisc)
    BY <2>1, <2>2, UpwardNone
  <2> QED
    BY <1>1, <2>3 DEF Up
<1>11. \A i \in 1 .. Len(s2c') : i = 1 /\ s2c'[i] = f
  BY <1>4
<1>12. Legal(s2c') /\ (\A n : Below(s2c', n) /\ Above(s2c', n) /\ Ascending(s2c', n))
  <2>1. \A i \in 1 .. Len(s2c') : ~IsReceipt(s2c'[i]) /\ s2c'[i].cmd = "CONNECTED" /\ s2c'[i].ok
    BY <1>3, <1>11
  <2>2. Legal(s2c')
    BY <2>1 DEF Legal
  <2>3. \A n : Below(s2c', n) /\ Above(s2c', n) /\ Ascending(s2c', n)
    BY <2>1 DEF Below, Above, Ascending
  <2> QED
    BY <2>2, <2>3
<1>13. Greeting(s2c', sConnected', cConnected')
  <2>1. sConnected' /\ ~cConnected'
    BY <1>1, <1>2
  <2>2. Len(s2c') >= 1 /\ s2c'[1].cmd = "CONNECTED"
    BY <1>3, <1>4
  <2>3. \A i \in 1 .. Len(s2c') : i = 1
    BY <1>11
  <2>4. \A i \in 1 .. Len(s2c') :
           /\ s2c'[i].cmd = "CONNECTED" => i = 1 /\ sConnected' /\ ~cConnected'
           /\ IsReceipt(s2c'[i]) => sConnected'
    BY <2>1, <2>3, Zenon
  <2> QED
    BY <2>2, <2>4, Zenon DEF Greeting
<1>14. Down'
  BY <1>1, <1>12, <1>13 DEF IInv, Down
<1> QED
  BY <1>6, <1>7, <1>8, <1>10, <1>14 DEF IInv

\* What the server finds at the head of the way.
LEMMA FirstUp ==
    ASSUME IInv, ~sDone, c2s # <<>>
    PROVE  /\ ~sConnected => Head(c2s) = Frame("STOMP", 0) /\ Tail(c2s) = <<>>
           /\ sConnected => \/ /\ Head(c2s) = Frame("SEND", sLastMsg + 1) /\ sLastMsg + 1 <= cLastMsg
                               /\ Upward(Tail(c2s), sLastMsg + 1, cLastMsg, cSentDisc)
                            \/ /\ Head(c2s) = Frame("DISCONNECT", cLastMsg) /\ cLastMsg # 0
                               /\ cSentDisc /\ cLastMsg = sLastMsg /\ Tail(c2s) = <<>>
           /\ c2s \in Seq(Frames) /\ Tail(c2s) \in Seq(Frames) /\ sDiscId = 0
<1>1. /\ c2s \in Seq(Frames) /\ sLastMsg \in Nat /\ cLastMsg \in Nat /\ cSentDisc \in BOOLEAN
  BY DEF IInv, Types, Numbers
<1>2. Tail(c2s) \in Seq(Frames) /\ sDiscId = 0
  BY <1>1, TailFacts DEF IInv, ServerSide
<1>3. ~sConnected => Head(c2s) = Frame("STOMP", 0) /\ Tail(c2s) = <<>>
  <2>1. ~sConnected => c2s = <<Frame("STOMP", NoId)>> /\ NoId = 0
    BY Names DEF IInv, Up
  <2>2. ~sConnected => Tail(c2s) = <<>>
    <3>1. ~sConnected => Len(c2s) = 1
      BY <2>1
    <3>2. Len(Tail(c2s)) = Len(c2s) - 1
      BY <1>1, TailFacts
    <3>3. ~sConnected => Len(Tail(c2s)) = 0
      BY <3>1, <3>2
    <3> QED
      BY <1>2, <3>3, EmptySeq
  <2>3. ~sConnected => c2s[1] = Frame("STOMP", 0)
    BY <2>1
  <2>4. Head(c2s) = c2s[1]
    BY <1>1, TailFacts
  <2> QED
    BY <2>2, <2>3, <2>4
<1>4. sConnected => Upward(c2s, sLastMsg, cLastMsg, cSentDisc)
  BY DEF IInv, Up
<1> QED
  BY <1>1, <1>2, <1>3, <1>4, UpwardTail

LEMMA ReceivedSendStep ==
    ASSUME IInv, c2s # <<>>, c2s' = Tail(c2s), S!ReceivedSend(Head(c2s)),
           UNCHANGED clientVars
    PROVE  IInv'
<1> DEFINE f == Head(c2s)
<1>1. /\ ~sDone /\ sConnected /\ f.cmd = "SEND" /\ sRecvQ' = Append(sRecvQ, f.id)
      /\ sLastMsg' = f.id
      /\ UNCHANGED <<sConnected, sDone, sLost, sWriter, sLastRcpt, sDiscId, sSendQ, given, sEnded,
                     s2c>>
  BY DEF S!ReceivedSend, S!Refuses
<1>2. /\ sRecvQ \in Seq(Int) /\ sLastMsg \in Nat /\ given \in Nat /\ given <= sLastMsg
      /\ cLastMsg \in Nat
  BY DEF IInv, Types, Numbers
<1>3. /\ f = Frame("SEND", sLastMsg + 1) /\ sLastMsg + 1 <= cLastMsg
      /\ Upward(c2s', sLastMsg + 1, cLastMsg, cSentDisc) /\ c2s' \in Seq(Frames) /\ sDiscId = 0
  <2>1. f # Frame("DISCONNECT", cLastMsg)
    BY <1>1, <1>2, FrameFacts, CommandNames
  <2> QED
    BY <1>1, <2>1, FirstUp
<1>4. f.id = sLastMsg + 1 /\ sLastMsg + 1 \in Nat
  BY <1>2, <1>3, FrameFacts, CommandNames
<1> HIDE DEF f
<1>5. sLastMsg' = sLastMsg + 1 /\ sRecvQ' = Append(sRecvQ, sLastMsg + 1)
  BY <1>1, <1>4
<1>6. /\ sRecvQ' \in Seq(Int) /\ Len(sRecvQ') = Len(sRecvQ) + 1 /\ Len(sRecvQ) \in Nat
      /\ (\A i \in 1 .. Len(sRecvQ) : sRecvQ'[i] = sRecvQ[i])
      /\ sRecvQ'[Len(sRecvQ) + 1] = sLastMsg + 1
  BY <1>2, <1>4, <1>5, AppendFacts
<1>7. Types'
  BY <1>1, <1>3, <1>6 DEF IInv, Types, clientVars
<1>8. given <= sLastMsg + 1
  BY <1>2
<1>9. Numbers'
  BY <1>1, <1>3, <1>4, <1>5, <1>8 DEF IInv, Numbers, clientVars
<1>10. Len(sRecvQ) = sLastMsg /\ \A m \in 1 .. sLastMsg : sRecvQ[m] = m
  BY <1>1 DEF IInv, Received
<1>11. Received'
  <2>1. \A m \in 1 .. sLastMsg + 1 : sRecvQ'[m] = m
    BY <1>2, <1>6, <1>10
  <2> QED
    BY <1>2, <1>5, <1>6, <1>10, <2>1 DEF Received
<1>12. Up'
  BY <1>1, <1>3, <1>5 DEF Up, clientVars
<1>13. Pending(sSendQ', sLastRcpt, given') /\ given <= given'
  BY <1>1, <1>2 DEF IInv, ServerSide
<1>14. ~sLost
  BY <1>1 DEF IInv, ServerSide
<1> QED
  BY <1>1, <1>3, <1>7, <1>9, <1>11, <1>12, <1>13, <1>14, ServerQuiet

\* RECEIPT is written as the answer to the DISCONNECT of the client.
LEMMA AnswerStep ==
    ASSUME IInv, ~sDone, sConnected, sDone' = TRUE, cSentDisc, cLastMsg # 0, cLastMsg = sLastMsg,
           given = sLastMsg, sDiscId' = cLastMsg, s2c' = Append(s2c, Frame("RECEIPT", cLastMsg)),
           c2s' = <<>>, sSendQ' \in Seq(Int), Pending(sSendQ', sLastRcpt, given),
           UNCHANGED <<clientVars, sConnected, sLost, sWriter, sLastMsg, sLastRcpt, given, sRecvQ>>
    PROVE  IInv'
<1> DEFINE f == Frame("RECEIPT", cLastMsg)
<1>1. /\ cLastMsg \in Nat /\ sLastRcpt \in Nat /\ given \in Nat /\ sLastRcpt <= given
      /\ cLastRcpt \in Nat
  BY DEF IInv, Numbers
<1>2. f \in Frames /\ f.cmd = "RECEIPT" /\ f.ok /\ f.id = cLastMsg /\ IsReceipt(f)
  BY <1>1, FrameFacts, CommandNames DEF IsReceipt
<1>3. s2c' = Append(s2c, f)
  OBVIOUS
<1> HIDE DEF f
<1>4. f.id > 0 /\ f.id <= given /\ sLastRcpt' \in Nat /\ sLastRcpt <= sLastRcpt'
  BY <1>1, <1>2
<1>5. Final = f.id
  BY <1>2 DEF Final
<1>6. sLastRcpt < f.id \/ f.id = sLastRcpt
  BY <1>1, <1>2
<1>7. ~cDone => cLastRcpt < f.id
  BY <1>2 DEF IInv, ClientSide
<1>8. f.cmd \in {"RECEIPT", "ERROR"}
  BY <1>2
<1>9. s2c' \in Seq(Frames) /\ Down'
  BY <1>2, <1>3, <1>4, <1>5, <1>6, <1>7, <1>8, WriteDown
<1>10. c2s' \in Seq(Frames)
  BY EmptySeq
<1>11. Types'
  BY <1>9, <1>10 DEF IInv, Types, clientVars
<1>12. Numbers'
  BY <1>1 DEF IInv, Numbers, clientVars
<1>13. ClientSide' /\ ServerSide'
  BY DEF IInv, ClientSide, ServerSide, clientVars
<1>14. Received' /\ Up' /\ Told'
  BY DEF IInv, Received, Up, Told, clientVars
<1> QED
  BY <1>9, <1>11, <1>12, <1>13, <1>14 DEF IInv

LEMMA ReceivedDisconnectStep ==
    ASSUME IInv, c2s # <<>>, c2s' = Tail(c2s), S!ReceivedDisconnect(Head(c2s)),
           UNCHANGED clientVars
    PROVE  IInv'
<1> DEFINE f == Head(c2s)
<1>1. /\ ~sDone /\ sConnected /\ f.cmd = "DISCONNECT" /\ sDiscId' = f.id
      /\ UNCHANGED <<sConnected, sLost, sWriter, sLastMsg, sLastRcpt, sRecvQ, sSendQ, given, sEnded>>
  BY DEF S!ReceivedDisconnect, S!Refuses, S!queues
<1>2. /\ sLastMsg \in Nat /\ cLastMsg \in Nat /\ s2c \in Seq(Frames) /\ sLastRcpt \in Nat
      /\ given \in Nat /\ sLastRcpt <= given /\ given <= sLastMsg
  BY DEF IInv, Types, Numbers
<1>3. /\ f = Frame("DISCONNECT", cLastMsg) /\ cLastMsg # 0 /\ cSentDisc /\ cLastMsg = sLastMsg
      /\ c2s' = <<>>
  <2>1. f # Frame("SEND", sLastMsg + 1)
    BY <1>1, <1>2, FrameFacts, CommandNames
  <2> QED
    BY <1>1, <2>1, FirstUp
<1>4. f.id = cLastMsg
  BY <1>2, <1>3, FrameFacts, CommandNames
<1>5. sSendQ' \in Seq(Int) /\ Pending(sSendQ', sLastRcpt, given)
  BY <1>1 DEF IInv, Types, ServerSide
<1>6. CASE sLastMsg = sLastRcpt
  <2>1. sDone' = TRUE /\ s2c' = s2c \o <<Frame("RECEIPT", cLastMsg)>>
    BY <1>1, <1>3, <1>4, <1>6, Names DEF S!ReceivedDisconnect, S!WriteAndClose
  <2>2. Frame("RECEIPT", cLastMsg) \in Frames
    BY <1>2, FrameFacts, CommandNames
  <2>3. s2c' = Append(s2c, Frame("RECEIPT", cLastMsg))
    BY <1>2, <2>1, <2>2, ConcatOne
  <2>4. given = sLastMsg
    BY <1>2, <1>6
  <2> QED
    BY <1>1, <1>3, <1>4, <1>5, <2>1, <2>3, <2>4, AnswerStep
<1>7. CASE sLastMsg # sLastRcpt
  <2>1. UNCHANGED <<sDone, s2c>>
    BY <1>1, <1>3, <1>4, <1>7, Names DEF S!ReceivedDisconnect
  <2>2. c2s' \in Seq(Frames) /\ Len(c2s') = 0
    BY <1>3, EmptySeq
  <2>3. Types' /\ Numbers'
    BY <1>1, <1>2, <1>4, <1>5, <2>1, <2>2 DEF IInv, Types, Numbers, clientVars
  <2>4. ClientSide' /\ Received' /\ Told'
    BY <1>1, <2>1 DEF IInv, ClientSide, Received, Told, clientVars
  <2>5. ServerSide'
    BY <1>1, <1>3, <1>4, <2>1 DEF IInv, ServerSide, clientVars
  <2>6. Up'
    <3>1. Upward(c2s', sLastMsg, cLastMsg, cSentDisc)
      BY <1>3, <2>2, UpwardNone
    <3> QED
      BY <1>1, <2>1, <3>1 DEF Up, clientVars
  <2>7. Down'
    BY <1>1, <2>1 DEF IInv, Down, Final, clientVars
  <2> QED
    BY <2>3, <2>4, <2>5, <2>6, <2>7 DEF IInv
<1> QED
  BY <1>6, <1>7

LEMMA ServerIgnoresStep ==
    ASSUME IInv, c2s # <<>>, c2s' = Tail(c2s), S!IgnoreFrame(Head(c2s)), UNCHANGED clientVars
    PROVE  IInv'
<1>1. sDone /\ UNCHANGED <<serverVars, s2c>>
  BY DEF S!IgnoreFrame, S!vars, S!ids, S!queues, serverVars
<1>2. c2s' \in Seq(Frames)
  BY TailFacts DEF IInv, Types
<1>3. Types' /\ Numbers'
  BY <1>1, <1>2 DEF IInv, Types, Numbers, clientVars, serverVars
<1>4. Received' /\ Up'
  BY <1>1 DEF IInv, Received, Up, clientVars, serverVars
<1>5. sDiscId = 0 /\ given \in Nat
  BY DEF IInv, ServerSide, Numbers
<1>6. Pending(sSendQ', sLastRcpt, given') /\ given <= given'
  BY <1>1, <1>5 DEF IInv, ServerSide, serverVars
<1>7. (~sConnected => sWriter' # "on") /\ (sLost' => sDone') /\ (sDone => sDone')
  BY <1>1 DEF IInv, ServerSide, serverVars
<1> QED
  BY <1>1, <1>3, <1>4, <1>5, <1>6, <1>7, ServerQuiet DEF serverVars

LEMMA ServerRejectsStep ==
    ASSUME IInv, c2s # <<>>, c2s' = Tail(c2s), S!RejectFrame(Head(c2s)), UNCHANGED clientVars
    PROVE  IInv'
<1>1. /\ S!CloseWithError
      /\ UNCHANGED <<sConnected, sLost, sWriter, sLastMsg, sLastRcpt, sDiscId, sRecvQ, sSendQ, given>>
  BY DEF S!RejectFrame, S!ids, S!queues
<1>2. c2s' \in Seq(Frames)
  BY TailFacts DEF IInv, Types
<1>3. sSendQ' \in Seq(Int) /\ Pending(sSendQ', sLastRcpt, given)
  BY <1>1 DEF IInv, Types, ServerSide
<1> QED
  BY <1>1, <1>2, <1>3, ServerClosesStep

LEMMA ServerReceivesStep ==
    ASSUME IInv, ServerReceives
    PROVE  IInv'
  BY ServerIgnoresStep, ServerRejectsStep, ReceivedConnectStep, ReceivedSendStep,
     ReceivedDisconnectStep
     DEF ServerReceives, S!DataReceived

\* The writer of the server takes the head of its send_queue.
LEMMA WriterTakes ==
    ASSUME IInv, S!WriterTakes
    PROVE  /\ sConnected /\ sSendQ # <<>> /\ sSendQ' = Tail(sSendQ) /\ sSendQ' \in Seq(Int)
           /\ UNCHANGED <<sConnected, sLost, sLastMsg, sDiscId, sRecvQ, given>>
           /\ Pending(sSendQ', sLastRcpt, given)
           /\ Head(sSendQ) \in S!Msgs => /\ Pending(sSendQ', Head(sSendQ), given)
                                         /\ Head(sSendQ) \in Nat /\ Head(sSendQ) > 0
                                         /\ sLastRcpt < Head(sSendQ) /\ Head(sSendQ) <= given
<1>1. /\ sWriter = "on" /\ sSendQ # <<>> /\ sSendQ' = Tail(sSendQ)
      /\ UNCHANGED <<sConnected, sLost, sLastMsg, sDiscId, sRecvQ, given>>
  BY DEF S!WriterTakes
<1>2. /\ sSendQ \in Seq(Int) /\ sLastRcpt \in Nat /\ given \in Nat /\ sConnected
      /\ Pending(sSendQ, sLastRcpt, given)
  BY <1>1 DEF IInv, Types, Numbers, ServerSide
<1>3. sSendQ' \in Seq(Int)
  BY <1>1, <1>2, TailFacts
<1>4. Pending(sSendQ', sLastRcpt, given)
  BY <1>1, <1>2, PendingTail
<1>5. ASSUME Head(sSendQ) \in S!Msgs
      PROVE  /\ Pending(sSendQ', Head(sSendQ), given)
             /\ Head(sSendQ) \in Nat /\ Head(sSendQ) > 0
             /\ sLastRcpt < Head(sSendQ) /\ Head(sSendQ) <= given
  <2>1. Head(sSendQ) \in Nat /\ Head(sSendQ) > 0
    BY <1>5, Names
  <2> QED
    BY <1>1, <1>2, <2>1, PendingTail
<1> QED
  BY <1>1, <1>2, <1>3, <1>4, <1>5

LEMMA SendReceiptStep ==
    ASSUME IInv, S!SendReceipt, UNCHANGED <<clientVars, c2s>>
    PROVE  IInv'
<1> DEFINE k == Head(sSendQ)
<1>1. S!WriterTakes /\ k \in S!Msgs /\ sWriter' = sWriter
  BY DEF S!SendReceipt
<1>2. /\ sConnected /\ sSendQ' \in Seq(Int) /\ Pending(sSendQ', sLastRcpt, given)
      /\ UNCHANGED <<sConnected, sLost, sWriter, sLastMsg, sDiscId, sRecvQ, given>>
      /\ Pending(sSendQ', k, given) /\ k \in Nat /\ k > 0 /\ sLastRcpt < k /\ k <= given
  BY <1>1, WriterTakes
<1>3. /\ sLastMsg \in Nat /\ given \in Nat /\ given <= sLastMsg /\ s2c \in Seq(Frames)
      /\ cLastMsg \in Nat /\ cLastRcpt \in Nat /\ sLastRcpt \in Nat
  BY DEF IInv, Types, Numbers
<1>4. CASE ~sDone /\ sDiscId # 0 /\ k = sLastMsg
  <2>1. /\ cSentDisc /\ sDiscId = cLastMsg /\ sLastMsg = cLastMsg /\ c2s = <<>>
    BY <1>4 DEF IInv, ServerSide
  <2>2. sDone' = TRUE /\ s2c' = s2c \o <<Frame("RECEIPT", cLastMsg)>> /\ sLastRcpt' = sLastRcpt
    BY <1>4, <2>1, Names DEF S!SendReceipt, S!WriteAndClose
  <2>3. Frame("RECEIPT", cLastMsg) \in Frames
    BY <1>3, FrameFacts, CommandNames
  <2>4. s2c' = Append(s2c, Frame("RECEIPT", cLastMsg))
    BY <1>3, <2>2, <2>3, ConcatOne
  <2>5. given = sLastMsg /\ cLastMsg # 0
    BY <1>2, <1>3, <1>4, <2>1
  <2> QED
    BY <1>2, <1>4, <2>1, <2>2, <2>4, <2>5, AnswerStep
<1>5. CASE ~(~sDone /\ sDiscId # 0 /\ k = sLastMsg) /\ ~sDone
  <2> DEFINE f == Frame("RECEIPT", k)
  <2>1. s2c' = Append(s2c, f) /\ sLastRcpt' = k /\ sDone' = sDone
    BY <1>5, Names DEF S!SendReceipt
  <2>2. f \in Frames /\ f.cmd = "RECEIPT" /\ f.ok /\ f.id = k /\ IsReceipt(f)
    BY <1>2, FrameFacts, CommandNames DEF IsReceipt
  <2> HIDE DEF f, k
  <2>3. cLastRcpt < k /\ sLastRcpt' \in Nat /\ sLastRcpt <= sLastRcpt' /\ k <= k
    <3>1. cLastRcpt <= sLastRcpt
      BY <1>5 DEF IInv, Down
    <3> QED
      BY <1>2, <1>3, <2>1, <3>1
  <2>4. f.cmd \in {"RECEIPT", "ERROR"}
    BY <2>2
  <2>5. s2c' \in Seq(Frames) /\ Down'
    BY <1>2, <1>5, <2>1, <2>2, <2>3, <2>4, WriteDown
  <2>6. Types' /\ Numbers'
    BY <1>2, <2>1, <2>5 DEF IInv, Types, Numbers, clientVars
  <2>7. ClientSide' /\ Received' /\ Up' /\ Told'
    BY <1>2, <2>1 DEF IInv, ClientSide, Received, Up, Told, clientVars
  <2>8. ServerSide'
    BY <1>2, <2>1 DEF IInv, ServerSide, clientVars
  <2> QED
    BY <2>5, <2>6, <2>7, <2>8 DEF IInv
<1>6. CASE sDone
  <2>1. UNCHANGED <<s2c, sLastRcpt, sDone>>
    BY <1>6 DEF S!SendReceipt
  <2>2. Types' /\ Numbers' /\ Received' /\ Up'
    BY <1>2, <1>6, <2>1 DEF IInv, Types, Numbers, Received, Up, clientVars
  <2>3. given <= given'
    BY <1>2, <1>3
  <2>4. sLost' => sDone'
    BY <1>2, <2>1 DEF IInv, ServerSide
  <2> QED
    BY <1>2, <2>1, <2>2, <2>3, <2>4, ServerQuiet
<1> QED
  BY <1>4, <1>5, <1>6

LEMMA ServerWritesStep ==
    ASSUME IInv, ServerWrites
    PROVE  IInv'
<1>1. UNCHANGED <<clientVars, c2s>>
  BY DEF ServerWrites
<1>2. CASE S!SendReceipt
  BY <1>1, <1>2, SendReceiptStep
<1>3. CASE S!CloseGracefully
  <2>1. /\ S!WriterTakes /\ S!CloseWithError /\ sWriter' = "end" /\ sLastRcpt' = sLastRcpt
    BY <1>3 DEF S!CloseGracefully
  <2>2. c2s' \in Seq(Frames)
    BY <1>1 DEF IInv, Types
  <2> QED
    BY <1>1, <2>1, <2>2, WriterTakes, ServerClosesStep
<1> QED
  BY <1>2, <1>3 DEF ServerWrites

LEMMA ServerTimersStep ==
    ASSUME IInv, S!ConnectedTimeout \/ S!WatchdogFires, UNCHANGED <<clientVars, c2s>>
    PROVE  IInv'
<1>1. UNCHANGED <<sConnected, sLost, sWriter, sLastMsg, sLastRcpt, sDiscId, sRecvQ, sSendQ, given>>
  BY DEF S!ConnectedTimeout, S!WatchdogFires, S!ids, S!queues
<1>2. sSendQ' \in Seq(Int) /\ Pending(sSendQ', sLastRcpt, given) /\ c2s' \in Seq(Frames)
  BY <1>1 DEF IInv, Types, ServerSide
<1>3. CASE S!ConnectedTimeout
  <2>1. sDone' = TRUE /\ s2c' = s2c
    BY <1>3 DEF S!ConnectedTimeout
  <2>2. Types' /\ Numbers'
    BY <1>1, <2>1 DEF IInv, Types, Numbers, clientVars
  <2>3. Received' /\ Up'
    BY <1>1, <2>1 DEF IInv, Received, Up, clientVars
  <2>4. given <= given'
    BY <1>1 DEF IInv, Numbers
  <2>5. ~sConnected => sWriter' # "on"
    BY <1>1 DEF IInv, ServerSide
  <2> QED
    BY <1>1, <1>2, <2>1, <2>2, <2>3, <2>4, <2>5, ServerQuiet
<1>4. CASE S!WatchdogFires
  <2>1. S!CloseWithError
    BY <1>4 DEF S!WatchdogFires
  <2> QED
    BY <1>1, <1>2, <2>1, ServerClosesStep
<1> QED
  BY <1>3, <1>4

LEMMA ServerLostStep ==
    ASSUME IInv, ServerLost
    PROVE  IInv'
<1>1. /\ sLost' = TRUE /\ sDone' = TRUE /\ sWriter' = "end" /\ sRecvQ' = Append(sRecvQ, 0)
      /\ UNCHANGED <<clientVars, c2s, sConnected, sLastMsg, sLastRcpt, sDiscId, sSendQ, given, s2c>>
  BY Names DEF ServerLost, S!ConnectionLost, S!ids
<1>2. sRecvQ \in Seq(Int) /\ sLastMsg \in Nat /\ given \in Nat
  BY DEF IInv, Types, Numbers
<1>3. /\ sRecvQ' \in Seq(Int) /\ Len(sRecvQ') = Len(sRecvQ) + 1 /\ Len(sRecvQ) \in Nat
      /\ (\A i \in 1 .. Len(sRecvQ) : sRecvQ'[i] = sRecvQ[i])
  <2>1. sRecvQ \in Seq(Int) /\ 0 \in Int
    BY <1>2
  <2>2. sRecvQ' = Append(sRecvQ, 0)
    BY <1>1
  <2> QED
    BY <2>1, <2>2, AppendFacts
<1>4. Types' /\ Numbers' /\ Up'
  BY <1>1, <1>3 DEF IInv, Types, Numbers, Up, clientVars
<1>5. Received'
  <2>1. sLastMsg <= Len(sRecvQ) /\ \A m \in 1 .. sLastMsg : sRecvQ[m] = m
    BY DEF IInv, Received
  <2>2. sLastMsg <= Len(sRecvQ') /\ \A m \in 1 .. sLastMsg : sRecvQ'[m] = m
    <3>1. sLastMsg <= Len(sRecvQ') /\ \A m \in 1 .. sLastMsg : m \in 1 .. Len(sRecvQ)
      BY <1>2, <1>3, <2>1
    <3> QED
      BY <1>3, <2>1, <3>1, Zenon
  <2> QED
    BY <1>1, <2>2 DEF Received
<1>6. Pending(sSendQ', sLastRcpt, given') /\ given <= given'
  BY <1>1, <1>2 DEF IInv, ServerSide
<1> QED
  BY <1>1, <1>4, <1>5, <1>6, ServerQuiet

\* The publisher task appends x to the send_queue of the server.
LEMMA PublisherPuts ==
    ASSUME IInv, NEW x \in Int, sSendQ' = Append(sSendQ, x), given' \in Nat,
           given <= given', given' <= sLastMsg, x > 0 => given < x /\ x <= given',
           UNCHANGED <<clientVars, c2s, s2c, sConnected, sDone, sLost, sWriter, sLastMsg, sLastRcpt,
                       sDiscId, sRecvQ>>
    PROVE  IInv'
<1>1. /\ sSendQ \in Seq(Int) /\ sLastRcpt \in Nat /\ given \in Nat /\ sLastRcpt <= given
      /\ cLastRcpt \in Nat /\ cLastRcpt <= given /\ Pending(sSendQ, sLastRcpt, given)
  BY DEF IInv, Types, Numbers, ServerSide
<1>2. sSendQ' \in Seq(Int) /\ Pending(sSendQ', sLastRcpt, given')
  BY <1>1, AppendFacts, PendingAppend
<1>3. Types'
  BY <1>2 DEF IInv, Types, clientVars
<1>4. sLastRcpt <= given' /\ cLastRcpt <= given'
  BY <1>1
<1>5. Numbers'
  BY <1>4 DEF IInv, Numbers, clientVars
<1>6. Received' /\ Up'
  BY DEF IInv, Received, Up, clientVars
<1>7. (~sConnected => sWriter' # "on") /\ (sLost' => sDone')
  BY DEF IInv, ServerSide
<1> QED
  BY <1>2, <1>3, <1>5, <1>6, <1>7, ServerQuiet

LEMMA PublisherStep ==
    ASSUME IInv, PublisherConfirms \/ PublisherEnds
    PROVE  IInv'
<1>1. given \in Nat /\ sLastMsg \in Nat /\ given <= sLastMsg
  BY DEF IInv, Numbers
<1>2. UNCHANGED <<clientVars, c2s, s2c, sConnected, sDone, sLost, sWriter, sLastMsg, sLastRcpt,
                  sDiscId, sRecvQ>>
  BY DEF PublisherConfirms, PublisherEnds, S!PublisherConfirms, S!PublisherEnds, S!ids
<1>3. CASE PublisherConfirms
  <2>1. PICK k \in given + 1 .. sLastMsg : sSendQ' = Append(sSendQ, k) /\ given' = k
    BY <1>3 DEF PublisherConfirms, S!PublisherConfirms
  <2>2. k \in Int /\ given' \in Nat /\ given <= given' /\ given' <= sLastMsg /\ given < k /\ k <= given'
    BY <1>1, <2>1
  <2> QED
    BY <1>2, <2>1, <2>2, PublisherPuts
<1>4. CASE PublisherEnds
  <2>1. PICK e \in {0, -1} : sSendQ' = Append(sSendQ, e)
    BY <1>4, Names DEF PublisherEnds, S!PublisherEnds
  <2>2. given' = given
    BY <1>4 DEF PublisherEnds, S!PublisherEnds
  <2>3. e \in Int /\ ~(e > 0) /\ given' \in Nat /\ given <= given' /\ given' <= sLastMsg
    BY <1>1, <2>2
  <2> QED
    BY <1>2, <2>1, <2>3, PublisherPuts
<1> QED
  BY <1>3, <1>4

-----------------------------------------------------------------------------
(* The theorems                                                            *)

LEMMA NextIInv == IInv /\ [Next]_vars => IInv'
<1> SUFFICES ASSUME IInv, [Next]_vars
             PROVE  IInv'
  OBVIOUS
<1>1. CASE UNCHANGED <<clientVars, serverVars, c2s, s2c>>
  <2>1. Types' /\ Numbers' /\ ClientSide' /\ ServerSide'
    BY <1>1 DEF IInv, Types, Numbers, ClientSide, ServerSide, clientVars, serverVars
  <2>2. Received' /\ Up' /\ Down' /\ Told'
    BY <1>1 DEF IInv, Received, Up, Down, Final, Told, clientVars, serverVars
  <2> QED
    BY <2>1, <2>2 DEF IInv
<1>2. CASE UNCHANGED vars \/ NetworkFails
  BY <1>1, <1>2 DEF vars, NetworkFails
<1>3. CASE ClientWrites
  BY <1>3, SendMessageStep, ClientClosesStep DEF ClientWrites
<1>4. CASE Timers
  BY <1>4, TimeoutStep, ServerTimersStep DEF Timers
<1>5. CASE ClientLost
  BY <1>5, ClientLostStep DEF ClientLost
<1> QED
  BY <1>2, <1>3, <1>4, <1>5, ClientReceivesStep, ServerReceivesStep, ServerWritesStep,
     ConsumerStep, PublisherStep, ServerLostStep DEF Next

\* Every state of a connection satisfies the inductive invariant: the queues,
\* the two ways and the ids that both ends remember fit together.
THEOREM Invariance == Spec => []IInv
  BY InitIInv, NextIInv, PTL DEF Spec

LEMMA IInvTruthful == IInv => AcksTruthful
<1> SUFFICES ASSUME IInv, NEW i \in DOMAIN cRecvQ, cRecvQ[i] \in 1 .. MaxMsgs
             PROVE  /\ cRecvQ[i] <= given
                    /\ \A m \in 1 .. cRecvQ[i] : sRecvQ[m] = m
  BY DEF AcksTruthful
<1>1. cRecvQ \in Seq(Int) /\ i \in 1 .. Len(cRecvQ)
  BY DEF IInv, Types
<1>2. cRecvQ[i] \in Nat /\ cRecvQ[i] # 0
  BY SessionAssumption
<1>3. cRecvQ[i] <= cLastRcpt
  BY <1>1, <1>2, Names DEF IInv, Told
<1>4. /\ cLastRcpt \in Nat /\ given \in Nat /\ sLastMsg \in Nat
      /\ cLastRcpt <= given /\ given <= sLastMsg
  BY DEF IInv, Numbers
<1>5. cRecvQ[i] <= given /\ \A m \in 1 .. cRecvQ[i] : m \in 1 .. sLastMsg
  BY <1>2, <1>3, <1>4
<1>6. \A m \in 1 .. sLastMsg : sRecvQ[m] = m
  BY DEF IInv, Received
<1> QED
  BY <1>5, <1>6

LEMMA IInvAscend == IInv => AcksAscend
<1> SUFFICES ASSUME IInv, NEW i \in DOMAIN cRecvQ, NEW j \in DOMAIN cRecvQ, i < j
             PROVE  /\ cRecvQ[i] # None
                    /\ cRecvQ[j] # None => cRecvQ[i] < cRecvQ[j]
  BY DEF AcksAscend
<1>1. cRecvQ \in Seq(Int) /\ i \in 1 .. Len(cRecvQ) /\ j \in 1 .. Len(cRecvQ)
  BY DEF IInv, Types
<1>2. j \in i + 1 .. Len(cRecvQ) /\ i # Len(cRecvQ)
  BY <1>1
<1> QED
  BY <1>1, <1>2 DEF IInv, Told

LEMMA IInvNeither == IInv => NeitherRefuses
<1> SUFFICES ASSUME IInv
             PROVE  NeitherRefuses
  OBVIOUS
<1>1. ASSUME c2s # <<>>, ~sDone
      PROVE  ~S!Refuses(Head(c2s))
  <2> DEFINE f == Head(c2s)
  <2>1. sLastMsg + 1 \in Nat /\ cLastMsg \in Nat
    BY DEF IInv, Numbers
  <2>2. sDiscId = S!NoId
    BY <1>1, FirstUp, Names
  <2>3. CASE ~sConnected
    <3>1. f.cmd = "STOMP" /\ f.ok
      BY <1>1, <2>3, FirstUp, FrameFacts, CommandNames
    <3> QED
      BY <2>2, <2>3, <3>1 DEF S!Refuses
  <2>4. CASE sConnected
    <3>1. f.cmd \in {"SEND", "DISCONNECT"} /\ f.ok
      BY <1>1, <2>1, <2>4, FirstUp, FrameFacts, CommandNames
    <3> QED
      BY <2>2, <2>4, <3>1 DEF S!Refuses
  <2> QED
    BY <2>3, <2>4
<1>2. ASSUME s2c # <<>>, ~cDone, C!Refuses(Head(s2c))
      PROVE  Head(s2c).cmd = "ERROR"
  <2> DEFINE f == Head(s2c)
  <2>1. /\ s2c \in Seq(Frames) /\ sConnected \in BOOLEAN /\ cConnected \in BOOLEAN
        /\ Legal(s2c) /\ Greeting(s2c, sConnected, cConnected) /\ (cConnected => sConnected)
    BY <1>2 DEF IInv, Types, Down, ServerSide
  <2>2. f = s2c[1] /\ 1 \in 1 .. Len(s2c)
    BY <1>2, <2>1, TailFacts
  <2>3. /\ f.cmd \in {"CONNECTED", "RECEIPT", "ERROR"} /\ f.ok
        /\ f.cmd = "RECEIPT" => f.id > 0
    BY <2>1, <2>2 DEF Legal, IsReceipt
  <2>4. (f.cmd = "CONNECTED" => ~cConnected) /\ (f.cmd = "RECEIPT" => cConnected)
    BY <1>2, <2>1, GreetingTail DEF IsReceipt
  <2>5. f.cmd = "RECEIPT" => f.id # C!NoId
    BY <2>3, Names
  <2> HIDE DEF f
  <2>6. C!Refuses(f)
    BY <1>2 DEF f
  <2>7. f.cmd = "ERROR"
    BY <2>3, <2>4, <2>5, <2>6 DEF C!Refuses
  <2> QED
    BY <2>7 DEF f
<1> QED
  BY <1>1, <1>2 DEF NeitherRefuses

\* Whatever is lost, closed or timed out, a message that StompClient reports to
\* its consumer as confirmed was received by StompServer, with all before it,
\* and confirmed by the publisher behind it.
THEOREM AcksTruthfulHolds == Spec => []AcksTruthful
  BY Invariance, IInvTruthful, PTL

\* The recv_queue of StompClient gets every id at most once, in ascending order,
\* and None as its last item, also when the server answers DISCONNECT with a
\* RECEIPT that it has already written.
THEOREM AcksAscendHolds == Spec => []AcksAscend
  BY Invariance, IInvAscend, PTL

\* Neither data_received ever refuses a frame that the other end wrote, apart
\* from the ERROR of the server.
THEOREM NeitherRefusesHolds == Spec => []NeitherRefuses
  BY Invariance, IInvNeither, PTL
=============================================================================
