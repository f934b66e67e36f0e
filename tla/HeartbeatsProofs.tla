--------------------------- MODULE HeartbeatsProofs ---------------------------
(***************************************************************************)
(* Proofs about Heartbeats, for any period of the watchdog, any delay of   *)
(* the network and any configurations of the two ends.                     *)
(***************************************************************************)
EXTENDS Heartbeats, TLAPS

Protocols ==
    [connected : BOOLEAN, done : BOOLEAN, timeout : Int, beat : Int, wake : Int,
     quiet : Nat, paused : BOOLEAN, blind : BOOLEAN, alarm : BOOLEAN]

Items == [kind : {"STOMP", "CONNECTED", "beat", "eof"}, age : 0..MaxNetworkDelay]

Types ==
    /\ hb \in [Ends -> HbConfigs]
    /\ proto \in [Ends -> Protocols]
    /\ wire \in [Ends -> SUBSET Items]
    /\ cut \in BOOLEAN

Open(e) == ~proto[e].done
Running(e) == proto[e].connected /\ ~proto[e].done

\* The watchdog runs exactly where heart-beats were agreed to, and what is left
\* of its sleep makes up for the silence it has not looked at.
Watched ==
    \A e \in Ends :
        /\ Open(e) /\ proto[e].wake # Off => proto[e].connected /\ HbRecv(e) # 0
        /\ Running(e) /\ HbRecv(e) # 0 =>
              /\ proto[e].wake \in 0..HbSendMin
              /\ proto[e].quiet + proto[e].wake <= WatchdogTime(e) + HbSendMin

\* The handshake: one STOMP, answered by one CONNECTED.
Handshake ==
    /\ \A x \in wire["client"] : x.kind # "STOMP"
    /\ \A x \in wire["server"] : x.kind # "CONNECTED"
    /\ \A x \in wire["server"] : x.kind = "STOMP" =>
          /\ ~proto["server"].connected
          /\ \A y \in wire["server"] : y.kind = "STOMP" => y = x
    /\ \A x \in wire["client"] : x.kind = "CONNECTED" =>
          /\ proto["server"].connected /\ ~proto["client"].connected
          /\ \A y \in wire["client"] : y.kind = "CONNECTED" => y = x
    /\ proto["client"].connected => proto["server"].connected

\* While the client waits for CONNECTED its timeout measures the silence that
\* the server has seen since STOMP.
Waiting ==
    /\ \A e \in Ends : Open(e) /\ ~proto[e].connected => proto[e].timeout \in 0..MaxNetworkDelay
    /\ Open("client") /\ ~proto["client"].connected /\ Running("server") =>
          proto["server"].quiet <= MaxNetworkDelay - proto["client"].timeout

\* An end that is done has told the other one.
Told ==
    \A e \in Ends :
        /\ \A x \in wire[e] : x.kind = "eof" => ~Open(Other(e))
        /\ ~cut /\ Open(e) /\ ~Open(Other(e)) => \E x \in wire[e] : x.kind = "eof"

\* The silence that the watchdog must bear before something is sent.
Patience(e) == HbRecv(e) + HbSendMin

\* Something is on the way that left before Patience was exhausted, or will be.
Coming(e) ==
    \/ \E x \in wire[e] : proto[e].quiet <= Patience(e) + x.age
    \/ Running(Other(e)) /\ proto[e].quiet + proto[Other(e)].beat <= Patience(e)
    \/ Open(Other(e)) /\ ~proto[Other(e)].connected

Beating ==
    \A e \in Ends :
        /\ Running(e) /\ HbSend(e) # 0 => proto[e].beat \in 0..HbSend(e)
        /\ Running(e) /\ HbRecv(e) # 0 /\ ~cut /\ ~proto[e].blind => Coming(e)

Alarms ==
    \A e \in Ends :
        /\ proto[e].paused => proto[e].blind
        /\ proto[e].alarm => ~Open(e) /\ (cut \/ proto[e].blind)

IInv == Types /\ Watched /\ Handshake /\ Waiting /\ Told /\ Beating /\ Alarms

-----------------------------------------------------------------------------
(* The rates of heart-beats                                                *)

LEMMA EndsOther ==
    ASSUME NEW e \in Ends
    PROVE  /\ Other(e) \in Ends /\ Other(e) # e /\ Other(Other(e)) = e
           /\ \A f \in Ends : f = e \/ f = Other(e)
BY DEF Ends, Other

\* What one end sends is what the other one expects, and a server that expects
\* heart-beats bears the longest handshake.
LEMMA Rates ==
    ASSUME Types
    PROVE  \A e \in Ends : /\ HbRecv(e) \in Nat
                           /\ HbSend(e) = HbRecv(Other(e))
                           /\ HbRecv(e) # 0 => MaxNetworkDelay <= Patience(e)
<1> TAKE e \in Ends
<1>1. /\ Other(e) \in Ends /\ Other(Other(e)) = e
  BY EndsOther
<1>2. /\ hb[e] \in HbConfigs
      /\ hb[e].send_min \in Nat /\ hb[e].recv_desired \in Nat
      /\ hb[Other(e)].send_min \in Nat /\ hb[Other(e)].recv_desired \in Nat
  BY <1>1, TimesAssumption DEF Types
<1>3. HbRecv(e) \in Nat /\ HbSend(e) = HbRecv(Other(e))
  BY <1>1, <1>2 DEF HbRecv, HbSend, CalcHeartbeat, Larger
<1>4. HbRecv(e) # 0 => MaxNetworkDelay <= Patience(e)
  BY <1>2, TimesAssumption, RoundTripAssumption
     DEF HbRecv, CalcHeartbeat, Larger, Patience
<1> QED
  BY <1>3, <1>4

\* The rates do not change.
LEMMA SameRates ==
    ASSUME hb' = hb
    PROVE  \A e \in Ends : /\ HbRecv(e)' = HbRecv(e) /\ HbSend(e)' = HbSend(e)
                           /\ WatchdogTime(e)' = WatchdogTime(e)
                           /\ Patience(e)' = Patience(e)
BY DEF HbRecv, HbSend, WatchdogTime, Patience

-----------------------------------------------------------------------------
(* Every step keeps the invariant                                          *)

LEMMA InitIInv == Init => IInv
<1> SUFFICES ASSUME Init PROVE IInv
  OBVIOUS
<1> USE DEF Init, Ends, Other, NewProtocol, Off, Open, Running
<1>1. Types
  <2>1. NewProtocol \in Protocols
    BY TimesAssumption DEF Protocols
  <2>2. wire \in [Ends -> SUBSET Items]
    BY TimesAssumption DEF Items
  <2> QED
    BY <2>1, <2>2 DEF Types
<1>2. Watched
  BY DEF Watched
<1>3. Handshake
  BY DEF Handshake
<1>4. Waiting
  BY TimesAssumption DEF Waiting
<1>5. Told
  BY DEF Told
<1>6. Beating
  BY DEF Beating
<1>7. Alarms
  BY DEF Alarms
<1> QED
  BY <1>1, <1>2, <1>3, <1>4, <1>5, <1>6, <1>7 DEF IInv


\* A step in which no end connects, and only heart-beats and ends of the stream
\* are written, does not concern the handshake.
LEMMA HandshakeKept ==
    ASSUME Handshake,
           \A f \in Ends : proto'[f].connected = proto[f].connected,
           \A f \in Ends : \A x \in wire'[f] : x \in wire[f] \/ x.kind \in {"beat", "eof"}
    PROVE  Handshake'
<1>1. "client" \in Ends /\ "server" \in Ends
  BY DEF Ends
<1> QED
  BY <1>1 DEF Handshake

\* Before the watchdog of an end is to raise an alarm something has been sent.
LEMMA QuietBound ==
    ASSUME IInv, NEW e \in Ends, Running(e), HbRecv(e) # 0, ~cut, ~proto[e].blind
    PROVE  \/ proto[e].quiet <= Patience(e) /\ Open(Other(e))
           \/ \E x \in wire[e] : proto[e].quiet <= Patience(e) + x.age
<1>1. Other(e) \in Ends /\ HbSend(Other(e)) = HbRecv(e) /\ HbRecv(e) \in Nat
  BY Rates, EndsOther DEF IInv
<1>2. proto[e].quiet \in Nat /\ proto[Other(e)].beat \in Int /\ Patience(e) \in Nat
  BY <1>1, TimesAssumption DEF IInv, Types, Protocols, Patience
<1>3. Coming(e)
  BY DEF IInv, Beating
<1>4. CASE Running(Other(e)) /\ proto[e].quiet + proto[Other(e)].beat <= Patience(e)
  <2>1. proto[Other(e)].beat \in 0..HbSend(Other(e))
    BY <1>1, <1>4 DEF IInv, Beating
  <2> QED
    BY <1>1, <1>2, <1>4, <2>1 DEF Running, Open
<1>5. CASE Open(Other(e)) /\ ~proto[Other(e)].connected
  <2>1. e = "server" /\ Other(e) = "client"
    BY <1>5 DEF IInv, Handshake, Running, Ends, Other
  <2>2. proto["client"].timeout \in 0..MaxNetworkDelay
    BY <1>5, <2>1 DEF IInv, Waiting, Ends
  <2>3. proto["server"].quiet <= MaxNetworkDelay - proto["client"].timeout
    BY <1>5, <2>1 DEF IInv, Waiting
  <2>4. MaxNetworkDelay <= Patience(e)
    BY Rates DEF IInv
  <2> QED
    BY <1>2, <1>5, <2>1, <2>2, <2>3, <2>4, TimesAssumption
<1> QED
  BY <1>3, <1>4, <1>5 DEF Coming

LEMMA SendHeartbeatStep ==
    ASSUME IInv, NEW e \in Ends, SendHeartbeat(e)
    PROVE  IInv'
<1> DEFINE o == Other(e)
<1> USE DEF Open, Running
<1>e. o \in Ends /\ o # e /\ Other(o) = e /\ \A f \in Ends : f = e \/ f = o
  BY EndsOther
<1>t. Types
  BY DEF IInv
<1>r. /\ \A f \in Ends : HbRecv(f) \in Nat /\ HbSend(f) = HbRecv(Other(f))
      /\ \A f \in Ends : /\ HbRecv(f)' = HbRecv(f) /\ HbSend(f)' = HbSend(f)
                         /\ WatchdogTime(f)' = WatchdogTime(f) /\ Patience(f)' = Patience(f)
  BY <1>t, Rates, SameRates DEF SendHeartbeat
<1>u. hb' = hb /\ cut' = cut
  BY DEF SendHeartbeat
<1>p. /\ proto'[o] = proto[o]
      /\ proto'[e] = [proto[e] EXCEPT !.beat = HbSend(e)]
      /\ proto' \in [Ends -> Protocols]
  BY <1>t, <1>e, <1>r DEF SendHeartbeat, Types, Protocols
<1>f. /\ proto'[e].connected = proto[e].connected /\ proto'[e].done = proto[e].done
      /\ proto'[e].timeout = proto[e].timeout /\ proto'[e].wake = proto[e].wake
      /\ proto'[e].quiet = proto[e].quiet /\ proto'[e].paused = proto[e].paused
      /\ proto'[e].blind = proto[e].blind /\ proto'[e].alarm = proto[e].alarm
      /\ proto'[e].beat = HbSend(e) /\ proto[e].beat = 0 /\ ~proto[e].done
  BY <1>t, <1>p DEF SendHeartbeat, Types, Protocols
<1>w. /\ wire'[e] = wire[e]
      /\ wire'[o] = IF cut THEN wire[o] ELSE wire[o] \cup {[kind |-> "beat", age |-> 0]}
      /\ wire' \in [Ends -> SUBSET Items]
  BY <1>t, <1>e, TimesAssumption DEF SendHeartbeat, Written, Types, Items
<1>1. Types'
  BY <1>t, <1>u, <1>p, <1>w DEF Types
<1>2. Watched'
  BY <1>e, <1>r, <1>p, <1>f, ZenonT(60) DEF IInv, Watched
<1>3. Handshake'
  <2>1. \A f \in Ends : proto'[f].connected = proto[f].connected
    BY <1>e, <1>p, <1>f
  <2>2. \A f \in Ends : \A x \in wire'[f] : x \in wire[f] \/ x.kind \in {"beat", "eof"}
    BY <1>e, <1>w
  <2> QED
    BY <2>1, <2>2, HandshakeKept DEF IInv
<1>4. Waiting'
  <2>1. \A f \in Ends : /\ proto'[f].connected = proto[f].connected
                        /\ proto'[f].done = proto[f].done
                        /\ proto'[f].timeout = proto[f].timeout
                        /\ proto'[f].quiet = proto[f].quiet
    BY <1>e, <1>p, <1>f
  <2> QED
    BY <2>1 DEF IInv, Waiting, Ends
<1>5. Told'
  <2>1. \A x \in wire'[e] : x.kind = "eof" => ~Open(o)'
    BY <1>e, <1>p, <1>w DEF IInv, Told
  <2>2. \A x \in wire'[o] : x.kind = "eof" => ~Open(e)'
    BY <1>e, <1>f, <1>w DEF IInv, Told
  <2>3. ~cut' /\ ~Open(o)' => \E x \in wire'[e] : x.kind = "eof"
    BY <1>e, <1>p, <1>f, <1>w, <1>u DEF IInv, Told
  <2> QED
    BY <1>e, <1>f, <2>1, <2>2, <2>3 DEF Told
<1>6. Beating'
  <2>1. HbSend(e)' # 0 => proto'[e].beat \in 0..HbSend(e)'
    BY <1>e, <1>r, <1>f
  <2>2. Running(o)' /\ HbSend(o)' # 0 => proto'[o].beat \in 0..HbSend(o)'
    BY <1>e, <1>r, <1>p DEF IInv, Beating
  <2>3. Running(e)' /\ HbRecv(e)' # 0 /\ ~cut' /\ ~proto'[e].blind => Coming(e)'
    BY <1>e, <1>r, <1>p, <1>f, <1>w, <1>u DEF IInv, Beating, Coming
  <2>4. ASSUME Running(o)', HbRecv(o)' # 0, ~cut', ~proto'[o].blind
        PROVE  Coming(o)'
    <3>1. \E x \in wire'[o] : proto'[o].quiet <= Patience(o)' + x.age
      <4>1. \/ proto[o].quiet <= Patience(o)
            \/ \E x \in wire[o] : proto[o].quiet <= Patience(o) + x.age
        BY <1>e, <1>r, <1>p, <1>u, <2>4, QuietBound
      <4>2. [kind |-> "beat", age |-> 0] \in wire'[o] /\ wire[o] \subseteq wire'[o]
        BY <1>w, <1>u, <2>4
      <4>3. Patience(o) \in Nat
        BY <1>e, <1>r, TimesAssumption DEF Patience
      <4> QED
        BY <1>e, <1>r, <1>p, <4>1, <4>2, <4>3
    <3> QED
      BY <3>1 DEF Coming
  <2> QED
    BY <1>e, <2>1, <2>2, <2>3, <2>4 DEF Beating
<1>7. Alarms'
  BY <1>e, <1>p, <1>f, <1>u DEF IInv, Alarms
<1> QED
  BY <1>1, <1>2, <1>3, <1>4, <1>5, <1>6, <1>7 DEF IInv

\* A step of one end that writes nothing and changes, of what the other one
\* depends on, nothing either.
LEMMA QuietStep ==
    ASSUME IInv, NEW e \in Ends, NEW p \in Protocols,
           proto' = [proto EXCEPT ![e] = p], UNCHANGED <<hb, wire, cut>>, ~proto[e].done,
           p.connected = proto[e].connected, p.done = proto[e].done,
           p.beat = proto[e].beat, p.quiet = proto[e].quiet, p.alarm = proto[e].alarm,
           proto[e].blind => p.blind, p.paused => p.blind,
           ~p.connected => p.timeout = proto[e].timeout,
           \/ p.wake = proto[e].wake
           \/ /\ p.connected /\ HbRecv(e) # 0
              /\ p.wake \in 0..HbSendMin /\ p.quiet + p.wake <= WatchdogTime(e) + HbSendMin
    PROVE  IInv'
<1> DEFINE o == Other(e)
<1> USE DEF Open, Running
<1>e. o \in Ends /\ o # e /\ Other(o) = e /\ \A f \in Ends : f = e \/ f = o
  BY EndsOther
<1>t. Types
  BY DEF IInv
<1>r. \A f \in Ends : /\ HbRecv(f)' = HbRecv(f) /\ HbSend(f)' = HbSend(f)
                      /\ WatchdogTime(f)' = WatchdogTime(f) /\ Patience(f)' = Patience(f)
  BY SameRates
<1>p. proto'[o] = proto[o] /\ proto'[e] = p /\ proto' \in [Ends -> Protocols]
  BY <1>t, <1>e DEF Types
<1>f. \A f \in Ends : /\ proto'[f].connected = proto[f].connected
                      /\ proto'[f].done = proto[f].done
                      /\ proto'[f].quiet = proto[f].quiet
                      /\ proto'[f].beat = proto[f].beat
                      /\ proto'[f].alarm = proto[f].alarm
                      /\ proto[f].blind => proto'[f].blind
                      /\ ~proto[f].connected => proto'[f].timeout = proto[f].timeout
  BY <1>e, <1>p
<1>1. Types'
  BY <1>t, <1>p DEF Types
<1>2. Watched'
  <2>1. /\ Open(e)' /\ proto'[e].wake # Off => proto'[e].connected /\ HbRecv(e)' # 0
        /\ Running(e)' /\ HbRecv(e)' # 0 =>
              /\ proto'[e].wake \in 0..HbSendMin
              /\ proto'[e].quiet + proto'[e].wake <= WatchdogTime(e)' + HbSendMin
    BY <1>r, <1>p DEF IInv, Watched
  <2> QED
    BY <1>e, <1>r, <1>p, <2>1 DEF IInv, Watched
<1>3. Handshake'
  BY <1>f, HandshakeKept DEF IInv
<1>4. Waiting'
  BY <1>f DEF IInv, Waiting, Ends
<1>5. Told'
  BY <1>e, <1>f DEF IInv, Told
<1>6. Beating'
  <2>1. \A f \in Ends : Coming(f) => Coming(f)'
    BY <1>e, <1>f, <1>r DEF Coming
  <2> QED
    BY <1>f, <1>r, <2>1 DEF IInv, Beating
<1>7. Alarms'
  BY <1>e, <1>f, <1>p DEF IInv, Alarms
<1> QED
  BY <1>1, <1>2, <1>3, <1>4, <1>5, <1>6, <1>7 DEF IInv

\* _close: what the other end waits for is on the way at the latest now.
LEMMA CloseStep ==
    ASSUME IInv, NEW e \in Ends, NEW p \in Protocols, Close(e, p), UNCHANGED <<hb, cut>>,
           ~proto[e].done, p.connected = proto[e].connected, p.paused = proto[e].paused,
           p.blind = proto[e].blind, p.alarm => cut \/ p.blind
    PROVE  IInv'
<1> DEFINE o == Other(e)
<1> USE DEF Open, Running
<1>e. o \in Ends /\ o # e /\ Other(o) = e /\ \A f \in Ends : f = e \/ f = o
  BY EndsOther
<1>t. Types
  BY DEF IInv
<1>r. /\ \A f \in Ends : HbRecv(f) \in Nat /\ HbSend(f) = HbRecv(Other(f))
      /\ \A f \in Ends : /\ HbRecv(f)' = HbRecv(f) /\ HbSend(f)' = HbSend(f)
                         /\ WatchdogTime(f)' = WatchdogTime(f) /\ Patience(f)' = Patience(f)
  BY <1>t, Rates, SameRates
<1>p. /\ proto'[o] = proto[o] /\ proto'[e] = [p EXCEPT !.done = TRUE]
      /\ proto' \in [Ends -> Protocols]
  BY <1>t, <1>e DEF Close, Types, Protocols
<1>f. /\ proto'[e].connected = proto[e].connected /\ proto'[e].done
      /\ proto'[e].paused = proto[e].paused /\ proto'[e].blind = proto[e].blind
      /\ proto'[e].alarm => cut \/ proto'[e].blind
  BY <1>p DEF Protocols
<1>w. /\ wire'[e] = {}
      /\ wire'[o] = IF cut THEN wire[o] ELSE wire[o] \cup {[kind |-> "eof", age |-> 0]}
      /\ wire' \in [Ends -> SUBSET Items]
  <2> DEFINE w == Written(wire, e, "eof")
  <2>1. /\ w \in [Ends -> SUBSET Items]
        /\ w[o] = IF cut THEN wire[o] ELSE wire[o] \cup {[kind |-> "eof", age |-> 0]}
    BY <1>t, <1>e, TimesAssumption DEF Written, Types, Items
  <2>2. wire' = [w EXCEPT ![e] = {}]
    BY DEF Close
  <2> QED
    BY <1>e, <2>1, <2>2
<1>1. Types'
  BY <1>t, <1>p, <1>w DEF Types
<1>2. Watched'
  BY <1>e, <1>r, <1>p, <1>f DEF IInv, Watched
<1>3. Handshake'
  <2>1. \A f \in Ends : proto'[f].connected = proto[f].connected
    BY <1>e, <1>p, <1>f
  <2>2. \A f \in Ends : \A x \in wire'[f] : x \in wire[f] \/ x.kind \in {"beat", "eof"}
    BY <1>e, <1>w
  <2> QED
    BY <2>1, <2>2, HandshakeKept DEF IInv
<1>4. Waiting'
  <2>1. \A f \in Ends : Open(f)' => proto'[f] = proto[f]
    BY <1>e, <1>p, <1>f
  <2>2. \A f \in Ends : Open(f)' => Open(f)
    BY <2>1
  <2> QED
    BY <2>1, <2>2 DEF IInv, Waiting, Ends
<1>5. Told'
  <2>1. \A x \in wire'[e] : x.kind = "eof" => ~Open(o)'
    BY <1>w
  <2>2. ~cut' => \E x \in wire'[o] : x.kind = "eof"
    <3>1. ~cut' => [kind |-> "eof", age |-> 0] \in wire'[o]
      BY <1>w
    <3> QED
      BY <3>1
  <2> QED
    BY <1>e, <1>f, <2>1, <2>2 DEF Told
<1>6. Beating'
  <2>1. Running(o)' /\ HbSend(o)' # 0 => proto'[o].beat \in 0..HbSend(o)'
    BY <1>e, <1>r, <1>p DEF IInv, Beating
  <2>2. ASSUME Running(o)', HbRecv(o)' # 0, ~cut', ~proto'[o].blind
        PROVE  \E x \in wire'[o] : proto'[o].quiet <= Patience(o)' + x.age
    <3>1. \/ proto[o].quiet <= Patience(o)
          \/ \E x \in wire[o] : proto[o].quiet <= Patience(o) + x.age
      BY <1>e, <1>r, <1>p, <2>2, QuietBound
    <3>2. [kind |-> "eof", age |-> 0] \in wire'[o] /\ wire[o] \subseteq wire'[o]
      BY <1>w, <2>2
    <3>3. Patience(o) \in Nat
      BY <1>e, <1>r, TimesAssumption DEF Patience
    <3> QED
      BY <1>e, <1>r, <1>p, <3>1, <3>2, <3>3
  <2> QED
    BY <1>e, <1>f, <2>1, <2>2 DEF Beating, Coming
<1>7. Alarms'
  BY <1>e, <1>p, <1>f DEF IInv, Alarms
<1> QED
  BY <1>1, <1>2, <1>3, <1>4, <1>5, <1>6, <1>7 DEF IInv

LEMMA DetectConnectedTimeoutStep ==
    ASSUME IInv, NEW e \in Ends, DetectConnectedTimeout(e)
    PROVE  IInv'
<1> DEFINE p == [proto[e] EXCEPT !.timeout = Off]
<1>1. proto[e] \in Protocols
  BY DEF IInv, Types
<1>2. /\ p \in Protocols /\ p.connected = proto[e].connected /\ p.done = proto[e].done
      /\ p.beat = proto[e].beat /\ p.wake = proto[e].wake /\ p.quiet = proto[e].quiet
      /\ p.paused = proto[e].paused /\ p.blind = proto[e].blind /\ p.alarm = proto[e].alarm
  BY <1>1 DEF Protocols, Off
<1>3. /\ ~proto[e].done /\ UNCHANGED <<hb, cut>>
      /\ \/ p.connected /\ proto' = [proto EXCEPT ![e] = p] /\ wire' = wire
         \/ Close(e, p)
  BY <1>2 DEF DetectConnectedTimeout
<1>4. (proto[e].paused => proto[e].blind) /\ (proto[e].alarm => cut \/ proto[e].blind)
  BY DEF IInv, Alarms
<1> HIDE DEF p
<1>5. CASE p.connected /\ proto' = [proto EXCEPT ![e] = p] /\ wire' = wire
  BY <1>2, <1>3, <1>4, <1>5, QuietStep
<1>6. CASE Close(e, p)
  BY <1>2, <1>3, <1>4, <1>6, CloseStep
<1> QED
  BY <1>3, <1>5, <1>6

LEMMA CheckAlivenessStep ==
    ASSUME IInv, NEW e \in Ends, CheckAliveness(e)
    PROVE  IInv'
<1> DEFINE p == [proto[e] EXCEPT !.wake = HbSendMin]
           q == [p EXCEPT !.alarm = TRUE]
<1>1. proto[e] \in Protocols
  BY DEF IInv, Types
<1>2. /\ p \in Protocols /\ p.connected = proto[e].connected /\ p.done = proto[e].done
      /\ p.beat = proto[e].beat /\ p.timeout = proto[e].timeout /\ p.wake = HbSendMin
      /\ p.quiet = proto[e].quiet /\ p.paused = proto[e].paused
      /\ p.blind = proto[e].blind /\ p.alarm = proto[e].alarm
  BY <1>1, TimesAssumption DEF Protocols
<1>3. /\ q \in Protocols /\ q.connected = proto[e].connected
      /\ q.paused = proto[e].paused /\ q.blind = proto[e].blind
  <2> HIDE DEF p
  <2> QED
    BY <1>2 DEF Protocols
<1>4. /\ ~proto[e].done /\ proto[e].wake = 0 /\ UNCHANGED <<hb, cut>>
      /\ \/ /\ ~(proto[e].quiet > WatchdogTime(e))
            /\ proto' = [proto EXCEPT ![e] = p] /\ wire' = wire
         \/ proto[e].quiet > WatchdogTime(e) /\ Close(e, q)
  BY <1>2 DEF CheckAliveness
<1>5. proto[e].connected /\ HbRecv(e) # 0 /\ HbRecv(e) \in Nat
  BY <1>4, Rates DEF IInv, Watched, Open, Off
<1>6. proto[e].paused => proto[e].blind
  BY DEF IInv, Alarms
<1> HIDE DEF p, q
<1>7. CASE /\ ~(proto[e].quiet > WatchdogTime(e))
           /\ proto' = [proto EXCEPT ![e] = p] /\ wire' = wire
  <2>1. p.wake \in 0..HbSendMin /\ p.quiet + p.wake <= WatchdogTime(e) + HbSendMin
    BY <1>1, <1>2, <1>5, <1>7, TimesAssumption DEF WatchdogTime, Protocols
  <2> QED
    BY <1>2, <1>4, <1>5, <1>6, <1>7, <2>1, QuietStep
<1>8. CASE proto[e].quiet > WatchdogTime(e) /\ Close(e, q)
  <2>1. cut \/ proto[e].blind
    <3> SUFFICES ASSUME ~cut, ~proto[e].blind
                 PROVE  FALSE
      OBVIOUS
    <3>1. \/ proto[e].quiet <= Patience(e)
          \/ \E x \in wire[e] : proto[e].quiet <= Patience(e) + x.age
      BY <1>4, <1>5, QuietBound DEF Running
    <3>2. \A x \in wire[e] : x.age \in 0..MaxNetworkDelay
      BY DEF IInv, Types, Items
    <3> QED
      BY <1>1, <1>5, <1>8, <3>1, <3>2, TimesAssumption DEF WatchdogTime, Patience, Protocols
  <2> QED
    BY <1>3, <1>4, <1>8, <2>1, CloseStep
<1> QED
  BY <1>4, <1>7, <1>8

LEMMA PauseReadingStep ==
    ASSUME IInv, NEW e \in Ends, PauseReading(e)
    PROVE  IInv'
<1> DEFINE p == [proto[e] EXCEPT !.paused = TRUE, !.blind = TRUE]
<1>1. proto[e] \in Protocols /\ proto \in [Ends -> Protocols]
  BY DEF IInv, Types
<1>2. /\ p \in Protocols /\ p.connected = proto[e].connected /\ p.done = proto[e].done
      /\ p.beat = proto[e].beat /\ p.timeout = proto[e].timeout /\ p.wake = proto[e].wake
      /\ p.quiet = proto[e].quiet /\ p.blind /\ p.alarm = proto[e].alarm
  BY <1>1 DEF Protocols
<1>3. proto' = [proto EXCEPT ![e] = p] /\ UNCHANGED <<hb, wire, cut>> /\ ~proto[e].done
  BY <1>1 DEF PauseReading, Protocols
<1> HIDE DEF p
<1> QED
  BY <1>2, <1>3, QuietStep

LEMMA ResumeReadingStep ==
    ASSUME IInv, NEW e \in Ends, ResumeReading(e)
    PROVE  IInv'
<1> DEFINE p == [proto[e] EXCEPT !.paused = FALSE]
<1>1. proto[e] \in Protocols /\ proto \in [Ends -> Protocols]
  BY DEF IInv, Types
<1>2. /\ p \in Protocols /\ p.connected = proto[e].connected /\ p.done = proto[e].done
      /\ p.beat = proto[e].beat /\ p.timeout = proto[e].timeout /\ p.wake = proto[e].wake
      /\ p.quiet = proto[e].quiet /\ ~p.paused /\ p.alarm = proto[e].alarm
      /\ p.blind = proto[e].blind
  BY <1>1 DEF Protocols
<1>3. proto' = [proto EXCEPT ![e] = p] /\ UNCHANGED <<hb, wire, cut>> /\ ~proto[e].done
  BY <1>1 DEF ResumeReading, Protocols
<1> HIDE DEF p
<1> QED
  BY <1>2, <1>3, QuietStep

LEMMA CutStep ==
    ASSUME IInv, Cut
    PROVE  IInv'
<1> USE DEF Cut, Open, Running
<1>1. Types'
  BY DEF IInv, Types
<1>2. \A f \in Ends : wire'[f] = {}
  OBVIOUS
<1>3. \A f \in Ends : HbRecv(f)' = HbRecv(f) /\ HbSend(f)' = HbSend(f)
                      /\ WatchdogTime(f)' = WatchdogTime(f)
  BY SameRates
<1>4. Handshake'
  BY <1>2, HandshakeKept DEF IInv
<1> QED
  BY <1>1, <1>2, <1>3, <1>4 DEF IInv, Watched, Waiting, Told, Beating, Alarms

\* The silence at an end is over: what comes next will come in time.
LEMMA SilenceOver ==
    ASSUME IInv, NEW e \in Ends, HbRecv(e) # 0, ~cut, ~proto[e].done,
           NEW x \in wire[e], x.kind # "eof", proto'[e].quiet = 0,
           proto'[Other(e)] = proto[Other(e)], wire[e] \ {x} \subseteq wire'[e],
           UNCHANGED <<hb, cut>>
    PROVE  Coming(e)'
<1> DEFINE o == Other(e)
<1> USE DEF Open, Running
<1>1. o \in Ends /\ Other(o) = e
  BY EndsOther
<1>2. HbSend(o) = HbRecv(e) /\ HbRecv(e) \in Nat /\ Patience(e)' = Patience(e)
  BY <1>1, Rates, SameRates DEF IInv
<1>3. Patience(e) \in Nat /\ HbRecv(e) <= Patience(e)
  BY <1>2, TimesAssumption DEF Patience
<1>4. CASE proto[o].done
  <2>1. PICK y \in wire[e] : y.kind = "eof"
    BY <1>1, <1>4 DEF IInv, Told
  <2>2. y \in wire'[e] /\ y.age \in Nat
    BY <2>1, TimesAssumption DEF IInv, Types, Items
  <2>3. proto'[e].quiet <= Patience(e)' + y.age
    BY <1>2, <1>3, <2>2
  <2> QED
    BY <2>2, <2>3 DEF Coming
<1>5. CASE ~proto[o].done /\ proto[o].connected
  <2>1. proto[o].beat \in 0..HbSend(o)
    BY <1>1, <1>2, <1>5 DEF IInv, Beating
  <2>2. proto'[e].quiet + proto'[o].beat <= Patience(e)'
    BY <1>2, <1>3, <2>1
  <2> QED
    BY <1>5, <2>2 DEF Coming
<1>6. CASE ~proto[o].done /\ ~proto[o].connected
  BY <1>6 DEF Coming
<1> QED
  BY <1>4, <1>5, <1>6

LEMMA BeatReceived ==
    ASSUME IInv, NEW e \in Ends, ~proto[e].done, ~proto[e].paused,
           NEW x \in wire[e], x.kind = "beat",
           proto' = [proto EXCEPT ![e] = [proto[e] EXCEPT !.quiet = 0, !.blind = FALSE]],
           wire' = [wire EXCEPT ![e] = @ \ {x}], UNCHANGED <<hb, cut>>
    PROVE  IInv'
<1> DEFINE o == Other(e)
<1> USE DEF Open, Running
<1>e. o \in Ends /\ o # e /\ Other(o) = e /\ \A f \in Ends : f = e \/ f = o
  BY EndsOther
<1>t. Types
  BY DEF IInv
<1>r. /\ \A f \in Ends : HbRecv(f) \in Nat /\ HbSend(f) = HbRecv(Other(f))
      /\ \A f \in Ends : /\ HbRecv(f)' = HbRecv(f) /\ HbSend(f)' = HbSend(f)
                         /\ WatchdogTime(f)' = WatchdogTime(f) /\ Patience(f)' = Patience(f)
  BY <1>t, Rates, SameRates
<1>p. /\ proto'[o] = proto[o] /\ proto' \in [Ends -> Protocols]
      /\ proto'[e] = [proto[e] EXCEPT !.quiet = 0, !.blind = FALSE]
  BY <1>t, <1>e DEF Types, Protocols
<1>f. /\ proto'[e].connected = proto[e].connected /\ proto'[e].done = proto[e].done
      /\ proto'[e].timeout = proto[e].timeout /\ proto'[e].wake = proto[e].wake
      /\ proto'[e].quiet = 0 /\ proto'[e].paused = proto[e].paused
      /\ proto'[e].alarm = proto[e].alarm /\ proto'[e].beat = proto[e].beat
  BY <1>t, <1>p DEF Types, Protocols
<1>w. /\ wire'[e] = wire[e] \ {x} /\ wire'[o] = wire[o]
      /\ wire' \in [Ends -> SUBSET Items]
  BY <1>t, <1>e DEF Types
<1>g. \A f \in Ends : /\ proto'[f].connected = proto[f].connected
                      /\ proto'[f].done = proto[f].done
                      /\ proto'[f].timeout = proto[f].timeout
                      /\ proto'[f].beat = proto[f].beat /\ proto'[f].wake = proto[f].wake
                      /\ proto'[f].quiet = 0 \/ proto'[f].quiet = proto[f].quiet
                      /\ wire'[f] \subseteq wire[f]
  BY <1>e, <1>p, <1>f, <1>w
<1>n. \A f \in Ends : proto[f].quiet \in Nat
  BY <1>t DEF Types, Protocols
<1>1. Types'
  BY <1>t, <1>p, <1>w DEF Types
<1>2. Watched'
  <2> SUFFICES ASSUME NEW f \in Ends
               PROVE  /\ Open(f)' /\ proto'[f].wake # Off => proto'[f].connected /\ HbRecv(f)' # 0
                      /\ Running(f)' /\ HbRecv(f)' # 0 =>
                            /\ proto'[f].wake \in 0..HbSendMin
                            /\ proto'[f].quiet + proto'[f].wake <= WatchdogTime(f)' + HbSendMin
    BY DEF Watched
  <2>1. proto'[f].quiet \in Nat /\ proto'[f].quiet <= proto[f].quiet /\ WatchdogTime(f) \in Nat
    BY <1>n, <1>r, <1>g, TimesAssumption DEF WatchdogTime
  <2> QED
    BY <1>n, <1>r, <1>g, <2>1, TimesAssumption DEF IInv, Watched
<1>3. Handshake'
  BY <1>g, HandshakeKept DEF IInv
<1>4. Waiting'
  BY <1>n, <1>g, TimesAssumption DEF IInv, Waiting, Ends
<1>5. Told'
  BY <1>e, <1>g, <1>w DEF IInv, Told
<1>6. Beating'
  <2>1. Running(e)' /\ HbRecv(e)' # 0 /\ ~cut' => Coming(e)'
    BY <1>r, <1>p, <1>f, <1>w, SilenceOver
  <2>2. Coming(o) => Coming(o)'
    BY <1>e, <1>r, <1>p, <1>g, <1>w DEF Coming
  <2> QED
    BY <1>e, <1>r, <1>p, <1>g, <2>1, <2>2 DEF IInv, Beating
<1>7. Alarms'
  BY <1>e, <1>p, <1>f DEF IInv, Alarms
<1> QED
  BY <1>1, <1>2, <1>3, <1>4, <1>5, <1>6, <1>7 DEF IInv

\* The end of the stream comes from an end that is done.
LEMMA EofReceived ==
    ASSUME IInv, NEW e \in Ends, ~proto[e].done,
           NEW x \in wire[e], x.kind = "eof",
           proto' = [proto EXCEPT ![e] = [proto[e] EXCEPT !.done = TRUE]],
           wire' = [wire EXCEPT ![e] = @ \ {x}], UNCHANGED <<hb, cut>>
    PROVE  IInv'
<1> DEFINE o == Other(e)
<1> USE DEF Open, Running
<1>e. o \in Ends /\ o # e /\ Other(o) = e /\ \A f \in Ends : f = e \/ f = o
  BY EndsOther
<1>t. Types
  BY DEF IInv
<1>d. proto[o].done
  BY <1>e DEF IInv, Told
<1>p. /\ proto'[o] = proto[o] /\ proto' \in [Ends -> Protocols]
      /\ proto'[e] = [proto[e] EXCEPT !.done = TRUE]
  BY <1>t, <1>e DEF Types, Protocols
<1>f. /\ proto'[e].connected = proto[e].connected /\ proto'[e].done
      /\ proto'[e].paused = proto[e].paused /\ proto'[e].blind = proto[e].blind
      /\ proto'[e].alarm = proto[e].alarm
  BY <1>t, <1>p DEF Types, Protocols
<1>w. /\ \A f \in Ends : wire'[f] \subseteq wire[f]
      /\ wire' \in [Ends -> SUBSET Items]
  BY <1>t, <1>e DEF Types
<1>g. \A f \in Ends : proto'[f].done /\ proto'[f].connected = proto[f].connected
  BY <1>e, <1>d, <1>p, <1>f
<1>1. Types'
  BY <1>t, <1>p, <1>w DEF Types
<1>2. Watched' /\ Waiting' /\ Beating'
  BY <1>g DEF Watched, Waiting, Beating, Ends
<1>3. Handshake'
  BY <1>g, <1>w, HandshakeKept DEF IInv
<1>4. Told'
  BY <1>e, <1>g DEF Told
<1>5. Alarms'
  BY <1>e, <1>d, <1>p, <1>f DEF IInv, Alarms
<1> QED
  BY <1>1, <1>2, <1>3, <1>4, <1>5 DEF IInv

LEMMA ConnectFields ==
    ASSUME Types, NEW e \in Ends, NEW p \in Protocols, p.timeout \in 0..MaxNetworkDelay
    PROVE  LET q == Connect(e, p)
               elapsed == IF e = "server" THEN 0 ELSE MaxNetworkDelay - p.timeout
           IN /\ q \in Protocols /\ q.connected
              /\ q.done = p.done /\ q.timeout = p.timeout /\ q.quiet = p.quiet
              /\ q.paused = p.paused /\ q.blind = p.blind /\ q.alarm = p.alarm
              /\ HbSend(e) # 0 => q.beat = Larger(0, HbSend(e) - elapsed)
              /\ q.wake = IF HbRecv(e) = 0 THEN Off ELSE HbSendMin
<1> DEFINE elapsed == IF e = "server" THEN 0 ELSE MaxNetworkDelay - p.timeout
           b == IF HbSend(e) = 0 THEN Off ELSE Larger(0, HbSend(e) - elapsed)
           w == IF HbRecv(e) = 0 THEN Off ELSE HbSendMin
<1>1. HbSend(e) \in Nat
  BY Rates, EndsOther
<1>2. b \in Int /\ w \in Int
  BY <1>1, TimesAssumption DEF Larger, Off
<1>3. Connect(e, p) = [p EXCEPT !.connected = TRUE, !.beat = b, !.wake = w]
  BY DEF Connect
<1>4. /\ HbSend(e) # 0 => b = Larger(0, HbSend(e) - elapsed)
      /\ w = IF HbRecv(e) = 0 THEN Off ELSE HbSendMin
  OBVIOUS
<1> HIDE DEF b, w
<1>5. [p EXCEPT !.connected = TRUE, !.beat = b, !.wake = w] \in Protocols
  BY <1>2 DEF Protocols
<1> QED
  BY <1>2, <1>3, <1>4, <1>5 DEF Protocols

\* _received_connected_command of the client: the silence that the server has
\* seen so far was counted off the first heart-beat.
LEMMA ConnectedReceived ==
    ASSUME IInv, NEW e \in Ends, ~proto[e].done, ~proto[e].paused,
           NEW x \in wire[e], x.kind = "CONNECTED",
           proto' = [proto EXCEPT ![e] =
                        Connect(e, [proto[e] EXCEPT !.quiet = 0, !.blind = FALSE])],
           wire' = [wire EXCEPT ![e] = @ \ {x}], UNCHANGED <<hb, cut>>
    PROVE  IInv'
<1> USE DEF Open, Running
<1>e. /\ e = "client" /\ Other("client") = "server" /\ Other("server") = "client"
      /\ "client" \in Ends /\ "server" \in Ends /\ \A f \in Ends : f \in {"client", "server"}
  BY DEF IInv, Handshake, Ends, Other
<1>t. Types
  BY DEF IInv
<1>r. /\ \A f \in Ends : HbRecv(f) \in Nat /\ HbSend(f) = HbRecv(Other(f))
      /\ \A f \in Ends : HbRecv(f) # 0 => MaxNetworkDelay <= Patience(f)
      /\ \A f \in Ends : /\ HbRecv(f)' = HbRecv(f) /\ HbSend(f)' = HbSend(f)
                         /\ WatchdogTime(f)' = WatchdogTime(f) /\ Patience(f)' = Patience(f)
  BY <1>t, Rates, SameRates
<1>h. /\ proto["server"].connected /\ ~proto["client"].connected
      /\ \A y \in wire["client"] : y.kind = "CONNECTED" => y = x
  BY <1>e DEF IInv, Handshake
<1>m. proto["client"].timeout \in 0..MaxNetworkDelay
  BY <1>e, <1>h DEF IInv, Waiting
<1> DEFINE elapsed == MaxNetworkDelay - proto["client"].timeout
           p == [proto["client"] EXCEPT !.quiet = 0, !.blind = FALSE]
<1>l. elapsed \in 0..MaxNetworkDelay
  BY <1>m, TimesAssumption
<1>q. /\ p \in Protocols /\ p.timeout = proto["client"].timeout
      /\ p.done = proto["client"].done /\ p.paused = proto["client"].paused
      /\ p.quiet = 0 /\ p.alarm = proto["client"].alarm
  <2>1. proto["client"] \in Protocols
    BY <1>t, <1>e DEF Types
  <2> QED
    BY <2>1 DEF Protocols
<1>p. /\ proto'["server"] = proto["server"] /\ proto'["client"] = Connect("client", p)
  BY <1>t, <1>e DEF Types
<1> HIDE DEF p
<1>f. /\ proto'["client"] \in Protocols
      /\ proto'["client"].connected /\ ~proto'["client"].done /\ ~proto'["client"].paused
      /\ proto'["client"].quiet = 0 /\ proto'["client"].alarm = proto["client"].alarm
      /\ HbSend("client") # 0 => proto'["client"].beat = Larger(0, HbSend("client") - elapsed)
      /\ proto'["client"].wake = IF HbRecv("client") = 0 THEN Off ELSE HbSendMin
  <2>1. "client" # "server" /\ p.timeout \in 0..MaxNetworkDelay
    BY <1>m, <1>q
  <2> QED
    BY <1>t, <1>e, <1>p, <1>q, <2>1, ConnectFields
<1>w. /\ wire'["client"] = wire["client"] \ {x} /\ wire'["server"] = wire["server"]
      /\ wire' \in [Ends -> SUBSET Items]
  BY <1>t, <1>e DEF Types
<1>1. Types'
  <2>1. proto' \in [Ends -> Protocols]
    BY <1>t, <1>e, <1>p, <1>f DEF Types
  <2> QED
    BY <1>t, <1>w, <2>1 DEF Types
<1>2. Watched'
  <2>1. HbRecv("client")' # 0 =>
           /\ proto'["client"].wake \in 0..HbSendMin
           /\ proto'["client"].quiet + proto'["client"].wake
                 <= WatchdogTime("client")' + HbSendMin
    BY <1>e, <1>r, <1>f, TimesAssumption DEF WatchdogTime
  <2> QED
    BY <1>e, <1>r, <1>p, <1>f, <2>1, ZenonT(60) DEF IInv, Watched
<1>3. Handshake'
  BY <1>h, <1>p, <1>f, <1>w DEF IInv, Handshake
<1>4. Waiting'
  BY <1>e, <1>h, <1>p, <1>f DEF IInv, Waiting
<1>5. Told'
  <2>1. \A y \in wire'["client"] : y.kind = "eof" => ~Open("server")'
    BY <1>e, <1>p, <1>w DEF IInv, Told
  <2>2. \A y \in wire'["server"] : y.kind = "eof" => ~Open("client")'
    BY <1>e, <1>w DEF IInv, Told
  <2>3. ~cut' /\ ~Open("server")' => \E y \in wire'["client"] : y.kind = "eof"
    BY <1>e, <1>p, <1>w DEF IInv, Told
  <2> QED
    BY <1>e, <1>f, <2>1, <2>2, <2>3 DEF Told
<1>6. Beating'
  <2>1. HbSend("client")' # 0 => proto'["client"].beat \in 0..HbSend("client")'
    BY <1>e, <1>r, <1>l, <1>f DEF Larger
  <2>2. Running("server")' /\ HbSend("server")' # 0 =>
           proto'["server"].beat \in 0..HbSend("server")'
    BY <1>e, <1>r, <1>p DEF IInv, Beating
  <2>3. HbRecv("client")' # 0 /\ ~cut' => Coming("client")'
    BY <1>e, <1>r, <1>p, <1>f, <1>w, SilenceOver
  <2>4. ASSUME Running("server")', HbRecv("server")' # 0
        PROVE  Coming("server")'
    <3>1. proto["server"].quiet <= elapsed /\ proto["server"].quiet \in Nat
      BY <1>t, <1>e, <1>h, <1>p, <2>4 DEF IInv, Waiting, Types, Protocols
    <3>2. proto'["client"].beat = Larger(0, HbRecv("server") - elapsed)
      BY <1>e, <1>r, <1>f, <2>4
    <3>3. MaxNetworkDelay <= Patience("server") /\ HbRecv("server") <= Patience("server")
      BY <1>e, <1>r, <2>4, TimesAssumption DEF Patience
    <3>4. proto["server"].quiet + proto'["client"].beat <= Patience("server")
      BY <1>e, <1>r, <1>l, <3>1, <3>2, <3>3, TimesAssumption DEF Larger, Patience
    <3> QED
      BY <1>e, <1>r, <1>p, <1>f, <3>4 DEF Coming
  <2> QED
    BY <1>e, <1>f, <2>1, <2>2, <2>3, <2>4 DEF Beating
<1>7. Alarms'
  BY <1>e, <1>p, <1>f DEF IInv, Alarms
<1> QED
  BY <1>1, <1>2, <1>3, <1>4, <1>5, <1>6, <1>7 DEF IInv

\* _received_connect_command of the server.
LEMMA StompReceived ==
    ASSUME IInv, NEW e \in Ends, ~proto[e].done, ~proto[e].paused,
           NEW x \in wire[e], x.kind = "STOMP",
           proto' = [proto EXCEPT ![e] =
                        Connect(e, [proto[e] EXCEPT !.quiet = 0, !.blind = FALSE])],
           wire' = Written([wire EXCEPT ![e] = @ \ {x}], e, "CONNECTED"),
           UNCHANGED <<hb, cut>>
    PROVE  IInv'
<1> USE DEF Open, Running
<1>e. /\ e = "server" /\ Other("client") = "server" /\ Other("server") = "client"
      /\ "client" \in Ends /\ "server" \in Ends /\ \A f \in Ends : f \in {"client", "server"}
  BY DEF IInv, Handshake, Ends, Other
<1>t. Types
  BY DEF IInv
<1>r. /\ \A f \in Ends : HbRecv(f) \in Nat /\ HbSend(f) = HbRecv(Other(f))
      /\ \A f \in Ends : /\ HbRecv(f)' = HbRecv(f) /\ HbSend(f)' = HbSend(f)
                         /\ WatchdogTime(f)' = WatchdogTime(f) /\ Patience(f)' = Patience(f)
  BY <1>t, Rates, SameRates
<1>h. /\ ~proto["server"].connected /\ ~proto["client"].connected
      /\ \A y \in wire["server"] : y.kind = "STOMP" => y = x
      /\ \A y \in wire["client"] : y.kind # "CONNECTED"
  BY <1>e DEF IInv, Handshake
<1>m. proto["server"].timeout \in 0..MaxNetworkDelay
  BY <1>e, <1>h DEF IInv, Waiting
<1> DEFINE p == [proto["server"] EXCEPT !.quiet = 0, !.blind = FALSE]
           c == [kind |-> "CONNECTED", age |-> 0]
<1>q. /\ p \in Protocols /\ p.timeout = proto["server"].timeout
      /\ p.done = proto["server"].done /\ p.paused = proto["server"].paused
      /\ p.quiet = 0 /\ p.alarm = proto["server"].alarm
  <2>1. proto["server"] \in Protocols
    BY <1>t, <1>e DEF Types
  <2> QED
    BY <2>1 DEF Protocols
<1>p. /\ proto'["client"] = proto["client"] /\ proto'["server"] = Connect("server", p)
  BY <1>t, <1>e DEF Types
<1> HIDE DEF p
<1>f. /\ proto'["server"] \in Protocols
      /\ proto'["server"].connected /\ ~proto'["server"].done /\ ~proto'["server"].paused
      /\ proto'["server"].quiet = 0 /\ proto'["server"].alarm = proto["server"].alarm
      /\ HbSend("server") # 0 => proto'["server"].beat = Larger(0, HbSend("server") - 0)
      /\ proto'["server"].wake = IF HbRecv("server") = 0 THEN Off ELSE HbSendMin
  <2>1. p.timeout \in 0..MaxNetworkDelay
    BY <1>m, <1>q
  <2> QED
    BY <1>t, <1>e, <1>p, <1>q, <2>1, ConnectFields
<1>w. /\ wire'["server"] = wire["server"] \ {x}
      /\ wire'["client"] = IF cut THEN wire["client"] ELSE wire["client"] \cup {c}
      /\ wire' \in [Ends -> SUBSET Items]
  <2> DEFINE rest == [wire EXCEPT !["server"] = @ \ {x}]
  <2>1. /\ rest \in [Ends -> SUBSET Items] /\ rest["client"] = wire["client"]
        /\ rest["server"] = wire["server"] \ {x}
    BY <1>t, <1>e DEF Types
  <2>2. c \in Items
    BY TimesAssumption DEF Items
  <2>3. wire' = IF cut THEN rest
                ELSE [rest EXCEPT !["client"] = @ \cup {c}]
    BY <1>e DEF Written
  <2> HIDE DEF rest, c
  <2>4. CASE cut
    BY <2>1, <2>3, <2>4
  <2>5. CASE ~cut
    <3>1. wire' = [rest EXCEPT !["client"] = @ \cup {c}]
      BY <2>3, <2>5
    <3>2. wire'["client"] = rest["client"] \cup {c} /\ wire'["server"] = rest["server"]
      BY <1>e, <2>1, <3>1
    <3>3. wire' \in [Ends -> SUBSET Items]
      BY <2>1, <2>2, <3>1
    <3> QED
      BY <2>1, <2>5, <3>2, <3>3
  <2> QED
    BY <2>4, <2>5
<1>1. Types'
  <2>1. proto' \in [Ends -> Protocols]
    BY <1>t, <1>e, <1>p, <1>f DEF Types
  <2> QED
    BY <1>t, <1>w, <2>1 DEF Types
<1>2. Watched'
  <2>1. HbRecv("server")' # 0 =>
           /\ proto'["server"].wake \in 0..HbSendMin
           /\ proto'["server"].quiet + proto'["server"].wake
                 <= WatchdogTime("server")' + HbSendMin
    BY <1>e, <1>r, <1>f, TimesAssumption DEF WatchdogTime
  <2> QED
    BY <1>e, <1>r, <1>p, <1>f, <2>1, ZenonT(60) DEF IInv, Watched
<1>3. Handshake'
  <2>1. \A y \in wire'["server"] : y.kind \notin {"CONNECTED", "STOMP"}
    BY <1>h, <1>w DEF IInv, Handshake
  <2>2. \A y \in wire'["client"] : y.kind # "STOMP" /\ (y.kind = "CONNECTED" => y = c)
    BY <1>h, <1>w DEF IInv, Handshake
  <2> QED
    BY <1>h, <1>p, <1>f, <2>1, <2>2 DEF Handshake
<1>4. Waiting'
  <2>1. Open("client")' => proto'["client"].timeout \in 0..MaxNetworkDelay
    BY <1>e, <1>h, <1>p DEF IInv, Waiting
  <2>2. Open("client")' => proto'["server"].quiet <= MaxNetworkDelay - proto'["client"].timeout
    BY <1>f, <2>1, TimesAssumption
  <2> QED
    BY <1>e, <1>f, <2>1, <2>2 DEF Waiting
<1>5. Told'
  <2>1. \A y \in wire'["server"] : y.kind = "eof" => ~Open("client")'
    BY <1>e, <1>p, <1>w DEF IInv, Told
  <2>2. \A y \in wire'["client"] : y.kind # "eof"
    BY <1>e, <1>w DEF IInv, Told
  <2>3. ~cut' /\ ~Open("client")' => \E y \in wire'["server"] : y.kind = "eof"
    BY <1>e, <1>p, <1>w DEF IInv, Told
  <2> QED
    BY <1>e, <1>f, <2>1, <2>2, <2>3 DEF Told
<1>6. Beating'
  <2>1. HbSend("server")' # 0 => proto'["server"].beat \in 0..HbSend("server")'
    BY <1>e, <1>r, <1>f DEF Larger
  <2>2. HbRecv("server")' # 0 /\ ~cut' => Coming("server")'
    BY <1>e, <1>r, <1>p, <1>f, <1>w, SilenceOver
  <2> QED
    BY <1>e, <1>h, <1>p, <2>1, <2>2 DEF Beating
<1>7. Alarms'
  BY <1>e, <1>p, <1>f DEF IInv, Alarms
<1> QED
  BY <1>1, <1>2, <1>3, <1>4, <1>5, <1>6, <1>7 DEF IInv

LEMMA DataReceivedStep ==
    ASSUME IInv, NEW e \in Ends, DataReceived(e)
    PROVE  IInv'
<1> DEFINE p == [proto[e] EXCEPT !.quiet = 0, !.blind = FALSE]
           rest(x) == [wire EXCEPT ![e] = @ \ {x}]
<1>1. PICK x \in wire[e] :
         /\ proto' = [proto EXCEPT ![e] =
                         CASE x.kind = "eof" -> [proto[e] EXCEPT !.done = TRUE]
                           [] x.kind = "beat" -> p
                           [] OTHER -> Connect(e, p)]
         /\ wire' = IF x.kind = "STOMP" THEN Written(rest(x), e, "CONNECTED") ELSE rest(x)
  BY DEF DataReceived
<1>2. ~proto[e].done /\ ~proto[e].paused /\ UNCHANGED <<hb, cut>>
  BY DEF DataReceived
<1>3. x.kind \in {"STOMP", "CONNECTED", "beat", "eof"}
  BY DEF IInv, Types, Items
<1>4. CASE x.kind = "eof"
  BY <1>1, <1>2, <1>4, EofReceived
<1>5. CASE x.kind = "beat"
  BY <1>1, <1>2, <1>5, BeatReceived
<1>6. CASE x.kind = "CONNECTED"
  BY <1>1, <1>2, <1>6, ConnectedReceived
<1>7. CASE x.kind = "STOMP"
  BY <1>1, <1>2, <1>7, StompReceived
<1> QED
  BY <1>3, <1>4, <1>5, <1>6, <1>7

\* One unit of time: nothing was due, so no timer passes 0 and nothing that an
\* end waits for, and reads, gets too old.
LEMMA TickStep ==
    ASSUME IInv, Tick
    PROVE  IInv'
<1> USE DEF Open, Running
<1> DEFINE older(x) == [x EXCEPT !.age = Older(@, MaxNetworkDelay)]
<1>e. /\ "client" \in Ends /\ "server" \in Ends /\ Other("client") = "server"
      /\ Other("server") = "client" /\ \A f \in Ends : Other(f) \in Ends
  BY DEF Ends, Other
<1>t. Types
  BY DEF IInv
<1>u. UNCHANGED <<hb, cut>>
  BY DEF Tick
<1>r. /\ \A f \in Ends : HbRecv(f) \in Nat /\ HbSend(f) \in Nat /\ HbSend(f) = HbRecv(Other(f))
      /\ \A f \in Ends : /\ HbRecv(f)' = HbRecv(f) /\ HbSend(f)' = HbSend(f)
                         /\ WatchdogTime(f)' = WatchdogTime(f) /\ Patience(f)' = Patience(f)
  BY <1>t, <1>e, <1>u, Rates, SameRates
<1>n. \A f \in Ends : /\ proto[f] \in Protocols /\ proto[f].quiet \in Nat
                      /\ proto[f].timeout \in Int /\ proto[f].beat \in Int
                      /\ proto[f].wake \in Int
  BY <1>t DEF Types, Protocols
<1>d. \A f \in Ends : Open(f) =>
         /\ proto[f].timeout # 0 /\ proto[f].beat # 0 /\ proto[f].wake # 0
         /\ ~proto[f].paused => \A x \in wire[f] : x.age # MaxNetworkDelay
  BY DEF Tick, Due
<1>p. ASSUME NEW f \in Ends
      PROVE  /\ proto'[f] \in Protocols
             /\ proto'[f].connected = proto[f].connected /\ proto'[f].done = proto[f].done
             /\ proto'[f].paused = proto[f].paused /\ proto'[f].blind = proto[f].blind
             /\ proto'[f].alarm = proto[f].alarm
             /\ proto'[f].quiet \in Nat
             /\ Open(f) => /\ proto'[f].timeout = Later(proto[f].timeout)
                           /\ proto'[f].beat = Later(proto[f].beat)
                           /\ proto'[f].wake = Later(proto[f].wake)
                           /\ proto'[f].quiet <= proto[f].quiet + 1
  <2>1. CASE proto[f].done
    BY <1>n, <2>1 DEF Tick
  <2>2. CASE ~proto[f].done
    <3> DEFINE t == Later(proto[f].timeout)
               b == Later(proto[f].beat)
               w == Later(proto[f].wake)
               q == Older(proto[f].quiet, LongTime)
    <3>1. proto'[f] = [proto[f] EXCEPT !.timeout = t, !.beat = b, !.wake = w, !.quiet = q]
      BY <2>2 DEF Tick
    <3>2. t \in Int /\ b \in Int /\ w \in Int /\ q \in Nat /\ q <= proto[f].quiet + 1
      BY <1>n, TimesAssumption DEF Later, Older, Smaller, Off
    <3> HIDE DEF t, b, w, q
    <3>3. proto'[f] \in Protocols
      BY <1>n, <3>1, <3>2 DEF Protocols
    <3>4. /\ proto'[f].connected = proto[f].connected /\ proto'[f].done = proto[f].done
          /\ proto'[f].paused = proto[f].paused /\ proto'[f].blind = proto[f].blind
          /\ proto'[f].alarm = proto[f].alarm /\ proto'[f].timeout = t
          /\ proto'[f].beat = b /\ proto'[f].wake = w /\ proto'[f].quiet = q
      BY <1>n, <3>1 DEF Protocols
    <3> QED
      BY <3>2, <3>3, <3>4 DEF t, b, w
  <2> QED
    BY <2>1, <2>2
<1>o. ASSUME NEW f \in Ends, NEW x \in wire[f]
      PROVE  /\ older(x) \in Items /\ older(x) \in wire'[f] /\ older(x).kind = x.kind
             /\ x.age # MaxNetworkDelay => older(x).age = x.age + 1
  <2>1. x \in Items /\ wire'[f] = {older(y) : y \in wire[f]}
    BY <1>t DEF Tick, Types
  <2> QED
    BY <2>1, TimesAssumption DEF Older, Smaller, Items
<1>w. ASSUME NEW f \in Ends, NEW y \in wire'[f]
      PROVE  \E x \in wire[f] : y = older(x) /\ y.kind = x.kind
  <2>1. \E x \in wire[f] : y = older(x)
    BY DEF Tick
  <2> QED
    BY <1>o, <2>1
<1> HIDE DEF older
<1>1. Types'
  <2>1. proto' \in [Ends -> Protocols]
    BY <1>p DEF Tick
  <2>2. wire' \in [Ends -> SUBSET Items]
    <3>1. \A f \in Ends : wire'[f] \subseteq Items
      BY <1>o, <1>w
    <3> QED
      BY <3>1 DEF Tick
  <2> QED
    BY <1>t, <1>u, <2>1, <2>2 DEF Types
<1>2. Watched'
  <2> SUFFICES ASSUME NEW f \in Ends, Open(f)'
               PROVE  /\ proto'[f].wake # Off => proto'[f].connected /\ HbRecv(f)' # 0
                      /\ Running(f)' /\ HbRecv(f)' # 0 =>
                            /\ proto'[f].wake \in 0..HbSendMin
                            /\ proto'[f].quiet + proto'[f].wake <= WatchdogTime(f)' + HbSendMin
    BY DEF Watched
  <2>1. Open(f) /\ proto'[f].wake = Later(proto[f].wake) /\ proto[f].wake # 0
    BY <1>p, <1>d
  <2>2. proto'[f].wake # Off => proto'[f].connected /\ HbRecv(f)' # 0
    BY <1>p, <1>r, <2>1 DEF IInv, Watched, Later
  <2>3. ASSUME Running(f)', HbRecv(f)' # 0
        PROVE  /\ proto'[f].wake \in 0..HbSendMin
               /\ proto'[f].quiet + proto'[f].wake <= WatchdogTime(f)' + HbSendMin
    <3>1. /\ proto[f].wake \in 0..HbSendMin
          /\ proto[f].quiet + proto[f].wake <= WatchdogTime(f) + HbSendMin
      BY <1>p, <1>r, <2>3 DEF IInv, Watched
    <3>2. proto'[f].wake = proto[f].wake - 1
      BY <2>1, <3>1, TimesAssumption DEF Later, Off
    <3>3. WatchdogTime(f) \in Nat
      BY <1>r, TimesAssumption DEF WatchdogTime
    <3> QED
      BY <1>n, <1>p, <1>r, <2>1, <3>1, <3>2, <3>3, TimesAssumption
  <2> QED
    BY <2>2, <2>3
<1>3. Handshake'
  BY <1>e, <1>p, <1>w DEF IInv, Handshake
<1>4. Waiting'
  <2>1. ASSUME NEW f \in Ends, Open(f)', ~proto'[f].connected
        PROVE  proto[f].timeout \in 1..MaxNetworkDelay /\ proto'[f].timeout = proto[f].timeout - 1
    <3>1. proto[f].timeout \in 0..MaxNetworkDelay /\ proto[f].timeout # 0
      BY <1>p, <1>d, <2>1 DEF IInv, Waiting
    <3> QED
      BY <1>p, <2>1, <3>1, TimesAssumption DEF Later, Off
  <2>2. \A f \in Ends : Open(f)' /\ ~proto'[f].connected => proto'[f].timeout \in 0..MaxNetworkDelay
    BY <2>1, TimesAssumption
  <2>3. ASSUME Open("client")', ~proto'["client"].connected, Running("server")'
        PROVE  proto'["server"].quiet <= MaxNetworkDelay - proto'["client"].timeout
    <3>1. proto["server"].quiet <= MaxNetworkDelay - proto["client"].timeout
      BY <1>e, <1>p, <2>3 DEF IInv, Waiting
    <3>2. proto'["server"].quiet <= proto["server"].quiet + 1 /\ proto'["server"].quiet \in Nat
      BY <1>e, <1>p, <2>3
    <3> QED
      BY <1>e, <1>n, <2>1, <2>3, <3>1, <3>2, TimesAssumption
  <2> QED
    BY <2>2, <2>3 DEF Waiting
<1>5. Told'
  <2> SUFFICES ASSUME NEW f \in Ends
               PROVE  /\ \A y \in wire'[f] : y.kind = "eof" => ~Open(Other(f))'
                      /\ ~cut' /\ Open(f)' /\ ~Open(Other(f))' =>
                            \E y \in wire'[f] : y.kind = "eof"
    BY DEF Told
  <2>1. \A y \in wire'[f] : y.kind = "eof" => ~Open(Other(f))'
    BY <1>e, <1>p, <1>w DEF IInv, Told
  <2>2. ASSUME ~cut', Open(f)', ~Open(Other(f))'
        PROVE  \E y \in wire'[f] : y.kind = "eof"
    <3>1. PICK x \in wire[f] : x.kind = "eof"
      BY <1>e, <1>p, <1>u, <2>2 DEF IInv, Told
    <3> QED
      BY <1>o, <3>1
  <2> QED
    BY <2>1, <2>2
<1>6. Beating'
  <2>1. ASSUME NEW f \in Ends, Running(f)', HbSend(f)' # 0
        PROVE  proto'[f].beat = proto[f].beat - 1 /\ proto'[f].beat \in 0..HbSend(f)'
    <3>1. proto[f].beat \in 0..HbSend(f) /\ proto[f].beat # 0
      BY <1>p, <1>d, <1>r, <2>1 DEF IInv, Beating
    <3> QED
      BY <1>p, <1>r, <2>1, <3>1 DEF Later, Off
  <2>2. ASSUME NEW f \in Ends, Running(f)', HbRecv(f)' # 0, ~cut', ~proto'[f].blind
        PROVE  Coming(f)'
    <3>0. Coming(f) /\ ~proto[f].paused
      BY <1>p, <1>r, <1>u, <2>2 DEF IInv, Beating, Alarms
    <3>q. proto'[f].quiet <= proto[f].quiet + 1 /\ Patience(f) \in Nat /\ Patience(f)' = Patience(f)
      BY <1>p, <1>r, <2>2, TimesAssumption DEF Patience
    <3>1. ASSUME NEW x \in wire[f], proto[f].quiet <= Patience(f) + x.age
          PROVE  \E y \in wire'[f] : proto'[f].quiet <= Patience(f)' + y.age
      <4>1. x.age \in Nat /\ x.age # MaxNetworkDelay
        BY <1>t, <1>p, <1>d, <2>2, <3>0, TimesAssumption DEF Types, Items
      <4>2. older(x) \in wire'[f] /\ older(x).age = x.age + 1
        BY <1>o, <4>1
      <4>3. proto'[f].quiet <= Patience(f)' + older(x).age
        BY <1>n, <1>p, <3>q, <3>1, <4>1, <4>2
      <4> QED
        BY <4>2, <4>3
    <3>2. ASSUME Running(Other(f)), proto[f].quiet + proto[Other(f)].beat <= Patience(f)
          PROVE  Running(Other(f))' /\ proto'[f].quiet + proto'[Other(f)].beat <= Patience(f)'
      <4>1. Running(Other(f))' /\ HbSend(Other(f))' # 0
        BY <1>e, <1>p, <1>r, <2>2, <3>2, EndsOther
      <4>2. proto'[Other(f)].beat = proto[Other(f)].beat - 1
        BY <1>e, <2>1, <4>1
      <4> QED
        BY <1>e, <1>n, <1>p, <3>q, <3>2, <4>1, <4>2
    <3>3. ASSUME Open(Other(f)), ~proto[Other(f)].connected
          PROVE  Open(Other(f))' /\ ~proto'[Other(f)].connected
      BY <1>e, <1>p, <3>3
    <3> QED
      BY <3>0, <3>1, <3>2, <3>3 DEF Coming
  <2> QED
    BY <2>1, <2>2 DEF Beating
<1>7. Alarms'
  BY <1>p, <1>u DEF IInv, Alarms
<1> QED
  BY <1>1, <1>2, <1>3, <1>4, <1>5, <1>6, <1>7 DEF IInv

-----------------------------------------------------------------------------
(* The theorems                                                            *)

LEMMA NextIInv == IInv /\ [Next]_vars => IInv'
<1> SUFFICES ASSUME IInv, [Next]_vars
             PROVE  IInv'
  OBVIOUS
<1>1. ASSUME NEW e \in Ends, DataReceived(e)
      PROVE  IInv'
  BY <1>1, DataReceivedStep
<1>2. ASSUME NEW e \in Ends, DetectConnectedTimeout(e)
      PROVE  IInv'
  BY <1>2, DetectConnectedTimeoutStep
<1>3. ASSUME NEW e \in Ends, SendHeartbeat(e)
      PROVE  IInv'
  BY <1>3, SendHeartbeatStep
<1>4. ASSUME NEW e \in Ends, CheckAliveness(e)
      PROVE  IInv'
  BY <1>4, CheckAlivenessStep
<1>5. ASSUME NEW e \in Ends, PauseReading(e)
      PROVE  IInv'
  BY <1>5, PauseReadingStep
<1>6. ASSUME NEW e \in Ends, ResumeReading(e)
      PROVE  IInv'
  BY <1>6, ResumeReadingStep
<1>7. CASE Cut
  BY <1>7, CutStep
<1>8. CASE Tick
  BY <1>8, TickStep
<1>9. CASE UNCHANGED vars
  BY <1>9 DEF vars, IInv, Types, Watched, Handshake, Waiting, Told, Beating, Alarms,
              Open, Running, Coming, Patience, WatchdogTime, HbRecv, HbSend
<1> QED
  BY <1>1, <1>2, <1>3, <1>4, <1>5, <1>6, <1>7, <1>8, <1>9 DEF Next

\* The invariant: of every pair of ends that _connect configures, with every
\* schedule of the timers, each can tell from its own timers what the other one
\* still has to send.
THEOREM Invariance == Spec => []IInv
BY InitIInv, NextIInv, PTL DEF Spec

\* With any rates that the ends are configured with, any network delay and any
\* phases of the timers, _check_aliveness closes no connection to a peer that
\* lives, unless the end itself had stopped reading.
THEOREM NoFalseAlarmHolds == Spec => []NoFalseAlarm
<1>1. IInv => NoFalseAlarm
  BY DEF IInv, Alarms, NoFalseAlarm
<1> QED
  BY <1>1, Invariance, PTL

\* No connection with heart-beats stays silent for longer than the watchdog
\* allows and one period more.
THEOREM NoticedInTimeHolds == Spec => []NoticedInTime
<1>1. IInv => NoticedInTime
  <2> SUFFICES ASSUME IInv, NEW e \in Ends,
                      proto[e].connected /\ ~proto[e].done /\ HbRecv(e) # 0
               PROVE  proto[e].quiet <= WatchdogTime(e) + HbSendMin
    BY DEF NoticedInTime
  <2>1. /\ proto[e].wake \in 0..HbSendMin
        /\ proto[e].quiet + proto[e].wake <= WatchdogTime(e) + HbSendMin
    BY DEF IInv, Watched, Running
  <2>2. proto[e].quiet \in Nat /\ WatchdogTime(e) \in Nat
    BY Rates, TimesAssumption DEF IInv, Types, Protocols, WatchdogTime
  <2> QED
    BY <2>1, <2>2, TimesAssumption
<1> QED
  BY <1>1, Invariance, PTL

=============================================================================
