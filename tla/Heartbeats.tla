----------------------------- MODULE Heartbeats ------------------------------
(***************************************************************************)
(* The timers of the two ends of a connection (aio_protocols.py,           *)
(* _BaseStompProtocol): the negotiation of heart-beats in _connect, the    *)
(* heart-beats, the watchdog _check_aliveness and the timeout of the       *)
(* handshake.  Messages and receipts are left out: heart-beats are sent    *)
(* whether or not there are any, and they would only shorten a silence.    *)
(*                                                                         *)
(* Time advances by Tick, one unit for all timers, once everything that is *)
(* due has been done: the event loops run their callbacks in time, and the *)
(* network delivers within MaxNetworkDelay, as the code supposes, until it *)
(* is cut.  A timer is the time that is left, or Off.                      *)
(***************************************************************************)
EXTENDS Integers

CONSTANTS
    HbSendMin,          \* DEFAULT_HB_SEND_MIN: the period of the watchdog
    MaxNetworkDelay,    \* max_network_delay
    HbConfigs,          \* what an end may be given: [send_min, recv_desired]
    LongTime            \* bound: no longer silence is told apart

ASSUME TimesAssumption ==
    /\ HbSendMin \in Nat \ {0} /\ MaxNetworkDelay \in Nat \ {0}
    /\ HbConfigs \subseteq [send_min : Nat, recv_desired : Nat]
    /\ LongTime \in Nat
    /\ \A c \in HbConfigs : \A t \in {c.send_min, c.recv_desired} :
          2 * HbSendMin + MaxNetworkDelay + t < LongTime

\* A round trip is no longer than the watchdog's slack, as with the defaults
\* (10 against 5 + 30 seconds): otherwise the first heart-beat of a client,
\* which waits for CONNECTED, could come too late.
ASSUME RoundTripAssumption ==
    \A c \in HbConfigs : c.recv_desired # 0 => MaxNetworkDelay <= HbSendMin + c.recv_desired

VARIABLES
    hb,       \* hb[e]: _hb_send_min and _hb_recv_desired
    proto,    \* proto[e]: the protocol object
    wire,     \* wire[e]: what is on the way to e, with its age
    cut       \* the network delivers nothing any more

vars == <<hb, proto, wire, cut>>

Ends == {"client", "server"}
Other(e) == IF e = "client" THEN "server" ELSE "client"
Off == -1

Larger(a, b) == IF a > b THEN a ELSE b
Smaller(a, b) == IF a < b THEN a ELSE b

CalcHeartbeat(send_min, recv_desired) ==
    IF send_min = 0 \/ recv_desired = 0 THEN 0 ELSE Larger(send_min, recv_desired)

HbSend(e) == CalcHeartbeat(hb[e].send_min, hb[Other(e)].recv_desired)
HbRecv(e) == CalcHeartbeat(hb[Other(e)].send_min, hb[e].recv_desired)

\* The state after connection_made: the timeout of the handshake runs.  quiet
\* is the time since _data_receved_at; blind and alarm are history: reading was
\* paused since then, the watchdog closed the connection.
NewProtocol ==
    [connected |-> FALSE, done |-> FALSE, timeout |-> MaxNetworkDelay, beat |-> Off,
     wake |-> Off, quiet |-> 0, paused |-> FALSE, blind |-> FALSE, alarm |-> FALSE]

Init ==
    /\ hb \in [Ends -> HbConfigs]
    /\ proto = [e \in Ends |-> NewProtocol]
    /\ wire = [e \in Ends |-> IF e = "server" THEN {[kind |-> "STOMP", age |-> 0]} ELSE {}]
    /\ cut = FALSE

-----------------------------------------------------------------------------
\* The network with what e writes.
Written(w, e, kind) ==
    IF cut THEN w ELSE [w EXCEPT ![Other(e)] = @ \cup {[kind |-> kind, age |-> 0]}]

\* _close: the other end gets the end of the stream.
Close(e, p) ==
    /\ proto' = [proto EXCEPT ![e] = [p EXCEPT !.done = TRUE]]
    /\ wire' = [Written(wire, e, "eof") EXCEPT ![e] = {}]

\* _connect.  The first heart-beat counts from connection_made at the client
\* and, since _received_connect_command sets _connection_started_at, from now
\* at the server.
Connect(e, p) ==
    LET elapsed == IF e = "server" THEN 0 ELSE MaxNetworkDelay - p.timeout
    IN [p EXCEPT !.connected = TRUE,
                 !.beat = IF HbSend(e) = 0 THEN Off ELSE Larger(0, HbSend(e) - elapsed),
                 !.wake = IF HbRecv(e) = 0 THEN Off ELSE HbSendMin]

\* The next of the bytes on the way to e.
First(e, x) ==
    /\ x \in wire[e]
    /\ \A y \in wire[e] : y.age <= x.age
    /\ x.kind = "beat" => \A y \in wire[e] : y.kind \notin {"STOMP", "CONNECTED"}
    /\ x.kind = "eof" => wire[e] = {x}

\* data_received, and connection_lost at the end of the stream
DataReceived(e) ==
    /\ ~proto[e].done /\ ~proto[e].paused
    /\ \E x \in wire[e] :
        LET p    == [proto[e] EXCEPT !.quiet = 0, !.blind = FALSE]
            rest == [wire EXCEPT ![e] = @ \ {x}]
        IN /\ First(e, x)
           /\ proto' = [proto EXCEPT ![e] =
                           CASE x.kind = "eof" -> [proto[e] EXCEPT !.done = TRUE]
                             [] x.kind = "beat" -> p
                             [] OTHER -> Connect(e, p)]
           /\ wire' = IF x.kind = "STOMP" THEN Written(rest, e, "CONNECTED") ELSE rest
    /\ UNCHANGED <<hb, cut>>

DetectConnectedTimeout(e) ==
    LET p == [proto[e] EXCEPT !.timeout = Off]
    IN /\ ~p.done /\ proto[e].timeout = 0
       /\ IF p.connected
          THEN proto' = [proto EXCEPT ![e] = p] /\ UNCHANGED wire
          ELSE Close(e, p)
       /\ UNCHANGED <<hb, cut>>

SendHeartbeat(e) ==
    /\ ~proto[e].done /\ proto[e].beat = 0
    /\ proto' = [proto EXCEPT ![e].beat = HbSend(e)]
    /\ wire' = Written(wire, e, "beat")
    /\ UNCHANGED <<hb, cut>>

\* Mutant: no tolerance for the delay of the network.
WatchdogTimeStrict(e) == HbSendMin + HbRecv(e)

WatchdogTime(e) == HbSendMin + HbRecv(e) + MaxNetworkDelay

\* Mutant: the watchdog looks only once.
CheckAlivenessOnce(e) ==
    LET p == [proto[e] EXCEPT !.wake = Off]
    IN /\ ~p.done /\ proto[e].wake = 0
       /\ IF p.quiet > WatchdogTime(e)
          THEN Close(e, [p EXCEPT !.alarm = TRUE])
          ELSE proto' = [proto EXCEPT ![e] = p] /\ UNCHANGED wire
       /\ UNCHANGED <<hb, cut>>

\* Mutant: the watchdog sleeps for as long as it waits for data.
CheckAlivenessRarely(e) ==
    LET p == [proto[e] EXCEPT !.wake = WatchdogTime(e)]
    IN /\ ~p.done /\ proto[e].wake = 0
       /\ IF p.quiet > WatchdogTime(e)
          THEN Close(e, [p EXCEPT !.alarm = TRUE])
          ELSE proto' = [proto EXCEPT ![e] = p] /\ UNCHANGED wire
       /\ UNCHANGED <<hb, cut>>

CheckAliveness(e) ==
    LET p == [proto[e] EXCEPT !.wake = HbSendMin]
    IN /\ ~p.done /\ proto[e].wake = 0
       /\ IF p.quiet > WatchdogTime(e)
          THEN Close(e, [p EXCEPT !.alarm = TRUE])
          ELSE proto' = [proto EXCEPT ![e] = p] /\ UNCHANGED wire
       /\ UNCHANGED <<hb, cut>>

\* The callbacks of the watermarks of recv_queue.
PauseReading(e) ==
    /\ proto[e].connected /\ ~proto[e].done /\ ~proto[e].paused
    /\ proto' = [proto EXCEPT ![e].paused = TRUE, ![e].blind = TRUE]
    /\ UNCHANGED <<hb, wire, cut>>

ResumeReading(e) ==
    /\ proto[e].paused /\ ~proto[e].done
    /\ proto' = [proto EXCEPT ![e].paused = FALSE]
    /\ UNCHANGED <<hb, wire, cut>>

-----------------------------------------------------------------------------
(* The environment                                                         *)

\* The other host is gone, or the way to it: no end is told.
Cut ==
    /\ ~cut
    /\ cut' = TRUE
    /\ wire' = [e \in Ends |-> {}]
    /\ UNCHANGED <<hb, proto>>

Due(e) ==
    /\ ~proto[e].done
    /\ \/ 0 \in {proto[e].timeout, proto[e].beat, proto[e].wake}
       \/ ~proto[e].paused /\ \E x \in wire[e] : x.age = MaxNetworkDelay

Later(timer) == IF timer = Off THEN Off ELSE timer - 1
Older(age, most) == Smaller(age + 1, most)

\* The ends that are done have no timers.
Tick ==
    /\ \A e \in Ends : ~Due(e)
    /\ \E e \in Ends : ~proto[e].done
    /\ proto' = [e \in Ends |->
                    IF proto[e].done THEN proto[e]
                    ELSE [proto[e] EXCEPT !.timeout = Later(@), !.beat = Later(@),
                                          !.wake = Later(@), !.quiet = Older(@, LongTime)]]
    /\ wire' = [e \in Ends |-> {[x EXCEPT !.age = Older(@, MaxNetworkDelay)] : x \in wire[e]}]
    /\ UNCHANGED <<hb, cut>>

Next ==
    \/ \E e \in Ends : DataReceived(e) \/ DetectConnectedTimeout(e) \/ SendHeartbeat(e)
                       \/ CheckAliveness(e)
                       \/ PauseReading(e) \/ ResumeReading(e)
    \/ Cut
    \/ Tick

Spec == Init /\ [][Next]_vars

\* Time passes, and the loop runs the callbacks that are due.
FairSpec ==
    /\ Spec
    /\ WF_vars(Tick)
    /\ \A e \in Ends : /\ WF_vars(DetectConnectedTimeout(e))
                       /\ WF_vars(SendHeartbeat(e))
                       /\ WF_vars(CheckAliveness(e))

-----------------------------------------------------------------------------
(* Properties                                                              *)

\* The watchdog of _check_aliveness closes the connection to a peer that lives
\* only when the end itself had stopped reading: what the two ends computed
\* apart in _connect fits together, from the first heart-beat on, whatever
\* each was configured with and however the delays vary.
NoFalseAlarm ==
    \A e \in Ends : proto[e].alarm => cut \/ proto[e].blind

\* A connection does not stay open for longer than one period of the watchdog
\* after the time it allows, even while reading is paused.
NoticedInTime ==
    \A e \in Ends : proto[e].connected /\ ~proto[e].done /\ HbRecv(e) # 0 =>
        proto[e].quiet <= WatchdogTime(e) + HbSendMin

\* Once nothing arrives any more both ends come to an end, by the timeout of
\* the handshake or by the watchdog, except one that agreed to no heart-beats.
CutIsNoticed ==
    cut ~> \A e \in Ends : proto[e].done \/ (proto[e].connected /\ HbRecv(e) = 0)

=============================================================================
