---------------------------- MODULE StompSession ----------------------------
(***************************************************************************)
(* One connection: a StompClient and a StompServer of this repository over *)
(* a TCP connection, with the consumer task behind the one and the         *)
(* publisher task behind the other.  TCP delivers what a side wrote in     *)
(* order, up to the moment the network fails; a side that closes its       *)
(* transport still delivers what it wrote before.                          *)
(***************************************************************************)
EXTENDS StompFrames

CONSTANTS
    MaxMsgs     \* bound: messages that the client gets to send

ASSUME SessionAssumption == MaxMsgs \in Nat

VARIABLES
    cConnected, cDone, cLost, cWriter, cLastMsg, cLastRcpt, cSentDisc,
    produced, cEnded, cSendQ, cRecvQ,
    sConnected, sDone, sLost, sWriter, sLastMsg, sLastRcpt, sDiscId,
    sRecvQ, sSendQ, given, sEnded,
    c2s, s2c,    \* what one side wrote and the other has not yet received
    net,         \* "up", or "down" once the network has failed
    calm         \* history: no timer has fired

C == INSTANCE StompClient WITH
        connected <- cConnected, done <- cDone, lost <- cLost, writer <- cWriter,
        lastMsg <- cLastMsg, lastRcpt <- cLastRcpt, sentDisc <- cSentDisc,
        ended <- cEnded, sendQ <- cSendQ, recvQ <- cRecvQ, out <- c2s

S == INSTANCE StompServer WITH
        connected <- sConnected, done <- sDone, lost <- sLost, writer <- sWriter,
        lastMsg <- sLastMsg, lastRcpt <- sLastRcpt, discId <- sDiscId,
        recvQ <- sRecvQ, sendQ <- sSendQ, ended <- sEnded, out <- s2c

clientVars == <<cConnected, cDone, cLost, cWriter, cLastMsg, cLastRcpt, cSentDisc,
                produced, cEnded, cSendQ, cRecvQ>>
serverVars == <<sConnected, sDone, sLost, sWriter, sLastMsg, sLastRcpt, sDiscId,
                sRecvQ, sSendQ, given, sEnded>>
vars == <<clientVars, serverVars, c2s, s2c, net, calm>>

Init == C!Init /\ S!Init /\ net = "up" /\ calm = TRUE

-----------------------------------------------------------------------------

ClientReceives ==
    /\ net = "up" /\ ~cLost /\ s2c # <<>>
    /\ s2c' = Tail(s2c)
    /\ C!DataReceived(Head(s2c))
    /\ UNCHANGED <<serverVars, net, calm>>

ServerReceives ==
    /\ net = "up" /\ ~sLost /\ c2s # <<>>
    /\ c2s' = Tail(c2s)
    /\ S!DataReceived(Head(c2s))
    /\ UNCHANGED <<clientVars, net, calm>>

\* A side's connection is lost after its own close, at the other side's end of
\* file, or when the network fails.
ClientLost ==
    /\ cDone \/ net = "down" \/ (sDone /\ s2c = <<>>)
    /\ C!ConnectionLost
    /\ UNCHANGED <<serverVars, s2c, net, calm>>

ServerLost ==
    /\ sDone \/ net = "down" \/ (cDone /\ c2s = <<>>)
    /\ S!ConnectionLost
    /\ UNCHANGED <<clientVars, c2s, net, calm>>

NetworkFails ==
    /\ net = "up"
    /\ net' = "down"
    /\ UNCHANGED <<clientVars, serverVars, c2s, s2c, calm>>

ClientWrites ==
    /\ C!SendMessage \/ C!CloseGracefully
    /\ UNCHANGED <<serverVars, s2c, net, calm>>

ServerWrites ==
    /\ S!SendReceipt \/ S!CloseGracefully
    /\ UNCHANGED <<clientVars, c2s, net, calm>>

Consumer ==
    /\ C!ConsumerPuts \/ C!ConsumerEnds
    /\ UNCHANGED <<serverVars, s2c, net, calm>>

PublisherConfirms ==
    /\ S!PublisherConfirms
    /\ UNCHANGED <<clientVars, c2s, net, calm>>

PublisherEnds ==
    /\ S!PublisherEnds
    /\ UNCHANGED <<clientVars, c2s, net, calm>>

Timers ==
    /\ calm' = FALSE
    /\ \/ C!TimeoutFires /\ UNCHANGED <<serverVars, s2c>>
       \/ S!ConnectedTimeout /\ UNCHANGED <<clientVars, c2s>>
       \/ S!WatchdogFires /\ UNCHANGED <<clientVars, c2s>>
    /\ UNCHANGED net

Next ==
    \/ ClientReceives \/ ServerReceives
    \/ ClientWrites \/ ServerWrites
    \/ Consumer \/ PublisherConfirms \/ PublisherEnds
    \/ Timers \/ NetworkFails
    \/ ClientLost \/ ServerLost

Spec == Init /\ [][Next]_vars

\* The event loops run what is ready, TCP delivers while the network is up, a
\* lost connection is noticed, and the publisher confirms what it was given.
Fairness ==
    /\ WF_vars(ClientReceives) /\ WF_vars(ServerReceives)
    /\ WF_vars(ClientWrites) /\ WF_vars(ServerWrites)
    /\ WF_vars(ClientLost) /\ WF_vars(ServerLost)
    /\ WF_vars(PublisherConfirms)

FairSpec == Spec /\ Fairness

-----------------------------------------------------------------------------
(* Properties                                                              *)

\* What the client's consumer is told is confirmed was received by the server
\* in order without a gap, and confirmed by the server's publisher.
AcksTruthful ==
    \A i \in DOMAIN cRecvQ : cRecvQ[i] \in 1 .. MaxMsgs =>
        /\ cRecvQ[i] <= given
        /\ \A m \in 1 .. cRecvQ[i] : sRecvQ[m] = m

\* "it is guaranteed that another confirmation will not be received for the
\* given message, or the preceding messages" (StompClient): though the server
\* may write the last RECEIPT twice when DISCONNECT crosses it, recv_queue gets
\* every id at most once, in ascending order, and None as its last item.
AcksAscend ==
    \A i, j \in DOMAIN cRecvQ : i < j =>
        /\ cRecvQ[i] # None
        /\ cRecvQ[j] # None => cRecvQ[i] < cRecvQ[j]

\* The two halves of the repository speak the same protocol: neither ever
\* refuses a frame of the other, apart from the server's ERROR.
NeitherRefuses ==
    /\ c2s # <<>> /\ ~sDone => ~S!Refuses(Head(c2s))
    /\ s2c # <<>> /\ ~cDone /\ C!Refuses(Head(s2c)) => Head(s2c).cmd = "ERROR"

\* A DISCONNECT of the client ends in its close with every message it sent
\* confirmed, unless a timer, the network or the publisher's end interferes.
DisconnectCompletes ==
    cSentDisc ~> \/ cDone /\ cLastRcpt = cLastMsg
                 \/ ~calm \/ net = "down" \/ sEnded

\* When a side closes or a queue ends, both protocols come to put the final None
\* in their recv_queue: neither the consumer nor the publisher is left behind.
SessionEnds == (cDone \/ sDone \/ cEnded \/ sEnded) ~> (cLost /\ sLost)

=============================================================================
