--------------------------- MODULE ReceiptService ---------------------------
(***************************************************************************)
(* What the server side of a connection promises the client: messages are  *)
(* accepted in order, become durable in any order, and a receipt for       *)
(* message k is given only when messages 1 .. k are all durable, never     *)
(* twice, never for an earlier message, and never after the service ended  *)
(* (swpt-stomp.rst, and the docstring of StompServer).                     *)
(***************************************************************************)
EXTENDS Integers

CONSTANT MaxMsgs     \* bound: messages accepted on the connection

VARIABLES
    accepted,    \* messages 1 .. accepted have arrived
    durable,     \* the messages that are safe in a queue of the broker
    receipted,   \* messages 1 .. receipted have been confirmed to the client
    serving      \* the service has not announced its end

vars == <<accepted, durable, receipted, serving>>

Init ==
    /\ accepted = 0
    /\ durable = {}
    /\ receipted = 0
    /\ serving = TRUE

Accept ==
    /\ accepted' \in accepted + 1 .. MaxMsgs
    /\ UNCHANGED <<durable, receipted, serving>>

\* An accepted message may become durable even after the service ended: the
\* client will then send it again.
Store ==
    /\ \E m \in (1 .. accepted) \ durable : durable' = durable \cup {m}
    /\ UNCHANGED <<accepted, receipted, serving>>

Receipt ==
    /\ serving
    /\ \E k \in receipted + 1 .. accepted :
          /\ 1 .. k \subseteq durable
          /\ receipted' = k
    /\ UNCHANGED <<accepted, durable, serving>>

End ==
    /\ serving
    /\ serving' = FALSE
    /\ UNCHANGED <<accepted, durable, receipted>>

Next == Accept \/ Store \/ Receipt \/ End

Spec == Init /\ [][Next]_vars

=============================================================================
