---------------------------- MODULE AtLeastOnce -----------------------------
(***************************************************************************)
(* What a transfer between two nodes promises: messages leave the queue of *)
(* the sender in their order, each after the receiver has stored it.  One  *)
(* that is still waiting may have been stored, and may be stored again.    *)
(***************************************************************************)
EXTENDS Integers, Sequences

CONSTANT Msgs

VARIABLES
    waiting,    \* the messages that the sender still has, in order
    stored      \* the messages that the receiver has

Init ==
    /\ waiting \in Seq(Msgs)
    /\ stored = {}

Store ==
    /\ \E i \in DOMAIN waiting : stored' = stored \cup {waiting[i]}
    /\ UNCHANGED waiting

Remove ==
    /\ \E n \in DOMAIN waiting :
          /\ \A i \in 1 .. n : waiting[i] \in stored
          /\ waiting' = SubSeq(waiting, n + 1, Len(waiting))
    /\ UNCHANGED stored

vars == <<waiting, stored>>

Spec == Init /\ [][Store \/ Remove]_vars

=============================================================================
