----------------------------- MODULE MCAdmission -----------------------------
EXTENDS Admission, TLC

\* Connections, and peers, differ only in their names.
Symmetry == Permutations(Conns) \cup Permutations(Peers)
=============================================================================
