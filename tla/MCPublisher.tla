----------------------------- MODULE MCPublisher -----------------------------
EXTENDS Publisher
=============================================================================
