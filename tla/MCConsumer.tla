----------------------------- MODULE MCConsumer -----------------------------
EXTENDS Consumer
=============================================================================
