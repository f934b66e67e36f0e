--------------------------- MODULE MCStompSession ---------------------------
EXTENDS StompSession
=============================================================================
