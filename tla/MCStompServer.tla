---------------------------- MODULE MCStompServer ----------------------------
EXTENDS StompServer
=============================================================================
