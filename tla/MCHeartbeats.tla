----------------------------- MODULE MCHeartbeats ----------------------------
EXTENDS Heartbeats

\* In units of 5 seconds: the defaults, an end that never sends heart-beats,
\* and one that sends and wants them often.
Config(send_min, recv_desired) == [send_min |-> send_min, recv_desired |-> recv_desired]
MCHbConfigs == {Config(1, 6), Config(0, 6), Config(1, 1)}
=============================================================================
