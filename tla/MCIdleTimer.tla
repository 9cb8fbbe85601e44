---------------------------- MODULE MCIdleTimer ----------------------------
(* The check of the idle thread and its timers.                            *)
EXTENDS IdleTimer
=============================================================================
