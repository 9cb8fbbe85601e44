--------------------------- MODULE MCEventDelivery ---------------------------
(* TLC instances of EventDelivery.                                         *)
EXTENDS EventDelivery

CONSTANTS s1, s2

TwoSessions == {s1, s2}
TwoFDs == {3, 4}
=============================================================================
