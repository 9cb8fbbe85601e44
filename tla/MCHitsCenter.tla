---------------------------- MODULE MCHitsCenter ----------------------------
(* TLC instances of HitsCenter: intervals of three sleeps, periods of      *)
(* three intervals.                                                        *)
EXTENDS HitsCenter

MCStartTimes == 21 .. 29
MCSleepTimes == {1, 2}

(* The bytes before the array hold no time, or a time and some lists, of   *)
(* which HitsRing knows that they are from no file.                        *)
MCOutside == {[start |-> 0, data |-> <<>>], [start |-> 1, data |-> <<-1>>]}
=============================================================================
