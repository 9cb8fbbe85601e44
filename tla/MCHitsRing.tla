----------------------------- MODULE MCHitsRing -----------------------------
(* TLC instances of HitsRing, with periods of three intervals.             *)
EXTENDS HitsRing

AllFiles == FileKinds

(* The bytes before the array hold no time, or a time and some lists.      *)
MCOutside == {EmptyStat, [start |-> 1, data |-> <<Wild>>]}
=============================================================================
