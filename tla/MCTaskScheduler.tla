--------------------------- MODULE MCTaskScheduler ---------------------------
(* TLC instances of TaskScheduler: two tasks that may be deleted and       *)
(* constructed again at the same address, callers that signal them, short  *)
(* and blocking threads.                                                   *)
EXTENDS TaskScheduler, TLC

(* Callers are interchangeable.                                            *)
SymmetryCallers == Permutations(Callers)
=============================================================================
