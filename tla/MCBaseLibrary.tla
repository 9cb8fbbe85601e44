---------------------------- MODULE MCBaseLibrary ----------------------------
(* TLC instance of BaseLibrary: small containers, and one thread that locks  *)
(* for writing.                                                              *)
EXTENDS BaseLibrary, Bitwise

(* The machine's and.                                                        *)
MachineAnd(x, y) == x & y
=============================================================================
