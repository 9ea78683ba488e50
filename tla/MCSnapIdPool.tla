---------------------------- MODULE MCSnapIdPool ----------------------------
(* SnapIdPool with three identifiers. As in the code, five seconds are more  *)
(* ticks (5 * Freq = 10) than an int has values (IntRange = 8): 5e9 ns and   *)
(* 2^32.                                                                     *)
EXTENDS SnapIdPool
=============================================================================
