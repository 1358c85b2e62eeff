-------------------------- MODULE MCSessionRefresh --------------------------
(* Small instances of SessionRefresh.  One unit of time is five seconds.   *)
EXTENDS SessionRefresh, TLC

CONSTANTS r1, r2, r3, i1, i2

Symmetry == Permutations(Requests) \cup Permutations(Instances)

=============================================================================
