-------------------------- MODULE MCDriverRuntime --------------------------
(* Small instances of DriverRuntime.  Callers are interchangeable, and so   *)
(* are leases: neither appears in any property by name.                     *)
EXTENDS DriverRuntime, TLC

Symmetry == Permutations(Callers) \cup Permutations(Leases)
=============================================================================
