------------------------------- MODULE MCPolicy -------------------------------
(* A tenant's policy for TLC: see the .cfg files for the instances. *)
EXTENDS PolicyProps

CONSTANTS k1, k2, k3, open, gated, absent
===============================================================================
