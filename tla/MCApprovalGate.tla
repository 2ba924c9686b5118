---------------------------- MODULE MCApprovalGate ----------------------------
(* The approval gate for TLC: see the .cfg files for the instances. *)
EXTENDS ApprovalGateProps

CONSTANTS r1, r2, ann, c1, w1, cli, system
=============================================================================
