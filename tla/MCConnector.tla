------------------------------ MODULE MCConnector ------------------------------
(* A connector for TLC: see the .cfg files for the instances. *)
EXTENDS ConnectorProps

CONSTANTS t1, t2, c1, c2, srv, none
================================================================================
