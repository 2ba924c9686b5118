------------------------------- MODULE MCService -------------------------------
(* The services directory and one server for TLC: see the .cfg files. *)
EXTENDS ServiceProps

CONSTANTS a, b, v1, v2, key1, none, nobody

LenientRequired == {<<"warn", "required">>}
===============================================================================
