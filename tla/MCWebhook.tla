------------------------------ MODULE MCWebhook ------------------------------
(* The server's events for TLC: see the .cfg file for the instance. *)
EXTENDS WebhookProps

CONSTANTS h1, r1, r2, sweeper, s1, u1, u2, none

AllSubscribed == [i \in Ids |-> u1]
===============================================================================
