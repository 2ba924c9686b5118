------------------------------ MODULE WebhookProps ------------------------------
(***************************************************************************)
(* What holds of the server's events and subscriptions.                    *)
(***************************************************************************)
EXTENDS WebhookEvents

(***************************************************************************)
(* The shutdown loses no event it has taken on: one that was put in the    *)
(* persistence queue before the sink was told to stop is in the store when *)
(* the cleanup has ended, unless its write failed or the drain deadline    *)
(* passed (serve.go:205-262).  Whatever was inside the sink function at    *)
(* the time, and whether a signal or a failed listener stopped the server. *)
(***************************************************************************)
AcceptedAreStored ==
    phase \in {"close", "exit"} => owed = {}

(***************************************************************************)
(* The deferred cleanups are ordered: when the store is closed the worker  *)
(* that writes events and the one that expires approvals have stopped.     *)
(***************************************************************************)
StoreClosedLast ==
    phase # "down" /\ ~open => Worker("done") /\ At(Sweeper, "idle")

(***************************************************************************)
(* A subscription that no two requests ever worked on at once is the same  *)
(* in the store and in the dispatcher when no request works on it, errors  *)
(* of the store included: what a client was told is what the next process  *)
(* will deliver to (webhook_handlers.go:57-120).                           *)
(***************************************************************************)
SubscriptionsAgree ==
    phase # "down" =>
        \A i \in Ids \ clash : Serving(i) = {} => memory[i] = rows[i]

(***************************************************************************)
(* A server that is told to stop, or cannot listen, exits: no goroutine    *)
(* inside the sink, no full queue and no stuck subscriber holds the        *)
(* cleanup for ever.                                                       *)
(***************************************************************************)
Stopping == signalled \/ phase \notin {"serving", "down"}

ShutdownCompletes == Stopping ~> phase = "down"

(***************************************************************************)
(* EmitForTenant returns, however full the two queues are and even if no   *)
(* delivery worker ever finishes: what it is called from is the request    *)
(* that changed a token, a policy or an approval.                          *)
(***************************************************************************)
EmitReturns == \A e \in Emitters : At(e, "gate") ~> At(e, "idle")
===============================================================================
