------------------------------ MODULE ActionGate ------------------------------
(***************************************************************************)
(* What the runtime promises of an action call, with no processes, tables  *)
(* or clock readings: a call is let through, or it waits for one human     *)
(* decision; the decision never changes; a call succeeds downstream at     *)
(* most once, and only if it was let through or approved.                  *)
(***************************************************************************)
CONSTANT Requests

VARIABLES
    phase,      \* "undecided", "allowed", "pending" or the final decision
    succeeded   \* the requests whose downstream call succeeded

gate == <<phase, succeeded>>

Phases == {"undecided", "allowed", "pending", "approved", "denied", "expired"}

Init ==
    /\ phase = [r \in Requests |-> "undecided"]
    /\ succeeded = {}

Move(r, from, to) ==
    /\ phase[r] = from
    /\ phase' = [phase EXCEPT ![r] = to]
    /\ UNCHANGED succeeded

Triage(r) == \E to \in {"allowed", "pending"} : Move(r, "undecided", to)

Decide(r) == \E to \in {"approved", "denied", "expired"} : Move(r, "pending", to)

Succeed(r) ==
    /\ phase[r] \in {"allowed", "approved"}
    /\ r \notin succeeded
    /\ succeeded' = succeeded \cup {r}
    /\ UNCHANGED phase

Next == \E r \in Requests : Triage(r) \/ Decide(r) \/ Succeed(r)

Spec == Init /\ [][Next]_gate
=============================================================================
