-------------------------- MODULE ApprovalGateProps --------------------------
(***************************************************************************)
(* What the approval gate guarantees.                                      *)
(***************************************************************************)
EXTENDS ApprovalGate

\* p carries the suspended call of r: it has deleted the held row and has not
\* yet succeeded, failed for good or put the row back.
Carries(p, r) ==
    /\ p \in Deciders
    /\ job[p] = r
    /\ pc[p] \in RunPcs
    /\ verdict[p] # "success"

\* The agent's own process still has the call: it is not held yet, or it was
\* let through without approval.
AgentHas(r) == pc[r] \in AgentPcs \cup {"prepare", "call"}

(***************************************************************************)
(* No adapter is called for a request the policy gated unless the request  *)
(* is approved at that moment, whichever handler or command resumed it and *)
(* whatever races it lost: ResumeApproved itself never looks at the        *)
(* approval.                                                               *)
(***************************************************************************)
GatedCallIsApproved ==
    /\ \A p \in Deciders :
          pc[p] \in {"resume"} \cup RunPcs => status[job[p]] = "approved"
    /\ \A r \in Requests : pc[r] \in {"prepare", "call"} => allowed[r]

(***************************************************************************)
(* The downstream call of a request succeeds at most once, although the    *)
(* held row is put back after every retryable failure and any number of    *)
(* approvers, in any number of processes, resume it.                       *)
(***************************************************************************)
SucceedsAtMostOnce == \A r \in Requests : wins[r] <= 1

(***************************************************************************)
(* A suspended call is in one place: with its agent, in the table, with    *)
(* one resuming approver, or spent.                                        *)
(***************************************************************************)
OneOwner ==
    \A r \in Requests :
        /\ AgentHas(r) => ~held[r] /\ wins[r] = 0
        /\ held[r] => wins[r] = 0
        /\ \A p \in Deciders :
              Carries(p, r) => ~held[r] /\ ~AgentHas(r) /\ wins[r] = 0
        /\ \A p, q \in Deciders : Carries(p, r) /\ Carries(q, r) => p = q

(***************************************************************************)
(* The votes and the status tell the same story: no identity votes twice,  *)
(* an approved request has its quorum and no denial, a denied one a        *)
(* denial, and one still pending, or expired, neither. The status a vote   *)
(* leaves is computed from an earlier read, by several processes at once.  *)
(***************************************************************************)
VotesDecideStatus ==
    \A r \in Requests :
        LET denials == {v \in votes[r] : v.decision = "denied"}
        IN  /\ \A v, w \in votes[r] : v.who = w.who => v = w
            /\ status[r] = "denied" <=> denials # {}
            /\ status[r] = "approved" => ApprovedVotes(votes[r]) >= required[r]
            /\ status[r] \in {"pending", "expired"} => ApprovedVotes(votes[r]) < required[r]

(***************************************************************************)
(* A vote that was recorded is never lost, and a decision, once made, is   *)
(* never changed: not by a late sweep, by the other decision racing it, or *)
(* by the runtime cancelling a request it could not hold.                  *)
(***************************************************************************)
DecisionsStand ==
    [][\A r \in Requests :
          /\ votes[r] \subseteq votes'[r]
          /\ status[r] \in Resolved => status'[r] = status[r] /\ votes'[r] = votes[r]]_vars

(***************************************************************************)
(* A request nobody decides in time expires: the worker's sweeps reach it  *)
(* however often agents and approvers race them.                           *)
(***************************************************************************)
StaleRequestsExpire ==
    \A r \in Requests : (status[r] = "pending" /\ past[r]) ~> (status[r] \in Resolved)

(***************************************************************************)
(* The gate implements ActionGate: a request's phase is its status, or     *)
(* whether the policy let it through; it has succeeded when a call did.    *)
(***************************************************************************)
Phase(r) ==
    CASE status[r] # "absent" -> status[r]
      [] status[r] = "absent" /\ allowed[r] -> "allowed"
      [] OTHER -> "undecided"

Abstract == INSTANCE ActionGate WITH
    phase <- [r \in Requests |-> Phase(r)],
    succeeded <- {r \in Requests : wins[r] > 0}

ImplementsActionGate == Abstract!Spec

(***************************************************************************)
(* docs/architecture.md:379 says of an approved request: "On approval:     *)
(* resumes the pipeline from the credential stage". So a request that was  *)
(* approved and is still held is never out of reach: as long as its row    *)
(* exists, somebody is working on it or an approver can still resume it.   *)
(* Past expires_at requirePendingApproval refuses every approver, and no   *)
(* sweep removes the row of an approved request.                           *)
(***************************************************************************)
Resumable(r) ==
    \/ ~past[r]
    \/ \E p \in Procs : pc[p] \notin {"idle", "done"} /\ job[p] = r

ApprovedStaysResumable ==
    \A r \in Requests : status[r] = "approved" /\ held[r] => Resumable(r)

(***************************************************************************)
(* The same line read for the row itself: a held call is deleted to be     *)
(* run, or because its request was denied or expired, never when its       *)
(* request has just been approved.                                         *)
(***************************************************************************)
ApprovedCallIsKept ==
    [][\A r \in Requests :
          held[r] /\ ~held'[r] =>
              \/ status[r] \in {"denied", "expired"}
              \/ \E p \in Deciders : pc[p] = "resume" /\ job[p] = r]_vars
=============================================================================
