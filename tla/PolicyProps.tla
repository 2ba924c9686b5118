------------------------------ MODULE PolicyProps ------------------------------
(***************************************************************************)
(* What holds of the decisions a tenant's policy makes.                    *)
(***************************************************************************)
EXTENDS PolicyCache

(***************************************************************************)
(* policyStoreProbeInterval bounds how stale a decision may be: the        *)
(* document that decides a call was still the stored one less than an      *)
(* interval before the call's evaluation began, whichever slow reader of   *)
(* an older document installed it and whether or not the handler that      *)
(* replaced it has invalidated the cache.                                  *)
(***************************************************************************)
DecidedByRecentPolicy ==
    \A c \in Calls : pc[c] = "evaluate" => last[use[c].doc] > began[c] - Probe

(***************************************************************************)
(* While no document is set, a rule lets no more than max_requests through *)
(* in any window, however many probes and evaluators there were: the       *)
(* windows live in the evaluator, and a probe that finds the document      *)
(* unchanged keeps it.                                                     *)
(***************************************************************************)
LimitHolds ==
    sets = 0 => Cardinality({g \in grants : g.at > now - Window}) <= Max

(***************************************************************************)
(* docs/architecture.md:379 says of an approved request: "On approval:     *)
(* resumes the pipeline from the credential stage".  So a call that was    *)
(* approved is not denied by the very document that asked for approval.    *)
(***************************************************************************)
ApprovedCallsResume ==
    \A c \in Calls : sets = 0 /\ resumed[c] => pc[c] # "denied"
===============================================================================
