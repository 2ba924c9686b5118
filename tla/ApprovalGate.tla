----------------------------- MODULE ApprovalGate -----------------------------
(***************************************************************************)
(* The approval gate of the action runtime, as every process that touches  *)
(* the approvals and held_executions tables sees it:                       *)
(*                                                                         *)
(*   - one agent call per request, in the pipeline (Runtime.execute);      *)
(*   - REST approvers (handleApprove, handleDeny), each a principal;       *)
(*   - CLI approvers (kimbap approve accept/deny), all voting as "cli",    *)
(*     in processes of their own that share only the database;             *)
(*   - sweepers: the server's expiry worker, and the list handlers, which  *)
(*     sweep before they list.                                             *)
(*                                                                         *)
(* A step is one statement on the database or one call of an adapter, and  *)
(* any process may stop between two steps (Abort): a crash, a cancelled    *)
(* request, a failed statement.                                            *)
(***************************************************************************)
EXTENDS ApprovalStore

CONSTANTS
    Rest,           \* REST approvers; the process and its principal
    Cli,            \* CLI invocations
    Sweepers,       \* expiry sweeps
    CliVoter,       \* "cli", the identity every CLI invocation votes under
    SystemVoter,    \* "system", the identity a failed hold is cancelled under
    MaxAttempts,    \* attempts of a vote before it gives up (8 in the code)
    AuditRequired,  \* an audit write that fails fails the call
    Mortal          \* the processes that may stop between two steps

Deciders == Rest \cup Cli
Runners == Requests \cup Deciders
Procs == Runners \cup Sweepers

ASSUME ProcsAssumption ==
    /\ Requests # {}
    /\ Requests \cap Deciders = {} /\ Rest \cap Cli = {}
    /\ Sweepers \cap Runners = {}
    /\ Rest \cup {CliVoter, SystemVoter} \subseteq Voters
    /\ MaxAttempts \in Nat \ {0}
    /\ AuditRequired \in BOOLEAN
    /\ Mortal \subseteq Procs

VARIABLES
    pc,         \* pc[p]: where process p is
    job,        \* job[p]: the request p works on
    op,         \* op[p]: the decision p is making
    ballot,     \* ballot[p]: what the current vote attempt has read
    verdict,    \* verdict[p]: the result p is about to report
    todo,       \* todo[s]: the expired requests a sweep has listed
    allowed,    \* allowed[r]: the policy let r through without approval
    wins        \* wins[r]: downstream calls for r that succeeded (history)

local == <<job, op, ballot, verdict, todo, allowed, wins>>
vars == <<store, pc, local>>

AgentPcs == {"new", "submit", "hold"}
VotePcs == {"vote_now", "vote_read", "vote_write"}
DecidePcs == {"lookup", "expire", "refresh", "remove", "reload", "resume"}
RunPcs == {"recheck", "prepare", "call", "finalize", "rehold"}
SweepPcs == {"sweep", "sweep_remove"}
Pcs == {"idle", "done"} \cup AgentPcs \cup VotePcs \cup DecidePcs \cup RunPcs \cup SweepPcs

Failures == {"fatal", "retryable"}      \* ExecutionError.Retryable
Verdicts == {"none", "held", "success"} \cup Failures
NewBallot(n) == [late |-> FALSE, seen |-> {}, tries |-> n]   \* after n failed attempts
NoBallot == NewBallot(0)

Home(p) == IF p \in Requests THEN p ELSE CHOOSE r \in Requests : TRUE
Rested(p) == IF p \in Requests THEN "done" ELSE "idle"
VoterOf(p) ==
    CASE p \in Rest -> p
      [] p \in Cli -> CliVoter
      [] OTHER -> SystemVoter

TypeOK ==
    /\ StoreTypeOK
    /\ pc \in [Procs -> Pcs]
    /\ job \in [Procs -> Requests]
    /\ op \in [Procs -> Decisions]
    /\ ballot \in [Procs -> [late : BOOLEAN, seen : SUBSET Vote, tries : Nat]]
    /\ verdict \in [Procs -> Verdicts]
    /\ todo \in [Sweepers -> SUBSET Requests]
    /\ allowed \in [Requests -> BOOLEAN]
    /\ wins \in [Requests -> Nat]

Init ==
    /\ StoreInit
    /\ pc = [p \in Procs |-> IF p \in Requests THEN "new" ELSE "idle"]
    /\ job = [p \in Procs |-> Home(p)]
    /\ op = [p \in Procs |-> "denied"]
    /\ ballot = [p \in Procs |-> NoBallot]
    /\ verdict = [p \in Procs |-> "none"]
    /\ todo = [s \in Sweepers |-> {}]
    /\ allowed = [r \in Requests |-> FALSE]
    /\ wins = [r \in Requests |-> 0]

------------------------------------------------------------------------------
(* Control flow helpers *)

At(p, l) == pc[p] = l
Goto(p, l) == pc' = [pc EXCEPT ![p] = l]

\* p goes on at l and changes nothing but its pc and the store.
Step(p, l) == Goto(p, l) /\ UNCHANGED local

\* p returns: an agent's call is over, an approver or a sweep can start again.
Finish(p) ==
    /\ pc' = [pc EXCEPT ![p] = Rested(p)]
    /\ job' = [job EXCEPT ![p] = Home(p)]
    /\ op' = [op EXCEPT ![p] = "denied"]
    /\ ballot' = [ballot EXCEPT ![p] = NoBallot]
    /\ verdict' = [verdict EXCEPT ![p] = "none"]
    /\ todo' = [s \in Sweepers |-> IF s = p THEN {} ELSE todo[s]]
    /\ UNCHANGED <<allowed, wins>>

\* p's result is decided; finalizeWithStatus reports it.
Conclude(p, v) ==
    /\ Goto(p, "finalize")
    /\ verdict' = [verdict EXCEPT ![p] = v]
    /\ UNCHANGED <<job, op, ballot, todo, allowed, wins>>

------------------------------------------------------------------------------
(* The pipeline up to the approval: Runtime.execute *)

\* Authentication, tenant, action, input, idempotency key or policy stop the
\* call; only a policy evaluation that failed is retryable.
Reject(r) ==
    /\ At(r, "new")
    /\ \E v \in Failures : Conclude(r, v)
    /\ UNCHANGED store

Allow(r) ==
    /\ At(r, "new")
    /\ allowed' = [allowed EXCEPT ![r] = TRUE]
    /\ Goto(r, "prepare")
    /\ UNCHANGED <<store, job, op, ballot, verdict, todo, wins>>

NeedApproval(r) == At(r, "new") /\ Step(r, "submit") /\ UNCHANGED store

RequestApproval(r) == At(r, "submit") /\ CreateApproval(r) /\ Step(r, "hold")

RequestApprovalFails(r) ==
    /\ At(r, "submit")
    /\ Conclude(r, "fatal")
    /\ UNCHANGED store

Hold(r) == At(r, "hold") /\ HoldExecution(r) /\ Conclude(r, "held")

\* The error may come back although the row was written. Either way the
\* pipeline denies the approval it has just created.
HoldFails(r) ==
    /\ At(r, "hold")
    /\ HoldExecution(r) \/ UNCHANGED store
    /\ Step(r, "vote_now")

------------------------------------------------------------------------------
(* One vote: SQLStore.ResolveApprovalVote *)

\* The attempt reads the clock, then the row, then writes under a condition.
VoteNow(p) ==
    /\ At(p, "vote_now")
    /\ ballot' = [ballot EXCEPT ![p].late = past[job[p]]]
    /\ Goto(p, "vote_read")
    /\ UNCHANGED <<store, job, op, verdict, todo, allowed, wins>>

VoteExpired(p) ==
    \/ status[job[p]] = "expired"
    \/ status[job[p]] = "pending" /\ ballot[p].late

VoteRefused(p) ==
    \/ status[job[p]] # "pending"
    \/ ballot[p].late
    \/ HasVoted(votes[job[p]], VoterOf(p))

\* What a refused or conflicting vote leads to.
VoteGivesUp(p) ==
    IF p \in Requests THEN Conclude(p, "fatal") ELSE Finish(p)

VoteRead(p) ==
    /\ At(p, "vote_read")
    /\ UNCHANGED store
    /\ \/ /\ ~VoteRefused(p)
          /\ ballot' = [ballot EXCEPT ![p].seen = votes[job[p]]]
          /\ Goto(p, "vote_write")
          /\ UNCHANGED <<job, op, verdict, todo, allowed, wins>>
       \/ /\ VoteRefused(p)
          /\ IF p \in Cli /\ VoteExpired(p) THEN Step(p, "expire") ELSE VoteGivesUp(p)

AfterVote(p) ==
    CASE p \in Requests -> Conclude(p, "fatal")
      [] p \in Deciders /\ op[p] = "approved" -> Step(p, "reload")
      [] OTHER -> Step(p, "remove")

VoteWrite(p) ==
    LET b == ballot[p]
        r == job[p]
    IN  /\ At(p, "vote_write")
        /\ \/ /\ VoteApplies(r, b.seen, b.late)
              /\ WriteVote(r, VoterOf(p), op[p], b.seen)
              /\ AfterVote(p)
           \/ /\ ~VoteApplies(r, b.seen, b.late)
              /\ UNCHANGED store
              /\ IF b.tries + 1 < MaxAttempts
                 THEN /\ ballot' = [ballot EXCEPT ![p] = NewBallot(b.tries + 1)]
                      /\ Goto(p, "vote_now")
                      /\ UNCHANGED <<job, op, verdict, todo, allowed, wins>>
                 ELSE VoteGivesUp(p)

------------------------------------------------------------------------------
(* Approvers *)

Take(p, r, d, l) ==
    /\ At(p, "idle")
    /\ status[r] # "absent"
    /\ job' = [job EXCEPT ![p] = r]
    /\ op' = [op EXCEPT ![p] = d]
    /\ Goto(p, l)
    /\ UNCHANGED <<store, ballot, verdict, todo, allowed, wins>>

\* REST: requirePendingApproval comes first.
RestRequest(p, r, d) == p \in Rest /\ Take(p, r, d, "lookup")

\* CLI: the command votes at once.
CliCommand(p, r, d) == p \in Cli /\ Take(p, r, d, "vote_now")

\* requirePendingApproval with allowApproved read as "any decision".
LookupAnyDecision(p) ==
    LET r == job[p]
    IN  /\ At(p, "lookup")
        /\ UNCHANGED store
        /\ CASE status[r] = "pending" /\ ~past[r] -> Step(p, "vote_now")
             [] status[r] \in Decisions /\ ~past[r] /\ op[p] = "approved" -> Step(p, "resume")
             [] OTHER -> Finish(p)

Lookup(p) ==
    LET r == job[p]
    IN  /\ At(p, "lookup")
        /\ UNCHANGED store
        /\ CASE status[r] = "expired" -> Step(p, "remove")
             [] status[r] # "expired" /\ past[r] -> Step(p, "expire")
             [] status[r] = "pending" /\ ~past[r] -> Step(p, "vote_now")
             [] status[r] = "approved" /\ ~past[r] /\ op[p] = "approved" -> Step(p, "resume")
             [] OTHER -> Finish(p)

\* The CLI removes the held call whatever ExpireApproval did; REST looks again.
ExpireStale(p) ==
    /\ At(p, "expire")
    /\ ExpireApproval(job[p])
    /\ IF p \in Cli \/ Expirable(job[p]) THEN Step(p, "remove") ELSE Step(p, "refresh")

Refresh(p) ==
    /\ At(p, "refresh")
    /\ UNCHANGED store
    /\ IF status[job[p]] = "expired" THEN Step(p, "remove") ELSE Finish(p)

RemoveHeld(p) == At(p, "remove") /\ RemoveExecution(job[p]) /\ Finish(p)

\* An approver that resumes as soon as its own vote is in.
ReloadWithoutStatus(p) == At(p, "reload") /\ UNCHANGED store /\ Step(p, "resume")

\* The vote is in; the status read back says whether it was the last one needed.
Reload(p) ==
    /\ At(p, "reload")
    /\ UNCHANGED store
    /\ IF status[job[p]] = "approved" THEN Step(p, "resume") ELSE Finish(p)

------------------------------------------------------------------------------
(* The approved call: Runtime.ResumeApproved and executeFromCredentials *)

Resume(p) ==
    /\ At(p, "resume")
    /\ \/ TakeExecution(job[p]) /\ Step(p, "recheck")
       \/ ~held[job[p]] /\ UNCHANGED store /\ Finish(p)

\* Authentication, tenant, input and the current policy, once more.
Recheck(p) ==
    /\ At(p, "recheck")
    /\ UNCHANGED store
    /\ Step(p, "prepare") \/ \E v \in Failures : Conclude(p, v)

\* Credentials and the adapter.
Prepare(p) ==
    /\ At(p, "prepare")
    /\ UNCHANGED store
    /\ Step(p, "call") \/ \E v \in Failures : Conclude(p, v)

CallAdapter(p) ==
    /\ At(p, "call")
    /\ \E v \in {"success"} \cup Failures :
          /\ verdict' = [verdict EXCEPT ![p] = v]
          /\ wins' = [wins EXCEPT ![job[p]] = @ + (IF v = "success" THEN 1 ELSE 0)]
    /\ Goto(p, "finalize")
    /\ UNCHANGED <<store, job, op, ballot, todo, allowed>>

\* A lost audit record reported as a passing outage.
ReportRetryingAudit(p) ==
    {verdict[p]} \cup (IF AuditRequired THEN {"retryable"} ELSE {})

\* What is reported: the verdict, or an audit failure, which is never retryable.
Report(p) == {verdict[p]} \cup (IF AuditRequired THEN {"fatal"} ELSE {})

\* The audit record is written, and a resumed call that failed for a passing
\* reason is held again.
Finalize(p) ==
    /\ At(p, "finalize")
    /\ UNCHANGED store
    /\ \E v \in Report(p) :
          IF v = "retryable" /\ p \in Deciders
          THEN /\ verdict' = [verdict EXCEPT ![p] = v]
               /\ Goto(p, "rehold")
               /\ UNCHANGED <<job, op, ballot, todo, allowed, wins>>
          ELSE Finish(p)

Rehold(p) == At(p, "rehold") /\ HoldExecution(job[p]) /\ Finish(p)

------------------------------------------------------------------------------
(* Sweeps: ExpirePendingWithSideEffects *)

SweepList(s) ==
    /\ At(s, "idle")
    /\ Due # {}
    /\ todo' = [todo EXCEPT ![s] = Due]
    /\ Goto(s, "sweep")
    /\ UNCHANGED <<store, job, op, ballot, verdict, allowed, wins>>

\* The next listed request is expired unless somebody decided it meanwhile.
SweepExpire(s) ==
    /\ At(s, "sweep")
    /\ \/ \E r \in todo[s] :
             /\ ExpireApproval(r)
             /\ todo' = [todo EXCEPT ![s] = @ \ {r}]
             /\ IF Expirable(r)
                THEN job' = [job EXCEPT ![s] = r] /\ Goto(s, "sweep_remove")
                ELSE UNCHANGED <<job, pc>>
             /\ UNCHANGED <<op, ballot, verdict, allowed, wins>>
       \/ todo[s] = {} /\ Finish(s) /\ UNCHANGED store

SweepRemove(s) ==
    /\ At(s, "sweep_remove")
    /\ RemoveExecution(job[s])
    /\ Step(s, "sweep")

------------------------------------------------------------------------------
\* A process stops, or a statement of it fails, between two steps.
Abort(p) ==
    /\ p \in Mortal
    /\ pc[p] \notin {"idle", "done"}
    /\ Finish(p)
    /\ UNCHANGED store

Clock == \E r \in Requests : Elapse(r) /\ UNCHANGED <<pc, local>>

Agent(r) ==
    \/ Reject(r) \/ Allow(r) \/ NeedApproval(r)
    \/ RequestApproval(r) \/ RequestApprovalFails(r)
    \/ Hold(r) \/ HoldFails(r)

Decider(p) ==
    \/ \E r \in Requests, d \in Decisions : RestRequest(p, r, d) \/ CliCommand(p, r, d)
    \/ Lookup(p) \/ ExpireStale(p) \/ Refresh(p) \/ RemoveHeld(p) \/ Reload(p)
    \/ Resume(p) \/ Recheck(p) \/ Rehold(p)

Runner(p) ==
    \/ VoteNow(p) \/ VoteRead(p) \/ VoteWrite(p)
    \/ Prepare(p) \/ CallAdapter(p) \/ Finalize(p)

Sweep(s) == SweepList(s) \/ SweepExpire(s) \/ SweepRemove(s)

Next ==
    \/ Clock
    \/ \E r \in Requests : Agent(r)
    \/ \E p \in Deciders : Decider(p)
    \/ \E p \in Runners : Runner(p)
    \/ \E s \in Sweepers : Sweep(s)
    \/ \E p \in Procs : Abort(p)

Spec == Init /\ [][Next]_vars

(***************************************************************************)
(* The expiry worker's ticker never stops while the server runs (weak      *)
(* fairness of listing), and not every sweep is cut short (strong fairness *)
(* of its steps).  Nothing is assumed of agents and approvers.             *)
(***************************************************************************)
Fairness ==
    \A s \in Sweepers : WF_vars(SweepList(s)) /\ SF_vars(SweepExpire(s)) /\ SF_vars(SweepRemove(s))

FairSpec == Spec /\ Fairness
=============================================================================
