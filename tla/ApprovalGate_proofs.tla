------------------------- MODULE ApprovalGate_proofs -------------------------
(***************************************************************************)
(* Proofs about the approval gate, for every set of requests, approvers    *)
(* and sweepers, any quorums and any number of vote attempts.              *)
(***************************************************************************)
EXTENDS ApprovalGateProps, FiniteSetTheorems, TLAPS

LEMMA HomeIsRequest == \A p : Home(p) \in Requests
BY ProcsAssumption DEF Home

LEMMA VoterIsVoter == \A p : VoterOf(p) \in Voters
BY ProcsAssumption DEF VoterOf

(* Every statement on the two tables keeps their types. *)

LEMMA StoreStepType ==
    ASSUME StoreTypeOK, NEW r \in Requests,
           \/ UNCHANGED store
           \/ CreateApproval(r)
           \/ ExpireApproval(r)
           \/ Elapse(r)
           \/ HoldExecution(r)
           \/ RemoveExecution(r)
           \/ TakeExecution(r)
    PROVE  StoreTypeOK'
BY DEF StoreTypeOK, store, CreateApproval, ExpireApproval, Expirable, Elapse,
       HoldExecution, RemoveExecution, TakeExecution, SetHeld, Resolved

LEMMA WriteVoteType ==
    ASSUME StoreTypeOK, NEW r \in Requests, NEW who \in Voters, NEW d \in Decisions,
           NEW seen \in SUBSET Vote, WriteVote(r, who, d, seen)
    PROVE  StoreTypeOK'
<1> DEFINE vs == seen \cup {[who |-> who, decision |-> d]}
<1>1. vs \in SUBSET Vote
  BY DEF Vote
<1>2. StatusAfter(vs, d, required[r]) \in {"absent", "pending"} \cup Resolved
  BY DEF StatusAfter, Resolved, Decisions
<1> QED
  BY <1>1, <1>2 DEF WriteVote, StoreTypeOK

(* The three ways a step ends keep the types of the local state. *)

LocalTypeOK ==
    /\ pc \in [Procs -> Pcs]
    /\ job \in [Procs -> Requests]
    /\ op \in [Procs -> Decisions]
    /\ ballot \in [Procs -> [late : BOOLEAN, seen : SUBSET Vote, tries : Nat]]
    /\ verdict \in [Procs -> Verdicts]
    /\ todo \in [Sweepers -> SUBSET Requests]
    /\ allowed \in [Requests -> BOOLEAN]
    /\ wins \in [Requests -> Nat]

LEMMA TypeSplit == TypeOK <=> StoreTypeOK /\ LocalTypeOK
BY DEF TypeOK, LocalTypeOK

LEMMA FinishType ==
    ASSUME LocalTypeOK, NEW p \in Procs, Finish(p)
    PROVE  LocalTypeOK'
BY HomeIsRequest DEF LocalTypeOK, Finish, Rested, Pcs, NoBallot, NewBallot, Decisions, Verdicts

LEMMA ConcludeType ==
    ASSUME LocalTypeOK, NEW p \in Procs, NEW v \in Verdicts, Conclude(p, v)
    PROVE  LocalTypeOK'
BY DEF LocalTypeOK, Conclude, Goto, Pcs, RunPcs

LEMMA StepType ==
    ASSUME LocalTypeOK, NEW p \in Procs, NEW l \in Pcs, Step(p, l)
    PROVE  LocalTypeOK'
BY DEF LocalTypeOK, Step, Goto, local

LEMMA TypeInit == Init => TypeOK
BY HomeIsRequest, QuorumsAssumption
   DEF Init, TypeOK, StoreInit, StoreTypeOK, Pcs, AgentPcs, NoBallot, NewBallot, Decisions, Verdicts, Vote

LEMMA TypeNext ==
    ASSUME TypeOK, [Next]_vars
    PROVE  TypeOK'
<1> USE TypeSplit
<1> SUFFICES ASSUME Next PROVE StoreTypeOK' /\ LocalTypeOK'
  <2>1. CASE UNCHANGED vars
    BY <2>1 DEF vars, store, local, TypeOK, StoreTypeOK
  <2> QED
    BY <2>1, TypeSplit, PTL DEF TypeOK, LocalTypeOK
<1>1. CASE Clock
  BY <1>1, StoreStepType DEF Clock, LocalTypeOK, local
<1>2. ASSUME NEW r \in Requests, Agent(r) PROVE StoreTypeOK' /\ LocalTypeOK'
  <2> USE DEF Procs, Runners
  <2>1. CASE Reject(r)
    BY <2>1, StoreStepType, ConcludeType DEF Reject, Verdicts
  <2>2. CASE Allow(r)
    BY <2>2, StoreStepType DEF Allow, Goto, LocalTypeOK, Pcs, RunPcs
  <2>3. CASE NeedApproval(r)
    BY <2>3, StoreStepType, StepType DEF NeedApproval, Pcs, AgentPcs
  <2>4. CASE RequestApproval(r)
    BY <2>4, StoreStepType, StepType DEF RequestApproval, Pcs, AgentPcs
  <2>5. CASE RequestApprovalFails(r)
    BY <2>5, StoreStepType, ConcludeType DEF RequestApprovalFails, Verdicts, Failures
  <2>6. CASE Hold(r)
    BY <2>6, StoreStepType, ConcludeType DEF Hold, Verdicts
  <2>7. CASE HoldFails(r)
    BY <2>7, StoreStepType, StepType DEF HoldFails, Pcs, VotePcs
  <2> QED
    BY <1>2, <2>1, <2>2, <2>3, <2>4, <2>5, <2>6, <2>7 DEF Agent
<1>3. ASSUME NEW p \in Deciders, Decider(p) PROVE StoreTypeOK' /\ LocalTypeOK'
  <2> USE DEF Procs, Runners
  <2>0. job[p] \in Requests
    BY DEF LocalTypeOK
  <2>1. ASSUME NEW r \in Requests, NEW d \in Decisions, RestRequest(p, r, d) \/ CliCommand(p, r, d)
        PROVE  StoreTypeOK' /\ LocalTypeOK'
    <3>1. \E l \in {"lookup", "vote_now"} : Take(p, r, d, l)
      BY <2>1 DEF RestRequest, CliCommand
    <3>2. StoreTypeOK'
      BY <3>1, StoreStepType DEF Take
    <3>3. LocalTypeOK'
      BY <3>1 DEF Take, Goto, LocalTypeOK, Pcs, DecidePcs, VotePcs
    <3> QED
      BY <3>2, <3>3
  <2>2. CASE Lookup(p)
    <3>1. Step(p, "remove") \/ Step(p, "expire") \/ Step(p, "vote_now") \/ Step(p, "resume") \/ Finish(p)
      BY <2>2 DEF Lookup
    <3> QED
      BY <2>0, <2>2, <3>1, StoreStepType, StepType, FinishType DEF Lookup, Pcs, DecidePcs, VotePcs
  <2>3. CASE ExpireStale(p)
    BY <2>0, <2>3, StoreStepType, StepType DEF ExpireStale, Pcs, DecidePcs
  <2>4. CASE Refresh(p)
    BY <2>0, <2>4, StoreStepType, StepType, FinishType DEF Refresh, Pcs, DecidePcs
  <2>5. CASE RemoveHeld(p)
    BY <2>0, <2>5, StoreStepType, FinishType DEF RemoveHeld
  <2>6. CASE Reload(p)
    BY <2>0, <2>6, StoreStepType, StepType, FinishType DEF Reload, Pcs, DecidePcs
  <2>7. CASE Resume(p)
    BY <2>0, <2>7, StoreStepType, StepType, FinishType DEF Resume, Pcs, RunPcs
  <2>8. CASE Recheck(p)
    BY <2>0, <2>8, StoreStepType, StepType, ConcludeType DEF Recheck, Pcs, RunPcs, Verdicts
  <2>9. CASE Rehold(p)
    BY <2>0, <2>9, StoreStepType, FinishType DEF Rehold
  <2> QED
    BY <1>3, <2>1, <2>2, <2>3, <2>4, <2>5, <2>6, <2>7, <2>8, <2>9 DEF Decider
<1>4. ASSUME NEW p \in Runners, Runner(p) PROVE StoreTypeOK' /\ LocalTypeOK'
  <2> USE DEF Procs
  <2>0. job[p] \in Requests /\ op[p] \in Decisions
    BY DEF LocalTypeOK
  <2>1. CASE VoteNow(p)
    BY <2>0, <2>1, StoreStepType DEF VoteNow, Goto, LocalTypeOK, StoreTypeOK, Pcs, VotePcs
  <2>2. CASE VoteRead(p)
    <3>1. StoreTypeOK'
      BY <2>0, <2>2, StoreStepType DEF VoteRead
    <3>2. CASE ~VoteRefused(p)
      <4>1. votes[job[p]] \in SUBSET Vote
        BY <2>0 DEF StoreTypeOK
      <4>2. ballot' = [ballot EXCEPT ![p].seen = votes[job[p]]]
        BY <2>2, <3>2 DEF VoteRead
      <4>3. ballot' \in [Procs -> [late : BOOLEAN, seen : SUBSET Vote, tries : Nat]]
        BY <4>1, <4>2 DEF LocalTypeOK
      <4> QED
        BY <2>2, <3>1, <3>2, <4>3 DEF VoteRead, Goto, LocalTypeOK, Pcs, VotePcs
    <3>3. CASE VoteRefused(p)
      BY <2>0, <2>2, <3>1, <3>3, StepType, FinishType, ConcludeType
         DEF VoteRead, VoteGivesUp, Pcs, DecidePcs, Verdicts, Failures
    <3> QED
      BY <3>1, <3>2, <3>3
  <2>3. CASE VoteWrite(p)
    <3> DEFINE r == job[p]
               b == ballot[p]
    <3>0. b.seen \in SUBSET Vote /\ b.tries \in Nat
      BY DEF LocalTypeOK
    <3>1. CASE VoteApplies(r, b.seen, b.late)
      <4>1. StoreTypeOK'
        BY <2>0, <2>3, <3>0, <3>1, WriteVoteType, VoterIsVoter DEF VoteWrite
      <4>2. AfterVote(p)
        BY <2>3, <3>1 DEF VoteWrite
      <4>3. Conclude(p, "fatal") \/ Step(p, "reload") \/ Step(p, "remove")
        BY <4>2 DEF AfterVote
      <4> QED
        BY <4>1, <4>3, ConcludeType, StepType DEF Verdicts, Failures, Pcs, DecidePcs
    <3>2. CASE ~VoteApplies(r, b.seen, b.late)
      <4>1. StoreTypeOK'
        BY <2>0, <2>3, <3>2, StoreStepType DEF VoteWrite
      <4>2. CASE b.tries + 1 < MaxAttempts
        <5>1. NewBallot(b.tries + 1) \in [late : BOOLEAN, seen : SUBSET Vote, tries : Nat]
          BY <3>0 DEF NewBallot
        <5>2. ballot' \in [Procs -> [late : BOOLEAN, seen : SUBSET Vote, tries : Nat]]
          BY <2>3, <3>2, <4>2, <5>1 DEF VoteWrite, LocalTypeOK
        <5> QED
          BY <2>3, <3>2, <4>1, <4>2, <5>2 DEF VoteWrite, Goto, LocalTypeOK, Pcs, VotePcs
      <4>3. CASE ~(b.tries + 1 < MaxAttempts)
        BY <2>3, <3>2, <4>1, <4>3, ConcludeType, FinishType DEF VoteWrite, VoteGivesUp, Verdicts, Failures
      <4> QED
        BY <4>1, <4>2, <4>3
    <3> QED
      BY <3>1, <3>2
  <2>4. CASE Prepare(p)
    BY <2>0, <2>4, StoreStepType, StepType, ConcludeType DEF Prepare, Pcs, RunPcs, Verdicts
  <2>5. CASE CallAdapter(p)
    BY <2>0, <2>5, StoreStepType DEF CallAdapter, Goto, LocalTypeOK, Pcs, RunPcs, Verdicts
  <2>6. CASE Finalize(p)
    <3>1. StoreTypeOK'
      BY <2>0, <2>6, StoreStepType DEF Finalize
    <3>2. Finish(p) => LocalTypeOK'
      BY FinishType
    <3> QED
      BY <2>6, <3>1, <3>2 DEF Finalize, Goto, LocalTypeOK, Pcs, RunPcs, Verdicts, Failures
  <2> QED
    BY <1>4, <2>1, <2>2, <2>3, <2>4, <2>5, <2>6 DEF Runner
<1>5. ASSUME NEW s \in Sweepers, Sweep(s) PROVE StoreTypeOK' /\ LocalTypeOK'
  <2> USE DEF Procs
  <2>0. job[s] \in Requests
    BY DEF LocalTypeOK
  <2>1. CASE SweepList(s)
    BY <2>0, <2>1, StoreStepType DEF SweepList, Due, Goto, LocalTypeOK, Pcs, SweepPcs
  <2>2. CASE SweepExpire(s)
    <3>1. CASE todo[s] = {} /\ Finish(s) /\ UNCHANGED store
      BY <2>0, <3>1, StoreStepType, FinishType
    <3>2. ASSUME NEW r \in todo[s],
                 ExpireApproval(r),
                 todo' = [todo EXCEPT ![s] = @ \ {r}],
                 IF Expirable(r)
                 THEN job' = [job EXCEPT ![s] = r] /\ Goto(s, "sweep_remove")
                 ELSE UNCHANGED <<job, pc>>,
                 UNCHANGED <<op, ballot, verdict, allowed, wins>>
          PROVE  StoreTypeOK' /\ LocalTypeOK'
      <4>1. r \in Requests
        BY DEF LocalTypeOK
      <4>2. StoreTypeOK'
        BY <3>2, <4>1, StoreStepType
      <4>3. LocalTypeOK'
        BY <3>2, <4>1 DEF Goto, LocalTypeOK, Pcs, SweepPcs
      <4> QED
        BY <4>2, <4>3
    <3> QED
      BY <2>2, <3>1, <3>2 DEF SweepExpire
  <2>3. CASE SweepRemove(s)
    BY <2>0, <2>3, StoreStepType, StepType DEF SweepRemove, Pcs, SweepPcs
  <2> QED
    BY <1>5, <2>1, <2>2, <2>3 DEF Sweep
<1>6. ASSUME NEW p \in Procs, Abort(p) PROVE StoreTypeOK' /\ LocalTypeOK'
  <2>0. job[p] \in Requests
    BY DEF LocalTypeOK
  <2> QED
    BY <1>6, <2>0, StoreStepType, FinishType DEF Abort
<1> QED
  BY <1>1, <1>2, <1>3, <1>4, <1>5, <1>6 DEF Next

------------------------------------------------------------------------------
(***************************************************************************)
(* The inductive invariant.  Beside the properties it says that only a     *)
(* call about to be reported carries a success, that an agent works on its *)
(* own request, and how far a request is while it is undecided.            *)
(***************************************************************************)
ResultInv == \A p \in Procs : pc[p] # "finalize" => verdict[p] # "success"

OwnCall == \A r \in Requests : job[r] = r

Triaged ==
    \A r \in Requests :
        /\ pc[r] \in {"new", "submit"} => status[r] = "absent" /\ ~allowed[r]
        /\ allowed[r] => status[r] = "absent"

Safe ==
    /\ ResultInv
    /\ OwnCall
    /\ Triaged
    /\ GatedCallIsApproved
    /\ OneOwner
    /\ SucceedsAtMostOnce

IInv == TypeOK /\ Safe

LEMMA SafeInit == Init => Safe
BY HomeIsRequest, ProcsAssumption
   DEF Init, StoreInit, Safe, ResultInv, OwnCall, Triaged, GatedCallIsApproved, OneOwner,
       SucceedsAtMostOnce, AgentHas, AgentPcs, Carries, RunPcs, Procs, Runners, Home

(* What a statement can do to a status: only the insert makes a row appear, *)
(* no row disappears, and an approved row stays approved.                   *)
ApprovedStays == \A r \in Requests : status[r] = "approved" => status'[r] = "approved"
AbsentStays == \A r \in Requests : status[r] = "absent" <=> status'[r] = "absent"
HeldShrinks == \A r \in Requests : held'[r] => held[r]

LEMMA StatementStatus ==
    ASSUME TypeOK, NEW r \in Requests,
           \/ UNCHANGED store
           \/ ExpireApproval(r)
           \/ Elapse(r)
           \/ HoldExecution(r)
           \/ RemoveExecution(r)
           \/ TakeExecution(r)
    PROVE  ApprovedStays /\ AbsentStays
BY DEF TypeOK, StoreTypeOK, ApprovedStays, AbsentStays, store, ExpireApproval, Expirable,
       Elapse, HoldExecution, RemoveExecution, TakeExecution, SetHeld

LEMMA StatementHeld ==
    ASSUME TypeOK, NEW r \in Requests,
           \/ UNCHANGED store
           \/ CreateApproval(r)
           \/ ExpireApproval(r)
           \/ Elapse(r)
           \/ RemoveExecution(r)
           \/ TakeExecution(r)
           \/ \E who, d, seen : WriteVote(r, who, d, seen)
    PROVE  HeldShrinks
BY DEF TypeOK, StoreTypeOK, HeldShrinks, store, CreateApproval, ExpireApproval,
       Elapse, RemoveExecution, TakeExecution, SetHeld, WriteVote

LEMMA VoteStatus ==
    ASSUME TypeOK, NEW r \in Requests, NEW who, NEW d, NEW seen, NEW late,
           VoteApplies(r, seen, late), WriteVote(r, who, d, seen)
    PROVE  ApprovedStays /\ AbsentStays
BY DEF TypeOK, StoreTypeOK, ApprovedStays, AbsentStays, VoteApplies, WriteVote, StatusAfter

LEMMA CreateStatus ==
    ASSUME TypeOK, NEW r \in Requests, CreateApproval(r)
    PROVE  ApprovedStays
BY DEF TypeOK, StoreTypeOK, ApprovedStays, CreateApproval

(***************************************************************************)
(* The properties speak of one process at a time, so a step of p preserves *)
(* them for the others, and only what p becomes has to be looked at.       *)
(***************************************************************************)
OthersStay(p) ==
    \A q \in Procs \ {p} : pc'[q] = pc[q] /\ job'[q] = job[q] /\ verdict'[q] = verdict[q]

\* p goes on at l with the request and the verdict it has.
Moves(p, l) ==
    /\ OthersStay(p)
    /\ pc'[p] = l /\ job'[p] = job[p] /\ verdict'[p] = verdict[p]
    /\ UNCHANGED <<allowed, wins>>

\* p returns.
Returns(p) ==
    /\ OthersStay(p)
    /\ pc'[p] \in {"idle", "done"} /\ verdict'[p] = "none"
    /\ p \in Requests => job'[p] = p
    /\ UNCHANGED <<allowed, wins>>

\* p is about to report v.
Reports(p, v) ==
    /\ OthersStay(p)
    /\ pc'[p] = "finalize" /\ job'[p] = job[p] /\ verdict'[p] = v
    /\ UNCHANGED <<allowed, wins>>

LEMMA StepMoves ==
    ASSUME TypeOK, NEW p \in Procs, NEW l, Step(p, l)
    PROVE  Moves(p, l)
BY DEF TypeOK, Moves, OthersStay, Step, Goto, local

LEMMA FinishReturns ==
    ASSUME TypeOK, NEW p \in Procs, Finish(p)
    PROVE  Returns(p)
BY DEF TypeOK, Returns, OthersStay, Finish, Rested, Home

LEMMA ConcludeReports ==
    ASSUME TypeOK, NEW p \in Procs, NEW v, Conclude(p, v)
    PROVE  Reports(p, v)
BY DEF TypeOK, Reports, OthersStay, Conclude, Goto

(* A step that puts no call anywhere it was not and makes nothing succeed. *)
Quiet(p) ==
    \/ Returns(p)
    \/ \E v : Reports(p, v) /\ (p \in Deciders => pc[p] \in RunPcs \ {"finalize"})
    \/ \E l \in VotePcs \cup SweepPcs \cup (DecidePcs \ {"resume"}) :
          Moves(p, l) /\ pc[p] # "finalize"
    \/ \E l \in RunPcs \ {"finalize"} :
          Moves(p, l) /\ p \in Deciders /\ pc[p] \in RunPcs \ {"finalize"}

LEMMA LocalFrame ==
    ASSUME IInv, NEW p \in Procs, OthersStay(p), ApprovedStays,
           \A r \in Requests \ {p} :
               /\ allowed'[r] <=> allowed[r]
               /\ status'[r] = "absent" <=> status[r] = "absent",
           pc'[p] # "finalize" => verdict'[p] # "success",
           p \in Deciders /\ pc'[p] \in {"resume"} \cup RunPcs => status'[job'[p]] = "approved",
           p \in Requests =>
               /\ job'[p] = p
               /\ pc'[p] \in {"new", "submit"} => status'[p] = "absent" /\ ~allowed'[p]
               /\ pc'[p] \in {"prepare", "call"} => allowed'[p]
               /\ allowed'[p] => status'[p] = "absent"
    PROVE  ResultInv' /\ OwnCall' /\ Triaged' /\ GatedCallIsApproved'
<1> USE DEF IInv, Safe
<1>1. ResultInv'
  BY DEF ResultInv, OthersStay
<1>2. OwnCall'
  BY DEF OwnCall, OthersStay, Procs, Runners
<1>3. Triaged'
  BY DEF Triaged, OthersStay, Procs, Runners
<1>4. \A q \in Deciders : pc'[q] \in {"resume"} \cup RunPcs => status'[job'[q]] = "approved"
  BY DEF OthersStay, ApprovedStays, GatedCallIsApproved, TypeOK, Procs, Runners
<1>5. \A r \in Requests : pc'[r] \in {"prepare", "call"} => allowed'[r]
  BY DEF OthersStay, GatedCallIsApproved, Procs, Runners
<1> QED
  BY <1>1, <1>2, <1>3, <1>4, <1>5 DEF GatedCallIsApproved

LEMMA OwnerFrame ==
    ASSUME IInv, NEW p \in Procs, OthersStay(p), HeldShrinks, UNCHANGED wins,
           p \in Deciders /\ pc'[p] \in RunPcs =>
               pc[p] \in RunPcs /\ job'[p] = job[p] /\ verdict[p] # "success",
           p \in Requests /\ pc'[p] \in AgentPcs \cup {"prepare", "call"} =>
               pc[p] \in AgentPcs \cup {"prepare", "call"}
    PROVE  OneOwner' /\ SucceedsAtMostOnce'
<1>1. \A q, r : Carries(q, r)' => Carries(q, r)
  BY DEF Carries, OthersStay, Procs, Runners
<1>2. \A r \in Requests : AgentHas(r)' => AgentHas(r)
  BY DEF AgentHas, OthersStay, Procs, Runners
<1> QED
  BY <1>1, <1>2 DEF IInv, Safe, OneOwner, SucceedsAtMostOnce, HeldShrinks

LEMMA QuietStep ==
    ASSUME IInv, NEW p \in Procs, Quiet(p), ApprovedStays, AbsentStays, HeldShrinks
    PROVE  Safe'
<1> USE DEF IInv, Safe
<1>0. OthersStay(p) /\ UNCHANGED <<allowed, wins>>
  BY DEF Quiet, Returns, Reports, Moves
<1>1. pc'[p] # "finalize" => verdict'[p] # "success"
  BY DEF Quiet, Returns, Reports, Moves, ResultInv, VotePcs, SweepPcs, DecidePcs, RunPcs
<1>2. p \in Deciders /\ pc'[p] \in {"resume"} \cup RunPcs => pc[p] \in RunPcs \ {"finalize"} /\ job'[p] = job[p]
  BY DEF Quiet, Returns, Reports, Moves, VotePcs, SweepPcs, DecidePcs, RunPcs
<1>3. p \in Requests => job'[p] = p /\ pc'[p] \notin AgentPcs \cup {"prepare", "call"}
  BY ProcsAssumption
     DEF Quiet, Returns, Reports, Moves, OwnCall, VotePcs, SweepPcs, DecidePcs, AgentPcs, Deciders, RunPcs
<1>4. ResultInv' /\ OwnCall' /\ Triaged' /\ GatedCallIsApproved'
  <2>1. p \in Deciders /\ pc'[p] \in {"resume"} \cup RunPcs => status'[job'[p]] = "approved"
    BY <1>2 DEF GatedCallIsApproved, ApprovedStays, TypeOK
  <2>2. p \in Requests => (allowed'[p] => status'[p] = "absent")
    BY <1>0 DEF Triaged, AbsentStays
  <2> QED
    BY <1>0, <1>1, <1>3, <2>1, <2>2, LocalFrame DEF AbsentStays, AgentPcs
<1>5. OneOwner' /\ SucceedsAtMostOnce'
  BY <1>0, <1>2, <1>3, OwnerFrame DEF ResultInv
<1> QED
  BY <1>4, <1>5

(* The steps of each kind of process.  Those that hand a call over are      *)
(* looked at in full; the others are quiet.                                 *)

ControlFacts ==
    /\ \A p \in Procs : \A l : Step(p, l) => Moves(p, l)
    /\ \A p \in Procs : Finish(p) => Returns(p)
    /\ \A p \in Procs : \A v : Conclude(p, v) => Reports(p, v)

LEMMA Control == TypeOK => ControlFacts
BY StepMoves, FinishReturns, ConcludeReports DEF ControlFacts

LEMMA ClockSafe ==
    ASSUME IInv, Clock
    PROVE  Safe'
BY DEF IInv, TypeOK, StoreTypeOK, Clock, Elapse, local, Safe, ResultInv, OwnCall, Triaged,
       GatedCallIsApproved, OneOwner, SucceedsAtMostOnce, Carries, AgentHas

LEMMA AgentSafe ==
    ASSUME IInv, NEW r \in Requests, Agent(r)
    PROVE  Safe'
<1> USE DEF IInv
<1>0. r \in Procs /\ ControlFacts /\ r \notin Deciders /\ job[r] = r
  BY Control, ProcsAssumption DEF Procs, Runners, Safe, OwnCall
<1>1. CASE Reject(r)
  BY <1>0, <1>1, QuietStep, StatementStatus, StatementHeld DEF Reject, Quiet, ControlFacts
<1>2. CASE Allow(r)
  <2>1. OthersStay(r) /\ pc[r] = "new" /\ pc'[r] = "prepare" /\ UNCHANGED <<store, job, verdict, wins>>
    BY <1>2, <1>0 DEF Allow, At, Goto, OthersStay, TypeOK
  <2>2. allowed' = [allowed EXCEPT ![r] = TRUE]
    BY <1>2 DEF Allow
  <2>3. status[r] = "absent" /\ verdict'[r] # "success"
    BY <1>0, <2>1 DEF Safe, Triaged, ResultInv
  <2>4. ResultInv' /\ OwnCall' /\ Triaged' /\ GatedCallIsApproved'
    BY <1>0, <2>1, <2>2, <2>3, LocalFrame DEF store, ApprovedStays, TypeOK
  <2>5. OneOwner' /\ SucceedsAtMostOnce'
    BY <1>0, <2>1, OwnerFrame DEF store, HeldShrinks, AgentPcs
  <2> QED
    BY <2>4, <2>5 DEF Safe
<1>3. CASE NeedApproval(r)
  <2>1. Moves(r, "submit") /\ pc[r] = "new" /\ UNCHANGED store
    BY <1>3, <1>0 DEF NeedApproval, At, ControlFacts
  <2>2. status[r] = "absent" /\ ~allowed[r] /\ verdict[r] # "success"
    BY <1>0, <2>1 DEF Safe, Triaged, ResultInv
  <2>3. ResultInv' /\ OwnCall' /\ Triaged' /\ GatedCallIsApproved'
    BY <1>0, <2>1, <2>2, LocalFrame DEF store, Moves, ApprovedStays
  <2>4. OneOwner' /\ SucceedsAtMostOnce'
    BY <1>0, <2>1, OwnerFrame DEF store, Moves, HeldShrinks, AgentPcs
  <2> QED
    BY <2>3, <2>4 DEF Safe
<1>4. CASE RequestApproval(r)
  <2>1. Moves(r, "hold") /\ pc[r] = "submit" /\ UNCHANGED held
    BY <1>4, <1>0 DEF RequestApproval, CreateApproval, At, ControlFacts
  <2>2. status' = [status EXCEPT ![r] = "pending"] /\ status[r] = "absent"
    BY <1>4 DEF RequestApproval, CreateApproval
  <2>3. ~allowed[r] /\ verdict[r] # "success"
    BY <1>0, <2>1 DEF Safe, Triaged, ResultInv
  <2>4. ApprovedStays /\ \A q \in Requests \ {r} : status'[q] = status[q]
    BY <2>2 DEF ApprovedStays, TypeOK, StoreTypeOK
  <2>5. ResultInv' /\ OwnCall' /\ Triaged' /\ GatedCallIsApproved'
    BY <1>0, <2>1, <2>3, <2>4, LocalFrame DEF Moves
  <2>6. OneOwner' /\ SucceedsAtMostOnce'
    BY <1>0, <2>1, OwnerFrame DEF Moves, HeldShrinks, AgentPcs
  <2> QED
    BY <2>5, <2>6 DEF Safe
<1>5. CASE RequestApprovalFails(r)
  BY <1>0, <1>5, QuietStep, StatementStatus, StatementHeld DEF RequestApprovalFails, Quiet, ControlFacts
<1>6. CASE Hold(r) \/ HoldFails(r)
  <2>1. Reports(r, "held") \/ Moves(r, "vote_now")
    BY <1>6, <1>0 DEF Hold, HoldFails, ControlFacts
  <2>2. pc[r] = "hold" /\ UNCHANGED <<status, allowed, wins>>
    BY <1>6, <2>1 DEF Hold, HoldFails, At, HoldExecution, SetHeld, store, Moves, Reports
  <2>3. \A q \in Requests \ {r} : held'[q] = held[q]
    BY <1>6 DEF Hold, HoldFails, HoldExecution, SetHeld, store, TypeOK, StoreTypeOK
  <2>4. wins[r] = 0 /\ \A q \in Deciders : ~Carries(q, r)
    BY <2>2 DEF Safe, OneOwner, AgentHas, AgentPcs
  <2>5. OthersStay(r) /\ pc'[r] \in {"finalize", "vote_now"} /\ job'[r] = r
    BY <1>0, <2>1 DEF Reports, Moves
  <2>6. ResultInv' /\ OwnCall' /\ Triaged' /\ GatedCallIsApproved'
    <3>1. verdict'[r] # "success" /\ (allowed'[r] => status'[r] = "absent")
      BY <1>0, <2>1, <2>2 DEF Moves, Reports, Safe, ResultInv, Triaged
    <3> QED
      BY <1>0, <2>2, <2>5, <3>1, LocalFrame DEF ApprovedStays
  <2>7. \A p \in Deciders, q \in Requests : Carries(p, q)' <=> Carries(p, q)
    BY <1>0, <2>5 DEF OthersStay, Carries, Procs, Runners
  <2>8. ~AgentHas(r)' /\ \A q \in Requests \ {r} : AgentHas(q)' <=> AgentHas(q)
    BY <1>0, <2>5 DEF OthersStay, AgentHas, AgentPcs, Procs, Runners
  <2>9. OneOwner' /\ SucceedsAtMostOnce'
    BY <2>2, <2>3, <2>4, <2>7, <2>8 DEF Safe, OneOwner, SucceedsAtMostOnce
  <2> QED
    BY <2>6, <2>9 DEF Safe
<1> QED
  BY <1>1, <1>2, <1>3, <1>4, <1>5, <1>6 DEF Agent

(* Every step of an approver that does not resume, run or put back a call. *)
LEMMA DeciderSafe ==
    ASSUME IInv, NEW p \in Deciders, Decider(p)
    PROVE  Safe'
<1> USE DEF IInv
<1>0. p \in Procs /\ ControlFacts /\ p \notin Requests /\ job[p] \in Requests
  BY Control, ProcsAssumption DEF Procs, Runners, TypeOK
<1> USE DEF ControlFacts
<1>1. ASSUME NEW r \in Requests, NEW d \in Decisions, RestRequest(p, r, d) \/ CliCommand(p, r, d)
      PROVE  Safe'
  <2>1. PICK l \in {"lookup", "vote_now"} : Take(p, r, d, l)
    BY <1>1 DEF RestRequest, CliCommand
  <2>2. OthersStay(p) /\ pc'[p] = l /\ UNCHANGED <<store, verdict, allowed, wins>> /\ pc[p] = "idle"
    BY <2>1, <1>0 DEF Take, At, Goto, OthersStay, TypeOK
  <2>3. ResultInv' /\ OwnCall' /\ Triaged' /\ GatedCallIsApproved'
    BY <1>0, <2>2, LocalFrame DEF store, ApprovedStays, Safe, ResultInv, RunPcs
  <2>4. OneOwner' /\ SucceedsAtMostOnce'
    BY <1>0, <2>2, OwnerFrame DEF store, HeldShrinks, RunPcs
  <2> QED
    BY <2>3, <2>4 DEF Safe
(* An approver that has seen the request approved goes on to resume it. *)
<1>2. ASSUME Step(p, "resume"), status[job[p]] = "approved", pc[p] # "finalize", UNCHANGED store
      PROVE  Safe'
  <2>1. Moves(p, "resume")
    BY <1>0, <1>2
  <2>2. ResultInv' /\ OwnCall' /\ Triaged' /\ GatedCallIsApproved'
    BY <1>0, <1>2, <2>1, LocalFrame DEF store, Moves, ApprovedStays, Safe, ResultInv
  <2>3. OneOwner' /\ SucceedsAtMostOnce'
    BY <1>0, <1>2, <2>1, OwnerFrame DEF store, Moves, HeldShrinks, RunPcs
  <2> QED
    BY <2>2, <2>3 DEF Safe
<1>3. CASE Lookup(p)
  BY <1>0, <1>2, <1>3, QuietStep, StatementStatus, StatementHeld DEF Lookup, At, Quiet, DecidePcs, VotePcs
<1>4. CASE ExpireStale(p)
  BY <1>0, <1>4, QuietStep, StatementStatus, StatementHeld DEF ExpireStale, At, Quiet, DecidePcs
<1>5. CASE Refresh(p)
  BY <1>0, <1>5, QuietStep, StatementStatus, StatementHeld DEF Refresh, At, Quiet, DecidePcs
<1>6. CASE RemoveHeld(p)
  BY <1>0, <1>6, QuietStep, StatementStatus, StatementHeld DEF RemoveHeld, Quiet
<1>7. CASE Reload(p)
  BY <1>0, <1>2, <1>7, QuietStep, StatementStatus, StatementHeld DEF Reload, At, Quiet
<1>8. CASE Resume(p)
  <2>1. CASE Finish(p) /\ UNCHANGED store
    BY <1>0, <2>1, QuietStep, StatementStatus, StatementHeld DEF Quiet
  <2>2. CASE TakeExecution(job[p]) /\ Step(p, "recheck")
    <3>1. Moves(p, "recheck") /\ pc[p] = "resume"
      BY <1>0, <1>8, <2>2 DEF Resume, At
    <3>2. held[job[p]] /\ held' = [held EXCEPT ![job[p]] = FALSE] /\ status' = status
      BY <2>2 DEF TakeExecution, SetHeld
    <3>3. OthersStay(p) /\ UNCHANGED <<allowed, wins>> /\ job'[p] = job[p] /\ pc'[p] = "recheck" /\ verdict'[p] = verdict[p]
      BY <3>1 DEF Moves
    <3>4. ResultInv' /\ OwnCall' /\ Triaged' /\ GatedCallIsApproved'
      <4>1. status[job[p]] = "approved" /\ verdict[p] # "success"
        BY <1>0, <3>1 DEF Safe, GatedCallIsApproved, ResultInv
      <4> QED
        BY <1>0, <3>2, <3>3, <4>1, LocalFrame DEF ApprovedStays
    <3>5. \A q \in Deciders \ {p}, r \in Requests : Carries(q, r)' <=> Carries(q, r)
      BY <1>0, <3>3 DEF OthersStay, Carries, Procs, Runners
    <3>6. \A r \in Requests : Carries(p, r)' => r = job[p]
      BY <3>3 DEF Carries
    <3>7. \A r \in Requests : AgentHas(r)' <=> AgentHas(r)
      BY <1>0, <3>3 DEF OthersStay, AgentHas, Procs, Runners
    <3>8. OneOwner' /\ SucceedsAtMostOnce'
      <4> DEFINE r == job[p]
      <4>1. wins[r] = 0 /\ ~AgentHas(r) /\ \A q \in Deciders : ~Carries(q, r)
        BY <1>0, <3>2 DEF Safe, OneOwner
      <4>2. ~held'[r] /\ \A q \in Requests \ {r} : held'[q] = held[q]
        BY <1>0, <3>2 DEF TypeOK, StoreTypeOK
      <4> QED
        BY <1>0, <3>3, <3>5, <3>6, <3>7, <4>1, <4>2 DEF Safe, OneOwner, SucceedsAtMostOnce
    <3> QED
      BY <3>4, <3>8 DEF Safe
  <2> QED
    BY <1>8, <2>1, <2>2 DEF Resume
<1>9. CASE Recheck(p)
  <2>1. CASE Step(p, "prepare")
    BY <1>0, <1>9, <2>1, QuietStep, StatementStatus, StatementHeld DEF Recheck, At, Quiet, RunPcs
  <2>2. CASE \E v \in Failures : Conclude(p, v)
    BY <1>0, <1>9, <2>2, QuietStep, StatementStatus, StatementHeld DEF Recheck, At, Quiet, RunPcs
  <2> QED
    BY <1>9, <2>1, <2>2 DEF Recheck
<1>10. CASE Rehold(p)
  <2>1. Returns(p) /\ pc[p] = "rehold" /\ held' = [held EXCEPT ![job[p]] = TRUE] /\ status' = status
    BY <1>0, <1>10 DEF Rehold, At, HoldExecution, SetHeld
  <2>2. OthersStay(p) /\ UNCHANGED <<allowed, wins>> /\ pc'[p] \in {"idle", "done"} /\ verdict'[p] = "none"
    BY <2>1 DEF Returns
  <2>3. Carries(p, job[p])
    BY <1>0, <2>1 DEF Carries, Safe, ResultInv, RunPcs
  <2>4. ResultInv' /\ OwnCall' /\ Triaged' /\ GatedCallIsApproved'
    BY <1>0, <2>1, <2>2, LocalFrame DEF ApprovedStays, RunPcs
  <2>5. \A q \in Deciders, r \in Requests : Carries(q, r)' => Carries(q, r) /\ q # p
    BY <1>0, <2>2 DEF OthersStay, Carries, RunPcs, Procs, Runners
  <2>6. \A r \in Requests : AgentHas(r)' <=> AgentHas(r)
    BY <1>0, <2>2 DEF OthersStay, AgentHas, Procs, Runners
  <2>7. OneOwner' /\ SucceedsAtMostOnce'
    BY <1>0, <2>1, <2>2, <2>3, <2>5, <2>6 DEF Safe, OneOwner, SucceedsAtMostOnce, TypeOK, StoreTypeOK
  <2> QED
    BY <2>4, <2>7 DEF Safe
<1> QED
  BY <1>1, <1>3, <1>4, <1>5, <1>6, <1>7, <1>8, <1>9, <1>10 DEF Decider

LEMMA RunnerSafe ==
    ASSUME IInv, NEW p \in Runners, Runner(p)
    PROVE  Safe'
<1> USE DEF IInv
<1>0. p \in Procs /\ ControlFacts /\ job[p] \in Requests /\ (p \in Requests => job[p] = p)
  BY Control DEF Procs, TypeOK, Safe, OwnCall
<1>1. p \in Deciders \/ p \in Requests
  BY DEF Runners
<1>2. p \in Requests => p \notin Deciders
  BY ProcsAssumption
<1> USE DEF ControlFacts
<1>3. CASE VoteNow(p)
  <2>1. Moves(p, "vote_read") /\ pc[p] = "vote_now" /\ UNCHANGED store
    BY <1>0, <1>3 DEF VoteNow, At, Goto, Moves, OthersStay, TypeOK
  <2> QED
    BY <1>0, <2>1, QuietStep, StatementStatus, StatementHeld DEF Quiet, VotePcs
<1>4. CASE VoteRead(p)
  <2>1. CASE ~VoteRefused(p)
    <3>1. Moves(p, "vote_write") /\ pc[p] = "vote_read" /\ UNCHANGED store
      BY <1>0, <1>4, <2>1 DEF VoteRead, At, Goto, Moves, OthersStay, TypeOK
    <3> QED
      BY <1>0, <3>1, QuietStep, StatementStatus, StatementHeld DEF Quiet, VotePcs
  <2>2. CASE VoteRefused(p)
    <3>1. Step(p, "expire") \/ Finish(p) \/ (p \in Requests /\ Conclude(p, "fatal"))
      BY <1>4, <2>2 DEF VoteRead, VoteGivesUp
    <3>2. pc[p] = "vote_read" /\ UNCHANGED store
      BY <1>4 DEF VoteRead, At
    <3>3. Quiet(p)
      BY <1>0, <1>2, <3>1, <3>2 DEF Quiet, DecidePcs
    <3> QED
      BY <1>0, <3>2, <3>3, QuietStep, StatementStatus, StatementHeld
  <2> QED
    BY <2>1, <2>2
<1>5. CASE VoteWrite(p)
  <2> DEFINE r == job[p]
             b == ballot[p]
  <2>0. pc[p] = "vote_write"
    BY <1>5 DEF VoteWrite, At
  <2>1. CASE VoteApplies(r, b.seen, b.late)
    <3>1. WriteVote(r, VoterOf(p), op[p], b.seen) /\ AfterVote(p)
      BY <1>5, <2>1 DEF VoteWrite
    <3>2. ApprovedStays /\ AbsentStays /\ HeldShrinks
      BY <1>0, <2>1, <3>1, VoteStatus, StatementHeld
    <3>3. (p \in Requests /\ Conclude(p, "fatal")) \/ Step(p, "reload") \/ Step(p, "remove")
      BY <3>1 DEF AfterVote
    <3>4. Quiet(p)
      BY <1>0, <1>2, <2>0, <3>3 DEF Quiet, DecidePcs
    <3> QED
      BY <1>0, <3>2, <3>4, QuietStep
  <2>2. CASE ~VoteApplies(r, b.seen, b.late)
    <3>1. UNCHANGED store
      BY <1>5, <2>2 DEF VoteWrite
    <3>2. CASE b.tries + 1 < MaxAttempts
      <4>1. Moves(p, "vote_now")
        BY <1>0, <1>5, <2>2, <3>2 DEF VoteWrite, Goto, Moves, OthersStay, TypeOK
      <4> QED
        BY <1>0, <2>0, <3>1, <4>1, QuietStep, StatementStatus, StatementHeld DEF Quiet, VotePcs
    <3>3. CASE ~(b.tries + 1 < MaxAttempts)
      <4>1. (p \in Requests /\ Conclude(p, "fatal")) \/ Finish(p)
        BY <1>5, <2>2, <3>3 DEF VoteWrite, VoteGivesUp
      <4>2. Quiet(p)
        BY <1>0, <1>2, <4>1 DEF Quiet
      <4> QED
        BY <1>0, <3>1, <4>2, QuietStep, StatementStatus, StatementHeld
    <3> QED
      BY <3>2, <3>3
  <2> QED
    BY <2>1, <2>2
<1>6. CASE Prepare(p)
  <2>0. pc[p] = "prepare" /\ UNCHANGED store
    BY <1>6 DEF Prepare, At
  <2>1. CASE \E v \in Failures : Conclude(p, v)
    BY <1>0, <2>0, <2>1, QuietStep, StatementStatus, StatementHeld DEF Quiet, RunPcs
  <2>2. CASE Step(p, "call") /\ p \in Deciders
    BY <1>0, <2>0, <2>2, QuietStep, StatementStatus, StatementHeld DEF Quiet, RunPcs
  <2>3. CASE Step(p, "call") /\ p \in Requests
    <3>1. Moves(p, "call")
      BY <1>0, <2>3
    <3>2. allowed[p] /\ status[p] = "absent" /\ verdict[p] # "success"
      BY <1>0, <2>0, <2>3 DEF Safe, GatedCallIsApproved, Triaged, ResultInv
    <3>3. ResultInv' /\ OwnCall' /\ Triaged' /\ GatedCallIsApproved'
      BY <1>0, <1>2, <2>0, <2>3, <3>1, <3>2, LocalFrame DEF store, Moves, ApprovedStays
    <3>4. OneOwner' /\ SucceedsAtMostOnce'
      BY <1>0, <1>2, <2>0, <2>3, <3>1, OwnerFrame DEF store, Moves, HeldShrinks
    <3> QED
      BY <3>3, <3>4 DEF Safe
  <2> QED
    BY <1>1, <1>6, <2>1, <2>2, <2>3 DEF Prepare
<1>7. CASE CallAdapter(p)
  <2>0. PICK r \in Requests : r = job[p]
    BY <1>0
  <2>1. PICK v \in {"success"} \cup Failures :
            /\ verdict' = [verdict EXCEPT ![p] = v]
            /\ wins' = [wins EXCEPT ![r] = @ + (IF v = "success" THEN 1 ELSE 0)]
    BY <1>7, <2>0 DEF CallAdapter
  <2>2. pc[p] = "call" /\ pc' = [pc EXCEPT ![p] = "finalize"] /\ UNCHANGED <<store, job, allowed>>
    BY <1>7, <2>0 DEF CallAdapter, At, Goto
  <2>3. OthersStay(p) /\ pc'[p] = "finalize" /\ job'[p] = r /\ verdict'[p] = v
    BY <1>0, <2>0, <2>1, <2>2 DEF OthersStay, TypeOK
  <2>4. ResultInv' /\ OwnCall' /\ Triaged' /\ GatedCallIsApproved'
    <3>1. p \in Deciders => status[r] = "approved"
      BY <2>0, <2>2 DEF Safe, GatedCallIsApproved, RunPcs
    <3>2. p \in Requests => (allowed[p] => status[p] = "absent")
      BY DEF Safe, Triaged
    <3> QED
      BY <1>0, <2>0, <2>2, <2>3, <3>1, <3>2, LocalFrame DEF store, ApprovedStays
  <2>5. wins[r] = 0 /\ ~held[r] /\ \A q \in Deciders : Carries(q, r) => q = p
    <3>1. CASE p \in Deciders
      <4>1. Carries(p, r)
        BY <1>0, <2>0, <2>2, <3>1 DEF Carries, RunPcs, Safe, ResultInv
      <4> QED
        BY <1>0, <2>0, <3>1, <4>1 DEF Safe, OneOwner
    <3>2. CASE p \in Requests
      <4>1. AgentHas(r)
        BY <1>0, <2>0, <2>2, <3>2 DEF AgentHas
      <4> QED
        BY <1>0, <2>0, <3>2, <4>1 DEF Safe, OneOwner
    <3> QED
      BY <1>1, <3>1, <3>2
  <2>6. /\ wins'[r] \in {0, 1} /\ (v # "success" => wins'[r] = 0)
        /\ \A q \in Requests \ {r} : wins'[q] = wins[q]
    BY <1>0, <2>0, <2>1, <2>5 DEF TypeOK
  <2>7. \A q \in Deciders, x \in Requests : Carries(q, x)' => Carries(q, x)
    BY <1>0, <2>0, <2>2, <2>3 DEF OthersStay, Carries, RunPcs, Safe, ResultInv, Procs, Runners
  <2>8. Carries(p, r)' => v # "success"
    BY <2>3 DEF Carries
  <2>9. \A x \in Requests : AgentHas(x)' => AgentHas(x)
    BY <1>0, <2>0, <2>2, <2>3 DEF OthersStay, AgentHas, AgentPcs, Procs, Runners
  <2>10. ~AgentHas(r)'
    <3>1. CASE p \in Deciders
      <4>1. Carries(p, r)
        BY <1>0, <2>0, <2>2, <3>1 DEF Carries, RunPcs, Safe, ResultInv
      <4> QED
        BY <1>0, <2>0, <2>9, <3>1, <4>1 DEF Safe, OneOwner
    <3>2. CASE p \in Requests
      BY <1>0, <2>0, <2>3, <3>2 DEF AgentHas, AgentPcs
    <3> QED
      BY <1>1, <3>1, <3>2
  <2>11. held' = held
    BY <2>2 DEF store
  <2>12. OneOwner' /\ SucceedsAtMostOnce'
    BY <1>0, <2>0, <2>5, <2>6, <2>7, <2>8, <2>9, <2>10, <2>11 DEF Safe, OneOwner, SucceedsAtMostOnce
  <2> QED
    BY <2>4, <2>12 DEF Safe
<1>8. CASE Finalize(p)
  <2>0. pc[p] = "finalize" /\ UNCHANGED store
    BY <1>8 DEF Finalize, At
  <2>1. CASE Finish(p)
    BY <1>0, <2>0, <2>1, QuietStep, StatementStatus, StatementHeld DEF Quiet
  <2>2. CASE ~Finish(p)
    <3>1. /\ "retryable" \in Report(p) /\ p \in Deciders
          /\ verdict' = [verdict EXCEPT ![p] = "retryable"]
          /\ Goto(p, "rehold") /\ UNCHANGED <<job, allowed, wins>>
      BY <1>8, <2>2 DEF Finalize
    <3>2. verdict[p] = "retryable"
      BY <3>1 DEF Report
    <3>3. OthersStay(p) /\ pc'[p] = "rehold" /\ job'[p] = job[p] /\ verdict'[p] = "retryable"
      BY <1>0, <3>1 DEF OthersStay, Goto, TypeOK
    <3>4. status[job[p]] = "approved"
      BY <2>0, <3>1 DEF Safe, GatedCallIsApproved, RunPcs
    <3>5. ResultInv' /\ OwnCall' /\ Triaged' /\ GatedCallIsApproved'
      BY <1>0, <1>2, <2>0, <3>1, <3>3, <3>4, LocalFrame DEF store, ApprovedStays
    <3>6. OneOwner' /\ SucceedsAtMostOnce'
      BY <1>0, <1>2, <2>0, <3>1, <3>2, <3>3, OwnerFrame DEF store, HeldShrinks, RunPcs
    <3> QED
      BY <3>5, <3>6 DEF Safe
  <2> QED
    BY <2>1, <2>2
<1> QED
  BY <1>3, <1>4, <1>5, <1>6, <1>7, <1>8 DEF Runner

LEMMA SweepSafe ==
    ASSUME IInv, NEW s \in Sweepers, Sweep(s)
    PROVE  Safe'
<1> USE DEF IInv
<1>0. s \in Procs /\ ControlFacts /\ job[s] \in Requests /\ s \notin Deciders /\ s \notin Requests
  BY Control, ProcsAssumption DEF Procs, Runners, TypeOK
<1> USE DEF ControlFacts
<1>1. CASE SweepList(s)
  <2>1. Moves(s, "sweep") /\ pc[s] = "idle" /\ UNCHANGED store
    BY <1>0, <1>1 DEF SweepList, At, Goto, Moves, OthersStay, TypeOK
  <2> QED
    BY <1>0, <2>1, QuietStep, StatementStatus, StatementHeld DEF Quiet, SweepPcs
<1>2. CASE SweepExpire(s)
  <2>1. CASE Finish(s) /\ UNCHANGED store
    BY <1>0, <2>1, QuietStep, StatementStatus, StatementHeld DEF Quiet
  <2>2. ASSUME NEW r \in todo[s], ExpireApproval(r),
               IF Expirable(r)
               THEN job' = [job EXCEPT ![s] = r] /\ Goto(s, "sweep_remove")
               ELSE UNCHANGED <<job, pc>>,
               UNCHANGED <<verdict, allowed, wins>>
        PROVE  Safe'
    <3>1. r \in Requests /\ pc[s] = "sweep"
      BY <1>2 DEF SweepExpire, At, TypeOK
    <3>2. ApprovedStays /\ AbsentStays /\ HeldShrinks
      BY <2>2, <3>1, StatementStatus, StatementHeld
    <3>3. OthersStay(s) /\ pc'[s] \in {"sweep", "sweep_remove"} /\ verdict'[s] = verdict[s]
      BY <1>0, <2>2, <3>1 DEF OthersStay, Goto, TypeOK
    <3>4. ResultInv' /\ OwnCall' /\ Triaged' /\ GatedCallIsApproved'
      BY <1>0, <2>2, <3>1, <3>2, <3>3, LocalFrame DEF AbsentStays, Safe, ResultInv
    <3>5. OneOwner' /\ SucceedsAtMostOnce'
      BY <1>0, <2>2, <3>2, <3>3, OwnerFrame
    <3> QED
      BY <3>4, <3>5 DEF Safe
  <2> QED
    BY <1>2, <2>1, <2>2 DEF SweepExpire
<1>3. CASE SweepRemove(s)
  BY <1>0, <1>3, QuietStep, StatementStatus, StatementHeld DEF SweepRemove, At, Quiet, SweepPcs
<1> QED
  BY <1>1, <1>2, <1>3 DEF Sweep

LEMMA AbortSafe ==
    ASSUME IInv, NEW p \in Procs, Abort(p)
    PROVE  Safe'
<1>1. Returns(p) /\ UNCHANGED store
  BY FinishReturns DEF Abort, IInv
<1> QED
  BY <1>1, QuietStep, StatementStatus, StatementHeld, HomeIsRequest DEF Quiet, IInv

LEMMA InvNext ==
    ASSUME IInv, [Next]_vars
    PROVE  IInv'
<1>1. TypeOK'
  BY TypeNext DEF IInv
<1>2. CASE UNCHANGED vars
  BY <1>1, <1>2 DEF vars, local, store, IInv, Safe, ResultInv, OwnCall, Triaged, GatedCallIsApproved,
     OneOwner, SucceedsAtMostOnce, AgentHas, Carries
<1>3. CASE Next
  BY <1>1, <1>3, ClockSafe, AgentSafe, DeciderSafe, RunnerSafe, SweepSafe, AbortSafe DEF Next, IInv
<1> QED
  BY <1>2, <1>3

------------------------------------------------------------------------------
(***************************************************************************)
(* Every variable keeps its type.                                          *)
(***************************************************************************)
THEOREM TypeCorrect == Spec => []TypeOK
<1>1. Init => TypeOK
  BY TypeInit
<1>2. TypeOK /\ [Next]_vars => TypeOK'
  BY TypeNext
<1> QED
  BY <1>1, <1>2, PTL DEF Spec

LEMMA Invariance == Spec => []IInv
<1>1. Init => IInv
  BY TypeInit, SafeInit DEF IInv
<1>2. IInv /\ [Next]_vars => IInv'
  BY InvNext
<1> QED
  BY <1>1, <1>2, PTL DEF Spec

(***************************************************************************)
(* Whoever resumes a gated call, and whatever it raced, the request is     *)
(* approved when the adapter is called.                                    *)
(***************************************************************************)
THEOREM GatedCallsAreApproved == Spec => []GatedCallIsApproved
<1>1. IInv => GatedCallIsApproved
  BY DEF IInv, Safe
<1> QED
  BY <1>1, Invariance, PTL

(***************************************************************************)
(* A suspended call is never in two places.                                *)
(***************************************************************************)
THEOREM CallsHaveOneOwner == Spec => []OneOwner
<1>1. IInv => OneOwner
  BY DEF IInv, Safe
<1> QED
  BY <1>1, Invariance, PTL

(***************************************************************************)
(* No request succeeds twice downstream, for any number of approvers.      *)
(***************************************************************************)
THEOREM CallsSucceedAtMostOnce == Spec => []SucceedsAtMostOnce
<1>1. IInv => SucceedsAtMostOnce
  BY DEF IInv, Safe
<1> QED
  BY <1>1, Invariance, PTL

------------------------------------------------------------------------------
(* Votes and decisions. *)

\* What a step does to a request's row and record: nothing, an insert, an expiry,
\* one vote under the condition of its UPDATE, a call let through or made.
Effect ==
    \/ UNCHANGED <<status, votes, required, allowed, wins>>
    \/ /\ UNCHANGED <<allowed, wins>>
       /\ \/ \E r \in Requests : pc[r] = "submit" /\ CreateApproval(r)
          \/ \E r \in Requests : Expirable(r) /\ ExpireApproval(r)
          \/ \E p \in Runners :
                /\ pc[p] = "vote_write"
                /\ VoteApplies(job[p], ballot[p].seen, ballot[p].late)
                /\ WriteVote(job[p], VoterOf(p), op[p], ballot[p].seen)
    \/ \E r \in Requests : Allow(r)
    \/ \E p \in Runners : CallAdapter(p)

LEMMA StepEffect ==
    ASSUME TypeOK, [Next]_vars
    PROVE  Effect
<1> SUFFICES ASSUME Next PROVE Effect
  BY DEF vars, store, local, Effect
<1> USE DEF At, Goto, Step, Finish, Conclude, local
<1>0. ASSUME NEW r \in Requests, ExpireApproval(r), UNCHANGED <<allowed, wins>>
      PROVE  Effect
  BY <1>0 DEF Effect, ExpireApproval, store
<1>1. CASE Clock
  BY <1>1 DEF Clock, Elapse, Effect
<1>2. ASSUME NEW r \in Requests, Agent(r) PROVE Effect
  <2>1. CASE Reject(r) \/ NeedApproval(r) \/ RequestApprovalFails(r) \/ Hold(r) \/ HoldFails(r)
    BY <2>1 DEF Reject, NeedApproval, RequestApprovalFails, Hold, HoldFails, HoldExecution, SetHeld,
       store, Effect
  <2>2. CASE RequestApproval(r)
    BY <2>2 DEF RequestApproval, Effect
  <2> QED
    BY <1>2, <2>1, <2>2 DEF Agent, Effect
<1>3. ASSUME NEW p \in Deciders, Decider(p) PROVE Effect
  <2>1. job[p] \in Requests
    BY DEF TypeOK, Procs, Runners
  <2>2. CASE ExpireStale(p)
    BY <1>0, <2>1, <2>2 DEF ExpireStale
  <2>3. ASSUME NEW r \in Requests, NEW d \in Decisions, RestRequest(p, r, d) \/ CliCommand(p, r, d)
        PROVE  Effect
    BY <2>3 DEF RestRequest, CliCommand, Take, store, Effect
  <2>4. CASE Lookup(p)
    BY <2>4 DEF Lookup, store, Effect
  <2>5. CASE Refresh(p) \/ RemoveHeld(p) \/ Reload(p)
    BY <2>5 DEF Refresh, RemoveHeld, Reload, RemoveExecution, SetHeld, store, Effect
  <2>6. CASE Resume(p) \/ Recheck(p) \/ Rehold(p)
    BY <2>6 DEF Resume, Recheck, Rehold, TakeExecution, HoldExecution, SetHeld, store, Effect
  <2> QED
    BY <1>3, <2>2, <2>3, <2>4, <2>5, <2>6 DEF Decider
<1>4. ASSUME NEW p \in Runners, Runner(p) PROVE Effect
  <2>1. CASE VoteNow(p) \/ VoteRead(p)
    BY <2>1 DEF VoteNow, VoteRead, VoteGivesUp, store, Effect
  <2>2. CASE VoteWrite(p)
    BY <2>2 DEF VoteWrite, VoteGivesUp, AfterVote, store, Effect
  <2>3. CASE Prepare(p) \/ Finalize(p)
    BY <2>3 DEF Prepare, Finalize, store, Effect
  <2>4. CASE CallAdapter(p)
    BY <2>4 DEF Effect
  <2> QED
    BY <1>4, <2>1, <2>2, <2>3, <2>4 DEF Runner
<1>5. ASSUME NEW s \in Sweepers, Sweep(s) PROVE Effect
  <2>1. job[s] \in Requests /\ todo[s] \subseteq Requests
    BY DEF TypeOK, Procs
  <2> QED
    BY <1>0, <1>5, <2>1 DEF Sweep, SweepList, SweepExpire, SweepRemove, RemoveExecution, SetHeld,
       store, Effect
<1>6. ASSUME NEW p \in Procs, Abort(p) PROVE Effect
  BY <1>6 DEF Abort, store, Effect
<1> QED
  BY <1>1, <1>2, <1>3, <1>4, <1>5, <1>6 DEF Next

\* What a step leaves of a row that exists.
LEMMA RowStays ==
    ASSUME TypeOK, [Next]_vars
    PROVE  \A r \in Requests :
              /\ votes[r] \subseteq votes'[r]
              /\ status[r] \in Resolved => status'[r] = status[r] /\ votes'[r] = votes[r]
<1> SUFFICES ASSUME NEW r \in Requests
             PROVE  /\ votes[r] \subseteq votes'[r]
                    /\ status[r] \in Resolved => status'[r] = status[r] /\ votes'[r] = votes[r]
  OBVIOUS
<1>1. CASE UNCHANGED <<status, votes, required>>
  BY <1>1
<1>2. CASE \E q \in Requests : CreateApproval(q)
  BY <1>2 DEF CreateApproval, TypeOK, StoreTypeOK, Resolved
<1>3. CASE \E q \in Requests : Expirable(q) /\ ExpireApproval(q)
  BY <1>3 DEF ExpireApproval, Expirable, TypeOK, StoreTypeOK, Resolved
<1>4. ASSUME NEW p \in Runners,
             VoteApplies(job[p], ballot[p].seen, ballot[p].late),
             WriteVote(job[p], VoterOf(p), op[p], ballot[p].seen)
      PROVE  /\ votes[r] \subseteq votes'[r]
             /\ status[r] \in Resolved => status'[r] = status[r] /\ votes'[r] = votes[r]
  <2>1. PICK q \in Requests : q = job[p]
    BY DEF TypeOK, Procs
  <2>2. CASE r # q
    BY <1>4, <2>1, <2>2 DEF WriteVote, TypeOK, StoreTypeOK
  <2>3. CASE r = q
    BY <1>4, <2>1, <2>3 DEF VoteApplies, WriteVote, TypeOK, StoreTypeOK, Resolved
  <2> QED
    BY <2>2, <2>3
<1> QED
  BY <1>1, <1>2, <1>3, <1>4, StepEffect DEF Effect, Allow, CallAdapter, store

(***************************************************************************)
(* A recorded vote is never lost and a decision never changes, whichever   *)
(* processes race.                                                         *)
(***************************************************************************)
THEOREM DecisionsNeverChange == Spec => DecisionsStand
BY TypeCorrect, RowStays, PTL DEF Spec, DecisionsStand

\* A process about to write its vote has seen no vote of its own identity.
FreshVoter == \A p \in Procs : pc[p] = "vote_write" => ~HasVoted(ballot[p].seen, VoterOf(p))

CountedVotes ==
    \A r \in Requests :
        /\ IsFiniteSet(votes[r])
        /\ status[r] = "absent" => votes[r] = {}

VoteInv == TypeOK /\ FreshVoter /\ CountedVotes /\ VotesDecideStatus

LEMMA FreshVoterNext ==
    ASSUME TypeOK, FreshVoter, [Next]_vars
    PROVE  FreshVoter'
<1> SUFFICES ASSUME Next PROVE FreshVoter'
  BY DEF vars, local, FreshVoter
<1> USE DEF TypeOK, FreshVoter, At, Goto, Step, Finish, Conclude, Rested, local, Procs, Runners
<1>1. CASE Clock
  BY <1>1 DEF Clock
<1>2. ASSUME NEW r \in Requests, Agent(r) PROVE FreshVoter'
  BY <1>2 DEF Agent, Reject, Allow, NeedApproval, RequestApproval, RequestApprovalFails, Hold, HoldFails
<1>3. ASSUME NEW p \in Deciders, Decider(p) PROVE FreshVoter'
  BY <1>3 DEF Decider, RestRequest, CliCommand, Take, Lookup, ExpireStale, Refresh, RemoveHeld, Reload,
     Resume, Recheck, Rehold
<1>4. ASSUME NEW p \in Runners, Runner(p) PROVE FreshVoter'
  <2>1. CASE VoteRead(p)
    BY <2>1 DEF VoteRead, VoteRefused, VoteGivesUp
  <2>2. CASE VoteWrite(p)
    BY <2>2 DEF VoteWrite, VoteGivesUp, AfterVote
  <2>3. CASE VoteNow(p) \/ Prepare(p) \/ CallAdapter(p) \/ Finalize(p)
    BY <2>3 DEF VoteNow, Prepare, CallAdapter, Finalize
  <2> QED
    BY <1>4, <2>1, <2>2, <2>3 DEF Runner
<1>5. ASSUME NEW s \in Sweepers, Sweep(s) PROVE FreshVoter'
  BY <1>5 DEF Sweep, SweepList, SweepExpire, SweepRemove
<1>6. ASSUME NEW p \in Procs, Abort(p) PROVE FreshVoter'
  BY <1>6 DEF Abort
<1> QED
  BY <1>1, <1>2, <1>3, <1>4, <1>5, <1>6 DEF Next

\* What the properties say of one request.
Told(st, vs, needed) ==
    LET denials == {v \in vs : v.decision = "denied"}
    IN  /\ \A v, w \in vs : v.who = w.who => v = w
        /\ st = "denied" <=> denials # {}
        /\ st = "approved" => ApprovedVotes(vs) >= needed
        /\ st \in {"pending", "expired"} => ApprovedVotes(vs) < needed

LEMMA ApprovedVotesType ==
    ASSUME NEW vs, IsFiniteSet(vs)
    PROVE  ApprovedVotes(vs) \in Nat
<1>1. IsFiniteSet({v \in vs : v.decision = "approved"})
  BY FS_Subset
<1> QED
  BY <1>1, FS_CardinalityType DEF ApprovedVotes

LEMMA NoVotes == ApprovedVotes({}) = 0
<1>1. {v \in {} : v.decision = "approved"} = {}
  OBVIOUS
<1> QED
  BY <1>1, FS_EmptySet DEF ApprovedVotes

LEMMA OneMoreVote ==
    ASSUME NEW vs \in SUBSET Vote, IsFiniteSet(vs), NEW needed \in Nat,
           NEW who \in Voters, NEW d \in Decisions,
           Told("pending", vs, needed), ~HasVoted(vs, who)
    PROVE  LET ws == vs \cup {[who |-> who, decision |-> d]}
           IN  IsFiniteSet(ws) /\ Told(StatusAfter(ws, d, needed), ws, needed)
<1> DEFINE new == [who |-> who, decision |-> d]
           ws == vs \cup {new}
<1>1. IsFiniteSet(ws)
  BY FS_AddElement
<1>2. ApprovedVotes(ws) \in Nat
  BY <1>1, ApprovedVotesType
<1>3. \A v, w \in ws : v.who = w.who => v = w
  BY DEF Told, HasVoted
<1>4. \A v \in vs : v.decision # "denied"
  BY DEF Told
<1>5. CASE d = "denied"
  <2>1. StatusAfter(ws, d, needed) = "denied"
    BY <1>5 DEF StatusAfter
  <2>2. new \in {v \in ws : v.decision = "denied"}
    BY <1>5
  <2> QED
    BY <1>1, <1>3, <2>1, <2>2 DEF Told
<1>6. CASE d = "approved"
  <2>1. {v \in ws : v.decision = "denied"} = {}
    BY <1>4, <1>6
  <2>2. StatusAfter(ws, d, needed) = (IF ApprovedVotes(ws) >= needed THEN "approved" ELSE "pending")
    BY <1>6 DEF StatusAfter
  <2>3. CASE ApprovedVotes(ws) >= needed
    BY <1>1, <1>3, <2>1, <2>2, <2>3 DEF Told
  <2>4. CASE ApprovedVotes(ws) < needed
    BY <1>1, <1>2, <1>3, <2>1, <2>2, <2>4 DEF Told
  <2> QED
    BY <1>2, <2>3, <2>4
<1> QED
  BY <1>5, <1>6 DEF Decisions

LEMMA VoteInvNext ==
    ASSUME VoteInv, [Next]_vars
    PROVE  CountedVotes' /\ VotesDecideStatus'
<1> USE DEF VoteInv
<1>0. \A r \in Requests : Told(status[r], votes[r], required[r]) /\ required[r] \in Nat /\ votes[r] \in SUBSET Vote
  BY QuorumsAssumption DEF VotesDecideStatus, Told, TypeOK, StoreTypeOK
<1> SUFFICES ASSUME NEW r \in Requests
             PROVE  /\ IsFiniteSet(votes'[r])
                    /\ status'[r] = "absent" => votes'[r] = {}
                    /\ Told(status'[r], votes'[r], required'[r])
  BY DEF VotesDecideStatus, CountedVotes, Told
<1>1. CASE UNCHANGED <<status, votes, required>>
  BY <1>0, <1>1 DEF CountedVotes
<1>2. ASSUME NEW q \in Requests, CreateApproval(q)
      PROVE  /\ IsFiniteSet(votes'[r])
             /\ status'[r] = "absent" => votes'[r] = {}
             /\ Told(status'[r], votes'[r], required'[r])
  <2>1. votes' = votes /\ required' = required /\ status' = [status EXCEPT ![q] = "pending"] /\ status[q] = "absent"
    BY <1>2 DEF CreateApproval
  <2>2. votes[q] = {} /\ required[q] \in Nat \ {0}
    BY <2>1, QuorumsAssumption DEF CountedVotes, TypeOK, StoreTypeOK
  <2>3. Told("pending", votes[q], required[q])
    BY <2>2, NoVotes DEF Told
  <2> QED
    BY <1>0, <2>1, <2>3 DEF CountedVotes, TypeOK, StoreTypeOK
<1>3. ASSUME NEW q \in Requests, Expirable(q), ExpireApproval(q)
      PROVE  /\ IsFiniteSet(votes'[r])
             /\ status'[r] = "absent" => votes'[r] = {}
             /\ Told(status'[r], votes'[r], required'[r])
  <2>1. votes' = votes /\ required' = required /\ status' = [status EXCEPT ![q] = "expired"] /\ status[q] = "pending"
    BY <1>3 DEF ExpireApproval, Expirable
  <2>2. Told("expired", votes[q], required[q])
    BY <1>0, <2>1 DEF Told
  <2> QED
    BY <1>0, <2>1, <2>2 DEF CountedVotes, TypeOK, StoreTypeOK
<1>4. ASSUME NEW p \in Runners, pc[p] = "vote_write",
             VoteApplies(job[p], ballot[p].seen, ballot[p].late),
             WriteVote(job[p], VoterOf(p), op[p], ballot[p].seen)
      PROVE  /\ IsFiniteSet(votes'[r])
             /\ status'[r] = "absent" => votes'[r] = {}
             /\ Told(status'[r], votes'[r], required'[r])
  <2>1. PICK q \in Requests : q = job[p]
    BY DEF TypeOK, Procs
  <2>2. PICK d \in Decisions : d = op[p]
    BY DEF TypeOK, Procs
  <2> DEFINE ws == votes[q] \cup {[who |-> VoterOf(p), decision |-> d]}
  <2>3. status[q] = "pending" /\ ballot[p].seen = votes[q]
    BY <1>4, <2>1 DEF VoteApplies
  <2>4. ~HasVoted(votes[q], VoterOf(p))
    BY <1>4, <2>3 DEF FreshVoter, Procs
  <2>5. /\ votes' = [votes EXCEPT ![q] = ws]
        /\ status' = [status EXCEPT ![q] = StatusAfter(ws, d, required[q])]
        /\ required' = required
    BY <1>4, <2>1, <2>2, <2>3 DEF WriteVote
  <2>6. IsFiniteSet(ws) /\ Told(StatusAfter(ws, d, required[q]), ws, required[q])
    BY <1>0, <2>3, <2>4, OneMoreVote, VoterIsVoter DEF CountedVotes
  <2>7. StatusAfter(ws, d, required[q]) # "absent"
    BY DEF StatusAfter, Decisions
  <2> HIDE DEF ws
  <2> QED
    BY <1>0, <2>5, <2>6, <2>7 DEF CountedVotes, TypeOK, StoreTypeOK
<1> QED
  BY <1>1, <1>2, <1>3, <1>4, StepEffect DEF Effect, Allow, CallAdapter, store

(***************************************************************************)
(* No identity counts twice, and the status always says what the recorded  *)
(* votes and the quorum say, for any quorum and any number of voters.      *)
(***************************************************************************)
THEOREM VotesDecide == Spec => []VotesDecideStatus
<1>1. Init => VoteInv
  <2> SUFFICES ASSUME Init PROVE VoteInv
    OBVIOUS
  <2>1. FreshVoter
    BY DEF Init, FreshVoter
  <2>2. CountedVotes
    BY FS_EmptySet DEF Init, StoreInit, CountedVotes
  <2>3. VotesDecideStatus
    BY DEF Init, StoreInit, VotesDecideStatus
  <2> QED
    BY <2>1, <2>2, <2>3, TypeInit DEF VoteInv
<1>2. VoteInv /\ [Next]_vars => VoteInv'
  BY TypeNext, FreshVoterNext, VoteInvNext DEF VoteInv
<1>3. VoteInv => VotesDecideStatus
  BY DEF VoteInv
<1> QED
  BY <1>1, <1>2, <1>3, PTL DEF Spec

------------------------------------------------------------------------------
(***************************************************************************)
(* Who deletes a held call.  Everybody but the CLI deletes it only after   *)
(* it has seen its request denied or expired, which stays so; the CLI      *)
(* deletes it after an expiry that may have changed nothing.               *)
(***************************************************************************)
RemovePcs == {"remove", "sweep_remove"}

Over(p) == status[job[p]] \in {"denied", "expired"}

RemoveInv == \A p \in Procs \ Cli : pc[p] \in RemovePcs => Over(p)

\* p stops being about to remove a call, or becomes so with its request over.
LEMMA RemoveFrame ==
    ASSUME TypeOK, RemoveInv, [Next]_vars, NEW p \in Procs, OthersStay(p),
           p \notin Cli /\ pc'[p] \in RemovePcs => Over(p)'
    PROVE  RemoveInv'
<1> SUFFICES ASSUME NEW q \in Procs \ Cli, q # p, pc'[q] \in RemovePcs PROVE Over(q)'
  BY DEF RemoveInv
<1>1. job'[q] = job[q] /\ job[q] \in Requests /\ Over(q)
  BY DEF OthersStay, RemoveInv, TypeOK
<1> QED
  BY <1>1, RowStays DEF Over, Resolved

LEMMA RemoveInvNext ==
    ASSUME TypeOK, RemoveInv, [Next]_vars
    PROVE  RemoveInv'
<1> USE DEF RemovePcs
<1>0. ControlFacts
  BY Control
<1>1. CASE UNCHANGED vars
  BY <1>1 DEF vars, local, store, RemoveInv, Over
<1>2. CASE Clock
  BY <1>2 DEF Clock, Elapse, local, RemoveInv, Over
<1>3. ASSUME NEW r \in Requests, Agent(r) PROVE RemoveInv'
  <2>1. r \in Procs
    BY DEF Procs, Runners
  <2>2. OthersStay(r) /\ pc'[r] \notin RemovePcs
    BY <1>0, <1>3, <2>1
       DEF Agent, Reject, Allow, NeedApproval, RequestApproval, RequestApprovalFails, Hold, HoldFails,
           ControlFacts, Moves, Reports, OthersStay, Goto, TypeOK
  <2> QED
    BY <2>1, <2>2, RemoveFrame
<1>4. ASSUME NEW p \in Deciders, Decider(p) PROVE RemoveInv'
  <2>0. p \in Procs /\ job[p] \in Requests /\ \A r \in Requests : status[r] \in {"absent", "pending"} \cup Resolved
    BY DEF Procs, Runners, TypeOK, StoreTypeOK
  <2>1. ASSUME NEW r \in Requests, NEW d \in Decisions, RestRequest(p, r, d) \/ CliCommand(p, r, d)
        PROVE  OthersStay(p) /\ pc'[p] \notin RemovePcs
    BY <2>0, <2>1 DEF RestRequest, CliCommand, Take, Goto, OthersStay, TypeOK
  <2>2. CASE Lookup(p)
    <3>1. \/ Finish(p)
          \/ \E l \in {"remove", "expire", "vote_now", "resume"} :
                Step(p, l) /\ (l = "remove" => status[job[p]] = "expired")
      BY <2>2 DEF Lookup
    <3>2. OthersStay(p) /\ (pc'[p] \in RemovePcs => status[job[p]] = "expired" /\ job'[p] = job[p])
      <4>1. CASE Finish(p)
        BY <1>0, <2>0, <4>1 DEF ControlFacts, Returns
      <4>2. CASE \E l \in {"remove", "expire", "vote_now", "resume"} :
                     Step(p, l) /\ (l = "remove" => status[job[p]] = "expired")
        BY <1>0, <2>0, <2>2, <4>2 DEF ControlFacts, Moves
      <4> QED
        BY <3>1, <4>1, <4>2
    <3>3. status' = status
      BY <2>2 DEF Lookup, store
    <3> QED
      BY <2>0, <3>2, <3>3, RemoveFrame DEF Over
  <2>3. CASE ExpireStale(p)
    <3>1. Moves(p, "remove") \/ Moves(p, "refresh")
      BY <1>0, <2>0, <2>3 DEF ExpireStale, ControlFacts
    <3>2. OthersStay(p) /\ job'[p] = job[p]
      BY <3>1 DEF Moves
    <3>3. p \notin Cli /\ pc'[p] \in RemovePcs => Expirable(job[p])
      BY <1>0, <2>0, <2>3 DEF ExpireStale, ControlFacts, Moves
    <3>4. Expirable(job[p]) => status'[job[p]] = "expired"
      BY <2>0, <2>3 DEF ExpireStale, ExpireApproval, TypeOK, StoreTypeOK
    <3> QED
      BY <2>0, <3>2, <3>3, <3>4, RemoveFrame DEF Over
  <2>4. CASE Refresh(p)
    <3>1. OthersStay(p) /\ (pc'[p] \in RemovePcs => status[job[p]] = "expired" /\ job'[p] = job[p])
      BY <1>0, <2>0, <2>4 DEF Refresh, ControlFacts, Moves, Returns
    <3>2. status' = status
      BY <2>4 DEF Refresh, store
    <3> QED
      BY <2>0, <3>1, <3>2, RemoveFrame DEF Over
  <2>5. CASE RemoveHeld(p) \/ Reload(p) \/ Resume(p) \/ Recheck(p) \/ Rehold(p)
    <3>1. OthersStay(p) /\ pc'[p] \notin RemovePcs
      BY <1>0, <2>0, <2>5 DEF RemoveHeld, Reload, Resume, Recheck, Rehold, ControlFacts, Moves, Returns, Reports
    <3> QED
      BY <2>0, <3>1, RemoveFrame
  <2> QED
    BY <1>4, <2>0, <2>1, <2>2, <2>3, <2>4, <2>5, RemoveFrame DEF Decider
<1>5. ASSUME NEW p \in Runners, Runner(p) PROVE RemoveInv'
  <2>0. p \in Procs /\ job[p] \in Requests
    BY DEF Procs, TypeOK
  <2>1. CASE VoteNow(p) \/ CallAdapter(p)
    BY <2>0, <2>1, RemoveFrame DEF VoteNow, CallAdapter, OthersStay, Goto, TypeOK
  <2>2. CASE VoteRead(p)
    <3>1. OthersStay(p) /\ pc'[p] \notin RemovePcs
      BY <1>0, <2>0, <2>2 DEF VoteRead, VoteGivesUp, ControlFacts, Moves, Returns, Reports, OthersStay, Goto, TypeOK
    <3> QED
      BY <2>0, <3>1, RemoveFrame
  <2>3. CASE VoteWrite(p)
    <3>1. CASE VoteApplies(job[p], ballot[p].seen, ballot[p].late)
      <4>1. WriteVote(job[p], VoterOf(p), op[p], ballot[p].seen) /\ AfterVote(p)
        BY <2>3, <3>1 DEF VoteWrite
      <4>2. OthersStay(p) /\ (pc'[p] \in RemovePcs => op[p] = "denied" /\ job'[p] = job[p])
        BY <1>0, <2>0, <4>1 DEF AfterVote, ControlFacts, Moves, Reports, TypeOK, Decisions, Procs, Runners
      <4>3. op[p] = "denied" => status'[job[p]] = "denied"
        BY <2>0, <4>1 DEF WriteVote, StatusAfter, TypeOK, StoreTypeOK
      <4> QED
        BY <2>0, <4>2, <4>3, RemoveFrame DEF Over
    <3>2. CASE ~VoteApplies(job[p], ballot[p].seen, ballot[p].late)
      <4>1. OthersStay(p) /\ pc'[p] \notin RemovePcs
        BY <1>0, <2>0, <2>3, <3>2
           DEF VoteWrite, VoteGivesUp, ControlFacts, Returns, Reports, OthersStay, Goto, TypeOK
      <4> QED
        BY <2>0, <4>1, RemoveFrame
    <3> QED
      BY <3>1, <3>2
  <2>4. CASE Prepare(p) \/ Finalize(p)
    <3>1. OthersStay(p) /\ pc'[p] \notin RemovePcs
      BY <1>0, <2>0, <2>4 DEF Prepare, Finalize, ControlFacts, Moves, Returns, Reports, OthersStay, Goto, TypeOK
    <3> QED
      BY <2>0, <3>1, RemoveFrame
  <2> QED
    BY <1>5, <2>1, <2>2, <2>3, <2>4 DEF Runner
<1>6. ASSUME NEW s \in Sweepers, Sweep(s) PROVE RemoveInv'
  <2>0. s \in Procs /\ job[s] \in Requests /\ todo[s] \subseteq Requests
    BY DEF Procs, TypeOK
  <2>1. CASE SweepList(s) \/ SweepRemove(s)
    <3>1. OthersStay(s) /\ pc'[s] \notin RemovePcs
      BY <1>0, <2>0, <2>1 DEF SweepList, SweepRemove, ControlFacts, Moves, OthersStay, Goto, TypeOK
    <3> QED
      BY <2>0, <3>1, RemoveFrame
  <2>2. CASE \E r \in todo[s] :
               /\ ExpireApproval(r) /\ At(s, "sweep")
               /\ IF Expirable(r)
                  THEN job' = [job EXCEPT ![s] = r] /\ Goto(s, "sweep_remove")
                  ELSE UNCHANGED <<job, pc>>
               /\ UNCHANGED verdict
    <3>1. PICK r \in todo[s] :
               /\ ExpireApproval(r) /\ At(s, "sweep")
               /\ IF Expirable(r)
                  THEN job' = [job EXCEPT ![s] = r] /\ Goto(s, "sweep_remove")
                  ELSE UNCHANGED <<job, pc>>
               /\ UNCHANGED verdict
      BY <2>2
    <3>2. OthersStay(s) /\ (pc'[s] \in RemovePcs => Expirable(r) /\ job'[s] = r)
      BY <2>0, <3>1 DEF OthersStay, Goto, At, TypeOK
    <3>3. Expirable(r) => status'[r] = "expired"
      BY <2>0, <3>1 DEF ExpireApproval, TypeOK, StoreTypeOK
    <3> QED
      BY <2>0, <3>2, <3>3, RemoveFrame DEF Over
  <2>3. CASE Finish(s)
    BY <1>0, <2>0, <2>3, RemoveFrame DEF ControlFacts, Returns
  <2> QED
    BY <1>6, <2>1, <2>2, <2>3 DEF Sweep, SweepExpire
<1>7. ASSUME NEW p \in Procs, Abort(p) PROVE RemoveInv'
  BY <1>0, <1>7, RemoveFrame DEF Abort, ControlFacts, Returns
<1> QED
  BY <1>1, <1>2, <1>3, <1>4, <1>5, <1>6, <1>7 DEF Next

LEMMA RemoveInvariance == Spec => []RemoveInv
<1>1. Init => RemoveInv
  BY DEF Init, RemoveInv, RemovePcs
<1> QED
  BY <1>1, RemoveInvNext, TypeCorrect, PTL DEF Spec

\* The steps that make a held call disappear.
LEMMA WhoRemoves ==
    ASSUME TypeOK, [Next]_vars, NEW r \in Requests, held[r], ~held'[r]
    PROVE  \E p \in Procs : /\ pc[p] \in {"resume"} \cup RemovePcs
                            /\ job[p] = r
                            /\ pc[p] = "resume" => p \in Deciders
                            /\ pc[p] = "sweep_remove" => p \in Sweepers
<1> USE DEF At, RemovePcs, Procs, Runners
<1>0. \A q \in Requests : SetHeld(q, FALSE) => q = r
  BY DEF SetHeld, TypeOK, StoreTypeOK
<1>1. CASE Clock \/ UNCHANGED vars \/ \E p \in Procs : Abort(p)
  BY <1>1 DEF Clock, Elapse, Abort, store, vars
<1>2. ASSUME NEW q \in Requests PROVE ~Agent(q)
  BY <1>2 DEF Agent, Reject, Allow, NeedApproval, RequestApproval, RequestApprovalFails, Hold, HoldFails,
              HoldExecution, SetHeld, CreateApproval, store, TypeOK, StoreTypeOK
<1>3. ASSUME NEW p \in Deciders, Decider(p) PROVE pc[p] \in {"resume", "remove"} /\ job[p] = r
  <2>0. job[p] \in Requests
    BY DEF TypeOK
  <2>1. RemoveHeld(p) \/ Resume(p)
    BY <1>3, <2>0 DEF Decider, RestRequest, CliCommand, Take, Lookup, ExpireStale, ExpireApproval, Refresh, Reload,
                Recheck, Rehold, HoldExecution, SetHeld, store, TypeOK, StoreTypeOK
  <2> QED
    BY <1>0, <2>0, <2>1 DEF RemoveHeld, Resume, RemoveExecution, TakeExecution, store
<1>4. ASSUME NEW p \in Runners PROVE ~Runner(p)
  BY <1>4 DEF Runner, VoteNow, VoteRead, VoteWrite, WriteVote, Prepare, CallAdapter, Finalize, store
<1>5. ASSUME NEW s \in Sweepers, Sweep(s) PROVE pc[s] = "sweep_remove" /\ job[s] = r
  <2>0. job[s] \in Requests
    BY DEF TypeOK
  <2> QED
    BY <1>0, <1>5, <2>0 DEF Sweep, SweepList, SweepExpire, SweepRemove, ExpireApproval, RemoveExecution, store
<1> QED
  BY <1>1, <1>2, <1>3, <1>4, <1>5 DEF Next

(***************************************************************************)
(* A held call is deleted to be run, or because its request was denied or  *)
(* expired, or by a CLI command that took its request for expired: no      *)
(* other process removes a call that was approved meanwhile.               *)
(***************************************************************************)
THEOREM OnlyCliRemovesApproved ==
    Spec => [][\A r \in Requests :
                  held[r] /\ ~held'[r] =>
                      \/ status[r] \in {"denied", "expired"}
                      \/ \E p \in Deciders : pc[p] = "resume" /\ job[p] = r
                      \/ \E p \in Cli : pc[p] = "remove" /\ job[p] = r]_vars
<1>1. TypeOK /\ RemoveInv /\ [Next]_vars =>
        \A r \in Requests :
            held[r] /\ ~held'[r] =>
                \/ status[r] \in {"denied", "expired"}
                \/ \E p \in Deciders : pc[p] = "resume" /\ job[p] = r
                \/ \E p \in Cli : pc[p] = "remove" /\ job[p] = r
  BY WhoRemoves, ProcsAssumption DEF RemoveInv, Over, RemovePcs, Runners, Deciders
<1> QED
  BY <1>1, TypeCorrect, RemoveInvariance, PTL DEF Spec

(***************************************************************************)
(* Without CLI approvers, as on a server whose operators use the REST API, *)
(* the repository's promise holds as it stands.                            *)
(***************************************************************************)
THEOREM RestKeepsApprovedCalls == ASSUME Cli = {} PROVE Spec => ApprovedCallIsKept
<1>1. TypeOK /\ RemoveInv /\ [Next]_vars =>
        \A r \in Requests :
            held[r] /\ ~held'[r] =>
                \/ status[r] \in {"denied", "expired"}
                \/ \E p \in Deciders : pc[p] = "resume" /\ job[p] = r
  BY WhoRemoves DEF RemoveInv, Over, RemovePcs
<1> QED
  BY <1>1, TypeCorrect, RemoveInvariance, PTL DEF Spec, ApprovedCallIsKept

------------------------------------------------------------------------------
\* The gate's steps as the abstract gate sees them.

LEMMA InitRefines == Init => Abstract!Init
BY DEF Init, StoreInit, Abstract!Init, Phase

LEMMA NextRefines ==
    ASSUME IInv, [Next]_vars
    PROVE  [Abstract!Next]_(Abstract!gate)
<1> DEFINE phase == [r \in Requests |-> Phase(r)]
           succeeded == {r \in Requests : wins[r] > 0}
<1> USE DEF IInv
<1> SUFFICES ASSUME Effect PROVE [Abstract!Next]_(Abstract!gate)
  BY StepEffect
<1>0. TypeOK'
  BY TypeNext
<1>1. CASE UNCHANGED <<status, votes, required, allowed, wins>>
  BY <1>1 DEF Phase, Abstract!gate
<1>2. ASSUME NEW r \in Requests, NEW from, NEW to, from # to, UNCHANGED wins,
             Phase(r) = from, Phase(r)' = to,
             \A q \in Requests \ {r} : Phase(q)' = Phase(q)
      PROVE  Abstract!Move(r, from, to)
  BY <1>2 DEF Abstract!Move, Phase
<1>3. ASSUME NEW r \in Requests, pc[r] = "submit", CreateApproval(r), UNCHANGED <<allowed, wins>>
      PROVE  Abstract!Next
  <2>1. ~allowed[r] /\ status[r] = "absent"
    BY <1>3 DEF Safe, Triaged
  <2>2. Phase(r) = "undecided" /\ Phase(r)' = "pending" /\ \A q \in Requests \ {r} : Phase(q)' = Phase(q)
    BY <1>3, <2>1 DEF Phase, CreateApproval, TypeOK, StoreTypeOK
  <2> QED
    BY <1>2, <1>3, <2>2 DEF Abstract!Next, Abstract!Triage
<1>4. ASSUME NEW r \in Requests, Expirable(r), ExpireApproval(r), UNCHANGED <<allowed, wins>>
      PROVE  Abstract!Next
  <2>1. Phase(r) = "pending" /\ Phase(r)' = "expired" /\ \A q \in Requests \ {r} : Phase(q)' = Phase(q)
    BY <1>4 DEF Phase, ExpireApproval, Expirable, TypeOK, StoreTypeOK
  <2> QED
    BY <1>2, <1>4, <2>1 DEF Abstract!Next, Abstract!Decide
<1>5. ASSUME NEW p \in Runners, UNCHANGED <<allowed, wins>>,
             VoteApplies(job[p], ballot[p].seen, ballot[p].late),
             WriteVote(job[p], VoterOf(p), op[p], ballot[p].seen)
      PROVE  [Abstract!Next]_(Abstract!gate)
  <2>1. PICK r \in Requests : r = job[p]
    BY DEF TypeOK, Procs
  <2>2. status[r] = "pending" /\ \A q \in Requests \ {r} : status'[q] = status[q]
    BY <1>5, <2>1 DEF VoteApplies, WriteVote, TypeOK, StoreTypeOK
  <2>3. status'[r] \in {"pending", "approved", "denied"}
    BY <1>5, <2>1 DEF WriteVote, StatusAfter, TypeOK, StoreTypeOK
  <2>4. Phase(r) = "pending" /\ Phase(r)' = status'[r] /\ \A q \in Requests \ {r} : Phase(q)' = Phase(q)
    BY <1>5, <2>2, <2>3 DEF Phase
  <2>5. CASE status'[r] = "pending"
    BY <1>5, <2>4, <2>5 DEF Abstract!gate
  <2>6. CASE status'[r] \in {"approved", "denied"}
    BY <1>2, <1>5, <2>4, <2>6 DEF Abstract!Next, Abstract!Decide
  <2> QED
    BY <2>3, <2>5, <2>6
<1>6. ASSUME NEW r \in Requests, Allow(r)
      PROVE  Abstract!Next
  <2>1. pc[r] = "new" /\ UNCHANGED <<status, wins>> /\ allowed' = [allowed EXCEPT ![r] = TRUE]
    BY <1>6 DEF Allow, At, store
  <2>2. status[r] = "absent" /\ ~allowed[r]
    BY <2>1 DEF Safe, Triaged
  <2>3. Phase(r) = "undecided" /\ Phase(r)' = "allowed" /\ \A q \in Requests \ {r} : Phase(q)' = Phase(q)
    BY <2>1, <2>2 DEF Phase, TypeOK
  <2> QED
    BY <1>2, <2>1, <2>3 DEF Abstract!Next, Abstract!Triage
<1>7. ASSUME NEW p \in Runners, CallAdapter(p)
      PROVE  [Abstract!Next]_(Abstract!gate)
  <2>1. PICK r \in Requests : r = job[p]
    BY DEF TypeOK, Procs
  <2>2. pc[p] = "call" /\ UNCHANGED <<status, allowed>>
    BY <1>7 DEF CallAdapter, At, store
  <2>3. \A q \in Requests : Phase(q)' = Phase(q)
    BY <2>2 DEF Phase
  <2>4. PICK n \in {0, 1} : wins' = [wins EXCEPT ![r] = @ + n]
    BY <1>7, <2>1 DEF CallAdapter
  <2>5. CASE n = 0
    <3>1. wins' = wins
      BY <2>4, <2>5 DEF TypeOK
    <3> QED
      BY <2>3, <3>1 DEF Abstract!gate
  <2>6. CASE n = 1
    <3>1. wins[r] = 0 /\ Phase(r) \in {"allowed", "approved"}
      <4>1. CASE p \in Deciders
        <5>1. Carries(p, r) /\ status[r] = "approved"
          BY <2>1, <2>2, <4>1 DEF Carries, RunPcs, Safe, ResultInv, GatedCallIsApproved, Procs
        <5> QED
          BY <4>1, <5>1 DEF Safe, OneOwner, Phase
      <4>2. CASE p \in Requests
        <5>1. p = r /\ AgentHas(r) /\ allowed[r] /\ status[r] = "absent"
          BY <2>1, <2>2, <4>2 DEF AgentHas, Safe, OwnCall, GatedCallIsApproved, Triaged
        <5> QED
          BY <5>1 DEF Safe, OneOwner, Phase
      <4> QED
        BY <4>1, <4>2 DEF Runners
    <3>2. wins'[r] = 1 /\ \A q \in Requests \ {r} : wins'[q] = wins[q]
      BY <2>4, <2>6, <3>1 DEF TypeOK
    <3>3. succeeded' = succeeded \cup {r} /\ r \notin succeeded
      BY <3>1, <3>2
    <3>4. phase' = phase
      BY <2>3
    <3> QED
      BY <3>1, <3>3, <3>4 DEF Abstract!Next, Abstract!Succeed
  <2> QED
    BY <2>5, <2>6
<1> QED
  BY <1>1, <1>3, <1>4, <1>5, <1>6, <1>7 DEF Effect

(***************************************************************************)
(* The approval gate, with its processes, races and crashes, implements    *)
(* the abstract promise: one decision per request, and at most one success *)
(* of a request that was let through or approved.                          *)
(***************************************************************************)
THEOREM GateRefines == Spec => ImplementsActionGate
<1>1. Init => Abstract!Init
  BY InitRefines
<1>2. IInv /\ [Next]_vars => [Abstract!Next]_(Abstract!gate)
  BY NextRefines
<1> QED
  BY <1>1, <1>2, Invariance, PTL DEF Spec, ImplementsActionGate, Abstract!Spec
=============================================================================
