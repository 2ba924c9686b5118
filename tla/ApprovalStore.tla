---------------------------- MODULE ApprovalStore ----------------------------
(***************************************************************************)
(* The two SQL tables the approval gate is built on: approvals (one row    *)
(* per approval request) and held_executions (the suspended call of that   *)
(* request, keyed by the approval's id).  Each operator is one statement   *)
(* or one transaction, so it is one atomic step of whoever runs it.        *)
(*                                                                         *)
(* Time is abstracted to what the statements compare: past[r] says the     *)
(* clock has reached expires_at of r.  A caller that compared an earlier   *)
(* clock reading passes that reading in.                                   *)
(***************************************************************************)
EXTENDS FiniteSets, Naturals

CONSTANTS
    Requests,   \* approval ids; one per gated pipeline execution
    Voters,     \* approver identities: principals, "cli", "system"
    Quorums     \* the values required_approvals takes (1 unless a caller sets it)

ASSUME QuorumsAssumption == Quorums # {} /\ Quorums \subseteq Nat \ {0}

VARIABLES
    status,     \* status[r]: the status column; "absent" before the insert
    required,   \* required[r]: the required_approvals column
    votes,      \* votes[r]: votes_json as the set of votes appended to it
    held,       \* held[r]: the held_executions row of r exists
    past        \* past[r]: the clock is at or after expires_at of r

store == <<status, required, votes, held, past>>

Decisions == {"approved", "denied"}
Resolved == {"approved", "denied", "expired"}
Vote == [who : Voters, decision : Decisions]

StoreTypeOK ==
    /\ status \in [Requests -> {"absent", "pending"} \cup Resolved]
    /\ required \in [Requests -> Quorums]
    /\ votes \in [Requests -> SUBSET Vote]
    /\ held \in [Requests -> BOOLEAN]
    /\ past \in [Requests -> BOOLEAN]

StoreInit ==
    /\ status = [r \in Requests |-> "absent"]
    /\ required \in [Requests -> Quorums]
    /\ votes = [r \in Requests |-> {}]
    /\ held = [r \in Requests |-> FALSE]
    /\ past = [r \in Requests |-> FALSE]

------------------------------------------------------------------------------
(* approvals *)

\* The insert; an unset quorum has become 1, an unset status "pending".
CreateApproval(r) ==
    /\ status[r] = "absent"
    /\ status' = [status EXCEPT ![r] = "pending"]
    /\ UNCHANGED <<required, votes, held, past>>

ApprovedVotes(vs) == Cardinality({v \in vs : v.decision = "approved"})

\* Only denials looked for, as if an approver might still change its mind.
HasDenied(vs, who) == \E v \in vs : v.who = who /\ v.decision = "denied"

HasVoted(vs, who) == \E v \in vs : v.who = who

\* The status a vote leaves behind: one denial decides, approvals count.
StatusAfter(vs, decision, needed) ==
    CASE decision = "denied" -> "denied"
      [] decision = "approved" /\ ApprovedVotes(vs) >= needed -> "approved"
      [] OTHER -> "pending"

\* Without the votes_json comparison, the later of two votes overwrites the other.
VoteAppliesBlind(r, seen, late) == status[r] = "pending" /\ ~late

\* WHERE of the vote's UPDATE: pending, not expired by the clock reading the
\* attempt started with, and no vote since the attempt read the row.
VoteApplies(r, seen, late) ==
    /\ status[r] = "pending"
    /\ ~late
    /\ votes[r] = seen

WriteVote(r, who, decision, seen) ==
    LET vs == seen \cup {[who |-> who, decision |-> decision]}
    IN  /\ votes' = [votes EXCEPT ![r] = vs]
        /\ status' = [status EXCEPT ![r] = StatusAfter(vs, decision, required[r])]
        /\ UNCHANGED <<required, held, past>>

Expirable(r) == status[r] = "pending" /\ past[r]

\* ListExpiredPendingApprovals joined with the held calls: a request whose hold
\* failed would stay pending for good.
DueHeld == {r \in Requests : Expirable(r) /\ held[r]}

\* ListExpiredPendingApprovals
Due == {r \in Requests : Expirable(r)}

\* A compare-and-set: no row changes unless the request is pending and past.
ExpireApproval(r) ==
    IF Expirable(r)
    THEN status' = [status EXCEPT ![r] = "expired"] /\ UNCHANGED <<required, votes, held, past>>
    ELSE UNCHANGED store

\* The clock reaches expires_at.
Elapse(r) ==
    /\ status[r] # "absent"
    /\ ~past[r]
    /\ past' = [past EXCEPT ![r] = TRUE]
    /\ UNCHANGED <<status, required, votes, held>>

------------------------------------------------------------------------------
(* held_executions *)

SetHeld(r, b) ==
    /\ held' = [held EXCEPT ![r] = b]
    /\ UNCHANGED <<status, required, votes, past>>

HoldExecution(r) == SetHeld(r, TRUE)      \* upsert
RemoveExecution(r) == SetHeld(r, FALSE)   \* delete, a missing row is no error

\* A resume that reads the row and leaves it there.
TakeWithoutDelete(r) == held[r] /\ UNCHANGED store

\* SELECT and DELETE in one transaction; only who deletes the row gets it.
TakeExecution(r) == held[r] /\ SetHeld(r, FALSE)
=============================================================================
