------------------------------ MODULE PolicyCache ------------------------------
(***************************************************************************)
(* How a tenant's calls are decided by the policy stored for it:           *)
(* storePolicyEvaluator keeps the evaluator built from the last document   *)
(* it read and trusts it for a probe interval; the evaluator keeps the     *)
(* sliding window of the rule's rate limit; PUT /policies writes a new     *)
(* document and then invalidates the cache.  Calls run concurrently and    *)
(* read the store outside the mutex.                                       *)
(*                                                                         *)
(* One tenant, one rule per document that matches every call, one server.  *)
(* Time is counted in ticks.                                               *)
(***************************************************************************)
EXTENDS FiniteSets, Integers

CONSTANTS
    Calls,      \* calls of the tenant's agents
    Docs,       \* policy documents
    Gated,      \* those whose rule asks for approval; the others allow
    Absent,     \* no document
    Fallback,   \* the document of the policy file, or Absent
    Max,        \* max_requests of every document's rule, 0 for no rate limit
    Window,     \* window_sec, in ticks
    Probe,      \* policyStoreProbeInterval, in ticks
    MaxTime,    \* last tick (a bound on the model)
    MaxSets     \* documents set (a bound on the model)

Stored == Docs \cup {Absent}

ASSUME PolicyAssumption ==
    /\ Absent \notin Docs /\ Gated \subseteq Docs /\ Fallback \in Stored
    /\ Max \in Nat /\ Window \in Nat \ {0} /\ Probe \in Nat \ {0}
    /\ MaxTime \in Nat /\ MaxSets \in Nat

VARIABLES
    now,        \* the clock
    doc,        \* the row in policies
    last,       \* last[d]: the latest tick at which d was stored (history)
    sets,       \* documents set so far (history)
    admin,      \* where handleSetPolicy is
    cache,      \* the tenant's entry in storePolicyEvaluator.cache
    made,       \* evaluators built so far
    grants,     \* the requests counted in the evaluators' windows
    pc,         \* pc[c]: where call c is
    began,      \* began[c]: Evaluate's reading of the clock
    use,        \* use[c]: the document read, then the evaluator that decides
    resumed     \* resumed[c]: c was approved and is evaluated again

vars == <<now, doc, last, sets, admin, cache, made, grants, pc, began, use, resumed>>

Never == -Probe
Ticks == 0 .. MaxTime
Readings == Ticks \cup {Never}

\* Evaluator 0 is the policy file's.
Evaluator == [doc : Stored, id : Nat]
FileEvaluator == [doc |-> Absent, id |-> 0]

\* checkedAt is Never where there is no entry; Absent stands for missing.
Entry == [doc : Stored, id : Nat, at : Readings]
NoEntry == [doc |-> Absent, id |-> 0, at |-> Never]

Grant == [id : Nat, at : Ticks, call : Calls, again : BOOLEAN]

Outcomes == {"allowed", "held", "denied", "error"}
Pcs == {"new", "lookup", "read", "install", "evaluate"} \cup Outcomes

TypeOK ==
    /\ now \in Ticks /\ doc \in Stored
    /\ last \in [Stored -> Readings]
    /\ sets \in 0 .. MaxSets
    /\ admin \in {"idle", "invalidate"}
    /\ cache \in Entry /\ made \in Nat
    /\ grants \subseteq Grant
    /\ pc \in [Calls -> Pcs]
    /\ began \in [Calls -> Readings]
    /\ use \in [Calls -> Evaluator]
    /\ resumed \in [Calls -> BOOLEAN]

Init ==
    /\ now = 0 /\ doc \in Stored
    /\ last = [d \in Stored |-> IF d = doc THEN 0 ELSE Never]
    /\ sets = 0 /\ admin = "idle"
    /\ cache = NoEntry /\ made = 0 /\ grants = {}
    /\ pc = [c \in Calls |-> "new"]
    /\ began = [c \in Calls |-> Never]
    /\ use = [c \in Calls |-> FileEvaluator]
    /\ resumed = [c \in Calls |-> FALSE]

------------------------------------------------------------------------------
At(c, l) == pc[c] = l
Goto(c, l) == pc' = [pc EXCEPT ![c] = l]
DecideBy(c, e) == use' = [use EXCEPT ![c] = e]

policies == <<now, doc, last, sets, admin>>

\* Evaluate reads the clock before it locks the cache.
Start(c) ==
    /\ began' = [began EXCEPT ![c] = now]
    /\ Goto(c, "lookup")
    /\ UNCHANGED <<policies, cache, made, grants, use>>

Begin(c) ==
    /\ At(c, "new")
    /\ Start(c)
    /\ UNCHANGED resumed

\* An approver lets c resume: ResumeApproved evaluates the policy again.
Approve(c) ==
    /\ At(c, "held")
    /\ Start(c)
    /\ resumed' = [resumed EXCEPT ![c] = TRUE]

\* The entry was probed less than an interval before c began.
Trusted(c) == began[c] - cache.at < Probe

\* Under the mutex: use the entry, or release it and go to the store.
Lookup(c) ==
    /\ At(c, "lookup")
    /\ IF cache # NoEntry /\ Trusted(c)
       THEN DecideBy(c, [doc |-> cache.doc, id |-> cache.id]) /\ Goto(c, "evaluate")
       ELSE Goto(c, "read") /\ UNCHANGED use
    /\ UNCHANGED <<policies, cache, made, grants, began, resumed>>

\* GetPolicy. When it fails the call is refused; a resumed one is held again.
Read(c) ==
    /\ At(c, "read")
    /\ \/ DecideBy(c, [doc |-> doc, id |-> 0]) /\ Goto(c, "install")
       \/ Goto(c, IF resumed[c] THEN "held" ELSE "error") /\ UNCHANGED use
    /\ UNCHANGED <<policies, cache, made, grants, began, resumed>>

\* checkedAt taken when the answer arrives.
ProbedAtAnswer(c) == now

\* checkedAt of the entry c installs.
ProbedAt(c) == began[c]

\* Every probe builds an evaluator.
NeverSame(c) == FALSE

\* The fingerprint in the entry is that of the document c read.
SameDocument(c) == cache # NoEntry /\ cache.id # 0 /\ cache.doc = use[c].doc

\* Under the mutex again: keep the entry whose fingerprint matches, or install
\* a new evaluator with an empty window.
Install(c) ==
    LET entry == [cache EXCEPT !.at = ProbedAt(c)]
        fresh == [doc |-> use[c].doc, id |-> made + 1, at |-> ProbedAt(c)]
        missing == [doc |-> Absent, id |-> 0, at |-> ProbedAt(c)]
    IN  /\ At(c, "install")
        /\ \/ /\ use[c].doc = Absent
              /\ cache' = missing
              /\ UNCHANGED made
           \/ /\ use[c].doc # Absent /\ SameDocument(c)
              /\ cache' = entry
              /\ UNCHANGED made
           \/ /\ use[c].doc # Absent /\ ~SameDocument(c)
              /\ cache' = fresh
              /\ made' = made + 1
        /\ DecideBy(c, [doc |-> cache'.doc, id |-> cache'.id])
        /\ Goto(c, "evaluate")
        /\ UNCHANGED <<policies, grants, began, resumed>>

\* The document that decides: without one, the policy file's.
Deciding(c) == IF use[c].doc = Absent THEN Fallback ELSE use[c].doc

\* Requests still in the evaluator's window.
InWindow(i) == {g \in grants : g.id = i /\ g.at > now - Window}

\* rateLimiter.check prunes the window, and counts the request if there is room.
\* No document at all means no decision, which the pipeline takes for allow.
Evaluate(c) ==
    LET id == use[c].id
        d == Deciding(c)
        limited == d # Absent /\ Max > 0
        room == Cardinality(InWindow(id)) < Max
        mine == {[id |-> id, at |-> now, call |-> c, again |-> resumed[c]]}
        other == {g \in grants : g.id # id}
    IN  /\ At(c, "evaluate")
        /\ grants' = IF limited THEN other \cup InWindow(id) \cup (IF room THEN mine ELSE {})
                                ELSE grants
        /\ Goto(c, IF limited /\ ~room THEN "denied"
                   ELSE IF d \in Gated /\ ~resumed[c] THEN "held" ELSE "allowed")
        /\ DecideBy(c, FileEvaluator)
        /\ UNCHANGED <<policies, cache, made, began, resumed>>

\* handleSetPolicy stores the document, the same or another, ...
SetPolicy(d) ==
    /\ admin = "idle" /\ sets < MaxSets
    /\ doc' = d
    /\ last' = [last EXCEPT ![d] = now]
    /\ sets' = sets + 1 /\ admin' = "invalidate"
    /\ UNCHANGED <<now, cache, made, grants, pc, began, use, resumed>>

\* ... then drops the cache's entry.
Invalidate ==
    /\ admin = "invalidate"
    /\ admin' = "idle"
    /\ cache' = NoEntry
    /\ UNCHANGED <<now, doc, last, sets, made, grants, pc, began, use, resumed>>

Tick ==
    /\ now < MaxTime
    /\ now' = now + 1
    /\ last' = [last EXCEPT ![doc] = now + 1]
    /\ UNCHANGED <<doc, sets, admin, cache, made, grants, pc, began, use, resumed>>

Next ==
    \/ \E c \in Calls :
          Begin(c) \/ Approve(c) \/ Lookup(c) \/ Read(c) \/ Install(c) \/ Evaluate(c)
    \/ \E d \in Docs : SetPolicy(d)
    \/ Invalidate
    \/ Tick

Spec == Init /\ [][Next]_vars
===============================================================================
