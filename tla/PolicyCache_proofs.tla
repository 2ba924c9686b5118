-------------------------- MODULE PolicyCache_proofs --------------------------
(***************************************************************************)
(* Proofs about a tenant's policy, for any set of calls and documents, any *)
(* limit, window and probe interval.                                       *)
(***************************************************************************)
EXTENDS PolicyProps, FiniteSetTheorems, TLAPS

Evaluating == {"lookup", "read", "install", "evaluate"}

(***************************************************************************)
(* Why decisions are recent. A document's last tick in the store never     *)
(* decreases, so what was current when an entry was probed, or when a call *)
(* read it, still was then.                                                *)
(***************************************************************************)
Recent ==
    /\ last[doc] = now
    /\ \A d \in Stored : last[d] <= now
    /\ cache # NoEntry => last[cache.doc] >= cache.at
    /\ \A c \in Calls :
          /\ pc[c] \in Evaluating => began[c] \in Ticks /\ began[c] <= now
          /\ pc[c] = "install" => last[use[c].doc] >= began[c]
    /\ DecidedByRecentPolicy

(***************************************************************************)
(* Why the limit holds while no document is set: everybody who needs one   *)
(* uses the same evaluator.                                                *)
(***************************************************************************)
TheOne == IF doc = Absent THEN 0 ELSE 1

OneEvaluator ==
    /\ admin = "idle"
    /\ \/ made = 0 /\ cache = NoEntry
       \/ made = TheOne /\ cache # NoEntry /\ cache.doc = doc /\ cache.id = TheOne
    /\ \A c \in Calls :
          /\ pc[c] = "install" => use[c].doc = doc
          /\ pc[c] = "evaluate" => use[c].id = TheOne
    /\ \A g \in grants : g.id = TheOne

Limited ==
    /\ IsFiniteSet(grants)
    /\ sets = 0 => OneEvaluator
    /\ LimitHolds

IInv == TypeOK /\ Recent /\ Limited

------------------------------------------------------------------------------
Step(c) == Begin(c) \/ Approve(c) \/ Lookup(c) \/ Read(c) \/ Install(c) \/ Evaluate(c)

LEMMA TypeNext ==
    ASSUME TypeOK, [Next]_vars
    PROVE  TypeOK'
<1> USE PolicyAssumption DEF TypeOK
<1>1. CASE UNCHANGED vars
  BY <1>1 DEF vars
<1>2. ASSUME NEW c \in Calls, Step(c) PROVE TypeOK'
  <2>1. CASE Begin(c) \/ Approve(c)
    <3>1. UNCHANGED <<policies, cache, made, grants, use>>
      BY <2>1 DEF Begin, Approve, Start
    <3>2. pc' \in [Calls -> Pcs] /\ began' \in [Calls -> Readings]
      BY <2>1 DEF Begin, Approve, Start, Goto, Pcs, Readings
    <3>3. resumed' \in [Calls -> BOOLEAN]
      BY <2>1 DEF Begin, Approve
    <3> QED
      BY <3>1, <3>2, <3>3 DEF policies
  <2>2. CASE Lookup(c)
    <3>1. [doc |-> cache.doc, id |-> cache.id] \in Evaluator
      BY DEF Entry, Evaluator
    <3> QED
      BY <2>2, <3>1 DEF Lookup, At, Goto, DecideBy, policies, Pcs
  <2>3. CASE Read(c)
    BY <2>3 DEF Read, At, Goto, DecideBy, policies, Pcs, Outcomes, Evaluator, Stored
  <2>4. CASE Install(c)
    <3>1. cache' \in Entry /\ made' \in Nat
      BY <2>4 DEF Install, ProbedAt, Entry, Evaluator, Stored
    <3>2. [doc |-> cache'.doc, id |-> cache'.id] \in Evaluator
      BY <3>1 DEF Entry, Evaluator
    <3> QED
      BY <2>4, <3>1, <3>2 DEF Install, At, Goto, DecideBy, policies, Pcs
  <2>5. CASE Evaluate(c)
    <3>1. [id |-> use[c].id, at |-> now, call |-> c, again |-> resumed[c]] \in Grant
      BY DEF Grant, Evaluator
    <3>2. grants' \subseteq Grant
      BY <2>5, <3>1 DEF Evaluate, InWindow
    <3> QED
      BY <2>5, <3>2 DEF Evaluate, At, Goto, DecideBy, policies, Pcs, Outcomes, Evaluator, FileEvaluator, Stored
  <2> QED
    BY <1>2, <2>1, <2>2, <2>3, <2>4, <2>5 DEF Step
<1>3. ASSUME NEW d \in Docs, SetPolicy(d) PROVE TypeOK'
  BY <1>3 DEF SetPolicy, Stored, Readings
<1>4. CASE Invalidate
  BY <1>4 DEF Invalidate, NoEntry, Entry, Readings, Never, Stored
<1>5. CASE Tick
  BY <1>5 DEF Tick, Ticks, Readings, Stored
<1> QED
  BY <1>1, <1>2, <1>3, <1>4, <1>5 DEF Next, Step

LEMMA RecentNext ==
    ASSUME TypeOK, Recent, [Next]_vars
    PROVE  Recent'
<1> USE PolicyAssumption DEF TypeOK, Recent, DecidedByRecentPolicy, Ticks, Readings, Never, Evaluating
<1>1. CASE UNCHANGED vars
  BY <1>1 DEF vars
<1>2. ASSUME NEW c \in Calls, Step(c) PROVE Recent'
  <2>1. CASE Begin(c) \/ Approve(c)
    BY <2>1 DEF Begin, Approve, Start, At, Goto, policies
  <2>2. CASE Lookup(c)
    <3>1. CASE cache # NoEntry /\ Trusted(c)
      <4>1. last[cache.doc] > began[c] - Probe
        BY <2>2, <3>1 DEF Lookup, At, Trusted, Entry, Stored
      <4> QED
        BY <2>2, <3>1, <4>1 DEF Lookup, At, Goto, DecideBy, policies, Evaluator
    <3>2. CASE ~(cache # NoEntry /\ Trusted(c))
      BY <2>2, <3>2 DEF Lookup, At, Goto, policies
    <3> QED
      BY <3>1, <3>2
  <2>3. CASE Read(c)
    BY <2>3 DEF Read, At, Goto, DecideBy, policies
  <2>4. CASE Install(c)
    <3>1. cache'.doc = use[c].doc /\ cache'.at = began[c]
      BY <2>4 DEF Install, ProbedAt, SameDocument, Entry
    <3>2. last[cache'.doc] >= began[c] /\ last[cache'.doc] > began[c] - Probe
      <4>1. last[use[c].doc] >= began[c] /\ use[c].doc \in Stored /\ began[c] \in Int
        BY <2>4 DEF Install, At, Evaluator
      <4>2. last[use[c].doc] \in Int
        BY <4>1
      <4>3. \A x, y \in Int : x >= y => x > y - Probe
        OBVIOUS
      <4> QED
        BY <3>1, <4>1, <4>2, <4>3
    <3> QED
      BY <2>4, <3>1, <3>2 DEF Install, At, Goto, DecideBy, policies, Evaluator
  <2>5. CASE Evaluate(c)
    BY <2>5 DEF Evaluate, At, Goto, DecideBy, policies, Outcomes
  <2> QED
    BY <1>2, <2>1, <2>2, <2>3, <2>4, <2>5 DEF Step
<1>3. CASE Tick \/ \E d \in Docs : SetPolicy(d)
  <2>1. /\ \A d \in Stored : last'[d] >= last[d] /\ last'[d] <= now'
        /\ last'[doc'] = now' /\ now' >= now
    BY <1>3 DEF Tick, SetPolicy, Stored
  <2>2. UNCHANGED <<cache, pc, began, use>>
    BY <1>3 DEF Tick, SetPolicy
  <2>3. cache.doc \in Stored /\ cache.at \in Readings /\ \A c \in Calls : use[c].doc \in Stored
    BY DEF Entry, Evaluator
  <2>4. \A d \in Stored : last[d] \in Int /\ last'[d] \in Int
    BY TypeNext
  <2>5. now \in Int /\ now' \in Int
    BY TypeNext
  <2> QED
    BY <2>1, <2>2, <2>3, <2>4, <2>5
<1>4. CASE Invalidate
  BY <1>4 DEF Invalidate
<1> QED
  BY <1>1, <1>2, <1>3, <1>4 DEF Next, Step

------------------------------------------------------------------------------
Counted == {g \in grants : g.at > now - Window}

LEMMA AddOne ==
    ASSUME NEW S, NEW x, IsFiniteSet(S)
    PROVE  IsFiniteSet(S \cup {x}) /\ Cardinality(S \cup {x}) <= Cardinality(S) + 1
<1>1. Cardinality(S) \in Nat
  BY FS_CardinalityType
<1>2. Cardinality(S \cup {x}) = IF x \in S THEN Cardinality(S) ELSE Cardinality(S) + 1
  BY FS_AddElement
<1>3. IsFiniteSet(S \cup {x})
  BY FS_AddElement
<1> QED
  BY <1>1, <1>2, <1>3

(* A check counts one more request only where there is room. *)
LEMMA LimitEvaluate ==
    ASSUME TypeOK, Limited, NEW c \in Calls, Evaluate(c)
    PROVE  Limited'
<1> USE PolicyAssumption DEF TypeOK
<1> DEFINE id == use[c].id
           mine == [id |-> id, at |-> now, call |-> c, again |-> resumed[c]]
           rest == {g \in grants : g.id # id} \cup InWindow(id)
<1>1. IsFiniteSet(rest) /\ rest \subseteq grants
  BY FS_Subset DEF Limited, InWindow
<1>2. \/ grants' = grants \/ grants' = rest
      \/ grants' = rest \cup {mine} /\ Cardinality(InWindow(id)) < Max
  BY DEF Evaluate
<1>3. IsFiniteSet(grants')
  <2>1. IsFiniteSet(rest \cup {mine})
    BY <1>1, AddOne
  <2> QED
    BY <1>1, <1>2, <2>1 DEF Limited
<1>4. ASSUME sets = 0 PROVE id = TheOne /\ \A g \in grants : g.id = TheOne
  BY <1>4 DEF Limited, OneEvaluator, Evaluate, At
<1>5. ASSUME sets = 0 PROVE OneEvaluator'
  <2>1. \A g \in grants' : g.id = TheOne
    BY <1>1, <1>2, <1>4, <1>5
  <2> QED
    BY <1>5, <2>1 DEF Limited, OneEvaluator, Evaluate, At, Goto, DecideBy, policies, TheOne
<1>6. ASSUME sets = 0 PROVE Cardinality(Counted') <= Max
  <2>1. InWindow(id) = Counted /\ IsFiniteSet(Counted) /\ Cardinality(Counted) <= Max
    BY <1>4, <1>6, FS_Subset DEF InWindow, Counted, Limited, LimitHolds
  <2>2. now' = now
    BY DEF Evaluate, policies
  <2>3. CASE grants' = grants \/ grants' = rest
    <3>1. Counted' \subseteq Counted
      BY <1>1, <2>2, <2>3 DEF Counted
    <3>2. Cardinality(Counted') <= Cardinality(Counted)
      BY <2>1, <3>1, FS_Subset
    <3>3. Cardinality(Counted') \in Nat /\ Cardinality(Counted) \in Nat
      BY <2>1, <3>1, FS_Subset, FS_CardinalityType
    <3> QED
      BY <2>1, <3>2, <3>3
  <2>4. CASE grants' = rest \cup {mine} /\ Cardinality(InWindow(id)) < Max
    <3>1. Counted' \subseteq Counted \cup {mine}
      BY <1>1, <2>2, <2>4 DEF Counted
    <3>2. /\ IsFiniteSet(Counted \cup {mine})
          /\ Cardinality(Counted \cup {mine}) <= Cardinality(Counted) + 1
      BY <2>1, AddOne
    <3>3. Cardinality(Counted') <= Cardinality(Counted \cup {mine}) /\ IsFiniteSet(Counted')
      BY <3>1, <3>2, FS_Subset
    <3>4. /\ Cardinality(Counted') \in Nat /\ Cardinality(Counted) \in Nat
          /\ Cardinality(Counted \cup {mine}) \in Nat
      BY <2>1, <3>2, <3>3, FS_CardinalityType
    <3> QED
      BY <2>1, <2>4, <3>2, <3>3, <3>4
  <2> QED
    BY <1>2, <2>3, <2>4
<1>7. sets' = sets
  BY DEF Evaluate, policies
<1> QED
  BY <1>3, <1>5, <1>6, <1>7 DEF Limited, LimitHolds, Counted

LEMMA LimitNext ==
    ASSUME TypeOK, Recent, Limited, [Next]_vars
    PROVE  Limited'
<1> USE PolicyAssumption DEF TypeOK
<1>1. CASE UNCHANGED vars
  BY <1>1 DEF vars, Limited, LimitHolds, OneEvaluator, TheOne
<1>2. ASSUME NEW c \in Calls, Begin(c) \/ Approve(c) \/ Lookup(c) \/ Read(c) \/ Install(c)
      PROVE  Limited'
  <2>1. UNCHANGED <<grants, policies>>
    BY <1>2 DEF Begin, Approve, Start, Lookup, Read, Install
  <2>2. ASSUME sets = 0 PROVE OneEvaluator'
    <3> USE <2>2 DEF OneEvaluator, TheOne, Limited, policies
    <3>1. CASE Begin(c) \/ Approve(c)
      BY <3>1 DEF Begin, Approve, Start, At, Goto
    <3>2. CASE Lookup(c)
      BY <3>2 DEF Lookup, At, Goto, DecideBy, Evaluator
    <3>3. CASE Read(c)
      BY <3>3 DEF Read, At, Goto, DecideBy, Evaluator
    <3>4. CASE Install(c)
      <4>1. use[c].doc = doc /\ began[c] \in Ticks
        BY <3>4 DEF Install, At, Recent, Evaluating
      <4>2. /\ made' = TheOne /\ cache'.doc = doc /\ cache'.id = TheOne
            /\ cache'.at = began[c]
        BY <3>4, <4>1 DEF Install, SameDocument, ProbedAt, NoEntry, Entry
      <4>3. cache' # NoEntry
        BY <4>1, <4>2 DEF NoEntry, Never, Ticks
      <4>4. use'[c].id = TheOne /\ \A b \in Calls \ {c} : use'[b] = use[b]
        BY <3>4, <4>2 DEF Install, DecideBy
      <4> QED
        BY <2>1, <3>4, <4>2, <4>3, <4>4 DEF Install, At, Goto
    <3> QED
      BY <1>2, <3>1, <3>2, <3>3, <3>4
  <2> QED
    BY <2>1, <2>2 DEF Limited, LimitHolds, policies
<1>3. ASSUME NEW c \in Calls, Evaluate(c) PROVE Limited'
  BY <1>3, LimitEvaluate
<1>4. ASSUME NEW d \in Docs, SetPolicy(d) PROVE Limited'
  BY <1>4 DEF SetPolicy, Limited, LimitHolds
<1>5. CASE Invalidate
  BY <1>5 DEF Invalidate, Limited, LimitHolds, OneEvaluator
<1>6. CASE Tick
  <2>1. UNCHANGED <<doc, sets, admin, cache, made, grants, pc, use>> /\ now' = now + 1
    BY <1>6 DEF Tick
  <2>2. Counted' \subseteq Counted
    BY <2>1 DEF Counted, Ticks, Grant
  <2>3. IsFiniteSet(Counted) /\ IsFiniteSet(Counted')
    BY <2>2, FS_Subset DEF Counted, Limited
  <2>4. Cardinality(Counted') <= Cardinality(Counted)
    BY <2>2, <2>3, FS_Subset
  <2>5. Cardinality(Counted') \in Nat /\ Cardinality(Counted) \in Nat
    BY <2>3, FS_CardinalityType
  <2> QED
    BY <2>1, <2>4, <2>5 DEF Limited, LimitHolds, OneEvaluator, TheOne, Counted
<1> QED
  BY <1>1, <1>2, <1>3, <1>4, <1>5, <1>6 DEF Next

LEMMA InvInit == Init => IInv
<1> SUFFICES ASSUME Init PROVE IInv
  OBVIOUS
<1> USE PolicyAssumption DEF Init
<1>1. TypeOK
  BY DEF TypeOK, Ticks, Readings, Never, Stored, NoEntry, Entry, FileEvaluator, Evaluator, Pcs
<1>2. Recent
  BY DEF Recent, DecidedByRecentPolicy, Evaluating, Never
<1>3. Limited
  <2>1. {g \in grants : g.at > now - Window} = {} /\ grants = {}
    OBVIOUS
  <2> QED
    BY <2>1, FS_EmptySet DEF Limited, LimitHolds, OneEvaluator
<1> QED
  BY <1>1, <1>2, <1>3 DEF IInv

LEMMA Invariance == Spec => []IInv
<1>1. IInv /\ [Next]_vars => IInv'
  BY TypeNext, RecentNext, LimitNext DEF IInv
<1> QED
  BY <1>1, InvInit, PTL DEF Spec

------------------------------------------------------------------------------
(***************************************************************************)
(* Every variable keeps its type.                                          *)
(***************************************************************************)
THEOREM PolicyTypeCorrect == Spec => []TypeOK
<1>1. IInv => TypeOK
  BY DEF IInv
<1> QED
  BY <1>1, Invariance, PTL

(***************************************************************************)
(* No call is decided by a document that was replaced a probe interval or  *)
(* more before its evaluation began, however many readers and however slow.*)
(***************************************************************************)
THEOREM DecisionsAreRecent == Spec => []DecidedByRecentPolicy
<1>1. IInv => DecidedByRecentPolicy
  BY DEF IInv, Recent
<1> QED
  BY <1>1, Invariance, PTL

(***************************************************************************)
(* While the policy is left alone, concurrent probes never widen a limit.  *)
(***************************************************************************)
THEOREM LimitsHold == Spec => []LimitHolds
<1>1. IInv => LimitHolds
  BY DEF IInv, Limited
<1> QED
  BY <1>1, Invariance, PTL
------------------------------------------------------------------------------
(***************************************************************************)
(* Why an approved call can be denied at all: its two evaluations are both *)
(* counted.  No call is counted more often than that, once before it is    *)
(* approved and once after, and a call that is still to be evaluated again *)
(* has been counted once at most.                                          *)
(***************************************************************************)
Final == {"allowed", "denied"}

CountedTwice ==
    /\ \A g, h \in grants : g.call = h.call /\ g.again = h.again => g = h
    /\ \A g \in grants :
          /\ ~g.again => resumed[g.call] \/ pc[g.call] \in Outcomes
          /\ g.again => resumed[g.call] /\ pc[g.call] \in Final

Resumes == \A c \in Calls : resumed[c] => pc[c] # "denied"

\* Twice the calls are room enough.
Roomy == Max = 0 \/ (IsFiniteSet(Calls) /\ Max >= 2 * Cardinality(Calls))

\* The counts of a kind are no more than the calls they are of.
LEMMA OneCountEach ==
    ASSUME NEW W, NEW C, IsFiniteSet(C), \A g \in W : g.call \in C,
           \A g, h \in W : g.call = h.call => g = h
    PROVE  IsFiniteSet(W) /\ Cardinality(W) <= Cardinality(C)
<1> DEFINE f == [g \in W |-> g.call]
<1>1. f \in Injection(W, C)
  BY DEF Injection, IsInjective
<1> QED
  BY <1>1, FS_Injection

LEMMA RoomLeft ==
    ASSUME TypeOK, IsFiniteSet(grants), CountedTwice, IsFiniteSet(Calls),
           NEW c \in Calls, pc[c] = "evaluate", NEW W \in SUBSET grants
    PROVE  Cardinality(W) < 2 * Cardinality(Calls)
<1> DEFINE First == {g \in W : ~g.again}
           Again == {g \in W : g.again}
<1>1. IsFiniteSet(First) /\ Cardinality(First) <= Cardinality(Calls)
  <2>1. \A g \in First : g.call \in Calls
    BY DEF TypeOK, Grant
  <2>2. \A g, h \in First : g.call = h.call => g = h
    BY DEF CountedTwice, TypeOK, Grant
  <2> HIDE DEF First
  <2> QED
    BY <2>1, <2>2, OneCountEach
<1>2. IsFiniteSet(Again) /\ Cardinality(Again) <= Cardinality(Calls \ {c})
  <2>1. \A g \in Again : g.call \in Calls \ {c}
    BY DEF CountedTwice, TypeOK, Grant, Final
  <2>2. \A g, h \in Again : g.call = h.call => g = h
    BY DEF CountedTwice, TypeOK, Grant
  <2>3. IsFiniteSet(Calls \ {c})
    BY FS_RemoveElement
  <2> HIDE DEF Again
  <2> QED
    BY <2>1, <2>2, <2>3, OneCountEach
<1>3. W = First \cup Again
  OBVIOUS
<1> HIDE DEF First, Again
<1>4. Cardinality(Calls \ {c}) = Cardinality(Calls) - 1
  BY FS_RemoveElement
<1>5. Cardinality(W) <= Cardinality(First) + Cardinality(Again)
  <2>1. Cardinality(W) = Cardinality(First) + Cardinality(Again) - Cardinality(First \cap Again)
    BY <1>1, <1>2, <1>3, FS_Union
  <2>2. Cardinality(First \cap Again) \in Nat
    BY <1>1, FS_Intersection, FS_CardinalityType
  <2>3. Cardinality(First) \in Nat /\ Cardinality(Again) \in Nat
    BY <1>1, <1>2, FS_CardinalityType
  <2> QED
    BY <2>1, <2>2, <2>3
<1>6. /\ Cardinality(W) \in Nat /\ Cardinality(First) \in Nat
      /\ Cardinality(Again) \in Nat /\ Cardinality(Calls) \in Nat
  BY <1>1, <1>2, FS_Subset, FS_CardinalityType
<1> QED
  BY <1>1, <1>2, <1>4, <1>5, <1>6

LEMMA ResumesNext ==
    ASSUME Roomy, TypeOK, IsFiniteSet(grants), CountedTwice, Resumes, [Next]_vars
    PROVE  CountedTwice' /\ Resumes'
<1> USE PolicyAssumption DEF TypeOK
<1>0. \A g \in grants : g.call \in Calls /\ g.again \in BOOLEAN
  BY DEF Grant
<1>1. CASE UNCHANGED vars
  BY <1>1 DEF vars, CountedTwice, Resumes
<1>2. ASSUME NEW c \in Calls, Step(c) PROVE CountedTwice' /\ Resumes'
  <2>1. CASE Begin(c) \/ Approve(c)
    BY <1>0, <2>1 DEF Begin, Approve, Start, At, Goto, policies, CountedTwice, Resumes, Final, Outcomes
  <2>2. CASE Lookup(c) \/ Read(c) \/ Install(c)
    BY <1>0, <2>2 DEF Lookup, Read, Install, At, Goto, policies, CountedTwice, Resumes, Final, Outcomes
  <2>3. CASE Evaluate(c)
    <3> DEFINE mine == [id |-> use[c].id, at |-> now, call |-> c, again |-> resumed[c]]
               limited == Deciding(c) # Absent /\ Max > 0
               room == Cardinality(InWindow(use[c].id)) < Max
    <3>1. /\ pc[c] = "evaluate" /\ UNCHANGED resumed
          /\ pc' = [pc EXCEPT ![c] = pc'[c]]
          /\ pc'[c] \in Outcomes
          /\ resumed[c] => pc'[c] \in Final
          /\ pc'[c] = "denied" => limited /\ ~room
      BY <2>3 DEF Evaluate, At, Goto, Outcomes, Final
    <3>2. grants' \subseteq grants \cup {mine}
      BY <2>3 DEF Evaluate, InWindow
    <3>3. CountedTwice'
      <4>1. \A g \in grants : g.call = c => ~g.again /\ resumed[c]
        BY <1>0, <3>1 DEF CountedTwice, Final, Outcomes
      <4>2. mine.call = c /\ mine.again = resumed[c]
        OBVIOUS
      <4> HIDE DEF mine
      <4>3. \A g, h \in grants' : g.call = h.call /\ g.again = h.again => g = h
        BY <3>2, <4>1, <4>2 DEF CountedTwice
      <4>4. \A g \in grants : g.call # c => pc'[g.call] = pc[g.call]
        BY <1>0, <3>1
      <4>5. ASSUME NEW g \in grants'
            PROVE  /\ ~g.again => resumed'[g.call] \/ pc'[g.call] \in Outcomes
                   /\ g.again => resumed'[g.call] /\ pc'[g.call] \in Final
        BY <3>1, <3>2, <4>1, <4>2, <4>4, <4>5 DEF CountedTwice
      <4> QED
        BY <4>3, <4>5 DEF CountedTwice
    <3>4. pc'[c] # "denied"
      <4>1. CASE Max = 0
        BY <3>1, <4>1
      <4>2. CASE Max # 0
        <5>1. InWindow(use[c].id) \in SUBSET grants /\ IsFiniteSet(Calls) /\ Max >= 2 * Cardinality(Calls)
          BY <4>2 DEF InWindow, Roomy
        <5>2. Cardinality(InWindow(use[c].id)) < 2 * Cardinality(Calls)
          BY <3>1, <5>1, RoomLeft
        <5>3. Cardinality(InWindow(use[c].id)) \in Nat /\ Cardinality(Calls) \in Nat
          BY <5>1, FS_Subset, FS_CardinalityType
        <5> QED
          BY <3>1, <5>1, <5>2, <5>3
      <4> QED
        BY <4>1, <4>2
    <3> QED
      BY <3>1, <3>3, <3>4 DEF Resumes
  <2> QED
    BY <1>2, <2>1, <2>2, <2>3 DEF Step
<1>3. CASE Invalidate \/ Tick \/ \E d \in Docs : SetPolicy(d)
  BY <1>3 DEF Invalidate, Tick, SetPolicy, CountedTwice, Resumes
<1> QED
  BY <1>1, <1>2, <1>3 DEF Next, Step

(***************************************************************************)
(* Where a rule has room for two counts of every call, or no limit, no     *)
(* approved call is denied by it, whoever sets documents meanwhile: that a *)
(* call is counted twice is the only way to it.                            *)
(***************************************************************************)
THEOREM RoomForResumedCalls == ASSUME Roomy PROVE Spec => []ApprovedCallsResume
<1> DEFINE Inv == CountedTwice /\ Resumes
<1>1. Init => Inv
  BY DEF Init, CountedTwice, Resumes
<1>2. IInv /\ Inv /\ [Next]_vars => Inv'
  BY ResumesNext DEF IInv, Limited
<1>3. Inv => ApprovedCallsResume
  BY DEF Resumes, ApprovedCallsResume
<1> QED
  BY <1>1, <1>2, <1>3, Invariance, PTL DEF Spec
===============================================================================
