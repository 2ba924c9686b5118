------------------------- MODULE ConnectorState_proofs -------------------------
(***************************************************************************)
(* Proofs about a connector, for any number of callers, commands and       *)
(* tokens.                                                                 *)
(***************************************************************************)
EXTENDS ConnectorProps, FiniteSetTheorems, TLAPS

(***************************************************************************)
(* There are more revisions than processes that remember one, so a write   *)
(* has a revision no other process has read.                               *)
(***************************************************************************)
LEMMA LeastOfNaturals ==
    ASSUME NEW T, T \subseteq Nat, T # {}
    PROVE  \E x \in T : \A y \in T : x <= y
<1> DEFINE R == OpToRel(<, Nat)
<1>1. IsWellFoundedOn(R, Nat)
    BY NatLessThanWellFounded
<1>2. \A x, y \in Nat : <<y, x>> \in R <=> y < x
    BY DEF OpToRel
<1> HIDE DEF R
<1>3. PICK x \in T : \A y \in T : ~(<<y, x>> \in R)
    BY <1>1, WFMin
<1>4. x \in Nat /\ \A y \in T : y \in Nat /\ ~(y < x)
    BY <1>2, <1>3, Zenon
<1> QED
    BY <1>3, <1>4

LEMMA ProcsFinite ==
    /\ IsFiniteSet(Procs) /\ Cardinality(Procs) \in Nat
    /\ Revisions \subseteq Nat /\ 0 \notin Revisions
    /\ \A p \in Procs : Of(p) \in Managers
<1>1. IsFiniteSet(Procs) /\ Cardinality(Procs) \in Nat
    BY ConnectorAssumption, FS_CardinalityType
<1> QED
    BY <1>1 DEF Revisions, Of, Managers, Procs

LEMMA NewRevisionIsNew ==
    ASSUME NEW p \in Procs
    PROVE  NewRevision(p) \in Revisions /\ \A q \in Procs \ {p} : NewRevision(p) # snap[q].rev
<1> DEFINE others == Procs \ {p}
           f == [q \in others |-> snap[q].rev]
           used == {snap[q].rev : q \in others}
           n == Cardinality(Procs)
<1>1. IsFiniteSet(Procs) /\ n \in Nat
    BY ProcsFinite
<1>2. IsFiniteSet(others) /\ Cardinality(others) = n - 1
    BY <1>1, FS_RemoveElement
<1>3. f \in Surjection(others, used)
    BY DEF Surjection
<1> HIDE DEF f, others, used
<1>4. IsFiniteSet(used) /\ Cardinality(used) <= Cardinality(others) /\ Cardinality(used) \in Nat
    BY <1>2, <1>3, FS_Surjection, FS_CardinalityType
<1>5. IsFiniteSet(Revisions) /\ Cardinality(Revisions) = n
    BY <1>1, FS_Interval DEF Revisions
<1>6. ~ Revisions \subseteq used
    BY <1>1, <1>2, <1>4, <1>5, FS_Subset
<1>7. PICK least \in Revisions \ used : \A y \in Revisions \ used : least <= y
    BY <1>6, LeastOfNaturals, ProcsFinite
<1>8. least \in Revisions /\ least \notin used /\ \A i \in Revisions : i < least => i \in used
    BY <1>7, ProcsFinite
<1>9. NewRevision(p) \in Revisions /\ NewRevision(p) \notin used
    BY <1>8 DEF NewRevision, others, used
<1> QED
    BY <1>9 DEF others, used

-----------------------------------------------------------------------------
\* The provider numbers its tokens in the order it issues them.
Numbered == \E n \in Nat : Issued = 1 .. n

\* Every token anyone holds is one the provider has issued.
KnownTokens ==
    /\ row.token \in Issued \cup {0}
    /\ \A p \in Procs : /\ snap[p].token \in Issued \cup {0}
                        /\ got[p] \in Tokens => got[p] \in Issued

\* Whoever remembers a revision remembers the row that had it.
OneRowPerRevision ==
    /\ \A p \in Procs : row.rev = snap[p].rev => row = snap[p]
    /\ \A p, q \in Procs : snap[p].rev = snap[q].rev => snap[p] = snap[q]

\* What a process has in its hands where it is: a refresh has the row it is to
\* replace and, from the provider's answer on, a failure, the same token or
\* one that was exchanged for it; a login has its token.
InHand(p) ==
    /\ pc[p] \in {"ask", "reload", "save"} => snap[p] # NoRow
    /\ pc[p] \in {"reload", "save"} =>
          /\ got[p] # 0
          /\ got[p] \in Tokens => got[p] = snap[p].token \/ origin[got[p]] = snap[p].token
    /\ pc[p] \in {"store", "store_save"} => got[p] \in Tokens

ConnInv ==
    /\ TypeOK
    /\ OneRefreshPerManager
    /\ Numbered /\ KnownTokens /\ OneRowPerRevision
    /\ \A p \in Procs : InHand(p)

-----------------------------------------------------------------------------
Refreshing == RefreshPcs \cup {"clear"}

LEMMA ConnInvInit == Init => ConnInv
<1> SUFFICES ASSUME Init PROVE ConnInv
    OBVIOUS
<1> USE DEF Init
<1>1. Issued = {}
    BY DEF Issued
<1>2. TypeOK
    <2>1. NoRow \in Row \cup {NoRow} /\ 0 \in Answers /\ 0 \in 0 .. MaxTries - 1 /\ "idle" \in Pcs
        BY ConnectorAssumption DEF Answers, Pcs
    <2>2. NoFlight \in Flight
        BY DEF NoFlight, Flight
    <2>3. /\ snap \in [Procs -> Row \cup {NoRow}] /\ got \in [Procs -> Answers]
          /\ tries \in [Procs -> 0 .. MaxTries - 1] /\ pc \in [Procs -> Pcs]
          /\ flight \in [Managers -> Flight] /\ lock \in [Managers -> Procs \cup {None}]
        BY <2>1, <2>2
    <2>4. row \in Row \cup {NoRow} /\ due \in BOOLEAN
        BY <2>1
    <2> QED
        BY <1>1, <2>3, <2>4 DEF TypeOK
<1>3. OneRefreshPerManager /\ \A p \in Procs : InHand(p)
    BY DEF OneRefreshPerManager, RefreshPcs, InHand
<1>4. Numbered
    <2>1. Issued = 1 .. 0
        BY <1>1
    <2> QED
        BY <2>1 DEF Numbered
<1>5. KnownTokens /\ OneRowPerRevision
    BY DEF KnownTokens, OneRowPerRevision, NoRow, Tokens
<1> QED
    BY <1>2, <1>3, <1>4, <1>5 DEF ConnInv

(***************************************************************************)
(* What a step of p does to p and to the others.                           *)
(***************************************************************************)
OthersStay(p) ==
    \A q \in Procs \ {p} : pc'[q] \in {pc[q], "idle"} /\ snap'[q] = snap[q] /\ got'[q] = got[q]

MemoryTyped ==
    /\ pc' \in [Procs -> Pcs] /\ snap' \in [Procs -> Row \cup {NoRow}]
    /\ got' \in [Procs -> Answers] /\ tries' \in [Procs -> 0 .. MaxTries - 1]

LEMMA GoesTo ==
    ASSUME TypeOK, NEW p \in Procs, NEW l \in Pcs, Goto(p, l),
           NEW s \in Row \cup {NoRow}, snap' = [snap EXCEPT ![p] = s],
           NEW a \in Answers, got' = [got EXCEPT ![p] = a],
           NEW n \in 0 .. MaxTries - 1, tries' = [tries EXCEPT ![p] = n]
    PROVE  MemoryTyped /\ OthersStay(p) /\ pc'[p] = l /\ snap'[p] = s /\ got'[p] = a
    BY DEF TypeOK, Goto, MemoryTyped, OthersStay

LEMMA Hears ==
    ASSUME TypeOK, NEW p \in Procs, NEW l \in Pcs, Goto(p, l), UNCHANGED <<snap, tries>>,
           NEW a \in Answers, got' = [got EXCEPT ![p] = a]
    PROVE  MemoryTyped /\ OthersStay(p) /\ pc'[p] = l /\ snap'[p] = snap[p] /\ got'[p] = a
    BY DEF TypeOK, Goto, MemoryTyped, OthersStay

LEMMA JustGoes ==
    ASSUME TypeOK, NEW p \in Procs, NEW l \in Pcs, Goto(p, l), UNCHANGED memory
    PROVE  MemoryTyped /\ OthersStay(p) /\ pc'[p] = l /\ snap'[p] = snap[p] /\ got'[p] = got[p]
    BY DEF TypeOK, Goto, MemoryTyped, OthersStay, memory

LEMMA Resets ==
    ASSUME TypeOK, NEW p \in Procs, NEW l \in Pcs, Reset(p, l)
    PROVE  MemoryTyped /\ OthersStay(p) /\ pc'[p] = l /\ snap'[p] = NoRow /\ got'[p] = 0
<1>1. NoRow \in Row \cup {NoRow} /\ 0 \in Answers /\ 0 \in 0 .. MaxTries - 1
    BY ConnectorAssumption DEF Answers
<1> QED
    BY <1>1, GoesTo DEF Reset

LEMMA LeadersKept ==
    ASSUME OneRefreshPerManager, NEW p \in Procs, OthersStay(p),
           \A m \in Managers : flight'[m].leader = flight[m].leader,
           pc'[p] \in Refreshing => pc[p] \in Refreshing
    PROVE  OneRefreshPerManager'
    BY ProcsFinite DEF OneRefreshPerManager, OthersStay, Refreshing, RefreshPcs, Of

LEMMA Lands ==
    ASSUME TypeOK, OneRefreshPerManager, NEW p \in Procs, NEW ok \in BOOLEAN, Land(p, ok),
           pc[p] \in Refreshing
    PROVE  /\ MemoryTyped /\ OthersStay(p) /\ flight' \in [Managers -> Flight]
           /\ pc'[p] = "clear" /\ snap'[p] = NoRow /\ got'[p] \in {0, Transient}
           /\ OneRefreshPerManager'
<1>0. Of(p) \in Managers
    BY ProcsFinite
<1>1. /\ snap' \in [Procs -> Row \cup {NoRow}] /\ snap'[p] = NoRow
      /\ \A q \in Procs \ {p} : snap'[q] = snap[q]
    BY DEF TypeOK, Land
<1>2. /\ got' \in [Procs -> Answers] /\ got'[p] \in {0, Transient}
      /\ \A q \in Procs \ {p} : got'[q] = got[q]
    BY DEF TypeOK, Land, Answers
<1>3. /\ pc' \in [Procs -> Pcs] /\ pc'[p] = "clear"
      /\ \A q \in Procs \ {p} : pc'[q] \in {pc[q], "idle"}
    <2> DEFINE woken == [q \in Procs |-> IF q \in Waiting(Of(p)) THEN "idle" ELSE pc[q]]
    <2>1. pc' = [woken EXCEPT ![p] = "clear"]
        BY DEF Land
    <2>2. woken \in [Procs -> Pcs] /\ \A q \in Procs : woken[q] \in {pc[q], "idle"}
        BY DEF TypeOK, Pcs
    <2>3. "clear" \in Pcs
        BY DEF Pcs
    <2> HIDE DEF woken
    <2> QED
        BY <2>1, <2>2, <2>3
<1>4. tries' \in [Procs -> 0 .. MaxTries - 1]
    BY DEF TypeOK, Land
<1>5. /\ flight' \in [Managers -> Flight]
      /\ \A m \in Managers : flight'[m].leader = flight[m].leader
    <2> DEFINE m == Of(p)
               f == [flight[m] EXCEPT !.done = TRUE]
    <2>1. flight[m] \in Flight /\ flight' = [flight EXCEPT ![m] = f]
        BY <1>0 DEF TypeOK, Land
    <2>2. f \in Flight /\ f.leader = flight[m].leader
        BY <2>1 DEF Flight
    <2> HIDE DEF f, m
    <2> QED
        BY <2>1, <2>2 DEF TypeOK
<1>6. OthersStay(p)
    BY <1>1, <1>2, <1>3 DEF OthersStay
<1>7. OneRefreshPerManager'
    BY <1>5, <1>6, LeadersKept
<1> QED
    BY <1>1, <1>2, <1>3, <1>4, <1>5, <1>6, <1>7 DEF MemoryTyped

(***************************************************************************)
(* The parts of TypeOK about what processes share.                         *)
(***************************************************************************)
LEMMA Locks ==
    ASSUME TypeOK, NEW p \in Procs, Acquire(p) \/ Release(p) \/ UNCHANGED lock
    PROVE  lock' \in [Managers -> Procs \cup {None}]
    BY ProcsFinite DEF TypeOK, Acquire, Release

LEMMA SharedTyped ==
    ASSUME TypeOK, MemoryTyped, UNCHANGED <<stored, provider, revoked>>,
           flight' \in [Managers -> Flight], lock' \in [Managers -> Procs \cup {None}]
    PROVE  TypeOK'
    BY DEF TypeOK, MemoryTyped, stored, provider, Issued

(***************************************************************************)
(* The parts of the invariant, by what a step changes.                     *)
(***************************************************************************)
LEMMA NoRowAlone ==
    ASSUME NEW r \in Row \cup {NoRow}, r.rev = 0
    PROVE  r = NoRow
    BY ProcsFinite DEF Row

\* p takes note of the row, or forgets; nothing others see changes.
LEMMA PrivateStep ==
    ASSUME ConnInv, NEW p \in Procs, OthersStay(p), TypeOK', OneRefreshPerManager',
           UNCHANGED <<row, origin>>, snap'[p] \in {NoRow, row, snap[p]},
           got'[p] \in Tokens => got'[p] \in Issued, InHand(p)'
    PROVE  ConnInv'
<1>1. Issued' = Issued /\ \A q \in Procs : snap[q] \in Row \cup {NoRow}
    BY DEF Issued, ConnInv, TypeOK
<1>2. Numbered' /\ KnownTokens'
    BY <1>1 DEF ConnInv, Numbered, KnownTokens, OthersStay, NoRow
<1>3. OneRowPerRevision'
    <2>1. \A q \in Procs : snap[q].rev = NoRow.rev => snap[q] = NoRow
        BY <1>1, NoRowAlone DEF NoRow
    <2>2. row.rev = NoRow.rev => row = NoRow
        BY NoRowAlone DEF ConnInv, TypeOK, NoRow
    <2> QED
        BY <2>1, <2>2 DEF ConnInv, OneRowPerRevision, OthersStay
<1>4. \A q \in Procs : InHand(q)'
    BY DEF ConnInv, InHand, OthersStay
<1> QED
    BY <1>2, <1>3, <1>4 DEF ConnInv

\* p writes the row and forgets what it read.
LEMMA RowStep ==
    ASSUME ConnInv, NEW p \in Procs, OthersStay(p), TypeOK', OneRefreshPerManager',
           UNCHANGED origin, snap'[p] = NoRow, got'[p] \notin Tokens, InHand(p)',
           row'.token \in Issued \cup {0},
           row' \in {NoRow, snap[p]} \/ row'.rev = NewRevision(p)
    PROVE  ConnInv'
<1>1. Issued' = Issued /\ \A q \in Procs : snap[q] \in Row \cup {NoRow}
    BY DEF Issued, ConnInv, TypeOK
<1>2. Numbered' /\ KnownTokens'
    BY <1>1 DEF ConnInv, Numbered, KnownTokens, OthersStay, NoRow
<1>3. OneRowPerRevision'
    <2>1. \A q \in Procs : snap[q].rev = NoRow.rev => snap[q] = NoRow
        BY <1>1, NoRowAlone DEF NoRow
    <2>2. row'.rev = NoRow.rev => row' = NoRow
        BY NoRowAlone DEF TypeOK, NoRow
    <2>3. NewRevision(p) # NoRow.rev /\ \A q \in Procs \ {p} : NewRevision(p) # snap[q].rev
        BY NewRevisionIsNew, ProcsFinite DEF NoRow
    <2>4. ASSUME NEW q \in Procs, row'.rev = snap'[q].rev PROVE row' = snap'[q]
        <3>1. CASE q = p
            BY <2>2, <2>4, <3>1
        <3>2. CASE q # p
            BY <2>1, <2>3, <2>4, <3>2 DEF ConnInv, OneRowPerRevision, OthersStay
        <3> QED
            BY <3>1, <3>2
    <2>5. \A q, r \in Procs : snap'[q].rev = snap'[r].rev => snap'[q] = snap'[r]
        BY <2>1 DEF ConnInv, OneRowPerRevision, OthersStay
    <2> QED
        BY <2>4, <2>5 DEF OneRowPerRevision
<1>4. \A q \in Procs : InHand(q)'
    BY DEF ConnInv, InHand, OthersStay
<1> QED
    BY <1>2, <1>3, <1>4 DEF ConnInv

-----------------------------------------------------------------------------
(***************************************************************************)
(* Steps that change nothing others see.                                   *)
(***************************************************************************)
LEMMA JustGoStep ==
    ASSUME ConnInv, NEW p \in Procs, NEW l \in {"enter", "idle", "wait", "login"}, Goto(p, l),
           UNCHANGED <<stored, provider, revoked, memory, flight, lock>>
    PROVE  ConnInv'
<1>1. l \in Pcs /\ l \notin Refreshing
    BY DEF Pcs, Refreshing, RefreshPcs, ConnectPcs
<1>2. MemoryTyped /\ OthersStay(p) /\ pc'[p] = l /\ snap'[p] = snap[p] /\ got'[p] = got[p]
    BY <1>1, JustGoes DEF ConnInv
<1>3. TypeOK'
    BY <1>2, SharedTyped DEF ConnInv, TypeOK
<1>4. OneRefreshPerManager'
    BY <1>1, <1>2, LeadersKept DEF ConnInv
<1>5. InHand(p)'
    BY <1>2 DEF InHand
<1>6. got'[p] \in Tokens => got'[p] \in Issued
    BY <1>2 DEF ConnInv, KnownTokens
<1> QED
    BY <1>2, <1>3, <1>4, <1>5, <1>6, PrivateStep DEF stored, provider

LEMMA ResetStep ==
    ASSUME ConnInv, NEW p \in Procs, NEW l \in {"idle", "login", "delete", "principal"}, Reset(p, l),
           UNCHANGED <<stored, origin, revoked, flight>>, live' \subseteq live,
           Acquire(p) \/ Release(p) \/ UNCHANGED lock
    PROVE  ConnInv'
<1>1. l \in Pcs /\ l \notin Refreshing
    BY DEF Pcs, Refreshing, RefreshPcs, ConnectPcs, RevokePcs
<1>2. MemoryTyped /\ OthersStay(p) /\ pc'[p] = l /\ snap'[p] = NoRow /\ got'[p] = 0
    BY <1>1, Resets DEF ConnInv
<1>3. TypeOK'
    BY <1>2, Locks DEF ConnInv, TypeOK, MemoryTyped, stored, Issued
<1>4. OneRefreshPerManager'
    BY <1>1, <1>2, LeadersKept DEF ConnInv
<1>5. InHand(p)'
    BY <1>2 DEF InHand
<1> QED
    BY <1>2, <1>3, <1>4, <1>5, PrivateStep DEF stored, Tokens

LEMMA LandStep ==
    ASSUME ConnInv, NEW p \in Procs, NEW ok \in BOOLEAN, Land(p, ok), pc[p] \in RefreshPcs,
           UNCHANGED <<stored, provider, revoked>>, Acquire(p) \/ Release(p) \/ UNCHANGED lock
    PROVE  ConnInv'
<1>1. /\ MemoryTyped /\ OthersStay(p) /\ flight' \in [Managers -> Flight]
      /\ pc'[p] = "clear" /\ snap'[p] = NoRow /\ got'[p] \in {0, Transient}
      /\ OneRefreshPerManager'
    BY Lands DEF ConnInv, Refreshing
<1>2. TypeOK'
    BY <1>1, Locks, SharedTyped DEF ConnInv
<1>3. InHand(p)' /\ got'[p] \notin Tokens
    BY <1>1 DEF InHand, Tokens, Transient
<1> QED
    BY <1>1, <1>2, <1>3, PrivateStep DEF stored, provider

\* p reads the row, and may take its manager's lock.
LEMMA ReadStep ==
    ASSUME ConnInv, NEW p \in Procs, NEW l \in {"ask", "store_save", "principal_save", "revoke"},
           Goto(p, l), snap' = [snap EXCEPT ![p] = row],
           UNCHANGED <<stored, provider, revoked, got, tries, flight>>,
           Acquire(p) \/ Release(p) \/ UNCHANGED lock,
           l = "ask" => pc[p] = "load" /\ row # NoRow, l = "store_save" => pc[p] = "store"
    PROVE  ConnInv'
<1>0. l \in Pcs /\ (l \in Refreshing => l = "ask")
    BY DEF Pcs, Refreshing, RefreshPcs, ConnectPcs, RevokePcs
<1>1. /\ got[p] \in Answers /\ got' = [got EXCEPT ![p] = got[p]] /\ row \in Row \cup {NoRow}
      /\ tries[p] \in 0 .. MaxTries - 1 /\ tries' = [tries EXCEPT ![p] = tries[p]]
    BY DEF ConnInv, TypeOK
<1>2. MemoryTyped /\ OthersStay(p) /\ pc'[p] = l /\ snap'[p] = row /\ got'[p] = got[p]
    BY <1>0, <1>1, GoesTo DEF ConnInv
<1>3. TypeOK'
    BY <1>2, Locks, SharedTyped DEF ConnInv, TypeOK
<1>4. OneRefreshPerManager'
    BY <1>0, <1>2, LeadersKept DEF ConnInv, Refreshing, RefreshPcs
<1>5. InHand(p)'
    BY <1>2 DEF ConnInv, InHand
<1>6. got'[p] \in Tokens => got'[p] \in Issued
    BY <1>2 DEF ConnInv, KnownTokens
<1> QED
    BY <1>2, <1>3, <1>4, <1>5, <1>6, PrivateStep DEF stored, provider

-----------------------------------------------------------------------------
(***************************************************************************)
(* A refresh.                                                              *)
(***************************************************************************)
LEMMA Entered == ASSUME ConnInv, NEW p \in Procs, Enter(p) PROVE ConnInv'
<1> DEFINE m == Of(p)
<1>0. m \in Managers
    BY ProcsFinite
<1>1. CASE flight[m] = NoFlight /\ Lead(p)
    <2> DEFINE f == [leader |-> p, done |-> FALSE]
    <2>1. f \in Flight /\ f.leader = p
        BY DEF Flight
    <2>2. flight' = [flight EXCEPT ![m] = f] /\ Goto(p, "load")
        BY <1>1 DEF Lead
    <2> HIDE DEF f
    <2>3. flight' \in [Managers -> Flight] /\ flight'[m].leader = p
          /\ \A n \in Managers \ {m} : flight'[n] = flight[n]
        BY <1>0, <2>1, <2>2 DEF ConnInv, TypeOK
    <2>4. UNCHANGED <<stored, provider, revoked, memory, lock>> /\ "load" \in Pcs
        BY DEF Enter, Pcs, RefreshPcs
    <2>5. MemoryTyped /\ OthersStay(p) /\ pc'[p] = "load" /\ snap'[p] = snap[p] /\ got'[p] = got[p]
        BY <2>2, <2>4, JustGoes DEF ConnInv
    <2>6. TypeOK'
        BY <2>3, <2>4, <2>5, SharedTyped DEF ConnInv, TypeOK
    <2>7. OneRefreshPerManager'
        <3> SUFFICES ASSUME NEW q \in Procs, pc'[q] \in Refreshing PROVE flight'[Of(q)].leader = q
            BY DEF OneRefreshPerManager, Refreshing, Of
        <3>1. CASE q = p
            BY <2>3, <3>1
        <3>2. CASE q # p
            <4>1. flight[Of(q)].leader = q /\ Of(q) \in Managers
                BY <2>5, <3>2, ProcsFinite DEF ConnInv, OneRefreshPerManager, OthersStay, Refreshing,
                   RefreshPcs
            <4>2. Of(q) # m
                BY <1>1, <4>1, ConnectorAssumption DEF NoFlight
            <4> QED
                BY <2>3, <4>1, <4>2
        <3> QED
            BY <3>1, <3>2
    <2>8. InHand(p)' /\ (got'[p] \in Tokens => got'[p] \in Issued)
        BY <2>5 DEF InHand, ConnInv, KnownTokens
    <2> QED
        BY <2>4, <2>5, <2>6, <2>7, <2>8, PrivateStep DEF stored, provider
<1>2. CASE Goto(p, IF flight[m].done THEN "idle" ELSE "wait") /\ UNCHANGED flight
    <2> DEFINE l == IF flight[m].done THEN "idle" ELSE "wait"
    <2>1. l \in {"idle", "wait"}
        OBVIOUS
    <2>2. Goto(p, l)
        BY <1>2
    <2> HIDE DEF l
    <2> QED
        BY <1>2, <2>1, <2>2, JustGoStep DEF Enter
<1> QED
    BY <1>1, <1>2 DEF Enter

LEMMA Loaded == ASSUME ConnInv, NEW p \in Procs, Load(p) PROVE ConnInv'
<1> USE DEF Load, At
<1>1. CASE Land(p, FALSE)
    BY <1>1, LandStep DEF RefreshPcs
<1>2. CASE row # NoRow /\ Goto(p, "ask") /\ snap' = [snap EXCEPT ![p] = row]
           /\ UNCHANGED <<got, tries, flight>>
    BY <1>2, ReadStep
<1> QED
    BY <1>1, <1>2

LEMMA Reloaded == ASSUME ConnInv, NEW p \in Procs, Reload(p) PROVE ConnInv'
<1> USE DEF Reload, At
<1>1. CASE Land(p, row # NoRow) /\ UNCHANGED lock
    <2>1. (row # NoRow) \in BOOLEAN
        OBVIOUS
    <2> QED
        BY <1>1, <2>1, LandStep DEF RefreshPcs
<1>2. CASE Acquire(p) /\ Goto(p, "save") /\ UNCHANGED <<memory, flight>>
    <2>1. "save" \in Pcs
        BY DEF Pcs, RefreshPcs
    <2>2. MemoryTyped /\ OthersStay(p) /\ pc'[p] = "save" /\ snap'[p] = snap[p] /\ got'[p] = got[p]
        BY <1>2, <2>1, JustGoes DEF ConnInv
    <2>3. TypeOK'
        BY <1>2, <2>2, Locks, SharedTyped DEF ConnInv, TypeOK
    <2>4. OneRefreshPerManager'
        BY <1>2, <2>2, LeadersKept DEF ConnInv, Refreshing, RefreshPcs
    <2>5. InHand(p)' /\ (got'[p] \in Tokens => got'[p] \in Issued)
        BY <2>2 DEF InHand, ConnInv, KnownTokens, provider
    <2> QED
        BY <2>2, <2>3, <2>4, <2>5, PrivateStep DEF stored, provider
<1> QED
    BY <1>1, <1>2

LEMMA Cleared == ASSUME ConnInv, NEW p \in Procs, Clear(p) PROVE ConnInv'
<1> USE DEF Clear, At
<1> DEFINE m == Of(p)
           l == IF p \in Commands /\ got[p] # 0 THEN "login" ELSE "idle"
<1>0. m \in Managers /\ l \in {"login", "idle"} /\ l \in Pcs
    BY ProcsFinite DEF Pcs, ConnectPcs
<1>1. Reset(p, l) /\ flight' = [flight EXCEPT ![m] = NoFlight]
    OBVIOUS
<1> HIDE DEF l
<1>2. MemoryTyped /\ OthersStay(p) /\ pc'[p] = l /\ snap'[p] = NoRow /\ got'[p] = 0
    BY <1>0, <1>1, Resets DEF ConnInv
<1>3. NoFlight \in Flight
    BY DEF NoFlight, Flight
<1>4. flight' \in [Managers -> Flight] /\ \A n \in Managers \ {m} : flight'[n] = flight[n]
    BY <1>0, <1>1, <1>3 DEF ConnInv, TypeOK
<1>5. TypeOK'
    BY <1>2, <1>4, SharedTyped DEF ConnInv, TypeOK
<1>6. OneRefreshPerManager'
    <2> SUFFICES ASSUME NEW q \in Procs, pc'[q] \in Refreshing PROVE flight'[Of(q)].leader = q
        BY DEF OneRefreshPerManager, Refreshing, Of
    <2>1. q # p
        BY <1>0, <1>2 DEF Refreshing, RefreshPcs
    <2>2. flight[Of(q)].leader = q /\ Of(q) \in Managers /\ flight[m].leader = p
        BY <1>2, <2>1, ProcsFinite DEF ConnInv, OneRefreshPerManager, OthersStay, Refreshing, RefreshPcs
    <2> QED
        BY <1>4, <2>1, <2>2
<1>7. InHand(p)'
    BY <1>0, <1>2 DEF InHand
<1> QED
    BY <1>2, <1>5, <1>6, <1>7, PrivateStep DEF stored, provider, Tokens

-----------------------------------------------------------------------------
(***************************************************************************)
(* The provider issues a token, in a refresh or at a login.                *)
(***************************************************************************)
LEMMA Issuing ==
    ASSUME ConnInv, CanIssue, NEW t \in Issued \cup {0}, Issue(t)
    PROVE  /\ Issued' = Issued \cup {Fresh} /\ Fresh \notin Issued /\ Fresh \in Tokens
           /\ origin'[Fresh] = t /\ \A i \in Issued : origin'[i] = origin[i]
           /\ Numbered'
<1>1. PICK n \in Nat : Issued = 1 .. n
    BY DEF ConnInv, Numbered
<1>2. Cardinality(Issued) = n
    BY <1>1, FS_Interval
<1>3. Fresh = n + 1
    BY <1>2 DEF Fresh
<1>4. Fresh \notin Issued /\ Fresh \in Tokens
    BY <1>1, <1>3, ConnectorAssumption DEF CanIssue, Tokens
<1>5. origin' = [i \in Issued \cup {Fresh} |-> IF i = Fresh THEN t ELSE origin[i]]
    BY DEF Issue
<1>6. Issued' = Issued \cup {Fresh}
    BY <1>5 DEF Issued
<1>7. origin'[Fresh] = t /\ \A i \in Issued : origin'[i] = origin[i]
    BY <1>4, <1>5
<1>8. Issued' = 1 .. (n + 1)
    BY <1>1, <1>3, <1>6
<1> QED
    BY <1>4, <1>6, <1>7, <1>8 DEF Numbered

LEMMA IssueStep ==
    ASSUME ConnInv, NEW p \in Procs, CanIssue, NEW t \in Issued \cup {0}, Issue(t),
           live' \subseteq live \cup {Fresh},
           NEW a \in {Fresh, Transient}, got' = [got EXCEPT ![p] = a],
           NEW l \in {"reload", "store"}, Goto(p, l),
           UNCHANGED <<stored, revoked, snap, tries, flight, lock>>,
           l = "reload" => pc[p] = "ask" /\ t = snap[p].token,
           l = "store" => a = Fresh
    PROVE  ConnInv'
<1>1. /\ Issued' = Issued \cup {Fresh} /\ Fresh \notin Issued /\ Fresh \in Tokens
      /\ origin'[Fresh] = t /\ (\A i \in Issued : origin'[i] = origin[i]) /\ Numbered'
    BY Issuing
<1>2. /\ a \in Answers /\ (a \in Tokens => a = Fresh) /\ l \in Pcs
      /\ l \in Refreshing => pc[p] \in Refreshing
    BY <1>1 DEF Answers, Transient, Tokens, Pcs, RefreshPcs, ConnectPcs, Refreshing
<1>4. MemoryTyped /\ OthersStay(p) /\ pc'[p] = l /\ snap'[p] = snap[p] /\ got'[p] = a
    BY <1>2, Hears DEF ConnInv
<1>5. \A i \in Issued' : origin'[i] \in Issued' \cup {0}
    BY <1>1 DEF ConnInv, TypeOK
<1>6. TypeOK'
    BY <1>1, <1>4, <1>5 DEF ConnInv, TypeOK, MemoryTyped, stored
<1>7. OneRefreshPerManager'
    BY <1>2, <1>4, LeadersKept DEF ConnInv
<1>8. KnownTokens'
    BY <1>1, <1>2, <1>4 DEF ConnInv, KnownTokens, stored, OthersStay
<1>9. OneRowPerRevision'
    BY DEF ConnInv, OneRowPerRevision, stored
<1>10. InHand(p)'
    BY <1>1, <1>2, <1>4, ConnectorAssumption DEF ConnInv, InHand, Transient, Tokens
<1>11. ASSUME NEW q \in Procs, q # p PROVE InHand(q)'
    <2>1. got[q] \in Tokens => got[q] \in Issued
        BY DEF ConnInv, KnownTokens
    <2> QED
        BY <1>1, <1>4, <1>11, <2>1 DEF ConnInv, InHand, OthersStay
<1> QED
    BY <1>1, <1>6, <1>7, <1>8, <1>9, <1>10, <1>11 DEF ConnInv

LEMMA Asked == ASSUME ConnInv, NEW p \in Procs, Ask(p) PROVE ConnInv'
<1> USE DEF Ask, At
<1> DEFINE t == snap[p].token
<1>0. /\ pc[p] = "ask" /\ Goto(p, "reload") /\ t \in Issued \cup {0} /\ live \subseteq Issued
      /\ "reload" \in Pcs /\ Issued \subseteq Tokens
    BY DEF ConnInv, TypeOK, KnownTokens, Pcs, RefreshPcs
<1>1. ASSUME NEW a \in {Permanent, Transient} \cup (live \cap {t}),
             got' = [got EXCEPT ![p] = a], UNCHANGED provider
      PROVE  ConnInv'
    <2>1. a \in Answers /\ a # 0 /\ (a \in Tokens => a = t /\ a \in Issued)
        BY <1>0, <1>1, ConnectorAssumption DEF Answers, Permanent, Transient, Tokens
    <2>3. MemoryTyped /\ OthersStay(p) /\ pc'[p] = "reload" /\ snap'[p] = snap[p] /\ got'[p] = a
        BY <1>0, <1>1, <2>1, Hears DEF ConnInv
    <2>4. TypeOK'
        BY <1>1, <2>3, SharedTyped DEF ConnInv, TypeOK
    <2>5. OneRefreshPerManager'
        BY <1>0, <2>3, LeadersKept DEF ConnInv, Refreshing, RefreshPcs
    <2>6. InHand(p)'
        BY <1>0, <2>1, <2>3 DEF ConnInv, InHand
    <2> QED
        BY <1>1, <2>1, <2>3, <2>4, <2>5, <2>6, PrivateStep DEF stored, provider
<1>2. ASSUME CanIssue, Issue(t), live' = (live \ {t}) \cup {Fresh},
             NEW a \in {Fresh, Transient}, got' = [got EXCEPT ![p] = a]
      PROVE  ConnInv'
    <2>1. live' \subseteq live \cup {Fresh}
        BY <1>2
    <2> QED
        BY <1>0, <1>2, <2>1, IssueStep
<1> QED
    BY <1>1, <1>2

LEMMA LoggedIn == ASSUME ConnInv, NEW p \in Procs, Login(p) PROVE ConnInv'
<1> USE DEF Login, At
<1>1. CASE /\ CanIssue /\ Issue(0) /\ live' = live \cup {Fresh}
           /\ got' = [got EXCEPT ![p] = Fresh] /\ Goto(p, "store") /\ UNCHANGED <<snap, tries>>
    BY <1>1, IssueStep
<1>2. CASE Reset(p, "idle") /\ UNCHANGED provider
    BY <1>2, ResetStep DEF provider
<1> QED
    BY <1>1, <1>2

-----------------------------------------------------------------------------
(***************************************************************************)
(* The row is written.                                                     *)
(***************************************************************************)
LEMMA WrittenTyped ==
    ASSUME TypeOK, MemoryTyped, UNCHANGED provider, revoked' \subseteq Issued,
           row' \in Row \cup {NoRow}, due' \in BOOLEAN,
           flight' \in [Managers -> Flight], lock' \in [Managers -> Procs \cup {None}]
    PROVE  TypeOK'
    BY DEF TypeOK, MemoryTyped, provider, Issued

\* What a refresh writes, over the row it read.
LEMMA RefreshedRow ==
    ASSUME ConnInv, NEW p \in Procs, pc[p] = "save"
    PROVE  /\ Refreshed(p) \in Row /\ Refreshed(p).rev = NewRevision(p)
           /\ Refreshed(p).token \in Issued
           /\ \/ Refreshed(p).token = snap[p].token
              \/ origin[Refreshed(p).token] = snap[p].token
<1> DEFINE s == snap[p]
           n == NewRevision(p)
<1>1. s \in Row /\ s.token \in Issued /\ n \in Revisions
    <2>1. s \in Row
        BY DEF ConnInv, TypeOK, InHand
    <2>2. s.token \in Tokens /\ s.token \in Issued \cup {0}
        BY <2>1 DEF Row, ConnInv, KnownTokens
    <2> QED
        BY <2>1, <2>2, NewRevisionIsNew DEF Tokens
<1> HIDE DEF n, s
<1>2. CASE got[p] = Permanent
    <2>1. Refreshed(p) = [s EXCEPT !.rev = n, !.reauth = TRUE]
        BY <1>2 DEF Refreshed, s, n, Permanent, Transient
    <2>2. LET r == [s EXCEPT !.rev = n, !.reauth = TRUE]
          IN  r \in Row /\ r.rev = n /\ r.token = s.token
        BY <1>1 DEF Row
    <2> QED
        BY <1>1, <2>1, <2>2 DEF s, n
<1>3. CASE got[p] = Transient
    <2>1. Refreshed(p) = [s EXCEPT !.rev = n]
        BY <1>3 DEF Refreshed, s, n, Permanent, Transient
    <2>2. LET r == [s EXCEPT !.rev = n]
          IN  r \in Row /\ r.rev = n /\ r.token = s.token
        BY <1>1 DEF Row
    <2> QED
        BY <1>1, <2>1, <2>2 DEF s, n
<1>4. CASE got[p] \notin {Permanent, Transient}
    <2>1. /\ got[p] \in Tokens /\ got[p] \in Issued
          /\ got[p] = s.token \/ origin[got[p]] = s.token
        BY <1>4 DEF ConnInv, TypeOK, Answers, KnownTokens, InHand, s
    <2> DEFINE t == got[p]
    <2>2. Refreshed(p) = [s EXCEPT !.rev = n, !.token = t]
        BY <1>4 DEF Refreshed, s, n
    <2> HIDE DEF t
    <2>3. t \in Tokens
        BY <2>1 DEF t
    <2>4. LET r == [s EXCEPT !.rev = n, !.token = t]
          IN  r \in Row /\ r.rev = n /\ r.token = t
        BY <1>1, <2>3 DEF Row
    <2> QED
        BY <1>1, <2>1, <2>2, <2>4 DEF s, n, t
<1> QED
    BY <1>2, <1>3, <1>4

LEMMA Saved == ASSUME ConnInv, NEW p \in Procs, Save(p) PROVE ConnInv'
<1> USE DEF Save, At
<1>1. CASE ~Unchanged(p) /\ UNCHANGED stored /\ Land(p, TRUE)
    BY <1>1, LandStep DEF RefreshPcs
<1>2. CASE SaveIfUnchanged(p, Refreshed(p), got[p] \in Tokens) /\ Land(p, got[p] \in Tokens)
    <2>0. (got[p] \in Tokens) \in BOOLEAN /\ pc[p] = "save" /\ pc[p] \in Refreshing
        BY DEF Refreshing, RefreshPcs
    <2>1. /\ MemoryTyped /\ OthersStay(p) /\ flight' \in [Managers -> Flight]
          /\ pc'[p] = "clear" /\ snap'[p] = NoRow /\ got'[p] \in {0, Transient}
          /\ OneRefreshPerManager'
        BY <1>2, <2>0, Lands DEF ConnInv
    <2>2. row' = Refreshed(p) /\ due' = (due /\ ~(got[p] \in Tokens))
        BY <1>2 DEF SaveIfUnchanged
    <2>3. row' \in Row /\ row'.rev = NewRevision(p) /\ row'.token \in Issued
        BY <2>0, <2>2, RefreshedRow
    <2>4. due' \in BOOLEAN
        BY <2>2, Zenon
    <2>5. TypeOK'
        BY <2>1, <2>3, <2>4, Locks, WrittenTyped DEF ConnInv, TypeOK
    <2>6. InHand(p)' /\ got'[p] \notin Tokens
        BY <2>1 DEF InHand, Tokens, Transient
    <2> QED
        BY <2>1, <2>3, <2>5, <2>6, RowStep DEF provider
<1> QED
    BY <1>1, <1>2

LEMMA ReauthTyped == ASSUME NEW r \in Row \cup {NoRow} PROVE r.reauth \in BOOLEAN
<1>1. CASE r \in Row
    BY <1>1 DEF Row
<1>2. CASE r = NoRow
    BY <1>2 DEF NoRow
<1> QED
    BY <1>1, <1>2

LEMMA StoreSaved == ASSUME ConnInv, NEW p \in Procs, StoreSave(p) PROVE ConnInv'
<1> USE DEF StoreSave, At
<1>1. CASE /\ SaveIfUnchanged(p, Connected(p), TRUE)
           /\ Reset(p, IF Principals THEN "principal" ELSE "idle") /\ Release(p)
    <2> DEFINE l == IF Principals THEN "principal" ELSE "idle"
    <2>1. l \in {"principal", "idle"} /\ l \in Pcs /\ l \notin Refreshing
        BY DEF Pcs, ConnectPcs, Refreshing, RefreshPcs
    <2>2. Reset(p, l)
        BY <1>1
    <2> HIDE DEF l
    <2>3. MemoryTyped /\ OthersStay(p) /\ pc'[p] = l /\ snap'[p] = NoRow /\ got'[p] = 0
        BY <2>1, <2>2, Resets DEF ConnInv
    <2>4. /\ got[p] \in Tokens /\ got[p] \in Issued /\ NewRevision(p) \in Revisions
          /\ snap[p].reauth \in BOOLEAN
        <3>1. snap[p] \in Row \cup {NoRow}
            BY DEF ConnInv, TypeOK
        <3>2. snap[p].reauth \in BOOLEAN
            BY <3>1, ReauthTyped, Zenon
        <3> QED
            BY <3>2, NewRevisionIsNew DEF ConnInv, InHand, KnownTokens
    <2>5. row' = Connected(p) /\ due' = (due /\ ~TRUE)
        BY <1>1 DEF SaveIfUnchanged
    <2>6. row' \in Row /\ row'.rev = NewRevision(p) /\ row'.token = got[p]
        BY <2>4, <2>5 DEF Connected, DeriveStatus, Row
    <2>7. due' \in BOOLEAN
        BY <2>5, Zenon
    <2>8. TypeOK'
        BY <1>1, <2>3, <2>6, <2>7, Locks, WrittenTyped DEF ConnInv, TypeOK
    <2>9. OneRefreshPerManager'
        BY <2>1, <2>3, LeadersKept DEF ConnInv
    <2>10. InHand(p)' /\ got'[p] \notin Tokens
        BY <2>1, <2>3 DEF InHand, Tokens
    <2> QED
        BY <2>3, <2>4, <2>6, <2>8, <2>9, <2>10, RowStep DEF provider
<1>2. CASE /\ UNCHANGED stored /\ Retries(p) /\ Goto(p, "store")
           /\ tries' = [tries EXCEPT ![p] = @ + 1]
           /\ snap' = [snap EXCEPT ![p] = NoRow] /\ UNCHANGED <<got, lock>>
    <2>1. "store" \in Pcs /\ tries[p] + 1 \in 0 .. MaxTries - 1
        BY <1>2, ConnectorAssumption DEF Pcs, ConnectPcs, ConnInv, TypeOK, Retries
    <2>2. MemoryTyped /\ OthersStay(p) /\ pc'[p] = "store" /\ snap'[p] = NoRow /\ got'[p] = got[p]
        BY <1>2, <2>1 DEF ConnInv, TypeOK, Goto, MemoryTyped, OthersStay
    <2>3. TypeOK'
        BY <1>2, <2>2, SharedTyped DEF ConnInv, TypeOK
    <2>4. OneRefreshPerManager'
        BY <2>2, LeadersKept DEF ConnInv, Refreshing, RefreshPcs
    <2>5. InHand(p)' /\ (got'[p] \in Tokens => got'[p] \in Issued)
        BY <2>2 DEF InHand, ConnInv, KnownTokens
    <2> QED
        BY <1>2, <2>2, <2>3, <2>4, <2>5, PrivateStep DEF stored, provider
<1>3. CASE UNCHANGED stored /\ Reset(p, "idle") /\ Release(p)
    BY <1>3, ResetStep DEF provider
<1> QED
    BY <1>1, <1>2, <1>3

\* SavePrincipal and Delete: p resets and leaves another row.
LEMMA RowResetStep ==
    ASSUME ConnInv, NEW p \in Procs, Reset(p, "idle"), row' \in {NoRow, snap[p]}, due' \in BOOLEAN,
           revoked' \subseteq Issued, UNCHANGED <<provider, flight, lock>>
    PROVE  ConnInv'
<1>1. "idle" \in Pcs /\ "idle" \notin Refreshing
    BY DEF Pcs, Refreshing, RefreshPcs
<1>2. MemoryTyped /\ OthersStay(p) /\ pc'[p] = "idle" /\ snap'[p] = NoRow /\ got'[p] = 0
    BY <1>1, Resets DEF ConnInv
<1>3. row' \in Row \cup {NoRow} /\ row'.token \in Issued \cup {0}
    BY DEF ConnInv, TypeOK, KnownTokens, NoRow
<1>4. TypeOK'
    BY <1>2, <1>3, WrittenTyped DEF ConnInv, TypeOK
<1>5. OneRefreshPerManager'
    BY <1>1, <1>2, LeadersKept DEF ConnInv
<1>6. InHand(p)' /\ got'[p] \notin Tokens
    BY <1>2 DEF InHand, Tokens
<1> QED
    BY <1>2, <1>3, <1>4, <1>5, <1>6, RowStep DEF provider

LEMMA CommandSteps == ASSUME ConnInv, NEW p \in Procs, Command(p) PROVE ConnInv'
<1> USE DEF At
<1>1. CASE Reconnect(p) \/ Connect(p)
    BY <1>1, JustGoStep DEF Reconnect, Connect
<1>2. CASE Revoke(p) \/ Store(p)
    BY <1>2, ReadStep DEF Revoke, Store
<1>3. CASE ReadPrincipal(p)
    <2>1. CASE Reset(p, "idle")
        BY <1>3, <2>1, ResetStep DEF ReadPrincipal, provider
    <2>2. CASE /\ row # NoRow /\ Goto(p, "principal_save")
               /\ snap' = [snap EXCEPT ![p] = row] /\ UNCHANGED <<got, tries>>
        BY <1>3, <2>2, ReadStep DEF ReadPrincipal
    <2> QED
        BY <1>3, <2>1, <2>2 DEF ReadPrincipal
<1>4. CASE SavePrincipal(p)
    <2>1. due' \in BOOLEAN /\ revoked' \subseteq Issued
        BY <1>4 DEF SavePrincipal, ConnInv, TypeOK
    <2> QED
        BY <1>4, <2>1, RowResetStep DEF SavePrincipal
<1>5. CASE RevokeRemote(p)
    <2>1. live' \subseteq live
        BY <1>5 DEF RevokeRemote
    <2> QED
        BY <1>5, <2>1, ResetStep DEF RevokeRemote
<1>6. CASE Delete(p)
    <2>1. due' \in BOOLEAN /\ revoked' \subseteq Issued
        BY <1>6 DEF Delete, ConnInv, TypeOK, KnownTokens
    <2> QED
        BY <1>6, <2>1, RowResetStep DEF Delete
<1> QED
    BY <1>1, <1>2, <1>3, <1>4, <1>5, <1>6, LoggedIn, StoreSaved DEF Command

-----------------------------------------------------------------------------
(***************************************************************************)
(* The surroundings.                                                       *)
(***************************************************************************)
LEMMA Failed == ASSUME ConnInv, NEW p \in Procs, Fail(p) PROVE ConnInv'
<1>1. UNCHANGED <<stored, provider, revoked>> /\ Release(p)
    BY DEF Fail
<1>2. CASE pc[p] \in RefreshPcs \ {"ask"} /\ Land(p, FALSE)
    BY <1>1, <1>2, LandStep
<1>3. CASE Reset(p, "idle") /\ UNCHANGED flight
    BY <1>1, <1>3, ResetStep DEF provider
<1> QED
    BY <1>2, <1>3 DEF Fail

LEMMA Crashed == ASSUME ConnInv, NEW m \in Managers, Crash(m) PROVE ConnInv'
<1> USE DEF Crash
<1>1. "idle" \in Pcs /\ 0 \in Answers /\ 0 \in 0 .. MaxTries - 1 /\ NoFlight \in Flight
    BY ConnectorAssumption DEF Pcs, Answers, NoFlight, Flight
<1>2. MemoryTyped
    BY <1>1 DEF ConnInv, TypeOK, MemoryTyped
<1>3. flight' \in [Managers -> Flight] /\ lock' \in [Managers -> Procs \cup {None}]
    BY <1>1 DEF ConnInv, TypeOK
<1>4. TypeOK'
    BY <1>2, <1>3, SharedTyped DEF ConnInv
<1>5. \A p \in Procs :
          \/ Of(p) = m /\ pc'[p] = "idle" /\ snap'[p] = NoRow /\ got'[p] = 0
          \/ Of(p) # m /\ pc'[p] = pc[p] /\ snap'[p] = snap[p] /\ got'[p] = got[p]
    OBVIOUS
<1>6. \A n \in Managers \ {m} : flight'[n] = flight[n]
    BY DEF ConnInv, TypeOK
<1>7. OneRefreshPerManager'
    <2> SUFFICES ASSUME NEW q \in Procs, pc'[q] \in Refreshing PROVE flight'[Of(q)].leader = q
        BY DEF OneRefreshPerManager, Refreshing, Of
    <2>1. Of(q) # m /\ pc'[q] = pc[q] /\ Of(q) \in Managers
        BY <1>5, ProcsFinite DEF Refreshing, RefreshPcs
    <2> QED
        BY <1>6, <2>1 DEF ConnInv, OneRefreshPerManager, Refreshing
<1>8. UNCHANGED <<row, origin>> /\ Issued' = Issued
    BY DEF stored, provider, Issued
<1>9. Numbered' /\ KnownTokens'
    <2>1. \A p \in Procs : snap'[p] \in {NoRow, snap[p]} /\ got'[p] \in {0, got[p]}
        BY <1>5
    <2>2. 0 \notin Tokens /\ NoRow.token = 0
        BY DEF Tokens, NoRow
    <2>3. Numbered'
        BY <1>8 DEF ConnInv, Numbered
    <2>4. KnownTokens'
        BY <1>8, <2>1, <2>2, Zenon DEF ConnInv, KnownTokens
    <2> QED
        BY <2>3, <2>4
<1>10. OneRowPerRevision'
    <2>1. \A q \in Procs : snap[q].rev = NoRow.rev => snap[q] = NoRow
        BY NoRowAlone DEF NoRow, ConnInv, TypeOK
    <2>2. row.rev = NoRow.rev => row = NoRow
        BY NoRowAlone DEF ConnInv, TypeOK, NoRow
    <2>3. \A q \in Procs : snap'[q] \in {NoRow, snap[q]}
        BY <1>5
    <2> QED
        BY <1>8, <2>1, <2>2, <2>3 DEF ConnInv, OneRowPerRevision
<1>11. \A p \in Procs : InHand(p)'
    BY <1>5, <1>8 DEF ConnInv, InHand
<1> QED
    BY <1>4, <1>7, <1>9, <1>10, <1>11 DEF ConnInv

LEMMA ConnInvStep == ASSUME ConnInv, [Next]_vars PROVE ConnInv'
<1>1. CASE UNCHANGED vars \/ Expire
    <2>1. UNCHANGED <<row, provider, revoked, pc, memory, flight, lock>>
        BY <1>1 DEF vars, Expire, stored, provider, memory
    <2>2. due' \in BOOLEAN
        BY <1>1 DEF vars, Expire, stored, ConnInv, TypeOK
    <2> QED
        BY <2>1, <2>2 DEF provider, memory, ConnInv, TypeOK, Issued, OneRefreshPerManager, Of, Numbered,
           KnownTokens, OneRowPerRevision, InHand
<1>2. ASSUME NEW p \in Procs, GetAccessToken(p) \/ GiveUp(p) \/ Refresh(p) \/ Command(p) \/ Fail(p)
      PROVE  ConnInv'
    <2>1. CASE GetAccessToken(p) \/ GiveUp(p)
        BY <2>1, JustGoStep DEF GetAccessToken, GiveUp
    <2>2. CASE Refresh(p)
        BY <2>2, Entered, Loaded, Asked, Reloaded, Saved, Cleared DEF Refresh
    <2> QED
        BY <1>2, <2>1, <2>2, CommandSteps, Failed
<1>3. CASE \E m \in Managers : Crash(m)
    BY <1>3, Crashed
<1> QED
    BY <1>1, <1>2, <1>3 DEF Next

LEMMA ConnHolds == Spec => []ConnInv
    BY ConnInvInit, ConnInvStep, PTL DEF Spec

(***************************************************************************)
(* Every reachable state of a connector is well typed.                     *)
(***************************************************************************)
THEOREM ConnectorTypeCorrect == Spec => []TypeOK
<1>1. ConnInv => TypeOK
    BY DEF ConnInv
<1> QED
    BY <1>1, ConnHolds, PTL

(***************************************************************************)
(* However many callers want the token at once, each Manager has one       *)
(* refresh under way (manager.go:358).                                     *)
(***************************************************************************)
THEOREM RefreshIsAlone == Spec => []OneRefreshPerManager
<1>1. ConnInv => OneRefreshPerManager
    BY DEF ConnInv
<1> QED
    BY <1>1, ConnHolds, PTL

-----------------------------------------------------------------------------
\* What a step that ends p's refresh while it saves may do to the row.
Replaces ==
    \A p \in Procs :
        (pc[p] = "save" /\ pc'[p] # "save" /\ row' # row) =>
            /\ row # NoRow /\ row' # NoRow
            /\ row'.token = row.token \/ origin[row'.token] = row.token

\* Only a waiter goes anywhere but by a step of its own, a failure or a crash.
LEMMA Undisturbed ==
    ASSUME ConnInv, NEW p \in Procs, pc[p] = "save", NEW q \in Procs \ {p},
           GetAccessToken(q) \/ GiveUp(q) \/ Refresh(q) \/ Command(q)
    PROVE  pc'[p] = "save"
<1>1. pc \in [Procs -> Pcs]
    BY DEF ConnInv, TypeOK
<1>2. ASSUME NEW ok \in BOOLEAN, Land(q, ok) PROVE pc'[p] = "save"
    BY <1>1, <1>2 DEF Land, Waiting
<1>3. ASSUME NEW l, Goto(q, l) \/ Reset(q, l) PROVE pc'[p] = "save"
    BY <1>1, <1>3 DEF Goto, Reset
<1>4. CASE GetAccessToken(q) \/ GiveUp(q)
    BY <1>3, <1>4 DEF GetAccessToken, GiveUp
<1>5. CASE Refresh(q)
    <2>1. CASE Enter(q)
        BY <1>3, <2>1 DEF Enter, Lead
    <2>2. CASE Load(q)
        BY <1>2, <1>3, <2>2 DEF Load
    <2>3. CASE Ask(q)
        BY <1>3, <2>3 DEF Ask
    <2>4. CASE Reload(q)
        <3>1. (row # NoRow) \in BOOLEAN
            OBVIOUS
        <3> QED
            BY <1>2, <1>3, <2>4, <3>1 DEF Reload
    <2>5. CASE Save(q)
        <3>1. (got[q] \in Tokens) \in BOOLEAN
            OBVIOUS
        <3> QED
            BY <1>2, <2>5, <3>1 DEF Save
    <2>6. CASE Clear(q)
        BY <1>3, <2>6 DEF Clear
    <2> QED
        BY <1>5, <2>1, <2>2, <2>3, <2>4, <2>5, <2>6 DEF Refresh
<1>6. CASE Command(q)
    <2>1. CASE Reconnect(q) \/ Connect(q) \/ Revoke(q) \/ Login(q) \/ Store(q)
        BY <1>3, <2>1 DEF Reconnect, Connect, Revoke, Login, Store
    <2>2. CASE StoreSave(q)
        BY <1>3, <2>2 DEF StoreSave
    <2>3. CASE ReadPrincipal(q) \/ SavePrincipal(q) \/ RevokeRemote(q) \/ Delete(q)
        BY <1>3, <2>3 DEF ReadPrincipal, SavePrincipal, RevokeRemote, Delete
    <2> QED
        BY <1>6, <2>1, <2>2, <2>3 DEF Command
<1> QED
    BY <1>4, <1>5, <1>6

\* At "save" a process has one step that changes the row.
LEMMA SavesItself ==
    ASSUME ConnInv, [Next]_vars, NEW p \in Procs, pc[p] = "save", pc'[p] # "save", row' # row
    PROVE  Save(p)
<1>1. PICK q \in Procs : GetAccessToken(q) \/ GiveUp(q) \/ Refresh(q) \/ Command(q)
    BY DEF Next, vars, Expire, Fail, Crash, stored
<1>2. q = p
    BY <1>1, Undisturbed
<1> QED
    BY <1>1, <1>2 DEF GetAccessToken, GiveUp, Refresh, Enter, Load, Ask, Reload, Clear,
       Command, Reconnect, Connect, Revoke, Login, Store, StoreSave, ReadPrincipal,
       SavePrincipal, RevokeRemote, Delete, At

(***************************************************************************)
(* Whoever else logs in, revokes, refreshes or dies meanwhile, a refresh   *)
(* writes only over the row it was made for (manager.go:392-470).          *)
(***************************************************************************)
THEOREM RefreshReplacesOnlyItsOwn == Spec => RefreshReplacesItsOwn
<1>1. ASSUME ConnInv, [Next]_vars PROVE Replaces
    <2> SUFFICES ASSUME NEW p \in Procs, pc[p] = "save", pc'[p] # "save", row' # row
                 PROVE  /\ row # NoRow /\ row' # NoRow
                        /\ row'.token = row.token \/ origin[row'.token] = row.token
        BY DEF Replaces
    <2>1. Save(p)
        BY <1>1, SavesItself
    <2>2. row.rev = snap[p].rev /\ row' = Refreshed(p)
        BY <2>1 DEF Save, SaveIfUnchanged, Unchanged, stored
    <2>3. row = snap[p] /\ snap[p] # NoRow
        BY <1>1, <2>2 DEF ConnInv, OneRowPerRevision, InHand
    <2>4. /\ Refreshed(p) \in Row
          /\ Refreshed(p).token = snap[p].token \/ origin[Refreshed(p).token] = snap[p].token
        BY <1>1, <2>3, RefreshedRow
    <2>5. NoRow \notin Row
        BY ProcsFinite DEF Row, NoRow
    <2> QED
        BY <2>2, <2>3, <2>4, <2>5
<1> QED
    BY <1>1, ConnHolds, PTL DEF Spec, RefreshReplacesItsOwn, Replaces

-----------------------------------------------------------------------------
(***************************************************************************)
(* A revoked token stays gone.                                             *)
(***************************************************************************)
\* p has a token the row has never had.
Pending(p) ==
    /\ got[p] \in Tokens
    /\ \/ pc[p] \in {"store", "store_save"}
       \/ pc[p] \in {"reload", "save"} /\ got[p] # snap[p].token

\* Nobody else knows a pending token, so no revoke can have deleted it.
Apart(p) ==
    Pending(p) => /\ got[p] \notin revoked /\ got[p] # row.token
                  /\ \A q \in Procs : snap[q].token # got[p]
                  /\ \A q \in Procs \ {p} : Pending(q) => got[q] # got[p]

\* Only a command logs in or revokes, and the row that a principal is written
\* back to has not been revoked since it was read.
Places(p) ==
    /\ pc[p] \in ConnectPcs \cup RevokePcs => p \in Commands
    /\ pc[p] \in {"principal", "principal_save"} => Principals
    /\ pc[p] = "principal_save" => snap[p].token \notin revoked

StayInv ==
    /\ RevokedTokensStayGone
    /\ \A p \in Procs : Apart(p)
    /\ \A p \in Procs : Places(p)

\* With a userinfo endpoint and two commands a revoke comes between the other's
\* read of the row and its write.
OneWriterOfPrincipals == Principals => \A c, d \in Commands : c = d

LEMMA RevokedIssued ==
    ASSUME ConnInv
    PROVE  /\ revoked \subseteq Issued /\ Issued \subseteq Tokens /\ 0 \notin Tokens
           /\ 0 \notin revoked /\ row.token \in Issued \cup {0}
           /\ \A q \in Procs : snap[q].token \in Issued \cup {0}
    BY DEF ConnInv, TypeOK, KnownTokens, Tokens

(***************************************************************************)
(* A step of p leaves a token in the row that was in it, that p read in it *)
(* or that was pending with p.                                             *)
(***************************************************************************)
LEMMA StayStep ==
    ASSUME ConnInv, StayInv, NEW p \in Procs, OthersStay(p),
           row'.token \in {0, row.token, snap[p].token} \/ (Pending(p) /\ row'.token = got[p]),
           row'.token \notin revoked',
           snap'[p].token \in {0, row.token, snap[p].token},
           revoked' \subseteq revoked \cup ({row.token} \ {0}),
           Pending(p)' => \/ Pending(p) /\ got'[p] = got[p] /\ row'.token # got[p]
                          \/ got'[p] \notin Issued,
           Places(p)',
           \A q \in Procs \ {p} : pc[q] = "principal_save" => snap[q].token \notin revoked'
    PROVE  StayInv'
<1>1. RevokedTokensStayGone'
    BY DEF RevokedTokensStayGone
<1>2. \A q \in Procs : Places(q)'
    BY DEF StayInv, Places, OthersStay, ConnectPcs, RevokePcs
<1>3. ASSUME NEW q \in Procs, q # p PROVE Pending(q)' => Pending(q) /\ got'[q] = got[q]
    BY <1>3 DEF Pending, OthersStay
<1>4. ASSUME NEW q \in Procs, Pending(q) PROVE got[q] \in Issued /\ got[q] # 0
    BY <1>4 DEF Pending, ConnInv, KnownTokens, Tokens
<1>5. ASSUME NEW q \in Procs, q # p, Pending(q)' PROVE Apart(q)'
    <2>1. Pending(q) /\ got'[q] = got[q] /\ got[q] \in Issued /\ got[q] # 0
        BY <1>3, <1>4, <1>5
    <2>2. /\ got[q] \notin revoked /\ got[q] # row.token
          /\ \A r \in Procs : snap[r].token # got[q]
          /\ \A r \in Procs \ {q} : Pending(r) => got[r] # got[q]
        BY <2>1 DEF StayInv, Apart
    <2>3. got[q] \notin revoked' /\ got[q] # row'.token
        BY <1>5, <2>1, <2>2
    <2>4. \A r \in Procs : snap'[r].token # got[q]
        BY <2>1, <2>2 DEF OthersStay
    <2>5. ASSUME NEW r \in Procs \ {q}, Pending(r)' PROVE got'[r] # got[q]
        <3>1. CASE r = p
            BY <1>5, <2>1, <2>2, <2>5, <3>1
        <3>2. CASE r # p
            BY <1>3, <2>2, <2>5, <3>2
        <3> QED
            BY <3>1, <3>2
    <2> QED
        BY <2>1, <2>3, <2>4, <2>5 DEF Apart
<1>6. Apart(p)'
    <2> SUFFICES ASSUME Pending(p)'
                 PROVE  /\ got'[p] \notin revoked' /\ got'[p] # row'.token
                        /\ \A q \in Procs : snap'[q].token # got'[p]
                        /\ \A q \in Procs \ {p} : Pending(q)' => got'[q] # got'[p]
        BY DEF Apart
    <2>0. got'[p] # 0
        BY DEF Pending, Tokens
    <2>1. CASE Pending(p) /\ got'[p] = got[p] /\ row'.token # got[p]
        <3>1. /\ got[p] \notin revoked /\ got[p] # row.token
              /\ \A r \in Procs : snap[r].token # got[p]
              /\ \A r \in Procs \ {p} : Pending(r) => got[r] # got[p]
            BY <2>1 DEF StayInv, Apart
        <3>2. \A q \in Procs : snap'[q].token # got[p]
            BY <2>0, <2>1, <3>1 DEF OthersStay
        <3>3. \A q \in Procs \ {p} : Pending(q)' => got'[q] # got[p]
            BY <1>3, <3>1
        <3> QED
            BY <2>1, <3>1, <3>2, <3>3
    <2>2. CASE got'[p] \notin Issued
        <3>1. got'[p] \notin revoked' /\ got'[p] # row'.token
            BY <1>4, <2>0, <2>2, RevokedIssued
        <3>2. \A q \in Procs : snap'[q].token # got'[p]
            BY <2>0, <2>2, RevokedIssued DEF OthersStay
        <3>3. \A q \in Procs \ {p} : Pending(q)' => got'[q] # got'[p]
            BY <1>3, <1>4, <2>2
        <3> QED
            BY <3>1, <3>2, <3>3
    <2> QED
        BY <2>1, <2>2
<1>7. \A q \in Procs : Apart(q)'
    BY <1>5, <1>6 DEF Apart
<1> QED
    BY <1>1, <1>2, <1>7 DEF StayInv

\* Steps that leave the row and the history alone.
LEMMA StayQuiet ==
    ASSUME ConnInv, StayInv, NEW p \in Procs, OthersStay(p), UNCHANGED <<row, revoked>>,
           snap'[p] \in {NoRow, row, snap[p]},
           Pending(p)' => (Pending(p) /\ got'[p] = got[p]) \/ got'[p] \notin Issued,
           pc'[p] \in ConnectPcs \cup RevokePcs => p \in Commands,
           pc'[p] \in {"principal", "principal_save"} => Principals,
           pc'[p] = "principal_save" => snap'[p] = row
    PROVE  StayInv'
<1>1. Places(p)' /\ row.token \notin revoked
    BY DEF Places, StayInv, RevokedTokensStayGone
<1>2. \A q \in Procs : pc[q] = "principal_save" => snap[q].token \notin revoked
    BY DEF StayInv, Places
<1>3. Pending(p) => got[p] # row.token
    BY DEF StayInv, Apart
<1>4. snap'[p].token \in {0, row.token, snap[p].token}
    BY DEF NoRow
<1> QED
    BY <1>1, <1>2, <1>3, <1>4, StayStep

LEMMA StayLands ==
    ASSUME ConnInv, StayInv, NEW p \in Procs, NEW ok \in BOOLEAN, Land(p, ok),
           pc[p] \in Refreshing, UNCHANGED <<row, revoked>>
    PROVE  StayInv'
<1>1. OthersStay(p) /\ pc'[p] = "clear" /\ snap'[p] = NoRow
    BY Lands DEF ConnInv
<1>2. ~Pending(p)' /\ "clear" \notin ConnectPcs \cup RevokePcs
    BY <1>1 DEF Pending, ConnectPcs, RevokePcs
<1> QED
    BY <1>1, <1>2, StayQuiet

LEMMA StayResets ==
    ASSUME ConnInv, StayInv, NEW p \in Procs, NEW l \in {"idle", "login", "delete", "principal"},
           Reset(p, l), UNCHANGED <<row, revoked>>,
           l # "idle" => p \in Commands, l # "principal"
    PROVE  StayInv'
<1>1. l \in Pcs
    BY DEF Pcs, ConnectPcs, RevokePcs
<1>2. OthersStay(p) /\ pc'[p] = l /\ snap'[p] = NoRow
    BY <1>1, Resets DEF ConnInv
<1>3. ~Pending(p)' /\ "idle" \notin ConnectPcs \cup RevokePcs
    BY <1>2 DEF Pending, ConnectPcs, RevokePcs
<1> QED
    BY <1>2, <1>3, StayQuiet

\* A step to l that keeps what p has.
LEMMA StayGoes ==
    ASSUME ConnInv, StayInv, NEW p \in Procs, NEW l \in Pcs, Goto(p, l), UNCHANGED memory,
           UNCHANGED <<row, revoked>>,
           l \in {"store", "store_save", "reload", "save"} => l = "save" /\ pc[p] = "reload",
           l \in ConnectPcs \cup RevokePcs => l = "login" /\ p \in Commands
    PROVE  StayInv'
<1>1. OthersStay(p) /\ pc'[p] = l /\ snap'[p] = snap[p] /\ got'[p] = got[p]
    BY JustGoes DEF ConnInv
<1>2. Pending(p)' => Pending(p) /\ got'[p] = got[p]
    BY <1>1 DEF Pending
<1>3. l \notin {"principal", "principal_save"}
    BY DEF ConnectPcs
<1> QED
    BY <1>1, <1>2, <1>3, StayQuiet

\* What a refresh writes is the token it read, or its pending one.
LEMMA WrittenToken ==
    ASSUME ConnInv, NEW p \in Procs, pc[p] = "save"
    PROVE  \/ Refreshed(p).token = snap[p].token
           \/ Pending(p) /\ Refreshed(p).token = got[p]
<1> DEFINE s == snap[p]
           n == NewRevision(p)
<1>1. s \in Row /\ n \in Revisions
    BY NewRevisionIsNew DEF ConnInv, TypeOK, InHand
<1> HIDE DEF n, s
<1>2. CASE got[p] = Permanent
    <2>1. Refreshed(p) = [s EXCEPT !.rev = n, !.reauth = TRUE]
        BY <1>2 DEF Refreshed, s, n, Permanent, Transient
    <2> QED
        BY <1>1, <2>1 DEF s, Row
<1>3. CASE got[p] = Transient
    <2>1. Refreshed(p) = [s EXCEPT !.rev = n]
        BY <1>3 DEF Refreshed, s, n, Permanent, Transient
    <2> QED
        BY <1>1, <2>1 DEF s, Row
<1>4. CASE got[p] \notin {Permanent, Transient}
    <2>1. got[p] \in Tokens
        BY <1>4 DEF ConnInv, TypeOK, Answers, InHand
    <2>2. Refreshed(p) = [s EXCEPT !.rev = n, !.token = got[p]]
        BY <1>4 DEF Refreshed, s, n
    <2>3. Refreshed(p).token = got[p]
        BY <1>1, <2>1, <2>2 DEF Row
    <2> QED
        BY <2>1, <2>3 DEF Pending
<1> QED
    BY <1>2, <1>3, <1>4

LEMMA StayRefresh == ASSUME ConnInv, StayInv, NEW p \in Procs, Refresh(p) PROVE StayInv'
<1> USE DEF At
<1>1. CASE Enter(p)
    <2>1. PICK l \in {"load", "idle", "wait"} : Goto(p, l)
        BY <1>1 DEF Enter, Lead
    <2>2. l \in Pcs /\ l \notin ConnectPcs \cup RevokePcs /\ UNCHANGED <<row, revoked, memory>>
        BY <1>1 DEF Pcs, RefreshPcs, ConnectPcs, RevokePcs, Enter, stored
    <2> QED
        BY <2>1, <2>2, StayGoes
<1>2. CASE Load(p)
    <2>0. pc[p] \in Refreshing /\ UNCHANGED <<row, revoked>>
        BY <1>2 DEF Load, stored, Refreshing, RefreshPcs
    <2>1. CASE Land(p, FALSE)
        BY <2>0, <2>1, StayLands
    <2>2. CASE Goto(p, "ask") /\ snap' = [snap EXCEPT ![p] = row] /\ UNCHANGED <<got, tries>>
        <3>1. pc'[p] = "ask" /\ snap'[p] = row /\ OthersStay(p)
            BY <2>2 DEF Goto, ConnInv, TypeOK, OthersStay
        <3>2. ~Pending(p)' /\ "ask" \notin ConnectPcs \cup RevokePcs
            BY <3>1 DEF Pending, ConnectPcs, RevokePcs
        <3> QED
            BY <2>0, <3>1, <3>2, StayQuiet
    <2> QED
        BY <1>2, <2>1, <2>2 DEF Load
<1>3. CASE Ask(p)
    <2>0. /\ pc[p] = "ask" /\ Goto(p, "reload") /\ UNCHANGED <<row, revoked, snap>>
          /\ "reload" \notin ConnectPcs \cup RevokePcs
        BY <1>3 DEF Ask, stored, ConnectPcs, RevokePcs
    <2>1. CASE /\ snap[p].token \in live /\ CanIssue /\ Issue(snap[p].token)
               /\ \E a \in {Fresh, Transient} : got' = [got EXCEPT ![p] = a]
        <3>1. pc'[p] = "reload" /\ OthersStay(p) /\ got'[p] \in {Fresh, Transient}
            BY <2>0, <2>1 DEF Goto, ConnInv, TypeOK, OthersStay
        <3>2. snap[p].token \in Issued
            BY <2>1 DEF ConnInv, TypeOK
        <3>3. Fresh \notin Issued
            BY <2>1, <3>2, Issuing
        <3>4. Pending(p)' => got'[p] \notin Issued
            BY <3>1, <3>3 DEF Pending, Tokens, Transient
        <3> QED
            BY <2>0, <3>1, <3>4, StayQuiet
    <2>2. CASE \E a \in {Permanent, Transient} \cup (live \cap {snap[p].token}) :
                   got' = [got EXCEPT ![p] = a]
        <3>1. /\ pc'[p] = "reload" /\ OthersStay(p)
              /\ got'[p] \in {Permanent, Transient, snap[p].token}
            BY <2>0, <2>2 DEF Goto, ConnInv, TypeOK, OthersStay
        <3>2. ~Pending(p)'
            BY <2>0, <3>1 DEF Pending, Tokens, Transient, Permanent
        <3> QED
            BY <2>0, <3>1, <3>2, StayQuiet
    <2> QED
        BY <1>3, <2>1, <2>2 DEF Ask
<1>4. CASE Reload(p)
    <2>0. pc[p] = "reload" /\ pc[p] \in Refreshing /\ UNCHANGED <<row, revoked>>
        BY <1>4 DEF Reload, stored, Refreshing, RefreshPcs
    <2>1. CASE Land(p, row # NoRow)
        <3>1. (row # NoRow) \in BOOLEAN
            OBVIOUS
        <3> QED
            BY <2>0, <2>1, <3>1, StayLands
    <2>2. CASE Goto(p, "save") /\ UNCHANGED memory
        <3>1. "save" \in Pcs /\ "save" \notin ConnectPcs \cup RevokePcs
            BY DEF Pcs, RefreshPcs, ConnectPcs, RevokePcs
        <3> QED
            BY <2>0, <2>2, <3>1, StayGoes
    <2> QED
        BY <1>4, <2>1, <2>2 DEF Reload
<1>5. CASE Save(p)
    <2>0. /\ pc[p] = "save" /\ pc[p] \in Refreshing /\ UNCHANGED revoked
          /\ (got[p] \in Tokens) \in BOOLEAN
        BY <1>5 DEF Save, Refreshing, RefreshPcs
    <2>1. CASE UNCHANGED stored /\ Land(p, TRUE)
        BY <2>0, <2>1, StayLands DEF stored
    <2>2. CASE SaveIfUnchanged(p, Refreshed(p), got[p] \in Tokens) /\ Land(p, got[p] \in Tokens)
        <3>1. OthersStay(p) /\ pc'[p] = "clear" /\ snap'[p] = NoRow
            BY <2>0, <2>2, Lands DEF ConnInv
        <3>2. row' = Refreshed(p) /\ row = snap[p]
            BY <2>2 DEF SaveIfUnchanged, Unchanged, ConnInv, OneRowPerRevision
        <3>3. \/ row'.token = snap[p].token
              \/ Pending(p) /\ row'.token = got[p]
            BY <2>0, <3>2, WrittenToken
        <3>4. row'.token \notin revoked
            BY <3>2, <3>3 DEF StayInv, RevokedTokensStayGone, Apart
        <3>5. ~Pending(p)' /\ Places(p)' /\ snap'[p].token = 0
            BY <3>1 DEF Pending, Places, ConnectPcs, RevokePcs, NoRow
        <3>6. \A q \in Procs \ {p} : pc[q] = "principal_save" => snap[q].token \notin revoked
            BY DEF StayInv, Places
        <3> QED
            BY <2>0, <3>1, <3>3, <3>4, <3>5, <3>6, StayStep
    <2> QED
        BY <1>5, <2>1, <2>2 DEF Save
<1>6. CASE Clear(p)
    <2>1. PICK l \in {"login", "idle"} : Reset(p, l) /\ (l # "idle" => p \in Commands)
        BY <1>6 DEF Clear
    <2> QED
        BY <1>6, <2>1, StayResets DEF Clear, stored
<1> QED
    BY <1>1, <1>2, <1>3, <1>4, <1>5, <1>6 DEF Refresh

LEMMA StayCommand ==
    ASSUME ConnInv, StayInv, NEW p \in Procs, Command(p), OneWriterOfPrincipals
    PROVE  StayInv'
<1> USE DEF At
<1>0. pc[p] \in ConnectPcs \cup RevokePcs => p \in Commands
    BY DEF StayInv, Places
<1>1. CASE Reconnect(p) \/ Connect(p)
    <2>1. PICK l \in {"enter", "login"} : Goto(p, l)
        BY <1>1 DEF Reconnect, Connect
    <2>2. l \in Pcs /\ "enter" \notin ConnectPcs \cup RevokePcs /\ p \in Commands
          /\ UNCHANGED <<row, revoked, memory>>
        BY <1>1 DEF Pcs, ConnectPcs, RevokePcs, Reconnect, Connect, stored
    <2> QED
        BY <2>1, <2>2, StayGoes
<1>2. CASE Revoke(p) \/ Store(p) \/ (ReadPrincipal(p) /\ pc'[p] # "idle")
    <2>1. PICK l \in {"revoke", "store_save", "principal_save"} :
              /\ Goto(p, l) /\ snap' = [snap EXCEPT ![p] = row] /\ UNCHANGED <<row, revoked, got>>
              /\ p \in Commands
              /\ l = "store_save" => pc[p] = "store"
              /\ l = "principal_save" => pc[p] = "principal"
        <3>1. ASSUME Reset(p, "idle") PROVE pc'[p] = "idle"
            BY <3>1, Resets DEF ConnInv, Pcs
        <3> QED
            BY <1>0, <1>2, <3>1 DEF Revoke, Store, ReadPrincipal, stored, ConnectPcs
    <2>2. pc'[p] = l /\ snap'[p] = row /\ got'[p] = got[p] /\ OthersStay(p)
        BY <2>1 DEF Goto, ConnInv, TypeOK, OthersStay
    <2>3. Pending(p)' => Pending(p) /\ got'[p] = got[p]
        BY <2>1, <2>2 DEF Pending
    <2>4. pc'[p] \in {"principal", "principal_save"} => Principals
        BY <2>1, <2>2 DEF StayInv, Places
    <2> QED
        BY <2>1, <2>2, <2>3, <2>4, StayQuiet
<1>3. CASE (ReadPrincipal(p) \/ Login(p)) /\ Reset(p, "idle")
    BY <1>3, StayResets DEF ReadPrincipal, Login, stored
<1>4. CASE Login(p) /\ CanIssue /\ Issue(0) /\ got' = [got EXCEPT ![p] = Fresh] /\ Goto(p, "store")
           /\ UNCHANGED <<snap, tries>>
    <2>1. /\ pc'[p] = "store" /\ got'[p] = Fresh /\ snap'[p] = snap[p] /\ OthersStay(p)
          /\ UNCHANGED <<row, revoked>> /\ p \in Commands
        BY <1>0, <1>4 DEF Login, stored, Goto, ConnInv, TypeOK, OthersStay, ConnectPcs
    <2>2. Fresh \notin Issued
        BY <1>4, Issuing
    <2> QED
        BY <2>1, <2>2, StayQuiet
<1>5. CASE StoreSave(p)
    <2>0. pc[p] = "store_save" /\ p \in Commands /\ UNCHANGED revoked
        BY <1>0, <1>5 DEF StoreSave, ConnectPcs
    <2>1. CASE /\ SaveIfUnchanged(p, Connected(p), TRUE)
               /\ Reset(p, IF Principals THEN "principal" ELSE "idle")
        <3> DEFINE l == IF Principals THEN "principal" ELSE "idle"
        <3>1. l \in {"principal", "idle"} /\ l \in Pcs /\ (l = "principal" => Principals)
            BY DEF Pcs, ConnectPcs
        <3>2. Reset(p, l)
            BY <2>1
        <3> HIDE DEF l
        <3>3. OthersStay(p) /\ pc'[p] = l /\ snap'[p] = NoRow
            BY <3>1, <3>2, Resets DEF ConnInv
        <3>4. Pending(p) /\ row'.token = got[p]
            BY <2>0, <2>1 DEF ConnInv, InHand, Pending, SaveIfUnchanged, Connected, DeriveStatus
        <3>5. got[p] \notin revoked
            BY <3>4 DEF StayInv, Apart
        <3>6. ~Pending(p)' /\ Places(p)' /\ snap'[p].token = 0
            BY <2>0, <3>1, <3>3 DEF Pending, Places, NoRow
        <3>7. \A q \in Procs \ {p} : pc[q] = "principal_save" => snap[q].token \notin revoked
            BY DEF StayInv, Places
        <3> QED
            BY <2>0, <3>3, <3>4, <3>5, <3>6, <3>7, StayStep
    <2>2. CASE /\ UNCHANGED stored /\ Goto(p, "store") /\ snap' = [snap EXCEPT ![p] = NoRow]
               /\ UNCHANGED got
        <3>1. pc'[p] = "store" /\ got'[p] = got[p] /\ snap'[p] = NoRow /\ OthersStay(p)
              /\ UNCHANGED row
            BY <2>2 DEF Goto, ConnInv, TypeOK, OthersStay, stored
        <3>2. Pending(p)' => Pending(p)
            BY <2>0, <3>1 DEF Pending
        <3> QED
            BY <2>0, <3>1, <3>2, StayQuiet
    <2>3. CASE UNCHANGED stored /\ Reset(p, "idle")
        BY <2>0, <2>3, StayResets DEF stored
    <2> QED
        BY <1>5, <2>1, <2>2, <2>3 DEF StoreSave
<1>6. CASE SavePrincipal(p)
    <2>1. "idle" \in Pcs /\ "idle" \notin ConnectPcs \cup RevokePcs
        BY DEF Pcs, ConnectPcs, RevokePcs
    <2>2. /\ OthersStay(p) /\ pc'[p] = "idle" /\ snap'[p] = NoRow
          /\ row' = snap[p] /\ pc[p] = "principal_save" /\ UNCHANGED revoked
        BY <1>6, <2>1, Resets DEF ConnInv, SavePrincipal
    <2>3. \A q \in Procs : pc[q] = "principal_save" => snap[q].token \notin revoked
        BY DEF StayInv, Places
    <2>4. ~Pending(p)' /\ Places(p)' /\ snap'[p].token = 0
        BY <2>1, <2>2 DEF Pending, Places, NoRow
    <2> QED
        BY <2>2, <2>3, <2>4, StayStep
<1>7. CASE RevokeRemote(p)
    <2>1. "delete" \in RevokePcs /\ p \in Commands
        BY <1>0, <1>7 DEF RevokePcs, RevokeRemote
    <2> QED
        BY <1>7, <2>1, StayResets DEF RevokeRemote, stored
<1>8. CASE Delete(p)
    <2>1. "idle" \in Pcs /\ "idle" \notin ConnectPcs \cup RevokePcs /\ "principal_save" \in ConnectPcs
        BY DEF Pcs, ConnectPcs, RevokePcs
    <2>2. /\ OthersStay(p) /\ pc'[p] = "idle" /\ snap'[p] = NoRow /\ row' = NoRow /\ pc[p] = "delete"
          /\ revoked' = revoked \cup ({row.token} \ {0})
        BY <1>8, <2>1, Resets DEF ConnInv, Delete
    <2>3. p \in Commands
        BY <1>0, <2>2 DEF RevokePcs
    <2>4. ASSUME NEW q \in Procs \ {p} PROVE pc[q] # "principal_save"
        BY <2>1, <2>3 DEF StayInv, Places, OneWriterOfPrincipals
    <2>5. ~Pending(p)' /\ Places(p)' /\ snap'[p].token = 0 /\ row'.token = 0
        BY <2>1, <2>2 DEF Pending, Places, NoRow
    <2>6. 0 \notin revoked'
        BY <2>2, RevokedIssued
    <2> QED
        BY <2>2, <2>4, <2>5, <2>6, StayStep
<1> QED
    <2>1. CASE ReadPrincipal(p)
        <3>1. CASE Goto(p, "principal_save")
            BY <1>2, <2>1, <3>1 DEF Goto, ConnInv, TypeOK
        <3> QED
            BY <1>3, <2>1, <3>1 DEF ReadPrincipal
    <2>2. CASE Login(p)
        BY <1>3, <1>4, <2>2 DEF Login
    <2> QED
        BY <1>1, <1>2, <1>5, <1>6, <1>7, <1>8, <2>1, <2>2 DEF Command

LEMMA StayFail == ASSUME ConnInv, StayInv, NEW p \in Procs, Fail(p) PROVE StayInv'
<1>1. UNCHANGED <<row, revoked>>
    BY DEF Fail, stored
<1>2. CASE pc[p] \in RefreshPcs /\ Land(p, FALSE)
    BY <1>1, <1>2, StayLands DEF Refreshing
<1>3. CASE Reset(p, "idle")
    BY <1>1, <1>3, StayResets
<1> QED
    BY <1>2, <1>3 DEF Fail

LEMMA StayCrash == ASSUME ConnInv, StayInv, NEW m \in Managers, Crash(m) PROVE StayInv'
<1>1. \A p \in Procs :
          \/ pc'[p] = "idle" /\ snap'[p] = NoRow /\ got'[p] = 0
          \/ pc'[p] = pc[p] /\ snap'[p] = snap[p] /\ got'[p] = got[p]
    BY DEF Crash
<1>2. UNCHANGED <<row, revoked>> /\ NoRow.token = 0 /\ 0 \notin Tokens
    BY DEF Crash, stored, NoRow, Tokens
<1>3. \A p \in Procs : Pending(p)' => Pending(p) /\ got'[p] = got[p] /\ got[p] # 0
    BY <1>1, <1>2 DEF Pending
<1>4. \A p \in Procs : Apart(p)'
    BY <1>1, <1>2, <1>3 DEF StayInv, Apart
<1>5. \A p \in Procs : Places(p)'
    BY <1>1, <1>2 DEF StayInv, Places, ConnectPcs, RevokePcs
<1> QED
    BY <1>2, <1>4, <1>5 DEF StayInv, RevokedTokensStayGone

LEMMA StayInvStep ==
    ASSUME ConnInv, StayInv, [Next]_vars, OneWriterOfPrincipals
    PROVE  StayInv'
<1>1. CASE UNCHANGED vars \/ Expire
    BY <1>1 DEF vars, Expire, memory, provider, StayInv, RevokedTokensStayGone, Apart, Places, Pending
<1>2. ASSUME NEW p \in Procs, GetAccessToken(p) \/ GiveUp(p) PROVE StayInv'
    <2>1. PICK l \in {"enter", "idle"} : Goto(p, l)
        BY <1>2 DEF GetAccessToken, GiveUp
    <2>2. l \in Pcs /\ l \notin ConnectPcs \cup RevokePcs /\ UNCHANGED <<row, revoked, memory>>
        BY <1>2 DEF Pcs, ConnectPcs, RevokePcs, GetAccessToken, GiveUp, stored
    <2> QED
        BY <2>1, <2>2, StayGoes
<1> QED
    BY <1>1, <1>2, StayRefresh, StayCommand, StayFail, StayCrash DEF Next

(***************************************************************************)
(* Whatever refreshes, logins and crashes are under way when kimbap auth   *)
(* revoke deletes the row (auth_revoke.go:120), the token it held is never *)
(* stored again, for any number of callers and of commands, as long as the *)
(* provider has no userinfo endpoint; with one, as long as one command     *)
(* runs at a time (two are the run connector_principal).                   *)
(***************************************************************************)
THEOREM RevokedStaysGone ==
    ASSUME OneWriterOfPrincipals
    PROVE  Spec => []RevokedTokensStayGone
<1>1. Init => StayInv
    BY DEF Init, StayInv, RevokedTokensStayGone, Apart, Places, Pending, ConnectPcs, RevokePcs
<1>2. StayInv => RevokedTokensStayGone
    BY DEF StayInv
<1>3. ConnInv /\ StayInv /\ [Next]_vars => StayInv'
    BY StayInvStep
<1> QED
    BY <1>1, <1>2, <1>3, ConnHolds, PTL DEF Spec

-----------------------------------------------------------------------------
(***************************************************************************)
(* A caller that waits (manager.go:368) waits for a refresh that another   *)
(* goroutine of the server is still at and has not announced the end of:   *)
(* nobody joins or is left at a refresh with no one to wake it.            *)
(***************************************************************************)
WaitersAreLed ==
    \A p \in Callers : pc[p] = "wait" =>
        /\ ~flight[Server].done
        /\ \E q \in Callers : flight[Server].leader = q /\ pc[q] \in RefreshPcs

(***************************************************************************)
(* Why a waiter is woken: the flight in a Manager's map has its leader,    *)
(* who is at the refresh until the flight is done and then about to remove *)
(* it, and who closes done wakes everybody.                                *)
(***************************************************************************)
LedBy(m, q) ==
    /\ Of(q) = m /\ flight[m].leader = q
    /\ \/ pc[q] \in RefreshPcs /\ ~flight[m].done
       \/ pc[q] = "clear" /\ flight[m].done

LedInv ==
    /\ \A m \in Managers : flight[m] = NoFlight \/ \E q \in Procs : LedBy(m, q)
    /\ \A p \in Procs : pc[p] = "wait" =>
          p \in Callers /\ flight[Server] # NoFlight /\ ~flight[Server].done

\* A step of p leaves the others where they are or wakes them.
OthersWake(p) ==
    \A q \in Procs \ {p} : pc'[q] = pc[q] \/ (pc[q] = "wait" /\ pc'[q] = "idle")

LEMMA LedStays ==
    ASSUME ConnInv, LedInv, NEW p \in Procs, OthersWake(p), UNCHANGED flight,
           pc[p] \in RefreshPcs => pc'[p] \in RefreshPcs,
           pc[p] = "clear" => pc'[p] = "clear",
           pc'[p] = "wait" => pc[p] = "wait"
    PROVE  LedInv'
<1>1. \A q \in Procs : /\ pc[q] \in RefreshPcs => pc'[q] \in RefreshPcs
                       /\ pc[q] = "clear" => pc'[q] = "clear"
                       /\ pc'[q] = "wait" => pc[q] = "wait"
    BY DEF OthersWake, RefreshPcs
<1>2. \A m \in Managers, q \in Procs : LedBy(m, q) => LedBy(m, q)'
    BY <1>1 DEF LedBy, Of
<1> QED
    BY <1>1, <1>2 DEF LedInv

LEMMA LedGoes ==
    ASSUME ConnInv, LedInv, NEW p \in Procs, NEW l \in Pcs, pc' = [pc EXCEPT ![p] = l],
           UNCHANGED flight, pc[p] \in RefreshPcs => l \in RefreshPcs,
           pc[p] # "clear", l # "wait"
    PROVE  LedInv'
<1>1. OthersWake(p) /\ pc'[p] = l
    BY DEF OthersWake, ConnInv, TypeOK
<1>2. /\ pc[p] \in RefreshPcs => pc'[p] \in RefreshPcs
      /\ pc[p] = "clear" => pc'[p] = "clear"
      /\ pc'[p] = "wait" => pc[p] = "wait"
    BY <1>1
<1> QED
    BY <1>1, <1>2, LedStays, Zenon

LEMMA LedLands ==
    ASSUME ConnInv, LedInv, NEW p \in Procs, NEW ok \in BOOLEAN, Land(p, ok), pc[p] \in RefreshPcs
    PROVE  LedInv'
<1> DEFINE m == Of(p)
           woken == [q \in Procs |-> IF q \in Waiting(m) THEN "idle" ELSE pc[q]]
<1>1. m \in Managers /\ flight[m].leader = p /\ flight \in [Managers -> Flight] /\ pc \in [Procs -> Pcs]
    BY ProcsFinite DEF ConnInv, OneRefreshPerManager, TypeOK
<1>2. pc' = [woken EXCEPT ![p] = "clear"]
    BY DEF Land
<1>3. /\ pc'[p] = "clear"
      /\ \A q \in Procs \ {p} : pc'[q] = IF q \in Waiting(m) THEN "idle" ELSE pc[q]
    BY <1>2
<1>4. /\ flight'[m].leader = p /\ flight'[m].done
      /\ \A n \in Managers \ {m} : flight'[n] = flight[n]
    BY <1>1 DEF Land, Flight
<1>5. LedBy(m, p)'
    BY <1>3, <1>4 DEF LedBy, Of
<1>6. ASSUME NEW n \in Managers \ {m}, NEW q \in Procs, LedBy(n, q) PROVE LedBy(n, q)'
    <2>1. q # p /\ q \notin Waiting(m) /\ flight'[n] = flight[n]
        BY <1>4, <1>6 DEF LedBy, Waiting, RefreshPcs
    <2> QED
        BY <1>3, <1>6, <2>1 DEF LedBy, Of
<1>7. ASSUME NEW q \in Procs, pc'[q] = "wait"
      PROVE  q \in Callers /\ flight'[Server] # NoFlight /\ ~flight'[Server].done
    <2>1. q # p /\ q \notin Waiting(m) /\ pc[q] = "wait"
        BY <1>3, <1>7
    <2>2. q \in Callers /\ flight[Server] # NoFlight /\ ~flight[Server].done /\ m # Server
        BY <2>1 DEF LedInv, Waiting
    <2>3. Server \in Managers
        BY DEF Managers
    <2> QED
        BY <1>4, <2>2, <2>3
<1> QED
    BY <1>4, <1>5, <1>6, <1>7 DEF LedInv

LEMMA LedEnters == ASSUME ConnInv, LedInv, NEW p \in Procs, Enter(p) PROVE LedInv'
<1> DEFINE m == Of(p)
<1>1. m \in Managers /\ pc[p] = "enter" /\ flight \in [Managers -> Flight] /\ pc \in [Procs -> Pcs]
    BY ProcsFinite DEF ConnInv, TypeOK, Enter, At
<1>2. CASE flight[m] = NoFlight /\ Lead(p)
    <2>1. /\ pc'[p] = "load" /\ \A q \in Procs \ {p} : pc'[q] = pc[q]
          /\ flight'[m].leader = p /\ ~flight'[m].done
          /\ \A n \in Managers \ {m} : flight'[n] = flight[n]
        BY <1>1, <1>2 DEF Lead, Goto
    <2>2. LedBy(m, p)'
        BY <2>1 DEF LedBy, Of, RefreshPcs
    <2>3. ASSUME NEW n \in Managers \ {m}, NEW q \in Procs, LedBy(n, q) PROVE LedBy(n, q)'
        <3>1. q # p
            BY <2>3 DEF LedBy
        <3> QED
            BY <2>1, <2>3, <3>1 DEF LedBy, Of
    <2>4. ASSUME NEW q \in Procs, pc'[q] = "wait"
          PROVE  q \in Callers /\ flight'[Server] # NoFlight /\ ~flight'[Server].done
        <3>1. pc[q] = "wait" /\ q \in Callers /\ flight[Server] # NoFlight /\ ~flight[Server].done
            BY <2>1, <2>4 DEF LedInv
        <3>2. Server \in Managers /\ Server # m
            BY <1>2, <3>1 DEF Managers
        <3> QED
            BY <2>1, <3>1, <3>2
    <2> QED
        BY <2>1, <2>2, <2>3, <2>4 DEF LedInv
<1>3. CASE flight[m] # NoFlight /\ flight[m].done /\ Goto(p, "idle") /\ UNCHANGED flight
    <2>1. "idle" \in Pcs /\ pc[p] \notin RefreshPcs
        BY <1>1 DEF Pcs, RefreshPcs
    <2> QED
        BY <1>1, <1>3, <2>1, LedGoes DEF Goto
<1>4. CASE flight[m] # NoFlight /\ ~flight[m].done /\ Goto(p, "wait") /\ UNCHANGED flight
    <2>1. pc'[p] = "wait" /\ \A q \in Procs \ {p} : pc'[q] = pc[q]
        BY <1>1, <1>4 DEF Goto
    <2>2. PICK r \in Procs : LedBy(m, r)
        BY <1>1, <1>4 DEF LedInv
    <2>3. p \in Callers /\ m = Server
        <3>1. r # p /\ Of(r) = Of(p)
            BY <1>1, <2>2 DEF LedBy, RefreshPcs
        <3> QED
            BY <3>1, ConnectorAssumption DEF Of, Procs
    <2>4. \A n \in Managers, q \in Procs : LedBy(n, q) => LedBy(n, q)'
        BY <1>1, <1>4, <2>1 DEF LedBy, Of, RefreshPcs
    <2> QED
        BY <1>4, <2>1, <2>3, <2>4 DEF LedInv
<1> QED
    BY <1>2, <1>3, <1>4 DEF Enter

LEMMA LedClears == ASSUME ConnInv, LedInv, NEW p \in Procs, Clear(p) PROVE LedInv'
<1> DEFINE m == Of(p)
<1>1. /\ m \in Managers /\ pc[p] = "clear" /\ flight[m].leader = p
      /\ flight \in [Managers -> Flight] /\ pc \in [Procs -> Pcs]
    BY ProcsFinite DEF ConnInv, TypeOK, OneRefreshPerManager, Clear, At
<1>2. /\ pc'[p] \in {"login", "idle"} /\ \A q \in Procs \ {p} : pc'[q] = pc[q]
      /\ flight'[m] = NoFlight /\ \A n \in Managers \ {m} : flight'[n] = flight[n]
    BY <1>1 DEF Clear, Reset, Goto
<1>3. flight[m].done
    <2>1. flight[m] # NoFlight
        BY <1>1, ConnectorAssumption DEF NoFlight
    <2> QED
        BY <1>1, <2>1 DEF LedInv, LedBy, RefreshPcs
<1>4. ASSUME NEW n \in Managers \ {m}, NEW q \in Procs, LedBy(n, q) PROVE LedBy(n, q)'
    <2>1. q # p
        BY <1>4 DEF LedBy
    <2> QED
        BY <1>2, <1>4, <2>1 DEF LedBy, Of
<1>5. ASSUME NEW q \in Procs, pc'[q] = "wait"
      PROVE  q \in Callers /\ flight'[Server] # NoFlight /\ ~flight'[Server].done
    <2>1. pc[q] = "wait" /\ q \in Callers /\ flight[Server] # NoFlight /\ ~flight[Server].done
        BY <1>2, <1>5 DEF LedInv
    <2>2. Server \in Managers /\ Server # m
        BY <1>3, <2>1 DEF Managers
    <2> QED
        BY <1>2, <2>1, <2>2
<1> QED
    BY <1>2, <1>4, <1>5 DEF LedInv

LEMMA LedCrashes == ASSUME ConnInv, LedInv, NEW m \in Managers, Crash(m) PROVE LedInv'
<1>1. /\ \A p \in Procs : pc'[p] = IF Of(p) = m THEN "idle" ELSE pc[p]
      /\ flight'[m] = NoFlight /\ \A n \in Managers \ {m} : flight'[n] = flight[n]
    BY DEF Crash, ConnInv, TypeOK
<1>2. ASSUME NEW n \in Managers \ {m}, NEW q \in Procs, LedBy(n, q) PROVE LedBy(n, q)'
    BY <1>1, <1>2 DEF LedBy, Of
<1>3. ASSUME NEW q \in Procs, pc'[q] = "wait"
      PROVE  q \in Callers /\ flight'[Server] # NoFlight /\ ~flight'[Server].done
    <2>1. /\ pc[q] = "wait" /\ q \in Callers /\ flight[Server] # NoFlight /\ ~flight[Server].done
          /\ Of(q) # m
        BY <1>1, <1>3 DEF LedInv
    <2> QED
        BY <1>1, <2>1 DEF Of, Managers
<1> QED
    BY <1>1, <1>2, <1>3 DEF LedInv

LEMMA LedInvStep == ASSUME ConnInv, LedInv, [Next]_vars PROVE LedInv'
<1> USE DEF At, Goto
<1>1. CASE UNCHANGED vars \/ Expire
    BY <1>1 DEF vars, Expire, LedInv, LedBy, Of
<1>2. ASSUME NEW p \in Procs, GetAccessToken(p) \/ GiveUp(p) PROVE LedInv'
    BY <1>2, LedGoes DEF GetAccessToken, GiveUp, Pcs, RefreshPcs
<1>3. ASSUME NEW p \in Procs, Refresh(p) PROVE LedInv'
    <2>1. CASE Load(p) \/ Ask(p) \/ Reload(p) \/ Save(p)
        <3>1. pc[p] \in RefreshPcs /\ pc[p] # "clear"
            BY <2>1 DEF Load, Ask, Reload, Save, RefreshPcs
        <3>2. CASE \E ok \in BOOLEAN : Land(p, ok)
            BY <3>1, <3>2, LedLands
        <3>3. CASE \E l \in RefreshPcs : Goto(p, l) /\ UNCHANGED flight
            BY <3>1, <3>3, LedGoes DEF Pcs, RefreshPcs
        <3>4. CASE Load(p)
            BY <3>2, <3>3, <3>4 DEF Load, RefreshPcs
        <3>5. CASE Ask(p)
            BY <3>3, <3>5 DEF Ask, RefreshPcs
        <3>6. CASE Reload(p)
            <4>1. (row # NoRow) \in BOOLEAN
                OBVIOUS
            <4> QED
                BY <3>2, <3>3, <3>6, <4>1 DEF Reload, RefreshPcs
        <3>7. CASE Save(p)
            <4>1. (got[p] \in Tokens) \in BOOLEAN
                OBVIOUS
            <4> QED
                BY <3>2, <3>7, <4>1 DEF Save
        <3> QED
            BY <2>1, <3>4, <3>5, <3>6, <3>7
    <2> QED
        BY <1>3, <2>1, LedEnters, LedClears DEF Refresh
<1>4. ASSUME NEW p \in Procs, Command(p) PROVE LedInv'
    <2>1. UNCHANGED flight /\ pc[p] \notin RefreshPcs \cup {"clear"}
        BY <1>4 DEF Command, Reconnect, Connect, Revoke, Login, Store, StoreSave, ReadPrincipal, SavePrincipal,
                    RevokeRemote, Delete, RefreshPcs
    <2>2. \E l \in Pcs \ {"wait"} : Goto(p, l)
        BY <1>4 DEF Command, Reconnect, Connect, Revoke, Login, Store, StoreSave, ReadPrincipal, SavePrincipal,
                    RevokeRemote, Delete, Reset, Pcs, RefreshPcs, ConnectPcs, RevokePcs
    <2> QED
        BY <2>1, <2>2, LedGoes
<1>5. ASSUME NEW p \in Procs, Fail(p) PROVE LedInv'
    <2>1. CASE pc[p] \in RefreshPcs \ {"ask"}
        BY <1>5, <2>1, LedLands DEF Fail
    <2>2. CASE pc[p] \notin RefreshPcs \ {"ask"}
        BY <1>5, <2>2, LedGoes DEF Fail, Reset, Pcs, RefreshPcs, ConnectPcs, RevokePcs
    <2> QED
        BY <2>1, <2>2
<1> QED
    BY <1>1, <1>2, <1>3, <1>4, <1>5, LedCrashes DEF Next

(***************************************************************************)
(* Whatever fails, crashes or overtakes it, a caller that waits waits for  *)
(* a refresh somebody is at, for any number of callers: with the fairness  *)
(* of its leader this is why waiters return.                               *)
(***************************************************************************)
THEOREM WaitersAlwaysLed == Spec => []WaitersAreLed
<1>1. Init => LedInv
    BY DEF Init, LedInv
<1>2. ConnInv /\ LedInv => WaitersAreLed
    <2> SUFFICES ASSUME ConnInv, LedInv, NEW p \in Callers, pc[p] = "wait"
                 PROVE  /\ ~flight[Server].done
                        /\ \E q \in Callers : flight[Server].leader = q /\ pc[q] \in RefreshPcs
        BY DEF WaitersAreLed
    <2>1. flight[Server] # NoFlight /\ ~flight[Server].done
        BY DEF LedInv, Procs
    <2>2. PICK q \in Procs : LedBy(Server, q)
        BY <2>1 DEF LedInv, Managers
    <2> QED
        BY <2>1, <2>2, ConnectorAssumption DEF LedBy, Of, Procs
<1>3. ConnInv /\ LedInv /\ [Next]_vars => LedInv'
    BY LedInvStep
<1> QED
    BY <1>1, <1>2, <1>3, ConnHolds, PTL DEF Spec

-----------------------------------------------------------------------------
(***************************************************************************)
(* Why a login can leave the status as it was: it keeps what it reads, and *)
(* only a refresh the provider refused for good ever sets it.              *)
(***************************************************************************)
NeverRefused == [][\A p \in Procs : got'[p] # Permanent]_vars

Unasked ==
    /\ ~row.reauth
    /\ \A p \in Procs : ~snap[p].reauth /\ got[p] # Permanent

\* What the row and a process's memory of it can become.
LEMMA RowComesFrom ==
    ASSUME Next
    PROVE  \/ row' \in {row, NoRow}
           \/ \E p \in Procs : row' = snap[p]
           \/ \E p \in Procs : pc[p] = "save" /\ row' = Refreshed(p)
           \/ \E p \in Procs : row' = Connected(p)
<1> DEFINE From == \/ row' \in {row, NoRow}
                   \/ \E p \in Procs : row' = snap[p]
                   \/ \E p \in Procs : pc[p] = "save" /\ row' = Refreshed(p)
                   \/ \E p \in Procs : row' = Connected(p)
<1>1. ASSUME NEW p \in Procs, GetAccessToken(p) \/ GiveUp(p) \/ Fail(p) PROVE From
    BY <1>1 DEF GetAccessToken, GiveUp, Fail, stored
<1>2. ASSUME NEW p \in Procs, Refresh(p) PROVE From
    <2>1. CASE Save(p)
        BY <2>1 DEF Save, At, SaveIfUnchanged, stored
    <2>2. CASE Enter(p) \/ Load(p) \/ Ask(p) \/ Reload(p) \/ Clear(p)
        BY <2>2 DEF Enter, Load, Ask, Reload, Clear, stored
    <2> QED
        BY <1>2, <2>1, <2>2 DEF Refresh
<1>3. ASSUME NEW p \in Procs, Command(p) PROVE From
    <2>1. CASE StoreSave(p)
        BY <2>1 DEF StoreSave, SaveIfUnchanged, stored
    <2>2. CASE SavePrincipal(p) \/ Delete(p)
        BY <2>2 DEF SavePrincipal, Delete
    <2>3. CASE \/ Reconnect(p) \/ Connect(p) \/ Revoke(p) \/ Login(p)
               \/ Store(p) \/ ReadPrincipal(p) \/ RevokeRemote(p)
        BY <2>3 DEF Reconnect, Connect, Revoke, Login, Store, ReadPrincipal, RevokeRemote, stored
    <2> QED
        BY <1>3, <2>1, <2>2, <2>3 DEF Command
<1>4. CASE Expire \/ \E m \in Managers : Crash(m)
    BY <1>4 DEF Expire, Crash, stored
<1> QED
    BY <1>1, <1>2, <1>3, <1>4 DEF Next

LEMMA MemoryComesFrom ==
    ASSUME TypeOK, Next, NEW q \in Procs
    PROVE  snap'[q] \in {snap[q], row, NoRow}
<1> DEFINE From == snap'[q] \in {snap[q], row, NoRow}
<1>0. snap \in [Procs -> Row \cup {NoRow}]
    BY DEF TypeOK
<1>1. ASSUME NEW p \in Procs, snap' = [snap EXCEPT ![p] = NoRow] PROVE From
    BY <1>0, <1>1
<1>2. ASSUME NEW p \in Procs, snap' = [snap EXCEPT ![p] = row] PROVE From
    BY <1>0, <1>2
<1>3. ASSUME NEW p \in Procs, GetAccessToken(p) \/ GiveUp(p) \/ Fail(p) PROVE From
    BY <1>1, <1>3 DEF GetAccessToken, GiveUp, Fail, Land, Reset, memory
<1>4. ASSUME NEW p \in Procs, Refresh(p) PROVE From
    BY <1>1, <1>2, <1>4 DEF Refresh, Enter, Load, Ask, Reload, Save, Clear, Land, Reset, memory
<1>5. ASSUME NEW p \in Procs, Command(p) PROVE From
    BY <1>1, <1>2, <1>5 DEF Command, Reconnect, Connect, Revoke, Login, Store, StoreSave, ReadPrincipal,
                            SavePrincipal, RevokeRemote, Delete, Reset, memory
<1>6. CASE Expire \/ \E m \in Managers : Crash(m)
    BY <1>6 DEF Expire, Crash, memory
<1> QED
    BY <1>3, <1>4, <1>5, <1>6 DEF Next

LEMMA UnaskedStep ==
    ASSUME ConnInv, Unasked, Next, \A p \in Procs : got'[p] # Permanent
    PROVE  Unasked'
<1>1. ~NoRow.reauth
    BY DEF NoRow
<1>2. ASSUME NEW p \in Procs, pc[p] = "save" PROVE ~Refreshed(p).reauth
    <2>1. snap[p] \in Row /\ ~snap[p].reauth /\ got[p] # Permanent
        BY <1>2 DEF ConnInv, TypeOK, InHand, Unasked
    <2>2. \/ Refreshed(p) = [snap[p] EXCEPT !.rev = NewRevision(p)]
          \/ Refreshed(p) = [snap[p] EXCEPT !.rev = NewRevision(p), !.token = got[p]]
        BY <2>1 DEF Refreshed
    <2> QED
        BY <2>1, <2>2 DEF Row
<1>3. \A p \in Procs : Connected(p).reauth = snap[p].reauth
    BY DEF Connected, DeriveStatus
<1>4. ~row'.reauth
    BY <1>1, <1>2, <1>3, RowComesFrom, Zenon DEF Unasked
<1>5. ASSUME NEW p \in Procs PROVE ~snap'[p].reauth
    <2>1. snap'[p] \in {snap[p], row, NoRow}
        BY MemoryComesFrom DEF ConnInv
    <2> QED
        BY <1>1, <2>1, Zenon DEF Unasked
<1> QED
    BY <1>4, <1>5 DEF Unasked

(***************************************************************************)
(* While the provider refuses no refresh for good, a connection stored by  *)
(* a login asks for no other: a refusal remembered in the row is the only  *)
(* way a successful login fails to heal it.                                *)
(***************************************************************************)
THEOREM UnrefusedReconnectHeals == Spec /\ NeverRefused => ReconnectHeals
<1>1. Init => Unasked
    BY DEF Init, Unasked, NoRow, Permanent
<1>2. ASSUME ConnInv, Unasked, [Next]_vars, [\A p \in Procs : got'[p] # Permanent]_vars
      PROVE  Unasked'
    <2>1. CASE UNCHANGED vars
        BY <1>2, <2>1 DEF vars, Unasked
    <2> QED
        BY <1>2, <2>1, UnaskedStep
<1>3. Unasked' => \A p \in Commands :
          (pc[p] = "store_save" /\ pc'[p] # "store_save" /\ row' # row) => ~row'.reauth
    BY DEF Unasked
<1> QED
    BY <1>1, <1>2, <1>3, ConnHolds, PTL DEF Spec, NeverRefused, ReconnectHeals
================================================================================
