-------------------------- MODULE ServiceFiles_proofs --------------------------
(***************************************************************************)
(* Proofs about the services directory, for any set of services, versions, *)
(* keys and commands.                                                      *)
(***************************************************************************)
EXTENDS ServiceProps, FiniteSetTheorems, TLAPS

(***************************************************************************)
(* A lockfile whose signatures are by its key, whoever holds it: the       *)
(* directory, or a command that has read it and will write it back.        *)
(***************************************************************************)
SignedByKey(l) ==
    \A s \in Services :
        LET e == l.entries[s] IN
        e # None /\ e.sig # None => e.sig = [key |-> l.key, digest |-> e.digest]

OpTyped(o) ==
    /\ o \in Op
    /\ o.kind \notin {"sign", "none"} => o.svc \in Services
    /\ o.kind \in Installs => o.ver \in Versions
    /\ o.kind = "sign" => o.key \in Keys

LockTyped ==
    /\ lock \in Lockfiles
    /\ pc \in [Cli -> Pcs]
    /\ op \in [Cli -> Op] /\ \A c \in Cli : OpTyped(op[c])
    /\ copy \in [Cli -> Lockfiles]
    /\ \A c \in Cli : At(c, "idle") <=> Is(c, {"none"})

\* A toggle changes the entry it has found, and no manifest.
EntryFound ==
    \A c \in Cli :
        Is(c, Toggles) =>
            /\ At(c, "lockfile") => copy[c].entries[op[c].svc] # None
            /\ ~At(c, "manifest") /\ ~At(c, "unlink")

CopiesSigned == SignedByKey(lock) /\ \A c \in Cli : SignedByKey(copy[c])

SignInv == LockTyped /\ EntryFound /\ CopiesSigned

------------------------------------------------------------------------------
LEMMA NothingTyped == NoLockfile \in Lockfiles /\ SignedByKey(NoLockfile) /\ OpTyped(NoOp)
  BY DEF NoLockfile, Lockfiles, SignedByKey, OpTyped, NoOp, Op, Installs, Toggles

LEMMA InputsTyped == ASSUME NEW o \in Inputs PROVE OpTyped(o) /\ o.kind # "none"
  BY DEF Inputs, OpTyped, Op, Installs, Toggles

LEMMA SignInit == Init => SignInv
<1> SUFFICES ASSUME Init PROVE SignInv
  OBVIOUS
<1> USE DEF Init, FilesInit
<1>1. lock \in Lockfiles /\ SignedByKey(lock)
  <2>1. CASE Nothing
    BY <2>1, NothingTyped DEF Nothing
  <2>2. ASSUME NEW v \in Start, NEW k \in Keys, Installed(v, k)
        PROVE  lock \in Lockfiles /\ SignedByKey(lock)
    BY <2>2, FilesAssumption DEF Installed, Lockfiles, Entries, Signatures, SignedByKey
  <2> QED
    BY <2>1, <2>2
<1>2. LockTyped
  BY <1>1, NothingTyped DEF LockTyped, Pcs, At, Is, NoOp, OpTyped
<1>3. EntryFound /\ CopiesSigned
  BY <1>1, NothingTyped DEF EntryFound, CopiesSigned, At
<1> QED
  BY <1>2, <1>3 DEF SignInv

(***************************************************************************)
(* What a command writes is signed as what it has read was.                *)
(***************************************************************************)
LEMMA ChangedSigned ==
    ASSUME SignInv, NEW c \in Cli, At(c, "lockfile")
    PROVE  Changed(c) \in Lockfiles /\ SignedByKey(Changed(c))
<1> DEFINE l == copy[c]
           o == op[c]
<1>1. l \in Lockfiles /\ SignedByKey(l) /\ OpTyped(o)
  BY DEF SignInv, LockTyped, CopiesSigned
<1>2. l = [key |-> l.key, entries |-> l.entries] /\ l.key \in Keys \cup {None}
      /\ l.entries \in [Services -> Entries \cup {None}]
  BY <1>1 DEF Lockfiles
<1>3. CASE o.kind \in Installs
  <2> DEFINE new == [digest |-> o.ver, enabled |-> o.on, sig |-> None]
  <2>1. Changed(c) = [l EXCEPT !.entries[o.svc] = new]
    BY <1>3 DEF Changed, NewSignature, Installs
  <2>2. o.svc \in Services /\ new \in Entries
    BY <1>1, <1>3 DEF OpTyped, Op, Installs, Entries
  <2> HIDE DEF l, o
  <2> QED
    BY <1>1, <1>2, <2>1, <2>2 DEF Lockfiles, SignedByKey
<1>4. CASE o.kind = "remove"
  <2>1. Changed(c) = [l EXCEPT !.entries[o.svc] = None]
    BY <1>4 DEF Changed, EntryRemoved, Installs
  <2>2. o.svc \in Services
    BY <1>1, <1>4 DEF OpTyped
  <2> HIDE DEF l, o
  <2> QED
    BY <1>1, <1>2, <2>1, <2>2 DEF Lockfiles, SignedByKey
<1>5. CASE o.kind = "sign"
  <2>1. Changed(c) = [key |-> o.key, entries |-> [s \in Services |-> Signed(l.entries[s], o.key)]]
    BY <1>5 DEF Changed, Installs
  <2>2. o.key \in Keys
    BY <1>1, <1>5 DEF OpTyped
  <2> HIDE DEF l, o
  <2>3. ASSUME NEW s \in Services
        PROVE  /\ Signed(l.entries[s], o.key) \in Entries \cup {None}
               /\ Signed(l.entries[s], o.key) # None =>
                     Signed(l.entries[s], o.key).sig =
                        [key |-> o.key, digest |-> Signed(l.entries[s], o.key).digest]
    <3>1. CASE l.entries[s] = None
      BY <3>1 DEF Signed
    <3>2. CASE l.entries[s] \in Entries /\ l.entries[s] # None
      BY <3>2, <2>2 DEF Signed, Entries, Signatures
    <3> QED
      BY <3>1, <3>2, <1>2
  <2>4. Changed(c) \in Lockfiles
    <3> DEFINE es == [s \in Services |-> Signed(l.entries[s], o.key)]
    <3>1. es \in [Services -> Entries \cup {None}]
      BY <2>3
    <3> HIDE DEF es
    <3>2. [key |-> o.key, entries |-> es] \in Lockfiles
      BY <2>2, <3>1 DEF Lockfiles
    <3> QED
      BY <2>1, <3>2 DEF es
  <2>5. ASSUME NEW s \in Services
        PROVE  Changed(c).entries[s] = Signed(l.entries[s], o.key) /\ Changed(c).key = o.key
    BY <2>1
  <2> QED
    BY <2>3, <2>4, <2>5 DEF SignedByKey
<1>6. CASE o.kind \notin Installs \cup {"remove", "sign"}
  <2>1. Changed(c) = [l EXCEPT !.entries[o.svc].enabled = (o.kind = "enable")]
    BY <1>6 DEF Changed
  <2>2. o.kind \in Toggles /\ o.svc \in Services
    BY <1>1, <1>6 DEF SignInv, LockTyped, OpTyped, Op, At, Is
  <2>3. l.entries[o.svc] \in Entries /\ l.entries[o.svc] # None
    BY <1>2, <2>2 DEF SignInv, EntryFound, Is
  <2> HIDE DEF l, o
  <2>4. [l.entries[o.svc] EXCEPT !.enabled = (o.kind = "enable")] \in Entries
    BY <2>3 DEF Entries
  <2>5. Changed(c) = [key |-> l.key, entries |->
           [l.entries EXCEPT ![o.svc] = [l.entries[o.svc] EXCEPT !.enabled = (o.kind = "enable")]]]
    BY <1>2, <2>1
  <2>6. Changed(c) \in Lockfiles
    BY <1>2, <2>2, <2>4, <2>5 DEF Lockfiles
  <2>7. ASSUME NEW s \in Services
        PROVE  \/ Changed(c).entries[s] = l.entries[s]
               \/ /\ s = o.svc
                  /\ Changed(c).entries[s].sig = l.entries[s].sig
                  /\ Changed(c).entries[s].digest = l.entries[s].digest
    BY <1>2, <2>2, <2>3, <2>5 DEF Entries
  <2> QED
    BY <1>1, <2>3, <2>5, <2>6, <2>7 DEF SignedByKey
<1> QED
  BY <1>3, <1>4, <1>5, <1>6

(***************************************************************************)
(* Every step of a command, and of the server, keeps the invariant.        *)
(***************************************************************************)
LEMMA LeaveSigned ==
    ASSUME SignInv, NEW c \in Cli, Leave(c), lock' \in Lockfiles, SignedByKey(lock')
    PROVE  SignInv'
<1> USE DEF SignInv, Leave, Goto
<1>1. LockTyped'
  BY NothingTyped DEF LockTyped, OpTyped, Pcs, At, Is, NoOp
<1>2. EntryFound'
  BY DEF EntryFound, LockTyped, At, Is
<1>3. SignedByKey(lock)'
  BY DEF SignedByKey
<1>4. \A d \in Cli : SignedByKey(copy[d])'
  BY NothingTyped DEF CopiesSigned, LockTyped, SignedByKey
<1> QED
  BY <1>1, <1>2, <1>3, <1>4 DEF CopiesSigned

\* A step that leaves the lockfile and what has been read of it alone.
LEMMA KeepSigned ==
    ASSUME SignInv, NEW c \in Cli, NEW l \in Pcs \ {"idle"}, ~At(c, "idle"), Goto(c, l),
           UNCHANGED <<lock, op, copy>>,
           l \in {"lockfile", "manifest", "unlink"} => ~Is(c, Toggles)
    PROVE  SignInv'
<1> USE DEF SignInv, Goto
<1>1. LockTyped'
  BY DEF LockTyped, OpTyped, At, Is
<1>2. EntryFound'
  BY DEF EntryFound, LockTyped, At, Is
<1>3. CopiesSigned'
  BY DEF CopiesSigned, SignedByKey
<1> QED
  BY <1>1, <1>2, <1>3

LEMMA CommandSigned ==
    ASSUME SignInv, NEW c \in Cli, CommandStep(c)
    PROVE  SignInv'
<1>1. lock \in Lockfiles /\ SignedByKey(lock)
  BY DEF SignInv, LockTyped, CopiesSigned
<1>2. ASSUME NEW o \in Inputs, Begin(c, o) PROVE SignInv'
  <2> USE <1>2, InputsTyped DEF SignInv, Begin, Goto, files
  <2>1. FirstStep(o) \in Pcs \ {"idle", "lockfile"}
    BY DEF FirstStep, Pcs
  <2>2. FirstStep(o) \notin {"manifest", "unlink"}
    BY DEF FirstStep
  <2>3. LockTyped'
    BY <2>1 DEF LockTyped, OpTyped, At, Is
  <2>4. EntryFound'
    BY <2>1, <2>2 DEF EntryFound, LockTyped, At, Is
  <2>5. CopiesSigned'
    BY DEF CopiesSigned, SignedByKey
  <2> QED
    BY <2>3, <2>4, <2>5
<1>3. CASE GetEnabled(c)
  <2> DEFINE on == EnabledIn(lock, op[c].svc)
  <2>1. on \in BOOLEAN
    BY DEF EnabledIn
  <2> HIDE DEF on
  <2>2. /\ op' = [op EXCEPT ![c] = [op[c] EXCEPT !.on = on]]
        /\ pc' = [pc EXCEPT ![c] = "get"]
        /\ At(c, "enabled")
        /\ UNCHANGED <<lock, copy>>
    BY <1>3 DEF GetEnabled, Goto, files, on
  <2> USE <2>2 DEF SignInv
  <2>3. OpTyped([op[c] EXCEPT !.on = on]) /\ [op[c] EXCEPT !.on = on].kind = op[c].kind
    BY <2>1 DEF LockTyped, OpTyped, Op
  <2>4. LockTyped'
    BY <2>3 DEF LockTyped, OpTyped, Pcs, At, Is
  <2>5. EntryFound'
    BY DEF EntryFound, LockTyped, At, Is
  <2>6. CopiesSigned'
    BY DEF CopiesSigned, SignedByKey
  <2> QED
    BY <2>4, <2>5, <2>6
<1>4. ASSUME Fail(c) \/ Abandon(c), UNCHANGED lock PROVE SignInv'
  BY <1>1, <1>4, LeaveSigned DEF Fail, Abandon
<1>5. CASE Get(c)
  <2>1. CASE Fail(c)
    BY <1>4, <1>5, <2>1 DEF Get, files
  <2>2. CASE ~Fail(c)
    <3> DEFINE l == IF Is(c, {"update"}) THEN "old" ELSE "lock"
    <3>1. ~At(c, "idle") /\ Goto(c, l) /\ UNCHANGED <<lock, op, copy>>
      BY <1>5, <2>2 DEF Get, At, files
    <3> QED
      BY <3>1, KeepSigned DEF Pcs
  <2> QED
    BY <2>1, <2>2
<1>6. CASE Stat(c)
  <2>1. CASE Fail(c)
    BY <1>4, <1>6, <2>1 DEF Stat, files
  <2>2. CASE ~Fail(c)
    <3>1. ~At(c, "idle") /\ Goto(c, "old") /\ UNCHANGED <<lock, op, copy>>
      BY <1>6, <2>2 DEF Stat, At, files
    <3> QED
      BY <3>1, KeepSigned DEF Pcs
  <2> QED
    BY <2>1, <2>2
<1>7. CASE ReadOld(c)
  <2> DEFINE l == IF ~Is(c, {"remove"}) THEN "lock"
                  ELSE IF manifest[op[c].svc] # None THEN "unlink" ELSE "lockfile"
  <2>1. ~At(c, "idle") /\ Goto(c, l) /\ UNCHANGED <<lock, op, copy>>
    BY <1>7 DEF ReadOld, At, files
  <2> QED
    BY <2>1, KeepSigned DEF Pcs, Is, Toggles
<1>8. CASE ReadLock(c)
  <2>1. CASE Fail(c)
    BY <1>4, <1>8, <2>1 DEF ReadLock, files
  <2>2. CASE ~Fail(c)
    <3> DEFINE l == CASE Is(c, Installs) -> "manifest"
                      [] Is(c, {"remove"}) -> "old"
                      [] OTHER -> "lockfile"
    <3>1. l \in Pcs \ {"idle"}
      BY DEF Pcs
    <3>2. l \in {"manifest", "unlink"} => ~Is(c, Toggles)
      BY DEF Is, Installs, Toggles
    <3> HIDE DEF l
    <3>3. /\ At(c, "lock") /\ pc' = [pc EXCEPT ![c] = l]
          /\ copy' = [copy EXCEPT ![c] = lock] /\ UNCHANGED <<lock, op>>
          /\ Is(c, Toggles) => lock.entries[op[c].svc] # None
      BY <1>8, <2>2 DEF ReadLock, Goto, files, l
    <3> USE <3>3 DEF SignInv
    <3>4. LockTyped'
      BY <3>1 DEF LockTyped, OpTyped, At, Is
    <3>5. EntryFound'
      BY <3>1, <3>2 DEF EntryFound, LockTyped, At, Is
    <3>6. CopiesSigned'
      BY DEF CopiesSigned, LockTyped, SignedByKey
    <3> QED
      BY <3>4, <3>5, <3>6
  <2> QED
    BY <2>1, <2>2
<1>9. ASSUME WriteManifest(c) \/ Unlink(c) PROVE SignInv'
  <2>1. CASE Fail(c) /\ UNCHANGED files
    BY <1>4, <2>1 DEF files
  <2>2. CASE ~(Fail(c) /\ UNCHANGED files)
    <3>1. ~At(c, "idle") /\ Goto(c, "lockfile") /\ UNCHANGED <<lock, op, copy>>
      BY <1>9, <2>2 DEF WriteManifest, Unlink, PutManifest, At
    <3>2. ~Is(c, Toggles)
      BY <1>9 DEF SignInv, EntryFound, WriteManifest, Unlink
    <3> QED
      BY <3>1, <3>2, KeepSigned DEF Pcs
  <2> QED
    BY <2>1, <2>2
<1>10. CASE WriteLock(c)
  <2>1. CASE UNCHANGED lock /\ (Fail(c) \/ Succeed(c))
    BY <1>1, <2>1, LeaveSigned DEF Fail, Succeed
  <2>2. CASE lock' = Changed(c) /\ Succeed(c)
    BY <1>10, <2>2, ChangedSigned, LeaveSigned DEF WriteLock, Succeed
  <2>3. CASE Goto(c, "restore") /\ UNCHANGED <<lock, op, copy>>
    BY <1>10, <2>3, KeepSigned DEF WriteLock, At, Pcs
  <2> QED
    BY <1>10, <2>1, <2>2, <2>3 DEF WriteLock, files
<1>11. CASE Restore(c)
  BY <1>4, <1>11 DEF Restore, PutManifest, files
<1>12. CASE Kill(c)
  BY <1>4, <1>12 DEF Kill, files
<1> QED
  BY <1>2, <1>3, <1>5, <1>6, <1>7, <1>8, <1>9, <1>10, <1>11, <1>12 DEF CommandStep

LEMMA SignStep == SignInv /\ [Next]_vars => SignInv'
<1> SUFFICES ASSUME SignInv, [Next]_vars PROVE SignInv'
  OBVIOUS
<1>1. CASE UNCHANGED <<files, commands>>
  BY <1>1 DEF SignInv, LockTyped, EntryFound, CopiesSigned, SignedByKey, OpTyped, At, Is, files, commands
<1>2. ASSUME NEW c \in Cli, CommandStep(c) PROVE SignInv'
  BY <1>2, CommandSigned
<1> QED
  BY <1>1, <1>2 DEF Next, vars

(***************************************************************************)
(* The signatures of the lockfile are by its key, for any number of        *)
(* commands that overlap, die and overwrite each other's copies.           *)
(***************************************************************************)
THEOREM SignaturesHold == Spec => []SignaturesMatchKey
<1>1. SignInv => SignaturesMatchKey
  BY DEF SignInv, CopiesSigned, SignedByKey, SignaturesMatchKey
<1> QED
  BY SignInit, SignStep, <1>1, PTL DEF Spec

------------------------------------------------------------------------------
(***************************************************************************)
(* What the commands have answered is true.                                *)
(***************************************************************************)
Agree(e, f) ==
    /\ (e = None) = (f = None)
    /\ e # None => e.digest = f.digest /\ e.enabled = f.enabled

\* The answer t is true of a manifest and an entry.
Holds(t, m, e) ==
    t # Unknown =>
        IF t = None THEN m = None /\ e = None
        ELSE m = t.ver /\ e # None /\ e.digest = t.ver /\ e.enabled = t.on

\* The steps each kind of command is seen at.
Where(c) ==
    /\ At(c, "enabled") => Is(c, {"update"})
    /\ At(c, "get") => Is(c, {"update", "disable", "remove"})
    /\ At(c, "stat") => Is(c, {"install"})
    /\ At(c, "manifest") => Is(c, Installs)
    /\ At(c, "unlink") => Is(c, {"remove"})
    /\ At(c, "old") \/ At(c, "restore") => Is(c, Installs \cup {"remove"})
    /\ Is(c, {"sign"}) => op[c].svc = None

HasCopy(c) ==
    At(c, "manifest") \/ At(c, "unlink") \/ At(c, "lockfile") \/ At(c, "restore")
    \/ (At(c, "old") /\ Is(c, {"remove"}))

Written(c) == At(c, "lockfile") \/ At(c, "restore")

\* What a command knows that has run alone so far: the lockfile is as it read it,
\* and its service in order but for the manifest it has replaced.
Alone(c) ==
    LET s == op[c].svc
        e == lock.entries[s]
    IN  /\ HasCopy(c) => copy[c] = lock
        /\ s \in Services =>
              /\ Holds(told[s], IF Written(c) /\ Restores(c) THEN old[c] ELSE manifest[s], e)
              /\ (At(c, "lock") /\ Is(c, Installs)) \/ At(c, "manifest") \/ At(c, "unlink") =>
                    old[c] = manifest[s]
              /\ At(c, "lockfile") /\ Is(c, Installs) => manifest[s] = op[c].ver
              /\ At(c, "lockfile") /\ Is(c, {"remove"}) => manifest[s] = None

\* A service no command is about is as was answered, and whoever writes back the
\* lockfile it has read changes nothing about it.
Undisturbed(s) ==
    /\ Holds(told[s], manifest[s], lock.entries[s])
    /\ told[s] # Unknown => \A c \in Busy : HasCopy(c) => Agree(copy[c].entries[s], lock.entries[s])

\* Commands that run together have clashed.
Together ==
    /\ clash \subseteq Busy
    /\ \A c, d \in Busy : c # d => c \in clash

AnswersInv ==
    /\ told \in [Services -> Told \cup {None}]
    /\ Together
    /\ \A c \in Cli : Where(c)
    /\ \A s \in Services : (\A c \in Busy : op[c].svc # s) => Undisturbed(s)
    /\ \A c \in Busy \ clash : Alone(c)

LEMMA UnknownTold == Unknown \in Told /\ Unknown # None /\ None \notin Entries /\ None \notin Told
<1>1. Unknown \in Told
  BY DEF Unknown, Told
<1> QED
  BY <1>1, NoneAssumption

LEMMA HoldsAgreeing ==
    ASSUME NEW t, NEW m, NEW e, NEW f, Holds(t, m, e), Agree(f, e)
    PROVE  Holds(t, m, f)
  BY DEF Holds, Agree

LEMMA AnswersInit == Init => AnswersInv
<1> SUFFICES ASSUME Init PROVE AnswersInv
  OBVIOUS
<1> USE DEF Init, FilesInit
<1>1. Busy = {} /\ clash = {}
  BY DEF Busy, At
<1>2. told \in [Services -> Told \cup {None}]
  <2>1. CASE Nothing
    BY <2>1 DEF Nothing
  <2>2. ASSUME NEW v \in Start, NEW k \in Keys, Installed(v, k)
        PROVE  told \in [Services -> Told \cup {None}]
    <3>1. [ver |-> v, on |-> TRUE] \in Told
      BY FilesAssumption DEF Told
    <3> QED
      BY <2>2, <3>1 DEF Installed
  <2> QED
    BY <2>1, <2>2
<1>3. \A s \in Services : Holds(told[s], manifest[s], lock.entries[s])
  <2>1. CASE Nothing
    BY <2>1 DEF Nothing, NoLockfile, Holds
  <2>2. ASSUME NEW v \in Start, NEW k \in Keys, Installed(v, k), NEW s \in Services
        PROVE  Holds(told[s], manifest[s], lock.entries[s])
    <3> DEFINE e == [digest |-> v, enabled |-> TRUE, sig |-> [key |-> k, digest |-> v]]
    <3>1. e \in Entries
      BY FilesAssumption DEF Entries, Signatures
    <3>2. e # None /\ e.digest = v /\ e.enabled = TRUE
      BY <3>1, UnknownTold
    <3>3. told[s] = [ver |-> v, on |-> TRUE] /\ manifest[s] = v /\ lock.entries[s] = e
      BY <2>2 DEF Installed
    <3>4. [ver |-> v, on |-> TRUE] \in Told
      BY FilesAssumption DEF Told
    <3> HIDE DEF e
    <3>5. told[s] # None
      BY <3>3, <3>4, UnknownTold
    <3>6. told[s].ver = v /\ told[s].on = TRUE
      BY <3>3
    <3> QED
      BY <3>2, <3>3, <3>5, <3>6 DEF Holds
  <2> QED
    BY <2>1, <2>2
<1>4. \A c \in Cli : Where(c)
  BY DEF Where, At, Is, NoOp
<1> QED
  BY <1>1, <1>2, <1>3, <1>4 DEF AnswersInv, Undisturbed, Together

(***************************************************************************)
(* A step that ends a command.                                             *)
(***************************************************************************)
LEMMA EndStep ==
    ASSUME SignInv, AnswersInv, NEW c \in Busy, Leave(c), told' \in [Services -> Told \cup {None}],
           \A s \in Services :
              s # op[c].svc =>
                 /\ told'[s] = told[s] /\ manifest'[s] = manifest[s]
                 /\ told[s] # Unknown /\ (\A d \in Busy : op[d].svc # s) =>
                       Agree(lock'.entries[s], lock.entries[s]),
           op[c].svc \in Services =>
              IF c \in clash THEN told'[op[c].svc] = Unknown
              ELSE Holds(told'[op[c].svc], manifest'[op[c].svc], lock'.entries[op[c].svc])
    PROVE  AnswersInv'
<1>0. c \in Cli /\ pc \in [Cli -> Pcs] /\ op \in [Cli -> Op] /\ copy \in [Cli -> Lockfiles]
  BY DEF Busy, SignInv, LockTyped
<1>1. /\ pc' = [pc EXCEPT ![c] = "idle"] /\ op' = [op EXCEPT ![c] = NoOp]
      /\ copy' = [copy EXCEPT ![c] = NoLockfile] /\ clash' = clash \ {c}
  BY DEF Leave, Goto
<1>2. Busy' = Busy \ {c}
  BY <1>0, <1>1 DEF Busy, At
<1>3. \A d \in Cli \ {c} : pc'[d] = pc[d] /\ op'[d] = op[d] /\ copy'[d] = copy[d]
  BY <1>0, <1>1
<1>4. Together' /\ \A d \in Busy' : d \in clash'
  BY <1>1, <1>2 DEF AnswersInv, Together
<1>5. \A d \in Cli : Where(d)'
  <2>1. Where(c)'
    BY <1>0, <1>1 DEF Where, At, Is, NoOp
  <2>2. ASSUME NEW d \in Cli \ {c} PROVE Where(d)'
    BY <1>3 DEF AnswersInv, Where, At, Is
  <2> QED
    BY <2>1, <2>2
<1>6. ASSUME NEW s \in Services, \A d \in Busy' : op'[d].svc # s PROVE Undisturbed(s)'
  <2>1. \A d \in Busy \ {c} : op[d].svc # s
    BY <1>2, <1>3, <1>6 DEF Busy
  <2>2. CASE s = op[c].svc
    <3>1. CASE c \in clash
      BY <2>2, <3>1 DEF Undisturbed, Holds
    <3>2. CASE c \notin clash
      <4>1. Busy' = {}
        BY <1>2, <3>2 DEF AnswersInv, Together
      <4> QED
        BY <2>2, <3>2, <4>1 DEF Undisturbed
    <3> QED
      BY <3>1, <3>2
  <2>3. CASE s # op[c].svc
    <3>1. Undisturbed(s) /\ \A d \in Busy : op[d].svc # s
      BY <2>1, <2>3 DEF AnswersInv
    <3>2. told'[s] = told[s] /\ manifest'[s] = manifest[s]
      BY <2>3
    <3>3. told[s] # Unknown => Agree(lock'.entries[s], lock.entries[s])
      BY <2>3, <3>1
    <3>4. Holds(told[s], manifest[s], lock'.entries[s])
      <4>1. CASE told[s] = Unknown
        BY <4>1 DEF Holds
      <4>2. CASE told[s] # Unknown
        BY <3>1, <3>3, <4>2, HoldsAgreeing DEF Undisturbed
      <4> QED
        BY <4>1, <4>2
    <3>5. ASSUME told[s] # Unknown, NEW d \in Busy', HasCopy(d)'
          PROVE  Agree(copy'[d].entries[s], lock'.entries[s])
      <4>1. d \in Busy /\ d # c /\ HasCopy(d) /\ copy'[d] = copy[d]
        BY <1>2, <1>3, <3>5 DEF HasCopy, Busy, At, Is
      <4> QED
        BY <3>1, <3>3, <3>5, <4>1 DEF Undisturbed, Agree
    <3> QED
      BY <3>2, <3>4, <3>5 DEF Undisturbed
  <2> QED
    BY <2>2, <2>3
<1> QED
  BY <1>4, <1>5, <1>6 DEF AnswersInv

(***************************************************************************)
(* A step within a command.                                                *)
(***************************************************************************)
LEMMA GoStep ==
    ASSUME SignInv, AnswersInv, NEW c \in Busy, NEW l \in Pcs \ {"idle"}, Goto(c, l),
           UNCHANGED <<lock, told, clash>>,
           op'[c].svc = op[c].svc,
           \A d \in Cli \ {c} : op'[d] = op[d] /\ copy'[d] = copy[d],
           \A s \in Services : s # op[c].svc => manifest'[s] = manifest[s],
           HasCopy(c)' => copy'[c] = lock \/ (HasCopy(c) /\ copy'[c] = copy[c]),
           Where(c)', c \notin clash => Alone(c)'
    PROVE  AnswersInv'
<1>0. c \in Cli /\ pc \in [Cli -> Pcs]
  BY DEF Busy, SignInv, LockTyped
<1>1. \A d \in Cli \ {c} : pc'[d] = pc[d]
  BY <1>0 DEF Goto
<1>2. Busy' = Busy
  BY <1>0 DEF Goto, Busy, At
<1>3. Together'
  BY <1>2 DEF AnswersInv, Together
<1>4. ASSUME NEW d \in Cli PROVE Where(d)'
  <2>1. CASE d = c
    BY <2>1
  <2>2. CASE d # c
    BY <1>1, <2>2 DEF AnswersInv, Where, At, Is
  <2> QED
    BY <2>1, <2>2
<1>5. ASSUME NEW s \in Services, \A d \in Busy' : op'[d].svc # s PROVE Undisturbed(s)'
  <2>1. \A d \in Busy : op[d].svc # s
    BY <1>2, <1>5 DEF Busy
  <2>2. Undisturbed(s) /\ manifest'[s] = manifest[s]
    BY <2>1 DEF AnswersInv
  <2>3. ASSUME told[s] # Unknown, NEW d \in Busy, HasCopy(d)'
        PROVE  Agree(copy'[d].entries[s], lock.entries[s])
    <3>1. CASE d = c
      BY <2>2, <2>3, <3>1 DEF Undisturbed, Agree
    <3>2. CASE d # c
      <4>1. HasCopy(d) /\ copy'[d] = copy[d]
        BY <1>1, <2>3, <3>2 DEF HasCopy, Busy, At, Is
      <4> QED
        BY <2>2, <2>3, <4>1 DEF Undisturbed
    <3> QED
      BY <3>1, <3>2
  <2> QED
    BY <1>2, <2>2, <2>3 DEF Undisturbed
<1>6. \A d \in (Busy \ clash)' : Alone(d)'
  BY <1>2 DEF AnswersInv, Together
<1> QED
  BY <1>3, <1>4, <1>5, <1>6 DEF AnswersInv

\* A command that ends without having written: it answers as before, or not at all.
LEMMA FailStep ==
    ASSUME SignInv, AnswersInv, NEW c \in Busy, Fail(c), UNCHANGED lock,
           \A s \in Services : s # op[c].svc => manifest'[s] = manifest[s],
           op[c].svc \in Services /\ c \notin clash =>
              Holds(told[op[c].svc], manifest'[op[c].svc], lock.entries[op[c].svc])
    PROVE  AnswersInv'
<1>1. told \in [Services -> Told \cup {None}]
  BY DEF AnswersInv
<1>2. told' \in [Services -> Told \cup {None}]
  BY <1>1, UnknownTold DEF Fail, Tell
<1>3. \A s \in Services : s # op[c].svc => told'[s] = told[s]
  BY <1>1 DEF Fail, Tell, About
<1>4. op[c].svc \in Services =>
         IF c \in clash THEN told'[op[c].svc] = Unknown ELSE told' = told
  BY DEF Fail, Tell, About
<1>5. Leave(c)
  BY DEF Fail
<1>6. \A s \in Services : Agree(lock'.entries[s], lock.entries[s])
  BY DEF Agree
<1> QED
  BY <1>2, <1>3, <1>4, <1>5, <1>6, EndStep

LEMMA AbandonStep ==
    ASSUME SignInv, AnswersInv, NEW c \in Busy, Abandon(c), UNCHANGED <<manifest, lock>>
    PROVE  AnswersInv'
<1>1. told \in [Services -> Told \cup {None}]
  BY DEF AnswersInv
<1>2. told' \in [Services -> Told \cup {None}]
  BY <1>1, UnknownTold DEF Abandon, Tell
<1>3. \A s \in Services : s # op[c].svc => told'[s] = told[s]
  BY <1>1 DEF Abandon, Tell, About
<1>4. op[c].svc \in Services => told'[op[c].svc] = Unknown
  BY DEF Abandon, Tell, About
<1>5. Leave(c)
  BY DEF Abandon
<1>6. \A s \in Services : Agree(lock'.entries[s], lock.entries[s])
  BY DEF Agree
<1>7. op[c].svc \in Services => Holds(told'[op[c].svc], manifest'[op[c].svc], lock'.entries[op[c].svc])
  BY <1>4 DEF Holds
<1> QED
  BY <1>2, <1>3, <1>4, <1>5, <1>6, <1>7, EndStep

(***************************************************************************)
(* What the copy a command writes back says of the services.               *)
(***************************************************************************)
LEMMA ChangedEntries ==
    ASSUME SignInv, NEW c \in Cli, At(c, "lockfile"), NEW s \in Services
    PROVE  LET o == op[c]
               e == Changed(c).entries[s]
               f == copy[c].entries[s]
           IN  /\ s # o.svc => Agree(e, f)
               /\ o.kind = "sign" => Agree(e, f)
               /\ s = o.svc /\ o.kind \in Installs =>
                     e # None /\ e.digest = o.ver /\ e.enabled = o.on
               /\ s = o.svc /\ o.kind = "remove" => e = None
               /\ s = o.svc /\ o.kind \in Toggles =>
                     /\ e # None /\ f # None
                     /\ e.digest = f.digest /\ e.enabled = (o.kind = "enable")
<1> DEFINE l == copy[c]
           o == op[c]
<1>1. l \in Lockfiles /\ OpTyped(o)
  BY DEF SignInv, LockTyped
<1>2. l = [key |-> l.key, entries |-> l.entries] /\ l.key \in Keys \cup {None}
      /\ l.entries \in [Services -> Entries \cup {None}]
  BY <1>1 DEF Lockfiles
<1>3. CASE o.kind \in Installs
  <2> DEFINE new == [digest |-> o.ver, enabled |-> o.on, sig |-> None]
  <2>1. Changed(c) = [l EXCEPT !.entries[o.svc] = new]
    BY <1>3 DEF Changed, NewSignature, Installs
  <2>2. o.svc \in Services /\ new \in Entries
    BY <1>1, <1>3 DEF OpTyped, Op, Installs, Entries
  <2>3. new # None /\ new.digest = o.ver /\ new.enabled = o.on
    BY <2>2, UnknownTold
  <2>4. o.kind \notin Toggles \cup {"remove", "sign"}
    BY <1>3 DEF Installs, Toggles
  <2> HIDE DEF l, new
  <2>5. Changed(c).entries[s] = IF s = o.svc THEN new ELSE l.entries[s]
    BY <1>2, <2>1, <2>2
  <2> QED
    BY <2>3, <2>4, <2>5 DEF Agree, l
<1>4. CASE o.kind = "remove"
  <2>1. Changed(c) = [l EXCEPT !.entries[o.svc] = None]
    BY <1>4 DEF Changed, EntryRemoved, Installs
  <2>2. o.svc \in Services /\ o.kind \notin Toggles \cup Installs \cup {"sign"}
    BY <1>1, <1>4 DEF OpTyped, Installs, Toggles
  <2> HIDE DEF l
  <2>3. Changed(c).entries[s] = IF s = o.svc THEN None ELSE l.entries[s]
    BY <1>2, <2>1, <2>2
  <2> QED
    BY <2>2, <2>3 DEF Agree, l
<1>5. CASE o.kind = "sign"
  <2>1. Changed(c) = [key |-> o.key, entries |-> [r \in Services |-> Signed(l.entries[r], o.key)]]
    BY <1>5 DEF Changed, Installs
  <2>2. o.kind \notin Toggles \cup Installs \cup {"remove"} /\ o.key \in Keys
    BY <1>1, <1>5 DEF OpTyped, Installs, Toggles
  <2>3. Changed(c).entries[s] = Signed(l.entries[s], o.key)
    BY <2>1
  <2> HIDE DEF l
  <2>4. CASE l.entries[s] = None
    BY <2>2, <2>3, <2>4 DEF Agree, Signed, l
  <2>5. CASE l.entries[s] \in Entries
    <3> DEFINE k == o.key
    <3>1. l.entries[s] # None
      BY <2>5, UnknownTold
    <3>2. l.entries[s].digest \in Versions
      BY <2>5 DEF Entries
    <3>3. k \in Keys
      BY <2>2
    <3> HIDE DEF k
    <3>4. LET e == [l.entries[s] EXCEPT !.sig = [key |-> k, digest |-> l.entries[s].digest]]
          IN  /\ e \in Entries
              /\ e.digest = l.entries[s].digest /\ e.enabled = l.entries[s].enabled
      BY <2>5, <3>2, <3>3 DEF Entries, Signatures
    <3>5. /\ Changed(c).entries[s] \in Entries
          /\ Changed(c).entries[s].digest = l.entries[s].digest
          /\ Changed(c).entries[s].enabled = l.entries[s].enabled
      BY <2>3, <3>1, <3>4 DEF Signed, k
    <3>6. Changed(c).entries[s] # None
      BY <3>5, UnknownTold
    <3> QED
      BY <2>2, <3>1, <3>5, <3>6 DEF Agree, l
  <2> QED
    BY <1>2, <2>4, <2>5
<1>6. CASE o.kind \notin Installs \cup {"remove", "sign"}
  <2> DEFINE on == o.kind = "enable"
  <2>1. Changed(c) = [l EXCEPT !.entries[o.svc].enabled = on]
    BY <1>6 DEF Changed
  <2>2. o.kind \in Toggles /\ o.svc \in Services /\ on \in BOOLEAN
    BY <1>1, <1>6 DEF SignInv, LockTyped, OpTyped, Op, At, Is
  <2>3. l.entries[o.svc] \in Entries /\ l.entries[o.svc] # None
    BY <1>2, <2>2 DEF SignInv, EntryFound, Is
  <2> HIDE DEF l, on
  <2> DEFINE new == [l.entries[o.svc] EXCEPT !.enabled = on]
  <2>4. new \in Entries /\ new.digest = l.entries[o.svc].digest /\ new.enabled = on
    BY <2>2, <2>3 DEF Entries
  <2>5. new # None
    BY <2>4, UnknownTold
  <2>6. Changed(c) = [key |-> l.key, entries |-> [l.entries EXCEPT ![o.svc] = new]]
    BY <1>2, <2>1
  <2> HIDE DEF new
  <2>7. Changed(c).entries[s] = IF s = o.svc THEN new ELSE l.entries[s]
    BY <1>2, <2>2, <2>6
  <2>8. o.kind \notin Installs \cup {"remove", "sign"}
    BY <1>6
  <2> QED
    BY <2>3, <2>4, <2>5, <2>7, <2>8 DEF Agree, l, on
<1> QED
  BY <1>3, <1>4, <1>5, <1>6

(***************************************************************************)
(* The manifests, and what commands and the clock remember of them.        *)
(***************************************************************************)
FilesTyped ==
    /\ manifest \in [Services -> Versions \cup {None}]
    /\ old \in [Cli -> Versions \cup {None}]
    /\ mtime \in [Services -> Nat] /\ ltime \in Nat

LEMMA FilesTypedInit == Init => FilesTyped
<1> SUFFICES ASSUME Init PROVE FilesTyped
  OBVIOUS
<1> USE DEF Init, FilesInit
<1>1. CASE Nothing
  BY <1>1 DEF Nothing, FilesTyped
<1>2. ASSUME NEW v \in Start, NEW k \in Keys, Installed(v, k) PROVE FilesTyped
  <2>1. Cardinality(Services) \in Nat
    BY FilesAssumption, FS_CardinalityType
  <2> QED
    BY <1>2, <2>1, FilesAssumption DEF Installed, FilesTyped
<1> QED
  BY <1>1, <1>2

LEMMA FilesTypedStep ==
    ASSUME LockTyped, FilesTyped, NEW c \in Cli, Where(c), CommandStep(c)
    PROVE  FilesTyped'
<1>1. /\ op[c].ver \in Versions \cup {None} /\ old[c] \in Versions \cup {None}
      /\ Is(c, Installs \cup {"remove"}) =>
            op[c].svc \in Services /\ manifest[op[c].svc] \in Versions \cup {None}
  BY DEF LockTyped, OpTyped, Op, Is, FilesTyped, Installs
<1>2. ASSUME NEW s \in Services, NEW v \in Versions \cup {None}, PutManifest(s, v)
      PROVE  manifest' \in [Services -> Versions \cup {None}] /\ mtime' \in [Services -> Nat] /\ ltime' \in Nat
  <2>1. mtime[s] + 1 \in Nat
    BY DEF FilesTyped
  <2> QED
    BY <1>2, <2>1 DEF FilesTyped, PutManifest
<1>3. ASSUME Leave(c) PROVE old' \in [Cli -> Versions \cup {None}]
  BY <1>3 DEF Leave, FilesTyped
<1>4. CASE ReadOld(c)
  BY <1>1, <1>4 DEF ReadOld, Where, FilesTyped, files
<1>5. CASE WriteManifest(c) \/ Unlink(c) \/ Restore(c)
  <2>1. Is(c, Installs \cup {"remove"})
    BY <1>5 DEF WriteManifest, Unlink, Restore, Where, Is
  <2> QED
    BY <1>1, <1>2, <1>3, <1>5, <2>1, UnknownTold DEF WriteManifest, Unlink, Restore, Restored, Fail, Abandon,
       FilesTyped, files
<1>6. CASE WriteLock(c)
  BY <1>3, <1>6 DEF WriteLock, Fail, Succeed, FilesTyped, files
<1>7. CASE (\E o \in Inputs : Begin(c, o)) \/ GetEnabled(c) \/ Get(c) \/ Stat(c) \/ ReadLock(c) \/ Kill(c)
  BY <1>3, <1>7 DEF Begin, GetEnabled, Get, Stat, ReadLock, Kill, Fail, Abandon, FilesTyped, files
<1> QED
  BY <1>4, <1>5, <1>6, <1>7 DEF CommandStep

(***************************************************************************)
(* Every step of a command keeps the answers true.                         *)
(***************************************************************************)
LEMMA AnswersBegin ==
    ASSUME SignInv, AnswersInv, NEW c \in Cli, NEW o \in Inputs, Begin(c, o)
    PROVE  AnswersInv'
<1>0. /\ pc \in [Cli -> Pcs] /\ op \in [Cli -> Op] /\ At(c, "idle") /\ c \notin Busy
      /\ UNCHANGED <<manifest, lock, copy, told>>
  BY DEF SignInv, LockTyped, Begin, Busy, files
<1> DEFINE l == FirstStep(o)
<1>1. /\ l \in {"enabled", "get", "stat", "old", "lock"}
      /\ l = "enabled" => o.kind = "update"
      /\ l = "get" => o.kind \in {"disable", "remove"}
      /\ l = "stat" => o.kind = "install"
      /\ l = "old" => o.kind = "force"
      /\ l = "lock" => o.kind \in {"enable", "sign"}
      /\ o.kind = "sign" => o.svc = None
  BY DEF FirstStep, Inputs, Toggles
<1> HIDE DEF l
<1>2. /\ pc' = [pc EXCEPT ![c] = l] /\ op' = [op EXCEPT ![c] = o]
      /\ clash' = IF Busy = {} THEN clash ELSE clash \cup Busy \cup {c}
  BY DEF Begin, Goto, l
<1>3. \A d \in Cli \ {c} : pc'[d] = pc[d] /\ op'[d] = op[d]
  BY <1>0, <1>2
<1>4. pc'[c] = l /\ op'[c] = o
  BY <1>0, <1>2
<1>5. Busy' = Busy \cup {c}
  BY <1>1, <1>3, <1>4 DEF Busy, At
<1>6. Together'
  BY <1>2, <1>5 DEF AnswersInv, Together
<1>7. \A d \in Cli : Where(d)'
  <2>1. Where(c)'
    BY <1>1, <1>4 DEF Where, At, Is, Installs
  <2>2. ASSUME NEW d \in Cli \ {c} PROVE Where(d)'
    BY <1>3 DEF AnswersInv, Where, At, Is
  <2> QED
    BY <2>1, <2>2
<1>8. ~HasCopy(c)' /\ ~Written(c)'
  BY <1>1, <1>4 DEF HasCopy, Written, At, Is
<1>9. ASSUME NEW s \in Services, \A d \in Busy' : op'[d].svc # s PROVE Undisturbed(s)'
  <2>1. \A d \in Busy : op[d].svc # s
    BY <1>0, <1>3, <1>5, <1>9 DEF Busy
  <2>2. Undisturbed(s)
    BY <2>1 DEF AnswersInv
  <2>3. ASSUME NEW d \in Busy', HasCopy(d)' PROVE d \in Busy /\ HasCopy(d)
    <3>1. d # c
      BY <1>8, <2>3
    <3> QED
      BY <1>3, <1>5, <2>3, <3>1 DEF HasCopy, Busy, At, Is
  <2> QED
    BY <1>0, <2>2, <2>3 DEF Undisturbed
<1>10. ASSUME NEW d \in Busy', d \notin clash' PROVE Alone(d)'
  <2>1. Busy = {} /\ d = c
    BY <1>2, <1>5, <1>10
  <2>2. \A s \in Services : Holds(told[s], manifest[s], lock.entries[s])
    BY <2>1 DEF AnswersInv, Undisturbed
  <2>3. ~(At(c, "lock") /\ Is(c, Installs))' /\ ~At(c, "manifest")' /\ ~At(c, "unlink")'
        /\ ~At(c, "lockfile")'
    BY <1>1, <1>4 DEF At, Is, Installs
  <2> QED
    BY <1>0, <1>8, <2>1, <2>2, <2>3 DEF Alone
<1> QED
  BY <1>0, <1>6, <1>7, <1>9, <1>10 DEF AnswersInv

LEMMA AnswersReading ==
    ASSUME SignInv, FilesTyped, AnswersInv, NEW c \in Cli,
           GetEnabled(c) \/ Get(c) \/ Stat(c) \/ ReadOld(c) \/ ReadLock(c)
    PROVE  AnswersInv'
<1>0. /\ pc \in [Cli -> Pcs] /\ op \in [Cli -> Op] /\ OpTyped(op[c]) /\ c \in Busy /\ Where(c)
      /\ UNCHANGED <<manifest, lock>>
      /\ copy \in [Cli -> Lockfiles]
  BY DEF SignInv, LockTyped, GetEnabled, Get, Stat, ReadOld, ReadLock, Busy, At, AnswersInv, files
<1>1. c \notin clash => Alone(c)
  BY <1>0 DEF AnswersInv
<1>2. ASSUME Fail(c), ~Written(c) PROVE AnswersInv'
  <2>1. op[c].svc \in Services /\ c \notin clash =>
            Holds(told[op[c].svc], manifest[op[c].svc], lock.entries[op[c].svc])
    BY <1>1, <1>2 DEF Alone
  <2> QED
    BY <1>0, <1>2, <2>1, FailStep
<1>3. CASE GetEnabled(c)
  <2> DEFINE on == EnabledIn(lock, op[c].svc)
  <2>1. /\ Goto(c, "get") /\ op' = [op EXCEPT ![c] = [op[c] EXCEPT !.on = on]] /\ At(c, "enabled")
        /\ UNCHANGED <<copy, old, told, clash>>
    BY <1>3 DEF GetEnabled
  <2> HIDE DEF on
  <2>2. /\ op'[c].svc = op[c].svc /\ op'[c].kind = op[c].kind
        /\ \A d \in Cli \ {c} : op'[d] = op[d]
        /\ pc'[c] = "get"
    BY <1>0, <2>1 DEF Op, Goto
  <2>3. ~HasCopy(c)' /\ Where(c)' /\ "get" \in Pcs \ {"idle"}
    BY <1>0, <2>1, <2>2 DEF HasCopy, Where, At, Is, Pcs
  <2>4. c \notin clash => Alone(c)'
    BY <1>0, <1>1, <2>1, <2>2, <2>3 DEF Alone, At, Written
  <2> QED
    BY <1>0, <2>1, <2>2, <2>3, <2>4, GoStep
<1>4. CASE Get(c) \/ Stat(c)
  <2>1. CASE Fail(c)
    BY <1>2, <1>4, <2>1 DEF Get, Stat, Written, At
  <2>2. CASE ~Fail(c)
    <3> DEFINE l == IF At(c, "stat") \/ Is(c, {"update"}) THEN "old" ELSE "lock"
    <3>1. /\ Goto(c, l) /\ UNCHANGED <<op, copy, old, told, clash>>
          /\ At(c, "get") \/ At(c, "stat")
      BY <1>4, <2>2 DEF Get, Stat, At
    <3> HIDE DEF l
    <3>2. pc'[c] = l /\ l \in Pcs \ {"idle"}
          /\ (l = "old" => Is(c, {"update", "install"}))
          /\ (l = "lock" => Is(c, {"disable", "remove"}))
          /\ l \in {"old", "lock"}
      BY <1>0, <3>1 DEF Goto, Where, Pcs, l, At, Is
    <3>3. ~HasCopy(c)' /\ Where(c)'
      BY <1>0, <3>1, <3>2 DEF HasCopy, Where, At, Is, Installs
    <3>4. c \notin clash => Alone(c)'
      BY <1>0, <1>1, <3>1, <3>2, <3>3 DEF Alone, At, Is, Written, Installs
    <3> QED
      BY <1>0, <3>1, <3>2, <3>3, <3>4, GoStep
  <2> QED
    BY <2>1, <2>2
<1>5. CASE ReadOld(c)
  <2> DEFINE s == op[c].svc
             l == IF ~Is(c, {"remove"}) THEN "lock"
                  ELSE IF manifest[s] # None THEN "unlink" ELSE "lockfile"
  <2>1. /\ Goto(c, l) /\ UNCHANGED <<op, copy, told, clash>> /\ At(c, "old")
        /\ old' = [old EXCEPT ![c] = manifest[s]]
    BY <1>5 DEF ReadOld
  <2>2. /\ pc'[c] = l /\ l \in Pcs \ {"idle"} /\ l \in {"lock", "unlink", "lockfile"}
        /\ old'[c] = manifest[s]
    BY <1>0, <2>1 DEF Goto, Pcs, FilesTyped
  <2>3. /\ l = "lock" => ~Is(c, {"remove"})
        /\ l \in {"unlink", "lockfile"} => Is(c, {"remove"})
        /\ l = "lockfile" => manifest[s] = None
    BY <1>0
  <2> HIDE DEF l
  <2>4. Where(c)' /\ (HasCopy(c)' => HasCopy(c))
    BY <1>0, <2>1, <2>2, <2>3 DEF HasCopy, Where, At, Is, Installs
  <2>5. c \notin clash => Alone(c)'
    <3> SUFFICES ASSUME c \notin clash PROVE Alone(c)'
      OBVIOUS
    <3>1. HasCopy(c)' => copy'[c] = lock'
      BY <1>0, <1>1, <2>1, <2>4 DEF Alone
    <3> SUFFICES ASSUME s \in Services
                 PROVE  /\ Holds(told[s], IF (Written(c) /\ Restores(c))' THEN manifest[s] ELSE manifest[s],
                                 lock.entries[s])
                        /\ (At(c, "lockfile") /\ Is(c, Installs))' => manifest[s] = op[c].ver
                        /\ At(c, "lockfile")' => manifest[s] = None
      BY <1>0, <2>1, <2>2, <3>1 DEF Alone
    <3>2. Holds(told[s], manifest[s], lock.entries[s])
      BY <1>1, <2>1 DEF Alone, Written, At
    <3> QED
      BY <2>1, <2>2, <2>3, <3>2 DEF At, Is, Installs
  <2> QED
    BY <1>0, <2>1, <2>2, <2>4, <2>5, GoStep
<1>6. CASE ReadLock(c)
  <2>1. CASE Fail(c)
    BY <1>2, <1>6, <2>1 DEF ReadLock, Written, At
  <2>2. CASE ~Fail(c)
    <3> DEFINE s == op[c].svc
               l == CASE Is(c, Installs) -> "manifest"
                      [] Is(c, {"remove"}) -> "old"
                      [] OTHER -> "lockfile"
    <3>1. /\ Goto(c, l) /\ UNCHANGED <<op, old, told, clash>> /\ At(c, "lock")
          /\ copy' = [copy EXCEPT ![c] = lock]
      BY <1>6, <2>2 DEF ReadLock
    <3>2. /\ l \in {"manifest", "old", "lockfile"}
          /\ l = "manifest" => Is(c, Installs)
          /\ l = "old" => Is(c, {"remove"})
          /\ l = "lockfile" => ~Restores(c)
      BY DEF Restores, Is, Installs
    <3> HIDE DEF l
    <3>3. /\ pc'[c] = l /\ l \in Pcs \ {"idle"} /\ copy'[c] = lock
          /\ \A d \in Cli \ {c} : copy'[d] = copy[d]
      BY <1>0, <3>1, <3>2 DEF Goto, Pcs
    <3>4. Where(c)' /\ op' = op
      BY <1>0, <3>1, <3>2, <3>3 DEF Where, At, Is, Installs
    <3>5. c \notin clash => Alone(c)'
      <4> SUFFICES ASSUME c \notin clash PROVE Alone(c)'
        OBVIOUS
      <4>1. (Written(c) /\ Restores(c))' = FALSE
        BY <3>2, <3>3, <3>4 DEF Written, Restores, At, Is
      <4>2. ~(At(c, "lockfile") /\ Is(c, Installs \cup {"remove"}))' /\ ~At(c, "lock")' /\ ~At(c, "unlink")'
        BY <3>2, <3>3, <3>4 DEF Restores, At, Is
      <4>3. s \in Services => Holds(told[s], manifest[s], lock.entries[s])
        BY <1>1, <3>1 DEF Alone, Written, At
      <4>4. s \in Services /\ At(c, "manifest")' => old[c] = manifest[s]
        BY <1>1, <3>1, <3>2, <3>3 DEF Alone, At
      <4> QED
        BY <1>0, <3>1, <3>3, <4>1, <4>2, <4>3, <4>4 DEF Alone, Is
    <3> QED
      BY <1>0, <3>1, <3>3, <3>4, <3>5, GoStep
  <2> QED
    BY <2>1, <2>2
<1> QED
  BY <1>3, <1>4, <1>5, <1>6

LEMMA AnswersManifest ==
    ASSUME SignInv, FilesTyped, AnswersInv, NEW c \in Cli,
           WriteManifest(c) \/ Unlink(c) \/ Restore(c) \/ Kill(c)
    PROVE  AnswersInv'
<1> DEFINE s == op[c].svc
<1>0. /\ pc \in [Cli -> Pcs] /\ OpTyped(op[c]) /\ c \in Busy /\ Where(c) /\ UNCHANGED lock
  BY DEF SignInv, LockTyped, WriteManifest, Unlink, Restore, Kill, Busy, At, AnswersInv, files,
     PutManifest
<1>1. c \notin clash => Alone(c)
  BY <1>0 DEF AnswersInv
<1>2. ASSUME Fail(c), UNCHANGED manifest, ~Written(c) PROVE AnswersInv'
  <2>1. s \in Services /\ c \notin clash => Holds(told[s], manifest[s], lock.entries[s])
    BY <1>1, <1>2 DEF Alone
  <2> QED
    BY <1>0, <1>2, <2>1, FailStep
<1>3. ASSUME Abandon(c), UNCHANGED manifest PROVE AnswersInv'
  BY <1>0, <1>3, AbandonStep
<1>4. ASSUME At(c, "manifest") \/ At(c, "unlink"),
             NEW v, PutManifest(s, v), v = IF At(c, "manifest") THEN op[c].ver ELSE None,
             Goto(c, "lockfile"), UNCHANGED <<op, copy, old, ops, told, clash>>
      PROVE  AnswersInv'
  <2>1. /\ s \in Services /\ Restores(c)
        /\ At(c, "manifest") <=> Is(c, Installs)
        /\ At(c, "manifest") <=> ~Is(c, {"remove"})
    BY <1>0, <1>4 DEF Where, OpTyped, At, Is, Installs, Restores
  <2>2. manifest'[s] = v /\ \A r \in Services : r # s => manifest'[r] = manifest[r]
    BY <1>4, <2>1 DEF PutManifest, FilesTyped
  <2>3. pc'[c] = "lockfile" /\ "lockfile" \in Pcs \ {"idle"}
    BY <1>0, <1>4 DEF Goto, Pcs
  <2>4. HasCopy(c) /\ Where(c)'
    BY <1>0, <1>4, <2>3 DEF HasCopy, Where, At, Is
  <2>5. c \notin clash => Alone(c)'
    <3> SUFFICES ASSUME c \notin clash PROVE Alone(c)'
      OBVIOUS
    <3>1. Holds(told[s], old[c], lock.entries[s]) /\ copy[c] = lock
      BY <1>1, <1>4, <2>1, <2>4 DEF Alone, Written, At
    <3>2. /\ (At(c, "lockfile") /\ Is(c, Installs))' => v = op[c].ver
          /\ (At(c, "lockfile") /\ Is(c, {"remove"}))' => v = None
          /\ ~At(c, "lock")' /\ ~At(c, "manifest")' /\ ~At(c, "unlink")'
          /\ (Written(c) /\ Restores(c))'
      BY <1>4, <2>1, <2>3 DEF At, Is, Written, Restores
    <3> QED
      BY <1>0, <1>4, <2>2, <3>1, <3>2 DEF Alone
  <2> QED
    BY <1>0, <1>4, <2>2, <2>3, <2>4, <2>5, GoStep
<1>5. CASE WriteManifest(c)
  BY <1>2, <1>4, <1>5 DEF WriteManifest, Written, At, files
<1>6. CASE Unlink(c)
  BY <1>2, <1>4, <1>6 DEF Unlink, Written, At, files
<1>7. CASE Restore(c)
  <2>1. CASE PutManifest(s, old[c]) /\ Fail(c)
    <3>1. s \in Services /\ Restores(c) /\ Written(c)
      BY <1>0, <1>7 DEF Restore, Where, OpTyped, Is, Installs, Restores, Written
    <3>2. manifest'[s] = old[c] /\ \A r \in Services : r # s => manifest'[r] = manifest[r]
      BY <2>1, <3>1 DEF PutManifest, FilesTyped
    <3>3. c \notin clash => Holds(told[s], old[c], lock.entries[s])
      BY <1>1, <3>1 DEF Alone
    <3> QED
      BY <1>0, <2>1, <3>2, <3>3, FailStep
  <2>2. CASE Abandon(c) /\ UNCHANGED files
    BY <1>3, <2>2 DEF files
  <2> QED
    BY <1>7, <2>1, <2>2 DEF Restore, Restored
<1>8. CASE Kill(c)
  BY <1>3, <1>8 DEF Kill, files
<1> QED
  BY <1>5, <1>6, <1>7, <1>8

\* What a command that succeeds answers.
LEMMA Answered ==
    ASSUME SignInv, AnswersInv, NEW c \in Busy, op[c].svc \in Services
    PROVE  LET o == op[c]
               t == told[o.svc]
           IN  /\ Answer(o) \in Told \cup {None}
               /\ o.kind \in Installs => Answer(o) = [ver |-> o.ver, on |-> o.on]
               /\ o.kind \in Toggles /\ t \notin {None, Unknown} =>
                     /\ Answer(o).ver = t.ver /\ Answer(o).on = (o.kind = "enable")
                     /\ Answer(o) # None
               /\ o.kind \in Toggles /\ t \in {None, Unknown} => Answer(o) = Unknown
               /\ o.kind \notin Installs \cup Toggles => Answer(o) = None
<1> DEFINE o == op[c]
           t == told[o.svc]
           on == o.kind = "enable"
<1>0. o \in Op /\ (o.kind \in Installs => o.ver \in Versions) /\ t \in Told \cup {None}
      /\ on \in BOOLEAN
  BY DEF SignInv, LockTyped, OpTyped, AnswersInv, Busy
<1> HIDE DEF t, on
<1>1. CASE o.kind \in Installs
  <2>1. Answer(o) = [ver |-> o.ver, on |-> o.on] /\ o.kind \notin Toggles
    BY <1>1 DEF Answer, Installs, Toggles
  <2>2. [ver |-> o.ver, on |-> o.on] \in Told
    BY <1>0, <1>1 DEF Told, Op
  <2> QED
    BY <1>1, <2>1, <2>2
<1>2. CASE o.kind \in Toggles /\ t \notin {None, Unknown}
  <2>1. Answer(o) = [t EXCEPT !.on = on] /\ o.kind \notin Installs
    BY <1>2 DEF Answer, Installs, Toggles, t, on
  <2>2. LET a == [t EXCEPT !.on = on] IN a \in Told /\ a.ver = t.ver /\ a.on = on
    BY <1>0, <1>2 DEF Told
  <2>3. Answer(o) # None
    BY <2>1, <2>2, UnknownTold
  <2> QED
    BY <1>2, <2>1, <2>2, <2>3 DEF t, on
<1>3. CASE o.kind \in Toggles /\ t \in {None, Unknown}
  <2>1. Answer(o) = Unknown /\ o.kind \notin Installs
    BY <1>3 DEF Answer, Installs, Toggles, t
  <2> QED
    BY <1>3, <2>1, UnknownTold DEF t
<1>4. CASE o.kind \notin Installs \cup Toggles
  BY <1>4 DEF Answer
<1> QED
  BY <1>1, <1>2, <1>3, <1>4 DEF t

LEMMA AnswersWriteLock ==
    ASSUME SignInv, FilesTyped, AnswersInv, NEW c \in Cli, WriteLock(c)
    PROVE  AnswersInv'
<1> DEFINE o == op[c]
           s == o.svc
<1>0. /\ pc \in [Cli -> Pcs] /\ OpTyped(o) /\ c \in Busy /\ Where(c) /\ At(c, "lockfile")
      /\ HasCopy(c) /\ Written(c) /\ UNCHANGED manifest /\ o.kind # "none"
      /\ told \in [Services -> Told \cup {None}]
  BY DEF SignInv, LockTyped, WriteLock, Busy, At, Is, AnswersInv, files, HasCopy, Written
<1>1. c \notin clash => Alone(c) /\ copy[c] = lock
  BY <1>0 DEF AnswersInv, Alone
<1>2. s \in Services <=> o.kind # "sign"
  BY <1>0, FilesAssumption DEF OpTyped, Where, Is
<1>3. CASE NothingToDo(c) /\ Fail(c) /\ old[c] = None /\ UNCHANGED files
  <2>1. s \in Services /\ c \notin clash => Holds(told[s], manifest[s], lock.entries[s])
    BY <1>0, <1>1, <1>3 DEF Alone, NothingToDo, Is, Restores
  <2> QED
    BY <1>0, <1>3, <2>1, FailStep DEF files
<1>4. ASSUME Succeed(c), \A r \in Services : r # s =>
                ((told[r] # Unknown /\ (\A d \in Busy : op[d].svc # r)) =>
                    Agree(lock'.entries[r], lock.entries[r])),
             s \in Services /\ c \notin clash => Holds(Answer(o), manifest[s], lock'.entries[s])
      PROVE  AnswersInv'
  <2> DEFINE a == IF c \in clash THEN Unknown ELSE Answer(o)
  <2>1. told' = [r \in Services |-> IF r \in About(o) THEN a ELSE told[r]] /\ Leave(c)
    BY <1>4 DEF Succeed, Tell
  <2>2. s \in Services => a \in Told \cup {None}
    BY <1>0, Answered, UnknownTold
  <2> HIDE DEF a
  <2>3. told' \in [Services -> Told \cup {None}]
    BY <1>0, <2>1, <2>2 DEF About
  <2>4. \A r \in Services : r # s => told'[r] = told[r]
    BY <2>1 DEF About
  <2>5. s \in Services => told'[s] = a
    BY <2>1 DEF About
  <2>6. s \in Services => IF c \in clash THEN told'[s] = Unknown
                          ELSE Holds(told'[s], manifest'[s], lock'.entries[s])
    BY <1>0, <1>4, <2>5 DEF a
  <2> QED
    BY <1>0, <1>4, <2>1, <2>3, <2>4, <2>6, EndStep
<1>5. CASE NothingToDo(c) /\ Succeed(c) /\ UNCHANGED files
  <2>1. o.kind = "remove" /\ copy[c].entries[s] = None /\ s \in Services
    BY <1>2, <1>5 DEF NothingToDo, Is
  <2>2. Answer(o) = None
    BY <1>0, <2>1, Answered DEF Installs, Toggles
  <2>3. c \notin clash => Holds(None, manifest[s], lock.entries[s])
    BY <1>0, <1>1, <2>1 DEF Alone, Is, Holds
  <2>4. \A r \in Services : Agree(lock'.entries[r], lock.entries[r])
    BY <1>5 DEF Agree, files
  <2> QED
    BY <1>4, <1>5, <2>2, <2>3, <2>4 DEF files
<1>6. CASE lock' = Changed(c) /\ Succeed(c)
  <2>1. ASSUME NEW r \in Services, r # s, told[r] # Unknown, \A d \in Busy : op[d].svc # r
        PROVE  Agree(lock'.entries[r], lock.entries[r])
    <3>1. Agree(copy[c].entries[r], lock.entries[r])
      BY <1>0, <2>1 DEF AnswersInv, Undisturbed
    <3>2. Agree(Changed(c).entries[r], copy[c].entries[r])
      BY <1>0, <2>1, ChangedEntries
    <3> QED
      BY <1>6, <3>1, <3>2 DEF Agree
  <2>2. ASSUME s \in Services, c \notin clash
        PROVE  Holds(Answer(o), manifest[s], lock'.entries[s])
    <3> DEFINE e == lock'.entries[s]
               f == lock.entries[s]
    <3>1. /\ o.kind \in Installs => e # None /\ e.digest = o.ver /\ e.enabled = o.on
          /\ o.kind = "remove" => e = None
          /\ o.kind \in Toggles =>
                /\ e # None /\ f # None
                /\ e.digest = f.digest /\ e.enabled = (o.kind = "enable")
      BY <1>0, <1>1, <1>6, <2>2, ChangedEntries
    <3> HIDE DEF e, f
    <3>2. CASE o.kind \in Installs
      <4>1. manifest[s] = o.ver
        BY <1>0, <1>1, <2>2, <3>2 DEF Alone, Is
      <4>2. Answer(o) = [ver |-> o.ver, on |-> o.on]
        BY <1>0, <2>2, <3>2, Answered
      <4>3. Answer(o) # None
        <5>1. [ver |-> o.ver, on |-> o.on] \in Told
          BY <1>0, <3>2 DEF OpTyped, Op, Told
        <5> QED
          BY <4>2, <5>1, UnknownTold
      <4>4. Answer(o).ver = o.ver /\ Answer(o).on = o.on
        BY <4>2
      <4> QED
        BY <3>1, <3>2, <4>1, <4>3, <4>4 DEF Holds, e
    <3>3. CASE o.kind = "remove"
      <4>1. manifest[s] = None
        BY <1>0, <1>1, <2>2, <3>3 DEF Alone, Is
      <4>2. Answer(o) = None
        BY <1>0, <2>2, <3>3, Answered DEF Installs, Toggles
      <4> QED
        BY <3>1, <3>3, <4>1, <4>2 DEF Holds, e
    <3>4. CASE o.kind \in Toggles
      <4>1. Holds(told[s], manifest[s], f)
        <5>1. ~Restores(c)
          BY <3>4 DEF Restores, Is, Installs, Toggles
        <5> QED
          BY <1>1, <2>2, <5>1 DEF Alone, f
      <4>2. CASE told[s] \in {None, Unknown}
        <5>1. Answer(o) = Unknown
          BY <1>0, <2>2, <3>4, <4>2, Answered
        <5> QED
          BY <5>1 DEF Holds
      <4>3. CASE told[s] \notin {None, Unknown}
        <5>1. /\ Answer(o).ver = told[s].ver /\ Answer(o).on = (o.kind = "enable")
              /\ Answer(o) # None
          BY <1>0, <2>2, <3>4, <4>3, Answered
        <5>2. manifest[s] = told[s].ver /\ f.digest = told[s].ver
          BY <4>1, <4>3 DEF Holds
        <5> QED
          BY <3>1, <3>4, <5>1, <5>2 DEF Holds, e
      <4> QED
        BY <4>2, <4>3
    <3> QED
      BY <1>0, <1>2, <2>2, <3>2, <3>3, <3>4 DEF OpTyped, Op
  <2> QED
    BY <1>4, <1>6, <2>1, <2>2
<1>7. CASE Restores(c) /\ Goto(c, "restore") /\ UNCHANGED <<files, op, copy, old, ops, told, clash>>
  <2>1. pc'[c] = "restore" /\ "restore" \in Pcs \ {"idle"} /\ UNCHANGED <<lock, manifest>>
    BY <1>0, <1>7 DEF Goto, Pcs, files
  <2>2. Where(c)'
    BY <1>0, <1>7, <2>1 DEF Where, At, Is, Restores
  <2>3. c \notin clash => Alone(c)'
    BY <1>0, <1>1, <1>7, <2>1 DEF Alone, At, Is, Written, Restores
  <2> QED
    BY <1>0, <1>7, <2>1, <2>2, <2>3, GoStep
<1>8. CASE ~Restores(c) /\ Fail(c) /\ UNCHANGED files
  <2>1. s \in Services /\ c \notin clash => Holds(told[s], manifest[s], lock.entries[s])
    BY <1>1, <1>8 DEF Alone
  <2> QED
    BY <1>0, <1>8, <2>1, FailStep DEF files
<1> QED
  BY <1>3, <1>5, <1>6, <1>7, <1>8 DEF WriteLock

FilesInv == SignInv /\ FilesTyped /\ AnswersInv

LEMMA FilesInvStep == FilesInv /\ [Next]_vars => FilesInv'
<1> SUFFICES ASSUME FilesInv, [Next]_vars PROVE FilesInv'
  OBVIOUS
<1>1. CASE UNCHANGED <<files, commands>>
  <2>1. SignInv'
    BY <1>1, SignStep DEF FilesInv
  <2>2. FilesTyped'
    BY <1>1 DEF FilesInv, FilesTyped, files, commands
  <2>3. AnswersInv'
    BY <1>1 DEF FilesInv, files, commands, AnswersInv, Together, Where, Undisturbed, Alone, Holds,
       HasCopy, Written, Restores, Busy, At, Is, Agree
  <2> QED
    BY <2>1, <2>2, <2>3 DEF FilesInv
<1>2. ASSUME NEW c \in Cli, CommandStep(c) PROVE FilesInv'
  <2>1. SignInv'
    BY <1>2, CommandSigned DEF FilesInv
  <2>2. FilesTyped'
    BY <1>2, FilesTypedStep DEF FilesInv, SignInv, AnswersInv
  <2>3. AnswersInv'
    BY <1>2, AnswersBegin, AnswersReading, AnswersManifest, AnswersWriteLock DEF FilesInv, CommandStep
  <2> QED
    BY <2>1, <2>2, <2>3 DEF FilesInv
<1> QED
  BY <1>1, <1>2 DEF Next, vars

LEMMA FilesInvHolds == Spec => []FilesInv
<1>1. Init => FilesInv
  BY SignInit, FilesTypedInit, AnswersInit DEF FilesInv
<1> QED
  BY <1>1, FilesInvStep, PTL DEF Spec

(***************************************************************************)
(* When no command runs, every service is as the commands for it have      *)
(* answered, for any number of services and of commands that overlap, fail *)
(* half-way and die (installer.go:129, 220).                               *)
(***************************************************************************)
THEOREM AnswersAreTrue == Spec => []AnswersHold
<1>1. ASSUME FilesInv PROVE AnswersHold
  <2> SUFFICES ASSUME Busy = {}, NEW s \in Services
               PROVE  LET e == lock.entries[s]
                          t == told[s]
                      IN  CASE t = Unknown -> TRUE
                            [] t = None -> manifest[s] = None /\ e = None
                            [] OTHER -> manifest[s] = t.ver /\ e # None /\ e.digest = t.ver
                                        /\ e.enabled = t.on
    BY DEF AnswersHold
  <2>1. Holds(told[s], manifest[s], lock.entries[s])
    BY <1>1 DEF FilesInv, AnswersInv, Undisturbed
  <2>2. CASE told[s] = Unknown
    BY <2>2, UnknownTold
  <2>3. CASE told[s] = None
    BY <2>1, <2>3, UnknownTold DEF Holds
  <2>4. CASE told[s] \notin {None, Unknown}
    BY <2>1, <2>4 DEF Holds
  <2> QED
    BY <2>2, <2>3, <2>4
<1> QED
  BY <1>1, FilesInvHolds, PTL

------------------------------------------------------------------------------
(***************************************************************************)
(* A cache that is kept is current.                                        *)
(***************************************************************************)
\* The fingerprint is of the lockfile and of the manifest of s there are now.
Matches(fp, s) == fp.lock = ltime /\ fp.files[s] = Stamps[s] /\ fp.files[s] # 0

NotWrong(s) == Enabled(s) => VerdictNow(s) # "error"

Prints == [files : [Services -> Nat], lock : Nat]
Bounded(fp) == fp.lock <= ltime /\ \A s \in Services : fp.files[s] <= mtime[s]

RegistryTyped ==
    /\ cache \in [Services -> Versions \cup {None}] \cup {Nobody}
    /\ cachedAt \in Prints /\ print \in Prints
    /\ names \subseteq Services /\ view \subseteq Services
    /\ found \in [Services -> Versions \cup {None}]
    /\ seen \in [svc : Services \cup {None}, digest : Versions \cup {None}, entry : Entries \cup {None}]

Verifying == at \in {"verify", "entry", "key"}

Stages ==
    /\ at \in {"idle", "scan", "stat", "dir"} => found = NothingServed
    /\ Verifying /\ Unchecked => names = {}
    /\ at \in {"entry", "key"} => seen.svc \in names

\* What a listing has found of a service whose files have not changed since it
\* took their fingerprint.
LoadingRight(s) ==
    /\ at = "lock" => s \in names /\ found[s] = None
    /\ at = "read" =>
          /\ s \in view <=> EnabledIn(lock, s)
          /\ found[s] = IF s \in view \ names THEN manifest[s] ELSE None
    /\ Verifying /\ s \in names => Enabled(s) /\ found[s] = manifest[s]
    /\ Verifying /\ s \notin names => NotWrong(s) /\ found[s] = ServedNow[s]
    /\ at \in {"entry", "key"} /\ seen.svc = s => seen.digest = manifest[s]
    /\ at = "key" /\ seen.svc = s => seen.entry = lock.entries[s]

CacheInv ==
    /\ RegistryTyped /\ Bounded(cachedAt) /\ Bounded(print) /\ Stages
    /\ \A s \in Services : manifest[s] # None => mtime[s] > 0
    /\ cache # Nobody =>
          \A s \in Services : Matches(cachedAt, s) => NotWrong(s) /\ cache[s] = ServedNow[s]
    /\ request = "list" => \A s \in Services : Matches(print, s) => LoadingRight(s)

LEMMA NoPrint == FilesTyped => NoFingerprint \in Prints /\ Bounded(NoFingerprint)
  BY DEF NoFingerprint, Prints, Bounded, FilesTyped

LEMMA CacheInit == Init => CacheInv
<1> SUFFICES ASSUME Init PROVE CacheInv
  OBVIOUS
<1>0. /\ cache = Nobody /\ cachedAt = NoFingerprint /\ print = NoFingerprint
      /\ request = "none" /\ at = "idle"
      /\ names = {} /\ view = {} /\ found = NothingServed /\ seen = NotSeen
  BY DEF Init
<1>1. FilesTyped
  BY FilesTypedInit
<1>2. RegistryTyped /\ Bounded(cachedAt) /\ Bounded(print)
  BY <1>0, <1>1, NoPrint DEF RegistryTyped, NothingServed, NotSeen
<1>3. \A s \in Services : manifest[s] # None => mtime[s] > 0
  BY DEF Init, FilesInit, Nothing, Installed
<1> QED
  BY <1>0, <1>2, <1>3 DEF CacheInv, Stages, Verifying

(***************************************************************************)
(* What a command changes, the fingerprint tells.                          *)
(***************************************************************************)
\* Each file is as it was, or has a later modification time.
Newer ==
    /\ \A s \in Services :
          \/ manifest'[s] = manifest[s] /\ mtime'[s] = mtime[s]
          \/ mtime'[s] = mtime[s] + 1
    /\ (lock' = lock /\ ltime' = ltime) \/ ltime' = ltime + 1

LEMMA CommandNewer ==
    ASSUME LockTyped, FilesTyped, NEW c \in Cli, Where(c), CommandStep(c)
    PROVE  Newer
<1>1. ASSUME UNCHANGED files PROVE Newer
  BY <1>1 DEF Newer, files
<1>2. ASSUME NEW v, PutManifest(op[c].svc, v), op[c].svc \in Services PROVE Newer
  BY <1>2 DEF Newer, PutManifest, FilesTyped
<1>3. At(c, "manifest") \/ At(c, "unlink") \/ At(c, "restore") => op[c].svc \in Services
  BY DEF LockTyped, OpTyped, Where, Is, At, Installs
<1>4. CASE WriteManifest(c) \/ Unlink(c) \/ Restore(c)
  BY <1>1, <1>2, <1>3, <1>4 DEF WriteManifest, Unlink, Restore
<1>5. CASE WriteLock(c)
  <2>1. CASE UNCHANGED files
    BY <1>1, <2>1
  <2>2. CASE ltime' = ltime + 1 /\ UNCHANGED <<manifest, mtime>>
    BY <2>2 DEF Newer
  <2> QED
    BY <1>5, <2>1, <2>2 DEF WriteLock
<1>6. CASE (\E o \in Inputs : Begin(c, o)) \/ GetEnabled(c) \/ Get(c) \/ Stat(c) \/ ReadOld(c)
           \/ ReadLock(c) \/ Kill(c)
  BY <1>1, <1>6 DEF Begin, GetEnabled, Get, Stat, ReadOld, ReadLock, Kill
<1> QED
  BY <1>4, <1>5, <1>6 DEF CommandStep

LEMMA StillMatches ==
    ASSUME FilesTyped, Newer, NEW fp \in Prints, Bounded(fp)
    PROVE  /\ Bounded(fp)'
           /\ \A s \in Services :
                 Matches(fp, s)' => /\ Matches(fp, s) /\ manifest'[s] = manifest[s]
                                    /\ lock' = lock
<1>1. Bounded(fp)'
  BY DEF Newer, Bounded, FilesTyped, Prints
<1>2. ASSUME NEW s \in Services, Matches(fp, s)'
      PROVE  Matches(fp, s) /\ manifest'[s] = manifest[s] /\ lock' = lock
  <2>1. fp.lock = ltime' /\ fp.files[s] = Stamps'[s] /\ fp.files[s] # 0
    BY <1>2 DEF Matches
  <2>2. lock' = lock /\ ltime' = ltime
    BY <2>1 DEF Newer, Bounded, FilesTyped, Prints
  <2>3. manifest'[s] # None /\ fp.files[s] = mtime'[s]
    BY <2>1 DEF Stamps
  <2>4. manifest'[s] = manifest[s] /\ mtime'[s] = mtime[s]
    BY <2>3 DEF Newer, Bounded, FilesTyped, Prints
  <2> QED
    BY <2>1, <2>2, <2>3, <2>4 DEF Matches, Stamps
<1> QED
  BY <1>1, <1>2

LEMMA CacheCommand ==
    ASSUME FilesTyped, CacheInv, Newer, UNCHANGED registry, FilesTyped'
    PROVE  CacheInv'
<1>0. UNCHANGED <<mode, cache, cachedAt, request, at, names, view, found, seen, print>>
  BY DEF registry
<1>1. RegistryTyped' /\ Stages'
  BY <1>0 DEF CacheInv, RegistryTyped, Stages, Verifying, Unchecked, Required
<1>2. cachedAt \in Prints /\ print \in Prints /\ Bounded(cachedAt) /\ Bounded(print)
  BY DEF CacheInv, RegistryTyped
<1>3. Bounded(cachedAt)' /\ Bounded(print)'
  BY <1>0, <1>2, StillMatches DEF Bounded
<1>4. \A s \in Services : manifest'[s] # None => mtime'[s] > 0
  BY DEF CacheInv, Newer, FilesTyped
<1>5. ASSUME NEW s \in Services, manifest'[s] = manifest[s], lock' = lock
      PROVE  /\ NotWrong(s)' = NotWrong(s) /\ ServedNow'[s] = ServedNow[s]
             /\ LoadingRight(s) => LoadingRight(s)'
  <2>1. /\ Enabled(s)' = Enabled(s) /\ VerdictNow(s)' = VerdictNow(s)
        /\ EnabledIn(lock, s)' = EnabledIn(lock, s)
    BY <1>0, <1>5 DEF Enabled, VerdictNow, EnabledIn, Unchecked, Required, Strict, Verdict, Verified,
       SignedBy, SigOf
  <2>2. NotWrong(s)' = NotWrong(s) /\ ServedNow'[s] = ServedNow[s]
    BY <1>5, <2>1 DEF NotWrong, ServedNow
  <2> QED
    BY <1>0, <1>5, <2>1, <2>2 DEF LoadingRight, Verifying
<1>6. ASSUME cache' # Nobody, NEW s \in Services, Matches(cachedAt, s)'
      PROVE  NotWrong(s)' /\ cache'[s] = ServedNow'[s]
  <2>1. Matches(cachedAt, s) /\ manifest'[s] = manifest[s] /\ lock' = lock
    BY <1>0, <1>2, <1>6, StillMatches DEF Matches
  <2> QED
    BY <1>0, <1>5, <1>6, <2>1 DEF CacheInv
<1>7. ASSUME request' = "list", NEW s \in Services, Matches(print, s)' PROVE LoadingRight(s)'
  <2>1. Matches(print, s) /\ manifest'[s] = manifest[s] /\ lock' = lock
    BY <1>0, <1>2, <1>7, StillMatches DEF Matches
  <2> QED
    BY <1>0, <1>5, <1>7, <2>1 DEF CacheInv
<1> QED
  BY <1>1, <1>3, <1>4, <1>6, <1>7 DEF CacheInv

(***************************************************************************)
(* The steps of the server.                                                *)
(***************************************************************************)
LEMMA SameFiles ==
    ASSUME UNCHANGED <<files, mode>>
    PROVE  /\ Stamps' = Stamps /\ ServedNow' = ServedNow /\ Unchecked' = Unchecked
           /\ \A s : NotWrong(s)' = NotWrong(s) /\ Enabled(s)' = Enabled(s)
           /\ UNCHANGED <<manifest, lock, mtime, ltime>>
  BY DEF files, Stamps, ServedNow, NotWrong, Enabled, EnabledIn, VerdictNow, Unchecked, Required,
     Strict, Verdict, Verified, SignedBy, SigOf

\* A step that keeps the cache, and of a load what it has found.
LEMMA LoadStep ==
    ASSUME CacheInv, UNCHANGED <<files, mode, cache, cachedAt>>, RegistryTyped', Bounded(print)', Stages',
           request' = "list" => \A s \in Services : Matches(print, s)' => LoadingRight(s)'
    PROVE  CacheInv'
<1>1. Bounded(cachedAt)' /\ \A s \in Services : Matches(cachedAt, s)' = Matches(cachedAt, s)
  BY SameFiles DEF CacheInv, Bounded, Matches
<1>2. \A s \in Services : manifest'[s] # None => mtime'[s] > 0
  BY SameFiles DEF CacheInv
<1>3. cache' # Nobody =>
         \A s \in Services : Matches(cachedAt, s)' => NotWrong(s)' /\ cache'[s] = ServedNow'[s]
  BY <1>1, SameFiles DEF CacheInv
<1> QED
  BY <1>1, <1>2, <1>3 DEF CacheInv

LEMMA ForgetTyped ==
    ASSUME FilesTyped, CacheInv, Forget, UNCHANGED files,
           cache' \in [Services -> Versions \cup {None}] \cup {Nobody}, cachedAt' \in Prints
    PROVE  RegistryTyped' /\ Bounded(print)' /\ Stages' /\ request' = "none"
<1>1. print' = NoFingerprint /\ NoFingerprint \in Prints /\ Bounded(NoFingerprint)
  BY NoPrint DEF Forget
<1>2. Bounded(print)'
  BY <1>1 DEF Bounded, files
<1>3. RegistryTyped'
  BY <1>1 DEF Forget, RegistryTyped, NothingServed, NotSeen
<1> QED
  BY <1>2, <1>3 DEF Forget, Stages, Verifying

LEMMA GiveUpStep ==
    ASSUME FilesTyped, CacheInv, GiveUp, UNCHANGED files
    PROVE  CacheInv'
<1>1. Forget /\ UNCHANGED <<mode, cache, cachedAt>>
  BY DEF GiveUp
<1>2. RegistryTyped' /\ Bounded(print)' /\ Stages' /\ request' = "none"
  BY <1>1, ForgetTyped DEF CacheInv, RegistryTyped
<1> QED
  BY <1>1, <1>2, LoadStep

LEMMA CacheListing ==
    ASSUME FilesTyped, CacheInv, UNCHANGED files,
           BeginList \/ Scan \/ ScanLock \/ ReadDir \/ (\E s \in Services : BeginLookup(s))
    PROVE  CacheInv'
<1>0. RegistryTyped /\ Bounded(print) /\ UNCHANGED <<manifest, lock, mtime, ltime>>
  BY DEF CacheInv, files
<1>1. CASE BeginList
  <2>1. /\ at = "idle" /\ at' = "scan" /\ UNCHANGED <<mode, cache, cachedAt, print, names, view, found, seen>>
    BY <1>1 DEF BeginList, server
  <2>2. RegistryTyped' /\ Bounded(print)' /\ Stages' /\ \A s \in Services : LoadingRight(s)'
    BY <1>0, <2>1 DEF CacheInv, RegistryTyped, Bounded, Stages, Verifying, LoadingRight
  <2> QED
    BY <2>1, <2>2, LoadStep
<1>2. CASE Scan
  <2>1. /\ at = "scan" /\ at' = "stat" /\ UNCHANGED <<mode, cache, cachedAt, names, view, found, seen>>
        /\ print' = [files |-> Stamps, lock |-> 0]
    BY <1>2 DEF Scan
  <2>2. Stamps \in [Services -> Nat] /\ \A s \in Services : Stamps[s] <= mtime[s]
    BY DEF Stamps, FilesTyped
  <2>3. print' \in Prints /\ print'.files = Stamps /\ print'.lock = 0
    BY <2>1, <2>2 DEF Prints
  <2>4. Bounded(print)'
    BY <1>0, <2>2, <2>3 DEF Bounded, FilesTyped
  <2>5. RegistryTyped' /\ Stages' /\ \A s \in Services : LoadingRight(s)'
    BY <1>0, <2>1, <2>3 DEF CacheInv, RegistryTyped, Stages, Verifying, LoadingRight
  <2> QED
    BY <2>1, <2>4, <2>5, LoadStep
<1>3. CASE ScanLock
  <2>1. CASE GiveUp
    BY <2>1, GiveUpStep
  <2>2. CASE ~GiveUp
    <3>1. /\ at = "stat" /\ at' = "dir" /\ UNCHANGED <<mode, cache, cachedAt, names, view, found, seen>>
          /\ print' = [print EXCEPT !.lock = ltime]
      BY <1>3, <2>2 DEF ScanLock
    <3>2. print' \in Prints /\ print'.files = print.files /\ print'.lock = ltime
      BY <1>0, <3>1 DEF RegistryTyped, Prints, FilesTyped
    <3>3. Bounded(print)'
      BY <1>0, <3>2 DEF Bounded, FilesTyped
    <3>4. RegistryTyped' /\ Stages' /\ \A s \in Services : LoadingRight(s)'
      BY <1>0, <3>1, <3>2 DEF CacheInv, RegistryTyped, Stages, Verifying, LoadingRight
    <3> QED
      BY <3>1, <3>3, <3>4, LoadStep
  <2> QED
    BY <2>1, <2>2
<1>4. CASE ReadDir
  <2>1. /\ at' = "lock" /\ UNCHANGED <<mode, cache, cachedAt, print, request, view, found, seen>>
        /\ names' = {s \in Services : manifest[s] # None}
        /\ found = NothingServed
    BY <1>4 DEF ReadDir, server, CacheInv, Stages
  <2>2. RegistryTyped' /\ Bounded(print)' /\ Stages'
    BY <1>0, <2>1 DEF RegistryTyped, Bounded, Stages, Verifying
  <2>3. ASSUME NEW s \in Services, Matches(print, s)' PROVE LoadingRight(s)'
    <3>1. manifest[s] # None
      BY <1>0, <2>1, <2>3 DEF Matches, Stamps
    <3>2. s \in names' /\ found'[s] = None
      BY <2>1, <3>1 DEF NothingServed
    <3> QED
      BY <2>1, <3>2 DEF LoadingRight, Verifying
  <2> QED
    BY <2>1, <2>2, <2>3, LoadStep
<1>5. ASSUME NEW r \in Services, BeginLookup(r) PROVE CacheInv'
  <2>1. /\ at' = "lock" /\ request' = "lookup" /\ names' = {r}
        /\ UNCHANGED <<mode, cache, cachedAt, print, view, found, seen>>
    BY <1>5 DEF BeginLookup, server
  <2>2. RegistryTyped' /\ Bounded(print)' /\ Stages'
    BY <1>0, <2>1 DEF RegistryTyped, Bounded, Stages, Verifying
  <2> QED
    BY <2>1, <2>2, LoadStep
<1> QED
  BY <1>1, <1>2, <1>3, <1>4, <1>5

\* Of a listing under way.
LEMMA LoadSays ==
    ASSUME CacheInv, UNCHANGED <<files, mode, print>>, request' = "list" => request = "list",
           RegistryTyped', Stages', UNCHANGED <<cache, cachedAt>>,
           \A s \in Services : Matches(print, s) /\ LoadingRight(s) => LoadingRight(s)'
    PROVE  CacheInv'
<1>1. Bounded(print)' /\ \A s \in Services : Matches(print, s)' = Matches(print, s)
  BY SameFiles DEF CacheInv, Bounded, Matches
<1>2. request' = "list" => \A s \in Services : Matches(print, s)' => LoadingRight(s)'
  BY <1>1 DEF CacheInv
<1> QED
  BY <1>1, <1>2, LoadStep

LEMMA MatchedIsThere ==
    ASSUME NEW s \in Services, Matches(print, s)
    PROVE  manifest[s] # None
  BY DEF Matches, Stamps

LEMMA CacheReading ==
    ASSUME FilesTyped, CacheInv, UNCHANGED files, ViewLock \/ ReadManifest
    PROVE  CacheInv'
<1>0. RegistryTyped /\ UNCHANGED <<manifest, lock, mtime, ltime>>
  BY DEF CacheInv, files
<1>1. CASE ViewLock
  <2>1. /\ at = "lock" /\ at' = "read"
        /\ UNCHANGED <<mode, cache, cachedAt, print, request, names, found, seen>>
        /\ view' = {s \in Services : EnabledIn(lock, s)}
    BY <1>1 DEF ViewLock, server
  <2>2. RegistryTyped' /\ Stages'
    BY <1>0, <2>1 DEF RegistryTyped, Stages, Verifying
  <2>3. ASSUME NEW s \in Services, LoadingRight(s) PROVE LoadingRight(s)'
    <3>1. s \in names /\ found[s] = None
      BY <2>1, <2>3 DEF LoadingRight
    <3>2. (s \in view' <=> EnabledIn(lock, s)) /\ EnabledIn(lock, s)' = EnabledIn(lock, s)
      BY <1>0, <2>1 DEF EnabledIn
    <3> QED
      BY <2>1, <3>1, <3>2 DEF LoadingRight, Verifying
  <2> QED
    BY <2>1, <2>2, <2>3, LoadSays
<1>2. CASE ReadManifest
  <2>1. CASE GiveUp
    BY <2>1, GiveUpStep
  <2>2. ASSUME NEW r \in names, manifest[r] # None, names' = names \ {r},
               found' = IF r \in view THEN [found EXCEPT ![r] = manifest[r]] ELSE found,
               UNCHANGED <<mode, cache, cachedAt, print, request, at, view, seen>>, at = "read"
        PROVE  CacheInv'
    <3>1. RegistryTyped' /\ Stages'
      BY <1>0, <2>2 DEF RegistryTyped, FilesTyped, Stages, Verifying
    <3>2. ASSUME NEW s \in Services, LoadingRight(s) PROVE LoadingRight(s)'
      <4>1. /\ s \in view <=> EnabledIn(lock, s)
            /\ found[s] = IF s \in view \ names THEN manifest[s] ELSE None
            /\ EnabledIn(lock, s)' = EnabledIn(lock, s)
        BY <1>0, <2>2, <3>2 DEF LoadingRight, EnabledIn
      <4>2. found'[s] = IF s \in view \ names' THEN manifest[s] ELSE None
        <5>1. CASE s = r
          BY <1>0, <2>2, <4>1, <5>1 DEF RegistryTyped
        <5>2. CASE s # r
          BY <1>0, <2>2, <4>1, <5>2 DEF RegistryTyped
        <5> QED
          BY <5>1, <5>2
      <4> QED
        BY <1>0, <2>2, <4>1, <4>2 DEF LoadingRight, Verifying
    <3> QED
      BY <2>2, <3>1, <3>2, LoadSays
  <2>3. CASE /\ names = {} /\ names' = IF Unchecked THEN {} ELSE {s \in Services : found[s] # None}
             /\ view' = {} /\ at' = "verify"
             /\ UNCHANGED <<server, request, found, seen>>
    <3>1. at = "read" /\ UNCHANGED <<mode, cache, cachedAt, print>> /\ Unchecked' = Unchecked
      BY <1>2, <2>3 DEF ReadManifest, server, Unchecked, Required
    <3>2. RegistryTyped' /\ Stages'
      BY <1>0, <2>3, <3>1 DEF RegistryTyped, Stages, Verifying
    <3>3. ASSUME NEW s \in Services, Matches(print, s), LoadingRight(s) PROVE LoadingRight(s)'
      <4>1. found[s] = IF Enabled(s) THEN manifest[s] ELSE None
        BY <2>3, <3>1, <3>3, MatchedIsThere DEF LoadingRight, Enabled
      <4>2. manifest[s] # None
        BY <3>3, MatchedIsThere
      <4>3. ServedNow[s] = IF Enabled(s) /\ VerdictNow(s) = "use" THEN manifest[s] ELSE None
        BY DEF ServedNow
      <4>4. Unchecked => VerdictNow(s) = "use"
        BY DEF VerdictNow
      <4>5. s \in names' => Enabled(s) /\ found[s] = manifest[s]
        BY <2>3, <4>1
      <4>6. s \notin names' => NotWrong(s) /\ found[s] = ServedNow[s]
        <5>1. CASE Unchecked
          BY <4>1, <4>3, <4>4, <5>1 DEF NotWrong
        <5>2. CASE ~Unchecked
          <6>1. s \notin names' => ~Enabled(s)
            BY <2>3, <4>1, <4>2, <5>2
          <6> QED
            BY <4>1, <4>3, <6>1 DEF NotWrong
        <5> QED
          BY <5>1, <5>2
      <4>7. /\ ServedNow' = ServedNow /\ NotWrong(s)' = NotWrong(s) /\ Enabled(s)' = Enabled(s)
            /\ manifest' = manifest /\ found' = found
        BY <2>3, <3>1, SameFiles
      <4> QED
        BY <2>3, <4>5, <4>6, <4>7 DEF LoadingRight
    <3> QED
      BY <2>3, <3>1, <3>2, <3>3, LoadSays
  <2> QED
    BY <1>2, <2>1, <2>2, <2>3 DEF ReadManifest, server
<1> QED
  BY <1>1, <1>2

\* The verdict is on what the files say now, if they have not changed.
LEMMA DecideStep ==
    ASSUME FilesTyped, CacheInv, UNCHANGED files, at \in {"entry", "key"}, NEW verdict, Decide(verdict),
           verdict \in {"error", "skip", "use"},
           seen.svc \in Services /\ Matches(print, seen.svc) /\ LoadingRight(seen.svc) =>
              verdict = VerdictNow(seen.svc)
    PROVE  CacheInv'
<1> DEFINE r == seen.svc
<1>0. RegistryTyped /\ r \in names /\ names \subseteq Services
  BY DEF CacheInv, Stages, RegistryTyped
<1>1. CASE GiveUp
  BY <1>1, GiveUpStep
<1>2. CASE ~GiveUp
  <2>1. /\ verdict # "error" /\ names' = names \ {r}
        /\ found' = IF verdict = "skip" THEN [found EXCEPT ![r] = None] ELSE found
        /\ seen' = NotSeen /\ at' = "verify"
        /\ UNCHANGED <<mode, cache, cachedAt, print, request, view>>
    BY <1>2 DEF Decide, server
  <2>2. RegistryTyped'
    BY <1>0, <2>1 DEF RegistryTyped, NotSeen
  <2>3. Stages'
    BY <2>1, SameFiles DEF CacheInv, Stages, Verifying
  <2>4. ASSUME NEW s \in Services, Matches(print, s), LoadingRight(s) PROVE LoadingRight(s)'
    <3>1. /\ s \in names => Enabled(s) /\ found[s] = manifest[s]
          /\ s \notin names => NotWrong(s) /\ found[s] = ServedNow[s]
      BY <2>4 DEF LoadingRight, Verifying
    <3>2. ServedNow[s] = IF Enabled(s) /\ VerdictNow(s) = "use" THEN manifest[s] ELSE None
      BY DEF ServedNow
    <3>3. /\ s \in names' => Enabled(s) /\ found'[s] = manifest[s]
          /\ s \notin names' => NotWrong(s) /\ found'[s] = ServedNow[s]
      <4>1. CASE s = r
        <5>1. verdict = VerdictNow(s) /\ Enabled(s) /\ found[s] = manifest[s]
          BY <1>0, <2>4, <3>1, <4>1
        <5>2. found'[s] = IF verdict = "skip" THEN None ELSE found[s]
          BY <1>0, <2>1, <4>1 DEF RegistryTyped
        <5>3. verdict \in {"skip", "use"} /\ s \notin names'
          BY <2>1, <4>1
        <5> QED
          BY <3>2, <5>1, <5>2, <5>3 DEF NotWrong
      <4>2. CASE s # r
        <5>1. found'[s] = found[s] /\ (s \in names' <=> s \in names)
          BY <1>0, <2>1, <4>2 DEF RegistryTyped
        <5> QED
          BY <3>1, <5>1
      <4> QED
        BY <4>1, <4>2
    <3>4. ServedNow' = ServedNow /\ NotWrong(s)' = NotWrong(s) /\ Enabled(s)' = Enabled(s)
          /\ manifest' = manifest
      BY <2>1, SameFiles
    <3> QED
      BY <2>1, <3>3, <3>4 DEF LoadingRight
  <2> QED
    BY <2>1, <2>2, <2>3, <2>4, LoadSays
<1> QED
  BY <1>1, <1>2

LEMMA CacheVerifying ==
    ASSUME LockTyped, FilesTyped, CacheInv, UNCHANGED files, VerifyManifest \/ VerifyEntry \/ VerifyKey
    PROVE  CacheInv'
<1>0. RegistryTyped /\ UNCHANGED <<manifest, lock, mtime, ltime>> /\ Stages
  BY DEF CacheInv, files
<1>1. ASSUME NEW digest, NEW e, NEW k PROVE Verdict(digest, e, k) \in {"error", "skip", "use"}
  BY DEF Verdict
<1>2. CASE VerifyManifest
  <2>1. PICK r \in names : seen' = [svc |-> r, digest |-> manifest[r], entry |-> None]
    BY <1>2 DEF VerifyManifest
  <2>2. /\ at = "verify" /\ at' = "entry"
        /\ UNCHANGED <<mode, cache, cachedAt, print, request, names, view, found>>
    BY <1>2 DEF VerifyManifest, server
  <2>3. seen'.svc = r /\ seen'.digest = manifest[r] /\ r \in Services
    BY <1>0, <2>1 DEF RegistryTyped
  <2>4. RegistryTyped'
    BY <1>0, <2>1, <2>2, <2>3 DEF RegistryTyped, FilesTyped
  <2>5. Stages'
    BY <1>0, <2>2, <2>3, SameFiles DEF Stages, Verifying
  <2>6. ASSUME NEW s \in Services, Matches(print, s), LoadingRight(s) PROVE LoadingRight(s)'
    <3>1. /\ s \in names => Enabled(s) /\ found[s] = manifest[s]
          /\ s \notin names => NotWrong(s) /\ found[s] = ServedNow[s]
      BY <2>2, <2>6 DEF LoadingRight, Verifying
    <3>2. ServedNow' = ServedNow /\ NotWrong(s)' = NotWrong(s) /\ Enabled(s)' = Enabled(s)
      BY <2>2, SameFiles
    <3> QED
      BY <1>0, <2>2, <2>3, <3>1, <3>2 DEF LoadingRight
  <2> QED
    BY <2>2, <2>4, <2>5, <2>6, LoadSays
<1>3. CASE VerifyEntry
  <2> DEFINE r == seen.svc
             e == lock.entries[r]
  <2>0. at = "entry" /\ r \in names /\ r \in Services /\ ~Unchecked
    BY <1>0, <1>3 DEF VerifyEntry, Stages, Verifying, RegistryTyped
  <2>1. CASE seen.digest = None /\ Decide(Unverified)
    <3>1. Unverified \in {"error", "skip", "use"}
      BY DEF Unverified
    <3>2. ~(Matches(print, r) /\ LoadingRight(r))
      BY <2>0, <2>1, MatchedIsThere DEF LoadingRight
    <3> QED
      BY <2>0, <2>1, <3>1, <3>2, DecideStep
  <2>2. CASE SigOf(e) = None /\ Decide(Verdict(seen.digest, e, None))
    <3>1. ASSUME LoadingRight(r) PROVE Verdict(seen.digest, e, None) = VerdictNow(r)
      <4>1. seen.digest = manifest[r]
        BY <2>0, <3>1 DEF LoadingRight
      <4> QED
        BY <2>0, <2>2, <4>1 DEF VerdictNow, Verdict, SignedBy
    <3> QED
      BY <1>1, <2>0, <2>2, <3>1, DecideStep
  <2>3. CASE /\ SigOf(e) # None /\ seen' = [seen EXCEPT !.entry = e] /\ at' = "key"
             /\ UNCHANGED <<server, request, names, view, found>>
    <3>1. UNCHANGED <<mode, cache, cachedAt, print>>
      BY <2>3 DEF server
    <3>2. e \in Entries \cup {None}
      BY <2>0 DEF LockTyped, Lockfiles
    <3> DEFINE f == e
    <3>3. seen' = [seen EXCEPT !.entry = f] /\ f \in Entries \cup {None}
      BY <2>3, <3>2
    <3> HIDE DEF f
    <3>4. /\ seen' \in [svc : Services \cup {None}, digest : Versions \cup {None},
                        entry : Entries \cup {None}]
          /\ seen'.svc = r /\ seen'.digest = seen.digest /\ seen'.entry = f
      BY <1>0, <3>3 DEF RegistryTyped
    <3>5. RegistryTyped'
      BY <1>0, <2>3, <3>1, <3>4 DEF RegistryTyped
    <3>6. Stages'
      BY <1>0, <2>0, <2>3, <3>1, <3>4, SameFiles DEF Stages, Verifying
    <3>7. ASSUME NEW s \in Services, LoadingRight(s) PROVE LoadingRight(s)'
      <4>1. /\ s \in names => Enabled(s) /\ found[s] = manifest[s]
            /\ s \notin names => NotWrong(s) /\ found[s] = ServedNow[s]
            /\ s = r => seen.digest = manifest[s]
        BY <2>0, <3>7 DEF LoadingRight, Verifying
      <4>2. ServedNow' = ServedNow /\ NotWrong(s)' = NotWrong(s) /\ Enabled(s)' = Enabled(s)
        BY <3>1, SameFiles
      <4>3. s = r => f = lock.entries[s]
        BY DEF f
      <4> QED
        BY <1>0, <2>3, <3>1, <3>4, <4>1, <4>2, <4>3 DEF LoadingRight
    <3> QED
      BY <2>3, <3>1, <3>5, <3>6, <3>7, LoadSays
  <2> QED
    BY <1>3, <2>1, <2>2, <2>3 DEF VerifyEntry
<1>4. CASE VerifyKey
  <2> DEFINE r == seen.svc
  <2>0. at = "key" /\ r \in names /\ r \in Services /\ ~Unchecked
    BY <1>0, <1>4 DEF VerifyKey, Stages, Verifying, RegistryTyped
  <2>1. ASSUME LoadingRight(r) PROVE Verdict(seen.digest, seen.entry, lock.key) = VerdictNow(r)
    BY <2>0, <2>1 DEF LoadingRight, VerdictNow
  <2> QED
    BY <1>1, <1>4, <2>0, <2>1, DecideStep DEF VerifyKey
<1> QED
  BY <1>2, <1>3, <1>4

LEMMA CacheFinish ==
    ASSUME FilesTyped, CacheInv, UNCHANGED files, Finish
    PROVE  CacheInv'
<1>0. RegistryTyped /\ Forget /\ mode' = mode /\ at = "verify" /\ names = {}
      /\ Bounded(print) /\ Bounded(cachedAt)
  BY DEF CacheInv, Finish
<1>1. CASE request = "lookup" /\ UNCHANGED <<cache, cachedAt>>
  BY <1>0, <1>1, GiveUpStep DEF GiveUp
<1>2. CASE request = "list" /\ cache' = found /\ cachedAt' = print
  <2>1. RegistryTyped' /\ Bounded(print)' /\ Stages' /\ request' = "none"
    BY <1>0, <1>2, ForgetTyped DEF RegistryTyped
  <2>2. Bounded(cachedAt)'
    BY <1>0, <1>2, SameFiles DEF Bounded
  <2>3. ASSUME NEW s \in Services, Matches(cachedAt, s)'
        PROVE  NotWrong(s)' /\ cache'[s] = ServedNow'[s]
    <3>1. Matches(print, s)
      BY <1>0, <1>2, <2>3, SameFiles DEF Matches
    <3>2. LoadingRight(s)
      BY <1>2, <3>1 DEF CacheInv
    <3>3. NotWrong(s) /\ found[s] = ServedNow[s]
      BY <1>0, <3>2 DEF LoadingRight, Verifying
    <3> QED
      BY <1>0, <1>2, <3>3, SameFiles
  <2>4. \A s \in Services : manifest'[s] # None => mtime'[s] > 0
    BY <1>0, SameFiles DEF CacheInv
  <2> QED
    BY <2>1, <2>2, <2>3, <2>4 DEF CacheInv
<1> QED
  BY <1>1, <1>2 DEF Finish, PrintKept

LEMMA CacheStep ==
    ASSUME FilesInv, CacheInv, [Next]_vars
    PROVE  CacheInv'
<1>0. LockTyped /\ FilesTyped /\ \A c \in Cli : Where(c)
  BY DEF FilesInv, SignInv, AnswersInv
<1>1. CASE UNCHANGED vars
  <2>1. Newer /\ UNCHANGED registry
    BY <1>1 DEF vars, files, Newer
  <2>2. FilesTyped'
    BY <1>0, <1>1 DEF vars, files, commands, FilesTyped
  <2> QED
    BY <1>0, <2>1, <2>2, CacheCommand
<1>2. ASSUME NEW c \in Cli, CommandStep(c), UNCHANGED registry PROVE CacheInv'
  <2>1. Newer /\ FilesTyped'
    BY <1>0, <1>2, CommandNewer, FilesTypedStep
  <2> QED
    BY <1>0, <1>2, <2>1, CacheCommand
<1>3. CASE Server /\ UNCHANGED <<files, commands>>
  BY <1>0, <1>3, CacheListing, CacheReading, CacheVerifying, CacheFinish DEF Server, GoOn
<1> QED
  BY <1>1, <1>2, <1>3 DEF Next

(***************************************************************************)
(* A cache whose fingerprint is still that of the directory is what a load *)
(* would find, for any number of services and of commands that change      *)
(* their files between any two of the load's reads, but for a manifest     *)
(* that came and went between them (ServiceProps).                         *)
(***************************************************************************)
THEOREM KeptCacheHolds == Spec => []KeptCacheIsCurrent
<1>1. ASSUME CacheInv PROVE KeptCacheIsCurrent
  <2> SUFFICES ASSUME cache # Nobody, cachedAt = Fingerprint, NEW s \in Services
               PROVE  /\ Enabled(s) => VerdictNow(s) # "error"
                      /\ Cached(s) = ServedNow[s] \/ CameAndWent(s)
    BY DEF KeptCacheIsCurrent, Loadable
  <2>0. cachedAt.files = Stamps /\ cachedAt.lock = ltime
    BY DEF Fingerprint
  <2>1. CASE manifest[s] = None
    BY <2>0, <2>1 DEF CameAndWent, Enabled, Stamps
  <2>2. CASE manifest[s] # None
    <3>1. mtime[s] > 0 /\ Stamps[s] = mtime[s]
      BY <1>1, <2>2 DEF CacheInv, Stamps
    <3>2. Matches(cachedAt, s)
      BY <2>0, <3>1 DEF Matches
    <3> QED
      BY <1>1, <3>2 DEF CacheInv, NotWrong, Cached
  <2> QED
    BY <2>1, <2>2
<1> QED
  BY <1>1, CacheInit, CacheStep, FilesInvHolds, PTL DEF Spec
===============================================================================
