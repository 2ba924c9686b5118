------------------------------ MODULE ServiceFiles ------------------------------
(***************************************************************************)
(* The services directory and the commands that change it.  A service is a *)
(* manifest <name>.yaml and an entry of kimbap-services.lock, which holds  *)
(* its digest, whether it is enabled and its signature.  Each command is a *)
(* process of its own, whose LocalInstaller has its own mutex: it reads    *)
(* the whole lockfile, changes the manifest, and replaces the lockfile by  *)
(* its changed copy; each file is replaced by a rename.  A write may fail, *)
(* and a process may be killed between any two steps.                      *)
(*                                                                         *)
(* A manifest stands for its digest.  No two writes of a file get the same *)
(* modification time.                                                      *)
(***************************************************************************)
EXTENDS FiniteSets, Integers

CONSTANTS
    Services,   \* names of services
    Versions,   \* contents a manifest may have
    Keys,       \* signing keys
    None,       \* no file, entry, signature or key
    Cli,        \* service commands that may run at once, one process each
    Start,      \* versions that may be installed, enabled and signed at the start
    MaxOps      \* commands run (a bound on the model)

ASSUME FilesAssumption ==
    /\ None \notin Services \cup Versions \cup Keys
    /\ Cli \subseteq Nat
    /\ Start \subseteq Versions
    /\ IsFiniteSet(Services)
    /\ MaxOps \in Nat

VARIABLES
    manifest,   \* manifest[s]: the content of <s>.yaml
    lock,       \* the content of the lockfile
    mtime,      \* mtime[s]: the modification time of <s>.yaml
    ltime,      \* the lockfile's, 0 when there is none
    pc,         \* pc[c]: where command c is
    op,         \* op[c]: what it does
    copy,       \* copy[c]: the lockfile it has read
    old,        \* old[c]: the manifest it has read
    ops,        \* commands run so far (history)
    told,       \* told[s]: what the commands for s have answered (history)
    clash       \* commands that ran while another did (history)

files == <<manifest, lock, mtime, ltime>>
commands == <<pc, op, copy, old, ops, told, clash>>

Signatures == [key : Keys, digest : Versions]
Entries == [digest : Versions, enabled : BOOLEAN, sig : Signatures \cup {None}]
Lockfiles == [key : Keys \cup {None}, entries : [Services -> Entries \cup {None}]]
NoLockfile == [key |-> None, entries |-> [s \in Services |-> None]]

Installs == {"install", "force", "update"}
Toggles == {"enable", "disable"}
Op == [kind : Installs \cup Toggles \cup {"remove", "sign", "none"}, svc : Services \cup {None},
       ver : Versions \cup {None}, on : BOOLEAN, key : Keys \cup {None}]
NoOp == [kind |-> "none", svc |-> None, ver |-> None, on |-> FALSE, key |-> None]

\* install [--force] [--no-activate], update, enable, disable, remove, sign.
Inputs ==
    [kind : {"install", "force"}, svc : Services, ver : Versions, on : BOOLEAN, key : {None}]
    \cup [kind : {"update"}, svc : Services, ver : Versions, on : {FALSE}, key : {None}]
    \cup [kind : Toggles \cup {"remove"}, svc : Services, ver : {None}, on : {FALSE}, key : {None}]
    \cup [kind : {"sign"}, svc : {None}, ver : {None}, on : {FALSE}, key : Keys]

\* What a command for a service answers: its version, and whether it is enabled.
Told == [ver : Versions \cup {None}, on : BOOLEAN]

\* After a command that clashed, died or could not restore.
Unknown == [ver |-> None, on |-> FALSE]

ASSUME NoneAssumption == None \notin Entries \cup Told

Pcs == {"idle", "enabled", "get", "stat", "old", "lock", "manifest", "unlink", "lockfile", "restore"}

Nothing ==
    /\ manifest = [s \in Services |-> None] /\ lock = NoLockfile
    /\ mtime = [s \in Services |-> 0] /\ ltime = 0
    /\ told = [s \in Services |-> None]

\* What installs of v and then a sign leave.
Installed(v, k) ==
    /\ manifest = [s \in Services |-> v]
    /\ lock = [key |-> k, entries |-> [s \in Services |->
                 [digest |-> v, enabled |-> TRUE, sig |-> [key |-> k, digest |-> v]]]]
    /\ mtime = [s \in Services |-> 1] /\ ltime = Cardinality(Services) + 1
    /\ told = [s \in Services |-> [ver |-> v, on |-> TRUE]]

FilesInit ==
    /\ Nothing \/ \E v \in Start, k \in Keys : Installed(v, k)
    /\ pc = [c \in Cli |-> "idle"] /\ op = [c \in Cli |-> NoOp]
    /\ copy = [c \in Cli |-> NoLockfile] /\ old = [c \in Cli |-> None]
    /\ ops = 0 /\ clash = {}

------------------------------------------------------------------------------
At(c, l) == pc[c] = l
Goto(c, l) == pc' = [pc EXCEPT ![c] = l]
Is(c, kinds) == op[c].kind \in kinds

Busy == {c \in Cli : ~At(c, "idle")}

\* The services a command is about.
About(o) == {o.svc} \cap Services

(***************************************************************************)
(* The end of a command.                                                   *)
(***************************************************************************)
Leave(c) ==
    /\ Goto(c, "idle")
    /\ op' = [op EXCEPT ![c] = NoOp]
    /\ copy' = [copy EXCEPT ![c] = NoLockfile]
    /\ old' = [old EXCEPT ![c] = None]
    /\ clash' = clash \ {c}

Tell(c, answer) == told' = [s \in Services |-> IF s \in About(op[c]) THEN answer ELSE told[s]]

\* Killed, or unable to put the manifest back.
Abandon(c) ==
    /\ Leave(c)
    /\ Tell(c, Unknown)
    /\ UNCHANGED ops

\* An error leaves the files as they were.
Fail(c) ==
    /\ Leave(c)
    /\ IF c \in clash THEN Tell(c, Unknown) ELSE UNCHANGED told
    /\ UNCHANGED ops

Answer(o) ==
    CASE o.kind \in Installs -> [ver |-> o.ver, on |-> o.on]
      [] o.kind \in Toggles /\ told[o.svc] \notin {None, Unknown} ->
            [told[o.svc] EXCEPT !.on = (o.kind = "enable")]
      [] o.kind \in Toggles /\ told[o.svc] \in {None, Unknown} -> Unknown
      [] OTHER -> None

\* A command that has written both files of a service puts it in order.
Succeed(c) ==
    /\ Leave(c)
    /\ Tell(c, IF c \in clash THEN Unknown ELSE Answer(op[c]))
    /\ UNCHANGED ops

(***************************************************************************)
(* The steps of the commands.                                              *)
(***************************************************************************)
FirstStep(o) ==
    CASE o.kind = "update" -> "enabled"
      [] o.kind \in {"disable", "remove"} -> "get"
      [] o.kind = "install" -> "stat"
      [] o.kind = "force" -> "old"
      [] OTHER -> "lock"

\* Idle processes do not differ: a command takes the first.
Begin(c, o) ==
    /\ At(c, "idle") /\ ops < MaxOps
    /\ \A d \in Cli \ Busy : c <= d
    /\ ops' = ops + 1
    /\ op' = [op EXCEPT ![c] = o]
    /\ Goto(c, FirstStep(o))
    /\ clash' = IF Busy = {} THEN clash ELSE clash \cup Busy \cup {c}
    /\ UNCHANGED <<files, copy, old, told>>

\* enabled of buildService: without an entry a service is enabled.
EnabledIn(l, s) == l.entries[s] = None \/ l.entries[s].enabled

\* An update first notes whether the lockfile has the service enabled ...
GetEnabled(c) ==
    /\ At(c, "enabled")
    /\ op' = [op EXCEPT ![c].on = EnabledIn(lock, op[c].svc)]
    /\ Goto(c, "get")
    /\ UNCHANGED <<files, copy, old, ops, told, clash>>

\* ... and, as a disable or a remove does, stops when there is no manifest.  Then it
\* fetches its version and stops, but for --force, when that is the installed one.
Get(c) ==
    LET s == op[c].svc IN
    /\ At(c, "get")
    /\ \/ manifest[s] \in {None, op[c].ver} /\ Fail(c)
       \/ /\ manifest[s] # None
          /\ Goto(c, IF Is(c, {"update"}) THEN "old" ELSE "lock")
          /\ UNCHANGED <<op, copy, old, ops, told, clash>>
    /\ UNCHANGED files

\* Without --force an installed service is left alone.
Stat(c) ==
    /\ At(c, "stat")
    /\ \/ manifest[op[c].svc] # None /\ Fail(c)
       \/ /\ manifest[op[c].svc] = None
          /\ Goto(c, "old")
          /\ UNCHANGED <<op, copy, old, ops, told, clash>>
    /\ UNCHANGED files

\* readInstalledManifestFile; Remove has read the lockfile before.
ReadOld(c) ==
    LET s == op[c].svc IN
    /\ At(c, "old")
    /\ old' = [old EXCEPT ![c] = manifest[s]]
    /\ Goto(c, IF ~Is(c, {"remove"}) THEN "lock"
               ELSE IF manifest[s] # None THEN "unlink" ELSE "lockfile")
    /\ UNCHANGED <<files, op, copy, ops, told, clash>>

\* readLockfile, whole, as the last rename left it.
ReadLock(c) ==
    /\ At(c, "lock")
    /\ \/ /\ Is(c, Toggles) /\ lock.entries[op[c].svc] = None
          /\ Fail(c)
       \/ /\ Is(c, Toggles) => lock.entries[op[c].svc] # None
          /\ copy' = [copy EXCEPT ![c] = lock]
          /\ Goto(c, CASE Is(c, Installs) -> "manifest"
                       [] Is(c, {"remove"}) -> "old"
                       [] OTHER -> "lockfile")
          /\ UNCHANGED <<op, old, ops, told, clash>>
    /\ UNCHANGED files

PutManifest(s, v) ==
    /\ manifest' = [manifest EXCEPT ![s] = v]
    /\ mtime' = [mtime EXCEPT ![s] = @ + 1]
    /\ UNCHANGED <<lock, ltime>>

WriteManifest(c) ==
    /\ At(c, "manifest")
    /\ \/ /\ PutManifest(op[c].svc, op[c].ver)
          /\ Goto(c, "lockfile")
          /\ UNCHANGED <<op, copy, old, ops, told, clash>>
       \/ Fail(c) /\ UNCHANGED files

\* os.Remove fails when another command has removed the file.
Unlink(c) ==
    /\ At(c, "unlink")
    /\ \/ /\ manifest[op[c].svc] # None
          /\ PutManifest(op[c].svc, None)
          /\ Goto(c, "lockfile")
          /\ UNCHANGED <<op, copy, old, ops, told, clash>>
       \/ Fail(c) /\ UNCHANGED files

SignatureKept(c) ==
    LET e == copy[c].entries[op[c].svc] IN IF e = None THEN None ELSE e.sig

\* Install writes a new entry: what was signed is another digest.
NewSignature(c) == None

Signed(e, k) == IF e = None THEN None ELSE [e EXCEPT !.sig = [key |-> k, digest |-> e.digest]]

\* Remove deletes the entry.
EntryRemoved(c) == None

\* The copy, with the change the command makes.
Changed(c) ==
    LET l == copy[c]
        o == op[c]
        new == [digest |-> o.ver, enabled |-> o.on, sig |-> NewSignature(c)]
    IN  CASE o.kind \in Installs -> [l EXCEPT !.entries[o.svc] = new]
          [] o.kind = "remove" -> [l EXCEPT !.entries[o.svc] = EntryRemoved(c)]
          [] o.kind = "sign" -> [key |-> o.key, entries |-> [s \in Services |-> Signed(l.entries[s], o.key)]]
          [] OTHER -> [l EXCEPT !.entries[o.svc].enabled = (o.kind = "enable")]

Restores(c) == Is(c, Installs \cup {"remove"})

\* Remove writes no lockfile when it found no entry.
NothingToDo(c) == Is(c, {"remove"}) /\ copy[c].entries[op[c].svc] = None

WriteLock(c) ==
    /\ At(c, "lockfile")
    /\ \/ /\ NothingToDo(c)
          /\ IF old[c] = None THEN Fail(c) ELSE Succeed(c)
          /\ UNCHANGED files
       \/ /\ ~NothingToDo(c)
          /\ lock' = Changed(c) /\ ltime' = ltime + 1
          /\ Succeed(c)
          /\ UNCHANGED <<manifest, mtime>>
       \/ /\ ~NothingToDo(c) /\ Restores(c)
          /\ Goto(c, "restore")
          /\ UNCHANGED <<files, op, copy, old, ops, told, clash>>
       \/ /\ ~NothingToDo(c) /\ ~Restores(c)
          /\ Fail(c)
          /\ UNCHANGED files

NothingRestored(c) == manifest[op[c].svc]

\* What restoreInstalledManifestFile leaves: the manifest read before, or none.
Restored(c) == old[c]

Restore(c) ==
    /\ At(c, "restore")
    /\ \/ PutManifest(op[c].svc, Restored(c)) /\ Fail(c)
       \/ Abandon(c) /\ UNCHANGED files

Kill(c) ==
    /\ ~At(c, "idle")
    /\ Abandon(c)
    /\ UNCHANGED files

CommandStep(c) ==
    \/ \E o \in Inputs : Begin(c, o)
    \/ GetEnabled(c) \/ Get(c) \/ Stat(c) \/ ReadOld(c) \/ ReadLock(c) \/ WriteManifest(c) \/ Unlink(c)
    \/ WriteLock(c) \/ Restore(c) \/ Kill(c)
===============================================================================
