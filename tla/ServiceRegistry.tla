---------------------------- MODULE ServiceRegistry ----------------------------
(***************************************************************************)
(* How a server serves the services of ServiceFiles: servicesActionRegistry *)
(* lists them into a cache, which it reloads when the fingerprint of the   *)
(* directory has changed, and looks actions up in that cache or, when they *)
(* are not in it, in the files.  Services are verified against the         *)
(* lockfile as services.verify and services.signature_policy ask.          *)
(*                                                                         *)
(* An action stands for its service.  The scan interval is left out: a     *)
(* listing within it returns the cache and changes nothing.  The server    *)
(* answers one request at a time: listings exclude each other, and a       *)
(* lookup changes nothing that another request reads.                      *)
(***************************************************************************)
EXTENDS ServiceFiles

CONSTANTS
    Modes,      \* the pairs of verify mode and signature policy considered
    Nobody      \* no cache

ASSUME RegistryAssumption ==
    /\ Modes \subseteq {"off", "warn", "strict"} \X {"off", "optional", "required"}
    /\ Nobody \notin Services \cup Versions \cup {None}

VARIABLES
    mode,       \* the server's verify mode and signature policy
    cache,      \* cachedByName: the version served of each service, or Nobody before a load
    cachedAt,   \* cacheFingerprint
    request,    \* "list", "lookup" or "none"
    at,         \* where the request is: "idle", "scan", "stat", "dir", "lock", ...
    names,      \* services it has still to go through
    view,       \* the services enabled in the lockfile it has read
    found,      \* the versions it will serve
    seen,       \* the service it verifies, the file's digest and the entry
    print       \* the fingerprint a listing has computed

registry == <<mode, cache, cachedAt, request, at, names, view, found, seen, print>>
vars == <<files, commands, registry>>

NothingServed == [s \in Services |-> None]

NoFingerprint == [files |-> [s \in Services |-> 0], lock |-> 0]

NotSeen == [svc |-> None, digest |-> None, entry |-> None]

Init ==
    /\ FilesInit
    /\ mode \in Modes
    /\ cache = Nobody /\ cachedAt = NoFingerprint /\ print = NoFingerprint
    /\ request = "none" /\ at = "idle"
    /\ names = {} /\ view = {} /\ found = NothingServed /\ seen = NotSeen

------------------------------------------------------------------------------
server == <<mode, cache, cachedAt, print>>

(***************************************************************************)
(* Verification.                                                           *)
(***************************************************************************)
Strict == mode[1] = "strict"
Required == mode[2] = "required"
Unchecked == mode[1] = "off" /\ ~Required

SigOf(e) == IF e = None THEN None ELSE e.sig

Verified(digest, entry) == entry # None /\ entry.digest = digest

SignedBy(digest, entry, key) ==
    /\ Verified(digest, entry) /\ SigOf(entry) # None
    /\ entry.sig = [key |-> key, digest |-> entry.digest]

\* What is done with a service that fails what is asked of it.
Verdict(digest, entry, key) ==
    CASE Required /\ ~SignedBy(digest, entry, key) -> IF Strict THEN "error" ELSE "skip"
      [] Strict /\ ~Verified(digest, entry) -> "error"
      [] OTHER -> "use"

\* Verify failed because the file has gone.
Unverified == IF Required \/ Strict THEN "error" ELSE "use"

(***************************************************************************)
(* What the files say at this moment.                                      *)
(***************************************************************************)
Stamps == [s \in Services |-> IF manifest[s] = None THEN 0 ELSE mtime[s]]
Fingerprint == [files |-> Stamps, lock |-> ltime]

Enabled(s) == manifest[s] # None /\ EnabledIn(lock, s)
VerdictNow(s) == IF Unchecked THEN "use" ELSE Verdict(manifest[s], lock.entries[s], lock.key)

Loadable == \A s \in Services : Enabled(s) => VerdictNow(s) # "error"
ServedNow == [s \in Services |-> IF Enabled(s) /\ VerdictNow(s) = "use" THEN manifest[s] ELSE None]

(***************************************************************************)
(* Listing and looking up.                                                 *)
(***************************************************************************)
Forget ==
    /\ request' = "none" /\ at' = "idle"
    /\ names' = {} /\ view' = {} /\ found' = NothingServed /\ seen' = NotSeen
    /\ print' = NoFingerprint

\* A request that fails, or finds nothing to load, leaves the cache as it is.
GiveUp == Forget /\ UNCHANGED <<mode, cache, cachedAt>>

\* loadDefinitions holds the registry's mutex from here to its end.
BeginList ==
    /\ at = "idle"
    /\ request' = "list" /\ at' = "scan"
    /\ UNCHANGED <<server, names, view, found, seen>>

\* computeFingerprint: the manifests, then the lockfile.
Scan ==
    /\ at = "scan"
    /\ print' = [files |-> Stamps, lock |-> 0]
    /\ at' = "stat"
    /\ UNCHANGED <<mode, cache, cachedAt, request, names, view, found, seen>>

CacheIsWarm(fp) == cache # Nobody

\* The cached definitions are returned.
CacheIsValid(fp) == cache # Nobody /\ fp = cachedAt /\ fp # NoFingerprint

ScanLock ==
    LET fp == [print EXCEPT !.lock = ltime] IN
    /\ at = "stat"
    /\ \/ CacheIsValid(fp) /\ GiveUp
       \/ /\ ~CacheIsValid(fp)
          /\ print' = fp /\ at' = "dir"
          /\ UNCHANGED <<mode, cache, cachedAt, request, names, view, found, seen>>

ReadDir ==
    /\ at = "dir"
    /\ names' = {s \in Services : manifest[s] # None}
    /\ at' = "lock"
    /\ UNCHANGED <<server, request, view, found, seen>>

Cached(s) == IF cache = Nobody THEN None ELSE cache[s]

\* A lookup takes only the mutex of the cache.  A warm entry is served as it is,
\* which changes nothing; else the lookup goes to the files.
BeginLookup(s) ==
    /\ at = "idle" /\ Cached(s) = None
    /\ request' = "lookup" /\ at' = "lock"
    /\ names' = {s}
    /\ UNCHANGED <<server, view, found, seen>>

ViewLock ==
    /\ at = "lock"
    /\ view' = {s \in Services : EnabledIn(lock, s)}
    /\ at' = "read"
    /\ UNCHANGED <<server, request, names, found, seen>>

\* buildService reads a manifest; one that has gone is an error.
ReadManifest ==
    /\ at = "read"
    /\ \/ \E s \in names :
             \/ manifest[s] = None /\ GiveUp
             \/ /\ manifest[s] # None
                /\ names' = names \ {s}
                /\ found' = IF s \in view THEN [found EXCEPT ![s] = manifest[s]] ELSE found
                /\ UNCHANGED <<server, request, at, view, seen>>
       \/ /\ names = {}
          /\ names' = IF Unchecked THEN {} ELSE {s \in Services : found[s] # None}
          /\ view' = {} /\ at' = "verify"
          /\ UNCHANGED <<server, request, found, seen>>

\* The verdict on the service that is verified.
Decide(verdict) ==
    LET s == seen.svc IN
    \/ verdict = "error" /\ GiveUp
    \/ /\ verdict # "error"
       /\ names' = names \ {s}
       /\ found' = IF verdict = "skip" THEN [found EXCEPT ![s] = None] ELSE found
       /\ seen' = NotSeen /\ at' = "verify"
       /\ UNCHANGED <<server, request, view>>

\* Verify reads the manifest again ...
VerifyManifest ==
    /\ at = "verify"
    /\ \E s \in names : seen' = [svc |-> s, digest |-> manifest[s], entry |-> None]
    /\ at' = "entry"
    /\ UNCHANGED <<server, request, names, view, found>>

\* ... and its entry, unless the manifest has gone ...
VerifyEntry ==
    LET e == lock.entries[seen.svc] IN
    /\ at = "entry"
    /\ \/ seen.digest = None /\ Decide(Unverified)
       \/ /\ seen.digest # None /\ SigOf(e) = None
          /\ Decide(Verdict(seen.digest, e, None))
       \/ /\ seen.digest # None /\ SigOf(e) # None
          /\ seen' = [seen EXCEPT !.entry = e] /\ at' = "key"
          /\ UNCHANGED <<server, request, names, view, found>>

\* ... and for a signed one the lockfile again, for its key.
VerifyKey == at = "key" /\ Decide(Verdict(seen.digest, seen.entry, lock.key))

PrintAfterwards == Fingerprint

\* The fingerprint kept with the definitions: the one computed before the load.
PrintKept == print

Finish ==
    /\ at = "verify" /\ names = {}
    /\ \/ request = "list" /\ cache' = found /\ cachedAt' = PrintKept
       \/ request = "lookup" /\ UNCHANGED <<cache, cachedAt>>
    /\ Forget
    /\ UNCHANGED mode

GoOn == Scan \/ ScanLock \/ ReadDir \/ ViewLock \/ ReadManifest \/ VerifyManifest \/ VerifyEntry
        \/ VerifyKey \/ Finish

Server == BeginList \/ GoOn \/ \E s \in Services : BeginLookup(s)

Next ==
    \/ (\E c \in Cli : CommandStep(c)) /\ UNCHANGED registry
    \/ Server /\ UNCHANGED <<files, commands>>

Spec == Init /\ [][Next]_vars
===============================================================================
