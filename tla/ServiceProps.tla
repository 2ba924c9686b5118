------------------------------ MODULE ServiceProps ------------------------------
(***************************************************************************)
(* What holds of the services directory and of what a server serves.       *)
(***************************************************************************)
EXTENDS ServiceRegistry

(***************************************************************************)
(* While no command runs, the manifest and the lockfile entry of a service *)
(* are those the commands for it have answered for: both or neither are    *)
(* there, with the digest of that manifest, enabled as last asked.  An     *)
(* error has changed nothing, a failed write of the second file included   *)
(* (installer.go:129, 220).  Not so for a service whose last command       *)
(* overlapped another's, was killed, or could not put the manifest back;   *)
(* one undisturbed install or remove puts it in order again.               *)
(***************************************************************************)
AnswersHold ==
    Busy = {} =>
        \A s \in Services :
            LET e == lock.entries[s]
                t == told[s]
            IN  CASE t = Unknown -> TRUE
                  [] t = None -> manifest[s] = None /\ e = None
                  [] OTHER -> manifest[s] = t.ver /\ e # None /\ e.digest = t.ver /\ e.enabled = t.on

(***************************************************************************)
(* Whatever commands overlap, die and overwrite each other's lockfile,     *)
(* every signature in it is one of the entry's digest by the key in it.    *)
(***************************************************************************)
SignaturesMatchKey ==
    \A s \in Services :
        LET e == lock.entries[s] IN
        e # None /\ e.sig # None => e.sig = [key |-> lock.key, digest |-> e.digest]

(***************************************************************************)
(* If the directory's fingerprint is the one kept with the cached          *)
(* definitions, so that the next listing keeps them, then a load would     *)
(* find nothing else: a change during a load, between any two of its       *)
(* reads, is seen at the next listing.  Not so for a manifest that was     *)
(* written after the fingerprint was taken and removed again with no       *)
(* change of the lockfile, by an install that failed (installer.go:129):   *)
(* the fingerprint is what it was, and the cache may serve it.             *)
(***************************************************************************)
CameAndWent(s) == manifest[s] = None /\ cachedAt.files[s] = 0

KeptCacheIsCurrent ==
    cache # Nobody /\ cachedAt = Fingerprint /\ cachedAt # NoFingerprint =>
        /\ Loadable
        /\ \A s \in Services : Cached(s) = ServedNow[s] \/ CameAndWent(s)

(***************************************************************************)
(* If listings keep beginning, then, when the files no longer change, the  *)
(* cache is in the end what they say, unless a load of them must fail; a   *)
(* manifest that came and went during the last load is excepted again.     *)
(***************************************************************************)
CatalogConverges ==
    []<><<BeginList>>_vars =>
        <>[](Loadable => \A s \in Services : Cached(s) = ServedNow[s] \/ CameAndWent(s))
===============================================================================
