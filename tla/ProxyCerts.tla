------------------------------ MODULE ProxyCerts ------------------------------
(***************************************************************************)
(* The proxy's certificates: the CA that kimbap run and kimbap proxy keep  *)
(* in two files of the data directory, made by whichever process finds     *)
(* them missing, and the certificates for hosts, which one process's       *)
(* tunnels sign with the CA it holds and share through a bounded cache.    *)
(*                                                                         *)
(* A key pair is named after the process that generated it.  A write of a  *)
(* file truncates it first, so that another process may read part of it.   *)
(***************************************************************************)
EXTENDS Naturals, Sequences, SequencesExt

CONSTANTS Procs,       \* the processes that want a CA
          Tunnels,     \* tunnels of one of them
          Hosts,       \* the hosts they connect to
          CacheEntries \* maxHostCertCacheEntries

ASSUME CertsAssumption == CacheEntries \in Nat \ {0}

Missing == "missing"
HalfWritten == "partial"

VARIABLES
  caCert, \* ca.crt: Missing, HalfWritten, or whose certificate it holds
  caKey,  \* ca.key
  proc,     \* each process: where in GenerateCA it is, and the pair it holds
  tunnel,   \* each tunnel: the host it is making a certificate for
  certs,    \* hostCertCache: the hosts it has a certificate for
  order     \* hostCertCacheOrder

certVars == <<caCert, caKey, proc, tunnel, certs, order>>

NoPair == [cert |-> Missing, key |-> Missing]
CertsInit ==
  /\ caCert = Missing /\ caKey = Missing
  /\ proc = [p \in Procs |-> [pc |-> "start", pair |-> NoPair]]
  /\ tunnel = [t \in Tunnels |-> "none"]
  /\ certs = {} /\ order = <<>>

(***************************************************************************)
(* GenerateCA and LoadCA, one file operation at a time.                    *)
(***************************************************************************)
ProcAt(p, pc) == proc' = [proc EXCEPT ![p].pc = pc]
Hold(p, pair, pc) == proc' = [proc EXCEPT ![p] = [pc |-> pc, pair |-> pair]]
CacheSame == UNCHANGED <<tunnel, certs, order>>

LookForFiles(p) ==
  /\ proc[p].pc = "start"
  /\ \/ caCert = Missing /\ ProcAt(p, "write_cert")
     \/ caCert # Missing /\ ProcAt(p, "look_for_key")
  /\ UNCHANGED <<caCert, caKey>> /\ CacheSame

LookForKey(p) ==
  /\ proc[p].pc = "look_for_key"
  /\ ProcAt(p, IF caKey = Missing THEN "write_cert" ELSE "load_cert")
  /\ UNCHANGED <<caCert, caKey>> /\ CacheSame

WriteCACert(p) ==
  /\ \/ proc[p].pc = "write_cert" /\ caCert' = HalfWritten /\ ProcAt(p, "fill_cert")
     \/ proc[p].pc = "fill_cert" /\ caCert' = p /\ ProcAt(p, "write_key")
  /\ UNCHANGED caKey /\ CacheSame

WriteCAKey(p) ==
  /\ \/ proc[p].pc = "write_key" /\ caKey' = HalfWritten /\ ProcAt(p, "fill_key")
     \/ proc[p].pc = "fill_key" /\ caKey' = p /\ Hold(p, [cert |-> p, key |-> p], "ready")
  /\ UNCHANGED caCert /\ CacheSame

LoadCACert(p) ==
  /\ proc[p].pc = "load_cert"
  /\ Hold(p, [cert |-> caCert, key |-> Missing], "load_key")
  /\ UNCHANGED <<caCert, caKey>> /\ CacheSame

\* X509KeyPair refuses what does not parse and what does not belong together.
Matches(pair) == pair.cert = pair.key /\ pair.cert \in Procs

LoadCAKey(p) ==
  /\ proc[p].pc = "load_key"
  /\ LET pair == [cert |-> proc[p].pair.cert, key |-> caKey]
     IN IF Matches(pair) THEN Hold(p, pair, "ready") ELSE Hold(p, NoPair, "failed")
  /\ UNCHANGED <<caCert, caKey>> /\ CacheSame

\* A failed write returns an error, and the command ends; so does a killed one.
\* What it had written stays.
GiveUp(p) ==
  /\ proc[p].pc \notin {"ready", "failed"}
  /\ Hold(p, NoPair, "failed")
  /\ UNCHANGED <<caCert, caKey>> /\ CacheSame

(***************************************************************************)
(* GenerateHostCert: a look under the lock, a certificate made without it, *)
(* and another look when the lock is held again.                           *)
(***************************************************************************)
FilesSame == UNCHANGED <<caCert, caKey, proc>>

LookUp(t, h) ==
  /\ tunnel[t] = "none"
  /\ tunnel' = IF h \in certs THEN tunnel ELSE [tunnel EXCEPT ![t] = h]
  /\ UNCHANGED <<certs, order>> /\ FilesSame

\* The longest tail the cache may keep.
Newest(s) == IF Len(s) > CacheEntries THEN SubSeq(s, Len(s) - CacheEntries + 1, Len(s)) ELSE s
Oldest(s) == ToSet(SubSeq(s, 1, Len(s) - Len(Newest(s))))

\* Mutant: no second look at the cache when the lock is held again.
InsertBlind(t) ==
  /\ order' = Newest(Append(order, tunnel[t]))
  /\ certs' = (certs \union {tunnel[t]}) \ Oldest(Append(order, tunnel[t]))

InsertCert(t) ==
  LET h == tunnel[t]
  IN IF h \in certs THEN UNCHANGED <<certs, order>>
     ELSE /\ order' = Newest(Append(order, h))
          /\ certs' = (certs \union {h}) \ Oldest(Append(order, h))

GenerateHostCert(t) ==
  /\ tunnel[t] # "none"
  /\ InsertCert(t)
  /\ tunnel' = [tunnel EXCEPT ![t] = "none"]
  /\ FilesSame

CertsNext ==
  \/ \E p \in Procs : LookForFiles(p) \/ LookForKey(p) \/ WriteCACert(p) \/ WriteCAKey(p)
                      \/ LoadCACert(p) \/ LoadCAKey(p) \/ GiveUp(p)
  \/ \E t \in Tunnels : GenerateHostCert(t) \/ \E h \in Hosts : LookUp(t, h)

CertsSpec == CertsInit /\ [][CertsNext]_certVars

-----------------------------------------------------------------------------
CertsTypeOK ==
  /\ {caCert, caKey} \subseteq Procs \union {Missing, HalfWritten}
  /\ proc \in [Procs -> [pc : {"start", "look_for_key", "write_cert", "fill_cert", "write_key",
                               "fill_key", "load_cert", "load_key", "ready", "failed"},
                         pair : [cert : Procs \union {Missing, HalfWritten},
                                 key : Procs \union {Missing, HalfWritten}]]]
  /\ tunnel \in [Tunnels -> Hosts \union {"none"}]
  /\ certs \subseteq Hosts /\ order \in Seq(Hosts)

\* The cache and the queue it is evicted by hold the same hosts, each once, and
\* no more than the limit, though tunnels make certificates for the same host
\* at the same time.
CacheIsItsQueue ==
  /\ certs = ToSet(order)
  /\ IsInjective(order)
  /\ Len(order) <= CacheEntries
=============================================================================
