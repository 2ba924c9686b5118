--------------------------- MODULE Processes_proofs ---------------------------
(***************************************************************************)
(* Proofs about processes that share files, rows and directories: the      *)
(* daemon's socket, the proxy's certificate cache, the sync of the agents' *)
(* skills, kimbap run, the vault's secret, the tokens table and logins,    *)
(* for any number of processes, tunnels, hosts, services, commands and     *)
(* requests.                                                               *)
(***************************************************************************)
EXTENDS VaultStore, ServiceTokens, Daemon, ProxyCerts, SkillSync, RunCommand, LoginFlows,
        SequenceTheorems, FiniteSetTheorems, TLAPS

(***************************************************************************)
(* Between taking the lock and giving it back a daemon is the only one     *)
(* that touches the path.                                                  *)
(***************************************************************************)
LockedPcs == {"listen", "dial", "remove_stale", "listen_again", "serve", "remove", "unlock"}

DaemonInv ==
  /\ DaemonTypeOK
  /\ \A d \in Daemons : daemon[d].pc \in LockedPcs => lock = d
  /\ \A d \in Daemons : daemon[d].listening => daemon[d].pc = "serve"
  /\ \A d \in Daemons : daemon[d].pc = "serve" => socket = d

LEMMA DaemonInvInit == DaemonInit => DaemonInv
  BY DaemonAssumption DEF DaemonInit, DaemonInv, DaemonTypeOK, DaemonRow, LockedPcs, Down

LEMMA RowsTyped ==
  ASSUME NEW x \in DaemonRow
  PROVE  LET a == [x EXCEPT !.pc = "lock", !.stores = "open"]
             b == [x EXCEPT !.pc = "serve", !.listening = TRUE]
             c == [x EXCEPT !.listening = FALSE, !.pc = "remove"]
             e == [x EXCEPT !.pc = "exit", !.stores = "closed"]
         IN  /\ a \in DaemonRow /\ a.pc = "lock" /\ a.listening = x.listening
             /\ b \in DaemonRow /\ b.pc = "serve"
             /\ c \in DaemonRow /\ c.pc = "remove" /\ c.listening = FALSE
             /\ e \in DaemonRow /\ e.pc = "exit" /\ e.listening = x.listening
  BY DEF DaemonRow

\* A step that leaves a daemon without its listener and outside the locked part,
\* or where it was.
LEMMA DaemonMoves ==
  ASSUME DaemonInv, NEW d \in Daemons, NEW r \in DaemonRow, daemon' = [daemon EXCEPT ![d] = r],
         starts' \in [Daemons -> 0..MaxStarts], UNCHANGED <<lock, socket, received>>,
         r.pc \in LockedPcs => lock = d,
         r.listening => r.pc = "serve",
         r.pc = "serve" => socket = d
  PROVE  DaemonInv'
  BY DEF DaemonInv, DaemonTypeOK, LockedPcs

LEMMA DaemonInvStep == ASSUME DaemonInv, [DaemonNext]_daemonVars PROVE DaemonInv'
<1> USE DaemonAssumption DEF DaemonInv, DaemonTypeOK, DaemonRow, LockedPcs, DaemonAt
<1>0. \A d \in Daemons : daemon[d] \in DaemonRow
  OBVIOUS
<1>1. ASSUME NEW d \in Daemons, Start(d) PROVE DaemonInv'
  <2> DEFINE r == [daemon[d] EXCEPT !.pc = "lock", !.stores = "open"]
  <2>1. daemon' = [daemon EXCEPT ![d] = r] /\ starts' \in [Daemons -> 0..MaxStarts]
        /\ UNCHANGED <<lock, socket, received>>
    BY <1>1 DEF Start
  <2>2. r \in DaemonRow /\ r.pc = "lock" /\ r.listening = daemon[d].listening
    BY <1>0, RowsTyped
  <2>3. ~daemon[d].listening
    BY <1>1 DEF Start
  <2> QED
    BY <2>1, <2>2, <2>3, DaemonMoves
<1>2. ASSUME NEW d \in Daemons, TakeLock(d) PROVE DaemonInv'
  <2>1. CASE lock = "free" /\ lock' = d /\ daemon' = [daemon EXCEPT ![d].pc = "listen"]
    <3>1. daemon'[d] \in DaemonRow /\ daemon'[d].pc = "listen" /\ ~daemon'[d].listening
      BY <1>2, <2>1 DEF TakeLock, DaemonRow
    <3>2. \A e \in Daemons \ {d} : daemon'[e] = daemon[e] /\ daemon[e].pc \notin LockedPcs
      BY <2>1
    <3> QED
      BY <1>2, <2>1, <3>1, <3>2 DEF TakeLock
  <2>2. CASE lock # "free" /\ UNCHANGED lock /\ daemon' = [daemon EXCEPT ![d].pc = "cleanup"]
    <3> DEFINE r == [daemon[d] EXCEPT !.pc = "cleanup"]
    <3>1. daemon' = [daemon EXCEPT ![d] = r] /\ UNCHANGED <<starts, lock, socket, received>>
      BY <1>2, <2>2 DEF TakeLock
    <3>2. r \in DaemonRow /\ r.pc = "cleanup" /\ ~r.listening
      BY <1>2 DEF TakeLock, DaemonRow
    <3> QED
      BY <3>1, <3>2, DaemonMoves
  <2> QED
    BY <1>2, <2>1, <2>2 DEF TakeLock
<1>3. ASSUME NEW d \in Daemons, Bind(d) PROVE DaemonInv'
  <2>1. lock = d /\ \A e \in Daemons \ {d} : daemon[e].pc \notin LockedPcs
    BY <1>3 DEF Bind
  <2>2. CASE socket' = d /\ daemon' = [daemon EXCEPT ![d] = [@ EXCEPT !.pc = "serve", !.listening = TRUE]]
    <3> DEFINE r == [daemon[d] EXCEPT !.pc = "serve", !.listening = TRUE]
    <3>0. r \in DaemonRow /\ r.pc = "serve"
      BY <1>0, RowsTyped
    <3>1. daemon'[d] \in DaemonRow /\ daemon'[d].pc = "serve"
      BY <2>2, <3>0
    <3>2. \A e \in Daemons \ {d} : daemon'[e] = daemon[e]
      BY <2>2
    <3>3. daemon' \in [Daemons -> DaemonRow]
      BY <2>2, <3>1, <3>2
    <3> QED
      BY <1>3, <2>1, <2>2, <3>1, <3>2, <3>3 DEF Bind
  <2>3. ASSUME NEW l \in {"dial", "unlock"}, daemon' = [daemon EXCEPT ![d].pc = l], UNCHANGED socket
        PROVE  DaemonInv'
    <3> DEFINE r == [daemon[d] EXCEPT !.pc = l]
    <3>1. daemon' = [daemon EXCEPT ![d] = r] /\ UNCHANGED <<starts, lock, socket, received>>
      BY <1>3, <2>3 DEF Bind
    <3>2. r \in DaemonRow /\ r.pc = l /\ ~r.listening
      BY <1>3 DEF Bind, DaemonRow
    <3> QED
      BY <2>1, <3>1, <3>2, DaemonMoves
  <2> QED
    BY <1>3, <2>2, <2>3 DEF Bind
<1>4. ASSUME NEW d \in Daemons, Dial(d) PROVE DaemonInv'
  BY <1>4 DEF Dial
<1>5. ASSUME NEW d \in Daemons, RemoveStale(d) PROVE DaemonInv'
  <2> DEFINE r == [daemon[d] EXCEPT !.pc = "listen_again"]
  <2>1. daemon' = [daemon EXCEPT ![d] = r] /\ socket' = "absent" /\ UNCHANGED <<starts, lock, received>>
    BY <1>5 DEF RemoveStale
  <2>2. daemon[d] \in DaemonRow /\ lock = d /\ ~daemon[d].listening
    BY <1>5 DEF RemoveStale
  <2>3. r \in DaemonRow /\ r.pc = "listen_again" /\ ~r.listening
    BY <2>2 DEF DaemonRow
  <2>4. \A e \in Daemons \ {d} : daemon'[e] = daemon[e] /\ daemon[e].pc \notin LockedPcs
    BY <2>1, <2>2
  <2> HIDE DEF r
  <2> QED
    BY <2>1, <2>2, <2>3, <2>4
<1>6. ASSUME NEW d \in Daemons, Terminate(d) PROVE DaemonInv'
  <2> DEFINE r == [daemon[d] EXCEPT !.told = TRUE]
  <2>1. daemon' = [daemon EXCEPT ![d] = r] /\ UNCHANGED <<starts, lock, socket, received>>
    BY <1>6 DEF Terminate
  <2>2. daemon[d] \in DaemonRow /\ daemon[d].pc = "serve" /\ socket = d /\ lock = d
    BY <1>6 DEF Terminate
  <2>3. r \in DaemonRow /\ r.pc = "serve"
    BY <2>2 DEF DaemonRow
  <2> HIDE DEF r
  <2> QED
    BY <2>1, <2>2, <2>3, DaemonMoves
<1>7. ASSUME NEW d \in Daemons, CloseListener(d) PROVE DaemonInv'
  <2> DEFINE r == [daemon[d] EXCEPT !.listening = FALSE, !.pc = "remove"]
  <2>1. daemon' = [daemon EXCEPT ![d] = r] /\ socket' = "absent" /\ UNCHANGED <<starts, lock, received>>
    BY <1>7 DEF CloseListener
  <2>2. r \in DaemonRow /\ r.pc = "remove" /\ r.listening = FALSE
    BY <1>0, RowsTyped
  <2>4. lock = d
    BY <1>7 DEF CloseListener
  <2>3. \A e \in Daemons \ {d} : daemon'[e] = daemon[e] /\ daemon[e].pc \notin LockedPcs
    BY <2>1, <2>4, <1>7 DEF CloseListener
  <2> HIDE DEF r
  <2> QED
    BY <2>1, <2>2, <2>3, <2>4
<1>8. ASSUME NEW d \in Daemons, RemoveFiles(d) PROVE DaemonInv'
  BY <1>8 DEF RemoveFiles
<1>9. ASSUME NEW d \in Daemons, Unlock(d) PROVE DaemonInv'
  BY <1>9 DEF Unlock
<1>10. ASSUME NEW d \in Daemons, CloseStores(d) PROVE DaemonInv'
  <2> DEFINE r == [daemon[d] EXCEPT !.pc = "exit", !.stores = "closed"]
  <2>1. daemon' = [daemon EXCEPT ![d] = r] /\ UNCHANGED <<starts, lock, socket, received>>
    BY <1>10 DEF CloseStores
  <2>2. r \in DaemonRow /\ r.pc = "exit" /\ r.listening = daemon[d].listening
    BY <1>0, RowsTyped
  <2>3. ~daemon[d].listening
    BY <1>10 DEF CloseStores
  <2> QED
    BY <2>1, <2>2, <2>3, DaemonMoves
<1>11. ASSUME NEW d \in Daemons, ExitDaemon(d) PROVE DaemonInv'
  BY <1>11 DEF ExitDaemon, Gone, Down
<1>12. ASSUME NEW d \in Daemons, Kill(d) PROVE DaemonInv'
  BY <1>12 DEF Kill, Gone, Down
<1>13. ASSUME NEW c \in ClientCalls, Accept(c) \/ RefuseCall(c) \/ ExecuteCall(c) \/ AnswerCall(c)
       PROVE DaemonInv'
  BY <1>13 DEF Accept, RefuseCall, ExecuteCall, AnswerCall
<1>14. CASE UNCHANGED daemonVars
  BY <1>14 DEF daemonVars
<1> QED
  BY <1>1, <1>2, <1>3, <1>4, <1>5, <1>6, <1>7, <1>8, <1>9, <1>10, <1>11, <1>12, <1>13, <1>14
  DEF DaemonNext, DaemonStep

(***************************************************************************)
(* For any number of daemons and starts, the one that listens holds the    *)
(* lock and the path leads to it (daemon.go:62 to 88).                     *)
(***************************************************************************)
THEOREM DaemonIsAlone == DaemonSpec => []OneDaemon
<1>1. DaemonInv => OneDaemon
  BY DEF DaemonInv, OneDaemon, LockedPcs
<1> QED
  BY <1>1, DaemonInvInit, DaemonInvStep, PTL DEF DaemonSpec

-----------------------------------------------------------------------------
(***************************************************************************)
(* The cache of host certificates.  Tunnels only ever make certificates    *)
(* for hosts, and the queue is a sequence of hosts.                        *)
(***************************************************************************)
CertsInv ==
  /\ tunnel \in [Tunnels -> Hosts \union {"none"}]
  /\ order \in Seq(Hosts)
  /\ CacheIsItsQueue

\* What is left of a queue whose first entry, if any, is evicted.
LEMMA NewestKept ==
  ASSUME order \in Seq(Hosts), CacheIsItsQueue, NEW h \in Hosts, h \notin certs
  PROVE  LET s == Append(order, h)
         IN  /\ Newest(s) \in Seq(Hosts)
             /\ IsInjective(Newest(s))
             /\ Len(Newest(s)) <= CacheEntries
             /\ ToSet(Newest(s)) = (certs \union {h}) \ Oldest(s)
<1> DEFINE s == Append(order, h)
<1>1. /\ s \in Seq(Hosts) /\ Len(s) = Len(order) + 1 /\ CacheEntries \in Nat \ {0}
      /\ Len(order) \in Nat /\ Len(order) <= CacheEntries
  BY CertsAssumption DEF CacheIsItsQueue
<1>2. \A i \in 1..Len(s) : s[i] = IF i <= Len(order) THEN order[i] ELSE h
  BY <1>1
<1>3. ToSet(s) = certs \union {h}
  <2>1. DOMAIN s = 1..(Len(order) + 1) /\ DOMAIN order = 1..Len(order)
    BY <1>1
  <2>2. \A i \in 1..Len(order) : s[i] = order[i]
    BY <1>1, <1>2
  <2>3. s[Len(order) + 1] = h
    BY <1>1, <1>2
  <2>4. \A i \in 1..(Len(order) + 1) : i \in 1..Len(order) \/ i = Len(order) + 1
    BY <1>1
  <2>5. 1..Len(order) \subseteq 1..(Len(order) + 1) /\ Len(order) + 1 \in 1..(Len(order) + 1)
    BY <1>1
  <2> HIDE DEF s
  <2> QED
    BY <2>1, <2>2, <2>3, <2>4, <2>5 DEF ToSet, CacheIsItsQueue
<1>4. \A i, j \in 1..Len(s) : s[i] = s[j] => i = j
  <2>1. DOMAIN order = 1..Len(order)
    OBVIOUS
  <2>2. \A i, j \in 1..Len(order) : order[i] = order[j] => i = j
    BY <2>1 DEF CacheIsItsQueue, IsInjective
  <2>3. \A i \in 1..Len(order) : order[i] # h
    BY <2>1 DEF CacheIsItsQueue, ToSet
  <2> QED
    BY <1>1, <1>2, <2>2, <2>3
<1> HIDE DEF s
<1>5. CASE Len(s) <= CacheEntries
  <2>0. Newest(s) = s /\ Len(s) \in Nat
    BY <1>1, <1>5 DEF Newest
  <2>1. SubSeq(s, 1, Len(s) - Len(Newest(s))) = << >>
    <3>1. Len(s) - Len(Newest(s)) = 0
      BY <2>0
    <3> QED
      BY <1>1, <3>1, SubSeqEmpty
  <2>2. Oldest(s) = {}
    BY <2>1 DEF Oldest, ToSet
  <2>3. IsInjective(s)
    BY <1>1, <1>4 DEF IsInjective
  <2> QED
    BY <1>1, <1>3, <1>5, <2>0, <2>2, <2>3 DEF s
<1>6. CASE Len(s) = CacheEntries + 1
  <2> DEFINE n == Newest(s)
             o == SubSeq(s, 1, 1)
  <2>1. n = SubSeq(s, 2, Len(s))
    BY <1>1, <1>6 DEF Newest
  <2>2. n \in Seq(Hosts) /\ Len(n) = CacheEntries /\ \A i \in 1..CacheEntries : n[i] = s[i + 1]
    BY <1>1, <1>6, <2>1, SubSeqProperties
  <2>3. DOMAIN n = 1..CacheEntries
    BY <2>2
  <2>4. o \in Seq(Hosts) /\ Len(o) = 1 /\ o[1] = s[1]
    BY <1>1, SubSeqProperties
  <2>5. Oldest(s) = {s[1]}
    <3>1. Len(s) - Len(n) = 1
      BY <1>1, <1>6, <2>2
    <3>2. Oldest(s) = ToSet(o)
      BY <3>1 DEF Oldest
    <3> HIDE DEF o
    <3> QED
      BY <2>4, <3>2 DEF ToSet
  <2> HIDE DEF n, o
  <2>6. IsInjective(n)
    <3>1. \A i \in 1..CacheEntries : i + 1 \in 1..Len(s)
      BY <1>1, <1>6
    <3>2. ASSUME NEW i \in 1..CacheEntries, NEW j \in 1..CacheEntries, n[i] = n[j]
          PROVE  i = j
      <4>1. s[i + 1] = s[j + 1]
        BY <2>2, <3>2
      <4>2. i + 1 = j + 1
        BY <1>4, <3>1, <4>1
      <4> QED
        BY <4>2
    <3> QED
      BY <2>3, <3>2 DEF IsInjective
  <2>7. ToSet(n) = ToSet(s) \ {s[1]}
    <3>1. DOMAIN s = 1..(CacheEntries + 1)
      BY <1>1, <1>6
    <3>2. ASSUME NEW x \in ToSet(n) PROVE x \in ToSet(s) \ {s[1]}
      <4>1. PICK i \in 1..CacheEntries : x = n[i]
        BY <2>3 DEF ToSet
      <4>2. x = s[i + 1] /\ i + 1 \in 1..(CacheEntries + 1) /\ i + 1 # 1
        BY <1>1, <2>2, <4>1
      <4>3. x \in ToSet(s)
        BY <3>1, <4>2 DEF ToSet
      <4>4. s[i + 1] # s[1]
        BY <1>1, <1>4, <1>6, <3>1, <4>2 DEF IsInjective
      <4> QED
        BY <4>2, <4>3, <4>4
    <3>3. ASSUME NEW x \in ToSet(s) \ {s[1]} PROVE x \in ToSet(n)
      <4>1. PICK i \in 1..(CacheEntries + 1) : x = s[i]
        BY <3>1 DEF ToSet
      <4>2. i # 1
        BY <4>1
      <4>3. i - 1 \in 1..CacheEntries /\ x = n[i - 1]
        BY <1>1, <2>2, <4>1, <4>2
      <4> QED
        BY <2>3, <4>3 DEF ToSet
    <3> QED
      BY <3>2, <3>3
  <2> QED
    BY <1>1, <1>3, <2>2, <2>5, <2>6, <2>7 DEF n, s
<1> QED
  BY <1>1, <1>5, <1>6

LEMMA CertsInvInit == CertsInit => CertsInv
  BY CertsAssumption DEF CertsInit, CertsInv, CacheIsItsQueue, ToSet, IsInjective

LEMMA CertsInvStep == ASSUME CertsInv, [CertsNext]_certVars PROVE CertsInv'
<1>1. ASSUME NEW t \in Tunnels, GenerateHostCert(t) PROVE CertsInv'
  <2>1. tunnel[t] \in Hosts /\ tunnel' \in [Tunnels -> Hosts \union {"none"}]
    BY <1>1 DEF CertsInv, GenerateHostCert
  <2>2. CASE tunnel[t] \in certs
    BY <1>1, <2>1, <2>2 DEF GenerateHostCert, InsertCert, CertsInv, CacheIsItsQueue
  <2>3. CASE tunnel[t] \notin certs
    <3>1. /\ order' = Newest(Append(order, tunnel[t]))
          /\ certs' = (certs \union {tunnel[t]}) \ Oldest(Append(order, tunnel[t]))
      BY <1>1, <2>3 DEF GenerateHostCert, InsertCert
    <3> QED
      BY <2>1, <2>3, <3>1, NewestKept DEF CertsInv, CacheIsItsQueue
  <2> QED
    BY <2>2, <2>3
<1>2. ASSUME NEW t \in Tunnels, NEW h \in Hosts, LookUp(t, h) PROVE CertsInv'
  BY <1>2 DEF CertsInv, CacheIsItsQueue, LookUp
<1>3. CASE UNCHANGED <<tunnel, certs, order>>
  BY <1>3 DEF CertsInv, CacheIsItsQueue
<1> QED
  BY <1>1, <1>2, <1>3 DEF CertsNext, certVars, LookForFiles, LookForKey, WriteCACert, WriteCAKey,
     LoadCACert, LoadCAKey, GiveUp, CacheSame

(***************************************************************************)
(* For any number of tunnels, hosts and entries, the cache of certificates *)
(* and the queue it is evicted by stay the same set (mitm.go:97 to 110).   *)
(***************************************************************************)
THEOREM CacheStaysItsQueue == CertsSpec => []CacheIsItsQueue
<1>1. CertsInv => CacheIsItsQueue
  BY DEF CertsInv
<1> QED
  BY <1>1, CertsInvInit, CertsInvStep, PTL DEF CertsSpec

-----------------------------------------------------------------------------
(***************************************************************************)
(* The sync of the agents' skills.                                         *)
(***************************************************************************)
SyncFields == {"pc", "list", "asked", "pack", "full", "force", "todo", "now", "had", "mark",
               "entries", "known", "errs", "alone"}
DirFields == {"there", "marker", "mode", "v", "extra"}

\* What there is in a directory is there with it.
Real(d) ==
  /\ DOMAIN d = DirFields
  /\ d.there \in BOOLEAN /\ d.marker \in BOOLEAN
  /\ d.marker \/ d.mode # "none" => d.there

Serving == {"look", "skill_md", "marker", "temp", "fill", "clear_old", "move_old", "swap", "drop_old"}

\* A service is in the version and of the kind this command listed, or not kimbap's.
Good(p, s) ==
  /\ skill[s].there
  /\ skill[s].marker => /\ skill[s].v = sync[p].list[s]
                        /\ skill[s].mode = IF sync[p].pack THEN "pack" ELSE "md"

\* The directories, and each command at the service it is at.
Shapes ==
  /\ DOMAIN skill = Skills /\ DOMAIN backup = Skills /\ DOMAIN temp = Syncs /\ DOMAIN sync = Syncs
  /\ \A s \in Skills : Real(skill[s]) /\ Real(backup[s])
  /\ \A p \in Syncs : Real(temp[p])

Placed(p) ==
  /\ DOMAIN sync[p] = SyncFields
  /\ sync[p].todo \subseteq OnList(p)
  /\ sync[p].pc \in Serving => \E s \in OnList(p) : sync[p].now = {s}
  /\ sync[p].pc = "prune" => \A e \in sync[p].entries : e.kind = "skill" => e.of \notin OnList(p)

\* What a command has done so far, if nobody disturbed it.
Worked(p) ==
  /\ sync[p].pc = "next" /\ ~sync[p].errs => \A s \in OnList(p) \ sync[p].todo : Good(p, s)
  /\ sync[p].pc \in Serving /\ ~sync[p].errs =>
       \A s \in (OnList(p) \ sync[p].todo) \ sync[p].now : Good(p, s)
  /\ sync[p].pc \in {"entries", "prune", "meta", "record", "ok"} /\ ~sync[p].errs =>
       \A s \in OnList(p) : Good(p, s)
  /\ sync[p].pc \in {"record", "ok"} => meta /\ ~sync[p].errs

\* The service it is at.
AtWork(p) ==
  /\ sync[p].pc = "marker" => /\ ~sync[p].pack
                              /\ \A s \in sync[p].now : /\ skill[s].mode = "md"
                                                        /\ skill[s].v = sync[p].list[s]
  /\ sync[p].pc = "skill_md" => ~sync[p].pack
  /\ sync[p].pc \in {"temp", "fill", "clear_old", "move_old", "swap"} => sync[p].pack
  /\ sync[p].pc \in {"clear_old", "move_old", "swap"} =>
       \A s \in sync[p].now : temp[p] = Pack(sync[p].list[s])
  /\ sync[p].pc = "drop_old" => \A s \in sync[p].now : Good(p, s)

\* What a full sync still has to remove it has noted, and then there is nothing.
Pruned(p) ==
  /\ sync[p].pc \in {"entries", "prune"} => sync[p].full
  /\ sync[p].pc = "prune" /\ ~sync[p].errs =>
       /\ \A s \in Skills : backup[s].marker => Entry("backup", s) \in sync[p].entries
       /\ \A s \in Skills \ OnList(p) : skill[s].marker => Entry("skill", s) \in sync[p].entries
       /\ "marked" \in litter => Entry("litter", "marked") \in sync[p].entries
  /\ sync[p].pc \in {"meta", "record", "ok"} /\ sync[p].full /\ ~sync[p].errs =>
       /\ \A s \in Skills : ~backup[s].marker
       /\ \A s \in Skills \ OnList(p) : ~skill[s].marker
       /\ "marked" \notin litter

Undisturbed(p) ==
  /\ \A q \in Syncs \ {p} : sync[q].pc \in Resting
  /\ Worked(p) /\ AtWork(p) /\ Pruned(p)

SyncInv == Shapes /\ \A p \in Syncs : Placed(p) /\ (sync[p].alone => Undisturbed(p))

-----------------------------------------------------------------------------
LEMMA DirsReal ==
  /\ Real(NoDir) /\ Real(Bare) /\ Real(Marked) /\ Real(Legacy) /\ Real(UserDir)
  /\ \A v : Real(Pack(v)) /\ Pack(v).there /\ Pack(v).marker /\ Pack(v).mode = "pack" /\ Pack(v).v = v
  /\ ~NoDir.there /\ ~NoDir.marker /\ ~Legacy.marker /\ ~UserDir.marker
  BY DEF Real, DirFields, NoDir, Bare, Marked, Legacy, UserDir, Pack

LEMMA RestFields ==
  /\ DOMAIN AtRest = SyncFields /\ AtRest.pc = "idle" /\ ~AtRest.alone /\ AtRest.alone = FALSE
  /\ ~AtRest.errs /\ AtRest.todo = {}
  BY DEF AtRest, SyncFields

LEMMA SyncInvInit == SyncInit => SyncInv
<1> SUFFICES ASSUME SyncInit PROVE SyncInv
  OBVIOUS
<1>1. Shapes
  BY DirsReal DEF SyncInit, Shapes
<1>2. ASSUME NEW p \in Syncs PROVE Placed(p) /\ ~sync[p].alone
  <2>1. sync[p] = AtRest
    BY DEF SyncInit
  <2> QED
    BY <2>1, RestFields DEF Placed, Serving
<1> QED
  BY <1>1, <1>2 DEF SyncInv

\* A step of one command at work: nobody else is undisturbed.
LEMMA OneMoves ==
  ASSUME SyncInv, NEW p \in Syncs, sync[p].pc \notin Resting,
         \A q \in Syncs \ {p} : sync'[q] = sync[q],
         Shapes', Placed(p)',
         sync'[p].alone => sync[p].alone /\ Worked(p)' /\ AtWork(p)' /\ Pruned(p)'
  PROVE  SyncInv'
<1>1. ASSUME NEW q \in Syncs, q # p PROVE Placed(q)' /\ ~sync'[q].alone
  BY <1>1 DEF SyncInv, Placed, Undisturbed, OnList
<1>2. sync'[p].alone => Undisturbed(p)'
  BY DEF SyncInv, Undisturbed
<1> QED
  BY <1>1, <1>2 DEF SyncInv

\* A step that disturbs every command.
LEMMA AllDisturbed ==
  ASSUME SyncInv
  PROVE  /\ DOMAIN Disturbed = Syncs
         /\ \A q \in Syncs : /\ DOMAIN Disturbed[q] = SyncFields /\ Disturbed[q].alone = FALSE
                             /\ Disturbed[q].todo \subseteq {s \in Skills : Disturbed[q].list[s] # 0}
                             /\ Disturbed[q].pc \in Serving =>
                                  \E s \in Skills : Disturbed[q].list[s] # 0 /\ Disturbed[q].now = {s}
                             /\ Disturbed[q].pc = "prune" =>
                                  \A e \in Disturbed[q].entries :
                                    e.kind = "skill" =>
                                      e.of \notin {s \in Skills : Disturbed[q].list[s] # 0}
                             /\ sync[q].pc \in Resting => Disturbed[q] = AtRest
<1>1. DOMAIN Disturbed = Syncs
  BY DEF Disturbed
<1>2. ASSUME NEW q \in Syncs
      PROVE  /\ DOMAIN Disturbed[q] = SyncFields /\ Disturbed[q].alone = FALSE
             /\ Disturbed[q].todo \subseteq {s \in Skills : Disturbed[q].list[s] # 0}
             /\ Disturbed[q].pc \in Serving =>
                  \E s \in Skills : Disturbed[q].list[s] # 0 /\ Disturbed[q].now = {s}
             /\ Disturbed[q].pc = "prune" =>
                  \A e \in Disturbed[q].entries :
                    e.kind = "skill" => e.of \notin {s \in Skills : Disturbed[q].list[s] # 0}
             /\ sync[q].pc \in Resting => Disturbed[q] = AtRest
  <2>1. CASE sync[q].pc \in Resting
    <3>1. Disturbed[q] = AtRest
      BY <2>1 DEF Disturbed
    <3> QED
      BY <3>1, RestFields DEF Serving
  <2>2. CASE sync[q].pc \notin Resting
    <3>1. Disturbed[q] = [sync[q] EXCEPT !.alone = FALSE]
      BY <2>2 DEF Disturbed
    <3>2. DOMAIN sync[q] = SyncFields
      BY DEF SyncInv, Placed
    <3>3. /\ DOMAIN Disturbed[q] = SyncFields /\ Disturbed[q].alone = FALSE
          /\ Disturbed[q].todo = sync[q].todo /\ Disturbed[q].list = sync[q].list
          /\ Disturbed[q].pc = sync[q].pc /\ Disturbed[q].now = sync[q].now
          /\ Disturbed[q].entries = sync[q].entries
      BY <3>1, <3>2 DEF SyncFields
    <3> QED
      BY <2>2, <3>3 DEF SyncInv, Placed, OnList
  <2> QED
    BY <2>1, <2>2
<1> QED
  BY <1>1, <1>2

LEMMA ChangesKeep ==
  ASSUME SyncInv, sync' = Disturbed, Shapes' PROVE SyncInv'
<1>1. ASSUME NEW p \in Syncs PROVE Placed(p)' /\ ~sync'[p].alone
  BY AllDisturbed DEF Placed, OnList
<1> QED
  BY <1>1 DEF SyncInv

LEMMA BeginKeeps ==
  ASSUME SyncInv, NEW p \in Syncs, NEW asked, NEW full \in BOOLEAN, NEW force \in BOOLEAN,
         BeginSync(p, asked, full, force)
  PROVE  SyncInv'
<1> DEFINE free == \A q \in Syncs \ {p} : sync[q].pc \in Resting
           r == [AtRest EXCEPT !.pc = "packs", !.asked = asked, !.list = Listed(asked), !.full = full,
                   !.force = force, !.alone = free]
<1>1. sync' = [Disturbed EXCEPT ![p] = r] /\ UNCHANGED dirVars
  BY DEF BeginSync
<1>2. DOMAIN r = SyncFields /\ r.pc = "packs" /\ r.todo = {} /\ r.alone = free
  <2>1. free \in BOOLEAN
    OBVIOUS
  <2> HIDE DEF free
  <2> QED
    BY <2>1, RestFields DEF SyncFields
<1> HIDE DEF r
<1>3. Shapes'
  BY <1>1, AllDisturbed DEF SyncInv, Shapes, dirVars
<1>4. sync'[p] = r /\ \A q \in Syncs \ {p} : sync'[q] = Disturbed[q]
  BY <1>1, AllDisturbed
<1>5. ASSUME NEW q \in Syncs, q # p PROVE Placed(q)' /\ ~sync'[q].alone
  <2>1. sync'[q] = Disturbed[q]
    BY <1>4, <1>5
  <2>2. OnList(q)' = {s \in Skills : Disturbed[q].list[s] # 0}
    BY <2>1 DEF OnList
  <2> QED
    BY <2>1, <2>2, AllDisturbed DEF Placed
<1>6. Placed(p)'
  BY <1>2, <1>4 DEF Placed, Serving
<1>7. ASSUME sync'[p].alone PROVE Undisturbed(p)'
  <2>1. free
    BY <1>2, <1>4, <1>7
  <2>2. \A q \in Syncs \ {p} : sync'[q].pc \in Resting
    BY <1>4, <2>1, AllDisturbed, RestFields DEF Resting
  <2> QED
    BY <1>2, <1>4, <2>2 DEF Undisturbed, Worked, AtWork, Pruned, Serving
<1> QED
  BY <1>3, <1>5, <1>6, <1>7 DEF SyncInv

-----------------------------------------------------------------------------
(***************************************************************************)
(* The steps of a command at work.                                         *)
(***************************************************************************)
SameJob(p) ==
  /\ DOMAIN sync' = Syncs /\ \A q \in Syncs \ {p} : sync'[q] = sync[q]
  /\ DOMAIN sync'[p] = SyncFields
  /\ sync'[p].list = sync[p].list /\ sync'[p].pack = sync[p].pack
  /\ sync'[p].full = sync[p].full /\ sync'[p].alone = sync[p].alone
  /\ OnList(p)' = OnList(p)

LEMMA GoesTo ==
  ASSUME SyncInv, NEW p \in Syncs, NEW c, SyncAt(p, c)
  PROVE  /\ SameJob(p) /\ sync'[p].pc = c /\ sync'[p].errs = sync[p].errs
         /\ sync'[p].todo = sync[p].todo /\ sync'[p].now = sync[p].now
         /\ sync'[p].entries = sync[p].entries /\ sync'[p].had = sync[p].had
<1>1. DOMAIN sync = Syncs /\ DOMAIN sync[p] = SyncFields
  BY DEF SyncInv, Shapes, Placed
<1>2. sync' = [sync EXCEPT ![p] = [sync[p] EXCEPT !.pc = c]]
  BY DEF SyncAt
<1>3. sync'[p] = [sync[p] EXCEPT !.pc = c] /\ sync' = [sync EXCEPT ![p] = sync'[p]]
  BY <1>1, <1>2
<1> QED
  BY <1>1, <1>3 DEF SameJob, SyncFields, OnList

LEMMA Fails ==
  ASSUME SyncInv, NEW p \in Syncs, FailService(p)
  PROVE  /\ SameJob(p) /\ sync'[p].pc = "next" /\ sync'[p].errs = TRUE
         /\ sync'[p].todo = sync[p].todo
         /\ DOMAIN temp' = Syncs /\ \A q \in Syncs : Real(temp'[q])
<1>1. DOMAIN sync = Syncs /\ DOMAIN sync[p] = SyncFields
  BY DEF SyncInv, Shapes, Placed
<1>2. sync' = [sync EXCEPT ![p] = [sync[p] EXCEPT !.pc = "next", !.errs = TRUE]]
  BY <1>1 DEF FailService
<1>3. /\ sync'[p] = [sync[p] EXCEPT !.pc = "next", !.errs = TRUE]
      /\ sync' = [sync EXCEPT ![p] = sync'[p]]
  BY <1>1, <1>2
<1>4. DOMAIN temp' = Syncs /\ \A q \in Syncs : Real(temp'[q])
  BY DirsReal DEF FailService, SyncInv, Shapes
<1> QED
  BY <1>1, <1>3, <1>4 DEF SameJob, SyncFields, OnList

\* A failed service leaves nothing to keep.
LEMMA FailureKeeps ==
  ASSUME SyncInv, NEW p \in Syncs, sync[p].pc \notin Resting, FailService(p), Shapes'
  PROVE  SyncInv'
<1>0. Placed(p)
  BY DEF SyncInv
<1>1. Placed(p)'
  BY <1>0, Fails DEF Placed, SameJob, Serving
<1>2. Worked(p)' /\ AtWork(p)' /\ Pruned(p)'
  BY Fails DEF Worked, AtWork, Pruned, Serving
<1> QED
  BY <1>1, <1>2, Fails, OneMoves DEF SameJob

LEMMA AtService ==
  ASSUME SyncInv, NEW p \in Syncs, sync[p].pc \in Serving
  PROVE  \E s \in OnList(p) : sync[p].now = {s} /\ Service(p) = s
<1>1. PICK s \in OnList(p) : sync[p].now = {s}
  BY DEF SyncInv, Placed
<1>2. \E t \in Skills : sync[p].now = {t}
  BY <1>1 DEF OnList
<1>3. sync[p].now = {Service(p)}
  BY <1>2 DEF Service
<1> QED
  BY <1>1, <1>3

LEMMA ListPacksKeeps ==
  ASSUME SyncInv, NEW p \in Syncs, ListPacks(p) PROVE SyncInv'
<1> DEFINE packs == Listed(IF sync[p].asked = {} THEN Skills ELSE sync[p].asked)
           used == OnList(p) # {} /\ {s \in Skills : packs[s] # 0} = OnList(p)
           list == IF used THEN packs ELSE sync[p].list
<1>1. /\ sync[p].pc = "packs" /\ UNCHANGED dirVars
      /\ sync' = [sync EXCEPT ![p].pc = "next", ![p].pack = used, ![p].list = list,
                              ![p].todo = OnList(p), ![p].known = recorded]
  BY DEF ListPacks
<1>2. \A s \in Skills : list[s] # 0 <=> s \in OnList(p)
  BY DEF OnList
<1>3. used \in BOOLEAN
  OBVIOUS
<1> HIDE DEF list, used
<1>4. DOMAIN sync = Syncs /\ DOMAIN sync[p] = SyncFields
  BY DEF SyncInv, Shapes, Placed
<1>5. sync' = [sync EXCEPT ![p] = [sync[p] EXCEPT !.pc = "next", !.pack = used, !.list = list,
                                                  !.todo = OnList(p), !.known = recorded]]
  BY <1>1, <1>4
<1>6. /\ sync'[p] = [sync[p] EXCEPT !.pc = "next", !.pack = used, !.list = list,
                                    !.todo = OnList(p), !.known = recorded]
      /\ DOMAIN sync' = Syncs /\ \A q \in Syncs \ {p} : sync'[q] = sync[q]
  BY <1>4, <1>5
<1>7. /\ DOMAIN sync'[p] = SyncFields /\ sync'[p].pc = "next" /\ sync'[p].list = list
      /\ sync'[p].todo = OnList(p) /\ sync'[p].alone = sync[p].alone
  BY <1>4, <1>6 DEF SyncFields
<1>8. OnList(p)' = OnList(p)
  BY <1>2, <1>7 DEF OnList
<1>9. Shapes'
  <2>1. DOMAIN sync' = Syncs
    BY <1>4, <1>6
  <2> QED
    BY <1>1, <2>1 DEF SyncInv, Shapes, dirVars
<1>10. Placed(p)'
  BY <1>7, <1>8 DEF Placed, Serving
<1>11. Worked(p)' /\ AtWork(p)' /\ Pruned(p)'
  BY <1>7, <1>8 DEF Worked, AtWork, Pruned, Serving
<1> QED
  BY <1>1, <1>6, <1>7, <1>9, <1>10, <1>11, OneMoves DEF Resting

LEMMA NextServiceKeeps ==
  ASSUME SyncInv, NEW p \in Syncs, NextService(p) PROVE SyncInv'
<1>1. sync[p].pc = "next" /\ UNCHANGED dirVars /\ SyncOnly
  BY DEF NextService
<1>2. DOMAIN sync = Syncs /\ DOMAIN sync[p] = SyncFields
  BY DEF SyncInv, Shapes, Placed
<1>3. CASE sync[p].todo = {}
  <2>1. SyncAt(p, IF sync[p].full THEN "entries" ELSE "meta")
    BY <1>3 DEF NextService
  <2>2. Shapes'
    BY <1>1, GoesTo, <2>1 DEF SyncInv, Shapes, dirVars, SameJob
  <2>3. Placed(p)'
    BY <2>1, GoesTo DEF SyncInv, Placed, SameJob, Serving
  <2>4. ASSUME sync'[p].alone PROVE sync[p].alone /\ Worked(p)' /\ AtWork(p)' /\ Pruned(p)'
    <3>1. sync[p].alone /\ Worked(p) /\ Pruned(p)
      BY <2>1, <2>4, GoesTo DEF SyncInv, SameJob, Undisturbed
    <3>2. Worked(p)'
      BY <1>1, <1>3, <2>1, <3>1, GoesTo DEF Worked, Good, SameJob, Serving, dirVars
    <3>3. AtWork(p)' /\ Pruned(p)'
      BY <1>1, <1>3, <2>1, <3>1, GoesTo DEF AtWork, Pruned, SameJob
    <3> QED
      BY <3>1, <3>2, <3>3
  <2> QED
    BY <1>1, <2>1, <2>2, <2>3, <2>4, GoesTo, OneMoves DEF SameJob, Resting
<1>4. CASE sync[p].todo # {}
  <2>1. PICK s \in sync[p].todo :
          sync' = [sync EXCEPT ![p].pc = "look", ![p].now = {s}, ![p].todo = @ \ {s},
                               ![p].had = FALSE, ![p].mark = FALSE]
    BY <1>4 DEF NextService
  <2>2. sync' = [sync EXCEPT ![p] = [sync[p] EXCEPT !.pc = "look", !.now = {s},
                      !.todo = sync[p].todo \ {s}, !.had = FALSE, !.mark = FALSE]]
    BY <1>2, <2>1 DEF SyncFields
  <2>3. /\ sync'[p] = [sync[p] EXCEPT !.pc = "look", !.now = {s},
                          !.todo = sync[p].todo \ {s}, !.had = FALSE, !.mark = FALSE]
        /\ sync' = [sync EXCEPT ![p] = sync'[p]]
    BY <1>2, <2>2
  <2>4. /\ SameJob(p) /\ sync'[p].pc = "look" /\ sync'[p].now = {s}
        /\ sync'[p].todo = sync[p].todo \ {s} /\ sync'[p].errs = sync[p].errs
    BY <1>2, <2>3 DEF SyncFields, SameJob, OnList
  <2>5. Shapes'
    BY <1>1, <1>2, <2>4 DEF SyncInv, Shapes, dirVars, SameJob
  <2>6. Placed(p)'
    BY <2>4 DEF SyncInv, Placed, SameJob, Serving
  <2>7. ASSUME sync'[p].alone PROVE sync[p].alone /\ Worked(p)' /\ AtWork(p)' /\ Pruned(p)'
    <3>1. sync[p].alone /\ Worked(p)
      BY <2>4, <2>7 DEF SyncInv, SameJob, Undisturbed
    <3>2. Worked(p)'
      BY <1>1, <2>4, <3>1 DEF Worked, Good, SameJob, Serving, dirVars
    <3>3. AtWork(p)' /\ Pruned(p)'
      BY <2>4 DEF AtWork, Pruned
    <3> QED
      BY <3>1, <3>2, <3>3
  <2> QED
    BY <1>1, <2>4, <2>5, <2>6, <2>7, OneMoves DEF SameJob, Resting
<1> QED
  BY <1>3, <1>4

LEMMA LookKeeps ==
  ASSUME SyncInv, NEW p \in Syncs, Look(p) PROVE SyncInv'
<1>1. PICK s \in OnList(p) : sync[p].now = {s} /\ Service(p) = s
  BY AtService DEF Look, Serving
<1> DEFINE d == skill[s]
           mark == ~sync[p].pack /\ (sync[p].force \/ ~d.marker)
           c == IF ~Managed(p, d) THEN "next"
                ELSE IF Differs(p, d) THEN IF sync[p].pack THEN "temp" ELSE "skill_md"
                ELSE IF mark THEN "marker" ELSE "next"
<1>2. /\ sync[p].pc = "look" /\ UNCHANGED dirVars /\ SyncOnly
      /\ sync' = [sync EXCEPT ![p].mark = mark, ![p].pc = c]
  BY <1>1 DEF Look
<1>3. s \in Skills /\ Real(d)
  BY <1>1 DEF OnList, SyncInv, Shapes
<1>4. c \in {"next", "temp", "skill_md", "marker"}
  OBVIOUS
<1>5. c = "temp" => sync[p].pack
  OBVIOUS
<1>6. c = "skill_md" => ~sync[p].pack
  OBVIOUS
<1>7. c = "marker" => ~sync[p].pack /\ d.mode = "md" /\ d.v = sync[p].list[s]
  BY <1>1 DEF Differs
<1>8. c = "next" => Good(p, s)
  <2>1. CASE ~Managed(p, d)
    BY <2>1 DEF Managed, Good
  <2>2. CASE Managed(p, d) /\ c = "next"
    <3>1. ~Differs(p, d) /\ ~mark
      BY <2>2
    <3>2. CASE sync[p].pack
      <4>1. d = Pack(sync[p].list[s])
        BY <1>1, <3>1, <3>2 DEF Differs
      <4> QED
        BY <3>2, <4>1, DirsReal DEF Good
    <3>3. CASE ~sync[p].pack
      <4>1. d.mode = "md" /\ d.v = sync[p].list[s]
        BY <1>1, <3>1, <3>3 DEF Differs
      <4> QED
        BY <1>3, <3>3, <4>1 DEF Good, Real
    <3> QED
      BY <3>2, <3>3
  <2> QED
    BY <2>1, <2>2
<1>9. mark \in BOOLEAN
  <2> USE <1>3 DEF Real
  <2> QED
    OBVIOUS
<1> HIDE DEF mark, c
<1>10. DOMAIN sync = Syncs /\ DOMAIN sync[p] = SyncFields
  BY DEF SyncInv, Shapes, Placed
<1>11. sync' = [sync EXCEPT ![p] = [sync[p] EXCEPT !.mark = mark, !.pc = c]]
  BY <1>2, <1>10
<1>12. sync'[p] = [sync[p] EXCEPT !.mark = mark, !.pc = c] /\ sync' = [sync EXCEPT ![p] = sync'[p]]
  BY <1>10, <1>11
<1>13. /\ SameJob(p) /\ sync'[p].pc = c /\ sync'[p].now = {s}
       /\ sync'[p].todo = sync[p].todo /\ sync'[p].errs = sync[p].errs
  BY <1>1, <1>10, <1>12 DEF SyncFields, SameJob, OnList
<1>14. Shapes'
  BY <1>2, <1>10, <1>13 DEF SyncInv, Shapes, dirVars, SameJob
<1>15. Placed(p)'
  BY <1>1, <1>4, <1>13 DEF SyncInv, Placed, SameJob
<1>16. ASSUME sync'[p].alone PROVE sync[p].alone /\ Worked(p)' /\ AtWork(p)' /\ Pruned(p)'
  <2>1. sync[p].alone /\ Worked(p)
    BY <1>13, <1>16 DEF SyncInv, SameJob, Undisturbed
  <2>2. Good(p, s) => Good(p, s)'
    BY <1>2, <1>13 DEF Good, SameJob, dirVars
  <2>3. Worked(p)'
    <3>1. \A t \in OnList(p) : Good(p, t) => Good(p, t)'
      BY <1>2, <1>13 DEF Good, SameJob, dirVars
    <3>2. c \in {"temp", "skill_md", "marker"} => Worked(p)'
      BY <1>1, <1>2, <1>13, <2>1, <3>1 DEF Worked, SameJob, Serving
    <3>3. c = "next" => Worked(p)'
      BY <1>1, <1>2, <1>8, <1>13, <2>1, <3>1 DEF Worked, SameJob, Serving
    <3> QED
      BY <1>4, <3>2, <3>3
  <2>4. AtWork(p)'
    BY <1>2, <1>4, <1>5, <1>6, <1>7, <1>13 DEF AtWork, SameJob, dirVars
  <2>5. Pruned(p)'
    BY <1>4, <1>13 DEF Pruned
  <2> QED
    BY <2>1, <2>3, <2>4, <2>5
<1> QED
  BY <1>2, <1>13, <1>14, <1>15, <1>16, OneMoves DEF SameJob, Resting

LEMMA WriteSkillMDKeeps ==
  ASSUME SyncInv, NEW p \in Syncs, WriteSkillMD(p) PROVE SyncInv'
<1>1. PICK s \in OnList(p) : sync[p].now = {s} /\ Service(p) = s
  BY AtService DEF WriteSkillMD, Serving
<1>2. sync[p].pc = "skill_md" /\ SyncOnly /\ UNCHANGED <<backup, litter>>
  BY DEF WriteSkillMD
<1>3. s \in Skills /\ Real(skill[s]) /\ DOMAIN skill = Skills
  BY <1>1 DEF OnList, SyncInv, Shapes
<1>4. CASE FailService(p) /\ UNCHANGED skill
  <2>1. Shapes'
    BY <1>2, <1>4, Fails DEF SyncInv, Shapes, SameJob
  <2> QED
    BY <1>2, <1>4, <2>1, FailureKeeps DEF Resting
<1>5. CASE /\ skill' = [skill EXCEPT ![s].there = TRUE, ![s].mode = "md", ![s].v = sync[p].list[s]]
           /\ SyncAt(p, IF sync[p].mark THEN "marker" ELSE "next")
           /\ UNCHANGED temp
  <2> DEFINE v == sync[p].list[s]
             c == IF sync[p].mark THEN "marker" ELSE "next"
  <2>0. c \in {"marker", "next"}
    OBVIOUS
  <2> HIDE DEF c
  <2>1. SyncAt(p, c)
    BY <1>5 DEF c
  <2>2. skill' = [skill EXCEPT ![s] = [skill[s] EXCEPT !.there = TRUE, !.mode = "md", !.v = v]]
    BY <1>3, <1>5
  <2>3. skill'[s] = [skill[s] EXCEPT !.there = TRUE, !.mode = "md", !.v = v]
    BY <1>3, <2>2
  <2>4. /\ DOMAIN skill'[s] = DirFields /\ skill'[s].there = TRUE /\ skill'[s].mode = "md"
        /\ skill'[s].v = v /\ skill'[s].marker = skill[s].marker
    BY <1>3, <2>3 DEF Real, DirFields
  <2>5. DOMAIN skill' = Skills /\ \A t \in Skills \ {s} : skill'[t] = skill[t]
    BY <1>3, <2>2
  <2>6. Shapes'
    <3>1. Real(skill'[s])
      BY <1>3, <2>4 DEF Real
    <3> QED
      BY <1>2, <1>5, <2>1, <2>5, <3>1, GoesTo DEF SyncInv, Shapes, SameJob
  <2>7. Placed(p)'
    BY <1>1, <2>0, <2>1, GoesTo DEF SyncInv, Placed, SameJob
  <2>8. ASSUME sync'[p].alone PROVE sync[p].alone /\ Worked(p)' /\ AtWork(p)' /\ Pruned(p)'
    <3>1. sync[p].alone /\ Worked(p) /\ ~sync[p].pack
      BY <1>2, <2>1, <2>8, GoesTo DEF SyncInv, SameJob, Undisturbed, AtWork
    <3>2. Good(p, s)'
      BY <2>1, <2>4, <3>1, GoesTo DEF Good, SameJob
    <3>3. Worked(p)'
      <4>1. \A t \in OnList(p) \ {s} : Good(p, t) => Good(p, t)'
        BY <2>1, <2>5, GoesTo DEF Good, SameJob, OnList
      <4> QED
        BY <1>1, <1>2, <2>0, <2>1, <3>1, <3>2, <4>1, GoesTo DEF Worked, SameJob, Serving
    <3>4. AtWork(p)'
      BY <1>1, <2>0, <2>1, <2>4, <3>1, GoesTo DEF AtWork, SameJob
    <3>5. Pruned(p)'
      BY <2>0, <2>1, GoesTo DEF Pruned
    <3> QED
      BY <3>1, <3>3, <3>4, <3>5
  <2> QED
    BY <1>2, <2>1, <2>6, <2>7, <2>8, GoesTo, OneMoves DEF SameJob, Resting
<1> QED
  BY <1>1, <1>4, <1>5 DEF WriteSkillMD

LEMMA WriteMarkerKeeps ==
  ASSUME SyncInv, NEW p \in Syncs, WriteMarker(p) PROVE SyncInv'
<1>1. PICK s \in OnList(p) : sync[p].now = {s} /\ Service(p) = s
  BY AtService DEF WriteMarker, Serving
<1>2. sync[p].pc = "marker" /\ SyncOnly /\ UNCHANGED <<backup, litter>>
  BY DEF WriteMarker
<1>3. s \in Skills /\ Real(skill[s]) /\ DOMAIN skill = Skills
  BY <1>1 DEF OnList, SyncInv, Shapes
<1>4. CASE FailService(p) /\ UNCHANGED skill
  <2>1. Shapes'
    BY <1>2, <1>4, Fails DEF SyncInv, Shapes, SameJob
  <2> QED
    BY <1>2, <1>4, <2>1, FailureKeeps DEF Resting
<1>5. CASE /\ skill' = [skill EXCEPT ![s].there = TRUE, ![s].marker = TRUE]
           /\ SyncAt(p, "next")
           /\ UNCHANGED temp
  <2>1. skill' = [skill EXCEPT ![s] = [skill[s] EXCEPT !.there = TRUE, !.marker = TRUE]]
    BY <1>3, <1>5
  <2>2. skill'[s] = [skill[s] EXCEPT !.there = TRUE, !.marker = TRUE]
    BY <1>3, <2>1
  <2>3. /\ DOMAIN skill'[s] = DirFields /\ skill'[s].there = TRUE /\ skill'[s].marker = TRUE
        /\ skill'[s].v = skill[s].v /\ skill'[s].mode = skill[s].mode
    BY <1>3, <2>2 DEF Real, DirFields
  <2>4. DOMAIN skill' = Skills /\ \A t \in Skills \ {s} : skill'[t] = skill[t]
    BY <1>3, <2>1
  <2>5. Shapes'
    <3>1. Real(skill'[s])
      BY <1>3, <2>3 DEF Real
    <3> QED
      BY <1>2, <1>5, <2>4, <3>1, GoesTo DEF SyncInv, Shapes, SameJob
  <2>6. Placed(p)'
    BY <1>5, GoesTo DEF SyncInv, Placed, SameJob, Serving
  <2>7. ASSUME sync'[p].alone PROVE sync[p].alone /\ Worked(p)' /\ AtWork(p)' /\ Pruned(p)'
    <3>1. /\ sync[p].alone /\ Worked(p) /\ ~sync[p].pack
          /\ skill[s].mode = "md" /\ skill[s].v = sync[p].list[s]
      BY <1>1, <1>2, <1>5, <2>7, GoesTo DEF SyncInv, SameJob, Undisturbed, AtWork
    <3>2. Good(p, s)'
      BY <1>5, <2>3, <3>1, GoesTo DEF Good, SameJob
    <3>3. Worked(p)'
      <4>1. \A t \in OnList(p) \ {s} : Good(p, t) => Good(p, t)'
        BY <1>5, <2>4, GoesTo DEF Good, SameJob, OnList
      <4> QED
        BY <1>1, <1>2, <1>5, <3>1, <3>2, <4>1, GoesTo DEF Worked, SameJob, Serving
    <3>4. AtWork(p)' /\ Pruned(p)'
      BY <1>5, GoesTo DEF AtWork, Pruned
    <3> QED
      BY <3>1, <3>3, <3>4
  <2> QED
    BY <1>2, <1>5, <2>5, <2>6, <2>7, GoesTo, OneMoves DEF SameJob, Resting
<1> QED
  BY <1>1, <1>4, <1>5 DEF WriteMarker

\* A step within atomicWriteDir that leaves the directories in place alone.
LEMMA InsideKeeps ==
  ASSUME SyncInv, NEW p \in Syncs, NEW c \in {"fill", "clear_old", "move_old", "swap"},
         sync[p].pc \in Serving, SyncAt(p, c) \/ (UNCHANGED sync /\ sync[p].pc = c),
         UNCHANGED skill, Shapes',
         sync[p].pack \/ ~sync[p].alone,
         sync[p].alone /\ c # "fill" => \A s \in sync[p].now : temp'[p] = Pack(sync[p].list[s])
  PROVE  SyncInv'
<1>1. /\ SameJob(p) /\ sync'[p].pc = c /\ sync'[p].errs = sync[p].errs
      /\ sync'[p].todo = sync[p].todo /\ sync'[p].now = sync[p].now
  <2>1. CASE SyncAt(p, c)
    BY <2>1, GoesTo
  <2>2. CASE UNCHANGED sync /\ sync[p].pc = c
    <3>1. DOMAIN sync = Syncs /\ DOMAIN sync[p] = SyncFields
      BY DEF SyncInv, Shapes, Placed
    <3> QED
      BY <2>2, <3>1 DEF SameJob, OnList
  <2> QED
    BY <2>1, <2>2
<1>2. Placed(p)'
  BY <1>1 DEF SyncInv, Placed, SameJob, Serving
<1>3. ASSUME sync'[p].alone PROVE sync[p].alone /\ Worked(p)' /\ AtWork(p)' /\ Pruned(p)'
  <2>1. sync[p].alone /\ Worked(p) /\ sync[p].pack
    BY <1>1, <1>3 DEF SyncInv, SameJob, Undisturbed
  <2>2. \A t \in OnList(p) : Good(p, t) => Good(p, t)'
    BY <1>1 DEF Good, SameJob
  <2>3. Worked(p)'
    BY <1>1, <2>1, <2>2 DEF Worked, SameJob, Serving
  <2>4. AtWork(p)'
    BY <1>1, <2>1 DEF AtWork, SameJob
  <2>5. Pruned(p)'
    BY <1>1 DEF Pruned
  <2> QED
    BY <2>1, <2>3, <2>4, <2>5
<1> QED
  BY <1>1, <1>2, <1>3, OneMoves DEF SameJob, Resting, Serving

LEMMA MakeTempKeeps ==
  ASSUME SyncInv, NEW p \in Syncs, MakeTemp(p) PROVE SyncInv'
<1>1. sync[p].pc = "temp" /\ SyncOnly /\ UNCHANGED <<skill, backup, litter>>
  BY DEF MakeTemp
<1>2. CASE FailService(p)
  <2>1. Shapes'
    BY <1>1, <1>2, Fails DEF SyncInv, Shapes, SameJob
  <2> QED
    BY <1>1, <1>2, <2>1, FailureKeeps DEF Resting
<1>3. CASE temp' = [temp EXCEPT ![p] = Bare] /\ SyncAt(p, "fill")
  <2>1. Shapes'
    BY <1>1, <1>3, GoesTo, DirsReal DEF SyncInv, Shapes, SameJob
  <2>2. sync[p].pack \/ ~sync[p].alone
    BY <1>1 DEF SyncInv, Undisturbed, AtWork
  <2> QED
    BY <1>1, <1>3, <2>1, <2>2, InsideKeeps DEF Serving
<1> QED
  BY <1>2, <1>3 DEF MakeTemp

LEMMA FillTempKeeps ==
  ASSUME SyncInv, NEW p \in Syncs, FillTemp(p) PROVE SyncInv'
<1>1. sync[p].pc = "fill" /\ SyncOnly /\ UNCHANGED <<skill, backup, litter>>
  BY DEF FillTemp
<1>2. sync[p].pack \/ ~sync[p].alone
  BY <1>1 DEF SyncInv, Undisturbed, AtWork
<1>3. CASE FailService(p)
  <2>1. Shapes'
    BY <1>1, <1>3, Fails DEF SyncInv, Shapes, SameJob
  <2> QED
    BY <1>1, <1>3, <2>1, FailureKeeps DEF Resting
<1>4. CASE temp' = [temp EXCEPT ![p] = Marked] /\ UNCHANGED sync
  <2>1. Shapes'
    BY <1>1, <1>4, DirsReal DEF SyncInv, Shapes
  <2> QED
    BY <1>1, <1>2, <1>4, <2>1, InsideKeeps DEF Serving
<1>5. CASE /\ temp' = [temp EXCEPT ![p] = Pack(sync[p].list[Service(p)])]
           /\ SyncAt(p, "clear_old")
  <2>1. Shapes'
    BY <1>1, <1>5, GoesTo, DirsReal DEF SyncInv, Shapes, SameJob
  <2>2. \A s \in sync[p].now : temp'[p] = Pack(sync[p].list[s])
    BY <1>1, <1>5, AtService DEF Serving, SyncInv, Shapes
  <2> QED
    BY <1>1, <1>2, <1>5, <2>1, <2>2, InsideKeeps DEF Serving
<1> QED
  BY <1>3, <1>4, <1>5 DEF FillTemp

LEMMA ClearOldKeeps ==
  ASSUME SyncInv, NEW p \in Syncs, ClearOld(p) PROVE SyncInv'
<1>1. sync[p].pc = "clear_old" /\ SyncOnly /\ UNCHANGED <<skill, temp, litter>>
  BY DEF ClearOld
<1>2. PICK c \in {"move_old", "swap"} : SyncAt(p, c)
  BY DEF ClearOld
<1>3. Shapes'
  BY <1>1, <1>2, GoesTo, DirsReal DEF ClearOld, SyncInv, Shapes, SameJob
<1>4. sync[p].pack \/ ~sync[p].alone
  BY <1>1 DEF SyncInv, Undisturbed, AtWork
<1>5. sync[p].alone => \A s \in sync[p].now : temp'[p] = Pack(sync[p].list[s])
  BY <1>1 DEF SyncInv, Undisturbed, AtWork
<1> QED
  BY <1>1, <1>2, <1>3, <1>4, <1>5, InsideKeeps DEF Serving

\* A step that ends, or may end, the writing of a service: that service is good.
LEMMA ServiceDone ==
  ASSUME SyncInv, NEW p \in Syncs, sync[p].pc \in Serving, NEW s \in OnList(p), sync[p].now = {s},
         NEW c \in {"next", "swap", "drop_old"}, SameJob(p), sync'[p].pc = c,
         sync'[p].errs = sync[p].errs, sync'[p].todo = sync[p].todo, sync'[p].now = sync[p].now,
         Shapes', \A t \in Skills \ {s} : skill'[t] = skill[t],
         sync[p].alone /\ c # "swap" => Good(p, s)',
         sync[p].alone /\ c = "swap" => sync[p].pack /\ temp'[p] = Pack(sync[p].list[s])
  PROVE  SyncInv'
<1>1. Placed(p)'
  BY DEF SyncInv, Placed, SameJob, Serving
<1>2. ASSUME sync'[p].alone PROVE sync[p].alone /\ Worked(p)' /\ AtWork(p)' /\ Pruned(p)'
  <2>1. sync[p].alone /\ Worked(p)
    BY <1>2 DEF SyncInv, SameJob, Undisturbed
  <2>2. \A t \in OnList(p) \ {s} : Good(p, t) => Good(p, t)'
    BY DEF Good, SameJob, OnList
  <2>3. Worked(p)'
    BY <2>1, <2>2 DEF Worked, SameJob, Serving
  <2>4. AtWork(p)'
    BY <2>1 DEF AtWork, SameJob
  <2>5. Pruned(p)'
    BY DEF Pruned
  <2> QED
    BY <2>1, <2>3, <2>4, <2>5
<1> QED
  BY <1>1, <1>2, OneMoves DEF SameJob, Resting, Serving

LEMMA MoveOldKeeps ==
  ASSUME SyncInv, NEW p \in Syncs, MoveOld(p) PROVE SyncInv'
<1>1. PICK s \in OnList(p) : sync[p].now = {s} /\ Service(p) = s
  BY AtService DEF MoveOld, Serving
<1>2. sync[p].pc = "move_old" /\ SyncOnly /\ UNCHANGED litter
  BY DEF MoveOld
<1>3. CASE FailService(p) /\ UNCHANGED <<skill, backup>>
  <2>1. Shapes'
    BY <1>2, <1>3, Fails DEF SyncInv, Shapes, SameJob
  <2> QED
    BY <1>2, <1>3, <2>1, FailureKeeps DEF Resting
<1>4. CASE /\ backup' = [backup EXCEPT ![s] = skill[s]]
           /\ skill' = [skill EXCEPT ![s] = NoDir]
           /\ sync' = [sync EXCEPT ![p].pc = "swap", ![p].had = TRUE]
           /\ UNCHANGED temp
  <2>1. DOMAIN sync = Syncs /\ DOMAIN sync[p] = SyncFields
    BY DEF SyncInv, Shapes, Placed
  <2>2. sync' = [sync EXCEPT ![p] = [sync[p] EXCEPT !.pc = "swap", !.had = TRUE]]
    BY <1>4, <2>1
  <2>3. sync'[p] = [sync[p] EXCEPT !.pc = "swap", !.had = TRUE] /\ sync' = [sync EXCEPT ![p] = sync'[p]]
    BY <2>1, <2>2
  <2>4. /\ SameJob(p) /\ sync'[p].pc = "swap" /\ sync'[p].now = sync[p].now
        /\ sync'[p].todo = sync[p].todo /\ sync'[p].errs = sync[p].errs
    BY <2>1, <2>3 DEF SyncFields, SameJob, OnList
  <2>5. Shapes'
    BY <1>2, <1>4, <2>1, <2>3, DirsReal DEF SyncInv, Shapes
  <2>6. sync[p].alone => sync[p].pack /\ temp'[p] = Pack(sync[p].list[s])
    BY <1>1, <1>2, <1>4 DEF SyncInv, Undisturbed, AtWork
  <2>7. \A t \in Skills \ {s} : skill'[t] = skill[t]
    BY <1>4 DEF SyncInv, Shapes
  <2> QED
    BY <1>1, <1>2, <2>4, <2>5, <2>6, <2>7, ServiceDone DEF Serving
<1> QED
  BY <1>1, <1>3, <1>4 DEF MoveOld

LEMMA SwapInKeeps ==
  ASSUME SyncInv, NEW p \in Syncs, SwapIn(p) PROVE SyncInv'
<1>1. PICK s \in OnList(p) : sync[p].now = {s} /\ Service(p) = s
  BY AtService DEF SwapIn, Serving
<1>2. sync[p].pc = "swap" /\ SyncOnly /\ UNCHANGED litter
  BY DEF SwapIn
<1>3. s \in Skills
  BY <1>1 DEF OnList
<1>4. ASSUME FailService(p), skill' = [skill EXCEPT ![s] = backup[s]],
             backup' = [backup EXCEPT ![s] = NoDir]
      PROVE  SyncInv'
  <2>1. Shapes'
    BY <1>2, <1>3, <1>4, Fails, DirsReal DEF SyncInv, Shapes, SameJob
  <2> QED
    BY <1>2, <1>4, <2>1, FailureKeeps DEF Resting
<1>5. ASSUME FailService(p), UNCHANGED <<skill, backup>> PROVE SyncInv'
  <2>1. Shapes'
    BY <1>2, <1>5, Fails DEF SyncInv, Shapes, SameJob
  <2> QED
    BY <1>2, <1>5, <2>1, FailureKeeps DEF Resting
<1>6. ASSUME skill' = [skill EXCEPT ![s] = temp[p]], temp' = [temp EXCEPT ![p] = NoDir],
             SyncAt(p, IF sync[p].had THEN "drop_old" ELSE "next"), UNCHANGED backup
      PROVE  SyncInv'
  <2>1. PICK c \in {"next", "drop_old"} : SyncAt(p, c)
    BY <1>6
  <2>2. Shapes'
    BY <1>2, <1>3, <1>6, <2>1, GoesTo, DirsReal DEF SyncInv, Shapes, SameJob
  <2>3. skill'[s] = temp[p] /\ \A t \in Skills \ {s} : skill'[t] = skill[t]
    BY <1>3, <1>6 DEF SyncInv, Shapes
  <2>4. ASSUME sync[p].alone PROVE Good(p, s)'
    <3>1. sync[p].pack /\ temp[p] = Pack(sync[p].list[s])
      BY <1>1, <1>2, <2>4 DEF SyncInv, Undisturbed, AtWork
    <3> QED
      BY <2>1, <2>3, <3>1, GoesTo, DirsReal DEF Good, SameJob
  <2> QED
    BY <1>1, <1>2, <2>1, <2>2, <2>3, <2>4, GoesTo, ServiceDone DEF Serving
<1> QED
  BY <1>1, <1>4, <1>5, <1>6 DEF SwapIn

LEMMA DropOldKeeps ==
  ASSUME SyncInv, NEW p \in Syncs, DropOld(p) PROVE SyncInv'
<1>1. PICK s \in OnList(p) : sync[p].now = {s} /\ Service(p) = s
  BY AtService DEF DropOld, Serving
<1>2. /\ sync[p].pc = "drop_old" /\ SyncAt(p, "next") /\ UNCHANGED <<skill, temp>>
      /\ backup' = [backup EXCEPT ![s] = NoDir]
  BY <1>1 DEF DropOld
<1>3. Shapes'
  BY <1>2, GoesTo, DirsReal DEF SyncInv, Shapes, SameJob
<1>4. sync[p].alone => Good(p, s)
  BY <1>1, <1>2 DEF SyncInv, Undisturbed, AtWork
<1>5. Good(p, s) => Good(p, s)'
  BY <1>2, GoesTo DEF Good, SameJob
<1> QED
  BY <1>1, <1>2, <1>3, <1>4, <1>5, GoesTo, ServiceDone DEF Serving

-----------------------------------------------------------------------------
(***************************************************************************)
(* The pruning, and the end.                                               *)
(***************************************************************************)
LEMMA EntryFields ==
  /\ \A kind, of : Entry(kind, of).kind = kind /\ Entry(kind, of).of = of
  /\ \A k, l, x, y : Entry(k, x) = Entry(l, y) => k = l /\ x = y
<1>1. \A kind, of : Entry(kind, of).kind = kind /\ Entry(kind, of).of = of
  BY DEF Entry
<1> QED
  BY <1>1

LEMMA ListEntriesKeeps ==
  ASSUME SyncInv, NEW p \in Syncs, ListEntries(p) PROVE SyncInv'
<1> DEFINE marks == {Entry("skill", s) : s \in {s \in Skills \ OnList(p) : skill[s].there}}
           baks == {Entry("backup", s) : s \in {s \in Skills : backup[s].there}}
           tmps == {Entry("temp", q) : q \in {q \in Syncs : temp[q].there}}
           rest == {Entry("litter", x) : x \in litter}
           found == marks \union baks \union tmps \union rest
<1>1. /\ sync[p].pc = "entries" /\ UNCHANGED dirVars
      /\ sync' = [sync EXCEPT ![p].pc = "prune", ![p].entries = found]
  BY DEF ListEntries
<1>2. \A e \in found : e.kind = "skill" => e.of \notin OnList(p)
  <2>1. \A e \in marks : e.of \notin OnList(p)
    BY EntryFields
  <2>2. \A e \in baks \union tmps \union rest : e.kind # "skill"
    BY EntryFields
  <2> QED
    BY <2>1, <2>2
<1>3. /\ \A s \in Skills : backup[s].there => Entry("backup", s) \in found
      /\ \A s \in Skills \ OnList(p) : skill[s].there => Entry("skill", s) \in found
      /\ \A x \in litter : Entry("litter", x) \in found
  OBVIOUS
<1> HIDE DEF found
<1>4. DOMAIN sync = Syncs /\ DOMAIN sync[p] = SyncFields
  BY DEF SyncInv, Shapes, Placed
<1>5. sync' = [sync EXCEPT ![p] = [sync[p] EXCEPT !.pc = "prune", !.entries = found]]
  BY <1>1, <1>4
<1>6. /\ sync'[p] = [sync[p] EXCEPT !.pc = "prune", !.entries = found]
      /\ DOMAIN sync' = Syncs /\ \A q \in Syncs \ {p} : sync'[q] = sync[q]
  BY <1>4, <1>5
<1>7. /\ SameJob(p) /\ sync'[p].pc = "prune" /\ sync'[p].entries = found
      /\ sync'[p].todo = sync[p].todo /\ sync'[p].errs = sync[p].errs
  BY <1>4, <1>6 DEF SyncFields, SameJob, OnList
<1>8. Shapes'
  BY <1>1, <1>6 DEF SyncInv, Shapes, dirVars
<1>9. Placed(p)'
  BY <1>2, <1>7 DEF SyncInv, Placed, SameJob, Serving
<1>10. ASSUME sync'[p].alone PROVE sync[p].alone /\ Worked(p)' /\ AtWork(p)' /\ Pruned(p)'
  <2>1. sync[p].alone /\ Worked(p) /\ Pruned(p)
    BY <1>7, <1>10 DEF SyncInv, SameJob, Undisturbed
  <2>2. \A t \in OnList(p) : Good(p, t) => Good(p, t)'
    BY <1>1, <1>7 DEF Good, SameJob, dirVars
  <2>3. Worked(p)'
    BY <1>1, <1>7, <2>1, <2>2 DEF Worked, SameJob, Serving
  <2>4. AtWork(p)'
    BY <1>7 DEF AtWork
  <2>5. Pruned(p)'
    <3>1. sync[p].full
      BY <1>1, <2>1 DEF Pruned
    <3>2. \A s \in Skills : /\ backup'[s].marker => Entry("backup", s) \in found
                            /\ s \notin OnList(p) /\ skill'[s].marker => Entry("skill", s) \in found
      BY <1>1, <1>3 DEF dirVars, SyncInv, Shapes, Real
    <3>3. "marked" \in litter' => Entry("litter", "marked") \in found
      BY <1>1, <1>3 DEF dirVars
    <3> QED
      BY <1>7, <3>1, <3>2, <3>3 DEF Pruned, SameJob
  <2> QED
    BY <2>1, <2>3, <2>4, <2>5
<1> QED
  BY <1>1, <1>7, <1>8, <1>9, <1>10, OneMoves DEF SameJob, Resting

LEMMA PruneKeeps ==
  ASSUME SyncInv, NEW p \in Syncs, Prune(p) PROVE SyncInv'
<1>1. sync[p].pc = "prune" /\ SyncOnly
  BY DEF Prune
<1>2. DOMAIN sync = Syncs /\ DOMAIN sync[p] = SyncFields
  BY DEF SyncInv, Shapes, Placed
<1>3. CASE sync[p].entries = {} /\ SyncAt(p, "meta") /\ UNCHANGED dirVars
  <2>1. Shapes'
    BY <1>3, GoesTo DEF SyncInv, Shapes, SameJob, dirVars
  <2>2. Placed(p)'
    BY <1>3, GoesTo DEF SyncInv, Placed, SameJob, Serving
  <2>3. ASSUME sync'[p].alone PROVE sync[p].alone /\ Worked(p)' /\ AtWork(p)' /\ Pruned(p)'
    <3>1. sync[p].alone /\ Worked(p) /\ Pruned(p)
      BY <1>3, <2>3, GoesTo DEF SyncInv, SameJob, Undisturbed
    <3>2. \A t \in OnList(p) : Good(p, t) => Good(p, t)'
      BY <1>3, GoesTo DEF Good, SameJob, dirVars
    <3>3. Worked(p)'
      BY <1>1, <1>3, <3>1, <3>2, GoesTo DEF Worked, SameJob, Serving
    <3>4. AtWork(p)'
      BY <1>3, GoesTo DEF AtWork
    <3>5. Pruned(p)'
      BY <1>1, <1>3, <3>1, GoesTo DEF Pruned, SameJob, dirVars
    <3> QED
      BY <3>1, <3>3, <3>4, <3>5
  <2> QED
    BY <1>1, <1>3, <2>1, <2>2, <2>3, GoesTo, OneMoves DEF SameJob, Resting
<1>4. ASSUME NEW e \in sync[p].entries, RemoveEntry(p, e),
             sync' = [sync EXCEPT ![p].entries = @ \ {e}]
      PROVE  SyncInv'
  <2>1. sync' = [sync EXCEPT ![p] = [sync[p] EXCEPT !.entries = sync[p].entries \ {e}]]
    BY <1>2, <1>4 DEF SyncFields
  <2>2. /\ sync'[p] = [sync[p] EXCEPT !.entries = sync[p].entries \ {e}]
        /\ DOMAIN sync' = Syncs /\ \A q \in Syncs \ {p} : sync'[q] = sync[q]
    BY <1>2, <2>1
  <2>3. /\ SameJob(p) /\ sync'[p].pc = "prune" /\ sync'[p].entries = sync[p].entries \ {e}
        /\ sync'[p].todo = sync[p].todo /\ sync'[p].errs = sync[p].errs
    BY <1>1, <1>2, <2>2 DEF SyncFields, SameJob, OnList
  <2>4. Shapes'
    BY <1>4, <2>2, DirsReal DEF SyncInv, Shapes, RemoveEntry
  <2>5. Placed(p)'
    BY <1>1, <2>3 DEF SyncInv, Placed, SameJob, Serving
  <2>6. ASSUME sync'[p].alone PROVE sync[p].alone /\ Worked(p)' /\ AtWork(p)' /\ Pruned(p)'
    <3>1. sync[p].alone /\ Worked(p) /\ Pruned(p)
      BY <2>3, <2>6 DEF SyncInv, SameJob, Undisturbed
    <3>2. \A t \in OnList(p) : skill'[t] = skill[t]
      BY <1>1, <1>4 DEF SyncInv, Placed, Shapes, RemoveEntry, OnList
    <3>3. \A t \in OnList(p) : Good(p, t) => Good(p, t)'
      BY <2>3, <3>2 DEF Good, SameJob
    <3>4. Worked(p)'
      BY <1>1, <2>3, <3>1, <3>3 DEF Worked, SameJob, Serving
    <3>5. AtWork(p)'
      BY <2>3 DEF AtWork
    <3>6. Pruned(p)'
      <4>1. \A s \in Skills : backup'[s].marker => backup[s].marker /\ e # Entry("backup", s)
        BY <1>4, EntryFields, DirsReal DEF RemoveEntry, SyncInv, Shapes
      <4>2. \A s \in Skills : skill'[s].marker => skill[s].marker /\ e # Entry("skill", s)
        BY <1>4, EntryFields, DirsReal DEF RemoveEntry, SyncInv, Shapes
      <4>3. "marked" \in litter' => "marked" \in litter /\ e # Entry("litter", "marked")
        BY <1>4, EntryFields DEF RemoveEntry
      <4> QED
        BY <1>1, <2>3, <3>1, <4>1, <4>2, <4>3 DEF Pruned, SameJob
    <3> QED
      BY <3>1, <3>4, <3>5, <3>6
  <2> QED
    BY <1>1, <2>3, <2>4, <2>5, <2>6, OneMoves DEF SameJob, Resting
<1>5. ASSUME NEW e \in sync[p].entries, UNCHANGED dirVars,
             sync' = [sync EXCEPT ![p].entries = @ \ {e}, ![p].errs = TRUE]
      PROVE  SyncInv'
  <2>1. sync' = [sync EXCEPT ![p] = [sync[p] EXCEPT !.entries = sync[p].entries \ {e}, !.errs = TRUE]]
    BY <1>2, <1>5 DEF SyncFields
  <2>2. /\ sync'[p] = [sync[p] EXCEPT !.entries = sync[p].entries \ {e}, !.errs = TRUE]
        /\ DOMAIN sync' = Syncs /\ \A q \in Syncs \ {p} : sync'[q] = sync[q]
    BY <1>2, <2>1
  <2>3. /\ SameJob(p) /\ sync'[p].pc = "prune" /\ sync'[p].entries = sync[p].entries \ {e}
        /\ sync'[p].todo = sync[p].todo /\ sync'[p].errs = TRUE
    BY <1>1, <1>2, <2>2 DEF SyncFields, SameJob, OnList
  <2>4. Shapes'
    BY <1>5, <2>2 DEF SyncInv, Shapes, dirVars
  <2>5. Placed(p)'
    BY <1>1, <2>3 DEF SyncInv, Placed, SameJob, Serving
  <2>6. ASSUME sync'[p].alone PROVE sync[p].alone /\ Worked(p)' /\ AtWork(p)' /\ Pruned(p)'
    <3>1. sync[p].alone /\ Pruned(p)
      BY <2>3, <2>6 DEF SyncInv, SameJob, Undisturbed
    <3> QED
      BY <1>1, <2>3, <3>1 DEF Worked, AtWork, Pruned, SameJob, Serving
  <2> QED
    BY <1>1, <2>3, <2>4, <2>5, <2>6, OneMoves DEF SameJob, Resting
<1> QED
  BY <1>3, <1>4, <1>5 DEF Prune

LEMMA SucceedKeeps ==
  ASSUME SyncInv, NEW p \in Syncs, sync[p].pc \in {"meta", "record"}, Succeed(p), UNCHANGED dirVars,
         sync[p].alone => ~sync[p].errs /\ meta'
  PROVE  SyncInv'
<1> DEFINE r == [AtRest EXCEPT !.pc = "ok", !.list = sync[p].list, !.pack = sync[p].pack,
                               !.full = sync[p].full, !.alone = sync[p].alone]
<1>1. DOMAIN sync = Syncs
  BY DEF SyncInv, Shapes
<1>2. sync'[p] = r /\ DOMAIN sync' = Syncs /\ \A q \in Syncs \ {p} : sync'[q] = sync[q]
  BY <1>1 DEF Succeed
<1>3. /\ DOMAIN r = SyncFields /\ r.pc = "ok" /\ r.list = sync[p].list /\ r.pack = sync[p].pack
      /\ r.full = sync[p].full /\ r.alone = sync[p].alone /\ ~r.errs /\ r.todo = {}
  BY RestFields DEF SyncFields
<1> HIDE DEF r
<1>4. OnList(p)' = OnList(p)
  BY <1>2, <1>3 DEF OnList
<1>5. Shapes'
  BY <1>2 DEF SyncInv, Shapes, dirVars
<1>6. Placed(p)'
  BY <1>2, <1>3 DEF Placed, Serving
<1>7. ASSUME sync'[p].alone PROVE sync[p].alone /\ Worked(p)' /\ AtWork(p)' /\ Pruned(p)'
  <2>1. sync[p].alone /\ Worked(p) /\ Pruned(p) /\ ~sync[p].errs /\ meta'
    BY <1>2, <1>3, <1>7 DEF SyncInv, Undisturbed
  <2>2. \A t \in OnList(p) : Good(p, t) => Good(p, t)'
    BY <1>2, <1>3 DEF Good, dirVars
  <2>3. Worked(p)'
    BY <1>2, <1>3, <1>4, <2>1, <2>2 DEF Worked, Serving
  <2>4. AtWork(p)'
    BY <1>2, <1>3 DEF AtWork
  <2>5. Pruned(p)'
    BY <1>2, <1>3, <1>4, <2>1 DEF Pruned, dirVars
  <2> QED
    BY <2>1, <2>3, <2>4, <2>5
<1> QED
  BY <1>2, <1>5, <1>6, <1>7, OneMoves DEF Resting

\* A command that gives up, or is killed.
LEMMA RestKeeps ==
  ASSUME SyncInv, NEW p \in Syncs, sync[p].pc \notin Resting, sync' = [sync EXCEPT ![p] = AtRest],
         Shapes'
  PROVE  SyncInv'
<1>1. sync'[p] = AtRest /\ \A q \in Syncs \ {p} : sync'[q] = sync[q]
  BY DEF SyncInv, Shapes
<1>2. Placed(p)' /\ ~sync'[p].alone
  BY <1>1, RestFields DEF Placed, Serving
<1> QED
  BY <1>1, <1>2, OneMoves

LEMMA WriteMetaKeeps ==
  ASSUME SyncInv, NEW p \in Syncs, WriteMeta(p) PROVE SyncInv'
<1>1. sync[p].pc = "meta" /\ UNCHANGED dirVars
  BY DEF WriteMeta
<1>2. CASE sync' = [sync EXCEPT ![p] = AtRest]
  BY <1>1, <1>2, RestKeeps DEF SyncInv, Shapes, dirVars, Resting
<1>3. CASE ~sync[p].errs /\ meta' = TRUE /\ ~sync[p].full /\ Succeed(p)
  BY <1>1, <1>3, SucceedKeeps
<1>4. CASE ~sync[p].errs /\ meta' = TRUE /\ sync[p].full /\ SyncAt(p, "record")
  <2>1. Shapes'
    BY <1>1, <1>4, GoesTo DEF SyncInv, Shapes, SameJob, dirVars
  <2>2. Placed(p)'
    BY <1>4, GoesTo DEF SyncInv, Placed, SameJob, Serving
  <2>3. ASSUME sync'[p].alone PROVE sync[p].alone /\ Worked(p)' /\ AtWork(p)' /\ Pruned(p)'
    <3>1. sync[p].alone /\ Worked(p) /\ Pruned(p)
      BY <1>4, <2>3, GoesTo DEF SyncInv, SameJob, Undisturbed
    <3>2. \A t \in OnList(p) : Good(p, t) => Good(p, t)'
      BY <1>1, <1>4, GoesTo DEF Good, SameJob, dirVars
    <3>3. Worked(p)'
      BY <1>1, <1>4, <3>1, <3>2, GoesTo DEF Worked, SameJob, Serving
    <3>4. AtWork(p)'
      BY <1>4, GoesTo DEF AtWork
    <3>5. Pruned(p)'
      BY <1>1, <1>4, <3>1, GoesTo DEF Pruned, SameJob, dirVars
    <3> QED
      BY <3>1, <3>3, <3>4, <3>5
  <2> QED
    BY <1>1, <1>4, <2>1, <2>2, <2>3, GoesTo, OneMoves DEF SameJob, Resting
<1> QED
  BY <1>2, <1>3, <1>4 DEF WriteMeta

LEMMA RecordSyncKeeps ==
  ASSUME SyncInv, NEW p \in Syncs, RecordSync(p) PROVE SyncInv'
<1>1. sync[p].pc = "record" /\ Succeed(p) /\ UNCHANGED dirVars /\ UNCHANGED meta
  BY DEF RecordSync
<1>2. sync[p].alone => meta /\ ~sync[p].errs
  BY <1>1 DEF SyncInv, Undisturbed, Worked
<1> QED
  BY <1>1, <1>2, SucceedKeeps

LEMMA KillSyncKeeps ==
  ASSUME SyncInv, NEW p \in Syncs, KillSync(p) PROVE SyncInv'
<1>1. Shapes'
  BY DirsReal DEF KillSync, SyncInv, Shapes
<1> QED
  BY <1>1, RestKeeps DEF KillSync

LEMMA SyncStepKeeps ==
  ASSUME SyncInv, NEW p \in Syncs, SyncStep(p) PROVE SyncInv'
<1>1. ASSUME NEW asked \in SUBSET Skills, NEW full \in BOOLEAN, NEW force \in BOOLEAN,
             BeginSync(p, asked, full, force)
      PROVE  SyncInv'
  BY <1>1, BeginKeeps
<1>2. CASE ListPacks(p) \/ NextService(p) \/ Look(p)
  BY <1>2, ListPacksKeeps, NextServiceKeeps, LookKeeps
<1>3. CASE WriteSkillMD(p) \/ WriteMarker(p)
  BY <1>3, WriteSkillMDKeeps, WriteMarkerKeeps
<1>4. CASE MakeTemp(p) \/ FillTemp(p) \/ ClearOld(p) \/ MoveOld(p) \/ SwapIn(p) \/ DropOld(p)
  BY <1>4, MakeTempKeeps, FillTempKeeps, ClearOldKeeps, MoveOldKeeps, SwapInKeeps, DropOldKeeps
<1>5. CASE ListEntries(p) \/ Prune(p) \/ WriteMeta(p) \/ RecordSync(p) \/ KillSync(p)
  BY <1>5, ListEntriesKeeps, PruneKeeps, WriteMetaKeeps, RecordSyncKeeps, KillSyncKeeps
<1> QED
  BY <1>1, <1>2, <1>3, <1>4, <1>5 DEF SyncStep

LEMMA UserEditsKeeps ==
  ASSUME SyncInv, NEW s \in Skills, UserEdits(s) PROVE SyncInv'
<1> DEFINE d == CASE ~skill[s].there -> UserDir
                  [] OTHER -> [skill[s] EXCEPT !.marker = FALSE, !.extra = TRUE]
<1>1. /\ skill' = [skill EXCEPT ![s] = d] /\ sync' = Disturbed
      /\ UNCHANGED <<backup, temp>>
  BY DEF UserEdits
<1>2. Real(d)
  <2>1. CASE ~skill[s].there
    BY <2>1, DirsReal
  <2>2. CASE skill[s].there
    <3>1. d = [skill[s] EXCEPT !.marker = FALSE, !.extra = TRUE]
      BY <2>2
    <3> HIDE DEF d
    <3>2. Real(skill[s])
      BY DEF SyncInv, Shapes
    <3>3. /\ DOMAIN d = DirFields /\ d.there = skill[s].there /\ d.marker = FALSE
      BY <3>1, <3>2 DEF Real, DirFields
    <3> QED
      BY <2>2, <3>3 DEF Real
  <2> QED
    BY <2>1, <2>2
<1> HIDE DEF d
<1>3. Shapes'
  BY <1>1, <1>2, AllDisturbed DEF SyncInv, Shapes
<1> QED
  BY <1>1, <1>3, ChangesKeep

LEMMA SyncNextKeeps ==
  ASSUME SyncInv, [SyncNext]_syncVars PROVE SyncInv'
<1>1. ASSUME NEW s \in Skills, NEW v \in Versions, ChangeService(s, v) PROVE SyncInv'
  <2>1. Shapes'
    BY <1>1, AllDisturbed DEF ChangeService, SyncInv, Shapes
  <2> QED
    BY <1>1, <2>1, ChangesKeep DEF ChangeService
<1>2. CASE UNCHANGED syncVars
  BY <1>2 DEF syncVars, SyncInv, Shapes, Placed, Undisturbed, Worked, AtWork, Pruned, Good, OnList
<1> QED
  BY <1>1, <1>2, SyncStepKeeps, UserEditsKeeps DEF SyncNext

LEMMA SyncInvHeals == SyncInv => SyncHeals
  BY DEF SyncInv, Undisturbed, Worked, Pruned, Good, SyncHeals

\* A sync of the agents' skills that answers without an error, and that nobody
\* disturbed, has left every service it listed as it listed it and nothing of
\* kimbap's besides, for any services, commands, failures and kills before it
\* (agents.SyncServices, atomicWriteDir, pruneStaleServices).
THEOREM SyncsHeal == SyncSpec => []SyncHeals
<1>1. SyncInv /\ [SyncNext]_syncVars => SyncInv'
  BY SyncNextKeeps
<1> QED
  BY <1>1, SyncInvInit, SyncInvHeals, PTL DEF SyncSpec
-----------------------------------------------------------------------------
(***************************************************************************)
(* kimbap run: its tunnels are its slots, and what it finds when it ends   *)
(* is what its exit code tells.                                            *)
(***************************************************************************)
TunnelConns == {c \in Conns : conn[c].kind = "tunnel"}

\* The bundle is there only while the child may need it, a child is killed only
\* for a signal, and what the deferred calls find is what the exit code tells.
EarlyPcs == {"build", "proxy", "await", "spawn"}
LatePcs == {"clean", "stop", "shutdown", "drain", "exit", "ended"}

ChildInv ==
  /\ run.pc \in EarlyPcs => child.pc = "none"
  /\ child.killed # "no" => stopped
  /\ bundle => run.pc \in {"wait", "reap", "clean"}
  /\ run.pc = "reap" => child.killed # "no"
  /\ run.pc \in LatePcs =>
       /\ run.result = "child" => child.pc = "exited"
       /\ run.result = "interrupted" => stopped
       /\ run.result # "child" => child.pc = "none" \/ child.killed # "no"
  /\ run.pc = "ended" =>
       /\ run.result = "child" => run.exit = child.code
       /\ run.result # "child" => run.exit = IF run.result = "interrupted" THEN Interrupted ELSE 1

RunInv == RunTypeOK /\ IsFiniteSet(TunnelConns) /\ ChildInv

LEMMA RunInvInit == RunInit => RunInv
<1> SUFFICES ASSUME RunInit PROVE RunInv
  OBVIOUS
<1>1. TunnelConns = {}
  BY DEF TunnelConns, RunInit, NoConn
<1>2. IsFiniteSet(TunnelConns) /\ Cardinality(TunnelConns) = 0
  BY <1>1, FS_EmptySet
<1>3. RunTypeOK
  <2>1. run \in RunRow /\ child \in ChildRow /\ proxy \in ProxyRow
    BY DEF RunInit, RunRow, ChildRow, ProxyRow, Codes
  <2>2. conn \in [Conns -> ConnRow]
    BY DEF RunInit, NoConn, ConnRow
  <2>3. slots \in 0..MaxConnects /\ slots = Cardinality(TunnelConns) /\ bundle = FALSE /\ stopped = FALSE
    BY <1>2, RunAssumption DEF RunInit
  <2> QED
    BY <2>1, <2>2, <2>3 DEF RunTypeOK, TunnelConns
<1>4. ChildInv
  BY DEF RunInit, ChildInv, LatePcs, EarlyPcs
<1> QED
  BY <1>2, <1>3, <1>4 DEF RunInv

LEMMA TunnelsMove ==
  ASSUME NEW T, IsFiniteSet(T), NEW c
  PROVE  /\ IsFiniteSet(T \union {c}) /\ IsFiniteSet(T \ {c})
         /\ Cardinality(T) \in Nat
         /\ c \notin T => Cardinality(T \union {c}) = Cardinality(T) + 1
         /\ c \in T => Cardinality(T \ {c}) = Cardinality(T) - 1 /\ Cardinality(T) >= 1
<1>1. IsFiniteSet(T \union {c}) /\ (c \notin T => Cardinality(T \union {c}) = Cardinality(T) + 1)
  BY FS_AddElement
<1>2. IsFiniteSet(T \ {c}) /\ (c \in T => Cardinality(T \ {c}) = Cardinality(T) - 1)
  BY FS_RemoveElement
<1>3. Cardinality(T) \in Nat /\ Cardinality(T \ {c}) \in Nat
  BY <1>2, FS_CardinalityType
<1> QED
  BY <1>1, <1>2, <1>3

\* A step of a connection leaves the rest alone and takes or gives back one slot.
LEMMA ConnStepKeeps ==
  ASSUME RunInv, NEW c \in Conns, ConnStep(c)
  PROVE  RunInv'
<1> DEFINE Kinds == {"none", "plain", "tunnel"}
           Pcs == {"idle", "handshake", "request", "execute", "answer"}
<1>1. UNCHANGED <<run, child, bundle, stopped, proxy>>
  BY DEF ConnStep, HandleHTTP, HandleConnect, Handshake, ReadRequest, Classify, Execute, Answer, ConnOnly
<1>2. PICK k \in Kinds, p \in Pcs :
        /\ conn' = [conn EXCEPT ![c] = [kind |-> k, pc |-> p]]
        /\ \/ k = "tunnel" /\ conn[c].kind # "tunnel" /\ slots < MaxConnects /\ slots' = slots + 1
           \/ k # "tunnel" /\ conn[c].kind = "tunnel" /\ slots' = slots - 1
           \/ (k = "tunnel" <=> conn[c].kind = "tunnel") /\ slots' = slots
  <2> USE DEF Set, Close, TunnelReturns, NoConn
  <2>1. CASE HandleHTTP(c)
    BY <2>1 DEF HandleHTTP
  <2>2. CASE HandleConnect(c)
    BY <2>2 DEF HandleConnect
  <2>3. CASE Handshake(c)
    BY <2>3 DEF Handshake
  <2>4. CASE ReadRequest(c)
    BY <2>4 DEF ReadRequest
  <2>5. CASE \E upgrade, matched, readable \in BOOLEAN : Classify(c, upgrade, matched, readable)
    <3>1. conn[c].kind \in Kinds
      BY DEF RunInv, RunTypeOK, ConnRow
    <3> QED
      BY <2>5, <3>1 DEF Classify
  <2>6. CASE Execute(c)
    <3>1. conn[c].kind \in Kinds
      BY DEF RunInv, RunTypeOK, ConnRow
    <3> QED
      BY <2>6, <3>1 DEF Execute
  <2>7. CASE Answer(c)
    BY <2>7 DEF Answer
  <2> QED
    BY <2>1, <2>2, <2>3, <2>4, <2>5, <2>6, <2>7 DEF ConnStep
<1>3. conn' \in [Conns -> [kind : Kinds, pc : Pcs]]
  <2>1. [kind |-> k, pc |-> p] \in [kind : Kinds, pc : Pcs]
    OBVIOUS
  <2> QED
    BY <1>2, <2>1 DEF RunInv, RunTypeOK, ConnRow
<1>4. /\ k = "tunnel" => TunnelConns' = TunnelConns \union {c}
      /\ k # "tunnel" => TunnelConns' = TunnelConns \ {c}
      /\ c \in TunnelConns <=> conn[c].kind = "tunnel"
  BY <1>2 DEF TunnelConns, RunInv, RunTypeOK, ConnRow
<1>5. /\ IsFiniteSet(TunnelConns) /\ slots = Cardinality(TunnelConns) /\ slots \in 0..MaxConnects
      /\ MaxConnects \in Nat
  BY RunAssumption DEF RunInv, RunTypeOK, ConnRow, TunnelConns
<1>6. IsFiniteSet(TunnelConns') /\ slots' = Cardinality(TunnelConns') /\ slots' \in 0..MaxConnects
  <2>1. CASE k = "tunnel" /\ conn[c].kind # "tunnel"
    BY <2>1, <1>2, <1>4, <1>5, TunnelsMove
  <2>2. CASE k # "tunnel" /\ conn[c].kind = "tunnel"
    <3>1. /\ IsFiniteSet(TunnelConns \ {c}) /\ slots \in Nat /\ slots >= 1
          /\ Cardinality(TunnelConns \ {c}) = slots - 1
      BY <2>2, <1>4, <1>5, TunnelsMove
    <3>2. slots' = slots - 1 /\ TunnelConns' = TunnelConns \ {c}
      BY <2>2, <1>2, <1>4
    <3> QED
      BY <3>1, <3>2, <1>5
  <2>3. CASE k = "tunnel" <=> conn[c].kind = "tunnel"
    <3>1. TunnelConns' = TunnelConns /\ slots' = slots
      BY <2>3, <1>2, <1>4
    <3> QED
      BY <3>1, <1>5
  <2> QED
    BY <2>1, <2>2, <2>3
<1>7. RunTypeOK'
  BY <1>1, <1>3, <1>6 DEF RunInv, RunTypeOK, ConnRow, TunnelConns
<1>8. ChildInv'
  BY <1>1 DEF RunInv, ChildInv
<1> QED
  BY <1>6, <1>7, <1>8 DEF RunInv

\* The fields of the rows the steps change.
LEMMA RunMoves ==
  ASSUME run \in RunRow, NEW p \in {"proxy", "await", "spawn", "wait", "reap", "clean", "stop",
                                    "shutdown", "drain", "exit", "ended"},
         NEW r \in {"none", "child", "interrupted", "error"}, NEW e \in Codes \union {Interrupted}
  PROVE  /\ To(p) => run' \in RunRow /\ run'.pc = p /\ run'.result = run.result /\ run'.exit = run.exit
         /\ Return(r, p) => run' \in RunRow /\ run'.pc = p /\ run'.result = r /\ run'.exit = run.exit
         /\ run' = [run EXCEPT !.pc = p, !.exit = e] =>
              run' \in RunRow /\ run'.pc = p /\ run'.result = run.result /\ run'.exit = e
  BY DEF RunRow, To, Return

LEMMA ChildMoves ==
  ASSUME child \in ChildRow, NEW p \in {"running", "exited"}, NEW c \in Codes,
         NEW k \in {"sent", "failed"}
  PROVE  /\ child' = [child EXCEPT !.pc = p] =>
              child' \in ChildRow /\ child'.pc = p /\ child'.code = child.code /\ child'.killed = child.killed
         /\ child' = [child EXCEPT !.killed = k] =>
              child' \in ChildRow /\ child'.pc = child.pc /\ child'.code = child.code /\ child'.killed = k
         /\ child' = [child EXCEPT !.pc = p, !.code = c] =>
              child' \in ChildRow /\ child'.pc = p /\ child'.code = c /\ child'.killed = child.killed
  BY DEF ChildRow

LEMMA ProxyMoves ==
  ASSUME proxy \in ProxyRow, NEW p \in {"listen", "publish", "ended", "serve"}, NEW b \in BOOLEAN
  PROVE  /\ [proxy EXCEPT !.pc = p] \in ProxyRow
         /\ [proxy EXCEPT !.cancelled = TRUE] \in ProxyRow
         /\ [proxy EXCEPT !.pc = p, !.published = b, !.watcher = b] \in ProxyRow
         /\ Taken("watcher") \in ProxyRow /\ Taken("runner") \in ProxyRow
         /\ [Taken("watcher") EXCEPT !.watcher = FALSE] \in ProxyRow
<1>1. \A w \in {"watcher", "runner"} : Taken(w) \in ProxyRow
  <2> TAKE w \in {"watcher", "runner"}
  <2>1. CASE proxy.published
    BY <2>1 DEF Taken, ProxyRow
  <2>2. CASE ~proxy.published
    BY <2>2 DEF Taken, ProxyRow
  <2> QED
    BY <2>1, <2>2
<1>2. PICK t \in ProxyRow : t = Taken("watcher")
  BY <1>1
<1>3. [t EXCEPT !.watcher = FALSE] \in ProxyRow
  BY DEF ProxyRow
<1>4. /\ [proxy EXCEPT !.pc = p] \in ProxyRow
      /\ [proxy EXCEPT !.cancelled = TRUE] \in ProxyRow
      /\ [proxy EXCEPT !.pc = p, !.published = b, !.watcher = b] \in ProxyRow
  BY DEF ProxyRow
<1> QED
  BY <1>1, <1>2, <1>3, <1>4

\* Every other step of the proxy leaves the command and its child alone.
LEMMA ProxyStepKeeps ==
  ASSUME RunInv, ProxyStep
  PROVE  RunInv'
<1>1. UNCHANGED <<run, child, bundle, stopped, conn, slots>>
  BY DEF ProxyStep, Listen, Publish, ServeEnds, WatcherStops, ProxyOnly
<1>2. proxy' \in ProxyRow
  <2>1. proxy \in ProxyRow
    BY DEF RunInv, RunTypeOK
  <2> QED
    BY <2>1, ProxyMoves DEF ProxyStep, Listen, Publish, ServeEnds, WatcherStops
<1>3. TunnelConns' = TunnelConns
  BY <1>1 DEF TunnelConns
<1> QED
  BY <1>1, <1>2, <1>3 DEF RunInv, RunTypeOK, ChildInv

\* The steps of the command, of its child and of who signals it, none of which
\* touches a tunnel.
LEMMA CommandStepKeeps ==
  ASSUME RunInv, CommandStep \/ Signal \/ \E code \in Codes : ChildExits(code)
  PROVE  RunInv'
<1>1. /\ run \in RunRow /\ child \in ChildRow /\ proxy \in ProxyRow
      /\ bundle \in BOOLEAN /\ stopped \in BOOLEAN /\ ChildInv
  BY DEF RunInv, RunTypeOK
<1>2. TunnelConns' = TunnelConns /\ slots' = slots /\ conn' \in [Conns -> ConnRow]
  <2>1. conn \in [Conns -> ConnRow]
    BY DEF RunInv, RunTypeOK
  <2>2. CASE ShutdownEnds
    BY <2>1, <2>2 DEF ShutdownEnds, TunnelConns, InFlight, NoConn, ConnRow
  <2>3. CASE ~ShutdownEnds
    <3>1. UNCHANGED <<conn, slots>>
      BY <2>3 DEF CommandStep, Signal, ChildExits, BuildRuntime, StartProxy, AwaitProxy, Spawn, Wait,
                  Reap, CleanUp, RunnerStops, Drained, Exit, ProxySame
    <3> QED
      BY <2>1, <3>1 DEF TunnelConns
  <2> QED
    BY <2>2, <2>3
<1> DEFINE Own == /\ run' \in RunRow /\ child' \in ChildRow /\ proxy' \in ProxyRow
                  /\ bundle' \in BOOLEAN /\ stopped' \in BOOLEAN
<1>3. Own /\ ChildInv'
  <2> USE DEF ChildInv, EarlyPcs, LatePcs, ProxySame
  <2>1. CASE BuildRuntime
    BY <1>1, <2>1, RunMoves DEF BuildRuntime
  <2>2. CASE StartProxy
    BY <1>1, <2>2, RunMoves, ProxyMoves DEF StartProxy
  <2>3. CASE AwaitProxy
    BY <1>1, <2>3, RunMoves, ProxyMoves DEF AwaitProxy
  <2>4. CASE Spawn
    <3>1. /\ bundle' \in BOOLEAN /\ UNCHANGED <<stopped, proxy>> /\ run.pc = "spawn"
          /\ \/ stopped /\ Return("interrupted", "clean") /\ UNCHANGED child
             \/ ~stopped /\ Return("error", "clean") /\ UNCHANGED child
             \/ ~stopped /\ To("wait") /\ child' = [child EXCEPT !.pc = "running"]
      BY <2>4 DEF Spawn
    <3>2. CASE stopped /\ Return("interrupted", "clean") /\ UNCHANGED child
      BY <1>1, <3>1, <3>2, RunMoves
    <3>3. CASE ~stopped /\ Return("error", "clean") /\ UNCHANGED child
      BY <1>1, <3>1, <3>3, RunMoves
    <3>4. CASE ~stopped /\ To("wait") /\ child' = [child EXCEPT !.pc = "running"]
      <4>1. child' \in ChildRow /\ child'.killed = child.killed
        BY <1>1, <3>4, ChildMoves DEF Codes
      <4>2. run' \in RunRow /\ run'.pc = "wait"
        BY <1>1, <3>4, RunMoves DEF Codes
      <4> QED
        BY <1>1, <3>1, <4>1, <4>2
    <3> QED
      BY <3>1, <3>2, <3>3, <3>4
  <2>5. CASE Wait
    <3>1. UNCHANGED <<bundle, stopped, proxy>> /\ run.pc = "wait"
      BY <2>5 DEF Wait
    <3>2. CASE child.pc = "exited" /\ Return("child", "clean") /\ UNCHANGED child
      BY <1>1, <3>1, <3>2, RunMoves
    <3>3. CASE stopped /\ To("reap") /\ child' = [child EXCEPT !.killed = "sent"]
      <4>1. child' \in ChildRow /\ child'.killed = "sent"
        BY <1>1, <3>3, ChildMoves DEF Codes
      <4>2. run' \in RunRow /\ run'.pc = "reap"
        BY <1>1, <3>3, RunMoves DEF Codes
      <4>3. Own
        BY <1>1, <3>1, <4>1, <4>2
      <4>4. ~bundle' \/ run'.pc \in {"wait", "reap", "clean"}
        BY <4>2
      <4>5. child'.killed # "no" /\ run'.pc \notin {"spawn", "clean", "exit", "ended"} /\ stopped'
        BY <3>1, <3>3, <4>1, <4>2
      <4> QED
        BY <4>2, <4>3, <4>4, <4>5
    <3>4. CASE stopped /\ Return("error", "clean") /\ child' = [child EXCEPT !.killed = "failed"]
      <4>1. child' \in ChildRow /\ child'.killed = "failed"
        BY <1>1, <3>4, ChildMoves DEF Codes
      <4>2. run' \in RunRow /\ run'.pc = "clean" /\ run'.result = "error"
        BY <1>1, <3>4, RunMoves DEF Codes
      <4> QED
        BY <1>1, <3>1, <3>4, <4>1, <4>2
    <3> QED
      BY <2>5, <3>2, <3>3, <3>4 DEF Wait, KillChild
  <2>6. CASE Reap
    BY <1>1, <2>6, RunMoves DEF Reap
  <2>7. CASE CleanUp
    BY <1>1, <2>7, RunMoves, ProxyMoves DEF CleanUp
  <2>8. CASE RunnerStops
    BY <1>1, <2>8, RunMoves, ProxyMoves DEF RunnerStops
  <2>9. CASE ShutdownEnds
    BY <1>1, <2>9, RunMoves DEF ShutdownEnds
  <2>10. CASE Drained
    BY <1>1, <2>10, RunMoves DEF Drained
  <2>11. CASE Exit
    <3>1. PICK e \in Codes \union {Interrupted} :
            /\ run' = [run EXCEPT !.pc = "ended", !.exit = e]
            /\ run.result = "child" => e = child.code
            /\ run.result = "interrupted" => e = Interrupted
            /\ run.result \notin {"child", "interrupted"} => e = 1
      <4>1. child.code \in Codes /\ 1 \in Codes
        BY <1>1 DEF ChildRow, Codes
      <4>2. CASE run.result = "child"
        BY <2>11, <4>1, <4>2 DEF Exit
      <4>3. CASE run.result = "interrupted"
        BY <2>11, <4>1, <4>3 DEF Exit
      <4>4. CASE run.result \notin {"child", "interrupted"}
        BY <2>11, <4>1, <4>4 DEF Exit
      <4> QED
        BY <4>2, <4>3, <4>4
    <3>2. UNCHANGED <<child, bundle, stopped, proxy>> /\ run.pc = "exit"
      BY <2>11 DEF Exit
    <3>3. run' \in RunRow /\ run'.pc = "ended" /\ run'.result = run.result /\ run'.exit = e
      BY <1>1, <3>1, RunMoves
    <3> QED
      BY <1>1, <3>1, <3>2, <3>3
  <2>12. CASE Signal
    BY <1>1, <2>12 DEF Signal
  <2>13. CASE \E code \in Codes : ChildExits(code)
    <3>1. PICK code \in Codes : ChildExits(code)
      BY <2>13
    <3>2. /\ child' \in ChildRow /\ child'.pc = "exited" /\ child'.killed = child.killed
          /\ child.pc = "running" /\ UNCHANGED <<run, bundle, stopped, proxy>>
      BY <1>1, <3>1, ChildMoves DEF ChildExits
    <3> QED
      BY <1>1, <3>2
  <2> QED
    BY <2>1, <2>2, <2>3, <2>4, <2>5, <2>6, <2>7, <2>8, <2>9, <2>10, <2>11, <2>12, <2>13 DEF CommandStep
<1>4. RunTypeOK'
  BY <1>2, <1>3 DEF RunInv, RunTypeOK, TunnelConns
<1> QED
  BY <1>2, <1>3, <1>4 DEF RunInv

LEMMA RunInvStep == ASSUME RunInv, [RunNext]_runVars PROVE RunInv'
<1>1. CASE RunNext
  BY <1>1, ConnStepKeeps, ProxyStepKeeps, CommandStepKeeps DEF RunNext
<1>2. CASE UNCHANGED runVars
  <2>1. UNCHANGED <<run, child, bundle, stopped, proxy, conn, slots>>
    BY <1>2 DEF runVars
  <2>2. TunnelConns' = TunnelConns
    BY <2>1 DEF TunnelConns
  <2> QED
    BY <2>1, <2>2 DEF RunInv, RunTypeOK, ConnRow, ChildInv
<1> QED
  BY <1>1, <1>2

LEMMA RunInvTells == RunInv => EndTellsOfChild
<1> SUFFICES ASSUME RunInv PROVE EndTellsOfChild
  OBVIOUS
<1>1. child.code \in {0, 1} /\ bundle \in BOOLEAN /\ ChildInv
  BY DEF RunInv, RunTypeOK, ChildRow, Codes
<1> QED
  BY <1>1 DEF ChildInv, EndTellsOfChild, LatePcs, Interrupted

\* Every reachable state of the command, its child and its proxy is well typed,
\* and the slots taken are the tunnels there are (handleConnect).
THEOREM RunTypeCorrect == RunSpec => []RunTypeOK
<1>1. RunInv => RunTypeOK
  BY DEF RunInv
<1> QED
  BY <1>1, RunInvInit, RunInvStep, PTL DEF RunSpec

\* However kimbap run ends, its bundle is gone, its child is not left to itself
\* and the exit code tells how the child did (runE, mapErrorToExitCode).
THEOREM EndAlwaysTells == RunSpec => []EndTellsOfChild
  BY RunInvInit, RunInvStep, RunInvTells, PTL DEF RunSpec

-----------------------------------------------------------------------------
(***************************************************************************)
(* The vault.                                                              *)
(***************************************************************************)
UnderKey(vs) == \A x \in vs : x.key = keyFile

\* What a command that has got past a statement relies on: the key it holds is
\* the file's; what it read is what is there, for its shared lock keeps the
\* others from committing; and its own copy is a history that loses no
\* acknowledged write and has the one it will acknowledge.
AccessInv(c) ==
  LET m == command[c] IN
  /\ m.key # Absent => m.key = keyFile
  /\ m.pc \notin {"idle", "create_key", "write_key"} => m.key # Absent
  /\ m.pc = "write_key" => keyFile = Partial
  /\ m.pc = "insert" => m.op # "delete"
  /\ m.pc = "read" => m.seen = row /\ row # NoRow
  /\ m.pc = "written" =>
       /\ OneHistory(m.row, m.versions) /\ Kept(m.row, m.versions) /\ UnderKey(m.versions)
       /\ m.row.id <= inserted
       /\ m.op = "delete" => m.row = NoRow
       /\ m.op # "delete" =>
            m.row.id # 0 /\ \E x \in m.versions : x.v = m.row.current /\ x.by = c

\* One process writes the key's file, and one works on a copy.
OneWriter ==
  \A c, d \in Commands :
    /\ Reserved(c) /\ Reserved(d) => c = d
    /\ command[c].pc = "write_key" /\ command[d].pc = "write_key" => c = d

VaultInv ==
  /\ VaultTypeOK
  /\ SecretHasOneHistory /\ UnderKey(versions)
  /\ row.id <= inserted /\ \A a \in acked : a.id <= inserted
  /\ row # NoRow => row.id # 0
  /\ OneWriter
  /\ \A c \in Commands : AccessInv(c)

-----------------------------------------------------------------------------
LEMMA VaultInvInit == VaultInit => VaultInv
<1> SUFFICES ASSUME VaultInit PROVE VaultInv
  OBVIOUS
<1> USE VaultAssumption DEF VaultInit
<1>1. Idle \in CommandRows /\ NoRow \in Rows
  BY DEF Idle, NoRow, CommandRows, Rows
<1>2. VaultTypeOK
  BY <1>1 DEF VaultTypeOK
<1>3. SecretHasOneHistory /\ UnderKey(versions)
  BY DEF SecretHasOneHistory, OneHistory, Kept, UnderKey, NoRow
<1>4. row.id <= inserted /\ (\A a \in acked : a.id <= inserted) /\ OneWriter
  BY DEF NoRow, OneWriter, Reserved, Idle
<1>5. \A c \in Commands : AccessInv(c)
  BY DEF AccessInv, Idle
<1> QED
  BY <1>2, <1>3, <1>4, <1>5 DEF VaultInv

(***************************************************************************)
(* A step of one command that leaves the file and the key's file alone.    *)
(***************************************************************************)
LEMMA OwnStep ==
  ASSUME VaultInv, NEW c \in Commands, NEW m \in CommandRows,
         command' = [command EXCEPT ![c] = m], UNCHANGED <<keyFile, row, versions, acked>>,
         inserted' \in 0..MaxSecrets, inserted <= inserted',
         m.pc = "written" => NoWriterBut(c),
         m.pc # "write_key",
         AccessInv(c)'
  PROVE  VaultInv'
<1> USE DEF VaultInv
<1>1. /\ VaultTypeOK' /\ command'[c] = m
      /\ \A d \in Commands \ {c} : command'[d] = command[d]
      /\ row.id \in Nat /\ inserted \in Nat /\ inserted' \in Nat
      /\ \A a \in acked : a.id \in Nat
      /\ \A d \in Commands : command[d].row.id \in Nat
  BY VaultAssumption DEF VaultTypeOK, Rows, CommandRows
<1>2. SecretHasOneHistory' /\ UnderKey(versions)'
  BY DEF SecretHasOneHistory, OneHistory, Kept, UnderKey
<1>3. row'.id <= inserted' /\ \A a \in acked' : a.id <= inserted'
  BY <1>1
<1>4. OneWriter'
  BY <1>1 DEF OneWriter, Reserved, NoWriterBut
<1>5. ASSUME NEW d \in Commands \ {c} PROVE AccessInv(d)'
  <2>1. AccessInv(d)
    OBVIOUS
  <2> QED
    BY <1>1, <2>1 DEF AccessInv, OneHistory, Kept, UnderKey
<1> QED
  BY <1>1, <1>2, <1>3, <1>4, <1>5

\* A command that ends relies on nothing.
LEMMA EndStep ==
  ASSUME VaultInv, NEW c \in Commands, End(c), UNCHANGED <<keyFile, row, versions, acked, inserted>>
  PROVE  VaultInv'
<1>1. Idle \in CommandRows /\ Idle.pc = "idle" /\ Idle.key = Absent
  BY VaultAssumption DEF Idle, CommandRows, Rows, NoRow
<1>2. command' = [command EXCEPT ![c] = Idle] /\ command'[c] = Idle
  BY DEF End, VaultInv, VaultTypeOK
<1>3. AccessInv(c)'
  BY <1>1, <1>2 DEF AccessInv
<1>4. inserted' \in 0..MaxSecrets /\ inserted <= inserted'
  BY VaultAssumption DEF VaultInv, VaultTypeOK
<1> QED
  BY <1>1, <1>2, <1>3, <1>4, OwnStep

\* A command that goes on to a place where nothing is relied on but its key.
LEMMA GotoStep ==
  ASSUME VaultInv, NEW c \in Commands, NEW m \in CommandRows, m.key = command[c].key,
         m.pc \in {"create_key", "insert", "begin", "get", "mark"},
         m.key = Absent => m.pc = "create_key", m.pc = "insert" => m.op # "delete",
         command' = [command EXCEPT ![c] = m],
         UNCHANGED <<keyFile, row, versions, acked, inserted>>
  PROVE  VaultInv'
<1>1. command'[c] = m
  BY DEF VaultInv, VaultTypeOK
<1>2. inserted' \in 0..MaxSecrets /\ inserted <= inserted'
  BY VaultAssumption DEF VaultInv, VaultTypeOK
<1>3. AccessInv(c)'
  BY <1>1 DEF AccessInv, VaultInv
<1> QED
  BY <1>2, <1>3, OwnStep

\* A command that takes the key of the file.
LEMMA HoldStep ==
  ASSUME VaultInv, NEW c \in Commands, HoldKey(c, keyFile), keyFile \in Commands,
         UNCHANGED <<keyFile, row, versions, acked, inserted>>
  PROVE  VaultInv'
<1> DEFINE m == [command[c] EXCEPT !.pc = "open", !.key = keyFile]
<1>1. command[c] \in CommandRows
  BY DEF VaultInv, VaultTypeOK
<1>2. m \in CommandRows /\ m.pc = "open" /\ m.key = keyFile
  BY <1>1 DEF CommandRows
<1>3. command' = [command EXCEPT ![c] = m] /\ command'[c] = m
  BY DEF VaultInv, VaultTypeOK, HoldKey
<1>4. inserted' \in 0..MaxSecrets /\ inserted <= inserted'
  BY VaultAssumption DEF VaultInv, VaultTypeOK
<1> HIDE DEF m
<1>5. AccessInv(c)'
  BY <1>2, <1>3, VaultAssumption DEF AccessInv
<1> QED
  BY <1>2, <1>3, <1>4, <1>5, OwnStep

\* A command that has run its statements on a copy of its own.
LEMMA WriteStep ==
  ASSUME VaultInv, NEW c \in Commands, NEW r \in Rows, NEW vs \in SUBSET VersionRows,
         Working(c, r, vs), NoWriterBut(c), command[c].key # Absent,
         UNCHANGED <<keyFile, row, versions, acked>>,
         inserted' \in 0..MaxSecrets, inserted <= inserted', r.id <= inserted',
         OneHistory(r, vs), Kept(r, vs), UnderKey(vs),
         command[c].op = "delete" => r = NoRow,
         command[c].op # "delete" => r.id # 0 /\ \E x \in vs : x.v = r.current /\ x.by = c
  PROVE  VaultInv'
<1> DEFINE m == [command[c] EXCEPT !.pc = "written", !.row = r, !.versions = vs]
<1>1. command[c] \in CommandRows
  BY DEF VaultInv, VaultTypeOK
<1>2. /\ m \in CommandRows /\ m.pc = "written" /\ m.key = command[c].key /\ m.op = command[c].op
      /\ m.row = r /\ m.versions = vs
  BY <1>1 DEF CommandRows
<1>3. command' = [command EXCEPT ![c] = m] /\ command'[c] = m
  BY DEF VaultInv, VaultTypeOK, Working
<1> HIDE DEF m
<1>4. AccessInv(c)
  BY DEF VaultInv
<1>5. AccessInv(c)'
  BY <1>2, <1>3, <1>4 DEF AccessInv, OneHistory, Kept, UnderKey
<1> QED
  BY <1>2, <1>3, <1>5, OwnStep

-----------------------------------------------------------------------------
LEMMA KeyRead == ASSUME VaultInv, NEW c \in Commands, ReadKey(c) PROVE VaultInv'
<1> USE DEF ReadKey, KeyOnly
<1>1. CASE keyFile \in Commands /\ HoldKey(c, keyFile)
  BY <1>1, HoldStep
<1>2. CASE Goto(c, "create_key")
  <2> DEFINE m == [command[c] EXCEPT !.pc = "create_key"]
  <2>1. m \in CommandRows /\ m.pc = "create_key" /\ m.key = command[c].key
    BY DEF VaultInv, VaultTypeOK, CommandRows
  <2>2. command' = [command EXCEPT ![c] = m]
    BY <1>2 DEF Goto
  <2> HIDE DEF m
  <2> QED
    BY <2>1, <2>2, GotoStep
<1>3. CASE End(c)
  BY <1>3, EndStep
<1> QED
  BY <1>1, <1>2, <1>3

\* While the file has no whole key nobody holds one, and nothing is stored.
LEMMA NoKeyYet ==
  ASSUME VaultInv, keyFile \notin Commands
  PROVE  /\ versions = {}
         /\ \A c \in Commands : /\ command[c].key = Absent
                                /\ command[c].pc \in {"idle", "create_key", "write_key"}
<1>1. \A c \in Commands : command[c].key \in Commands \union {Absent}
  BY DEF VaultInv, VaultTypeOK, CommandRows
<1>2. \A x \in versions : x.key \in Commands
  BY DEF VaultInv, VaultTypeOK, VersionRows
<1> QED
  BY <1>1, <1>2 DEF VaultInv, AccessInv, UnderKey

\* A step of a command on the key's file, which has no whole key yet.
LEMMA KeyStep ==
  ASSUME VaultInv, NEW c \in Commands, keyFile \notin Commands,
         NEW m \in CommandRows, command' = [command EXCEPT ![c] = m],
         UNCHANGED <<row, versions, acked, inserted>>,
         keyFile' \in Commands \union {Absent, Partial},
         \A d \in Commands \ {c} : command[d].pc # "write_key",
         \/ m.pc = "idle" /\ m.key = Absent
         \/ m.pc = "write_key" /\ m.key = Absent /\ keyFile' = Partial
         \/ m.pc = "open" /\ m.key = keyFile' /\ keyFile' \in Commands
  PROVE  VaultInv'
<1>1. /\ VaultTypeOK' /\ command'[c] = m
      /\ \A d \in Commands \ {c} : command'[d] = command[d]
  BY DEF VaultInv, VaultTypeOK
<1>2. SecretHasOneHistory' /\ UnderKey(versions)'
  BY NoKeyYet DEF VaultInv, SecretHasOneHistory, OneHistory, Kept, UnderKey
<1>3. OneWriter'
  BY <1>1, NoKeyYet DEF OneWriter, Reserved
<1>4. \A d \in Commands : AccessInv(d)'
  BY <1>1, NoKeyYet, VaultAssumption DEF AccessInv
<1> QED
  BY <1>1, <1>2, <1>3, <1>4 DEF VaultInv

LEMMA KeyCreated == ASSUME VaultInv, NEW c \in Commands, CreateKey(c) PROVE VaultInv'
<1> USE DEF CreateKey, KeyOnly
<1>1. CASE keyFile \in Commands /\ HoldKey(c, keyFile) /\ UNCHANGED keyFile
  BY <1>1, HoldStep
<1>2. CASE keyFile = Absent /\ keyFile' = Partial /\ Goto(c, "write_key")
  <2> DEFINE m == [command[c] EXCEPT !.pc = "write_key"]
  <2>1. m \in CommandRows /\ m.pc = "write_key" /\ m.key = command[c].key
    BY DEF VaultInv, VaultTypeOK, CommandRows
  <2>2. command' = [command EXCEPT ![c] = m]
    BY <1>2 DEF Goto
  <2> HIDE DEF m
  <2>3. keyFile \notin Commands /\ \A d \in Commands : command[d].pc # "write_key"
    BY <1>2, VaultAssumption DEF VaultInv, AccessInv, Absent, Partial
  <2>4. m.key = Absent
    BY <2>1, <2>3, NoKeyYet
  <2> QED
    BY <1>2, <2>1, <2>2, <2>3, <2>4, KeyStep
<1>3. CASE End(c) /\ UNCHANGED keyFile
  BY <1>3, EndStep
<1> QED
  BY <1>1, <1>2, <1>3

LEMMA KeyWritten == ASSUME VaultInv, NEW c \in Commands, WriteKey(c) PROVE VaultInv'
<1> USE DEF WriteKey, KeyOnly
<1>1. keyFile \notin Commands /\ \A d \in Commands \ {c} : command[d].pc # "write_key"
  BY VaultAssumption DEF VaultInv, AccessInv, OneWriter
<1>2. CASE keyFile' = c /\ HoldKey(c, c)
  <2> DEFINE m == [command[c] EXCEPT !.pc = "open", !.key = c]
  <2>0. command[c] \in CommandRows
    BY DEF VaultInv, VaultTypeOK
  <2>1. m \in CommandRows /\ m.pc = "open" /\ m.key = c
    BY <2>0 DEF CommandRows
  <2>2. command' = [command EXCEPT ![c] = m]
    BY <1>2 DEF HoldKey
  <2> HIDE DEF m
  <2> QED
    BY <1>1, <1>2, <2>1, <2>2, KeyStep
<1>3. CASE keyFile' = Absent /\ End(c)
  <2>1. Idle \in CommandRows /\ Idle.pc = "idle" /\ Idle.key = Absent
    BY VaultAssumption DEF Idle, CommandRows, Rows, NoRow
  <2>2. command' = [command EXCEPT ![c] = Idle]
    BY <1>3 DEF End
  <2> QED
    BY <1>1, <1>3, <2>1, <2>2, KeyStep
<1> QED
  BY <1>2, <1>3

-----------------------------------------------------------------------------
LEMMA Begun == ASSUME VaultInv, NEW c \in Commands, NEW op \in Operations, Begin(c, op) PROVE VaultInv'
<1> DEFINE pc == CASE op \in {"create", "upsert"} -> "insert" [] op = "get" -> "get"
                   [] OTHER -> "begin"
           m == [command[c] EXCEPT !.pc = pc, !.op = op]
<1>1. pc \in {"insert", "get", "begin"} /\ (pc = "insert" => op # "delete")
  OBVIOUS
<1>2. command[c] \in CommandRows /\ command[c].key # Absent
  BY DEF VaultInv, VaultTypeOK, AccessInv, Begin
<1>3. command' = [command EXCEPT ![c] = m]
  BY DEF Begin
<1> HIDE DEF pc
<1>4. m \in CommandRows /\ m.pc = pc /\ m.key = command[c].key /\ m.op = op
  BY <1>1, <1>2 DEF CommandRows
<1> HIDE DEF m
<1> QED
  BY <1>1, <1>2, <1>3, <1>4, GotoStep DEF Begin, DbSame

\* The first version of a new row is the whole history of it.
LEMMA Inserted == ASSUME VaultInv, NEW c \in Commands, Insert(c) PROVE VaultInv'
<1> USE DEF Insert, DbSame
<1>0. command[c] \in CommandRows /\ command[c].key # Absent /\ command[c].key = keyFile
  BY DEF VaultInv, VaultTypeOK, AccessInv
<1>1. CASE row = NoRow /\ inserted < MaxSecrets /\ inserted' = inserted + 1
           /\ Working(c, [id |-> inserted + 1, current |-> 1, count |-> 1, used |-> FALSE],
                      versions \union {Version(inserted + 1, 1, command[c].key, c)})
  <2> DEFINE r == [id |-> inserted + 1, current |-> 1, count |-> 1, used |-> FALSE]
             x == Version(inserted + 1, 1, command[c].key, c)
  <2>1. inserted \in 0..MaxSecrets /\ inserted' \in 1..MaxSecrets /\ inserted' = inserted + 1
    BY <1>1, VaultAssumption DEF VaultInv, VaultTypeOK
  <2>2. versions = {}
    BY <1>1 DEF VaultInv, SecretHasOneHistory, OneHistory, NoRow
  <2>3. r \in Rows /\ x \in VersionRows
    BY <1>0, <2>1, VaultAssumption DEF Rows, VersionRows, CommandRows, Version
  <2>4. r.id = inserted' /\ r.current = 1 /\ r.count = 1
    BY <2>1
  <2>5. x.id = inserted' /\ x.v = 1 /\ x.active = TRUE /\ x.by = c /\ x.key = keyFile
    BY <1>0, <2>1 DEF Version
  <2>6. Working(c, r, {x})
    BY <1>1, <2>2
  <2> HIDE DEF r, x
  <2>7. OneHistory(r, {x}) /\ UnderKey({x})
    <3>1. {y.v : y \in {x}} = 1..1
      BY <2>5
    <3>2. UnderKey({x}) /\ \A y \in {x} : y.id = r.id /\ y.active = (y.v = r.current)
      BY <2>4, <2>5 DEF UnderKey
    <3> QED
      BY <2>4, <3>1, <3>2 DEF OneHistory
  <2>8. Kept(r, {x})
    <3>1. \A a \in acked : a.id \in Nat /\ a.id <= inserted
      BY DEF VaultInv, VaultTypeOK
    <3> QED
      BY <2>1, <2>4, <3>1 DEF Kept
  <2>9. /\ command[c].op # "delete"
        /\ r.id # 0 /\ \E y \in {x} : y.v = r.current /\ y.by = c
    BY <2>1, <2>4, <2>5 DEF VaultInv, AccessInv
  <2> QED
    BY <1>0, <2>1, <2>3, <2>4, <2>6, <2>7, <2>8, <2>9, WriteStep
<1>2. CASE Goto(c, "begin") /\ UNCHANGED inserted
  <2> DEFINE m == [command[c] EXCEPT !.pc = "begin"]
  <2>1. m \in CommandRows /\ m.pc = "begin" /\ m.key = command[c].key
    BY <1>0 DEF CommandRows
  <2>2. command' = [command EXCEPT ![c] = m]
    BY <1>2 DEF Goto
  <2> HIDE DEF m
  <2> QED
    BY <1>0, <1>2, <2>1, <2>2, GotoStep
<1>3. CASE End(c) /\ UNCHANGED inserted
  BY <1>3, EndStep
<1> QED
  BY <1>1, <1>2, <1>3

LEMMA RowRead == ASSUME VaultInv, NEW c \in Commands, SelectRow(c) PROVE VaultInv'
<1> USE DEF SelectRow, DbSame
<1>1. CASE row = NoRow
  BY <1>1, EndStep
<1>2. CASE row # NoRow
  <2> DEFINE m == [command[c] EXCEPT !.pc = "read", !.seen = row]
  <2>0. /\ command[c] \in CommandRows /\ command[c].key # Absent /\ command[c].key = keyFile
        /\ row \in Rows /\ inserted \in 0..MaxSecrets
    BY DEF VaultInv, VaultTypeOK, AccessInv
  <2>1. m \in CommandRows /\ m.pc = "read" /\ m.key = command[c].key /\ m.seen = row
    BY <2>0 DEF CommandRows
  <2>2. command' = [command EXCEPT ![c] = m] /\ command'[c] = m
    BY <1>2 DEF VaultInv, VaultTypeOK
  <2> HIDE DEF m
  <2>3. AccessInv(c)'
    BY <1>2, <2>0, <2>1, <2>2 DEF AccessInv
  <2>4. inserted' \in 0..MaxSecrets /\ inserted <= inserted'
    BY <2>0, VaultAssumption
  <2> QED
    BY <2>1, <2>2, <2>3, <2>4, OwnStep
<1> QED
  BY <1>1, <1>2

(***************************************************************************)
(* The next version after the row the transaction has read, and a deletion *)
(* of it.                                                                  *)
(***************************************************************************)
LEMMA StatementsRun == ASSUME VaultInv, NEW c \in Commands, Statements(c) PROVE VaultInv'
<1> USE DEF Statements, DbSame
<1> DEFINE seen == command[c].seen
<1>0. /\ command[c].key # Absent /\ command[c].key = keyFile /\ keyFile \in Commands
      /\ seen = row /\ row # NoRow /\ row \in Rows /\ versions \subseteq VersionRows
      /\ inserted \in 0..MaxSecrets /\ row.id <= inserted /\ OneHistory(row, versions)
      /\ Kept(row, versions)
  BY DEF VaultInv, VaultTypeOK, AccessInv, SecretHasOneHistory, CommandRows
<1>1. inserted' = inserted /\ inserted' \in 0..MaxSecrets /\ inserted <= inserted'
  BY <1>0, VaultAssumption
<1>2. CASE command[c].op \in {"upsert", "rotate"} /\ seen.current < MaxVersions /\ NextVersion(c)
  <2> DEFINE Off(x) == IF x.id = row.id /\ x.v = row.current THEN [x EXCEPT !.active = FALSE] ELSE x
             off == {Off(x) : x \in versions}
             new == Version(row.id, row.current + 1, keyFile, c)
             r == [row EXCEPT !.current = row.current + 1, !.count = row.count + 1]
             vs == off \union {new}
  <2>1. Working(c, r, vs)
    BY <1>0, <1>2 DEF NextVersion
  <2>2. /\ row.id \in 1..MaxSecrets /\ row.current \in Nat /\ row.current + 1 \in 1..MaxVersions
        /\ row.count = row.current
    BY <1>0, <1>2, VaultAssumption DEF Rows, OneHistory, VaultInv
  <2>3. /\ r \in Rows /\ r.id = row.id /\ r.current = row.current + 1 /\ r.count = r.current
        /\ new \in VersionRows /\ new.id = row.id /\ new.v = row.current + 1 /\ new.active = TRUE
        /\ new.key = keyFile /\ new.by = c
    <3>1. row.current + 1 \in 0..MaxVersions /\ row.count + 1 \in Nat /\ row.count + 1 = row.current + 1
      BY <1>0, <2>2, VaultAssumption DEF Rows
    <3>2. r \in Rows /\ r.id = row.id /\ r.current = row.current + 1 /\ r.count = row.count + 1
      <4> HIDE DEF Statements
      <4>1. row \in Rows
        BY <1>0
      <4>2. \A a \in 0..MaxVersions, b \in Nat :
              LET u == [row EXCEPT !.current = a, !.count = b]
              IN  u \in Rows /\ u.id = row.id /\ u.current = a /\ u.count = b
        BY <4>1 DEF Rows
      <4> HIDE DEF r
      <4> QED
        BY <3>1, <4>2 DEF r
    <3>3. /\ new.id = row.id /\ new.v = row.current + 1 /\ new.active = TRUE
          /\ new.key = keyFile /\ new.by = c
      BY DEF Version
    <3>4. new \in VersionRows
      BY <1>0, <2>2 DEF Version, VersionRows
    <3> QED
      BY <3>1, <3>2, <3>3, <3>4
  <2>4. \A x \in versions : x.id = row.id /\ x.v \in 1..row.current /\ x.key = keyFile
    BY <1>0 DEF OneHistory, VaultInv, UnderKey
  <2>5. ASSUME NEW x \in versions
        PROVE  /\ Off(x) \in VersionRows /\ Off(x).id = row.id /\ Off(x).v = x.v /\ Off(x).by = x.by
               /\ Off(x).key = keyFile /\ Off(x).active = FALSE
    <3>1. x \in VersionRows /\ x.id = row.id /\ x.key = keyFile /\ x.active = (x.v = row.current)
      BY <1>0, <2>4 DEF OneHistory
    <3>2. CASE x.v = row.current
      BY <3>1, <3>2 DEF VersionRows
    <3>3. CASE x.v # row.current
      BY <3>1, <3>3
    <3> QED
      BY <3>2, <3>3
  <2>14. \A x \in versions : /\ Off(x).id = r.id /\ Off(x).v = x.v /\ Off(x).by = x.by
                             /\ Off(x).v # r.current /\ Off(x).v \in 1..r.current
    <3>1. ASSUME NEW x \in versions PROVE x.v # r.current /\ x.v \in 1..r.current
      BY <2>2, <2>3, <2>4
    <3> QED
      BY <2>3, <2>5, <3>1
  <2> HIDE DEF new, r, Off
  <2>6. vs \in SUBSET VersionRows /\ UnderKey(vs)
    BY <2>3, <2>5 DEF UnderKey
  <2>15. (\A y \in vs : y = new \/ \E x \in versions : y = Off(x)) /\ new \in vs
         /\ \A x \in versions : Off(x) \in vs
    OBVIOUS
  <2> HIDE DEF vs
  <2>7. OneHistory(r, vs)
    <3>1. {x.v : x \in versions} = 1..row.current
          /\ \A x, y \in versions : x.v = y.v => x = y
      BY <1>0 DEF OneHistory
    <3>2. {y.v : y \in vs} = 1..r.current
      <4>1. \A n \in 1..r.current : n \in 1..row.current \/ n = new.v
        BY <2>2, <2>3
      <4>2. 1..row.current \subseteq 1..r.current /\ new.v \in 1..r.current
        BY <2>2, <2>3
      <4>3. \A n \in 1..row.current : \E x \in versions : x.v = n
        BY <3>1
      <4> QED
        BY <2>14, <2>15, <4>1, <4>2, <4>3
    <3>3. \A y \in vs : y.id = r.id /\ y.active = (y.v = r.current)
      <4>1. ASSUME NEW x \in versions PROVE Off(x).active = (Off(x).v = r.current)
        BY <2>5, <2>14
      <4>2. new.active = (new.v = r.current)
        BY <2>3
      <4> QED
        BY <2>3, <2>14, <2>15, <4>1, <4>2
    <3>4. \A y, z \in vs : y.v = z.v => y = z
      <4>1. \A x \in versions : Off(x).v # new.v
        BY <2>3, <2>14
      <4>2. \A x, y \in versions : Off(x).v = Off(y).v => Off(x) = Off(y)
        BY <2>14, <3>1
      <4> QED
        BY <2>15, <4>1, <4>2
    <3> QED
      BY <2>3, <3>2, <3>3, <3>4 DEF OneHistory
  <2>8. Kept(r, vs)
    BY <1>0, <2>3, <2>14, <2>15 DEF Kept
  <2>9. r.id # 0 /\ (\E y \in vs : y.v = r.current /\ y.by = c) /\ r.id <= inserted'
    BY <1>0, <1>1, <2>2, <2>3, <2>15
  <2>10. NoWriterBut(c) /\ command[c].op # "delete"
    BY <1>2
  <2> QED
    BY <1>0, <1>1, <2>1, <2>3, <2>6, <2>7, <2>8, <2>9, <2>10, WriteStep
<1>3. CASE command[c].op = "delete" /\ Working(c, NoRow, {x \in versions : x.id # seen.id})
  <2>1. Working(c, NoRow, {})
    <3>1. {x \in versions : x.id # seen.id} = {}
      BY <1>0 DEF OneHistory
    <3> QED
      BY <1>3, <3>1
  <2>2. NoRow \in Rows /\ OneHistory(NoRow, {}) /\ UnderKey({}) /\ NoRow.id = 0
    BY VaultAssumption DEF NoRow, Rows, OneHistory, UnderKey
  <2>3. Kept(NoRow, {})
    BY <2>2, VaultAssumption DEF Kept, VaultInv, VaultTypeOK
  <2>4. command[c].op = "delete" /\ NoWriterBut(c) /\ UNCHANGED <<keyFile, row, versions, acked>>
    BY <1>3
  <2>5. {} \in SUBSET VersionRows /\ command[c].key # Absent /\ NoRow.id <= inserted'
    BY <1>0, <1>1, <2>2
  <2> HIDE DEF Statements
  <2> QED
    BY <1>1, <2>1, <2>2, <2>3, <2>4, <2>5, WriteStep
<1> QED
  BY <1>2, <1>3

LEMMA Committed == ASSUME VaultInv, NEW c \in Commands, Commit(c) PROVE VaultInv'
<1> USE DEF Commit
<1> DEFINE m == command[c]
<1>1. /\ m \in CommandRows /\ row' = m.row /\ versions' = m.versions
      /\ UNCHANGED <<keyFile, inserted>> /\ AccessInv(c)
      /\ \A d \in Commands \ {c} : command[d].pc \notin {"read", "written"}
      /\ command' = [command EXCEPT ![c] = Idle]
      /\ inserted \in 0..MaxSecrets
  BY DEF VaultInv, VaultTypeOK, NoReaderBut, Reading, End
<1>2. /\ m.row \in Rows /\ m.versions \subseteq VersionRows /\ m.row.id <= inserted
      /\ OneHistory(m.row, m.versions) /\ Kept(m.row, m.versions) /\ UnderKey(m.versions)
  BY <1>1 DEF AccessInv, CommandRows
<1>3. Idle \in CommandRows /\ Idle.pc = "idle" /\ Idle.key = Absent
  BY VaultAssumption DEF Idle, CommandRows, Rows, NoRow
<1>4. /\ command'[c] = Idle /\ command' \in [Commands -> CommandRows]
      /\ \A d \in Commands \ {c} : command'[d] = command[d]
  BY <1>1, <1>3 DEF VaultInv, VaultTypeOK
<1> HIDE DEF m
<1>7. OneWriter'
  BY <1>3, <1>4 DEF OneWriter, Reserved, VaultInv
<1>8. \A d \in Commands : AccessInv(d)'
  BY <1>1, <1>3, <1>4, VaultAssumption DEF AccessInv, VaultInv
<1>9. OneHistory(row, versions)' /\ UnderKey(versions)'
  BY <1>1, <1>2 DEF OneHistory, UnderKey
<1>5. CASE command[c].op = "delete"
  <2>1. acked' = acked /\ row' = NoRow
    BY <1>1, <1>5 DEF AccessInv
  <2>2. Kept(row, versions)' /\ row'.id <= inserted' /\ \A a \in acked' : a.id <= inserted'
    BY <1>1, <1>2, <2>1 DEF Kept, VaultInv
  <2>3. VaultTypeOK'
    BY <1>1, <1>2, <1>4, <2>1 DEF VaultInv, VaultTypeOK
  <2> QED
    BY <1>7, <1>8, <1>9, <2>1, <2>2, <2>3 DEF VaultInv, SecretHasOneHistory
<1>6. CASE command[c].op # "delete"
  <2> DEFINE a == [id |-> row'.id, v |-> row'.current, by |-> c]
  <2>1. acked' = acked \union {a}
    BY <1>6
  <2>2. PICK x \in versions' : x.v = row'.current /\ x.by = c
    BY <1>1, <1>6 DEF AccessInv
  <2>3. row'.id # 0 /\ row'.id \in 1..MaxSecrets /\ row'.id <= inserted
    BY <1>1, <1>2, <1>6, VaultAssumption DEF AccessInv, Rows
  <2>4. a \in [id : 1..MaxSecrets, v : 1..MaxVersions, by : Commands] /\ a.id <= inserted
    BY <1>1, <1>2, <2>2, <2>3 DEF VersionRows
  <2>5. Kept(row, versions)'
    BY <1>1, <1>2, <2>1, <2>2 DEF Kept
  <2>6. row' # NoRow => row'.id # 0
    BY <2>3
  <2> HIDE DEF a
  <2>7. VaultTypeOK'
    BY <1>1, <1>2, <1>4, <2>1, <2>4 DEF VaultInv, VaultTypeOK
  <2>8. row'.id <= inserted' /\ \A b \in acked' : b.id <= inserted'
    BY <1>1, <2>1, <2>3, <2>4 DEF VaultInv
  <2> QED
    BY <1>7, <1>8, <1>9, <2>5, <2>6, <2>7, <2>8 DEF VaultInv, SecretHasOneHistory
<1> QED
  BY <1>5, <1>6

LEMMA Got == ASSUME VaultInv, NEW c \in Commands, GetValue(c) PROVE VaultInv'
<1> USE DEF GetValue, DbSame
<1>1. CASE Goto(c, "mark")
  <2> DEFINE m == [command[c] EXCEPT !.pc = "mark"]
  <2>0. command[c] \in CommandRows /\ command[c].key # Absent
    BY DEF VaultInv, VaultTypeOK, AccessInv
  <2>1. m \in CommandRows /\ m.pc = "mark" /\ m.key = command[c].key
    BY <2>0 DEF CommandRows
  <2>2. command' = [command EXCEPT ![c] = m]
    BY <1>1 DEF Goto
  <2> HIDE DEF m
  <2> QED
    BY <2>0, <2>1, <2>2, GotoStep
<1>2. CASE End(c)
  BY <1>2, EndStep
<1> QED
  BY <1>1, <1>2

LEMMA MarkedUsed == ASSUME VaultInv, NEW c \in Commands, MarkUsed(c) PROVE VaultInv'
<1> USE DEF MarkUsed
<1>1. /\ command' = [command EXCEPT ![c] = Idle] /\ UNCHANGED <<keyFile, versions, inserted, acked>>
      /\ \A d \in Commands \ {c} : command[d].pc \notin {"read", "written"}
  BY DEF End, NoReaderBut, Reading
<1>2. Idle \in CommandRows /\ Idle.pc = "idle" /\ Idle.key = Absent
  BY VaultAssumption DEF Idle, CommandRows, Rows, NoRow
<1>3. /\ command'[c] = Idle /\ command' \in [Commands -> CommandRows]
      /\ \A d \in Commands \ {c} : command'[d] = command[d]
  BY <1>1, <1>2 DEF VaultInv, VaultTypeOK
<1>4. /\ row' \in Rows /\ row'.id = row.id /\ row'.current = row.current /\ row'.count = row.count
      /\ row' # NoRow => row.id # 0
  BY DEF VaultInv, VaultTypeOK, Rows
<1>5. SecretHasOneHistory' /\ UnderKey(versions)'
  BY <1>1, <1>4 DEF VaultInv, SecretHasOneHistory, OneHistory, Kept, UnderKey
<1>6. OneWriter' /\ \A d \in Commands : AccessInv(d)'
  BY <1>1, <1>2, <1>3 DEF VaultInv, OneWriter, Reserved, AccessInv
<1> QED
  BY <1>1, <1>3, <1>4, <1>5, <1>6 DEF VaultInv, VaultTypeOK

LEMMA VaultInvStep == ASSUME VaultInv, [VaultNext]_vaultVars PROVE VaultInv'
<1>1. CASE UNCHANGED vaultVars
  BY <1>1 DEF vaultVars, VaultInv, VaultTypeOK, SecretHasOneHistory, OneHistory, Kept, UnderKey,
     OneWriter, Reserved, AccessInv
<1>2. ASSUME NEW c \in Commands, VaultStep(c) PROVE VaultInv'
  <2>1. CASE ReadKey(c) \/ CreateKey(c) \/ WriteKey(c)
    BY <2>1, KeyRead, KeyCreated, KeyWritten
  <2>2. CASE \E op \in Operations : Begin(c, op)
    BY <2>2, Begun
  <2>3. CASE Insert(c) \/ SelectRow(c) \/ Statements(c) \/ Commit(c)
    BY <2>3, Inserted, RowRead, StatementsRun, Committed
  <2>4. CASE GetValue(c) \/ MarkUsed(c)
    BY <2>4, Got, MarkedUsed
  <2>5. CASE Abort(c)
    BY <2>5, EndStep DEF Abort, DbSame
  <2> QED
    BY <1>2, <2>1, <2>2, <2>3, <2>4, <2>5 DEF VaultStep
<1> QED
  BY <1>1, <1>2 DEF VaultNext

LEMMA VaultHolds == VaultSpec => []VaultInv
  BY VaultInvInit, VaultInvStep, PTL DEF VaultSpec

(***************************************************************************)
(* Every reachable state of the vault is well typed.                       *)
(***************************************************************************)
THEOREM VaultTypeCorrect == VaultSpec => []VaultTypeOK
<1>1. VaultInv => VaultTypeOK
  BY DEF VaultInv
<1> QED
  BY <1>1, VaultHolds, PTL

(***************************************************************************)
(* For any number of processes that set, rotate, delete, fail and die, the *)
(* version rows are the secret's history, once each, and acknowledged      *)
(* writes stay in it (sqlite.go:151 to 474).                               *)
(***************************************************************************)
THEOREM VaultHasOneHistory == VaultSpec => []SecretHasOneHistory
<1>1. VaultInv => SecretHasOneHistory
  BY DEF VaultInv
<1> QED
  BY <1>1, VaultHolds, PTL

(***************************************************************************)
(* For any number of processes that look for a master key at once, all     *)
(* hold the one in the file (runtime_builder.go:100).                      *)
(***************************************************************************)
THEOREM VaultHasOneKey == VaultSpec => []OneMasterKey
<1>1. VaultInv => OneMasterKey
  BY DEF VaultInv, OneMasterKey, UnderKey, AccessInv
<1> QED
  BY <1>1, VaultHolds, PTL

-----------------------------------------------------------------------------
(***************************************************************************)
(* Service tokens.                                                         *)
(***************************************************************************)
RequestRow == [pc : {"idle", "handler", "revoke"}, as : Nat, tenant : Tenants \union {"none"},
               scopes : SUBSET Scopes, target : Nat]

\* A request works with what the row of its token says, and goes on saying.
RequestInv(r) ==
  LET q == request[r] IN
  /\ q.pc # "idle" => /\ q.as \in DOMAIN tokens
                      /\ q.tenant = tokens[q.as].tenant /\ q.scopes = tokens[q.as].scopes
  /\ q.pc = "revoke" => q.target \in DOMAIN tokens

\* The rotation's two tokens are rows of the table.
RotationInv ==
  /\ rotation.pc # "idle" => rotation.old \in DOMAIN tokens
  /\ rotation.pc \in {"idle", "issue"} => rotation.new = 0
  /\ rotation.pc \in {"revoke_old", "rollback"} => rotation.new # 0
  /\ rotation.new # 0 => rotation.new \in DOMAIN tokens
  /\ RotationLeavesOne

TokensInv ==
  /\ TokensTypeOK
  /\ MintedWithinAuthority
  /\ \A r \in Requests : RequestInv(r)
  /\ RotationInv

-----------------------------------------------------------------------------
\* What no statement does to a row: its tenant, scopes and origin stay, and a
\* revocation is never taken back.
SameToken(t, u) ==
  /\ u.tenant = t.tenant /\ u.scopes = t.scopes /\ u.by = t.by /\ u.how = t.how
  /\ t.revoked => u.revoked

Grows ==
  /\ tokens' \in Seq(TokenRow)
  /\ Len(tokens) <= Len(tokens')
  /\ \A i \in 1..Len(tokens) : SameToken(tokens[i], tokens'[i])

LEMMA TokenSame ==
  ASSUME TokensTypeOK, UNCHANGED tokens
  PROVE  Grows
<1>1. tokens \in Seq(TokenRow) /\ Len(tokens) \in Nat
  BY DEF TokensTypeOK
<1> QED
  BY <1>1 DEF Grows, SameToken

LEMMA TokenUpdated ==
  ASSUME TokensTypeOK, NEW i \in DOMAIN tokens, NEW t \in TokenRow, SameToken(tokens[i], t),
         tokens' = [tokens EXCEPT ![i] = t]
  PROVE  Grows /\ Len(tokens') = Len(tokens) /\ tokens'[i] = t
<1>1. tokens \in Seq(TokenRow) /\ Len(tokens) \in Nat
  BY DEF TokensTypeOK
<1>2. tokens' \in Seq(TokenRow) /\ Len(tokens') = Len(tokens) /\ tokens'[i] = t
  BY <1>1
<1>3. \A j \in 1..Len(tokens) : SameToken(tokens[j], tokens'[j])
  <2>1. ASSUME NEW j \in 1..Len(tokens), j # i PROVE tokens'[j] = tokens[j]
    BY <1>1, <2>1
  <2> QED
    BY <1>2, <2>1 DEF SameToken
<1> QED
  BY <1>1, <1>2, <1>3 DEF Grows

LEMMA TokenRevoked ==
  ASSUME TokensTypeOK, NEW i \in DOMAIN tokens, Revoke(i)
  PROVE  Grows /\ Len(tokens') = Len(tokens) /\ tokens'[i].revoked
<1> DEFINE t == [tokens[i] EXCEPT !.revoked = TRUE]
<1>1. tokens[i] \in TokenRow
  BY DEF TokensTypeOK
<1>2. t \in TokenRow /\ SameToken(tokens[i], t) /\ t.revoked
  BY <1>1 DEF TokenRow, SameToken
<1>3. tokens' = [tokens EXCEPT ![i] = t]
  BY DEF Revoke
<1> HIDE DEF t
<1> QED
  BY <1>2, <1>3, TokenUpdated

LEMMA TokenExpired ==
  ASSUME TokensTypeOK, NEW i \in DOMAIN tokens, Expire(i)
  PROVE  Grows /\ Len(tokens') = Len(tokens)
<1> DEFINE t == [tokens[i] EXCEPT !.expired = TRUE]
<1>1. tokens[i] \in TokenRow
  BY DEF TokensTypeOK
<1>2. t \in TokenRow /\ SameToken(tokens[i], t)
  BY <1>1 DEF TokenRow, SameToken
<1>3. tokens' = [tokens EXCEPT ![i] = t]
  BY DEF Expire
<1> HIDE DEF t
<1> QED
  BY <1>2, <1>3, TokenUpdated

LEMMA TokenIssued ==
  ASSUME TokensTypeOK, NEW tenant \in Tenants, NEW scopes \in SUBSET Scopes, NEW by \in Nat,
         NEW how \in {"cli", "api", "rotation"}, Issue(tenant, scopes, by, how)
  PROVE  /\ Grows /\ Len(tokens') = Len(tokens) + 1
         /\ tokens'[Len(tokens) + 1].tenant = tenant /\ tokens'[Len(tokens) + 1].scopes = scopes
         /\ tokens'[Len(tokens) + 1].by = by /\ tokens'[Len(tokens) + 1].how = how
<1> DEFINE t == [tenant |-> tenant, scopes |-> scopes, by |-> by, how |-> how,
                 revoked |-> FALSE, expired |-> FALSE]
<1>1. tokens \in Seq(TokenRow) /\ Len(tokens) \in Nat
  BY DEF TokensTypeOK
<1>2. t \in TokenRow /\ t.tenant = tenant /\ t.scopes = scopes /\ t.by = by /\ t.how = how
  BY DEF TokenRow
<1>3. tokens' = Append(tokens, t)
  BY DEF Issue
<1> HIDE DEF t
<1>4. /\ tokens' \in Seq(TokenRow) /\ Len(tokens') = Len(tokens) + 1 /\ tokens'[Len(tokens) + 1] = t
      /\ \A i \in 1..Len(tokens) : tokens'[i] = tokens[i]
  BY <1>1, <1>2, <1>3
<1> QED
  BY <1>1, <1>2, <1>4 DEF Grows, SameToken

(***************************************************************************)
(* What each part of the invariant needs of a step.                        *)
(***************************************************************************)
LEMMA RowsKnown ==
  ASSUME TokensTypeOK, Grows
  PROVE  /\ DOMAIN tokens = 1..Len(tokens) /\ DOMAIN tokens' = 1..Len(tokens')
         /\ DOMAIN tokens \subseteq DOMAIN tokens'
         /\ Len(tokens) \in Nat /\ Len(tokens') \in Nat
         /\ \A i \in DOMAIN tokens : SameToken(tokens[i], tokens'[i])
  BY DEF TokensTypeOK, Grows

LEMMA MintedKept ==
  ASSUME TokensTypeOK, Grows, MintedWithinAuthority,
         \A i \in DOMAIN tokens' \ DOMAIN tokens : tokens'[i].how # "api"
  PROVE  MintedWithinAuthority'
<1> SUFFICES ASSUME NEW i \in DOMAIN tokens', tokens'[i].how = "api"
             PROVE  /\ tokens'[i].by \in 1..(i - 1)
                    /\ tokens'[i].tenant = tokens'[tokens'[i].by].tenant
                    /\ Authority(tokens'[i].scopes) \subseteq Authority(tokens'[tokens'[i].by].scopes)
  BY DEF MintedWithinAuthority, Authority
<1>1. i \in DOMAIN tokens /\ SameToken(tokens[i], tokens'[i])
  BY RowsKnown
<1>2. /\ tokens[i].by \in 1..(i - 1) /\ tokens[i].tenant = tokens[tokens[i].by].tenant
      /\ Authority(tokens[i].scopes) \subseteq Authority(tokens[tokens[i].by].scopes)
  BY <1>1 DEF MintedWithinAuthority, SameToken
<1>3. tokens[i].by \in DOMAIN tokens
  BY <1>1, <1>2, RowsKnown
<1>4. SameToken(tokens[tokens[i].by], tokens'[tokens[i].by])
  BY <1>3, RowsKnown
<1> QED
  BY <1>1, <1>2, <1>4 DEF SameToken

LEMMA RequestKept ==
  ASSUME TokensTypeOK, Grows, NEW r \in Requests, RequestInv(r), request'[r] = request[r]
  PROVE  RequestInv(r)'
  BY RowsKnown DEF RequestInv, SameToken

LEMMA RotationKept ==
  ASSUME TokensTypeOK, Grows, RotationInv, UNCHANGED rotation
  PROVE  RotationInv'
<1>1. rotation.old \in DOMAIN tokens => (tokens[rotation.old].revoked => tokens'[rotation.old].revoked)
  BY RowsKnown DEF SameToken
<1>2. rotation.new \in DOMAIN tokens => (tokens[rotation.new].revoked => tokens'[rotation.new].revoked)
  BY RowsKnown DEF SameToken
<1> QED
  BY <1>1, <1>2, RowsKnown DEF RotationInv, RotationLeavesOne

-----------------------------------------------------------------------------
LEMMA TokensInvInit == TokensInit => TokensInv
<1> SUFFICES ASSUME TokensInit PROVE TokensInv
  OBVIOUS
<1> USE DEF TokensInit
<1>1. NoRequest \in RequestRow /\ NoRequest.pc = "idle"
  BY DEF NoRequest, RequestRow
<1>2. TokensTypeOK
  BY <1>1 DEF TokensTypeOK, RequestRow, NoRotation
<1>3. MintedWithinAuthority
  BY DEF MintedWithinAuthority
<1>4. (\A r \in Requests : RequestInv(r)) /\ RotationInv
  BY <1>1 DEF RequestInv, RotationInv, RotationLeavesOne, NoRotation
<1> QED
  BY <1>2, <1>3, <1>4 DEF TokensInv

\* A step on the table alone.
LEMMA TableStep ==
  ASSUME TokensInv, Grows, UNCHANGED <<request, rotation>>, storeUp' \in BOOLEAN,
         \A i \in DOMAIN tokens' \ DOMAIN tokens : tokens'[i].how # "api"
  PROVE  TokensInv'
<1>1. TokensTypeOK'
  BY DEF TokensInv, TokensTypeOK, Grows
<1> QED
  BY <1>1, MintedKept, RequestKept, RotationKept DEF TokensInv

\* A step of a request that leaves the rotation alone.
LEMMA RequestDoes ==
  ASSUME TokensInv, Grows, NEW r \in Requests, NEW q \in RequestRow,
         request' = [request EXCEPT ![r] = q], UNCHANGED <<rotation, storeUp>>,
         MintedWithinAuthority', RequestInv(r)'
  PROVE  TokensInv'
<1>1. TokensTypeOK' /\ \A p \in Requests \ {r} : request'[p] = request[p]
  BY DEF TokensInv, TokensTypeOK, Grows, RequestRow
<1>2. \A p \in Requests : RequestInv(p)'
  BY <1>1, RequestKept DEF TokensInv
<1> QED
  BY <1>1, <1>2, RotationKept DEF TokensInv

\* A request that has been answered relies on nothing.
LEMMA RequestReplies ==
  ASSUME TokensInv, Grows, NEW r \in Requests, Reply(r), UNCHANGED <<rotation, storeUp>>,
         MintedWithinAuthority'
  PROVE  TokensInv'
<1>1. NoRequest \in RequestRow /\ NoRequest.pc = "idle"
  BY DEF NoRequest, RequestRow
<1>2. request' = [request EXCEPT ![r] = NoRequest] /\ request'[r] = NoRequest
  BY DEF Reply, TokensInv, TokensTypeOK
<1>3. RequestInv(r)'
  BY <1>1, <1>2 DEF RequestInv
<1> QED
  BY <1>1, <1>2, <1>3, RequestDoes

LEMMA CliDoes == ASSUME TokensInv, CliStep PROVE TokensInv'
<1>1. TokensTypeOK /\ storeUp \in BOOLEAN
  BY DEF TokensInv, TokensTypeOK
<1>2. ASSUME NEW t \in Tenants, NEW s \in ScopeLists, IssueFromCli(t, s) PROVE TokensInv'
  <2>1. Grows /\ Len(tokens') = Len(tokens) + 1 /\ tokens'[Len(tokens) + 1].how = "cli"
    BY <1>1, <1>2, TokenIssued, TokensAssumption DEF IssueFromCli
  <2>2. \A i \in DOMAIN tokens' \ DOMAIN tokens : tokens'[i].how # "api"
    BY <1>1, <2>1, RowsKnown
  <2> QED
    BY <1>1, <1>2, <2>1, <2>2, TableStep DEF IssueFromCli
<1>3. ASSUME NEW i \in DOMAIN tokens, RevokeFromCli(i) \/ Expire(i) PROVE TokensInv'
  <2>1. Grows /\ Len(tokens') = Len(tokens)
    BY <1>1, <1>3, TokenRevoked, TokenExpired DEF RevokeFromCli
  <2>2. DOMAIN tokens' = DOMAIN tokens
    BY <1>1, <2>1, RowsKnown
  <2> QED
    BY <1>1, <1>3, <2>1, <2>2, TableStep DEF RevokeFromCli, Expire
<1>4. CASE StoreChanges
  <2>1. Grows /\ UNCHANGED <<tokens, request, rotation>> /\ storeUp' \in BOOLEAN
    BY <1>1, <1>4, TokenSame DEF StoreChanges
  <2> QED
    BY <1>1, <2>1, RowsKnown, TableStep
<1> QED
  BY <1>2, <1>3, <1>4 DEF CliStep

-----------------------------------------------------------------------------
LEMMA Authenticated ==
  ASSUME TokensInv, NEW r \in Requests, NEW i \in DOMAIN tokens, Authenticate(r, i)
  PROVE  TokensInv'
<1> DEFINE q == [pc |-> "handler", as |-> i, tenant |-> tokens[i].tenant,
                 scopes |-> tokens[i].scopes, target |-> 0]
<1>1. TokensTypeOK /\ MintedWithinAuthority /\ tokens[i] \in TokenRow /\ i \in Nat
  BY DEF TokensInv, TokensTypeOK
<1>2. /\ q \in RequestRow /\ q.pc = "handler" /\ q.as = i
      /\ q.tenant = tokens[i].tenant /\ q.scopes = tokens[i].scopes
  BY <1>1 DEF RequestRow, TokenRow
<1>3. request' = [request EXCEPT ![r] = q] /\ UNCHANGED <<tokens, rotation, storeUp>>
  BY DEF Authenticate
<1> HIDE DEF q
<1>4. request'[r] = q
  BY <1>1, <1>3 DEF TokensTypeOK
<1>5. RequestInv(r)' /\ MintedWithinAuthority'
  BY <1>1, <1>2, <1>3, <1>4 DEF RequestInv, MintedWithinAuthority, Authority
<1> QED
  BY <1>1, <1>2, <1>3, <1>5, TokenSame, RequestDoes

\* Whoever may do everything that is asked for may do everything the token
\* asked for will allow.
LEMMA GrantedWithin ==
  ASSUME NEW mine \in SUBSET Scopes, NEW asked \in SUBSET Scopes,
         \A s \in (IF asked = {} THEN mine ELSE asked) : HasScope(mine, s)
  PROVE  Authority(IF asked = {} THEN mine ELSE asked) \subseteq Authority(mine)
<1> DEFINE got == IF asked = {} THEN mine ELSE asked
<1>1. SUFFICES ASSUME NEW s \in Scopes, HasScope(got, s)
               PROVE  HasScope(mine, s)
  BY DEF Authority
<1>2. CASE got = {}
  BY <1>2 DEF HasScope
<1>3. CASE got # {}
  <2>1. PICK t \in got : t \in {s, "*", "admin"}
    BY <1>1, <1>3 DEF HasScope
  <2>2. HasScope(mine, t)
    OBVIOUS
  <2> QED
    BY <2>1, <2>2 DEF HasScope
<1> QED
  BY <1>2, <1>3

LEMMA Minted ==
  ASSUME TokensInv, NEW r \in Requests, NEW asked \in ScopeLists, Mint(r, asked)
  PROVE  TokensInv'
<1> DEFINE q == request[r]
           scopes == Granted(r, asked)
           n == Len(tokens) + 1
<1>1. TokensTypeOK /\ MintedWithinAuthority /\ RequestInv(r) /\ q \in RequestRow /\ q.pc = "handler"
  BY DEF TokensInv, TokensTypeOK, RequestRow, Mint
<1>2. q.as \in DOMAIN tokens /\ q.tenant = tokens[q.as].tenant /\ q.scopes = tokens[q.as].scopes
  BY <1>1 DEF RequestInv
<1>3. tokens[q.as] \in TokenRow /\ q.as \in Nat
  BY <1>1, <1>2 DEF TokensTypeOK
<1>4. q.tenant \in Tenants /\ q.scopes \in SUBSET Scopes /\ scopes \in SUBSET Scopes
  BY <1>2, <1>3, TokensAssumption DEF TokenRow, Granted
<1>5. Authority(scopes) \subseteq Authority(q.scopes)
  BY <1>4, TokensAssumption, GrantedWithin DEF Mint, Granted
<1>6. Issue(q.tenant, scopes, q.as, "api")
  BY DEF Mint
<1> HIDE DEF scopes, q
<1>7. /\ Grows /\ Len(tokens') = n /\ tokens'[n].tenant = q.tenant /\ tokens'[n].scopes = scopes
      /\ tokens'[n].by = q.as /\ tokens'[n].how = "api"
  BY <1>1, <1>3, <1>4, <1>6, TokenIssued
<1>8. MintedWithinAuthority'
  <2> SUFFICES ASSUME NEW i \in DOMAIN tokens', tokens'[i].how = "api"
               PROVE  /\ tokens'[i].by \in 1..(i - 1)
                      /\ tokens'[i].tenant = tokens'[tokens'[i].by].tenant
                      /\ Authority(tokens'[i].scopes) \subseteq Authority(tokens'[tokens'[i].by].scopes)
    BY DEF MintedWithinAuthority, Authority
  <2>1. CASE i = n
    <3>1. SameToken(tokens[q.as], tokens'[q.as]) /\ q.as \in 1..(n - 1)
      BY <1>1, <1>2, <1>7, RowsKnown
    <3> QED
      BY <1>2, <1>5, <1>7, <2>1, <3>1 DEF SameToken
  <2>2. CASE i # n
    <3>1. i \in DOMAIN tokens /\ SameToken(tokens[i], tokens'[i])
      BY <1>1, <1>7, <2>2, RowsKnown
    <3>2. /\ tokens[i].by \in 1..(i - 1) /\ tokens[i].tenant = tokens[tokens[i].by].tenant
          /\ Authority(tokens[i].scopes) \subseteq Authority(tokens[tokens[i].by].scopes)
      BY <1>1, <3>1 DEF MintedWithinAuthority, SameToken
    <3>3. tokens[i].by \in DOMAIN tokens
      BY <1>1, <1>7, <3>1, <3>2, RowsKnown
    <3>4. SameToken(tokens[tokens[i].by], tokens'[tokens[i].by])
      BY <1>1, <1>7, <3>3, RowsKnown
    <3> QED
      BY <3>1, <3>2, <3>4 DEF SameToken
  <2> QED
    BY <2>1, <2>2
<1> QED
  BY <1>7, <1>8, RequestReplies DEF Mint

LEMMA RequestSteps == ASSUME TokensInv, NEW r \in Requests, RequestStep(r) PROVE TokensInv'
<1>1. /\ TokensTypeOK /\ MintedWithinAuthority /\ RequestInv(r) /\ request[r] \in RequestRow
      /\ DOMAIN tokens \subseteq Nat
  BY DEF TokensInv, TokensTypeOK, RequestRow
<1>2. ASSUME NEW i \in DOMAIN tokens, FindTarget(r, i) PROVE TokensInv'
  <2> DEFINE q == [request[r] EXCEPT !.pc = "revoke", !.target = i]
  <2>1. i \in Nat
    BY <1>1
  <2>2. /\ q \in RequestRow /\ q.pc = "revoke" /\ q.target = i /\ q.as = request[r].as
        /\ q.tenant = request[r].tenant /\ q.scopes = request[r].scopes
    BY <1>1, <2>1 DEF RequestRow
  <2>3. request' = [request EXCEPT ![r] = q] /\ UNCHANGED <<tokens, rotation, storeUp>>
        /\ request[r].pc # "idle"
    BY <1>2 DEF FindTarget
  <2> HIDE DEF q
  <2>4. request'[r] = q
    BY <1>1, <2>3 DEF TokensTypeOK
  <2>5. RequestInv(r)' /\ MintedWithinAuthority'
    BY <1>1, <2>2, <2>3, <2>4 DEF RequestInv, MintedWithinAuthority, Authority
  <2> QED
    BY <1>1, <2>2, <2>3, <2>5, TokenSame, RequestDoes
<1>3. CASE RevokeTarget(r)
  <2>1. request[r].target \in DOMAIN tokens /\ Revoke(request[r].target)
    BY <1>1, <1>3 DEF RevokeTarget, RequestInv
  <2>2. Grows /\ Len(tokens') = Len(tokens)
    BY <1>1, <2>1, TokenRevoked
  <2>3. MintedWithinAuthority'
    BY <1>1, <2>2, RowsKnown, MintedKept
  <2> QED
    BY <1>3, <2>2, <2>3, RequestReplies DEF RevokeTarget
<1>4. CASE Refuse(r)
  <2>1. UNCHANGED <<tokens, rotation, storeUp>> /\ Reply(r)
    BY <1>4 DEF Refuse
  <2>2. MintedWithinAuthority'
    BY <1>1, <2>1 DEF MintedWithinAuthority, Authority
  <2> QED
    BY <1>1, <2>1, <2>2, TokenSame, RequestReplies
<1> QED
  BY <1>2, <1>3, <1>4, Authenticated, Minted DEF RequestStep

-----------------------------------------------------------------------------
RotationRow == [pc : {"idle", "issue", "revoke_old", "rollback", "ok", "failed"},
                old : Nat, new : Nat, cancelled : BOOLEAN, excused : BOOLEAN]

\* A step of the rotation, which mints nothing on behalf of a request.
LEMMA RotationDoes ==
  ASSUME TokensInv, Grows, UNCHANGED <<request, storeUp>>, rotation' \in RotationRow,
         \A i \in DOMAIN tokens' \ DOMAIN tokens : tokens'[i].how # "api",
         RotationInv'
  PROVE  TokensInv'
<1>1. TokensTypeOK'
  BY DEF TokensInv, TokensTypeOK, Grows, RotationRow
<1> QED
  BY <1>1, MintedKept, RequestKept DEF TokensInv

LEMMA RotationMoves ==
  ASSUME NEW x \in RotationRow, NEW pc \in {"issue", "revoke_old", "rollback", "ok", "failed"}
  PROVE  LET y == [x EXCEPT !.pc = pc]
         IN  y \in RotationRow /\ y.pc = pc /\ y.old = x.old /\ y.new = x.new /\ y.excused = x.excused
  BY DEF RotationRow

LEMMA RotationSteps == ASSUME TokensInv, RotationStep PROVE TokensInv'
<1>1. /\ TokensTypeOK /\ rotation \in RotationRow /\ RotationInv /\ storeUp \in BOOLEAN
      /\ DOMAIN tokens \subseteq Nat
  BY DEF TokensInv, TokensTypeOK, RotationRow
<1>2. ASSUME NEW i \in DOMAIN tokens, BeginRotation(i) PROVE TokensInv'
  <2>1. i \in Nat
    BY <1>1
  <2>2. NoRotation \in RotationRow /\ NoRotation.new = 0
    BY DEF NoRotation, RotationRow
  <2>3. /\ rotation' \in RotationRow /\ rotation'.pc = "issue" /\ rotation'.old = i /\ rotation'.new = 0
        /\ UNCHANGED tokens
    BY <1>2, <2>1, <2>2 DEF BeginRotation, RotationRow
  <2>4. RotationInv'
    BY <2>3 DEF RotationInv, RotationLeavesOne
  <2> QED
    BY <1>1, <1>2, <2>3, <2>4, TokenSame, RotationDoes DEF BeginRotation, RotationOnly
<1>3. CASE CancelRotation
  <2>1. /\ rotation' \in RotationRow /\ rotation'.pc = rotation.pc /\ rotation'.old = rotation.old
        /\ rotation'.new = rotation.new /\ UNCHANGED tokens
        /\ rotation.pc \in {"issue", "revoke_old", "rollback"}
    BY <1>1, <1>3 DEF CancelRotation, RotationRow
  <2>2. RotationInv'
    BY <1>1, <2>1 DEF RotationInv, RotationLeavesOne
  <2> QED
    BY <1>1, <1>3, <2>1, <2>2, TokenSame, RotationDoes DEF CancelRotation, RotationOnly
<1>4. CASE RotateIssue
  <2> USE DEF RotationOnly
  <2>0. rotation.pc = "issue" /\ rotation.old \in DOMAIN tokens /\ rotation.new = 0
        /\ tokens[rotation.old] \in TokenRow
    BY <1>1, <1>4 DEF RotateIssue, RotationInv, TokensTypeOK
  <2>1. ASSUME NEW by \in {0, tokens[rotation.old].by},
               Issue(tokens[rotation.old].tenant, tokens[rotation.old].scopes, by, "rotation"),
               rotation' = [rotation EXCEPT !.pc = "revoke_old", !.new = Len(tokens) + 1]
        PROVE  TokensInv'
    <3>1. /\ by \in Nat /\ tokens[rotation.old].tenant \in Tenants
          /\ tokens[rotation.old].scopes \in SUBSET Scopes
      BY <2>0 DEF TokenRow
    <3>2. Grows /\ Len(tokens') = Len(tokens) + 1 /\ tokens'[Len(tokens) + 1].how = "rotation"
      BY <1>1, <2>1, <3>1, TokenIssued
    <3>3. Len(tokens) \in Nat /\ Len(tokens) + 1 \in Nat
      BY <1>1, <3>2, RowsKnown
    <3>4. /\ rotation' \in RotationRow /\ rotation'.pc = "revoke_old" /\ rotation'.old = rotation.old
          /\ rotation'.new = Len(tokens) + 1
      BY <1>1, <2>1, <3>3 DEF RotationRow
    <3>5. \A i \in DOMAIN tokens' \ DOMAIN tokens : tokens'[i].how # "api"
      BY <1>1, <3>2, RowsKnown
    <3>6. RotationInv'
      BY <1>1, <2>0, <3>2, <3>3, <3>4, RowsKnown DEF RotationInv, RotationLeavesOne
    <3> QED
      BY <1>4, <3>2, <3>4, <3>5, <3>6, RotationDoes DEF RotateIssue
  <2>2. CASE RotationTo("failed") /\ UNCHANGED tokens
    <3>1. /\ rotation' \in RotationRow /\ rotation'.pc = "failed" /\ rotation'.old = rotation.old
          /\ rotation'.new = rotation.new
      BY <1>1, <2>2, RotationMoves DEF RotationTo
    <3>2. RotationInv'
      BY <1>1, <2>0, <2>2, <3>1 DEF RotationInv, RotationLeavesOne
    <3> QED
      BY <1>1, <1>4, <2>2, <3>1, <3>2, TokenSame, RotationDoes DEF RotateIssue
  <2> QED
    BY <1>4, <2>1, <2>2 DEF RotateIssue
<1>5. CASE RotateRevokeOld
  <2> USE DEF RotationOnly
  <2>0. rotation.pc = "revoke_old" /\ rotation.old \in DOMAIN tokens /\ rotation.new # 0
        /\ rotation.new \in DOMAIN tokens
    BY <1>1, <1>5 DEF RotateRevokeOld, RotationInv
  <2>1. CASE Revoke(rotation.old) /\ RotationTo("ok")
    <3>1. /\ rotation' \in RotationRow /\ rotation'.pc = "ok" /\ rotation'.old = rotation.old
          /\ rotation'.new = rotation.new
      BY <1>1, <2>1, RotationMoves DEF RotationTo
    <3>2. Grows /\ Len(tokens') = Len(tokens) /\ tokens'[rotation.old].revoked
      BY <1>1, <2>0, <2>1, TokenRevoked
    <3>3. DOMAIN tokens' = DOMAIN tokens
      BY <1>1, <3>2, RowsKnown
    <3>4. RotationInv'
      BY <2>0, <3>1, <3>2, <3>3 DEF RotationInv, RotationLeavesOne
    <3> QED
      BY <1>5, <3>1, <3>2, <3>3, <3>4, RotationDoes DEF RotateRevokeOld
  <2>2. CASE RotationTo("rollback") /\ UNCHANGED tokens
    <3>1. /\ rotation' \in RotationRow /\ rotation'.pc = "rollback" /\ rotation'.old = rotation.old
          /\ rotation'.new = rotation.new
      BY <1>1, <2>2, RotationMoves DEF RotationTo
    <3>2. RotationInv'
      BY <2>0, <2>2, <3>1 DEF RotationInv, RotationLeavesOne
    <3> QED
      BY <1>1, <1>5, <2>2, <3>1, <3>2, TokenSame, RotationDoes DEF RotateRevokeOld
  <2> QED
    BY <1>5, <2>1, <2>2 DEF RotateRevokeOld
<1>6. CASE RotateRollback
  <2> USE DEF RotationOnly
  <2>0. rotation.pc = "rollback" /\ rotation.old \in DOMAIN tokens /\ rotation.new # 0
        /\ rotation.new \in DOMAIN tokens
    BY <1>1, <1>6 DEF RotateRollback, RotationInv
  <2>1. CASE Revoke(rotation.new) /\ RotationTo("failed")
    <3>1. /\ rotation' \in RotationRow /\ rotation'.pc = "failed" /\ rotation'.old = rotation.old
          /\ rotation'.new = rotation.new
      BY <1>1, <2>1, RotationMoves DEF RotationTo
    <3>2. Grows /\ Len(tokens') = Len(tokens) /\ tokens'[rotation.new].revoked
      BY <1>1, <2>0, <2>1, TokenRevoked
    <3>3. DOMAIN tokens' = DOMAIN tokens
      BY <1>1, <3>2, RowsKnown
    <3>4. RotationInv'
      BY <2>0, <3>1, <3>2, <3>3 DEF RotationInv, RotationLeavesOne
    <3> QED
      BY <1>6, <3>1, <3>2, <3>3, <3>4, RotationDoes DEF RotateRollback
  <2>2. CASE /\ ~RollbackReaches
             /\ rotation' = [rotation EXCEPT !.pc = "failed", !.excused = ~storeUp]
             /\ UNCHANGED tokens
    <3>1. ~storeUp
      BY <2>2 DEF RollbackReaches, Reaches
    <3>2. rotation' = [rotation EXCEPT !.pc = "failed", !.excused = TRUE]
      BY <2>2, <3>1
    <3>3. /\ rotation' \in RotationRow /\ rotation'.pc = "failed" /\ rotation'.old = rotation.old
          /\ rotation'.new = rotation.new /\ rotation'.excused
      BY <1>1, <3>2 DEF RotationRow
    <3>4. RotationInv'
      BY <2>0, <2>2, <3>3 DEF RotationInv, RotationLeavesOne
    <3> QED
      BY <1>1, <1>6, <2>2, <3>3, <3>4, TokenSame, RotationDoes DEF RotateRollback
  <2> QED
    BY <1>6, <2>1, <2>2 DEF RotateRollback
<1> QED
  BY <1>2, <1>3, <1>4, <1>5, <1>6 DEF RotationStep

LEMMA TokensInvStep == ASSUME TokensInv, [TokensNext]_tokenVars PROVE TokensInv'
<1>1. CASE UNCHANGED tokenVars
  BY <1>1 DEF tokenVars, TokensInv, TokensTypeOK, MintedWithinAuthority, Authority, RequestInv,
     RotationInv, RotationLeavesOne
<1> QED
  BY <1>1, CliDoes, RequestSteps, RotationSteps DEF TokensNext

LEMMA TokensHold == TokensSpec => []TokensInv
  BY TokensInvInit, TokensInvStep, PTL DEF TokensSpec

(***************************************************************************)
(* Every reachable state of the tokens table and its users is well typed.  *)
(***************************************************************************)
THEOREM TokensTypeCorrect == TokensSpec => []TokensTypeOK
<1>1. TokensInv => TokensTypeOK
  BY DEF TokensInv
<1> QED
  BY <1>1, TokensHold, PTL

(***************************************************************************)
(* No chain of API requests, of any length and in any interleaving, gets a *)
(* token that may do more than the one it began with (handlers.go:253-272).*)
(***************************************************************************)
THEOREM MintingNeverWidens == TokensSpec => []MintedWithinAuthority
<1>1. TokensInv => MintedWithinAuthority
  BY DEF TokensInv
<1> QED
  BY <1>1, TokensHold, PTL

(***************************************************************************)
(* Whenever its caller goes away and the store fails, a rotation that has  *)
(* ended has not left both tokens alive, unless the store was down for the *)
(* rollback too (token.go:128-158).                                        *)
(***************************************************************************)
THEOREM RotationLeavesOneToken == TokensSpec => []RotationLeavesOne
<1>1. TokensInv => RotationLeavesOne
  BY DEF TokensInv, RotationInv
<1> QED
  BY <1>1, TokensHold, PTL

(***************************************************************************)
(* A login's token.  The code in a login's channel is its own, since the   *)
(* handler has compared the state, and the channel is written once.        *)
(***************************************************************************)
LoginInv ==
  /\ login \in [Logins -> [pc : LoginPcs, flow : Flows \union {"none"}, automatic : BOOLEAN,
                           ws : Workspaces \union {NoLogin}]]
  /\ word \in [Logins -> LoginWords] /\ granted \in [Logins -> Logins \union {NoLogin}]
  /\ \A l \in Logins :
       /\ word[l].said = "code" => word[l].code = l
       /\ LoginAt(l, "exchange") => word[l].said = "code"
       /\ granted[l] \in {l, NoLogin}
       /\ login[l].pc \in {"store", "ok"} => granted[l] = l

LEMMA LoginInvInit == LoginInit => LoginInv
  BY LoginAssumption DEF LoginInit, LoginInv, NewLogin, NoWord, LoginPcs, LoginWords, LoginAt

\* A step that moves one login to a place before its exchange, or ends it.
LEMMA LoginMoves ==
  ASSUME LoginInv, NEW l \in Logins, UNCHANGED <<word, granted>>,
         login' \in [Logins -> [pc : LoginPcs, flow : Flows \union {"none"}, automatic : BOOLEAN,
                                ws : Workspaces \union {NoLogin}]],
         \A m \in Logins \ {l} : login'[m] = login[m],
         login'[l].pc \notin {"store", "ok"} \/ granted[l] = l,
         login'[l].pc = "exchange" => word[l].said = "code"
  PROVE  LoginInv'
  BY DEF LoginInv, LoginAt

LEMMA LoginFails ==
  ASSUME LoginInv, NEW l \in Logins, EndLogin(l, "failed"), UNCHANGED <<word, granted>>
  PROVE  LoginInv'
  BY LoginMoves DEF EndLogin, LoginGoto, LoginInv, LoginPcs

\* A step that hands a login its own token.
LEMMA LoginGets ==
  ASSUME LoginInv, NEW l \in Logins, login' = [login EXCEPT ![l].pc = "store"],
         granted' = [granted EXCEPT ![l] = l], UNCHANGED word
  PROVE  LoginInv'
  BY DEF LoginInv, LoginAt, LoginPcs

LEMMA LoginInvStep == ASSUME LoginInv, [LoginNext]_loginVars PROVE LoginInv'
<1> USE LoginAssumption
<1>1. ASSUME NEW l \in Logins, NEW asked \in Flows \union {"auto"},
             NEW ws \in Workspaces \union {NoLogin}, NEW canOpen \in BOOLEAN,
             NEW readable \in BOOLEAN, BeginLogin(l, asked, canOpen, ws, readable)
      PROVE  LoginInv'
  <2> DEFINE choices == FlowChoices(asked, canOpen)
  <2>1. CASE choices = {} \/ BoundElsewhere(ws, readable)
    <3>1. EndLogin(l, "failed") /\ UNCHANGED <<word, granted>>
      BY <1>1, <2>1 DEF BeginLogin
    <3> QED
      BY <3>1, LoginFails
  <2>2. CASE ~(choices = {} \/ BoundElsewhere(ws, readable))
    <3> DEFINE flow == CHOOSE f \in choices : TRUE
               bound == IF flow = "client" THEN NoLogin ELSE ws
               begins == [pc |-> flow, flow |-> flow, automatic |-> asked = "auto" /\ flow = "browser",
                          ws |-> bound]
    <3>1. choices \subseteq Flows
      BY DEF FlowChoices, Flows
    <3>2. flow \in Flows
      BY <2>2, <3>1
    <3>3. login' = [login EXCEPT ![l] = begins] /\ UNCHANGED <<word, granted>>
      BY <1>1, <2>2 DEF BeginLogin
    <3>4. flow \in LoginPcs /\ flow \notin {"store", "ok", "exchange"}
      BY <3>2 DEF LoginPcs, Flows
    <3>5. bound \in Workspaces \union {NoLogin}
      OBVIOUS
    <3> HIDE DEF flow, bound, choices
    <3>6. begins \in [pc : LoginPcs, flow : Flows \union {"none"}, automatic : BOOLEAN,
                   ws : Workspaces \union {NoLogin}]
      BY <3>2, <3>4, <3>5
    <3>7. begins.pc \notin {"store", "ok", "exchange"}
      BY <3>4
    <3> HIDE DEF begins
    <3> QED
      BY <3>3, <3>6, <3>7, LoginMoves DEF LoginInv
  <2> QED
    BY <2>1, <2>2
<1>2. ASSUME NEW l \in Logins, FailLogin(l) PROVE LoginInv'
  BY <1>2, LoginFails DEF FailLogin
<1>3. ASSUME NEW l \in Logins, ListenForBrowser(l) \/ FallBackOnDevice(l) PROVE LoginInv'
  <2> DEFINE heard == [login[l] EXCEPT !.pc = "callback", !.automatic = FALSE]
             device == [login[l] EXCEPT !.pc = "device", !.flow = "device", !.automatic = FALSE]
             Places == LoginPcs
             Ways == Flows \union {"none"}
             Bound == Workspaces \union {NoLogin}
  <2>0. login[l] \in [pc : Places, flow : Ways, automatic : BOOLEAN, ws : Bound]
    BY DEF LoginInv
  <2>4. "callback" \in Places /\ "device" \in Places /\ "device" \in Ways
    BY DEF LoginPcs, Flows
  <2> HIDE DEF Places, Ways, Bound
  <2>1. heard \in [pc : Places, flow : Ways, automatic : BOOLEAN, ws : Bound]
        /\ heard.pc = "callback"
    BY <2>0, <2>4
  <2>2. device \in [pc : Places, flow : Ways, automatic : BOOLEAN, ws : Bound]
        /\ device.pc = "device"
    BY <2>0, <2>4
  <2>3. /\ login' = [login EXCEPT ![l] = heard] \/ login' = [login EXCEPT ![l] = device]
        /\ UNCHANGED <<word, granted>>
    BY <1>3 DEF ListenForBrowser, FallBackOnDevice
  <2> HIDE DEF heard, device
  <2> QED
    BY <2>1, <2>2, <2>3, LoginMoves DEF LoginInv, Places, Ways, Bound
<1>4. ASSUME NEW l \in Logins, NEW cb \in Callbacks, Callback(l, cb) PROVE LoginInv'
  <2> DEFINE heard == Word(l, cb)
  <2>1. heard \in LoginWords /\ (heard.said = "code" => heard.code = l)
    BY DEF Word, LoginWords, NoWord, StateMatches, StateOf, Callbacks
  <2>2. word' = [word EXCEPT ![l] = PutWord(l, heard)] /\ UNCHANGED <<login, granted>>
    BY <1>4 DEF Callback
  <2>3. PutWord(l, heard) \in LoginWords
        /\ (PutWord(l, heard).said = "code" => PutWord(l, heard).code = l)
        /\ (word[l].said = "code" => PutWord(l, heard).said = "code")
    BY <2>1 DEF PutWord, LoginInv, LoginWords
  <2> HIDE DEF heard
  <2> QED
    BY <2>2, <2>3 DEF LoginInv, LoginAt
<1>5. ASSUME NEW l \in Logins, Heard(l) PROVE LoginInv'
  <2>1. CASE EndLogin(l, "failed")
    BY <1>5, <2>1, LoginFails DEF Heard
  <2>2. CASE word[l].said = "code" /\ LoginGoto(l, "exchange")
    BY <1>5, <2>2, LoginMoves DEF Heard, LoginGoto, LoginInv, LoginPcs
  <2> QED
    BY <1>5, <2>1, <2>2 DEF Heard
<1>6. ASSUME NEW l \in Logins, Exchange(l) PROVE LoginInv'
  <2>1. word[l].code = l
    BY <1>6 DEF Exchange, LoginInv
  <2>2. CASE EndLogin(l, "store") /\ granted' = [granted EXCEPT ![l] = word[l].code]
    BY <1>6, <2>1, <2>2, LoginGets DEF Exchange, EndLogin, LoginGoto
  <2>3. CASE EndLogin(l, "failed") /\ UNCHANGED granted
    BY <1>6, <2>3, LoginFails DEF Exchange
  <2> QED
    BY <1>6, <2>2, <2>3 DEF Exchange
<1>7. ASSUME NEW l \in Logins, AskDevice(l) PROVE LoginInv'
  <2>1. CASE LoginGoto(l, "polling")
    BY <1>7, <2>1, LoginMoves DEF AskDevice, LoginGoto, LoginInv, LoginPcs
  <2>2. CASE EndLogin(l, "failed")
    BY <1>7, <2>2, LoginFails DEF AskDevice
  <2> QED
    BY <1>7, <2>1, <2>2 DEF AskDevice
<1>8. ASSUME NEW l \in Logins, EndPolling(l) PROVE LoginInv'
  <2>1. CASE EndLogin(l, "store") /\ granted' = [granted EXCEPT ![l] = l]
    BY <1>8, <2>1, LoginGets DEF EndPolling, EndLogin, LoginGoto
  <2>2. CASE EndLogin(l, "failed") /\ UNCHANGED granted
    BY <1>8, <2>2, LoginFails DEF EndPolling
  <2> QED
    BY <1>8, <2>1, <2>2 DEF EndPolling
<1>9. ASSUME NEW l \in Logins, ClientToken(l) PROVE LoginInv'
  <2>1. CASE EndLogin(l, "store") /\ granted' = [granted EXCEPT ![l] = l]
    BY <1>9, <2>1, LoginGets DEF ClientToken, EndLogin, LoginGoto
  <2>2. CASE EndLogin(l, "failed") /\ UNCHANGED granted
    BY <1>9, <2>2, LoginFails DEF ClientToken
  <2> QED
    BY <1>9, <2>1, <2>2 DEF ClientToken
<1>10. ASSUME NEW l \in Logins, StoreLogin(l) PROVE LoginInv'
  BY <1>10, LoginMoves DEF StoreLogin, EndLogin, LoginGoto, LoginInv, LoginPcs, LoginAt
<1>11. CASE UNCHANGED <<login, word, granted>>
  BY <1>11 DEF LoginInv, LoginAt
<1>12. ASSUME NEW l \in Logins, Poller(l) \/ UserAllows(l) PROVE UNCHANGED <<login, word, granted>>
  BY <1>12 DEF Poller, PollCheck, PollAnswer, PollWait, UserAllows
<1> QED
  BY <1>1, <1>2, <1>3, <1>4, <1>5, <1>6, <1>7, <1>8, <1>9, <1>10, <1>11, <1>12
  DEF LoginNext, LoginStep, loginVars, RevokeConnection, LoginTick

\* However many logins overlap and whatever callbacks come to whichever port, the
\* token a login ends with and stores is for the authorization it began.
THEOREM LoginTokensAreOwn == LoginSpec => []TokenIsOwn
<1>1. LoginInv => TokenIsOwn
  BY DEF LoginInv, TokenIsOwn, LoginAt
<1> QED
  BY <1>1, LoginInvInit, LoginInvStep, PTL DEF LoginSpec

PollRow == [pc : {"off", "check", "asked", "wait", "error", "token"}, interval : Nat, wait : Nat]

\* The rest of a login's state: what it has left of its time, how its device polls,
\* and the row.
LoginRest ==
  /\ connection \in [of : Logins \union {NoLogin}, ws : Workspaces \union {NoLogin}]
  /\ timeLeft \in [Logins -> 0..LoginTimeout]
  /\ allowed \subseteq Logins
  /\ poll \in [Logins -> PollRow]

\* The records a polling goroutine goes through.
LEMMA PollMoves ==
  ASSUME NEW r \in PollRow, NEW pc \in {"check", "asked", "wait", "error", "token"}, NEW i \in Nat,
         NEW w \in Nat
  PROVE  /\ [r EXCEPT !.pc = pc] \in PollRow
         /\ [r EXCEPT !.pc = pc, !.wait = w] \in PollRow
         /\ [r EXCEPT !.pc = pc, !.interval = i, !.wait = w] \in PollRow
  BY DEF PollRow

LEMMA LoginRestStep == ASSUME LoginInv, LoginRest, [LoginNext]_loginVars PROVE LoginRest'
<1> USE LoginAssumption DEF LoginRest
<1>1. ASSUME NEW l \in Logins, NEW asked \in Flows \union {"auto"},
             NEW ws \in Workspaces \union {NoLogin}, NEW canOpen \in BOOLEAN,
             NEW readable \in BOOLEAN, BeginLogin(l, asked, canOpen, ws, readable)
      PROVE  LoginRest'
  BY <1>1 DEF BeginLogin, StartClock, EndLogin
<1>2. ASSUME NEW l \in Logins, LoginStep(l) \/ FailLogin(l) PROVE LoginRest'
  <2>1. /\ \/ UNCHANGED timeLeft \/ timeLeft' = [timeLeft EXCEPT ![l] = 0]
           \/ timeLeft' = [timeLeft EXCEPT ![l] = LoginTimeout]
        /\ UNCHANGED allowed
    BY <1>2 DEF LoginStep, ListenForBrowser, FallBackOnDevice, Heard, Exchange, AskDevice, EndPolling,
                ClientToken, StoreLogin, FailLogin, StartClock, EndLogin
  <2>2. \/ UNCHANGED connection
        \/ connection' = [of |-> granted[l], ws |-> login[l].ws]
    BY <1>2 DEF LoginStep, ListenForBrowser, FallBackOnDevice, Heard, Exchange, AskDevice, EndPolling,
                ClientToken, StoreLogin, FailLogin
  <2>3. \/ UNCHANGED poll
        \/ poll' = [poll EXCEPT ![l] = [pc |-> "check", interval |-> PollInterval, wait |-> 0]]
    BY <1>2 DEF LoginStep, ListenForBrowser, FallBackOnDevice, Heard, Exchange, AskDevice, EndPolling,
                ClientToken, StoreLogin, FailLogin, NoPoll
  <2>4. granted[l] \in Logins \union {NoLogin} /\ login[l].ws \in Workspaces \union {NoLogin}
    BY DEF LoginInv
  <2>5. timeLeft' \in [Logins -> 0..LoginTimeout]
    BY <2>1
  <2> QED
    BY <2>1, <2>2, <2>3, <2>4, <2>5 DEF PollRow
<1>3. ASSUME NEW l \in Logins, Poller(l) PROVE LoginRest'
  <2>1. UNCHANGED <<connection, timeLeft, allowed>>
    BY <1>3 DEF Poller, PollCheck, PollAnswer, PollWait
  <2>2. poll[l] \in PollRow /\ poll[l].interval \in Nat /\ SlowerInterval(l) \in Nat
    BY DEF PollRow, SlowerInterval
  <2>3. \E r \in PollRow : poll' = [poll EXCEPT ![l] = r]
    <3>1. CASE \E how \in {"error", "token"} : PollEnds(l, how)
      BY <2>2, <3>1, PollMoves DEF PollEnds
    <3>2. CASE PollCheck(l)
      BY <2>2, <3>1, <3>2, PollMoves DEF PollCheck
    <3>3. CASE PollAnswer(l)
      BY <2>2, <3>1, <3>3, PollMoves DEF PollAnswer
    <3>4. CASE PollWait(l)
      BY <2>2, <3>1, <3>4, PollMoves DEF PollWait
    <3> QED
      BY <1>3, <3>2, <3>3, <3>4 DEF Poller
  <2> QED
    BY <2>1, <2>3
<1>4. ASSUME NEW l \in Logins, UserAllows(l) PROVE LoginRest'
  BY <1>4 DEF UserAllows
<1>5. ASSUME NEW l \in Logins, NEW cb \in Callbacks, Callback(l, cb) PROVE LoginRest'
  BY <1>5 DEF Callback
<1>6. CASE RevokeConnection
  BY <1>6 DEF RevokeConnection, NoConnection
<1>7. CASE LoginTick
  <2>1. \A l \in Logins : timeLeft[l] \in 0..LoginTimeout /\ poll[l].wait \in Nat
    BY DEF PollRow
  <2>2. timeLeft' \in [Logins -> 0..LoginTimeout]
    BY <1>7, <2>1 DEF LoginTick
  <2>3. \A l \in Logins : (IF poll[l].wait > 0 THEN poll[l].wait - 1 ELSE 0) \in Nat
    BY <2>1
  <2>4. UNCHANGED <<connection, allowed>>
        /\ poll' = [l \in Logins |-> [poll[l] EXCEPT !.wait = IF poll[l].wait > 0 THEN poll[l].wait - 1 ELSE 0]]
    BY <1>7 DEF LoginTick
  <2> QED
    BY <2>2, <2>3, <2>4 DEF PollRow
<1>8. CASE UNCHANGED loginVars
  BY <1>8 DEF loginVars
<1> HIDE DEF LoginRest
<1> QED
  BY <1>1, <1>2, <1>3, <1>4, <1>5, <1>6, <1>7, <1>8 DEF LoginNext

\* Every reachable state of overlapping logins is well typed: no timeout passes its
\* beginning, and no token or workspace is stored that is not a login's.
THEOREM LoginsTypeCorrect == LoginSpec => []LoginTypeOK
<1>1. LoginInit => LoginRest
  BY LoginAssumption DEF LoginInit, LoginRest, NoConnection, NoPoll, PollRow
<1>2. LoginInv /\ LoginRest => LoginTypeOK
  BY DEF LoginInv, LoginRest, LoginTypeOK, PollRow
<1> QED
  BY <1>1, <1>2, LoginInvInit, LoginInvStep, LoginRestStep, PTL DEF LoginSpec
=============================================================================
