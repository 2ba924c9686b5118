-------------------------------- MODULE Daemon --------------------------------
(***************************************************************************)
(* kimbap daemon: processes that want to serve one unix socket, and the    *)
(* calls clients send to it.  The socket's path names whose listener it    *)
(* leads to.  The kernel is external: it gives the lock to one process and *)
(* takes it back when the process is gone, refuses to bind to a path that  *)
(* exists, and refuses connections to a listener that is closed.  Closing  *)
(* a listener removes the path, a killed process leaves it.                *)
(***************************************************************************)
EXTENDS Naturals, FiniteSets

CONSTANTS Daemons,   \* the processes
          ClientCalls,     \* the calls clients send
          MaxStarts  \* bound: starts of each process

\* No process is called what stands for none.
ASSUME DaemonAssumption == MaxStarts \in Nat /\ Daemons \intersect {"free", "absent"} = {}

VARIABLES
  daemon,  \* each process: where it is, whether its runtime's stores are open
  starts,  \* how often each has been started
  lock,    \* who holds the lock, or "free"
  socket,  \* whose listener the path leads to, or "absent"
  received \* each call: where it is and who serves it

daemonVars == <<daemon, starts, lock, socket, received>>

NoOne == "no one"
Down == [pc |-> "down", listening |-> FALSE, stores |-> "closed", told |-> FALSE]

DaemonInit ==
  /\ daemon = [d \in Daemons |-> Down]
  /\ starts = [d \in Daemons |-> 0]
  /\ lock = "free"
  /\ socket = "absent"
  /\ received = [c \in ClientCalls |-> [pc |-> "new", by |-> NoOne]]

DaemonAt(d, pc) == daemon' = [daemon EXCEPT ![d].pc = pc]

(***************************************************************************)
(* The start.                                                              *)
(***************************************************************************)
Start(d) ==
  /\ daemon[d].pc = "down"
  /\ starts[d] < MaxStarts
  /\ starts' = [starts EXCEPT ![d] = @ + 1]
  /\ daemon' = [daemon EXCEPT ![d] = [@ EXCEPT !.pc = "lock", !.stores = "open"]]
  /\ UNCHANGED <<lock, socket, received>>

\* Mutant: the lock is shared, so that whoever asks gets it.
TakeSharedLock(d) ==
  /\ daemon[d].pc = "lock"
  /\ lock' = d
  /\ DaemonAt(d, "listen")
  /\ UNCHANGED <<starts, socket, received>>

TakeLock(d) ==
  /\ daemon[d].pc = "lock"
  /\ \/ lock = "free" /\ lock' = d /\ DaemonAt(d, "listen")
     \/ lock # "free" /\ DaemonAt(d, "cleanup") /\ UNCHANGED lock
  /\ UNCHANGED <<starts, socket, received>>

\* Binding fails when the path is there, whoever left it.
Bind(d) ==
  /\ daemon[d].pc \in {"listen", "listen_again"}
  /\ \/ /\ socket = "absent"
        /\ socket' = d
        /\ daemon' = [daemon EXCEPT ![d] = [@ EXCEPT !.pc = "serve", !.listening = TRUE]]
     \/ /\ socket # "absent"
        /\ DaemonAt(d, IF daemon[d].pc = "listen" THEN "dial" ELSE "unlock")
        /\ UNCHANGED socket
  /\ UNCHANGED <<starts, lock, received>>

\* A path that answers is another daemon's; one that does not is stale.
Dial(d) ==
  /\ daemon[d].pc = "dial"
  /\ DaemonAt(d, IF socket # "absent" /\ daemon[socket].listening
                 THEN "unlock" ELSE "remove_stale")
  /\ UNCHANGED <<starts, lock, socket, received>>

RemoveStale(d) ==
  /\ daemon[d].pc = "remove_stale"
  /\ socket' = "absent"
  /\ DaemonAt(d, "listen_again")
  /\ UNCHANGED <<starts, lock, received>>

(***************************************************************************)
(* The calls.                                                              *)
(***************************************************************************)
Accept(c) ==
  /\ received[c].pc = "new"
  /\ socket # "absent"
  /\ daemon[socket].listening
  /\ received' = [received EXCEPT ![c] = [pc |-> "accepted", by |-> socket]]
  /\ UNCHANGED <<daemon, starts, lock, socket>>

\* The middleware or the decoder refuse, or the pipeline has no store to use any
\* more; else it runs the action.
RefuseCall(c) ==
  /\ received[c].pc = "accepted"
  /\ received' = [received EXCEPT ![c].pc = "answered"]
  /\ UNCHANGED <<daemon, starts, lock, socket>>

ExecuteCall(c) ==
  /\ received[c].pc = "accepted"
  /\ daemon[received[c].by].stores = "open"
  /\ received' = [received EXCEPT ![c].pc = "done"]
  /\ UNCHANGED <<daemon, starts, lock, socket>>

AnswerCall(c) ==
  /\ received[c].pc = "done"
  /\ received' = [received EXCEPT ![c].pc = "answered"]
  /\ UNCHANGED <<daemon, starts, lock, socket>>

(***************************************************************************)
(* The end: a signal, by itself or from /shutdown, starts Shutdown in a    *)
(* goroutine, which closes the listener first; Serve then returns, and the *)
(* deferred calls run in their order.                                      *)
(***************************************************************************)
Terminate(d) ==
  /\ daemon[d].pc = "serve"
  /\ ~daemon[d].told
  /\ daemon' = [daemon EXCEPT ![d].told = TRUE]
  /\ UNCHANGED <<starts, lock, socket, received>>

\* Shutdown closes the listener, and so does a daemon that cannot make the path
\* private or can accept no more.  Closing unlinks the path whoever's it is.
CloseListener(d) ==
  /\ daemon[d].pc = "serve"
  /\ daemon' = [daemon EXCEPT ![d] = [@ EXCEPT !.listening = FALSE, !.pc = "remove"]]
  /\ socket' = "absent"
  /\ UNCHANGED <<starts, lock, received>>

RemoveFiles(d) ==
  /\ daemon[d].pc = "remove"
  /\ socket' = "absent"
  /\ DaemonAt(d, "unlock")
  /\ UNCHANGED <<starts, lock, received>>

Unlock(d) ==
  /\ daemon[d].pc = "unlock"
  /\ lock' = "free"
  /\ DaemonAt(d, "cleanup")
  /\ UNCHANGED <<starts, socket, received>>

CloseStores(d) ==
  /\ daemon[d].pc = "cleanup"
  /\ daemon' = [daemon EXCEPT ![d] = [@ EXCEPT !.pc = "exit", !.stores = "closed"]]
  /\ UNCHANGED <<starts, lock, socket, received>>

\* A process that is gone takes what it was serving with it.
Gone(d, how) ==
  /\ daemon' = [daemon EXCEPT ![d] = Down]
  /\ received' = [c \in ClientCalls |-> IF received[c].by = d /\ received[c].pc # "answered"
                             THEN [received[c] EXCEPT !.pc = how] ELSE received[c]]

ExitDaemon(d) ==
  /\ daemon[d].pc = "exit"
  /\ Gone(d, IF daemon[d].told THEN "cut" ELSE "killed")
  /\ UNCHANGED <<starts, lock, socket>>

Kill(d) ==
  /\ daemon[d].pc # "down"
  /\ Gone(d, "killed")
  /\ lock' = IF lock = d THEN "free" ELSE lock
  /\ UNCHANGED <<starts, socket>>

DaemonStep(d) ==
  \/ Start(d) \/ TakeLock(d) \/ Bind(d) \/ Dial(d) \/ RemoveStale(d)
  \/ Terminate(d) \/ CloseListener(d) \/ RemoveFiles(d) \/ Unlock(d)
  \/ CloseStores(d) \/ ExitDaemon(d)

DaemonNext ==
  \/ \E d \in Daemons : DaemonStep(d) \/ Kill(d)
  \/ \E c \in ClientCalls : Accept(c) \/ RefuseCall(c) \/ ExecuteCall(c) \/ AnswerCall(c)

DaemonSpec == DaemonInit /\ [][DaemonNext]_daemonVars

-----------------------------------------------------------------------------
DaemonRow == [pc : {"down", "lock", "listen", "dial", "remove_stale", "listen_again", "serve",
                    "remove", "unlock", "cleanup", "exit"},
              listening : BOOLEAN, stores : {"open", "closed"}, told : BOOLEAN]

DaemonTypeOK ==
  /\ daemon \in [Daemons -> DaemonRow]
  /\ starts \in [Daemons -> 0..MaxStarts]
  /\ lock \in Daemons \union {"free"}
  /\ socket \in Daemons \union {"absent"}
  /\ received \in [ClientCalls -> [pc : {"new", "accepted", "done", "answered", "cut", "killed"},
                         by : Daemons \union {NoOne}]]

\* At most one daemon listens, it holds the lock, and the path leads to it: no
\* start, end or crash of another takes the path from under a daemon that
\* serves, or leaves clients without one while a daemon runs.
OneDaemon ==
  \A d \in Daemons : daemon[d].listening => lock = d /\ socket = d
=============================================================================
