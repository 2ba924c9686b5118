------------------------------ MODULE RunCommand ------------------------------
(***************************************************************************)
(* kimbap run: one process that builds a runtime, starts an embedded proxy *)
(* in a goroutine, runs a child behind it, and ends with the child's exit  *)
(* code or with the signal that stopped it.  Connections of the child (and *)
(* of what the child leaves behind) reach the proxy at any time.           *)
(*                                                                         *)
(* The child, the kernel and net/http are external: a child exits when it  *)
(* likes, or not even when it is killed; Serve returns when Shutdown       *)
(* begins, Shutdown when no plain request is in flight or its time is up;  *)
(* neither knows of hijacked connections.  Every timer may fire while it   *)
(* is armed.                                                               *)
(***************************************************************************)
EXTENDS Naturals, FiniteSets

CONSTANTS Conns,       \* connections to the proxy, at least one
          MaxConnects  \* maxConcurrentConnects

ASSUME RunAssumption == MaxConnects \in Nat \ {0}

VARIABLES
  run,      \* the command: where it is, its result, its exit code
  child,    \* the child process
  bundle,   \* the merged CA bundle is on disk
  stopped,  \* a signal has ended the context of the run
  proxy,    \* the goroutine in ProxyServer.Start, and the server it published
  conn,     \* each connection: its kind and what its present request is doing
  slots     \* places taken in connectSem

runVars == <<run, child, bundle, stopped, proxy, conn, slots>>

Codes == {0, 1}
Interrupted == 130
NoConn == [kind |-> "none", pc |-> "idle"]

RunInit ==
  /\ run \in [pc : {"build"}, proxied : BOOLEAN, result : {"none"}, exit : {0}]
  /\ child = [pc |-> "none", code |-> 0, killed |-> "no"]
  /\ bundle = FALSE
  /\ stopped = FALSE
  /\ proxy = [pc |-> "off", published |-> FALSE, cancelled |-> FALSE, shutdown |-> "none",
              watcher |-> FALSE]
  /\ conn = [c \in Conns |-> NoConn]
  /\ slots = 0

(***************************************************************************)
(* runE of the command, and Runner.Start.                                  *)
(***************************************************************************)
To(pc) == run' = [run EXCEPT !.pc = pc]
Return(result, pc) == run' = [run EXCEPT !.pc = pc, !.result = result]
ProxySame == UNCHANGED <<proxy, conn, slots>>

\* The runtime, the CA and the rules of the installed services, which only a
\* proxied run needs; any of them may fail, and then nothing was started.
BuildRuntime ==
  /\ run.pc = "build"
  /\ \/ ~run.proxied /\ To("spawn")
     \/ run.proxied /\ To("proxy")
     \/ run.proxied /\ Return("error", "exit")
  /\ UNCHANGED <<child, bundle, stopped>> /\ ProxySame

StartProxy ==
  /\ run.pc = "proxy"
  /\ To("await")
  /\ proxy' = [proxy EXCEPT !.pc = "listen"]
  /\ UNCHANGED <<child, bundle, stopped, conn, slots>>

\* waitProxyAddr: ready, or the goroutine's error, the end of the context or
\* two seconds; a failure cancels the goroutine and does not wait for it.
AwaitProxy ==
  /\ run.pc = "await"
  /\ \/ proxy.published /\ To("spawn") /\ UNCHANGED proxy
     \/ /\ \/ Return("error", "exit")
           \/ stopped /\ Return("interrupted", "exit")
        /\ proxy' = [proxy EXCEPT !.cancelled = TRUE]
  /\ UNCHANGED <<child, bundle, stopped, conn, slots>>

Spawn ==
  /\ run.pc = "spawn"
  /\ bundle' \in IF run.proxied THEN BOOLEAN ELSE {FALSE}
  /\ \/ stopped /\ Return("interrupted", "clean") /\ UNCHANGED child
     \/ ~stopped /\ Return("error", "clean") /\ UNCHANGED child
     \/ ~stopped /\ To("wait") /\ child' = [child EXCEPT !.pc = "running"]
  /\ UNCHANGED <<stopped>> /\ ProxySame

\* Mutant: a signal ends the wait and the child is not killed.
WaitLeavesChild ==
  /\ run.pc = "wait"
  /\ \/ child.pc = "exited" /\ Return("child", "clean")
     \/ stopped /\ Return("interrupted", "clean")
  /\ UNCHANGED <<child, bundle, stopped>> /\ ProxySame

\* killProcessTree: the group is killed, then the child, unless the system refuses.
KillChild(outcome) == child' = [child EXCEPT !.killed = outcome]

\* The select of the two channels; a child that has just exited may be killed.
Wait ==
  /\ run.pc = "wait"
  /\ \/ child.pc = "exited" /\ Return("child", "clean") /\ UNCHANGED child
     \/ stopped /\ To("reap") /\ KillChild("sent")
     \/ stopped /\ Return("error", "clean") /\ KillChild("failed")
  /\ UNCHANGED <<bundle, stopped>> /\ ProxySame

\* Mutant: the killed child is waited for without a time limit.
ReapWithoutTimer ==
  /\ run.pc = "reap" /\ child.pc = "exited"
  /\ Return("interrupted", "clean")
  /\ UNCHANGED <<child, bundle, stopped>> /\ ProxySame

\* Within five seconds of the kill, or not: both errors carry the context's.
Reap ==
  /\ run.pc = "reap"
  /\ Return("interrupted", "clean")
  /\ UNCHANGED <<child, bundle, stopped>> /\ ProxySame

\* The deferred calls: the bundle goes, then the proxy is stopped.
CleanUp ==
  /\ run.pc = "clean"
  /\ bundle' = FALSE
  /\ IF run.proxied THEN To("stop") /\ proxy' = [proxy EXCEPT !.cancelled = TRUE]
     ELSE To("exit") /\ UNCHANGED proxy
  /\ UNCHANGED <<child, stopped, conn, slots>>

\* What an interrupted run's error wraps is asked before what the child's code
\* was, and a return with any other error is status 1.
Exit ==
  /\ run.pc = "exit"
  /\ run' = [run EXCEPT !.pc = "ended",
               !.exit = CASE run.result = "child"       -> child.code
                          [] run.result = "interrupted" -> Interrupted
                          [] OTHER                      -> 1]
  /\ UNCHANGED <<child, bundle, stopped>> /\ ProxySame

Signal ==
  /\ run.pc \notin {"build", "exit", "ended"}
  /\ ~stopped
  /\ stopped' = TRUE
  /\ UNCHANGED <<run, child, bundle>> /\ ProxySame

ChildExits(code) ==
  /\ child.pc = "running"
  /\ child' = [child EXCEPT !.pc = "exited", !.code = code]
  /\ UNCHANGED <<run, bundle, stopped>> /\ ProxySame

(***************************************************************************)
(* ProxyServer.Start in its goroutine, and Stop, by the runner and by the  *)
(* goroutine that watches the context: who takes the server shuts it down. *)
(***************************************************************************)
ProxyOnly == UNCHANGED <<run, child, bundle, stopped, conn, slots>>

Listen ==
  /\ proxy.pc = "listen"
  /\ proxy' \in {[proxy EXCEPT !.pc = "publish"], [proxy EXCEPT !.pc = "ended"]}
  /\ ProxyOnly

Publish ==
  /\ proxy.pc = "publish"
  /\ proxy' = [proxy EXCEPT !.pc = "serve", !.published = TRUE, !.watcher = TRUE]
  /\ ProxyOnly

ServeEnds ==
  /\ proxy.pc = "serve"
  /\ proxy' = [proxy EXCEPT !.pc = "ended", !.published = FALSE, !.watcher = FALSE]
  /\ ProxyOnly

Taken(who) == [proxy EXCEPT !.published = FALSE,
                            !.shutdown = IF proxy.published THEN who ELSE @]

WatcherStops ==
  /\ proxy.watcher /\ proxy.cancelled
  /\ proxy' = [Taken("watcher") EXCEPT !.watcher = FALSE]
  /\ ProxyOnly

RunnerStops ==
  /\ run.pc = "stop"
  /\ proxy' = Taken("runner")
  /\ To(IF proxy.published THEN "shutdown" ELSE "drain")
  /\ UNCHANGED <<child, bundle, stopped, conn, slots>>

InFlight == {c \in Conns : conn[c].kind = "plain"}

\* Shutdown has its time, and Close after it cuts the plain connections.
ShutdownEnds ==
  /\ run.pc = "shutdown"
  /\ To("drain")
  /\ conn' = [c \in Conns |-> IF c \in InFlight THEN NoConn ELSE conn[c]]
  /\ UNCHANGED <<child, bundle, stopped, proxy, slots>>

\* The runner waits for the goroutine's result, two seconds at most.
Drained ==
  /\ run.pc = "drain"
  /\ To("exit")
  /\ UNCHANGED <<child, bundle, stopped>> /\ ProxySame

(***************************************************************************)
(* The proxy's connections, while the process lives.  Authorization comes  *)
(* before all of this and a request without it only gets its 407.          *)
(***************************************************************************)
ConnOnly == UNCHANGED <<run, child, bundle, stopped, proxy>>
Accepting == run.pc # "ended" /\ proxy.pc = "serve" /\ proxy.shutdown = "none"
Set(c, kind, pc) == conn' = [conn EXCEPT ![c] = [kind |-> kind, pc |-> pc]]
Close(c) == conn' = [conn EXCEPT ![c] = NoConn]

HandleHTTP(c) ==
  /\ Accepting
  /\ conn[c] = NoConn
  /\ Set(c, "plain", "request")
  /\ UNCHANGED slots /\ ConnOnly

\* CONNECT takes a slot if one is free, and gives it back however it returns.
HandleConnect(c) ==
  /\ Accepting
  /\ conn[c] = NoConn
  /\ slots < MaxConnects
  /\ slots' = slots + 1
  /\ Set(c, "tunnel", "handshake")
  /\ ConnOnly

TunnelReturns(c) == Close(c) /\ slots' = slots - 1

\* The hijack, the certificate for the host, the TLS handshake.
Handshake(c) ==
  /\ run.pc # "ended"
  /\ conn[c] = [kind |-> "tunnel", pc |-> "handshake"]
  /\ \/ Set(c, "tunnel", "idle") /\ UNCHANGED slots
     \/ TunnelReturns(c)
  /\ ConnOnly

\* The next request, or the end of the connection or of its read deadline.
ReadRequest(c) ==
  /\ run.pc # "ended"
  /\ conn[c] = [kind |-> "tunnel", pc |-> "idle"]
  /\ \/ Set(c, "tunnel", "request") /\ UNCHANGED slots
     \/ TunnelReturns(c)
  /\ ConnOnly

\* A request that a rule matches, with a body that is JSON or empty and not too
\* long, is executed; upgrades and what no rule matches are refused.
Verdict(upgrade, matched, readable) ==
  IF upgrade THEN 501 ELSE IF ~matched THEN 403 ELSE IF readable THEN 200 ELSE 400

Classify(c, upgrade, matched, readable) ==
  /\ run.pc # "ended"
  /\ conn[c].pc = "request"
  /\ Set(c, conn[c].kind,
         IF Verdict(upgrade, matched, readable) = 200 THEN "execute" ELSE "answer")
  /\ UNCHANGED slots /\ ConnOnly

Execute(c) ==
  /\ run.pc # "ended"
  /\ conn[c].pc = "execute"
  /\ Set(c, conn[c].kind, "answer")
  /\ UNCHANGED slots /\ ConnOnly

\* A tunnel goes on unless the request asked to close or the write failed.
Answer(c) ==
  /\ run.pc # "ended"
  /\ conn[c].pc = "answer"
  /\ \/ conn[c].kind = "plain" /\ Close(c) /\ UNCHANGED slots
     \/ conn[c].kind = "tunnel" /\ Set(c, "tunnel", "idle") /\ UNCHANGED slots
     \/ conn[c].kind = "tunnel" /\ TunnelReturns(c)
  /\ ConnOnly

CommandStep == BuildRuntime \/ StartProxy \/ AwaitProxy \/ Spawn \/ Wait \/ Reap \/ CleanUp
               \/ RunnerStops \/ ShutdownEnds \/ Drained \/ Exit
ProxyStep == Listen \/ Publish \/ ServeEnds \/ WatcherStops
ConnStep(c) ==
  \/ HandleHTTP(c) \/ HandleConnect(c) \/ Handshake(c) \/ ReadRequest(c)
  \/ \E upgrade, matched, readable \in BOOLEAN : Classify(c, upgrade, matched, readable)
  \/ Execute(c) \/ Answer(c)

RunNext ==
  \/ CommandStep \/ ProxyStep \/ Signal
  \/ \E code \in Codes : ChildExits(code)
  \/ \E c \in Conns : ConnStep(c)

\* The scheduler runs the command and its timers fire; nothing is assumed of the
\* child, of the connections, of the proxy or of who sends signals.
RunFairness == WF_runVars(CommandStep)

RunSpec == RunInit /\ [][RunNext]_runVars /\ RunFairness

-----------------------------------------------------------------------------
RunRow ==
  [pc : {"build", "proxy", "await", "spawn", "wait", "reap", "clean", "stop", "shutdown", "drain",
         "exit", "ended"},
   proxied : BOOLEAN, result : {"none", "child", "interrupted", "error"},
   exit : Codes \union {Interrupted}]
ChildRow == [pc : {"none", "running", "exited"}, code : Codes, killed : {"no", "sent", "failed"}]
ProxyRow ==
  [pc : {"off", "listen", "publish", "serve", "ended"}, published : BOOLEAN, cancelled : BOOLEAN,
   shutdown : {"none", "watcher", "runner"}, watcher : BOOLEAN]
ConnRow ==
  [kind : {"none", "plain", "tunnel"}, pc : {"idle", "handshake", "request", "execute", "answer"}]

RunTypeOK ==
  /\ run \in RunRow /\ child \in ChildRow /\ proxy \in ProxyRow
  /\ bundle \in BOOLEAN /\ stopped \in BOOLEAN
  /\ conn \in [Conns -> ConnRow]
  /\ slots \in 0..MaxConnects
  /\ slots = Cardinality({c \in Conns : conn[c].kind = "tunnel"})

\* However the command ends, its bundle is gone and its child is not left to
\* itself: it was never started, has exited or was killed as far as the system
\* lets it.  The exit code tells them apart: 0 only for a child that exited with
\* 0, a child's own code unless a signal stopped the run, and the signal's only
\* if one came (the deferred calls of runE, and Execute).
EndTellsOfChild ==
  run.pc = "ended" =>
    /\ ~bundle
    /\ child.pc = "running" => child.killed # "no" /\ run.exit # 0
    /\ run.exit = 0 => child.pc = "exited" /\ child.code = 0
    /\ child.pc = "exited" /\ ~stopped => run.exit = child.code
    /\ run.exit = Interrupted => stopped

\* Once its child has exited, or a signal has come for a run that has not ended,
\* the command ends, whether or not the proxy, its connections or a killed child
\* ever do (Runner.Start, waitChild and ProxyServer.Stop with their time limits).
RunReturns == (child.pc = "exited" \/ stopped) ~> run.pc = "ended"
=============================================================================
