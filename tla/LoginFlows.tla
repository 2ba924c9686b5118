----------------------------- MODULE LoginFlows -----------------------------
(***************************************************************************)
(* kimbap auth connect, until the connection is stored: the flow that is   *)
(* chosen, the loopback server that waits for the browser, the polling of  *)
(* a device login, and the workspace a connection is bound to.  Commands   *)
(* overlap: two logins for one profile, or one whose browser tab answers   *)
(* when another command listens on the same port.                          *)
(*                                                                         *)
(* The provider, the user and the browser are external.  Time is counted   *)
(* down: what a login has left, and what its polling has yet to wait.  A   *)
(* command that is killed leaves what one that fails does.                 *)
(***************************************************************************)
EXTENDS Naturals

CONSTANTS Logins,        \* the commands
          Workspaces,    \* what a connection may be bound to
          NoLogin,
          ProviderFlows, \* the flows of the provider
          LoginTimeout,  \* --timeout
          PollInterval,  \* what the provider asks a device to wait between polls
          SlowDown       \* what slow_down adds

Flows == {"browser", "device", "client"}

ASSUME LoginAssumption ==
  /\ NoLogin \notin Logins \union Workspaces
  /\ ProviderFlows \subseteq Flows
  /\ {LoginTimeout, PollInterval, SlowDown} \subseteq Nat \ {0}

VARIABLES
  connection, \* the stored one: the login it is from, and its workspace
  login,      \* what each command is doing
  timeLeft,   \* the time the context of its flow has left
  word,       \* what its callback handler has put into resultCh
  poll,       \* its polling goroutine
  allowed,    \* the device logins the user has approved
  granted     \* the login whose authorization the token each got is for

loginVars == <<connection, login, timeLeft, word, poll, allowed, granted>>

NoConnection == [of |-> NoLogin, ws |-> NoLogin]
\* A callback carries the state of the login it is for, or none, and the code of
\* its authorization, an error, or neither.
Callbacks == [of : Logins, own : BOOLEAN, kind : {"code", "error", "bare"}]
StateOf(cb) == IF cb.own THEN cb.of ELSE NoLogin
NoWord == [said |-> "nothing", code |-> NoLogin]
NewLogin == [pc |-> "new", flow |-> "none", automatic |-> FALSE, ws |-> NoLogin]
NoPoll == [pc |-> "off", interval |-> 0, wait |-> 0]

LoginInit ==
  /\ connection = NoConnection
  /\ login = [l \in Logins |-> NewLogin]
  /\ timeLeft = [l \in Logins |-> 0]
  /\ word = [l \in Logins |-> NoWord]
  /\ poll = [l \in Logins |-> NoPoll]
  /\ allowed = {}
  /\ granted = [l \in Logins |-> NoLogin]

LoginAt(l, pc) == login[l].pc = pc
LoginGoto(l, pc) == login' = [login EXCEPT ![l].pc = pc]
\* context.WithTimeout, from the command's context, once per flow.
StartClock(l) == timeLeft' = [timeLeft EXCEPT ![l] = LoginTimeout]
EndLogin(l, pc) == LoginGoto(l, pc) /\ timeLeft' = [timeLeft EXCEPT ![l] = 0]

(***************************************************************************)
(* The flow, and the row that is there before it.                          *)
(***************************************************************************)
\* SelectFlow: --browser=none chooses as an environment without a browser does.
FlowChoices(asked, canOpen) ==
  IF asked # "auto" THEN {asked} \intersect ProviderFlows
  ELSE IF canOpen /\ "browser" \in ProviderFlows THEN {"browser"}
  ELSE IF "device" \in ProviderFlows THEN {"device"}
  ELSE {"client"} \intersect ProviderFlows

\* A connection bound to a workspace is not taken over by another; a row that
\* cannot be read is not there.
BoundElsewhere(ws, readable) ==
  readable /\ NoLogin \notin {connection.ws, ws} /\ connection.ws # ws

BeginLogin(l, asked, canOpen, ws, readable) ==
  LET choices == FlowChoices(asked, canOpen)
      flow == CHOOSE f \in choices : TRUE
      \* A client's own credentials are a service's, and of no workspace.
      bound == IF flow = "client" THEN NoLogin ELSE ws
      fallsBack == asked = "auto" /\ flow = "browser"
      run == [pc |-> flow, flow |-> flow, automatic |-> fallsBack, ws |-> bound]
  IN /\ LoginAt(l, "new")
     /\ IF choices = {} \/ BoundElsewhere(ws, readable)
        THEN EndLogin(l, "failed")
        ELSE login' = [login EXCEPT ![l] = run] /\ StartClock(l)
     /\ UNCHANGED <<connection, word, poll, allowed, granted>>

FailLogin(l) ==
  /\ login[l].pc \notin {"new", "ok", "failed"}
  /\ EndLogin(l, "failed")
  /\ UNCHANGED <<connection, word, poll, allowed, granted>>

(***************************************************************************)
(* The browser flow.                                                       *)
(***************************************************************************)
ListenForBrowser(l) ==
  /\ LoginAt(l, "browser")
  /\ login' = [login EXCEPT ![l] = [@ EXCEPT !.pc = "callback", !.automatic = FALSE]]
  /\ UNCHANGED <<connection, timeLeft, word, poll, allowed, granted>>

\* Without a listener, and only then, an automatic choice falls back on the device
\* flow, with a timeout of its own.
FallBackOnDevice(l) ==
  /\ LoginAt(l, "browser") /\ login[l].automatic /\ "device" \in ProviderFlows
  /\ login' = [login EXCEPT ![l] = [@ EXCEPT !.pc = "device", !.flow = "device", !.automatic = FALSE]]
  /\ StartClock(l)
  /\ UNCHANGED <<connection, word, poll, allowed, granted>>

\* Mutant: any state will do.
AnyState(l, state) == state # NoLogin

\* ValidateState.
StateMatches(l, state) == state = l

\* What the handler makes of a callback: nothing, an error or the code.  An error
\* for another login is answered and forgotten; a code for another ends this one.
Word(l, cb) ==
  CASE cb.kind = "error" /\ cb.own /\ ~StateMatches(l, StateOf(cb)) -> NoWord
    [] cb.kind = "code" /\ cb.own /\ StateMatches(l, StateOf(cb)) ->
         [said |-> "code", code |-> cb.of]
    [] OTHER -> [said |-> "error", code |-> NoLogin]

\* once.Do: the first word fills the channel, what comes later is only answered.
PutWord(l, heard) == IF word[l].said = "nothing" THEN heard ELSE word[l]

\* The server answers until the flow returns.
Callback(l, cb) ==
  LET heard == Word(l, cb)
  IN /\ login[l].pc \in {"callback", "exchange"}
     /\ login[cb.of].flow = "browser"
     /\ heard # NoWord
     /\ word' = [word EXCEPT ![l] = PutWord(l, heard)]
     /\ UNCHANGED <<connection, login, timeLeft, poll, allowed, granted>>

\* The context of a flow is over: its timeout, or the flow's return.
ContextDone(l) == timeLeft[l] = 0

\* The select of RunBrowserFlow; a server that fails is FailLogin.
Heard(l) ==
  /\ LoginAt(l, "callback")
  /\ \/ ContextDone(l) /\ EndLogin(l, "failed")
     \/ word[l].said = "error" /\ EndLogin(l, "failed")
     \/ word[l].said = "code" /\ LoginGoto(l, "exchange") /\ UNCHANGED timeLeft
  /\ UNCHANGED <<connection, word, poll, allowed, granted>>

\* exchangeAuthorizationCode: the token is for the authorization the code is of,
\* whichever verifier goes with it, where a provider does not look at verifiers.
Exchange(l) ==
  /\ LoginAt(l, "exchange")
  /\ \/ ~ContextDone(l) /\ EndLogin(l, "store") /\ granted' = [granted EXCEPT ![l] = word[l].code]
     \/ EndLogin(l, "failed") /\ UNCHANGED granted
  /\ UNCHANGED <<connection, word, poll, allowed>>

(***************************************************************************)
(* The device flow, and its polling goroutine.                             *)
(***************************************************************************)
Polling(l) == LoginAt(l, "polling")

AskDevice(l) ==
  /\ LoginAt(l, "device")
  /\ \/ /\ ~ContextDone(l)
        /\ LoginGoto(l, "polling")
        /\ poll' = [poll EXCEPT ![l] = [NoPoll EXCEPT !.pc = "check", !.interval = PollInterval]]
        /\ UNCHANGED timeLeft
     \/ EndLogin(l, "failed") /\ UNCHANGED poll
  /\ UNCHANGED <<connection, word, allowed, granted>>

UserAllows(l) ==
  /\ Polling(l)
  /\ allowed' = allowed \union {l}
  /\ UNCHANGED <<connection, login, timeLeft, word, poll, granted>>

PollEnds(l, how) == poll' = [poll EXCEPT ![l] = [@ EXCEPT !.pc = how, !.wait = 0]]

PollCheck(l) ==
  /\ poll[l].pc = "check"
  /\ IF ContextDone(l) THEN PollEnds(l, "error")
     ELSE poll' = [poll EXCEPT ![l].pc = "asked"]
  /\ UNCHANGED <<connection, login, timeLeft, word, allowed, granted>>

SlowerInterval(l) == poll[l].interval + SlowDown

\* authorization_pending, slow_down, the token, or any other error.
PollAnswer(l) ==
  LET pending == [poll[l] EXCEPT !.pc = "wait", !.wait = poll[l].interval]
      slower == SlowerInterval(l)
      slow == [poll[l] EXCEPT !.pc = "wait", !.interval = slower, !.wait = slower]
  IN /\ poll[l].pc = "asked"
     /\ \/ ~ContextDone(l) /\ l \notin allowed /\ poll' = [poll EXCEPT ![l] = pending]
        \/ ~ContextDone(l) /\ poll' = [poll EXCEPT ![l] = slow]
        \/ ~ContextDone(l) /\ l \in allowed /\ PollEnds(l, "token")
        \/ PollEnds(l, "error")
     /\ UNCHANGED <<connection, login, timeLeft, word, allowed, granted>>

\* waitForPollInterval.
PollWait(l) ==
  /\ poll[l].pc = "wait"
  /\ \/ poll[l].wait = 0 /\ poll' = [poll EXCEPT ![l].pc = "check"]
     \/ ContextDone(l) /\ PollEnds(l, "error")
  /\ UNCHANGED <<connection, login, timeLeft, word, allowed, granted>>

\* The select of RunDeviceFlow: a token that comes with the timeout may be lost.
EndPolling(l) ==
  /\ Polling(l)
  /\ \/ ContextDone(l) /\ EndLogin(l, "failed") /\ UNCHANGED granted
     \/ poll[l].pc = "error" /\ EndLogin(l, "failed") /\ UNCHANGED granted
     \/ poll[l].pc = "token" /\ EndLogin(l, "store") /\ granted' = [granted EXCEPT ![l] = l]
  /\ UNCHANGED <<connection, word, poll, allowed>>

(***************************************************************************)
(* Client credentials; the end of every flow; time.                        *)
(***************************************************************************)
ClientToken(l) ==
  /\ LoginAt(l, "client")
  /\ \/ EndLogin(l, "store") /\ granted' = [granted EXCEPT ![l] = l]
     \/ EndLogin(l, "failed") /\ UNCHANGED granted
  /\ UNCHANGED <<connection, word, poll, allowed>>

\* StoreConnection puts the new connection over any row.
StoreLogin(l) ==
  /\ LoginAt(l, "store")
  /\ \/ EndLogin(l, "ok") /\ connection' = [of |-> granted[l], ws |-> login[l].ws]
     \/ EndLogin(l, "failed") /\ UNCHANGED connection
  /\ UNCHANGED <<word, poll, allowed, granted>>

RevokeConnection ==
  /\ connection # NoConnection
  /\ connection' = NoConnection
  /\ UNCHANGED <<login, timeLeft, word, poll, allowed, granted>>

LoginTick ==
  /\ \E l \in Logins : timeLeft[l] > 0
  /\ timeLeft' = [l \in Logins |-> IF timeLeft[l] > 0 THEN timeLeft[l] - 1 ELSE 0]
  /\ poll' = [l \in Logins |-> [poll[l] EXCEPT !.wait = IF @ > 0 THEN @ - 1 ELSE 0]]
  /\ UNCHANGED <<connection, login, word, allowed, granted>>

LoginStep(l) ==
  \/ ListenForBrowser(l) \/ FallBackOnDevice(l) \/ Heard(l) \/ Exchange(l)
  \/ AskDevice(l) \/ EndPolling(l) \/ ClientToken(l) \/ StoreLogin(l)

Poller(l) == PollCheck(l) \/ PollAnswer(l) \/ PollWait(l)

LoginNext ==
  \/ \E l \in Logins :
       \/ \E asked \in Flows \union {"auto"}, ws \in Workspaces \union {NoLogin} :
          \E canOpen, readable \in BOOLEAN : BeginLogin(l, asked, canOpen, ws, readable)
       \/ LoginStep(l) \/ Poller(l) \/ UserAllows(l) \/ FailLogin(l)
       \/ \E cb \in Callbacks : Callback(l, cb)
  \/ RevokeConnection \/ LoginTick

LoginSpec == LoginInit /\ [][LoginNext]_loginVars

-----------------------------------------------------------------------------
LoginPcs == {"new", "callback", "exchange", "polling", "store", "ok", "failed"} \union Flows
LoginWords == [said : {"nothing", "error", "code"}, code : Logins \union {NoLogin}]

LoginTypeOK ==
  /\ connection \in [of : Logins \union {NoLogin}, ws : Workspaces \union {NoLogin}]
  /\ login \in [Logins -> [pc : LoginPcs, flow : Flows \union {"none"}, automatic : BOOLEAN,
                           ws : Workspaces \union {NoLogin}]]
  /\ timeLeft \in [Logins -> 0..LoginTimeout]
  /\ word \in [Logins -> LoginWords]
  /\ allowed \subseteq Logins
  /\ granted \in [Logins -> Logins \union {NoLogin}]
  /\ poll \in [Logins -> [pc : {"off", "check", "asked", "wait", "error", "token"},
                          interval : Nat, wait : Nat]]

\* The token a login ends with, and what it stores, is for the authorization its
\* own command began, also when the browser answers an abandoned login on the port
\* another command now listens on and the provider looks at no verifier.
TokenIsOwn ==
  \A l \in Logins : /\ granted[l] \in {l, NoLogin}
                    /\ LoginAt(l, "ok") => granted[l] = l
=============================================================================
