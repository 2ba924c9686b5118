---------------------------- MODULE ConnectorState ----------------------------
(***************************************************************************)
(* One OAuth connector: its row in connector_states, the tokens behind it  *)
(* at the provider, and everyone who reads and rewrites the row:           *)
(*                                                                         *)
(*   - callers, the goroutines of the server that ask its one Manager for  *)
(*     an access token (GetAccessToken) and refresh it when it is due;     *)
(*   - commands (kimbap auth connect, reconnect, revoke), each a process   *)
(*     with a Manager of its own.                                          *)
(*                                                                         *)
(* Managers share nothing but the row; updated_at is its revision.  A      *)
(* token stands for the access and refresh token stored together, and is   *)
(* known by the refresh token.                                             *)
(***************************************************************************)
EXTENDS FiniteSets, Integers

CONSTANTS
    Callers,    \* goroutines of the server
    Commands,   \* invocations of kimbap auth
    Server,     \* the server's Manager; a command is its own
    None,       \* no process
    MaxTokens,  \* tokens the provider issues (a bound on the model)
    MaxTries,   \* attempts of an upsert (3 in the code)
    Principals  \* the provider has a userinfo endpoint

Procs == Callers \cup Commands
Managers == {Server} \cup Commands

ASSUME ConnectorAssumption ==
    /\ IsFiniteSet(Procs) /\ Callers \cap Commands = {}
    /\ Server \notin Commands /\ None \notin Procs
    /\ MaxTokens \in Nat /\ MaxTries \in Nat \ {0} /\ Principals \in BOOLEAN

VARIABLES
    row,        \* the connector_states row
    due,        \* the stored access token is within 30 seconds of its expiry
    live,       \* tokens the provider still honours
    origin,     \* origin[t]: the token t was exchanged for, 0 if the user logged in
    revoked,    \* tokens whose row a revoke has deleted (history)
    pc,         \* pc[p]: where process p is
    snap,       \* snap[p]: the row as p last read it
    got,        \* got[p]: the provider's answer: a token, or how it failed
    tries,      \* tries[p]: conflicts of p's upsert
    flight,     \* flight[m]: the refresh in Manager.refreshing
    lock        \* lock[m]: who holds the Manager's lock on this connector

vars == <<row, due, live, origin, revoked, pc, snap, got, tries, flight, lock>>

Tokens == 1 .. MaxTokens
Issued == DOMAIN origin
Revisions == 1 .. Cardinality(Procs)

\* updated_at, the stored tokens, and whether the status asks to log in again.
Row == [rev : Revisions, token : Tokens, reauth : BOOLEAN]
NoRow == [rev |-> 0, token |-> 0, reauth |-> FALSE]

Permanent == -1     \* an OAuth error code that retrying cannot cure
Transient == -2     \* network failure, 5xx, unparsable answer
Answers == Tokens \cup {0, Permanent, Transient}

NoFlight == [leader |-> None, done |-> FALSE]
Flight == [leader : Procs \cup {None}, done : BOOLEAN]

RefreshPcs == {"load", "ask", "reload", "save"}
ConnectPcs == {"login", "store", "store_save", "principal", "principal_save"}
RevokePcs == {"revoke", "delete"}
Pcs == {"idle", "enter", "wait", "clear"} \cup RefreshPcs \cup ConnectPcs \cup RevokePcs

TypeOK ==
    /\ row \in Row \cup {NoRow} /\ due \in BOOLEAN
    /\ Issued \subseteq Tokens /\ \A t \in Issued : origin[t] \in Issued \cup {0}
    /\ live \subseteq Issued
    /\ revoked \subseteq Issued
    /\ pc \in [Procs -> Pcs]
    /\ snap \in [Procs -> Row \cup {NoRow}]
    /\ got \in [Procs -> Answers]
    /\ tries \in [Procs -> 0 .. MaxTries - 1]
    /\ flight \in [Managers -> Flight]
    /\ lock \in [Managers -> Procs \cup {None}]

\* No connection has been made yet.
Init ==
    /\ row = NoRow /\ due = FALSE
    /\ live = {} /\ origin = <<>> /\ revoked = {}
    /\ pc = [p \in Procs |-> "idle"]
    /\ snap = [p \in Procs |-> NoRow]
    /\ got = [p \in Procs |-> 0]
    /\ tries = [p \in Procs |-> 0]
    /\ flight = [m \in Managers |-> NoFlight]
    /\ lock = [m \in Managers |-> None]

------------------------------------------------------------------------------
Of(p) == IF p \in Callers THEN Server ELSE p

At(p, l) == pc[p] = l
stored == <<row, due>>
provider == <<live, origin>>
memory == <<snap, got, tries>>

Goto(p, l) == pc' = [pc EXCEPT ![p] = l]

\* p forgets what it worked on and goes to l.
Reset(p, l) ==
    /\ Goto(p, l)
    /\ snap' = [snap EXCEPT ![p] = NoRow]
    /\ got' = [got EXCEPT ![p] = 0]
    /\ tries' = [tries EXCEPT ![p] = 0]

Acquire(p) == lock[Of(p)] \in {None, p} /\ lock' = [lock EXCEPT ![Of(p)] = p]
Release(p) == lock' = [m \in Managers |-> IF lock[m] = p THEN None ELSE lock[m]]

\* updated_at of p's write: unlike any revision another reader remembers.
NewRevision(p) ==
    LET used == {snap[q].rev : q \in Procs \ {p}}
    IN  CHOOSE n \in Revisions : n \notin used /\ \A i \in Revisions : i < n => i \in used

\* A row that is gone taken for one that has not changed.
UnchangedOrGone(p) == row = NoRow \/ row.rev = snap[p].rev

\* The row is the one p read: the same revision, or none then and none now.
Unchanged(p) == row.rev = snap[p].rev

\* An update that does not compare the revision.
SaveBlind(p, next, fresh) ==
    /\ (row = NoRow) = (snap[p] = NoRow)
    /\ row' = next /\ due' = (due /\ ~fresh)

\* An insert if there was no row, else an update of the revision read; fresh says
\* that the access token written is a new one.
SaveIfUnchanged(p, next, fresh) ==
    Unchanged(p) /\ row' = next /\ due' = (due /\ ~fresh)

\* The provider's next token, exchanged for t (0: the user logged in).
Fresh == Cardinality(Issued) + 1
CanIssue == Fresh <= MaxTokens
Issue(t) == origin' = [i \in Issued \cup {Fresh} |-> IF i = Fresh THEN t ELSE origin[i]]

------------------------------------------------------------------------------
(* Manager.GetAccessToken and Manager.refreshOnce *)

\* The row is read; only a token that is due makes the caller do anything.
GetAccessToken(p) ==
    /\ p \in Callers /\ At(p, "idle") /\ due
    /\ Goto(p, "enter")
    /\ UNCHANGED <<stored, provider, revoked, memory, flight, lock>>

\* kimbap auth reconnect: a refresh first, in the command's own Manager.
Reconnect(p) ==
    /\ p \in Commands /\ At(p, "idle")
    /\ Goto(p, "enter")
    /\ UNCHANGED <<stored, provider, revoked, memory, flight, lock>>

Lead(p) ==
    /\ flight' = [flight EXCEPT ![Of(p)] = [leader |-> p, done |-> FALSE]]
    /\ Goto(p, "load")

\* Without the map lookup every caller refreshes by itself.
EnterAlone(p) ==
    /\ At(p, "enter")
    /\ Lead(p)
    /\ UNCHANGED <<stored, provider, revoked, memory, lock>>

\* The first caller leads; others wait, or return at once when the refresh they
\* find in the map is over.
Enter(p) ==
    LET f == flight[Of(p)]
    IN  /\ At(p, "enter")
        /\ \/ f = NoFlight /\ Lead(p)
           \/ f # NoFlight /\ Goto(p, IF f.done THEN "idle" ELSE "wait") /\ UNCHANGED flight
        /\ UNCHANGED <<stored, provider, revoked, memory, lock>>

\* A waiter's own request ends; the leader's refresh goes on without it.
GiveUp(p) ==
    /\ At(p, "wait")
    /\ Goto(p, "idle")
    /\ UNCHANGED <<stored, provider, revoked, memory, flight, lock>>

Waiting(m) == {q \in Callers : m = Server /\ pc[q] = "wait"}

\* A refresh whose error path returns without closing done.
LandOnSuccess(p, ok) ==
    LET m == Of(p)
        woken == [q \in Procs |-> IF q \in Waiting(m) /\ ok THEN "idle" ELSE pc[q]]
    IN  /\ pc' = [woken EXCEPT ![p] = "clear"]
        /\ flight' = [flight EXCEPT ![m].done = ok]
        /\ got' = [got EXCEPT ![p] = IF ok \/ p \in Callers THEN 0 ELSE Transient]
        /\ snap' = [snap EXCEPT ![p] = NoRow]
        /\ UNCHANGED tries

\* doRefresh returned: done is closed, which wakes the waiters.
Land(p, ok) ==
    LET m == Of(p)
        woken == [q \in Procs |-> IF q \in Waiting(m) THEN "idle" ELSE pc[q]]
    IN  /\ pc' = [woken EXCEPT ![p] = "clear"]
        /\ flight' = [flight EXCEPT ![m].done = TRUE]
        /\ got' = [got EXCEPT ![p] = IF ok \/ p \in Callers THEN 0 ELSE Transient]
        /\ snap' = [snap EXCEPT ![p] = NoRow]
        /\ UNCHANGED tries

\* The refresh leaves the map; a reconnect that failed logs in afresh.
Clear(p) ==
    /\ At(p, "clear")
    /\ flight' = [flight EXCEPT ![Of(p)] = NoFlight]
    /\ Reset(p, IF p \in Commands /\ got[p] # 0 THEN "login" ELSE "idle")
    /\ UNCHANGED <<stored, provider, revoked, lock>>

------------------------------------------------------------------------------
(* Manager.doRefresh *)

\* Lock, load, unlock.
Load(p) ==
    /\ At(p, "load") /\ lock[Of(p)] = None
    /\ \/ row = NoRow /\ Land(p, FALSE)
       \/ /\ row # NoRow
          /\ Goto(p, "ask")
          /\ snap' = [snap EXCEPT ![p] = row]
          /\ UNCHANGED <<got, tries, flight>>
    /\ UNCHANGED <<stored, provider, revoked, lock>>

\* The token endpoint, no lock held. It may always refuse for good (the user has
\* withdrawn the grant, the client is misconfigured) or fail to answer; a token it
\* still honours it renews, with or without rotating the refresh token, and the
\* answer to a rotation may be lost.
Ask(p) ==
    LET t == snap[p].token
    IN  /\ At(p, "ask")
        /\ \/ \E a \in {Permanent, Transient} \cup (live \cap {t}) :
                 got' = [got EXCEPT ![p] = a] /\ UNCHANGED provider
           \/ /\ t \in live /\ CanIssue
              /\ Issue(t)
              /\ live' = (live \ {t}) \cup {Fresh}
              /\ \E a \in {Fresh, Transient} : got' = [got EXCEPT ![p] = a]
        /\ Goto(p, "reload")
        /\ UNCHANGED <<stored, revoked, snap, tries, flight, lock>>

\* A row that is gone or has another revision ends the refresh: its answer is
\* dropped, and the caller is told that all is well if the row is still there.
Reload(p) ==
    /\ At(p, "reload")
    /\ lock[Of(p)] = None
    /\ \/ ~Unchanged(p) /\ Land(p, row # NoRow) /\ UNCHANGED lock
       \/ Unchanged(p) /\ Acquire(p) /\ Goto(p, "save") /\ UNCHANGED <<memory, flight>>
    /\ UNCHANGED <<stored, provider, revoked>>

\* The status after a success: a row that asked for re-authorisation still does.
Refreshed(p) ==
    LET s == snap[p]
    IN  CASE got[p] = Permanent -> [s EXCEPT !.rev = NewRevision(p), !.reauth = TRUE]
          [] got[p] = Transient -> [s EXCEPT !.rev = NewRevision(p)]
          [] OTHER -> [s EXCEPT !.rev = NewRevision(p), !.token = got[p]]

Save(p) ==
    /\ At(p, "save")
    /\ \/ SaveIfUnchanged(p, Refreshed(p), got[p] \in Tokens) /\ Land(p, got[p] \in Tokens)
       \/ ~Unchanged(p) /\ UNCHANGED stored /\ Land(p, TRUE)
    /\ Release(p)
    /\ UNCHANGED <<provider, revoked>>

------------------------------------------------------------------------------
(* kimbap auth connect: a flow with the provider, then Manager.StoreConnection *)

Connect(p) ==
    /\ p \in Commands /\ At(p, "idle")
    /\ Goto(p, "login")
    /\ UNCHANGED <<stored, provider, revoked, memory, flight, lock>>

Login(p) ==
    /\ At(p, "login")
    /\ \/ /\ CanIssue /\ Issue(0)
          /\ live' = live \cup {Fresh}
          /\ got' = [got EXCEPT ![p] = Fresh]
          /\ Goto(p, "store")
          /\ UNCHANGED <<snap, tries>>
       \/ Reset(p, "idle") /\ UNCHANGED provider
    /\ UNCHANGED <<stored, revoked, flight, lock>>

Store(p) ==
    /\ At(p, "store") /\ Acquire(p)
    /\ snap' = [snap EXCEPT ![p] = row]
    /\ Goto(p, "store_save")
    /\ UNCHANGED <<stored, provider, revoked, got, tries, flight>>

\* deriveStatus looks at the stored status before the tokens, so it outlives the login.
DeriveStatus(state) == state.reauth
Connected(p) ==
    [rev |-> NewRevision(p), token |-> got[p], reauth |-> DeriveStatus(snap[p])]

Retries(p) == tries[p] + 1 < MaxTries

StoreSave(p) ==
    /\ At(p, "store_save")
    /\ \/ /\ SaveIfUnchanged(p, Connected(p), TRUE)
          /\ Reset(p, IF Principals THEN "principal" ELSE "idle")
          /\ Release(p)
       \/ /\ ~Unchanged(p) /\ UNCHANGED stored
          /\ IF Retries(p)
             THEN /\ Goto(p, "store")
                  /\ tries' = [tries EXCEPT ![p] = @ + 1]
                  /\ snap' = [snap EXCEPT ![p] = NoRow]
                  /\ UNCHANGED <<got, lock>>
             ELSE Reset(p, "idle") /\ Release(p)
    /\ UNCHANGED <<provider, revoked, flight>>

\* With the account's name from the userinfo endpoint the row is read again ...
ReadPrincipal(p) ==
    /\ At(p, "principal")
    /\ \/ row = NoRow /\ Reset(p, "idle")
       \/ /\ row # NoRow
          /\ Goto(p, "principal_save")
          /\ snap' = [snap EXCEPT ![p] = row]
          /\ UNCHANGED <<got, tries>>
    /\ UNCHANGED <<stored, provider, revoked, flight, lock>>

\* ... and the whole row written back, revision included: an upsert without a lock.
SavePrincipal(p) ==
    /\ At(p, "principal_save")
    /\ row' = snap[p] /\ due' \in {due, TRUE}
    /\ Reset(p, "idle")
    /\ UNCHANGED <<provider, revoked, flight, lock>>

------------------------------------------------------------------------------
(* kimbap auth revoke *)

\* The stored token, if any, is read for the provider's revocation endpoint.
Revoke(p) ==
    /\ p \in Commands /\ At(p, "idle")
    /\ Goto(p, "revoke")
    /\ snap' = [snap EXCEPT ![p] = row]
    /\ UNCHANGED <<stored, provider, revoked, got, tries, flight, lock>>

RevokeRemote(p) ==
    /\ At(p, "revoke")
    /\ live' \in {live, live \ {snap[p].token}}
    /\ Reset(p, "delete")
    /\ UNCHANGED <<stored, origin, revoked, flight, lock>>

\* deleteConnectorState
Delete(p) ==
    /\ At(p, "delete")
    /\ row' = NoRow /\ due' = FALSE
    /\ revoked' = revoked \cup ({row.token} \ {0})
    /\ Reset(p, "idle")
    /\ UNCHANGED <<provider, flight, lock>>

------------------------------------------------------------------------------
(* The surroundings *)

Expire ==
    /\ row # NoRow /\ ~due
    /\ due' = TRUE
    /\ UNCHANGED <<row, provider, revoked, pc, memory, flight, lock>>

\* A statement fails: a refresh ends with an error, a command gives up.
Fail(p) ==
    /\ IF pc[p] \in RefreshPcs \ {"ask"}
       THEN Land(p, FALSE)
       ELSE /\ pc[p] \in ConnectPcs \cup RevokePcs
            /\ Reset(p, "idle")
            /\ UNCHANGED flight
    /\ Release(p)
    /\ UNCHANGED <<stored, provider, revoked>>

\* A process dies, with every goroutine in it.
Crash(m) ==
    /\ \E p \in Procs : Of(p) = m /\ pc[p] # "idle"
    /\ pc' = [p \in Procs |-> IF Of(p) = m THEN "idle" ELSE pc[p]]
    /\ snap' = [p \in Procs |-> IF Of(p) = m THEN NoRow ELSE snap[p]]
    /\ got' = [p \in Procs |-> IF Of(p) = m THEN 0 ELSE got[p]]
    /\ tries' = [p \in Procs |-> IF Of(p) = m THEN 0 ELSE tries[p]]
    /\ flight' = [flight EXCEPT ![m] = NoFlight]
    /\ lock' = [lock EXCEPT ![m] = None]
    /\ UNCHANGED <<stored, provider, revoked>>

Refresh(p) == Enter(p) \/ Load(p) \/ Ask(p) \/ Reload(p) \/ Save(p) \/ Clear(p)

Command(p) ==
    \/ Reconnect(p) \/ Connect(p) \/ Revoke(p)
    \/ Login(p) \/ Store(p) \/ StoreSave(p) \/ ReadPrincipal(p) \/ SavePrincipal(p)
    \/ RevokeRemote(p) \/ Delete(p)

Next ==
    \/ \E p \in Procs : GetAccessToken(p) \/ GiveUp(p) \/ Refresh(p) \/ Command(p) \/ Fail(p)
    \/ Expire
    \/ \E m \in Managers : Crash(m)

Spec == Init /\ [][Next]_vars

\* A goroutine that refreshes is scheduled, and its provider call times out.
Fairness == \A p \in Callers : WF_vars(Refresh(p))

FairSpec == Spec /\ Fairness
==============================================================================
