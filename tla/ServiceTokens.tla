---------------------------- MODULE ServiceTokens ----------------------------
(***************************************************************************)
(* Service tokens: the tokens table, the commands that issue and revoke,   *)
(* the REST requests that authenticate with one token and mint or revoke   *)
(* another, and the service's rotation, which issues and then revokes in   *)
(* two separate statements.                                                *)
(***************************************************************************)
EXTENDS Naturals, Sequences, FiniteSets

CONSTANTS Tenants,
          Scopes,     \* the scope names of the routes, and the two that are every scope
          ScopeLists, \* the sets of scopes tokens are asked for with
          Requests,   \* REST requests in flight
          MaxTokens   \* bound: tokens ever issued

ASSUME TokensAssumption ==
  {"*", "admin", "tokens:write"} \subseteq Scopes /\ ScopeLists \subseteq SUBSET Scopes

VARIABLES
  tokens,   \* the rows in the order they were issued
  request,  \* what each request has authenticated as and is about to do
  rotation, \* the rotation in progress, or how the last one ended
  storeUp   \* whether the next statement on the store succeeds

tokenVars == <<tokens, request, rotation, storeUp>>

NoRequest == [pc |-> "idle", as |-> 0, tenant |-> "none", scopes |-> {}, target |-> 0]
NoRotation == [pc |-> "idle", old |-> 0, new |-> 0, cancelled |-> FALSE, excused |-> FALSE]

TokensInit ==
  /\ tokens = <<>>
  /\ request = [r \in Requests |-> NoRequest]
  /\ rotation = NoRotation
  /\ storeUp = TRUE

Live(i) == ~tokens[i].revoked /\ ~tokens[i].expired

\* principalHasScope: a token without scopes, or with "*" or "admin", has every scope.
HasScope(scopes, scope) == scopes = {} \/ scopes \cap {scope, "*", "admin"} # {}
Authority(scopes) == {s \in Scopes : HasScope(scopes, s)}

Issue(tenant, scopes, by, how) ==
  /\ storeUp
  /\ Len(tokens) < MaxTokens
  /\ tokens' = Append(tokens, [tenant |-> tenant, scopes |-> scopes, by |-> by, how |-> how,
                               revoked |-> FALSE, expired |-> FALSE])
Revoke(i) == storeUp /\ tokens' = [tokens EXCEPT ![i].revoked = TRUE]

(***************************************************************************)
(* The commands, the clock and the store.                                  *)
(***************************************************************************)
IssueFromCli(tenant, scopes) ==
  Issue(tenant, scopes, 0, "cli") /\ UNCHANGED <<request, rotation, storeUp>>

RevokeFromCli(i) == Revoke(i) /\ UNCHANGED <<request, rotation, storeUp>>

Expire(i) ==
  /\ tokens' = [tokens EXCEPT ![i].expired = TRUE]
  /\ UNCHANGED <<request, rotation, storeUp>>

\* Elsewhere than in a rotation a store that is down only refuses.
StoreChanges ==
  /\ rotation.pc \in {"issue", "revoke_old", "rollback"} \/ ~storeUp
  /\ storeUp' = ~storeUp
  /\ UNCHANGED <<tokens, request, rotation>>

(***************************************************************************)
(* A REST request: the middleware resolves the token once; the handlers    *)
(* work on the principal it made, whatever happens to the row meanwhile.   *)
(***************************************************************************)
Authenticate(r, i) ==
  /\ request[r].pc = "idle"
  /\ storeUp
  /\ Live(i)
  /\ HasScope(tokens[i].scopes, "tokens:write")
  /\ request' = [request EXCEPT ![r] = [pc |-> "handler", as |-> i, tenant |-> tokens[i].tenant,
                                        scopes |-> tokens[i].scopes, target |-> 0]]
  /\ UNCHANGED <<tokens, rotation, storeUp>>

Reply(r) == request' = [request EXCEPT ![r] = NoRequest]

\* Mutant: asking for no scopes gets none, which means every scope.
GrantedAsAsked(r, asked) == asked

\* Asking for no scopes gets the caller's, when the caller is restricted.
Granted(r, asked) == IF asked = {} THEN request[r].scopes ELSE asked

Mint(r, asked) ==
  /\ request[r].pc = "handler"
  /\ \A s \in Granted(r, asked) : HasScope(request[r].scopes, s)
  /\ Issue(request[r].tenant, Granted(r, asked), request[r].as, "api")
  /\ Reply(r)
  /\ UNCHANGED <<rotation, storeUp>>

\* handleRevokeToken reads the row, compares the tenant, and then revokes.
FindTarget(r, i) ==
  /\ request[r].pc = "handler"
  /\ storeUp
  /\ tokens[i].tenant = request[r].tenant
  /\ request' = [request EXCEPT ![r] = [@ EXCEPT !.pc = "revoke", !.target = i]]
  /\ UNCHANGED <<tokens, rotation, storeUp>>

RevokeTarget(r) ==
  /\ request[r].pc = "revoke"
  /\ Revoke(request[r].target)
  /\ Reply(r)
  /\ UNCHANGED <<rotation, storeUp>>

\* Any refusal or failure: the request is answered and nothing is written.
Refuse(r) ==
  /\ request[r].pc # "idle"
  /\ Reply(r)
  /\ UNCHANGED <<tokens, rotation, storeUp>>

(***************************************************************************)
(* TokenService.Rotate, under a context its caller may cancel.             *)
(***************************************************************************)
Reaches(cancelled) == storeUp /\ ~cancelled
RotationTo(pc) == rotation' = [rotation EXCEPT !.pc = pc]
RotationOnly == UNCHANGED <<request, storeUp>>

\* Bound: one rotation.
BeginRotation(i) ==
  /\ rotation.pc = "idle"
  /\ rotation' = [NoRotation EXCEPT !.pc = "issue", !.old = i]
  /\ UNCHANGED tokens /\ RotationOnly

CancelRotation ==
  /\ rotation.pc \in {"issue", "revoke_old", "rollback"}
  /\ ~rotation.cancelled
  /\ rotation' = [rotation EXCEPT !.cancelled = TRUE]
  /\ UNCHANGED tokens /\ RotationOnly

\* The replacement is asked for in the old token's tenant with its scopes; its
\* issuer is the old token's, or nobody when that row could not be listed.
RotateIssue ==
  /\ rotation.pc = "issue"
  /\ \/ /\ Reaches(rotation.cancelled)
        /\ \E by \in {0, tokens[rotation.old].by} :
             Issue(tokens[rotation.old].tenant, tokens[rotation.old].scopes, by, "rotation")
        /\ rotation' = [rotation EXCEPT !.pc = "revoke_old", !.new = Len(tokens) + 1]
     \/ /\ ~Reaches(rotation.cancelled)
        /\ RotationTo("failed") /\ UNCHANGED tokens
  /\ RotationOnly

RotateRevokeOld ==
  /\ rotation.pc = "revoke_old"
  /\ \/ Reaches(rotation.cancelled) /\ Revoke(rotation.old) /\ RotationTo("ok")
     \/ ~Reaches(rotation.cancelled) /\ RotationTo("rollback") /\ UNCHANGED tokens
  /\ RotationOnly

\* Mutant: the rollback runs under the caller's context.
RollbackOfCaller == Reaches(rotation.cancelled)

\* The rollback has a context of its own, which the caller cannot cancel.
RollbackReaches == Reaches(FALSE)

RotateRollback ==
  /\ rotation.pc = "rollback"
  /\ \/ RollbackReaches /\ Revoke(rotation.new) /\ RotationTo("failed")
     \/ /\ ~RollbackReaches
        /\ rotation' = [rotation EXCEPT !.pc = "failed", !.excused = ~storeUp]
        /\ UNCHANGED tokens
  /\ RotationOnly

RotationStep ==
  \/ \E i \in DOMAIN tokens : BeginRotation(i)
  \/ CancelRotation \/ RotateIssue \/ RotateRevokeOld \/ RotateRollback

RequestStep(r) ==
  \/ \E i \in DOMAIN tokens : Authenticate(r, i) \/ FindTarget(r, i)
  \/ \E asked \in ScopeLists : Mint(r, asked)
  \/ RevokeTarget(r) \/ Refuse(r)

CliStep ==
  \/ \E t \in Tenants, s \in ScopeLists : IssueFromCli(t, s)
  \/ \E i \in DOMAIN tokens : RevokeFromCli(i) \/ Expire(i)
  \/ StoreChanges

TokensNext == CliStep \/ (\E r \in Requests : RequestStep(r)) \/ RotationStep

TokensSpec == TokensInit /\ [][TokensNext]_tokenVars

-----------------------------------------------------------------------------
TokenRow == [tenant : Tenants, scopes : SUBSET Scopes, by : Nat,
             how : {"cli", "api", "rotation"}, revoked : BOOLEAN, expired : BOOLEAN]

TokensTypeOK ==
  /\ tokens \in Seq(TokenRow)
  /\ request \in [Requests -> [pc : {"idle", "handler", "revoke"}, as : Nat,
                               tenant : Tenants \union {"none"}, scopes : SUBSET Scopes,
                               target : Nat]]
  /\ rotation \in [pc : {"idle", "issue", "revoke_old", "rollback", "ok", "failed"},
                   old : Nat, new : Nat, cancelled : BOOLEAN, excused : BOOLEAN]
  /\ storeUp \in BOOLEAN

\* A token minted over the API can do no more than the token it was minted
\* with, in the same tenant, and so on down any chain of minting, however
\* requests, revocations and expiries interleave.
MintedWithinAuthority ==
  \A i \in DOMAIN tokens :
    tokens[i].how = "api" =>
      /\ tokens[i].by \in 1..(i - 1)
      /\ tokens[i].tenant = tokens[tokens[i].by].tenant
      /\ Authority(tokens[i].scopes) \subseteq Authority(tokens[tokens[i].by].scopes)

\* A rotation that ended leaves one of the two tokens dead: the old one when it
\* succeeded, the replacement when it failed, even if its caller went away half
\* way; only a store that was down for the rollback too excuses it.
RotationLeavesOne ==
  /\ rotation.pc = "ok" => tokens[rotation.old].revoked
  /\ rotation.pc = "failed" /\ rotation.new # 0 /\ ~rotation.excused
       => tokens[rotation.new].revoked
=============================================================================
