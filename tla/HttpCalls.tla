------------------------------ MODULE HttpCalls ------------------------------
(***************************************************************************)
(* One call of the HTTP adapter: the credential put where the action's     *)
(* authentication says, the attempts of one request with their timeouts    *)
(* and waits, and the pages of a paginated action.  The remote service is  *)
(* external: a list of Items things it serves from a position, no more at  *)
(* a time than its own cap, which may answer, fail, or be unreachable at   *)
(* every attempt, before or after it acted on the request.                 *)
(*                                                                         *)
(* A call's configuration is what the manifest's converter and the         *)
(* pipeline's overrides made of the manifest and the caller's input.       *)
(***************************************************************************)
EXTENDS Naturals, Sequences, SequencesExt

CONSTANTS Items,        \* bound: things the service has
          MaxAttempts,  \* bound: retry.max_attempts of the manifest
          HardMaxPages, \* hardMaxPaginationPages
          MaxTotal      \* hardMaxPaginationTotalItems

ASSUME HttpAssumption == {Items, MaxAttempts, HardMaxPages, MaxTotal} \subseteq Nat

VARIABLES
  call,    \* the configuration, chosen once
  pc,      \* "page", "attempt", "wait", "done"
  page,    \* pages fetched so far
  next,    \* the position the next page is asked from
  got,     \* the items gathered
  log,     \* what came of each attempt at the current request
  acted,   \* how often the service acted on the current request
  sent,    \* where the requests carried the credential
  over,    \* the overall context has ended
  outcome  \* "running", "ok" or why it failed

httpVars == <<call, pc, page, next, got, log, acted, sent, over, outcome>>

Statuses == {200, 404, 429, 500, 503}
Lost == 0     \* no response, and the service never acted
Late == 1     \* no response in time, though the service acted
Broken == 2   \* a response cut short, or over the size limit
Transport == {Lost, Late}

(***************************************************************************)
(* Configuration.                                                          *)
(***************************************************************************)
AuthTypes == {"none", "bearer", "oauth2", "session", "api_key", "header", "basic",
              "query", "body"}

\* has5xx and the converter: the listed statuses become two switches.
RetrySwitches(listed) == [on429 |-> 429 \in listed, on5xx |-> \E s \in listed : s >= 500]

\* applyRuntimeActionOverrides: the caller may ask for fewer pages than the
\* manifest allows, for more only when the manifest has no limit.
EffectivePages(manifest, asked) ==
  IF asked = 0 THEN manifest
  ELSE IF manifest > 0 /\ asked > manifest THEN manifest ELSE asked

DefaultPages == 2
PageLimit(pages) ==
  LET wanted == IF pages > 0 THEN pages ELSE DefaultPages
  IN IF wanted > HardMaxPages THEN HardMaxPages ELSE wanted

Plain == [auth |-> "none", optional |-> FALSE, creds |-> "nil", attempts |-> 1, listed |-> {},
          style |-> "none", pages |-> 0, limit |-> 1, cap |-> 1, items |-> 1, list |-> TRUE]

\* One dimension at a time varies with the rest plain: credentials, retries of
\* one request, and pages with a second attempt at each.
WithCredentials(a, o, c) == [Plain EXCEPT !.auth = a, !.optional = o, !.creds = c]
WithRetries(n, l) == [Plain EXCEPT !.attempts = n, !.listed = l]
WithPages(s, m, p, k, c, n, b) ==
  [Plain EXCEPT !.attempts = 2, !.style = s, !.pages = EffectivePages(m, p), !.limit = k,
                !.cap = c, !.items = n, !.list = b]

Calls ==
  {WithCredentials(a, o, c) : a \in AuthTypes, o \in BOOLEAN, c \in {"nil", "empty", "value"}}
  \union {WithRetries(n, l) : n \in 0..MaxAttempts, l \in SUBSET {404, 429, 503}}
  \union {WithPages(s, m, p, k, c, n, b) :
            s \in {"cursor", "offset"}, m \in {0, 2}, p \in {0, 1, 3}, k \in 1..2, c \in 1..2,
            n \in 0..Items, b \in BOOLEAN}

HttpInit ==
  /\ call \in Calls
  /\ pc = "page"
  /\ page = 0 /\ next = 0 /\ got = <<>> /\ log = <<>>
  /\ acted = 0
  /\ sent = {}
  /\ over = FALSE
  /\ outcome = "running"

Finish(why) == pc' = "done" /\ outcome' = why
Attempts == IF call.attempts <= 0 THEN 1 ELSE call.attempts
Switches == RetrySwitches(call.listed)

(***************************************************************************)
(* The credential: each of the three injectors handles its own types and   *)
(* leaves the others alone.                                                *)
(***************************************************************************)
Injector(auth) ==
  CASE auth = "body"  -> "body"
    [] auth = "query" -> "query"
    [] OTHER          -> "header"

Refused(auth) == auth # "none" /\ ~(call.creds = "nil" /\ call.optional) /\ call.creds # "value"
Places == IF call.auth = "none" \/ call.creds # "value" THEN {} ELSE {Injector(call.auth)}

(***************************************************************************)
(* The pages.                                                              *)
(***************************************************************************)
Paginated == call.style # "none"

BeginPage ==
  /\ pc = "page"
  /\ \/ /\ Paginated /\ (over \/ page >= PageLimit(call.pages))
        /\ Finish(IF page >= PageLimit(call.pages) THEN "ok" ELSE "cancelled")
        /\ UNCHANGED <<log, acted>>
     \/ /\ ~(Paginated /\ (over \/ page >= PageLimit(call.pages)))
        /\ IF Refused(call.auth) THEN Finish("credential")
           ELSE pc' = "attempt" /\ UNCHANGED outcome
        /\ log' = <<>> /\ acted' = 0
  /\ UNCHANGED <<call, page, next, got, sent, over>>

Served == LET size == IF call.cap < call.limit THEN call.cap ELSE call.limit
              last == IF next + size > call.items THEN call.items ELSE next + size
          IN [i \in 1..(last - next) |-> next + i]

\* A cursor is given while there is more; an offset page that is shorter than
\* the limit asked for is taken for the last.
MorePages == IF call.style = "cursor" THEN next + Len(Served) < call.items
             ELSE Len(Served) >= call.limit

\* Mutant: the next page is asked from where a full one would have ended.
TakePageByLimit ==
  IF ~Paginated \/ ~call.list
  THEN Finish("ok") /\ UNCHANGED <<page, next, got>>
  ELSE /\ page' = page + 1
       /\ got' = got \o Served
       /\ next' = next + call.limit
       /\ IF Len(got') > MaxTotal THEN Finish("too_many_items")
          ELSE IF MorePages THEN pc' = "page" /\ UNCHANGED outcome
          ELSE Finish("ok")

TakePage ==
  IF ~Paginated \/ ~call.list
  THEN Finish("ok") /\ UNCHANGED <<page, next, got>>
  ELSE /\ page' = page + 1
       /\ got' = got \o Served
       /\ next' = next + Len(Served)
       /\ IF Len(got') > MaxTotal THEN Finish("too_many_items")
          ELSE IF MorePages THEN pc' = "page" /\ UNCHANGED outcome
          ELSE Finish("ok")

(***************************************************************************)
(* The attempts.                                                           *)
(***************************************************************************)
\* Mutant: a status is retried whatever the manifest lists.
RetriesAnyFailure(status) == call.attempts > 1 /\ (status = 429 \/ status >= 500)

ShouldRetry(status) ==
  /\ call.attempts > 1
  /\ \/ status = 429 /\ Switches.on429
     \/ status >= 500 /\ Switches.on5xx

Attempt(result, acts) ==
  /\ pc = "attempt"
  /\ over => result = Lost
  /\ result = Late \/ result = 200 => acts
  /\ result = Lost \/ result = 429 => ~acts
  /\ log' = Append(log, result)
  /\ acted' = IF acts THEN acted + 1 ELSE acted
  /\ sent' = sent \union {Places}
  /\ LET again == Len(log') < Attempts
     IN \/ /\ result \in Transport
           /\ IF again THEN pc' = "wait" /\ UNCHANGED outcome ELSE Finish("unreachable")
           /\ UNCHANGED <<page, next, got>>
        \/ /\ result = Broken
           /\ Finish("unusable")
           /\ UNCHANGED <<page, next, got>>
        \/ /\ result \in Statuses \ {200}
           /\ IF ShouldRetry(result) /\ again THEN pc' = "wait" /\ UNCHANGED outcome
              ELSE Finish("status")
           /\ UNCHANGED <<page, next, got>>
        \/ result = 200 /\ TakePage
  /\ UNCHANGED <<call, over>>

\* The wait between attempts ends early when the overall context does.
Pause ==
  /\ pc = "wait"
  /\ \/ pc' = "attempt" /\ UNCHANGED outcome
     \/ over /\ Finish("cancelled")
  /\ UNCHANGED <<call, page, next, got, log, acted, sent, over>>

HttpContextEnds ==
  /\ pc # "done"
  /\ ~over
  /\ over' = TRUE
  /\ UNCHANGED <<call, pc, page, next, got, log, acted, sent, outcome>>

HttpNext ==
  \/ BeginPage \/ Pause \/ HttpContextEnds
  \/ \E r \in Transport \union {Broken} \union Statuses, acts \in BOOLEAN : Attempt(r, acts)

HttpSpec == HttpInit /\ [][HttpNext]_httpVars

-----------------------------------------------------------------------------
HttpTypeOK ==
  /\ pc \in {"page", "attempt", "wait", "done"}
  /\ page \in 0..HardMaxPages /\ next \in 0..Items
  /\ got \in Seq(1..Items) /\ log \in Seq(Transport \union {Broken} \union Statuses)
  /\ acted \in Nat /\ over \in BOOLEAN
  /\ outcome \in {"running", "ok", "cancelled", "credential", "too_many_items", "unreachable",
                  "unusable", "status"}

\* However pages are cut and requests repeated, the items gathered are the
\* service's own from the first on, none twice and none passed over; and when
\* a successful call ended before its page limit it has them all, unless the
\* service caps its pages under the limit an offset call asked for, which the
\* adapter cannot tell from the end.
PagesAreOneSweep ==
  /\ got = [i \in 1..Len(got) |-> i]
  /\ Len(got) <= MaxTotal + call.limit
  /\ page <= PageLimit(call.pages)
  /\ outcome = "ok" /\ Paginated /\ call.list /\ page < PageLimit(call.pages)
       => Len(got) = call.items \/ (call.style = "offset" /\ call.cap < call.limit)

\* A request is sent again only when no response came or the status is one the
\* manifest's retry switches name, and never more than max_attempts times: a
\* service acts twice only for a manifest that asked for attempts, and never
\* after a response the adapter used, refused or could not read.  Each time it
\* carries the credential, in exactly one place; it leaves without one only when
\* the credential is optional and there is none at all, never when there is one
\* the type cannot use.
RetriesHaveCause ==
  /\ Len(log) <= Attempts
  /\ \A i \in 1..(Len(log) - 1) :
       \/ log[i] \in Transport
       \/ log[i] = 429 /\ 429 \in call.listed
       \/ log[i] \in {500, 503} /\ call.listed \intersect {500, 503} # {}
  /\ acted > 1 => call.attempts > 1
  /\ \A places \in sent :
       call.auth # "none" => \/ \E p \in {"header", "query", "body"} : places = {p}
                             \/ places = {} /\ call.optional /\ call.creds = "nil"
=============================================================================
