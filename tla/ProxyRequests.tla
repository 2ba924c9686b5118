---------------------------- MODULE ProxyRequests ----------------------------
(***************************************************************************)
(* The requests an agent sends through kimbap proxy or kimbap run.  The    *)
(* rules are made of the enabled services once, when the command starts;   *)
(* the actions they name are looked up in the registry at each request.    *)
(*                                                                         *)
(* A path is the sequence of its segments, a host a name and a port, empty *)
(* for the default one.  A segment or a name with a star in it, a glob, is *)
(* given by the texts it matches, and a segment with a parameter in braces *)
(* by the glob the rules have in its place.  A value is the pair of its    *)
(* JSON type and what it says, blank when nothing but spaces.  Services    *)
(* and actions are numbered in the order of their names, every rule of a   *)
(* service has priority 100, and policy and approval come after the input. *)
(***************************************************************************)
EXTENDS Naturals, Sequences, FiniteSets, TLC, Selection

CONSTANTS
  Manifests,  \* the sequence of the installed services' manifests
  AgentRequests,   \* what the agent may send
  Texts,      \* what a value may say
  Unsafe,     \* the texts the pipeline refuses: traversals, control characters
  Globs,      \* the texts a glob matches, by what its star stands for
  Params      \* the parameter and the glob of a segment with a parameter

ASSUME ManifestsAssumption ==
  /\ IsSequence(Manifests)
  /\ \A s \in DOMAIN Manifests :
       /\ IsSequence(Manifests[s].base) /\ IsSequence(Manifests[s].actions)
       /\ \A i \in DOMAIN Manifests[s].base : Manifests[s].base[i] \notin DOMAIN Params
       /\ \A a \in DOMAIN Manifests[s].actions :
            LET act == Manifests[s].actions[a]
            IN IsSequence(act.path) /\ \A n \in DOMAIN act.args : act.args[n].default[2] \in Texts

ASSUME RequestsAssumption ==
  \A q \in AgentRequests :
    /\ IsSequence(q.path)
    /\ \A n \in DOMAIN q.query : q.query[n][2] \in Texts
    /\ q.body.kind = "object" => \A n \in DOMAIN q.body.args : q.body.args[n][2] \in Texts
    /\ q.body.kind = "value" => q.body.value[2] \in Texts

ASSUME GlobsAssumption ==
  /\ "*" \notin DOMAIN Globs /\ \A g \in DOMAIN Globs : DOMAIN Globs[g] = Texts
  /\ \A p \in DOMAIN Params : Params[p].glob \in {"*"} \union DOMAIN Globs

VARIABLES
  unread,     \* services whose rules are not made yet
  rules,      \* the classifier's rules in the order they are tried
  installed,  \* services the registry finds now
  asked,      \* the request being answered, or Nothing
  matched,    \* the rule it matched, or Nothing
  response    \* what became of it

proxyVars == <<unread, rules, installed, asked, matched, response>>

Nothing == <<>>
Unanswered == [outcome |-> "none", sent |-> Nothing]
Services == DOMAIN Manifests
AnyHost(host) == host.name = "*" /\ host.port = ""

(***************************************************************************)
(* Rules and their order.                                                  *)
(***************************************************************************)
Wild(path) == [i \in DOMAIN path |-> IF path[i] \in DOMAIN Params THEN Params[path[i]].glob ELSE path[i]]

RuleOf(s, a) ==
  LET m == Manifests[s]
  IN [id |-> <<s, a>>, host |-> m.host, method |-> m.actions[a].method,
      path |-> Wild(m.base \o m.actions[a].path)]

RulesOf(s) == [a \in DOMAIN Manifests[s].actions |-> RuleOf(s, a)]

HasGlob(text) == text = "*" \/ text \in DOMAIN Globs

Literals(path) == Cardinality({i \in DOMAIN path : ~HasGlob(path[i])})

\* 2: no glob; 1: one, the whole last segment; 0: any other pattern.
PathKind(path) ==
  IF Literals(path) = Len(path) THEN 2
  ELSE IF Len(path) > 1 /\ path[Len(path)] = "*" /\ Literals(path) = Len(path) - 1 THEN 1 ELSE 0

HostRank(host) == IF AnyHost(host) THEN 0 ELSE IF HasGlob(host.name) THEN 1 ELSE 2

\* Mutant: the rank without the number of literal segments.
RankByKind(r) ==
  <<HostRank(r.host), PathKind(r.path), Len(r.path), IF r.method = "*" THEN 0 ELSE 1>>

Rank(r) ==
  <<HostRank(r.host), PathKind(r.path), Literals(r.path), Len(r.path),
    IF r.method = "*" THEN 0 ELSE 1>>

\* The first place two sequences differ in is Greater or not.
DiffersUpwards(s, t) ==
  \E i \in DOMAIN s : s[i] > t[i] /\ \A j \in 1..i - 1 : s[j] = t[j]

TriedBefore(l, r) ==
  \/ DiffersUpwards(Rank(l), Rank(r))
  \/ (Rank(l) = Rank(r) /\ DiffersUpwards(r.id, l.id))

\* In place k is the rule that k - 1 others are tried before.
Sorted(rs) ==
  LET Earlier(i) == {j \in DOMAIN rs : TriedBefore(rs[j], rs[i])}
  IN [k \in DOMAIN rs |-> rs[CHOOSE i \in DOMAIN rs : Cardinality(Earlier(i)) = k - 1]]

MatchesGlob(pattern, text) ==
  \/ pattern \in {"*", text}
  \/ pattern \in DOMAIN Globs /\ \E v \in Texts : Globs[pattern][v] = text

\* A pattern without a port matches any.
MatchesHost(pattern, host) ==
  MatchesGlob(pattern.name, host.name) /\ pattern.port \in {"", host.port}

MatchesPath(pattern, path) ==
  Len(pattern) = Len(path) /\ \A i \in DOMAIN pattern : MatchesGlob(pattern[i], path[i])

RuleMatches(r, q) ==
  r.method \in {"*", q.method} /\ MatchesHost(r.host, q.host) /\ MatchesPath(r.path, q.path)

FirstMatch(rs, q) ==
  LET hits == {i \in DOMAIN rs : RuleMatches(rs[i], q)}
  IN IF hits = {} THEN Nothing ELSE rs[CHOOSE i \in hits : \A j \in hits : i <= j]

(***************************************************************************)
(* The action's input: the query, overlaid by the body.                    *)
(***************************************************************************)
Overlay(f, g) == [x \in DOMAIN f \union DOMAIN g |-> IF x \in DOMAIN g THEN g[x] ELSE f[x]]

ExtractInput(q) ==
  Overlay(q.query, CASE q.body.kind = "object" -> q.body.args
                     [] q.body.kind = "value" -> [n \in {"body"} |-> q.body.value]
                     [] OTHER -> << >>)

ActionOf(id) == Manifests[id[1]].actions[id[2]]
PathParams(id) ==
  {Params[p].name : p \in {ActionOf(id).path[i] : i \in DOMAIN ActionOf(id).path} \cap DOMAIN Params}
Required(id) ==
  PathParams(id) \union {n \in DOMAIN ActionOf(id).args : ActionOf(id).args[n].required}

\* Pagination and output filters add inputs of their own.
AddedFields(id) ==
  Overlay(IF ActionOf(id).paged THEN "_max_pages" :> [type |-> "integer", enum |-> {}] ELSE << >>,
          IF ActionOf(id).filtered
          THEN "_output_mode" :> [type |-> "string", enum |-> {<<"string", "default">>, <<"string", "raw">>}]
                 @@ "_budget" :> [type |-> "integer", enum |-> {}]
          ELSE << >>)

Fields(id) ==
  Overlay([n \in PathParams(id) |-> [type |-> "string", enum |-> {}]],
          Overlay(ActionOf(id).args, AddedFields(id)))

\* Without arguments, parameters and pages, any input is taken.
TakesAny(id) == ActionOf(id).args = << >> /\ PathParams(id) = {} /\ ~ActionOf(id).paged

OfType(type, value) == value[1] \in {type} \union (IF type = "number" THEN {"integer"} ELSE {})

Accepts(field, value) == OfType(field.type, value) /\ (field.enum = {} \/ value \in field.enum)

ValidInput(id, input) ==
  /\ \A n \in Required(id) :
       n \in DOMAIN input /\ ~(Fields(id)[n].type = "string" /\ input[n] = <<"string", "">>)
  /\ \A n \in DOMAIN input :
       IF n \in DOMAIN Fields(id) THEN Accepts(Fields(id)[n], input[n]) ELSE TakesAny(id)

Sanitized(input) == \A n \in DOMAIN input : n \notin Unsafe /\ input[n][2] \notin Unsafe

Accepted(id, input) == ValidInput(id, input) /\ Sanitized(input)

\* Defaults of the right type stand for optional arguments that are not given.
Defaults(id) ==
  LET args == ActionOf(id).args
  IN [n \in {m \in DOMAIN args : ~args[m].required /\ OfType(args[m].type, args[m].default)} |->
        args[n].default]

InputOf(id, q) == Overlay(Defaults(id), ExtractInput(q))

Filled(segment, input) ==
  IF segment \notin DOMAIN Params THEN segment
  ELSE LET value == input[Params[segment].name][2]
       IN IF Params[segment].glob = "*" THEN value ELSE Globs[Params[segment].glob][value]

ResolvedPath(id, input) ==
  Manifests[id[1]].base \o [i \in DOMAIN ActionOf(id).path |-> Filled(ActionOf(id).path[i], input)]

(***************************************************************************)
(* The proxy.                                                              *)
(***************************************************************************)
ProxyInit ==
  /\ unread = Services /\ installed = Services
  /\ rules = <<>> /\ asked = Nothing /\ matched = Nothing /\ response = Unanswered

AddRulesFromService(s) ==
  /\ s \in unread
  /\ unread' = unread \ {s}
  /\ rules' = Sorted(rules \o RulesOf(s))
  /\ UNCHANGED <<installed, asked, matched, response>>

Ask(q) ==
  /\ unread = {} /\ asked = Nothing
  /\ asked' = q
  /\ matched' = FirstMatch(rules, q)
  /\ UNCHANGED <<unread, rules, installed, response>>

Respond(outcome, sent) ==
  /\ asked # Nothing /\ response = Unanswered
  /\ response' = [outcome |-> outcome, sent |-> sent]
  /\ UNCHANGED <<unread, rules, installed, asked, matched>>

\* The unmatched are forwarded as they are, or denied, as configured.
Unmatched ==
  matched = Nothing /\ \E outcome \in {"forwarded", "denied"} : Respond(outcome, asked.path)

BadBody == matched # Nothing /\ asked.body.kind = "text" /\ Respond("unsupported body", Nothing)

NotInstalled ==
  /\ matched # Nothing /\ asked.body.kind # "text"
  /\ matched.id[1] \notin installed
  /\ Respond("action not found", Nothing)

Resolved ==
  matched # Nothing /\ asked.body.kind # "text" /\ matched.id[1] \in installed

InputRefused ==
  /\ Resolved
  /\ ~Accepted(matched.id, InputOf(matched.id, asked))
  /\ Respond("invalid input", Nothing)

KeyMissing ==
  /\ Resolved
  /\ Accepted(matched.id, InputOf(matched.id, asked))
  /\ ~ActionOf(matched.id).idempotent /\ ~asked.keyed
  /\ Respond("key required", Nothing)

Executed ==
  /\ Resolved
  /\ Accepted(matched.id, InputOf(matched.id, asked))
  /\ ActionOf(matched.id).idempotent \/ asked.keyed
  /\ Respond("executed", ResolvedPath(matched.id, InputOf(matched.id, asked)))

AnswerStep == Unmatched \/ BadBody \/ NotInstalled \/ InputRefused \/ KeyMissing \/ Executed

Written ==
  /\ response # Unanswered
  /\ asked' = Nothing /\ matched' = Nothing /\ response' = Unanswered
  /\ UNCHANGED <<unread, rules, installed>>

Uninstall(s) ==
  /\ s \in installed
  /\ installed' = installed \ {s}
  /\ UNCHANGED <<unread, rules, asked, matched, response>>

ProxyNext ==
  \/ \E s \in Services : AddRulesFromService(s) \/ Uninstall(s)
  \/ \E q \in AgentRequests : Ask(q)
  \/ AnswerStep \/ Written

ProxySpec == ProxyInit /\ [][ProxyNext]_proxyVars

ProxyTypeOK ==
  /\ unread \subseteq Services /\ installed \subseteq Services
  /\ \A i \in DOMAIN rules : rules[i] \in {RuleOf(rules[i].id[1], rules[i].id[2])}
  /\ asked \in AgentRequests \union {Nothing}
  /\ matched = Nothing \/ \E i \in DOMAIN rules : matched = rules[i]

\* Every text the glob or text x matches, p matches too.
CoversGlob(p, x) ==
  \/ p \in {"*", x}
  \/ /\ p \in DOMAIN Globs /\ x # "*"
     /\ IF x \in DOMAIN Globs THEN \A v \in Texts : MatchesGlob(p, Globs[x][v]) ELSE MatchesGlob(p, x)

CoversHost(p, h) == CoversGlob(p.name, h.name) /\ p.port \in {"", h.port}

\* r matches every request l matches.
Covers(r, l) ==
  /\ CoversHost(r.host, l.host)
  /\ r.method \in {"*", l.method}
  /\ Len(r.path) = Len(l.path) /\ \A i \in DOMAIN r.path : CoversGlob(r.path[i], l.path[i])

(***************************************************************************)
(* Whatever order the services are read in, a rule written for fewer       *)
(* requests is not shadowed by one that covers it: the rule that answers   *)
(* covers no other rule that matches (sortRules, Classify).  The order     *)
(* does not compare two fixed hosts, nor two globs: of two such hosts, one *)
(* with a port and one without say, either may answer.  And it ranks a     *)
(* segment that is a glob in part, {id}.json, no higher than a whole one.  *)
(***************************************************************************)
NarrowerRuleAnswers ==
  matched # Nothing =>
    \A i \in DOMAIN rules :
      /\ RuleMatches(rules[i], asked) /\ Covers(matched, rules[i])
      /\ rules[i].host = matched.host \/ HostRank(rules[i].host) # HostRank(matched.host)
      /\ \A k \in DOMAIN rules[i].path : rules[i].path[k] \notin DOMAIN Globs
      => Covers(rules[i], matched)

\* The parameters of the matched action, read from the request's own path.
FromPath ==
  LET path == ActionOf(matched.id).path
      At(n) == CHOOSE i \in DOMAIN path : path[i] \in DOMAIN Params /\ Params[path[i]].name = n
      Segment(n) == asked.path[Len(Manifests[matched.id[1]].base) + At(n)]
      Value(g, text) == IF g = "*" THEN text ELSE CHOOSE v \in Texts : Globs[g][v] = text
  IN [n \in PathParams(matched.id) |-> <<"string", Value(Params[path[At(n)]].glob, Segment(n))>>]

(***************************************************************************)
(* What docs/architecture.md:419 shows of a request for                    *)
(* /repos/owner/repo/pulls: an intercepted request runs its action for the *)
(* path it was sent to.  It is refused as invalid only if it would be with *)
(* the parameters its path holds, and what is sent has its path.           *)
(* extractProxyInput reads the query and the body, not the path.           *)
(***************************************************************************)
PathReachesAction ==
  /\ response.outcome = "invalid input" =>
       ~Accepted(matched.id, Overlay(InputOf(matched.id, asked), FromPath))
  /\ response.outcome = "executed" => response.sent = asked.path
=============================================================================
