------------------------------ MODULE MCPolicies ------------------------------
(***************************************************************************)
(* A tenant's policy for TLC, in two parts that share no variable: the     *)
(* cache of a document (MCPolicy) and the rules of one (PolicyRules).  The *)
(* part that moves is chosen at the start.  See Policy.cfg.                *)
(***************************************************************************)
EXTENDS MCPolicy, PolicyRules

VARIABLE ruling \* it is the rules that move

Everyone == [agents |-> {}, services |-> {}, actions |-> {}, risk |-> {}, tenants |-> {}]
Rule == [id |-> "one", priority |-> 1, match |-> Everyone, decision |-> "allow",
         conditions |-> << >>, hours |-> absent, limit |-> absent]
Other == [Rule EXCEPT !.id = "two", !.decision = "deny"]
Req == [tenant |-> "t1", agent |-> "bot", service |-> "s", action |-> "get", risk |-> "low",
        mutating |-> FALSE,
        args |-> "n" :> [kind |-> "number", is |-> 1] @@ "t" :> [kind |-> "text", is |-> "ab"]
                 @@ "l" :> [kind |-> "list", is |-> <<[kind |-> "text", is |-> "a"]>>]]

Sample(rules, reqs, at) == [doc |-> rules, requests |-> reqs, start |-> at]
One(req) == k1 :> req
Two(req) == k1 :> req @@ k2 :> req
Hours(after, before, zone, days) == [after |-> after, before |-> before, zone |-> zone, days |-> days]

\* Two rules, in both orders and with one priority, with windows of every shape.
Shapes == {Hours(3, 1, 0, {0}), Hours(3, 1, 1, {1, 2}), Hours(3, 1, 0, {}), Hours(1, 3, 0, {1, 2}),
           Hours(1, 3, 0 - 2, {0}), Hours(2, absent, 0, {0}), Hours(absent, 2, 1, {2}), Hours(2, 2, 0, {}),
           Hours(absent, absent, 0, {1})}
WindowSamples ==
  {Sample(<<[Rule EXCEPT !.hours = h, !.priority = p], [Other EXCEPT !.hours = g]>>, Two(Req), s) :
     h \in Shapes, g \in {absent, Hours(3, 1, 0, {0})}, p \in {0, 1, 2}, s \in 0..11}

\* A condition on every field with every operator, and a rule behind it.
Values == {[kind |-> "number", is |-> 1], [kind |-> "number", is |-> 0],
           [kind |-> "text", is |-> "a"], [kind |-> "bool", is |-> TRUE],
           [kind |-> "list", is |-> <<[kind |-> "text", is |-> "ab"], [kind |-> "number", is |-> 1]>>]}
Conditions ==
  [field : {<<"args", "n">>, <<"args", "t">>, <<"args", "l">>, <<"args", "none">>, <<"args">>,
            <<"risk", "mutating">>, <<"agent_name">>},
   operator : {"eq", "ne", "gt", "lt", "gte", "lte", "in", "contains", "like"}, value : Values]
Low == [field |-> <<"risk", "level">>, operator |-> "eq", value |-> Text("low")]
ConditionSamples ==
  {Sample(<<[Rule EXCEPT !.conditions = <<c>>], Other>>, One(Req), 0) : c \in Conditions}
  \union {Sample(<<[Rule EXCEPT !.conditions = <<Low, c>>], Other>>, One([Req EXCEPT !.risk = r]), 0) :
            c \in {d \in Conditions : d.operator \in {"in", "gt"}}, r \in {"low", "high"}}

Matches ==
  {[Everyone EXCEPT !.agents = {{"bot"}}], [Everyone EXCEPT !.agents = {{"cat"}, {"dog"}}],
   [Everyone EXCEPT !.actions = {{<<"", "get">>}}], [Everyone EXCEPT !.actions = {{<<"s", "get">>, <<"s", "put">>}}],
   [Everyone EXCEPT !.actions = {{<<"r", "get">>}}], [Everyone EXCEPT !.services = {{"r"}}],
   [Everyone EXCEPT !.services = {{"s", "r"}}, !.tenants = {{"t2"}}], [Everyone EXCEPT !.risk = {{"high"}}]}
MatchSamples ==
  {Sample(<<[Rule EXCEPT !.match = m], Other>>, One([Req EXCEPT !.risk = r, !.tenant = t]), 0) :
     m \in Matches, r \in {"low", "high"}, t \in {"t1", "t2"}}

\* Limits of every scope, and calls that share a tenant, an agent's name, an action or nothing.
Limit(max, window, scope) == [max |-> max, window |-> window, scope |-> scope]
Requests == {Req, [Req EXCEPT !.tenant = "t2"], [Req EXCEPT !.action = "put"], [Req EXCEPT !.agent = "cat"]}
LimitSamples ==
  {Sample(<<[Rule EXCEPT !.limit = Limit(m, w, s), !.match.actions = {{<<"", "get">>}}],
            [Other EXCEPT !.limit = Limit(1, 1, "tenant"), !.decision = d]>>, reqs, 0) :
     m \in {1, 2}, w \in {1, 2}, s \in {"tenant", "agent", "action"},
     d \in {"require_approval", "maybe"}, reqs \in {r \in [Evaluations -> Requests] : r[k1] = Req}}

TheSamples == WindowSamples \union ConditionSamples \union MatchSamples \union LimitSamples
TheParts == {<<"a", "ab">>, <<"a", "a">>, <<"ab", "ab">>}
\* The part that does not move begins in one state only.
PoliciesInit ==
  /\ ruling \in BOOLEAN
  /\ Init
  /\ IF ruling THEN doc = absent /\ RulesInit
     ELSE /\ document = << >> /\ request = << >> /\ start = 0 /\ slot = 0 /\ place = << >>
          /\ answer = [c \in Evaluations |-> Unanswered] /\ counted = << >> /\ expires = << >>
          /\ lastSweep = 0 /\ passes = {}

PoliciesNext ==
  /\ UNCHANGED ruling
  /\ \/ ~ruling /\ Next /\ UNCHANGED rulesVars
     \/ ruling /\ RulesNext /\ UNCHANGED vars

PoliciesSpec == PoliciesInit /\ [][PoliciesNext]_<<ruling, vars, rulesVars>>
===============================================================================
