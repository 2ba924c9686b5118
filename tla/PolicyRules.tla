----------------------------- MODULE PolicyRules -----------------------------
(***************************************************************************)
(* How the evaluator of a policy document decides a call: the rules in     *)
(* order of their priority, one after the other, each with its match, its  *)
(* conditions, its time window and its rate limit.  Evaluations are evaluated at *)
(* the same time, the clock goes on between two rules, and the windows of  *)
(* the rate limits are shared and swept.                                   *)
(*                                                                         *)
(* Time is counted in slots of a day.  A zone is what it adds to the clock;*)
(* a pattern is the set of names it matches; a bare action has no service. *)
(***************************************************************************)
EXTENDS Integers, FiniteSets, Sequences, TLC
LOCAL INSTANCE SequencesExt
LOCAL INSTANCE FiniteSetsExt

CONSTANTS Evaluations,   \* the calls
          Samples,       \* documents, the calls' requests and times to start from
          Parts,         \* <<a, b>>: the text a is in b
          Missing,        \* what is not there: a bound, a window, a limit, a rule
          Days,          \* the days of a week
          DayLength,     \* the slots of a day
          SweepInterval, \* in slots
          MaxTicks       \* slots that go by (a bound on the model)

ASSUME RulesAssumption ==
  /\ {Days, DayLength, SweepInterval} \subseteq Nat \ {0} /\ MaxTicks \in Nat

VARIABLES
  document,       \* the evaluator's document
  request,   \* the requests of the calls that are made
  start,     \* the slot it begins at
  slot,      \* the clock
  place,     \* where each evaluation is: the place of the rule it is at
  answer,    \* what it came to, and when it began and ended
  counted,   \* rl.windows: when the calls of a key were let through
  expires,   \* rl.expires
  lastSweep,
  passes     \* the calls let through by a rate limit (history)

rulesVars ==
  <<document, request, start, slot, place, answer, counted, expires, lastSweep, passes>>

(***************************************************************************)
(* A document, and its rules in order.                                     *)
(***************************************************************************)
DecisionKnown(rule) == rule.decision \in {"allow", "deny", "require_approval"}

\* ValidateDocument: what a condition compares with is not looked at.
ValidateDocument(rules) ==
  /\ rules # << >>
  /\ \A i, j \in DOMAIN rules : rules[i].id = rules[j].id => i = j
  /\ \A i \in DOMAIN rules :
       /\ DecisionKnown(rules[i])
       /\ \A c \in ToSet(rules[i].conditions) :
            c.operator \in {"eq", "ne", "gt", "lt", "gte", "lte", "in", "contains"}
       /\ rules[i].limit # Missing =>
            /\ rules[i].limit.max > 0 /\ rules[i].limit.window > 0
            /\ rules[i].limit.scope \in {"agent", "tenant", "action"}
       /\ rules[i].hours # Missing => rules[i].hours.days \subseteq 0..Days - 1

GoesBefore(rules, i, j) ==
  \/ rules[i].priority < rules[j].priority
  \/ rules[i].priority = rules[j].priority /\ i < j

\* sort.SliceStable.
SortedRules ==
  LET before(i, j) == GoesBefore(document, i, j)
      order == SetToSortSeq(DOMAIN document, before)
  IN  [i \in DOMAIN order |-> document[order[i]]]

(***************************************************************************)
(* Whether a rule is for a request.                                        *)
(***************************************************************************)
MatchesAny(patterns, name) == patterns = {} \/ \E p \in patterns : name \in p

MatchesRule(match, req) ==
  /\ MatchesAny(match.agents, req.agent)
  /\ MatchesAny(match.services, req.service)
  /\ \/ MatchesAny(match.actions, <<"", req.action>>)
     \/ MatchesAny(match.actions, <<req.service, req.action>>)
  /\ MatchesAny(match.risk, req.risk)
  /\ MatchesAny(match.tenants, req.tenant)

\* A value has a kind; every type of number is one kind.
Text(t) == [kind |-> "text", is |-> t]
IsNumber(v) == v.kind = "number"
IsList(v) == v.kind = "list"
ValuesEqual(a, b) == a.kind = b.kind /\ a.is = b.is
\* A map is kept by its keys alone: the samples compare no two maps.
Fields(req) ==
  (<<"tenant_id">> :> Text(req.tenant) @@ <<"agent_name">> :> Text(req.agent)
   @@ <<"service">> :> Text(req.service) @@ <<"action">> :> Text(req.action)
   @@ <<"risk">> :> [kind |-> "map", is |-> {"level", "mutating"}] @@ <<"risk", "level">> :> Text(req.risk)
   @@ <<"risk", "mutating">> :> [kind |-> "bool", is |-> req.mutating]
   @@ <<"args">> :> [kind |-> "map", is |-> DOMAIN req.args])
  @@ [path \in {<<"args", a>> : a \in DOMAIN req.args} |-> req.args[path[2]]]

Compared(op, a, b) ==
  CASE op = "gt" -> a > b
    [] op = "lt" -> a < b
    [] op = "gte" -> a >= b
    [] op = "lte" -> a <= b

Said(b) == IF b THEN "yes" ELSE "no"

EvaluateCondition(actual, op, expected) ==
  CASE op = "eq" -> Said(ValuesEqual(actual, expected))
    [] op = "ne" -> Said(~ValuesEqual(actual, expected))
    [] op = "in" -> IF ~IsList(expected) THEN "error"
                    ELSE Said(\E v \in ToSet(expected.is) : ValuesEqual(actual, v))
    [] op = "contains" ->
         IF actual.kind = "text"
         THEN IF expected.kind # "text" THEN "error" ELSE Said(<<expected.is, actual.is>> \in Parts)
         ELSE IF ~IsList(actual) THEN "error"
         ELSE Said(\E v \in ToSet(actual.is) : ValuesEqual(v, expected))
    [] OTHER -> IF ~IsNumber(actual) \/ ~IsNumber(expected) THEN "error"
                ELSE Said(Compared(op, actual.is, expected.is))

\* One after the other: what the first that does not pass says.
ConditionsPass(conditions, req) ==
  LET says(c) == IF c.field \notin DOMAIN Fields(req) THEN "no"
                 ELSE EvaluateCondition(Fields(req)[c.field], c.operator, c.value)
      stop == {i \in DOMAIN conditions : says(conditions[i]) # "yes"}
  IN  IF stop = {} THEN "yes" ELSE says(conditions[Min(stop)])

(***************************************************************************)
(* Time windows.                                                           *)
(***************************************************************************)
Weekday(at) == (at \div DayLength) % Days

\* Mutant: a window is of the day it is asked on.
Today(hours, at) == Weekday(at)

\* The morning of a window that goes on over night is of the day before.
ReferenceDay(hours, at) ==
  IF /\ Missing \notin {hours.after, hours.before} /\ hours.after > hours.before
     /\ at % DayLength < hours.before
  THEN Weekday(at - DayLength + Days * DayLength)
  ELSE Weekday(at)

\* timeWindowActive: neither, either or both of the bounds are given.
TimeWindowActive(hours, now) ==
  LET at == now + hours.zone + Days * DayLength
      minute == at % DayLength
      late == hours.after = Missing \/ minute >= hours.after
      early == hours.before = Missing \/ minute < hours.before
  IN  /\ hours.days = {} \/ ReferenceDay(hours, at) \in hours.days
      /\ IF Missing \notin {hours.after, hours.before} /\ hours.after > hours.before
         THEN late \/ early ELSE late /\ early

(***************************************************************************)
(* Evaluate.                                                               *)
(***************************************************************************)
Unanswered == [how |-> "none", rule |-> Missing, began |-> 0, ended |-> 0]

RulesInit ==
  /\ \E s \in Samples : /\ ValidateDocument(s.doc)
                        /\ document = s.doc /\ request = s.requests /\ start = s.start
  /\ slot = start
  /\ place = [c \in Evaluations |-> 0] /\ answer = [c \in Evaluations |-> Unanswered]
  /\ counted = << >> /\ expires = << >> /\ lastSweep = 0 - SweepInterval /\ passes = {}

limits == <<counted, expires, lastSweep, passes>>
given == <<document, request, start>>

Answer(c, how, rule) ==
  answer' = [answer EXCEPT ![c] = [@ EXCEPT !.how = how, !.rule = rule, !.ended = slot]]

BeginEvaluate(c) ==
  /\ place[c] = 0 /\ c \in DOMAIN request
  /\ place' = [place EXCEPT ![c] = 1]
  /\ answer' = [answer EXCEPT ![c].began = slot]
  /\ UNCHANGED <<given, slot, limits>>

Evaluating(c) == place[c] > 0 /\ answer[c].how = "none"

\* The next rule; it is taken unless it is passed over, and then limited.
TryRule(c) ==
  LET rule == SortedRules[place[c]]
      passed == ConditionsPass(rule.conditions, request[c])
      matches == MatchesRule(rule.match, request[c])
      active == rule.hours = Missing \/ TimeWindowActive(rule.hours, slot)
  IN /\ Evaluating(c) /\ place[c] <= Len(document)
     /\ IF matches /\ passed = "error" THEN Answer(c, "error", Missing) /\ UNCHANGED place
        ELSE IF ~(matches /\ passed = "yes" /\ active)
        THEN place' = [place EXCEPT ![c] = @ + 1] /\ UNCHANGED answer
        ELSE Answer(c, IF rule.limit = Missing THEN rule.decision ELSE "limit", rule)
             /\ UNCHANGED place
     /\ UNCHANGED <<given, slot, limits>>

DenyUnmatched(c) ==
  /\ Evaluating(c) /\ place[c] > Len(document)
  /\ Answer(c, "deny", Missing)
  /\ UNCHANGED <<given, slot, place, limits>>

RateLimitKeyPart(scope, req) ==
  CASE scope = "tenant" -> <<req.tenant>>
    [] scope = "agent" -> <<req.tenant, req.agent>>
    [] scope = "action" -> <<req.tenant, req.agent, req.service, req.action>>

Without(f, keys) == [k \in DOMAIN f \ keys |-> f[k]]

LastExpiry(times, window) == Last(times) + window

\* rl.check, under its mutex, which reads the clock again: the key's calls in the
\* window, this one if there is room, and every interval the keys that have expired.
CheckLimit(c) ==
  LET rule == answer[c].rule
      window == rule.limit.window
      key == <<rule.id, RateLimitKeyPart(rule.limit.scope, request[c])>>
      inWindow(t) == t > slot - window
      before == SelectSeq(IF key \in DOMAIN counted THEN counted[key] ELSE << >>, inWindow)
      room == Len(before) < rule.limit.max
      times == IF room THEN Append(before, slot) ELSE before
      kept == key :> times @@ counted
      until == key :> LastExpiry(times, window) @@ expires
      sweeps == slot - lastSweep >= SweepInterval
      over == IF sweeps THEN {k \in DOMAIN until : until[k] <= slot} ELSE {}
  IN /\ answer[c].how = "limit"
     /\ Answer(c, IF room THEN rule.decision ELSE "limited", rule)
     /\ counted' = Without(kept, over) /\ expires' = Without(until, over)
     /\ lastSweep' = IF sweeps THEN slot ELSE lastSweep
     /\ passes' = IF room THEN passes \union {c} ELSE passes
     /\ UNCHANGED <<given, slot, place>>

NextSlot ==
  /\ slot < start + MaxTicks
  /\ slot' = slot + 1
  /\ UNCHANGED <<given, place, answer, limits>>

RulesNext ==
  \/ \E c \in Evaluations : BeginEvaluate(c) \/ TryRule(c) \/ DenyUnmatched(c) \/ CheckLimit(c)
  \/ NextSlot

RulesSpec == RulesInit /\ [][RulesNext]_rulesVars

-----------------------------------------------------------------------------
\* When the window of a rule is open, by its days: on each it opens, at after or with
\* the day, and stays open until before, of the next day if that is earlier, or the
\* end of the day.
OpenAt(hours, now) ==
  \E day \in 0..Days - 1 :
    LET opens == IF hours.after = Missing THEN 0 ELSE hours.after
        closes == IF hours.before = Missing THEN DayLength
                  ELSE IF hours.after # Missing /\ hours.before < hours.after
                  THEN hours.before + DayLength ELSE hours.before
        week == Days * DayLength
    IN  /\ hours.days = {} \/ day \in hours.days
        /\ \E t \in day * DayLength + opens..day * DayLength + closes - 1 :
             t % week = (now + hours.zone + week) % week

Applies(rule, c) ==
  MatchesRule(rule.match, request[c]) /\ ConditionsPass(rule.conditions, request[c]) # "no"
Open(rule, t) == rule.hours = Missing \/ OpenAt(rule.hours, t)
During(c) == answer[c].began..answer[c].ended

\* The rule that decides a call applies to it and was open while it was evaluated, and
\* every rule that goes before it, by priority and then by place, did not apply or was
\* closed for some of that time, whatever the clock did between two rules; a call that
\* no rule decides had no rule that was open all along.
FirstRuleInForce ==
  \A c \in Evaluations :
    answer[c].how \notin {"none", "error"} =>
      LET at == {i \in DOMAIN document : document[i] = answer[c].rule}
          p(i) == document[i].priority
          before(i, j) == p(i) < p(j) \/ (p(i) = p(j) /\ i < j)
          first == {i \in DOMAIN document : \A j \in at : before(i, j)}
      IN  /\ \A i \in at : Applies(document[i], c) /\ \E t \in During(c) : Open(document[i], t)
          /\ \A i \in first : Applies(document[i], c) => \E t \in During(c) : ~Open(document[i], t)

OneScope(rule, c, d) ==
  CASE rule.limit.scope = "tenant" -> request[c].tenant = request[d].tenant
    [] rule.limit.scope = "agent" -> /\ request[c].tenant = request[d].tenant
                                     /\ request[c].agent = request[d].agent
    [] rule.limit.scope = "action" ->
         \A f \in {"tenant", "agent", "service", "action"} : request[c][f] = request[d][f]
\* The calls of c's scope its rule let through in the window that ends with c's check.
PassedBefore(c) ==
  {d \in passes : /\ answer[d].rule = answer[c].rule /\ OneScope(answer[c].rule, c, d)
                  /\ answer[d].ended <= answer[c].ended
                  /\ answer[d].ended > answer[c].ended - answer[c].rule.limit.window}

\* In no window does a rule let more calls of one scope through than its limit, though
\* other keys' calls sweep the windows.
LimitPerScope == \A c \in passes : Cardinality(PassedBefore(c)) <= answer[c].rule.limit.max

\* A call is limited only by calls of its own scope: not by another tenant's agent of
\* the same name, nor by another rule's calls.
LimitedByOwnScope ==
  \A c \in Evaluations :
    answer[c].how = "limited" => Cardinality(PassedBefore(c)) >= answer[c].rule.limit.max

\* However many calls are evaluated at once, and wherever the clock stands between
\* two of their rules: each is decided by the first rule in force, and a rate limit
\* lets through as many calls of each scope as it says, neither more nor less.
DocumentDecides == FirstRuleInForce /\ LimitPerScope /\ LimitedByOwnScope
=============================================================================
