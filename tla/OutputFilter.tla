---------------------------- MODULE OutputFilter ----------------------------
(***************************************************************************)
(* What the pipeline does to the output of an action before it answers:    *)
(* the structural filter, the text filter, the budget, the compact text.   *)
(*                                                                         *)
(* A string is its length, null is Null; a line of text is its kind and    *)
(* how often it was repeated.  An output is text, a list under its wrapper *)
(* key, or one object; an item that is no object has its string as its     *)
(* only field, and `beside` is the string kept beside list, text or        *)
(* object.                                                                 *)
(* The size of an output grows with its items and its strings, as the      *)
(* length of its JSON does.                                                *)
(***************************************************************************)
EXTENDS Integers, Sequences, FiniteSets, SequencesExt, Selection

CONSTANTS
  Outputs,    \* what adapters return
  Configs,    \* the filters of the action and the runtime inputs of the call
  Floor,      \* no string is cut shorter than this
  Dots,       \* what the mark of a cut adds to a string
  Rounds      \* rounds of cutting

Null == -1

IsItem(item) ==
  /\ DOMAIN item = {"map", "fields"} /\ item.map \in BOOLEAN
  /\ IsFiniteSet(DOMAIN item.fields)
  /\ \A f \in DOMAIN item.fields : item.fields[f] \in Nat \union {Null}
IsLine(line) == DOMAIN line = {"line", "times", "size"} /\ line.size \in Nat
IsOutput(out) ==
  /\ DOMAIN out = {"kind", "items", "text", "beside", "failed"} /\ out.beside \in Nat
  /\ IsSequence(out.items) /\ \A i \in DOMAIN out.items : IsItem(out.items[i])
  /\ IsSequence(out.text) /\ \A i \in DOMAIN out.text : IsLine(out.text[i])

ASSUME FilterAssumption ==
  /\ {Floor, Dots, Rounds} \subseteq Nat \ {0}
  /\ \A o \in Outputs : IsOutput(o)
  /\ \A c \in Configs : {c.maxItems, c.maxLines, c.budget} \subseteq Nat

VARIABLES
  phase,      \* "filter", "text", "budget", "search", "cut", "compact", "done"
  original,   \* what the adapter returned, and whether it succeeded
  config,
  output,     \* the output as transformed so far
  base,       \* the output the budget was applied to
  lo, hi,     \* the binary search for the number of items that fit
  threshold,  \* strings longer than this are cut
  round

filterVars == <<phase, original, config, output, base, lo, hi, threshold, round>>

(***************************************************************************)
(* Sizes.                                                                  *)
(***************************************************************************)
\* A place for each unit of each value.
Total(f) == Cardinality(UNION {{x} \X (1..f[x]) : x \in DOMAIN f})
SizeOfValue(v) == IF v = Null THEN 1 ELSE v
SizeOfItem(item) == 1 + Total([f \in DOMAIN item.fields |-> 1 + SizeOfValue(item.fields[f])])
SizeOfText(text) == Total([i \in DOMAIN text |-> text[i].size])
SizeOf(out) ==
  1 + out.beside + Total([i \in DOMAIN out.items |-> SizeOfItem(out.items[i])]) + SizeOfText(out.text)

(***************************************************************************)
(* The structural filter.  A path that misses an item is left out of it;   *)
(* the filter fails when every path misses every object.                   *)
(***************************************************************************)
MaxItems(items, n) == IF n > 0 /\ Len(items) > n THEN SubSeq(items, 1, n) ELSE items

OnMaps(items, F(_)) ==
  [i \in DOMAIN items |-> IF items[i].map THEN [items[i] EXCEPT !.fields = F(@)] ELSE items[i]]

Keeping(fields, names) == [f \in DOMAIN fields \intersect names |-> fields[f]]
Project(items, c) ==
  LET ProjectItem(fields) == Keeping(fields, c.select)
  IN IF c.select = {} THEN items ELSE OnMaps(items, ProjectItem)
Exclude(items, c) ==
  LET ExcludeItem(fields) == Keeping(fields, DOMAIN fields \ c.exclude) IN OnMaps(items, ExcludeItem)
DropNulls(items, c) ==
  LET Drop(fields) == Keeping(fields, {f \in DOMAIN fields : fields[f] # Null})
  IN IF c.dropNulls THEN OnMaps(items, Drop) ELSE items

AllMiss(items, c) ==
  LET maps == {i \in DOMAIN items : items[i].map}
  IN c.select # {} /\ maps # {} /\ \A i \in maps : DOMAIN items[i].fields \intersect c.select = {}

\* One object is a list of one that MaxItems does not touch.
Limited(out, c) == IF out.kind = "list" THEN MaxItems(out.items, c.maxItems) ELSE out.items

Filtered(out, c) ==
  IF out.kind = "text" \/ AllMiss(Limited(out, c), c) THEN out
  ELSE [out EXCEPT !.items = DropNulls(Exclude(Project(Limited(out, c), c), c), c)]

(***************************************************************************)
(* The text filter: lines stripped, lines kept, runs of one line folded,   *)
(* then the first MaxLines.                                                *)
(***************************************************************************)
FoldRuns(lines) ==
  LET heads == {i \in DOMAIN lines : i = 1 \/ lines[i].line # lines[i - 1].line}
      first == Selected([i \in DOMAIN lines |-> i], heads)
      next(k) == IF k < Len(first) THEN first[k + 1] ELSE Len(lines) + 1
  IN [k \in DOMAIN first |-> [lines[first[k]] EXCEPT !.times = next(k) - first[k]]]

TextFiltered(out, c) ==
  LET stay == Selected(out.text, {l \in ToSet(out.text) :
                                    l.line \notin c.strip /\ (c.keep = {} \/ l.line \in c.keep)})
      folded == IF c.dedup THEN FoldRuns(stay) ELSE stay
  IN IF out.kind # "text" \/ ~c.textFilter THEN out
     ELSE [out EXCEPT !.text = MaxItems(folded, c.maxLines)]

(***************************************************************************)
(* The budget.                                                             *)
(***************************************************************************)
FirstItems(out, n) == [out EXCEPT !.items = SubSeq(out.items, 1, n)]

CutValue(v, t) == IF v > t + Dots THEN t + Dots ELSE v
\* The text is one string, its lines end with the cut.
CutText(text, t) ==
  IF SizeOfText(text) > t + Dots THEN <<[line |-> "cut", times |-> 1, size |-> t + Dots]>> ELSE text
CutItem(item, t) ==
  [item EXCEPT !.fields = [f \in DOMAIN item.fields |-> CutValue(item.fields[f], t)]]
CutStrings(out, t) ==
  [out EXCEPT !.items = [i \in DOMAIN out.items |-> CutItem(out.items[i], t)],
              !.text = CutText(out.text, t), !.beside = CutValue(out.beside, t)]

(***************************************************************************)
(* The stages.                                                             *)
(***************************************************************************)
FilterInit ==
  /\ original \in Outputs /\ config \in Configs
  /\ phase = "filter" /\ output = original /\ base = original
  /\ lo = 0 /\ hi = 0 /\ threshold = 0 /\ round = 0

Stay(names) == UNCHANGED <<original, config>> /\ UNCHANGED names
Searching == <<lo, hi>>
Cutting == <<threshold, round>>

\* A raw call and a failed one are not filtered; of a failure's output the
\* text is.
ApplyFilter ==
  /\ phase = "filter"
  /\ phase' = IF config.raw THEN "done" ELSE "text"
  /\ output' = IF config.raw \/ original.failed THEN output ELSE Filtered(output, config)
  /\ Stay(<<base, Searching, Cutting>>)

ApplyTextFilter ==
  /\ phase = "text"
  /\ phase' = IF original.failed THEN "done" ELSE "budget"
  /\ output' = TextFiltered(output, config)
  /\ Stay(<<base, Searching, Cutting>>)

StartCutting == threshold' = Max({config.budget \div 2, Floor}) /\ round' = 0

ApplyBudget ==
  /\ phase = "budget"
  /\ base' = output
  /\ IF config.budget = 0 \/ SizeOf(output) <= config.budget
     THEN phase' = "compact" /\ UNCHANGED <<Searching, Cutting>>
     ELSE IF output.kind = "list"
     THEN phase' = "search" /\ lo' = 0 /\ hi' = Len(output.items) /\ UNCHANGED Cutting
     ELSE phase' = "cut" /\ StartCutting /\ UNCHANGED Searching
  /\ Stay(output)

\* Mutant: a beginning of exactly the budget counts as too large.
SearchShort ==
  /\ phase = "search" /\ lo < hi
  /\ LET mid == (lo + hi + 1) \div 2
     IN IF SizeOf(FirstItems(base, mid)) < config.budget
        THEN lo' = mid /\ UNCHANGED hi ELSE hi' = mid - 1 /\ UNCHANGED lo
  /\ Stay(<<phase, output, base, Cutting>>)

Search ==
  /\ phase = "search" /\ lo < hi
  /\ LET mid == (lo + hi + 1) \div 2
     IN IF SizeOf(FirstItems(base, mid)) <= config.budget
        THEN lo' = mid /\ UNCHANGED hi ELSE hi' = mid - 1 /\ UNCHANGED lo
  /\ Stay(<<phase, output, base, Cutting>>)

Found ==
  /\ phase = "search" /\ lo >= hi
  /\ output' = FirstItems(base, lo)
  /\ IF SizeOf(output') <= config.budget
     THEN phase' = "compact" /\ UNCHANGED Cutting
     ELSE phase' = "cut" /\ StartCutting
  /\ Stay(<<base, Searching>>)

\* A round that cuts nothing halves the threshold.
Cut ==
  /\ phase = "cut"
  /\ output' = CutStrings(output, threshold)
  /\ round' = round + 1
  /\ threshold' = IF SizeOf(output') < SizeOf(output) THEN threshold ELSE threshold \div 2
  /\ phase' = IF SizeOf(output') <= config.budget \/ threshold' < Floor \/ round' = Rounds
              THEN "compact" ELSE "cut"
  /\ Stay(<<base, Searching>>)

\* The items become a summary of a line each, objects only.
ApplyCompactTemplate ==
  /\ phase = "compact"
  /\ phase' = "done"
  /\ output' = IF config.compact /\ output.kind = "list"
               THEN [output EXCEPT !.kind = "summary", !.items = Selected(@, {item \in ToSet(@) : item.map})]
               ELSE output
  /\ Stay(<<base, Searching, Cutting>>)

FilterNext ==
  \/ ApplyFilter \/ ApplyTextFilter \/ ApplyBudget \/ Search \/ Found \/ Cut
  \/ ApplyCompactTemplate

FilterSpec == FilterInit /\ [][FilterNext]_filterVars

FilterTypeOK ==
  /\ phase \in {"filter", "text", "budget", "search", "cut", "compact", "done"}
  /\ original \in Outputs /\ config \in Configs
  /\ lo \in 0..Len(base.items) /\ hi \in lo..Len(base.items)
  /\ threshold \in Nat /\ round \in 0..Rounds

(***************************************************************************)
(* A budget costs no more than it must: when it ends, the list is the      *)
(* longest beginning of itself that fits, whole; strings are cut only when *)
(* an empty list does not fit, and cutting never makes an output larger    *)
(* (ApplyBudget's binary search and its rounds).                           *)
(***************************************************************************)
BudgetKeepsTheMost ==
  /\ phase = "compact" => SizeOf(output) <= SizeOf(base)
  /\ phase = "compact" /\ base.kind = "list" =>
    LET n == Len(output.items)
        fits(k) == SizeOf(FirstItems(base, k)) <= config.budget
    IN \/ output = base /\ (config.budget = 0 \/ fits(Len(base.items)))
       \/ output = FirstItems(base, n) /\ fits(n) /\ \A k \in n + 1..Len(base.items) : ~fits(k)
       \/ n = 0 /\ ~fits(0)
=============================================================================
