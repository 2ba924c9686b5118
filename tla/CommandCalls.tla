----------------------------- MODULE CommandCalls -----------------------------
(***************************************************************************)
(* One call of the command adapter or of the AppleScript adapter: the      *)
(* checks before anything runs, the arguments, a child process whose       *)
(* output is kept up to a limit while it is written, the timeout, and what *)
(* the adapter makes of how the process ended.                             *)
(*                                                                         *)
(* The process is external: it writes to its two outputs in pieces, exits  *)
(* with a code of its own, or is killed when the context ends.  os/exec is *)
(* external too: Run returns how it ended, and the context's error only when   *)
(* the process exited with 0 after the context had ended.                  *)
(***************************************************************************)
EXTENDS Naturals, Sequences, FiniteSets, SequencesExt, Selection

CONSTANTS OutputLimit,  \* maxCommandOutputBytes
          MaxPrinted,   \* bound: bytes a process prints to its two outputs
          Actions,      \* the actions and the input each is called with
          ArgNames      \* the names of their arguments, sorted

VARIABLES
  action,  \* the action's adapter, chosen once
  step,    \* "check", "start", "run", "done"
  printed, \* bytes written to the output that is kept for the answer
  writer,  \* the limited writer of that output: bytes kept, truncated
  late,    \* the context has ended: by its deadline, by its caller or not
  ended,    \* how the process ended
  answer   \* the answer of the adapter

commandVars == <<action, step, printed, writer, late, ended, answer>>

(***************************************************************************)
(* The action and its input.                                               *)
(***************************************************************************)
Styles == {"flag", "boolean", "positional", "meta", "repo-positional", "repo-flag"}

\* A text of blanks or an empty list; any other; a text that names an owner and a
\* repository; and the two booleans.
Values == {"blank", "text", "slashed", "true", "false"}

\* A manifest's argument has a type that fits its style.
FitsStyle(style, value) ==
  CASE style = "boolean" -> value \in {"true", "false"}
    [] style \in {"meta", "repo-positional", "repo-flag"} -> value \notin {"true", "false"}
    [] OTHER -> TRUE

\* What the action of a manifest, or the registration it stands for, may lack.
Lacks == {"executable", "allowlist", "permission", "source", "command", "language",
          "approval_ref", "audit_ref", "time"}

ASSUME CommandAssumption ==
  /\ OutputLimit \in Nat \ {0} /\ MaxPrinted \in Nat
  /\ IsSequence(ArgNames) /\ IsInjective(ArgNames) /\ "null" \notin ToSet(ArgNames)
  /\ \A a \in Actions :
       /\ a.adapter \in {"command", "applescript"} /\ a.lacks \subseteq Lacks
       /\ IsSequence(a.order) /\ IsInjective(a.order) /\ ToSet(a.order) \subseteq ToSet(ArgNames)
       /\ DOMAIN a.input \subseteq ToSet(ArgNames) \cap DOMAIN a.style
       /\ \A n \in DOMAIN a.input :
            a.style[n] \in Styles /\ a.input[n] \in Values /\ FitsStyle(a.style[n], a.input[n])

CommandInit ==
  /\ action \in Actions
  /\ step = "check"
  /\ printed = 0
  /\ writer = [kept |-> 0, truncated |-> FALSE]
  /\ late = "no"
  /\ ended = "none"
  /\ answer = [status |-> 0, retry |-> FALSE]

InputNames == DOMAIN action.input

\* orderedCommandArgNames: the names the manifest orders, then the others sorted.
OrderedNames ==
  Selected(action.order, InputNames) \o Selected(ArgNames, InputNames \ ToSet(action.order))

\* isNonEmptyArgValue.
Given(n) == n \in InputNames /\ action.input[n] # "blank"

\* resolveRepositoryArgValue: a repository that names its owner is passed as it is,
\* another one after the owner, and an owner that is not in the input reads "null".
RepoValue(n) ==
  IF n # "repo" \/ action.input[n] = "slashed" THEN <<n>>
  ELSE IF "owner" \notin InputNames THEN <<"null", n>>
  ELSE Selected(<<"owner", n>>, {m \in InputNames : Given(m)})

\* An argument: the form it takes and the input values it is made of.
ArgOf(n) ==
  LET style == action.style[n]
  IN [form  |-> CASE style \in {"positional", "repo-positional"} -> "positional"
                  [] style = "boolean" -> "switch"
                  [] OTHER -> "flag",
      name  |-> n,
      value |-> IF style \in {"repo-positional", "repo-flag"} THEN RepoValue(n)
                ELSE IF style = "boolean" THEN <<>> ELSE <<n>>]

\* A switch is passed for a true boolean, what is meant for kimbap never.
Passed(n) ==
  /\ Given(n) /\ action.style[n] # "meta"
  /\ action.style[n] = "boolean" => action.input[n] = "true"

Positional == {n \in InputNames : ArgOf(n).form = "positional"}
PassedNames == Selected(OrderedNames, {n \in InputNames : Passed(n)})

ArgPairs ==
  LET names == Selected(PassedNames, Positional) \o Selected(PassedNames, InputNames \ Positional)
  IN [i \in DOMAIN names |-> ArgOf(names[i])]

(***************************************************************************)
(* The checks.  An AppleScript action has no allowlist: it runs its        *)
(* manifest's source, which needs both references, or a known command's,   *)
(* unless the service is registered by manifest only.                      *)
(***************************************************************************)
Conclude(status, retry) ==
  step' = "done" /\ answer' = [status |-> status, retry |-> retry]
ProcessSame == UNCHANGED <<printed, writer, ended>>

Wanting(things) == things \intersect action.lacks # {}

CheckedStatus ==
  IF action.adapter = "command" THEN
    IF Wanting({"executable"}) THEN 400
    ELSE IF Wanting({"allowlist"}) THEN 502
    ELSE IF Wanting({"permission"}) THEN 403 ELSE 200
  ELSE
    IF \/ Wanting({"language", "time"})
       \/ Wanting({"source"}) /\ (action.manifestOnly \/ Wanting({"command"}))
       \/ ~Wanting({"source"}) /\ Wanting({"approval_ref", "audit_ref"})
    THEN 400 ELSE 200

Check ==
  /\ step = "check"
  /\ IF CheckedStatus = 200 THEN step' = "start" /\ UNCHANGED answer
     ELSE Conclude(CheckedStatus, CheckedStatus = 502)
  /\ UNCHANGED <<action, late>> /\ ProcessSame

\* mapAppleScriptError: an error that is the context's has a status of its own;
\* an exit, that of a killed script too, has what its stderr says.
ScriptStatuses == {400, 403, 404, 409, 499, 500, 503, 504}

Failed(contextError) ==
  CASE action.adapter = "command" ->
         Conclude(IF late = "deadline" THEN 504 ELSE 502, late = "deadline")
    [] action.adapter = "applescript" /\ contextError ->
         Conclude(IF late = "deadline" THEN 504 ELSE 499, late = "deadline")
    [] OTHER -> \E s \in ScriptStatuses : Conclude(s, s \in {503, 504})

\* os/exec starts nothing once the context has ended.
StartProcess ==
  /\ step = "start"
  /\ \/ late = "no" /\ step' = "run" /\ UNCHANGED answer
     \/ Failed(late # "no")
  /\ UNCHANGED <<action, late>> /\ ProcessSame

(***************************************************************************)
(* The process.                                                            *)
(***************************************************************************)
\* Mutant: a write that fills the room exactly counts as too long.
KeepBytesShort(n) ==
  LET room == OutputLimit - writer.kept
  IN writer' = [kept |-> writer.kept + (IF n > room THEN room ELSE n),
                truncated |-> writer.truncated \/ n >= room]

\* limitedWriter.Write: what does not fit is dropped, and the writer told n.
KeepBytes(n) ==
  LET room == OutputLimit - writer.kept
  IN writer' = [kept |-> writer.kept + (IF n > room THEN room ELSE n),
                truncated |-> writer.truncated \/ n > room]

\* Output that is not merged goes to a writer of its own and is no part of this.
PrintBytes(n) ==
  /\ step = "run" /\ ended = "none"
  /\ printed + n <= MaxPrinted
  /\ printed' = printed + n
  /\ KeepBytes(n)
  /\ UNCHANGED <<action, step, late, ended, answer>>

Exits(how) ==
  /\ step = "run" /\ ended = "none"
  /\ how = "killed" => late # "no"
  /\ ended' = how
  /\ UNCHANGED <<action, step, printed, writer, late, answer>>

CommandContextEnds(why) ==
  /\ step # "done"
  /\ late = "no"
  /\ late' = why
  /\ UNCHANGED <<action, step, printed, writer, ended, answer>>

\* The codes a manifest lists count only for an exit that is an error, and only
\* while the context lives; 0 is a success whatever the list says.
Succeeded ==
  \/ ended = "zero" /\ late = "no"
  \/ /\ action.adapter = "command"
     /\ ended = "other" /\ "other" \in action.success
     /\ late = "no"

\* When the process exits with 0 as the context ends, Run may or may not have
\* noticed the context first.
Judge ==
  /\ step = "run" /\ ended # "none"
  /\ \/ /\ Succeeded \/ (ended = "zero" /\ late # "no")
        /\ IF writer.truncated THEN Conclude(502, FALSE) ELSE Conclude(200, FALSE)
     \/ ~Succeeded /\ Failed(ended = "zero")
  /\ UNCHANGED <<action, late>> /\ ProcessSame

CommandNext ==
  \/ Check \/ StartProcess \/ Judge
  \/ \E n \in 1..MaxPrinted : PrintBytes(n)
  \/ \E how \in {"zero", "other", "killed"} : Exits(how)
  \/ \E why \in {"deadline", "caller"} : CommandContextEnds(why)

CommandSpec == CommandInit /\ [][CommandNext]_commandVars
-----------------------------------------------------------------------------
CommandTypeOK ==
  /\ step \in {"check", "start", "run", "done"}
  /\ printed \in 0..MaxPrinted
  /\ writer \in [kept : 0..OutputLimit, truncated : BOOLEAN]
  /\ late \in {"no", "deadline", "caller"}
  /\ ended \in {"none", "killed", "zero", "other"}
  /\ answer \in [status : 0..599, retry : BOOLEAN]

\* The arguments are the given inputs, each once and with its own value, the
\* positional ones before the others, whatever order the manifest asks for; what
\* is blank, false or meant for kimbap itself is none.  Only a repository may
\* hold what the call did not give: "null" for an owner it does not name.
ArgumentsAreTheInput ==
  LET args == ArgPairs
      names == [i \in DOMAIN args |-> args[i].name]
      without == IF "owner" \in InputNames THEN {} ELSE {"null"}
  IN /\ ToSet(names) = {n \in InputNames : Passed(n)}
     /\ IsInjective(names)
     /\ \A i, j \in DOMAIN args :
          i < j /\ args[j].form = "positional" => args[i].form = "positional"
     /\ \A i \in DOMAIN args :
          /\ ToSet(args[i].value) \subseteq {n \in InputNames : Given(n)} \union without
          /\ args[i].form = "switch" \/ args[i].name \in ToSet(args[i].value)

Permitted ==
  IF action.adapter = "command" THEN ~Wanting({"executable", "allowlist", "permission"})
  ELSE IF Wanting({"source"}) THEN ~Wanting({"command"})
  ELSE ~Wanting({"approval_ref", "audit_ref"})

\* However the output is cut into writes, the adapter keeps all of it or knows
\* that it did not; and it reports a success only for a process that was
\* allowed to run, was given the call's own arguments, ended by itself with a
\* code that counts as success, and whose whole output it has.
SuccessIsWhole ==
  /\ writer.kept = IF printed > OutputLimit THEN OutputLimit ELSE printed
  /\ writer.truncated = (printed > OutputLimit)
  /\ answer.status = 200 =>
       /\ ended = "zero" \/ (ended = "other" /\ "other" \in action.success /\ late = "no")
       /\ writer.kept = printed
       /\ ArgumentsAreTheInput
       /\ Permitted
=============================================================================
