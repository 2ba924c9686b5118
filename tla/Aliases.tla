------------------------------- MODULE Aliases -------------------------------
(***************************************************************************)
(* Short names: a service alias stands for a service in `kimbap call`, a   *)
(* command alias for an action, run through a link named for it that       *)
(* points to the kimbap binary.  Both are entries of the configuration     *)
(* file, rewritten whole at each change.  One command runs at a time; any  *)
(* change to a file may fail, and a command may be killed between two.     *)
(*                                                                         *)
(* One directory of the search path is modelled, the first a link can be   *)
(* made in.  A name found there is a link to this binary ("kimbap"), a     *)
(* link to another kimbap binary ("stale"), or not kimbap's ("other").     *)
(***************************************************************************)
EXTENDS Naturals, FiniteSets, SequencesExt, Selection

CONSTANTS
  ShortNames, \* aliases; none is the name of a built-in command
  Catalog     \* by service, what its manifest says: the aliases it suggests, in
              \* order, and for each action its names and whether they are generated

\* Manifests list short names.
ASSUME CatalogAssumption ==
  \A s \in DOMAIN Catalog :
    /\ Catalog[s].suggested \in Seq(ShortNames) /\ IsSequence(Catalog[s].actions)
    /\ \A a \in DOMAIN Catalog[s].actions : Catalog[s].actions[a].names \in Seq(ShortNames)

VARIABLES
  aliases,        \* the service aliases of the configuration file
  commandAliases, \* its command aliases
  links,          \* what each name is on the search path
  activation,     \* services: "absent", "disabled", "enabled"
  job             \* the command running

aliasVars == <<aliases, commandAliases, links, activation, job>>

Files ==
  [aliases |-> aliases, commands |-> commandAliases, links |-> links, state |-> activation]

\* inverse: what would take back the changes made so far.  failed: the change
\* that failed.  issues: so did one of those that were to take it back.
NoJob == [kind |-> "none", service |-> "none", todo |-> <<>>, inverse |-> <<>>, failed |-> "none",
         issues |-> FALSE, before |-> << >>]

Edit(what, name, to) == [what |-> what, name |-> name, to |-> to]
Targets == UNION {{s} \X DOMAIN Catalog[s].actions : s \in DOMAIN Catalog}

AliasesOf(s, f) == SetToSeq({n \in DOMAIN f.aliases : f.aliases[n] = s})
CommandsOf(s, f) == SetToSeq({n \in DOMAIN f.commands : f.commands[n][1] = s})

\* The operations what1, what2, ... for each of the commands of s in turn.
ForCommands(s, f, whats) ==
  FlattenSeq([i \in DOMAIN CommandsOf(s, f) |->
    [j \in DOMAIN whats |-> Edit(whats[j], CommandsOf(s, f)[i], f.commands[CommandsOf(s, f)[i]])]])
ForAliases(s, f, what) == [i \in DOMAIN AliasesOf(s, f) |-> Edit(what, AliasesOf(s, f)[i], s)]

AliasInit ==
  /\ aliases = << >> /\ commandAliases = << >> /\ job = NoJob
  /\ links \in [ShortNames -> {"none", "stale", "other"}]
  /\ activation = [s \in DOMAIN Catalog |-> "absent"]

(***************************************************************************)
(* The commands.                                                           *)
(***************************************************************************)
Undertake(kind, s, todo) ==
  /\ job = NoJob
  /\ job' = [NoJob EXCEPT !.kind = kind, !.service = s, !.todo = todo,
                         !.before = IF kind = "withdraw" THEN Files ELSE << >>]
  /\ UNCHANGED <<aliases, commandAliases, links, activation>>

Installed(n) == n \in DOMAIN Catalog /\ activation[n] # "absent"

SetService(n, s) ==
  /\ n # s /\ ~Installed(n) /\ Installed(s)
  /\ s \notin DOMAIN aliases /\ n \notin DOMAIN commandAliases
  /\ Undertake("set", s, <<Edit("alias", n, s)>>)

Conflicts(n) == links[n] = "other"
Callable(target) == activation[target[1]] = "enabled"

SetAction(n, target) ==
  /\ ~Installed(n) /\ Callable(target)
  /\ n \notin DOMAIN aliases /\ ~Conflicts(n)
  /\ Undertake("set", target[1], <<Edit("link", n, target), Edit("command", n, target)>>)

RemoveAlias(n) ==
  /\ n \in DOMAIN aliases \union DOMAIN commandAliases
  /\ Undertake("remove", "none",
       (IF n \in DOMAIN aliases THEN <<Edit("unalias", n, aliases[n])>> ELSE <<>>)
       \o (IF n \in DOMAIN commandAliases
           THEN [i \in 1..2 |-> Edit(<<"uncommand", "unlink">>[i], n, commandAliases[n])] ELSE <<>>))

\* The short names first, then the service.
Withdraw(s, to) ==
  /\ Installed(s)
  /\ Undertake("withdraw", s, ForAliases(s, Files, "unalias")
                          \o ForCommands(s, Files, <<"uncommand", "unlink">>)
                          \o <<Edit("service", s, to)>>)

Disable(s) == Withdraw(s, "disabled")
RemoveService(s) == Withdraw(s, "absent")

\* The first suggestion that is neither a service nor a service alias.
AutoAlias(s) ==
  LET free == {n \in ShortNames : n # s /\ ~Installed(n) /\ n \notin DOMAIN aliases}
      usable == Selected(Catalog[s].suggested, free)
  IN IF AliasesOf(s, Files) # <<>> \/ usable = <<>> THEN <<>>
     ELSE <<Edit("alias", usable[1], s)>>

Candidates(s) ==
  FlattenSeq([a \in DOMAIN Catalog[s].actions |->
    [i \in DOMAIN Catalog[s].actions[a].names |->
       Edit("shortcut", Catalog[s].actions[a].names[i], <<s, a>>)]])

\* The service, and once it is enabled its shortcuts.
Activate(s, to) ==
  Undertake("activate", s,
    <<Edit("service", s, to)>>
    \o (IF to = "enabled" THEN AutoAlias(s) \o Candidates(s) \o <<Edit("settle", s, s)>> ELSE <<>>))

Install(s) == \E to \in {"enabled", "disabled"} : Activate(s, to)
Enable(s) == Installed(s) /\ Activate(s, "enabled")
Update(s) == Installed(s) /\ Activate(s, activation[s])

(***************************************************************************)
(* One change to a file.                                                   *)
(***************************************************************************)
change == Head(job.todo)
later == Tail(job.todo)

Changing(what) == job.todo # <<>> /\ change.what = what

\* An action whose names are generated takes the first that works.
EntryFollows == later # <<>> /\ Head(later).what = "command"
Remaining ==
  LET others == {o \in ToSet(later) : ~(o.what = "shortcut" /\ o.to = change.to)}
  IN IF /\ job.kind = "activate" /\ job.failed = "none"
        /\ change.what \in {"command", "link"} /\ ~EntryFollows
        /\ Catalog[job.service].actions[change.to[2]].generated
     THEN Selected(later, others) ELSE later

Made(inverse) ==
  job' = [job EXCEPT !.todo = Remaining,
                     !.inverse = IF job.failed # "none" \/ \E i \in DOMAIN @ : <<@[i]>> = inverse
                                 THEN @ ELSE @ \o inverse]

Upserted(m, o) ==
  [n \in DOMAIN m \union {o.name} |-> IF n = o.name THEN o.to ELSE m[n]]
Dropped(m, o) == [n \in DOMAIN m \ {o.name} |-> m[n]]

SetAlias ==
  /\ Changing("alias")
  /\ aliases' = Upserted(aliases, change)
  /\ Made(<<>>) /\ UNCHANGED <<commandAliases, links, activation>>

DropAlias ==
  /\ Changing("unalias")
  /\ aliases' = Dropped(aliases, change)
  /\ Made(<<Edit("alias", change.name, change.to)>>)
  /\ UNCHANGED <<commandAliases, links, activation>>

SetCommand ==
  /\ Changing("command")
  /\ commandAliases' = Upserted(commandAliases, change)
  /\ Made(<<Edit("unlink", change.name, change.to)>>)
  /\ UNCHANGED <<aliases, links, activation>>

DropCommand ==
  /\ Changing("uncommand")
  /\ commandAliases' = Dropped(commandAliases, change)
  /\ Made(<<Edit("command", change.name, change.to)>>)
  /\ UNCHANGED <<aliases, links, activation>>

MakeLink ==
  /\ Changing("link") /\ ~Conflicts(change.name)
  /\ links' = [links EXCEPT ![change.name] = "kimbap"]
  /\ Made(IF links[change.name] = "kimbap" THEN <<>>
          ELSE <<Edit("unlink", change.name, change.to)>>)
  /\ UNCHANGED <<aliases, commandAliases, activation>>

DropLink ==
  /\ Changing("unlink")
  /\ links' = [links EXCEPT ![change.name] = IF @ = "other" THEN @ ELSE "none"]
  /\ Made(IF links' = links THEN <<>> ELSE <<Edit("link", change.name, change.to)>>)
  /\ UNCHANGED <<aliases, commandAliases, activation>>

PutService ==
  /\ Changing("service")
  /\ activation' = [activation EXCEPT ![change.name] = change.to]
  /\ Made(<<>>) /\ UNCHANGED <<aliases, commandAliases, links>>

\* A name that means something else already is passed over.
Shortcut ==
  /\ Changing("shortcut")
  /\ LET n == change.name
         taken == Installed(n) \/ n \in DOMAIN aliases
                  \/ (n \in DOMAIN commandAliases /\ commandAliases[n] # change.to)
         entry == IF n \in DOMAIN commandAliases THEN <<>> ELSE <<Edit("command", n, change.to)>>
         tries == IF taken THEN <<>> ELSE <<Edit("link", n, change.to)>> \o entry
     IN job' = [job EXCEPT !.todo = tries \o later]
  /\ UNCHANGED <<aliases, commandAliases, links, activation>>

\* The action a name is expected to stand for, that of the last to suggest it:
\* the link of a shortcut just made for another is removed again.
Expected(s, n) ==
  LET suggests == {a \in DOMAIN Catalog[s].actions : n \in Range(Catalog[s].actions[a].names)}
  IN <<s, CHOOSE a \in suggests : \A b \in suggests : b <= a>>

Settle ==
  /\ Changing("settle")
  /\ LET rejected == {o \in ToSet(job.inverse) : o.to # Expected(job.service, o.name)}
     IN job' = [job EXCEPT !.todo = Selected(job.inverse, rejected)]
  /\ UNCHANGED <<aliases, commandAliases, links, activation>>

(***************************************************************************)
(* A change that fails, and what the command does then.                    *)
(***************************************************************************)
Inverses(what) == Selected(job.inverse, {o \in ToSet(job.inverse) : o.what = what})

Restore ==
  ForAliases(job.service, job.before, "alias")
  \o ForCommands(job.service, job.before, <<"command", "link">>)

\* Mutant: the service aliases taken away are not put back.
RecoveryOfCommands ==
  CASE job.kind = "withdraw" /\ change.what = "service" -> Restore
    [] job.kind = "withdraw" /\ change.what # "service" ->
         Inverses("command") \o Inverses("link")
    [] job.kind = "remove" /\ change.what = "unlink" -> Inverses("command")
    [] job.kind \in {"set", "activate"} /\ change.what = "command" -> Inverses("unlink")
    [] OTHER -> <<>>

Recovery ==
  CASE job.kind = "withdraw" /\ change.what = "service" -> Restore
    [] job.kind = "withdraw" /\ change.what # "service" ->
         Inverses("alias") \o Inverses("command") \o Inverses("link")
    [] job.kind = "remove" /\ change.what = "unlink" -> Inverses("command")
    [] job.kind \in {"set", "activate"} /\ change.what = "command" -> Inverses("unlink")
    [] OTHER -> <<>>

\* Setting shortcuts up, a failure is a warning and the next name is tried,
\* unless what failed is the entry of a command.
Skips == job.kind = "activate" /\ change.what \in {"alias", "link", "unlink"}

\* Restoring, a command that could not be gets no link.
LinkFollows == job.failed = "service" /\ change.what = "command" /\ later # <<>>

EntryGoesToo == Skips /\ job.failed = "none" /\ change.what = "link" /\ EntryFollows

Following == IF LinkFollows \/ EntryGoesToo THEN Tail(later) ELSE later

ChangeFails ==
  /\ job.todo # <<>> /\ change.what \notin {"shortcut", "settle"}
  /\ job' = IF job.failed # "none" THEN [job EXCEPT !.todo = Following, !.issues = TRUE]
            ELSE IF Skips THEN [job EXCEPT !.todo = Following]
            ELSE [job EXCEPT !.todo = Recovery, !.failed = change.what]
  /\ \/ UNCHANGED links
     \/ /\ change.what = "link" /\ links[change.name] = "stale"
        /\ links' = [links EXCEPT ![change.name] = "none"]
  /\ UNCHANGED <<aliases, commandAliases, activation>>

Ended == job # NoJob /\ job.todo = <<>>

\* The command returns, or is killed part way.
EndCommand ==
  job # NoJob /\ job' = NoJob /\ UNCHANGED <<aliases, commandAliases, links, activation>>

AliasNext ==
  \/ \E n \in ShortNames :
       \/ \E s \in DOMAIN Catalog : SetService(n, s)
       \/ \E target \in Targets : SetAction(n, target)
       \/ RemoveAlias(n)
  \/ \E s \in DOMAIN Catalog :
       Install(s) \/ Enable(s) \/ Update(s) \/ Disable(s) \/ RemoveService(s)
  \/ SetAlias \/ DropAlias \/ SetCommand \/ DropCommand \/ MakeLink \/ DropLink
  \/ PutService \/ Shortcut \/ Settle \/ ChangeFails \/ EndCommand

AliasSpec == AliasInit /\ [][AliasNext]_aliasVars

AliasTypeOK ==
  /\ DOMAIN aliases \union DOMAIN commandAliases \subseteq ShortNames
  /\ \A n \in DOMAIN aliases : aliases[n] \in DOMAIN Catalog
  /\ \A n \in DOMAIN commandAliases : commandAliases[n] \in Targets
  /\ links \in [ShortNames -> {"none", "stale", "kimbap", "other"}]

(***************************************************************************)
(* Disabling or removing a service is all or nothing for its short names:  *)
(* once it has succeeded none is left; when it failed and could take back  *)
(* what it did, every one is what it was, runnable if it was               *)
(* (withServiceAliasCleanupRollback, cleanupAliasesForService).            *)
(***************************************************************************)
WithdrawIsAllOrNothing ==
  (Ended /\ job.kind = "withdraw") =>
    IF job.failed = "none"
    THEN AliasesOf(job.service, Files) = <<>> /\ CommandsOf(job.service, Files) = <<>>
    ELSE ~job.issues =>
      /\ <<aliases, commandAliases>> = <<job.before.aliases, job.before.commands>>
      /\ activation = job.before.state
      /\ \A n \in DOMAIN commandAliases :
           job.before.links[n] \in {"kimbap", "stale"} => links[n] \in {"kimbap", "stale"}
=============================================================================
