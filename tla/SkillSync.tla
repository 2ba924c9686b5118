------------------------------ MODULE SkillSync ------------------------------
(***************************************************************************)
(* kimbap agents sync: the skill directories of one agent in one project,  *)
(* written by sync commands that may overlap, be killed, or find the       *)
(* services changed between two of their own listings.  A directory is     *)
(* kimbap's when it holds the marker file; one the user made does not, and *)
(* an old kimbap left directories without it, known from the sync state.   *)
(* A dry run changes nothing and is left out.                              *)
(***************************************************************************)
EXTENDS Naturals, FiniteSets

CONSTANTS Skills,    \* the services' names
          Syncs,     \* the commands
          MaxRuns,   \* bound: syncs begun
          MaxChanges \* bound: changes of the services and of the user's directories

ASSUME SyncAssumption == {MaxRuns, MaxChanges} \subseteq Nat

VARIABLES
  catalog,  \* each service: 0 when not enabled, else the version of its skill
  skill,    \* the directory under each service's name
  backup,   \* the directory with .old behind the name
  temp,     \* the temporary directory each command is filling
  litter,   \* temporary directories of killed commands, with or without a marker
  recorded, \* the services in the sync state
  meta,     \* whether kimbap/SKILL.md is there
  sync,     \* each command
  begun,    \* syncs begun so far
  changes

syncVars == <<catalog, skill, backup, temp, litter, recorded, meta, sync, begun, changes>>
dirVars == <<skill, backup, temp, litter>>

Versions == 0..2
\* What a directory holds: the marker, SKILL.md as a pack or as a single file and of
\* which version, and files that are not kimbap's.
NoDir == [there |-> FALSE, marker |-> FALSE, mode |-> "none", v |-> 0, extra |-> FALSE]
Bare == [NoDir EXCEPT !.there = TRUE]
Marked == [Bare EXCEPT !.marker = TRUE]
Pack(v) == [Marked EXCEPT !.mode = "pack", !.v = v]
Legacy == [Bare EXCEPT !.mode = "md", !.v = 1]
UserDir == [Bare EXCEPT !.extra = TRUE]

Resting == {"idle", "ok"}
AtRest == [pc |-> "idle", list |-> [s \in Skills |-> 0], asked |-> {}, pack |-> FALSE, full |-> FALSE,
           force |-> FALSE, todo |-> {}, now |-> {}, had |-> FALSE, mark |-> FALSE, entries |-> {},
           known |-> {}, errs |-> FALSE, alone |-> FALSE]

SyncInit ==
  /\ catalog \in [Skills -> {0, 1}]
  /\ skill \in [Skills -> {NoDir, UserDir, Legacy}]
  /\ backup = [s \in Skills |-> NoDir]
  /\ temp = [p \in Syncs |-> NoDir]
  /\ litter = {}
  /\ recorded \in SUBSET Skills
  /\ meta = FALSE
  /\ sync = [p \in Syncs |-> AtRest]
  /\ begun = 0
  /\ changes = 0

Enabled == {s \in Skills : catalog[s] # 0}
Listed(names) == [s \in Skills |-> IF s \in names THEN catalog[s] ELSE 0]
OnList(p) == {s \in Skills : sync[p].list[s] # 0}
\* What a command concluded before is not about what others do from now on.
Disturbed == [q \in Syncs |-> IF sync[q].pc \in Resting THEN AtRest
                              ELSE [sync[q] EXCEPT !.alone = FALSE]]
SyncAt(p, pc) == sync' = [sync EXCEPT ![p].pc = pc]
Service(p) == CHOOSE s \in Skills : sync[p].now = {s}

(***************************************************************************)
(* The services and the user.  The user is not typing while a sync runs.   *)
(***************************************************************************)
ChangeService(s, v) ==
  /\ changes < MaxChanges
  /\ v # catalog[s]
  /\ catalog' = [catalog EXCEPT ![s] = v]
  /\ changes' = changes + 1
  /\ sync' = Disturbed
  /\ UNCHANGED <<skill, backup, temp, litter, recorded, meta, begun>>

UserEdits(s) ==
  /\ changes < MaxChanges
  /\ \A p \in Syncs : sync[p].pc \in Resting
  /\ skill' = [skill EXCEPT ![s] =
                 CASE ~skill[s].there -> UserDir
                   [] OTHER -> [skill[s] EXCEPT !.marker = FALSE, !.extra = TRUE]]
  /\ changes' = changes + 1
  /\ sync' = Disturbed
  /\ UNCHANGED <<catalog, backup, temp, litter, recorded, meta, begun>>

(***************************************************************************)
(* The listings: the services by themselves, then their packs.             *)
(***************************************************************************)
BeginSync(p, asked, full, force) ==
  /\ sync[p].pc \in Resting
  /\ begun < MaxRuns
  /\ full => asked = Enabled
  /\ ~full => asked # {}
  /\ begun' = begun + 1
  /\ sync' = [Disturbed EXCEPT ![p] =
                [AtRest EXCEPT !.pc = "packs", !.asked = asked, !.list = Listed(asked), !.full = full,
                   !.force = force, !.alone = \A q \in Syncs \ {p} : sync[q].pc \in Resting]]
  /\ UNCHANGED <<catalog, recorded, meta, changes>> /\ UNCHANGED dirVars

\* An empty filter filters nothing.  The packs are used only when they are those
\* of exactly the services listed.
ListPacks(p) ==
  LET packs == Listed(IF sync[p].asked = {} THEN Skills ELSE sync[p].asked)
      used == OnList(p) # {} /\ {s \in Skills : packs[s] # 0} = OnList(p)
      list == IF used THEN packs ELSE sync[p].list
  IN /\ sync[p].pc = "packs"
     /\ sync' = [sync EXCEPT ![p].pc = "next", ![p].pack = used, ![p].list = list,
                             ![p].todo = OnList(p), ![p].known = recorded]
     /\ UNCHANGED <<catalog, recorded, meta, begun, changes>> /\ UNCHANGED dirVars

(***************************************************************************)
(* One service after the other.                                            *)
(***************************************************************************)
SyncOnly == UNCHANGED <<catalog, recorded, meta, begun, changes>>
NextService(p) ==
  /\ sync[p].pc = "next"
  /\ IF sync[p].todo = {} THEN SyncAt(p, IF sync[p].full THEN "entries" ELSE "meta")
     ELSE \E s \in sync[p].todo :
            sync' = [sync EXCEPT ![p].pc = "look", ![p].now = {s}, ![p].todo = @ \ {s},
                                 ![p].had = FALSE, ![p].mark = FALSE]
  /\ SyncOnly /\ UNCHANGED dirVars

\* isManagedSkillPackDir and isManagedLegacySkillDir: what is not there may be
\* made; what has no marker is kimbap's only if the sync state names it and there
\* is nothing else in it.
Managed(p, d) ==
  \/ ~d.there
  \/ d.marker
  \/ sync[p].now \subseteq sync[p].known /\ d.mode # "none" /\ ~d.extra

\* Mutant: a pack that is there, whatever its version, is not written again.
DiffersInKind(p, d) ==
  IF sync[p].pack THEN sync[p].force \/ d.mode # "pack" \/ ~d.marker
  ELSE sync[p].force \/ d.mode # "md"

\* packNeedsWrite; fileNeedsWrite of SKILL.md.
Differs(p, d) ==
  LET v == sync[p].list[Service(p)]
  IN IF sync[p].pack THEN sync[p].force \/ d # Pack(v)
     ELSE sync[p].force \/ d.mode # "md" \/ d.v # v

Look(p) ==
  LET d == skill[Service(p)]
      mark == ~sync[p].pack /\ (sync[p].force \/ ~d.marker)
  IN /\ sync[p].pc = "look"
     /\ sync' = [sync EXCEPT ![p].mark = mark,
                   ![p].pc = IF ~Managed(p, d) THEN "next"
                             ELSE IF Differs(p, d) THEN IF sync[p].pack THEN "temp" ELSE "skill_md"
                             ELSE IF mark THEN "marker" ELSE "next"]
     /\ SyncOnly /\ UNCHANGED dirVars

\* The service is reported as failed; the deferred call removes the temporary
\* directory.
FailService(p) ==
  /\ sync' = [sync EXCEPT ![p].pc = "next", ![p].errs = TRUE]
  /\ temp' = [temp EXCEPT ![p] = NoDir]

\* The legacy way: SKILL.md, then the marker, each renamed into place.
WriteSkillMD(p) ==
  LET s == Service(p)
  IN /\ sync[p].pc = "skill_md"
     /\ \/ /\ skill' = [skill EXCEPT ![s].there = TRUE, ![s].mode = "md", ![s].v = sync[p].list[s]]
           /\ SyncAt(p, IF sync[p].mark THEN "marker" ELSE "next")
           /\ UNCHANGED temp
        \/ FailService(p) /\ UNCHANGED skill
     /\ SyncOnly /\ UNCHANGED <<backup, litter>>

WriteMarker(p) ==
  LET s == Service(p)
  IN /\ sync[p].pc = "marker"
     /\ \/ /\ skill' = [skill EXCEPT ![s].there = TRUE, ![s].marker = TRUE]
           /\ SyncAt(p, "next")
           /\ UNCHANGED temp
        \/ FailService(p) /\ UNCHANGED skill
     /\ SyncOnly /\ UNCHANGED <<backup, litter>>

(***************************************************************************)
(* atomicWriteDir.  The files are written in the order of their names, the *)
(* marker first.  Another command's pruning may take the directories away. *)
(***************************************************************************)
MakeTemp(p) ==
  /\ sync[p].pc = "temp"
  /\ \/ temp' = [temp EXCEPT ![p] = Bare] /\ SyncAt(p, "fill")
     \/ FailService(p)
  /\ SyncOnly /\ UNCHANGED <<skill, backup, litter>>

FillTemp(p) ==
  /\ sync[p].pc = "fill"
  /\ \/ temp[p] = Bare /\ temp' = [temp EXCEPT ![p] = Marked] /\ UNCHANGED sync
     \/ /\ temp[p] = Marked
        /\ temp' = [temp EXCEPT ![p] = Pack(sync[p].list[Service(p)])]
        /\ SyncAt(p, "clear_old")
     \/ FailService(p)
  /\ SyncOnly /\ UNCHANGED <<skill, backup, litter>>

ClearOld(p) ==
  LET s == Service(p)
  IN /\ sync[p].pc = "clear_old"
     /\ IF skill[s].there THEN backup' = [backup EXCEPT ![s] = NoDir] /\ SyncAt(p, "move_old")
        ELSE SyncAt(p, "swap") /\ UNCHANGED backup
     /\ SyncOnly /\ UNCHANGED <<skill, temp, litter>>

MoveOld(p) ==
  LET s == Service(p)
  IN /\ sync[p].pc = "move_old"
     /\ IF skill[s].there /\ ~backup[s].there
        THEN /\ backup' = [backup EXCEPT ![s] = skill[s]]
             /\ skill' = [skill EXCEPT ![s] = NoDir]
             /\ sync' = [sync EXCEPT ![p].pc = "swap", ![p].had = TRUE]
             /\ UNCHANGED temp
        ELSE FailService(p) /\ UNCHANGED <<skill, backup>>
     /\ SyncOnly /\ UNCHANGED litter

SwapIn(p) ==
  LET s == Service(p)
  IN /\ sync[p].pc = "swap"
     /\ \/ /\ temp[p].there /\ ~skill[s].there
           /\ skill' = [skill EXCEPT ![s] = temp[p]]
           /\ temp' = [temp EXCEPT ![p] = NoDir]
           /\ SyncAt(p, IF sync[p].had THEN "drop_old" ELSE "next")
           /\ UNCHANGED backup
        \/ /\ sync[p].had /\ backup[s].there /\ ~skill[s].there
           /\ skill' = [skill EXCEPT ![s] = backup[s]]
           /\ backup' = [backup EXCEPT ![s] = NoDir]
           /\ FailService(p)
        \/ /\ ~(sync[p].had /\ backup[s].there) \/ skill[s].there
           /\ FailService(p)
           /\ UNCHANGED <<skill, backup>>
     /\ SyncOnly /\ UNCHANGED litter

DropOld(p) ==
  /\ sync[p].pc = "drop_old"
  /\ backup' = [backup EXCEPT ![Service(p)] = NoDir]
  /\ SyncAt(p, "next")
  /\ SyncOnly /\ UNCHANGED <<skill, temp, litter>>

(***************************************************************************)
(* pruneStaleServices: every marked directory that is not a listed service *)
(* goes, what is behind another command's backup or temporary name too.    *)
(***************************************************************************)
Entry(kind, of) == [kind |-> kind, of |-> of]

ListEntries(p) ==
  /\ sync[p].pc = "entries"
  /\ sync' = [sync EXCEPT ![p].pc = "prune",
                ![p].entries = {Entry("skill", s) : s \in {s \in Skills \ OnList(p) : skill[s].there}}
                         \union {Entry("backup", s) : s \in {s \in Skills : backup[s].there}}
                         \union {Entry("temp", q) : q \in {q \in Syncs : temp[q].there}}
                         \union {Entry("litter", x) : x \in litter}]
  /\ SyncOnly /\ UNCHANGED dirVars

RemoveEntry(p, e) ==
  /\ skill' = IF e.kind = "skill" /\ skill[e.of].marker THEN [skill EXCEPT ![e.of] = NoDir] ELSE skill
  /\ backup' = IF e.kind = "backup" /\ backup[e.of].marker THEN [backup EXCEPT ![e.of] = NoDir]
               ELSE backup
  /\ temp' = IF e.kind = "temp" /\ temp[e.of].marker THEN [temp EXCEPT ![e.of] = NoDir] ELSE temp
  /\ litter' = IF e.kind = "litter" /\ e.of = "marked" THEN litter \ {"marked"} ELSE litter

Prune(p) ==
  /\ sync[p].pc = "prune"
  /\ \/ /\ sync[p].entries = {}
        /\ SyncAt(p, "meta")
        /\ UNCHANGED dirVars
     \/ \E e \in sync[p].entries :
          /\ RemoveEntry(p, e)
          /\ sync' = [sync EXCEPT ![p].entries = @ \ {e}]
     \/ \E e \in sync[p].entries :
          /\ sync' = [sync EXCEPT ![p].entries = @ \ {e}, ![p].errs = TRUE]
          /\ UNCHANGED dirVars
  /\ SyncOnly

(***************************************************************************)
(* runAgentsSync after SyncServices: the meta skill of an agent without    *)
(* errors, and the sync state of a full sync without any.                  *)
(***************************************************************************)
Succeed(p) ==
  sync' = [sync EXCEPT ![p] = [AtRest EXCEPT !.pc = "ok", !.list = sync[p].list, !.pack = sync[p].pack,
                                 !.full = sync[p].full, !.alone = sync[p].alone]]

WriteMeta(p) ==
  /\ sync[p].pc = "meta"
  /\ \/ /\ ~sync[p].errs
        /\ meta' = TRUE
        /\ IF sync[p].full THEN SyncAt(p, "record") ELSE Succeed(p)
     \/ sync' = [sync EXCEPT ![p] = AtRest] /\ UNCHANGED meta
  /\ UNCHANGED <<catalog, recorded, begun, changes>> /\ UNCHANGED dirVars

\* A state that cannot be recorded is only a warning.
RecordSync(p) ==
  /\ sync[p].pc = "record"
  /\ recorded' \in {recorded, OnList(p)}
  /\ Succeed(p)
  /\ UNCHANGED <<catalog, meta, begun, changes>> /\ UNCHANGED dirVars

KillSync(p) ==
  /\ sync[p].pc \notin Resting
  /\ sync' = [sync EXCEPT ![p] = AtRest]
  /\ temp' = [temp EXCEPT ![p] = NoDir]
  /\ litter' = litter \union (IF ~temp[p].there THEN {}
                              ELSE {IF temp[p].marker THEN "marked" ELSE "bare"})
  /\ SyncOnly /\ UNCHANGED <<skill, backup>>

SyncStep(p) ==
  \/ \E asked \in SUBSET Skills, full, force \in BOOLEAN : BeginSync(p, asked, full, force)
  \/ ListPacks(p) \/ NextService(p) \/ Look(p)
  \/ WriteSkillMD(p) \/ WriteMarker(p)
  \/ MakeTemp(p) \/ FillTemp(p) \/ ClearOld(p) \/ MoveOld(p) \/ SwapIn(p) \/ DropOld(p)
  \/ ListEntries(p) \/ Prune(p) \/ WriteMeta(p) \/ RecordSync(p) \/ KillSync(p)

SyncNext ==
  \/ \E s \in Skills : UserEdits(s) \/ \E v \in Versions : ChangeService(s, v)
  \/ \E p \in Syncs : SyncStep(p)

SyncSpec == SyncInit /\ [][SyncNext]_syncVars

-----------------------------------------------------------------------------
Dirs == [there : BOOLEAN, marker : BOOLEAN, mode : {"none", "pack", "md"}, v : Versions,
         extra : BOOLEAN]

SyncTypeOK ==
  /\ catalog \in [Skills -> Versions]
  /\ skill \in [Skills -> Dirs] /\ backup \in [Skills -> Dirs] /\ temp \in [Syncs -> Dirs]
  /\ litter \subseteq {"marked", "bare"}
  /\ recorded \subseteq Skills
  /\ meta \in BOOLEAN
  /\ begun \in 0..MaxRuns /\ changes \in 0..MaxChanges
  /\ \A p \in Syncs : sync[p].asked \subseteq Skills /\ sync[p].list \in [Skills -> Versions]

\* What a sync that answered without an error has left, if nobody else worked on
\* the project since it began: every service it listed is there in the version
\* it listed, or in a directory that is not kimbap's; and after a full one nothing
\* else kimbap made is left, whatever earlier commands failed at, or were killed
\* in the middle of.
SyncHeals ==
  \A p \in Syncs : sync[p].pc = "ok" /\ sync[p].alone =>
    /\ meta
    /\ \A s \in OnList(p) :
         /\ skill[s].there
         /\ skill[s].marker => /\ skill[s].v = sync[p].list[s]
                               /\ skill[s].mode = IF sync[p].pack THEN "pack" ELSE "md"
    /\ sync[p].full => /\ \A s \in Skills : ~backup[s].marker
                       /\ \A s \in Skills \ OnList(p) : ~skill[s].marker
                       /\ "marked" \notin litter
=============================================================================
