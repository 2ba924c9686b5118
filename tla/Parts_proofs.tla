---------------------------- MODULE Parts_proofs ----------------------------
(***************************************************************************)
(* The type invariant of the components that share no state with the       *)
(* others: each one's, on top of the invariant its other proofs rest on,   *)
(* and then that of the one that moves.                                    *)
(***************************************************************************)
EXTENDS MCParts, Actions_proofs, Processes_proofs

(***************************************************************************)
(* The HTTP adapter.  Its configuration is chosen once, and a paginated    *)
(* call asks for no more than the service has.                             *)
(***************************************************************************)
Outcomes == {"running", "ok", "cancelled", "credential", "too_many_items", "unreachable", "unusable",
             "status"}

HttpInv ==
  /\ CallInv /\ SweepInv
  /\ Paginated => call.items <= Items
  /\ over \in BOOLEAN /\ outcome \in Outcomes

LEMMA PaginatedItems ==
  ASSUME NEW c \in Calls, c.style # "none"
  PROVE  c.items \in 0..Items
<1>1. \A a \in AuthTypes, o \in BOOLEAN, x \in {"nil", "empty", "value"} :
        WithCredentials(a, o, x).style = "none"
  BY DEF WithCredentials, Plain
<1>2. \A n \in 0..MaxAttempts, l \in SUBSET {404, 429, 503} : WithRetries(n, l).style = "none"
  BY DEF WithRetries, Plain
<1>3. \A s \in {"cursor", "offset"}, m \in {0, 2}, p \in {0, 1, 3}, k \in 1..2, x \in 1..2,
         n \in 0..Items, b \in BOOLEAN : WithPages(s, m, p, k, x, n, b).items = n
  BY DEF WithPages, Plain
<1>4. ASSUME NEW a \in AuthTypes, NEW o \in BOOLEAN, NEW x \in {"nil", "empty", "value"},
             c = WithCredentials(a, o, x)
      PROVE  FALSE
  BY <1>1, <1>4
<1>5. ASSUME NEW n \in 0..MaxAttempts, NEW l \in SUBSET {404, 429, 503}, c = WithRetries(n, l)
      PROVE  FALSE
  BY <1>2, <1>5
<1>6. PICK s \in {"cursor", "offset"}, m \in {0, 2}, p \in {0, 1, 3}, k \in 1..2, x \in 1..2,
           n \in 0..Items, b \in BOOLEAN : c = WithPages(s, m, p, k, x, n, b)
  BY <1>4, <1>5 DEF Calls
<1> QED
  BY <1>3, <1>6

LEMMA HttpInvInit == HttpInit => HttpInv
<1> SUFFICES ASSUME HttpInit PROVE HttpInv
  OBVIOUS
<1>1. Paginated => call.items <= Items
  BY PaginatedItems, HttpAssumption DEF HttpInit, Paginated
<1> QED
  BY <1>1, CallInvInit, SweepInvInit DEF HttpInit, HttpInv, Outcomes

LEMMA HttpInvStep == ASSUME HttpInv, [HttpNext]_httpVars PROVE HttpInv'
<1>1. CallInv' /\ SweepInv'
  BY CallInvStep, SweepInvStep DEF HttpInv
<1>2. call' = call
  BY DEF HttpNext, httpVars, BeginPage, Pause, HttpContextEnds, Attempt
<1>3. over' \in BOOLEAN
  BY DEF HttpInv, HttpNext, httpVars, BeginPage, Pause, HttpContextEnds, Attempt
<1>4. outcome' \in Outcomes
  <2>1. CASE BeginPage
    BY <2>1 DEF BeginPage, Finish, HttpInv, Outcomes
  <2>2. CASE Pause \/ HttpContextEnds \/ UNCHANGED httpVars
    BY <2>2 DEF Pause, HttpContextEnds, httpVars, Finish, HttpInv, Outcomes
  <2>3. ASSUME NEW r, NEW acts, Attempt(r, acts) PROVE outcome' \in Outcomes
    BY <2>3 DEF Attempt, TakePage, Finish, HttpInv, Outcomes
  <2> QED
    BY <2>1, <2>2, <2>3 DEF HttpNext
<1> QED
  BY <1>1, <1>2, <1>3, <1>4 DEF HttpInv, Paginated

LEMMA HttpInvTyped == HttpInv => HttpTypeOK
<1> SUFFICES ASSUME HttpInv PROVE HttpTypeOK
  OBVIOUS
<1> PICK n \in Nat : n = Len(got)
  BY DEF HttpInv, SweepInv
<1>1. n <= Items
  BY HttpAssumption DEF HttpInv, SweepInv, CallRows
<1>2. got \in Seq(1..Items)
  <2>1. got = [i \in 1..n |-> i]
    BY DEF HttpInv, SweepInv, PagesAreOneSweep
  <2>2. \A i \in 1..n : i \in 1..Items
    BY <1>1, HttpAssumption
  <2> QED
    BY <2>1, <2>2
<1>3. page \in 0..HardMaxPages
  BY HttpAssumption DEF HttpInv, SweepInv, PagesAreOneSweep, PageLimit, DefaultPages, CallRows
<1>4. next \in 0..Items
  BY <1>1, HttpAssumption DEF HttpInv, SweepInv
<1> QED
  BY <1>2, <1>3, <1>4 DEF HttpInv, CallInv, Repeats, Results, Outcomes, HttpTypeOK

(***************************************************************************)
(* The command adapter.                                                    *)
(***************************************************************************)
ProcessInv == CommandInv /\ CommandTypeOK

LEMMA ProcessInvInit == CommandInit => ProcessInv
  BY CommandInvInit, CommandAssumption DEF CommandInit, ProcessInv, CommandTypeOK

\* An answer with a status there is.
HttpStatuses == 0..599
Flags == BOOLEAN

Answered == answer' \in [status : HttpStatuses, retry : Flags]

LEMMA Answers ==
  ASSUME NEW s \in HttpStatuses, NEW r \in Flags, Conclude(s, r)
  PROVE  Answered /\ step' = "done"
  BY DEF Conclude, Answered

LEMMA FailureAnswers ==
  ASSUME NEW e \in BOOLEAN, Failed(e)
  PROVE  Answered /\ step' = "done"
<1> DEFINE d == late = "deadline"
           t(s) == s \in {503, 504}
           Early == {504, 502, 499}
<1>1. d \in Flags /\ \A s : t(s) \in Flags
  BY DEF Flags
<1>2. \/ \E s \in Early : Conclude(s, d)
      \/ \E s \in ScriptStatuses : Conclude(s, t(s))
  BY DEF Failed
<1>3. Early \subseteq HttpStatuses /\ ScriptStatuses \subseteq HttpStatuses
  BY DEF ScriptStatuses, HttpStatuses
<1> HIDE DEF d, t, Early
<1>4. CASE \E s \in Early : Conclude(s, d)
  <2>1. PICK s \in HttpStatuses : Conclude(s, d)
    BY <1>3, <1>4, Zenon
  <2> QED
    BY <1>1, <2>1, Answers, Zenon
<1>5. CASE \E s \in ScriptStatuses : Conclude(s, t(s))
  <2>1. PICK s \in HttpStatuses : Conclude(s, t(s))
    BY <1>3, <1>5, Zenon
  <2> QED
    BY <1>1, <2>1, Answers, Zenon
<1> QED
  BY <1>2, <1>4, <1>5

LEMMA ProcessInvStep == ASSUME ProcessInv, [CommandNext]_commandVars PROVE ProcessInv'
<1>1. CommandInv'
  BY CommandInvStep DEF ProcessInv
<1>3. writer' \in [kept : 0..OutputLimit, truncated : BOOLEAN]
  BY <1>1, CommandAssumption DEF CommandInv
<1>2. ASSUME Check \/ StartProcess \/ Judge PROVE CommandTypeOK'
  <2>1. UNCHANGED <<late, printed, ended>>
    BY <1>2 DEF Check, StartProcess, Judge, ProcessSame
  <2>2. (step' \in {"start", "run"} /\ UNCHANGED answer) \/ (step' = "done" /\ Answered)
    <3>1. CASE Check
      <4>1. CASE CheckedStatus = 200
        BY <3>1, <4>1 DEF Check
      <4>2. CASE CheckedStatus # 200
        <5> DEFINE b == CheckedStatus = 502
        <5>1. Conclude(CheckedStatus, b)
          BY <3>1, <4>2 DEF Check
        <5>3. b \in Flags
          BY DEF Flags
        <5>2. CheckedStatus \in HttpStatuses
          BY DEF CheckedStatus, HttpStatuses
        <5> HIDE DEF b
        <5> QED
          BY <5>1, <5>2, <5>3, Answers, Zenon
      <4> QED
        BY <4>1, <4>2
    <3>2. CASE StartProcess
      <4>1. (late # "no") \in BOOLEAN
        OBVIOUS
      <4> QED
        BY <3>2, <4>1, FailureAnswers DEF StartProcess
    <3>3. CASE Judge
      <4> DEFINE failed == 502
                 good == 200
      <4>1. (ended = "zero") \in BOOLEAN /\ failed \in HttpStatuses /\ good \in HttpStatuses
        BY DEF HttpStatuses
      <4>2. Conclude(failed, FALSE) \/ Conclude(good, FALSE) \/ Failed(ended = "zero")
        BY <3>3 DEF Judge
      <4>3. CASE Failed(ended = "zero")
        BY <4>1, <4>3, FailureAnswers
      <4>4. FALSE \in Flags
        BY DEF Flags
      <4> HIDE DEF failed, good
      <4>5. CASE Conclude(failed, FALSE)
        BY <4>1, <4>4, <4>5, Answers, Zenon
      <4>6. CASE Conclude(good, FALSE)
        BY <4>1, <4>4, <4>6, Answers, Zenon
      <4> QED
        BY <4>2, <4>3, <4>5, <4>6
    <3> QED
      BY <1>2, <3>1, <3>2, <3>3
  <2>3. answer' \in [status : 0..599, retry : BOOLEAN] /\ step' \in {"start", "run", "done"}
    BY <2>2 DEF Answered, HttpStatuses, Flags, ProcessInv, CommandTypeOK
  <2> QED
    BY <1>3, <2>1, <2>3 DEF ProcessInv, CommandTypeOK
<1>7. ASSUME NEW n \in 1..MaxPrinted, PrintBytes(n) PROVE CommandTypeOK'
  BY <1>3, <1>7, CommandAssumption DEF PrintBytes, ProcessInv, CommandTypeOK
<1>8. ASSUME NEW how \in {"zero", "other", "killed"}, Exits(how) PROVE CommandTypeOK'
  BY <1>3, <1>8 DEF Exits, ProcessInv, CommandTypeOK
<1>9. ASSUME NEW why \in {"deadline", "caller"}, CommandContextEnds(why) PROVE CommandTypeOK'
  BY <1>3, <1>9 DEF CommandContextEnds, ProcessInv, CommandTypeOK
<1>10. ASSUME UNCHANGED commandVars PROVE CommandTypeOK'
  BY <1>3, <1>10 DEF commandVars, ProcessInv, CommandTypeOK
<1>11. CommandTypeOK'
  BY <1>2, <1>7, <1>8, <1>9, <1>10 DEF CommandNext
<1> QED
  BY <1>1, <1>11 DEF ProcessInv

(***************************************************************************)
(* The instruction file.                                                   *)
(***************************************************************************)
BlockInv ==
  /\ FileInv
  /\ global \in {"absent", "old", "current"}
  /\ edits \in 0..MaxEdits /\ commands \in 0..MaxCommands

LEMMA BlockInvInit == InstructionInit => BlockInv
  BY FileInvInit, EditsAssumption DEF InstructionInit, BlockInv

LEMMA BlockInvStep == ASSUME BlockInv, [InstructionNext]_fileVars PROVE BlockInv'
<1>1. FileInv'
  BY FileInvStep DEF BlockInv
<1>2. /\ global' \in {"absent", "old", "current"}
      /\ edits' \in 0..MaxEdits /\ commands' \in 0..MaxCommands
  BY EditsAssumption DEF BlockInv, InstructionNext, Setup, Teardown, Counted, UserSame, AddWord, Edited,
     DeletePiece, AddMarker, fileVars
<1> QED
  BY <1>1, <1>2 DEF BlockInv

\* The user's words in the file are those the user wrote.
LEMMA BlockInvTyped == BlockInv => InstructionTypeOK
<1> SUFFICES ASSUME BlockInv PROVE InstructionTypeOK
  OBVIOUS
<1>1. ToSet(words) = ToSet(file) \intersect ToSet(Words)
  <2>1. file \in Seq(Pieces) /\ words = Selected(file, ToSet(Words))
    BY DEF BlockInv, FileInv, UserWords
  <2> QED
    BY <2>1, SelectedIsSet
<1>2. ToSet(file) \subseteq Pieces
  BY DEF BlockInv, FileInv, ToSet
<1> QED
  BY <1>1, <1>2 DEF BlockInv, Pieces, BlockTexts, InstructionTypeOK

(***************************************************************************)
(* The import.  The service's credential is one the document defines.      *)
(***************************************************************************)
DocumentInv ==
  /\ ImportInv /\ ImportTypeOK
  /\ stage # "done" => defs = <<>>

LEMMA RootAuthTyped ==
  ASSUME RootAuth # "error"
  PROVE  RootAuth \in {"none"} \union (doc.schemes \ {"odd"})
  BY DEF RootAuth

LEMMA DocumentInvInit == ImportInit => DocumentInv
  BY ImportInvInit DEF ImportInit, ImportInv, DocumentInv, ImportTypeOK

LEMMA DocumentInvStep == ASSUME DocumentInv, [ImportNext]_importVars PROVE DocumentInv'
<1>1. ImportInv' /\ doc' = doc
  BY ImportInvStep DEF DocumentInv, ImportNext, ReadHead, TakeOperation, EndOperations,
     ValidateManifest, Convert, importVars
<1>2. auth' \in {"none"} \union (doc.schemes \ {"odd"})
  <2>1. CASE ReadHead
    BY <2>1, RootAuthTyped DEF ReadHead, Fail, DocumentInv, ImportTypeOK
  <2>2. CASE ~ReadHead
    BY <2>2 DEF DocumentInv, ImportTypeOK, ImportNext, TakeOperation, EndOperations,
       ValidateManifest, Convert, Fail, importVars
  <2> QED
    BY <2>1, <2>2
<1>3. (stage' # "done" => defs' = <<>>) /\ (defs' # <<>> => DOMAIN defs' = DOMAIN manifest')
  <2>1. CASE Convert
    BY <2>1 DEF Convert
  <2>2. CASE ReadHead \/ TakeOperation \/ EndOperations \/ ValidateManifest
    <3>1. stage # "done" /\ defs' = defs
      BY <2>2 DEF ReadHead, TakeOperation, EndOperations, ValidateManifest, Fail
    <3> QED
      BY <3>1 DEF DocumentInv
  <2>3. CASE UNCHANGED importVars
    BY <2>3 DEF importVars, DocumentInv, ImportTypeOK
  <2> QED
    BY <2>1, <2>2, <2>3 DEF ImportNext
<1> QED
  BY <1>1, <1>2, <1>3 DEF DocumentInv, ImportTypeOK, ImportInv

(***************************************************************************)
(* The output filter.  The search moves only while it runs, and there are  *)
(* rounds left while strings are cut.                                      *)
(***************************************************************************)
LimitsInv ==
  /\ BudgetInv /\ FilterTypeOK
  /\ Len(base.items) \in Nat
  /\ phase \in {"filter", "text", "budget"} => lo = 0 /\ hi = 0
  /\ phase = "cut" => round < Rounds

LEMMA LimitsInvInit == FilterInit => LimitsInv
<1> SUFFICES ASSUME FilterInit PROVE LimitsInv
  OBVIOUS
<1>1. IsOutput(base)
  BY FilterAssumption DEF FilterInit
<1>2. Len(base.items) \in Nat
  BY <1>1, SequenceFacts DEF IsOutput
<1> QED
  BY <1>2, BudgetInvInit, FilterAssumption DEF FilterInit, LimitsInv, FilterTypeOK

LEMMA LimitsInvStep == ASSUME LimitsInv, [FilterNext]_filterVars PROVE LimitsInv'
<1>1. BudgetInv'
  BY BudgetInvStep DEF LimitsInv
<1>2. CASE ApplyFilter \/ ApplyTextFilter \/ ApplyCompactTemplate \/ UNCHANGED filterVars
  <2>1. /\ UNCHANGED <<base, lo, hi, threshold, round>> /\ (phase' = "cut" => phase = "cut")
        /\ phase' \in {"filter", "text", "budget"} => phase \in {"filter", "text", "budget"}
    BY <1>2 DEF ApplyFilter, ApplyTextFilter, ApplyCompactTemplate, filterVars, Stay, Searching, Cutting
  <2> QED
    BY <1>1, <2>1 DEF LimitsInv, FilterTypeOK, BudgetInv
<1>3. CASE ApplyBudget
  <2>1. Len(base'.items) \in Nat
    <3>1. base' = output /\ IsOutput(output)
      BY <1>3 DEF ApplyBudget, LimitsInv, BudgetInv
    <3> QED
      BY <3>1, SequenceFacts DEF IsOutput
  <2>2. lo = 0 /\ hi = 0
    BY <1>3 DEF ApplyBudget, LimitsInv
  <2>3. /\ phase' \in {"compact", "search", "cut"} /\ base' = output
        /\ \/ UNCHANGED <<lo, hi>>
           \/ lo' = 0 /\ hi' = Len(output.items)
        /\ \/ phase' # "cut" /\ UNCHANGED <<threshold, round>>
           \/ StartCutting
    BY <1>3 DEF ApplyBudget, Searching, Cutting
  <2>4. StartCutting => threshold' \in Nat /\ round' = 0
    BY CuttingStarts DEF LimitsInv, StartCutting
  <2> QED
    BY <1>1, <2>1, <2>2, <2>3, <2>4, FilterAssumption DEF LimitsInv, FilterTypeOK, BudgetInv
<1>4. CASE Search
  BY <1>1, <1>4 DEF Search, Stay, Cutting, LimitsInv, FilterTypeOK, BudgetInv
<1>5. CASE Found
  <2>1. /\ UNCHANGED <<base, lo, hi>> /\ phase' \in {"compact", "cut"}
        /\ \/ phase' # "cut" /\ UNCHANGED <<threshold, round>>
           \/ StartCutting
    BY <1>5 DEF Found, Stay, Searching, Cutting
  <2>2. StartCutting => threshold' \in Nat /\ round' = 0
    BY CuttingStarts DEF LimitsInv, StartCutting
  <2> QED
    BY <1>1, <2>1, <2>2, FilterAssumption DEF LimitsInv, FilterTypeOK, BudgetInv
<1>6. CASE Cut
  <2>1. /\ UNCHANGED <<base, lo, hi>> /\ phase' \in {"compact", "cut"} /\ round < Rounds
        /\ round' = round + 1 /\ (phase' = "cut" => round' # Rounds)
        /\ threshold' = threshold \/ threshold' = threshold \div 2
    BY <1>6 DEF Cut, Stay, Searching, LimitsInv
  <2>2. threshold' \in Nat
    BY <2>1, HalfIsNumber DEF LimitsInv, FilterTypeOK
  <2> QED
    BY <1>1, <2>1, <2>2, FilterAssumption DEF LimitsInv, FilterTypeOK, BudgetInv
<1> QED
  BY <1>2, <1>3, <1>4, <1>5, <1>6 DEF FilterNext

(***************************************************************************)
(* The certificates.                                                       *)
(***************************************************************************)
Holders == Procs \union {Missing, HalfWritten}
CertRow == [pc : {"start", "look_for_key", "write_cert", "fill_cert", "write_key", "fill_key",
                  "load_cert", "load_key", "ready", "failed"},
            pair : [cert : Holders, key : Holders]]

PairsInv ==
  /\ CertsInv
  /\ {caCert, caKey} \subseteq Holders /\ proc \in [Procs -> CertRow]

LEMMA PairsInvInit == CertsInit => PairsInv
  BY CertsInvInit DEF CertsInit, PairsInv, CertRow, Holders, NoPair

\* A process that goes on, with the pair it holds or with another one.
LEMMA ProcsMove ==
  ASSUME proc \in [Procs -> CertRow], NEW p \in Procs, NEW to
  PROVE  /\ ProcAt(p, to) /\ (\E x \in CertRow : x.pc = to) => proc' \in [Procs -> CertRow]
         /\ \A pair : Hold(p, pair, to) /\ [pc |-> to, pair |-> pair] \in CertRow =>
                        proc' \in [Procs -> CertRow]
<1>1. ASSUME ProcAt(p, to), NEW x \in CertRow, x.pc = to PROVE proc' \in [Procs -> CertRow]
  <2>1. [proc[p] EXCEPT !.pc = to] \in CertRow
    <3>1. proc[p] \in CertRow
      OBVIOUS
    <3> QED
      BY <1>1, <3>1 DEF CertRow
  <2>2. proc' = [proc EXCEPT ![p] = [proc[p] EXCEPT !.pc = to]]
    BY <1>1 DEF ProcAt
  <2> QED
    BY <2>1, <2>2
<1>2. ASSUME NEW pair, Hold(p, pair, to), [pc |-> to, pair |-> pair] \in CertRow
      PROVE  proc' \in [Procs -> CertRow]
  BY <1>2 DEF Hold
<1> QED
  BY <1>1, <1>2

LEMMA PairsInvStep == ASSUME PairsInv, [CertsNext]_certVars PROVE PairsInv'
<1>1. CertsInv'
  BY CertsInvStep DEF PairsInv
<1> DEFINE at == {"start", "look_for_key", "write_cert", "fill_cert", "write_key", "fill_key",
                  "load_cert", "load_key", "ready", "failed"}
<1>2. \A to \in at : \A c, k \in Holders :
        /\ [pc |-> to, pair |-> [cert |-> c, key |-> k]] \in CertRow
        /\ \E x \in CertRow : x.pc = to
  <2>1. ASSUME NEW to \in at, NEW c \in Holders, NEW k \in Holders
        PROVE  [pc |-> to, pair |-> [cert |-> c, key |-> k]] \in CertRow
    BY DEF CertRow
  <2>2. ASSUME NEW to \in at, NEW c \in Holders, NEW k \in Holders PROVE \E x \in CertRow : x.pc = to
    <3>1. [pc |-> to, pair |-> [cert |-> c, key |-> k]].pc = to
      OBVIOUS
    <3> QED
      BY <2>1, <3>1
  <2> QED
    BY <2>1, <2>2
<1>3. Missing \in Holders /\ HalfWritten \in Holders /\ Procs \subseteq Holders
  BY DEF Holders
<1>4. ASSUME NEW p \in Procs,
             LookForFiles(p) \/ LookForKey(p) \/ WriteCACert(p) \/ WriteCAKey(p)
             \/ LoadCACert(p) \/ LoadCAKey(p) \/ GiveUp(p)
      PROVE  {caCert', caKey'} \subseteq Holders /\ proc' \in [Procs -> CertRow]
  <2>1. /\ {caCert', caKey'} \subseteq Holders
        /\ \/ \E to \in at : ProcAt(p, to)
           \/ \E to \in at, c, k \in Holders : Hold(p, [cert |-> c, key |-> k], to)
    <3>1. proc[p].pair.cert \in Holders /\ caCert \in Holders /\ caKey \in Holders
      BY DEF PairsInv, CertRow
    <3>2. CASE LookForFiles(p) \/ LookForKey(p) \/ WriteCACert(p)
      BY <1>3, <3>1, <3>2 DEF LookForFiles, LookForKey, WriteCACert
    <3>3. CASE WriteCAKey(p) \/ LoadCACert(p) \/ GiveUp(p)
      BY <1>3, <3>1, <3>3 DEF WriteCAKey, LoadCACert, GiveUp, NoPair
    <3>4. CASE LoadCAKey(p)
      BY <1>3, <3>1, <3>4 DEF LoadCAKey, NoPair
    <3> QED
      BY <1>4, <3>2, <3>3, <3>4
  <2>2. ASSUME NEW to \in at, ProcAt(p, to) PROVE proc' \in [Procs -> CertRow]
    BY <1>2, <1>3, <2>2, ProcsMove DEF PairsInv
  <2>3. ASSUME NEW to \in at, NEW c \in Holders, NEW k \in Holders, Hold(p, [cert |-> c, key |-> k], to)
        PROVE  proc' \in [Procs -> CertRow]
    BY <1>2, <2>3, ProcsMove DEF PairsInv
  <2> QED
    BY <2>1, <2>2, <2>3
<1>5. ASSUME UNCHANGED <<caCert, caKey, proc>>
      PROVE  {caCert', caKey'} \subseteq Holders /\ proc' \in [Procs -> CertRow]
  BY <1>5 DEF PairsInv
<1> QED
  BY <1>1, <1>4, <1>5 DEF PairsInv, CertsNext, certVars, GenerateHostCert, LookUp, FilesSame

LEMMA PairsInvTyped == PairsInv => CertsTypeOK
<1> SUFFICES ASSUME PairsInv PROVE CertsTypeOK
  OBVIOUS
<1>1. ToSet(order) \subseteq Hosts /\ certs = ToSet(order)
  BY DEF PairsInv, CertsInv, CacheIsItsQueue, ToSet
<1> QED
  BY <1>1 DEF PairsInv, CertsInv, CertRow, Holders, CertsTypeOK

(***************************************************************************)
(* The sync of the agents' skills.                                         *)
(***************************************************************************)
RowsListed == \A p \in Syncs : sync[p].asked \subseteq Skills /\ sync[p].list \in [Skills -> Versions]
DirsTyped == skill \in [Skills -> Dirs] /\ backup \in [Skills -> Dirs] /\ temp \in [Syncs -> Dirs]

SkillsInv == SyncInv /\ SyncTypeOK

LEMMA SomeDirs ==
  /\ {NoDir, Bare, Marked, Legacy, UserDir} \subseteq Dirs
  /\ \A v \in Versions : Pack(v) \in Dirs
  /\ \A d \in Dirs : /\ [d EXCEPT !.there = TRUE, !.marker = TRUE] \in Dirs
                     /\ [d EXCEPT !.marker = FALSE, !.extra = TRUE] \in Dirs
                     /\ \A v \in Versions : [d EXCEPT !.there = TRUE, !.mode = "md", !.v = v] \in Dirs
<1>1. NoDir \in Dirs /\ Bare \in Dirs /\ Marked \in Dirs /\ Legacy \in Dirs /\ UserDir \in Dirs
  <2>1. NoDir \in Dirs
    BY DEF Dirs, Versions, NoDir
  <2>2. Bare \in Dirs
    BY <2>1 DEF Dirs, Bare
  <2>3. Marked \in Dirs /\ UserDir \in Dirs
    BY <2>2 DEF Dirs, Marked, UserDir
  <2>4. 1 \in Versions
    BY DEF Versions
  <2>5. Legacy \in Dirs
    BY <2>2, <2>4 DEF Dirs, Legacy
  <2> QED
    BY <2>1, <2>2, <2>3, <2>5
<1>2. \A v \in Versions : Pack(v) \in Dirs
  BY DEF Dirs, Versions, NoDir, Bare, Marked, Pack
<1>3. ASSUME NEW d \in Dirs
      PROVE  /\ [d EXCEPT !.there = TRUE, !.marker = TRUE] \in Dirs
             /\ [d EXCEPT !.marker = FALSE, !.extra = TRUE] \in Dirs
             /\ \A v \in Versions : [d EXCEPT !.there = TRUE, !.mode = "md", !.v = v] \in Dirs
  BY DEF Dirs
<1> QED
  BY <1>1, <1>2, <1>3

LEMMA RestListed == AtRest.asked = {} /\ AtRest.list \in [Skills -> Versions]
  BY DEF AtRest, Versions

LEMMA SkillsInvInit == SyncInit => SkillsInv
<1> SUFFICES ASSUME SyncInit PROVE SkillsInv
  OBVIOUS
<1>1. RowsListed
  BY RestListed DEF SyncInit, RowsListed
<1>2. DirsTyped
  BY SomeDirs DEF SyncInit, DirsTyped
<1>3. catalog \in [Skills -> Versions] /\ recorded \subseteq Skills /\ litter = {} /\ meta = FALSE
  BY DEF SyncInit, Versions
<1>4. begun \in 0..MaxRuns /\ changes \in 0..MaxChanges
  BY SyncAssumption DEF SyncInit
<1> QED
  BY <1>1, <1>2, <1>3, <1>4, SyncInvInit DEF SkillsInv, SyncTypeOK, RowsListed, DirsTyped

LEMMA RowReplaced ==
  ASSUME SyncInv, RowsListed, NEW p \in Syncs, NEW r, sync' = [sync EXCEPT ![p] = r],
         r.asked \subseteq Skills, r.list \in [Skills -> Versions]
  PROVE  RowsListed'
<1>1. DOMAIN sync = Syncs
  BY DEF SyncInv, Shapes
<1> QED
  BY <1>1 DEF RowsListed

\* What a command was asked for, and what it listed, stays while it works on it.
LEMMA RowGoesOn ==
  ASSUME SyncInv, RowsListed, NEW p \in Syncs
  PROVE  /\ \A c : SyncAt(p, c) => RowsListed'
         /\ FailService(p) => RowsListed'
         /\ Succeed(p) => RowsListed'
         /\ sync' = [sync EXCEPT ![p] = AtRest] => RowsListed'
<1>0. /\ DOMAIN sync = Syncs /\ DOMAIN sync[p] = SyncFields
      /\ sync[p].asked \subseteq Skills /\ sync[p].list \in [Skills -> Versions]
  BY DEF SyncInv, Shapes, Placed, RowsListed
<1>1. ASSUME NEW c, SyncAt(p, c) PROVE RowsListed'
  <2> DEFINE r == [sync[p] EXCEPT !.pc = c]
  <2>1. sync' = [sync EXCEPT ![p] = r]
    BY <1>0, <1>1 DEF SyncAt
  <2>2. r.asked = sync[p].asked /\ r.list = sync[p].list
    BY <1>0 DEF SyncFields
  <2> HIDE DEF r
  <2> QED
    BY <1>0, <2>1, <2>2, RowReplaced
<1>2. ASSUME FailService(p) PROVE RowsListed'
  <2> DEFINE r == [sync[p] EXCEPT !.pc = "next", !.errs = TRUE]
  <2>1. sync' = [sync EXCEPT ![p] = r]
    BY <1>0, <1>2 DEF FailService
  <2>2. r.asked = sync[p].asked /\ r.list = sync[p].list
    BY <1>0 DEF SyncFields
  <2> HIDE DEF r
  <2> QED
    BY <1>0, <2>1, <2>2, RowReplaced
<1>3. ASSUME Succeed(p) PROVE RowsListed'
  <2> DEFINE r == [AtRest EXCEPT !.pc = "ok", !.list = sync[p].list, !.pack = sync[p].pack,
                                 !.full = sync[p].full, !.alone = sync[p].alone]
  <2>1. sync' = [sync EXCEPT ![p] = r]
    BY <1>3 DEF Succeed
  <2>2. r.asked = {} /\ r.list = sync[p].list
    BY RestFields, RestListed DEF SyncFields
  <2> HIDE DEF r
  <2> QED
    BY <1>0, <2>1, <2>2, RowReplaced
<1>4. ASSUME sync' = [sync EXCEPT ![p] = AtRest] PROVE RowsListed'
  BY <1>4, RestListed, RowReplaced
<1> QED
  BY <1>1, <1>2, <1>3, <1>4

LEMMA RowsDisturbed == ASSUME SyncInv, RowsListed, sync' = Disturbed PROVE RowsListed'
<1> SUFFICES ASSUME NEW q \in Syncs
             PROVE  Disturbed[q].asked \subseteq Skills /\ Disturbed[q].list \in [Skills -> Versions]
  BY DEF RowsListed
<1>1. CASE sync[q].pc \in Resting
  BY <1>1, RestListed DEF Disturbed
<1>2. CASE sync[q].pc \notin Resting
  <2>1. Disturbed[q] = [sync[q] EXCEPT !.alone = FALSE]
    BY <1>2 DEF Disturbed
  <2>2. DOMAIN sync[q] = SyncFields
    BY DEF SyncInv, Placed
  <2>3. Disturbed[q].asked = sync[q].asked /\ Disturbed[q].list = sync[q].list
    BY <2>1, <2>2 DEF SyncFields
  <2> QED
    BY <2>3 DEF RowsListed
<1> QED
  BY <1>1, <1>2

LEMMA CatalogListed ==
  ASSUME catalog \in [Skills -> Versions], NEW chosen
  PROVE  Listed(chosen) \in [Skills -> Versions]
<1>1. \A s \in Skills : (IF s \in chosen THEN catalog[s] ELSE 0) \in Versions
  BY DEF Versions
<1> QED
  BY <1>1 DEF Listed

LEMMA RowsSteps ==
  ASSUME SyncInv, RowsListed, catalog \in [Skills -> Versions], NEW p \in Syncs, SyncStep(p)
  PROVE  RowsListed'
<1>0. /\ DOMAIN sync = Syncs /\ DOMAIN sync[p] = SyncFields
      /\ sync[p].asked \subseteq Skills /\ sync[p].list \in [Skills -> Versions]
  BY DEF SyncInv, Shapes, Placed, RowsListed
<1>1. ASSUME NEW names \in SUBSET Skills, NEW full \in BOOLEAN, NEW force \in BOOLEAN,
             BeginSync(p, names, full, force)
      PROVE  RowsListed'
  <2> DEFINE free == \A q \in Syncs \ {p} : sync[q].pc \in Resting
             r == [AtRest EXCEPT !.pc = "packs", !.asked = names, !.list = Listed(names), !.full = full,
                     !.force = force, !.alone = free]
  <2>1. sync' = [Disturbed EXCEPT ![p] = r]
    BY <1>1 DEF BeginSync
  <2>2. r.asked = names /\ r.list = Listed(names)
    <3> HIDE DEF free
    <3> QED
      BY RestFields DEF SyncFields
  <2> HIDE DEF r
  <2>3. Listed(names) \in [Skills -> Versions]
    BY CatalogListed
  <2>4. \A q \in Syncs : Disturbed[q].asked \subseteq Skills /\ Disturbed[q].list \in [Skills -> Versions]
    <3> SUFFICES ASSUME NEW q \in Syncs
                 PROVE  Disturbed[q].asked \subseteq Skills /\ Disturbed[q].list \in [Skills -> Versions]
      OBVIOUS
    <3>1. CASE sync[q].pc \in Resting
      BY <3>1, RestListed DEF Disturbed
    <3>2. CASE sync[q].pc \notin Resting
      <4>1. Disturbed[q] = [sync[q] EXCEPT !.alone = FALSE]
        BY <3>2 DEF Disturbed
      <4>2. DOMAIN sync[q] = SyncFields
        BY DEF SyncInv, Placed
      <4>3. Disturbed[q].asked = sync[q].asked /\ Disturbed[q].list = sync[q].list
        BY <4>1, <4>2 DEF SyncFields
      <4> QED
        BY <4>3 DEF RowsListed
    <3> QED
      BY <3>1, <3>2
  <2> QED
    BY <2>1, <2>2, <2>3, <2>4, AllDisturbed DEF RowsListed
<1>2. CASE ListPacks(p)
  <2> DEFINE packs == Listed(IF sync[p].asked = {} THEN Skills ELSE sync[p].asked)
             used == OnList(p) # {} /\ {s \in Skills : packs[s] # 0} = OnList(p)
             list == IF used THEN packs ELSE sync[p].list
             r == [sync[p] EXCEPT !.pc = "next", !.pack = used, !.list = list,
                                  !.todo = OnList(p), !.known = recorded]
  <2>1. sync' = [sync EXCEPT ![p].pc = "next", ![p].pack = used, ![p].list = list,
                             ![p].todo = OnList(p), ![p].known = recorded]
    BY <1>2 DEF ListPacks
  <2>2. list \in [Skills -> Versions]
    BY <1>0, CatalogListed
  <2> HIDE DEF list, used
  <2>3. sync' = [sync EXCEPT ![p] = r]
    BY <1>0, <2>1
  <2>4. r.asked = sync[p].asked /\ r.list = list
    BY <1>0 DEF SyncFields
  <2> HIDE DEF r
  <2> QED
    BY <1>0, <2>2, <2>3, <2>4, RowReplaced
<1>3. CASE NextService(p)
  <2>1. CASE sync[p].todo = {}
    BY <1>3, <2>1, RowGoesOn DEF NextService
  <2>2. CASE sync[p].todo # {}
    <3>1. PICK s \in sync[p].todo :
            sync' = [sync EXCEPT ![p].pc = "look", ![p].now = {s}, ![p].todo = @ \ {s},
                                 ![p].had = FALSE, ![p].mark = FALSE]
      BY <1>3, <2>2 DEF NextService
    <3> DEFINE r == [sync[p] EXCEPT !.pc = "look", !.now = {s}, !.todo = sync[p].todo \ {s},
                                    !.had = FALSE, !.mark = FALSE]
    <3>2. sync' = [sync EXCEPT ![p] = r]
      BY <1>0, <3>1 DEF SyncFields
    <3>3. r.asked = sync[p].asked /\ r.list = sync[p].list
      BY <1>0 DEF SyncFields
    <3> HIDE DEF r
    <3> QED
      BY <1>0, <3>2, <3>3, RowReplaced
  <2> QED
    BY <2>1, <2>2
<1>4. CASE Look(p)
  <2> DEFINE d == skill[Service(p)]
             mark == ~sync[p].pack /\ (sync[p].force \/ ~d.marker)
             to == IF ~Managed(p, d) THEN "next"
                   ELSE IF Differs(p, d) THEN IF sync[p].pack THEN "temp" ELSE "skill_md"
                   ELSE IF mark THEN "marker" ELSE "next"
             r == [sync[p] EXCEPT !.mark = mark, !.pc = to]
  <2>1. sync' = [sync EXCEPT ![p].mark = mark, ![p].pc = to]
    BY <1>4 DEF Look
  <2> HIDE DEF mark, to
  <2>2. sync' = [sync EXCEPT ![p] = r]
    BY <1>0, <2>1
  <2>3. r.asked = sync[p].asked /\ r.list = sync[p].list
    BY <1>0 DEF SyncFields
  <2> HIDE DEF r
  <2> QED
    BY <1>0, <2>2, <2>3, RowReplaced
<1>5. CASE UNCHANGED sync
  BY <1>5 DEF RowsListed
<1>6. CASE MoveOld(p)
  <2>1. CASE sync' = [sync EXCEPT ![p].pc = "swap", ![p].had = TRUE]
    <3> DEFINE r == [sync[p] EXCEPT !.pc = "swap", !.had = TRUE]
    <3>1. sync' = [sync EXCEPT ![p] = r]
      BY <1>0, <2>1
    <3>2. r.asked = sync[p].asked /\ r.list = sync[p].list
      BY <1>0 DEF SyncFields
    <3> HIDE DEF r
    <3> QED
      BY <1>0, <3>1, <3>2, RowReplaced
  <2> QED
    BY <1>6, <2>1, RowGoesOn DEF MoveOld
<1>7. CASE ListEntries(p) \/ Prune(p)
  <2>1. \/ \E x : sync' = [sync EXCEPT ![p].pc = "prune", ![p].entries = x]
        \/ \E x : sync' = [sync EXCEPT ![p].entries = x]
        \/ \E x : sync' = [sync EXCEPT ![p].entries = x, ![p].errs = TRUE]
        \/ SyncAt(p, "meta")
    <3>1. CASE ListEntries(p)
      BY <3>1 DEF ListEntries
    <3>2. CASE Prune(p)
      <4>1. ASSUME NEW e \in sync[p].entries, sync' = [sync EXCEPT ![p].entries = @ \ {e}]
            PROVE  \E x : sync' = [sync EXCEPT ![p].entries = x]
        BY <1>0, <4>1 DEF SyncFields
      <4>2. ASSUME NEW e \in sync[p].entries, sync' = [sync EXCEPT ![p].entries = @ \ {e}, ![p].errs = TRUE]
            PROVE  \E x : sync' = [sync EXCEPT ![p].entries = x, ![p].errs = TRUE]
        BY <1>0, <4>2 DEF SyncFields
      <4> QED
        BY <3>2, <4>1, <4>2 DEF Prune
    <3> QED
      BY <1>7, <3>1, <3>2
  <2>2. ASSUME NEW x, sync' = [sync EXCEPT ![p].pc = "prune", ![p].entries = x] PROVE RowsListed'
    <3> DEFINE r == [sync[p] EXCEPT !.pc = "prune", !.entries = x]
    <3>1. sync' = [sync EXCEPT ![p] = r]
      BY <1>0, <2>2
    <3>2. r.asked = sync[p].asked /\ r.list = sync[p].list
      BY <1>0 DEF SyncFields
    <3> HIDE DEF r
    <3> QED
      BY <1>0, <3>1, <3>2, RowReplaced
  <2>3. ASSUME NEW x, sync' = [sync EXCEPT ![p].entries = x] PROVE RowsListed'
    <3> DEFINE r == [sync[p] EXCEPT !.entries = x]
    <3>1. sync' = [sync EXCEPT ![p] = r]
      BY <1>0, <2>3
    <3>2. r.asked = sync[p].asked /\ r.list = sync[p].list
      BY <1>0 DEF SyncFields
    <3> HIDE DEF r
    <3> QED
      BY <1>0, <3>1, <3>2, RowReplaced
  <2>4. ASSUME NEW x, sync' = [sync EXCEPT ![p].entries = x, ![p].errs = TRUE] PROVE RowsListed'
    <3> DEFINE r == [sync[p] EXCEPT !.entries = x, !.errs = TRUE]
    <3>1. sync' = [sync EXCEPT ![p] = r]
      BY <1>0, <2>4
    <3>2. r.asked = sync[p].asked /\ r.list = sync[p].list
      BY <1>0 DEF SyncFields
    <3> HIDE DEF r
    <3> QED
      BY <1>0, <3>1, <3>2, RowReplaced
  <2> QED
    BY <2>1, <2>2, <2>3, <2>4, RowGoesOn
<1>8. CASE WriteSkillMD(p) \/ WriteMarker(p) \/ MakeTemp(p) \/ FillTemp(p) \/ ClearOld(p)
           \/ SwapIn(p) \/ DropOld(p)
  <2>1. (\E c : SyncAt(p, c)) \/ FailService(p) \/ UNCHANGED sync
    BY <1>8 DEF WriteSkillMD, WriteMarker, MakeTemp, FillTemp, ClearOld, SwapIn, DropOld
  <2> QED
    BY <1>5, <2>1, RowGoesOn
<1>9. CASE WriteMeta(p) \/ RecordSync(p) \/ KillSync(p)
  BY <1>9, RowGoesOn DEF WriteMeta, RecordSync, KillSync
<1> QED
  BY <1>1, <1>2, <1>3, <1>4, <1>6, <1>7, <1>8, <1>9 DEF SyncStep

LEMMA DirsSteps ==
  ASSUME SyncInv, RowsListed, DirsTyped, litter \subseteq {"marked", "bare"}, NEW p \in Syncs, SyncStep(p)
  PROVE  DirsTyped' /\ litter' \subseteq {"marked", "bare"}
<1>0. sync[p].pc \in Serving =>
        Service(p) \in Skills /\ sync[p].list[Service(p)] \in Versions
  BY AtService DEF OnList, RowsListed
<1>1. CASE UNCHANGED dirVars
  BY <1>1 DEF dirVars, DirsTyped
<1>2. CASE FailService(p) /\ UNCHANGED <<skill, backup, litter>>
  BY <1>2, SomeDirs DEF FailService, DirsTyped
<1>3. CASE (\E names \in SUBSET Skills, full, force \in BOOLEAN : BeginSync(p, names, full, force))
           \/ ListPacks(p) \/ NextService(p) \/ Look(p) \/ ListEntries(p) \/ WriteMeta(p) \/ RecordSync(p)
  BY <1>1, <1>3 DEF BeginSync, ListPacks, NextService, Look, ListEntries, WriteMeta, RecordSync
<1>4. CASE WriteSkillMD(p)
  <2> DEFINE s == Service(p)
             d == [skill[s] EXCEPT !.there = TRUE, !.mode = "md", !.v = sync[p].list[s]]
  <2>1. s \in Skills /\ sync[p].list[s] \in Versions
    BY <1>0, <1>4 DEF WriteSkillMD, Serving
  <2>2. d \in Dirs
    BY <2>1, SomeDirs DEF DirsTyped
  <2>3. \/ skill' = [skill EXCEPT ![s] = d] /\ UNCHANGED <<temp, backup, litter>>
        \/ FailService(p) /\ UNCHANGED <<skill, backup, litter>>
    BY <1>4, <2>1 DEF WriteSkillMD, DirsTyped
  <2> HIDE DEF d, s
  <2> QED
    BY <1>2, <2>1, <2>2, <2>3 DEF DirsTyped
<1>5. CASE WriteMarker(p)
  <2> DEFINE s == Service(p)
             d == [skill[s] EXCEPT !.there = TRUE, !.marker = TRUE]
  <2>1. s \in Skills
    BY <1>0, <1>5 DEF WriteMarker, Serving
  <2>2. d \in Dirs
    BY <2>1, SomeDirs DEF DirsTyped
  <2>3. \/ skill' = [skill EXCEPT ![s] = d] /\ UNCHANGED <<temp, backup, litter>>
        \/ FailService(p) /\ UNCHANGED <<skill, backup, litter>>
    BY <1>5, <2>1 DEF WriteMarker, DirsTyped
  <2> HIDE DEF d, s
  <2> QED
    BY <1>2, <2>1, <2>2, <2>3 DEF DirsTyped
<1>6. CASE MakeTemp(p) \/ FillTemp(p)
  <2>1. sync[p].pc \in Serving
    BY <1>6 DEF MakeTemp, FillTemp, Serving
  <2>2. Pack(sync[p].list[Service(p)]) \in Dirs
    BY <1>0, <2>1, SomeDirs
  <2>3. \/ \E d \in Dirs : temp' = [temp EXCEPT ![p] = d] /\ UNCHANGED <<skill, backup, litter>>
        \/ FailService(p) /\ UNCHANGED <<skill, backup, litter>>
    BY <1>6, <2>2, SomeDirs DEF MakeTemp, FillTemp
  <2> QED
    BY <1>2, <2>3 DEF DirsTyped
<1>7. CASE ClearOld(p) \/ DropOld(p)
  BY <1>7, SomeDirs DEF ClearOld, DropOld, DirsTyped
<1>8. CASE MoveOld(p) \/ SwapIn(p)
  <2>1. Service(p) \in Skills
    BY <1>0, <1>8 DEF MoveOld, SwapIn, Serving
  <2>2. skill[Service(p)] \in Dirs /\ backup[Service(p)] \in Dirs /\ temp[p] \in Dirs /\ NoDir \in Dirs
    BY <2>1, SomeDirs DEF DirsTyped
  <2> QED
    BY <1>8, <2>1, <2>2 DEF MoveOld, SwapIn, FailService, DirsTyped
<1>9. CASE Prune(p)
  <2>1. ASSUME NEW e, RemoveEntry(p, e) PROVE DirsTyped' /\ litter' \subseteq {"marked", "bare"}
    BY <2>1, SomeDirs DEF RemoveEntry, DirsTyped
  <2> QED
    BY <1>1, <1>9, <2>1 DEF Prune
<1>10. CASE KillSync(p)
  BY <1>10, SomeDirs DEF KillSync, DirsTyped
<1> QED
  BY <1>3, <1>4, <1>5, <1>6, <1>7, <1>8, <1>9, <1>10 DEF SyncStep

LEMMA SkillsInvStep == ASSUME SkillsInv, [SyncNext]_syncVars PROVE SkillsInv'
<1>1. SyncInv'
  BY SyncNextKeeps DEF SkillsInv
<1>2. SyncInv /\ RowsListed /\ DirsTyped /\ litter \subseteq {"marked", "bare"}
      /\ catalog \in [Skills -> Versions]
  BY DEF SkillsInv, SyncTypeOK, RowsListed, DirsTyped
<1> DEFINE others == /\ catalog' \in [Skills -> Versions] /\ recorded' \subseteq Skills
                     /\ meta' \in BOOLEAN /\ begun' \in 0..MaxRuns /\ changes' \in 0..MaxChanges
<1>3. ASSUME NEW p \in Syncs, SyncStep(p) PROVE RowsListed' /\ DirsTyped' /\ litter' \subseteq {"marked", "bare"} /\ others
  <2> DEFINE counts == \/ UNCHANGED begun
                       \/ begun < MaxRuns /\ begun' = begun + 1
  <2>1. /\ UNCHANGED <<catalog, changes>> /\ recorded' \in {recorded, OnList(p)}
        /\ meta' \in {meta, TRUE}
        /\ counts
    <3>1. CASE SyncOnly
      BY <3>1 DEF SyncOnly
    <3>2. ASSUME NEW names \in SUBSET Skills, NEW full \in BOOLEAN, NEW force \in BOOLEAN,
                 BeginSync(p, names, full, force)
          PROVE  UNCHANGED <<catalog, changes, recorded, meta>> /\ begun < MaxRuns /\ begun' = begun + 1
      BY <3>2 DEF BeginSync
    <3>3. CASE WriteMeta(p) \/ RecordSync(p)
      <4>1. UNCHANGED <<catalog, changes, begun>>
        BY <3>3 DEF WriteMeta, RecordSync
      <4>2. recorded' \in {recorded, OnList(p)} /\ meta' \in {meta, TRUE}
        BY <3>3 DEF WriteMeta, RecordSync
      <4> QED
        BY <4>1, <4>2
    <3>4. SyncOnly \/ WriteMeta(p) \/ RecordSync(p)
          \/ (\E names \in SUBSET Skills, full, force \in BOOLEAN : BeginSync(p, names, full, force))
      <4>1. ASSUME \/ ListPacks(p) \/ NextService(p) \/ Look(p) \/ WriteSkillMD(p) \/ WriteMarker(p)
                   \/ MakeTemp(p) \/ FillTemp(p) \/ ClearOld(p) \/ MoveOld(p) \/ SwapIn(p) \/ DropOld(p)
                   \/ ListEntries(p) \/ Prune(p) \/ KillSync(p)
            PROVE  SyncOnly
        BY <4>1 DEF ListPacks, NextService, Look, WriteSkillMD, WriteMarker, MakeTemp, FillTemp,
           ClearOld, MoveOld, SwapIn, DropOld, ListEntries, Prune, KillSync, SyncOnly
      <4> QED
        BY <1>3, <4>1, Zenon DEF SyncStep
    <3> QED
      BY <3>1, <3>2, <3>3, <3>4
  <2>2. others
    <3>1. recorded' \subseteq Skills /\ meta' \in BOOLEAN
      BY <2>1 DEF SkillsInv, SyncTypeOK, OnList
    <3>2. begun' \in 0..MaxRuns
      BY <2>1, SyncAssumption DEF SkillsInv, SyncTypeOK
    <3> QED
      BY <2>1, <3>1, <3>2 DEF SkillsInv, SyncTypeOK
  <2> QED
    BY <1>2, <1>3, <2>2, RowsSteps, DirsSteps
<1>4. ASSUME NEW s \in Skills, UserEdits(s) PROVE RowsListed' /\ DirsTyped' /\ litter' \subseteq {"marked", "bare"} /\ others
  <2> DEFINE d == CASE ~skill[s].there -> UserDir
                    [] OTHER -> [skill[s] EXCEPT !.marker = FALSE, !.extra = TRUE]
  <2>1. /\ skill' = [skill EXCEPT ![s] = d] /\ sync' = Disturbed /\ changes < MaxChanges /\ changes' = changes + 1
        /\ UNCHANGED <<catalog, backup, temp, litter, recorded, meta, begun>>
    BY <1>4 DEF UserEdits
  <2>2. d \in Dirs
    BY <1>2, SomeDirs DEF DirsTyped
  <2> HIDE DEF d
  <2>3. DirsTyped'
    BY <1>2, <2>1, <2>2 DEF DirsTyped
  <2> QED
    BY <1>2, <2>1, <2>3, RowsDisturbed, SyncAssumption DEF SkillsInv, SyncTypeOK
<1>5. ASSUME NEW s \in Skills, NEW v \in Versions, ChangeService(s, v)
      PROVE  RowsListed' /\ DirsTyped' /\ litter' \subseteq {"marked", "bare"} /\ others
  BY <1>2, <1>5, RowsDisturbed, SyncAssumption DEF ChangeService, DirsTyped, SkillsInv, SyncTypeOK
<1>6. ASSUME UNCHANGED syncVars PROVE RowsListed' /\ DirsTyped' /\ litter' \subseteq {"marked", "bare"} /\ others
  BY <1>6 DEF syncVars, RowsListed, DirsTyped, SkillsInv, SyncTypeOK
<1>7. RowsListed' /\ DirsTyped' /\ litter' \subseteq {"marked", "bare"} /\ others
  BY <1>3, <1>4, <1>5, <1>6 DEF SyncNext
<1> QED
  BY <1>1, <1>7 DEF SkillsInv, SyncTypeOK, RowsListed, DirsTyped

-----------------------------------------------------------------------------
(***************************************************************************)
(* The one that moves.                                                     *)
(***************************************************************************)
PartsInv ==
  /\ part = "vault" => VaultInv
  /\ part = "tokens" => TokensInv
  /\ part = "http" => HttpInv
  /\ part = "run" => RunInv
  /\ part = "certs" => PairsInv
  /\ part = "daemon" => DaemonInv
  /\ part = "command" => ProcessInv
  /\ part = "sync" => SkillsInv
  /\ part = "file" => BlockInv
  /\ part = "import" => DocumentInv
  /\ part = "proxy" => RequestsInv
  /\ part = "filter" => LimitsInv
  /\ part = "aliases" => NamesInv

LEMMA PartsInvInit == Init => PartsInv
  BY VaultInvInit, TokensInvInit, HttpInvInit, RunInvInit, PairsInvInit, DaemonInvInit, 
     ProcessInvInit, SkillsInvInit, BlockInvInit, DocumentInvInit, RequestsInvInit, LimitsInvInit, NamesInvInit
     DEF Init, PartsInv

\* A component that does not move keeps its variables, and one is the one that moves.
LEMMA PartsInvStep == ASSUME PartsInv, [Next]_partVars PROVE PartsInv'
<1>0. part' = part
  BY DEF Next, Only, partVars
<1>1. ASSUME part = "vault" PROVE VaultInv'
  <2>1. [VaultNext]_vaultVars
    BY <1>1 DEF Next, Only, partVars
  <2> QED
    BY <1>1, <2>1, VaultInvStep DEF PartsInv
<1>2. ASSUME part = "tokens" PROVE TokensInv'
  <2>1. [TokensNext]_tokenVars
    BY <1>2 DEF Next, Only, partVars
  <2> QED
    BY <1>2, <2>1, TokensInvStep DEF PartsInv
<1>3. ASSUME part = "http" PROVE HttpInv'
  <2>1. [HttpNext]_httpVars
    BY <1>3 DEF Next, Only, partVars
  <2> QED
    BY <1>3, <2>1, HttpInvStep DEF PartsInv
<1>4. ASSUME part = "run" PROVE RunInv'
  <2>1. [RunNext]_runVars
    BY <1>4 DEF Next, Only, partVars
  <2> QED
    BY <1>4, <2>1, RunInvStep DEF PartsInv
<1>5. ASSUME part = "certs" PROVE PairsInv'
  <2>1. [CertsNext]_certVars
    BY <1>5 DEF Next, Only, partVars
  <2> QED
    BY <1>5, <2>1, PairsInvStep DEF PartsInv
<1>6. ASSUME part = "daemon" PROVE DaemonInv'
  <2>1. [DaemonNext]_daemonVars
    BY <1>6 DEF Next, Only, partVars
  <2> QED
    BY <1>6, <2>1, DaemonInvStep DEF PartsInv
<1>7. ASSUME part = "command" PROVE ProcessInv'
  <2>1. [CommandNext]_commandVars
    BY <1>7 DEF Next, Only, partVars
  <2> QED
    BY <1>7, <2>1, ProcessInvStep DEF PartsInv
<1>8. ASSUME part = "sync" PROVE SkillsInv'
  <2>1. [SyncNext]_syncVars
    BY <1>8 DEF Next, Only, partVars
  <2> QED
    BY <1>8, <2>1, SkillsInvStep DEF PartsInv
<1>9. ASSUME part = "file" PROVE BlockInv'
  <2>1. [InstructionNext]_fileVars
    BY <1>9 DEF Next, Only, partVars
  <2> QED
    BY <1>9, <2>1, BlockInvStep DEF PartsInv
<1>10. ASSUME part = "import" PROVE DocumentInv'
  <2>1. [ImportNext]_importVars
    BY <1>10 DEF Next, Only, partVars
  <2> QED
    BY <1>10, <2>1, DocumentInvStep DEF PartsInv
<1>11. ASSUME part = "proxy" PROVE RequestsInv'
  <2>1. [ProxyNext]_proxyVars
    BY <1>11 DEF Next, Only, partVars
  <2> QED
    BY <1>11, <2>1, RequestsInvStep DEF PartsInv
<1>12. ASSUME part = "filter" PROVE LimitsInv'
  <2>1. [FilterNext]_filterVars
    BY <1>12 DEF Next, Only, partVars
  <2> QED
    BY <1>12, <2>1, LimitsInvStep DEF PartsInv
<1>13. ASSUME part = "aliases" PROVE NamesInv'
  <2>1. [AliasNext]_aliasVars
    BY <1>13 DEF Next, Only, partVars
  <2> QED
    BY <1>13, <2>1, NamesInvStep DEF PartsInv
<1> QED
  BY <1>0, <1>1, <1>2, <1>3, <1>4, <1>5, <1>6, <1>7, <1>8, <1>9, <1>10, <1>11, <1>12, <1>13 DEF PartsInv

LEMMA PartsInvTyped == PartsInv => PartsTypeOK
<1>1. HttpInv => HttpTypeOK
  BY HttpInvTyped
<1>2. PairsInv => CertsTypeOK
  BY PairsInvTyped
<1>3. BlockInv => InstructionTypeOK
  BY BlockInvTyped
<1>4. NamesInv => AliasTypeOK
  BY NamesInvTyped
<1>5. (VaultInv => VaultTypeOK) /\ (TokensInv => TokensTypeOK) /\ (RunInv => RunTypeOK)
  BY DEF VaultInv, TokensInv, RunInv
<1>6. (DaemonInv => DaemonTypeOK) /\ (ProcessInv => CommandTypeOK) /\ (SkillsInv => SyncTypeOK)
  BY DEF DaemonInv, ProcessInv, SkillsInv
<1>7. (DocumentInv => ImportTypeOK) /\ (RequestsInv => ProxyTypeOK) /\ (LimitsInv => FilterTypeOK)
  BY DEF DocumentInv, RequestsInv, LimitsInv
<1> QED
  BY <1>1, <1>2, <1>3, <1>4, <1>5, <1>6, <1>7 DEF PartsInv, PartsTypeOK

\* Whichever of the components moves, and whatever there is of commands, tokens, pages,
\* connections, documents, requests, outputs and names, each variable of it holds what
\* its declaration says: no counter runs past its bound, no page, row, directory or
\* name is used that is not there, and no answer has a status the code does not give.
THEOREM PartsTypeCorrect == Spec => []PartsTypeOK
  BY PartsInvInit, PartsInvStep, PartsInvTyped, PTL DEF Spec

=============================================================================
