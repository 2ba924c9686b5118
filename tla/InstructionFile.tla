--------------------------- MODULE InstructionFile ---------------------------
(***************************************************************************)
(* kimbap agents setup and uninstall-global: the block kimbap keeps        *)
(* between two markers in an agent's instruction file, a file that belongs *)
(* to the user and is edited between the commands, and the global skill    *)
(* directory next to it.  The file is a sequence of pieces: the markers    *)
(* "S" and "E", the text "b" that goes between them, newlines "n", and the *)
(* user's words, each written once.                                        *)
(***************************************************************************)
EXTENDS Naturals, Sequences, SequencesExt, Selection

CONSTANTS Words,      \* the words the user writes, a sequence
          MaxEdits,   \* bound: edits of the user
          MaxCommands \* bound: setups and teardowns

ASSUME EditsAssumption == {MaxEdits, MaxCommands} \subseteq Nat

\* The user's words are none of kimbap's text.
ASSUME WordsAssumption == IsSequence(Words) /\ ToSet(Words) \intersect {"S", "E", "b", "n"} = {}

VARIABLES
  file,   \* the instruction file, <<>> also when there is none
  agent,  \* whether the agent's own directory is there, for detection
  global, \* the global skill: "absent", "old" or "current"
  words,  \* the user's words in the order they stand in the file
  edits, commands

fileVars == <<file, agent, global, words, edits, commands>>

Block == <<"S", "n", "b", "E", "n">>

InstructionInit ==
  /\ file = <<>>
  /\ agent \in BOOLEAN
  /\ global \in {"absent", "old"}
  /\ words = <<>>
  /\ edits = 0 /\ commands = 0

\* strings.Index, 0 when it is not there.
Place(f, piece) == SelectInSeq(f, LAMBDA x : x = piece)
Unmarked(f) == Place(f, "S") = 0 /\ Place(f, "E") = 0

\* Mutant: the end marker may come first.
MarkedInAnyOrder(f) == Place(f, "S") > 0 /\ Place(f, "E") > 0

WellMarked(f) == Place(f, "S") > 0 /\ Place(f, "S") < Place(f, "E")

\* The block ends with the newline after the end marker, if there is one.
BlockEnd(f) == LET e == Place(f, "E") IN IF e < Len(f) /\ f[e + 1] = "n" THEN e + 1 ELSE e

Before(f) == SubSeq(f, 1, Place(f, "S") - 1)
After(f) == SubSeq(f, BlockEnd(f) + 1, Len(f))

EndsWith(f, piece) == f # <<>> /\ Last(f) = piece
Newlined(f) == IF EndsWith(f, "n") THEN f ELSE Append(f, "n")

\* injectMarkerBlock: replaces the block between the first markers, or appends
\* one after an empty line.
Inject(f) ==
  IF WellMarked(f) THEN Before(f) \o Block \o After(f)
  ELSE IF f = <<>> THEN Block
  ELSE Append(Newlined(f), "n") \o Block

TrimRight(f) == LET keep == {i \in DOMAIN f : f[i] # "n"}
                IN SubSeq(f, 1, IF keep = {} THEN 0 ELSE Max(keep))
TrimLeft(f) == LET keep == {i \in DOMAIN f : f[i] # "n"}
               IN IF keep = {} THEN <<>> ELSE SubSeq(f, Min(keep), Len(f))

\* removeMarkerBlock: the block and the empty lines around it.
Without(f) ==
  LET before == TrimRight(Before(f))
      after == TrimLeft(After(f))
      apart == Len(Before(f)) >= Len(before) + 2
  IN IF before = <<>> /\ after = <<>> THEN <<>>
     ELSE IF before = <<>> THEN Newlined(after)
     ELSE IF after = <<>> THEN Append(before, "n")
     ELSE Newlined(before \o (IF apart THEN <<"n", "n">> ELSE <<"n">>) \o after)

(***************************************************************************)
(* The commands.  Files are replaced by a rename; an error before it       *)
(* leaves them as they were.                                               *)
(***************************************************************************)
Counted == commands < MaxCommands /\ commands' = commands + 1
UserSame == UNCHANGED <<agent, words, edits>>

\* globalSetupOne, for an agent asked for or detected: the skill first, and the
\* instruction file, unless its markers are damaged.  Force rewrites what is
\* already right with the same.
Setup(asked) ==
  /\ Counted
  /\ asked \/ agent
  /\ \/ /\ global' = "current"
        /\ file' = IF WellMarked(file) \/ Unmarked(file) THEN Inject(file) ELSE file
     \/ global' \in {global, "current"} /\ UNCHANGED file
  /\ UserSame

HasArtifacts == agent \/ global # "absent" \/ WellMarked(file)

\* globalTeardownOne: the skill directory goes whatever is in it.
Teardown(asked) ==
  /\ Counted
  /\ asked \/ HasArtifacts
  /\ \/ /\ global' = "absent"
        /\ file' = IF WellMarked(file) THEN Without(file) ELSE file
     \/ global' \in {global, "absent"} /\ UNCHANGED file
  /\ UserSame

(***************************************************************************)
(* The user.                                                               *)
(***************************************************************************)
Edited == edits < MaxEdits /\ edits' = edits + 1 /\ UNCHANGED <<agent, global, commands>>

\* A word before or after everything, with a newline after it or without.
AddWord(front, newline) ==
  LET word == Words[Len(words) + 1]
      line == IF newline THEN <<word, "n">> ELSE <<word>>
  IN /\ Edited
     /\ Len(words) < Len(Words)
     /\ file' = IF front THEN line \o file ELSE file \o line
     /\ words' = IF front THEN <<word>> \o words ELSE Append(words, word)

\* Any line of the block, or an empty one, deleted by hand.
DeletePiece(i) ==
  /\ Edited
  /\ i \in DOMAIN file /\ file[i] \in {"S", "E", "b", "n"}
  /\ file' = RemoveAt(file, i)
  /\ UNCHANGED words

\* A marker that is not there, at either end; the user makes no block of words.
AddMarker(piece, front) ==
  /\ Edited
  /\ Place(file, piece) = 0
  /\ Unmarked(file) \/ front = (piece = "E")
  /\ file' = IF front THEN <<piece>> \o file ELSE Append(file, piece)
  /\ UNCHANGED words

InstructionNext ==
  \/ \E asked \in BOOLEAN : Setup(asked) \/ Teardown(asked)
  \/ \E front, newline \in BOOLEAN : AddWord(front, newline)
  \/ \E i \in DOMAIN file : DeletePiece(i)
  \/ \E piece \in {"S", "E"}, front \in BOOLEAN : AddMarker(piece, front)

InstructionSpec == InstructionInit /\ [][InstructionNext]_fileVars

-----------------------------------------------------------------------------
InstructionTypeOK ==
  /\ global \in {"absent", "old", "current"}
  /\ edits \in 0..MaxEdits /\ commands \in 0..MaxCommands
  /\ ToSet(words) \subseteq ToSet(Words)
  /\ ToSet(file) \subseteq {"S", "E", "b", "n"} \union ToSet(words)

UserWords(f) == Selected(f, ToSet(Words))

\* Whatever the user wrote outside the markers survives every setup and teardown,
\* in its order, damaged markers or not; a setup of a file that was just
\* set up changes nothing; and a teardown undoes a setup but for empty lines.
BlockComesAndGoes ==
  /\ UserWords(file) = words
  /\ WellMarked(file) \/ Unmarked(file)
       => WellMarked(Inject(file)) /\ Inject(Inject(file)) = Inject(file)
  /\ Unmarked(file) => TrimRight(TrimLeft(Without(Inject(file)))) = TrimRight(TrimLeft(file))
=============================================================================
