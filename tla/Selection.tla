------------------------------ MODULE Selection ------------------------------
(***************************************************************************)
(* The elements of a sequence that lie in a set, in their order: what the  *)
(* program's loops that `continue` past an element append to their result. *)
(* Like SelectSeq, with a set for the test, as a recursive function that   *)
(* can be reasoned about; and what it is to be a sequence, of anything.    *)
(***************************************************************************)
EXTENDS Integers, Sequences

IsSequence(s) == s \in Seq({s[i] : i \in DOMAIN s})

\* What each prefix of s has in S.
Selections(s, S) ==
  LET chosen[i \in 0..Len(s)] ==
        IF i = 0 THEN <<>>
        ELSE IF s[i] \in S THEN Append(chosen[i - 1], s[i]) ELSE chosen[i - 1]
  IN chosen

Selected(s, S) == Selections(s, S)[Len(s)]
=============================================================================
