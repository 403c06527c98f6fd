-------------------------------- MODULE Lists --------------------------------
(***************************************************************************)
(* The operators on sequences that the engine's book and the gateway's      *)
(* picture of it are written with.  The first four are those of the same    *)
(* names of SequencesExt; they stand here by themselves because the proof   *)
(* system carries every definition a module reaches into every obligation,  *)
(* and that module and those it extends would make up most of the load.     *)
(***************************************************************************)
EXTENDS Integers, Sequences, FiniteSets

InsertAt(s, i, e) == SubSeq(s, 1, i - 1) \o << e >> \o SubSeq(s, i, Len(s))

RemoveAt(s, i) == SubSeq(s, 1, i - 1) \o SubSeq(s, i + 1, Len(s))

Front(s) == SubSeq(s, 1, Len(s) - 1)

Last(s) == s[Len(s)]

(* The members of S in the order `before`.                                  *)
Ranked(S, before(_, _)) ==
  [i \in 1..Cardinality(S) |->
     CHOOSE x \in S : Cardinality({y \in S : before(y, x)}) = i - 1]

=============================================================================
