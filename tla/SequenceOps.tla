----------------------------- MODULE SequenceOps -----------------------------
(***************************************************************************)
(* The operators on sequences the batcher's modules use, with the meaning  *)
(* they have in the community module SequencesExt.  That module brings     *)
(* bags and graphs into every proof obligation of a module that extends    *)
(* it, which makes the proofs many times slower.                           *)
(***************************************************************************)
EXTENDS Integers, Sequences, FiniteSetsExt, Functions

\* The last element of s.
Last(s) == s[Len(s)]

\* s without its last element.
Front(s) == SubSeq(s, 1, Len(s) - 1)

\* s read from its end.
Reverse(s) == [i \in DOMAIN s |-> s[Len(s) + 1 - i]]

\* t ends with s.
IsSuffix(s, t) ==
    /\ Len(s) <= Len(t)
    /\ s = SubSeq(t, Len(t) - Len(s) + 1, Len(t))

\* op applied to the elements of s from the first to the last.
FoldLeft(op(_, _), base, s) ==
    MapThenFoldSet(LAMBDA x, y : op(y, x), base, LAMBDA i : s[i], Max, DOMAIN s)
==============================================================================
