------------------------------- MODULE ListOps -------------------------------
(***************************************************************************)
(* The linked lists of the scheduler as sequences: unlinking and inserting *)
(* one element.  They have the meaning SequencesExt gives these names, and *)
(* are defined here so that the proofs about Scheduler need not carry that *)
(* module and all it extends.                                              *)
(***************************************************************************)
EXTENDS Integers, Sequences

RemoveAt(s, i) == SubSeq(s, 1, i - 1) \o SubSeq(s, i + 1, Len(s))

InsertAt(s, i, e) == SubSeq(s, 1, i - 1) \o <<e>> \o SubSeq(s, i, Len(s))

=============================================================================
