------------------------------ MODULE MCTrimTail ------------------------------
(* The trim protocol with two bytes after the cut of each file, so that a  *)
(* restoring write can be short.                                           *)
EXTENDS TrimTail, TLC

MCTailLen == [f \in Files |-> 2]
MCSymmetry == Permutations(Journals)
=============================================================================
