------------------------------ MODULE MCLinkedList ------------------------------
(* LinkedList for TLC: cells and elements are interchangeable. *)
EXTENDS LinkedList, TLC

Symmetry == Permutations(Cells) \cup Permutations(Elements)
==============================================================================
