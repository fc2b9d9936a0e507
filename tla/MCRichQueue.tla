---------------------------- MODULE MCRichQueue ----------------------------
(* Instances of RichQueue for TLC. *)
EXTENDS RichQueue, TLC

\* The items are interchangeable.
Symmetry == Permutations(Items)
=============================================================================
