----------------------------- MODULE MCGamePlay -----------------------------
(* Instances of GamePlay for TLC. *)
EXTENDS GamePlay, TLC

\* The requests are interchangeable.
Symmetry == Permutations(Req)
=============================================================================
