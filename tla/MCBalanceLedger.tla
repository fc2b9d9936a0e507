-------------------------- MODULE MCBalanceLedger --------------------------
(* Instances of BalanceLedger for TLC. *)
EXTENDS BalanceLedger, TLC

\* The handlers are interchangeable.
Symmetry == Permutations(Req)
=============================================================================
