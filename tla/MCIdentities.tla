---------------------------- MODULE MCIdentities ----------------------------
(* Instances of Identities for TLC. *)
EXTENDS Identities, TLC

\* Handlers and wallets are interchangeable.
Symmetry == Permutations(Req) \cup Permutations(Wallets)
=============================================================================
