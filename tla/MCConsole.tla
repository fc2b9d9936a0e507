----------------------------- MODULE MCConsole -----------------------------
(* Instances of Console for TLC. *)
EXTENDS Console, TLC

\* Handlers, addresses, texts, codes and client ids are interchangeable.
Symmetry == Permutations(ConReq) \cup Permutations(Texts) \cup Permutations(Clients)
=============================================================================
