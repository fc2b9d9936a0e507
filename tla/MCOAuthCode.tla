---------------------------- MODULE MCOAuthCode ----------------------------
(* Instances of OAuthCode for TLC. *)
EXTENDS OAuthCode, TLC

CONSTANTS c1, c2, u1, u2

\* Each client has a callback of its own.
TwoCallbacks == {<<c1, u1>>, <<c2, u2>>}

\* Handlers, users and verifiers are interchangeable.
Symmetry == Permutations(Req) \cup Permutations(Users) \cup Permutations(Keys)
=============================================================================
