---------------------------- MODULE MCSeasonJoin ----------------------------
(* Instances of SeasonJoin for TLC. *)
EXTENDS SeasonJoin, TLC

CONSTANTS small, free

\* One season for a single player, one without a limit.
TwoLimits == (small :> 1) @@ (free :> 0)

\* Handlers and players are interchangeable.
Symmetry == Permutations(Req) \cup Permutations(Users)
=============================================================================
