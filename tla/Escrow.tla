------------------------------- MODULE Escrow -------------------------------
(***************************************************************************)
(* What paying for a game promises: money leaves a player's account only   *)
(* through a hold, every hold was covered when it was placed, and a hold   *)
(* is charged at most once, in full.                                       *)
(***************************************************************************)
EXTENDS Integers

CONSTANT Prices

VARIABLES
    free,     \* what the player may spend
    held,     \* the holds in force
    charged   \* the holds that were charged

escrowVars == <<free, held, charged>>

Hold == [id : Nat, amount : Prices]

Place(h) ==
    /\ \A x \in held \cup charged : x.id # h.id
    /\ h.amount <= free
    /\ free' = free - h.amount /\ held' = held \cup {h}
    /\ UNCHANGED charged

Charge(h) ==
    /\ h \in held /\ held' = held \ {h} /\ charged' = charged \cup {h}
    /\ UNCHANGED free

\* Recharges and withdrawals, which are none of the game's business.
Move == free' \in Nat /\ UNCHANGED <<held, charged>>

EscrowInit == free \in Nat /\ held = {} /\ charged = {}

EscrowNext == Move \/ (\E h \in held : Charge(h)) \/ (\E h \in held' : h \in Hold /\ Place(h))

EscrowSpec == EscrowInit /\ [][EscrowNext]_escrowVars
=============================================================================
