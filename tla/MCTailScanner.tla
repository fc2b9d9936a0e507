--------------------------- MODULE MCTailScanner ---------------------------
(* Instances of TailScanner for TLC. *)
EXTENDS TailScanner

CONSTANTS w1, w2, Other   \* two watched wallets, and the owner they trade with

Has(o, mint, amount) == [owner |-> o, mint |-> mint, amount |-> amount]
Token(o, amount) == Has(o, TargetMint, amount)

\* w1 buys into a new account that is listed after one of another mint.
Opens == [pre |-> <<Token(Other, 5)>>,
          post |-> <<Has(w1, "gas", 1), Token(Other, 3), Token(w1, 2)>>]

\* w1 sells some to w2, who then sells all it has and closes its account.
Passes == [pre |-> <<Token(w1, 2)>>, post |-> <<Token(w1, 1), Token(w2, 1)>>]
Closes == [pre |-> <<Token(w2, 1), Token(Other, 3)>>, post |-> <<Token(Other, 4)>>]

\* Nobody who is watched gains or loses: the mint of the fee, or the amount kept.
Pays == [pre |-> <<Has(w1, "gas", 1), Token(w1, 1)>>, post |-> <<Token(w1, 1)>>]

SixSlots == <<<<>>, <<Opens>>, <<Passes, Closes>>, <<>>, <<Pays>>, <<Closes>>>>
=============================================================================
