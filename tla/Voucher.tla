------------------------------ MODULE Voucher ------------------------------
(***************************************************************************)
(* What a one-time code is: it is made out to a holder, it can be redeemed *)
(* once, for that holder, and it may become void at any time before.       *)
(***************************************************************************)
EXTENDS Naturals

CONSTANT Holders

VARIABLES
    issued,    \* how many vouchers were made out; they are numbered from 1
    open,      \* the vouchers that can be redeemed, each with its holder
    paid       \* what was given out: <<voucher, holder>>

voucherVars == <<issued, open, paid>>

Without(S) == [v \in DOMAIN open \ S |-> open[v]]

Issue(h) ==
    /\ issued' = issued + 1
    /\ open' = [v \in DOMAIN open \cup {issued + 1} |-> IF v = issued + 1 THEN h ELSE open[v]]
    /\ UNCHANGED paid

Redeem(v) ==
    /\ v \in DOMAIN open
    /\ open' = Without({v}) /\ paid' = paid \cup {<<v, open[v]>>}
    /\ UNCHANGED issued

Void(S) == open' = Without(S) /\ UNCHANGED <<issued, paid>>

VoucherInit == issued = 0 /\ open = [v \in {} |-> v] /\ paid = {}

VoucherNext ==
    \/ \E h \in Holders : Issue(h)
    \/ \E v \in DOMAIN open : Redeem(v)
    \/ \E S \in SUBSET DOMAIN open : Void(S)

VoucherSpec == VoucherInit /\ [][VoucherNext]_voucherVars
=============================================================================
