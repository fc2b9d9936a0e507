---------------------------- MODULE AccountBook ----------------------------
(***************************************************************************)
(* What the account ledger promises, without queues, reports or retries:   *)
(* a balance moves only for a transaction that was mined, by the amount    *)
(* the chain says, at most once per transaction, or to reserve a part of   *)
(* it for a withdrawal; and a reservation is never overdrawn.              *)
(***************************************************************************)
EXTENDS Integers

CONSTANTS Users, TxIds, Amounts, Opening

VARIABLES
    available,   \* what each user may spend
    withdrawal,  \* what each user has reserved for withdrawals
    mined,       \* the chain's successful deposits, claims and cancels
    booked       \* the transactions that have moved a balance

bookVars == <<available, withdrawal, mined, booked>>

Entry == [tx : TxIds, kind : {"Recharge", "Withdraw", "Unfreeze"}, main : Users, amount : Amounts]

Move(u, da, dw) ==
    /\ available' = [available EXCEPT ![u] = @ + da]
    /\ withdrawal' = [withdrawal EXCEPT ![u] = @ + dw]

Confirm(e) ==
    /\ \A x \in mined : x.tx # e.tx
    /\ mined' = mined \cup {e}
    /\ UNCHANGED <<available, withdrawal, booked>>

Reserve(u, a) ==
    /\ available[u] >= a /\ Move(u, -a, a)
    /\ UNCHANGED <<mined, booked>>

Settle(e) ==
    /\ e \in mined /\ e.tx \notin booked
    /\ \/ e.kind = "Recharge" /\ Move(e.main, e.amount, 0)
       \/ e.kind = "Withdraw" /\ withdrawal[e.main] >= e.amount /\ Move(e.main, 0, -e.amount)
       \/ e.kind = "Unfreeze" /\ withdrawal[e.main] >= e.amount
                              /\ Move(e.main, e.amount, -e.amount)
    /\ booked' = booked \cup {e.tx}
    /\ UNCHANGED mined

BookInit ==
    /\ available = [u \in Users |-> Opening] /\ withdrawal = [u \in Users |-> 0]
    /\ mined = {} /\ booked = {}

BookNext ==
    \/ \E e \in Entry : Confirm(e) \/ Settle(e)
    \/ \E u \in Users, a \in Amounts : Reserve(u, a)

BookSpec == BookInit /\ [][BookNext]_bookVars
=============================================================================
