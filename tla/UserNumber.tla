----------------------------- MODULE UserNumber -----------------------------
(***************************************************************************)
(* system/rand.go: the number of a player.  Fifteen digits:                *)
(*                                                                         *)
(*     flag (1)  date (6)  sequence of the day (4)  random (3)  check (1)  *)
(*                                                                         *)
(* where the digits of the date, yymmdd, are replaced by a permutation and *)
(* rotated, both drawn from a secret, and the check digit is Luhn's.       *)
(* Digits are numbers, and a string of digits is a sequence of them.       *)
(***************************************************************************)
EXTENDS Integers, Sequences

CONSTANTS
    Flag,      \* Generator.Flag
    Seed,      \* HMAC-SHA256 of "dateperm" under the secret: its bytes
    RotByte    \* HMAC-SHA256 of "rot" under the secret: its first byte

Digit == 0..9
Date == [1..6 -> Digit]
Random3 == [1..3 -> Digit]

ASSUME UserNumberAssumption ==
    /\ Flag \in Digit
    /\ \A k \in 1..9 : Seed[k] \in Nat
    /\ RotByte \in Nat

-----------------------------------------------------------------------------
(* The date *)

\* One step of the shuffle of buildDigitPerm: i goes from 9 down to 1, and each
\* step takes the next byte of the seed.
Exchanged(p, i) ==
    LET j == Seed[10 - i] % (i + 1) IN [p EXCEPT ![i] = p[j], ![j] = p[i]]

DigitPerm ==
    LET p9 == Exchanged([d \in Digit |-> d], 9)
        p6 == Exchanged(Exchanged(Exchanged(p9, 8), 7), 6)
        p3 == Exchanged(Exchanged(Exchanged(p6, 5), 4), 3)
    IN  Exchanged(Exchanged(p3, 2), 1)

\* buildRot
Rot == RotByte % 6

\* obfuscateYYMMDD: every digit is replaced, then the last Rot go to the front.
Obfuscated(date) == [i \in 1..6 |-> DigitPerm[date[((i + 5 - Rot) % 6) + 1]]]

-----------------------------------------------------------------------------
(* The number *)

\* "%04d" of a sequence number up to 9999
FourDigits(n) == <<n \div 1000, (n \div 100) % 10, (n \div 10) % 10, n % 10>>

\* The fourteen digits before the check digit
Body(date, seq, r3) == <<Flag>> \o Obfuscated(date) \o FourDigits(seq) \o r3

\* Luhn's rule: every other digit, from the last one of the body, counts double,
\* with 9 taken off what exceeds it.
Doubled(d) == IF 2 * d > 9 THEN 2 * d - 9 ELSE 2 * d

LuhnSum(w) ==
      w[1] + Doubled(w[2]) + w[3] + Doubled(w[4]) + w[5] + Doubled(w[6]) + w[7]
    + Doubled(w[8]) + w[9] + Doubled(w[10]) + w[11] + Doubled(w[12]) + w[13] + Doubled(w[14])

LuhnDigit(w) == (10 - (LuhnSum(w) % 10)) % 10

\* Generate: a player's number for a sequence number of a date and a random r3.
UserNumber(date, seq, r3) == Body(date, seq, r3) \o <<LuhnDigit(Body(date, seq, r3))>>

=============================================================================
