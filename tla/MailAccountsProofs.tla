------------------------- MODULE MailAccountsProofs -------------------------
(***************************************************************************)
(* For any number of players, addresses, handlers and days: who is active  *)
(* has proved the address he holds, no number is given twice, and an       *)
(* activation settles.  AccountsInv adds to this what a handler still      *)
(* knows of the row it has read (Knows), and that every number in a row or *)
(* on its way to one was drawn from the sequence of some day and is        *)
(* nobody else's (NumbersIssued, NumbersApart).                            *)
(***************************************************************************)
EXTENDS MailAccounts, SequenceTheorems, WellFoundedInduction, TLAPS

-----------------------------------------------------------------------------
(***************************************************************************)
(* What the number of a player tells, for every secret, flag and date.     *)
(*                                                                         *)
(* The shuffle of buildDigitPerm exchanges two digits at a time and so     *)
(* stays a permutation; the rotation moves the digits of a date to other   *)
(* places.  Hence the date can be read back, and with it the number of the *)
(* day.  The check digit is Luhn's: one mistyped digit changes it, and so  *)
(* do two adjacent digits that change places, unless they are 0 and 9.     *)
(***************************************************************************)

(* The numbers of a day that four digits can hold *)
Sequence == {n \in Nat : n <= 9999}

IsPermutation(p) ==
    /\ p \in [Digit -> Digit]
    /\ \A a, b \in Digit : p[a] = p[b] => a = b

(* A step of the shuffle keeps a permutation, whatever byte it takes. *)
LEMMA ExchangedKeeps ==
  ASSUME NEW p, IsPermutation(p), NEW i \in 1..9
  PROVE  IsPermutation(Exchanged(p, i))
<1> DEFINE j == Seed[10 - i] % (i + 1)
           q == [p EXCEPT ![i] = p[j], ![j] = p[i]]
<1>1. Seed[10 - i] \in Nat
  <2>1. 10 - i \in 1..9
    OBVIOUS
  <2>2. \A k \in 1..9 : Seed[k] \in Nat
    BY UserNumberAssumption DEF UserNumberAssumption
  <2> HIDE DEF j, q
  <2> QED BY <2>1, <2>2
<1>2. j \in 0..i /\ i \in Digit
  BY <1>1 DEF Digit
<1>3. j \in Digit
  BY <1>2 DEF Digit
<1>4. q \in [Digit -> Digit] /\ \A a \in Digit : q[a] = IF a = j THEN p[i] ELSE IF a = i THEN p[j] ELSE p[a]
  BY <1>2, <1>3 DEF IsPermutation
<1>5. \A a, b \in Digit : q[a] = q[b] => a = b
  <2> HIDE DEF j, q
  <2> QED BY <1>2, <1>3, <1>4 DEF IsPermutation
<1> QED BY <1>4, <1>5 DEF IsPermutation, Exchanged

(* buildDigitPerm gives different digits for different digits. *)
THEOREM DigitsStayDistinct == IsPermutation(DigitPerm)
<1> DEFINE p9 == Exchanged([d \in Digit |-> d], 9)
           p8 == Exchanged(p9, 8)
           p7 == Exchanged(p8, 7)
           p6 == Exchanged(p7, 6)
           p5 == Exchanged(p6, 5)
           p4 == Exchanged(p5, 4)
           p3 == Exchanged(p4, 3)
           p2 == Exchanged(p3, 2)
<1>0. IsPermutation([d \in Digit |-> d])
  BY DEF IsPermutation, Digit
<1>9. IsPermutation(p9)
  BY <1>0, ExchangedKeeps
<1> HIDE DEF p9
<1>8. IsPermutation(p8)
  BY <1>9, ExchangedKeeps
<1> HIDE DEF p8
<1>7. IsPermutation(p7)
  BY <1>8, ExchangedKeeps
<1> HIDE DEF p7
<1>6. IsPermutation(p6)
  BY <1>7, ExchangedKeeps
<1> HIDE DEF p6
<1>5. IsPermutation(p5)
  BY <1>6, ExchangedKeeps
<1> HIDE DEF p5
<1>4. IsPermutation(p4)
  BY <1>5, ExchangedKeeps
<1> HIDE DEF p4
<1>3. IsPermutation(p3)
  BY <1>4, ExchangedKeeps
<1> HIDE DEF p3
<1>2. IsPermutation(p2)
  BY <1>3, ExchangedKeeps
<1> HIDE DEF p2
<1>1. IsPermutation(Exchanged(p2, 1))
  BY <1>2, ExchangedKeeps
<1>10. DigitPerm = Exchanged(p2, 1)
  BY DEF DigitPerm, p2, p3, p4, p5, p6, p7, p8, p9
<1> QED BY <1>1, <1>10

-----------------------------------------------------------------------------
(* Every digit of a date is at one place of the hidden date. *)
LEMMA PlaceOf ==
  ASSUME NEW k \in 1..6
  PROVE  \E i \in 1..6 : ((i + 5 - Rot) % 6) + 1 = k
<1>1. Rot \in 0..5
  BY UserNumberAssumption DEF UserNumberAssumption, Rot
<1>2. \A r \in 0..5 : \E i \in 1..6 : ((i + 5 - r) % 6) + 1 = k
  <2> SUFFICES ASSUME NEW r \in 0..5 PROVE \E i \in 1..6 : ((i + 5 - r) % 6) + 1 = k
    OBVIOUS
  <2>1. CASE k + r <= 6
    <3>1. k + r \in 1..6 /\ ((k + r + 5 - r) % 6) + 1 = k
      BY <2>1
    <3> QED BY <3>1
  <2>2. CASE k + r > 6
    <3>1. k + r - 6 \in 1..6 /\ ((k + r - 6 + 5 - r) % 6) + 1 = k
      BY <2>2
    <3> QED BY <3>1
  <2> QED BY <2>1, <2>2
<1> QED BY <1>1, <1>2

(* The hidden date is six digits, and two dates that are hidden alike are one. *)
LEMMA ObfuscatedType ==
  ASSUME NEW d \in Date
  PROVE  Obfuscated(d) \in [1..6 -> Digit]
<1>1. Rot \in 0..5
  BY UserNumberAssumption DEF UserNumberAssumption, Rot
<1>2. \A i \in 1..6 : ((i + 5 - Rot) % 6) + 1 \in 1..6
  BY <1>1
<1> QED BY <1>2, DigitsStayDistinct DEF Obfuscated, Date, IsPermutation

THEOREM DateCanBeReadBack ==
  ASSUME NEW d \in Date, NEW e \in Date, Obfuscated(d) = Obfuscated(e)
  PROVE  d = e
<1>1. \A k \in 1..6 : d[k] = e[k]
  <2> SUFFICES ASSUME NEW k \in 1..6 PROVE d[k] = e[k]
    OBVIOUS
  <2>1. PICK i \in 1..6 : ((i + 5 - Rot) % 6) + 1 = k
    BY PlaceOf
  <2>2. Obfuscated(d)[i] = DigitPerm[d[k]] /\ Obfuscated(e)[i] = DigitPerm[e[k]]
    BY <2>1 DEF Obfuscated
  <2>3. d[k] \in Digit /\ e[k] \in Digit
    BY DEF Date
  <2> QED BY <2>2, <2>3, DigitsStayDistinct DEF IsPermutation
<1> QED BY <1>1 DEF Date

-----------------------------------------------------------------------------
(* "%04d" tells the numbers of a day apart. *)
LEMMA FourDigitsDetermine ==
  ASSUME NEW m \in Sequence
  PROVE  /\ FourDigits(m) \in [1..4 -> Digit]
         /\ m = 1000 * FourDigits(m)[1] + 100 * FourDigits(m)[2]
                + 10 * FourDigits(m)[3] + FourDigits(m)[4]
<1> DEFINE h == m \div 1000
           t == m \div 100
           u == m \div 10
<1>1. m = 10 * u + (m % 10) /\ u \in Nat /\ u <= 999 /\ m % 10 \in 0..9
  BY DEF Sequence
<1>2. u = 10 * t + (u % 10) /\ t \in Nat /\ t <= 99 /\ u % 10 \in 0..9
  BY <1>1 DEF Sequence
<1>3. t = 10 * h + (t % 10) /\ h \in 0..9 /\ t % 10 \in 0..9
  BY <1>2 DEF Sequence
<1> HIDE DEF h, t, u
<1>4. m = 1000 * h + 100 * (t % 10) + 10 * (u % 10) + (m % 10)
  <2> DEFINE x == m % 10
             y == u % 10
             z == t % 10
  <2>1. m = 10 * u + x /\ u = 10 * t + y /\ t = 10 * h + z
    BY <1>1, <1>2, <1>3
  <2>2. x \in Int /\ y \in Int /\ z \in Int /\ h \in Int /\ t \in Int /\ u \in Int
    BY <1>1, <1>2, <1>3 DEF Sequence
  <2> HIDE DEF x, y, z
  <2>3. m = 1000 * h + 100 * z + 10 * y + x
    BY <2>1, <2>2
  <2> QED BY <2>3 DEF x, y, z
<1>5. FourDigits(m) = <<h, t % 10, u % 10, m % 10>>
  BY DEF FourDigits, h, t, u
<1>6. FourDigits(m) \in [1..4 -> Digit]
  BY <1>1, <1>2, <1>3, <1>5 DEF Digit
<1> QED BY <1>4, <1>5, <1>6

(* A function on 1..n is a sequence of length n. *)
LEMMA TupleIsSequence ==
  ASSUME NEW S, NEW n \in Nat, NEW s \in [1..n -> S]
  PROVE  s \in Seq(S) /\ Len(s) = n
OBVIOUS

(* What is where in two sequences that are joined *)
LEMMA Joined ==
  ASSUME NEW S, NEW s \in Seq(S), NEW t \in Seq(S)
  PROVE  s \o t \in Seq(S) /\ Len(s \o t) = Len(s) + Len(t)
BY ConcatProperties

LEMMA JoinedBefore ==
  ASSUME NEW S, NEW s \in Seq(S), NEW t \in Seq(S), NEW j \in Int, 1 <= j, j <= Len(s)
  PROVE  (s \o t)[j] = s[j]
<1>1. Len(s) \in Nat /\ Len(t) \in Nat
  BY LenProperties
<1>2. j \in 1..(Len(s) + Len(t)) /\ j <= Len(s)
  BY <1>1
<1> QED BY <1>2, ConcatProperties

LEMMA JoinedAfter ==
  ASSUME NEW S, NEW s \in Seq(S), NEW t \in Seq(S), NEW j \in Int,
         Len(s) < j, j <= Len(s) + Len(t)
  PROVE  (s \o t)[j] = t[j - Len(s)]
<1>1. Len(s) \in Nat /\ Len(t) \in Nat
  BY LenProperties
<1>2. j \in 1..(Len(s) + Len(t)) /\ ~(j <= Len(s))
  BY <1>1
<1> QED BY <1>2, ConcatProperties

(* Where the parts of the body are. *)
LEMMA FourJoined ==
  ASSUME NEW g \in Seq(Digit), NEW o \in Seq(Digit), NEW f \in Seq(Digit), NEW r \in Seq(Digit),
         Len(g) = 1, Len(o) = 6, Len(f) = 4, Len(r) = 3
  PROVE  /\ g \o o \o f \o r \in Seq(Digit) /\ Len(g \o o \o f \o r) = 14
         /\ \A i \in 1..6 : (g \o o \o f \o r)[1 + i] = o[i]
         /\ \A i \in 1..4 : (g \o o \o f \o r)[7 + i] = f[i]
<1> DEFINE a == g \o o
           b == a \o f
           c == b \o r
<1>1. a \in Seq(Digit) /\ Len(a) = 7
  <2>1. g \o o \in Seq(Digit) /\ Len(g \o o) = Len(g) + Len(o)
    BY Joined
  <2> QED BY <2>1
<1>2. \A i \in 1..6 : a[1 + i] = o[i]
  <2> SUFFICES ASSUME NEW i \in 1..6 PROVE (g \o o)[1 + i] = o[i]
    OBVIOUS
  <2>1. 1 + i \in Int /\ Len(g) < 1 + i /\ 1 + i <= Len(g) + Len(o) /\ (1 + i) - Len(g) = i
    OBVIOUS
  <2>2. (g \o o)[1 + i] = o[(1 + i) - Len(g)]
    BY <2>1, JoinedAfter
  <2> QED BY <2>1, <2>2
<1> HIDE DEF a
<1>3. b \in Seq(Digit) /\ Len(b) = 11
  <2>1. a \o f \in Seq(Digit) /\ Len(a \o f) = Len(a) + Len(f)
    BY <1>1, Joined
  <2> QED BY <1>1, <2>1
<1>4. \A i \in 1..7 : b[i] = a[i]
  <2> SUFFICES ASSUME NEW i \in 1..7 PROVE (a \o f)[i] = a[i]
    OBVIOUS
  <2>1. i \in Int /\ 1 <= i /\ i <= Len(a)
    BY <1>1
  <2> QED BY <1>1, <2>1, JoinedBefore
<1>5. \A i \in 1..4 : b[7 + i] = f[i]
  <2> SUFFICES ASSUME NEW i \in 1..4 PROVE (a \o f)[7 + i] = f[i]
    OBVIOUS
  <2>1. 7 + i \in Int /\ Len(a) < 7 + i /\ 7 + i <= Len(a) + Len(f) /\ (7 + i) - Len(a) = i
    BY <1>1
  <2>2. (a \o f)[7 + i] = f[(7 + i) - Len(a)]
    BY <1>1, <2>1, JoinedAfter
  <2> QED BY <2>1, <2>2
<1> HIDE DEF b
<1>6. c \in Seq(Digit) /\ Len(c) = 14
  <2>1. b \o r \in Seq(Digit) /\ Len(b \o r) = Len(b) + Len(r)
    BY <1>3, Joined
  <2> QED BY <1>3, <2>1
<1>7. \A i \in 1..11 : c[i] = b[i]
  <2> SUFFICES ASSUME NEW i \in 1..11 PROVE (b \o r)[i] = b[i]
    OBVIOUS
  <2>1. i \in Int /\ 1 <= i /\ i <= Len(b)
    BY <1>3
  <2> QED BY <1>3, <2>1, JoinedBefore
<1>8. c = g \o o \o f \o r
  BY DEF a, b
<1> HIDE DEF c
<1>9. \A i \in 1..6 : c[1 + i] = o[i]
  BY <1>2, <1>4, <1>7
<1>10. \A i \in 1..4 : c[7 + i] = f[i]
  BY <1>5, <1>7
<1> QED BY <1>6, <1>8, <1>9, <1>10

LEMMA BodyParts ==
  ASSUME NEW d \in Date, NEW m \in Sequence, NEW r3 \in Random3
  PROVE  /\ Body(d, m, r3) \in Seq(Digit) /\ Len(Body(d, m, r3)) = 14
         /\ \A i \in 1..6 : Body(d, m, r3)[1 + i] = Obfuscated(d)[i]
         /\ \A i \in 1..4 : Body(d, m, r3)[7 + i] = FourDigits(m)[i]
<1>1. Obfuscated(d) \in Seq(Digit) /\ Len(Obfuscated(d)) = 6
  BY ObfuscatedType, TupleIsSequence
<1>2. FourDigits(m) \in Seq(Digit) /\ Len(FourDigits(m)) = 4
  BY FourDigitsDetermine, TupleIsSequence
<1>3. r3 \in Seq(Digit) /\ Len(r3) = 3
  BY TupleIsSequence DEF Random3
<1>4. <<Flag>> \in Seq(Digit) /\ Len(<<Flag>>) = 1
  BY UserNumberAssumption DEF UserNumberAssumption
<1> QED BY <1>1, <1>2, <1>3, <1>4, FourJoined DEF Body

Word == [1..14 -> Digit]

(* The weight of a digit at a place of the body *)
Weight(i, x) == IF i % 2 = 0 THEN Doubled(x) ELSE x

LEMMA WeightType ==
  ASSUME NEW i \in 1..14, NEW x \in Digit
  PROVE  Weight(i, x) \in Digit
BY DEF Weight, Doubled, Digit

Sum14(t) ==
      t[1] + t[2] + t[3] + t[4] + t[5] + t[6] + t[7]
    + t[8] + t[9] + t[10] + t[11] + t[12] + t[13] + t[14]

Weights(w) == [i \in 1..14 |-> Weight(i, w[i])]

LEMMA SumOfWeights ==
  ASSUME NEW w \in Word
  PROVE  /\ LuhnSum(w) = Sum14(Weights(w))
         /\ LuhnSum(w) \in Nat
         /\ Weights(w) \in [1..14 -> Nat]
<1>1. \A i \in 1..14 : Weights(w)[i] = Weight(i, w[i])
  BY DEF Weights
<1>2. \A i \in 1..14 : Weight(i, w[i]) = IF i % 2 = 0 THEN Doubled(w[i]) ELSE w[i]
  BY DEF Weight
<1>3. LuhnSum(w) = Sum14(Weights(w))
  BY <1>1, <1>2 DEF LuhnSum, Sum14
<1>4. Weights(w) \in [1..14 -> Nat]
  <2>1. \A i \in 1..14 : Weight(i, w[i]) \in Nat
    BY WeightType DEF Word, Digit
  <2> QED BY <2>1 DEF Weights
<1>5. \A t \in [1..14 -> Nat] : Sum14(t) \in Nat
  <2> SUFFICES ASSUME NEW t \in [1..14 -> Nat] PROVE Sum14(t) \in Nat
    OBVIOUS
  <2>1. \A i \in 1..14 : t[i] \in Nat
    OBVIOUS
  <2>2. t[1] + t[2] + t[3] + t[4] + t[5] + t[6] + t[7] \in Nat
    BY <2>1
  <2> QED BY <2>1, <2>2 DEF Sum14
<1> QED BY <1>3, <1>4, <1>5

LEMMA WordIsSequence ==
  ASSUME NEW w \in Seq(Digit), Len(w) = 14
  PROVE  w \in Word /\ w \in Seq(Int)
<1>1. w \in [1..Len(w) -> Digit] /\ Len(w) \in Nat
  BY LenProperties
<1>2. w \in [1..Len(w) -> Int]
  BY <1>1 DEF Digit
<1>3. w \in Seq(Int)
  BY <1>1, <1>2, TupleIsSequence
<1>4. 1..Len(w) = 1..14
  OBVIOUS
<1> QED BY <1>1, <1>3, <1>4 DEF Word

LEMMA LuhnDigitType ==
  ASSUME NEW w \in Word
  PROVE  LuhnDigit(w) \in Int
BY SumOfWeights DEF LuhnDigit

(* Two players whose numbers are equal registered on one date, with one     *)
(* number of the day: the random and the hidden digits are not needed to    *)
(* tell players apart (Generate).                                           *)
THEOREM NumberDetermines ==
  ASSUME NEW d \in Date, NEW m \in Sequence, NEW r3 \in Random3,
         NEW e \in Date, NEW n \in Sequence, NEW s3 \in Random3,
         UserNumber(d, m, r3) = UserNumber(e, n, s3)
  PROVE  d = e /\ m = n
<1> DEFINE v == Body(d, m, r3)
           w == Body(e, n, s3)
<1>1. v \in Seq(Digit) /\ w \in Seq(Digit) /\ Len(v) = 14 /\ Len(w) = 14
  BY BodyParts
<1>2. \A i \in 1..14 : v[i] = w[i]
  <2>1. v \o <<LuhnDigit(v)>> = w \o <<LuhnDigit(w)>>
    BY DEF UserNumber
  <2> HIDE DEF v, w
  <2>2. v \in Word /\ w \in Word /\ v \in Seq(Int) /\ w \in Seq(Int)
    BY <1>1, WordIsSequence
  <2>3. <<LuhnDigit(v)>> \in Seq(Int) /\ <<LuhnDigit(w)>> \in Seq(Int)
    BY <2>2, LuhnDigitType
  <2> SUFFICES ASSUME NEW i \in 1..14 PROVE v[i] = w[i]
    OBVIOUS
  <2>4. i \in Int /\ 1 <= i /\ i <= Len(v) /\ i <= Len(w)
    BY <1>1
  <2>5. (v \o <<LuhnDigit(v)>>)[i] = v[i]
    BY <2>2, <2>3, <2>4, JoinedBefore
  <2>6. (w \o <<LuhnDigit(w)>>)[i] = w[i]
    BY <2>2, <2>3, <2>4, JoinedBefore
  <2> QED BY <2>1, <2>5, <2>6
<1>3. \A i \in 1..6 : v[1 + i] = Obfuscated(d)[i] /\ w[1 + i] = Obfuscated(e)[i]
  BY BodyParts
<1>4. \A i \in 1..4 : v[7 + i] = FourDigits(m)[i] /\ w[7 + i] = FourDigits(n)[i]
  BY BodyParts
<1> HIDE DEF v, w
<1>5. Obfuscated(d) = Obfuscated(e)
  <2>1. \A i \in 1..6 : Obfuscated(d)[i] = Obfuscated(e)[i]
    BY <1>2, <1>3
  <2> QED BY <2>1, ObfuscatedType
<1>6. FourDigits(m)[1] = FourDigits(n)[1] /\ FourDigits(m)[2] = FourDigits(n)[2]
      /\ FourDigits(m)[3] = FourDigits(n)[3] /\ FourDigits(m)[4] = FourDigits(n)[4]
  BY <1>2, <1>4
<1>7. m = n
  BY <1>6, FourDigitsDetermine
<1> QED BY <1>5, <1>7, DateCanBeReadBack

-----------------------------------------------------------------------------
(* A number is never the empty one. *)
LEMMA NumberNotEmpty ==
  ASSUME NEW d \in Date, NEW m \in Sequence, NEW r3 \in Random3
  PROVE  UserNumber(d, m, r3) # <<>>
<1> DEFINE w == Body(d, m, r3)
<1>1. w \in Seq(Digit) /\ Len(w) = 14
  BY BodyParts
<1> HIDE DEF w
<1>2. w \in Word /\ w \in Seq(Int)
  BY <1>1, WordIsSequence
<1>3. <<LuhnDigit(w)>> \in Seq(Int) /\ Len(<<LuhnDigit(w)>>) = 1
  BY <1>2, LuhnDigitType
<1>4. Len(w \o <<LuhnDigit(w)>>) = Len(w) + Len(<<LuhnDigit(w)>>)
  BY <1>2, <1>3, Joined
<1>5. w \o <<LuhnDigit(w)>> # <<>>
  BY <1>1, <1>3, <1>4
<1> QED BY <1>5 DEF UserNumber, w

-----------------------------------------------------------------------------
(* The check digit *)

(* Two words have one check digit only if their sums are equal modulo ten.  *)
LEMMA DigitTellsSum ==
  ASSUME NEW v \in Word, NEW w \in Word, LuhnDigit(v) = LuhnDigit(w),
         LuhnSum(v) - LuhnSum(w) \in -9..9
  PROVE  LuhnSum(v) = LuhnSum(w)
<1> DEFINE s == LuhnSum(v)
           t == LuhnSum(w)
<1>1. s \in Nat /\ t \in Nat
  BY SumOfWeights
<1>2. (10 - (s % 10)) % 10 = (10 - (t % 10)) % 10
  BY DEF LuhnDigit
<1> HIDE DEF s, t
<1>3. s % 10 \in 0..9 /\ t % 10 \in 0..9
  BY <1>1
<1>4. \A a, b \in 0..9 : (10 - a) % 10 = (10 - b) % 10 => a = b
  OBVIOUS
<1>5. s % 10 = t % 10
  BY <1>2, <1>3, <1>4
<1>6. s - t \in -9..9
  BY DEF s, t
<1>7. s = t
  BY <1>1, <1>5, <1>6
<1> QED BY <1>7 DEF s, t

(* Sums that differ in one term, or in two that are adjacent *)
LEMMA OneTermDiffers ==
  ASSUME NEW s \in [1..14 -> Nat], NEW t \in [1..14 -> Nat], NEW k \in 1..14,
         \A i \in 1..14 : i # k => s[i] = t[i]
  PROVE  Sum14(s) - Sum14(t) = s[k] - t[k]
BY DEF Sum14

LEMMA TwoTermsDiffer ==
  ASSUME NEW s \in [1..14 -> Nat], NEW t \in [1..14 -> Nat], NEW k \in 1..13,
         \A i \in 1..14 : i # k /\ i # k + 1 => s[i] = t[i]
  PROVE  Sum14(s) - Sum14(t) = (s[k] + s[k + 1]) - (t[k] + t[k + 1])
BY DEF Sum14

(* One mistyped digit changes the check digit (luhnDigit). *)
THEOREM MistypedDigitShows ==
  ASSUME NEW v \in Word, NEW w \in Word, NEW k \in 1..14,
         v[k] # w[k], \A i \in 1..14 \ {k} : v[i] = w[i]
  PROVE  LuhnDigit(v) # LuhnDigit(w)
<1> DEFINE x == Weight(k, v[k])
           y == Weight(k, w[k])
<1>1. v[k] \in Digit /\ w[k] \in Digit
  BY DEF Word
<1>2. x \in 0..9 /\ y \in 0..9
  BY <1>1, WeightType DEF Digit
<1>3. x # y
  <2>1. \A a, b \in Digit : Doubled(a) = Doubled(b) => a = b
    BY DEF Doubled, Digit
  <2> QED BY <1>1, <2>1 DEF Weight
<1>4. \A i \in 1..14 : i # k => Weights(v)[i] = Weights(w)[i]
  BY DEF Weights
<1>5. Weights(v)[k] = x /\ Weights(w)[k] = y
  BY DEF Weights
<1>6. LuhnSum(v) - LuhnSum(w) = x - y
  <2>1. Sum14(Weights(v)) - Sum14(Weights(w)) = Weights(v)[k] - Weights(w)[k]
    BY <1>4, SumOfWeights, OneTermDiffers
  <2> QED BY <2>1, <1>5, SumOfWeights
<1> HIDE DEF x, y
<1>7. LuhnSum(v) \in Nat /\ LuhnSum(w) \in Nat
  BY SumOfWeights
<1>8. LuhnSum(v) - LuhnSum(w) \in -9..9 /\ LuhnSum(v) # LuhnSum(w)
  BY <1>2, <1>3, <1>6, <1>7
<1> QED BY <1>8, DigitTellsSum

(* Two adjacent digits that change places change the check digit, unless    *)
(* they are 0 and 9 (luhnDigit).                                            *)
THEOREM SwappedDigitsShow ==
  ASSUME NEW v \in Word, NEW w \in Word, NEW k \in 1..13,
         w[k] = v[k + 1], w[k + 1] = v[k], v[k] # v[k + 1],
         {v[k], v[k + 1]} # {0, 9},
         \A i \in 1..14 \ {k, k + 1} : v[i] = w[i]
  PROVE  LuhnDigit(v) # LuhnDigit(w)
<1> DEFINE a == v[k]
           b == v[k + 1]
           x == Weight(k, a) + Weight(k + 1, b)
           y == Weight(k, b) + Weight(k + 1, a)
<1>1. a \in Digit /\ b \in Digit /\ k + 1 \in 1..14
  BY DEF Word
<1>2. x - y \in -9..9 /\ x # y
  <2>1. \A c, d \in Digit : c # d /\ ~(c = 0 /\ d = 9) /\ ~(c = 9 /\ d = 0)
           => /\ Doubled(c) + d # Doubled(d) + c
              /\ (Doubled(c) + d) - (Doubled(d) + c) \in -9..9
    BY DEF Doubled, Digit
  <2>2. a # b /\ ~(a = 0 /\ b = 9) /\ ~(a = 9 /\ b = 0)
    OBVIOUS
  <2>3. CASE k % 2 = 0
    <3>1. x = Doubled(a) + b /\ y = Doubled(b) + a
      <4>1. (k + 1) % 2 # 0
        BY <2>3
      <4> QED BY <2>3, <4>1 DEF Weight
    <3> HIDE DEF a, b, x, y
    <3> QED BY <1>1, <2>1, <2>2, <3>1
  <2>4. CASE k % 2 # 0
    <3>1. x = a + Doubled(b) /\ y = b + Doubled(a)
      <4>1. (k + 1) % 2 = 0
        BY <2>4
      <4> QED BY <2>4, <4>1 DEF Weight
    <3> HIDE DEF a, b, x, y
    <3>2. Doubled(a) \in Int /\ Doubled(b) \in Int /\ a \in Int /\ b \in Int
      BY <1>1 DEF Doubled, Digit
    <3>3. x = Doubled(b) + a /\ y = Doubled(a) + b
      BY <3>1, <3>2
    <3> QED BY <1>1, <2>1, <2>2, <3>3
  <2> QED BY <2>3, <2>4
<1>3. \A i \in 1..14 : i # k /\ i # k + 1 => Weights(v)[i] = Weights(w)[i]
  BY DEF Weights
<1>4. /\ Weights(v)[k] + Weights(v)[k + 1] = x
      /\ Weights(w)[k] + Weights(w)[k + 1] = y
  BY <1>1 DEF Weights
<1>5. LuhnSum(v) - LuhnSum(w) = x - y
  <2>1. Sum14(Weights(v)) - Sum14(Weights(w))
          = (Weights(v)[k] + Weights(v)[k + 1]) - (Weights(w)[k] + Weights(w)[k + 1])
    BY <1>3, SumOfWeights, TwoTermsDiffer
  <2> QED BY <2>1, <1>4, SumOfWeights
<1>6. x \in Int /\ y \in Int /\ LuhnSum(v) \in Int /\ LuhnSum(w) \in Int
  <2>1. /\ Weight(k, a) \in Digit /\ Weight(k + 1, b) \in Digit
        /\ Weight(k, b) \in Digit /\ Weight(k + 1, a) \in Digit
    <3>1. k \in 1..14
      OBVIOUS
    <3> HIDE DEF a, b
    <3> QED BY <1>1, <3>1, WeightType
  <2>2. LuhnSum(v) \in Int /\ LuhnSum(w) \in Int
    BY SumOfWeights
  <2> QED BY <2>1, <2>2 DEF Digit
<1> HIDE DEF x, y
<1>7. LuhnSum(v) - LuhnSum(w) \in -9..9 /\ LuhnSum(v) # LuhnSum(w)
  BY <1>2, <1>5, <1>6
<1> QED BY <1>7, DigitTellsSum

-----------------------------------------------------------------------------
(* The accounts that carry these numbers. *)

Row == [mail : Mails, pw : Passwords, no : Seq(Int), status : {"00", "20"}]

SentCode == [target : Mails, code : Codes, main : Nat]

Request ==
    [pc : {"idle", "reg_read", "reg_number", "reg_first", "reg_save", "confirm", "mail", "leave"},
     kind : {"", "register", "verify", "change", "send"},
     id : Nat, no : Seq(Int), day : Days, same : BOOLEAN,
     mail : Mails \cup {Nothing}, old : Mails \cup {Nothing}, pw : Passwords \cup {Nothing}]

Tables ==
    /\ users \in Seq(Row) /\ codes \in Seq(SentCode)
    /\ day \in Days /\ lastSeq \in [Days -> Nat] /\ \A d \in Days : lastSeq[d] <= MaxSeq
    /\ req \in [Req -> Request]
    /\ accepted \subseteq DOMAIN codes

(* What a handler q still knows of the rows it has read *)
Knows(q) ==
    /\ q.pc \in {"reg_read", "reg_number", "reg_first", "reg_save"} =>
          q.mail \in Mails /\ q.pw \in Passwords /\ q.id \in 0..Len(users)
    /\ q.pc \in {"reg_read", "reg_number", "reg_first"} => q.no = NoNumber
    /\ q.pc = "mail" => q.mail \in Mails
    /\ q.pc = "confirm" =>
          /\ q.id \in 1..Len(users) /\ q.no = users[q.id].no
          /\ q.mail \in Mails /\ q.old \in Mails /\ q.pw \in Passwords
          /\ q.kind \in {"verify", "change"} /\ (q.kind = "verify" => q.old = q.mail)

Requests == \A r \in Req : Knows(req[r])

OneRowPerMail == \A i, j \in 1..Len(users) : users[i].mail = users[j].mail => i = j

(* A number that was drawn on some day, when the sequences stand at seqs *)
Drawn(no, seqs) ==
    \E d \in Days, n \in Nat, r3 \in Random : n < seqs[d] /\ no = UserNumber(Dates[d], n, r3)

(* A registration that has drawn a number and not saved it *)
Pending(q) == q.pc = "reg_save" /\ q.no # NoNumber

NumbersIssued ==
    /\ \A i \in 1..Len(users) : users[i].no # NoNumber => Drawn(users[i].no, lastSeq)
    /\ \A r \in Req : Pending(req[r]) => Drawn(req[r].no, lastSeq)

NumbersApart ==
    /\ \A i, j \in 1..Len(users) : i # j /\ users[i].no # NoNumber => users[i].no # users[j].no
    /\ \A r \in Req : Pending(req[r]) => \A i \in 1..Len(users) : users[i].no # req[r].no
    /\ \A r, s \in Req : r # s /\ Pending(req[r]) /\ Pending(req[s]) => req[r].no # req[s].no

Verified ==
    \A i \in 1..Len(users) :
        users[i].status = "20" => \E c \in accepted : codes[c].target = users[i].mail

AccountsInv ==
    Tables /\ Requests /\ OneRowPerMail /\ Verified /\ NumbersIssued /\ NumbersApart

(* A handler that may still write an older password into row i *)
Threatens(q, i) ==
    /\ q.id = i
    /\ \/ q.pc \in {"reg_number", "reg_first", "reg_save"}
       \/ q.pc = "confirm" /\ q.kind \in {"verify", "change"} /\ q.pw # users[i].pw

(* What ActivationSettles asks of a step, without the look-up of Login *)
KeepsSettled ==
    \A i \in 1..Len(users) :
        Settled(i) => i \in 1..Len(users') /\ Settled(i)' /\ users'[i].pw = users[i].pw

-----------------------------------------------------------------------------
LEMMA LeastOf ==
  ASSUME NEW S \in SUBSET (Nat \ {0})
  PROVE  /\ S = {} => FirstOf(S) = None
         /\ S # {} => FirstOf(S) \in S
<1>1. CASE S = {}
  BY <1>1 DEF FirstOf
<1>2. CASE S # {}
  <2>1. \E i \in S : \A j \in S : i <= j
    <3> DEFINE R == OpToRel(<, Nat)
    <3>1. S \subseteq Nat /\ IsWellFoundedOn(R, Nat)
      BY NatLessThanWellFounded
    <3>2. PICK i \in S : \A j \in S : ~(<<j, i>> \in R)
      BY <1>2, <3>1, WFMin
    <3>3. ASSUME NEW j \in S, j < i PROVE FALSE
      BY <3>2, <3>3 DEF OpToRel
    <3> QED BY <3>3
  <2> QED BY <1>2, <2>1 DEF FirstOf
<1> QED BY <1>1, <1>2

(* The row of an address *)
LEMMA RowOfMail ==
  ASSUME Tables, NEW m
  PROVE  /\ Len(users) \in Nat /\ DOMAIN users = 1..Len(users)
         /\ UserByMail(m) \in 0..Len(users)
         /\ UserByMail(m) # None => users[UserByMail(m)].mail = m
         /\ \A i \in 1..Len(users) : users[i].mail = m => UserByMail(m) # None
<1>1. Len(users) \in Nat /\ DOMAIN users = 1..Len(users)
  BY DEF Tables
<1> DEFINE S == {i \in DOMAIN users : users[i].mail = m}
<1>2. S \in SUBSET (Nat \ {0})
  BY <1>1
<1>3. (S = {} => FirstOf(S) = None) /\ (S # {} => FirstOf(S) \in S)
  BY <1>2, LeastOf
<1>4. UserByMail(m) = FirstOf(S)
  BY DEF UserByMail
<1>5. UserByMail(m) # None => UserByMail(m) \in S
  BY <1>3, <1>4
<1>6. UserByMail(m) = None => S = {}
  <2>1. None \notin S
    BY <1>1 DEF None
  <2> QED BY <1>3, <1>4, <2>1
<1> HIDE DEF S
<1>7. UserByMail(m) \in S => UserByMail(m) \in 1..Len(users) /\ users[UserByMail(m)].mail = m
  BY <1>1 DEF S
<1>8. S = {} => \A i \in 1..Len(users) : users[i].mail # m
  BY <1>1 DEF S
<1> QED BY <1>1, <1>5, <1>6, <1>7, <1>8 DEF None

LEMMA RowOfCode ==
  ASSUME Tables, NEW m, NEW c, CodeRow(m, c) # None
  PROVE  CodeRow(m, c) \in DOMAIN codes /\ codes[CodeRow(m, c)].target = m
<1>1. Len(codes) \in Nat /\ DOMAIN codes = 1..Len(codes)
  BY DEF Tables
<1> DEFINE S == {i \in DOMAIN codes : codes[i].target = m /\ codes[i].code = c}
<1>2. S \in SUBSET (Nat \ {0})
  BY <1>1
<1>3. FirstOf(S) # None
  BY DEF CodeRow
<1>4. FirstOf(S) \in S
  BY <1>2, <1>3, LeastOf
<1> QED BY <1>4 DEF CodeRow

LEMMA OverlappingIs ==
  ASSUME NEW i PROVE Overlapping(i) <=> \E r \in Req : Threatens(req[r], i)
BY DEF Overlapping, Threatens

(* The first day is one of the days, and the assumption on the dates, as facts *)
LEMMA DaysOf ==
  /\ Days = 1..Len(Dates) /\ Len(Dates) \in Nat /\ 1 \in Days
  /\ \A d \in Days : Dates[d] \in Date
  /\ \A d, e \in Days : Dates[d] = Dates[e] => d = e
<1>1. Dates \in Seq(Date) /\ Dates # <<>>
  BY AccountsAssumption DEF AccountsAssumption
<1>2. Days = 1..Len(Dates) /\ Len(Dates) \in Nat /\ 1 \in Days
  BY <1>1 DEF Days
<1>3. \A d \in Days : Dates[d] \in Date
  BY <1>1, <1>2
<1>4. \A d, e \in Days : Dates[d] = Dates[e] => d = e
  BY AccountsAssumption DEF AccountsAssumption, Days
<1> QED BY <1>2, <1>3, <1>4

LEMMA NumberType ==
  ASSUME NEW d \in Date, NEW m \in Sequence, NEW r3 \in Random3
  PROVE  UserNumber(d, m, r3) \in Seq(Int) /\ UserNumber(d, m, r3) # NoNumber
<1> DEFINE w == Body(d, m, r3)
<1>1. w \in Seq(Digit) /\ Len(w) = 14
  BY BodyParts
<1> HIDE DEF w
<1>2. w \in Word /\ w \in Seq(Int)
  BY <1>1, WordIsSequence
<1>3. <<LuhnDigit(w)>> \in Seq(Int)
  BY <1>2, LuhnDigitType
<1>4. w \o <<LuhnDigit(w)>> \in Seq(Int)
  BY <1>2, <1>3, Joined
<1> QED BY <1>4, NumberNotEmpty DEF UserNumber, w, NoNumber

LEMMA EqualNumbers ==
  \A d, e \in Date, m, n \in Sequence, r3, s3 \in Random3 :
     UserNumber(d, m, r3) = UserNumber(e, n, s3) => d = e /\ m = n
<1> SUFFICES ASSUME NEW d \in Date, NEW e \in Date, NEW m \in Sequence, NEW n \in Sequence,
                    NEW r3 \in Random3, NEW s3 \in Random3,
                    UserNumber(d, m, r3) = UserNumber(e, n, s3)
             PROVE  d = e /\ m = n
  OBVIOUS
<1> QED BY NumberDetermines

(* A number just drawn from a day is a number nobody was given. *)
LEMMA FreshNumber ==
  ASSUME Tables, NEW d \in Days, lastSeq[d] < MaxSeq, NEW no \in NumberFor(d, lastSeq[d])
  PROVE  no \in Seq(Int) /\ no # NoNumber /\ ~Drawn(no, lastSeq)
<1>1. PICK r3 \in Random : no = UserNumber(Dates[d], lastSeq[d], r3)
  BY DEF NumberFor
<1>2. MaxSeq \in Nat /\ MaxSeq <= 9999 /\ Random \subseteq Random3
  BY AccountsAssumption DEF AccountsAssumption
<1>3. lastSeq[d] \in Sequence /\ r3 \in Random3 /\ Dates[d] \in Date
  <2>1. lastSeq[d] \in Nat /\ lastSeq[d] <= MaxSeq
    BY DEF Tables
  <2>2. lastSeq[d] \in Sequence
    BY <1>2, <2>1 DEF Sequence
  <2>3. r3 \in Random3
    BY <1>2
  <2> QED BY <2>2, <2>3, DaysOf
<1>4. ~Drawn(no, lastSeq)
  <2> SUFFICES ASSUME NEW e \in Days, NEW n \in Nat, NEW s3 \in Random, n < lastSeq[e],
                      no = UserNumber(Dates[e], n, s3)
               PROVE FALSE
    BY DEF Drawn
  <2>1. lastSeq[e] \in Nat /\ lastSeq[e] <= MaxSeq
    BY DEF Tables
  <2>2. n \in Sequence
    BY <1>2, <2>1 DEF Sequence
  <2>5. s3 \in Random3 /\ Dates[e] \in Date
    BY <1>2, DaysOf
  <2>6. UserNumber(Dates[d], lastSeq[d], r3) = UserNumber(Dates[e], n, s3)
    BY <1>1
  <2>7. \A x \in Date, k \in Sequence, z \in Random3 :
           UserNumber(x, k, z) = UserNumber(Dates[e], n, s3) => x = Dates[e] /\ k = n
    BY <2>2, <2>5, EqualNumbers
  <2>3. Dates[d] = Dates[e] /\ lastSeq[d] = n
    BY <1>3, <2>6, <2>7
  <2>4. d = e
    BY <2>3, DaysOf
  <2> QED BY <2>1, <2>3, <2>4
<1> QED BY <1>1, <1>3, <1>4, NumberType

(* What was drawn stays drawn. *)
LEMMA IssuedStays ==
  ASSUME Tables, lastSeq' \in [Days -> Nat], \A d \in Days : lastSeq[d] <= lastSeq'[d],
         NEW no, Drawn(no, lastSeq)
  PROVE  Drawn(no, lastSeq')
<1>1. PICK d \in Days, n \in Nat, r3 \in Random : n < lastSeq[d] /\ no = UserNumber(Dates[d], n, r3)
  BY DEF Drawn
<1>2. lastSeq[d] \in Nat /\ lastSeq'[d] \in Nat /\ lastSeq[d] <= lastSeq'[d]
  BY DEF Tables
<1>3. n < lastSeq'[d]
  BY <1>1, <1>2
<1> QED BY <1>1, <1>3 DEF Drawn

-----------------------------------------------------------------------------
LEMMA IdleRequest ==
  /\ Idle \in Request /\ Idle.pc = "idle" /\ Knows(Idle) /\ ~Pending(Idle)
  /\ \A i : ~Threatens(Idle, i)
<1>1. Idle \in Request
  <2>1. NoNumber \in Seq(Int)
    BY DEF NoNumber
  <2>2. 1 \in Days /\ None \in Nat
    BY DaysOf DEF None
  <2>3. Nothing \in Mails \cup {Nothing} /\ Nothing \in Passwords \cup {Nothing}
    OBVIOUS
  <2>4. \A f \in BOOLEAN :
           [pc |-> "idle", kind |-> "", id |-> None, no |-> NoNumber, day |-> 1, same |-> f,
            mail |-> Nothing, old |-> Nothing, pw |-> Nothing] \in Request
    BY <2>1, <2>2, <2>3 DEF Request
  <2> QED BY <2>4, Zenon DEF Idle
<1> QED BY <1>1 DEF Idle, Knows, Pending, Threatens

LEMMA AccountsInit == Init => AccountsInv
<1> SUFFICES ASSUME Init PROVE AccountsInv
  OBVIOUS
<1>1. Len(users) = 0 /\ \A r \in Req : req[r] = Idle
  BY DEF Init
<1>2. Tables
  <2>1. Opening \in Nat /\ Opening <= MaxSeq /\ MaxSeq \in Nat
    BY AccountsAssumption DEF AccountsAssumption
  <2>2. lastSeq \in [Days -> Nat] /\ \A d \in Days : lastSeq[d] <= MaxSeq
    BY <2>1 DEF Init, None
  <2> QED BY <2>2, IdleRequest, DaysOf DEF Tables, Init
<1> QED BY <1>1, <1>2, IdleRequest
      DEF AccountsInv, Requests, OneRowPerMail, Verified, NumbersIssued, NumbersApart

-----------------------------------------------------------------------------
(* A handler goes on to q, and no row of user_main changes.                 *)
LEMMA MoveStep ==
  ASSUME AccountsInv, NEW r \in Req, NEW q \in Request, req' = [req EXCEPT ![r] = q],
         users' = users, accepted' = accepted, day' = day,
         codes' \in Seq(SentCode), \A c \in DOMAIN codes : c \in DOMAIN codes' /\ codes'[c] = codes[c],
         lastSeq' \in [Days -> Nat], \A d \in Days : lastSeq[d] <= lastSeq'[d] /\ lastSeq'[d] <= MaxSeq,
         Knows(q), \A i \in 1..Len(users) : Settled(i) => ~Threatens(q, i),
         Pending(q) => Drawn(q.no, lastSeq') /\ ~Drawn(q.no, lastSeq)
  PROVE  AccountsInv' /\ KeepsSettled
<1>1. Tables /\ req \in [Req -> Request]
  BY DEF AccountsInv, Tables
<1>2. req'[r] = q /\ \A s \in Req : s # r => req'[s] = req[s]
  BY <1>1
<1>3. Tables'
  BY DEF AccountsInv, Tables
<1>4. Requests'
  <2>1. \A s \in Req : Knows(req'[s])
    BY <1>2 DEF AccountsInv, Requests
  <2> QED BY <2>1 DEF Requests, Knows
<1>5. OneRowPerMail'
  BY DEF AccountsInv, OneRowPerMail
<1>6. Verified'
  BY DEF AccountsInv, Verified, Tables
<1>7. NumbersIssued'
  <2>1. \A i \in 1..Len(users) : users[i].no # NoNumber => Drawn(users[i].no, lastSeq')
    BY <1>1, IssuedStays DEF AccountsInv, NumbersIssued
  <2>2. \A s \in Req : Pending(req'[s]) => Drawn(req'[s].no, lastSeq')
    <3> SUFFICES ASSUME NEW s \in Req, Pending(req'[s]) PROVE Drawn(req'[s].no, lastSeq')
      OBVIOUS
    <3>1. CASE s = r
      BY <1>2, <3>1
    <3>2. CASE s # r
      <4>1. Drawn(req[s].no, lastSeq)
        BY <1>2, <3>2 DEF AccountsInv, NumbersIssued
      <4>2. Drawn(req[s].no, lastSeq')
        BY <1>1, <4>1, IssuedStays
      <4> QED BY <1>2, <3>2, <4>2
    <3> QED BY <3>1, <3>2
  <2> QED BY <2>1, <2>2 DEF NumbersIssued, Pending
<1>8. NumbersApart'
  <2>1. /\ \A i \in 1..Len(users) : Pending(q) => users[i].no # q.no
        /\ \A s \in Req : s # r /\ Pending(req[s]) /\ Pending(q) => req[s].no # q.no
    BY DEF AccountsInv, NumbersIssued, Pending
  <2>2. \A s \in Req : Pending(req'[s]) => \A i \in 1..Len(users) : users[i].no # req'[s].no
    BY <1>2, <2>1 DEF AccountsInv, NumbersApart
  <2>3. \A s, t \in Req : s # t /\ Pending(req'[s]) /\ Pending(req'[t]) => req'[s].no # req'[t].no
    BY <1>2, <2>1 DEF AccountsInv, NumbersApart
  <2> QED BY <2>2, <2>3 DEF AccountsInv, NumbersApart, Pending
<1>9. KeepsSettled
  <2> SUFFICES ASSUME NEW i \in 1..Len(users), Settled(i), Overlapping(i)' PROVE FALSE
    BY DEF KeepsSettled, Settled
  <2>1. PICK s \in Req : Threatens(req'[s], i)
    BY DEF Overlapping, Threatens
  <2>2. ~Threatens(req[s], i)
    BY OverlappingIs DEF Settled
  <2> QED BY <1>2, <2>1, <2>2
<1> QED BY <1>3, <1>4, <1>5, <1>6, <1>7, <1>8, <1>9 DEF AccountsInv

(* A handler has written rows of user_main, and is over or sends its mail.   *)
LEMMA RowStep ==
  ASSUME AccountsInv, NEW r \in Req, NEW q \in Request, req' = [req EXCEPT ![r] = q],
         Knows(q), q.pc \in {"idle", "mail"},
         codes' = codes, day' = day, lastSeq' = lastSeq,
         users' \in Seq(Row), Len(users) <= Len(users'),
         accepted \subseteq accepted', accepted' \subseteq DOMAIN codes,
         \A i \in 1..Len(users) : users'[i].no = users[i].no,
         \A i \in 1..Len(users') : i > Len(users) =>
             i = Len(users) + 1 /\ req[r].pc = "reg_save" /\ users'[i].no = req[r].no,
         OneRowPerMail', Verified',
         \A i \in 1..Len(users) : Settled(i) => users'[i].status = "20" /\ users'[i].pw = users[i].pw
  PROVE  AccountsInv' /\ KeepsSettled
<1>1. Tables /\ req \in [Req -> Request] /\ Len(users) \in Nat /\ Len(users') \in Nat
  BY DEF AccountsInv, Tables
<1>2. req'[r] = q /\ \A s \in Req : s # r => req'[s] = req[s]
  BY <1>1
<1>3. Tables'
  BY DEF AccountsInv, Tables
<1>4. Requests'
  <2>1. \A s \in Req : Knows(req[s]) => Knows(req[s])'
    BY <1>1, <1>2 DEF Knows
  <2> QED BY <1>2 DEF AccountsInv, Requests, Knows
<1>5. ~Pending(q) /\ \A s \in Req : Pending(req'[s]) => s # r /\ Pending(req[s])
  BY <1>2 DEF Pending
<1>6. \A i \in 1..Len(users') :
         \/ i \in 1..Len(users) /\ users'[i].no = users[i].no
         \/ i = Len(users) + 1 /\ req[r].pc = "reg_save" /\ users'[i].no = req[r].no
  BY <1>1
<1>8. NumbersIssued'
  <2>1. \A i \in 1..Len(users') : users'[i].no # NoNumber => Drawn(users'[i].no, lastSeq)
    BY <1>6 DEF AccountsInv, NumbersIssued, Pending
  <2>2. \A s \in Req : Pending(req'[s]) => Drawn(req'[s].no, lastSeq)
    BY <1>2, <1>5 DEF AccountsInv, NumbersIssued
  <2> QED BY <2>1, <2>2 DEF NumbersIssued, Pending
<1>9. NumbersApart'
  <2>1. \A i, j \in 1..Len(users') : i # j /\ users'[i].no # NoNumber => users'[i].no # users'[j].no
    BY <1>1, <1>6 DEF AccountsInv, NumbersApart, Pending
  <2>2. \A s \in Req : Pending(req'[s]) => \A i \in 1..Len(users') : users'[i].no # req'[s].no
    BY <1>2, <1>5, <1>6 DEF AccountsInv, NumbersApart, Pending
  <2>3. \A s, t \in Req : s # t /\ Pending(req'[s]) /\ Pending(req'[t]) => req'[s].no # req'[t].no
    BY <1>2, <1>5 DEF AccountsInv, NumbersApart
  <2> QED BY <2>1, <2>2, <2>3 DEF NumbersApart, Pending
<1>10. KeepsSettled
  <2> SUFFICES ASSUME NEW i \in 1..Len(users), Settled(i), Overlapping(i)' PROVE FALSE
    BY <1>1 DEF KeepsSettled, Settled
  <2>1. PICK s \in Req : Threatens(req[s], i)' 
    BY DEF Overlapping, Threatens
  <2>2. ~Threatens(req[s], i) /\ users'[i].pw = users[i].pw
    BY OverlappingIs DEF Settled
  <2> QED BY <1>2, <2>1, <2>2 DEF Threatens
<1> QED BY <1>3, <1>4, <1>8, <1>9, <1>10 DEF AccountsInv
-----------------------------------------------------------------------------
(* A handler goes on to q, and no table changes.                            *)
LEMMA HandlerStep ==
  ASSUME AccountsInv, NEW r \in Req, NEW q \in Request, req' = [req EXCEPT ![r] = q],
         UNCHANGED <<tables, accepted>>,
         Knows(q), ~Pending(q), \A i \in 1..Len(users) : Settled(i) => ~Threatens(q, i)
  PROVE  AccountsInv' /\ KeepsSettled
<1>1. /\ codes \in Seq(SentCode) /\ lastSeq \in [Days -> Nat]
      /\ \A d \in Days : lastSeq[d] \in Nat /\ lastSeq[d] <= MaxSeq
  BY DEF AccountsInv, Tables
<1>2. UNCHANGED <<users, codes, day, lastSeq, accepted>>
  BY DEF tables
<1>3. /\ codes' \in Seq(SentCode) /\ \A c \in DOMAIN codes : c \in DOMAIN codes' /\ codes'[c] = codes[c]
      /\ lastSeq' \in [Days -> Nat] /\ \A d \in Days : lastSeq[d] <= lastSeq'[d] /\ lastSeq'[d] <= MaxSeq
  BY <1>1, <1>2
<1> QED BY <1>2, <1>3, MoveStep

LEMMA Proceeding ==
  ASSUME AccountsInv, NEW r \in Req, NEW pc \in {"mail", "leave"},
         pc = "mail" => req[r].mail \in Mails
  PROVE  LET q == [Idle EXCEPT !.kind = "register", !.mail = req[r].mail, !.pc = pc] IN
         q \in Request /\ q.pc = pc /\ Knows(q) /\ ~Pending(q) /\ \A i : ~Threatens(q, i)
<1> DEFINE q == [Idle EXCEPT !.kind = "register", !.mail = req[r].mail, !.pc = pc]
<1>1. Idle \in Request /\ req[r] \in Request
  BY IdleRequest DEF AccountsInv, Tables
<1>2. q \in Request /\ q.pc = pc /\ q.mail = req[r].mail
  BY <1>1 DEF Request
<1> HIDE DEF q
<1>3. Knows(q) /\ ~Pending(q) /\ \A i : ~Threatens(q, i)
  BY <1>2 DEF Knows, Pending, Threatens
<1> QED BY <1>2, <1>3 DEF q

LEMMA ProceedStep ==
  ASSUME AccountsInv, NEW r \in Req, NEW pc \in {"mail", "leave"}, Proceed(r, pc),
         pc = "mail" => req[r].mail \in Mails, UNCHANGED <<tables, accepted>>
  PROVE  AccountsInv' /\ KeepsSettled
BY Proceeding, HandlerStep DEF Proceed

LEMMA EnterStep ==
  ASSUME AccountsInv, NEW r \in Req, NEW m \in Mails, NEW p \in Passwords, RegisterEnter(r, m, p)
  PROVE  AccountsInv' /\ KeepsSettled
<1> DEFINE q == [Idle EXCEPT !.kind = "register", !.mail = m, !.pw = p,
                             !.pc = IF m \in guard THEN "leave" ELSE "reg_read"]
<1>1. /\ q \in Request /\ q.pc \in {"leave", "reg_read"} /\ q.mail = m /\ q.pw = p
      /\ q.id = None /\ q.no = NoNumber
  <2>1. Idle \in Request /\ Idle.id = None /\ Idle.no = NoNumber
    BY IdleRequest DEF Idle
  <2>2. (IF m \in guard THEN "leave" ELSE "reg_read") \in {"leave", "reg_read"}
    OBVIOUS
  <2> QED BY <2>1, <2>2 DEF Request
<1>2. req' = [req EXCEPT ![r] = q] /\ UNCHANGED <<tables, accepted>>
  BY DEF RegisterEnter
<1> HIDE DEF q
<1>3. Len(users) \in Nat
  BY DEF AccountsInv, Tables
<1>4. Knows(q) /\ ~Pending(q) /\ \A i : ~Threatens(q, i)
  BY <1>1, <1>3 DEF Knows, Pending, Threatens, None
<1> QED BY <1>1, <1>2, <1>4, HandlerStep

LEMMA ReadStep ==
  ASSUME AccountsInv, NEW r \in Req, RegisterRead(r)
  PROVE  AccountsInv' /\ KeepsSettled
<1> DEFINE i == UserByMail(req[r].mail)
           q == [req[r] EXCEPT !.pc = "reg_number", !.id = i, !.day = day,
                               !.same = i # None /\ users[i].pw = req[r].pw]
<1>1. req[r] \in Request /\ req[r].pc = "reg_read" /\ UNCHANGED <<tables, accepted>>
  BY DEF AccountsInv, Tables, RegisterRead
<1>2. i \in 0..Len(users) /\ Len(users) \in Nat /\ day \in Days
  BY RowOfMail DEF AccountsInv, Tables
<1>3. CASE Proceed(r, "leave")
  BY <1>1, <1>3, ProceedStep
<1>4. CASE (i # None => users[i].status = "00") /\ req' = [req EXCEPT ![r] = q]
  <2>1. (i # None /\ users[i].pw = req[r].pw) \in BOOLEAN
    OBVIOUS
  <2> HIDE DEF i
  <2>2. i \in Nat
    BY <1>2
  <2>3. /\ q \in Request /\ q.pc = "reg_number" /\ q.id = i
        /\ q.mail = req[r].mail /\ q.pw = req[r].pw /\ q.no = req[r].no
    BY <1>1, <1>2, <2>1, <2>2 DEF Request
  <2> HIDE DEF q
  <2>4. Knows(req[r])
    BY DEF AccountsInv, Requests
  <2>5. Knows(q) /\ ~Pending(q)
    BY <1>1, <1>2, <2>3, <2>4 DEF Knows, Pending
  <2>6. \A j \in 1..Len(users) : Settled(j) => ~Threatens(q, j)
    BY <1>4, <2>3 DEF Settled, Threatens, None
  <2> QED BY <1>1, <1>4, <2>3, <2>5, <2>6, HandlerStep
<1> QED BY <1>3, <1>4 DEF RegisterRead

(* A number is drawn, or not, and the player's row is next. *)
LEMMA NumberedStep ==
  ASSUME AccountsInv, NEW r \in Req, req[r].pc \in {"reg_number", "reg_first"},
         NEW no \in Seq(Int), NEW d \in Days,
         req' = [req EXCEPT ![r].pc = "reg_save", ![r].day = 1, ![r].no = no],
         no # NoNumber => Drawn(no, lastSeq') /\ ~Drawn(no, lastSeq),
         lastSeq' \in [Days -> Nat], \A e \in Days : lastSeq[e] <= lastSeq'[e] /\ lastSeq'[e] <= MaxSeq,
         UNCHANGED <<users, codes, day, accepted>>
  PROVE  AccountsInv' /\ KeepsSettled
<1> DEFINE q == [req[r] EXCEPT !.pc = "reg_save", !.day = 1, !.no = no]
<1>1. req[r] \in Request /\ req \in [Req -> Request] /\ codes \in Seq(SentCode)
  BY DEF AccountsInv, Tables
<1>2. /\ q \in Request /\ q.pc = "reg_save" /\ q.no = no /\ q.id = req[r].id
      /\ q.mail = req[r].mail /\ q.pw = req[r].pw
  BY <1>1, DaysOf DEF Request
<1>3. req' = [req EXCEPT ![r] = q]
  BY <1>1
<1> HIDE DEF q
<1>4. Knows(req[r])
  BY DEF AccountsInv, Requests
<1>5. Knows(q)
  BY <1>2, <1>4 DEF Knows
<1>6. \A i \in 1..Len(users) : Settled(i) => ~Threatens(q, i)
  <2> SUFFICES ASSUME NEW i \in 1..Len(users), Settled(i), Threatens(q, i) PROVE FALSE
    OBVIOUS
  <2>1. Threatens(req[r], i)
    BY <1>2 DEF Threatens
  <2> QED BY <2>1, OverlappingIs DEF Settled
<1>7. /\ codes' \in Seq(SentCode) /\ \A c \in DOMAIN codes : c \in DOMAIN codes' /\ codes'[c] = codes[c]
  BY <1>1
<1>8. Pending(q) => Drawn(q.no, lastSeq') /\ ~Drawn(q.no, lastSeq)
  BY <1>2 DEF Pending
<1> QED BY <1>2, <1>3, <1>5, <1>6, <1>7, <1>8, MoveStep

LEMMA UnnumberedStep ==
  ASSUME AccountsInv, NEW r \in Req, req[r].pc \in {"reg_number", "reg_first"}, Unnumbered(r),
         UNCHANGED <<tables, accepted>>
  PROVE  AccountsInv' /\ KeepsSettled
<1> DEFINE q == [req[r] EXCEPT !.pc = "reg_save", !.day = 1]
<1>1. req[r] \in Request /\ req \in [Req -> Request]
  BY DEF AccountsInv, Tables
<1>2. /\ q \in Request /\ q.pc = "reg_save" /\ q.no = req[r].no /\ q.id = req[r].id
      /\ q.mail = req[r].mail /\ q.pw = req[r].pw
  BY <1>1, DaysOf DEF Request
<1>3. req' = [req EXCEPT ![r] = q]
  BY <1>1 DEF Unnumbered
<1> HIDE DEF q
<1>4. Knows(req[r])
  BY DEF AccountsInv, Requests
<1>5. Knows(q) /\ ~Pending(q)
  BY <1>2, <1>4 DEF Knows, Pending
<1>6. \A i \in 1..Len(users) : Settled(i) => ~Threatens(q, i)
  <2> SUFFICES ASSUME NEW i \in 1..Len(users), Settled(i), Threatens(q, i) PROVE FALSE
    OBVIOUS
  <2>1. Threatens(req[r], i)
    BY <1>2 DEF Threatens
  <2> QED BY <2>1, OverlappingIs DEF Settled
<1> QED BY <1>2, <1>3, <1>5, <1>6, HandlerStep

(* The sequence of a day moves on, and its number may go to a new row. *)
LEMMA SequenceStep ==
  ASSUME AccountsInv, NEW r \in Req, req[r].pc \in {"reg_number", "reg_first"},
         NEW d \in Days, lastSeq[d] < MaxSeq,
         lastSeq' = [lastSeq EXCEPT ![d] = lastSeq[d] + 1], Numbered(r, d, lastSeq[d]),
         UNCHANGED <<users, codes, day, accepted>>
  PROVE  AccountsInv' /\ KeepsSettled
<1>1. Tables /\ lastSeq \in [Days -> Nat] /\ MaxSeq \in Nat /\ \A e \in Days : lastSeq[e] <= MaxSeq
  BY AccountsAssumption DEF AccountsInv, Tables, AccountsAssumption
<1>2. /\ lastSeq' \in [Days -> Nat] /\ lastSeq'[d] = lastSeq[d] + 1
      /\ \A e \in Days : lastSeq[e] <= lastSeq'[e] /\ lastSeq'[e] <= MaxSeq
  BY <1>1
<1>3. PICK n \in NumberFor(d, lastSeq[d]) :
        req' = [req EXCEPT ![r].pc = "reg_save", ![r].day = 1,
                           ![r].no = IF req[r].id = None THEN n ELSE NoNumber]
  BY DEF Numbered
<1>4. n \in Seq(Int) /\ ~Drawn(n, lastSeq)
  BY <1>1, FreshNumber
<1>5. Drawn(n, lastSeq')
  <2>1. lastSeq[d] \in Nat /\ lastSeq[d] < lastSeq'[d]
    BY <1>1, <1>2
  <2>2. PICK r3 \in Random : n = UserNumber(Dates[d], lastSeq[d], r3)
    BY <1>3 DEF NumberFor
  <2> QED BY <2>1, <2>2 DEF Drawn
<1> DEFINE no == IF req[r].id = None THEN n ELSE NoNumber
<1>6. /\ no \in Seq(Int) /\ (no # NoNumber => no = n)
      /\ req' = [req EXCEPT ![r].pc = "reg_save", ![r].day = 1, ![r].no = no]
  BY <1>3, <1>4 DEF NoNumber
<1> HIDE DEF no
<1>7. no # NoNumber => Drawn(no, lastSeq') /\ ~Drawn(no, lastSeq)
  BY <1>4, <1>5, <1>6
<1> QED BY <1>2, <1>6, <1>7, NumberedStep

LEMMA DrawNumberStep ==
  ASSUME AccountsInv, NEW r \in Req, DrawNumber(r)
  PROVE  AccountsInv' /\ KeepsSettled
<1>1. req[r] \in Request /\ req[r].day \in Days /\ day \in Days /\ req \in [Req -> Request]
  BY DEF AccountsInv, Tables, Request
<1>2. req[r].pc = "reg_number" /\ UNCHANGED <<users, codes, day, refs, guard, accepted>>
  BY DEF DrawNumber
<1>3. PICK d \in req[r].day..day :
       \/ /\ lastSeq[d] = None /\ UNCHANGED lastSeq
          /\ req' = [req EXCEPT ![r].pc = "reg_first", ![r].day = d]
       \/ /\ lastSeq[d] # None /\ lastSeq[d] < MaxSeq
          /\ lastSeq' = [lastSeq EXCEPT ![d] = lastSeq[d] + 1]
          /\ Numbered(r, d, lastSeq[d])
       \/ lastSeq[d] >= MaxSeq /\ Unnumbered(r) /\ UNCHANGED lastSeq
  BY DEF DrawNumber
<1>4. d \in Days
  BY <1>1, DaysOf
<1>5. CASE UNCHANGED lastSeq /\ req' = [req EXCEPT ![r].pc = "reg_first", ![r].day = d]
  <2> DEFINE q == [req[r] EXCEPT !.pc = "reg_first", !.day = d]
  <2>1. /\ q \in Request /\ q.pc = "reg_first" /\ q.no = req[r].no /\ q.id = req[r].id
        /\ q.mail = req[r].mail /\ q.pw = req[r].pw
    BY <1>1, <1>4 DEF Request
  <2>2. req' = [req EXCEPT ![r] = q]
    BY <1>1, <1>5
  <2> HIDE DEF q
  <2>3. Knows(req[r])
    BY DEF AccountsInv, Requests
  <2>4. Knows(q) /\ ~Pending(q)
    BY <1>2, <2>1, <2>3 DEF Knows, Pending
  <2>5. \A i \in 1..Len(users) : Settled(i) => ~Threatens(q, i)
    <3> SUFFICES ASSUME NEW i \in 1..Len(users), Settled(i), Threatens(q, i) PROVE FALSE
      OBVIOUS
    <3>1. Threatens(req[r], i)
      BY <1>2, <2>1 DEF Threatens
    <3> QED BY <3>1, OverlappingIs DEF Settled
  <2> QED BY <1>2, <1>5, <2>1, <2>2, <2>4, <2>5, HandlerStep DEF tables
<1>6. CASE /\ lastSeq[d] < MaxSeq /\ lastSeq' = [lastSeq EXCEPT ![d] = lastSeq[d] + 1]
           /\ Numbered(r, d, lastSeq[d])
  BY <1>2, <1>4, <1>6, SequenceStep
<1>7. CASE Unnumbered(r) /\ UNCHANGED lastSeq
  BY <1>2, <1>7, UnnumberedStep DEF tables
<1> QED BY <1>3, <1>5, <1>6, <1>7

LEMMA DrawFirstStep ==
  ASSUME AccountsInv, NEW r \in Req, DrawFirst(r)
  PROVE  AccountsInv' /\ KeepsSettled
<1> DEFINE d == req[r].day
<1>1. req[r] \in Request /\ d \in Days
  BY DEF AccountsInv, Tables, Request
<1>2. req[r].pc = "reg_first" /\ UNCHANGED <<users, codes, day, refs, guard, accepted>>
  BY DEF DrawFirst
<1>3. CASE lastSeq[d] = None /\ lastSeq' = [lastSeq EXCEPT ![d] = 1] /\ Numbered(r, d, 0)
  <2>1. lastSeq[d] = 0 /\ 0 < MaxSeq /\ lastSeq[d] + 1 = 1
    BY <1>3, AccountsAssumption DEF None, AccountsAssumption
  <2>2. lastSeq' = [lastSeq EXCEPT ![d] = lastSeq[d] + 1] /\ Numbered(r, d, lastSeq[d]) /\ lastSeq[d] < MaxSeq
    BY <1>3, <2>1
  <2> QED BY <1>1, <1>2, <2>2, SequenceStep
<1>4. CASE Unnumbered(r) /\ UNCHANGED lastSeq
  BY <1>2, <1>4, UnnumberedStep DEF tables
<1> QED BY <1>3, <1>4 DEF DrawFirst

-----------------------------------------------------------------------------
LEMMA SendCodeStep ==
  ASSUME AccountsInv, NEW r \in Req, SendCode(r)
  PROVE  AccountsInv' /\ KeepsSettled
<1>1. /\ Tables /\ req[r] \in Request /\ req[r].pc = "mail" /\ codes \in Seq(SentCode)
      /\ Len(codes) \in Nat /\ DOMAIN codes = 1..Len(codes)
      /\ UNCHANGED <<users, day, lastSeq, refs, guard, accepted>>
  BY DEF AccountsInv, Tables, SendCode
<1>2. req[r].mail \in Mails /\ req[r].id \in Nat
  BY <1>1 DEF AccountsInv, Requests, Knows, Request
<1>3. codes' \in Seq(SentCode) /\ \A c \in DOMAIN codes : c \in DOMAIN codes' /\ codes'[c] = codes[c]
  <2>1. ASSUME NEW c \in Codes, codes' = Append(codes, NewCode(req[r], c))
        PROVE  codes' \in Seq(SentCode) /\ \A k \in DOMAIN codes : k \in DOMAIN codes' /\ codes'[k] = codes[k]
    <3>1. NewCode(req[r], c) \in SentCode
      BY <1>2 DEF NewCode, SentCode, None
    <3> QED BY <1>1, <2>1, <3>1
  <2> QED BY <1>1, <2>1 DEF SendCode
<1>4. PICK q \in Request : /\ req' = [req EXCEPT ![r] = q] /\ Knows(q) /\ ~Pending(q)
                           /\ \A i : ~Threatens(q, i)
  <2>1. CASE Proceed(r, "leave")
    BY <2>1, Proceeding DEF Proceed
  <2>2. CASE Finish(r)
    BY <2>2, IdleRequest DEF Finish
  <2> QED BY <2>1, <2>2 DEF SendCode
<1>5. lastSeq' \in [Days -> Nat] /\ \A d \in Days : lastSeq[d] <= lastSeq'[d] /\ lastSeq'[d] <= MaxSeq
  <2>1. \A d \in Days : lastSeq[d] \in Nat
    BY <1>1 DEF Tables
  <2> QED BY <1>1, <2>1 DEF Tables
<1> QED BY <1>1, <1>3, <1>4, <1>5, MoveStep

LEMMA LeaveStep ==
  ASSUME AccountsInv, NEW r \in Req, RegisterLeave(r)
  PROVE  AccountsInv' /\ KeepsSettled
BY IdleRequest, HandlerStep DEF RegisterLeave, Finish

LEMMA SendEmailStep ==
  ASSUME AccountsInv, NEW r \in Req, NEW i \in DOMAIN users, NEW m \in Mails, SendEmail(r, i, m)
  PROVE  AccountsInv' /\ KeepsSettled
<1> DEFINE q == [Idle EXCEPT !.kind = "send", !.id = i, !.mail = m, !.pc = "mail"]
<1>1. i \in Nat
  BY RowOfMail DEF AccountsInv
<1>2. q \in Request /\ q.pc = "mail" /\ q.mail = m
  BY <1>1, IdleRequest DEF Request
<1>3. req' = [req EXCEPT ![r] = q] /\ UNCHANGED <<tables, accepted>>
  BY DEF SendEmail
<1> HIDE DEF q
<1>4. Knows(q) /\ ~Pending(q) /\ \A j : ~Threatens(q, j)
  BY <1>2 DEF Knows, Pending, Threatens
<1> QED BY <1>2, <1>3, <1>4, HandlerStep

(* Verify and VerifyEmail begin with the row as it is. *)
LEMMA HoldStep ==
  ASSUME AccountsInv, NEW r \in Req, NEW i \in 1..Len(users), NEW m \in Mails,
         NEW kind \in {"verify", "change"}, kind = "verify" => users[i].mail = m,
         req' = [req EXCEPT ![r] = [Holding(i) EXCEPT !.kind = kind, !.mail = m, !.pc = "confirm"]],
         UNCHANGED <<tables, accepted>>
  PROVE  AccountsInv' /\ KeepsSettled
<1> DEFINE q == [Holding(i) EXCEPT !.kind = kind, !.mail = m, !.pc = "confirm"]
<1>1. users[i] \in Row /\ i \in Nat
  BY DEF AccountsInv, Tables
<1>2. /\ users[i].mail \in Mails /\ users[i].pw \in Passwords /\ users[i].no \in Seq(Int)
  BY <1>1 DEF Row
<1>3. /\ q \in Request /\ q.pc = "confirm" /\ q.id = i /\ q.no = users[i].no /\ q.mail = m
      /\ q.old = users[i].mail /\ q.pw = users[i].pw /\ q.kind = kind
  BY <1>1, <1>2, IdleRequest DEF Request, Holding
<1> HIDE DEF q
<1>4. Knows(q) /\ ~Pending(q)
  BY <1>2, <1>3 DEF Knows, Pending
<1>5. \A j \in 1..Len(users) : ~Threatens(q, j)
  BY <1>3 DEF Threatens
<1>6. req' = [req EXCEPT ![r] = q]
  BY DEF q
<1> QED BY <1>3, <1>4, <1>5, <1>6, HandlerStep

LEMMA VerifyReadStep ==
  ASSUME AccountsInv, NEW r \in Req, NEW m \in Mails, VerifyRead(r, m)
  PROVE  AccountsInv' /\ KeepsSettled
<1>1. UserByMail(m) \in 1..Len(users) /\ users[UserByMail(m)].mail = m
  BY RowOfMail DEF AccountsInv, VerifyRead, None
<1> QED BY <1>1, HoldStep DEF VerifyRead

LEMMA VerifyEmailReadStep ==
  ASSUME AccountsInv, NEW r \in Req, NEW i \in DOMAIN users, NEW m \in Mails, VerifyEmailRead(r, i, m)
  PROVE  AccountsInv' /\ KeepsSettled
<1>1. i \in 1..Len(users)
  BY RowOfMail DEF AccountsInv
<1> QED BY <1>1, HoldStep DEF VerifyEmailRead

-----------------------------------------------------------------------------
(* A row is replaced by another one. *)
LEMMA PutRow ==
  ASSUME NEW s \in Seq(Row), NEW k \in 1..Len(s), NEW row \in Row
  PROVE  LET t == [s EXCEPT ![k] = row] IN
         /\ t \in Seq(Row) /\ Len(t) = Len(s)
         /\ \A i \in 1..Len(s) : t[i] = IF i = k THEN row ELSE s[i]
OBVIOUS

LEMMA AddressFree ==
  ASSUME Tables, NEW m, NEW k, MailFree(m, k), NEW j \in 1..Len(users), j # k
  PROVE  users[j].mail # m
BY RowOfMail DEF MailFree

(* RegisterSave of a new row *)
LEMMA InsertStep ==
  ASSUME AccountsInv, NEW r \in Req, req[r].pc = "reg_save", MailFree(req[r].mail, None),
         users' = Append(users, [mail |-> req[r].mail, pw |-> req[r].pw, no |-> req[r].no, status |-> "00"]),
         Proceed(r, "mail"), UNCHANGED <<codes, day, lastSeq, accepted>>
  PROVE  AccountsInv' /\ KeepsSettled
<1> DEFINE row == [mail |-> req[r].mail, pw |-> req[r].pw, no |-> req[r].no, status |-> "00"]
<1>1. Tables /\ users \in Seq(Row) /\ Len(users) \in Nat /\ req[r] \in Request
  BY DEF AccountsInv, Tables
<1>2. req[r].mail \in Mails /\ req[r].pw \in Passwords /\ req[r].no \in Seq(Int)
  BY <1>1 DEF AccountsInv, Requests, Knows, Request
<1>3. row \in Row /\ row.mail = req[r].mail /\ row.no = req[r].no /\ row.status = "00"
  BY <1>2 DEF Row
<1>4. users' = Append(users, row)
  OBVIOUS
<1> HIDE DEF row
<1>5. /\ users' \in Seq(Row) /\ Len(users') = Len(users) + 1 /\ users'[Len(users) + 1] = row
      /\ \A i \in 1..Len(users) : users'[i] = users[i]
  BY <1>1, <1>3, <1>4
<1>6. \A i \in 1..Len(users') : i \in 1..Len(users) \/ i = Len(users) + 1
  BY <1>1, <1>5
<1>7. OneRowPerMail'
  <2>1. \A j \in 1..Len(users) : users[j].mail # req[r].mail
    BY <1>1, AddressFree DEF None
  <2>2. \A i, j \in 1..Len(users') : users'[i].mail = users'[j].mail => i = j
    BY <1>3, <1>5, <1>6, <2>1 DEF AccountsInv, OneRowPerMail
  <2> QED BY <2>2 DEF OneRowPerMail
<1>8. Verified'
  <2>1. \A i \in 1..Len(users') : users'[i].status = "20" => \E c \in accepted : codes[c].target = users'[i].mail
    BY <1>3, <1>5, <1>6 DEF AccountsInv, Verified
  <2> QED BY <2>1 DEF Verified
<1>9. PICK q \in Request : req' = [req EXCEPT ![r] = q] /\ q.pc = "mail" /\ Knows(q)
  BY <1>2, Proceeding DEF Proceed
<1>10. /\ Len(users) <= Len(users') /\ accepted \subseteq accepted' /\ accepted' \subseteq DOMAIN codes
       /\ \A i \in 1..Len(users) : users'[i].no = users[i].no
       /\ \A i \in 1..Len(users') : i > Len(users) =>
             i = Len(users) + 1 /\ req[r].pc = "reg_save" /\ users'[i].no = req[r].no
       /\ \A i \in 1..Len(users) : Settled(i) => users'[i].status = "20" /\ users'[i].pw = users[i].pw
  BY <1>1, <1>3, <1>5, <1>6 DEF Settled, Tables
<1> QED BY <1>5, <1>7, <1>8, <1>9, <1>10, RowStep

(* RegisterSave of a password; the row is not settled, for this registration
   has still to save. *)
LEMMA PasswordStep ==
  ASSUME AccountsInv, NEW r \in Req, req[r].pc = "reg_save", req[r].id # None,
         users' = (IF req[r].same THEN users ELSE [users EXCEPT ![req[r].id].pw = req[r].pw]),
         Proceed(r, "mail"), UNCHANGED <<codes, day, lastSeq, accepted>>
  PROVE  AccountsInv' /\ KeepsSettled
<1> DEFINE k == req[r].id
<1>1. Tables /\ users \in Seq(Row) /\ Len(users) \in Nat /\ DOMAIN users = 1..Len(users)
  BY DEF AccountsInv, Tables
<1>2. k \in 1..Len(users) /\ req[r].mail \in Mails /\ req[r].pw \in Passwords
  BY <1>1 DEF AccountsInv, Requests, Knows, None
<1>3. /\ users' \in Seq(Row) /\ Len(users') = Len(users)
      /\ \A i \in 1..Len(users) : /\ users'[i].no = users[i].no /\ users'[i].mail = users[i].mail
                                  /\ users'[i].status = users[i].status
                                  /\ i # k => users'[i].pw = users[i].pw
  <2>1. CASE users' = users
    BY <1>1, <2>1
  <2>2. CASE users' = [users EXCEPT ![k].pw = req[r].pw]
    <3> HIDE DEF k
    <3>1. users[k] \in Row
      BY <1>1, <1>2
    <3> DEFINE row == [users[k] EXCEPT !.pw = req[r].pw]
    <3>2. /\ row \in Row /\ row.no = users[k].no /\ row.mail = users[k].mail
          /\ row.status = users[k].status
      BY <1>2, <3>1 DEF Row
    <3>3. users' = [users EXCEPT ![k] = row]
      BY <1>1, <1>2, <2>2
    <3> HIDE DEF row
    <3> DEFINE t == [users EXCEPT ![k] = row]
    <3>4. /\ t \in Seq(Row) /\ Len(t) = Len(users)
          /\ \A i \in 1..Len(users) : t[i] = IF i = k THEN row ELSE users[i]
      BY <1>1, <1>2, <3>2, PutRow
    <3> HIDE DEF t
    <3>5. users' = t
      BY <3>3 DEF t
    <3> QED BY <3>2, <3>4, <3>5
  <2> QED BY <2>1, <2>2
<1>4. ~Settled(k)
  BY OverlappingIs DEF Settled, Threatens
<1>5. OneRowPerMail' /\ Verified'
  BY <1>3 DEF AccountsInv, OneRowPerMail, Verified
<1>6. PICK q \in Request : req' = [req EXCEPT ![r] = q] /\ q.pc = "mail" /\ Knows(q)
  BY <1>2, Proceeding DEF Proceed
<1>7. /\ Len(users) <= Len(users') /\ accepted \subseteq accepted' /\ accepted' \subseteq DOMAIN codes
      /\ \A i \in 1..Len(users') : ~(i > Len(users))
  BY <1>1, <1>3 DEF Tables
<1>8. \A i \in 1..Len(users) : Settled(i) => users'[i].status = "20" /\ users'[i].pw = users[i].pw
  BY <1>3, <1>4 DEF Settled
<1> HIDE DEF k
<1> QED BY <1>3, <1>5, <1>6, <1>7, <1>8, RowStep

LEMMA SaveStep ==
  ASSUME AccountsInv, NEW r \in Req, RegisterSave(r)
  PROVE  AccountsInv' /\ KeepsSettled
<1>1. req[r].pc = "reg_save" /\ UNCHANGED <<codes, day, lastSeq, guard, accepted>>
  BY DEF RegisterSave
<1>2. CASE /\ MailFree(req[r].mail, None)
           /\ users' = Append(users, [mail |-> req[r].mail, pw |-> req[r].pw, no |-> req[r].no, status |-> "00"])
           /\ Proceed(r, "mail")
  BY <1>1, <1>2, InsertStep
<1>3. CASE /\ req[r].id # None
           /\ users' = IF req[r].same THEN users ELSE [users EXCEPT ![req[r].id].pw = req[r].pw]
           /\ Proceed(r, "mail")
  BY <1>1, <1>3, PasswordStep
<1>4. CASE Proceed(r, "leave") /\ UNCHANGED <<users, refs>>
  BY <1>1, <1>4, ProceedStep DEF tables
<1> QED BY <1>2, <1>3, <1>4 DEF RegisterSave

-----------------------------------------------------------------------------
(* The row is saved as it was read, with the address that was proved.       *)
LEMMA ConfirmSaveStep ==
  ASSUME AccountsInv, NEW r \in Req, req[r].pc = "confirm", Finish(r),
         NEW c \in Codes, AcceptedCode(req[r], c) # None, ConfirmSave(r, AcceptedCode(req[r], c)),
         UNCHANGED <<codes, day, lastSeq>>
  PROVE  AccountsInv' /\ KeepsSettled
<1> DEFINE k == req[r].id
           m == IF req[r].kind = "change" THEN req[r].mail ELSE req[r].old
           a == AcceptedCode(req[r], c)
           row == [mail |-> m, pw |-> req[r].pw, no |-> req[r].no, status |-> "20"]
<1>1. Tables /\ users \in Seq(Row) /\ Len(users) \in Nat /\ DOMAIN users = 1..Len(users)
  BY DEF AccountsInv, Tables
<1>2. /\ k \in 1..Len(users) /\ req[r].no = users[k].no /\ req[r].mail \in Mails
      /\ req[r].pw \in Passwords /\ m = req[r].mail /\ req[r].kind \in {"verify", "change"}
  BY <1>1 DEF AccountsInv, Requests, Knows
<1>3. a \in DOMAIN codes /\ codes[a].target = m
  <2>1. a = CodeRow(req[r].mail, c)
    BY DEF AcceptedCode
  <2> QED BY <1>1, <1>2, <2>1, RowOfCode
<1>4. accepted' = accepted \cup {a} /\ (users' = users \/ (users' = [users EXCEPT ![k] = row] /\ MailFree(m, k)))
  <2>1. accepted' = accepted \cup {a}
    BY DEF ConfirmSave
  <2>2. users' = IF MailFree(m, k) THEN [users EXCEPT ![k] = row] ELSE users
    BY DEF ConfirmSave
  <2> QED BY <2>1, <2>2
<1> HIDE DEF a
<1>5. /\ users[k] \in Row /\ row \in Row /\ row.mail = m /\ row.no = users[k].no
      /\ row.status = "20" /\ row.pw = req[r].pw
  <2> HIDE DEF m, k
  <2>1. users[k] \in Row
    BY <1>1, <1>2
  <2>2. users[k].no \in Seq(Int) /\ m \in Mails
    BY <1>2, <2>1 DEF Row
  <2> QED BY <1>2, <2>1, <2>2 DEF Row
<1> HIDE DEF m, k, row
<1>6. /\ users' \in Seq(Row) /\ Len(users') = Len(users)
      /\ \A i \in 1..Len(users) : i # k => users'[i] = users[i]
      /\ (users'[k] = users[k] \/ (users'[k] = row /\ MailFree(m, k)))
  BY <1>1, <1>2, <1>4, <1>5
<1>7. OneRowPerMail'
  <2>1. CASE users'[k] = users[k]
    BY <1>2, <1>6, <2>1 DEF AccountsInv, OneRowPerMail
  <2>2. CASE users'[k] = row /\ MailFree(m, k)
    <3>1. \A j \in 1..Len(users) : j # k => users[j].mail # m
      BY <1>1, <2>2, AddressFree
    <3>2. \A i, j \in 1..Len(users) : users'[i].mail = users'[j].mail => i = j
      BY <1>2, <1>5, <1>6, <2>2, <3>1 DEF AccountsInv, OneRowPerMail
    <3> QED BY <1>6, <3>2 DEF OneRowPerMail
  <2> QED BY <1>6, <2>1, <2>2
<1>8. Verified'
  <2>1. \A i \in 1..Len(users) : users'[i].status = "20" => \E e \in accepted' : codes[e].target = users'[i].mail
    <3> SUFFICES ASSUME NEW i \in 1..Len(users), users'[i].status = "20"
                 PROVE  \E e \in accepted' : codes[e].target = users'[i].mail
      OBVIOUS
    <3>1. CASE users'[i] = users[i]
      BY <1>4, <3>1 DEF AccountsInv, Verified
    <3>2. CASE users'[i] = row
      BY <1>3, <1>4, <1>5, <3>2
    <3> QED BY <1>6, <3>1, <3>2
  <2> QED BY <1>6, <2>1 DEF Verified
<1>9. Idle \in Request /\ req' = [req EXCEPT ![r] = Idle] /\ Knows(Idle) /\ Idle.pc = "idle"
  BY IdleRequest DEF Finish
<1>10. /\ Len(users) <= Len(users') /\ accepted \subseteq accepted' /\ accepted' \subseteq DOMAIN codes
       /\ \A i \in 1..Len(users') : ~(i > Len(users))
       /\ \A i \in 1..Len(users) : users'[i].no = users[i].no
  BY <1>1, <1>3, <1>4, <1>5, <1>6 DEF Tables
<1>11. \A i \in 1..Len(users) : Settled(i) => users'[i].status = "20" /\ users'[i].pw = users[i].pw
  <2> SUFFICES ASSUME NEW i \in 1..Len(users), Settled(i)
               PROVE  users'[i].status = "20" /\ users'[i].pw = users[i].pw
    OBVIOUS
  <2>1. CASE users'[i] = users[i]
    BY <2>1 DEF Settled
  <2>2. CASE i = k /\ users'[i] = row
    <3>1. req[r].pw = users[k].pw
      BY <1>2, <2>2, OverlappingIs DEF Settled, Threatens, k
    <3> QED BY <1>5, <2>2, <3>1
  <2> QED BY <1>6, <2>1, <2>2
<1> QED BY <1>6, <1>7, <1>8, <1>9, <1>10, <1>11, RowStep

LEMMA ConfirmStep ==
  ASSUME AccountsInv, NEW r \in Req, Confirm(r)
  PROVE  AccountsInv' /\ KeepsSettled
<1>1. req[r].pc = "confirm" /\ Finish(r) /\ UNCHANGED <<codes, day, lastSeq, refs, guard>>
  BY DEF Confirm
<1>2. CASE \E c \in Codes : AcceptedCode(req[r], c) # None /\ ConfirmSave(r, AcceptedCode(req[r], c))
  BY <1>1, <1>2, ConfirmSaveStep
<1>3. CASE UNCHANGED <<users, accepted>>
  BY <1>1, <1>3, IdleRequest, HandlerStep DEF Finish, tables
<1> QED BY <1>2, <1>3 DEF Confirm

(* Only the clock moves, or nothing does. *)
LEMMA ClockStep ==
  ASSUME AccountsInv, day' \in Days, UNCHANGED <<users, codes, lastSeq, refs, req, accepted>>
  PROVE  AccountsInv' /\ KeepsSettled
<1>1. Tables'
  BY DEF AccountsInv, Tables
<1>2. Requests' /\ OneRowPerMail' /\ Verified' /\ NumbersIssued' /\ NumbersApart'
  BY DEF AccountsInv, Requests, Knows, OneRowPerMail, Verified, NumbersIssued, NumbersApart, Pending
<1>3. KeepsSettled
  BY DEF KeepsSettled, Settled, Overlapping
<1> QED BY <1>1, <1>2, <1>3 DEF AccountsInv

LEMMA AccountsStep == AccountsInv /\ [Next]_vars => AccountsInv' /\ KeepsSettled
<1> SUFFICES ASSUME AccountsInv, [Next]_vars PROVE AccountsInv' /\ KeepsSettled
  OBVIOUS
<1>1. CASE Midnight
  BY <1>1, ClockStep DEF Midnight
<1>2. ASSUME NEW r \in Req, PlayerNext(r) PROVE AccountsInv' /\ KeepsSettled
  <2>1. ASSUME NEW m \in Mails, NEW p \in Passwords, RegisterEnter(r, m, p)
        PROVE  AccountsInv' /\ KeepsSettled
    BY <2>1, EnterStep
  <2>2. CASE RegisterRead(r)
    BY <2>2, ReadStep
  <2>3. CASE DrawNumber(r) \/ DrawFirst(r)
    BY <2>3, DrawNumberStep, DrawFirstStep
  <2>4. CASE RegisterSave(r) \/ RegisterLeave(r)
    BY <2>4, SaveStep, LeaveStep
  <2>5. CASE SendCode(r)
    BY <2>5, SendCodeStep
  <2>6. ASSUME NEW m \in Mails, VerifyRead(r, m) PROVE AccountsInv' /\ KeepsSettled
    BY <2>6, VerifyReadStep
  <2>7. ASSUME NEW i \in DOMAIN users, NEW m \in Mails, SendEmail(r, i, m) \/ VerifyEmailRead(r, i, m)
        PROVE  AccountsInv' /\ KeepsSettled
    BY <2>7, SendEmailStep, VerifyEmailReadStep
  <2>8. CASE Confirm(r)
    BY <2>8, ConfirmStep
  <2> QED BY <1>2, <2>1, <2>2, <2>3, <2>4, <2>5, <2>6, <2>7, <2>8 DEF PlayerNext
<1>3. CASE UNCHANGED vars
  <2>1. day' \in Days
    BY <1>3 DEF vars, AccountsInv, Tables
  <2> QED BY <1>3, <2>1, ClockStep DEF vars
<1> QED BY <1>1, <1>2, <1>3 DEF Next

-----------------------------------------------------------------------------
(* What handlers know of the rows they have read, and the four invariants,  *)
(* hold in every reachable state.                                           *)
THEOREM AccountsInvariant == Spec => []AccountsInv
<1>1. Init => AccountsInv
  BY AccountsInit
<1>2. AccountsInv /\ [Next]_vars => AccountsInv'
  BY AccountsStep
<1> QED BY <1>1, <1>2, PTL DEF Spec

(* Whoever is active was verified, for the address he holds now (Verify,     *)
(* VerifyEmail, Register).                                                   *)
THEOREM ActiveAreVerified == Spec => []ActiveWasVerified
<1>1. AccountsInv => ActiveWasVerified
  BY RowOfMail DEF AccountsInv, Verified, ActiveWasVerified
<1> QED BY <1>1, AccountsInvariant, PTL

(* No two players get one number, over any number of days (Generate).        *)
THEOREM NumbersAreDistinct == Spec => []NumbersDistinct
<1>1. AccountsInv => NumbersDistinct
  BY RowOfMail DEF AccountsInv, NumbersApart, NumbersDistinct
<1> QED BY <1>1, AccountsInvariant, PTL

(* The login of row i, which is the only one of its address, compares with   *)
(* its password.                                                             *)
LEMMA LoginOfRow ==
  AccountsInv => \A i \in 1..Len(users), p \in Passwords : Admits(i, p) <=> users[i].pw = p
<1> SUFFICES ASSUME AccountsInv, NEW i \in 1..Len(users), NEW p \in Passwords
             PROVE  Admits(i, p) <=> users[i].pw = p
  OBVIOUS
<1>1. /\ UserByMail(users[i].mail) \in 0..Len(users) /\ UserByMail(users[i].mail) # None
      /\ users[UserByMail(users[i].mail)].mail = users[i].mail
  BY RowOfMail DEF AccountsInv
<1>2. UserByMail(users[i].mail) = i
  BY <1>1 DEF AccountsInv, OneRowPerMail, None
<1> QED BY <1>1, <1>2 DEF Admits, Login

(* An activation settles: later requests take neither the status nor a       *)
(* password away (Register, Verify, VerifyEmail).                            *)
THEOREM ActivationsSettle == Spec => ActivationSettles
<1>0. (AccountsInv => \A i \in 1..Len(users), p \in Passwords : Admits(i, p) <=> users[i].pw = p)'
  BY LoginOfRow, PTL
<1>1. AccountsInv /\ [Next]_vars =>
        [\A i \in DOMAIN users :
           Settled(i) => /\ Settled(i)'
                         /\ users' # users => \A p \in Passwords : Admits(i, p) => Admits(i, p)']_vars
  <2> SUFFICES ASSUME AccountsInv, [Next]_vars, NEW i \in DOMAIN users, Settled(i)
               PROVE  Settled(i)' /\ \A p \in Passwords : Admits(i, p) => Admits(i, p)'
    OBVIOUS
  <2>1. AccountsInv' /\ KeepsSettled
    BY AccountsStep
  <2>2. i \in 1..Len(users)
    BY RowOfMail DEF AccountsInv
  <2>3. i \in 1..Len(users') /\ Settled(i)' /\ users'[i].pw = users[i].pw
    BY <2>1, <2>2 DEF KeepsSettled
  <2>4. ASSUME NEW p \in Passwords, Admits(i, p) PROVE Admits(i, p)'
    <3>1. users[i].pw = p
      BY <2>2, <2>4, LoginOfRow
    <3> QED BY <1>0, <2>1, <2>3, <3>1
  <2> QED BY <2>3, <2>4
<1> QED BY <1>1, AccountsInvariant, PTL DEF Spec, ActivationSettles
=============================================================================
