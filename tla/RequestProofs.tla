--------------------------- MODULE RequestProofs ---------------------------
(***************************************************************************)
(* Requests that read, test and save without a lock on the rows, for all   *)
(* constants and any number of requests that overlap.                      *)
(*                                                                         *)
(* JoinSeason (SeasonJoin): the limit and one row per player hold for      *)
(* every key that was never taken away.  SeasonInv is inductive: such a    *)
(* key is in the guard as long as a request is inside, there is at most    *)
(* one request inside, and what that request has counted and looked for    *)
(* is still so when it inserts.                                            *)
(*                                                                         *)
(* The developers' console (Console): what a handler knows of the rows it  *)
(* read, ConKnows, is inductive.  The two share no variable.               *)
(***************************************************************************)
EXTENDS SeasonJoin, Console, SumLemmas, FiniteSetTheorems, TLAPS

AllKeys == Seasons \X (Users \cup {Nothing})

\* The request relies on its key.
IsInside(r) == req[r].pc \in {"count", "exist", "save", "leave"}

\* A key that is relied on is stored, and by one request only.
OneInside ==
    \A r \in Req : IsInside(r) /\ KeyOf(r) \notin lost =>
        /\ KeyOf(r) \in guard
        /\ \A q \in Req : IsInside(q) /\ KeyOf(q) = KeyOf(r) => q = r

\* A limited season still has room when the request has counted.
StillRoom ==
    \A r \in Req, s \in Seasons :
        /\ req[r].pc \in {"exist", "save"} /\ req[r].season = s
        /\ Limit[s] # 0 /\ KeyOf(r) \notin lost
        => Cardinality(Joined(s)) < Limit[s]

\* The player has not joined when the request has looked.
StillAbsent ==
    \A r \in Req : req[r].pc = "save" /\ KeyOf(r) \notin lost
        => \A i \in DOMAIN joined : joined[i] # <<req[r].season, req[r].user>>

SeasonInv == TypeOK /\ OneInside /\ StillRoom /\ StillAbsent /\ LimitHeld /\ JoinsOnce

-----------------------------------------------------------------------------
LEMMA KeyTyped ==
    ASSUME NEW s \in Seasons, NEW u \in Users PROVE Key(s, u) \in AllKeys
BY DEF Key, AllKeys

LEMMA HandlerOf ==
    ASSUME TypeOK, NEW r \in Req, req[r].pc # "idle"
    PROVE  /\ req[r] \in [pc : {"count", "exist", "save", "leave", "refused"},
                          season : Seasons, user : Users]
           /\ KeyOf(r) \in AllKeys
<1>1. req[r] \in Handler /\ req[r] # Idle
  BY DEF TypeOK, Idle
<1>2. req[r].season \in Seasons /\ req[r].user \in Users
  BY <1>1 DEF Handler
<1> QED BY <1>1, <1>2, KeyTyped DEF Handler, KeyOf

\* The rows of a season are finitely many.
LEMMA JoinedFinite ==
    ASSUME joined \in Seq(Seasons \X Users), NEW s \in Seasons
    PROVE  IsFiniteSet(Joined(s)) /\ Cardinality(Joined(s)) \in Nat
<1>1. IsFiniteSet(DOMAIN joined)
  <2>1. DOMAIN joined = 1..Len(joined) /\ Len(joined) \in Nat
    OBVIOUS
  <2> QED BY <2>1, FS_Interval
<1>2. Joined(s) \subseteq DOMAIN joined
  BY DEF Joined
<1> QED BY <1>1, <1>2, FS_Subset, FS_CardinalityType

LEMMA GotoTyped ==
    ASSUME TypeOK, NEW r \in Req, req[r].pc # "idle",
           NEW p \in {"count", "exist", "save", "leave", "refused"}, Goto(r, p)
    PROVE  /\ req' \in [Req -> Handler]
           /\ req'[r].pc = p /\ req'[r].season = req[r].season /\ req'[r].user = req[r].user
           /\ \A q \in Req \ {r} : req'[q] = req[q]
<1>1. req[r] \in [pc : {"count", "exist", "save", "leave", "refused"},
                  season : Seasons, user : Users]
  BY HandlerOf
<1>2. [req[r] EXCEPT !.pc = p] \in Handler
  BY <1>1 DEF Handler
<1>3. req' = [req EXCEPT ![r] = [req[r] EXCEPT !.pc = p]]
  BY DEF Goto
<1> QED BY <1>1, <1>2, <1>3 DEF TypeOK

-----------------------------------------------------------------------------
LEMMA SeasonInit == Init => SeasonInv
<1> SUFFICES ASSUME Init PROVE SeasonInv
  OBVIOUS
<1> USE DEF Init
<1>1. TypeOK
  BY DEF TypeOK, Handler
<1>2. \A r \in Req : req[r].pc = "idle"
  BY DEF Idle
<1>3. \A s \in Seasons : Joined(s) = {}
  BY DEF Joined
<1>4. LimitHeld
  <2> SUFFICES ASSUME NEW s \in Seasons PROVE Cardinality(Joined(s)) <= Limit[s]
    BY DEF LimitHeld
  <2>1. Cardinality(Joined(s)) = 0 /\ Limit[s] \in Nat
    BY <1>3, FS_EmptySet, SeasonAssumption
  <2> QED BY <2>1
<1> QED BY <1>1, <1>2, <1>4 DEF SeasonInv, OneInside, IsInside, StillRoom, StillAbsent, JoinsOnce

\* A request comes in: it finds the key and is refused, or nobody is inside.
LEMMA EnterStep ==
    ASSUME SeasonInv, NEW r \in Req, NEW s \in Seasons, NEW u \in Users, JoinEnter(r, s, u)
    PROVE  SeasonInv'
<1> DEFINE k == Key(s, u)
<1> USE DEF SeasonInv
<1>0. k \in AllKeys
  BY KeyTyped
<1>1. /\ req' \in [Req -> Handler]
      /\ req'[r] = [pc |-> AfterEnter(s, k), season |-> s, user |-> u]
      /\ \A q \in Req \ {r} : req'[q] = req[q]
  BY DEF JoinEnter, AfterEnter, TypeOK, Handler
<1>2. TypeOK'
  BY <1>0, <1>1 DEF JoinEnter, TypeOK, AllKeys
<1>3. KeyOf(r)' = k /\ \A q \in Req \ {r} : KeyOf(q)' = KeyOf(q)
  BY <1>1 DEF KeyOf
<1>4. \A q \in Req \ {r} : IsInside(q)' = IsInside(q)
  BY <1>1 DEF IsInside
<1>5. guard' = guard \cup {k} /\ lost' = lost /\ joined' = joined
  BY DEF JoinEnter
<1>6. IsInside(r)' => k \notin guard
  BY <1>1 DEF IsInside, AfterEnter
<1>7. OneInside'
  <2> SUFFICES ASSUME NEW p \in Req, IsInside(p)', KeyOf(p)' \notin lost'
               PROVE  /\ KeyOf(p)' \in guard'
                      /\ \A q \in Req : IsInside(q)' /\ KeyOf(q)' = KeyOf(p)' => q = p
    BY DEF OneInside
  <2>1. CASE p = r
    <3>1. ASSUME NEW q \in Req \ {r}, IsInside(q)', KeyOf(q)' = k PROVE FALSE
      BY <1>3, <1>4, <1>5, <1>6, <2>1, <3>1 DEF OneInside
    <3> QED BY <1>3, <1>5, <2>1, <3>1
  <2>2. CASE p # r
    <3>1. IsInside(p) /\ KeyOf(p) \notin lost /\ KeyOf(p)' = KeyOf(p)
      BY <1>3, <1>4, <1>5, <2>2
    <3>2. KeyOf(p) \in guard
      BY <3>1 DEF OneInside
    <3>3. ~(IsInside(r)' /\ KeyOf(r)' = KeyOf(p))
      BY <1>3, <1>6, <3>2
    <3> QED BY <1>3, <1>4, <1>5, <3>1, <3>2, <3>3 DEF OneInside
  <2> QED BY <2>1, <2>2
<1>8. \A x \in Seasons : Joined(x)' = Joined(x)
  BY <1>5 DEF Joined
<1>9. StillRoom'
  <2> SUFFICES ASSUME NEW q \in Req, NEW x \in Seasons, req'[q].pc \in {"exist", "save"},
                      req'[q].season = x, Limit[x] # 0, KeyOf(q)' \notin lost'
               PROVE  Cardinality(Joined(x))' < Limit[x]
    BY DEF StillRoom
  <2>1. q # r
    BY <1>1 DEF AfterEnter
  <2> QED BY <1>1, <1>3, <1>5, <1>8, <2>1 DEF StillRoom
<1>10. StillAbsent'
  <2> SUFFICES ASSUME NEW q \in Req, req'[q].pc = "save", KeyOf(q)' \notin lost'
               PROVE  \A i \in DOMAIN joined : joined[i] # <<req'[q].season, req'[q].user>>
    BY <1>5 DEF StillAbsent
  <2>1. q # r
    BY <1>1 DEF AfterEnter
  <2> QED BY <1>1, <1>3, <1>5, <2>1 DEF StillAbsent
<1>11. LimitHeld' /\ JoinsOnce'
  BY <1>5, <1>8 DEF LimitHeld, JoinsOnce
<1> QED BY <1>2, <1>7, <1>9, <1>10, <1>11

\* A request that goes on with its key, and writes nothing.
LEMMA MoveStep ==
    ASSUME SeasonInv, NEW r \in Req, IsInside(r),
           NEW p \in {"exist", "save", "leave"}, Goto(r, p),
           joined' = joined, guard' = guard, lost' = lost,
           p \in {"exist", "save"} /\ Limit[req[r].season] # 0 /\ KeyOf(r) \notin lost
              => Cardinality(Joined(req[r].season)) < Limit[req[r].season],
           p = "save" => \A i \in DOMAIN joined : joined[i] # <<req[r].season, req[r].user>>
    PROVE  SeasonInv'
<1> USE DEF SeasonInv
<1>0. req[r].pc # "idle"
  BY DEF IsInside
<1>1. /\ req' \in [Req -> Handler]
      /\ req'[r].pc = p /\ req'[r].season = req[r].season /\ req'[r].user = req[r].user
      /\ \A q \in Req \ {r} : req'[q] = req[q]
  BY <1>0, GotoTyped
<1>2. TypeOK'
  BY <1>1 DEF TypeOK
<1>3. \A q \in Req : KeyOf(q)' = KeyOf(q) /\ IsInside(q)' = IsInside(q)
  BY <1>1 DEF KeyOf, IsInside
<1>4. OneInside'
  BY <1>3 DEF OneInside
<1>5. \A x \in Seasons : Joined(x)' = Joined(x)
  BY DEF Joined
<1>7. StillRoom'
  <2> SUFFICES ASSUME NEW q \in Req, NEW x \in Seasons, req'[q].pc \in {"exist", "save"},
                      req'[q].season = x, Limit[x] # 0, KeyOf(q)' \notin lost'
               PROVE  Cardinality(Joined(x))' < Limit[x]
    BY DEF StillRoom
  <2>1. CASE q = r
    BY <1>1, <1>3, <1>5, <2>1
  <2>2. CASE q # r
    BY <1>1, <1>3, <1>5, <2>2 DEF StillRoom
  <2> QED BY <2>1, <2>2
<1>8. StillAbsent'
  <2> SUFFICES ASSUME NEW q \in Req, req'[q].pc = "save", KeyOf(q)' \notin lost'
               PROVE  \A i \in DOMAIN joined : joined[i] # <<req'[q].season, req'[q].user>>
    BY DEF StillAbsent
  <2> QED BY <1>1, <1>3 DEF StillAbsent
<1>9. LimitHeld' /\ JoinsOnce'
  BY <1>5 DEF LimitHeld, JoinsOnce
<1> QED BY <1>2, <1>4, <1>7, <1>8, <1>9

LEMMA CountStep ==
    ASSUME SeasonInv, NEW r \in Req, JoinCount(r) \/ JoinExist(r) \/ JoinFail(r)
    PROVE  SeasonInv'
<1>1. CASE JoinFail(r)
  <2>1. IsInside(r) /\ Goto(r, "leave") /\ joined' = joined /\ guard' = guard /\ lost' = lost
    BY <1>1 DEF JoinFail, IsInside
  <2> QED BY <2>1, MoveStep
<1>2. CASE JoinCount(r)
  <2> DEFINE s == req[r].season
  <2>0. /\ IsInside(r) /\ joined' = joined /\ guard' = guard /\ lost' = lost
        /\ req[r].pc = "count"
    BY <1>2 DEF JoinCount, IsInside
  <2>1. s \in Seasons /\ Limit[s] \in Nat /\ Cardinality(Joined(s)) \in Nat
    BY <2>0, HandlerOf, JoinedFinite, SeasonAssumption DEF SeasonInv, TypeOK
  <2>2. CASE Cardinality(Joined(s)) >= Limit[s]
    <3>1. Goto(r, "leave")
      BY <1>2, <2>2 DEF JoinCount
    <3> QED BY <2>0, <3>1, MoveStep
  <2>3. CASE ~(Cardinality(Joined(s)) >= Limit[s])
    <3>1. Goto(r, "exist")
      BY <1>2, <2>3 DEF JoinCount
    <3>2. Cardinality(Joined(s)) < Limit[s]
      BY <2>1, <2>3
    <3> QED BY <2>0, <3>1, <3>2, MoveStep
  <2> QED BY <2>2, <2>3
<1>3. CASE JoinExist(r)
  <2> DEFINE row == <<req[r].season, req[r].user>>
  <2>0. /\ IsInside(r) /\ joined' = joined /\ guard' = guard /\ lost' = lost
        /\ req[r].pc = "exist"
    BY <1>3 DEF JoinExist, IsInside
  <2>1. req[r].season \in Seasons
    BY <2>0, HandlerOf DEF SeasonInv
  <2>2. CASE \E i \in DOMAIN joined : joined[i] = row
    <3>1. Goto(r, "leave")
      BY <1>3, <2>2 DEF JoinExist
    <3> QED BY <2>0, <3>1, MoveStep
  <2>3. CASE ~(\E i \in DOMAIN joined : joined[i] = row)
    <3>1. Goto(r, "save")
      BY <1>3, <2>3 DEF JoinExist
    <3>2. Limit[req[r].season] # 0 /\ KeyOf(r) \notin lost
             => Cardinality(Joined(req[r].season)) < Limit[req[r].season]
      BY <2>0, <2>1 DEF SeasonInv, StillRoom
    <3> QED BY <2>0, <2>3, <3>1, <3>2, MoveStep
  <2> QED BY <2>2, <2>3
<1> QED BY <1>1, <1>2, <1>3

\* The insert.  Whoever else is inside has another key; its season is not limited, or is
\* another one, so what it counted and looked for is untouched.
LEMMA SaveStep ==
    ASSUME SeasonInv, NEW r \in Req, JoinSave(r) PROVE SeasonInv'
<1> DEFINE s == req[r].season
           u == req[r].user
           row == <<s, u>>
<1>1. CASE joined' = joined
  <2>1. IsInside(r) /\ Goto(r, "leave") /\ guard' = guard /\ lost' = lost
    BY DEF JoinSave, IsInside
  <2> QED BY <1>1, <2>1, MoveStep
<1>2. CASE joined' = Append(joined, row)
  <2> USE DEF SeasonInv
  <2>0. req[r].pc = "save" /\ guard' = guard /\ lost' = lost /\ Goto(r, "leave")
    BY DEF JoinSave
  <2>1. s \in Seasons /\ u \in Users /\ Limit[s] \in Nat
    BY <2>0, HandlerOf, SeasonAssumption
  <2>2. /\ req' \in [Req -> Handler]
        /\ req'[r].pc = "leave" /\ req'[r].season = s /\ req'[r].user = u
        /\ \A q \in Req \ {r} : req'[q] = req[q]
    BY <2>0, GotoTyped
  <2>3. /\ joined \in Seq(Seasons \X Users) /\ joined' \in Seq(Seasons \X Users)
        /\ DOMAIN joined = 1..Len(joined) /\ Len(joined) \in Nat
        /\ DOMAIN joined' = DOMAIN joined \cup {Len(joined) + 1}
        /\ Len(joined) + 1 \notin DOMAIN joined
        /\ joined'[Len(joined) + 1] = row
        /\ \A i \in DOMAIN joined : joined'[i] = joined[i]
    BY <1>2, <2>1 DEF TypeOK
  <2>4. TypeOK'
    BY <2>0, <2>2, <2>3 DEF TypeOK
  <2>5. /\ \A q \in Req : KeyOf(q)' = KeyOf(q) /\ IsInside(q)' = IsInside(q)
        /\ IsInside(r)
    BY <2>0, <2>2 DEF KeyOf, IsInside
  <2>6. OneInside'
    BY <2>0, <2>5 DEF OneInside
  <2>7. \A x \in Seasons \ {s} : Joined(x)' = Joined(x)
    BY <2>3 DEF Joined
  <2>8. ASSUME NEW x \in Seasons, x = s
        PROVE  /\ Cardinality(Joined(x))' = Cardinality(Joined(x)) + 1
               /\ Cardinality(Joined(x)) \in Nat
    <3>1. Joined(x)' = Joined(x) \cup {Len(joined) + 1} /\ Len(joined) + 1 \notin Joined(x)
      <4>1. row[1] = x
        BY <2>8
      <4> HIDE DEF row
      <4> QED BY <2>3, <4>1 DEF Joined
    <3>2. IsFiniteSet(Joined(x)) /\ Cardinality(Joined(x)) \in Nat
      BY <2>3, JoinedFinite
    <3> QED BY <3>1, <3>2, FS_AddElement
  <2>9. KeyOf(r) = Key(s, u)
    BY DEF KeyOf
  <2>10. StillRoom'
    <3> SUFFICES ASSUME NEW q \in Req, NEW x \in Seasons, req'[q].pc \in {"exist", "save"},
                        req'[q].season = x, Limit[x] # 0, KeyOf(q)' \notin lost'
                 PROVE  Cardinality(Joined(x))' < Limit[x]
      BY DEF StillRoom
    <3>1. q # r /\ req'[q] = req[q] /\ IsInside(q) /\ KeyOf(q) \notin lost
      BY <2>0, <2>2, <2>5 DEF IsInside
    <3>2. CASE x = s
      <4>1. KeyOf(q) = KeyOf(r)
        BY <3>1, <3>2 DEF KeyOf, Key
      <4> QED BY <2>5, <3>1, <4>1 DEF OneInside
    <3>3. CASE x # s
      BY <2>7, <3>1, <3>3 DEF StillRoom
    <3> QED BY <3>2, <3>3
  <2>11. StillAbsent'
    <3> SUFFICES ASSUME NEW q \in Req, req'[q].pc = "save", KeyOf(q)' \notin lost',
                        NEW i \in DOMAIN joined'
                 PROVE  joined'[i] # <<req'[q].season, req'[q].user>>
      BY DEF StillAbsent
    <3>1. q # r /\ req'[q] = req[q] /\ IsInside(q) /\ KeyOf(q) \notin lost
      BY <2>0, <2>2, <2>5 DEF IsInside
    <3>2. CASE i \in DOMAIN joined
      BY <2>3, <3>1, <3>2 DEF StillAbsent
    <3>3. CASE i = Len(joined) + 1
      <4> SUFFICES ASSUME row = <<req[q].season, req[q].user>> PROVE FALSE
        BY <2>3, <3>1, <3>3
      <4>1. KeyOf(q) = KeyOf(r)
        BY DEF KeyOf
      <4> QED BY <2>5, <3>1, <4>1 DEF OneInside
    <3> QED BY <2>3, <3>2, <3>3
  <2>12. LimitHeld'
    <3> SUFFICES ASSUME NEW x \in Seasons, Limit[x] # 0, <<x, Nothing>> \notin lost
                 PROVE  Cardinality(Joined(x))' <= Limit[x]
      BY <2>0 DEF LimitHeld
    <3>1. CASE x = s
      <4>1. KeyOf(r) = <<s, Nothing>>
        BY <2>9, <3>1 DEF Key
      <4>2. Cardinality(Joined(x)) < Limit[x]
        BY <2>0, <2>1, <3>1, <4>1 DEF StillRoom
      <4> QED BY <2>1, <2>8, <3>1, <4>2
    <3>2. CASE x # s
      BY <2>7, <3>2 DEF LimitHeld
    <3> QED BY <3>1, <3>2
  <2>13. JoinsOnce'
    <3> SUFFICES ASSUME NEW i \in DOMAIN joined', NEW j \in DOMAIN joined',
                        joined'[i] = joined'[j], Key(joined'[i][1], joined'[i][2]) \notin lost
                 PROVE  i = j
      BY <2>0 DEF JoinsOnce, Key
    <3>1. CASE joined'[i] = row
      <4>1. KeyOf(r) \notin lost
        BY <2>9, <3>1
      <4>2. \A k \in DOMAIN joined : joined[k] # row
        BY <2>0, <4>1 DEF StillAbsent
      <4> QED BY <2>3, <3>1, <4>2
    <3>2. CASE joined'[i] # row
      <4>1. i \in DOMAIN joined /\ j \in DOMAIN joined
        BY <2>3, <3>2
      <4> QED BY <2>3, <4>1 DEF JoinsOnce
    <3> QED BY <3>1, <3>2
  <2> QED BY <2>4, <2>6, <2>10, <2>11, <2>12, <2>13
<1> QED BY <1>1, <1>2 DEF JoinSave

\* The deferred Delete: a key that somebody else still relies on is lost.
LEMMA LeaveStep ==
    ASSUME SeasonInv, NEW r \in Req, JoinLeave(r) PROVE SeasonInv'
<1> USE DEF SeasonInv
<1> DEFINE k == KeyOf(r)
<1>1. req[r].pc \in {"leave", "refused"} /\ joined' = joined /\ guard' = guard \ {k}
  BY DEF JoinLeave
<1>2. /\ req' \in [Req -> Handler] /\ req'[r].pc = "idle"
      /\ \A q \in Req \ {r} : req'[q] = req[q]
  BY DEF JoinLeave, TypeOK, Handler, Idle
<1>3. k \in AllKeys
  BY <1>1, HandlerOf
<1>4. lost' \in {lost, lost \cup {k}}
  BY DEF JoinLeave
<1>5. TypeOK'
  BY <1>1, <1>2, <1>3, <1>4 DEF TypeOK, AllKeys
<1>6. /\ ~IsInside(r)'
      /\ \A q \in Req \ {r} : IsInside(q)' = IsInside(q) /\ KeyOf(q)' = KeyOf(q)
  BY <1>2 DEF IsInside, KeyOf
<1>7. \A q \in Req \ {r} : IsInside(q) /\ KeyOf(q) = k => k \in lost'
  <2> SUFFICES ASSUME NEW q \in Req \ {r}, IsInside(q), KeyOf(q) = k PROVE k \in lost'
    OBVIOUS
  <2>1. q \in Inside(k) \ {r}
    BY DEF Inside, IsInside
  <2> QED BY <2>1 DEF JoinLeave
<1>8. OneInside'
  <2> SUFFICES ASSUME NEW p \in Req, IsInside(p)', KeyOf(p)' \notin lost'
               PROVE  /\ KeyOf(p)' \in guard'
                      /\ \A q \in Req : IsInside(q)' /\ KeyOf(q)' = KeyOf(p)' => q = p
    BY DEF OneInside
  <2>1. p # r /\ IsInside(p) /\ KeyOf(p)' = KeyOf(p) /\ KeyOf(p) \notin lost
    BY <1>4, <1>6
  <2>2. KeyOf(p) # k
    BY <1>6, <1>7, <2>1
  <2>3. KeyOf(p) \in guard /\ \A q \in Req : IsInside(q) /\ KeyOf(q) = KeyOf(p) => q = p
    BY <2>1 DEF OneInside
  <2> QED BY <1>1, <1>6, <2>1, <2>2, <2>3
<1>9. \A x \in Seasons : Joined(x)' = Joined(x)
  BY <1>1 DEF Joined
<1>10. StillRoom'
  <2> SUFFICES ASSUME NEW q \in Req, NEW x \in Seasons, req'[q].pc \in {"exist", "save"},
                      req'[q].season = x, Limit[x] # 0, KeyOf(q)' \notin lost'
               PROVE  Cardinality(Joined(x))' < Limit[x]
    BY DEF StillRoom
  <2> QED BY <1>2, <1>4, <1>6, <1>9 DEF StillRoom
<1>11. StillAbsent'
  <2> SUFFICES ASSUME NEW q \in Req, req'[q].pc = "save", KeyOf(q)' \notin lost'
               PROVE  \A i \in DOMAIN joined : joined[i] # <<req'[q].season, req'[q].user>>
    BY <1>1 DEF StillAbsent
  <2> QED BY <1>2, <1>4, <1>6 DEF StillAbsent
<1>12. LimitHeld' /\ JoinsOnce'
  BY <1>1, <1>4, <1>9 DEF LimitHeld, JoinsOnce
<1> QED BY <1>5, <1>8, <1>10, <1>11, <1>12

LEMMA SeasonStep == SeasonInv /\ [Next]_vars => SeasonInv'
<1> SUFFICES ASSUME SeasonInv, [Next]_vars PROVE SeasonInv'
  OBVIOUS
<1>1. ASSUME NEW r \in Req, NEW s \in Seasons, NEW u \in Users, JoinEnter(r, s, u)
      PROVE  SeasonInv'
  BY <1>1, EnterStep
<1>2. ASSUME NEW r \in Req, JoinCount(r) \/ JoinExist(r) \/ JoinFail(r) PROVE SeasonInv'
  BY <1>2, CountStep
<1>3. ASSUME NEW r \in Req, JoinSave(r) PROVE SeasonInv'
  BY <1>3, SaveStep
<1>4. ASSUME NEW r \in Req, JoinLeave(r) PROVE SeasonInv'
  BY <1>4, LeaveStep
<1>5. CASE UNCHANGED vars
  <2>1. \A x \in Seasons : Joined(x)' = Joined(x)
    BY <1>5 DEF vars, Joined
  <2>2. \A q \in Req : KeyOf(q)' = KeyOf(q)
    BY <1>5 DEF vars, KeyOf
  <2>3. TypeOK' /\ OneInside' /\ StillAbsent' /\ JoinsOnce'
    BY <1>5, <2>2 DEF vars, SeasonInv, TypeOK, OneInside, IsInside, StillAbsent, JoinsOnce
  <2>4. StillRoom' /\ LimitHeld'
    BY <1>5, <2>1, <2>2 DEF vars, SeasonInv, StillRoom, LimitHeld
  <2> QED BY <2>3, <2>4 DEF SeasonInv
<1> QED BY <1>1, <1>2, <1>3, <1>4, <1>5 DEF Next

\* The inductive invariant: a key that was never taken away keeps all but one request
\* out from the count to the insert.
THEOREM SeasonInvariant == Spec => []SeasonInv
BY SeasonInit, SeasonStep, PTL DEF Spec

\* However many requests overlap, a season has more players than its limit only when a
\* refused request took its key away.
THEOREM LimitIsHeld == Spec => []LimitHeld
<1>1. SeasonInv => LimitHeld
  BY DEF SeasonInv
<1> QED BY <1>1, SeasonInvariant, PTL

\* However many requests overlap, a player joins a season once, unless a refused
\* request took his key away.
THEOREM PlayersJoinOnce == Spec => []JoinsOnce
<1>1. SeasonInv => JoinsOnce
  BY DEF SeasonInv
<1> QED BY <1>1, SeasonInvariant, PTL

-----------------------------------------------------------------------------
ConStatuses == {Draft, Testing, Tested, PendingApprove, Active, Inactive}
ConSteps == {"idle", "dev_create", "dev_save", "game_save", "setting_read", "setting_write",
             "key_check", "key_save"}

ConDev == [mail : Mails, status : {"", "20"}]
ConGame == [dev : Nat, text : Texts \cup {NoValue}, status : ConStatuses]
ConApp == [game : Nat, client : Clients \cup {NoValue}]
ConHandler == [pc : ConSteps, kind : {"", "game", "save", "delete"}, mail : Mails \cup {NoValue},
               id : Nat, status : {"", "20"}, game : Nat, row : ConGame, fresh : BOOLEAN, code : Codes \cup {NoValue},
               client : Clients \cup {NoValue}]

ConTyped ==
    /\ devs \in Seq(ConDev) /\ games \in Seq(ConGame) /\ apps \in Seq(ConApp)
    /\ conReq \in [ConReq -> ConHandler]

ConHoldsRow(h) == h.pc \in {"setting_read", "setting_write", "game_save"}

\* What a handler knows.  A row that has not been written since it was read is the
\* row as it is, but for the changes of the request; one that stays Active has none.
ConKnowsDev(h) ==
    /\ h.pc = "dev_create" => h.mail \in Mails
    /\ h.pc = "dev_save" => h.id \in DOMAIN devs /\ LoggedIn(h.id)

ConKnowsRow(h) ==
    ConHoldsRow(h) =>
        /\ h.game \in DOMAIN games
        /\ h.row.dev \in DOMAIN devs /\ LoggedIn(h.row.dev)

ConKnowsFresh(h) ==
    /\ h.fresh /\ h.pc \in {"setting_read", "setting_write"} => h.row = games[h.game]
    /\ h.fresh /\ h.pc = "game_save" /\ h.row.status = Active => h.row = games[h.game]

ConKnowsKey(h) ==
    /\ h.pc \in {"key_check", "key_save"} /\ h.id # None =>
           h.id \in DOMAIN apps /\ apps[h.id].game = h.game
    /\ h.pc = "key_save" /\ h.fresh =>
           \A i \in DOMAIN apps :
               apps[i].client = h.client => apps[i].game = h.game \/ h.client \in raced

ConKnows(h) == ConKnowsDev(h) /\ ConKnowsRow(h) /\ ConKnowsFresh(h) /\ ConKnowsKey(h)
ConTracked == \A r \in ConReq : ConKnows(conReq[r])

\* Only the first row of an address is verified, and owns games.
ConUnverified == \A d \in DOMAIN devs : ~LoggedIn(d) => devs[d].status = ""
ConOwned == \A g \in DOMAIN games : games[g].dev \in DOMAIN devs /\ LoggedIn(games[g].dev)

ConInv ==
    /\ ConTyped /\ ConUnverified /\ ConOwned /\ ConTracked
    /\ ActiveIsReviewed /\ KeysDistinct

-----------------------------------------------------------------------------
\* The first of a set of rows, if there is one.
LEMMA ConFirst ==
    ASSUME NEW S, IsFiniteSet(S), S \subseteq Nat \ {0}
    PROVE  /\ S = {} => FirstOf(S) = None
           /\ S # {} => FirstOf(S) \in S /\ \A j \in S : FirstOf(S) <= j
           /\ FirstOf(S) \in Nat
           /\ \A i \in S : (\A j \in S : i <= j) => FirstOf(S) = i
<1> DEFINE Q == {s \in SUBSET S : s = {} \/ \E i \in s : \A j \in s : i <= j}
<1>1. ASSUME NEW s \in SUBSET S, NEW y \in s, s \ {y} \in Q
      PROVE  s \in Q
  <2>1. CASE s \ {y} = {}
    <3>1. s = {y} /\ y \in Nat
      BY <2>1
    <3> QED BY <3>1
  <2>2. CASE s \ {y} # {}
    <3>1. PICK i \in s \ {y} : \A j \in s \ {y} : i <= j
      BY <1>1, <2>2
    <3>2. i \in Nat /\ y \in Nat /\ \A j \in s : j \in Nat
      OBVIOUS
    <3>3. CASE i <= y
      <4>1. \A j \in s : i <= j
        BY <3>1, <3>3
      <4> QED BY <4>1
    <3>4. CASE y <= i
      <4>1. \A j \in s : y <= j
        BY <3>1, <3>2, <3>4
      <4> QED BY <4>1
    <3> QED BY <3>2, <3>3, <3>4
  <2> QED BY <2>1, <2>2
<1>2. {} \in Q
  OBVIOUS
<1> HIDE DEF Q
<1>3. S \in Q
  BY <1>1, <1>2, SetInduction
<1>4. S = {} \/ \E i \in S : \A j \in S : i <= j
  BY <1>3 DEF Q
<1>5. S # {} => FirstOf(S) \in S /\ \A j \in S : FirstOf(S) <= j
  BY <1>4 DEF FirstOf
<1>6. S = {} => FirstOf(S) = None
  BY DEF FirstOf
<1>7. ASSUME NEW i \in S, \A j \in S : i <= j PROVE FirstOf(S) = i
  <2>1. FirstOf(S) \in S /\ FirstOf(S) <= i
    BY <1>5
  <2>2. i <= FirstOf(S) /\ i \in Nat /\ FirstOf(S) \in Nat
    BY <1>7, <2>1
  <2> QED BY <2>1, <2>2
<1>8. FirstOf(S) \in Nat
  <2>1. CASE S = {}
    BY <1>6, <2>1 DEF None
  <2>2. CASE S # {}
    BY <1>5, <2>2
  <2> QED BY <2>1, <2>2
<1> QED BY <1>5, <1>6, <1>7, <1>8

LEMMA ConRows ==
    ASSUME NEW T, NEW s \in Seq(T), NEW S \in SUBSET DOMAIN s
    PROVE  /\ IsFiniteSet(S) /\ S \subseteq Nat \ {0} /\ DOMAIN s = 1..Len(s) /\ Len(s) \in Nat
<1>1. DOMAIN s = 1..Len(s) /\ Len(s) \in Nat
  OBVIOUS
<1>2. IsFiniteSet(DOMAIN s)
  BY <1>1, FS_Interval
<1>3. IsFiniteSet(S)
  BY <1>2, FS_Subset
<1> QED BY <1>1, <1>3

\* The developer of an address is its first row.
LEMMA ConLoggedIn ==
    ASSUME devs \in Seq(ConDev), NEW d \in DOMAIN devs
    PROVE  LoggedIn(d) <=> \A e \in DOMAIN devs : devs[e].mail = devs[d].mail => d <= e
<1> DEFINE S == {i \in DOMAIN devs : devs[i].mail = devs[d].mail}
<1>1. S \in SUBSET DOMAIN devs /\ d \in S
  OBVIOUS
<1>2. IsFiniteSet(S) /\ S \subseteq Nat \ {0}
  BY <1>1, ConRows
<1>3. LoggedIn(d) <=> FirstOf(S) = d
  BY DEF LoggedIn, DevByMail
<1> HIDE DEF S
<1>4. /\ FirstOf(S) \in S /\ \A j \in S : FirstOf(S) <= j
      /\ (\A j \in S : d <= j) => FirstOf(S) = d
  BY <1>1, <1>2, ConFirst
<1>5. LoggedIn(d) <=> \A j \in S : d <= j
  BY <1>3, <1>4
<1> QED BY <1>5 DEF S

LEMMA ConDevByMail ==
    ASSUME devs \in Seq(ConDev), NEW m, DevByMail(m) # None
    PROVE  /\ DevByMail(m) \in DOMAIN devs /\ devs[DevByMail(m)].mail = m
           /\ LoggedIn(DevByMail(m))
<1> DEFINE S == {i \in DOMAIN devs : devs[i].mail = m}
<1>1. S \in SUBSET DOMAIN devs
  OBVIOUS
<1>2. IsFiniteSet(S) /\ S \subseteq Nat \ {0}
  BY <1>1, ConRows
<1>3. DevByMail(m) = FirstOf(S)
  BY DEF DevByMail
<1> HIDE DEF S
<1>4. FirstOf(S) \in S
  BY <1>2, <1>3, ConFirst
<1>5. DevByMail(m) \in DOMAIN devs /\ devs[DevByMail(m)].mail = m
  BY <1>3, <1>4 DEF S
<1>6. LoggedIn(DevByMail(m))
  BY <1>5 DEF LoggedIn
<1> QED BY <1>5, <1>6

LEMMA ConAppOf ==
    ASSUME apps \in Seq(ConApp), NEW g
    PROVE  /\ AppOf(g) \in Nat
           /\ AppOf(g) # None =>
                 AppOf(g) \in DOMAIN apps /\ apps[AppOf(g)].game = g
<1> DEFINE S == {i \in DOMAIN apps : apps[i].game = g}
<1>1. S \in SUBSET DOMAIN apps
  OBVIOUS
<1>2. IsFiniteSet(S) /\ S \subseteq Nat \ {0}
  BY <1>1, ConRows
<1>3. AppOf(g) = FirstOf(S)
  BY DEF AppOf
<1> HIDE DEF S
<1>4. FirstOf(S) \in Nat /\ (FirstOf(S) # None => FirstOf(S) \in S)
  BY <1>2, ConFirst
<1> QED BY <1>3, <1>4 DEF S

\* A client id that is free for a game is nobody's, or its own.
LEMMA ConClientFree ==
    ASSUME apps \in Seq(ConApp), NEW k, NEW g, ClientFree(k, g), NEW i \in DOMAIN apps,
           apps[i].client = k
    PROVE  \E j \in DOMAIN apps : apps[j].client = k /\ apps[j].game = g
<1> DEFINE S == {j \in DOMAIN apps : apps[j].client = k}
<1>1. S \in SUBSET DOMAIN apps /\ i \in S
  OBVIOUS
<1>2. IsFiniteSet(S) /\ S \subseteq Nat \ {0}
  BY <1>1, ConRows
<1>3. AppByClient(k) = FirstOf(S)
  BY DEF AppByClient
<1> HIDE DEF S
<1>4. FirstOf(S) \in S
  BY <1>1, <1>2, ConFirst
<1>5. AppByClient(k) # None
  BY <1>2, <1>3, <1>4 DEF None
<1>6. apps[AppByClient(k)].game = g
  BY <1>5 DEF ClientFree
<1> QED BY <1>3, <1>4, <1>6 DEF S

-----------------------------------------------------------------------------
LEMMA ConIdle == NoRequest \in ConHandler /\ NoRequest.pc = "idle"
<1>1. NoRow \in ConGame
  BY DEF ConGame, NoRow, None, ConStatuses
<1> QED BY <1>1 DEF NoRequest, ConHandler, None, ConSteps

LEMMA ConIdleKnows == ConKnows(NoRequest)
BY DEF NoRequest, ConKnows, ConKnowsDev, ConKnowsRow, ConHoldsRow, ConKnowsFresh, ConKnowsKey

LEMMA ConInitially == ConInit => ConInv
<1> SUFFICES ASSUME ConInit PROVE ConInv
  OBVIOUS
<1>1. devs = <<>> /\ games = <<>> /\ apps = <<>> /\ conReq = [r \in ConReq |-> NoRequest]
  BY DEF ConInit
<1>2. ConTyped
  <2>1. devs \in Seq(ConDev) /\ games \in Seq(ConGame) /\ apps \in Seq(ConApp)
    BY <1>1
  <2> QED BY <1>1, <2>1, ConIdle DEF ConTyped
<1>3. ConTracked
  BY <1>1, ConIdleKnows DEF ConTracked
<1> QED BY <1>1, <1>2, <1>3 DEF ConInv, ConUnverified, ConOwned, ActiveIsReviewed, KeysDistinct

LEMMA ConTrackedNext ==
    ASSUME \A q \in ConReq : \E h : h = conReq'[q] /\ ConKnows(h)'
    PROVE  ConTracked'
<1> SUFFICES ASSUME NEW q \in ConReq PROVE ConKnows(conReq[q])'
  BY DEF ConTracked
<1>1. PICK h : h = conReq'[q] /\ ConKnows(h)'
  OBVIOUS
<1> QED BY <1>1 DEF ConKnows, ConKnowsDev, ConKnowsRow, ConKnowsFresh, ConKnowsKey

\* A handler goes on: no row of a developer, a game or a key is written, and a game
\* that needs a review now is raced for, or about to leave Active by this handler.
LEMMA ConGoOn ==
    ASSUME ConInv, NEW r \in ConReq, NEW h \in ConHandler, conReq' = [conReq EXCEPT ![r] = h],
           conReq[r].pc # "game_save", ConKnows(h),
           UNCHANGED <<devs, games, apps>>, raced \subseteq raced',
           \A g \in DOMAIN games : games[g].status = Active /\ g \in unreviewed' =>
               \/ g \in unreviewed \/ g \in raced'
               \/ h.pc = "game_save" /\ h.game = g /\ h.row.status # Active
    PROVE  ConInv'
<1>1. /\ conReq' \in [ConReq -> ConHandler] /\ conReq'[r] = h
      /\ \A q \in ConReq \ {r} : conReq'[q] = conReq[q]
  BY DEF ConInv, ConTyped
<1>2. ConTyped' /\ KeysDistinct'
  BY <1>1 DEF ConInv, ConTyped, KeysDistinct
<1>3. ConUnverified' /\ ConOwned'
  BY DEF ConInv, ConUnverified, ConOwned, LoggedIn, DevByMail
<1>4. \A x : ConKnows(x) => ConKnows(x)'
  BY DEF ConKnows, ConKnowsDev, ConKnowsRow, ConKnowsFresh, ConKnowsKey, LoggedIn, DevByMail
<1>5. ConTracked'
  BY <1>1, <1>4, ConTrackedNext DEF ConInv, ConTracked
<1>6. ActiveIsReviewed'
  <2> SUFFICES ASSUME NEW g \in DOMAIN games, games[g].status = Active, g \in unreviewed',
                      g \notin raced'
               PROVE  \E q \in ConReq : /\ conReq'[q].pc = "game_save" /\ conReq'[q].game = g
                                        /\ conReq'[q].row.status # Active
    BY DEF ActiveIsReviewed
  <2>1. CASE g \in unreviewed
    <3>1. PICK q \in ConReq : /\ conReq[q].pc = "game_save" /\ conReq[q].game = g
                              /\ conReq[q].row.status # Active
      BY <2>1 DEF ConInv, ActiveIsReviewed
    <3> QED BY <1>1, <3>1
  <2> QED BY <1>1, <2>1
<1> QED BY <1>2, <1>3, <1>5, <1>6 DEF ConInv

\* A handler goes on, and no row is written.
LEMMA ConGo ==
    ASSUME ConInv, NEW r \in ConReq, NEW h \in ConHandler, conReq' = [conReq EXCEPT ![r] = h],
           conReq[r].pc # "game_save", ConKnows(h),
           UNCHANGED <<devs, games, apps, unreviewed, raced>>
    PROVE  ConInv'
BY ConGoOn

LEMMA ConEnd ==
    ASSUME ConInv, NEW r \in ConReq, Finish(r), conReq[r].pc # "game_save",
           UNCHANGED <<devs, games, apps, unreviewed, raced>>
    PROVE  ConInv'
BY ConGo, ConIdle, ConIdleKnows DEF Finish

-----------------------------------------------------------------------------
(* Accounts *)

\* Rows are appended and keep their addresses, so who is first stays first.
LEMMA ConFirstKept ==
    ASSUME devs \in Seq(ConDev), devs' \in Seq(ConDev), DOMAIN devs \subseteq DOMAIN devs',
           \A d \in DOMAIN devs : devs'[d].mail = devs[d].mail,
           NEW d \in DOMAIN devs
    PROVE  LoggedIn(d)' <=> LoggedIn(d)
<1>1. /\ DOMAIN devs = 1..Len(devs) /\ Len(devs) \in Nat
      /\ DOMAIN devs' = 1..Len(devs') /\ Len(devs') \in Nat
  OBVIOUS
<1>2. LoggedIn(d) <=> \A e \in DOMAIN devs : devs[e].mail = devs[d].mail => d <= e
  BY ConLoggedIn
<1>3. LoggedIn(d)' <=> \A e \in DOMAIN devs' : devs'[e].mail = devs'[d].mail => d <= e
  <2> DEFINE S == {i \in DOMAIN devs' : devs'[i].mail = devs'[d].mail}
  <2>1. S \in SUBSET DOMAIN devs' /\ d \in S
    OBVIOUS
  <2>2. IsFiniteSet(S) /\ S \subseteq Nat \ {0}
    BY <2>1, ConRows
  <2>3. LoggedIn(d)' <=> FirstOf(S) = d
    BY DEF LoggedIn, DevByMail
  <2> HIDE DEF S
  <2>4. /\ FirstOf(S) \in S /\ \A j \in S : FirstOf(S) <= j
        /\ (\A j \in S : d <= j) => FirstOf(S) = d
    BY <2>1, <2>2, ConFirst
  <2>5. LoggedIn(d)' <=> \A j \in S : d <= j
    BY <2>3, <2>4
  <2> QED BY <2>5 DEF S
<1>4. \A e \in DOMAIN devs' : e \in DOMAIN devs \/ d <= e
  BY <1>1
<1> QED BY <1>2, <1>3, <1>4

\* The rows of developers are written by a handler that then ends.
LEMMA ConDevStep ==
    ASSUME ConInv, NEW r \in ConReq, Finish(r), conReq[r].pc # "game_save",
           devs' \in Seq(ConDev), DOMAIN devs \subseteq DOMAIN devs',
           \A d \in DOMAIN devs : devs'[d].mail = devs[d].mail,
           \A d \in DOMAIN devs' : devs'[d].status = "" \/ d \in DOMAIN devs,
           \A d \in DOMAIN devs : devs'[d].status = devs[d].status \/ LoggedIn(d),
           UNCHANGED <<games, apps, unreviewed, raced>>
    PROVE  ConInv'
<1>1. /\ conReq' \in [ConReq -> ConHandler] /\ conReq'[r] = NoRequest
      /\ \A q \in ConReq \ {r} : conReq'[q] = conReq[q]
  BY ConIdle DEF ConInv, ConTyped, Finish
<1>2. \A d \in DOMAIN devs : LoggedIn(d)' <=> LoggedIn(d)
  BY ConFirstKept DEF ConInv, ConTyped
<1>3. ConTyped' /\ KeysDistinct'
  BY <1>1 DEF ConInv, ConTyped, KeysDistinct
<1>4. ConUnverified'
  <2> SUFFICES ASSUME NEW d \in DOMAIN devs', ~LoggedIn(d)' PROVE devs'[d].status = ""
    BY DEF ConUnverified
  <2>1. CASE d \in DOMAIN devs
    BY <1>2, <2>1 DEF ConInv, ConUnverified
  <2> QED BY <2>1
<1>5. ConOwned'
  <2> SUFFICES ASSUME NEW g \in DOMAIN games
               PROVE  \E d \in DOMAIN devs' : d = games'[g].dev /\ LoggedIn(d)'
    BY DEF ConOwned, LoggedIn
  <2>1. PICK d \in DOMAIN devs : d = games[g].dev /\ LoggedIn(d)
    BY DEF ConInv, ConOwned
  <2>2. LoggedIn(d)' /\ d \in DOMAIN devs'
    BY <1>2, <2>1
  <2> QED BY <2>1, <2>2
<1>6. ASSUME NEW h, ConKnows(h) PROVE ConKnows(h)'
  <2>1. ConKnowsDev(h)'
    BY <1>2, <1>6 DEF ConKnows, ConKnowsDev
  <2>2. ConKnowsRow(h)'
    BY <1>2, <1>6 DEF ConKnows, ConKnowsRow
  <2>3. ConKnowsFresh(h)' /\ ConKnowsKey(h)'
    BY <1>6 DEF ConKnows, ConKnowsFresh, ConKnowsKey
  <2> QED BY <2>1, <2>2, <2>3 DEF ConKnows
<1>7. ConTracked'
  BY <1>1, <1>6, ConIdleKnows, ConTrackedNext DEF ConInv, ConTracked
<1>8. ActiveIsReviewed'
  <2> SUFFICES ASSUME NEW g \in DOMAIN games, games[g].status = Active, g \in unreviewed,
                      g \notin raced
               PROVE  \E q \in ConReq : /\ conReq'[q].pc = "game_save" /\ conReq'[q].game = g
                                        /\ conReq'[q].row.status # Active
    BY DEF ActiveIsReviewed
  <2>1. PICK q \in ConReq : /\ conReq[q].pc = "game_save" /\ conReq[q].game = g
                            /\ conReq[q].row.status # Active
    BY DEF ConInv, ActiveIsReviewed
  <2> QED BY <1>1, <2>1
<1> QED BY <1>3, <1>4, <1>5, <1>7, <1>8 DEF ConInv

LEMMA ConCreateDev ==
    ASSUME ConInv, NEW r \in ConReq, DeveloperCreate(r)
    PROVE  ConInv'
<1>1. conReq[r].pc = "dev_create" /\ Finish(r) /\ UNCHANGED <<games, apps, unreviewed, raced>>
  BY DEF DeveloperCreate, history
<1>2. CASE UNCHANGED devs
  BY <1>1, <1>2, ConEnd
<1>3. CASE devs' = Append(devs, [mail |-> conReq[r].mail, status |-> ""])
  <2> DEFINE row == [mail |-> conReq[r].mail, status |-> ""]
  <2>1. row \in ConDev /\ devs \in Seq(ConDev)
    BY <1>1 DEF ConInv, ConTracked, ConKnows, ConKnowsDev, ConDev, ConTyped
  <2>2. row.status = ""
    OBVIOUS
  <2> HIDE DEF row
  <2>3. devs' = Append(devs, row)
    BY <1>3 DEF row
  <2>4. /\ devs' \in Seq(ConDev) /\ DOMAIN devs = 1..Len(devs) /\ Len(devs) \in Nat
        /\ DOMAIN devs' = 1..(Len(devs) + 1) /\ devs'[Len(devs) + 1] = row
        /\ \A d \in DOMAIN devs : devs'[d] = devs[d]
    BY <2>1, <2>3
  <2>5. DOMAIN devs \subseteq DOMAIN devs' /\ \A d \in DOMAIN devs' : d \in DOMAIN devs \/ devs'[d] = row
    BY <2>4
  <2> QED BY <1>1, <2>2, <2>4, <2>5, ConDevStep
<1> QED BY <1>2, <1>3 DEF DeveloperCreate

LEMMA ConSaveDev ==
    ASSUME ConInv, NEW r \in ConReq, DeveloperSave(r)
    PROVE  ConInv'
<1> DEFINE d == conReq[r].id
<1>1. /\ conReq[r].pc = "dev_save" /\ Finish(r) /\ UNCHANGED <<games, apps, unreviewed, raced>>
      /\ devs' = [devs EXCEPT ![d].status = conReq[r].status]
  BY DEF DeveloperSave, history
<1>2. d \in DOMAIN devs /\ LoggedIn(d)
  BY <1>1 DEF ConInv, ConTracked, ConKnows, ConKnowsDev
<1>3. devs \in Seq(ConDev) /\ devs[d] \in ConDev /\ conReq[r].status \in {"", "20"}
  <2>1. devs \in Seq(ConDev) /\ conReq[r] \in ConHandler
    BY DEF ConInv, ConTyped
  <2>2. devs[d] \in ConDev
    BY <1>2, <2>1
  <2> QED BY <2>1, <2>2 DEF ConHandler
<1> DEFINE row == [devs[d] EXCEPT !.status = conReq[r].status]
<1>4. row \in ConDev /\ row.mail = devs[d].mail
  BY <1>3 DEF ConDev
<1>5. devs' = [devs EXCEPT ![d] = row]
  BY <1>1
<1> HIDE DEF row, d
<1>6. /\ devs' \in Seq(ConDev) /\ DOMAIN devs' = DOMAIN devs /\ devs'[d] = row
      /\ \A e \in DOMAIN devs \ {d} : devs'[e] = devs[e]
  <2>0. DOMAIN devs = 1..Len(devs) /\ Len(devs) \in Nat
    <3>1. devs \in Seq(ConDev)
      BY <1>3
    <3> QED BY <3>1
  <2>1. devs \in [1..Len(devs) -> ConDev] /\ Len(devs) \in Nat
    <3>1. devs \in Seq(ConDev)
      BY <1>3
    <3> QED BY <2>0, <3>1
  <2>2. devs' \in [1..Len(devs) -> ConDev]
    BY <1>4, <1>5, <2>1
  <2> QED BY <1>2, <1>5, <2>1, <2>2
<1> QED BY <1>1, <1>2, <1>4, <1>6, ConDevStep

-----------------------------------------------------------------------------
(* Games *)

LEMMA ConCreateGame ==
    ASSUME ConInv, NEW d \in DOMAIN devs, NEW t \in Texts, CreateGame(d, t)
    PROVE  ConInv'
<1> DEFINE row == [dev |-> d, text |-> t, status |-> Draft]
<1>1. /\ LoggedIn(d) /\ games' = Append(games, row)
      /\ UNCHANGED <<devs, apps, conReq, unreviewed, raced>>
  BY DEF CreateGame, history
<1>2. row \in ConGame /\ games \in Seq(ConGame) /\ row.dev = d
  <2>1. d \in Nat
    BY DEF ConInv, ConTyped
  <2> QED BY <2>1 DEF ConInv, ConTyped, ConGame, ConStatuses
<1>3. row.status # Active
  BY DEF Draft, Active
<1> HIDE DEF row
<1>4. /\ games' \in Seq(ConGame) /\ DOMAIN games = 1..Len(games) /\ Len(games) \in Nat
      /\ DOMAIN games' = 1..(Len(games) + 1) /\ games'[Len(games) + 1] = row
      /\ \A g \in DOMAIN games : games'[g] = games[g]
  BY <1>1, <1>2
<1>5. \A g \in DOMAIN games' : g \in DOMAIN games \/ games'[g] = row
  BY <1>4
<1>6. ConTyped' /\ ConUnverified' /\ KeysDistinct'
  BY <1>1, <1>4 DEF ConInv, ConTyped, ConUnverified, KeysDistinct, LoggedIn, DevByMail
<1>7. ConOwned'
  <2> SUFFICES ASSUME NEW g \in DOMAIN games'
               PROVE  games'[g].dev \in DOMAIN devs /\ LoggedIn(games'[g].dev)
    BY <1>1 DEF ConOwned, LoggedIn, DevByMail
  <2> QED BY <1>1, <1>2, <1>4, <1>5 DEF ConInv, ConOwned
<1>8. ASSUME NEW h, ConKnows(h) PROVE ConKnows(h)'
  <2>1. ConKnowsDev(h)' /\ ConKnowsKey(h)'
    BY <1>1, <1>8 DEF ConKnows, ConKnowsDev, ConKnowsKey, LoggedIn, DevByMail
  <2>2. ConKnowsRow(h)'
    BY <1>1, <1>4, <1>8 DEF ConKnows, ConKnowsRow, LoggedIn, DevByMail
  <2>3. ConKnowsFresh(h)'
    BY <1>4, <1>8 DEF ConKnows, ConKnowsRow, ConKnowsFresh, ConHoldsRow
  <2> QED BY <2>1, <2>2, <2>3 DEF ConKnows
<1>9. ConTracked'
  BY <1>1, <1>8, ConTrackedNext DEF ConInv, ConTracked
<1>10. ActiveIsReviewed'
  BY <1>1, <1>3, <1>4, <1>5 DEF ConInv, ActiveIsReviewed
<1> QED BY <1>6, <1>7, <1>9, <1>10 DEF ConInv

\* Who has read a row that is written now is not fresh any more.
LEMMA ConOutdated ==
    ASSUME ConTyped, NEW g, NEW q \in ConReq
    PROVE  \E h \in ConHandler :
             /\ h = Outdated(g)[q]
             /\ h.pc = conReq[q].pc /\ h.mail = conReq[q].mail /\ h.id = conReq[q].id
             /\ h.game = conReq[q].game /\ h.row = conReq[q].row /\ h.client = conReq[q].client
             /\ h.fresh => conReq[q].fresh /\ (conReq[q].game # g \/ conReq[q].row = NoRow)
<1>1. conReq[q] \in ConHandler
  BY DEF ConTyped
<1>2. CASE conReq[q].game = g /\ conReq[q].row # NoRow
  <2> DEFINE h == [conReq[q] EXCEPT !.fresh = FALSE]
  <2>1. Outdated(g)[q] = h
    BY <1>2 DEF Outdated
  <2>2. h \in ConHandler /\ h.fresh = FALSE
    BY <1>1 DEF ConHandler
  <2>3. /\ h.pc = conReq[q].pc /\ h.mail = conReq[q].mail /\ h.id = conReq[q].id
        /\ h.game = conReq[q].game /\ h.row = conReq[q].row /\ h.client = conReq[q].client
    BY <1>1 DEF ConHandler
  <2> QED BY <2>1, <2>2, <2>3
<1>3. CASE ~(conReq[q].game = g /\ conReq[q].row # NoRow)
  <2>1. Outdated(g)[q] = conReq[q]
    BY <1>3 DEF Outdated
  <2> QED BY <1>1, <1>3, <2>1
<1> QED BY <1>2, <1>3

\* The row of a game is written, by a handler that then ends or by an operator.
LEMMA ConRowWritten ==
    ASSUME ConInv, NEW g \in DOMAIN games, NEW row \in ConGame,
           row.dev \in DOMAIN devs, LoggedIn(row.dev),
           games' = [games EXCEPT ![g] = row], UNCHANGED <<devs, apps>>, raced \subseteq raced',
           DOMAIN conReq' = ConReq, conReq' = [q \in ConReq |-> conReq'[q]],
           \A q \in ConReq : conReq'[q] \in {NoRequest, Outdated(g)[q]}
    PROVE  /\ ConTyped' /\ ConUnverified' /\ ConOwned' /\ ConTracked' /\ KeysDistinct'
           /\ DOMAIN games' = DOMAIN games /\ games'[g] = row
           /\ \A i \in DOMAIN games \ {g} : games'[i] = games[i]
<1>1. /\ games' \in Seq(ConGame) /\ DOMAIN games' = DOMAIN games /\ games'[g] = row
      /\ \A i \in DOMAIN games \ {g} : games'[i] = games[i]
  <2>1. games \in Seq(ConGame)
    BY DEF ConInv, ConTyped
  <2>2. DOMAIN games = 1..Len(games) /\ Len(games) \in Nat
    BY <2>1
  <2>3. games \in [1..Len(games) -> ConGame]
    BY <2>1, <2>2
  <2>4. games' \in [1..Len(games) -> ConGame]
    BY <2>3
  <2> QED BY <2>2, <2>3, <2>4
<1>2. \A q \in ConReq : conReq'[q] \in ConHandler
  <2> TAKE q \in ConReq
  <2>1. Outdated(g)[q] \in ConHandler
    BY ConOutdated DEF ConInv
  <2> QED BY <2>1, ConIdle
<1>3. conReq' \in [ConReq -> ConHandler]
  BY <1>2
<1>4. ConTyped' /\ ConUnverified' /\ KeysDistinct'
  BY <1>1, <1>3 DEF ConInv, ConTyped, ConUnverified, KeysDistinct, LoggedIn, DevByMail
<1>5. ConOwned'
  <2> SUFFICES ASSUME NEW i \in DOMAIN games'
               PROVE  games'[i].dev \in DOMAIN devs /\ LoggedIn(games'[i].dev)
    BY DEF ConOwned, LoggedIn, DevByMail
  <2> QED BY <1>1 DEF ConInv, ConOwned
<1>6. ASSUME NEW q \in ConReq, NEW h, h = Outdated(g)[q] PROVE ConKnows(h)'
  <2>1. /\ h.pc = conReq[q].pc /\ h.mail = conReq[q].mail /\ h.id = conReq[q].id
        /\ h.game = conReq[q].game /\ h.row = conReq[q].row /\ h.client = conReq[q].client
        /\ h.fresh => conReq[q].fresh /\ (conReq[q].game # g \/ conReq[q].row = NoRow)
    BY <1>6, ConOutdated DEF ConInv
  <2>2. ConKnows(conReq[q])
    BY DEF ConInv, ConTracked
  <2>3. ConKnowsDev(h)'
    BY <2>1, <2>2 DEF ConKnows, ConKnowsDev, LoggedIn, DevByMail
  <2>4. ConKnowsRow(h)'
    BY <1>1, <2>1, <2>2 DEF ConKnows, ConKnowsRow, ConHoldsRow, LoggedIn, DevByMail
  <2>5. ConKnowsKey(h)'
    BY <2>1, <2>2 DEF ConKnows, ConKnowsKey
  <2>6. ConKnowsFresh(h)'
    <3>1. SUFFICES ASSUME h.fresh, ConHoldsRow(h) PROVE games'[h.game] = games[h.game]
      BY <2>1, <2>2 DEF ConKnows, ConKnowsFresh, ConHoldsRow
    <3>2. h.game \in DOMAIN games /\ h.row.dev \in DOMAIN devs
      BY <2>1, <2>2, <3>1 DEF ConKnows, ConKnowsRow, ConHoldsRow
    <3>3. 0 \notin DOMAIN devs
      BY DEF ConInv, ConTyped
    <3>4. h.row # NoRow
      BY <3>2, <3>3 DEF NoRow, None
    <3> QED BY <1>1, <2>1, <3>1, <3>2, <3>4
  <2> QED BY <2>3, <2>4, <2>5, <2>6 DEF ConKnows
<1>7. ConTracked'
  <2> SUFFICES ASSUME NEW q \in ConReq PROVE \E h : h = conReq'[q] /\ ConKnows(h)'
    BY ConTrackedNext
  <2>1. CASE conReq'[q] = Outdated(g)[q]
    <3>1. PICK h : h = Outdated(g)[q]
      OBVIOUS
    <3> QED BY <1>6, <2>1, <3>1
  <2>2. CASE conReq'[q] = NoRequest
    <3>1. PICK h : h = NoRequest
      OBVIOUS
    <3>2. ConKnows(h)'
      BY <3>1 DEF NoRequest, ConKnows, ConKnowsDev, ConKnowsRow, ConHoldsRow, ConKnowsFresh, ConKnowsKey
    <3> QED BY <2>2, <3>1, <3>2
  <2> QED BY <2>1, <2>2
<1> QED BY <1>1, <1>4, <1>5, <1>7

LEMMA ConSaveGame ==
    ASSUME ConInv, NEW r \in ConReq, GameSave(r)
    PROVE  ConInv'
<1> DEFINE h == conReq[r]
           g == h.game
<1>1. /\ h.pc = "game_save" /\ games' = [games EXCEPT ![g] = h.row]
      /\ conReq' = [Outdated(g) EXCEPT ![r] = NoRequest]
      /\ raced' = IF h.fresh THEN raced ELSE raced \cup {g}
      /\ unreviewed' = IF h.row.text = games[g].text THEN unreviewed ELSE unreviewed \cup {g}
      /\ UNCHANGED <<devs, apps>>
  BY DEF GameSave
<1>2. h \in ConHandler /\ h.row \in ConGame
  <2>1. h \in ConHandler
    BY DEF ConInv, ConTyped
  <2> QED BY <2>1 DEF ConHandler
<1>3. g \in DOMAIN games /\ h.row.dev \in DOMAIN devs /\ LoggedIn(h.row.dev)
  BY <1>1 DEF ConInv, ConTracked, ConKnows, ConKnowsRow, ConHoldsRow
<1>4. h.fresh /\ h.row.status = Active => h.row = games[g]
  BY <1>1 DEF ConInv, ConTracked, ConKnows, ConKnowsFresh
<1>5. /\ DOMAIN conReq' = ConReq /\ conReq' = [q \in ConReq |-> conReq'[q]]
      /\ conReq'[r] = NoRequest /\ \A q \in ConReq \ {r} : conReq'[q] = Outdated(g)[q]
  BY <1>1 DEF Outdated
<1>6. \A q \in ConReq : conReq'[q] \in {NoRequest, Outdated(g)[q]}
  BY <1>5
<1>7. raced \subseteq raced'
  BY <1>1
<1> HIDE DEF h, g
<1>8. /\ ConTyped' /\ ConUnverified' /\ ConOwned' /\ ConTracked' /\ KeysDistinct'
      /\ DOMAIN games' = DOMAIN games /\ games'[g] = h.row
      /\ \A i \in DOMAIN games \ {g} : games'[i] = games[i]
  BY <1>1, <1>2, <1>3, <1>5, <1>6, <1>7, ConRowWritten
<1>9. ActiveIsReviewed'
  <2> SUFFICES ASSUME NEW i \in DOMAIN games, games'[i].status = Active, i \in unreviewed',
                      i \notin raced'
               PROVE  \E q \in ConReq : /\ conReq'[q].pc = "game_save" /\ conReq'[q].game = i
                                        /\ conReq'[q].row.status # Active
    BY <1>8 DEF ActiveIsReviewed
  <2>1. games[i].status = Active /\ i \in unreviewed /\ (i # g \/ h.row.status = Active)
    BY <1>1, <1>4, <1>8
  <2>2. i \notin raced
    BY <1>7
  <2>3. PICK q \in ConReq : /\ conReq[q].pc = "game_save" /\ conReq[q].game = i
                            /\ conReq[q].row.status # Active
    BY <2>1, <2>2 DEF ConInv, ActiveIsReviewed
  <2>4. q # r
    BY <2>1, <2>3 DEF h, g
  <2>5. /\ conReq'[q].pc = conReq[q].pc /\ conReq'[q].game = conReq[q].game
        /\ conReq'[q].row = conReq[q].row
    BY <1>5, <2>4, ConOutdated DEF ConInv
  <2> QED BY <2>3, <2>5
<1> QED BY <1>8, <1>9 DEF ConInv

LEMMA ConOperate ==
    ASSUME ConInv, NEW g \in DOMAIN games, Operate(g)
    PROVE  ConInv'
<1>1. PICK s \in {Active, Inactive} :
        /\ games' = [games EXCEPT ![g].status = s]
        /\ unreviewed' = IF s = Active THEN unreviewed \ {g} ELSE unreviewed
  BY DEF Operate
<1>2. conReq' = Outdated(g) /\ UNCHANGED <<devs, apps, raced>>
  BY DEF Operate
<1> DEFINE row == [games[g] EXCEPT !.status = s]
<1>3. games[g] \in ConGame
  BY DEF ConInv, ConTyped
<1>4. row \in ConGame /\ row.dev = games[g].dev /\ row.status = s
  BY <1>3 DEF ConGame, ConStatuses
<1>5. games' = [games EXCEPT ![g] = row]
  BY <1>1
<1> HIDE DEF row
<1>6. row.dev \in DOMAIN devs /\ LoggedIn(row.dev)
  BY <1>4 DEF ConInv, ConOwned
<1>7. /\ DOMAIN conReq' = ConReq /\ conReq' = [q \in ConReq |-> conReq'[q]]
      /\ \A q \in ConReq : conReq'[q] = Outdated(g)[q]
  BY <1>2 DEF Outdated
<1>8. raced \subseteq raced' /\ \A q \in ConReq : conReq'[q] \in {NoRequest, Outdated(g)[q]}
  BY <1>2, <1>7
<1>9. /\ ConTyped' /\ ConUnverified' /\ ConOwned' /\ ConTracked' /\ KeysDistinct'
      /\ DOMAIN games' = DOMAIN games /\ games'[g] = row
      /\ \A i \in DOMAIN games \ {g} : games'[i] = games[i]
  BY <1>2, <1>4, <1>5, <1>6, <1>7, <1>8, ConRowWritten
<1>10. ActiveIsReviewed'
  <2> SUFFICES ASSUME NEW i \in DOMAIN games, games'[i].status = Active, i \in unreviewed',
                      i \notin raced'
               PROVE  \E q \in ConReq : /\ conReq'[q].pc = "game_save" /\ conReq'[q].game = i
                                        /\ conReq'[q].row.status # Active
    BY <1>9 DEF ActiveIsReviewed
  <2>1. i # g /\ games[i].status = Active /\ i \in unreviewed /\ i \notin raced
    BY <1>1, <1>2, <1>4, <1>9
  <2>2. PICK q \in ConReq : /\ conReq[q].pc = "game_save" /\ conReq[q].game = i
                            /\ conReq[q].row.status # Active
    BY <2>1 DEF ConInv, ActiveIsReviewed
  <2>3. /\ conReq'[q].pc = conReq[q].pc /\ conReq'[q].game = conReq[q].game
        /\ conReq'[q].row = conReq[q].row
    BY <1>7, ConOutdated DEF ConInv
  <2> QED BY <2>2, <2>3
<1> QED BY <1>9, <1>10 DEF ConInv

-----------------------------------------------------------------------------
(* Settings *)

\* The handler goes on to save the game with a status that asks for a review.
LEMMA ConReprice ==
    ASSUME ConInv, NEW r \in ConReq, conReq[r].pc = "setting_write",
           conReq' = [conReq EXCEPT ![r].pc = "game_save", ![r].row = Repriced(@)]
    PROVE  \E h \in ConHandler :
             /\ conReq' = [conReq EXCEPT ![r] = h] /\ ConKnows(h)
             /\ h.pc = "game_save" /\ h.game = conReq[r].game /\ h.row.status # Active
<1> DEFINE row == [conReq[r].row EXCEPT !.status = Tested]
           h == [conReq[r] EXCEPT !.pc = "game_save", !.row = row]
<1>1. conReq \in [ConReq -> ConHandler] /\ conReq[r] \in ConHandler /\ conReq[r].row \in ConGame
  <2>1. conReq \in [ConReq -> ConHandler] /\ conReq[r] \in ConHandler
    BY DEF ConInv, ConTyped
  <2> QED BY <2>1 DEF ConHandler
<1>2. row \in ConGame /\ row.dev = conReq[r].row.dev /\ row.status = Tested
  BY <1>1 DEF ConGame, ConStatuses
<1>3. conReq' = [conReq EXCEPT ![r] = h]
  BY <1>1 DEF Repriced
<1> HIDE DEF row
<1>4. /\ h \in ConHandler /\ h.pc = "game_save" /\ h.game = conReq[r].game /\ h.row = row
  BY <1>1, <1>2 DEF ConHandler, ConSteps
<1> HIDE DEF h
<1>5. row.status # Active
  BY <1>2 DEF Tested, Active
<1>6. ConKnows(conReq[r])
  BY DEF ConInv, ConTracked
<1>7. ConKnowsRow(h)
  BY <1>2, <1>4, <1>6 DEF ConKnows, ConKnowsRow, ConHoldsRow
<1>8. ConKnows(h)
  BY <1>4, <1>5, <1>7 DEF ConKnows, ConKnowsDev, ConKnowsFresh, ConKnowsKey
<1> QED BY <1>3, <1>4, <1>5, <1>8

LEMMA ConSaveSetting ==
    ASSUME ConInv, NEW r \in ConReq, SettingSave(r)
    PROVE  ConInv'
<1> DEFINE g == conReq[r].game
<1>1. /\ conReq[r].pc = "setting_write" /\ UNCHANGED <<devs, games, apps>>
      /\ unreviewed' = unreviewed \cup {g}
      /\ raced' = IF conReq[r].fresh THEN raced ELSE raced \cup {g}
  BY DEF SettingSave
<1>2. raced \subseteq raced'
  BY <1>1
<1>3. conReq[r].fresh => conReq[r].row = games[g]
  BY <1>1 DEF ConInv, ConTracked, ConKnows, ConKnowsFresh
<1> HIDE DEF g
<1>4. CASE conReq[r].row.status = Active
  <2>1. PICK h \in ConHandler :
          /\ conReq' = [conReq EXCEPT ![r] = h] /\ ConKnows(h)
          /\ h.pc = "game_save" /\ h.game = g /\ h.row.status # Active
    BY <1>1, <1>4, ConReprice DEF SettingSave, g
  <2>2. \A i \in DOMAIN games : games[i].status = Active /\ i \in unreviewed' =>
            i \in unreviewed \/ (h.pc = "game_save" /\ h.game = i /\ h.row.status # Active)
    BY <1>1, <2>1
  <2> QED BY <1>1, <1>2, <2>1, <2>2, ConGoOn
<1>5. CASE conReq[r].row.status # Active
  <2>1. conReq' = [conReq EXCEPT ![r] = NoRequest]
    BY <1>5 DEF SettingSave, Finish
  <2>2. \A i \in DOMAIN games : games[i].status = Active /\ i \in unreviewed' =>
            i \in unreviewed \/ i \in raced'
    BY <1>1, <1>3, <1>5
  <2> QED BY <1>1, <1>2, <2>1, <2>2, ConGoOn, ConIdle, ConIdleKnows
<1> QED BY <1>4, <1>5

LEMMA ConDeleteSetting ==
    ASSUME ConInv, NEW r \in ConReq, SettingDelete(r)
    PROVE  ConInv'
<1>1. /\ conReq[r].pc = "setting_write" /\ UNCHANGED <<devs, games, apps, raced>>
      /\ unreviewed' = unreviewed \cup {conReq[r].game}
      /\ conReq' = [conReq EXCEPT ![r].pc = "game_save", ![r].row = Repriced(@)]
  BY DEF SettingDelete
<1>2. PICK h \in ConHandler :
        /\ conReq' = [conReq EXCEPT ![r] = h] /\ ConKnows(h)
        /\ h.pc = "game_save" /\ h.game = conReq[r].game /\ h.row.status # Active
  BY <1>1, ConReprice
<1>3. \A i \in DOMAIN games : games[i].status = Active /\ i \in unreviewed' =>
          i \in unreviewed \/ (h.pc = "game_save" /\ h.game = i /\ h.row.status # Active)
  BY <1>1, <1>2
<1> QED BY <1>1, <1>2, <1>3, ConGoOn

LEMMA ConFailSetting ==
    ASSUME ConInv, NEW r \in ConReq, SettingFail(r)
    PROVE  ConInv'
<1>1. conReq[r].pc = "setting_write" /\ UNCHANGED <<devs, games, apps, unreviewed, raced>>
  BY DEF SettingFail, tables, history
<1>2. CASE conReq[r].row.status = Active
  <2>1. PICK h \in ConHandler : conReq' = [conReq EXCEPT ![r] = h] /\ ConKnows(h)
    BY <1>1, <1>2, ConReprice DEF SettingFail
  <2> QED BY <1>1, <2>1, ConGo
<1>3. CASE conReq[r].row.status # Active
  BY <1>1, <1>3, ConEnd DEF SettingFail
<1> QED BY <1>2, <1>3

\* Settings have ids, and there are finitely many of them.
ConSettled ==
    drawn \in Nat /\ IsFiniteSet(DOMAIN settings) /\ DOMAIN settings \subseteq Nat \ {0}

LEMMA ConReadSetting ==
    ASSUME ConInv, ConSettled, NEW r \in ConReq, SettingRead(r)
    PROVE  ConInv'
<1> DEFINE i == SettingOf(conReq[r].game, conReq[r].code)
           h == [conReq[r] EXCEPT !.pc = "setting_write", !.id = i]
<1>1. conReq[r].pc = "setting_read" /\ UNCHANGED <<devs, games, apps, unreviewed, raced>>
  BY DEF SettingRead, tables, history
<1>2. CASE Finish(r)
  BY <1>1, <1>2, ConEnd
<1>3. CASE ~Finish(r)
  <2>1. conReq \in [ConReq -> ConHandler] /\ conReq[r] \in ConHandler /\ ConKnows(conReq[r])
    BY DEF ConInv, ConTyped, ConTracked
  <2>2. i \in Nat
    <3> DEFINE S == {j \in DOMAIN settings : /\ settings[j].game = conReq[r].game
                                             /\ settings[j].code = conReq[r].code}
    <3>1. i = FirstOf(S)
      BY DEF SettingOf
    <3>2. S \in SUBSET DOMAIN settings
      OBVIOUS
    <3> HIDE DEF S, i
    <3>3. IsFiniteSet(S) /\ S \subseteq Nat \ {0}
      BY <3>2, FS_Subset DEF ConSettled
    <3> QED BY <3>1, <3>3, ConFirst
  <2>3. conReq' = [conReq EXCEPT ![r] = h]
    BY <1>3, <2>1 DEF SettingRead
  <2> HIDE DEF i
  <2>4. /\ h \in ConHandler /\ h.pc = "setting_write" /\ h.game = conReq[r].game
        /\ h.row = conReq[r].row /\ h.fresh = conReq[r].fresh
    BY <2>1, <2>2 DEF ConHandler, ConSteps
  <2> HIDE DEF h
  <2>5. ConKnows(h)
    BY <1>1, <2>1, <2>4 DEF ConKnows, ConKnowsDev, ConKnowsRow, ConHoldsRow, ConKnowsFresh, ConKnowsKey
  <2> QED BY <1>1, <2>3, <2>4, <2>5, ConGo
<1> QED BY <1>2, <1>3

LEMMA ConSettledKept ==
    ASSUME ConTyped, ConSettled, [ConNext]_conVars
    PROVE  ConSettled'
<1>1. CASE UNCHANGED <<settings, drawn>>
  BY <1>1 DEF ConSettled
<1>2. ASSUME NEW r \in ConReq, SettingSave(r) PROVE ConSettled'
  <2>1. conReq[r].id \in Nat
    BY DEF ConTyped, ConHandler
  <2>2. \E i \in Nat \ {0} : DOMAIN settings' = DOMAIN settings \cup {i} /\ drawn' \in Nat
    <3>1. CASE DOMAIN settings' = DOMAIN settings \cup {drawn'} /\ drawn' = drawn + 1
      BY <3>1 DEF ConSettled
    <3>2. CASE /\ DOMAIN settings' = DOMAIN settings \cup {conReq[r].id} /\ drawn' = drawn
               /\ conReq[r].id # 0
      BY <2>1, <3>2 DEF ConSettled
    <3> QED BY <1>2, <3>1, <3>2 DEF SettingSave, None
  <2> PICK i \in Nat \ {0} : DOMAIN settings' = DOMAIN settings \cup {i} /\ drawn' \in Nat
    BY <2>2
  <2>3. IsFiniteSet(DOMAIN settings \cup {i})
    BY FS_AddElement DEF ConSettled
  <2> QED BY <2>3 DEF ConSettled
<1>3. ASSUME NEW r \in ConReq, SettingDelete(r) PROVE ConSettled'
  <2>1. drawn' = drawn /\ DOMAIN settings' = DOMAIN settings \ {conReq[r].id}
    BY <1>3 DEF SettingDelete
  <2>2. IsFiniteSet(DOMAIN settings \ {conReq[r].id})
    BY FS_Subset DEF ConSettled
  <2> QED BY <2>1, <2>2 DEF ConSettled
<1>4. CASE AccountNext
  <2>1. UNCHANGED <<settings, drawn>>
    BY <1>4 DEF AccountNext, ReadOnly, DeveloperRegister, DeveloperVerify,
                UpdateProfile, DeveloperCreate, DeveloperSave, conVars, tables
  <2> QED BY <1>1, <2>1
<1>5. CASE GameNext
  <2>1. UNCHANGED <<settings, drawn>>
    BY <1>5 DEF GameNext, CreateGame, UpdateGame, TestingStart, TestingFinish,
                SubmitOnlineAudit, ReadGame, GameSave, Operate, tables
  <2> QED BY <1>1, <2>1
<1>6. CASE SettingNext
  <2>1. \/ UNCHANGED <<settings, drawn>>
        \/ \E r \in ConReq : SettingSave(r) \/ SettingDelete(r)
    BY <1>6 DEF SettingNext, SaveSetting, DeleteSetting, ReadGame, SettingRead,
                SettingFail, tables
  <2> QED BY <1>1, <1>2, <1>3, <2>1
<1>7. CASE KeyNext
  <2>1. UNCHANGED <<settings, drawn>>
    BY <1>7 DEF KeyNext, RefreshGameKey, KeyCheck, KeySave, tables
  <2> QED BY <1>1, <2>1
<1>8. CASE UNCHANGED conVars
  BY <1>1, <1>8 DEF conVars
<1> QED BY <1>4, <1>5, <1>6, <1>7, <1>8 DEF ConNext

-----------------------------------------------------------------------------
(* Keys *)

\* The rows of the keys after a handler with the client id k of game g saved: the
\* games of the rows there were stay, and who has k now is g, or had k before.
LEMMA ConKeyRows ==
    ASSUME ConInv, NEW r \in ConReq, KeySave(r)
    PROVE  /\ apps' \in Seq(ConApp) /\ DOMAIN apps \subseteq DOMAIN apps'
           /\ \A i \in DOMAIN apps : apps'[i].game = apps[i].game
           /\ \A i \in DOMAIN apps' :
                 \/ i \in DOMAIN apps /\ apps'[i] = apps[i]
                 \/ apps'[i].game = conReq[r].game /\ apps'[i].client = conReq[r].client
<1> DEFINE q == conReq[r]
<1>1. q \in ConHandler /\ apps \in Seq(ConApp) /\ ConKnowsKey(q) /\ q.pc = "key_save"
  BY DEF ConInv, ConTyped, ConTracked, ConKnows, KeySave
<1>2. q.game \in Nat /\ q.client \in Clients \cup {NoValue}
  BY <1>1 DEF ConHandler
<1>3. DOMAIN apps = 1..Len(apps) /\ Len(apps) \in Nat
  <2>1. apps \in Seq(ConApp)
    BY <1>1
  <2> QED BY <2>1
<1>4. CASE UNCHANGED apps
  BY <1>1, <1>4
<1>5. CASE q.id # None /\ apps' = [apps EXCEPT ![q.id].client = q.client]
  <2>1. q.id \in DOMAIN apps /\ apps[q.id].game = q.game
    BY <1>1, <1>5 DEF ConKnowsKey
  <2> DEFINE row == [apps[q.id] EXCEPT !.client = q.client]
  <2>2. apps[q.id] \in ConApp
    BY <1>1, <2>1
  <2>3. row \in ConApp /\ row.game = q.game /\ row.client = q.client
    BY <1>2, <2>1, <2>2 DEF ConApp
  <2>4. apps' = [apps EXCEPT ![q.id] = row]
    BY <1>5
  <2> HIDE DEF row, q
  <2>5. apps \in [1..Len(apps) -> ConApp]
    BY <1>1, <1>3
  <2>6. apps' \in [1..Len(apps) -> ConApp]
    BY <2>3, <2>4, <2>5
  <2>7. apps' \in Seq(ConApp)
    BY <1>3, <2>6
  <2>8. /\ DOMAIN apps' = DOMAIN apps /\ apps'[q.id] = row
        /\ \A i \in DOMAIN apps \ {q.id} : apps'[i] = apps[i]
    BY <1>3, <2>1, <2>4, <2>5
  <2>9. \A i \in DOMAIN apps : apps'[i].game = apps[i].game
    BY <2>1, <2>3, <2>8
  <2>10. \A i \in DOMAIN apps' :
           \/ i \in DOMAIN apps /\ apps'[i] = apps[i]
           \/ apps'[i].game = q.game /\ apps'[i].client = q.client
    BY <2>3, <2>8
  <2> QED BY <2>7, <2>8, <2>9, <2>10 DEF q
<1>6. CASE apps' = Append(apps, [game |-> q.game, client |-> q.client])
  <2> DEFINE row == [game |-> q.game, client |-> q.client]
  <2>1. row \in ConApp /\ row.game = q.game /\ row.client = q.client
    BY <1>2 DEF ConApp
  <2>2. apps' = Append(apps, row)
    BY <1>6
  <2> HIDE DEF row, q
  <2>3. /\ apps' \in Seq(ConApp) /\ DOMAIN apps' = 1..(Len(apps) + 1) /\ apps'[Len(apps) + 1] = row
        /\ \A i \in DOMAIN apps : apps'[i] = apps[i]
    BY <1>1, <2>1, <2>2
  <2>4. DOMAIN apps \subseteq DOMAIN apps' /\ \A i \in DOMAIN apps' : i \in DOMAIN apps \/ apps'[i] = row
    BY <1>3, <2>3
  <2> QED BY <2>1, <2>3, <2>4 DEF q
<1> QED BY <1>4, <1>5, <1>6 DEF KeySave

LEMMA ConSaveKey ==
    ASSUME ConInv, NEW r \in ConReq, KeySave(r)
    PROVE  ConInv'
<1> DEFINE q == conReq[r]
<1>1. /\ q.pc = "key_save" /\ UNCHANGED <<devs, games, unreviewed>>
      /\ raced' = IF q.fresh THEN raced ELSE raced \cup {q.client}
      /\ q \in ConHandler /\ ConKnowsKey(q)
  BY DEF KeySave, ConInv, ConTyped, ConTracked, ConKnows
<1>2. /\ DOMAIN conReq' = ConReq /\ conReq' = [p \in ConReq |-> conReq'[p]]
      /\ conReq'[r] = NoRequest
      /\ \A p \in ConReq \ {r} :
            conReq'[p] = IF conReq[p].pc = "key_save" /\ conReq[p].client = q.client
                         THEN [conReq[p] EXCEPT !.fresh = FALSE] ELSE conReq[p]
  BY DEF KeySave
<1>3. /\ apps' \in Seq(ConApp) /\ DOMAIN apps \subseteq DOMAIN apps'
      /\ \A i \in DOMAIN apps : apps'[i].game = apps[i].game
      /\ \A i \in DOMAIN apps' :
            \/ i \in DOMAIN apps /\ apps'[i] = apps[i]
            \/ apps'[i].game = q.game /\ apps'[i].client = q.client
  BY ConKeyRows
<1>4. raced \subseteq raced'
  BY <1>1
<1>5. ASSUME NEW p \in ConReq \ {r}
      PROVE  \E h \in ConHandler :
               /\ h = conReq'[p] /\ ConKnows(conReq[p])
               /\ h.pc = conReq[p].pc /\ h.mail = conReq[p].mail /\ h.id = conReq[p].id
               /\ h.game = conReq[p].game /\ h.row = conReq[p].row /\ h.client = conReq[p].client
               /\ h.fresh => conReq[p].fresh
               /\ h.fresh /\ h.pc = "key_save" => h.client # q.client
  <2> DEFINE h == [conReq[p] EXCEPT !.fresh = FALSE]
  <2>1. conReq[p] \in ConHandler /\ ConKnows(conReq[p])
    BY DEF ConInv, ConTyped, ConTracked
  <2>2. /\ h \in ConHandler /\ h.fresh = FALSE
        /\ h.pc = conReq[p].pc /\ h.mail = conReq[p].mail /\ h.id = conReq[p].id
        /\ h.game = conReq[p].game /\ h.row = conReq[p].row /\ h.client = conReq[p].client
    BY <2>1 DEF ConHandler
  <2> HIDE DEF h, q
  <2>3. CASE conReq[p].pc = "key_save" /\ conReq[p].client = q.client
    <3>1. conReq'[p] = h
      BY <1>2, <2>3 DEF h
    <3> QED BY <2>1, <2>2, <3>1
  <2>4. CASE ~(conReq[p].pc = "key_save" /\ conReq[p].client = q.client)
    <3>1. conReq'[p] = conReq[p]
      BY <1>2, <2>4
    <3> QED BY <2>1, <2>4, <3>1
  <2> QED BY <2>3, <2>4
<1> HIDE DEF q
<1>6. ConTyped'
  <2>1. \A p \in ConReq : conReq'[p] \in ConHandler
    BY <1>2, <1>5, ConIdle
  <2>2. conReq' \in [ConReq -> ConHandler]
    BY <1>2, <2>1
  <2> QED BY <1>1, <1>3, <2>2 DEF ConInv, ConTyped
<1>7. ConUnverified' /\ ConOwned'
  BY <1>1 DEF ConInv, ConUnverified, ConOwned, LoggedIn, DevByMail
<1>8. ConTracked'
  <2> SUFFICES ASSUME NEW p \in ConReq PROVE \E h : h = conReq'[p] /\ ConKnows(h)'
    BY ConTrackedNext
  <2>1. CASE p = r
    <3>1. PICK h : h = NoRequest
      OBVIOUS
    <3>2. ConKnows(h)'
      BY <3>1 DEF NoRequest, ConKnows, ConKnowsDev, ConKnowsRow, ConHoldsRow, ConKnowsFresh, ConKnowsKey
    <3> QED BY <1>2, <2>1, <3>1, <3>2
  <2>2. CASE p # r
    <3>1. PICK h \in ConHandler :
               /\ h = conReq'[p] /\ ConKnows(conReq[p])
               /\ h.pc = conReq[p].pc /\ h.mail = conReq[p].mail /\ h.id = conReq[p].id
               /\ h.game = conReq[p].game /\ h.row = conReq[p].row /\ h.client = conReq[p].client
               /\ h.fresh => conReq[p].fresh
               /\ h.fresh /\ h.pc = "key_save" => h.client # q.client
      BY <1>5, <2>2
    <3>2. ConKnowsDev(h)' /\ ConKnowsRow(h)' /\ ConKnowsFresh(h)'
      BY <1>1, <3>1 DEF ConKnows, ConKnowsDev, ConKnowsRow, ConHoldsRow, ConKnowsFresh,
                        LoggedIn, DevByMail
    <3>3. h.pc \in {"key_check", "key_save"} /\ h.id # None =>
              h.id \in DOMAIN apps' /\ apps'[h.id].game = h.game
      BY <1>3, <3>1 DEF ConKnows, ConKnowsKey
    <3>4. ASSUME h.pc = "key_save", h.fresh, NEW i \in DOMAIN apps', apps'[i].client = h.client
          PROVE  apps'[i].game = h.game \/ h.client \in raced'
      <4>1. i \in DOMAIN apps /\ apps'[i] = apps[i]
        BY <1>3, <3>1, <3>4
      <4> QED BY <1>4, <3>1, <3>4, <4>1 DEF ConKnows, ConKnowsKey
    <3>5. ConKnowsKey(h)'
      BY <3>3, <3>4 DEF ConKnowsKey
    <3> QED BY <3>1, <3>2, <3>5 DEF ConKnows
  <2> QED BY <2>1, <2>2
<1>9. ActiveIsReviewed'
  <2> SUFFICES ASSUME NEW g \in DOMAIN games, games[g].status = Active, g \in unreviewed,
                      g \notin raced'
               PROVE  \E p \in ConReq : /\ conReq'[p].pc = "game_save" /\ conReq'[p].game = g
                                        /\ conReq'[p].row.status # Active
    BY <1>1 DEF ActiveIsReviewed
  <2>1. PICK p \in ConReq : /\ conReq[p].pc = "game_save" /\ conReq[p].game = g
                            /\ conReq[p].row.status # Active
    BY <1>4 DEF ConInv, ActiveIsReviewed
  <2>2. p # r
    BY <1>1, <2>1 DEF q
  <2> QED BY <1>5, <2>1, <2>2
<1>10. KeysDistinct'
  <2> SUFFICES ASSUME NEW i \in DOMAIN apps', NEW j \in DOMAIN apps',
                      apps'[i].client = apps'[j].client, apps'[i].game # apps'[j].game
               PROVE  apps'[i].client \in raced'
    BY DEF KeysDistinct
  <2>1. CASE /\ i \in DOMAIN apps /\ apps'[i] = apps[i]
             /\ j \in DOMAIN apps /\ apps'[j] = apps[j]
    BY <1>4, <2>1 DEF ConInv, KeysDistinct
  <2>2. CASE q.fresh
    <3>1. \A k \in DOMAIN apps : apps[k].client = q.client => apps[k].game = q.game \/ q.client \in raced
      BY <1>1, <2>2 DEF ConKnowsKey
    <3> QED BY <1>3, <1>4, <2>1, <3>1
  <2>3. CASE ~q.fresh
    BY <1>1, <1>3, <2>1, <2>3
  <2> QED BY <2>2, <2>3
<1> QED BY <1>6, <1>7, <1>8, <1>9, <1>10 DEF ConInv

LEMMA ConCheckKey ==
    ASSUME ConInv, NEW r \in ConReq, KeyCheck(r)
    PROVE  ConInv'
<1>1. conReq[r].pc = "key_check" /\ UNCHANGED <<devs, games, apps, unreviewed, raced>>
  BY DEF KeyCheck, tables, history
<1>2. CASE Finish(r)
  BY <1>1, <1>2, ConEnd
<1>3. CASE /\ ClientFree(conReq[r].client, conReq[r].game)
           /\ conReq' = [conReq EXCEPT ![r].pc = "key_save"]
  <2> DEFINE h == [conReq[r] EXCEPT !.pc = "key_save"]
             k == conReq[r].client
             g == conReq[r].game
  <2>1. conReq \in [ConReq -> ConHandler] /\ conReq[r] \in ConHandler /\ ConKnows(conReq[r])
    BY DEF ConInv, ConTyped, ConTracked
  <2>2. conReq' = [conReq EXCEPT ![r] = h]
    BY <1>3, <2>1
  <2>3. h \in ConHandler /\ h.pc = "key_save" /\ h.game = g /\ h.client = k /\ h.id = conReq[r].id
    BY <2>1 DEF ConHandler, ConSteps
  <2> HIDE DEF h
  <2>4. ASSUME NEW i \in DOMAIN apps, apps[i].client = k
        PROVE  apps[i].game = g \/ k \in raced
    <3>1. PICK j \in DOMAIN apps : apps[j].client = k /\ apps[j].game = g
      BY <1>3, <2>4, ConClientFree DEF ConInv, ConTyped
    <3> QED BY <2>4, <3>1 DEF ConInv, KeysDistinct
  <2>5. ConKnowsKey(h)
    BY <1>1, <2>1, <2>3, <2>4 DEF ConKnows, ConKnowsKey
  <2>6. ConKnows(h)
    BY <2>3, <2>5 DEF ConKnows, ConKnowsDev, ConKnowsRow, ConHoldsRow, ConKnowsFresh
  <2> QED BY <1>1, <2>2, <2>3, <2>6, ConGo
<1> QED BY <1>2, <1>3 DEF KeyCheck

-----------------------------------------------------------------------------
(* The steps *)

\* A request starts.
LEMMA ConStart ==
    ASSUME ConInv, NEW r \in ConReq, NEW h \in ConHandler, Start(r, h), ConKnows(h),
           UNCHANGED <<tables, history>>
    PROVE  ConInv'
<1>1. /\ conReq[r].pc = "idle" /\ conReq' = [conReq EXCEPT ![r] = h]
      /\ UNCHANGED <<devs, games, apps, unreviewed, raced>>
  BY DEF Start, tables, history
<1> QED BY <1>1, ConGo

LEMMA ConUnchanged == ConInv /\ UNCHANGED conVars => ConInv'
<1> SUFFICES ASSUME ConInv, UNCHANGED conVars PROVE ConInv'
  OBVIOUS
<1>1. UNCHANGED <<devs, games, apps, conReq, unreviewed, raced>>
  BY DEF conVars
<1>2. ConTyped' /\ ConUnverified' /\ ConOwned' /\ ActiveIsReviewed' /\ KeysDistinct'
  BY <1>1 DEF ConInv, ConTyped, ConUnverified, ConOwned, ActiveIsReviewed, KeysDistinct,
              LoggedIn, DevByMail
<1>3. \A q \in ConReq : ConKnows(conReq[q])
  BY DEF ConInv, ConTracked
<1>4. ConTracked'
  <2>1. \A x : ConKnows(x) => ConKnows(x)'
    BY <1>1 DEF ConKnows, ConKnowsDev, ConKnowsRow, ConKnowsFresh, ConKnowsKey, LoggedIn, DevByMail
  <2>2. UNCHANGED conReq
    BY <1>1
  <2> QED BY <1>3, <2>1, <2>2, ConTrackedNext
<1> QED BY <1>2, <1>4 DEF ConInv

LEMMA ConDevIds == ConTyped => DOMAIN devs \subseteq Nat
BY DEF ConTyped

LEMMA ConAccountStep == ConInv /\ AccountNext => ConInv'
<1> SUFFICES ASSUME ConInv, AccountNext PROVE ConInv'
  OBVIOUS
<1>1. CASE ReadOnly
  BY <1>1, ConUnchanged DEF ReadOnly
<1>2. ASSUME NEW r \in ConReq, NEW m \in Mails, DeveloperRegister(r, m) PROVE ConInv'
  <2> DEFINE h == [NoRequest EXCEPT !.pc = "dev_create", !.mail = m]
  <2>1. h \in ConHandler /\ h.pc = "dev_create" /\ h.mail = m
    BY ConIdle DEF ConHandler, ConSteps
  <2>2. Start(r, h) /\ UNCHANGED <<tables, history>>
    BY <1>2 DEF DeveloperRegister
  <2> HIDE DEF h
  <2>3. ConKnows(h)
    BY <2>1 DEF ConKnows, ConKnowsDev, ConKnowsRow, ConHoldsRow, ConKnowsFresh, ConKnowsKey
  <2> QED BY <2>1, <2>2, <2>3, ConStart
<1>3. ASSUME NEW r \in ConReq, NEW d \in DOMAIN devs, LoggedIn(d), NEW s \in {"", "20"},
             Start(r, [NoRequest EXCEPT !.pc = "dev_save", !.id = d, !.status = s]),
             UNCHANGED <<tables, history>>
      PROVE  ConInv'
  <2> DEFINE h == [NoRequest EXCEPT !.pc = "dev_save", !.id = d, !.status = s]
  <2>0. d \in Nat
    BY ConDevIds DEF ConInv
  <2>1. h \in ConHandler /\ h.pc = "dev_save" /\ h.id = d
    BY <2>0, ConIdle DEF ConHandler, ConSteps
  <2>2. Start(r, h)
    BY <1>3
  <2> HIDE DEF h
  <2>3. ConKnows(h)
    BY <1>3, <2>1 DEF ConKnows, ConKnowsDev, ConKnowsRow, ConHoldsRow, ConKnowsFresh, ConKnowsKey
  <2> QED BY <1>3, <2>1, <2>2, <2>3, ConStart
<1>4. ASSUME NEW r \in ConReq, NEW m \in Mails, DeveloperVerify(r, m) PROVE ConInv'
  <2>1. DevByMail(m) \in DOMAIN devs /\ LoggedIn(DevByMail(m))
    BY <1>4, ConDevByMail DEF DeveloperVerify, Verified, ConInv, ConTyped
  <2> QED BY <1>3, <1>4, <2>1 DEF DeveloperVerify, Verified
<1>5. ASSUME NEW r \in ConReq, NEW d \in DOMAIN devs, UpdateProfile(r, d) PROVE ConInv'
  <2>1. devs[d] \in ConDev
    BY DEF ConInv, ConTyped
  <2>2. devs[d].status \in {"", "20"}
    BY <2>1 DEF ConDev
  <2> QED BY <1>3, <1>5, <2>2 DEF UpdateProfile
<1> QED BY <1>1, <1>2, <1>4, <1>5, ConCreateDev, ConSaveDev DEF AccountNext

\* A request read game g and goes on with row.
LEMMA ConReadGame ==
    ASSUME ConInv, NEW r \in ConReq, NEW kind \in {"game", "save", "delete"},
           NEW pc \in {"game_save", "setting_read"}, NEW g \in DOMAIN games, NEW row \in ConGame,
           NEW code \in Codes \cup {NoValue}, ReadGame(r, kind, pc, g, row, code),
           row.dev = games[g].dev,
           pc = "setting_read" \/ row.status = Active => row = games[g]
    PROVE  ConInv'
<1> DEFINE h == [NoRequest EXCEPT !.pc = pc, !.kind = kind, !.game = g, !.row = row, !.code = code]
<1>0. g \in Nat
  BY DEF ConInv, ConTyped
<1>1. h \in ConHandler /\ h.pc = pc /\ h.game = g /\ h.row = row
  BY <1>0, ConIdle DEF ConHandler, ConSteps
<1>2. Start(r, h) /\ UNCHANGED <<tables, history>>
  BY DEF ReadGame
<1> HIDE DEF h
<1>3. games[g].dev \in DOMAIN devs /\ LoggedIn(games[g].dev)
  BY DEF ConInv, ConOwned
<1>4. ConKnows(h)
  BY <1>1, <1>3 DEF ConKnows, ConKnowsDev, ConKnowsRow, ConHoldsRow, ConKnowsFresh, ConKnowsKey
<1> QED BY <1>1, <1>2, <1>4, ConStart

LEMMA ConGameStep == ConInv /\ GameNext => ConInv'
<1> SUFFICES ASSUME ConInv, GameNext PROVE ConInv'
  OBVIOUS
<1>1. ASSUME NEW r \in ConReq, NEW g \in DOMAIN games, NEW t \in Texts, UpdateGame(r, g, t)
      PROVE  ConInv'
  <2> DEFINE s == ResetStatus(games[g], t # games[g].text)
             row == [games[g] EXCEPT !.text = t, !.status = s]
  <2>1. games[g] \in ConGame
    BY DEF ConInv, ConTyped
  <2>2. row \in ConGame /\ row.dev = games[g].dev
    BY <2>1 DEF ConGame, ConStatuses, ResetStatus
  <2>3. row.status = Active => row = games[g]
    BY <2>1 DEF ConGame, ResetStatus, Active, Tested
  <2>4. ReadGame(r, "game", "game_save", g, row, NoValue)
    BY <1>1 DEF UpdateGame
  <2> HIDE DEF row
  <2> QED BY <2>2, <2>3, <2>4, ConReadGame
<1>2. ASSUME NEW r \in ConReq, NEW g \in DOMAIN games,
             NEW s \in {Testing, Tested, PendingApprove},
             ReadGame(r, "game", "game_save", g, [games[g] EXCEPT !.status = s], NoValue)
      PROVE  ConInv'
  <2> DEFINE row == [games[g] EXCEPT !.status = s]
  <2>1. games[g] \in ConGame
    BY DEF ConInv, ConTyped
  <2>2. row \in ConGame /\ row.dev = games[g].dev /\ row.status # Active
    BY <2>1 DEF ConGame, ConStatuses, Testing, Tested, PendingApprove, Active
  <2>3. ReadGame(r, "game", "game_save", g, row, NoValue)
    BY <1>2
  <2> HIDE DEF row
  <2> QED BY <2>2, <2>3, ConReadGame
<1>3. Edited \subseteq DOMAIN games
  BY DEF Edited
<1>4. ASSUME NEW r \in ConReq, NEW g \in DOMAIN games,
             TestingStart(r, g) \/ TestingFinish(r, g) \/ SubmitOnlineAudit(r, g)
      PROVE  ConInv'
  BY <1>2, <1>4 DEF TestingStart, TestingFinish, SubmitOnlineAudit
<1> QED BY <1>1, <1>3, <1>4, ConCreateGame, ConSaveGame, ConOperate DEF GameNext

LEMMA ConSettingStep == ConInv /\ ConSettled /\ SettingNext => ConInv'
<1> SUFFICES ASSUME ConInv, ConSettled, SettingNext PROVE ConInv'
  OBVIOUS
<1>1. ASSUME NEW r \in ConReq, NEW g \in DOMAIN games, NEW c \in Codes,
             SaveSetting(r, g, c) \/ DeleteSetting(r, g, c)
      PROVE  ConInv'
  <2>1. games[g] \in ConGame
    BY DEF ConInv, ConTyped
  <2> QED BY <1>1, <2>1, ConReadGame DEF SaveSetting, DeleteSetting
<1>2. Edited \subseteq DOMAIN games
  BY DEF Edited
<1> QED BY <1>1, <1>2, ConReadSetting, ConSaveSetting, ConFailSetting, ConDeleteSetting
        DEF SettingNext

LEMMA ConKeyStep == ConInv /\ KeyNext => ConInv'
<1> SUFFICES ASSUME ConInv, KeyNext PROVE ConInv'
  OBVIOUS
<1>1. ASSUME NEW r \in ConReq, NEW g \in DOMAIN games, NEW k \in Clients, RefreshGameKey(r, g, k)
      PROVE  ConInv'
  <2> DEFINE i == AppOf(g)
             h == [NoRequest EXCEPT !.pc = "key_check", !.game = g, !.client = k, !.id = i]
  <2>1. i \in Nat /\ (i # None => i \in DOMAIN apps /\ apps[i].game = g)
    BY ConAppOf DEF ConInv, ConTyped
  <2>2. Start(r, h) /\ UNCHANGED <<tables, history>>
    BY <1>1 DEF RefreshGameKey
  <2> HIDE DEF i
  <2>3. g \in Nat
    BY DEF ConInv, ConTyped
  <2>4. h \in ConHandler /\ h.pc = "key_check" /\ h.game = g /\ h.id = i
    BY <2>1, <2>3, ConIdle DEF ConHandler, ConSteps
  <2> HIDE DEF h
  <2>5. ConKnows(h)
    BY <2>1, <2>4 DEF ConKnows, ConKnowsDev, ConKnowsRow, ConHoldsRow, ConKnowsFresh, ConKnowsKey
  <2> QED BY <2>2, <2>4, <2>5, ConStart
<1> QED BY <1>1, ConCheckKey, ConSaveKey DEF KeyNext

LEMMA ConStep == ConInv /\ ConSettled /\ [ConNext]_conVars => (ConInv /\ ConSettled)'
<1>1. ConInv /\ ConSettled /\ [ConNext]_conVars => ConSettled'
  BY ConSettledKept DEF ConInv
<1>2. ConInv /\ ConSettled /\ [ConNext]_conVars => ConInv'
  BY ConUnchanged, ConAccountStep, ConGameStep, ConSettingStep, ConKeyStep DEF ConNext
<1> QED BY <1>1, <1>2

\* The console keeps its invariant: every handler in progress knows of the rows
\* it read what ConKnows says, however the others interleave with it.
THEOREM ConsoleInvariant == ConSpec => [](ConInv /\ ConSettled)
<1>1. ConInit => ConInv /\ ConSettled
  <2>1. ConInit => ConSettled
    <3> SUFFICES ASSUME ConInit PROVE ConSettled
      OBVIOUS
    <3>1. drawn = 0 /\ DOMAIN settings = {}
      BY DEF ConInit
    <3> QED BY <3>1, FS_EmptySet DEF ConSettled
  <2> QED BY <2>1, ConInitially
<1> QED BY <1>1, ConStep, PTL DEF ConSpec

\* No game is Active with texts or settings no operator saw, but for the two
\* races ActiveIsReviewed names (UpdateGame, the settings and the audits).
THEOREM ActiveGamesReviewed == ConSpec => []ActiveIsReviewed
<1>1. ConInv => ActiveIsReviewed
  BY DEF ConInv
<1> QED BY <1>1, ConsoleInvariant, PTL

\* The second row of an address is never verified and never owns a game
\* (DeveloperRegister, DeveloperVerify, DeveloperLogin and UpdateGame).
THEOREM SecondRowsDead == ConSpec => []SecondRowIsDead
<1>1. ConInv => SecondRowIsDead
  BY DEF ConInv, ConUnverified, ConOwned, SecondRowIsDead
<1> QED BY <1>1, ConsoleInvariant, PTL

\* Two games share a client id only if two refreshes of a key raced for it
\* (RefreshGameKey).
THEOREM KeysStayDistinct == ConSpec => []KeysDistinct
<1>1. ConInv => KeysDistinct
  BY DEF ConInv
<1> QED BY <1>1, ConsoleInvariant, PTL
=============================================================================
