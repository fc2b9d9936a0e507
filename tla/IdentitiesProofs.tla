-------------------------- MODULE IdentitiesProofs --------------------------
(***************************************************************************)
(* For any number of users, wallets, X accounts, messages, logins and      *)
(* overlapping requests: a row never passes to another user, an identity   *)
(* leaves its user only when he rebinds it, and gets a second row only     *)
(* from a request whose look-up is out of date.  IdInv says what a request *)
(* still knows of the rows it has read: a row is never taken from its      *)
(* user, so the row VerifyWallet is about to save is still his.            *)
(***************************************************************************)
EXTENDS Identities, FiniteSetTheorems, WellFoundedInduction, TLAPS

Ids == Wallets \cup Accounts
Row == [main : Nat, id : Ids]

Login == [main : Nat, id : Accounts, kept : BOOLEAN]

Request ==
    [pc : {"idle", "look", "create", "leave", "own", "bind", "x_check", "x_save", "x_done"},
     user : Nat, id : Ids \cup {Nothing}, key : Nat, found : Nat, own : Nat]

Tables ==
    /\ users \in Nat /\ rows \in Seq(Row)
    /\ messages \in Seq(Wallets) /\ logins \in Seq(Login)
    /\ req \in [Req -> Request]

\* Row i, if it is one, belongs to user u.
Belongs(i, u) == i \in 0..Len(rows) /\ (i # None => rows[i].main = u)

RequestOk(r) ==
    /\ req[r].pc \in {"look", "create"} => req[r].id \in Wallets /\ req[r].found = None
    /\ req[r].pc \in {"own", "bind"} =>
          req[r].user \in Nat /\ req[r].id \in Wallets /\ Belongs(req[r].found, req[r].user)
    /\ req[r].pc = "bind" =>
          Belongs(req[r].own, req[r].user) /\ (req[r].found # None => req[r].own = req[r].found)
    /\ req[r].pc \in {"x_check", "x_save"} => req[r].user \in Nat /\ req[r].id \in Accounts
    /\ req[r].pc = "x_save" => req[r].found = None
    /\ req[r].pc \in {"x_check", "x_save", "x_done"} => req[r].key \in DOMAIN logins

Requests == \A r \in Req : RequestOk(r)

IdInv == Tables /\ Requests

\* The two action properties, as formulas about one step.
KeepsUser ==
    /\ \A i \in DOMAIN rows : rows'[i].main = rows[i].main
    /\ \A id \in Ids :
          RowOf(id) # None /\ Owner(id)' # Owner(id) => rows'[RowOf(id)].id # id \/ Stale(id)

SecondIsRace ==
    \A id \in Ids :
        RowOf(id) # None /\ Cardinality(Holding(id))' > Cardinality(Holding(id)) => Stale(id)

-----------------------------------------------------------------------------
LEMMA FirstIsLeast ==
    ASSUME NEW S \in SUBSET (Nat \ {0})
    PROVE  /\ S = {} => FirstOf(S) = None
           /\ S # {} => FirstOf(S) \in S /\ \A j \in S : FirstOf(S) <= j
<1>1. CASE S = {}
  BY <1>1 DEF FirstOf
<1>2. CASE S # {}
  <2>1. \E i \in S : \A j \in S : i <= j
    <3> DEFINE R == OpToRel(<, Nat)
    <3>1. S \subseteq Nat /\ IsWellFoundedOn(R, Nat)
      BY NatLessThanWellFounded
    <3>2. PICK i \in S : \A j \in S : ~(<<j, i>> \in R)
      BY <1>2, <3>1, WFMin
    <3>3. ASSUME NEW j \in S, j < i PROVE FALSE
      BY <3>2, <3>3 DEF OpToRel
    <3> QED BY <3>3
  <2> QED BY <1>2, <2>1 DEF FirstOf
<1> QED BY <1>1, <1>2

LEMMA RowsOfId ==
    ASSUME Tables, NEW id
    PROVE  /\ IsFiniteSet(Holding(id)) /\ Holding(id) \subseteq 1..Len(rows) /\ Len(rows) \in Nat
           /\ DOMAIN rows = 1..Len(rows)
           /\ RowOf(id) \in 0..Len(rows)
           /\ RowOf(id) = None <=> Holding(id) = {}
           /\ RowOf(id) # None => RowOf(id) \in Holding(id)
           /\ \A j \in Holding(id) : RowOf(id) <= j
<1>1. DOMAIN rows = 1..Len(rows) /\ Len(rows) \in Nat
  BY DEF Tables
<1>2. Holding(id) \subseteq 1..Len(rows)
  BY <1>1 DEF Holding
<1>3. IsFiniteSet(Holding(id))
  <2>1. IsFiniteSet(1..Len(rows))
    BY <1>1, FS_Interval
  <2> QED BY <1>2, <2>1, FS_Subset
<1>4. Holding(id) \in SUBSET (Nat \ {0})
  BY <1>1, <1>2
<1> QED BY <1>1, <1>2, <1>3, <1>4, FirstIsLeast DEF RowOf, None

\* A wallet row of a user belongs to him.
LEMMA OwnRow ==
    ASSUME Tables, NEW u PROVE Belongs(WalletRow(u), u)
<1> DEFINE S == {i \in DOMAIN rows : rows[i].main = u /\ rows[i].id \in Wallets}
<1>1. DOMAIN rows = 1..Len(rows) /\ Len(rows) \in Nat
  BY DEF Tables
<1>2. S \in SUBSET (Nat \ {0})
  BY <1>1
<1>3. FirstOf(S) = None \/ FirstOf(S) \in S
  BY <1>2, FirstIsLeast
<1> QED BY <1>1, <1>3 DEF WalletRow, Belongs, None

-----------------------------------------------------------------------------
LEMMA IdInit == Init => IdInv
<1> SUFFICES ASSUME Init PROVE IdInv
  OBVIOUS
<1> USE DEF Init
<1>1. Tables
  <2>1. Idle \in Request
    BY DEF Idle, Request, None
  <2> QED BY <2>1, IdentitiesAssumption DEF Tables
<1>2. \A r \in Req : req[r].pc = "idle"
  BY DEF Idle, Init
<1> QED BY <1>1, <1>2 DEF IdInv, Requests, RequestOk

\* A step that leaves the rows alone moves no identity.
LEMMA SameRows ==
    ASSUME Tables, rows' = rows PROVE KeepsUser /\ SecondIsRace
<1>1. ASSUME NEW id \in Ids
      PROVE  /\ Holding(id)' = Holding(id) /\ RowOf(id)' = RowOf(id) /\ Owner(id)' = Owner(id)
             /\ ~(Cardinality(Holding(id))' > Cardinality(Holding(id)))
  <2>1. Holding(id)' = Holding(id) /\ RowOf(id)' = RowOf(id) /\ Owner(id)' = Owner(id)
    BY DEF Holding, RowOf, Owner
  <2>2. Cardinality(Holding(id)) \in Nat
    BY RowsOfId, FS_CardinalityType
  <2> QED BY <2>1, <2>2
<1> QED BY <1>1 DEF KeepsUser, SecondIsRace

\* A new row: identities but its own are untouched.
LEMMA InsertRow ==
    ASSUME Tables, NEW u \in Nat, NEW d \in Ids, Insert(u, d),
           RowOf(d) # None => Stale(d)
    PROVE  /\ KeepsUser /\ SecondIsRace
           /\ rows' \in Seq(Row) /\ Len(rows') = Len(rows) + 1
<1>1. /\ rows \in Seq(Row) /\ Len(rows) \in Nat /\ DOMAIN rows = 1..Len(rows)
      /\ rows' = Append(rows, [main |-> u, id |-> d]) /\ [main |-> u, id |-> d] \in Row
  BY DEF Tables, Insert, Row
<1>2. /\ rows' \in Seq(Row) /\ Len(rows') = Len(rows) + 1
      /\ DOMAIN rows' = DOMAIN rows \cup {Len(rows) + 1}
      /\ \A i \in DOMAIN rows : rows'[i] = rows[i]
      /\ rows'[Len(rows) + 1].id = d
  BY <1>1
<1>3. ASSUME NEW id \in Ids, id # d
      PROVE  /\ Holding(id)' = Holding(id) /\ RowOf(id)' = RowOf(id)
             /\ RowOf(id) # None => Owner(id)' = Owner(id)
             /\ ~(Cardinality(Holding(id))' > Cardinality(Holding(id)))
  <2>1. Holding(id)' = Holding(id)
    BY <1>2, <1>3 DEF Holding
  <2>2. RowOf(id)' = RowOf(id)
    BY <2>1 DEF RowOf
  <2>3. Cardinality(Holding(id)) \in Nat
    BY RowsOfId, FS_CardinalityType
  <2>4. RowOf(id) # None => RowOf(id) \in DOMAIN rows
    BY RowsOfId
  <2> QED BY <1>2, <2>1, <2>2, <2>3, <2>4 DEF Owner
<1> QED BY <1>2, <1>3 DEF KeepsUser, SecondIsRace

\* A user's row is given another identity: the one it held may lose its first row, the new
\* one gains a row unless it was this one.
LEMMA SaveRow ==
    ASSUME Tables, NEW u \in Nat, NEW d \in Ids, NEW k \in DOMAIN rows, rows[k].main = u,
           rows' = [rows EXCEPT ![k] = [main |-> u, id |-> d]],
           RowOf(d) \in {None, k} \/ Stale(d)
    PROVE  /\ KeepsUser /\ SecondIsRace
           /\ rows' \in Seq(Row) /\ Len(rows') = Len(rows)
<1>1. /\ rows \in Seq(Row) /\ Len(rows) \in Nat /\ DOMAIN rows = 1..Len(rows)
      /\ [main |-> u, id |-> d] \in Row
  BY DEF Tables, Row
<1>2. /\ rows' \in Seq(Row) /\ Len(rows') = Len(rows) /\ DOMAIN rows' = DOMAIN rows
      /\ \A i \in DOMAIN rows \ {k} : rows'[i] = rows[i]
      /\ rows'[k].main = rows[k].main /\ rows'[k].id = d
  BY <1>1
<1>3. ASSUME NEW id \in Ids, id # d
      PROVE  /\ RowOf(id) # None /\ Owner(id)' # Owner(id) => rows'[RowOf(id)].id # id
             /\ ~(Cardinality(Holding(id))' > Cardinality(Holding(id)))
  <2>1. Holding(id)' = Holding(id) \ {k}
    BY <1>2, <1>3 DEF Holding
  <2>2. /\ IsFiniteSet(Holding(id)) /\ Holding(id)' \subseteq Holding(id)
        /\ Cardinality(Holding(id)) \in Nat
    BY <2>1, RowsOfId, FS_CardinalityType
  <2>3. Cardinality(Holding(id)') <= Cardinality(Holding(id)) /\ Cardinality(Holding(id)') \in Nat
    BY <2>2, FS_Subset, FS_CardinalityType
  <2>4. ASSUME RowOf(id) # None, RowOf(id) # k PROVE Owner(id)' = Owner(id)
    <3>1. /\ RowOf(id) \in Holding(id)' /\ \A j \in Holding(id)' : RowOf(id) <= j
          /\ Holding(id)' \in SUBSET (Nat \ {0})
      BY <2>1, <2>4, RowsOfId
    <3>2. RowOf(id)' = FirstOf(Holding(id)')
      BY DEF RowOf, FirstOf
    <3>3. FirstOf(Holding(id)') \in Holding(id)' /\ FirstOf(Holding(id)') <= RowOf(id)
      BY <3>1, FirstIsLeast
    <3>4. RowOf(id)' = RowOf(id)
      BY <3>1, <3>2, <3>3
    <3>5. RowOf(id) \in DOMAIN rows \ {k}
      BY <2>4, RowsOfId
    <3> QED BY <1>2, <3>4, <3>5 DEF Owner
  <2>5. ~(Cardinality(Holding(id))' > Cardinality(Holding(id)))
    BY <2>2, <2>3
  <2>6. CASE RowOf(id) = k
    BY <1>2, <1>3, <2>5, <2>6
  <2>7. CASE RowOf(id) # k
    BY <2>4, <2>5, <2>7
  <2> QED BY <2>6, <2>7
<1>4. ASSUME RowOf(d) = k
      PROVE  Owner(d)' = Owner(d) /\ ~(Cardinality(Holding(d))' > Cardinality(Holding(d)))
  <2>1. k \in Holding(d) /\ k # None
    BY <1>1, <1>4, RowsOfId DEF None
  <2>2. Holding(d)' = Holding(d)
    BY <1>2, <2>1 DEF Holding
  <2>3. RowOf(d)' = RowOf(d)
    BY <2>2 DEF RowOf
  <2>4. Cardinality(Holding(d)) \in Nat
    BY RowsOfId, FS_CardinalityType
  <2> QED BY <1>2, <1>4, <2>1, <2>2, <2>3, <2>4 DEF Owner
<1> QED BY <1>2, <1>3, <1>4 DEF KeepsUser, SecondIsRace

-----------------------------------------------------------------------------
\* What a request knows survives the steps of the others.
LEMMA OthersKnow ==
    ASSUME IdInv, NEW r \in Req, \A q \in Req \ {r} : req'[q] = req[q],
           KeepsUser, Len(rows') \in Nat, Len(rows') >= Len(rows), DOMAIN logins \subseteq DOMAIN logins',
           RequestOk(r)'
    PROVE  Requests'
<1>1. Len(rows) \in Nat /\ DOMAIN rows = 1..Len(rows)
  BY DEF IdInv, Tables
<1>2. ASSUME NEW i, NEW u, Belongs(i, u)
      PROVE  i \in 0..Len(rows') /\ (i # None => rows'[i].main = u)
  <2>1. i # None => i \in DOMAIN rows
    BY <1>1, <1>2 DEF Belongs, None
  <2> QED BY <1>1, <1>2, <2>1 DEF Belongs, KeepsUser
<1>3. ASSUME NEW q \in Req \ {r} PROVE RequestOk(q)'
  <2>1. RequestOk(q) /\ req'[q] = req[q]
    BY DEF IdInv, Requests
  <2> QED BY <1>2, <2>1 DEF RequestOk, Belongs
<1> QED BY <1>3 DEF Requests

\* One request moves to v, the others stay.
LEMMA OneRequest ==
    ASSUME Tables, NEW r \in Req, NEW v \in Request, req' = [req EXCEPT ![r] = v]
    PROVE  req' \in [Req -> Request] /\ req'[r] = v /\ \A q \in Req \ {r} : req'[q] = req[q]
BY DEF Tables

\* Actions of one request that write no row.
LEMMA QuietRequest ==
    ASSUME IdInv, NEW r \in Req, NEW v \in Request, req' = [req EXCEPT ![r] = v],
           rows' = rows, UNCHANGED <<users, messages>>,
           logins' \in Seq(Login), DOMAIN logins \subseteq DOMAIN logins', RequestOk(r)'
    PROVE  IdInv' /\ KeepsUser /\ SecondIsRace
<1>1. KeepsUser /\ SecondIsRace
  BY SameRows DEF IdInv
<1>2. req' \in [Req -> Request] /\ \A q \in Req \ {r} : req'[q] = req[q]
  BY OneRequest DEF IdInv
<1>3. Tables' /\ Len(rows') \in Nat /\ Len(rows') >= Len(rows)
  BY <1>2 DEF IdInv, Tables
<1>4. Requests'
  BY <1>1, <1>2, <1>3, OthersKnow
<1> QED BY <1>1, <1>3, <1>4 DEF IdInv

\* Actions of one request that write a row.
LEMMA WritingRequest ==
    ASSUME IdInv, NEW r \in Req, NEW v \in Request, req' = [req EXCEPT ![r] = v],
           KeepsUser, SecondIsRace, rows' \in Seq(Row), Len(rows') >= Len(rows),
           users' \in Nat, UNCHANGED <<messages, logins>>, RequestOk(r)'
    PROVE  IdInv' /\ KeepsUser /\ SecondIsRace
<1>1. req' \in [Req -> Request] /\ \A q \in Req \ {r} : req'[q] = req[q]
  BY OneRequest DEF IdInv
<1>2. Tables' /\ Len(rows') \in Nat
  BY <1>1 DEF IdInv, Tables
<1>3. Requests'
  BY <1>1, <1>2, OthersKnow
<1> QED BY <1>2, <1>3 DEF IdInv

\* A request that waits or is about to leave knows nothing.
LEMMA IdleOk ==
    ASSUME Tables, NEW r \in Req, NEW v \in Request, req' = [req EXCEPT ![r] = v],
           v.pc \in {"idle", "leave"}
    PROVE  RequestOk(r)'
BY OneRequest DEF RequestOk

LEMMA IdleRequest == Idle \in Request /\ Idle.pc = "idle"
BY DEF Idle, Request, None

-----------------------------------------------------------------------------
\* GetAuthMsg, XLogin and the goroutine that waits for a login.
LEMMA TableStep ==
    ASSUME IdInv,
           \/ \E w \in Wallets : GetAuthMsg(w)
           \/ \E u \in 1..users, a \in Accounts : XLogin(u, a)
           \/ \E t \in DOMAIN logins : XExpire(t)
    PROVE  IdInv' /\ KeepsUser /\ SecondIsRace
<1>1. UNCHANGED <<users, rows, req>>
  BY DEF GetAuthMsg, XLogin, XExpire
<1>2. KeepsUser /\ SecondIsRace
  BY <1>1, SameRows DEF IdInv
<1>3. /\ messages' \in Seq(Wallets) /\ logins' \in Seq(Login)
      /\ DOMAIN logins \subseteq DOMAIN logins'
  <2>0. messages \in Seq(Wallets) /\ logins \in Seq(Login) /\ users \in Nat
    BY DEF IdInv, Tables
  <2>1. ASSUME NEW w \in Wallets, GetAuthMsg(w)
        PROVE  /\ messages' \in Seq(Wallets) /\ logins' \in Seq(Login)
               /\ DOMAIN logins \subseteq DOMAIN logins'
    BY <2>0, <2>1 DEF GetAuthMsg
  <2>2. ASSUME NEW u \in 1..users, NEW a \in Accounts, XLogin(u, a)
        PROVE  /\ messages' \in Seq(Wallets) /\ logins' \in Seq(Login)
               /\ DOMAIN logins \subseteq DOMAIN logins'
    <3>1. NewLogin(u, a) \in Login
      BY <2>0 DEF NewLogin, Login
    <3> QED BY <2>0, <2>2, <3>1 DEF XLogin
  <2>3. ASSUME NEW t \in DOMAIN logins, XExpire(t)
        PROVE  /\ messages' \in Seq(Wallets) /\ logins' \in Seq(Login)
               /\ DOMAIN logins \subseteq DOMAIN logins'
    <3>1. logins[t] \in Login
      BY <2>0
    <3>2. [logins[t] EXCEPT !.kept = FALSE] \in Login
      BY <3>1 DEF Login
    <3>3. logins' = [logins EXCEPT ![t] = [logins[t] EXCEPT !.kept = FALSE]] /\ messages' = messages
      BY <2>3 DEF XExpire
    <3> QED BY <2>0, <3>2, <3>3
  <2> QED BY <2>1, <2>2, <2>3
<1>4. Requests'
  BY <1>1, <1>3 DEF IdInv, Requests, RequestOk, Belongs
<1>5. Tables'
  BY <1>1, <1>3 DEF IdInv, Tables
<1> QED BY <1>2, <1>4, <1>5 DEF IdInv

LEMMA SignInStep ==
    ASSUME IdInv, NEW r \in Req,
           \/ \E m \in DOMAIN messages : SignInEnter(r, m)
           \/ SignInLook(r) \/ SignInCreate(r) \/ SignInLeave(r)
    PROVE  IdInv' /\ KeepsUser /\ SecondIsRace
<1>0. /\ Tables /\ RequestOk(r) /\ req[r] \in Request /\ users \in Nat
      /\ logins \in Seq(Login) /\ messages \in Seq(Wallets) /\ Len(rows) \in Nat
  BY DEF IdInv, Tables, Requests
<1>1. ASSUME NEW m \in DOMAIN messages, SignInEnter(r, m)
      PROVE  IdInv' /\ KeepsUser /\ SecondIsRace
  <2> DEFINE v == [Idle EXCEPT !.id = messages[m], !.key = m,
                               !.pc = IF m \in lock THEN "leave" ELSE "look"]
  <2>1. req' = [req EXCEPT ![r] = v] /\ UNCHANGED <<users, rows, messages, logins>>
    BY <1>1 DEF SignInEnter
  <2>2. messages[m] \in Wallets /\ m \in Nat
    BY <1>0
  <2>3. /\ v \in Request /\ v.pc \in {"look", "leave"} /\ v.id \in Wallets /\ v.found = None
    BY <2>2 DEF Idle, Request, Ids, None
  <2>4. RequestOk(r)'
    BY <1>0, <2>1, <2>3, OneRequest DEF RequestOk
  <2> HIDE DEF v
  <2> QED BY <1>0, <2>1, <2>3, <2>4, QuietRequest
<1>2. CASE SignInLook(r)
  <2>1. PICK pc \in {"create", "leave"} : Goto(r, pc)
    BY <1>2 DEF SignInLook
  <2> DEFINE v == [req[r] EXCEPT !.pc = pc]
  <2>2. /\ req[r].pc = "look" /\ req' = [req EXCEPT ![r] = v]
        /\ UNCHANGED <<users, rows, messages, logins>>
    BY <1>2, <2>1 DEF SignInLook, Goto
  <2>3. v \in Request /\ v.pc = pc /\ v.id = req[r].id /\ v.found = req[r].found
    BY <1>0 DEF Request
  <2>4. RequestOk(r)'
    BY <1>0, <2>2, <2>3, OneRequest DEF RequestOk
  <2> HIDE DEF v
  <2> QED BY <1>0, <2>2, <2>3, <2>4, QuietRequest
<1>3. CASE SignInCreate(r)
  <2> DEFINE v == [req[r] EXCEPT !.pc = "leave"]
  <2>1. /\ req[r].pc = "create" /\ req' = [req EXCEPT ![r] = v]
        /\ UNCHANGED <<messages, logins>>
    BY <1>3 DEF SignInCreate, Goto
  <2>2. v \in Request /\ v.pc = "leave"
    BY <1>0 DEF Request
  <2>3. RequestOk(r)' /\ req[r].id \in Ids /\ req[r].found = None
    BY <1>0, <2>1, <2>2, IdleOk DEF RequestOk, Ids
  <2> HIDE DEF v
  <2>4. CASE UNCHANGED <<users, rows>>
    BY <1>0, <2>1, <2>2, <2>3, <2>4, QuietRequest
  <2>5. CASE users' = users + 1 /\ Insert(users', req[r].id)
    <3>1. Insert(users + 1, req[r].id) /\ users + 1 \in Nat
      BY <1>0, <2>5
    <3>2. RowOf(req[r].id) # None => Stale(req[r].id)
      BY <2>1, <2>3 DEF Stale
    <3>3. KeepsUser /\ SecondIsRace /\ rows' \in Seq(Row) /\ Len(rows') = Len(rows) + 1
      BY <1>0, <2>3, <3>1, <3>2, InsertRow
    <3>4. Len(rows') >= Len(rows) /\ users' \in Nat
      BY <1>0, <2>5, <3>1, <3>3
    <3> QED BY <2>1, <2>2, <2>3, <3>3, <3>4, WritingRequest
  <2> QED BY <1>3, <2>4, <2>5 DEF SignInCreate
<1>4. CASE SignInLeave(r)
  <2>1. req' = [req EXCEPT ![r] = Idle] /\ UNCHANGED <<users, rows, messages, logins>>
    BY <1>4 DEF SignInLeave, Finish
  <2>2. RequestOk(r)'
    BY <1>0, <2>1, IdleRequest, IdleOk
  <2> QED BY <1>0, <2>1, <2>2, IdleRequest, QuietRequest
<1> QED BY <1>1, <1>2, <1>3, <1>4

LEMMA BindStep ==
    ASSUME IdInv, NEW r \in Req,
           \/ \E u \in 1..users, m \in DOMAIN messages : BindRead(r, u, m)
           \/ BindOwn(r) \/ BindSave(r)
    PROVE  IdInv' /\ KeepsUser /\ SecondIsRace
<1>0. /\ Tables /\ RequestOk(r) /\ req[r] \in Request /\ users \in Nat
      /\ logins \in Seq(Login) /\ messages \in Seq(Wallets)
      /\ Len(rows) \in Nat /\ DOMAIN rows = 1..Len(rows)
  BY DEF IdInv, Tables, Requests
<1>1. ASSUME NEW u \in 1..users, NEW m \in DOMAIN messages, BindRead(r, u, m)
      PROVE  IdInv' /\ KeepsUser /\ SecondIsRace
  <2> DEFINE i == RowOf(messages[m])
             v == [Idle EXCEPT !.pc = "own", !.user = u, !.id = messages[m],
                               !.key = m, !.found = i]
  <2>1. /\ MayBind(u, i) /\ req' = [req EXCEPT ![r] = v]
        /\ UNCHANGED <<users, rows, messages, logins>>
    BY <1>1 DEF BindRead
  <2>2. u \in Nat /\ m \in Nat /\ messages[m] \in Wallets
    BY <1>0
  <2>3. i \in Nat /\ Belongs(i, u)
    BY <1>0, <2>1, RowsOfId DEF Belongs, MayBind
  <2> HIDE DEF i
  <2>4. /\ v \in Request /\ v.pc = "own" /\ v.user = u /\ v.id = messages[m] /\ v.found = i
    <3>1. PICK d \in Ids : d = messages[m]
      BY <2>2 DEF Ids
    <3>2. v = [Idle EXCEPT !.pc = "own", !.user = u, !.id = d, !.key = m, !.found = i]
      BY <3>1
    <3> HIDE DEF v
    <3>3. v \in Request /\ v.pc = "own" /\ v.user = u /\ v.id = d /\ v.found = i
      BY <2>2, <2>3, <3>2 DEF Idle, Request, None
    <3> QED BY <3>1, <3>3
  <2> HIDE DEF v
  <2>5. RequestOk(r)'
    BY <1>0, <2>1, <2>2, <2>3, <2>4, OneRequest DEF RequestOk, Belongs
  <2> QED BY <1>0, <2>1, <2>4, <2>5, QuietRequest
<1>2. CASE BindOwn(r)
  <2> DEFINE i == IF req[r].found # None THEN req[r].found ELSE WalletRow(req[r].user)
             v == [req[r] EXCEPT !.pc = "bind", !.own = i]
  <2>1. /\ req[r].pc = "own" /\ req' = [req EXCEPT ![r] = v]
        /\ UNCHANGED <<users, rows, messages, logins>>
    BY <1>2 DEF BindOwn
  <2>2. Belongs(i, req[r].user) /\ (req[r].found # None => i = req[r].found)
    BY <1>0, <2>1, OwnRow DEF RequestOk
  <2>3. i \in Nat
    BY <1>0, <2>2 DEF Belongs
  <2> HIDE DEF i
  <2>4. /\ v \in Request /\ v.pc = "bind" /\ v.own = i
        /\ v.user = req[r].user /\ v.id = req[r].id /\ v.found = req[r].found
    BY <1>0, <2>3 DEF Request
  <2> HIDE DEF v
  <2>5. RequestOk(r)'
    BY <1>0, <2>1, <2>2, <2>4, OneRequest DEF RequestOk, Belongs
  <2> QED BY <1>0, <2>1, <2>4, <2>5, QuietRequest
<1>3. CASE BindSave(r)
  <2> DEFINE u == req[r].user
             d == req[r].id
             k == req[r].own
  <2>1. /\ req[r].pc = "bind" /\ req' = [req EXCEPT ![r] = Idle]
        /\ UNCHANGED <<users, messages, logins>>
    BY <1>3 DEF BindSave, Finish
  <2>2. /\ RequestOk(r)' /\ u \in Nat /\ d \in Ids /\ Belongs(k, u)
        /\ req[r].found # None => k = req[r].found
    BY <1>0, <2>1, IdleRequest, IdleOk DEF RequestOk, Ids
  <2>3. RowOf(d) # req[r].found => Stale(d)
    BY <2>1 DEF Stale
  <2>4. CASE rows' = rows
    BY <1>0, <2>1, <2>2, <2>4, IdleRequest, QuietRequest
  <2>5. CASE k = None /\ Insert(u, d)
    <3>1. RowOf(d) # None => Stale(d)
      BY <2>2, <2>3, <2>5
    <3>2. KeepsUser /\ SecondIsRace /\ rows' \in Seq(Row) /\ Len(rows') = Len(rows) + 1
      BY <1>0, <2>2, <2>5, <3>1, InsertRow
    <3>3. Len(rows') >= Len(rows) /\ users' \in Nat
      BY <1>0, <2>1, <3>2
    <3> QED BY <2>1, <2>2, <3>2, <3>3, IdleRequest, WritingRequest
  <2>6. CASE k # None /\ rows' = [rows EXCEPT ![k] = [main |-> u, id |-> d]]
    <3>1. k \in DOMAIN rows /\ rows[k].main = u
      BY <1>0, <2>2, <2>6 DEF Belongs, None
    <3>2. RowOf(d) \in {None, k} \/ Stale(d)
      BY <2>2, <2>3
    <3>3. KeepsUser /\ SecondIsRace /\ rows' \in Seq(Row) /\ Len(rows') = Len(rows)
      BY <1>0, <2>2, <2>6, <3>1, <3>2, SaveRow
    <3>4. Len(rows') >= Len(rows) /\ users' \in Nat
      BY <1>0, <2>1, <3>3
    <3> QED BY <2>1, <2>2, <3>3, <3>4, IdleRequest, WritingRequest
  <2> QED BY <1>3, <2>4, <2>5, <2>6 DEF BindSave
<1> QED BY <1>1, <1>2, <1>3

LEMMA XStep ==
    ASSUME IdInv, NEW r \in Req, XNext(r)
    PROVE  IdInv' /\ KeepsUser /\ SecondIsRace
<1>0. /\ Tables /\ RequestOk(r) /\ req[r] \in Request /\ users \in Nat
      /\ logins \in Seq(Login) /\ Len(rows) \in Nat
  BY DEF IdInv, Tables, Requests
<1>1. ASSUME NEW t \in DOMAIN logins, XCallbackEnter(r, t)
      PROVE  IdInv' /\ KeepsUser /\ SecondIsRace
  <2> DEFINE v == [Idle EXCEPT !.pc = "x_check", !.user = logins[t].main,
                               !.id = logins[t].id, !.key = t]
  <2>1. req' = [req EXCEPT ![r] = v] /\ UNCHANGED <<users, rows, messages, logins>>
    BY <1>1 DEF XCallbackEnter, XUser
  <2>2. logins[t].main \in Nat /\ logins[t].id \in Accounts /\ t \in Nat
    <3>1. logins[t] \in Login /\ t \in Nat
      BY <1>0
    <3> QED BY <3>1 DEF Login
  <2>3. v \in Request /\ v.pc = "x_check" /\ v.user \in Nat /\ v.id \in Accounts /\ v.key = t
    BY <2>2 DEF Idle, Request, Ids, None
  <2> HIDE DEF v
  <2>4. RequestOk(r)'
    BY <1>0, <2>1, <2>3, OneRequest DEF RequestOk
  <2> QED BY <1>0, <2>1, <2>3, <2>4, QuietRequest
<1>2. CASE XCallbackCheck(r)
  <2>1. /\ req[r].pc = "x_check" /\ UNCHANGED <<users, rows, messages, logins>>
    BY <1>2 DEF XCallbackCheck
  <2>2. CASE Bound(req[r].user, req[r].id)
    <3>1. req' = [req EXCEPT ![r] = Idle]
      BY <1>2, <2>2 DEF XCallbackCheck, Finish
    <3>2. RequestOk(r)'
      BY <1>0, <3>1, IdleRequest, IdleOk
    <3> QED BY <1>0, <2>1, <3>1, <3>2, IdleRequest, QuietRequest
  <2>3. CASE ~Bound(req[r].user, req[r].id)
    <3> DEFINE i == RowOf(req[r].id)
               v == [req[r] EXCEPT !.pc = "x_save", !.found = i]
    <3>1. req' = [req EXCEPT ![r] = v] /\ Holding(req[r].id) = {}
      BY <1>2, <2>3 DEF XCallbackCheck, Bound
    <3>2. i = None
      BY <1>0, <3>1, RowsOfId
    <3> HIDE DEF i
    <3>3. v \in Request /\ v.pc = "x_save" /\ v.found = None /\ v.user = req[r].user
          /\ v.id = req[r].id /\ v.key = req[r].key
      BY <1>0, <3>2 DEF Request, None
    <3> HIDE DEF v
    <3>4. RequestOk(r)'
      BY <1>0, <2>1, <3>1, <3>3, OneRequest DEF RequestOk
    <3> QED BY <1>0, <2>1, <3>1, <3>3, <3>4, QuietRequest
  <2> QED BY <2>2, <2>3
<1>3. CASE XCallbackSave(r)
  <2> DEFINE v == [req[r] EXCEPT !.pc = "x_done"]
  <2>1. /\ req[r].pc = "x_save" /\ req' = [req EXCEPT ![r] = v]
        /\ UNCHANGED <<users, messages, logins>>
    BY <1>3 DEF XCallbackSave, Goto
  <2>2. v \in Request /\ v.pc = "x_done" /\ v.key = req[r].key
    BY <1>0 DEF Request
  <2> HIDE DEF v
  <2>3. /\ RequestOk(r)' /\ req[r].user \in Nat /\ req[r].id \in Ids /\ req[r].found = None
    BY <1>0, <2>1, <2>2, OneRequest DEF RequestOk, Ids
  <2>4. CASE rows' = rows
    BY <1>0, <2>1, <2>2, <2>3, <2>4, QuietRequest
  <2>5. CASE Insert(req[r].user, req[r].id)
    <3>1. RowOf(req[r].id) # None => Stale(req[r].id)
      BY <2>1, <2>3 DEF Stale
    <3>2. KeepsUser /\ SecondIsRace /\ rows' \in Seq(Row) /\ Len(rows') = Len(rows) + 1
      BY <1>0, <2>3, <2>5, <3>1, InsertRow
    <3>3. Len(rows') >= Len(rows) /\ users' \in Nat
      BY <1>0, <2>1, <3>2
    <3> QED BY <2>1, <2>2, <2>3, <3>2, <3>3, WritingRequest
  <2> QED BY <1>3, <2>4, <2>5 DEF XCallbackSave
<1>4. CASE XCallbackDone(r)
  <2> DEFINE t == req[r].key
  <2>1. /\ req' = [req EXCEPT ![r] = Idle] /\ UNCHANGED <<users, rows, messages>>
        /\ logins' = [logins EXCEPT ![t].kept = FALSE] /\ req[r].pc = "x_done"
    BY <1>4 DEF XCallbackDone, Finish
  <2>2. t \in DOMAIN logins
    BY <1>0, <2>1 DEF RequestOk
  <2>3. logins[t] \in Login
    BY <1>0, <2>2
  <2>4. [logins[t] EXCEPT !.kept = FALSE] \in Login
    BY <2>3 DEF Login
  <2>5. logins' \in Seq(Login) /\ DOMAIN logins \subseteq DOMAIN logins'
    <3>1. logins' = [logins EXCEPT ![t] = [logins[t] EXCEPT !.kept = FALSE]]
      BY <2>1
    <3> QED BY <1>0, <2>2, <2>4, <3>1
  <2>6. RequestOk(r)'
    BY <1>0, <2>1, IdleRequest, IdleOk
  <2> QED BY <1>0, <2>1, <2>5, <2>6, IdleRequest, QuietRequest
<1> QED BY <1>1, <1>2, <1>3, <1>4 DEF XNext

LEMMA IdStep == IdInv /\ [Next]_vars => IdInv' /\ KeepsUser /\ SecondIsRace
<1> SUFFICES ASSUME IdInv, [Next]_vars PROVE IdInv' /\ KeepsUser /\ SecondIsRace
  OBVIOUS
<1>1. CASE UNCHANGED vars
  <2>1. IdInv'
    BY <1>1 DEF vars, IdInv, Tables, Requests, RequestOk, Belongs
  <2>2. KeepsUser /\ SecondIsRace
    BY <1>1, SameRows DEF vars, IdInv
  <2> QED BY <2>1, <2>2
<1>2. ASSUME NEW r \in Req, WalletNext(r) PROVE IdInv' /\ KeepsUser /\ SecondIsRace
  BY <1>2, SignInStep, BindStep DEF WalletNext
<1>3. ASSUME NEW r \in Req, XNext(r) PROVE IdInv' /\ KeepsUser /\ SecondIsRace
  BY <1>3, XStep
<1> QED BY <1>1, <1>2, <1>3, TableStep DEF Next

-----------------------------------------------------------------------------
\* What requests know of the rows they have read stays true: a row they found is still the
\* same user's when they save it (VerifyWallet between its three statements).
THEOREM IdentitiesInvariant == Spec => []IdInv
<1>1. Init => IdInv
  BY IdInit
<1>2. IdInv /\ [Next]_vars => IdInv'
  BY IdStep
<1> QED BY <1>1, <1>2, PTL DEF Spec

\* user_provider: a row never passes to another user, and an identity signs in to the same
\* user until he rebinds its first row, whatever requests of VerifyMessage, VerifyWallet and
\* XCallback overlap; only a request with an out-of-date look-up may change that.
THEOREM IdentitiesKeepUsers == Spec => IdentityKeepsUser
<1>1. IdInv /\ [Next]_vars => [KeepsUser]_vars
  BY IdStep
<1>2. [KeepsUser]_vars => [/\ \A i \in DOMAIN rows : rows'[i].main = rows[i].main
                           /\ \A id \in Wallets \cup Accounts :
                                 RowOf(id) # None /\ Owner(id)' # Owner(id)
                                    => rows'[RowOf(id)].id # id \/ Stale(id)]_vars
  BY DEF KeepsUser, Ids
<1> QED BY <1>1, <1>2, IdentitiesInvariant, PTL DEF Spec, IdentityKeepsUser

\* A second row of a wallet or an X account is written only by a request that looked it up
\* before the first row was there.
THEOREM SecondRowsAreRaces == Spec => SecondRowIsRace
<1>1. IdInv /\ [Next]_vars => [SecondIsRace]_vars
  BY IdStep
<1>2. [SecondIsRace]_vars => [\A id \in Wallets \cup Accounts :
                                 RowOf(id) # None /\ Cardinality(Holding(id))' > Cardinality(Holding(id))
                                    => Stale(id)]_vars
  BY DEF SecondIsRace, Ids
<1> QED BY <1>1, <1>2, IdentitiesInvariant, PTL DEF Spec, SecondRowIsRace
=============================================================================
