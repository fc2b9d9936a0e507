-------------------------- MODULE OAuthCodeProofs --------------------------
(***************************************************************************)
(* For any browsers, users, clients and overlapping requests, any clock    *)
(* and any number of crashes: a code yields one token, and the token is    *)
(* for whom and for what the code was asked.  The codes in the store, the  *)
(* ones whose token is being signed and the ones of the tokens are kept    *)
(* apart; what the store and the handlers hold is what was asked for.      *)
(***************************************************************************)
EXTENDS OAuthCode, FiniteSetTheorems, TLAPS

Signs(r) == req[r].pc = "sign"

\* Codes are numbered from 1 as they are given out.
Numbered ==
    /\ req = [r \in Req |-> req[r]]
    /\ \E n \in Nat : DOMAIN asked = 1..n
    /\ DOMAIN store \subseteq DOMAIN asked

\* Where a code is: in the store, with one handler, or in a token.
Apart ==
    /\ \A r \in Req : Signs(r) => req[r].code \in DOMAIN asked \ DOMAIN store
    /\ \A r, q \in Req : Signs(r) /\ Signs(q) /\ req[r].code = req[q].code => r = q
    /\ \A t \in tokens : /\ t.code \in DOMAIN asked \ DOMAIN store
                         /\ \A r \in Req : Signs(r) => req[r].code # t.code

\* What is about to be stored, and what was stored, names a callback of its client.
Asked ==
    /\ \A r \in Req : req[r].pc = "put" =>
          req[r].data \in Data /\ <<req[r].data.client, req[r].data.uri>> \in Callbacks
    /\ \A c \in DOMAIN asked : <<asked[c].client, asked[c].uri>> \in Callbacks
    /\ \A c \in DOMAIN store : store[c] = asked[c]

\* What a handler that signs has tested.
Tested ==
    \A r \in Req : Signs(r) =>
        LET a == asked[req[r].code] IN
        /\ req[r].data = a /\ req[r].uri = a.uri /\ req[r].at <= a.expires
        /\ a.challenge # Nothing => req[r].key = a.challenge

CodeInv == Numbered /\ Apart /\ Asked /\ Tested /\ session \in [Browsers -> Users \cup {Nothing}]
           /\ now \in Nat /\ OneTokenPerCode /\ TokenAsAsked

-----------------------------------------------------------------------------
LEMMA CodeInit == Init => CodeInv
<1> SUFFICES ASSUME Init PROVE CodeInv
  OBVIOUS
<1> USE DEF Init
<1>1. DOMAIN asked = {} /\ DOMAIN store = {} /\ DOMAIN asked = 1..0
  OBVIOUS
<1>2. Numbered
  BY <1>1 DEF Numbered
<1>3. \A r \in Req : req[r].pc = "idle"
  BY DEF Idle
<1> QED BY <1>1, <1>2, <1>3 DEF CodeInv, Signs, Apart, Asked, Tested, OneTokenPerCode, TokenAsAsked

\* A step of one handler that takes or signs no code and stores none.
LEMMA QuietStep ==
    ASSUME CodeInv, store' = store, asked' = asked, tokens' = tokens,
           session' \in [Browsers -> Users \cup {Nothing}], now' \in Nat,
           req' = [r \in Req |-> req'[r]],
           \A r \in Req : \/ req'[r] = req[r]
                          \/ /\ req'[r].pc = "put" /\ req'[r].data \in Data
                             /\ <<req'[r].data.client, req'[r].data.uri>> \in Callbacks
    PROVE  CodeInv'
<1> USE DEF CodeInv
<1>1. \A r \in Req : req'[r].pc = "sign" => req'[r] = req[r]
  OBVIOUS
<1>2. Numbered' /\ Asked'
  BY DEF Numbered, Asked
<1>3. Apart' /\ Tested'
  BY <1>1 DEF Apart, Tested, Signs
<1> QED BY <1>2, <1>3 DEF OneTokenPerCode, TokenAsAsked

LEMMA SessionStep ==
    ASSUME CodeInv, Tick \/ \E b \in Browsers : Logout(b) \/ \E u \in Users : LoginPost(b, u)
    PROVE  CodeInv'
<1>1. /\ store' = store /\ asked' = asked /\ tokens' = tokens /\ req' = req
      /\ session' \in [Browsers -> Users \cup {Nothing}] /\ now' \in Nat
  BY DEF Tick, Logout, LoginPost, CodeInv
<1>2. req' = [r \in Req |-> req'[r]]
  BY <1>1 DEF CodeInv, Numbered
<1> QED BY <1>1, <1>2, QuietStep

LEMMA AuthorizeStep ==
    ASSUME CodeInv, NEW r \in Req, NEW b \in Browsers, NEW cb \in Callbacks,
           NEW k \in Keys \cup {Nothing}, AuthorizeEnter(r, b, cb, k)
    PROVE  CodeInv'
<1> DEFINE d == [user |-> session[b], client |-> cb[1], uri |-> cb[2],
                 challenge |-> k, expires |-> 0]
<1>1. d \in Data /\ <<d.client, d.uri>> \in Callbacks
  <2>1. cb \in Clients \X Uris /\ session[b] \in Users
    BY OAuthAssumption DEF AuthorizeEnter, CodeInv
  <2>2. cb = <<cb[1], cb[2]>>
    BY <2>1
  <2> QED BY <2>1, <2>2 DEF Data
<1>2. /\ req' = [q \in Req |-> req'[q]]
      /\ req'[r].pc = "put" /\ req'[r].data = d
      /\ \A q \in Req \ {r} : req'[q] = req[q]
  BY DEF AuthorizeEnter, CodeInv, Numbered, Idle
<1>3. UNCHANGED <<session, store, tokens, asked, now>>
  BY DEF AuthorizeEnter
<1> HIDE DEF d
<1> QED BY <1>1, <1>2, <1>3, QuietStep DEF CodeInv

\* putCode: the new code is in no handler and in no token.
LEMMA PutStep ==
    ASSUME CodeInv, NEW r \in Req, AuthorizePut(r) PROVE CodeInv'
<1> USE DEF CodeInv
<1> DEFINE code == Cardinality(DOMAIN asked) + 1
           data == [req[r].data EXCEPT !.expires = now + CodeLife]
<1>1. PICK n \in Nat : DOMAIN asked = 1..n
  BY DEF Numbered
<1>2. code = n + 1 /\ code \notin DOMAIN asked
  <2>1. Cardinality(1..n) = n
    BY FS_Interval
  <2> QED BY <1>1, <2>1
<1>3. req[r].pc = "put" /\ req[r].data \in Data
      /\ <<req[r].data.client, req[r].data.uri>> \in Callbacks
  BY DEF AuthorizePut, Asked
<1>4. <<data.client, data.uri>> \in Callbacks
  BY <1>3 DEF Data
<1> HIDE DEF code, data
<1>5. /\ store' = [c \in DOMAIN store \cup {code} |-> IF c = code THEN data ELSE store[c]]
      /\ asked' = [c \in DOMAIN asked \cup {code} |-> IF c = code THEN data ELSE asked[c]]
      /\ req' = [req EXCEPT ![r] = Idle] /\ UNCHANGED <<session, tokens, now>>
  BY DEF AuthorizePut, Finish, code, data
<1>6. /\ DOMAIN asked' = DOMAIN asked \cup {code} /\ DOMAIN store' = DOMAIN store \cup {code}
      /\ \A c \in DOMAIN asked : asked'[c] = asked[c]
      /\ \A c \in DOMAIN store : store'[c] = store[c]
      /\ asked'[code] = data /\ store'[code] = data
  BY <1>2, <1>5 DEF Numbered
<1>7. /\ req' = [q \in Req |-> req'[q]] /\ req'[r].pc = "idle"
      /\ \A q \in Req \ {r} : req'[q] = req[q]
  BY <1>5 DEF Numbered, Idle
<1>8. Numbered'
  <2>1. DOMAIN asked' = 1..(n + 1)
    BY <1>1, <1>2, <1>6
  <2> QED BY <1>6, <1>7, <2>1 DEF Numbered
<1>9. Asked'
  BY <1>2, <1>4, <1>6, <1>7 DEF Asked, Numbered
<1>10. \A q \in Req : req'[q].pc = "sign" => q # r /\ req'[q] = req[q] /\ req[q].code # code
  BY <1>2, <1>7 DEF Apart, Signs
<1>11. Apart'
  BY <1>2, <1>5, <1>6, <1>10 DEF Apart, Signs
<1>12. Tested'
  BY <1>6, <1>10 DEF Tested, Apart, Signs
<1>13. OneTokenPerCode' /\ TokenAsAsked'
  BY <1>5, <1>6 DEF OneTokenPerCode, TokenAsAsked, Apart
<1> QED BY <1>5, <1>8, <1>9, <1>11, <1>12, <1>13

\* takeCode: the code leaves the store, for this handler or for nobody.
LEMMA TakeStep ==
    ASSUME CodeInv, NEW r \in Req, NEW c \in DOMAIN store, NEW uri \in Uris,
           NEW key \in Keys \cup {Nothing}, TokenTake(r, c, uri, key)
    PROVE  CodeInv'
<1> USE DEF CodeInv
<1>1. /\ req[r].pc = "idle" /\ store' = [d \in DOMAIN store \ {c} |-> store[d]]
      /\ UNCHANGED <<session, tokens, asked, now>>
  BY DEF TokenTake, Take
<1>2. /\ DOMAIN store' = DOMAIN store \ {c} /\ c \in DOMAIN asked /\ store[c] = asked[c]
      /\ \A d \in DOMAIN store' : store'[d] = store[d]
  BY <1>1 DEF Numbered, Asked
<1>3. /\ req' = [q \in Req |-> req'[q]] /\ req'[r].pc \in {"idle", "sign"}
      /\ \A q \in Req \ {r} : req'[q] = req[q]
      /\ req'[r].pc = "sign" => /\ req'[r].code = c /\ req'[r].data = asked[c] /\ req'[r].uri = uri
                                /\ req'[r].key = key /\ req'[r].at = now
                                /\ Accepts(asked[c], uri, key)
  BY <1>1, <1>2 DEF TokenTake, Numbered
<1>4. \A q \in Req \ {r} : req'[q].pc = "sign" =>
          /\ req'[q] = req[q] /\ req[q].pc = "sign" /\ req[q].code # c
  BY <1>3 DEF Apart, Signs
<1>5. Numbered' /\ Asked'
  BY <1>1, <1>2, <1>3 DEF Numbered, Asked
<1>6. Apart'
  BY <1>1, <1>2, <1>3, <1>4 DEF Apart, Signs
<1>7. Tested'
  <2>1. ASSUME NEW q \in Req, q # r, req'[q].pc = "sign"
        PROVE  req'[q] = req[q] /\ req[q].pc = "sign"
    BY <1>4, <2>1
  <2>2. req'[r].pc = "sign" =>
          /\ req'[r].data = asked[c] /\ req'[r].uri = asked[c].uri /\ req'[r].at <= asked[c].expires
          /\ asked[c].challenge # Nothing => req'[r].key = asked[c].challenge
    BY <1>3 DEF Accepts
  <2> QED BY <1>1, <1>3, <2>1, <2>2 DEF Tested, Signs
<1>8. OneTokenPerCode' /\ TokenAsAsked'
  BY <1>1 DEF OneTokenPerCode, TokenAsAsked
<1> QED BY <1>1, <1>5, <1>6, <1>7, <1>8

LEMMA SignStep ==
    ASSUME CodeInv, NEW r \in Req, TokenSign(r) PROVE CodeInv'
<1> USE DEF CodeInv
<1> DEFINE q0 == req[r]
           t0 == [sub |-> q0.data.user, aud |-> q0.data.client, code |-> q0.code,
                  uri |-> q0.uri, key |-> q0.key, at |-> q0.at, no |-> Cardinality(tokens) + 1]
           a0 == asked[q0.code]
<1>1. /\ Signs(r) /\ tokens' = tokens \cup {t0} /\ req' = [req EXCEPT ![r] = Idle]
      /\ UNCHANGED <<session, store, asked, now>>
  BY DEF TokenSign, Finish, Signs
<1>2. /\ q0.code \in DOMAIN asked \ DOMAIN store
      /\ \A t \in tokens : t.code # q0.code
      /\ \A q \in Req : Signs(q) /\ req[q].code = q0.code => q = r
  BY <1>1 DEF Apart
<1>3. /\ q0.data = a0 /\ q0.uri = a0.uri /\ q0.at <= a0.expires
      /\ a0.challenge # Nothing => q0.key = a0.challenge
      /\ <<a0.client, a0.uri>> \in Callbacks
  BY <1>1, <1>2 DEF Tested, Asked
<1>4. /\ req' = [q \in Req |-> req'[q]] /\ req'[r].pc = "idle"
      /\ \A q \in Req \ {r} : req'[q] = req[q]
  BY <1>1 DEF Numbered, Idle
<1>5. \A q \in Req : req'[q].pc = "sign" => q # r /\ req'[q] = req[q] /\ Signs(q)
  BY <1>4 DEF Signs
<1>6. Numbered' /\ Asked'
  BY <1>1, <1>4 DEF Numbered, Asked
<1>7. Tested'
  BY <1>1, <1>5 DEF Tested, Signs
<1>8. t0.code = q0.code /\ t0.sub = q0.data.user /\ t0.aud = q0.data.client /\ t0.uri = q0.uri
      /\ t0.key = q0.key /\ t0.at = q0.at
  OBVIOUS
<1> HIDE DEF t0
<1>9. Apart'
  BY <1>1, <1>2, <1>5, <1>8 DEF Apart, Signs
<1>10. OneTokenPerCode'
  BY <1>1, <1>2, <1>8 DEF OneTokenPerCode
<1>11. TokenAsAsked'
  BY <1>1, <1>3, <1>8 DEF TokenAsAsked
<1> QED BY <1>1, <1>6, <1>7, <1>9, <1>10, <1>11

LEMMA CrashStep == ASSUME CodeInv, Crash PROVE CodeInv'
<1> USE DEF CodeInv, Crash
<1>1. DOMAIN store' = {} /\ req' = [r \in Req |-> req'[r]] /\ \A r \in Req : req'[r].pc = "idle"
  BY DEF Idle
<1>2. Numbered' /\ Asked' /\ Apart' /\ Tested'
  BY <1>1 DEF Numbered, Asked, Apart, Tested, Signs
<1> QED BY <1>2 DEF OneTokenPerCode, TokenAsAsked

LEMMA CodeStep == CodeInv /\ [Next]_vars => CodeInv'
<1> SUFFICES ASSUME CodeInv, [Next]_vars PROVE CodeInv'
  OBVIOUS
<1>1. CASE Tick \/ \E b \in Browsers : Logout(b) \/ \E u \in Users : LoginPost(b, u)
  BY <1>1, SessionStep
<1>2. ASSUME NEW r \in Req, NEW b \in Browsers, NEW cb \in Callbacks,
             NEW k \in Keys \cup {Nothing}, AuthorizeEnter(r, b, cb, k)
      PROVE  CodeInv'
  BY <1>2, AuthorizeStep
<1>3. ASSUME NEW r \in Req, NEW c \in DOMAIN store, NEW uri \in Uris,
             NEW k \in Keys \cup {Nothing}, TokenTake(r, c, uri, k)
      PROVE  CodeInv'
  BY <1>3, TakeStep
<1>4. ASSUME NEW r \in Req, AuthorizePut(r) \/ TokenSign(r) PROVE CodeInv'
  BY <1>4, PutStep, SignStep
<1>5. CASE Crash
  BY <1>5, CrashStep
<1>6. CASE UNCHANGED vars
  BY <1>6, QuietStep DEF vars, CodeInv, Numbered
<1> QED BY <1>1, <1>2, <1>3, <1>4, <1>5, <1>6 DEF Next

\* The inductive invariant: a code is in one place at a time.
THEOREM CodeInvariant == Spec => []CodeInv
BY CodeInit, CodeStep, PTL DEF Spec

\* However many token requests present one code, and whatever tests fail, a code yields
\* one token.
THEOREM CodeRedeemedOnce == Spec => []OneTokenPerCode
<1>1. CodeInv => OneTokenPerCode
  BY DEF CodeInv
<1> QED BY <1>1, CodeInvariant, PTL

\* A token names the user and the client of its code, and was given in time to a request
\* that named the uri and knew the verifier.
THEOREM TokensAsAsked == Spec => []TokenAsAsked
<1>1. CodeInv => TokenAsAsked
  BY DEF CodeInv
<1> QED BY <1>1, CodeInvariant, PTL

-----------------------------------------------------------------------------
\* The codes give out tokens as vouchers.
LEMMA VoucherInitially == Init => Vouchers!VoucherInit
<1> SUFFICES ASSUME Init PROVE Vouchers!VoucherInit
  OBVIOUS
<1>1. DOMAIN asked = {} /\ DOMAIN store = {} /\ tokens = {}
  BY DEF Init
<1>2. Signing = {}
  BY DEF Init, Signing, Idle
<1>3. Open = {} /\ Cardinality(DOMAIN asked) = 0
  BY <1>1, <1>2, FS_EmptySet DEF Open
<1> QED BY <1>1, <1>3 DEF Vouchers!VoucherInit

LEMMA QuietVoucher ==
    ASSUME store' = store, asked' = asked, tokens' = tokens,
           \A r \in Req : \/ req'[r] = req[r]
                          \/ req'[r].pc # "sign" /\ req[r].pc # "sign"
    PROVE  UNCHANGED Vouchers!voucherVars
<1>1. Signing' = Signing /\ \A r \in Signing : req'[r] = req[r]
  BY DEF Signing
<1>2. Open' = Open
  BY <1>1 DEF Open
<1> QED BY <1>2 DEF Vouchers!voucherVars

LEMMA PutVoucher ==
    ASSUME CodeInv, NEW r \in Req, AuthorizePut(r)
    PROVE  \E h \in Users \X Clients : Vouchers!Issue(h)
<1> USE DEF CodeInv
<1> DEFINE code == Cardinality(DOMAIN asked) + 1
           data == [req[r].data EXCEPT !.expires = now + CodeLife]
<1>1. PICK n \in Nat : DOMAIN asked = 1..n
  BY DEF Numbered
<1>2. Cardinality(1..n) = n /\ Cardinality(1..(n + 1)) = n + 1
  BY FS_Interval
<1>3. code = n + 1 /\ code \notin DOMAIN asked
  BY <1>1, <1>2
<1>4. req[r].pc = "put" /\ req[r].data \in Data
  BY DEF AuthorizePut, Asked
<1>5. Holder(data) \in Users \X Clients
  BY <1>4 DEF Data, Holder
<1> HIDE DEF data
<1>6. /\ store' = [c \in DOMAIN store \cup {code} |-> IF c = code THEN data ELSE store[c]]
      /\ asked' = [c \in DOMAIN asked \cup {code} |-> IF c = code THEN data ELSE asked[c]]
      /\ req' = [req EXCEPT ![r] = Idle] /\ UNCHANGED tokens
  BY DEF AuthorizePut, Finish, data
<1>7. DOMAIN asked' = 1..(n + 1)
  BY <1>1, <1>3, <1>6
<1>8. Cardinality(DOMAIN asked)' = Cardinality(DOMAIN asked) + 1
  BY <1>1, <1>2, <1>7
<1> HIDE DEF code
<1>9. req'[r].pc = "idle" /\ \A q \in Req \ {r} : req'[q] = req[q]
  BY <1>6 DEF Numbered, Idle
<1>10. Signing' = Signing /\ \A q \in Signing : req'[q] = req[q]
  BY <1>4, <1>9 DEF Signing
<1>11. Open' = Open \cup {code}
  BY <1>6, <1>10 DEF Open
<1>12. Open \subseteq DOMAIN asked
  BY DEF Open, Signing, Signs, Numbered, Apart
<1>13. /\ \A c \in Open : Holder(asked'[c]) = Holder(asked[c])
       /\ Holder(asked'[code]) = Holder(data)
  BY <1>3, <1>6, <1>12
<1>14. Vouchers!Issue(Holder(data))
  <2>1. code \notin Open
    BY <1>3, <1>12
  <2>2. [c \in Open |-> Holder(asked[c])]'
          = [c \in Open \cup {code} |-> IF c = code THEN Holder(data) ELSE Holder(asked[c])]
    BY <1>11, <1>13, <2>1
  <2>3. code = Cardinality(DOMAIN asked) + 1
    BY DEF code
  <2> QED BY <1>6, <1>8, <1>11, <2>1, <2>2, <2>3 DEF Vouchers!Issue
<1> QED BY <1>5, <1>14

LEMMA TakeVoucher ==
    ASSUME CodeInv, NEW r \in Req, NEW c \in DOMAIN store, NEW uri \in Uris,
           NEW key \in Keys \cup {Nothing}, TokenTake(r, c, uri, key)
    PROVE  UNCHANGED Vouchers!voucherVars \/ Vouchers!Void({c})
<1> USE DEF CodeInv
<1>1. /\ req[r].pc = "idle" /\ store' = [d \in DOMAIN store \ {c} |-> store[d]]
      /\ UNCHANGED <<tokens, asked>>
  BY DEF TokenTake, Take
<1>2. c \in Open /\ c \notin {req[q].code : q \in Signing}
  BY DEF Open, Signing, Signs, Apart
<1>3. CASE UNCHANGED req
  <2>1. Signing' = Signing
    BY <1>3 DEF Signing
  <2>2. Open' = Open \ {c}
    BY <1>1, <1>2, <1>3, <2>1 DEF Open
  <2> QED BY <1>1, <2>2 DEF Vouchers!Void, Vouchers!Without
<1>4. CASE req'[r].pc = "sign" /\ req'[r].code = c /\ \A q \in Req \ {r} : req'[q] = req[q]
  <2>1. Signing' = Signing \cup {r} /\ r \notin Signing
    BY <1>1, <1>4 DEF Signing
  <2>2. {req'[q].code : q \in Signing'} = {req[q].code : q \in Signing} \cup {c}
    BY <1>4, <2>1 DEF Signing
  <2>3. Open' = Open
    BY <1>1, <1>2, <2>2 DEF Open
  <2> QED BY <1>1, <2>3 DEF Vouchers!voucherVars
<1>5. \/ UNCHANGED req
      \/ req'[r].pc = "sign" /\ req'[r].code = c /\ \A q \in Req \ {r} : req'[q] = req[q]
  BY DEF TokenTake, Numbered
<1> QED BY <1>3, <1>4, <1>5

LEMMA SignVoucher ==
    ASSUME CodeInv, NEW r \in Req, TokenSign(r), NEW v, v = req[r].code
    PROVE  v \in Open /\ Vouchers!Redeem(v)
<1> USE DEF CodeInv
<1> DEFINE t0 == [sub |-> req[r].data.user, aud |-> req[r].data.client, code |-> v,
                  uri |-> req[r].uri, key |-> req[r].key, at |-> req[r].at,
                  no |-> Cardinality(tokens) + 1]
           Pay(t) == <<t.code, <<t.sub, t.aud>>>>
<1>1. /\ Signs(r) /\ tokens' = tokens \cup {t0} /\ req' = [req EXCEPT ![r] = Idle]
      /\ UNCHANGED <<store, asked>>
  BY DEF TokenSign, Finish, Signs
<1>2. v \in Open /\ v \notin DOMAIN store /\ req[r].data = asked[v]
  BY <1>1 DEF Open, Signing, Signs, Apart, Tested
<1>3. req'[r].pc = "idle" /\ \A q \in Req \ {r} : req'[q] = req[q]
  BY <1>1 DEF Numbered, Idle
<1>4. Signing' = Signing \ {r} /\ r \in Signing
  BY <1>1, <1>3 DEF Signing, Signs
<1>5. {req'[q].code : q \in Signing'} = {req[q].code : q \in Signing} \ {v}
  BY <1>1, <1>3, <1>4 DEF Signing, Signs, Apart
<1>6. Open' = Open \ {v}
  BY <1>1, <1>2, <1>5 DEF Open
<1>7. Pay(t0) = <<v, Holder(asked[v])>>
  BY <1>2 DEF Holder
<1> HIDE DEF t0
<1>8. {Pay(t) : t \in tokens'} = {Pay(t) : t \in tokens} \cup {<<v, Holder(asked[v])>>}
  BY <1>1, <1>7
<1>9. Vouchers!Redeem(v)
  BY <1>1, <1>2, <1>6, <1>8 DEF Vouchers!Redeem, Vouchers!Without
<1> QED BY <1>2, <1>9

LEMMA CrashVoucher == ASSUME CodeInv, Crash PROVE Vouchers!Void(Open)
<1>1. DOMAIN store' = {} /\ Signing' = {}
  BY DEF Crash, Signing, Idle
<1>2. Open' = {}
  BY <1>1 DEF Open
<1> QED BY <1>2 DEF Crash, Vouchers!Void, Vouchers!Without

LEMMA VoucherStep == CodeInv /\ [Next]_vars => [Vouchers!VoucherNext]_(Vouchers!voucherVars)
<1> SUFFICES ASSUME CodeInv, [Next]_vars PROVE [Vouchers!VoucherNext]_(Vouchers!voucherVars)
  OBVIOUS
<1> USE DEF Vouchers!VoucherNext
<1>1. CASE Tick \/ \E b \in Browsers : Logout(b) \/ \E u \in Users : LoginPost(b, u)
  BY <1>1, QuietVoucher DEF Tick, Logout, LoginPost
<1>2. ASSUME NEW r \in Req, NEW b \in Browsers, NEW cb \in Callbacks,
             NEW k \in Keys \cup {Nothing}, AuthorizeEnter(r, b, cb, k)
      PROVE  UNCHANGED Vouchers!voucherVars
  <2>1. req[r].pc = "idle" /\ req'[r].pc = "put" /\ \A q \in Req \ {r} : req'[q] = req[q]
    BY <1>2 DEF AuthorizeEnter, CodeInv, Numbered, Idle
  <2> QED BY <1>2, <2>1, QuietVoucher DEF AuthorizeEnter
<1>3. ASSUME NEW r \in Req, NEW c \in DOMAIN store, NEW uri \in Uris,
             NEW k \in Keys \cup {Nothing}, TokenTake(r, c, uri, k)
      PROVE  [Vouchers!VoucherNext]_(Vouchers!voucherVars)
  <2>1. UNCHANGED Vouchers!voucherVars \/ Vouchers!Void({c})
    BY <1>3, TakeVoucher
  <2>2. {c} \in SUBSET Open
    BY DEF Open
  <2> QED BY <2>1, <2>2
<1>4. ASSUME NEW r \in Req, AuthorizePut(r) PROVE Vouchers!VoucherNext
  BY <1>4, PutVoucher
<1>5. ASSUME NEW r \in Req, TokenSign(r) PROVE Vouchers!VoucherNext
  BY <1>5, SignVoucher
<1>6. CASE Crash
  BY <1>6, CrashVoucher
<1>7. CASE UNCHANGED vars
  BY <1>7, QuietVoucher DEF vars
<1> QED BY <1>1, <1>2, <1>3, <1>4, <1>5, <1>6, <1>7 DEF Next

\* Every step of the server is a step of the vouchers or a stutter: issued once, redeemed
\* once for the holder they were made out to, or void.
THEOREM CodeImplementsVoucher == Spec => ImplementsVoucher
<1>1. Spec => [][Vouchers!VoucherNext]_(Vouchers!voucherVars)
  BY CodeInvariant, VoucherStep, PTL DEF Spec
<1> QED BY <1>1, VoucherInitially, PTL DEF Spec, ImplementsVoucher, Vouchers!VoucherSpec
=============================================================================
