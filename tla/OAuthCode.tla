----------------------------- MODULE OAuthCode -----------------------------
(***************************************************************************)
(* The OAuth server (api/oauth/handler.go): a browser signs in, a client   *)
(* asks for an authorization code in its name, and the code is exchanged   *)
(* for a token at /oauth/token.  Codes are kept in the memory of the       *)
(* process; sessions live in cookies and tokens are signed, so both        *)
(* survive a crash.                                                        *)
(*                                                                         *)
(* A code of 32 random bytes is a fresh number.  S256 maps verifiers to    *)
(* challenges one to one: a challenge is named by its verifier.  An        *)
(* authorize request carries the cookie it was sent with, whatever happens *)
(* to the session before its code is stored.                               *)
(***************************************************************************)
EXTENDS Integers, FiniteSets

CONSTANTS
    Browsers,
    Users,      \* rows of user_main
    Clients,    \* client ids of game_app
    Uris,       \* redirect URIs
    Callbacks,  \* <<client, uri>>: the uri begins with the client's oauth_callback
    Keys,       \* PKCE verifiers
    Req,        \* the HTTP handlers running at the same time
    CodeLife,   \* five minutes in the code
    MaxCodes,   \* bound: codes
    MaxTime,    \* bound: the clock
    Nothing     \* no user, no key, what an idle handler holds

ASSUME OAuthAssumption ==
    /\ CodeLife \in Nat /\ MaxCodes \in Nat /\ MaxTime \in Nat
    /\ Callbacks \subseteq Clients \X Uris
    /\ Nothing \notin Users \cup Keys

VARIABLES
    session,   \* per browser, the user of its cookie
    store,     \* codeStore.m
    req,       \* the handlers in progress
    tokens,    \* the tokens given out
    asked,     \* history: what each code was asked for
    now

vars == <<session, store, req, tokens, asked, now>>

Data == [user : Users, client : Clients, uri : Uris, challenge : Keys \cup {Nothing}, expires : Int]

NoData == [user |-> Nothing, client |-> Nothing, uri |-> Nothing, challenge |-> Nothing, expires |-> 0]
Idle == [pc |-> "idle", data |-> NoData, code |-> 0, uri |-> Nothing, key |-> Nothing, at |-> 0]

Finish(r) == req' = [req EXCEPT ![r] = Idle]

-----------------------------------------------------------------------------
(* Sessions *)

\* LoginPost, with the right password; any status of the account will do.
LoginPost(b, u) ==
    /\ session' = [session EXCEPT ![b] = u]
    /\ UNCHANGED <<store, req, tokens, asked, now>>

Logout(b) ==
    /\ session' = [session EXCEPT ![b] = Nothing]
    /\ UNCHANGED <<store, req, tokens, asked, now>>

-----------------------------------------------------------------------------
(* /oauth/authorize *)

\* The request is refused unless client and uri fit and the browser is signed in.
\* Without the method S256 a challenge is not kept.
AuthorizeEnter(r, b, cb, k) ==
    /\ req[r].pc = "idle" /\ session[b] # Nothing
    /\ req' = [req EXCEPT ![r] = [Idle EXCEPT !.pc = "put",
                 !.data = [user |-> session[b], client |-> cb[1], uri |-> cb[2],
                           challenge |-> k, expires |-> 0]]]
    /\ UNCHANGED <<session, store, tokens, asked, now>>

\* putCode: a fresh code, good for CodeLife from now on.
AuthorizePut(r) ==
    LET code == Cardinality(DOMAIN asked) + 1
        data == [req[r].data EXCEPT !.expires = now + CodeLife]
        Put(f) == [c \in DOMAIN f \cup {code} |-> IF c = code THEN data ELSE f[c]]
    IN  /\ req[r].pc = "put" /\ code <= MaxCodes
        /\ store' = Put(store) /\ asked' = Put(asked)
        /\ Finish(r)
        /\ UNCHANGED <<session, tokens, now>>

-----------------------------------------------------------------------------
(* /oauth/token *)

\* Mutant: the code is deleted when the token is signed.
Take_Later(c) == UNCHANGED store

\* takeCode, under the mutex: who finds the code deletes it.
Take(c) == store' = [d \in DOMAIN store \ {c} |-> store[d]]

\* Mutant: a verifier is only looked at when the request brings one.
Accepts_NoKey(data, uri, key) ==
    /\ now <= data.expires /\ data.uri = uri
    /\ key # Nothing /\ data.challenge # Nothing => key = data.challenge

\* The tests, once the code is taken.
Accepts(data, uri, key) ==
    /\ now <= data.expires /\ data.uri = uri
    /\ data.challenge # Nothing => key = data.challenge

\* The request names a code that was given out.  One that fails the tests has
\* used the code up all the same.
TokenTake(r, c, uri, key) ==
    /\ req[r].pc = "idle" /\ c \in DOMAIN store
    /\ Take(c)
    /\ IF Accepts(store[c], uri, key)
       THEN req' = [req EXCEPT ![r] = [pc |-> "sign", data |-> store[c], code |-> c,
                                       uri |-> uri, key |-> key, at |-> now]]
       ELSE UNCHANGED req
    /\ UNCHANGED <<session, tokens, asked, now>>

\* The token says who (sub) and for whom (aud); the rest is history.
TokenSign(r) ==
    LET q == req[r] IN
    /\ q.pc = "sign"
    /\ tokens' = tokens \cup {[sub |-> q.data.user, aud |-> q.data.client, code |-> q.code,
                               uri |-> q.uri, key |-> q.key, at |-> q.at, no |-> Cardinality(tokens) + 1]}
    /\ Finish(r)
    /\ UNCHANGED <<session, store, asked, now>>

-----------------------------------------------------------------------------
Tick == now < MaxTime /\ now' = now + 1 /\ UNCHANGED <<session, store, req, tokens, asked>>

\* The process dies and starts again with an empty store.
Crash ==
    /\ store' = [c \in {} |-> NoData]
    /\ req' = [r \in Req |-> Idle]
    /\ UNCHANGED <<session, tokens, asked, now>>

Init ==
    /\ session = [b \in Browsers |-> Nothing]
    /\ store = [c \in {} |-> NoData] /\ asked = [c \in {} |-> NoData]
    /\ req = [r \in Req |-> Idle]
    /\ tokens = {} /\ now = 0

Next ==
    \/ \E b \in Browsers : Logout(b) \/ \E u \in Users : LoginPost(b, u)
    \/ \E r \in Req :
         \/ \E b \in Browsers, cb \in Callbacks, k \in Keys \cup {Nothing} : AuthorizeEnter(r, b, cb, k)
         \/ \E c \in DOMAIN store, uri \in Uris, k \in Keys \cup {Nothing} : TokenTake(r, c, uri, k)
         \/ AuthorizePut(r) \/ TokenSign(r)
    \/ Tick \/ Crash

Spec == Init /\ [][Next]_vars

-----------------------------------------------------------------------------
\* A code yields one token: of overlapping token requests only one gets the code,
\* and none that failed a test leaves it behind.
OneTokenPerCode == \A t, u \in tokens : t.code = u.code => t = u

\* A token names the user and the client its code was asked for, and was given to
\* a request that came in time, named the same uri and, when the code was asked
\* for with a challenge, knew the verifier.
TokenAsAsked ==
    \A t \in tokens :
        LET a == asked[t.code] IN
        /\ t.sub = a.user /\ t.aud = a.client /\ <<a.client, a.uri>> \in Callbacks
        /\ t.uri = a.uri /\ t.at <= a.expires
        /\ a.challenge # Nothing => t.key = a.challenge

\* Codes are vouchers made out to a user and a client: the ones in the store and
\* those whose token is being signed can still be redeemed.
Signing == {r \in Req : req[r].pc = "sign"}
Open == DOMAIN store \cup {req[r].code : r \in Signing}
Holder(a) == <<a.user, a.client>>

Vouchers == INSTANCE Voucher WITH
    Holders <- Users \X Clients,
    issued <- Cardinality(DOMAIN asked),
    open <- [c \in Open |-> Holder(asked[c])],
    paid <- {<<t.code, <<t.sub, t.aud>>>> : t \in tokens}

\* The server gives out tokens only as vouchers may be redeemed: once, for the one
\* they were made out to, and never after they became void.
ImplementsVoucher == Vouchers!VoucherSpec
=============================================================================
