----------------------------- MODULE Identities -----------------------------
(***************************************************************************)
(* The rows of user_provider: which wallet or X account signs in to, or    *)
(* belongs to, which user.  Three handlers write them: VerifyMessage       *)
(* (controller/preauth/index.go) signs a wallet in and creates its user,   *)
(* VerifyWallet (controller/auth/user.go) binds a wallet to the user who   *)
(* is logged in, XCallback (controller/auth/x.go) binds an X account.      *)
(*                                                                         *)
(* The table has no unique index: each handler looks the identity up,      *)
(* and inserts or saves a row in a later statement.  The lock of           *)
(* VerifyMessage is keyed by the signed message, of which a wallet may     *)
(* have several; the other two take none.                                  *)
(*                                                                         *)
(* Signatures and X are external: only the holder of a wallet gets past    *)
(* the signature, and X tells which account allowed a login.  Referral     *)
(* codes, tokens and the profile that XCallback fills are left out: no     *)
(* step here reads them.                                                   *)
(***************************************************************************)
EXTENDS Naturals, Sequences, FiniteSets

CONSTANTS
    Wallets,
    Accounts,      \* X accounts
    Req,           \* the HTTP handlers running at the same time
    MailUsers,     \* users 1..MailUsers have registered with a mail address
    MaxUsers, MaxRows, MaxMessages, MaxLogins,   \* bounds on the tables
    Nothing        \* what an idle handler holds

ASSUME IdentitiesAssumption ==
    /\ Wallets \cap Accounts = {} /\ Nothing \notin Wallets \cup Accounts
    /\ {MailUsers, MaxUsers, MaxRows, MaxMessages, MaxLogins} \subseteq Nat

None == 0   \* no row, message or user; they are numbered from 1

VARIABLES
    users,      \* the number of rows of user_main
    rows,       \* user_provider: [main, id]
    messages,   \* auth_message: the wallet each was made for
    logins,     \* X logins: who started it, who allowed it, is it in xReqMap
    lock,       \* loginInLock
    req         \* the handlers in progress

vars == <<users, rows, messages, logins, lock, req>>

\* key is the message or login a request presents, found what its look-up of
\* the identity returned, own the row VerifyWallet is about to save.
Idle == [pc |-> "idle", user |-> None, id |-> Nothing, key |-> None, found |-> None, own |-> None]

Goto(r, pc) == req' = [req EXCEPT ![r].pc = pc]
Finish(r) == req' = [req EXCEPT ![r] = Idle]

\* First orders by id.
FirstOf(S) == IF S = {} THEN None ELSE CHOOSE i \in S : \A j \in S : i <= j
Holding(id) == {i \in DOMAIN rows : rows[i].id = id}
RowOf(id) == FirstOf(Holding(id))
WalletRow(u) == FirstOf({i \in DOMAIN rows : rows[i].main = u /\ rows[i].id \in Wallets})

Insert(u, id) == Len(rows) < MaxRows /\ rows' = Append(rows, [main |-> u, id |-> id])

-----------------------------------------------------------------------------
(* GetAuthMsg: the message of a wallet is given again until it expires; the  *)
(* next one is made when a request finds it expired, while the older one may *)
(* already have passed that test in a request that uses it.                  *)

GetAuthMsg(w) ==
    /\ Len(messages) < MaxMessages
    /\ messages' = Append(messages, w)
    /\ UNCHANGED <<users, rows, logins, lock, req>>

-----------------------------------------------------------------------------
(* VerifyMessage.  The message is not used up: until it expires it signs in  *)
(* again.  An expired message or a wrong signature changes nothing.          *)

\* LoadOrStore; the deferred Delete is registered before the result is tested.
SignInEnter(r, m) ==
    /\ req[r].pc = "idle"
    /\ req' = [req EXCEPT ![r] = [Idle EXCEPT !.id = messages[m], !.key = m,
                                  !.pc = IF m \in lock THEN "leave" ELSE "look"]]
    /\ lock' = lock \cup {m}
    /\ UNCHANGED <<users, rows, messages, logins>>

\* A wallet that is known gets its token; a new one needs a referral code.
SignInLook(r) ==
    /\ req[r].pc = "look"
    /\ \/ /\ RowOf(req[r].id) = None
          /\ Goto(r, "create")
       \/ Goto(r, "leave")
    /\ UNCHANGED <<users, rows, messages, logins, lock>>

\* One transaction, or its rollback: a user without a mail address, and its wallet.
SignInCreate(r) ==
    /\ req[r].pc = "create"
    /\ \/ users < MaxUsers /\ users' = users + 1 /\ Insert(users', req[r].id)
       \/ UNCHANGED <<users, rows>>
    /\ Goto(r, "leave")
    /\ UNCHANGED <<messages, logins, lock>>

SignInLeave(r) ==
    /\ req[r].pc = "leave"
    /\ lock' = lock \ {req[r].key}
    /\ Finish(r)
    /\ UNCHANGED <<users, rows, messages, logins>>

-----------------------------------------------------------------------------
(* VerifyWallet: three statements.                                           *)

\* Mutant: "wallet already binded" is not tested.
MayBind_Anyone(u, i) == TRUE

\* "wallet already binded" to somebody else.
MayBind(u, i) == i # None => rows[i].main = u

BindRead(r, u, m) ==
    LET i == RowOf(messages[m]) IN
    /\ req[r].pc = "idle" /\ MayBind(u, i)
    /\ req' = [req EXCEPT ![r] = [Idle EXCEPT !.pc = "own", !.user = u, !.id = messages[m],
                                  !.key = m, !.found = i]]
    /\ UNCHANGED <<users, rows, messages, logins, lock>>

\* The row to save: the query for the user's own wallet row is given the struct of
\* the first one; a row already in it is kept.
BindOwn(r) ==
    /\ req[r].pc = "own"
    /\ req' = [req EXCEPT ![r].pc = "bind",
                  ![r].own = IF req[r].found # None THEN req[r].found ELSE WalletRow(req[r].user)]
    /\ UNCHANGED <<users, rows, messages, logins, lock>>

\* Save writes every column of the row, or inserts it; its error is not looked at.
BindSave(r) ==
    LET q == req[r] IN
    /\ q.pc = "bind"
    /\ \/ q.own = None /\ Insert(q.user, q.id)
       \/ q.own # None /\ rows' = [rows EXCEPT ![q.own] = [main |-> q.user, id |-> q.id]]
       \/ UNCHANGED rows
    /\ Finish(r)
    /\ UNCHANGED <<users, messages, logins, lock>>

-----------------------------------------------------------------------------
(* X.  A login is kept in xReqMap for ten minutes or until its callback has  *)
(* bound it; the callback may come more than once before.                    *)

\* StartLogin: a new request token; account a will allow the login it is for.
NewLogin(u, a) == [main |-> u, id |-> a, kept |-> TRUE]

\* XLogin: the token of any user.
XLogin(u, a) ==
    /\ Len(logins) < MaxLogins
    /\ logins' = Append(logins, NewLogin(u, a))
    /\ UNCHANGED <<users, rows, messages, lock, req>>

\* The goroutine that waits for ten minutes.
XExpire(t) ==
    /\ logins[t].kept
    /\ logins' = [logins EXCEPT ![t].kept = FALSE]
    /\ UNCHANGED <<users, rows, messages, lock, req>>

\* HandleCallback, ExchangeWithSecret: the account X names, by the secret in the
\* store or in the cookie.
XUser(t) == logins[t].id

\* The user who started the login.  A callback X refuses changes nothing.
XCallbackEnter(r, t) ==
    /\ req[r].pc = "idle" /\ logins[t].kept
    /\ req' = [req EXCEPT ![r] = [Idle EXCEPT !.pc = "x_check", !.user = logins[t].main,
                                  !.id = XUser(t), !.key = t]]
    /\ UNCHANGED <<users, rows, messages, logins, lock>>

\* Mutant: only the user's own bindings are looked at.
Bound_ToUser(u, a) == \E i \in Holding(a) : rows[i].main = u

\* "already been bound to another user"
Bound(u, a) == Holding(a) # {}

XCallbackCheck(r) ==
    /\ req[r].pc = "x_check"
    /\ IF Bound(req[r].user, req[r].id) THEN Finish(r)
       ELSE req' = [req EXCEPT ![r].pc = "x_save", ![r].found = RowOf(req[r].id)]
    /\ UNCHANGED <<users, rows, messages, logins, lock>>

\* An error is logged; the request goes on to the profile.
XCallbackSave(r) ==
    /\ req[r].pc = "x_save"
    /\ Insert(req[r].user, req[r].id) \/ UNCHANGED rows
    /\ Goto(r, "x_done")
    /\ UNCHANGED <<users, messages, logins, lock>>

XCallbackDone(r) ==
    /\ req[r].pc = "x_done"
    /\ logins' = [logins EXCEPT ![req[r].key].kept = FALSE]
    /\ Finish(r)
    /\ UNCHANGED <<users, rows, messages, lock>>

-----------------------------------------------------------------------------
Init ==
    /\ users = MailUsers /\ rows = <<>> /\ messages = <<>> /\ logins = <<>>
    /\ lock = {} /\ req = [r \in Req |-> Idle]

WalletNext(r) ==
    \/ \E m \in DOMAIN messages : SignInEnter(r, m)
    \/ SignInLook(r) \/ SignInCreate(r) \/ SignInLeave(r)
    \/ \E u \in 1..users, m \in DOMAIN messages : BindRead(r, u, m)
    \/ BindOwn(r) \/ BindSave(r)

XNext(r) ==
    \/ \E t \in DOMAIN logins : XCallbackEnter(r, t)
    \/ XCallbackCheck(r) \/ XCallbackSave(r) \/ XCallbackDone(r)

Next ==
    \/ \E w \in Wallets : GetAuthMsg(w)
    \/ \E u \in 1..users, a \in Accounts : XLogin(u, a)
    \/ \E t \in DOMAIN logins : XExpire(t)
    \/ \E r \in Req : WalletNext(r) \/ XNext(r)

Spec == Init /\ [][Next]_vars

-----------------------------------------------------------------------------
(* What the identities must keep *)

Owner(id) == IF RowOf(id) = None THEN None ELSE rows[RowOf(id)].main

\* A request whose look-up of an identity is out of date when it writes.
Stale(id) ==
    \E r \in Req :
        /\ req[r].id = id /\ req[r].pc \in {"create", "own", "bind", "x_save"}
        /\ req[r].found # RowOf(id)

\* A row never passes to another user, and an identity that signs in to a user
\* (VerifyMessage takes the first row) signs in to him until he binds that row to
\* another wallet; only a request that overlapped the binding can change it.
IdentityKeepsUser ==
    [][/\ \A i \in DOMAIN rows : rows'[i].main = rows[i].main
       /\ \A id \in Wallets \cup Accounts :
             RowOf(id) # None /\ Owner(id)' # Owner(id)
                => rows'[RowOf(id)].id # id \/ Stale(id)]_vars

\* A second row of a wallet or of an X account, and with it a second user, appears
\* only when the request that writes it looked before the first was there; the
\* callback of one X login that comes twice is such a case.
SecondRowIsRace ==
    [][\A id \in Wallets \cup Accounts :
          RowOf(id) # None /\ Cardinality(Holding(id))' > Cardinality(Holding(id))
             => Stale(id)]_vars
=============================================================================
