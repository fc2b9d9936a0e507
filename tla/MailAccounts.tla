---------------------------- MODULE MailAccounts ----------------------------
(***************************************************************************)
(* Players that are known by a mail address: registration and its          *)
(* verification (controller/preauth/index.go), the change of an address    *)
(* (controller/auth/user.go), the mails with their codes (utils/mail.go)   *)
(* and the daily numbers of players (system/rand.go).                      *)
(*                                                                         *)
(* Every handler is a sequence of single statements: what it reads in one  *)
(* step may be stale in the next.  Save writes every column of the row it  *)
(* was given, Update a single one.  A handler may stop at any step.        *)
(***************************************************************************)
EXTENDS UserNumber, FiniteSets

CONSTANTS
    Mails,       \* mail addresses
    Passwords,
    Codes,       \* six-digit codes: two rows may hold the same one
    Req,         \* the HTTP handlers running at the same time
    Dates,       \* the days that pass, in order: their yymmdd
    Random,      \* the three random digits that may be drawn
    Opening,     \* the numbers of the first day that wallet sign-ins have drawn before
    MaxSeq,      \* where the sequence of a day ends (9999 in the code)
    MaxUsers,    \* bound: rows of user_main
    MaxCodes,    \* bound: rows of user_verification_process
    Nothing      \* what an idle handler holds

ASSUME AccountsAssumption ==
    /\ Mails # {} /\ Passwords # {} /\ Nothing \notin Mails \cup Passwords
    /\ MaxSeq \in Nat \ {0} /\ MaxSeq <= 9999 /\ Opening \in 0..MaxSeq /\ Random \subseteq Random3
    /\ Dates \in Seq(Date) /\ Dates # <<>>
    /\ \A d, e \in DOMAIN Dates : Dates[d] = Dates[e] => d = e
    /\ MaxUsers \in Nat /\ MaxCodes \in Nat

None == 0          \* no row; rows are numbered from 1 by auto-increment
NoNumber == <<>>   \* the empty user_no of a player whose number could not be drawn
Days == DOMAIN Dates

VARIABLES
    users,     \* user_main: rows [mail, pw, no, status], 00 unverified or 20 active
    codes,     \* user_verification_process: rows [target, code, main]
    day,       \* today
    lastSeq,   \* user_seq, the row of each day: LastSeq, None before it is created
    refs,      \* the players that have a referral code
    guard,     \* registerInLock
    req,       \* the handlers in progress
    accepted   \* history: the code rows that a verification accepted

tables == <<users, codes, day, lastSeq, refs>>
vars == <<users, codes, day, lastSeq, refs, guard, req, accepted>>

Idle == [pc |-> "idle", kind |-> "", id |-> None, no |-> NoNumber, day |-> 1, same |-> FALSE,
         mail |-> Nothing, old |-> Nothing, pw |-> Nothing]

Finish(r) == req' = [req EXCEPT ![r] = Idle]

\* A registration goes on to its mail, or to its deferred call, with nothing but the
\* address.
Proceed(r, pc) ==
    req' = [req EXCEPT ![r] = [Idle EXCEPT !.kind = "register", !.mail = req[r].mail, !.pc = pc]]

\* First orders by id.
FirstOf(S) == IF S = {} THEN None ELSE CHOOSE i \in S : \A j \in S : i <= j
UserByMail(m) == FirstOf({i \in DOMAIN users : users[i].mail = m})

\* GetUserRef: a player gets a referral code when it has none.
GivenRef(i) == refs \cup {i}

\* The unique index of user_main.email: may row i hold address m?
MailFree(m, i) == \A j \in DOMAIN users \ {i} : users[j].mail # m

\* Mutant: the address is not part of the look-up.
CodeRow_AnyTarget(m, c) == FirstOf({i \in DOMAIN codes : codes[i].code = c})

\* The row a presented code is looked up in, among those for players: the first
\* with that code, whether it has expired or not.
CodeRow(m, c) == FirstOf({i \in DOMAIN codes : codes[i].target = m /\ codes[i].code = c})

-----------------------------------------------------------------------------
(* Generate reads the clock once, for the row of user_seq and for the date   *)
(* in the number.  nextSeq is one transaction at READ COMMITTED: a row of    *)
(* that day is read FOR UPDATE and incremented; when there is none, it is    *)
(* inserted in a later statement, which fails when another transaction has   *)
(* inserted it.                                                              *)

\* Mutant: the clock is read again for the date.
NumberFor_TwoClocks(d, n) == {UserNumber(Dates[day], n, r3) : r3 \in Random}

\* The numbers that may come of the sequence number n of day d.
NumberFor(d, n) == {UserNumber(Dates[d], n, r3) : r3 \in Random}

\* Only a new row takes the number.
Numbered(r, d, n) ==
    \E no \in NumberFor(d, n) :
        req' = [req EXCEPT ![r].pc = "reg_save", ![r].day = 1,
                           ![r].no = IF req[r].id = None THEN no ELSE NoNumber]

Unnumbered(r) == req' = [req EXCEPT ![r].pc = "reg_save", ![r].day = 1]

\* The clock was read at some time after the player's row was.
DrawNumber(r) ==
    /\ req[r].pc = "reg_number"
    /\ \E d \in req[r].day..day :
       \/ /\ lastSeq[d] = None /\ UNCHANGED lastSeq
          /\ req' = [req EXCEPT ![r].pc = "reg_first", ![r].day = d]
       \/ /\ lastSeq[d] # None /\ lastSeq[d] < MaxSeq
          /\ lastSeq' = [lastSeq EXCEPT ![d] = lastSeq[d] + 1]
          /\ Numbered(r, d, lastSeq[d])
       \/ lastSeq[d] >= MaxSeq /\ Unnumbered(r) /\ UNCHANGED lastSeq
    /\ UNCHANGED <<users, codes, day, refs, guard, accepted>>

DrawFirst(r) ==
    LET d == req[r].day IN
    /\ req[r].pc = "reg_first"
    /\ \/ /\ lastSeq[d] = None /\ lastSeq' = [lastSeq EXCEPT ![d] = 1] /\ Numbered(r, d, 0)
       \/ lastSeq[d] # None /\ Unnumbered(r) /\ UNCHANGED lastSeq
    /\ UNCHANGED <<users, codes, day, refs, guard, accepted>>

Midnight ==
    /\ day + 1 \in Days /\ day' = day + 1
    /\ UNCHANGED <<users, codes, lastSeq, refs, guard, req, accepted>>

-----------------------------------------------------------------------------
(* Mails.  The mail leaves before its code is saved, so a code that is       *)
(* presented at once is not found; a mail that cannot be sent ends the       *)
(* request.                                                                  *)

NewCode(q, c) == [target |-> q.mail, code |-> c, main |-> IF q.kind = "send" THEN q.id ELSE None]

SendCode(r) ==
    LET q == req[r] IN
    /\ q.pc = "mail"
    /\ \/ /\ Len(codes) < MaxCodes
          /\ \E c \in Codes : codes' = Append(codes, NewCode(q, c))
       \/ UNCHANGED codes
    /\ IF q.kind = "register" THEN Proceed(r, "leave") ELSE Finish(r)
    /\ UNCHANGED <<users, day, lastSeq, refs, guard, accepted>>

-----------------------------------------------------------------------------
(* Register.  A request that finds the guard taken goes straight to the      *)
(* deferred Delete, which is registered before the test.                     *)

RegisterEnter(r, m, p) ==
    /\ req[r].pc = "idle"
    /\ req' = [req EXCEPT ![r] = [Idle EXCEPT !.kind = "register", !.mail = m, !.pw = p,
                                  !.pc = IF m \in guard THEN "leave" ELSE "reg_read"]]
    /\ guard' = guard \cup {m}
    /\ UNCHANGED <<tables, accepted>>

\* Mutant: a verified address may register again.
RegisterRead_Again(r) ==
    /\ req[r].pc = "reg_read"
    /\ req' = [req EXCEPT ![r].id = UserByMail(req[r].mail), ![r].pc = "reg_number", ![r].day = day]
    /\ UNCHANGED <<tables, guard, accepted>>

\* "email repeated": only an address that waits for its verification may
\* register again.
RegisterRead(r) ==
    LET i == UserByMail(req[r].mail) IN
    /\ req[r].pc = "reg_read"
    /\ \/ i # None /\ users[i].status # "00" /\ Proceed(r, "leave")
       \/ /\ i # None => users[i].status = "00"
          /\ req' = [req EXCEPT ![r].pc = "reg_number", ![r].id = i, ![r].day = day,
                                ![r].same = i # None /\ users[i].pw = req[r].pw]
    /\ UNCHANGED <<tables, guard, accepted>>

\* A new row, unless the address was taken meanwhile, or a new password for the
\* row that was read, if it differed then; GetUserRef follows.  A request whose
\* referral code is not found is refused after its number is drawn.
RegisterSave(r) ==
    LET q == req[r] IN
    /\ q.pc = "reg_save"
    /\ \/ /\ q.id = None /\ MailFree(q.mail, None) /\ Len(users) < MaxUsers
          /\ users' = Append(users, [mail |-> q.mail, pw |-> q.pw, no |-> q.no, status |-> "00"])
          /\ refs' = GivenRef(Len(users'))
          /\ Proceed(r, "mail")
       \/ /\ q.id # None
          /\ users' = IF q.same THEN users ELSE [users EXCEPT ![q.id].pw = q.pw]
          /\ refs' = GivenRef(q.id)
          /\ Proceed(r, "mail")
       \/ Proceed(r, "leave") /\ UNCHANGED <<users, refs>>
    /\ UNCHANGED <<codes, day, lastSeq, guard, accepted>>

\* The deferred Delete removes the guard, whoever stored it.
RegisterLeave(r) ==
    /\ req[r].pc = "leave"
    /\ guard' = guard \ {req[r].mail}
    /\ Finish(r)
    /\ UNCHANGED <<tables, accepted>>

-----------------------------------------------------------------------------
(* Login, Verify, and VerifyEmail of a player who is logged in.  The row is  *)
(* read first, and saved whole when the code is accepted.                    *)

\* Login reads the first row of the address and compares the password; it does
\* not ask for the status.
Login(m, p) == UserByMail(m) # None /\ users[UserByMail(m)].pw = p

Holding(i) == [Idle EXCEPT !.id = i, !.pw = users[i].pw, !.no = users[i].no,
                           !.old = users[i].mail]

\* A request before any code was sent to the address changes nothing.
CodeSent(m) == \E c \in DOMAIN codes : codes[c].target = m

VerifyRead(r, m) ==
    /\ req[r].pc = "idle" /\ CodeSent(m) /\ UserByMail(m) # None
    /\ req' = [req EXCEPT ![r] = [Holding(UserByMail(m)) EXCEPT
                                  !.kind = "verify", !.mail = m, !.pc = "confirm"]]
    /\ UNCHANGED <<tables, guard, accepted>>

VerifyEmailRead(r, i, m) ==
    /\ req[r].pc = "idle" /\ CodeSent(m)
    /\ req' = [req EXCEPT ![r] = [Holding(i) EXCEPT
                                  !.kind = "change", !.mail = m, !.pc = "confirm"]]
    /\ UNCHANGED <<tables, guard, accepted>>

\* A change of address must present a code that was sent for this player.
AcceptedCode(q, c) ==
    LET row == CodeRow(q.mail, c) IN
    IF row # None /\ (q.kind = "change" => codes[row].main = q.id) THEN row ELSE None

\* The code is looked up and the row that was read is saved; nothing is read in
\* between.  The unique index may refuse the save; its error is not looked at.
\* The mark Verify then puts on the code is left out: a used code stays valid.
ConfirmSave(r, row) ==
    LET q == req[r]
        m == IF q.kind = "change" THEN q.mail ELSE q.old IN
    /\ accepted' = accepted \cup {row}
    /\ users' = IF MailFree(m, q.id)
                THEN [users EXCEPT ![q.id] = [mail |-> m, pw |-> q.pw, no |-> q.no, status |-> "20"]]
                ELSE users

\* Refused when the code is not found or its ten minutes have passed, which any
\* look-up may find.
Confirm(r) ==
    /\ req[r].pc = "confirm"
    /\ \/ \E c \in Codes : AcceptedCode(req[r], c) # None
                             /\ ConfirmSave(r, AcceptedCode(req[r], c))
       \/ UNCHANGED <<users, accepted>>
    /\ Finish(r)
    /\ UNCHANGED <<codes, day, lastSeq, refs, guard>>

\* SendEmail: the address must be another one, and nobody's.
SendEmail(r, i, m) ==
    /\ req[r].pc = "idle" /\ users[i].mail # m /\ UserByMail(m) = None
    /\ req' = [req EXCEPT ![r] = [Idle EXCEPT !.kind = "send", !.id = i, !.mail = m, !.pc = "mail"]]
    /\ UNCHANGED <<tables, guard, accepted>>

-----------------------------------------------------------------------------
Init ==
    /\ users = <<>>
    /\ codes = <<>> /\ refs = {}
    /\ day = 1 /\ lastSeq = [d \in Days |-> IF d = 1 THEN Opening ELSE None]
    /\ guard = {} /\ req = [r \in Req |-> Idle] /\ accepted = {}

PlayerNext(r) ==
    \/ \E m \in Mails, p \in Passwords : RegisterEnter(r, m, p)
    \/ RegisterRead(r) \/ DrawNumber(r) \/ DrawFirst(r) \/ RegisterSave(r)
    \/ \E m \in Mails : VerifyRead(r, m)
    \/ \E i \in DOMAIN users, m \in Mails : SendEmail(r, i, m) \/ VerifyEmailRead(r, i, m)
    \/ Confirm(r) \/ SendCode(r) \/ RegisterLeave(r)

Next ==
    \/ Midnight
    \/ \E r \in Req : PlayerNext(r)

Spec == Init /\ [][Next]_vars
-----------------------------------------------------------------------------
(* What the accounts must keep *)

\* Whoever is active was verified: a code that was sent to the address the row
\* holds now was accepted, however Verify, VerifyEmail and Register overlapped
\* and saved rows they had read before (status 20 in preauth/index.go and
\* auth/user.go).
ActiveWasVerified ==
    \A i \in DOMAIN users :
        users[i].status = "20" => \E c \in accepted : codes[c].target = users[i].mail

\* A handler that may still write an older password into row i: a registration
\* that read it, or a verification that holds another password.
Overlapping(i) ==
    \E r \in Req :
        /\ req[r].id = i
        /\ \/ req[r].pc \in {"reg_number", "reg_first", "reg_save"}
           \/ /\ req[r].pc = "confirm" /\ req[r].kind \in {"verify", "change"}
              /\ req[r].pw # users[i].pw

Settled(i) == users[i].status = "20" /\ ~Overlapping(i)

\* Once an account is active and the requests that overlapped its activation
\* are over, it stays active, and whoever could log in to it still can: no later
\* registration of the address and no change of address takes either away.
Admits(i, p) == Login(users[i].mail, p)

ActivationSettles ==
    [][\A i \in DOMAIN users :
          Settled(i) => /\ Settled(i)'
                        /\ users' # users => \A p \in Passwords : Admits(i, p) => Admits(i, p)']_vars

\* No two players get one number, whichever transactions found the row of a day
\* missing, and whether a number is drawn before, at or after midnight: neither the
\* random digits nor the hidden date are needed to tell two numbers apart.  A player
\* whose number could not be drawn has the empty one (nextSeq, Generate).
NumbersDistinct ==
    \A i, j \in DOMAIN users :
        i # j /\ users[i].no # NoNumber => users[i].no # users[j].no

=============================================================================
