------------------------------ MODULE GamePlay ------------------------------
(***************************************************************************)
(* Playing a game for money (api/oauth/jwt_middleware.go) and confirming   *)
(* the score (ConfirmGameSession): sessions of one player in one game, the *)
(* freeze and spend rows of n_account_flow, and the player's balance.      *)
(*                                                                         *)
(* A handler is a sequence of statements; what one transaction does under  *)
(* its FOR UPDATE locks is one step, a statement outside of it is one too. *)
(* The handlers of all requests interleave.  The repository declares no    *)
(* unique index on n_account_flow, yet handles error 1062: both kinds of   *)
(* table are covered, see StartCommit.                                     *)
(***************************************************************************)
EXTENDS Integers, Sequences, FiniteSetsExt

CONSTANTS
    Req,          \* requests that may be in progress at the same time
    Prices,       \* AmountPerPlay of the game's settings
    Scores,       \* scores reported by the game and by the player
    Deposits,     \* amounts the chain side moves
    MaxCredit,    \* bound: what the account may hold altogether
    MaxSessions,  \* bound: rows of n_game_session
    MaxFlows      \* bound: rows of n_account_flow

ASSUME GameAssumption ==
    /\ Prices \subseteq Nat /\ Deposits \subseteq Nat /\ 0 \in Scores
    /\ {MaxCredit, MaxSessions, MaxFlows} \subseteq Nat

VARIABLES
    game,      \* status of the game
    account,   \* the player's row of n_account_balance
    sessions,  \* rows of n_game_session
    flows,     \* rows of n_account_flow
    handler,   \* per request, where its handler is and what it has read
    credited,  \* history: what the chain side has put on the account, net
    spent      \* history: the sum of the spend rows

vars == <<game, account, sessions, flows, handler, credited, spent>>

GameStatuses == {"closed", "testing", "active"}   \* closed: draft or inactive
SessionStatuses == {"Start", "End", "Settled", "Auditing"}

Session == [status : SessionStatuses, score : Scores, report : Scores, spend : Prices \cup {0}]
FreshSession == [status |-> "Start", score |-> 0, report |-> 0, spend |-> 0]

\* ref of a spend is the freeze it pays; a freeze has none.
Flow == [op : {"Freeze", "Spend"}, status : {"Pending", "Done"}, session : Nat, ref : Nat,
         amount : Prices]

Steps == {"idle", "initCreate", "startFind", "startCommit", "endSpent", "endCommit", "confirmSave"}
Handler == [at : Steps, session : Nat, copy : Session, price : Prices \cup {0}, flow : Nat]
Idle == [at |-> "idle", session |-> 0, copy |-> FreshSession, price |-> 0, flow |-> 0]

Go(p, h) == handler' = [handler EXCEPT ![p] = h]
Return(p) == Go(p, Idle)

PendingFreezes(s) ==
    {i \in DOMAIN flows : flows[i].op = "Freeze" /\ flows[i].status = "Pending" /\ flows[i].session = s}
SpendsOf(i) == {j \in DOMAIN flows : flows[j].op = "Spend" /\ flows[j].ref = i}

-----------------------------------------------------------------------------
(* GameSessionInitHandler *)

\* An open session is returned; otherwise one will be created.
InitRead(p) ==
    /\ handler[p].at = "idle" /\ game # "closed"
    /\ \A s \in DOMAIN sessions : sessions[s].status # "Start"
    /\ Go(p, [Idle EXCEPT !.at = "initCreate"])
    /\ UNCHANGED <<game, account, sessions, flows, credited, spent>>

InitCreate(p) ==
    /\ handler[p].at = "initCreate" /\ Len(sessions) < MaxSessions
    /\ sessions' = Append(sessions, FreshSession)
    /\ Return(p)
    /\ UNCHANGED <<game, account, flows, credited, spent>>

-----------------------------------------------------------------------------
(* GameStartHandler *)

SessionOpen(s) == sessions[s].status = "Start"

\* A game that is not online is played for nothing.
StartCheck(p) ==
    /\ handler[p].at = "idle" /\ game # "closed"
    /\ \E s \in DOMAIN sessions, price \in Prices :
          /\ SessionOpen(s)
          /\ game = "active" \/ price = 0
          /\ Go(p, [Idle EXCEPT !.at = "startFind", !.session = s, !.price = price])
    /\ UNCHANGED <<game, account, sessions, flows, credited, spent>>

\* A pending freeze of the session is returned as it is.
StartFind(p) ==
    /\ handler[p].at = "startFind"
    /\ IF PendingFreezes(handler[p].session) = {}
       THEN Go(p, [handler[p] EXCEPT !.at = "startCommit"])
       ELSE Return(p)
    /\ UNCHANGED <<game, account, sessions, flows, credited, spent>>

\* Mutant: what is available is not compared with the price.
Affordable_Always(price) == account.exists \/ price = 0

\* A missing account will do for a free game.
Affordable(price) ==
    IF account.exists THEN account.available >= price ELSE price = 0

\* Mutant: the price is frozen but stays available.
Freeze_Copies(price) ==
    account' = [account EXCEPT !.exists = TRUE, !.frozen = @ + price]

Freeze(price) ==
    account' = [exists |-> TRUE, available |-> account.available - price,
                frozen |-> account.frozen + price]

\* The transaction, under the lock on the account row.  When another request
\* has placed a freeze since StartFind, Create fails if there is a unique key
\* (the freeze found is returned) and succeeds if there is none.
StartCommit(p) ==
    LET h == handler[p] IN
    /\ h.at = "startCommit" /\ Return(p)
    /\ \/ /\ Affordable(h.price) /\ Len(flows) < MaxFlows
          /\ flows' = Append(flows, [op |-> "Freeze", status |-> "Pending", session |-> h.session,
                                     ref |-> 0, amount |-> h.price])
          /\ Freeze(h.price)
       \/ /\ \/ ~Affordable(h.price)
             \/ PendingFreezes(h.session) # {}
          /\ UNCHANGED <<account, flows>>
    /\ UNCHANGED <<game, sessions, credited, spent>>

-----------------------------------------------------------------------------
(* GameEndHandler *)

\* The session's row and the freeze's type and session, read without locks.
EndRead(p) ==
    /\ handler[p].at = "idle"
    /\ \E s \in DOMAIN sessions, i \in DOMAIN flows :
          /\ SessionOpen(s)
          /\ flows[i].op = "Freeze" /\ flows[i].session = s
          /\ Go(p, [Idle EXCEPT !.at = "endSpent", !.session = s, !.copy = sessions[s], !.flow = i])
    /\ UNCHANGED <<game, account, sessions, flows, credited, spent>>

\* A spend of this freeze is returned as it is.
EndSpent(p) ==
    /\ handler[p].at = "endSpent"
    /\ IF SpendsOf(handler[p].flow) = {}
       THEN Go(p, [handler[p] EXCEPT !.at = "endCommit"])
       ELSE Return(p)
    /\ UNCHANGED <<game, account, sessions, flows, credited, spent>>

\* Mutant: the freeze is not read again under its lock.
Chargeable_Earlier(i) == account.frozen >= flows[i].amount

\* The freeze is still pending and the frozen part covers it.
Chargeable(i) == flows[i].status = "Pending" /\ account.frozen >= flows[i].amount

\* Mutant: the freeze stays pending.
CloseFreeze_Never(i) == flows

CloseFreeze(i) == [flows EXCEPT ![i].status = "Done"]

\* Mutant: the amount of the spend does not reach the session's row.
EndedSession_NoAmount(h, score, amount) == [h.copy EXCEPT !.status = "End", !.score = score]

\* The row as it was read by EndRead, with the result.
EndedSession(h, score, amount) ==
    [h.copy EXCEPT !.status = "End", !.score = score, !.spend = amount]

\* Mutant: the charge is taken from what is available once more.
Unfreeze_Twice(amount) ==
    account' = [account EXCEPT !.frozen = @ - amount, !.available = @ - amount]

Unfreeze(amount) == account' = [account EXCEPT !.frozen = @ - amount]

\* The transaction, under the locks on the freeze and on the account row.
EndCommit(p) ==
    LET h == handler[p]
        amount == flows[h.flow].amount
    IN  /\ h.at = "endCommit" /\ Return(p)
        /\ \/ /\ Chargeable(h.flow) /\ Len(flows) < MaxFlows
              /\ flows' = Append(CloseFreeze(h.flow),
                                 [op |-> "Spend", status |-> "Done", session |-> h.session,
                                  ref |-> h.flow, amount |-> amount])
              /\ Unfreeze(amount)
              /\ \E score \in Scores :
                    sessions' = [sessions EXCEPT ![h.session] = EndedSession(h, score, amount)]
              /\ spent' = spent + amount
           \/ /\ ~Chargeable(h.flow)
              /\ UNCHANGED <<account, sessions, flows, spent>>
        /\ UNCHANGED <<game, credited>>

-----------------------------------------------------------------------------
(* ConfirmGameSession *)

ConfirmRead(p) ==
    /\ handler[p].at = "idle"
    /\ \E s \in DOMAIN sessions :
          /\ sessions[s].status = "End"
          /\ Go(p, [Idle EXCEPT !.at = "confirmSave", !.session = s, !.copy = sessions[s]])
    /\ UNCHANGED <<game, account, sessions, flows, credited, spent>>

\* The whole row is saved as it was read, with the player's score.
ConfirmSave(p) ==
    LET h == handler[p] IN
    /\ h.at = "confirmSave" /\ Return(p)
    /\ \E score \in Scores :
          sessions' = [sessions EXCEPT ![h.session] =
              [h.copy EXCEPT !.report = score,
                             !.status = IF score = h.copy.score THEN "Settled" ELSE "Auditing"]]
    /\ UNCHANGED <<game, account, flows, credited, spent>>

-----------------------------------------------------------------------------
(* What happens around the handlers *)

\* A statement fails, a transaction is rolled back, or the process dies: the
\* handler has done nothing.
Abandon(p) ==
    /\ handler[p].at # "idle" /\ Return(p)
    /\ UNCHANGED <<game, account, sessions, flows, credited, spent>>

\* UpdateAccountBalance and BalanceWithdrawRequest, under the same row lock.
Recharge(a) ==
    /\ credited + a <= MaxCredit
    /\ account' = [account EXCEPT !.exists = TRUE, !.available = @ + a]
    /\ credited' = credited + a
    /\ UNCHANGED <<game, sessions, flows, handler, spent>>

Withdraw(a) ==
    /\ account.exists /\ account.available >= a
    /\ account' = [account EXCEPT !.available = @ - a]
    /\ credited' = credited - a
    /\ UNCHANGED <<game, sessions, flows, handler, spent>>

\* The developer and the operators change the game's status at any time.
SetGameStatus(status) ==
    /\ game # status /\ game' = status
    /\ UNCHANGED <<account, sessions, flows, handler, credited, spent>>

-----------------------------------------------------------------------------
Init ==
    /\ game \in GameStatuses
    /\ account = [exists |-> FALSE, available |-> 0, frozen |-> 0]
    /\ sessions = <<>> /\ flows = <<>>
    /\ handler = [p \in Req |-> Idle]
    /\ credited = 0 /\ spent = 0

InitNext(p) == InitRead(p) \/ InitCreate(p)
StartNext(p) == StartCheck(p) \/ StartFind(p) \/ StartCommit(p)
EndNext(p) == EndRead(p) \/ EndSpent(p) \/ EndCommit(p)
ConfirmNext(p) == ConfirmRead(p) \/ ConfirmSave(p)

Next ==
    \/ \E p \in Req : InitNext(p) \/ StartNext(p) \/ EndNext(p) \/ ConfirmNext(p) \/ Abandon(p)
    \/ \E a \in Deposits : Recharge(a) \/ Withdraw(a)
    \/ \E status \in GameStatuses : SetGameStatus(status)

Spec == Init /\ [][Next]_vars

-----------------------------------------------------------------------------
(* What playing must keep *)

Pending == {i \in DOMAIN flows : flows[i].op = "Freeze" /\ flows[i].status = "Pending"}
Spends == {i \in DOMAIN flows : flows[i].op = "Spend"}

\* Types of the variables; the balances never go below zero, which on the
\* program's uint64 would wrap around.
TypeOK ==
    /\ game \in GameStatuses
    /\ account \in [exists : BOOLEAN, available : Nat, frozen : Nat]
    /\ sessions \in Seq(Session) /\ flows \in Seq(Flow)
    /\ handler \in [Req -> Handler]
    /\ credited \in Int /\ spent \in Nat

\* What is frozen is what the pending freezes say, however starts, ends and
\* retries of the same session overlap.
FrozenMatchesFlows == account.frozen = MapThenSumSet(LAMBDA i : flows[i].amount, Pending)

\* A freeze is charged once: it is done exactly when there is a spend for it,
\* there is never a second one, and the spend has its amount and its session.
ChargedOnce ==
    /\ \A i, j \in Spends : flows[i].ref = flows[j].ref => i = j
    /\ \A i \in DOMAIN flows : flows[i].op = "Freeze" =>
          (flows[i].status = "Done" <=> SpendsOf(i) # {})
    /\ \A j \in Spends :
          /\ flows[j].ref \in DOMAIN flows /\ flows[flows[j].ref].op = "Freeze"
          /\ flows[j].amount = flows[flows[j].ref].amount
          /\ flows[j].session = flows[flows[j].ref].session

\* No money is made or lost by playing.
Conserved == account.available + account.frozen + spent = credited

\* A session that is over was paid for, and says what it cost: confirming it
\* or ending it twice never leaves it with an amount no spend row has.
EndedSessionWasCharged ==
    \A s \in DOMAIN sessions : sessions[s].status # "Start" =>
        \E j \in Spends : flows[j].session = s /\ flows[j].amount = sessions[s].spend

-----------------------------------------------------------------------------
(* Playing implements the escrow. *)

Book == INSTANCE Escrow WITH
    free <- account.available,
    held <- {[id |-> i, amount |-> flows[i].amount] : i \in Pending},
    charged <- {[id |-> flows[j].ref, amount |-> flows[j].amount] : j \in Spends}

\* Whatever the handlers read before their transactions, a step of the game
\* moves money only as the escrow allows.
ImplementsEscrow == Book!EscrowSpec
=============================================================================
