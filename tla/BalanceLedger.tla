--------------------------- MODULE BalanceLedger ---------------------------
(***************************************************************************)
(* The chain side of the account ledger: the HTTP handlers that report     *)
(* chain transactions and request withdrawals (controller/auth/user.go),   *)
(* the queue between them and the chain parser (chain/evm_tx_q.go), the    *)
(* single goroutine that settles balance flows (service/account_balance.go)*)
(* and the daily re-examination of pending flows (main.go).                *)
(*                                                                         *)
(* The database (account, flows) and the chain survive a crash; the queue, *)
(* the update channel, the handlers and the in-process request guard do    *)
(* not.  A database transaction whose rows are read FOR UPDATE is one step; *)
(* a row it reads without that is read in a step before.  Statements       *)
(* outside a transaction are steps of their own.                           *)
(***************************************************************************)
EXTENDS Integers, Sequences, FiniteSets, FiniteSetsExt

CONSTANTS
    Users,       \* the user mains
    Amounts,     \* the amounts a transaction or a request may name
    Opening,     \* what every account holds at the start, backed on chain
    Req,         \* the HTTP handlers running at the same time
    ChanCap,     \* capacity of topupHashChannel (500 in the code)
    Redelivery,  \* whether the queue may hand over an item once more than enqueued
    CheckLimit,  \* the LIMIT of checkTx's query (100 in the code)
    Kinds,       \* the kinds of transaction the users send in this instance
    MaxFlows,    \* bound: rows of n_account_balance_flow
    MaxTx,       \* bound: transactions sent to the chain
    MaxCrashes,  \* bound: crashes of the process
    NoRow        \* no row has been read

\* model.BalanceFlowOp*: the four operations, each with its chain transaction:
\* deposit, openLock, claimLocked and cancelLock.
Ops == {"Recharge", "Freeze", "Withdraw", "Unfreeze"}

\* model.BalanceFlowStatus*
Statuses == {"Pending", "Success", "Failed", "Canceled", "PendingWithDraw"}

ASSUME LedgerAssumption ==
    /\ Users # {} /\ IsFiniteSet(Users) /\ Amounts \subseteq Nat \ {0}
    /\ Opening \in Nat
    /\ Kinds \subseteq Ops /\ Redelivery \in BOOLEAN
    /\ ChanCap \in Nat \ {0}
    /\ CheckLimit \in Nat \ {0}
    /\ MaxFlows \in Nat /\ MaxTx \in Nat /\ MaxCrashes \in Nat

NoTx == 0      \* an empty TxHash; hashes are numbered from 1 in sending order
NoFlow == 0    \* an absent RefFlowID; rows are numbered from 1 by auto-increment

VARIABLES
    account,   \* n_account_balance: one row per user, exists is FALSE before it is created
    flows,     \* n_account_balance_flow: a row's id is its position
    chain,     \* every transaction the users sent, by hash
    work,      \* topupTxQueue: what was enqueued and is not handled yet
    updates,   \* topupHashChannel
    settling,  \* the update the updater took off it, with the lock row it read
    req,       \* the handlers in progress
    guard,     \* userSeasonLock: the withdraw-lock keys stored
    crashes,   \* crashes so far
    received,  \* history: what recharges added to each account
    paid       \* history: what claims took from each account

db == <<account, flows>>
history == <<received, paid>>
vars == <<account, flows, chain, work, updates, settling, req, guard, crashes, received, paid>>

Flow == [main : Users, op : Ops, status : Statuses, real : Nat,
         tx : Nat, ref : Nat, chainID : BOOLEAN]
Tx == [kind : Ops, main : Users, ref : Nat, amount : Nat,
       status : {"pending", "success", "failed"}]
Item == [tx : Nat, main : Users, ref : Nat, op : Ops]
Settling == [item : Item, lock : Flow \cup {NoRow}]
Phases == {"idle", "lock_save", "cancel_save", "report_tx", "append",
           "request_check", "request_tx", "request_leave"}
Handler == [pc : Phases, main : Users, tx : Nat, ref : Nat, row : Flow \cup {NoRow}]

-----------------------------------------------------------------------------
(* The contract behind TOPUP_CONTRACT.  It is not in the repository: this is *)
(* what the code relies on.  A lock is opened once, from a ticket the server *)
(* signed, and an open lock is either claimed or canceled, once.             *)

Mined(kind, f) ==
    \E t \in DOMAIN chain :
        chain[t].kind = kind /\ chain[t].ref = f /\ chain[t].status = "success"

Opened(f) == Mined("Freeze", f)
Closed(f) == Mined("Withdraw", f) \/ Mined("Unfreeze", f)

Executable(tx) ==
    CASE tx.kind = "Recharge" -> TRUE
      [] tx.kind = "Freeze"   -> ~Opened(tx.ref)
      [] OTHER                -> Opened(tx.ref) /\ ~Closed(tx.ref)

Send(kind, u, f, a) ==
    /\ kind \in Kinds /\ Len(chain) < MaxTx
    /\ chain' = Append(chain, [kind |-> kind, main |-> u, ref |-> f,
                               amount |-> a, status |-> "pending"])
    /\ UNCHANGED <<db, work, updates, settling, req, guard, crashes, history>>

SendDeposit(u) == \E a \in Amounts : Send("Recharge", u, NoFlow, a)

\* The wallet sends openLock with a ticket it was given, and claims or cancels
\* a lock it sees open.  A transaction may still fail when it is executed.
SendLockTx(u) ==
    \E f \in DOMAIN flows :
        /\ flows[f].op = "Freeze" /\ flows[f].main = u
        /\ \/ ~Opened(f) /\ Send("Freeze", u, f, flows[f].real)
           \/ /\ Opened(f) /\ ~Closed(f)
              /\ \E kind \in {"Withdraw", "Unfreeze"} : Send(kind, u, f, flows[f].real)

Mine(t) ==
    /\ chain[t].status = "pending"
    /\ \E s \in {"success", "failed"} :
          /\ s = "success" => Executable(chain[t])
          /\ chain' = [chain EXCEPT ![t].status = s]
    /\ UNCHANGED <<db, work, updates, settling, req, guard, crashes, history>>

-----------------------------------------------------------------------------
(* The queue.  RichQueue promises that an item that was enqueued is handled  *)
(* at least once (module WorkQueue): enqueuing an item already there adds    *)
(* nothing, and an item just handled may be there once more.                 *)

AppendTopupTx(t, u, f, op) ==
    work' = work \cup {[tx |-> t, main |-> u, ref |-> f, op |-> op]}

-----------------------------------------------------------------------------
(* Handlers *)

Idle == [pc |-> "idle", main |-> CHOOSE u \in Users : TRUE,
         tx |-> NoTx, ref |-> NoFlow, row |-> NoRow]

\* The database row a new flow is created with: INSERT takes the next id.
NewFlow(u, op, real, t, f, known) ==
    /\ Len(flows) < MaxFlows
    /\ flows' = Append(flows, [main |-> u, op |-> op, status |-> "Pending", real |-> real,
                               tx |-> t, ref |-> f, chainID |-> known])

\* GET balance creates the account when there is none.
QueryBalance(u) ==
    /\ ~account[u].exists
    /\ account' = [account EXCEPT ![u].exists = TRUE]
    /\ UNCHANGED <<flows, chain, work, updates, settling, req, guard, crashes, history>>

\* POST report, up to the first write.  A user reports a transaction of its
\* own; the hash of a recharge must not be in a row of that user.  The query
\* for a withdrawal carries the key of the lock row read before and finds at
\* most that row, so it refuses nothing.
ReportRead(r, t) ==
    LET tx == chain[t]
        start(pc, row) == req' = [req EXCEPT ![r] = [pc |-> pc, main |-> tx.main, tx |-> t,
                                                     ref |-> tx.ref, row |-> row]]
    IN /\ req[r].pc = "idle"
       /\ \/ /\ tx.kind = "Recharge"
             /\ \A i \in DOMAIN flows : ~(flows[i].main = tx.main /\ flows[i].tx = t)
             /\ start("report_tx", NoRow)
          \/ tx.kind = "Withdraw" /\ start("report_tx", NoRow)
          \/ tx.kind = "Freeze"   /\ start("lock_save", flows[tx.ref])
          \/ tx.kind = "Unfreeze" /\ start("cancel_save", NoRow)
       /\ UNCHANGED <<db, chain, work, updates, settling, guard, crashes, history>>

\* type "lock": db.Save writes every column of the row read before, with the new hash.
ReportLockSave(r) ==
    /\ req[r].pc = "lock_save"
    /\ flows' = [flows EXCEPT ![req[r].ref] = [req[r].row EXCEPT !.tx = req[r].tx]]
    /\ req' = [req EXCEPT ![r].pc = "append", ![r].row = NoRow]
    /\ UNCHANGED <<account, chain, work, updates, settling, guard, crashes, history>>

\* type "cancel": a new Unfreeze flow that refers to the lock.
ReportCancelSave(r) ==
    /\ req[r].pc = "cancel_save"
    /\ NewFlow(req[r].main, "Unfreeze", 0, req[r].tx, req[r].ref, TRUE)
    /\ req' = [req EXCEPT ![r].pc = "append", ![r].ref = Len(flows')]
    /\ UNCHANGED <<account, chain, work, updates, settling, guard, crashes, history>>

\* types "recharge" and "withdraw": one transaction, refused without an account.
ReportCommit(r) ==
    /\ req[r].pc = "report_tx"
    /\ \/ /\ account[req[r].main].exists
          /\ NewFlow(req[r].main, chain[req[r].tx].kind, 0, req[r].tx, req[r].ref, TRUE)
          /\ req' = [req EXCEPT ![r].pc = "append", ![r].ref = Len(flows')]
       \/ /\ ~account[req[r].main].exists
          /\ req' = [req EXCEPT ![r] = Idle]
          /\ UNCHANGED flows
    /\ UNCHANGED <<account, chain, work, updates, settling, guard, crashes, history>>

\* Every report ends by handing the transaction to the parser.
ReportAppend(r) ==
    /\ req[r].pc = "append"
    /\ AppendTopupTx(req[r].tx, req[r].main, req[r].ref, chain[req[r].tx].kind)
    /\ req' = [req EXCEPT ![r] = Idle]
    /\ UNCHANGED <<db, chain, updates, settling, guard, crashes, history>>

-----------------------------------------------------------------------------
(* BalanceWithdrawRequest *)

OpenLocks(u) ==
    {i \in DOMAIN flows : /\ flows[i].main = u /\ flows[i].op = "Freeze"
                          /\ flows[i].status \in {"Pending", "PendingWithDraw"}}

\* LoadOrStore on the request's key.  A request that finds the key goes
\* straight to the deferred Delete, which is registered before the test.
WithdrawRequestEnter(r, u) ==
    /\ req[r].pc = "idle" /\ "Freeze" \in Kinds
    /\ req' = [req EXCEPT ![r] = [Idle EXCEPT
                  !.pc = IF u \in guard THEN "request_leave" ELSE "request_check",
                  !.main = u]]
    /\ guard' = guard \cup {u}
    /\ UNCHANGED <<db, chain, work, updates, settling, crashes, history>>

\* Outside the transaction: an open lock is answered as it is, or refused when
\* its amount or its expiry does not fit; neither changes anything.
WithdrawRequestCheck(r) ==
    /\ req[r].pc = "request_check"
    /\ req' = [req EXCEPT ![r].pc = IF OpenLocks(req[r].main) # {}
                                    THEN "request_leave" ELSE "request_tx"]
    /\ UNCHANGED <<db, chain, work, updates, settling, guard, crashes, history>>

\* One transaction: reserve the amount and create the ticket.
WithdrawRequestCommit(r) ==
    LET u == req[r].main IN
    /\ req[r].pc = "request_tx"
    /\ \E a \in Amounts :
          /\ account[u].exists /\ account[u].available >= a
          /\ account' = [account EXCEPT ![u].available = @ - a, ![u].withdrawal = @ + a]
          /\ NewFlow(u, "Freeze", a, NoTx, NoFlow, FALSE)
    /\ req' = [req EXCEPT ![r].pc = "request_leave"]
    /\ UNCHANGED <<chain, work, updates, settling, guard, crashes, history>>

\* Rolled back: no account, too little available, no signing key, no wallet,
\* or the signature could not be built.
WithdrawRequestRollback(r) ==
    /\ req[r].pc = "request_tx"
    /\ req' = [req EXCEPT ![r].pc = "request_leave"]
    /\ UNCHANGED <<db, chain, work, updates, settling, guard, crashes, history>>

\* The deferred Delete of every request, refused or not.
WithdrawRequestLeave(r) ==
    /\ req[r].pc = "request_leave"
    /\ guard' = guard \ {req[r].main}
    /\ req' = [req EXCEPT ![r] = Idle]
    /\ UNCHANGED <<db, chain, work, updates, settling, crashes, history>>

-----------------------------------------------------------------------------
(* The topup consumer: parse a mined transaction and publish what it says.   *)
(* While it is not mined, or the RPC fails, the item goes back to the queue, *)
(* which changes nothing here.  A full channel drops the update.             *)

HandleTopup(m) ==
    /\ m \in work /\ chain[m.tx].status # "pending"
    /\ updates' = IF Len(updates) < ChanCap THEN Append(updates, m) ELSE updates
    /\ work' = work \ {m} \/ (Redelivery /\ work' = work)
    /\ UNCHANGED <<db, chain, settling, req, guard, crashes, history>>

-----------------------------------------------------------------------------
(* UpdateAccountBalance *)

\* Mutant: any row with the hash, not the first.
IsTarget_Any(m, i) ==
    i \in DOMAIN flows /\ flows[i].main = m.main /\ flows[i].tx = m.tx

\* The flow an update settles: First orders by id.
IsTarget(m, i) ==
    /\ i \in DOMAIN flows /\ flows[i].main = m.main /\ flows[i].tx = m.tx
    /\ \A j \in DOMAIN flows : flows[j].main = m.main /\ flows[j].tx = m.tx => i <= j

\* A claim or a cancel names its own flow, which names the lock.  Both rows
\* are read without a lock on them, when the transaction begins.
NeedsLock(m) == m.op \in {"Withdraw", "Unfreeze"}
LockOf(m) == flows[m.ref].ref
LockFound(m) == m.ref \in DOMAIN flows /\ LockOf(m) \in DOMAIN flows

\* The updater takes an update off the channel and reads what it refers to.
TakeUpdate ==
    /\ settling = NoRow /\ updates # <<>>
    /\ LET m == Head(updates) IN
         settling' = [item |-> m,
                      lock |-> IF NeedsLock(m) /\ LockFound(m) THEN flows[LockOf(m)] ELSE NoRow]
    /\ updates' = Tail(updates)
    /\ UNCHANGED <<db, chain, work, req, guard, crashes, history>>

\* What the parsers find of the amount of a mined transaction.  The one of a
\* deposit or of openLock is an argument of the call, whether it succeeded or not;
\* the one of a claim or a cancel is only in the event of a successful call.
TopupHasAmount(m) == m.op = "Recharge"
OpenLockHasAmount(m) == m.op = "Freeze"
ClaimHasAmount(m) == m.op = "Withdraw" /\ chain[m.tx].status = "success"
CancelHasAmount(m) == m.op = "Unfreeze" /\ chain[m.tx].status = "success"

\* A nil amount panics into the rollback.
HasAmount(m) == TopupHasAmount(m) \/ OpenLockHasAmount(m) \/ ClaimHasAmount(m) \/ CancelHasAmount(m)

\* The guard of the balance update: withdrawal never goes below zero.
Covered(m) == NeedsLock(m) /\ chain[m.tx].status = "success"
                 => account[m.main].withdrawal >= chain[m.tx].amount

\* Mutant: "already processed" is not tested.
Applies_Repeatedly(m, i) ==
    /\ NeedsLock(m) => settling.lock # NoRow
    /\ IsTarget(m, i) /\ HasAmount(m) /\ Covered(m)

Applies(m, i) ==
    /\ NeedsLock(m) => settling.lock # NoRow
    /\ IsTarget(m, i) /\ flows[i].status = "Pending"
    /\ HasAmount(m) /\ Covered(m)

\* Mutant: the receipt's status is ignored.
SettledStatus_Always(m) == IF m.op = "Freeze" THEN "PendingWithDraw" ELSE "Success"

SettledStatus(m) ==
    IF chain[m.tx].status = "failed" THEN "Failed"
    ELSE IF m.op = "Freeze" THEN "PendingWithDraw" ELSE "Success"

\* Mutant: a canceled lock is closed as if it were paid.
ClosedStatus_Paid(m) == "Success"

ClosedStatus(m) == IF m.op = "Withdraw" THEN "Success" ELSE "Canceled"

\* The lock is closed in the same transaction, when it was read waiting for its
\* withdrawal: Save writes every column of the row read.
ClosesLock(m, j) ==
    /\ NeedsLock(m) /\ j = LockOf(m)
    /\ chain[m.tx].status = "success" /\ settling.lock.status = "PendingWithDraw"

Settle(m, i) ==
    flows' = [j \in DOMAIN flows |->
                CASE j = i -> [flows[j] EXCEPT !.status = SettledStatus(m), !.chainID = TRUE,
                                               !.real = chain[m.tx].amount]
                  [] j # i /\ ClosesLock(m, j) -> [settling.lock EXCEPT !.status = ClosedStatus(m)]
                  [] OTHER -> flows[j]]

\* Mutant: the withdrawal column is not written.
MoveBalance_OneColumn(u, da, dw) ==
    account' = [account EXCEPT ![u].exists = TRUE, ![u].available = @ + da]

\* Mutant: the two columns are swapped.
MoveBalance_Swapped(u, da, dw) ==
    account' = [account EXCEPT ![u].exists = TRUE, ![u].available = @ + dw,
                               ![u].withdrawal = @ + da]

\* Mutant: the amount replaces the balance that was read.
MoveBalance_Overwrites(u, da, dw) ==
    account' = [account EXCEPT ![u].exists = TRUE, ![u].available = da, ![u].withdrawal = dw]

\* The account is created when it is missing.
MoveBalance(u, da, dw) ==
    account' = [account EXCEPT ![u].exists = TRUE, ![u].available = @ + da,
                               ![u].withdrawal = @ + dw]

\* Mutant: a failed openLock gives the reservation back, though its ticket is
\* still good.
Book_RefundsFailedLock(m) ==
    LET a == chain[m.tx].amount IN
    /\ CASE m.op = "Freeze" /\ chain[m.tx].status = "failed" -> MoveBalance(m.main, a, -a)
         [] m.op = "Unfreeze" /\ chain[m.tx].status = "success" -> MoveBalance(m.main, a, -a)
         [] m.op = "Withdraw" /\ chain[m.tx].status = "success" -> MoveBalance(m.main, 0, -a)
         [] OTHER -> UNCHANGED account
    /\ UNCHANGED history

Book(m) ==
    LET u == m.main  a == chain[m.tx].amount IN
    \/ chain[m.tx].status = "failed" /\ UNCHANGED <<account, history>>
    \/ /\ chain[m.tx].status = "success"
       /\ \/ m.op = "Freeze" /\ MoveBalance(u, 0, 0) /\ UNCHANGED history
          \/ /\ m.op = "Recharge" /\ MoveBalance(u, a, 0)
             /\ received' = [received EXCEPT ![u] = @ + a] /\ UNCHANGED paid
          \/ /\ m.op = "Withdraw" /\ MoveBalance(u, 0, -a)
             /\ paid' = [paid EXCEPT ![u] = @ + a] /\ UNCHANGED received
          \/ m.op = "Unfreeze" /\ MoveBalance(u, a, -a) /\ UNCHANGED history

\* The update is settled in one transaction, or rolled back; the error is
\* logged and the update is gone.
UpdateAccountBalance ==
    /\ settling # NoRow
    /\ LET m == settling.item IN
         \/ \E i \in DOMAIN flows : Applies(m, i) /\ Settle(m, i) /\ Book(m)
         \/ (\A i \in DOMAIN flows : ~Applies(m, i)) /\ UNCHANGED <<db, history>>
    /\ settling' = NoRow
    /\ UNCHANGED <<chain, work, updates, req, guard, crashes>>

-----------------------------------------------------------------------------
(* checkTx: at most CheckLimit pending rows, in no stated order.  A row whose  *)
(* chain id or hash is empty is skipped.  A claim or cancel is enqueued with   *)
(* the id of its lock in the place of its own.                                 *)

PendingFlows == {i \in DOMAIN flows : flows[i].status = "Pending"}

CheckItem(i) ==
    [tx |-> flows[i].tx, main |-> flows[i].main, op |-> flows[i].op,
     ref |-> IF flows[i].op \in {"Withdraw", "Unfreeze"} THEN flows[i].ref ELSE i]

\* Mutant: only rows whose amount is known are enqueued again.
Rechecked_Known(i) == flows[i].chainID /\ flows[i].real > 0

\* A row with a chain id and a hash; a Freeze row gets its chain id only when
\* it is settled.
Rechecked(i) == flows[i].chainID /\ flows[i].tx # NoTx

CheckTx ==
    /\ \E S \in SUBSET PendingFlows :
          /\ Cardinality(S) <= CheckLimit
          /\ Cardinality(S) = CheckLimit \/ S = PendingFlows
          /\ work' = work \cup {CheckItem(i) : i \in {j \in S : Rechecked(j)}}
    /\ UNCHANGED <<db, chain, updates, settling, req, guard, crashes, history>>

\* The process stops, at any point, and starts again.
Crash ==
    /\ crashes < MaxCrashes /\ crashes' = crashes + 1
    /\ work' = {} /\ updates' = <<>> /\ settling' = NoRow /\ guard' = {}
    /\ req' = [r \in Req |-> Idle]
    /\ UNCHANGED <<db, chain, history>>

-----------------------------------------------------------------------------
Init ==
    /\ account = [u \in Users |-> [exists |-> Opening > 0, available |-> Opening,
                                   withdrawal |-> 0]]
    /\ flows = <<>> /\ chain = <<>> /\ work = {} /\ updates = <<>>
    /\ settling = NoRow
    /\ req = [r \in Req |-> Idle] /\ guard = {} /\ crashes = 0
    /\ received = [u \in Users |-> 0] /\ paid = [u \in Users |-> 0]

ReportNext(r) ==
    \/ \E t \in DOMAIN chain : ReportRead(r, t)
    \/ ReportLockSave(r) \/ ReportCancelSave(r) \/ ReportCommit(r) \/ ReportAppend(r)

RequestNext(r) ==
    \/ \E u \in Users : WithdrawRequestEnter(r, u)
    \/ WithdrawRequestCheck(r) \/ WithdrawRequestCommit(r)
    \/ WithdrawRequestRollback(r) \/ WithdrawRequestLeave(r)

Next ==
    \/ \E u \in Users : SendDeposit(u) \/ SendLockTx(u) \/ QueryBalance(u)
    \/ \E t \in DOMAIN chain : Mine(t)
    \/ \E r \in Req : ReportNext(r) \/ RequestNext(r)
    \/ \E m \in work : HandleTopup(m)
    \/ TakeUpdate \/ UpdateAccountBalance
    \/ CheckTx
    \/ Crash

Spec == Init /\ [][Next]_vars

\* The goroutines that run as long as the process does: a handler that has
\* begun, the topup consumer, the updater and the daily ticker.  The chain mines
\* what it was sent.  Users owe nothing.  A full channel drains while the
\* consumer works, so publishing with room is not refused for ever (strong).
Publish(t, f) ==
    /\ Len(updates) < ChanCap
    /\ \E m \in work : m.tx = t /\ m.ref = f /\ HandleTopup(m)

Fairness ==
    /\ \A t \in 1..MaxTx : WF_vars(t \in DOMAIN chain /\ Mine(t))
    /\ \A r \in Req : WF_vars(ReportLockSave(r) \/ ReportCancelSave(r)
                               \/ ReportCommit(r) \/ ReportAppend(r))
    /\ \A t \in 1..MaxTx, f \in 1..MaxFlows : SF_vars(Publish(t, f))
    /\ WF_vars(TakeUpdate \/ UpdateAccountBalance)
    /\ WF_vars(CheckTx)

FairSpec == Spec /\ Fairness

-----------------------------------------------------------------------------
(* What the ledger must keep *)

\* Every row, message and handler has the shape the code gives it; the balances
\* are uint64 columns that never go below zero.
TypeOK ==
    /\ account \in [Users -> [exists : BOOLEAN, available : Nat, withdrawal : Nat]]
    /\ flows \in Seq(Flow)
    /\ chain \in Seq(Tx)
    /\ work \subseteq Item
    /\ updates \in Seq(Item) /\ settling \in Settling \cup {NoRow}
    /\ req \in [Req -> Handler]
    /\ guard \subseteq Users
    /\ crashes \in Nat
    /\ received \in [Users -> Nat] /\ paid \in [Users -> Nat]

\* The rows of a user with an operation and a status, and what they add up to.
Rows(u, op, status) ==
    {i \in DOMAIN flows : flows[i].main = u /\ flows[i].op = op /\ flows[i].status \in status}
Total(S) == MapThenSumSet(LAMBDA i : flows[i].real, S)

\* The balance row and the flow table tell the same story: what a user owns is
\* what the settled recharges brought less what the settled claims took
\* (service/account_balance.go writes both in one transaction).
AccountMatchesFlows ==
    \A u \in Users :
        account[u].available + account[u].withdrawal + Total(Rows(u, "Withdraw", {"Success"}))
            = Opening + Total(Rows(u, "Recharge", {"Success"}))

\* What is reserved for withdrawals is what the tickets reserved less what
\* settled claims and cancels released; a failed openLock releases nothing.
WithdrawalMatchesTickets ==
    \A u \in Users :
        account[u].withdrawal + Total(Rows(u, "Withdraw", {"Success"}))
                              + Total(Rows(u, "Unfreeze", {"Success"}))
            = Total(Rows(u, "Freeze", Statuses))

\* The tickets that can still take money out of the contract.
LiveTickets == {f \in DOMAIN flows : flows[f].op = "Freeze" /\ ~Closed(f)}

OnChain(kind) ==
    MapThenSumSet(LAMBDA t : chain[t].amount,
                  {t \in DOMAIN chain : chain[t].kind = kind /\ chain[t].status = "success"})

\* The contract can pay every balance that can be asked for and every ticket
\* that was signed and is not closed, whatever was lost, repeated or reordered
\* between the chain and the ledger.
Solvent ==
    MapThenSumSet(LAMBDA u : account[u].available, Users) + Total(LiveTickets)
        <= Cardinality(Users) * Opening + OnChain("Recharge") - OnChain("Withdraw")

\* One chain transaction settles at most one flow of a user, however many
\* reports of it raced past the "tx hash already exists" test or were never
\* subject to it: of the rows with one hash only the first leaves Pending.
OnlyFirstReportSettles ==
    \A i, j \in DOMAIN flows :
        /\ i < j /\ flows[i].op # "Freeze"
        /\ flows[i].main = flows[j].main /\ flows[i].tx = flows[j].tx
        => flows[j].status = "Pending"

\* The status of a flow says what happened on chain: a settled recharge, claim
\* or cancel was mined, a lock waiting for its withdrawal was opened, and a
\* lock is closed as paid or canceled only when the contract closed it so.
StatusFollowsChain ==
    \A i \in DOMAIN flows :
        LET f == flows[i] IN
        /\ f.op # "Freeze" /\ f.status = "Success" => chain[f.tx].status = "success"
        /\ f.op # "Freeze" /\ f.status = "Failed" => chain[f.tx].status = "failed"
        /\ f.op = "Freeze" /\ f.status = "PendingWithDraw" => Opened(i)
        /\ f.op = "Freeze" /\ f.status = "Success" => Mined("Withdraw", i)
        /\ f.op = "Freeze" /\ f.status = "Canceled" => Mined("Unfreeze", i)

\* What the history says was received and paid is what the account holds.
Conserved ==
    \A u \in Users :
        account[u].available + account[u].withdrawal + paid[u] = Opening + received[u]

\* The first report of a transaction, and when a row has left Pending.
FirstReport(i) ==
    /\ i \in DOMAIN flows
    /\ \A j \in 1..(i - 1) : flows[j].main = flows[i].main => flows[j].tx # flows[i].tx
IsSettled(i) == i \in DOMAIN flows /\ flows[i].status # "Pending"

\* A reported recharge is settled in the end, even when the process dies after
\* the commit and before AppendTopupTx, or the channel was full: checkTx finds
\* the pending row and enqueues it again.
RechargeIsSettled ==
    \A i \in 1..MaxFlows :
        (FirstReport(i) /\ flows[i].op = "Recharge") ~> IsSettled(i)

\* The same for a claim or a cancel, which the comment on the ticker goroutine
\* promises for every pending flow.
PendingIsRechecked ==
    \A i \in 1..MaxFlows :
        (FirstReport(i) /\ flows[i].op = "Withdraw" /\ chain[flows[i].tx].status = "success")
            ~> IsSettled(i)

-----------------------------------------------------------------------------
(* The ledger implements the account book. *)

TxIds == 1..MaxTx

MinedEntries ==
    {[tx |-> t, kind |-> chain[t].kind, main |-> chain[t].main, amount |-> chain[t].amount] :
        t \in {s \in DOMAIN chain : chain[s].kind # "Freeze" /\ chain[s].status = "success"}}

Booked == {flows[i].tx : i \in {j \in DOMAIN flows : /\ flows[j].op # "Freeze"
                                                    /\ flows[j].status = "Success"}}

Ledger == INSTANCE AccountBook WITH
    available <- [u \in Users |-> account[u].available],
    withdrawal <- [u \in Users |-> account[u].withdrawal],
    mined <- MinedEntries,
    booked <- Booked

\* Whatever is reported twice, retried, dropped or lost in a crash, a step of
\* the code moves a balance only as the account book allows: for a mined
\* transaction, by its amount, once, together with the flow that records it.
ImplementsAccountBook == Ledger!BookSpec
=============================================================================
