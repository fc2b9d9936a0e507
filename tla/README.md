# Tradeverse API: TLA+ models, checks and proofs

The Tradeverse API is a Go server (gin, gorm on MySQL, go-ethereum) through which
players recharge an on-chain balance, pay for games with it, withdraw it by
signed tickets, join seasons, and sign in by mail, wallet, OAuth or X; game
developers manage their games through a console. This directory holds TLA+
models of the parts that move money, the properties they must keep, the TLC
runs that check them on small instances and TLAPS proofs of every safety
property for every value of the parameters.

To run a check: `tlc -config LedgerTickets.cfg MCBalanceLedger`; to run a
proof: `tlapm BalanceLedgerProofs.tla`. `PROJECT.json` lists every run, the
source lines behind every definition, a mutation of the code's behaviour that
each property detects, and the hazards the properties are aimed at.

Paths below are relative to `src/`.

## 1. Inventory

### 1.1 Account ledger, chain side (modelled)

*State.* `n_account_balance` (available, frozen, withdrawal per user),
`n_account_balance_flow` (one row per recharge, lock, claim and cancel), the
topup queue, the channel `topupHashChannel` of 500 updates, the request guard
`userSeasonLock`, and the contract on chain.

*Operations.* `GET balance` creates the row on demand; `POST report`
(`api/http/controller/auth/user.go` 933-1094) records a transaction the user
sent; `BalanceWithdrawRequest` (1096-1347) reserves an amount and signs a
ticket for `openLock`; the topup consumer (`chain/evm_tx_q.go`,
`chain/evm_tx_parse.go`) parses mined transactions and publishes updates;
`UpdateAccountBalance` (`service/account_balance.go`) settles them one by one;
`checkTx` (`main.go`) looks at pending rows once a day.

*Interactions.* handler -> queue -> consumer -> channel -> updater -> database,
with a second way in from `checkTx`. The handlers and the updater write the same
rows, some of them read without `FOR UPDATE`.

*Hard.* A process that dies between commit and enqueue; updates that are
dropped, repeated or out of order; stale rows saved whole; guards deleted by
those who did not take them.

*Must hold.* Balances equal what the rows say; a transaction settles once;
reservations equal open tickets; the contract can pay all that was promised;
what was reported is settled in the end.

### 1.2 Work queue (modelled in part)

`system/queue_enhance.go`: a slice under a mutex, a notify channel of capacity
one, the `sync.Map` `signInLocks` that keeps an item from being queued twice,
`EnqueueWithDelay` for retries, and `ConsumerWithContext`, which hands slots to
handlers in batches. *Hard:* wakeups against the drain loop, keys deleted and
stored in any order. *Must hold:* no slot without a wakeup, no key without
work, no item dropped. `Dequeue`, `BatchEnqueue`, `First` and `Last` have no
caller and are left out, which is why the part counts as modelled only partly.

### 1.3 Game sessions and payment (modelled)

`api/oauth/jwt_middleware.go` 143-719 and `ConfirmGameSession` (`user.go`
647-711). *State:* sessions, `n_account_flow` rows (freeze, spend), the player's
balance. *Operations:* init, start (freeze the price), end (charge it), confirm
the score. *Hard:* every check is read outside the transaction that relies on
it; games retry. *Must hold:* what is frozen equals the pending freezes; each
freeze is charged at most once; no session is over without its charge.

### 1.4 Players with a mail address (modelled)

`controller/preauth/index.go` 247-470 (`Register`, `Verify`, `Login`),
`user.go` 152-298 (`SendEmail`, `VerifyEmail`), `utils/mail.go`,
`system/rand.go`. *State:* `user_main` with a unique index on the address, the
code rows, the rows of `user_seq` by day, `registerInLock`. *Hard:* rows are read,
tested and saved whole in separate statements; the deferred `Delete` of the
guard is registered before the test of `loaded`; two transactions may both find
that today's number row is missing; mails arrive late, codes repeat and stay
valid after use. *Must hold:* who is active proved the address the row holds
now; an activation is not undone by a slower request; no two players get one
number, although it hides the date and midnight may come while it is drawn.

### 1.5 Wallets and X accounts (modelled; the X profile is not)

`GetAuthMsg`, `VerifyMessage` (`preauth/index.go` 41-245), `VerifyWallet`
(`user.go` 300-387), `XLogin`, `XCallback` (`auth/x.go`, `utils/x.go`). *State:*
`user_provider` without a unique index, `auth_message`, `loginInLock`,
`xReqMap`. *Hard:* look-up and insert are separate statements, the lock is
keyed by the message and not by the wallet, the callback may come twice. *Must
hold:* an identity keeps its user; a second row comes only from a race.

### 1.6 OAuth server (modelled)

`api/oauth/handler.go`: login page, `AuthorizeHandler` issuing codes into a
map, `TokenHandler` taking them (the code is consumed before redirect and PKCE
are tested). *Must hold:* a code yields at most one token, only for the user,
the client, the callback and the verifier it was asked for.

### 1.7 Developers and their console (modelled)

`controller/developer/index.go`, `controller/preauth/developer.go`: accounts,
games from draft over testing to audit and online, settings, keys. Every
operation reads rows, tests them and saves whole rows. *Must hold:* what is
online is what an operator saw; an address is one developer's; a client id is
one game's.

### 1.8 Season join (modelled)

`user.go` 713-820: `LoadOrStore` on `userSeasonLock`, count of joined players,
existence test, insert. A refused request removes the key of the one in
progress. *Must hold:* a player joins a season once; the number of players
stays within the season's limit.

### 1.9 Websocket manager and chat (modelled)

`wsm/handler.go`, `api/ws/index.go`: two maps under an `RWMutex`; `Broadcast`
removes a failed client while it holds the read lock. *Must hold:* the maps
agree; a connection whose peer is gone leaves them.

### 1.10 Tail scanner (modelled; it has no caller)

`chain/scanner.go`: rows go through a buffer to a CSV file, progress through a
file of its own. *Must hold:* which trades may be lost or repeated by errors
and crashes; the scanner catches up.

### 1.11 Not modelled

| Part | Why |
| --- | --- |
| RPC client cache (`tools/chain.go`) | its races cost an extra dial, or close a client in use; every user treats the failed call as an error that may come at any time, and that error is modelled |
| Merkle tree, full-text index, `SlotQueue` | no caller in this commit |
| Interceptors (`apitor`, `tokenor`, `devtoken`, `wsor`), bearer tests of `AuthzMiddleware` | one look-up and one comparison per request; no state beyond a read-through cache |
| Freeze, unfreeze and spend handlers for advanced clients | `AdvancedAuthMiddleware` aborts every request, so they cannot be reached |
| Player profile (`UpdateProfile`, what `XCallback` copies into it) | nothing but the page that shows it reads it |
| Home pages, leaderboards, charts, caches; `lockCache.go` | read-only queries; no user |
| Third-party clients, OKX transfers, transaction analysis | input and output only |
| EIP-712 tickets | the hash is opaque here; that a ticket is signed and when is in `BalanceLedger` |
| Configuration, logging, encryption, database handle, offline tool | no protocol |

## 2. Modules

| Module | Models | Role |
| --- | --- | --- |
| `AccountBook` | what the ledger promises | abstract specification |
| `BalanceLedger` | 1.1 | detailed specification, refines `AccountBook` |
| `WorkQueue` | what the queue promises | abstract specification |
| `RichQueue` | 1.2 | detailed specification, refines `WorkQueue` |
| `Escrow` | what payment promises | abstract specification |
| `GamePlay` | 1.3 | detailed specification, refines `Escrow` |
| `UserNumber` | `system/rand.go`: the digits of a player's number | pure operators, used by `MailAccounts` |
| `MailAccounts` | 1.4 | detailed specification |
| `Identities` | 1.5 | detailed specification |
| `Voucher` | what a one-time code promises | abstract specification |
| `OAuthCode` | 1.6 | detailed specification, refines `Voucher` |
| `Console` | 1.7 | detailed specification |
| `SeasonJoin` | 1.8 | detailed specification |
| `WsManager` | 1.9 | detailed specification |
| `TailScanner` | 1.10 | detailed specification |
| `MC...` | symmetry sets and values of constants for TLC | |
| `SumLemmas` | lemmas on sums over finite sets | used by the proofs |
| `BalanceLedgerProofs` | theorems of `BalanceLedger` | proofs |
| `ProcessProofs` | theorems of `RichQueue`, `WsManager`, `TailScanner`: what goroutines share in memory | proofs |
| `GamePlayProofs` | theorems of `GamePlay` | proofs |
| `RequestProofs` | theorems of `SeasonJoin`, `Console`: requests without a lock on the rows | proofs |
| `OAuthCodeProofs` | theorems of `OAuthCode` | proofs |
| `IdentitiesProofs` | theorems of `Identities` | proofs |
| `MailAccountsProofs` | theorems of `UserNumber` and `MailAccounts` | proofs |

`ProcessProofs` and `RequestProofs` extend several components at once, so those
name what they have in common apart: `WsInit`, `ScanInit`, `ConInit` and so on.
A theorem is about one component; no component mentions a variable of another.

The modules meet at these places. `BalanceLedger` uses the queue through what
`WorkQueue` promises: a set of owed items, an item delivered at least once.
`GamePlay` and `BalanceLedger` share the account row and nothing else; each
appears in the other as an environment action under the same row lock
(`Recharge` and `Withdraw` in `GamePlay`; the ledger never touches the frozen
column). `GamePlay` lets a game's status change at any time, which is more than
`Console` does. `MailAccounts` and `Identities` both create users; they share
no other column that either of them tests.

### 2.1 Conventions

A database transaction is one step when the rows it depends on are read `FOR
UPDATE`. A row it reads without that is read in an earlier step, so everything
may happen between the reading and the commit. A statement outside a
transaction is a step. The history variables (`received`, `paid`, `credited`,
`spent`) record what the code's steps did; no guard reads them. Amounts are
natural numbers and the code's `uint64` columns wrap, so a type invariant that
holds shows that no column is ever decremented below zero; a wrap at the upper
end is outside the model.

### 2.2 BalanceLedger

| Model | Code |
| --- | --- |
| `account`, `flows` | the two tables; a row's id is its position |
| `chain`, `Mine`, `Send...` | the contract, from how the code uses it: a lock is opened once from a signed ticket, then claimed or canceled once; each transaction succeeds or fails |
| `work` | the topup queue as `WorkQueue` promises it |
| `updates` | `topupHashChannel`, capacity `ChanCap` |
| `settling` | the update in the hands of the single updater goroutine, with the lock row read without `FOR UPDATE` |
| `req`, `guard` | handlers in progress, `userSeasonLock` |
| `Report...` | `BalanceReport`: read, save or insert, append |
| `WithdrawRequest...` | `BalanceWithdrawRequest`: guard, check, transaction or rollback, deferred delete |
| `HandleTopup` | consumer and parser; a full channel drops the update |
| `TakeUpdate`, `UpdateAccountBalance` | the updater; an update that does not apply is rolled back and gone |
| `CheckTx` | the daily ticker, including the id it puts in the item |
| `Crash` | tables and chain survive; queue, channel, handlers and guard do not |

Users report transactions they sent themselves. `Redelivery` lets the queue
hand out an item once more than it was enqueued: `RichQueue` shows that copies
of an item do exist (`EnqueueWithDelay` deletes the key before the delay ends).

### 2.3 RichQueue

`Enqueue` is two steps, `LoadOrStore` and append with a token (`Store`,
`AppendSlot`). The consumer waits for a token, drains batches and waits for all
handlers of one batch before the next. A handler ends its work (`HandlerDone`)
or asks for the item again (`HandlerRetry`, which deletes the key at once and
sleeps in a goroutine), and then runs its deferred `Delete` (`HandlerUnlock`).

An `Enqueue` that arrives between the end of the handler's work and its
deferred `Delete` is turned away. `WorkQueue` therefore counts an item as in
hand until the deferred `Delete`, and it promises no new run for an item taken
in that window. The ledger tolerates this: the daily check enqueues again
whatever is still pending.

### 2.4 GamePlay

One player and one game. Each handler is cut at the statements that read
outside of the transaction: `StartCheck`, `StartFind`, `StartCommit`;
`EndRead`, `EndSpent`, `EndCommit`; `InitRead`, `InitCreate`; `ConfirmRead`,
`ConfirmSave`. `Abandon` is an error, a rollback or a crash at any of these
points. The repository declares no unique index on `n_account_flow` but
handles the duplicate-key error 1062, so `StartCommit` may create a second
freeze or find the first one.

### 2.5 MailAccounts

`RegisterEnter`, `RegisterRead`, `DrawNumber`, `DrawFirst`, `RegisterSave`,
`SendCode`, `RegisterLeave` are the statements of `Register`; the number is one
transaction at READ COMMITTED whose insert is a second step, because no lock
covers a row that does not exist. `VerifyRead` / `VerifyEmailRead` and
`Confirm` are `Verify` and `VerifyEmail`: the row is read, then saved whole.
`SendEmail` and `SendCode`: a code row is inserted after its mail has left.
Expiry is a choice in `Confirm` (a code may be refused at any time). `accepted`
is history.

The clock of `Generate` shows some day between the reading of the player's row
and now (`DrawNumber`); `Midnight` may come at any time, and the day drawn is
used for the row of `user_seq` and for the date. The number itself is
`UserNumber`: a flag, the date with its digits exchanged and rotated under a
secret, four digits of sequence, three random digits, and Luhn's digit. In the
model digits are numbers and the two HMACs are constants. Wallet sign-ins draw
from the same rows; what they took before is `Opening`. A day ends at `LastSeq >= 9999`: it
has the numbers 0 to 9998, although a comment speaks of 0..9999, and whoever comes
later gets the empty number.

### 2.6 Identities

Rows of `user_provider` are numbered as they are inserted. `SignIn...` are
`VerifyMessage` with its lock per message; `BindRead`, `BindOwn`, `BindSave`
the three statements of `VerifyWallet`; `XLogin`, `XExpire`, `XCallback...` the
X login. A request remembers in `found` what its look-up returned, and in `own`
the row it is about to save. Message expiry is left to `GetAuthMsg`: a wallet
has a second message when the first expired, while a request may still work
with the first.

### 2.7 OAuthCode and Voucher

`AuthorizeEnter` reads the cookie and tests client and callback,
`AuthorizePut` is `putCode`; `TokenTake` is `takeCode` under its mutex together
with the tests, which read nothing shared, and `TokenSign` the answer. A code
of 32 random bytes is a fresh number; S256 is one to one, so a challenge is
named by its verifier. `Crash` empties the store. `Voucher` knows only issue,
redeem and void.

### 2.8 Console

Each operation is a read with its tests and a save of the row it read. `fresh`
in a request, and the history `raced`, say whether what was read had changed by
the time it was saved; `unreviewed` says that a game changed since an operator
last put it online. Operators work on the table (`Operate`), which the console
never does for `Active` and `Inactive`.

### 2.9 SeasonJoin, WsManager, TailScanner

`SeasonJoin` has one step per statement of `JoinSeason`; `lost` records keys
deleted under a request that relied on them. `WsManager` has the lock as
`readers` and `waiting` with Go's rule that a waiting writer keeps new readers
out; there is deliberately no step after the `RemoveClient` inside `Broadcast`.
`TailScanner` has one step per slot, with errors, the ticker, a buffer that may
spill at any time, cancellation and restarts. What a slot writes is computed
from the balances before and after each of its transactions (`OwnersHit`,
`DeltaFor`, `TradeRows`); amounts of the target mint have one scale, so rational
numbers are integers here. `calcDeltaFor` takes the first account of an owner
that it finds in each list. The assumption of the module (`ScannerAssumption`,
`OneEach`) is that balances are natural numbers and that an owner has one
account, which the owner's associated account makes usual; with two, the row
would show the change of one of them only.

## 3. Runs

| Run | Result | What it shows |
| --- | --- | --- |
| `LedgerTickets` | pass | with two handlers, locks, claims and cancels mined or failed in any order and items delivered twice: reservations equal tickets, the contract stays solvent, statuses follow the chain, one row is settled per transaction, each step is one of the account book |
| `LedgerRecharge` | pass | with racing reports, a crash and a full channel: balance equals rows and history, and a reported recharge is settled in the end |
| `LedgerClaimRecheck` | violation | `checkTx` puts the lock's id where a claim's own id is expected; a claim lost once is never settled |
| `Queue` | pass | no lost wakeup, no abandoned key, no multiplied item, refinement of `WorkQueue`, and every item handled unless the process shuts down |
| `GameMoney` | pass | frozen amount equals pending freezes, charges happen once, refinement of `Escrow` |
| `Accounts` | pass | activation needs a code of the address held, survives slower requests, numbers are distinct on both sides of midnight |
| `Identities` | pass | rows keep their user, identities leave only by rebinding, second rows come only from races |
| `OAuth` | pass | one token per code, as asked, refinement of `Voucher`, through expiry and crashes |
| `Console` | pass | what is online was reviewed, second rows of an address are dead, client ids are distinct, unless a request acted on a stale row |
| `SeasonJoin` | pass | limit and one row per player, as long as no key was taken away |
| `WsManager` | pass | the two maps agree; connections whose peer is gone are removed unless `Broadcast` jammed the lock |
| `Scanner` | pass | which trades may be lost or repeated, opened and closed accounts included; the scanner catches up |

Several properties have an exception: `lost` keys, `raced` games, `Stale`
look-ups, a `Jammed` lock, `exposed` rows. The code does not prevent these
cases (section 3.3 names them); the properties say that nothing else goes wrong
and that the damage stays with the key, game, identity or row concerned. Each
exception is about a state in which a named thing has happened, never about the
property's own outcome.

### 3.1 Bounds, and why they are enough

*Ledger.* One user everywhere: no step relates two users' rows. Two handlers,
because a race of reports or of requests needs two. `LedgerTickets`: opening
balance 2, three rows, two transactions: a lock with its claim or its cancel,
or two locks, with failures among them. `Redelivery` lets the queue hand out an
item once more than it was enqueued; crashes are in `LedgerRecharge`, and an
update lost by a full channel (`ChanCap = 1`) loses what a crash loses there.
`LedgerRecharge`: an account that does not exist yet (`Opening = 0`), two rows,
two transactions for the channel of capacity one (the smallest instance in
which an update is dropped), one crash. `CheckLimit` stays above the number of
rows; what happens when a hundred rows can never be settled is listed as an
open hazard.

*Queue.* Two items in batches of two: the code's batch of one is the smaller
case, and items in one batch interleave their deferred deletes. Four calls are
enough for an item to be queued, delayed, queued afresh while it sleeps, and
queued again after the first copy deleted the key.

*Game.* Two requests at a time, two sessions and four rows: two freezes of one
session and both spends, or one of each for two sessions. Prices and scores 0
and 1 separate free from paid games and settled from disputed results.

*Accounts.* Two addresses and two handlers for a change of address against a
registration; two passwords to see a stale one come back; one code value, so
that codes repeat at once. Two days, the last of one month and the first of the
next; a day of two numbers, of which a wallet sign-in has drawn the first one of
the first day, so that the day ends and the next day begins at zero. The random
digits are always the same, which is the worst case for distinct numbers; the
bytes of the two HMACs are those of the secret in the code. 4.4 million states.

*Identities.* Two wallets, one X account, three rows and three users: a user
from a mail registration, and one for each of two sign-ins of one wallet. Two
messages and two logins are the smallest number with which one wallet or one
account is presented twice.

*OAuth.* Two clients with a callback each and two users, so that a mixed-up
token differs; two codes, two handlers; a code lives one tick of two.

*Console.* One game under edit and one that only competes for the client id;
two texts, one setting code; seven requests take a game through testing and
audit and back, with one of them held up in between.

*SeasonJoin.* Three requests: one in progress, one that is refused and deletes
the key, one that comes then. A limited season (limit 1) and an unlimited one.

*WsManager.* Two connections, two keys, two callers, three broadcasts: a
broadcast that meets a dead connection while another one runs.

*Scanner.* Six slots, saving every second one, and two crashes: a trade may be
lost in one and repeated after the other. The blocks hold what balances can
show: an account opened, kept and closed, a trade between two watched wallets,
another mint, an amount that does not change, an empty block.

### 3.2 Fairness

`LedgerRecharge` and `LedgerClaimRecheck` assume: the chain
mines or fails what it was sent (weak, per transaction); a handler that has
begun finishes (weak); the updater goroutine and the ticker run (weak); the
consumer publishes an item for which there is room infinitely often (strong,
because the channel fills and drains while the item waits). These are goroutines
that loop for as long as the process runs, and the bounded number of crashes is
a process that in the end stays up. Users owe nothing: no fairness on sending or
reporting.

`Queue` assumes that goroutines which can run do (weak), and that a handler is
not turned back for ever (strong per item: the transaction is mined and the RPC
answers in the end). Its liveness property excuses a shutdown.

`WsManager` assumes that goroutines go on where they are not blocked, and that
the handler of a connection whose peer is gone sees an error (weak, each). A
writer that waits keeps new readers out in Go, so weak fairness is enough for
it to get the lock.

`Scanner` assumes that the scanner's own loop goes on (weak): it has no other
goroutine to wait for, and the RPC answers again and again. It owes nothing
after a cancellation, and restarts are bounded.

The other modules have no liveness property: their requests end whenever the
database answers, and nothing obliges a player, a game or a developer to send
the next one.

### 3.3 Finding, and behaviour worth knowing

- `checkTx` builds a queue item with `RefFlowID` where the parser wants the
  flow's own id. Rows of claims and cancels it enqueues name the lock, whose
  own reference is empty, and `UpdateAccountBalance` does not find the lock
  (`LedgerClaimRecheck`, quoted in `PROJECT.json`).

The following is what the code does and no line of it denies; the models
contain it, and properties are stated around it.

- A refused request deletes the guard of the one in progress in `JoinSeason`,
  `Register`, `VerifyMessage` and `BalanceWithdrawRequest`: the deferred
  `Delete` precedes the test of `loaded`.
- A failed claim has no event and hence no amount; the settlement panics and is
  rolled back, each time. A report of a lock may write back a status read
  before the chain confirmed the lock. Two locks of one user can be open.
- `GameStartHandler` tests the session before its transaction: a freeze may be
  placed on a session that has ended. Of two overlapping confirmations of a
  score the second wins.
- `Broadcast` waits for its own read lock after a failed write.
  `BroadcastToAll` leaves the failed connection in `manset`.
- The goroutine `Chat` starts to watch `c.Done()` never ends: the `Done` of a
  gin context is nil unless `ContextWithFallback` is set.
- The scanner saves its progress only at empty slots, at the head, on a tick
  and at a stop, although `SaveEveryN` is announced for every N slots.
- `UpdateGame` does not compare `play_url`; `DeleteSetting` turns a draft into
  `Tested`; `RefreshGameKey` does not ask whose game it is; `DeveloperLogin`
  and `LoginPost` do not look at the status.
- OAuth codes that are never redeemed stay in the store; the token answer says
  3600 seconds and the token ten hours.
- `XCallback` logs a failed insert and fills the profile all the same.

## 4. Proofs

Every safety invariant, action property and refinement that a run checks is a
theorem. The theorems hold for any sets of requests, items, keys and amounts,
finite or not, and for every bound, under the constants' assumptions only
(`LedgerAssumption`, `QueueAssumption`, `WsAssumption`, `ScannerAssumption`,
`GameAssumption`, `SeasonAssumption`, `OAuthAssumption`,
`IdentitiesAssumption`, `AccountsAssumption`, `UserNumberAssumption`): bounds
are natural numbers, amounts are positive or natural, a score of zero exists,
`Nothing` is no user, key, season, identity or address, dates are six digits and
days are distinct, and the lists of balances are as section 2.9 says. The
users of the ledger are finitely many, since `Solvent` adds up their balances.

### 4.1 BalanceLedgerProofs

The inductive invariant of the first part is `LedgerInv == TypeOK /\ Tracked /\
OnlyFirstReportSettles`. `OnlyFirstReportSettles` alone is not inductive: a
lock report writes a hash into a row that may be newer than the row of a recharge, claim or
cancel, and the updater saves a copy of a lock row. That such a write never gives a settled
row the hash of an older one follows only from a link between handlers, queue items, updates
and rows and the transactions they came from: each has the kind and the owner of its
transaction. `Tracked` is that link. `Conserved` follows action by action, because `Book` writes balance and
history together.

- `LedgerInvariant`: the invariant holds in all reachable states.
- `TypeCorrect`: types; in particular no balance column goes below zero.
- `OneSettlementPerTransaction`: of the rows with one hash only the first leaves `Pending`.
- `BalancesConserved`: what is held plus what was paid equals the opening plus what was received.

What a status means needs a second part, `Linked`: a row's hash is that of a transaction
about the same lock (its own id, when the row is the lock), a message names the row its
transaction is about or, when it came from `checkTx`, the lock itself, which refers to
nothing; and every copy of a lock row held by a handler or by the updater already
satisfies what is claimed of the row, since the chain only adds to what it has said. So
a stale copy saved later says less, never something false.

- `LinksInvariant`: `LedgerInv /\ Linked` holds in all reachable states.
- `StatusIsOnChain`: `StatusFollowsChain`; no status says what the chain does not.
- `LedgerImplementsBook`: `Spec => Ledger!BookSpec`. Initial states map to initial
  states; each step maps to a step of `AccountBook` or a stutter. `Mine` is
  `Confirm`, `WithdrawRequestCommit` is `Reserve`, and `UpdateAccountBalance` of a mined
  recharge, claim or cancel is `Settle`; that the book has not settled it before is
  `OnlyFirstReportSettles`, and that the reservation covers it is the code's guard.

The properties that add up rows need the amounts, which nothing above mentions.
`Priced` says that a lock's row, its copies and its transactions have one amount
(the ticket's), that a settled row has the amount of its transaction, and that
a lock is claimed or cancelled at most once (`ClosedOnce`: the contract lets a
ticket be used once). Without it a stale copy, saved again, could change
what a sum counts. `Matched` then says for each user that what was received,
paid and reserved are sums over the rows: a row that is added or settled changes
one of these sums, and by what is booked (`HeldAppend`, `HeldChange`). A lock
counts as reserved whatever its status, so a report that saves an old one
changes no sum (`ReportLockSaveMatched`).

- `BooksInvariant`: `LedgerInv /\ Linked /\ Conserved /\ Priced /\ Matched`.
- `AccountsMatch`: `AccountMatchesFlows`.
- `WithdrawalsMatch`: `WithdrawalMatchesTickets`.
- `AlwaysSolvent`: `Solvent`. The balances of all users add up to sums over all rows
  (`UsersRows`, `AvailableTotal`). Every settled row is backed by a mined transaction
  of its own, since `OnlyFirstReportSettles` excludes a second row for it
  (`SettledIsBacked`), and every ticket is live or was closed by one transaction of its
  amount (`TicketsAreLiveOrClosed`); so what users hold and may still claim is at most
  what the contract received and has not paid out.

`SumLemmas` has what these arguments cite. `MapThenSumSet` picks elements with
`CHOOSE`; the lemmas show that its recursive function exists, that the sum does
not depend on the order, and what one term more, one less or one changed does to
it. They need induction over finite sets, which the library states with
an operator parameter. `SubsetInduction` states it with a set instead and
proves it from the well-foundedness of the strict subset relation.

### 4.2 ProcessProofs

*Queue.* `QueueInv` is the conjunction of `TypeOK`, `NoLostWakeup` and
`KeyHasWork`. No further strengthening is needed: the drain loop ends only at an
empty queue and every append leaves a token, a slot that is cut off is at once
in the batch, and a handler leaves the phases that hold a key only by deleting
it. The type invariant's last part, that there is a batch only while the
consumer handles one, is what keeps `BatchDequeue` from overwriting a handler.
`CopiesBounded` is inductive with it (`CopiesInv`): every step moves a copy from the slots to the batch,
back to the slots on a retry, or drops one, and only `Enqueue` makes one.

- `QueueInvariant`, `WakeupKept`, `KeysReleased`, `QueueTyped`: the invariant and its parts.
- `WorkNotMultiplied`: `CopiesBounded`.
- `QueueImplementsWork`: `Spec => Work!WorkSpec`, by mapping each action to
  `Take`, `Begin`, `End` or a stutter.

*Websocket manager.* `MapsAgree` is inductive with the types of the maps
(`WsMaps`) and `WsUnborn`: a connection whose `Chat` has not added it yet is in
neither map. Without the latter, `AddClient` could give a connection a second key.

- `WsMapsAgree`: `MapsAgree`.

*Scanner.* `ScanInv` says where the rows of processed slots are.
`ScanDurable` is about the slots up to the saved progress, whose rows must be
in the file or `exposed`; `ScanCovered` about those up to `last`, whose rows may
also be in the buffer; and `ScanCounted` bounds the rows of a slot by the
restarts, plus one once the scan has passed it, which a restart takes back for
the crash it counts. That the row has the right
amount does not depend on the state: with one account of an owner in each list,
`calcDeltaFor` computes the whole change (`ScanRow`).

- `ScannerInvariant`; `TradesKept`: `NoTradeForgotten`; `RepeatsBounded`:
  `RepeatedOnlyByRestart`.

### 4.3 GamePlayProofs

`GameInv` consists of `TypeOK`, `Conserved`, `ChargedOnce`,
`EndedSessionWasCharged` and `Tracked`, which says what a handler still knows
about the rows it read earlier: the price a start will freeze is one of the settings (`StartingTracked`),
the freeze an end will charge is a freeze of its session (`EndingTracked`), and
a confirmation's copy carries an amount that a spend row has (`CopyTracked`).
The last is why a stale save never leaves a session with an amount that nobody paid.

For `FrozenMatchesFlows`, `FrozenInv` adds that the frozen column is the sum of
the pending freezes. A start appends a term, an end removes the one it charges;
`ChargedOnce` and `EndingTracked` say that the term it removes was pending and is
the amount it takes out of the column.

- `GameInvariant`, `GameTyped`, `MoneyConserved`, `FreezeChargedOnce`,
  `EndedSessionsCharged`.
- `FrozenIsPending`: `FrozenMatchesFlows`.
- `GameImplementsEscrow`: `Spec => Book!EscrowSpec`.

### 4.4 RequestProofs

*Season join.* `SeasonInv` adds to the two properties what a join relies on as long as its key
was never taken away: it is the only one inside (`OneInside`), the season still
has room once it has counted (`StillRoom`), and the player has still not joined
once it has looked (`StillAbsent`).

- `SeasonInvariant`, `LimitIsHeld`, `PlayersJoinOnce`.

*Console.* The core of `ConInv` is `ConKnows`, what a request still knows of the
rows it read: a developer who is about to be saved is the first row of his
address; the owner of a game whose row is held is, too; a row that is still fresh
and would be saved as `Active` is the game's row; and nobody else has the
client id that is about to be saved, unless it was raced for. Every save makes
the other copies of its row stale (`Outdated`), which is what keeps `ConKnows` true.
With it, rows that are not the first of their address stay unverified
(`ConUnverified`) and own no game (`ConOwned`), and `ActiveIsReviewed` is
preserved: a save that leaves a game `Active` either writes what the operator
saw or is a race.

- `ConsoleInvariant`; `ActiveGamesReviewed`: `ActiveIsReviewed`; `SecondRowsDead`:
  `SecondRowIsDead`; `KeysStayDistinct`: `KeysDistinct`.

### 4.5 OAuthCodeProofs

`CodeInv`: codes are numbered as they are given out (`Numbered`); each is in the
store, with one handler or in a token (`Apart`), which is why a code cannot
yield two tokens; and what the store and the handlers hold is what was asked
for (`Asked`, `Tested`).

- `CodeInvariant`, `CodeRedeemedOnce`, `TokensAsAsked`.
- `CodeImplementsVoucher`: `Spec => Vouchers!VoucherSpec`.

### 4.6 IdentitiesProofs

`IdInv`: the tables have their types and every request that is about to save a
row still holds one of its own user (`RequestOk`). It is preserved because no
step takes a row from its user (`KeepsUser`), and it implies that the save of
`VerifyWallet` cannot do so. The least row of an identity comes from the
well-foundedness of the natural numbers, the number of its rows from the
library's theorems on cardinality.

- `IdentitiesInvariant`, `IdentitiesKeepUsers`, `SecondRowsAreRaces`.

### 4.7 MailAccountsProofs

*Numbers.* The shuffle of `buildDigitPerm` exchanges two digits at a time, so it is a
permutation whatever bytes the HMAC gives; the rotation moves each digit of the
date to one place (`PlaceOf`). The date can therefore be read back, and with it
the sequence number, from its four digits. For the check digit, the sum is
written as a sum of fourteen weights of which one, or two adjacent ones, differ.

- `DateCanBeReadBack`, `NumberDetermines`: equal numbers have one date and one
  sequence number.
- `MistypedDigitShows`, `SwappedDigitsShow`: what Luhn's digit detects, and that
  an exchange of 0 and 9 is all that adjacent digits can hide.

*Accounts.* `AccountsInv` adds to the invariants what handlers carry from one statement to
the next: a row that is about to be saved whole still has its index and its
number, and the address it will hold is the one the code was sent to (`Knows`);
a number in a row, or on its way to one, was drawn from the sequence of some
day (`NumbersIssued`) and belongs to nobody else (`NumbersApart`). A new number
is fresh because `NumberDetermines` leads from equal numbers to one day and one
sequence number, and the sequence of that day has not come so far
(`FreshNumber`). `MoveStep` covers the steps that leave `user_main` alone,
`RowStep` those that write it. `ActivationSettles` follows from the invariant
before and after a step and from `KeepsSettled`: of a settled row, no step
changes status or password, and no handler that could enters.

- `AccountsInvariant`, `ActiveAreVerified`, `NumbersAreDistinct`,
  `ActivationsSettle`.

### 4.8 Model-checked only

Liveness stays with TLC: `RechargeIsSettled`, `EveryItemIsHandled`,
`GoneIsRemoved` and `CatchesUp` need fairness, hence `ENABLED`, which the
prover does not support. The violation `LedgerClaimRecheck` is a
counterexample and needs no proof. Nothing is proved about a composition of the
components beyond the refinements: section 2 says which environment action
stands for which neighbour.

## 5. Plan

Done: money (`BalanceLedger`, `RichQueue`, `GamePlay`) with three abstract
specifications, then who the users are (`MailAccounts`, `Identities`,
`OAuthCode` with `Voucher`, `Console`), then the rest of the concurrent code
(`SeasonJoin`, `WsManager`, `TailScanner`), and the proofs of all safety
properties and refinements.

Left, most useful first:

1. Theorems that are not yet properties of a run: the safety half of the
   liveness arguments, such as what stays enabled until it happens.
2. The player's profile, once something other than its page reads it.
