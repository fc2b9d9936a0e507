------------------------ MODULE BalanceLedgerProofs ------------------------
(***************************************************************************)
(* What holds of the account ledger for every finite set of users, every   *)
(* amount, every capacity and every bound: first the rows and their links  *)
(* (LedgerInv, Linked), then the account book, last the sums over rows     *)
(* (Books), from which the contract's solvency follows.                    *)
(***************************************************************************)
EXTENDS BalanceLedger, SumLemmas, SequenceTheorems, TLAPS

\* A row's hash is that of a transaction of the row's kind and owner; a
\* recharge, claim or cancel always has one.  A row refers to a lock of its owner.
FlowsTracked ==
    \A i \in DOMAIN flows :
        /\ flows[i].op # "Freeze" => flows[i].tx # NoTx
        /\ flows[i].tx # NoTx => /\ flows[i].tx \in DOMAIN chain
                                 /\ chain[flows[i].tx].kind = flows[i].op
                                 /\ chain[flows[i].tx].main = flows[i].main
        /\ flows[i].op = "Freeze" => flows[i].ref = NoFlow
        /\ flows[i].ref # NoFlow => flows[i].ref \in DOMAIN flows
                                    /\ flows[flows[i].ref].op = "Freeze"
                                    /\ flows[flows[i].ref].main = flows[i].main

\* A transaction about a lock names a lock row of its sender, a deposit none.
TxsTracked ==
    \A t \in DOMAIN chain :
        IF chain[t].kind = "Recharge" THEN chain[t].ref = NoFlow
        ELSE   /\ chain[t].ref \in DOMAIN flows
               /\ flows[chain[t].ref].op = "Freeze"
               /\ flows[chain[t].ref].main = chain[t].main

ItemTracked(m) ==
    m.tx \in DOMAIN chain /\ chain[m.tx].kind = m.op /\ chain[m.tx].main = m.main

ItemsTracked ==
    /\ \A m \in work : ItemTracked(m)
    /\ \A k \in DOMAIN updates : ItemTracked(updates[k])

\* The updater holds an update about a transaction on chain and, with it, a copy
\* of a lock row as it once was.
SettlingTracked ==
    settling # NoRow =>
        LET m == settling.item  l == settling.lock IN
        /\ ItemTracked(m)
        /\ l # NoRow => /\ LockFound(m) /\ l.op = "Freeze" /\ l.main = flows[LockOf(m)].main
                        /\ l.tx # NoTx => /\ l.tx \in DOMAIN chain
                                          /\ chain[l.tx].kind = "Freeze"
                                          /\ chain[l.tx].main = l.main
                        /\ l.ref = NoFlow

\* What a handler that is past its first read knows.
HandlersTracked ==
    \A r \in Req :
        LET h == req[r] IN
        h.pc \in {"lock_save", "cancel_save", "report_tx", "append"} =>
            /\ h.tx \in DOMAIN chain /\ h.main = chain[h.tx].main
            /\ h.pc \in {"cancel_save", "report_tx"} => h.ref = chain[h.tx].ref
            /\ h.pc = "cancel_save" => chain[h.tx].kind = "Unfreeze"
            /\ h.pc = "report_tx" => chain[h.tx].kind \in {"Recharge", "Withdraw"}
            /\ h.pc = "lock_save" => /\ chain[h.tx].kind = "Freeze" /\ h.ref \in DOMAIN flows
                                     /\ flows[h.ref].op = "Freeze" /\ h.row \in Flow
                                     /\ h.row.op = "Freeze" /\ h.row.main = h.main
                                     /\ flows[h.ref].main = h.main /\ h.row.ref = NoFlow

Tracked == FlowsTracked /\ TxsTracked /\ ItemsTracked /\ SettlingTracked /\ HandlersTracked

LedgerInv == TypeOK /\ Tracked /\ OnlyFirstReportSettles

-----------------------------------------------------------------------------
(* Sequences: what the two ways of changing one do. *)

LEMMA AppendFacts ==
    ASSUME NEW S, NEW s \in Seq(S), NEW e \in S
    PROVE  /\ Append(s, e) \in Seq(S) /\ Len(Append(s, e)) = Len(s) + 1
           /\ DOMAIN Append(s, e) = 1..(Len(s) + 1) /\ DOMAIN s = 1..Len(s)
           /\ \A i \in DOMAIN s : Append(s, e)[i] = s[i]
           /\ Append(s, e)[Len(s) + 1] = e
  BY AppendProperties

LEMMA ChangeFacts ==
    ASSUME NEW S, NEW s \in Seq(S), NEW f, DOMAIN f = DOMAIN s,
           f = [i \in DOMAIN s |-> f[i]], \A i \in DOMAIN s : f[i] \in S
    PROVE  f \in Seq(S) /\ Len(f) = Len(s)
  <1>1. DOMAIN s = 1..Len(s) /\ Len(s) \in Nat
    BY LenProperties
  <1>2. f \in [1..Len(s) -> S]
    BY <1>1
  <1> QED
    BY <1>1, <1>2, LenProperties

LEMMA TailFacts ==
    ASSUME NEW S, NEW s \in Seq(S), s # <<>>
    PROVE  /\ Tail(s) \in Seq(S) /\ Head(s) \in S /\ 1 \in DOMAIN s /\ Head(s) = s[1]
           /\ \A k \in DOMAIN Tail(s) : k + 1 \in DOMAIN s /\ Tail(s)[k] = s[k + 1]
  BY HeadTailProperties, EmptySeq

LEMMA IdleTyped == Idle \in Handler /\ Idle.pc = "idle"
  <1>1. (CHOOSE u \in Users : TRUE) \in Users
    BY LedgerAssumption
  <1> QED
    BY <1>1 DEF Idle, Handler, Phases, NoTx, NoFlow

\* What a row, once there, keeps; and what a transaction keeps.
RowsKept ==
    \A i \in DOMAIN flows : /\ i \in DOMAIN flows' /\ flows'[i].op = flows[i].op
                            /\ flows'[i].main = flows[i].main /\ flows'[i].ref = flows[i].ref

TxsKept ==
    \A t \in DOMAIN chain : /\ t \in DOMAIN chain' /\ chain'[t].kind = chain[t].kind
                            /\ chain'[t].main = chain[t].main /\ chain'[t].ref = chain[t].ref

LEMMA SettlingKept ==
    ASSUME LedgerInv, UNCHANGED settling, RowsKept, TxsKept
    PROVE  SettlingTracked'
  <1> SUFFICES ASSUME settling # NoRow PROVE SettlingTracked'
    BY DEF SettlingTracked
  <1> DEFINE m == settling.item
             l == settling.lock
  <1>1. ItemTracked(m) /\ ItemTracked(m)'
    BY DEF LedgerInv, Tracked, SettlingTracked, ItemTracked, TxsKept
  <1>2. ASSUME l # NoRow
        PROVE  /\ LockFound(m)' /\ l.op = "Freeze" /\ l.main = flows'[LockOf(m)'].main
               /\ l.tx # NoTx => /\ l.tx \in DOMAIN chain'
                                 /\ chain'[l.tx].kind = "Freeze" /\ chain'[l.tx].main = l.main
               /\ l.ref = NoFlow
    BY <1>2 DEF LedgerInv, Tracked, SettlingTracked, LockFound, LockOf, RowsKept, TxsKept
  <1> QED
    BY <1>1, <1>2 DEF SettlingTracked, LockFound, LockOf

-----------------------------------------------------------------------------
(* The steps that leave the tables of rows and of transactions as they are. *)

LEMMA SameTables ==
    ASSUME LedgerInv, UNCHANGED <<flows, chain>>
    PROVE  /\ FlowsTracked' /\ TxsTracked' /\ OnlyFirstReportSettles'
           /\ RowsKept /\ TxsKept
  BY DEF LedgerInv, Tracked, FlowsTracked, TxsTracked, OnlyFirstReportSettles, RowsKept, TxsKept

LEMMA StutterStep ==
    ASSUME LedgerInv, UNCHANGED vars
    PROVE  LedgerInv'
  <1> USE DEF LedgerInv, vars, db
  <1>1. TypeOK'
    BY DEF TypeOK
  <1>2. ItemsTracked' /\ HandlersTracked'
    BY DEF Tracked, ItemsTracked, ItemTracked, HandlersTracked
  <1> QED
    BY <1>1, <1>2, SameTables, SettlingKept DEF Tracked

LEMMA QueryBalanceStep ==
    ASSUME LedgerInv, NEW u \in Users, QueryBalance(u)
    PROVE  LedgerInv'
  <1> USE DEF LedgerInv, QueryBalance, history
  <1>1. TypeOK'
    BY DEF TypeOK
  <1>2. ItemsTracked' /\ HandlersTracked'
    BY DEF Tracked, ItemsTracked, ItemTracked, HandlersTracked
  <1> QED
    BY <1>1, <1>2, SameTables, SettlingKept DEF Tracked

LEMMA ReportReadStep ==
    ASSUME LedgerInv, NEW r \in Req, NEW t \in DOMAIN chain, ReportRead(r, t)
    PROVE  LedgerInv'
  <1> USE DEF LedgerInv, db, history
  <1> DEFINE tx == chain[t]
  <1>1. PICK pc, row : /\ req' = [req EXCEPT ![r] = [pc |-> pc, main |-> tx.main, tx |-> t,
                                                   ref |-> tx.ref, row |-> row]]
                       /\ \/ pc = "report_tx" /\ tx.kind \in {"Recharge", "Withdraw"} /\ row = NoRow
                          \/ pc = "lock_save" /\ tx.kind = "Freeze" /\ row = flows[tx.ref]
                          \/ pc = "cancel_save" /\ tx.kind = "Unfreeze" /\ row = NoRow
                       /\ UNCHANGED <<account, flows, chain, work, updates, settling, guard, crashes,
                                      received, paid>>
    BY DEF ReportRead
  <1>2. tx \in Tx /\ t \in Nat
    BY LenProperties DEF TypeOK
  <1>3. tx.kind = "Freeze" => tx.ref \in DOMAIN flows /\ flows[tx.ref] \in Flow
                              /\ flows[tx.ref].op = "Freeze" /\ flows[tx.ref].main = tx.main
                              /\ flows[tx.ref].ref = NoFlow
    BY LenProperties DEF Tracked, TxsTracked, FlowsTracked, TypeOK
  <1>4. req'[r] \in Handler
    BY <1>1, <1>2, <1>3 DEF TypeOK, Handler, Phases, Tx
  <1>5. TypeOK'
    BY <1>1, <1>4 DEF TypeOK
  <1>6. HandlersTracked'
    BY <1>1, <1>2, <1>3 DEF Tracked, HandlersTracked, TypeOK
  <1>7. ItemsTracked'
    BY <1>1 DEF Tracked, ItemsTracked, ItemTracked
  <1> QED
    BY <1>1, <1>5, <1>6, <1>7, SameTables, SettlingKept DEF Tracked

LEMMA ReportAppendStep ==
    ASSUME LedgerInv, NEW r \in Req, ReportAppend(r)
    PROVE  LedgerInv'
  <1> USE DEF LedgerInv, ReportAppend, db, history
  <1> DEFINE m == [tx |-> req[r].tx, main |-> req[r].main, ref |-> req[r].ref,
                   op |-> chain[req[r].tx].kind]
  <1>1. work' = work \cup {m} /\ req' = [req EXCEPT ![r] = Idle]
    BY DEF AppendTopupTx
  <1>2. req[r] \in Handler /\ req[r].tx \in DOMAIN chain
        /\ req[r].main = chain[req[r].tx].main /\ chain[req[r].tx] \in Tx
    BY LenProperties DEF Tracked, HandlersTracked, TypeOK
  <1>3. m \in Item
    BY <1>2 DEF Item, Handler, Tx
  <1>4. TypeOK'
    BY <1>1, <1>3, IdleTyped DEF TypeOK
  <1>5. ItemsTracked'
    BY <1>1, <1>2 DEF Tracked, ItemsTracked, ItemTracked
  <1>6. HandlersTracked'
    BY <1>1, IdleTyped DEF Tracked, HandlersTracked, TypeOK
  <1> QED
    BY <1>4, <1>5, <1>6, SameTables, SettlingKept DEF Tracked

LEMMA RequestGuardStep ==
    ASSUME LedgerInv, NEW r \in Req,
           \/ \E u \in Users : WithdrawRequestEnter(r, u)
           \/ WithdrawRequestCheck(r) \/ WithdrawRequestRollback(r) \/ WithdrawRequestLeave(r)
    PROVE  LedgerInv'
  <1> USE DEF LedgerInv, db, history
  <1>1. /\ UNCHANGED <<account, flows, chain, work, updates, settling, crashes, received, paid>>
        /\ guard' \subseteq guard \cup Users
        /\ \E h \in Handler : /\ req' = [req EXCEPT ![r] = h]
                             /\ h.pc \in {"idle", "request_check", "request_tx", "request_leave"}
    <2>1. CASE \E u \in Users : WithdrawRequestEnter(r, u)
      <3>1. PICK u \in Users : WithdrawRequestEnter(r, u)
        BY <2>1
      <3> DEFINE h == [Idle EXCEPT !.pc = IF u \in guard THEN "request_leave" ELSE "request_check",
                                   !.main = u]
      <3>2. h \in Handler /\ h.pc \in {"request_check", "request_leave"}
        BY IdleTyped DEF Handler, Phases
      <3>3. req' = [req EXCEPT ![r] = h]
        BY <3>1 DEF WithdrawRequestEnter
      <3> QED
        BY <3>1, <3>2, <3>3 DEF WithdrawRequestEnter
    <2>2. CASE WithdrawRequestCheck(r) \/ WithdrawRequestRollback(r)
      <3> DEFINE to(pc) == [req[r] EXCEPT !.pc = pc]
      <3>1. \E pc \in {"request_tx", "request_leave"} :
                req' = [req EXCEPT ![r] = to(pc)]
        BY <2>2 DEF WithdrawRequestCheck, WithdrawRequestRollback
      <3>2. \A pc \in {"request_tx", "request_leave"} : to(pc) \in Handler /\ to(pc).pc = pc
        BY DEF TypeOK, Handler, Phases
      <3> QED
        BY <2>2, <3>1, <3>2 DEF WithdrawRequestCheck, WithdrawRequestRollback
    <2>3. CASE WithdrawRequestLeave(r)
      BY <2>3, IdleTyped DEF WithdrawRequestLeave
    <2> QED
      BY <2>1, <2>2, <2>3
  <1>2. TypeOK'
    BY <1>1 DEF TypeOK
  <1>3. HandlersTracked' /\ ItemsTracked'
    BY <1>1 DEF Tracked, HandlersTracked, ItemsTracked, ItemTracked, TypeOK
  <1> QED
    BY <1>1, <1>2, <1>3, SameTables, SettlingKept DEF Tracked

LEMMA HandleTopupStep ==
    ASSUME LedgerInv, NEW m \in work, HandleTopup(m)
    PROVE  LedgerInv'
  <1> USE DEF LedgerInv, HandleTopup, db, history
  <1>1. m \in Item /\ ItemTracked(m)
    BY DEF TypeOK, Tracked, ItemsTracked
  <1>2. updates' \in Seq(Item) /\ \A k \in DOMAIN updates' : ItemTracked(updates'[k])
    <2>1. CASE updates' = updates
      BY <2>1 DEF TypeOK, Tracked, ItemsTracked
    <2>2. CASE updates' = Append(updates, m)
      BY <2>2, <1>1, AppendFacts DEF TypeOK, Tracked, ItemsTracked
    <2> QED
      BY <2>1, <2>2
  <1>3. TypeOK'
    BY <1>2 DEF TypeOK
  <1>4. ItemsTracked' /\ HandlersTracked'
    BY <1>2 DEF Tracked, ItemsTracked, ItemTracked, HandlersTracked
  <1> QED
    BY <1>3, <1>4, SameTables, SettlingKept DEF Tracked

LEMMA CheckTxStep ==
    ASSUME LedgerInv, CheckTx
    PROVE  LedgerInv'
  <1> USE DEF LedgerInv, db, history
  <1>1. PICK S \in SUBSET PendingFlows :
            work' = work \cup {CheckItem(i) : i \in {j \in S : Rechecked(j)}}
    BY DEF CheckTx
  <1>2. ASSUME NEW i \in S, Rechecked(i)
        PROVE  CheckItem(i) \in Item /\ ItemTracked(CheckItem(i))
    <2>1. i \in DOMAIN flows /\ i \in Nat /\ flows[i] \in Flow /\ flows[i].tx # NoTx
      BY <1>2, LenProperties DEF PendingFlows, TypeOK, Rechecked
    <2> QED
      BY <2>1 DEF CheckItem, Item, Flow, Tracked, FlowsTracked, ItemTracked
  <1>3. TypeOK'
    BY <1>1, <1>2 DEF TypeOK, CheckTx
  <1>4. ItemsTracked' /\ HandlersTracked'
    BY <1>1, <1>2 DEF CheckTx, Tracked, ItemsTracked, ItemTracked, HandlersTracked
  <1> QED
    BY <1>3, <1>4, SameTables, SettlingKept DEF Tracked, CheckTx

LEMMA CrashStep ==
    ASSUME LedgerInv, Crash
    PROVE  LedgerInv'
  <1> USE DEF LedgerInv, Crash, db, history
  <1>1. TypeOK'
    BY IdleTyped DEF TypeOK
  <1>2. ItemsTracked' /\ HandlersTracked'
    BY IdleTyped DEF ItemsTracked, HandlersTracked
  <1>3. SettlingTracked'
    BY DEF SettlingTracked
  <1> QED
    BY <1>1, <1>2, <1>3, SameTables DEF Tracked

-----------------------------------------------------------------------------
(* The chain: transactions are added and mined, never changed. *)

LEMMA ChainGrows ==
    ASSUME LedgerInv, chain' \in Seq(Tx),
           UNCHANGED <<account, flows, work, updates, settling, req, guard, crashes, received, paid>>,
           TxsKept,
           \A t \in DOMAIN chain' :
               IF chain'[t].kind = "Recharge" THEN chain'[t].ref = NoFlow
               ELSE /\ chain'[t].ref \in DOMAIN flows /\ flows[chain'[t].ref].op = "Freeze"
                    /\ flows[chain'[t].ref].main = chain'[t].main
    PROVE  LedgerInv'
  <1>1. TypeOK' /\ OnlyFirstReportSettles'
    BY DEF LedgerInv, TypeOK, OnlyFirstReportSettles
  <1>2. FlowsTracked' /\ TxsTracked'
    BY DEF LedgerInv, Tracked, FlowsTracked, TxsTracked, TxsKept
  <1>3. ItemsTracked' /\ HandlersTracked'
    BY DEF LedgerInv, Tracked, ItemsTracked, ItemTracked, HandlersTracked, TxsKept
  <1>4. SettlingTracked'
    BY SettlingKept DEF RowsKept
  <1> QED
    BY <1>1, <1>2, <1>3, <1>4 DEF LedgerInv, Tracked

LEMMA SendStep ==
    ASSUME LedgerInv, NEW u \in Users, SendDeposit(u) \/ SendLockTx(u)
    PROVE  LedgerInv'
  <1>1. PICK kind \in Ops, f \in Nat, a \in Nat :
           /\ Send(kind, u, f, a)
           /\ IF kind = "Recharge" THEN f = NoFlow
              ELSE f \in DOMAIN flows /\ flows[f].op = "Freeze" /\ flows[f].main = u
    <2>1. CASE SendDeposit(u)
      BY <2>1, LedgerAssumption DEF SendDeposit, Ops, NoFlow
    <2>2. CASE SendLockTx(u)
      <3>1. PICK f \in DOMAIN flows :
               /\ flows[f].op = "Freeze" /\ flows[f].main = u
               /\ \E kind \in {"Freeze", "Withdraw", "Unfreeze"} : Send(kind, u, f, flows[f].real)
        BY <2>2 DEF SendLockTx
      <3>2. f \in Nat /\ flows[f] \in Flow
        BY LenProperties DEF LedgerInv, TypeOK
      <3> QED
        BY <3>1, <3>2 DEF Ops, Flow
    <2> QED
      BY <2>1, <2>2
  <1> DEFINE e == [kind |-> kind, main |-> u, ref |-> f, amount |-> a, status |-> "pending"]
  <1>2. e \in Tx
    BY DEF Tx
  <1>3. chain' = Append(chain, e) /\ chain \in Seq(Tx)
    BY <1>1 DEF Send, LedgerInv, TypeOK
  <1>4. /\ chain' \in Seq(Tx) /\ DOMAIN chain' = 1..(Len(chain) + 1) /\ Len(chain) \in Nat
        /\ \A t \in DOMAIN chain : t \in DOMAIN chain' /\ chain'[t] = chain[t]
        /\ chain'[Len(chain) + 1] = e /\ DOMAIN chain = 1..Len(chain)
    BY <1>2, <1>3, AppendFacts, LenProperties
  <1>5. \A t \in DOMAIN chain' : t \in DOMAIN chain \/ t = Len(chain) + 1
    BY <1>4
  <1> QED
    BY <1>1, <1>4, <1>5, ChainGrows DEF Send, db, history, LedgerInv, Tracked, TxsTracked, TxsKept

LEMMA MineStep ==
    ASSUME LedgerInv, NEW t \in DOMAIN chain, Mine(t)
    PROVE  LedgerInv'
  <1>1. PICK s \in {"success", "failed"} : chain' = [chain EXCEPT ![t].status = s]
    BY DEF Mine
  <1>2. chain \in Seq(Tx) /\ \A k \in DOMAIN chain : chain[k] \in Tx
    BY LenProperties DEF LedgerInv, TypeOK
  <1>3. /\ DOMAIN chain' = DOMAIN chain /\ chain' = [k \in DOMAIN chain |-> chain'[k]]
        /\ \A k \in DOMAIN chain : /\ chain'[k] \in Tx /\ chain'[k].kind = chain[k].kind
                                   /\ chain'[k].main = chain[k].main /\ chain'[k].ref = chain[k].ref
    BY <1>1, <1>2 DEF Tx
  <1>4. chain' \in Seq(Tx)
    BY <1>2, <1>3, ChangeFacts
  <1> QED
    BY <1>3, <1>4, ChainGrows DEF Mine, db, history, LedgerInv, Tracked, TxsTracked, TxsKept

-----------------------------------------------------------------------------
(* A row is added: it is Pending, and the last of those with its hash. *)

LEMMA RowAdded ==
    ASSUME LedgerInv, NEW f \in Flow, flows' = Append(flows, f), chain' = chain,
           f.status = "Pending", f.op # "Freeze" => f.tx # NoTx,
           f.tx # NoTx => /\ f.tx \in DOMAIN chain /\ chain[f.tx].kind = f.op
                          /\ chain[f.tx].main = f.main,
           f.op = "Freeze" => f.ref = NoFlow,
           f.ref # NoFlow => /\ f.ref \in DOMAIN flows /\ flows[f.ref].op = "Freeze"
                             /\ flows[f.ref].main = f.main
    PROVE  /\ flows' \in Seq(Flow) /\ FlowsTracked' /\ TxsTracked' /\ OnlyFirstReportSettles'
           /\ RowsKept /\ TxsKept /\ Len(flows') \in Nat
  <1>1. flows \in Seq(Flow)
    BY DEF LedgerInv, TypeOK
  <1>2. /\ flows' \in Seq(Flow) /\ Len(flows') = Len(flows) + 1 /\ Len(flows) \in Nat
        /\ DOMAIN flows' = 1..(Len(flows) + 1) /\ DOMAIN flows = 1..Len(flows)
        /\ \A i \in DOMAIN flows : i \in DOMAIN flows' /\ flows'[i] = flows[i]
        /\ flows'[Len(flows) + 1] = f
    BY <1>1, AppendFacts, LenProperties
  <1>3. FlowsTracked'
    BY <1>2 DEF LedgerInv, Tracked, FlowsTracked
  <1>4. TxsTracked'
    BY <1>2 DEF LedgerInv, Tracked, TxsTracked
  <1>5. OnlyFirstReportSettles'
    <2> SUFFICES ASSUME NEW i \in DOMAIN flows', NEW j \in DOMAIN flows', i < j,
                        flows'[i].op # "Freeze", flows'[i].main = flows'[j].main,
                        flows'[i].tx = flows'[j].tx
                 PROVE  flows'[j].status = "Pending"
      BY DEF OnlyFirstReportSettles
    <2>1. CASE j = Len(flows) + 1
      BY <2>1, <1>2
    <2>2. CASE j \in DOMAIN flows
      <3>1. i \in DOMAIN flows
        BY <2>2, <1>2
      <3> QED
        BY <2>2, <3>1, <1>2 DEF LedgerInv, OnlyFirstReportSettles
    <2> QED
      BY <2>1, <2>2, <1>2
  <1>6. RowsKept /\ TxsKept
    BY <1>2 DEF RowsKept, TxsKept
  <1> QED
    BY <1>2, <1>3, <1>4, <1>5, <1>6

\* The other handlers only rely on rows that stay as they were.
LEMMA OtherHandlers ==
    ASSUME LedgerInv, NEW r \in Req, NEW h, req' = [req EXCEPT ![r] = h], chain' = chain,
           RowsKept,
           h.pc \in {"idle", "append", "request_leave"},
           h.pc = "append" => h.tx \in DOMAIN chain /\ h.main = chain[h.tx].main
    PROVE  HandlersTracked'
  <1> SUFFICES ASSUME NEW q \in Req,
                      req'[q].pc \in {"lock_save", "cancel_save", "report_tx", "append"}
               PROVE  LET g == req'[q] IN
                      /\ g.tx \in DOMAIN chain' /\ g.main = chain'[g.tx].main
                      /\ g.pc \in {"cancel_save", "report_tx"} => g.ref = chain'[g.tx].ref
                      /\ g.pc = "cancel_save" => chain'[g.tx].kind = "Unfreeze"
                      /\ g.pc = "report_tx" => chain'[g.tx].kind \in {"Recharge", "Withdraw"}
                      /\ g.pc = "lock_save" =>
                            /\ chain'[g.tx].kind = "Freeze" /\ g.ref \in DOMAIN flows'
                            /\ flows'[g.ref].op = "Freeze" /\ g.row \in Flow
                            /\ g.row.op = "Freeze" /\ g.row.main = g.main
                            /\ flows'[g.ref].main = g.main /\ g.row.ref = NoFlow
    BY DEF HandlersTracked
  <1>1. CASE q = r
    BY <1>1 DEF LedgerInv, TypeOK
  <1>2. CASE q # r
    BY <1>2 DEF LedgerInv, TypeOK, Tracked, HandlersTracked, RowsKept
  <1> QED
    BY <1>1, <1>2

LEMMA NewReportStep ==
    ASSUME LedgerInv, NEW r \in Req, ReportCancelSave(r) \/ ReportCommit(r)
    PROVE  LedgerInv'
  <1> DEFINE h == req[r]
  <1>1. h \in Handler /\ h.tx \in DOMAIN chain /\ h.tx \in Nat /\ h.tx # NoTx
        /\ h.main = chain[h.tx].main /\ chain[h.tx] \in Tx
        /\ (h.pc = "cancel_save" => chain[h.tx].kind = "Unfreeze")
        /\ (h.pc = "report_tx" => chain[h.tx].kind \in {"Recharge", "Withdraw"})
        /\ h.ref = chain[h.tx].ref
    <2>1. h.pc \in {"cancel_save", "report_tx"} /\ h \in Handler
      BY DEF ReportCancelSave, ReportCommit, LedgerInv, TypeOK
    <2>2. /\ h.tx \in DOMAIN chain /\ h.main = chain[h.tx].main
          /\ (h.pc = "cancel_save" => chain[h.tx].kind = "Unfreeze")
          /\ (h.pc = "report_tx" => chain[h.tx].kind \in {"Recharge", "Withdraw"})
          /\ h.ref = chain[h.tx].ref
      BY <2>1 DEF LedgerInv, Tracked, HandlersTracked
    <2>3. chain \in Seq(Tx)
      BY DEF LedgerInv, TypeOK
    <2>4. DOMAIN chain = 1..Len(chain) /\ Len(chain) \in Nat
      BY <2>3, LenProperties
    <2> QED
      BY <2>1, <2>2, <2>3, <2>4 DEF NoTx
  <1>2. UNCHANGED <<account, chain, work, updates, settling, guard, crashes, received, paid>>
    BY DEF ReportCancelSave, ReportCommit, history
  <1>3. CASE flows' = flows /\ req' = [req EXCEPT ![r] = Idle]
    <2>1. TypeOK'
      BY <1>2, <1>3, IdleTyped DEF LedgerInv, TypeOK
    <2>2. HandlersTracked'
      BY <1>2, <1>3, IdleTyped, OtherHandlers, SameTables
    <2>3. ItemsTracked'
      BY <1>2 DEF LedgerInv, Tracked, ItemsTracked, ItemTracked
    <2> QED
      BY <1>2, <1>3, <2>1, <2>2, <2>3, SameTables, SettlingKept DEF LedgerInv, Tracked
  <1>4. CASE ~(flows' = flows /\ req' = [req EXCEPT ![r] = Idle])
    <2> DEFINE f == [main |-> h.main, op |-> chain[h.tx].kind, status |-> "Pending", real |-> 0,
                     tx |-> h.tx, ref |-> h.ref, chainID |-> TRUE]
               g == [req[r] EXCEPT !.pc = "append", !.ref = Len(flows')]
    <2>1. flows' = Append(flows, f) /\ req' = [req EXCEPT ![r] = g]
      BY <1>1, <1>4 DEF ReportCancelSave, ReportCommit, NewFlow
    <2>2. f \in Flow /\ f.op # "Freeze"
      BY <1>1, <1>4 DEF Flow, Statuses, Handler, Tx, ReportCancelSave, ReportCommit
    <2>3. /\ flows' \in Seq(Flow) /\ FlowsTracked' /\ TxsTracked' /\ OnlyFirstReportSettles'
          /\ RowsKept /\ TxsKept /\ Len(flows') \in Nat
      <3>1. /\ f.status = "Pending" /\ f.tx # NoTx /\ f.tx \in DOMAIN chain
            /\ chain[f.tx].kind = f.op /\ chain[f.tx].main = f.main
        BY <1>1
      <3>2. f.ref # NoFlow => /\ f.ref \in DOMAIN flows /\ flows[f.ref].op = "Freeze"
                              /\ flows[f.ref].main = f.main
        BY <1>1 DEF LedgerInv, Tracked, TxsTracked
      <3> HIDE DEF f
      <3> QED
        BY <1>2, <2>1, <2>2, <3>1, <3>2, RowAdded
    <2>4. g \in Handler /\ g.pc = "append" /\ g.tx = h.tx /\ g.main = h.main
      BY <1>1, <2>3 DEF Handler, Phases
    <2>5. TypeOK'
      BY <1>2, <2>1, <2>3, <2>4 DEF LedgerInv, TypeOK
    <2>6. HandlersTracked'
      <3> HIDE DEF g
      <3> QED
        BY <1>1, <1>2, <2>1, <2>3, <2>4, OtherHandlers
    <2>7. ItemsTracked'
      BY <1>2 DEF LedgerInv, Tracked, ItemsTracked, ItemTracked
    <2>8. SettlingTracked'
      BY <1>2, <2>3, SettlingKept
    <2> QED
      BY <2>3, <2>5, <2>6, <2>7, <2>8 DEF LedgerInv, Tracked
  <1> QED
    BY <1>3, <1>4

LEMMA WithdrawRequestCommitStep ==
    ASSUME LedgerInv, NEW r \in Req, WithdrawRequestCommit(r)
    PROVE  LedgerInv'
  <1> DEFINE u == req[r].main
             g == [req[r] EXCEPT !.pc = "request_leave"]
  <1>1. PICK a \in Amounts : /\ account[u].available >= a
                             /\ account' = [account EXCEPT ![u].available = @ - a,
                                                           ![u].withdrawal = @ + a]
                             /\ NewFlow(u, "Freeze", a, NoTx, NoFlow, FALSE)
    BY DEF WithdrawRequestCommit
  <1> DEFINE f == [main |-> u, op |-> "Freeze", status |-> "Pending", real |-> a,
                   tx |-> NoTx, ref |-> NoFlow, chainID |-> FALSE]
  <1>2. req[r] \in Handler /\ a \in Nat /\ u \in Users
    BY LedgerAssumption DEF LedgerInv, TypeOK, Handler
  <1>3. UNCHANGED <<chain, work, updates, settling, guard, crashes, received, paid>>
        /\ req' = [req EXCEPT ![r] = g] /\ flows' = Append(flows, f)
    BY <1>1 DEF WithdrawRequestCommit, history, NewFlow
  <1>4. f \in Flow
    BY <1>2 DEF Flow, Ops, Statuses, NoTx, NoFlow
  <1>5. /\ flows' \in Seq(Flow) /\ FlowsTracked' /\ TxsTracked' /\ OnlyFirstReportSettles'
        /\ RowsKept /\ TxsKept
    <2>1. f.status = "Pending" /\ f.op = "Freeze" /\ f.tx = NoTx /\ f.ref = NoFlow
      OBVIOUS
    <2> HIDE DEF f
    <2> QED
      BY <1>3, <1>4, <2>1, RowAdded
  <1>6. account' \in [Users -> [exists : BOOLEAN, available : Nat, withdrawal : Nat]]
    <2> DEFINE row == [account[u] EXCEPT !.available = @ - a, !.withdrawal = @ + a]
    <2>1. account \in [Users -> [exists : BOOLEAN, available : Nat, withdrawal : Nat]]
      BY DEF LedgerInv, TypeOK
    <2>2. account' = [account EXCEPT ![u] = row]
      BY <1>1, <1>2, <2>1
    <2>3. row \in [exists : BOOLEAN, available : Nat, withdrawal : Nat]
      <3>1. account[u] \in [exists : BOOLEAN, available : Nat, withdrawal : Nat]
        BY <1>2, <2>1
      <3>2. account[u].available - a \in Nat /\ account[u].withdrawal + a \in Nat
        BY <1>1, <1>2, <3>1
      <3> QED
        BY <3>1, <3>2
    <2> HIDE DEF row
    <2> QED
      BY <2>1, <2>2, <2>3
  <1>7. g \in Handler /\ g.pc = "request_leave"
    BY <1>2 DEF Handler, Phases
  <1>8. TypeOK'
    BY <1>3, <1>5, <1>6, <1>7 DEF LedgerInv, TypeOK
  <1>9. HandlersTracked'
    <2> HIDE DEF g
    <2> QED
      BY <1>3, <1>5, <1>7, OtherHandlers
  <1>10. ItemsTracked'
    BY <1>3 DEF LedgerInv, Tracked, ItemsTracked, ItemTracked
  <1>11. SettlingTracked'
    BY <1>3, <1>5, SettlingKept
  <1> QED
    BY <1>5, <1>8, <1>9, <1>10, <1>11 DEF LedgerInv, Tracked

-----------------------------------------------------------------------------
(* Rows are changed in place: their owners and operations stay. *)

LEMMA RowsChanged ==
    ASSUME LedgerInv, chain' = chain, DOMAIN flows' = DOMAIN flows,
           flows' = [i \in DOMAIN flows |-> flows'[i]],
           \A i \in DOMAIN flows : /\ flows'[i] \in Flow /\ flows'[i].op = flows[i].op
                                   /\ flows'[i].main = flows[i].main
                                   /\ flows'[i].ref = flows[i].ref
    PROVE  flows' \in Seq(Flow) /\ TxsTracked' /\ RowsKept /\ TxsKept
  <1>1. flows \in Seq(Flow)
    BY DEF LedgerInv, TypeOK
  <1>2. flows' \in Seq(Flow)
    BY <1>1, ChangeFacts
  <1>3. TxsTracked'
    BY DEF LedgerInv, Tracked, TxsTracked
  <1>4. RowsKept /\ TxsKept
    BY DEF RowsKept, TxsKept
  <1> QED
    BY <1>2, <1>3, <1>4

LEMMA ReportLockSaveStep ==
    ASSUME LedgerInv, NEW r \in Req, ReportLockSave(r)
    PROVE  LedgerInv'
  <1> DEFINE h == req[r]
             f == [h.row EXCEPT !.tx = h.tx]
             g == [req[r] EXCEPT !.pc = "append", !.row = NoRow]
  <1>1. /\ h \in Handler /\ h.tx \in DOMAIN chain /\ h.main = chain[h.tx].main
        /\ chain[h.tx].kind = "Freeze" /\ h.ref \in DOMAIN flows /\ flows[h.ref].op = "Freeze"
        /\ h.row \in Flow /\ h.row.op = "Freeze" /\ h.row.main = h.main
        /\ flows[h.ref].main = h.main /\ h.row.ref = NoFlow /\ flows[h.ref].ref = NoFlow
    BY DEF LedgerInv, TypeOK, Tracked, HandlersTracked, FlowsTracked, ReportLockSave
  <1>2. /\ UNCHANGED <<account, chain, work, updates, settling, guard, crashes, received, paid>>
        /\ flows' = [flows EXCEPT ![h.ref] = f] /\ req' = [req EXCEPT ![r] = g]
    BY DEF ReportLockSave, history, LedgerInv, TypeOK
  <1>3. /\ f \in Flow /\ f.op = "Freeze" /\ f.main = h.main /\ f.tx = h.tx /\ f.ref = NoFlow
    BY <1>1 DEF Flow, Handler
  <1>4. g \in Handler /\ g.pc = "append" /\ g.tx = h.tx /\ g.main = h.main
    BY <1>1 DEF Handler, Phases
  <1>5. flows \in Seq(Flow) /\ \A i \in DOMAIN flows : flows[i] \in Flow /\ i \in Nat
    BY LenProperties DEF LedgerInv, TypeOK
  <1> HIDE DEF f, g, h
  <1>6. /\ DOMAIN flows' = DOMAIN flows /\ flows' = [i \in DOMAIN flows |-> flows'[i]]
        /\ flows'[h.ref] = f
        /\ \A i \in DOMAIN flows : i # h.ref => flows'[i] = flows[i]
    BY <1>1, <1>2, <1>5
  <1>7. \A i \in DOMAIN flows : /\ flows'[i] \in Flow /\ flows'[i].op = flows[i].op
                                /\ flows'[i].main = flows[i].main
                                /\ flows'[i].ref = flows[i].ref
    BY <1>1, <1>3, <1>5, <1>6
  <1>8. flows' \in Seq(Flow) /\ TxsTracked' /\ RowsKept /\ TxsKept
    BY <1>2, <1>6, <1>7, RowsChanged
  <1>9. FlowsTracked'
    BY <1>1, <1>2, <1>3, <1>6, <1>7 DEF LedgerInv, Tracked, FlowsTracked
  <1>10. OnlyFirstReportSettles'
    <2> SUFFICES ASSUME NEW i \in DOMAIN flows, NEW j \in DOMAIN flows, i < j,
                        flows'[i].op # "Freeze", flows'[i].main = flows'[j].main,
                        flows'[i].tx = flows'[j].tx
                 PROVE  flows'[j].status = "Pending"
      BY <1>6 DEF OnlyFirstReportSettles
    <2>1. i # h.ref
      BY <1>3, <1>6
    <2>2. chain[flows[i].tx].kind # "Freeze" /\ flows'[i] = flows[i]
      BY <2>1, <1>6 DEF LedgerInv, Tracked, FlowsTracked
    <2>3. j # h.ref
      BY <2>2, <1>1, <1>3, <1>6
    <2> QED
      BY <2>2, <2>3, <1>6 DEF LedgerInv, OnlyFirstReportSettles
  <1>11. TypeOK'
    BY <1>2, <1>4, <1>8 DEF LedgerInv, TypeOK
  <1>12. HandlersTracked'
    BY <1>1, <1>2, <1>4, <1>8, OtherHandlers
  <1>13. ItemsTracked'
    BY <1>2 DEF LedgerInv, Tracked, ItemsTracked, ItemTracked
  <1>14. SettlingTracked'
    BY <1>2, <1>8, SettlingKept
  <1> QED
    BY <1>8, <1>9, <1>10, <1>11, <1>12, <1>13, <1>14 DEF LedgerInv, Tracked

-----------------------------------------------------------------------------
(* Settling an update. *)

\* Taking an update off the channel keeps a copy of the lock row as it is.
LEMMA TakeUpdateStep ==
    ASSUME LedgerInv, TakeUpdate
    PROVE  LedgerInv'
  <1> USE DEF LedgerInv, TakeUpdate, db, history
  <1> DEFINE m == Head(updates)
  <1>1. updates \in Seq(Item) /\ flows \in Seq(Flow)
    BY DEF TypeOK
  <1>2. /\ Tail(updates) \in Seq(Item) /\ Head(updates) \in Item
        /\ 1 \in DOMAIN updates /\ Head(updates) = updates[1]
        /\ \A k \in DOMAIN Tail(updates) : k + 1 \in DOMAIN updates
                                           /\ Tail(updates)[k] = updates[k + 1]
    BY <1>1, TailFacts
  <1>3. ItemTracked(m) /\ \A k \in DOMAIN Tail(updates) : ItemTracked(Tail(updates)[k])
    BY <1>2 DEF Tracked, ItemsTracked
  <1>4. ItemsTracked' /\ HandlersTracked'
    BY <1>3 DEF Tracked, ItemsTracked, ItemTracked, HandlersTracked
  <1>5. PICK n, l : /\ settling' = [item |-> n, lock |-> l] /\ n = m
                    /\ l # NoRow => LockFound(n) /\ l = flows[LockOf(n)]
    BY DEF TakeUpdate
  <1>6. \A i \in DOMAIN flows : flows[i] \in Flow /\ i \in Nat
    BY <1>1, LenProperties
  <1>7. settling' \in Settling
    <2>1. l \in Flow \cup {NoRow}
      BY <1>5, <1>6 DEF LockFound
    <2> QED
      BY <1>2, <1>5, <2>1 DEF Settling
  <1>8. TypeOK'
    BY <1>2, <1>7 DEF TypeOK
  <1>9. SettlingTracked'
    <2>1. ASSUME l # NoRow
          PROVE  l.op = "Freeze" /\ l.ref = NoFlow
                 /\ (l.tx # NoTx => /\ l.tx \in DOMAIN chain /\ chain[l.tx].kind = "Freeze"
                                    /\ chain[l.tx].main = l.main)
      <3>1. n.ref \in DOMAIN flows /\ flows[n.ref].ref \in DOMAIN flows /\ l = flows[flows[n.ref].ref]
        BY <1>5, <2>1 DEF LockFound, LockOf
      <3>2. flows[n.ref].ref # NoFlow
        BY <1>1, <3>1, LenProperties DEF NoFlow
      <3>3. l.op = "Freeze"
        BY <3>1, <3>2 DEF Tracked, FlowsTracked
      <3> QED
        BY <3>1, <3>3 DEF Tracked, FlowsTracked
    <2>2. ItemTracked(n)'
      BY <1>3, <1>5 DEF ItemTracked
    <2> QED
      BY <1>5, <2>1, <2>2 DEF SettlingTracked, LockFound, LockOf
  <1> QED
    BY <1>4, <1>8, <1>9, SameTables DEF Tracked

\* A balance moves by da and dw, both columns staying above zero.
LEMMA BalanceMoved ==
    ASSUME TypeOK, NEW u \in Users, NEW da \in Int, NEW dw \in Int, MoveBalance(u, da, dw),
           account[u].available + da \in Nat, account[u].withdrawal + dw \in Nat
    PROVE  /\ account' \in [Users -> [exists : BOOLEAN, available : Nat, withdrawal : Nat]]
           /\ account'[u].available = account[u].available + da
           /\ account'[u].withdrawal = account[u].withdrawal + dw
           /\ \A v \in Users : v # u => account'[v] = account[v]
  <1> DEFINE row == [account[u] EXCEPT !.exists = TRUE, !.available = @ + da,
                                       !.withdrawal = @ + dw]
  <1>1. account \in [Users -> [exists : BOOLEAN, available : Nat, withdrawal : Nat]]
    BY DEF TypeOK
  <1>2. account[u] \in [exists : BOOLEAN, available : Nat, withdrawal : Nat]
    BY <1>1
  <1>3. account' = [account EXCEPT ![u] = row]
    BY <1>1 DEF MoveBalance
  <1>4. /\ row \in [exists : BOOLEAN, available : Nat, withdrawal : Nat]
        /\ row.available = account[u].available + da /\ row.withdrawal = account[u].withdrawal + dw
    BY <1>2
  <1> HIDE DEF row
  <1> QED
    BY <1>1, <1>3, <1>4

\* What booking a mined transaction does to one user's account.
LEMMA BookMoves ==
    ASSUME TypeOK, NEW m \in Item, chain[m.tx] \in Tx, Covered(m), Book(m)
    PROVE  /\ account' \in [Users -> [exists : BOOLEAN, available : Nat, withdrawal : Nat]]
           /\ received' \in [Users -> Nat] /\ paid' \in [Users -> Nat]
           /\ \A v \in Users :
                  account'[v].available + account'[v].withdrawal + paid'[v] - received'[v]
                    = account[v].available + account[v].withdrawal + paid[v] - received[v]
  <1> DEFINE u == m.main
             a == chain[m.tx].amount
  <1>1. u \in Users /\ a \in Nat /\ m.op \in Ops
    BY DEF Item, Tx
  <1>2. /\ account \in [Users -> [exists : BOOLEAN, available : Nat, withdrawal : Nat]]
        /\ received \in [Users -> Nat] /\ paid \in [Users -> Nat]
    BY DEF TypeOK
  <1>3. account[u].available \in Nat /\ account[u].withdrawal \in Nat
    BY <1>1, <1>2
  <1>4. CASE UNCHANGED <<account, received, paid>>
    BY <1>2, <1>4
  <1>5. CASE m.op = "Freeze" /\ MoveBalance(u, 0, 0) /\ UNCHANGED history
    <2>1. account[u].available + 0 \in Nat /\ account[u].withdrawal + 0 \in Nat /\ 0 \in Int
      BY <1>3
    <2>2. /\ account' \in [Users -> [exists : BOOLEAN, available : Nat, withdrawal : Nat]]
          /\ account'[u].available = account[u].available + 0
          /\ account'[u].withdrawal = account[u].withdrawal + 0
          /\ \A v \in Users : v # u => account'[v] = account[v]
      BY <1>1, <1>5, <2>1, BalanceMoved
    <2> QED
      BY <1>1, <1>2, <1>3, <1>5, <2>2 DEF history
  <1>6. CASE /\ m.op = "Recharge" /\ MoveBalance(u, a, 0)
             /\ received' = [received EXCEPT ![u] = @ + a] /\ UNCHANGED paid
    BY <1>1, <1>2, <1>3, <1>6, BalanceMoved
  <1>7. CASE /\ m.op = "Withdraw" /\ MoveBalance(u, 0, -a) /\ chain[m.tx].status = "success"
             /\ paid' = [paid EXCEPT ![u] = @ + a] /\ UNCHANGED received
    <2>1. account[u].withdrawal + (-a) \in Nat
      BY <1>1, <1>3, <1>7 DEF Covered, NeedsLock
    <2> QED
      BY <1>1, <1>2, <1>3, <1>7, <2>1, BalanceMoved
  <1>8. CASE /\ m.op = "Unfreeze" /\ MoveBalance(u, a, -a) /\ chain[m.tx].status = "success"
             /\ UNCHANGED history
    <2>1. account[u].withdrawal + (-a) \in Nat
      BY <1>1, <1>3, <1>8 DEF Covered, NeedsLock
    <2> QED
      BY <1>1, <1>2, <1>3, <1>8, <2>1, BalanceMoved DEF history
  <1> QED
    BY <1>4, <1>5, <1>6, <1>7, <1>8 DEF Book, history

\* The update being settled is about a transaction on chain.
LEMMA SettlingItem ==
    ASSUME LedgerInv, settling # NoRow
    PROVE  /\ settling.item \in Item /\ ItemTracked(settling.item)
           /\ chain[settling.item.tx] \in Tx
  <1>1. settling.item \in Item /\ chain \in Seq(Tx)
    BY DEF LedgerInv, TypeOK, Settling
  <1>2. ItemTracked(settling.item)
    BY DEF LedgerInv, Tracked, SettlingTracked
  <1> QED
    BY <1>1, <1>2, LenProperties DEF ItemTracked

\* What settling an update does to the rows: the flow it is about gets its status
\* and amount, the lock it closes the columns it was read with; the rest stays.
LEMMA RowsSettled ==
    ASSUME LedgerInv, settling # NoRow, NEW i \in DOMAIN flows,
           Applies(settling.item, i), Settle(settling.item, i)
    PROVE  LET m == settling.item  l == settling.lock IN
           /\ DOMAIN flows' = DOMAIN flows /\ flows' = [j \in DOMAIN flows |-> flows'[j]]
           /\ flows'[i] = [flows[i] EXCEPT !.status = SettledStatus(m), !.chainID = TRUE,
                                           !.real = chain[m.tx].amount]
           /\ \A j \in DOMAIN flows : j # i =>
                 \/ flows'[j] = flows[j]
                 \/ ClosesLock(m, j) /\ flows'[j] = [l EXCEPT !.status = ClosedStatus(m)]
           /\ \A j \in DOMAIN flows :
                 /\ flows'[j] \in Flow /\ flows'[j].op = flows[j].op
                 /\ flows'[j].main = flows[j].main /\ flows'[j].ref = flows[j].ref
                 /\ flows[j].op # "Freeze" => flows'[j].tx = flows[j].tx
                 /\ flows[j].op # "Freeze" /\ j # i => flows'[j] = flows[j]
                 /\ flows'[j].tx # NoTx /\ flows[j].op = "Freeze" =>
                       /\ flows'[j].tx \in DOMAIN chain /\ chain[flows'[j].tx].kind = "Freeze"
                       /\ chain[flows'[j].tx].main = flows[j].main
  <1> DEFINE m == settling.item
             l == settling.lock
  <1>1. m \in Item /\ ItemTracked(m) /\ chain[m.tx] \in Tx
    BY SettlingItem
  <1>2. IsTarget(m, i) /\ Covered(m) /\ (NeedsLock(m) => l # NoRow)
    BY DEF Applies
  <1>3. flows \in Seq(Flow) /\ \A j \in DOMAIN flows : flows[j] \in Flow /\ j \in Nat
    BY LenProperties DEF LedgerInv, TypeOK
  <1>4. /\ DOMAIN flows' = DOMAIN flows /\ flows' = [j \in DOMAIN flows |-> flows'[j]]
        /\ flows'[i] = [flows[i] EXCEPT !.status = SettledStatus(m), !.chainID = TRUE,
                                        !.real = chain[m.tx].amount]
        /\ \A j \in DOMAIN flows : j # i =>
              \/ flows'[j] = flows[j]
              \/ ClosesLock(m, j) /\ flows'[j] = [l EXCEPT !.status = ClosedStatus(m)]
    BY DEF Settle
  <1>5. SettledStatus(m) \in Statuses /\ ClosedStatus(m) \in Statuses
    BY DEF SettledStatus, ClosedStatus, Statuses
  <1>6. \A j \in DOMAIN flows :
           /\ flows'[j] \in Flow /\ flows'[j].op = flows[j].op /\ flows'[j].main = flows[j].main
           /\ flows'[j].ref = flows[j].ref
           /\ flows[j].op # "Freeze" => flows'[j].tx = flows[j].tx
           /\ flows[j].op # "Freeze" /\ j # i => flows'[j] = flows[j]
           /\ flows'[j].tx # NoTx /\ flows[j].op = "Freeze" =>
                  /\ flows'[j].tx \in DOMAIN chain /\ chain[flows'[j].tx].kind = "Freeze"
                  /\ chain[flows'[j].tx].main = flows[j].main
    <2> SUFFICES ASSUME NEW j \in DOMAIN flows
                 PROVE  /\ flows'[j] \in Flow /\ flows'[j].op = flows[j].op
                        /\ flows'[j].main = flows[j].main /\ flows'[j].ref = flows[j].ref
                        /\ flows[j].op # "Freeze" => flows'[j].tx = flows[j].tx
                        /\ flows[j].op # "Freeze" /\ j # i => flows'[j] = flows[j]
                        /\ flows'[j].tx # NoTx /\ flows[j].op = "Freeze" =>
                              /\ flows'[j].tx \in DOMAIN chain
                              /\ chain[flows'[j].tx].kind = "Freeze"
                              /\ chain[flows'[j].tx].main = flows[j].main
      OBVIOUS
    <2>1. flows[j] \in Flow
      BY <1>3
    <2>2. flows[j].op = "Freeze" /\ flows[j].tx # NoTx =>
              /\ flows[j].tx \in DOMAIN chain /\ chain[flows[j].tx].kind = "Freeze"
              /\ chain[flows[j].tx].main = flows[j].main
      BY DEF LedgerInv, Tracked, FlowsTracked
    <2>3. CASE j = i
      <3>1. chain[m.tx].amount \in Nat
        BY <1>1 DEF Tx
      <3> QED
        BY <2>1, <2>2, <2>3, <3>1, <1>4, <1>5 DEF Flow
    <2>4. CASE j # i /\ flows'[j] = flows[j]
      BY <2>1, <2>2, <2>4
    <2>5. CASE j # i /\ ClosesLock(m, j) /\ flows'[j] = [l EXCEPT !.status = ClosedStatus(m)]
      <3>1. j = LockOf(m) /\ l \in Flow
        BY <1>2, <2>5 DEF ClosesLock, LedgerInv, TypeOK, Settling
      <3>2. /\ l.op = "Freeze" /\ l.main = flows[j].main /\ l.ref = NoFlow
            /\ l.tx # NoTx => /\ l.tx \in DOMAIN chain /\ chain[l.tx].kind = "Freeze"
                              /\ chain[l.tx].main = l.main
        BY <1>2, <2>5, <3>1 DEF ClosesLock, LedgerInv, Tracked, SettlingTracked
      <3>3. flows[j].op = "Freeze" /\ flows[j].ref = NoFlow
        <4>1. m.ref \in DOMAIN flows /\ flows[m.ref].ref = j
          BY <1>2, <2>5, <3>1
             DEF ClosesLock, LedgerInv, Tracked, SettlingTracked, LockFound, LockOf
        <4>2. j # NoFlow
          BY <1>3, LenProperties DEF NoFlow
        <4> QED
          BY <4>1, <4>2 DEF LedgerInv, Tracked, FlowsTracked
      <3> QED
        BY <2>5, <3>1, <3>2, <3>3, <1>5 DEF Flow
    <2> QED
      BY <2>3, <2>4, <2>5, <1>4
  <1> QED
    BY <1>4, <1>6

LEMMA UpdateAccountBalanceStep ==
    ASSUME LedgerInv, UpdateAccountBalance
    PROVE  LedgerInv'
  <1> DEFINE m == settling.item
             l == settling.lock
  <1>1. /\ settling # NoRow /\ settling' = NoRow
        /\ UNCHANGED <<chain, work, updates, req, guard, crashes>>
    BY DEF UpdateAccountBalance
  <1>2. m \in Item /\ ItemTracked(m) /\ chain[m.tx] \in Tx
    BY <1>1, SettlingItem
  <1>3. ItemsTracked' /\ SettlingTracked'
    BY <1>1 DEF LedgerInv, Tracked, ItemsTracked, ItemTracked, SettlingTracked
  <1>4. CASE UNCHANGED <<db, history>>
    <2>1. TypeOK' /\ HandlersTracked'
      BY <1>1, <1>4 DEF LedgerInv, TypeOK, Tracked, HandlersTracked, db, history
    <2> QED
      BY <1>1, <1>3, <1>4, <2>1, SameTables DEF LedgerInv, Tracked, db
  <1>5. CASE \E i \in DOMAIN flows : Applies(m, i) /\ Settle(m, i) /\ Book(m)
    <2>1. PICK i \in DOMAIN flows : Applies(m, i) /\ Settle(m, i) /\ Book(m)
      BY <1>5
    <2>2. IsTarget(m, i) /\ Covered(m) /\ (NeedsLock(m) => l # NoRow)
      BY <2>1 DEF Applies
    <2>3. /\ account' \in [Users -> [exists : BOOLEAN, available : Nat, withdrawal : Nat]]
          /\ received' \in [Users -> Nat] /\ paid' \in [Users -> Nat]
      BY <1>2, <2>1, <2>2, BookMoves DEF LedgerInv
    <2>4. flows \in Seq(Flow) /\ \A j \in DOMAIN flows : flows[j] \in Flow /\ j \in Nat
      BY LenProperties DEF LedgerInv, TypeOK
    <2>5. DOMAIN flows' = DOMAIN flows /\ flows' = [j \in DOMAIN flows |-> flows'[j]]
      BY <1>1, <2>1, RowsSettled
    <2>7. \A j \in DOMAIN flows :
             /\ flows'[j] \in Flow /\ flows'[j].op = flows[j].op /\ flows'[j].main = flows[j].main
             /\ flows'[j].ref = flows[j].ref
             /\ flows[j].op # "Freeze" => flows'[j].tx = flows[j].tx
             /\ flows[j].op # "Freeze" /\ j # i => flows'[j] = flows[j]
             /\ flows'[j].tx # NoTx /\ flows[j].op = "Freeze" =>
                    /\ flows'[j].tx \in DOMAIN chain /\ chain[flows'[j].tx].kind = "Freeze"
                    /\ chain[flows'[j].tx].main = flows[j].main
      BY <1>1, <2>1, RowsSettled
    <2>8. flows' \in Seq(Flow) /\ TxsTracked' /\ RowsKept /\ TxsKept
      BY <1>1, <2>5, <2>7, RowsChanged
    <2>9. FlowsTracked'
      BY <1>1, <2>5, <2>7 DEF LedgerInv, Tracked, FlowsTracked
    <2>10. OnlyFirstReportSettles'
      <3> SUFFICES ASSUME NEW p \in DOMAIN flows, NEW q \in DOMAIN flows, p < q,
                          flows'[p].op # "Freeze", flows'[p].main = flows'[q].main,
                          flows'[p].tx = flows'[q].tx
                   PROVE  flows'[q].status = "Pending"
        BY <2>5 DEF OnlyFirstReportSettles
      <3>1. flows[p].op # "Freeze" /\ flows'[p].tx = flows[p].tx
        BY <2>7
      <3>2. flows[p].tx # NoTx /\ chain[flows[p].tx].kind # "Freeze"
        BY <3>1 DEF LedgerInv, Tracked, FlowsTracked
      <3>3. flows[q].op # "Freeze" /\ flows'[q].tx = flows[q].tx
        BY <3>1, <3>2, <2>7
      <3>4. flows[q].status = "Pending"
        BY <3>1, <3>3, <2>7 DEF LedgerInv, OnlyFirstReportSettles
      <3>5. q # i
        <4>1. flows[p].main = flows[q].main /\ flows[p].tx = flows[q].tx
          BY <2>7, <3>1, <3>3
        <4>2. p \in Nat /\ q \in Nat
          BY <2>4
        <4> QED
          BY <2>2, <4>1, <4>2 DEF IsTarget
      <3> QED
        BY <3>3, <3>4, <3>5, <2>7
    <2>11. TypeOK'
      BY <1>1, <2>3, <2>8 DEF LedgerInv, TypeOK
    <2>12. HandlersTracked'
      BY <1>1, <2>8 DEF RowsKept, LedgerInv, Tracked, HandlersTracked
    <2> QED
      BY <1>3, <2>8, <2>9, <2>10, <2>11, <2>12 DEF LedgerInv, Tracked
  <1> QED
    BY <1>4, <1>5 DEF UpdateAccountBalance

-----------------------------------------------------------------------------
(* The theorems *)

LEMMA InvariantInitially == Init => LedgerInv
  <1> SUFFICES ASSUME Init PROVE LedgerInv
    OBVIOUS
  <1> USE DEF Init
  <1>1. TypeOK
    BY IdleTyped, LedgerAssumption DEF TypeOK
  <1>2. Tracked
    BY IdleTyped DEF Tracked, FlowsTracked, TxsTracked, ItemsTracked, SettlingTracked,
                     HandlersTracked
  <1>3. OnlyFirstReportSettles
    BY DEF OnlyFirstReportSettles
  <1> QED
    BY <1>1, <1>2, <1>3 DEF LedgerInv

LEMMA InvariantStep == LedgerInv /\ [Next]_vars => LedgerInv'
  <1> SUFFICES ASSUME LedgerInv, [Next]_vars PROVE LedgerInv'
    OBVIOUS
  <1>1. CASE \E u \in Users : SendDeposit(u) \/ SendLockTx(u)
    BY <1>1, SendStep
  <1>2. CASE \E u \in Users : QueryBalance(u)
    BY <1>2, QueryBalanceStep
  <1>3. CASE \E t \in DOMAIN chain : Mine(t)
    BY <1>3, MineStep
  <1>4. CASE \E r \in Req : ReportNext(r)
    BY <1>4, ReportReadStep, ReportLockSaveStep, NewReportStep, ReportAppendStep DEF ReportNext
  <1>5. CASE \E r \in Req : RequestNext(r)
    BY <1>5, RequestGuardStep, WithdrawRequestCommitStep DEF RequestNext
  <1>6. CASE \E m \in work : HandleTopup(m)
    BY <1>6, HandleTopupStep
  <1>7. CASE UpdateAccountBalance
    BY <1>7, UpdateAccountBalanceStep
  <1>8. CASE CheckTx
    BY <1>8, CheckTxStep
  <1>9. CASE Crash
    BY <1>9, CrashStep
  <1>10. CASE UNCHANGED vars
    BY <1>10, StutterStep
  <1>11. CASE TakeUpdate
    BY <1>11, TakeUpdateStep
  <1> QED
    BY <1>1, <1>2, <1>3, <1>4, <1>5, <1>6, <1>7, <1>8, <1>9, <1>10, <1>11 DEF Next

\* The inductive invariant holds in every reachable state.
THEOREM LedgerInvariant == Spec => []LedgerInv
  BY InvariantInitially, InvariantStep, PTL DEF Spec

\* The balances stay natural numbers: no interleaving of reports, requests,
\* updates and crashes makes a uint64 column wrap.
THEOREM TypeCorrect == Spec => []TypeOK
  BY LedgerInvariant, PTL DEF LedgerInv

\* One chain transaction settles at most one flow of a user, for any number of
\* users, handlers and racing reports.
THEOREM OneSettlementPerTransaction == Spec => []OnlyFirstReportSettles
  BY LedgerInvariant, PTL DEF LedgerInv

-----------------------------------------------------------------------------
(* Conservation *)

LEMMA SumCarried ==
    ASSUME NEW a \in Nat, NEW w \in Nat, NEW p \in Nat, NEW r \in Nat, NEW o \in Nat,
           NEW a2 \in Nat, NEW w2 \in Nat, NEW p2 \in Nat, NEW r2 \in Nat,
           a2 + w2 + p2 - r2 = a + w + p - r, a + w + p = o + r
    PROVE  a2 + w2 + p2 = o + r2
  OBVIOUS

LEMMA ConservedInitially == Init => Conserved
  BY LedgerAssumption DEF Init, Conserved

\* Only a withdrawal request and a settled update change the balances.
LEMMA ConservedStep == LedgerInv /\ Conserved /\ [Next]_vars => Conserved'
  <1> SUFFICES ASSUME LedgerInv, Conserved, [Next]_vars, NEW v \in Users
               PROVE  account'[v].available + account'[v].withdrawal + paid'[v]
                        = Opening + received'[v]
    BY DEF Conserved
  <1>1. /\ account \in [Users -> [exists : BOOLEAN, available : Nat, withdrawal : Nat]]
        /\ received \in [Users -> Nat] /\ paid \in [Users -> Nat] /\ Opening \in Nat
        /\ account[v].available + account[v].withdrawal + paid[v] = Opening + received[v]
    BY LedgerAssumption DEF LedgerInv, TypeOK, Conserved
  <1>2. CASE UNCHANGED <<account, received, paid>>
    BY <1>1, <1>2
  <1>3. CASE \E u \in Users : QueryBalance(u)
    BY <1>1, <1>3 DEF QueryBalance, history
  <1>4. ASSUME NEW r \in Req, WithdrawRequestCommit(r)
        PROVE  account'[v].available + account'[v].withdrawal + paid'[v]
                 = Opening + received'[v]
    <2>1. PICK a \in Amounts :
             /\ account[req[r].main].available >= a
             /\ account' = [account EXCEPT ![req[r].main].available = @ - a,
                                           ![req[r].main].withdrawal = @ + a]
      BY <1>4 DEF WithdrawRequestCommit
    <2>2. UNCHANGED <<received, paid>> /\ a \in Nat
      BY <1>4, LedgerAssumption DEF WithdrawRequestCommit, history
    <2>3. account[v].available \in Nat /\ account[v].withdrawal \in Nat
      BY <1>1
    <2>4. CASE v = req[r].main
      <3>1. /\ account'[v].available = account[v].available - a
            /\ account'[v].withdrawal = account[v].withdrawal + a
        BY <1>1, <2>1, <2>4
      <3> QED
        BY <1>1, <2>2, <2>3, <3>1
    <2>5. CASE v # req[r].main
      BY <1>1, <2>1, <2>2, <2>5
    <2> QED
      BY <2>4, <2>5
  <1>5. CASE UpdateAccountBalance
    <2>1. CASE UNCHANGED <<db, history>>
      BY <1>2, <2>1 DEF db, history
    <2>2. CASE Covered(settling.item) /\ Book(settling.item)
      <3>1. settling # NoRow
        BY <1>5 DEF UpdateAccountBalance
      <3>2. /\ account' \in [Users -> [exists : BOOLEAN, available : Nat, withdrawal : Nat]]
            /\ received' \in [Users -> Nat] /\ paid' \in [Users -> Nat]
            /\ account'[v].available + account'[v].withdrawal + paid'[v] - received'[v]
                 = account[v].available + account[v].withdrawal + paid[v] - received[v]
        BY <2>2, <3>1, SettlingItem, BookMoves DEF LedgerInv
      <3>3. /\ account[v].available \in Nat /\ account[v].withdrawal \in Nat
            /\ account'[v].available \in Nat /\ account'[v].withdrawal \in Nat
            /\ paid[v] \in Nat /\ received[v] \in Nat
            /\ paid'[v] \in Nat /\ received'[v] \in Nat
        BY <1>1, <3>2
      <3> QED
        BY <1>1, <3>2, <3>3, SumCarried
    <2> QED
      BY <1>5, <2>1, <2>2 DEF UpdateAccountBalance, Applies
  <1> USE DEF db, history
  <1>6. CASE \E u \in Users : SendDeposit(u) \/ SendLockTx(u)
    BY <1>2, <1>6 DEF SendDeposit, SendLockTx, Send
  <1>7. CASE \E r \in Req : ReportNext(r)
    BY <1>2, <1>7 DEF ReportNext, ReportRead, ReportLockSave, ReportCancelSave, ReportCommit,
                      ReportAppend
  <1>8. CASE \E r \in Req : RequestNext(r)
    BY <1>2, <1>4, <1>8 DEF RequestNext, WithdrawRequestEnter, WithdrawRequestCheck,
                            WithdrawRequestRollback, WithdrawRequestLeave
  <1>9. CASE (\E t \in DOMAIN chain : Mine(t)) \/ (\E m \in work : HandleTopup(m))
             \/ TakeUpdate \/ CheckTx \/ Crash
    BY <1>2, <1>9 DEF Mine, HandleTopup, TakeUpdate, CheckTx, Crash
  <1> QED
    BY <1>2, <1>3, <1>5, <1>6, <1>7, <1>8, <1>9 DEF Next, vars

\* What a user owns is what was opened with and received less what was paid,
\* for every number of users and every interleaving of handlers and updates.
THEOREM BalancesConserved == Spec => []Conserved
  <1>1. Init => LedgerInv /\ Conserved
    BY InvariantInitially, ConservedInitially
  <1>2. LedgerInv /\ Conserved /\ [Next]_vars => (LedgerInv /\ Conserved)'
    BY InvariantStep, ConservedStep
  <1> QED
    BY <1>1, <1>2, PTL DEF Spec

-----------------------------------------------------------------------------
(* Rows and the transactions they are about *)

\* The contract opened, paid or canceled the lock f in the chain c.
ClosedIn(c, kind, f) ==
    \E t \in DOMAIN c : c[t].kind = kind /\ c[t].ref = f /\ c[t].status = "success"

\* What a row with the id i, or a copy of it, says of the chain c: its hash is that of
\* a transaction about the same lock, and its status is what became of it.
RowLinked(c, f, i) ==
    /\ f.op # "Freeze" => f.tx # NoTx
    /\ f.tx # NoTx => f.tx \in DOMAIN c /\ c[f.tx].ref = IF f.op = "Freeze" THEN i ELSE f.ref
    /\ f.op # "Freeze" /\ f.status = "Success" => c[f.tx].status = "success"
    /\ f.op # "Freeze" /\ f.status = "Failed" => c[f.tx].status = "failed"
    /\ f.op = "Freeze" /\ f.status = "PendingWithDraw" => ClosedIn(c, "Freeze", i)
    /\ f.op = "Freeze" /\ f.status = "Success" => ClosedIn(c, "Withdraw", i)
    /\ f.op = "Freeze" /\ f.status = "Canceled" => ClosedIn(c, "Unfreeze", i)
    /\ f.op = "Freeze" => f.real \in Amounts

\* A message about a claim or a cancel names its row, which names the lock of the
\* transaction; one from checkTx names the lock itself, which names nothing.
ItemLinked(c, rows, m) ==
    m.op \in {"Withdraw", "Unfreeze"} =>
        m.ref \in DOMAIN rows /\ rows[m.ref].ref \in {NoFlow, c[m.tx].ref}

HandlerLinked(c, rows, h) ==
    /\ h.pc = "lock_save" => h.ref = c[h.tx].ref /\ RowLinked(c, h.row, h.ref)
    /\ h.pc = "append" /\ c[h.tx].kind \in {"Withdraw", "Unfreeze"} =>
           h.ref \in DOMAIN rows /\ rows[h.ref].ref = c[h.tx].ref

ChainLinked ==
    DOMAIN chain \subseteq 1..MaxTx /\ \A t \in DOMAIN chain : chain[t].amount \in Amounts
RowsLinked == \A i \in DOMAIN flows : RowLinked(chain, flows[i], i)
ItemsLinked ==
    /\ \A m \in work : ItemLinked(chain, flows, m)
    /\ \A k \in DOMAIN updates : ItemLinked(chain, flows, updates[k])
SettlingLinked ==
    settling # NoRow =>
        /\ ItemLinked(chain, flows, settling.item)
        /\ settling.lock # NoRow => RowLinked(chain, settling.lock, flows[settling.item.ref].ref)
HandlersLinked == \A r \in Req : HandlerLinked(chain, flows, req[r])

Linked == ChainLinked /\ RowsLinked /\ ItemsLinked /\ SettlingLinked /\ HandlersLinked

\* The chain as it may become: transactions are added, and settled once.
ChainGoesOn ==
    \A t \in DOMAIN chain :
        /\ t \in DOMAIN chain' /\ chain'[t].kind = chain[t].kind /\ chain'[t].ref = chain[t].ref
        /\ chain'[t].status = chain[t].status \/ chain[t].status = "pending"

\* Nothing that was known of a row, a message or a handler is lost by it.
LEMMA LinksStay ==
    ASSUME ChainGoesOn, RowsKept
    PROVE  /\ \A f, i : RowLinked(chain, f, i) => RowLinked(chain', f, i)
           /\ \A m : m.tx \in DOMAIN chain /\ ItemLinked(chain, flows, m)
                       => ItemLinked(chain', flows', m)
           /\ \A h : h.tx \in DOMAIN chain /\ HandlerLinked(chain, flows, h)
                       => HandlerLinked(chain', flows', h)
  <1>1. \A kind, f : ClosedIn(chain, kind, f) => ClosedIn(chain', kind, f)
    BY DEF ClosedIn, ChainGoesOn
  <1>2. ASSUME NEW f, NEW i, RowLinked(chain, f, i) PROVE RowLinked(chain', f, i)
    BY <1>1, <1>2 DEF RowLinked, ChainGoesOn
  <1>3. ASSUME NEW m, m.tx \in DOMAIN chain, ItemLinked(chain, flows, m)
        PROVE  ItemLinked(chain', flows', m)
    BY <1>3 DEF ItemLinked, ChainGoesOn, RowsKept
  <1>4. ASSUME NEW h, h.tx \in DOMAIN chain, HandlerLinked(chain, flows, h)
        PROVE  HandlerLinked(chain', flows', h)
    <2>1. h.pc = "lock_save" => h.ref = chain'[h.tx].ref /\ RowLinked(chain', h.row, h.ref)
      BY <1>2, <1>4 DEF HandlerLinked, ChainGoesOn
    <2> QED
      BY <1>4, <2>1 DEF HandlerLinked, ChainGoesOn, RowsKept
  <1> QED
    BY <1>2, <1>3, <1>4

\* The parts of the invariant that do not concern what a step changes.
LEMMA OtherLinksStay ==
    ASSUME LedgerInv, Linked, ChainGoesOn, RowsKept
    PROVE  /\ work' = work => \A m \in work' : ItemLinked(chain', flows', m)
           /\ updates' = updates => \A k \in DOMAIN updates' : ItemLinked(chain', flows', updates'[k])
           /\ settling' = settling => SettlingLinked'
           /\ flows' = flows => RowsLinked'
           /\ \A r \in Req : req'[r] = req[r] => HandlerLinked(chain', flows', req'[r])
  <1>1. /\ work' = work => \A m \in work' : ItemLinked(chain', flows', m)
        /\ updates' = updates => \A k \in DOMAIN updates' : ItemLinked(chain', flows', updates'[k])
    BY LinksStay DEF LedgerInv, Tracked, ItemsTracked, ItemTracked, Linked, ItemsLinked
  <1>2. ASSUME settling' = settling PROVE SettlingLinked'
    <2> SUFFICES ASSUME settling # NoRow
                 PROVE  /\ ItemLinked(chain', flows', settling.item)
                        /\ settling.lock # NoRow
                             => RowLinked(chain', settling.lock, flows'[settling.item.ref].ref)
      BY <1>2 DEF SettlingLinked
    <2>1. settling.item.tx \in DOMAIN chain /\ ItemLinked(chain, flows, settling.item)
      BY DEF LedgerInv, Tracked, SettlingTracked, ItemTracked, Linked, SettlingLinked
    <2>2. ASSUME settling.lock # NoRow
          PROVE  /\ flows'[settling.item.ref].ref = flows[settling.item.ref].ref
                 /\ RowLinked(chain, settling.lock, flows[settling.item.ref].ref)
      BY <2>2 DEF LedgerInv, Tracked, SettlingTracked, LockFound, Linked, SettlingLinked, RowsKept
    <2> QED
      BY <2>1, <2>2, LinksStay
  <1>3. flows' = flows => RowsLinked'
    BY LinksStay DEF Linked, RowsLinked
  <1>4. ASSUME NEW r \in Req, req'[r] = req[r] PROVE HandlerLinked(chain', flows', req'[r])
    <2>1. CASE req[r].pc \in {"lock_save", "append"}
      BY <1>4, <2>1, LinksStay DEF LedgerInv, Tracked, HandlersTracked, Linked, HandlersLinked
    <2>2. CASE req[r].pc \notin {"lock_save", "append"}
      BY <1>4, <2>2 DEF HandlerLinked
    <2> QED
      BY <2>1, <2>2
  <1> QED
    BY <1>1, <1>2, <1>3, <1>4

\* A step that leaves the chain alone is about its rows, messages and handlers.
LEMMA SameChain ==
    ASSUME Linked, UNCHANGED chain
    PROVE  ChainGoesOn /\ ChainLinked'
  BY DEF Linked, ChainLinked, ChainGoesOn

\* One handler moves on.
LEMMA HandlerLinkMoves ==
    ASSUME LedgerInv, Linked, ChainGoesOn, RowsKept, NEW r \in Req, NEW h,
           req' = [req EXCEPT ![r] = h], HandlerLinked(chain', flows', h)
    PROVE  HandlersLinked'
  <1>1. req'[r] = h /\ \A q \in Req : q # r => req'[q] = req[q]
    BY DEF LedgerInv, TypeOK
  <1> QED
    BY <1>1, OtherLinksStay DEF HandlersLinked

LEMMA QuietLinks ==
    ASSUME LedgerInv, Linked, UNCHANGED <<flows, chain, work, updates, settling, req>>
    PROVE  Linked'
  BY DEF Linked, ChainLinked, RowsLinked, ItemsLinked, SettlingLinked, HandlersLinked

LEMMA SendLinks ==
    ASSUME LedgerInv, Linked, NEW u \in Users, SendDeposit(u) \/ SendLockTx(u)
    PROVE  Linked'
  <1>1. PICK kind \in Ops, f \in Nat, a \in Amounts : Send(kind, u, f, a)
    <2>1. CASE SendDeposit(u)
      BY <2>1 DEF SendDeposit, Ops, NoFlow
    <2>2. CASE SendLockTx(u)
      <3>1. PICK f \in DOMAIN flows : /\ flows[f].op = "Freeze"
                                      /\ \E kind \in Ops : Send(kind, u, f, flows[f].real)
        BY <2>2 DEF SendLockTx, Ops
      <3>2. flows[f].real \in Amounts /\ f \in Nat
        BY <3>1, LenProperties DEF Linked, RowsLinked, RowLinked, LedgerInv, TypeOK
      <3> QED
        BY <3>1, <3>2
    <2> QED
      BY <2>1, <2>2
  <1> DEFINE e == [kind |-> kind, main |-> u, ref |-> f, amount |-> a, status |-> "pending"]
  <1>2. chain' = Append(chain, e) /\ Len(chain) < MaxTx
        /\ UNCHANGED <<flows, work, updates, settling, req>>
    BY <1>1 DEF Send, db
  <1>3. chain \in Seq(Tx) /\ DOMAIN chain = 1..Len(chain) /\ Len(chain) \in Nat /\ MaxTx \in Nat
    BY LenProperties, LedgerAssumption DEF LedgerInv, TypeOK
  <1>4. /\ DOMAIN chain' = 1..(Len(chain) + 1)
        /\ \A t \in DOMAIN chain : chain'[t] = chain[t]
        /\ chain'[Len(chain) + 1] = e
    BY <1>2, <1>3
  <1>5. ChainGoesOn /\ RowsKept
    BY <1>2, <1>3, <1>4 DEF ChainGoesOn, RowsKept
  <1>6. ChainLinked'
    BY <1>2, <1>3, <1>4 DEF Linked, ChainLinked
  <1> QED
    BY <1>2, <1>5, <1>6, OtherLinksStay DEF Linked, ItemsLinked, HandlersLinked

LEMMA MineLinks ==
    ASSUME LedgerInv, Linked, NEW t \in DOMAIN chain, Mine(t)
    PROVE  Linked'
  <1>1. PICK s : chain' = [chain EXCEPT ![t].status = s]
    BY DEF Mine
  <1>2. /\ chain[t].status = "pending"
        /\ UNCHANGED <<flows, work, updates, settling, req>>
    BY DEF Mine, db
  <1>3. \A k \in DOMAIN chain : chain[k] \in Tx
    BY LenProperties DEF LedgerInv, TypeOK
  <1>4. /\ DOMAIN chain' = DOMAIN chain
        /\ \A k \in DOMAIN chain : /\ chain'[k].kind = chain[k].kind /\ chain'[k].ref = chain[k].ref
                                   /\ chain'[k].amount = chain[k].amount
                                   /\ k # t => chain'[k] = chain[k]
    BY <1>1, <1>3 DEF Tx
  <1>5. ChainGoesOn /\ RowsKept
    BY <1>2, <1>4 DEF ChainGoesOn, RowsKept
  <1>6. ChainLinked'
    BY <1>4 DEF Linked, ChainLinked
  <1> QED
    BY <1>2, <1>5, <1>6, OtherLinksStay DEF Linked, ItemsLinked, HandlersLinked

LEMMA ReportReadLinks ==
    ASSUME LedgerInv, Linked, NEW r \in Req, NEW t \in DOMAIN chain, ReportRead(r, t)
    PROVE  Linked'
  <1>1. PICK pc, row :
           /\ req' = [req EXCEPT ![r] = [pc |-> pc, main |-> chain[t].main, tx |-> t,
                                         ref |-> chain[t].ref, row |-> row]]
           /\ pc # "append"
           /\ pc = "lock_save" => chain[t].kind = "Freeze" /\ row = flows[chain[t].ref]
    BY DEF ReportRead
  <1>2. UNCHANGED <<flows, chain, work, updates, settling>>
    BY DEF ReportRead, db
  <1>3. ASSUME pc = "lock_save" PROVE RowLinked(chain, row, chain[t].ref)
    BY <1>1, <1>3 DEF LedgerInv, Tracked, TxsTracked, Linked, RowsLinked
  <1>4. ChainGoesOn /\ ChainLinked' /\ RowsKept
    BY <1>2, SameChain DEF RowsKept
  <1> DEFINE h == [pc |-> pc, main |-> chain[t].main, tx |-> t, ref |-> chain[t].ref, row |-> row]
  <1>5. HandlerLinked(chain', flows', h)
    BY <1>1, <1>2, <1>3 DEF HandlerLinked
  <1>6. HandlersLinked'
    <2> HIDE DEF h
    <2>1. req' = [req EXCEPT ![r] = h]
      BY <1>1 DEF h
    <2> QED
      BY <1>4, <1>5, <2>1, HandlerLinkMoves
  <1> QED
    BY <1>2, <1>4, <1>6, OtherLinksStay DEF Linked, ItemsLinked

LEMMA ReportLockSaveLinks ==
    ASSUME LedgerInv, Linked, NEW r \in Req, ReportLockSave(r)
    PROVE  Linked'
  <1> DEFINE h == req[r]
             f == [h.row EXCEPT !.tx = h.tx]
             g == [req[r] EXCEPT !.pc = "append", !.row = NoRow]
  <1>1. /\ h \in Handler /\ h.pc = "lock_save" /\ h.tx \in DOMAIN chain
        /\ chain[h.tx].kind = "Freeze" /\ h.ref \in DOMAIN flows
        /\ flows[h.ref].op = "Freeze" /\ flows[h.ref].main = h.main /\ flows[h.ref].ref = NoFlow
        /\ h.row \in Flow /\ h.row.op = "Freeze" /\ h.row.main = h.main /\ h.row.ref = NoFlow
        /\ h.ref = chain[h.tx].ref /\ RowLinked(chain, h.row, h.ref)
    BY DEF LedgerInv, TypeOK, Tracked, HandlersTracked, FlowsTracked, ReportLockSave, Linked,
           HandlersLinked, HandlerLinked
  <1>2. /\ UNCHANGED <<chain, work, updates, settling>>
        /\ flows' = [flows EXCEPT ![h.ref] = f] /\ req' = [req EXCEPT ![r] = g]
    BY DEF ReportLockSave, LedgerInv, TypeOK
  <1>3. f \in Flow /\ f.op = "Freeze" /\ f.main = h.main /\ f.tx = h.tx /\ f.ref = NoFlow
        /\ f.status = h.row.status /\ f.real = h.row.real
    BY <1>1 DEF Flow, Handler
  <1>4. g.pc = "append" /\ g.tx = h.tx
    BY <1>1 DEF Handler
  <1>5. RowLinked(chain, f, h.ref)
    <2> HIDE DEF f, h
    <2> QED
      BY <1>1, <1>3 DEF RowLinked
  <1> HIDE DEF f, g, h
  <1>6. RowsKept /\ \A i \in DOMAIN flows : i # h.ref => flows'[i] = flows[i]
    BY <1>1, <1>2, <1>3 DEF RowsKept
  <1>7. RowsLinked'
    BY <1>1, <1>2, <1>5 DEF Linked, RowsLinked
  <1>8. ChainGoesOn /\ ChainLinked'
    BY <1>2, SameChain
  <1>9. HandlersLinked'
    <2>1. HandlerLinked(chain', flows', g)
      BY <1>1, <1>2, <1>4 DEF HandlerLinked
    <2> QED
      BY <1>2, <1>6, <1>8, <2>1, HandlerLinkMoves
  <1> QED
    BY <1>2, <1>6, <1>7, <1>8, <1>9, OtherLinksStay DEF Linked, ItemsLinked

\* A row added is Pending.
LEMMA RowAddedLinks ==
    ASSUME LedgerInv, Linked, NEW f \in Flow, flows' = Append(flows, f), chain' = chain,
           f.status = "Pending",
           f.op # "Freeze" => f.tx \in DOMAIN chain /\ f.tx # NoTx /\ f.ref = chain[f.tx].ref,
           f.op = "Freeze" => f.tx = NoTx /\ f.real \in Amounts
    PROVE  /\ RowsLinked' /\ RowsKept
           /\ Len(flows') \in DOMAIN flows' /\ flows'[Len(flows')] = f
  <1>1. flows \in Seq(Flow)
    BY DEF LedgerInv, TypeOK
  <1>2. /\ Len(flows') = Len(flows) + 1 /\ Len(flows) \in Nat
        /\ DOMAIN flows' = 1..(Len(flows) + 1) /\ DOMAIN flows = 1..Len(flows)
        /\ \A i \in DOMAIN flows : i \in DOMAIN flows' /\ flows'[i] = flows[i]
        /\ flows'[Len(flows) + 1] = f
    BY <1>1, AppendFacts, LenProperties
  <1>3. RowLinked(chain, f, Len(flows) + 1)
    BY DEF RowLinked
  <1>4. RowsLinked'
    BY <1>2, <1>3 DEF Linked, RowsLinked
  <1> QED
    BY <1>2, <1>4 DEF RowsKept

LEMMA NewReportLinks ==
    ASSUME LedgerInv, Linked, NEW r \in Req, ReportCancelSave(r) \/ ReportCommit(r)
    PROVE  Linked'
  <1> DEFINE h == req[r]
  <1>1. /\ h \in Handler /\ h.tx \in DOMAIN chain /\ chain[h.tx] \in Tx /\ h.tx \in Nat
        /\ h.tx # NoTx /\ h.ref = chain[h.tx].ref
        /\ (h.pc = "cancel_save" => chain[h.tx].kind = "Unfreeze")
        /\ (h.pc = "report_tx" => chain[h.tx].kind \in {"Recharge", "Withdraw"})
    <2>1. h.pc \in {"cancel_save", "report_tx"} /\ h \in Handler /\ chain \in Seq(Tx)
      BY DEF ReportCancelSave, ReportCommit, LedgerInv, TypeOK
    <2>2. h.tx \in DOMAIN chain /\ h.ref = chain[h.tx].ref
          /\ (h.pc = "cancel_save" => chain[h.tx].kind = "Unfreeze")
          /\ (h.pc = "report_tx" => chain[h.tx].kind \in {"Recharge", "Withdraw"})
      BY <2>1 DEF LedgerInv, Tracked, HandlersTracked
    <2>3. DOMAIN chain = 1..Len(chain) /\ Len(chain) \in Nat
      BY <2>1, LenProperties
    <2> QED
      BY <2>1, <2>2, <2>3 DEF NoTx
  <1>2. UNCHANGED <<chain, work, updates, settling>> /\ ChainGoesOn /\ ChainLinked'
    BY SameChain DEF ReportCancelSave, ReportCommit
  <1>3. CASE flows' = flows /\ req' = [req EXCEPT ![r] = Idle]
    <2>1. RowsKept
      BY <1>3 DEF RowsKept
    <2>2. HandlersLinked'
      <3>1. HandlerLinked(chain', flows', Idle)
        BY DEF HandlerLinked, Idle
      <3> QED
        BY <1>2, <1>3, <2>1, <3>1, HandlerLinkMoves
    <2> QED
      BY <1>2, <1>3, <2>1, <2>2, OtherLinksStay DEF Linked, ItemsLinked
  <1>4. CASE ~(flows' = flows /\ req' = [req EXCEPT ![r] = Idle])
    <2> DEFINE f == [main |-> h.main, op |-> chain[h.tx].kind, status |-> "Pending", real |-> 0,
                     tx |-> h.tx, ref |-> h.ref, chainID |-> TRUE]
               g == [req[r] EXCEPT !.pc = "append", !.ref = Len(flows')]
    <2>1. flows' = Append(flows, f) /\ req' = [req EXCEPT ![r] = g]
      BY <1>1, <1>4 DEF ReportCancelSave, ReportCommit, NewFlow
    <2>2. f \in Flow /\ f.op # "Freeze"
      BY <1>1, <1>4 DEF Flow, Statuses, Handler, Tx, ReportCancelSave, ReportCommit
    <2>3. f.tx = h.tx /\ f.ref = h.ref /\ f.status = "Pending"
      OBVIOUS
    <2>4. g.ref = Len(flows') /\ g.tx = h.tx /\ g.pc = "append"
      BY <1>1 DEF Handler
    <2> HIDE DEF f, g
    <2>5. RowsLinked' /\ RowsKept /\ g.ref \in DOMAIN flows' /\ flows'[g.ref].ref = h.ref
      BY <1>1, <1>2, <2>1, <2>2, <2>3, <2>4, RowAddedLinks
    <2>6. HandlersLinked'
      <3>1. HandlerLinked(chain', flows', g)
        BY <1>1, <1>2, <2>4, <2>5 DEF HandlerLinked
      <3> QED
        BY <1>2, <2>1, <2>5, <3>1, HandlerLinkMoves
    <2> QED
      BY <1>2, <2>5, <2>6, OtherLinksStay DEF Linked, ItemsLinked
  <1> QED
    BY <1>3, <1>4

LEMMA ReportAppendLinks ==
    ASSUME LedgerInv, Linked, NEW r \in Req, ReportAppend(r)
    PROVE  Linked'
  <1> DEFINE h == req[r]
             m == [tx |-> h.tx, main |-> h.main, ref |-> h.ref, op |-> chain[h.tx].kind]
  <1>1. /\ UNCHANGED <<flows, chain, updates, settling>> /\ work' = work \cup {m}
        /\ req' = [req EXCEPT ![r] = Idle] /\ h.pc = "append"
    BY DEF ReportAppend, AppendTopupTx, db
  <1>2. ChainGoesOn /\ ChainLinked' /\ RowsKept
    BY <1>1, SameChain DEF RowsKept
  <1>3. ItemLinked(chain, flows, m)
    BY <1>1 DEF Linked, HandlersLinked, HandlerLinked, ItemLinked
  <1>4. HandlerLinked(chain', flows', Idle)
    BY DEF HandlerLinked, Idle
  <1>5. HandlersLinked'
    BY <1>1, <1>2, <1>4, HandlerLinkMoves
  <1>6. ItemsLinked'
    BY <1>1, <1>3 DEF Linked, ItemsLinked
  <1> QED
    BY <1>1, <1>2, <1>5, <1>6, OtherLinksStay DEF Linked

LEMMA RequestLinks ==
    ASSUME LedgerInv, Linked, NEW r \in Req, RequestNext(r)
    PROVE  Linked'
  <1>1. PICK h : req' = [req EXCEPT ![r] = h] /\ h.pc \notin {"append", "lock_save"}
    <2>1. req[r] \in Handler /\ req \in [Req -> Handler]
      BY DEF LedgerInv, TypeOK
    <2>2. CASE \E pc \in {"request_leave", "request_tx"} : req' = [req EXCEPT ![r].pc = pc]
      <3>1. PICK pc \in {"request_leave", "request_tx"} :
               req' = [req EXCEPT ![r] = [req[r] EXCEPT !.pc = pc]]
        BY <2>1, <2>2
      <3>2. [req[r] EXCEPT !.pc = pc].pc = pc
        BY <2>1 DEF Handler
      <3> QED
        BY <3>1, <3>2
    <2>3. CASE req' = [req EXCEPT ![r] = Idle]
      BY <2>3, IdleTyped
    <2>4. CASE \E u \in Users : WithdrawRequestEnter(r, u)
      <3>1. PICK u \in Users, pc \in {"request_leave", "request_check"} :
               req' = [req EXCEPT ![r] = [Idle EXCEPT !.pc = pc, !.main = u]]
        BY <2>4 DEF WithdrawRequestEnter
      <3>2. [Idle EXCEPT !.pc = pc, !.main = u].pc = pc
        BY DEF Idle
      <3> QED
        BY <3>1, <3>2
    <2> QED
      BY <2>2, <2>3, <2>4 DEF RequestNext, WithdrawRequestCheck, WithdrawRequestCommit,
                              WithdrawRequestRollback, WithdrawRequestLeave
  <1>2. UNCHANGED <<chain, work, updates, settling>> /\ ChainGoesOn /\ ChainLinked'
    BY SameChain DEF RequestNext, WithdrawRequestEnter, WithdrawRequestCheck,
                     WithdrawRequestCommit, WithdrawRequestRollback, WithdrawRequestLeave, db
  <1>3. RowsLinked' /\ RowsKept
    <2>1. CASE WithdrawRequestCommit(r)
      <3>1. PICK a \in Amounts : NewFlow(req[r].main, "Freeze", a, NoTx, NoFlow, FALSE)
        BY <2>1 DEF WithdrawRequestCommit
      <3> DEFINE f == [main |-> req[r].main, op |-> "Freeze", status |-> "Pending", real |-> a,
                       tx |-> NoTx, ref |-> NoFlow, chainID |-> FALSE]
      <3>2. f \in Flow /\ flows' = Append(flows, f)
        BY <3>1, LedgerAssumption
           DEF NewFlow, LedgerInv, TypeOK, Handler, Flow, Ops, Statuses, NoTx, NoFlow
      <3>3. f.op = "Freeze" /\ f.tx = NoTx /\ f.real \in Amounts /\ f.status = "Pending"
        OBVIOUS
      <3> HIDE DEF f
      <3> QED
        BY <1>2, <3>2, <3>3, RowAddedLinks
    <2>2. CASE UNCHANGED flows
      BY <1>2, <2>2 DEF Linked, RowsLinked, RowsKept
    <2> QED
      BY <2>1, <2>2 DEF RequestNext, WithdrawRequestEnter, WithdrawRequestCheck,
                        WithdrawRequestRollback, WithdrawRequestLeave, db
  <1>4. HandlersLinked'
    <2>1. HandlerLinked(chain', flows', h)
      BY <1>1 DEF HandlerLinked
    <2> QED
      BY <1>1, <1>2, <1>3, <2>1, HandlerLinkMoves
  <1> QED
    BY <1>2, <1>3, <1>4, OtherLinksStay DEF Linked, ItemsLinked

LEMMA HandleTopupLinks ==
    ASSUME LedgerInv, Linked, NEW m \in work, HandleTopup(m)
    PROVE  Linked'
  <1>1. /\ UNCHANGED <<flows, chain, settling, req>> /\ work' \subseteq work
        /\ updates' = updates \/ updates' = Append(updates, m)
    BY DEF HandleTopup, db
  <1>2. updates \in Seq(Item) /\ m \in Item
    BY DEF LedgerInv, TypeOK
  <1>3. \A k \in DOMAIN updates' : ItemLinked(chain, flows, updates'[k])
    <2>1. CASE updates' = updates
      BY <2>1 DEF Linked, ItemsLinked
    <2>2. CASE updates' = Append(updates, m)
      <3>1. /\ DOMAIN updates' = 1..(Len(updates) + 1) /\ DOMAIN updates = 1..Len(updates)
            /\ Len(updates) \in Nat /\ updates'[Len(updates) + 1] = m
            /\ \A k \in DOMAIN updates : updates'[k] = updates[k]
        BY <1>2, <2>2, AppendFacts, LenProperties
      <3>2. \A k \in DOMAIN updates' : k \in DOMAIN updates \/ k = Len(updates) + 1
        BY <3>1
      <3> QED
        BY <3>1, <3>2 DEF Linked, ItemsLinked
    <2> QED
      BY <1>1, <2>1, <2>2
  <1> QED
    BY <1>1, <1>3 DEF Linked, ChainLinked, RowsLinked, ItemsLinked, SettlingLinked, HandlersLinked

LEMMA CheckTxLinks ==
    ASSUME LedgerInv, Linked, CheckTx
    PROVE  Linked'
  <1>1. /\ UNCHANGED <<flows, chain, updates, settling, req>>
        /\ \A m \in work' : \/ m \in work
                            \/ \E i \in DOMAIN flows : Rechecked(i) /\ m = CheckItem(i)
    BY DEF CheckTx, db, PendingFlows
  <1>2. ASSUME NEW i \in DOMAIN flows, Rechecked(i)
        PROVE  ItemLinked(chain, flows, CheckItem(i))
    <2> DEFINE f == flows[i]
    <2>1. CASE f.op \in {"Withdraw", "Unfreeze"}
      <3>1. f.tx \in DOMAIN chain /\ chain[f.tx].kind = f.op /\ f.ref = chain[f.tx].ref
        BY <1>2, <2>1 DEF Rechecked, LedgerInv, Tracked, FlowsTracked, Linked, RowsLinked, RowLinked
      <3>2. f.ref \in DOMAIN flows /\ flows[f.ref].op = "Freeze" /\ flows[f.ref].ref = NoFlow
        BY <2>1, <3>1 DEF LedgerInv, Tracked, TxsTracked, FlowsTracked
      <3> QED
        BY <2>1, <3>1, <3>2 DEF ItemLinked, CheckItem
    <2>2. CASE f.op \notin {"Withdraw", "Unfreeze"}
      BY <2>2 DEF ItemLinked, CheckItem
    <2> QED
      BY <2>1, <2>2
  <1> QED
    BY <1>1, <1>2 DEF Linked, ChainLinked, RowsLinked, ItemsLinked, SettlingLinked, HandlersLinked

LEMMA CrashLinks ==
    ASSUME LedgerInv, Linked, Crash
    PROVE  Linked'
  BY DEF Linked, ChainLinked, RowsLinked, ItemsLinked, SettlingLinked, HandlersLinked, Crash,
         HandlerLinked, Idle, db

LEMMA TakeUpdateLinks ==
    ASSUME LedgerInv, Linked, TakeUpdate
    PROVE  Linked'
  <1>1. updates \in Seq(Item) /\ updates # <<>>
    BY DEF TakeUpdate, LedgerInv, TypeOK
  <1>2. /\ 1 \in DOMAIN updates /\ Head(updates) = updates[1]
        /\ \A k \in DOMAIN Tail(updates) : k + 1 \in DOMAIN updates
                                           /\ Tail(updates)[k] = updates[k + 1]
    BY <1>1, TailFacts
  <1>3. PICK m, l : /\ settling' = [item |-> m, lock |-> l] /\ m = Head(updates)
                    /\ l # NoRow => LockFound(m) /\ l = flows[LockOf(m)]
    BY DEF TakeUpdate
  <1>4. UNCHANGED <<flows, chain, work, req>> /\ updates' = Tail(updates)
    BY DEF TakeUpdate, db
  <1>5. ItemsLinked'
    BY <1>2, <1>4 DEF Linked, ItemsLinked
  <1>6. SettlingLinked'
    <2>1. ItemLinked(chain, flows, m)
      BY <1>2, <1>3 DEF Linked, ItemsLinked
    <2>2. l # NoRow => RowLinked(chain, l, flows[m.ref].ref)
      BY <1>3 DEF Linked, RowsLinked, LockFound, LockOf
    <2> QED
      BY <1>3, <1>4, <2>1, <2>2 DEF SettlingLinked
  <1> QED
    BY <1>4, <1>5, <1>6 DEF Linked, ChainLinked, RowsLinked, HandlersLinked

\* Only a mined transaction is booked.
LEMMA BookedIsMined ==
    ASSUME NEW m, Book(m)
    PROVE  chain[m.tx].status \in {"success", "failed"}
  BY DEF Book

LEMMA UpdateAccountBalanceLinks ==
    ASSUME LedgerInv, Linked, UpdateAccountBalance
    PROVE  Linked'
  <1> DEFINE m == settling.item
             l == settling.lock
  <1>1. /\ settling # NoRow /\ settling' = NoRow
        /\ UNCHANGED <<chain, work, updates, req>>
    BY DEF UpdateAccountBalance
  <1>2. ChainGoesOn /\ ChainLinked' /\ SettlingLinked'
    BY <1>1, SameChain DEF SettlingLinked
  <1>3. RowsLinked' /\ RowsKept
    <2>1. CASE flows' = flows
      BY <1>1, <2>1 DEF Linked, RowsLinked, RowsKept
    <2>2. CASE \E i \in DOMAIN flows : Applies(m, i) /\ Settle(m, i) /\ Book(m)
      <3>1. PICK i \in DOMAIN flows : Applies(m, i) /\ Settle(m, i) /\ Book(m)
        BY <2>2
      <3>2. /\ DOMAIN flows' = DOMAIN flows
            /\ flows'[i] = [flows[i] EXCEPT !.status = SettledStatus(m), !.chainID = TRUE,
                                            !.real = chain[m.tx].amount]
            /\ \A j \in DOMAIN flows : j # i =>
                  \/ flows'[j] = flows[j]
                  \/ ClosesLock(m, j) /\ flows'[j] = [l EXCEPT !.status = ClosedStatus(m)]
            /\ \A j \in DOMAIN flows : /\ flows'[j].op = flows[j].op
                                       /\ flows'[j].main = flows[j].main
                                       /\ flows'[j].ref = flows[j].ref
        BY <1>1, <3>1, RowsSettled
      <3>3. m.tx \in DOMAIN chain /\ chain[m.tx].kind = m.op /\ m.op \in Ops /\ m.tx \in Nat
            /\ m.tx # NoTx
        <4>1. m \in Item /\ ItemTracked(m) /\ chain \in Seq(Tx)
          BY <1>1, SettlingItem DEF LedgerInv, TypeOK
        <4>2. DOMAIN chain = 1..Len(chain) /\ Len(chain) \in Nat
          BY <4>1, LenProperties
        <4> QED
          BY <4>1, <4>2 DEF ItemTracked, Item, NoTx
      <3>4. chain[m.tx].amount \in Amounts /\ chain[m.tx].status \in {"success", "failed"}
        BY <3>1, <3>3, BookedIsMined DEF Linked, ChainLinked
      <3>5. RowLinked(chain, flows'[i], i)
        <4>1. /\ flows[i] \in Flow /\ flows[i].tx = m.tx /\ flows[i].op = m.op
              /\ RowLinked(chain, flows[i], i)
          BY <3>1, <3>3, LenProperties
             DEF Applies, IsTarget, LedgerInv, TypeOK, Tracked, FlowsTracked, Linked, RowsLinked
        <4> DEFINE f == flows'[i]
        <4>2. f.tx = m.tx /\ f.op = m.op /\ f.status = SettledStatus(m)
              /\ f.real = chain[m.tx].amount /\ f.ref = flows[i].ref
          BY <3>2, <4>1 DEF Flow
        <4>3. chain[m.tx].ref = IF m.op = "Freeze" THEN i ELSE f.ref
          BY <3>3, <4>1, <4>2 DEF RowLinked
        <4>4. CASE m.op # "Freeze"
          BY <3>3, <3>4, <4>2, <4>3, <4>4 DEF RowLinked, SettledStatus
        <4>5. CASE m.op = "Freeze"
          <5>1. \/ f.status = "Failed"
                \/ f.status = "PendingWithDraw" /\ chain[m.tx].status = "success"
            BY <3>4, <4>2, <4>5 DEF SettledStatus
          <5>2. f.status = "PendingWithDraw" => ClosedIn(chain, "Freeze", i)
            BY <3>3, <4>3, <4>5, <5>1 DEF ClosedIn
          <5> QED
            BY <3>3, <3>4, <4>2, <4>3, <4>5, <5>1, <5>2 DEF RowLinked
        <4> QED
          BY <4>4, <4>5
      <3>6. ASSUME NEW j \in DOMAIN flows, ClosesLock(m, j),
                   flows'[j] = [l EXCEPT !.status = ClosedStatus(m)]
            PROVE  RowLinked(chain, flows'[j], j)
        <4>1. /\ l # NoRow /\ l \in Flow /\ l.op = "Freeze" /\ m.op \in {"Withdraw", "Unfreeze"}
              /\ flows[m.ref].ref = j /\ RowLinked(chain, l, j)
          BY <1>1, <3>1, <3>6
             DEF ClosesLock, Applies, NeedsLock, LockOf, LedgerInv, TypeOK, Settling, Tracked,
                 SettlingTracked, Linked, SettlingLinked
        <4>2. j # NoFlow
          BY LenProperties DEF NoFlow, LedgerInv, TypeOK
        <4>3. chain[m.tx].ref = j /\ chain[m.tx].status = "success"
          BY <1>1, <3>6, <4>1, <4>2 DEF ClosesLock, Linked, SettlingLinked, ItemLinked
        <4>4. ClosedIn(chain, m.op, j)
          BY <3>3, <4>3 DEF ClosedIn
        <4> DEFINE f == flows'[j]
        <4>5. f.op = l.op /\ f.tx = l.tx /\ f.ref = l.ref /\ f.real = l.real
              /\ f.status = ClosedStatus(m)
          BY <3>6, <4>1 DEF Flow
        <4>6. \/ f.status = "Success" /\ m.op = "Withdraw"
              \/ f.status = "Canceled" /\ m.op = "Unfreeze"
          BY <4>1, <4>5 DEF ClosedStatus
        <4> QED
          BY <4>1, <4>4, <4>5, <4>6 DEF RowLinked
      <3>7. \A j \in DOMAIN flows : RowLinked(chain, flows'[j], j)
        BY <3>2, <3>5, <3>6 DEF Linked, RowsLinked
      <3> QED
        BY <1>1, <3>2, <3>7 DEF RowsLinked, RowsKept
    <2> QED
      BY <2>1, <2>2 DEF UpdateAccountBalance, db
  <1> QED
    BY <1>1, <1>2, <1>3, OtherLinksStay DEF Linked, ItemsLinked, HandlersLinked

LEMMA LinkedInitially == Init => Linked
  BY DEF Init, Linked, ChainLinked, RowsLinked, ItemsLinked, SettlingLinked, HandlersLinked,
         HandlerLinked, Idle

LEMMA LinkedStep == LedgerInv /\ Linked /\ [Next]_vars => Linked'
  <1> SUFFICES ASSUME LedgerInv, Linked, [Next]_vars PROVE Linked'
    OBVIOUS
  <1>1. CASE (\E u \in Users : QueryBalance(u)) \/ UNCHANGED vars
    BY <1>1, QuietLinks DEF QueryBalance, vars, db
  <1>2. CASE \E u \in Users : SendDeposit(u) \/ SendLockTx(u)
    BY <1>2, SendLinks
  <1>3. CASE \E t \in DOMAIN chain : Mine(t)
    BY <1>3, MineLinks
  <1>4. CASE \E r \in Req : ReportNext(r)
    BY <1>4, ReportReadLinks, ReportLockSaveLinks, NewReportLinks, ReportAppendLinks DEF ReportNext
  <1>5. CASE \E r \in Req : RequestNext(r)
    BY <1>5, RequestLinks
  <1>6. CASE \E m \in work : HandleTopup(m)
    BY <1>6, HandleTopupLinks
  <1>7. CASE TakeUpdate
    BY <1>7, TakeUpdateLinks
  <1>8. CASE UpdateAccountBalance
    BY <1>8, UpdateAccountBalanceLinks
  <1>9. CASE CheckTx
    BY <1>9, CheckTxLinks
  <1>10. CASE Crash
    BY <1>10, CrashLinks
  <1> QED
    BY <1>1, <1>2, <1>3, <1>4, <1>5, <1>6, <1>7, <1>8, <1>9, <1>10 DEF Next

\* Both halves of the inductive invariant hold in every reachable state.
THEOREM LinksInvariant == Spec => [](LedgerInv /\ Linked)
  <1>1. Init => LedgerInv /\ Linked
    BY InvariantInitially, LinkedInitially
  <1>2. LedgerInv /\ Linked /\ [Next]_vars => (LedgerInv /\ Linked)'
    BY InvariantStep, LinkedStep
  <1> QED
    BY <1>1, <1>2, PTL DEF Spec

\* A status in the ledger says what happened on chain, whatever was saved over it by a
\* handler or an update that had read the row earlier.
THEOREM StatusIsOnChain == Spec => []StatusFollowsChain
  <1>1. Linked => StatusFollowsChain
    BY DEF Linked, RowsLinked, RowLinked, ClosedIn, StatusFollowsChain, Opened, Mined
  <1> QED
    BY <1>1, LinksInvariant, PTL

-----------------------------------------------------------------------------
(* The ledger implements the account book *)

Spendable == [u \in Users |-> account[u].available]
Reserved == [u \in Users |-> account[u].withdrawal]
IsMined(c, t) == t \in DOMAIN c /\ c[t].kind # "Freeze" /\ c[t].status = "success"
EntryOf(c, t) == [tx |-> t, kind |-> c[t].kind, main |-> c[t].main, amount |-> c[t].amount]

\* A step that adds or changes no settled row books nothing.
LEMMA BookedSame ==
    ASSUME LedgerInv,
           \A i \in DOMAIN flows :
               /\ i \in DOMAIN flows' /\ flows'[i].op = flows[i].op
               /\ flows[i].op # "Freeze" => /\ flows'[i].tx = flows[i].tx
                                            /\ flows'[i].status = flows[i].status,
           \A i \in DOMAIN flows' : i \notin DOMAIN flows => flows'[i].status = "Pending"
    PROVE  Booked' = Booked
  <1>1. \A x : x \in Booked => x \in Booked'
    BY DEF Booked
  <1>2. \A x : x \in Booked' => x \in Booked
    BY DEF Booked
  <1> QED
    BY <1>1, <1>2

LEMMA MinedMember == \A x : x \in MinedEntries <=> \E t : IsMined(chain, t) /\ x = EntryOf(chain, t)
  BY DEF MinedEntries, IsMined, EntryOf

LEMMA MinedMemberNext ==
    \A x : x \in MinedEntries' <=> \E t : IsMined(chain', t) /\ x = EntryOf(chain', t)
  BY DEF MinedEntries, IsMined, EntryOf

LEMMA MinedSame ==
    ASSUME \A t : IsMined(chain', t) <=> IsMined(chain, t),
           \A t \in DOMAIN chain : EntryOf(chain', t) = EntryOf(chain, t)
    PROVE  MinedEntries' = MinedEntries
  <1>1. \A x : x \in MinedEntries' <=> x \in MinedEntries
    BY MinedMember, MinedMemberNext DEF IsMined
  <1> QED
    BY <1>1

\* A step that leaves the four variables of the book alone is a stutter of it.
LEMMA QuietBook ==
    ASSUME Spendable' = Spendable, Reserved' = Reserved, MinedEntries' = MinedEntries,
           Booked' = Booked
    PROVE  UNCHANGED Ledger!bookVars
  BY DEF Ledger!bookVars, Spendable, Reserved

LEMMA BookInitially == Init => Ledger!BookInit
  <1> SUFFICES ASSUME Init PROVE Ledger!BookInit
    OBVIOUS
  <1>1. MinedEntries = {} /\ Booked = {}
    BY DEF Init, MinedEntries, Booked
  <1>2. /\ [u \in Users |-> account[u].available] = [u \in Users |-> Opening]
        /\ [u \in Users |-> account[u].withdrawal] = [u \in Users |-> 0]
    BY DEF Init
  <1> QED
    BY <1>1, <1>2 DEF Ledger!BookInit

\* The columns of one user's row change, those of the others do not.
LEMMA ColumnsMove ==
    ASSUME TypeOK, NEW u \in Users, NEW a, NEW w,
           account'[u].available = a, account'[u].withdrawal = w,
           \A v \in Users : v # u => account'[v] = account[v]
    PROVE  /\ Spendable' = [Spendable EXCEPT ![u] = a]
           /\ Reserved' = [Reserved EXCEPT ![u] = w]
  BY DEF Spendable, Reserved

LEMMA SendBook ==
    ASSUME LedgerInv, NEW u \in Users, SendDeposit(u) \/ SendLockTx(u)
    PROVE  UNCHANGED Ledger!bookVars
  <1>1. PICK e : /\ chain' = Append(chain, e) /\ e.status = "pending"
                 /\ UNCHANGED <<account, flows>>
    BY DEF SendDeposit, SendLockTx, Send, db
  <1>2. chain \in Seq(Tx) /\ DOMAIN chain = 1..Len(chain) /\ Len(chain) \in Nat
    BY LenProperties DEF LedgerInv, TypeOK
  <1>3. /\ DOMAIN chain' = 1..(Len(chain) + 1)
        /\ \A t \in DOMAIN chain : chain'[t] = chain[t]
        /\ chain'[Len(chain) + 1] = e
    BY <1>1, <1>2
  <1>4. \A t : IsMined(chain', t) <=> IsMined(chain, t)
    BY <1>1, <1>2, <1>3 DEF IsMined
  <1>5. MinedEntries' = MinedEntries
    BY <1>3, <1>4, MinedSame DEF EntryOf
  <1> QED
    BY <1>1, <1>5, QuietBook DEF Spendable, Reserved, Booked

LEMMA MineBook ==
    ASSUME LedgerInv, Linked, NEW t \in DOMAIN chain, Mine(t)
    PROVE  [Ledger!BookNext]_(Ledger!bookVars)
  <1>1. PICK s \in {"success", "failed"} : chain' = [chain EXCEPT ![t].status = s]
    BY DEF Mine
  <1>2. chain[t].status = "pending" /\ UNCHANGED <<account, flows>>
    BY DEF Mine, db
  <1>3. chain[t] \in Tx /\ t \in 1..MaxTx /\ chain[t].amount \in Amounts
    BY LenProperties DEF LedgerInv, TypeOK, Linked, ChainLinked
  <1>4. /\ DOMAIN chain' = DOMAIN chain /\ chain'[t].status = s
        /\ \A k \in DOMAIN chain : k # t => chain'[k] = chain[k]
        /\ EntryOf(chain', t) = EntryOf(chain, t) /\ chain'[t].kind = chain[t].kind
    BY <1>1, <1>3 DEF Tx, EntryOf
  <1>5. \A k \in DOMAIN chain : EntryOf(chain', k) = EntryOf(chain, k)
    BY <1>4 DEF EntryOf
  <1>6. Spendable' = Spendable /\ Reserved' = Reserved /\ Booked' = Booked
    BY <1>2 DEF Spendable, Reserved, Booked
  <1>7. CASE s = "failed" \/ chain[t].kind = "Freeze"
    <2>1. \A k : IsMined(chain', k) <=> IsMined(chain, k)
      BY <1>2, <1>4, <1>7 DEF IsMined
    <2> QED
      BY <1>5, <1>6, <2>1, MinedSame, QuietBook
  <1>8. CASE s = "success" /\ chain[t].kind # "Freeze"
    <2> DEFINE e == EntryOf(chain, t)
    <2>1. \A k : IsMined(chain', k) <=> IsMined(chain, k) \/ k = t
      BY <1>4, <1>8 DEF IsMined
    <2>2. \A x : x \in MinedEntries' <=> x \in MinedEntries \/ x = e
      <3> HIDE DEF e
      <3>1. \A x : x \in MinedEntries' <=> \E k : IsMined(chain', k) /\ x = EntryOf(chain', k)
        BY MinedMemberNext
      <3>2. \A k : IsMined(chain', k) => EntryOf(chain', k) = EntryOf(chain, k)
        BY <1>4, <1>5 DEF IsMined
      <3> QED
        BY <2>1, <3>1, <3>2, MinedMember DEF e
    <2>3. \A x \in MinedEntries : x.tx # e.tx
      <3>1. \A k : IsMined(chain, k) => k # t
        BY <1>2 DEF IsMined
      <3> QED
        BY <3>1, MinedMember DEF EntryOf
    <2>4. e \in Ledger!Entry
      BY <1>3, <1>8 DEF EntryOf, Ledger!Entry, TxIds, Tx, Ops
    <2>5. MinedEntries' = MinedEntries \cup {e}
      BY <2>2
    <2>6. Ledger!Confirm(e)
      BY <1>6, <2>3, <2>5 DEF Ledger!Confirm, Spendable, Reserved
    <2> QED
      BY <2>4, <2>6 DEF Ledger!BookNext
  <1> QED
    BY <1>7, <1>8

\* What moves by da and dw in the ledger moves so in the book.
LEMMA BookMove ==
    ASSUME TypeOK, NEW u \in Users, NEW da \in Int, NEW dw \in Int,
           account'[u].available = account[u].available + da,
           account'[u].withdrawal = account[u].withdrawal + dw,
           \A v \in Users : v # u => account'[v] = account[v]
    PROVE  Ledger!Move(u, da, dw)
  <1>1. /\ Spendable' = [Spendable EXCEPT ![u] = account[u].available + da]
        /\ Reserved' = [Reserved EXCEPT ![u] = account[u].withdrawal + dw]
    BY ColumnsMove
  <1>2. Spendable[u] = account[u].available /\ Reserved[u] = account[u].withdrawal
    BY DEF Spendable, Reserved
  <1>3. /\ Spendable' = [Spendable EXCEPT ![u] = @ + da]
        /\ Reserved' = [Reserved EXCEPT ![u] = @ + dw]
    BY <1>1, <1>2
  <1> QED
    BY <1>3 DEF Ledger!Move, Spendable, Reserved

LEMMA RequestBook ==
    ASSUME LedgerInv, NEW r \in Req, WithdrawRequestCommit(r)
    PROVE  Ledger!BookNext
  <1>0. PICK u : u = req[r].main
    OBVIOUS
  <1>1. PICK a \in Amounts : /\ account[u].available >= a
                             /\ account' = [account EXCEPT ![u].available = @ - a,
                                                           ![u].withdrawal = @ + a]
                             /\ NewFlow(u, "Freeze", a, NoTx, NoFlow, FALSE)
    BY <1>0 DEF WithdrawRequestCommit
  <1>2. /\ u \in Users /\ a \in Nat
        /\ account \in [Users -> [exists : BOOLEAN, available : Nat, withdrawal : Nat]]
        /\ flows \in Seq(Flow) /\ UNCHANGED chain
    BY <1>0, LedgerAssumption DEF LedgerInv, TypeOK, Handler, WithdrawRequestCommit
  <1>3. /\ account'[u].available = account[u].available + (-a)
        /\ account'[u].withdrawal = account[u].withdrawal + a
        /\ \A v \in Users : v # u => account'[v] = account[v]
    <2>1. account[u] \in [exists : BOOLEAN, available : Nat, withdrawal : Nat]
      BY <1>2
    <2>2. account' = [account EXCEPT ![u] = [account[u] EXCEPT !.available = @ - a,
                                                               !.withdrawal = @ + a]]
      BY <1>1, <1>2
    <2> QED
      BY <1>2, <2>1, <2>2
  <1>4. Ledger!Move(u, -a, a)
    <2>1. -a \in Int /\ a \in Int
      BY <1>2
    <2> QED
      BY <1>2, <1>3, <2>1, BookMove DEF LedgerInv
  <1>5. MinedEntries' = MinedEntries
    BY <1>2 DEF MinedEntries
  <1>6. Booked' = Booked
    <2> DEFINE f == [main |-> u, op |-> "Freeze", status |-> "Pending", real |-> a,
                     tx |-> NoTx, ref |-> NoFlow, chainID |-> FALSE]
    <2>1. flows' = Append(flows, f) /\ f.status = "Pending"
      BY <1>1 DEF NewFlow
    <2> HIDE DEF f
    <2>2. /\ DOMAIN flows' = 1..(Len(flows) + 1) /\ DOMAIN flows = 1..Len(flows)
          /\ Len(flows) \in Nat /\ flows'[Len(flows) + 1] = f
          /\ \A i \in DOMAIN flows : i \in DOMAIN flows' /\ flows'[i] = flows[i]
      BY <1>2, <2>1, LenProperties
    <2> QED
      BY <2>1, <2>2, BookedSame
  <1>7. Spendable[u] >= a
    BY <1>1, <1>2 DEF Spendable
  <1>8. Ledger!Reserve(u, a)
    BY <1>4, <1>5, <1>6, <1>7 DEF Ledger!Reserve, Spendable
  <1> QED
    BY <1>2, <1>8 DEF Ledger!BookNext

LEMMA ReportBook ==
    ASSUME LedgerInv, NEW r \in Req, ReportNext(r)
    PROVE  UNCHANGED Ledger!bookVars
  <1>1. UNCHANGED <<account, chain>>
    BY DEF ReportNext, ReportRead, ReportLockSave, ReportCancelSave, ReportCommit, ReportAppend, db
  <1>2. Booked' = Booked
    <2>1. CASE flows' = flows
      BY <2>1 DEF Booked
    <2>2. CASE ReportLockSave(r)
      <3>1. /\ req[r] \in Handler /\ req[r].ref \in DOMAIN flows /\ flows[req[r].ref].op = "Freeze"
            /\ req[r].row \in Flow /\ req[r].row.op = "Freeze"
        BY <2>2 DEF LedgerInv, TypeOK, Tracked, HandlersTracked, ReportLockSave
      <3>2. flows' = [flows EXCEPT ![req[r].ref] = [req[r].row EXCEPT !.tx = req[r].tx]]
        BY <2>2 DEF ReportLockSave
      <3>3. [req[r].row EXCEPT !.tx = req[r].tx].op = "Freeze"
        BY <3>1 DEF Flow
      <3>4. DOMAIN flows' = DOMAIN flows /\ flows'[req[r].ref].op = "Freeze"
            /\ \A i \in DOMAIN flows : i # req[r].ref => flows'[i] = flows[i]
        BY <3>1, <3>2, <3>3
      <3> QED
        BY <3>1, <3>4, BookedSame
    <2>3. CASE ~(flows' = flows) /\ (ReportCancelSave(r) \/ ReportCommit(r))
      <3>1. PICK f : flows' = Append(flows, f) /\ f.status = "Pending"
        BY <2>3 DEF ReportCancelSave, ReportCommit, NewFlow
      <3>2. flows \in Seq(Flow)
        BY DEF LedgerInv, TypeOK
      <3>3. /\ DOMAIN flows' = 1..(Len(flows) + 1) /\ DOMAIN flows = 1..Len(flows)
            /\ Len(flows) \in Nat /\ flows'[Len(flows) + 1] = f
            /\ \A i \in DOMAIN flows : i \in DOMAIN flows' /\ flows'[i] = flows[i]
        BY <3>1, <3>2, LenProperties
      <3> QED
        BY <3>1, <3>3, BookedSame
    <2> QED
      BY <2>1, <2>2, <2>3 DEF ReportNext, ReportRead, ReportAppend, db
  <1> QED
    BY <1>1, <1>2, QuietBook DEF Spendable, Reserved, MinedEntries

\* Settling a mined deposit, claim or cancel is the book's settlement of it: it was
\* not booked before, because only the first row with its hash leaves Pending.
LEMMA SettleBook ==
    ASSUME LedgerInv, Linked, settling # NoRow, UNCHANGED chain, NEW i \in DOMAIN flows,
           Applies(settling.item, i), Settle(settling.item, i), Book(settling.item)
    PROVE  [Ledger!BookNext]_(Ledger!bookVars)
  <1> DEFINE m == settling.item
             u == m.main
             a == chain[m.tx].amount
  <1>1. m \in Item /\ ItemTracked(m) /\ chain[m.tx] \in Tx /\ u \in Users /\ a \in Nat
    BY SettlingItem DEF Item, Tx
  <1>2. m.tx \in DOMAIN chain /\ m.tx \in 1..MaxTx /\ m.tx # NoTx /\ a \in Amounts
    BY <1>1 DEF ItemTracked, Linked, ChainLinked, NoTx
  <1>3. /\ DOMAIN flows' = DOMAIN flows /\ flows[i] \in Flow
        /\ flows'[i] = [flows[i] EXCEPT !.status = SettledStatus(m), !.chainID = TRUE,
                                        !.real = chain[m.tx].amount]
        /\ \A j \in DOMAIN flows : /\ flows'[j].op = flows[j].op
                                   /\ flows[j].op # "Freeze" => flows'[j].tx = flows[j].tx
                                   /\ flows[j].op # "Freeze" /\ j # i => flows'[j] = flows[j]
    <2>1. flows[i] \in Flow
      BY LenProperties DEF LedgerInv, TypeOK
    <2> QED
      BY <2>1, RowsSettled
  <1>4. /\ flows[i].tx = m.tx /\ flows[i].op = m.op /\ flows[i].main = m.main
        /\ flows[i].status = "Pending" /\ Covered(m)
    BY <1>1, <1>2 DEF Applies, IsTarget, LedgerInv, Tracked, FlowsTracked, ItemTracked
  <1>5. flows'[i].status = SettledStatus(m)
    BY <1>3 DEF Flow
  <1>6. MinedEntries' = MinedEntries
    BY DEF MinedEntries
  <1>7. account \in [Users -> [exists : BOOLEAN, available : Nat, withdrawal : Nat]]
        /\ account[u].available \in Nat /\ account[u].withdrawal \in Nat
    BY <1>1 DEF LedgerInv, TypeOK
  <1>8. CASE m.op = "Freeze" \/ chain[m.tx].status = "failed"
    <2>1. Booked' = Booked
      <3>1. \A x : x \in Booked => x \in Booked'
        BY <1>3, <1>4 DEF Booked
      <3>2. ASSUME m.op # "Freeze" PROVE flows'[i].status = "Failed"
        BY <1>5, <1>8, <3>2 DEF SettledStatus
      <3>3. ASSUME NEW j \in DOMAIN flows, flows'[j].op # "Freeze", flows'[j].status = "Success"
            PROVE  flows'[j].tx \in Booked
        <4>1. j # i
          BY <1>3, <1>4, <3>2, <3>3
        <4> QED
          BY <1>3, <3>3, <4>1 DEF Booked
      <3>4. \A x : x \in Booked' => x \in Booked
        BY <1>3, <3>3 DEF Booked
      <3> QED
        BY <3>1, <3>4
    <2>2. Spendable' = Spendable /\ Reserved' = Reserved
      <3>1. CASE UNCHANGED account
        BY <3>1 DEF Spendable, Reserved
      <3>2. CASE MoveBalance(u, 0, 0)
        <4>1. account[u].available + 0 = account[u].available
              /\ account[u].withdrawal + 0 = account[u].withdrawal
          BY <1>7
        <4>2. /\ account'[u].available = account[u].available
              /\ account'[u].withdrawal = account[u].withdrawal
              /\ \A v \in Users : v # u => account'[v] = account[v]
          BY <1>1, <1>7, <3>2, <4>1, BalanceMoved DEF LedgerInv
        <4> QED
          BY <4>2 DEF Spendable, Reserved
      <3> QED
        BY <1>8, <3>1, <3>2 DEF Book
    <2> QED
      BY <1>6, <2>1, <2>2, QuietBook
  <1>9. CASE m.op # "Freeze" /\ chain[m.tx].status = "success"
    <2>0. PICK e : e = EntryOf(chain, m.tx)
      OBVIOUS
    <2>1. e.tx = m.tx /\ e.kind = m.op /\ e.main = u /\ e.amount = a
      BY <2>0, <1>1 DEF EntryOf, ItemTracked
    <2>2. e \in MinedEntries
      BY <2>0, <1>2, <1>9, <1>1, MinedMember DEF IsMined, ItemTracked
    <2>3. e \in Ledger!Entry
      BY <2>0, <1>1, <1>2, <1>9 DEF EntryOf, Ledger!Entry, TxIds, Item, Ops, ItemTracked
    <2>4. e.tx \notin Booked
      <3> SUFFICES ASSUME NEW j \in DOMAIN flows, flows[j].op # "Freeze",
                          flows[j].status = "Success", flows[j].tx = m.tx
                   PROVE  FALSE
        BY <2>1 DEF Booked
      <3>1. flows[j].main = m.main
        BY <1>1, <1>2 DEF LedgerInv, Tracked, FlowsTracked, ItemTracked
      <3>2. i <= j /\ i # j /\ i \in Nat /\ j \in Nat
        BY <1>4, <3>1, LenProperties DEF Applies, IsTarget, LedgerInv, TypeOK
      <3> QED
        BY <1>4, <1>9, <3>1, <3>2 DEF LedgerInv, OnlyFirstReportSettles
    <2>5. Booked' = Booked \cup {e.tx}
      <3>1. flows'[i].status = "Success" /\ flows'[i].op = m.op /\ flows'[i].tx = m.tx
        BY <1>3, <1>4, <1>5, <1>9 DEF SettledStatus
      <3>2. \A x : x \in Booked \/ x = m.tx => x \in Booked'
        <4>1. ASSUME NEW j \in DOMAIN flows, flows[j].op # "Freeze", flows[j].status = "Success"
              PROVE  flows[j].tx \in Booked'
          <5>1. j # i
            BY <1>4, <4>1
          <5> QED
            BY <1>3, <4>1, <5>1 DEF Booked
        <4>2. m.tx \in Booked'
          BY <1>3, <1>9, <3>1 DEF Booked
        <4> QED
          BY <4>1, <4>2 DEF Booked
      <3>3. \A x : x \in Booked' => x \in Booked \/ x = m.tx
        BY <1>3, <3>1 DEF Booked
      <3> QED
        BY <2>1, <3>2, <3>3
    <2>6. Reserved[u] = account[u].withdrawal
      BY <1>1 DEF Reserved
    <2>7. CASE m.op = "Recharge" /\ MoveBalance(u, a, 0)
      <3>1. a \in Int /\ 0 \in Int /\ account[u].available + a \in Nat
            /\ account[u].withdrawal + 0 \in Nat
        BY <1>1, <1>7
      <3>2. Ledger!Move(u, a, 0)
        BY <1>1, <2>7, <3>1, BalanceMoved, BookMove DEF LedgerInv
      <3> QED
        BY <1>6, <2>1, <2>2, <2>3, <2>4, <2>5, <2>7, <3>2 DEF Ledger!Settle, Ledger!BookNext
    <2>8. CASE m.op = "Withdraw" /\ MoveBalance(u, 0, -a)
      <3>1. account[u].withdrawal >= a
        BY <1>4, <1>9, <2>8 DEF Covered, NeedsLock
      <3>2. -e.amount \in Int /\ 0 \in Int /\ account[u].available + 0 \in Nat
            /\ account[u].withdrawal + (-a) \in Nat
        BY <1>1, <1>7, <2>1, <3>1
      <3>3. Ledger!Move(e.main, 0, -e.amount)
        <4>3. -a \in Int /\ a \in Int
          BY <1>1
        <4>1. /\ account'[u].available = account[u].available + 0
              /\ account'[u].withdrawal = account[u].withdrawal + (-a)
              /\ \A v \in Users : v # u => account'[v] = account[v]
          BY <1>1, <2>8, <3>2, <4>3, BalanceMoved DEF LedgerInv
        <4>2. /\ e.main \in Users
              /\ account'[e.main].available = account[e.main].available + 0
              /\ account'[e.main].withdrawal = account[e.main].withdrawal + (-e.amount)
              /\ \A v \in Users : v # e.main => account'[v] = account[v]
          BY <1>1, <2>1, <4>1
        <4> QED
          BY <3>2, <4>2, BookMove DEF LedgerInv
      <3> QED
        <4>2. Reserved[e.main] >= e.amount /\ e.kind = "Withdraw"
          BY <2>1, <2>6, <2>8, <3>1
        <4>3. Ledger!Settle(e)
          BY <1>6, <2>2, <2>4, <2>5, <3>3, <4>2 DEF Ledger!Settle, Reserved
        <4> QED
          BY <2>3, <4>3 DEF Ledger!BookNext
    <2>9. CASE m.op = "Unfreeze" /\ MoveBalance(u, a, -a)
      <3>1. account[u].withdrawal >= a
        BY <1>4, <1>9, <2>9 DEF Covered, NeedsLock
      <3>2. -e.amount \in Int /\ e.amount \in Int /\ account[u].available + a \in Nat
            /\ account[u].withdrawal + (-a) \in Nat
        BY <1>1, <1>7, <2>1, <3>1
      <3>3. Ledger!Move(e.main, e.amount, -e.amount)
        <4>3. -a \in Int /\ a \in Int
          BY <1>1
        <4>1. /\ account'[u].available = account[u].available + a
              /\ account'[u].withdrawal = account[u].withdrawal + (-a)
              /\ \A v \in Users : v # u => account'[v] = account[v]
          BY <1>1, <2>9, <3>2, <4>3, BalanceMoved DEF LedgerInv
        <4>2. /\ e.main \in Users
              /\ account'[e.main].available = account[e.main].available + e.amount
              /\ account'[e.main].withdrawal = account[e.main].withdrawal + (-e.amount)
              /\ \A v \in Users : v # e.main => account'[v] = account[v]
          BY <1>1, <2>1, <4>1
        <4> QED
          BY <3>2, <4>2, BookMove DEF LedgerInv
      <3> QED
        <4>2. Reserved[e.main] >= e.amount /\ e.kind = "Unfreeze"
          BY <2>1, <2>6, <2>9, <3>1
        <4>3. Ledger!Settle(e)
          BY <1>6, <2>2, <2>4, <2>5, <3>3, <4>2 DEF Ledger!Settle, Reserved
        <4> QED
          BY <2>3, <4>3 DEF Ledger!BookNext
    <2> QED
      BY <1>9, <2>7, <2>8, <2>9 DEF Book
  <1> QED
    BY <1>8, <1>9, BookedIsMined

LEMMA BookStep == LedgerInv /\ Linked /\ [Next]_vars => [Ledger!BookNext]_(Ledger!bookVars)
  <1> SUFFICES ASSUME LedgerInv, Linked, [Next]_vars
               PROVE  [Ledger!BookNext]_(Ledger!bookVars)
    OBVIOUS
  <1>1. CASE UNCHANGED <<account, flows, chain>>
    BY <1>1, QuietBook DEF Spendable, Reserved, MinedEntries, Booked
  <1>2. CASE \E u \in Users : SendDeposit(u) \/ SendLockTx(u)
    BY <1>2, SendBook
  <1>3. ASSUME NEW u \in Users, QueryBalance(u) PROVE UNCHANGED Ledger!bookVars
    <2>1. /\ account' = [account EXCEPT ![u].exists = TRUE] /\ UNCHANGED <<flows, chain>>
          /\ account \in [Users -> [exists : BOOLEAN, available : Nat, withdrawal : Nat]]
      BY <1>3 DEF QueryBalance, LedgerInv, TypeOK
    <2>2. \A v \in Users : /\ account'[v].available = account[v].available
                           /\ account'[v].withdrawal = account[v].withdrawal
      BY <2>1
    <2> QED
      BY <2>1, <2>2, QuietBook DEF Spendable, Reserved, MinedEntries, Booked
  <1>4. CASE \E t \in DOMAIN chain : Mine(t)
    BY <1>4, MineBook
  <1>5. CASE \E r \in Req : ReportNext(r)
    BY <1>5, ReportBook
  <1>6. CASE \E r \in Req : WithdrawRequestCommit(r)
    BY <1>6, RequestBook
  <1>7. CASE UpdateAccountBalance
    <2>1. settling # NoRow /\ UNCHANGED chain
      BY <1>7 DEF UpdateAccountBalance
    <2>2. CASE \E i \in DOMAIN flows : /\ Applies(settling.item, i) /\ Settle(settling.item, i)
                                       /\ Book(settling.item)
      BY <2>1, <2>2, SettleBook
    <2> QED
      BY <1>1, <1>7, <2>1, <2>2 DEF UpdateAccountBalance, db
  <1>8. CASE \E r \in Req : RequestNext(r)
    BY <1>1, <1>6, <1>8 DEF RequestNext, WithdrawRequestEnter, WithdrawRequestCheck,
                            WithdrawRequestRollback, WithdrawRequestLeave, db
  <1>9. CASE (\E m \in work : HandleTopup(m)) \/ TakeUpdate \/ CheckTx \/ Crash \/ UNCHANGED vars
    BY <1>1, <1>9 DEF HandleTopup, TakeUpdate, CheckTx, Crash, vars, db
  <1> QED
    BY <1>2, <1>3, <1>4, <1>5, <1>7, <1>8, <1>9 DEF Next

\* The code implements the account book for every number of users, transactions and
\* handlers: a balance moves only for a mined transaction, by its amount and once, or
\* to reserve a part of it, and a reservation is never overdrawn.
THEOREM LedgerImplementsBook == Spec => ImplementsAccountBook
  <1>1. Spec => [][Ledger!BookNext]_(Ledger!bookVars)
    BY LinksInvariant, BookStep, PTL DEF Spec
  <1> QED
    BY <1>1, BookInitially, PTL DEF Spec, ImplementsAccountBook, Ledger!BookSpec

-----------------------------------------------------------------------------
(* The books: what accounts and tickets are in terms of the rows, as sums.  *)

\* A row's amount is that of what it is about: a lock's is the one its ticket was signed for,
\* which every transaction about the lock carries, and a settled row's that of its transaction.
RowsPriced(c, rows) ==
    /\ \A t \in DOMAIN c : c[t].kind # "Recharge" => rows[c[t].ref].real = c[t].amount
    /\ \A i \in DOMAIN rows :
           rows[i].op # "Freeze" /\ rows[i].status = "Success" => rows[i].real = c[rows[i].tx].amount

\* A copy of a lock row, in the updater or in a handler, has the row's amount.
CopiesPriced ==
    /\ settling # NoRow /\ settling.lock # NoRow
         => settling.lock.real = flows[flows[settling.item.ref].ref].real
    /\ \A r \in Req : req[r].pc = "lock_save" => req[r].row.real = flows[req[r].ref].real

\* A lock is paid out or canceled at most once.
Closes(c, t) == c[t].kind \in {"Withdraw", "Unfreeze"} /\ c[t].status = "success"
ClosedOnce(c) == \A s, t \in DOMAIN c : Closes(c, s) /\ Closes(c, t) /\ c[s].ref = c[t].ref => s = t

Priced == RowsPriced(chain, flows) /\ CopiesPriced /\ ClosedOnce(chain)

\* What the rows of a user with an operation and a status add up to.
Counted(row, u, op, st) == IF row.main = u /\ row.op = op /\ row.status \in st THEN row.real ELSE 0
Terms(rows, u, op, st) == [i \in DOMAIN rows |-> Counted(rows[i], u, op, st)]
Held(rows, u, op, st) == SumOf(Terms(rows, u, op, st), DOMAIN rows)
Settled == {"Success"}

\* The account of a user in terms of the user's rows.
UserMatched(u) ==
    /\ received[u] = Held(flows, u, "Recharge", Settled)
    /\ paid[u] = Held(flows, u, "Withdraw", Settled)
    /\ account[u].withdrawal + paid[u] + Held(flows, u, "Unfreeze", Settled)
         = Held(flows, u, "Freeze", Statuses)
Matched == \A u \in Users : UserMatched(u)

-----------------------------------------------------------------------------
(* Amounts stay what they were. *)

\* What a step keeps of the lock rows.
LocksKept ==
    \A i \in DOMAIN flows : flows[i].op = "Freeze" => flows'[i].real = flows[i].real

\* A copy that is kept is of a row that is kept.
LEMMA CopiesStay ==
    ASSUME LedgerInv, CopiesPriced, RowsKept, LocksKept,
           settling' = settling \/ settling' = NoRow,
           \A r \in Req : req'[r].pc = "lock_save" => req'[r] = req[r]
    PROVE  CopiesPriced'
  <1>1. ASSUME settling' = settling, settling # NoRow, settling.lock # NoRow
        PROVE  settling.lock.real = flows'[flows'[settling.item.ref].ref].real
    <2> DEFINE j == flows[settling.item.ref].ref
    <2>1. settling.item.ref \in DOMAIN flows /\ j \in DOMAIN flows
      BY <1>1 DEF LedgerInv, Tracked, SettlingTracked, LockFound, LockOf
    <2>2. j # NoFlow
      BY <2>1, LenProperties DEF LedgerInv, TypeOK, NoFlow
    <2>3. flows[j].op = "Freeze" /\ settling.lock.real = flows[j].real
      BY <1>1, <2>1, <2>2 DEF LedgerInv, Tracked, FlowsTracked, CopiesPriced
    <2> QED
      BY <2>1, <2>3 DEF RowsKept, LocksKept
  <1>2. ASSUME NEW r \in Req, req'[r].pc = "lock_save"
        PROVE  req'[r].row.real = flows'[req'[r].ref].real
    <2>1. req[r].ref \in DOMAIN flows /\ flows[req[r].ref].op = "Freeze"
      BY <1>2 DEF LedgerInv, Tracked, HandlersTracked
    <2> QED
      BY <1>2, <2>1 DEF CopiesPriced, LocksKept
  <1> QED
    BY <1>1, <1>2 DEF CopiesPriced

LEMMA SameTablesPriced ==
    ASSUME LedgerInv, Priced, UNCHANGED <<flows, chain>>,
           settling' = settling \/ settling' = NoRow,
           \A r \in Req : req'[r].pc = "lock_save" => req'[r] = req[r]
    PROVE  Priced'
  <1>1. RowsKept /\ LocksKept
    BY DEF RowsKept, LocksKept
  <1>2. CopiesPriced'
    BY <1>1, CopiesStay DEF Priced
  <1> QED
    BY <1>2 DEF Priced

\* One handler moves to a phase that holds no row.
LEMMA HandlerPriced ==
    ASSUME LedgerInv, NEW r \in Req, NEW h, req' = [req EXCEPT ![r] = h], h.pc # "lock_save"
    PROVE  \A q \in Req : req'[q].pc = "lock_save" => req'[q] = req[q]
  BY DEF LedgerInv, TypeOK

LEMMA ReportReadPriced ==
    ASSUME LedgerInv, Priced, NEW r \in Req, NEW t \in DOMAIN chain, ReportRead(r, t)
    PROVE  Priced'
  <1>1. PICK pc, row :
           /\ req' = [req EXCEPT ![r] = [pc |-> pc, main |-> chain[t].main, tx |-> t,
                                         ref |-> chain[t].ref, row |-> row]]
           /\ pc = "lock_save" => row = flows[chain[t].ref]
    BY DEF ReportRead
  <1>2. UNCHANGED <<flows, chain, settling>> /\ req \in [Req -> Handler]
    BY DEF ReportRead, db, LedgerInv, TypeOK
  <1>3. ASSUME NEW q \in Req, req'[q].pc = "lock_save"
        PROVE  req'[q].row.real = flows[req'[q].ref].real
    <2>1. CASE q = r
      BY <1>1, <1>2, <1>3, <2>1
    <2>2. CASE q # r
      BY <1>1, <1>2, <1>3, <2>2 DEF Priced, CopiesPriced
    <2> QED
      BY <2>1, <2>2
  <1> QED
    BY <1>2, <1>3 DEF Priced, CopiesPriced

LEMMA TakeUpdatePriced ==
    ASSUME LedgerInv, Priced, TakeUpdate
    PROVE  Priced'
  <1>1. UNCHANGED <<flows, chain, req>>
    BY DEF TakeUpdate, db
  <1>2. PICK n, l : /\ settling' = [item |-> n, lock |-> l]
                    /\ l # NoRow => l = flows[flows[n.ref].ref]
    BY DEF TakeUpdate, LockOf
  <1>3. settling'.lock # NoRow => settling'.lock.real = flows[flows[settling'.item.ref].ref].real
    BY <1>2
  <1> QED
    BY <1>1, <1>3 DEF Priced, CopiesPriced

LEMMA SendPriced ==
    ASSUME LedgerInv, Priced, NEW u \in Users, SendDeposit(u) \/ SendLockTx(u)
    PROVE  Priced'
  <1>1. PICK kind \in Ops, f \in Nat, a \in Nat :
           /\ Send(kind, u, f, a)
           /\ kind # "Recharge" => flows[f].real = a
    <2>1. CASE SendDeposit(u)
      BY <2>1, LedgerAssumption DEF SendDeposit, Ops, NoFlow
    <2>2. CASE SendLockTx(u)
      <3>1. PICK f \in DOMAIN flows :
               \E kind \in {"Freeze", "Withdraw", "Unfreeze"} : Send(kind, u, f, flows[f].real)
        BY <2>2 DEF SendLockTx
      <3>2. f \in Nat /\ flows[f] \in Flow
        BY LenProperties DEF LedgerInv, TypeOK
      <3> QED
        BY <3>1, <3>2 DEF Ops, Flow
    <2> QED
      BY <2>1, <2>2
  <1> DEFINE e == [kind |-> kind, main |-> u, ref |-> f, amount |-> a, status |-> "pending"]
  <1>2. e \in Tx
    <2>1. u \in Users /\ kind \in Ops /\ f \in Nat /\ a \in Nat
      OBVIOUS
    <2> QED
      BY <2>1 DEF Tx
  <1>3. chain' = Append(chain, e) /\ chain \in Seq(Tx) /\ UNCHANGED <<flows, settling, req>>
    BY <1>1 DEF Send, db, LedgerInv, TypeOK
  <1>4. /\ DOMAIN chain' = 1..(Len(chain) + 1) /\ DOMAIN chain = 1..Len(chain)
        /\ \A t \in DOMAIN chain : chain'[t] = chain[t]
        /\ chain'[Len(chain) + 1] = e
    BY <1>2, <1>3, AppendFacts
  <1>5. \A t \in DOMAIN chain' : t \in DOMAIN chain \/ t = Len(chain) + 1
    BY <1>3, <1>4, LenProperties
  <1>6. RowsPriced(chain', flows')
    <2>1. \A t \in DOMAIN chain' : chain'[t].kind # "Recharge"
              => flows[chain'[t].ref].real = chain'[t].amount
      BY <1>1, <1>4, <1>5 DEF Priced, RowsPriced
    <2>2. \A i \in DOMAIN flows : flows[i].op # "Freeze" => flows[i].tx \in DOMAIN chain
      BY DEF LedgerInv, Tracked, FlowsTracked
    <2> QED
      BY <1>3, <1>4, <2>1, <2>2 DEF Priced, RowsPriced
  <1>7. ClosedOnce(chain')
    <2>1. \A t \in DOMAIN chain' : Closes(chain', t) => t \in DOMAIN chain /\ Closes(chain, t)
      BY <1>4, <1>5 DEF Closes
    <2> QED
      BY <1>4, <2>1 DEF Priced, ClosedOnce
  <1>8. CopiesPriced'
    BY <1>3 DEF Priced, CopiesPriced
  <1> QED
    BY <1>6, <1>7, <1>8 DEF Priced

\* The contract executes a claim or a cancel only of a lock that is not closed.
LEMMA MinePriced ==
    ASSUME LedgerInv, Priced, NEW t \in DOMAIN chain, Mine(t)
    PROVE  Priced'
  <1>1. PICK s \in {"success", "failed"} : /\ s = "success" => Executable(chain[t])
                                           /\ chain' = [chain EXCEPT ![t].status = s]
    BY DEF Mine
  <1>2. \A k \in DOMAIN chain : chain[k] \in Tx
    BY LenProperties DEF LedgerInv, TypeOK
  <1>3. /\ UNCHANGED <<flows, settling, req>>
        /\ DOMAIN chain' = DOMAIN chain /\ chain'[t].status = s
        /\ \A k \in DOMAIN chain : /\ chain'[k].kind = chain[k].kind /\ chain'[k].ref = chain[k].ref
                                   /\ chain'[k].amount = chain[k].amount
                                   /\ k # t => chain'[k] = chain[k]
    BY <1>1, <1>2 DEF Tx, Mine, db
  <1>4. RowsPriced(chain', flows')
    <2>1. \A i \in DOMAIN flows : flows[i].op # "Freeze" => flows[i].tx \in DOMAIN chain
      BY DEF LedgerInv, Tracked, FlowsTracked
    <2> QED
      BY <1>3, <2>1 DEF Priced, RowsPriced
  <1>5. ASSUME NEW k \in DOMAIN chain, k # t, Closes(chain', k), Closes(chain', t),
               chain'[k].ref = chain'[t].ref
        PROVE  FALSE
    <2>1. Closes(chain, k) /\ chain[k].ref = chain[t].ref
      BY <1>3, <1>5 DEF Closes
    <2>2. chain[t].kind \in {"Withdraw", "Unfreeze"} /\ Executable(chain[t])
      BY <1>1, <1>3, <1>5 DEF Closes
    <2>3. ~Closed(chain[t].ref)
      BY <2>2 DEF Executable
    <2> QED
      BY <2>1, <2>3 DEF Closed, Mined, Closes
  <1>6. ClosedOnce(chain')
    <2>1. \A k \in DOMAIN chain : k # t => (Closes(chain', k) <=> Closes(chain, k))
      BY <1>3 DEF Closes
    <2> QED
      BY <1>3, <1>5, <2>1 DEF Priced, ClosedOnce
  <1>7. CopiesPriced'
    BY <1>3 DEF Priced, CopiesPriced
  <1> QED
    BY <1>4, <1>6, <1>7 DEF Priced

LEMMA RowAddedPriced ==
    ASSUME LedgerInv, Priced, NEW f \in Flow, flows' = Append(flows, f), f.status = "Pending",
           UNCHANGED <<chain, settling>>,
           \A r \in Req : req'[r].pc = "lock_save" => req'[r] = req[r]
    PROVE  Priced'
  <1>1. flows \in Seq(Flow)
    BY DEF LedgerInv, TypeOK
  <1>2. /\ DOMAIN flows' = 1..(Len(flows) + 1) /\ DOMAIN flows = 1..Len(flows)
        /\ \A i \in DOMAIN flows : i \in DOMAIN flows' /\ flows'[i] = flows[i]
        /\ flows'[Len(flows) + 1] = f /\ Len(flows) \in Nat
    BY <1>1, AppendFacts, LenProperties
  <1>3. RowsKept /\ LocksKept
    BY <1>2 DEF RowsKept, LocksKept
  <1>4. CopiesPriced'
    BY <1>3, CopiesStay DEF Priced
  <1>5. RowsPriced(chain', flows')
    BY <1>2 DEF Priced, RowsPriced, LedgerInv, Tracked, TxsTracked
  <1> QED
    BY <1>4, <1>5 DEF Priced

LEMMA NewRow ==
    ASSUME LedgerInv, NEW r \in Req, WithdrawRequestCommit(r) \/ ReportCancelSave(r) \/ ReportCommit(r),
           flows' # flows
    PROVE  \E f \in Flow :
              /\ flows' = Append(flows, f) /\ f.status = "Pending"
              /\ \/ /\ ReportCancelSave(r) \/ ReportCommit(r)
                    /\ f.op # "Freeze" /\ UNCHANGED account
                 \/ \E a \in Amounts :
                       /\ f.op = "Freeze" /\ f.main = req[r].main /\ f.real = a
                       /\ account' = [account EXCEPT ![req[r].main].available = @ - a,
                                                     ![req[r].main].withdrawal = @ + a]
  <1>1. flows' \in Seq(Flow) /\ flows \in Seq(Flow)
    BY NewReportStep, WithdrawRequestCommitStep DEF LedgerInv, TypeOK
  <1>2. PICK f : /\ flows' = Append(flows, f) /\ f.status = "Pending"
                 /\ \/ /\ ReportCancelSave(r) \/ ReportCommit(r)
                       /\ f.op \in {"Unfreeze", chain[req[r].tx].kind} /\ UNCHANGED account
                    \/ \E a \in Amounts :
                       /\ f.op = "Freeze" /\ f.main = req[r].main /\ f.real = a
                       /\ account' = [account EXCEPT ![req[r].main].available = @ - a,
                                                     ![req[r].main].withdrawal = @ + a]
    <2>1. CASE WithdrawRequestCommit(r)
      <3>1. PICK a \in Amounts :
                /\ account' = [account EXCEPT ![req[r].main].available = @ - a,
                                              ![req[r].main].withdrawal = @ + a]
                /\ NewFlow(req[r].main, "Freeze", a, NoTx, NoFlow, FALSE)
        BY <2>1 DEF WithdrawRequestCommit
      <3> DEFINE f == [main |-> req[r].main, op |-> "Freeze", status |-> "Pending", real |-> a,
                       tx |-> NoTx, ref |-> NoFlow, chainID |-> FALSE]
      <3>2. flows' = Append(flows, f)
        BY <3>1 DEF NewFlow
      <3>3. f.status = "Pending" /\ f.op = "Freeze" /\ f.main = req[r].main /\ f.real = a
        OBVIOUS
      <3> HIDE DEF f
      <3> QED
        BY <3>1, <3>2, <3>3
    <2>2. CASE ReportCancelSave(r)
      BY <2>2 DEF ReportCancelSave, NewFlow
    <2>3. CASE ReportCommit(r)
      BY <2>3 DEF ReportCommit, NewFlow
    <2> QED
      BY <2>1, <2>2, <2>3
  <1>3. f \in Flow
    <2>1. Len(flows) \in Nat /\ DOMAIN flows = 1..Len(flows)
      BY <1>1, LenProperties
    <2>2. DOMAIN flows' = 1..(Len(flows) + 1) /\ flows'[Len(flows) + 1] = f
      <3>1. flows \in Seq(Flow \cup {f})
        BY <1>1
      <3> QED
        BY <1>2, <3>1, AppendFacts
    <2> QED
      BY <1>1, <2>1, <2>2, LenProperties
  <1>4. ReportCommit(r) => chain[req[r].tx].kind \in {"Recharge", "Withdraw"}
    BY DEF ReportCommit, LedgerInv, Tracked, HandlersTracked
  <1>5. ReportCancelSave(r) => chain[req[r].tx].kind = "Unfreeze"
    BY DEF ReportCancelSave, LedgerInv, Tracked, HandlersTracked
  <1> QED
    BY <1>2, <1>3, <1>4, <1>5

\* The row a report saves over a lock has the lock's owner and amount.
LEMMA LockSaved ==
    ASSUME LedgerInv, Priced, NEW r \in Req, ReportLockSave(r)
    PROVE  /\ DOMAIN flows' = DOMAIN flows /\ RowsKept /\ LocksKept
           /\ \A i \in DOMAIN flows : flows[i].op # "Freeze" => flows'[i] = flows[i]
           /\ \A q \in Req : req'[q].pc = "lock_save" => req'[q] = req[q]
           /\ UNCHANGED <<account, chain, settling, received, paid>>
  <1> DEFINE h == req[r]
             f == [h.row EXCEPT !.tx = h.tx]
             g == [req[r] EXCEPT !.pc = "append", !.row = NoRow]
  <1>1. /\ h.ref \in DOMAIN flows /\ flows[h.ref].op = "Freeze" /\ flows[h.ref].main = h.main
        /\ h.row \in Flow /\ h.row.op = "Freeze" /\ h.row.main = h.main /\ h.row.ref = NoFlow
        /\ flows[h.ref].ref = NoFlow /\ h.row.real = flows[h.ref].real /\ h \in Handler
    BY DEF LedgerInv, TypeOK, Tracked, HandlersTracked, FlowsTracked, ReportLockSave, Priced,
           CopiesPriced
  <1>2. /\ UNCHANGED <<account, chain, settling, received, paid>>
        /\ flows' = [flows EXCEPT ![h.ref] = f] /\ req' = [req EXCEPT ![r] = g]
    BY DEF ReportLockSave, history, LedgerInv, TypeOK
  <1>3. f.op = "Freeze" /\ f.main = h.main /\ f.ref = NoFlow /\ f.real = h.row.real
    BY <1>1 DEF Flow
  <1>4. g.pc = "append"
    BY <1>1 DEF Handler
  <1>5. flows \in Seq(Flow)
    BY DEF LedgerInv, TypeOK
  <1> HIDE DEF f, g, h
  <1>6. /\ DOMAIN flows' = DOMAIN flows /\ flows'[h.ref] = f
        /\ \A i \in DOMAIN flows : i # h.ref => flows'[i] = flows[i]
    BY <1>1, <1>2, <1>5
  <1>7. RowsKept /\ LocksKept
    BY <1>1, <1>3, <1>6 DEF RowsKept, LocksKept
  <1>8. \A q \in Req : req'[q].pc = "lock_save" => req'[q] = req[q]
    BY <1>2, <1>4, HandlerPriced
  <1> QED
    BY <1>1, <1>2, <1>6, <1>7, <1>8

LEMMA ReportLockSavePriced ==
    ASSUME LedgerInv, Priced, NEW r \in Req, ReportLockSave(r)
    PROVE  Priced'
  <1>1. /\ DOMAIN flows' = DOMAIN flows /\ RowsKept /\ LocksKept
        /\ \A i \in DOMAIN flows : flows[i].op # "Freeze" => flows'[i] = flows[i]
        /\ \A q \in Req : req'[q].pc = "lock_save" => req'[q] = req[q]
        /\ UNCHANGED <<account, chain, settling, received, paid>>
    BY LockSaved
  <1>2. CopiesPriced'
    BY <1>1, CopiesStay DEF Priced
  <1>3. RowsPriced(chain', flows')
    BY <1>1 DEF Priced, RowsPriced, LedgerInv, Tracked, TxsTracked, RowsKept, LocksKept
  <1> QED
    BY <1>1, <1>2, <1>3 DEF Priced

\* What settling an update does to the amounts: the row it is about gets its transaction's, and
\* every lock row keeps its own.
LEMMA SettledRows ==
    ASSUME LedgerInv, Linked, Priced, settling # NoRow, NEW i \in DOMAIN flows,
           Applies(settling.item, i), Settle(settling.item, i)
    PROVE  LET m == settling.item IN
           /\ DOMAIN flows' = DOMAIN flows /\ RowsKept /\ LocksKept
           /\ \A j \in DOMAIN flows : flows[j].op # "Freeze" /\ j # i => flows'[j] = flows[j]
           /\ flows[i].status = "Pending" /\ flows[i].main = m.main /\ flows[i].op = m.op
           /\ flows'[i].real = chain[m.tx].amount /\ flows'[i].status = SettledStatus(m)
           /\ flows'[i].main = m.main /\ flows'[i].op = m.op
           /\ flows[i].op # "Freeze" => flows'[i].tx = m.tx
           /\ m \in Item /\ chain[m.tx] \in Tx
  <1> DEFINE m == settling.item
             l == settling.lock
  <1>1. m \in Item /\ ItemTracked(m) /\ chain[m.tx] \in Tx
    BY SettlingItem
  <1>2. /\ DOMAIN flows' = DOMAIN flows
        /\ flows'[i] = [flows[i] EXCEPT !.status = SettledStatus(m), !.chainID = TRUE,
                                        !.real = chain[m.tx].amount]
        /\ \A j \in DOMAIN flows : j # i =>
              \/ flows'[j] = flows[j]
              \/ ClosesLock(m, j) /\ flows'[j] = [l EXCEPT !.status = ClosedStatus(m)]
        /\ \A j \in DOMAIN flows :
              /\ flows'[j].op = flows[j].op /\ flows'[j].main = flows[j].main
              /\ flows'[j].ref = flows[j].ref
              /\ flows[j].op # "Freeze" => flows'[j].tx = flows[j].tx
              /\ flows[j].op # "Freeze" /\ j # i => flows'[j] = flows[j]
    BY RowsSettled
  <1>3. RowsKept
    BY <1>2 DEF RowsKept
  <1>4. /\ flows[i].status = "Pending" /\ flows[i].main = m.main /\ flows[i].tx = m.tx
        /\ flows[i] \in Flow /\ (NeedsLock(m) => l # NoRow)
    BY LenProperties DEF Applies, IsTarget, LedgerInv, TypeOK
  <1>5. m.tx \in DOMAIN chain /\ m.tx # NoTx
    BY <1>1, LenProperties DEF ItemTracked, LedgerInv, TypeOK, NoTx
  <1>6. flows[i].op = m.op
    BY <1>1, <1>4, <1>5 DEF ItemTracked, LedgerInv, Tracked, FlowsTracked
  <1>7. flows'[i].real = chain[m.tx].amount /\ flows'[i].status = SettledStatus(m)
    BY <1>2, <1>4 DEF Flow
  <1>8. ASSUME NEW j \in DOMAIN flows, flows[j].op = "Freeze" PROVE flows'[j].real = flows[j].real
    <2>1. CASE j = i
      <3>1. chain[m.tx].kind = "Freeze" /\ chain[m.tx].ref = i
        BY <1>1, <1>4, <1>5, <1>6, <1>8, <2>1 DEF ItemTracked, Linked, RowsLinked, RowLinked
      <3> QED
        BY <1>5, <1>7, <2>1, <3>1 DEF Priced, RowsPriced
    <2>2. CASE flows'[j] = flows[j]
      BY <2>2
    <2>3. CASE ClosesLock(m, j) /\ flows'[j] = [l EXCEPT !.status = ClosedStatus(m)]
      <3>1. l # NoRow /\ l \in Flow /\ j = flows[m.ref].ref
        BY <1>4, <2>3 DEF ClosesLock, LockOf, LedgerInv, TypeOK, Settling
      <3>2. l.real = flows[j].real
        BY <3>1 DEF Priced, CopiesPriced
      <3>3. flows'[j].real = l.real
        BY <2>3, <3>1 DEF Flow
      <3> QED
        BY <3>2, <3>3
    <2> QED
      BY <1>2, <2>1, <2>2, <2>3
  <1> QED
    BY <1>1, <1>2, <1>3, <1>4, <1>6, <1>7, <1>8 DEF LocksKept

LEMMA UpdateAccountBalancePriced ==
    ASSUME LedgerInv, Linked, Priced, UpdateAccountBalance
    PROVE  Priced'
  <1> DEFINE m == settling.item
  <1>1. settling # NoRow /\ settling' = NoRow /\ UNCHANGED <<chain, req>>
    BY DEF UpdateAccountBalance
  <1>2. CASE flows' = flows
    BY <1>1, <1>2, SameTablesPriced
  <1>3. CASE \E i \in DOMAIN flows : Applies(m, i) /\ Settle(m, i) /\ Book(m)
    <2>1. PICK i \in DOMAIN flows : Applies(m, i) /\ Settle(m, i) /\ Book(m)
      BY <1>3
    <2>2. /\ DOMAIN flows' = DOMAIN flows /\ RowsKept /\ LocksKept
          /\ \A j \in DOMAIN flows : flows[j].op # "Freeze" /\ j # i => flows'[j] = flows[j]
          /\ flows'[i].real = chain[m.tx].amount
          /\ flows[i].op # "Freeze" => flows'[i].tx = m.tx
      BY <1>1, <2>1, SettledRows
    <2>3. CopiesPriced'
      BY <1>1, <2>2, CopiesStay DEF Priced
    <2>4. \A t \in DOMAIN chain : chain[t].kind # "Recharge" => flows'[chain[t].ref].real = chain[t].amount
      BY <2>2 DEF Priced, RowsPriced, LedgerInv, Tracked, TxsTracked, LocksKept
    <2>5. ASSUME NEW j \in DOMAIN flows', flows'[j].op # "Freeze", flows'[j].status = "Success"
          PROVE  flows'[j].real = chain[flows'[j].tx].amount
      <3>1. j \in DOMAIN flows /\ flows[j].op # "Freeze"
        BY <2>2, <2>5 DEF RowsKept
      <3>2. CASE j = i
        BY <2>2, <3>1, <3>2
      <3>3. CASE j # i
        BY <2>2, <2>5, <3>1, <3>3 DEF Priced, RowsPriced
      <3> QED
        BY <3>2, <3>3
    <2>6. RowsPriced(chain', flows')
      BY <1>1, <2>4, <2>5 DEF RowsPriced
    <2> QED
      BY <1>1, <2>3, <2>6 DEF Priced
  <1> QED
    BY <1>2, <1>3 DEF UpdateAccountBalance, db

LEMMA PricedInitially == Init => Priced
  BY IdleTyped DEF Init, Priced, RowsPriced, CopiesPriced, ClosedOnce

LEMMA PricedStep == LedgerInv /\ Linked /\ Priced /\ [Next]_vars => Priced'
  <1> SUFFICES ASSUME LedgerInv, Linked, Priced, [Next]_vars PROVE Priced'
    OBVIOUS
  <1> DEFINE Others == \A r \in Req : req'[r].pc = "lock_save" => req'[r] = req[r]
  <1>1. CASE (\E u \in Users : QueryBalance(u)) \/ UNCHANGED vars
             \/ (\E m \in work : HandleTopup(m)) \/ CheckTx
    <2>1. UNCHANGED <<flows, chain, settling, req>>
      BY <1>1 DEF QueryBalance, vars, db, HandleTopup, CheckTx
    <2> QED
      BY <2>1, SameTablesPriced
  <1>2. CASE \E u \in Users : SendDeposit(u) \/ SendLockTx(u)
    BY <1>2, SendPriced
  <1>3. CASE \E t \in DOMAIN chain : Mine(t)
    BY <1>3, MinePriced
  <1>4. ASSUME NEW r \in Req, ReportNext(r) PROVE Priced'
    <2>1. CASE ReportAppend(r)
      <3>1. UNCHANGED <<flows, chain, settling>> /\ req' = [req EXCEPT ![r] = Idle]
        BY <2>1 DEF ReportAppend, db
      <3>2. Others
        BY <3>1, IdleTyped, HandlerPriced
      <3> QED
        BY <3>1, <3>2, SameTablesPriced
    <2>2. CASE ReportCancelSave(r) \/ ReportCommit(r)
      <3>1. UNCHANGED <<chain, settling>>
        BY <2>2 DEF ReportCancelSave, ReportCommit
      <3>2. Others
        <4>1. req[r] \in Handler /\ req \in [Req -> Handler]
          BY DEF LedgerInv, TypeOK
        <4>2. CASE req' = [req EXCEPT ![r] = Idle]
          BY <4>2, IdleTyped, HandlerPriced
        <4>3. CASE req' = [req EXCEPT ![r].pc = "append", ![r].ref = Len(flows')]
          BY <4>1, <4>3 DEF Handler
        <4> QED
          BY <2>2, <4>2, <4>3 DEF ReportCancelSave, ReportCommit
      <3>3. CASE flows' = flows
        BY <3>1, <3>2, <3>3, SameTablesPriced
      <3>4. CASE flows' # flows
        BY <2>2, <3>1, <3>2, <3>4, NewRow, RowAddedPriced
      <3> QED
        BY <3>3, <3>4
    <2> QED
      BY <1>4, <2>1, <2>2, ReportReadPriced, ReportLockSavePriced DEF ReportNext
  <1>5. ASSUME NEW r \in Req, RequestNext(r) PROVE Priced'
    <2>1. UNCHANGED <<chain, settling>>
      BY <1>5 DEF RequestNext, WithdrawRequestEnter, WithdrawRequestCheck, WithdrawRequestCommit,
                  WithdrawRequestRollback, WithdrawRequestLeave
    <2>2. Others
      <3>1. req[r] \in Handler /\ req \in [Req -> Handler]
        BY DEF LedgerInv, TypeOK
      <3>2. CASE WithdrawRequestCheck(r) \/ WithdrawRequestCommit(r) \/ WithdrawRequestRollback(r)
        <4>1. \E pc \in {"request_leave", "request_tx"} : req' = [req EXCEPT ![r].pc = pc]
          BY <3>2 DEF WithdrawRequestCheck, WithdrawRequestCommit, WithdrawRequestRollback
        <4> QED
          BY <3>1, <4>1 DEF Handler
      <3>3. CASE WithdrawRequestLeave(r)
        BY <3>3, IdleTyped, HandlerPriced DEF WithdrawRequestLeave
      <3>4. CASE \E u \in Users : WithdrawRequestEnter(r, u)
        <4>1. PICK u \in Users, pc \in {"request_leave", "request_check"} :
                  req' = [req EXCEPT ![r] = [Idle EXCEPT !.pc = pc, !.main = u]]
          BY <3>4 DEF WithdrawRequestEnter
        <4>2. [Idle EXCEPT !.pc = pc, !.main = u].pc = pc
          BY IdleTyped DEF Handler
        <4> QED
          BY <4>1, <4>2, HandlerPriced
      <3> QED
        BY <1>5, <3>2, <3>3, <3>4 DEF RequestNext
    <2>3. CASE flows' = flows
      BY <2>1, <2>2, <2>3, SameTablesPriced
    <2>4. CASE flows' # flows
      <3>1. WithdrawRequestCommit(r)
        BY <1>5, <2>4 DEF RequestNext, WithdrawRequestEnter, WithdrawRequestCheck,
                          WithdrawRequestRollback, WithdrawRequestLeave, db
      <3> QED
        BY <2>1, <2>2, <2>4, <3>1, NewRow, RowAddedPriced
    <2> QED
      BY <2>3, <2>4
  <1>6. CASE TakeUpdate
    BY <1>6, TakeUpdatePriced
  <1>7. CASE UpdateAccountBalance
    BY <1>7, UpdateAccountBalancePriced
  <1>8. CASE Crash
    <2>1. UNCHANGED <<flows, chain>> /\ settling' = NoRow /\ \A r \in Req : req'[r] = Idle
      BY <1>8 DEF Crash, db
    <2> QED
      BY <2>1, IdleTyped, SameTablesPriced
  <1> QED
    BY <1>1, <1>2, <1>3, <1>4, <1>5, <1>6, <1>7, <1>8 DEF Next

-----------------------------------------------------------------------------
(* The sums that a step changes. *)

LEMMA RowsFinite ==
    ASSUME NEW rows \in Seq(Flow)
    PROVE  IsFiniteSet(DOMAIN rows) /\ \A i \in DOMAIN rows : rows[i] \in Flow /\ rows[i].real \in Nat
  <1>1. Len(rows) \in Nat /\ DOMAIN rows = 1..Len(rows)
    BY LenProperties
  <1>2. IsFiniteSet(DOMAIN rows)
    BY <1>1, FS_Interval
  <1>3. \A i \in DOMAIN rows : rows[i] \in Flow
    BY <1>1, LenProperties
  <1> QED
    BY <1>2, <1>3 DEF Flow

LEMMA TermsTyped ==
    ASSUME NEW rows \in Seq(Flow), NEW u, NEW op, NEW st
    PROVE  /\ \A i \in DOMAIN rows : /\ Terms(rows, u, op, st)[i] = Counted(rows[i], u, op, st)
                                     /\ Terms(rows, u, op, st)[i] \in Nat
           /\ Held(rows, u, op, st) \in Nat
  <1>1. \A i \in DOMAIN rows : /\ Terms(rows, u, op, st)[i] = Counted(rows[i], u, op, st)
                               /\ Terms(rows, u, op, st)[i] \in Nat
    BY RowsFinite DEF Terms, Counted
  <1> QED
    BY <1>1, RowsFinite, SumOfNat DEF Held

LEMMA HeldAppend ==
    ASSUME NEW rows \in Seq(Flow), NEW f \in Flow, NEW u, NEW op, NEW st
    PROVE  Held(Append(rows, f), u, op, st) = Held(rows, u, op, st) + Counted(f, u, op, st)
  <1> DEFINE new == Append(rows, f)
             n == Len(rows) + 1
             F == Terms(new, u, op, st)
             G == Terms(rows, u, op, st)
  <1>1. /\ new \in Seq(Flow) /\ DOMAIN new = (DOMAIN rows) \cup {n} /\ n \notin DOMAIN rows
        /\ new[n] = f /\ \A i \in DOMAIN rows : new[i] = rows[i]
    <2>1. Len(rows) \in Nat
      BY LenProperties
    <2> QED
      BY <2>1, AppendFacts
  <1> HIDE DEF new, n
  <1>2. /\ \A i \in DOMAIN rows : F[i] = G[i]
        /\ F[n] = Counted(f, u, op, st)
        /\ \A i \in (DOMAIN rows) \cup {n} : F[i] \in Int
    <2>1. \A i \in DOMAIN new : F[i] = Counted(new[i], u, op, st) /\ F[i] \in Nat
      BY <1>1, TermsTyped
    <2>2. \A i \in DOMAIN rows : G[i] = Counted(rows[i], u, op, st)
      BY TermsTyped
    <2> QED
      BY <1>1, <2>1, <2>2
  <1> HIDE DEF F, G
  <1>3. SumOf(F, (DOMAIN rows) \cup {n}) = F[n] + SumOf(F, DOMAIN rows)
    BY <1>1, <1>2, RowsFinite, SumOfAdd
  <1>4. SumOf(F, DOMAIN rows) = SumOf(G, DOMAIN rows)
    BY <1>2, RowsFinite, SumOfAgree
  <1>5. SumOf(G, DOMAIN rows) \in Nat /\ F[n] \in Int
    BY <1>2, TermsTyped DEF Held, G
  <1> QED
    BY <1>1, <1>2, <1>3, <1>4, <1>5 DEF Held, F, G, new

\* One row changes as far as a sum is concerned.
LEMMA HeldChange ==
    ASSUME NEW rows \in Seq(Flow), NEW new \in Seq(Flow), DOMAIN new = DOMAIN rows,
           NEW u, NEW op, NEW st, NEW i \in DOMAIN rows,
           \A j \in DOMAIN rows : j # i => Counted(new[j], u, op, st) = Counted(rows[j], u, op, st)
    PROVE  Held(new, u, op, st)
             = (Held(rows, u, op, st) + Counted(new[i], u, op, st)) - Counted(rows[i], u, op, st)
  <1> DEFINE F == Terms(rows, u, op, st)
             G == Terms(new, u, op, st)
  <1>1. \A j \in DOMAIN rows : /\ F[j] = Counted(rows[j], u, op, st) /\ F[j] \in Nat
                               /\ G[j] = Counted(new[j], u, op, st) /\ G[j] \in Nat
    BY TermsTyped
  <1> HIDE DEF F, G
  <1>2. /\ \A x \in DOMAIN rows : F[x] \in Int /\ G[x] \in Int
        /\ \A x \in (DOMAIN rows) \ {i} : F[x] = G[x]
    BY <1>1
  <1>3. IsFiniteSet(DOMAIN rows)
    BY RowsFinite
  <1>4. SumOf(G, DOMAIN rows) = (SumOf(F, DOMAIN rows) + G[i]) - F[i]
    <2> DEFINE D == DOMAIN rows
    <2>1. IsFiniteSet(D) /\ i \in D /\ \A x \in D : F[x] \in Int /\ G[x] \in Int
      BY <1>2, <1>3
    <2>2. \A x \in D \ {i} : F[x] = G[x]
      BY <1>2
    <2> HIDE DEF D
    <2>3. SumOf(G, D) = (SumOf(F, D) + G[i]) - F[i]
      <3>1. SumOf(F, D) = F[i] + SumOf(F, D \ {i}) /\ SumOf(G, D) = G[i] + SumOf(G, D \ {i})
        BY <2>1, SumOfRemove
      <3>2. SumOf(F, D \ {i}) = SumOf(G, D \ {i})
        BY <2>1, <2>2, SumOfAgree, FS_RemoveElement
      <3>3. SumOf(F, D \ {i}) \in Int
        BY <2>1, SumOfInt, FS_RemoveElement
      <3>4. F[i] \in Int /\ G[i] \in Int
        BY <2>1
      <3> QED
        BY <3>1, <3>2, <3>3, <3>4
    <2> QED
      BY <2>3 DEF D
  <1> QED
    BY <1>1, <1>4 DEF Held, F, G

LEMMA HeldSame ==
    ASSUME NEW rows \in Seq(Flow), NEW new \in Seq(Flow), DOMAIN new = DOMAIN rows,
           NEW u, NEW op, NEW st,
           \A j \in DOMAIN rows : Counted(new[j], u, op, st) = Counted(rows[j], u, op, st)
    PROVE  Held(new, u, op, st) = Held(rows, u, op, st)
  <1> DEFINE F == Terms(rows, u, op, st)
             G == Terms(new, u, op, st)
  <1>1. \A j \in DOMAIN rows : F[j] = G[j]
    BY TermsTyped
  <1> HIDE DEF F, G
  <1>2. SumOf(F, DOMAIN rows) = SumOf(G, DOMAIN rows)
    BY <1>1, RowsFinite, SumOfAgree
  <1> QED
    BY <1>2 DEF Held, F, G

-----------------------------------------------------------------------------
(* Every step moves the account and the rows together. *)

LEMMA MatchedInitially == Init => Matched
  <1> SUFFICES ASSUME Init, NEW u \in Users PROVE UserMatched(u)
    BY DEF Matched
  <1>1. DOMAIN flows = {}
    BY DEF Init
  <1>2. \A op, st : Held(flows, u, op, st) = 0
    BY <1>1, SumOfEmpty DEF Held
  <1> QED
    BY <1>2 DEF Init, UserMatched

\* A step that changes neither a column of the account nor a counted row.
LEMMA QuietMatched ==
    ASSUME Matched, UNCHANGED <<received, paid>>,
           \A u \in Users : account'[u].withdrawal = account[u].withdrawal,
           \A u \in Users :
               /\ Held(flows', u, "Recharge", Settled) = Held(flows, u, "Recharge", Settled)
               /\ Held(flows', u, "Withdraw", Settled) = Held(flows, u, "Withdraw", Settled)
               /\ Held(flows', u, "Unfreeze", Settled) = Held(flows, u, "Unfreeze", Settled)
               /\ Held(flows', u, "Freeze", Statuses) = Held(flows, u, "Freeze", Statuses)
    PROVE  Matched'
  BY DEF Matched, UserMatched

LEMMA ReportLockSaveMatched ==
    ASSUME LedgerInv, Priced, Matched, NEW r \in Req, ReportLockSave(r)
    PROVE  Matched'
  <1>1. /\ DOMAIN flows' = DOMAIN flows /\ RowsKept /\ LocksKept
        /\ \A i \in DOMAIN flows : flows[i].op # "Freeze" => flows'[i] = flows[i]
        /\ UNCHANGED <<account, received, paid>>
    BY LockSaved
  <1>2. flows \in Seq(Flow) /\ flows' \in Seq(Flow)
    BY ReportLockSaveStep DEF LedgerInv, TypeOK
  <1>3. \A u, i : i \in DOMAIN flows =>
           /\ \A op, st : op # "Freeze" => Counted(flows'[i], u, op, st) = Counted(flows[i], u, op, st)
           /\ Counted(flows'[i], u, "Freeze", Statuses) = Counted(flows[i], u, "Freeze", Statuses)
    <2>1. \A i \in DOMAIN flows : flows[i].status \in Statuses /\ flows'[i].status \in Statuses
      BY <1>1, <1>2, RowsFinite DEF Flow
    <2> QED
      BY <1>1, <2>1 DEF RowsKept, LocksKept, Counted
  <1>4. ASSUME NEW u, NEW op, NEW st, op # "Freeze" \/ st = Statuses
        PROVE  Held(flows', u, op, st) = Held(flows, u, op, st)
    <2>1. \A j \in DOMAIN flows : Counted(flows'[j], u, op, st) = Counted(flows[j], u, op, st)
      BY <1>3, <1>4
    <2> QED
      BY <1>1, <1>2, <2>1, HeldSame
  <1> QED
    BY <1>1, <1>4, QuietMatched

LEMMA NewRowMatched ==
    ASSUME LedgerInv, Matched, NEW r \in Req,
           WithdrawRequestCommit(r) \/ ReportCancelSave(r) \/ ReportCommit(r), flows' # flows
    PROVE  Matched'
  <1>1. PICK f \in Flow :
              /\ flows' = Append(flows, f) /\ f.status = "Pending"
              /\ \/ /\ ReportCancelSave(r) \/ ReportCommit(r)
                    /\ f.op # "Freeze" /\ UNCHANGED account
                 \/ \E a \in Amounts :
                       /\ f.op = "Freeze" /\ f.main = req[r].main /\ f.real = a
                       /\ account' = [account EXCEPT ![req[r].main].available = @ - a,
                                                     ![req[r].main].withdrawal = @ + a]
    BY NewRow
  <1>2. flows \in Seq(Flow) /\ UNCHANGED <<received, paid>>
        /\ account \in [Users -> [exists : BOOLEAN, available : Nat, withdrawal : Nat]]
    BY DEF LedgerInv, TypeOK, WithdrawRequestCommit, ReportCancelSave, ReportCommit, history
  <1>3. \A u, op, st : Held(flows', u, op, st) = Held(flows, u, op, st) + Counted(f, u, op, st)
    BY <1>1, <1>2, HeldAppend
  <1>4. \A u, op, st : Held(flows, u, op, st) \in Nat
    BY <1>2, TermsTyped
  <1>5. \A u, op : Counted(f, u, op, Settled) = 0
    BY <1>1 DEF Counted, Settled
  <1>6. CASE f.op # "Freeze" /\ UNCHANGED account
    <2>1. \A u : Counted(f, u, "Freeze", Statuses) = 0
      BY <1>6 DEF Counted
    <2> QED
      BY <1>2, <1>3, <1>4, <1>5, <1>6, <2>1, QuietMatched
  <1>7. ASSUME NEW a \in Amounts, f.op = "Freeze", f.main = req[r].main, f.real = a,
               account' = [account EXCEPT ![req[r].main].available = @ - a,
                                          ![req[r].main].withdrawal = @ + a],
               NEW u \in Users
        PROVE  UserMatched(u)'
    <2>1. f.status \in Statuses /\ a \in Nat
      BY <1>7, LedgerAssumption DEF Flow
    <2>2. account'[u].withdrawal
            = account[u].withdrawal + IF u = req[r].main THEN a ELSE 0
      BY <1>2, <1>7, <2>1
    <2>3. Counted(f, u, "Freeze", Statuses) = IF u = req[r].main THEN a ELSE 0
      BY <1>7, <2>1 DEF Counted
    <2>4. account[u].withdrawal \in Nat /\ paid[u] \in Nat
      BY <1>2 DEF LedgerInv, TypeOK
    <2>5. /\ received[u] = Held(flows, u, "Recharge", Settled)
          /\ paid[u] = Held(flows, u, "Withdraw", Settled)
          /\ account[u].withdrawal + paid[u] + Held(flows, u, "Unfreeze", Settled)
               = Held(flows, u, "Freeze", Statuses)
      BY DEF Matched, UserMatched
    <2>6. /\ Held(flows', u, "Recharge", Settled) = Held(flows, u, "Recharge", Settled)
          /\ Held(flows', u, "Withdraw", Settled) = Held(flows, u, "Withdraw", Settled)
          /\ Held(flows', u, "Unfreeze", Settled) = Held(flows, u, "Unfreeze", Settled)
      BY <1>3, <1>4, <1>5
    <2>7. Held(flows', u, "Freeze", Statuses)
            = Held(flows, u, "Freeze", Statuses) + IF u = req[r].main THEN a ELSE 0
      BY <1>3, <2>3
    <2>8. account'[u].withdrawal + paid'[u] + Held(flows', u, "Unfreeze", Settled)
            = Held(flows', u, "Freeze", Statuses)
      BY <1>2, <1>4, <2>1, <2>2, <2>4, <2>5, <2>6, <2>7
    <2> QED
      BY <1>2, <2>5, <2>6, <2>8 DEF UserMatched
  <1> QED
    BY <1>1, <1>6, <1>7 DEF Matched

\* Settling a mined transaction adds its amount to the settled rows of its owner and
\* kind; a failed one adds nothing, and no lock's amount changes.
LEMMA SettledSums ==
    ASSUME LedgerInv, Linked, Priced, UpdateAccountBalance, NEW i \in DOMAIN flows,
           Applies(settling.item, i), Settle(settling.item, i), Book(settling.item), NEW v
    PROVE  LET m == settling.item IN
           /\ \A op \in {"Recharge", "Withdraw", "Unfreeze"} :
                 Held(flows', v, op, Settled) = Held(flows, v, op, Settled)
                    + IF v = m.main /\ op = m.op /\ chain[m.tx].status = "success"
                      THEN chain[m.tx].amount ELSE 0
           /\ Held(flows', v, "Freeze", Statuses) = Held(flows, v, "Freeze", Statuses)
  <1> DEFINE m == settling.item
             a == chain[m.tx].amount
  <1>1. /\ DOMAIN flows' = DOMAIN flows /\ RowsKept /\ LocksKept
        /\ \A j \in DOMAIN flows : flows[j].op # "Freeze" /\ j # i => flows'[j] = flows[j]
        /\ flows[i].status = "Pending" /\ flows[i].main = m.main /\ flows[i].op = m.op
        /\ flows'[i].real = a /\ flows'[i].status = SettledStatus(m)
        /\ flows'[i].main = m.main /\ flows'[i].op = m.op
        /\ m \in Item /\ chain[m.tx] \in Tx
    BY SettledRows DEF UpdateAccountBalance
  <1>2. flows \in Seq(Flow) /\ flows' \in Seq(Flow)
    BY UpdateAccountBalanceStep DEF LedgerInv, TypeOK
  <1>3. chain[m.tx].status \in {"success", "failed"} /\ a \in Nat
    BY <1>1, BookedIsMined DEF Tx
  <1>4. \A j \in DOMAIN flows : flows[j].status \in Statuses /\ flows'[j].status \in Statuses
    BY <1>1, <1>2, RowsFinite DEF Flow
  <1> HIDE DEF m, a
  <1>5. ASSUME NEW op \in {"Recharge", "Withdraw", "Unfreeze"}
        PROVE  Held(flows', v, op, Settled) = Held(flows, v, op, Settled)
                    + IF v = m.main /\ op = m.op /\ chain[m.tx].status = "success" THEN a ELSE 0
    <2>1. \A j \in DOMAIN flows : j # i => Counted(flows'[j], v, op, Settled) = Counted(flows[j], v, op, Settled)
      BY <1>1 DEF Counted, RowsKept
    <2>2. Held(flows', v, op, Settled)
            = (Held(flows, v, op, Settled) + Counted(flows'[i], v, op, Settled))
                 - Counted(flows[i], v, op, Settled)
      BY <1>1, <1>2, <2>1, HeldChange
    <2>3. Counted(flows[i], v, op, Settled) = 0
      BY <1>1 DEF Counted, Settled
    <2>4. Counted(flows'[i], v, op, Settled)
            = IF v = m.main /\ op = m.op /\ chain[m.tx].status = "success" THEN a ELSE 0
      <3>1. op = m.op => (SettledStatus(m) \in Settled <=> chain[m.tx].status = "success")
        BY <1>3 DEF SettledStatus, Settled
      <3> QED
        BY <1>1, <3>1 DEF Counted
    <2>5. Held(flows, v, op, Settled) \in Nat
      BY <1>2, TermsTyped
    <2> QED
      BY <1>3, <2>2, <2>3, <2>4, <2>5
  <1>6. Held(flows', v, "Freeze", Statuses) = Held(flows, v, "Freeze", Statuses)
    <2>1. \A j \in DOMAIN flows :
             Counted(flows'[j], v, "Freeze", Statuses) = Counted(flows[j], v, "Freeze", Statuses)
      BY <1>1, <1>4 DEF Counted, RowsKept, LocksKept
    <2> QED
      BY <1>1, <1>2, <2>1, HeldSame
  <1> QED
    BY <1>5, <1>6 DEF m, a

LEMMA UpdateAccountBalanceMatched ==
    ASSUME LedgerInv, Linked, Priced, Matched, UpdateAccountBalance
    PROVE  Matched'
  <1> DEFINE m == settling.item
             a == chain[m.tx].amount
             u == m.main
  <1>1. CASE UNCHANGED <<db, history>>
    BY <1>1 DEF db, history, Matched, UserMatched
  <1>2. CASE \E i \in DOMAIN flows : Applies(m, i) /\ Settle(m, i) /\ Book(m)
    <2>1. PICK i \in DOMAIN flows : Applies(m, i) /\ Settle(m, i) /\ Book(m)
      BY <1>2
    <2>2. \A v : /\ \A op \in {"Recharge", "Withdraw", "Unfreeze"} :
                       Held(flows', v, op, Settled) = Held(flows, v, op, Settled)
                          + IF v = u /\ op = m.op /\ chain[m.tx].status = "success" THEN a ELSE 0
                 /\ Held(flows', v, "Freeze", Statuses) = Held(flows, v, "Freeze", Statuses)
      BY <2>1, SettledSums
    <2>3. /\ m \in Item /\ chain[m.tx] \in Tx /\ Covered(m)
          /\ account \in [Users -> [exists : BOOLEAN, available : Nat, withdrawal : Nat]]
          /\ received \in [Users -> Nat] /\ paid \in [Users -> Nat] /\ flows \in Seq(Flow)
      BY <2>1, SettlingItem DEF UpdateAccountBalance, Applies, LedgerInv, TypeOK
    <2>4. u \in Users /\ a \in Nat
      BY <2>3 DEF Item, Tx
    <2>5. NeedsLock(m) /\ chain[m.tx].status = "success" => account[u].withdrawal >= a
      BY <2>3 DEF Covered
    <2>6. account[u].available \in Nat /\ account[u].withdrawal \in Nat
      BY <2>3, <2>4
    <2> SUFFICES ASSUME NEW v \in Users PROVE UserMatched(v)'
      BY DEF Matched
    <2>7. UserMatched(v) /\ account[v].withdrawal \in Nat /\ paid[v] \in Nat /\ received[v] \in Nat
      BY <2>3 DEF Matched
    <2>8. \A op, st : Held(flows, v, op, st) \in Nat
      BY <2>3, TermsTyped
    <2>9. LET in(op) == IF v = u /\ op = m.op /\ chain[m.tx].status = "success" THEN a ELSE 0 IN
          /\ received'[v] = received[v] + in("Recharge")
          /\ paid'[v] = paid[v] + in("Withdraw")
          /\ account'[v].withdrawal = (account[v].withdrawal - in("Withdraw")) - in("Unfreeze")
      <3>1. CASE chain[m.tx].status = "failed"
        <4>1. UNCHANGED <<account, received, paid>>
          BY <2>1, <3>1 DEF Book, history
        <4> QED
          BY <2>7, <3>1, <4>1
      <3>2. CASE chain[m.tx].status = "success"
        <4>1. CASE m.op = "Freeze" /\ MoveBalance(u, 0, 0) /\ UNCHANGED history
          <5>1. account[u].available + 0 \in Nat /\ account[u].withdrawal + 0 \in Nat
            BY <2>6
          <5>2. /\ account'[u].withdrawal = account[u].withdrawal + 0
                /\ \A w \in Users : w # u => account'[w] = account[w]
            BY <2>4, <4>1, <5>1, BalanceMoved DEF LedgerInv
          <5> QED
            BY <2>6, <2>7, <4>1, <5>2 DEF history
        <4>2. CASE /\ m.op = "Recharge" /\ MoveBalance(u, a, 0)
                   /\ received' = [received EXCEPT ![u] = @ + a] /\ UNCHANGED paid
          <5>1. account[u].available + a \in Nat /\ account[u].withdrawal + 0 \in Nat
            BY <2>4, <2>6
          <5>2. /\ account'[u].withdrawal = account[u].withdrawal + 0
                /\ \A w \in Users : w # u => account'[w] = account[w]
            BY <2>4, <4>2, <5>1, BalanceMoved DEF LedgerInv
          <5> QED
            BY <2>3, <2>4, <2>6, <2>7, <3>2, <4>2, <5>2
        <4>3. CASE /\ m.op = "Withdraw" /\ MoveBalance(u, 0, -a)
                   /\ paid' = [paid EXCEPT ![u] = @ + a] /\ UNCHANGED received
          <5>1. account[u].available + 0 \in Nat /\ account[u].withdrawal + (-a) \in Nat /\ -a \in Int
            BY <2>4, <2>5, <2>6, <3>2, <4>3 DEF NeedsLock
          <5>2. /\ account'[u].withdrawal = account[u].withdrawal + (-a)
                /\ \A w \in Users : w # u => account'[w] = account[w]
            BY <2>4, <4>3, <5>1, BalanceMoved DEF LedgerInv
          <5>3. paid'[v] = IF v = u THEN paid[v] + a ELSE paid[v]
            BY <2>3, <2>4, <4>3
          <5>4. account'[v].withdrawal = IF v = u THEN account[v].withdrawal - a
                                        ELSE account[v].withdrawal
            BY <2>4, <2>6, <5>2
          <5> QED
            BY <2>4, <2>7, <3>2, <4>3, <5>3, <5>4
        <4>4. CASE m.op = "Unfreeze" /\ MoveBalance(u, a, -a) /\ UNCHANGED history
          <5>1. account[u].available + a \in Nat /\ account[u].withdrawal + (-a) \in Nat /\ -a \in Int
            BY <2>4, <2>5, <2>6, <3>2, <4>4 DEF NeedsLock
          <5>2. /\ account'[u].withdrawal = account[u].withdrawal + (-a)
                /\ \A w \in Users : w # u => account'[w] = account[w]
            BY <2>4, <4>4, <5>1, BalanceMoved DEF LedgerInv
          <5> QED
            BY <2>3, <2>4, <2>6, <2>7, <3>2, <4>4, <5>2 DEF history
        <4> QED
          BY <2>1, <3>2, <4>1, <4>2, <4>3, <4>4 DEF Book
      <3> QED
        BY <2>1, <3>1, <3>2, BookedIsMined
    <2>10. /\ received[v] = Held(flows, v, "Recharge", Settled)
           /\ paid[v] = Held(flows, v, "Withdraw", Settled)
           /\ account[v].withdrawal + paid[v] + Held(flows, v, "Unfreeze", Settled)
                = Held(flows, v, "Freeze", Statuses)
      BY <2>7 DEF UserMatched
    <2> DEFINE in(op) == IF v = u /\ op = m.op /\ chain[m.tx].status = "success" THEN a ELSE 0
    <2>11. /\ Held(flows', v, "Recharge", Settled) = Held(flows, v, "Recharge", Settled) + in("Recharge")
           /\ Held(flows', v, "Withdraw", Settled) = Held(flows, v, "Withdraw", Settled) + in("Withdraw")
           /\ Held(flows', v, "Unfreeze", Settled) = Held(flows, v, "Unfreeze", Settled) + in("Unfreeze")
           /\ Held(flows', v, "Freeze", Statuses) = Held(flows, v, "Freeze", Statuses)
      BY <2>2
    <2>12. \A op : in(op) \in Nat
      BY <2>4
    <2>13. account'[v].withdrawal + paid'[v] + Held(flows', v, "Unfreeze", Settled)
             = Held(flows', v, "Freeze", Statuses)
      <3>1. /\ paid'[v] = paid[v] + in("Withdraw")
            /\ account'[v].withdrawal = (account[v].withdrawal - in("Withdraw")) - in("Unfreeze")
        BY <2>9
      <3> HIDE DEF in
      <3> QED
        BY <2>7, <2>8, <2>10, <2>11, <2>12, <3>1
    <2> QED
      BY <2>9, <2>10, <2>11, <2>13 DEF UserMatched
  <1> QED
    BY <1>1, <1>2 DEF UpdateAccountBalance

LEMMA MatchedStep == LedgerInv /\ Linked /\ Priced /\ Matched /\ [Next]_vars => Matched'
  <1> SUFFICES ASSUME LedgerInv, Linked, Priced, Matched, [Next]_vars PROVE Matched'
    OBVIOUS
  <1> USE DEF db, history
  <1>1. CASE /\ UNCHANGED <<flows, received, paid>>
             /\ \A u \in Users : account'[u].withdrawal = account[u].withdrawal
    BY <1>1, QuietMatched
  <1>2. CASE \E u \in Users : QueryBalance(u)
    <2>1. \A u \in Users : account'[u].withdrawal = account[u].withdrawal
      BY <1>2 DEF QueryBalance, LedgerInv, TypeOK
    <2> QED
      BY <1>1, <1>2, <2>1 DEF QueryBalance
  <1>3. CASE \E r \in Req : ReportLockSave(r)
    BY <1>3, ReportLockSaveMatched
  <1>4. CASE \E r \in Req : WithdrawRequestCommit(r) \/ ReportCancelSave(r) \/ ReportCommit(r)
    <2>1. PICK r \in Req : WithdrawRequestCommit(r) \/ ReportCancelSave(r) \/ ReportCommit(r)
      BY <1>4
    <2>2. CASE flows' # flows
      BY <2>1, <2>2, NewRowMatched
    <2>3. CASE flows' = flows
      <3>1. ~WithdrawRequestCommit(r)
        <4>1. flows \in Seq(Flow) /\ Len(flows) \in Nat
          BY LenProperties DEF LedgerInv, TypeOK
        <4>2. ASSUME NEW f, flows' = Append(flows, f) PROVE FALSE
          <5>1. flows \in Seq(Flow \cup {f})
            BY <4>1
          <5>2. Len(flows') = Len(flows) + 1
            BY <4>2, <5>1, AppendFacts
          <5> QED
            BY <2>3, <4>1, <5>2
        <4> QED
          BY <4>2 DEF WithdrawRequestCommit, NewFlow
      <3> QED
        BY <1>1, <2>1, <2>3, <3>1 DEF ReportCancelSave, ReportCommit
    <2> QED
      BY <2>2, <2>3
  <1>5. CASE UpdateAccountBalance
    BY <1>5, UpdateAccountBalanceMatched
  <1>6. CASE (\E u \in Users : SendDeposit(u) \/ SendLockTx(u)) \/ (\E t \in DOMAIN chain : Mine(t))
             \/ (\E m \in work : HandleTopup(m)) \/ TakeUpdate \/ CheckTx \/ Crash \/ UNCHANGED vars
    BY <1>1, <1>6 DEF SendDeposit, SendLockTx, Send, Mine, HandleTopup, TakeUpdate, CheckTx, Crash, vars
  <1>7. CASE \E r \in Req : \/ \E t \in DOMAIN chain : ReportRead(r, t)
                            \/ ReportAppend(r)
                            \/ \E u \in Users : WithdrawRequestEnter(r, u)
                            \/ WithdrawRequestCheck(r) \/ WithdrawRequestRollback(r)
                            \/ WithdrawRequestLeave(r)
    BY <1>1, <1>7 DEF ReportRead, ReportAppend, WithdrawRequestEnter, WithdrawRequestCheck,
                      WithdrawRequestRollback, WithdrawRequestLeave
  <1> QED
    BY <1>2, <1>3, <1>4, <1>5, <1>6, <1>7 DEF Next, ReportNext, RequestNext

-----------------------------------------------------------------------------
(* The books in terms of the flow table *)

\* All that is known of the ledger's amounts.
Books == LedgerInv /\ Linked /\ Conserved /\ Priced /\ Matched

SumRows(S) == SumOf([i \in DOMAIN flows |-> flows[i].real], S)
SumTxs(S) == SumOf([t \in DOMAIN chain |-> chain[t].amount], S)

\* The books are kept, whoever reports, settles, withdraws or crashes: every account
\* is the sum of its user's rows, and every open lock is still to be paid.
THEOREM BooksInvariant == Spec => []Books
  <1>1. Init => Books
    BY InvariantInitially, LinkedInitially, ConservedInitially, PricedInitially, MatchedInitially
       DEF Books
  <1>2. Books /\ [Next]_vars => Books'
    BY InvariantStep, LinkedStep, ConservedStep, PricedStep, MatchedStep DEF Books
  <1> QED
    BY <1>1, <1>2, PTL DEF Spec

LEMMA TotalIsSum ==
    ASSUME LedgerInv, NEW S \in SUBSET DOMAIN flows
    PROVE  Total(S) = SumRows(S) /\ IsFiniteSet(S)
  <1>1. IsFiniteSet(S)
    BY RowsFinite, FS_Subset DEF LedgerInv, TypeOK
  <1> DEFINE F == [i \in DOMAIN flows |-> flows[i].real]
  <1>2. \A i \in S : F[i] = flows[i].real
    OBVIOUS
  <1> HIDE DEF F
  <1>3. MapThenSumSet(LAMBDA i : flows[i].real, S) = SumOf(F, S)
    BY <1>1, <1>2, RealsSum
  <1> QED
    BY <1>1, <1>3 DEF Total, SumRows, F

LEMMA RowsAddUp ==
    ASSUME LedgerInv, NEW u, NEW op, NEW st
    PROVE  SumRows(Rows(u, op, st)) = Held(flows, u, op, st)
  <1> DEFINE F == [i \in DOMAIN flows |-> flows[i].real]
             G == Terms(flows, u, op, st)
             T == Rows(u, op, st)
  <1>1. flows \in Seq(Flow)
    BY DEF LedgerInv, TypeOK
  <1>2. T \in SUBSET DOMAIN flows /\ IsFiniteSet(DOMAIN flows)
    BY <1>1, RowsFinite DEF Rows
  <1>3. \A i \in DOMAIN flows : F[i] \in Int /\ F[i] = flows[i].real
    BY <1>1, RowsFinite
  <1>4. \A i \in DOMAIN flows : G[i] = IF i \in T THEN F[i] ELSE 0
    BY <1>1, TermsTyped DEF Counted, Rows
  <1> HIDE DEF F, G, T
  <1>5. SumOf(F, T) = SumOf(G, DOMAIN flows)
    BY <1>2, <1>3, <1>4, SumOfFilter
  <1> QED
    BY <1>5 DEF F, G, T, SumRows, Held

LEMMA RowsTotal ==
    ASSUME LedgerInv, NEW u, NEW op, NEW st
    PROVE  Total(Rows(u, op, st)) = Held(flows, u, op, st)
  <1>1. Rows(u, op, st) \in SUBSET DOMAIN flows
    BY DEF Rows
  <1> QED
    BY <1>1, TotalIsSum, RowsAddUp

\* The balance row and the flow table tell the same story: what a user owns is what the
\* settled recharges brought less what the settled claims took, for any number of
\* users, handlers, amounts and crashes.
THEOREM AccountsMatch == Spec => []AccountMatchesFlows
  <1>1. ASSUME Books, NEW u \in Users
        PROVE  account[u].available + account[u].withdrawal + Total(Rows(u, "Withdraw", {"Success"}))
                 = Opening + Total(Rows(u, "Recharge", {"Success"}))
    <2>1. /\ Total(Rows(u, "Withdraw", {"Success"})) = paid[u]
          /\ Total(Rows(u, "Recharge", {"Success"})) = received[u]
      BY <1>1, RowsTotal DEF Books, Matched, UserMatched, Settled
    <2> QED
      BY <1>1, <2>1 DEF Books, Conserved
  <1>2. Books => AccountMatchesFlows
    BY <1>1 DEF AccountMatchesFlows
  <1> QED
    BY <1>2, BooksInvariant, PTL

\* What is reserved for withdrawals is what the tickets reserved less what settled claims
\* and cancels released.
THEOREM WithdrawalsMatch == Spec => []WithdrawalMatchesTickets
  <1>1. ASSUME Books, NEW u \in Users
        PROVE  account[u].withdrawal + Total(Rows(u, "Withdraw", {"Success"}))
                 + Total(Rows(u, "Unfreeze", {"Success"})) = Total(Rows(u, "Freeze", Statuses))
    BY <1>1, RowsTotal DEF Books, Matched, UserMatched, Settled
  <1>2. Books => WithdrawalMatchesTickets
    BY <1>1 DEF WithdrawalMatchesTickets
  <1> QED
    BY <1>2, BooksInvariant, PTL

-----------------------------------------------------------------------------
(* Solvency: what the ledger promises is backed by what the contract holds. *)

RowsOf(op, st) == {i \in DOMAIN flows : flows[i].op = op /\ flows[i].status \in st}
MinedTxs(kind) == {t \in DOMAIN chain : chain[t].kind = kind /\ chain[t].status = "success"}

LEMMA TablesFinite ==
    ASSUME LedgerInv
    PROVE  /\ IsFiniteSet(DOMAIN flows) /\ \A i \in DOMAIN flows : flows[i] \in Flow /\ flows[i].real \in Nat
           /\ IsFiniteSet(DOMAIN chain) /\ \A t \in DOMAIN chain : chain[t] \in Tx /\ chain[t].amount \in Nat
  <1>1. flows \in Seq(Flow) /\ chain \in Seq(Tx)
    BY DEF LedgerInv, TypeOK
  <1>2. Len(chain) \in Nat /\ DOMAIN chain = 1..Len(chain)
    BY <1>1, LenProperties
  <1>3. IsFiniteSet(DOMAIN chain)
    BY <1>2, FS_Interval
  <1>4. \A t \in DOMAIN chain : chain[t] \in Tx /\ chain[t].amount \in Nat
    <2>1. \A t \in DOMAIN chain : chain[t] \in Tx
      BY <1>1, <1>2, LenProperties
    <2> QED
      BY <2>1 DEF Tx
  <1> QED
    BY <1>1, <1>3, <1>4, RowsFinite

LEMMA OnChainIsSum ==
    ASSUME LedgerInv, NEW kind
    PROVE  OnChain(kind) = SumTxs(MinedTxs(kind)) /\ SumTxs(MinedTxs(kind)) \in Nat
  <1> DEFINE F == [t \in DOMAIN chain |-> chain[t].amount]
             S == MinedTxs(kind)
  <1>1. IsFiniteSet(S) /\ \A t \in S : F[t] = chain[t].amount /\ F[t] \in Nat
    BY TablesFinite, FS_Subset DEF MinedTxs
  <1> HIDE DEF F, S
  <1>2. MapThenSumSet(LAMBDA i : chain[i].amount, S) = SumOf(F, S)
    BY <1>1, AmountsSum
  <1>3. SumOf(F, S) \in Nat
    BY <1>1, SumOfNat
  <1> QED
    BY <1>2, <1>3 DEF OnChain, SumTxs, MinedTxs, F, S

\* The rows of all users are the rows of each.
LEMMA UsersRows ==
    ASSUME LedgerInv, NEW op, NEW st
    PROVE  SumOf([u \in Users |-> Held(flows, u, op, st)], Users) = SumRows(RowsOf(op, st))
  <1> DEFINE S == RowsOf(op, st)
             main == [i \in DOMAIN flows |-> flows[i].main]
             F == [i \in DOMAIN flows |-> flows[i].real]
             part == [u \in Users |-> Rows(u, op, st)]
             P == [u \in Users |-> Held(flows, u, op, st)]
  <1>1. IsFiniteSet(S) /\ IsFiniteSet(Users) /\ \A i \in S : main[i] \in Users /\ F[i] \in Int
    <2>1. IsFiniteSet(S)
      BY TablesFinite, FS_Subset DEF RowsOf
    <2>2. \A i \in DOMAIN flows : flows[i].main \in Users /\ flows[i].real \in Int
      BY TablesFinite DEF Flow
    <2> QED
      BY <2>1, <2>2, LedgerAssumption DEF RowsOf
  <1>2. \A u \in Users : part[u] \subseteq S /\ \A i \in S : i \in part[u] <=> main[i] = u
    BY DEF RowsOf, Rows
  <1>3. \A u \in Users : P[u] = SumOf(F, part[u])
    BY RowsAddUp DEF SumRows
  <1> HIDE DEF S, main, F, P, part
  <1>4. SumOf(P, Users) = SumOf(F, S)
    BY <1>1, <1>2, <1>3, SumOfParts
  <1> QED
    BY <1>4 DEF P, F, S, SumRows

\* What all users can spend and the tickets add up to what was opened with, what was
\* received and what canceled locks gave back.
LEMMA AvailableTotal ==
    ASSUME Books
    PROVE  LET avail == [u \in Users |-> account[u].available] IN
           /\ SumOf(avail, Users) \in Nat
           /\ MapThenSumSet(LAMBDA u : account[u].available, Users) = SumOf(avail, Users)
           /\ SumOf(avail, Users) + SumRows(RowsOf("Freeze", Statuses))
                = Cardinality(Users) * Opening + SumRows(RowsOf("Recharge", Settled))
                     + SumRows(RowsOf("Unfreeze", Settled))
  <1> DEFINE avail == [u \in Users |-> account[u].available]
             held(op, st) == [u \in Users |-> Held(flows, u, op, st)]
             tickets == held("Freeze", Statuses)
             in == held("Recharge", Settled)
             back == held("Unfreeze", Settled)
             open == [u \in Users |-> Opening]
             gained == [u \in Users |-> Opening + in[u]]
             all == [u \in Users |-> avail[u] + tickets[u]]
  <1>1. IsFiniteSet(Users) /\ Opening \in Nat /\ LedgerInv
    BY LedgerAssumption DEF Books
  <1>2. \A u \in Users : account[u].available \in Nat /\ account[u].withdrawal \in Nat /\ paid[u] \in Nat
    BY DEF Books, LedgerInv, TypeOK
  <1>3. \A u, op, st : Held(flows, u, op, st) \in Nat
    BY TermsTyped DEF Books, LedgerInv, TypeOK
  <1>4. \A u \in Users :
            account[u].available + Held(flows, u, "Freeze", Statuses)
              = Opening + Held(flows, u, "Recharge", Settled) + Held(flows, u, "Unfreeze", Settled)
    <2> SUFFICES ASSUME NEW u \in Users
                 PROVE  account[u].available + Held(flows, u, "Freeze", Statuses)
                          = Opening + Held(flows, u, "Recharge", Settled)
                               + Held(flows, u, "Unfreeze", Settled)
      OBVIOUS
    <2>1. /\ account[u].available + account[u].withdrawal + paid[u]
               = Opening + Held(flows, u, "Recharge", Settled)
          /\ account[u].withdrawal + paid[u] + Held(flows, u, "Unfreeze", Settled)
               = Held(flows, u, "Freeze", Statuses)
      BY DEF Books, Conserved, Matched, UserMatched
    <2> QED
      BY <1>1, <1>2, <1>3, <2>1
  <1>5. \A u \in Users : /\ avail[u] \in Nat /\ tickets[u] \in Int /\ in[u] \in Int /\ back[u] \in Int
                         /\ open[u] = Opening /\ gained[u] \in Int
                         /\ gained[u] = open[u] + in[u]
                         /\ all[u] = avail[u] + tickets[u] /\ all[u] = gained[u] + back[u]
    BY <1>1, <1>2, <1>3, <1>4
  <1>6. /\ SumOf(tickets, Users) = SumRows(RowsOf("Freeze", Statuses))
        /\ SumOf(in, Users) = SumRows(RowsOf("Recharge", Settled))
        /\ SumOf(back, Users) = SumRows(RowsOf("Unfreeze", Settled))
    BY <1>1, UsersRows
  <1>7. MapThenSumSet(LAMBDA i : account[i].available, Users) = SumOf(avail, Users)
    <2>1. \A u \in Users : avail[u] = account[u].available
      OBVIOUS
    <2> HIDE DEF avail
    <2> QED
      BY <1>1, <2>1, AvailableSum
  <1> HIDE DEF avail, tickets, in, back, open, gained, all
  <1>8. SumOf(all, Users) = SumOf(avail, Users) + SumOf(tickets, Users)
    BY <1>1, <1>5, SumOfPlus
  <1>9. SumOf(all, Users) = SumOf(gained, Users) + SumOf(back, Users)
    BY <1>1, <1>5, SumOfPlus
  <1>10. SumOf(gained, Users) = SumOf(open, Users) + SumOf(in, Users)
    BY <1>1, <1>5, SumOfPlus
  <1>11. SumOf(open, Users) = Cardinality(Users) * Opening
    BY <1>1, <1>5, SumOfConstant
  <1>12. SumOf(avail, Users) \in Nat
    BY <1>1, <1>5, SumOfNat
  <1>13. SumOf(avail, Users) + SumRows(RowsOf("Freeze", Statuses))
           = Cardinality(Users) * Opening + SumRows(RowsOf("Recharge", Settled))
                + SumRows(RowsOf("Unfreeze", Settled))
    BY <1>6, <1>8, <1>9, <1>10, <1>11
  <1> QED
    BY <1>7, <1>12, <1>13 DEF avail

\* Settled rows of one kind are about distinct mined transactions, and have their amounts.
LEMMA SettledIsBacked ==
    ASSUME Books, NEW op \in {"Recharge", "Unfreeze"}
    PROVE  SumRows(RowsOf(op, Settled)) \in Nat
           /\ SumRows(RowsOf(op, Settled)) <= SumTxs(MinedTxs(op))
  <1> DEFINE S == RowsOf(op, Settled)
             T == MinedTxs(op)
             k == [i \in DOMAIN flows |-> flows[i].tx]
             F == [i \in DOMAIN flows |-> flows[i].real]
             G == [t \in DOMAIN chain |-> chain[t].amount]
  <1>1. LedgerInv
    BY DEF Books
  <1>2. IsFiniteSet(S) /\ IsFiniteSet(T) /\ \A z \in T : G[z] \in Nat
    BY <1>1, TablesFinite, FS_Subset DEF RowsOf, MinedTxs
  <1>3. ASSUME NEW i \in S
        PROVE  k[i] \in T /\ F[i] = G[k[i]] /\ F[i] \in Nat /\ i \in DOMAIN flows /\ i \in Nat
    <2>1. /\ i \in DOMAIN flows /\ flows[i].op = op /\ flows[i].status = "Success"
          /\ flows[i].real \in Nat /\ i \in Nat
      BY <1>1, TablesFinite, LenProperties DEF RowsOf, Settled, LedgerInv, TypeOK
    <2>2. /\ flows[i].tx \in DOMAIN chain /\ chain[flows[i].tx].kind = op
          /\ chain[flows[i].tx].status = "success" /\ flows[i].real = chain[flows[i].tx].amount
      BY <2>1 DEF Books, LedgerInv, Tracked, FlowsTracked, Linked, RowsLinked, RowLinked, Priced,
                  RowsPriced
    <2> QED
      BY <2>1, <2>2 DEF MinedTxs
  <1>4. ASSUME NEW i \in S, NEW j \in S, k[i] = k[j] PROVE i = j
    <2>1. /\ i \in DOMAIN flows /\ flows[i].op = op /\ flows[i].status = "Success"
          /\ j \in DOMAIN flows /\ flows[j].op = op /\ flows[j].status = "Success"
          /\ flows[i].tx = flows[j].tx
      BY <1>4 DEF RowsOf, Settled
    <2>2. flows[i].main = flows[j].main
      BY <1>1, <2>1 DEF LedgerInv, Tracked, FlowsTracked
    <2>3. ~(i < j) /\ ~(j < i)
      BY <1>1, <2>1, <2>2 DEF LedgerInv, OnlyFirstReportSettles
    <2>4. i \in Nat /\ j \in Nat
      BY <1>3
    <2> QED
      BY <2>3, <2>4
  <1> HIDE DEF S, T, k, F, G
  <1>5. SumOf(F, S) = SumOf(G, {k[i] : i \in S})
    <2>1. \A x \in S : k[x] \in T /\ F[x] = G[k[x]]
      BY <1>3
    <2>2. \A z \in T : G[z] \in Int
      BY <1>2
    <2> QED
      BY <1>2, <1>4, <2>1, <2>2, SumOfImage
  <1>6. {k[i] : i \in S} \in SUBSET T
    BY <1>3
  <1>7. SumOf(G, {k[i] : i \in S}) \in Nat /\ SumOf(G, {k[i] : i \in S}) <= SumOf(G, T)
    BY <1>2, <1>6, SumOfSubset
  <1> QED
    BY <1>5, <1>7 DEF S, T, F, G, SumRows, SumTxs

\* Every ticket is live, or was closed by one transaction of its amount.
LEMMA TicketsAreLiveOrClosed ==
    ASSUME Books
    PROVE  /\ Total(LiveTickets) \in Nat
           /\ SumRows(RowsOf("Freeze", Statuses))
                = Total(LiveTickets) + SumTxs(MinedTxs("Withdraw")) + SumTxs(MinedTxs("Unfreeze"))
  <1> DEFINE W == MinedTxs("Withdraw")
             U == MinedTxs("Unfreeze")
             D == DOMAIN flows
             L == LiveTickets
             k == [t \in DOMAIN chain |-> chain[t].ref]
             F == [t \in DOMAIN chain |-> chain[t].amount]
             G == [i \in DOMAIN flows |-> flows[i].real]
             Z == {k[t] : t \in W \cup U}
  <1>1. LedgerInv
    BY DEF Books
  <1>2. /\ IsFiniteSet(W) /\ IsFiniteSet(U) /\ W \cap U = {} /\ IsFiniteSet(D) /\ IsFiniteSet(W \cup U)
        /\ \A t \in W \cup U : t \in DOMAIN chain /\ F[t] \in Int
        /\ \A i \in D : G[i] \in Nat
    <2>1. IsFiniteSet(W) /\ IsFiniteSet(U)
      BY <1>1, TablesFinite, FS_Subset DEF MinedTxs
    <2>2. \A t \in W \cup U : t \in DOMAIN chain /\ F[t] \in Int
      BY <1>1, TablesFinite DEF MinedTxs
    <2> QED
      BY <1>1, <2>1, <2>2, TablesFinite, FS_Union DEF MinedTxs
  <1>3. ASSUME NEW t \in W \cup U PROVE k[t] \in D /\ F[t] = G[k[t]] /\ flows[k[t]].op = "Freeze"
    <2>1. t \in DOMAIN chain /\ chain[t].kind # "Recharge"
      BY DEF MinedTxs
    <2>2. chain[t].ref \in DOMAIN flows /\ flows[chain[t].ref].real = chain[t].amount
          /\ flows[chain[t].ref].op = "Freeze"
      BY <2>1 DEF Books, LedgerInv, Tracked, TxsTracked, Priced, RowsPriced
    <2> QED
      BY <2>1, <2>2
  <1>4. ASSUME NEW s \in W \cup U, NEW t \in W \cup U, k[s] = k[t] PROVE s = t
    BY <1>4 DEF Books, Priced, ClosedOnce, Closes, MinedTxs
  <1>5. \A f \in D : Closed(f) <=> f \in Z
    BY DEF Closed, Mined, MinedTxs
  <1>6. RowsOf("Freeze", Statuses) = L \cup Z /\ L \cap Z = {} /\ L \in SUBSET D /\ Z \in SUBSET D
    <2>1. \A i \in D : flows[i].status \in Statuses
      BY <1>1, TablesFinite DEF Flow
    <2>2. \A f \in Z : f \in D /\ flows[f].op = "Freeze"
      BY <1>3
    <2> HIDE DEF Z
    <2> QED
      BY <1>5, <2>1, <2>2 DEF RowsOf, LiveTickets
  <1>7. Total(L) = SumOf(G, L) /\ IsFiniteSet(L) /\ IsFiniteSet(Z)
    <2>1. Total(L) = SumRows(L)
      BY <1>1, <1>6, TotalIsSum
    <2> QED
      BY <1>2, <1>6, <2>1, FS_Subset DEF SumRows
  <1> HIDE DEF W, U, D, L, k, F, G
  <1>8. SumOf(F, W \cup U) = SumOf(G, Z)
    <2>1. /\ \A x \in W \cup U : k[x] \in D /\ F[x] = G[k[x]]
          /\ \A z \in D : G[z] \in Int
      BY <1>2, <1>3
    <2> QED
      BY <1>2, <1>4, <2>1, SumOfImage
  <1>9. SumOf(F, W \cup U) = SumOf(F, W) + SumOf(F, U)
    BY <1>2, SumOfUnion
  <1> HIDE DEF Z
  <1>10. SumOf(G, L \cup Z) = SumOf(G, L) + SumOf(G, Z)
    <2>1. \A x \in L \cup Z : G[x] \in Int
      BY <1>2, <1>6
    <2> QED
      BY <1>6, <1>7, <2>1, SumOfUnion
  <1>11. SumOf(G, L) \in Nat
    BY <1>2, <1>6, SumOfSubset
  <1>12. SumOf(F, W) \in Int /\ SumOf(F, U) \in Int
    BY <1>2, SumOfInt
  <1>13. SumRows(RowsOf("Freeze", Statuses)) = SumOf(G, L \cup Z)
    BY <1>6 DEF SumRows, G
  <1>14. SumTxs(MinedTxs("Withdraw")) = SumOf(F, W) /\ SumTxs(MinedTxs("Unfreeze")) = SumOf(F, U)
    BY DEF SumTxs, F, W, U
  <1>15. Total(LiveTickets) = SumOf(G, L)
    BY <1>7 DEF L
  <1>16. SumRows(RowsOf("Freeze", Statuses)) = SumOf(G, L) + (SumOf(F, W) + SumOf(F, U))
    BY <1>8, <1>9, <1>10, <1>13
  <1> QED
    BY <1>11, <1>12, <1>14, <1>15, <1>16

\* The contract can pay every balance that can be asked for and every ticket that is
\* not closed, whatever was lost, repeated or reordered between the chain and the ledger,
\* for any number of users, handlers, transactions and crashes.
THEOREM AlwaysSolvent == Spec => []Solvent
  <1>1. ASSUME Books PROVE Solvent
    <2> DEFINE avail == SumOf([u \in Users |-> account[u].available], Users)
               base == Cardinality(Users) * Opening
    <2>1. /\ avail \in Nat /\ base \in Int
          /\ MapThenSumSet(LAMBDA u : account[u].available, Users) = avail
          /\ avail + SumRows(RowsOf("Freeze", Statuses))
               = base + SumRows(RowsOf("Recharge", Settled)) + SumRows(RowsOf("Unfreeze", Settled))
      <3>1. Cardinality(Users) \in Nat /\ Opening \in Nat
        BY LedgerAssumption, FS_CardinalityType
      <3> QED
        BY <1>1, <3>1, AvailableTotal
    <2>2. /\ SumRows(RowsOf("Recharge", Settled)) \in Nat /\ SumRows(RowsOf("Unfreeze", Settled)) \in Nat
          /\ SumRows(RowsOf("Recharge", Settled)) <= SumTxs(MinedTxs("Recharge"))
          /\ SumRows(RowsOf("Unfreeze", Settled)) <= SumTxs(MinedTxs("Unfreeze"))
      BY <1>1, SettledIsBacked
    <2>3. /\ Total(LiveTickets) \in Nat
          /\ SumRows(RowsOf("Freeze", Statuses))
               = Total(LiveTickets) + SumTxs(MinedTxs("Withdraw")) + SumTxs(MinedTxs("Unfreeze"))
      BY <1>1, TicketsAreLiveOrClosed
    <2>4. /\ \A kind : SumTxs(MinedTxs(kind)) \in Nat
          /\ OnChain("Recharge") = SumTxs(MinedTxs("Recharge"))
          /\ OnChain("Withdraw") = SumTxs(MinedTxs("Withdraw"))
      BY <1>1, OnChainIsSum DEF Books
    <2> HIDE DEF avail, base
    <2>5. avail + Total(LiveTickets) <= base + OnChain("Recharge") - OnChain("Withdraw")
      BY <2>1, <2>2, <2>3, <2>4
    <2> QED
      BY <2>1, <2>5 DEF Solvent, base
  <1>2. Books => Solvent
    BY <1>1
  <1> QED
    BY <1>2, BooksInvariant, PTL
=============================================================================
