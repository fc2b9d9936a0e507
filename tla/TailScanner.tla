---------------------------- MODULE TailScanner ----------------------------
(***************************************************************************)
(* chain/scanner.go: RunTailScanner walks over the slots of the chain and  *)
(* appends a row to a CSV file for every trade it finds.  Rows go through  *)
(* a buffer; the last processed slot is kept in a file that is replaced    *)
(* atomically.  After a crash the scan resumes from that file.             *)
(*                                                                         *)
(* A transaction is its metadata: the token balances before and after it,  *)
(* each with its owner, its mint and its amount.  In the file, in the      *)
(* buffer and in the histories a slot stands for all of its rows.          *)
(***************************************************************************)
EXTENDS Integers, Sequences, FiniteSets, FiniteSetsExt

CONSTANTS
    MaxSlot,     \* bound: the last slot of the chain
    Block,       \* the transactions of each slot: [pre, post] sequences of balances
    Wallets,     \* the watched owners
    TargetMint,  \* cfg.TargetMint
    StartSlot,   \* cfg.StartSlot
    SaveEveryN,  \* cfg.SaveEveryN
    MaxCrashes   \* bound: crashes of the process

Slots == 1..MaxSlot

\* The balances of the target mint that owner o has in a list.
Owned(list, o) == {i \in DOMAIN list : list[i].owner = o /\ list[i].mint = TargetMint}

\* An owner has one account of the target mint: calcDeltaFor takes the first one
\* it finds in each list.
OneEach(list) ==
    /\ Len(list) \in Nat /\ DOMAIN list = 1..Len(list)
    /\ \A i \in DOMAIN list : list[i].amount \in Nat
    /\ \A o \in Wallets : Cardinality(Owned(list, o)) <= 1

ASSUME ScannerAssumption ==
    /\ MaxSlot \in Nat /\ StartSlot \in Nat /\ MaxCrashes \in Nat
    /\ SaveEveryN \in Nat \ {0} /\ DOMAIN Block = Slots
    /\ \A s \in Slots : \A t \in DOMAIN Block[s] :
          OneEach(Block[s][t].pre) /\ OneEach(Block[s][t].post)

VARIABLES
    chain,     \* the head of the chain
    pc,        \* where the scanner is
    head,      \* the head it was told last
    last,      \* st.LastProcessed
    buf,       \* rows written, not flushed
    saved,     \* the progress file, 0 when there is none
    csv,       \* the rows in the file
    crashes,
    missed,    \* history: slots given up after an error of getBlock
    exposed    \* history: rows that were in the buffer when the progress was saved

scanVars == <<chain, pc, head, last, buf, saved, csv, crashes, missed, exposed>>

-----------------------------------------------------------------------------
(* What is read from a block                                               *)

\* Mutant: only the balances after the transaction are looked at.
OwnersHit_Post(m) == {o \in Wallets : Owned(m.post, o) # {}}

\* ownersHit: an account that was closed is in the first list only, one that was
\* opened in the second.
OwnersHit(m) == {o \in Wallets : Owned(m.pre, o) \cup Owned(m.post, o) # {}}

\* The amount of the first account of an owner, 0 without one.
AmountIn(list, o) == IF Owned(list, o) = {} THEN 0 ELSE list[Min(Owned(list, o))].amount

\* calcDeltaFor
DeltaFor(o, m) == AmountIn(m.post, o) - AmountIn(m.pre, o)

\* The rows of a slot: BUY and SELL is the sign of delta.
TradeRows(s) ==
    {row \in UNION {{[tx |-> t, owner |-> o, delta |-> DeltaFor(o, Block[s][t])] :
                       o \in OwnersHit(Block[s][t])} : t \in DOMAIN Block[s]} :
        row.delta # 0}

-----------------------------------------------------------------------------
\* loadState and openCSVAppend.
Resume ==
    /\ pc = "start"
    /\ last' = IF saved < StartSlot THEN StartSlot ELSE saved
    /\ pc' = "poll"
    /\ UNCHANGED <<chain, head, buf, saved, csv, crashes, missed, exposed>>

\* getSlot answers; when there is nothing new, or no answer, it is asked again.
GetSlot ==
    /\ pc = "poll" /\ last < chain
    /\ head' = chain /\ pc' = "scan"
    /\ UNCHANGED <<chain, last, buf, saved, csv, crashes, missed, exposed>>

\* Mutant: the scan begins at the last slot that was processed.
NextSlot_Again == IF last = StartSlot THEN last + 1 ELSE last

NextSlot == last + 1

\* An error or an empty block: the slot counts as processed, and the progress is
\* saved for every SaveEveryN-th, without a flush.
SkipSlot(error) ==
    /\ pc = "scan" /\ last < head
    /\ error \/ Block[NextSlot] = <<>>
    /\ last' = NextSlot
    /\ missed' = IF error THEN missed \cup {NextSlot} ELSE missed
    /\ IF NextSlot % SaveEveryN = 0
       THEN saved' = NextSlot /\ exposed' = exposed \cup {buf[i] : i \in DOMAIN buf}
       ELSE UNCHANGED <<saved, exposed>>
    /\ UNCHANGED <<chain, pc, head, buf, csv, crashes>>

\* A block with a trade: its row is written, then the ticker may ask for a flush.
WriteRow ==
    /\ pc = "scan" /\ last < head /\ TradeRows(NextSlot) # {}
    /\ buf' = Append(buf, NextSlot) /\ last' = NextSlot
    /\ pc' \in {"scan", "flush"}
    /\ UNCHANGED <<chain, head, saved, csv, crashes, missed, exposed>>

\* A block with transactions, none of them a trade: the ticker is looked at too.
PassSlot ==
    /\ pc = "scan" /\ last < head /\ Block[NextSlot] # <<>> /\ TradeRows(NextSlot) = {}
    /\ last' = NextSlot /\ pc' \in {"scan", "flush"}
    /\ UNCHANGED <<chain, head, buf, saved, csv, crashes, missed, exposed>>

\* The buffer is full: its beginning goes to the file.
Spill ==
    /\ pc = "scan" /\ buf # <<>>
    /\ csv' = Append(csv, Head(buf)) /\ buf' = Tail(buf)
    /\ UNCHANGED <<chain, pc, head, last, saved, crashes, missed, exposed>>

\* The head is reached, or the context is cancelled.
Caught == pc = "scan" /\ last >= head /\ pc' = "flush"
          /\ UNCHANGED <<chain, head, last, buf, saved, csv, crashes, missed, exposed>>
ScanCancel == pc \in {"poll", "scan"} /\ pc' = "flush_stop"
          /\ UNCHANGED <<chain, head, last, buf, saved, csv, crashes, missed, exposed>>

\* The file and the buffer after a flush.
Flushed == <<csv \o buf, <<>>>>

Flush ==
    /\ pc \in {"flush", "flush_stop"}
    /\ csv' = Flushed[1] /\ buf' = Flushed[2]
    /\ pc' = IF pc = "flush" THEN "save" ELSE "save_stop"
    /\ UNCHANGED <<chain, head, last, saved, crashes, missed, exposed>>

\* Mutant: the progress is not saved again when the head is reached.
SaveState_AtStop ==
    /\ pc \in {"save", "save_stop"}
    /\ saved' = IF pc = "save" THEN saved ELSE last
    /\ pc' = IF pc = "save_stop" THEN "stopped" ELSE IF last < head THEN "scan" ELSE "poll"
    /\ UNCHANGED <<chain, head, last, buf, csv, crashes, missed, exposed>>

SaveState ==
    /\ pc \in {"save", "save_stop"}
    /\ saved' = last
    /\ pc' = IF pc = "save_stop" THEN "stopped" ELSE IF last < head THEN "scan" ELSE "poll"
    /\ UNCHANGED <<chain, head, last, buf, csv, crashes, missed, exposed>>

\* The process dies with its buffer, or is started again after it stopped.
Restart ==
    /\ crashes < MaxCrashes /\ crashes' = crashes + 1
    /\ pc' = "start" /\ buf' = <<>> /\ last' = 0 /\ head' = 0
    /\ UNCHANGED <<chain, saved, csv, missed, exposed>>

Produce == chain < MaxSlot /\ chain' = chain + 1
           /\ UNCHANGED <<pc, head, last, buf, saved, csv, crashes, missed, exposed>>

\* The chain ends in the model, and a scanner that was cancelled stays so.
Rest == (pc = "stopped" \/ (pc = "poll" /\ last >= chain)) /\ UNCHANGED scanVars

-----------------------------------------------------------------------------
ScanInit ==
    /\ chain = 0 /\ pc = "start" /\ head = 0 /\ last = 0 /\ buf = <<>>
    /\ saved = 0 /\ csv = <<>> /\ crashes = 0 /\ missed = {} /\ exposed = {}

Scan == WriteRow \/ PassSlot \/ \E error \in BOOLEAN : SkipSlot(error)
Step == Resume \/ GetSlot \/ Scan \/ Caught \/ Flush \/ SaveState

ScanNext == Step \/ Spill \/ ScanCancel \/ Restart \/ Produce \/ Rest

ScanSpec == ScanInit /\ [][ScanNext]_scanVars

\* The scanner's goroutine goes on, and getSlot answers again and again.
ScanFairSpec == ScanSpec /\ WF_scanVars(Step)

-----------------------------------------------------------------------------
Rows(s) == Cardinality({i \in DOMAIN csv : csv[i] = s}) + Cardinality({i \in DOMAIN buf : buf[i] = s})

\* What a transaction of slot s really changed: all that an owner has after it, less
\* all that it had before.
Total(list, o) == MapThenSumSet(LAMBDA i : list[i].amount, Owned(list, o))
Changed(s, t, o) == Total(Block[s][t].post, o) - Total(Block[s][t].pre, o)

Written(s, t, o) == Rows(s) > 0 /\ [tx |-> t, owner |-> o, delta |-> Changed(s, t, o)] \in TradeRows(s)

\* Whatever a watched wallet gained or lost in a slot that counts as processed is in
\* the file or in the buffer, with its amount, also when its account was opened or
\* closed in the transaction.  It is missing only when getBlock failed for its slot,
\* or when a crash took the buffer it was in after the progress had been saved for an
\* empty slot.
NoTradeForgotten ==
    \A s \in Slots, o \in Wallets : \A t \in DOMAIN Block[s] :
        StartSlot < s /\ (s <= saved \/ s <= last) /\ Changed(s, t, o) # 0
            => Written(s, t, o) \/ s \in missed \cup exposed

\* A slot is written again only after a restart, from the progress that was saved.
RepeatedOnlyByRestart == \A s \in Slots : Rows(s) <= 1 + crashes

\* Unless it is cancelled, the scanner comes to every slot after the first and saves
\* that it did.
CatchesUp == \A s \in Slots \ 1..StartSlot : (chain >= s) ~> (saved >= s \/ pc = "stopped")
=============================================================================
