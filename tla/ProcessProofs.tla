--------------------------- MODULE ProcessProofs ---------------------------
(***************************************************************************)
(* What the goroutines of the process share in memory, for all constants.  *)
(*                                                                         *)
(* The topup queue (RichQueue): the consumer never sleeps beside a slot,   *)
(* no key is left behind, no item has more copies than calls were made,    *)
(* and the queue implements WorkQueue.  KeyHasWork is inductive together   *)
(* with the types, and the refinement needs it: an item may only be turned *)
(* away when somebody already holds it.                                    *)
(*                                                                         *)
(* The websocket manager (WsManager): its two maps agree.  The scanner     *)
(* (TailScanner): no trade is forgotten, and a restart repeats a slot at   *)
(* most once.  The three share no variable and no constant.                *)
(***************************************************************************)
EXTENDS RichQueue, WsManager, TailScanner, SumLemmas, FiniteSetTheorems, TLAPS

QueueInv == TypeOK /\ NoLostWakeup /\ KeyHasWork

\* What LoadOrStore may change.
LEMMA StoreTyped ==
    ASSUME TypeOK, NEW i \in Items, Store(i)
    PROVE  /\ signIn' \subseteq Items /\ storing' \in [Items -> Nat]
           /\ signIn \subseteq signIn'
           /\ \A j \in Items : storing'[j] >= storing[j]
           /\ \A j \in signIn' : j \in signIn \/ storing'[j] > 0
           /\ i \notin signIn => storing'[i] > 0
<1>1. CASE i \in signIn /\ UNCHANGED <<signIn, storing>>
  BY <1>1 DEF TypeOK
<1>2. CASE /\ i \notin signIn /\ signIn' = signIn \cup {i}
           /\ storing' = [storing EXCEPT ![i] = @ + 1]
  <2>1. storing' \in [Items -> Nat] /\ storing'[i] = storing[i] + 1
    BY <1>2 DEF TypeOK
  <2>2. \A j \in Items : storing'[j] >= storing[j]
    BY <1>2 DEF TypeOK
  <2> QED BY <1>2, <2>1, <2>2 DEF TypeOK
<1> QED BY <1>1, <1>2 DEF Store

\* Where the slots of a queue are after its first n were handed out.
LEMMA CutSlots ==
    ASSUME TypeOK, NEW n \in 0..Len(slots), slots' = Cut(n)
    PROVE  /\ slots' \in Seq(Items) /\ Len(slots') = Len(slots) - n
           /\ \A m \in 1..Len(slots') : slots'[m] = slots[n + m]
           /\ \A m \in (n + 1)..Len(slots) : slots[m] = slots'[m - n]
BY DEF TypeOK, Cut

LEMMA HandlerTyped ==
    ASSUME TypeOK, NEW k \in DOMAIN batch, NEW p \in Phases,
           batch' = [batch EXCEPT ![k].phase = p]
    PROVE  /\ batch' \in Seq(Handler) /\ DOMAIN batch' = DOMAIN batch /\ batch # <<>>
           /\ batch'[k].phase = p /\ batch[k].item \in Items
           /\ \A l \in DOMAIN batch : batch'[l].item = batch[l].item
           /\ \A l \in DOMAIN batch \ {k} : batch'[l] = batch[l]
<1>1. batch \in Seq(Handler) /\ DOMAIN batch = 1..Len(batch) /\ Len(batch) \in Nat
  BY DEF TypeOK
<1>2. batch[k] \in Handler
  BY <1>1
<1>3. [batch[k] EXCEPT !.phase = p] \in Handler
  BY <1>2 DEF Handler
<1>4. batch' = [batch EXCEPT ![k] = [batch[k] EXCEPT !.phase = p]]
  OBVIOUS
<1>5. batch' \in Seq(Handler) /\ DOMAIN batch' = DOMAIN batch
  BY <1>1, <1>3, <1>4
<1>6. batch'[k].phase = p /\ batch'[k].item = batch[k].item /\ batch[k].item \in Items
  BY <1>2, <1>4 DEF Handler
<1>7. \A l \in DOMAIN batch \ {k} : batch'[l] = batch[l]
  BY <1>4
<1> QED BY <1>1, <1>5, <1>6, <1>7

-----------------------------------------------------------------------------
LEMMA QueueInit == Init => QueueInv
<1> SUFFICES ASSUME Init PROVE QueueInv
  OBVIOUS
<1>1. storing \in [Items -> Nat] /\ sleeping \in [Items -> Nat]
  BY DEF Init
<1>2. slots \in Seq(Items) /\ batch \in Seq(Handler)
  BY DEF Init
<1> QED BY <1>1, <1>2 DEF Init, QueueInv, TypeOK, NoLostWakeup, KeyHasWork

\* Storing a key and appending the item are each other's cover.
LEMMA StoreStep ==
    ASSUME QueueInv, NEW i \in Items, Enqueue(i) \/ Awake(i)
    PROVE  QueueInv'
<1> USE DEF QueueInv
<1>1. Store(i) /\ UNCHANGED <<slots, notify, consumer, batch, cancelled>>
  BY DEF Enqueue, Awake
<1>2. TypeOK'
  <2>1. sleeping' \in [Items -> Nat] /\ calls' \in Nat
    <3>1. CASE Enqueue(i)
      BY <3>1 DEF Enqueue, TypeOK
    <3>2. CASE Awake(i)
      BY <3>2 DEF Awake, TypeOK
    <3> QED BY <3>1, <3>2
  <2> QED BY <1>1, <2>1, StoreTyped DEF TypeOK
<1>3. KeyHasWork'
  <2> SUFFICES ASSUME NEW j \in signIn' PROVE (storing[j] > 0 \/ Queued(j) \/ Handled(j))'
    BY DEF KeyHasWork
  <2>1. j \in Items /\ (j \in signIn \/ storing'[j] > 0) /\ storing'[j] >= storing[j]
    BY <1>1, StoreTyped
  <2>2. (Queued(j) => Queued(j)') /\ (Handled(j) => Handled(j)')
    BY <1>1 DEF Queued, Handled, InHand
  <2>3. storing[j] \in Nat /\ storing'[j] \in Nat
    BY <1>2, <2>1 DEF TypeOK
  <2> QED BY <2>1, <2>2, <2>3 DEF KeyHasWork
<1> QED BY <1>1, <1>2, <1>3 DEF NoLostWakeup

LEMMA AppendStep ==
    ASSUME QueueInv, NEW i \in Items, AppendSlot(i)
    PROVE  QueueInv'
<1> USE DEF QueueInv
<1>1. /\ slots' \in Seq(Items) /\ Len(slots') = Len(slots) + 1
      /\ slots'[Len(slots) + 1] = i
      /\ \A n \in 1..Len(slots) : slots'[n] = slots[n]
      /\ DOMAIN slots = 1..Len(slots) /\ DOMAIN slots' = 1..(Len(slots) + 1)
      /\ Len(slots) \in Nat
  BY DEF AppendSlot, TypeOK
<1>2. storing' \in [Items -> Nat] /\ \A j \in Items \ {i} : storing'[j] = storing[j]
  BY DEF AppendSlot, TypeOK
<1>3. TypeOK' /\ NoLostWakeup'
  BY <1>1, <1>2 DEF AppendSlot, Token, TypeOK, NoLostWakeup
<1>4. KeyHasWork'
  <2> SUFFICES ASSUME NEW j \in signIn PROVE (storing[j] > 0 \/ Queued(j) \/ Handled(j))'
    BY DEF KeyHasWork, AppendSlot
  <2>1. CASE j = i
    <3>1. Len(slots) + 1 \in DOMAIN slots'
      BY <1>1
    <3> QED BY <1>1, <2>1, <3>1 DEF Queued
  <2>2. CASE j # i /\ Queued(j)
    <3>1. PICK n \in 1..Len(slots) : slots[n] = j
      BY <1>1, <2>2 DEF Queued
    <3> QED BY <1>1, <3>1 DEF Queued
  <2>3. CASE j # i /\ (storing[j] > 0 \/ Handled(j))
    BY <1>2, <2>3 DEF Handled, InHand, AppendSlot, TypeOK
  <2> QED BY <2>1, <2>2, <2>3 DEF KeyHasWork
<1> QED BY <1>3, <1>4

LEMMA DequeueStep ==
    ASSUME QueueInv, BatchDequeue
    PROVE  QueueInv'
<1> USE DEF QueueInv
<1>1. CASE slots = <<>> /\ consumer' = "wait" /\ UNCHANGED <<slots, batch>>
  BY <1>1 DEF BatchDequeue, TypeOK, NoLostWakeup, KeyHasWork, Queued, Handled, InHand
<1>2. CASE slots # <<>> /\ consumer' = "handle"
  <2> DEFINE n == IF Len(slots) > BatchSize THEN BatchSize ELSE Len(slots)
  <2>1. n \in 1..Len(slots)
    BY <1>2, QueueAssumption DEF TypeOK
  <2>2. batch' = [k \in 1..n |-> [item |-> slots[k], phase |-> "run"]] /\ slots' = Cut(n)
    BY <1>2 DEF BatchDequeue
  <2> HIDE DEF n
  <2>3. \A k \in 1..n : [item |-> slots[k], phase |-> "run"] \in Handler
    BY <2>1 DEF TypeOK, Handler, Phases
  <2>4. batch' \in Seq(Handler) /\ DOMAIN batch' = 1..n
    BY <2>1, <2>2, <2>3 DEF TypeOK
  <2>5. slots' \in Seq(Items)
    BY <2>1, <2>2, CutSlots DEF TypeOK
  <2>6. TypeOK' /\ NoLostWakeup'
    BY <1>2, <2>4, <2>5 DEF BatchDequeue, TypeOK, NoLostWakeup
  <2>7. KeyHasWork'
    <3> SUFFICES ASSUME NEW j \in signIn PROVE (storing[j] > 0 \/ Queued(j) \/ Handled(j))'
      BY DEF KeyHasWork, BatchDequeue
    <3>1. batch = <<>>
      BY DEF BatchDequeue, TypeOK
    <3>2. storing[j] > 0 \/ Queued(j)
      BY <3>1 DEF KeyHasWork, Handled, InHand
    <3>3. CASE storing[j] > 0
      BY <3>3 DEF BatchDequeue
    <3>4. CASE Queued(j)
      <4>1. PICK m \in 1..Len(slots) : slots[m] = j
        BY <3>4 DEF Queued, TypeOK
      <4>2. CASE m <= n
        <5>1. m \in 1..n
          BY <2>1, <4>2 DEF TypeOK
        <5>2. batch'[m].item = j /\ batch'[m].phase = "run"
          BY <2>2, <4>1, <5>1
        <5> QED BY <2>4, <5>1, <5>2 DEF Handled, InHand
      <4>3. CASE m > n
        <5>1. /\ Len(slots') = Len(slots) - n /\ Len(slots) \in Nat
              /\ \A l \in (n + 1)..Len(slots) : slots[l] = slots'[l - n]
          <6>1. TypeOK /\ n \in 0..Len(slots) /\ Len(slots) \in Nat
            BY <2>1 DEF TypeOK
          <6> QED BY <2>2, <6>1, CutSlots
        <5>2. m \in (n + 1)..Len(slots) /\ m - n \in 1..Len(slots')
          BY <2>1, <4>1, <4>3, <5>1
        <5>3. DOMAIN slots' = 1..Len(slots')
          BY <2>5
        <5> QED BY <4>1, <5>1, <5>2, <5>3 DEF Queued
      <4> QED BY <2>1, <4>1, <4>2, <4>3 DEF TypeOK
    <3> QED BY <3>2, <3>3, <3>4
  <2> QED BY <2>6, <2>7
<1> QED BY <1>1, <1>2 DEF BatchDequeue

\* A handler deletes no key but its own item's.
LEMMA HandlerStep ==
    ASSUME QueueInv, NEW k \in DOMAIN batch, HandlerNext(k)
    PROVE  QueueInv'
<1> USE DEF QueueInv
<1>1. PICK p \in {"unlock", "end"} : batch' = [batch EXCEPT ![k].phase = p]
  BY DEF HandlerNext, HandlerDone, HandlerRetry, HandlerUnlock
<1>2. p \in Phases
  BY DEF Phases
<1>3. /\ batch' \in Seq(Handler) /\ DOMAIN batch' = DOMAIN batch /\ batch # <<>>
      /\ batch'[k].phase = p /\ batch[k].item \in Items
      /\ \A l \in DOMAIN batch : batch'[l].item = batch[l].item
      /\ \A l \in DOMAIN batch \ {k} : batch'[l] = batch[l]
  BY <1>1, <1>2, HandlerTyped
<1>4. /\ UNCHANGED <<storing, slots, notify, consumer, cancelled, calls>>
      /\ sleeping' \in [Items -> Nat]
      /\ signIn' \in {signIn, signIn \ {batch[k].item}}
      /\ p = "end" => signIn' = signIn \ {batch[k].item}
  <2>1. CASE HandlerDone(k)
    <3>1. batch'[k].phase = "unlock"
      BY <2>1, HandlerTyped DEF HandlerDone, Phases
    <3> QED BY <1>3, <2>1, <3>1 DEF HandlerDone, TypeOK
  <2>2. CASE HandlerRetry(k)
    BY <1>3, <2>2 DEF HandlerRetry, TypeOK
  <2>3. CASE HandlerUnlock(k)
    BY <2>3 DEF HandlerUnlock, Release, TypeOK
  <2> QED BY <2>1, <2>2, <2>3 DEF HandlerNext
<1>5. TypeOK' /\ NoLostWakeup'
  BY <1>3, <1>4 DEF TypeOK, NoLostWakeup
<1>6. KeyHasWork'
  <2> SUFFICES ASSUME NEW j \in signIn' PROVE (storing[j] > 0 \/ Queued(j) \/ Handled(j))'
    BY DEF KeyHasWork
  <2>1. storing[j] > 0 \/ Queued(j) \/ Handled(j)
    BY <1>4 DEF KeyHasWork
  <2>2. CASE Handled(j)
    BY <1>3, <1>4, <2>2 DEF Handled, InHand
  <2> QED BY <1>4, <2>1, <2>2 DEF Queued
<1> QED BY <1>5, <1>6

LEMMA QueueStep == QueueInv /\ [Next]_vars => QueueInv'
<1> USE DEF QueueInv
<1> SUFFICES ASSUME QueueInv, [Next]_vars PROVE QueueInv'
  OBVIOUS
<1>1. ASSUME NEW i \in Items, Enqueue(i) \/ AppendSlot(i) \/ Awake(i) PROVE QueueInv'
  BY <1>1, StoreStep, AppendStep
<1>2. ASSUME NEW k \in DOMAIN batch, HandlerNext(k) PROVE QueueInv'
  BY <1>2, HandlerStep
<1>3. CASE BatchDequeue
  BY <1>3, DequeueStep
<1>4. CASE ConsumerWake \/ ConsumerStop
  BY <1>4 DEF ConsumerWake, ConsumerStop, TypeOK, NoLostWakeup, KeyHasWork, Queued, Handled, InHand
<1>5. CASE BatchEnd
  <2>1. /\ batch' = <<>> /\ consumer' = "drain"
        /\ UNCHANGED <<signIn, storing, slots, notify, sleeping, cancelled, calls>>
    BY <1>5 DEF BatchEnd
  <2>2. TypeOK' /\ NoLostWakeup'
    BY <2>1 DEF TypeOK, NoLostWakeup
  <2>3. \A j \in Items : ~Handled(j)
    BY <1>5 DEF BatchEnd, Handled, InHand
  <2>4. KeyHasWork'
    BY <2>1, <2>3 DEF KeyHasWork, Queued, TypeOK
  <2> QED BY <2>2, <2>4
<1>6. CASE Cancel \/ UNCHANGED vars
  BY <1>6 DEF Cancel, vars, TypeOK, NoLostWakeup, KeyHasWork, Queued, Handled, InHand
<1> QED BY <1>1, <1>2, <1>3, <1>4, <1>5, <1>6 DEF Next, ConsumerNext

\* Reachable states satisfy the inductive invariant.
THEOREM QueueInvariant == Spec => []QueueInv
BY QueueInit, QueueStep, PTL DEF Spec

\* The consumer never sleeps beside a slot (Enqueue sends the token under the
\* mutex, after the append).
THEOREM WakeupKept == Spec => []NoLostWakeup
<1>1. QueueInv => NoLostWakeup
  BY DEF QueueInv
<1> QED BY <1>1, QueueInvariant, PTL

\* A key in signInLocks always has somebody who will delete it.
THEOREM KeysReleased == Spec => []KeyHasWork
<1>1. QueueInv => KeyHasWork
  BY DEF QueueInv
<1> QED BY <1>1, QueueInvariant, PTL

\* The variables keep their types, and nothing is in a handler's hands unless the
\* consumer waits for it.
THEOREM QueueTyped == Spec => []TypeOK
<1>1. QueueInv => TypeOK
  BY DEF QueueInv
<1> QED BY <1>1, QueueInvariant, PTL

-----------------------------------------------------------------------------
(* Copies, counted.  Every step moves a copy from one place to the next, or *)
(* drops one; only Enqueue makes one.                                       *)

CopiesInv == QueueInv /\ CopiesBounded

LEMMA CopiesFinite ==
    ASSUME slots \in Seq(Items), batch \in Seq(Handler), NEW i
    PROVE  /\ IsFiniteSet(SlotsOf(i)) /\ Cardinality(SlotsOf(i)) \in Nat
           /\ IsFiniteSet(HandlersOf(i)) /\ Cardinality(HandlersOf(i)) \in Nat
<1>1. /\ DOMAIN slots = 1..Len(slots) /\ Len(slots) \in Nat
      /\ DOMAIN batch = 1..Len(batch) /\ Len(batch) \in Nat
  OBVIOUS
<1>2. IsFiniteSet(DOMAIN slots) /\ IsFiniteSet(DOMAIN batch)
  BY <1>1, FS_Interval
<1>3. SlotsOf(i) \in SUBSET DOMAIN slots /\ HandlersOf(i) \in SUBSET DOMAIN batch
  BY DEF SlotsOf, HandlersOf
<1>4. IsFiniteSet(SlotsOf(i)) /\ IsFiniteSet(HandlersOf(i))
  BY <1>2, <1>3, FS_Subset
<1> QED BY <1>4, FS_CardinalityType

\* An item has as many copies left as its places add up to.
LEMMA CopiesValue ==
    ASSUME CopiesInv, NEW i \in Items
    PROVE  \E st, sl, n, m \in Nat :
             /\ st = storing[i] /\ sl = sleeping[i] /\ n = Cardinality(SlotsOf(i))
             /\ m = Cardinality(HandlersOf(i)) /\ st + sl + n + m <= calls /\ calls \in Nat
<1>1. storing[i] \in Nat /\ sleeping[i] \in Nat /\ calls \in Nat
  BY DEF CopiesInv, QueueInv, TypeOK
<1>2. Cardinality(SlotsOf(i)) \in Nat /\ Cardinality(HandlersOf(i)) \in Nat
  BY CopiesFinite DEF CopiesInv, QueueInv, TypeOK
<1>3. storing[i] + sleeping[i] + Cardinality(SlotsOf(i)) + Cardinality(HandlersOf(i)) <= calls
  BY DEF CopiesInv, CopiesBounded, Copies
<1> QED BY <1>1, <1>2, <1>3

LEMMA CopiesInit == Init => CopiesInv
<1> SUFFICES ASSUME Init PROVE CopiesInv
  OBVIOUS
<1>1. QueueInv
  BY QueueInit
<1>2. ASSUME NEW i \in Items PROVE Copies(i) <= calls
  <2>1. SlotsOf(i) = {} /\ HandlersOf(i) = {}
    BY DEF Init, SlotsOf, HandlersOf
  <2>2. storing[i] = 0 /\ sleeping[i] = 0 /\ calls = 0
    BY DEF Init
  <2> QED BY <2>1, <2>2, FS_EmptySet DEF Copies
<1> QED BY <1>1, <1>2 DEF CopiesInv, CopiesBounded

LEMMA StoreCopies ==
    ASSUME CopiesInv, NEW i \in Items, Enqueue(i) \/ Awake(i)
    PROVE  CopiesBounded'
<1> SUFFICES ASSUME NEW j \in Items PROVE Copies(j)' <= calls'
  BY DEF CopiesBounded
<1>1. PICK st, sl, n, m \in Nat :
        /\ st = storing[j] /\ sl = sleeping[j] /\ n = Cardinality(SlotsOf(j))
        /\ m = Cardinality(HandlersOf(j)) /\ st + sl + n + m <= calls /\ calls \in Nat
  BY CopiesValue
<1>2. SlotsOf(j)' = SlotsOf(j) /\ HandlersOf(j)' = HandlersOf(j)
  BY DEF Enqueue, Awake, SlotsOf, HandlersOf
<1>3. storing'[j] \in {st, IF j = i THEN st + 1 ELSE st}
  BY <1>1 DEF Enqueue, Awake, Store, CopiesInv, QueueInv, TypeOK
<1>4. CASE Enqueue(i)
  BY <1>1, <1>2, <1>3, <1>4 DEF Enqueue, Copies
<1>5. CASE Awake(i)
  <2>1. sleeping'[j] = IF j = i THEN sl - 1 ELSE sl
    BY <1>1, <1>5 DEF Awake, CopiesInv, QueueInv, TypeOK
  <2>2. calls' = calls
    BY <1>5 DEF Awake
  <2> QED BY <1>1, <1>2, <1>3, <2>1, <2>2 DEF Copies
<1> QED BY <1>4, <1>5

LEMMA AppendCopies ==
    ASSUME CopiesInv, NEW i \in Items, AppendSlot(i)
    PROVE  CopiesBounded'
<1> SUFFICES ASSUME NEW j \in Items PROVE Copies(j)' <= calls'
  BY DEF CopiesBounded
<1>1. PICK st, sl, n, m \in Nat :
        /\ st = storing[j] /\ sl = sleeping[j] /\ n = Cardinality(SlotsOf(j))
        /\ m = Cardinality(HandlersOf(j)) /\ st + sl + n + m <= calls /\ calls \in Nat
  BY CopiesValue
<1>2. /\ DOMAIN slots' = 1..(Len(slots) + 1) /\ DOMAIN slots = 1..Len(slots)
      /\ Len(slots) \in Nat /\ slots'[Len(slots) + 1] = i
      /\ \A k \in 1..Len(slots) : slots'[k] = slots[k]
  BY DEF AppendSlot, CopiesInv, QueueInv, TypeOK
<1>3. HandlersOf(j)' = HandlersOf(j) /\ UNCHANGED <<sleeping, calls>>
  BY DEF AppendSlot, HandlersOf
<1>4. storing'[j] = IF j = i THEN st - 1 ELSE st
  BY <1>1 DEF AppendSlot, CopiesInv, QueueInv, TypeOK
<1>5. Cardinality(SlotsOf(j)') = IF j = i THEN n + 1 ELSE n
  <2>1. CASE j = i
    <3>1. SlotsOf(j)' = SlotsOf(j) \cup {Len(slots) + 1} /\ Len(slots) + 1 \notin SlotsOf(j)
      BY <1>2, <2>1 DEF SlotsOf
    <3>2. IsFiniteSet(SlotsOf(j))
      BY CopiesFinite DEF CopiesInv, QueueInv, TypeOK
    <3> QED BY <1>1, <2>1, <3>1, <3>2, FS_AddElement
  <2>2. CASE j # i
    <3>1. SlotsOf(j)' = SlotsOf(j)
      BY <1>2, <2>2 DEF SlotsOf
    <3> QED BY <1>1, <2>2, <3>1
  <2> QED BY <2>1, <2>2
<1> QED BY <1>1, <1>3, <1>4, <1>5 DEF Copies

\* The slots handed out and the slots that are left are the slots there were.
LEMMA DequeueCopies ==
    ASSUME CopiesInv, BatchDequeue
    PROVE  CopiesBounded'
<1>1. CASE UNCHANGED <<slots, batch>>
  BY <1>1 DEF BatchDequeue, CopiesInv, CopiesBounded, Copies, SlotsOf, HandlersOf
<1>2. CASE slots # <<>> /\ consumer' = "handle"
  <2> DEFINE n == IF Len(slots) > BatchSize THEN BatchSize ELSE Len(slots)
  <2>1. n \in 1..Len(slots) /\ Len(slots) \in Nat /\ n \in Nat
    BY <1>2, QueueAssumption DEF CopiesInv, QueueInv, TypeOK
  <2>2. batch' = [k \in 1..n |-> [item |-> slots[k], phase |-> "run"]] /\ slots' = Cut(n)
    BY <1>2 DEF BatchDequeue
  <2> HIDE DEF n
  <2>3. /\ slots \in Seq(Items) /\ slots' \in Seq(Items) /\ Len(slots') = Len(slots) - n
        /\ \A k \in 1..Len(slots') : slots'[k] = slots[n + k]
    <3>1. TypeOK /\ n \in 0..Len(slots)
      BY <2>1 DEF CopiesInv, QueueInv
    <3>2. slots \in Seq(Items)
      BY <3>1 DEF TypeOK
    <3> QED BY <2>2, <3>1, <3>2, CutSlots
  <2> SUFFICES ASSUME NEW j \in Items PROVE Copies(j)' <= calls'
    BY DEF CopiesBounded
  <2>4. PICK st, sl, p, q \in Nat :
          /\ st = storing[j] /\ sl = sleeping[j] /\ p = Cardinality(SlotsOf(j))
          /\ q = Cardinality(HandlersOf(j)) /\ st + sl + p + q <= calls /\ calls \in Nat
    BY CopiesValue
  <2> DEFINE left == {k \in SlotsOf(j) : k > n}
  <2>5. /\ DOMAIN slots = 1..Len(slots) /\ DOMAIN slots' = 1..(Len(slots) - n)
        /\ \A k \in 1..(Len(slots) - n) : slots'[k] = slots[n + k]
    BY <2>3
  <2>6. SlotsOf(j) = HandlersOf(j)' \cup left /\ HandlersOf(j)' \cap left = {}
    <3>1. HandlersOf(j)' = {k \in 1..n : slots[k] = j}
      BY <2>2 DEF HandlersOf
    <3> QED BY <2>1, <2>5, <3>1 DEF SlotsOf
  <2>7. IsFiniteSet(SlotsOf(j)) /\ IsFiniteSet(left) /\ IsFiniteSet(HandlersOf(j)')
    <3>1. IsFiniteSet(SlotsOf(j))
      BY CopiesFinite DEF CopiesInv, QueueInv, TypeOK
    <3>2. left \in SUBSET SlotsOf(j) /\ HandlersOf(j)' \in SUBSET SlotsOf(j)
      BY <2>6
    <3> QED BY <3>1, <3>2, FS_Subset
  <2>8. Cardinality(SlotsOf(j)') <= Cardinality(left) /\ IsFiniteSet(SlotsOf(j)')
    <3> DEFINE move == [k \in SlotsOf(j)' |-> n + k]
    <3>1. SlotsOf(j)' = {k \in 1..(Len(slots) - n) : slots'[k] = j}
      BY <2>5 DEF SlotsOf
    <3>2. \A k \in SlotsOf(j)' : n + k \in left /\ k \in Int
      BY <2>1, <2>5, <3>1 DEF SlotsOf
    <3>3. move \in Injection(SlotsOf(j)', left)
      <4>1. \A k, l \in SlotsOf(j)' : move[k] = move[l] => k = l
        BY <2>1, <3>2
      <4>2. move \in [SlotsOf(j)' -> left]
        BY <3>2
      <4> HIDE DEF move, left
      <4> QED BY <4>1, <4>2 DEF Injection, IsInjective
    <3> HIDE DEF move, left
    <3> QED BY <2>7, <3>3, FS_Injection
  <2>9. Cardinality(SlotsOf(j)) = Cardinality(HandlersOf(j)') + Cardinality(left)
    <3> HIDE DEF left
    <3>1. Cardinality({}) = 0
      BY FS_EmptySet
    <3>2. Cardinality(left) \in Nat /\ Cardinality(HandlersOf(j)') \in Nat
      BY <2>7, FS_CardinalityType
    <3> QED BY <2>6, <2>7, <3>1, <3>2, FS_Union
  <2>10. /\ Cardinality(left) \in Nat /\ Cardinality(HandlersOf(j)') \in Nat
         /\ Cardinality(SlotsOf(j)') \in Nat
    BY <2>7, <2>8, FS_CardinalityType
  <2>11. UNCHANGED <<storing, sleeping, calls>>
    BY DEF BatchDequeue
  <2> HIDE DEF left
  <2>12. Copies(j)' = st + sl + Cardinality(SlotsOf(j)') + Cardinality(HandlersOf(j)')
    BY <2>4, <2>11 DEF Copies
  <2> QED BY <2>4, <2>8, <2>9, <2>10, <2>11, <2>12
<1> QED BY <1>1, <1>2 DEF BatchDequeue

\* A handler that gives its item back no longer has it.
LEMMA HandlerCopies ==
    ASSUME CopiesInv, NEW k \in DOMAIN batch, HandlerNext(k)
    PROVE  CopiesBounded'
<1> SUFFICES ASSUME NEW j \in Items PROVE Copies(j)' <= calls'
  BY DEF CopiesBounded
<1>1. PICK st, sl, n, m \in Nat :
        /\ st = storing[j] /\ sl = sleeping[j] /\ n = Cardinality(SlotsOf(j))
        /\ m = Cardinality(HandlersOf(j)) /\ st + sl + n + m <= calls /\ calls \in Nat
  BY CopiesValue
<1>2. PICK p \in {"unlock", "end"} : batch' = [batch EXCEPT ![k].phase = p]
  BY DEF HandlerNext, HandlerDone, HandlerRetry, HandlerUnlock
<1>3. /\ DOMAIN batch' = DOMAIN batch /\ batch'[k].phase = p
      /\ \A l \in DOMAIN batch : batch'[l].item = batch[l].item
      /\ \A l \in DOMAIN batch \ {k} : batch'[l] = batch[l]
  <2>1. p \in Phases /\ TypeOK
    BY DEF Phases, CopiesInv, QueueInv
  <2> QED BY <1>2, <2>1, HandlerTyped
<1>4. SlotsOf(j)' = SlotsOf(j) /\ UNCHANGED <<storing, calls>>
  BY DEF HandlerNext, HandlerDone, HandlerRetry, HandlerUnlock, SlotsOf
<1>5. HandlersOf(j)' = HandlersOf(j) \ {k}
  BY <1>3 DEF HandlersOf
<1>6. IsFiniteSet(HandlersOf(j))
  BY CopiesFinite DEF CopiesInv, QueueInv, TypeOK
<1>7. Cardinality(HandlersOf(j)') = IF k \in HandlersOf(j) THEN m - 1 ELSE m
  BY <1>1, <1>5, <1>6, FS_RemoveElement
<1>8. sleeping'[j] = sl \/ (sleeping'[j] = sl + 1 /\ k \in HandlersOf(j))
  <2>1. CASE HandlerRetry(k)
    BY <1>1, <2>1 DEF HandlerRetry, HandlersOf, CopiesInv, QueueInv, TypeOK
  <2>2. CASE HandlerDone(k) \/ HandlerUnlock(k)
    BY <1>1, <2>2 DEF HandlerDone, HandlerUnlock
  <2> QED BY <2>1, <2>2 DEF HandlerNext
<1> QED BY <1>1, <1>4, <1>7, <1>8 DEF Copies

LEMMA CopiesStep == CopiesInv /\ [Next]_vars => CopiesInv'
<1> SUFFICES ASSUME CopiesInv, [Next]_vars PROVE CopiesInv'
  OBVIOUS
<1> SUFFICES CopiesBounded'
  BY QueueStep DEF CopiesInv
<1>1. ASSUME NEW i \in Items, Enqueue(i) \/ AppendSlot(i) \/ Awake(i) PROVE CopiesBounded'
  BY <1>1, StoreCopies, AppendCopies
<1>2. ASSUME NEW k \in DOMAIN batch, HandlerNext(k) PROVE CopiesBounded'
  BY <1>2, HandlerCopies
<1>3. CASE BatchDequeue
  BY <1>3, DequeueCopies
<1>4. CASE ConsumerWake \/ ConsumerStop \/ Cancel \/ UNCHANGED vars
  BY <1>4 DEF ConsumerWake, ConsumerStop, Cancel, vars, CopiesInv, CopiesBounded, Copies,
              SlotsOf, HandlersOf
<1>5. CASE BatchEnd
  <2> SUFFICES ASSUME NEW j \in Items PROVE Copies(j)' <= calls'
    BY DEF CopiesBounded
  <2>1. SlotsOf(j)' = SlotsOf(j) /\ HandlersOf(j)' = {} /\ HandlersOf(j) = {}
    BY <1>5 DEF BatchEnd, SlotsOf, HandlersOf
  <2>2. Copies(j)' = Copies(j)
    BY <1>5, <2>1 DEF BatchEnd, Copies
  <2> QED BY <1>5, <2>2 DEF BatchEnd, CopiesInv, CopiesBounded
<1> QED BY <1>1, <1>2, <1>3, <1>4, <1>5 DEF Next, ConsumerNext

\* The queue does not multiply work: although EnqueueWithDelay deletes a key its
\* handler will delete once more, an item never has more copies in slots, delays
\* and handlers than Enqueue was called.
THEOREM WorkNotMultiplied == Spec => []CopiesBounded
<1>1. CopiesInv => CopiesBounded
  BY DEF CopiesInv
<1> QED BY <1>1, CopiesInit, CopiesStep, PTL DEF Spec

-----------------------------------------------------------------------------
LEMMA WorkInitially == Init => Work!WorkInit
BY DEF Init, Work!WorkInit, Owed, Running, Queued, Handled, InHand

\* Only an item that somebody holds is turned away by LoadOrStore.
LEMMA StoreWork ==
    ASSUME QueueInv, NEW i \in Items, Enqueue(i) \/ Awake(i)
    PROVE  [Work!WorkNext]_(Work!workVars)
<1>1. Store(i) /\ UNCHANGED <<slots, batch>>
  BY DEF Enqueue, Awake
<1>2. \A j \in Items : sleeping'[j] = sleeping[j] \/ (j = i /\ sleeping[i] > 0)
  BY DEF Enqueue, Awake, QueueInv, TypeOK
<1>3. UNCHANGED Running
  BY <1>1 DEF Running, Handled, InHand
<1>4. \A j \in Items \ {i} : storing'[j] = storing[j]
  BY <1>1 DEF Store, QueueInv, TypeOK
<1>5. \A j \in Items \ {i} : j \in Owed' <=> j \in Owed
  BY <1>1, <1>2, <1>4 DEF Owed, Queued, InHand
<1>6. CASE i \in Owed'
  <2>1. Owed' = Owed \cup {i}
    BY <1>5, <1>6 DEF Owed
  <2> QED BY <1>3, <2>1 DEF Work!WorkNext, Work!Take
<1>7. CASE i \notin Owed'
  <2>1. i \in signIn /\ UNCHANGED <<signIn, storing>>
    BY <1>1, <1>7, StoreTyped DEF Store, Owed, QueueInv
  <2>2. storing[i] > 0 \/ Queued(i) \/ Handled(i)
    BY <2>1 DEF QueueInv, KeyHasWork
  <2>3. i \in Running
    BY <1>1, <1>7, <2>1, <2>2 DEF Owed, Running, Queued
  <2>4. Owed' = Owed \ {i}
    BY <1>5, <1>7 DEF Owed
  <2> QED BY <1>3, <2>3, <2>4 DEF Work!WorkNext, Work!End
<1> QED BY <1>6, <1>7

LEMMA AppendWork ==
    ASSUME QueueInv, NEW i \in Items, AppendSlot(i)
    PROVE  [Work!WorkNext]_(Work!workVars)
<1>1. /\ Len(slots') = Len(slots) + 1 /\ DOMAIN slots' = 1..(Len(slots) + 1)
      /\ slots'[Len(slots) + 1] = i /\ DOMAIN slots = 1..Len(slots) /\ Len(slots) \in Nat
      /\ \A n \in 1..Len(slots) : slots'[n] = slots[n]
  BY DEF AppendSlot, QueueInv, TypeOK
<1>2. \A j \in Items \ {i} : storing'[j] = storing[j] /\ (Queued(j)' <=> Queued(j))
  BY <1>1 DEF AppendSlot, QueueInv, TypeOK, Queued
<1>3. i \in Owed /\ Queued(i)'
  BY <1>1 DEF AppendSlot, Owed, Queued
<1>4. UNCHANGED <<sleeping, batch>>
  BY DEF AppendSlot
<1>5. UNCHANGED <<Owed, Running>>
  BY <1>2, <1>3, <1>4 DEF Owed, Running, Handled, InHand
<1> QED BY <1>5 DEF Work!workVars

LEMMA DequeueWork ==
    ASSUME QueueInv, BatchDequeue
    PROVE  [Work!WorkNext]_(Work!workVars)
<1>1. CASE slots = <<>> /\ consumer' = "wait" /\ UNCHANGED <<slots, batch>>
  BY <1>1 DEF BatchDequeue, Work!workVars, Owed, Running, Queued, Handled, InHand
<1>2. CASE slots # <<>> /\ consumer' = "handle"
  <2> DEFINE n == IF Len(slots) > BatchSize THEN BatchSize ELSE Len(slots)
  <2>1. n \in 1..Len(slots)
    BY <1>2, QueueAssumption DEF QueueInv, TypeOK
  <2>2. batch' = [k \in 1..n |-> [item |-> slots[k], phase |-> "run"]] /\ slots' = Cut(n)
    BY <1>2 DEF BatchDequeue
  <2> HIDE DEF n
  <2>3. batch = <<>> /\ UNCHANGED <<storing, sleeping>>
    BY DEF BatchDequeue, QueueInv, TypeOK
  <2>4. Running = {}
    BY <2>3 DEF Running, Handled, InHand
  <2>5. \A j \in Items : Queued(j) <=> (InHand(j, {"run"}) \/ Queued(j))'
    <3>1. /\ DOMAIN slots = 1..Len(slots) /\ Len(slots) \in Nat
          /\ DOMAIN slots' = 1..(Len(slots) - n)
          /\ \A m \in 1..(Len(slots) - n) : slots'[m] = slots[n + m]
          /\ \A m \in (n + 1)..Len(slots) : slots[m] = slots'[m - n]
      <4>1. slots \in Seq(Items) /\ TypeOK /\ n \in 0..Len(slots)
        BY <2>1 DEF QueueInv, TypeOK
      <4>2. /\ slots' \in Seq(Items) /\ Len(slots') = Len(slots) - n
            /\ \A m \in 1..Len(slots') : slots'[m] = slots[n + m]
            /\ \A m \in (n + 1)..Len(slots) : slots[m] = slots'[m - n]
        BY <2>2, <4>1, CutSlots
      <4>3. DOMAIN slots' = 1..Len(slots') /\ DOMAIN slots = 1..Len(slots) /\ Len(slots) \in Nat
        BY <4>1, <4>2
      <4> QED BY <4>2, <4>3
    <3>2. TAKE j \in Items
    <3>3. ASSUME Queued(j) PROVE (InHand(j, {"run"}) \/ Queued(j))'
      <4>1. PICK m \in 1..Len(slots) : slots[m] = j
        BY <3>1, <3>3 DEF Queued
      <4>2. CASE m <= n
        BY <2>1, <2>2, <4>1, <4>2 DEF InHand
      <4>3. CASE m > n
        <5>1. m - n \in 1..(Len(slots) - n) /\ slots'[m - n] = j
          BY <2>1, <3>1, <4>1, <4>3
        <5> QED BY <3>1, <5>1 DEF Queued
      <4> QED BY <2>1, <4>1, <4>2, <4>3
    <3>4. ASSUME InHand(j, {"run"})' PROVE Queued(j)
      BY <2>1, <2>2, <3>1, <3>4 DEF InHand, Queued
    <3>5. ASSUME Queued(j)' PROVE Queued(j)
      <4>1. PICK m \in 1..(Len(slots) - n) : slots'[m] = j
        BY <3>1, <3>5 DEF Queued
      <4>2. n + m \in 1..Len(slots) /\ slots[n + m] = j
        BY <2>1, <3>1, <4>1
      <4> QED BY <3>1, <4>2 DEF Queued
    <3> QED BY <3>3, <3>4, <3>5
  <2>6. UNCHANGED Owed
    BY <2>3, <2>5 DEF Owed, InHand
  <2>7. Running' \subseteq Owed /\ Running' # {} /\ Running' \in SUBSET Items
    <3>1. \A j \in Items : Handled(j)' <=> InHand(j, {"run"})'
      BY <2>2 DEF Handled, InHand
    <3>2. PICK j \in Items : j = slots[1]
      BY <2>1 DEF QueueInv, TypeOK
    <3>3. 1 \in 1..n
      BY <2>1 DEF QueueInv, TypeOK
    <3>4. InHand(j, {"run"})'
      BY <2>2, <3>2, <3>3 DEF InHand
    <3>5. Running' # {}
      BY <3>1, <3>2, <3>4 DEF Running
    <3>6. \A l \in Running' : l \in Items /\ l \in Owed'
      BY <3>1 DEF Running, Owed
    <3> QED BY <2>6, <3>5, <3>6
  <2> QED BY <2>4, <2>6, <2>7 DEF Work!WorkNext, Work!Begin
<1> QED BY <1>1, <1>2 DEF BatchDequeue

LEMMA HandlerWork ==
    ASSUME QueueInv, NEW k \in DOMAIN batch, HandlerNext(k)
    PROVE  [Work!WorkNext]_(Work!workVars)
<1>0. PICK i \in Items : i = batch[k].item
  <2>1. batch[k] \in Handler
    BY DEF QueueInv, TypeOK
  <2> QED BY <2>1 DEF Handler
<1>1. PICK p \in {"unlock", "end"} : /\ batch' = [batch EXCEPT ![k].phase = p]
                                    /\ batch[k].phase \in {"run", "unlock"}
  BY DEF HandlerNext, HandlerDone, HandlerRetry, HandlerUnlock
<1>2. p \in Phases
  BY DEF Phases
<1>3. /\ DOMAIN batch' = DOMAIN batch /\ batch'[k].phase = p
      /\ \A l \in DOMAIN batch : batch'[l].item = batch[l].item
      /\ \A l \in DOMAIN batch \ {k} : batch'[l] = batch[l]
  BY <1>1, <1>2, HandlerTyped DEF QueueInv
<1>4. UNCHANGED <<storing, slots>> /\ \A j \in Items \ {i} : sleeping'[j] = sleeping[j]
  BY <1>0 DEF HandlerNext, HandlerDone, HandlerRetry, HandlerUnlock, QueueInv, TypeOK
<1>5. \A j \in Items \ {i} : \A q \in SUBSET Phases : InHand(j, q)' <=> InHand(j, q)
  BY <1>0, <1>3 DEF InHand
<1>6. {"run"} \in SUBSET Phases /\ {"run", "unlock"} \in SUBSET Phases
  BY DEF Phases
<1>7. \A j \in Items \ {i} : (j \in Owed' <=> j \in Owed) /\ (j \in Running' <=> j \in Running)
  BY <1>4, <1>5, <1>6 DEF Owed, Running, Queued, Handled
<1>8. i \in Running
  BY <1>0, <1>1 DEF Running, Handled, InHand
<1>9. i \in Owed' => i \in Owed
  <2>1. CASE HandlerRetry(k)
    BY <1>0, <2>1 DEF HandlerRetry, Owed, InHand
  <2>2. CASE HandlerDone(k) \/ HandlerUnlock(k)
    <3>1. UNCHANGED sleeping
      BY <2>2 DEF HandlerDone, HandlerUnlock
    <3>2. ASSUME InHand(i, {"run"})' PROVE InHand(i, {"run"})
      <4>1. PICK l \in DOMAIN batch : batch'[l].item = i /\ batch'[l].phase = "run"
        BY <1>3, <3>2 DEF InHand
      <4>2. l # k
        BY <1>0, <1>1, <1>3, <4>1
      <4> QED BY <1>3, <4>1, <4>2 DEF InHand
    <3> QED BY <1>3, <1>4, <3>1, <3>2 DEF Owed, Queued
  <2> QED BY <2>1, <2>2 DEF HandlerNext
<1>10. Owed' \in {Owed, Owed \ {i}} /\ Running' \in {Running, Running \ {i}}
  BY <1>3, <1>7, <1>8, <1>9 DEF Owed, Running
<1> QED BY <1>3, <1>8, <1>10 DEF Work!WorkNext, Work!End

LEMMA WorkStep == QueueInv /\ [Next]_vars => [Work!WorkNext]_(Work!workVars)
<1> SUFFICES ASSUME QueueInv, [Next]_vars PROVE [Work!WorkNext]_(Work!workVars)
  OBVIOUS
<1>1. ASSUME NEW i \in Items, Enqueue(i) \/ AppendSlot(i) \/ Awake(i)
      PROVE  [Work!WorkNext]_(Work!workVars)
  BY <1>1, StoreWork, AppendWork
<1>2. ASSUME NEW k \in DOMAIN batch, HandlerNext(k) PROVE [Work!WorkNext]_(Work!workVars)
  BY <1>2, HandlerWork
<1>3. CASE BatchDequeue
  BY <1>3, DequeueWork
<1>4. CASE BatchEnd
  BY <1>4 DEF BatchEnd, Work!workVars, Owed, Running, Queued, Handled, InHand
<1>5. CASE ConsumerWake \/ ConsumerStop \/ Cancel \/ UNCHANGED vars
  BY <1>5 DEF ConsumerWake, ConsumerStop, Cancel, vars,
              Work!workVars, Owed, Running, Queued, Handled, InHand
<1> QED BY <1>1, <1>2, <1>3, <1>4, <1>5 DEF Next, ConsumerNext

\* The queue implements WorkQueue: whatever the order of keys, delays and
\* tokens, an item leaves the owed items only from a handler's hands.
THEOREM QueueImplementsWork == Spec => ImplementsWorkQueue
<1>1. Spec => [][Work!WorkNext]_(Work!workVars)
  BY QueueInvariant, WorkStep, PTL DEF Spec
<1> QED BY <1>1, WorkInitially, PTL DEF Spec, ImplementsWorkQueue, Work!WorkSpec

-----------------------------------------------------------------------------
(* WsManager.  A connection that has not been added yet is in neither map.   *)

WsMaps ==
    /\ clients = [c \in DOMAIN clients |-> clients[c]] /\ DOMAIN clients \subseteq Conns
    /\ \A c \in DOMAIN clients : clients[c] \in Keys
    /\ manset \subseteq Keys \X Conns
    /\ DOMAIN chat = Conns

WsUnborn ==
    \A ws \in Conns : chat[ws] \in {"new", "adding"} =>
        ws \notin DOMAIN clients /\ \A p \in manset : p[2] # ws

WsInv == WsMaps /\ WsUnborn /\ MapsAgree

LEMMA WsInitially == WsInit => WsInv
BY DEF WsInit, WsInv, WsMaps, WsUnborn, MapsAgree

LEMMA WsAdd ==
    ASSUME WsInv, NEW ws \in Conns, AddClient(ws)
    PROVE  WsInv'
<1>1. PICK k \in Keys :
        /\ manset' = manset \cup {<<k, ws>>}
        /\ clients' = [c \in DOMAIN clients \cup {ws} |-> IF c = ws THEN k ELSE clients[c]]
  BY DEF AddClient
<1>2. chat[ws] = "adding" /\ chat' = [chat EXCEPT ![ws] = "reading"] /\ dropped' = dropped
  BY DEF AddClient
<1>3. ws \notin DOMAIN clients /\ \A p \in manset : p[2] # ws
  BY <1>2 DEF WsInv, WsUnborn
<1>4. /\ DOMAIN clients' = DOMAIN clients \cup {ws} /\ clients'[ws] = k
      /\ \A c \in DOMAIN clients : clients'[c] = clients[c] /\ c # ws
  BY <1>1, <1>3
<1>5. WsMaps'
  BY <1>1, <1>2, <1>4 DEF WsInv, WsMaps
<1>6. WsUnborn'
  <2> SUFFICES ASSUME NEW c \in Conns, chat'[c] \in {"new", "adding"}
               PROVE  c \notin DOMAIN clients' /\ \A p \in manset' : p[2] # c
    BY DEF WsUnborn
  <2>1. c # ws /\ chat'[c] = chat[c]
    BY <1>2 DEF WsInv, WsMaps
  <2>2. c \notin DOMAIN clients /\ \A p \in manset : p[2] # c
    BY <2>1 DEF WsInv, WsUnborn
  <2> QED BY <1>1, <1>4, <2>1, <2>2
<1>7. MapsAgree'
  <2>1. ASSUME NEW c \in DOMAIN clients'
        PROVE  {p \in manset' : p[2] = c} = {<<clients'[c], c>>}
    <3>1. CASE c = ws
      BY <1>1, <1>3, <1>4, <3>1
    <3>2. CASE c # ws
      <4>1. c \in DOMAIN clients
        BY <1>4, <3>2
      <4>2. {p \in manset' : p[2] = c} = {p \in manset : p[2] = c}
        BY <1>1, <3>2
      <4> QED BY <1>4, <4>1, <4>2 DEF WsInv, MapsAgree
    <3> QED BY <3>1, <3>2
  <2>2. ASSUME NEW p \in manset' PROVE p[2] \in DOMAIN clients' \/ p[2] \in dropped'
    BY <1>1, <1>2, <1>4 DEF WsInv, MapsAgree
  <2> QED BY <2>1, <2>2 DEF MapsAgree
<1> QED BY <1>5, <1>6, <1>7 DEF WsInv

\* Clients are taken out; the pairs of those that leave go, or they are dropped.
LEMMA WsTakenOut ==
    ASSUME WsInv, NEW S, clients' = [c \in DOMAIN clients \ S |-> clients[c]],
           manset' \subseteq manset, \A p \in manset : p[2] \notin S => p \in manset',
           \A p \in manset' : p[2] \in S => p[2] \in dropped',
           dropped \subseteq dropped', DOMAIN chat' = DOMAIN chat,
           \A c \in Conns : chat'[c] \in {"new", "adding"} => chat[c] \in {"new", "adding"}
    PROVE  WsInv'
<1>1. DOMAIN clients' = DOMAIN clients \ S /\ \A c \in DOMAIN clients' : clients'[c] = clients[c]
  OBVIOUS
<1>2. WsMaps'
  BY <1>1 DEF WsInv, WsMaps
<1>3. WsUnborn'
  BY <1>1 DEF WsInv, WsUnborn
<1>4. MapsAgree'
  <2>1. ASSUME NEW c \in DOMAIN clients'
        PROVE  {p \in manset' : p[2] = c} = {<<clients'[c], c>>}
    <3>1. {p \in manset' : p[2] = c} = {p \in manset : p[2] = c}
      BY <1>1
    <3> QED BY <1>1, <3>1 DEF WsInv, MapsAgree
  <2>2. ASSUME NEW p \in manset' PROVE p[2] \in DOMAIN clients' \/ p[2] \in dropped'
    <3>1. p[2] \in DOMAIN clients \/ p[2] \in dropped
      BY DEF WsInv, MapsAgree
    <3> QED BY <1>1, <3>1
  <2> QED BY <2>1, <2>2 DEF MapsAgree
<1> QED BY <1>2, <1>3, <1>4 DEF WsInv

\* RemoveClient finds the pair under the key that clients has.
LEMMA WsLeave ==
    ASSUME WsInv, NEW ws \in Conns, ChatLeave(ws)
    PROVE  WsInv'
<1>1. /\ clients' = [c \in DOMAIN clients \ {ws} |-> clients[c]]
      /\ manset' = IF ws \in DOMAIN clients THEN manset \ {<<clients[ws], ws>>} ELSE manset
      /\ dropped' = dropped /\ chat' = [chat EXCEPT ![ws] = "closed"]
  BY DEF ChatLeave, Removed
<1>2. \A p \in manset' : p[2] \in {ws} => p[2] \in dropped'
  <2>1. CASE ws \in DOMAIN clients
    <3>1. {p \in manset : p[2] = ws} = {<<clients[ws], ws>>}
      BY <2>1 DEF WsInv, MapsAgree
    <3> QED BY <1>1, <2>1, <3>1
  <2>2. CASE ws \notin DOMAIN clients
    BY <1>1, <2>2 DEF WsInv, MapsAgree
  <2> QED BY <2>1, <2>2
<1>3. manset' \subseteq manset /\ \A p \in manset : p[2] \notin {ws} => p \in manset'
  BY <1>1
<1>4. DOMAIN chat' = DOMAIN chat
      /\ \A c \in Conns : chat'[c] \in {"new", "adding"} => chat[c] \in {"new", "adding"}
  BY <1>1 DEF WsInv, WsMaps
<1>5. dropped \subseteq dropped'
  BY <1>1
<1> QED BY <1>1, <1>2, <1>3, <1>4, <1>5, WsTakenOut

LEMMA WsDrop ==
    ASSUME WsInv, NEW t \in Callers, ToAllDrop(t)
    PROVE  WsInv'
<1> DEFINE S == caller[t].failed
<1>1. /\ clients' = [c \in DOMAIN clients \ S |-> clients[c]] /\ manset' = manset
      /\ dropped' = dropped \cup S /\ chat' = chat
  BY DEF ToAllDrop
<1> HIDE DEF S
<1>2. manset' \subseteq manset /\ \A p \in manset : p[2] \notin S => p \in manset'
  BY <1>1
<1>3. \A p \in manset' : p[2] \in S => p[2] \in dropped'
  BY <1>1
<1>4. dropped \subseteq dropped' /\ DOMAIN chat' = DOMAIN chat
      /\ \A c \in Conns : chat'[c] \in {"new", "adding"} => chat[c] \in {"new", "adding"}
  BY <1>1
<1> QED BY <1>1, <1>2, <1>3, <1>4, WsTakenOut

LEMMA WsStep == WsInv /\ [WsNext]_(wsVars) => WsInv'
<1> SUFFICES ASSUME WsInv, [WsNext]_(wsVars) PROVE WsInv'
  OBVIOUS
<1>1. ASSUME UNCHANGED <<clients, manset, dropped>>, DOMAIN chat' = DOMAIN chat,
             \A c \in Conns : chat'[c] \in {"new", "adding"} => chat[c] \in {"new", "adding"}
      PROVE  WsInv'
  BY <1>1 DEF WsInv, WsMaps, WsUnborn, MapsAgree
<1>2. ASSUME NEW ws \in Conns,
             ChatOpen(ws) \/ ChatStep(ws) \/ Disconnect(ws) \/ ChatEnd(ws)
      PROVE  WsInv'
  <2>1. CASE ChatOpen(ws)
    BY <1>1, <2>1 DEF ChatOpen, WsInv, WsMaps
  <2>2. CASE ChatEnd(ws)
    BY <1>1, <2>2 DEF ChatEnd, WsInv, WsMaps
  <2>3. CASE Disconnect(ws)
    BY <1>1, <2>3 DEF Disconnect
  <2> QED BY <1>2, <2>1, <2>2, <2>3, WsAdd, WsLeave DEF ChatStep
<1>3. ASSUME NEW t \in Callers,
             CallerStep(t) \/ ToAllEnter(t) \/ \E k \in Keys : BroadcastEnter(t, k)
      PROVE  WsInv'
  <2>1. ToAllDrop(t) \/ UNCHANGED <<clients, manset, dropped, chat>>
    BY <1>3 DEF CallerStep, ToAllEnter, BroadcastEnter, BroadcastWrite,
                ToAllWrite, BroadcastReturn, ToAllReturn
  <2> QED BY <1>1, <2>1, WsDrop
<1>4. CASE UNCHANGED wsVars
  BY <1>1, <1>4 DEF wsVars
<1> QED BY <1>2, <1>3, <1>4 DEF WsNext

\* The two maps of the connection manager agree (AddClient, RemoveClient): a client
\* is listed under its key and nowhere else, and what is listed is a client, but for
\* the connections BroadcastToAll takes out of the one map only.
THEOREM WsMapsAgree == WsSpec => []MapsAgree
<1>1. WsInv => MapsAgree
  BY DEF WsInv
<1> QED BY <1>1, WsInitially, WsStep, PTL DEF WsSpec

-----------------------------------------------------------------------------
(* The scanner: what a row tells.  The model counts and adds with its own   *)
(* copies of the library's operators.                                       *)

LEMMA ScanCounts == \A S : Cardinality(S) = Cardinality(S)
BY DEF Cardinality, Cardinality

LEMMA ScanAdds ==
    ASSUME NEW list, NEW o
    PROVE  Total(list, o) =
               MapThenSumSet(LAMBDA i : list[i].amount, Owned(list, o))
BY DEF Total, MapThenSumSet, MapThenSumSet, MapThenFoldSet, MapThenFoldSet

\* An owner with one account has the amount that calcDeltaFor finds first.
LEMMA ScanTotal ==
    ASSUME NEW list, OneEach(list), NEW o \in Wallets
    PROVE  Total(list, o) = AmountIn(list, o)
<1> DEFINE S == Owned(list, o)
           F == [i \in S |-> list[i].amount]
<1>1. IsFiniteSet(DOMAIN list) /\ DOMAIN list \subseteq Nat
  BY FS_Interval DEF OneEach
<1>2. S \in SUBSET DOMAIN list
  BY DEF Owned
<1>3. IsFiniteSet(S) /\ S \subseteq Nat
  BY <1>1, <1>2, FS_Subset
<1>4. Cardinality(S) <= 1
  BY ScanCounts DEF OneEach
<1>5. \A i \in S : F[i] = list[i].amount /\ F[i] \in Int
  BY <1>2 DEF OneEach
<1>6. AmountIn(list, o) = IF S = {} THEN 0 ELSE list[Min(S)].amount
  BY DEF AmountIn
<1>7. Total(list, o) = SumOf(F, S)
  <2>1. Total(list, o) = MapThenSumSet(LAMBDA i : list[i].amount, S)
    BY ScanAdds
  <2> HIDE DEF S, F
  <2> QED BY <1>3, <1>5, <2>1, AmountsSum
<1> HIDE DEF S, F
<1>8. CASE S = {}
  BY <1>6, <1>7, <1>8, SumOfEmpty
<1>9. ASSUME NEW x \in S PROVE Total(list, o) = AmountIn(list, o)
  <2>1. S = {x}
    <3>1. {x} \in SUBSET S /\ Cardinality({x}) = 1
      BY FS_Singleton
    <3>2. Cardinality(S) \in Nat /\ 1 <= Cardinality(S)
      BY <1>3, <3>1, FS_Subset, FS_CardinalityType
    <3>3. Cardinality(S) = Cardinality({x})
      BY <1>4, <3>1, <3>2
    <3> QED BY <1>3, <3>1, <3>3, FS_Subset
  <2>2. Min(S) = x
    BY <1>3, <2>1 DEF Min
  <2>3. SumOf(F, S) = F[x] + SumOf(F, S \ {x})
    BY <1>3, <1>5, SumOfRemove
  <2>4. S \ {x} = {}
    BY <2>1
  <2>5. SumOf(F, S) = F[x]
    BY <1>5, <2>3, <2>4, SumOfEmpty
  <2> QED BY <1>5, <1>6, <1>7, <2>1, <2>2, <2>5
<1> QED BY <1>8, <1>9

\* A wallet that gained or lost has a row with what it did.
LEMMA ScanRow ==
    ASSUME NEW s \in Slots, NEW t \in DOMAIN Block[s],
           NEW o \in Wallets, Changed(s, t, o) # 0
    PROVE  [tx |-> t, owner |-> o, delta |-> Changed(s, t, o)] \in TradeRows(s)
<1> DEFINE m == Block[s][t]
<1>1. OneEach(m.pre) /\ OneEach(m.post)
  BY ScannerAssumption
<1>2. Changed(s, t, o) = DeltaFor(o, m)
  BY <1>1, ScanTotal DEF Changed, DeltaFor
<1>3. o \in OwnersHit(m)
  <2> SUFFICES ASSUME Owned(m.pre, o) = {}, Owned(m.post, o) = {} PROVE FALSE
    BY DEF OwnersHit
  <2>1. DeltaFor(o, m) = 0
    BY DEF DeltaFor, AmountIn
  <2> QED BY <1>2, <2>1
<1> QED BY <1>2, <1>3 DEF TradeRows

-----------------------------------------------------------------------------
(* The scanner: how often a slot is written.                                *)

ScanAt(s, list) == {i \in DOMAIN list : list[i] = s}

LEMMA ScanAtFinite ==
    ASSUME NEW s, NEW list \in Seq(Nat)
    PROVE  IsFiniteSet(ScanAt(s, list)) /\ Cardinality(ScanAt(s, list)) \in Nat
<1>1. DOMAIN list = 1..Len(list) /\ Len(list) \in Nat
  OBVIOUS
<1>2. IsFiniteSet(DOMAIN list) /\ ScanAt(s, list) \in SUBSET DOMAIN list
  BY <1>1, FS_Interval DEF ScanAt
<1>3. IsFiniteSet(ScanAt(s, list))
  BY <1>2, FS_Subset
<1> QED BY <1>3, FS_CardinalityType

LEMMA ScanAtAppend ==
    ASSUME NEW s, NEW list \in Seq(Nat), NEW x \in Nat
    PROVE  Cardinality(ScanAt(s, Append(list, x))) =
               Cardinality(ScanAt(s, list)) + (IF x = s THEN 1 ELSE 0)
<1> DEFINE n == Len(list)
<1>1. /\ DOMAIN list = 1..n /\ n \in Nat /\ DOMAIN Append(list, x) = 1..(n + 1)
      /\ Append(list, x)[n + 1] = x /\ \A i \in 1..n : Append(list, x)[i] = list[i]
  OBVIOUS
<1> HIDE DEF n
<1>2. /\ n + 1 \notin ScanAt(s, list)
      /\ x = s => ScanAt(s, Append(list, x)) = ScanAt(s, list) \cup {n + 1}
      /\ x # s => ScanAt(s, Append(list, x)) = ScanAt(s, list)
  BY <1>1 DEF ScanAt
<1>3. IsFiniteSet(ScanAt(s, list)) /\ Cardinality(ScanAt(s, list)) \in Nat
  BY ScanAtFinite
<1>4. Cardinality(ScanAt(s, list) \cup {n + 1}) = Cardinality(ScanAt(s, list)) + 1
  BY <1>2, <1>3, FS_AddElement
<1>5. CASE x = s
  BY <1>2, <1>4, <1>5
<1>6. CASE x # s
  BY <1>2, <1>3, <1>6
<1> QED BY <1>5, <1>6

LEMMA ScanAtTail ==
    ASSUME NEW s, NEW list \in Seq(Nat), list # <<>>
    PROVE  Cardinality(ScanAt(s, Tail(list))) + (IF Head(list) = s THEN 1 ELSE 0)
               <= Cardinality(ScanAt(s, list))
<1> DEFINE n == Len(list)
           rest == ScanAt(s, list) \ {1}
           move == [i \in ScanAt(s, Tail(list)) |-> i + 1]
<1>1. /\ DOMAIN list = 1..n /\ n \in Nat /\ n >= 1 /\ DOMAIN Tail(list) = 1..(n - 1)
      /\ Head(list) = list[1] /\ \A i \in 1..(n - 1) : Tail(list)[i] = list[i + 1]
  OBVIOUS
<1> HIDE DEF n
<1>2. IsFiniteSet(ScanAt(s, list)) /\ Cardinality(ScanAt(s, list)) \in Nat
  BY ScanAtFinite
<1>3. /\ IsFiniteSet(rest)
      /\ Cardinality(rest) = IF Head(list) = s THEN Cardinality(ScanAt(s, list)) - 1
                             ELSE Cardinality(ScanAt(s, list))
  <2>1. 1 \in ScanAt(s, list) <=> Head(list) = s
    BY <1>1 DEF ScanAt
  <2> QED BY <1>2, <2>1, FS_RemoveElement
<1>4. move \in Injection(ScanAt(s, Tail(list)), rest)
  <2>1. \A i \in ScanAt(s, Tail(list)) : i + 1 \in rest /\ i \in Nat
    BY <1>1 DEF ScanAt
  <2>2. \A i, j \in ScanAt(s, Tail(list)) : move[i] = move[j] => i = j
    BY <2>1
  <2>3. move \in [ScanAt(s, Tail(list)) -> rest]
    BY <2>1
  <2> HIDE DEF move, rest
  <2> QED BY <2>2, <2>3 DEF Injection, IsInjective
<1> HIDE DEF move, rest
<1>5. Cardinality(ScanAt(s, Tail(list))) <= Cardinality(rest) /\ IsFiniteSet(ScanAt(s, Tail(list)))
  BY <1>3, <1>4, FS_Injection
<1>6. Cardinality(ScanAt(s, Tail(list))) \in Nat
  BY <1>5, FS_CardinalityType
<1> QED BY <1>2, <1>3, <1>5, <1>6

LEMMA ScanAtJoin ==
    ASSUME NEW s, NEW a \in Seq(Nat), NEW b \in Seq(Nat)
    PROVE  Cardinality(ScanAt(s, a \o b)) <= Cardinality(ScanAt(s, a)) + Cardinality(ScanAt(s, b))
<1> DEFINE n == Len(a)
           rest == ScanAt(s, a \o b) \ (1..n)
           move == [i \in rest |-> i - n]
<1>1. /\ DOMAIN a = 1..n /\ n \in Nat /\ DOMAIN b = 1..Len(b) /\ Len(b) \in Nat
      /\ DOMAIN (a \o b) = 1..(n + Len(b))
      /\ \A i \in 1..n : (a \o b)[i] = a[i]
      /\ \A i \in (n + 1)..(n + Len(b)) : (a \o b)[i] = b[i - n]
  OBVIOUS
<1> HIDE DEF n
<1>2. /\ IsFiniteSet(ScanAt(s, a)) /\ Cardinality(ScanAt(s, a)) \in Nat
      /\ IsFiniteSet(ScanAt(s, b)) /\ Cardinality(ScanAt(s, b)) \in Nat
  BY ScanAtFinite
<1>3. ScanAt(s, a \o b) = ScanAt(s, a) \cup rest /\ ScanAt(s, a) \cap rest = {}
  BY <1>1 DEF ScanAt
<1>4. move \in Injection(rest, ScanAt(s, b))
  <2>1. \A i \in rest : i - n \in ScanAt(s, b) /\ i \in Nat
    BY <1>1 DEF ScanAt
  <2>2. \A i, j \in rest : move[i] = move[j] => i = j
    BY <1>1, <2>1
  <2>3. move \in [rest -> ScanAt(s, b)]
    BY <2>1
  <2> HIDE DEF move, rest
  <2> QED BY <2>2, <2>3 DEF Injection, IsInjective
<1> HIDE DEF move, rest
<1>5. IsFiniteSet(rest) /\ Cardinality(rest) <= Cardinality(ScanAt(s, b)) /\ Cardinality(rest) \in Nat
  BY <1>2, <1>4, FS_Injection, FS_CardinalityType
<1>6. Cardinality(ScanAt(s, a) \cup rest) = Cardinality(ScanAt(s, a)) + Cardinality(rest)
  <2>1. Cardinality({}) = 0
    BY FS_EmptySet
  <2>2. Cardinality(ScanAt(s, a) \cup rest) =
            Cardinality(ScanAt(s, a)) + Cardinality(rest) - Cardinality(ScanAt(s, a) \cap rest)
    BY <1>2, <1>5, FS_Union
  <2>3. Cardinality(ScanAt(s, a) \cap rest) = 0
    BY <1>3, <2>1
  <2> QED BY <1>2, <1>5, <2>2, <2>3
<1> QED BY <1>2, <1>3, <1>5, <1>6

-----------------------------------------------------------------------------
(* The scanner: what it has processed is somewhere.                          *)

ScanIn(s, list) == \E i \in DOMAIN list : list[i] = s

\* A slot with a trade that was processed is in the file or in the buffer; once it
\* counts as processed on disk, in the file.  A restart reads a slot again that is
\* past the progress it resumes from, so every restart may add a row.
ScanTyped ==
    /\ last \in Nat /\ head \in Nat /\ saved \in Nat /\ chain \in 0..MaxSlot /\ head <= chain
    /\ crashes \in Nat /\ csv \in Seq(Nat) /\ buf \in Seq(Nat)
    /\ pc = "start" => buf = <<>> /\ last = 0
    /\ pc \in {"save", "save_stop"} => buf = <<>>

ScanDurable ==
    \A s \in Slots : StartSlot < s /\ s <= saved /\ TradeRows(s) # {} =>
        ScanIn(s, csv) \/ s \in missed \cup exposed

ScanCovered ==
    \A s \in Slots : StartSlot < s /\ s <= last /\ TradeRows(s) # {} =>
        ScanIn(s, csv) \/ ScanIn(s, buf) \/ s \in missed \cup exposed

ScanCounted ==
    \A s \in Slots :
        Cardinality(ScanAt(s, csv)) + Cardinality(ScanAt(s, buf))
            <= crashes + (IF s <= last THEN 1 ELSE 0)

ScanInv == ScanTyped /\ ScanDurable /\ ScanCovered /\ ScanCounted

LEMMA ScanInitially == ScanInit => ScanInv
<1> SUFFICES ASSUME ScanInit PROVE ScanInv
  OBVIOUS
<1>1. /\ chain = 0 /\ pc = "start" /\ head = 0 /\ last = 0 /\ buf = <<>> /\ saved = 0
      /\ csv = <<>> /\ crashes = 0 /\ MaxSlot \in Nat /\ StartSlot \in Nat
  BY ScannerAssumption DEF ScanInit
<1>2. ScanTyped
  BY <1>1 DEF ScanTyped
<1>3. ScanDurable /\ ScanCovered
  BY <1>1 DEF ScanDurable, ScanCovered, Slots
<1>4. ScanCounted
  <2>1. \A s : ScanAt(s, csv) = {} /\ ScanAt(s, buf) = {}
    BY <1>1 DEF ScanAt
  <2>2. Cardinality({}) = 0
    BY FS_EmptySet
  <2> QED BY <1>1, <2>1, <2>2 DEF ScanCounted, Slots
<1> QED BY <1>2, <1>3, <1>4 DEF ScanInv

\* The counts of a slot, as numbers.
LEMMA ScanCount ==
    ASSUME ScanInv, NEW s \in Slots
    PROVE  \E c, b \in Nat :
             /\ c = Cardinality(ScanAt(s, csv)) /\ b = Cardinality(ScanAt(s, buf))
             /\ c + b <= crashes + (IF s <= last THEN 1 ELSE 0)
             /\ crashes \in Nat /\ last \in Nat /\ s \in Nat
<1>1. csv \in Seq(Nat) /\ buf \in Seq(Nat) /\ crashes \in Nat /\ last \in Nat
  BY DEF ScanInv, ScanTyped
<1>2. Cardinality(ScanAt(s, csv)) \in Nat /\ Cardinality(ScanAt(s, buf)) \in Nat
  BY <1>1, ScanAtFinite
<1> QED BY <1>1, <1>2 DEF ScanInv, ScanCounted, Slots

\* The next slot exists.
LEMMA ScanNextSlot ==
    ASSUME ScanInv, last < head
    PROVE  /\ NextSlot = last + 1 /\ NextSlot \in Slots
           /\ \A s \in Slots : s <= last + 1 <=> s <= last \/ s = last + 1
BY ScannerAssumption DEF ScanInv, ScanTyped, NextSlot, Slots

\* A slot is processed without a row: it has no trade, or is given up.
LEMMA ScanSkipped ==
    ASSUME ScanInv, last < head, pc = "scan", pc' \in {"scan", "flush"},
           last' = NextSlot, missed \subseteq missed', exposed \subseteq exposed',
           TradeRows(NextSlot) = {} \/ NextSlot \in missed',
           \/ UNCHANGED saved
           \/ saved' = last' /\ exposed' = exposed \cup {buf[i] : i \in DOMAIN buf},
           UNCHANGED <<chain, head, buf, csv, crashes>>
    PROVE  ScanInv'
<1>1. /\ NextSlot = last + 1 /\ NextSlot \in Slots
      /\ \A s \in Slots : s <= last' <=> s <= last \/ s = last'
  BY ScanNextSlot
<1>2. ScanTyped'
  BY <1>1 DEF ScanInv, ScanTyped
<1>3. ScanCovered'
  BY <1>1 DEF ScanInv, ScanCovered, ScanIn
<1>4. ScanDurable'
  <2>1. CASE UNCHANGED saved
    BY <2>1 DEF ScanInv, ScanDurable, ScanIn
  <2>2. CASE saved' = last' /\ exposed' = exposed \cup {buf[i] : i \in DOMAIN buf}
    <3>1. \A s : ScanIn(s, buf) => s \in exposed'
      BY <2>2 DEF ScanIn
    <3> QED BY <1>3, <2>2, <3>1 DEF ScanCovered, ScanDurable, ScanIn
  <2> QED BY <2>1, <2>2
<1>5. ScanCounted'
  <2> SUFFICES ASSUME NEW s \in Slots
               PROVE  Cardinality(ScanAt(s, csv')) + Cardinality(ScanAt(s, buf'))
                          <= crashes' + (IF s <= last' THEN 1 ELSE 0)
    BY DEF ScanCounted, ScanAt
  <2>1. UNCHANGED <<buf, csv, crashes>> /\ (s <= last => s <= last')
    BY <1>1
  <2>2. PICK c, b \in Nat :
             /\ c = Cardinality(ScanAt(s, csv)) /\ b = Cardinality(ScanAt(s, buf))
             /\ c + b <= crashes + (IF s <= last THEN 1 ELSE 0)
             /\ crashes \in Nat /\ last \in Nat /\ s \in Nat
    BY ScanCount
  <2> QED BY <2>1, <2>2
<1> QED BY <1>2, <1>3, <1>4, <1>5 DEF ScanInv

\* The rows move, and none is added.
LEMMA ScanCarried ==
    ASSUME ScanInv, csv' \in Seq(Nat), buf' \in Seq(Nat), UNCHANGED <<last, crashes>>,
           \A s \in Slots :
               Cardinality(ScanAt(s, csv')) + Cardinality(ScanAt(s, buf'))
                   <= Cardinality(ScanAt(s, csv)) + Cardinality(ScanAt(s, buf))
    PROVE  ScanCounted'
<1> SUFFICES ASSUME NEW s \in Slots
             PROVE  Cardinality(ScanAt(s, csv')) + Cardinality(ScanAt(s, buf'))
                        <= crashes + (IF s <= last THEN 1 ELSE 0)
  BY DEF ScanCounted, ScanAt
<1>1. PICK c, b \in Nat :
           /\ c = Cardinality(ScanAt(s, csv)) /\ b = Cardinality(ScanAt(s, buf))
           /\ c + b <= crashes + (IF s <= last THEN 1 ELSE 0)
           /\ crashes \in Nat /\ last \in Nat /\ s \in Nat
  BY ScanCount
<1>2. Cardinality(ScanAt(s, csv')) \in Nat /\ Cardinality(ScanAt(s, buf')) \in Nat
  BY ScanAtFinite
<1>3. Cardinality(ScanAt(s, csv')) + Cardinality(ScanAt(s, buf')) <= c + b
  BY <1>1
<1> QED BY <1>1, <1>2, <1>3

\* The rows of the next slot are written to the buffer.
LEMMA ScanWrite ==
    ASSUME ScanInv, WriteRow
    PROVE  ScanInv'
<1> DEFINE x == last + 1
<1>1. /\ pc = "scan" /\ pc' \in {"scan", "flush"} /\ last < head
      /\ UNCHANGED <<chain, head, saved, csv, crashes, missed, exposed>>
      /\ x \in Slots /\ last' = x /\ buf' = Append(buf, x)
      /\ \A s \in Slots : s <= last' <=> s <= last \/ s = x
  BY ScanNextSlot DEF WriteRow
<1>2. last \in Nat /\ x \in Nat /\ csv \in Seq(Nat) /\ buf \in Seq(Nat) /\ last < x
  BY DEF ScanInv, ScanTyped
<1> HIDE DEF x
<1>3. /\ buf' \in Seq(Nat) /\ ScanIn(x, buf') /\ \A s : ScanIn(s, buf) => ScanIn(s, buf')
  <2>1. /\ buf' \in Seq(Nat) /\ DOMAIN buf = 1..Len(buf) /\ Len(buf) \in Nat
        /\ DOMAIN buf' = 1..(Len(buf) + 1) /\ buf'[Len(buf) + 1] = x
        /\ \A i \in DOMAIN buf : buf'[i] = buf[i]
    BY <1>1, <1>2
  <2>2. DOMAIN buf \subseteq DOMAIN buf' /\ Len(buf) + 1 \in DOMAIN buf'
    BY <2>1
  <2> QED BY <2>1, <2>2 DEF ScanIn
<1>4. ScanTyped'
  BY <1>1, <1>2, <1>3 DEF ScanInv, ScanTyped
<1>5. ScanDurable'
  BY <1>1 DEF ScanInv, ScanDurable, ScanIn
<1>6. ScanCovered'
  <2> SUFFICES ASSUME NEW s \in Slots, StartSlot < s, s <= last', TradeRows(s) # {}
               PROVE  ScanIn(s, csv) \/ ScanIn(s, buf') \/ s \in missed \cup exposed
    BY <1>1 DEF ScanCovered, ScanIn
  <2>1. CASE s = x
    BY <1>3, <2>1
  <2>2. CASE s <= last
    BY <1>3, <2>2 DEF ScanInv, ScanCovered
  <2> QED BY <1>1, <2>1, <2>2
<1>7. ScanCounted'
  <2> SUFFICES ASSUME NEW s \in Slots
               PROVE  Cardinality(ScanAt(s, csv)) + Cardinality(ScanAt(s, buf'))
                          <= crashes + (IF s <= last' THEN 1 ELSE 0)
    BY <1>1 DEF ScanCounted, ScanAt
  <2>1. PICK c, b \in Nat :
             /\ c = Cardinality(ScanAt(s, csv)) /\ b = Cardinality(ScanAt(s, buf))
             /\ c + b <= crashes + (IF s <= last THEN 1 ELSE 0)
             /\ crashes \in Nat /\ last \in Nat /\ s \in Nat
    BY ScanCount
  <2>2. Cardinality(ScanAt(s, buf')) = b + (IF x = s THEN 1 ELSE 0)
    BY <1>1, <1>2, <2>1, ScanAtAppend
  <2>3. CASE s = x
    BY <1>1, <1>2, <2>1, <2>2, <2>3
  <2>4. CASE s # x
    BY <1>1, <2>1, <2>2, <2>4
  <2> QED BY <2>3, <2>4
<1> QED BY <1>4, <1>5, <1>6, <1>7 DEF ScanInv

\* The beginning of the buffer goes to the file.
LEMMA ScanSpill ==
    ASSUME ScanInv, Spill
    PROVE  ScanInv'
<1>1. /\ pc = "scan" /\ buf # <<>> /\ csv' = Append(csv, Head(buf)) /\ buf' = Tail(buf)
      /\ UNCHANGED <<chain, pc, head, last, saved, crashes, missed, exposed>>
  BY DEF Spill
<1>2. csv \in Seq(Nat) /\ buf \in Seq(Nat)
  BY DEF ScanInv, ScanTyped
<1>3. Head(buf) \in Nat /\ csv' \in Seq(Nat) /\ buf' \in Seq(Nat)
  <2>1. Head(buf) \in Nat /\ buf' \in Seq(Nat)
    BY <1>1, <1>2
  <2> QED BY <1>1, <1>2, <2>1
<1>4. ScanTyped'
  BY <1>1, <1>3 DEF ScanInv, ScanTyped
<1>5. \A s : ScanIn(s, csv) => ScanIn(s, csv')
  <2>1. DOMAIN csv \subseteq DOMAIN csv' /\ \A i \in DOMAIN csv : csv'[i] = csv[i]
    <3>1. DOMAIN csv = 1..Len(csv) /\ Len(csv) \in Nat
      BY <1>2
    <3>2. DOMAIN csv' = 1..(Len(csv) + 1) /\ \A i \in 1..Len(csv) : csv'[i] = csv[i]
      BY <1>1, <1>2, <1>3
    <3> QED BY <3>1, <3>2
  <2> QED BY <2>1 DEF ScanIn
<1>6. \A s : ScanIn(s, buf) => ScanIn(s, csv') \/ ScanIn(s, buf')
  <2> SUFFICES ASSUME NEW s, NEW i \in DOMAIN buf, buf[i] = s PROVE ScanIn(s, csv') \/ ScanIn(s, buf')
    BY DEF ScanIn
  <2>1. /\ DOMAIN buf = 1..Len(buf) /\ Len(buf) \in Nat /\ Head(buf) = buf[1]
        /\ DOMAIN buf' = 1..(Len(buf) - 1) /\ \A j \in DOMAIN buf' : buf'[j] = buf[j + 1]
    BY <1>1, <1>2
  <2>2. Len(csv) + 1 \in DOMAIN csv' /\ csv'[Len(csv) + 1] = Head(buf)
    BY <1>1, <1>2, <1>3
  <2>3. CASE i = 1
    BY <2>1, <2>2, <2>3 DEF ScanIn
  <2>4. CASE i # 1
    <3>1. i - 1 \in DOMAIN buf' /\ buf'[i - 1] = s
      BY <2>1, <2>4
    <3> QED BY <3>1 DEF ScanIn
  <2> QED BY <2>3, <2>4
<1>7. ScanDurable' /\ ScanCovered'
  <2>1. ScanDurable'
    <3> SUFFICES ASSUME NEW s \in Slots, StartSlot < s, s <= saved, TradeRows(s) # {}
                 PROVE  ScanIn(s, csv') \/ s \in missed \cup exposed
      BY <1>1 DEF ScanDurable, ScanIn
    <3> QED BY <1>5 DEF ScanInv, ScanDurable
  <2>2. ScanCovered'
    <3> SUFFICES ASSUME NEW s \in Slots, StartSlot < s, s <= last, TradeRows(s) # {}
                 PROVE  ScanIn(s, csv') \/ ScanIn(s, buf') \/ s \in missed \cup exposed
      BY <1>1 DEF ScanCovered, ScanIn
    <3> QED BY <1>5, <1>6 DEF ScanInv, ScanCovered
  <2> QED BY <2>1, <2>2
<1>8. ScanCounted'
  <2>1. ASSUME NEW s \in Slots
        PROVE  Cardinality(ScanAt(s, csv')) + Cardinality(ScanAt(s, buf'))
                   <= Cardinality(ScanAt(s, csv)) + Cardinality(ScanAt(s, buf))
    <3>1. Cardinality(ScanAt(s, csv')) = Cardinality(ScanAt(s, csv)) + (IF Head(buf) = s THEN 1 ELSE 0)
      BY <1>1, <1>2, <1>3, ScanAtAppend
    <3>2. Cardinality(ScanAt(s, buf')) + (IF Head(buf) = s THEN 1 ELSE 0) <= Cardinality(ScanAt(s, buf))
      BY <1>1, <1>2, ScanAtTail
    <3>3. /\ Cardinality(ScanAt(s, csv)) \in Nat /\ Cardinality(ScanAt(s, buf)) \in Nat
          /\ Cardinality(ScanAt(s, buf')) \in Nat
      BY <1>2, <1>3, ScanAtFinite
    <3> QED BY <3>1, <3>2, <3>3
  <2> QED BY <1>1, <1>3, <2>1, ScanCarried
<1> QED BY <1>4, <1>7, <1>8 DEF ScanInv

LEMMA ScanFlush ==
    ASSUME ScanInv, Flush
    PROVE  ScanInv'
<1>1. /\ pc \in {"flush", "flush_stop"} /\ pc' \in {"save", "save_stop"}
      /\ csv' = csv \o buf /\ buf' = <<>>
      /\ UNCHANGED <<chain, head, last, saved, crashes, missed, exposed>>
  BY DEF Flush, Flushed
<1>2. csv \in Seq(Nat) /\ buf \in Seq(Nat)
  BY DEF ScanInv, ScanTyped
<1>3. csv' \in Seq(Nat) /\ buf' \in Seq(Nat)
  BY <1>1, <1>2
<1>4. ScanTyped'
  BY <1>1, <1>3 DEF ScanInv, ScanTyped
<1>5. \A s : ScanIn(s, csv) \/ ScanIn(s, buf) => ScanIn(s, csv')
  <2>1. /\ DOMAIN csv = 1..Len(csv) /\ Len(csv) \in Nat /\ DOMAIN buf = 1..Len(buf) /\ Len(buf) \in Nat
        /\ DOMAIN csv' = 1..(Len(csv) + Len(buf))
        /\ \A i \in 1..Len(csv) : csv'[i] = csv[i]
        /\ \A i \in (Len(csv) + 1)..(Len(csv) + Len(buf)) : csv'[i] = buf[i - Len(csv)]
    BY <1>1, <1>2
  <2>2. \A i \in DOMAIN csv : i \in DOMAIN csv' /\ csv'[i] = csv[i]
    BY <2>1
  <2>3. \A i \in DOMAIN buf : Len(csv) + i \in DOMAIN csv' /\ csv'[Len(csv) + i] = buf[i]
    BY <2>1
  <2> QED BY <2>2, <2>3 DEF ScanIn
<1>6. ScanDurable'
  <2> SUFFICES ASSUME NEW s \in Slots, StartSlot < s, s <= saved, TradeRows(s) # {}
               PROVE  ScanIn(s, csv') \/ s \in missed \cup exposed
    BY <1>1 DEF ScanDurable, ScanIn
  <2> QED BY <1>5 DEF ScanInv, ScanDurable
<1>7. ScanCovered'
  <2> SUFFICES ASSUME NEW s \in Slots, StartSlot < s, s <= last, TradeRows(s) # {}
               PROVE  ScanIn(s, csv') \/ s \in missed \cup exposed
    BY <1>1 DEF ScanCovered, ScanIn
  <2> QED BY <1>5 DEF ScanInv, ScanCovered
<1>8. ScanCounted'
  <2>1. ASSUME NEW s \in Slots
        PROVE  Cardinality(ScanAt(s, csv')) + Cardinality(ScanAt(s, buf'))
                   <= Cardinality(ScanAt(s, csv)) + Cardinality(ScanAt(s, buf))
    <3>1. Cardinality(ScanAt(s, csv')) <= Cardinality(ScanAt(s, csv)) + Cardinality(ScanAt(s, buf))
      BY <1>1, <1>2, ScanAtJoin
    <3>2. Cardinality(ScanAt(s, buf')) = 0
      <4>1. ScanAt(s, buf') = {}
        BY <1>1 DEF ScanAt
      <4> QED BY <4>1, FS_EmptySet
    <3>3. /\ Cardinality(ScanAt(s, csv)) \in Nat /\ Cardinality(ScanAt(s, buf)) \in Nat
          /\ Cardinality(ScanAt(s, csv')) \in Nat
      BY <1>2, <1>3, ScanAtFinite
    <3> QED BY <3>1, <3>2, <3>3
  <2> QED BY <1>1, <1>3, <2>1, ScanCarried
<1> QED BY <1>4, <1>6, <1>7, <1>8 DEF ScanInv

\* The process dies: what was in the buffer is read again, so the rows that are in
\* the file may be written once more.
LEMMA ScanRestart ==
    ASSUME ScanInv, Restart
    PROVE  ScanInv'
<1>1. /\ crashes' = crashes + 1 /\ pc' = "start" /\ buf' = <<>> /\ last' = 0 /\ head' = 0
      /\ UNCHANGED <<chain, saved, csv, missed, exposed>>
  BY DEF Restart
<1>2. ScanTyped'
  BY <1>1, ScannerAssumption DEF ScanInv, ScanTyped
<1>3. ScanDurable'
  BY <1>1 DEF ScanInv, ScanDurable, ScanIn
<1>4. ScanCovered'
  BY <1>1, ScannerAssumption DEF ScanCovered, Slots
<1>5. ScanCounted'
  <2> SUFFICES ASSUME NEW s \in Slots
               PROVE  Cardinality(ScanAt(s, csv)) + Cardinality(ScanAt(s, buf'))
                          <= crashes + 1 + (IF s <= last' THEN 1 ELSE 0)
    BY <1>1 DEF ScanCounted, ScanAt
  <2>1. PICK c, b \in Nat :
             /\ c = Cardinality(ScanAt(s, csv)) /\ b = Cardinality(ScanAt(s, buf))
             /\ c + b <= crashes + (IF s <= last THEN 1 ELSE 0)
             /\ crashes \in Nat /\ last \in Nat /\ s \in Nat
    BY ScanCount
  <2>2. Cardinality(ScanAt(s, buf')) = 0
    <3>1. ScanAt(s, buf') = {}
      BY <1>1 DEF ScanAt
    <3> QED BY <3>1, FS_EmptySet
  <2>3. c <= crashes + 1
    BY <2>1
  <2> QED BY <1>1, <2>1, <2>2, <2>3
<1> QED BY <1>2, <1>3, <1>4, <1>5 DEF ScanInv

\* The scan begins after the progress that was saved.
LEMMA ScanResume ==
    ASSUME ScanInv, Resume
    PROVE  ScanInv'
<1>1. /\ pc = "start" /\ last' = (IF saved < StartSlot THEN StartSlot ELSE saved) /\ pc' = "poll"
      /\ UNCHANGED <<chain, head, buf, saved, csv, crashes, missed, exposed>>
      /\ last = 0 /\ saved \in Nat /\ StartSlot \in Nat
  BY ScannerAssumption DEF Resume, ScanInv, ScanTyped
<1>2. ScanTyped' /\ ScanDurable'
  BY <1>1 DEF ScanInv, ScanTyped, ScanDurable, ScanIn
<1>3. ScanCovered'
  <2>1. \A s \in Slots : StartSlot < s /\ s <= last' => s <= saved
    BY <1>1 DEF Slots
  <2> QED BY <1>1, <2>1 DEF ScanInv, ScanDurable, ScanCovered, ScanIn
<1>4. ScanCounted'
  <2> SUFFICES ASSUME NEW s \in Slots
               PROVE  Cardinality(ScanAt(s, csv)) + Cardinality(ScanAt(s, buf))
                          <= crashes + (IF s <= last' THEN 1 ELSE 0)
    BY <1>1 DEF ScanCounted, ScanAt
  <2>1. PICK c, b \in Nat :
             /\ c = Cardinality(ScanAt(s, csv)) /\ b = Cardinality(ScanAt(s, buf))
             /\ c + b <= crashes + (IF s <= last THEN 1 ELSE 0)
             /\ crashes \in Nat /\ last \in Nat /\ s \in Nat
    BY ScanCount
  <2>2. ~(s <= last)
    BY <1>1 DEF Slots
  <2>3. c + b <= crashes
    BY <2>1, <2>2
  <2>4. c + b <= crashes + (IF s <= last' THEN 1 ELSE 0)
    BY <2>1, <2>3
  <2> QED BY <2>1, <2>4
<1> QED BY <1>2, <1>3, <1>4 DEF ScanInv

\* The progress is saved while the buffer is empty.
LEMMA ScanSave ==
    ASSUME ScanInv, SaveState
    PROVE  ScanInv'
<1>1. /\ saved' = last /\ pc' \in {"stopped", "scan", "poll"} /\ buf = <<>>
      /\ UNCHANGED <<chain, head, last, buf, csv, crashes, missed, exposed>>
  BY DEF SaveState, ScanInv, ScanTyped
<1>2. ScanTyped' /\ ScanCovered' /\ ScanCounted'
  BY <1>1 DEF ScanInv, ScanTyped, ScanCovered, ScanCounted, ScanIn, ScanAt
<1>3. \A s : ~ScanIn(s, buf)
  BY <1>1 DEF ScanIn
<1>4. ScanDurable'
  BY <1>1, <1>3 DEF ScanInv, ScanDurable, ScanCovered, ScanIn
<1> QED BY <1>2, <1>4 DEF ScanInv

LEMMA ScanStep == ScanInv /\ [ScanNext]_scanVars => ScanInv'
<1> SUFFICES ASSUME ScanInv, [ScanNext]_scanVars PROVE ScanInv'
  OBVIOUS
<1>1. ASSUME UNCHANGED <<last, saved, buf, csv, crashes, missed, exposed>>, ScanTyped' PROVE ScanInv'
  BY <1>1 DEF ScanInv, ScanDurable, ScanCovered, ScanCounted, ScanIn, ScanAt
<1>2. CASE GetSlot \/ Caught \/ ScanCancel
  <2>1. UNCHANGED <<last, saved, buf, csv, crashes, missed, exposed>> /\ ScanTyped'
    BY <1>2 DEF GetSlot, Caught, ScanCancel, ScanInv, ScanTyped
  <2> QED BY <1>1, <2>1
<1>3. CASE Produce \/ Rest \/ UNCHANGED scanVars
  <2>1. UNCHANGED <<last, saved, buf, csv, crashes, missed, exposed>> /\ ScanTyped'
    BY <1>3, ScannerAssumption DEF Produce, Rest, scanVars, ScanInv, ScanTyped
  <2> QED BY <1>1, <2>1
<1>4. CASE PassSlot
  BY <1>4, ScanSkipped DEF PassSlot
<1>5. ASSUME NEW error \in BOOLEAN, SkipSlot(error) PROVE ScanInv'
  <2>1. /\ last < head /\ pc = "scan" /\ last' = NextSlot
        /\ UNCHANGED <<chain, pc, head, buf, csv, crashes>>
        /\ missed' = IF error THEN missed \cup {NextSlot} ELSE missed
        /\ error \/ Block[NextSlot] = <<>>
    BY <1>5 DEF SkipSlot
  <2>2. missed \subseteq missed'
    BY <2>1
  <2>3. TradeRows(NextSlot) = {} \/ NextSlot \in missed'
    <3>1. Block[NextSlot] = <<>> => TradeRows(NextSlot) = {}
      BY DEF TradeRows
    <3> QED BY <2>1, <3>1
  <2>4. /\ exposed \subseteq exposed'
        /\ \/ UNCHANGED saved
           \/ saved' = last' /\ exposed' = exposed \cup {buf[i] : i \in DOMAIN buf}
    BY <1>5 DEF SkipSlot
  <2> QED BY <2>1, <2>2, <2>3, <2>4, ScanSkipped
<1> QED BY <1>2, <1>3, <1>4, <1>5, ScanWrite, ScanSpill, ScanFlush, ScanRestart, ScanResume, ScanSave
        DEF ScanNext, Step, Scan

\* However the scanner crashes, is cancelled and resumes, what it processed is
\* somewhere, and no slot is written more than once more per restart.
THEOREM ScannerInvariant == ScanSpec => []ScanInv
<1>1. ScanInv /\ [ScanNext]_scanVars => ScanInv'
  BY ScanStep
<1>2. ScanInit => ScanInv
  BY ScanInitially
<1> QED BY <1>1, <1>2, PTL DEF ScanSpec

\* No trade of a watched wallet is forgotten, but for the two losses that
\* NoTradeForgotten names (RunTailScanner, ownersHit and calcDeltaFor).
THEOREM TradesKept == ScanSpec => []NoTradeForgotten
<1>1. ScanInv => NoTradeForgotten
  <2> SUFFICES ASSUME ScanInv,
                      NEW s \in Slots, NEW o \in Wallets, NEW t \in DOMAIN Block[s],
                      StartSlot < s, s <= saved \/ s <= last, Changed(s, t, o) # 0,
                      s \notin missed \cup exposed
               PROVE  Written(s, t, o)
    BY DEF NoTradeForgotten
  <2>1. [tx |-> t, owner |-> o, delta |-> Changed(s, t, o)] \in TradeRows(s)
    BY ScanRow
  <2>2. ScanIn(s, csv) \/ ScanIn(s, buf)
    BY <2>1 DEF ScanInv, ScanDurable, ScanCovered
  <2>3. ScanAt(s, csv) # {} \/ ScanAt(s, buf) # {}
    BY <2>2 DEF ScanIn, ScanAt
  <2>4. /\ IsFiniteSet(ScanAt(s, csv)) /\ Cardinality(ScanAt(s, csv)) \in Nat
        /\ IsFiniteSet(ScanAt(s, buf)) /\ Cardinality(ScanAt(s, buf)) \in Nat
    BY ScanAtFinite DEF ScanInv, ScanTyped
  <2>5. Cardinality(ScanAt(s, csv)) > 0 \/ Cardinality(ScanAt(s, buf)) > 0
    BY <2>3, <2>4, FS_EmptySet
  <2>6. Rows(s) = Cardinality(ScanAt(s, csv)) + Cardinality(ScanAt(s, buf))
    BY ScanCounts DEF Rows, ScanAt
  <2>7. Rows(s) > 0
    BY <2>4, <2>5, <2>6
  <2> QED BY <2>1, <2>7 DEF Written
<1>2. ScanSpec => []ScanInv
  BY ScannerInvariant
<1> QED BY <1>1, <1>2, PTL

\* Every restart adds a row to a slot at most (RunTailScanner, loadState, saveState).
THEOREM RepeatsBounded == ScanSpec => []RepeatedOnlyByRestart
<1>1. ScanInv => RepeatedOnlyByRestart
  <2> SUFFICES ASSUME ScanInv, NEW s \in Slots PROVE Rows(s) <= 1 + crashes
    BY DEF RepeatedOnlyByRestart
  <2>1. PICK c, b \in Nat :
             /\ c = Cardinality(ScanAt(s, csv)) /\ b = Cardinality(ScanAt(s, buf))
             /\ c + b <= crashes + (IF s <= last THEN 1 ELSE 0)
             /\ crashes \in Nat /\ last \in Nat /\ s \in Nat
    BY ScanCount
  <2>2. Rows(s) = c + b
    BY <2>1, ScanCounts DEF Rows, ScanAt
  <2> QED BY <2>1, <2>2
<1> QED BY <1>1, ScannerInvariant, PTL
=============================================================================
