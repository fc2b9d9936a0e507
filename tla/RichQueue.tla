----------------------------- MODULE RichQueue -----------------------------
(***************************************************************************)
(* system/queue_enhance.go: RichQueue and its consumer.  A key in          *)
(* signInLocks keeps an item from being enqueued twice; it is stored       *)
(* before the item is appended and deleted when the item's handler returns *)
(* or asks for the item once more after a delay.                           *)
(*                                                                         *)
(* LoadOrStore and Delete on the sync.Map are steps of their own; what is  *)
(* done under the queue's mutex is one step.  Dequeue, BatchEnqueue, First *)
(* and Last have no caller and are left out.                               *)
(***************************************************************************)
EXTENDS Integers, Sequences, FiniteSets

CONSTANTS
    Items,      \* QueuePassObject values
    BatchSize,  \* the size given to ConsumerWithContext (1 in the code)
    MaxCalls    \* bound: calls of Enqueue from outside

ASSUME QueueAssumption == BatchSize \in Nat \ {0} /\ MaxCalls \in Nat

VARIABLES
    signIn,    \* the keys in signInLocks
    storing,   \* per item, the goroutines between LoadOrStore and append
    slots,     \* q.slots
    notify,    \* whether the notify channel, of capacity one, holds a token
    consumer,  \* where ConsumerWithContext is
    batch,     \* the items handed to handlers, with each handler's phase
    sleeping,  \* per item, the goroutines of EnqueueWithDelay
    cancelled, \* ctx.Done
    calls      \* calls of Enqueue so far

vars == <<signIn, storing, slots, notify, consumer, batch, sleeping, cancelled, calls>>

Phases == {"run", "unlock", "end"}
Handler == [item : Items, phase : Phases]

-----------------------------------------------------------------------------
\* LoadOrStore: an item whose key is stored is not appended.
Store(i) ==
    \/ i \in signIn /\ UNCHANGED <<signIn, storing>>
    \/ i \notin signIn /\ signIn' = signIn \cup {i} /\ storing' = [storing EXCEPT ![i] = @ + 1]

Enqueue(i) ==
    /\ calls < MaxCalls /\ calls' = calls + 1
    /\ Store(i)
    /\ UNCHANGED <<slots, notify, consumer, batch, sleeping, cancelled>>

\* Mutant: a token is sent only when the queue was empty before.
Token_OnlyFirst == notify' = (notify \/ Len(slots) = 1)

\* The non-blocking send: the token is there after it, sent now or before.
Token == notify' = TRUE

\* The second half of Enqueue, under the mutex.
AppendSlot(i) ==
    /\ storing[i] > 0
    /\ storing' = [storing EXCEPT ![i] = @ - 1]
    /\ slots' = Append(slots, i) /\ Token
    /\ UNCHANGED <<signIn, consumer, batch, sleeping, cancelled, calls>>

\* The delay of EnqueueWithDelay is over: Enqueue.
Awake(i) ==
    /\ sleeping[i] > 0
    /\ sleeping' = [sleeping EXCEPT ![i] = @ - 1]
    /\ Store(i)
    /\ UNCHANGED <<slots, notify, consumer, batch, cancelled, calls>>

-----------------------------------------------------------------------------
(* ConsumerWithContext *)

ConsumerWake ==
    /\ consumer = "wait" /\ notify
    /\ notify' = FALSE /\ consumer' = "drain"
    /\ UNCHANGED <<signIn, storing, slots, batch, sleeping, cancelled, calls>>

\* Mutant: one slot more than was handed out is cut off.
Cut_OneMore(n) == SubSeq(slots, n + 2, Len(slots))

Cut(n) == SubSeq(slots, n + 1, Len(slots))

BatchDequeue ==
    /\ consumer = "drain"
    /\ \/ /\ slots = <<>> /\ consumer' = "wait"
          /\ UNCHANGED <<slots, batch>>
       \/ LET n == IF Len(slots) > BatchSize THEN BatchSize ELSE Len(slots) IN
          /\ slots # <<>> /\ consumer' = "handle"
          /\ batch' = [k \in 1..n |-> [item |-> slots[k], phase |-> "run"]]
          /\ slots' = Cut(n)
    /\ UNCHANGED <<signIn, storing, notify, sleeping, cancelled, calls>>

\* The handler's work is done, or it panicked and was recovered.
HandlerDone(k) ==
    /\ batch[k].phase = "run"
    /\ batch' = [batch EXCEPT ![k].phase = "unlock"]
    /\ UNCHANGED <<signIn, storing, slots, notify, consumer, sleeping, cancelled, calls>>

\* Mutant: the return after EnqueueWithDelay is missing.
HandlerRetry_NoReturn(k) ==
    /\ batch[k].phase = "run"
    /\ signIn' = signIn \ {batch[k].item}
    /\ sleeping' = [sleeping EXCEPT ![batch[k].item] = @ + 1]
    /\ UNCHANGED <<storing, slots, notify, consumer, batch, cancelled, calls>>

\* The transaction is pending or the RPC failed: EnqueueWithDelay deletes the
\* key and starts the delay.
HandlerRetry(k) ==
    /\ batch[k].phase = "run"
    /\ signIn' = signIn \ {batch[k].item}
    /\ sleeping' = [sleeping EXCEPT ![batch[k].item] = @ + 1]
    /\ batch' = [batch EXCEPT ![k].phase = "unlock"]
    /\ UNCHANGED <<storing, slots, notify, consumer, cancelled, calls>>

\* Mutant: the deferred Delete is missing.
Release_Never(i) == UNCHANGED signIn

Release(i) == signIn' = signIn \ {i}

\* The deferred Delete, which every handler runs when it returns.
HandlerUnlock(k) ==
    /\ batch[k].phase = "unlock"
    /\ Release(batch[k].item)
    /\ batch' = [batch EXCEPT ![k].phase = "end"]
    /\ UNCHANGED <<storing, slots, notify, consumer, sleeping, cancelled, calls>>

\* Mutant: wg.Wait is missing.
BatchEnd_NoWait ==
    /\ consumer = "handle" /\ consumer' = "drain"
    /\ UNCHANGED <<signIn, storing, slots, notify, batch, sleeping, cancelled, calls>>

\* wg.Wait: the next batch is dequeued when every handler has returned.
BatchEnd ==
    /\ consumer = "handle" /\ \A k \in DOMAIN batch : batch[k].phase = "end"
    /\ batch' = <<>> /\ consumer' = "drain"
    /\ UNCHANGED <<signIn, storing, slots, notify, sleeping, cancelled, calls>>

\* Shutdown.  The select between ctx.Done and notify may take either.
Cancel ==
    /\ ~cancelled /\ cancelled' = TRUE
    /\ UNCHANGED <<signIn, storing, slots, notify, consumer, batch, sleeping, calls>>

ConsumerStop ==
    /\ consumer = "wait" /\ cancelled
    /\ consumer' = "stopped"
    /\ UNCHANGED <<signIn, storing, slots, notify, batch, sleeping, cancelled, calls>>

-----------------------------------------------------------------------------
Init ==
    /\ signIn = {} /\ slots = <<>> /\ notify = FALSE /\ consumer = "wait" /\ batch = <<>>
    /\ storing = [i \in Items |-> 0] /\ sleeping = [i \in Items |-> 0]
    /\ cancelled = FALSE /\ calls = 0

HandlerNext(k) == HandlerDone(k) \/ HandlerRetry(k) \/ HandlerUnlock(k)

ConsumerNext == ConsumerWake \/ BatchDequeue \/ BatchEnd \/ ConsumerStop

Next ==
    \/ \E i \in Items : Enqueue(i) \/ AppendSlot(i) \/ Awake(i)
    \/ \E k \in DOMAIN batch : HandlerNext(k)
    \/ ConsumerNext
    \/ Cancel

Spec == Init /\ [][Next]_vars

\* Goroutines that can run do.  A handler is not turned back for ever: the
\* transaction is mined and the RPC answers in the end (strong fairness).
Fairness ==
    /\ \A i \in Items : WF_vars(AppendSlot(i)) /\ WF_vars(Awake(i))
    /\ \A i \in Items : SF_vars(\E k \in DOMAIN batch : batch[k].item = i /\ HandlerDone(k))
    /\ WF_vars(\E k \in DOMAIN batch : HandlerNext(k))
    /\ WF_vars(ConsumerNext)

FairSpec == Spec /\ Fairness

-----------------------------------------------------------------------------
(* What the queue must keep *)

TypeOK ==
    /\ signIn \subseteq Items
    /\ storing \in [Items -> Nat] /\ sleeping \in [Items -> Nat]
    /\ slots \in Seq(Items) /\ batch \in Seq(Handler)
    /\ notify \in BOOLEAN /\ cancelled \in BOOLEAN /\ calls \in Nat
    /\ consumer \in {"wait", "drain", "handle", "stopped"}
    /\ consumer # "handle" => batch = <<>>

\* The consumer never sleeps beside a slot: an item appended while it was
\* leaving the drain loop has left a token in the channel.
NoLostWakeup == consumer = "wait" /\ slots # <<>> => notify

Queued(i) == \E n \in DOMAIN slots : slots[n] = i
InHand(i, phases) == \E k \in DOMAIN batch : batch[k].item = i /\ batch[k].phase \in phases
Handled(i) == InHand(i, {"run", "unlock"})

\* A key is stored only while someone is there who will delete it: the item is
\* in a slot, on its way into one, or in the hands of a handler.  A key left
\* behind would turn the item away for ever.
KeyHasWork == \A i \in signIn : storing[i] > 0 \/ Queued(i) \/ Handled(i)

\* The queue does not multiply work: however keys are deleted early and delays
\* overlap, an item has at most as many copies as Enqueue was called.
SlotsOf(i) == {n \in DOMAIN slots : slots[n] = i}
HandlersOf(i) == {k \in DOMAIN batch : batch[k].item = i /\ batch[k].phase = "run"}
Copies(i) == storing[i] + sleeping[i] + Cardinality(SlotsOf(i)) + Cardinality(HandlersOf(i))
CopiesBounded == \A i \in Items : Copies(i) <= calls

-----------------------------------------------------------------------------
(* The queue implements the promise. *)

\* A handler has the item in hand until its deferred Delete has run: an Enqueue
\* of the item is turned away until then.
Running == {i \in Items : Handled(i)}
Owed == {i \in Items : storing[i] > 0 \/ sleeping[i] > 0 \/ Queued(i) \/ InHand(i, {"run"})}

Work == INSTANCE WorkQueue WITH owed <- Owed, running <- Running

\* An item leaves the set of owed items only while a handler has it in hand, so
\* no interleaving of keys, delays and tokens loses one.
ImplementsWorkQueue == Work!WorkSpec

\* Every item taken in is handled to the end, unless the process shuts down.
EveryItemIsHandled == \A i \in Items : i \in Owed ~> (i \notin Owed \/ cancelled)
=============================================================================
