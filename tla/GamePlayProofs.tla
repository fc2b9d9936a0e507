--------------------------- MODULE GamePlayProofs ---------------------------
(***************************************************************************)
(* For any requests, prices, scores and bounds: no money is made or lost,  *)
(* a freeze is charged once, a session that is over was charged, and the   *)
(* game implements the escrow.  The invariant adds to the properties what  *)
(* a handler still knows about the rows it has read outside of its         *)
(* transaction: a freeze stays a freeze of its session, and what a copied  *)
(* session says it cost is still in a spend row.  What is frozen is the    *)
(* sum of the pending freezes, of which a step changes one at most.        *)
(***************************************************************************)
EXTENDS GamePlay, SumLemmas, TLAPS

StartingTracked ==
    \A p \in Req : handler[p].at \in {"startFind", "startCommit"} => handler[p].price \in Prices

EndingTracked ==
    \A p \in Req : handler[p].at \in {"endSpent", "endCommit"} =>
        /\ handler[p].flow \in DOMAIN flows
        /\ flows[handler[p].flow].op = "Freeze"
        /\ flows[handler[p].flow].session = handler[p].session

CopyTracked ==
    \A p \in Req : handler[p].at = "confirmSave" =>
        \E j \in Spends : /\ flows[j].session = handler[p].session
                          /\ flows[j].amount = handler[p].copy.spend

Tracked == StartingTracked /\ EndingTracked /\ CopyTracked

GameInv ==
    /\ TypeOK /\ Conserved /\ ChargedOnce /\ EndedSessionWasCharged
    /\ Tracked

-----------------------------------------------------------------------------
LEMMA AppendRow ==
    ASSUME NEW s \in Seq(Flow), NEW f \in Flow
    PROVE  /\ Append(s, f) \in Seq(Flow) /\ Len(s) \in Nat
           /\ DOMAIN s = 1..Len(s) /\ DOMAIN Append(s, f) = 1..(Len(s) + 1)
           /\ Append(s, f)[Len(s) + 1] = f
           /\ \A j \in 1..Len(s) : Append(s, f)[j] = s[j]
OBVIOUS

LEMMA CloseRow ==
    ASSUME flows \in Seq(Flow), NEW i \in DOMAIN flows
    PROVE  /\ CloseFreeze(i) \in Seq(Flow) /\ Len(CloseFreeze(i)) = Len(flows)
           /\ CloseFreeze(i)[i] = [flows[i] EXCEPT !.status = "Done"]
           /\ \A j \in DOMAIN flows \ {i} : CloseFreeze(i)[j] = flows[j]
<1>1. flows[i] \in Flow /\ [flows[i] EXCEPT !.status = "Done"] \in Flow
  <2>1. flows[i] \in Flow
    OBVIOUS
  <2> QED BY <2>1 DEF Flow
<1>2. CloseFreeze(i) = [flows EXCEPT ![i] = [flows[i] EXCEPT !.status = "Done"]]
  BY DEF CloseFreeze
<1> QED BY <1>1, <1>2

LEMMA SaveSession ==
    ASSUME sessions \in Seq(Session), NEW s, NEW row \in Session
    PROVE  /\ [sessions EXCEPT ![s] = row] \in Seq(Session)
           /\ DOMAIN [sessions EXCEPT ![s] = row] = DOMAIN sessions
           /\ \A t \in DOMAIN sessions :
                [sessions EXCEPT ![s] = row][t] = IF t = s THEN row ELSE sessions[t]
<1>1. DOMAIN sessions = 1..Len(sessions) /\ Len(sessions) \in Nat
  OBVIOUS
<1>2. [sessions EXCEPT ![s] = row] \in [1..Len(sessions) -> Session]
  <2>1. sessions \in [1..Len(sessions) -> Session]
    BY <1>1
  <2> QED BY <2>1
<1> QED BY <1>1, <1>2

LEMMA IdleTyped == Idle \in Handler /\ FreshSession \in Session
BY GameAssumption DEF Idle, Handler, FreshSession, Session, Steps, SessionStatuses

\* A handler goes on with typed values, or is done.
LEMMA GoTyped ==
    ASSUME TypeOK, NEW p \in Req, NEW h \in Handler, Go(p, h)
    PROVE  /\ handler' \in [Req -> Handler] /\ handler'[p] = h
           /\ \A q \in Req \ {p} : handler'[q] = handler[q]
BY DEF TypeOK, Go

-----------------------------------------------------------------------------
LEMMA GameInit == Init => GameInv
<1> SUFFICES ASSUME Init PROVE GameInv
  OBVIOUS
<1>1. TypeOK
  <2>1. sessions \in Seq(Session) /\ flows \in Seq(Flow)
    BY DEF Init
  <2> QED BY <2>1, IdleTyped DEF Init, TypeOK
<1>2. Conserved /\ ChargedOnce /\ EndedSessionWasCharged
  BY DEF Init, Conserved, ChargedOnce, EndedSessionWasCharged, Spends
<1>3. StartingTracked /\ EndingTracked /\ CopyTracked
  BY DEF Init, Tracked, StartingTracked, EndingTracked, CopyTracked, Idle
<1> QED BY <1>1, <1>2, <1>3 DEF GameInv, Tracked

\* A step that leaves rows and balance alone only has to account for what its
\* handler now knows.
LEMMA ReadStep ==
    ASSUME GameInv, NEW p \in Req, NEW h \in Handler, Go(p, h),
           UNCHANGED <<game, account, sessions, flows, credited, spent>>,
           h.at \in {"startFind", "startCommit"} => h.price \in Prices,
           h.at \in {"endSpent", "endCommit"} =>
               /\ h.flow \in DOMAIN flows /\ flows[h.flow].op = "Freeze"
               /\ flows[h.flow].session = h.session,
           h.at = "confirmSave" =>
               \E j \in Spends : flows[j].session = h.session /\ flows[j].amount = h.copy.spend
    PROVE  GameInv'
<1>1. /\ handler' \in [Req -> Handler] /\ handler'[p] = h
      /\ \A q \in Req \ {p} : handler'[q] = handler[q]
  BY GoTyped DEF GameInv
<1>2. TypeOK' /\ Conserved' /\ ChargedOnce' /\ EndedSessionWasCharged'
  BY <1>1 DEF GameInv, TypeOK, Conserved, ChargedOnce, EndedSessionWasCharged, Spends, SpendsOf
<1>3. StartingTracked' /\ EndingTracked' /\ CopyTracked'
  BY <1>1 DEF GameInv, Tracked, StartingTracked, EndingTracked, CopyTracked, Spends
<1> QED BY <1>2, <1>3 DEF GameInv, Tracked

LEMMA ReturnStep ==
    ASSUME GameInv, NEW p \in Req, Return(p),
           UNCHANGED <<game, account, sessions, flows, credited, spent>>
    PROVE  GameInv'
BY ReadStep, IdleTyped DEF Return, Idle

\* Rows are appended and closed; nothing else about a row ever changes.  What
\* the handlers know about rows then stays true.
LEMMA KnowledgeKept ==
    ASSUME GameInv, NEW p \in Req, Return(p), flows' \in Seq(Flow),
           DOMAIN flows \subseteq DOMAIN flows',
           \A j \in DOMAIN flows :
               /\ flows'[j].op = flows[j].op /\ flows'[j].session = flows[j].session
               /\ flows'[j].amount = flows[j].amount /\ flows'[j].ref = flows[j].ref
    PROVE  Tracked' /\ handler' \in [Req -> Handler]
<1>1. /\ handler' \in [Req -> Handler] /\ handler'[p].at = "idle"
      /\ \A q \in Req \ {p} : handler'[q] = handler[q]
  BY GoTyped, IdleTyped DEF GameInv, Return, Idle
<1>2. Spends \subseteq Spends'
  BY DEF Spends
<1>3. StartingTracked' /\ EndingTracked'
  BY <1>1 DEF GameInv, Tracked, StartingTracked, EndingTracked
<1>4. CopyTracked'
  BY <1>1, <1>2 DEF GameInv, Tracked, CopyTracked, Spends
<1> QED BY <1>1, <1>3, <1>4 DEF Tracked

LEMMA EarlierCharged ==
    ASSUME GameInv, flows' \in Seq(Flow), DOMAIN flows \subseteq DOMAIN flows',
           \A j \in DOMAIN flows :
               /\ flows'[j].op = flows[j].op /\ flows'[j].session = flows[j].session
               /\ flows'[j].amount = flows[j].amount /\ flows'[j].ref = flows[j].ref,
           NEW s \in DOMAIN sessions, sessions[s].status # "Start"
    PROVE  \E j \in Spends' : flows'[j].session = s /\ flows'[j].amount = sessions[s].spend
<1>1. PICK j \in Spends : flows[j].session = s /\ flows[j].amount = sessions[s].spend
  BY DEF GameInv, EndedSessionWasCharged
<1>2. j \in Spends'
  BY DEF Spends
<1> QED BY <1>1, <1>2 DEF Spends

-----------------------------------------------------------------------------
LEMMA InitCreateStep ==
    ASSUME GameInv, NEW p \in Req, InitCreate(p)
    PROVE  GameInv'
<1>1. /\ sessions' \in Seq(Session) /\ DOMAIN sessions' = 1..(Len(sessions) + 1)
      /\ DOMAIN sessions = 1..Len(sessions) /\ Len(sessions) \in Nat
      /\ sessions'[Len(sessions) + 1] = FreshSession
      /\ \A s \in DOMAIN sessions : sessions'[s] = sessions[s]
  BY IdleTyped DEF InitCreate, GameInv, TypeOK
<1>2. UNCHANGED <<game, account, flows, credited, spent>> /\ Return(p)
  BY DEF InitCreate
<1>3. Tracked' /\ handler' \in [Req -> Handler]
  BY <1>2, KnowledgeKept DEF GameInv, TypeOK
<1>4. TypeOK' /\ Conserved' /\ ChargedOnce'
  BY <1>1, <1>2, <1>3 DEF GameInv, TypeOK, Conserved, ChargedOnce, Spends, SpendsOf
<1>5. EndedSessionWasCharged'
  <2> SUFFICES ASSUME NEW s \in DOMAIN sessions', sessions'[s].status # "Start"
               PROVE  \E j \in Spends' : flows'[j].session = s /\ flows'[j].amount = sessions'[s].spend
    BY DEF EndedSessionWasCharged
  <2>1. s \in DOMAIN sessions /\ sessions'[s] = sessions[s]
    BY <1>1 DEF FreshSession
  <2> QED BY <1>2, <2>1 DEF GameInv, EndedSessionWasCharged, Spends
<1> QED BY <1>3, <1>4, <1>5 DEF GameInv

LEMMA StartCommitStep ==
    ASSUME GameInv, NEW p \in Req, StartCommit(p)
    PROVE  GameInv'
<1> DEFINE h == handler[p]
           f == [op |-> "Freeze", status |-> "Pending", session |-> h.session,
                 ref |-> 0, amount |-> h.price]
<1>1. CASE UNCHANGED <<account, flows>>
  BY <1>1, ReturnStep DEF StartCommit
<1>2. CASE Affordable(h.price) /\ flows' = Append(flows, f) /\ Freeze(h.price)
  <2>1. f \in Flow /\ flows \in Seq(Flow) /\ h.price \in Nat
    <3>1. h.price \in Prices /\ h.session \in Nat
      BY DEF StartCommit, GameInv, Tracked, StartingTracked, TypeOK, Handler
    <3> QED BY <3>1, GameAssumption DEF GameInv, TypeOK, Flow
  <2>2. /\ flows' \in Seq(Flow) /\ Len(flows) \in Nat
        /\ DOMAIN flows = 1..Len(flows) /\ DOMAIN flows' = 1..(Len(flows) + 1)
        /\ flows'[Len(flows) + 1] = f /\ \A j \in DOMAIN flows : flows'[j] = flows[j]
    BY <1>2, <2>1, AppendRow
  <2> HIDE DEF f
  <2>3. Return(p) /\ UNCHANGED <<game, sessions, credited, spent>>
    BY DEF StartCommit
  <2>4. Tracked' /\ handler' \in [Req -> Handler]
    BY <2>2, <2>3, KnowledgeKept
  <2>5. account' \in [exists : BOOLEAN, available : Nat, frozen : Nat] /\ Conserved'
    BY <1>2, <2>1, <2>3 DEF GameInv, TypeOK, Conserved, Freeze, Affordable
  <2>6. TypeOK'
    BY <2>2, <2>3, <2>4, <2>5 DEF GameInv, TypeOK
  <2>7. PICK n \in Nat : n = Len(flows) + 1
    BY <2>2
  <2>8. /\ Spends' = Spends /\ \A i \in DOMAIN flows : SpendsOf(i)' = SpendsOf(i)
        /\ SpendsOf(n)' = {}
    BY <2>2, <2>7 DEF Spends, SpendsOf, f, GameInv, ChargedOnce
  <2>9. ChargedOnce'
    <3>1. \A i \in DOMAIN flows' : i \in DOMAIN flows \/ i = n
      BY <2>2, <2>7
    <3>2. flows'[n].status = "Pending"
      BY <2>2, <2>7 DEF f
    <3> QED BY <2>2, <2>8, <3>1, <3>2 DEF GameInv, ChargedOnce, Spends
  <2>10. EndedSessionWasCharged'
    BY <2>2, <2>3, EarlierCharged DEF EndedSessionWasCharged
  <2> QED BY <2>4, <2>5, <2>6, <2>9, <2>10 DEF GameInv
<1> QED BY <1>1, <1>2 DEF StartCommit

\* What a charge does to the rows: freeze i is closed and row n pays it.
Charged(i, n) ==
    /\ i \in DOMAIN flows /\ flows[i].op = "Freeze" /\ flows[i].status = "Pending"
    /\ n \in Nat /\ n = Len(flows) + 1
    /\ flows' \in Seq(Flow) /\ DOMAIN flows = 1..Len(flows) /\ DOMAIN flows' = 1..n
    /\ Len(flows) \in Nat
    /\ flows'[i] = [flows[i] EXCEPT !.status = "Done"]
    /\ \A j \in DOMAIN flows \ {i} : flows'[j] = flows[j]
    /\ flows'[n] = [op |-> "Spend", status |-> "Done", session |-> flows[i].session,
                    ref |-> i, amount |-> flows[i].amount]

LEMMA EndCommitRows ==
    ASSUME GameInv, NEW p \in Req, EndCommit(p), Chargeable(handler[p].flow),
           NEW i, i = handler[p].flow,
           flows' = Append(CloseFreeze(i), [op |-> "Spend", status |-> "Done",
                        session |-> handler[p].session, ref |-> i, amount |-> flows[i].amount])
    PROVE  \E n \in Nat : Charged(i, n)
<1> DEFINE f == [op |-> "Spend", status |-> "Done", session |-> handler[p].session,
                 ref |-> i, amount |-> flows[i].amount]
<1>1. /\ i \in DOMAIN flows /\ flows[i].op = "Freeze" /\ flows[i].status = "Pending"
      /\ flows[i].session = handler[p].session
  BY DEF EndCommit, Chargeable, GameInv, Tracked, EndingTracked
<1>2. flows \in Seq(Flow) /\ flows[i] \in Flow /\ i \in Nat
  BY <1>1 DEF GameInv, TypeOK
<1>3. f \in Flow
  BY <1>1, <1>2 DEF Flow
<1>4. /\ CloseFreeze(i) \in Seq(Flow) /\ Len(CloseFreeze(i)) = Len(flows)
      /\ CloseFreeze(i)[i] = [flows[i] EXCEPT !.status = "Done"]
      /\ \A j \in DOMAIN flows \ {i} : CloseFreeze(i)[j] = flows[j]
  BY <1>1, <1>2, CloseRow
<1> HIDE DEF f
<1>5. /\ flows' = Append(CloseFreeze(i), f) /\ flows' \in Seq(Flow) /\ Len(flows) \in Nat
      /\ DOMAIN flows = 1..Len(flows) /\ DOMAIN flows' = 1..(Len(flows) + 1)
      /\ flows'[Len(flows) + 1] = f
      /\ \A j \in 1..Len(flows) : flows'[j] = CloseFreeze(i)[j]
  BY <1>2, <1>3, <1>4, AppendRow DEF f
<1>6. f = [op |-> "Spend", status |-> "Done", session |-> flows[i].session,
           ref |-> i, amount |-> flows[i].amount]
  BY <1>1 DEF f
<1>7. Charged(i, Len(flows) + 1)
  BY <1>1, <1>4, <1>5, <1>6 DEF Charged
<1>8. PICK n \in Nat : n = Len(flows) + 1
  BY <1>5
<1> QED BY <1>7, <1>8

LEMMA ChargedRows ==
    ASSUME GameInv, NEW i, NEW n, Charged(i, n)
    PROVE  /\ DOMAIN flows' = DOMAIN flows \cup {n} /\ n \notin DOMAIN flows
           /\ DOMAIN flows \subseteq DOMAIN flows'
           /\ \A j \in DOMAIN flows :
                /\ flows'[j].op = flows[j].op /\ flows'[j].session = flows[j].session
                /\ flows'[j].amount = flows[j].amount /\ flows'[j].ref = flows[j].ref
           /\ Spends' = Spends \cup {n}
           /\ Pending' = Pending \ {i} /\ i \in Pending
           /\ SpendsOf(i) = {}
<1>1. DOMAIN flows' = DOMAIN flows \cup {n} /\ n \notin DOMAIN flows
  BY DEF Charged
<1>2. flows[i] \in Flow
  BY DEF Charged, GameInv, TypeOK
<1>3. \A j \in DOMAIN flows :
        /\ flows'[j].op = flows[j].op /\ flows'[j].session = flows[j].session
        /\ flows'[j].amount = flows[j].amount /\ flows'[j].ref = flows[j].ref
  BY <1>2 DEF Charged, Flow
<1>4. Spends' = Spends \cup {n}
  BY <1>1, <1>3 DEF Charged, Spends
<1>5. flows'[i].status = "Done" /\ flows'[n].op = "Spend" /\ i \in DOMAIN flows
  BY <1>2 DEF Charged, Flow
<1>6. Pending' = Pending \ {i} /\ i \in Pending
  <2>1. i \in Pending
    BY DEF Charged, Pending
  <2>2. \A j \in DOMAIN flows : j \in Pending' <=> j \in Pending /\ j # i
    BY <1>1, <1>5 DEF Charged, Pending
  <2>3. n \notin Pending' /\ Pending' \subseteq DOMAIN flows \cup {n}
    BY <1>1, <1>5 DEF Pending
  <2>4. Pending \subseteq DOMAIN flows
    BY DEF Pending
  <2> QED BY <2>1, <2>2, <2>3, <2>4
<1>7. SpendsOf(i) = {}
  BY DEF Charged, GameInv, ChargedOnce
<1> QED BY <1>1, <1>3, <1>4, <1>6, <1>7

LEMMA EndCommitStep ==
    ASSUME GameInv, NEW p \in Req, EndCommit(p)
    PROVE  GameInv'
<1> DEFINE h == handler[p]
<1>1. CASE UNCHANGED <<account, sessions, flows, spent>>
  BY <1>1, ReturnStep DEF EndCommit
<1>2. ASSUME NEW i, i = h.flow, Chargeable(i), NEW score \in Scores,
             flows' = Append(CloseFreeze(i), [op |-> "Spend", status |-> "Done",
                        session |-> h.session, ref |-> i, amount |-> flows[i].amount]),
             Unfreeze(flows[i].amount), spent' = spent + flows[i].amount,
             sessions' = [sessions EXCEPT ![h.session] = EndedSession(h, score, flows[i].amount)]
      PROVE  GameInv'
  <2>1. PICK n \in Nat : Charged(i, n)
    BY <1>2, EndCommitRows
  <2>2. /\ DOMAIN flows' = DOMAIN flows \cup {n} /\ n \notin DOMAIN flows
        /\ DOMAIN flows \subseteq DOMAIN flows'
        /\ \A j \in DOMAIN flows :
             /\ flows'[j].op = flows[j].op /\ flows'[j].session = flows[j].session
             /\ flows'[j].amount = flows[j].amount /\ flows'[j].ref = flows[j].ref
        /\ Spends' = Spends \cup {n} /\ SpendsOf(i) = {}
    BY <2>1, ChargedRows
  <2>3. Return(p) /\ UNCHANGED <<game, credited>>
    BY DEF EndCommit
  <2>4. flows[i] \in Flow /\ flows' \in Seq(Flow)
    BY <2>1 DEF Charged, GameInv, TypeOK
  <2>5. Tracked' /\ handler' \in [Req -> Handler]
    BY <2>2, <2>3, <2>4, KnowledgeKept
  <2>6. EndedSession(h, score, flows[i].amount) \in Session
    <3>1. h.copy \in Session
      BY DEF GameInv, TypeOK, Handler
    <3>2. "End" \in SessionStatuses /\ flows[i].amount \in Prices \cup {0}
      BY <2>4 DEF Flow, SessionStatuses
    <3> QED BY <3>1, <3>2 DEF EndedSession, Session
  <2>7. /\ sessions' \in Seq(Session) /\ DOMAIN sessions' = DOMAIN sessions
        /\ \A t \in DOMAIN sessions : sessions'[t] =
              IF t = h.session THEN EndedSession(h, score, flows[i].amount) ELSE sessions[t]
    BY <1>2, <2>6, SaveSession DEF GameInv, TypeOK
  <2>8. /\ account' \in [exists : BOOLEAN, available : Nat, frozen : Nat]
        /\ spent' \in Nat /\ Conserved'
    <3>1. flows[i].amount \in Nat /\ account.frozen >= flows[i].amount
      BY <1>2, <2>4, GameAssumption DEF Chargeable, Flow
    <3>2. account' = [account EXCEPT !.frozen = @ - flows[i].amount] /\ UNCHANGED credited
      BY <1>2, <2>3 DEF Unfreeze
    <3>3. account \in [exists : BOOLEAN, available : Nat, frozen : Nat] /\ spent \in Nat
      BY DEF GameInv, TypeOK
    <3>4. /\ account'.exists = account.exists /\ account'.available = account.available
          /\ account'.frozen = account.frozen - flows[i].amount
          /\ account' \in [exists : BOOLEAN, available : Nat, frozen : Nat]
      BY <3>1, <3>2, <3>3
    <3>5. account.available \in Nat /\ account.frozen \in Nat /\ account.available + account.frozen + spent = credited
      BY <3>3 DEF GameInv, Conserved
    <3>6. account'.available + account'.frozen + spent' = credited'
      BY <1>2, <3>1, <3>2, <3>3, <3>4, <3>5
    <3>7. spent' \in Nat
      BY <1>2, <3>1, <3>3
    <3>8. Conserved'
      BY <3>6 DEF Conserved
    <3> QED BY <3>4, <3>7, <3>8
  <2>9. TypeOK'
    BY <2>3, <2>4, <2>5, <2>7, <2>8 DEF GameInv, TypeOK
  <2>10. ChargedOnce'
    <3>1. flows'[n].op = "Spend" /\ flows'[n].ref = i /\ flows'[n].amount = flows[i].amount
          /\ flows'[n].session = flows[i].session /\ i \in DOMAIN flows
          /\ flows[i].op = "Freeze"
      BY <2>1 DEF Charged
    <3>2. \A j \in Spends : j \in DOMAIN flows /\ flows[j].ref # i
      BY <2>2 DEF Spends, SpendsOf
    <3>3. \A j, k \in Spends' : flows'[j].ref = flows'[k].ref => j = k
      BY <2>2, <3>1, <3>2 DEF GameInv, ChargedOnce
    <3>4. ASSUME NEW j \in DOMAIN flows', flows'[j].op = "Freeze"
          PROVE  flows'[j].status = "Done" <=> SpendsOf(j)' # {}
      <4>1. j \in DOMAIN flows /\ flows[j].op = "Freeze"
        BY <2>2, <3>1, <3>4
      <4>2. CASE j = i
        <5>1. flows'[i].status = "Done"
          BY <2>1, <2>4 DEF Charged, Flow
        <5>2. n \in SpendsOf(j)'
          BY <2>2, <3>1, <4>2 DEF SpendsOf
        <5> QED BY <4>2, <5>1, <5>2
      <4>3. CASE j # i
        <5>1. flows'[j] = flows[j]
          BY <2>1, <4>1, <4>3 DEF Charged
        <5>2. SpendsOf(j)' = SpendsOf(j)
          BY <2>2, <3>1, <4>3 DEF SpendsOf
        <5> QED BY <4>1, <5>1, <5>2 DEF GameInv, ChargedOnce
      <4> QED BY <4>2, <4>3
    <3>5. ASSUME NEW j \in Spends'
          PROVE  /\ flows'[j].ref \in DOMAIN flows' /\ flows'[flows'[j].ref].op = "Freeze"
                 /\ flows'[j].amount = flows'[flows'[j].ref].amount
                 /\ flows'[j].session = flows'[flows'[j].ref].session
      <4>1. CASE j = n
        BY <2>2, <3>1, <4>1
      <4>2. CASE j \in Spends
        BY <2>2, <3>2, <4>2 DEF GameInv, ChargedOnce
      <4> QED BY <2>2, <4>1, <4>2
    <3> QED BY <3>3, <3>4, <3>5 DEF ChargedOnce
  <2>11. EndedSessionWasCharged'
    <3> SUFFICES ASSUME NEW s \in DOMAIN sessions', sessions'[s].status # "Start"
                 PROVE  \E j \in Spends' : /\ flows'[j].session = s
                                           /\ flows'[j].amount = sessions'[s].spend
      BY DEF EndedSessionWasCharged
    <3>1. CASE s = h.session
      <4>1. flows'[n].amount = flows[i].amount /\ flows'[n].session = flows[i].session
        BY <2>1 DEF Charged
      <4>2. flows[i].session = s
        BY <1>2, <3>1 DEF EndCommit, GameInv, Tracked, EndingTracked
      <4>3. sessions'[s].spend = flows[i].amount
        BY <2>7, <3>1 DEF EndedSession, GameInv, TypeOK, Handler, Session
      <4> QED BY <2>2, <4>1, <4>2, <4>3
    <3>2. CASE s # h.session
      BY <2>2, <2>4, <2>7, <3>2, EarlierCharged
    <3> QED BY <3>1, <3>2
  <2> QED BY <2>5, <2>8, <2>9, <2>10, <2>11 DEF GameInv
<1> QED BY <1>1, <1>2 DEF EndCommit

LEMMA ConfirmStep ==
    ASSUME GameInv, NEW p \in Req, ConfirmSave(p)
    PROVE  GameInv'
<1> DEFINE h == handler[p]
<1>1. PICK row : /\ sessions' = [sessions EXCEPT ![h.session] = row]
                 /\ row \in Session /\ row.spend = h.copy.spend
  <2>1. PICK score \in Scores : sessions' = [sessions EXCEPT ![h.session] =
              [h.copy EXCEPT !.report = score,
                             !.status = IF score = h.copy.score THEN "Settled" ELSE "Auditing"]]
    BY DEF ConfirmSave
  <2>2. h.copy \in Session
    BY DEF GameInv, TypeOK, Handler
  <2> DEFINE status == IF score = h.copy.score THEN "Settled" ELSE "Auditing"
             row == [h.copy EXCEPT !.report = score, !.status = status]
  <2>3. status \in SessionStatuses
    BY DEF SessionStatuses
  <2> HIDE DEF status
  <2>4. row \in Session /\ row.spend = h.copy.spend
    BY <2>2, <2>3 DEF Session
  <2>5. sessions' = [sessions EXCEPT ![h.session] = row]
    BY <2>1 DEF status
  <2> QED BY <2>4, <2>5
<1>2. /\ sessions' \in Seq(Session) /\ DOMAIN sessions' = DOMAIN sessions
      /\ \A t \in DOMAIN sessions : sessions'[t] = IF t = h.session THEN row ELSE sessions[t]
  BY <1>1, SaveSession DEF GameInv, TypeOK
<1>3. Return(p) /\ UNCHANGED <<game, account, flows, credited, spent>>
  BY DEF ConfirmSave
<1>4. Tracked' /\ handler' \in [Req -> Handler]
  BY <1>3, KnowledgeKept DEF GameInv, TypeOK
<1>5. TypeOK' /\ Conserved' /\ ChargedOnce'
  BY <1>2, <1>3, <1>4 DEF GameInv, TypeOK, Conserved, ChargedOnce, Spends, SpendsOf
<1>6. EndedSessionWasCharged'
  <2> SUFFICES ASSUME NEW s \in DOMAIN sessions', sessions'[s].status # "Start"
               PROVE  \E j \in Spends : flows[j].session = s /\ flows[j].amount = sessions'[s].spend
    BY <1>3 DEF EndedSessionWasCharged, Spends
  <2>1. CASE s = h.session
    <3>1. sessions'[s].spend = h.copy.spend
      BY <1>1, <1>2, <2>1
    <3>2. \E j \in Spends : flows[j].session = h.session /\ flows[j].amount = h.copy.spend
      BY DEF ConfirmSave, GameInv, Tracked, CopyTracked
    <3> QED BY <2>1, <3>1, <3>2
  <2>2. CASE s # h.session
    BY <1>2, <2>2 DEF GameInv, EndedSessionWasCharged
  <2> QED BY <2>1, <2>2
<1> QED BY <1>4, <1>5, <1>6 DEF GameInv

LEMMA AroundStep ==
    ASSUME GameInv, UNCHANGED <<sessions, flows, handler, spent>>,
           \/ \E a \in Deposits : Recharge(a) \/ Withdraw(a)
           \/ \E status \in GameStatuses : SetGameStatus(status)
           \/ UNCHANGED vars
    PROVE  GameInv'
<1>1. /\ game' \in GameStatuses /\ account' \in [exists : BOOLEAN, available : Nat, frozen : Nat]
      /\ credited' \in Int /\ Conserved'
  <2>1. ASSUME NEW a \in Deposits, Recharge(a) \/ Withdraw(a)
        PROVE  /\ game' = game /\ account' \in [exists : BOOLEAN, available : Nat, frozen : Nat]
               /\ credited' \in Int /\ Conserved'
    <3>1. /\ a \in Nat /\ credited \in Int /\ spent \in Nat /\ spent' = spent /\ game' = game
          /\ account \in [exists : BOOLEAN, available : Nat, frozen : Nat]
          /\ account.available \in Nat /\ account.frozen \in Nat
          /\ account.available + account.frozen + spent = credited
      BY <2>1, GameAssumption DEF Recharge, Withdraw, GameInv, TypeOK, Conserved
    <3>2. CASE Recharge(a)
      <4>1. /\ account'.available = account.available + a /\ account'.frozen = account.frozen
            /\ account' \in [exists : BOOLEAN, available : Nat, frozen : Nat]
            /\ credited' = credited + a
        <5>1. /\ account' = [account EXCEPT !.exists = TRUE, !.available = @ + a]
              /\ credited' = credited + a
          BY <3>2 DEF Recharge
        <5>2. account.available + a \in Nat
          BY <3>1
        <5>3. account' = [exists |-> TRUE, available |-> account.available + a,
                          frozen |-> account.frozen]
          BY <3>1, <5>1
        <5> QED BY <3>1, <5>1, <5>2, <5>3
      <4> QED BY <3>1, <4>1 DEF Conserved
    <3>3. CASE Withdraw(a)
      <4>1. /\ account'.available = account.available - a /\ account'.frozen = account.frozen
            /\ account.available >= a /\ account'.exists = account.exists
            /\ account' = [account EXCEPT !.available = @ - a]
            /\ credited' = credited - a
        BY <3>1, <3>3 DEF Withdraw
      <4>2. account' \in [exists : BOOLEAN, available : Nat, frozen : Nat]
        BY <3>1, <4>1
      <4> QED BY <3>1, <4>1, <4>2 DEF Conserved
    <3> QED BY <2>1, <3>2, <3>3
  <2>2. CASE (\E status \in GameStatuses : SetGameStatus(status)) \/ UNCHANGED vars
    BY <2>2 DEF SetGameStatus, vars, GameInv, TypeOK, Conserved
  <2> QED BY <2>1, <2>2 DEF GameInv, TypeOK
<1>2. TypeOK' /\ ChargedOnce' /\ EndedSessionWasCharged' /\ Tracked'
  BY <1>1 DEF GameInv, TypeOK, ChargedOnce, EndedSessionWasCharged, Spends, SpendsOf,
              Tracked, StartingTracked, EndingTracked, CopyTracked
<1> QED BY <1>1, <1>2 DEF GameInv

LEMMA GameStep == GameInv /\ [Next]_vars => GameInv'
<1> SUFFICES ASSUME GameInv, [Next]_vars PROVE GameInv'
  OBVIOUS
<1>1. ASSUME NEW p \in Req, InitNext(p) PROVE GameInv'
  <2>1. CASE InitRead(p)
    <3> DEFINE h == [Idle EXCEPT !.at = "initCreate"]
    <3>1. h \in Handler /\ h.at = "initCreate"
      BY IdleTyped DEF Idle, Handler, Steps
    <3> HIDE DEF h
    <3>2. Go(p, h)
      BY <2>1 DEF InitRead, h
    <3> QED BY <2>1, <3>1, <3>2, ReadStep DEF InitRead
  <2> QED BY <1>1, <2>1, InitCreateStep DEF InitNext
<1>2. ASSUME NEW p \in Req, StartNext(p) PROVE GameInv'
  <2>1. CASE StartCheck(p)
    <3>1. PICK s \in DOMAIN sessions, price \in Prices :
              Go(p, [Idle EXCEPT !.at = "startFind", !.session = s, !.price = price])
      BY <2>1 DEF StartCheck
    <3> DEFINE h == [Idle EXCEPT !.at = "startFind", !.session = s, !.price = price]
    <3>2. s \in Nat
      BY DEF GameInv, TypeOK
    <3>3. h \in Handler /\ h.at = "startFind" /\ h.price \in Prices
      BY <3>2, IdleTyped DEF Idle, Handler, Steps
    <3> HIDE DEF h
    <3>4. Go(p, h)
      BY <3>1 DEF h
    <3> QED BY <2>1, <3>3, <3>4, ReadStep DEF StartCheck
  <2>2. CASE StartFind(p)
    <3>1. CASE Return(p)
      BY <2>2, <3>1, ReturnStep DEF StartFind
    <3>2. CASE Go(p, [handler[p] EXCEPT !.at = "startCommit"])
      <4> DEFINE h == [handler[p] EXCEPT !.at = "startCommit"]
      <4>1. h \in Handler /\ h.at = "startCommit" /\ h.price = handler[p].price
        BY DEF GameInv, TypeOK, Handler, Steps
      <4>2. h.price \in Prices
        BY <2>2, <4>1 DEF StartFind, GameInv, Tracked, StartingTracked
      <4> HIDE DEF h
      <4>3. Go(p, h)
        BY <3>2 DEF h
      <4> QED BY <2>2, <4>1, <4>2, <4>3, ReadStep DEF StartFind
    <3> QED BY <2>2, <3>1, <3>2 DEF StartFind
  <2> QED BY <1>2, <2>1, <2>2, StartCommitStep DEF StartNext
<1>3. ASSUME NEW p \in Req, EndNext(p) PROVE GameInv'
  <2>1. CASE EndRead(p)
    <3>1. PICK s \in DOMAIN sessions, i \in DOMAIN flows :
            /\ flows[i].op = "Freeze" /\ flows[i].session = s
            /\ Go(p, [Idle EXCEPT !.at = "endSpent", !.session = s, !.copy = sessions[s], !.flow = i])
      BY <2>1 DEF EndRead
    <3> DEFINE h == [Idle EXCEPT !.at = "endSpent", !.session = s, !.copy = sessions[s], !.flow = i]
    <3>2. i \in Nat /\ s \in Nat /\ sessions[s] \in Session
      BY DEF GameInv, TypeOK
    <3>3. h \in Handler /\ h.at = "endSpent" /\ h.flow = i /\ h.session = s
      BY <3>2, IdleTyped DEF Idle, Handler, Steps
    <3> HIDE DEF h
    <3>4. Go(p, h)
      BY <3>1 DEF h
    <3> QED BY <2>1, <3>1, <3>3, <3>4, ReadStep DEF EndRead
  <2>2. CASE EndSpent(p)
    <3>1. CASE Return(p)
      BY <2>2, <3>1, ReturnStep DEF EndSpent
    <3>2. CASE Go(p, [handler[p] EXCEPT !.at = "endCommit"])
      <4> DEFINE h == [handler[p] EXCEPT !.at = "endCommit"]
      <4>1. /\ h \in Handler /\ h.at = "endCommit"
            /\ h.flow = handler[p].flow /\ h.session = handler[p].session
        BY DEF GameInv, TypeOK, Handler, Steps
      <4>2. /\ h.flow \in DOMAIN flows /\ flows[h.flow].op = "Freeze"
            /\ flows[h.flow].session = h.session
        BY <2>2, <4>1 DEF EndSpent, GameInv, Tracked, EndingTracked
      <4> HIDE DEF h
      <4>3. Go(p, h)
        BY <3>2 DEF h
      <4> QED BY <2>2, <4>1, <4>2, <4>3, ReadStep DEF EndSpent
    <3> QED BY <2>2, <3>1, <3>2 DEF EndSpent
  <2> QED BY <1>3, <2>1, <2>2, EndCommitStep DEF EndNext
<1>4. ASSUME NEW p \in Req, ConfirmNext(p) PROVE GameInv'
  <2>1. CASE ConfirmRead(p)
    <3>1. PICK s \in DOMAIN sessions :
            /\ sessions[s].status = "End"
            /\ Go(p, [Idle EXCEPT !.at = "confirmSave", !.session = s, !.copy = sessions[s]])
      BY <2>1 DEF ConfirmRead
    <3> DEFINE h == [Idle EXCEPT !.at = "confirmSave", !.session = s, !.copy = sessions[s]]
    <3>2. s \in Nat /\ sessions[s] \in Session
      BY DEF GameInv, TypeOK
    <3>3. h \in Handler /\ h.at = "confirmSave" /\ h.session = s /\ h.copy = sessions[s]
      BY <3>2, IdleTyped DEF Idle, Handler, Steps
    <3>4. \E j \in Spends : flows[j].session = s /\ flows[j].amount = sessions[s].spend
      BY <3>1 DEF GameInv, EndedSessionWasCharged
    <3> HIDE DEF h
    <3>5. Go(p, h)
      BY <3>1 DEF h
    <3> QED BY <2>1, <3>3, <3>4, <3>5, ReadStep DEF ConfirmRead
  <2> QED BY <1>4, <2>1, ConfirmStep DEF ConfirmNext
<1>5. ASSUME NEW p \in Req, Abandon(p) PROVE GameInv'
  BY <1>5, ReturnStep DEF Abandon
<1>6. CASE \/ \E a \in Deposits : Recharge(a) \/ Withdraw(a)
           \/ \E status \in GameStatuses : SetGameStatus(status)
           \/ UNCHANGED vars
  <2>1. UNCHANGED <<sessions, flows, handler, spent>>
    BY <1>6 DEF Recharge, Withdraw, SetGameStatus, vars
  <2> QED BY <1>6, <2>1, AroundStep
<1> QED BY <1>1, <1>2, <1>3, <1>4, <1>5, <1>6 DEF Next

\* Reachable states satisfy the inductive invariant.
THEOREM GameInvariant == Spec => []GameInv
BY GameInit, GameStep, PTL DEF Spec

\* No money is made or lost by playing (GameStartHandler, GameEndHandler).
THEOREM MoneyConserved == Spec => []Conserved
<1>1. GameInv => Conserved
  BY DEF GameInv
<1> QED BY <1>1, GameInvariant, PTL

\* A freeze is charged once, in full, for its own session: the pending status
\* is read again under the lock of GameEndHandler's transaction.
THEOREM FreezeChargedOnce == Spec => []ChargedOnce
<1>1. GameInv => ChargedOnce
  BY DEF GameInv
<1> QED BY <1>1, GameInvariant, PTL

\* A session that is over was paid for and says what it cost, although
\* GameEndHandler and ConfirmGameSession save copies of its row.
THEOREM EndedSessionsCharged == Spec => []EndedSessionWasCharged
<1>1. GameInv => EndedSessionWasCharged
  BY DEF GameInv
<1> QED BY <1>1, GameInvariant, PTL

-----------------------------------------------------------------------------
(* What is frozen, summed.  The invariant speaks of one row at a time; only  *)
(* here are the amounts of the pending freezes added up.                     *)

Amounts(rows) == [i \in DOMAIN rows |-> rows[i].amount]
FrozenSum == account.frozen = SumOf(Amounts(flows), Pending)
FrozenInv == GameInv /\ FrozenSum

LEMMA FlowRows ==
    ASSUME NEW rows \in Seq(Flow)
    PROVE  IsFiniteSet(DOMAIN rows) /\ \A i \in DOMAIN rows : rows[i].amount \in Nat
<1>1. DOMAIN rows = 1..Len(rows) /\ Len(rows) \in Nat
  OBVIOUS
<1>2. IsFiniteSet(DOMAIN rows)
  BY <1>1, FS_Interval
<1>3. \A i \in DOMAIN rows : rows[i] \in Flow
  OBVIOUS
<1>4. \A i \in DOMAIN rows : rows[i].amount \in Nat
  BY <1>3, GameAssumption DEF Flow
<1> QED BY <1>2, <1>4

LEMMA PendingRows ==
    ASSUME flows \in Seq(Flow)
    PROVE  IsFiniteSet(Pending) /\ Pending \subseteq DOMAIN flows
<1>1. Pending \subseteq DOMAIN flows
  BY DEF Pending
<1> QED BY <1>1, FlowRows, FS_Subset

LEMMA PendingSum ==
    ASSUME FrozenInv
    PROVE  FrozenMatchesFlows
<1>1. flows \in Seq(Flow)
  BY DEF FrozenInv, GameInv, TypeOK
<1>2. IsFiniteSet(Pending) /\ \A i \in Pending : Amounts(flows)[i] = flows[i].amount
  BY <1>1, PendingRows DEF Amounts
<1>3. MapThenSumSet(LAMBDA i : flows[i].amount, Pending) = SumOf(Amounts(flows), Pending)
  BY <1>2, AmountsSum
<1> QED BY <1>3 DEF FrozenMatchesFlows, FrozenInv, FrozenSum

\* Rows that keep their amounts keep their sum.
LEMMA AmountsKept ==
    ASSUME NEW rows, NEW later, NEW S, IsFiniteSet(S), S \subseteq DOMAIN rows,
           S \subseteq DOMAIN later, \A j \in S : later[j].amount = rows[j].amount
    PROVE  SumOf(Amounts(later), S) = SumOf(Amounts(rows), S)
<1>1. \A j \in S : Amounts(later)[j] = Amounts(rows)[j]
  BY DEF Amounts
<1> QED BY <1>1, SumOfAgree

LEMMA FrozenInit == Init => FrozenInv
<1> SUFFICES ASSUME Init PROVE FrozenInv
  OBVIOUS
<1>1. GameInv
  BY GameInit
<1>2. Pending = {} /\ account.frozen = 0
  BY DEF Init, Pending
<1>3. SumOf(Amounts(flows), Pending) = 0
  BY <1>2, SumOfEmpty
<1> QED BY <1>1, <1>2, <1>3 DEF FrozenInv, FrozenSum

\* GameStartHandler freezes the price of the row it adds.
LEMMA FreezeStep ==
    ASSUME FrozenInv, GameInv', NEW p \in Req, StartCommit(p)
    PROVE  FrozenSum'
<1> DEFINE price == handler[p].price
           f == [op |-> "Freeze", status |-> "Pending", session |-> handler[p].session,
                 ref |-> 0, amount |-> price]
<1>1. CASE UNCHANGED <<account, flows>>
  BY <1>1 DEF FrozenInv, FrozenSum, Pending
<1>2. CASE flows' = Append(flows, f) /\ Freeze(price)
  <2>1. price \in Prices /\ price \in Nat /\ handler[p].session \in Nat
    BY GameAssumption DEF FrozenInv, StartCommit, GameInv, Tracked, StartingTracked, TypeOK, Handler
  <2>2. f \in Flow /\ flows \in Seq(Flow) /\ flows' \in Seq(Flow)
    BY <2>1 DEF FrozenInv, GameInv, TypeOK, Flow
  <2>3. PICK n \in Nat : n = Len(flows) + 1
    BY <2>2
  <2>4. /\ DOMAIN flows' = DOMAIN flows \cup {n} /\ n \notin DOMAIN flows
        /\ flows'[n] = f /\ \A j \in DOMAIN flows : flows'[j] = flows[j]
    BY <1>2, <2>2, <2>3, AppendRow
  <2>5. Pending' = Pending \cup {n} /\ n \notin Pending
    BY <2>4 DEF Pending
  <2>6. flows'[n].amount = price
    BY <2>4
  <2> HIDE DEF f
  <2>7. /\ IsFiniteSet(Pending) /\ Pending \subseteq DOMAIN flows
        /\ \A i \in DOMAIN flows' : flows'[i].amount \in Nat
    BY <2>2, PendingRows, FlowRows
  <2> DEFINE G == Amounts(flows')
  <2>8. G[n] = price /\ \A i \in Pending \cup {n} : G[i] \in Int
    BY <2>4, <2>6, <2>7 DEF Amounts
  <2>9. SumOf(G, Pending) = SumOf(Amounts(flows), Pending)
    BY <2>4, <2>7, AmountsKept
  <2> HIDE DEF G
  <2>10. SumOf(G, Pending \cup {n}) = G[n] + SumOf(G, Pending)
    BY <2>5, <2>7, <2>8, SumOfAdd
  <2>11. account.frozen = SumOf(Amounts(flows), Pending) /\ account.frozen \in Nat
    BY DEF FrozenInv, FrozenSum, GameInv, TypeOK
  <2>12. account'.frozen = account.frozen + price
    BY <1>2 DEF Freeze
  <2>13. account'.frozen = SumOf(Amounts(flows'), Pending')
    BY <2>1, <2>5, <2>8, <2>9, <2>10, <2>11, <2>12 DEF G
  <2> QED BY <2>13 DEF FrozenSum
<1> QED BY <1>1, <1>2 DEF StartCommit

\* GameEndHandler takes the amount of the row it closes.
LEMMA UnfreezeStep ==
    ASSUME FrozenInv, GameInv', NEW p \in Req, EndCommit(p)
    PROVE  FrozenSum'
<1>1. CASE UNCHANGED <<account, sessions, flows, spent>>
  BY <1>1 DEF FrozenInv, FrozenSum, Pending
<1>2. ASSUME NEW i, i = handler[p].flow, Chargeable(i), Unfreeze(flows[i].amount),
             flows' = Append(CloseFreeze(i), [op |-> "Spend", status |-> "Done",
                  session |-> handler[p].session, ref |-> i, amount |-> flows[i].amount])
      PROVE  FrozenSum'
  <2>1. PICK n \in Nat : Charged(i, n)
    BY <1>2, EndCommitRows DEF FrozenInv
  <2>2. /\ Pending' = Pending \ {i} /\ i \in Pending /\ DOMAIN flows \subseteq DOMAIN flows'
        /\ \A j \in DOMAIN flows : flows'[j].amount = flows[j].amount
    BY <2>1, ChargedRows DEF FrozenInv
  <2>3. flows \in Seq(Flow) /\ flows' \in Seq(Flow)
    BY DEF FrozenInv, GameInv, TypeOK
  <2>4. /\ IsFiniteSet(Pending) /\ Pending \subseteq DOMAIN flows
        /\ \A j \in DOMAIN flows : flows[j].amount \in Nat
    BY <2>3, PendingRows, FlowRows
  <2> DEFINE F == Amounts(flows)
  <2>5. F[i] = flows[i].amount /\ \A j \in Pending : F[j] \in Int
    BY <2>2, <2>4 DEF Amounts
  <2>6. IsFiniteSet(Pending \ {i}) /\ Pending \ {i} \subseteq DOMAIN flows
    BY <2>4, FS_Subset
  <2>7. SumOf(Amounts(flows'), Pending \ {i}) = SumOf(F, Pending \ {i})
    BY <2>2, <2>6, AmountsKept
  <2>8. account.frozen = SumOf(F, Pending) /\ account.frozen \in Nat
    BY DEF FrozenInv, FrozenSum, GameInv, TypeOK
  <2> HIDE DEF F
  <2>9. SumOf(F, Pending) = F[i] + SumOf(F, Pending \ {i})
    BY <2>2, <2>4, <2>5, SumOfRemove
  <2>10. SumOf(F, Pending \ {i}) \in Int /\ F[i] \in Int
    BY <2>2, <2>5, <2>6, SumOfInt
  <2>11. account'.frozen = account.frozen - flows[i].amount
    BY <1>2 DEF Unfreeze, FrozenInv, GameInv, TypeOK
  <2>12. account'.frozen = SumOf(Amounts(flows'), Pending')
    BY <2>2, <2>5, <2>7, <2>8, <2>9, <2>10, <2>11
  <2> QED BY <2>12 DEF FrozenSum
<1> QED BY <1>1, <1>2 DEF EndCommit

LEMMA FrozenStep == FrozenInv /\ [Next]_vars => FrozenInv'
<1> SUFFICES ASSUME FrozenInv, [Next]_vars PROVE FrozenInv'
  OBVIOUS
<1>1. GameInv'
  BY GameStep DEF FrozenInv
<1>2. CASE UNCHANGED flows /\ account'.frozen = account.frozen
  BY <1>1, <1>2 DEF FrozenInv, FrozenSum, Pending
<1>3. CASE \E p \in Req : StartCommit(p)
  BY <1>1, <1>3, FreezeStep DEF FrozenInv
<1>4. CASE \E p \in Req : EndCommit(p)
  BY <1>1, <1>4, UnfreezeStep DEF FrozenInv
<1>5. CASE \E a \in Deposits : Recharge(a) \/ Withdraw(a)
  <2>1. UNCHANGED flows /\ account'.frozen = account.frozen
    BY <1>5 DEF Recharge, Withdraw, FrozenInv, GameInv, TypeOK
  <2> QED BY <1>2, <2>1
<1>6. UNCHANGED <<account, flows>> \/ (\E p \in Req : StartCommit(p) \/ EndCommit(p))
      \/ \E a \in Deposits : Recharge(a) \/ Withdraw(a)
  BY DEF Next, vars, InitNext, StartNext, EndNext, ConfirmNext, InitRead, InitCreate, StartCheck,
         StartFind, EndRead, EndSpent, ConfirmRead, ConfirmSave, Abandon, SetGameStatus
<1> QED BY <1>2, <1>3, <1>4, <1>5, <1>6

\* The variables keep their types, and the balances never go below zero: a start
\* takes what is available and an end what is frozen, under the row's lock.
THEOREM GameTyped == Spec => []TypeOK
<1>1. GameInv => TypeOK
  BY DEF GameInv
<1> QED BY <1>1, GameInvariant, PTL

\* What is frozen on the account is the sum of the freezes that are pending: no
\* retry or overlap of GameStartHandler and GameEndHandler leaves money frozen
\* that no row can give back.
THEOREM FrozenIsPending == Spec => []FrozenMatchesFlows
<1>1. FrozenInv => FrozenMatchesFlows
  BY PendingSum
<1> QED BY <1>1, FrozenInit, FrozenStep, PTL DEF Spec

-----------------------------------------------------------------------------
LEMMA EscrowInitially == Init => Book!EscrowInit
BY DEF Init, Book!EscrowInit, Pending, Spends

LEMMA EscrowStutters ==
    ASSUME UNCHANGED <<account, flows>>
    PROVE  UNCHANGED (Book!escrowVars)
BY DEF Book!escrowVars, Pending, Spends

LEMMA PlaceStep ==
    ASSUME GameInv, NEW p \in Req, StartCommit(p)
    PROVE  [Book!EscrowNext]_(Book!escrowVars)
<1> DEFINE price == handler[p].price
           f == [op |-> "Freeze", status |-> "Pending", session |-> handler[p].session,
                 ref |-> 0, amount |-> price]
<1>1. CASE UNCHANGED <<account, flows>>
  BY <1>1, EscrowStutters
<1>2. CASE Affordable(price) /\ flows' = Append(flows, f) /\ Freeze(price)
  <2>1. price \in Prices /\ price \in Nat /\ handler[p].session \in Nat
    BY GameAssumption DEF StartCommit, GameInv, Tracked, StartingTracked, TypeOK, Handler
  <2>2. f \in Flow /\ flows \in Seq(Flow)
    BY <2>1 DEF GameInv, TypeOK, Flow
  <2>3. PICK n \in Nat : n = Len(flows) + 1
    BY <2>2
  <2>4. /\ DOMAIN flows' = DOMAIN flows \cup {n} /\ n \notin DOMAIN flows
        /\ flows'[n] = f /\ \A j \in DOMAIN flows : flows'[j] = flows[j]
    BY <1>2, <2>2, <2>3, AppendRow
  <2>5. Spends' = Spends /\ Pending' = Pending \cup {n}
    BY <2>4 DEF Spends, Pending
  <2>6. PICK a \in Prices : a = price
    BY <2>1
  <2> DEFINE held == {[id |-> i, amount |-> flows[i].amount] : i \in Pending}
             charged == {[id |-> flows[j].ref, amount |-> flows[j].amount] : j \in Spends}
             hold == [id |-> n, amount |-> a]
  <2>7. held' = held \cup {hold}
    <3>1. \A i \in Pending : flows'[i] = flows[i]
      BY <2>4 DEF Pending
    <3>2. flows'[n].amount = a
      BY <2>4, <2>6
    <3> QED BY <2>5, <3>1, <3>2
  <2>8. charged' = charged
    <3>1. \A j \in Spends : flows'[j] = flows[j]
      BY <2>4 DEF Spends
    <3> QED BY <2>5, <3>1
  <2>9. \A x \in held \cup charged : x.id # hold.id
    <3>1. \A i \in Pending : i # n
      BY <2>4 DEF Pending
    <3>2. \A j \in Spends : flows[j].ref # n
      BY <2>4 DEF GameInv, ChargedOnce
    <3> QED BY <3>1, <3>2
  <2>10. hold.amount <= account.available /\ account'.available = account.available - hold.amount
    <3>1. a <= account.available
      BY <1>2, <2>1, <2>6 DEF Affordable, GameInv, TypeOK, Init
    <3> QED BY <1>2, <2>6, <3>1 DEF Freeze
  <2>11. hold \in Book!Hold /\ hold \in held'
    BY <2>7 DEF Book!Hold
  <2> HIDE DEF hold
  <2>12. Book!Place(hold)
    BY <2>7, <2>8, <2>9, <2>10 DEF Book!Place
  <2> QED BY <2>11, <2>12 DEF Book!EscrowNext
<1> QED BY <1>1, <1>2 DEF StartCommit

LEMMA ChargeStep ==
    ASSUME GameInv, NEW p \in Req, EndCommit(p)
    PROVE  [Book!EscrowNext]_(Book!escrowVars)
<1>1. CASE UNCHANGED <<account, sessions, flows, spent>>
  BY <1>1, EscrowStutters
<1>2. ASSUME NEW i, i = handler[p].flow, Chargeable(i), Unfreeze(flows[i].amount),
             flows' = Append(CloseFreeze(i), [op |-> "Spend", status |-> "Done",
                  session |-> handler[p].session, ref |-> i, amount |-> flows[i].amount])
      PROVE  Book!EscrowNext
  <2>1. PICK n \in Nat : Charged(i, n)
    BY <1>2, EndCommitRows
  <2>2. /\ Spends' = Spends \cup {n} /\ Pending' = Pending \ {i} /\ i \in Pending
        /\ n \notin DOMAIN flows
        /\ \A j \in DOMAIN flows : flows'[j].amount = flows[j].amount /\ flows'[j].ref = flows[j].ref
    BY <2>1, ChargedRows
  <2>3. PICK a : a = flows[i].amount
    OBVIOUS
  <2>4. flows'[n].ref = i /\ flows'[n].amount = a
    BY <2>1, <2>3 DEF Charged
  <2> DEFINE held == {[id |-> j, amount |-> flows[j].amount] : j \in Pending}
             charged == {[id |-> flows[j].ref, amount |-> flows[j].amount] : j \in Spends}
             hold == [id |-> i, amount |-> a]
  <2>5. hold \in held
    BY <2>2, <2>3
  <2>6. held' = held \ {hold}
    <3>1. held' = {[id |-> j, amount |-> flows[j].amount] : j \in Pending \ {i}}
      <4>1. \A j \in Pending \ {i} : flows'[j].amount = flows[j].amount
        BY <2>2 DEF Pending
      <4> QED BY <2>2, <4>1
    <3> QED BY <3>1, <2>3
  <2>7. charged' = charged \cup {hold}
    <3>1. \A j \in Spends : flows'[j].ref = flows[j].ref /\ flows'[j].amount = flows[j].amount
      BY <2>2 DEF Spends
    <3> QED BY <2>2, <2>4, <3>1
  <2>8. account'.available = account.available
    BY <1>2 DEF Unfreeze, GameInv, TypeOK
  <2> HIDE DEF hold
  <2>9. Book!Charge(hold)
    BY <2>5, <2>6, <2>7, <2>8 DEF Book!Charge
  <2> QED BY <2>5, <2>9 DEF Book!EscrowNext
<1> QED BY <1>1, <1>2 DEF EndCommit

LEMMA MoveStep ==
    ASSUME GameInv', UNCHANGED flows
    PROVE  [Book!EscrowNext]_(Book!escrowVars)
<1>1. account'.available \in Nat
  BY DEF GameInv, TypeOK
<1>2. UNCHANGED <<Pending, Spends>>
  BY DEF Pending, Spends
<1> QED BY <1>1, <1>2 DEF Book!EscrowNext, Book!Move

LEMMA EscrowStep == GameInv /\ GameInv' /\ [Next]_vars => [Book!EscrowNext]_(Book!escrowVars)
<1> SUFFICES ASSUME GameInv, GameInv', [Next]_vars PROVE [Book!EscrowNext]_(Book!escrowVars)
  OBVIOUS
<1>1. CASE UNCHANGED flows
  BY <1>1, MoveStep
<1>2. CASE \E p \in Req : StartCommit(p)
  BY <1>2, PlaceStep
<1>3. CASE \E p \in Req : EndCommit(p)
  BY <1>3, ChargeStep
<1>4. flows' # flows => (\E p \in Req : StartCommit(p)) \/ (\E p \in Req : EndCommit(p))
  BY DEF Next, vars, InitNext, StartNext, EndNext, ConfirmNext, InitRead, InitCreate, StartCheck,
         StartFind, EndRead, EndSpent, ConfirmRead, ConfirmSave, Abandon, Recharge, Withdraw,
         SetGameStatus
<1> QED BY <1>1, <1>2, <1>3, <1>4

\* Playing implements the escrow: money leaves the account only through a hold
\* that was covered, and a hold is charged at most once.
THEOREM GameImplementsEscrow == Spec => ImplementsEscrow
<1>1. Spec => [][Book!EscrowNext]_(Book!escrowVars)
  BY GameInvariant, EscrowStep, PTL DEF Spec
<1> QED BY <1>1, EscrowInitially, PTL DEF Spec, ImplementsEscrow, Book!EscrowSpec
=============================================================================
