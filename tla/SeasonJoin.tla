----------------------------- MODULE SeasonJoin -----------------------------
(***************************************************************************)
(* JoinSeason (controller/auth/user.go): a player joins a season that may  *)
(* limit the number of its players.  The count, the test that the player   *)
(* has not joined, and the insert are statements of their own; a key in    *)
(* userSeasonLock is to keep others out meanwhile.                         *)
(*                                                                         *)
(* The deferred Delete of the key is registered before the request knows   *)
(* whether it stored the key itself, so a request that is refused takes    *)
(* the key of the one in progress away.  Seasons are written by operators  *)
(* only; a request for a season that is not active does nothing.           *)
(***************************************************************************)
EXTENDS Naturals, Sequences, FiniteSets

CONSTANTS
    Users,
    Seasons,
    Limit,      \* per season, limit_user_count; 0 is no limit
    Req,        \* the HTTP handlers running at the same time
    MaxRows,    \* bound: rows of season_user
    Nothing     \* what an idle handler holds; a key that names no user

ASSUME SeasonAssumption ==
    /\ Limit \in [Seasons -> Nat] /\ MaxRows \in Nat
    /\ Nothing \notin Users \cup Seasons

VARIABLES
    joined,    \* season_user: rows <<season, user>>
    guard,     \* the keys in userSeasonLock
    req,       \* the handlers in progress
    lost       \* history: keys that were deleted while a request relied on them

vars == <<joined, guard, req, lost>>

Idle == [pc |-> "idle", season |-> Nothing, user |-> Nothing]
Handler == [pc : {"count", "exist", "save", "leave", "refused"}, season : Seasons, user : Users] \cup {Idle}

Goto(r, pc) == req' = [req EXCEPT ![r].pc = pc]

\* Mutant: every player has a key of his own.
Key_OfUser(s, u) == <<s, u>>

\* A limited season is joined by one player at a time, another by each player once
\* at a time.
Key(s, u) == IF Limit[s] = 0 THEN <<s, u>> ELSE <<s, Nothing>>

KeyOf(r) == Key(req[r].season, req[r].user)

\* Mutant: what LoadOrStore found is not looked at.
AfterEnter_NoGuard(s, k) == IF Limit[s] = 0 THEN "exist" ELSE "count"

\* LoadOrStore: who finds the key is refused.
AfterEnter(s, k) == IF k \in guard THEN "refused" ELSE IF Limit[s] = 0 THEN "exist" ELSE "count"

JoinEnter(r, s, u) ==
    /\ req[r] = Idle
    /\ guard' = guard \cup {Key(s, u)}
    /\ req' = [req EXCEPT ![r] = [pc |-> AfterEnter(s, Key(s, u)), season |-> s, user |-> u]]
    /\ UNCHANGED <<joined, lost>>

Joined(s) == {i \in DOMAIN joined : joined[i][1] = s}

JoinCount(r) ==
    LET s == req[r].season IN
    /\ req[r].pc = "count"
    /\ Goto(r, IF Cardinality(Joined(s)) >= Limit[s] THEN "leave" ELSE "exist")
    /\ UNCHANGED <<joined, guard, lost>>

JoinExist(r) ==
    LET row == <<req[r].season, req[r].user>> IN
    /\ req[r].pc = "exist"
    /\ Goto(r, IF \E i \in DOMAIN joined : joined[i] = row THEN "leave" ELSE "save")
    /\ UNCHANGED <<joined, guard, lost>>

\* The insert, or its failure.
JoinSave(r) ==
    /\ req[r].pc = "save"
    /\ \/ Len(joined) < MaxRows /\ joined' = Append(joined, <<req[r].season, req[r].user>>)
       \/ UNCHANGED joined
    /\ Goto(r, "leave")
    /\ UNCHANGED <<guard, lost>>

\* The requests that went on because they had stored the key.
Inside(k) == {r \in Req : req[r].pc \in {"count", "exist", "save", "leave"} /\ KeyOf(r) = k}

\* Any query may fail.
JoinFail(r) ==
    /\ req[r].pc \in {"count", "exist"}
    /\ Goto(r, "leave")
    /\ UNCHANGED <<joined, guard, lost>>

\* The deferred Delete.
JoinLeave(r) ==
    /\ req[r].pc \in {"leave", "refused"}
    /\ guard' = guard \ {KeyOf(r)}
    /\ lost' = IF Inside(KeyOf(r)) \ {r} # {} THEN lost \cup {KeyOf(r)} ELSE lost
    /\ req' = [req EXCEPT ![r] = Idle]
    /\ UNCHANGED joined

-----------------------------------------------------------------------------
Init ==
    /\ joined = <<>> /\ guard = {} /\ lost = {}
    /\ req = [r \in Req |-> Idle]

Next ==
    \E r \in Req :
        \/ \E s \in Seasons, u \in Users : JoinEnter(r, s, u)
        \/ JoinCount(r) \/ JoinExist(r) \/ JoinSave(r) \/ JoinFail(r) \/ JoinLeave(r)

Spec == Init /\ [][Next]_vars

-----------------------------------------------------------------------------
TypeOK ==
    /\ joined \in Seq(Seasons \X Users)
    /\ req \in [Req -> Handler]
    /\ guard \subseteq Seasons \X (Users \cup {Nothing})
    /\ lost \subseteq Seasons \X (Users \cup {Nothing})

\* A season has more players than its limit only if a request that was refused took
\* the key of the season away from one that was counting or inserting.
LimitHeld ==
    \A s \in Seasons :
        Limit[s] # 0 /\ <<s, Nothing>> \notin lost => Cardinality(Joined(s)) <= Limit[s]

\* A player joins a season once, unless his key was taken away.
JoinsOnce ==
    \A i, j \in DOMAIN joined :
        joined[i] = joined[j] /\ Key(joined[i][1], joined[i][2]) \notin lost => i = j
=============================================================================
