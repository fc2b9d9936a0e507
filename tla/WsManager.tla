----------------------------- MODULE WsManager -----------------------------
(***************************************************************************)
(* wsm/handler.go: the manager of websocket connections, and api/ws: the   *)
(* chat handler that adds a connection and removes it when it ends.        *)
(*                                                                         *)
(* sync.RWMutex: a writer waits until no reader is left, and nobody begins *)
(* to read while a writer waits.  What is done under the lock without      *)
(* waiting for anything is one step with taking it.  The goroutine Chat    *)
(* starts to watch c.Done() never wakes: the Done of a gin context is nil  *)
(* here.                                                                   *)
(***************************************************************************)
EXTENDS Naturals, FiniteSets

CONSTANTS
    Conns,      \* connections; each is served by one call of Chat
    Keys,       \* chain-ca
    Callers,    \* goroutines that call Broadcast, SendToClient, BroadcastToAll
    MaxChatCalls    \* bound: broadcasts

ASSUME WsAssumption == MaxChatCalls \in Nat

VARIABLES
    clients,   \* wm.clients: connection -> key
    manset,    \* wm.manset: the pairs <<key, connection>>
    chat,      \* per connection, where Chat is
    gone,      \* connections whose peer is gone, or that were closed: writes fail
    caller,    \* per caller, where it is and the connections it still has to serve
    readers,   \* the callers that hold the read lock
    waiting,   \* those that wait for the write lock
    chatCalls,
    dropped    \* history: connections that BroadcastToAll took out of clients

wsVars == <<clients, manset, chat, gone, caller, readers, waiting, chatCalls, dropped>>
lock == <<readers, waiting>>

Idle == [pc |-> "idle", todo |-> {}, failed |-> {}]

CanRead == waiting = {}
CanWrite == readers = {}

-----------------------------------------------------------------------------
(* Chat *)

\* The connection is upgraded; AddClient asks for the lock.
ChatOpen(ws) ==
    /\ chat[ws] = "new" /\ chat' = [chat EXCEPT ![ws] = "adding"]
    /\ waiting' = waiting \cup {ws}
    /\ UNCHANGED <<clients, manset, gone, caller, readers, chatCalls, dropped>>

AddClient(ws) ==
    /\ chat[ws] = "adding" /\ CanWrite
    /\ \E k \in Keys :
         /\ manset' = manset \cup {<<k, ws>>}
         /\ clients' = [c \in DOMAIN clients \cup {ws} |-> IF c = ws THEN k ELSE clients[c]]
    /\ chat' = [chat EXCEPT ![ws] = "reading"] /\ waiting' = waiting \ {ws}
    /\ UNCHANGED <<gone, caller, readers, chatCalls, dropped>>

Disconnect(ws) ==
    /\ chat[ws] = "reading" /\ ws \notin gone /\ gone' = gone \cup {ws}
    /\ UNCHANGED <<clients, manset, chat, caller, lock, chatCalls, dropped>>

\* Mutant: the handler returns without the deferred RemoveClient.
ChatEnd_Forgets(ws) ==
    /\ chat[ws] = "reading"
    /\ chat' = [chat EXCEPT ![ws] = "closed"] /\ gone' = gone \cup {ws}
    /\ UNCHANGED <<clients, manset, caller, lock, chatCalls, dropped>>

\* A read or a write fails, or the answer to a request panics on its nil error:
\* the deferred RemoveClient asks for the lock.
ChatEnd(ws) ==
    /\ chat[ws] = "reading"
    /\ chat' = [chat EXCEPT ![ws] = "leaving"] /\ waiting' = waiting \cup {ws}
    /\ UNCHANGED <<clients, manset, gone, caller, readers, chatCalls, dropped>>

\* Mutant: the connection stays in the set of its key.
Removed_ClientsOnly(ws) ==
    [clients |-> [c \in DOMAIN clients \ {ws} |-> clients[c]], manset |-> manset]

\* RemoveClient: a connection that is not in clients is left alone in manset too.
Removed(ws) ==
    [clients |-> [c \in DOMAIN clients \ {ws} |-> clients[c]],
     manset  |-> IF ws \in DOMAIN clients THEN manset \ {<<clients[ws], ws>>} ELSE manset]

ChatLeave(ws) ==
    /\ chat[ws] = "leaving" /\ CanWrite
    /\ clients' = Removed(ws).clients /\ manset' = Removed(ws).manset
    /\ chat' = [chat EXCEPT ![ws] = "closed"] /\ gone' = gone \cup {ws}
    /\ waiting' = waiting \ {ws}
    /\ UNCHANGED <<caller, readers, chatCalls, dropped>>

-----------------------------------------------------------------------------
(* Broadcast keeps the read lock to its end. *)

Call(t) == caller[t].pc = "idle" /\ chatCalls < MaxChatCalls /\ chatCalls' = chatCalls + 1

BroadcastEnter(t, k) ==
    /\ Call(t) /\ CanRead
    /\ caller' = [caller EXCEPT ![t] = [Idle EXCEPT !.pc = "cast", !.todo = {p[2] : p \in {q \in manset : q[1] = k}}]]
    /\ readers' = readers \cup {t}
    /\ UNCHANGED <<clients, manset, chat, gone, waiting, dropped>>

\* A message that cannot be written closes the connection and chatCalls RemoveClient,
\* which asks for the write lock.
BroadcastWrite(t, ws) ==
    /\ caller[t].pc = "cast" /\ ws \in caller[t].todo
    /\ IF ws \in gone
       THEN caller' = [caller EXCEPT ![t].todo = @ \ {ws}, ![t].pc = "remove"] /\ waiting' = waiting \cup {t}
       ELSE caller' = [caller EXCEPT ![t].todo = @ \ {ws}] /\ UNCHANGED waiting
    /\ UNCHANGED <<clients, manset, chat, gone, readers, chatCalls, dropped>>

\* There is no step from "remove": the caller waits for its own read lock.

BroadcastReturn(t) ==
    /\ caller[t].pc = "cast" /\ caller[t].todo = {}
    /\ caller' = [caller EXCEPT ![t] = Idle] /\ readers' = readers \ {t}
    /\ UNCHANGED <<clients, manset, chat, gone, waiting, chatCalls, dropped>>

-----------------------------------------------------------------------------
(* BroadcastToAll copies the connections under the read lock, writes without *)
(* a lock and takes the failed ones out of clients under the write lock.     *)
(* SendToClient and Stat only read.                                          *)

ToAllEnter(t) ==
    /\ Call(t) /\ CanRead
    /\ caller' = [caller EXCEPT ![t] = [Idle EXCEPT !.pc = "all", !.todo = DOMAIN clients]]
    /\ UNCHANGED <<clients, manset, chat, gone, lock, dropped>>

ToAllWrite(t, ws) ==
    /\ caller[t].pc = "all" /\ ws \in caller[t].todo
    /\ caller' = [caller EXCEPT ![t].todo = @ \ {ws},
                                ![t].failed = IF ws \in gone THEN @ \cup {ws} ELSE @]
    /\ UNCHANGED <<clients, manset, chat, gone, lock, chatCalls, dropped>>

ToAllReturn(t) ==
    /\ caller[t].pc = "all" /\ caller[t].todo = {}
    /\ IF caller[t].failed = {}
       THEN caller' = [caller EXCEPT ![t] = Idle] /\ UNCHANGED waiting
       ELSE caller' = [caller EXCEPT ![t].pc = "drop"] /\ waiting' = waiting \cup {t}
    /\ UNCHANGED <<clients, manset, chat, gone, readers, chatCalls, dropped>>

ToAllDrop(t) ==
    /\ caller[t].pc = "drop" /\ CanWrite
    /\ clients' = [c \in DOMAIN clients \ caller[t].failed |-> clients[c]]
    /\ dropped' = dropped \cup caller[t].failed
    /\ caller' = [caller EXCEPT ![t] = Idle] /\ waiting' = waiting \ {t}
    /\ UNCHANGED <<manset, chat, gone, readers, chatCalls>>

-----------------------------------------------------------------------------
WsInit ==
    /\ clients = [c \in {} |-> c] /\ manset = {}
    /\ chat = [ws \in Conns |-> "new"] /\ gone = {}
    /\ caller = [t \in Callers |-> Idle]
    /\ readers = {} /\ waiting = {} /\ chatCalls = 0 /\ dropped = {}

ChatStep(ws) == AddClient(ws) \/ ChatLeave(ws) \/ (ws \in gone /\ ChatEnd(ws))

CallerStep(t) ==
    \/ \E ws \in caller[t].todo : BroadcastWrite(t, ws) \/ ToAllWrite(t, ws)
    \/ BroadcastReturn(t) \/ ToAllReturn(t) \/ ToAllDrop(t)

WsNext ==
    \/ \E ws \in Conns : ChatOpen(ws) \/ ChatStep(ws) \/ Disconnect(ws) \/ ChatEnd(ws)
    \/ \E t \in Callers : CallerStep(t) \/ ToAllEnter(t) \/ \E k \in Keys : BroadcastEnter(t, k)

WsSpec == WsInit /\ [][WsNext]_wsVars

\* Goroutines go on where they are not blocked; the handler of a connection whose
\* peer is gone sees an error.
WsFairSpec ==
    /\ WsSpec
    /\ \A ws \in Conns : WF_wsVars(ChatStep(ws))
    /\ \A t \in Callers : WF_wsVars(CallerStep(t))

-----------------------------------------------------------------------------
\* The two maps agree: a client is listed under its key and nowhere else, and what
\* is listed is a client, unless BroadcastToAll took it out of the one map only.
MapsAgree ==
    /\ \A ws \in DOMAIN clients : {p \in manset : p[2] = ws} = {<<clients[ws], ws>>}
    /\ \A p \in manset : p[2] \in DOMAIN clients \/ p[2] \in dropped

\* A Broadcast that could not write to a connection waits for the lock it holds.
Jammed == \E t \in Callers : caller[t].pc = "remove"

\* Once its peer is gone, a connection is taken out of the manager, however many
\* broadcasts are under way, unless one of them has jammed the lock.
GoneIsRemoved ==
    \A ws \in Conns : (ws \in gone) ~> (ws \notin DOMAIN clients \/ Jammed)
=============================================================================
