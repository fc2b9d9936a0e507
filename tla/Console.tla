------------------------------ MODULE Console ------------------------------
(***************************************************************************)
(* The console of game developers (controller/developer/index.go) and      *)
(* their accounts (controller/preauth/developer.go).                       *)
(*                                                                         *)
(* Every operation reads rows, tests them and saves whole rows; no row is  *)
(* locked and neither addresses, nor keys, nor settings have a unique      *)
(* index.  Each statement is a step, so what a request saves may be older  *)
(* than what it overwrites.  ListGame, DetailGame and GameSessionList only *)
(* read.                                                                   *)
(***************************************************************************)
EXTENDS Integers, Sequences, FiniteSets

CONSTANTS
    Mails,        \* the developers' addresses
    Texts,        \* name, info, description, pictures: what is compared as a whole
    Codes,        \* the codes of settings
    Clients,      \* client ids
    ConReq,       \* the HTTP handlers running at the same time
    MaxDevs,      \* bound: rows of game_developer
    MaxGames,     \* bound: rows of game_info
    MaxEdited,    \* bound: the first games; only these are edited, the others get keys
    MaxSettings,  \* bound: rows of game_setting ever created
    MaxApps,      \* bound: rows of game_app
    MaxCalls,     \* bound: requests
    NoValue       \* what an idle handler holds

VARIABLES
    devs,        \* game_developer: rows [mail, status], "" unverified or "20"
    mailed,      \* the addresses a code of sort "20" was saved for
    games,       \* game_info: rows [dev, text, status]
    settings,    \* game_setting: rows by id
    drawn,       \* the last id given to a setting
    apps,        \* game_app: rows [game, client]
    conReq,      \* the handlers in progress
    calls,       \* requests so far
    unreviewed,  \* history: games changed since an operator last set them Active
    raced        \* history: games and client ids a request acted on from a stale read

tables == <<devs, mailed, games, settings, drawn, apps>>
history == <<unreviewed, raced>>
conVars == <<devs, mailed, games, settings, drawn, apps, conReq, calls, unreviewed, raced>>

Draft == "00"
Testing == "05"
Tested == "06"
PendingApprove == "07"
Active == "10"
Inactive == "20"

None == 0
NoRow == [dev |-> None, text |-> NoValue, status |-> Draft]

\* A handler: row is the game's row it read, with its changes; fresh says that
\* what it read and tested has not been written since.
NoRequest == [pc |-> "idle", kind |-> "", mail |-> NoValue, id |-> None, status |-> "",
              game |-> None, row |-> NoRow, fresh |-> TRUE, code |-> NoValue, client |-> NoValue]

FirstOf(S) == IF S = {} THEN None ELSE CHOOSE i \in S : \A j \in S : i <= j

Start(r, q) ==
    /\ conReq[r].pc = "idle" /\ conReq' = [conReq EXCEPT ![r] = q]
    /\ calls < MaxCalls /\ calls' = calls + 1

Finish(r) == conReq' = [conReq EXCEPT ![r] = NoRequest]

-----------------------------------------------------------------------------
(* Accounts *)

DevByMail(m) == FirstOf({i \in DOMAIN devs : devs[i].mail = m})

\* DeveloperLogin looks at the address and the password, never at the status,
\* and finds the first row.
LoggedIn(d) == DevByMail(devs[d].mail) = d

\* DeveloperLogin, ListGame, DetailGame and GameSessionList write nothing.
ReadOnly == UNCHANGED conVars

DeveloperRegister(r, m) ==
    /\ DevByMail(m) = None
    /\ Start(r, [NoRequest EXCEPT !.pc = "dev_create", !.mail = m])
    /\ UNCHANGED <<tables, history>>

\* The mail, then the insert: nothing is read between them.  The request ends
\* without either when the mail cannot be sent, and no error of the insert is
\* looked at.
DeveloperCreate(r) ==
    /\ conReq[r].pc = "dev_create"
    /\ \/ /\ mailed' = mailed \cup {conReq[r].mail}
          /\ IF Len(devs) < MaxDevs
             THEN devs' = Append(devs, [mail |-> conReq[r].mail, status |-> ""])
             ELSE UNCHANGED devs
       \/ UNCHANGED <<mailed, devs>>
    /\ Finish(r)
    /\ UNCHANGED <<games, settings, drawn, apps, calls, history>>

\* Mutant: the newest row of the address is verified.
Verified_Newest(m) ==
    LET S == {i \in DOMAIN devs : devs[i].mail = m}
    IN  IF S = {} THEN None ELSE CHOOSE i \in S : \A j \in S : j <= i

\* The row DeveloperVerify reads, and saves with status "20".
Verified(m) == DevByMail(m)

DeveloperVerify(r, m) ==
    /\ Verified(m) # None /\ m \in mailed
    /\ Start(r, [NoRequest EXCEPT !.pc = "dev_save", !.id = Verified(m), !.status = "20"])
    /\ UNCHANGED <<tables, history>>

UpdateProfile(r, d) ==
    /\ LoggedIn(d)
    /\ Start(r, [NoRequest EXCEPT !.pc = "dev_save", !.id = d, !.status = devs[d].status])
    /\ UNCHANGED <<tables, history>>

\* Save: every column of the row as it was read, the status among them.
DeveloperSave(r) ==
    /\ conReq[r].pc = "dev_save"
    /\ devs' = [devs EXCEPT ![conReq[r].id].status = conReq[r].status]
    /\ Finish(r)
    /\ UNCHANGED <<mailed, games, settings, drawn, apps, calls, history>>

-----------------------------------------------------------------------------
(* Games *)

\* Whoever has read game g now holds an old row.
Outdated(g) == [r \in ConReq |-> IF conReq[r].game = g /\ conReq[r].row # NoRow
                              THEN [conReq[r] EXCEPT !.fresh = FALSE] ELSE conReq[r]]

\* r read game g, passed its tests and goes on with row.
ReadGame(r, kind, pc, g, row, code) ==
    /\ Start(r, [NoRequest EXCEPT !.pc = pc, !.kind = kind, !.game = g, !.row = row, !.code = code])
    /\ UNCHANGED <<tables, history>>

\* UpdateGame without an id.
CreateGame(d, t) ==
    /\ LoggedIn(d) /\ Len(games) < MaxGames
    /\ games' = Append(games, [dev |-> d, text |-> t, status |-> Draft])
    /\ UNCHANGED <<devs, mailed, settings, drawn, apps, conReq, calls, history>>

\* Mutant: only a game that is not online yet is sent back.
ResetStatus_Pending(row, changed) ==
    IF changed /\ row.status = PendingApprove THEN Tested ELSE row.status

\* A game that is Active and whose texts change must be audited again.
ResetStatus(row, changed) == IF changed /\ row.status = Active THEN Tested ELSE row.status

UpdateGame(r, g, t) ==
    LET row == games[g] IN
    ReadGame(r, "game", "game_save", g,
             [row EXCEPT !.text = t, !.status = ResetStatus(row, t # row.text)], NoValue)

TestingStart(r, g) ==
    /\ games[g].status = Draft
    /\ ReadGame(r, "game", "game_save", g, [games[g] EXCEPT !.status = Testing], NoValue)

TestingFinish(r, g) ==
    /\ games[g].status = Testing
    /\ ReadGame(r, "game", "game_save", g, [games[g] EXCEPT !.status = Tested], NoValue)

SubmitOnlineAudit(r, g) ==
    /\ games[g].status = Tested
    /\ ReadGame(r, "game", "game_save", g, [games[g] EXCEPT !.status = PendingApprove], NoValue)

GameSave(r) ==
    LET q == conReq[r] IN
    /\ q.pc = "game_save"
    /\ games' = [games EXCEPT ![q.game] = q.row]
    /\ conReq' = [Outdated(q.game) EXCEPT ![r] = NoRequest]
    /\ raced' = IF q.fresh THEN raced ELSE raced \cup {q.game}
    /\ unreviewed' = IF q.row.text = games[q.game].text THEN unreviewed
                     ELSE unreviewed \cup {q.game}
    /\ UNCHANGED <<devs, mailed, settings, drawn, apps, calls>>

\* Operators work on the table itself: the console never sets these statuses.
Operate(g) ==
    /\ \E s \in {Active, Inactive} :
         /\ games[g].status \in {PendingApprove, Active, Inactive} \ {s}
         /\ games' = [games EXCEPT ![g].status = s]
         /\ unreviewed' = IF s = Active THEN unreviewed \ {g} ELSE unreviewed
    /\ conReq' = Outdated(g)
    /\ UNCHANGED <<devs, mailed, settings, drawn, apps, raced, calls>>

-----------------------------------------------------------------------------
(* Settings: the game is read first, then the setting, then both are saved. *)

SettingOf(g, c) == FirstOf({i \in DOMAIN settings : settings[i].game = g /\ settings[i].code = c})

\* Mutant: the status is written back as it was read.
Repriced_Unreset(row) == row

\* The game's row after a change of its settings, where the change is saved.
Repriced(row) == [row EXCEPT !.status = Tested]

SaveSetting(r, g, c) == ReadGame(r, "save", "setting_read", g, games[g], c)
DeleteSetting(r, g, c) == ReadGame(r, "delete", "setting_read", g, games[g], c)

\* DeleteSetting ends here when there is no such setting.
SettingRead(r) ==
    LET q == conReq[r]
        i == SettingOf(q.game, q.code) IN
    /\ q.pc = "setting_read"
    /\ IF q.kind = "delete" /\ i = None THEN Finish(r)
       ELSE conReq' = [conReq EXCEPT ![r].pc = "setting_write", ![r].id = i]
    /\ UNCHANGED <<tables, history, calls>>

\* Save inserts a row that has no id, and one that was deleted meanwhile.
SettingSave(r) ==
    LET q == conReq[r] IN
    /\ q.pc = "setting_write" /\ q.kind = "save"
    /\ \/ /\ q.id = None /\ drawn < MaxSettings
          /\ drawn' = drawn + 1
          /\ settings' = [i \in DOMAIN settings \cup {drawn'} |->
                            IF i = drawn' THEN [game |-> q.game, code |-> q.code] ELSE settings[i]]
       \/ /\ q.id # None /\ UNCHANGED drawn
          /\ settings' = [i \in DOMAIN settings \cup {q.id} |->
                            IF i = q.id THEN [game |-> q.game, code |-> q.code] ELSE settings[i]]
    /\ IF q.row.status = Active
       THEN conReq' = [conReq EXCEPT ![r].pc = "game_save", ![r].row = Repriced(@)]
       ELSE Finish(r)
    /\ unreviewed' = unreviewed \cup {q.game}
    /\ raced' = IF q.fresh THEN raced ELSE raced \cup {q.game}
    /\ UNCHANGED <<devs, mailed, games, apps, calls>>

\* The insert fails (Save's error is not looked at).
SettingFail(r) ==
    LET q == conReq[r] IN
    /\ q.pc = "setting_write" /\ q.kind = "save" /\ q.id = None
    /\ IF q.row.status = Active
       THEN conReq' = [conReq EXCEPT ![r].pc = "game_save", ![r].row = Repriced(@)]
       ELSE Finish(r)
    /\ UNCHANGED <<tables, history, calls>>

\* The game becomes Tested whatever it was.
SettingDelete(r) ==
    LET q == conReq[r] IN
    /\ q.pc = "setting_write" /\ q.kind = "delete"
    /\ settings' = [i \in DOMAIN settings \ {q.id} |-> settings[i]]
    /\ conReq' = [conReq EXCEPT ![r].pc = "game_save", ![r].row = Repriced(@)]
    /\ unreviewed' = unreviewed \cup {q.game}
    /\ UNCHANGED <<devs, mailed, games, drawn, apps, raced, calls>>

-----------------------------------------------------------------------------
(* Keys: any developer may refresh the key of any game. *)

AppOf(g) == FirstOf({i \in DOMAIN apps : apps[i].game = g})
AppByClient(k) == FirstOf({i \in DOMAIN apps : apps[i].client = k})

RefreshGameKey(r, g, k) ==
    /\ Start(r, [NoRequest EXCEPT !.pc = "key_check", !.game = g, !.client = k, !.id = AppOf(g)])
    /\ UNCHANGED <<tables, history>>

\* Mutant: a client id is only refused to a game that has one already.
ClientFree_First(k, g) == AppByClient(k) = None \/ AppOf(g) \in {None, AppByClient(k)}

ClientFree(k, g) == AppByClient(k) = None \/ apps[AppByClient(k)].game = g

KeyCheck(r) ==
    LET q == conReq[r] IN
    /\ q.pc = "key_check"
    /\ IF ClientFree(q.client, q.game) THEN conReq' = [conReq EXCEPT ![r].pc = "key_save"] ELSE Finish(r)
    /\ UNCHANGED <<tables, history, calls>>

\* A new client id or a new client_secret for the one the game has.
KeySave(r) ==
    LET q == conReq[r] IN
    /\ q.pc = "key_save"
    /\ \/ q.id # None /\ apps' = [apps EXCEPT ![q.id].client = q.client]
       \/ /\ q.id = None /\ Len(apps) < MaxApps
          /\ apps' = Append(apps, [game |-> q.game, client |-> q.client])
       \/ q.id = None /\ UNCHANGED apps     \* the insert fails
    /\ raced' = IF q.fresh THEN raced ELSE raced \cup {q.client}
    /\ conReq' = [p \in ConReq |-> IF p = r THEN NoRequest
                             ELSE IF conReq[p].pc = "key_save" /\ conReq[p].client = q.client
                             THEN [conReq[p] EXCEPT !.fresh = FALSE] ELSE conReq[p]]
    /\ UNCHANGED <<devs, mailed, games, settings, drawn, unreviewed, calls>>

-----------------------------------------------------------------------------
ConInit ==
    /\ devs = <<>> /\ mailed = {} /\ games = <<>> /\ settings = <<>> /\ drawn = 0 /\ apps = <<>>
    /\ conReq = [r \in ConReq |-> NoRequest]
    /\ calls = 0 /\ unreviewed = {} /\ raced = {}

AccountNext ==
    \/ ReadOnly
    \/ \E r \in ConReq, m \in Mails : DeveloperRegister(r, m) \/ DeveloperVerify(r, m)
    \/ \E r \in ConReq, d \in DOMAIN devs : UpdateProfile(r, d)
    \/ \E r \in ConReq : DeveloperCreate(r) \/ DeveloperSave(r)

Edited == 1..MaxEdited \cap DOMAIN games

GameNext ==
    \/ \E d \in DOMAIN devs, t \in Texts : CreateGame(d, t)
    \/ \E r \in ConReq, g \in Edited :
         \/ \E t \in Texts : UpdateGame(r, g, t)
         \/ TestingStart(r, g) \/ TestingFinish(r, g) \/ SubmitOnlineAudit(r, g)
    \/ \E r \in ConReq : GameSave(r)
    \/ \E g \in Edited : Operate(g)

SettingNext ==
    \/ \E r \in ConReq, g \in Edited, c \in Codes : SaveSetting(r, g, c) \/ DeleteSetting(r, g, c)
    \/ \E r \in ConReq : SettingRead(r) \/ SettingSave(r) \/ SettingFail(r) \/ SettingDelete(r)

KeyNext ==
    \/ \E r \in ConReq, g \in DOMAIN games, k \in Clients : RefreshGameKey(r, g, k)
    \/ \E r \in ConReq : KeyCheck(r) \/ KeySave(r)

ConNext == AccountNext \/ GameNext \/ SettingNext \/ KeyNext

ConSpec == ConInit /\ [][ConNext]_conVars

-----------------------------------------------------------------------------
\* A game that is Active offers the texts and settings an operator saw when he
\* put it online, unless a request acted on a row that had changed since it was
\* read, or one is just about to take the game offline.  (play_url is not among
\* the texts: UpdateGame saves it without comparing it.)
ActiveIsReviewed ==
    \A g \in DOMAIN games :
        games[g].status = Active /\ g \in unreviewed =>
            \/ g \in raced
            \/ \E r \in ConReq : /\ conReq[r].pc = "game_save" /\ conReq[r].game = g
                             /\ conReq[r].row.status # Active

\* Two registrations of one address may both create a row: the second can never
\* be verified, sign in or own a game, so the address stays one developer's.
SecondRowIsDead ==
    \A d \in DOMAIN devs : ~LoggedIn(d) =>
        devs[d].status = "" /\ \A g \in DOMAIN games : games[g].dev # d

\* No two games get the same client id, under which the OAuth server knows them,
\* unless two refreshes tested that id before either of them saved it.
KeysDistinct ==
    \A i, j \in DOMAIN apps :
        apps[i].client = apps[j].client /\ apps[i].game # apps[j].game => apps[i].client \in raced
=============================================================================
