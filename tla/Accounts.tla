------------------------------- MODULE Accounts -------------------------------
(***************************************************************************)
(* Registration and login (src/src/game/server/core/components/accounts/     *)
(* account_manager.cpp): chains of asynchronous queries whose callbacks run  *)
(* on the workers of the SQL pool, and the players that come, rename         *)
(* themselves, are banned and leave in between.                              *)
(*                                                                         *)
(* A chain remembers the number of its client (DbAsync::CContext) and looks  *)
(* up whoever has that number when an answer comes. A query and its callback *)
(* are one step: between them nothing is read a second time. Queries of      *)
(* different chains are answered in any order; one that fails has an empty   *)
(* answer, a statement that is given up tells its callback so. A statement   *)
(* whose connection is lost is repeated though it may have been applied; one *)
(* for which there is no connection is dropped, and its callback never       *)
(* called. Passwords go with the login; the login of a guest is written as   *)
(* the nickname. Timeout codes, PIN codes and worlds are left out.           *)
(*                                                                         *)
(* Ghosts: visit numbers the players that come, by is the visit whose chain  *)
(* logged the client in, and happened are causes, each an event named where  *)
(* it occurs, that lead to states the code does not mean to be in.           *)
(***************************************************************************)
EXTENDS Integers, FiniteSetsExt

CONSTANTS Clients, Nicks,
          Secrets,   \* logins, with password, that are not those of a guest
          NoNick,
          MaxVisits, \* bound: players that come
          MaxChains, \* bound: registrations and logins begun
          MaxID      \* bound: rows of tw_accounts

ASSUME AccountsAssumption ==
  /\ NoNick \notin Nicks /\ Nicks \cap Secrets = {}
  /\ {MaxVisits, MaxChains, MaxID} \subseteq Nat /\ MaxID # 0

VARIABLES client,   \* CServer::CClient, CAccountData and CAccountSharedData
          jobs,     \* statements in the pool, with what their callbacks hold
          accounts, \* table tw_accounts
          nick,     \* table tw_accounts_data, ID to Nick
          banned,   \* table tw_accounts_bans, as far as it is in force
          nextID, chains, visits,
          aborted,  \* dbg_assert failed
          happened

tables == <<accounts, nick, banned, nextID>>
vars == <<client, jobs, tables, chains, visits, aborted, happened>>

IDs == 1..MaxID
Logins == Nicks \cup Secrets
BuildGuestCredential(n) == n

Absent == [visit |-> 0, name |-> NoNick, on |-> 0, by |-> 0, auth |-> "none", guest |-> NoNick]
NoAccount == [login |-> NoNick, salt |-> 0]

Present(c) == client[c].visit # 0
IsAuthed(c) == client[c].on # 0
IsGuestLogin(c) == client[c].guest # NoNick
Online(a) == {c \in Clients : client[c].on = a}

Named(n) == {a \in IDs : nick[a] = n}

\* Variant: the table has no unique key for the names.
UniqueNot(n) == TRUE

Unique(n) == Named(n) = {}

\* What a SELECT answers that has the rows S.
Answers(S) == {S, {}}
The(S) == CHOOSE a \in S : TRUE

Job(step, n, c, name, login, a) ==
  [step |-> step, n |-> n, cid |-> c, visit |-> client[c].visit, nick |-> name, login |-> login, acc |-> a]
Statement(step, a, name) == [step |-> step, acc |-> a, nick |-> name]

Chain(j) == j.step \notin {"Rename", "Ban", "Enter", "Cleanup", "Update"}
ChainsOf(c) == {j \in jobs : Chain(j) /\ j.cid = c}
Renames(a) == {j \in jobs : j.step = "Rename" /\ j.acc = a}

\* Statements of a registration that may have inserted an account.
Unfinished == {"InsertAccount", "ResolveAccountID", "InsertAccountData", "Cleanup"}

Init ==
  /\ client = [c \in Clients |-> Absent] /\ jobs = {}
  /\ \E known \in {{}} \cup {{n} : n \in Nicks} : \E l \in Logins :
       /\ l \in Nicks => l \in known
       /\ accounts = [a \in IDs |-> IF a \in 1..Cardinality(known) THEN [login |-> l, salt |-> 0] ELSE NoAccount]
       /\ nick = [a \in IDs |-> IF a \in 1..Cardinality(known) THEN The(known) ELSE NoNick]
       /\ nextID = Cardinality(known) + 1
  /\ banned = {} /\ chains = 0 /\ visits = 0
  /\ aborted = FALSE /\ happened = {}

-----------------------------------------------------------------------------
(* Players *)

\* A player comes, and the server looks up the name (AsyncClientEnterMsgInfo).
OnClientEnter(c, n) ==
  /\ ~Present(c) /\ visits < MaxVisits
  /\ visits' = visits + 1
  /\ client' = [client EXCEPT ![c] = [Absent EXCEPT !.visit = visits + 1, !.name = n]]
  /\ jobs' = jobs \cup {[step |-> "Enter", cid |-> c, nick |-> n]}
  /\ UNCHANGED <<tables, chains, aborted, happened>>

OnEnterInfo(j) ==
  /\ j.step = "Enter" /\ jobs' = jobs \ {j}
  /\ \E rows \in Answers(Named(j.nick)) :
       LET guest == BuildGuestCredential(j.nick)
           mine == rows # {} /\ accounts[The(rows)].login # guest IN
       client' = IF ~Present(j.cid) THEN client
                 ELSE \* whoever is there now is told
                      [client EXCEPT
                         ![j.cid].auth = IF rows = {} THEN "registration" ELSE IF mine THEN "login" ELSE "guest",
                         ![j.cid].guest = IF mine THEN @ ELSE guest]
  /\ UNCHANGED <<tables, chains, visits, aborted, happened>>

\* Variant: the data of the account stays with the number.
OnClientResetNothing(c) == [Absent EXCEPT !.on = client[c].on, !.by = client[c].by]

OnClientReset(c) == Absent

\* A cause: the number is free while a chain of its player runs; an account is
\* left before the statement that renames it has been executed.
Leaves(c) ==
  (IF ChainsOf(c) = {} THEN {} ELSE {<<"deserted", c>>})
  \cup (IF Renames(client[c].on) = {} THEN {} ELSE {<<"rename", client[c].on>>})

\* CServer::DelClientCallback
Drop(c) ==
  /\ client' = [client EXCEPT ![c] = OnClientReset(c)]
  /\ happened' = happened \cup Leaves(c)

Leave(c) ==
  /\ Present(c) /\ Drop(c)
  /\ UNCHANGED <<jobs, tables, chains, visits, aborted>>

\* ProcessNicknameChange of a player who is not logged in. A cause when a chain
\* with the old name runs.
SetClientName(c, n) ==
  /\ Present(c) /\ ~IsAuthed(c) /\ n # client[c].name
  /\ client' = [client EXCEPT ![c].name = n]
  /\ happened' = happened \cup IF ChainsOf(c) = {} THEN {} ELSE {<<"renamed", c>>}
  /\ UNCHANGED <<jobs, tables, chains, visits, aborted>>

\* Variant: the table is not told.
RenameUnsaved(a, n) == {}

Rename(a, n) == {Statement("Rename", a, n)}

\* ChangeNickname. A cause: two renames at a time may be executed the other way
\* round.
ChangeNickname(c, n) ==
  LET a == client[c].on IN
  /\ IsAuthed(c) /\ n # client[c].name
  /\ {} \in Answers(Named(n))
  /\ client' = [client EXCEPT ![c].name = n]
  /\ jobs' = jobs \cup Rename(a, n)
  /\ happened' = happened \cup IF Renames(a) = {} THEN {} ELSE {<<"rename", a>>}
  /\ UNCHANGED <<tables, chains, visits, aborted>>

\* BanAccount of the player's account, and the kick.
BanAccount(c) ==
  LET a == client[c].on IN
  /\ IsAuthed(c) /\ {} \in Answers(banned \cap {a})
  /\ jobs' = jobs \cup {Statement("Ban", a, NoNick)}
  /\ Drop(c)
  /\ UNCHANGED <<tables, chains, visits, aborted>>

Begin(step, c, login) ==
  /\ chains < MaxChains
  /\ chains' = chains + 1
  /\ jobs' = jobs \cup {Job(step, chains + 1, c, client[c].name, login, 0)}
  /\ UNCHANGED <<client, tables, visits, aborted, happened>>

StartAuthorization(c, login) == Begin("CheckNickname", c, login)
StartRegistration(c, login) == Begin("Lookup", c, login)

\* ConChatLogin and ConChatRegister
ChatLogin(c, login) ==
  Present(c) /\ ~IsAuthed(c) /\ StartAuthorization(c, login)
ChatRegister(c, login) ==
  Present(c) /\ (IsAuthed(c) => IsGuestLogin(c)) /\ StartRegistration(c, login)

\* NETMSGTYPE_CL_SETTEAM: the player joins as a guest.
Play(c) ==
  /\ Present(c) /\ ~IsAuthed(c)
  /\ \/ /\ client[c].auth = "registration"
        /\ StartRegistration(c, BuildGuestCredential(client[c].name))
     \/ client[c].auth = "guest" /\ StartAuthorization(c, client[c].guest)

-----------------------------------------------------------------------------
(* DbAuthorization *)

Continue(j, k) == jobs' = (jobs \ {j}) \cup {k}
End(j) == jobs' = jobs \ {j}

OnCheckNickname(j) ==
  /\ j.step = "CheckNickname"
  /\ \E rows \in Answers(Named(j.nick)) :
       IF Present(j.cid) /\ rows # {}
       THEN Continue(j, [j EXCEPT !.step = "CheckCredentials", !.acc = The(rows)])
       ELSE End(j)
  /\ UNCHANGED <<client, tables, chains, visits, aborted, happened>>

OnCheckCredentials(j) ==
  /\ j.step = "CheckCredentials"
  /\ \E rows \in Answers({a \in {j.acc} : accounts[a].login = j.login}) :
       IF Present(j.cid) /\ rows # {} THEN Continue(j, [j EXCEPT !.step = "CheckBans"]) ELSE End(j)
  /\ UNCHANGED <<client, tables, chains, visits, aborted, happened>>

\* Variant: the account may be online.
MayLoadTwice(j, bans) == Present(j.cid) /\ bans = {}

\* Variant: bans are not looked at.
MayLoadBanned(j, bans) == Present(j.cid) /\ Online(j.acc) = {}

MayLoad(j, bans) == Present(j.cid) /\ bans = {} /\ Online(j.acc) = {}

\* Causes: another chain for this account has passed the check and not yet
\* ended; no ban is found, because it is not in the table yet or the query fails.
Gaps(j, bans) ==
  (IF \E k \in jobs \ {j} : k.step = "LoadAccountData" /\ k.acc = j.acc
   THEN {<<"overlap", j.acc>>} ELSE {})
  \cup (IF bans = {} /\ (j.acc \in banned \/ Statement("Ban", j.acc, NoNick) \in jobs)
        THEN {<<"unseen", j.acc>>} ELSE {})

OnCheckBans(j) ==
  /\ j.step = "CheckBans"
  /\ \E bans \in Answers(banned \cap {j.acc}) :
       IF MayLoad(j, bans)
       THEN Continue(j, [j EXCEPT !.step = "LoadAccountData"]) /\ happened' = happened \cup Gaps(j, bans)
       ELSE End(j) /\ UNCHANGED happened
  /\ UNCHANGED <<client, tables, chains, visits, aborted>>

\* CAccountData::Init asserts that the client has no account yet.
OnLoadAccountData(j) ==
  LET me == client[j.cid] IN
  /\ j.step = "LoadAccountData" /\ End(j)
  /\ \E rows \in Answers({a \in {j.acc} : nick[a] # NoNick}) :
       IF Present(j.cid) /\ rows # {}
       THEN LET kept == IF me.guest = j.login THEN me.guest ELSE NoNick IN
            IF me.on # 0 THEN aborted' = TRUE /\ UNCHANGED client
            ELSE /\ client' = [client EXCEPT ![j.cid] = [@ EXCEPT !.on = j.acc, !.by = j.visit, !.guest = kept]]
                 /\ UNCHANGED aborted
       ELSE UNCHANGED <<client, aborted>>
  /\ UNCHANGED <<tables, chains, visits, happened>>

-----------------------------------------------------------------------------
(* DbRegistration *)

\* A guest account of this name is given the new login, unless the client is
\* gone: then the name is looked up again and found to be taken.
OnLookup(j) ==
  /\ j.step = "Lookup"
  /\ \E rows \in Answers(Named(j.nick)) :
       IF rows # {} /\ Present(j.cid)
       THEN IF accounts[The(rows)].login = BuildGuestCredential(j.nick)
            THEN Continue(j, [j EXCEPT !.step = "Update", !.acc = The(rows)])
            ELSE End(j)
       ELSE Continue(j, [j EXCEPT !.step = "CheckNewNickname"])
  /\ UNCHANGED <<client, tables, chains, visits, aborted, happened>>

OnCheckNewNickname(j) ==
  /\ j.step = "CheckNewNickname"
  /\ \E rows \in Answers(Named(j.nick)) :
       IF rows # {} THEN End(j) ELSE Continue(j, [j EXCEPT !.step = "InsertAccount"])
  /\ UNCHANGED <<client, tables, chains, visits, aborted, happened>>

CleanupAccountOnError(j) == Continue(j, [j EXCEPT !.step = "Cleanup"])

Inserted(j) == {a \in IDs : accounts[a] = [login |-> j.login, salt |-> j.n]}

\* ORDER BY ID DESC LIMIT 1
Newest(j) == {a \in Inserted(j) : \A b \in Inserted(j) : b <= a}

\* The row is inserted, and the callback told so, or the last try has lost its
\* connection, or there is another; or it is not inserted. A cause: it is inserted
\* again, as no key but the ID is unique.
OnInsertAccount(j) ==
  /\ j.step = "InsertAccount"
  /\ \/ /\ nextID \in IDs
        /\ accounts' = [accounts EXCEPT ![nextID] = [login |-> j.login, salt |-> j.n]]
        /\ nextID' = nextID + 1
        /\ happened' = happened \cup IF Inserted(j) = {} THEN {} ELSE {<<"kept", j.n>>}
        /\ \/ Continue(j, [j EXCEPT !.step = "ResolveAccountID"])
           \/ CleanupAccountOnError(j) \/ jobs' = jobs
     \/ CleanupAccountOnError(j) /\ UNCHANGED <<accounts, nextID, happened>>
  /\ UNCHANGED <<client, nick, banned, chains, visits, aborted>>

OnResolveAccountID(j) ==
  /\ j.step = "ResolveAccountID"
  /\ \E rows \in Answers(Newest(j)) :
       IF rows = {} THEN CleanupAccountOnError(j)
       ELSE Continue(j, [j EXCEPT !.step = "InsertAccountData", !.acc = The(rows)])
  /\ UNCHANGED <<client, tables, chains, visits, aborted, happened>>

\* Variant: the account stays when the name is taken.
AfterInsertKeeps(j, success) ==
  IF success THEN Continue(j, [j EXCEPT !.step = "CheckNickname", !.acc = 0]) ELSE End(j)

AfterInsert(j, success) ==
  IF success THEN Continue(j, [j EXCEPT !.step = "CheckNickname", !.acc = 0])
  ELSE CleanupAccountOnError(j)

\* The ID has an account and no data, and the name is unique in the table: another
\* try finds that it is taken. AuthorizeAfterSuccess.
OnInsertAccountData(j) ==
  /\ j.step = "InsertAccountData"
  /\ \/ /\ Unique(j.nick) /\ nick[j.acc] = NoNick /\ accounts[j.acc] # NoAccount
        /\ nick' = [nick EXCEPT ![j.acc] = j.nick]
        /\ jobs' = jobs \/ \E success \in BOOLEAN : AfterInsert(j, success)
     \/ AfterInsert(j, FALSE) /\ UNCHANGED nick
  /\ UNCHANGED <<client, accounts, banned, nextID, chains, visits, aborted, happened>>

\* The DELETE of CleanupAccountOnError by ID, or by login and salt, may be repeated.
\* The data goes with the account, a ban keeps it (foreign keys). Causes: an account
\* is removed that had data by now; the DELETE is refused or given up.
OnCleanup(j) ==
  LET rows == IF j.acc > 0 THEN {j.acc} ELSE Newest(j) IN
  /\ j.step = "Cleanup"
  /\ \/ /\ rows \cap banned = {}
        /\ accounts' = [a \in IDs |-> IF a \in rows THEN NoAccount ELSE accounts[a]]
        /\ nick' = [a \in IDs |-> IF a \in rows THEN NoNick ELSE nick[a]]
        /\ happened' = happened \cup {<<"removed", a>> : a \in {b \in rows : nick[b] # NoNick}}
        /\ End(j) \/ jobs' = jobs
     \/ End(j) /\ happened' = happened \cup {<<"kept", j.n>>} /\ UNCHANGED <<accounts, nick>>
  /\ UNCHANGED <<client, banned, nextID, chains, visits, aborted>>

\* The UPDATE of OnLookup, or nothing when it is given up or the account is gone.
OnUpdate(j) ==
  /\ j.step = "Update" /\ End(j)
  /\ \E rows \in Answers({a \in {j.acc} : accounts[a] # NoAccount}) :
       accounts' = [a \in IDs |-> IF a \in rows THEN [login |-> j.login, salt |-> j.n] ELSE accounts[a]]
  /\ UNCHANGED <<client, nick, banned, nextID, chains, visits, aborted, happened>>

\* The UPDATE of ChangeNickname. Causes: it is refused, as the name is taken by
\* now, finds no row, or is given up; a chain for the account has looked the old
\* name up.
OnRename(j) ==
  /\ j.step = "Rename" /\ End(j)
  /\ \E done \in {Unique(j.nick) /\ nick[j.acc] # NoNick, FALSE} :
       /\ nick' = IF done THEN [nick EXCEPT ![j.acc] = j.nick] ELSE nick
       /\ happened' = IF ~done \/ \E k \in jobs : Chain(k) /\ k.acc = j.acc
                      THEN happened \cup {<<"rename", j.acc>>} ELSE happened
  /\ UNCHANGED <<client, accounts, banned, nextID, chains, visits, aborted>>

OnBan(j) ==
  /\ j.step = "Ban" /\ End(j)
  /\ banned' \in {banned \cup {a \in {j.acc} : accounts[a] # NoAccount}, banned}
  /\ UNCHANGED <<client, accounts, nick, nextID, chains, visits, aborted, happened>>

\* The time of a ban is over, or UnBanAccount ends it.
BanEnds(a) ==
  /\ banned' = banned \ {a}
  /\ UNCHANGED <<client, jobs, accounts, nick, nextID, chains, visits, aborted, happened>>

\* The server stops with statements in the pool, and starts again. A cause for
\* the registrations that may have inserted an account.
Restart ==
  /\ client' = [c \in Clients |-> Absent] /\ jobs' = {}
  /\ happened' = happened \cup {<<"kept", j.n>> : j \in {k \in jobs : k.step \in Unfinished}}
  /\ UNCHANGED <<tables, chains, visits, aborted>>

\* EnqueueRetry drops a statement, and its callback is never called. A cause.
Dropped(j) ==
  /\ End(j)
  /\ happened' = happened \cup IF j.step \in Unfinished THEN {<<"kept", j.n>>}
                               ELSE IF j.step = "Rename" THEN {<<"rename", j.acc>>} ELSE {}
  /\ UNCHANGED <<client, tables, chains, visits, aborted>>

Player(c) ==
  \/ Leave(c) \/ Play(c) \/ BanAccount(c)
  \/ \E n \in Nicks : OnClientEnter(c, n) \/ SetClientName(c, n) \/ ChangeNickname(c, n)
  \/ \E l \in Secrets : ChatLogin(c, l) \/ ChatRegister(c, l)

Callback(j) ==
  \/ OnEnterInfo(j)
  \/ OnCheckNickname(j) \/ OnCheckCredentials(j) \/ OnCheckBans(j) \/ OnLoadAccountData(j)
  \/ OnLookup(j) \/ OnCheckNewNickname(j) \/ OnInsertAccount(j) \/ OnResolveAccountID(j)
  \/ OnInsertAccountData(j) \/ OnCleanup(j) \/ OnUpdate(j) \/ OnRename(j) \/ OnBan(j)
  \/ Dropped(j)

Next ==
  /\ ~aborted
  /\ \/ \E c \in Clients : Player(c)
     \/ \E j \in jobs : Callback(j)
     \/ \E a \in banned : BanEnds(a)
     \/ Restart

Spec == Init /\ [][Next]_vars

-----------------------------------------------------------------------------
Blamed(kind, x) == <<kind, x>> \in happened

\* The variables have their types, and no two accounts have one name.
TypeOK ==
  /\ client \in [Clients -> [visit : 0..MaxVisits, name : Nicks \cup {NoNick}, on : 0..MaxID, by : 0..MaxVisits,
                             auth : {"none", "login", "registration", "guest"}, guest : Nicks \cup {NoNick}]]
  /\ accounts \in [IDs -> [login : Logins \cup {NoNick}, salt : 0..MaxChains]]
  /\ nick \in [IDs -> Nicks \cup {NoNick}]
  /\ \A a, b \in IDs : a # b /\ nick[a] = nick[b] => nick[a] = NoNick
  /\ banned \subseteq IDs /\ nextID \in 1..(MaxID + 1)
  /\ chains \in 0..MaxChains /\ visits \in 0..MaxVisits /\ aborted \in BOOLEAN

\* An account is online on one client ("This account is already online.",
\* OnCheckBans), unless two chains for it were both past that check at a time.
OnlineOnce ==
  \A a \in IDs : Cardinality(Online(a)) > 1 => Blamed("overlap", a)

\* Who is logged in has asked for it himself (CContextBase::GetPlayer), unless
\* somebody left while his chain ran and the number is another player's now.
LoggedInByOneself ==
  \A c \in Clients : IsAuthed(c) => client[c].by = client[c].visit \/ Blamed("deserted", c)

\* A player bears the name of his account ("Your nickname is your unique game
\* identifier."), unless he renamed himself while his chain ran, or the
\* statement of ChangeNickname is still to come, was refused, lost or overtaken, or
\* the registration of the account failed after all and removed it.
NameIsAccounts ==
  \A c \in Clients : LET a == client[c].on IN
    a # 0 => \/ client[c].name = nick[a] \/ Renames(a) # {}
             \/ Blamed("renamed", c) \/ Blamed("deserted", c)
             \/ Blamed("rename", a) \/ Blamed("overlap", a) \/ Blamed("removed", a)

\* A registration leaves no account without data (CleanupAccountOnError), unless
\* its INSERT was applied, and repeated as the connection was lost; its DELETE was
\* given up or refused; the pool dropped one of its statements; or the server
\* stopped meanwhile. A failed SELECT or INSERT, or a taken name, is not enough.
NoOrphan ==
  \A a \in IDs : accounts[a] # NoAccount /\ nick[a] = NoNick =>
    Blamed("kept", accounts[a].salt)
    \/ \E j \in jobs : j.step \in Unfinished /\ j.n = accounts[a].salt

\* Nobody plays with a banned account (OnCheckBans, BanAccount), unless the ban
\* was not in the table when a chain looked, or the query failed, or the account
\* was online twice and one of the players was kicked.
BannedStaysOut ==
  \A c \in Clients : client[c].on \in banned =>
    Blamed("unseen", client[c].on) \/ Blamed("overlap", client[c].on)

\* "Unique AccountID cannot change the value more than 1 time"
\* (CAccountData::Init).
InitOnce == ~aborted

=============================================================================
