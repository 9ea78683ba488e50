--------------------------- MODULE Accounts_proofs ---------------------------
(***************************************************************************)
(* Proofs about Accounts, for any number of clients, names, logins, chains   *)
(* and accounts: who is online, under which name, by whose doing, and which  *)
(* accounts a registration leaves behind.                                    *)
(***************************************************************************)
EXTENDS Accounts, FiniteSetTheorems, TLAPS

(* Statements in the pool, by what their callbacks hold *)

Looked == {"CheckCredentials", "CheckBans", "LoadAccountData", "Update"}
Unwritten == {"Lookup", "CheckNewNickname", "Update"}

Chains == [step : {"CheckNickname"} \cup Looked \cup Unwritten \cup Unfinished,
           n : 1..MaxChains, cid : Clients, visit : 0..MaxVisits,
           nick : Nicks, login : Logins, acc : 0..MaxID]
Enters == [step : {"Enter"}, cid : Clients, nick : Nicks]
RenameStatements == [step : {"Rename"}, acc : IDs, nick : Nicks]
BanStatements == [step : {"Ban"}, acc : IDs, nick : {NoNick}]
Jobs == Chains \cup Enters \cup RenameStatements \cup BanStatements

\* IDs are not given out yet, or the account is gone or has data.
Filled == \A a \in IDs : a >= nextID => accounts[a] = NoAccount /\ nick[a] = NoNick
Known(a) == a \in IDs /\ a < nextID /\ (accounts[a] # NoAccount => nick[a] # NoNick)

\* A chain has a number of its own. Who looked an account up found one with data.
JobsOK ==
  /\ jobs \subseteq Jobs
  /\ \A j \in jobs : j.step \in Looked \cup {"Rename", "Ban"} => Known(j.acc)
  /\ \A j \in jobs : j \in Chains => j.n <= chains
  /\ \A j, k \in jobs : j \in Chains /\ k \in Chains /\ j.n = k.n => j = k

ClientsOK ==
  \A c \in Clients : /\ ~Present(c) => client[c] = Absent
                     /\ Present(c) => client[c].name \in Nicks
                     /\ IsAuthed(c) => Known(client[c].on)
                     /\ ~IsAuthed(c) /\ client[c].auth = "guest" => client[c].guest \in Nicks

\* The player who began a chain is there, under the name he had, unless he is
\* logged in.
ChainsOwn ==
  \A j \in jobs : Chain(j) =>
    \/ Blamed("deserted", j.cid)
    \/ /\ Present(j.cid) /\ client[j.cid].visit = j.visit
       /\ IsAuthed(j.cid) \/ client[j.cid].name = j.nick \/ Blamed("renamed", j.cid)

Loads(a) == {j \in jobs : j.step = "LoadAccountData" /\ j.acc = a}

\* One client is online with an account, or one chain is about to make one so.
OneWayIn ==
  \A a \in IDs : Blamed("overlap", a) \/
    /\ \A c, d \in Online(a) : c = d
    /\ \A j, k \in Loads(a) : j = k
    /\ Online(a) = {} \/ Loads(a) = {}

\* Once a ban is on its way, nobody is online with the account nor about to be.
BanHolds ==
  \A a \in IDs : Blamed("unseen", a) \/ Blamed("overlap", a) \/
    (a \in banned \/ Statement("Ban", a, NoNick) \in jobs => Online(a) = {} /\ Loads(a) = {})

\* The salt tells which registration wrote an account.
Salts ==
  /\ \A a \in IDs : accounts[a].salt <= chains
  /\ \A j \in jobs : j.step \in Unwritten => \A a \in IDs : accounts[a].salt # j.n
  /\ \A j \in jobs : j.step \in {"Lookup", "CheckNewNickname", "InsertAccount", "ResolveAccountID"} => j.acc = 0

\* A registration has inserted one account, the one whose ID it found, unless the
\* INSERT was repeated.
Registering ==
  \A j \in jobs : j.step \in Unfinished =>
    /\ j.step = "InsertAccountData" => j.acc # 0
    /\ \A a \in IDs : accounts[a].salt = j.n =>
         /\ accounts[a].login = j.login
         /\ j.acc # 0 => a = j.acc \/ Blamed("kept", j.n)
         /\ \A b \in IDs : accounts[b].salt = j.n => a = b \/ Blamed("kept", j.n)

\* A chain loads the account of the name it looked up.
NameLooked ==
  \A j \in jobs : j.step \in Looked \ {"Update"} =>
    Blamed("rename", j.acc) \/ Blamed("removed", j.acc) \/ nick[j.acc] = j.nick

\* A rename that is still to come is of somebody online, who bears the name.
RenamesOwn ==
  \A a \in IDs : Blamed("rename", a) \/ Blamed("overlap", a) \/ Blamed("removed", a) \/
    /\ \A r, s \in Renames(a) : r = s
    /\ Renames(a) # {} => Online(a) # {}
    /\ \A c \in Online(a) : \/ Blamed("renamed", c) \/ Blamed("deserted", c)
                            \/ Renames(a) = {} /\ client[c].name = nick[a]
                            \/ Renames(a) # {} /\ \A r \in Renames(a) : r.nick = client[c].name

Names == NameLooked /\ RenamesOwn

IInv == /\ TypeOK /\ Filled /\ JobsOK /\ ClientsOK /\ ChainsOwn /\ LoggedInByOneself
        /\ OneWayIn /\ BanHolds /\ Salts /\ Registering /\ NoOrphan /\ Names

-----------------------------------------------------------------------------
(* Statements *)

Steps == {"CheckNickname"} \cup Looked \cup Unwritten \cup Unfinished

\* The step of a statement tells which of them it is.
LEMMA Shapes ==
  ASSUME NEW j \in Jobs
  PROVE  /\ j.step \in Steps => j \in Chains
         /\ j.step = "Enter" => j \in Enters
         /\ j.step = "Rename" => j \in RenameStatements
         /\ j.step = "Ban" => j \in BanStatements
         /\ j.step \in Steps \cup {"Enter", "Rename", "Ban"}
<1>1. CASE j \in Chains
  BY <1>1 DEF Chains, Steps, Looked, Unwritten, Unfinished
<1>2. CASE j \in Enters
  BY <1>2 DEF Enters, Steps, Looked, Unwritten, Unfinished
<1>3. CASE j \in RenameStatements
  BY <1>3 DEF RenameStatements, Steps, Looked, Unwritten, Unfinished
<1>4. CASE j \in BanStatements
  BY <1>4 DEF BanStatements, Steps, Looked, Unwritten, Unfinished
<1> QED BY <1>1, <1>2, <1>3, <1>4 DEF Jobs

\* What a chain holds, and that Chain leaves out the last two steps of one.
LEMMA ChainFields ==
  ASSUME NEW j \in Chains
  PROVE  /\ j.step \in Steps /\ j.n \in 1..MaxChains /\ j.cid \in Clients /\ j.visit \in 0..MaxVisits
         /\ j.nick \in Nicks /\ j.login \in Logins /\ j.acc \in 0..MaxID
         /\ Chain(j) <=> j.step \notin {"Cleanup", "Update"}
BY DEF Chains, Steps, Looked, Unwritten, Unfinished, Chain

\* A chain that goes on keeps what it holds.
LEMMA GoesOn ==
  ASSUME NEW j \in Chains, NEW s \in Steps
  PROVE  LET k == [j EXCEPT !.step = s] IN
         /\ k \in Chains /\ k.step = s /\ k.acc = j.acc /\ k.n = j.n /\ k.cid = j.cid
         /\ k.visit = j.visit /\ k.nick = j.nick /\ k.login = j.login
BY DEF Chains, Steps

-----------------------------------------------------------------------------
(* Steps, by what they change *)

\* A chain goes on with another statement.
Onward(j, k) ==
  /\ j \in jobs /\ j \in Chains /\ Chain(j) /\ k \in Chains /\ jobs' = (jobs \ {j}) \cup {k}
  /\ k.n = j.n /\ k.cid = j.cid /\ k.visit = j.visit /\ k.nick = j.nick /\ k.login = j.login

\* It looks the account up, passes a check, finds no row, or what it has
\* inserted, or fails.
LooksUp(j, k) == /\ <<j.step, k.step>> \in {<<"CheckNickname", "CheckCredentials">>, <<"Lookup", "Update">>}
                 /\ k.acc \in Named(j.nick) /\ UNCHANGED happened
Passes(j, k) == /\ j.step = "CheckCredentials" /\ k.step = "CheckBans"
                /\ k.acc = j.acc /\ UNCHANGED happened
MayLoadNow(j, k) == /\ j.step = "CheckBans" /\ k.step = "LoadAccountData" /\ k.acc = j.acc
                    /\ Online(j.acc) = {} /\ happened' = happened \cup Gaps(j, {})
Proceeds(j, k) == /\ <<j.step, k.step>> \in {<<"Lookup", "CheckNewNickname">>, <<"CheckNewNickname", "InsertAccount">>,
                                             <<"InsertAccount", "Cleanup">>, <<"ResolveAccountID", "Cleanup">>,
                                             <<"InsertAccountData", "Cleanup">>}
                  /\ k.acc = j.acc /\ UNCHANGED happened
Resolves(j, k) == /\ j.step = "ResolveAccountID" /\ k.step = "InsertAccountData"
                  /\ k.acc \in Inserted(j) /\ UNCHANGED happened
Moves(j, k) == /\ Onward(j, k) /\ UNCHANGED <<client, tables, chains, visits, aborted>>
               /\ LooksUp(j, k) \/ Passes(j, k) \/ MayLoadNow(j, k) \/ Proceeds(j, k) \/ Resolves(j, k)

\* It writes a row, and the statement may be repeated: then k is j.
Inserts(j, k) == /\ Onward(j, k) /\ j.step = "InsertAccount" /\ k.acc = j.acc
                 /\ k.step \in {"InsertAccount", "ResolveAccountID", "Cleanup"}
                 /\ nextID \in IDs /\ nextID' = nextID + 1
                 /\ accounts' = [accounts EXCEPT ![nextID] = [login |-> j.login, salt |-> j.n]]
                 /\ happened' = happened \cup IF Inserted(j) = {} THEN {} ELSE {<<"kept", j.n>>}
                 /\ UNCHANGED <<client, nick, banned, chains, visits, aborted>>
Writes(j, k) == /\ Onward(j, k) /\ j.step = "InsertAccountData"
                /\ \/ k.step = "CheckNickname" /\ k.acc = 0
                   \/ k.step \in {"InsertAccountData", "Cleanup"} /\ k.acc = j.acc
                /\ Unique(j.nick) /\ nick[j.acc] = NoNick /\ accounts[j.acc] # NoAccount
                /\ nick' = [nick EXCEPT ![j.acc] = j.nick]
                /\ UNCHANGED <<client, accounts, banned, nextID, chains, visits, aborted, happened>>

\* It ends and has changed nothing.
Ends(j) == /\ j \in jobs /\ j \in Chains /\ j.step \notin Unfinished /\ jobs' = jobs \ {j}
           /\ aborted' \in BOOLEAN /\ UNCHANGED <<client, tables, chains, visits, happened>>
LogsIn(j) == /\ j \in jobs /\ j \in Chains /\ j.step = "LoadAccountData" /\ jobs' = jobs \ {j}
             /\ Present(j.cid) /\ ~IsAuthed(j.cid)
             /\ \E g \in Nicks \cup {NoNick} :
                  client' = [client EXCEPT ![j.cid] = [@ EXCEPT !.on = j.acc, !.by = j.visit, !.guest = g]]
             /\ UNCHANGED <<tables, chains, visits, aborted, happened>>
Updates(j) == /\ j \in jobs /\ j \in Chains /\ j.step = "Update" /\ jobs' = jobs \ {j}
              /\ accounts[j.acc] # NoAccount
              /\ accounts' = [accounts EXCEPT ![j.acc] = [login |-> j.login, salt |-> j.n]]
              /\ UNCHANGED <<client, nick, banned, nextID, chains, visits, aborted, happened>>

Removes(j) ==
  /\ j \in jobs /\ j \in Chains /\ j.step = "Cleanup" /\ jobs' \in {jobs, jobs \ {j}}
  /\ \E rows \in SUBSET IDs :
       /\ rows = IF j.acc > 0 THEN {j.acc} ELSE Newest(j)
       /\ accounts' = [a \in IDs |-> IF a \in rows THEN NoAccount ELSE accounts[a]]
       /\ nick' = [a \in IDs |-> IF a \in rows THEN NoNick ELSE nick[a]]
       /\ happened' = happened \cup {<<"removed", a>> : a \in {b \in rows : nick[b] # NoNick}}
  /\ UNCHANGED <<client, banned, nextID, chains, visits, aborted>>

Begins(c, k) == /\ Present(c) /\ k \in Chains /\ k.step \in {"CheckNickname", "Lookup"}
                /\ k.n = chains + 1 /\ k.cid = c /\ k.visit = client[c].visit /\ k.nick = client[c].name /\ k.acc = 0
                /\ jobs' = jobs \cup {k} /\ chains' = chains + 1 /\ chains' <= MaxChains
                /\ UNCHANGED <<client, tables, visits, aborted, happened>>

\* Who is on client c has the same name, and the same account.
Same(c) == /\ client'[c].visit = client[c].visit /\ client'[c].name = client[c].name
           /\ client'[c].on = client[c].on /\ client'[c].by = client[c].by

ClientRecords == [visit : 0..MaxVisits, name : Nicks \cup {NoNick}, on : 0..MaxID, by : 0..MaxVisits,
                  auth : {"none", "login", "registration", "guest"}, guest : Nicks \cup {NoNick}]

Told(j) == /\ j \in jobs /\ j \in Enters /\ jobs' = jobs \ {j}
           /\ client' \in [Clients -> ClientRecords]
           /\ \A c \in Clients : /\ Same(c) /\ (~Present(c) => client'[c] = client[c])
                                /\ \/ client'[c] = client[c] \/ client'[c].auth # "guest"
                                   \/ client'[c].guest \in Nicks
           /\ UNCHANGED <<tables, chains, visits, aborted, happened>>

\* A player leaves, perhaps banned.
Drops(c) == /\ Present(c) /\ Drop(c)
            /\ jobs' \in {jobs, jobs \cup {Statement("Ban", client[c].on, NoNick)}}
            /\ jobs' # jobs => IsAuthed(c)
            /\ UNCHANGED <<tables, chains, visits, aborted>>

Kinds ==
  \/ \E c \in Clients : \/ \E n \in Nicks : OnClientEnter(c, n) \/ SetClientName(c, n) \/ ChangeNickname(c, n)
                        \/ Drops(c) \/ \E k \in Chains : Begins(c, k)
  \/ \E j \in jobs : \/ \E k \in Chains : Moves(j, k) \/ Inserts(j, k) \/ Writes(j, k)
                     \/ Told(j) \/ Ends(j) \/ LogsIn(j) \/ Updates(j)
                     \/ Removes(j) \/ OnRename(j) \/ OnBan(j) \/ Dropped(j)
  \/ \E a \in banned : BanEnds(a)
  \/ Restart
  \/ UNCHANGED vars

Types == TypeOK /\ Filled /\ JobsOK /\ ClientsOK

-----------------------------------------------------------------------------
(* Every step is of one of these kinds *)

LEMMA TheIn == ASSUME NEW S, S # {} PROVE The(S) \in S
BY DEF The

LEMMA Continues ==
  ASSUME NEW j \in jobs, j \in Chains, Chain(j), NEW s \in Steps, Continue(j, [j EXCEPT !.step = s])
  PROVE  \E k \in Chains : Onward(j, k) /\ k.step = s /\ k.acc = j.acc
<1> DEFINE k == [j EXCEPT !.step = s]
<1>1. /\ k \in Chains /\ k.step = s /\ k.acc = j.acc /\ k.n = j.n /\ k.cid = j.cid
      /\ k.visit = j.visit /\ k.nick = j.nick /\ k.login = j.login
  BY GoesOn
<1> HIDE DEF k
<1>2. jobs' = (jobs \ {j}) \cup {k}
  BY DEF k, Continue
<1> QED BY <1>1, <1>2 DEF Onward

GoneOn(j, s, a) == [j EXCEPT !.step = s, !.acc = a]

LEMMA ContinuesWith ==
  ASSUME NEW j \in jobs, j \in Chains, Chain(j), NEW s \in Steps, NEW a \in 0..MaxID,
         Continue(j, GoneOn(j, s, a))
  PROVE  \E k \in Chains : Onward(j, k) /\ k.step = s /\ k.acc = a
<1> DEFINE k == GoneOn(j, s, a)
<1>1. /\ k \in Chains /\ k.step = s /\ k.acc = a /\ k.n = j.n /\ k.cid = j.cid
      /\ k.visit = j.visit /\ k.nick = j.nick /\ k.login = j.login
  BY DEF GoneOn, Chains, Steps
<1> HIDE DEF k
<1>2. jobs' = (jobs \ {j}) \cup {k}
  BY DEF k, Continue
<1> QED BY <1>1, <1>2 DEF Onward

LEMMA LookupKinds ==
  ASSUME AccountsAssumption, Types, NEW j \in jobs, j \in Chains,
         OnCheckNickname(j) \/ OnLookup(j) \/ OnCheckNewNickname(j)
  PROVE  Ends(j) \/ \E k \in Chains : Moves(j, k)
<1>1. /\ Chain(j) /\ aborted \in BOOLEAN /\ MaxID \in Nat
      /\ j.step \in {"CheckNickname", "Lookup", "CheckNewNickname"}
      /\ UNCHANGED <<client, tables, chains, visits, aborted, happened>>
  BY ChainFields DEF AccountsAssumption, Types, TypeOK, OnCheckNickname, OnLookup, OnCheckNewNickname
<1>2. ASSUME Named(j.nick) # {}
      PROVE  The(Named(j.nick)) \in Named(j.nick) /\ The(Named(j.nick)) \in 0..MaxID
  BY <1>1, <1>2, TheIn DEF Named, IDs
<1>3. CASE End(j)
  BY <1>1, <1>3 DEF Ends, End, Unfinished
<1>4. CASE OnCheckNickname(j) /\ ~End(j)
  <2> DEFINE a == The(Named(j.nick))
  <2>1. Named(j.nick) # {} /\ Continue(j, GoneOn(j, "CheckCredentials", a))
    BY <1>4 DEF OnCheckNickname, Answers, GoneOn
  <2>2. a \in Named(j.nick) /\ a \in 0..MaxID
    BY <1>2, <2>1
  <2> HIDE DEF a
  <2>3. PICK k \in Chains : Onward(j, k) /\ k.step = "CheckCredentials" /\ k.acc = a
    BY <1>1, <2>1, <2>2, ContinuesWith DEF Steps, Looked
  <2>4. LooksUp(j, k)
    BY <1>1, <1>4, <2>2, <2>3 DEF LooksUp, OnCheckNickname
  <2> QED BY <1>1, <2>3, <2>4 DEF Moves
<1>5. CASE OnLookup(j) /\ ~End(j)
  <2> DEFINE a == The(Named(j.nick))
  <2>1. \/ Named(j.nick) # {} /\ Continue(j, GoneOn(j, "Update", a))
        \/ Continue(j, [j EXCEPT !.step = "CheckNewNickname"])
    BY <1>5 DEF OnLookup, Answers, GoneOn
  <2>2. ASSUME Named(j.nick) # {}
        PROVE  a \in Named(j.nick) /\ a \in 0..MaxID
    BY <1>2, <2>2
  <2> HIDE DEF a
  <2>3. CASE Named(j.nick) # {} /\ Continue(j, GoneOn(j, "Update", a))
    <3>1. PICK k \in Chains : Onward(j, k) /\ k.step = "Update" /\ k.acc = a
      BY <1>1, <2>2, <2>3, ContinuesWith DEF Steps, Looked
    <3>2. LooksUp(j, k)
      BY <1>1, <1>5, <2>2, <2>3, <3>1 DEF LooksUp, OnLookup
    <3> QED BY <1>1, <3>1, <3>2 DEF Moves
  <2>4. CASE Continue(j, [j EXCEPT !.step = "CheckNewNickname"])
    <3>1. PICK k \in Chains : Onward(j, k) /\ k.step = "CheckNewNickname" /\ k.acc = j.acc
      BY <1>1, <2>4, Continues DEF Steps, Unwritten, Unfinished
    <3>2. Proceeds(j, k)
      BY <1>1, <1>5, <3>1 DEF Proceeds, OnLookup
    <3> QED BY <1>1, <3>1, <3>2 DEF Moves
  <2> QED BY <2>1, <2>3, <2>4
<1>6. CASE OnCheckNewNickname(j) /\ ~End(j)
  <2>1. Continue(j, [j EXCEPT !.step = "InsertAccount"])
    BY <1>6 DEF OnCheckNewNickname
  <2>2. PICK k \in Chains : Onward(j, k) /\ k.step = "InsertAccount" /\ k.acc = j.acc
    BY <1>1, <2>1, Continues DEF Steps, Unwritten, Unfinished
  <2>3. Proceeds(j, k)
    BY <1>1, <1>6, <2>2 DEF Proceeds, OnCheckNewNickname
  <2> QED BY <1>1, <2>2, <2>3 DEF Moves
<1> QED BY <1>3, <1>4, <1>5, <1>6

LEMMA LoginKinds ==
  ASSUME AccountsAssumption, Types, NEW j \in jobs, j \in Chains,
         OnCheckCredentials(j) \/ OnCheckBans(j) \/ OnLoadAccountData(j)
  PROVE  Ends(j) \/ LogsIn(j) \/ \E k \in Chains : Moves(j, k)
<1>1. /\ Chain(j) /\ aborted \in BOOLEAN /\ j.cid \in Clients
      /\ j.step \in {"CheckCredentials", "CheckBans", "LoadAccountData"}
      /\ UNCHANGED <<tables, chains, visits>>
  BY ChainFields DEF Types, TypeOK, OnCheckCredentials, OnCheckBans, OnLoadAccountData
<1>2. CASE OnCheckCredentials(j)
  <2>1. UNCHANGED <<client, aborted, happened>>
    BY <1>2 DEF OnCheckCredentials
  <2>2. CASE End(j)
    BY <1>1, <2>1, <2>2 DEF Ends, End, Unfinished
  <2>3. CASE Continue(j, [j EXCEPT !.step = "CheckBans"])
    <3>1. PICK k \in Chains : Onward(j, k) /\ k.step = "CheckBans" /\ k.acc = j.acc
      BY <1>1, <2>3, Continues DEF Steps, Looked
    <3>2. Passes(j, k)
      BY <1>2, <2>1, <3>1 DEF Passes, OnCheckCredentials
    <3> QED BY <1>1, <2>1, <3>1, <3>2 DEF Moves
  <2> QED BY <1>2, <2>2, <2>3 DEF OnCheckCredentials
<1>3. CASE OnCheckBans(j)
  <2>1. UNCHANGED <<client, aborted>>
    BY <1>3 DEF OnCheckBans
  <2>2. CASE End(j) /\ UNCHANGED happened
    BY <1>1, <2>1, <2>2 DEF Ends, End, Unfinished
  <2>3. CASE /\ Continue(j, [j EXCEPT !.step = "LoadAccountData"]) /\ MayLoad(j, {})
             /\ happened' = happened \cup Gaps(j, {})
    <3>1. PICK k \in Chains : Onward(j, k) /\ k.step = "LoadAccountData" /\ k.acc = j.acc
      BY <1>1, <2>3, Continues DEF Steps, Looked
    <3>2. MayLoadNow(j, k)
      BY <1>3, <2>3, <3>1 DEF MayLoadNow, OnCheckBans, MayLoad
    <3> QED BY <1>1, <2>1, <3>1, <3>2 DEF Moves
  <2>4. PICK bans \in Answers(banned \cap {j.acc}) :
          IF MayLoad(j, bans)
          THEN Continue(j, [j EXCEPT !.step = "LoadAccountData"]) /\ happened' = happened \cup Gaps(j, bans)
          ELSE End(j) /\ UNCHANGED happened
    BY <1>3 DEF OnCheckBans
  <2>5. MayLoad(j, bans) => bans = {}
    BY DEF MayLoad
  <2>6. CASE MayLoad(j, bans)
    <3>1. bans = {}
      BY <2>5, <2>6
    <3> QED BY <2>3, <2>4, <2>6, <3>1
  <2> QED BY <2>2, <2>4, <2>6
<1>4. CASE OnLoadAccountData(j)
  <2>1. j.step = "LoadAccountData" /\ End(j) /\ UNCHANGED happened
    BY <1>4 DEF OnLoadAccountData
  <2>2. CASE UNCHANGED client /\ aborted' \in BOOLEAN
    BY <1>1, <2>1, <2>2 DEF Ends, End, Unfinished
  <2>3. ASSUME UNCHANGED aborted, Present(j.cid), client[j.cid].on = 0, NEW g \in Nicks \cup {NoNick},
               client' = [client EXCEPT ![j.cid] = [@ EXCEPT !.on = j.acc, !.by = j.visit, !.guest = g]]
        PROVE  LogsIn(j)
    BY <1>1, <2>1, <2>3 DEF LogsIn, IsAuthed, End
  <2>4. client[j.cid].guest \in Nicks \cup {NoNick}
    BY <1>1 DEF Types, TypeOK
  <2>5. \/ UNCHANGED client /\ aborted' \in BOOLEAN
        \/ /\ UNCHANGED aborted /\ Present(j.cid) /\ client[j.cid].on = 0
           /\ \E g \in Nicks \cup {NoNick} :
                client' = [client EXCEPT ![j.cid] = [@ EXCEPT !.on = j.acc, !.by = j.visit, !.guest = g]]
    BY <1>1, <1>4, <2>4 DEF OnLoadAccountData
  <2> QED BY <2>2, <2>3, <2>5
<1> QED BY <1>2, <1>3, <1>4

LEMMA RegistrationKinds ==
  ASSUME AccountsAssumption, Types, NEW j \in jobs, j \in Chains,
         \/ OnInsertAccount(j) \/ OnResolveAccountID(j) \/ OnInsertAccountData(j) \/ OnUpdate(j)
  PROVE  Ends(j) \/ Updates(j) \/ \E k \in Chains : Moves(j, k) \/ Inserts(j, k) \/ Writes(j, k)
<1>1. /\ aborted \in BOOLEAN /\ j.n \in 1..MaxChains
      /\ Chain(j) <=> j.step # "Update"
      /\ j.step \in {"InsertAccount", "ResolveAccountID", "InsertAccountData", "Update"}
      /\ UNCHANGED <<client, banned, chains, visits, aborted>>
  <2>1. aborted \in BOOLEAN
    BY DEF Types, TypeOK
  <2>2. /\ j.step \in {"InsertAccount", "ResolveAccountID", "InsertAccountData", "Update"}
        /\ UNCHANGED <<client, banned, chains, visits, aborted>>
    BY DEF OnInsertAccount, OnResolveAccountID, OnInsertAccountData, OnUpdate, tables
  <2>3. j.n \in 1..MaxChains /\ (Chain(j) <=> j.step \notin {"Cleanup", "Update"})
    BY ChainFields
  <2> QED BY <2>1, <2>2, <2>3
<1>0. ASSUME jobs' = jobs, Chain(j) PROVE Onward(j, j)
  BY <1>0 DEF Onward
<1>2. ASSUME UNCHANGED <<tables, happened>>, CleanupAccountOnError(j),
             j.step \in {"InsertAccount", "ResolveAccountID", "InsertAccountData"}
      PROVE  \E k \in Chains : Moves(j, k)
  <2>1. PICK k \in Chains : Onward(j, k) /\ k.step = "Cleanup" /\ k.acc = j.acc
    BY <1>1, <1>2, Continues DEF Steps, Unfinished, CleanupAccountOnError
  <2>2. Proceeds(j, k)
    BY <1>1, <1>2, <2>1 DEF Proceeds
  <2> QED BY <1>1, <1>2, <2>1, <2>2 DEF Moves
<1>3. CASE OnInsertAccount(j)
  <2>1. j.step = "InsertAccount" /\ UNCHANGED <<nick, banned>>
    BY <1>3 DEF OnInsertAccount
  <2>2. CASE CleanupAccountOnError(j) /\ UNCHANGED <<accounts, nextID, happened>>
    BY <1>2, <2>1, <2>2 DEF tables
  <2>3. CASE /\ nextID \in IDs
             /\ accounts' = [accounts EXCEPT ![nextID] = [login |-> j.login, salt |-> j.n]]
             /\ nextID' = nextID + 1
             /\ happened' = happened \cup IF Inserted(j) = {} THEN {} ELSE {<<"kept", j.n>>}
             /\ \/ Continue(j, [j EXCEPT !.step = "ResolveAccountID"])
                \/ CleanupAccountOnError(j) \/ jobs' = jobs
    <3>1. PICK k \in Chains : /\ Onward(j, k) /\ k.acc = j.acc
                              /\ k.step \in {"InsertAccount", "ResolveAccountID", "Cleanup"}
      <4>1. CASE Continue(j, [j EXCEPT !.step = "ResolveAccountID"])
        BY <1>1, <2>1, <4>1, Continues DEF Steps, Unfinished
      <4>2. CASE CleanupAccountOnError(j)
        BY <1>1, <2>1, <4>2, Continues DEF Steps, Unfinished, CleanupAccountOnError
      <4>3. CASE jobs' = jobs
        BY <1>0, <1>1, <2>1, <4>3
      <4> QED BY <2>3, <4>1, <4>2, <4>3
    <3>2. Inserts(j, k)
      BY <1>1, <2>1, <2>3, <3>1 DEF Inserts
    <3> QED BY <3>1, <3>2
  <2> QED BY <1>3, <2>2, <2>3 DEF OnInsertAccount
<1>4. CASE OnResolveAccountID(j)
  <2>1. j.step = "ResolveAccountID" /\ UNCHANGED <<tables, happened>>
    BY <1>4 DEF OnResolveAccountID
  <2>2. CASE CleanupAccountOnError(j)
    BY <1>2, <2>1, <2>2
  <2>3. CASE /\ Newest(j) # {}
             /\ Continue(j, [j EXCEPT !.step = "InsertAccountData", !.acc = The(Newest(j))])
    <3> DEFINE a == The(Newest(j))
    <3>1. a \in IDs /\ a \in Inserted(j)
      BY <2>3, TheIn DEF Inserted, Newest
    <3>2. a \in 0..MaxID
      BY <3>1 DEF IDs, AccountsAssumption
    <3>3. Continue(j, GoneOn(j, "InsertAccountData", a))
      BY <2>3 DEF GoneOn
    <3> HIDE DEF a
    <3>4. PICK k \in Chains : Onward(j, k) /\ k.step = "InsertAccountData" /\ k.acc = a
      BY <1>1, <2>1, <3>2, <3>3, ContinuesWith DEF Steps, Unfinished
    <3>5. Resolves(j, k)
      BY <1>1, <2>1, <3>1, <3>4 DEF Resolves
    <3> QED BY <1>1, <2>1, <3>4, <3>5 DEF Moves
  <2> QED BY <1>4, <2>2, <2>3 DEF OnResolveAccountID, Answers
<1>5. CASE OnInsertAccountData(j)
  <2>1. j.step = "InsertAccountData" /\ UNCHANGED <<accounts, banned, nextID, happened>>
    BY <1>5 DEF OnInsertAccountData
  <2>2. CASE nick' = nick /\ CleanupAccountOnError(j)
    BY <1>2, <2>1, <2>2 DEF tables
  <2>3. CASE /\ Unique(j.nick) /\ nick[j.acc] = NoNick /\ accounts[j.acc] # NoAccount
             /\ nick' = [nick EXCEPT ![j.acc] = j.nick]
             /\ \/ Continue(j, [j EXCEPT !.step = "CheckNickname", !.acc = 0])
                \/ CleanupAccountOnError(j) \/ jobs' = jobs
    <3> DEFINE Next2(k) == \/ k.step = "CheckNickname" /\ k.acc = 0
                           \/ k.step \in {"InsertAccountData", "Cleanup"} /\ k.acc = j.acc
    <3>1. PICK k \in Chains : Onward(j, k) /\ Next2(k)
      <4>1. CASE Continue(j, [j EXCEPT !.step = "CheckNickname", !.acc = 0])
        <5>1. Continue(j, GoneOn(j, "CheckNickname", 0)) /\ 0 \in 0..MaxID
          BY <4>1 DEF GoneOn, AccountsAssumption
        <5> QED BY <1>1, <2>1, <5>1, ContinuesWith DEF Steps
      <4>2. CASE CleanupAccountOnError(j)
        BY <1>1, <2>1, <4>2, Continues DEF Steps, Unfinished, CleanupAccountOnError
      <4>3. CASE jobs' = jobs
        BY <1>0, <1>1, <2>1, <4>3
      <4> QED BY <2>3, <4>1, <4>2, <4>3
    <3>2. Writes(j, k)
      BY <1>1, <2>1, <2>3, <3>1 DEF Writes
    <3> QED BY <3>1, <3>2
  <2>4. \/ AfterInsert(j, FALSE) /\ UNCHANGED nick
        \/ /\ Unique(j.nick) /\ nick[j.acc] = NoNick /\ accounts[j.acc] # NoAccount
           /\ nick' = [nick EXCEPT ![j.acc] = j.nick]
           /\ jobs' = jobs \/ AfterInsert(j, TRUE) \/ AfterInsert(j, FALSE)
    BY <1>5 DEF OnInsertAccountData
  <2> QED BY <2>2, <2>3, <2>4 DEF AfterInsert
<1>6. CASE OnUpdate(j)
  <2>1. /\ j.step = "Update" /\ jobs' = jobs \ {j} /\ j \in jobs
        /\ UNCHANGED <<client, nick, banned, nextID, chains, visits, aborted, happened>>
    BY <1>6 DEF OnUpdate, End
  <2>2. j.acc \in IDs
    BY <2>1 DEF Types, JobsOK, Looked, Known
  <2>3. PICK rows \in {{a \in {j.acc} : accounts[a] # NoAccount}, {}} :
          accounts' = [a \in IDs |-> IF a \in rows THEN [login |-> j.login, salt |-> j.n] ELSE accounts[a]]
    BY <1>6 DEF OnUpdate, Answers
  <2>4. accounts = [a \in IDs |-> accounts[a]]
    BY DEF Types, TypeOK
  <2>5. CASE rows = {}
    <3>1. accounts' = accounts
      BY <2>3, <2>4, <2>5
    <3> QED BY <1>1, <2>1, <3>1 DEF Ends, Unfinished, tables
  <2>6. CASE rows = {j.acc} /\ accounts[j.acc] # NoAccount
    <3>1. accounts' = [accounts EXCEPT ![j.acc] = [login |-> j.login, salt |-> j.n]]
      BY <2>2, <2>3, <2>4, <2>6
    <3> QED BY <2>1, <2>6, <3>1 DEF Updates
  <2> QED BY <2>3, <2>5, <2>6
<1> QED BY <1>3, <1>4, <1>5, <1>6

LEMMA CleanupKinds ==
  ASSUME AccountsAssumption, Types, NEW j \in jobs, j \in Chains, OnCleanup(j)
  PROVE  Removes(j) \/ Dropped(j)
<1> DEFINE rows == IF j.acc > 0 THEN {j.acc} ELSE Newest(j)
<1>1. rows \in SUBSET IDs
  <2>1. j.acc \in 0..MaxID /\ MaxID \in Nat
    BY ChainFields DEF AccountsAssumption
  <2> QED BY <2>1 DEF IDs, Newest, Inserted
<1>2. j.step = "Cleanup" /\ UNCHANGED <<client, banned, nextID, chains, visits, aborted>>
  BY DEF OnCleanup
<1>3. CASE /\ accounts' = [a \in IDs |-> IF a \in rows THEN NoAccount ELSE accounts[a]]
           /\ nick' = [a \in IDs |-> IF a \in rows THEN NoNick ELSE nick[a]]
           /\ happened' = happened \cup {<<"removed", a>> : a \in {b \in rows : nick[b] # NoNick}}
           /\ jobs' \in {jobs, jobs \ {j}}
  BY <1>1, <1>2, <1>3 DEF Removes
<1>4. CASE End(j) /\ happened' = happened \cup {<<"kept", j.n>>} /\ UNCHANGED <<accounts, nick>>
  BY <1>2, <1>4 DEF Dropped, Unfinished, tables
<1> QED BY <1>3, <1>4 DEF OnCleanup, End

LEMMA PlayerKinds ==
  ASSUME AccountsAssumption, Types, NEW c \in Clients, Player(c)
  PROVE  Kinds
<1>1. /\ \A n : Present(c) <=> client[c].visit # 0
      /\ client[c].visit \in 0..MaxVisits /\ chains \in 0..MaxChains
      /\ client[c].guest \in Nicks \cup {NoNick}
  BY DEF Types, TypeOK, Present
<1>2. Present(c) => client[c].name \in Nicks
  BY DEF Types, ClientsOK
<1>3. ASSUME NEW step \in {"CheckNickname", "Lookup"}, NEW l \in Logins, Present(c), Begin(step, c, l)
      PROVE  Kinds
  <2> DEFINE k == Job(step, chains + 1, c, client[c].name, l, 0)
  <2>1. chains + 1 \in 1..MaxChains /\ 0 \in 0..MaxID
    BY <1>1, <1>3 DEF Begin, AccountsAssumption
  <2>2. /\ k \in Chains /\ k.step = step /\ k.n = chains + 1 /\ k.cid = c /\ k.visit = client[c].visit
        /\ k.nick = client[c].name /\ k.acc = 0
    BY <1>1, <1>2, <1>3, <2>1 DEF Job, Chains, Unwritten, Unfinished
  <2>3. jobs' = jobs \cup {k} /\ chains' = chains + 1 /\ UNCHANGED <<client, tables, visits, aborted, happened>>
    BY <1>3 DEF Begin
  <2> HIDE DEF k
  <2>4. Begins(c, k)
    BY <1>1, <1>3, <2>1, <2>2, <2>3 DEF Begins
  <2> QED BY <2>2, <2>4 DEF Kinds
<1>4. CASE Leave(c)
  <2>1. Drops(c)
    BY <1>4 DEF Leave, Drops
  <2> QED BY <2>1 DEF Kinds
<1>5. CASE BanAccount(c)
  <2>1. IsAuthed(c) /\ Present(c)
    <3>1. IsAuthed(c)
      BY <1>5 DEF BanAccount
    <3>2. client[c] = Absent => ~IsAuthed(c)
      BY DEF Absent, IsAuthed
    <3> QED BY <3>1, <3>2 DEF Types, ClientsOK
  <2>2. /\ jobs' = jobs \cup {Statement("Ban", client[c].on, NoNick)} /\ Drop(c)
        /\ UNCHANGED <<tables, chains, visits, aborted>>
    BY <1>5 DEF BanAccount
  <2>3. Drops(c)
    BY <2>1, <2>2 DEF Drops
  <2> QED BY <2>3 DEF Kinds
<1>6. CASE Play(c)
  <2>1. Present(c) /\ ~IsAuthed(c)
    BY <1>6 DEF Play
  <2>2. CASE StartRegistration(c, BuildGuestCredential(client[c].name))
    BY <1>2, <1>3, <2>1, <2>2 DEF StartRegistration, BuildGuestCredential, Logins
  <2>3. CASE client[c].auth = "guest" /\ StartAuthorization(c, client[c].guest)
    <3>1. client[c].guest \in Nicks
      BY <1>1, <2>1, <2>3 DEF Types, ClientsOK, StartAuthorization
    <3> QED BY <1>3, <2>1, <2>3, <3>1 DEF StartAuthorization, Logins
  <2> QED BY <1>6, <2>2, <2>3 DEF Play
<1>7. ASSUME NEW l \in Secrets, ChatLogin(c, l) \/ ChatRegister(c, l)
      PROVE  Kinds
  BY <1>3, <1>7 DEF ChatLogin, ChatRegister, StartAuthorization, StartRegistration, Logins
<1>8. ASSUME NEW n \in Nicks, OnClientEnter(c, n) \/ SetClientName(c, n) \/ ChangeNickname(c, n)
      PROVE  Kinds
  BY <1>8 DEF Kinds
<1> QED BY <1>4, <1>5, <1>6, <1>7, <1>8 DEF Player

LEMMA ToldKinds ==
  ASSUME AccountsAssumption, Types, NEW j \in jobs, j \in Enters, OnEnterInfo(j)
  PROVE  Told(j)
<1> DEFINE d == j.cid
<1>1. d \in Clients /\ j.nick \in Nicks /\ client \in [Clients -> ClientRecords]
  BY DEF Enters, Types, TypeOK, ClientRecords
<1>2. PICK rows \in Answers(Named(j.nick)) :
        LET guest == BuildGuestCredential(j.nick)
            mine == rows # {} /\ accounts[The(rows)].login # guest IN
        client' = IF ~Present(d) THEN client
                  ELSE [client EXCEPT
                          ![d].auth = IF rows = {} THEN "registration" ELSE IF mine THEN "login" ELSE "guest",
                          ![d].guest = IF mine THEN @ ELSE guest]
  BY DEF OnEnterInfo
<1> DEFINE mine == rows # {} /\ accounts[The(rows)].login # j.nick
           auth == IF rows = {} THEN "registration" ELSE IF mine THEN "login" ELSE "guest"
           guest == IF mine THEN client[d].guest ELSE j.nick
<1>3. /\ auth \in {"login", "registration", "guest"} /\ guest \in Nicks \cup {NoNick}
      /\ auth = "guest" => guest \in Nicks
  BY <1>1 DEF ClientRecords
<1>4. client' = IF ~Present(d) THEN client ELSE [client EXCEPT ![d].auth = auth, ![d].guest = guest]
  BY <1>1, <1>2 DEF BuildGuestCredential
<1> HIDE DEF auth, guest, d
<1>5. CASE ~Present(d)
  BY <1>1, <1>4, <1>5 DEF Told, OnEnterInfo, Same
<1>6. CASE Present(d)
  <2>1. /\ client' \in [Clients -> ClientRecords]
        /\ \A c \in Clients \ {d} : client'[c] = client[c]
        /\ client'[d] = [client[d] EXCEPT !.auth = auth, !.guest = guest]
    BY <1>1, <1>3, <1>4, <1>6 DEF ClientRecords
  <2>2. /\ client'[d].visit = client[d].visit /\ client'[d].name = client[d].name
        /\ client'[d].on = client[d].on /\ client'[d].by = client[d].by
        /\ client'[d].auth = auth /\ client'[d].guest = guest
    BY <1>1, <2>1 DEF ClientRecords
  <2> QED BY <1>3, <1>6, <2>1, <2>2 DEF Told, OnEnterInfo, Same
<1> QED BY <1>5, <1>6

LEMMA StepKinds ==
  ASSUME AccountsAssumption, IInv, [Next]_vars
  PROVE  Kinds
<1>1. Types /\ jobs \subseteq Jobs
  BY DEF IInv, Types, JobsOK
<1>2. ASSUME NEW j \in jobs, Callback(j) PROVE Kinds
  <2>1. /\ j.step \in Steps => j \in Chains
        /\ j.step = "Enter" => j \in Enters
    BY <1>1, Shapes
  <2>2. CASE OnEnterInfo(j)
    BY <1>1, <2>1, <2>2, ToldKinds DEF Kinds, OnEnterInfo
  <2>3. CASE OnCheckNickname(j) \/ OnLookup(j) \/ OnCheckNewNickname(j)
    <3>1. j \in Chains
      BY <2>1, <2>3 DEF OnCheckNickname, OnLookup, OnCheckNewNickname, Steps, Unwritten, Unfinished
    <3> QED BY <1>1, <2>3, <3>1, LookupKinds DEF Kinds
  <2>4. CASE OnCheckCredentials(j) \/ OnCheckBans(j) \/ OnLoadAccountData(j)
    <3>1. j \in Chains
      BY <2>1, <2>4 DEF OnCheckCredentials, OnCheckBans, OnLoadAccountData, Steps, Looked
    <3> QED BY <1>1, <2>4, <3>1, LoginKinds DEF Kinds
  <2>5. CASE OnInsertAccount(j) \/ OnResolveAccountID(j) \/ OnInsertAccountData(j) \/ OnUpdate(j)
    <3>1. j \in Chains
      BY <2>1, <2>5 DEF OnInsertAccount, OnResolveAccountID, OnInsertAccountData, OnUpdate,
                        Steps, Looked, Unwritten, Unfinished
    <3> QED BY <1>1, <2>5, <3>1, RegistrationKinds DEF Kinds
  <2>6. CASE OnRename(j) \/ OnBan(j) \/ Dropped(j)
    BY <2>6 DEF Kinds
  <2>7. CASE OnCleanup(j)
    <3>1. j \in Chains
      BY <2>1, <2>7 DEF OnCleanup, Steps, Unfinished
    <3> QED BY <1>1, <2>7, <3>1, CleanupKinds DEF Kinds
  <2> QED BY <1>2, <2>2, <2>3, <2>4, <2>5, <2>6, <2>7 DEF Callback
<1>3. ASSUME NEW c \in Clients, Player(c) PROVE Kinds
  BY <1>1, <1>3, PlayerKinds
<1>4. CASE Next
  BY <1>2, <1>3, <1>4 DEF Next, Kinds
<1>5. CASE UNCHANGED vars
  BY <1>5 DEF Kinds
<1> QED BY <1>4, <1>5

-----------------------------------------------------------------------------
(* The first state *)

LEMMA InitInv ==
  ASSUME AccountsAssumption, Init
  PROVE  IInv
<1>1. MaxVisits \in Nat /\ MaxChains \in Nat /\ MaxID \in Nat \ {0} /\ NoNick \notin Nicks /\ 1 \in IDs
  BY DEF AccountsAssumption, IDs
<1>2. PICK known \in {{}} \cup {{n} : n \in Nicks}, l \in Logins :
        /\ accounts = [a \in IDs |-> IF a \in 1..Cardinality(known) THEN [login |-> l, salt |-> 0] ELSE NoAccount]
        /\ nick = [a \in IDs |-> IF a \in 1..Cardinality(known) THEN The(known) ELSE NoNick]
        /\ nextID = Cardinality(known) + 1
  BY DEF Init
<1>3. PICK m \in {0, 1} : m = Cardinality(known) /\ (m = 1 => The(known) \in Nicks)
  <2>1. CASE known = {}
    BY <2>1, FS_EmptySet
  <2>2. CASE \E n \in Nicks : known = {n}
    BY <2>2, FS_Singleton, TheIn
  <2> QED BY <2>1, <2>2
<1>4. /\ \A a \in IDs : accounts[a] = IF a \in 1..m THEN [login |-> l, salt |-> 0] ELSE NoAccount
      /\ \A a \in IDs : nick[a] = IF a \in 1..m THEN The(known) ELSE NoNick
      /\ nextID = m + 1
  BY <1>2, <1>3
<1>5. client = [c \in Clients |-> Absent] /\ jobs = {} /\ banned = {} /\ chains = 0 /\ visits = 0 /\ aborted = FALSE
  BY DEF Init
<1>6. /\ \A c \in Clients : client[c] = Absent /\ ~IsAuthed(c) /\ ~Present(c) /\ client[c].auth = "none"
      /\ \A a \in IDs : Online(a) = {}
  BY <1>1, <1>5 DEF Absent, IsAuthed, Present, Online, IDs
<1>7. /\ \A a \in IDs : accounts[a].salt = 0
      /\ \A a \in IDs : a >= nextID => accounts[a] = NoAccount /\ nick[a] = NoNick
      /\ \A a \in IDs : accounts[a] # NoAccount => nick[a] # NoNick
  BY <1>1, <1>3, <1>4 DEF NoAccount, IDs
<1>8. TypeOK
  <2>1. client \in [Clients -> [visit : 0..MaxVisits, name : Nicks \cup {NoNick}, on : 0..MaxID, by : 0..MaxVisits,
                                auth : {"none", "login", "registration", "guest"}, guest : Nicks \cup {NoNick}]]
    BY <1>1, <1>5 DEF Absent
  <2>2. accounts \in [IDs -> [login : Logins \cup {NoNick}, salt : 0..MaxChains]]
    BY <1>1, <1>2 DEF NoAccount
  <2>3. nick \in [IDs -> Nicks \cup {NoNick}]
    BY <1>2, <1>3
  <2>4. \A a, b \in IDs : a # b /\ nick[a] = nick[b] => nick[a] = NoNick
    BY <1>3, <1>4 DEF IDs
  <2>5. nextID \in 1..(MaxID + 1)
    BY <1>1, <1>3, <1>4
  <2>6. banned \subseteq IDs /\ chains \in 0..MaxChains /\ visits \in 0..MaxVisits
    BY <1>1, <1>5
  <2>7. aborted \in BOOLEAN
    BY <1>5
  <2> QED BY <2>1, <2>2, <2>3, <2>4, <2>5, <2>6, <2>7 DEF TypeOK
<1>9. Filled /\ JobsOK /\ ChainsOwn /\ Registering /\ NameLooked
  BY <1>5, <1>7 DEF Filled, JobsOK, ChainsOwn, Registering, NameLooked
<1>10. ClientsOK /\ LoggedInByOneself
  BY <1>6 DEF ClientsOK, LoggedInByOneself
<1>11. OneWayIn /\ BanHolds
  BY <1>5, <1>6 DEF OneWayIn, BanHolds, Loads
<1>12. Salts
  BY <1>5, <1>7 DEF Salts
<1>13. RenamesOwn
  BY <1>5, <1>6 DEF RenamesOwn, Renames
<1>14. NoOrphan
  BY <1>7 DEF NoOrphan
<1> QED BY <1>8, <1>9, <1>10, <1>11, <1>12, <1>13, <1>14 DEF IInv, Names

-----------------------------------------------------------------------------
(* Types *)

\* Who writes the tables.
LEMMA Writers ==
  ASSUME Kinds
  PROVE  \/ UNCHANGED tables
         \/ \E j \in jobs : \/ \E k \in Chains : Inserts(j, k) \/ Writes(j, k)
                            \/ Updates(j) \/ Removes(j) \/ OnRename(j) \/ OnBan(j)
         \/ \E a \in banned : BanEnds(a)
<1>1. ASSUME NEW c \in Clients, NEW n \in Nicks, OnClientEnter(c, n) \/ SetClientName(c, n) \/ ChangeNickname(c, n)
      PROVE  UNCHANGED tables
  BY <1>1 DEF OnClientEnter, SetClientName, ChangeNickname
<1>2. ASSUME NEW c \in Clients, Drops(c) \/ \E k \in Chains : Begins(c, k)
      PROVE  UNCHANGED tables
  BY <1>2 DEF Drops, Begins
<1>3. ASSUME NEW j \in jobs, (\E k \in Chains : Moves(j, k)) \/ Told(j) \/ Ends(j) \/ LogsIn(j) \/ Dropped(j)
      PROVE  UNCHANGED tables
  BY <1>3 DEF Moves, Told, Ends, LogsIn, Dropped
<1>4. Restart \/ UNCHANGED vars => UNCHANGED tables
  BY DEF Restart, vars
<1> QED BY <1>1, <1>2, <1>3, <1>4 DEF Kinds

\* A statement of a registration writes the row it knows.
LEMMA WrittenRow ==
  ASSUME AccountsAssumption, Registering, NEW j \in jobs, j \in Chains, j.step = "InsertAccountData"
  PROVE  j.acc \in IDs /\ j.nick \in Nicks
<1>1. j.acc # 0
  BY DEF Registering, Unfinished
<1>2. j.acc \in 0..MaxID /\ MaxID \in Nat /\ j.nick \in Nicks
  BY ChainFields DEF AccountsAssumption
<1> QED BY <1>1, <1>2 DEF IDs

LEMMA RenamedRow ==
  ASSUME AccountsAssumption, Types, NEW j \in jobs, OnRename(j), nick' # nick
  PROVE  /\ j.acc \in IDs /\ j.nick \in Nicks /\ Unique(j.nick) /\ nick[j.acc] # NoNick
         /\ nick' = [nick EXCEPT ![j.acc] = j.nick]
<1>1. j \in RenameStatements
  BY Shapes DEF OnRename, Types, JobsOK
<1>2. PICK done \in {Unique(j.nick) /\ nick[j.acc] # NoNick, FALSE} :
        nick' = IF done THEN [nick EXCEPT ![j.acc] = j.nick] ELSE nick
  BY DEF OnRename
<1>3. done /\ Unique(j.nick) /\ nick[j.acc] # NoNick
  BY <1>2
<1> QED BY <1>1, <1>2, <1>3 DEF RenameStatements

\* An account that has data keeps it as long as it is there.
Stays == Filled' /\ \A a \in IDs : Known(a) => Known(a)'

LEMMA KnownStays ==
  ASSUME AccountsAssumption, Types, Registering, Kinds
  PROVE  Stays
<1>1. /\ \A a \in IDs : a >= nextID => accounts[a] = NoAccount /\ nick[a] = NoNick
      /\ nick \in [IDs -> Nicks \cup {NoNick}] /\ NoNick \notin Nicks /\ DOMAIN accounts = IDs
      /\ nextID \in Int /\ IDs \subseteq Int
  BY DEF Types, Filled, TypeOK, AccountsAssumption, IDs
<1>2. CASE UNCHANGED tables
  BY <1>1, <1>2 DEF tables, Stays, Filled, Known
<1>3. ASSUME NEW j \in jobs, NEW k \in Chains, Inserts(j, k)
      PROVE  Stays
  <2>1. /\ nextID \in IDs /\ nextID' = nextID + 1 /\ nick' = nick
        /\ \A a \in IDs \ {nextID} : accounts'[a] = accounts[a]
    BY <1>1, <1>3 DEF Inserts
  <2> QED BY <1>1, <2>1 DEF Stays, Filled, Known
<1>4. ASSUME NEW j \in jobs, NEW k \in Chains, Writes(j, k)
      PROVE  Stays
  <2>1. /\ UNCHANGED <<accounts, nextID>> /\ accounts[j.acc] # NoAccount
        /\ nick' = [nick EXCEPT ![j.acc] = j.nick] /\ j.acc \in IDs /\ j.nick \in Nicks
    BY <1>4, WrittenRow DEF Writes, Onward
  <2>2. \A a \in IDs : nick'[a] = IF a = j.acc THEN j.nick ELSE nick[a]
    BY <1>1, <2>1
  <2> QED BY <1>1, <2>1, <2>2 DEF Stays, Filled, Known
<1>5. ASSUME NEW j \in jobs, Updates(j)
      PROVE  Stays
  <2>1. /\ UNCHANGED <<nick, nextID>> /\ accounts[j.acc] # NoAccount
        /\ \A a \in IDs \ {j.acc} : accounts'[a] = accounts[a]
    BY <1>1, <1>5 DEF Updates
  <2> QED BY <1>1, <2>1 DEF Stays, Filled, Known
<1>6. ASSUME NEW j \in jobs, Removes(j)
      PROVE  Stays
  <2>1. PICK rows \in SUBSET IDs :
          /\ accounts' = [a \in IDs |-> IF a \in rows THEN NoAccount ELSE accounts[a]]
          /\ nick' = [a \in IDs |-> IF a \in rows THEN NoNick ELSE nick[a]]
    BY <1>6 DEF Removes
  <2>2. nextID' = nextID
    BY <1>6 DEF Removes
  <2>3. ASSUME NEW a \in IDs
        PROVE  \/ accounts'[a] = NoAccount /\ nick'[a] = NoNick
               \/ accounts'[a] = accounts[a] /\ nick'[a] = nick[a]
    BY <2>1, <2>3
  <2>4. Filled'
    BY <1>1, <2>2, <2>3 DEF Filled
  <2>5. ASSUME NEW a \in IDs, Known(a) PROVE Known(a)'
    BY <1>1, <2>2, <2>3, <2>5 DEF Known
  <2> QED BY <2>4, <2>5 DEF Stays
<1>7. ASSUME NEW j \in jobs, OnRename(j)
      PROVE  Stays
  <2>1. UNCHANGED <<accounts, nextID>>
    BY <1>7 DEF OnRename
  <2>2. CASE UNCHANGED nick
    BY <1>1, <2>1, <2>2 DEF Stays, Filled, Known
  <2>3. CASE nick' # nick
    <3>1. /\ j.acc \in IDs /\ j.nick \in Nicks /\ nick[j.acc] # NoNick
          /\ nick' = [nick EXCEPT ![j.acc] = j.nick]
      BY <1>7, <2>3, RenamedRow
    <3>2. \A a \in IDs : nick'[a] = IF a = j.acc THEN j.nick ELSE nick[a]
      BY <1>1, <3>1
    <3> QED BY <1>1, <2>1, <3>1, <3>2 DEF Stays, Filled, Known
  <2> QED BY <2>2, <2>3
<1>8. ASSUME \/ \E j \in jobs : OnBan(j)
             \/ \E a \in banned : BanEnds(a)
      PROVE  Stays
  BY <1>1, <1>8 DEF OnBan, BanEnds, Stays, Filled, Known
<1> QED BY <1>2, <1>3, <1>4, <1>5, <1>6, <1>7, <1>8, Writers

LEMMA NickKept ==
  ASSUME AccountsAssumption, Types, Registering, Kinds
  PROVE  /\ nick' \in [IDs -> Nicks \cup {NoNick}]
         /\ \A a, b \in IDs : a # b /\ nick'[a] = nick'[b] => nick'[a] = NoNick
<1>1. /\ nick \in [IDs -> Nicks \cup {NoNick}] /\ jobs \subseteq Jobs
      /\ \A a, b \in IDs : a # b /\ nick[a] = nick[b] => nick[a] = NoNick
      /\ NoNick \notin Nicks
  BY DEF Types, TypeOK, JobsOK, AccountsAssumption
<1>2. CASE UNCHANGED nick
  BY <1>1, <1>2
<1>3. ASSUME NEW a \in IDs, NEW n \in Nicks, Unique(n), nick' = [nick EXCEPT ![a] = n]
      PROVE  /\ nick' \in [IDs -> Nicks \cup {NoNick}]
             /\ \A b, d \in IDs : b # d /\ nick'[b] = nick'[d] => nick'[b] = NoNick
  BY <1>1, <1>3 DEF Unique, Named
<1>4. ASSUME NEW j \in jobs, NEW k \in Chains, Writes(j, k)
      PROVE  j.acc \in IDs /\ j.nick \in Nicks /\ Unique(j.nick) /\ nick' = [nick EXCEPT ![j.acc] = j.nick]
  BY <1>4, WrittenRow DEF Writes, Onward
<1>5. ASSUME NEW j \in jobs, OnRename(j), nick' # nick
      PROVE  j.acc \in IDs /\ j.nick \in Nicks /\ Unique(j.nick) /\ nick' = [nick EXCEPT ![j.acc] = j.nick]
  BY <1>5, RenamedRow
<1>6. \/ UNCHANGED nick
      \/ \E j \in jobs : OnRename(j) \/ Removes(j) \/ \E k \in Chains : Writes(j, k)
  BY Writers DEF tables, Inserts, Updates, OnBan, BanEnds
<1>7. ASSUME NEW j \in jobs, Removes(j)
      PROVE  /\ nick' \in [IDs -> Nicks \cup {NoNick}]
             /\ \A b, d \in IDs : b # d /\ nick'[b] = nick'[d] => nick'[b] = NoNick
  <2>1. PICK rows \in SUBSET IDs : nick' = [a \in IDs |-> IF a \in rows THEN NoNick ELSE nick[a]]
    BY <1>7 DEF Removes
  <2> QED BY <1>1, <2>1
<1> QED BY <1>2, <1>3, <1>4, <1>5, <1>6, <1>7

LEMMA TablesTyped ==
  ASSUME AccountsAssumption, Types, Registering, Kinds
  PROVE  /\ accounts' \in [IDs -> [login : Logins \cup {NoNick}, salt : 0..MaxChains]]
         /\ banned' \subseteq IDs /\ nextID' \in 1..(MaxID + 1)
<1>1. /\ accounts \in [IDs -> [login : Logins \cup {NoNick}, salt : 0..MaxChains]]
      /\ banned \subseteq IDs /\ nextID \in 1..(MaxID + 1) /\ jobs \subseteq Jobs
      /\ MaxID \in Nat /\ MaxChains \in Nat
  BY DEF Types, TypeOK, JobsOK, AccountsAssumption
<1>2. NoAccount \in [login : Logins \cup {NoNick}, salt : 0..MaxChains]
  BY <1>1 DEF NoAccount
<1>3. ASSUME NEW j \in Chains
      PROVE  [login |-> j.login, salt |-> j.n] \in [login : Logins \cup {NoNick}, salt : 0..MaxChains]
  BY ChainFields
<1>4. CASE UNCHANGED tables
  BY <1>1, <1>4 DEF tables
<1>5. ASSUME NEW j \in jobs, NEW k \in Chains, Inserts(j, k)
      PROVE  accounts' \in [IDs -> [login : Logins \cup {NoNick}, salt : 0..MaxChains]]
             /\ banned' = banned /\ nextID' \in 1..(MaxID + 1)
  <2>1. j \in Chains /\ nextID \in 1..MaxID
    BY <1>5 DEF Inserts, Onward, IDs
  <2> QED BY <1>1, <1>3, <1>5, <2>1 DEF Inserts
<1>6. ASSUME NEW j \in jobs, (\E k \in Chains : Writes(j, k)) \/ OnRename(j)
      PROVE  UNCHANGED <<accounts, banned, nextID>>
  BY <1>6 DEF Writes, OnRename
<1>7. ASSUME NEW j \in jobs, Updates(j)
      PROVE  accounts' \in [IDs -> [login : Logins \cup {NoNick}, salt : 0..MaxChains]]
             /\ UNCHANGED <<banned, nextID>>
  BY <1>1, <1>3, <1>7 DEF Updates
<1>8. ASSUME NEW j \in jobs, Removes(j)
      PROVE  accounts' \in [IDs -> [login : Logins \cup {NoNick}, salt : 0..MaxChains]]
             /\ UNCHANGED <<banned, nextID>>
  <2>1. PICK rows \in SUBSET IDs : accounts' = [a \in IDs |-> IF a \in rows THEN NoAccount ELSE accounts[a]]
    BY <1>8 DEF Removes
  <2>2. accounts' \in [IDs -> [login : Logins \cup {NoNick}, salt : 0..MaxChains]]
    BY <1>1, <1>2, <2>1
  <2> QED BY <1>8, <2>2 DEF Removes
<1>9. ASSUME NEW j \in jobs, OnBan(j)
      PROVE  UNCHANGED <<accounts, nextID>> /\ banned' \subseteq IDs
  <2>1. j \in BanStatements
    BY <1>1, <1>9, Shapes DEF OnBan
  <2>2. j.acc \in IDs
    BY <2>1 DEF BanStatements
  <2> QED BY <1>1, <1>9, <2>2 DEF OnBan
<1>10. ASSUME NEW a \in banned, BanEnds(a)
       PROVE  UNCHANGED <<accounts, nextID>> /\ banned' \subseteq IDs
  BY <1>1, <1>10 DEF BanEnds
<1> QED BY <1>1, <1>4, <1>5, <1>6, <1>7, <1>8, <1>9, <1>10, Writers

\* Who changes what the clients hold.
LEMMA ClientWriters ==
  ASSUME Kinds
  PROVE  \/ UNCHANGED client
         \/ \E c \in Clients : Drops(c) \/ \E n \in Nicks : OnClientEnter(c, n) \/ SetClientName(c, n) \/ ChangeNickname(c, n)
         \/ \E j \in jobs : Told(j) \/ LogsIn(j)
         \/ Restart
<1>1. ASSUME NEW c \in Clients, NEW k \in Chains, Begins(c, k)
      PROVE  UNCHANGED client
  BY <1>1 DEF Begins
<1>2. ASSUME NEW j \in jobs,
             \/ \E k \in Chains : Moves(j, k) \/ Inserts(j, k) \/ Writes(j, k)
             \/ Ends(j) \/ Updates(j) \/ Removes(j) \/ OnRename(j) \/ OnBan(j) \/ Dropped(j)
      PROVE  UNCHANGED client
  BY <1>2 DEF Moves, Inserts, Writes, Ends, Updates, Removes, OnRename, OnBan, Dropped
<1>3. ASSUME NEW a \in banned, BanEnds(a)
      PROVE  UNCHANGED client
  BY <1>3 DEF BanEnds
<1>4. UNCHANGED vars => UNCHANGED client
  BY DEF vars
<1> QED BY <1>1, <1>2, <1>3, <1>4 DEF Kinds

LEMMA OneClient ==
  ASSUME client \in [Clients -> ClientRecords], NEW c \in Clients, NEW r \in ClientRecords,
         client' = [client EXCEPT ![c] = r]
  PROVE  /\ client' \in [Clients -> ClientRecords]
         /\ client'[c] = r /\ \A d \in Clients \ {c} : client'[d] = client[d]
OBVIOUS

LEMMA AbsentTyped ==
  ASSUME AccountsAssumption
  PROVE  /\ Absent \in ClientRecords /\ Absent.visit = 0 /\ Absent.on = 0 /\ Absent.by = 0 /\ Absent.name = NoNick
         /\ Absent.auth = "none" /\ Absent.guest = NoNick
BY DEF AccountsAssumption, Absent, ClientRecords

\* What one step makes of a client.
LEMMA Arrives ==
  ASSUME AccountsAssumption, Types, NEW c \in Clients, NEW n \in Nicks, OnClientEnter(c, n)
  PROVE  /\ client' \in [Clients -> ClientRecords] /\ \A d \in Clients \ {c} : client'[d] = client[d]
         /\ client'[c].visit = visits + 1 /\ client'[c].name = n /\ client'[c].on = 0
         /\ client'[c].auth = "none" /\ visits + 1 \in 1..MaxVisits
<1> DEFINE r == [Absent EXCEPT !.visit = visits + 1, !.name = n]
<1>1. client \in [Clients -> ClientRecords] /\ visits + 1 \in 1..MaxVisits /\ MaxVisits \in Nat /\ MaxID \in Nat
  <2>1. client \in [Clients -> ClientRecords]
    BY DEF Types, TypeOK, ClientRecords
  <2>2. visits \in 0..MaxVisits
    BY DEF Types, TypeOK
  <2>3. MaxVisits \in Nat /\ MaxID \in Nat /\ visits < MaxVisits
    BY DEF OnClientEnter, AccountsAssumption
  <2> QED BY <2>1, <2>2, <2>3
<1>2. /\ r \in ClientRecords /\ r.visit = visits + 1 /\ r.name = n /\ r.on = 0 /\ r.auth = "none"
  <2>1. visits + 1 \in 0..MaxVisits
    BY <1>1
  <2> QED BY <2>1, AbsentTyped DEF ClientRecords
<1>3. client' = [client EXCEPT ![c] = r]
  BY DEF OnClientEnter
<1> HIDE DEF r
<1>4. /\ client' \in [Clients -> ClientRecords]
      /\ client'[c] = r /\ \A d \in Clients \ {c} : client'[d] = client[d]
  BY <1>1, <1>2, <1>3, OneClient
<1> QED BY <1>1, <1>2, <1>4

LEMMA Resets ==
  ASSUME AccountsAssumption, Types, NEW c \in Clients, Drop(c)
  PROVE  /\ client' \in [Clients -> ClientRecords] /\ \A d \in Clients \ {c} : client'[d] = client[d]
         /\ client'[c] = Absent
<1>1. client \in [Clients -> ClientRecords] /\ client' = [client EXCEPT ![c] = Absent] /\ Absent \in ClientRecords
  BY AbsentTyped DEF Types, TypeOK, ClientRecords, Drop, OnClientReset
<1> QED BY <1>1, OneClient

LEMMA Renamed ==
  ASSUME AccountsAssumption, Types, NEW c \in Clients, NEW n \in Nicks, client' = [client EXCEPT ![c].name = n]
  PROVE  /\ client' \in [Clients -> ClientRecords] /\ \A d \in Clients \ {c} : client'[d] = client[d]
         /\ client'[c].name = n /\ client'[c].visit = client[c].visit /\ client'[c].on = client[c].on
         /\ client'[c].by = client[c].by /\ client'[c].auth = client[c].auth /\ client'[c].guest = client[c].guest
<1> DEFINE r == [client[c] EXCEPT !.name = n]
<1>1. client \in [Clients -> ClientRecords]
  BY DEF Types, TypeOK, ClientRecords
<1>2. /\ r \in ClientRecords /\ r.name = n /\ r.visit = client[c].visit /\ r.on = client[c].on
      /\ r.by = client[c].by /\ r.auth = client[c].auth /\ r.guest = client[c].guest
  BY <1>1 DEF ClientRecords
<1>3. client' = [client EXCEPT ![c] = r]
  OBVIOUS
<1> HIDE DEF r
<1>4. /\ client' \in [Clients -> ClientRecords]
      /\ client'[c] = r /\ \A d \in Clients \ {c} : client'[d] = client[d]
  BY <1>1, <1>2, <1>3, OneClient
<1> QED BY <1>2, <1>4

LEMMA LoggedIn ==
  ASSUME AccountsAssumption, Types, NEW j \in jobs, LogsIn(j)
  PROVE  LET c == j.cid IN
         /\ c \in Clients /\ j.acc \in IDs /\ Known(j.acc)
         /\ client' \in [Clients -> ClientRecords] /\ \A d \in Clients \ {c} : client'[d] = client[d]
         /\ client'[c].on = j.acc /\ client'[c].by = j.visit
         /\ client'[c].visit = client[c].visit /\ client'[c].name = client[c].name
<1> DEFINE c == j.cid
<1>1. PICK g \in Nicks \cup {NoNick} :
        client' = [client EXCEPT ![c] = [@ EXCEPT !.on = j.acc, !.by = j.visit, !.guest = g]]
  BY DEF LogsIn
<1> DEFINE r == [client[c] EXCEPT !.on = j.acc, !.by = j.visit, !.guest = g]
<1>2. client \in [Clients -> ClientRecords] /\ c \in Clients /\ j.acc \in 0..MaxID /\ j.visit \in 0..MaxVisits
  BY ChainFields DEF Types, TypeOK, ClientRecords, LogsIn
<1>3. Known(j.acc) /\ j.acc \in IDs
  BY DEF Types, JobsOK, LogsIn, Looked, Known
<1>4. /\ r \in ClientRecords /\ r.on = j.acc /\ r.by = j.visit
      /\ r.visit = client[c].visit /\ r.name = client[c].name
  BY <1>2 DEF ClientRecords
<1>5. client' = [client EXCEPT ![c] = r]
  BY <1>1, <1>2
<1> HIDE DEF r
<1>6. /\ client' \in [Clients -> ClientRecords]
      /\ client'[c] = r /\ \A d \in Clients \ {c} : client'[d] = client[d]
  BY <1>2, <1>4, <1>5, OneClient
<1> QED BY <1>2, <1>3, <1>4, <1>6

LEMMA ClientsKept ==
  ASSUME AccountsAssumption, Types, Registering, Kinds
  PROVE  client' \in [Clients -> ClientRecords] /\ ClientsOK'
<1> DEFINE KnownNext(a) == a \in IDs /\ a < nextID' /\ (accounts'[a] # NoAccount => nick'[a] # NoNick)
           OK(c) == /\ client'[c].visit = 0 => client'[c] = Absent
                    /\ client'[c].visit # 0 => client'[c].name \in Nicks
                    /\ client'[c].on # 0 => KnownNext(client'[c].on)
                    /\ client'[c].on = 0 /\ client'[c].auth = "guest" => client'[c].guest \in Nicks
<1>0. \A a : Known(a) => KnownNext(a)
  BY KnownStays DEF Stays, Known
<1>1. /\ client \in [Clients -> ClientRecords]
      /\ \A c \in Clients : /\ client[c].visit = 0 => client[c] = Absent
                            /\ client[c].visit # 0 => client[c].name \in Nicks
                            /\ client[c].on # 0 => KnownNext(client[c].on)
                            /\ client[c].on = 0 /\ client[c].auth = "guest" => client[c].guest \in Nicks
  BY <1>0 DEF Types, TypeOK, ClientRecords, ClientsOK, Present, IsAuthed
<1>2. ASSUME NEW c \in Clients, client'[c] = client[c] PROVE OK(c)
  BY <1>1, <1>2
<1>3. ASSUME NEW c \in Clients, client'[c] = Absent PROVE OK(c)
  BY <1>3, AbsentTyped
<1>4. SUFFICES client' \in [Clients -> ClientRecords] /\ \A c \in Clients : OK(c)
  BY DEF ClientsOK, Present, IsAuthed, Known
<1>5. CASE UNCHANGED client
  BY <1>1, <1>2, <1>5
<1>6. ASSUME NEW c \in Clients, NEW n \in Nicks, OnClientEnter(c, n)
      PROVE  client' \in [Clients -> ClientRecords] /\ \A d \in Clients : OK(d)
  <2>1. /\ client' \in [Clients -> ClientRecords] /\ \A d \in Clients \ {c} : client'[d] = client[d]
        /\ client'[c].visit = visits + 1 /\ client'[c].name = n /\ client'[c].on = 0
        /\ client'[c].auth = "none" /\ visits + 1 \in 1..MaxVisits
    BY <1>6, Arrives DEF Types
  <2>2. OK(c)
    BY <2>1
  <2> QED BY <1>2, <2>1, <2>2
<1>7. ASSUME NEW c \in Clients, NEW n \in Nicks, SetClientName(c, n) \/ ChangeNickname(c, n)
      PROVE  client' \in [Clients -> ClientRecords] /\ \A d \in Clients : OK(d)
  <2>1. client' = [client EXCEPT ![c].name = n] /\ client[c].visit # 0
    BY <1>1, <1>7, AbsentTyped DEF SetClientName, ChangeNickname, Present, IsAuthed
  <2>2. /\ client' \in [Clients -> ClientRecords] /\ \A d \in Clients \ {c} : client'[d] = client[d]
        /\ client'[c].name = n /\ client'[c].visit = client[c].visit /\ client'[c].on = client[c].on
        /\ client'[c].by = client[c].by /\ client'[c].auth = client[c].auth /\ client'[c].guest = client[c].guest
    BY <2>1, Renamed DEF Types
  <2>3. OK(c)
    BY <1>1, <2>1, <2>2
  <2> QED BY <1>2, <2>2, <2>3
<1>8. ASSUME NEW c \in Clients, Drops(c)
      PROVE  client' \in [Clients -> ClientRecords] /\ \A d \in Clients : OK(d)
  <2>1. /\ client' \in [Clients -> ClientRecords] /\ \A d \in Clients \ {c} : client'[d] = client[d]
        /\ client'[c] = Absent
    BY <1>8, Resets DEF Types, Drops
  <2> QED BY <1>2, <1>3, <2>1
<1>9. ASSUME NEW j \in jobs, Told(j)
      PROVE  client' \in [Clients -> ClientRecords] /\ \A d \in Clients : OK(d)
  <2>1. client' \in [Clients -> ClientRecords]
    BY <1>9 DEF Told
  <2>2. ASSUME NEW c \in Clients PROVE OK(c)
    <3>1. /\ client'[c].visit = client[c].visit /\ client'[c].name = client[c].name
          /\ client'[c].on = client[c].on
          /\ client[c].visit = 0 => client'[c] = client[c]
          /\ client'[c] = client[c] \/ client'[c].auth # "guest" \/ client'[c].guest \in Nicks
      BY <1>9 DEF Told, Same, Present
    <3> QED BY <1>1, <3>1
  <2> QED BY <2>1, <2>2
<1>10. ASSUME NEW j \in jobs, LogsIn(j)
       PROVE  client' \in [Clients -> ClientRecords] /\ \A d \in Clients : OK(d)
  <2> DEFINE c == j.cid
  <2>1. /\ c \in Clients /\ j.acc \in IDs /\ Known(j.acc)
        /\ client' \in [Clients -> ClientRecords] /\ \A d \in Clients \ {c} : client'[d] = client[d]
        /\ client'[c].on = j.acc /\ client'[c].visit = client[c].visit /\ client'[c].name = client[c].name
    BY <1>10, LoggedIn DEF Types
  <2>2. client[c].visit # 0
    BY <1>10 DEF LogsIn, Present
  <2> HIDE DEF c
  <2>3. KnownNext(j.acc) /\ j.acc # 0
    BY <1>0, <2>1 DEF IDs
  <2>4. OK(c)
    BY <1>1, <2>1, <2>2, <2>3
  <2> QED BY <1>2, <2>1, <2>4
<1>11. CASE Restart
  <2>1. client' = [c \in Clients |-> Absent]
    BY <1>11 DEF Restart
  <2> QED BY <1>3, <2>1, AbsentTyped
<1> QED BY <1>5, <1>6, <1>7, <1>8, <1>9, <1>10, <1>11, ClientWriters

LEMMA CountersKept ==
  ASSUME AccountsAssumption, Types, Kinds
  PROVE  chains' \in 0..MaxChains /\ chains <= chains' /\ visits' \in 0..MaxVisits /\ aborted' \in BOOLEAN
<1>1. chains \in 0..MaxChains
  BY DEF Types, TypeOK
<1>2. visits \in 0..MaxVisits
  BY DEF Types, TypeOK
<1>3. aborted \in BOOLEAN
  BY DEF Types, TypeOK
<1>4. MaxChains \in Nat /\ MaxVisits \in Nat
  BY DEF AccountsAssumption
<1> DEFINE Only == UNCHANGED <<chains, visits, aborted>>
<1>5. ASSUME NEW c \in Clients, NEW n \in Nicks, OnClientEnter(c, n)
      PROVE  UNCHANGED <<chains, aborted>> /\ visits' \in 0..MaxVisits
  BY <1>2, <1>4, <1>5 DEF OnClientEnter
<1>6. ASSUME NEW c \in Clients, NEW n \in Nicks, SetClientName(c, n) \/ ChangeNickname(c, n) \/ Drops(c)
      PROVE  Only
  BY <1>6 DEF SetClientName, ChangeNickname, Drops
<1>7. ASSUME NEW c \in Clients, NEW k \in Chains, Begins(c, k)
      PROVE  UNCHANGED <<visits, aborted>> /\ chains' \in 0..MaxChains /\ chains <= chains'
  BY <1>1, <1>4, <1>7 DEF Begins
<1>8. ASSUME NEW j \in jobs, NEW k \in Chains, Moves(j, k) \/ Inserts(j, k) \/ Writes(j, k)
      PROVE  Only
  BY <1>8 DEF Moves, Inserts, Writes
<1>9. ASSUME NEW j \in jobs,
             Told(j) \/ LogsIn(j) \/ Updates(j) \/ Removes(j) \/ OnRename(j) \/ OnBan(j) \/ Dropped(j)
      PROVE  Only
  BY <1>9 DEF Told, LogsIn, Updates, Removes, OnRename, OnBan, Dropped
<1>10. ASSUME NEW j \in jobs, Ends(j)
       PROVE  UNCHANGED <<chains, visits>> /\ aborted' \in BOOLEAN
  BY <1>10 DEF Ends
<1>11. ASSUME Restart \/ UNCHANGED vars \/ \E a \in banned : BanEnds(a)
       PROVE  Only
  BY <1>11 DEF Restart, BanEnds, vars
<1>12. ASSUME NEW c \in Clients, Drops(c) PROVE Only
  BY <1>12 DEF Drops
<1>13. Only => chains' \in 0..MaxChains /\ chains <= chains' /\ visits' \in 0..MaxVisits /\ aborted' \in BOOLEAN
  BY <1>1, <1>2, <1>3
<1>14. chains <= chains
  BY <1>1
<1> HIDE DEF Only
<1> QED BY <1>1, <1>2, <1>3, <1>5, <1>6, <1>7, <1>8, <1>9, <1>10, <1>11, <1>12, <1>13, <1>14 DEF Kinds

\* A statement that may be in the pool.
Fine(k) == k \in Jobs /\ (k.step \in Looked \cup {"Rename", "Ban"} => Known(k.acc))

\* What a step does to the statements in the pool.
LEMMA Pool ==
  ASSUME AccountsAssumption, Types, Registering, Kinds
  PROVE  \/ jobs' \subseteq jobs
         \/ \E k : Fine(k) /\ k \notin Chains /\ jobs' = jobs \cup {k}
         \/ \E c \in Clients, k \in Chains : Fine(k) /\ Begins(c, k)
         \/ \E j \in jobs, k \in Chains :
              Fine(k) /\ Onward(j, k) /\ (Moves(j, k) \/ Inserts(j, k) \/ Writes(j, k))
<1>1. ASSUME NEW c \in Clients, NEW n \in Nicks, OnClientEnter(c, n)
      PROVE  \E k : Fine(k) /\ k \notin Chains /\ jobs' = jobs \cup {k}
  <2> DEFINE k == [step |-> "Enter", cid |-> c, nick |-> n]
  <2>1. Fine(k) /\ k \notin Chains
    BY DEF Fine, Jobs, Enters, Chains, Looked, Unwritten, Unfinished
  <2> QED BY <1>1, <2>1 DEF OnClientEnter
<1>2. ASSUME NEW c \in Clients, NEW n \in Nicks, SetClientName(c, n)
      PROVE  jobs' = jobs
  BY <1>2 DEF SetClientName
<1>3. ASSUME NEW c \in Clients, IsAuthed(c), NEW k \in {Statement("Rename", client[c].on, n) : n \in Nicks}
                                                        \cup {Statement("Ban", client[c].on, NoNick)}
      PROVE  Fine(k) /\ k \notin Chains
  <2>1. Known(client[c].on) /\ client[c].on \in IDs
    BY <1>3 DEF Types, ClientsOK, Known
  <2> QED BY <2>1, <1>3 DEF Fine, Jobs, Statement, RenameStatements, BanStatements, Chains, Looked, Unwritten, Unfinished
<1>4. ASSUME NEW c \in Clients, NEW n \in Nicks, ChangeNickname(c, n)
      PROVE  \E k : Fine(k) /\ k \notin Chains /\ jobs' = jobs \cup {k}
  <2> DEFINE k == Statement("Rename", client[c].on, n)
  <2>1. IsAuthed(c) /\ jobs' = jobs \cup {k}
    BY <1>4 DEF ChangeNickname, Rename
  <2>2. k \in {Statement("Rename", client[c].on, m) : m \in Nicks}
    OBVIOUS
  <2> HIDE DEF k
  <2>3. Fine(k) /\ k \notin Chains
    BY <1>3, <2>1, <2>2
  <2> QED BY <2>1, <2>3
<1>5. ASSUME NEW c \in Clients, Drops(c)
      PROVE  jobs' = jobs \/ \E k : Fine(k) /\ k \notin Chains /\ jobs' = jobs \cup {k}
  <2> DEFINE k == Statement("Ban", client[c].on, NoNick)
  <2>1. jobs' = jobs \/ (IsAuthed(c) /\ jobs' = jobs \cup {k})
    BY <1>5 DEF Drops
  <2>2. IsAuthed(c) => Fine(k) /\ k \notin Chains
    BY <1>3
  <2> QED BY <2>1, <2>2
<1>6. ASSUME NEW c \in Clients, NEW k \in Chains, Begins(c, k)
      PROVE  Fine(k) /\ Begins(c, k)
  BY <1>6 DEF Begins, Fine, Jobs, Looked
<1>7. ASSUME NEW j \in jobs, NEW k \in Chains, Moves(j, k)
      PROVE  Fine(k) /\ Onward(j, k)
  <2>1. Onward(j, k) /\ k \in Jobs /\ j.nick \in Nicks
    BY <1>7, ChainFields DEF Moves, Onward, Jobs
  <2>2. CASE LooksUp(j, k)
    <3>1. k.acc \in IDs /\ nick[k.acc] # NoNick
      BY <2>1, <2>2 DEF LooksUp, Named, AccountsAssumption
    <3>2. k.acc < nextID
      BY <3>1 DEF Types, Filled, TypeOK, IDs, AccountsAssumption
    <3> QED BY <2>1, <3>1, <3>2 DEF Fine, Known
  <2>3. CASE Passes(j, k) \/ MayLoadNow(j, k)
    BY <2>1, <2>3 DEF Passes, MayLoadNow, Fine, Types, JobsOK, Looked
  <2>4. CASE Proceeds(j, k) \/ Resolves(j, k)
    BY <2>1, <2>4 DEF Proceeds, Resolves, Fine, Looked
  <2> QED BY <1>7, <2>2, <2>3, <2>4 DEF Moves
<1>8. ASSUME NEW j \in jobs, NEW k \in Chains, Inserts(j, k) \/ Writes(j, k)
      PROVE  Fine(k) /\ Onward(j, k)
  BY <1>8 DEF Inserts, Writes, Fine, Jobs, Looked
<1>9. ASSUME NEW j \in jobs,
             Told(j) \/ Ends(j) \/ LogsIn(j) \/ Updates(j) \/ Removes(j) \/ OnRename(j) \/ OnBan(j) \/ Dropped(j)
      PROVE  jobs' \subseteq jobs
  BY <1>9 DEF Told, Ends, LogsIn, Updates, Removes, OnRename, OnBan, Dropped, End
<1>10. ASSUME Restart \/ UNCHANGED vars \/ \E a \in banned : BanEnds(a)
       PROVE  jobs' \subseteq jobs
  BY <1>10 DEF Restart, BanEnds, vars
<1> QED BY <1>1, <1>2, <1>4, <1>5, <1>6, <1>7, <1>8, <1>9, <1>10 DEF Kinds

LEMMA JobsKept ==
  ASSUME AccountsAssumption, Types, Registering, Kinds
  PROVE  JobsOK'
<1> DEFINE Needs(k) == k.step \in Looked \cup {"Rename", "Ban"}
           KnownNext(a) == a \in IDs /\ a < nextID' /\ (accounts'[a] # NoAccount => nick'[a] # NoNick)
<1>0. \A a : Known(a) => KnownNext(a)
  BY KnownStays DEF Stays, Known
<1>1. /\ jobs \subseteq Jobs
      /\ \A j \in jobs : Needs(j) => KnownNext(j.acc)
      /\ \A j \in jobs : j \in Chains => j.n <= chains
      /\ \A j, k \in jobs : j \in Chains /\ k \in Chains /\ j.n = k.n => j = k
  BY <1>0 DEF Types, JobsOK
<1>2. chains <= chains' /\ chains \in Nat /\ chains' \in Nat
  <2>1. chains \in Nat
    BY DEF Types, TypeOK, AccountsAssumption
  <2> QED BY <2>1, CountersKept DEF AccountsAssumption
<1>3. \A j \in Chains : j.n \in Nat
  BY ChainFields DEF AccountsAssumption
<1>4. ASSUME NEW k, Fine(k)
      PROVE  k \in Jobs /\ (Needs(k) => KnownNext(k.acc))
  BY <1>0, <1>4 DEF Fine
<1>5. ASSUME NEW k \in jobs
      PROVE  /\ k \in Jobs /\ (Needs(k) => KnownNext(k.acc))
             /\ k \in Chains => k.n <= chains'
  BY <1>1, <1>2, <1>3, <1>5
<1> DEFINE Goal ==
      /\ jobs' \subseteq Jobs
      /\ \A j \in jobs' : Needs(j) => KnownNext(j.acc)
      /\ \A j \in jobs' : j \in Chains => j.n <= chains'
      /\ \A j, k \in jobs' : j \in Chains /\ k \in Chains /\ j.n = k.n => j = k
<1> HIDE DEF Needs, KnownNext
<1>6. ASSUME jobs' \subseteq jobs PROVE Goal
  BY <1>1, <1>5, <1>6
<1>7. ASSUME NEW k, Fine(k), k \notin Chains, jobs' = jobs \cup {k}
      PROVE  Goal
  BY <1>1, <1>4, <1>5, <1>7
<1>8. ASSUME NEW c \in Clients, NEW k \in Chains, Fine(k), Begins(c, k)
      PROVE  Goal
  <2>0. k.n = chains + 1 /\ jobs' = jobs \cup {k} /\ chains' = chains + 1
    BY <1>8 DEF Begins
  <2>1. \A j \in jobs : j \in Chains => j.n # k.n
    BY <1>1, <1>2, <1>3, <2>0
  <2>2. k.n <= chains'
    BY <1>2, <2>0
  <2> QED BY <1>1, <1>4, <1>5, <1>8, <2>0, <2>1, <2>2
<1>9. ASSUME NEW j \in jobs, NEW k \in Chains, Fine(k), Onward(j, k)
      PROVE  Goal
  <2>1. jobs' = (jobs \ {j}) \cup {k} /\ k.n = j.n /\ j \in Chains
    BY <1>9 DEF Onward
  <2>2. \A i \in jobs \ {j} : i \in Chains => i.n # k.n
    BY <1>1, <2>1
  <2>3. k.n <= chains'
    BY <1>5, <2>1
  <2> QED BY <1>1, <1>4, <1>5, <1>9, <2>1, <2>2, <2>3
<1> HIDE DEF Goal
<1>10. Goal
  BY <1>6, <1>7, <1>8, <1>9, Pool
<1> QED BY <1>10 DEF Goal, JobsOK, Known, KnownNext, Needs

LEMMA TypesKept ==
  ASSUME AccountsAssumption, Types, Registering, Kinds
  PROVE  Types'
<1>1. /\ client' \in [Clients -> [visit : 0..MaxVisits, name : Nicks \cup {NoNick}, on : 0..MaxID, by : 0..MaxVisits,
                                  auth : {"none", "login", "registration", "guest"}, guest : Nicks \cup {NoNick}]]
      /\ ClientsOK'
  BY ClientsKept DEF ClientRecords
<1>2. TypeOK'
  <2>1. /\ nick' \in [IDs -> Nicks \cup {NoNick}]
        /\ \A a, b \in IDs : a # b /\ nick'[a] = nick'[b] => nick'[a] = NoNick
    BY NickKept
  <2>2. /\ accounts' \in [IDs -> [login : Logins \cup {NoNick}, salt : 0..MaxChains]]
        /\ banned' \subseteq IDs /\ nextID' \in 1..(MaxID + 1)
    BY TablesTyped
  <2>3. chains' \in 0..MaxChains /\ visits' \in 0..MaxVisits /\ aborted' \in BOOLEAN
    BY CountersKept
  <2> QED BY <1>1, <2>1, <2>2, <2>3 DEF TypeOK
<1>3. Filled'
  BY KnownStays DEF Stays
<1> QED BY <1>1, <1>2, <1>3, JobsKept DEF Types

-----------------------------------------------------------------------------
(* Whose a chain is *)

\* What has happened has happened.
LEMMA BlameStays ==
  ASSUME Kinds
  PROVE  happened \subseteq happened'
<1>1. ASSUME NEW c \in Clients, NEW n \in Nicks, OnClientEnter(c, n) \/ SetClientName(c, n) \/ ChangeNickname(c, n)
      PROVE  happened \subseteq happened'
  BY <1>1 DEF OnClientEnter, SetClientName, ChangeNickname
<1>2. ASSUME NEW c \in Clients, Drops(c) \/ \E k \in Chains : Begins(c, k)
      PROVE  happened \subseteq happened'
  BY <1>2 DEF Drops, Drop, Begins
<1>3. ASSUME NEW j \in jobs, NEW k \in Chains, Moves(j, k) \/ Inserts(j, k) \/ Writes(j, k)
      PROVE  happened \subseteq happened'
  BY <1>3 DEF Moves, LooksUp, Passes, MayLoadNow, Proceeds, Resolves, Inserts, Writes
<1>4. ASSUME NEW j \in jobs,
             Told(j) \/ Ends(j) \/ LogsIn(j) \/ Updates(j) \/ Removes(j) \/ OnRename(j) \/ OnBan(j) \/ Dropped(j)
      PROVE  happened \subseteq happened'
  BY <1>4 DEF Told, Ends, LogsIn, Updates, Removes, OnRename, OnBan, Dropped
<1>5. ASSUME Restart \/ UNCHANGED vars \/ \E a \in banned : BanEnds(a)
      PROVE  happened \subseteq happened'
  BY <1>5 DEF Restart, BanEnds, vars
<1> QED BY <1>1, <1>2, <1>3, <1>4, <1>5 DEF Kinds

\* A statement with a step of its own is no chain.
LEMMA ChainIn ==
  ASSUME NEW j \in Jobs, Chain(j)
  PROVE  j \in Chains /\ j.cid \in Clients
BY Shapes, ChainFields DEF Chain

LEMMA ChainsOwnKept ==
  ASSUME AccountsAssumption, Types, Registering, ChainsOwn, Kinds
  PROVE  ChainsOwn'
<1> DEFINE Owned(j) == \/ <<"deserted", j.cid>> \in happened'
                       \/ /\ client'[j.cid].visit # 0 /\ client'[j.cid].visit = j.visit
                          /\ \/ client'[j.cid].on # 0 \/ client'[j.cid].name = j.nick
                             \/ <<"renamed", j.cid>> \in happened'
<1>1. \A j \in jobs : Chain(j) =>
        /\ j \in Chains /\ j.cid \in Clients
        /\ \/ <<"deserted", j.cid>> \in happened
           \/ /\ client[j.cid].visit # 0 /\ client[j.cid].visit = j.visit
              /\ client[j.cid].on # 0 \/ client[j.cid].name = j.nick \/ <<"renamed", j.cid>> \in happened
  BY ChainIn DEF ChainsOwn, Blamed, Present, IsAuthed, Types, JobsOK
<1>2. happened \subseteq happened'
  BY BlameStays
<1>3. SUFFICES \A j \in jobs' : Chain(j) => Owned(j)
  BY DEF ChainsOwn, Blamed, Present, IsAuthed
<1>4. ASSUME NEW j \in jobs, Chain(j), Same(j.cid)
      PROVE  Owned(j)
  BY <1>1, <1>2, <1>4 DEF Same
<1>5. ASSUME NEW k, Fine(k), k \notin Chains
      PROVE  ~Chain(k)
  BY <1>5, ChainIn DEF Fine
<1>6. CASE \A c \in Clients : Same(c)
  <2>1. \A j \in jobs : Chain(j) => Owned(j)
    BY <1>1, <1>4, <1>6
  <2>2. ASSUME NEW c \in Clients, NEW k \in Chains, Begins(c, k)
        PROVE  Owned(k)
    BY <1>6, <2>2 DEF Begins, Same, Present
  <2>3. ASSUME NEW j \in jobs, NEW k \in Chains, Onward(j, k)
        PROVE  Owned(k)
    <3>1. Chain(j) /\ k.cid = j.cid /\ k.visit = j.visit /\ k.nick = j.nick
      BY <2>3 DEF Onward
    <3>2. Owned(j)
      BY <2>1, <3>1
    <3> QED BY <3>1, <3>2
  <2> HIDE DEF Owned
  <2>4. ASSUME NEW c \in Clients, NEW k \in Chains, Begins(c, k)
        PROVE  \A j \in jobs' : Chain(j) => Owned(j)
    BY <2>1, <2>2, <2>4 DEF Begins
  <2>5. ASSUME NEW j \in jobs, NEW k \in Chains, Onward(j, k)
        PROVE  \A i \in jobs' : Chain(i) => Owned(i)
    BY <2>1, <2>3, <2>5 DEF Onward
  <2> QED BY <1>5, <2>1, <2>4, <2>5, Pool
<1>7. ASSUME NEW c \in Clients, NEW n \in Nicks, OnClientEnter(c, n)
      PROVE  \A j \in jobs' : Chain(j) => Owned(j)
  <2>1. /\ client[c].visit = 0 /\ \A d \in Clients \ {c} : client'[d] = client[d]
        /\ jobs' = jobs \cup {[step |-> "Enter", cid |-> c, nick |-> n]}
    BY <1>7, Arrives DEF OnClientEnter, Present
  <2>2. \A j \in jobs : Chain(j) => Owned(j)
    <3>1. ASSUME NEW j \in jobs, Chain(j), j.cid = c PROVE Owned(j)
      BY <1>1, <1>2, <2>1, <3>1
    <3>2. ASSUME NEW j \in jobs, Chain(j), j.cid # c PROVE Owned(j)
      BY <1>1, <1>4, <2>1, <3>2 DEF Same
    <3> QED BY <3>1, <3>2
  <2>3. ~Chain([step |-> "Enter", cid |-> c, nick |-> n])
    BY DEF Chain
  <2> HIDE DEF Owned
  <2> QED BY <2>1, <2>2, <2>3
<1>8. ASSUME NEW c \in Clients, NEW n \in Nicks, SetClientName(c, n)
      PROVE  \A j \in jobs' : Chain(j) => Owned(j)
  <2>1. /\ jobs' = jobs /\ client' = [client EXCEPT ![c].name = n]
        /\ happened' = happened \cup IF ChainsOf(c) = {} THEN {} ELSE {<<"renamed", c>>}
    BY <1>8 DEF SetClientName
  <2>2. client'[c].visit = client[c].visit /\ \A d \in Clients \ {c} : client'[d] = client[d]
    BY <2>1, Renamed
  <2>3. ASSUME NEW j \in jobs, Chain(j), j.cid = c PROVE Owned(j)
    <3>1. <<"renamed", c>> \in happened'
      BY <2>1, <2>3 DEF ChainsOf
    <3> QED BY <1>1, <1>2, <2>2, <2>3, <3>1
  <2>4. ASSUME NEW j \in jobs, Chain(j), j.cid # c PROVE Owned(j)
    BY <1>1, <1>4, <2>2, <2>4 DEF Same
  <2> QED BY <2>1, <2>3, <2>4
<1>9. ASSUME NEW c \in Clients, NEW n \in Nicks, ChangeNickname(c, n)
      PROVE  \A j \in jobs' : Chain(j) => Owned(j)
  <2>1. /\ jobs' = jobs \cup {Statement("Rename", client[c].on, n)} /\ client[c].on # 0
        /\ client' = [client EXCEPT ![c].name = n]
    BY <1>9 DEF ChangeNickname, Rename, IsAuthed
  <2>2. /\ client'[c].visit = client[c].visit /\ client'[c].on = client[c].on
        /\ \A d \in Clients \ {c} : client'[d] = client[d]
    BY <2>1, Renamed
  <2>3. ASSUME NEW j \in jobs, Chain(j), j.cid = c PROVE Owned(j)
    BY <1>1, <1>2, <2>1, <2>2, <2>3
  <2>4. ASSUME NEW j \in jobs, Chain(j), j.cid # c PROVE Owned(j)
    BY <1>1, <1>4, <2>2, <2>4 DEF Same
  <2>5. ~Chain(Statement("Rename", client[c].on, n))
    BY DEF Chain, Statement
  <2> HIDE DEF Owned
  <2> QED BY <2>1, <2>3, <2>4, <2>5
<1>10. ASSUME NEW c \in Clients, Drops(c)
       PROVE  \A j \in jobs' : Chain(j) => Owned(j)
  <2>1. /\ jobs' \in {jobs, jobs \cup {Statement("Ban", client[c].on, NoNick)}}
        /\ happened' = happened \cup Leaves(c) /\ \A d \in Clients \ {c} : client'[d] = client[d]
    BY <1>10, Resets DEF Drops, Drop
  <2>2. ASSUME NEW j \in jobs, Chain(j), j.cid = c PROVE Owned(j)
    <3>1. <<"deserted", c>> \in happened'
      BY <2>1, <2>2 DEF ChainsOf, Leaves
    <3> QED BY <2>2, <3>1
  <2>3. ASSUME NEW j \in jobs, Chain(j), j.cid # c PROVE Owned(j)
    BY <1>1, <1>4, <2>1, <2>3 DEF Same
  <2>4. ~Chain(Statement("Ban", client[c].on, NoNick))
    BY DEF Chain, Statement
  <2> HIDE DEF Owned
  <2> QED BY <2>1, <2>2, <2>3, <2>4
<1>11. ASSUME NEW l \in jobs, LogsIn(l)
       PROVE  \A j \in jobs' : Chain(j) => Owned(j)
  <2> DEFINE c == l.cid
  <2>1. /\ c \in Clients /\ l.acc \in IDs /\ \A d \in Clients \ {c} : client'[d] = client[d]
        /\ client'[c].on = l.acc /\ client'[c].visit = client[c].visit
    BY <1>11, LoggedIn
  <2>2. jobs' = jobs \ {l} /\ l.acc # 0
    BY <1>11, <2>1 DEF LogsIn, IDs
  <2> HIDE DEF c
  <2>3. ASSUME NEW j \in jobs, Chain(j), j.cid = c PROVE Owned(j)
    BY <1>1, <1>2, <2>1, <2>2, <2>3
  <2>4. ASSUME NEW j \in jobs, Chain(j), j.cid # c PROVE Owned(j)
    BY <1>1, <1>4, <2>1, <2>4 DEF Same
  <2> QED BY <2>2, <2>3, <2>4
<1>12. CASE Restart
  BY <1>12 DEF Restart
<1>13. ASSUME NEW j \in jobs, Told(j) PROVE \A c \in Clients : Same(c)
  BY <1>13 DEF Told
<1>14. UNCHANGED client => \A c \in Clients : Same(c)
  BY DEF Same
<1> HIDE DEF Owned
<1> QED BY <1>6, <1>7, <1>8, <1>9, <1>10, <1>11, <1>12, <1>13, <1>14, ClientWriters

LEMMA ByOneselfKept ==
  ASSUME AccountsAssumption, Types, Registering, ChainsOwn, LoggedInByOneself, Kinds
  PROVE  LoggedInByOneself'
<1> DEFINE OK(c) == client'[c].on # 0 => client'[c].by = client'[c].visit \/ <<"deserted", c>> \in happened'
<1>1. \A c \in Clients : client[c].on # 0 => client[c].by = client[c].visit \/ <<"deserted", c>> \in happened
  BY DEF LoggedInByOneself, IsAuthed, Blamed
<1>2. happened \subseteq happened'
  BY BlameStays
<1>3. SUFFICES ASSUME NEW c \in Clients PROVE OK(c)
  BY DEF LoggedInByOneself, IsAuthed, Blamed
<1>4. Same(c) => OK(c)
  BY <1>1, <1>2 DEF Same
<1>5. client'[c] = client[c] => Same(c)
  BY DEF Same
<1>6. ASSUME NEW d \in Clients, NEW n \in Nicks, OnClientEnter(d, n)
      PROVE  OK(c)
  <2>1. client'[d].on = 0 /\ \A e \in Clients \ {d} : client'[e] = client[e]
    BY <1>6, Arrives
  <2> QED BY <1>4, <1>5, <2>1
<1>7. ASSUME NEW d \in Clients, NEW n \in Nicks, SetClientName(d, n) \/ ChangeNickname(d, n)
      PROVE  OK(c)
  <2>1. /\ client'[d].visit = client[d].visit /\ client'[d].on = client[d].on /\ client'[d].by = client[d].by
        /\ \A e \in Clients \ {d} : client'[e] = client[e]
    BY <1>7, Renamed DEF SetClientName, ChangeNickname
  <2> QED BY <1>1, <1>2, <1>4, <1>5, <2>1
<1>8. ASSUME NEW d \in Clients, Drops(d)
      PROVE  OK(c)
  <2>1. client'[d] = Absent /\ \A e \in Clients \ {d} : client'[e] = client[e]
    BY <1>8, Resets DEF Drops
  <2> QED BY <1>4, <1>5, <2>1, AbsentTyped
<1>9. ASSUME NEW j \in jobs, LogsIn(j)
      PROVE  OK(c)
  <2> DEFINE d == j.cid
  <2>1. /\ d \in Clients /\ \A e \in Clients \ {d} : client'[e] = client[e]
        /\ client'[d].by = j.visit /\ client'[d].visit = client[d].visit
    BY <1>9, LoggedIn
  <2>2. Chain(j)
    BY <1>9 DEF LogsIn, Chain
  <2>3. <<"deserted", d>> \in happened \/ client[d].visit = j.visit
    BY <2>2 DEF ChainsOwn, Blamed
  <2> HIDE DEF d
  <2> QED BY <1>2, <1>4, <1>5, <2>1, <2>3
<1>10. CASE Restart
  BY <1>10, AbsentTyped DEF Restart
<1>11. ASSUME NEW j \in jobs, Told(j) PROVE OK(c)
  BY <1>4, <1>11 DEF Told
<1> HIDE DEF OK
<1> QED BY <1>4, <1>5, <1>6, <1>7, <1>8, <1>9, <1>10, <1>11, ClientWriters

-----------------------------------------------------------------------------
(* Who is online, and who is banned *)

\* Online and Loads of an account only grow by a chain that passes the last
\* check and by one that is answered.
LEMMA WaysIn ==
  ASSUME AccountsAssumption, Types, Registering, Kinds
  PROVE  \/ \A a \in IDs : Online(a)' \subseteq Online(a) /\ Loads(a)' \subseteq Loads(a)
         \/ \E j \in jobs, k \in Chains : Moves(j, k) /\ MayLoadNow(j, k)
         \/ \E j \in jobs : LogsIn(j)
<1>1. SUFFICES ASSUME \A j \in jobs : ~LogsIn(j) /\ \A k \in Chains : ~(Moves(j, k) /\ MayLoadNow(j, k))
               PROVE  \A a \in IDs : Online(a)' \subseteq Online(a) /\ Loads(a)' \subseteq Loads(a)
  OBVIOUS
<1>2. ASSUME NEW c \in Clients PROVE client'[c].on \in {client[c].on, 0}
  <2>1. ASSUME NEW d \in Clients, NEW n \in Nicks, OnClientEnter(d, n)
        PROVE  client'[c].on \in {client[c].on, 0}
    BY <2>1, Arrives
  <2>2. ASSUME NEW d \in Clients, NEW n \in Nicks, SetClientName(d, n) \/ ChangeNickname(d, n)
        PROVE  client'[c].on \in {client[c].on, 0}
    BY <2>2, Renamed DEF SetClientName, ChangeNickname
  <2>3. ASSUME NEW d \in Clients, Drops(d)
        PROVE  client'[c].on \in {client[c].on, 0}
    BY <2>3, Resets, AbsentTyped DEF Drops
  <2>4. ASSUME NEW j \in jobs, Told(j)
        PROVE  client'[c].on \in {client[c].on, 0}
    BY <2>4 DEF Told, Same
  <2>5. CASE Restart
    BY <2>5, AbsentTyped DEF Restart
  <2> QED BY <1>1, <2>1, <2>2, <2>3, <2>4, <2>5, ClientWriters
<1>3. ASSUME NEW k \in jobs', k.step = "LoadAccountData" PROVE k \in jobs
  <2>1. ASSUME NEW i, Fine(i), i \notin Chains, jobs' = jobs \cup {i}
        PROVE  k \in jobs
    <3>1. i.step # "LoadAccountData"
      BY <2>1, Shapes DEF Fine, Steps, Looked
    <3> QED BY <1>3, <2>1, <3>1
  <2>2. ASSUME NEW c \in Clients, NEW i \in Chains, Begins(c, i)
        PROVE  k \in jobs
    BY <1>3, <2>2 DEF Begins
  <2>3. ASSUME NEW j \in jobs, NEW i \in Chains, Moves(j, i)
        PROVE  k \in jobs
    BY <1>1, <1>3, <2>3 DEF Moves, Onward, LooksUp, Passes, Proceeds, Resolves
  <2>4. ASSUME NEW j \in jobs, NEW i \in Chains, Inserts(j, i) \/ Writes(j, i)
        PROVE  k \in jobs
    BY <1>3, <2>4 DEF Inserts, Writes, Onward
  <2>5. \/ jobs' \subseteq jobs
        \/ \E i : Fine(i) /\ i \notin Chains /\ jobs' = jobs \cup {i}
        \/ \E c \in Clients, i \in Chains : Begins(c, i)
        \/ \E j \in jobs, i \in Chains : Moves(j, i) \/ Inserts(j, i) \/ Writes(j, i)
    BY Pool
  <2> QED BY <1>3, <2>1, <2>2, <2>3, <2>4, <2>5
<1> QED BY <1>2, <1>3 DEF Online, Loads, IDs

\* A chain that passes the last check.
LEMMA PassesLast ==
  ASSUME AccountsAssumption, Types, NEW j \in jobs, NEW k \in Chains, Moves(j, k), MayLoadNow(j, k)
  PROVE  /\ \A a \in IDs : Online(a)' = Online(a)
         /\ j.acc \in IDs /\ Online(j.acc) = {}
         /\ \A a \in IDs \ {j.acc} : Loads(a)' \subseteq Loads(a)
         /\ \/ <<"overlap", j.acc>> \in happened'
            \/ \A i \in Loads(j.acc)' : i = k
         /\ j.acc \in banned \/ Statement("Ban", j.acc, NoNick) \in jobs => <<"unseen", j.acc>> \in happened'
<1>1. /\ client' = client /\ j \in Chains /\ j \in jobs /\ jobs' = (jobs \ {j}) \cup {k} /\ k.acc = j.acc
      /\ j.step = "CheckBans" /\ k.step = "LoadAccountData" /\ Online(j.acc) = {}
      /\ happened' = happened \cup Gaps(j, {})
  BY DEF Moves, Onward, MayLoadNow
<1>2. j.acc \in IDs
  BY <1>1 DEF Types, JobsOK, Looked, Known
<1>3. \A a \in IDs : Online(a)' = Online(a)
  BY <1>1 DEF Online
<1>4. ASSUME NEW a \in IDs \ {j.acc} PROVE Loads(a)' \subseteq Loads(a)
  BY <1>1 DEF Loads
<1>5. ASSUME \E i \in jobs \ {j} : i.step = "LoadAccountData" /\ i.acc = j.acc
      PROVE  <<"overlap", j.acc>> \in happened'
  <2>1. <<"overlap", j.acc>> \in Gaps(j, {})
    BY <1>5 DEF Gaps
  <2> QED BY <1>1, <2>1
<1>6. ASSUME ~ \E i \in jobs \ {j} : i.step = "LoadAccountData" /\ i.acc = j.acc
      PROVE  \A i \in Loads(j.acc)' : i = k
  BY <1>1, <1>6 DEF Loads
<1>7. ASSUME j.acc \in banned \/ Statement("Ban", j.acc, NoNick) \in jobs
      PROVE  <<"unseen", j.acc>> \in happened'
  <2>1. <<"unseen", j.acc>> \in Gaps(j, {})
    BY <1>7 DEF Gaps
  <2> QED BY <1>1, <2>1
<1>8. \/ <<"overlap", j.acc>> \in happened'
      \/ \A i \in Loads(j.acc)' : i = k
  BY <1>5, <1>6
<1> QED BY <1>1, <1>2, <1>3, <1>4, <1>7, <1>8

\* A chain that is answered.
LEMMA ComesIn ==
  ASSUME AccountsAssumption, Types, NEW j \in jobs, LogsIn(j)
  PROVE  /\ j.acc \in IDs /\ j \in Loads(j.acc) /\ j.cid \in Clients
         /\ \A a \in IDs \ {j.acc} : Online(a)' = Online(a)
         /\ Online(j.acc)' = Online(j.acc) \cup {j.cid}
         /\ \A a \in IDs : Loads(a)' = Loads(a) \ {j}
<1>1. /\ j.cid \in Clients /\ j.acc \in IDs /\ \A d \in Clients \ {j.cid} : client'[d] = client[d]
      /\ client'[j.cid].on = j.acc
  BY LoggedIn
<1>2. client[j.cid].on = 0 /\ jobs' = jobs \ {j} /\ j.step = "LoadAccountData" /\ j \in jobs
  BY DEF LogsIn, IsAuthed
<1>3. ASSUME NEW a \in IDs PROVE Online(a)' = IF a = j.acc THEN Online(a) \cup {j.cid} ELSE Online(a)
  <2>1. a # 0
    BY DEF IDs
  <2> QED BY <1>1, <1>2, <2>1 DEF Online
<1>4. \A a \in IDs : Loads(a)' = Loads(a) \ {j}
  BY <1>2 DEF Loads
<1> QED BY <1>1, <1>2, <1>3, <1>4 DEF Loads

LEMMA OneWayInKept ==
  ASSUME AccountsAssumption, Types, Registering, OneWayIn, Kinds
  PROVE  OneWayIn'
<1> DEFINE OK(a) == <<"overlap", a>> \in happened' \/
                      /\ \A c, d \in Online(a)' : c = d
                      /\ \A j, k \in Loads(a)' : j = k
                      /\ Online(a)' = {} \/ Loads(a)' = {}
<1>1. \A a \in IDs : <<"overlap", a>> \in happened \/
                       /\ \A c, d \in Online(a) : c = d
                       /\ \A j, k \in Loads(a) : j = k
                       /\ Online(a) = {} \/ Loads(a) = {}
  BY DEF OneWayIn, Blamed
<1>2. happened \subseteq happened'
  BY BlameStays
<1>3. SUFFICES ASSUME NEW a \in IDs PROVE OK(a)
  BY DEF OneWayIn, Blamed
<1>4. CASE Online(a)' \subseteq Online(a) /\ Loads(a)' \subseteq Loads(a)
  BY <1>1, <1>2, <1>4
<1>5. ASSUME NEW j \in jobs, NEW k \in Chains, Moves(j, k), MayLoadNow(j, k)
      PROVE  OK(a)
  <2>1. /\ Online(a)' = Online(a) /\ Online(j.acc) = {}
        /\ a # j.acc => Loads(a)' \subseteq Loads(a)
        /\ <<"overlap", j.acc>> \in happened' \/ \A i \in Loads(j.acc)' : i = k
    BY <1>5, PassesLast
  <2>2. CASE a = j.acc
    <3>1. CASE <<"overlap", a>> \in happened'
      BY <3>1
    <3>2. CASE \A i \in Loads(a)' : i = k
      BY <2>1, <2>2, <3>2
    <3> QED BY <2>1, <2>2, <3>1, <3>2
  <2>3. CASE a # j.acc
    BY <1>4, <2>1, <2>3
  <2> QED BY <2>2, <2>3
<1>6. ASSUME NEW j \in jobs, LogsIn(j)
      PROVE  OK(a)
  <2>1. /\ j \in Loads(j.acc) /\ Loads(a)' = Loads(a) \ {j}
        /\ a # j.acc => Online(a)' = Online(a)
        /\ Online(j.acc)' = Online(j.acc) \cup {j.cid}
    BY <1>6, ComesIn
  <2>2. CASE a = j.acc
    <3>1. CASE <<"overlap", a>> \in happened
      BY <1>2, <3>1
    <3>2. CASE <<"overlap", a>> \notin happened
      <4>1. Online(a) = {} /\ \A i \in Loads(a) : i = j
        BY <1>1, <2>1, <2>2, <3>2
      <4>2. Online(a)' = {j.cid} /\ Loads(a)' = {}
        BY <2>1, <2>2, <4>1
      <4> QED BY <4>2
    <3> QED BY <3>1, <3>2
  <2>3. CASE a # j.acc
    BY <1>4, <2>1, <2>3
  <2> QED BY <2>2, <2>3
<1> HIDE DEF OK
<1> QED BY <1>4, <1>5, <1>6, WaysIn

\* A ban is in the table, or on its way there.
Outlawed(a) == a \in banned \/ Statement("Ban", a, NoNick) \in jobs

\* Accounts are only outlawed when one of their players leaves.
LEMMA BansKept ==
  ASSUME AccountsAssumption, Types, Registering, Kinds
  PROVE  \/ \A a \in IDs : Outlawed(a)' => Outlawed(a)
         \/ \E c \in Clients : /\ Drops(c) /\ IsAuthed(c)
                               /\ \A a \in IDs \ {client[c].on} : Outlawed(a)' => Outlawed(a)
<1>1. ASSUME NEW a \in IDs, NEW k, Fine(k), k.step # "Ban"
      PROVE  k # Statement("Ban", a, NoNick)
  BY <1>1 DEF Statement
<1>2. ASSUME NEW c \in Clients, Drops(c)
      PROVE  \/ \A a \in IDs : Outlawed(a)' => Outlawed(a)
             \/ /\ IsAuthed(c)
                /\ \A a \in IDs \ {client[c].on} : Outlawed(a)' => Outlawed(a)
  <2> DEFINE s == Statement("Ban", client[c].on, NoNick)
  <2>1. banned' = banned /\ (jobs' = jobs \/ (IsAuthed(c) /\ jobs' = jobs \cup {s}))
    BY <1>2 DEF Drops, tables
  <2>2. \A a \in IDs \ {client[c].on} : Statement("Ban", a, NoNick) # s
    BY DEF Statement
  <2> HIDE DEF s
  <2> QED BY <2>1, <2>2 DEF Outlawed
<1>3. ASSUME NEW j \in jobs, OnBan(j)
      PROVE  \A a \in IDs : Outlawed(a)' => Outlawed(a)
  <2>1. j \in BanStatements
    BY <1>3, Shapes DEF Types, JobsOK, OnBan
  <2>2. j = Statement("Ban", j.acc, NoNick)
    BY <2>1 DEF BanStatements, Statement
  <2>3. jobs' \subseteq jobs /\ banned' \subseteq banned \cup {j.acc}
    BY <1>3 DEF OnBan, End
  <2> QED BY <2>2, <2>3 DEF Outlawed
<1>4. ASSUME NEW a \in banned, BanEnds(a)
      PROVE  \A b \in IDs : Outlawed(b)' => Outlawed(b)
  BY <1>4 DEF BanEnds, Outlawed
<1>5. ASSUME UNCHANGED banned, \A k \in jobs' : k \in jobs \/ k.step # "Ban"
      PROVE  \A b \in IDs : Outlawed(b)' => Outlawed(b)
  BY <1>5 DEF Outlawed, Statement
<1>6. ASSUME NEW c \in Clients, NEW n \in Nicks, OnClientEnter(c, n) \/ SetClientName(c, n) \/ ChangeNickname(c, n)
      PROVE  UNCHANGED banned /\ \A k \in jobs' : k \in jobs \/ k.step # "Ban"
  BY <1>6 DEF OnClientEnter, SetClientName, ChangeNickname, Rename, Statement, tables
<1>7. ASSUME NEW c \in Clients, NEW k \in Chains, Begins(c, k)
      PROVE  UNCHANGED banned /\ \A i \in jobs' : i \in jobs \/ i.step # "Ban"
  BY <1>7 DEF Begins, tables
<1>8. ASSUME NEW j \in jobs, NEW k \in Chains, Moves(j, k) \/ Inserts(j, k) \/ Writes(j, k)
      PROVE  UNCHANGED banned /\ \A i \in jobs' : i \in jobs \/ i.step # "Ban"
  <2>1. Onward(j, k) /\ UNCHANGED banned
    BY <1>8 DEF Moves, Inserts, Writes, tables
  <2>2. k.step # "Ban"
    BY ChainFields DEF Steps, Looked, Unwritten, Unfinished
  <2> QED BY <2>1, <2>2 DEF Onward
<1>9. ASSUME NEW j \in jobs,
             Told(j) \/ Ends(j) \/ LogsIn(j) \/ Updates(j) \/ Removes(j) \/ OnRename(j) \/ Dropped(j)
      PROVE  UNCHANGED banned /\ \A i \in jobs' : i \in jobs \/ i.step # "Ban"
  BY <1>9 DEF Told, Ends, LogsIn, Updates, Removes, OnRename, Dropped, End, tables
<1>10. ASSUME Restart \/ UNCHANGED vars
       PROVE  UNCHANGED banned /\ \A i \in jobs' : i \in jobs \/ i.step # "Ban"
  BY <1>10 DEF Restart, vars, tables
<1> QED BY <1>2, <1>3, <1>4, <1>5, <1>6, <1>7, <1>8, <1>9, <1>10 DEF Kinds

LEMMA BanHoldsKept ==
  ASSUME AccountsAssumption, Types, Registering, OneWayIn, BanHolds, Kinds
  PROVE  BanHolds'
<1> DEFINE OK(a) == \/ <<"unseen", a>> \in happened' \/ <<"overlap", a>> \in happened'
                    \/ (Outlawed(a)' => Online(a)' = {} /\ Loads(a)' = {})
<1>1. \A a \in IDs : \/ <<"unseen", a>> \in happened \/ <<"overlap", a>> \in happened
                     \/ (Outlawed(a) => Online(a) = {} /\ Loads(a) = {})
  BY DEF BanHolds, Blamed, Outlawed
<1>2. happened \subseteq happened'
  BY BlameStays
<1>3. SUFFICES ASSUME NEW a \in IDs PROVE OK(a)
  BY DEF BanHolds, Blamed, Outlawed
<1>4. CASE Online(a)' \subseteq Online(a) /\ Loads(a)' \subseteq Loads(a) /\ (Outlawed(a)' => Outlawed(a))
  BY <1>1, <1>2, <1>4
<1>5. ASSUME NEW c \in Clients, Drops(c), IsAuthed(c), Online(a)' \subseteq Online(a), Loads(a)' \subseteq Loads(a),
             a = client[c].on
      PROVE  OK(a)
  <2>1. client'[c] = Absent /\ c \in Online(a)
    BY <1>5, Resets DEF Drops, Online
  <2>2. CASE <<"overlap", a>> \in happened
    BY <1>2, <2>2
  <2>3. CASE <<"overlap", a>> \notin happened
    <3>1. Loads(a) = {} /\ \A d \in Online(a) : d = c
      BY <2>1, <2>3 DEF OneWayIn, Blamed
    <3>2. a # 0
      BY DEF IDs
    <3>3. c \notin Online(a)'
      BY <2>1, <3>2, AbsentTyped DEF Online
    <3> QED BY <1>5, <3>1, <3>3
  <2> QED BY <2>2, <2>3
<1>6. ASSUME NEW j \in jobs, NEW k \in Chains, Moves(j, k), MayLoadNow(j, k)
      PROVE  OK(a)
  <2>1. Outlawed(a)' => Outlawed(a)
    <3>1. banned' = banned /\ jobs' = (jobs \ {j}) \cup {k} /\ k.step # "Ban"
      BY <1>6 DEF Moves, Onward, MayLoadNow, tables
    <3> QED BY <3>1 DEF Outlawed, Statement
  <2>2. /\ Online(a)' = Online(a)
        /\ a # j.acc => Loads(a)' \subseteq Loads(a)
        /\ Outlawed(j.acc) => <<"unseen", j.acc>> \in happened'
    BY <1>6, PassesLast DEF Outlawed
  <2>3. CASE a = j.acc
    BY <2>1, <2>2, <2>3
  <2>4. CASE a # j.acc
    BY <1>4, <2>1, <2>2, <2>4
  <2> QED BY <2>3, <2>4
<1>7. ASSUME NEW j \in jobs, LogsIn(j)
      PROVE  OK(a)
  <2>1. Outlawed(a)' => Outlawed(a)
    BY <1>7 DEF LogsIn, Outlawed, tables
  <2>2. /\ j \in Loads(j.acc) /\ Loads(a)' = Loads(a) \ {j}
        /\ a # j.acc => Online(a)' = Online(a)
    BY <1>7, ComesIn
  <2>3. CASE a = j.acc
    BY <1>1, <1>2, <2>1, <2>2, <2>3
  <2>4. CASE a # j.acc
    BY <1>4, <2>1, <2>2, <2>4
  <2> QED BY <2>3, <2>4
<1> HIDE DEF OK
<1>8. CASE Online(a)' \subseteq Online(a) /\ Loads(a)' \subseteq Loads(a)
  BY <1>4, <1>5, <1>8, BansKept
<1> QED BY <1>6, <1>7, <1>8, WaysIn

-----------------------------------------------------------------------------
(* Registrations *)

Registers(j, k) == (LooksUp(j, k) /\ k.step = "Update") \/ Proceeds(j, k) \/ Resolves(j, k)

\* The statement of a registration, or of the UPDATE it may end in.
Registration(k) == k.step \in Unwritten \cup Unfinished

\* What has to do with registrations.
LEMMA RegistrationSteps ==
  ASSUME AccountsAssumption, Types, Registering, Kinds
  PROVE  \/ /\ UNCHANGED <<accounts, nick, nextID>>
            /\ \A k \in jobs' : Registration(k) => k \in jobs
            /\ \A j \in jobs : j.step \in Unfinished => j \in jobs'
         \/ \E c \in Clients, k \in Chains : Begins(c, k)
         \/ \E j \in jobs : \/ \E k \in Chains : \/ Moves(j, k) /\ Registers(j, k)
                                                 \/ Inserts(j, k) \/ Writes(j, k)
                            \/ Updates(j) \/ Removes(j) \/ OnRename(j) \/ Dropped(j)
         \/ Restart
<1> DEFINE Aside == /\ UNCHANGED <<accounts, nick, nextID>>
                    /\ \A k \in jobs' : Registration(k) => k \in jobs
                    /\ \A j \in jobs : j.step \in Unfinished => j \in jobs'
<1>1. ASSUME NEW c \in Clients, NEW n \in Nicks, OnClientEnter(c, n) \/ SetClientName(c, n) \/ ChangeNickname(c, n)
      PROVE  Aside
  BY <1>1 DEF OnClientEnter, SetClientName, ChangeNickname, Rename, Statement, tables, Registration, Unwritten, Unfinished
<1>2. ASSUME NEW c \in Clients, Drops(c)
      PROVE  Aside
  BY <1>2 DEF Drops, Statement, tables, Registration, Unwritten, Unfinished
<1>3. ASSUME NEW j \in jobs, NEW k \in Chains, Moves(j, k), ~Registers(j, k)
      PROVE  Aside
  <2>1. /\ k.step \in {"CheckCredentials", "CheckBans", "LoadAccountData"}
        /\ j.step \in {"CheckNickname", "CheckCredentials", "CheckBans"}
    BY <1>3 DEF Moves, Registers, LooksUp, Passes, MayLoadNow
  <2>2. jobs' = (jobs \ {j}) \cup {k} /\ UNCHANGED tables
    BY <1>3 DEF Moves, Onward
  <2> QED BY <2>1, <2>2 DEF tables, Registration, Unwritten, Unfinished
<1>4. ASSUME NEW j \in jobs, Told(j)
      PROVE  Aside
  BY <1>4 DEF Told, Enters, tables, Unfinished
<1>5. ASSUME NEW j \in jobs, Ends(j)
      PROVE  Aside
  BY <1>5 DEF Ends, tables
<1>6. ASSUME NEW j \in jobs, LogsIn(j)
      PROVE  Aside
  BY <1>6 DEF LogsIn, tables, Unfinished
<1>7. ASSUME NEW j \in jobs, OnBan(j)
      PROVE  Aside
  BY <1>7 DEF OnBan, End, Unfinished
<1>8. ASSUME NEW a \in banned, BanEnds(a)
      PROVE  Aside
  BY <1>8 DEF BanEnds
<1>9. UNCHANGED vars => Aside
  BY DEF vars, tables
<1> HIDE DEF Aside
<1>10. \/ Aside
       \/ \E c \in Clients, k \in Chains : Begins(c, k)
       \/ \E j \in jobs : \/ \E k \in Chains : \/ Moves(j, k) /\ Registers(j, k)
                                               \/ Inserts(j, k) \/ Writes(j, k)
                          \/ Updates(j) \/ Removes(j) \/ OnRename(j) \/ Dropped(j)
       \/ Restart
  BY <1>1, <1>2, <1>3, <1>4, <1>5, <1>6, <1>7, <1>8, <1>9 DEF Kinds
<1> QED BY <1>10 DEF Aside

\* The statement of a rename, done or not.
LEMMA RenameDone ==
  ASSUME AccountsAssumption, Types, NEW j \in jobs, OnRename(j)
  PROVE  /\ j \in RenameStatements /\ j.acc \in IDs /\ j.nick \in Nicks /\ jobs' = jobs \ {j}
         /\ nick' = nick \/ nick' = [nick EXCEPT ![j.acc] = j.nick]
         /\ UNCHANGED <<client, accounts, nextID>>
<1>1. j \in RenameStatements
  BY Shapes DEF Types, JobsOK, OnRename
<1>2. j.acc \in IDs /\ j.nick \in Nicks
  BY <1>1 DEF RenameStatements
<1>3. nick' = nick \/ nick' = [nick EXCEPT ![j.acc] = j.nick]
  BY RenamedRow
<1> QED BY <1>1, <1>2, <1>3 DEF OnRename, End

\* What a registration deletes.
LEMMA Deletes ==
  ASSUME AccountsAssumption, Types, Registering, NEW j \in jobs, Removes(j)
  PROVE  /\ j \in Chains /\ j.step = "Cleanup" /\ jobs' \in {jobs, jobs \ {j}}
         /\ UNCHANGED <<client, nextID, chains>>
         /\ \A a \in IDs : \/ accounts'[a] = NoAccount /\ nick'[a] = NoNick
                           \/ accounts'[a] = accounts[a] /\ nick'[a] = nick[a]
         /\ \A a \in IDs : nick'[a] = nick[a] \/ <<"removed", a>> \in happened'
         /\ \A a \in IDs : accounts[a].salt = j.n /\ accounts'[a] # NoAccount => <<"kept", j.n>> \in happened
<1>1. PICK rows \in SUBSET IDs :
        /\ rows = IF j.acc > 0 THEN {j.acc} ELSE Newest(j)
        /\ accounts' = [a \in IDs |-> IF a \in rows THEN NoAccount ELSE accounts[a]]
        /\ nick' = [a \in IDs |-> IF a \in rows THEN NoNick ELSE nick[a]]
        /\ happened' = happened \cup {<<"removed", a>> : a \in {b \in rows : nick[b] # NoNick}}
  BY DEF Removes
<1>2. /\ j \in Chains /\ j.step = "Cleanup" /\ jobs' \in {jobs, jobs \ {j}}
      /\ UNCHANGED <<client, nextID, chains>>
  BY DEF Removes
<1>3. \A a \in IDs : \/ accounts'[a] = NoAccount /\ nick'[a] = NoNick
                     \/ accounts'[a] = accounts[a] /\ nick'[a] = nick[a]
  BY <1>1
<1>4. ASSUME NEW a \in IDs PROVE nick'[a] = nick[a] \/ <<"removed", a>> \in happened'
  <2>1. CASE a \in rows /\ nick[a] # NoNick
    BY <1>1, <2>1
  <2>2. CASE ~(a \in rows /\ nick[a] # NoNick)
    BY <1>1, <2>2
  <2> QED BY <2>1, <2>2
<1>5. ASSUME NEW a \in IDs, accounts[a].salt = j.n, accounts'[a] # NoAccount, <<"kept", j.n>> \notin happened
      PROVE  FALSE
  <2>1. a \notin rows
    BY <1>1, <1>5
  <2>2. /\ accounts[a].login = j.login /\ (j.acc # 0 => a = j.acc)
        /\ \A b \in IDs : accounts[b].salt = j.n => a = b
    BY <1>2, <1>5 DEF Registering, Unfinished, Blamed
  <2>3. j.acc \in Nat /\ a \in Int
    BY <1>2, ChainFields DEF AccountsAssumption, IDs
  <2>4. CASE j.acc > 0
    BY <1>1, <2>1, <2>2, <2>3, <2>4
  <2>5. CASE j.acc = 0
    <3>1. accounts[a] = [login |-> accounts[a].login, salt |-> accounts[a].salt]
      BY DEF Types, TypeOK
    <3>2. a \in Inserted(j)
      BY <1>5, <2>2, <3>1 DEF Inserted
    <3>3. \A b \in Inserted(j) : b = a
      BY <2>2 DEF Inserted
    <3>4. a \in Newest(j)
      BY <2>3, <3>2, <3>3 DEF Newest
    <3> QED BY <1>1, <2>1, <2>5, <3>4
  <2> QED BY <2>3, <2>4, <2>5
<1> QED BY <1>2, <1>3, <1>4, <1>5

LEMMA SaltsKept ==
  ASSUME AccountsAssumption, Types, Salts, Registering, Kinds
  PROVE  Salts'
<1> DEFINE Early == {"Lookup", "CheckNewNickname", "InsertAccount", "ResolveAccountID"}
           Goal ==
             /\ \A a \in IDs : accounts'[a].salt <= chains'
             /\ \A j \in jobs' : j.step \in Unwritten => \A a \in IDs : accounts'[a].salt # j.n
             /\ \A j \in jobs' : j.step \in Early => j.acc = 0
<1>1. /\ \A a \in IDs : accounts[a].salt <= chains
      /\ \A j \in jobs : j.step \in Unwritten => \A a \in IDs : accounts[a].salt # j.n
      /\ \A j \in jobs : j.step \in Early => j.acc = 0
  BY DEF Salts
<1>2. /\ IDs \subseteq Nat /\ nextID \in Nat /\ chains \in Nat
      /\ \A a \in IDs : accounts[a].salt \in Nat
      /\ accounts \in [IDs -> [login : Logins \cup {NoNick}, salt : 0..MaxChains]]
  <2>1. accounts \in [IDs -> [login : Logins \cup {NoNick}, salt : 0..MaxChains]]
    BY DEF Types, TypeOK
  <2>2. nextID \in 1..MaxID + 1 /\ chains \in 0..MaxChains
    BY DEF Types, TypeOK
  <2>3. MaxID \in Nat /\ MaxChains \in Nat
    BY DEF AccountsAssumption
  <2>4. IDs \subseteq Nat /\ nextID \in Nat /\ chains \in Nat
    BY <2>2, <2>3 DEF IDs
  <2>5. ASSUME NEW a \in IDs PROVE accounts[a].salt \in Nat
    <3>1. accounts[a] \in [login : Logins \cup {NoNick}, salt : 0..MaxChains]
      BY <2>1
    <3>2. accounts[a].salt \in 0..MaxChains
      BY <3>1
    <3> QED BY <2>3, <3>2
  <2> QED BY <2>1, <2>4, <2>5
<1>3. NoAccount.salt = 0
  BY DEF NoAccount
<1>4. /\ \A j \in Chains : j.n \in Nat /\ j.n # 0
      /\ \A j \in jobs : j.step \in Unwritten \cup Unfinished => j \in Chains
      /\ \A j \in jobs : j \in Chains => j.n <= chains
      /\ \A j, k \in jobs : j \in Chains /\ k \in Chains /\ j.n = k.n => j = k
  <2>1. \A j \in Chains : j.n \in Nat /\ j.n # 0
    BY ChainFields DEF AccountsAssumption
  <2>2. \A j \in jobs : j.step \in Unwritten \cup Unfinished => j \in Chains
    BY Shapes DEF Types, JobsOK, Steps
  <2> QED BY <2>1, <2>2 DEF Types, JobsOK
<1>5. chains <= chains' /\ chains' \in Nat
  BY CountersKept DEF AccountsAssumption
<1>6. Early \subseteq Unwritten \cup Unfinished
  BY DEF Unwritten, Unfinished
<1> HIDE DEF Early
<1>7. ASSUME UNCHANGED accounts, \A k \in jobs' : Registration(k) => k \in jobs
      PROVE  Goal
  BY <1>1, <1>2, <1>5, <1>6, <1>7 DEF Registration
<1>8. ASSUME NEW c \in Clients, NEW k \in Chains, Begins(c, k)
      PROVE  Goal
  <2>1. /\ UNCHANGED accounts /\ k.n = chains + 1 /\ chains' = chains + 1
        /\ k.acc = 0 /\ jobs' = jobs \cup {k}
    BY <1>8 DEF Begins, tables
  <2>2. \A a \in IDs : accounts[a].salt # k.n
    BY <1>1, <1>2, <2>1
  <2> QED BY <1>1, <1>2, <1>5, <2>1, <2>2
<1>9. ASSUME NEW j \in jobs, NEW k \in Chains, Moves(j, k), Registers(j, k)
      PROVE  Goal
  <2>1. /\ UNCHANGED <<accounts, chains>> /\ jobs' = (jobs \ {j}) \cup {k} /\ k.n = j.n
    BY <1>9 DEF Moves, Onward, tables
  <2>2. k.step \in Unwritten => j.step \in Unwritten
    BY <1>9 DEF Registers, LooksUp, Proceeds, Resolves, Unwritten
  <2>3. k.step \in Early => j.step \in Early /\ k.acc = j.acc
    BY <1>9 DEF Registers, LooksUp, Proceeds, Resolves, Early
  <2>4. k.step \in Early => k.acc = 0
    BY <1>1, <2>3
  <2>5. k.step \in Unwritten => \A a \in IDs : accounts[a].salt # k.n
    BY <1>1, <2>1, <2>2
  <2> QED BY <1>1, <1>2, <1>5, <2>1, <2>4, <2>5
<1>10. ASSUME NEW j \in jobs, NEW k \in Chains, Inserts(j, k)
       PROVE  Goal
  <2>1. /\ accounts' = [accounts EXCEPT ![nextID] = [login |-> j.login, salt |-> j.n]]
        /\ nextID \in IDs /\ UNCHANGED chains
        /\ jobs' = (jobs \ {j}) \cup {k} /\ j \in Chains
        /\ j.step = "InsertAccount" /\ k.acc = j.acc
        /\ k.step \in {"InsertAccount", "ResolveAccountID", "Cleanup"}
    BY <1>10 DEF Inserts, Onward
  <2>2. /\ \A a \in IDs \ {nextID} : accounts'[a] = accounts[a]
        /\ accounts'[nextID].salt = j.n
    BY <1>2, <2>1
  <2>3. j.acc = 0 /\ k.step \notin Unwritten
    BY <1>1, <2>1 DEF Unwritten, Early
  <2>4. \A i \in jobs \ {j} : i.step \in Unwritten => i.n # j.n
    BY <1>4, <2>1
  <2>5. \A a \in IDs : accounts'[a].salt <= chains'
    BY <1>1, <1>4, <2>1, <2>2
  <2>6. \A i \in jobs' : i.step \in Unwritten => \A a \in IDs : accounts'[a].salt # i.n
    BY <1>1, <2>1, <2>2, <2>3, <2>4
  <2>7. \A i \in jobs' : i.step \in Early => i.acc = 0
    BY <1>1, <2>1, <2>3
  <2> QED BY <2>5, <2>6, <2>7
<1>11. ASSUME NEW j \in jobs, NEW k \in Chains, Writes(j, k)
       PROVE  Goal
  <2>1. /\ UNCHANGED <<accounts, chains>> /\ jobs' = (jobs \ {j}) \cup {k}
        /\ k.step \in {"CheckNickname", "InsertAccountData", "Cleanup"}
    BY <1>11 DEF Writes, Onward
  <2>2. k.step \notin Unwritten /\ k.step \notin Early
    BY <2>1 DEF Unwritten, Early
  <2> QED BY <1>1, <1>2, <1>5, <2>1, <2>2
<1>12. ASSUME NEW j \in jobs, Updates(j)
       PROVE  Goal
  <2>1. /\ accounts' = [accounts EXCEPT ![j.acc] = [login |-> j.login, salt |-> j.n]]
        /\ UNCHANGED chains /\ jobs' = jobs \ {j} /\ j \in Chains /\ j.step = "Update"
    BY <1>12 DEF Updates
  <2>2. j.acc \in IDs
    BY <2>1 DEF Types, JobsOK, Known, Looked
  <2>3. /\ \A a \in IDs \ {j.acc} : accounts'[a] = accounts[a]
        /\ accounts'[j.acc].salt = j.n
    BY <1>2, <2>1, <2>2
  <2>4. \A i \in jobs' : i.step \in Unwritten => i.n # j.n
    BY <1>4, <2>1
  <2>5. \A a \in IDs : accounts'[a].salt <= chains'
    BY <1>1, <1>4, <2>1, <2>3
  <2>6. \A i \in jobs' : i.step \in Unwritten => \A a \in IDs : accounts'[a].salt # i.n
    BY <1>1, <2>1, <2>3, <2>4
  <2>7. \A i \in jobs' : i.step \in Early => i.acc = 0
    BY <1>1, <2>1
  <2> QED BY <2>5, <2>6, <2>7
<1>13. ASSUME NEW j \in jobs, Removes(j)
       PROVE  Goal
  <2>1. /\ jobs' \subseteq jobs /\ UNCHANGED chains
        /\ \A a \in IDs : accounts'[a] \in {NoAccount, accounts[a]}
    BY <1>13, Deletes
  <2>2. \A a \in IDs : accounts'[a].salt \in {0, accounts[a].salt}
    BY <1>3, <2>1
  <2>3. \A a \in IDs : accounts'[a].salt <= chains'
    BY <1>1, <1>2, <2>1, <2>2
  <2>4. \A i \in jobs' : i.step \in Unwritten => \A a \in IDs : accounts'[a].salt # i.n
    BY <1>1, <1>4, <2>1, <2>2
  <2>5. \A i \in jobs' : i.step \in Early => i.acc = 0
    BY <1>1, <2>1
  <2> QED BY <2>3, <2>4, <2>5
<1>14. ASSUME NEW j \in jobs, OnRename(j) \/ Dropped(j)
       PROVE  Goal
  BY <1>7, <1>14 DEF OnRename, Dropped, End, tables
<1>15. ASSUME Restart PROVE Goal
  BY <1>7, <1>15 DEF Restart, tables
<1> HIDE DEF Goal
<1>16. Goal
  BY <1>7, <1>8, <1>9, <1>10, <1>11, <1>12, <1>13, <1>14, <1>15, RegistrationSteps
<1> QED BY <1>16 DEF Goal, Early, Salts

LEMMA RegisteringKept ==
  ASSUME AccountsAssumption, Types, Salts, Registering, Kinds
  PROVE  Registering'
<1> DEFINE Kept(n) == <<"kept", n>> \in happened'
           Through(j) ==
             /\ j.step = "InsertAccountData" => j.acc # 0
             /\ \A a \in IDs : accounts'[a].salt = j.n =>
                  /\ accounts'[a].login = j.login
                  /\ j.acc # 0 => a = j.acc \/ Kept(j.n)
                  /\ \A b \in IDs : accounts'[b].salt = j.n => a = b \/ Kept(j.n)
           Goal == \A j \in jobs' : j.step \in Unfinished => Through(j)
<1>1. ASSUME NEW j \in jobs, j.step \in Unfinished
      PROVE  /\ j.step = "InsertAccountData" => j.acc # 0
             /\ \A a \in IDs : accounts[a].salt = j.n =>
                  /\ accounts[a].login = j.login
                  /\ j.acc # 0 => a = j.acc \/ Kept(j.n)
                  /\ \A b \in IDs : accounts[b].salt = j.n => a = b \/ Kept(j.n)
             /\ j \in Chains /\ j.n # 0
  <2>1. j \in Chains
    BY <1>1, Shapes DEF Types, JobsOK, Steps
  <2>2. happened \subseteq happened'
    BY BlameStays
  <2> QED BY <1>1, <2>1, <2>2, ChainFields DEF Registering, Blamed
<1>2. accounts \in [IDs -> [login : Logins \cup {NoNick}, salt : 0..MaxChains]]
  BY DEF Types, TypeOK
<1>3. \A j, k \in jobs : j \in Chains /\ k \in Chains /\ j.n = k.n => j = k
  BY DEF Types, JobsOK
<1> HIDE DEF Kept
<1>4. ASSUME \A a \in IDs : accounts'[a] = accounts[a] \/ accounts'[a] = NoAccount,
             NEW j \in jobs, j.step \in Unfinished
      PROVE  Through(j)
  BY <1>1, <1>4 DEF NoAccount
<1>5. ASSUME \A a \in IDs : accounts'[a] = accounts[a] \/ accounts'[a] = NoAccount,
             \A k \in jobs' : k.step \in Unfinished => k \in jobs
      PROVE  Goal
  BY <1>4, <1>5
<1>6. ASSUME NEW c \in Clients, NEW k \in Chains, Begins(c, k)
      PROVE  Goal
  BY <1>5, <1>6 DEF Begins, tables, Unfinished
<1>7. ASSUME NEW j \in jobs, NEW k \in Chains, Moves(j, k), Registers(j, k)
      PROVE  Goal
  <2>1. /\ UNCHANGED accounts /\ jobs' = (jobs \ {j}) \cup {k}
        /\ k.n = j.n /\ k.login = j.login /\ j \in Chains
    BY <1>7 DEF Moves, Onward, tables
  <2>2. ASSUME k.step \in Unfinished PROVE Through(k)
    <3>1. CASE j.step = "CheckNewNickname" /\ k.step = "InsertAccount"
      <4>1. \A a \in IDs : accounts[a].salt # j.n
        BY <3>1 DEF Salts, Unwritten
      <4> QED BY <2>1, <3>1, <4>1
    <3>2. CASE j.step \in Unfinished /\ k.step = "Cleanup" /\ k.acc = j.acc
      BY <1>1, <2>1, <3>2
    <3>3. CASE Resolves(j, k)
      <4>1. /\ k.acc \in IDs /\ accounts[k.acc] = [login |-> j.login, salt |-> j.n] /\ j.step \in Unfinished
            /\ k.step = "InsertAccountData"
        BY <3>3 DEF Resolves, Inserted, Unfinished
      <4>2. accounts[k.acc].salt = j.n /\ k.acc # 0
        BY <4>1 DEF IDs
      <4> QED BY <1>1, <2>1, <4>1, <4>2
    <3> QED BY <1>7, <2>2, <3>1, <3>2, <3>3 DEF Registers, LooksUp, Proceeds, Unfinished
  <2>3. \A i \in jobs : i.step \in Unfinished => Through(i)
    BY <1>4, <2>1
  <2> HIDE DEF Through
  <2> QED BY <2>1, <2>2, <2>3
<1>8. ASSUME NEW j \in jobs, NEW k \in Chains, Inserts(j, k)
      PROVE  Goal
  <2>1. /\ accounts' = [accounts EXCEPT ![nextID] = [login |-> j.login, salt |-> j.n]]
        /\ nextID \in IDs
        /\ jobs' = (jobs \ {j}) \cup {k} /\ j \in Chains /\ k.n = j.n /\ k.login = j.login
        /\ j.step = "InsertAccount" /\ k.acc = j.acc
        /\ k.step \in {"InsertAccount", "ResolveAccountID", "Cleanup"}
        /\ happened' = happened \cup IF Inserted(j) = {} THEN {} ELSE {<<"kept", j.n>>}
    BY <1>8 DEF Inserts, Onward
  <2>2. /\ \A a \in IDs \ {nextID} : accounts'[a] = accounts[a]
        /\ accounts'[nextID].salt = j.n /\ accounts'[nextID].login = j.login
    BY <1>2, <2>1
  <2>3. j.acc = 0
    BY <2>1 DEF Salts
  <2>4. Through(k)
    <3>1. \A a \in IDs : accounts[a].salt = j.n => accounts[a].login = j.login
      BY <1>1, <2>1 DEF Unfinished
    <3>2. ASSUME NEW a \in IDs, accounts[a].salt = j.n PROVE Kept(j.n)
      <4>1. accounts[a] = [login |-> accounts[a].login, salt |-> accounts[a].salt]
        BY <1>2
      <4>2. a \in Inserted(j)
        BY <3>1, <3>2, <4>1 DEF Inserted
      <4> QED BY <2>1, <4>2 DEF Kept
    <3> QED BY <2>1, <2>2, <2>3, <3>1, <3>2
  <2>5. ASSUME NEW i \in jobs \ {j}, i.step \in Unfinished PROVE Through(i)
    <3>1. i.n # j.n
      BY <1>1, <1>3, <2>1, <2>5
    <3>2. \A a \in IDs : accounts'[a].salt = i.n => accounts'[a] = accounts[a]
      BY <2>2, <3>1
    <3> QED BY <1>1, <2>5, <3>2
  <2> HIDE DEF Through
  <2> QED BY <2>1, <2>4, <2>5
<1>9. ASSUME NEW j \in jobs, NEW k \in Chains, Writes(j, k)
      PROVE  Goal
  <2>1. /\ UNCHANGED accounts /\ jobs' = (jobs \ {j}) \cup {k} /\ j.step = "InsertAccountData"
        /\ k.n = j.n /\ k.login = j.login
        /\ k.step = "CheckNickname" \/ (k.step \in {"InsertAccountData", "Cleanup"} /\ k.acc = j.acc)
    BY <1>9 DEF Writes, Onward
  <2>2. ASSUME k.step \in Unfinished PROVE Through(k)
    <3>1. j.step \in Unfinished /\ k.acc = j.acc
      BY <2>1, <2>2 DEF Unfinished
    <3> QED BY <1>1, <2>1, <3>1
  <2>3. \A i \in jobs : i.step \in Unfinished => Through(i)
    BY <1>4, <2>1
  <2> HIDE DEF Through
  <2> QED BY <2>1, <2>2, <2>3
<1>10. ASSUME NEW j \in jobs, Updates(j)
       PROVE  Goal
  <2>1. /\ accounts' = [accounts EXCEPT ![j.acc] = [login |-> j.login, salt |-> j.n]]
        /\ jobs' = jobs \ {j} /\ j \in Chains /\ j.step = "Update"
    BY <1>10 DEF Updates
  <2>2. j.acc \in IDs
    BY <2>1 DEF Types, JobsOK, Known, Looked
  <2>3. /\ \A a \in IDs \ {j.acc} : accounts'[a] = accounts[a]
        /\ accounts'[j.acc].salt = j.n
    BY <1>2, <2>1, <2>2
  <2>4. ASSUME NEW i \in jobs', i.step \in Unfinished PROVE Through(i)
    <3>1. i.n # j.n
      BY <1>1, <1>3, <2>1, <2>4
    <3>2. \A a \in IDs : accounts'[a].salt = i.n => accounts'[a] = accounts[a]
      BY <2>3, <3>1
    <3> QED BY <1>1, <2>1, <2>4, <3>2
  <2> HIDE DEF Through
  <2> QED BY <2>4
<1>11. ASSUME NEW j \in jobs, Removes(j)
       PROVE  Goal
  BY <1>5, <1>11, Deletes
<1>12. ASSUME NEW j \in jobs, OnRename(j) \/ Dropped(j)
       PROVE  Goal
  BY <1>5, <1>12 DEF OnRename, Dropped, End, tables
<1>13. ASSUME Restart PROVE Goal
  BY <1>13 DEF Restart
<1>14. ASSUME UNCHANGED accounts, \A k \in jobs' : Registration(k) => k \in jobs
       PROVE  Goal
  BY <1>5, <1>14 DEF Registration
<1> HIDE DEF Goal
<1>15. Goal
  BY <1>6, <1>7, <1>8, <1>9, <1>10, <1>11, <1>12, <1>13, <1>14, RegistrationSteps
<1> QED BY <1>15 DEF Goal, Kept, Registering, Blamed

LEMMA NoOrphanKept ==
  ASSUME AccountsAssumption, Types, Salts, Registering, NoOrphan, Kinds
  PROVE  NoOrphan'
<1> DEFINE Accounted(s) == <<"kept", s>> \in happened' \/ \E j \in jobs' : j.step \in Unfinished /\ j.n = s
           Goal == \A a \in IDs : accounts'[a] # NoAccount /\ nick'[a] = NoNick => Accounted(accounts'[a].salt)
           Old(a) == accounts'[a] = accounts[a] /\ nick[a] = NoNick
<1>1. \A a \in IDs : accounts[a] # NoAccount /\ nick[a] = NoNick =>
        <<"kept", accounts[a].salt>> \in happened \/ \E j \in jobs : j.step \in Unfinished /\ j.n = accounts[a].salt
  BY DEF NoOrphan, Blamed
<1>2. happened \subseteq happened'
  BY BlameStays
<1>3. /\ accounts \in [IDs -> [login : Logins \cup {NoNick}, salt : 0..MaxChains]]
      /\ nick \in [IDs -> Nicks \cup {NoNick}] /\ NoNick \notin Nicks
  BY DEF Types, TypeOK, AccountsAssumption
<1>4. ASSUME \A a \in IDs : accounts'[a] # NoAccount /\ nick'[a] = NoNick => Old(a),
             \A j \in jobs : j.step \in Unfinished => Accounted(j.n)
      PROVE  Goal
  <2>1. ASSUME NEW a \in IDs, accounts'[a] # NoAccount, nick'[a] = NoNick
        PROVE  Accounted(accounts'[a].salt)
    <3>1. accounts'[a] = accounts[a] /\ nick[a] = NoNick
      BY <1>4, <2>1
    <3>2. \/ <<"kept", accounts[a].salt>> \in happened
          \/ \E j \in jobs : j.step \in Unfinished /\ j.n = accounts[a].salt
      BY <1>1, <2>1, <3>1
    <3> QED BY <1>2, <1>4, <3>1, <3>2
  <2> HIDE DEF Accounted
  <2> QED BY <2>1
<1>5. ASSUME UNCHANGED <<accounts, nick>>, \A j \in jobs : j.step \in Unfinished => Accounted(j.n)
      PROVE  Goal
  <2> HIDE DEF Accounted, Goal
  <2> QED BY <1>4, <1>5
<1>6. ASSUME NEW c \in Clients, NEW k \in Chains, Begins(c, k)
      PROVE  Goal
  BY <1>5, <1>6 DEF Begins, tables
<1>7. ASSUME NEW j \in jobs, NEW k \in Chains, Moves(j, k), Registers(j, k)
      PROVE  Goal
  <2>1. UNCHANGED <<accounts, nick>> /\ jobs' = (jobs \ {j}) \cup {k} /\ k.n = j.n
    BY <1>7 DEF Moves, Onward, tables
  <2>2. j.step \in Unfinished => k.step \in Unfinished
    BY <1>7 DEF Registers, LooksUp, Proceeds, Resolves, Unfinished
  <2>3. \A i \in jobs : i.step \in Unfinished => Accounted(i.n)
    BY <2>1, <2>2
  <2> QED BY <1>5, <2>1, <2>3
<1>8. ASSUME NEW j \in jobs, NEW k \in Chains, Inserts(j, k)
      PROVE  Goal
  <2>1. /\ accounts' = [accounts EXCEPT ![nextID] = [login |-> j.login, salt |-> j.n]]
        /\ nextID \in IDs /\ UNCHANGED nick
        /\ jobs' = (jobs \ {j}) \cup {k} /\ k.n = j.n /\ k.step \in Unfinished
    BY <1>8 DEF Inserts, Onward, Unfinished
  <2>2. /\ \A a \in IDs \ {nextID} : accounts'[a] = accounts[a]
        /\ accounts'[nextID].salt = j.n
    BY <1>3, <2>1
  <2>3. Accounted(accounts'[nextID].salt)
    BY <2>1, <2>2
  <2>4. ASSUME NEW a \in IDs \ {nextID}, accounts'[a] # NoAccount, nick'[a] = NoNick
        PROVE  Accounted(accounts'[a].salt)
    <3>1. \/ <<"kept", accounts[a].salt>> \in happened
          \/ \E i \in jobs : i.step \in Unfinished /\ i.n = accounts[a].salt
      BY <1>1, <2>1, <2>2, <2>4
    <3> QED BY <1>2, <2>1, <2>2, <3>1
  <2> HIDE DEF Accounted
  <2> QED BY <2>3, <2>4
<1>9. ASSUME NEW j \in jobs, NEW k \in Chains, Writes(j, k)
      PROVE  Goal
  <2>1. /\ UNCHANGED accounts /\ nick' = [nick EXCEPT ![j.acc] = j.nick]
        /\ jobs' = (jobs \ {j}) \cup {k} /\ j \in Chains /\ j.step = "InsertAccountData" /\ j.step \in Unfinished
    BY <1>9 DEF Writes, Onward, Unfinished
  <2>2. /\ \A a \in IDs : accounts[a].salt = j.n => a = j.acc \/ <<"kept", j.n>> \in happened
        /\ j.acc \in IDs /\ j.nick # NoNick
    BY <1>3, <2>1, WrittenRow DEF Registering, Blamed
  <2>3. ASSUME NEW a \in IDs, accounts'[a] # NoAccount, nick'[a] = NoNick
        PROVE  Accounted(accounts'[a].salt)
    <3>1. a # j.acc /\ nick[a] = NoNick /\ accounts'[a] = accounts[a]
      BY <1>3, <2>1, <2>2, <2>3
    <3>2. accounts[a].salt = j.n => <<"kept", j.n>> \in happened
      BY <2>2, <3>1
    <3>3. \/ <<"kept", accounts[a].salt>> \in happened
          \/ \E i \in jobs : i.step \in Unfinished /\ i.n = accounts[a].salt
      BY <1>1, <2>3, <3>1
    <3> QED BY <1>2, <2>1, <3>1, <3>2, <3>3
  <2> HIDE DEF Accounted
  <2> QED BY <2>3
<1>10. ASSUME NEW j \in jobs, Updates(j)
       PROVE  Goal
  <2>1. /\ accounts' = [accounts EXCEPT ![j.acc] = [login |-> j.login, salt |-> j.n]]
        /\ UNCHANGED nick /\ jobs' = jobs \ {j} /\ j.step = "Update" /\ accounts[j.acc] # NoAccount
    BY <1>10 DEF Updates
  <2>2. nick[j.acc] # NoNick
    BY <1>10, <2>1 DEF Types, JobsOK, Known, Looked
  <2>3. ASSUME NEW a \in IDs, accounts'[a] # NoAccount, nick'[a] = NoNick
        PROVE  Old(a)
    <3>1. a # j.acc
      BY <2>1, <2>2, <2>3
    <3> QED BY <1>3, <2>1, <2>3, <3>1
  <2>4. \A i \in jobs : i.step \in Unfinished => Accounted(i.n)
    BY <2>1 DEF Unfinished
  <2> HIDE DEF Accounted, Goal
  <2> QED BY <1>4, <2>3, <2>4
<1>11. ASSUME NEW j \in jobs, Removes(j)
       PROVE  Goal
  <2>1. /\ jobs' \in {jobs, jobs \ {j}}
        /\ \A a \in IDs : \/ accounts'[a] = NoAccount /\ nick'[a] = NoNick
                          \/ accounts'[a] = accounts[a] /\ nick'[a] = nick[a]
        /\ \A a \in IDs : accounts[a].salt = j.n /\ accounts'[a] # NoAccount => <<"kept", j.n>> \in happened
    BY <1>11, Deletes
  <2>2. ASSUME NEW a \in IDs, accounts'[a] # NoAccount, nick'[a] = NoNick
        PROVE  Accounted(accounts'[a].salt)
    <3>1. /\ accounts'[a] = accounts[a] /\ nick[a] = NoNick
          /\ accounts[a].salt = j.n => <<"kept", j.n>> \in happened
      BY <2>1, <2>2
    <3>2. \/ <<"kept", accounts[a].salt>> \in happened
          \/ \E i \in jobs : i.step \in Unfinished /\ i.n = accounts[a].salt
      BY <1>1, <2>2, <3>1
    <3> QED BY <1>2, <2>1, <3>1, <3>2
  <2> HIDE DEF Accounted
  <2> QED BY <2>2
<1>12. ASSUME NEW j \in jobs, OnRename(j)
       PROVE  Goal
  <2>1. /\ j.step = "Rename" /\ jobs' = jobs \ {j} /\ UNCHANGED accounts /\ j.acc \in IDs /\ j.nick \in Nicks
        /\ nick' = nick \/ nick' = [nick EXCEPT ![j.acc] = j.nick]
    BY <1>12, RenameDone DEF OnRename
  <2>2. \A a \in IDs : accounts'[a] # NoAccount /\ nick'[a] = NoNick => Old(a)
    BY <1>3, <2>1
  <2>3. \A i \in jobs : i.step \in Unfinished => Accounted(i.n)
    BY <2>1 DEF Unfinished
  <2> HIDE DEF Accounted, Goal
  <2> QED BY <1>4, <2>2, <2>3
<1>13. ASSUME NEW j \in jobs, Dropped(j)
       PROVE  Goal
  <2>1. /\ UNCHANGED <<accounts, nick>> /\ jobs' = jobs \ {j}
        /\ j.step \in Unfinished => <<"kept", j.n>> \in happened'
    BY <1>13 DEF Dropped, End, tables
  <2>2. \A i \in jobs : i.step \in Unfinished => Accounted(i.n)
    BY <2>1
  <2> HIDE DEF Accounted, Goal
  <2> QED BY <1>5, <2>1, <2>2
<1>14. ASSUME Restart PROVE Goal
  <2>1. /\ UNCHANGED <<accounts, nick>>
        /\ happened' = happened \cup {<<"kept", j.n>> : j \in {k \in jobs : k.step \in Unfinished}}
    BY <1>14 DEF Restart, tables
  <2>2. ASSUME NEW a \in IDs, accounts[a] # NoAccount, nick[a] = NoNick
        PROVE  <<"kept", accounts[a].salt>> \in happened'
    BY <1>1, <2>1, <2>2
  <2> QED BY <2>1, <2>2
<1>15. ASSUME UNCHANGED <<accounts, nick>>, \A j \in jobs : j.step \in Unfinished => j \in jobs'
       PROVE  Goal
  BY <1>5, <1>15
<1> HIDE DEF Goal
<1>16. Goal
  BY <1>6, <1>7, <1>8, <1>9, <1>10, <1>11, <1>12, <1>13, <1>14, <1>15, RegistrationSteps
<1> QED BY <1>16 DEF Goal, NoOrphan, Blamed

-----------------------------------------------------------------------------
(* Names *)

LEMMA NameLookedKept ==
  ASSUME AccountsAssumption, Types, Registering, NameLooked, Kinds
  PROVE  NameLooked'
<1> DEFINE Checked == Looked \ {"Update"}
           Goal == \A j \in jobs' : j.step \in Checked =>
             <<"rename", j.acc>> \in happened' \/ <<"removed", j.acc>> \in happened' \/ nick'[j.acc] = j.nick
<1>1. /\ \A j \in jobs : j.step \in Checked =>
           <<"rename", j.acc>> \in happened \/ <<"removed", j.acc>> \in happened \/ nick[j.acc] = j.nick
      /\ \A j \in jobs : j.step \in Checked => j.acc \in IDs /\ (accounts[j.acc] # NoAccount => nick[j.acc] # NoNick)
      /\ happened \subseteq happened' /\ nick \in [IDs -> Nicks \cup {NoNick}]
  BY BlameStays DEF NameLooked, Blamed, Types, TypeOK, JobsOK, Known
<1>2. ASSUME NEW k, Fine(k), k \notin Chains PROVE k.step \notin Checked
  BY <1>2, Shapes DEF Fine, Steps
<1>3. ASSUME UNCHANGED nick, \A k \in jobs' : k.step \in Checked => k \in jobs
      PROVE  Goal
  BY <1>1, <1>3
<1>4. ASSUME NEW j \in jobs, NEW k \in Chains, Moves(j, k)
      PROVE  Goal
  <2>1. UNCHANGED nick /\ jobs' = (jobs \ {j}) \cup {k} /\ k.nick = j.nick
    BY <1>4 DEF Moves, Onward, tables
  <2>2. CASE LooksUp(j, k)
    BY <1>1, <2>1, <2>2 DEF LooksUp, Named
  <2>3. CASE Passes(j, k) \/ MayLoadNow(j, k)
    <3>1. j.step \in Checked /\ k.acc = j.acc
      BY <2>3 DEF Passes, MayLoadNow, Looked
    <3> QED BY <1>1, <2>1, <3>1
  <2>4. CASE Proceeds(j, k) \/ Resolves(j, k)
    <3>1. k.step \notin Checked
      BY <2>4 DEF Proceeds, Resolves, Looked
    <3> QED BY <1>1, <2>1, <3>1
  <2> QED BY <1>4, <2>2, <2>3, <2>4 DEF Moves
<1>5. ASSUME NEW j \in jobs, NEW k \in Chains, Inserts(j, k)
      PROVE  Goal
  BY <1>3, <1>5 DEF Inserts, Onward, Looked
<1>6. ASSUME NEW j \in jobs, NEW k \in Chains, Writes(j, k)
      PROVE  Goal
  <2>1. /\ nick' = [nick EXCEPT ![j.acc] = j.nick] /\ jobs' = (jobs \ {j}) \cup {k} /\ k.step \notin Checked
        /\ nick[j.acc] = NoNick /\ accounts[j.acc] # NoAccount
    BY <1>6 DEF Writes, Onward, Looked
  <2>2. \A i \in jobs : i.step \in Checked => i.acc # j.acc /\ nick'[i.acc] = nick[i.acc]
    BY <1>1, <2>1
  <2> QED BY <1>1, <2>1, <2>2
<1>7. ASSUME NEW j \in jobs, OnRename(j)
      PROVE  Goal
  <2>1. /\ nick' = nick \/ nick' = [nick EXCEPT ![j.acc] = j.nick]
        /\ jobs' = jobs \ {j} /\ j.acc \in IDs
    BY <1>7, RenameDone
  <2>2. ASSUME NEW i \in jobs, i.step \in Checked, i.acc = j.acc
        PROVE  <<"rename", j.acc>> \in happened'
    BY <1>7, <2>2 DEF OnRename, Looked, Chain
  <2>3. ASSUME NEW i \in jobs, i.step \in Checked, i.acc # j.acc
        PROVE  nick'[i.acc] = nick[i.acc]
    BY <1>1, <2>1, <2>3
  <2> QED BY <1>1, <2>1, <2>2, <2>3
<1>8. ASSUME NEW k, Fine(k), k \notin Chains, jobs' = jobs \cup {k}, UNCHANGED nick
      PROVE  Goal
  BY <1>2, <1>3, <1>8
<1>9. ASSUME NEW c \in Clients, NEW k \in Chains, Begins(c, k)
      PROVE  Goal
  BY <1>3, <1>9 DEF Begins, tables, Looked
<1>10. ASSUME jobs' \subseteq jobs, UNCHANGED nick
       PROVE  Goal
  BY <1>3, <1>10
<1>11. \/ UNCHANGED nick
       \/ \E j \in jobs : OnRename(j) \/ Removes(j) \/ \E k \in Chains : Writes(j, k)
  BY Writers DEF tables, Inserts, Updates, OnBan, BanEnds
<1>12. ASSUME NEW j \in jobs, Removes(j)
       PROVE  Goal
  <2>1. /\ jobs' \subseteq jobs
        /\ \A a \in IDs : nick'[a] = nick[a] \/ <<"removed", a>> \in happened'
    BY <1>12, Deletes
  <2> QED BY <1>1, <2>1
<1> HIDE DEF Goal
<1>13. Goal
  BY <1>4, <1>5, <1>6, <1>7, <1>8, <1>9, <1>10, <1>11, <1>12, Pool
<1> QED BY <1>13 DEF Goal, NameLooked, Blamed

\* Who asks for renames, and who is to bear a name.
LEMMA RenameSteps ==
  ASSUME AccountsAssumption, Types, Kinds
  PROVE  \/ /\ \A a : Renames(a)' = Renames(a)
            /\ \/ UNCHANGED <<client, nick>>
               \/ \E c \in Clients : Drops(c) \/ \E n \in Nicks : OnClientEnter(c, n) \/ SetClientName(c, n)
               \/ \E j \in jobs : Told(j) \/ LogsIn(j) \/ Removes(j) \/ \E k \in Chains : Writes(j, k)
         \/ \E c \in Clients, n \in Nicks : ChangeNickname(c, n)
         \/ \E j \in jobs : OnRename(j) \/ (Dropped(j) /\ j.step = "Rename")
         \/ Restart
<1> DEFINE Kept == \A a : Renames(a)' = Renames(a)
<1>1. \A k \in Chains : k.step # "Rename"
  BY ChainFields DEF Steps, Looked, Unwritten, Unfinished
<1>2. ASSUME NEW k, k.step # "Rename", jobs' = jobs \cup {k}
      PROVE  Kept
  BY <1>2 DEF Renames
<1>3. ASSUME NEW j \in jobs, j.step # "Rename", jobs' = jobs \ {j}
      PROVE  Kept
  BY <1>3 DEF Renames
<1>4. UNCHANGED jobs => Kept
  BY DEF Renames
<1>5. ASSUME NEW c \in Clients, NEW n \in Nicks, OnClientEnter(c, n) \/ SetClientName(c, n)
      PROVE  Kept
  BY <1>2, <1>4, <1>5 DEF OnClientEnter, SetClientName
<1>6. ASSUME NEW c \in Clients, Drops(c)
      PROVE  Kept
  BY <1>2, <1>4, <1>6 DEF Drops, Statement
<1>7. ASSUME NEW c \in Clients, NEW k \in Chains, Begins(c, k)
      PROVE  Kept /\ UNCHANGED <<client, nick>>
  BY <1>1, <1>2, <1>7 DEF Begins, tables
<1>8. ASSUME NEW j \in jobs, NEW k \in Chains, Onward(j, k)
      PROVE  Kept
  BY <1>1, <1>8 DEF Onward, Renames
<1>9. ASSUME NEW j \in jobs, NEW k \in Chains, Moves(j, k) \/ Inserts(j, k)
      PROVE  Kept /\ UNCHANGED <<client, nick>>
  BY <1>8, <1>9 DEF Moves, Inserts, tables
<1>10. ASSUME NEW j \in jobs, NEW k \in Chains, Writes(j, k)
      PROVE  Kept
  BY <1>8, <1>10 DEF Writes
<1>11. ASSUME NEW j \in jobs, Told(j) \/ LogsIn(j)
       PROVE  Kept
  <2>1. jobs' = jobs \ {j} /\ j.step # "Rename"
    BY <1>1, <1>11 DEF Told, Enters, LogsIn
  <2> QED BY <1>3, <2>1
<1>12. ASSUME NEW j \in jobs, Ends(j) \/ Updates(j) \/ OnBan(j) \/ (Dropped(j) /\ j.step # "Rename")
       PROVE  Kept /\ UNCHANGED <<client, nick>>
  <2>1. jobs' = jobs \ {j} /\ j.step # "Rename" /\ UNCHANGED <<client, nick>>
    BY <1>1, <1>12 DEF Ends, Updates, OnBan, Dropped, End, tables
  <2> QED BY <1>3, <2>1
<1>15. ASSUME NEW j \in jobs, Removes(j)
       PROVE  Kept
  <2>1. jobs' \in {jobs, jobs \ {j}} /\ j.step # "Rename"
    BY <1>15 DEF Removes
  <2> QED BY <1>3, <1>4, <2>1
<1>13. UNCHANGED vars \/ (\E a \in banned : BanEnds(a)) => Kept /\ UNCHANGED <<client, nick>>
  BY <1>4 DEF vars, BanEnds, tables
<1> HIDE DEF Kept
<1>14. \/ /\ Kept
          /\ \/ UNCHANGED <<client, nick>>
             \/ \E c \in Clients : Drops(c) \/ \E n \in Nicks : OnClientEnter(c, n) \/ SetClientName(c, n)
             \/ \E j \in jobs : Told(j) \/ LogsIn(j) \/ Removes(j) \/ \E k \in Chains : Writes(j, k)
       \/ \E c \in Clients, n \in Nicks : ChangeNickname(c, n)
       \/ \E j \in jobs : OnRename(j) \/ (Dropped(j) /\ j.step = "Rename")
       \/ Restart
  BY <1>5, <1>6, <1>7, <1>9, <1>10, <1>11, <1>12, <1>13, <1>15 DEF Kinds
<1> QED BY <1>14 DEF Kept

\* Client c bears the name of account a, or the one that is on its way to it.
Bears(c, a) == \/ Blamed("renamed", c) \/ Blamed("deserted", c)
               \/ Renames(a) = {} /\ client[c].name = nick[a]
               \/ Renames(a) # {} /\ \A r \in Renames(a) : r.nick = client[c].name

LEMMA RenamesOwnKept ==
  ASSUME AccountsAssumption, Types, ChainsOwn, OneWayIn, Registering, Names, Kinds
  PROVE  RenamesOwn'
<1> DEFINE OK(a) == \/ <<"rename", a>> \in happened' \/ <<"overlap", a>> \in happened'
                    \/ <<"removed", a>> \in happened'
                    \/ /\ \A r, s \in Renames(a)' : r = s
                       /\ Renames(a)' # {} => Online(a)' # {}
                       /\ \A c \in Online(a)' : Bears(c, a)'
<1>1. \A a \in IDs : \/ <<"rename", a>> \in happened \/ <<"overlap", a>> \in happened
                     \/ <<"removed", a>> \in happened
                     \/ /\ \A r, s \in Renames(a) : r = s
                        /\ Renames(a) # {} => Online(a) # {}
                        /\ \A c \in Online(a) : Bears(c, a)
  BY DEF Names, RenamesOwn, Blamed, Bears
<1>2. happened \subseteq happened'
  BY BlameStays
<1>3. SUFFICES ASSUME NEW a \in IDs PROVE OK(a)
  BY DEF RenamesOwn, Blamed, Bears
<1>4. a # 0 /\ nick \in [IDs -> Nicks \cup {NoNick}]
  BY DEF IDs, Types, TypeOK
<1>5. ASSUME Renames(a)' = Renames(a), Online(a)' \subseteq Online(a), Renames(a) # {} => Online(a)' = Online(a),
             nick'[a] = nick[a], \A c \in Online(a)' : client'[c].name = client[c].name
      PROVE  OK(a)
  <2>1. \A c \in Online(a)' : Bears(c, a) => Bears(c, a)'
    BY <1>2, <1>5 DEF Bears, Blamed
  <2> QED BY <1>1, <1>2, <1>5, <2>1
<1>6. ASSUME NEW c \in Clients, c \notin Online(a), c \notin Online(a)',
             \A d \in Clients \ {c} : client'[d] = client[d], Renames(a)' = Renames(a), nick'[a] = nick[a]
      PROVE  OK(a)
  <2>1. Online(a)' = Online(a) /\ \A d \in Online(a)' : client'[d].name = client[d].name
    BY <1>6 DEF Online
  <2> QED BY <1>5, <1>6, <2>1
<1>7. ASSUME NEW c \in Clients, NEW n \in Nicks, OnClientEnter(c, n), Renames(a)' = Renames(a)
      PROVE  OK(a)
  <2>1. client[c] = Absent /\ nick' = nick
    BY <1>7 DEF OnClientEnter, Types, ClientsOK, tables
  <2>2. client[c].on = 0
    BY <2>1, AbsentTyped
  <2>3. client'[c].on = 0 /\ \A d \in Clients \ {c} : client'[d] = client[d]
    BY <1>7, Arrives
  <2>4. c \notin Online(a) /\ c \notin Online(a)'
    BY <1>4, <2>2, <2>3 DEF Online
  <2> QED BY <1>6, <1>7, <2>1, <2>3, <2>4
<1>8. ASSUME NEW c \in Clients, NEW n \in Nicks, SetClientName(c, n), Renames(a)' = Renames(a)
      PROVE  OK(a)
  <2>1. client[c].on = 0 /\ nick' = nick /\ client' = [client EXCEPT ![c].name = n]
    BY <1>8 DEF SetClientName, IsAuthed, tables
  <2>2. client'[c].on = client[c].on /\ \A d \in Clients \ {c} : client'[d] = client[d]
    BY <2>1, Renamed
  <2>3. c \notin Online(a) /\ c \notin Online(a)'
    BY <1>4, <2>1, <2>2 DEF Online
  <2> QED BY <1>6, <1>8, <2>1, <2>2, <2>3
<1>9. ASSUME NEW c \in Clients, Drops(c), Renames(a)' = Renames(a)
      PROVE  OK(a)
  <2>1. /\ client'[c] = Absent /\ \A d \in Clients \ {c} : client'[d] = client[d]
        /\ nick' = nick /\ happened' = happened \cup Leaves(c)
    BY <1>9, Resets DEF Drops, Drop, tables
  <2>2. client'[c].on = 0
    BY <2>1, AbsentTyped
  <2>3. CASE client[c].on # a
    <3>1. c \notin Online(a) /\ c \notin Online(a)'
      BY <1>4, <2>2, <2>3 DEF Online
    <3> QED BY <1>6, <1>9, <2>1, <3>1
  <2>4. CASE client[c].on = a /\ Renames(a) # {}
    <3>1. <<"rename", a>> \in happened'
      BY <2>1, <2>4 DEF Leaves
    <3> QED BY <3>1
  <2>5. CASE client[c].on = a /\ Renames(a) = {}
    <3>1. Online(a)' \subseteq Online(a) /\ \A d \in Online(a)' : client'[d].name = client[d].name
      BY <1>4, <2>1, <2>2 DEF Online
    <3> QED BY <1>5, <1>9, <2>1, <2>5, <3>1
  <2> QED BY <2>3, <2>4, <2>5
<1>10. ASSUME NEW j \in jobs, Told(j), Renames(a)' = Renames(a)
       PROVE  OK(a)
  <2>1. nick' = nick /\ Online(a)' = Online(a) /\ \A d \in Clients : client'[d].name = client[d].name
    BY <1>10 DEF Told, Same, Online, tables
  <2>2. \A d \in Online(a)' : client'[d].name = client[d].name
    BY <2>1 DEF Online
  <2> QED BY <1>5, <1>10, <2>1, <2>2
<1>11. ASSUME NEW j \in jobs, LogsIn(j), Renames(a)' = Renames(a)
       PROVE  OK(a)
  <2> DEFINE c == j.cid
  <2>1. /\ c \in Clients /\ \A d \in Clients \ {c} : client'[d] = client[d]
        /\ client'[c].on = j.acc /\ client'[c].name = client[c].name
    BY <1>11, LoggedIn
  <2>2. client[c].on = 0 /\ nick' = nick /\ j.step = "LoadAccountData" /\ Chain(j) /\ happened' = happened
    BY <1>11 DEF LogsIn, IsAuthed, tables, Chain
  <2>3. CASE a # j.acc
    <3>1. c \notin Online(a) /\ c \notin Online(a)'
      BY <1>4, <2>1, <2>2, <2>3 DEF Online
    <3> QED BY <1>6, <1>11, <2>1, <2>2, <3>1
  <2>4. CASE a = j.acc
    <3>1. CASE <<"rename", a>> \in happened \/ <<"overlap", a>> \in happened \/ <<"removed", a>> \in happened
      BY <2>2, <3>1
    <3>2. CASE ~(<<"rename", a>> \in happened \/ <<"overlap", a>> \in happened \/ <<"removed", a>> \in happened)
      <4>1. Online(a) = {} /\ Renames(a) = {}
        <5>1. j \in Loads(a)
          BY <2>2, <2>4 DEF Loads
        <5> QED BY <1>1, <3>2, <5>1 DEF OneWayIn, Blamed
      <4>2. Online(a)' \subseteq {c}
        BY <1>4, <2>1, <4>1 DEF Online
      <4>3. nick[a] = j.nick
        BY <2>2, <2>4, <3>2 DEF Names, NameLooked, Blamed, Looked
      <4>4. \/ <<"deserted", c>> \in happened \/ <<"renamed", c>> \in happened \/ client[c].name = j.nick
        BY <2>2 DEF ChainsOwn, Blamed, IsAuthed
      <4>5. Bears(c, a)'
        BY <1>11, <2>1, <2>2, <4>1, <4>3, <4>4 DEF Bears, Blamed
      <4> QED BY <1>11, <4>1, <4>2, <4>5
    <3> QED BY <3>1, <3>2
  <2> QED BY <2>3, <2>4
<1>12. ASSUME NEW j \in jobs, NEW k \in Chains, Writes(j, k), Renames(a)' = Renames(a)
       PROVE  OK(a)
  <2>1. client' = client /\ nick' = [nick EXCEPT ![j.acc] = j.nick]
    BY <1>12 DEF Writes
  <2>2. nick[j.acc] = NoNick /\ accounts[j.acc] # NoAccount
    BY <1>12 DEF Writes
  <2>3. Online(a)' = Online(a)
    BY <2>1 DEF Online
  <2>4. CASE a # j.acc
    <3>1. nick'[a] = nick[a]
      BY <1>4, <2>1, <2>4
    <3> QED BY <1>5, <1>12, <2>1, <2>3, <3>1
  <2>5. CASE a = j.acc
    <3>1. Online(a) = {}
      BY <1>4, <2>2, <2>5 DEF Online, Types, ClientsOK, IsAuthed, Known
    <3>2. Renames(a) = {}
      BY <2>2, <2>5 DEF Renames, Types, JobsOK, Known
    <3> QED BY <1>12, <2>3, <3>1, <3>2
  <2> QED BY <2>4, <2>5
<1>13. ASSUME UNCHANGED <<client, nick>>, Renames(a)' = Renames(a)
       PROVE  OK(a)
  <2>1. Online(a)' = Online(a)
    BY <1>13 DEF Online
  <2> QED BY <1>5, <1>13, <2>1
<1>14. ASSUME NEW c \in Clients, NEW n \in Nicks, ChangeNickname(c, n)
       PROVE  OK(a)
  <2> DEFINE b == client[c].on
             s == Statement("Rename", b, n)
  <2>1. /\ client' = [client EXCEPT ![c].name = n] /\ jobs' = jobs \cup {s} /\ nick' = nick
        /\ happened' = happened \cup IF Renames(b) = {} THEN {} ELSE {<<"rename", b>>}
    BY <1>14 DEF ChangeNickname, Rename, tables
  <2>2. /\ client'[c].name = n /\ client'[c].on = b /\ \A d \in Clients \ {c} : client'[d] = client[d]
    BY <2>1, Renamed
  <2>3. s.step = "Rename" /\ s.acc = b /\ s.nick = n
    BY DEF Statement
  <2> HIDE DEF b, s
  <2>4. Online(a)' = Online(a)
    BY <2>2 DEF Online, b
  <2>5. CASE a # b
    <3>1. Renames(a)' = Renames(a)
      BY <2>1, <2>3, <2>5 DEF Renames
    <3>2. \A d \in Online(a)' : client'[d].name = client[d].name
      BY <2>2, <2>5 DEF Online
    <3> QED BY <1>5, <2>1, <2>4, <3>1, <3>2
  <2>6. CASE a = b /\ Renames(a) # {}
    <3>1. <<"rename", a>> \in happened'
      BY <2>1, <2>6
    <3> QED BY <3>1
  <2>7. CASE a = b /\ Renames(a) = {}
    <3>1. Renames(a)' = {s}
      BY <2>1, <2>3, <2>7 DEF Renames
    <3>2. c \in Online(a)
      BY <2>7 DEF Online, b
    <3>3. <<"overlap", a>> \in happened' \/ \A d \in Online(a) : d = c
      BY <1>2, <3>2 DEF OneWayIn, Blamed
    <3>4. Bears(c, a)'
      BY <2>2, <2>3, <3>1 DEF Bears
    <3> QED BY <2>4, <3>1, <3>2, <3>3, <3>4
  <2> QED BY <2>5, <2>6, <2>7
<1>15. ASSUME NEW j \in jobs, OnRename(j)
       PROVE  OK(a)
  <2>1. /\ j.acc \in IDs /\ jobs' = jobs \ {j} /\ client' = client /\ j.step = "Rename"
        /\ nick' = nick \/ nick' = [nick EXCEPT ![j.acc] = j.nick]
    BY <1>15, RenameDone DEF OnRename
  <2>2. Online(a)' = Online(a)
    BY <2>1 DEF Online
  <2>3. CASE a # j.acc
    <3>1. Renames(a)' = Renames(a) /\ nick'[a] = nick[a]
      BY <1>4, <2>1, <2>3 DEF Renames
    <3> QED BY <1>5, <2>1, <2>2, <3>1
  <2>4. CASE a = j.acc
    <3>1. PICK done \in {Unique(j.nick) /\ nick[j.acc] # NoNick, FALSE} :
            /\ nick' = IF done THEN [nick EXCEPT ![j.acc] = j.nick] ELSE nick
            /\ happened' = IF ~done \/ \E k \in jobs : Chain(k) /\ k.acc = j.acc
                           THEN happened \cup {<<"rename", j.acc>>} ELSE happened
      BY <1>15 DEF OnRename
    <3>2. CASE ~done
      BY <2>4, <3>1, <3>2
    <3>3. CASE done /\ ~(<<"rename", a>> \in happened \/ <<"overlap", a>> \in happened \/ <<"removed", a>> \in happened)
      <4>1. nick'[a] = j.nick
        BY <1>4, <2>4, <3>1, <3>3
      <4>2. j \in Renames(a)
        BY <2>1, <2>4 DEF Renames
      <4>3. Renames(a)' = {}
        BY <1>1, <2>1, <3>3, <4>2 DEF Renames
      <4>4. ASSUME NEW c \in Online(a) PROVE Bears(c, a)'
        <5>1. Bears(c, a)
          BY <1>1, <3>3
        <5> QED BY <1>2, <2>1, <4>1, <4>2, <4>3, <5>1 DEF Bears, Blamed
      <4> QED BY <2>2, <4>3, <4>4
    <3>4. CASE <<"rename", a>> \in happened \/ <<"overlap", a>> \in happened \/ <<"removed", a>> \in happened
      BY <1>2, <3>4
    <3> QED BY <3>2, <3>3, <3>4
  <2> QED BY <2>3, <2>4
<1>16. CASE Restart
  <2>1. Renames(a)' = {}
    BY <1>16 DEF Restart, Renames
  <2>2. Online(a)' = {}
    BY <1>4, <1>16, AbsentTyped DEF Restart, Online
  <2> QED BY <2>1, <2>2
<1>17. ASSUME NEW j \in jobs, Removes(j), Renames(a)' = Renames(a)
       PROVE  OK(a)
  <2>1. client' = client /\ (nick'[a] = nick[a] \/ <<"removed", a>> \in happened')
    BY <1>17, Deletes
  <2>2. Online(a)' = Online(a)
    BY <2>1 DEF Online
  <2> QED BY <1>5, <1>17, <2>1, <2>2
<1>18. ASSUME NEW j \in jobs, Dropped(j), j.step = "Rename"
       PROVE  OK(a)
  <2>1. /\ client' = client /\ nick' = nick /\ jobs' = jobs \ {j}
        /\ <<"rename", j.acc>> \in happened'
    BY <1>18 DEF Dropped, End, tables, Unfinished
  <2>2. CASE a # j.acc
    <3>1. Renames(a)' = Renames(a) /\ Online(a)' = Online(a)
      BY <2>1, <2>2 DEF Renames, Online
    <3> QED BY <1>13, <2>1, <3>1
  <2>3. CASE a = j.acc
    BY <2>1, <2>3
  <2> QED BY <2>2, <2>3
<1> HIDE DEF OK
<1> QED BY <1>7, <1>8, <1>9, <1>10, <1>11, <1>12, <1>13, <1>14, <1>15, <1>16, <1>17, <1>18, RenameSteps

-----------------------------------------------------------------------------
(* The inductive invariant *)

LEMMA IInvStep ==
  ASSUME AccountsAssumption, IInv, [Next]_vars
  PROVE  IInv'
<1>1. Kinds /\ Types
  BY StepKinds DEF IInv, Types
<1>2. Types'
  BY <1>1, TypesKept DEF IInv
<1>3. ChainsOwn' /\ LoggedInByOneself'
  BY <1>1, ChainsOwnKept, ByOneselfKept DEF IInv
<1>4. OneWayIn' /\ BanHolds'
  BY <1>1, OneWayInKept, BanHoldsKept DEF IInv
<1>5. Salts' /\ Registering' /\ NoOrphan'
  BY <1>1, SaltsKept, RegisteringKept, NoOrphanKept DEF IInv
<1>6. Names'
  <2>1. NameLooked'
    BY <1>1, NameLookedKept DEF IInv, Names
  <2>2. RenamesOwn'
    BY <1>1, RenamesOwnKept DEF IInv
  <2> QED BY <2>1, <2>2 DEF Names
<1> QED BY <1>2, <1>3, <1>4, <1>5, <1>6 DEF IInv, Types

LEMMA IInvAlways == Spec => []IInv
<1>1. Init => IInv
  BY AccountsAssumption, InitInv
<1>2. IInv /\ [Next]_vars => IInv'
  BY AccountsAssumption, IInvStep
<1> QED BY <1>1, <1>2, PTL DEF Spec

-----------------------------------------------------------------------------
(* What a reader should know *)

\* The variables keep their types, and no two accounts ever bear one name,
\* whatever the order in which registrations and renames reach the table.
THEOREM TypesHold == Spec => []TypeOK
<1>1. IInv => TypeOK
  BY DEF IInv
<1> QED BY <1>1, IInvAlways, PTL

\* An account is online on one client (OnCheckBans refuses "This account is
\* already online."), unless two chains for it were past that check at a time.
THEOREM OnlineOnceHolds == Spec => []OnlineOnce
<1>1. ASSUME IInv PROVE OnlineOnce
  <2>1. SUFFICES ASSUME NEW a \in IDs, ~Blamed("overlap", a)
                 PROVE  ~(Cardinality(Online(a)) > 1)
    BY DEF OnlineOnce
  <2>2. \A c, d \in Online(a) : c = d
    BY <1>1, <2>1 DEF IInv, OneWayIn
  <2>3. CASE Online(a) = {}
    BY <2>3, FS_EmptySet
  <2>4. CASE Online(a) # {}
    <3>1. PICK c \in Online(a) : TRUE
      BY <2>4
    <3>2. Online(a) = {c}
      BY <2>2, <3>1
    <3> QED BY <3>2, FS_Singleton
  <2> QED BY <2>3, <2>4
<1> QED BY <1>1, IInvAlways, PTL

\* Who is logged in has asked for it himself, unless somebody left while his
\* chain ran and the number is another player's now (CContextBase::GetPlayer).
THEOREM LoggedInByOneselfHolds == Spec => []LoggedInByOneself
<1>1. IInv => LoggedInByOneself
  BY DEF IInv
<1> QED BY <1>1, IInvAlways, PTL

\* A player bears the name of his account, unless he renamed himself while his
\* chain ran, or the statement of ChangeNickname is still to come or was lost,
\* refused or overtaken, or the registration that made the account failed after
\* all and removed it.
THEOREM NameIsAccountsHolds == Spec => []NameIsAccounts
<1>1. ASSUME IInv PROVE NameIsAccounts
  <2>1. SUFFICES ASSUME NEW c \in Clients, client[c].on # 0
                 PROVE  LET a == client[c].on IN
                        \/ client[c].name = nick[a] \/ Renames(a) # {}
                        \/ Blamed("renamed", c) \/ Blamed("deserted", c)
                        \/ Blamed("rename", a) \/ Blamed("overlap", a) \/ Blamed("removed", a)
    BY DEF NameIsAccounts
  <2>2. client[c].on \in IDs /\ c \in Online(client[c].on)
    BY <1>1, <2>1 DEF IInv, ClientsOK, IsAuthed, Known, Online
  <2> QED BY <1>1, <2>2 DEF IInv, Names, RenamesOwn
<1> QED BY <1>1, IInvAlways, PTL

\* A registration leaves no account without data (CleanupAccountOnError), unless
\* its INSERT was applied and repeated, its DELETE was given up or refused, one of
\* its statements was dropped, or the server stopped in between.
THEOREM NoOrphanHolds == Spec => []NoOrphan
<1>1. IInv => NoOrphan
  BY DEF IInv
<1> QED BY <1>1, IInvAlways, PTL

\* Nobody plays with a banned account, unless the ban was not in the table when a
\* chain looked, or the query failed, or the account was online twice.
THEOREM BannedStaysOutHolds == Spec => []BannedStaysOut
<1>1. ASSUME IInv PROVE BannedStaysOut
  <2>1. SUFFICES ASSUME NEW c \in Clients, client[c].on \in banned
                 PROVE  Blamed("unseen", client[c].on) \/ Blamed("overlap", client[c].on)
    BY DEF BannedStaysOut
  <2>2. client[c].on \in IDs /\ c \in Online(client[c].on)
    BY <1>1, <2>1 DEF IInv, TypeOK, Online
  <2> QED BY <1>1, <2>1, <2>2 DEF IInv, BanHolds
<1> QED BY <1>1, IInvAlways, PTL

=============================================================================
