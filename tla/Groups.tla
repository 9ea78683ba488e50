-------------------------------- MODULE Groups --------------------------------
(***************************************************************************)
(* Player groups (src/src/game/server/core/components/groups/): GroupData in *)
(* memory, the weak pointer each logged in account keeps to its group, the   *)
(* invitations of CVoteOptional, the group menu, and the rows of tw_groups,  *)
(* which follow through statements the SQL pool executes later.              *)
(*                                                                         *)
(* The game thread runs one command at a time; what interleaves with it is   *)
(* the pool, players that come and go, menus and invitations that were made  *)
(* for a state of things that has passed, and the end of a login, which      *)
(* looks for the player's group on a worker of the pool when the player can  *)
(* already give commands. A GroupData object is told from a later one with   *)
(* the same ID by a number, obj. Two ghosts name what cannot be kept. clean  *)
(* becomes FALSE when the database is bound to differ: a statement is given  *)
(* up or overtaken by one of the same group, a group is replaced in memory,  *)
(* the process stops with statements left or loads no table when it starts,  *)
(* or Disband deletes another row. early has the accounts that founded or    *)
(* joined a group while the login had yet to find the one that lists them.   *)
(***************************************************************************)
EXTENDS Integers, Sequences, FiniteSetsExt, SequencesExt

CONSTANTS Accounts, Clients,
          Nobody,       \* a client that is not logged in
          MaxMembers,   \* MAX_GROUP_MEMBERS
          MaxID,        \* bound: group IDs
          MaxObjects,   \* bound: GroupData objects made by one process
          MaxQueue,     \* bound: statements in the pool
          MaxVotes      \* bound: invitations of a client

ASSUME GroupsAssumption ==
  /\ Nobody \notin Accounts
  /\ MaxMembers \in Nat \ {0} /\ MaxID \in Nat \ {0}
  /\ MaxObjects \in Nat /\ MaxQueue \in Nat /\ MaxVotes \in Nat

VARIABLES groups,   \* GroupData::m_pData
          made,     \* objects made so far
          on,       \* the account logged in on a client
          pointer,  \* its m_pGroupData, as the number of the object; 0 for none
          entering, \* the group OnPlayerLogin looks at next; 0 when it is done
          menu,     \* members the menu on the client's screen offers to act on
          votes,    \* CVoteOptional::Data() of a client
          rows,     \* table tw_groups
          queue,    \* statements in the pool
          aborted,  \* dbg_assert failed
          clean,
          early

memory == <<groups, made, on, pointer, entering, menu, votes, aborted>>
vars == <<memory, rows, queue, clean, early>>

GroupIDs == 1..MaxID
NoGroup == [obj |-> 0, leader |-> Nobody, members |-> {}]
NoRow == [leader |-> Nobody, members |-> {}]
Row(leader, members) == [leader |-> leader, members |-> members]
Group(obj, row) == [obj |-> obj, leader |-> row.leader, members |-> row.members]
Saved(g) == Row(groups[g].leader, groups[g].members)

Live(g) == groups[g].obj # 0
Has(c, g) == pointer[c] # 0 /\ groups[g].obj = pointer[c]
HasGroup(c) == \E g \in GroupIDs : Has(c, g)
Leads(c, g) == Has(c, g) /\ groups[g].leader = on[c]
LookedAt(c, g) == entering[c] = 0 \/ g < entering[c]
IsFull(g) == Cardinality(groups[g].members) >= MaxMembers

HighestID == Max({0} \cup {g \in GroupIDs : rows[g] # NoRow})

Insert(g, r) == [op |-> "insert", id |-> g, row |-> r]
Update(g, r) == [op |-> "update", id |-> g, row |-> r]
Delete(g) == [op |-> "delete", id |-> g, row |-> NoRow]
Submit(statements) == /\ queue' = queue \o statements
                      /\ Len(queue') <= MaxQueue

Init == /\ groups = [g \in GroupIDs |-> NoGroup] /\ made = 0
        /\ on = [c \in Clients |-> Nobody] /\ pointer = [c \in Clients |-> 0]
        /\ entering = [c \in Clients |-> 0] /\ early = {}
        /\ menu = [c \in Clients |-> {}] /\ votes = [c \in Clients |-> <<>>]
        /\ rows = [g \in GroupIDs |-> NoRow] /\ queue = <<>>
        /\ aborted = FALSE /\ clean = TRUE

-----------------------------------------------------------------------------
\* CAccountData::Init sets the account's ID: from here on the player is authed.
\* The listeners of the login are called later, by the same worker of the pool.
Login(c, a) ==
  /\ on[c] = Nobody /\ \A d \in Clients : on[d] # a
  /\ on' = [on EXCEPT ![c] = a]
  /\ pointer' = [pointer EXCEPT ![c] = 0]
  /\ entering' = [entering EXCEPT ![c] = 1]
  /\ menu' = [menu EXCEPT ![c] = {}]
  /\ UNCHANGED <<groups, made, votes, aborted, rows, queue, clean, early>>

\* One turn of OnPlayerLogin's loop: of several groups that list the account the
\* last one stays.
OnPlayerLogin(c) ==
  /\ entering[c] # 0
  /\ LET g == entering[c] IN
       /\ pointer' = IF Live(g) /\ on[c] \in groups[g].members
                      THEN [pointer EXCEPT ![c] = groups[g].obj] ELSE pointer
       /\ entering' = [entering EXCEPT ![c] = IF g < MaxID THEN g + 1 ELSE 0]
  /\ UNCHANGED <<groups, made, on, menu, votes, aborted, rows, queue, clean, early>>

\* The player of client c gets a group, though one that the login has not come to
\* lists the account.
JoinsEarly(c) ==
  early' = early \cup {a \in {on[c]} : entering[c] # 0 /\ \E g \in GroupIDs : a \in groups[g].members}

\* OnClientReset erases the account data, but not the client's invitations.
Logout(c) ==
  /\ on[c] # Nobody
  /\ on' = [on EXCEPT ![c] = Nobody]
  /\ pointer' = [pointer EXCEPT ![c] = 0]
  /\ entering' = [entering EXCEPT ![c] = 0]
  /\ menu' = [menu EXCEPT ![c] = {}]
  /\ UNCHANGED <<groups, made, votes, aborted, rows, queue, clean, early>>

\* ShowGroupMenu offers the owner the other members; ClearVotes removes that.
\* UpdateVotesIfForAll asks the players of one world to rebuild theirs, and they
\* do so later: a menu may be of any age.
ShowGroupMenu(c) ==
  /\ on[c] # Nobody
  /\ \E offers \in {{x \in Accounts : \E g \in GroupIDs : Leads(c, g) /\ x \in groups[g].members \ {on[c]}}, {}} :
       menu' = [menu EXCEPT ![c] = offers]
  /\ UNCHANGED <<groups, made, on, pointer, entering, votes, aborted, rows, queue, clean, early>>

-----------------------------------------------------------------------------
\* CreateGroup takes the ID after the highest in the table, or 1 when the SELECT
\* finds no row, as it does when it fails. CreateElement replaces what has that ID.
CreateGroup(c) ==
  /\ on[c] # Nobody /\ ~HasGroup(c)
  /\ made < MaxObjects
  /\ \E id \in {HighestID + 1, 1} \cap GroupIDs :
       /\ groups' = [groups EXCEPT ![id] = Group(made + 1, Row(on[c], {on[c]}))]
       /\ Submit(<<Insert(id, Row(on[c], {on[c]}))>>)
       /\ clean' = (clean /\ ~Live(id))
  /\ pointer' = [pointer EXCEPT ![c] = made + 1]
  /\ made' = made + 1
  /\ JoinsEarly(c)
  /\ UNCHANGED <<on, entering, menu, votes, aborted, rows>>

\* GROUP_INVITE of the player who is now on client d. The callback keeps the ID:
\* the group that has it when the invitation is accepted is joined.
Invite(c, d) ==
  /\ on[d] # Nobody /\ ~HasGroup(d)
  /\ Len(votes[d]) < MaxVotes
  /\ \E g \in GroupIDs :
       /\ Leads(c, g) /\ ~IsFull(g)
       /\ votes' = [votes EXCEPT ![d] = Append(@, g)]
  /\ UNCHANGED <<groups, made, on, pointer, entering, menu, aborted, rows, queue, clean, early>>

\* Variant: only the invitation checks whether there is room.
AdmitsBeyondLimit(g, d) == ~HasGroup(d) /\ on[d] \notin groups[g].members

\* Variant: also a player who has a group.
AdmitsToSecond(g, d) == ~IsFull(g) /\ on[d] \notin groups[g].members

Admits(g, d) == ~HasGroup(d) /\ ~IsFull(g) /\ on[d] \notin groups[g].members

\* GroupData::Add of the account on client d.
Add(g, d) ==
  /\ Admits(g, d)
  /\ groups' = [groups EXCEPT ![g] = Group(@.obj, Row(@.leader, @.members \cup {on[d]}))]
  /\ pointer' = [pointer EXCEPT ![d] = groups[g].obj]
  /\ Submit(<<Update(g, Row(groups[g].leader, groups[g].members \cup {on[d]}))>>)

\* ExecuteVote(true) of the first invitation, by whoever is on the client now.
\* The invitation stays for half a second more and can be accepted again.
AcceptVote(d) ==
  /\ on[d] # Nobody /\ votes[d] # <<>>
  /\ LET g == Head(votes[d]) IN Live(g) /\ Add(g, d)
  /\ JoinsEarly(d)
  /\ UNCHANGED <<made, on, entering, menu, votes, aborted, rows, clean>>

\* HandleVoteOptionals of a player who is logged in: the first invitation is over.
CloseVote(d) ==
  /\ on[d] # Nobody /\ votes[d] # <<>>
  /\ votes' = [votes EXCEPT ![d] = Tail(@)]
  /\ UNCHANGED <<groups, made, on, pointer, entering, menu, aborted, rows, queue, clean, early>>

\* Variant: the row is left in the table.
DisbandInMemory(g) ==
  groups' = [groups EXCEPT ![g] = NoGroup] /\ UNCHANGED <<queue, clean>>

\* Disband erases the group from the map and reads m_ID afterwards, from an
\* object that is gone: the DELETE has that ID, or one no row has (0).
Disband(g) ==
  /\ groups' = [groups EXCEPT ![g] = NoGroup]
  /\ \E id \in {g, 0} : Submit(<<Delete(id)>>) /\ clean' = (clean /\ id = g)

\* Variant: the account that is removed keeps its pointer.
UnlinkNobody(a) == pointer' = pointer

\* SetGroup(nullptr) for the account that is removed, if it is online.
Unlink(a) == pointer' = [c \in Clients |-> IF on[c] = a THEN 0 ELSE pointer[c]]

\* Variant: a leader who leaves stays the leader.
LeaderStays(g, rest) == {groups[g].leader}

\* A leader who leaves is followed by the first of an unordered set.
NextLeader(g, rest) == IF groups[g].leader \in rest THEN {groups[g].leader} ELSE rest

\* GroupData::Remove. When the leader leaves, ChangeOwner saves the group, and
\* Remove saves it again.
RemoveMember(g, a) ==
  LET rest == groups[g].members \ {a}
      save(l) == Update(g, Row(l, rest))
  IN /\ a \in groups[g].members /\ \A c \in Clients : on[c] = a => Has(c, g)
     /\ Unlink(a)
     /\ \/ rest = {} /\ Disband(g)
        \/ /\ rest # {} /\ clean' = clean
           /\ \E l \in NextLeader(g, rest) :
                /\ groups' = [groups EXCEPT ![g] = Group(@.obj, Row(l, rest))]
                /\ Submit(IF a = groups[g].leader THEN <<save(l), save(l)>> ELSE <<save(l)>>)

\* GROUP_LEAVE and /group leave.
Leave(c) ==
  /\ on[c] # Nobody /\ \E g \in GroupIDs : Has(c, g) /\ RemoveMember(g, on[c])
  /\ UNCHANGED <<made, on, entering, menu, votes, aborted, rows, early>>

\* GROUP_KICK
Kick(c, a) ==
  /\ a \in menu[c] /\ \E g \in GroupIDs : Leads(c, g) /\ RemoveMember(g, a)
  /\ UNCHANGED <<made, on, entering, menu, votes, aborted, rows, early>>

\* GROUP_DISBAND
DisbandGroup(c) ==
  /\ on[c] # Nobody /\ \E g \in GroupIDs : Leads(c, g) /\ Disband(g)
  /\ UNCHANGED <<made, on, pointer, entering, menu, votes, aborted, rows, early>>

\* GROUP_CHANGE_OWNER: ChangeOwner asserts that the account is a member.
ChangeOwner(c, a) ==
  /\ a \in menu[c]
  /\ \E g \in GroupIDs :
       /\ Leads(c, g)
       /\ \/ /\ a \in groups[g].members
             /\ groups' = [groups EXCEPT ![g] = Group(@.obj, Row(a, @.members))]
             /\ Submit(<<Update(g, Row(a, groups[g].members))>>)
             /\ aborted' = aborted
          \/ /\ a \notin groups[g].members
             /\ aborted' = TRUE
             /\ UNCHANGED <<groups, queue>>
  /\ UNCHANGED <<made, on, pointer, entering, menu, votes, rows, clean, early>>

-----------------------------------------------------------------------------
\* A second INSERT of an ID is refused (primary key), an UPDATE needs the row.
Effect(s) ==
  IF \/ s.op = "insert" /\ rows[s.id] # NoRow
     \/ s.op = "update" /\ rows[s.id] = NoRow
  THEN rows
  ELSE [g \in GroupIDs |-> IF g = s.id THEN s.row ELSE rows[g]]

\* A worker of the pool executes a statement, not always the oldest one.
Execute(i) ==
  /\ rows' = Effect(queue[i])
  /\ queue' = RemoveAt(queue, i)
  /\ clean' = (clean /\ \A j \in 1 .. i - 1 : queue[j].id # queue[i].id)
  /\ UNCHANGED <<memory, early>>

\* The pool gives a statement up.
GiveUp(i) ==
  /\ queue' = RemoveAt(queue, i)
  /\ clean' = FALSE
  /\ UNCHANGED <<memory, rows, early>>

\* The server stops, and OnPreInit loads the table, or nothing when its SELECT
\* fails.
Restart ==
  /\ \E loaded \in BOOLEAN :
       /\ groups' = [g \in GroupIDs |-> IF loaded /\ rows[g] # NoRow THEN Group(g, rows[g]) ELSE NoGroup]
       /\ clean' = (clean /\ queue = <<>> /\ loaded)
  /\ made' = HighestID
  /\ on' = [c \in Clients |-> Nobody] /\ pointer' = [c \in Clients |-> 0]
  /\ entering' = [c \in Clients |-> 0]
  /\ menu' = [c \in Clients |-> {}] /\ votes' = [c \in Clients |-> <<>>]
  /\ queue' = <<>>
  /\ UNCHANGED <<rows, aborted, early>>

Command(c) ==
  \/ CreateGroup(c) \/ AcceptVote(c) \/ Leave(c) \/ DisbandGroup(c)
  \/ \E d \in Clients : Invite(c, d)
  \/ \E a \in Accounts : Kick(c, a) \/ ChangeOwner(c, a)

Next ==
  /\ ~aborted
  /\ \/ \E c \in Clients : \/ OnPlayerLogin(c) \/ Logout(c) \/ ShowGroupMenu(c) \/ CloseVote(c) \/ Command(c)
                           \/ \E a \in Accounts : Login(c, a)
     \/ \E i \in 1..Len(queue) : Execute(i) \/ GiveUp(i)
     \/ Restart

Spec == Init /\ [][Next]_vars

-----------------------------------------------------------------------------
Rows == [leader : Accounts \cup {Nobody}, members : SUBSET Accounts]

\* The variables have their types; an account is logged in once, and a client
\* nobody is logged in on has neither a group nor a menu, and no login under way.
TypeOK ==
  /\ groups \in [GroupIDs -> [obj : Nat, leader : Accounts \cup {Nobody}, members : SUBSET Accounts]]
  /\ made \in Nat
  /\ on \in [Clients -> Accounts \cup {Nobody}]
  /\ pointer \in [Clients -> Nat]
  /\ entering \in [Clients -> 0..MaxID]
  /\ menu \in [Clients -> SUBSET Accounts]
  /\ votes \in [Clients -> Seq(GroupIDs)]
  /\ rows \in [GroupIDs -> Rows]
  /\ queue \in Seq([op : {"insert", "update", "delete"}, id : 0..MaxID, row : Rows])
  /\ aborted \in BOOLEAN /\ clean \in BOOLEAN /\ early \in SUBSET Accounts
  /\ \A c, d \in Clients : c # d /\ on[c] = on[d] => on[c] = Nobody
  /\ \A c \in Clients : on[c] = Nobody => pointer[c] = 0 /\ entering[c] = 0 /\ menu[c] = {}

\* Every group has a leader who is a member, in memory and in the table, also
\* when the leader leaves, is replaced, and after any crash.
LeaderIsMember ==
  /\ \A g \in GroupIDs : Live(g) => groups[g].leader \in groups[g].members
  /\ \A g \in GroupIDs : rows[g] # NoRow => rows[g].leader \in rows[g].members

\* However many invitations are out, a group does not grow past MAX_GROUP_MEMBERS.
WithinLimit == \A g \in GroupIDs : Cardinality(groups[g].members) <= MaxMembers

\* The variables have their types, and a player who is shown in a group is one
\* of its members, whoever was taken out, logged out or replaced.
PointerIsMembership ==
  /\ TypeOK
  /\ \A c \in Clients, g \in GroupIDs : Has(c, g) => on[c] \in groups[g].members

\* Unless the database was bound to differ, nobody is in two groups, and who is
\* listed in a group and online belongs to it as soon as the login has looked at
\* that group. Excepted is who founded or joined another group before it did:
\* OnPlayerLogin runs on a worker after the player is authed, and until then
\* HasGroup says he has none.
OneGroupEach ==
  clean => /\ \A g, h \in GroupIDs : g # h => groups[g].members \cap groups[h].members \subseteq early
           /\ \A c \in Clients, g \in GroupIDs :
                on[c] \in groups[g].members \ early /\ LookedAt(c, g) => Has(c, g)

\* Unless it was bound to differ, the table is what is in memory once the pool
\* has executed everything.
TableFollows ==
  clean /\ queue = <<>> => \A g \in GroupIDs : rows[g] = Saved(g)
=============================================================================
