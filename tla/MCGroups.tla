------------------------------- MODULE MCGroups -------------------------------
(* Groups of two, for three players; accounts and clients are interchangeable. *)
EXTENDS Groups, TLC
CONSTANTS a1, a2, a3, c1, c2, c3
ThreeAccounts == {a1, a2, a3}
ThreeClients == {c1, c2, c3}
Symmetry == Permutations(ThreeAccounts) \cup Permutations(ThreeClients)

\* Two players and two groups, or three players and one group.
Involved ==
  {a \in Accounts : \/ \E c \in Clients : on[c] = a
                    \/ \E g \in GroupIDs : a \in groups[g].members \cup rows[g].members
                    \/ \E i \in 1..Len(queue) : a \in queue[i].row.members}
Entering == {c \in Clients : entering[c] # 0}
TwoAndTwo == Cardinality({c \in Clients : on[c] # Nobody \/ votes[c] # <<>>}) <= 2
             /\ Cardinality(Involved) <= 2
OneGroup == early = {} /\ (Entering = {} \/ queue = <<>>) /\ made <= 1 /\ Len(queue) <= 1 /\ \A g \in GroupIDs : g > 1 => rows[g] = NoRow
\* One login at a time looks for a group, with one statement waiting or none, and
\* one waits when the database already differs.
Limits == /\ Cardinality(Entering) <= 1
          /\ Len(queue) = 2 => clean /\ Entering = {}
          /\ early # {} => clean
          /\ clean \/ Entering = {} \/ queue = <<>>
Small == (TwoAndTwo \/ OneGroup) /\ Limits
=============================================================================
