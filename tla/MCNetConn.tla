------------------------------ MODULE MCNetConn ------------------------------
EXTENDS NetConn

Budget(n, s, c, p, t) ==
  [sessions |-> n, server |-> s, client |-> c, packet |-> p, toServer |-> 1, toClient |-> t]

\* All numbers; packets of two chunks; two sessions; both ends; and the two ways in
\* which a sender can be a whole window ahead.
OrderBudgets ==
  {Budget(1, 4, 0, 1, 2), Budget(1, 2, 0, 2, 2), Budget(2, 1, 0, 2, 2), Budget(1, 1, 1, 2, 2),
   Budget(1, 6, 0, 1, 1), Budget(1, 5, 0, 2, 1)}
LiveBudgets == {Budget(1, 2, 0, 1, 1)}

\* Nothing is promised about a spoilt session: there is no need to look further
\* when all are.
SomethingPromised == ~(1..budget.sessions \subseteq spoilt)
=============================================================================
