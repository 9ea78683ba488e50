------------------------------- MODULE MCTrade -------------------------------
EXTENDS Trade, TLC
CONSTANTS a1, a2
TwoAccounts == {a1, a2}
Owners == {[hand |-> 1, bank |-> 1, bag |-> 1], [hand |-> 2, bank |-> 1, bag |-> 0]}
Plan(p, c, f) == [parts |-> p, calls |-> c, faults |-> f]
Several == {Plan({"auction", "mail"}, 4, 0), Plan({"auction", "mail", "letters"}, 3, 0),
            Plan({"house", "bank", "mail"}, 3, 0), Plan({"auction", "bank"}, 2, 1),
            Plan({"mail", "letters"}, 2, 1), Plan({"house"}, 3, 1)}
Symmetry == Permutations(TwoAccounts)

\* Nothing is promised any more.
StillClean == clean
=============================================================================
