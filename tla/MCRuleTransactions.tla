------------------------- MODULE MCRuleTransactions -------------------------
EXTENDS RuleTransactions, TLC
CONSTANTS r1, r2, s1, s2, a1, a2
Interchangeable == Permutations({s1, s2}) \cup Permutations({a1, a2})
Everything == {Rules}
Versions == r1 :> 2 @@ r2 :> 1
=============================================================================
