---------------------------- MODULE MCSimulator -----------------------------
EXTENDS Simulator, TLC

CONSTANTS a1, a2, c1

AgentSymmetry == Permutations({a1, a2})

\* A cluster of two agents, a scenario file with the second of them, and one
\* whose second entry is bad.
ThreeConfigs ==
  LET entry(complete) == [name |-> 2, at |-> <<3, 1>>, complete |-> complete]
  IN  {[mode |-> "local_cluster", count |-> 2],
       [mode |-> "fixed_points", entries |-> <<entry(TRUE)>>],
       [mode |-> "fixed_points", entries |-> <<entry(TRUE), entry(FALSE)>>]}
=============================================================================
