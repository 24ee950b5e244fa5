-------------------------- MODULE MCCurrentState --------------------------
EXTENDS CurrentState, TLC

CONSTANTS a1, a2, r1, r2

AgentSymmetry == Permutations({a1, a2})
ReaderSymmetry == Permutations({r1, r2})
Symmetry == AgentSymmetry \cup ReaderSymmetry
===========================================================================
