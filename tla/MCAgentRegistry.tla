-------------------------- MODULE MCAgentRegistry --------------------------
EXTENDS AgentRegistry, TLC

CONSTANTS a1, a2

AgentSymmetry == Permutations({a1, a2})
============================================================================
