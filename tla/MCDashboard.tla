----------------------------- MODULE MCDashboard -----------------------------
EXTENDS Dashboard, TLC

CONSTANTS a1, a2

AgentSymmetry == Permutations({a1, a2})
==============================================================================
