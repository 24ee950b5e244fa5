------------------------- MODULE MCTelemetryBatcher -------------------------
EXTENDS BatcherRefinement, TLC

CONSTANTS a1, a2

MCAgents == {a1, a2}
AgentSymmetry == Permutations(MCAgents)
=============================================================================
