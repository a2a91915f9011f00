--------------------------- MODULE MCAgentControl ---------------------------
EXTENDS AgentControl, TLC
AgentSymmetry == Permutations(Agent)
=============================================================================
