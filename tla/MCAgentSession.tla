--------------------------- MODULE MCAgentSession ---------------------------
EXTENDS AgentSession

CONSTANTS m1, m2, b1

============================================================================
