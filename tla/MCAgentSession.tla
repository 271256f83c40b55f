--------------------------- MODULE MCAgentSession ---------------------------
(* AgentSession on small instances.  Callers are interchangeable in the    *)
(* safety runs.                                                            *)
EXTENDS AgentSession, TLC

CallerSymmetry == Permutations(Callers)
============================================================================
