--------------------------- MODULE MCAgentMemoryFts ---------------------------
(* Two memories, recallable or hidden, and enough generations for a bulk      *)
(* write and a failed read after it.                                          *)
EXTENDS AgentMemoryFts
=============================================================================
