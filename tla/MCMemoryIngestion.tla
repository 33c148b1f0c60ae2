-------------------------- MODULE MCMemoryIngestion --------------------------
(* One message and four entries: a message, its tool call, a retraction or a  *)
(* later version, and what follows it.                                        *)
EXTENDS MemoryIngestion
==============================================================================
