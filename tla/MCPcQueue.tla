----------------------------- MODULE MCPcQueue -----------------------------
(* PcQueue for TLC: a ring of three entries that the items lap twice.      *)
EXTENDS PcQueue
============================================================================
