----------------------------- MODULE MCGraphLive -----------------------------
(* GraphLive on the graphs of MCGraphRun.                                  *)
EXTENDS GraphLive, MCGraphRun
==============================================================================
