---------------------------- MODULE MCExecutorRun ----------------------------
(* ExecutorRun on the graphs of MCGraphRun.                                *)
EXTENDS ExecutorRun, MCGraphRun
==============================================================================
