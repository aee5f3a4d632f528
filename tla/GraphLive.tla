------------------------------ MODULE GraphLive ------------------------------
(***************************************************************************)
(* The graph run composed with the client's edge operations.  Task::depend,*)
(* precede, erase_depend and erase_precede (task.cpp) take neither the     *)
(* tasks mutex nor the executing() check that push and erase make          *)
(* (threadgraph.cpp 39, 57), so the client thread may call them between    *)
(* start() and wait() while the workers trace the same edge lists.  An     *)
(* edit is one step here, between two worker steps; the data race it also *)
(* is (a push_back while a worker iterates the vector) is not modelled.    *)
(***************************************************************************)
EXTENDS GraphRun

Build == INSTANCE GraphBuild WITH fresh <- {}

(* An edge operation of the client thread, running or not.                 *)
Edit ==
    /\ mainpc = "idle"
    /\ \E t, o \in Nodes :
          \/ Build!Depend(t, o) \/ Build!Precede(t, o)
          \/ Build!EraseDepend(t, o) \/ Build!ErasePrecede(t, o)
    /\ UNCHANGED <<nstate, cache, executing, termination, lock, workerVars,
                   mainpc, starts, runs, outcome>>

LiveNext == Next \/ Edit

LiveSpec == Init /\ [][LiveNext]_vars
==============================================================================
