---------------------------- MODULE PoolContract ----------------------------
(***************************************************************************)
(* What at::ThreadPool promises its callers, as the header documents it   *)
(* (threadpool.h 87-96, 133-141): a job handed to push is either refused   *)
(* or queued; queued jobs are taken in FIFO order, each by one worker,     *)
(* and run once; clear discards exactly the jobs still queued.  The        *)
(* detailed module ThreadPool implements this specification under a        *)
(* refinement mapping (ThreadPool!Contract).                               *)
(***************************************************************************)
EXTENDS Sequences

CONSTANT Jobs

VARIABLES pending, status

Status == {"new", "queued", "rejected", "running", "ended", "cleared"}

TypeOK ==
  /\ pending \in Seq(Jobs)
  /\ status \in [Jobs -> Status]

Init ==
  /\ pending = <<>>
  /\ status = [j \in Jobs |-> "new"]

\* push returned true: the job joins the back of the queue.
Submit(j) ==
  /\ status[j] = "new"
  /\ status' = [status EXCEPT ![j] = "queued"]
  /\ pending' = Append(pending, j)

\* push returned false.
Refuse(j) ==
  /\ status[j] = "new"
  /\ status' = [status EXCEPT ![j] = "rejected"]
  /\ UNCHANGED pending

\* A worker takes the front job.
Take ==
  /\ pending # <<>>
  /\ status' = [status EXCEPT ![Head(pending)] = "running"]
  /\ pending' = Tail(pending)

\* The job's run returned or threw.
End(j) ==
  /\ status[j] = "running"
  /\ status' = [status EXCEPT ![j] = "ended"]
  /\ UNCHANGED pending

\* clear(): every job still queued is discarded.
Discard ==
  /\ pending' = <<>>
  /\ status' = [j \in Jobs |-> IF status[j] = "queued" THEN "cleared" ELSE status[j]]

Next ==
  \/ \E j \in Jobs : Submit(j) \/ Refuse(j) \/ End(j)
  \/ Take
  \/ Discard

Spec == Init /\ [][Next]_<<pending, status>>

=============================================================================
