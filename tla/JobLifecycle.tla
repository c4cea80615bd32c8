---------------------------- MODULE JobLifecycle ----------------------------
(***************************************************************************)
(* What the framework promises about jobs, without queues, semaphores or   *)
(* threads: a released job waits, is served by at most one core at a time, *)
(* goes back to waiting when it is stopped or has a further stage, and     *)
(* finishes once.  A core serves at most one job.  Processor implements it.*)
(***************************************************************************)
CONSTANTS Core, Job, NoJob

VARIABLES
  waiting,    \* released jobs no core is serving
  serving,    \* serving[c]: the job core c is working on, or NoJob
  completed   \* jobs that have finished

vars == <<waiting, serving, completed>>

Served == {serving[c] : c \in Core} \ {NoJob}

Init == /\ waiting = {}
        /\ serving = [c \in Core |-> NoJob]
        /\ completed = {}

Release(j) ==
  /\ j \notin waiting \cup Served \cup completed
  /\ waiting' = waiting \cup {j}
  /\ UNCHANGED <<serving, completed>>

Start(c, j) ==
  /\ j \in waiting /\ serving[c] = NoJob
  /\ waiting' = waiting \ {j}
  /\ serving' = [serving EXCEPT ![c] = j]
  /\ UNCHANGED completed

(* The job is stopped, or has completed a stage that is not its last. *)
GiveBack(c) ==
  /\ serving[c] # NoJob
  /\ waiting' = waiting \cup {serving[c]}
  /\ serving' = [serving EXCEPT ![c] = NoJob]
  /\ UNCHANGED completed

Finish(c) ==
  /\ serving[c] # NoJob
  /\ completed' = completed \cup {serving[c]}
  /\ serving' = [serving EXCEPT ![c] = NoJob]
  /\ UNCHANGED waiting

Next == \/ \E j \in Job : Release(j)
        \/ \E c \in Core, j \in Job : Start(c, j)
        \/ \E c \in Core : GiveBack(c) \/ Finish(c)

Spec == Init /\ [][Next]_vars
=============================================================================
