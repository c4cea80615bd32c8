-------------------------- MODULE ProcessorSafety --------------------------
(***************************************************************************)
(* What the semaphores of Processor and Worker protect, for every instance: a*)
(* job that was taken away from a core is not executed there any more, the *)
(* current job of a locked core stays, the two units of each queue are never*)
(* lost or multiplied, a token stands for a job in its queue, and nothing  *)
(* but stopCurrentJob can end in a deadlock.                               *)
(***************************************************************************)
EXTENDS ProcessorProofs, FiniteSetTheorems

-----------------------------------------------------------------------------
(* StopReturnsIdleCore is not inductive: that the core is idle is known     *)
(* from stop_sem when stopCurrentJob returns, and it stays idle because its *)
(* worker has left its loop for good.  The thermal approach carries no job  *)
(* outside the insertions, so the one it carries there is the one it stopped*)

HandFree == {"loop", "call", "returned", "exit", "stop_lock", "stop_post", "stop_wait",
             "ins_unlock", "lock_queue", "lock_job"}

StopInv ==
  /\ pc[Thermal] \in HandFree => hand[Thermal] = NoJob
  /\ pc[Thermal] \in {"ins_lock", "preempt_insert"} /\ hand[Thermal] # NoJob
       => pc[at[Thermal]] = "exit"
  /\ pc[Main] = "join_wait" /\ victim[Main] # NoJob => pc[at[Main]] = "exit"

LEMMA ExitStays ==
  ASSUME TypeOK, NEW t \in Thread, StepOf(t), NEW c \in Core, pc[c] = "exit"
  PROVE  pc'[c] = "exit"
<1>1. CASE t # c
  BY <1>1, OthersStay, Threads DEF Stays
<1>2. CASE t = c
  <2>1. Worker(c) \/ LoadTimeout(c)
    BY <1>2, Threads DEF StepOf
  <2> QED BY <2>1 DEF Worker, LoadTimeout, WorkerLoop, LoadLock, LoadNumber, LoadPop, Loaded,
             SetJob, FireStopped, FireWork, FireComplete, ClearJob, InsertJobToQueue, InsertLock,
             InsertPush, InsertUnlock
<1> QED BY <1>1, <1>2

(* Other threads leave the locals of a stopper alone. *)
LEMMA StopLocalsStay ==
  ASSUME TypeOK, NEW t \in Thread, StepOf(t), NEW s \in Stopper, t # s
  PROVE  at'[s] = at[s] /\ victim'[s] = victim[s]
<1> USE DEF stopVars, TypeOK
<1>0. ASSUME NEW u \in Thread, InsertJobToQueue(u) PROVE UNCHANGED stopVars
  BY <1>0 DEF InsertJobToQueue, InsertLock, InsertPush, InsertUnlock
<1>1. CASE t \in Dispatcher /\ DispatcherStep(t)
  BY <1>0, <1>1 DEF DispatcherStep, Release, DispatcherExit
<1>2. CASE t \in Core /\ (Worker(t) \/ LoadTimeout(t))
  <2>1. CASE WorkerLoop(t) \/ LoadLock(t) \/ LoadNumber(t) \/ LoadPop(t) \/ LoadTimeout(t)
             \/ Loaded(t) \/ SetJob(t) \/ ClearJob(t) \/ FireStopped(t) \/ FireWork(t)
    BY <2>1 DEF WorkerLoop, LoadLock, LoadNumber, LoadPop, LoadTimeout, Loaded, SetJob, ClearJob,
                FireStopped, FireWork
  <2>2. CASE FireComplete(t)
    BY <2>2 DEF FireComplete
  <2> QED BY <1>0, <1>2, <2>1, <2>2 DEF Worker
<1>3. CASE t = Thermal /\ ThermalApproach
  <2>0. s # Thermal /\ Thermal \in Thread
    BY <1>3, Threads
  <2>1. CASE StopCurrentJob(Thermal)
    BY <2>0, <2>1 DEF StopCurrentJob, StopLock, StopPost, StopWait
  <2>2. CASE InsertJobToQueue(Thermal)
    BY <1>0, <2>0, <2>2
  <2>3. ASSUME NEW a, NEW b, NEW p, NEW q, TakeOut(a, p, b, q) PROVE UNCHANGED stopVars
    BY <2>3 DEF TakeOut
  <2>4. ASSUME NEW b, NEW p, NEW n, AdvanceJobInQueue(b, p, n) PROVE UNCHANGED stopVars
    BY <2>3, <2>4 DEF AdvanceJobInQueue
  <2>5. ASSUME NEW a, NEW b, NEW p, NEW q, MoveJobToAnotherQueue(a, p, b, q)
        PROVE  UNCHANGED stopVars
    BY <2>3, <2>5 DEF MoveJobToAnotherQueue
  <2>6. ASSUME NEW a, NEW b, TaskMigrate(a, b) \/ Preempt(b)
        PROVE  at'[s] = at[s] /\ victim'[s] = victim[s]
    BY <2>0, <2>6 DEF TaskMigrate, Preempt
  <2>7. CASE ThermalLoop \/ CallReturns \/ ThermalReturn \/ PreemptInsert \/ Reinsert
    BY <2>0, <2>7 DEF ThermalLoop, CallReturns, ThermalReturn, PreemptInsert, Reinsert
  <2>8. CASE LockAllJobs \/ LockTaskQueue \/ LockCurrentJob \/ UnlockAllJobs
    BY <2>0, <2>8 DEF LockAllJobs, LockTaskQueue, LockCurrentJob, UnlockAllJobs, NextCore
  <2> QED BY <1>3, <2>1, <2>2, <2>4, <2>5, <2>6, <2>7, <2>8 DEF ThermalApproach
<1>4. CASE t = Main /\ (EndRun \/ Join)
  <2>0. s # Main
    BY <1>4
  <2>1. CASE StopCurrentJob(Main)
    BY <2>0, <2>1 DEF StopCurrentJob, StopLock, StopPost, StopWait
  <2>2. CASE EndRun \/ JoinThreads \/ JoinWorker \/ JoinWait
    BY <2>0, <2>2 DEF EndRun, JoinThreads, JoinWorker, JoinWait
  <2> QED BY <1>4, <2>1, <2>2 DEF Join
<1> QED BY <1>1, <1>2, <1>3, <1>4 DEF StepOf

LEMMA StopInvThermal ==
  ASSUME TypeOK, WorkerInv, StopInv, ThermalApproach
  PROVE  StopInv'
<1>0. /\ Thermal \in Thread /\ Thermal \in Stopper /\ Main \in Thread /\ Main \in Stopper
      /\ Thermal # Main /\ Thermal \notin Core /\ at[Thermal] \in Core /\ at[Main] \in Core
      /\ StepOf(Thermal)
  BY Threads DEF TypeOK, StepOf
<1>1. /\ pc'[Main] = pc[Main] /\ at'[Main] = at[Main] /\ victim'[Main] = victim[Main]
      /\ \A c \in Core : pc'[c] = pc[c]
  BY <1>0, OthersStay, StopLocalsStay, Threads DEF Stays
<1> SUFFICES /\ pc'[Thermal] \in HandFree => hand'[Thermal] = NoJob
             /\ pc'[Thermal] \in {"ins_lock", "preempt_insert"} /\ hand'[Thermal] # NoJob
                  => pc'[at'[Thermal]] = "exit"
  BY <1>0, <1>1 DEF StopInv
<1> USE DEF StopInv, HandFree, TypeOK, Goto, carryVars, stopVars
<1>2. CASE ThermalLoop
  BY <1>0, <1>2 DEF ThermalLoop
<1>3. CASE CallReturns \/ ThermalReturn \/ LockAllJobs \/ UnlockAllJobs
  BY <1>0, <1>3 DEF CallReturns, ThermalReturn, LockAllJobs, UnlockAllJobs
<1>4. ASSUME NEW a \in Core, NEW b \in Core, TaskMigrate(a, b) \/ Preempt(b) PROVE StopInv'
  BY <1>0, <1>1, <1>4 DEF TaskMigrate, Preempt
<1>5. CASE PreemptInsert \/ Reinsert
  BY <1>0, <1>5 DEF PreemptInsert, Reinsert
<1>6. ASSUME NEW a, NEW b, NEW p, NEW q, TakeOut(a, p, b, q) PROVE pc'[Thermal] = "reinsert"
  BY <1>0, <1>6 DEF TakeOut
<1>7. ASSUME NEW b, NEW p, NEW n, AdvanceJobInQueue(b, p, n) PROVE pc'[Thermal] = "reinsert"
  BY <1>6, <1>7 DEF AdvanceJobInQueue
<1>8. ASSUME NEW a, NEW b, NEW p, NEW q, MoveJobToAnotherQueue(a, p, b, q)
      PROVE  pc'[Thermal] = "reinsert"
  BY <1>6, <1>8 DEF MoveJobToAnotherQueue
<1>9. CASE LockTaskQueue \/ LockCurrentJob
  BY <1>0, <1>9 DEF LockTaskQueue, LockCurrentJob
<1>10. CASE StopLock(Thermal)
  <2>1. /\ hand'[Thermal] = NoJob
        /\ pc'[Thermal] \in {"returned", "preempt_insert", "ins_lock", "stop_post"}
    BY <1>0, <1>10 DEF StopLock, AfterStop
  <2> QED BY <2>1
<1>11. CASE StopPost(Thermal)
  BY <1>0, <1>11 DEF StopPost
<1>12. CASE StopWait(Thermal)
  <2>1. pc[at[Thermal]] = "exit" /\ at'[Thermal] = at[Thermal]
    BY <1>0, <1>12 DEF StopWait, WorkerInv
  <2>2. hand' = [hand EXCEPT ![Thermal] = victim[Thermal]]
    BY <1>0, <1>12 DEF StopWait
  <2>3. pc' = [pc EXCEPT ![Thermal] = AfterStop(Thermal, victim[Thermal])]
    BY <1>12 DEF StopWait
  <2>4. pc'[Thermal] \in HandFree => victim[Thermal] = NoJob
    BY <1>0, <2>3 DEF AfterStop
  <2> QED BY <1>0, <1>1, <2>1, <2>2, <2>4
<1>13. CASE InsertJobToQueue(Thermal)
  <2>1. CASE InsertLock(Thermal)
    BY <1>0, <2>1 DEF InsertLock
  <2>2. CASE InsertPush(Thermal)
    BY <1>0, <2>2 DEF InsertPush
  <2>3. CASE InsertUnlock(Thermal)
    BY <1>0, <2>3, Threads DEF InsertUnlock, AfterInsert
  <2> QED BY <1>13, <2>1, <2>2, <2>3 DEF InsertJobToQueue
<1> HIDE DEF TypeOK, StopInv
<1>14. CASE StopCurrentJob(Thermal)
  BY <1>10, <1>11, <1>12, <1>14 DEF StopCurrentJob
<1> QED BY <1>2, <1>3, <1>4, <1>5, <1>7, <1>8, <1>9, <1>13, <1>14 DEF ThermalApproach, StopInv

LEMMA StopInvMain ==
  ASSUME TypeOK, WorkerInv, StopInv, EndRun \/ Join
  PROVE  StopInv'
<1>0. /\ Thermal \in Thread /\ Thermal \in Stopper /\ Main \in Thread /\ Main \in Stopper
      /\ Thermal # Main /\ at[Thermal] \in Core /\ at[Main] \in Core /\ StepOf(Main)
  BY Threads DEF TypeOK, StepOf
<1>1. /\ pc'[Thermal] = pc[Thermal] /\ hand'[Thermal] = hand[Thermal]
      /\ at'[Thermal] = at[Thermal] /\ \A c \in Core : pc'[c] = pc[c]
  BY <1>0, OthersStay, StopLocalsStay, Threads DEF Stays
<1> SUFFICES pc'[Main] = "join_wait" /\ victim'[Main] # NoJob => pc'[at'[Main]] = "exit"
  BY <1>0, <1>1 DEF StopInv
<1> USE DEF StopInv, TypeOK, Goto, stopVars
<1>2. CASE EndRun \/ JoinThreads \/ JoinWorker
  BY <1>0, <1>2 DEF EndRun, JoinThreads, JoinWorker
<1>3. CASE JoinWait
  <2>1. pc'[Main] \in {"joined", "join_worker"}
    BY <1>0, <1>3 DEF JoinWait
  <2> QED BY <2>1
<1>4. CASE StopLock(Main)
  BY <1>0, <1>4 DEF StopLock
<1>5. CASE StopPost(Main)
  BY <1>0, <1>5 DEF StopPost
<1>6. CASE StopWait(Main)
  BY <1>0, <1>1, <1>6 DEF StopWait, WorkerInv
<1> QED BY <1>2, <1>3, <1>4, <1>5, <1>6 DEF Join, StopCurrentJob

LEMMA StopInvStep ==
  ASSUME TypeOK, WorkerInv, StopInv, NEW t \in Thread, StepOf(t)
  PROVE  StopInv'
<1>1. CASE t = Thermal
  BY <1>1, StopInvThermal, Threads DEF StepOf
<1>2. CASE t = Main
  BY <1>2, StopInvMain, Threads DEF StepOf
<1>3. CASE t \notin Stopper
  <2>1. \A s \in Stopper : /\ pc'[s] = pc[s] /\ hand'[s] = hand[s] /\ at'[s] = at[s]
                           /\ victim'[s] = victim[s]
    BY <1>3, OthersStay, StopLocalsStay, Threads DEF Stays
  <2>2. \A c \in Core : pc[c] = "exit" => pc'[c] = "exit"
    BY ExitStays
  <2>3. Thermal \in Stopper /\ Main \in Stopper /\ at[Thermal] \in Core /\ at[Main] \in Core
    BY Threads DEF TypeOK
  <2> QED BY <2>1, <2>2, <2>3 DEF StopInv
<1> QED BY <1>1, <1>2, <1>3 DEF Stopper

LEMMA StopInvariant == Spec => [](TypeOK /\ WorkerInv /\ StopInv)
<1>1. Init => StopInv
  BY Threads DEF Init, StopInv, HandFree
<1>2. TypeOK /\ WorkerInv /\ StopInv /\ [Next]_vars => StopInv'
  <2> SUFFICES ASSUME TypeOK, WorkerInv, StopInv, [Next]_vars PROVE StopInv'
    OBVIOUS
  <2>1. CASE UNCHANGED vars
    BY <2>1 DEF vars, StopInv, carryVars, stopVars
  <2>2. ASSUME NEW t \in Thread, StepOf(t) PROVE StopInv'
    BY <2>2, StopInvStep
  <2> QED BY <2>1, <2>2, EveryStep
<1> QED BY <1>1, <1>2, TypeInvariant, PTL DEF Spec

(* Whoever stopCurrentJob hands a job to, the worker it was taken from is   *)
(* not executing it: the worker has left its loop before stopCurrentJob     *)
(* returns, and never starts again.                                         *)
THEOREM StoppedCoreIsIdle == Spec => []StopReturnsIdleCore
<1>1. TypeOK /\ StopInv => StopReturnsIdleCore
  BY DEF StopInv, StopReturnsIdleCore
<1> QED BY <1>1, StopInvariant, PTL

-----------------------------------------------------------------------------
(* job_sem is a lock as long as the thermal approach lives: its only unit   *)
(* is free or held by that thread.  Worker::join adds a unit per core, but  *)
(* only after the thermal approach has ended.                               *)

ThermalLives == pc[Main] \in {"sleep", "join_threads"}
Unlocked     == {"loop", "exit", "stop_post", "stop_wait", "lock_queue", "lock_job", "ins_lock"}

JobLock ==
  /\ ThermalLives => \A c \in Core : job_sem[c] = IF HoldsJob(c) THEN 0 ELSE 1
  /\ ~ThermalLives => pc[Thermal] = "exit"
  /\ pc[Thermal] \in Unlocked => ~locked

(* Other threads than the stoppers leave job_sem and the lock alone. *)
LEMMA WorkersKeepLocks ==
  ASSUME TypeOK, NEW t \in Thread, StepOf(t), t \notin Stopper
  PROVE  UNCHANGED <<job_sem, locked>>
<1> USE DEF workerVars, userVars
<1>0. ASSUME NEW u \in Thread, InsertJobToQueue(u) PROVE UNCHANGED <<job_sem, locked>>
  BY <1>0 DEF InsertJobToQueue, InsertLock, InsertPush, InsertUnlock
<1>1. CASE t \in Dispatcher /\ DispatcherStep(t)
  BY <1>0, <1>1 DEF DispatcherStep, Release, DispatcherExit
<1>2. CASE t \in Core /\ (Worker(t) \/ LoadTimeout(t))
  <2>1. CASE WorkerLoop(t) \/ LoadLock(t) \/ LoadNumber(t) \/ LoadPop(t) \/ LoadTimeout(t)
             \/ Loaded(t) \/ SetJob(t) \/ ClearJob(t) \/ FireStopped(t) \/ FireWork(t)
    BY <2>1 DEF WorkerLoop, LoadLock, LoadNumber, LoadPop, LoadTimeout, Loaded, SetJob, ClearJob,
                FireStopped, FireWork
  <2>2. CASE FireComplete(t)
    BY <2>2 DEF FireComplete
  <2> QED BY <1>0, <1>2, <2>1, <2>2 DEF Worker
<1> QED BY <1>1, <1>2, Threads DEF StepOf

(* The thermal approach takes no step after its end. *)
LEMMA ThermalAlive ==
  ASSUME ThermalApproach
  PROVE  pc[Thermal] # "exit"
<1>1. ASSUME NEW a, NEW b, NEW p, NEW q, TakeOut(a, p, b, q) PROVE pc[Thermal] # "exit"
  BY <1>1 DEF TakeOut
<1>2. ASSUME NEW b, NEW p, NEW n, AdvanceJobInQueue(b, p, n) PROVE pc[Thermal] # "exit"
  BY <1>1, <1>2 DEF AdvanceJobInQueue
<1>3. ASSUME NEW a, NEW b, NEW p, NEW q, MoveJobToAnotherQueue(a, p, b, q)
      PROVE  pc[Thermal] # "exit"
  BY <1>1, <1>3 DEF MoveJobToAnotherQueue
<1> QED BY <1>2, <1>3 DEF ThermalApproach, ThermalLoop, CallReturns, ThermalReturn, TaskMigrate,
           Preempt, PreemptInsert, Reinsert, LockAllJobs, LockTaskQueue, LockCurrentJob,
           UnlockAllJobs, StopCurrentJob, StopLock, StopPost, StopWait, InsertJobToQueue,
           InsertLock, InsertPush, InsertUnlock

LEMMA JobLockThermal ==
  ASSUME TypeOK, JobLock, ThermalApproach
  PROVE  JobLock'
<1>0. /\ Thermal \in Thread /\ Main \in Thread /\ Thermal # Main /\ at[Thermal] \in Core
      /\ Thermal \in Stopper /\ StepOf(Thermal) /\ job_sem \in [Core -> Nat]
      /\ NCores \in Nat /\ Core = 0..(NCores - 1)
  BY Threads, Assumed DEF TypeOK, StepOf, Assumptions, Core
<1>1. pc'[Main] = pc[Main]
  BY <1>0, OthersStay DEF Stays
<1>2. pc[Thermal] # "exit"
  BY ThermalAlive
<1>3. ThermalLives /\ ThermalLives'
  BY <1>1, <1>2 DEF JobLock, ThermalLives
<1>4. \A c \in Core : job_sem[c] = IF HoldsJob(c) THEN 0 ELSE 1
  BY <1>3 DEF JobLock
<1> DEFINE Kept == /\ \A c \in Core : job_sem'[c] = IF HoldsJob(c)' THEN 0 ELSE 1
                   /\ pc'[Thermal] \in Unlocked => ~locked'
<1> SUFFICES Kept
  BY <1>3 DEF JobLock
<1> USE DEF Unlocked, Goto, workerVars, stopVars, userVars
<1>5. pc \in [Thread -> Label] /\ at \in [Stopper -> Core] /\ (pc[Thermal] \in Unlocked => ~locked)
  BY DEF TypeOK, JobLock
(* Steps that neither take nor give job_sem, nor enter or leave a part of   *)
(* the program that holds it.                                               *)
<1> DEFINE Neutral == /\ UNCHANGED <<job_sem, locked>>
                      /\ pc[Thermal] \notin {"stop_post", "stop_wait", "lock_job"}
                      /\ pc'[Thermal] \notin {"stop_post", "stop_wait", "lock_job"}
                      /\ pc'[Thermal] \in {"loop", "exit", "lock_queue", "ins_lock"} => ~locked
<1>6. ASSUME Neutral PROVE Kept
  <2>1. \A c \in Core : HoldsJob(c)' <=> HoldsJob(c)
    BY <1>6 DEF HoldsJob
  <2> QED BY <1>4, <1>5, <1>6, <2>1
<1>7. CASE ThermalLoop \/ CallReturns \/ ThermalReturn \/ PreemptInsert \/ Reinsert \/ LockAllJobs
  <2>1. Neutral
    BY <1>0, <1>5, <1>7 DEF ThermalLoop, CallReturns, ThermalReturn, PreemptInsert, Reinsert,
                      LockAllJobs
  <2> QED BY <1>6, <2>1
<1>8. ASSUME NEW a, NEW b, TaskMigrate(a, b) \/ Preempt(b) PROVE Neutral
  BY <1>0, <1>5, <1>8 DEF TaskMigrate, Preempt
<1>9. ASSUME NEW a, NEW b, NEW p, NEW q, TakeOut(a, p, b, q) PROVE Neutral
  BY <1>0, <1>5, <1>9 DEF TakeOut
<1>10. ASSUME NEW b, NEW p, NEW n, AdvanceJobInQueue(b, p, n) PROVE Neutral
  BY <1>9, <1>10 DEF AdvanceJobInQueue
<1>11. ASSUME NEW a, NEW b, NEW p, NEW q, MoveJobToAnotherQueue(a, p, b, q) PROVE Neutral
  BY <1>9, <1>11 DEF MoveJobToAnotherQueue
<1>12. CASE LockTaskQueue
  <2>1. /\ pc[Thermal] = "lock_queue" /\ UNCHANGED <<job_sem, locked>>
        /\ pc' = [pc EXCEPT ![Thermal] = IF LastCore THEN "lock_job" ELSE "lock_queue"]
        /\ at' = [at EXCEPT ![Thermal] = IF LastCore THEN 0 ELSE @ + 1]
    BY <1>12 DEF LockTaskQueue, NextCore
  <2>2. \A c \in Core : ~HoldsJob(c) /\ ~HoldsJob(c)'
    BY <1>0, <1>5, <2>1 DEF HoldsJob, LastCore
  <2> QED BY <1>0, <1>4, <1>5, <2>1, <2>2
<1>13. CASE LockCurrentJob
  <2>1. /\ pc[Thermal] = "lock_job" /\ job_sem' = Down(job_sem, at[Thermal]) /\ ~locked
        /\ pc' = [pc EXCEPT ![Thermal] = IF LastCore THEN "call" ELSE "lock_job"]
        /\ at' = [at EXCEPT ![Thermal] = IF LastCore THEN 0 ELSE @ + 1]
        /\ locked' = LastCore
    BY <1>5, <1>13 DEF LockCurrentJob, NextCore
  <2>2. \A c \in Core : HoldsJob(c) <=> c < at[Thermal]
    BY <1>0, <2>1 DEF HoldsJob
  <2>3. \A c \in Core : HoldsJob(c)' <=> c <= at[Thermal]
    <3>1. CASE LastCore
      <4>1. locked' /\ at[Thermal] = NCores - 1
        BY <2>1, <3>1 DEF LastCore
      <4> QED BY <1>0, <4>1 DEF HoldsJob
    <3>2. CASE ~LastCore
      <4>1. at'[Thermal] = at[Thermal] + 1 /\ pc'[Thermal] = "lock_job" /\ ~locked'
        BY <1>0, <1>5, <2>1, <3>2
      <4> QED BY <1>0, <4>1 DEF HoldsJob
    <3> QED BY <3>1, <3>2
  <2>4. \A c \in Core : job_sem'[c] = IF c = at[Thermal] THEN job_sem[c] - 1 ELSE job_sem[c]
    BY <1>0, <2>1 DEF Down
  <2>5. \A c \in Core : job_sem'[c] = IF HoldsJob(c)' THEN 0 ELSE 1
    <3> SUFFICES ASSUME NEW c \in Core PROVE job_sem'[c] = IF HoldsJob(c)' THEN 0 ELSE 1
      OBVIOUS
    <3>1. CASE c = at[Thermal]
      BY <1>0, <1>4, <2>2, <2>3, <2>4, <3>1
    <3>2. CASE c # at[Thermal]
      BY <1>0, <1>4, <2>2, <2>3, <2>4, <3>2
    <3> QED BY <3>1, <3>2
  <2>6. pc'[Thermal] \in Unlocked => ~locked'
    BY <1>0, <1>5, <2>1
  <2> QED BY <2>5, <2>6
<1>14. CASE UnlockAllJobs
  <2>1. /\ pc[Thermal] = "call" /\ locked /\ ~locked' /\ job_sem' = UpAll(job_sem, 1)
        /\ UNCHANGED pc
    BY <1>14 DEF UnlockAllJobs
  <2>2. \A c \in Core : HoldsJob(c) /\ ~HoldsJob(c)'
    BY <2>1 DEF HoldsJob
  <2>3. \A c \in Core : job_sem'[c] = job_sem[c] + 1
    BY <2>1 DEF UpAll
  <2>4. \A c \in Core : job_sem'[c] = 1
    BY <1>4, <2>2, <2>3
  <2> QED BY <2>1, <2>2, <2>4
<1>15. CASE StopLock(Thermal)
  <2>1. pc[Thermal] = "stop_lock" /\ job_sem[at[Thermal]] > 0 /\ UNCHANGED <<at, locked>>
    BY <1>15 DEF StopLock
  <2>2. ~locked
    BY <1>0, <1>4, <2>1 DEF HoldsJob
  <2>3. CASE current_job[at[Thermal]] = NoJob
    <3>1. pc'[Thermal] \in {"preempt_insert", "returned", "ins_lock"} /\ UNCHANGED job_sem
      BY <1>0, <1>5, <1>15, <2>3 DEF StopLock, AfterStop
    <3> QED BY <1>6, <2>1, <2>2, <3>1
  <2>4. CASE current_job[at[Thermal]] # NoJob
    <3>1. pc' = [pc EXCEPT ![Thermal] = "stop_post"] /\ job_sem' = Down(job_sem, at[Thermal])
      BY <1>15, <2>4 DEF StopLock
    <3>2. \A c \in Core : ~HoldsJob(c) /\ (HoldsJob(c)' <=> c = at[Thermal])
      BY <1>0, <1>5, <2>1, <2>2, <3>1 DEF HoldsJob
    <3>3. \A c \in Core : job_sem'[c] = IF c = at[Thermal] THEN job_sem[c] - 1 ELSE job_sem[c]
      BY <1>0, <3>1 DEF Down
    <3>4. \A c \in Core : job_sem'[c] = IF HoldsJob(c)' THEN 0 ELSE 1
      BY <1>4, <3>2, <3>3
    <3> QED BY <2>1, <2>2, <3>4
  <2> QED BY <2>3, <2>4
<1>16. CASE StopPost(Thermal)
  <2>1. /\ pc' = [pc EXCEPT ![Thermal] = "stop_wait"] /\ pc[Thermal] = "stop_post"
        /\ UNCHANGED <<job_sem, at, locked>>
    BY <1>16 DEF StopPost
  <2>2. \A c \in Core : HoldsJob(c)' <=> HoldsJob(c)
    BY <1>0, <1>5, <2>1 DEF HoldsJob
  <2> QED BY <1>4, <1>5, <2>1, <2>2
<1>17. CASE StopWait(Thermal)
  <2>1. /\ pc' = [pc EXCEPT ![Thermal] = AfterStop(Thermal, victim[Thermal])]
        /\ pc[Thermal] = "stop_wait" /\ UNCHANGED <<at, locked>> /\ ~locked
        /\ job_sem' = Up(job_sem, at[Thermal])
    BY <1>5, <1>17 DEF StopWait
  <2>2. pc'[Thermal] \in {"preempt_insert", "returned", "ins_lock"}
    BY <1>0, <1>5, <2>1 DEF AfterStop
  <2>3. \A c \in Core : ~HoldsJob(c)' /\ (HoldsJob(c) <=> c = at[Thermal])
    BY <1>0, <2>1, <2>2 DEF HoldsJob
  <2>4. \A c \in Core : job_sem'[c] = IF c = at[Thermal] THEN job_sem[c] + 1 ELSE job_sem[c]
    BY <1>0, <2>1 DEF Up
  <2>5. \A c \in Core : job_sem'[c] = 1
    BY <1>4, <2>3, <2>4
  <2> QED BY <2>1, <2>3, <2>5
<1>18. CASE InsertJobToQueue(Thermal)
  <2>1. Neutral
    BY <1>0, <1>5, <1>18, Threads DEF InsertJobToQueue, InsertLock, InsertPush, InsertUnlock,
                                     AfterInsert
  <2> QED BY <1>6, <2>1
<1>19. CASE StopCurrentJob(Thermal)
  BY <1>15, <1>16, <1>17, <1>19 DEF StopCurrentJob
<1> HIDE DEF Neutral, Kept
<1> QED BY <1>6, <1>7, <1>8, <1>10, <1>11, <1>12, <1>13, <1>14, <1>18, <1>19
       DEF ThermalApproach

LEMMA JobLockMain ==
  ASSUME TypeOK, JobLock, EndRun \/ Join
  PROVE  JobLock'
<1>0. /\ Thermal \in Thread /\ Main \in Thread /\ Thermal # Main /\ Thermal \in Stopper
      /\ Main \in Stopper /\ StepOf(Main) /\ pc \in [Thread -> Label]
  BY Threads DEF StepOf, TypeOK
<1>1. pc'[Thermal] = pc[Thermal] /\ at'[Thermal] = at[Thermal]
  BY <1>0, OthersStay, StopLocalsStay DEF Stays
<1>2. UNCHANGED locked
  BY DEF EndRun, Join, JoinThreads, JoinWorker, JoinWait, StopCurrentJob, StopLock, StopPost,
         StopWait, userVars
<1>3. \A c \in Core : HoldsJob(c)' <=> HoldsJob(c)
  BY <1>1, <1>2 DEF HoldsJob
<1> USE DEF ThermalLives, Goto, workerVars
<1>4. CASE EndRun
  <2>1. ThermalLives /\ ThermalLives' /\ UNCHANGED job_sem
    BY <1>0, <1>4 DEF EndRun
  <2> QED BY <1>1, <1>2, <1>3, <2>1 DEF JobLock
<1>5. CASE Join
  <2>1. pc[Thermal] = "exit"
    BY <1>0, <1>5 DEF JobLock, Join, JoinThreads, JoinWorker, JoinWait, StopCurrentJob, StopLock,
                      StopPost, StopWait
  <2>2. ~ThermalLives'
    BY <1>0, <1>5 DEF Join, JoinThreads, JoinWorker, JoinWait, StopCurrentJob, StopLock, StopPost,
                      StopWait, AfterStop
  <2> QED BY <1>1, <1>2, <2>1, <2>2 DEF JobLock
<1> QED BY <1>4, <1>5

LEMMA JobLockStep ==
  ASSUME TypeOK, JobLock, NEW t \in Thread, StepOf(t)
  PROVE  JobLock'
<1>1. CASE t = Thermal
  BY <1>1, JobLockThermal, Threads DEF StepOf
<1>2. CASE t = Main
  BY <1>2, JobLockMain, Threads DEF StepOf
<1>3. CASE t \notin Stopper
  <2>1. UNCHANGED <<job_sem, locked>>
    BY <1>3, WorkersKeepLocks
  <2>2. pc'[Thermal] = pc[Thermal] /\ pc'[Main] = pc[Main] /\ at'[Thermal] = at[Thermal]
    BY <1>3, OthersStay, StopLocalsStay, Threads DEF Stays
  <2>3. \A c \in Core : HoldsJob(c)' <=> HoldsJob(c)
    BY <2>1, <2>2 DEF HoldsJob
  <2> QED BY <2>1, <2>2, <2>3 DEF JobLock, ThermalLives
<1> QED BY <1>1, <1>2, <1>3 DEF Stopper

LEMMA JobLockInvariant == Spec => [](TypeOK /\ WorkerInv /\ JobLock)
<1>1. Init => JobLock
  BY Threads DEF Init, JobLock, ThermalLives, HoldsJob
<1>2. TypeOK /\ WorkerInv /\ JobLock /\ [Next]_vars => JobLock'
  <2> SUFFICES ASSUME TypeOK, JobLock, [Next]_vars PROVE JobLock'
    OBVIOUS
  <2>1. CASE UNCHANGED vars
    BY <2>1 DEF vars, JobLock, ThermalLives, HoldsJob, workerVars, stopVars, userVars
  <2>2. ASSUME NEW t \in Thread, StepOf(t) PROVE JobLock'
    BY <2>2, JobLockStep
  <2> QED BY <2>1, <2>2, EveryStep
<1> QED BY <1>1, <1>2, TypeInvariant, PTL DEF Spec

(* A step of worker c changes its current job only with job_sem free. *)
LEMMA OwnStep ==
  ASSUME TypeOK, NEW c \in Core, Worker(c) \/ LoadTimeout(c)
  PROVE  job_sem[c] > 0 \/ UNCHANGED current_job
<1> USE DEF workerVars
<1>1. CASE InsertJobToQueue(c)
  BY <1>1 DEF InsertJobToQueue, InsertLock, InsertPush, InsertUnlock
<1>2. CASE SetJob(c) \/ ClearJob(c)
  BY <1>2 DEF SetJob, ClearJob
<1>3. CASE FireComplete(c)
  BY <1>3 DEF FireComplete
<1>4. CASE WorkerLoop(c) \/ LoadLock(c) \/ LoadNumber(c) \/ LoadPop(c) \/ LoadTimeout(c)
           \/ Loaded(c) \/ FireStopped(c) \/ FireWork(c)
  BY <1>4 DEF WorkerLoop, LoadLock, LoadNumber, LoadPop, LoadTimeout, Loaded, FireStopped, FireWork
<1> QED BY <1>1, <1>2, <1>3, <1>4 DEF Worker

LEMMA LockedJobStep ==
  ASSUME TypeOK, JobLock, NEW t \in Thread, StepOf(t), NEW c \in Core,
         HoldsJob(c), pc'[Thermal] = pc[Thermal]
  PROVE  current_job'[c] = current_job[c]
<1>1. pc[Thermal] # "exit" /\ ThermalLives /\ job_sem[c] = 0
  <2>1. pc[Thermal] # "exit"
    BY DEF HoldsJob, JobLock, Unlocked
  <2> QED BY <2>1 DEF JobLock
<1>2. CASE t = c
  <2>1. Worker(c) \/ LoadTimeout(c)
    BY <1>2, Threads DEF StepOf
  <2> QED BY <1>1, <2>1, OwnStep
<1>3. CASE CoreStays(c)
  BY <1>3 DEF CoreStays
<1>4. CASE StopsAt(t, c)
  <2>1. CASE t = Thermal
    <3>1. pc[Thermal] = "stop_wait" /\ pc' = [pc EXCEPT ![Thermal] = AfterStop(Thermal, victim[Thermal])]
      BY <1>4, <2>1 DEF StopsAt, StopWait, Goto
    <3>2. pc'[Thermal] # "stop_wait"
      BY <3>1, Threads DEF AfterStop, TypeOK
    <3> QED BY <3>1, <3>2
  <2>2. CASE t = Main
    <3>1. pc[Main] = "stop_wait"
      BY <1>4, <2>2 DEF StopsAt, StopWait
    <3> QED BY <1>1, <3>1 DEF ThermalLives
  <2> QED BY <1>4, <2>1, <2>2 DEF StopsAt, Stopper
<1> QED BY <1>2, <1>3, <1>4, ForeignCore

(* What Worker.h promises of lockCurrentJob: no step of any thread changes  *)
(* the current job of a core whose job_sem the thermal approach holds, in   *)
(* lockAllJobs as well as inside stopCurrentJob.                            *)
THEOREM LockedJobsStay == Spec => LockedJobStays
<1> DEFINE A == \A c \in Core : HoldsJob(c) /\ pc'[Thermal] = pc[Thermal]
                                   => current_job'[c] = current_job[c]
<1>1. TypeOK /\ WorkerInv /\ JobLock /\ [Next]_vars => [A]_vars
  <2> SUFFICES ASSUME TypeOK, JobLock, [Next]_vars PROVE A \/ UNCHANGED vars
    OBVIOUS
  <2>1. ASSUME NEW t \in Thread, StepOf(t) PROVE A
    BY <2>1, LockedJobStep
  <2> HIDE DEF A
  <2> QED BY <2>1, EveryStep
<1> HIDE DEF A
<1>2. Spec => [][A]_vars
  BY <1>1, JobLockInvariant, PTL DEF Spec
<1> QED BY <1>2 DEF A, LockedJobStays

-----------------------------------------------------------------------------
(* The two units of taskqueue_sems.  A step of a thread changes what that   *)
(* thread holds of a core and the semaphore by the same amount, and nothing *)
(* that another thread holds.                                               *)

Inserts(t, c) == pc[t] \in {"ins_push", "ins_unlock"} /\ dest[t] = c
Loads(c)      == pc[c] \in {"load_number", "load_pop"}

SlotInv == /\ QueueSlots
           /\ pc[Main] = "sleep" <=> running
           /\ pc[Thermal] = "preempt_insert" => call.op = "preempt"

LEMMA ThreadsFinite == \A S \in SUBSET Thread : IsFiniteSet(S) /\ Cardinality(S) \in Nat
<1>1. IsFiniteSet(Core)
  <2>1. 0 \in Int /\ NCores - 1 \in Int
    BY Assumed DEF Assumptions
  <2> QED BY <2>1, FS_Interval DEF Core
<1>2. IsFiniteSet(Stopper)
  <2>1. IsFiniteSet({Thermal})
    BY FS_Singleton
  <2>2. Stopper = {Thermal} \cup {Main}
    BY DEF Stopper
  <2> QED BY <2>1, <2>2, FS_AddElement
<1>3. IsFiniteSet(Thread)
  BY <1>1, <1>2, DispatcherAssumption, FS_Union DEF Thread
<1> QED BY <1>3, FS_Subset, FS_CardinalityType

(* Two sets of threads that agree but for t differ in size by t alone. *)
LEMMA SizeStep ==
  ASSUME NEW S \in SUBSET Thread, NEW T \in SUBSET Thread, NEW t \in Thread, S \ {t} = T \ {t}
  PROVE  Cardinality(S) + One(t \in T) = Cardinality(T) + One(t \in S)
<1>1. /\ IsFiniteSet(S) /\ Cardinality(S) \in Nat
      /\ IsFiniteSet(T) /\ Cardinality(T) \in Nat
  BY ThreadsFinite
<1>2. Cardinality(S \ {t}) = IF t \in S THEN Cardinality(S) - 1 ELSE Cardinality(S)
  BY <1>1, FS_RemoveElement
<1>3. Cardinality(T \ {t}) = IF t \in T THEN Cardinality(T) - 1 ELSE Cardinality(T)
  BY <1>1, FS_RemoveElement
<1>4. Cardinality(S \ {t}) = Cardinality(T \ {t})
  OBVIOUS
<1> QED BY <1>1, <1>2, <1>3, <1>4 DEF One

LEMMA InsertSlot ==
  ASSUME TypeOK, NEW t \in Thread, InsertJobToQueue(t), NEW c \in Core
  PROVE  /\ taskqueue_sem'[c] + One(Inserts(t, c)') = taskqueue_sem[c] + One(Inserts(t, c))
         /\ UNCHANGED <<running, dest, at, call, locked>>
         /\ pc[t] \in {"ins_lock", "ins_push", "ins_unlock"}
         /\ pc'[t] \in {"ins_push", "ins_unlock", "release", "clear", "returned"}
<1>0. /\ taskqueue_sem \in [Core -> Nat] /\ dest \in [Thread -> Core] /\ pc \in [Thread -> Label]
      /\ taskqueue_sem[c] \in Nat /\ dest[t] \in Core
  BY DEF TypeOK
<1> USE DEF carryVars, stopVars, userVars, Goto
<1>1. CASE InsertLock(t)
  <2>1. /\ pc[t] = "ins_lock" /\ pc' = [pc EXCEPT ![t] = "ins_push"]
        /\ taskqueue_sem' = [taskqueue_sem EXCEPT ![dest[t]] = @ - 1]
        /\ UNCHANGED <<running, dest, at, call, locked>>
    BY <1>1 DEF InsertLock, Down
  <2>2. pc'[t] = "ins_push"
    BY <1>0, <2>1
  <2>3. CASE dest[t] = c
    BY <1>0, <2>1, <2>2, <2>3 DEF Inserts, One
  <2>4. CASE dest[t] # c
    BY <1>0, <2>1, <2>2, <2>4 DEF Inserts, One
  <2> QED BY <2>1, <2>2, <2>3, <2>4
<1>2. CASE InsertPush(t)
  <2>1. /\ pc[t] = "ins_push" /\ pc' = [pc EXCEPT ![t] = "ins_unlock"]
        /\ UNCHANGED <<taskqueue_sem, running, dest, at, call, locked>>
    BY <1>2 DEF InsertPush
  <2>2. pc'[t] = "ins_unlock"
    BY <1>0, <2>1
  <2> QED BY <2>1, <2>2 DEF Inserts
<1>3. CASE InsertUnlock(t)
  <2>1. /\ pc[t] = "ins_unlock" /\ pc' = [pc EXCEPT ![t] = AfterInsert(t)]
        /\ taskqueue_sem' = [taskqueue_sem EXCEPT ![dest[t]] = @ + 1]
        /\ UNCHANGED <<running, dest, at, call, locked>>
    BY <1>3 DEF InsertUnlock, Up
  <2>2. pc'[t] \in {"release", "clear", "returned"}
    BY <1>0, <2>1 DEF AfterInsert
  <2>3. CASE dest[t] = c
    BY <1>0, <2>1, <2>2, <2>3 DEF Inserts, One
  <2>4. CASE dest[t] # c
    BY <1>0, <2>1, <2>2, <2>4 DEF Inserts, One
  <2> QED BY <2>1, <2>2, <2>3, <2>4
<1> QED BY <1>1, <1>2, <1>3 DEF InsertJobToQueue

(* Another thread than the thermal approach changes neither what locks the  *)
(* queues nor a preemption.                                                 *)
LEMMA ThermalKeeps ==
  ASSUME TypeOK, NEW t \in Thread, StepOf(t), t # Thermal, NEW c \in Core
  PROVE  /\ LockedQueue(c)' <=> LockedQueue(c)
         /\ Preempting(c)' <=> Preempting(c)
         /\ UNCHANGED <<call, locked>>
<1>1. pc'[Thermal] = pc[Thermal] /\ at'[Thermal] = at[Thermal]
  BY OthersStay, StopLocalsStay, Threads DEF Stays
<1>2. UNCHANGED <<call, locked>>
  <2> USE DEF userVars
  <2>0. ASSUME NEW u \in Thread, InsertJobToQueue(u) PROVE UNCHANGED userVars
    BY <2>0 DEF InsertJobToQueue, InsertLock, InsertPush, InsertUnlock
  <2>1. CASE t \in Dispatcher /\ DispatcherStep(t)
    BY <2>0, <2>1 DEF DispatcherStep, Release, DispatcherExit
  <2>2. CASE t \in Core /\ (Worker(t) \/ LoadTimeout(t))
    <3>1. CASE WorkerLoop(t) \/ LoadLock(t) \/ LoadNumber(t) \/ LoadPop(t) \/ LoadTimeout(t)
               \/ Loaded(t) \/ SetJob(t) \/ ClearJob(t) \/ FireStopped(t) \/ FireWork(t)
      BY <3>1 DEF WorkerLoop, LoadLock, LoadNumber, LoadPop, LoadTimeout, Loaded, SetJob,
                  ClearJob, FireStopped, FireWork
    <3>2. CASE FireComplete(t)
      BY <3>2 DEF FireComplete
    <3> QED BY <2>0, <2>2, <3>1, <3>2 DEF Worker
  <2>3. CASE t = Main /\ (EndRun \/ Join)
    BY <2>3 DEF EndRun, Join, JoinThreads, JoinWorker, JoinWait, StopCurrentJob, StopLock,
                StopPost, StopWait
  <2> QED BY <2>1, <2>2, <2>3, Threads DEF StepOf
<1> QED BY <1>1, <1>2 DEF LockedQueue, Preempting

(* Only a thread itself sets its dest. *)
LEMMA DestStays ==
  ASSUME TypeOK, NEW t \in Thread, StepOf(t), NEW u \in Thread, u # t
  PROVE  dest'[u] = dest[u]
<1> USE DEF carryVars
<1>0. ASSUME InsertJobToQueue(t) PROVE UNCHANGED dest
  BY <1>0 DEF InsertJobToQueue, InsertLock, InsertPush, InsertUnlock
<1>00. ASSUME NEW s \in Stopper, StopCurrentJob(s) PROVE UNCHANGED dest
  BY <1>00 DEF StopCurrentJob, StopLock, StopPost, StopWait
<1>1. CASE t \in Dispatcher /\ DispatcherStep(t)
  <2>1. CASE Release(t)
    <3>1. PICK answer : dest' = [dest EXCEPT ![t] = TargetCore(answer)]
      BY <2>1 DEF Release
    <3> QED BY <3>1 DEF TypeOK
  <2> QED BY <1>0, <1>1, <2>1 DEF DispatcherStep, DispatcherExit
<1>2. CASE t \in Core /\ (Worker(t) \/ LoadTimeout(t))
  <2>1. CASE WorkerLoop(t) \/ LoadLock(t) \/ LoadNumber(t) \/ LoadPop(t) \/ LoadTimeout(t)
             \/ Loaded(t) \/ SetJob(t) \/ ClearJob(t) \/ FireStopped(t) \/ FireWork(t)
    BY <2>1 DEF WorkerLoop, LoadLock, LoadNumber, LoadPop, LoadTimeout, Loaded, SetJob,
                ClearJob, FireStopped, FireWork
  <2>2. CASE FireComplete(t)
    BY <2>2 DEF FireComplete, TypeOK
  <2> QED BY <1>0, <1>2, <2>1, <2>2 DEF Worker
<1>3. CASE t = Thermal /\ ThermalApproach
  <2>1. CASE CallReturns
    BY <1>3, <2>1 DEF CallReturns, TypeOK
  <2>2. ASSUME NEW a, NEW b, NEW p, NEW q, TakeOut(a, p, b, q) PROVE dest'[u] = dest[u]
    BY <1>3, <2>2 DEF TakeOut, TypeOK
  <2>3. ASSUME NEW b, NEW p, NEW n, AdvanceJobInQueue(b, p, n) PROVE dest'[u] = dest[u]
    BY <2>2, <2>3 DEF AdvanceJobInQueue
  <2>4. ASSUME NEW a, NEW b, NEW p, NEW q, MoveJobToAnotherQueue(a, p, b, q)
        PROVE  dest'[u] = dest[u]
    BY <2>2, <2>4 DEF MoveJobToAnotherQueue
  <2>5. ASSUME NEW a, NEW b, TaskMigrate(a, b) \/ Preempt(b) PROVE dest'[u] = dest[u]
    BY <1>3, <2>5 DEF TaskMigrate, Preempt, TypeOK
  <2>6. CASE ThermalLoop \/ ThermalReturn \/ PreemptInsert \/ Reinsert \/ LockAllJobs
             \/ LockTaskQueue \/ LockCurrentJob \/ UnlockAllJobs
    BY <2>6 DEF ThermalLoop, ThermalReturn, PreemptInsert, Reinsert, LockAllJobs,
                LockTaskQueue, LockCurrentJob, UnlockAllJobs
  <2> QED BY <1>0, <1>00, <1>3, <2>1, <2>3, <2>4, <2>5, <2>6, Threads DEF ThermalApproach
<1>4. CASE t = Main /\ (EndRun \/ Join)
  BY <1>00, <1>4, Threads DEF EndRun, Join, JoinThreads, JoinWorker, JoinWait
<1> QED BY <1>1, <1>2, <1>3, <1>4 DEF StepOf

(* The sum for one core changes with what the moving thread inserts. *)
LEMMA InsertingStep ==
  ASSUME TypeOK, NEW t \in Thread, StepOf(t), NEW c \in Core
  PROVE  /\ Cardinality(Inserting(c)) + One(Inserts(t, c)')
              = Cardinality(Inserting(c)') + One(Inserts(t, c))
         /\ Cardinality(Inserting(c)) \in Nat /\ Cardinality(Inserting(c)') \in Nat
<1>1. \A u \in Thread \ {t} : pc'[u] = pc[u] /\ dest'[u] = dest[u]
  BY OthersStay, DestStays DEF Stays
<1>2. Inserting(c) = {u \in Thread : Inserts(u, c)}
  BY DEF Inserting, Inserts
<1>3. Inserting(c)' = {u \in Thread : Inserts(u, c)'}
  BY DEF Inserting, Inserts
<1>4. Inserting(c) \ {t} = Inserting(c)' \ {t}
  BY <1>1, <1>2, <1>3 DEF Inserts
<1>5. Inserting(c) \in SUBSET Thread /\ Inserting(c)' \in SUBSET Thread
  BY <1>2, <1>3
<1>6. (t \in Inserting(c) <=> Inserts(t, c)) /\ (t \in Inserting(c)' <=> Inserts(t, c)')
  BY <1>2, <1>3
<1>7. One(t \in Inserting(c)) = One(Inserts(t, c)) /\ One(t \in Inserting(c)') = One(Inserts(t, c)')
  BY <1>6 DEF One
<1> QED BY <1>4, <1>5, <1>7, SizeStep, ThreadsFinite

(* What thread t gains of core c the semaphore loses. *)
SlotsKept(t, c) ==
  taskqueue_sem'[c] + One(Inserts(t, c)') + One(Loads(c)') + One(LockedQueue(c)') + One(Preempting(c)')
    = taskqueue_sem[c] + One(Inserts(t, c)) + One(Loads(c)) + One(LockedQueue(c)) + One(Preempting(c))

LEMMA SlotDispatcher ==
  ASSUME TypeOK, NEW t \in Dispatcher, DispatcherStep(t), NEW c \in Core
  PROVE  SlotsKept(t, c) /\ UNCHANGED running
<1>0. t \in Thread /\ t # c /\ t # Thermal /\ StepOf(t) /\ c \in Thread /\ c # t
      /\ pc \in [Thread -> Label]
  BY Threads DEF StepOf, TypeOK
<1>1. (LockedQueue(c)' <=> LockedQueue(c)) /\ (Preempting(c)' <=> Preempting(c))
  BY <1>0, ThermalKeeps
<1>2. Loads(c)' <=> Loads(c)
  BY <1>0, OthersStay DEF Stays, Loads
<1>3. CASE InsertJobToQueue(t)
  BY <1>0, <1>1, <1>2, <1>3, InsertSlot DEF SlotsKept, One, TypeOK
<1>4. CASE Release(t) \/ DispatcherExit(t)
  <2>1. /\ UNCHANGED <<taskqueue_sem, running>> /\ pc[t] = "release"
        /\ pc'[t] \in {"ins_lock", "exit"}
    BY <1>0, <1>4 DEF Release, DispatcherExit, processorVars, Goto
  <2>2. ~Inserts(t, c) /\ ~Inserts(t, c)'
    BY <2>1 DEF Inserts
  <2> QED BY <1>1, <1>2, <2>1, <2>2 DEF SlotsKept, One
<1> QED BY <1>3, <1>4 DEF DispatcherStep

LEMMA SlotWorker ==
  ASSUME TypeOK, NEW w \in Core, Worker(w) \/ LoadTimeout(w), NEW c \in Core
  PROVE  SlotsKept(w, c) /\ UNCHANGED running
<1>0. w \in Thread /\ w # Thermal /\ StepOf(w) /\ c \in Thread /\ pc \in [Thread -> Label]
      /\ taskqueue_sem \in [Core -> Nat] /\ taskqueue_sem[c] \in Nat
  BY Threads DEF StepOf, TypeOK
<1>1. (LockedQueue(c)' <=> LockedQueue(c)) /\ (Preempting(c)' <=> Preempting(c))
  BY <1>0, ThermalKeeps
<1>2. c # w => (Loads(c)' <=> Loads(c))
  BY <1>0, OthersStay DEF Stays, Loads
<1> USE DEF processorVars, Goto
<1>3. CASE InsertJobToQueue(w)
  <2>1. Loads(c)' <=> Loads(c)
    BY <1>0, <1>2, <1>3, InsertSlot DEF Loads
  <2> QED BY <1>0, <1>1, <1>3, <2>1, InsertSlot DEF SlotsKept, One
(* The steps of the loop take and give what they hold of their own core. *)
<1>4. ASSUME UNCHANGED running,
             pc[w] \notin {"ins_push", "ins_unlock"}, pc'[w] \notin {"ins_push", "ins_unlock"},
             taskqueue_sem'[c] + One(Loads(c)') = taskqueue_sem[c] + One(Loads(c)),
             taskqueue_sem'[c] \in Nat
      PROVE  SlotsKept(w, c) /\ UNCHANGED running
  <2>1. ~Inserts(w, c) /\ ~Inserts(w, c)'
    BY <1>4 DEF Inserts
  <2> QED BY <1>0, <1>1, <1>4, <2>1 DEF SlotsKept, One
<1>5. CASE LoadLock(w)
  <2>1. /\ UNCHANGED running /\ pc[w] = "load_lock" /\ pc'[w] = "load_number"
        /\ taskqueue_sem' = [taskqueue_sem EXCEPT ![w] = @ - 1] /\ taskqueue_sem[w] > 0
    BY <1>0, <1>5 DEF LoadLock, Down
  <2>2. taskqueue_sem'[c] + One(Loads(c)') = taskqueue_sem[c] + One(Loads(c)) /\ taskqueue_sem'[c] \in Nat
    <3>1. CASE c = w
      BY <1>0, <2>1, <3>1 DEF Loads, One
    <3>2. CASE c # w
      BY <1>0, <1>2, <2>1, <3>2 DEF One
    <3> QED BY <3>1, <3>2
  <2> QED BY <1>4, <2>1, <2>2
<1>6. CASE LoadNumber(w)
  <2>1. /\ UNCHANGED <<running, taskqueue_sem>> /\ pc[w] = "load_number" /\ pc'[w] = "load_pop"
    BY <1>0, <1>6 DEF LoadNumber
  <2>2. Loads(c)' <=> Loads(c)
    BY <1>2, <2>1 DEF Loads
  <2> QED BY <1>0, <1>4, <2>1, <2>2 DEF One
<1>7. ASSUME UNCHANGED running, Loads(w), pc'[w] = "loaded", taskqueue_sem' = Up(taskqueue_sem, w)
      PROVE  SlotsKept(w, c) /\ UNCHANGED running
  <2>1. taskqueue_sem'[c] + One(Loads(c)') = taskqueue_sem[c] + One(Loads(c)) /\ taskqueue_sem'[c] \in Nat
    <3>1. CASE c = w
      BY <1>0, <1>7, <3>1 DEF Loads, One, Up
    <3>2. CASE c # w
      BY <1>0, <1>2, <1>7, <3>2 DEF One, Up
    <3> QED BY <3>1, <3>2
  <2>2. pc[w] \notin {"ins_push", "ins_unlock"}
    BY <1>7 DEF Loads
  <2> QED BY <1>4, <1>7, <2>1, <2>2
<1>8. CASE LoadPop(w)
  BY <1>0, <1>7, <1>8 DEF LoadPop, Loads
(* A step that does not load at all. *)
<1>9. ASSUME UNCHANGED <<running, taskqueue_sem>>,
             pc[w] \notin {"ins_push", "ins_unlock", "load_number", "load_pop"},
             pc'[w] \notin {"ins_push", "ins_unlock", "load_number", "load_pop"}
      PROVE  SlotsKept(w, c) /\ UNCHANGED running
  <2>1. Loads(c)' <=> Loads(c)
    BY <1>2, <1>9 DEF Loads
  <2> QED BY <1>0, <1>4, <1>9, <2>1 DEF One
<1>10. CASE LoadTimeout(w)
  <2>1. CASE pc[w] = "load_lock"
    <3>1. UNCHANGED <<running, taskqueue_sem>> /\ pc'[w] = "loaded"
      BY <1>0, <1>10, <2>1 DEF LoadTimeout
    <3> QED BY <1>9, <2>1, <3>1
  <2>2. CASE pc[w] = "load_number"
    BY <1>0, <1>7, <1>10, <2>2 DEF LoadTimeout, Loads
  <2> QED BY <1>10, <2>1, <2>2 DEF LoadTimeout
<1>11. CASE WorkerLoop(w)
  BY <1>0, <1>9, <1>11 DEF WorkerLoop
<1>12. CASE Loaded(w)
  BY <1>0, <1>9, <1>12 DEF Loaded
<1>13. CASE SetJob(w) \/ ClearJob(w)
  BY <1>0, <1>9, <1>13 DEF SetJob, ClearJob
<1>14. CASE FireStopped(w) \/ FireWork(w)
  BY <1>0, <1>9, <1>14 DEF FireStopped, FireWork
<1>15. CASE FireComplete(w)
  BY <1>0, <1>9, <1>15 DEF FireComplete
<1> QED BY <1>3, <1>5, <1>6, <1>8, <1>10, <1>11, <1>12, <1>13, <1>14, <1>15 DEF Worker

LEMMA SlotMain ==
  ASSUME TypeOK, NEW c \in Core, EndRun \/ Join
  PROVE  /\ Join => SlotsKept(Main, c) /\ UNCHANGED running
         /\ EndRun => /\ Cardinality(Inserting(c)') = Cardinality(Inserting(c))
                      /\ taskqueue_sem'[c] = taskqueue_sem[c] + 2
                      /\ Loads(c)' <=> Loads(c)
<1>0. /\ Main \in Thread /\ c \in Thread /\ c # Main /\ Main # Thermal /\ StepOf(Main)
      /\ pc \in [Thread -> Label]
  BY Threads DEF StepOf, TypeOK
<1>1. Loads(c)' <=> Loads(c)
  BY <1>0, OthersStay DEF Stays, Loads
<1>2. (LockedQueue(c)' <=> LockedQueue(c)) /\ (Preempting(c)' <=> Preempting(c))
  BY <1>0, ThermalKeeps
<1>3. pc[Main] \notin {"ins_push", "ins_unlock"}
  BY DEF EndRun, Join, JoinThreads, JoinWorker, JoinWait, StopCurrentJob, StopLock, StopPost,
         StopWait
<1>4. pc'[Main] \notin {"ins_push", "ins_unlock"}
  BY <1>0 DEF EndRun, Join, JoinThreads, JoinWorker, JoinWait, StopCurrentJob, StopLock, StopPost,
         StopWait, Goto, AfterStop
<1>5. ~Inserts(Main, c) /\ ~Inserts(Main, c)'
  BY <1>3, <1>4 DEF Inserts
<1>6. Join => UNCHANGED <<running, taskqueue_sem>>
  BY DEF Join, JoinThreads, JoinWorker, JoinWait, StopCurrentJob, StopLock, StopPost, StopWait,
         processorVars
<1>7. EndRun => taskqueue_sem'[c] = taskqueue_sem[c] + 2
  BY DEF EndRun, UpAll
<1>8. Cardinality(Inserting(c)') = Cardinality(Inserting(c))
  BY <1>0, <1>5, InsertingStep DEF One
<1> QED BY <1>1, <1>2, <1>5, <1>6, <1>7, <1>8 DEF SlotsKept, One

LEMMA SlotThermal ==
  ASSUME TypeOK, JobLock, SlotInv, ThermalApproach, NEW c \in Core
  PROVE  /\ SlotsKept(Thermal, c) /\ UNCHANGED running
         /\ pc'[Thermal] = "preempt_insert" => call'.op = "preempt"
<1>0. /\ Thermal \in Thread /\ Thermal \in Stopper /\ Thermal # Main /\ Thermal \notin Dispatcher
      /\ Thermal \notin Core /\ StepOf(Thermal) /\ c \in Thread /\ c # Thermal
      /\ at[Thermal] \in Core /\ c \in Int /\ NCores \in Nat /\ Core = 0..(NCores - 1)
      /\ pc \in [Thread -> Label] /\ at \in [Stopper -> Core] /\ dest \in [Thread -> Core]
      /\ taskqueue_sem \in [Core -> Nat] /\ taskqueue_sem[c] \in Nat
      /\ call \in [op : {"none", "migrate", "preempt", "reinsert"}, slot : BOOLEAN, position : Nat]
  BY Threads, Assumed DEF StepOf, TypeOK, Assumptions, Core
<1>1. Loads(c)' <=> Loads(c)
  BY <1>0, OthersStay DEF Stays, Loads
<1>2. /\ pc[Thermal] \in {"lock_queue", "lock_job", "loop"} => ~locked
      /\ pc[Thermal] = "preempt_insert" => call.op = "preempt"
  BY DEF JobLock, Unlocked, SlotInv
<1> DEFINE Stops == {"stop_lock", "stop_post", "stop_wait", "preempt_insert"}
           Locks == {"lock_queue", "lock_job"}
           Insertion == {"ins_push", "ins_unlock"}
           Good == /\ SlotsKept(Thermal, c) /\ UNCHANGED running
                   /\ pc'[Thermal] = "preempt_insert" => call'.op = "preempt"
<1> USE DEF Goto, processorVars, stopVars, userVars
(* A step outside every part that holds a unit. *)
<1>3. ASSUME UNCHANGED <<running, taskqueue_sem, locked>>,
             pc[Thermal] \notin Stops \cup Locks \cup Insertion,
             pc'[Thermal] \notin {"stop_post", "stop_wait", "preempt_insert", "lock_job"} \cup Insertion,
             pc'[Thermal] = "stop_lock" => call'.op # "preempt",
             pc'[Thermal] = "lock_queue" => at'[Thermal] = 0
      PROVE  Good
  <2>1. ~Inserts(Thermal, c) /\ ~Inserts(Thermal, c)'
    BY <1>3 DEF Inserts
  <2>2. ~Preempting(c) /\ ~Preempting(c)'
    BY <1>3 DEF Preempting
  <2>3. LockedQueue(c) <=> LockedQueue(c)'
    BY <1>0, <1>3 DEF LockedQueue
  <2> QED BY <1>1, <1>3, <2>1, <2>2, <2>3 DEF SlotsKept, One
<1> HIDE DEF Good
<1>4. CASE ThermalLoop
  <2>1. UNCHANGED <<running, taskqueue_sem, locked>> /\ pc[Thermal] = "loop" /\ pc'[Thermal] \in {"call", "exit"}
    BY <1>0, <1>4 DEF ThermalLoop
  <2> QED BY <1>3, <2>1 DEF Good
<1>5. CASE CallReturns \/ ThermalReturn
  <2>1. /\ UNCHANGED <<running, taskqueue_sem, locked>> /\ pc[Thermal] \in {"returned", "call"}
        /\ pc'[Thermal] \in {"call", "loop"}
    BY <1>0, <1>5 DEF CallReturns, ThermalReturn
  <2> QED BY <1>3, <2>1 DEF Good
<1>6. ASSUME NEW a, NEW b, TaskMigrate(a, b) PROVE Good
  <2>1. /\ UNCHANGED <<running, taskqueue_sem, locked>> /\ pc[Thermal] = "call"
        /\ pc'[Thermal] = "stop_lock" /\ call'.op = "migrate"
    BY <1>0, <1>6 DEF TaskMigrate, NoCall
  <2> QED BY <1>3, <2>1
<1>7. ASSUME NEW a, NEW b, NEW p, NEW q, TakeOut(a, p, b, q) PROVE Good
  <2>1. /\ UNCHANGED <<running, taskqueue_sem, locked>> /\ pc[Thermal] = "call"
        /\ pc'[Thermal] = "reinsert"
    BY <1>0, <1>7 DEF TakeOut
  <2> QED BY <1>3, <2>1
<1>8. ASSUME NEW b, NEW p, NEW n, AdvanceJobInQueue(b, p, n) PROVE Good
  BY <1>7, <1>8 DEF AdvanceJobInQueue
<1>9. ASSUME NEW a, NEW b, NEW p, NEW q, MoveJobToAnotherQueue(a, p, b, q) PROVE Good
  BY <1>7, <1>9 DEF MoveJobToAnotherQueue
<1>10. CASE Reinsert
  <2>1. /\ UNCHANGED <<running, taskqueue_sem, locked>> /\ pc[Thermal] = "reinsert"
        /\ pc'[Thermal] = "returned"
    BY <1>0, <1>10 DEF Reinsert
  <2> QED BY <1>3, <2>1 DEF Good
<1>11. CASE LockAllJobs
  <2>1. /\ UNCHANGED <<running, taskqueue_sem, locked>> /\ pc[Thermal] = "call"
        /\ pc'[Thermal] = "lock_queue" /\ at'[Thermal] = 0
    BY <1>0, <1>11 DEF LockAllJobs
  <2> QED BY <1>3, <2>1 DEF Good
<1> USE DEF Good
(* sem_trywait of preemptCurrentJobOnCore; the unit goes with the call. *)
<1>12. ASSUME NEW b \in Core, Preempt(b) PROVE Good
  <2>1. /\ UNCHANGED <<running, locked>> /\ pc[Thermal] = "call" /\ pc'[Thermal] = "stop_lock"
        /\ call'.op = "preempt" /\ call'.slot = (taskqueue_sem[b] > 0) /\ at'[Thermal] = b
        /\ taskqueue_sem' = IF taskqueue_sem[b] > 0 THEN Down(taskqueue_sem, b) ELSE taskqueue_sem
    BY <1>0, <1>12 DEF Preempt, NoCall
  <2>2. ~Inserts(Thermal, c) /\ ~Inserts(Thermal, c)' /\ ~Preempting(c)
    BY <2>1 DEF Inserts, Preempting
  <2>3. LockedQueue(c) <=> LockedQueue(c)'
    BY <2>1 DEF LockedQueue
  <2>4. Preempting(c)' <=> b = c /\ taskqueue_sem[c] > 0
    BY <2>1 DEF Preempting
  <2>5. taskqueue_sem'[c] = IF b = c /\ taskqueue_sem[c] > 0 THEN taskqueue_sem[c] - 1 ELSE taskqueue_sem[c]
    BY <1>0, <2>1 DEF Down
  <2> QED BY <1>0, <1>1, <2>1, <2>2, <2>3, <2>4, <2>5 DEF SlotsKept, One
<1>13. CASE PreemptInsert
  <2>1. /\ UNCHANGED <<running, locked>> /\ pc[Thermal] = "preempt_insert" /\ pc'[Thermal] = "returned"
        /\ taskqueue_sem' = IF call.slot THEN Up(taskqueue_sem, at[Thermal]) ELSE taskqueue_sem
    BY <1>0, <1>13 DEF PreemptInsert
  <2>2. ~Inserts(Thermal, c) /\ ~Inserts(Thermal, c)' /\ ~Preempting(c)'
    BY <2>1 DEF Inserts, Preempting
  <2>3. LockedQueue(c) <=> LockedQueue(c)'
    BY <2>1 DEF LockedQueue
  <2>4. Preempting(c) <=> call.slot /\ at[Thermal] = c
    BY <1>2, <2>1 DEF Preempting
  <2>5. taskqueue_sem'[c] = IF call.slot /\ at[Thermal] = c THEN taskqueue_sem[c] + 1 ELSE taskqueue_sem[c]
    BY <1>0, <2>1 DEF Up
  <2> QED BY <1>0, <1>1, <2>1, <2>2, <2>3, <2>4, <2>5 DEF SlotsKept, One
<1>14. CASE LockTaskQueue
  <2>1. /\ UNCHANGED <<running, call, locked>> /\ pc[Thermal] = "lock_queue" /\ ~locked
        /\ pc'[Thermal] = IF LastCore THEN "lock_job" ELSE "lock_queue"
        /\ at'[Thermal] = IF LastCore THEN 0 ELSE at[Thermal] + 1
        /\ taskqueue_sem' = Down(taskqueue_sem, at[Thermal]) /\ taskqueue_sem[at[Thermal]] > 0
    BY <1>0, <1>2, <1>14 DEF LockTaskQueue, NextCore
  <2>2. ~Inserts(Thermal, c) /\ ~Inserts(Thermal, c)' /\ ~Preempting(c) /\ ~Preempting(c)'
    BY <2>1 DEF Inserts, Preempting
  <2>3. LockedQueue(c) <=> c < at[Thermal]
    BY <2>1 DEF LockedQueue
  <2>4. LockedQueue(c)' <=> c <= at[Thermal]
    <3>1. CASE LastCore
      BY <1>0, <2>1, <3>1 DEF LockedQueue, LastCore
    <3>2. CASE ~LastCore
      <4>1. pc'[Thermal] = "lock_queue" /\ at'[Thermal] = at[Thermal] + 1 /\ ~locked'
        BY <2>1, <3>2
      <4> QED BY <1>0, <4>1 DEF LockedQueue
    <3> QED BY <3>1, <3>2
  <2>5. taskqueue_sem'[c] = IF c = at[Thermal] THEN taskqueue_sem[c] - 1 ELSE taskqueue_sem[c]
    BY <1>0, <2>1 DEF Down
  <2>6. One(LockedQueue(c)') = IF c = at[Thermal] THEN One(LockedQueue(c)) + 1 ELSE One(LockedQueue(c))
    BY <1>0, <2>3, <2>4 DEF One
  <2> QED BY <1>0, <1>1, <2>1, <2>2, <2>5, <2>6 DEF SlotsKept, One
<1>15. CASE LockCurrentJob
  <2>1. /\ UNCHANGED <<running, taskqueue_sem>> /\ pc[Thermal] = "lock_job"
        /\ pc'[Thermal] = IF LastCore THEN "call" ELSE "lock_job"
        /\ locked' = LastCore
    BY <1>0, <1>15 DEF LockCurrentJob
  <2>2. ~Inserts(Thermal, c) /\ ~Inserts(Thermal, c)' /\ ~Preempting(c) /\ ~Preempting(c)'
    BY <2>1 DEF Inserts, Preempting
  <2>3. LockedQueue(c) /\ LockedQueue(c)'
    BY <2>1 DEF LockedQueue
  <2> QED BY <1>0, <1>1, <2>1, <2>2, <2>3 DEF SlotsKept, One
<1>16. CASE UnlockAllJobs
  <2>1. /\ UNCHANGED <<running, pc>> /\ pc[Thermal] = "call" /\ locked /\ ~locked'
        /\ taskqueue_sem'[c] = taskqueue_sem[c] + 1
    BY <1>16 DEF UnlockAllJobs, UpAll
  <2>2. ~Inserts(Thermal, c) /\ ~Inserts(Thermal, c)' /\ ~Preempting(c) /\ ~Preempting(c)'
    BY <2>1 DEF Inserts, Preempting
  <2>3. LockedQueue(c) /\ ~LockedQueue(c)'
    BY <2>1 DEF LockedQueue
  <2> QED BY <1>0, <1>1, <2>1, <2>2, <2>3 DEF SlotsKept, One
(* The unit taken for a preemption is kept until stopCurrentJob returns. *)
<1>17. CASE StopCurrentJob(Thermal)
  <2>1. /\ UNCHANGED <<running, taskqueue_sem, call, locked>> /\ at'[Thermal] = at[Thermal]
        /\ pc[Thermal] \in {"stop_lock", "stop_post", "stop_wait"}
    BY <1>17 DEF StopCurrentJob, StopLock, StopPost, StopWait
  <2>2. \/ pc'[Thermal] \in {"stop_post", "stop_wait"}
        \/ \E job : pc'[Thermal] = AfterStop(Thermal, job)
    BY <1>0, <1>17 DEF StopCurrentJob, StopLock, StopPost, StopWait
  <2>3. \/ pc'[Thermal] \in {"stop_post", "stop_wait"}
        \/ pc'[Thermal] = "preempt_insert" /\ call.op = "preempt"
        \/ pc'[Thermal] \in {"returned", "ins_lock"} /\ call.op # "preempt"
    BY <1>0, <2>2 DEF AfterStop
  <2>4. Preempting(c)' <=> Preempting(c)
    BY <2>1, <2>3 DEF Preempting
  <2>5. LockedQueue(c)' <=> LockedQueue(c)
    BY <2>1, <2>3 DEF LockedQueue
  <2>6. ~Inserts(Thermal, c) /\ ~Inserts(Thermal, c)'
    BY <2>1, <2>3 DEF Inserts
  <2> QED BY <1>1, <2>1, <2>3, <2>4, <2>5, <2>6 DEF SlotsKept, One
<1>18. CASE InsertJobToQueue(Thermal)
  <2>1. /\ taskqueue_sem'[c] + One(Inserts(Thermal, c)') = taskqueue_sem[c] + One(Inserts(Thermal, c))
        /\ UNCHANGED <<running, at, call, locked>>
        /\ pc[Thermal] \in {"ins_lock", "ins_push", "ins_unlock"}
        /\ pc'[Thermal] \in {"ins_push", "ins_unlock", "release", "clear", "returned"}
    BY <1>0, <1>18, InsertSlot
  <2>2. ~Preempting(c) /\ ~Preempting(c)'
    BY <2>1 DEF Preempting
  <2>3. LockedQueue(c)' <=> LockedQueue(c)
    BY <2>1 DEF LockedQueue
  <2> QED BY <1>0, <1>1, <2>1, <2>2, <2>3 DEF SlotsKept, One
<1> HIDE DEF Good
<1> QED BY <1>4, <1>5, <1>6, <1>8, <1>9, <1>10, <1>11, <1>12, <1>13, <1>14, <1>15, <1>16, <1>17,
           <1>18 DEF ThermalApproach, Good

LEMMA SlotStep ==
  ASSUME TypeOK, TypeOK', JobLock, SlotInv, NEW t \in Thread, StepOf(t)
  PROVE  SlotInv'
<1>0. \A c \in Core : /\ taskqueue_sem[c] \in Nat /\ taskqueue_sem'[c] \in Nat
                      /\ Cardinality(Inserting(c)) \in Nat /\ Cardinality(Inserting(c)') \in Nat
                      /\ Cardinality(Inserting(c)) + One(Inserts(t, c)')
                           = Cardinality(Inserting(c)') + One(Inserts(t, c))
  BY InsertingStep DEF TypeOK
<1>1. ASSUME NEW c \in Core, SlotsKept(t, c), UNCHANGED running
      PROVE  taskqueue_sem'[c] + Cardinality(Inserting(c)') + One(Loads(c)')
                + One(LockedQueue(c)') + One(Preempting(c)') = IF running' THEN 2 ELSE 4
  <2>1. taskqueue_sem[c] + Cardinality(Inserting(c)) + One(Loads(c))
          + One(LockedQueue(c)) + One(Preempting(c)) = IF running THEN 2 ELSE 4
    BY DEF SlotInv, QueueSlots, Loads
  <2> QED BY <1>0, <1>1, <2>1 DEF SlotsKept, One
<1>2. ASSUME \A c \in Core : SlotsKept(t, c), UNCHANGED running
      PROVE  QueueSlots'
  BY <1>1, <1>2 DEF QueueSlots, Loads
<1>3. 0 \in Core /\ Main \in Thread /\ Thermal \in Thread /\ Main # Thermal /\ pc \in [Thread -> Label]
  BY Threads DEF TypeOK
<1>4. CASE t \notin Stopper
  <2>1. (\A c \in Core : SlotsKept(t, c)) /\ UNCHANGED running
    BY <1>3, <1>4, SlotDispatcher, SlotWorker, Threads DEF StepOf
  <2>2. pc'[Main] = pc[Main] /\ pc'[Thermal] = pc[Thermal] /\ UNCHANGED call
    BY <1>3, <1>4, OthersStay, ThermalKeeps, Threads DEF Stays
  <2> QED BY <1>2, <2>1, <2>2 DEF SlotInv
<1>5. CASE t = Thermal
  <2>1. /\ \A c \in Core : SlotsKept(t, c)
        /\ UNCHANGED running
        /\ pc'[Thermal] = "preempt_insert" => call'.op = "preempt"
    BY <1>3, <1>5, SlotThermal, Threads DEF StepOf
  <2>2. pc'[Main] = pc[Main]
    BY <1>3, <1>5, OthersStay DEF Stays
  <2> QED BY <1>2, <2>1, <2>2 DEF SlotInv
<1>6. CASE t = Main
  <2>1. pc'[Thermal] = pc[Thermal] /\ UNCHANGED call
    BY <1>3, <1>6, OthersStay, ThermalKeeps DEF Stays
  <2>2. CASE Join
    <3>1. (\A c \in Core : SlotsKept(t, c)) /\ UNCHANGED running
      BY <1>3, <1>6, <2>2, SlotMain
    <3>2. pc[Main] # "sleep" /\ pc'[Main] # "sleep"
      BY <1>3, <2>2 DEF Join, JoinThreads, JoinWorker, JoinWait, StopCurrentJob, StopLock,
                        StopPost, StopWait, Goto, AfterStop
    <3> QED BY <1>2, <2>1, <3>1, <3>2 DEF SlotInv
  <2>3. CASE EndRun
    <3>1. pc[Main] = "sleep" /\ pc'[Main] # "sleep" /\ running' = FALSE /\ running = TRUE
      BY <1>3, <2>3 DEF EndRun, Goto, SlotInv, TypeOK
    <3>2. ASSUME NEW c \in Core
          PROVE  taskqueue_sem'[c] + Cardinality(Inserting(c)') + One(Loads(c)')
                   + One(LockedQueue(c)') + One(Preempting(c)') = 4
      <4>1. /\ Cardinality(Inserting(c)') = Cardinality(Inserting(c))
            /\ taskqueue_sem'[c] = taskqueue_sem[c] + 2
            /\ Loads(c)' <=> Loads(c)
        BY <2>3, SlotMain
      <4>2. (LockedQueue(c)' <=> LockedQueue(c)) /\ (Preempting(c)' <=> Preempting(c))
        BY <1>3, <1>6, ThermalKeeps
      <4>3. taskqueue_sem[c] + Cardinality(Inserting(c)) + One(Loads(c))
              + One(LockedQueue(c)) + One(Preempting(c)) = 2
        BY <3>1 DEF SlotInv, QueueSlots, Loads
      <4> QED BY <1>0, <4>1, <4>2, <4>3 DEF One
    <3>3. QueueSlots'
      BY <3>1, <3>2 DEF QueueSlots, Loads
    <3> QED BY <2>1, <3>1, <3>3 DEF SlotInv
  <2> QED BY <1>3, <1>6, <2>2, <2>3, Threads DEF StepOf
<1> QED BY <1>4, <1>5, <1>6 DEF Stopper

LEMMA SlotInit == Init => SlotInv
<1> SUFFICES ASSUME Init PROVE SlotInv
  OBVIOUS
<1>1. \A t \in Thread : pc[t] \in {"release", "sleep", "loop"}
  BY DEF Init
<1>2. pc[Main] = "sleep" /\ pc[Thermal] = "loop" /\ running = TRUE /\ locked = FALSE
  BY Threads DEF Init
<1>3. ASSUME NEW c \in Core
      PROVE  /\ Cardinality(Inserting(c)) = 0 /\ ~Loads(c) /\ ~LockedQueue(c) /\ ~Preempting(c)
             /\ taskqueue_sem[c] = 2
  <2>1. Inserting(c) = {}
    BY <1>1 DEF Inserting
  <2> QED BY <1>1, <1>2, <2>1, Threads, FS_EmptySet DEF Loads, LockedQueue, Preempting, Init
<1>4. QueueSlots
  BY <1>2, <1>3 DEF QueueSlots, Loads, One
<1> QED BY <1>2, <1>4 DEF SlotInv

LEMMA SlotInvariant == Spec => []SlotInv
<1>1. TypeOK /\ TypeOK' /\ JobLock /\ SlotInv /\ [Next]_vars => SlotInv'
  <2> SUFFICES ASSUME TypeOK, TypeOK', JobLock, SlotInv, [Next]_vars PROVE SlotInv'
    OBVIOUS
  <2>1. CASE UNCHANGED vars
    BY <2>1 DEF vars, SlotInv, QueueSlots, Inserting, LockedQueue, Preempting, processorVars,
                carryVars, stopVars, userVars
  <2>2. ASSUME NEW t \in Thread, StepOf(t) PROVE SlotInv'
    BY <2>2, SlotStep
  <2> QED BY <2>1, <2>2, EveryStep
<1> QED BY <1>1, SlotInit, TypeInvariant, JobLockInvariant, PTL DEF Spec

(* No unit of a task queue is lost and none is made but the two of the end  *)
(* of the run, for any number of threads that insert, load, give up,        *)
(* preempt and lock at the same time: preemptCurrentJobOnCore gives back a  *)
(* unit only if its sem_trywait got one, and tryLoadJob gives its unit back *)
(* on the time-out of the job count.                                        *)
THEOREM SlotsConserved == Spec => []QueueSlots
<1>1. SlotInv => QueueSlots
  BY DEF SlotInv
<1> QED BY <1>1, SlotInvariant, PTL

-----------------------------------------------------------------------------
(* The tokens of jobnumber_sems, for the CMI calls that leave the queues to *)
(* insertJobToQueue and tryLoadJob (taskMigrate and lockAllJobs).  A step   *)
(* keeps the difference of tokens and announced jobs, but for the two units *)
(* of the end of the run, and the one that a worker uses up on an empty     *)
(* queue afterwards.                                                        *)

Posts(t, c) == pc[t] = "ins_unlock" /\ dest[t] = c
Takes(c)    == pc[c] = "load_pop"

(* insertJobToQueue is never called with a NULL job, which it would announce*)
(* without queueing it.                                                     *)
TokenInv == /\ TokensMatchJobs
            /\ \A t \in Thread : pc[t] \in {"ins_lock", "ins_push"} => hand[t] # NoJob
            /\ pc[Thermal] \notin {"preempt_insert", "reinsert"} /\ call.op # "preempt"

Balanced(t, c) ==
  jobnumber_sem'[c] + One(Takes(c)') + One(Posts(t, c)') + Len(queue[c])
    = jobnumber_sem[c] + One(Takes(c)) + One(Posts(t, c)) + Len(queue'[c])

(* tryLoadJob pops from an empty queue. *)
PopsNothing(t, c) ==
  /\ t = c /\ Takes(c) /\ ~Takes(c)' /\ ~Posts(c, c) /\ ~Posts(c, c)' /\ Len(queue[c]) = 0
  /\ jobnumber_sem'[c] = jobnumber_sem[c] /\ queue'[c] = queue[c]

LEMMA PostingStep ==
  ASSUME TypeOK, NEW t \in Thread, StepOf(t), NEW c \in Core
  PROVE  /\ Cardinality(Posting(c)) + One(Posts(t, c)') = Cardinality(Posting(c)') + One(Posts(t, c))
         /\ Cardinality(Posting(c)) \in Nat /\ Cardinality(Posting(c)') \in Nat
<1>1. \A u \in Thread \ {t} : pc'[u] = pc[u] /\ dest'[u] = dest[u]
  BY OthersStay, DestStays DEF Stays
<1>2. Posting(c) = {u \in Thread : Posts(u, c)}
  BY DEF Posting, Posts
<1>3. Posting(c)' = {u \in Thread : Posts(u, c)'}
  BY DEF Posting, Posts
<1>4. Posting(c) \ {t} = Posting(c)' \ {t}
  BY <1>1, <1>2, <1>3 DEF Posts
<1>5. Posting(c) \in SUBSET Thread /\ Posting(c)' \in SUBSET Thread
  BY <1>2, <1>3
<1>6. (t \in Posting(c) <=> Posts(t, c)) /\ (t \in Posting(c)' <=> Posts(t, c)')
  BY <1>2, <1>3
<1>7. One(t \in Posting(c)) = One(Posts(t, c)) /\ One(t \in Posting(c)') = One(Posts(t, c)')
  BY <1>6 DEF One
<1> QED BY <1>4, <1>5, <1>7, SizeStep, ThreadsFinite

LEMMA InsertToken ==
  ASSUME TypeOK, TokenInv, NEW t \in Thread, InsertJobToQueue(t), NEW c \in Core,
         Takes(c)' <=> Takes(c)
  PROVE  /\ Balanced(t, c) /\ UNCHANGED <<running, call>>
         /\ pc'[t] \in {"ins_lock", "ins_push"} => hand'[t] # NoJob
         /\ pc'[t] \notin {"preempt_insert", "reinsert"}
<1>0. /\ jobnumber_sem \in [Core -> Nat] /\ dest \in [Thread -> Core] /\ pc \in [Thread -> Label]
      /\ queue \in [Core -> Seq(Job)] /\ hand \in [Thread -> MaybeJob]
      /\ jobnumber_sem[c] \in Nat /\ dest[t] \in Core /\ queue[c] \in Seq(Job) /\ Len(queue[c]) \in Nat
  BY DEF TypeOK
<1> USE DEF carryVars, userVars, Goto
<1>1. CASE InsertLock(t)
  <2>1. /\ pc[t] = "ins_lock" /\ pc'[t] = "ins_push"
        /\ UNCHANGED <<jobnumber_sem, queue, hand, running, call>>
    BY <1>0, <1>1 DEF InsertLock
  <2>2. ~Posts(t, c) /\ ~Posts(t, c)'
    BY <2>1 DEF Posts
  <2> QED BY <2>1, <2>2 DEF Balanced, TokenInv, One
<1>2. CASE InsertPush(t)
  <2>1. /\ pc[t] = "ins_push" /\ pc'[t] = "ins_unlock" /\ hand[t] # NoJob
        /\ queue' = [queue EXCEPT ![dest[t]] = Append(@, hand[t])]
        /\ UNCHANGED <<jobnumber_sem, dest, running, call>>
    BY <1>0, <1>2 DEF InsertPush, insertJob, TokenInv
  <2>2. ~Posts(t, c) /\ (Posts(t, c)' <=> dest[t] = c)
    BY <2>1 DEF Posts
  <2>3. hand[t] \in Job
    BY <1>0, <2>1 DEF MaybeJob
  <2>4. Len(queue'[c]) = IF dest[t] = c THEN Len(queue[c]) + 1 ELSE Len(queue[c])
    BY <1>0, <2>1, <2>3
  <2>5. One(Posts(t, c)') = (IF dest[t] = c THEN 1 ELSE 0) /\ One(Posts(t, c)) = 0
    BY <2>2 DEF One
  <2>6. One(Takes(c)') = One(Takes(c)) /\ One(Takes(c)) \in Nat /\ jobnumber_sem'[c] = jobnumber_sem[c]
    BY <2>1 DEF One
  <2>7. Balanced(t, c)
    BY <1>0, <2>4, <2>5, <2>6 DEF Balanced
  <2> QED BY <2>1, <2>7
<1>3. CASE InsertUnlock(t)
  <2>1. /\ pc[t] = "ins_unlock" /\ pc'[t] \in {"release", "clear", "returned"}
        /\ jobnumber_sem' = [jobnumber_sem EXCEPT ![dest[t]] = @ + 1]
        /\ UNCHANGED <<queue, running, call>>
    BY <1>0, <1>3 DEF InsertUnlock, Up, AfterInsert
  <2>2. ~Posts(t, c)' /\ (Posts(t, c) <=> dest[t] = c)
    BY <2>1 DEF Posts
  <2>3. jobnumber_sem'[c] = IF dest[t] = c THEN jobnumber_sem[c] + 1 ELSE jobnumber_sem[c]
    BY <1>0, <2>1
  <2> QED BY <1>0, <2>1, <2>2, <2>3 DEF Balanced, One
<1> QED BY <1>1, <1>2, <1>3 DEF InsertJobToQueue

LEMMA TokenDispatcher ==
  ASSUME TypeOK, TokenInv, NEW t \in Dispatcher, DispatcherStep(t), NEW c \in Core
  PROVE  /\ Balanced(t, c) /\ UNCHANGED running
         /\ pc'[t] \in {"ins_lock", "ins_push"} => hand'[t] # NoJob
<1>0. /\ t \in Thread /\ t # c /\ t # Thermal /\ StepOf(t) /\ c \in Thread
      /\ pc \in [Thread -> Label] /\ hand \in [Thread -> MaybeJob]
      /\ jobCounter[t] \in 0..MaxJobs /\ MaxJobs \in Nat
  BY Threads, Assumed DEF StepOf, TypeOK, Assumptions
<1>1. Takes(c)' <=> Takes(c)
  BY <1>0, OthersStay DEF Stays, Takes
<1>2. CASE InsertJobToQueue(t)
  BY <1>0, <1>1, <1>2, InsertToken
<1> USE DEF processorVars, Goto
<1>3. CASE Release(t)
  <2>1. /\ UNCHANGED <<jobnumber_sem, queue, running>> /\ pc[t] = "release" /\ pc'[t] = "ins_lock"
        /\ hand'[t] = <<t, jobCounter[t] + 1>> /\ jobCounter[t] < MaxJobs
    BY <1>0, <1>3 DEF Release
  <2>2. <<t, jobCounter[t] + 1>> \in Job
    BY <1>0, <2>1 DEF Job
  <2>3. hand'[t] # NoJob
    BY <2>1, <2>2, Assumed DEF Assumptions
  <2>4. ~Posts(t, c) /\ ~Posts(t, c)'
    BY <2>1 DEF Posts
  <2> QED BY <1>1, <2>1, <2>3, <2>4 DEF Balanced, One
<1>4. CASE DispatcherExit(t)
  <2>1. /\ UNCHANGED <<jobnumber_sem, queue, running>> /\ pc[t] = "release" /\ pc'[t] = "exit"
    BY <1>0, <1>4 DEF DispatcherExit
  <2>2. ~Posts(t, c) /\ ~Posts(t, c)'
    BY <2>1 DEF Posts
  <2> QED BY <1>1, <2>1, <2>2 DEF Balanced, One
<1> QED BY <1>2, <1>3, <1>4 DEF DispatcherStep

LEMMA TokenWorker ==
  ASSUME TypeOK, WorkerInv, TokenInv, NEW w \in Core, Worker(w) \/ LoadTimeout(w), NEW c \in Core
  PROVE  /\ Balanced(w, c) \/ PopsNothing(w, c)
         /\ UNCHANGED running
         /\ pc'[w] \in {"ins_lock", "ins_push"} => hand'[w] # NoJob
<1>00. w \in Thread /\ StepOf(w) /\ c \in Thread
  BY Threads DEF StepOf
<1>0. /\ w \in Thread /\ StepOf(w) /\ c \in Thread /\ pc \in [Thread -> Label]
      /\ hand \in [Thread -> MaybeJob] /\ jobnumber_sem \in [Core -> Nat]
      /\ jobnumber_sem[c] \in Nat /\ queue \in [Core -> Seq(Job)]
      /\ queue[c] \in Seq(Job) /\ Len(queue[c]) \in Nat
  <2>1. pc \in [Thread -> Label] /\ hand \in [Thread -> MaybeJob]
    BY DEF TypeOK
  <2>2. jobnumber_sem \in [Core -> Nat] /\ queue \in [Core -> Seq(Job)]
    BY DEF TypeOK
  <2>3. queue[c] \in Seq(Job) /\ jobnumber_sem[c] \in Nat
    BY <2>2
  <2> QED BY <1>00, <2>1, <2>2, <2>3
<1>1. c # w => (Takes(c)' <=> Takes(c))
  BY <1>0, OthersStay DEF Stays, Takes
<1> USE DEF processorVars, Goto, carryVars
<1>2. CASE InsertJobToQueue(w)
  <2>1. Takes(c)' <=> Takes(c)
    <3>1. pc[w] # "load_pop" /\ pc'[w] # "load_pop"
      BY <1>0, <1>2, InsertSlot
    <3> QED BY <1>1, <3>1 DEF Takes
  <2> QED BY <1>0, <1>2, <2>1, InsertToken
(* A step that touches neither the queue nor its count. *)
<1>3. ASSUME UNCHANGED <<running, jobnumber_sem, queue>>,
             pc[w] \notin {"ins_unlock", "load_pop"}, pc'[w] \notin {"ins_unlock", "load_pop"}
      PROVE  Balanced(w, c) /\ UNCHANGED running
  <2>1. (Takes(c)' <=> Takes(c)) /\ ~Posts(w, c) /\ ~Posts(w, c)'
    BY <1>1, <1>3 DEF Takes, Posts
  <2> QED BY <1>3, <2>1 DEF Balanced, One
<1>4. CASE LoadLock(w) \/ LoadTimeout(w) \/ WorkerLoop(w) \/ Loaded(w) \/ SetJob(w) \/ ClearJob(w)
           \/ FireStopped(w) \/ FireWork(w)
  <2>1. /\ UNCHANGED <<running, jobnumber_sem, queue>>
        /\ pc[w] \notin {"ins_unlock", "load_pop"}
    BY <1>4 DEF LoadLock, LoadTimeout, WorkerLoop, Loaded, SetJob, ClearJob, FireStopped, FireWork
  <2>2. pc'[w] \notin {"ins_unlock", "load_pop", "ins_lock", "ins_push"}
    BY <1>0, <1>4 DEF LoadLock, LoadTimeout, WorkerLoop, Loaded, SetJob, ClearJob, FireStopped,
                      FireWork
  <2> QED BY <1>3, <2>1, <2>2
<1>5. CASE FireComplete(w)
  <2>1. /\ UNCHANGED <<running, jobnumber_sem, queue>> /\ pc[w] = "fire"
    BY <1>5 DEF FireComplete
  <2>2. pc'[w] = "clear" \/ (pc'[w] = "ins_lock" /\ hand'[w] = current_job[w])
    <3>1. CASE finished'[current_job[w]]
      BY <1>0, <1>5, <3>1 DEF FireComplete
    <3>2. CASE ~finished'[current_job[w]]
      BY <1>0, <1>5, <3>2 DEF FireComplete
    <3> QED BY <3>1, <3>2
  <2>3. current_job[w] # NoJob
    BY <2>1 DEF WorkerInv
  <2> QED BY <1>3, <2>1, <2>2, <2>3
<1>6. CASE LoadNumber(w)
  <2>1. /\ UNCHANGED <<running, queue>> /\ pc[w] = "load_number" /\ pc'[w] = "load_pop"
        /\ jobnumber_sem' = [jobnumber_sem EXCEPT ![w] = @ - 1]
    BY <1>0, <1>6 DEF LoadNumber, Down
  <2>2. ~Posts(w, c) /\ ~Posts(w, c)'
    BY <2>1 DEF Posts
  <2>3. jobnumber_sem'[c] + One(Takes(c)') = jobnumber_sem[c] + One(Takes(c))
    <3>1. CASE c = w
      BY <1>0, <2>1, <3>1 DEF Takes, One
    <3>2. CASE c # w
      BY <1>0, <1>1, <2>1, <3>2 DEF One
    <3> QED BY <3>1, <3>2
  <2> QED BY <1>0, <2>1, <2>2, <2>3 DEF Balanced, One
<1>7. CASE LoadPop(w)
  <2>1. /\ UNCHANGED <<running, jobnumber_sem>> /\ pc[w] = "load_pop" /\ pc'[w] = "loaded"
        /\ queue' = [queue EXCEPT ![w] = pop_front(@)]
    BY <1>0, <1>7 DEF LoadPop
  <2>2. ~Posts(w, c) /\ ~Posts(w, c)' /\ jobnumber_sem'[c] = jobnumber_sem[c]
    BY <2>1 DEF Posts
  <2>3. CASE c # w
    <3>1. queue'[c] = queue[c] /\ (Takes(c)' <=> Takes(c))
      BY <1>0, <1>1, <2>1, <2>3
    <3> QED BY <2>1, <2>2, <3>1 DEF Balanced, One
  <2>4. CASE c = w /\ queue[c] = << >>
    <3>1. queue'[c] = queue[c] /\ Takes(c) /\ ~Takes(c)' /\ Len(queue[c]) = 0
      BY <1>0, <2>1, <2>4 DEF Takes, pop_front
    <3> QED BY <2>1, <2>2, <2>4, <3>1 DEF PopsNothing
  <2>5. CASE c = w /\ queue[c] # << >>
    <3>1. Takes(c) /\ ~Takes(c)' /\ queue'[c] = Tail(queue[c])
      BY <1>0, <2>1, <2>5 DEF Takes, pop_front
    <3>2. Len(queue'[c]) = Len(queue[c]) - 1
      BY <1>0, <2>5, <3>1
    <3>3. One(Takes(c)) = 1 /\ One(Takes(c)') = 0 /\ One(Posts(w, c)) = 0 /\ One(Posts(w, c)') = 0
      BY <2>2, <3>1 DEF One
    <3> QED BY <1>0, <2>1, <2>2, <3>2, <3>3 DEF Balanced
  <2> QED BY <2>1, <2>3, <2>4, <2>5
<1> QED BY <1>2, <1>4, <1>5, <1>6, <1>7 DEF Worker

LEMMA TokenThermal ==
  ASSUME UserCalls \cap {"preempt", "advance", "move"} = {},
         TypeOK, TokenInv, ThermalApproach, NEW c \in Core
  PROVE  /\ Balanced(Thermal, c) /\ UNCHANGED running
         /\ pc'[Thermal] \in {"ins_lock", "ins_push"} => hand'[Thermal] # NoJob
         /\ pc'[Thermal] \notin {"preempt_insert", "reinsert"} /\ call'.op # "preempt"
<1>0. /\ Thermal \in Thread /\ Thermal # Main /\ Thermal \notin Dispatcher /\ Thermal \notin Core
      /\ StepOf(Thermal) /\ c \in Thread /\ c # Thermal /\ pc \in [Thread -> Label]
      /\ hand \in [Thread -> MaybeJob]
      /\ call \in [op : {"none", "migrate", "preempt", "reinsert"}, slot : BOOLEAN, position : Nat]
  BY Threads DEF StepOf, TypeOK
<1>1. Takes(c)' <=> Takes(c)
  BY <1>0, OthersStay DEF Stays, Takes
<1>2. call.op # "preempt" /\ pc[Thermal] \notin {"preempt_insert", "reinsert"}
  BY DEF TokenInv
<1> USE DEF Goto, processorVars, userVars, carryVars
<1> DEFINE Good == /\ Balanced(Thermal, c) /\ UNCHANGED running
                   /\ pc'[Thermal] \in {"ins_lock", "ins_push"} => hand'[Thermal] # NoJob
                   /\ pc'[Thermal] \notin {"preempt_insert", "reinsert"} /\ call'.op # "preempt"
<1>3. ASSUME UNCHANGED <<running, jobnumber_sem, queue>>, pc[Thermal] # "ins_unlock",
             pc'[Thermal] \notin {"ins_unlock", "ins_push", "preempt_insert", "reinsert"},
             pc'[Thermal] = "ins_lock" => hand'[Thermal] # NoJob,
             call'.op # "preempt"
      PROVE  Good
  <2>1. ~Posts(Thermal, c) /\ ~Posts(Thermal, c)'
    BY <1>3 DEF Posts
  <2> QED BY <1>1, <1>3, <2>1 DEF Balanced, One
<1> HIDE DEF Good
<1>4. CASE ThermalLoop \/ ThermalReturn \/ LockAllJobs \/ LockTaskQueue \/ LockCurrentJob
           \/ UnlockAllJobs
  <2>1. UNCHANGED <<running, jobnumber_sem, queue, call>> /\ pc[Thermal] # "ins_unlock"
    BY <1>4 DEF ThermalLoop, ThermalReturn, LockAllJobs, LockTaskQueue, LockCurrentJob,
                UnlockAllJobs
  <2>2. pc'[Thermal] \in {"call", "exit", "loop", "lock_queue", "lock_job"}
    BY <1>0, <1>4 DEF ThermalLoop, ThermalReturn, LockAllJobs, LockTaskQueue, LockCurrentJob,
                      UnlockAllJobs
  <2> QED BY <1>2, <1>3, <2>1, <2>2 DEF Good
<1>5. CASE CallReturns
  <2>1. /\ UNCHANGED <<running, jobnumber_sem, queue>> /\ pc[Thermal] = "returned"
        /\ pc'[Thermal] = "call" /\ call'.op = "none"
    BY <1>0, <1>5 DEF CallReturns, NoCall
  <2> QED BY <1>3, <2>1 DEF Good
<1>6. ASSUME NEW a, NEW b, TaskMigrate(a, b) PROVE Good
  <2>1. /\ UNCHANGED <<running, jobnumber_sem, queue>> /\ pc[Thermal] = "call"
        /\ pc'[Thermal] = "stop_lock" /\ call'.op = "migrate"
    BY <1>0, <1>6 DEF TaskMigrate, NoCall
  <2> QED BY <1>3, <2>1
(* The calls that touch the queues are not made. *)
<1>7. /\ \A b : ~Preempt(b)
      /\ \A b, p, n : ~AdvanceJobInQueue(b, p, n)
      /\ \A a, b, p, q : ~MoveJobToAnotherQueue(a, p, b, q)
      /\ ~PreemptInsert /\ ~Reinsert
  BY <1>2 DEF Preempt, AdvanceJobInQueue, MoveJobToAnotherQueue, PreemptInsert, Reinsert
<1>8. CASE StopCurrentJob(Thermal)
  <2>1. UNCHANGED <<running, jobnumber_sem, queue, call>> /\ pc[Thermal] # "ins_unlock"
    BY <1>8 DEF StopCurrentJob, StopLock, StopPost, StopWait
  <2>2. CASE StopLock(Thermal)
    <3>1. pc'[Thermal] \in {"returned", "stop_post"}
      BY <1>0, <1>2, <2>2 DEF StopLock, AfterStop
    <3> QED BY <1>2, <1>3, <2>1, <3>1 DEF Good
  <2>3. CASE StopPost(Thermal)
    <3>1. pc'[Thermal] = "stop_wait"
      BY <1>0, <2>3 DEF StopPost
    <3> QED BY <1>2, <1>3, <2>1, <3>1 DEF Good
  <2>4. CASE StopWait(Thermal)
    <3>1. pc'[Thermal] = AfterStop(Thermal, victim[Thermal]) /\ hand'[Thermal] = victim[Thermal]
      BY <1>0, <2>4 DEF StopWait
    <3>2. pc'[Thermal] = "returned" \/ (pc'[Thermal] = "ins_lock" /\ hand'[Thermal] # NoJob)
      <4>1. CASE victim[Thermal] = NoJob
        BY <1>0, <1>2, <3>1, <4>1 DEF AfterStop
      <4>2. CASE victim[Thermal] # NoJob
        BY <1>0, <1>2, <3>1, <4>2 DEF AfterStop
      <4> QED BY <4>1, <4>2
    <3> QED BY <1>2, <1>3, <2>1, <3>2 DEF Good
  <2> QED BY <1>8, <2>2, <2>3, <2>4 DEF StopCurrentJob
<1>9. CASE InsertJobToQueue(Thermal)
  <2>1. /\ Balanced(Thermal, c) /\ UNCHANGED <<running, call>>
        /\ pc'[Thermal] \in {"ins_lock", "ins_push"} => hand'[Thermal] # NoJob
        /\ pc'[Thermal] \notin {"preempt_insert", "reinsert"}
    BY <1>0, <1>1, <1>9, InsertToken
  <2> QED BY <1>2, <2>1
<1> QED BY <1>4, <1>5, <1>6, <1>7, <1>8, <1>9 DEF ThermalApproach, Good

LEMMA TokenMain ==
  ASSUME TypeOK, NEW c \in Core, EndRun \/ Join
  PROVE  /\ Join => Balanced(Main, c) /\ UNCHANGED running
         /\ EndRun => /\ jobnumber_sem'[c] = jobnumber_sem[c] + 2 /\ queue'[c] = queue[c]
                      /\ One(Takes(c)') = One(Takes(c))
                      /\ Cardinality(Posting(c)') = Cardinality(Posting(c))
         /\ pc'[Main] \notin {"ins_lock", "ins_push"}
<1>0. /\ Main \in Thread /\ c \in Thread /\ c # Main /\ Main # Thermal /\ StepOf(Main)
      /\ pc \in [Thread -> Label]
  BY Threads DEF StepOf, TypeOK
<1>1. Takes(c)' <=> Takes(c)
  BY <1>0, OthersStay DEF Stays, Takes
<1>2. pc[Main] \notin {"ins_lock", "ins_push", "ins_unlock"}
  BY DEF EndRun, Join, JoinThreads, JoinWorker, JoinWait, StopCurrentJob, StopLock, StopPost,
         StopWait
<1>3. pc'[Main] \notin {"ins_lock", "ins_push", "ins_unlock"}
  BY <1>0 DEF EndRun, Join, JoinThreads, JoinWorker, JoinWait, StopCurrentJob, StopLock, StopPost,
         StopWait, Goto, AfterStop
<1>4. ~Posts(Main, c) /\ ~Posts(Main, c)'
  BY <1>2, <1>3 DEF Posts
<1>5. Join => UNCHANGED <<running, jobnumber_sem, queue>>
  BY DEF Join, JoinThreads, JoinWorker, JoinWait, StopCurrentJob, StopLock, StopPost, StopWait,
         processorVars
<1>6. EndRun => jobnumber_sem'[c] = jobnumber_sem[c] + 2 /\ queue'[c] = queue[c]
  BY DEF EndRun, UpAll
<1>7. Cardinality(Posting(c)') = Cardinality(Posting(c))
  BY <1>0, <1>4, PostingStep DEF One
<1> QED BY <1>1, <1>3, <1>4, <1>5, <1>6, <1>7 DEF Balanced, One

(* What a step does to the count of one core. *)
LEMMA TokenCount ==
  ASSUME TypeOK, TypeOK', TokensMatchJobs, NEW t \in Thread, StepOf(t), NEW c \in Core,
         Balanced(t, c) \/ PopsNothing(t, c), UNCHANGED running
  PROVE  LET tokens    == jobnumber_sem'[c] + One(Takes(c)')
             announced == Len(queue'[c]) - Cardinality(Posting(c)')
         IN  IF running' THEN tokens = announced ELSE tokens \in announced..(announced + 2)
<1> DEFINE n == jobnumber_sem[c]  nn == jobnumber_sem'[c]
           l == Len(queue[c])     ll == Len(queue'[c])
           p == Cardinality(Posting(c))  pp == Cardinality(Posting(c)')
           k == One(Takes(c))     kk == One(Takes(c)')
           b == One(Posts(t, c))  bb == One(Posts(t, c)')
<1>1. n \in Nat /\ nn \in Nat
  BY DEF TypeOK
<1>2. l \in Nat /\ ll \in Nat
  <2>1. queue[c] \in Seq(Job) /\ queue'[c] \in Seq(Job)
    BY DEF TypeOK
  <2> QED BY <2>1
<1>3. p \in Nat /\ pp \in Nat /\ p + bb = pp + b
  BY PostingStep
<1>4. k \in {0, 1} /\ kk \in {0, 1} /\ b \in {0, 1} /\ bb \in {0, 1}
  BY DEF One
<1>5. IF running THEN n + k = l - p ELSE n + k \in (l - p)..(l - p + 2)
  BY DEF TokensMatchJobs, Takes
<1>6. running' = running
  OBVIOUS
<1>7. CASE Balanced(t, c)
  <2>1. nn + kk + bb + l = n + k + b + ll
    BY <1>7 DEF Balanced
  <2> HIDE DEF n, nn, l, ll, p, pp, k, kk, b, bb
  <2>2. IF running' THEN nn + kk = ll - pp ELSE nn + kk \in (ll - pp)..(ll - pp + 2)
    BY <1>1, <1>2, <1>3, <1>4, <1>5, <1>6, <2>1
  <2> QED BY <2>2 DEF nn, ll, pp, kk
<1>8. CASE PopsNothing(t, c)
  <2>1. nn = n /\ k = 1 /\ kk = 0 /\ b = 0 /\ bb = 0 /\ l = 0 /\ ll = 0
    BY <1>8 DEF PopsNothing, One
  <2> HIDE DEF n, nn, l, ll, p, pp, k, kk, b, bb
  <2>2. IF running' THEN nn + kk = ll - pp ELSE nn + kk \in (ll - pp)..(ll - pp + 2)
    BY <1>1, <1>2, <1>3, <1>4, <1>5, <1>6, <2>1
  <2> QED BY <2>2 DEF nn, ll, pp, kk
<1> QED BY <1>7, <1>8

LEMMA TokenStep ==
  ASSUME UserCalls \cap {"preempt", "advance", "move"} = {},
         TypeOK, TypeOK', WorkerInv, SlotInv, TokenInv, NEW t \in Thread, StepOf(t)
  PROVE  TokenInv'
<1>1. ASSUME \A c \in Core : Balanced(t, c) \/ PopsNothing(t, c), UNCHANGED running
      PROVE  TokensMatchJobs'
  BY <1>1, TokenCount DEF TokensMatchJobs, Takes, TokenInv
<1>2. ASSUME pc'[t] \in {"ins_lock", "ins_push"} => hand'[t] # NoJob
      PROVE  \A u \in Thread : pc'[u] \in {"ins_lock", "ins_push"} => hand'[u] # NoJob
  BY <1>2, OthersStay DEF Stays, TokenInv
<1>3. t # Thermal => /\ pc'[Thermal] \notin {"preempt_insert", "reinsert"}
                     /\ call'.op # "preempt"
  <2> SUFFICES ASSUME t # Thermal
               PROVE  pc'[Thermal] = pc[Thermal] /\ call' = call
    BY DEF TokenInv
  <2>1. Thermal \in Thread /\ 0 \in Core
    BY Threads
  <2> QED BY <2>1, OthersStay, ThermalKeeps DEF Stays
<1>4. CASE t \in Dispatcher
  <2>1. DispatcherStep(t)
    BY <1>4, Threads DEF StepOf
  <2>2. (\A c \in Core : Balanced(t, c)) /\ UNCHANGED running
        /\ (pc'[t] \in {"ins_lock", "ins_push"} => hand'[t] # NoJob) /\ t # Thermal
    BY <1>4, <2>1, TokenDispatcher, Threads
  <2> QED BY <1>1, <1>2, <1>3, <2>2 DEF TokenInv
<1>5. CASE t \in Core
  <2>1. Worker(t) \/ LoadTimeout(t)
    BY <1>5, Threads DEF StepOf
  <2>2. (\A c \in Core : Balanced(t, c) \/ PopsNothing(t, c)) /\ UNCHANGED running
        /\ (pc'[t] \in {"ins_lock", "ins_push"} => hand'[t] # NoJob) /\ t # Thermal
    BY <1>5, <2>1, TokenWorker, Threads
  <2> QED BY <1>1, <1>2, <1>3, <2>2 DEF TokenInv
<1>6. CASE t = Thermal
  <2>1. ThermalApproach
    BY <1>6, Threads DEF StepOf
  <2>2. /\ \A c \in Core : Balanced(t, c)
        /\ UNCHANGED running
        /\ pc'[t] \in {"ins_lock", "ins_push"} => hand'[t] # NoJob
        /\ pc'[Thermal] \notin {"preempt_insert", "reinsert"} /\ call'.op # "preempt"
    BY <1>6, <2>1, TokenThermal, Threads
  <2> QED BY <1>1, <1>2, <2>2 DEF TokenInv
<1>7. CASE t = Main
  <2>1. EndRun \/ Join
    BY <1>7, Threads DEF StepOf
  <2>2. t # Thermal /\ pc'[t] \notin {"ins_lock", "ins_push"}
    BY <1>7, <2>1, TokenMain, Threads
  <2>3. CASE Join
    <3>1. (\A c \in Core : Balanced(t, c)) /\ UNCHANGED running
      BY <1>7, <2>3, TokenMain, Threads
    <3> QED BY <1>1, <1>2, <1>3, <2>2, <3>1 DEF TokenInv
  <2>4. CASE EndRun
    <3>1. running = TRUE /\ running' = FALSE
      BY <2>4 DEF EndRun, SlotInv, TypeOK
    <3>2. ASSUME NEW c \in Core
          PROVE  LET announced == Len(queue'[c]) - Cardinality(Posting(c)')
                 IN  jobnumber_sem'[c] + One(Takes(c)') \in announced..(announced + 2)
      <4>1. /\ jobnumber_sem'[c] = jobnumber_sem[c] + 2 /\ queue'[c] = queue[c]
            /\ One(Takes(c)') = One(Takes(c)) /\ Cardinality(Posting(c)') = Cardinality(Posting(c))
        BY <2>4, TokenMain
      <4>2. jobnumber_sem[c] + One(Takes(c)) = Len(queue[c]) - Cardinality(Posting(c))
        BY <3>1 DEF TokenInv, TokensMatchJobs, Takes
      <4>3. queue[c] \in Seq(Job) /\ jobnumber_sem[c] \in Nat
        BY DEF TypeOK
      <4>4. Cardinality(Posting(c)) \in Nat /\ One(Takes(c)) \in Nat /\ Len(queue[c]) \in Nat
        BY <4>3, PostingStep DEF One
      <4> QED BY <4>1, <4>2, <4>3, <4>4
    <3>3. TokensMatchJobs'
      BY <3>1, <3>2 DEF TokensMatchJobs, Takes
    <3> QED BY <1>2, <1>3, <2>2, <3>3 DEF TokenInv
  <2> QED BY <2>1, <2>3, <2>4
<1> QED BY <1>4, <1>5, <1>6, <1>7 DEF Thread, Stopper

LEMMA TokenInit == Init => TokenInv
<1> SUFFICES ASSUME Init PROVE TokenInv
  OBVIOUS
<1>1. \A t \in Thread : pc[t] \in {"release", "sleep", "loop"}
  BY DEF Init
<1>2. running = TRUE /\ pc[Thermal] = "loop" /\ call.op = "none"
  BY Threads DEF Init, NoCall
<1>3. ASSUME NEW c \in Core
      PROVE  Cardinality(Posting(c)) = 0 /\ ~Takes(c) /\ jobnumber_sem[c] = 0 /\ Len(queue[c]) = 0
  <2>1. Posting(c) = {}
    BY <1>1 DEF Posting
  <2> QED BY <1>1, <2>1, Threads, FS_EmptySet DEF Takes, Init
<1>4. TokensMatchJobs
  BY <1>2, <1>3 DEF TokensMatchJobs, Takes, One
<1> QED BY <1>1, <1>2, <1>4 DEF TokenInv

(* As long as the user's approach makes none of the three calls that touch  *)
(* a queue without its count, a worker that gets a token of jobnumber_sems  *)
(* finds a job: no insertion is announced before the job is there or        *)
(* without a job, and no time-out uses a token up.                          *)
THEOREM TokensBackedByJobs ==
  ASSUME UserCalls \cap {"preempt", "advance", "move"} = {}
  PROVE  Spec => []TokensMatchJobs
<1>1. TypeOK /\ TypeOK' /\ WorkerInv /\ SlotInv /\ TokenInv /\ [Next]_vars => TokenInv'
  <2> SUFFICES ASSUME TypeOK, TypeOK', WorkerInv, SlotInv, TokenInv, [Next]_vars PROVE TokenInv'
    OBVIOUS
  <2>1. CASE UNCHANGED vars
    BY <2>1 DEF vars, TokenInv, TokensMatchJobs, Posting, processorVars, carryVars, userVars
  <2>2. ASSUME NEW t \in Thread, StepOf(t) PROVE TokenInv'
    BY <2>2, TokenStep
  <2> QED BY <2>1, <2>2, EveryStep
<1>2. TokenInv => TokensMatchJobs
  BY DEF TokenInv
<1> QED BY <1>1, <1>2, TokenInit, TypeInvariant, SlotInvariant, PTL DEF Spec

-----------------------------------------------------------------------------
(* Nobody waits in a circle.                                                *)

(* Once the thermal approach has ended the job_sem of each core has a unit  *)
(* for its worker, and one more where main is about to take one; a worker   *)
(* at its end has left a unit of stop_sem to whoever stops it, unless it    *)
(* was stopped before and has no job for which anybody would wait.          *)
SpareInv ==
  ~ThermalLives => \A c \in Core :
    job_sem[c] >= IF pc[Main] = "stop_lock" /\ at[Main] = c THEN 2 ELSE 1

EndSignal(c) ==
  pc[c] = "exit" /\ stop_sem[c] = 0 =>
    current_job[c] = NoJob /\ ~(pc[Main] \in {"stop_post", "stop_wait"} /\ at[Main] = c)

WaitInv == SpareInv /\ \A c \in Core : EndSignal(c)

LEMMA SpareStep ==
  ASSUME TypeOK, JobLock, SpareInv, NEW t \in Thread, StepOf(t)
  PROVE  SpareInv'
<1>0. /\ Main \in Thread /\ Thermal \in Thread /\ Thermal # Main /\ Main \in Stopper
      /\ at[Main] \in Core /\ pc \in [Thread -> Label] /\ job_sem \in [Core -> Nat]
  BY Threads DEF TypeOK
<1>1. CASE t \notin Stopper
  <2>1. UNCHANGED job_sem /\ pc'[Main] = pc[Main] /\ at'[Main] = at[Main]
    BY <1>0, <1>1, WorkersKeepLocks, OthersStay, StopLocalsStay DEF Stays
  <2> QED BY <2>1 DEF SpareInv, ThermalLives
<1>2. CASE t = Thermal
  <2>1. ThermalApproach
    BY <1>2, Threads DEF StepOf
  <2>2. ThermalLives /\ pc'[Main] = pc[Main]
    BY <1>0, <1>2, <2>1, ThermalAlive, OthersStay DEF JobLock, Stays
  <2> QED BY <2>2 DEF SpareInv, ThermalLives
<1>3. CASE t = Main
  <2> USE DEF Goto, workerVars, ThermalLives
  <2>1. EndRun \/ Join
    BY <1>3, Threads DEF StepOf
  <2>2. CASE EndRun
    BY <1>0, <2>2 DEF EndRun, SpareInv
  <2>3. CASE JoinThreads
    <3>1. /\ UNCHANGED job_sem /\ pc'[Main] = "join_worker"
          /\ pc[Main] = "join_threads" /\ pc[Thermal] = "exit"
      BY <1>0, <2>3 DEF JoinThreads
    <3>2. \A c \in Core : ~HoldsJob(c)
      BY <3>1 DEF HoldsJob, JobLock, Unlocked
    <3>3. \A c \in Core : job_sem[c] = 1
      BY <3>1, <3>2 DEF JobLock
    <3> QED BY <3>1, <3>3 DEF SpareInv
  <2>4. CASE JoinWorker
    <3>1. /\ pc[Main] = "join_worker" /\ pc'[Main] = "stop_lock"
          /\ job_sem' = Up(job_sem, at[Main]) /\ UNCHANGED at
      BY <1>0, <2>4 DEF JoinWorker, stopVars
    <3>2. \A c \in Core : job_sem[c] >= 1
      BY <3>1 DEF SpareInv
    <3>3. \A c \in Core : job_sem'[c] = IF c = at[Main] THEN job_sem[c] + 1 ELSE job_sem[c]
      BY <1>0, <3>1 DEF Up
    <3>4. \A c \in Core : job_sem'[c] >= IF c = at[Main] THEN 2 ELSE 1
      BY <1>0, <3>2, <3>3
    <3> QED BY <3>1, <3>4 DEF SpareInv
  <2>5. CASE StopLock(Main)
    <3>1. /\ pc[Main] = "stop_lock" /\ pc'[Main] \in {"join_wait", "stop_post"}
          /\ job_sem' = job_sem \/ job_sem' = Down(job_sem, at[Main])
      BY <1>0, <2>5 DEF StopLock, AfterStop
    <3>2. \A c \in Core : job_sem[c] >= IF c = at[Main] THEN 2 ELSE 1
      BY <3>1 DEF SpareInv
    <3>3. \A c \in Core : job_sem'[c] >= 1
      BY <1>0, <3>1, <3>2 DEF Down
    <3> QED BY <3>1, <3>3 DEF SpareInv
  <2>6. CASE StopPost(Main)
    BY <1>0, <2>6 DEF StopPost, SpareInv
  <2>7. CASE StopWait(Main)
    <3>1. /\ pc[Main] = "stop_wait" /\ pc'[Main] = "join_wait"
          /\ job_sem' = Up(job_sem, at[Main])
      BY <1>0, <2>7 DEF StopWait, AfterStop
    <3>2. \A c \in Core : job_sem[c] >= 1
      BY <3>1 DEF SpareInv
    <3>3. \A c \in Core : job_sem'[c] >= 1
      BY <1>0, <3>1, <3>2 DEF Up
    <3> QED BY <3>1, <3>3 DEF SpareInv
  <2>8. CASE JoinWait
    <3>1. /\ pc[Main] = "join_wait" /\ pc'[Main] \in {"joined", "join_worker"}
          /\ UNCHANGED job_sem
      BY <1>0, <2>8 DEF JoinWait
    <3> QED BY <3>1 DEF SpareInv
  <2> QED BY <2>1, <2>2, <2>3, <2>4, <2>5, <2>6, <2>7, <2>8 DEF Join, StopCurrentJob
<1> QED BY <1>1, <1>2, <1>3 DEF Stopper

(* Where main is in stopCurrentJob after its step. *)
LEMMA MainStops ==
  ASSUME TypeOK, EndRun \/ Join, pc'[Main] \in {"stop_post", "stop_wait"}
  PROVE  /\ at'[Main] = at[Main]
         /\ \/ current_job[at[Main]] # NoJob
            \/ pc[Main] = "stop_post"
<1>0. Main \in Thread /\ pc \in [Thread -> Label]
  BY Threads DEF TypeOK
<1> USE DEF Goto, stopVars
<1>1. ~EndRun /\ ~JoinThreads /\ ~JoinWorker
  BY <1>0 DEF EndRun, JoinThreads, JoinWorker
<1>2. ~JoinWait
  <2>1. JoinWait => pc'[Main] \in {"joined", "join_worker"}
    BY <1>0 DEF JoinWait
  <2> QED BY <2>1
<1>3. CASE StopLock(Main)
  BY <1>0, <1>3 DEF StopLock, AfterStop
<1>4. CASE StopPost(Main)
  BY <1>4 DEF StopPost
<1>5. ~StopWait(Main)
  BY <1>0 DEF StopWait, AfterStop
<1> QED BY <1>1, <1>2, <1>3, <1>4, <1>5 DEF Join, StopCurrentJob

LEMMA EndSignalStep ==
  ASSUME TypeOK, JobLock, NEW t \in Thread, StepOf(t), NEW c \in Core, EndSignal(c)
  PROVE  EndSignal(c)'
<1>0. /\ Main \in Thread /\ Thermal \in Thread /\ Thermal # Main /\ Main \in Stopper
      /\ Thermal \in Stopper /\ c \in Thread /\ c \notin Stopper /\ at \in [Stopper -> Core]
      /\ stop_sem \in [Core -> Nat] /\ current_job \in [Core -> MaybeJob]
      /\ pc \in [Thread -> Label]
  BY Threads DEF TypeOK
<1>1. CASE t = c
  <2> SUFFICES ASSUME pc'[c] = "exit" PROVE stop_sem'[c] # 0
    BY DEF EndSignal
  <2>1. Worker(c) \/ LoadTimeout(c)
    BY <1>1, Threads DEF StepOf
  <2> USE DEF Goto
  <2>2. CASE WorkerLoop(c)
    <3>1. ~running /\ stop_sem' = Up(stop_sem, c)
      BY <1>0, <2>2 DEF WorkerLoop
    <3> QED BY <1>0, <3>1 DEF Up
  <2>3. CASE Loaded(c)
    <3>1. pc'[c] \in {"load_lock", "loop", "set_job"}
      BY <1>0, <2>3 DEF Loaded
    <3> QED BY <3>1
  <2>4. CASE InsertJobToQueue(c)
    BY <1>0, <2>4, Threads DEF InsertJobToQueue, InsertLock, InsertPush, InsertUnlock, AfterInsert
  <2>5. CASE FireComplete(c) \/ FireWork(c)
    BY <1>0, <2>5 DEF FireComplete, FireWork
  <2> QED BY <1>0, <2>1, <2>2, <2>3, <2>4, <2>5
         DEF Worker, LoadTimeout, LoadLock, LoadNumber, LoadPop, SetJob, FireStopped, ClearJob
<1>2. CASE t # c
  <2>1. pc'[c] = pc[c]
    BY <1>0, <1>2, OthersStay DEF Stays
  <2>2. CASE t # Main
    <3>1. pc'[Main] = pc[Main] /\ at'[Main] = at[Main]
      BY <1>0, <2>2, OthersStay, StopLocalsStay DEF Stays
    <3>2. CASE CoreStays(c)
      BY <2>1, <3>1, <3>2 DEF CoreStays, EndSignal
    <3>3. CASE StopsAt(t, c)
      <4>1. t = Thermal /\ ThermalApproach
        BY <2>2, <3>3, Threads DEF StopsAt, Stopper, StepOf
      <4>2. ThermalLives
        BY <4>1, ThermalAlive DEF JobLock
      <4>3. current_job'[c] = NoJob
        BY <1>0, <3>3 DEF StopsAt, StopWait
      <4> QED BY <3>1, <4>2, <4>3 DEF ThermalLives, EndSignal
    <3> QED BY <1>2, <3>2, <3>3, ForeignCore
  <2>3. CASE t = Main
    <3>1. EndRun \/ Join
      BY <2>3, Threads DEF StepOf
    <3>2. CASE CoreStays(c)
      BY <1>0, <2>1, <3>1, <3>2, MainStops DEF CoreStays, EndSignal
    <3>3. CASE StopsAt(t, c)
      BY <1>0, <2>3, <3>3 DEF StopsAt, StopWait, EndSignal, AfterStop, Goto
    <3> QED BY <1>2, <3>2, <3>3, ForeignCore
  <2> QED BY <2>2, <2>3
<1> QED BY <1>1, <1>2

LEMMA WaitInvariant == Spec => [](TypeOK /\ SlotInv /\ JobLock /\ WaitInv)
<1>1. Init => WaitInv
  BY Threads DEF Init, WaitInv, SpareInv, EndSignal, ThermalLives
<1>2. TypeOK /\ JobLock /\ WaitInv /\ [Next]_vars => WaitInv'
  <2> SUFFICES ASSUME TypeOK, JobLock, WaitInv, [Next]_vars PROVE WaitInv'
    OBVIOUS
  <2>1. CASE UNCHANGED vars
    BY <2>1 DEF vars, WaitInv, SpareInv, EndSignal, ThermalLives, workerVars, stopVars
  <2>2. ASSUME NEW t \in Thread, StepOf(t) PROVE WaitInv'
    BY <2>2, SpareStep, EndSignalStep DEF WaitInv
  <2> QED BY <2>1, <2>2, EveryStep
<1> QED BY <1>1, <1>2, JobLockInvariant, SlotInvariant, PTL DEF Spec

(* The thermal approach is not caught in stopCurrentJob. *)
NotCaught == ~(pc[Thermal] \in {"stop_lock", "stop_wait"} /\ Blocked(Thermal))

(* Of the units of a task queue at most one is with lockAllJobs and at most *)
(* one with a preemption; the others are with threads that post them soon.  *)
LEMMA QueueWait ==
  ASSUME TypeOK, QueueSlots, NotCaught, NEW c \in Core, taskqueue_sem[c] = 0
  PROVE  \E u \in Thread : u \in QueueHolders(c) /\ GoesOn(u)
<1>0. c \in Thread /\ c \notin Stopper /\ Thermal \in Thread /\ Thermal # Main
  BY Threads
<1> USE DEF GoesOn, QueueHolders
<1>1. CASE Inserting(c) # {}
  <2>1. PICK u \in Thread : u \in Inserting(c) /\ pc[u] \in {"ins_push", "ins_unlock"}
    BY <1>1 DEF Inserting
  <2>2. ~Blocked(u)
    BY <2>1 DEF Blocked, WaitsForQueue, WaitsForJob, WaitsForThread
  <2> QED BY <2>1, <2>2
<1>2. CASE pc[c] \in {"load_number", "load_pop"}
  <2>1. ~Blocked(c)
    BY <1>2 DEF Blocked, WaitsForQueue, WaitsForJob, WaitsForThread
  <2> QED BY <1>0, <1>2, <2>1
<1>3. CASE Preempting(c)
  <2>1. pc[Thermal] \in {"stop_lock", "stop_post", "stop_wait", "preempt_insert"}
    BY <1>3 DEF Preempting
  <2>2. pc[Thermal] \in {"stop_post", "preempt_insert"} => ~Blocked(Thermal)
    BY DEF Blocked, WaitsForQueue, WaitsForJob, WaitsForThread
  <2> QED BY <1>0, <1>3, <2>1, <2>2 DEF NotCaught
<1>4. CASE Inserting(c) = {} /\ pc[c] \notin {"load_number", "load_pop"} /\ ~Preempting(c)
  <2>1. Cardinality(Inserting(c)) = 0
    BY <1>4, FS_EmptySet
  <2>2. taskqueue_sem[c] + Cardinality(Inserting(c)) + One(pc[c] \in {"load_number", "load_pop"})
          + One(LockedQueue(c)) + One(Preempting(c)) \in {2, 4}
    BY DEF QueueSlots
  <2> QED BY <1>4, <2>1, <2>2 DEF One
<1> QED BY <1>1, <1>2, <1>3, <1>4

(* Who waits for job_sem waits for the thermal approach, which goes on.     *)
LEMMA JobWait ==
  ASSUME TypeOK, JobLock, SpareInv, NotCaught, NEW c \in Core, job_sem[c] = 0
  PROVE  Thermal \in JobHolders(c) /\ GoesOn(Thermal)
<1>0. /\ Thermal \in Stopper /\ Thermal \notin Core /\ Thermal # Main /\ at[Thermal] \in Core
      /\ Core \subseteq Int
  BY Threads DEF TypeOK, Core
<1>1. ThermalLives
  BY DEF SpareInv
<1>2. HoldsJob(c)
  BY <1>1 DEF JobLock
<1>3. /\ pc[Thermal] \notin {"loop", "exit", "lock_queue", "ins_lock"}
      /\ pc[Thermal] \in {"lock_job", "stop_post", "stop_wait"} => ~locked
  BY <1>2 DEF HoldsJob, JobLock, Unlocked
<1>4. ASSUME NEW d \in Core, WaitsForJob(Thermal, d), pc[Thermal] = "lock_job" PROVE FALSE
  <2>1. job_sem[d] = 0 /\ at[Thermal] = d
    BY <1>0, <1>4 DEF WaitsForJob
  <2>2. HoldsJob(d)
    BY <1>1, <2>1 DEF JobLock
  <2> QED BY <1>0, <1>3, <1>4, <2>1, <2>2 DEF HoldsJob
<1>5. ~Blocked(Thermal)
  <2>1. ASSUME NEW d \in Core, WaitsForJob(Thermal, d), pc[Thermal] \notin {"stop_lock", "stop_wait"}
        PROVE  FALSE
    BY <1>0, <1>3, <1>4, <2>1 DEF WaitsForJob
  <2> QED BY <1>0, <1>3, <2>1 DEF NotCaught, Blocked, WaitsForQueue, WaitsForThread
<1> QED BY <1>2, <1>3, <1>5 DEF JobHolders, GoesOn

(* A thread but main waits for one that goes on.                            *)
LEMMA OneWait ==
  ASSUME TypeOK, QueueSlots, JobLock, SpareInv, NotCaught,
         NEW t \in Thread, Blocked(t), \A u \in Thread : ~WaitsForThread(t, u)
  PROVE  \E u \in Thread : WaitsFor(t, u) /\ GoesOn(u)
<1>1. PICK c \in Core : WaitsForQueue(t, c) \/ WaitsForJob(t, c)
  BY DEF Blocked
<1>2. CASE WaitsForQueue(t, c)
  <2>1. taskqueue_sem[c] = 0
    BY <1>2 DEF WaitsForQueue
  <2> QED BY <1>2, <2>1, QueueWait DEF WaitsFor
<1>3. CASE WaitsForJob(t, c)
  <2>1. job_sem[c] = 0
    BY <1>3 DEF WaitsForJob
  <2> QED BY <1>3, <2>1, JobWait, Threads DEF WaitsFor
<1> QED BY <1>1, <1>2, <1>3

(* Nothing but a stopCurrentJob of the thermal approach can end in a circle *)
(* of threads that wait for each other, whatever the calls, the number of   *)
(* cores, tasks and jobs: main included, whose stopCurrentJob is in join.   *)
THEOREM StopIsOnlyDeadlock == Spec => []DeadlockOnlyInStop
<1>1. TypeOK /\ QueueSlots /\ JobLock /\ WaitInv => DeadlockOnlyInStop
  <2> SUFFICES ASSUME TypeOK, QueueSlots, JobLock, WaitInv, NotCaught,
                      NEW t \in Thread, Blocked(t)
               PROVE  \E u \in Thread :
                        /\ WaitsFor(t, u)
                        /\ GoesOn(u) \/ (t = Main /\ \E v \in Thread : WaitsFor(u, v) /\ GoesOn(v))
    BY DEF DeadlockOnlyInStop, NotCaught
  <2>0. /\ Main \in Thread /\ Thermal \in Thread /\ Main \notin Core /\ Main # Thermal
        /\ Main \notin Dispatcher /\ at[Main] \in Core /\ Core \subseteq Thread
        /\ Dispatcher \subseteq Thread
    BY Threads, ThreadAssumption DEF TypeOK, Stopper, Thread
  <2>1. CASE \A u \in Thread : ~WaitsForThread(t, u)
    BY <2>1, OneWait DEF WaitInv
  <2>2. CASE \E u \in Thread : WaitsForThread(t, u)
    <3>1. PICK u \in Thread : WaitsForThread(t, u)
      BY <2>2
    <3>2. t = Main
      <4>1. t = Thermal => pc[t] = "stop_wait"
        BY <2>0, <3>1 DEF WaitsForThread
      <4>2. t \in Stopper
        BY <3>1 DEF WaitsForThread, Stopper
      <4> QED BY <4>1, <4>2 DEF Stopper, NotCaught
    <3>3. u \in Core \cup Dispatcher \cup {Thermal}
      BY <2>0, <3>1, <3>2 DEF WaitsForThread
    <3>4. pc[u] # "exit"
      BY <2>0, <3>1, <3>2 DEF WaitsForThread, WaitInv, EndSignal
    <3>5. \A w \in Thread : ~WaitsForThread(u, w)
      <4>1. CASE u = Thermal
        <5>1. pc[u] = "stop_wait" => ~Blocked(u)
          BY <4>1 DEF NotCaught
        <5> QED BY <2>0, <4>1, <5>1 DEF WaitsForThread, Blocked
      <4>2. CASE u # Thermal
        <5>1. u \notin Stopper /\ u # Main
          BY <2>0, <3>3, <4>2 DEF Stopper
        <5> QED BY <5>1 DEF WaitsForThread
      <4> QED BY <4>1, <4>2
    <3>6. CASE Blocked(u)
      <4>1. \E v \in Thread : WaitsFor(u, v) /\ GoesOn(v)
        BY <3>5, <3>6, OneWait DEF WaitInv
      <4> QED BY <3>1, <3>2, <4>1 DEF WaitsFor
    <3>7. CASE ~Blocked(u)
      BY <3>1, <3>4, <3>7 DEF WaitsFor, GoesOn
    <3> QED BY <3>6, <3>7
  <2> QED BY <2>1, <2>2
<1> QED BY <1>1, WaitInvariant, PTL DEF SlotInv
=============================================================================
