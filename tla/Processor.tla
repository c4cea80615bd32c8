------------------------------ MODULE Processor ------------------------------
(***************************************************************************)
(* How a job travels through McFTP: the dispatcher threads release jobs,   *)
(* the workers load and fire them, the thermal approach thread manipulates *)
(* queues and running jobs through the CMI calls, and the main thread ends *)
(* the run and joins everybody.                                            *)
(*                                                                         *)
(* One variable per shared object of core/Processor, core/Worker, Task and *)
(* TaskLoad; pc, hand, dest, at, victim and call are the locals of the     *)
(* threads.  A semaphore is its value.  A step is one access to an object  *)
(* other threads can see; a critical section `sem_wait; one access;        *)
(* sem_post' whose semaphore is free is one step, and so is a series of    *)
(* sem_posts (a post never blocks and only enables other threads).         *)
(* The suspension of a worker (ExecutionInterrupter) only delays it here.  *)
(***************************************************************************)
EXTENDS JobQueue, FiniteSets

CONSTANTS
  NCores,         \* number of cores (Processor::n_cores)
  Dispatcher,     \* the dispatchers, one per task
  Aperiodic,      \* those that release a single job (class Aperiodic)
  PipelinedTask,  \* those whose jobs are Pipelined; the others are SingleCore
  Allocator,      \* Allocator[d]: what the task allocator may answer for d
  UserCalls,      \* the CMI calls the online thermal approach makes
  MaxJobs,        \* bound: jobs a periodic dispatcher releases
  MaxPosition,    \* bound: queue positions the thermal approach names
  Wcet,           \* loop iterations of BusyWait::runLoads per stage
  Thermal, Main   \* the thermal approach thread and the main thread

Core    == 0..(NCores - 1)
Stopper == {Thermal, Main}
Thread  == Dispatcher \cup Core \cup Stopper
Job     == Dispatcher \X (1..MaxJobs)
MaybeJob == Job \cup {NoJob}
Calls   == {"migrate", "preempt", "advance", "move", "lock"}

ASSUME NCoresAssumption     == NCores \in Nat \ {0}
ASSUME DispatcherAssumption == IsFiniteSet(Dispatcher)
ASSUME TaskAssumption       == Aperiodic \subseteq Dispatcher /\ PipelinedTask \subseteq Dispatcher
ASSUME AllocatorAssumption  == Allocator \in [Dispatcher -> SUBSET Int]
ASSUME CallsAssumption      == UserCalls \subseteq Calls
ASSUME BoundsAssumption     == MaxJobs \in Nat /\ MaxPosition \in Nat /\ Wcet \in Nat \ {0}
ASSUME ThreadAssumption     == /\ Dispatcher \cap (Core \cup Stopper) = {}
                               /\ Core \cap Stopper = {}
                               /\ Thermal # Main
ASSUME NoJobAssumption      == NoJob \notin Job

VARIABLES
  running,        \* Processor::running
  crashed,        \* a NULL pointer or an index out of range was used
  taskqueue_sem, jobnumber_sem, queue,         \* per core, of Processor
  job_sem, stop_sem, current_job,              \* per core, of Worker
  load_stop_sem, count, nextCoreId, finished,  \* per job, of TaskLoad and Task
  jobCounter,     \* per dispatcher, of Dispatcher
  pc, hand, dest, \* per thread: where it is, the job it carries, to which core
  at, victim,     \* per stopper: the core it stops, stopCurrentJob's `ret'
  call,           \* Thermal: the CMI call in progress
  locked,         \* Thermal: lockAllJobs has returned, unlockAllJobs has not run
  done, stopped, stages  \* history: jobs reported to cmi->finishedJob; jobs
                  \* stopped and not queued again; cores a job completed on

processorVars == <<taskqueue_sem, jobnumber_sem, queue>>
workerVars    == <<job_sem, stop_sem, current_job>>
taskVars      == <<load_stop_sem, count, nextCoreId, finished, jobCounter>>
carryVars     == <<hand, dest>>
stopVars      == <<at, victim>>
userVars      == <<call, locked>>
historyVars   == <<done, stopped, stages>>
vars == <<running, crashed, processorVars, workerVars, taskVars, pc, carryVars,
          stopVars, userVars, historyVars>>

NoCall == [op |-> "none", slot |-> FALSE, position |-> 0]

Goto(t, label) == pc' = [pc EXCEPT ![t] = label]
Up(sem, c)     == [sem EXCEPT ![c] = @ + 1]
Down(sem, c)   == [sem EXCEPT ![c] = @ - 1]
UpAll(sem, n)  == [c \in Core |-> sem[c] + n]

Init ==
  /\ running = TRUE
  /\ crashed = FALSE
  /\ taskqueue_sem = [c \in Core |-> 2]
  /\ jobnumber_sem = [c \in Core |-> 0]
  /\ queue = [c \in Core |-> << >>]
  /\ job_sem = [c \in Core |-> 1]
  /\ stop_sem = [c \in Core |-> 0]
  /\ current_job = [c \in Core |-> NoJob]
  /\ load_stop_sem = [j \in Job |-> 0]
  /\ count = [j \in Job |-> 0]
  /\ nextCoreId = [j \in Job |-> 0]
  /\ finished = [j \in Job |-> FALSE]
  /\ jobCounter = [d \in Dispatcher |-> 0]
  /\ pc = [t \in Thread |-> IF t \in Dispatcher THEN "release"
                        ELSE IF t = Main THEN "sleep" ELSE "loop"]
  /\ hand = [t \in Thread |-> NoJob]
  /\ dest = [t \in Thread |-> 0]
  /\ at = [t \in Stopper |-> 0]
  /\ victim = [t \in Stopper |-> NoJob]
  /\ call = NoCall
  /\ locked = FALSE
  /\ done = {} /\ stopped = {}
  /\ stages = [j \in Job |-> {}]

-----------------------------------------------------------------------------
(* Dispatchers *)

(* Mutant of TargetCore: the answer of the allocator is not checked. *)
TargetCoreUnchecked(answer) == answer

(* CMI::getNewJobTargetCore: an answer that names no core is taken as 0. *)
TargetCore(answer) == IF answer \in Core THEN answer ELSE 0

(* A periodic dispatcher releases while the run lasts; the aperiodic one    *)
(* wakes from its nanosleep and releases its only job whatever `running' is *)
MayRelease(d) == IF d \in Aperiodic THEN jobCounter[d] = 0
                                    ELSE running /\ jobCounter[d] < MaxJobs

(* createNewTask, then Processor::newJob up to insertJobToQueue. *)
Release(d) ==
  /\ pc[d] = "release" /\ MayRelease(d) /\ jobCounter[d] < MaxJobs
  /\ jobCounter' = [jobCounter EXCEPT ![d] = @ + 1]
  /\ hand' = [hand EXCEPT ![d] = <<d, jobCounter[d] + 1>>]
  /\ \E answer \in Allocator[d] : dest' = [dest EXCEPT ![d] = TargetCore(answer)]
  /\ Goto(d, "ins_lock")
  /\ UNCHANGED <<running, crashed, processorVars, workerVars, load_stop_sem, count,
                 nextCoreId, finished, stopVars, userVars, historyVars>>

DispatcherExit(d) ==
  /\ pc[d] = "release" /\ ~running
  /\ d \in Aperiodic => jobCounter[d] > 0
  /\ Goto(d, "exit")
  /\ UNCHANGED <<running, crashed, processorVars, workerVars, taskVars, carryVars,
                 stopVars, userVars, historyVars>>

-----------------------------------------------------------------------------
(* Processor::insertJobToQueue(dest[t], hand[t]), run by any thread t.      *)

(* Where a thread goes on when insertJobToQueue returns. *)
AfterInsert(t) == IF t \in Dispatcher THEN "release"
                  ELSE IF t \in Core THEN "clear" ELSE "returned"

InsertLock(t) ==
  /\ pc[t] = "ins_lock" /\ taskqueue_sem[dest[t]] > 0
  /\ taskqueue_sem' = Down(taskqueue_sem, dest[t])
  /\ Goto(t, "ins_push")
  /\ UNCHANGED <<running, crashed, jobnumber_sem, queue, workerVars, taskVars,
                 carryVars, stopVars, userVars, historyVars>>

InsertPush(t) ==
  /\ pc[t] = "ins_push"
  /\ queue' = [queue EXCEPT ![dest[t]] = insertJob(@, hand[t])]
  /\ hand' = [hand EXCEPT ![t] = NoJob]
  /\ Goto(t, "ins_unlock")
  /\ UNCHANGED <<running, crashed, taskqueue_sem, jobnumber_sem, workerVars, taskVars,
                 dest, stopVars, userVars, historyVars>>

(* Mutant of InsertUnlock: the job is not announced. *)
InsertUnannounced(t) ==
  /\ pc[t] = "ins_unlock"
  /\ taskqueue_sem' = Up(taskqueue_sem, dest[t])
  /\ Goto(t, AfterInsert(t))
  /\ UNCHANGED <<running, crashed, jobnumber_sem, queue, workerVars, taskVars,
                 carryVars, stopVars, userVars, historyVars>>

(* sem_post of jobnumber_sems, then of taskqueue_sems. *)
InsertUnlock(t) ==
  /\ pc[t] = "ins_unlock"
  /\ jobnumber_sem' = Up(jobnumber_sem, dest[t])
  /\ taskqueue_sem' = Up(taskqueue_sem, dest[t])
  /\ Goto(t, AfterInsert(t))
  /\ UNCHANGED <<running, crashed, queue, workerVars, taskVars,
                 carryVars, stopVars, userVars, historyVars>>

InsertJobToQueue(t) == InsertLock(t) \/ InsertPush(t) \/ InsertUnlock(t)

-----------------------------------------------------------------------------
(* Workers: Worker::wrapper, Processor::tryLoadJob, Task::fire *)

(* Mutant of WorkerLoop: stop_sem is posted inside the loop. *)
WorkerLoopSignals(c) ==
  /\ pc[c] = "loop"
  /\ Goto(c, IF running THEN IF current_job[c] = NoJob THEN "load_lock" ELSE "fire" ELSE "exit")
  /\ stop_sem' = Up(stop_sem, c)
  /\ UNCHANGED <<running, crashed, processorVars, job_sem, current_job, taskVars,
                 carryVars, stopVars, userVars, historyVars>>

(* The head of the while loop; leaving it posts Worker::stop_sem. *)
WorkerLoop(c) ==
  /\ pc[c] = "loop"
  /\ IF running
     THEN /\ Goto(c, IF current_job[c] = NoJob THEN "load_lock" ELSE "fire")
          /\ UNCHANGED stop_sem
     ELSE Goto(c, "exit") /\ stop_sem' = Up(stop_sem, c)
  /\ UNCHANGED <<running, crashed, processorVars, job_sem, current_job, taskVars,
                 carryVars, stopVars, userVars, historyVars>>

LoadLock(c) ==
  /\ pc[c] = "load_lock" /\ taskqueue_sem[c] > 0
  /\ taskqueue_sem' = Down(taskqueue_sem, c)
  /\ Goto(c, "load_number")
  /\ UNCHANGED <<running, crashed, jobnumber_sem, queue, workerVars, taskVars,
                 carryVars, stopVars, userVars, historyVars>>

LoadNumber(c) ==
  /\ pc[c] = "load_number" /\ jobnumber_sem[c] > 0
  /\ jobnumber_sem' = Down(jobnumber_sem, c)
  /\ Goto(c, "load_pop")
  /\ UNCHANGED <<running, crashed, taskqueue_sem, queue, workerVars, taskVars,
                 carryVars, stopVars, userVars, historyVars>>

LoadPop(c) ==
  /\ pc[c] = "load_pop"
  /\ hand' = [hand EXCEPT ![c] = peek_front(queue[c])]
  /\ queue' = [queue EXCEPT ![c] = pop_front(@)]
  /\ taskqueue_sem' = Up(taskqueue_sem, c)
  /\ Goto(c, "loaded")
  /\ UNCHANGED <<running, crashed, jobnumber_sem, workerVars, taskVars,
                 dest, stopVars, userVars, historyVars>>

(* Mutants of LoadTimeout: the pop happens although no unit was taken; the  *)
(* task queue is not given back when jobnumber_sems times out.              *)
LoadTimeoutPops(c) ==
  /\ pc[c] = "load_number" /\ jobnumber_sem[c] = 0
  /\ Goto(c, "load_pop")
  /\ UNCHANGED <<running, crashed, processorVars, workerVars, taskVars, carryVars,
                 stopVars, userVars, historyVars>>
LoadTimeoutKeeps(c) ==
  /\ \/ pc[c] = "load_lock" /\ taskqueue_sem[c] = 0
     \/ pc[c] = "load_number" /\ jobnumber_sem[c] = 0
  /\ Goto(c, "loaded")
  /\ UNCHANGED <<running, crashed, processorVars, workerVars, taskVars, carryVars,
                 stopVars, userVars, historyVars>>

(* A sem_timedwait of tryLoadJob gives up after 200 ms without a unit. *)
LoadTimeout(c) ==
  /\ \/ /\ pc[c] = "load_lock" /\ taskqueue_sem[c] = 0
        /\ UNCHANGED taskqueue_sem
     \/ /\ pc[c] = "load_number" /\ jobnumber_sem[c] = 0
        /\ taskqueue_sem' = Up(taskqueue_sem, c)
  /\ Goto(c, "loaded")
  /\ UNCHANGED <<running, crashed, jobnumber_sem, queue, workerVars, taskVars, carryVars, stopVars, userVars, historyVars>>

(* Mutant of Loaded: the end of the run does not end the retries. *)
LoadedForever(c) ==
  /\ pc[c] = "loaded"
  /\ stop_sem' = [stop_sem EXCEPT ![c] = 0]
  /\ Goto(c, IF hand[c] = NoJob THEN "load_lock" ELSE "set_job")
  /\ UNCHANGED <<running, crashed, processorVars, job_sem, current_job, taskVars,
                 carryVars, stopVars, userVars, historyVars>>

(* Try again while there is neither a job nor the end of the run; otherwise *)
(* drain stop_sem and go on with the job, if there is one.                  *)
Loaded(c) ==
  /\ pc[c] = "loaded"
  /\ IF hand[c] = NoJob /\ running
     THEN Goto(c, "load_lock") /\ UNCHANGED stop_sem
     ELSE /\ stop_sem' = [stop_sem EXCEPT ![c] = 0]
          /\ Goto(c, IF hand[c] = NoJob THEN "loop" ELSE "set_job")
  /\ UNCHANGED <<running, crashed, processorVars, job_sem, current_job, taskVars,
                 carryVars, stopVars, userVars, historyVars>>

SetJob(c) ==
  /\ pc[c] = "set_job" /\ job_sem[c] > 0
  /\ current_job' = [current_job EXCEPT ![c] = hand[c]]
  /\ hand' = [hand EXCEPT ![c] = NoJob]
  /\ Goto(c, "loop")
  /\ UNCHANGED <<running, crashed, processorVars, job_sem, stop_sem, taskVars, dest,
                 stopVars, userVars, historyVars>>

(* Mutant of FireEffect: the first core instead of the last ends a job. *)
FireEffectFirst(c, j, complete) ==
  IF j[1] \notin PipelinedTask
  THEN finished' = [finished EXCEPT ![j] = complete] /\ UNCHANGED nextCoreId
  ELSE IF c = 0
  THEN finished' = [finished EXCEPT ![j] = TRUE] /\ nextCoreId' = [nextCoreId EXCEPT ![j] = -1]
  ELSE nextCoreId' = [nextCoreId EXCEPT ![j] = @ + 1] /\ UNCHANGED finished

(* Mutant of FireEffect: the stage is not counted. *)
FireEffectStays(c, j, complete) ==
  IF j[1] \notin PipelinedTask
  THEN finished' = [finished EXCEPT ![j] = complete] /\ UNCHANGED nextCoreId
  ELSE IF c = NCores - 1
  THEN finished' = [finished EXCEPT ![j] = TRUE] /\ nextCoreId' = [nextCoreId EXCEPT ![j] = -1]
  ELSE UNCHANGED <<nextCoreId, finished>>

(* Pipelined::fire moves the job on to its next stage whatever runLoads     *)
(* returned; SingleCore::fire takes over the result of runLoads.            *)
FireEffect(c, j, complete) ==
  IF j[1] \notin PipelinedTask
  THEN finished' = [finished EXCEPT ![j] = complete] /\ UNCHANGED nextCoreId
  ELSE IF c = NCores - 1
  THEN finished' = [finished EXCEPT ![j] = TRUE] /\ nextCoreId' = [nextCoreId EXCEPT ![j] = -1]
  ELSE nextCoreId' = [nextCoreId EXCEPT ![j] = @ + 1] /\ UNCHANGED finished

(* runLoads finds a unit of its stop_sem: fire returns false. *)
FireStopped(c) ==
  LET j == current_job[c] IN
  /\ pc[c] = "fire" /\ load_stop_sem[j] > 0
  /\ load_stop_sem' = Down(load_stop_sem, j)
  /\ FireEffect(c, j, FALSE)
  /\ stopped' = stopped \cup {j}
  /\ Goto(c, "clear")
  /\ UNCHANGED <<running, crashed, processorVars, workerVars, count, jobCounter,
                 carryVars, stopVars, userVars, done, stages>>

(* One iteration of runLoads that is not the last. *)
FireWork(c) ==
  LET j == current_job[c] IN
  /\ pc[c] = "fire" /\ load_stop_sem[j] = 0 /\ count[j] + 1 < Wcet
  /\ count' = [count EXCEPT ![j] = @ + 1]
  /\ UNCHANGED <<running, crashed, processorVars, workerVars, load_stop_sem, nextCoreId,
                 finished, jobCounter, pc, carryVars, stopVars, userVars, historyVars>>

(* The last iteration: fire returns true and Processor::finishedJob reports *)
(* the job or inserts it into the queue of its next stage.                  *)
FireComplete(c) ==
  LET j == current_job[c] IN
  /\ pc[c] = "fire" /\ load_stop_sem[j] = 0 /\ count[j] + 1 >= Wcet
  /\ count' = [count EXCEPT ![j] = 0]
  /\ FireEffect(c, j, TRUE)
  /\ stages' = [stages EXCEPT ![j] = @ \cup {c}]
  /\ IF finished'[j]
     THEN /\ done' = done \cup {j}
          /\ Goto(c, "clear")
          /\ UNCHANGED <<crashed, carryVars>>
     ELSE /\ crashed' = (nextCoreId'[j] \notin Core)
          /\ hand' = [hand EXCEPT ![c] = j]
          /\ dest' = [dest EXCEPT ![c] = IF crashed' THEN @ ELSE nextCoreId'[j]]
          /\ Goto(c, "ins_lock")
          /\ UNCHANGED done
  /\ UNCHANGED <<running, processorVars, workerVars, load_stop_sem, jobCounter,
                 stopVars, userVars, stopped>>

(* Mutants of ClearJob: job_sem is not taken; current_job is not cleared. *)
ClearJobUnlocked(c) ==
  /\ pc[c] = "clear"
  /\ current_job' = [current_job EXCEPT ![c] = NoJob]
  /\ Goto(c, "loop")
  /\ UNCHANGED <<running, crashed, processorVars, job_sem, stop_sem, taskVars,
                 carryVars, stopVars, userVars, historyVars>>
ClearJobKeeps(c) ==
  /\ pc[c] = "clear" /\ job_sem[c] > 0
  /\ Goto(c, "loop")
  /\ UNCHANGED <<running, crashed, processorVars, workerVars, taskVars,
                 carryVars, stopVars, userVars, historyVars>>

ClearJob(c) ==
  /\ pc[c] = "clear" /\ job_sem[c] > 0
  /\ current_job' = [current_job EXCEPT ![c] = NoJob]
  /\ Goto(c, "loop")
  /\ UNCHANGED <<running, crashed, processorVars, job_sem, stop_sem, taskVars,
                 carryVars, stopVars, userVars, historyVars>>

Worker(c) == \/ WorkerLoop(c) \/ LoadLock(c) \/ LoadNumber(c) \/ LoadPop(c)
             \/ Loaded(c) \/ SetJob(c) \/ FireStopped(c) \/ FireWork(c) \/ FireComplete(c)
             \/ ClearJob(c) \/ InsertJobToQueue(c)

-----------------------------------------------------------------------------
(* Worker::stopCurrentJob of core at[t], run by the thermal approach thread *)
(* (taskMigrate, preemptCurrentJobOnCore) and by the main thread (join).    *)

AfterStop(t, job) ==
  IF t = Main THEN "join_wait"
  ELSE IF call.op = "preempt" THEN "preempt_insert"
  ELSE IF job = NoJob THEN "returned" ELSE "ins_lock"

(* job_sem is kept, unless there is no current job. *)
StopLock(t) ==
  LET job == current_job[at[t]] IN
  /\ pc[t] = "stop_lock" /\ job_sem[at[t]] > 0
  /\ victim' = [victim EXCEPT ![t] = job]
  /\ IF job = NoJob
     THEN Goto(t, AfterStop(t, job)) /\ UNCHANGED job_sem
     ELSE Goto(t, "stop_post") /\ job_sem' = Down(job_sem, at[t])
  /\ UNCHANGED <<running, crashed, processorVars, stop_sem, current_job, taskVars,
                 carryVars, at, userVars, historyVars>>

(* current_job->stop() reads current_job again. *)
StopPost(t) ==
  LET job == current_job[at[t]] IN
  /\ pc[t] = "stop_post"
  /\ IF job = NoJob
     THEN crashed' = TRUE /\ UNCHANGED load_stop_sem
     ELSE load_stop_sem' = Up(load_stop_sem, job) /\ UNCHANGED crashed
  /\ Goto(t, "stop_wait")
  /\ UNCHANGED <<running, processorVars, workerVars, count, nextCoreId, finished,
                 jobCounter, carryVars, stopVars, userVars, historyVars>>

(* The thermal approach takes the job over; join drops it. *)
StopWait(t) ==
  LET c == at[t] IN
  /\ pc[t] = "stop_wait" /\ stop_sem[c] > 0
  /\ stop_sem' = Down(stop_sem, c)
  /\ current_job' = [current_job EXCEPT ![c] = NoJob]
  /\ job_sem' = Up(job_sem, c)
  /\ IF t = Main
     THEN /\ stopped' = stopped \cup ({current_job[c]} \ {NoJob})
          /\ UNCHANGED hand
     ELSE /\ stopped' = stopped \ {victim[t]}
          /\ hand' = [hand EXCEPT ![t] = victim[t]]
  /\ Goto(t, AfterStop(t, victim[t]))
  /\ UNCHANGED <<running, crashed, processorVars, taskVars, dest, stopVars, userVars,
                 done, stages>>

StopCurrentJob(t) == StopLock(t) \/ StopPost(t) \/ StopWait(t)

-----------------------------------------------------------------------------
(* The thermal approach thread and the CMI calls of the online approach.    *)

(* getDynamicInfo takes and gives back job_sem of every core. *)
ThermalLoop ==
  /\ pc[Thermal] = "loop"
  /\ IF running
     THEN (\A c \in Core : job_sem[c] > 0) /\ Goto(Thermal, "call")
     ELSE Goto(Thermal, "exit")
  /\ UNCHANGED <<running, crashed, processorVars, workerVars, taskVars, carryVars,
                 stopVars, userVars, historyVars>>

(* A CMI call is over, and so are its locals. *)
CallReturns ==
  /\ pc[Thermal] = "returned"
  /\ call' = NoCall
  /\ at' = [at EXCEPT ![Thermal] = 0]
  /\ victim' = [victim EXCEPT ![Thermal] = NoJob]
  /\ dest' = [dest EXCEPT ![Thermal] = 0]
  /\ Goto(Thermal, "call")
  /\ UNCHANGED <<running, crashed, processorVars, workerVars, taskVars, hand, locked,
                 historyVars>>

(* The online approach returns; it does not leave the jobs locked. *)
ThermalReturn ==
  /\ pc[Thermal] = "call" /\ ~locked
  /\ Goto(Thermal, "loop")
  /\ UNCHANGED <<running, crashed, processorVars, workerVars, taskVars, carryVars,
                 stopVars, userVars, historyVars>>

(* CMI::taskMigrate returns at once when both cores are the same. *)
TaskMigrate(source, target) ==
  /\ pc[Thermal] = "call" /\ "migrate" \in UserCalls /\ source # target
  /\ call' = [NoCall EXCEPT !.op = "migrate"]
  /\ at' = [at EXCEPT ![Thermal] = source]
  /\ dest' = [dest EXCEPT ![Thermal] = target]
  /\ Goto(Thermal, "stop_lock")
  /\ UNCHANGED <<running, crashed, processorVars, workerVars, taskVars, hand, victim,
                 locked, historyVars>>

(* Processor::preemptCurrentJobOnCore: sem_trywait, stopCurrentJob, then    *)
(* PreemptInsert, which leaves jobnumber_sem alone.                         *)
Preempt(c) ==
  /\ pc[Thermal] = "call" /\ "preempt" \in UserCalls
  /\ call' = [NoCall EXCEPT !.op = "preempt", !.slot = taskqueue_sem[c] > 0]
  /\ taskqueue_sem' = IF taskqueue_sem[c] > 0 THEN Down(taskqueue_sem, c) ELSE taskqueue_sem
  /\ at' = [at EXCEPT ![Thermal] = c]
  /\ Goto(Thermal, "stop_lock")
  /\ UNCHANGED <<running, crashed, jobnumber_sem, queue, workerVars, taskVars, carryVars,
                 victim, locked, historyVars>>

(* Mutant of PreemptInsert: the result of sem_trywait is not looked at. *)
PreemptInsertPosts ==
  LET c == at[Thermal] IN
  /\ pc[Thermal] = "preempt_insert"
  /\ queue' = [queue EXCEPT ![c] = insertJobAt(@, 1, hand[Thermal])]
  /\ hand' = [hand EXCEPT ![Thermal] = NoJob]
  /\ taskqueue_sem' = Up(taskqueue_sem, c)
  /\ Goto(Thermal, "returned")
  /\ UNCHANGED <<running, crashed, jobnumber_sem, workerVars, taskVars, dest, stopVars,
                 userVars, historyVars>>

PreemptInsert ==
  LET c == at[Thermal] IN
  /\ pc[Thermal] = "preempt_insert"
  /\ queue' = [queue EXCEPT ![c] = insertJobAt(@, 1, hand[Thermal])]
  /\ hand' = [hand EXCEPT ![Thermal] = NoJob]
  /\ taskqueue_sem' = IF call.slot THEN Up(taskqueue_sem, c) ELSE taskqueue_sem
  /\ Goto(Thermal, "returned")
  /\ UNCHANGED <<running, crashed, jobnumber_sem, workerVars, taskVars, dest, stopVars,
                 userVars, historyVars>>

(* pop_at the source position; with a job in hand, Reinsert follows.        *)
TakeOut(source, sourcePosition, target, targetPosition) ==
  LET job == peek_at(queue[source], sourcePosition) IN
  /\ pc[Thermal] = "call" /\ job # NoJob
  /\ hand' = [hand EXCEPT ![Thermal] = job]
  /\ queue' = [queue EXCEPT ![source] = pop_at(@, sourcePosition)]
  /\ dest' = [dest EXCEPT ![Thermal] = target]
  /\ call' = [NoCall EXCEPT !.op = "reinsert", !.position = targetPosition]
  /\ Goto(Thermal, "reinsert")
  /\ UNCHANGED <<running, crashed, taskqueue_sem, jobnumber_sem, workerVars, taskVars,
                 stopVars, locked, historyVars>>

(* n > 0 advances, n < 0 recedes (CMI::recedeJobInQueue). *)
AdvanceJobInQueue(c, position, n) ==
  /\ "advance" \in UserCalls /\ n # 0
  /\ TakeOut(c, position, c, IF position - n < 0 THEN 0 ELSE position - n)

MoveJobToAnotherQueue(source, sourcePosition, target, targetPosition) ==
  /\ "move" \in UserCalls
  /\ TakeOut(source, sourcePosition, target, targetPosition)

Reinsert ==
  /\ pc[Thermal] = "reinsert"
  /\ queue' = [queue EXCEPT ![dest[Thermal]] = insertJobAt(@, call.position, hand[Thermal])]
  /\ hand' = [hand EXCEPT ![Thermal] = NoJob]
  /\ Goto(Thermal, "returned")
  /\ UNCHANGED <<running, crashed, taskqueue_sem, jobnumber_sem, workerVars, taskVars, dest,
                 stopVars, userVars, historyVars>>

(* CMI::lockAllJobs: one unit of every taskqueue_sem, then every job_sem.   *)
LockAllJobs ==
  /\ pc[Thermal] = "call" /\ "lock" \in UserCalls /\ ~locked
  /\ at' = [at EXCEPT ![Thermal] = 0]
  /\ Goto(Thermal, "lock_queue")
  /\ UNCHANGED <<running, crashed, processorVars, workerVars, taskVars, carryVars, victim,
                 userVars, historyVars>>

LastCore == at[Thermal] = NCores - 1
NextCore == at' = [at EXCEPT ![Thermal] = IF LastCore THEN 0 ELSE @ + 1]

LockTaskQueue ==
  /\ pc[Thermal] = "lock_queue" /\ taskqueue_sem[at[Thermal]] > 0
  /\ taskqueue_sem' = Down(taskqueue_sem, at[Thermal])
  /\ NextCore
  /\ Goto(Thermal, IF LastCore THEN "lock_job" ELSE "lock_queue")
  /\ UNCHANGED <<running, crashed, jobnumber_sem, queue, workerVars, taskVars, carryVars,
                 victim, userVars, historyVars>>

LockCurrentJob ==
  /\ pc[Thermal] = "lock_job" /\ job_sem[at[Thermal]] > 0
  /\ job_sem' = Down(job_sem, at[Thermal])
  /\ NextCore
  /\ locked' = LastCore
  /\ Goto(Thermal, IF LastCore THEN "call" ELSE "lock_job")
  /\ UNCHANGED <<running, crashed, processorVars, stop_sem, current_job, taskVars, carryVars,
                 victim, call, historyVars>>

UnlockAllJobs ==
  /\ pc[Thermal] = "call" /\ locked
  /\ locked' = FALSE
  /\ taskqueue_sem' = UpAll(taskqueue_sem, 1)
  /\ job_sem' = UpAll(job_sem, 1)
  /\ UNCHANGED <<running, crashed, jobnumber_sem, queue, stop_sem, current_job, taskVars, pc,
                 carryVars, stopVars, call, historyVars>>

Position == 0..MaxPosition

ThermalApproach ==
  \/ ThermalLoop \/ CallReturns \/ ThermalReturn
  \/ \E s, t \in Core : TaskMigrate(s, t)
  \/ \E c \in Core : Preempt(c)
  \/ PreemptInsert
  \/ \E c \in Core, p \in Position, n \in {-1, 1} : AdvanceJobInQueue(c, p, n)
  \/ \E s, t \in Core, p, q \in Position : MoveJobToAnotherQueue(s, p, t, q)
  \/ Reinsert
  \/ LockAllJobs \/ LockTaskQueue \/ LockCurrentJob \/ UnlockAllJobs
  \/ StopCurrentJob(Thermal) \/ InsertJobToQueue(Thermal)

-----------------------------------------------------------------------------
(* The main thread: Processor::simulate from its nanosleep on, join_all.    *)

EndRun ==
  /\ pc[Main] = "sleep"
  /\ running' = FALSE
  /\ jobnumber_sem' = UpAll(jobnumber_sem, 2)
  /\ taskqueue_sem' = UpAll(taskqueue_sem, 2)
  /\ Goto(Main, "join_threads")
  /\ UNCHANGED <<crashed, queue, workerVars, taskVars, carryVars, stopVars, userVars, historyVars>>

(* join of the dispatchers and of the thermal approach. *)
JoinThreads ==
  /\ pc[Main] = "join_threads"
  /\ \A t \in Dispatcher \cup {Thermal} : pc[t] = "exit"
  /\ Goto(Main, "join_worker")
  /\ UNCHANGED <<running, crashed, processorVars, workerVars, taskVars, carryVars, stopVars,
                 userVars, historyVars>>

(* Mutant of JoinWorker: stopCurrentJob takes the only unit. *)
JoinWorkerBare ==
  /\ pc[Main] = "join_worker"
  /\ Goto(Main, "stop_lock")
  /\ UNCHANGED <<running, crashed, processorVars, workerVars, taskVars, carryVars,
                 stopVars, userVars, historyVars>>

(* Worker::join: one more unit for job_sem, stopCurrentJob, join2. *)
JoinWorker ==
  /\ pc[Main] = "join_worker"
  /\ job_sem' = Up(job_sem, at[Main])
  /\ Goto(Main, "stop_lock")
  /\ UNCHANGED <<running, crashed, processorVars, stop_sem, current_job, taskVars, carryVars,
                 stopVars, userVars, historyVars>>

JoinWait ==
  /\ pc[Main] = "join_wait" /\ pc[at[Main]] = "exit"
  /\ IF at[Main] = NCores - 1
     THEN Goto(Main, "joined") /\ UNCHANGED at
     ELSE Goto(Main, "join_worker") /\ at' = [at EXCEPT ![Main] = @ + 1]
  /\ UNCHANGED <<running, crashed, processorVars, workerVars, taskVars, carryVars, victim,
                 userVars, historyVars>>

Join == JoinThreads \/ JoinWorker \/ StopCurrentJob(Main) \/ JoinWait

-----------------------------------------------------------------------------
DispatcherStep(d) == Release(d) \/ DispatcherExit(d) \/ InsertJobToQueue(d)

Step == \/ \E d \in Dispatcher : DispatcherStep(d)
        \/ \E c \in Core : Worker(c) \/ LoadTimeout(c)
        \/ ThermalApproach
        \/ EndRun \/ Join

(* After the join, or after a crash, the program is over. *)
Over == crashed \/ pc[Main] = "joined"
Terminated == Over /\ UNCHANGED vars

Next == (~crashed /\ Step) \/ Terminated

Spec == Init /\ [][Next]_vars

-----------------------------------------------------------------------------
(* Properties *)

(* Where a thread can be. *)
Label == {"release", "sleep", "loop", "ins_lock", "ins_push", "ins_unlock", "load_lock",
          "load_number", "load_pop", "loaded", "set_job", "fire", "clear", "stop_lock",
          "stop_post", "stop_wait", "preempt_insert", "call", "returned", "reinsert",
          "lock_queue", "lock_job", "join_threads", "join_worker", "join_wait", "joined", "exit"}

(* The types of all variables. *)
TypeOK ==
  /\ running \in BOOLEAN /\ crashed \in BOOLEAN
  /\ taskqueue_sem \in [Core -> Nat]
  /\ jobnumber_sem \in [Core -> Nat]
  /\ queue \in [Core -> Seq(Job)]
  /\ job_sem \in [Core -> Nat]
  /\ stop_sem \in [Core -> Nat]
  /\ current_job \in [Core -> MaybeJob]
  /\ load_stop_sem \in [Job -> Nat]
  /\ count \in [Job -> 0..(Wcet - 1)]
  /\ nextCoreId \in [Job -> Int]
  /\ finished \in [Job -> BOOLEAN]
  /\ jobCounter \in [Dispatcher -> 0..MaxJobs]
  /\ pc \in [Thread -> Label]
  /\ hand \in [Thread -> MaybeJob]
  /\ dest \in [Thread -> Core]
  /\ at \in [Stopper -> Core]
  /\ victim \in [Stopper -> MaybeJob]
  /\ call \in [op : {"none", "migrate", "preempt", "reinsert"}, slot : BOOLEAN, position : Nat]
  /\ locked \in BOOLEAN
  /\ done \subseteq Job /\ stopped \subseteq Job
  /\ stages \in [Job -> SUBSET Core]

(* The job worker c is working on: current_job stays set for a while after  *)
(* the job was reported, stopped or handed to the next stage.               *)
Serving(c) == IF pc[c] \in {"loop", "load_lock", "load_number", "load_pop", "loaded", "fire", "exit"}
              THEN current_job[c] ELSE NoJob

Released(j) == j[2] <= jobCounter[j[1]]

Queued(j)   == UNION {{c} \X {i \in DOMAIN queue[c] : queue[c][i] = j} : c \in Core}
Carrying(j) == {t \in Thread : hand[t] = j}
ServedBy(j) == {c \in Core : Serving(c) = j}
One(b)      == IF b THEN 1 ELSE 0

(* No job is lost, and none is in two places: whatever the thermal approach *)
(* moves, preempts or migrates and whenever the run ends, a released job is *)
(* at one position of one queue, or in the hand of one thread, or on one    *)
(* core, or stopped, or reported to cmi->finishedJob, and nowhere else.     *)
JobInOnePlace ==
  \A j \in Job :
    Cardinality(Queued(j)) + Cardinality(Carrying(j)) + Cardinality(ServedBy(j))
      + One(j \in stopped) + One(j \in done) = One(Released(j))

(* Threads that have inserted a job and not yet posted jobnumber_sems.      *)
Posting(c) == {t \in Thread : pc[t] = "ins_unlock" /\ dest[t] = c}

(* jobnumber_sems counts the jobs of the queue that are announced: as long  *)
(* as only insertJobToQueue and tryLoadJob touch the queues, every token is *)
(* backed by a job, so a worker that got one during the run never pops NULL.*)
(* The end of the run adds two units to wake the worker.                    *)
TokensMatchJobs ==
  \A c \in Core :
    LET tokens    == jobnumber_sem[c] + One(pc[c] = "load_pop")
        announced == Len(queue[c]) - Cardinality(Posting(c))
    IN IF running THEN tokens = announced ELSE tokens \in announced..(announced + 2)

(* Who holds a unit of taskqueue_sems[c].                                   *)
Inserting(c) == {t \in Thread : pc[t] \in {"ins_push", "ins_unlock"} /\ dest[t] = c}
LockedQueue(c) == \/ locked \/ pc[Thermal] = "lock_job"
                  \/ pc[Thermal] = "lock_queue" /\ c < at[Thermal]
Preempting(c) == /\ pc[Thermal] \in {"stop_lock", "stop_post", "stop_wait", "preempt_insert"}
                 /\ call.op = "preempt" /\ call.slot /\ at[Thermal] = c

(* "At most two threads can access a task queue" (Processor's constructor): *)
(* every unit of taskqueue_sems is either free or held by exactly one       *)
(* thread, in every interleaving of inserts, loads, time-outs, preemptions  *)
(* and lockAllJobs; none leaks and none is made but the two of the run's end*)
QueueSlots ==
  \A c \in Core :
    taskqueue_sem[c] + Cardinality(Inserting(c)) + One(pc[c] \in {"load_number", "load_pop"})
      + One(LockedQueue(c)) + One(Preempting(c)) = IF running THEN 2 ELSE 4

(* Whether the thermal approach holds job_sem of core c.                    *)
HoldsJob(c) == \/ locked
               \/ pc[Thermal] = "lock_job" /\ c < at[Thermal]
               \/ pc[Thermal] \in {"stop_post", "stop_wait"} /\ at[Thermal] = c

(* Worker.h on lockCurrentJob: while the thermal approach holds job_sem of  *)
(* a core, nobody else changes which job that core is on.                   *)
LockedJobStays ==
  [][\A c \in Core : HoldsJob(c) /\ pc'[Thermal] = pc[Thermal] => current_job'[c] = current_job[c]]_vars

(* stopCurrentJob "waits the worker exits task->fire()": as long as its     *)
(* caller has the job it returned, the worker of that core is not in fire,  *)
(* so no job is executed behind the back of whoever took it away.           *)
StopReturnsIdleCore ==
  /\ pc[Thermal] \in {"ins_lock", "preempt_insert"} /\ hand[Thermal] # NoJob
       => pc[at[Thermal]] # "fire"
  /\ pc[Main] = "join_wait" /\ victim[Main] # NoJob => pc[at[Main]] # "fire"

(* A core index that is out of range, counted by a Pipelined job that has   *)
(* been moved back. *)
CountedPastLastCore ==
  \E c \in Core : /\ pc[c] = "ins_lock" /\ hand[c] # NoJob /\ hand[c][1] \in PipelinedTask
                  /\ nextCoreId[hand[c]] \notin Core

(* stopCurrentJob reads current_job again after its test for NULL           *)
(* (Worker.cpp:99 and 107).  In taskMigrate and preemptCurrentJobOnCore     *)
(* that is safe in every interleaving with the worker, which job_sem keeps  *)
(* from clearing it: the program crashes there only in join_all, where      *)
(* Worker::join has posted job_sem once more, and nowhere else but at the   *)
(* index of a Pipelined job moved back.                                     *)
NoOtherCrash ==
  crashed => \/ pc[Main] = "stop_wait" /\ current_job[at[Main]] = NoJob
             \/ CountedPastLastCore

(* Who waits for whom.  A thread waits at a semaphore of value zero until   *)
(* one of those that hold a unit posts it; a timed wait ends by itself.     *)
QueueHolders(c) == Inserting(c) \cup {t \in {c} : pc[t] \in {"load_number", "load_pop"}}
                     \cup {t \in {Thermal} : LockedQueue(c) \/ Preempting(c)}
JobHolders(c) == {t \in {Thermal} : HoldsJob(c)}
                   \cup {t \in {Main} : pc[t] \in {"stop_post", "stop_wait"} /\ at[t] = c}
WaitsForQueue(t, c) == /\ taskqueue_sem[c] = 0
                       /\ \/ pc[t] = "ins_lock" /\ dest[t] = c
                          \/ t = Thermal /\ pc[t] = "lock_queue" /\ at[t] = c
WaitsForJob(t, c) == /\ job_sem[c] = 0
                     /\ \/ t = c /\ pc[t] \in {"set_job", "clear"}
                        \/ t \in Stopper /\ pc[t] \in {"lock_job", "stop_lock"} /\ at[t] = c
                        \/ t = Thermal /\ pc[t] = "loop" /\ running
WaitsForThread(t, u) ==
  \/ t \in Stopper /\ pc[t] = "stop_wait" /\ u = at[t] /\ stop_sem[u] = 0
  \/ t = Main /\ pc[t] = "join_wait" /\ u = at[t] /\ pc[u] # "exit"
  \/ t = Main /\ pc[t] = "join_threads" /\ u \in Dispatcher \cup {Thermal} /\ pc[u] # "exit"

WaitsFor(t, u) == \/ \E c \in Core : WaitsForQueue(t, c) /\ u \in QueueHolders(c)
                  \/ \E c \in Core : WaitsForJob(t, c) /\ u \in JobHolders(c)
                  \/ WaitsForThread(t, u)
Blocked(t) == \/ \E c \in Core : WaitsForQueue(t, c) \/ WaitsForJob(t, c)
            \/ \E u \in Thread : WaitsForThread(t, u)
GoesOn(t) == ~Blocked(t) /\ pc[t] # "exit"

(* The only deadlock of the program is that of stopCurrentJob (see          *)
(* MigrationReturns): unless the thermal approach is caught in it, a thread *)
(* that waits does so for one that goes on; main alone, in join_all, may    *)
(* wait for one that waits for such a thread.  The two units of each task   *)
(* queue and the extra post of Worker::join are there for this.             *)
DeadlockOnlyInStop ==
  \/ pc[Thermal] \in {"stop_lock", "stop_wait"} /\ Blocked(Thermal)
  \/ \A t \in Thread : Blocked(t) =>
       \E u \in Thread :
         /\ WaitsFor(t, u)
         /\ GoesOn(u) \/ (t = Main /\ \E v \in Thread : WaitsFor(u, v) /\ GoesOn(v))

(* A Pipelined job is reported as finished only by the last core, and if it *)
(* has started on core 0 only after every core has executed its stage       *)
(* (Enumerations.h: "the task is divided into several sub-tasks. They are   *)
(* executed serially by several cores").  newJob starts it where the        *)
(* allocator says, by default round robin; one that has started elsewhere   *)
(* skips stages.  Holds as long as no CMI call moves or stops jobs.         *)
PipelineComplete ==
  \A j \in done : j[1] \in PipelinedTask =>
    NCores - 1 \in stages[j] /\ (0 \in stages[j] => stages[j] = Core)

(* A Pipelined job keeps its own count of stages (nextCoreId) apart from    *)
(* the core that its worker runs on, and counts from 0 wherever the         *)
(* allocator has started it.  As long as no CMI call moves or stops jobs,   *)
(* it is at the core it counts from its second stage on: it has been        *)
(* executed by the core s where it started, then by cores 1 to c-1, and by  *)
(* no other.                                                                *)
StagesInOrder ==
  \A j \in Job : j[1] \in PipelinedTask =>
    \A c \in Core : Serving(c) = j \/ (\E i \in DOMAIN queue[c] : queue[c][i] = j) =>
      \/ nextCoreId[j] = 0 /\ stages[j] = {}
      \/ /\ nextCoreId[j] = c /\ c # 0
         /\ \E s \in 0..(NCores - 2) : stages[j] = {s} \cup 1..(c - 1)

-----------------------------------------------------------------------------
(* The abstract view of jobs *)

Waiting == (UNION {{queue[c][i] : i \in DOMAIN queue[c]} : c \in Core})
             \cup ({hand[t] : t \in Thread} \ {NoJob}) \cup stopped

OnCore == [c \in Core |-> Serving(c)]

Lifecycle == INSTANCE JobLifecycle WITH
               waiting <- Waiting, serving <- OnCore, completed <- done

(* Every step of the threads is a step of a job's life or changes nothing   *)
(* of it: jobs start from waiting, on an idle core, and finish once.        *)
ImplementsLifecycle == Lifecycle!Spec

-----------------------------------------------------------------------------
(* Fairness: the threads run at real-time priorities, so one that can move  *)
(* does.  A thread blocked on a semaphore gets it if it is free again and   *)
(* again: SCHED_FIFO wakes waiters in order, and the online approach sleeps *)
(* a period between its calls.  Nothing is assumed of LoadTimeout, of the   *)
(* release of the next job, or that the run ends.                           *)
Fairness ==
  /\ \A d \in Dispatcher : SF_vars(~crashed /\ (InsertJobToQueue(d) \/ DispatcherExit(d)))
  /\ \A d \in Aperiodic : WF_vars(~crashed /\ Release(d))
  /\ \A c \in Core : SF_vars(~crashed /\ Worker(c))
  /\ SF_vars(~crashed /\ ThermalReturn)
  /\ SF_vars(~crashed /\ ThermalApproach)
  /\ WF_vars(~crashed /\ Join)

FairSpec == Spec /\ Fairness

(* While the run lasts, every job a dispatcher has released is finished,    *)
(* through all its stages.                                                  *)
JobsServed == \A j \in Job : Released(j) ~> (j \in done \/ ~running)

(* The two reads of current_job in join_all find the same job.  Nothing in  *)
(* the code guarantees it: the unit that Worker::join has posted lets a     *)
(* worker in clear have job_sem between the two, and line 107 then uses a   *)
(* NULL pointer (NoOtherCrash).                                             *)
JoinKeepsJob == [](pc[Main] = "stop_post" => current_job[at[Main]] # NoJob)

(* Provided that JoinKeepsJob, once the time is up every thread comes to    *)
(* its end and is joined ("wait them to finish", Processor.cpp:294).        *)
RunEnds == JoinKeepsJob => (~running ~> pc[Main] = "joined")

-----------------------------------------------------------------------------
(* What the comments promise and the code does not keep.                    *)

(* CMI.cpp on lockAllJobs: "No job can inserted into any job queue, No job  *)
(* can be poped from its queue": between lockAllJobs and unlockAllJobs only *)
(* the thermal approach itself changes a queue.                             *)
LockedQueuesStill == [][locked /\ pc'[Thermal] = pc[Thermal] => UNCHANGED queue]_vars

(* Processor::tryLoadJob: "wait if there is no job in the queue": a worker  *)
(* waits for jobnumber_sems only while its queue holds no announced job.    *)
WaitsOnlyIfEmpty ==
  \A c \in Core : pc[c] = "load_number" /\ jobnumber_sem[c] = 0
                    => Len(queue[c]) <= Cardinality(Posting(c))

(* CMI.cpp on taskMigrate: "Move the task currently running on core         *)
(* source_core_id to the job queue of core target_core_id": a migration     *)
(* that found a running job comes to its end.                               *)
MigrationReturns == pc[Thermal] = "stop_wait" ~> pc[Thermal] # "stop_wait" \/ crashed
=============================================================================
