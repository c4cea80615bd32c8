------------------------- MODULE ExecutionInterrupter -------------------------
(***************************************************************************)
(* How the execution of a worker is interrupted: the power manager puts it *)
(* to sleep and wakes it, the temperature watcher has it read its          *)
(* performance counters, awake or asleep, and the main thread wakes        *)
(* everybody when the run is over.                                         *)
(*                                                                         *)
(* One variable per object of core/ExecutionInterrupter, and of Worker and *)
(* Processor as far as interruptions need them.  A semaphore is its value. *)
(* A step is one access to an object other threads can see.  state_sem     *)
(* guards papi_read_sem and current_state, source_vector_sem and           *)
(* Worker::state_sem guard one access each and belong to it.               *)
(***************************************************************************)
EXTENDS Integers, Sequences, FiniteSets

CONSTANTS
  NCores,                        \* number of workers
  PowerManager, TempWatcher, Main, \* the threads that interrupt workers
  MaxInterrupts, \* bound: rows of state tables applied and samples started, together
  MaxSamples     \* bound: periods of the temperature watcher

Core   == 0..(NCores - 1)
Caller == {PowerManager, TempWatcher, Main}
Thread == Core \cup Caller
Source == {"PROCESSOR", "POWERMANAGER", "TEMPWATCHER"}

ASSUME CoresAssumption   == NCores \in Nat \ {0}
ASSUME CallersAssumption == /\ Core \cap Caller = {}
                            /\ PowerManager # TempWatcher
                            /\ PowerManager # Main /\ TempWatcher # Main
ASSUME LimitsAssumption  == MaxInterrupts \in Nat /\ MaxSamples \in Nat

VARIABLES
  running,                                    \* Processor::running
  suspend_sem, resume_sem, papi_read_sem,     \* per core, of its interrupter
  state_sem, current_state, resume_sem_sources,
  state,             \* per core: Worker::state
  current_job,       \* per core: is there one?
  load_stop_sem,     \* per core: stop_sem of the load of that job
  papireading_sem,   \* per core: Processor::papireading_sems
  values,            \* per core: the sample its counters were read for, 0 if cleared
  pc,                \* per thread: where it is
  from,              \* per core: the place that called checkInterrupts
  aux,               \* per core: what tryLoadJob returned
  at,                \* per caller: the core under way
  rows, sample,      \* rows applied, samples started
  timeouts,          \* the cores this sample had to give up on
  wakes,             \* Main: resumeExecution calls still to make for at[Main]
  late, doubled      \* history: cores on which some sample was given up; cores
                     \* deactivated by a row of frequency zero while in _sleep

signalVars == <<suspend_sem, resume_sem, resume_sem_sources>>
stateVars  == <<state_sem, current_state>>
papiVars   == <<papi_read_sem, papireading_sem, values>>
jobVars    == <<current_job, load_stop_sem, aux>>
tempVars   == <<sample, timeouts, late>>
rowVars   == <<rows, doubled>>
vars == <<running, signalVars, stateVars, papiVars, jobVars, state, pc, from, at,
          rowVars, tempVars, wakes>>

Goto(t, label) == pc' = [pc EXCEPT ![t] = label]
Up(sem, c)     == [sem EXCEPT ![c] = @ + 1]
Down(sem, c)   == [sem EXCEPT ![c] = @ - 1]

Init ==
  /\ running = TRUE
  /\ suspend_sem = [c \in Core |-> 0]
  /\ resume_sem = [c \in Core |-> 0]
  /\ papi_read_sem = [c \in Core |-> 0]
  /\ state_sem = [c \in Core |-> 1]
  /\ current_state = [c \in Core |-> "NOT_FIRED"]
  /\ resume_sem_sources = [c \in Core |-> << >>]
  /\ state = [c \in Core |-> "_active"]
  /\ current_job = [c \in Core |-> FALSE]
  /\ load_stop_sem = [c \in Core |-> 0]
  /\ papireading_sem = [c \in Core |-> 0]
  /\ values = [c \in Core |-> 0]
  /\ pc = [t \in Thread |-> IF t \in Core THEN "begin"
                       ELSE IF t = PowerManager THEN "row"
                       ELSE IF t = TempWatcher THEN "sample" ELSE "run"]
  /\ from = [c \in Core |-> "loop"]
  /\ aux = [c \in Core |-> FALSE]
  /\ at = [t \in Caller |-> 0]
  /\ rows = 0 /\ sample = 0 /\ timeouts = {} /\ wakes = 0
  /\ late = {} /\ doubled = {}

-----------------------------------------------------------------------------
(* Mutant of PushSource: a source that is already listed is not listed again. *)
PushSourceOnce(t, source) ==
  resume_sem_sources' =
    [resume_sem_sources EXCEPT ![at[t]] =
       IF \E i \in DOMAIN @ : @[i] = source THEN @ ELSE Append(@, source)]

(* The two halves of resumeExecution(source) by thread t for core at[t]:    *)
(* the source is listed before the unit is posted.                          *)
PushSource(t, source) ==
  resume_sem_sources' = [resume_sem_sources EXCEPT ![at[t]] = Append(@, source)]

PostResume(t) == resume_sem' = Up(resume_sem, at[t])

-----------------------------------------------------------------------------
(* Worker c: the loop of wrapper, with checkInterrupts in its three places. *)

InformExecutionBegin(c) ==
  /\ pc[c] = "begin" /\ state_sem[c] > 0
  /\ current_state' = [current_state EXCEPT ![c] = "IS_EXECUTING"]
  /\ Goto(c, "loop")
  /\ UNCHANGED <<running, signalVars, state_sem, papiVars, jobVars, state, from, at,
                 rowVars, tempVars, wakes>>

WorkerLoop(c) ==
  /\ pc[c] = "loop"
  /\ IF running THEN Goto(c, "check") /\ from' = [from EXCEPT ![c] = "loop"]
                ELSE Goto(c, "exit") /\ UNCHANGED from
  /\ UNCHANGED <<running, signalVars, stateVars, papiVars, jobVars, state, at, rowVars,
                 tempVars, wakes>>

(* Mutant of CheckInterrupts: the request is seen and not consumed. *)
CheckInterruptsKeeps(c) ==
  /\ pc[c] = "check" /\ state_sem[c] > 0
  /\ state_sem' = Down(state_sem, c)
  /\ IF papi_read_sem[c] > 0
     THEN Goto(c, "read")
     ELSE Goto(c, "suspend")
  /\ UNCHANGED <<running, signalVars, current_state, papiVars, jobVars,
                 state, from, at, rowVars, tempVars, wakes>>

(* checkInterrupts enters its critical section and looks for a request to   *)
(* read the counters; papi_read_sem is only posted under state_sem.         *)
CheckInterrupts(c) ==
  /\ pc[c] = "check" /\ state_sem[c] > 0
  /\ state_sem' = Down(state_sem, c)
  /\ IF papi_read_sem[c] > 0
     THEN papi_read_sem' = Down(papi_read_sem, c) /\ Goto(c, "read")
     ELSE Goto(c, "suspend") /\ UNCHANGED papi_read_sem
  /\ UNCHANGED <<running, signalVars, current_state, papireading_sem, values, jobVars,
                 state, from, at, rowVars, tempVars, wakes>>

(* readPAPIValues reads the counters, then informs the watcher.             *)
ReadCounters(c) ==
  /\ pc[c] \in {"read", "read_asleep"}
  /\ values' = [values EXCEPT ![c] = sample]
  /\ Goto(c, IF pc[c] = "read" THEN "inform" ELSE "inform_asleep")
  /\ UNCHANGED <<running, signalVars, stateVars, papi_read_sem, papireading_sem, jobVars,
                 state, from, at, rowVars, tempVars, wakes>>

InformPAPIReadingFinish(c) ==
  /\ pc[c] = "inform"
  /\ papireading_sem' = Up(papireading_sem, c)
  /\ Goto(c, "suspend")
  /\ UNCHANGED <<running, signalVars, stateVars, papi_read_sem, values, jobVars, state,
                 from, at, rowVars, tempVars, wakes>>

(* The end of readPAPIValues in the sleeping loop, which goes on sleeping.  *)
InformAsleep(c) ==
  /\ pc[c] = "inform_asleep"
  /\ papireading_sem' = Up(papireading_sem, c)
  /\ state_sem' = Up(state_sem, c)
  /\ Goto(c, "asleep")
  /\ UNCHANGED <<running, signalVars, current_state, papi_read_sem, values, jobVars, state,
                 from, at, rowVars, tempVars, wakes>>

(* Where the worker goes on when checkInterrupts returns.                   *)
AfterCheck(c) == IF from[c] = "load" THEN "loaded"
                 ELSE IF from[c] = "fire" THEN "fire"
                 ELSE IF current_job[c] THEN "begin_fire" ELSE "load"

CheckReturns(c) == Goto(c, AfterCheck(c)) /\ from' = [from EXCEPT ![c] = "loop"]

(* No unit of suspend_sem: checkInterrupts returns.                         *)
NotSuspended(c) ==
  /\ pc[c] = "suspend" /\ suspend_sem[c] = 0
  /\ current_state' = [current_state EXCEPT ![c] = "IS_EXECUTING"]
  /\ state_sem' = Up(state_sem, c)
  /\ CheckReturns(c)
  /\ UNCHANGED <<running, signalVars, papiVars, jobVars, state, at, rowVars, tempVars,
                 wakes>>

(* Mutant of FallAsleep: what is left in resume_sem is cleared first. *)
FallAsleepDrains(c) ==
  /\ pc[c] = "suspend" /\ suspend_sem[c] > 0
  /\ suspend_sem' = Down(suspend_sem, c)
  /\ current_state' = [current_state EXCEPT ![c] = "IS_SLEEPING"]
  /\ state_sem' = Up(state_sem, c)
  /\ Goto(c, "asleep")
  /\ resume_sem' = [resume_sem EXCEPT ![c] = 0]
  /\ resume_sem_sources' =
       [resume_sem_sources EXCEPT ![c] = SubSeq(@, resume_sem[c] + 1, Len(@))]
  /\ UNCHANGED <<running, papiVars, jobVars, state, from,
                 at, rowVars, tempVars, wakes>>

(* A unit of suspend_sem: the worker sleeps, and lets go of state_sem.      *)
FallAsleep(c) ==
  /\ pc[c] = "suspend" /\ suspend_sem[c] > 0
  /\ suspend_sem' = Down(suspend_sem, c)
  /\ current_state' = [current_state EXCEPT ![c] = "IS_SLEEPING"]
  /\ state_sem' = Up(state_sem, c)
  /\ Goto(c, "asleep")
  /\ UNCHANGED <<running, resume_sem, resume_sem_sources, papiVars, jobVars, state, from,
                 at, rowVars, tempVars, wakes>>

WaitResume(c) ==
  /\ pc[c] = "asleep" /\ resume_sem[c] > 0
  /\ resume_sem' = Down(resume_sem, c)
  /\ Goto(c, "resumed")
  /\ UNCHANGED <<running, suspend_sem, resume_sem_sources, stateVars, papiVars, jobVars,
                 state, from, at, rowVars, tempVars, wakes>>

(* Mutant of TakeSource: the lock is given back before the counters are read. *)
TakeSourceUnlocks(c) ==
  /\ pc[c] = "resumed" /\ state_sem[c] > 0
  /\ resume_sem_sources' = [resume_sem_sources EXCEPT ![c] = Tail(@)]
  /\ IF Head(resume_sem_sources[c]) = "TEMPWATCHER"
     THEN /\ current_state' = [current_state EXCEPT ![c] = "IS_SLEEPING"]
          /\ Goto(c, "read_asleep")
          /\ UNCHANGED <<from, state_sem>>
     ELSE /\ current_state' = [current_state EXCEPT ![c] = "IS_EXECUTING"]
          /\ CheckReturns(c)
          /\ UNCHANGED state_sem
  /\ UNCHANGED <<running, suspend_sem, resume_sem, papiVars, jobVars, state, at,
                 rowVars, tempVars, wakes>>

(* The first listed source says whether the worker wakes up.                *)
TakeSource(c) ==
  /\ pc[c] = "resumed" /\ state_sem[c] > 0
  /\ resume_sem_sources' = [resume_sem_sources EXCEPT ![c] = Tail(@)]
  /\ IF Head(resume_sem_sources[c]) = "TEMPWATCHER"
     THEN /\ current_state' = [current_state EXCEPT ![c] = "IS_SLEEPING"]
          /\ state_sem' = Down(state_sem, c)
          /\ Goto(c, "read_asleep")
          /\ UNCHANGED from
     ELSE /\ current_state' = [current_state EXCEPT ![c] = "IS_EXECUTING"]
          /\ CheckReturns(c)
          /\ UNCHANGED state_sem
  /\ UNCHANGED <<running, suspend_sem, resume_sem, papiVars, jobVars, state, at,
                 rowVars, tempVars, wakes>>

(* tryLoadJob answers with a job or NULL; checkInterrupts follows.          *)
TryLoadJob(c) ==
  /\ pc[c] = "load"
  /\ \E answer \in BOOLEAN : aux' = [aux EXCEPT ![c] = answer]
  /\ Goto(c, "check")
  /\ from' = [from EXCEPT ![c] = "load"]
  /\ UNCHANGED <<running, signalVars, stateVars, papiVars, current_job, load_stop_sem, state,
                 at, rowVars, tempVars, wakes>>

(* The inner loop ends with a job or with the run; a new job has a new load. *)
Loaded(c) ==
  /\ pc[c] = "loaded"
  /\ IF aux[c] \/ ~running
     THEN /\ current_job' = [current_job EXCEPT ![c] = aux[c]]
          /\ load_stop_sem' = [load_stop_sem EXCEPT ![c] = 0]
          /\ Goto(c, "loop")
     ELSE Goto(c, "load") /\ UNCHANGED <<current_job, load_stop_sem>>
  /\ aux' = [aux EXCEPT ![c] = FALSE]
  /\ UNCHANGED <<running, signalVars, stateVars, papiVars, state, from, at, rowVars,
                 tempVars, wakes>>

BeginFire(c) ==
  /\ pc[c] = "begin_fire"
  /\ Goto(c, "check")
  /\ from' = [from EXCEPT ![c] = "fire"]
  /\ UNCHANGED <<running, signalVars, stateVars, papiVars, jobVars, state, at, rowVars,
                 tempVars, wakes>>

(* An iteration of the load after its suspend point: it is stopped, or      *)
(* works and goes on or completes.                                          *)
Fire(c) ==
  /\ pc[c] = "fire"
  /\ \/ /\ load_stop_sem[c] > 0
        /\ load_stop_sem' = Down(load_stop_sem, c)
        /\ Goto(c, "clear")
     \/ /\ load_stop_sem[c] = 0
        /\ Goto(c, "check") \/ Goto(c, "clear")
        /\ UNCHANGED load_stop_sem
  /\ UNCHANGED <<running, signalVars, stateVars, papiVars, current_job, aux, state, from, at,
                 rowVars, tempVars, wakes>>

ClearJob(c) ==
  /\ pc[c] = "clear"
  /\ current_job' = [current_job EXCEPT ![c] = FALSE]
  /\ Goto(c, "loop")
  /\ UNCHANGED <<running, signalVars, stateVars, papiVars, load_stop_sem, aux, state, from,
                 at, rowVars, tempVars, wakes>>

Worker(c) ==
  \/ InformExecutionBegin(c) \/ WorkerLoop(c)
  \/ CheckInterrupts(c) \/ ReadCounters(c) \/ InformPAPIReadingFinish(c)
  \/ InformAsleep(c) \/ NotSuspended(c) \/ FallAsleep(c) \/ WaitResume(c) \/ TakeSource(c)
  \/ TryLoadJob(c) \/ Loaded(c) \/ BeginFire(c) \/ Fire(c) \/ ClearJob(c)

-----------------------------------------------------------------------------
(* The power manager applies a row of some core: changePower.               *)

(* A row of frequency zero: Worker::deactivate. *)
Deactivate(c) ==
  /\ pc[PowerManager] = "row" /\ running /\ rows + sample < MaxInterrupts
  /\ rows' = rows + 1
  /\ doubled' = IF state[c] = "_sleep" THEN doubled \cup {c} ELSE doubled
  /\ state' = [state EXCEPT ![c] = "_sleep"]
  /\ at' = [at EXCEPT ![PowerManager] = c]
  /\ Goto(PowerManager, "suspend_post")
  /\ UNCHANGED <<running, signalVars, stateVars, papiVars, jobVars, from, tempVars, wakes>>

SuspendExecution ==
  /\ pc[PowerManager] = "suspend_post"
  /\ suspend_sem' = Up(suspend_sem, at[PowerManager])
  /\ Goto(PowerManager, "row")
  /\ UNCHANGED <<running, resume_sem, resume_sem_sources, stateVars, papiVars, jobVars,
                 state, from, at, rowVars, tempVars, wakes>>

(* Mutant of NeedsActivation: the test of isActive is left out. *)
NeedsActivationAlways(c) == TRUE

(* A row with a frequency wakes the core only if it was put to sleep. *)
NeedsActivation(c) == state[c] = "_sleep"

(* A row with a frequency: Worker::activate, if the core is not active.     *)
Activate(c) ==
  /\ pc[PowerManager] = "row" /\ running /\ rows + sample < MaxInterrupts
  /\ NeedsActivation(c)
  /\ rows' = rows + 1
  /\ state' = [state EXCEPT ![c] = "_active"]
  /\ at' = [at EXCEPT ![PowerManager] = c]
  /\ Goto(PowerManager, "resume_push")
  /\ UNCHANGED <<running, doubled, signalVars, stateVars, papiVars, jobVars, from, tempVars, wakes>>

ActivatePush ==
  /\ pc[PowerManager] = "resume_push"
  /\ PushSource(PowerManager, "POWERMANAGER")
  /\ Goto(PowerManager, "resume_post")
  /\ UNCHANGED <<running, suspend_sem, resume_sem, stateVars, papiVars, jobVars, state,
                 from, at, rowVars, tempVars, wakes>>

ActivatePost ==
  /\ pc[PowerManager] = "resume_post"
  /\ PostResume(PowerManager)
  /\ Goto(PowerManager, "row")
  /\ UNCHANGED <<running, suspend_sem, resume_sem_sources, stateVars, papiVars, jobVars,
                 state, from, at, rowVars, tempVars, wakes>>

PowerManagerExit ==
  /\ pc[PowerManager] = "row" /\ ~running
  /\ Goto(PowerManager, "exit")
  /\ UNCHANGED <<running, signalVars, stateVars, papiVars, jobVars, state, from, at, rowVars,
                 tempVars, wakes>>

PowerManagerNext ==
  \/ \E c \in Core : Deactivate(c) \/ Activate(c)
  \/ SuspendExecution \/ ActivatePush \/ ActivatePost \/ PowerManagerExit

-----------------------------------------------------------------------------
(* The temperature watcher: triggerAllPAPIReading, waitPAPIReading and      *)
(* getPAPIValues, core after core, once per period.                         *)

StartSample ==
  /\ pc[TempWatcher] = "sample" /\ running
  /\ sample < MaxSamples /\ rows + sample < MaxInterrupts
  /\ sample' = sample + 1
  /\ timeouts' = {}
  /\ at' = [at EXCEPT ![TempWatcher] = 0]
  /\ Goto(TempWatcher, "clear")
  /\ UNCHANGED <<running, signalVars, stateVars, papiVars, jobVars, state, from, rowVars, late,
                 wakes>>

ClearCounterValues ==
  /\ pc[TempWatcher] = "clear"
  /\ values' = [values EXCEPT ![at[TempWatcher]] = 0]
  /\ Goto(TempWatcher, "trigger")
  /\ UNCHANGED <<running, signalVars, stateVars, papi_read_sem, papireading_sem, jobVars,
                 state, from, at, rowVars, tempVars, wakes>>

(* On to the next core with `label', or, after the last one, with `after'.  *)
NextCore(label, after) ==
  IF at[TempWatcher] + 1 \in Core
  THEN Goto(TempWatcher, label) /\ at' = [at EXCEPT ![TempWatcher] = @ + 1]
  ELSE Goto(TempWatcher, after) /\ at' = [at EXCEPT ![TempWatcher] = 0]

(* A worker that executes gets a unit of papi_read_sem, one that has not    *)
(* begun gets nothing.                                                      *)
TriggerExecuting ==
  LET c == at[TempWatcher] IN
  /\ pc[TempWatcher] = "trigger" /\ state_sem[c] > 0
  /\ current_state[c] # "IS_SLEEPING"
  /\ IF current_state[c] = "IS_EXECUTING"
     THEN papi_read_sem' = Up(papi_read_sem, c) ELSE UNCHANGED papi_read_sem
  /\ NextCore("clear", "await")
  /\ UNCHANGED <<running, signalVars, stateVars, papireading_sem, values, jobVars, state,
                 from, rowVars, tempVars, wakes>>

(* A sleeping one is resumed with the watcher as the source; the watcher    *)
(* keeps state_sem until it has posted.                                     *)
TriggerSleeping ==
  LET c == at[TempWatcher] IN
  /\ pc[TempWatcher] = "trigger" /\ state_sem[c] > 0
  /\ current_state[c] = "IS_SLEEPING"
  /\ state_sem' = Down(state_sem, c)
  /\ PushSource(TempWatcher, "TEMPWATCHER")
  /\ Goto(TempWatcher, "resume_post")
  /\ UNCHANGED <<running, suspend_sem, resume_sem, current_state, papiVars, jobVars, state,
                 from, at, rowVars, tempVars, wakes>>

TriggerPost ==
  /\ pc[TempWatcher] = "resume_post"
  /\ PostResume(TempWatcher)
  /\ state_sem' = Up(state_sem, at[TempWatcher])
  /\ NextCore("clear", "await")
  /\ UNCHANGED <<running, suspend_sem, resume_sem_sources, current_state, papiVars, jobVars,
                 state, from, rowVars, tempVars, wakes>>

(* waitPAPIReading takes the answer of each worker, or gives up after 20 ms. *)
TakeReading ==
  LET c == at[TempWatcher] IN
  /\ pc[TempWatcher] = "await" /\ papireading_sem[c] > 0
  /\ papireading_sem' = Down(papireading_sem, c)
  /\ NextCore("await", IF timeouts = {} THEN "get" ELSE "sample")
  /\ UNCHANGED <<running, signalVars, stateVars, papi_read_sem, values, jobVars, state, from,
                 rowVars, tempVars, wakes>>

ReadingTimeout ==
  LET c == at[TempWatcher] IN
  /\ pc[TempWatcher] = "await" /\ papireading_sem[c] = 0
  /\ timeouts' = timeouts \cup {c}
  /\ late' = late \cup {c}
  /\ NextCore("await", "sample")
  /\ UNCHANGED <<running, signalVars, stateVars, papiVars, jobVars, state, from, rowVars,
                 sample, wakes>>

(* Every worker has answered: the values are read and converted. *)
GetPAPIValues ==
  /\ pc[TempWatcher] = "get"
  /\ Goto(TempWatcher, "sample")
  /\ UNCHANGED <<running, signalVars, stateVars, papiVars, jobVars, state, from, at, rowVars,
                 tempVars, wakes>>

TempWatcherExit ==
  /\ pc[TempWatcher] = "sample" /\ ~running
  /\ Goto(TempWatcher, "exit")
  /\ UNCHANGED <<running, signalVars, stateVars, papiVars, jobVars, state, from, at, rowVars,
                 tempVars, wakes>>

TempWatcherNext ==
  \/ StartSample \/ ClearCounterValues \/ TriggerExecuting \/ TriggerSleeping
  \/ TriggerPost \/ TakeReading \/ ReadingTimeout \/ GetPAPIValues \/ TempWatcherExit

-----------------------------------------------------------------------------
(* The main thread ends the run, waits for the other two and joins the      *)
(* workers in turn: Worker::join.                                           *)

EndRun ==
  /\ pc[Main] = "run"
  /\ running' = FALSE
  /\ Goto(Main, "join")
  /\ UNCHANGED <<signalVars, stateVars, papiVars, jobVars, state, from, at, rowVars, tempVars,
                 wakes>>

(* Mutant of JoinResumes: one call less. *)
JoinResumesTwice == 2

(* The resumeExecution calls of Worker::join before it stops the job. *)
JoinResumes == 3

BeginJoin ==
  /\ pc[Main] = "join"
  /\ pc[PowerManager] = "exit" /\ pc[TempWatcher] = "exit"
  /\ Goto(Main, "resume_push")
  /\ wakes' = JoinResumes
  /\ UNCHANGED <<running, signalVars, stateVars, papiVars, jobVars, state, from, at, rowVars,
                 tempVars>>

JoinPush ==
  /\ pc[Main] = "resume_push" /\ wakes > 0
  /\ PushSource(Main, "PROCESSOR")
  /\ Goto(Main, "resume_post")
  /\ UNCHANGED <<running, suspend_sem, resume_sem, stateVars, papiVars, jobVars, state,
                 from, at, rowVars, tempVars, wakes>>

JoinPost ==
  /\ pc[Main] = "resume_post"
  /\ PostResume(Main)
  /\ wakes' = wakes - 1
  /\ Goto(Main, "resume_push")
  /\ UNCHANGED <<running, suspend_sem, resume_sem_sources, stateVars, papiVars, jobVars,
                 state, from, at, rowVars, tempVars>>

(* stopCurrentJob at the end of join: a current job is stopped and its      *)
(* worker resumed once more before join waits for the thread.               *)
JoinStop ==
  /\ pc[Main] = "resume_push" /\ wakes = 0
  /\ IF current_job[at[Main]]
     THEN PushSource(Main, "PROCESSOR") /\ Goto(Main, "stop_post")
     ELSE Goto(Main, "await_exit") /\ UNCHANGED resume_sem_sources
  /\ UNCHANGED <<running, suspend_sem, resume_sem, stateVars, papiVars, jobVars, state,
                 from, at, rowVars, tempVars, wakes>>

JoinStopPost ==
  /\ pc[Main] = "stop_post"
  /\ PostResume(Main)
  /\ Goto(Main, "stop_load")
  /\ UNCHANGED <<running, suspend_sem, resume_sem_sources, stateVars, papiVars, jobVars,
                 state, from, at, rowVars, tempVars, wakes>>

(* current_job->stop().  The worker may have cleared its job since the test  *)
(* in JoinStop, for join has posted job_sem once more: a call through NULL.  *)
JoinStopLoad ==
  /\ pc[Main] = "stop_load"
  /\ \/ /\ current_job[at[Main]]
        /\ load_stop_sem' = Up(load_stop_sem, at[Main])
        /\ Goto(Main, "await_exit")
     \/ /\ ~current_job[at[Main]]
        /\ Goto(Main, "crashed")
        /\ UNCHANGED load_stop_sem
  /\ UNCHANGED <<running, signalVars, stateVars, papiVars, current_job, aux, state, from, at,
                 rowVars, tempVars, wakes>>

JoinReturns ==
  /\ pc[Main] = "await_exit" /\ pc[at[Main]] = "exit"
  /\ IF at[Main] + 1 \in Core
     THEN /\ at' = [at EXCEPT ![Main] = @ + 1]
          /\ wakes' = JoinResumes
          /\ Goto(Main, "resume_push")
     ELSE Goto(Main, "exit") /\ UNCHANGED <<at, wakes>>
  /\ UNCHANGED <<running, signalVars, stateVars, papiVars, jobVars, state, from, rowVars,
                 tempVars>>

JoinNext ==
  \/ BeginJoin \/ JoinPush \/ JoinPost
  \/ JoinStop \/ JoinStopPost \/ JoinStopLoad \/ JoinReturns

(* After the call through NULL nobody does anything any more.                *)
Crashed == pc[Main] = "crashed"

Step == \/ \E c \in Core : Worker(c)
        \/ PowerManagerNext \/ TempWatcherNext
        \/ EndRun \/ JoinNext

Terminated == Crashed \/ \A t \in Thread : pc[t] = "exit"

Next == \/ ~Crashed /\ Step
        \/ Terminated /\ UNCHANGED vars

Spec == Init /\ [][Next]_vars

(* A thread that can go on does; waiters of state_sem are served in order.  *)
(* Nothing is assumed of the rows of the tables and of the end of the run.  *)
Fairness ==
  /\ \A c \in Core : /\ WF_vars(~Crashed /\ Worker(c))
                     /\ SF_vars(~Crashed /\ CheckInterrupts(c))
                     /\ SF_vars(~Crashed /\ TakeSource(c))
  /\ WF_vars(SuspendExecution \/ ActivatePush \/ ActivatePost \/ PowerManagerExit)
  /\ WF_vars(TempWatcherNext)
  /\ SF_vars(TriggerExecuting \/ TriggerSleeping)
  /\ WF_vars(JoinNext)

FairSpec == Spec /\ Fairness

-----------------------------------------------------------------------------
(* Properties *)

TypeOK ==
  /\ running \in BOOLEAN
  /\ suspend_sem \in [Core -> Nat] /\ resume_sem \in [Core -> Nat]
  /\ papi_read_sem \in [Core -> Nat] /\ papireading_sem \in [Core -> Nat]
  /\ state_sem \in [Core -> {0, 1}]
  /\ current_state \in [Core -> {"NOT_FIRED", "IS_EXECUTING", "IS_SLEEPING"}]
  /\ resume_sem_sources \in [Core -> Seq(Source)]
  /\ state \in [Core -> {"_active", "_sleep"}]
  /\ current_job \in [Core -> BOOLEAN] /\ aux \in [Core -> BOOLEAN]
  /\ load_stop_sem \in [Core -> Nat]
  /\ values \in [Core -> Nat]
  /\ at \in [Caller -> Core]
  /\ from \in [Core -> {"loop", "load", "fire"}]
  /\ rows \in Nat /\ sample \in Nat /\ wakes \in Nat
  /\ timeouts \subseteq Core /\ late \subseteq Core /\ doubled \subseteq Core

One(condition) == IF condition THEN 1 ELSE 0

(* Threads that have listed a source for core c and not yet posted its unit. *)
Posting(t, c) == at[t] = c /\ pc[t] \in {"resume_post", "stop_post"}

(* Each unit of resume_sem, and each one a worker has taken, has its source  *)
(* in the list: front() in checkInterrupts never reads an empty list, though *)
(* three threads append and list and semaphore change in separate steps.     *)
SourcesCoverUnits ==
  \A c \in Core :
    Len(resume_sem_sources[c]) =
      resume_sem[c] + One(pc[c] = "resumed") + One(Posting(PowerManager, c))
        + One(Posting(TempWatcher, c)) + One(Posting(Main, c))

Asleep(c) == pc[c] \in {"asleep", "resumed", "read_asleep", "inform_asleep"}

Wakes(c) == Cardinality({i \in DOMAIN resume_sem_sources[c] :
                            resume_sem_sources[c][i] = "POWERMANAGER"})

(* Worker::state and the interrupter agree as long as no row of zero         *)
(* frequency of the core followed another one: what suspends a worker, taken *)
(* or not, is what wakes it plus one if the state is _sleep.  An active core *)
(* with no wake-up outstanding is awake, a deactivated one is asleep or      *)
(* about to be.                                                              *)
SuspendBalance ==
  pc[Main] \in {"run", "join"} =>
    \A c \in Core \ doubled :
      suspend_sem[c] + One(Asleep(c))
        + One(pc[PowerManager] = "suspend_post" /\ at[PowerManager] = c)
      = One(state[c] = "_sleep") + Wakes(c)
        + One(pc[PowerManager] = "resume_push" /\ at[PowerManager] = c)

(* When waitPAPIReading has returned 0, the values of every worker are of    *)
(* the sample under way (TempWatcher.cpp: "all workers have finished reading *)
(* PAPI values").                                                            *)
ReadingsFinished ==
  pc[TempWatcher] = "get" => \A c \in Core : values[c] = sample

(* The same for the workers that have always answered in time so far: no     *)
(* request is answered twice, none is left over, whether the worker executes *)
(* or sleeps, is about to fall asleep or is being woken.                     *)
PromptReadingsFinished ==
  pc[TempWatcher] = "get" => \A c \in Core \ late : values[c] = sample

(* A core that is active runs, or is put to sleep again (structdef.h: a      *)
(* latestSleepTime of 0, set with the state, means currently active).        *)
ActiveRuns ==
  \A c \in Core : state[c] = "_active" ~> (~Asleep(c) \/ state[c] = "_sleep")

(* The same for a core whose rows of zero frequency never followed each      *)
(* other: no interleaving of wake-ups and readings loses an activation.      *)
ActiveRunsIfSingle ==
  \A c \in Core : state[c] = "_active" ~>
                    (~Asleep(c) \/ state[c] = "_sleep" \/ c \in doubled)

(* How often a worker is asleep or will fall asleep for what was posted.     *)
Suspensions(c) == suspend_sem[c] + One(Asleep(c))
                    + One(pc[PowerManager] = "suspend_post" /\ at[PowerManager] = c)

(* The two reads of current_job in the stopCurrentJob of Worker::join find   *)
(* the same job.  Nothing in the code guarantees it, see JoinStopLoad.       *)
JoinKeepsJob == [](pc[Main] = "stop_load" => current_job[at[Main]])

(* Provided that JoinKeepsJob, the end of the run ends every worker, whatever*)
(* suspensions and requests to read are outstanding, and the joins return: if*)
(* no core is suspended more often than Worker::join calls resumeExecution,  *)
(* three times and once in stopCurrentJob.  With five suspensions a worker   *)
(* can sleep for ever.                                                       *)
RunEnds ==
  JoinKeepsJob =>
    (pc[Main] = "join" /\ (\A c \in Core : Suspensions(c) <= 4)
       ~> \A t \in Thread : pc[t] = "exit")
==============================================================================
