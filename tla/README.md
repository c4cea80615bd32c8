# A formal model of McFTP

McFTP runs real-time tasks on the cores of a multi-core machine to try out
thermal management policies.  This directory holds a TLA+ model of its
framework code (`src/src`), TLC configurations that check small instances, and
TLAPS proofs for all instances.  `PROJECT.json` lists components, runs, the map
from definitions to source lines, hazards, findings and theorems.

## 1. The system

All threads live in one process and share memory under POSIX semaphores.

| Component | Files (`src/src/`) | State | Operations | Talks to | What must hold |
|---|---|---|---|---|---|
| Job queue | `configuration/JobQueue` | list of task pointers, mutex `queue_sem` | insert at tail / at a position, peek, pop | called by everybody below | a job enters and leaves once; positions are truncated, NULL is ignored |
| Job transfer | `core/Processor` | `running`, a queue, `taskqueue_sems` (2) and `jobnumber_sems` (0) per core | `newJob`, `insertJobToQueue`, `tryLoadJob`, `finishedJob`, lock/unlock, `preemptCurrentJobOnCore`, end of `simulate`, `join_all` | dispatchers, workers, CMI | no job lost or doubled; tokens match jobs; slots balance |
| Dispatchers | `core/Dispatcher`, `dispatchers/*` | `jobCounter`, `dispatch_sem` (0), `now`, `deltaPeriod` | create and release jobs while running; sleep between | `Processor::newJob`, main | fresh job per release; releases keep their times; exit at the end |
| Workers and jobs | `core/Worker`, `core/Task`, `core/TaskLoad`, `tasks/*`, `taskloads/*` | `current_job`, `job_sem` (1), `stop_sem` (0); `finished`, `nextCoreId`, `load.stop_sem`, `count` per job | load, fire, clear; `stopCurrentJob`, `join`, lock | Processor, CMI, main | one core per job; a stopped job does not run on; all stages are executed |
| Online thermal approach | `core/ThermalApproach`, `CMI` | the call in progress, its locals | `lockAllJobs`, `unlockAllJobs`, `taskMigrate`, `preemptCurrentJobOnCore`, `advance`/`recedeJobInQueue`, `moveJobToAnotherQueue`, new state tables | Processor, Worker, PowerManager | calls return, keep jobs and balance semaphores |
| Suspension of a worker | `core/ExecutionInterrupter` | `suspend_sem`, `resume_sem` and its list of sources, `papi_read_sem`, `current_state` | `suspendExecution`, `resumeExecution`, `checkInterrupts`, `triggerPAPIReading` | PowerManager, TempWatcher, Worker | front() only on a non-empty list; an active worker is not asleep for ever; a sleeping worker does not execute |
| Power manager | `core/PowerManager`, `configuration/HyperStateTable`, `StateTable` | tables with a row index and a next action time, `interrupt_sem`, `nextCoreId` | apply the due row; take new tables | Worker (de)activation, thermal approach | rows in order and none early; no core starves |
| Temperature watcher | `core/TempWatcher`, `performance_counter`, `soft_temperature_sensor` | last samples, `papireading_sems` | trigger, wait 20 ms, read | workers' counters | a sample uses counters of its own period |
| Start-up and threads | `pthread/*`, `utils/Semaphores`, `Processor::initialize` | `thread_num`, `rtcinit_sem`, `init_sem`, `running_sem` | create threads, barriers, join | all threads | nobody runs before the start, everybody starts and is joined |
| Results | `results/Statistics`, logs | `runtimes` and its semaphore | record, write at the end | all threads, main | every thread's record is in the file |
| Time arithmetic | `utils/Operators`, `TimeUtil` | none | `+ - * <` on timespec, conversions | everywhere | results are normalised and order-preserving |
| Configuration, loads | `Scratch`, `Parser`, `Benchmark`, `benchmarks` | static data | read at start | - | - |

Hard behaviour: four kinds of threads insert and remove jobs at any moment;
`tryLoadJob` times out at two places; `stopCurrentJob` races with the completion
of the job it stops; calls of the user's approach are sequences of single
queue operations; the end of the run wakes everybody by surplus semaphore
units while jobs are still in motion; threads are joined in a fixed order; the
barriers of the start are counting semaphores that threads created later share
with those created earlier; a dispatcher computes its sleeps from readings of a
clock that goes on while it is late.
Nothing is persisted and no message can be lost, so there is no recovery
to model.

## 2. Modules

| Module | Contents |
|---|---|
| `JobQueue` | the list operations, as functions of the list |
| `Processor` | dispatchers, workers, thermal approach, main thread; all properties |
| `JobLifecycle` | the abstract specification: a job waits, is served by at most one core, finishes once |
| `MCProcessor` | constants for TLC: task identities, allocators |
| `ExecutionInterrupter` | how the power manager, the temperature watcher and the join interrupt workers |
| `Timespec` | points in time, their sum, difference and order |
| `StateTable` | the table of power states of a core and the cursor that walks through it |
| `PowerManager` | the thread that applies the rows of all tables, and the replacement of tables |
| `MCPowerManager` | tables for TLC; the operators of `Timespec` against integers |
| `Startup` | creation of the threads, the barriers of the start, the join and the record of runtimes |
| `Dispatchers` | when each kind of dispatcher releases its jobs, and how a run ends for it |
| `MCDispatchers` | one dispatcher of each kind for TLC |
| `ProcessorProofs`, `ProcessorSafety`, `JobProofs`, `InterrupterProofs`, `TimespecProofs`, `PowerManagerProofs`, `StartupProofs`, `DispatcherProofs` | the theorems |

`Processor`, `ExecutionInterrupter`, `PowerManager` (which extends `StateTable`,
which extends `Timespec`), `Dispatchers` (which extends `Timespec`) and `Startup` are
models of their own: each sees the others as nondeterminism.  In `Startup` what a
thread does between its start and its end is a single step; in `Dispatchers` a
release takes no part of the workers' queues; in `Processor` a release happens at
any moment.  In `Processor` a suspension is a delay; in
`ExecutionInterrupter` the rows of the tables and the answers of `tryLoadJob`
are arbitrary; in `PowerManager` a row has no effect on a worker.

### Correspondence of `Processor` with the code

*State.*  One variable per shared object (`taskqueue_sem`, `jobnumber_sem`,
`queue` of `Processor`; `job_sem`, `stop_sem`, `current_job` of `Worker`;
`load_stop_sem`, `count` of `TaskLoad`; `finished`, `nextCoreId` of `Task`;
`jobCounter` of `Dispatcher`; `running`).  A semaphore is its value.  `pc` says
where a thread is, `hand` is the job pointer in a local variable, `dest` the
core it is headed to, `at` and `victim` the receiver and `ret` of
`stopCurrentJob`.  `done`, `stopped` and `stages` are history variables: the jobs
reported to `CMI::finishedJob`, the jobs taken off a core and not queued again,
the cores a job completed on.  `crashed` marks the use of NULL or of an index
out of range; the program is over then.

*Steps.*  An action is one access to a shared object.  Three groupings are
made, none of which hides an interleaving: a list operation under `queue_sem` is
one step, for every access to the list holds that mutex; several `sem_post`s in
a row are one step, since a post never blocks and only enables other threads (an
order of the posts that matters would show as a state in which one thread is
enabled earlier than in the code, never as one that is missing for good);
assignments to locals join the next shared access.  `getDynamicInfo` only
reads; the `job_sem` it takes and gives back is a guard of `ThermalLoop`.  The
order of control follows the code: `tryLoadJob` is `LoadLock`, `LoadNumber`,
`LoadPop`, with `LoadTimeout` at either wait, `stopCurrentJob` is `StopLock`,
`StopPost`, `StopWait`, and every caller goes on where the code does
(`AfterInsert`, `AfterStop`).

*Abstraction.*  Time is gone: a release, a time-out, the end of the run happen
at any moment.  A load is `Wcet` iterations.  The answer of the user's allocator
is any member of `Allocator[d]`, an index that names no core included.  The
user's online approach makes any of the calls in `UserCalls`, any number of
times, and does not return with the jobs locked.  A suspension of a worker
(`ExecutionInterrupter`) is a delay between two of its steps, which the
model allows anyway.  Priorities appear only as fairness.

Two facts about the code that the model makes visible: `Worker::join` posts
`job_sem` once more than it is taken, so during the join `job_sem` does not
exclude; and `preemptCurrentJobOnCore`, `advanceJobInQueue` and
`moveJobToAnotherQueue` do not keep `jobnumber_sems` in step with the queues.
`TokensMatchJobs` is therefore a property of the runs without these calls.

### Correspondence of `ExecutionInterrupter` with the code

*State.*  The semaphores of the class, `state_sem` as a lock that is held between
steps, `current_state`, the list of sources; `Worker::state`, `current_job` as
"there is one", `papireading_sems`, and `values`, the sample that the counters
of a worker were last read for (0: cleared).  `from` is the place that called
`checkInterrupts`, `at` the core a caller works on.  `late` and `doubled` are
history: cores that missed the 20 ms of some sample, cores deactivated while
they were in `_sleep`.

*Steps.*  `resumeExecution` is two steps, the list and then the semaphore, in all
its callers, and `PushSource`/`PostResume` are used by each.  `checkInterrupts` is
split at every access: request to read, reading, suspension, wake-up, choice by
source.  `source_vector_sem` and the worker's `state_sem` cover one access each
and are part of it.  A row applied to a core is chosen freely, so every
behaviour of every table is included; `activate` is called only for a core in
`_sleep`, as `changePower` does.

*Abstraction.*  The 20 ms of `waitPAPIReading` may run out at any moment.
`Worker::join` posts `job_sem` before it stops the job, so the worker may clear the
job between the two reads of `current_job` (`JoinStopPost`, `JoinStopLoad`); the
program crashes there, and nothing happens after (`Crashed`).
`sleepEnd` is written and never read by the code.  `Worker::join` is the only
caller of `stopCurrentJob`: the one in a migration does not return while the run
lasts (`migrate_hangs`) and belongs to `Processor`.  The dispatchers and the
thermal approach are joined before the modelled threads and do not appear.

### Correspondence of `PowerManager` with the code

*State.*  `tables`, `nextActionTime`, `nextCoreId`, `interrupt_sem`, a clock in
microseconds, and `deadline`, the value `sem_timedwait` reads from
`nextActionTime`.  `setAt` and `elapsed` are history: when a table was set, and
the lengths of the rows applied since; `settled` says that some table was set.

*Steps.*  `statetable_sem` covers each critical section, so a section is one step
(`Apply`, `SetStateTables`, `SetStateTable`); their `sem_post` is another.  The
read of `nextActionTime` by `sem_timedwait` takes no lock: it may come before a
replacement, after it, or during it, and then mix seconds and nanoseconds of
both (`DeadlineRead`).  `nextCoreId` has no initial value, so it starts as any
core or as `Outside`, an index of no table.  Rows shorter than the minimum are
dropped when they are pushed, as `pushState` does, so a table can end up empty.

*Abstraction.*  A second has few microseconds and these few nanoseconds
(`MicrosPerSec`, `NanosPerMicro`), so that carries happen within a few ticks.
`coreId` of a `StateTable` is never set by its constructor; `SetStateTable` lets it
mean any core.  A `coreId` out of range is ignored by the code, a step that changes
nothing.  An approach without an online part ends after its first update, like
one that makes no more calls.

### Correspondence of `Startup` with the code

*State.*  The three semaphores as values, `thread_num`, `running`, and how far main
is in the constructor, `initialize`, `simulate` and `join_all`.  A thread is the
number of its place in the order of creation: dispatchers, power manager,
thermal approach, temperature watcher (`initialize`), then the workers
(`simulate`).  `created` counts the calls of `Thread::trigger`, `joining` the
returns of `Thread::join2`.  An entry of `runtimes` names the thread and whether
it is the thread's own time or the time of a worker's jobs.

*Steps.*  A loop of `sem_post`s is one step (a post never blocks).  `rtcinit_sem` is
posted by the thermal approach alone and taken once by main, so main waits
for no other thread before it posts `init_sem`: threads pass that barrier in any
order, workers long after it was opened, and the property to hold is that the
units and the threads past the barrier always add up.  Without an online part
the thermal approach leaves its loop at once; with one it may too, for all that
the others can tell.  `JoinOrder` is the order of `join_all`; what a join posts
before it waits lets the thread leave its loop and is in the module of that thread.

### Correspondence of `Dispatchers` with the code

*State.*  `now` is the clock in nanoseconds since `running_sem` was posted; `due` is
when the sleep of a dispatcher is over; `base` is the local `now` of
`Periodic::dispatch`, `rem` what is slept for (`rem`, `newPeriod` or `aux` in the three
`dispatch` functions), `deltaPeriod` the member of `PeriodicJitter`; `released` is
`jobCounter`.  `when` is history, the time of the last release.

*Steps.*  The test of `running`, a release, the computation of a sleep with its
call, and its return are each a step, and the clock may tick between any two of
them.  Lateness is bounded instead of free: whatever a thread does between two
sleeps is done within `MaxLate` of the end of the first (`Tick` waits for it).  `Post`
ends the wait of a `Periodic`, which `sem_timedwait`s on `dispatch_sem`; the other two
kinds use `nanosleep` and do not notice it.  Both calls are modelled from their
use: `nanosleep` refuses a time that is not normal and returns at once.

*Abstraction.*  The random part of `PeriodicJitter` is any of `Percents`.  A task has
the same period, jitter or release time as the others of its kind.  The sums of
`operator +`, `-` and `*` are computed as the code computes them, on a second of
few microseconds, for all lengths of time.  Those for which the code asks
`nanosleep` for a value it refuses are not excluded: the sleep returns at once,
and the history variable `refused` keeps of which task.  The properties name as
their premises (`JitterFits`, `SleepFits`) the lengths for which it does not happen.
`DispatcherAssumption` asks that a periodic task's thread is late by less than a
period, and that `InitialDelta` (5 ms in the code) is less than a second.

## 3. Runs

The runs of `Processor` and `PowerManager` have two cores; `Core = {0, 1}` is the
smallest system in which a job can be on the wrong core, move, and have two
stages, and in which one table can keep another one waiting.  `flow` has three:
with two, a pipelined job that does not start on core 0 starts on the last one,
and the stages in between do not show.

| Run | Instance | Checked | Shows |
|---|---|---|---|
| `flow` | 3 cores; a job of a periodic task, allocator in {1, 5} (5 names no core); an aperiodic pipelined task, allocator in {0, 1} | `TypeOK`, `JobInOnePlace`, `TokensMatchJobs`, `QueueSlots`, `PipelineComplete`, `StagesInOrder`, no deadlock | the plain path of jobs is sound in every interleaving, through the end of the run and the join; stages come in order, and all of them if the job started on core 0 |
| `calls` | 2 jobs for core 1, all five calls, positions 0 and 1, loads of 2 iterations | `JobInOnePlace`, `QueueSlots`, `StopReturnsIdleCore`, `DeadlockOnlyInStop`, `NoOtherCrash`, `LockedJobStays`, `ImplementsLifecycle` | the calls of the thermal approach keep jobs and semaphores whole, nobody waits in a circle but through `stopCurrentJob`, the program crashes only where `Worker::join` stops a job, and the system implements `JobLifecycle` |
| `live` | 2 pipelined jobs started on core 0, lock/unlock calls | `JobsServed`, `RunEnds` | released jobs finish; the run ends with every thread joined, provided that `JoinKeepsJob` |
| `migrate_hangs` | 1 job, `taskMigrate` | `MigrationReturns` violated | a migration of a running job waits for ever |
| `lock_leaks` | 2 jobs, `lockAllJobs` | `LockedQueuesStill` violated | a locked queue still changes |
| `advance_strands` | 2 jobs, `advanceJobInQueue` | `WaitsOnlyIfEmpty` violated | a job can be left in a queue without a token |
| `interrupts` | 1 worker, 5 rows and samples together, 2 of them samples at most | `TypeOK`, `SourcesCoverUnits`, `SuspendBalance`, `PromptReadingsFinished`, `ActiveRunsIfSingle`, `RunEnds` | signals and sources pair up, sleep follows the state, punctual readings are current, an activation wakes the worker, the join ends a worker suspended four times or less, provided that `JoinKeepsJob` |
| `active_sleeps` | 1 worker, 3 rows | `ActiveRuns` violated | a worker sleeps though its state is active |
| `late_reading` | 2 workers, 2 samples | `ReadingsFinished` violated | a sample is taken for finished before the worker has read |
| `power_tables` | 2 cores, 2 replacements, tables of 2 and 0 rows | `TypeOK`, `NextCoreMatches`, `ScheduleExact`, `TimeoutRowDue`, `NeverSleepsPast`, `DueRowsApplied`, `RunEnds`, no deadlock | tables keep their schedule, no core is left out, the join ends the manager |
| `startup` | 1 dispatcher, 3 single threads, 2 workers | `TypeOK`, `UnitsMatchThreads`, `NobodyEarly`, `ResultsComplete`, `EverybodyStarts`, no deadlock | everybody starts, nobody before the others exist; the file has all runtimes |
| `dispatchers` | an aperiodic task, a periodic one, one with jitter; up to the join | `TypeOK`, `PeriodicOnTime`, `JitterTelescopes`, `SleepsValid`, `JobsCounted`, `EndsInTime`, `RunEnds`, no deadlock | releases keep their times however late each is, jobs are as many as the duration gives, a sleep that outlasts the run is the last |

*Bounds.*  `MaxJobs` (jobs of a periodic dispatcher) 2 in `calls` and `live`: two
jobs of one task can meet in a queue, and one can be released while the other is
on a core, in a hand, or stopped.  In `flow` it is 1: the two jobs are of two
tasks, and both may be sent to core 1.  `MaxPosition` 1: the head, the tail, and a position behind
the end of a one-element queue.  `Wcet` 2 in `calls`, so that a stop finds a job
before, between and at its last iteration; 1 elsewhere.  Semaphores are not
bounded by the model; they stay finite because the number of inserts does.
Core identities are numbers that the code compares, so no symmetry is used.

`interrupts` has one worker, since the interrupters of two workers share nothing
but their callers, and those go from one core to the next; `late_reading` shows
the watcher with two.  Four rows allow sleep, wake, sleep,
wake, the shortest history in which something left over from one suspension
meets the next; five (`MaxInterrupts`, which counts rows and samples) allow one
suspension more than `Worker::join` calls `resumeExecution`, so that the premise of
`RunEnds` is false in some behaviours and the property is needed in others.  Two
samples (`MaxSamples`) allow an answer to meet a later question.  Without either
premise TLC finds `RunEnds` violated in this instance: a worker asleep for ever, or
the crash (section 5).
In `power_tables` two replacements (`MaxSets`) allow one to overtake the other or
the manager's reaction to it, six ticks (`MaxClock`) reach past the end of the
run (`StartDelay + Duration`) and through both rows of a table, and a second of
four microseconds makes the sums carry.

`startup` has one thread of each kind that `join_all` treats differently and a second
worker, so that workers compete for units.  In `dispatchers` a second has five microseconds of
one nanosecond each; a period is 6, the jitter 1 and `InitialDelta` 1.  So a period
is longer than a second and its sums carry and differences borrow, the random
part `Percents` reaching from nothing to twice the jitter (with 1%, 100% and 200%).
These lengths are just within `JitterFits`: the period less the jitter is a second.
A thread is late by 0 or 1 (`MaxLate`); a run of 13 ticks has three releases of the
periodic task and reaches the third of the one with jitter, so that lateness and
deltas of two sleeps would have added up.  `MaxClock` 28 lies behind the last step
of all threads (`EndsInTime`: 13 + 9 + 3 at most), so the clock never stops a run.

*Deadlock.*  All passing runs but `calls` and `interrupts` check it: only a state
after the join, or after the program crashed, may stop.
In `calls` and `migrate_hangs` the system really stops (a migration that waits
for `stop_sem`, or that was called with the jobs locked), so it is off there.  In
`interrupts` it stops with a worker that five suspensions have put to sleep for
ever; `RunEnds` says that it ends otherwise.

*Fairness* (`FairSpec`, used by `live` and `migrate_hangs`).  All threads run
`SCHED_FIFO` at priorities above the rest of the system, on machines with more
CPUs than busy threads, so a thread that can go on does: weak fairness.  At a
semaphore it is strong: waiters are woken in order of arrival, and threads that
share a semaphore give it back and sleep before they take it again.  The
online approach returns and does not hold the locks when it returns.  Nothing
is assumed of `LoadTimeout` (a time-out need never happen), of periodic
releases, or that the run ends.  Safety runs use `Spec`, without fairness.

In `ExecutionInterrupter` every thread is weakly fair and the waiters of
`state_sem` are strongly fair; in `PowerManager` the manager, the pending post and
the join are weakly fair.  Nothing is assumed of the clock, of new tables, of
rows and of the end of the run: `DueRowsApplied` speaks of a row that is due
already, `RunEnds` of a run that is over (in `ExecutionInterrupter` with no core suspended more
often than the join resumes it).

`RunEnds` of `Processor` and of `ExecutionInterrupter` has `JoinKeepsJob` as a premise:
between the two reads of `current_job` in `Worker::join` no worker clears its job.
That is no fairness, and the code does not guarantee it; where it fails the program
crashes inside `join_all` (section 5), and neither property counts that as an end.
`RunEnds` of `PowerManager` does count a crash on the uninitialised index.

In `Startup` main and each thread are weakly fair: they are ready until they are
served, and a unit of a barrier that is there for a thread cannot be taken by
another for good, since each thread takes one.  That the run ends is not assumed.  In `Dispatchers` the dispatchers, main
and the clock are weakly fair: a sleep is over when its time has passed, and time
passes.  `RunEnds` needs all three.

*Mutants.*  Each property of a passing run is broken by a changed action or
queue operation defined beside the original: a dropped check, a missing post, a
lost `job_sem`, the wrong core.  `PROJECT.json` pairs them.

## 4. Proofs

Proved with TLAPS for every number of cores, every finite set of dispatchers,
every allocator, every set of calls and all bounds, from the assumptions named
in `Processor` (thread identities are distinct, `NoJob` is no job, bounds are
numbers):

- `ProcessorProofs!TypeCorrect`: `Spec => []TypeOK`.  `TypeOK` alone is not
  inductive: `stopped' = stopped \cup {current_job[c]}` in `fire` is a set of
  jobs only if a worker in `fire` has a job.  `WorkerInv` adds that, and the
  reason: `stopCurrentJob`, the only one to take a job from another thread's
  core, gets past `stop_sem` only when the worker has posted it on its exit.
- `ProcessorSafety!StoppedCoreIsIdle`: `Spec => []StopReturnsIdleCore`.  The
  strengthening `StopInv` says that the worker has left its loop for good
  ("exit", where it stays) rather than that it is not in `fire`, and that
  the thermal approach carries no job outside the insertions.
- `ProcessorSafety!LockedJobsStay`: `Spec => LockedJobStays`, the action
  property.  `JobLock`: while the thermal approach lives, `job_sem[c]` is 0 if
  it holds core c and 1 otherwise; the surplus units of `Worker::join` come only
  after it has ended.
- `ProcessorSafety!SlotsConserved`: `Spec => []QueueSlots`, for every set of calls.
  `SlotInv` adds that main sleeps as long as the run lasts, and that only a
  preemption reaches the place of its reinsertion.  A step moves what its thread
  holds of a core and the semaphore by the same amount.
- `ProcessorSafety!StopIsOnlyDeadlock`: `Spec => []DeadlockOnlyInStop`, for every set of
  calls: the safety side of what `RunEnds` says of one instance.  `WaitsFor` follows
  a semaphore of value zero to the threads that hold its units.  By `QueueSlots` a
  queue without a free unit has one with a thread other than `lockAllJobs`, and that
  thread only has to post it (`QueueWait`); by `JobLock` a `job_sem` at zero is held by the
  thermal approach, which then waits for nothing but in `stopCurrentJob` (`JobWait`).
  `WaitInv` adds what main needs: after the end of the thermal approach every `job_sem`
  has a unit, two where `Worker::join` is about to take one (`SpareInv`), and a worker
  that has ended has left a unit of `stop_sem`, or no job to be stopped (`EndSignal`).
- `ProcessorSafety!TokensBackedByJobs`: `[]TokensMatchJobs` for the calls that
  neither preempt nor reorder (an assumption of the theorem; with the others it is
  false, see finding 3).  `TokenInv` adds that a job to be inserted is never NULL:
  `insertJobToQueue` would announce it without queueing it.
- `JobProofs!JobsConserved`: `Spec => []JobInOnePlace`.  `HandInv` says where a thread
  has nothing in its hand, that a loading worker has no current job, and that the job
  `stopCurrentJob` waits for stays the current job of its core.  With it, every step is
  of one of few kinds (`PlaceStep`): it touches no place, creates a job, puts
  one into a queue or takes it out, starts one, or takes one off a core; each kind
  leaves the number of places of every job right (`KindCounts`).  The places in
  queues are counted by a bijection between the positions before and after an
  insertion (`PlacesInserted`), from lemmas on what `insertJob`, `insertJobAt` and the
  pops do to each position.
- `JobProofs!JobsLive`: `Spec => ImplementsLifecycle`, the refinement.  A job in exactly
  one place is in `Waiting` if and only if it is released, not done and on no core
  (`WaitingIsIdle`); over that description each kind of step is a step of `JobLifecycle`
  or a stutter (`KindLives`), without looking into the queues again.
- `JobProofs!PipelinesInOrder` and `PipelinesComplete`: `[]StagesInOrder` and
  `[]PipelineComplete`, if the approach makes no calls but `lockAllJobs` and
  `unlockAllJobs` (`OnlyLockCalls`); with others both are false.  The allocator may start
  a pipelined job on any core: the properties say which stages it has then.  `PipeInv` follows a job to
  where it is bound, on the way included: the job in the hand of a worker is bound
  to the core of its next queue.  A step either binds no job anew and counts nothing, or
  releases a job, or ends its fire; that a job which ends its fire is bound nowhere else
  is `JobInOnePlace`.
- `JobProofs!CrashesOnlyInJoin`: `Spec => []NoOtherCrash`, for every set of calls.  Only
  two steps can crash: the stop of a job and the end of a fire (`QuietSteps`).  By
  `HandInv` the job that a thermal approach past the test of `current_job` has seen is
  still there, so the first crashes in the join alone; the second does with a
  pipelined job that counts past the last core (`CrashStep`).
- `ProcessorProofs` begins with lemmas on the list operations: what they return, how
  long the list is (`InsertJobAtType`) and where each job of it comes from.

The common base of these is one lemma per kind of step: `EveryStep` (a step of the
system is a step of one thread), `OthersStay` (it leaves the locals of other
threads alone), `ForeignCore` (only its worker and a `StopWait` change
`stop_sem` and `current_job` of a core).

- `InterrupterProofs!SourceForEachUnit`: `Spec => []SourcesCoverUnits`, for any
  number of workers, rows and samples.  The length of the list counts the units of
  `resume_sem`, the one a worker has taken, and one for each caller between its
  two steps; the proof needs the types of these counters, one lemma for either
  half of `resumeExecution`, and one per thread.
- `InterrupterProofs!TypeCorrect`: `Spec => []TypeOK`.  That `state_sem` never goes below
  zero needs that it is a lock (`LockInv`): it is 1, or one thread is in a section.
- `InterrupterProofs!SuspensionsBalance`: `Spec => []SuspendBalance`.  `BalInv` adds that
  during the run the lists of sources hold calls of the power manager and of the
  watcher only; a list is counted by source, and taking its first element changes
  the count of that source alone.
- `InterrupterProofs!ActiveWorkersAreWoken` and `JoinLeavesNobodyAsleep`: the safety sides
  of `ActiveRunsIfSingle` and of the join, for any number of workers, rows and samples, for cores
  whose rows of frequency zero never followed each other.  A worker that is active
  and sleeps has a unit of `resume_sem` and a source that ends the sleep, or one is
  just being posted; when main waits for a worker, each suspension left has a source, and
  a sleeping worker has a unit.  `JoinInv` is what the balance becomes when main
  lists sources too: one suspension may be without a source (a core that is `_sleep`
  at the end of the run) until the first of main's pushes pays for it.
- `InterrupterProofs!PromptReadings`: `Spec => []PromptReadingsFinished`.  `ReadInv` counts
  the requests of a worker that was never late, wherever they are (in `papi_read_sem`,
  in the list, being served): at most one, none while nobody waits for it, and once
  it is served the values are of the sample under way.
- `TimespecProofs`: `+`, `-` and `Micros` compute with the integers that timespecs
  stand for, `<` orders normal ones like these integers, and a normal timespec
  is determined by its integer, for every subdivision of the second.
- `PowerManagerProofs`, for any number of cores, tables, calls and ticks:
  `TypeCorrect`; `NextCoreAlwaysMatches`, which needs that the choice among the
  tables finds an earliest core (`EarliestIsCore`, from the well-foundedness of
  the numbers, three times: second, nanosecond, core); `ScheduleKept`, from
  `PlusMicros`, the associativity of `Plus` on normal times;
  `TimeoutAppliesDueRow`, with the strengthening `DueInv`: while the manager
  waits, its time-out is the time of the row it will apply, or tables were set
  and their first row is due; `NoTableOverslept`, with `WaitInv`, the same for the
  tables of all cores while no post is outstanding.  The assumption
  `TablesAssumption` says of the pushes considered that `pushState` makes tables
  of them: this holds of every sequence of rows, but `SelectSeq` is recursive
  and out of the prover's reach.

- `StartupProofs`, for any number of dispatchers and workers: `TypeCorrect`,
  `EveryThreadHasItsUnit`, `NobodyStartsEarly`, `ResultsAreComplete`.  The invariant
  adds to the properties what main has counted and created at each place
  (`CountInv`) and what has been joined and recorded (`ResultInv`).  A step past a
  barrier adds one element to the set of threads past it (`OneMore`, from
  `FS_AddElement`).  `NobodyEarly` follows since before the posts the sum is 0.
  The record is complete because the order of `join_all` is a permutation
  (`JoinOrderOnto`).
- `DispatcherProofs`, for any tasks, periods, jitters, release times and durations
  (a lateness below the period if there are periodic tasks, see `DispatcherAssumption`):
  `TypeCorrect`, `PeriodicKeepsTime`, `JitterKeepsTime`, `SleepsAreValid`.  `PeriodicOnTime` needs `OnTime`: the time a `Periodic` counts from
  is a multiple of the period after its start, up to the lateness of that start,
  and its wait is over one period later, or before that if the run is over.
  That rests on `LateInv` (nobody is later than `MaxLate`, which is less than a
  period, so the time asked for is never past) and `PostInv` (nothing is posted
  while the run lasts).  `JitterTelescopes` needs `Telescopes`, the same at every place of
  the loop, and `NewPeriodTelescopes`: the value of a sleep is a period plus the new
  delta minus the old one, in whatever form the subtraction leaves it; the property
  is about tasks of which `nanosleep` has refused no sleep.  `SleepsValid` has
  `SleepFits` as its premise, and `NewPeriodIsTaken` shows that this is enough: with the
  lengths of `JitterFits` all four terms and the results stay normal.
- `DispatcherProofs!RunsCountTheirJobs` and `DispatchersEndInTime`: `[]JobsCounted` and
  `[]EndsInTime`, from one invariant, `EndInv`.  Main ends the run between `T` and
  `T + MaxLate` (`RunInv`).  A release or a sleep is only begun after a test of `running`,
  so what it waits for is due within `Overtime` of that moment (`BoundedInv`, with
  `Overtimes` for what the three classes may ask for).  `ReleasedInv` counts the
  releases at every place of the loop: an `Aperiodic` has released its job wherever it
  is not about to; a `Periodic` releases only after a test in the run and leaves its loop
  only after one past it, which bounds its count from both sides.  `JoinedInv` says
  that whom main has joined has ended.

Only model-checked: liveness (`JobsServed`, `ActiveRunsIfSingle`, `DueRowsApplied`, `EverybodyStarts`,
`RunEnds`), which is out of the prover's reach for good, with the premise of `RunEnds` for the
cores that `JoinLeavesNobodyAsleep` leaves out.

## 5. Findings

1. A `taskMigrate` or preemption of a running job waits for ever (`migrate_hangs`):
   `stop_sem` is posted by the worker only after its loop, and the worker first
   needs the `job_sem` that `stopCurrentJob` keeps.
2. `lockAllJobs` leaves one of the two units of each queue to others (`lock_leaks`).
3. Moving jobs within or between queues does not move their tokens, and a load
   between the two halves strands a job (`advance_strands`).
4. Two rows of frequency zero in a row leave a second unit of `suspend_sem`; after
   the next activation the worker sleeps again, `state` says active, and no row
   with a frequency wakes it (`active_sleeps`).
5. A reading later than 20 ms is taken as the answer to the next sample, whose
   counters were cleared and not read (`late_reading`).

Further consequences without a run of their own:

- `Worker::join` posts `job_sem` once more than it is taken (`Worker.cpp`, line 58),
  before it relies on it: a worker that has just ended its load may clear
  `current_job` (lines 282-284) between the test for NULL (line 99) and the stop (line
  107), and the program crashes inside `join_all`.  `Processor` and
  `ExecutionInterrupter` have this crash; `NoOtherCrash` says that the program crashes
  only there (and at a moved pipelined job, below), and `RunEnds` of both modules
  excludes it by its premise `JoinKeepsJob`.
- Five rows of frequency zero of one core in a row (a table with no other row is
  enough) leave more units in `suspend_sem` than `Worker::join` makes calls of
  `resumeExecution` (three, and one in `stopCurrentJob`).  A worker in the middle of
  a load then goes to sleep for ever and `join_all`, which should "wait them to
  finish" (`Processor.cpp`, line 294), never returns; `RunEnds` has the premise
  that no core is suspended more often than that.
- Without state tables the power manager acts before the end of the run, on a
  core named by an uninitialised variable (any core or `Outside` in `PowerManager`).
- `lockAllJobs` followed by `taskMigrate` or a preemption in the same callback waits
  for a semaphore that the same thread holds.
- A pipelined job that the allocator sends to another core than 0 skips the stage of
  core 0: it is executed where it starts, counts from 0 whatever core that was, and so
  goes on to core 1 (a second time, if it started there).  On the last core it skips
  all others, for `Pipelined::fire` ends a job there.
  `newJob` lets the allocator overwrite the 0 (`Processor.cpp`, lines 365-369), and the
  default one goes round the cores (`CMI.cpp`, lines 105-130).  `flow` starts jobs on
  cores 0 and 1; `StagesInOrder` and `PipelineComplete` say what holds for any start.
- A pipelined job that the thermal approach moves back to an earlier core counts
  its `nextCoreId` past the last core.
- A job is released "n\*P+-jitter" after the start (`PeriodicJitter.cpp`, line 57), but
  for the 5 ms `deltaPeriod` begins with: all releases but the first come that
  much earlier (`JitterTelescopes` has it as a term).
- With a jitter above half a period, or a period of whole seconds or just below with
  any jitter, `newPeriod` may not be normal; `nanosleep` then refuses it and the next
  job is released at once.  The tasks of the repository's own examples have periods
  of 1000 ms; given a jitter they would do this.  `SleepsValid` and `JitterTelescopes`
  state their premises accordingly.
  `operator *` loses the fractions of the seconds and of the nanoseconds
  separately, which matters for jitters of a second or more.
- `Dispatcher::join` posts `dispatch_sem`, for which only `Periodic` waits.  An
  `Aperiodic` sleeps once for the run and, if it wakes before main, sleeps as long
  again while `join_all` waits for it (the bound of `EndsInTime`, reached).
- `setOffset` comes after the posts of `running_sem` (`Processor.cpp`, line 280): the
  first relative times of the logs are taken against the old offset.
- `init_sem` is posted when the thermal approach is ready; the comment speaks of
  all threads.  No property depends on it.
- The loop over the job times of the workers (`Processor.cpp`, line 312) reads
  `wcets[this_worker_id]` of every task; a task for a single core has one entry.
  The counters it multiplies are always 0: nobody calls `addJobLog`.
- Tables replaced while the manager is applying a row leave a unit in
  `interrupt_sem`: the next row of the new tables is applied at once.  The schedule
  is kept (`ScheduleExact`): the row lasts longer by what it came too early.
- A table without rows keeps the time it was set at as its next action; being the
  earliest, it occupies the manager, which runs in circles, and rows of other
  cores wait (the exception in `DueRowsApplied`).
- The target core of a `StateTable` is never stored, so `setStateTable` gets it from
  an uninitialised member.
- `operator -` of a negative difference keeps mixed signs or a negative
  nanosecond part; its value is right (`MinusSubtracts`), its form is not normal.

## 6. Plan

In order; done and open parts.

1. Job flow and CMI calls: `JobQueue`, `Processor`, `JobLifecycle`, with type
   correctness and the two exclusion theorems.  Done.
2. `ExecutionInterrupter` with its callers, and the theorem on the list of sources.
   Done, with the proofs of its invariants.
3. `Timespec`, `StateTable`, `PowerManager`, with the proofs of their invariants.  Done.
4. `Startup`: the barriers and the join, with the proofs of its invariants.  Done.
5. `Dispatchers`: the times of releases, with the proofs of the two schedules.  Done.
6. Composition: `Processor` with the suspension of workers in place of the delay,
   and `ExecutionInterrupter` driven by the tables of `PowerManager`, each an
   implementation of what the other model leaves open.  Open.
7. Counting proofs about `Processor` (`QueueSlots`, `TokensMatchJobs`, `JobInOnePlace`) and
   the refinement of `JobLifecycle`, and from them `PipelineComplete` and `StagesInOrder`
   for jobs that nobody moves.  Done, and so are `JobsCounted` and `EndsInTime`.

## 7. Not modelled

- Vendored code: `utils/r8lib`, `c8lib`, `pugixml`, `matrix_exponential` and everything
  under `third_party_lib` (PAPI and its copies of event tables, the XML
  parser, Qt).  It is almost all of the repository's lines, none of it is the
  program's own logic, and most of it is tables.  The framework itself has about
  fifteen thousand lines with its headers.
- Configuration (`Scratch`, `Parser`, `TaskArgument`): reads a file into static data
  before any thread exists.
- The logs beside `runtimes` (`Trace`, `CPUUsage`, `MissedDeadline`, `JobLog`): filled by one
  thread each and written out.
- The loads: programs of the user, of which `Processor` models what `BusyWait` does at
  its check points.
- The soft sensor's arithmetic (doubles), the hardware sensor, PAPI, the write of
  a frequency to the kernel.
- Priorities and affinities: settings of the operating system, present only as
  fairness.
- `JobQueue::deleteJob` and `deleteJobAt`: only the unit test calls them.
