------------------------------- MODULE Startup -------------------------------
(***************************************************************************)
(* How the main thread builds the other threads, lets them start together, *)
(* ends the run, joins them and writes the results: core/Processor,        *)
(* pthread/Thread and the beginning and end of every thread's wrapper.     *)
(* What a thread does in between is the subject of the other modules.      *)
(***************************************************************************)
EXTENDS Naturals, FiniteSets

CONSTANTS NDispatchers,  \* number of tasks, each with a dispatcher
          NCores         \* number of workers (Processor::n_cores)

ASSUME SizeAssumption == NDispatchers \in Nat /\ NCores \in Nat \ {0}

(* A thread is its place in the order of creation: initialize triggers the  *)
(* dispatchers and the three single threads, simulate the workers.          *)
Dispatcher   == 1..NDispatchers
PowerManager == NDispatchers + 1
Thermal      == NDispatchers + 2
TempWatcher  == NDispatchers + 3
NThreads     == TempWatcher + NCores
Thread       == 1..NThreads
Worker       == (TempWatcher + 1)..NThreads
Main         == 0

(* An entry of Statistics::runtimes: the CPU time of a thread, or the time  *)
(* that the jobs of a worker should have taken.                             *)
CpuTime(t) == <<t, "cpu">>
JobTime(w) == <<w, "jobs">>
Entries    == {CpuTime(t) : t \in Thread \cup {Main}} \cup {JobTime(w) : w \in Worker}

VARIABLES
  thread_num,                        \* Processor::thread_num
  rtcinit_sem, init_sem, running_sem,
  running,                           \* Processor::running
  created,                           \* how many threads were triggered
  pc,                                \* where each thread is
  main,                              \* where the main thread is
  joining,                           \* join_all: how many threads main has joined
  runtimes,                          \* Statistics::runtimes
  saved                              \* the runtimes that toFile has written

semVars     == <<rtcinit_sem, init_sem, running_sem>>
resultVars  == <<runtimes, saved>>
vars == <<thread_num, semVars, running, created, pc, main, joining, resultVars>>

Goto(t, label) == pc' = [pc EXCEPT ![t] = label]

Init ==
  /\ thread_num = 0
  /\ rtcinit_sem = 0 /\ init_sem = 0 /\ running_sem = 0
  /\ running = FALSE
  /\ created = 0
  /\ pc = [t \in Thread |-> "none"]
  /\ main = "construct"
  /\ joining = 0
  /\ runtimes = {} /\ saved = {}

-----------------------------------------------------------------------------
(* The main thread *)

(* Mutant of Construct: the temperature watcher is not counted. *)
ConstructForgets ==
  /\ main = "construct"
  /\ thread_num' = NDispatchers + 1 + NCores + 1
  /\ main' = "initialize"
  /\ UNCHANGED <<semVars, running, created, pc, joining, resultVars>>

(* The constructor counts each thread object that it makes. *)
Construct ==
  /\ main = "construct"
  /\ thread_num' = NDispatchers + 1 + NCores + 1 + 1
  /\ main' = "initialize"
  /\ UNCHANGED <<semVars, running, created, pc, joining, resultVars>>

(* initialize and simulate create threads up to this one. *)
TriggerLimit == IF main = "initialize" THEN TempWatcher
                ELSE IF main = "simulate" THEN NThreads ELSE 0

(* Mutant of Trigger: one thread too many. *)
TriggerOnceMore ==
  /\ created <= TriggerLimit
  /\ created' = created + 1
  /\ Goto(created + 1, "start")
  /\ UNCHANGED <<thread_num, semVars, running, main, joining, resultVars>>

(* Thread::trigger of the next thread, by initialize and by simulate. *)
Trigger ==
  /\ created < TriggerLimit
  /\ created' = created + 1
  /\ Goto(created + 1, "start")
  /\ UNCHANGED <<thread_num, semVars, running, main, joining, resultVars>>

(* initialize waits for the thermal approach and posts init_sem for all. *)
OpenInit ==
  /\ main = "initialize" /\ created = TempWatcher
  /\ rtcinit_sem > 0
  /\ rtcinit_sem' = rtcinit_sem - 1
  /\ init_sem' = init_sem + thread_num
  /\ main' = "simulate"
  /\ UNCHANGED <<thread_num, running_sem, running, created, pc, joining, resultVars>>

(* Mutant of StartRun: the posts come before the workers are triggered. *)
StartRunEarly ==
  /\ main = "simulate"
  /\ running' = TRUE
  /\ running_sem' = running_sem + thread_num
  /\ main' = IF created = NThreads THEN "sleep" ELSE main
  /\ UNCHANGED <<thread_num, rtcinit_sem, init_sem, created, pc, joining, resultVars>>

(* simulate sets running and posts running_sem for all. *)
StartRun ==
  /\ main = "simulate" /\ created = NThreads
  /\ running' = TRUE
  /\ running_sem' = running_sem + thread_num
  /\ main' = "sleep"
  /\ UNCHANGED <<thread_num, rtcinit_sem, init_sem, created, pc, joining, resultVars>>

(* nanosleep(duration) returns. *)
EndRun ==
  /\ main = "sleep"
  /\ running' = FALSE
  /\ main' = "join"
  /\ UNCHANGED <<thread_num, semVars, created, pc, joining, resultVars>>

(* Mutant of JoinOrder: the temperature watcher is joined twice. *)
JoinOrderTwice(i) == IF i = NDispatchers + 1 THEN Thermal
                     ELSE IF i = NDispatchers + 2 THEN TempWatcher
                     ELSE i

(* join_all: dispatchers, thermal approach, temperature watcher, power      *)
(* manager, workers.                                                        *)
JoinOrder(i) == IF i = NDispatchers + 1 THEN Thermal
                ELSE IF i = NDispatchers + 2 THEN TempWatcher
                ELSE IF i = NDispatchers + 3 THEN PowerManager
                ELSE i

Joined == JoinOrder(joining + 1)

(* Thread::join2.  What the joins post before is in the modules of those    *)
(* threads: it lets them leave their loop.                                  *)
Join ==
  /\ main = "join" /\ joining < NThreads
  /\ pc[Joined] = "exit"
  /\ joining' = joining + 1
  /\ UNCHANGED <<thread_num, semVars, running, created, pc, main, resultVars>>

(* The rest of simulate: the runtimes of main and of the jobs of each       *)
(* worker, then Statistics::toFile.                                         *)
SaveResults ==
  /\ main = "join" /\ joining = NThreads
  /\ runtimes' = runtimes \cup {CpuTime(Main)} \cup {JobTime(w) : w \in Worker}
  /\ saved' = runtimes'
  /\ main' = "saved"
  /\ UNCHANGED <<thread_num, semVars, running, created, pc, joining>>

MainStep == \/ Construct \/ Trigger \/ OpenInit \/ StartRun
            \/ Join \/ SaveResults

-----------------------------------------------------------------------------
(* The other threads *)

(* Mutant of Initialise: nobody posts rtcinit_sem. *)
InitialiseSilent(t) ==
  /\ pc[t] = "start"
  /\ Goto(t, "wait_init")
  /\ UNCHANGED <<thread_num, semVars, running, created, main, joining, resultVars>>

(* A wrapper up to its first wait; the thermal approach posts rtcinit_sem. *)
Initialise(t) ==
  /\ pc[t] = "start"
  /\ rtcinit_sem' = IF t = Thermal THEN rtcinit_sem + 1 ELSE rtcinit_sem
  /\ Goto(t, "wait_init")
  /\ UNCHANGED <<thread_num, init_sem, running_sem, running, created, main,
                 joining, resultVars>>

WaitInit(t) ==
  /\ pc[t] = "wait_init" /\ init_sem > 0
  /\ init_sem' = init_sem - 1
  /\ Goto(t, "wait_running")
  /\ UNCHANGED <<thread_num, rtcinit_sem, running_sem, running, created, main,
                 joining, resultVars>>

WaitRunning(t) ==
  /\ pc[t] = "wait_running" /\ running_sem > 0
  /\ running_sem' = running_sem - 1
  /\ Goto(t, "running")
  /\ UNCHANGED <<thread_num, rtcinit_sem, init_sem, running, created, main,
                 joining, resultVars>>

(* The loop of the wrapper ends with the run; without an online approach    *)
(* that of the thermal approach ends at once.                               *)
Leave(t) ==
  /\ pc[t] = "running" /\ (~running \/ t = Thermal)
  /\ Goto(t, "leaving")
  /\ UNCHANGED <<thread_num, semVars, running, created, main, joining, resultVars>>

(* Thread::static_wrapper after the wrapper: Statistics::addRuntime.        *)
AddRuntime(t) ==
  /\ pc[t] = "leaving"
  /\ runtimes' = runtimes \cup {CpuTime(t)}
  /\ Goto(t, "exit")
  /\ UNCHANGED <<thread_num, semVars, running, created, main, joining, saved>>

Enter(t) == Initialise(t) \/ WaitInit(t) \/ WaitRunning(t)

ThreadStep(t) == Enter(t) \/ Leave(t) \/ AddRuntime(t)

Terminated == main = "saved" /\ UNCHANGED vars

Next == MainStep \/ EndRun \/ (\E t \in Thread : ThreadStep(t)) \/ Terminated

Spec == Init /\ [][Next]_vars

(* Every thread that can go on does, and so does main; the run may go on.   *)
FairSpec == Spec /\ WF_vars(MainStep) /\ \A t \in Thread : WF_vars(ThreadStep(t))

-----------------------------------------------------------------------------
(* Properties *)

MainLabel   == {"construct", "initialize", "simulate", "sleep", "join", "saved"}
ThreadLabel == {"none", "start", "wait_init", "wait_running", "running", "leaving", "exit"}

(* The types of all variables. *)
TypeOK ==
  /\ thread_num \in Nat
  /\ rtcinit_sem \in Nat /\ init_sem \in Nat /\ running_sem \in Nat
  /\ running \in BOOLEAN
  /\ created \in 0..NThreads
  /\ pc \in [Thread -> ThreadLabel]
  /\ main \in MainLabel
  /\ joining \in 0..NThreads
  /\ runtimes \subseteq Entries /\ saved \subseteq Entries

PastInit    == {t \in Thread : pc[t] \in {"wait_running", "running", "leaving", "exit"}}
PastRunning == {t \in Thread : pc[t] \in {"running", "leaving", "exit"}}

InitOpen    == main \notin {"construct", "initialize"}
RunningOpen == InitOpen /\ main # "simulate"

(* The posts of init_sem and running_sem, thread_num of them, are one for   *)
(* each thread, also for the workers that are created after the first       *)
(* posts: no unit is missing and nobody takes another thread's.             *)
UnitsMatchThreads ==
  /\ init_sem + Cardinality(PastInit) = IF InitOpen THEN NThreads ELSE 0
  /\ running_sem + Cardinality(PastRunning) = IF RunningOpen THEN NThreads ELSE 0

(* No thread executes its loop before all threads exist and the run is      *)
(* declared running: "wait for the simulation start" (every wrapper).       *)
NobodyEarly == PastRunning # {} => created = NThreads /\ RunningOpen

(* What toFile writes is complete: every thread has recorded its runtime    *)
(* and is gone, so nothing is recorded behind its back.                     *)
ResultsComplete ==
  main = "saved" => saved = Entries /\ \A t \in Thread : pc[t] = "exit"

(* A run that is started is started for everybody.                          *)
EverybodyStarts == main = "construct" ~> PastRunning = Thread
=============================================================================
