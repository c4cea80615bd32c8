----------------------------- MODULE PowerManager -----------------------------
(***************************************************************************)
(* The power manager thread walks through one state table per core and     *)
(* applies each row when it is due; the thermal approach replaces tables   *)
(* meanwhile and interrupts its wait; the main thread ends the run.        *)
(*                                                                         *)
(* statetable_sem covers every access to the tables, nextActionTime and    *)
(* nextCoreId but one, so a critical section is one step.  The exception   *)
(* is the time-out that sem_timedwait is given: it is read without, and may *)
(* mix the halves of two times.  What a row does to a worker is the matter *)
(* of ExecutionInterrupter.                                                *)
(***************************************************************************)
EXTENDS StateTable, FiniteSets

CONSTANTS
  NCores,       \* number of cores
  TablePushes,  \* the sequences of pushState calls the thermal approach makes
  Duration,     \* of the run, in microseconds
  StartDelay,   \* from the construction of the power manager to the start
  MaxClock,     \* bound: microseconds the clock runs
  MaxSets       \* bound: calls of setStateTable(s)

Core    == 0..(NCores - 1)
Outside == NCores

ASSUME CoresAssumption  == NCores \in Nat \ {0}
ASSUME TablesAssumption == /\ TablePushes \subseteq Seq(Row)
                           /\ \A pushes \in TablePushes : Pushed(pushes) \in Seq(Row)
ASSUME ClockAssumption  == /\ Duration \in Nat /\ StartDelay \in Nat
                           /\ MaxClock \in Nat /\ MaxSets \in Nat

VARIABLES
  running,         \* Processor::running
  crashed,         \* tables was indexed with a value that names no core
  clock,           \* microseconds since the construction of the power manager
  tables,          \* per core: its HyperStateTable
  nextActionTime, nextCoreId, interrupt_sem,
  manager,         \* where the power manager is
  deadline,        \* the time-out its sem_timedwait was given
  approach,        \* where the thermal approach is
  main,            \* where the main thread is
  sets,            \* calls of setStateTable(s) so far
  settled,         \* history: has any table been set?
  setAt, elapsed   \* history, per core: when its table was set, and the summed
                   \* lengths of the rows applied since

tableVars   == <<tables, nextActionTime, nextCoreId>>
historyVars == <<settled, setAt, elapsed>>
vars == <<running, crashed, clock, tableVars, interrupt_sem, manager, deadline, approach,
          main, sets, historyVars>>

Now == Micros(clock)

(* The constructor leaves nextCoreId unset. *)
Init ==
  /\ running = TRUE /\ crashed = FALSE /\ clock = 0
  /\ tables = [c \in Core |-> EmptyHyperTable]
  /\ nextActionTime = Plus(Micros(0), Micros(Duration))
  /\ nextCoreId \in Core \cup {Outside}
  /\ interrupt_sem = 0
  /\ manager = "loop" /\ deadline = Micros(0)
  /\ approach = "ready" /\ main = "sleep" /\ sets = 0
  /\ settled = FALSE
  /\ setAt = [c \in Core |-> Micros(0)] /\ elapsed = [c \in Core |-> 0]

Tick ==
  /\ clock < MaxClock
  /\ clock' = clock + 1
  /\ UNCHANGED <<running, crashed, tableVars, interrupt_sem, manager, deadline, approach,
                 main, sets, historyVars>>

-----------------------------------------------------------------------------
(* The power manager: wrapper. *)

(* Mutant of ManagerLoop: the time-out is not read again. *)
ManagerLoopKeeps ==
  /\ manager = "loop"
  /\ manager' = (IF running THEN "wait" ELSE "exit")
  /\ UNCHANGED <<running, crashed, clock, tableVars, interrupt_sem, deadline, approach, main,
                 sets, historyVars>>

ManagerLoop ==
  /\ manager = "loop"
  /\ IF running THEN manager' = "wait" /\ deadline' = nextActionTime
                ELSE manager' = "exit" /\ UNCHANGED deadline
  /\ UNCHANGED <<running, crashed, clock, tableVars, interrupt_sem, approach, main, sets,
                 historyVars>>

(* sem_timedwait takes a unit if there is one, past the time-out as well.   *)
Interrupted ==
  /\ manager = "wait" /\ interrupt_sem > 0
  /\ interrupt_sem' = interrupt_sem - 1
  /\ manager' = IF running THEN "apply" ELSE "exit"
  /\ UNCHANGED <<running, crashed, clock, tableVars, deadline, approach, main, sets,
                 historyVars>>

TimedOut ==
  /\ manager = "wait" /\ interrupt_sem = 0 /\ ~Less(Now, deadline)
  /\ manager' = IF running THEN "apply_due" ELSE "exit"
  /\ UNCHANGED <<running, crashed, clock, tableVars, interrupt_sem, deadline, approach,
                 main, sets, historyVars>>

(* Mutant of Earliest: the first core stays, the others are not compared. *)
EarliestFirst(t) == 0

(* The core whose next action comes first, the smaller of two equal ones.   *)
Earliest(t) == CHOOSE c \in Core : \A d \in Core :
                  /\ ~Less(t[d].next, t[c].next)
                  /\ d < c => Less(t[c].next, t[d].next)

(* The critical section: the row of nextCoreId is applied, and the tables   *)
(* tell what comes next.                                                    *)
Apply ==
  /\ manager \in {"apply", "apply_due"}
  /\ IF nextCoreId \in Core
     THEN LET c       == nextCoreId
              advanced == [tables EXCEPT ![c] = Advanced(@, Now)]
          IN  /\ tables' = advanced
              /\ nextCoreId' = Earliest(advanced)
              /\ nextActionTime' = advanced[Earliest(advanced)].next
              /\ elapsed' = [elapsed EXCEPT ![c] = @ + CurrentLength(tables[c])]
              /\ manager' = "loop"
              /\ UNCHANGED crashed
     ELSE /\ crashed' = TRUE
          /\ UNCHANGED <<tableVars, elapsed, manager>>
  /\ UNCHANGED <<running, clock, interrupt_sem, deadline, approach, main, sets, settled,
                 setAt>>

-----------------------------------------------------------------------------
(* The thermal approach: Processor::updateStateTables. *)

(* The manager may be reading nextActionTime while it is overwritten.       *)
DeadlineRead ==
  IF manager = "wait"
  THEN \E s, n \in {deadline, Now} : deadline' = [sec |-> s.sec, nsec |-> n.nsec]
  ELSE UNCHANGED deadline

(* Tables for all cores: setStateTables, up to its sem_post. *)
SetStateTables ==
  /\ approach = "ready" /\ sets < MaxSets
  /\ \E pushes \in [Core -> TablePushes] :
       tables' = [c \in Core |-> setStateTable(Pushed(pushes[c]), Now)]
  /\ nextActionTime' = Now /\ nextCoreId' = 0
  /\ setAt' = [c \in Core |-> Now] /\ elapsed' = [c \in Core |-> 0]
  /\ settled' = TRUE
  /\ approach' = "post" /\ sets' = sets + 1
  /\ DeadlineRead
  /\ UNCHANGED <<running, crashed, clock, interrupt_sem, manager, main>>

(* Mutant of SetStateTable: nextCoreId is left as it is. *)
SetStateTableOnly ==
  /\ approach = "ready" /\ sets < MaxSets
  /\ \E c \in Core, pushes \in TablePushes :
       /\ tables' = [tables EXCEPT ![c] = setStateTable(Pushed(pushes), Now)]
       /\ setAt' = [setAt EXCEPT ![c] = Now]
       /\ elapsed' = [elapsed EXCEPT ![c] = 0]
  /\ nextActionTime' = Now /\ UNCHANGED nextCoreId
  /\ settled' = TRUE
  /\ approach' = "post" /\ sets' = sets + 1
  /\ DeadlineRead
  /\ UNCHANGED <<running, crashed, clock, interrupt_sem, manager, main>>

(* Another number of tables: setStateTable for each, up to its sem_post.     *)
(* The constructor of StateTable leaves coreId unset, so any core is meant.  *)
SetStateTable ==
  /\ approach = "ready" /\ sets < MaxSets
  /\ \E c \in Core, pushes \in TablePushes :
       /\ tables' = [tables EXCEPT ![c] = setStateTable(Pushed(pushes), Now)]
       /\ nextCoreId' = c
       /\ setAt' = [setAt EXCEPT ![c] = Now]
       /\ elapsed' = [elapsed EXCEPT ![c] = 0]
  /\ nextActionTime' = Now
  /\ settled' = TRUE
  /\ approach' = "post" /\ sets' = sets + 1
  /\ DeadlineRead
  /\ UNCHANGED <<running, crashed, clock, interrupt_sem, manager, main>>

PostInterrupt ==
  /\ approach = "post"
  /\ interrupt_sem' = interrupt_sem + 1
  /\ approach' = "ready"
  /\ UNCHANGED <<running, crashed, clock, tableVars, manager, deadline, main, sets,
                 historyVars>>

ApproachExit ==
  /\ approach = "ready" /\ ~running
  /\ approach' = "exit"
  /\ UNCHANGED <<running, crashed, clock, tableVars, interrupt_sem, manager, deadline, main,
                 sets, historyVars>>

-----------------------------------------------------------------------------
(* The main thread: the end of simulate, then PowerManager::join. *)

EndRun ==
  /\ main = "sleep" /\ clock >= StartDelay + Duration
  /\ running' = FALSE
  /\ main' = "join"
  /\ UNCHANGED <<crashed, clock, tableVars, interrupt_sem, manager, deadline, approach,
                 sets, historyVars>>

(* Mutant of Join: the wait of the manager is not interrupted. *)
JoinOnlyWaits ==
  /\ main = "join" /\ approach = "exit"
  /\ main' = "await"
  /\ UNCHANGED <<running, crashed, clock, tableVars, interrupt_sem, manager, deadline,
                 approach, sets, historyVars>>

Join ==
  /\ main = "join" /\ approach = "exit"
  /\ interrupt_sem' = interrupt_sem + 1
  /\ main' = "await"
  /\ UNCHANGED <<running, crashed, clock, tableVars, manager, deadline, approach, sets,
                 historyVars>>

JoinReturns ==
  /\ main = "await" /\ manager = "exit"
  /\ main' = "exit"
  /\ UNCHANGED <<running, crashed, clock, tableVars, interrupt_sem, manager, deadline,
                 approach, sets, historyVars>>

Over == (crashed \/ main = "exit") /\ UNCHANGED vars

Manager  == ManagerLoop \/ Interrupted \/ TimedOut \/ Apply
Approach == SetStateTables \/ SetStateTable \/ PostInterrupt \/ ApproachExit
MainNext == EndRun \/ Join \/ JoinReturns

Next == \/ ~crashed /\ (Tick \/ Manager \/ Approach \/ MainNext)
        \/ Over

Spec == Init /\ [][Next]_vars

(* Threads that can go on do.  Nothing is assumed of the clock, of new       *)
(* tables and of the end of the run.                                         *)
Fairness ==
  /\ WF_vars(~crashed /\ Manager)
  /\ WF_vars(~crashed /\ (PostInterrupt \/ ApproachExit))
  /\ WF_vars(~crashed /\ (Join \/ JoinReturns))

FairSpec == Spec /\ Fairness

-----------------------------------------------------------------------------
(* Properties *)

Place == {"loop", "wait", "apply", "apply_due", "exit"}

TypeOK ==
  /\ running \in BOOLEAN /\ crashed \in BOOLEAN /\ clock \in Nat
  /\ DOMAIN tables = Core
  /\ \A c \in Core : /\ tables[c].next \in Timespec /\ Normal(tables[c].next)
                     /\ tables[c].rows # << >> => tables[c].rowId \in DOMAIN tables[c].rows
  /\ nextActionTime \in Timespec /\ Normal(nextActionTime)
  /\ nextCoreId \in Core \cup {Outside}
  /\ interrupt_sem \in Nat /\ sets \in Nat
  /\ manager \in Place /\ deadline \in Timespec
  /\ approach \in {"ready", "post", "exit"} /\ main \in {"sleep", "join", "await", "exit"}
  /\ settled \in BOOLEAN
  /\ setAt \in [Core -> Timespec] /\ elapsed \in [Core -> Nat]

Due(c) == ~Less(Now, tables[c].next)

(* nextActionTime is the time of the table nextCoreId names, from the first *)
(* tables on: the row the manager waits for is the row it applies.          *)
NextCoreMatches ==
  settled => nextCoreId \in Core /\ tables[nextCoreId].next = nextActionTime

(* However late the manager comes and however often it is interrupted, a    *)
(* table keeps to its schedule: the next row is due when the rows applied    *)
(* since the table was set should have ended.                                *)
ScheduleExact ==
  \A c \in Core : tables[c].rows # << >> =>
     tables[c].next = Plus(setAt[c], Micros(elapsed[c]))

(* A row that is applied because the wait timed out is due, also when tables *)
(* were replaced between the time-out and the critical section.             *)
TimeoutRowDue ==
  manager = "apply_due" /\ settled => Due(nextCoreId)

(* The manager does not sleep past the time of any core: no replacement of  *)
(* tables is missed, no core is left out.                                    *)
NeverSleepsPast ==
  manager = "wait" /\ interrupt_sem = 0 /\ approach # "post" /\ settled =>
     \A c \in Core : ~Less(tables[c].next, deadline)

(* A table without rows that was set keeps the manager on its core. *)
Empty(c) == tables[c].rows = << >> /\ tables[c].next # EmptyHyperTable.next

(* Every due row is applied, or its table replaced, while no table is empty. *)
DueRowsApplied ==
  \A c \in Core : tables[c].rows # << >> /\ Due(c) ~>
                    (~Due(c) \/ ~running \/ crashed \/ \E d \in Core : Empty(d))

(* The end of the run ends the manager, also in a wait without time-out,      *)
(* unless the program has crashed: before the first tables the manager uses   *)
(* an index that is not initialised.                                          *)
RunEnds == ~running ~> (main = "exit" \/ crashed)
==============================================================================
