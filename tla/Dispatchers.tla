----------------------------- MODULE Dispatchers -----------------------------
(***************************************************************************)
(* When the dispatchers release their jobs, and how a run ends for them:   *)
(* core/Dispatcher, dispatchers/Periodic, PeriodicJitter and Aperiodic, and *)
(* the part of core/Processor that sleeps for the run and joins them.      *)
(* What a release does with the job is in module Processor.                *)
(*                                                                         *)
(* The clock counts nanoseconds since running_sem was posted.  A thread is *)
(* late: whatever it does between two sleeps is done at most MaxLate after *)
(* the sleep was over.                                                     *)
(***************************************************************************)
EXTENDS Timespec, Sequences

CONSTANTS Kinds,         \* the periodicity of each task, a sequence
          Period,        \* in microseconds, of the tasks that have one
          Jitter,        \* in microseconds
          ReleaseTime,   \* in microseconds, of aperiodic tasks
          InitialDelta,  \* in microseconds, 5000 in the code
          Percents,      \* values of 1 + rand() % 200
          Duration,      \* Scratch::getDuration, in microseconds
          MaxLate,       \* in nanoseconds
          MaxClock       \* bound: the clock stops there, after all runs have ended

Dispatcher == DOMAIN Kinds
Periodics  == {d \in Dispatcher : Kinds[d] = "periodic"}
Jitters    == {d \in Dispatcher : Kinds[d] = "periodic_jitter"}
Aperiodics == {d \in Dispatcher : Kinds[d] = "aperiodic"}

period      == Micros(Period)
jitter      == Micros(Jitter)
releaseTime == Micros(ReleaseTime)
duration    == Micros(Duration)

(* A periodic task is not overloaded: what its thread does between two      *)
(* sleeps takes less than its period.  The 5 ms that deltaPeriod starts     *)
(* with are less than a second.                                             *)
ASSUME DispatcherAssumption ==
  /\ Kinds \in Seq({"periodic", "periodic_jitter", "aperiodic"}) /\ Kinds # <<>>
  /\ Period \in Nat /\ Jitter \in Nat /\ InitialDelta \in Nat
  /\ ReleaseTime \in Nat /\ Duration \in Nat /\ MaxLate \in Nat /\ MaxClock \in Nat
  /\ Percents \subseteq 1..200
  /\ InitialDelta < MicrosPerSec
  /\ Periodics # {} => MaxLate < Nanos(period)

VARIABLES
  now,           \* the clock
  running,       \* Processor::running
  main,          \* where the main thread is
  joined,        \* how many dispatchers join_all has joined
  pc,            \* where each dispatcher is
  due,           \* when the last sleep of a dispatcher is over
  dispatch_sem,
  base,          \* Periodic::dispatch: now
  rem,           \* what is slept for: rem, newPeriod or aux in dispatch
  deltaPeriod,   \* PeriodicJitter::deltaPeriod
  refused,       \* history: the PeriodicJitters of which nanosleep refused a sleep
  released,      \* Dispatcher::jobCounter
  when           \* the time of the last release

mainVars  == <<running, main, joined>>
jitterVars == <<deltaPeriod, refused>>
sleepVars == <<due, dispatch_sem, base, rem, jitterVars>>
jobVars   == <<released, when>>
vars == <<now, mainVars, pc, sleepVars, jobVars>>

Zero == Micros(0)

(* TimeUtil::getTime *)
Clock == [sec |-> now \div NanosPerSec, nsec |-> now % NanosPerSec]

Init ==
  /\ now = 0 /\ running = TRUE /\ main = "sleep" /\ joined = 0
  /\ pc = [d \in Dispatcher |-> "start"]
  /\ due = [d \in Dispatcher |-> 0]
  /\ dispatch_sem = [d \in Dispatcher |-> 0]
  /\ base = [d \in Periodics |-> Zero]
  /\ rem = [d \in Dispatcher |-> Zero]
  /\ deltaPeriod = [d \in Jitters |-> Micros(InitialDelta)]
  /\ refused = {}
  /\ released = [d \in Dispatcher |-> 0]
  /\ when = [d \in Dispatcher |-> 0]

Goto(d, label) == pc' = [pc EXCEPT ![d] = label]

-----------------------------------------------------------------------------
(* The dispatchers *)

(* Mutant of Times: the percentage is not divided. *)
TimesUnscaled(k, a) ==
  LET nsec == k * a.nsec
  IN  [sec |-> k * a.sec + nsec \div NanosPerSec, nsec |-> nsec % NanosPerSec]

(* operator * with k/100: seconds and nanoseconds each lose their fraction. *)
Times(k, a) ==
  LET nsec == (k * a.nsec) \div 100
  IN  [sec  |-> (k * a.sec) \div 100 + nsec \div NanosPerSec,
       nsec |-> nsec % NanosPerSec]

(* Mutant of NewPeriod: what the last sleep was off by is not taken back. *)
NewPeriodAlone(k, delta) == Minus(Plus(period, jitter), Times(k, jitter))

(* What PeriodicJitter sleeps, and what it will take back from the next. *)
NewPeriod(k, delta) == Minus(Minus(Plus(period, jitter), Times(k, jitter)), delta)
NewDelta(k)         == Minus(jitter, Times(k, jitter))

(* nanosleep refuses a value that is not normal and returns at once. *)
Refused(a)    == ~Normal(a) \/ a.sec < 0
SleepUntil(a) == IF Refused(a) THEN now ELSE now + Nanos(a)

(* sem_timedwait returns at once if the time is past or a post is there. *)
WaitUntil(d, a) == IF dispatch_sem[d] > 0 \/ Nanos(a) < now THEN now ELSE Nanos(a)

(* Up to the loop; Aperiodic sleeps first.  No offset is ever set. *)
Start(d) ==
  /\ pc[d] = "start"
  /\ base' = IF d \in Periodics THEN [base EXCEPT ![d] = Clock] ELSE base
  /\ IF d \in Aperiodics
     THEN /\ Goto(d, "asleep")
          /\ rem' = [rem EXCEPT ![d] = releaseTime]
          /\ due' = [due EXCEPT ![d] = SleepUntil(releaseTime)]
     ELSE Goto(d, "test") /\ UNCHANGED <<rem, due>>
  /\ UNCHANGED <<now, mainVars, dispatch_sem, jitterVars, jobVars>>

(* Mutant of Test: the loop of Aperiodic does not end. *)
TestForever(d) ==
  /\ pc[d] = "test"
  /\ Goto(d, IF d \in Aperiodics THEN "sleep" ELSE IF running THEN "release" ELSE "exit")
  /\ UNCHANGED <<now, mainVars, sleepVars, jobVars>>

(* Mutant of Test: the release is in the loop of Aperiodic. *)
TestReleases(d) ==
  /\ pc[d] = "test"
  /\ Goto(d, IF running THEN "release" ELSE "exit")
  /\ UNCHANGED <<now, mainVars, sleepVars, jobVars>>

(* while (Processor::isRunning()): Aperiodic only sleeps again. *)
Test(d) ==
  /\ pc[d] = "test"
  /\ Goto(d, IF ~running THEN "exit" ELSE IF d \in Aperiodics THEN "sleep" ELSE "release")
  /\ UNCHANGED <<now, mainVars, sleepVars, jobVars>>

(* createNewTask counts the job, newJob hands it over. *)
Release(d) ==
  /\ pc[d] = "release"
  /\ released' = [released EXCEPT ![d] = @ + 1]
  /\ when' = [when EXCEPT ![d] = now]
  /\ Goto(d, "sleep")
  /\ UNCHANGED <<now, mainVars, sleepVars>>

(* Mutant of PeriodicSleep: a period from now on. *)
PeriodicSleepRelative(d) ==
  LET target == Plus(Clock, period)
  IN  /\ d \in Periodics /\ pc[d] = "sleep"
      /\ rem' = [rem EXCEPT ![d] = target]
      /\ due' = [due EXCEPT ![d] = WaitUntil(d, target)]
      /\ Goto(d, "asleep")
      /\ UNCHANGED <<now, mainVars, dispatch_sem, base, jitterVars, jobVars>>

(* rem = now + period, and the call of sem_timedwait. *)
PeriodicSleep(d) ==
  LET target == Plus(base[d], period)
  IN  /\ d \in Periodics /\ pc[d] = "sleep"
      /\ rem' = [rem EXCEPT ![d] = target]
      /\ due' = [due EXCEPT ![d] = WaitUntil(d, target)]
      /\ Goto(d, "asleep")
      /\ UNCHANGED <<now, mainVars, dispatch_sem, base, jitterVars, jobVars>>

(* The next sleep is off by a random part of the jitter. *)
JitterSleep(d) ==
  /\ d \in Jitters /\ pc[d] = "sleep" /\ running
  /\ \E k \in Percents :
       LET newPeriod == NewPeriod(k, deltaPeriod[d])
       IN  /\ rem' = [rem EXCEPT ![d] = newPeriod]
           /\ due' = [due EXCEPT ![d] = SleepUntil(newPeriod)]
           /\ deltaPeriod' = [deltaPeriod EXCEPT ![d] = NewDelta(k)]
           /\ refused' = IF Refused(newPeriod) THEN refused \cup {d} ELSE refused
  /\ Goto(d, "asleep")
  /\ UNCHANGED <<now, mainVars, dispatch_sem, base, jobVars>>

(* The second test of PeriodicJitter found the run over. *)
JitterSkip(d) ==
  /\ d \in Jitters /\ pc[d] = "sleep" /\ ~running
  /\ Goto(d, "test")
  /\ UNCHANGED <<now, mainVars, sleepVars, jobVars>>

(* The rest of the run, which is all that Aperiodic waits for. *)
Remainder == Minus(Minus(duration, releaseTime), Zero)

AperiodicSleep(d) ==
  /\ d \in Aperiodics /\ pc[d] = "sleep"
  /\ rem' = [rem EXCEPT ![d] = Remainder]
  /\ due' = [due EXCEPT ![d] = SleepUntil(Remainder)]
  /\ Goto(d, "asleep")
  /\ UNCHANGED <<now, mainVars, dispatch_sem, base, jitterVars, jobVars>>

(* The sleep returns: Periodic takes the post if there is one, and goes on  *)
(* from the time it asked for; Aperiodic tests after its release only.      *)
Wake(d) ==
  /\ pc[d] = "asleep" /\ now >= due[d]
  /\ base' = IF d \in Periodics THEN [base EXCEPT ![d] = rem[d]] ELSE base
  /\ dispatch_sem' = IF d \in Periodics /\ dispatch_sem[d] > 0
                     THEN [dispatch_sem EXCEPT ![d] = @ - 1] ELSE dispatch_sem
  /\ Goto(d, IF d \in Aperiodics /\ released[d] = 0 THEN "release" ELSE "test")
  /\ UNCHANGED <<now, mainVars, due, rem, jitterVars, jobVars>>

DispatcherStep(d) ==
  \/ Start(d) \/ Test(d) \/ Release(d) \/ Wake(d)
  \/ PeriodicSleep(d) \/ JitterSleep(d) \/ JitterSkip(d) \/ AperiodicSleep(d)

-----------------------------------------------------------------------------
(* The main thread and the clock *)

(* nanosleep(duration) is over. *)
EndRun ==
  /\ main = "sleep" /\ now >= Nanos(duration)
  /\ running' = FALSE /\ main' = "join"
  /\ UNCHANGED <<now, joined, pc, sleepVars, jobVars>>

(* Mutant of Post: two posts, as the semaphores of the workers get. *)
PostTwice ==
  LET d == joined + 1
  IN  /\ main = "join"
      /\ dispatch_sem' = [dispatch_sem EXCEPT ![d] = @ + 2]
      /\ due' = IF d \in Periodics /\ pc[d] = "asleep" /\ now < due[d]
                THEN [due EXCEPT ![d] = now] ELSE due
      /\ main' = "wait"
      /\ UNCHANGED <<now, running, joined, pc, base, rem, jitterVars, jobVars>>

(* Dispatcher::join posts dispatch_sem, for which only Periodic waits. *)
Post ==
  LET d == joined + 1
  IN  /\ main = "join"
      /\ dispatch_sem' = [dispatch_sem EXCEPT ![d] = @ + 1]
      /\ due' = IF d \in Periodics /\ pc[d] = "asleep" /\ now < due[d]
                THEN [due EXCEPT ![d] = now] ELSE due
      /\ main' = "wait"
      /\ UNCHANGED <<now, running, joined, pc, base, rem, jitterVars, jobVars>>

(* Thread::join2 *)
Join ==
  /\ main = "wait" /\ pc[joined + 1] = "exit"
  /\ joined' = joined + 1
  /\ main' = IF joined' = Len(Kinds) THEN "done" ELSE "join"
  /\ UNCHANGED <<now, running, pc, sleepVars, jobVars>>

MainStep == EndRun \/ Post \/ Join

(* Time does not pass anybody who has been late for MaxLate; main posts and *)
(* joins without delay.                                                     *)
Tick ==
  /\ \/ main = "sleep" /\ now < Nanos(duration) + MaxLate
     \/ main = "wait" /\ pc[joined + 1] # "exit"
  /\ \A d \in Dispatcher : pc[d] # "exit" => now < due[d] + MaxLate
  /\ now < MaxClock
  /\ now' = now + 1
  /\ UNCHANGED <<mainVars, pc, sleepVars, jobVars>>

Terminated == main = "done" /\ UNCHANGED vars

Next == (\E d \in Dispatcher : DispatcherStep(d)) \/ MainStep \/ Tick \/ Terminated

Spec == Init /\ [][Next]_vars

(* Everybody who can go on does, and time passes. *)
FairSpec ==
  /\ Spec /\ WF_vars(MainStep) /\ WF_vars(Tick)
  /\ \A d \in Dispatcher : WF_vars(DispatcherStep(d))

-----------------------------------------------------------------------------
(* Properties *)

Label == {"start", "test", "release", "sleep", "asleep", "exit"}

(* The types of all variables. *)
TypeOK ==
  /\ now \in Nat /\ running \in BOOLEAN
  /\ main \in {"sleep", "join", "wait", "done"}
  /\ joined \in 0..Len(Kinds)
  /\ pc \in [Dispatcher -> Label]
  /\ due \in [Dispatcher -> Nat]
  /\ dispatch_sem \in [Dispatcher -> {0, 1}]
  /\ base \in [Periodics -> Timespec]
  /\ rem \in [Dispatcher -> Timespec]
  /\ deltaPeriod \in [Jitters -> Timespec] /\ refused \subseteq Jitters
  /\ released \in [Dispatcher -> Nat]
  /\ when \in [Dispatcher -> Nat]

(* The jobs of a periodic task are released at multiples of the period: the *)
(* lateness of one release does not delay the next, however long the run    *)
(* (Periodic waits until now + period, not for a period).                   *)
PeriodicOnTime ==
  \A d \in Periodics : released[d] > 0 =>
    when[d] - (released[d] - 1) * Nanos(period) \in 0..(2 * MaxLate)

(* "deltaPeriod keeps the timing" (PeriodicJitter::dispatch): the random    *)
(* parts do not add up.  The n-th sleep is over n periods after the start,  *)
(* but for the random part of that sleep alone, the 5 ms that deltaPeriod   *)
(* starts with, and the lateness of the releases before.  So it is for a    *)
(* task of which nanosleep has taken every sleep; a sleep that it refuses   *)
(* is lost (SleepsValid says when there is none).                           *)
JitterTelescopes ==
  \A d \in Jitters \ refused : pc[d] = "asleep" =>
    due[d] - (released[d] * Nanos(period) + Nanos(deltaPeriod[d]) - Nanos(Micros(InitialDelta)))
      \in 0..(released[d] * MaxLate)

(* The lengths for which PeriodicJitter computes values that are normal:    *)
(* the period, less the jitter and with twice the jitter, lies within one   *)
(* second, and is long enough for the random part and for the 5 ms.  Not so *)
(* for a period of whole seconds with any jitter: operator - then takes a   *)
(* negative deltaPeriod from a value just below a second and does not carry. *)
JitterFits ==
  LET belowSecond == Period % MicrosPerSec
  IN  /\ Jitter <= belowSecond /\ belowSecond + 2 * Jitter < MicrosPerSec
      /\ 2 * Jitter <= Period /\ InitialDelta + Jitter <= Period

(* The dispatchers whose lengths of time the code's sums can cope with.     *)
SleepFits(d) == /\ d \in Jitters => JitterFits
                /\ d \in Aperiodics => ReleaseTime <= Duration

(* Provided that SleepFits, nanosleep is never asked for a time it refuses, *)
(* so no dispatcher floods the workers with jobs released without a pause.  *)
(* Of periodic tasks it holds without a condition.                          *)
SleepsValid == \A d \in Dispatcher : SleepFits(d) /\ pc[d] = "asleep" => ~Refused(rem[d])

(* After the run the number of jobs of a task is what its period and the    *)
(* duration give: a last test or a post that comes late adds none.          *)
JobsCounted ==
  main = "done" =>
    /\ \A d \in Aperiodics : released[d] = 1
    /\ \A d \in Periodics :
         /\ (released[d] - 1) * Nanos(period) <= Nanos(duration) + MaxLate
         /\ released[d] * Nanos(period) + 2 * MaxLate >= Nanos(duration)

(* How long after the end of the run a dispatcher may still be asleep: the  *)
(* post ends the wait of a Periodic whose turn has come, nothing ends the   *)
(* sleep of another.                                                        *)
Overtime(d) ==
  IF d \in Periodics THEN Nanos(period)
  ELSE IF d \in Jitters THEN Nanos(period) + 2 * Nanos(jitter)
  ELSE IF ReleaseTime <= Duration THEN Nanos(duration) - Nanos(releaseTime)
  ELSE Nanos(releaseTime) - Nanos(duration)

(* A dispatcher that tested running just before the end sleeps once more,   *)
(* Aperiodic for almost a whole run, and no more than once.                 *)
EndsInTime ==
  \A d \in Dispatcher :
    pc[d] # "exit" => now <= Nanos(duration) + Overtime(d) + 3 * MaxLate

(* Every run ends: join_all returns from every dispatcher. *)
RunEnds == main = "sleep" ~> main = "done"
=============================================================================
