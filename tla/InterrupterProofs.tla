-------------------------- MODULE InterrupterProofs --------------------------
(***************************************************************************)
(* What the interruptions of workers keep, for any number of workers, rows *)
(* and samples: a source for each unit of resume_sem (front() never reads an*)
(* empty list), the lock state_sem and the types, the balance of suspensions*)
(* and wake-ups, what the joins find of it, and the readings of workers that*)
(* answer in time.                                                         *)
(*                                                                         *)
(* Each part has an invariant of its own that rests on the parts before it;*)
(* most steps are quiet for most parts, and the lemmas say so once: for the*)
(* sources, a step that touches neither the semaphore nor the list and whose*)
(* thread is not between the two.                                          *)
(***************************************************************************)
EXTENDS ExecutionInterrupter, SequenceTheorems, FiniteSetTheorems, TLAPS

(* The places of the threads. *)
Label == {"begin", "loop", "check", "read", "inform", "read_asleep", "inform_asleep",
          "suspend", "asleep", "resumed", "load", "loaded", "begin_fire", "fire", "clear",
          "exit", "row", "suspend_post", "resume_push", "resume_post", "sample", "trigger",
          "await", "get", "run", "join", "stop_post", "stop_load", "await_exit",
          "crashed"}

ResumeTypes ==
  /\ pc \in [Thread -> Label]
  /\ at \in [Caller -> Core]
  /\ resume_sem \in [Core -> Nat]
  /\ resume_sem_sources \in [Core -> Seq(Source)]

ResumeInv == ResumeTypes /\ SourcesCoverUnits

(* The places between a change of the semaphore and one of the list.        *)
Between == {"resumed", "resume_post", "stop_post"}

Quiet(t) ==
  /\ pc' \in [Thread -> Label] /\ at' \in [Caller -> Core]
  /\ \A u \in Thread \ {t} : pc'[u] = pc[u]
  /\ \A u \in Caller \ {t} : at'[u] = at[u]
  /\ pc[t] \notin Between /\ pc'[t] \notin Between
  /\ UNCHANGED <<resume_sem, resume_sem_sources>>

(* A quiet step of any thread preserves the invariant. *)
LEMMA QuietKeeps ==
  ASSUME ResumeInv, NEW t \in Thread, Quiet(t)
  PROVE  ResumeInv'
<1>1. ResumeTypes'
  BY DEF ResumeInv, ResumeTypes, Quiet
<1>2. ASSUME NEW u \in Thread, NEW l \in Between
      PROVE  (pc[u] = l) <=> (pc'[u] = l)
  BY DEF Quiet
<1>3. ASSUME NEW u \in Caller, NEW c \in Core
      PROVE  Posting(u, c) <=> Posting(u, c)'
  <2>1. CASE u = t
    BY <2>1 DEF Quiet, Posting, Between
  <2>2. CASE u # t
    BY <2>2 DEF Quiet, Posting, Thread
  <2> QED BY <2>1, <2>2
<1>4. SourcesCoverUnits'
  <2> SUFFICES ASSUME NEW c \in Core
               PROVE  (Len(resume_sem_sources[c]) =
                         resume_sem[c] + One(pc[c] = "resumed")
                           + One(Posting(PowerManager, c)) + One(Posting(TempWatcher, c))
                           + One(Posting(Main, c)))'
    BY DEF SourcesCoverUnits
  <2>1. (pc[c] = "resumed") <=> (pc'[c] = "resumed")
    BY <1>2 DEF Thread, Between
  <2>2. /\ Posting(PowerManager, c) <=> Posting(PowerManager, c)'
        /\ Posting(TempWatcher, c) <=> Posting(TempWatcher, c)'
        /\ Posting(Main, c) <=> Posting(Main, c)'
    BY <1>3 DEF Caller
  <2> HIDE DEF Posting
  <2> QED BY <2>1, <2>2 DEF ResumeInv, SourcesCoverUnits, Quiet, One
<1> QED BY <1>1, <1>4 DEF ResumeInv

Posted == {"resume_post", "stop_post"}

(* What the steps of caller t leave alone. *)
OthersAlone(t) ==
  /\ pc' \in [Thread -> Label] /\ at' \in [Caller -> Core]
  /\ \A u \in Thread \ {t} : pc'[u] = pc[u]
  /\ \A u \in Caller \ {t} : at'[u] = at[u]

Push(t) ==
  /\ OthersAlone(t) /\ at' = at
  /\ pc[t] \notin Posted /\ pc'[t] \in Posted
  /\ \E source \in Source : PushSource(t, source)
  /\ UNCHANGED resume_sem

Post(t) ==
  /\ OthersAlone(t)
  /\ pc[t] \in Posted /\ pc'[t] \notin Posted
  /\ PostResume(t)
  /\ UNCHANGED resume_sem_sources

LEMMA CallersDiffer ==
  /\ \A t \in Caller : t \in Thread /\ t \notin Core
  /\ PowerManager # TempWatcher /\ PowerManager # Main /\ TempWatcher # Main
BY CallersAssumption DEF Caller, Thread

LEMMA OthersPosting ==
  ASSUME NEW t \in Caller, OthersAlone(t)
  PROVE  /\ \A u \in Caller \ {t}, c \in Core : Posting(u, c) <=> Posting(u, c)'
         /\ \A c \in Core : pc'[c] = pc[c]
BY CallersDiffer DEF OthersAlone, Posting, Thread, Caller

(* The count of SourcesCoverUnits moves by one with the posting of t. *)
LEMMA Count ==
  ASSUME NEW t \in Caller, OthersAlone(t), NEW c \in Core, NEW n \in Int, NEW m \in Int,
         ResumeTypes,
         Len(resume_sem_sources[c]) =
           resume_sem[c] + One(pc[c] = "resumed") + One(Posting(PowerManager, c))
             + One(Posting(TempWatcher, c)) + One(Posting(Main, c)),
         Len(resume_sem_sources'[c]) = Len(resume_sem_sources[c]) + n,
         resume_sem'[c] = resume_sem[c] + m,
         One(Posting(t, c))' = One(Posting(t, c)) + n - m
  PROVE  (Len(resume_sem_sources[c]) =
           resume_sem[c] + One(pc[c] = "resumed") + One(Posting(PowerManager, c))
             + One(Posting(TempWatcher, c)) + One(Posting(Main, c)))'
<1>1. One(pc[c] = "resumed")' = One(pc[c] = "resumed")
  BY OthersPosting DEF One
<1>2. \A u \in Caller \ {t} : One(Posting(u, c))' = One(Posting(u, c))
  BY OthersPosting DEF One
<1>3. \A u \in Caller : One(Posting(u, c)) \in Int /\ One(Posting(u, c))' \in Int
  BY DEF One
<1>4. One(pc[c] = "resumed") \in Int /\ resume_sem[c] \in Int
  BY DEF One, ResumeTypes
<1>5. CASE t = PowerManager
  BY <1>1, <1>2, <1>3, <1>4, <1>5, CallersDiffer DEF Caller
<1>6. CASE t = TempWatcher
  BY <1>1, <1>2, <1>3, <1>4, <1>6, CallersDiffer DEF Caller
<1>7. CASE t = Main
  BY <1>1, <1>2, <1>3, <1>4, <1>7, CallersDiffer DEF Caller
<1> QED BY <1>5, <1>6, <1>7 DEF Caller

LEMMA PushKeeps ==
  ASSUME ResumeInv, NEW t \in Caller, Push(t)
  PROVE  ResumeInv'
<1> PICK source \in Source : PushSource(t, source)
  BY DEF Push
<1>1. at[t] \in Core
  BY DEF ResumeInv, ResumeTypes
<1>2. resume_sem_sources' \in [Core -> Seq(Source)]
  BY <1>1 DEF ResumeInv, ResumeTypes, PushSource
<1>3. ResumeTypes'
  BY <1>2 DEF ResumeInv, ResumeTypes, Push, OthersAlone
<1>4. ASSUME NEW c \in Core
      PROVE  (Len(resume_sem_sources[c]) =
                resume_sem[c] + One(pc[c] = "resumed") + One(Posting(PowerManager, c))
                  + One(Posting(TempWatcher, c)) + One(Posting(Main, c)))'
  <2> PICK n \in Int : n = One(c = at[t])
    BY DEF One
  <2>1. Len(resume_sem_sources'[c]) = Len(resume_sem_sources[c]) + n
    BY <1>1 DEF ResumeInv, ResumeTypes, PushSource, One
  <2>2. One(Posting(t, c))' = One(Posting(t, c)) + n - 0
    BY DEF Push, Posting, Posted, One
  <2>3. resume_sem'[c] = resume_sem[c] + 0
    BY DEF Push, ResumeInv, ResumeTypes
  <2>4. 0 \in Int
    OBVIOUS
  <2>5. OthersAlone(t) /\ ResumeTypes
    BY DEF Push, ResumeInv
  <2>6. Len(resume_sem_sources[c]) =
          resume_sem[c] + One(pc[c] = "resumed") + One(Posting(PowerManager, c))
            + One(Posting(TempWatcher, c)) + One(Posting(Main, c))
    BY DEF ResumeInv, SourcesCoverUnits
  <2> QED BY <2>1, <2>2, <2>3, <2>4, <2>5, <2>6, Count
<1> QED BY <1>3, <1>4 DEF ResumeInv, SourcesCoverUnits

LEMMA PostKeeps ==
  ASSUME ResumeInv, NEW t \in Caller, Post(t)
  PROVE  ResumeInv'
<1>1. at[t] \in Core
  BY DEF ResumeInv, ResumeTypes
<1>2. resume_sem' \in [Core -> Nat]
  BY <1>1 DEF ResumeInv, ResumeTypes, Post, PostResume, Up
<1>3. ResumeTypes'
  BY <1>2 DEF ResumeInv, ResumeTypes, Post, OthersAlone
<1>4. ASSUME NEW c \in Core
      PROVE  (Len(resume_sem_sources[c]) =
                resume_sem[c] + One(pc[c] = "resumed") + One(Posting(PowerManager, c))
                  + One(Posting(TempWatcher, c)) + One(Posting(Main, c)))'
  <2>1. resume_sem'[c] = resume_sem[c] + One(c = at[t])
    BY <1>1 DEF ResumeInv, ResumeTypes, Post, PostResume, Up, One
  <2>2. One(Posting(t, c))' = One(Posting(t, c)) + 0 - One(c = at[t])
    BY DEF Post, Posting, Posted, One
  <2>3. Len(resume_sem_sources'[c]) = Len(resume_sem_sources[c]) + 0
    BY DEF Post, ResumeInv, ResumeTypes
  <2>4. One(c = at[t]) \in Int
    BY DEF One
  <2>5. OthersAlone(t) /\ ResumeTypes
    BY DEF Post, ResumeInv
  <2>6. Len(resume_sem_sources[c]) =
          resume_sem[c] + One(pc[c] = "resumed") + One(Posting(PowerManager, c))
            + One(Posting(TempWatcher, c)) + One(Posting(Main, c))
    BY DEF ResumeInv, SourcesCoverUnits
  <2> QED BY <2>1, <2>2, <2>3, <2>4, <2>5, <2>6, Count
<1> QED BY <1>3, <1>4 DEF ResumeInv, SourcesCoverUnits

(* A worker takes a unit, then the source of that unit.  In between it is    *)
(* the only one to hold a unit of its semaphore.                             *)
LEMMA WaitResumeKeeps ==
  ASSUME ResumeInv, NEW c \in Core, WaitResume(c)
  PROVE  ResumeInv'
<1>1. c \in Thread /\ c \notin Caller
  BY CallersAssumption DEF Thread
<1>2. resume_sem' \in [Core -> Nat] /\ pc' \in [Thread -> Label]
  <2>1. resume_sem[c] - 1 \in Nat /\ resume_sem' = [resume_sem EXCEPT ![c] = @ - 1]
    BY DEF ResumeInv, ResumeTypes, WaitResume, Down
  <2>2. resume_sem' \in [Core -> Nat]
    BY <2>1 DEF ResumeInv, ResumeTypes
  <2>3. "resumed" \in Label
    BY DEF Label
  <2>4. pc' \in [Thread -> Label]
    BY <1>1, <2>3 DEF ResumeInv, ResumeTypes, WaitResume, Goto
  <2> QED BY <2>2, <2>4
<1>3. UNCHANGED <<at, resume_sem_sources>>
  BY DEF WaitResume
<1>4. ResumeTypes'
  BY <1>2, <1>3 DEF ResumeInv, ResumeTypes
<1>a. \A u \in Thread \ {c} : pc'[u] = pc[u]
  BY <1>1 DEF WaitResume, Goto, ResumeInv, ResumeTypes
<1>5. \A u \in Caller, d \in Core : Posting(u, d) <=> Posting(u, d)'
  BY <1>1, <1>3, <1>a DEF Posting, Thread
<1>6. ASSUME NEW d \in Core
      PROVE  resume_sem'[d] + One(pc[d] = "resumed")' = resume_sem[d] + One(pc[d] = "resumed")
  BY <1>1 DEF WaitResume, Goto, Down, One, ResumeInv, ResumeTypes, Thread
<1>7. \A d \in Core : resume_sem[d] \in Int /\ resume_sem'[d] \in Int
  BY <1>2 DEF ResumeInv, ResumeTypes
<1>8. SourcesCoverUnits'
  <2> SUFFICES ASSUME NEW d \in Core
               PROVE  (Len(resume_sem_sources[d]) =
                         resume_sem[d] + One(pc[d] = "resumed")
                           + One(Posting(PowerManager, d)) + One(Posting(TempWatcher, d))
                           + One(Posting(Main, d)))'
    BY DEF SourcesCoverUnits
  <2>1. /\ One(Posting(PowerManager, d))' = One(Posting(PowerManager, d))
        /\ One(Posting(TempWatcher, d))' = One(Posting(TempWatcher, d))
        /\ One(Posting(Main, d))' = One(Posting(Main, d))
    BY <1>5 DEF One, Caller
  <2> QED BY <2>1, <1>3, <1>6, <1>7 DEF ResumeInv, SourcesCoverUnits
<1> QED BY <1>4, <1>8 DEF ResumeInv

LEMMA TakeSourceKeeps ==
  ASSUME ResumeInv, NEW c \in Core, TakeSource(c)
  PROVE  ResumeInv'
<1>1. c \in Thread /\ c \notin Caller
  BY CallersAssumption DEF Thread
<1>2. Len(resume_sem_sources[c]) > 0
  <2>1. pc[c] = "resumed" /\ resume_sem[c] \in Nat
    BY DEF TakeSource, ResumeInv, ResumeTypes
  <2>2. \A u \in Caller : One(Posting(u, c)) \in Nat
    BY DEF One
  <2> QED BY <2>1, <2>2 DEF ResumeInv, SourcesCoverUnits, One, Caller
<1>3. /\ Tail(resume_sem_sources[c]) \in Seq(Source)
      /\ Len(Tail(resume_sem_sources[c])) = Len(resume_sem_sources[c]) - 1
  BY <1>2 DEF ResumeInv, ResumeTypes
<1>4. resume_sem_sources' = [resume_sem_sources EXCEPT ![c] = Tail(@)]
  BY DEF TakeSource
<1>5. pc' \in [Thread -> Label] /\ pc'[c] # "resumed"
      /\ \A u \in Thread \ {c} : pc'[u] = pc[u]
  <2>1. \E l \in Label : l # "resumed" /\ Goto(c, l)
    <3>1. CASE Head(resume_sem_sources[c]) = "TEMPWATCHER"
      <4>1. Goto(c, "read_asleep")
        BY <3>1 DEF TakeSource
      <4>2. "read_asleep" \in Label /\ "read_asleep" # "resumed"
        BY DEF Label
      <4> QED BY <4>1, <4>2
    <3>2. CASE Head(resume_sem_sources[c]) # "TEMPWATCHER"
      <4>1. Goto(c, AfterCheck(c))
        BY <3>2 DEF TakeSource, CheckReturns
      <4>2. AfterCheck(c) \in Label /\ AfterCheck(c) # "resumed"
        BY DEF AfterCheck, Label
      <4> QED BY <4>1, <4>2
    <3> QED BY <3>1, <3>2
  <2>2. PICK l \in Label : l # "resumed" /\ Goto(c, l)
    BY <2>1
  <2> QED BY <2>2, <1>1 DEF Goto, ResumeInv, ResumeTypes
<1>6. UNCHANGED <<at, resume_sem>>
  BY DEF TakeSource
<1>7. ResumeTypes'
  BY <1>3, <1>4, <1>5, <1>6 DEF ResumeInv, ResumeTypes
<1>8. \A u \in Caller, d \in Core : Posting(u, d) <=> Posting(u, d)'
  BY <1>1, <1>5, <1>6 DEF Posting, Thread
<1>9. /\ pc[c] = "resumed"
      /\ Len(resume_sem_sources'[c]) = Len(resume_sem_sources[c]) - 1
      /\ \A d \in Core \ {c} : resume_sem_sources'[d] = resume_sem_sources[d]
  BY <1>3, <1>4 DEF TakeSource, ResumeInv, ResumeTypes
<1>10. \A d \in Core : Len(resume_sem_sources[d]) \in Int
  BY DEF ResumeInv, ResumeTypes
<1>11. SourcesCoverUnits'
  <2> SUFFICES ASSUME NEW d \in Core
               PROVE  (Len(resume_sem_sources[d]) =
                         resume_sem[d] + One(pc[d] = "resumed")
                           + One(Posting(PowerManager, d)) + One(Posting(TempWatcher, d))
                           + One(Posting(Main, d)))'
    BY DEF SourcesCoverUnits
  <2>1. /\ One(Posting(PowerManager, d))' = One(Posting(PowerManager, d))
        /\ One(Posting(TempWatcher, d))' = One(Posting(TempWatcher, d))
        /\ One(Posting(Main, d))' = One(Posting(Main, d))
    BY <1>8 DEF One, Caller
  <2>2. \A u \in Caller : One(Posting(u, d)) \in Int
    BY DEF One
  <2>3. resume_sem[d] \in Int /\ resume_sem'[d] = resume_sem[d]
    BY <1>6 DEF ResumeInv, ResumeTypes
  <2>4. Len(resume_sem_sources[d]) =
          resume_sem[d] + One(pc[d] = "resumed") + One(Posting(PowerManager, d))
            + One(Posting(TempWatcher, d)) + One(Posting(Main, d))
    BY DEF ResumeInv, SourcesCoverUnits
  <2>5. PowerManager \in Caller /\ TempWatcher \in Caller /\ Main \in Caller
    BY DEF Caller
  <2>6. Len(resume_sem_sources'[d]) =
          resume_sem[d] + One(pc[d] = "resumed")' + One(Posting(PowerManager, d))
            + One(Posting(TempWatcher, d)) + One(Posting(Main, d))
    <3>1. /\ One(Posting(PowerManager, d)) \in Int
          /\ One(Posting(TempWatcher, d)) \in Int
          /\ One(Posting(Main, d)) \in Int
      BY <2>2, <2>5
    <3>2. CASE d = c
      <4>1. One(pc[d] = "resumed") = 1 /\ One(pc[d] = "resumed")' = 0
        BY <3>2, <1>5, <1>9 DEF One
      <4> QED BY <3>1, <3>2, <4>1, <2>3, <2>4, <1>9, <1>10
    <3>3. CASE d # c
      <4>1. One(pc[d] = "resumed")' = One(pc[d] = "resumed")
        BY <3>3, <1>5 DEF One, Thread
      <4> QED BY <3>3, <4>1, <2>4, <1>9
    <3> QED BY <3>2, <3>3
  <2> QED BY <2>1, <2>3, <2>6
<1> QED BY <1>7, <1>11 DEF ResumeInv

(* A thread goes from one place to another, outside of Between. *)
LEMMA GotoQuiet ==
  ASSUME ResumeInv, NEW t \in Thread, NEW l \in Label, l \notin Between, Goto(t, l),
         pc[t] \notin Between,
         at' \in [Caller -> Core], \A u \in Caller \ {t} : at'[u] = at[u],
         UNCHANGED <<resume_sem, resume_sem_sources>>
  PROVE  ResumeInv'
<1>1. Quiet(t)
  <2>1. pc' \in [Thread -> Label] /\ pc'[t] = l /\ \A u \in Thread \ {t} : pc'[u] = pc[u]
    BY DEF ResumeInv, ResumeTypes, Goto
  <2> QED BY <2>1 DEF Quiet
<1> QED BY <1>1, QuietKeeps

LEMMA WorkerGoto ==
  ASSUME ResumeInv, NEW c \in Core, NEW l \in Label, l \notin Between, Goto(c, l),
         pc[c] \notin Between, UNCHANGED <<at, resume_sem, resume_sem_sources>>
  PROVE  ResumeInv'
<1>1. c \in Thread /\ at' \in [Caller -> Core] /\ \A u \in Caller \ {c} : at'[u] = at[u]
  BY DEF Thread, ResumeInv, ResumeTypes
<1> QED BY <1>1, GotoQuiet

LEMMA WorkerKeeps ==
  ASSUME ResumeInv, NEW c \in Core, Worker(c)
  PROVE  ResumeInv'
<1>1. CASE WaitResume(c)
  BY <1>1, WaitResumeKeeps
<1>2. CASE TakeSource(c)
  BY <1>2, TakeSourceKeeps
<1>3. CASE InformExecutionBegin(c)
  BY <1>3, WorkerGoto DEF InformExecutionBegin, signalVars, Label, Between
<1>4. CASE WorkerLoop(c)
  <2>1. pc[c] = "loop" /\ (Goto(c, "check") \/ Goto(c, "exit"))
        /\ UNCHANGED <<at, resume_sem, resume_sem_sources>>
    BY <1>4 DEF WorkerLoop, signalVars
  <2> QED BY <2>1, WorkerGoto DEF Label, Between
<1>5. CASE CheckInterrupts(c)
  <2>1. pc[c] = "check" /\ (Goto(c, "read") \/ Goto(c, "suspend"))
        /\ UNCHANGED <<at, resume_sem, resume_sem_sources>>
    BY <1>5 DEF CheckInterrupts, signalVars
  <2> QED BY <2>1, WorkerGoto DEF Label, Between
<1>6. CASE ReadCounters(c)
  <2>1. pc[c] \in {"read", "read_asleep"}
        /\ (Goto(c, "inform") \/ Goto(c, "inform_asleep"))
        /\ UNCHANGED <<at, resume_sem, resume_sem_sources>>
    BY <1>6 DEF ReadCounters, signalVars
  <2> QED BY <2>1, WorkerGoto DEF Label, Between
<1>7. CASE InformPAPIReadingFinish(c)
  BY <1>7, WorkerGoto DEF InformPAPIReadingFinish, signalVars, Label, Between
<1>8. CASE InformAsleep(c)
  BY <1>8, WorkerGoto DEF InformAsleep, signalVars, Label, Between
<1>9. CASE NotSuspended(c)
  <2>1. pc[c] = "suspend" /\ Goto(c, AfterCheck(c))
        /\ UNCHANGED <<at, resume_sem, resume_sem_sources>>
    BY <1>9 DEF NotSuspended, CheckReturns, signalVars
  <2>2. AfterCheck(c) \in Label /\ AfterCheck(c) \notin Between
    BY DEF AfterCheck, Label, Between
  <2> QED BY <2>1, <2>2, WorkerGoto DEF Between
<1>10. CASE FallAsleep(c)
  BY <1>10, WorkerGoto DEF FallAsleep, Label, Between
<1>11. CASE TryLoadJob(c)
  BY <1>11, WorkerGoto DEF TryLoadJob, signalVars, Label, Between
<1>12. CASE Loaded(c)
  <2>1. pc[c] = "loaded" /\ (Goto(c, "loop") \/ Goto(c, "load"))
        /\ UNCHANGED <<at, resume_sem, resume_sem_sources>>
    BY <1>12 DEF Loaded, signalVars
  <2> QED BY <2>1, WorkerGoto DEF Label, Between
<1>13. CASE BeginFire(c)
  BY <1>13, WorkerGoto DEF BeginFire, signalVars, Label, Between
<1>14. CASE Fire(c)
  <2>1. pc[c] = "fire" /\ (Goto(c, "clear") \/ Goto(c, "check"))
        /\ UNCHANGED <<at, resume_sem, resume_sem_sources>>
    BY <1>14 DEF Fire, signalVars
  <2> QED BY <2>1, WorkerGoto DEF Label, Between
<1>15. CASE ClearJob(c)
  BY <1>15, WorkerGoto DEF ClearJob, signalVars, Label, Between
<1> QED BY <1>1, <1>2, <1>3, <1>4, <1>5, <1>6, <1>7, <1>8, <1>9, <1>10, <1>11, <1>12,
           <1>13, <1>14, <1>15 DEF Worker

LEMMA CallerGoto ==
  ASSUME ResumeInv, NEW t \in Caller, NEW l \in Label, l \notin Between, Goto(t, l),
         pc[t] \notin Between, NEW c \in Core, at' = [at EXCEPT ![t] = c] \/ at' = at,
         UNCHANGED <<resume_sem, resume_sem_sources>>
  PROVE  ResumeInv'
<1>1. t \in Thread /\ at' \in [Caller -> Core] /\ \A u \in Caller \ {t} : at'[u] = at[u]
  BY DEF Thread, ResumeInv, ResumeTypes
<1> QED BY <1>1, GotoQuiet

(* What a step of caller t that only moves t leaves alone. *)
LEMMA CallerAlone ==
  ASSUME ResumeInv, NEW t \in Caller, NEW l \in Label, Goto(t, l),
         NEW c \in Core, at' = [at EXCEPT ![t] = c] \/ at' = at
  PROVE  OthersAlone(t) /\ pc'[t] = l
<1>1. t \in Thread
  BY DEF Thread
<1>2. pc' \in [Thread -> Label] /\ pc'[t] = l /\ \A u \in Thread \ {t} : pc'[u] = pc[u]
  BY <1>1 DEF ResumeInv, ResumeTypes, Goto
<1>3. at' \in [Caller -> Core] /\ \A u \in Caller \ {t} : at'[u] = at[u]
  BY DEF ResumeInv, ResumeTypes
<1> QED BY <1>2, <1>3 DEF OthersAlone

LEMMA ZeroIsCore == 0 \in Core
BY CoresAssumption DEF Core

LEMMA PowerManagerKeeps ==
  ASSUME ResumeInv, PowerManagerNext
  PROVE  ResumeInv'
<1> DEFINE t == PowerManager
<1>1. t \in Caller /\ at[t] \in Core
  BY DEF Caller, ResumeInv, ResumeTypes
<1>2. CASE \E c \in Core : Deactivate(c)
  <2> PICK c \in Core : Deactivate(c)
    BY <1>2
  <2> QED BY <1>1, CallerGoto DEF Deactivate, signalVars, Label, Between
<1>3. CASE \E c \in Core : Activate(c)
  <2> PICK c \in Core : Activate(c)
    BY <1>3
  <2> QED BY <1>1, CallerGoto DEF Activate, signalVars, Label, Between
<1>4. CASE SuspendExecution
  BY <1>1, <1>4, CallerGoto DEF SuspendExecution, Label, Between
<1>5. CASE ActivatePush
  <2>1. /\ pc[t] = "resume_push" /\ Goto(t, "resume_post") /\ UNCHANGED <<at, resume_sem>>
        /\ PushSource(t, "POWERMANAGER")
    BY <1>5 DEF ActivatePush
  <2>2. OthersAlone(t) /\ pc'[t] = "resume_post"
    BY <2>1, <1>1, CallerAlone DEF Label
  <2>3. Push(t)
    BY <2>1, <2>2 DEF Push, Posted, Source
  <2> QED BY <2>3, <1>1, PushKeeps
<1>6. CASE ActivatePost
  <2>1. /\ pc[t] = "resume_post" /\ Goto(t, "row") /\ PostResume(t)
        /\ UNCHANGED <<at, resume_sem_sources>>
    BY <1>6 DEF ActivatePost
  <2>2. OthersAlone(t) /\ pc'[t] = "row"
    BY <2>1, <1>1, CallerAlone DEF Label
  <2>3. Post(t)
    BY <2>1, <2>2 DEF Post, Posted
  <2> QED BY <2>3, <1>1, PostKeeps
<1>7. CASE PowerManagerExit
  BY <1>1, <1>7, CallerGoto DEF PowerManagerExit, signalVars, Label, Between
<1> QED BY <1>2, <1>3, <1>4, <1>5, <1>6, <1>7 DEF PowerManagerNext

(* NextCore moves the watcher to one of two places and to some core. *)
LEMMA NextCoreMoves ==
  ASSUME NEW label, NEW after, NextCore(label, after)
  PROVE  \E c \in Core, l \in {label, after} :
            Goto(TempWatcher, l) /\ at' = [at EXCEPT ![TempWatcher] = c]
<1>1. CASE at[TempWatcher] + 1 \in Core
  BY <1>1 DEF NextCore
<1>2. CASE at[TempWatcher] + 1 \notin Core
  BY <1>2, ZeroIsCore DEF NextCore
<1> QED BY <1>1, <1>2

LEMMA WatcherMoves ==
  ASSUME ResumeInv, NEW label \in Label, NEW after \in Label,
         label \notin Between, after \notin Between, NextCore(label, after),
         pc[TempWatcher] \notin Between, UNCHANGED <<resume_sem, resume_sem_sources>>
  PROVE  ResumeInv'
<1>1. PICK c \in Core, l \in {label, after} :
            Goto(TempWatcher, l) /\ at' = [at EXCEPT ![TempWatcher] = c]
  BY NextCoreMoves
<1>2. TempWatcher \in Caller /\ l \in Label /\ l \notin Between
  BY DEF Caller
<1> QED BY <1>1, <1>2, CallerGoto

LEMMA TempWatcherKeeps ==
  ASSUME ResumeInv, TempWatcherNext
  PROVE  ResumeInv'
<1> DEFINE t == TempWatcher
<1>1. t \in Caller /\ at[t] \in Core
  BY DEF Caller, ResumeInv, ResumeTypes
<1>2. CASE StartSample
  BY <1>1, <1>2, ZeroIsCore, CallerGoto DEF StartSample, signalVars, Label, Between
<1>3. CASE ClearCounterValues
  BY <1>1, <1>3, CallerGoto DEF ClearCounterValues, signalVars, Label, Between
<1>4. CASE TriggerExecuting
  BY <1>4, WatcherMoves DEF TriggerExecuting, signalVars, Label, Between
<1>5. CASE TriggerSleeping
  <2>1. /\ pc[t] = "trigger" /\ Goto(t, "resume_post") /\ UNCHANGED <<at, resume_sem>>
        /\ PushSource(t, "TEMPWATCHER")
    BY <1>5 DEF TriggerSleeping
  <2>2. OthersAlone(t) /\ pc'[t] = "resume_post"
    BY <2>1, <1>1, CallerAlone DEF Label
  <2>3. Push(t)
    BY <2>1, <2>2 DEF Push, Posted, Source
  <2> QED BY <2>3, <1>1, PushKeeps
<1>6. CASE TriggerPost
  <2>1. /\ pc[t] = "resume_post" /\ NextCore("clear", "await") /\ PostResume(t)
        /\ UNCHANGED resume_sem_sources
    BY <1>6 DEF TriggerPost
  <2>2. PICK c \in Core, l \in {"clear", "await"} :
            Goto(t, l) /\ at' = [at EXCEPT ![t] = c]
    BY <2>1, NextCoreMoves
  <2>3. l \in Label /\ l \notin Posted
    BY DEF Label, Posted
  <2>4. OthersAlone(t) /\ pc'[t] = l
    BY <2>2, <2>3, <1>1, CallerAlone
  <2>5. Post(t)
    BY <2>1, <2>3, <2>4 DEF Post, Posted
  <2> QED BY <2>5, <1>1, PostKeeps
<1>7. CASE TakeReading
  <2>1. /\ pc[t] = "await" /\ UNCHANGED <<resume_sem, resume_sem_sources>>
        /\ NextCore("await", IF timeouts = {} THEN "get" ELSE "sample")
    BY <1>7 DEF TakeReading, signalVars
  <2>2. CASE timeouts = {}
    BY <2>1, <2>2, WatcherMoves DEF Label, Between
  <2>3. CASE timeouts # {}
    BY <2>1, <2>3, WatcherMoves DEF Label, Between
  <2> QED BY <2>2, <2>3
<1>8. CASE ReadingTimeout
  BY <1>8, WatcherMoves DEF ReadingTimeout, signalVars, Label, Between
<1>9. CASE GetPAPIValues
  BY <1>1, <1>9, CallerGoto DEF GetPAPIValues, signalVars, Label, Between
<1>10. CASE TempWatcherExit
  BY <1>1, <1>10, CallerGoto DEF TempWatcherExit, signalVars, Label, Between
<1> QED BY <1>2, <1>3, <1>4, <1>5, <1>6, <1>7, <1>8, <1>9, <1>10 DEF TempWatcherNext

LEMMA MainKeeps ==
  ASSUME ResumeInv, EndRun \/ JoinNext
  PROVE  ResumeInv'
<1> DEFINE t == Main
<1>1. t \in Caller /\ at[t] \in Core
  BY DEF Caller, ResumeInv, ResumeTypes
<1>2. CASE EndRun
  BY <1>1, <1>2, CallerGoto DEF EndRun, signalVars, Label, Between
<1>3. CASE BeginJoin
  BY <1>1, <1>3, CallerGoto DEF BeginJoin, signalVars, Label, Between
<1>4. CASE JoinPush
  <2>1. /\ pc[t] = "resume_push" /\ Goto(t, "resume_post") /\ UNCHANGED <<at, resume_sem>>
        /\ PushSource(t, "PROCESSOR")
    BY <1>4 DEF JoinPush
  <2>2. OthersAlone(t) /\ pc'[t] = "resume_post"
    BY <2>1, <1>1, CallerAlone DEF Label
  <2>3. Push(t)
    BY <2>1, <2>2 DEF Push, Posted, Source
  <2> QED BY <2>3, <1>1, PushKeeps
<1>5. CASE JoinPost
  <2>1. /\ pc[t] = "resume_post" /\ Goto(t, "resume_push") /\ PostResume(t)
        /\ UNCHANGED <<at, resume_sem_sources>>
    BY <1>5 DEF JoinPost
  <2>2. OthersAlone(t) /\ pc'[t] = "resume_push"
    BY <2>1, <1>1, CallerAlone DEF Label
  <2>3. Post(t)
    BY <2>1, <2>2 DEF Post, Posted
  <2> QED BY <2>3, <1>1, PostKeeps
<1>6. CASE JoinStop
  <2>1. pc[t] = "resume_push" /\ UNCHANGED <<at, resume_sem>>
    BY <1>6 DEF JoinStop
  <2>2. CASE current_job[at[t]]
    <3>1. Goto(t, "stop_post") /\ PushSource(t, "PROCESSOR")
      BY <1>6, <2>2 DEF JoinStop
    <3>2. OthersAlone(t) /\ pc'[t] = "stop_post"
      BY <2>1, <3>1, <1>1, CallerAlone DEF Label
    <3>3. Push(t)
      BY <2>1, <3>1, <3>2 DEF Push, Posted, Source
    <3> QED BY <3>3, <1>1, PushKeeps
  <2>3. CASE ~current_job[at[t]]
    <3>1. Goto(t, "await_exit") /\ UNCHANGED resume_sem_sources
      BY <1>6, <2>3 DEF JoinStop
    <3> QED BY <2>1, <3>1, <1>1, CallerGoto DEF Label, Between
  <2> QED BY <2>2, <2>3
<1>7. CASE JoinStopPost
  <2>1. /\ pc[t] = "stop_post" /\ Goto(t, "stop_load") /\ PostResume(t)
        /\ UNCHANGED <<at, resume_sem_sources>>
    BY <1>7 DEF JoinStopPost
  <2>2. OthersAlone(t) /\ pc'[t] = "stop_load"
    BY <2>1, <1>1, CallerAlone DEF Label
  <2>3. Post(t)
    BY <2>1, <2>2 DEF Post, Posted
  <2> QED BY <2>3, <1>1, PostKeeps
<1>8. CASE JoinStopLoad
  <2>1. /\ pc[t] = "stop_load" /\ UNCHANGED <<at, resume_sem, resume_sem_sources>>
        /\ Goto(t, "await_exit") \/ Goto(t, "crashed")
    BY <1>8 DEF JoinStopLoad, signalVars
  <2> QED BY <2>1, <1>1, CallerGoto DEF Label, Between
<1>9. CASE JoinReturns
  <2>1. pc[t] = "await_exit" /\ UNCHANGED <<resume_sem, resume_sem_sources>>
    BY <1>9 DEF JoinReturns, signalVars
  <2>2. CASE at[t] + 1 \in Core
    <3>1. Goto(t, "resume_push") /\ at' = [at EXCEPT ![t] = at[t] + 1]
      BY <1>9, <2>2 DEF JoinReturns
    <3> QED BY <2>1, <2>2, <3>1, <1>1, CallerGoto DEF Label, Between
  <2>3. CASE at[t] + 1 \notin Core
    <3>1. Goto(t, "exit") /\ at' = at
      BY <1>9, <2>3 DEF JoinReturns
    <3> QED BY <2>1, <3>1, <1>1, CallerGoto DEF Label, Between
  <2> QED BY <2>2, <2>3
<1> QED BY <1>2, <1>3, <1>4, <1>5, <1>6, <1>7, <1>8, <1>9 DEF JoinNext

LEMMA InitResume == Init => ResumeInv
<1> SUFFICES ASSUME Init PROVE ResumeInv
  OBVIOUS
<1>1. \A t \in Thread : pc[t] \in {"begin", "row", "sample", "run"}
  BY DEF Init
<1>2. pc \in [Thread -> Label]
  BY DEF Init, Label
<1>3. /\ at \in [Caller -> Core] /\ resume_sem \in [Core -> Nat]
      /\ \A c \in Core : resume_sem[c] = 0 /\ resume_sem_sources[c] = << >>
  BY ZeroIsCore DEF Init
<1>4. resume_sem_sources \in [Core -> Seq(Source)]
  <2>1. << >> \in Seq(Source)
    OBVIOUS
  <2> QED BY <2>1 DEF Init
<1>5. \A c \in Core : One(pc[c] = "resumed") = 0
  BY <1>1 DEF One, Thread
<1>6. \A u \in Caller, c \in Core : One(Posting(u, c)) = 0
  BY <1>1 DEF One, Posting, Thread
<1>7. SourcesCoverUnits
  <2> SUFFICES ASSUME NEW c \in Core
               PROVE  Len(resume_sem_sources[c]) =
                        resume_sem[c] + One(pc[c] = "resumed")
                          + One(Posting(PowerManager, c)) + One(Posting(TempWatcher, c))
                          + One(Posting(Main, c))
    BY DEF SourcesCoverUnits
  <2>1. Len(resume_sem_sources[c]) = 0 /\ resume_sem[c] = 0 /\ One(pc[c] = "resumed") = 0
    BY <1>3, <1>5
  <2>2. /\ One(Posting(PowerManager, c)) = 0
        /\ One(Posting(TempWatcher, c)) = 0
        /\ One(Posting(Main, c)) = 0
    BY <1>6 DEF Caller
  <2> QED BY <2>1, <2>2
<1> QED BY <1>2, <1>3, <1>4, <1>7 DEF ResumeInv, ResumeTypes

LEMMA NextResume == ResumeInv /\ [Next]_vars => ResumeInv'
<1> SUFFICES ASSUME ResumeInv, [Next]_vars PROVE ResumeInv'
  OBVIOUS
<1>1. CASE \E c \in Core : Worker(c)
  BY <1>1, WorkerKeeps
<1>2. CASE PowerManagerNext
  BY <1>2, PowerManagerKeeps
<1>3. CASE TempWatcherNext
  BY <1>3, TempWatcherKeeps
<1>4. CASE EndRun \/ JoinNext
  BY <1>4, MainKeeps
<1>5. CASE UNCHANGED vars
  <2>1. UNCHANGED <<pc, at, resume_sem, resume_sem_sources>>
    BY <1>5 DEF vars, signalVars
  <2> QED BY <2>1 DEF ResumeInv, ResumeTypes, SourcesCoverUnits, Posting, One
<1> HIDE DEF ResumeInv
<1> QED BY <1>1, <1>2, <1>3, <1>4, <1>5 DEF Next, Step

(* For any number of workers and any tables, samples and end of the run, the *)
(* list of sources covers the units of resume_sem in every reachable state:  *)
(* resume_sem_sources.front() in checkInterrupts has an element to return.   *)
THEOREM SourceForEachUnit == Spec => []SourcesCoverUnits
<1>1. ResumeInv => SourcesCoverUnits
  BY DEF ResumeInv
<1> QED BY <1>1, InitResume, NextResume, PTL DEF Spec

LEMMA ResumeInvariant == Spec => []ResumeInv
  BY InitResume, NextResume, PTL DEF Spec

-----------------------------------------------------------------------------
(* Types.  Two of them need more: state_sem is 0 or 1 because it is a lock, *)
(* and wakes does not pass zero because join tests it before it posts.      *)

RestOK ==
  /\ running \in BOOLEAN
  /\ suspend_sem \in [Core -> Nat]
  /\ papi_read_sem \in [Core -> Nat] /\ papireading_sem \in [Core -> Nat]
  /\ current_state \in [Core -> {"NOT_FIRED", "IS_EXECUTING", "IS_SLEEPING"}]
  /\ state \in [Core -> {"_active", "_sleep"}]
  /\ current_job \in [Core -> BOOLEAN] /\ aux \in [Core -> BOOLEAN]
  /\ load_stop_sem \in [Core -> Nat]
  /\ values \in [Core -> Nat]
  /\ from \in [Core -> {"loop", "load", "fire"}]
  /\ rows \in Nat /\ sample \in Nat /\ wakes \in Nat
  /\ timeouts \subseteq Core /\ late \subseteq Core /\ doubled \subseteq Core
  /\ pc[Main] = "resume_post" => wakes > 0

(* The critical sections of state_sem: of the worker, in checkInterrupts and *)
(* in its sleeping loop, and of the watcher that resumes a sleeping worker.  *)
InSection(c)  == pc[c] \in {"read", "inform", "suspend", "read_asleep", "inform_asleep"}
Triggering(c) == pc[TempWatcher] = "resume_post" /\ at[TempWatcher] = c

LockInv ==
  /\ state_sem \in [Core -> Nat]
  /\ \A c \in Core : state_sem[c] + One(InSection(c)) + One(Triggering(c)) = 1

LEMMA SemUp ==
  ASSUME NEW sem \in [Core -> Nat], NEW c \in Core
  PROVE  Up(sem, c) \in [Core -> Nat]
BY DEF Up

LEMMA SemDown ==
  ASSUME NEW sem \in [Core -> Nat], NEW c \in Core, sem[c] > 0
  PROVE  Down(sem, c) \in [Core -> Nat]
<1>1. sem[c] - 1 \in Nat
  OBVIOUS
<1> QED BY <1>1 DEF Down

LEMMA WorkerTypes ==
  ASSUME ResumeInv, RestOK, NEW c \in Core, Worker(c)
  PROVE  RestOK'
<1>1. /\ pc \in [Thread -> Label] /\ c \in Thread /\ c # Main
  BY CallersAssumption DEF ResumeInv, ResumeTypes, Thread, Caller
<1>2. ASSUME NEW l, Goto(c, l) PROVE pc'[Main] = pc[Main]
  BY <1>1, <1>2 DEF Goto, Thread, Caller
<1> USE DEF RestOK, signalVars, stateVars, papiVars, jobVars, tempVars, rowVars
<1>3. CASE InformExecutionBegin(c)
  BY <1>2, <1>3 DEF InformExecutionBegin
<1>4. CASE WorkerLoop(c)
  BY <1>2, <1>4 DEF WorkerLoop
<1>5. CASE CheckInterrupts(c)
  BY <1>2, <1>5, SemDown DEF CheckInterrupts
<1>6. CASE ReadCounters(c)
  BY <1>2, <1>6 DEF ReadCounters
<1>7. CASE InformPAPIReadingFinish(c)
  BY <1>2, <1>7, SemUp DEF InformPAPIReadingFinish
<1>8. CASE InformAsleep(c)
  BY <1>2, <1>8, SemUp DEF InformAsleep
<1>9. CASE NotSuspended(c)
  BY <1>2, <1>9 DEF NotSuspended, CheckReturns
<1>10. CASE FallAsleep(c)
  BY <1>2, <1>10, SemDown DEF FallAsleep
<1>11. CASE WaitResume(c)
  BY <1>2, <1>11 DEF WaitResume
<1>12. CASE TakeSource(c)
  BY <1>2, <1>12 DEF TakeSource, CheckReturns
<1>13. CASE TryLoadJob(c)
  BY <1>2, <1>13 DEF TryLoadJob
<1>14. CASE Loaded(c)
  BY <1>2, <1>14 DEF Loaded
<1>15. CASE BeginFire(c)
  BY <1>2, <1>15 DEF BeginFire
<1>16. CASE Fire(c)
  BY <1>2, <1>16, SemDown DEF Fire
<1>17. CASE ClearJob(c)
  BY <1>2, <1>17 DEF ClearJob
<1> QED BY <1>3, <1>4, <1>5, <1>6, <1>7, <1>8, <1>9, <1>10, <1>11, <1>12, <1>13, <1>14, <1>15,
           <1>16, <1>17 DEF Worker

LEMMA CallerTypes ==
  ASSUME ResumeInv, RestOK, PowerManagerNext \/ TempWatcherNext \/ EndRun \/ JoinNext
  PROVE  RestOK'
<1>1. /\ pc \in [Thread -> Label] /\ at \in [Caller -> Core] /\ at[PowerManager] \in Core
      /\ at[TempWatcher] \in Core /\ at[Main] \in Core /\ Main \in Thread
      /\ PowerManager # Main /\ TempWatcher # Main
  BY CallersAssumption DEF ResumeInv, ResumeTypes, Thread, Caller
<1>2. ASSUME NEW t \in {PowerManager, TempWatcher}, NEW l, Goto(t, l) PROVE pc'[Main] = pc[Main]
  BY <1>1, <1>2 DEF Goto
<1>3. ASSUME NEW l, NEW m, NextCore(l, m) PROVE pc'[Main] = pc[Main]
  BY <1>2, <1>3 DEF NextCore
<1>4. ASSUME NEW l, Goto(Main, l) PROVE pc'[Main] = l
  BY <1>1, <1>4 DEF Goto
<1> USE DEF RestOK, signalVars, stateVars, papiVars, jobVars, tempVars, rowVars
<1>5. CASE PowerManagerNext
  <2>1. ASSUME NEW c \in Core, Deactivate(c) PROVE RestOK'
    BY <1>2, <2>1 DEF Deactivate
  <2>2. ASSUME NEW c \in Core, Activate(c) PROVE RestOK'
    BY <1>2, <2>2 DEF Activate
  <2>3. CASE SuspendExecution
    BY <1>1, <1>2, <2>3, SemUp DEF SuspendExecution
  <2>4. CASE ActivatePush \/ ActivatePost \/ PowerManagerExit
    BY <1>2, <2>4 DEF ActivatePush, ActivatePost, PowerManagerExit
  <2> QED BY <1>5, <2>1, <2>2, <2>3, <2>4 DEF PowerManagerNext
<1>6. CASE TempWatcherNext
  <2>1. CASE StartSample
    BY <1>2, <2>1 DEF StartSample
  <2>2. CASE ClearCounterValues
    BY <1>2, <2>2 DEF ClearCounterValues
  <2>3. CASE TriggerExecuting
    BY <1>1, <1>3, <2>3, SemUp DEF TriggerExecuting
  <2>4. CASE TriggerSleeping
    BY <1>2, <2>4 DEF TriggerSleeping
  <2>5. CASE TriggerPost
    BY <1>3, <2>5 DEF TriggerPost
  <2>6. CASE TakeReading
    BY <1>1, <1>3, <2>6, SemDown DEF TakeReading
  <2>7. CASE ReadingTimeout
    BY <1>1, <1>3, <2>7 DEF ReadingTimeout
  <2>8. CASE GetPAPIValues \/ TempWatcherExit
    BY <1>2, <2>8 DEF GetPAPIValues, TempWatcherExit
  <2> QED BY <1>6, <2>1, <2>2, <2>3, <2>4, <2>5, <2>6, <2>7, <2>8 DEF TempWatcherNext
<1>7. CASE EndRun \/ JoinNext
  <2>1. CASE EndRun
    BY <1>4, <2>1 DEF EndRun
  <2>2. CASE BeginJoin
    BY <1>4, <2>2 DEF BeginJoin, JoinResumes
  <2>3. CASE JoinPush
    BY <1>4, <2>3 DEF JoinPush
  <2>4. CASE JoinPost
    BY <1>4, <2>4 DEF JoinPost
  <2>5. CASE JoinStop
    BY <1>4, <2>5 DEF JoinStop
  <2>6. CASE JoinStopPost
    BY <1>4, <2>6 DEF JoinStopPost
  <2>7. CASE JoinStopLoad
    BY <1>1, <1>4, <2>7, SemUp DEF JoinStopLoad
  <2>8. CASE JoinReturns
    BY <1>4, <2>8 DEF JoinReturns, JoinResumes
  <2> QED BY <1>7, <2>1, <2>2, <2>3, <2>4, <2>5, <2>6, <2>7, <2>8 DEF JoinNext
<1> QED BY <1>5, <1>6, <1>7

LEMMA LockWorker ==
  ASSUME ResumeInv, LockInv, NEW c \in Core, Worker(c)
  PROVE  LockInv'
<1>1. /\ pc \in [Thread -> Label] /\ c \in Thread /\ c # TempWatcher /\ TempWatcher \in Thread
      /\ state_sem \in [Core -> Nat] /\ state_sem[c] \in Nat /\ Core \subseteq Thread
      /\ state_sem[c] + One(InSection(c)) + One(Triggering(c)) = 1
  BY CallersAssumption DEF ResumeInv, ResumeTypes, Thread, Caller, LockInv
<1>2. \A d \in Core : /\ state_sem[d] + One(InSection(d)) + One(Triggering(d)) = 1
  BY DEF LockInv
(* Only core c counts. *)
<1>3. ASSUME NEW l, Goto(c, l), UNCHANGED at, state_sem' \in [Core -> Nat],
             \A d \in Core \ {c} : state_sem'[d] = state_sem[d],
             state_sem'[c] + One(InSection(c)') = state_sem[c] + One(InSection(c))
      PROVE  LockInv'
  <2>1. \A u \in Thread \ {c} : pc'[u] = pc[u]
    BY <1>1, <1>3 DEF Goto
  <2>2. \A d \in Core : One(Triggering(d)') = One(Triggering(d))
    BY <1>1, <1>3, <2>1 DEF Triggering, One
  <2>3. \A d \in Core \ {c} : One(InSection(d)') = One(InSection(d))
    BY <1>1, <2>1 DEF InSection, One
  <2>4. One(InSection(c)) \in Nat /\ One(InSection(c)') \in Nat /\ One(Triggering(c)) \in Nat
        /\ state_sem'[c] \in Nat
    BY <1>3 DEF One
  <2>5. state_sem'[c] + One(InSection(c)') + One(Triggering(c)') = 1
    BY <1>1, <1>3, <2>2, <2>4
  <2>6. \A d \in Core \ {c} : state_sem'[d] + One(InSection(d)') + One(Triggering(d)') = 1
    BY <1>2, <1>3, <2>2, <2>3
  <2>7. \A d \in Core : state_sem'[d] + One(InSection(d)') + One(Triggering(d)') = 1
    BY <2>5, <2>6
  <2> QED BY <1>3, <2>7 DEF LockInv
(* The worker neither enters nor leaves its section. *)
<1>4. ASSUME NEW l, Goto(c, l), UNCHANGED <<at, state_sem>>,
             l \in {"read", "inform", "suspend", "read_asleep", "inform_asleep"} <=> InSection(c)
      PROVE  LockInv'
  <2>1. InSection(c)' <=> InSection(c)
    BY <1>1, <1>4 DEF Goto, InSection
  <2> QED BY <1>1, <1>3, <1>4, <2>1 DEF One
<1>5. ASSUME NEW l, Goto(c, l), UNCHANGED at, state_sem' = Down(state_sem, c), state_sem[c] > 0,
             l \in {"read", "suspend", "read_asleep"}, ~InSection(c)
      PROVE  LockInv'
  <2>1. InSection(c)'
    BY <1>1, <1>5 DEF Goto, InSection
  <2>2. state_sem' \in [Core -> Nat] /\ state_sem'[c] = state_sem[c] - 1
    BY <1>1, <1>5, SemDown DEF Down
  <2>3. \A d \in Core \ {c} : state_sem'[d] = state_sem[d]
    BY <1>1, <1>5 DEF Down
  <2>4. state_sem'[c] + One(InSection(c)') = state_sem[c] + One(InSection(c))
    BY <1>1, <1>5, <2>1, <2>2 DEF One
  <2> QED BY <1>3, <1>5, <2>2, <2>3, <2>4
<1>6. ASSUME NEW l, Goto(c, l), UNCHANGED at, state_sem' = Up(state_sem, c),
             l \notin {"read", "inform", "suspend", "read_asleep", "inform_asleep"}, InSection(c)
      PROVE  LockInv'
  <2>1. ~InSection(c)'
    BY <1>1, <1>6 DEF Goto, InSection
  <2>2. state_sem' \in [Core -> Nat] /\ state_sem'[c] = state_sem[c] + 1
    BY <1>1, <1>6, SemUp DEF Up
  <2>3. \A d \in Core \ {c} : state_sem'[d] = state_sem[d]
    BY <1>1, <1>6 DEF Up
  <2>4. state_sem'[c] + One(InSection(c)') = state_sem[c] + One(InSection(c))
    BY <1>1, <1>6, <2>1, <2>2 DEF One
  <2> QED BY <1>3, <1>6, <2>2, <2>3, <2>4
<1>7. AfterCheck(c) \in {"loaded", "fire", "begin_fire", "load"}
  BY DEF AfterCheck
<1> USE DEF stateVars
<1>8. CASE InformExecutionBegin(c)
  BY <1>4, <1>8 DEF InformExecutionBegin, InSection
<1>9. CASE WorkerLoop(c)
  BY <1>4, <1>9 DEF WorkerLoop, InSection
<1>10. CASE CheckInterrupts(c)
  BY <1>5, <1>10 DEF CheckInterrupts, InSection
<1>11. CASE ReadCounters(c)
  BY <1>4, <1>11 DEF ReadCounters, InSection
<1>12. CASE InformPAPIReadingFinish(c)
  BY <1>4, <1>12 DEF InformPAPIReadingFinish, InSection
<1>13. CASE InformAsleep(c)
  BY <1>6, <1>13 DEF InformAsleep, InSection
<1>14. CASE NotSuspended(c)
  BY <1>6, <1>7, <1>14 DEF NotSuspended, CheckReturns, InSection
<1>15. CASE FallAsleep(c)
  BY <1>6, <1>15 DEF FallAsleep, InSection
<1>16. CASE WaitResume(c)
  BY <1>4, <1>16 DEF WaitResume, InSection
<1>17. CASE TakeSource(c)
  <2>1. CASE Head(resume_sem_sources[c]) = "TEMPWATCHER"
    BY <1>5, <1>17, <2>1 DEF TakeSource, InSection
  <2>2. CASE Head(resume_sem_sources[c]) # "TEMPWATCHER"
    BY <1>4, <1>7, <1>17, <2>2 DEF TakeSource, CheckReturns, InSection
  <2> QED BY <2>1, <2>2
<1>18. CASE TryLoadJob(c) \/ BeginFire(c) \/ ClearJob(c)
  BY <1>4, <1>18 DEF TryLoadJob, BeginFire, ClearJob, InSection
<1>19. CASE Loaded(c)
  BY <1>4, <1>19 DEF Loaded, InSection
<1>20. CASE Fire(c)
  BY <1>4, <1>20 DEF Fire, InSection
<1> QED BY <1>8, <1>9, <1>10, <1>11, <1>12, <1>13, <1>14, <1>15, <1>16, <1>17, <1>18, <1>19,
           <1>20 DEF Worker

LEMMA LockCaller ==
  ASSUME ResumeInv, LockInv, PowerManagerNext \/ TempWatcherNext \/ EndRun \/ JoinNext
  PROVE  LockInv'
<1>1. /\ pc \in [Thread -> Label] /\ at \in [Caller -> Core] /\ TempWatcher \in Thread
      /\ at[TempWatcher] \in Core /\ TempWatcher \in Caller /\ Core \subseteq Thread
      /\ PowerManager # TempWatcher /\ Main # TempWatcher /\ state_sem \in [Core -> Nat]
      /\ \A d \in Core : d # PowerManager /\ d # TempWatcher /\ d # Main
  BY CallersAssumption DEF ResumeInv, ResumeTypes, Thread, Caller, LockInv
<1>2. \A d \in Core : state_sem[d] + One(InSection(d)) + One(Triggering(d)) = 1
  BY DEF LockInv
<1>3. ASSUME UNCHANGED state_sem, \A d \in Core : pc'[d] = pc[d],
             \A d \in Core : Triggering(d)' <=> Triggering(d)
      PROVE  LockInv'
  BY <1>1, <1>2, <1>3 DEF LockInv, InSection, One
(* The other two callers. *)
<1>4. ASSUME NEW t \in {PowerManager, Main}, NEW l, Goto(t, l), UNCHANGED state_sem,
             at'[TempWatcher] = at[TempWatcher]
      PROVE  LockInv'
  <2>1. (\A d \in Core : pc'[d] = pc[d]) /\ pc'[TempWatcher] = pc[TempWatcher]
    BY <1>1, <1>4 DEF Goto
  <2> QED BY <1>3, <1>4, <2>1 DEF Triggering
(* The watcher outside its section. *)
<1>5. ASSUME NEW l, Goto(TempWatcher, l), UNCHANGED state_sem, l # "resume_post",
             pc[TempWatcher] # "resume_post"
      PROVE  LockInv'
  <2>1. (\A d \in Core : pc'[d] = pc[d]) /\ pc'[TempWatcher] = l
    BY <1>1, <1>5 DEF Goto
  <2> QED BY <1>3, <1>5, <2>1 DEF Triggering
<1>6. ASSUME NEW l, NEW m, NextCore(l, m), l # "resume_post", m # "resume_post",
             pc[TempWatcher] # "resume_post", UNCHANGED state_sem
      PROVE  LockInv'
  BY <1>5, <1>6 DEF NextCore
<1> USE DEF stateVars
<1>7. CASE PowerManagerNext
  <2>1. ASSUME NEW c \in Core, Deactivate(c) \/ Activate(c) PROVE LockInv'
    <3>1. at'[TempWatcher] = at[TempWatcher]
      BY <1>1, <2>1 DEF Deactivate, Activate
    <3> QED BY <1>4, <2>1, <3>1 DEF Deactivate, Activate
  <2>2. CASE SuspendExecution \/ ActivatePush \/ ActivatePost \/ PowerManagerExit
    BY <1>4, <2>2 DEF SuspendExecution, ActivatePush, ActivatePost, PowerManagerExit
  <2> QED BY <1>7, <2>1, <2>2 DEF PowerManagerNext
<1>8. CASE EndRun \/ JoinNext
  <2>1. at'[TempWatcher] = at[TempWatcher]
    BY <1>1, <1>8 DEF EndRun, JoinNext, BeginJoin, JoinPush, JoinPost, JoinStop, JoinStopPost,
                      JoinStopLoad, JoinReturns
  <2>2. UNCHANGED state_sem
    BY <1>8 DEF EndRun, JoinNext, BeginJoin, JoinPush, JoinPost, JoinStop, JoinStopPost,
                JoinStopLoad, JoinReturns
  <2>3. \E l : Goto(Main, l)
    BY <1>8 DEF EndRun, JoinNext, BeginJoin, JoinPush, JoinPost, JoinStop, JoinStopPost,
                JoinStopLoad, JoinReturns
  <2> QED BY <1>4, <2>1, <2>2, <2>3
<1>9. CASE TempWatcherNext
  <2>1. CASE StartSample \/ ClearCounterValues \/ GetPAPIValues \/ TempWatcherExit
    BY <1>5, <2>1 DEF StartSample, ClearCounterValues, GetPAPIValues, TempWatcherExit
  <2>2. CASE TriggerExecuting
    BY <1>6, <2>2 DEF TriggerExecuting
  <2>3. CASE TakeReading
    <3>1. \/ NextCore("await", "get")
          \/ NextCore("await", "sample")
      BY <2>3 DEF TakeReading
    <3> QED BY <1>6, <2>3, <3>1 DEF TakeReading
  <2>4. CASE ReadingTimeout
    BY <1>6, <2>4 DEF ReadingTimeout
  <2> DEFINE c == at[TempWatcher]
  <2>5. CASE TriggerSleeping
    <3>1. /\ Goto(TempWatcher, "resume_post") /\ UNCHANGED at /\ pc[TempWatcher] = "trigger"
          /\ state_sem' = Down(state_sem, c) /\ state_sem[c] > 0
      BY <2>5 DEF TriggerSleeping
    <3>2. (\A d \in Core : pc'[d] = pc[d]) /\ pc'[TempWatcher] = "resume_post"
      BY <1>1, <3>1 DEF Goto
    <3>3. state_sem' \in [Core -> Nat]
      BY <1>1, <3>1, SemDown
    <3>4. \A d \in Core : state_sem'[d] = IF d = c THEN state_sem[d] - 1 ELSE state_sem[d]
      BY <1>1, <3>1 DEF Down
    <3>5. \A d \in Core : ~Triggering(d) /\ (Triggering(d)' <=> d = c) /\ (InSection(d)' <=> InSection(d))
      BY <1>1, <3>1, <3>2 DEF Triggering, InSection
    <3>6. ASSUME NEW d \in Core PROVE state_sem'[d] + One(InSection(d)') + One(Triggering(d)') = 1
      <4>1. state_sem[d] \in Nat /\ state_sem[d] + One(InSection(d)) + One(Triggering(d)) = 1
        BY <1>1, <1>2
      <4> QED BY <3>4, <3>5, <4>1 DEF One
    <3> QED BY <3>3, <3>6 DEF LockInv
  <2>6. CASE TriggerPost
    <3>1. /\ pc[TempWatcher] = "resume_post" /\ state_sem' = Up(state_sem, c)
          /\ Goto(TempWatcher, "clear") \/ Goto(TempWatcher, "await")
      BY <2>6 DEF TriggerPost, NextCore
    <3>2. (\A d \in Core : pc'[d] = pc[d]) /\ pc'[TempWatcher] # "resume_post"
      BY <1>1, <3>1 DEF Goto
    <3>3. state_sem' \in [Core -> Nat]
      BY <1>1, <3>1, SemUp
    <3>4. \A d \in Core : state_sem'[d] = IF d = c THEN state_sem[d] + 1 ELSE state_sem[d]
      BY <1>1, <3>1 DEF Up
    <3>5. \A d \in Core : ~Triggering(d)' /\ (Triggering(d) <=> d = c) /\ (InSection(d)' <=> InSection(d))
      BY <1>1, <3>1, <3>2 DEF Triggering, InSection
    <3>6. ASSUME NEW d \in Core PROVE state_sem'[d] + One(InSection(d)') + One(Triggering(d)') = 1
      <4>1. state_sem[d] \in Nat /\ state_sem[d] + One(InSection(d)) + One(Triggering(d)) = 1
        BY <1>1, <1>2
      <4> QED BY <3>4, <3>5, <4>1 DEF One
    <3> QED BY <3>3, <3>6 DEF LockInv
  <2> QED BY <1>9, <2>1, <2>2, <2>3, <2>4, <2>5, <2>6 DEF TempWatcherNext
<1> QED BY <1>7, <1>8, <1>9

LEMMA InitTypes == Init => RestOK /\ LockInv
<1> SUFFICES ASSUME Init PROVE RestOK /\ LockInv
  OBVIOUS
<1>1. \A t \in Thread : pc[t] \in {"begin", "row", "sample", "run"}
  BY DEF Init
<1>2. Main \in Thread /\ TempWatcher \in Thread /\ Core \subseteq Thread
  BY DEF Thread, Caller
<1>3. RestOK
  BY <1>1, <1>2 DEF Init, RestOK
<1>4. LockInv
  BY <1>1, <1>2 DEF Init, LockInv, InSection, Triggering, One
<1> QED BY <1>3, <1>4

LEMMA TypesInvariant == Spec => [](ResumeInv /\ RestOK /\ LockInv)
<1>1. ResumeInv /\ RestOK /\ LockInv /\ [Next]_vars => RestOK' /\ LockInv'
  <2> SUFFICES ASSUME ResumeInv, RestOK, LockInv, [Next]_vars PROVE RestOK' /\ LockInv'
    OBVIOUS
  <2>1. CASE \E c \in Core : Worker(c)
    BY <2>1, WorkerTypes, LockWorker
  <2>2. CASE PowerManagerNext \/ TempWatcherNext \/ EndRun \/ JoinNext
    BY <2>2, CallerTypes, LockCaller
  <2>3. CASE UNCHANGED vars
    BY <2>3 DEF vars, signalVars, stateVars, papiVars, jobVars, tempVars, rowVars, RestOK, LockInv,
                InSection, Triggering
  <2> QED BY <2>1, <2>2, <2>3 DEF Next, Step
<1> QED BY <1>1, InitTypes, ResumeInvariant, PTL DEF Spec

(* For any number of workers: state_sem is a lock, held by the worker in    *)
(* checkInterrupts or in its sleeping loop, or by the watcher that resumes  *)
(* it, and never by two of them; every list, count and index has its type.  *)
THEOREM TypeCorrect == Spec => []TypeOK
<1>1. ResumeInv /\ RestOK /\ LockInv => TypeOK
  <2> SUFFICES ASSUME ResumeInv, RestOK, LockInv PROVE TypeOK
    OBVIOUS
  <2>1. state_sem \in [Core -> {0, 1}]
    <3>1. \A c \in Core : state_sem[c] \in {0, 1}
      BY DEF LockInv, One
    <3> QED BY <3>1 DEF LockInv
  <2> QED BY <2>1 DEF TypeOK, ResumeInv, ResumeTypes, RestOK
<1> QED BY <1>1, TypesInvariant, PTL

-----------------------------------------------------------------------------
(* The balance of suspensions and activations.  It holds until the joins    *)
(* begin, because until then only the power manager and the watcher list    *)
(* sources: a worker that wakes up takes a source of the power manager.     *)

Signaller == {"POWERMANAGER", "TEMPWATCHER"}

Suspending(c) == pc[PowerManager] = "suspend_post" /\ at[PowerManager] = c
Activating(c) == pc[PowerManager] = "resume_push" /\ at[PowerManager] = c

Balanced(c) == suspend_sem[c] + One(Asleep(c)) + One(Suspending(c))
                 = One(state[c] = "_sleep") + Wakes(c) + One(Activating(c))

BalInv ==
  pc[Main] \in {"run", "join"} =>
    /\ \A c \in Core : resume_sem_sources[c] \in Seq(Signaller)
    /\ \A c \in Core \ doubled : Balanced(c)

(* Where source y is in a list, whatever core it belongs to. *)
Listed(s, y) == {i \in DOMAIN s : s[i] = y}

LEMMA ListedFinite ==
  ASSUME NEW y, NEW s \in Seq(Source)
  PROVE  IsFiniteSet(Listed(s, y)) /\ Cardinality(Listed(s, y)) \in Nat
<1>1. IsFiniteSet(1..Len(s))
  BY FS_Interval
<1>2. Listed(s, y) \in SUBSET (1..Len(s))
  BY DEF Listed
<1> QED BY <1>1, <1>2, FS_Subset, FS_CardinalityType

LEMMA ListedAppend ==
  ASSUME NEW y, NEW s \in Seq(Source), NEW x \in Source
  PROVE  Cardinality(Listed(Append(s, x), y)) = Cardinality(Listed(s, y)) + One(x = y)
<1>1. IsFiniteSet(Listed(s, y)) /\ Cardinality(Listed(s, y)) \in Nat
      /\ Len(s) + 1 \notin Listed(s, y)
  <2>1. Len(s) + 1 \notin DOMAIN s
    OBVIOUS
  <2> QED BY <2>1, ListedFinite DEF Listed
<1>2. DOMAIN Append(s, x) = DOMAIN s \cup {Len(s) + 1}
  OBVIOUS
<1>3. (\A i \in DOMAIN s : Append(s, x)[i] = s[i]) /\ Append(s, x)[Len(s) + 1] = x
  OBVIOUS
<1>4. CASE x = y
  <2>1. Listed(Append(s, x), y) = Listed(s, y) \cup {Len(s) + 1}
    BY <1>2, <1>3, <1>4 DEF Listed
  <2> QED BY <1>1, <1>4, <2>1, FS_AddElement DEF One
<1>5. CASE x # y
  <2>1. Listed(Append(s, x), y) = Listed(s, y)
    BY <1>2, <1>3, <1>5 DEF Listed
  <2> QED BY <1>5, <2>1, ListedFinite DEF One
<1> QED BY <1>4, <1>5

LEMMA ListedTail ==
  ASSUME NEW y, NEW s \in Seq(Source), Len(s) > 0
  PROVE  Cardinality(Listed(s, y)) = Cardinality(Listed(Tail(s), y)) + One(Head(s) = y)
<1> DEFINE R == Listed(s, y) \ {1}
           f == [i \in Listed(Tail(s), y) |-> i + 1]
<1>1. /\ Tail(s) \in Seq(Source) /\ DOMAIN Tail(s) = 1..(Len(s) - 1) /\ DOMAIN s = 1..Len(s)
      /\ \A i \in DOMAIN Tail(s) : Tail(s)[i] = s[i + 1]
      /\ Head(s) = s[1]
  OBVIOUS
<1>2. \A i \in DOMAIN Tail(s) : i \in Int /\ i + 1 \in DOMAIN s /\ i + 1 # 1
  BY <1>1
<1>3. f \in [Listed(Tail(s), y) -> R]
  BY <1>1, <1>2 DEF Listed
<1>4. ASSUME NEW a \in Listed(Tail(s), y), NEW b \in Listed(Tail(s), y), f[a] = f[b] PROVE a = b
  BY <1>2, <1>4 DEF Listed
<1>5. ASSUME NEW j \in R PROVE \E i \in Listed(Tail(s), y) : f[i] = j
  <2>1. j \in 2..Len(s) /\ s[j] = y
    BY <1>1 DEF Listed
  <2>2. j - 1 \in DOMAIN Tail(s) /\ (j - 1) + 1 = j
    BY <1>1, <2>1
  <2>3. j - 1 \in Listed(Tail(s), y)
    BY <1>1, <2>1, <2>2 DEF Listed
  <2> QED BY <2>2, <2>3
<1>6. f \in Bijection(Listed(Tail(s), y), R)
  <2> HIDE DEF f, R
  <2> QED BY <1>3, <1>4, <1>5 DEF Bijection, Injection, Surjection, IsInjective
<1>7. Cardinality(R) = Cardinality(Listed(Tail(s), y))
  <2>1. ExistsBijection(Listed(Tail(s), y), R)
    BY <1>6 DEF ExistsBijection
  <2> QED BY <1>1, <2>1, ListedFinite, FS_Bijection
<1>8. 1 \in Listed(s, y) <=> Head(s) = y
  BY <1>1 DEF Listed
<1>9. Cardinality(R) = IF 1 \in Listed(s, y) THEN Cardinality(Listed(s, y)) - 1 ELSE Cardinality(Listed(s, y))
  BY ListedFinite, FS_RemoveElement
<1> QED BY <1>7, <1>8, <1>9, ListedFinite DEF One

(* The counts of a balance are numbers, and a wake-up counts once in its list. *)
LEMMA BalanceTypes ==
  ASSUME ResumeInv, RestOK, NEW c \in Core
  PROVE  /\ suspend_sem[c] \in Nat /\ Wakes(c) \in Nat
         /\ One(Asleep(c)) \in Nat /\ One(Suspending(c)) \in Nat /\ One(Activating(c)) \in Nat
         /\ One(state[c] = "_sleep") \in Nat
<1>1. resume_sem_sources[c] \in Seq(Source) /\ suspend_sem[c] \in Nat
  BY DEF ResumeInv, ResumeTypes, RestOK
<1>2. Wakes(c) = Cardinality(Listed(resume_sem_sources[c], "POWERMANAGER"))
  BY DEF Wakes, Listed
<1> QED BY <1>1, <1>2, ListedFinite DEF One

LEMMA SameListSameWakes ==
  ASSUME NEW c \in Core, resume_sem_sources'[c] = resume_sem_sources[c]
  PROVE  Wakes(c)' = Wakes(c)
BY DEF Wakes

LEMMA AppendWakes ==
  ASSUME ResumeInv, NEW c \in Core, NEW x \in Source,
         resume_sem_sources'[c] = Append(resume_sem_sources[c], x)
  PROVE  Wakes(c)' = Wakes(c) + One(x = "POWERMANAGER")
<1>1. resume_sem_sources[c] \in Seq(Source)
  BY DEF ResumeInv, ResumeTypes
<1>2. /\ Wakes(c) = Cardinality(Listed(resume_sem_sources[c], "POWERMANAGER"))
      /\ Wakes(c)' = Cardinality(Listed(resume_sem_sources'[c], "POWERMANAGER"))
  BY DEF Wakes, Listed
<1> QED BY <1>1, <1>2, ListedAppend

LEMMA TailWakes ==
  ASSUME ResumeInv, NEW c \in Core, Len(resume_sem_sources[c]) > 0,
         resume_sem_sources'[c] = Tail(resume_sem_sources[c])
  PROVE  Wakes(c) = Wakes(c)' + One(Head(resume_sem_sources[c]) = "POWERMANAGER")
<1>1. resume_sem_sources[c] \in Seq(Source)
  BY DEF ResumeInv, ResumeTypes
<1>2. /\ Wakes(c) = Cardinality(Listed(resume_sem_sources[c], "POWERMANAGER"))
      /\ Wakes(c)' = Cardinality(Listed(resume_sem_sources'[c], "POWERMANAGER"))
  BY DEF Wakes, Listed
<1> QED BY <1>1, <1>2, ListedTail

LEMMA SourceThere ==
  ASSUME ResumeInv, NEW c \in Core, pc[c] = "resumed"
  PROVE  Len(resume_sem_sources[c]) > 0
<1>1. resume_sem[c] \in Nat /\ \A u \in Caller : One(Posting(u, c)) \in Nat
  BY DEF ResumeInv, ResumeTypes, One
<1> QED BY <1>1 DEF ResumeInv, SourcesCoverUnits, One, Caller

(* A step of the worker keeps the sum of what has suspended it and of its   *)
(* sleep: falling asleep moves a unit, waking up takes one from either side.*)
LEMMA WorkerBalance ==
  ASSUME ResumeInv, RestOK, BalInv, NEW c \in Core, Worker(c)
  PROVE  BalInv'
<1>1. /\ pc \in [Thread -> Label] /\ c \in Thread /\ c # PowerManager /\ c # Main
      /\ Main \in Thread /\ PowerManager \in Thread /\ Core \subseteq Thread
  BY CallersAssumption DEF ResumeInv, ResumeTypes, Thread, Caller
<1> DEFINE Goal == /\ \A d \in Core : resume_sem_sources'[d] \in Seq(Signaller)
                   /\ \A d \in Core \ doubled' : Balanced(d)'
<1> SUFFICES ASSUME pc'[Main] \in {"run", "join"} PROVE Goal
  BY DEF BalInv
<1>2. ASSUME NEW l, Goto(c, l) PROVE pc'[c] = l /\ \A u \in Thread \ {c} : pc'[u] = pc[u]
  BY <1>1, <1>2 DEF Goto
<1>3. \E l : Goto(c, l)
  BY DEF Worker, InformExecutionBegin, WorkerLoop, CheckInterrupts, ReadCounters,
         InformPAPIReadingFinish, InformAsleep, NotSuspended, CheckReturns, FallAsleep, WaitResume,
         TakeSource, TryLoadJob, Loaded, BeginFire, Fire, ClearJob
<1>4. /\ \A u \in Thread \ {c} : pc'[u] = pc[u]
      /\ \A d \in Core : resume_sem_sources[d] \in Seq(Signaller)
      /\ \A d \in Core \ doubled : Balanced(d)
  <2>1. \A u \in Thread \ {c} : pc'[u] = pc[u]
    BY <1>2, <1>3
  <2> QED BY <1>1, <2>1 DEF BalInv
<1>5. UNCHANGED <<at, state, doubled>>
  BY DEF Worker, InformExecutionBegin, WorkerLoop, CheckInterrupts, ReadCounters,
         InformPAPIReadingFinish, InformAsleep, NotSuspended, FallAsleep, WaitResume,
         TakeSource, TryLoadJob, Loaded, BeginFire, Fire, ClearJob, rowVars
<1>6. ASSUME \A d \in Core \ {c} : /\ suspend_sem'[d] = suspend_sem[d]
                                   /\ resume_sem_sources'[d] = resume_sem_sources[d],
             resume_sem_sources'[c] \in Seq(Signaller),
             suspend_sem[c] + One(Asleep(c)) + Wakes(c)'
               = suspend_sem'[c] + One(Asleep(c)') + Wakes(c),
             suspend_sem'[c] \in Nat, Wakes(c)' \in Nat
      PROVE  Goal
  <2>1. \A d \in Core : resume_sem_sources'[d] \in Seq(Signaller)
    BY <1>4, <1>6
  <2>2. \A d \in Core : /\ One(Suspending(d)') = One(Suspending(d))
                        /\ One(Activating(d)') = One(Activating(d))
                        /\ One(state'[d] = "_sleep") = One(state[d] = "_sleep")
    BY <1>1, <1>4, <1>5 DEF Suspending, Activating, One
  <2>3. ASSUME NEW d \in Core \ doubled', d # c PROVE Balanced(d)'
    <3>1. Wakes(d)' = Wakes(d) /\ suspend_sem'[d] = suspend_sem[d]
      BY <1>6, <2>3, SameListSameWakes
    <3>2. One(Asleep(d)') = One(Asleep(d))
      BY <1>1, <1>4, <2>3 DEF Asleep, One
    <3>3. Balanced(d)
      BY <1>4, <1>5, <2>3
    <3> QED BY <2>2, <3>1, <3>2, <3>3 DEF Balanced
  <2>4. ASSUME c \notin doubled' PROVE Balanced(c)'
    <3>1. suspend_sem[c] + One(Asleep(c)) + One(Suspending(c))
            = One(state[c] = "_sleep") + Wakes(c) + One(Activating(c))
      BY <1>4, <1>5, <2>4 DEF Balanced
    <3>2. One(Asleep(c)') \in Nat
      BY DEF One
    <3>3. suspend_sem'[c] + One(Asleep(c)') + One(Suspending(c))
            = One(state[c] = "_sleep") + Wakes(c)' + One(Activating(c))
      <4>1. /\ suspend_sem[c] \in Nat /\ Wakes(c) \in Nat
            /\ One(Asleep(c)) \in Nat /\ One(Suspending(c)) \in Nat /\ One(Activating(c)) \in Nat
            /\ One(state[c] = "_sleep") \in Nat
        BY BalanceTypes
      <4>2. /\ suspend_sem[c] + One(Asleep(c)) + Wakes(c)'
                 = suspend_sem'[c] + One(Asleep(c)') + Wakes(c)
            /\ suspend_sem'[c] \in Nat /\ Wakes(c)' \in Nat
        BY <1>6
      <4> QED BY <3>1, <3>2, <4>1, <4>2
    <3> QED BY <2>2, <3>3 DEF Balanced
  <2> QED BY <2>1, <2>3, <2>4
<1> HIDE DEF Goal
(* A step that changes neither the semaphore nor the list nor the sleep. *)
<1>7. ASSUME NEW l, Goto(c, l), UNCHANGED <<suspend_sem, resume_sem_sources>>,
             l \in {"asleep", "resumed", "read_asleep", "inform_asleep"} <=> Asleep(c)
      PROVE  Goal
  <2>1. One(Asleep(c)') = One(Asleep(c))
    BY <1>2, <1>7 DEF Asleep, One
  <2>2. Wakes(c)' = Wakes(c)
    BY <1>7, SameListSameWakes
  <2> QED BY <1>4, <1>6, <1>7, <2>1, <2>2, BalanceTypes
<1>8. AfterCheck(c) \in {"loaded", "fire", "begin_fire", "load"}
  BY DEF AfterCheck
<1> USE DEF signalVars
<1>9. CASE InformExecutionBegin(c)
  BY <1>7, <1>9 DEF InformExecutionBegin, Asleep
<1>10. CASE WorkerLoop(c)
  BY <1>7, <1>10 DEF WorkerLoop, Asleep
<1>11. CASE CheckInterrupts(c)
  BY <1>7, <1>11 DEF CheckInterrupts, Asleep
<1>12. CASE ReadCounters(c)
  BY <1>7, <1>12 DEF ReadCounters, Asleep
<1>13. CASE InformPAPIReadingFinish(c)
  BY <1>7, <1>13 DEF InformPAPIReadingFinish, Asleep
<1>14. CASE InformAsleep(c)
  BY <1>7, <1>14 DEF InformAsleep, Asleep
<1>15. CASE NotSuspended(c)
  BY <1>7, <1>8, <1>15 DEF NotSuspended, CheckReturns, Asleep
<1>16. CASE FallAsleep(c)
  <2>1. /\ pc[c] = "suspend" /\ suspend_sem[c] > 0 /\ Goto(c, "asleep")
        /\ suspend_sem' = Down(suspend_sem, c) /\ UNCHANGED resume_sem_sources
    BY <1>16 DEF FallAsleep
  <2>2. /\ suspend_sem'[c] = suspend_sem[c] - 1 /\ suspend_sem'[c] \in Nat
        /\ \A d \in Core \ {c} : suspend_sem'[d] = suspend_sem[d]
    BY <2>1 DEF Down, RestOK
  <2>3. One(Asleep(c)) = 0 /\ One(Asleep(c)') = 1
    BY <1>2, <2>1 DEF Asleep, One
  <2>4. Wakes(c)' = Wakes(c)
    BY <2>1, SameListSameWakes
  <2> QED BY <1>4, <1>6, <2>1, <2>2, <2>3, <2>4, BalanceTypes
<1>17. CASE WaitResume(c)
  BY <1>7, <1>17 DEF WaitResume, Asleep
<1>18. CASE TakeSource(c)
  <2>1. /\ pc[c] = "resumed" /\ UNCHANGED suspend_sem
        /\ resume_sem_sources' = [resume_sem_sources EXCEPT ![c] = Tail(@)]
    BY <1>18 DEF TakeSource
  <2>2. Len(resume_sem_sources[c]) > 0 /\ resume_sem_sources[c] \in Seq(Signaller)
    BY <1>4, <2>1, SourceThere
  <2>3. /\ resume_sem_sources'[c] = Tail(resume_sem_sources[c])
        /\ \A d \in Core \ {c} : resume_sem_sources'[d] = resume_sem_sources[d]
    BY <2>1 DEF ResumeInv, ResumeTypes
  <2>4. /\ Tail(resume_sem_sources[c]) \in Seq(Signaller)
        /\ Head(resume_sem_sources[c]) \in Signaller
    BY <2>2
  <2>5. /\ Wakes(c) = Wakes(c)' + One(Head(resume_sem_sources[c]) = "POWERMANAGER")
        /\ Wakes(c)' \in Nat
    <3>1. Wakes(c) = Wakes(c)' + One(Head(resume_sem_sources[c]) = "POWERMANAGER")
      BY <2>2, <2>3, TailWakes
    <3>2. Wakes(c)' = Cardinality(Listed(resume_sem_sources'[c], "POWERMANAGER"))
      BY DEF Wakes, Listed
    <3>3. resume_sem_sources'[c] \in Seq(Source)
      BY <2>2, <2>3 DEF ResumeInv, ResumeTypes
    <3> QED BY <3>1, <3>2, <3>3, ListedFinite
  <2>6. CASE Head(resume_sem_sources[c]) = "TEMPWATCHER"
    <3>1. pc'[c] = "read_asleep"
      BY <1>2, <1>18, <2>6 DEF TakeSource
    <3>2. One(Asleep(c)') = 1 /\ One(Asleep(c)) = 1 /\ Wakes(c)' = Wakes(c)
      BY <2>1, <2>5, <2>6, <3>1, BalanceTypes DEF Asleep, One
    <3> QED BY <1>6, <2>1, <2>3, <2>4, <2>5, <3>2, BalanceTypes
  <2>7. CASE Head(resume_sem_sources[c]) = "POWERMANAGER"
    <3>1. pc'[c] = AfterCheck(c)
      BY <1>2, <1>18, <2>7 DEF TakeSource, CheckReturns
    <3>2. ~Asleep(c)' /\ Asleep(c)
      BY <1>8, <2>1, <3>1 DEF Asleep
    <3>3. One(Asleep(c)') = 0 /\ One(Asleep(c)) = 1
      BY <3>2 DEF One
    <3>4. Wakes(c) = Wakes(c)' + 1
      BY <2>5, <2>7 DEF One
    <3>5. suspend_sem'[c] = suspend_sem[c] /\ suspend_sem[c] \in Nat
      BY <2>1, BalanceTypes
    <3>6. suspend_sem[c] + One(Asleep(c)) + Wakes(c)'
            = suspend_sem'[c] + One(Asleep(c)') + Wakes(c)
      BY <2>5, <3>3, <3>4, <3>5
    <3> QED BY <1>6, <2>1, <2>3, <2>4, <2>5, <3>5, <3>6
  <2> QED BY <2>4, <2>6, <2>7 DEF Signaller
<1>19. CASE TryLoadJob(c) \/ BeginFire(c) \/ ClearJob(c)
  BY <1>7, <1>19 DEF TryLoadJob, BeginFire, ClearJob, Asleep
<1>20. CASE Loaded(c)
  BY <1>7, <1>20 DEF Loaded, Asleep
<1>21. CASE Fire(c)
  BY <1>7, <1>21 DEF Fire, Asleep
<1> QED
  BY <1>9, <1>10, <1>11, <1>12, <1>13, <1>14, <1>15, <1>16, <1>17, <1>18, <1>19, <1>20,
     <1>21 DEF Worker

(* A step of another thread.  Each row of the power manager adds to either  *)
(* side, in the state first and in the semaphore or the list later; what    *)
(* the watcher lists is no wake-up.                                         *)
LEMMA CallerBalance ==
  ASSUME ResumeInv, RestOK, BalInv, PowerManagerNext \/ TempWatcherNext \/ EndRun \/ JoinNext
  PROVE  BalInv'
<1>1. /\ pc \in [Thread -> Label] /\ at \in [Caller -> Core] /\ Core \subseteq Thread
      /\ at[PowerManager] \in Core /\ at[TempWatcher] \in Core
      /\ Main \in Thread /\ PowerManager \in Thread /\ TempWatcher \in Thread
      /\ PowerManager \in Caller /\ TempWatcher \in Caller
      /\ PowerManager # TempWatcher /\ PowerManager # Main /\ TempWatcher # Main
      /\ \A d \in Core : d # PowerManager /\ d # TempWatcher /\ d # Main
  BY CallersAssumption DEF ResumeInv, ResumeTypes, Thread, Caller
<1> DEFINE Goal == /\ \A d \in Core : resume_sem_sources'[d] \in Seq(Signaller)
                   /\ \A d \in Core \ doubled' : Balanced(d)'
<1> SUFFICES ASSUME pc'[Main] \in {"run", "join"} PROVE Goal
  BY DEF BalInv
<1>2. ASSUME NEW t \in Thread, NEW l, Goto(t, l)
      PROVE  pc'[t] = l /\ \A u \in Thread \ {t} : pc'[u] = pc[u]
  BY <1>1, <1>2 DEF Goto
<1> DEFINE Old == /\ \A d \in Core : resume_sem_sources[d] \in Seq(Signaller)
                  /\ \A d \in Core \ doubled : Balanced(d)
<1>3. ASSUME pc[Main] \in {"run", "join"} PROVE Old
  BY <1>3 DEF BalInv
(* No core but c counts. *)
<1>4. ASSUME Old, NEW c \in Core, doubled \subseteq doubled',
             \A d \in Core : pc'[d] = pc[d],
             \A d \in Core \ {c} : /\ suspend_sem'[d] = suspend_sem[d] /\ state'[d] = state[d]
                                   /\ resume_sem_sources'[d] = resume_sem_sources[d]
                                   /\ Suspending(d)' <=> Suspending(d)
                                   /\ Activating(d)' <=> Activating(d),
             resume_sem_sources'[c] \in Seq(Signaller),
             c \notin doubled' /\ Balanced(c) => Balanced(c)'
      PROVE  Goal
  <2>1. \A d \in Core : resume_sem_sources'[d] \in Seq(Signaller)
    BY <1>4
  <2>2. ASSUME NEW d \in Core \ doubled', d # c PROVE Balanced(d)'
    <3>1. Wakes(d)' = Wakes(d) /\ suspend_sem'[d] = suspend_sem[d] /\ state'[d] = state[d]
      BY <1>4, <2>2, SameListSameWakes
    <3>2. /\ One(Asleep(d)') = One(Asleep(d)) /\ One(Suspending(d)') = One(Suspending(d))
          /\ One(Activating(d)') = One(Activating(d))
      BY <1>4, <2>2 DEF Asleep, One
    <3>3. Balanced(d)
      BY <1>4, <2>2
    <3> QED BY <3>1, <3>2, <3>3 DEF Balanced
  <2>3. ASSUME c \notin doubled' PROVE Balanced(c)'
    BY <1>4, <2>3
  <2> QED BY <2>1, <2>2, <2>3
(* Nothing that counts changes. *)
<1>5. ASSUME Old, UNCHANGED <<suspend_sem, resume_sem_sources, state, doubled>>,
             \A d \in Core : pc'[d] = pc[d],
             \A d \in Core : (Suspending(d)' <=> Suspending(d)) /\ (Activating(d)' <=> Activating(d))
      PROVE  Goal
  <2>1. \A d \in Core : Wakes(d)' = Wakes(d)
    BY <1>5, SameListSameWakes
  <2>2. ASSUME NEW d \in Core \ doubled' PROVE Balanced(d)'
    <3>1. /\ One(Asleep(d)') = One(Asleep(d)) /\ One(Suspending(d)') = One(Suspending(d))
          /\ One(Activating(d)') = One(Activating(d))
      BY <1>5, <2>2 DEF Asleep, One
    <3>2. Balanced(d)
      BY <1>5, <2>2
    <3> QED BY <1>5, <2>1, <3>1, <3>2 DEF Balanced
  <2> QED BY <1>5, <2>2
<1> HIDE DEF Goal, Old
(* The watcher and main do not move the power manager. *)
<1>6. ASSUME Old, NEW t \in {TempWatcher, Main}, NEW l, Goto(t, l),
             at'[PowerManager] = at[PowerManager],
             UNCHANGED <<suspend_sem, resume_sem_sources, state, doubled>>
      PROVE  Goal
  <2>1. (\A d \in Core : pc'[d] = pc[d]) /\ pc'[PowerManager] = pc[PowerManager]
    BY <1>1, <1>2, <1>6
  <2> QED BY <1>5, <1>6, <2>1 DEF Suspending, Activating
<1> USE DEF signalVars, rowVars
<1>7. CASE PowerManagerNext
  <2>0. PICK p \in Core : p = at[PowerManager]
    BY <1>1
  <2>1. ASSUME NEW l, Goto(PowerManager, l)
        PROVE  Old /\ pc'[PowerManager] = l /\ \A d \in Core : pc'[d] = pc[d]
    BY <1>1, <1>2, <1>3, <2>1
  <2>2. ASSUME NEW c \in Core, Deactivate(c) PROVE Goal
    <3>1. /\ pc[PowerManager] = "row" /\ Goto(PowerManager, "suspend_post")
          /\ UNCHANGED <<suspend_sem, resume_sem_sources>>
          /\ state' = [state EXCEPT ![c] = "_sleep"]
          /\ at' = [at EXCEPT ![PowerManager] = c]
          /\ doubled' = IF state[c] = "_sleep" THEN doubled \cup {c} ELSE doubled
      BY <2>2 DEF Deactivate
    <3>2. at'[PowerManager] = c /\ state'[c] = "_sleep" /\ \A d \in Core \ {c} : state'[d] = state[d]
      BY <1>1, <3>1 DEF RestOK
    <3>3. pc'[PowerManager] = "suspend_post" /\ \A d \in Core : pc'[d] = pc[d]
      BY <2>1, <3>1
    <3>4. \A d \in Core : /\ ~Suspending(d) /\ ~Activating(d) /\ ~Activating(d)'
                          /\ Suspending(d)' <=> d = c
      BY <3>1, <3>2, <3>3 DEF Suspending, Activating
    <3>5. ASSUME c \notin doubled', Balanced(c) PROVE Balanced(c)'
      <4>1. state[c] # "_sleep" /\ suspend_sem'[c] = suspend_sem[c] /\ Wakes(c)' = Wakes(c)
        BY <3>1, <3>5, SameListSameWakes
      <4>2. /\ One(Suspending(c)) = 0 /\ One(Suspending(c)') = 1 /\ One(Activating(c)) = 0
            /\ One(Activating(c)') = 0 /\ One(state[c] = "_sleep") = 0
            /\ One(state'[c] = "_sleep") = 1 /\ One(Asleep(c)') = One(Asleep(c))
        BY <3>2, <3>3, <3>4, <4>1 DEF One, Asleep
      <4>3. suspend_sem[c] + One(Asleep(c)) = Wakes(c)
        BY <3>5, <4>2, BalanceTypes DEF Balanced
      <4>4. suspend_sem[c] + One(Asleep(c)) + 1 = 1 + Wakes(c) + 0
        BY <4>3, BalanceTypes
      <4> QED BY <4>1, <4>2, <4>4 DEF Balanced
    <3>6. Old /\ resume_sem_sources'[c] \in Seq(Signaller)
      BY <2>1, <3>1 DEF Old
    <3> QED BY <1>4, <3>1, <3>2, <3>3, <3>4, <3>5, <3>6
  <2>3. ASSUME NEW c \in Core, Activate(c) PROVE Goal
    <3>1. /\ pc[PowerManager] = "row" /\ Goto(PowerManager, "resume_push") /\ state[c] = "_sleep"
          /\ UNCHANGED <<suspend_sem, resume_sem_sources, doubled>>
          /\ state' = [state EXCEPT ![c] = "_active"]
          /\ at' = [at EXCEPT ![PowerManager] = c]
      BY <2>3 DEF Activate, NeedsActivation
    <3>2. at'[PowerManager] = c /\ state'[c] = "_active" /\ \A d \in Core \ {c} : state'[d] = state[d]
      BY <1>1, <3>1 DEF RestOK
    <3>3. pc'[PowerManager] = "resume_push" /\ \A d \in Core : pc'[d] = pc[d]
      BY <2>1, <3>1
    <3>4. \A d \in Core : /\ ~Suspending(d) /\ ~Activating(d) /\ ~Suspending(d)'
                          /\ Activating(d)' <=> d = c
      BY <3>1, <3>2, <3>3 DEF Suspending, Activating
    <3>5. ASSUME Balanced(c) PROVE Balanced(c)'
      <4>1. suspend_sem'[c] = suspend_sem[c] /\ Wakes(c)' = Wakes(c)
        BY <3>1, SameListSameWakes
      <4>2. /\ One(Suspending(c)) = 0 /\ One(Suspending(c)') = 0 /\ One(Activating(c)) = 0
            /\ One(Activating(c)') = 1 /\ One(state[c] = "_sleep") = 1
            /\ One(state'[c] = "_sleep") = 0 /\ One(Asleep(c)') = One(Asleep(c))
        BY <3>1, <3>2, <3>3, <3>4 DEF One, Asleep
      <4>3. suspend_sem[c] + One(Asleep(c)) = 1 + Wakes(c)
        BY <3>5, <4>2, BalanceTypes DEF Balanced
      <4>4. suspend_sem[c] + One(Asleep(c)) + 0 = 0 + Wakes(c) + 1
        BY <4>3, BalanceTypes
      <4> QED BY <4>1, <4>2, <4>4 DEF Balanced
    <3>6. Old /\ resume_sem_sources'[c] \in Seq(Signaller)
      BY <2>1, <3>1 DEF Old
    <3> QED BY <1>4, <3>1, <3>2, <3>3, <3>4, <3>5, <3>6
  <2>4. CASE SuspendExecution
    <3>1. /\ pc[PowerManager] = "suspend_post" /\ Goto(PowerManager, "row")
          /\ suspend_sem' = Up(suspend_sem, p)
          /\ UNCHANGED <<at, state, resume_sem_sources, doubled>>
      BY <2>0, <2>4 DEF SuspendExecution
    <3>2. /\ suspend_sem'[p] = suspend_sem[p] + 1
          /\ \A d \in Core \ {p} : suspend_sem'[d] = suspend_sem[d]
      BY <1>1, <3>1 DEF Up, RestOK
    <3>3. pc'[PowerManager] = "row" /\ \A d \in Core : pc'[d] = pc[d]
      BY <2>1, <3>1
    <3>4. \A d \in Core : /\ ~Suspending(d)' /\ ~Activating(d) /\ ~Activating(d)'
                          /\ Suspending(d) <=> d = p
      BY <2>0, <3>1, <3>3 DEF Suspending, Activating
    <3>5. ASSUME Balanced(p) PROVE Balanced(p)'
      <4>1. state'[p] = state[p] /\ Wakes(p)' = Wakes(p)
        BY <1>1, <3>1, SameListSameWakes
      <4>2. /\ One(Suspending(p)) = 1 /\ One(Suspending(p)') = 0 /\ One(Activating(p)) = 0
            /\ One(Activating(p)') = 0 /\ One(Asleep(p)') = One(Asleep(p))
        BY <1>1, <3>3, <3>4 DEF One, Asleep
      <4>3. suspend_sem[p] + One(Asleep(p)) + 1 = One(state[p] = "_sleep") + Wakes(p) + 0
        BY <3>5, <4>2 DEF Balanced
      <4>4. (suspend_sem[p] + 1) + One(Asleep(p)) + 0 = One(state[p] = "_sleep") + Wakes(p) + 0
        BY <1>1, <4>3, BalanceTypes
      <4> QED BY <3>2, <4>1, <4>2, <4>4 DEF Balanced
    <3>6. Old /\ resume_sem_sources'[p] \in Seq(Signaller)
      BY <1>1, <2>1, <3>1 DEF Old
    <3> QED BY <1>4, <3>1, <3>2, <3>3, <3>4, <3>5, <3>6
  <2>5. CASE ActivatePush
    <3>1. /\ pc[PowerManager] = "resume_push" /\ Goto(PowerManager, "resume_post")
          /\ resume_sem_sources' = [resume_sem_sources EXCEPT ![p] = Append(@, "POWERMANAGER")]
          /\ UNCHANGED <<at, state, suspend_sem, doubled>>
      BY <2>0, <2>5 DEF ActivatePush, PushSource
    <3>2. /\ resume_sem_sources'[p] = Append(resume_sem_sources[p], "POWERMANAGER")
          /\ \A d \in Core \ {p} : resume_sem_sources'[d] = resume_sem_sources[d]
      BY <1>1, <3>1 DEF ResumeInv, ResumeTypes
    <3>3. pc'[PowerManager] = "resume_post" /\ \A d \in Core : pc'[d] = pc[d]
      BY <2>1, <3>1
    <3>4. \A d \in Core : /\ ~Suspending(d)' /\ ~Suspending(d) /\ ~Activating(d)'
                          /\ Activating(d) <=> d = p
      BY <2>0, <3>1, <3>3 DEF Suspending, Activating
    <3>5. ASSUME Balanced(p) PROVE Balanced(p)'
      <4>1. state'[p] = state[p] /\ suspend_sem'[p] = suspend_sem[p]
        BY <3>1
      <4>2. /\ One(Suspending(p)) = 0 /\ One(Suspending(p)') = 0 /\ One(Activating(p)) = 1
            /\ One(Activating(p)') = 0 /\ One(Asleep(p)') = One(Asleep(p))
        BY <1>1, <3>3, <3>4 DEF One, Asleep
      <4>3. Wakes(p)' = Wakes(p) + 1
        <5>1. Wakes(p)' = Wakes(p) + One("POWERMANAGER" = "POWERMANAGER")
          BY <1>1, <3>2, AppendWakes DEF Source
        <5> QED BY <5>1 DEF One
      <4>4. suspend_sem[p] + One(Asleep(p)) + 0 = One(state[p] = "_sleep") + Wakes(p) + 1
        BY <3>5, <4>2 DEF Balanced
      <4>5. suspend_sem[p] + One(Asleep(p)) + 0 = One(state[p] = "_sleep") + (Wakes(p) + 1) + 0
        BY <1>1, <4>4, BalanceTypes
      <4> QED BY <4>1, <4>2, <4>3, <4>5 DEF Balanced
    <3>6. Old /\ resume_sem_sources'[p] \in Seq(Signaller)
      <4>1. Old /\ resume_sem_sources[p] \in Seq(Signaller)
        BY <1>1, <2>1, <3>1 DEF Old
      <4> QED BY <3>2, <4>1 DEF Signaller
    <3> QED BY <1>4, <3>1, <3>2, <3>3, <3>4, <3>5, <3>6
  <2>6. CASE ActivatePost \/ PowerManagerExit
    <3>1. /\ pc[PowerManager] \in {"resume_post", "row"}
          /\ Goto(PowerManager, "row") \/ Goto(PowerManager, "exit")
          /\ UNCHANGED <<suspend_sem, resume_sem_sources, state, doubled>>
      BY <2>6 DEF ActivatePost, PowerManagerExit
    <3>2. Old /\ pc'[PowerManager] \in {"row", "exit"} /\ \A d \in Core : pc'[d] = pc[d]
      BY <2>1, <3>1
    <3> QED BY <1>5, <3>1, <3>2 DEF Suspending, Activating
  <2> QED BY <1>7, <2>2, <2>3, <2>4, <2>5, <2>6 DEF PowerManagerNext
<1>8. CASE TempWatcherNext
  <2>1. ASSUME NEW l, Goto(TempWatcher, l) PROVE Old
    BY <1>1, <1>2, <1>3, <2>1
  <2>2. ASSUME NEW l, Goto(TempWatcher, l), NEW c \in Core,
               at' = at \/ at' = [at EXCEPT ![TempWatcher] = c],
               UNCHANGED <<suspend_sem, resume_sem_sources, state, doubled>>
        PROVE  Goal
    <3>1. at'[PowerManager] = at[PowerManager]
      BY <1>1, <2>2
    <3> QED BY <1>6, <2>1, <2>2, <3>1
  <2>3. ASSUME NEW l, NEW m, NextCore(l, m),
               UNCHANGED <<suspend_sem, resume_sem_sources, state, doubled>>
        PROVE  Goal
    BY <1>1, <2>2, <2>3, ZeroIsCore DEF NextCore
  <2>4. CASE TriggerSleeping
    <3>0. PICK w \in Core : w = at[TempWatcher]
      BY <1>1
    <3>1. /\ Goto(TempWatcher, "resume_post")
          /\ resume_sem_sources' = [resume_sem_sources EXCEPT ![w] = Append(@, "TEMPWATCHER")]
          /\ UNCHANGED <<at, state, suspend_sem, doubled>>
      BY <2>4, <3>0 DEF TriggerSleeping, PushSource
    <3>2. /\ resume_sem_sources'[w] = Append(resume_sem_sources[w], "TEMPWATCHER")
          /\ \A d \in Core \ {w} : resume_sem_sources'[d] = resume_sem_sources[d]
      BY <1>1, <3>1 DEF ResumeInv, ResumeTypes
    <3>3. (\A d \in Core : pc'[d] = pc[d]) /\ pc'[PowerManager] = pc[PowerManager]
      BY <1>1, <1>2, <3>1
    <3>4. \A d \in Core : (Suspending(d)' <=> Suspending(d)) /\ (Activating(d)' <=> Activating(d))
      BY <3>1, <3>3 DEF Suspending, Activating
    <3>5. ASSUME Balanced(w) PROVE Balanced(w)'
      <4>1. state'[w] = state[w] /\ suspend_sem'[w] = suspend_sem[w]
        BY <3>1
      <4>2. /\ One(Suspending(w)') = One(Suspending(w)) /\ One(Activating(w)') = One(Activating(w))
            /\ One(Asleep(w)') = One(Asleep(w))
        BY <1>1, <3>3, <3>4 DEF One, Asleep
      <4>3. Wakes(w)' = Wakes(w)
        <5>1. Wakes(w)' = Wakes(w) + One("TEMPWATCHER" = "POWERMANAGER")
          BY <1>1, <3>2, AppendWakes DEF Source
        <5>2. One("TEMPWATCHER" = "POWERMANAGER") = 0
          BY DEF One
        <5> QED BY <1>1, <5>1, <5>2, BalanceTypes
      <4> QED BY <3>5, <4>1, <4>2, <4>3 DEF Balanced
    <3>6. Old /\ resume_sem_sources'[w] \in Seq(Signaller)
      <4>1. Old /\ resume_sem_sources[w] \in Seq(Signaller)
        BY <1>1, <2>1, <3>1 DEF Old
      <4> QED BY <3>2, <4>1 DEF Signaller
    <3> QED BY <1>4, <3>1, <3>2, <3>3, <3>4, <3>5, <3>6
  <2>5. CASE StartSample
    BY <2>2, <2>5, ZeroIsCore DEF StartSample
  <2>6. CASE ClearCounterValues \/ GetPAPIValues \/ TempWatcherExit
    BY <2>2, <2>6, ZeroIsCore DEF ClearCounterValues, GetPAPIValues, TempWatcherExit
  <2>7. CASE TriggerExecuting
    BY <2>3, <2>7 DEF TriggerExecuting
  <2>8. CASE TriggerPost
    BY <2>3, <2>8 DEF TriggerPost
  <2>9. CASE TakeReading
    BY <2>3, <2>9 DEF TakeReading
  <2>10. CASE ReadingTimeout
    BY <2>3, <2>10 DEF ReadingTimeout
  <2> QED BY <1>8, <2>4, <2>5, <2>6, <2>7, <2>8, <2>9, <2>10 DEF TempWatcherNext
<1>9. CASE EndRun
  <2>1. Goto(Main, "join") /\ UNCHANGED <<at, suspend_sem, resume_sem_sources, state, doubled>>
    BY <1>9 DEF EndRun
  <2>2. Old
    BY <1>3, <1>9 DEF EndRun
  <2> QED BY <1>6, <2>1, <2>2
<1>10. CASE JoinNext
  <2>1. \E l \in {"resume_push", "resume_post", "stop_post", "stop_load", "await_exit",
               "crashed", "exit"} :
          Goto(Main, l)
    BY <1>10 DEF JoinNext, BeginJoin, JoinPush, JoinPost, JoinStop, JoinStopPost, JoinStopLoad,
                 JoinReturns
  <2>2. pc'[Main] \notin {"run", "join"}
    BY <1>1, <1>2, <2>1
  <2> QED BY <2>2
<1> QED BY <1>7, <1>8, <1>9, <1>10

LEMMA InitBalance == Init => BalInv
<1> SUFFICES ASSUME Init PROVE BalInv
  OBVIOUS
<1>1. \A t \in Thread : pc[t] \in {"begin", "row", "sample", "run"}
  BY DEF Init
<1>2. PowerManager \in Thread /\ Core \subseteq Thread
  BY DEF Thread, Caller
<1>3. \A c \in Core : resume_sem_sources[c] = << >> /\ suspend_sem[c] = 0 /\ state[c] = "_active"
  BY DEF Init
<1>4. ASSUME NEW c \in Core PROVE Balanced(c)
  <2>1. /\ One(Asleep(c)) = 0 /\ One(Suspending(c)) = 0 /\ One(Activating(c)) = 0
        /\ One(state[c] = "_sleep") = 0
    BY <1>1, <1>2, <1>3 DEF One, Asleep, Suspending, Activating
  <2>2. Wakes(c) = Cardinality({})
    <3>1. {i \in DOMAIN resume_sem_sources[c] : resume_sem_sources[c][i] = "POWERMANAGER"} = {}
      BY <1>3
    <3> QED BY <3>1 DEF Wakes
  <2> QED BY <1>3, <2>1, <2>2, FS_EmptySet DEF Balanced
<1>5. << >> \in Seq(Signaller)
  OBVIOUS
<1> QED BY <1>3, <1>4, <1>5 DEF BalInv

LEMMA NextBalance == ResumeInv /\ RestOK /\ BalInv /\ [Next]_vars => BalInv'
<1> SUFFICES ASSUME ResumeInv, RestOK, BalInv, [Next]_vars PROVE BalInv'
  OBVIOUS
<1>1. CASE \E c \in Core : Worker(c)
  BY <1>1, WorkerBalance
<1>2. CASE PowerManagerNext \/ TempWatcherNext \/ EndRun \/ JoinNext
  BY <1>2, CallerBalance
<1>3. CASE UNCHANGED vars
  BY <1>3 DEF vars, signalVars, rowVars, BalInv, Balanced, Wakes, Asleep, Suspending, Activating
<1> QED BY <1>1, <1>2, <1>3 DEF Next, Step

LEMMA BalanceInvariant == Spec => [](ResumeInv /\ RestOK /\ BalInv)
  BY InitBalance, NextBalance, TypesInvariant, PTL DEF Spec

(* For any number of workers and any rows: as long as no row of frequency   *)
(* zero followed another one on the core, what suspends a worker is what    *)
(* wakes it plus one if its state is _sleep, in every interleaving of the   *)
(* power manager, the watcher and the worker, until the joins begin.        *)
THEOREM SuspensionsBalance == Spec => []SuspendBalance
<1>1. BalInv => SuspendBalance
  BY DEF BalInv, Balanced, SuspendBalance, Suspending, Activating
<1> QED BY <1>1, BalanceInvariant, PTL

(* A worker whose state is _active and that sleeps has a unit of resume_sem *)
(* and a source in the list that ends the sleep, unless an activation or a  *)
(* request to read is just being posted: no interleaving of the power       *)
(* manager, the watcher and the worker uses an activation up for another    *)
(* suspension (Worker.cpp, activate).                                       *)
ActiveHasWakeUp ==
  pc[Main] \in {"run", "join"} =>
    \A c \in Core \ doubled :
      state[c] = "_active" /\ pc[c] = "asleep" /\ ~Activating(c)
        /\ ~Posting(PowerManager, c) /\ ~Posting(TempWatcher, c)
      => resume_sem[c] > 0 /\ Wakes(c) > 0

(* For any number of workers, rows and samples: the safety side of          *)
(* ActiveRunsIfSingle.                                                      *)
THEOREM ActiveWorkersAreWoken == Spec => []ActiveHasWakeUp
<1>1. ResumeInv /\ RestOK /\ BalInv => ActiveHasWakeUp
  <2> SUFFICES ASSUME ResumeInv, RestOK, BalInv, pc[Main] \in {"run", "join"},
                      NEW c \in Core \ doubled, state[c] = "_active", pc[c] = "asleep",
                      ~Activating(c), ~Posting(PowerManager, c), ~Posting(TempWatcher, c)
               PROVE  resume_sem[c] > 0 /\ Wakes(c) > 0
    BY DEF ActiveHasWakeUp
  <2>1. Wakes(c) > 0
    <3>1. One(Asleep(c)) = 1 /\ One(state[c] = "_sleep") = 0 /\ One(Activating(c)) = 0
      BY DEF Asleep, One
    <3>2. Balanced(c)
      BY DEF BalInv
    <3> QED BY <3>1, <3>2, BalanceTypes DEF Balanced
  <2>2. /\ resume_sem_sources[c] \in Seq(Source) /\ resume_sem[c] \in Nat
    BY DEF ResumeInv, ResumeTypes
  <2>3. Len(resume_sem_sources[c]) > 0
    <3> SUFFICES ASSUME Len(resume_sem_sources[c]) = 0 PROVE FALSE
      BY <2>2
    <3>1. {i \in DOMAIN resume_sem_sources[c] : resume_sem_sources[c][i] = "POWERMANAGER"} = {}
      BY <2>2
    <3>2. Wakes(c) = Cardinality({})
      BY <3>1 DEF Wakes
    <3> QED BY <2>1, <3>2, FS_EmptySet
  <2>4. /\ One(pc[c] = "resumed") = 0 /\ One(Posting(PowerManager, c)) = 0
        /\ One(Posting(TempWatcher, c)) = 0 /\ One(Posting(Main, c)) = 0
    BY DEF One, Posting
  <2>5. resume_sem[c] > 0
    BY <2>2, <2>3, <2>4 DEF ResumeInv, SourcesCoverUnits
  <2> QED BY <2>1, <2>5
<1> QED BY <1>1, BalanceInvariant, PTL

-----------------------------------------------------------------------------
(* The joins.  Each suspension, taken or to come, of a core whose rows of   *)
(* frequency zero never followed each other has a listed source that wakes  *)
(* it, but for one that the first push of Worker::join covers: what the     *)
(* balance above becomes once main lists sources too.                       *)

(* The suspensions of a worker when nobody posts any more, and the listed   *)
(* sources that end one.                                                    *)
Due(c)   == suspend_sem[c] + One(Asleep(c))
Joins(c) == Cardinality(Listed(resume_sem_sources[c], "PROCESSOR"))
Calls(c) == Wakes(c) + Joins(c)

(* Main has listed at least one source for the core it joins. *)
Resumed(c) == at[Main] = c /\ (wakes < JoinResumes \/ pc[Main] # "resume_push")

CallersGone == pc[PowerManager] = "exit" /\ pc[TempWatcher] = "exit"

JoinInv ==
  pc[Main] \notin {"run", "join"} =>
    /\ CallersGone
    /\ wakes <= JoinResumes
    /\ \A c \in Core \ doubled : Due(c) + One(Resumed(c)) <= Calls(c) + 1

LEMMA DueTypes ==
  ASSUME ResumeInv, RestOK, NEW c \in Core
  PROVE  Due(c) \in Nat /\ Wakes(c) \in Nat /\ Joins(c) \in Nat /\ Calls(c) \in Nat
<1>1. resume_sem_sources[c] \in Seq(Source)
  BY DEF ResumeInv, ResumeTypes
<1>2. Joins(c) \in Nat
  BY <1>1, ListedFinite DEF Joins
<1> QED BY <1>2, BalanceTypes DEF Due, Calls

LEMMA AppendCalls ==
  ASSUME ResumeInv, RestOK, NEW c \in Core,
         resume_sem_sources'[c] = Append(resume_sem_sources[c], "PROCESSOR")
  PROVE  Calls(c)' = Calls(c) + 1
<1>1. resume_sem_sources[c] \in Seq(Source)
  BY DEF ResumeInv, ResumeTypes
<1>2. Joins(c)' = Cardinality(Listed(resume_sem_sources'[c], "PROCESSOR"))
  BY DEF Joins, Listed
<1>3. Joins(c)' = Joins(c) + One("PROCESSOR" = "PROCESSOR")
  BY <1>1, <1>2, ListedAppend DEF Joins, Source
<1>4. Wakes(c)' = Wakes(c) + One("PROCESSOR" = "POWERMANAGER")
  BY AppendWakes DEF Source
<1>5. Calls(c)' = Wakes(c)' + Joins(c)'
  BY DEF Calls
<1>6. One("PROCESSOR" = "PROCESSOR") = 1 /\ One("PROCESSOR" = "POWERMANAGER") = 0
  BY DEF One
<1> QED BY <1>3, <1>4, <1>5, <1>6, DueTypes DEF Calls

LEMMA SameListSameCalls ==
  ASSUME NEW c \in Core, resume_sem_sources'[c] = resume_sem_sources[c]
  PROVE  Calls(c)' = Calls(c)
BY DEF Calls, Wakes, Joins, Listed

LEMMA TailCalls ==
  ASSUME ResumeInv, RestOK, NEW c \in Core, Len(resume_sem_sources[c]) > 0,
         resume_sem_sources'[c] = Tail(resume_sem_sources[c])
  PROVE  /\ Calls(c)' \in Nat
         /\ Calls(c) = Calls(c)' + One(Head(resume_sem_sources[c]) # "TEMPWATCHER")
<1>1. /\ resume_sem_sources[c] \in Seq(Source)
      /\ Tail(resume_sem_sources[c]) \in Seq(Source)
      /\ Head(resume_sem_sources[c]) \in Source
  BY DEF ResumeInv, ResumeTypes
<1>2. /\ Joins(c)' = Cardinality(Listed(resume_sem_sources'[c], "PROCESSOR"))
      /\ Wakes(c)' = Cardinality(Listed(resume_sem_sources'[c], "POWERMANAGER"))
  BY DEF Joins, Wakes, Listed
<1>3. Joins(c)' \in Nat /\ Wakes(c)' \in Nat
  BY <1>1, <1>2, ListedFinite
<1>4. Joins(c) = Joins(c)' + One(Head(resume_sem_sources[c]) = "PROCESSOR")
  BY <1>1, <1>2, ListedTail DEF Joins
<1>5. Wakes(c) = Wakes(c)' + One(Head(resume_sem_sources[c]) = "POWERMANAGER")
  BY TailWakes
<1>6. Calls(c)' = Wakes(c)' + Joins(c)'
  BY DEF Calls
<1>7. One(Head(resume_sem_sources[c]) = "PROCESSOR")
        + One(Head(resume_sem_sources[c]) = "POWERMANAGER")
        = One(Head(resume_sem_sources[c]) # "TEMPWATCHER")
  BY <1>1 DEF Source, One
<1>8. /\ One(Head(resume_sem_sources[c]) = "PROCESSOR") \in Nat
      /\ One(Head(resume_sem_sources[c]) = "POWERMANAGER") \in Nat
  BY DEF One
<1> QED BY <1>3, <1>4, <1>5, <1>6, <1>7, <1>8 DEF Calls

(* A worker that falls asleep turns a unit into its sleep, one that wakes up *)
(* uses a source of its own.                                                *)
LEMMA WorkerDue ==
  ASSUME ResumeInv, RestOK, NEW c \in Core, Worker(c)
  PROVE  /\ Due(c)' \in Nat /\ Calls(c)' \in Nat
         /\ Due(c)' + Calls(c) = Due(c) + Calls(c)'
         /\ \A d \in Core \ {c} : Due(d)' = Due(d) /\ Calls(d)' = Calls(d)
         /\ \A u \in Thread \ {c} : pc'[u] = pc[u]
         /\ UNCHANGED <<at, wakes, doubled>>
<1>1. /\ pc \in [Thread -> Label] /\ c \in Thread /\ Core \subseteq Thread
  BY DEF ResumeInv, ResumeTypes, Thread
<1>2. ASSUME NEW l, Goto(c, l) PROVE pc'[c] = l /\ \A u \in Thread \ {c} : pc'[u] = pc[u]
  BY <1>1, <1>2 DEF Goto
<1>3. \E l : Goto(c, l)
  BY DEF Worker, InformExecutionBegin, WorkerLoop, CheckInterrupts, ReadCounters,
         InformPAPIReadingFinish, InformAsleep, NotSuspended, CheckReturns, FallAsleep, WaitResume,
         TakeSource, TryLoadJob, Loaded, BeginFire, Fire, ClearJob
<1>4. \A u \in Thread \ {c} : pc'[u] = pc[u]
  BY <1>2, <1>3
<1>5. UNCHANGED <<at, wakes, doubled>>
  BY DEF Worker, InformExecutionBegin, WorkerLoop, CheckInterrupts, ReadCounters,
         InformPAPIReadingFinish, InformAsleep, NotSuspended, FallAsleep, WaitResume,
         TakeSource, TryLoadJob, Loaded, BeginFire, Fire, ClearJob, rowVars
<1> DEFINE Goal == /\ Due(c)' \in Nat /\ Calls(c)' \in Nat
                   /\ Due(c)' + Calls(c) = Due(c) + Calls(c)'
                   /\ \A d \in Core \ {c} : Due(d)' = Due(d) /\ Calls(d)' = Calls(d)
<1>6. ASSUME NEW d \in Core \ {c}, suspend_sem'[d] = suspend_sem[d],
             resume_sem_sources'[d] = resume_sem_sources[d]
      PROVE  Due(d)' = Due(d) /\ Calls(d)' = Calls(d)
  <2>1. One(Asleep(d)') = One(Asleep(d))
    BY <1>1, <1>4 DEF Asleep, One
  <2> QED BY <1>6, <2>1, SameListSameCalls DEF Due
<1>7. suspend_sem[c] \in Nat /\ One(Asleep(c)) \in Nat /\ Calls(c) \in Nat
  BY DueTypes, BalanceTypes
<1> SUFFICES Goal
  BY <1>4, <1>5
<1> HIDE DEF Goal
(* A step that changes neither the semaphore nor the list nor the sleep. *)
<1>8. ASSUME NEW l, Goto(c, l), UNCHANGED <<suspend_sem, resume_sem_sources>>,
             l \in {"asleep", "resumed", "read_asleep", "inform_asleep"} <=> Asleep(c)
      PROVE  Goal
  <2>1. One(Asleep(c)') = One(Asleep(c))
    BY <1>2, <1>8 DEF Asleep, One
  <2>2. Due(c)' = Due(c) /\ Calls(c)' = Calls(c)
    BY <1>8, <2>1, SameListSameCalls DEF Due
  <2>3. \A d \in Core \ {c} : Due(d)' = Due(d) /\ Calls(d)' = Calls(d)
    BY <1>6, <1>8
  <2> QED BY <2>2, <2>3, DueTypes DEF Goal
<1>9. AfterCheck(c) \in {"loaded", "fire", "begin_fire", "load"}
  BY DEF AfterCheck
<1> USE DEF signalVars
<1>10. CASE InformExecutionBegin(c)
  BY <1>8, <1>10 DEF InformExecutionBegin, Asleep
<1>11. CASE WorkerLoop(c)
  BY <1>8, <1>11 DEF WorkerLoop, Asleep
<1>12. CASE CheckInterrupts(c)
  BY <1>8, <1>12 DEF CheckInterrupts, Asleep
<1>13. CASE ReadCounters(c)
  BY <1>8, <1>13 DEF ReadCounters, Asleep
<1>14. CASE InformPAPIReadingFinish(c) \/ InformAsleep(c)
  BY <1>8, <1>14 DEF InformPAPIReadingFinish, InformAsleep, Asleep
<1>15. CASE NotSuspended(c)
  BY <1>8, <1>9, <1>15 DEF NotSuspended, CheckReturns, Asleep
<1>16. CASE FallAsleep(c)
  <2>1. /\ pc[c] = "suspend" /\ suspend_sem[c] > 0 /\ Goto(c, "asleep")
        /\ suspend_sem' = Down(suspend_sem, c) /\ UNCHANGED resume_sem_sources
    BY <1>16 DEF FallAsleep
  <2>2. /\ suspend_sem'[c] = suspend_sem[c] - 1
        /\ \A d \in Core \ {c} : suspend_sem'[d] = suspend_sem[d]
    BY <2>1 DEF Down, RestOK
  <2>3. One(Asleep(c)) = 0 /\ One(Asleep(c)') = 1
    BY <1>2, <2>1 DEF Asleep, One
  <2>4. Due(c)' = Due(c) /\ Calls(c)' = Calls(c)
    BY <1>7, <2>1, <2>2, <2>3, SameListSameCalls DEF Due
  <2>5. \A d \in Core \ {c} : Due(d)' = Due(d) /\ Calls(d)' = Calls(d)
    BY <1>6, <2>1, <2>2
  <2> QED BY <2>4, <2>5, DueTypes DEF Goal
<1>17. CASE WaitResume(c)
  BY <1>8, <1>17 DEF WaitResume, Asleep
<1>18. CASE TakeSource(c)
  <2>1. /\ pc[c] = "resumed" /\ UNCHANGED suspend_sem
        /\ resume_sem_sources' = [resume_sem_sources EXCEPT ![c] = Tail(@)]
    BY <1>18 DEF TakeSource
  <2>2. /\ resume_sem_sources'[c] = Tail(resume_sem_sources[c])
        /\ \A d \in Core \ {c} : resume_sem_sources'[d] = resume_sem_sources[d]
    BY <2>1 DEF ResumeInv, ResumeTypes
  <2>3. /\ Calls(c)' \in Nat
        /\ Calls(c) = Calls(c)' + One(Head(resume_sem_sources[c]) # "TEMPWATCHER")
    BY <2>1, <2>2, SourceThere, TailCalls
  <2>4. One(Asleep(c)) = One(Asleep(c)') + One(Head(resume_sem_sources[c]) # "TEMPWATCHER")
        /\ One(Asleep(c)') \in Nat
    <3>1. CASE Head(resume_sem_sources[c]) = "TEMPWATCHER"
      <4>1. pc'[c] = "read_asleep"
        BY <1>2, <1>18, <3>1 DEF TakeSource
      <4> QED BY <2>1, <3>1, <4>1 DEF Asleep, One
    <3>2. CASE Head(resume_sem_sources[c]) # "TEMPWATCHER"
      <4>1. pc'[c] = AfterCheck(c)
        BY <1>2, <1>18, <3>2 DEF TakeSource, CheckReturns
      <4>2. ~Asleep(c)' /\ Asleep(c)
        BY <1>9, <2>1, <4>1 DEF Asleep
      <4> QED BY <3>2, <4>2 DEF One
    <3> QED BY <3>1, <3>2
  <2>5. One(Head(resume_sem_sources[c]) # "TEMPWATCHER") \in Nat
    BY DEF One
  <2>6. Due(c)' = suspend_sem[c] + One(Asleep(c)')
    BY <2>1 DEF Due
  <2>7. Due(c)' \in Nat /\ Due(c)' + Calls(c) = Due(c) + Calls(c)'
    BY <1>7, <2>3, <2>4, <2>5, <2>6 DEF Due
  <2>8. \A d \in Core \ {c} : Due(d)' = Due(d) /\ Calls(d)' = Calls(d)
    BY <1>6, <2>1, <2>2
  <2> QED BY <2>3, <2>7, <2>8 DEF Goal
<1>19. CASE TryLoadJob(c) \/ BeginFire(c) \/ ClearJob(c)
  BY <1>8, <1>19 DEF TryLoadJob, BeginFire, ClearJob, Asleep
<1>20. CASE Loaded(c)
  BY <1>8, <1>20 DEF Loaded, Asleep
<1>21. CASE Fire(c)
  BY <1>8, <1>21 DEF Fire, Asleep
<1> QED
  BY <1>10, <1>11, <1>12, <1>13, <1>14, <1>15, <1>16, <1>17, <1>18, <1>19, <1>20, <1>21
  DEF Worker

LEMMA WorkerJoin ==
  ASSUME ResumeInv, RestOK, JoinInv, NEW c \in Core, Worker(c)
  PROVE  JoinInv'
<1> SUFFICES ASSUME pc'[Main] \notin {"run", "join"}
             PROVE  /\ CallersGone'
                    /\ wakes' <= JoinResumes
                    /\ \A d \in Core \ doubled' : Due(d)' + One(Resumed(d)') <= Calls(d)' + 1
  BY DEF JoinInv, JoinResumes
<1>1. /\ PowerManager \in Thread \ {c} /\ TempWatcher \in Thread \ {c} /\ Main \in Thread \ {c}
  BY CallersAssumption DEF Thread, Caller
<1>2. /\ pc'[Main] = pc[Main] /\ pc'[PowerManager] = pc[PowerManager]
      /\ pc'[TempWatcher] = pc[TempWatcher] /\ UNCHANGED <<at, wakes, doubled>>
  BY <1>1, WorkerDue
<1>3. CallersGone' /\ wakes' <= JoinResumes
  BY <1>2 DEF JoinInv, CallersGone
<1>4. ASSUME NEW d \in Core \ doubled' PROVE Due(d)' + One(Resumed(d)') <= Calls(d)' + 1
  <2>1. One(Resumed(d)') = One(Resumed(d)) /\ One(Resumed(d)) \in Nat
    BY <1>2 DEF Resumed, One
  <2>2. Due(d) + One(Resumed(d)) <= Calls(d) + 1
    BY <1>2 DEF JoinInv
  <2>3. Due(d) \in Nat /\ Calls(d) \in Nat
    BY DueTypes
  <2>4. CASE d = c
    <3>1. Due(c)' \in Nat /\ Calls(c)' \in Nat /\ Due(c)' + Calls(c) = Due(c) + Calls(c)'
      BY WorkerDue
    <3> HIDE DEF Due, Calls, Resumed
    <3> QED BY <2>1, <2>2, <2>3, <2>4, <3>1
  <2>5. CASE d # c
    <3>1. Due(d)' = Due(d) /\ Calls(d)' = Calls(d)
      BY <2>5, WorkerDue
    <3> QED BY <2>1, <2>2, <3>1
  <2> QED BY <2>4, <2>5
<1> QED BY <1>3, <1>4

(* A step of main in the joins.  Its first push for a core pays for the one *)
(* suspension that the rows of the power manager may have left without a    *)
(* source; the others only add sources.                                     *)
LEMMA MainJoin ==
  ASSUME ResumeInv, RestOK, BalInv, JoinInv, JoinNext
  PROVE  JoinInv'
<1>1. /\ pc \in [Thread -> Label] /\ at \in [Caller -> Core] /\ Core \subseteq Thread
      /\ Main \in Thread /\ Main \in Caller /\ at[Main] \in Core
      /\ PowerManager \in Thread \ {Main} /\ TempWatcher \in Thread \ {Main}
      /\ \A d \in Core : d # Main
      /\ wakes \in Nat
  BY CallersAssumption DEF ResumeInv, ResumeTypes, RestOK, Thread, Caller
<1>2. ASSUME NEW l, Goto(Main, l)
      PROVE  pc'[Main] = l /\ \A u \in Thread \ {Main} : pc'[u] = pc[u]
  BY <1>1, <1>2 DEF Goto
<1>3. \E l : Goto(Main, l)
  BY DEF JoinNext, BeginJoin, JoinPush, JoinPost, JoinStop, JoinStopPost, JoinStopLoad, JoinReturns
<1>4. /\ \A u \in Thread \ {Main} : pc'[u] = pc[u]
      /\ UNCHANGED <<suspend_sem, doubled>>
  <2>1. UNCHANGED <<suspend_sem, doubled>>
    BY DEF JoinNext, BeginJoin, JoinPush, JoinPost, JoinStop, JoinStopPost, JoinStopLoad,
           JoinReturns, signalVars, rowVars
  <2> QED BY <1>2, <1>3, <2>1
<1>5. \A d \in Core : /\ Due(d)' = Due(d)
                      /\ Due(d) \in Nat /\ Calls(d) \in Nat /\ One(Resumed(d)) \in Nat
  <2> SUFFICES ASSUME NEW d \in Core
               PROVE  Due(d)' = Due(d) /\ Due(d) \in Nat /\ Calls(d) \in Nat
                      /\ One(Resumed(d)) \in Nat
    OBVIOUS
  <2>1. One(Asleep(d)') = One(Asleep(d))
    BY <1>1, <1>4 DEF Asleep, One
  <2>2. One(Resumed(d)) \in Nat
    BY DEF One
  <2> QED BY <1>4, <2>1, <2>2, DueTypes DEF Due
(* From one step of the joins to the next: a core is resumed at first by a  *)
(* push of its own.                                                         *)
<1>6. ASSUME pc[Main] \notin {"run", "join"}, wakes' <= JoinResumes,
             \A d \in Core : Calls(d)' \in Nat /\ Calls(d)' >= Calls(d),
             \A d \in Core : Resumed(d)' => Resumed(d) \/ Calls(d)' = Calls(d) + 1
      PROVE  JoinInv'
  <2>1. CallersGone' /\ \A d \in Core \ doubled : Due(d) + One(Resumed(d)) <= Calls(d) + 1
    BY <1>1, <1>4, <1>6 DEF JoinInv, CallersGone
  <2>2. ASSUME NEW d \in Core \ doubled' PROVE Due(d)' + One(Resumed(d)') <= Calls(d)' + 1
    <3>1. Due(d) + One(Resumed(d)) <= Calls(d) + 1
      BY <1>4, <2>1
    <3>2. CASE ~Resumed(d)'
      <4>1. One(Resumed(d)') = 0
        BY <3>2 DEF One
      <4> HIDE DEF Due, Calls, Resumed
      <4> QED BY <1>5, <1>6, <3>1, <4>1
    <3>3. CASE Resumed(d)' /\ Resumed(d)
      <4>1. One(Resumed(d)') = 1 /\ One(Resumed(d)) = 1
        BY <3>3 DEF One
      <4> HIDE DEF Due, Calls, Resumed
      <4> QED BY <1>5, <1>6, <3>1, <4>1
    <3>4. CASE Resumed(d)' /\ Calls(d)' = Calls(d) + 1
      <4>1. One(Resumed(d)') = 1
        BY <3>4 DEF One
      <4>2. /\ Due(d)' = Due(d) /\ Due(d) \in Nat /\ Calls(d) \in Nat
            /\ One(Resumed(d)) \in Nat
        BY <1>5
      <4>3. Due(d) + 1 <= (Calls(d) + 1) + 1
        BY <3>1, <4>2
      <4> HIDE DEF Due, Calls, Resumed
      <4> QED BY <3>4, <4>1, <4>2, <4>3
    <3> QED BY <1>6, <3>2, <3>3, <3>4
  <2>3. wakes' <= JoinResumes'
    BY <1>6 DEF JoinResumes
  <2> QED BY <2>1, <2>2, <2>3 DEF JoinInv
(* The calls of a core change with its list only. *)
<1>7. ASSUME UNCHANGED resume_sem_sources
      PROVE  \A d \in Core : Calls(d)' = Calls(d) /\ Calls(d)' \in Nat /\ Calls(d)' >= Calls(d)
  <2>1. \A d \in Core : Calls(d)' = Calls(d)
    BY <1>7, SameListSameCalls
  <2> HIDE DEF Calls
  <2> QED BY <1>5, <2>1
<1>8. PICK c \in Core : c = at[Main]
  BY <1>1
<1>9. ASSUME PushSource(Main, "PROCESSOR")
      PROVE  /\ Calls(c)' = Calls(c) + 1
             /\ \A d \in Core : Calls(d)' \in Nat /\ Calls(d)' >= Calls(d)
  <2>1. /\ resume_sem_sources'[c] = Append(resume_sem_sources[c], "PROCESSOR")
        /\ \A d \in Core \ {c} : resume_sem_sources'[d] = resume_sem_sources[d]
    BY <1>8, <1>9 DEF PushSource, ResumeInv, ResumeTypes
  <2>2. Calls(c)' = Calls(c) + 1 /\ \A d \in Core \ {c} : Calls(d)' = Calls(d)
    BY <2>1, AppendCalls, SameListSameCalls
  <2>3. ASSUME NEW d \in Core PROVE Calls(d)' \in Nat /\ Calls(d)' >= Calls(d)
    <3> HIDE DEF Calls
    <3>1. CASE d = c
      BY <1>5, <2>2, <3>1
    <3>2. CASE d # c
      BY <1>5, <2>2, <3>2
    <3> QED BY <3>1, <3>2
  <2> QED BY <2>2, <2>3
<1> USE DEF signalVars
<1>10. CASE BeginJoin
  <2>1. /\ pc[Main] = "join" /\ CallersGone
        /\ Goto(Main, "resume_push") /\ wakes' = JoinResumes
        /\ UNCHANGED <<resume_sem_sources, state, at>>
    BY <1>10 DEF BeginJoin, CallersGone
  <2>2. pc'[Main] = "resume_push" /\ CallersGone'
    BY <1>1, <1>2, <1>4, <2>1 DEF CallersGone
  <2>3. \A d \in Core : ~Resumed(d)'
    BY <2>1, <2>2 DEF Resumed, JoinResumes
  <2>4. ASSUME NEW d \in Core \ doubled' PROVE Due(d)' + One(Resumed(d)') <= Calls(d)' + 1
    <3>1. Balanced(d)
      BY <1>4, <2>1 DEF BalInv
    <3>2. ~Suspending(d) /\ ~Activating(d)
      BY <2>1 DEF Suspending, Activating, CallersGone
    <3>3. One(Suspending(d)) = 0 /\ One(Activating(d)) = 0
      BY <3>2 DEF One
    <3>4. Due(d) = One(state[d] = "_sleep") + Wakes(d)
      BY <3>1, <3>3, BalanceTypes DEF Balanced, Due
    <3>5. Due(d) <= Calls(d) + 1
      <4>1. One(state[d] = "_sleep") \in {0, 1}
        BY DEF One
      <4> HIDE DEF Due, Joins
      <4> QED BY <3>4, <4>1, DueTypes DEF Calls
    <3>6. One(Resumed(d)') = 0 /\ Due(d)' = Due(d) /\ Calls(d)' = Calls(d)
      BY <1>5, <1>7, <2>1, <2>3 DEF One
    <3> HIDE DEF Due, Calls, Resumed
    <3> QED BY <1>5, <3>5, <3>6
  <2>5. wakes' <= JoinResumes'
    BY <2>1 DEF JoinResumes
  <2> QED BY <2>2, <2>4, <2>5 DEF JoinInv
<1>11. CASE JoinPush
  <2>1. /\ pc[Main] = "resume_push" /\ Goto(Main, "resume_post")
        /\ PushSource(Main, "PROCESSOR") /\ UNCHANGED <<at, wakes>>
    BY <1>11 DEF JoinPush
  <2>2. \A d \in Core : Resumed(d)' => Resumed(d) \/ Calls(d)' = Calls(d) + 1
    BY <1>8, <1>9, <2>1 DEF Resumed
  <2>3. wakes' <= JoinResumes
    BY <2>1 DEF JoinInv
  <2> HIDE DEF Calls, Resumed
  <2> QED BY <1>6, <1>9, <2>1, <2>2, <2>3
<1>12. CASE JoinPost
  <2>1. /\ pc[Main] = "resume_post" /\ Goto(Main, "resume_push") /\ wakes' = wakes - 1
        /\ UNCHANGED <<at, resume_sem_sources>>
    BY <1>12 DEF JoinPost
  <2>2. \A d \in Core : Resumed(d)' => Resumed(d)
    BY <2>1 DEF Resumed
  <2>3. wakes' <= JoinResumes
    BY <1>1, <2>1 DEF JoinInv, JoinResumes
  <2> HIDE DEF Calls, Resumed
  <2> QED BY <1>6, <1>7, <2>1, <2>2, <2>3
<1>13. CASE JoinStop
  <2>1. /\ pc[Main] = "resume_push" /\ wakes = 0 /\ UNCHANGED <<at, wakes>>
        /\ PushSource(Main, "PROCESSOR") \/ UNCHANGED resume_sem_sources
    BY <1>13 DEF JoinStop
  <2>2. \A d \in Core : Resumed(d)' => Resumed(d)
    BY <2>1 DEF Resumed, JoinResumes
  <2>3. wakes' <= JoinResumes
    BY <2>1 DEF JoinResumes
  <2> HIDE DEF Calls, Resumed
  <2> QED BY <1>6, <1>7, <1>9, <2>1, <2>2, <2>3
<1>14. CASE JoinStopPost \/ JoinStopLoad
  <2>1. /\ pc[Main] \in {"stop_post", "stop_load"}
        /\ UNCHANGED <<at, wakes, resume_sem_sources>>
    BY <1>14 DEF JoinStopPost, JoinStopLoad
  <2>2. \A d \in Core : Resumed(d)' => Resumed(d)
    BY <2>1 DEF Resumed
  <2>3. wakes' <= JoinResumes
    BY <2>1 DEF JoinInv
  <2> HIDE DEF Calls, Resumed
  <2> QED BY <1>6, <1>7, <2>1, <2>2, <2>3
<1>15. CASE JoinReturns
  <2>1. /\ pc[Main] = "await_exit" /\ UNCHANGED resume_sem_sources
        /\ \/ Goto(Main, "resume_push") /\ wakes' = JoinResumes
           \/ UNCHANGED <<at, wakes>>
    BY <1>15 DEF JoinReturns
  <2>2. \A d \in Core : Resumed(d)' => Resumed(d)
    BY <1>2, <2>1 DEF Resumed, JoinResumes
  <2>3. wakes' <= JoinResumes
    BY <2>1 DEF JoinInv, JoinResumes
  <2> HIDE DEF Calls, Resumed
  <2> QED BY <1>6, <1>7, <2>1, <2>2, <2>3
<1> QED BY <1>10, <1>11, <1>12, <1>13, <1>14, <1>15 DEF JoinNext

LEMMA NextJoin == ResumeInv /\ RestOK /\ BalInv /\ JoinInv /\ [Next]_vars => JoinInv'
<1> SUFFICES ASSUME ResumeInv, RestOK, BalInv, JoinInv, [Next]_vars PROVE JoinInv'
  OBVIOUS
<1>1. /\ pc \in [Thread -> Label] /\ Main \in Thread
      /\ PowerManager \in Thread \ {Main} /\ TempWatcher \in Thread \ {Main}
  BY CallersAssumption DEF ResumeInv, ResumeTypes, Thread, Caller
<1>2. CASE \E c \in Core : Worker(c)
  BY <1>2, WorkerJoin
(* The power manager and the watcher are gone when the joins begin. *)
<1>3. CASE PowerManagerNext \/ TempWatcherNext
  <2>1. ~CallersGone
    BY <1>3 DEF CallersGone, PowerManagerNext, Deactivate, Activate, SuspendExecution, ActivatePush,
                ActivatePost, PowerManagerExit, TempWatcherNext, StartSample, ClearCounterValues,
                TriggerExecuting, TriggerSleeping, TriggerPost, TakeReading, ReadingTimeout,
                GetPAPIValues, TempWatcherExit
  <2>2. \E t \in Thread \ {Main} : \E l : Goto(t, l)
    BY <1>1, <1>3 DEF PowerManagerNext, Deactivate, Activate, SuspendExecution, ActivatePush,
                ActivatePost, PowerManagerExit, TempWatcherNext, StartSample, ClearCounterValues,
                TriggerExecuting, TriggerSleeping, TriggerPost, TakeReading, ReadingTimeout,
                GetPAPIValues, TempWatcherExit, NextCore
  <2>3. pc'[Main] = pc[Main]
    BY <1>1, <2>2 DEF Goto
  <2> QED BY <2>1, <2>3 DEF JoinInv
<1>4. CASE EndRun
  BY <1>1, <1>4 DEF EndRun, Goto, JoinInv
<1>5. CASE JoinNext
  BY <1>5, MainJoin
<1>6. CASE UNCHANGED vars
  BY <1>6 DEF vars, signalVars, rowVars, JoinInv, JoinResumes, CallersGone, Due, Asleep, Resumed,
              Calls, Wakes, Joins, Listed
<1> QED BY <1>2, <1>3, <1>4, <1>5, <1>6 DEF Next, Step

LEMMA InitJoin == Init => JoinInv
<1> SUFFICES ASSUME Init PROVE pc[Main] = "run"
  BY DEF JoinInv
<1> QED BY CallersAssumption DEF Init, Thread, Caller

(* When main waits for a worker to exit, each suspension of the worker that *)
(* is left has a listed source that ends it, and one that sleeps has a unit *)
(* of resume_sem.                                                           *)
JoinWakesWorker ==
  pc[Main] = "await_exit" /\ at[Main] \notin doubled =>
    LET c == at[Main] IN
    /\ Due(c) <= Calls(c)
    /\ pc[c] = "asleep" => resume_sem[c] > 0

(* For any number of workers and rows: Worker::join leaves no such worker   *)
(* asleep without a unit to wake it, the safety side of RunEnds.            *)
THEOREM JoinLeavesNobodyAsleep == Spec => []JoinWakesWorker
<1>1. ResumeInv /\ RestOK /\ JoinInv => JoinWakesWorker
  <2> SUFFICES ASSUME ResumeInv, RestOK, JoinInv, pc[Main] = "await_exit", at[Main] \notin doubled,
                      NEW c \in Core, c = at[Main]
               PROVE  /\ Due(c) <= Calls(c)
                      /\ pc[c] = "asleep" => resume_sem[c] > 0
    BY DEF JoinWakesWorker, ResumeInv, ResumeTypes, Caller
  <2>1. Resumed(c) /\ CallersGone /\ Due(c) + One(Resumed(c)) <= Calls(c) + 1
    BY DEF JoinInv, Resumed
  <2>2. Due(c) <= Calls(c)
    <3>1. One(Resumed(c)) = 1
      BY <2>1 DEF One
    <3>2. Due(c) \in Nat /\ Calls(c) \in Nat /\ Due(c) + 1 <= Calls(c) + 1
      BY <2>1, <3>1, DueTypes
    <3> HIDE DEF Due, Calls
    <3> QED BY <3>2
  <2>3. ASSUME pc[c] = "asleep" PROVE resume_sem[c] > 0
    <3>1. /\ resume_sem_sources[c] \in Seq(Source) /\ resume_sem[c] \in Nat
      BY DEF ResumeInv, ResumeTypes
    <3>2. Due(c) >= 1
      <4>1. One(Asleep(c)) = 1
        BY <2>3 DEF Asleep, One
      <4> QED BY <4>1, BalanceTypes DEF Due
    <3>3. Len(resume_sem_sources[c]) > 0
      <4> SUFFICES ASSUME Len(resume_sem_sources[c]) = 0 PROVE FALSE
        BY <3>1
      <4>1. \A y : Listed(resume_sem_sources[c], y) = {}
        BY <3>1 DEF Listed
      <4>2. Wakes(c) = Cardinality({}) /\ Joins(c) = Cardinality({})
        BY <4>1 DEF Wakes, Joins, Listed
      <4>3. Calls(c) = 0
        BY <4>2, FS_EmptySet DEF Calls
      <4> HIDE DEF Due, Calls
      <4> QED BY <2>2, <3>2, <4>3, DueTypes
    <3>4. /\ One(pc[c] = "resumed") = 0 /\ One(Posting(PowerManager, c)) = 0
          /\ One(Posting(TempWatcher, c)) = 0 /\ One(Posting(Main, c)) = 0
      BY <2>1, <2>3 DEF One, Posting, CallersGone
    <3> QED BY <3>1, <3>3, <3>4 DEF ResumeInv, SourcesCoverUnits
  <2> QED BY <2>2, <2>3
<1> QED BY <1>1, NextJoin, InitJoin, BalanceInvariant, PTL DEF Spec

-----------------------------------------------------------------------------
(* The readings.  A request of the watcher to read the counters of a core   *)
(* is a unit of papi_read_sem, a source in the list, a worker that reads, or *)
(* an answer that waits.  A core that was never given up on has at most one *)
(* request, and that only from its trigger to its answer in the same sample.*)

TriggersOf(c) == Cardinality(Listed(resume_sem_sources[c], "TEMPWATCHER"))

Reads(c) == pc[c] \in {"read", "inform", "read_asleep", "inform_asleep"}

Requests(c) ==
  papi_read_sem[c] + TriggersOf(c) + One(Reads(c)) + papireading_sem[c]

(* What the watcher has done in this sample: asked core c and not taken its *)
(* answer, or taken it.                                                     *)
Asked(c) ==
  \/ pc[TempWatcher] \in {"clear", "trigger"} /\ c < at[TempWatcher]
  \/ pc[TempWatcher] = "resume_post" /\ c <= at[TempWatcher]
  \/ pc[TempWatcher] = "await" /\ at[TempWatcher] <= c

Answered(c) ==
  \/ pc[TempWatcher] = "await" /\ c < at[TempWatcher]
  \/ pc[TempWatcher] = "get"

HasRead(c) == pc[c] \in {"inform", "inform_asleep"} \/ papireading_sem[c] > 0

Prompt(c) == /\ Requests(c) <= 1
             /\ ~Asked(c) => Requests(c) = 0
             /\ HasRead(c) \/ Answered(c) => values[c] = sample

ReadInv == \A c \in Core \ late : Prompt(c)

LEMMA ReadTypes ==
  ASSUME ResumeInv, RestOK, NEW c \in Core
  PROVE  /\ papi_read_sem[c] \in Nat /\ papireading_sem[c] \in Nat
         /\ TriggersOf(c) \in Nat /\ One(Reads(c)) \in Nat
<1>1. resume_sem_sources[c] \in Seq(Source) /\ papi_read_sem[c] \in Nat /\ papireading_sem[c] \in Nat
  BY DEF ResumeInv, ResumeTypes, RestOK
<1> QED BY <1>1, ListedFinite DEF TriggersOf, One

(* A step of the worker passes its request on: from the semaphore or the    *)
(* list to the worker, and from there to the answer.                        *)
LEMMA WorkerReads ==
  ASSUME ResumeInv, RestOK, ReadInv, NEW c \in Core, Worker(c)
  PROVE  ReadInv'
<1>1. /\ pc \in [Thread -> Label] /\ c \in Thread /\ c # TempWatcher
      /\ TempWatcher \in Thread /\ Core \subseteq Thread
  BY CallersAssumption DEF ResumeInv, ResumeTypes, Thread, Caller
<1>2. ASSUME NEW l, Goto(c, l) PROVE pc'[c] = l /\ \A u \in Thread \ {c} : pc'[u] = pc[u]
  BY <1>1, <1>2 DEF Goto
<1>3. \E l : Goto(c, l)
  BY DEF Worker, InformExecutionBegin, WorkerLoop, CheckInterrupts, ReadCounters,
         InformPAPIReadingFinish, InformAsleep, NotSuspended, CheckReturns, FallAsleep, WaitResume,
         TakeSource, TryLoadJob, Loaded, BeginFire, Fire, ClearJob
<1>4. \A u \in Thread \ {c} : pc'[u] = pc[u]
  BY <1>2, <1>3
<1>5. UNCHANGED <<at, sample, late>>
  BY DEF Worker, InformExecutionBegin, WorkerLoop, CheckInterrupts, ReadCounters,
         InformPAPIReadingFinish, InformAsleep, NotSuspended, FallAsleep, WaitResume,
         TakeSource, TryLoadJob, Loaded, BeginFire, Fire, ClearJob, tempVars
<1>6. \A d \in Core : (Asked(d)' <=> Asked(d)) /\ (Answered(d)' <=> Answered(d))
  BY <1>1, <1>4, <1>5 DEF Asked, Answered
<1> DEFINE Same(d) == /\ papi_read_sem'[d] = papi_read_sem[d]
                      /\ papireading_sem'[d] = papireading_sem[d]
                      /\ resume_sem_sources'[d] = resume_sem_sources[d]
<1>7. ASSUME \A d \in Core \ {c} : Same(d) /\ values'[d] = values[d],
             Requests(c)' = Requests(c),
             Prompt(c) => (HasRead(c)' \/ Answered(c)' => values'[c] = sample')
      PROVE  ReadInv'
  <2>1. ASSUME NEW d \in Core \ late', d # c PROVE Prompt(d)'
    <3>1. One(Reads(d)') = One(Reads(d)) /\ (HasRead(d)' <=> HasRead(d))
      BY <1>1, <1>4, <1>7, <2>1 DEF Reads, HasRead, One
    <3>2. Requests(d)' = Requests(d)
      BY <1>7, <2>1, <3>1 DEF Requests, TriggersOf
    <3>3. Prompt(d)
      BY <1>5, <2>1 DEF ReadInv
    <3> QED BY <1>5, <1>6, <1>7, <2>1, <3>1, <3>2, <3>3 DEF Prompt
  <2>2. ASSUME c \notin late' PROVE Prompt(c)'
    <3>1. Prompt(c)
      BY <1>5, <2>2 DEF ReadInv
    <3> QED BY <1>6, <1>7, <3>1 DEF Prompt
  <2> QED BY <2>1, <2>2 DEF ReadInv
(* A step that has nothing to do with readings. *)
<1>8. ASSUME NEW l, Goto(c, l), \A d \in Core : Same(d), UNCHANGED values,
             l \notin {"read", "inform", "read_asleep", "inform_asleep"}, ~Reads(c)
      PROVE  ReadInv'
  <2>1. pc'[c] = l /\ ~Reads(c)'
    BY <1>2, <1>8 DEF Reads
  <2>2. One(Reads(c)') = One(Reads(c))
    BY <1>8, <2>1 DEF One
  <2>3. Requests(c)' = Requests(c)
    BY <1>8, <2>2 DEF Requests, TriggersOf
  <2>4. HasRead(c)' <=> HasRead(c)
    BY <1>8, <2>1 DEF HasRead, Reads
  <2> HIDE DEF Same
  <2>5. \A d \in Core \ {c} : Same(d) /\ values'[d] = values[d]
    BY <1>8
  <2> QED BY <1>5, <1>6, <1>7, <1>8, <2>3, <2>4, <2>5 DEF Prompt
<1>9. AfterCheck(c) \in {"loaded", "fire", "begin_fire", "load"}
  BY DEF AfterCheck
<1> USE DEF papiVars, signalVars
<1>10. CASE InformExecutionBegin(c)
  BY <1>8, <1>10 DEF InformExecutionBegin, Reads
<1>11. CASE WorkerLoop(c)
  BY <1>8, <1>11 DEF WorkerLoop, Reads
<1>12. CASE NotSuspended(c)
  BY <1>8, <1>9, <1>12 DEF NotSuspended, CheckReturns, Reads
<1>13. CASE FallAsleep(c)
  BY <1>8, <1>13 DEF FallAsleep, Reads
<1>14. CASE WaitResume(c)
  BY <1>8, <1>14 DEF WaitResume, Reads
<1>15. CASE TryLoadJob(c) \/ BeginFire(c) \/ ClearJob(c)
  BY <1>8, <1>15 DEF TryLoadJob, BeginFire, ClearJob, Reads
<1>16. CASE Loaded(c)
  BY <1>8, <1>16 DEF Loaded, Reads
<1>17. CASE Fire(c)
  BY <1>8, <1>17 DEF Fire, Reads
<1>18. CASE CheckInterrupts(c)
  <2>1. CASE papi_read_sem[c] = 0
    BY <1>8, <1>18, <2>1 DEF CheckInterrupts, Reads
  <2>2. CASE papi_read_sem[c] > 0
    <3>1. /\ pc[c] = "check" /\ Goto(c, "read") /\ papi_read_sem' = Down(papi_read_sem, c)
          /\ UNCHANGED <<papireading_sem, values, resume_sem_sources>>
      BY <1>18, <2>2 DEF CheckInterrupts
    <3>2. /\ papi_read_sem'[c] = papi_read_sem[c] - 1
          /\ \A d \in Core \ {c} : papi_read_sem'[d] = papi_read_sem[d]
      BY <3>1 DEF Down, RestOK
    <3>3. pc'[c] = "read"
      BY <1>2, <3>1
    <3>4. One(Reads(c)) = 0 /\ One(Reads(c)') = 1
      BY <3>1, <3>3 DEF Reads, One
    <3>5. papireading_sem'[c] = papireading_sem[c] /\ TriggersOf(c)' = TriggersOf(c)
      BY <3>1 DEF TriggersOf
    <3>6. Requests(c)' = Requests(c)
      BY <3>2, <3>4, <3>5, ReadTypes DEF Requests
    <3>7. HasRead(c)' <=> HasRead(c)
      BY <3>1, <3>3 DEF HasRead
    <3> QED BY <1>5, <1>6, <1>7, <3>1, <3>2, <3>6, <3>7 DEF Prompt
  <2> QED BY <2>1, <2>2, ReadTypes
<1>19. CASE ReadCounters(c)
  <2>1. /\ pc[c] \in {"read", "read_asleep"} /\ \E l \in {"inform", "inform_asleep"} : Goto(c, l)
        /\ UNCHANGED <<papi_read_sem, papireading_sem, resume_sem_sources>>
        /\ values' = [values EXCEPT ![c] = sample]
    BY <1>19 DEF ReadCounters
  <2>2. pc'[c] \in {"inform", "inform_asleep"}
    BY <1>2, <2>1
  <2>3. One(Reads(c)') = One(Reads(c))
    BY <2>1, <2>2 DEF Reads, One
  <2>4. Requests(c)' = Requests(c)
    BY <2>1, <2>3 DEF Requests, TriggersOf
  <2>5. values'[c] = sample' /\ \A d \in Core \ {c} : values'[d] = values[d]
    BY <1>5, <2>1 DEF RestOK
  <2> QED BY <1>7, <2>1, <2>4, <2>5
<1>20. CASE InformPAPIReadingFinish(c) \/ InformAsleep(c)
  <2>1. /\ pc[c] \in {"inform", "inform_asleep"}
        /\ Goto(c, "suspend") \/ Goto(c, "asleep")
        /\ papireading_sem' = Up(papireading_sem, c)
        /\ UNCHANGED <<papi_read_sem, values, resume_sem_sources>>
    BY <1>20 DEF InformPAPIReadingFinish, InformAsleep
  <2>2. pc'[c] \in {"suspend", "asleep"}
    BY <1>2, <2>1
  <2>3. /\ papireading_sem'[c] = papireading_sem[c] + 1
        /\ \A d \in Core \ {c} : papireading_sem'[d] = papireading_sem[d]
    BY <2>1 DEF Up, RestOK
  <2>4. One(Reads(c)) = 1 /\ One(Reads(c)') = 0
    BY <2>1, <2>2 DEF Reads, One
  <2>5. TriggersOf(c)' = TriggersOf(c)
    BY <2>1 DEF TriggersOf
  <2>6. Requests(c)' = Requests(c)
    BY <2>1, <2>3, <2>4, <2>5, ReadTypes DEF Requests
  <2>7. Prompt(c) => values'[c] = sample'
    BY <1>5, <2>1 DEF Prompt, HasRead
  <2> QED BY <1>7, <2>1, <2>3, <2>6, <2>7
<1>21. CASE TakeSource(c)
  <2>1. /\ pc[c] = "resumed" /\ UNCHANGED <<papi_read_sem, papireading_sem, values>>
        /\ resume_sem_sources' = [resume_sem_sources EXCEPT ![c] = Tail(@)]
    BY <1>21 DEF TakeSource
  <2>2. Len(resume_sem_sources[c]) > 0 /\ resume_sem_sources[c] \in Seq(Source)
    BY <2>1, SourceThere DEF ResumeInv, ResumeTypes
  <2>3. /\ resume_sem_sources'[c] = Tail(resume_sem_sources[c])
        /\ \A d \in Core \ {c} : resume_sem_sources'[d] = resume_sem_sources[d]
    BY <2>1 DEF ResumeInv, ResumeTypes
  <2>4. /\ TriggersOf(c) = TriggersOf(c)' + One(Head(resume_sem_sources[c]) = "TEMPWATCHER")
        /\ TriggersOf(c)' \in Nat
    <3>1. Tail(resume_sem_sources[c]) \in Seq(Source)
      BY <2>2
    <3>2. Cardinality(Listed(resume_sem_sources'[c], "TEMPWATCHER")) \in Nat
      BY <2>3, <3>1, ListedFinite
    <3>3. Cardinality(Listed(resume_sem_sources[c], "TEMPWATCHER"))
            = Cardinality(Listed(resume_sem_sources'[c], "TEMPWATCHER"))
                + One(Head(resume_sem_sources[c]) = "TEMPWATCHER")
      BY <2>2, <2>3, ListedTail
    <3> QED BY <3>2, <3>3 DEF TriggersOf
  <2>5. One(Reads(c)) = 0
    BY <2>1 DEF Reads, One
  <2>6. One(Reads(c)') = One(Head(resume_sem_sources[c]) = "TEMPWATCHER")
        /\ (HasRead(c)' <=> HasRead(c))
    <3>1. CASE Head(resume_sem_sources[c]) = "TEMPWATCHER"
      <4>1. pc'[c] = "read_asleep"
        BY <1>2, <1>21, <3>1 DEF TakeSource
      <4> QED BY <2>1, <3>1, <4>1 DEF Reads, HasRead, One
    <3>2. CASE Head(resume_sem_sources[c]) # "TEMPWATCHER"
      <4>1. pc'[c] = AfterCheck(c)
        BY <1>2, <1>21, <3>2 DEF TakeSource, CheckReturns
      <4> QED BY <1>9, <2>1, <3>2, <4>1 DEF Reads, HasRead, One
    <3> QED BY <3>1, <3>2
  <2>7. Requests(c)' = Requests(c)
    <3>1. One(Head(resume_sem_sources[c]) = "TEMPWATCHER") \in Nat
      BY DEF One
    <3>2. papi_read_sem'[c] = papi_read_sem[c] /\ papireading_sem'[c] = papireading_sem[c]
      BY <2>1
    <3> QED BY <2>4, <2>5, <2>6, <3>1, <3>2, ReadTypes DEF Requests
  <2> QED BY <1>5, <1>6, <1>7, <2>1, <2>3, <2>6, <2>7 DEF Prompt
<1> QED
  BY <1>10, <1>11, <1>12, <1>13, <1>14, <1>15, <1>16, <1>17, <1>18, <1>19, <1>20, <1>21 DEF Worker

(* A core that has no request has nothing to answer. *)
LEMMA NothingRead ==
  ASSUME ResumeInv, RestOK, NEW c \in Core, Requests(c) = 0
  PROVE  ~HasRead(c) /\ One(Reads(c)) = 0 /\ papireading_sem[c] = 0
<1>1. One(Reads(c)) = 0 /\ papireading_sem[c] = 0
  BY ReadTypes DEF Requests
<1>2. ~Reads(c)
  BY <1>1 DEF One
<1> QED BY <1>1, <1>2 DEF HasRead, Reads

(* A step of a caller touches the requests of one core k at most. *)
LEMMA OneCoreReads ==
  ASSUME ResumeInv, RestOK, ReadInv, NEW k \in Core,
         \A d \in Core : pc'[d] = pc[d], sample' = sample, late \subseteq late',
         \A d \in Core \ {k} : /\ papi_read_sem'[d] = papi_read_sem[d]
                               /\ papireading_sem'[d] = papireading_sem[d]
                               /\ TriggersOf(d)' = TriggersOf(d)
                               /\ values'[d] = values[d]
                               /\ Asked(d)' <=> Asked(d)
                               /\ Answered(d)' => Answered(d),
         k \notin late' /\ Prompt(k) => Prompt(k)'
  PROVE  ReadInv'
<1>1. ASSUME NEW d \in Core \ late', d # k PROVE Prompt(d)'
  <2>1. One(Reads(d)') = One(Reads(d))
    BY <1>1 DEF Reads, One
  <2>2. Requests(d)' = Requests(d)
    BY <1>1, <2>1 DEF Requests
  <2>3. HasRead(d)' <=> HasRead(d)
    BY <1>1 DEF HasRead
  <2>4. Prompt(d)
    BY <1>1 DEF ReadInv
  <2>5. /\ values'[d] = values[d] /\ (Asked(d)' <=> Asked(d))
        /\ Answered(d)' => Answered(d)
    BY <1>1
  <2> QED BY <2>2, <2>3, <2>4, <2>5 DEF Prompt
<1>2. ASSUME k \notin late' PROVE Prompt(k)'
  BY <1>2 DEF ReadInv
<1> QED BY <1>1, <1>2 DEF ReadInv

(* A step that leaves the requests of all cores as they are. *)
LEMMA NoCoreReads ==
  ASSUME ResumeInv, RestOK, ReadInv, \A d \in Core : pc'[d] = pc[d],
         UNCHANGED <<papi_read_sem, papireading_sem, values, sample, late>>,
         \A d \in Core : /\ TriggersOf(d)' = TriggersOf(d)
                         /\ Asked(d)' <=> Asked(d)
                         /\ Answered(d)' => Answered(d)
  PROVE  ReadInv'
<1>1. ASSUME NEW d \in Core \ late' PROVE Prompt(d)'
  <2>1. One(Reads(d)') = One(Reads(d)) /\ (HasRead(d)' <=> HasRead(d))
    BY <1>1 DEF Reads, HasRead, One
  <2>2. Requests(d)' = Requests(d)
    BY <1>1, <2>1 DEF Requests
  <2>3. Prompt(d)
    BY <1>1 DEF ReadInv
  <2> QED BY <1>1, <2>1, <2>2, <2>3 DEF Prompt
<1> QED BY <1>1 DEF ReadInv

LEMMA AppendTriggers ==
  ASSUME ResumeInv, NEW c \in Core, NEW x \in Source,
         resume_sem_sources' = [resume_sem_sources EXCEPT ![c] = Append(@, x)]
  PROVE  /\ \A d \in Core \ {c} : TriggersOf(d)' = TriggersOf(d)
         /\ TriggersOf(c)' = TriggersOf(c) + One(x = "TEMPWATCHER")
         /\ TriggersOf(c) \in Nat
<1>1. /\ resume_sem_sources[c] \in Seq(Source)
      /\ resume_sem_sources'[c] = Append(resume_sem_sources[c], x)
      /\ \A d \in Core \ {c} : resume_sem_sources'[d] = resume_sem_sources[d]
  BY DEF ResumeInv, ResumeTypes
<1>2. Cardinality(Listed(Append(resume_sem_sources[c], x), "TEMPWATCHER"))
        = Cardinality(Listed(resume_sem_sources[c], "TEMPWATCHER")) + One(x = "TEMPWATCHER")
  BY <1>1, ListedAppend
<1> QED BY <1>1, <1>2, ListedFinite DEF TriggersOf

(* What the power manager and main list is no request. *)
LEMMA SignalReads ==
  ASSUME ResumeInv, RestOK, ReadInv, NEW t \in {PowerManager, Main}, NEW l, Goto(t, l),
         at'[TempWatcher] = at[TempWatcher],
         UNCHANGED <<papi_read_sem, papireading_sem, values, sample, late>>,
         NEW x \in {"PROCESSOR", "POWERMANAGER"},
         resume_sem_sources' = resume_sem_sources \/ PushSource(t, x)
  PROVE  ReadInv'
<1>1. /\ pc \in [Thread -> Label] /\ Core \subseteq Thread /\ TempWatcher \in Thread
      /\ t # TempWatcher /\ at[t] \in Core /\ \A d \in Core : d # t
  BY CallersAssumption DEF ResumeInv, ResumeTypes, Thread, Caller
<1>2. (\A d \in Core : pc'[d] = pc[d]) /\ pc'[TempWatcher] = pc[TempWatcher]
  BY <1>1 DEF Goto
<1>3. \A d \in Core : (Asked(d)' <=> Asked(d)) /\ (Answered(d)' <=> Answered(d))
  BY <1>2 DEF Asked, Answered
<1>4. \A d \in Core : TriggersOf(d)' = TriggersOf(d)
  <2>1. CASE resume_sem_sources' = resume_sem_sources
    BY <2>1 DEF TriggersOf
  <2>2. CASE PushSource(t, x)
    <3>1. x \in Source /\ One(x = "TEMPWATCHER") = 0
      BY DEF Source, One
    <3>2. PICK c \in Core : c = at[t]
      BY <1>1
    <3>3. resume_sem_sources' = [resume_sem_sources EXCEPT ![c] = Append(@, x)]
      BY <2>2, <3>2 DEF PushSource
    <3>4. /\ \A d \in Core \ {c} : TriggersOf(d)' = TriggersOf(d)
          /\ TriggersOf(c)' = TriggersOf(c) + One(x = "TEMPWATCHER")
          /\ TriggersOf(c) \in Nat
      BY <3>1, <3>3, AppendTriggers
    <3> QED BY <3>1, <3>4
  <2> QED BY <2>1, <2>2
<1> QED BY <1>2, <1>3, <1>4, NoCoreReads

LEMMA SignallersRead ==
  ASSUME ResumeInv, RestOK, ReadInv, PowerManagerNext \/ EndRun \/ JoinNext
  PROVE  ReadInv'
<1>1. at \in [Caller -> Core] /\ TempWatcher \in Caller /\ PowerManager # TempWatcher
      /\ Main # TempWatcher
  BY CallersAssumption DEF ResumeInv, ResumeTypes, Caller
<1> USE DEF signalVars, papiVars, tempVars
<1>2. CASE PowerManagerNext
  <2>1. ASSUME NEW c \in Core, Deactivate(c) \/ Activate(c) PROVE ReadInv'
    <3>1. /\ UNCHANGED <<papi_read_sem, papireading_sem, values, sample, late, resume_sem_sources>>
          /\ at' = [at EXCEPT ![PowerManager] = c] /\ \E l : Goto(PowerManager, l)
      BY <2>1 DEF Deactivate, Activate
    <3> QED BY <1>1, <3>1, SignalReads
  <2>2. CASE SuspendExecution \/ ActivatePush \/ ActivatePost \/ PowerManagerExit
    <3>1. /\ UNCHANGED <<papi_read_sem, papireading_sem, values, sample, late, at>>
          /\ \E l : Goto(PowerManager, l)
          /\ resume_sem_sources' = resume_sem_sources \/ PushSource(PowerManager, "POWERMANAGER")
      BY <2>2 DEF SuspendExecution, ActivatePush, ActivatePost, PowerManagerExit
    <3> QED BY <1>1, <3>1, SignalReads
  <2> QED BY <1>2, <2>1, <2>2 DEF PowerManagerNext
<1>3. CASE EndRun \/ JoinNext
  <2>1. /\ UNCHANGED <<papi_read_sem, papireading_sem, values, sample, late>>
        /\ at' = at \/ at' = [at EXCEPT ![Main] = @ + 1]
        /\ \E l : Goto(Main, l)
        /\ resume_sem_sources' = resume_sem_sources \/ PushSource(Main, "PROCESSOR")
    BY <1>3 DEF EndRun, JoinNext, BeginJoin, JoinPush, JoinPost, JoinStop, JoinStopPost,
                JoinStopLoad, JoinReturns
  <2>2. at'[TempWatcher] = at[TempWatcher]
    BY <1>1, <2>1
  <2> QED BY <2>1, <2>2, SignalReads
<1> QED BY <1>2, <1>3

(* Where the watcher is after a core: at the next one, or past the last.    *)
LEMMA NextCoreCases ==
  ASSUME ResumeInv, NEW l, NEW m, NextCore(l, m), NEW k \in Core, k = at[TempWatcher]
  PROVE  /\ \A d \in Core : pc'[d] = pc[d]
         /\ \/ pc'[TempWatcher] = l /\ at'[TempWatcher] = k + 1
            \/ pc'[TempWatcher] = m /\ at'[TempWatcher] = 0 /\ \A d \in Core : d <= k
<1>1. /\ pc \in [Thread -> Label] /\ at \in [Caller -> Core] /\ Core \subseteq Thread
      /\ TempWatcher \in Thread /\ TempWatcher \in Caller /\ \A d \in Core : d # TempWatcher
  BY CallersAssumption DEF ResumeInv, ResumeTypes, Thread, Caller
<1>2. CASE k + 1 \in Core
  BY <1>1, <1>2 DEF NextCore, Goto
<1>3. CASE k + 1 \notin Core
  <2>1. \A d \in Core : d <= k
    BY <1>3, CoresAssumption DEF Core
  <2> QED BY <1>1, <1>3, <2>1 DEF NextCore, Goto
<1> QED BY <1>2, <1>3

LEMMA WatcherReads ==
  ASSUME ResumeInv, RestOK, ReadInv, TempWatcherNext
  PROVE  ReadInv'
<1>1. /\ pc \in [Thread -> Label] /\ at \in [Caller -> Core] /\ Core \subseteq Thread
      /\ TempWatcher \in Thread /\ TempWatcher \in Caller /\ \A d \in Core : d # TempWatcher
  BY CallersAssumption DEF ResumeInv, ResumeTypes, Thread, Caller
<1>2. PICK k \in Core : k = at[TempWatcher]
  BY <1>1
<1>3. k \in Nat /\ \A d \in Core : d \in Nat
  BY CoresAssumption DEF Core
<1>4. ASSUME NEW l, Goto(TempWatcher, l)
      PROVE  pc'[TempWatcher] = l /\ \A d \in Core : pc'[d] = pc[d]
  BY <1>1, <1>4 DEF Goto
<1>5. ASSUME UNCHANGED resume_sem_sources PROVE \A d \in Core : TriggersOf(d)' = TriggersOf(d)
  BY <1>5 DEF TriggersOf
(* A core not asked yet has no request. *)
<1>6. ASSUME pc[TempWatcher] \in {"clear", "trigger"}, Prompt(k)
      PROVE  Requests(k) = 0 /\ ~HasRead(k)
  <2>1. ~Asked(k)
    BY <1>2, <1>3, <1>6 DEF Asked
  <2> QED BY <1>6, <2>1, NothingRead DEF Prompt
<1> USE DEF signalVars, papiVars, tempVars
<1>7. CASE StartSample
  <2>1. /\ pc[TempWatcher] = "sample" /\ Goto(TempWatcher, "clear")
        /\ at' = [at EXCEPT ![TempWatcher] = 0]
        /\ UNCHANGED <<papi_read_sem, papireading_sem, resume_sem_sources, late>>
    BY <1>7 DEF StartSample
  <2>2. /\ pc'[TempWatcher] = "clear" /\ at'[TempWatcher] = 0
        /\ \A d \in Core : pc'[d] = pc[d]
    BY <1>1, <1>4, <2>1
  <2>3. ASSUME NEW d \in Core \ late PROVE Prompt(d)'
    <3>1. Requests(d) = 0
      BY <2>1, <2>3 DEF ReadInv, Prompt, Asked
    <3>2. ~HasRead(d) /\ One(Reads(d)) = 0
      BY <2>3, <3>1, NothingRead
    <3>3. ~HasRead(d)' /\ One(Reads(d)') = One(Reads(d))
      BY <2>1, <2>2, <2>3, <3>2 DEF HasRead, Reads, One
    <3>4. Requests(d)' = 0
      BY <1>5, <2>1, <2>3, <3>1, <3>3 DEF Requests
    <3>5. ~Answered(d)'
      BY <2>2 DEF Answered
    <3> QED BY <3>3, <3>4, <3>5 DEF Prompt
  <2> QED BY <2>1, <2>3 DEF ReadInv
<1>8. CASE ClearCounterValues
  <2>1. /\ pc[TempWatcher] = "clear" /\ Goto(TempWatcher, "trigger")
        /\ values' = [values EXCEPT ![k] = 0]
        /\ UNCHANGED <<papi_read_sem, papireading_sem, resume_sem_sources, at, sample, late>>
    BY <1>2, <1>8 DEF ClearCounterValues
  <2>2. pc'[TempWatcher] = "trigger" /\ \A d \in Core : pc'[d] = pc[d]
    BY <1>4, <2>1
  <2>3. \A d \in Core \ {k} : values'[d] = values[d]
    BY <2>1 DEF RestOK
  <2>4. \A d \in Core : (Asked(d)' <=> Asked(d)) /\ ~Answered(d)'
    BY <2>1, <2>2 DEF Asked, Answered
  <2>5. ASSUME Prompt(k) PROVE Prompt(k)'
    <3>1. Requests(k) = 0 /\ ~HasRead(k)
      BY <1>6, <2>1, <2>5
    <3>2. One(Reads(k)') = One(Reads(k)) /\ ~HasRead(k)'
      BY <2>1, <2>2, <3>1 DEF Reads, HasRead, One
    <3>3. Requests(k)' = 0
      BY <1>5, <2>1, <3>1, <3>2 DEF Requests
    <3> QED BY <2>4, <3>2, <3>3 DEF Prompt
  <2> QED BY <1>5, <2>1, <2>2, <2>3, <2>4, <2>5, OneCoreReads
<1>9. CASE TriggerExecuting
  <2>1. /\ pc[TempWatcher] = "trigger" /\ NextCore("clear", "await")
        /\ papi_read_sem' = Up(papi_read_sem, k) \/ papi_read_sem' = papi_read_sem
        /\ UNCHANGED <<papireading_sem, resume_sem_sources, values, sample, late>>
    BY <1>2, <1>9 DEF TriggerExecuting
  <2>2. /\ \A d \in Core : pc'[d] = pc[d]
        /\ \/ pc'[TempWatcher] = "clear" /\ at'[TempWatcher] = k + 1
           \/ pc'[TempWatcher] = "await" /\ at'[TempWatcher] = 0 /\ \A d \in Core : d <= k
    BY <1>2, <2>1, NextCoreCases
  <2>3. /\ \A d \in Core \ {k} : papi_read_sem'[d] = papi_read_sem[d]
        /\ papi_read_sem'[k] \in {papi_read_sem[k], papi_read_sem[k] + 1}
    BY <2>1 DEF Up, RestOK
  <2>4. /\ \A d \in Core \ {k} : Asked(d)' <=> Asked(d)
        /\ \A d \in Core : ~Answered(d)'
        /\ Asked(k)'
    BY <1>2, <1>3, <2>1, <2>2 DEF Asked, Answered
  <2>5. ASSUME Prompt(k) PROVE Prompt(k)'
    <3>1. Requests(k) = 0 /\ ~HasRead(k)
      BY <1>6, <2>1, <2>5
    <3>2. One(Reads(k)') = One(Reads(k)) /\ ~HasRead(k)'
      BY <2>1, <2>2, <3>1 DEF Reads, HasRead, One
    <3>3. Requests(k)' \in {0, 1}
      <4>1. papireading_sem'[k] = papireading_sem[k] /\ TriggersOf(k)' = TriggersOf(k)
        BY <1>5, <2>1
      <4>2. /\ papi_read_sem[k] \in Nat /\ papireading_sem[k] \in Nat
            /\ TriggersOf(k) \in Nat /\ One(Reads(k)) \in Nat
        BY ReadTypes
      <4>3. CASE papi_read_sem'[k] = papi_read_sem[k]
        BY <3>1, <3>2, <4>1, <4>2, <4>3 DEF Requests
      <4>4. CASE papi_read_sem'[k] = papi_read_sem[k] + 1
        <5>1. Requests(k)' = Requests(k) + 1
          BY <3>2, <4>1, <4>2, <4>4 DEF Requests
        <5> QED BY <3>1, <5>1
      <4> QED BY <2>3, <4>3, <4>4
    <3> QED BY <2>4, <3>2, <3>3 DEF Prompt
  <2> QED BY <1>5, <2>1, <2>2, <2>3, <2>4, <2>5, OneCoreReads
<1>10. CASE TriggerSleeping
  <2>1. /\ pc[TempWatcher] = "trigger" /\ Goto(TempWatcher, "resume_post")
        /\ resume_sem_sources' = [resume_sem_sources EXCEPT ![k] = Append(@, "TEMPWATCHER")]
        /\ UNCHANGED <<papi_read_sem, papireading_sem, at, values, sample, late>>
    BY <1>2, <1>10 DEF TriggerSleeping, PushSource
  <2>2. pc'[TempWatcher] = "resume_post" /\ \A d \in Core : pc'[d] = pc[d]
    BY <1>4, <2>1
  <2>3. "TEMPWATCHER" \in Source /\ One("TEMPWATCHER" = "TEMPWATCHER") = 1
    BY DEF Source, One
  <2>4. /\ \A d \in Core \ {k} : TriggersOf(d)' = TriggersOf(d)
        /\ TriggersOf(k)' = TriggersOf(k) + 1
    BY <2>1, <2>3, AppendTriggers
  <2>5. /\ \A d \in Core \ {k} : Asked(d)' <=> Asked(d)
        /\ \A d \in Core : ~Answered(d)'
        /\ Asked(k)'
    BY <1>2, <1>3, <2>1, <2>2 DEF Asked, Answered
  <2>6. ASSUME Prompt(k) PROVE Prompt(k)'
    <3>1. Requests(k) = 0 /\ ~HasRead(k)
      BY <1>6, <2>1, <2>6
    <3>2. One(Reads(k)') = One(Reads(k)) /\ ~HasRead(k)'
      BY <2>1, <2>2, <3>1 DEF Reads, HasRead, One
    <3>3. Requests(k)' = 1
      <4>1. papireading_sem'[k] = papireading_sem[k] /\ papi_read_sem'[k] = papi_read_sem[k]
        BY <2>1
      <4> QED BY <2>4, <3>1, <3>2, <4>1, ReadTypes DEF Requests
    <3> QED BY <2>5, <3>2, <3>3 DEF Prompt
  <2> QED BY <2>1, <2>2, <2>4, <2>5, <2>6, OneCoreReads
<1>11. CASE TriggerPost
  <2>1. /\ pc[TempWatcher] = "resume_post" /\ NextCore("clear", "await")
        /\ UNCHANGED <<papi_read_sem, papireading_sem, resume_sem_sources, values, sample, late>>
    BY <1>11 DEF TriggerPost
  <2>2. /\ \A d \in Core : pc'[d] = pc[d]
        /\ \/ pc'[TempWatcher] = "clear" /\ at'[TempWatcher] = k + 1
           \/ pc'[TempWatcher] = "await" /\ at'[TempWatcher] = 0 /\ \A d \in Core : d <= k
    BY <1>2, <2>1, NextCoreCases
  <2>3. \A d \in Core : (Asked(d)' <=> Asked(d)) /\ ~Answered(d)'
    BY <1>2, <1>3, <2>1, <2>2 DEF Asked, Answered
  <2> QED BY <1>5, <2>1, <2>2, <2>3, NoCoreReads
(* The watcher leaves core k behind, and the sample after the last one. *)
<1>12. ASSUME pc[TempWatcher] = "await", NEW m \in {"get", "sample"}, NextCore("await", m)
       PROVE  /\ \A d \in Core : pc'[d] = pc[d]
              /\ \A d \in Core \ {k} : (Asked(d)' <=> Asked(d)) /\ (Answered(d)' => Answered(d))
              /\ Asked(k) /\ ~Asked(k)'
  <2>1. /\ \A d \in Core : pc'[d] = pc[d]
        /\ \/ pc'[TempWatcher] = "await" /\ at'[TempWatcher] = k + 1
           \/ pc'[TempWatcher] = m /\ at'[TempWatcher] = 0 /\ \A d \in Core : d <= k
    BY <1>2, <1>12, NextCoreCases
  <2> QED BY <1>2, <1>3, <1>12, <2>1 DEF Asked, Answered
<1>13. CASE TakeReading
  <2>1. /\ pc[TempWatcher] = "await" /\ \E m \in {"get", "sample"} : NextCore("await", m)
        /\ papireading_sem[k] > 0 /\ papireading_sem' = Down(papireading_sem, k)
        /\ UNCHANGED <<papi_read_sem, resume_sem_sources, values, sample, late>>
    BY <1>2, <1>13 DEF TakeReading
  <2>2. /\ \A d \in Core : pc'[d] = pc[d]
        /\ \A d \in Core \ {k} : (Asked(d)' <=> Asked(d)) /\ (Answered(d)' => Answered(d))
    BY <1>12, <2>1
  <2>3. /\ \A d \in Core \ {k} : papireading_sem'[d] = papireading_sem[d]
        /\ papireading_sem'[k] = papireading_sem[k] - 1
    BY <2>1 DEF Down, RestOK
  <2>4. ASSUME Prompt(k) PROVE Prompt(k)'
    <3>1. values'[k] = sample'
      BY <2>1, <2>4 DEF Prompt, HasRead
    <3>2. One(Reads(k)') = One(Reads(k))
      BY <2>2 DEF Reads, One
    <3>3. Requests(k)' = 0
      <4>1. papi_read_sem'[k] = papi_read_sem[k] /\ TriggersOf(k)' = TriggersOf(k)
        BY <1>5, <2>1
      <4> QED BY <2>1, <2>3, <2>4, <3>2, <4>1, ReadTypes DEF Requests, Prompt
    <3> QED BY <3>1, <3>3 DEF Prompt
  <2> QED BY <1>5, <2>1, <2>2, <2>3, <2>4, OneCoreReads
<1>14. CASE ReadingTimeout
  <2>1. /\ pc[TempWatcher] = "await" /\ NextCore("await", "sample") /\ late' = late \cup {k}
        /\ UNCHANGED <<papi_read_sem, papireading_sem, resume_sem_sources, values, sample>>
    BY <1>2, <1>14 DEF ReadingTimeout
  <2>2. /\ \A d \in Core : pc'[d] = pc[d]
        /\ \A d \in Core \ {k} : (Asked(d)' <=> Asked(d)) /\ (Answered(d)' => Answered(d))
    BY <1>12, <2>1
  <2>3. k \in late' /\ late \subseteq late'
    BY <2>1
  <2> QED BY <1>5, <2>1, <2>2, <2>3, OneCoreReads
<1>15. CASE GetPAPIValues \/ TempWatcherExit
  <2>1. /\ pc[TempWatcher] \in {"get", "sample"}
        /\ Goto(TempWatcher, "sample") \/ Goto(TempWatcher, "exit")
        /\ UNCHANGED <<papi_read_sem, papireading_sem, resume_sem_sources, values, sample, late>>
    BY <1>15 DEF GetPAPIValues, TempWatcherExit
  <2>2. pc'[TempWatcher] \in {"sample", "exit"} /\ \A d \in Core : pc'[d] = pc[d]
    BY <1>4, <2>1
  <2>3. \A d \in Core : (Asked(d)' <=> Asked(d)) /\ ~Answered(d)'
    BY <2>1, <2>2 DEF Asked, Answered
  <2> QED BY <1>5, <2>1, <2>2, <2>3, NoCoreReads
<1> QED
  BY <1>7, <1>8, <1>9, <1>10, <1>11, <1>13, <1>14, <1>15 DEF TempWatcherNext

LEMMA InitReads == Init => ReadInv
<1> SUFFICES ASSUME Init, NEW c \in Core PROVE Prompt(c)
  BY DEF ReadInv
<1>1. pc[c] = "begin" /\ pc[TempWatcher] = "sample"
  BY CallersAssumption DEF Init, Thread, Caller
<1>2. /\ papi_read_sem[c] = 0 /\ papireading_sem[c] = 0 /\ One(Reads(c)) = 0
      /\ ~HasRead(c) /\ ~Answered(c)
  BY <1>1 DEF Init, Reads, HasRead, Answered, One
<1>3. TriggersOf(c) = 0
  <2>1. Listed(resume_sem_sources[c], "TEMPWATCHER") = {}
    BY DEF Init, Listed
  <2> QED BY <2>1, FS_EmptySet DEF TriggersOf
<1> QED BY <1>2, <1>3 DEF Prompt, Requests

(* For any number of workers and samples: when the watcher reads the values, *)
(* those of every worker that has always answered in time are of this       *)
(* sample, whether the request reached it awake, asleep or in between.      *)
THEOREM PromptReadings == Spec => []PromptReadingsFinished
<1>1. ResumeInv /\ RestOK /\ ReadInv /\ [Next]_vars => ReadInv'
  <2> SUFFICES ASSUME ResumeInv, RestOK, ReadInv, [Next]_vars PROVE ReadInv'
    OBVIOUS
  <2>1. CASE \E c \in Core : Worker(c)
    BY <2>1, WorkerReads
  <2>2. CASE PowerManagerNext \/ EndRun \/ JoinNext
    BY <2>2, SignallersRead
  <2>3. CASE TempWatcherNext
    BY <2>3, WatcherReads
  <2>4. CASE UNCHANGED vars
    BY <2>4 DEF vars, signalVars, papiVars, tempVars, ReadInv, Prompt, Requests, TriggersOf, Reads,
                HasRead, Asked, Answered
  <2> QED BY <2>1, <2>2, <2>3, <2>4 DEF Next, Step
<1>2. ReadInv => PromptReadingsFinished
  BY DEF ReadInv, Prompt, Answered, PromptReadingsFinished
<1> QED BY <1>1, <1>2, InitReads, TypesInvariant, PTL DEF Spec
==============================================================================
