---------------------------- MODULE StartupProofs ----------------------------
(***************************************************************************)
(* Proofs about Startup, for every number of dispatchers and workers.      *)
(***************************************************************************)
EXTENDS Startup, FiniteSetTheorems, TLAPS

USE SizeAssumption DEF Thread, NThreads, TempWatcher, Thermal, PowerManager

(* What main has counted and created, by where it is. *)
CountInv ==
  /\ thread_num = IF main = "construct" THEN 0 ELSE NThreads
  /\ main = "construct" => created = 0
  /\ main = "initialize" => created <= TempWatcher
  /\ main \in {"sleep", "join", "saved"} => created = NThreads
  /\ \A t \in Thread : t > created => pc[t] = "none"

(* What has been joined and recorded. *)
ResultInv ==
  /\ \A i \in 1..joining : pc[JoinOrder(i)] = "exit"
  /\ main = "saved" => joining = NThreads
  /\ \A t \in Thread : CpuTime(t) \in runtimes <=> pc[t] = "exit"
  /\ main = "saved" => CpuTime(Main) \in runtimes /\ \A w \in Worker : JobTime(w) \in runtimes
  /\ main = "saved" => saved = runtimes

IInv == TypeOK /\ CountInv /\ UnitsMatchThreads /\ ResultInv

(* Every thread is joined once: the order of join_all is a permutation. *)
LEMMA JoinOrderOnto ==
  /\ \A i \in Thread : JoinOrder(i) \in Thread
  /\ \A t \in Thread : \E i \in Thread : JoinOrder(i) = t
<1>1. \A i \in Thread : JoinOrder(i) \in Thread
  BY DEF JoinOrder
<1>2. ASSUME NEW t \in Thread PROVE \E i \in Thread : JoinOrder(i) = t
  <2>1. CASE t = PowerManager
    <3>1. JoinOrder(NDispatchers + 3) = t /\ NDispatchers + 3 \in Thread
      BY <2>1 DEF JoinOrder
    <3> QED BY <3>1
  <2>2. CASE t = Thermal
    <3>1. JoinOrder(NDispatchers + 1) = t /\ NDispatchers + 1 \in Thread
      BY <2>2 DEF JoinOrder
    <3> QED BY <3>1
  <2>3. CASE t = TempWatcher
    <3>1. JoinOrder(NDispatchers + 2) = t /\ NDispatchers + 2 \in Thread
      BY <2>3 DEF JoinOrder
    <3> QED BY <3>1
  <2>4. CASE t \notin {PowerManager, Thermal, TempWatcher}
    <3>1. JoinOrder(t) = t
      BY <2>4 DEF JoinOrder
    <3> QED BY <3>1
  <2> QED BY <2>1, <2>2, <2>3, <2>4
<1> QED BY <1>1, <1>2

(* The threads are finitely many, and so are those past a barrier. *)
LEMMA ThreadsFinite ==
  /\ IsFiniteSet(Thread) /\ Cardinality(Thread) = NThreads
  /\ \A S \in SUBSET Thread : IsFiniteSet(S) /\ Cardinality(S) \in Nat
<1>1. IsFiniteSet(Thread) /\ Cardinality(Thread) = NThreads
  BY FS_Interval
<1>2. ASSUME NEW S \in SUBSET Thread PROVE IsFiniteSet(S) /\ Cardinality(S) \in Nat
  BY <1>1, FS_Subset, FS_CardinalityType
<1> QED BY <1>1, <1>2

(* One thread more in a set of threads. *)
LEMMA OneMore ==
  ASSUME NEW S \in SUBSET Thread, NEW t \in Thread, t \notin S
  PROVE  Cardinality(S \cup {t}) = Cardinality(S) + 1 /\ Cardinality(S) \in Nat
<1>1. IsFiniteSet(S) /\ Cardinality(S) \in Nat
  BY ThreadsFinite
<1> QED BY <1>1, FS_AddElement

(* Every entry is one, and those of different threads differ. *)
LEMMA EntriesDiffer ==
  /\ \A t \in Thread \cup {Main} : CpuTime(t) \in Entries
  /\ \A w \in Worker : JobTime(w) \in Entries
  /\ \A s, t \in Thread : CpuTime(s) = CpuTime(t) => s = t
  /\ \A t \in Thread : CpuTime(t) # CpuTime(Main)
  /\ \A t \in Thread, w \in Worker : CpuTime(t) # JobTime(w)
BY DEF Entries, CpuTime, JobTime, Main

LEMMA NobodyPast == ASSUME Init PROVE 0 + Cardinality(PastInit) = 0 /\ 0 + Cardinality(PastRunning) = 0
<1>1. PastInit = {} /\ PastRunning = {}
  BY DEF Init, PastInit, PastRunning
<1> QED BY <1>1, FS_EmptySet

(* All units of a barrier are posted at once, when nobody is past it. *)
LEMMA AllPosted ==
  ASSUME NEW sem, NEW c, NEW n \in Nat, sem \in Nat, c \in Nat, sem + c = 0
  PROVE  (sem + n) + c = n
OBVIOUS

LEMMA InitInv == Init => IInv
<1> SUFFICES ASSUME Init PROVE IInv
  OBVIOUS
<1>1. TypeOK
  <2>1. /\ thread_num \in Nat /\ rtcinit_sem \in Nat /\ init_sem \in Nat /\ running_sem \in Nat
        /\ created \in 0..NThreads /\ joining \in 0..NThreads
    BY DEF Init
  <2>2. pc \in [Thread -> ThreadLabel]
    BY DEF Init, ThreadLabel
  <2>3. main \in MainLabel
    BY DEF Init, MainLabel
  <2> QED BY <2>1, <2>2, <2>3 DEF Init, TypeOK
<1>2. CountInv
  BY DEF Init, CountInv
<1>3. UnitsMatchThreads
  <2>1. 0 + Cardinality(PastInit) = 0 /\ 0 + Cardinality(PastRunning) = 0
    BY NobodyPast
  <2>2. init_sem = 0 /\ running_sem = 0 /\ ~InitOpen /\ ~RunningOpen
    BY DEF Init, InitOpen, RunningOpen
  <2> QED BY <2>1, <2>2 DEF UnitsMatchThreads
<1>4. ResultInv
  BY DEF Init, ResultInv, Main
<1> QED BY <1>1, <1>2, <1>3, <1>4 DEF IInv

-----------------------------------------------------------------------------
(* Steps that move no thread across a barrier keep the counts. *)
LEMMA SameCounts ==
  ASSUME UnitsMatchThreads, PastInit' = PastInit, PastRunning' = PastRunning,
         init_sem' = init_sem, running_sem' = running_sem,
         InitOpen' = InitOpen, RunningOpen' = RunningOpen
  PROVE  UnitsMatchThreads'
BY DEF UnitsMatchThreads

LEMMA MainKeeps == ASSUME IInv, MainStep \/ EndRun PROVE IInv'
<1> USE DEF Main, semVars, resultVars
<1>1. CASE Construct
  <2>1. TypeOK' BY <1>1 DEF IInv, TypeOK, Construct, MainLabel
  <2>2. CountInv' BY <1>1 DEF IInv, TypeOK, CountInv, Construct
  <2>3. UnitsMatchThreads'
    <3>1. PastInit' = PastInit /\ PastRunning' = PastRunning BY <1>1 DEF Construct, PastInit, PastRunning
    <3> QED BY <1>1, <3>1 DEF IInv, Construct, UnitsMatchThreads, InitOpen, RunningOpen
  <2>4. ResultInv' BY <1>1 DEF IInv, ResultInv, Construct
  <2> QED BY <2>1, <2>2, <2>3, <2>4 DEF IInv
<1>2. CASE Trigger
  <2>0. created + 1 \in Thread /\ pc' = [pc EXCEPT ![created + 1] = "start"] /\ pc[created + 1] = "none"
        /\ created \in Nat /\ created < TriggerLimit /\ main \in {"initialize", "simulate"}
    BY <1>2 DEF IInv, TypeOK, CountInv, Trigger, TriggerLimit, Goto
  <2>1. TypeOK'
    <3>1. pc' \in [Thread -> ThreadLabel] BY <2>0 DEF IInv, TypeOK, ThreadLabel
    <3> QED BY <1>2, <2>0, <3>1 DEF IInv, TypeOK, Trigger
  <2>2. CountInv'
    <3>1. main = "initialize" => created + 1 <= TempWatcher BY <2>0 DEF TriggerLimit
    <3>2. ASSUME NEW t \in Thread, t > created + 1 PROVE pc'[t] = "none"
      BY <2>0, <3>2 DEF IInv, TypeOK, CountInv
    <3> QED BY <1>2, <2>0, <3>1, <3>2 DEF IInv, CountInv, Trigger
  <2>3. UnitsMatchThreads'
    <3>1. PastInit' = PastInit /\ PastRunning' = PastRunning
      BY <2>0 DEF IInv, TypeOK, PastInit, PastRunning
    <3> QED BY <1>2, <3>1, SameCounts DEF IInv, Trigger, InitOpen, RunningOpen
  <2>4. ResultInv'
    <3>1. ASSUME NEW t \in Thread PROVE pc'[t] = "exit" <=> pc[t] = "exit"
      BY <2>0 DEF IInv, TypeOK
    <3>2. ASSUME NEW i \in 1..joining PROVE pc'[JoinOrder(i)] = "exit"
      <4>1. i \in Thread BY DEF IInv, TypeOK
      <4>2. JoinOrder(i) \in Thread BY <4>1, JoinOrderOnto
      <4> QED BY <3>1, <4>2 DEF IInv, ResultInv
    <3> QED BY <1>2, <3>1, <3>2 DEF IInv, ResultInv, Trigger
  <2> QED BY <2>1, <2>2, <2>3, <2>4 DEF IInv
<1>3. CASE OpenInit
  <2>1. TypeOK' BY <1>3 DEF IInv, TypeOK, OpenInit, MainLabel
  <2>2. CountInv' BY <1>3 DEF IInv, TypeOK, CountInv, OpenInit
  <2>3. UnitsMatchThreads'
    <3>1. PastInit' = PastInit /\ PastRunning' = PastRunning BY <1>3 DEF OpenInit, PastInit, PastRunning
    <3>2. PastInit \in SUBSET Thread BY DEF PastInit
    <3>3. Cardinality(PastInit) \in Nat BY <3>2, ThreadsFinite
    <3>4. init_sem + Cardinality(PastInit) = 0 /\ thread_num = NThreads /\ init_sem \in Nat
      BY <1>3 DEF IInv, TypeOK, CountInv, UnitsMatchThreads, OpenInit, InitOpen
    <3>5. NThreads \in Nat /\ init_sem' = init_sem + NThreads BY <1>3, <3>4 DEF OpenInit
    <3>6. init_sem' + Cardinality(PastInit) = NThreads BY <3>3, <3>4, <3>5, AllPosted
    <3> QED BY <1>3, <3>1, <3>6 DEF IInv, OpenInit, UnitsMatchThreads, InitOpen, RunningOpen
  <2>4. ResultInv' BY <1>3 DEF IInv, ResultInv, OpenInit
  <2> QED BY <2>1, <2>2, <2>3, <2>4 DEF IInv
<1>4. CASE StartRun
  <2>1. TypeOK' BY <1>4 DEF IInv, TypeOK, CountInv, StartRun, MainLabel
  <2>2. CountInv' BY <1>4 DEF IInv, TypeOK, CountInv, StartRun
  <2>3. UnitsMatchThreads'
    <3>1. PastInit' = PastInit /\ PastRunning' = PastRunning BY <1>4 DEF StartRun, PastInit, PastRunning
    <3>2. PastRunning \in SUBSET Thread BY DEF PastRunning
    <3>3. Cardinality(PastRunning) \in Nat BY <3>2, ThreadsFinite
    <3>4. running_sem + Cardinality(PastRunning) = 0 /\ thread_num = NThreads /\ running_sem \in Nat
      BY <1>4 DEF IInv, TypeOK, CountInv, UnitsMatchThreads, StartRun, InitOpen, RunningOpen
    <3>5. NThreads \in Nat /\ running_sem' = running_sem + NThreads BY <1>4, <3>4 DEF StartRun
    <3>6. running_sem' + Cardinality(PastRunning) = NThreads BY <3>3, <3>4, <3>5, AllPosted
    <3> QED BY <1>4, <3>1, <3>6 DEF IInv, StartRun, UnitsMatchThreads, InitOpen, RunningOpen
  <2>4. ResultInv' BY <1>4 DEF IInv, ResultInv, StartRun
  <2> QED BY <2>1, <2>2, <2>3, <2>4 DEF IInv
<1>5. CASE EndRun
  <2>1. TypeOK' BY <1>5 DEF IInv, TypeOK, EndRun, MainLabel
  <2>2. CountInv' BY <1>5 DEF IInv, TypeOK, CountInv, EndRun
  <2>3. UnitsMatchThreads'
    <3>1. PastInit' = PastInit /\ PastRunning' = PastRunning BY <1>5 DEF EndRun, PastInit, PastRunning
    <3> QED BY <1>5, <3>1, SameCounts DEF IInv, EndRun, InitOpen, RunningOpen
  <2>4. ResultInv' BY <1>5 DEF IInv, ResultInv, EndRun
  <2> QED BY <2>1, <2>2, <2>3, <2>4 DEF IInv
<1>6. CASE Join
  <2>1. TypeOK' BY <1>6 DEF IInv, TypeOK, Join
  <2>2. CountInv' BY <1>6 DEF IInv, CountInv, Join
  <2>3. UnitsMatchThreads'
    <3>1. PastInit' = PastInit /\ PastRunning' = PastRunning BY <1>6 DEF Join, PastInit, PastRunning
    <3> QED BY <1>6, <3>1, SameCounts DEF IInv, Join, InitOpen, RunningOpen
  <2>4. ResultInv'
    <3>1. ASSUME NEW i \in 1..(joining + 1) PROVE pc[JoinOrder(i)] = "exit"
      <4>1. CASE i = joining + 1 BY <1>6, <4>1 DEF Join, Joined
      <4>2. CASE i # joining + 1 BY <4>2 DEF IInv, TypeOK, ResultInv
      <4> QED BY <4>1, <4>2
    <3> QED BY <1>6, <3>1 DEF IInv, ResultInv, Join
  <2> QED BY <2>1, <2>2, <2>3, <2>4 DEF IInv
<1>7. CASE SaveResults
  <2>1. TypeOK'
    <3>1. runtimes' \subseteq Entries /\ saved' \subseteq Entries
      BY <1>7, EntriesDiffer DEF IInv, TypeOK, SaveResults
    <3> QED BY <1>7, <3>1 DEF IInv, TypeOK, SaveResults, MainLabel
  <2>2. CountInv' BY <1>7 DEF IInv, CountInv, SaveResults
  <2>3. UnitsMatchThreads'
    <3>1. PastInit' = PastInit /\ PastRunning' = PastRunning BY <1>7 DEF SaveResults, PastInit, PastRunning
    <3> QED BY <1>7, <3>1, SameCounts DEF IInv, SaveResults, InitOpen, RunningOpen
  <2>4. ResultInv'
    <3>1. runtimes' = runtimes \cup {CpuTime(Main)} \cup {JobTime(w) : w \in Worker}
          /\ saved' = runtimes' /\ UNCHANGED <<pc, joining>> /\ joining = NThreads
      BY <1>7 DEF SaveResults
    <3>2. \A t \in Thread : CpuTime(t) \in runtimes' <=> pc[t] = "exit"
      BY <3>1, EntriesDiffer DEF IInv, ResultInv
    <3>3. CpuTime(Main) \in runtimes' /\ \A w \in Worker : JobTime(w) \in runtimes'
      BY <3>1
    <3> QED BY <3>1, <3>2, <3>3 DEF IInv, ResultInv
  <2> QED BY <2>1, <2>2, <2>3, <2>4 DEF IInv
<1> QED BY <1>1, <1>2, <1>3, <1>4, <1>5, <1>6, <1>7 DEF MainStep

(* A step of a thread before its end: it is not joined yet. *)
LEMMA MoveKeepsResults ==
  ASSUME IInv, NEW t \in Thread, NEW l \in ThreadLabel,
         pc' = [pc EXCEPT ![t] = l], pc[t] # "exit", l # "exit",
         UNCHANGED <<joining, runtimes, saved, main>>
  PROVE  ResultInv'
<1>1. ASSUME NEW s \in Thread PROVE pc'[s] = "exit" <=> pc[s] = "exit"
  BY DEF IInv, TypeOK
<1>2. ASSUME NEW i \in 1..joining PROVE pc'[JoinOrder(i)] = "exit"
  <2>1. i \in Thread BY DEF IInv, TypeOK
  <2>2. JoinOrder(i) \in Thread BY <2>1, JoinOrderOnto
  <2> QED BY <1>1, <2>2 DEF IInv, ResultInv
<1> QED BY <1>1, <1>2 DEF IInv, ResultInv

(* A thread that exists stays created, and everybody else where it is. *)
LEMMA MoveKeepsCount ==
  ASSUME IInv, NEW t \in Thread, NEW l \in ThreadLabel,
         pc' = [pc EXCEPT ![t] = l], pc[t] # "none",
         UNCHANGED <<thread_num, created, main>>
  PROVE  CountInv'
BY DEF IInv, TypeOK, CountInv

LEMMA ThreadKeeps == ASSUME IInv, NEW t \in Thread, ThreadStep(t) PROVE IInv'
<1> USE DEF Main, semVars, resultVars
<1>0. ThreadLabel = {"none", "start", "wait_init", "wait_running", "running", "leaving", "exit"}
      /\ pc \in [Thread -> ThreadLabel]
  BY DEF ThreadLabel, IInv, TypeOK
<1>1. CASE Initialise(t)
  <2>0. pc' = [pc EXCEPT ![t] = "wait_init"] /\ pc[t] = "start" BY <1>1 DEF Initialise, Goto
  <2>1. TypeOK'
    <3>1. pc' \in [Thread -> ThreadLabel] BY <1>0, <2>0
    <3>2. rtcinit_sem' \in Nat BY <1>1 DEF IInv, TypeOK, Initialise
    <3> QED BY <1>1, <3>1, <3>2 DEF IInv, TypeOK, Initialise
  <2>2. CountInv' BY <1>0, <1>1, <2>0, MoveKeepsCount DEF Initialise
  <2>3. UnitsMatchThreads'
    <3>1. PastInit' = PastInit /\ PastRunning' = PastRunning BY <1>0, <2>0 DEF PastInit, PastRunning
    <3> QED BY <1>1, <3>1, SameCounts DEF IInv, Initialise, InitOpen, RunningOpen
  <2>4. ResultInv' BY <1>0, <1>1, <2>0, MoveKeepsResults DEF Initialise, resultVars
  <2> QED BY <2>1, <2>2, <2>3, <2>4 DEF IInv
<1>2. CASE WaitInit(t)
  <2>0. pc' = [pc EXCEPT ![t] = "wait_running"] /\ pc[t] = "wait_init" BY <1>2 DEF WaitInit, Goto
  <2>1. TypeOK'
    <3>1. pc' \in [Thread -> ThreadLabel] BY <1>0, <2>0
    <3>2. init_sem' \in Nat BY <1>2 DEF IInv, TypeOK, WaitInit
    <3> QED BY <1>2, <3>1, <3>2 DEF IInv, TypeOK, WaitInit
  <2>2. CountInv' BY <1>0, <1>2, <2>0, MoveKeepsCount DEF WaitInit
  <2>3. UnitsMatchThreads'
    <3>1. PastInit' = PastInit \cup {t} /\ PastRunning' = PastRunning BY <1>0, <2>0 DEF PastInit, PastRunning
    <3>2. PastInit \in SUBSET Thread /\ t \notin PastInit BY <2>0 DEF PastInit
    <3>3. Cardinality(PastInit') = Cardinality(PastInit) + 1 /\ Cardinality(PastInit) \in Nat
      BY <3>1, <3>2, OneMore
    <3>4. init_sem' = init_sem - 1 /\ init_sem \in Nat BY <1>2 DEF IInv, TypeOK, WaitInit
    <3>5. init_sem' + Cardinality(PastInit') = init_sem + Cardinality(PastInit) BY <3>3, <3>4
    <3> QED BY <1>2, <3>1, <3>5 DEF IInv, WaitInit, UnitsMatchThreads, InitOpen, RunningOpen
  <2>4. ResultInv' BY <1>0, <1>2, <2>0, MoveKeepsResults DEF WaitInit, resultVars
  <2> QED BY <2>1, <2>2, <2>3, <2>4 DEF IInv
<1>3. CASE WaitRunning(t)
  <2>0. pc' = [pc EXCEPT ![t] = "running"] /\ pc[t] = "wait_running" BY <1>3 DEF WaitRunning, Goto
  <2>1. TypeOK'
    <3>1. pc' \in [Thread -> ThreadLabel] BY <1>0, <2>0
    <3>2. running_sem' \in Nat BY <1>3 DEF IInv, TypeOK, WaitRunning
    <3> QED BY <1>3, <3>1, <3>2 DEF IInv, TypeOK, WaitRunning
  <2>2. CountInv' BY <1>0, <1>3, <2>0, MoveKeepsCount DEF WaitRunning
  <2>3. UnitsMatchThreads'
    <3>1. PastRunning' = PastRunning \cup {t} /\ PastInit' = PastInit BY <1>0, <2>0 DEF PastInit, PastRunning
    <3>2. PastRunning \in SUBSET Thread /\ t \notin PastRunning BY <2>0 DEF PastRunning
    <3>3. Cardinality(PastRunning') = Cardinality(PastRunning) + 1 /\ Cardinality(PastRunning) \in Nat
      BY <3>1, <3>2, OneMore
    <3>4. running_sem' = running_sem - 1 /\ running_sem \in Nat BY <1>3 DEF IInv, TypeOK, WaitRunning
    <3>5. running_sem' + Cardinality(PastRunning') = running_sem + Cardinality(PastRunning) BY <3>3, <3>4
    <3> QED BY <1>3, <3>1, <3>5 DEF IInv, WaitRunning, UnitsMatchThreads, InitOpen, RunningOpen
  <2>4. ResultInv' BY <1>0, <1>3, <2>0, MoveKeepsResults DEF WaitRunning, resultVars
  <2> QED BY <2>1, <2>2, <2>3, <2>4 DEF IInv
<1>4. CASE Leave(t)
  <2>0. pc' = [pc EXCEPT ![t] = "leaving"] /\ pc[t] = "running" BY <1>4 DEF Leave, Goto
  <2>1. TypeOK'
    <3>1. pc' \in [Thread -> ThreadLabel] BY <1>0, <2>0
    <3> QED BY <1>4, <3>1 DEF IInv, TypeOK, Leave, semVars, resultVars
  <2>2. CountInv' BY <1>0, <1>4, <2>0, MoveKeepsCount DEF Leave
  <2>3. UnitsMatchThreads'
    <3>1. PastInit' = PastInit /\ PastRunning' = PastRunning BY <1>0, <2>0 DEF PastInit, PastRunning
    <3> QED BY <1>4, <3>1, SameCounts DEF IInv, Leave, InitOpen, RunningOpen, semVars
  <2>4. ResultInv' BY <1>0, <1>4, <2>0, MoveKeepsResults DEF Leave, resultVars
  <2> QED BY <2>1, <2>2, <2>3, <2>4 DEF IInv
<1>5. CASE AddRuntime(t)
  <2>0. pc' = [pc EXCEPT ![t] = "exit"] /\ pc[t] = "leaving" BY <1>5 DEF AddRuntime, Goto
  <2>1. TypeOK'
    <3>1. pc' \in [Thread -> ThreadLabel] BY <1>0, <2>0
    <3>2. runtimes' \subseteq Entries BY <1>5, EntriesDiffer DEF IInv, TypeOK, AddRuntime
    <3> QED BY <1>5, <3>1, <3>2 DEF IInv, TypeOK, AddRuntime
  <2>2. CountInv' BY <1>0, <1>5, <2>0, MoveKeepsCount DEF AddRuntime
  <2>3. UnitsMatchThreads'
    <3>1. PastInit' = PastInit /\ PastRunning' = PastRunning BY <1>0, <2>0 DEF PastInit, PastRunning
    <3> QED BY <1>5, <3>1, SameCounts DEF IInv, AddRuntime, InitOpen, RunningOpen, semVars
  <2>4. ResultInv'
    <3>1. ASSUME NEW s \in Thread PROVE pc'[s] = "exit" <=> (pc[s] = "exit" \/ s = t)
      BY <1>0, <2>0
    <3>2. ASSUME NEW i \in 1..joining PROVE pc'[JoinOrder(i)] = "exit" /\ pc[JoinOrder(i)] = "exit"
      <4>1. i \in Thread BY DEF IInv, TypeOK
      <4>2. JoinOrder(i) \in Thread BY <4>1, JoinOrderOnto
      <4> QED BY <3>1, <4>2 DEF IInv, ResultInv
    <3>3. main # "saved"
      <4>1. SUFFICES ASSUME main = "saved" PROVE FALSE OBVIOUS
      <4>2. PICK i \in Thread : JoinOrder(i) = t BY JoinOrderOnto
      <4>3. i \in 1..joining BY <4>1 DEF IInv, ResultInv
      <4> QED BY <2>0, <3>2, <4>2, <4>3
    <3>4. runtimes' = runtimes \cup {CpuTime(t)} /\ joining' = joining /\ main' = main BY <1>5 DEF AddRuntime
    <3>5. ASSUME NEW s \in Thread PROVE CpuTime(s) \in runtimes' <=> pc'[s] = "exit"
      BY <3>1, <3>4, EntriesDiffer DEF IInv, ResultInv
    <3> QED BY <3>1, <3>2, <3>3, <3>4, <3>5 DEF IInv, ResultInv
  <2> QED BY <2>1, <2>2, <2>3, <2>4 DEF IInv
<1> QED BY <1>1, <1>2, <1>3, <1>4, <1>5 DEF ThreadStep, Enter

LEMMA StutterKeeps == ASSUME IInv, UNCHANGED vars PROVE IInv'
<1> USE DEF vars, semVars, resultVars
<1>1. TypeOK' BY DEF IInv, TypeOK
<1>2. CountInv' BY DEF IInv, CountInv
<1>3. UnitsMatchThreads'
  BY DEF IInv, UnitsMatchThreads, PastInit, PastRunning, InitOpen, RunningOpen
<1>4. ResultInv' BY DEF IInv, ResultInv
<1> QED BY <1>1, <1>2, <1>3, <1>4 DEF IInv

LEMMA Inductive == Spec => []IInv
<1>1. IInv /\ [Next]_vars => IInv'
  BY MainKeeps, ThreadKeeps, StutterKeeps DEF Next, Terminated
<1> QED BY InitInv, <1>1, PTL DEF Spec

-----------------------------------------------------------------------------
(* The types of all variables hold in every reachable state. *)
THEOREM TypeCorrect == Spec => []TypeOK
<1>1. IInv => TypeOK BY DEF IInv
<1> QED BY Inductive, <1>1, PTL

(* The barriers of Processor::initialize and simulate admit every thread    *)
(* once: posted units and threads past the barrier always add up.           *)
THEOREM EveryThreadHasItsUnit == Spec => []UnitsMatchThreads
<1>1. IInv => UnitsMatchThreads BY DEF IInv
<1> QED BY Inductive, <1>1, PTL

(* No wrapper enters its loop before all threads exist and the run started. *)
THEOREM NobodyStartsEarly == Spec => []NobodyEarly
<1>1. IInv => NobodyEarly
  <2> SUFFICES ASSUME IInv, NEW t \in PastRunning PROVE created = NThreads /\ RunningOpen
    BY DEF NobodyEarly
  <2>1. PastRunning \in SUBSET Thread BY DEF PastRunning
  <2>2. IsFiniteSet(PastRunning) /\ Cardinality(PastRunning) \in Nat BY <2>1, ThreadsFinite
  <2>3. Cardinality(PastRunning) # 0 BY <2>2, FS_EmptySet
  <2>4. running_sem \in Nat BY DEF IInv, TypeOK
  <2>5. RunningOpen BY <2>2, <2>3, <2>4 DEF IInv, UnitsMatchThreads
  <2> QED BY <2>5 DEF IInv, TypeOK, CountInv, RunningOpen, InitOpen, MainLabel
<1> QED BY Inductive, <1>1, PTL

(* What Statistics::toFile writes holds the runtimes of all threads, and    *)
(* none of them is left to write another.                                   *)
THEOREM ResultsAreComplete == Spec => []ResultsComplete
<1>1. IInv => ResultsComplete
  <2> SUFFICES ASSUME IInv, main = "saved"
               PROVE  saved = Entries /\ \A t \in Thread : pc[t] = "exit"
    BY DEF ResultsComplete
  <2>1. joining = NThreads /\ saved = runtimes /\ CpuTime(Main) \in runtimes
        /\ \A w \in Worker : JobTime(w) \in runtimes
    BY DEF IInv, ResultInv
  <2>2. ASSUME NEW t \in Thread PROVE pc[t] = "exit"
    <3>1. PICK i \in Thread : JoinOrder(i) = t BY JoinOrderOnto
    <3> QED BY <2>1, <3>1 DEF IInv, ResultInv
  <2>3. \A t \in Thread : CpuTime(t) \in runtimes BY <2>2 DEF IInv, ResultInv
  <2>4. Entries \subseteq runtimes BY <2>1, <2>3 DEF Entries
  <2>5. saved \subseteq Entries BY DEF IInv, TypeOK
  <2> QED BY <2>1, <2>2, <2>4, <2>5
<1> QED BY Inductive, <1>1, PTL
=============================================================================
