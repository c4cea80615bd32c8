------------------------------ MODULE JobProofs ------------------------------
(***************************************************************************)
(* Where a job is, for every instance: a released job is always in exactly *)
(* one place, and the life of a job is that of JobLifecycle.  Every step   *)
(* of a thread is of one of a few kinds, by what it does to the places of  *)
(* jobs (PlaceStep); each kind moves one job from one place to another     *)
(* (KindCounts), and is a step of JobLifecycle or a stutter (KindLives).   *)
(* From this, for pipelined jobs that nobody moves, the order of stages.   *)
(***************************************************************************)
EXTENDS ProcessorSafety, SequenceTheorems

-----------------------------------------------------------------------------
(* How many positions of how many queues hold a job.                        *)

(* 1 if a is b, and 0 otherwise. *)
Is(a, b) == IF a = b THEN 1 ELSE 0

Places(Q, j) == UNION {{c} \X {i \in DOMAIN Q[c] : Q[c][i] = j} : c \in Core}

LEMMA PlacesElements ==
  ASSUME NEW Q, NEW j
  PROVE  \A s : s \in Places(Q, j) <=> \E c \in Core : \E i \in DOMAIN Q[c] : s = <<c, i>> /\ Q[c][i] = j
  BY DEF Places

LEMMA PlacesFinite ==
  ASSUME NEW Q \in [Core -> Seq(Job)], NEW j
  PROVE  IsFiniteSet(Places(Q, j)) /\ Cardinality(Places(Q, j)) \in Nat
<1> DEFINE f == [c \in Core |-> {c} \X {i \in DOMAIN Q[c] : Q[c][i] = j}]
           T == {f[c] : c \in Core}
<1>1. IsFiniteSet(Core)
  <2>1. Core \in SUBSET Thread
    BY DEF Thread
  <2> QED BY <2>1, ThreadsFinite
<1>2. IsFiniteSet(T)
  <2> HIDE DEF f
  <2>1. f \in [Core -> T] /\ \A y \in T : \E c \in Core : f[c] = y
    BY DEF f
  <2>2. f \in Surjection(Core, T)
    BY <2>1 DEF Surjection
  <2> QED BY <1>1, <2>2, FS_Surjection
<1>3. ASSUME NEW c \in Core PROVE IsFiniteSet(f[c])
  <2> DEFINE S == {i \in DOMAIN Q[c] : Q[c][i] = j}
  <2>1. Q[c] \in Seq(Job)
    OBVIOUS
  <2>2. Len(Q[c]) \in Int /\ DOMAIN Q[c] = 1..Len(Q[c])
    BY <2>1
  <2>3. S \in SUBSET (1..Len(Q[c])) /\ IsFiniteSet(1..Len(Q[c]))
    BY <2>2, FS_Interval
  <2>4. IsFiniteSet(S)
    BY <2>3, FS_Subset
  <2> HIDE DEF S
  <2>5. IsFiniteSet({c} \X S)
    BY <2>4, FS_Singleton, FS_Product
  <2> QED BY <2>5 DEF S
<1>4. IsFiniteSet(UNION T)
  <2> HIDE DEF f
  <2> QED BY <1>2, <1>3, FS_UNION
<1>5. Places(Q, j) = UNION T
  BY DEF Places
<1> QED BY <1>4, <1>5, FS_CardinalityType

(* Queue c of R has job x at position p more than that of Q, and else they  *)
(* are the same.                                                            *)
GainsAt(Q, R, c, p, x) == /\ Inserted(Q[c], R[c], p, x)
                          /\ \A d \in Core \ {c} : R[d] = Q[d]

(* One queue of R has job x more than in Q. *)
OneMore(Q, R, x) == \E c \in Core : \E p : GainsAt(Q, R, c, p, x)

(* Putting a job into one queue adds one place for that job, and no other.  *)
LEMMA PlacesInserted ==
  ASSUME NEW Q \in [Core -> Seq(Job)], NEW R \in [Core -> Seq(Job)], NEW x, NEW j, OneMore(Q, R, x)
  PROVE  Cardinality(Places(R, j)) = Cardinality(Places(Q, j)) + Is(x, j)
<1>c. PICK c \in Core : \E p : GainsAt(Q, R, c, p, x)
  BY DEF OneMore
<1>p. PICK p : GainsAt(Q, R, c, p, x)
  BY <1>c
<1> DEFINE shift(i) == IF i < p THEN i ELSE i + 1
           place(s) == IF s[1] = c THEN <<c, shift(s[2])>> ELSE s
           S == Places(Q, j)
           T == Places(R, j) \ {<<c, p>>}
           f == [s \in S |-> place(s)]
<1>0. /\ Q[c] \in Seq(Job) /\ R[c] \in Seq(Job)
      /\ DOMAIN Q[c] = 1..Len(Q[c]) /\ DOMAIN R[c] = 1..Len(R[c])
      /\ Len(Q[c]) \in Nat
  OBVIOUS
<1>1. /\ Len(R[c]) = Len(Q[c]) + 1 /\ p \in 1..Len(R[c]) /\ R[c][p] = x
      /\ \A k \in 1..Len(Q[c]) : R[c][shift(k)] = Q[c][k]
  BY <1>p DEF GainsAt, Inserted
<1>2. ASSUME NEW i \in DOMAIN Q[c]
      PROVE  shift(i) \in DOMAIN R[c] /\ shift(i) # p /\ R[c][shift(i)] = Q[c][i]
  BY <1>0, <1>1
<1>3. ASSUME NEW k \in DOMAIN R[c], k # p PROVE \E i \in DOMAIN Q[c] : shift(i) = k
  <2>1. CASE k < p
    <3>1. k \in DOMAIN Q[c] /\ shift(k) = k
      BY <1>0, <1>1, <2>1
    <3> QED BY <3>1
  <2>2. CASE ~(k < p)
    <3>1. k - 1 \in DOMAIN Q[c] /\ shift(k - 1) = k
      BY <1>0, <1>1, <1>3, <2>2
    <3> QED BY <3>1
  <2> QED BY <2>1, <2>2
<1>4. ASSUME NEW i \in DOMAIN Q[c], NEW k \in DOMAIN Q[c], shift(i) = shift(k) PROVE i = k
  BY <1>0, <1>1, <1>4
<1> HIDE DEF shift
<1>5. ASSUME NEW s \in S PROVE place(s) \in T
  <2>1. PICK d \in Core : \E i \in DOMAIN Q[d] : s = <<d, i>> /\ Q[d][i] = j
    BY PlacesElements
  <2>2. PICK i \in DOMAIN Q[d] : s = <<d, i>> /\ Q[d][i] = j
    BY <2>1
  <2>3. CASE d = c
    <3>1. place(s) = <<c, shift(i)>> /\ shift(i) \in DOMAIN R[c] /\ R[c][shift(i)] = j /\ shift(i) # p
      BY <1>2, <2>2, <2>3
    <3>2. place(s) \in Places(R, j)
      BY <3>1, PlacesElements
    <3> QED BY <3>1, <3>2
  <2>4. CASE d # c
    <3>1. place(s) = <<d, i>> /\ R[d] = Q[d]
      BY <1>p, <2>2, <2>4 DEF GainsAt
    <3>2. place(s) \in Places(R, j)
      BY <2>2, <3>1, PlacesElements
    <3> QED BY <2>4, <3>1, <3>2
  <2> QED BY <2>3, <2>4
<1>6. ASSUME NEW r \in T PROVE \E s \in S : place(s) = r
  <2>1. PICK d \in Core : \E i \in DOMAIN R[d] : r = <<d, i>> /\ R[d][i] = j
    BY PlacesElements
  <2>2. PICK k \in DOMAIN R[d] : r = <<d, k>> /\ R[d][k] = j
    BY <2>1
  <2>3. CASE d = c
    <3>1. k # p /\ k \in DOMAIN R[c]
      BY <2>2, <2>3
    <3>2. PICK i \in DOMAIN Q[c] : shift(i) = k
      BY <1>3, <3>1
    <3>3. Q[c][i] = j
      BY <1>2, <2>2, <2>3, <3>2
    <3>4. <<c, i>> \in S
      BY <3>3, PlacesElements
    <3> QED BY <2>2, <2>3, <3>2, <3>4
  <2>4. CASE d # c
    <3>1. k \in DOMAIN Q[d] /\ Q[d][k] = j
      BY <1>p, <2>2, <2>4 DEF GainsAt
    <3>2. <<d, k>> \in S
      BY <3>1, PlacesElements
    <3> QED BY <2>2, <2>4, <3>2
  <2> QED BY <2>3, <2>4
<1>7. ASSUME NEW s \in S, NEW u \in S, place(s) = place(u) PROVE s = u
  <2>10. PICK d \in Core : \E i \in DOMAIN Q[d] : s = <<d, i>>
    BY PlacesElements
  <2>1. PICK i \in DOMAIN Q[d] : s = <<d, i>>
    BY <2>10
  <2>20. PICK e \in Core : \E k \in DOMAIN Q[e] : u = <<e, k>>
    BY PlacesElements
  <2>2. PICK k \in DOMAIN Q[e] : u = <<e, k>>
    BY <2>20
  <2>3. place(s) = IF d = c THEN <<c, shift(i)>> ELSE <<d, i>>
    BY <2>1
  <2>4. place(u) = IF e = c THEN <<c, shift(k)>> ELSE <<e, k>>
    BY <2>2
  <2>5. d = e
    BY <1>7, <2>3, <2>4
  <2>6. CASE d = c
    <3>1. shift(i) = shift(k)
      BY <1>7, <2>3, <2>4, <2>5, <2>6
    <3> QED BY <1>4, <2>1, <2>2, <2>5, <2>6, <3>1
  <2>7. CASE d # c
    BY <1>7, <2>1, <2>2, <2>3, <2>4, <2>5, <2>7
  <2> QED BY <2>6, <2>7
<1>8. ExistsBijection(S, T)
  <2> HIDE DEF place, S, T
  <2>1. f \in [S -> T] /\ \A s \in S : f[s] = place(s)
    BY <1>5
  <2>2. \A s \in S, u \in S : f[s] = f[u] => s = u
    BY <1>7, <2>1
  <2>3. \A r \in T : \E s \in S : f[s] = r
    BY <1>6, <2>1
  <2> HIDE DEF f
  <2>4. f \in Bijection(S, T)
    BY <2>1, <2>2, <2>3 DEF Bijection, Injection, Surjection, IsInjective
  <2> QED BY <2>4 DEF ExistsBijection
<1>9. IsFiniteSet(S) /\ IsFiniteSet(Places(R, j))
      /\ Cardinality(S) \in Nat /\ Cardinality(Places(R, j)) \in Nat
  BY PlacesFinite
<1>10. Cardinality(T) = Cardinality(S)
  <2> HIDE DEF S, T
  <2> QED BY <1>8, <1>9, FS_Bijection
<1>11. Cardinality(T) = IF <<c, p>> \in Places(R, j) THEN Cardinality(Places(R, j)) - 1
                                                    ELSE Cardinality(Places(R, j))
  BY <1>9, FS_RemoveElement
<1>12. <<c, p>> \in Places(R, j) <=> x = j
  BY <1>0, <1>1, PlacesElements
<1> HIDE DEF T
<1> QED BY <1>9, <1>10, <1>11, <1>12 DEF One, Is

-----------------------------------------------------------------------------
(* What the threads have in hand.  A worker or dispatcher carries a job only*)
(* from where it takes it to where it puts it, so taking one never drops    *)
(* another; a worker that looks for a job has none; and the job that the    *)
(* thermal approach waits for stays the current job of that core.           *)

EmptyHanded == {"release", "loop", "load_lock", "load_number", "load_pop", "fire", "clear",
                "ins_unlock", "exit"}
Loading     == {"load_lock", "load_number", "load_pop", "loaded"}

HandInv ==
  /\ \A t \in Dispatcher \cup Core : pc[t] \in EmptyHanded => hand[t] = NoJob
  /\ \A c \in Core : pc[c] \in Loading => current_job[c] = NoJob
  /\ pc[Thermal] \in {"stop_post", "stop_wait"} =>
       victim[Thermal] # NoJob /\ current_job[at[Thermal]] = victim[Thermal]

LEMMA HandInsert ==
  ASSUME TypeOK, NEW t \in Thread, InsertJobToQueue(t), pc[t] \in EmptyHanded => hand[t] = NoJob
  PROVE  pc'[t] \in EmptyHanded => hand'[t] = NoJob
<1>0. pc \in [Thread -> Label] /\ hand \in [Thread -> MaybeJob]
  BY DEF TypeOK
<1> USE DEF Goto, EmptyHanded, carryVars
<1>1. CASE InsertLock(t)
  BY <1>0, <1>1 DEF InsertLock
<1>2. CASE InsertPush(t)
  BY <1>0, <1>2 DEF InsertPush
<1>3. CASE InsertUnlock(t)
  BY <1>0, <1>3 DEF InsertUnlock
<1> QED BY <1>1, <1>2, <1>3 DEF InsertJobToQueue

LEMMA HandDispatcher ==
  ASSUME TypeOK, NEW t \in Dispatcher, DispatcherStep(t),
         pc[t] \in EmptyHanded => hand[t] = NoJob
  PROVE  pc'[t] \in EmptyHanded => hand'[t] = NoJob
<1>0. pc \in [Thread -> Label] /\ hand \in [Thread -> MaybeJob] /\ t \in Thread
  BY Threads DEF TypeOK
<1> USE DEF Goto, EmptyHanded, carryVars
<1>1. CASE Release(t)
  BY <1>0, <1>1 DEF Release
<1>2. CASE DispatcherExit(t)
  BY <1>0, <1>2 DEF DispatcherExit
<1>3. CASE InsertJobToQueue(t)
  BY <1>0, <1>3, HandInsert
<1> QED BY <1>1, <1>2, <1>3 DEF DispatcherStep

LEMMA HandWorker ==
  ASSUME TypeOK, NEW w \in Core, Worker(w) \/ LoadTimeout(w),
         pc[w] \in EmptyHanded => hand[w] = NoJob,
         pc[w] \in Loading => current_job[w] = NoJob
  PROVE  /\ pc'[w] \in EmptyHanded => hand'[w] = NoJob
         /\ pc'[w] \in Loading => current_job'[w] = NoJob
<1>0. /\ pc \in [Thread -> Label] /\ hand \in [Thread -> MaybeJob] /\ w \in Thread
      /\ current_job \in [Core -> MaybeJob]
  BY Threads DEF TypeOK
<1> USE DEF Goto, EmptyHanded, Loading, carryVars, workerVars
<1>1. CASE WorkerLoop(w)
  <2>1. UNCHANGED <<hand, current_job>> /\ pc[w] = "loop"
    BY <1>1 DEF WorkerLoop
  <2>2. pc'[w] \in {"load_lock", "fire", "exit"} /\ (pc'[w] = "load_lock" => current_job[w] = NoJob)
    BY <1>0, <1>1 DEF WorkerLoop
  <2> QED BY <2>1, <2>2
<1>2. CASE LoadLock(w) \/ LoadNumber(w) \/ LoadTimeout(w)
  <2>1. UNCHANGED <<hand, current_job>> /\ pc[w] \in {"load_lock", "load_number"}
    BY <1>2 DEF LoadLock, LoadNumber, LoadTimeout
  <2> QED BY <2>1
<1>3. CASE LoadPop(w)
  <2>1. UNCHANGED current_job /\ pc[w] = "load_pop" /\ pc'[w] = "loaded"
    BY <1>0, <1>3 DEF LoadPop
  <2> QED BY <2>1
<1>4. CASE Loaded(w)
  <2>1. UNCHANGED <<hand, current_job>> /\ pc[w] = "loaded"
    BY <1>4 DEF Loaded
  <2>2. pc'[w] \in {"load_lock", "loop"} => hand[w] = NoJob
    <3>1. CASE hand[w] = NoJob
      BY <3>1
    <3>2. CASE hand[w] # NoJob
      <4>1. pc'[w] = "set_job"
        BY <1>0, <1>4, <3>2 DEF Loaded
      <4> QED BY <4>1
    <3> QED BY <3>1, <3>2
  <2>3. pc'[w] \in {"load_lock", "loop", "set_job"}
    BY <1>0, <1>4 DEF Loaded
  <2> QED BY <2>1, <2>2, <2>3
<1>5. CASE SetJob(w)
  <2>1. hand'[w] = NoJob /\ pc'[w] = "loop"
    BY <1>0, <1>5 DEF SetJob
  <2> QED BY <2>1
<1>6. CASE FireStopped(w) \/ FireWork(w) \/ ClearJob(w)
  <2>1. UNCHANGED hand /\ pc[w] \in {"fire", "clear"} /\ pc'[w] \in {"fire", "clear", "loop"}
    BY <1>0, <1>6 DEF FireStopped, FireWork, ClearJob
  <2> QED BY <2>1
<1>7. CASE FireComplete(w)
  <2>1. CASE finished'[current_job[w]]
    <3>1. UNCHANGED hand /\ pc[w] = "fire" /\ pc'[w] = "clear"
      BY <1>0, <1>7, <2>1 DEF FireComplete
    <3> QED BY <3>1
  <2>2. CASE ~finished'[current_job[w]]
    <3>1. pc'[w] = "ins_lock"
      BY <1>0, <1>7, <2>2 DEF FireComplete
    <3> QED BY <3>1
  <2> QED BY <2>1, <2>2
<1>8. CASE InsertJobToQueue(w)
  <2>1. pc'[w] \in {"ins_push", "ins_unlock", "release", "clear", "returned"}
    BY <1>0, <1>8, InsertSlot
  <2>2. pc'[w] \notin Loading
    BY <2>1
  <2>3. pc'[w] \in EmptyHanded => hand'[w] = NoJob
    BY <1>0, <1>8, HandInsert
  <2> QED BY <2>2, <2>3
<1> QED BY <1>1, <1>2, <1>3, <1>4, <1>5, <1>6, <1>7, <1>8 DEF Worker

(* The thermal approach comes to its wait with the job it found. *)
LEMMA HandThermal ==
  ASSUME TypeOK, HandInv, ThermalApproach
  PROVE  pc'[Thermal] \in {"stop_post", "stop_wait"} =>
           victim'[Thermal] # NoJob /\ current_job'[at'[Thermal]] = victim'[Thermal]
<1>0. /\ Thermal \in Thread /\ Thermal \in Stopper /\ Thermal # Main /\ pc \in [Thread -> Label]
      /\ victim \in [Stopper -> MaybeJob]
  BY Threads DEF TypeOK
<1> DEFINE Waits == pc'[Thermal] \in {"stop_post", "stop_wait"}
<1> USE DEF Goto, workerVars, stopVars
<1>1. CASE StopLock(Thermal)
  <2>1. CASE current_job[at[Thermal]] = NoJob
    <3>1. pc'[Thermal] = AfterStop(Thermal, NoJob)
      BY <1>0, <1>1, <2>1 DEF StopLock
    <3> QED BY <1>0, <3>1 DEF AfterStop
  <2>2. CASE current_job[at[Thermal]] # NoJob
    <3>1. /\ victim' = [victim EXCEPT ![Thermal] = current_job[at[Thermal]]]
          /\ UNCHANGED <<at, current_job>>
      BY <1>1 DEF StopLock
    <3> QED BY <1>0, <2>2, <3>1
  <2> QED BY <2>1, <2>2
<1>2. CASE StopPost(Thermal)
  <2>1. pc[Thermal] = "stop_post" /\ UNCHANGED <<at, victim, current_job>>
    BY <1>2 DEF StopPost
  <2> QED BY <2>1 DEF HandInv
<1>3. CASE StopWait(Thermal)
  <2>1. pc'[Thermal] = AfterStop(Thermal, victim[Thermal])
    BY <1>0, <1>3 DEF StopWait
  <2> QED BY <1>0, <2>1 DEF AfterStop
<1>4. CASE StopCurrentJob(Thermal)
  BY <1>1, <1>2, <1>3, <1>4 DEF StopCurrentJob
<1>5. CASE InsertJobToQueue(Thermal)
  <2>1. pc'[Thermal] \in {"ins_push", "ins_unlock", "release", "clear", "returned"}
    BY <1>0, <1>5, InsertSlot, Threads
  <2> QED BY <2>1
<1>6. ASSUME NEW a, NEW b, NEW p, NEW q, TakeOut(a, p, b, q) PROVE ~Waits
  BY <1>0, <1>6 DEF TakeOut
<1>7. ASSUME NEW b, NEW p, NEW n, AdvanceJobInQueue(b, p, n) PROVE ~Waits
  BY <1>6, <1>7 DEF AdvanceJobInQueue
<1>8. ASSUME NEW a, NEW b, NEW p, NEW q, MoveJobToAnotherQueue(a, p, b, q) PROVE ~Waits
  BY <1>6, <1>8 DEF MoveJobToAnotherQueue
<1>9. ASSUME NEW a, NEW b, TaskMigrate(a, b) \/ Preempt(b) PROVE ~Waits
  BY <1>0, <1>9 DEF TaskMigrate, Preempt
<1>10. CASE ThermalLoop \/ CallReturns \/ ThermalReturn \/ PreemptInsert \/ Reinsert
  BY <1>0, <1>10 DEF ThermalLoop, CallReturns, ThermalReturn, PreemptInsert, Reinsert
<1>11. CASE LockAllJobs \/ LockTaskQueue \/ LockCurrentJob
  BY <1>0, <1>11 DEF LockAllJobs, LockTaskQueue, LockCurrentJob
<1>12. CASE UnlockAllJobs
  BY <1>0, <1>12 DEF UnlockAllJobs
<1> QED BY <1>4, <1>5, <1>7, <1>8, <1>9, <1>10, <1>11, <1>12 DEF ThermalApproach

LEMMA HandInvStep ==
  ASSUME TypeOK, JobLock, HandInv, NEW t \in Thread, StepOf(t)
  PROVE  HandInv'
<1>0. /\ Thermal \in Thread /\ Thermal \in Stopper /\ at[Thermal] \in Core
      /\ current_job \in [Core -> MaybeJob]
  BY Threads DEF TypeOK
<1>1. ASSUME NEW u \in Dispatcher \cup Core PROVE pc'[u] \in EmptyHanded => hand'[u] = NoJob
  <2>0. u \in Thread /\ (pc[u] \in EmptyHanded => hand[u] = NoJob)
    BY DEF HandInv, Thread
  <2>1. CASE u # t
    BY <2>0, <2>1, OthersStay DEF Stays
  <2>2. CASE u = t /\ u \in Dispatcher
    BY <2>0, <2>2, HandDispatcher, Threads DEF StepOf
  <2>3. CASE u = t /\ u \in Core
    <3>1. Worker(u) \/ LoadTimeout(u)
      BY <2>3, Threads DEF StepOf
    <3>2. pc[u] \in Loading => current_job[u] = NoJob
      BY <2>3 DEF HandInv
    <3> QED BY <2>0, <2>3, <3>1, <3>2, HandWorker
  <2> QED BY <2>1, <2>2, <2>3
<1>2. ASSUME NEW c \in Core PROVE pc'[c] \in Loading => current_job'[c] = NoJob
  <2>0. /\ c \in Thread /\ (pc[c] \in EmptyHanded => hand[c] = NoJob)
        /\ pc[c] \in Loading => current_job[c] = NoJob
    BY Threads DEF HandInv
  <2>1. CASE c # t
    <3>1. pc'[c] = pc[c]
      BY <2>0, <2>1, OthersStay DEF Stays
    <3>2. CASE CoreStays(c)
      BY <2>0, <3>1, <3>2 DEF CoreStays
    <3>3. CASE StopsAt(t, c)
      BY <1>0, <3>3 DEF StopsAt, StopWait
    <3> QED BY <2>1, <3>2, <3>3, ForeignCore
  <2>2. CASE c = t
    <3>1. Worker(c) \/ LoadTimeout(c)
      BY <2>2, Threads DEF StepOf
    <3> QED BY <2>0, <3>1, HandWorker
  <2> QED BY <2>1, <2>2
<1>3. pc'[Thermal] \in {"stop_post", "stop_wait"} =>
        victim'[Thermal] # NoJob /\ current_job'[at'[Thermal]] = victim'[Thermal]
  <2>1. CASE t = Thermal
    BY <2>1, HandThermal, Threads DEF StepOf
  <2>2. CASE t # Thermal
    <3>1. pc'[Thermal] = pc[Thermal] /\ at'[Thermal] = at[Thermal] /\ victim'[Thermal] = victim[Thermal]
      BY <1>0, <2>2, OthersStay, StopLocalsStay DEF Stays
    <3>2. ASSUME pc[Thermal] \in {"stop_post", "stop_wait"}
          PROVE  current_job'[at[Thermal]] = current_job[at[Thermal]]
      <4>1. HoldsJob(at[Thermal])
        BY <3>2 DEF HoldsJob
      <4> QED BY <1>0, <3>1, <4>1, LockedJobStep
    <3> QED BY <3>1, <3>2 DEF HandInv
  <2> QED BY <2>1, <2>2
<1> QED BY <1>1, <1>2, <1>3 DEF HandInv

LEMMA HandInvariant == Spec => [](TypeOK /\ WorkerInv /\ StopInv /\ HandInv)
<1>1. Init => HandInv
  <2> SUFFICES ASSUME Init PROVE HandInv
    OBVIOUS
  <2>1. \A t \in Thread : hand[t] = NoJob
    BY DEF Init
  <2>2. \A c \in Core : current_job[c] = NoJob
    BY DEF Init
  <2>3. pc[Thermal] = "loop"
    BY Threads DEF Init
  <2> QED BY <2>1, <2>2, <2>3, Threads DEF HandInv
<1>2. TypeOK /\ WorkerInv /\ JobLock /\ HandInv /\ [Next]_vars => HandInv'
  <2> SUFFICES ASSUME TypeOK, JobLock, HandInv, [Next]_vars PROVE HandInv'
    OBVIOUS
  <2>1. CASE UNCHANGED vars
    BY <2>1 DEF vars, HandInv, workerVars, carryVars, stopVars
  <2>2. ASSUME NEW t \in Thread, StepOf(t) PROVE HandInv'
    BY <2>2, HandInvStep
  <2> QED BY <2>1, <2>2, EveryStep
<1> QED BY <1>1, <1>2, StopInvariant, JobLockInvariant, PTL DEF Spec

-----------------------------------------------------------------------------
(* The kinds of steps, by what they do to the places where jobs are.        *)

Quiet == UNCHANGED <<queue, hand, OnCore, stopped, done, jobCounter>>

Creates(d) ==
  /\ hand[d] = NoJob
  /\ hand' = [hand EXCEPT ![d] = <<d, jobCounter[d] + 1>>]
  /\ jobCounter' = [jobCounter EXCEPT ![d] = @ + 1]
  /\ UNCHANGED <<queue, OnCore, stopped, done>>

PutsDown(t) ==
  /\ hand[t] # NoJob /\ hand' = [hand EXCEPT ![t] = NoJob]
  /\ OneMore(queue, queue', hand[t])
  /\ UNCHANGED <<OnCore, stopped, done, jobCounter>>

PicksUp(t) ==
  \E x \in Job :
    /\ hand[t] = NoJob /\ hand' = [hand EXCEPT ![t] = x]
    /\ OneMore(queue', queue, x)
    /\ UNCHANGED <<OnCore, stopped, done, jobCounter>>

Starts(c) ==
  /\ hand[c] # NoJob /\ hand' = [hand EXCEPT ![c] = NoJob]
  /\ OnCore[c] = NoJob /\ OnCore' = [OnCore EXCEPT ![c] = hand[c]]
  /\ UNCHANGED <<queue, stopped, done, jobCounter>>

Leaves(c) ==
  /\ OnCore[c] # NoJob /\ OnCore' = [OnCore EXCEPT ![c] = NoJob]
  /\ UNCHANGED <<queue, jobCounter>>

Stops(c) == /\ Leaves(c) /\ UNCHANGED <<hand, done>>
            /\ stopped' = stopped \cup {OnCore[c]}

Finishes(c) == /\ Leaves(c) /\ UNCHANGED <<hand, stopped>>
               /\ done' = done \cup {OnCore[c]}

HandsOver(c, t) == /\ Leaves(c) /\ UNCHANGED done
                   /\ hand[t] = NoJob /\ hand' = [hand EXCEPT ![t] = OnCore[c]]
                   /\ stopped' \in {stopped, stopped \ {OnCore[c]}}

Kind(t) ==
  \/ Quiet
  \/ t \in Dispatcher /\ Creates(t)
  \/ PutsDown(t) \/ PicksUp(t)
  \/ t \in Core /\ Starts(t)
  \/ \E c \in Core : Stops(c) \/ Finishes(c) \/ HandsOver(c, t)

(* What a core serves is settled by its worker and by stopCurrentJob. *)
LEMMA ServingStays ==
  ASSUME TypeOK, NEW t \in Thread, StepOf(t), NEW c \in Core, c # t, CoreStays(c)
  PROVE  Serving(c)' = Serving(c)
<1>1. pc'[c] = pc[c]
  BY OthersStay, Threads DEF Stays
<1> QED BY <1>1 DEF CoreStays, Serving

LEMMA OnCoreStays ==
  ASSUME TypeOK, NEW t \in Thread, StepOf(t), t \notin Core, \A c \in Core : CoreStays(c)
  PROVE  OnCore' = OnCore
<1>1. \A c \in Core : Serving(c)' = Serving(c)
  BY ServingStays
<1> QED BY <1>1 DEF OnCore

LEMMA OnCoreWorker ==
  ASSUME TypeOK, NEW w \in Core, Worker(w) \/ LoadTimeout(w)
  PROVE  OnCore' = [OnCore EXCEPT ![w] = Serving(w)']
<1>0. w \in Thread /\ StepOf(w) /\ w \notin Stopper
  BY Threads DEF StepOf
<1>1. ASSUME NEW c \in Core, c # w PROVE Serving(c)' = Serving(c)
  BY <1>0, <1>1, ForeignCore, ServingStays DEF StopsAt
<1> QED BY <1>1 DEF OnCore

LEMMA InsertKind ==
  ASSUME TypeOK, NEW t \in Thread, InsertJobToQueue(t), OnCore' = OnCore
  PROVE  Kind(t)
<1>0. /\ hand \in [Thread -> MaybeJob] /\ dest[t] \in Core /\ queue \in [Core -> Seq(Job)]
      /\ NoJob \notin Job /\ queue[dest[t]] \in Seq(Job)
  BY Assumed DEF TypeOK, Assumptions
<1> USE DEF carryVars, processorVars, historyVars, taskVars
<1>1. CASE InsertLock(t) \/ InsertUnlock(t)
  <2>1. Quiet
    BY <1>1 DEF InsertLock, InsertUnlock, Quiet
  <2> QED BY <2>1 DEF Kind
<1>2. CASE InsertPush(t)
  <2>1. /\ queue' = [queue EXCEPT ![dest[t]] = insertJob(@, hand[t])]
        /\ hand' = [hand EXCEPT ![t] = NoJob]
        /\ UNCHANGED <<stopped, done, jobCounter>>
    BY <1>2 DEF InsertPush
  <2>2. CASE hand[t] = NoJob
    <3>1. queue' = queue /\ hand' = hand
      BY <1>0, <2>1, <2>2 DEF insertJob
    <3> QED BY <2>1, <3>1 DEF Kind, Quiet
  <2>3. CASE hand[t] # NoJob
    <3>1. hand[t] \in Job
      BY <1>0, <2>3 DEF MaybeJob
    <3>2. queue'[dest[t]] = insertJob(queue[dest[t]], hand[t])
      BY <1>0, <2>1
    <3>3. \A d \in Core \ {dest[t]} : queue'[d] = queue[d]
      BY <1>0, <2>1
    <3>4. \E p : Inserted(queue[dest[t]], queue'[dest[t]], p, hand[t])
      BY <1>0, <3>1, <3>2, InsertJobPlace
    <3>5. OneMore(queue, queue', hand[t])
      BY <1>0, <3>3, <3>4 DEF OneMore, GainsAt
    <3> QED BY <2>1, <2>3, <3>5 DEF Kind, PutsDown
  <2> QED BY <2>2, <2>3
<1> QED BY <1>1, <1>2 DEF InsertJobToQueue

LEMMA DispatcherKind ==
  ASSUME TypeOK, HandInv, NEW t \in Dispatcher, DispatcherStep(t)
  PROVE  Kind(t)
<1>0. t \in Thread /\ t \notin Core /\ t \notin Stopper /\ StepOf(t)
  BY Threads DEF StepOf
<1>1. OnCore' = OnCore
  <2>1. \A c \in Core : CoreStays(c)
    BY <1>0, ForeignCore DEF StopsAt
  <2> QED BY <1>0, <2>1, OnCoreStays
<1> USE DEF carryVars, processorVars, historyVars, taskVars
<1>2. CASE Release(t)
  <2>1. pc[t] = "release" /\ hand[t] = NoJob
    BY <1>2 DEF Release, HandInv, EmptyHanded
  <2>2. Creates(t)
    BY <1>1, <1>2, <2>1 DEF Release, Creates
  <2> QED BY <2>2 DEF Kind
<1>3. CASE DispatcherExit(t)
  <2>1. Quiet
    BY <1>1, <1>3 DEF DispatcherExit, Quiet
  <2> QED BY <2>1 DEF Kind
<1>4. CASE InsertJobToQueue(t)
  BY <1>0, <1>1, <1>4, InsertKind
<1> QED BY <1>2, <1>3, <1>4 DEF DispatcherStep

LEMMA WorkerKind ==
  ASSUME TypeOK, WorkerInv, HandInv, NEW w \in Core, Worker(w) \/ LoadTimeout(w)
  PROVE  Kind(w)
<1>0. /\ w \in Thread /\ pc \in [Thread -> Label] /\ hand \in [Thread -> MaybeJob]
      /\ current_job \in [Core -> MaybeJob] /\ queue \in [Core -> Seq(Job)]
      /\ queue[w] \in Seq(Job) /\ NoJob \notin Job
  BY Threads, Assumed DEF TypeOK, Assumptions
<1>1. /\ pc[w] \in EmptyHanded => hand[w] = NoJob
      /\ pc[w] \in Loading => current_job[w] = NoJob
  BY DEF HandInv
<1>2. /\ OnCore' = [OnCore EXCEPT ![w] = Serving(w)'] /\ OnCore[w] = Serving(w)
      /\ OnCore = [OnCore EXCEPT ![w] = Serving(w)]
  BY OnCoreWorker DEF OnCore
<1> USE DEF Goto, carryVars, processorVars, historyVars, taskVars, workerVars
<1>3. ASSUME UNCHANGED <<queue, hand, stopped, done, jobCounter>>, Serving(w)' = Serving(w)
      PROVE  Kind(w)
  BY <1>2, <1>3 DEF Kind, Quiet
<1>4. CASE WorkerLoop(w)
  <2>1. /\ UNCHANGED <<queue, hand, stopped, done, jobCounter, current_job>> /\ pc[w] = "loop"
        /\ pc'[w] \in {"load_lock", "fire", "exit"}
    BY <1>0, <1>4 DEF WorkerLoop
  <2>2. Serving(w)' = Serving(w)
    BY <2>1 DEF Serving
  <2> QED BY <1>3, <2>1, <2>2
<1>5. CASE LoadLock(w) \/ LoadNumber(w) \/ LoadTimeout(w)
  <2>1. /\ UNCHANGED <<queue, hand, stopped, done, jobCounter, current_job>>
        /\ pc[w] \in {"load_lock", "load_number"}
    BY <1>5 DEF LoadLock, LoadNumber, LoadTimeout
  <2>2. pc'[w] \in {"load_number", "load_pop", "loaded"}
    BY <1>0, <1>5 DEF LoadLock, LoadNumber, LoadTimeout
  <2>3. Serving(w)' = Serving(w)
    BY <2>1, <2>2 DEF Serving
  <2> QED BY <1>3, <2>1, <2>3
<1>6. CASE LoadPop(w)
  <2>1. /\ UNCHANGED <<stopped, done, jobCounter, current_job>> /\ pc[w] = "load_pop"
        /\ hand' = [hand EXCEPT ![w] = peek_front(queue[w])]
        /\ queue' = [queue EXCEPT ![w] = pop_front(@)]
    BY <1>6 DEF LoadPop
  <2>2. pc'[w] = "loaded"
    BY <1>0, <1>6 DEF LoadPop
  <2>3. Serving(w)' = Serving(w)
    BY <2>1, <2>2 DEF Serving
  <2>4. hand[w] = NoJob
    BY <1>1, <2>1 DEF EmptyHanded
  <2>5. CASE peek_front(queue[w]) = NoJob
    <3>1. queue[w] = << >>
      <4>1. queue[w] # << >> => peek_front(queue[w]) \in Job
        BY <1>0 DEF peek_front
      <4> QED BY <1>0, <2>5, <4>1
    <3>2. queue' = queue /\ hand' = hand
      BY <1>0, <2>1, <2>4, <2>5, <3>1 DEF pop_front
    <3> QED BY <1>3, <2>1, <2>3, <3>2
  <2>6. CASE peek_front(queue[w]) # NoJob
    <3>1. Inserted(queue'[w], queue[w], 1, peek_front(queue[w]))
      BY <1>0, <2>1, <2>6, PopFrontPlace
    <3>2. \A d \in Core \ {w} : queue'[d] = queue[d]
      BY <1>0, <2>1
    <3>3. peek_front(queue[w]) \in Job
      <4>1. queue[w] # << >>
        BY <2>6 DEF peek_front
      <4> QED BY <1>0, <4>1 DEF peek_front
    <3>4. OneMore(queue', queue, peek_front(queue[w]))
      BY <3>1, <3>2 DEF OneMore, GainsAt
    <3>5. OnCore' = OnCore
      BY <1>2, <2>3
    <3>6. PicksUp(w)
      BY <2>1, <2>4, <3>3, <3>4, <3>5 DEF PicksUp
    <3> QED BY <3>6 DEF Kind
  <2> QED BY <2>5, <2>6
<1>7. CASE Loaded(w)
  <2>1. /\ UNCHANGED <<queue, hand, stopped, done, jobCounter, current_job>> /\ pc[w] = "loaded"
    BY <1>7 DEF Loaded
  <2>2. pc'[w] \in {"load_lock", "loop", "set_job"}
    BY <1>0, <1>7 DEF Loaded
  <2>3. Serving(w)' = NoJob /\ Serving(w) = NoJob
    BY <1>1, <2>1, <2>2 DEF Serving, Loading
  <2> QED BY <1>3, <2>1, <2>3
<1>8. CASE SetJob(w)
  <2>1. /\ UNCHANGED <<queue, stopped, done, jobCounter>> /\ pc[w] = "set_job"
        /\ hand' = [hand EXCEPT ![w] = NoJob]
    BY <1>8 DEF SetJob
  <2>2. current_job'[w] = hand[w] /\ pc'[w] = "loop"
    BY <1>0, <1>8 DEF SetJob
  <2>3. Serving(w)' = hand[w] /\ Serving(w) = NoJob
    BY <2>1, <2>2 DEF Serving
  <2>4. hand[w] # NoJob
    BY <2>1 DEF WorkerInv
  <2>5. Starts(w)
    BY <1>2, <2>1, <2>3, <2>4 DEF Starts
  <2> QED BY <2>5 DEF Kind
(* The end of a fire: the job leaves the core. *)
<1>9. ASSUME UNCHANGED <<queue, jobCounter, current_job>>, pc[w] = "fire",
             pc'[w] \in {"clear", "ins_lock"}
      PROVE  Leaves(w) /\ OnCore[w] = current_job[w]
  <2>1. Serving(w)' = NoJob /\ Serving(w) = current_job[w] /\ current_job[w] # NoJob
    BY <1>9 DEF Serving, WorkerInv
  <2> QED BY <1>2, <1>9, <2>1 DEF Leaves
<1>10. CASE FireStopped(w)
  <2>1. /\ UNCHANGED <<queue, hand, done, jobCounter, current_job>> /\ pc[w] = "fire"
        /\ stopped' = stopped \cup {current_job[w]}
    BY <1>10 DEF FireStopped
  <2>2. pc'[w] = "clear"
    BY <1>0, <1>10 DEF FireStopped
  <2>3. Stops(w)
    BY <1>9, <2>1, <2>2 DEF Stops
  <2> QED BY <2>3 DEF Kind
<1>11. CASE FireWork(w)
  <2>1. UNCHANGED <<queue, hand, stopped, done, jobCounter, current_job, pc>>
    BY <1>11 DEF FireWork
  <2>2. Serving(w)' = Serving(w)
    BY <2>1 DEF Serving
  <2> QED BY <1>3, <2>1, <2>2
<1>12. CASE FireComplete(w)
  <2>1. UNCHANGED <<queue, stopped, jobCounter, current_job>> /\ pc[w] = "fire"
    BY <1>12 DEF FireComplete
  <2>2. CASE finished'[current_job[w]]
    <3>1. UNCHANGED hand /\ done' = done \cup {current_job[w]}
      BY <1>12, <2>2 DEF FireComplete
    <3>2. pc'[w] = "clear"
      BY <1>0, <1>12, <2>2 DEF FireComplete
    <3>3. Finishes(w)
      BY <1>9, <2>1, <3>1, <3>2 DEF Finishes
    <3> QED BY <3>3 DEF Kind
  <2>3. CASE ~finished'[current_job[w]]
    <3>1. UNCHANGED done /\ hand' = [hand EXCEPT ![w] = current_job[w]]
      BY <1>12, <2>3 DEF FireComplete
    <3>2. pc'[w] = "ins_lock"
      BY <1>0, <1>12, <2>3 DEF FireComplete
    <3>3. hand[w] = NoJob
      BY <1>1, <2>1 DEF EmptyHanded
    <3>4. HandsOver(w, w)
      BY <1>9, <2>1, <3>1, <3>2, <3>3 DEF HandsOver
    <3> QED BY <3>4 DEF Kind
  <2> QED BY <2>2, <2>3
<1>13. CASE ClearJob(w)
  <2>1. UNCHANGED <<queue, hand, stopped, done, jobCounter>> /\ pc[w] = "clear"
    BY <1>13 DEF ClearJob
  <2>2. pc'[w] = "loop" /\ current_job'[w] = NoJob
    BY <1>0, <1>13 DEF ClearJob
  <2>3. Serving(w)' = Serving(w)
    BY <2>1, <2>2 DEF Serving
  <2> QED BY <1>3, <2>1, <2>3
<1>14. CASE InsertJobToQueue(w)
  <2>1. /\ pc[w] \in {"ins_lock", "ins_push", "ins_unlock"}
        /\ pc'[w] \in {"ins_push", "ins_unlock", "release", "clear", "returned"}
    BY <1>0, <1>14, InsertSlot
  <2>2. Serving(w)' = Serving(w)
    BY <2>1 DEF Serving
  <2>3. OnCore' = OnCore
    BY <1>2, <2>2
  <2> QED BY <1>0, <1>14, <2>3, InsertKind
<1> QED BY <1>4, <1>5, <1>6, <1>7, <1>8, <1>10, <1>11, <1>12, <1>13, <1>14 DEF Worker

(* A stopCurrentJob that comes to its end leaves the core without a job.    *)
LEMMA StopServes ==
  ASSUME TypeOK, WorkerInv, NEW t \in Stopper, StepOf(t), StopWait(t)
  PROVE  /\ OnCore' = [OnCore EXCEPT ![at[t]] = NoJob]
         /\ OnCore[at[t]] = current_job[at[t]]
<1>0. t \in Thread /\ t \notin Core /\ at[t] \in Core /\ current_job \in [Core -> MaybeJob]
  BY Threads DEF TypeOK
<1> PICK c \in Core : c = at[t]
  BY <1>0
<1>1. pc[c] = "exit" /\ current_job' = [current_job EXCEPT ![c] = NoJob]
  BY DEF StopWait, WorkerInv
<1>2. Serving(c)' = NoJob
  BY <1>0, <1>1 DEF Serving
<1>3. ASSUME NEW d \in Core, d # c PROVE Serving(d)' = Serving(d)
  BY <1>0, <1>3, ForeignCore, ServingStays DEF StopsAt
<1>4. OnCore' = [OnCore EXCEPT ![c] = NoJob]
  BY <1>2, <1>3 DEF OnCore
<1> QED BY <1>1, <1>4 DEF OnCore, Serving

LEMMA ThermalKind ==
  ASSUME TypeOK, WorkerInv, StopInv, HandInv, ThermalApproach
  PROVE  Kind(Thermal)
<1>0. /\ Thermal \in Thread /\ Thermal \in Stopper /\ Thermal # Main /\ Thermal \notin Core
      /\ StepOf(Thermal) /\ at[Thermal] \in Core
  BY Threads DEF StepOf, TypeOK
<1>00. /\ hand \in [Thread -> MaybeJob] /\ queue \in [Core -> Seq(Job)] /\ NoJob \notin Job
       /\ dest[Thermal] \in Core
  BY <1>0, Assumed DEF TypeOK, Assumptions
<1>000. call.position \in Nat
  BY DEF TypeOK
<1>1. pc[Thermal] \in HandFree => hand[Thermal] = NoJob
  BY DEF StopInv
<1>2. ASSUME pc[Thermal] # "stop_wait" PROVE OnCore' = OnCore
  <2>1. \A c \in Core : CoreStays(c)
    BY <1>0, <1>2, ForeignCore DEF StopsAt, StopWait
  <2> QED BY <1>0, <2>1, OnCoreStays
<1> USE DEF carryVars, processorVars, historyVars, taskVars, workerVars
<1>3. ASSUME UNCHANGED <<queue, hand, stopped, done, jobCounter>>, pc[Thermal] # "stop_wait"
      PROVE  Kind(Thermal)
  BY <1>2, <1>3 DEF Kind, Quiet
<1>4. CASE ThermalLoop \/ CallReturns \/ ThermalReturn \/ LockAllJobs \/ LockTaskQueue
           \/ LockCurrentJob \/ UnlockAllJobs
  BY <1>3, <1>4 DEF ThermalLoop, CallReturns, ThermalReturn, LockAllJobs, LockTaskQueue,
                    LockCurrentJob, UnlockAllJobs
<1>5. ASSUME NEW a, NEW b, TaskMigrate(a, b) \/ Preempt(b) PROVE Kind(Thermal)
  BY <1>3, <1>5 DEF TaskMigrate, Preempt
(* A job put into a queue at some position; without a job nothing happens. *)
<1>6. ASSUME NEW c \in Core, NEW position \in Nat,
             queue' = [queue EXCEPT ![c] = insertJobAt(@, position, hand[Thermal])],
             hand' = [hand EXCEPT ![Thermal] = NoJob],
             UNCHANGED <<stopped, done, jobCounter>>, pc[Thermal] # "stop_wait"
      PROVE  Kind(Thermal)
  <2>1. CASE hand[Thermal] = NoJob
    <3>1. queue' = queue /\ hand' = hand
      BY <1>0, <1>00, <1>6, <2>1 DEF insertJobAt
    <3> QED BY <1>3, <1>6, <3>1
  <2>2. CASE hand[Thermal] # NoJob
    <3>1. hand[Thermal] \in Job /\ queue[c] \in Seq(Job)
      BY <1>0, <1>00, <2>2 DEF MaybeJob
    <3>2. queue'[c] = insertJobAt(queue[c], position, hand[Thermal])
          /\ \A d \in Core \ {c} : queue'[d] = queue[d]
      BY <1>00, <1>6
    <3>3. \E p : Inserted(queue[c], insertJobAt(queue[c], position, hand[Thermal]), p, hand[Thermal])
      BY <1>00, <3>1, InsertJobAtPlace
    <3>4. OneMore(queue, queue', hand[Thermal])
      BY <3>2, <3>3 DEF OneMore, GainsAt
    <3> QED BY <1>2, <1>6, <2>2, <3>4 DEF Kind, PutsDown
  <2> QED BY <2>1, <2>2
<1>7. CASE PreemptInsert
  <2>1. /\ queue' = [queue EXCEPT ![at[Thermal]] = insertJobAt(@, 1, hand[Thermal])]
        /\ hand' = [hand EXCEPT ![Thermal] = NoJob]
        /\ UNCHANGED <<stopped, done, jobCounter>> /\ pc[Thermal] # "stop_wait"
    BY <1>7 DEF PreemptInsert
  <2> QED BY <1>0, <1>6, <2>1
<1>8. CASE Reinsert
  <2>1. /\ queue' = [queue EXCEPT ![dest[Thermal]] = insertJobAt(@, call.position, hand[Thermal])]
        /\ hand' = [hand EXCEPT ![Thermal] = NoJob]
        /\ UNCHANGED <<stopped, done, jobCounter>> /\ pc[Thermal] # "stop_wait"
    BY <1>8 DEF Reinsert
  <2> QED BY <1>00, <1>000, <1>6, <2>1
<1>9. ASSUME NEW a \in Core, NEW b, NEW p \in Position, NEW q, TakeOut(a, p, b, q)
      PROVE  Kind(Thermal)
  <2> PICK x : x = peek_at(queue[a], p)
    OBVIOUS
  <2>0. p \in Int
    BY Assumed DEF Position, Assumptions
  <2>1. /\ x # NoJob /\ hand' = [hand EXCEPT ![Thermal] = x]
        /\ queue' = [queue EXCEPT ![a] = pop_at(@, p)]
        /\ UNCHANGED <<stopped, done, jobCounter>> /\ pc[Thermal] = "call"
    BY <1>9 DEF TakeOut
  <2>2. hand[Thermal] = NoJob /\ OnCore' = OnCore
    BY <1>1, <1>2, <2>1 DEF HandFree
  <2>3. queue[a] \in Seq(Job)
    BY <1>00
  <2>4. x \in Job
    <3>1. p + 1 \in 1..Len(queue[a]) /\ x = queue[a][p + 1]
      BY <2>0, <2>1, <2>3 DEF peek_at, ValidPosition
    <3> QED BY <2>3, <3>1
  <2>5. queue'[a] = pop_at(queue[a], p) /\ \A d \in Core \ {a} : queue'[d] = queue[d]
    BY <1>00, <2>1
  <2>6. OneMore(queue', queue, x)
    BY <1>00, <2>0, <2>1, <2>3, <2>5, PopAtPlace DEF OneMore, GainsAt
  <2> QED BY <2>1, <2>2, <2>4, <2>6 DEF Kind, PicksUp
<1>10. ASSUME NEW b \in Core, NEW p \in Position, NEW n, AdvanceJobInQueue(b, p, n) PROVE Kind(Thermal)
  BY <1>9, <1>10 DEF AdvanceJobInQueue
<1>11. ASSUME NEW a \in Core, NEW b, NEW p \in Position, NEW q, MoveJobToAnotherQueue(a, p, b, q)
       PROVE  Kind(Thermal)
  BY <1>9, <1>11 DEF MoveJobToAnotherQueue
<1>12. CASE StopLock(Thermal) \/ StopPost(Thermal)
  BY <1>3, <1>12 DEF StopLock, StopPost
<1>13. CASE StopWait(Thermal)
  <2> PICK c \in Core : c = at[Thermal]
    BY <1>0
  <2>1. OnCore' = [OnCore EXCEPT ![c] = NoJob] /\ OnCore[c] = current_job[c]
    BY <1>0, <1>13, StopServes
  <2>2. /\ pc[Thermal] = "stop_wait" /\ hand' = [hand EXCEPT ![Thermal] = victim[Thermal]]
        /\ stopped' = stopped \ {victim[Thermal]}
        /\ UNCHANGED <<queue, done, jobCounter>>
    BY <1>0, <1>13 DEF StopWait
  <2>3. current_job[c] = victim[Thermal] /\ victim[Thermal] # NoJob
    BY <2>2 DEF HandInv
  <2>4. hand[Thermal] = NoJob
    BY <1>1, <2>2 DEF HandFree
  <2>5. HandsOver(c, Thermal)
    BY <2>1, <2>2, <2>3, <2>4 DEF HandsOver, Leaves
  <2> QED BY <2>5 DEF Kind
<1>14. CASE StopCurrentJob(Thermal)
  BY <1>12, <1>13, <1>14 DEF StopCurrentJob
<1>15. CASE InsertJobToQueue(Thermal)
  <2>1. pc[Thermal] \in {"ins_lock", "ins_push", "ins_unlock"}
    BY <1>0, <1>15, InsertSlot, Threads
  <2> QED BY <1>0, <1>2, <1>15, <2>1, InsertKind
<1> QED BY <1>4, <1>5, <1>7, <1>8, <1>10, <1>11, <1>14, <1>15 DEF ThermalApproach

LEMMA MainKind ==
  ASSUME TypeOK, WorkerInv, EndRun \/ Join
  PROVE  Kind(Main)
<1>0. /\ Main \in Thread /\ Main \in Stopper /\ Main \notin Core /\ StepOf(Main)
      /\ at[Main] \in Core
  BY Threads DEF StepOf, TypeOK
<1> USE DEF carryVars, processorVars, historyVars, taskVars, workerVars
<1>1. ASSUME UNCHANGED <<queue, hand, stopped, done, jobCounter>>, pc[Main] # "stop_wait"
      PROVE  Kind(Main)
  <2>1. \A c \in Core : CoreStays(c)
    BY <1>0, <1>1, ForeignCore DEF StopsAt, StopWait
  <2>2. OnCore' = OnCore
    BY <1>0, <2>1, OnCoreStays
  <2> QED BY <1>1, <2>2 DEF Kind, Quiet
<1>2. CASE EndRun \/ JoinThreads \/ JoinWorker \/ JoinWait
  BY <1>1, <1>2 DEF EndRun, JoinThreads, JoinWorker, JoinWait
<1>3. CASE StopLock(Main) \/ StopPost(Main)
  BY <1>1, <1>3 DEF StopLock, StopPost
<1>4. CASE StopWait(Main)
  <2> PICK c \in Core : c = at[Main]
    BY <1>0
  <2>1. OnCore' = [OnCore EXCEPT ![c] = NoJob] /\ OnCore[c] = current_job[c]
    BY <1>0, <1>4, StopServes
  <2>2. /\ stopped' = stopped \cup ({current_job[c]} \ {NoJob})
        /\ UNCHANGED <<queue, hand, done, jobCounter>>
    BY <1>4 DEF StopWait
  <2>3. CASE current_job[c] = NoJob
    <3>0. OnCore = [d \in Core |-> OnCore[d]]
      BY DEF OnCore
    <3>1. OnCore' = OnCore /\ stopped' = stopped
      BY <2>1, <2>2, <2>3, <3>0
    <3> QED BY <2>2, <3>1 DEF Kind, Quiet
  <2>4. CASE current_job[c] # NoJob
    <3>1. Stops(c)
      BY <2>1, <2>2, <2>4 DEF Stops, Leaves
    <3> QED BY <3>1 DEF Kind
  <2> QED BY <2>3, <2>4
<1> QED BY <1>2, <1>3, <1>4 DEF Join, StopCurrentJob

LEMMA PlaceStep ==
  ASSUME TypeOK, WorkerInv, StopInv, HandInv, NEW t \in Thread, StepOf(t)
  PROVE  Kind(t)
  BY DispatcherKind, WorkerKind, ThermalKind, MainKind DEF StepOf

-----------------------------------------------------------------------------
(* Each kind of step keeps every job in one place.                          *)

LEMMA PlaceNumbers ==
  ASSUME TypeOK, NEW j
  PROVE  /\ Cardinality(Queued(j)) \in Nat /\ Cardinality(Carrying(j)) \in Nat
         /\ Cardinality(ServedBy(j)) \in Nat
<1>1. Queued(j) = Places(queue, j) /\ queue \in [Core -> Seq(Job)]
  BY DEF Queued, Places, TypeOK
<1>2. Carrying(j) \in SUBSET Thread /\ ServedBy(j) \in SUBSET Thread
  BY DEF Carrying, ServedBy, Thread
<1> QED BY <1>1, <1>2, PlacesFinite, ThreadsFinite

LEMMA PlaceNumbersNext ==
  ASSUME TypeOK', NEW j
  PROVE  /\ Cardinality(Queued(j)') \in Nat /\ Cardinality(Carrying(j)') \in Nat
         /\ Cardinality(ServedBy(j)') \in Nat
<1>1. Queued(j)' = Places(queue', j) /\ queue' \in [Core -> Seq(Job)]
  BY DEF Queued, Places, TypeOK
<1>2. Carrying(j)' \in SUBSET Thread /\ ServedBy(j)' \in SUBSET Thread
  BY DEF Carrying, ServedBy, Thread
<1> QED BY <1>1, <1>2, PlacesFinite, ThreadsFinite

LEMMA HandCount ==
  ASSUME TypeOK, NEW t \in Thread, NEW y, hand' = [hand EXCEPT ![t] = y], NEW j
  PROVE  Cardinality(Carrying(j)') + Is(hand[t], j) = Cardinality(Carrying(j)) + Is(y, j)
<1>1. /\ Carrying(j) \in SUBSET Thread /\ Carrying(j)' \in SUBSET Thread
      /\ Carrying(j) \ {t} = Carrying(j)' \ {t}
      /\ (t \in Carrying(j) <=> hand[t] = j) /\ (t \in Carrying(j)' <=> y = j)
  BY DEF Carrying, TypeOK
<1>2. One(t \in Carrying(j)) = Is(hand[t], j) /\ One(t \in Carrying(j)') = Is(y, j)
  BY <1>1 DEF One, Is
<1> QED BY <1>1, <1>2, SizeStep

LEMMA ServeCount ==
  ASSUME NEW c \in Core, NEW y, OnCore' = [OnCore EXCEPT ![c] = y], NEW j
  PROVE  Cardinality(ServedBy(j)') + Is(OnCore[c], j) = Cardinality(ServedBy(j)) + Is(y, j)
<1>1. ServedBy(j) = {d \in Core : OnCore[d] = j} /\ ServedBy(j)' = {d \in Core : OnCore'[d] = j}
  BY DEF ServedBy, OnCore
<1>2. OnCore \in [Core -> {OnCore[d] : d \in Core}]
  BY DEF OnCore
<1>3. /\ ServedBy(j) \in SUBSET Thread /\ ServedBy(j)' \in SUBSET Thread /\ c \in Thread
      /\ ServedBy(j) \ {c} = ServedBy(j)' \ {c}
      /\ (c \in ServedBy(j) <=> OnCore[c] = j) /\ (c \in ServedBy(j)' <=> y = j)
  BY <1>1, <1>2 DEF Thread
<1>4. One(c \in ServedBy(j)) = Is(OnCore[c], j) /\ One(c \in ServedBy(j)') = Is(y, j)
  BY <1>3 DEF One, Is
<1> QED BY <1>3, <1>4, SizeStep

LEMMA QueueCount ==
  ASSUME TypeOK, TypeOK', NEW x, NEW j
  PROVE  /\ OneMore(queue, queue', x) =>
              Cardinality(Queued(j)') = Cardinality(Queued(j)) + Is(x, j)
         /\ OneMore(queue', queue, x) =>
              Cardinality(Queued(j)) = Cardinality(Queued(j)') + Is(x, j)
<1>1. Queued(j) = Places(queue, j) /\ Queued(j)' = Places(queue', j)
  BY DEF Queued, Places
<1>2. queue \in [Core -> Seq(Job)] /\ queue' \in [Core -> Seq(Job)]
  BY DEF TypeOK
<1> QED BY <1>1, <1>2, PlacesInserted

(* How often a job is found at all; a step changes that as it changes how   *)
(* often it must be.                                                        *)
Total(j) == Cardinality(Queued(j)) + Cardinality(Carrying(j)) + Cardinality(ServedBy(j))
              + One(j \in stopped) + One(j \in done)

KeepsSum(j) == Total(j)' + One(Released(j)) = Total(j) + One(Released(j)')

LEMMA KindCounts ==
  ASSUME TypeOK, TypeOK', JobInOnePlace, NEW t \in Thread, Kind(t), NEW j \in Job
  PROVE  KeepsSum(j)
<1>1. /\ Cardinality(Queued(j)) \in Nat /\ Cardinality(Carrying(j)) \in Nat
      /\ Cardinality(ServedBy(j)) \in Nat
      /\ Cardinality(Queued(j)') \in Nat /\ Cardinality(Carrying(j)') \in Nat
      /\ Cardinality(ServedBy(j)') \in Nat
  BY PlaceNumbers, PlaceNumbersNext
<1>2. /\ queue' = queue => Queued(j)' = Queued(j)
      /\ hand' = hand => Carrying(j)' = Carrying(j)
      /\ OnCore' = OnCore => ServedBy(j)' = ServedBy(j)
      /\ jobCounter' = jobCounter => (Released(j)' <=> Released(j))
  <2>1. ServedBy(j) = {d \in Core : OnCore[d] = j} /\ ServedBy(j)' = {d \in Core : OnCore'[d] = j}
    BY DEF ServedBy, OnCore
  <2> QED BY <2>1 DEF Queued, Carrying, Released
<1>3. NoJob # j
  BY Assumed DEF Assumptions
<1>4. \A b \in BOOLEAN : One(b) \in {0, 1} /\ (One(b) = 1 <=> b)
  BY DEF One, Is
<1>5. CASE Quiet
  BY <1>2, <1>5 DEF Quiet, KeepsSum, Total, One, Is
<1>6. CASE t \in Dispatcher /\ Creates(t)
  <2> DEFINE x == <<t, jobCounter[t] + 1>>
  <2>1. Cardinality(Carrying(j)') = Cardinality(Carrying(j)) + Is(x, j)
    <3>1. hand[t] = NoJob /\ hand' = [hand EXCEPT ![t] = x]
      BY <1>6 DEF Creates
    <3>2. Cardinality(Carrying(j)') + Is(hand[t], j) = Cardinality(Carrying(j)) + Is(x, j)
      BY <3>1, HandCount
    <3>3. Is(hand[t], j) = 0 /\ Is(x, j) \in Nat
      BY <1>3, <3>1 DEF One, Is
    <3> QED BY <1>1, <3>2, <3>3
  <2>2. One(Released(j)') = One(Released(j)) + Is(x, j)
    <3>0. PICK d \in Dispatcher, n \in 1..MaxJobs : j = <<d, n>>
      BY DEF Job
    <3>1. jobCounter \in [Dispatcher -> 0..MaxJobs] /\ MaxJobs \in Nat
      BY Assumed DEF TypeOK, Assumptions
    <3>2. jobCounter' = [jobCounter EXCEPT ![t] = @ + 1]
      BY <1>6 DEF Creates
    <3>3. (Released(j) <=> n <= jobCounter[d]) /\ (Released(j)' <=> n <= jobCounter'[d])
      BY <3>0 DEF Released
    <3>4. jobCounter[d] \in Int /\ n \in Int
      BY <3>1
    <3>5. CASE d = t
      <4>1. jobCounter'[d] = jobCounter[d] + 1 /\ (x = j <=> n = jobCounter[d] + 1)
        BY <1>6, <3>0, <3>1, <3>2, <3>5
      <4> HIDE DEF x
      <4> QED BY <3>3, <3>4, <4>1 DEF One, Is
    <3>6. CASE d # t
      <4>1. jobCounter'[d] = jobCounter[d] /\ x # j
        BY <1>6, <3>0, <3>1, <3>2, <3>6
      <4> HIDE DEF x
      <4> QED BY <3>3, <3>4, <4>1 DEF One, Is
    <3> QED BY <3>5, <3>6
  <2>3. Queued(j)' = Queued(j) /\ ServedBy(j)' = ServedBy(j) /\ stopped' = stopped /\ done' = done
    BY <1>2, <1>6 DEF Creates
  <2>4. /\ Is(x, j) \in Nat /\ One(Released(j)) \in Nat /\ One(Released(j)') \in Nat
        /\ One(j \in stopped) \in Nat /\ One(j \in done) \in Nat
    BY DEF One, Is
  <2> HIDE DEF x
  <2> QED BY <1>1, <2>1, <2>2, <2>3, <2>4 DEF KeepsSum, Total
<1>7. CASE PutsDown(t)
  <2>0. hand' = [hand EXCEPT ![t] = NoJob] /\ OneMore(queue, queue', hand[t])
    BY <1>7 DEF PutsDown
  <2>1. Cardinality(Carrying(j)') + Is(hand[t], j) = Cardinality(Carrying(j)) + Is(NoJob, j)
    BY <2>0, HandCount
  <2>4. Cardinality(Queued(j)') = Cardinality(Queued(j)) + Is(hand[t], j)
    BY <2>0, QueueCount
  <2>2. /\ ServedBy(j)' = ServedBy(j) /\ (Released(j)' <=> Released(j))
        /\ stopped' = stopped /\ done' = done
    BY <1>2, <1>7 DEF PutsDown
  <2>3. Is(NoJob, j) = 0 /\ Is(hand[t], j) \in Nat
    BY <1>3 DEF One, Is
  <2> QED BY <1>1, <2>1, <2>2, <2>3, <2>4 DEF KeepsSum, Total, One
<1>8. CASE PicksUp(t)
  <2>1. PICK x \in Job : /\ hand[t] = NoJob /\ hand' = [hand EXCEPT ![t] = x]
                         /\ OneMore(queue', queue, x)
                         /\ UNCHANGED <<OnCore, stopped, done, jobCounter>>
    BY <1>8 DEF PicksUp
  <2>2. Cardinality(Carrying(j)') + Is(hand[t], j) = Cardinality(Carrying(j)) + Is(x, j)
    BY <2>1, HandCount
  <2>5. Cardinality(Queued(j)) = Cardinality(Queued(j)') + Is(x, j)
    BY <2>1, QueueCount
  <2>3. /\ ServedBy(j)' = ServedBy(j) /\ (Released(j)' <=> Released(j))
        /\ stopped' = stopped /\ done' = done
    BY <1>2, <2>1
  <2>4. Is(hand[t], j) = 0 /\ Is(x, j) \in Nat
    BY <1>3, <2>1 DEF One, Is
  <2> QED BY <1>1, <2>2, <2>3, <2>4, <2>5 DEF KeepsSum, Total, One
<1>9. CASE t \in Core /\ Starts(t)
  <2>0. hand' = [hand EXCEPT ![t] = NoJob] /\ OnCore' = [OnCore EXCEPT ![t] = hand[t]]
    BY <1>9 DEF Starts
  <2>1. Cardinality(Carrying(j)') + Is(hand[t], j) = Cardinality(Carrying(j)) + Is(NoJob, j)
    BY <2>0, HandCount
  <2>4. Cardinality(ServedBy(j)') + Is(OnCore[t], j) = Cardinality(ServedBy(j)) + Is(hand[t], j)
    BY <1>9, <2>0, ServeCount
  <2>2. /\ Queued(j)' = Queued(j) /\ (Released(j)' <=> Released(j))
        /\ stopped' = stopped /\ done' = done
    BY <1>2, <1>9 DEF Starts
  <2>3. Is(NoJob, j) = 0 /\ Is(hand[t], j) \in Nat /\ Is(OnCore[t], j) = 0
    BY <1>3, <1>9 DEF One, Is, Starts
  <2> QED BY <1>1, <2>1, <2>2, <2>3, <2>4 DEF KeepsSum, Total, One
<1>10. ASSUME NEW c \in Core, Stops(c) \/ Finishes(c) \/ HandsOver(c, t) PROVE KeepsSum(j)
  <2> PICK x : x = OnCore[c]
    OBVIOUS
  <2>1. Cardinality(ServedBy(j)') + Is(x, j) = Cardinality(ServedBy(j))
    <3>1. OnCore' = [OnCore EXCEPT ![c] = NoJob]
      BY <1>10 DEF Stops, Finishes, HandsOver, Leaves
    <3>2. Cardinality(ServedBy(j)') + Is(OnCore[c], j) = Cardinality(ServedBy(j)) + Is(NoJob, j)
      BY <3>1, ServeCount
    <3>3. Is(NoJob, j) = 0
      BY <1>3 DEF One, Is
    <3> QED BY <1>1, <3>2, <3>3
  <2>2. /\ Queued(j)' = Queued(j) /\ One(Released(j)') = One(Released(j))
    <3>1. UNCHANGED <<queue, jobCounter>>
      BY <1>10 DEF Stops, Finishes, HandsOver, Leaves
    <3> QED BY <1>2, <3>1 DEF One, Is
  (* A job that is served is nowhere else. *)
  <2>3. x = j => j \notin stopped /\ j \notin done
    <3>1. Cardinality(Queued(j)) + Cardinality(Carrying(j)) + Cardinality(ServedBy(j))
            + One(j \in stopped) + One(j \in done) = One(Released(j))
      BY DEF JobInOnePlace
    <3>2. /\ One(j \in stopped) \in Nat /\ One(j \in done) \in Nat /\ One(Released(j)) \in {0, 1}
      BY DEF One, Is
    <3>3. x = j => Cardinality(ServedBy(j)) >= 1
      BY <1>1, <2>1 DEF One, Is
    <3>4. x = j => One(j \in stopped) = 0 /\ One(j \in done) = 0
      BY <1>1, <3>1, <3>2, <3>3
    <3> QED BY <3>4 DEF One, Is
  <2>4. Is(x, j) \in Nat /\ One(Released(j)) \in Nat /\ One(j \in stopped) \in Nat /\ One(j \in done) \in Nat
    BY DEF One, Is
  <2>5. CASE Stops(c)
    <3>1. Carrying(j)' = Carrying(j) /\ done' = done /\ stopped' = stopped \cup {x}
      BY <1>2, <2>5 DEF Stops
    <3>2. One(j \in stopped') = One(j \in stopped) + Is(x, j)
      BY <2>3, <3>1 DEF One, Is
    <3> QED BY <1>1, <2>1, <2>2, <2>4, <3>1, <3>2 DEF KeepsSum, Total
  <2>6. CASE Finishes(c)
    <3>1. Carrying(j)' = Carrying(j) /\ stopped' = stopped /\ done' = done \cup {x}
      BY <1>2, <2>6 DEF Finishes
    <3>2. One(j \in done') = One(j \in done) + Is(x, j)
      BY <2>3, <3>1 DEF One, Is
    <3> QED BY <1>1, <2>1, <2>2, <2>4, <3>1, <3>2 DEF KeepsSum, Total
  <2>7. CASE HandsOver(c, t)
    <3>1. /\ hand[t] = NoJob /\ hand' = [hand EXCEPT ![t] = x] /\ done' = done
          /\ stopped' \in {stopped, stopped \ {x}}
      BY <2>7 DEF HandsOver
    <3>2. Cardinality(Carrying(j)') = Cardinality(Carrying(j)) + Is(x, j)
      <4>1. Cardinality(Carrying(j)') + Is(hand[t], j) = Cardinality(Carrying(j)) + Is(x, j)
        BY <3>1, HandCount
      <4>2. Is(hand[t], j) = 0
        BY <1>3, <3>1 DEF One, Is
      <4> QED BY <1>1, <4>1, <4>2
    <3>3. One(j \in stopped') = One(j \in stopped) /\ One(j \in done') = One(j \in done)
      BY <2>3, <3>1 DEF One, Is
    <3> QED BY <1>1, <2>1, <2>2, <2>4, <3>2, <3>3 DEF KeepsSum, Total
  <2> QED BY <1>10, <2>5, <2>6, <2>7
<1> QED BY <1>5, <1>6, <1>7, <1>8, <1>9, <1>10 DEF Kind

LEMMA PlaceInit == Init => JobInOnePlace
<1> SUFFICES ASSUME Init, NEW j \in Job
             PROVE  /\ Cardinality(Queued(j)) = 0 /\ Cardinality(Carrying(j)) = 0
                    /\ Cardinality(ServedBy(j)) = 0
                    /\ j \notin stopped /\ j \notin done /\ ~Released(j)
  BY DEF JobInOnePlace, One, Is
<1>1. NoJob # j
  BY Assumed DEF Assumptions
<1>2. Queued(j) = {}
  BY DEF Init, Queued
<1>3. Carrying(j) = {}
  BY <1>1 DEF Init, Carrying
<1>4. ServedBy(j) = {}
  BY <1>1 DEF Init, ServedBy, Serving
<1>5. ~Released(j)
  <2>1. j[1] \in Dispatcher /\ j[2] \in 1..MaxJobs
    BY DEF Job
  <2>2. jobCounter[j[1]] = 0
    BY <2>1 DEF Init
  <2> QED BY <2>1, <2>2, Assumed DEF Released, Assumptions
<1> QED BY <1>2, <1>3, <1>4, <1>5, FS_EmptySet DEF Init

LEMMA PlaceInvariant ==
  Spec => [](TypeOK /\ WorkerInv /\ StopInv /\ HandInv /\ JobInOnePlace)
<1>1. /\ TypeOK /\ TypeOK' /\ WorkerInv /\ StopInv /\ HandInv /\ JobInOnePlace
      /\ [Next]_vars
      => JobInOnePlace'
  <2> SUFFICES ASSUME TypeOK, TypeOK', WorkerInv, StopInv, HandInv, JobInOnePlace, [Next]_vars
               PROVE  JobInOnePlace'
    OBVIOUS
  <2>1. CASE UNCHANGED vars
    BY <2>1 DEF vars, JobInOnePlace, Queued, Carrying, ServedBy, Serving, Released, processorVars,
                workerVars, carryVars, historyVars, taskVars
  <2>2. ASSUME NEW t \in Thread, StepOf(t) PROVE JobInOnePlace'
    <3>1. Kind(t)
      BY <2>2, PlaceStep
    <3> SUFFICES ASSUME NEW j \in Job PROVE Total(j)' = One(Released(j)')
      BY DEF JobInOnePlace, Total
    <3>2. Total(j)' + One(Released(j)) = Total(j) + One(Released(j)')
      BY <3>1, KindCounts DEF KeepsSum
    <3>3. Total(j) = One(Released(j))
      BY DEF JobInOnePlace, Total
    <3>4. Total(j) \in Nat /\ Total(j)' \in Nat
      <4>1. /\ Cardinality(Queued(j)) \in Nat /\ Cardinality(Carrying(j)) \in Nat
            /\ Cardinality(ServedBy(j)) \in Nat
            /\ Cardinality(Queued(j)') \in Nat /\ Cardinality(Carrying(j)') \in Nat
            /\ Cardinality(ServedBy(j)') \in Nat
        BY PlaceNumbers, PlaceNumbersNext
      <4> QED BY <4>1 DEF Total, One
    <3>5. One(Released(j)) \in Nat /\ One(Released(j)') \in Nat
      BY DEF One
    <3> QED BY <3>2, <3>3, <3>4, <3>5
  <2> QED BY <2>1, <2>2, EveryStep
<1> QED BY <1>1, PlaceInit, HandInvariant, PTL DEF Spec

(* No job is lost and none is duplicated, for any number of cores, jobs and *)
(* dispatchers and any sequence of CMI calls: each released job is at one   *)
(* place of one queue, in one hand, on one core, stopped or done.           *)
THEOREM JobsConserved == Spec => []JobInOnePlace
  BY PlaceInvariant, PTL

-----------------------------------------------------------------------------
(* The refinement.  Because a job is in one place, the jobs that wait are   *)
(* those released that no core serves and that are not done.                *)

Idle == {j \in Job : Released(j) /\ j \notin done /\ \A c \in Core : OnCore[c] # j}

LEMMA ServedAlone ==
  ASSUME TypeOK, JobInOnePlace, NEW c \in Core, OnCore[c] # NoJob
  PROVE  /\ OnCore[c] \in Job /\ Released(OnCore[c]) /\ OnCore[c] \notin done
         /\ \A d \in Core \ {c} : OnCore[d] # OnCore[c]
<1> PICK x : x = OnCore[c]
  OBVIOUS
<1>1. x \in Job
  BY DEF OnCore, Serving, TypeOK, MaybeJob
<1>2. ServedBy(x) = {d \in Core : OnCore[d] = x} /\ c \in ServedBy(x)
  BY DEF ServedBy, OnCore
<1>3. IsFiniteSet(ServedBy(x))
  <2>1. ServedBy(x) \in SUBSET Thread
    BY <1>2 DEF Thread
  <2> QED BY <2>1, ThreadsFinite
<1>4. /\ Cardinality(ServedBy(x) \ {c}) = Cardinality(ServedBy(x)) - 1
      /\ Cardinality(ServedBy(x) \ {c}) \in Nat
      /\ (Cardinality(ServedBy(x) \ {c}) = 0) => (ServedBy(x) \ {c} = {})
  <2>1. IsFiniteSet(ServedBy(x) \ {c}) /\ Cardinality(ServedBy(x) \ {c}) = Cardinality(ServedBy(x)) - 1
    BY <1>2, <1>3, FS_RemoveElement
  <2> QED BY <2>1, FS_CardinalityType, FS_EmptySet
<1>5. Total(x) = One(Released(x))
  BY <1>1 DEF JobInOnePlace, Total
<1>6. /\ One(Released(x)) \in {0, 1} /\ One(x \in stopped) \in Nat /\ One(x \in done) \in Nat
      /\ Cardinality(Queued(x)) \in Nat /\ Cardinality(Carrying(x)) \in Nat
      /\ Cardinality(ServedBy(x)) \in Nat
  BY PlaceNumbers DEF One
<1>7. One(Released(x)) = 1 /\ One(x \in done) = 0 /\ Cardinality(ServedBy(x) \ {c}) = 0
  BY <1>4, <1>5, <1>6 DEF Total
<1>8. Released(x) /\ x \notin done
  BY <1>7 DEF One
<1>9. ServedBy(x) \ {c} = {}
  BY <1>4, <1>7
<1>10. \A d \in Core \ {c} : OnCore[d] # x
  BY <1>2, <1>9
<1> QED BY <1>1, <1>8, <1>10

LEMMA WaitingIsIdle ==
  ASSUME TypeOK, JobInOnePlace
  PROVE  Waiting = Idle
<1>0. NoJob \notin Job
  BY Assumed DEF Assumptions
<1>1. Waiting \subseteq Job
  <2>1. \A t \in Thread : hand[t] # NoJob => hand[t] \in Job
    BY DEF TypeOK, MaybeJob
  <2>2. stopped \subseteq Job
    BY DEF TypeOK
  <2>3. ASSUME NEW c \in Core, NEW i \in DOMAIN queue[c] PROVE queue[c][i] \in Job
    <3>1. queue[c] \in Seq(Job)
      BY DEF TypeOK
    <3> QED BY <3>1
  <2> QED BY <2>1, <2>2, <2>3 DEF Waiting
<1>2. ASSUME NEW j \in Job PROVE j \in Waiting <=> j \in Idle
  <2>1. /\ (Queued(j) = {}) <=> \A c \in Core : \A i \in DOMAIN queue[c] : queue[c][i] # j
        /\ (Carrying(j) = {}) <=> \A t \in Thread : hand[t] # j
        /\ (ServedBy(j) = {}) <=> \A c \in Core : OnCore[c] # j
    <3>1. (Queued(j) = {}) <=> \A c \in Core : \A i \in DOMAIN queue[c] : queue[c][i] # j
      <4>1. \A s : s \in Queued(j) <=> \E c \in Core : \E i \in DOMAIN queue[c] : s = <<c, i>> /\ queue[c][i] = j
        BY DEF Queued
      <4> QED BY <4>1
    <3>2. (Carrying(j) = {}) <=> \A t \in Thread : hand[t] # j
      BY DEF Carrying
    <3>3. (ServedBy(j) = {}) <=> \A c \in Core : OnCore[c] # j
      BY DEF ServedBy, OnCore
    <3> QED BY <3>1, <3>2, <3>3
  <2>2. (j \in Waiting) <=> (Queued(j) # {} \/ Carrying(j) # {} \/ j \in stopped)
    <3>1. j # NoJob
      BY <1>0
    <3> QED BY <2>1, <3>1 DEF Waiting
  <2>3. /\ Cardinality(Queued(j)) \in Nat /\ ((Cardinality(Queued(j)) = 0) <=> (Queued(j) = {}))
        /\ Cardinality(Carrying(j)) \in Nat /\ ((Cardinality(Carrying(j)) = 0) <=> (Carrying(j) = {}))
        /\ Cardinality(ServedBy(j)) \in Nat /\ ((Cardinality(ServedBy(j)) = 0) <=> (ServedBy(j) = {}))
    <3>1. Queued(j) = Places(queue, j) /\ queue \in [Core -> Seq(Job)]
      BY DEF Queued, Places, TypeOK
    <3>2. Carrying(j) \in SUBSET Thread /\ ServedBy(j) \in SUBSET Thread
      BY DEF Carrying, ServedBy, Thread
    <3>3. IsFiniteSet(Queued(j)) /\ IsFiniteSet(Carrying(j)) /\ IsFiniteSet(ServedBy(j))
      BY <3>1, <3>2, PlacesFinite, ThreadsFinite
    <3> QED BY <3>3, PlaceNumbers, FS_EmptySet
  <2>4. Total(j) = One(Released(j))
    BY DEF JobInOnePlace, Total
  <2>5. CASE Released(j)
    <3>1. Total(j) = 1
      BY <2>4, <2>5 DEF One
    <3>2. /\ (One(j \in stopped) = 0) <=> (j \notin stopped)
          /\ (One(j \in done) = 0) <=> (j \notin done)
          /\ One(j \in stopped) \in Nat /\ One(j \in done) \in Nat
      BY DEF One
    <3>3. \/ Cardinality(Queued(j)) # 0 \/ Cardinality(Carrying(j)) # 0 \/ One(j \in stopped) # 0
          \/ Cardinality(ServedBy(j)) # 0 \/ One(j \in done) # 0
      BY <2>3, <3>1, <3>2 DEF Total
    <3>4. (Cardinality(ServedBy(j)) # 0 \/ One(j \in done) # 0)
          => (Cardinality(Queued(j)) = 0 /\ Cardinality(Carrying(j)) = 0 /\ One(j \in stopped) = 0)
      BY <2>3, <3>1, <3>2 DEF Total
    <3>5. (Queued(j) # {} \/ Carrying(j) # {} \/ j \in stopped) <=> (ServedBy(j) = {} /\ j \notin done)
      BY <2>3, <3>2, <3>3, <3>4
    <3> QED BY <2>1, <2>2, <2>5, <3>5 DEF Idle
  <2>6. CASE ~Released(j)
    <3>1. Total(j) = 0
      BY <2>4, <2>6 DEF One
    <3>2. (One(j \in stopped) = 0 => j \notin stopped) /\ One(j \in stopped) \in Nat /\ One(j \in done) \in Nat
      BY DEF One
    <3> PICK q : q = Cardinality(Queued(j))
      OBVIOUS
    <3> PICK h : h = Cardinality(Carrying(j))
      OBVIOUS
    <3> PICK s : s = Cardinality(ServedBy(j))
      OBVIOUS
    <3> PICK u : u = One(j \in stopped)
      OBVIOUS
    <3> PICK e : e = One(j \in done)
      OBVIOUS
    <3>3. q \in Nat /\ h \in Nat /\ s \in Nat /\ u \in Nat /\ e \in Nat
      BY <2>3, <3>2
    <3>4. q + h + s + u + e = 0
      BY <3>1 DEF Total
    <3>5. q = 0 /\ h = 0 /\ u = 0
      <4>1. q >= 0 /\ h >= 0 /\ s >= 0 /\ u >= 0 /\ e >= 0
        BY <3>3
      <4>2. q <= 0
        BY <3>3, <3>4, <4>1
      <4>3. h <= 0
        BY <3>3, <3>4, <4>1
      <4>4. u <= 0
        BY <3>3, <3>4, <4>1
      <4> QED BY <3>3, <4>1, <4>2, <4>3, <4>4
    <3> QED BY <2>2, <2>3, <3>5, <2>6, <3>2, <3>3 DEF Idle
  <2> QED BY <2>5, <2>6
<1> QED BY <1>1, <1>2 DEF Idle

(* Each kind of step is a step of JobLifecycle, or changes nothing of it.   *)
LEMMA KindLives ==
  ASSUME TypeOK, TypeOK', JobInOnePlace, Waiting = Idle, Waiting' = Idle', NEW t \in Thread, Kind(t)
  PROVE  Lifecycle!Next \/ UNCHANGED Lifecycle!vars
<1>0. NoJob \notin Job
  BY Assumed DEF Assumptions
<1>1. ASSUME UNCHANGED <<OnCore, done, jobCounter>>
      PROVE  UNCHANGED Lifecycle!vars
  <2>1. Idle' = Idle
    BY <1>1 DEF Idle, Released
  <2> QED BY <1>1, <2>1 DEF Lifecycle!vars
<1>2. CASE Quiet \/ PutsDown(t) \/ PicksUp(t)
  BY <1>1, <1>2 DEF Quiet, PutsDown, PicksUp
<1>3. CASE t \in Dispatcher /\ Creates(t)
  <2> PICK n : n = jobCounter[t] + 1
    OBVIOUS
  <2> PICK x : x = <<t, n>>
    OBVIOUS
  <2>1. /\ jobCounter' = [jobCounter EXCEPT ![t] = n]
        /\ jobCounter \in [Dispatcher -> 0..MaxJobs] /\ jobCounter' \in [Dispatcher -> 0..MaxJobs]
        /\ jobCounter[t] \in 0..MaxJobs /\ MaxJobs \in Nat
        /\ UNCHANGED <<OnCore, done>>
    BY <1>3, Assumed DEF Creates, TypeOK, Assumptions
  <2>2. x \in Job /\ ~Released(x)
    <3>1. n \in 1..MaxJobs /\ ~(n <= jobCounter[t])
      <4>1. jobCounter'[t] = n /\ jobCounter'[t] \in 0..MaxJobs
        BY <1>3, <2>1
      <4> QED BY <2>1, <4>1
    <3> QED BY <1>3, <3>1 DEF Job, Released
  <2>3. \A j \in Job : Released(j)' <=> Released(j) \/ j = x
    <3> SUFFICES ASSUME NEW d \in Dispatcher, NEW k \in 1..MaxJobs
                 PROVE  Released(<<d, k>>)' <=> Released(<<d, k>>) \/ <<d, k>> = x
      BY DEF Job
    <3>1. k \in Int /\ jobCounter[d] \in Int
      BY <2>1
    <3>2. CASE d = t
      <4>1. jobCounter'[d] = n /\ (<<d, k>> = x <=> k = n)
        BY <1>3, <2>1, <3>2
      <4> QED BY <2>1, <3>1, <3>2, <4>1 DEF Released
    <3>3. CASE d # t
      <4>1. jobCounter'[d] = jobCounter[d] /\ <<d, k>> # x
        BY <2>1, <3>3
      <4> QED BY <4>1 DEF Released
    <3> QED BY <3>2, <3>3
  <2>4. x \notin done /\ \A c \in Core : OnCore[c] # x
    <3>1. \A c \in Core : OnCore[c] # x
      BY <1>0, <2>2, ServedAlone
    <3>2. Total(x) = 0
      BY <2>2 DEF JobInOnePlace, Total, One
    <3>3. /\ One(x \in stopped) \in Nat /\ One(x \in done) \in Nat
          /\ Cardinality(Queued(x)) \in Nat /\ Cardinality(Carrying(x)) \in Nat
          /\ Cardinality(ServedBy(x)) \in Nat
      BY PlaceNumbers DEF One
    <3>4. One(x \in done) = 0
      BY <3>2, <3>3 DEF Total
    <3> QED BY <3>1, <3>4 DEF One
  <2>5. Idle' = Idle \cup {x}
    BY <2>1, <2>2, <2>3, <2>4 DEF Idle
  <2>6. x \notin Waiting \cup Lifecycle!Served \cup done
    BY <2>2, <2>4 DEF Idle, Lifecycle!Served
  <2>7. Lifecycle!Release(x)
    BY <2>1, <2>5, <2>6 DEF Lifecycle!Release
  <2> QED BY <2>2, <2>7 DEF Lifecycle!Next
<1>4. CASE t \in Core /\ Starts(t)
  <2> PICK x : x = hand[t]
    OBVIOUS
  <2>1. /\ x # NoJob /\ OnCore[t] = NoJob /\ OnCore' = [OnCore EXCEPT ![t] = x]
        /\ UNCHANGED <<done, jobCounter>>
    BY <1>4 DEF Starts
  <2>2. x \in Job /\ x \in Waiting
    BY <2>1 DEF TypeOK, MaybeJob, Waiting
  <2>3. \A c \in Core : OnCore'[c] = IF c = t THEN x ELSE OnCore[c]
    BY <2>1 DEF OnCore
  <2>4. \A j \in Job : (\A c \in Core : OnCore'[c] # j) <=> j # x /\ \A c \in Core : OnCore[c] # j
    BY <1>0, <1>4, <2>1, <2>3
  <2>5. Idle' = Idle \ {x}
    BY <2>1, <2>4 DEF Idle, Released
  <2>6. Lifecycle!Start(t, x)
    BY <2>1, <2>2, <2>5 DEF Lifecycle!Start
  <2> QED BY <1>4, <2>2, <2>6 DEF Lifecycle!Next
<1>5. ASSUME NEW c \in Core, Stops(c) \/ Finishes(c) \/ HandsOver(c, t)
      PROVE  Lifecycle!Next
  <2> PICK x : x = OnCore[c]
    OBVIOUS
  <2>1. x # NoJob /\ OnCore' = [OnCore EXCEPT ![c] = NoJob] /\ UNCHANGED jobCounter
    BY <1>5 DEF Stops, Finishes, HandsOver, Leaves
  <2>2. x \in Job /\ Released(x) /\ x \notin done /\ \A d \in Core \ {c} : OnCore[d] # x
    BY <2>1, ServedAlone
  <2>3. \A d \in Core : OnCore'[d] = IF d = c THEN NoJob ELSE OnCore[d]
    BY <2>1 DEF OnCore
  <2>4. \A j \in Job : (\A d \in Core : OnCore'[d] # j) <=> j = x \/ \A d \in Core : OnCore[d] # j
    BY <1>0, <2>2, <2>3
  <2>5. CASE Stops(c) \/ HandsOver(c, t)
    <3>1. UNCHANGED done
      BY <2>5 DEF Stops, HandsOver
    <3>2. Idle' = Idle \cup {x}
      BY <2>1, <2>2, <2>4, <3>1 DEF Idle, Released
    <3>3. Lifecycle!GiveBack(c)
      BY <2>1, <3>1, <3>2 DEF Lifecycle!GiveBack
    <3> QED BY <3>3 DEF Lifecycle!Next
  <2>6. CASE Finishes(c)
    <3>1. done' = done \cup {x}
      BY <2>6 DEF Finishes
    <3>2. x \notin Idle
      BY DEF Idle
    <3>3. Idle' = Idle
      BY <2>1, <2>4, <3>1, <3>2 DEF Idle, Released
    <3>4. Lifecycle!Finish(c)
      BY <2>1, <3>1, <3>3 DEF Lifecycle!Finish
    <3> QED BY <3>4 DEF Lifecycle!Next
  <2> QED BY <1>5, <2>5, <2>6
<1> QED BY <1>2, <1>3, <1>4, <1>5 DEF Kind

(* The framework keeps the promise of JobLifecycle: seen from outside, jobs *)
(* are released once, start from waiting on an idle core, are given back or *)
(* finish once, whatever the interleaving of the threads and the CMI calls. *)
THEOREM JobsLive == Spec => ImplementsLifecycle
<1>1. Init => Lifecycle!Init
  <2> SUFFICES ASSUME Init PROVE Lifecycle!Init
    OBVIOUS
  <2>1. Waiting = {}
    BY DEF Init, Waiting
  <2>2. OnCore = [c \in Core |-> NoJob]
    BY DEF Init, OnCore, Serving
  <2> QED BY <2>1, <2>2 DEF Init, Lifecycle!Init
<1> DEFINE Same == Waiting = Idle
<1>2. TypeOK /\ JobInOnePlace => Same
  BY WaitingIsIdle
<1>3. /\ TypeOK /\ TypeOK' /\ WorkerInv /\ StopInv /\ HandInv /\ JobInOnePlace
      /\ Same /\ Same' /\ [Next]_vars
      => [Lifecycle!Next]_Lifecycle!vars
  <2> SUFFICES ASSUME TypeOK, TypeOK', WorkerInv, StopInv, HandInv, JobInOnePlace,
                      Waiting = Idle, Waiting' = Idle', [Next]_vars
               PROVE  Lifecycle!Next \/ UNCHANGED Lifecycle!vars
    OBVIOUS
  <2>1. CASE UNCHANGED vars
    BY <2>1 DEF vars, Lifecycle!vars, Waiting, OnCore, Serving, processorVars, workerVars,
                carryVars, historyVars
  <2>2. ASSUME NEW t \in Thread, StepOf(t) PROVE Lifecycle!Next \/ UNCHANGED Lifecycle!vars
    <3>1. Kind(t)
      BY <2>2, PlaceStep
    <3> QED BY <3>1, KindLives
  <2> QED BY <2>1, <2>2, EveryStep
<1>4. Spec => [][Lifecycle!Next]_Lifecycle!vars
  <2> HIDE DEF Same
  <2>1. Spec => []Same
    BY <1>2, PlaceInvariant, PTL
  <2>2. Spec => [][Next]_vars
    BY DEF Spec
  <2> QED BY <1>3, <2>1, <2>2, PlaceInvariant, PTL
<1>5. Spec => Lifecycle!Init
  BY <1>1 DEF Spec
<1> QED BY <1>4, <1>5 DEF ImplementsLifecycle, Lifecycle!Spec

-----------------------------------------------------------------------------
(* Pipelined jobs that nobody moves.  A job is bound to a core if that core *)
(* serves it, queues it, or is where the thread that carries it will put or *)
(* start it.                                                                *)

Target(t) == IF pc[t] \in {"ins_lock", "ins_push"} THEN dest[t] ELSE t

Bound(j, c) == \/ Serving(c) = j
               \/ \E i \in DOMAIN queue[c] : queue[c][i] = j
               \/ \E t \in Thread : hand[t] = j /\ Target(t) = c

(* What Task and Pipelined have counted for a job of core c: nothing, or    *)
(* the stage on the core where it started and those of cores 1 to c-1.      *)
Fresh(j)     == nextCoreId[j] = 0 /\ stages[j] = {}
Passed(j, c) == /\ nextCoreId[j] = c /\ c # 0
                /\ \E s \in 0..(NCores - 2) : stages[j] = {s} \cup 1..(c - 1)
Stage(j, c)  == (Fresh(j) \/ Passed(j, c)) /\ ~finished[j]
AllPassed(j) == NCores - 1 \in stages[j] /\ (0 \in stages[j] => stages[j] = Core)

Staged(j) == /\ \A c \in Core : Bound(j, c) => Stage(j, c)
             /\ ~Released(j) => Fresh(j) /\ ~finished[j]
             /\ j \in done => AllPassed(j)

(* Where an approach is that calls nothing but lockAllJobs and unlockAllJobs. *)
OnlyLocks == {"loop", "call", "returned", "lock_queue", "lock_job", "exit"}

PipeInv == /\ pc[Thermal] \in OnlyLocks
           /\ \A j \in Job : j[1] \in PipelinedTask => Staged(j)

(* The other four places of a job on a core, and all five of one that is    *)
(* not released yet, are empty.                                             *)
Unplaced(j) == /\ \A c \in Core : \A i \in DOMAIN queue[c] : queue[c][i] # j
               /\ \A t \in Thread : hand[t] # j

LEMMA SumEmpty ==
  ASSUME TypeOK, NEW j \in Job, JobInOnePlace, ~Released(j) \/ ServedBy(j) # {}
  PROVE  Unplaced(j) /\ (~Released(j) => (ServedBy(j) = {} /\ j \notin done))
<1>1. /\ Cardinality(Queued(j)) \in Nat /\ ((Cardinality(Queued(j)) = 0) => (Queued(j) = {}))
      /\ Cardinality(Carrying(j)) \in Nat /\ ((Cardinality(Carrying(j)) = 0) => (Carrying(j) = {}))
      /\ Cardinality(ServedBy(j)) \in Nat /\ ((Cardinality(ServedBy(j)) = 0) <=> (ServedBy(j) = {}))
  <2>1. Queued(j) = Places(queue, j) /\ queue \in [Core -> Seq(Job)]
    BY DEF Queued, Places, TypeOK
  <2>2. Carrying(j) \in SUBSET Thread /\ ServedBy(j) \in SUBSET Thread
    BY DEF Carrying, ServedBy, Thread
  <2>3. IsFiniteSet(Queued(j)) /\ IsFiniteSet(Carrying(j)) /\ IsFiniteSet(ServedBy(j))
    BY <2>1, <2>2, PlacesFinite, ThreadsFinite
  <2> QED BY <2>3, PlaceNumbers, FS_EmptySet
<1> PICK q : q = Cardinality(Queued(j))
  OBVIOUS
<1> PICK h : h = Cardinality(Carrying(j))
  OBVIOUS
<1> PICK s : s = Cardinality(ServedBy(j))
  OBVIOUS
<1> PICK u : u = One(j \in stopped)
  OBVIOUS
<1> PICK e : e = One(j \in done)
  OBVIOUS
<1> PICK r : r = One(Released(j))
  OBVIOUS
<1>2. q \in Nat /\ h \in Nat /\ s \in Nat /\ u \in Nat /\ e \in Nat /\ r \in {0, 1}
  BY <1>1 DEF One
<1>3. q + h + s + u + e = r
  BY DEF JobInOnePlace
<1>4. r = 0 \/ s > 0
  BY <1>1, <1>2 DEF One
<1>5. q >= 0 /\ h >= 0 /\ s >= 0 /\ u >= 0 /\ e >= 0 /\ r <= 1 /\ r - s <= 0
  BY <1>2, <1>4
<1>6. q <= 0
  BY <1>2, <1>3, <1>5
<1>7. h <= 0
  BY <1>2, <1>3, <1>5
<1>8. r = 0 => s <= 0
  BY <1>2, <1>3, <1>5
<1>12. r = 0 => e <= 0
  BY <1>2, <1>3, <1>5
<1>9. Queued(j) = {} /\ Carrying(j) = {}
  BY <1>1, <1>2, <1>6, <1>7
<1>10. ~Released(j) => (ServedBy(j) = {} /\ j \notin done)
  <2>1. (~Released(j) => r = 0) /\ (e = 0 => j \notin done)
    BY DEF One
  <2>2. r = 0 => s = 0 /\ e = 0
    BY <1>2, <1>8, <1>12
  <2> QED BY <1>1, <2>1, <2>2
<1>11. Unplaced(j)
  <2>1. \A c \in Core : \A i \in DOMAIN queue[c] : queue[c][i] = j => <<c, i>> \in Queued(j)
    BY DEF Queued
  <2>2. \A t \in Thread : hand[t] = j => t \in Carrying(j)
    BY DEF Carrying
  <2> QED BY <1>9, <2>1, <2>2 DEF Unplaced
<1> QED BY <1>10, <1>11

LEMMA UnreleasedUnbound ==
  ASSUME TypeOK, JobInOnePlace, NEW j \in Job, ~Released(j), NEW c \in Core
  PROVE  ~Bound(j, c)
<1>1. Unplaced(j) /\ ServedBy(j) = {}
  BY SumEmpty
<1> QED BY <1>1 DEF Unplaced, ServedBy, Bound

LEMMA ServedUnplaced ==
  ASSUME TypeOK, JobInOnePlace, NEW c \in Core, Serving(c) # NoJob
  PROVE  /\ Serving(c) \in Job /\ Released(Serving(c)) /\ Serving(c) \notin done
         /\ Unplaced(Serving(c))
         /\ \A d \in Core \ {c} : Serving(d) # Serving(c)
<1>1. OnCore[c] = Serving(c) /\ \A d \in Core : OnCore[d] = Serving(d)
  BY DEF OnCore
<1>2. /\ Serving(c) \in Job /\ Released(Serving(c)) /\ Serving(c) \notin done
      /\ \A d \in Core \ {c} : Serving(d) # Serving(c)
  BY <1>1, ServedAlone
<1>3. c \in ServedBy(Serving(c))
  BY DEF ServedBy
<1> QED BY <1>2, <1>3, SumEmpty

(* A step of t binds no job to another core than before.                    *)
ServesOld(t) == \A c \in Core : \/ Serving(c)' \in {Serving(c), NoJob}
                                \/ c = t /\ Serving(c)' = hand[t] /\ Target(t) = t
QueuesOld(t) == \A c \in Core : \A i \in DOMAIN queue'[c] :
                  \/ \E k \in DOMAIN queue[c] : queue[c][k] = queue'[c][i]
                  \/ queue'[c][i] = hand[t] /\ Target(t) = c
CarriesOld(t) == \/ hand'[t] = NoJob
                 \/ Target(t)' \notin Core
                 \/ hand'[t] = hand[t] /\ Target(t)' = Target(t)
                 \/ \E k \in DOMAIN queue[Target(t)'] : queue[Target(t)'][k] = hand'[t]

BindsOld == \A j \in Job : \A c \in Core : Bound(j, c)' => Bound(j, c)

LEMMA OthersCarry ==
  ASSUME TypeOK, NEW t \in Thread, StepOf(t), NEW u \in Thread, u # t
  PROVE  hand'[u] = hand[u] /\ Target(u)' = Target(u)
  BY OthersStay, DestStays DEF Stays, Target

LEMMA OldBindings ==
  ASSUME TypeOK, NEW t \in Thread, StepOf(t), ServesOld(t), QueuesOld(t), CarriesOld(t)
  PROVE  BindsOld
<1> SUFFICES ASSUME NEW j \in Job, NEW c \in Core, Bound(j, c)' PROVE Bound(j, c)
  BY DEF BindsOld
<1>0. NoJob \notin Job
  BY Assumed DEF Assumptions
<1>1. CASE Serving(c)' = j
  <2>1. Serving(c) = j \/ (hand[t] = j /\ Target(t) = c)
    BY <1>0, <1>1 DEF ServesOld
  <2> QED BY <2>1 DEF Bound
<1>2. CASE \E i \in DOMAIN queue'[c] : queue'[c][i] = j
  <2> PICK i \in DOMAIN queue'[c] : queue'[c][i] = j
    BY <1>2
  <2>1. (\E k \in DOMAIN queue[c] : queue[c][k] = j) \/ (hand[t] = j /\ Target(t) = c)
    BY DEF QueuesOld
  <2> QED BY <2>1 DEF Bound
<1>3. CASE \E u \in Thread : hand'[u] = j /\ Target(u)' = c
  <2>1. PICK u \in Thread : hand'[u] = j /\ Target(u)' = c
    BY <1>3
  <2>2. CASE u # t
    BY <2>1, <2>2, OthersCarry DEF Bound
  <2>3. CASE u = t
    <3>1. \/ hand[t] = j /\ Target(t) = c
          \/ \E k \in DOMAIN queue[c] : queue[c][k] = j
      BY <1>0, <2>1, <2>3 DEF CarriesOld
    <3> QED BY <3>1 DEF Bound
  <2> QED BY <2>2, <2>3
<1> QED BY <1>1, <1>2, <1>3 DEF Bound

(* What a step that binds no job anew leaves alone, but for the end of fire. *)
Accounts == <<nextCoreId, stages, finished, done, jobCounter>>

LEMMA ServesSame ==
  ASSUME NEW t, OnCore' = OnCore
  PROVE  ServesOld(t)
<1>1. \A c \in Core : OnCore[c] = Serving(c) /\ OnCore'[c] = Serving(c)'
  BY DEF OnCore
<1> QED BY <1>1 DEF ServesOld

LEMMA QueuesSame ==
  ASSUME NEW t, UNCHANGED queue
  PROVE  QueuesOld(t)
  BY DEF QueuesOld

LEMMA InsertBinds ==
  ASSUME TypeOK, NEW t \in Thread, StepOf(t), InsertJobToQueue(t), OnCore' = OnCore,
         pc[t] \in EmptyHanded => hand[t] = NoJob
  PROVE  BindsOld /\ UNCHANGED Accounts
<1>0. /\ hand \in [Thread -> MaybeJob] /\ dest[t] \in Core /\ queue \in [Core -> Seq(Job)]
      /\ pc \in [Thread -> Label] /\ dest \in [Thread -> Core]
  BY DEF TypeOK
<1>1. ServesOld(t)
  BY ServesSame
<1> USE DEF carryVars, processorVars, historyVars, taskVars, Goto
<1>2. CASE InsertLock(t)
  <2>1. UNCHANGED <<hand, dest, queue, Accounts>> /\ pc[t] = "ins_lock"
    BY <1>2 DEF InsertLock, Accounts
  <2>2. pc'[t] = "ins_push"
    BY <1>0, <1>2 DEF InsertLock
  <2>3. CarriesOld(t)
    BY <2>1, <2>2 DEF CarriesOld, Target
  <2> QED BY <1>1, <2>1, <2>3, QueuesSame, OldBindings
<1>3. CASE InsertPush(t)
  <2>1. /\ queue' = [queue EXCEPT ![dest[t]] = insertJob(@, hand[t])]
        /\ UNCHANGED Accounts /\ pc[t] = "ins_push"
    BY <1>3 DEF InsertPush, Accounts
  <2>2. hand'[t] = NoJob
    BY <1>0, <1>3 DEF InsertPush
  <2>3. Target(t) = dest[t]
    BY <2>1 DEF Target
  <2>4. ASSUME NEW c \in Core, NEW i \in DOMAIN queue'[c]
        PROVE  \/ \E k \in DOMAIN queue[c] : queue[c][k] = queue'[c][i]
               \/ queue'[c][i] = hand[t] /\ Target(t) = c
    <3>1. CASE c # dest[t] \/ hand[t] = NoJob
      <4>1. queue'[c] = queue[c]
        BY <1>0, <2>1, <3>1 DEF insertJob
      <4> QED BY <2>4, <4>1
    <3>2. CASE c = dest[t] /\ hand[t] # NoJob
      <4>1. queue'[c] = Append(queue[c], hand[t]) /\ queue[c] \in Seq(Job)
        BY <1>0, <2>1, <3>2 DEF insertJob
      <4>2. hand[t] \in Job
        BY <1>0, <3>2 DEF MaybeJob
      <4>3. i \in 1..(Len(queue[c]) + 1) /\ Len(queue[c]) \in Nat
        BY <2>4, <4>1, <4>2
      <4>4. CASE i = Len(queue[c]) + 1
        BY <2>3, <3>2, <4>1, <4>2, <4>4
      <4>5. CASE i # Len(queue[c]) + 1
        <5>1. i \in DOMAIN queue[c] /\ queue'[c][i] = queue[c][i]
          BY <4>1, <4>2, <4>3, <4>5
        <5> QED BY <5>1
      <4> QED BY <4>4, <4>5
    <3> QED BY <3>1, <3>2
  <2>5. QueuesOld(t)
    BY <2>4 DEF QueuesOld
  <2>6. CarriesOld(t)
    BY <2>2 DEF CarriesOld
  <2> QED BY <1>1, <2>1, <2>5, <2>6, OldBindings
<1>4. CASE InsertUnlock(t)
  <2>1. UNCHANGED <<hand, queue, Accounts>> /\ pc[t] = "ins_unlock"
    BY <1>4 DEF InsertUnlock, Accounts
  <2>2. CarriesOld(t)
    BY <2>1 DEF CarriesOld, EmptyHanded
  <2> QED BY <1>1, <2>1, <2>2, QueuesSame, OldBindings
<1> QED BY <1>2, <1>3, <1>4 DEF InsertJobToQueue

(* The steps of a worker, but for the end of a fire. *)
LEMMA WorkerBinds ==
  ASSUME TypeOK, HandInv, NEW w \in Core, StepOf(w), Worker(w) \/ LoadTimeout(w),
         ~FireStopped(w), ~FireComplete(w)
  PROVE  BindsOld /\ UNCHANGED Accounts
<1>0. /\ w \in Thread /\ pc \in [Thread -> Label] /\ hand \in [Thread -> MaybeJob]
      /\ current_job \in [Core -> MaybeJob] /\ queue \in [Core -> Seq(Job)]
      /\ queue[w] \in Seq(Job)
  BY Threads DEF TypeOK
<1>1. /\ pc[w] \in EmptyHanded => hand[w] = NoJob
      /\ pc[w] \in Loading => current_job[w] = NoJob
  BY DEF HandInv
<1>2. /\ OnCore' = [OnCore EXCEPT ![w] = Serving(w)'] /\ \A c \in Core : OnCore[c] = Serving(c)
      /\ \A c \in Core : OnCore'[c] = Serving(c)'
      /\ OnCore = [OnCore EXCEPT ![w] = Serving(w)]
  BY OnCoreWorker DEF OnCore
<1> USE DEF Goto, carryVars, processorVars, historyVars, taskVars, workerVars
<1>3. ASSUME UNCHANGED <<queue, Accounts>>, Serving(w)' = Serving(w), CarriesOld(w)
      PROVE  BindsOld /\ UNCHANGED Accounts
  <2>1. OnCore' = OnCore
    BY <1>2, <1>3
  <2> QED BY <1>0, <1>3, <2>1, ServesSame, QueuesSame, OldBindings
<1>4. CASE WorkerLoop(w)
  <2>1. UNCHANGED <<queue, hand, Accounts, current_job>> /\ pc[w] = "loop"
    BY <1>4 DEF WorkerLoop, Accounts
  <2>2. pc'[w] \in {"load_lock", "fire", "exit"}
    BY <1>0, <1>4 DEF WorkerLoop
  <2>3. Serving(w)' = Serving(w)
    BY <2>1, <2>2 DEF Serving
  <2>4. CarriesOld(w)
    BY <1>1, <2>1 DEF CarriesOld, EmptyHanded
  <2> QED BY <1>3, <2>1, <2>3, <2>4
<1>5. CASE LoadLock(w) \/ LoadNumber(w) \/ LoadTimeout(w)
  <2>1. UNCHANGED <<queue, hand, Accounts, current_job>> /\ pc[w] \in {"load_lock", "load_number"}
    BY <1>5 DEF LoadLock, LoadNumber, LoadTimeout, Accounts
  <2>2. pc'[w] \in {"load_number", "load_pop", "loaded"}
    BY <1>0, <1>5 DEF LoadLock, LoadNumber, LoadTimeout
  <2>3. Serving(w)' = Serving(w)
    BY <2>1, <2>2 DEF Serving
  <2>4. hand[w] = NoJob
    BY <1>1, <2>1 DEF EmptyHanded
  <2>5. CarriesOld(w)
    BY <2>1, <2>4 DEF CarriesOld
  <2> QED BY <1>3, <2>1, <2>3, <2>5
<1>6. CASE LoadPop(w)
  <2>1. /\ UNCHANGED <<Accounts, current_job>> /\ pc[w] = "load_pop"
        /\ queue' = [queue EXCEPT ![w] = pop_front(@)]
    BY <1>6 DEF LoadPop, Accounts
  <2>2. pc'[w] = "loaded" /\ hand'[w] = peek_front(queue[w])
    BY <1>0, <1>6 DEF LoadPop
  <2>3. Serving(w)' = Serving(w)
    BY <2>1, <2>2 DEF Serving
  <2>4. OnCore' = OnCore
    BY <1>2, <2>3
  <2>5. ServesOld(w)
    BY <2>4, ServesSame
  <2>6. CarriesOld(w)
    <3>1. Target(w)' = w
      BY <2>2 DEF Target
    <3>2. CASE queue[w] = << >>
      <4>1. hand'[w] = NoJob
        BY <2>2, <3>2 DEF peek_front
      <4> QED BY <4>1 DEF CarriesOld
    <3>3. CASE queue[w] # << >>
      <4>1. hand'[w] = queue[w][1] /\ 1 \in DOMAIN queue[w]
        BY <1>0, <2>2, <3>3 DEF peek_front
      <4> QED BY <3>1, <4>1 DEF CarriesOld
    <3> QED BY <3>2, <3>3
  <2>7. QueuesOld(w)
    <3> SUFFICES ASSUME NEW c \in Core, NEW i \in DOMAIN queue'[c]
                 PROVE  \E k \in DOMAIN queue[c] : queue[c][k] = queue'[c][i]
      BY DEF QueuesOld
    <3>1. CASE c # w \/ queue[w] = << >>
      <4>1. queue'[c] = queue[c]
        BY <1>0, <2>1, <3>1 DEF pop_front
      <4> QED BY <4>1
    <3>2. CASE c = w /\ queue[w] # << >>
      <4>1. queue'[c] = Tail(queue[c]) /\ queue[c] \in Seq(Job) /\ queue[c] # << >>
        BY <1>0, <2>1, <3>2 DEF pop_front
      <4>2. i + 1 \in DOMAIN queue[c] /\ queue[c][i + 1] = queue'[c][i]
        BY <4>1
      <4> QED BY <4>2
    <3> QED BY <3>1, <3>2
  <2> QED BY <1>0, <2>1, <2>5, <2>6, <2>7, OldBindings
<1>7. CASE Loaded(w)
  <2>1. UNCHANGED <<queue, hand, Accounts, current_job>> /\ pc[w] = "loaded"
    BY <1>7 DEF Loaded, Accounts
  <2>2. pc'[w] \in {"load_lock", "loop", "set_job"}
    BY <1>0, <1>7 DEF Loaded
  <2>3. Serving(w)' = NoJob /\ Serving(w) = NoJob
    BY <1>1, <2>1, <2>2 DEF Serving, Loading
  <2>4. CarriesOld(w)
    BY <2>1, <2>2 DEF CarriesOld, Target
  <2> QED BY <1>3, <2>1, <2>3, <2>4
<1>8. CASE SetJob(w)
  <2>1. UNCHANGED <<queue, Accounts>> /\ pc[w] = "set_job"
    BY <1>8 DEF SetJob, Accounts
  <2>2. current_job'[w] = hand[w] /\ pc'[w] = "loop" /\ hand'[w] = NoJob
    BY <1>0, <1>8 DEF SetJob
  <2>3. Serving(w)' = hand[w] /\ Target(w) = w
    BY <2>1, <2>2 DEF Serving, Target
  <2>4. ServesOld(w)
    <3>1. \A c \in Core \ {w} : Serving(c)' = Serving(c)
      BY <1>2
    <3> QED BY <2>3, <3>1 DEF ServesOld
  <2>5. CarriesOld(w)
    BY <2>2 DEF CarriesOld
  <2> QED BY <1>0, <2>1, <2>4, <2>5, QueuesSame, OldBindings
<1>9. CASE FireWork(w)
  <2>1. UNCHANGED <<queue, hand, dest, Accounts, current_job, pc>>
    BY <1>9 DEF FireWork, Accounts
  <2>2. Serving(w)' = Serving(w)
    BY <2>1 DEF Serving
  <2>3. CarriesOld(w)
    BY <2>1 DEF CarriesOld, Target
  <2> QED BY <1>3, <2>1, <2>2, <2>3
<1>10. CASE ClearJob(w)
  <2>1. UNCHANGED <<queue, hand, Accounts>> /\ pc[w] = "clear"
    BY <1>10 DEF ClearJob, Accounts
  <2>2. pc'[w] = "loop" /\ current_job'[w] = NoJob
    BY <1>0, <1>10 DEF ClearJob
  <2>3. Serving(w)' = Serving(w)
    BY <2>1, <2>2 DEF Serving
  <2>4. CarriesOld(w)
    BY <1>1, <2>1 DEF CarriesOld, EmptyHanded
  <2> QED BY <1>3, <2>1, <2>3, <2>4
<1>11. CASE InsertJobToQueue(w)
  <2>1. /\ pc[w] \in {"ins_lock", "ins_push", "ins_unlock"}
        /\ pc'[w] \in {"ins_push", "ins_unlock", "release", "clear", "returned"}
    BY <1>0, <1>11, InsertSlot
  <2>2. Serving(w)' = Serving(w)
    BY <2>1 DEF Serving
  <2>3. OnCore' = OnCore
    BY <1>2, <2>2
  <2> QED BY <1>0, <1>1, <1>11, <2>3, InsertBinds
<1> QED BY <1>4, <1>5, <1>6, <1>7, <1>8, <1>9, <1>10, <1>11 DEF Worker

(* lockAllJobs and unlockAllJobs carry no job. *)
LEMMA ThermalBinds ==
  ASSUME TypeOK, ThermalApproach, pc[Thermal] \in OnlyLocks, UserCalls \subseteq {"lock"}
  PROVE  BindsOld /\ UNCHANGED Accounts /\ pc'[Thermal] \in OnlyLocks
<1>0. /\ Thermal \in Thread /\ Thermal \in Stopper /\ Thermal \notin Core
      /\ StepOf(Thermal) /\ pc \in [Thread -> Label]
  BY Threads DEF StepOf, TypeOK
<1> USE DEF carryVars, processorVars, historyVars, taskVars, workerVars, Goto
<1>1. \/ ThermalLoop \/ CallReturns \/ ThermalReturn \/ LockAllJobs \/ LockTaskQueue
      \/ LockCurrentJob \/ UnlockAllJobs
  <2>1. \A c, p, n : ~TaskMigrate(c, p) /\ ~Preempt(c) /\ ~AdvanceJobInQueue(c, p, n)
    BY DEF TaskMigrate, Preempt, AdvanceJobInQueue
  <2>2. \A c, p, d, q : ~MoveJobToAnotherQueue(c, p, d, q)
    BY DEF MoveJobToAnotherQueue
  <2>3. ~PreemptInsert /\ ~Reinsert /\ ~StopCurrentJob(Thermal)
    BY DEF PreemptInsert, Reinsert, StopCurrentJob, StopLock, StopPost, StopWait, OnlyLocks
  <2>4. ~InsertJobToQueue(Thermal)
    BY DEF InsertJobToQueue, InsertLock, InsertPush, InsertUnlock, OnlyLocks
  <2> QED BY <2>1, <2>2, <2>3, <2>4 DEF ThermalApproach
<1>2. UNCHANGED <<queue, hand, Accounts>>
  BY <1>1 DEF ThermalLoop, CallReturns, ThermalReturn, LockAllJobs, LockTaskQueue,
              LockCurrentJob, UnlockAllJobs, Accounts
<1>3. pc'[Thermal] \in OnlyLocks
  BY <1>0, <1>1 DEF ThermalLoop, CallReturns, ThermalReturn, LockAllJobs, LockTaskQueue,
                    LockCurrentJob, UnlockAllJobs, OnlyLocks
<1>4. OnCore' = OnCore
  <2>1. \A c \in Core : CoreStays(c)
    BY <1>0, ForeignCore DEF StopsAt, StopWait, OnlyLocks
  <2> QED BY <1>0, <2>1, OnCoreStays
<1>5. CarriesOld(Thermal)
  BY <1>0, <1>3 DEF CarriesOld, Target, OnlyLocks
<1> QED BY <1>0, <1>2, <1>3, <1>4, <1>5, ServesSame, QueuesSame, OldBindings

(* join stops the job of a core, and carries none. *)
LEMMA MainBinds ==
  ASSUME TypeOK, WorkerInv, EndRun \/ Join
  PROVE  BindsOld /\ UNCHANGED Accounts
<1>0. /\ Main \in Thread /\ Main \in Stopper /\ Main \notin Core /\ StepOf(Main)
      /\ at[Main] \in Core /\ pc \in [Thread -> Label]
  BY Threads DEF StepOf, TypeOK
<1> USE DEF carryVars, processorVars, historyVars, taskVars, workerVars, Goto
<1>1. UNCHANGED <<queue, hand, Accounts>>
  BY DEF EndRun, Join, JoinThreads, JoinWorker, JoinWait, StopCurrentJob, StopLock, StopPost,
         StopWait, Accounts
<1>2. pc'[Main] \notin {"ins_lock", "ins_push"}
  BY <1>0 DEF EndRun, Join, JoinThreads, JoinWorker, JoinWait, StopCurrentJob, StopLock, StopPost,
              StopWait, AfterStop
<1>3. CarriesOld(Main)
  BY <1>0, <1>2 DEF CarriesOld, Target
<1>4. ServesOld(Main)
  <2>1. CASE StopWait(Main)
    <3>1. OnCore' = [OnCore EXCEPT ![at[Main]] = NoJob]
      BY <1>0, <2>1, StopServes
    <3>2. \A c \in Core : OnCore[c] = Serving(c) /\ OnCore'[c] = Serving(c)'
      BY DEF OnCore
    <3>3. \A c \in Core : OnCore'[c] \in {OnCore[c], NoJob}
      BY <3>1 DEF OnCore
    <3> QED BY <3>2, <3>3 DEF ServesOld
  <2>2. CASE ~StopWait(Main)
    <3>1. \A c \in Core : CoreStays(c)
      BY <1>0, <2>2, ForeignCore DEF StopsAt
    <3>2. OnCore' = OnCore
      BY <1>0, <3>1, OnCoreStays
    <3> QED BY <3>2, ServesSame
  <2> QED BY <2>1, <2>2
<1> QED BY <1>0, <1>1, <1>3, <1>4, QueuesSame, OldBindings

(* A step that binds no job anew and counts nothing keeps the stages. *)
LEMMA StagesKept ==
  ASSUME PipeInv, BindsOld, UNCHANGED Accounts, NEW j \in Job, j[1] \in PipelinedTask
  PROVE  Staged(j)'
<1>1. Staged(j)
  BY DEF PipeInv
<1>2. UNCHANGED <<nextCoreId, stages, finished, done, jobCounter>>
  BY DEF Accounts
<1>3. \A c \in Core : Bound(j, c)' => Bound(j, c)
  BY DEF BindsOld
<1> QED BY <1>1, <1>2, <1>3 DEF Staged, Stage, Fresh, Passed, AllPassed, Released

(* The same for one job. *)
StagedStays(j) == /\ \A c \in Core : Bound(j, c)' => Bound(j, c)
                  /\ nextCoreId'[j] = nextCoreId[j] /\ stages'[j] = stages[j]
                  /\ finished'[j] = finished[j]
                  /\ Released(j)' = Released(j) /\ (j \in done' <=> j \in done)

LEMMA OtherStages ==
  ASSUME NEW j \in Job, Staged(j), StagedStays(j)
  PROVE  Staged(j)'
  BY DEF Staged, StagedStays, Stage, Fresh, Passed, AllPassed

(* A new job is bound to the core it is sent to, and no stage of it is done. *)
LEMMA ReleaseStages ==
  ASSUME TypeOK, JobInOnePlace, PipeInv, HandInv, NEW d \in Dispatcher, Release(d), StepOf(d),
         NEW j \in Job, j[1] \in PipelinedTask
  PROVE  Staged(j)'
<1>0. /\ d \in Thread /\ d \notin Core /\ d \notin Stopper /\ NoJob \notin Job
      /\ pc \in [Thread -> Label] /\ hand \in [Thread -> MaybeJob] /\ dest \in [Thread -> Core]
      /\ jobCounter \in [Dispatcher -> 0..MaxJobs] /\ MaxJobs \in Nat
  BY Threads, Assumed DEF TypeOK, Assumptions
<1> PICK n : n = jobCounter[d] + 1
  OBVIOUS
<1>1. /\ jobCounter' = [jobCounter EXCEPT ![d] = n] /\ hand' = [hand EXCEPT ![d] = <<d, n>>]
      /\ UNCHANGED <<queue, nextCoreId, stages, finished, done>>
  BY DEF Release, processorVars, historyVars
<1>2. pc'[d] = "ins_lock" /\ \E answer \in Allocator[d] : dest'[d] = TargetCore(answer)
  BY <1>0 DEF Release, Goto
<1>3. OnCore' = OnCore
  <2>1. \A c \in Core : CoreStays(c)
    BY <1>0, ForeignCore DEF StopsAt
  <2> QED BY <1>0, <2>1, OnCoreStays
<1>4. \A c \in Core : Serving(c)' = Serving(c)
  <2>1. \A c \in Core : OnCore[c] = Serving(c) /\ OnCore'[c] = Serving(c)'
    BY DEF OnCore
  <2> QED BY <1>3, <2>1
<1>5. \A u \in Thread \ {d} : hand'[u] = hand[u] /\ Target(u)' = Target(u)
  BY <1>0, OthersCarry
<1>6. hand'[d] = <<d, n>> /\ Target(d)' = dest'[d]
  BY <1>0, <1>1, <1>2 DEF Target
<1>7. Staged(j)
  BY DEF PipeInv
<1>8. CASE j # <<d, n>>
  <2>1. ASSUME NEW c \in Core, Bound(j, c)' PROVE Bound(j, c)
    <3>1. CASE Serving(c)' = j \/ \E i \in DOMAIN queue'[c] : queue'[c][i] = j
      BY <1>1, <1>4, <3>1 DEF Bound
    <3>2. CASE \E u \in Thread : hand'[u] = j /\ Target(u)' = c
      BY <1>5, <1>6, <1>8, <3>2 DEF Bound
    <3> QED BY <2>1, <3>1, <3>2 DEF Bound
  <2>2. Released(j)' = Released(j)
    <3> PICK e \in Dispatcher, k \in 1..MaxJobs : j = <<e, k>>
      BY DEF Job
    <3>1. k \in Int /\ jobCounter[e] \in Int /\ jobCounter[d] \in Int
      BY <1>0
    <3>2. CASE e = d
      <4>1. k # n /\ jobCounter'[e] = n
        BY <1>0, <1>1, <1>8, <3>2
      <4> QED BY <3>1, <3>2, <4>1 DEF Released
    <3>3. CASE e # d
      <4>1. jobCounter'[e] = jobCounter[e]
        BY <1>0, <1>1, <3>3
      <4> QED BY <4>1 DEF Released
    <3> QED BY <3>2, <3>3
  <2>3. StagedStays(j)
    BY <1>1, <2>1, <2>2 DEF StagedStays
  <2> QED BY <1>7, <2>3, OtherStages
<1>9. CASE j = <<d, n>>
  <2>1. ~Released(j) /\ Released(j)'
    <3>1. jobCounter[d] \in Int /\ jobCounter'[d] = n /\ j[1] = d /\ j[2] = n
      BY <1>0, <1>1, <1>9
    <3> QED BY <3>1 DEF Released
  <2>2. Fresh(j) /\ ~finished[j]
    BY <1>7, <2>1 DEF Staged
  <2>3. Fresh(j)' /\ ~finished'[j]
    BY <1>1, <2>2 DEF Fresh
  <2>6. j \notin done'
    <3>1. j \notin done
      BY <2>1, SumEmpty
    <3> QED BY <1>1, <3>1
  <2>7. \A c \in Core : Stage(j, c)'
    BY <2>3 DEF Stage
  <2> QED BY <2>1, <2>6, <2>7 DEF Staged
<1> QED BY <1>8, <1>9

(* What the end of a fire does to the bindings: that of its job is gone,    *)
(* unless the worker hands the job on, and those of others stay.            *)
LEMMA FireBinds ==
  ASSUME TypeOK, WorkerInv, HandInv, JobInOnePlace, NEW w \in Core, StepOf(w),
         FireStopped(w) \/ FireComplete(w), NEW j, j = current_job[w]
  PROVE  /\ j \in Job /\ Bound(j, w) /\ Released(j) /\ j \notin done
         /\ \A c \in Core : \A i \in Job : (Bound(i, c)' /\ i # j) => Bound(i, c)
         /\ \A c \in Core : Bound(j, c)' => hand'[w] = j /\ Target(w)' = c /\ ~(UNCHANGED hand)
<1>0. /\ w \in Thread /\ pc \in [Thread -> Label] /\ hand \in [Thread -> MaybeJob] /\ NoJob \notin Job
  BY Threads, Assumed DEF TypeOK, Assumptions
<1>1. pc[w] = "fire" /\ UNCHANGED <<queue, current_job>>
  BY DEF FireStopped, FireComplete, processorVars, workerVars
<1>2. pc'[w] \in {"clear", "ins_lock"}
  BY <1>0 DEF FireStopped, FireComplete, Goto
<1>3. Serving(w) = j /\ Serving(w)' = NoJob /\ j # NoJob
  BY <1>1, <1>2 DEF Serving, WorkerInv
<1>4. j \in Job /\ Released(j) /\ j \notin done /\ Unplaced(j) /\ \A c \in Core \ {w} : Serving(c) # j
  BY <1>3, ServedUnplaced
<1>5. \A c \in Core \ {w} : Serving(c)' = Serving(c)
  BY <1>0, ForeignCore, ServingStays, Threads DEF StopsAt
<1>6. UNCHANGED hand \/ hand' = [hand EXCEPT ![w] = j]
  BY DEF FireStopped, FireComplete, carryVars
<1>7. \A u \in Thread \ {w} : hand'[u] = hand[u] /\ Target(u)' = Target(u)
  BY <1>0, OthersCarry
<1>8. hand[w] = NoJob
  BY <1>1 DEF HandInv, EmptyHanded
<1>9. ASSUME NEW c \in Core, NEW i \in Job, Bound(i, c)', i # j PROVE Bound(i, c)
  <2>1. CASE Serving(c)' = i
    BY <1>0, <1>3, <1>5, <2>1 DEF Bound
  <2>2. CASE \E k \in DOMAIN queue'[c] : queue'[c][k] = i
    BY <1>1, <2>2 DEF Bound
  <2>3. CASE \E u \in Thread : hand'[u] = i /\ Target(u)' = c
    <3>1. PICK u \in Thread : hand'[u] = i /\ Target(u)' = c
      BY <2>3
    <3>2. u # w
      BY <1>0, <1>6, <1>8, <1>9, <3>1
    <3> QED BY <1>7, <3>1, <3>2 DEF Bound
  <2> QED BY <1>9, <2>1, <2>2, <2>3 DEF Bound
<1>10. ASSUME NEW c \in Core, Bound(j, c)'
       PROVE  hand'[w] = j /\ Target(w)' = c /\ ~(UNCHANGED hand)
  <2>1. Serving(c)' # j
    BY <1>3, <1>4, <1>5
  <2>2. ~\E k \in DOMAIN queue'[c] : queue'[c][k] = j
    BY <1>1, <1>4 DEF Unplaced
  <2>3. PICK u \in Thread : hand'[u] = j /\ Target(u)' = c
    BY <1>10, <2>1, <2>2 DEF Bound
  <2>4. u = w
    BY <1>4, <1>7, <2>3 DEF Unplaced
  <2> QED BY <1>3, <1>8, <2>3, <2>4
<1>11. Bound(j, w)
  BY <1>3 DEF Bound
<1> QED BY <1>4, <1>9, <1>10, <1>11

(* The counts of other jobs than the one that was executed stay. *)
LEMMA FireCounts ==
  ASSUME TypeOK, NEW w \in Core, FireStopped(w) \/ FireComplete(w),
         NEW i \in Job, i # current_job[w]
  PROVE  /\ nextCoreId'[i] = nextCoreId[i] /\ stages'[i] = stages[i] /\ finished'[i] = finished[i]
         /\ Released(i)' = Released(i) /\ (i \in done' <=> i \in done)
<1>0. nextCoreId \in [Job -> Int] /\ stages \in [Job -> SUBSET Core] /\ finished \in [Job -> BOOLEAN]
  BY DEF TypeOK
<1>1. ASSUME NEW x, NEW b, FireEffect(w, x, b), i # x
      PROVE  nextCoreId'[i] = nextCoreId[i] /\ finished'[i] = finished[i]
  BY <1>0, <1>1 DEF FireEffect
<1>2. nextCoreId'[i] = nextCoreId[i] /\ finished'[i] = finished[i]
  BY <1>1 DEF FireStopped, FireComplete
<1>3. UNCHANGED jobCounter
  BY DEF FireStopped, FireComplete
<1>4. stages'[i] = stages[i]
  BY <1>0 DEF FireStopped, FireComplete
<1>5. i \in done' <=> i \in done
  BY DEF FireStopped, FireComplete
<1> QED BY <1>2, <1>3, <1>4, <1>5 DEF Released

(* The end of a fire: a stopped job is bound to no core, one that has       *)
(* finished its last stage neither, and any other to the next core.         *)
LEMMA FireStages ==
  ASSUME TypeOK, WorkerInv, HandInv, JobInOnePlace, PipeInv, NEW w \in Core, StepOf(w),
         FireStopped(w) \/ FireComplete(w), NEW i \in Job, i[1] \in PipelinedTask
  PROVE  Staged(i)'
<1> PICK j : j = current_job[w]
  OBVIOUS
<1>0. /\ w \in Thread /\ pc \in [Thread -> Label] /\ dest \in [Thread -> Core] /\ w \in 0..(NCores - 1)
      /\ nextCoreId \in [Job -> Int] /\ stages \in [Job -> SUBSET Core] /\ finished \in [Job -> BOOLEAN]
      /\ NCores \in Nat
  BY Threads, Assumed DEF TypeOK, Core, Assumptions
<1>1. /\ j \in Job /\ Bound(j, w) /\ Released(j) /\ j \notin done
      /\ \A c \in Core : \A k \in Job : (Bound(k, c)' /\ k # j) => Bound(k, c)
      /\ \A c \in Core : Bound(j, c)' => hand'[w] = j /\ Target(w)' = c /\ ~(UNCHANGED hand)
  BY FireBinds
<1>2. Staged(i)
  BY DEF PipeInv
<1>3. UNCHANGED jobCounter
  BY DEF FireStopped, FireComplete
<1>4. CASE i # j
  <2>1. \A c \in Core : Bound(i, c)' => Bound(i, c)
    BY <1>1, <1>4
  <2>2. StagedStays(i)
    BY <1>4, <2>1, FireCounts DEF StagedStays
  <2> QED BY <1>2, <2>2, OtherStages
<1>5. CASE i = j
  <2>0. Released(j)'
    BY <1>1, <1>3 DEF Released
  <2>1. Stage(j, w)
    BY <1>1, <1>2, <1>5 DEF Staged
  <2>2. CASE FireStopped(w)
    <3>1. UNCHANGED <<hand, done>>
      BY <2>2 DEF FireStopped, carryVars
    <3> QED BY <1>1, <1>5, <2>0, <3>1 DEF Staged
  <2>3. CASE FireComplete(w)
    <3>1. stages'[j] = stages[j] \cup {w} /\ ~finished[j] /\ (Fresh(j) \/ Passed(j, w))
      BY <1>0, <1>1, <2>1, <2>3 DEF FireComplete, Stage
    <3>2. FireEffect(w, j, TRUE)
      BY <2>3 DEF FireComplete
    <3>3. CASE finished'[j]
      <4>1. w = NCores - 1
        BY <1>5, <3>1, <3>2, <3>3 DEF FireEffect
      <4>2. UNCHANGED hand
        BY <2>3, <3>3 DEF FireComplete, carryVars
      <4>3. AllPassed(j)'
        <5>1. ASSUME 0 \in stages'[j] PROVE stages'[j] = Core
          <6>1. CASE Fresh(j)
            BY <1>0, <3>1, <4>1, <5>1, <6>1 DEF Fresh, Core
          <6>2. CASE Passed(j, w)
            <7>1. PICK s \in 0..(NCores - 2) : stages[j] = {s} \cup 1..(w - 1)
              BY <6>2 DEF Passed
            <7>2. s = 0 /\ w # 0
              BY <1>0, <3>1, <5>1, <6>2, <7>1 DEF Passed
            <7>3. {0} \cup 1..(w - 1) \cup {w} = 0..w
              BY <1>0, <7>2
            <7> QED BY <3>1, <4>1, <7>1, <7>2, <7>3 DEF Core
          <6> QED BY <3>1, <6>1, <6>2
        <5> QED BY <3>1, <4>1, <5>1 DEF AllPassed, Core
      <4> QED BY <1>1, <1>5, <2>0, <4>2, <4>3 DEF Staged
    <3>4. CASE ~finished'[j]
      <4>1. w # NCores - 1
        BY <1>0, <1>1, <1>5, <3>2, <3>4 DEF FireEffect
      <4>2. nextCoreId'[j] = nextCoreId[j] + 1
        BY <1>0, <1>1, <1>5, <3>2, <4>1 DEF FireEffect
      <4> PICK n : n = nextCoreId[j] + 1
        OBVIOUS
      <4>3. n \in Core /\ Passed(j, n)'
        <5>1. CASE Fresh(j)
          <6>1. n = 1 /\ stages'[j] = {w} \cup 1..(1 - 1) /\ w \in 0..(NCores - 2)
            BY <1>0, <3>1, <4>1, <5>1 DEF Fresh
          <6> QED BY <1>0, <4>2, <6>1 DEF Passed, Core
        <5>2. CASE Passed(j, w)
          <6>1. PICK s \in 0..(NCores - 2) : stages[j] = {s} \cup 1..(w - 1)
            BY <5>2 DEF Passed
          <6>2. n = w + 1 /\ w # 0 /\ n \in Core /\ n # 0
            BY <1>0, <4>1, <5>2 DEF Passed, Core
          <6>3. 1..(w - 1) \cup {w} = 1..(n - 1)
            BY <1>0, <6>2
          <6>4. stages'[j] = {s} \cup 1..(n - 1)
            BY <3>1, <6>1, <6>3
          <6> QED BY <4>2, <6>2, <6>4 DEF Passed
        <5> QED BY <3>1, <5>1, <5>2
      <4>4. dest'[w] = n /\ UNCHANGED done
        BY <1>0, <2>3, <3>4, <4>2, <4>3 DEF FireComplete
      <4>5. pc'[w] = "ins_lock"
        BY <1>0, <2>3, <3>4 DEF FireComplete, Goto
      <4>6. Target(w)' = n
        BY <4>4, <4>5 DEF Target
      <4>7. Stage(j, n)'
        BY <3>4, <4>3 DEF Stage
      <4>8. \A c \in Core : Bound(j, c)' => Stage(j, c)'
        BY <1>1, <4>6, <4>7
      <4> QED BY <1>1, <1>5, <2>0, <4>4, <4>8 DEF Staged
    <3> QED BY <3>3, <3>4
  <2> QED BY <2>2, <2>3
<1> QED BY <1>4, <1>5

(* What the theorems below assume: the approach moves and stops no job.     *)
(* The allocator may start one on any core.                                 *)
OnlyLockCalls == UserCalls \subseteq {"lock"}

LEMMA PipeStep ==
  ASSUME OnlyLockCalls, TypeOK, WorkerInv, HandInv, JobInOnePlace, PipeInv,
         NEW t \in Thread, StepOf(t)
  PROVE  PipeInv'
<1>1. pc'[Thermal] \in OnlyLocks
  <2>1. CASE t = Thermal
    BY <2>1, ThermalBinds, Threads DEF StepOf, PipeInv, OnlyLockCalls
  <2>2. CASE t # Thermal
    <3>1. pc'[Thermal] = pc[Thermal]
      BY <2>2, OthersStay, Threads DEF Stays, Thread
    <3> QED BY <3>1 DEF PipeInv
  <2> QED BY <2>1, <2>2
<1>2. ASSUME NEW j \in Job, j[1] \in PipelinedTask PROVE Staged(j)'
  <2>1. CASE t \in Dispatcher /\ Release(t)
    BY <1>2, <2>1, ReleaseStages
  <2>2. CASE t \in Core /\ (FireStopped(t) \/ FireComplete(t))
    BY <1>2, <2>2, FireStages
  <2>3. ASSUME BindsOld, UNCHANGED Accounts PROVE Staged(j)'
    BY <1>2, <2>3, StagesKept
  <2>4. CASE t \in Dispatcher /\ DispatcherStep(t) /\ ~Release(t)
    <3>1. OnCore' = OnCore /\ t \notin Core
      <4>1. \A c \in Core : CoreStays(c)
        BY <2>4, ForeignCore, Threads DEF StopsAt
      <4> QED BY <2>4, <4>1, OnCoreStays, Threads
    <3>2. pc[t] \in EmptyHanded => hand[t] = NoJob
      BY <2>4 DEF HandInv
    <3>3. CASE DispatcherExit(t)
      <4>1. UNCHANGED <<queue, hand, Accounts>> /\ pc[t] = "release"
        BY <3>3 DEF DispatcherExit, Accounts, processorVars, taskVars, carryVars, historyVars
      <4>2. CarriesOld(t)
        BY <3>2, <4>1 DEF CarriesOld, EmptyHanded
      <4> QED BY <2>3, <3>1, <4>1, <4>2, ServesSame, QueuesSame, OldBindings
    <3>4. CASE InsertJobToQueue(t)
      BY <2>3, <3>1, <3>2, <3>4, InsertBinds
    <3> QED BY <2>4, <3>3, <3>4 DEF DispatcherStep
  <2>5. CASE t \in Core /\ (Worker(t) \/ LoadTimeout(t)) /\ ~(FireStopped(t) \/ FireComplete(t))
    BY <2>3, <2>5, WorkerBinds
  <2>6. CASE t = Thermal /\ ThermalApproach
    BY <2>3, <2>6, ThermalBinds DEF PipeInv, OnlyLockCalls
  <2>7. CASE t = Main /\ (EndRun \/ Join)
    BY <2>3, <2>7, MainBinds
  <2> QED BY <2>1, <2>2, <2>4, <2>5, <2>6, <2>7 DEF StepOf
<1> QED BY <1>1, <1>2 DEF PipeInv

LEMMA PipeInit == Init => PipeInv
<1> SUFFICES ASSUME Init PROVE PipeInv
  OBVIOUS
<1>0. Thermal \in Thread /\ NoJob \notin Job
  BY Threads, Assumed DEF Assumptions
<1>1. pc[Thermal] = "loop"
  BY <1>0, Threads, Assumed DEF Init, Assumptions, Stopper
<1>2. ASSUME NEW j \in Job PROVE Staged(j)
  <2>1. \A c \in Core : ~Bound(j, c)
    <3>1. \A c \in Core : Serving(c) = NoJob /\ queue[c] = << >>
      BY DEF Init, Serving
    <3>2. \A t \in Thread : hand[t] = NoJob
      BY DEF Init
    <3> QED BY <1>0, <3>1, <3>2 DEF Bound
  <2>2. Fresh(j) /\ ~finished[j]
    BY DEF Init, Fresh
  <2>3. j \notin done
    BY DEF Init
  <2> QED BY <2>1, <2>2, <2>3 DEF Staged
<1> QED BY <1>1, <1>2 DEF PipeInv, OnlyLocks

LEMMA PipeInvariant ==
  ASSUME OnlyLockCalls
  PROVE  Spec => []PipeInv
<1>1. TypeOK /\ WorkerInv /\ HandInv /\ JobInOnePlace /\ PipeInv /\ [Next]_vars => PipeInv'
  <2> SUFFICES ASSUME TypeOK, WorkerInv, HandInv, JobInOnePlace, PipeInv, [Next]_vars
               PROVE  PipeInv'
    OBVIOUS
  <2>1. CASE UNCHANGED vars
    BY <2>1 DEF vars, processorVars, workerVars, taskVars, carryVars, historyVars, PipeInv, Staged,
                Stage, Fresh, Passed, AllPassed, Bound, Target, Serving, Released
  <2>2. ASSUME NEW t \in Thread, StepOf(t) PROVE PipeInv'
    BY <2>2, PipeStep
  <2> QED BY <2>1, <2>2, EveryStep
<1> QED BY <1>1, PipeInit, PlaceInvariant, PTL DEF Spec

(* Wherever the allocator has started a pipelined job (Processor::newJob    *)
(* replaces its id), and as long as no CMI call moves or stops jobs: once   *)
(* it has been executed, it waits for and is executed by the core it        *)
(* counts, after the stages of cores 1 to that one and of no other core but *)
(* the first, for any number of cores and jobs, up to the end of the run    *)
(* and after.                                                               *)
THEOREM PipelinesInOrder ==
  ASSUME OnlyLockCalls
  PROVE  Spec => []StagesInOrder
<1>1. PipeInv => StagesInOrder
  BY DEF PipeInv, Staged, Stage, Fresh, Passed, Bound, StagesInOrder
<1> QED BY <1>1, PipeInvariant, PTL

(* Under the same assumption a pipelined job is reported by the last core   *)
(* only; one that has started on core 0 not before every core has executed  *)
(* its stage (Pipelined::fire), and any other skips stages.                 *)
THEOREM PipelinesComplete ==
  ASSUME OnlyLockCalls
  PROVE  Spec => []PipelineComplete
<1>1. TypeOK /\ PipeInv => PipelineComplete
  BY DEF PipeInv, Staged, AllPassed, PipelineComplete, TypeOK
<1> QED BY <1>1, PipeInvariant, PlaceInvariant, PTL
-----------------------------------------------------------------------------
(* Where the program can crash.  Only StopPost and FireComplete use a       *)
(* pointer or an index that they do not check.                              *)

LEMMA QuietSteps ==
  ASSUME NEW t \in Thread, StepOf(t), ~crashed, crashed'
  PROVE  \/ t \in Stopper /\ StopPost(t)
         \/ t \in Core /\ FireComplete(t)
<1>1. ASSUME NEW u, InsertJobToQueue(u) PROVE UNCHANGED crashed
  BY <1>1 DEF InsertJobToQueue, InsertLock, InsertPush, InsertUnlock
<1>2. ASSUME NEW u, StopCurrentJob(u), ~StopPost(u) PROVE UNCHANGED crashed
  BY <1>2 DEF StopCurrentJob, StopLock, StopWait
<1>3. CASE t \in Dispatcher
  BY <1>1, <1>3, Threads DEF StepOf, DispatcherStep, Release, DispatcherExit
<1>4. CASE t \in Core
  <2>1. Worker(t) \/ LoadTimeout(t)
    BY <1>4, Threads DEF StepOf
  <2> QED BY <1>1, <1>4, <2>1 DEF Worker, LoadTimeout, WorkerLoop, LoadLock, LoadNumber, LoadPop,
                Loaded, SetJob, FireStopped, FireWork, ClearJob
<1>5. CASE t = Thermal
  <2>1. ThermalApproach /\ t \in Stopper
    BY <1>5, Threads DEF StepOf
  <2>2. CASE StopCurrentJob(Thermal)
    BY <1>2, <1>5, <2>1, <2>2
  <2>3. CASE ~StopCurrentJob(Thermal)
    BY <1>1, <2>1, <2>3 DEF ThermalApproach, ThermalLoop, CallReturns, ThermalReturn, TaskMigrate,
          Preempt, PreemptInsert, AdvanceJobInQueue, MoveJobToAnotherQueue, TakeOut, Reinsert,
          LockAllJobs, LockTaskQueue, LockCurrentJob, UnlockAllJobs
  <2> QED BY <2>2, <2>3
<1>6. CASE t = Main
  <2>1. (EndRun \/ Join) /\ t \in Stopper
    BY <1>6, Threads DEF StepOf
  <2>2. CASE StopCurrentJob(Main)
    BY <1>2, <1>6, <2>1, <2>2
  <2>3. CASE ~StopCurrentJob(Main)
    BY <2>1, <2>3 DEF EndRun, Join, JoinThreads, JoinWorker, JoinWait
  <2> QED BY <2>2, <2>3
<1> QED BY <1>3, <1>4, <1>5, <1>6 DEF Thread, Stopper

LEMMA CrashStep ==
  ASSUME TypeOK, WorkerInv, HandInv, NEW t \in Thread, StepOf(t), ~crashed, crashed'
  PROVE  NoOtherCrash'
<1>0. /\ pc \in [Thread -> Label] /\ at \in [Stopper -> Core] /\ current_job \in [Core -> MaybeJob]
      /\ hand \in [Thread -> MaybeJob] /\ finished \in [Job -> BOOLEAN]
  BY DEF TypeOK
<1>1. CASE t \in Stopper /\ StopPost(t)
  <2>1. /\ current_job[at[t]] = NoJob /\ pc[t] = "stop_post"
        /\ Goto(t, "stop_wait") /\ UNCHANGED <<at, current_job>>
    BY <1>1 DEF StopPost, workerVars, stopVars
  <2>2. t # Thermal
    BY <2>1 DEF HandInv
  <2>3. t = Main
    BY <1>1, <2>2 DEF Stopper
  <2>4. pc'[Main] = "stop_wait" /\ current_job'[at'[Main]] = NoJob
    BY <1>0, <2>1, <2>3 DEF Goto
  <2> QED BY <2>4 DEF NoOtherCrash
<1>2. CASE t \in Core /\ FireComplete(t)
  <2> DEFINE j == current_job[t]
  <2>1. pc[t] = "fire" /\ FireEffect(t, j, TRUE)
    BY <1>2 DEF FireComplete
  <2>2. j \in Job
    BY <1>0, <1>2, <2>1 DEF WorkerInv, MaybeJob
  <2>3. ~finished'[j]
    BY <1>2 DEF FireComplete
  <2>4. j[1] \in PipelinedTask
    BY <1>0, <2>1, <2>2, <2>3 DEF FireEffect
  <2>5. /\ nextCoreId'[j] \notin Core /\ Goto(t, "ins_lock")
        /\ hand' = [hand EXCEPT ![t] = j]
    BY <1>2, <2>3 DEF FireComplete
  <2>6. pc'[t] = "ins_lock" /\ hand'[t] = j
    BY <1>0, <2>5 DEF Goto
  <2>7. hand'[t] # NoJob /\ hand'[t][1] \in PipelinedTask /\ nextCoreId'[hand'[t]] \notin Core
    BY <2>2, <2>4, <2>5, <2>6, NoJobAssumption
  <2> QED BY <1>2, <2>6, <2>7 DEF NoOtherCrash, CountedPastLastCore
<1> QED BY <1>1, <1>2, QuietSteps

(* In every run, whatever CMI calls the approach makes, the second read of  *)
(* current_job in stopCurrentJob (Worker.cpp:107) finds a job for           *)
(* taskMigrate and preemptCurrentJobOnCore: the program crashes only in the *)
(* join, or at the index of a pipelined job moved back.                     *)
THEOREM CrashesOnlyInJoin == Spec => []NoOtherCrash
<1>1. Init => NoOtherCrash
  BY DEF Init, NoOtherCrash
<1>2. TypeOK /\ WorkerInv /\ HandInv /\ NoOtherCrash /\ [Next]_vars => NoOtherCrash'
  <2> SUFFICES ASSUME TypeOK, WorkerInv, HandInv, NoOtherCrash, [Next]_vars
               PROVE  NoOtherCrash'
    OBVIOUS
  <2>1. CASE UNCHANGED vars
    BY <2>1 DEF vars, workerVars, taskVars, carryVars, stopVars, NoOtherCrash, CountedPastLastCore
  <2>2. CASE ~crashed'
    BY <2>2 DEF NoOtherCrash
  <2>3. CASE crashed /\ ~UNCHANGED vars
    BY <2>3 DEF Next, Terminated
  <2>4. CASE ~crashed /\ crashed' /\ ~UNCHANGED vars
    BY <2>4, CrashStep, EveryStep
  <2> QED BY <2>1, <2>2, <2>3, <2>4
<1> QED BY <1>1, <1>2, HandInvariant, PTL DEF Spec
=============================================================================
