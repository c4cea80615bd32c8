-------------------------- MODULE ProcessorProofs --------------------------
(***************************************************************************)
(* Theorems about Processor for every number of cores, every set of        *)
(* dispatchers, every allocator, every choice of CMI calls and all bounds. *)
(***************************************************************************)
EXTENDS Processor, SequenceTheorems, TLAPS

-----------------------------------------------------------------------------
(* The operations of a job queue, for every set of jobs and every queue.    *)

(* A job inserted at the tail leaves a queue of jobs, one longer.           *)
LEMMA InsertJobType ==
  ASSUME NEW S, NEW q \in Seq(S), NEW job \in S \cup {NoJob}
  PROVE  /\ insertJob(q, job) \in Seq(S)
         /\ Len(insertJob(q, job)) = IF job = NoJob THEN Len(q) ELSE Len(q) + 1
  BY DEF insertJob

(* The two halves of a queue cut at a position.                             *)
LEMMA CutType ==
  ASSUME NEW S, NEW q \in Seq(S), NEW k \in 0..Len(q)
  PROVE  /\ SubSeq(q, 1, k) \in Seq(S) /\ Len(SubSeq(q, 1, k)) = k
         /\ SubSeq(q, k + 1, Len(q)) \in Seq(S) /\ Len(SubSeq(q, k + 1, Len(q))) = Len(q) - k
  OBVIOUS

(* insertJobAt keeps a queue of jobs and makes it one longer, wherever the  *)
(* position lies; a negative position and a NULL job change nothing.        *)
LEMMA InsertJobAtType ==
  ASSUME NEW S, NEW q \in Seq(S), NEW job \in S \cup {NoJob}, NEW position \in Int
  PROVE  /\ insertJobAt(q, position, job) \in Seq(S)
         /\ Len(insertJobAt(q, position, job)) =
              IF position < 0 \/ job = NoJob THEN Len(q) ELSE Len(q) + 1
<1>1. CASE position < 0 \/ job = NoJob
  BY <1>1 DEF insertJobAt
<1>2. CASE ~(position < 0 \/ job = NoJob)
  <2> DEFINE k == TruncatedPosition(q, position)
             a == SubSeq(q, 1, k)
             b == SubSeq(q, k + 1, Len(q))
  <2>1. k \in 0..Len(q)
    BY <1>2 DEF TruncatedPosition
  <2>2. insertJobAt(q, position, job) = (a \o <<job>>) \o b
    <3>1. insertJobAt(q, position, job) = InsertAt(q, k + 1, job)
      BY <1>2 DEF insertJobAt
    <3>2. (k + 1) - 1 = k
      BY <2>1
    <3> QED BY <3>1, <3>2 DEF InsertAt
  <2>3. a \in Seq(S) /\ Len(a) = k /\ b \in Seq(S) /\ Len(b) = Len(q) - k
    BY <2>1, CutType
  <2>4. <<job>> \in Seq(S) /\ Len(<<job>>) = 1
    BY <1>2
  <2> HIDE DEF a, b, k
  <2>5. a \o <<job>> \in Seq(S) /\ Len(a \o <<job>>) = k + 1
    BY <2>1, <2>3, <2>4
  <2>6. (a \o <<job>>) \o b \in Seq(S) /\ Len((a \o <<job>>) \o b) = Len(q) + 1
    BY <2>1, <2>3, <2>5
  <2> QED BY <1>2, <2>2, <2>6
<1> QED BY <1>1, <1>2

(* pop_at returns a job of the queue or NULL, and leaves a queue of jobs,   *)
(* one shorter exactly when it returns a job.                               *)
LEMMA PopAtType ==
  ASSUME NEW S, NoJob \notin S, NEW q \in Seq(S), NEW position \in Int
  PROVE  /\ peek_at(q, position) \in S \cup {NoJob}
         /\ pop_at(q, position) \in Seq(S)
         /\ Len(pop_at(q, position)) =
              IF peek_at(q, position) = NoJob THEN Len(q) ELSE Len(q) - 1
<1>1. CASE ~ValidPosition(q, position)
  BY <1>1 DEF peek_at, pop_at
<1>2. CASE ValidPosition(q, position)
  <2> DEFINE a == SubSeq(q, 1, position)
             b == SubSeq(q, (position + 1) + 1, Len(q))
  <2>1. position \in 0..(Len(q) - 1) /\ position + 1 \in 0..Len(q)
    BY <1>2 DEF ValidPosition
  <2>2. peek_at(q, position) \in S
    BY <1>2, <2>1 DEF peek_at
  <2>3. pop_at(q, position) = a \o b
    <3>1. pop_at(q, position) = RemoveAt(q, position + 1)
      BY <1>2 DEF pop_at
    <3>2. (position + 1) - 1 = position
      BY <2>1
    <3> QED BY <3>1, <3>2 DEF RemoveAt
  <2>4. a \in Seq(S) /\ Len(a) = position /\ b \in Seq(S) /\ Len(b) = Len(q) - (position + 1)
    BY <2>1, CutType
  <2> HIDE DEF a, b
  <2>5. a \o b \in Seq(S) /\ Len(a \o b) = Len(q) - 1
    BY <2>1, <2>4
  <2> QED BY <2>2, <2>3, <2>5
<1> QED BY <1>1, <1>2

(* pop_front, likewise, at the head.                                        *)
LEMMA PopFrontType ==
  ASSUME NEW S, NoJob \notin S, NEW q \in Seq(S)
  PROVE  /\ peek_front(q) \in S \cup {NoJob}
         /\ pop_front(q) \in Seq(S)
         /\ Len(pop_front(q)) = IF peek_front(q) = NoJob THEN Len(q) ELSE Len(q) - 1
  BY DEF peek_front, pop_front

-----------------------------------------------------------------------------
(* Where the jobs of a queue are before and after an operation.             *)

(* List r is list q with x put in at position p.                            *)
Inserted(q, r, p, x) ==
  /\ Len(r) = Len(q) + 1 /\ p \in 1..Len(r) /\ r[p] = x
  /\ \A k \in 1..Len(q) : r[IF k < p THEN k ELSE k + 1] = q[k]

LEMMA InsertJobPlace ==
  ASSUME NEW S, NEW q \in Seq(S), NEW job \in S, NoJob \notin S
  PROVE  Inserted(q, insertJob(q, job), Len(q) + 1, job)
<1>1. insertJob(q, job) = Append(q, job)
  BY DEF insertJob
<1>2. Len(Append(q, job)) = Len(q) + 1 /\ Append(q, job)[Len(q) + 1] = job
  OBVIOUS
<1>3. \A k \in 1..Len(q) : Append(q, job)[k] = q[k] /\ k < Len(q) + 1
  OBVIOUS
<1>4. Len(q) + 1 \in 1..(Len(q) + 1)
  OBVIOUS
<1> QED BY <1>1, <1>2, <1>3, <1>4 DEF Inserted

(* List q is list a followed by list b.                                     *)
Joined(a, b, q) ==
  /\ Len(q) = Len(a) + Len(b)
  /\ \A k \in 1..Len(a) : q[k] = a[k]
  /\ \A k \in 1..Len(b) : q[Len(a) + k] = b[k]

LEMMA ConcatJoins ==
  ASSUME NEW S, NEW a \in Seq(S), NEW b \in Seq(S)
  PROVE  Joined(a, b, a \o b) /\ a \o b \in Seq(S)
<1>1. /\ a \o b \in Seq(S)
      /\ Len(a \o b) = Len(a) + Len(b)
      /\ \A i \in 1..(Len(a) + Len(b)) :
            (a \o b)[i] = IF i <= Len(a) THEN a[i] ELSE b[i - Len(a)]
  BY ConcatProperties
<1>2. Len(a) \in Nat /\ Len(b) \in Nat
  OBVIOUS
<1>3. ASSUME NEW k \in 1..Len(a) PROVE (a \o b)[k] = a[k]
  <2>1. k \in 1..(Len(a) + Len(b)) /\ k <= Len(a)
    BY <1>2
  <2> QED BY <1>1, <2>1
<1>4. ASSUME NEW k \in 1..Len(b) PROVE (a \o b)[Len(a) + k] = b[k]
  <2>1. /\ Len(a) + k \in 1..(Len(a) + Len(b))
        /\ ~(Len(a) + k <= Len(a)) /\ (Len(a) + k) - Len(a) = k
    BY <1>2
  <2> QED BY <1>1, <2>1
<1> QED BY <1>1, <1>3, <1>4 DEF Joined

(* Putting x between two lists. *)
LEMMA JoinedPlace ==
  ASSUME NEW S, NEW a \in Seq(S), NEW b \in Seq(S), NEW x \in S
  PROVE  Inserted(a \o b, (a \o <<x>>) \o b, Len(a) + 1, x)
<1> DEFINE q == a \o b
           h == a \o <<x>>
           r == h \o b
<1>0. <<x>> \in Seq(S) /\ Len(<<x>>) = 1 /\ <<x>>[1] = x
  OBVIOUS
<1>3. Len(a) \in Nat /\ Len(b) \in Nat
  OBVIOUS
<1> HIDE DEF q, r, h
<1>a. Joined(a, b, q)
  BY ConcatJoins DEF q
<1>b. Joined(a, <<x>>, h) /\ h \in Seq(S)
  BY <1>0, ConcatJoins DEF h
<1>c. Joined(h, b, r)
  BY <1>b, ConcatJoins DEF r
<1>1. /\ Len(q) = Len(a) + Len(b) /\ Len(h) = Len(a) + 1
      /\ \A k \in 1..Len(a) : q[k] = a[k] /\ h[k] = a[k]
      /\ \A k \in 1..Len(b) : q[Len(a) + k] = b[k]
      /\ h[Len(a) + 1] = x
  BY <1>0, <1>a, <1>b DEF Joined
<1>2. /\ Len(r) = Len(h) + Len(b)
      /\ \A k \in 1..Len(h) : r[k] = h[k]
      /\ \A k \in 1..Len(b) : r[Len(h) + k] = b[k]
  BY <1>c DEF Joined
<1> HIDE DEF q, r
<1>4. ASSUME NEW k \in 1..Len(q) PROVE r[IF k < Len(a) + 1 THEN k ELSE k + 1] = q[k]
  <2>1. CASE k < Len(a) + 1
    <3>1. k \in 1..Len(a) /\ k \in 1..Len(h)
      BY <1>1, <1>3, <2>1
    <3> QED BY <1>1, <1>2, <2>1, <3>1
  <2>2. CASE ~(k < Len(a) + 1)
    <3>1. PICK i \in 1..Len(b) : k = Len(a) + i
      <4>1. k - Len(a) \in 1..Len(b) /\ k = Len(a) + (k - Len(a))
        BY <1>1, <1>3, <2>2
      <4> QED BY <4>1
    <3>2. k + 1 = Len(h) + i
      BY <1>1, <1>3, <3>1
    <3> QED BY <1>1, <1>2, <2>2, <3>1, <3>2
  <2> QED BY <2>1, <2>2
<1>5. Len(r) = Len(q) + 1 /\ Len(a) + 1 \in 1..Len(r) /\ r[Len(a) + 1] = x
  BY <1>1, <1>2, <1>3
<1>6. Inserted(q, r, Len(a) + 1, x)
  BY <1>4, <1>5 DEF Inserted
<1> QED BY <1>6 DEF q, r, h

LEMMA CutJoined ==
  ASSUME NEW S, NEW q \in Seq(S), NEW k \in 0..Len(q)
  PROVE  q = SubSeq(q, 1, k) \o SubSeq(q, k + 1, Len(q))
<1> DEFINE a == SubSeq(q, 1, k)
           b == SubSeq(q, k + 1, Len(q))
           r == a \o b
<1>1. Len(q) \in Nat
  OBVIOUS
<1>2. /\ a \in Seq(S) /\ Len(a) = k
      /\ b \in Seq(S) /\ Len(b) = Len(q) - k
  BY CutType
<1>3. \A i \in 1..k : a[i] = q[i]
  OBVIOUS
<1>4. \A i \in 1..(Len(q) - k) : b[i] = q[k + i]
  OBVIOUS
<1> HIDE DEF a, b
<1>5. r \in Seq(S) /\ Joined(a, b, r)
  BY <1>2, ConcatJoins
<1> HIDE DEF r
<1>6. Len(r) = Len(q)
  BY <1>1, <1>2, <1>5 DEF Joined
<1>7. ASSUME NEW i \in 1..Len(q) PROVE q[i] = r[i]
  <2>1. CASE i <= k
    <3>1. i \in 1..Len(a) /\ i \in 1..k
      BY <1>1, <1>2, <2>1
    <3> QED BY <1>3, <1>5, <3>1 DEF Joined
  <2>2. CASE ~(i <= k)
    <3>1. i - k \in 1..Len(b) /\ i - k \in 1..(Len(q) - k) /\ k + (i - k) = i
      BY <1>1, <1>2, <2>2
    <3>2. r[Len(a) + (i - k)] = b[i - k] /\ b[i - k] = q[k + (i - k)]
      BY <1>4, <1>5, <3>1 DEF Joined
    <3> QED BY <1>2, <3>1, <3>2
  <2> QED BY <2>1, <2>2
<1>8. q = r
  BY <1>5, <1>6, <1>7, SeqEqual
<1> QED BY <1>8 DEF r, a, b

(* insertJobAt puts the job at some position, and moves nothing else out.   *)
LEMMA InsertJobAtPlace ==
  ASSUME NEW S, NEW q \in Seq(S), NEW job \in S, NoJob \notin S, NEW position \in Nat
  PROVE  \E p : Inserted(q, insertJobAt(q, position, job), p, job)
<1> DEFINE k == TruncatedPosition(q, position)
           a == SubSeq(q, 1, k)
           b == SubSeq(q, k + 1, Len(q))
<1>1. k \in 0..Len(q)
  BY DEF TruncatedPosition
<1>2. insertJobAt(q, position, job) = (a \o <<job>>) \o b
  <2>1. insertJobAt(q, position, job) = InsertAt(q, k + 1, job)
    BY DEF insertJobAt
  <2>2. (k + 1) - 1 = k
    BY <1>1
  <2> QED BY <2>1, <2>2 DEF InsertAt
<1> HIDE DEF k
<1>3. a \in Seq(S) /\ b \in Seq(S)
  BY <1>1, CutType
<1>4. q = a \o b
  BY <1>1, CutJoined
<1> HIDE DEF a, b
<1>5. Inserted(a \o b, (a \o <<job>>) \o b, Len(a) + 1, job)
  BY <1>3, JoinedPlace
<1> QED BY <1>2, <1>4, <1>5

(* pop_at takes out one job: the queue before is the one after with the job *)
(* it returns put back.                                                     *)
LEMMA PopAtPlace ==
  ASSUME NEW S, NoJob \notin S, NEW q \in Seq(S), NEW position \in Int,
         peek_at(q, position) # NoJob
  PROVE  \E p : Inserted(pop_at(q, position), q, p, peek_at(q, position))
<1> DEFINE k == position
           a == SubSeq(q, 1, k)
           b == SubSeq(q, (k + 1) + 1, Len(q))
<1>1. k \in 0..(Len(q) - 1) /\ k + 1 \in 0..Len(q) /\ peek_at(q, position) = q[k + 1]
  BY DEF peek_at, ValidPosition
<1>2. pop_at(q, position) = a \o b
  <2>1. pop_at(q, position) = RemoveAt(q, k + 1)
    BY <1>1 DEF pop_at, ValidPosition
  <2>2. (k + 1) - 1 = k
    BY <1>1
  <2> QED BY <2>1, <2>2 DEF RemoveAt
<1>3. a \in Seq(S) /\ b \in Seq(S) /\ q[k + 1] \in S
  <2>1. k \in 0..Len(q)
    BY <1>1
  <2> QED BY <1>1, <2>1, CutType
<1>4. q = (a \o <<q[k + 1]>>) \o b
  <2>1. q = SubSeq(q, 1, k + 1) \o b
    BY <1>1, CutJoined
  <2>2. SubSeq(q, 1, k + 1) = a \o <<q[k + 1]>>
    BY <1>1
  <2> QED BY <2>1, <2>2
<1> HIDE DEF a, b, k
<1>5. Inserted(a \o b, (a \o <<q[k + 1]>>) \o b, Len(a) + 1, q[k + 1])
  BY <1>3, JoinedPlace
<1> QED BY <1>1, <1>2, <1>4, <1>5

LEMMA PopFrontPlace ==
  ASSUME NEW S, NoJob \notin S, NEW q \in Seq(S), peek_front(q) # NoJob
  PROVE  Inserted(pop_front(q), q, 1, peek_front(q))
<1>1. q # << >> /\ peek_front(q) = q[1] /\ pop_front(q) = Tail(q)
  BY DEF peek_front, pop_front
<1>2. Len(q) = Len(Tail(q)) + 1 /\ 1 \in 1..Len(q)
  BY <1>1
<1>3. \A k \in 1..Len(Tail(q)) : ~(k < 1) /\ q[k + 1] = Tail(q)[k]
  BY <1>1
<1> QED BY <1>1, <1>2, <1>3 DEF Inserted

-----------------------------------------------------------------------------
Assumptions == /\ NCores \in Nat \ {0}
               /\ Aperiodic \subseteq Dispatcher
               /\ MaxJobs \in Nat /\ MaxPosition \in Nat /\ Wcet \in Nat \ {0}
               /\ Dispatcher \cap (Core \cup Stopper) = {} /\ Core \cap Stopper = {}
               /\ Thermal # Main /\ NoJob \notin Job

LEMMA Assumed == Assumptions
  BY NCoresAssumption, TaskAssumption, BoundsAssumption, ThreadAssumption, NoJobAssumption
     DEF Assumptions

(* The three kinds of threads are apart from each other.                    *)
LEMMA Threads ==
  /\ \A d \in Dispatcher : d \in Thread /\ d \notin Core /\ d # Thermal /\ d # Main
  /\ \A c \in Core : c \in Thread /\ c \in Int /\ c \notin Dispatcher /\ c # Thermal /\ c # Main
  /\ \A s \in Stopper : s \in Thread /\ s \notin Core /\ s \notin Dispatcher
  /\ Thermal \in Stopper /\ Main \in Stopper /\ Thermal # Main
  /\ 0 \in Core
  BY Assumed DEF Assumptions, Thread, Stopper, Core

-----------------------------------------------------------------------------
(* Type correctness.  stopped and done are sets of jobs because a worker is *)
(* in fire only with a job, and that is so because stopCurrentJob takes a   *)
(* job away only from a worker that has posted stop_sem on its exit.        *)

WorkerInv ==
  \A c \in Core : /\ stop_sem[c] > 0 => pc[c] = "exit"
                  /\ pc[c] = "set_job" => hand[c] # NoJob
                  /\ pc[c] = "fire" => current_job[c] # NoJob

(* A semaphore keeps a value in Nat: sem_post adds one, and sem_wait takes  *)
(* one only if there is one.                                                *)
LEMMA SemUp ==
  ASSUME NEW S, NEW sem \in [S -> Nat], NEW c \in S
  PROVE  Up(sem, c) \in [S -> Nat]
  BY DEF Up

LEMMA SemDown ==
  ASSUME NEW S, NEW sem \in [S -> Nat], NEW c \in S, sem[c] > 0
  PROVE  Down(sem, c) \in [S -> Nat]
<1>1. sem[c] - 1 \in Nat
  OBVIOUS
<1> QED BY <1>1 DEF Down

LEMMA SemUpAll ==
  ASSUME NEW sem \in [Core -> Nat], NEW n \in Nat
  PROVE  UpAll(sem, n) \in [Core -> Nat]
  BY DEF UpAll

LEMMA InsertType ==
  ASSUME TypeOK, NEW t \in Thread, InsertJobToQueue(t)
  PROVE  TypeOK'
<1> USE DEF TypeOK, processorVars, workerVars, taskVars, carryVars, stopVars, userVars,
            historyVars, Goto
<1>1. CASE InsertLock(t)
  BY <1>1, SemDown DEF InsertLock, Label
<1>2. CASE InsertPush(t)
  <2>1. dest[t] \in Core /\ hand[t] \in Job \cup {NoJob} /\ queue[dest[t]] \in Seq(Job)
    BY DEF MaybeJob
  <2>2. insertJob(queue[dest[t]], hand[t]) \in Seq(Job)
    BY <2>1, InsertJobType
  <2> QED BY <1>2, <2>1, <2>2 DEF InsertPush, MaybeJob, Label
<1>3. CASE InsertUnlock(t)
  BY <1>3, SemUp DEF InsertUnlock, AfterInsert, Label
<1> QED BY <1>1, <1>2, <1>3 DEF InsertJobToQueue

LEMMA DispatcherType ==
  ASSUME TypeOK, NEW d \in Dispatcher, DispatcherStep(d)
  PROVE  TypeOK'
<1> USE DEF TypeOK, processorVars, workerVars, taskVars, carryVars, stopVars, userVars,
            historyVars, Goto
<1>0. d \in Thread
  BY Threads
<1>1. CASE Release(d)
  <2>1. jobCounter[d] \in 0..MaxJobs /\ jobCounter[d] < MaxJobs /\ MaxJobs \in Nat
    BY <1>1, Assumed DEF Release, Assumptions
  <2>2. jobCounter[d] + 1 \in 1..MaxJobs /\ <<d, jobCounter[d] + 1>> \in Job
    BY <2>1 DEF Job
  <2>3. PICK answer \in Allocator[d] : dest' = [dest EXCEPT ![d] = TargetCore(answer)]
    BY <1>1 DEF Release
  <2>4. TargetCore(answer) \in Core
    BY Threads DEF TargetCore
  <2>5. dest' \in [Thread -> Core]
    BY <1>0, <2>3, <2>4
  <2>6. /\ jobCounter' \in [Dispatcher -> 0..MaxJobs]
        /\ hand' \in [Thread -> MaybeJob]
        /\ pc' = [pc EXCEPT ![d] = "ins_lock"]
        /\ UNCHANGED <<running, crashed, processorVars, workerVars, load_stop_sem, count,
                       nextCoreId, finished, stopVars, userVars, historyVars>>
    BY <1>0, <1>1, <2>1, <2>2 DEF Release, MaybeJob
  <2> QED BY <1>0, <2>5, <2>6 DEF Label
<1>2. CASE DispatcherExit(d)
  BY <1>0, <1>2 DEF DispatcherExit, Label
<1>3. CASE InsertJobToQueue(d)
  BY <1>0, <1>3, InsertType
<1> QED BY <1>1, <1>2, <1>3 DEF DispatcherStep

LEMMA WorkerType ==
  ASSUME TypeOK, WorkerInv, NEW c \in Core, Worker(c) \/ LoadTimeout(c)
  PROVE  TypeOK'
<1> USE DEF TypeOK, processorVars, workerVars, taskVars, carryVars, stopVars, userVars,
            historyVars, Goto
<1>0. c \in Thread /\ c \in Core
  BY Threads
<1>1. CASE WorkerLoop(c)
  <2>1. pc' \in [Thread -> Label]
    BY <1>0, <1>1 DEF WorkerLoop, Label
  <2>2. CASE running
    BY <1>1, <2>1, <2>2 DEF WorkerLoop
  <2>3. CASE ~running
    <3>1. stop_sem' = Up(stop_sem, c)
      BY <1>1, <2>3 DEF WorkerLoop
    <3>2. stop_sem' \in [Core -> Nat]
      BY <1>0, <3>1, SemUp
    <3> QED BY <1>1, <2>1, <3>2 DEF WorkerLoop
  <2> QED BY <2>2, <2>3
<1>2. CASE LoadLock(c)
  <2>1. pc' \in [Thread -> Label]
    BY <1>0, <1>2 DEF LoadLock, Label
  <2>2. taskqueue_sem' \in [Core -> Nat]
    BY SemUp, SemDown, <1>0, <1>2 DEF LoadLock
  <2> QED BY <1>2, <2>1, <2>2 DEF LoadLock
<1>3. CASE LoadNumber(c)
  <2>1. pc' \in [Thread -> Label]
    BY <1>0, <1>3 DEF LoadNumber, Label
  <2>2. jobnumber_sem' \in [Core -> Nat]
    BY SemUp, SemDown, <1>0, <1>3 DEF LoadNumber
  <2> QED BY <1>3, <2>1, <2>2 DEF LoadNumber
<1>4. CASE LoadPop(c)
  <2>1. peek_front(queue[c]) \in MaybeJob /\ pop_front(queue[c]) \in Seq(Job)
    BY PopFrontType, Assumed DEF Assumptions, MaybeJob
  <2>2. pc' \in [Thread -> Label]
    BY <1>0, <1>4 DEF LoadPop, Label
  <2>3. hand' \in [Thread -> MaybeJob]
    BY <1>0, <1>4, <2>1 DEF LoadPop
  <2>4. queue' \in [Core -> Seq(Job)]
    BY <1>0, <1>4, <2>1 DEF LoadPop
  <2>5. taskqueue_sem' \in [Core -> Nat]
    BY SemUp, SemDown, <1>0, <1>4 DEF LoadPop
  <2> QED BY <1>4, <2>2, <2>3, <2>4, <2>5 DEF LoadPop
<1>5. CASE LoadTimeout(c)
  <2>1. pc' \in [Thread -> Label]
    BY <1>0, <1>5 DEF LoadTimeout, Label
  <2>2. CASE pc[c] = "load_lock"
    BY <1>5, <2>1, <2>2 DEF LoadTimeout
  <2>3. CASE pc[c] = "load_number"
    <3>1. taskqueue_sem' = Up(taskqueue_sem, c)
      BY <1>5, <2>3 DEF LoadTimeout
    <3>2. taskqueue_sem' \in [Core -> Nat]
      BY <1>0, <3>1, SemUp
    <3> QED BY <1>5, <2>1, <3>2 DEF LoadTimeout
  <2> QED BY <1>5, <2>2, <2>3 DEF LoadTimeout
<1>6. CASE Loaded(c)
  <2>1. pc' \in [Thread -> Label]
    BY <1>0, <1>6 DEF Loaded, Label
  <2>2. CASE hand[c] = NoJob /\ running
    BY <1>6, <2>1, <2>2 DEF Loaded
  <2>3. CASE ~(hand[c] = NoJob /\ running)
    <3>1. stop_sem' = [stop_sem EXCEPT ![c] = 0]
      BY <1>6, <2>3 DEF Loaded
    <3>2. stop_sem' \in [Core -> Nat]
      BY <1>0, <3>1
    <3> QED BY <1>6, <2>1, <3>2 DEF Loaded
  <2> QED BY <2>2, <2>3
<1>7. CASE SetJob(c)
  <2>1. pc' \in [Thread -> Label]
    BY <1>0, <1>7 DEF SetJob, Label
  <2>2. hand' \in [Thread -> MaybeJob]
    BY <1>0, <1>7 DEF SetJob, MaybeJob
  <2>3. current_job' \in [Core -> MaybeJob]
    BY <1>0, <1>7 DEF SetJob
  <2> QED BY <1>7, <2>1, <2>2, <2>3 DEF SetJob
<1> DEFINE j == current_job[c]
<1>8. pc[c] = "fire" => j \in Job
  BY <1>0 DEF WorkerInv, MaybeJob
<1>9. ASSUME NEW complete \in BOOLEAN, j \in Job, FireEffect(c, j, complete)
      PROVE  finished' \in [Job -> BOOLEAN] /\ nextCoreId' \in [Job -> Int]
  <2> HIDE DEF j
  <2>1. finished' \in [Job -> BOOLEAN]
    BY <1>9 DEF FireEffect
  <2>2. nextCoreId' \in [Job -> Int]
    BY <1>9 DEF FireEffect
  <2> QED BY <2>1, <2>2
<1>10. CASE FireStopped(c)
  <2>1. j \in Job /\ load_stop_sem[j] > 0 /\ FireEffect(c, j, FALSE)
    BY <1>8, <1>10 DEF FireStopped
  <2>2. /\ load_stop_sem' = Down(load_stop_sem, j)
        /\ stopped' = stopped \cup {j}
        /\ pc' = [pc EXCEPT ![c] = "clear"]
        /\ UNCHANGED <<running, crashed, processorVars, workerVars, count, jobCounter,
                       carryVars, stopVars, userVars, done, stages>>
    BY <1>10 DEF FireStopped
  <2> HIDE DEF j
  <2>3. finished' \in [Job -> BOOLEAN] /\ nextCoreId' \in [Job -> Int]
    BY <1>9, <2>1
  <2>4. load_stop_sem' \in [Job -> Nat]
    BY SemUp, SemDown, <2>1, <2>2
  <2>5. pc' \in [Thread -> Label]
    BY <1>0, <2>2 DEF Label
  <2> QED BY <2>1, <2>2, <2>3, <2>4, <2>5
<1>11. CASE FireWork(c)
  <2>1. j \in Job /\ count[j] \in 0..(Wcet - 1) /\ count[j] + 1 < Wcet /\ Wcet \in Nat
    BY <1>8, <1>11, Assumed DEF FireWork, Assumptions
  <2>2. count' = [count EXCEPT ![j] = @ + 1]
    BY <1>11 DEF FireWork
  <2>3. count' \in [Job -> 0..(Wcet - 1)]
    BY <2>1, <2>2
  <2> QED BY <1>11, <2>3 DEF FireWork
<1>12. CASE FireComplete(c)
  <2>1. j \in Job /\ FireEffect(c, j, TRUE) /\ Wcet \in Nat \ {0}
    BY <1>8, <1>12, Assumed DEF FireComplete, Assumptions
  <2>2. /\ count' = [count EXCEPT ![j] = 0]
        /\ stages' = [stages EXCEPT ![j] = @ \cup {c}]
        /\ UNCHANGED <<running, processorVars, workerVars, load_stop_sem, jobCounter,
                       stopVars, userVars, stopped>>
    BY <1>12 DEF FireComplete
  <2>3. IF finished'[j]
        THEN /\ done' = done \cup {j} /\ pc' = [pc EXCEPT ![c] = "clear"]
             /\ UNCHANGED <<crashed, carryVars>>
        ELSE /\ crashed' = (nextCoreId'[j] \notin Core)
             /\ hand' = [hand EXCEPT ![c] = j]
             /\ dest' = [dest EXCEPT ![c] = IF crashed' THEN @ ELSE nextCoreId'[j]]
             /\ pc' = [pc EXCEPT ![c] = "ins_lock"]
             /\ UNCHANGED done
    BY <1>12 DEF FireComplete
  <2> HIDE DEF j
  <2>4. finished' \in [Job -> BOOLEAN] /\ nextCoreId' \in [Job -> Int]
    BY <1>9, <2>1
  <2>5. count' \in [Job -> 0..(Wcet - 1)]
    BY <2>1, <2>2
  <2>6. stages' \in [Job -> SUBSET Core]
    BY <1>0, <2>1, <2>2
  <2>7. CASE finished'[j]
    <3>1. pc' \in [Thread -> Label]
      BY <1>0, <2>3, <2>7 DEF Label
    <3>2. done' \subseteq Job /\ UNCHANGED <<crashed, carryVars>>
      BY <2>1, <2>3, <2>7
    <3> QED BY <2>2, <2>4, <2>5, <2>6, <3>1, <3>2
  <2>8. CASE ~finished'[j]
    <3>1. pc' \in [Thread -> Label]
      BY <1>0, <2>3, <2>8 DEF Label
    <3>2. crashed' \in BOOLEAN /\ UNCHANGED done
      BY <2>3, <2>8
    <3>3. hand' \in [Thread -> MaybeJob]
      BY <1>0, <2>1, <2>3, <2>8 DEF MaybeJob
    <3>4. (IF crashed' THEN dest[c] ELSE nextCoreId'[j]) \in Core
      BY <1>0, <2>3, <2>8
    <3>5. dest' \in [Thread -> Core]
      BY <1>0, <2>3, <2>8, <3>4
    <3> QED BY <2>2, <2>4, <2>5, <2>6, <3>1, <3>2, <3>3, <3>5
  <2> QED BY <2>7, <2>8
<1>13. CASE ClearJob(c)
  <2>1. pc' \in [Thread -> Label]
    BY <1>0, <1>13 DEF ClearJob, Label
  <2>2. current_job' \in [Core -> MaybeJob]
    BY <1>0, <1>13 DEF ClearJob, MaybeJob
  <2> QED BY <1>13, <2>1, <2>2 DEF ClearJob
<1>14. CASE InsertJobToQueue(c)
  BY <1>0, <1>14, InsertType
<1> QED BY <1>1, <1>2, <1>3, <1>4, <1>5, <1>6, <1>7, <1>10, <1>11, <1>12, <1>13, <1>14 DEF Worker

LEMMA StopType ==
  ASSUME TypeOK, NEW t \in Stopper, StopCurrentJob(t)
  PROVE  TypeOK'
<1> USE DEF TypeOK, processorVars, workerVars, taskVars, carryVars, stopVars, userVars,
            historyVars, Goto
<1>0. t \in Thread /\ at[t] \in Core /\ Main \in Stopper /\ Thermal \in Stopper
  BY Threads
<1>1. CASE StopLock(t)
  <2>1. victim' \in [Stopper -> MaybeJob]
    BY <1>0, <1>1 DEF StopLock, MaybeJob
  <2>2. CASE current_job[at[t]] = NoJob
    <3>1. pc' = [pc EXCEPT ![t] = AfterStop(t, NoJob)] /\ UNCHANGED job_sem
      BY <1>1, <2>2 DEF StopLock
    <3>2. pc' \in [Thread -> Label]
      BY <1>0, <3>1 DEF AfterStop, Label
    <3> QED BY <1>1, <2>1, <3>1, <3>2 DEF StopLock
  <2>3. CASE current_job[at[t]] # NoJob
    <3>1. /\ pc' = [pc EXCEPT ![t] = "stop_post"]
          /\ job_sem' = Down(job_sem, at[t]) /\ job_sem[at[t]] > 0
      BY <1>1, <2>3 DEF StopLock
    <3>2. pc' \in [Thread -> Label]
      BY <1>0, <3>1 DEF Label
    <3>3. job_sem' \in [Core -> Nat]
      BY <1>0, <3>1, SemDown
    <3> QED BY <1>1, <2>1, <3>2, <3>3 DEF StopLock
  <2> QED BY <2>2, <2>3
<1>2. CASE StopPost(t)
  <2>1. pc' \in [Thread -> Label]
    BY <1>0, <1>2 DEF StopPost, Label
  <2>2. CASE current_job[at[t]] = NoJob
    BY <1>2, <2>1, <2>2 DEF StopPost
  <2>3. CASE current_job[at[t]] # NoJob
    <3>1. current_job[at[t]] \in Job
      BY <1>0, <2>3 DEF MaybeJob
    <3>2. load_stop_sem' = Up(load_stop_sem, current_job[at[t]])
      BY <1>2, <2>3 DEF StopPost
    <3>3. load_stop_sem' \in [Job -> Nat]
      BY <3>1, <3>2, SemUp
    <3> QED BY <1>2, <2>1, <2>3, <3>3 DEF StopPost
  <2> QED BY <2>2, <2>3
<1>3. CASE StopWait(t)
  <2>1. /\ pc' = [pc EXCEPT ![t] = AfterStop(t, victim[t])]
        /\ stop_sem' = Down(stop_sem, at[t]) /\ stop_sem[at[t]] > 0
        /\ current_job' = [current_job EXCEPT ![at[t]] = NoJob]
        /\ job_sem' = Up(job_sem, at[t])
    BY <1>3 DEF StopWait
  <2>2. pc' \in [Thread -> Label]
    BY <1>0, <2>1 DEF AfterStop, Label
  <2>3. stop_sem' \in [Core -> Nat]
    BY <1>0, <2>1, SemDown
  <2>4. current_job' \in [Core -> MaybeJob]
    BY <1>0, <2>1 DEF MaybeJob
  <2>5. job_sem' \in [Core -> Nat]
    BY <1>0, <2>1, SemUp
  <2>6. CASE t = Main
    <3>1. stopped' = stopped \cup ({current_job[at[t]]} \ {NoJob}) /\ UNCHANGED hand
      BY <1>3, <2>6 DEF StopWait
    <3>2. stopped' \subseteq Job
      BY <1>0, <3>1 DEF MaybeJob
    <3> QED BY <1>3, <2>2, <2>3, <2>4, <2>5, <3>1, <3>2 DEF StopWait
  <2>7. CASE t # Main
    <3>1. stopped' = stopped \ {victim[t]} /\ hand' = [hand EXCEPT ![t] = victim[t]]
      BY <1>3, <2>7 DEF StopWait
    <3>2. stopped' \subseteq Job
      BY <3>1
    <3>3. hand' \in [Thread -> MaybeJob]
      BY <1>0, <3>1
    <3> QED BY <1>3, <2>2, <2>3, <2>4, <2>5, <3>2, <3>3 DEF StopWait
  <2> QED BY <2>6, <2>7
<1> QED BY <1>1, <1>2, <1>3 DEF StopCurrentJob

(* The next core of a loop over all cores is a core. *)
LEMMA NextCoreType ==
  ASSUME TypeOK, NextCore
  PROVE  at' \in [Stopper -> Core]
<1>1. at[Thermal] \in 0..(NCores - 1) /\ NCores \in Nat
  BY Threads, Assumed DEF TypeOK, Core, Assumptions
<1>2. (IF LastCore THEN 0 ELSE at[Thermal] + 1) \in Core
  BY <1>1, Threads DEF LastCore, Core
<1> QED BY <1>2, Threads DEF NextCore, TypeOK

LEMMA ThermalType ==
  ASSUME TypeOK, ThermalApproach
  PROVE  TypeOK'
<1> USE DEF TypeOK, processorVars, workerVars, taskVars, carryVars, stopVars, userVars,
            historyVars, Goto
<1>0. Thermal \in Thread /\ Thermal \in Stopper /\ at[Thermal] \in Core /\ dest[Thermal] \in Core
      /\ 0 \in Core
  BY Threads
<1>1. CASE ThermalLoop
  <2>1. pc' \in [Thread -> Label]
    BY <1>0, <1>1 DEF ThermalLoop, Label
  <2> QED BY <1>1, <2>1 DEF ThermalLoop
<1>2. CASE CallReturns
  <2>1. pc' \in [Thread -> Label]
    BY <1>0, <1>2 DEF CallReturns, Label
  <2>2. call' \in [op : {"none", "migrate", "preempt", "reinsert"}, slot : BOOLEAN, position : Nat]
    BY <1>0, <1>2 DEF CallReturns, NoCall
  <2>3. at' \in [Stopper -> Core]
    BY <1>0, <1>2 DEF CallReturns
  <2>4. victim' \in [Stopper -> MaybeJob]
    BY <1>0, <1>2 DEF CallReturns, MaybeJob
  <2>5. dest' \in [Thread -> Core]
    BY <1>0, <1>2 DEF CallReturns
  <2> QED BY <1>2, <2>1, <2>2, <2>3, <2>4, <2>5 DEF CallReturns
<1>3. CASE ThermalReturn
  <2>1. pc' \in [Thread -> Label]
    BY <1>0, <1>3 DEF ThermalReturn, Label
  <2> QED BY <1>3, <2>1 DEF ThermalReturn
<1>4. ASSUME NEW s \in Core, NEW t \in Core, TaskMigrate(s, t)
      PROVE  TypeOK'
  <2>1. pc' \in [Thread -> Label]
    BY <1>0, <1>4 DEF TaskMigrate, Label
  <2>2. call' \in [op : {"none", "migrate", "preempt", "reinsert"}, slot : BOOLEAN, position : Nat]
    BY <1>0, <1>4 DEF TaskMigrate, NoCall
  <2>3. at' \in [Stopper -> Core]
    BY <1>0, <1>4 DEF TaskMigrate
  <2>4. dest' \in [Thread -> Core]
    BY <1>0, <1>4 DEF TaskMigrate
  <2> QED BY <1>4, <2>1, <2>2, <2>3, <2>4 DEF TaskMigrate
<1>5. ASSUME NEW c \in Core, Preempt(c)
      PROVE  TypeOK'
  <2>1. pc' \in [Thread -> Label]
    BY <1>0, <1>5 DEF Preempt, Label
  <2>2. call' \in [op : {"none", "migrate", "preempt", "reinsert"}, slot : BOOLEAN, position : Nat]
    <3>1. call' = [op |-> "preempt", slot |-> taskqueue_sem[c] > 0, position |-> 0]
      BY <1>5 DEF Preempt, NoCall
    <3>2. (taskqueue_sem[c] > 0) \in BOOLEAN
      OBVIOUS
    <3> HIDE DEF TypeOK
    <3> QED BY <3>1, <3>2
  <2>3. at' \in [Stopper -> Core]
    BY <1>0, <1>5 DEF Preempt
  <2>4. CASE taskqueue_sem[c] > 0
    <3>1. taskqueue_sem' = Down(taskqueue_sem, c)
      BY <1>5, <2>4 DEF Preempt
    <3>2. taskqueue_sem' \in [Core -> Nat]
      BY <1>5, <2>4, <3>1, SemDown
    <3> QED BY <1>5, <2>1, <2>2, <2>3, <3>2 DEF Preempt
  <2>5. CASE ~(taskqueue_sem[c] > 0)
    BY <1>5, <2>1, <2>2, <2>3, <2>5 DEF Preempt
  <2> QED BY <2>4, <2>5
<1>6. CASE PreemptInsert
  <2>1. insertJobAt(queue[at[Thermal]], 1, hand[Thermal]) \in Seq(Job)
    <3>1. queue[at[Thermal]] \in Seq(Job) /\ hand[Thermal] \in Job \cup {NoJob} /\ 1 \in Int
      BY <1>0 DEF MaybeJob
    <3> QED BY <3>1, InsertJobAtType
  <2>2. pc' \in [Thread -> Label]
    BY <1>0, <1>6 DEF PreemptInsert, Label
  <2>3. hand' \in [Thread -> MaybeJob]
    BY <1>0, <1>6 DEF PreemptInsert, MaybeJob
  <2>4. queue' \in [Core -> Seq(Job)]
    BY <1>0, <1>6, <2>1 DEF PreemptInsert
  <2>5. taskqueue_sem' = Up(taskqueue_sem, at[Thermal]) \/ UNCHANGED taskqueue_sem
    BY <1>0, <1>6 DEF PreemptInsert
  <2>6. taskqueue_sem' \in [Core -> Nat]
    BY SemUp, SemDown, <1>0, <1>6, <2>5 DEF PreemptInsert
  <2> QED BY <1>6, <2>2, <2>3, <2>4, <2>5, <2>6 DEF PreemptInsert
<1>7. ASSUME NEW s \in Core, NEW t \in Core, NEW p \in Int, NEW q \in Nat, TakeOut(s, p, t, q)
      PROVE  TypeOK'
  <2>1. peek_at(queue[s], p) \in MaybeJob /\ pop_at(queue[s], p) \in Seq(Job)
    BY PopAtType, Assumed DEF Assumptions, MaybeJob
  <2>2. pc' \in [Thread -> Label]
    BY <1>0, <1>7 DEF TakeOut, Label
  <2>3. hand' \in [Thread -> MaybeJob]
    BY <1>0, <1>7, <2>1 DEF TakeOut, MaybeJob
  <2>4. queue' \in [Core -> Seq(Job)]
    BY <1>0, <1>7, <2>1 DEF TakeOut
  <2>5. dest' \in [Thread -> Core]
    BY <1>0, <1>7 DEF TakeOut
  <2>6. call' \in [op : {"none", "migrate", "preempt", "reinsert"}, slot : BOOLEAN, position : Nat]
    BY <1>0, <1>7 DEF TakeOut, NoCall
  <2> QED BY <1>7, <2>2, <2>3, <2>4, <2>5, <2>6 DEF TakeOut
<1>8. ASSUME NEW c \in Core, NEW p \in Position, NEW n \in {-1, 1}, AdvanceJobInQueue(c, p, n)
      PROVE  TypeOK'
  <2>1. p \in Int /\ (IF p - n < 0 THEN 0 ELSE p - n) \in Nat
    BY Assumed DEF Position, Assumptions
  <2>2. TakeOut(c, p, c, IF p - n < 0 THEN 0 ELSE p - n)
    BY <1>8 DEF AdvanceJobInQueue
  <2> QED BY <1>7, <2>1, <2>2
<1>9. ASSUME NEW s \in Core, NEW t \in Core, NEW p \in Position, NEW q \in Position,
             MoveJobToAnotherQueue(s, p, t, q)
      PROVE  TypeOK'
  <2>1. p \in Int /\ q \in Nat
    BY Assumed DEF Position, Assumptions
  <2>2. TakeOut(s, p, t, q)
    BY <1>9 DEF MoveJobToAnotherQueue
  <2> QED BY <1>7, <2>1, <2>2
<1>10. CASE Reinsert
  <2>1. insertJobAt(queue[dest[Thermal]], call.position, hand[Thermal]) \in Seq(Job)
    <3>1. /\ queue[dest[Thermal]] \in Seq(Job) /\ hand[Thermal] \in Job \cup {NoJob}
          /\ call.position \in Int
      BY <1>0 DEF MaybeJob
    <3> QED BY <3>1, InsertJobAtType
  <2>2. pc' \in [Thread -> Label]
    BY <1>0, <1>10 DEF Reinsert, Label
  <2>3. hand' \in [Thread -> MaybeJob]
    BY <1>0, <1>10 DEF Reinsert, MaybeJob
  <2>4. queue' \in [Core -> Seq(Job)]
    BY <1>0, <1>10, <2>1 DEF Reinsert
  <2> QED BY <1>10, <2>2, <2>3, <2>4 DEF Reinsert
<1>11. CASE LockAllJobs
  <2>1. pc' \in [Thread -> Label]
    BY <1>0, <1>11 DEF LockAllJobs, Label
  <2>2. at' \in [Stopper -> Core]
    BY <1>0, <1>11 DEF LockAllJobs
  <2> QED BY <1>11, <2>1, <2>2 DEF LockAllJobs
<1>12. CASE LockTaskQueue
  <2>1. pc' \in [Thread -> Label]
    BY <1>0, <1>12 DEF LockTaskQueue, Label
  <2>2. at' \in [Stopper -> Core]
    BY <1>0, <1>12, NextCoreType DEF LockTaskQueue
  <2>3. taskqueue_sem' \in [Core -> Nat]
    BY SemUp, SemDown, <1>0, <1>12 DEF LockTaskQueue
  <2> QED BY <1>12, <2>1, <2>2, <2>3 DEF LockTaskQueue
<1>13. CASE LockCurrentJob
  <2>1. pc' \in [Thread -> Label]
    BY <1>0, <1>13 DEF LockCurrentJob, Label
  <2>2. at' \in [Stopper -> Core]
    BY <1>0, <1>13, NextCoreType DEF LockCurrentJob
  <2>3. job_sem' \in [Core -> Nat]
    BY SemUp, SemDown, <1>0, <1>13 DEF LockCurrentJob
  <2>4. locked' \in BOOLEAN
    BY <1>0, <1>13 DEF LockCurrentJob, LastCore
  <2> QED BY <1>13, <2>1, <2>2, <2>3, <2>4 DEF LockCurrentJob
<1>14. CASE UnlockAllJobs
  <2>1. taskqueue_sem' \in [Core -> Nat]
    BY <1>14, SemUpAll DEF UnlockAllJobs
  <2>2. job_sem' \in [Core -> Nat]
    BY <1>14, SemUpAll DEF UnlockAllJobs
  <2> QED BY <1>14, <2>1, <2>2 DEF UnlockAllJobs
<1>15. CASE StopCurrentJob(Thermal)
  BY <1>0, <1>15, StopType
<1>16. CASE InsertJobToQueue(Thermal)
  BY <1>0, <1>16, InsertType
<1> HIDE DEF TypeOK
<1> QED BY <1>1, <1>2, <1>3, <1>4, <1>5, <1>6, <1>8, <1>9, <1>10, <1>11, <1>12, <1>13,
           <1>14, <1>15, <1>16 DEF ThermalApproach

LEMMA MainType ==
  ASSUME TypeOK, EndRun \/ Join
  PROVE  TypeOK'
<1> USE DEF TypeOK, processorVars, workerVars, taskVars, carryVars, stopVars, userVars,
            historyVars, Goto
<1>0. Main \in Thread /\ Main \in Stopper /\ at[Main] \in Core
  BY Threads
<1>1. CASE EndRun
  <2>1. pc' \in [Thread -> Label]
    BY <1>0, <1>1 DEF EndRun, Label
  <2>2. jobnumber_sem' \in [Core -> Nat]
    BY <1>1, SemUpAll DEF EndRun
  <2>3. taskqueue_sem' \in [Core -> Nat]
    BY <1>1, SemUpAll DEF EndRun
  <2> QED BY <1>1, <2>1, <2>2, <2>3 DEF EndRun
<1>2. CASE JoinThreads
  <2>1. pc' \in [Thread -> Label]
    BY <1>0, <1>2 DEF JoinThreads, Label
  <2> QED BY <1>2, <2>1 DEF JoinThreads
<1>3. CASE JoinWorker
  <2>1. pc' \in [Thread -> Label]
    BY <1>0, <1>3 DEF JoinWorker, Label
  <2>2. job_sem' \in [Core -> Nat]
    BY SemUp, SemDown, <1>0, <1>3 DEF JoinWorker
  <2> QED BY <1>3, <2>1, <2>2 DEF JoinWorker
<1>4. CASE StopCurrentJob(Main)
  BY <1>0, <1>4, StopType
<1>5. CASE JoinWait
  <2>1. CASE at[Main] = NCores - 1
    BY <1>0, <1>5, <2>1 DEF JoinWait, Label
  <2>2. CASE at[Main] # NCores - 1
    <3>1. /\ pc' = [pc EXCEPT ![Main] = "join_worker"]
          /\ at' = [at EXCEPT ![Main] = @ + 1]
      BY <1>5, <2>2 DEF JoinWait
    <3>2. pc' \in [Thread -> Label]
      BY <1>0, <3>1 DEF Label
    <3>3. at[Main] + 1 \in Core
      <4>1. NCores \in Nat /\ at[Main] \in 0..(NCores - 1)
        BY <1>0, Assumed DEF Core, Assumptions
      <4> HIDE DEF TypeOK
      <4> QED BY <2>2, <4>1 DEF Core
    <3>4. at' \in [Stopper -> Core]
      BY <1>0, <3>1, <3>3
    <3> QED BY <1>5, <3>2, <3>4 DEF JoinWait
  <2> QED BY <2>1, <2>2
<1> QED BY <1>1, <1>2, <1>3, <1>4, <1>5 DEF Join

LEMMA InitType == Init => TypeOK
<1> SUFFICES ASSUME Init PROVE TypeOK
  OBVIOUS
<1> USE DEF Init, TypeOK
<1>1. 0 \in Core /\ 0 \in Nat /\ NoJob \in MaybeJob /\ << >> \in Seq(Job)
  BY Threads DEF MaybeJob
<1>2. count \in [Job -> 0..(Wcet - 1)] /\ jobCounter \in [Dispatcher -> 0..MaxJobs]
  BY Assumed DEF Assumptions
<1>3. pc \in [Thread -> Label]
  BY DEF Label
<1>4. call \in [op : {"none", "migrate", "preempt", "reinsert"}, slot : BOOLEAN, position : Nat]
  BY DEF NoCall
<1> QED BY <1>1, <1>2, <1>3, <1>4

-----------------------------------------------------------------------------
(* A step of one thread leaves the locals of the others alone. *)

StepOf(t) == \/ t \in Dispatcher /\ DispatcherStep(t)
             \/ t \in Core /\ (Worker(t) \/ LoadTimeout(t))
             \/ t = Thermal /\ ThermalApproach
             \/ t = Main /\ (EndRun \/ Join)

LEMMA EveryStep ==
  ASSUME [Next]_vars
  PROVE  (\E t \in Thread : StepOf(t)) \/ UNCHANGED vars
<1>1. CASE Step
  <2>1. ASSUME NEW d \in Dispatcher, DispatcherStep(d) PROVE \E t \in Thread : StepOf(t)
    BY <2>1, Threads DEF StepOf
  <2>2. ASSUME NEW c \in Core, Worker(c) \/ LoadTimeout(c) PROVE \E t \in Thread : StepOf(t)
    BY <2>2, Threads DEF StepOf
  <2>3. ASSUME ThermalApproach PROVE \E t \in Thread : StepOf(t)
    BY <2>3, Threads DEF StepOf
  <2>4. ASSUME EndRun \/ Join PROVE \E t \in Thread : StepOf(t)
    BY <2>4, Threads DEF StepOf
  <2> QED BY <1>1, <2>1, <2>2, <2>3, <2>4 DEF Step
<1> QED BY <1>1 DEF Next, Terminated

LEMMA StepType ==
  ASSUME TypeOK, WorkerInv, NEW t \in Thread, StepOf(t)
  PROVE  TypeOK'
  BY DispatcherType, WorkerType, ThermalType, MainType DEF StepOf

Stays(t) == \A u \in Thread \ {t} : pc'[u] = pc[u] /\ hand'[u] = hand[u]

LEMMA InsertStays ==
  ASSUME TypeOK, NEW t \in Thread, InsertJobToQueue(t)
  PROVE  Stays(t)
<1> USE DEF Stays, TypeOK, Goto, carryVars
<1>1. CASE InsertLock(t)
  BY <1>1 DEF InsertLock
<1>2. CASE InsertPush(t)
  BY <1>2 DEF InsertPush
<1>3. CASE InsertUnlock(t)
  BY <1>3 DEF InsertUnlock
<1> QED BY <1>1, <1>2, <1>3 DEF InsertJobToQueue

LEMMA StopStays ==
  ASSUME TypeOK, NEW t \in Stopper, StopCurrentJob(t)
  PROVE  Stays(t)
<1> USE DEF Stays, TypeOK, Goto, carryVars
<1>0. t \in Thread
  BY Threads
<1>1. CASE StopLock(t)
  BY <1>0, <1>1 DEF StopLock
<1>2. CASE StopPost(t)
  BY <1>0, <1>2 DEF StopPost
<1>3. CASE StopWait(t)
  BY <1>0, <1>3 DEF StopWait
<1> QED BY <1>1, <1>2, <1>3 DEF StopCurrentJob

LEMMA OthersStay ==
  ASSUME TypeOK, NEW t \in Thread, StepOf(t)
  PROVE  Stays(t)
<1> USE DEF Stays, TypeOK, Goto, carryVars
<1>1. CASE t \in Dispatcher /\ DispatcherStep(t)
  <2>1. CASE Release(t)
    BY <2>1 DEF Release
  <2>2. CASE DispatcherExit(t)
    BY <2>2 DEF DispatcherExit
  <2> QED BY <1>1, <2>1, <2>2, InsertStays DEF DispatcherStep
<1>2. CASE t \in Core /\ (Worker(t) \/ LoadTimeout(t))
  <2>1. CASE WorkerLoop(t)
    BY <2>1 DEF WorkerLoop
  <2>2. CASE LoadLock(t)
    BY <2>2 DEF LoadLock
  <2>3. CASE LoadNumber(t)
    BY <2>3 DEF LoadNumber
  <2>4. CASE LoadPop(t)
    BY <2>4 DEF LoadPop
  <2>5. CASE LoadTimeout(t)
    BY <2>5 DEF LoadTimeout
  <2>6. CASE Loaded(t)
    BY <2>6 DEF Loaded
  <2>7. CASE SetJob(t)
    BY <2>7 DEF SetJob
  <2>8. CASE FireStopped(t)
    BY <2>8 DEF FireStopped
  <2>9. CASE FireWork(t)
    BY <2>9 DEF FireWork
  <2>10. CASE FireComplete(t)
    BY <2>10 DEF FireComplete
  <2>11. CASE ClearJob(t)
    BY <2>11 DEF ClearJob
  <2> QED BY <1>2, <2>1, <2>2, <2>3, <2>4, <2>5, <2>6, <2>7, <2>8, <2>9, <2>10, <2>11,
             InsertStays DEF Worker
<1>3. CASE t = Thermal /\ ThermalApproach
  <2>1. CASE ThermalLoop
    BY <1>3, <2>1 DEF ThermalLoop
  <2>2. CASE CallReturns
    BY <1>3, <2>2 DEF CallReturns
  <2>3. CASE ThermalReturn
    BY <1>3, <2>3 DEF ThermalReturn
  <2>4. ASSUME NEW a \in Core, NEW b \in Core, TaskMigrate(a, b) PROVE Stays(t)
    BY <1>3, <2>4 DEF TaskMigrate
  <2>5. ASSUME NEW c \in Core, Preempt(c) PROVE Stays(t)
    BY <1>3, <2>5 DEF Preempt
  <2>6. CASE PreemptInsert
    BY <1>3, <2>6 DEF PreemptInsert
  <2>7. ASSUME NEW a \in Core, NEW b \in Core, NEW p \in Position, NEW q, TakeOut(a, p, b, q)
        PROVE Stays(t)
    BY <1>3, <2>7 DEF TakeOut
  <2>8. ASSUME NEW c \in Core, NEW p \in Position, NEW n \in {-1, 1}, AdvanceJobInQueue(c, p, n)
        PROVE  Stays(t)
    BY <2>7, <2>8 DEF AdvanceJobInQueue
  <2>9. ASSUME NEW a \in Core, NEW b \in Core, NEW p \in Position, NEW q \in Position,
               MoveJobToAnotherQueue(a, p, b, q)
        PROVE  Stays(t)
    BY <2>7, <2>9 DEF MoveJobToAnotherQueue
  <2>10. CASE Reinsert
    BY <1>3, <2>10 DEF Reinsert
  <2>11. CASE LockAllJobs
    BY <1>3, <2>11 DEF LockAllJobs
  <2>12. CASE LockTaskQueue
    BY <1>3, <2>12 DEF LockTaskQueue
  <2>13. CASE LockCurrentJob
    BY <1>3, <2>13 DEF LockCurrentJob
  <2>14. CASE UnlockAllJobs
    BY <1>3, <2>14 DEF UnlockAllJobs
  <2>15. CASE StopCurrentJob(Thermal)
    BY <1>3, <2>15, StopStays, Threads
  <2>16. CASE InsertJobToQueue(Thermal)
    BY <1>3, <2>16, InsertStays
  <2> HIDE DEF Stays, TypeOK
  <2> QED BY <1>3, <2>1, <2>2, <2>3, <2>4, <2>5, <2>6, <2>8, <2>9, <2>10, <2>11, <2>12, <2>13,
             <2>14, <2>15, <2>16 DEF ThermalApproach
<1>4. CASE t = Main /\ (EndRun \/ Join)
  <2>1. CASE EndRun
    BY <1>4, <2>1 DEF EndRun
  <2>2. CASE JoinThreads
    BY <1>4, <2>2 DEF JoinThreads
  <2>3. CASE JoinWorker
    BY <1>4, <2>3 DEF JoinWorker
  <2>4. CASE StopCurrentJob(Main)
    BY <1>4, <2>4, StopStays, Threads
  <2>5. CASE JoinWait
    BY <1>4, <2>5 DEF JoinWait
  <2> QED BY <1>4, <2>1, <2>2, <2>3, <2>4, <2>5 DEF Join
<1> QED BY <1>1, <1>2, <1>3, <1>4 DEF StepOf

(* Only the worker of a core and a stopCurrentJob that comes to its end     *)
(* change stop_sem and current_job of that core.                            *)

CoreStays(c) == stop_sem'[c] = stop_sem[c] /\ current_job'[c] = current_job[c]
StopsAt(t, c) == t \in Stopper /\ StopWait(t) /\ at[t] = c

LEMMA StopCore ==
  ASSUME TypeOK, NEW t \in Stopper, StopCurrentJob(t), NEW c \in Core
  PROVE  CoreStays(c) \/ StopsAt(t, c)
<1> USE DEF CoreStays, StopsAt, workerVars
<1>1. CASE StopLock(t)
  BY <1>1 DEF StopLock
<1>2. CASE StopPost(t)
  BY <1>2 DEF StopPost
<1>3. CASE StopWait(t)
  <2>1. /\ stop_sem' = Down(stop_sem, at[t])
        /\ current_job' = [current_job EXCEPT ![at[t]] = NoJob]
    BY <1>3 DEF StopWait
  <2> QED BY <1>3, <2>1 DEF Down, TypeOK
<1> QED BY <1>1, <1>2, <1>3 DEF StopCurrentJob

LEMMA ForeignCore ==
  ASSUME TypeOK, NEW t \in Thread, StepOf(t), NEW c \in Core, t # c
  PROVE  CoreStays(c) \/ StopsAt(t, c)
<1> USE DEF workerVars
<1>0. ASSUME NEW u \in Thread, InsertJobToQueue(u) PROVE CoreStays(c)
  BY <1>0 DEF InsertJobToQueue, InsertLock, InsertPush, InsertUnlock, CoreStays
<1>1. CASE t \in Dispatcher /\ DispatcherStep(t)
  BY <1>0, <1>1 DEF DispatcherStep, Release, DispatcherExit, CoreStays
<1>2. CASE t \in Core /\ (Worker(t) \/ LoadTimeout(t))
  <2> USE DEF CoreStays, TypeOK
  <2>1. CASE WorkerLoop(t) \/ Loaded(t)
    BY <1>2, <2>1 DEF WorkerLoop, Loaded, Up
  <2>2. CASE LoadLock(t) \/ LoadNumber(t) \/ LoadPop(t) \/ LoadTimeout(t)
    BY <2>2 DEF LoadLock, LoadNumber, LoadPop, LoadTimeout
  <2>3. CASE SetJob(t) \/ ClearJob(t)
    BY <1>2, <2>3 DEF SetJob, ClearJob
  <2>4. CASE FireStopped(t) \/ FireWork(t)
    BY <2>4 DEF FireStopped, FireWork
  <2>5. CASE FireComplete(t)
    BY <2>5 DEF FireComplete
  <2> QED BY <1>0, <1>2, <2>1, <2>2, <2>3, <2>4, <2>5 DEF Worker
<1>3. CASE t = Thermal /\ ThermalApproach
  <2>1. CASE StopCurrentJob(Thermal)
    BY <1>3, <2>1, StopCore, Threads
  <2>2. CASE InsertJobToQueue(Thermal)
    BY <1>0, <2>2, Threads
  <2>3. ASSUME NEW a, NEW b, NEW p, NEW q, TakeOut(a, p, b, q) PROVE CoreStays(c)
    BY <2>3 DEF TakeOut, CoreStays
  <2>4. ASSUME NEW b, NEW p, NEW n, AdvanceJobInQueue(b, p, n) PROVE CoreStays(c)
    BY <2>3, <2>4 DEF AdvanceJobInQueue
  <2>5. ASSUME NEW a, NEW b, NEW p, NEW q, MoveJobToAnotherQueue(a, p, b, q) PROVE CoreStays(c)
    BY <2>3, <2>5 DEF MoveJobToAnotherQueue
  <2>6. ASSUME NEW a, NEW b, TaskMigrate(a, b) \/ Preempt(b) PROVE CoreStays(c)
    BY <2>6 DEF TaskMigrate, Preempt, CoreStays
  <2>7. CASE ThermalLoop \/ CallReturns \/ ThermalReturn \/ PreemptInsert \/ Reinsert
    BY <2>7 DEF ThermalLoop, CallReturns, ThermalReturn, PreemptInsert, Reinsert, CoreStays
  <2>8. CASE LockAllJobs \/ LockTaskQueue \/ LockCurrentJob \/ UnlockAllJobs
    BY <2>8 DEF LockAllJobs, LockTaskQueue, LockCurrentJob, UnlockAllJobs, CoreStays
  <2> QED BY <1>3, <2>1, <2>2, <2>4, <2>5, <2>6, <2>7, <2>8 DEF ThermalApproach
<1>4. CASE t = Main /\ (EndRun \/ Join)
  <2>1. CASE StopCurrentJob(Main)
    BY <1>4, <2>1, StopCore, Threads
  <2>2. CASE EndRun \/ JoinThreads \/ JoinWorker \/ JoinWait
    BY <2>2 DEF EndRun, JoinThreads, JoinWorker, JoinWait, CoreStays
  <2> QED BY <1>4, <2>1, <2>2 DEF Join
<1> QED BY <1>1, <1>2, <1>3, <1>4 DEF StepOf

LEMMA WorkerInvStep ==
  ASSUME TypeOK, WorkerInv, NEW t \in Thread, StepOf(t)
  PROVE  WorkerInv'
<1> SUFFICES ASSUME NEW c \in Core
             PROVE  /\ stop_sem'[c] > 0 => pc'[c] = "exit"
                    /\ pc'[c] = "set_job" => hand'[c] # NoJob
                    /\ pc'[c] = "fire" => current_job'[c] # NoJob
  BY DEF WorkerInv
<1>0. /\ stop_sem[c] > 0 => pc[c] = "exit"
      /\ pc[c] = "set_job" => hand[c] # NoJob
      /\ pc[c] = "fire" => current_job[c] # NoJob
      /\ c \in Thread /\ stop_sem[c] \in Nat
  BY Threads DEF WorkerInv, TypeOK
<1>1. CASE t # c
  <2>1. pc'[c] = pc[c] /\ hand'[c] = hand[c]
    BY <1>0, <1>1, OthersStay DEF Stays
  <2>2. CASE CoreStays(c)
    BY <1>0, <2>1, <2>2 DEF CoreStays
  <2>3. CASE StopsAt(t, c)
    <3>1. stop_sem[c] > 0
      BY <2>3 DEF StopsAt, StopWait
    <3> QED BY <1>0, <2>1, <3>1
  <2> QED BY <1>1, <2>2, <2>3, ForeignCore
<1>2. CASE t = c
  <2>0. Worker(c) \/ LoadTimeout(c)
    BY <1>2, Threads DEF StepOf
  <2> USE DEF TypeOK, Goto, workerVars, carryVars
  <2>1. CASE WorkerLoop(c)
    <3>1. CASE running
      <4>1. /\ pc' = [pc EXCEPT ![c] = IF current_job[c] = NoJob THEN "load_lock" ELSE "fire"]
            /\ pc[c] = "loop" /\ UNCHANGED <<stop_sem, current_job>>
        BY <2>1, <3>1 DEF WorkerLoop
      <4> QED BY <1>0, <4>1
    <3>2. CASE ~running
      <4>1. pc' = [pc EXCEPT ![c] = "exit"]
        BY <2>1, <3>2 DEF WorkerLoop
      <4> QED BY <1>0, <4>1
    <3> QED BY <3>1, <3>2
  <2>2. CASE LoadLock(c) \/ LoadNumber(c) \/ LoadPop(c) \/ LoadTimeout(c)
    <3>1. /\ pc'[c] \in {"load_number", "load_pop", "loaded"} /\ pc[c] # "exit"
          /\ UNCHANGED stop_sem
      BY <1>0, <2>2 DEF LoadLock, LoadNumber, LoadPop, LoadTimeout
    <3> QED BY <1>0, <3>1
  <2>3. CASE Loaded(c)
    <3>1. CASE hand[c] = NoJob /\ running
      <4>1. pc' = [pc EXCEPT ![c] = "load_lock"] /\ UNCHANGED stop_sem /\ pc[c] = "loaded"
        BY <2>3, <3>1 DEF Loaded
      <4> QED BY <1>0, <4>1
    <3>2. CASE ~(hand[c] = NoJob /\ running)
      <4>1. /\ pc' = [pc EXCEPT ![c] = IF hand[c] = NoJob THEN "loop" ELSE "set_job"]
            /\ stop_sem' = [stop_sem EXCEPT ![c] = 0] /\ UNCHANGED hand
        BY <2>3, <3>2 DEF Loaded
      <4> QED BY <1>0, <4>1
    <3> QED BY <3>1, <3>2
  <2>4. CASE SetJob(c) \/ ClearJob(c)
    <3>1. pc'[c] = "loop" /\ pc[c] # "exit" /\ UNCHANGED stop_sem
      BY <1>0, <2>4 DEF SetJob, ClearJob
    <3> QED BY <1>0, <3>1
  <2>5. CASE FireStopped(c) \/ FireWork(c)
    <3>1. pc'[c] \in {"fire", "clear"} /\ pc[c] = "fire" /\ UNCHANGED <<stop_sem, current_job>>
      BY <1>0, <2>5 DEF FireStopped, FireWork
    <3> QED BY <1>0, <3>1
  <2>6. CASE FireComplete(c)
    <3>1. pc'[c] \in {"clear", "ins_lock"} /\ pc[c] = "fire" /\ UNCHANGED <<stop_sem, current_job>>
      BY <1>0, <2>6 DEF FireComplete
    <3> QED BY <1>0, <3>1
  <2>7. CASE InsertJobToQueue(c)
    <3>1. /\ pc'[c] \in {"ins_push", "ins_unlock", "clear"}
          /\ pc[c] # "exit" /\ UNCHANGED stop_sem
      BY <1>0, <2>7, Threads DEF InsertJobToQueue, InsertLock, InsertPush, InsertUnlock, AfterInsert
    <3> QED BY <1>0, <3>1
  <2> QED BY <2>0, <2>1, <2>2, <2>3, <2>4, <2>5, <2>6, <2>7 DEF Worker
<1> QED BY <1>1, <1>2

LEMMA TypeInvariant == Spec => [](TypeOK /\ WorkerInv)
<1>1. Init => TypeOK /\ WorkerInv
  <2> SUFFICES ASSUME Init PROVE WorkerInv
    BY InitType
  <2> QED BY Threads DEF Init, WorkerInv
<1>2. TypeOK /\ WorkerInv /\ [Next]_vars => (TypeOK /\ WorkerInv)'
  <2> SUFFICES ASSUME TypeOK, WorkerInv, [Next]_vars PROVE (TypeOK /\ WorkerInv)'
    OBVIOUS
  <2>1. CASE UNCHANGED vars
    BY <2>1 DEF vars, TypeOK, WorkerInv, processorVars, workerVars, taskVars, carryVars,
                stopVars, userVars, historyVars
  <2>2. ASSUME NEW t \in Thread, StepOf(t) PROVE (TypeOK /\ WorkerInv)'
    BY <2>2, StepType, WorkerInvStep
  <2> QED BY <2>1, <2>2, EveryStep
<1> QED BY <1>1, <1>2, PTL DEF Spec

(* Type correctness of the whole system, for any number of cores and any    *)
(* calls of the user's approach: semaphores stay non-negative, only real    *)
(* jobs are queued, started, stopped and reported, and every core index     *)
(* that reaches an array is the index of a core.                            *)
THEOREM TypeCorrect == Spec => []TypeOK
  BY TypeInvariant, PTL
=============================================================================
