-------------------------- MODULE DispatcherProofs --------------------------
(***************************************************************************)
(* Proofs about Dispatchers, for all tasks and lengths of time, and all    *)
(* lateness below the period of a Periodic: first the times of the         *)
(* releases, then the end of the run.                                      *)
(***************************************************************************)
EXTENDS Dispatchers, TimespecProofs

(* The lengths in nanoseconds. *)
P == Nanos(period)
J == Nanos(jitter)
Q == Nanos(Micros(InitialDelta))

(* A length of time below a second, also a negative one. *)
Short(x) == [sec |-> 0, nsec |-> x]

(* The reading of the clock stands for the time. *)
LEMMA ClockReads ==
  ASSUME now \in Nat
  PROVE  Clock \in Instant /\ Nanos(Clock) = now
<1> DEFINE N == NanosPerSec
<1>1. N \in Nat \ {0}
  BY SecondPositive
<1>2. Clock = [sec |-> now \div N, nsec |-> now % N]
  BY DEF Clock
<1>3. Nanos(Clock) = (now \div N) * N + (now % N)
  BY <1>2 DEF Nanos
<1> HIDE DEF N
<1>4. now % N \in 0..(N - 1)
  BY <1>1, SMT
<1>5. now \div N \in Nat
  BY <1>1, SMT
<1>6. (now \div N) * N + (now % N) = now
  BY <1>1, SMT
<1>7. Clock \in Instant
  BY <1>2, <1>4, <1>5 DEF Instant, N
<1> QED BY <1>3, <1>6, <1>7

(* The lengths of a task. *)
LEMMA Lengths ==
  /\ P \in Nat /\ J \in Nat /\ Q \in Nat /\ MaxLate \in Nat /\ Q < NanosPerSec
  /\ period \in Instant /\ jitter \in Instant /\ Micros(InitialDelta) = Short(Q)
  /\ Periodics # {} => MaxLate < P
<1> DEFINE M == MicrosPerSec
           N == NanosPerMicro
<1>1. /\ Period \in Nat /\ Jitter \in Nat /\ InitialDelta \in Nat /\ MaxLate \in Nat
      /\ InitialDelta < M /\ (Periodics # {} => MaxLate < P)
  BY DispatcherAssumption DEF P
<1>2. M \in Nat \ {0} /\ N \in Nat \ {0} /\ NanosPerSec = M * N
  BY SubdivisionAssumption DEF NanosPerSec
<1>3. P = Period * N /\ J = Jitter * N /\ Q = InitialDelta * N
  BY <1>1, MicrosCounts DEF P, J, Q, period, jitter
<1>4. period \in Instant /\ jitter \in Instant
  BY <1>1, MicrosCounts DEF period, jitter
<1>5. Micros(InitialDelta) = Short(Q)
  BY <1>1, <1>3 DEF Micros, Short
<1> HIDE DEF M, N
<1>6. P \in Nat /\ J \in Nat /\ Q \in Nat
  BY <1>1, <1>2, <1>3, SMT
<1>7. Q < NanosPerSec
  <2>1. NanosPerSec = Q + (M - 1 - InitialDelta) * N + N
    BY <1>1, <1>2, <1>3, SMT
  <2>2. (M - 1 - InitialDelta) * N \in Nat
    BY <1>1, <1>2, SMT
  <2> QED BY <1>2, <1>6, <2>1, <2>2, SMT
<1> QED BY <1>1, <1>4, <1>5, <1>6, <1>7

(* Points in time are not refused, and what is not refused is one. *)
LEMMA Instants ==
  /\ \A a \in Instant : a \in Timespec /\ ~Refused(a) /\ Nanos(a) \in Nat
  /\ \A a \in Timespec : Nanos(a) \in Int /\ (~Refused(a) => a \in Instant)
<1>1. ASSUME NEW a \in Instant PROVE a \in Timespec /\ ~Refused(a) /\ Nanos(a) \in Nat
  <2>1. a.sec \in Nat /\ a.nsec \in 0..(NanosPerSec - 1) /\ NanosPerSec \in Nat \ {0}
    BY SecondPositive DEF Instant
  <2>2. a \in Timespec
    BY SecondPositive DEF Instant, Timespec
  <2>3. a.sec * NanosPerSec \in Nat
    BY <2>1, SMT
  <2> QED BY <2>1, <2>2, <2>3, SMT DEF Refused, Normal, Nanos
<1>2. ASSUME NEW a \in Timespec PROVE Nanos(a) \in Int /\ (~Refused(a) => a \in Instant)
  <2>1. Nanos(a) \in Int
    BY SecondPositive, SMT DEF Nanos, Timespec
  <2>2. ~Refused(a) => a \in Instant
    BY SecondPositive, SMT DEF Refused, Normal, Timespec, Instant
  <2> QED BY <2>1, <2>2
<1> QED BY <1>1, <1>2

LEMMA MinusType ==
  ASSUME NEW a \in Timespec, NEW b \in Timespec PROVE Minus(a, b) \in Timespec
BY SecondPositive, SMT DEF Minus, Timespec

(* The random part of the jitter is at most twice the jitter. *)
LEMMA RandomPart ==
  ASSUME NEW k \in Percents
  PROVE  Times(k, jitter) \in Timespec /\ Nanos(Times(k, jitter)) \in 0..(2 * J)
<1> DEFINE N == NanosPerSec
           s == jitter.sec
           n == jitter.nsec
           a == (k * s) \div 100
           b == (k * n) \div 100
<1>1. k \in 1..200 /\ N \in Nat \ {0}
  BY DispatcherAssumption, SecondPositive
<1>2. s \in Nat /\ n \in Nat /\ J = s * N + n
  BY Lengths, SecondPositive DEF Instant, J, Nanos
<1>3. Times(k, jitter) = [sec |-> a + b \div N, nsec |-> b % N]
  BY DEF Times
<1>4. ASSUME NEW x \in Nat PROVE (k * x) \div 100 \in 0..(2 * x)
  <2>1. 200 * x = k * x + (200 - k) * x
    BY <1>1, SMT
  <2>2. (200 - k) * x \in Nat /\ k * x \in Nat
    BY <1>1, SMT
  <2> DEFINE z == k * x
  <2>3. z \in Nat /\ z <= 200 * x
    BY <2>1, <2>2, SMT
  <2> HIDE DEF z
  <2>4. z \div 100 \in 0..(2 * x)
    BY <2>3, SMT
  <2> QED BY <2>4 DEF z
<1>5. a \in 0..(2 * s) /\ b \in 0..(2 * n)
  BY <1>2, <1>4
<1> HIDE DEF a, b, N, s, n
<1>6. b \div N \in Nat /\ b % N \in 0..(N - 1) /\ b = (b \div N) * N + (b % N)
  BY <1>1, <1>2, <1>5, SMT
<1>7. Times(k, jitter) \in Timespec
  BY <1>1, <1>2, <1>3, <1>5, <1>6 DEF Timespec
<1>8. Nanos(Times(k, jitter)) = a * N + b
  <2> DEFINE q == b \div N
             r == b % N
  <2>1. Nanos(Times(k, jitter)) = (a + q) * N + r
    BY <1>3 DEF Nanos, N
  <2>2. q \in Nat /\ r \in Nat /\ b = q * N + r /\ a \in Nat
    BY <1>1, <1>2, <1>5, <1>6
  <2> HIDE DEF q, r
  <2>3. (a + q) * N = a * N + q * N /\ a * N \in Nat /\ q * N \in Nat
    BY <1>1, <2>2, SMT
  <2> QED BY <2>1, <2>2, <2>3, SMT
<1>9. a * N \in 0..(2 * (s * N))
  <2>1. 2 * (s * N) = a * N + (2 * s - a) * N
    BY <1>1, <1>2, <1>5, SMT
  <2>2. (2 * s - a) * N \in Nat /\ a * N \in Nat
    BY <1>1, <1>2, <1>5, SMT
  <2> QED BY <2>1, <2>2, SMT
<1>10. a * N + b \in 0..(2 * J)
  <2> DEFINE x == a * N
             y == s * N
  <2>1. y \in Nat
    BY <1>1, <1>2, SMT
  <2>2. x \in 0..(2 * y) /\ J = y + n
    BY <1>2, <1>9
  <2> HIDE DEF x, y
  <2>3. x + b \in 0..(2 * J)
    BY <1>2, <1>5, <2>1, <2>2, SMT
  <2> QED BY <2>3 DEF x
<1> QED BY <1>7, <1>8, <1>10

(* What deltaPeriod may be. *)
Deltas == {a \in Timespec : Nanos(a) >= -J}

(* Whatever the lengths, the value that a PeriodicJitter sleeps for stands  *)
(* for a period, changed by the difference of two successive deltas.        *)
THEOREM NewPeriodTelescopes ==
  ASSUME NEW k \in Percents, NEW delta \in Deltas
  PROVE  /\ NewDelta(k) \in Deltas /\ NewPeriod(k, delta) \in Timespec
         /\ Nanos(NewPeriod(k, delta)) = P + Nanos(NewDelta(k)) - Nanos(delta)
         /\ Nanos(NewPeriod(k, delta)) <= P + 2 * J
         /\ Nanos(NewDelta(k)) \in Int /\ Nanos(delta) \in Int
<1> DEFINE t == Times(k, jitter)
           v0 == Plus(period, jitter)
           v1 == Minus(v0, t)
<1>1. P \in Nat /\ J \in Nat /\ period \in Instant /\ jitter \in Instant /\ jitter \in Timespec
  BY Lengths, Instants
<1>2. t \in Timespec /\ Nanos(t) \in 0..(2 * J)
  BY RandomPart
<1>3. delta \in Timespec /\ Nanos(delta) \in Int /\ Nanos(delta) >= -J
  BY Instants DEF Deltas
<1>4. v0 \in Timespec /\ Nanos(v0) = P + J
  BY <1>1, PlusAdds, Instants DEF P, J
<1>5. NewPeriod(k, delta) = Minus(v1, delta) /\ NewDelta(k) = Minus(jitter, t)
  BY DEF NewPeriod, NewDelta
<1> HIDE DEF t, v0
<1>6. v1 \in Timespec /\ Nanos(v1) = Nanos(v0) - Nanos(t)
  BY <1>2, <1>4, MinusType, MinusSubtracts
<1>7. NewDelta(k) \in Timespec /\ Nanos(NewDelta(k)) = J - Nanos(t)
  BY <1>1, <1>2, <1>5, MinusType, MinusSubtracts DEF J
<1> HIDE DEF v1
<1>8. NewPeriod(k, delta) \in Timespec /\ Nanos(NewPeriod(k, delta)) = Nanos(v1) - Nanos(delta)
  BY <1>3, <1>5, <1>6, MinusType, MinusSubtracts
<1> DEFINE a == Nanos(NewDelta(k))
           c == Nanos(NewPeriod(k, delta))
           x == Nanos(t)
           y == Nanos(delta)
           z == Nanos(v1)
<1>9. a = J - x /\ z = P + J - x /\ c = z - y /\ x \in 0..(2 * J) /\ y \in Int /\ y >= -J
  <2> HIDE DEF v1
  <2>1. x \in 0..(2 * J) /\ y \in Int /\ y >= -J
    BY <1>2, <1>3
  <2>2. a = J - x
    BY <1>7
  <2>3. z = P + J - x
    BY <1>1, <1>2, <1>4, <1>6, SMT
  <2>4. c = z - y
    BY <1>8
  <2> QED BY <2>1, <2>2, <2>3, <2>4
<1> HIDE DEF a, c, x, y, z
<1>10. a \in Int /\ a >= -J /\ c = P + a - y /\ c <= P + 2 * J
  BY <1>1, <1>9, SMT
<1>11. NewDelta(k) \in Deltas
  BY <1>7, <1>10 DEF Deltas, a
<1> QED BY <1>3, <1>8, <1>10, <1>11 DEF a, c, y

(* What deltaPeriod may be while every sum stays normal. *)
ShortDeltas == {Short(x) : x \in {y \in (-J)..(P - J) : y < NanosPerSec}}

(* The lengths of a task for which they do. *)
LEMMA FittingLengths ==
  ASSUME JitterFits
  PROVE  /\ jitter = Short(J) /\ 2 * J <= P /\ Q + J <= P
         /\ \E s \in Nat, x \in Nat :
              /\ period = [sec |-> s, nsec |-> x] /\ (s = 0 => x = P)
              /\ J <= x /\ x + 2 * J < NanosPerSec
<1> DEFINE M == MicrosPerSec
           N == NanosPerMicro
           s == Period \div M
           r == Period % M
<1>1. /\ Period \in Nat /\ Jitter \in Nat /\ InitialDelta \in Nat
      /\ Jitter <= r /\ r + 2 * Jitter < M
      /\ 2 * Jitter <= Period /\ InitialDelta + Jitter <= Period
  BY DispatcherAssumption DEF JitterFits
<1>2. M \in Nat \ {0} /\ N \in Nat \ {0} /\ NanosPerSec = M * N
  BY SubdivisionAssumption DEF NanosPerSec
<1>3. P = Period * N /\ J = Jitter * N /\ Q = InitialDelta * N
  BY <1>1, MicrosCounts DEF P, J, Q, period, jitter
<1>4. s \in Nat /\ r \in 0..(M - 1) /\ s * M \in Nat /\ Period = s * M + r
      /\ (Period < M => s = 0) /\ (s = 0 => r = Period)
  <2> HIDE DEF M
  <2> QED BY <1>1, <1>2, SMT
<1>5. period = [sec |-> s, nsec |-> r * N]
  <2>1. CASE Period < M
    BY <1>4, <2>1 DEF period, Micros
  <2>2. CASE ~(Period < M)
    <3>1. period = [sec |-> s, nsec |-> (Period - s * M) * N]
      BY <2>2 DEF period, Micros
    <3>2. Period - s * M = r
      <4> DEFINE z == s * M
      <4>1. z \in Nat /\ Period = z + r /\ r \in Nat
        BY <1>2, <1>4
      <4> HIDE DEF z, r
      <4>2. Period - z = r
        BY <4>1, SMT
      <4> QED BY <4>2 DEF z
    <3> QED BY <3>1, <3>2
  <2> QED BY <2>1, <2>2
<1>6. Jitter < M
  <2> HIDE DEF M, r
  <2> QED BY <1>1, <1>2, <1>4, SMT
<1>7. jitter = Short(J)
  BY <1>3, <1>6 DEF Micros, Short, jitter
<1> HIDE DEF M, N, s, r
<1>8. P \in Nat /\ J \in Nat /\ Q \in Nat /\ r * N \in Nat /\ r \in Nat
  BY <1>1, <1>2, <1>3, <1>4, SMT
<1>9. 2 * J <= P
  <2>1. P = 2 * J + (Period - 2 * Jitter) * N
    BY <1>1, <1>2, <1>3, SMT
  <2>2. (Period - 2 * Jitter) * N \in Nat
    BY <1>1, <1>2, SMT
  <2> QED BY <1>8, <2>1, <2>2, SMT
<1>10. Q + J <= P
  <2>1. P = Q + J + (Period - InitialDelta - Jitter) * N
    BY <1>1, <1>2, <1>3, SMT
  <2>2. (Period - InitialDelta - Jitter) * N \in Nat
    BY <1>1, <1>2, SMT
  <2> QED BY <1>8, <2>1, <2>2, SMT
<1>11. J <= r * N
  <2>1. r * N = J + (r - Jitter) * N
    BY <1>1, <1>2, <1>3, <1>8, SMT
  <2>2. (r - Jitter) * N \in Nat
    BY <1>1, <1>2, <1>8, SMT
  <2> QED BY <1>8, <2>1, <2>2, SMT
<1>12. r * N + 2 * J < NanosPerSec
  <2>1. NanosPerSec = r * N + 2 * J + (M - 1 - r - 2 * Jitter) * N + N
    BY <1>1, <1>2, <1>3, <1>8, SMT
  <2>2. (M - 1 - r - 2 * Jitter) * N \in Nat
    BY <1>1, <1>2, <1>8, SMT
  <2> QED BY <1>2, <1>8, <2>1, <2>2, SMT
<1>13. s = 0 => r * N = P
  BY <1>3, <1>4
<1> QED BY <1>4, <1>5, <1>7, <1>8, <1>9, <1>10, <1>11, <1>12, <1>13

(* Where JitterFits, nanosleep takes what a PeriodicJitter asks for: the    *)
(* sums do not leave the second, and operator - borrows from it if need be. *)
THEOREM NewPeriodIsTaken ==
  ASSUME JitterFits, NEW k \in Percents, NEW delta \in ShortDeltas
  PROVE  NewDelta(k) \in ShortDeltas /\ ~Refused(NewPeriod(k, delta))
<1> DEFINE N == NanosPerSec
<1>1. P \in Nat /\ J \in Nat /\ N \in Nat \ {0}
  BY Lengths, SecondPositive
<1>2. jitter = Short(J) /\ 2 * J <= P
  BY FittingLengths
<1>3. PICK s \in Nat, x \in Nat :
        /\ period = [sec |-> s, nsec |-> x] /\ (s = 0 => x = P)
        /\ J <= x /\ x + 2 * J < N
  BY FittingLengths
<1>4. PICK y \in Int : delta = Short(y) /\ -J <= y /\ y <= P - J /\ y < N
  BY <1>1 DEF ShortDeltas
<1>5. PICK t \in 0..(2 * J) : Times(k, jitter) = Short(t)
  <2> DEFINE b == (k * J) \div 100
  <2>1. k \in 1..200
    BY DispatcherAssumption
  <2>2. Times(k, jitter) = [sec |-> (k * 0) \div 100 + b \div N, nsec |-> b % N]
    BY <1>2 DEF Times, Short
  <2>3. (k * 0) \div 100 = 0
    BY <2>1, SMT
  <2>4. b \in Nat
    BY <1>1, <2>1, SMT
  <2> HIDE DEF b, N
  <2>5. b \div N \in Nat /\ b % N \in 0..(N - 1) /\ b = (b \div N) * N + (b % N)
    BY <1>1, <2>4, SMT
  <2> DEFINE q == b \div N
             r == b % N
  <2>6. Times(k, jitter) = [sec |-> q, nsec |-> r]
    BY <2>2, <2>3, <2>5
  <2>7. q * N + r \in 0..(2 * J)
    BY <2>6, RandomPart DEF Nanos, N
  <2>8. q = 0
    <3>1. q \in Nat /\ r \in Nat /\ 2 * J < N
      BY <1>1, <1>3, <2>5, SMT
    <3> HIDE DEF q, r
    <3>2. ASSUME q # 0 PROVE q * N >= N
      <4>1. q * N = N + (q - 1) * N /\ (q - 1) * N \in Nat
        BY <1>1, <3>1, <3>2, SMT
      <4> QED BY <1>1, <4>1, SMT
    <3>3. q * N \in Nat
      BY <1>1, <3>1, SMT
    <3> QED BY <1>1, <2>7, <3>1, <3>2, <3>3, SMT
  <2>9. r \in 0..(2 * J)
    <3>1. 0 * N = 0 /\ r \in Nat
      BY <1>1, <2>5, SMT
    <3> HIDE DEF q, r
    <3> QED BY <1>1, <2>7, <2>8, <3>1, SMT
  <2> QED BY <2>6, <2>8, <2>9 DEF Short
<1> HIDE DEF N
<1>6. NewDelta(k) \in ShortDeltas
  <2>1. NewDelta(k) = Short(J - t)
    BY <1>1, <1>2, <1>5 DEF NewDelta, Minus, Short
  <2>2. J - t \in (-J)..(P - J) /\ J - t < N
    BY <1>1, <1>2, <1>3, SMT
  <2> QED BY <2>1, <2>2 DEF ShortDeltas, N
<1> DEFINE u == x + J - t
<1>7. Plus(period, jitter) = [sec |-> s, nsec |-> x + J]
  BY <1>1, <1>2, <1>3, SMT DEF Plus, Short, N
<1>8. Minus(Plus(period, jitter), Times(k, jitter)) = [sec |-> s, nsec |-> u]
  BY <1>1, <1>3, <1>5, <1>7, SMT DEF Minus, Short
<1>9. NewPeriod(k, delta) = Minus([sec |-> s, nsec |-> u], Short(y))
  BY <1>4, <1>8 DEF NewPeriod
<1>10. u \in Nat /\ u >= x - J /\ u <= x + J
  BY <1>1, <1>3, SMT
<1> HIDE DEF u
<1>11. CASE u < y
  <2>1. s > 0
    BY <1>1, <1>3, <1>4, <1>10, <1>11, SMT
  <2>2. NewPeriod(k, delta) = [sec |-> s - 1, nsec |-> u - y + N]
    BY <1>3, <1>9, <1>11, <2>1, SMT DEF Minus, Short, N
  <2>3. u - y + N \in 0..(N - 1) /\ s - 1 >= 0
    BY <1>1, <1>3, <1>4, <1>10, <1>11, <2>1, SMT
  <2> QED BY <1>6, <2>2, <2>3 DEF Refused, Normal, N
<1>12. CASE ~(u < y)
  <2>1. NewPeriod(k, delta) = [sec |-> s, nsec |-> u - y]
    BY <1>3, <1>9, <1>12, SMT DEF Minus, Short
  <2>2. u - y \in 0..(N - 1) /\ s >= 0
    BY <1>1, <1>3, <1>4, <1>10, <1>12, SMT
  <2> QED BY <1>6, <2>1, <2>2 DEF Refused, Normal, N
<1> QED BY <1>11, <1>12

-----------------------------------------------------------------------------
(* The inductive invariant *)

(* What each variable holds.                                                *)
TypeInv ==
  /\ now \in Nat /\ running \in BOOLEAN
  /\ main \in {"sleep", "join", "wait", "done"}
  /\ joined \in 0..Len(Kinds)
  /\ pc \in [Dispatcher -> Label]
  /\ due \in [Dispatcher -> Nat]
  /\ dispatch_sem \in [Dispatcher -> {0, 1}]
  /\ base \in [Periodics -> Instant]
  /\ rem \in [Dispatcher -> Timespec]
  /\ deltaPeriod \in [Jitters -> Deltas] /\ refused \subseteq Jitters
  /\ released \in [Dispatcher -> Nat]
  /\ when \in [Dispatcher -> Nat]

(* A post is there only for a dispatcher that main has come to. *)
PostInv ==
  /\ running <=> main = "sleep"
  /\ main = "sleep" => joined = 0
  /\ main \in {"join", "wait"} => joined < Len(Kinds)
  /\ \A d \in Dispatcher :
       dispatch_sem[d] = 1 => d <= joined \/ (main = "wait" /\ d = joined + 1)

(* Nobody is later than MaxLate. *)
LateInv == \A d \in Dispatcher : pc[d] # "exit" => now <= due[d] + MaxLate

(* The time a Periodic counts from is a multiple of the period after its    *)
(* start, and its wait ends at the next one unless the run is over.         *)
OnTime(d) ==
  LET B == Nanos(base[d])
      n == released[d]
  IN  /\ pc[d] = "start" => n = 0 /\ due[d] = 0
      /\ pc[d] \in {"test", "release"} =>
           /\ B - n * P \in 0..MaxLate /\ due[d] <= B
           /\ running \/ pc[d] = "release" => B <= now
      /\ pc[d] = "sleep" =>
           n > 0 /\ B - (n - 1) * P \in 0..MaxLate /\ due[d] <= B /\ B <= now
      /\ pc[d] = "asleep" =>
           /\ n > 0 /\ B - (n - 1) * P \in 0..MaxLate
           /\ rem[d] \in Instant /\ Nanos(rem[d]) = B + P
           /\ due[d] <= B + P /\ (running => due[d] = B + P)
      /\ n > 0 => when[d] - (n - 1) * P \in 0..(2 * MaxLate)

(* The end of each sleep of a PeriodicJitter. *)
Telescopes(d) ==
  LET n == released[d]
      D == Nanos(deltaPeriod[d]) - Q
  IN  /\ pc[d] = "start" => n = 0 /\ due[d] = 0 /\ D = 0
      /\ pc[d] = "release" \/ (pc[d] = "test" /\ running) =>
           due[d] - (n * P + D) \in 0..(n * MaxLate) /\ due[d] <= now
      /\ pc[d] = "sleep" =>
           n > 0 /\ due[d] - ((n - 1) * P + D) \in 0..((n - 1) * MaxLate) /\ due[d] <= now
      /\ pc[d] = "asleep" =>
           due[d] - (n * P + D) \in 0..(n * MaxLate)

PeriodicInv == \A d \in Periodics : OnTime(d)
JitterInv   == \A d \in Jitters : d \notin refused => Telescopes(d)
DeltaInv    == JitterFits => \A d \in Jitters : deltaPeriod[d] \in ShortDeltas

IInv == /\ TypeInv /\ PostInv /\ LateInv /\ SleepsValid
        /\ PeriodicInv /\ JitterInv /\ DeltaInv

(* No step changes what the sleeps fit. *)
LEMMA FitsStay ==
  /\ JitterFits' <=> JitterFits
  /\ ShortDeltas' = ShortDeltas
  /\ \A d \in Dispatcher : SleepFits(d)' <=> SleepFits(d)
BY DEF JitterFits, SleepFits, ShortDeltas, Short, Jitters, Aperiodics, Dispatcher, P, J, Nanos,
       period, jitter, Micros

(* When nanosleep returns. *)
LEMMA SleepsOn ==
  ASSUME NEW a \in Timespec, now \in Nat
  PROVE  /\ Nanos(a) \in Int /\ SleepUntil(a) \in Nat /\ now <= SleepUntil(a)
         /\ ~Refused(a) => SleepUntil(a) = now + Nanos(a)
         /\ SleepUntil(a) = now \/ SleepUntil(a) = now + Nanos(a)
<1>1. Nanos(a) \in Int /\ (~Refused(a) => Nanos(a) \in Nat)
  BY Instants
<1>2. CASE Refused(a)
  BY <1>1, <1>2 DEF SleepUntil
<1>3. CASE ~Refused(a)
  BY <1>1, <1>3 DEF SleepUntil
<1> QED BY <1>2, <1>3

LEMMA KindsApart ==
  /\ Dispatcher = 1..Len(Kinds) /\ Len(Kinds) \in Nat \ {0}
  /\ Periodics \subseteq Dispatcher /\ Jitters \subseteq Dispatcher /\ Aperiodics \subseteq Dispatcher
  /\ \A d \in Dispatcher : d \in Periodics => d \notin Jitters /\ d \notin Aperiodics
  /\ \A d \in Dispatcher : d \in Jitters => d \notin Aperiodics
<1>1. Kinds \in Seq({"periodic", "periodic_jitter", "aperiodic"}) /\ Kinds # <<>>
  BY DispatcherAssumption
<1>2. Dispatcher = 1..Len(Kinds) /\ Len(Kinds) \in Nat
  BY <1>1 DEF Dispatcher
<1>3. Len(Kinds) # 0
  BY <1>1
<1> QED BY <1>2, <1>3 DEF Periodics, Jitters, Aperiodics

(* The lengths of the sleeps of Aperiodic. *)
LEMMA AperiodicSleeps ==
  /\ releaseTime \in Instant /\ duration \in Instant /\ Zero \in Instant
  /\ Remainder \in Timespec /\ Nanos(Remainder) = Nanos(duration) - Nanos(releaseTime)
  /\ ReleaseTime <= Duration => ~Refused(Remainder)
<1>1. ReleaseTime \in Nat /\ Duration \in Nat
  BY DispatcherAssumption
<1>2. releaseTime \in Instant /\ duration \in Instant /\ Zero \in Instant
  BY <1>1, MicrosCounts DEF releaseTime, duration, Zero
<1> DEFINE m == Minus(duration, releaseTime)
<1>3. m \in Timespec /\ Nanos(m) = Nanos(duration) - Nanos(releaseTime)
  BY <1>2, Instants, MinusType, MinusSubtracts
<1>4. Remainder = Minus(m, Zero)
  BY DEF Remainder
<1> HIDE DEF m
<1>5. Nanos(Zero) = 0
  BY MicrosCounts, SubdivisionAssumption, SMT DEF Zero
<1>6. Remainder \in Timespec /\ Nanos(Remainder) = Nanos(m)
  <2>1. Nanos(m) \in Int
    BY <1>3, Instants
  <2>2. Remainder \in Timespec /\ Nanos(Remainder) = Nanos(m) - Nanos(Zero)
    BY <1>2, <1>3, <1>4, Instants, MinusType, MinusSubtracts
  <2> QED BY <1>5, <2>1, <2>2
<1>7. ASSUME ReleaseTime <= Duration PROVE ~Refused(Remainder)
  <2>1. ASSUME NEW a \in Instant, NEW b \in Instant, ~Less(a, b) PROVE Minus(a, b) \in Instant
    BY <2>1, SecondPositive, SMT DEF Less, Minus, Instant
  <2>2. Nanos(releaseTime) <= Nanos(duration)
    BY <1>1, <1>7, MicrosMonotone DEF releaseTime, duration
  <2>3. /\ Nanos(releaseTime) \in Nat /\ Nanos(duration) \in Nat
        /\ Normal(releaseTime) /\ Normal(duration)
    BY <1>2, Instants DEF Refused
  <2>4. ~Less(duration, releaseTime)
    BY <1>2, <2>2, <2>3, Instants, LessIsOrder
  <2>5. m \in Instant
    BY <1>2, <2>1, <2>4 DEF m
  <2>6. Zero = [sec |-> 0, nsec |-> 0]
    BY SubdivisionAssumption, SMT DEF Zero, Micros
  <2>7. ~Less(m, Zero)
    BY <2>5, <2>6, SMT DEF Less, Instant
  <2>8. Remainder \in Instant
    BY <1>2, <1>4, <2>1, <2>5, <2>7
  <2> QED BY <2>8, Instants
<1> QED BY <1>2, <1>3, <1>6, <1>7

LEMMA InitInv == Init => IInv
<1> SUFFICES ASSUME Init PROVE IInv
  OBVIOUS
<1> USE KindsApart
<1>1. /\ P \in Nat /\ J \in Nat /\ Q \in Nat /\ MaxLate \in Nat /\ Q < NanosPerSec
      /\ Micros(InitialDelta) = Short(Q)
  BY Lengths
<1>2. Zero \in Instant /\ Zero \in Timespec /\ Nanos(Zero) \in Nat
  BY AperiodicSleeps, Instants
<1>3. Short(Q) \in Deltas /\ Nanos(Short(Q)) = Q
  <2>1. Short(Q) \in Timespec /\ 0 * NanosPerSec = 0
    BY <1>1, SecondPositive DEF Short, Timespec
  <2>2. Nanos(Short(Q)) = Q
    BY <1>1, <2>1 DEF Short, Nanos
  <2>3. Q >= -J
    BY <1>1
  <2> QED BY <2>1, <2>2, <2>3 DEF Deltas
<1>4. TypeInv
  <2>1. base \in [Periodics -> Instant] /\ rem \in [Dispatcher -> Timespec]
    BY <1>2 DEF Init
  <2>2. deltaPeriod \in [Jitters -> Deltas]
    BY <1>1, <1>3 DEF Init
  <2>3. pc \in [Dispatcher -> Label]
    BY DEF Init, Label
  <2> QED BY <2>1, <2>2, <2>3 DEF Init, TypeInv
<1>5. PostInv
  BY DEF Init, PostInv
<1>6. LateInv
  BY <1>1 DEF Init, LateInv
<1>7. SleepsValid
  BY DEF Init, SleepsValid
<1>8. ASSUME NEW d \in Periodics PROVE OnTime(d)
  BY DEF Init, OnTime
<1>10. DeltaInv
  <2>1. SUFFICES ASSUME JitterFits, NEW d \in Jitters PROVE deltaPeriod[d] \in ShortDeltas
    BY DEF DeltaInv
  <2>2. Q + J <= P
    BY <2>1, FittingLengths
  <2>3. Q \in (-J)..(P - J)
    BY <1>1, <2>2
  <2> QED BY <1>1, <2>3 DEF Init, ShortDeltas
<1>9. ASSUME NEW d \in Jitters PROVE Telescopes(d)
  <2>1. Nanos(deltaPeriod[d]) - Q = 0
    BY <1>1, <1>3 DEF Init
  <2> QED BY <2>1 DEF Init, Telescopes
<1> QED BY <1>4, <1>5, <1>6, <1>7, <1>8, <1>9, <1>10 DEF IInv, PeriodicInv, JitterInv

-----------------------------------------------------------------------------
(* A step of a dispatcher is about that dispatcher. *)
LEMMA OthersKeep ==
  ASSUME IInv, NEW e \in Dispatcher, DispatcherStep(e), NEW d \in Dispatcher, d # e
  PROVE  /\ pc'[d] = pc[d] /\ due'[d] = due[d] /\ dispatch_sem'[d] = dispatch_sem[d]
         /\ rem'[d] = rem[d] /\ released'[d] = released[d] /\ when'[d] = when[d]
         /\ d \in Periodics => base'[d] = base[d]
         /\ d \in Jitters => deltaPeriod'[d] = deltaPeriod[d]
         /\ d \in refused' <=> d \in refused
<1> USE DEF IInv, TypeInv, Goto, mainVars, sleepVars, jitterVars, jobVars
<1>1. CASE Start(e) BY <1>1 DEF Start
<1>2. CASE Test(e) BY <1>2 DEF Test
<1>3. CASE Release(e) BY <1>3 DEF Release
<1>4. CASE Wake(e) BY <1>4 DEF Wake
<1>5. CASE PeriodicSleep(e) BY <1>5 DEF PeriodicSleep
<1>6. CASE JitterSleep(e) BY <1>6 DEF JitterSleep
<1>7. CASE JitterSkip(e) BY <1>7 DEF JitterSkip
<1>8. CASE AperiodicSleep(e) BY <1>8 DEF AperiodicSleep
<1> QED BY <1>1, <1>2, <1>3, <1>4, <1>5, <1>6, <1>7, <1>8 DEF DispatcherStep

LEMMA MainKept ==
  ASSUME NEW e \in Dispatcher, DispatcherStep(e)
  PROVE  UNCHANGED <<now, running, main, joined>>
BY DEF DispatcherStep, Start, Test, Release, Wake, PeriodicSleep, JitterSleep, JitterSkip,
       AperiodicSleep, mainVars

(* What is left to show of a step of one dispatcher. *)
LEMMA OneDispatcher ==
  ASSUME IInv, NEW e \in Dispatcher, DispatcherStep(e), TypeInv',
         dispatch_sem'[e] = 1 => dispatch_sem[e] = 1,
         pc'[e] # "exit" => now <= due'[e] + MaxLate,
         SleepFits(e) /\ pc'[e] = "asleep" => ~Refused(rem'[e]),
         e \in Periodics => OnTime(e)',
         e \in Jitters /\ e \notin refused' => Telescopes(e)',
         \/ deltaPeriod' = deltaPeriod
         \/ JitterFits /\ e \in Jitters => deltaPeriod'[e] \in ShortDeltas
  PROVE  IInv'
<1> USE KindsApart, FitsStay
<1>1. UNCHANGED <<now, running, main, joined>>
  BY MainKept
<1>2. PostInv'
  <2>1. ASSUME NEW d \in Dispatcher, dispatch_sem'[d] = 1 PROVE dispatch_sem[d] = 1
    BY <2>1, OthersKeep
  <2> QED BY <1>1, <2>1 DEF IInv, PostInv
<1>3. LateInv'
  <2>1. ASSUME NEW d \in Dispatcher, pc'[d] # "exit" PROVE now <= due'[d] + MaxLate
    <3>1. CASE d # e BY <2>1, <3>1, OthersKeep DEF IInv, LateInv
    <3> QED BY <2>1, <3>1
  <2> QED BY <1>1, <2>1 DEF LateInv
<1>4. SleepsValid'
  <2>1. ASSUME NEW d \in Dispatcher, SleepFits(d), pc'[d] = "asleep" PROVE ~Refused(rem'[d])
    <3>1. CASE d # e BY <2>1, <3>1, OthersKeep DEF IInv, SleepsValid
    <3> QED BY <2>1, <3>1
  <2> QED BY <2>1 DEF SleepsValid, Refused, Normal
<1>5. ASSUME NEW d \in Periodics PROVE OnTime(d)'
  <2>1. CASE d # e
    <3>1. /\ pc'[d] = pc[d] /\ due'[d] = due[d] /\ rem'[d] = rem[d]
          /\ released'[d] = released[d] /\ when'[d] = when[d] /\ base'[d] = base[d]
      BY <2>1, OthersKeep
    <3>2. OnTime(d)
      BY DEF IInv, PeriodicInv
    <3> QED BY <1>1, <3>1, <3>2 DEF OnTime, Nanos, Instant
  <2> QED BY <2>1
<1>6. ASSUME NEW d \in Jitters, d \notin refused' PROVE Telescopes(d)'
  <2>1. CASE d # e
    <3>1. /\ pc'[d] = pc[d] /\ due'[d] = due[d] /\ d \notin refused
          /\ released'[d] = released[d] /\ deltaPeriod'[d] = deltaPeriod[d]
      BY <1>6, <2>1, OthersKeep
    <3>2. Telescopes(d)
      BY <3>1 DEF IInv, JitterInv
    <3> QED BY <1>1, <3>1, <3>2 DEF Telescopes, Nanos
  <2> QED BY <1>6, <2>1
<1>7. DeltaInv'
  <2>1. ASSUME JitterFits, NEW d \in Jitters PROVE deltaPeriod'[d] \in ShortDeltas
    <3>1. deltaPeriod[d] \in ShortDeltas
      BY <2>1 DEF IInv, DeltaInv
    <3>2. CASE d # e BY <3>1, <3>2, OthersKeep
    <3> QED BY <2>1, <3>1, <3>2
  <2> QED BY <2>1 DEF DeltaInv
<1> QED BY <1>2, <1>3, <1>4, <1>5, <1>6, <1>7 DEF IInv, PeriodicInv, JitterInv

(* Where a dispatcher goes keeps the type of pc. *)
LEMMA GotoType ==
  ASSUME IInv, NEW e \in Dispatcher, NEW l \in Label, Goto(e, l)
  PROVE  pc' \in [Dispatcher -> Label] /\ pc'[e] = l
BY DEF IInv, TypeInv, Goto

LEMMA TestKeeps == ASSUME IInv, NEW e \in Dispatcher, Test(e) PROVE IInv'
<1> USE KindsApart DEF jitterVars, mainVars, sleepVars, jobVars
<1>1. /\ pc[e] = "test"
      /\ UNCHANGED <<now, running, main, joined, due, dispatch_sem, base, rem, jitterVars, released, when>>
  BY DEF Test
<1>2. PICK l \in {"exit", "sleep", "release"} :
        Goto(e, l) /\ (l = "release" => running /\ e \notin Aperiodics) /\ (l = "sleep" => e \in Aperiodics)
  BY DEF Test
<1>3. l \in Label
  BY DEF Label
<1>4. pc' \in [Dispatcher -> Label] /\ pc'[e] = l
  BY <1>2, <1>3, GotoType
<1>5. TypeInv'
  BY <1>1, <1>4 DEF IInv, TypeInv
<1>6. pc'[e] # "exit" => now <= due'[e] + MaxLate
  BY <1>1 DEF IInv, LateInv
<1>7. ASSUME e \in Periodics PROVE OnTime(e)'
  <2>1. OnTime(e) /\ l \in {"exit", "release"}
    BY <1>2, <1>7 DEF IInv, PeriodicInv
  <2> QED BY <1>1, <1>2, <1>4, <2>1 DEF OnTime, Nanos, Instant
<1>8. ASSUME e \in Jitters, e \notin refused' PROVE Telescopes(e)'
  <2>1. Telescopes(e) /\ l \in {"exit", "release"}
    BY <1>1, <1>2, <1>8 DEF IInv, JitterInv
  <2> QED BY <1>1, <1>2, <1>4, <2>1 DEF Telescopes, Nanos
<1> QED BY <1>1, <1>2, <1>4, <1>5, <1>6, <1>7, <1>8, OneDispatcher DEF DispatcherStep

LEMMA ReleaseKeeps == ASSUME IInv, NEW e \in Dispatcher, Release(e) PROVE IInv'
<1> USE KindsApart DEF jitterVars, mainVars, sleepVars
<1>1. /\ pc[e] = "release" /\ Goto(e, "sleep")
      /\ UNCHANGED <<now, running, main, joined, due, dispatch_sem, base, rem, jitterVars>>
      /\ released' = [released EXCEPT ![e] = @ + 1] /\ when' = [when EXCEPT ![e] = now]
  BY DEF Release
<1>2. "sleep" \in Label
  BY DEF Label
<1>3. pc' \in [Dispatcher -> Label] /\ pc'[e] = "sleep"
  BY <1>1, <1>2, GotoType
<1>4. /\ released[e] \in Nat /\ now \in Nat /\ MaxLate \in Nat /\ P \in Nat /\ due[e] \in Nat
      /\ released'[e] = released[e] + 1 /\ when'[e] = now
  BY <1>1, Lengths DEF IInv, TypeInv
<1>5. TypeInv'
  <2>1. released' \in [Dispatcher -> Nat] /\ when' \in [Dispatcher -> Nat]
    BY <1>1, <1>4 DEF IInv, TypeInv
  <2> QED BY <1>1, <1>3, <2>1 DEF IInv, TypeInv
<1>6. now <= due[e] + MaxLate
  BY <1>1 DEF IInv, LateInv
<1>7. ASSUME e \in Periodics PROVE OnTime(e)'
  <2> DEFINE B == Nanos(base[e])
             n == released[e]
  <2>1. B - n * P \in 0..MaxLate /\ due[e] <= B /\ B <= now
    BY <1>1, <1>7 DEF IInv, PeriodicInv, OnTime
  <2>2. B \in Nat
    BY <1>7, Instants DEF IInv, TypeInv
  <2>3. (n + 1) - 1 = n /\ n + 1 > 0 /\ n * P \in Nat
    BY <1>4, SMT
  <2> HIDE DEF B
  <2>4. now - n * P \in 0..(2 * MaxLate)
    <3> DEFINE X == n * P
    <3>1. X \in Nat /\ B - X \in 0..MaxLate
      BY <2>1, <2>3
    <3> HIDE DEF X
    <3>2. now - X \in 0..(2 * MaxLate)
      BY <1>4, <1>6, <2>1, <2>2, <3>1, SMT
    <3> QED BY <3>2 DEF X
  <2>5. Nanos(base[e])' = B
    BY <1>1 DEF B, Nanos
  <2> QED BY <1>1, <1>3, <1>4, <2>1, <2>3, <2>4, <2>5 DEF OnTime
<1>8. ASSUME e \in Jitters, e \notin refused' PROVE Telescopes(e)'
  <2> DEFINE D == Nanos(deltaPeriod[e]) - Q
             n == released[e]
  <2>1. due[e] - (n * P + D) \in 0..(n * MaxLate) /\ due[e] <= now
    BY <1>1, <1>8 DEF IInv, JitterInv, Telescopes
  <2>2. (n + 1) - 1 = n /\ n + 1 > 0
    BY <1>4, SMT
  <2>3. (Nanos(deltaPeriod[e]) - Q)' = D
    BY <1>1 DEF Nanos, Q
  <2> HIDE DEF D
  <2> QED BY <1>1, <1>3, <1>4, <2>1, <2>2, <2>3 DEF Telescopes
<1> QED BY <1>1, <1>3, <1>5, <1>6, <1>7, <1>8, OneDispatcher DEF DispatcherStep

LEMMA JitterSkipKeeps == ASSUME IInv, NEW e \in Dispatcher, JitterSkip(e) PROVE IInv'
<1> USE KindsApart DEF jitterVars, mainVars, sleepVars, jobVars
<1>1. /\ pc[e] = "sleep" /\ ~running /\ e \in Jitters /\ Goto(e, "test")
      /\ UNCHANGED <<now, running, main, joined, due, dispatch_sem, base, rem, jitterVars, released, when>>
  BY DEF JitterSkip
<1>2. "test" \in Label
  BY DEF Label
<1>3. pc' \in [Dispatcher -> Label] /\ pc'[e] = "test"
  BY <1>1, <1>2, GotoType
<1>4. TypeInv'
  BY <1>1, <1>3 DEF IInv, TypeInv
<1>5. now <= due'[e] + MaxLate
  BY <1>1 DEF IInv, LateInv
<1>6. Telescopes(e)'
  BY <1>1, <1>3 DEF Telescopes
<1> QED BY <1>1, <1>3, <1>4, <1>5, <1>6, OneDispatcher DEF DispatcherStep

LEMMA AperiodicSleepKeeps == ASSUME IInv, NEW e \in Dispatcher, AperiodicSleep(e) PROVE IInv'
<1> USE KindsApart DEF jitterVars, mainVars, jobVars
<1>1. /\ pc[e] = "sleep" /\ e \in Aperiodics /\ Goto(e, "asleep")
      /\ rem' = [rem EXCEPT ![e] = Remainder]
      /\ due' = [due EXCEPT ![e] = SleepUntil(Remainder)]
      /\ UNCHANGED <<now, running, main, joined, dispatch_sem, base, jitterVars, released, when>>
  BY DEF AperiodicSleep
<1>2. "asleep" \in Label
  BY DEF Label
<1>3. pc' \in [Dispatcher -> Label] /\ pc'[e] = "asleep"
  BY <1>1, <1>2, GotoType
<1>4. /\ Remainder \in Timespec /\ (SleepFits(e) => ~Refused(Remainder))
      /\ now \in Nat /\ MaxLate \in Nat
  BY <1>1, AperiodicSleeps, Lengths DEF SleepFits, IInv, TypeInv
<1>5. SleepUntil(Remainder) \in Nat /\ now <= SleepUntil(Remainder)
  BY <1>4, SleepsOn
<1>6. due'[e] = SleepUntil(Remainder) /\ rem'[e] = Remainder
  BY <1>1, <1>5 DEF IInv, TypeInv
<1>7. TypeInv'
  <2>1. due' \in [Dispatcher -> Nat] /\ rem' \in [Dispatcher -> Timespec]
    BY <1>1, <1>4, <1>5 DEF IInv, TypeInv
  <2> QED BY <1>1, <1>3, <2>1 DEF IInv, TypeInv
<1>8. now <= due'[e] + MaxLate
  BY <1>4, <1>5, <1>6
<1>9. SleepFits(e) => ~Refused(rem'[e])
  BY <1>4, <1>6
<1> QED BY <1>1, <1>7, <1>8, <1>9, OneDispatcher DEF DispatcherStep

LEMMA StartKeeps == ASSUME IInv, NEW e \in Dispatcher, Start(e) PROVE IInv'
<1> USE KindsApart DEF jitterVars, mainVars, jobVars
<1>1. /\ pc[e] = "start"
      /\ UNCHANGED <<now, running, main, joined, dispatch_sem, jitterVars, released, when>>
      /\ base' = IF e \in Periodics THEN [base EXCEPT ![e] = Clock] ELSE base
  BY DEF Start
<1>2. now \in Nat /\ MaxLate \in Nat /\ now <= due[e] + MaxLate /\ due[e] \in Nat
  BY <1>1, Lengths DEF IInv, TypeInv, LateInv
<1>3. Clock \in Instant /\ Nanos(Clock) = now
  BY <1>2, ClockReads
<1>4. base' \in [Periodics -> Instant]
  BY <1>1, <1>3 DEF IInv, TypeInv
<1>5. {"asleep", "test"} \subseteq Label
  BY DEF Label
<1>6. CASE e \in Aperiodics
  <2>1. /\ Goto(e, "asleep") /\ rem' = [rem EXCEPT ![e] = releaseTime]
        /\ due' = [due EXCEPT ![e] = SleepUntil(releaseTime)]
    BY <1>6 DEF Start
  <2>2. pc' \in [Dispatcher -> Label] /\ pc'[e] = "asleep"
    BY <1>5, <2>1, GotoType
  <2>3. releaseTime \in Timespec /\ ~Refused(releaseTime) /\ Nanos(releaseTime) \in Nat
    BY AperiodicSleeps, Instants
  <2>4. SleepUntil(releaseTime) = now + Nanos(releaseTime)
    BY <2>3 DEF SleepUntil
  <2>5. due'[e] = now + Nanos(releaseTime) /\ rem'[e] = releaseTime
    BY <2>1, <2>4 DEF IInv, TypeInv
  <2>6. TypeInv'
    <3>1. due' \in [Dispatcher -> Nat] /\ rem' \in [Dispatcher -> Timespec]
      BY <1>2, <2>1, <2>3, <2>4 DEF IInv, TypeInv
    <3> QED BY <1>1, <1>4, <2>2, <3>1 DEF IInv, TypeInv
  <2>7. now <= due'[e] + MaxLate
    BY <1>2, <2>3, <2>5
  <2> QED BY <1>1, <1>6, <2>3, <2>5, <2>6, <2>7, OneDispatcher DEF DispatcherStep
<1>7. CASE e \notin Aperiodics
  <2>1. Goto(e, "test") /\ UNCHANGED <<rem, due>>
    BY <1>7 DEF Start
  <2>2. pc' \in [Dispatcher -> Label] /\ pc'[e] = "test"
    BY <1>5, <2>1, GotoType
  <2>3. TypeInv'
    BY <1>1, <1>4, <2>1, <2>2 DEF IInv, TypeInv
  <2>4. ASSUME e \in Periodics PROVE OnTime(e)'
    <3>1. released[e] = 0 /\ due[e] = 0
      BY <1>1, <2>4 DEF IInv, PeriodicInv, OnTime
    <3>2. base'[e] = Clock
      BY <1>1, <2>4 DEF IInv, TypeInv
    <3>3. Nanos(base[e])' = now
      BY <1>3, <3>2 DEF Nanos, Clock
    <3>4. 0 * P = 0 /\ now - 0 \in 0..MaxLate /\ 0 <= now
      BY <1>2, <3>1, Lengths, SMT
    <3>5. released'[e] = 0 /\ due'[e] = 0 /\ running' = running /\ now' = now
      BY <1>1, <2>1, <3>1
    <3>6. (Nanos(base[e]) - released[e] * P \in 0..MaxLate)'
      <4>1. now - 0 * P \in 0..MaxLate
        BY <1>2, <3>4
      <4> QED BY <3>3, <3>5, <4>1 DEF P, Nanos
    <3>7. (due[e] <= Nanos(base[e]))' /\ (Nanos(base[e]) <= now)'
      BY <1>2, <3>3, <3>4, <3>5
    <3>8. (~(released[e] > 0))'
      BY <3>5
    <3> QED BY <2>2, <3>6, <3>7, <3>8, Zenon DEF OnTime
  <2>5. ASSUME e \in Jitters, e \notin refused' PROVE Telescopes(e)'
    <3>1. released[e] = 0 /\ due[e] = 0 /\ Nanos(deltaPeriod[e]) - Q = 0
      BY <1>1, <2>5 DEF IInv, JitterInv, Telescopes
    <3>2. (Nanos(deltaPeriod[e]) - Q)' = 0
      BY <1>1, <3>1 DEF Nanos, Q
    <3>3. 0 * P = 0 /\ 0 * MaxLate = 0
      BY Lengths, SMT
    <3> QED BY <1>1, <1>2, <2>1, <2>2, <3>1, <3>2, <3>3 DEF Telescopes
  <2> QED BY <1>1, <1>2, <2>1, <2>2, <2>3, <2>4, <2>5, OneDispatcher DEF DispatcherStep
<1> QED BY <1>6, <1>7

LEMMA PeriodicSleepKeeps == ASSUME IInv, NEW e \in Dispatcher, PeriodicSleep(e) PROVE IInv'
<1> USE KindsApart DEF jitterVars, mainVars, jobVars
<1> DEFINE target == Plus(base[e], period)
           B == Nanos(base[e])
           n == released[e]
<1>1. /\ pc[e] = "sleep" /\ e \in Periodics /\ Goto(e, "asleep")
      /\ rem' = [rem EXCEPT ![e] = target]
      /\ due' = [due EXCEPT ![e] = WaitUntil(e, target)]
      /\ UNCHANGED <<now, running, main, joined, dispatch_sem, base, jitterVars, released, when>>
  BY DEF PeriodicSleep
<1>2. "asleep" \in Label
  BY DEF Label
<1>3. pc' \in [Dispatcher -> Label] /\ pc'[e] = "asleep"
  BY <1>1, <1>2, GotoType
<1>4. base[e] \in Instant /\ period \in Instant
  BY <1>1, DispatcherAssumption, MicrosCounts DEF IInv, TypeInv, period
<1>5. target \in Instant /\ Nanos(target) = B + P
  BY <1>4, PlusAdds DEF P
<1>6. /\ n > 0 /\ B - (n - 1) * P \in 0..MaxLate /\ due[e] <= B /\ B <= now
      /\ (n > 0 => when[e] - (n - 1) * P \in 0..(2 * MaxLate))
  BY <1>1 DEF IInv, PeriodicInv, OnTime
<1>7. /\ now \in Nat /\ due[e] \in Nat /\ MaxLate \in Nat /\ P \in Nat /\ MaxLate < P
      /\ now <= due[e] + MaxLate /\ dispatch_sem[e] \in {0, 1}
  BY <1>1, Lengths DEF IInv, TypeInv, LateInv
<1>8. B \in Nat /\ target \in Timespec /\ ~Refused(target)
  BY <1>4, <1>5, Instants
<1>9. running => dispatch_sem[e] = 0
  BY <1>7, SMT DEF IInv, PostInv, TypeInv
<1>10. due'[e] = WaitUntil(e, target) /\ rem'[e] = target
  BY <1>1 DEF IInv, TypeInv
<1> HIDE DEF target, B
<1>11. now < B + P
  BY <1>6, <1>7, <1>8, SMT
<1>12. /\ WaitUntil(e, target) \in Nat /\ now <= WaitUntil(e, target) /\ WaitUntil(e, target) <= B + P
       /\ (running => WaitUntil(e, target) = B + P)
  BY <1>5, <1>7, <1>8, <1>9, <1>11, SMT DEF WaitUntil
<1>13. TypeInv'
  <2>1. due' \in [Dispatcher -> Nat] /\ rem' \in [Dispatcher -> Timespec]
    BY <1>1, <1>8, <1>12 DEF IInv, TypeInv
  <2> QED BY <1>1, <1>3, <2>1 DEF IInv, TypeInv
<1>14. now <= due'[e] + MaxLate
  BY <1>7, <1>10, <1>12, SMT
<1>15. OnTime(e)'
  <2>1. Nanos(base[e])' = B
    BY <1>1 DEF B, Nanos
  <2>2. Nanos(rem[e])' = B + P
    BY <1>5, <1>10 DEF Nanos
  <2>3. released'[e] = n /\ when'[e] = when[e] /\ running' = running
    BY <1>1
  <2> QED BY <1>3, <1>5, <1>6, <1>10, <1>12, <2>1, <2>2, <2>3 DEF OnTime, Instant
<1> QED BY <1>1, <1>8, <1>10, <1>13, <1>14, <1>15, OneDispatcher DEF DispatcherStep

(* One multiple more. *)
LEMMA NextMultiple ==
  ASSUME NEW n \in Nat, NEW a \in Nat
  PROVE  n * a = (n - 1) * a + a /\ (n - 1) * a \in Int
<1>1. n \in Int /\ a \in Int /\ n - 1 \in Int
  OBVIOUS
<1>2. (n - 1) * a \in Int
  BY <1>1
<1>3. n * a = (n - 1) * a + a
  BY <1>1, SMT
<1> QED BY <1>2, <1>3

LEMMA JitterSleepKeeps == ASSUME IInv, NEW e \in Dispatcher, JitterSleep(e) PROVE IInv'
<1> USE KindsApart DEF jitterVars, mainVars, jobVars
<1>1. /\ pc[e] = "sleep" /\ e \in Jitters /\ running /\ Goto(e, "asleep")
      /\ UNCHANGED <<now, running, main, joined, dispatch_sem, base, released, when>>
  BY DEF JitterSleep
<1> DEFINE delta == deltaPeriod[e]
           n == released[e]
<1>2. PICK k \in Percents :
        /\ rem' = [rem EXCEPT ![e] = NewPeriod(k, delta)]
        /\ due' = [due EXCEPT ![e] = SleepUntil(NewPeriod(k, delta))]
        /\ deltaPeriod' = [deltaPeriod EXCEPT ![e] = NewDelta(k)]
        /\ refused' = IF Refused(NewPeriod(k, delta)) THEN refused \cup {e} ELSE refused
  BY DEF JitterSleep
<1>3. "asleep" \in Label
  BY DEF Label
<1>4. pc' \in [Dispatcher -> Label] /\ pc'[e] = "asleep"
  BY <1>1, <1>3, GotoType
<1>5. delta \in Deltas
  BY <1>1 DEF IInv, TypeInv
<1> DEFINE s == Nanos(NewPeriod(k, delta))
           D == Nanos(delta)
           D1 == Nanos(NewDelta(k))
<1>6. /\ NewDelta(k) \in Deltas /\ NewPeriod(k, delta) \in Timespec
      /\ s = P + D1 - D /\ s \in Int /\ D1 \in Int /\ D \in Int
  BY <1>5, NewPeriodTelescopes, Instants
<1> DEFINE until == SleepUntil(NewPeriod(k, delta))
<1>7. until \in Nat /\ now <= until /\ (~Refused(NewPeriod(k, delta)) => until = now + s)
  BY <1>6, SleepsOn DEF IInv, TypeInv
<1>8. due'[e] = until /\ rem'[e] = NewPeriod(k, delta) /\ deltaPeriod'[e] = NewDelta(k)
  BY <1>1, <1>2, <1>7 DEF IInv, TypeInv
<1>9. Nanos(deltaPeriod[e])' = D1
  BY <1>8 DEF Nanos
<1>10. ASSUME e \notin refused
       PROVE  n > 0 /\ due[e] - ((n - 1) * P + (D - Q)) \in 0..((n - 1) * MaxLate) /\ due[e] <= now
  BY <1>1, <1>10 DEF IInv, JitterInv, Telescopes
<1>11. /\ now \in Nat /\ MaxLate \in Nat /\ now <= due[e] + MaxLate /\ due[e] \in Nat
       /\ P \in Nat /\ Q \in Nat /\ n \in Nat
  BY <1>1, Lengths DEF IInv, TypeInv, LateInv
<1>12. TypeInv'
  <2>1. due' \in [Dispatcher -> Nat]
    BY <1>2, <1>6, <1>7, <1>11 DEF IInv, TypeInv
  <2>2. rem' \in [Dispatcher -> Timespec] /\ deltaPeriod' \in [Jitters -> Deltas]
    BY <1>2, <1>6 DEF IInv, TypeInv
  <2>3. refused' \subseteq Jitters
    BY <1>1, <1>2 DEF IInv, TypeInv
  <2> QED BY <1>1, <1>4, <2>1, <2>2, <2>3 DEF IInv, TypeInv
<1>13. now <= due'[e] + MaxLate
  BY <1>7, <1>8, <1>11
<1>14. ASSUME e \notin refused, ~Refused(NewPeriod(k, delta))
       PROVE  n > 0 /\ due'[e] - (n * P + (D1 - Q)) \in 0..(n * MaxLate)
  <2> DEFINE X == (n - 1) * P
             Y == (n - 1) * MaxLate
  <2>1. n * P = X + P /\ X \in Int
    BY <1>11, NextMultiple
  <2>2. n * MaxLate = Y + MaxLate /\ Y \in Int
    BY <1>11, NextMultiple
  <2>3. n > 0 /\ due[e] - (X + (D - Q)) \in 0..Y /\ due[e] <= now
    BY <1>10, <1>14
  <2>4. now + (P + D1 - D) - (X + P + (D1 - Q)) \in 0..(Y + MaxLate)
    <3> DEFINE d == due[e]
    <3> HIDE DEF X, Y, D, D1
    <3>1. /\ now \in Int /\ d \in Int /\ P \in Int /\ D \in Int /\ D1 \in Int /\ Q \in Int
          /\ X \in Int /\ Y \in Int /\ MaxLate \in Nat
      BY <1>6, <1>11, <2>1, <2>2
    <3>2. d <= now /\ now <= d + MaxLate /\ d - (X + (D - Q)) \in 0..Y
      BY <1>11, <2>3
    <3> HIDE DEF d
    <3> QED BY <3>1, <3>2, SMT
  <2>5. due'[e] = now + (P + D1 - D)
    BY <1>6, <1>7, <1>8, <1>14
  <2> DEFINE nP == n * P
             nL == n * MaxLate
  <2>6. now \in Int /\ P \in Int /\ D \in Int /\ D1 \in Int /\ Q \in Int /\ MaxLate \in Int
    BY <1>6, <1>11
  <2>7. nP = X + P /\ nL = Y + MaxLate
    BY <2>1, <2>2
  <2>8. X \in Int /\ Y \in Int
    BY <2>1, <2>2
  <2> HIDE DEF X, Y, D, D1, nP, nL
  <2>9. due'[e] - (nP + (D1 - Q)) \in 0..nL
    BY <2>4, <2>5, <2>7, <2>6, <2>8, SMT
  <2> QED BY <2>3, <2>9 DEF nP, nL
<1>15. ASSUME e \notin refused' PROVE Telescopes(e)'
  <2>1. (Nanos(deltaPeriod[e]) - Q)' = D1 - Q
    BY <1>9 DEF Q, Nanos
  <2>2. e \notin refused /\ ~Refused(NewPeriod(k, delta))
    BY <1>2, <1>15
  <2>3. n > 0 /\ due'[e] - (n * P + (D1 - Q)) \in 0..(n * MaxLate)
    BY <1>14, <2>2
  <2> HIDE DEF D1
  <2> QED BY <1>1, <1>4, <2>1, <2>3 DEF Telescopes
<1>16. ASSUME JitterFits
       PROVE  deltaPeriod'[e] \in ShortDeltas /\ ~Refused(rem'[e])
  <2>1. delta \in ShortDeltas
    BY <1>1, <1>16 DEF IInv, DeltaInv
  <2> QED BY <1>8, <1>16, <2>1, NewPeriodIsTaken
<1>17. SleepFits(e) => ~Refused(rem'[e])
  BY <1>1, <1>16 DEF SleepFits
<1> QED BY <1>1, <1>12, <1>13, <1>15, <1>16, <1>17, OneDispatcher DEF DispatcherStep

LEMMA WakeKeeps == ASSUME IInv, NEW e \in Dispatcher, Wake(e) PROVE IInv'
<1> USE KindsApart DEF jitterVars, mainVars, jobVars
<1>1. /\ pc[e] = "asleep" /\ now >= due[e]
      /\ UNCHANGED <<now, running, main, joined, due, rem, jitterVars, released, when>>
      /\ base' = IF e \in Periodics THEN [base EXCEPT ![e] = rem[e]] ELSE base
  BY DEF Wake
<1>2. PICK l \in {"test", "release"} : Goto(e, l) /\ (l = "release" => e \in Aperiodics)
  BY DEF Wake
<1>3. l \in Label
  BY DEF Label
<1>4. pc' \in [Dispatcher -> Label] /\ pc'[e] = l
  BY <1>2, <1>3, GotoType
<1>5. /\ now \in Nat /\ MaxLate \in Nat /\ now <= due[e] + MaxLate /\ due[e] \in Nat
      /\ P \in Nat /\ released[e] \in Nat
  BY <1>1, Lengths DEF IInv, TypeInv, LateInv
<1>6. dispatch_sem' \in [Dispatcher -> {0, 1}] /\ (dispatch_sem'[e] = 1 => dispatch_sem[e] = 1)
  <2>1. dispatch_sem \in [Dispatcher -> {0, 1}]
    BY DEF IInv, TypeInv
  <2>2. CASE e \in Periodics /\ dispatch_sem[e] > 0
    <3>1. dispatch_sem' = [dispatch_sem EXCEPT ![e] = dispatch_sem[e] - 1] /\ dispatch_sem[e] = 1
      BY <2>1, <2>2 DEF Wake
    <3> QED BY <2>1, <3>1
  <2>3. CASE ~(e \in Periodics /\ dispatch_sem[e] > 0)
    <3>1. dispatch_sem' = dispatch_sem
      BY <2>3 DEF Wake
    <3> QED BY <2>1, <3>1
  <2> QED BY <2>2, <2>3
<1>7. ASSUME e \in Periodics
      PROVE  /\ rem[e] \in Instant /\ Nanos(rem[e]) = Nanos(base[e]) + P
             /\ released[e] > 0 /\ Nanos(base[e]) - (released[e] - 1) * P \in 0..MaxLate
             /\ due[e] <= Nanos(base[e]) + P /\ (running => due[e] = Nanos(base[e]) + P)
             /\ when[e] - (released[e] - 1) * P \in 0..(2 * MaxLate)
  BY <1>1, <1>7 DEF IInv, PeriodicInv, OnTime
<1>8. TypeInv'
  <2>1. base' \in [Periodics -> Instant]
    BY <1>1, <1>7 DEF IInv, TypeInv
  <2> QED BY <1>1, <1>4, <1>6, <2>1 DEF IInv, TypeInv
<1>9. ASSUME e \in Periodics PROVE OnTime(e)'
  <2> DEFINE B == Nanos(base[e])
             n == released[e]
             X == (n - 1) * P
  <2>1. B \in Nat
    BY <1>9, Instants DEF IInv, TypeInv
  <2>2. base'[e] = rem[e]
    BY <1>1, <1>9 DEF IInv, TypeInv
  <2>3. Nanos(base[e])' = B + P
    BY <1>7, <1>9, <2>2 DEF Nanos
  <2>4. n * P = X + P /\ X \in Int
    BY <1>5, SMT
  <2>5. B - X \in 0..MaxLate
    BY <1>7, <1>9
  <2>6. due[e] <= B + P /\ (running => due[e] = B + P)
    BY <1>7, <1>9
  <2> HIDE DEF B, X
  <2>7. (B + P) - (X + P) \in 0..MaxLate /\ (running => B + P <= now)
    BY <1>1, <1>5, <2>1, <2>4, <2>5, <2>6, SMT
  <2>8. pc'[e] = "test"
    BY <1>2, <1>4, <1>9
  <2>9. (Nanos(base[e]) - released[e] * P \in 0..MaxLate)'
    <3>1. (B + P) - n * P \in 0..MaxLate
      BY <2>4, <2>7
    <3>2. (released[e] * P)' = n * P
      BY <1>1 DEF P
    <3> QED BY <1>1, <2>3, <3>1, <3>2
  <2>10. (due[e] <= Nanos(base[e]))' /\ (running => Nanos(base[e]) <= now)'
    BY <1>1, <2>3, <2>6, <2>7
  <2>11. (released[e] > 0 => when[e] - (released[e] - 1) * P \in 0..(2 * MaxLate))'
    BY <1>1, <1>7, <1>9
  <2> QED BY <2>8, <2>9, <2>10, <2>11, Zenon DEF OnTime
<1>10. ASSUME e \in Jitters, e \notin refused' PROVE Telescopes(e)'
  <2>1. Telescopes(e) /\ l = "test"
    BY <1>1, <1>2, <1>10 DEF IInv, JitterInv
  <2>2. Nanos(deltaPeriod[e])' = Nanos(deltaPeriod[e])
    BY <1>1 DEF Nanos
  <2> QED BY <1>1, <1>4, <2>1, <2>2 DEF Telescopes, P, Q, Nanos
<1> QED BY <1>1, <1>2, <1>4, <1>5, <1>6, <1>8, <1>9, <1>10, OneDispatcher DEF DispatcherStep

LEMMA DispatcherKeeps ==
  ASSUME IInv, NEW e \in Dispatcher, DispatcherStep(e) PROVE IInv'
BY StartKeeps, TestKeeps, ReleaseKeeps, WakeKeeps, PeriodicSleepKeeps, JitterSleepKeeps,
   JitterSkipKeeps, AperiodicSleepKeeps DEF DispatcherStep

-----------------------------------------------------------------------------
(* The main thread and the clock *)

LEMMA EndRunKeeps == ASSUME IInv, EndRun PROVE IInv'
<1> USE KindsApart DEF jitterVars, sleepVars, jobVars
<1>1. /\ main = "sleep" /\ running' = FALSE /\ main' = "join"
      /\ UNCHANGED <<now, joined, pc, due, dispatch_sem, base, rem, jitterVars, released, when>>
  BY DEF EndRun
<1>2. TypeInv'
  BY <1>1 DEF IInv, TypeInv
<1>3. PostInv'
  BY <1>1 DEF IInv, PostInv
<1>4. LateInv' /\ SleepsValid'
  BY <1>1, FitsStay DEF IInv, LateInv, SleepsValid, Refused, Normal
<1>5. ASSUME NEW d \in Periodics PROVE OnTime(d)'
  <2>1. OnTime(d)
    BY DEF IInv, PeriodicInv
  <2>2. Nanos(base[d])' = Nanos(base[d]) /\ Nanos(rem[d])' = Nanos(rem[d])
    BY <1>1 DEF Nanos
  <2> QED BY <1>1, <2>1, <2>2 DEF OnTime, P, Nanos, Instant
<1>6. ASSUME NEW d \in Jitters, d \notin refused' PROVE Telescopes(d)'
  <2>1. Telescopes(d)
    BY <1>1, <1>6 DEF IInv, JitterInv
  <2> QED BY <1>1, <2>1 DEF Telescopes, P, Q, Nanos
<1>7. DeltaInv'
  BY <1>1, FitsStay DEF IInv, DeltaInv
<1> QED BY <1>2, <1>3, <1>4, <1>5, <1>6, <1>7 DEF IInv, PeriodicInv, JitterInv

LEMMA JoinKeeps == ASSUME IInv, Join PROVE IInv'
<1> USE KindsApart DEF jitterVars, sleepVars, jobVars
<1>1. /\ main = "wait" /\ joined' = joined + 1
      /\ main' = IF joined' = Len(Kinds) THEN "done" ELSE "join"
      /\ UNCHANGED <<now, running, pc, due, dispatch_sem, base, rem, jitterVars, released, when>>
  BY DEF Join
<1>2. joined \in Nat /\ joined < Len(Kinds) /\ Len(Kinds) \in Nat
  BY <1>1 DEF IInv, TypeInv, PostInv
<1>3. TypeInv'
  <2>1. joined' \in 0..Len(Kinds) /\ main' \in {"sleep", "join", "wait", "done"}
    BY <1>1, <1>2
  <2> QED BY <1>1, <2>1 DEF IInv, TypeInv
<1>4. PostInv'
  <2>1. main' \in {"join", "done"} /\ (main' = "join" => joined' < Len(Kinds)) /\ ~running
    BY <1>1, <1>2 DEF IInv, PostInv
  <2>2. ASSUME NEW d \in Dispatcher, dispatch_sem'[d] = 1 PROVE d <= joined'
    <3>1. d <= joined \/ d = joined + 1
      BY <1>1, <2>2 DEF IInv, PostInv
    <3> QED BY <1>1, <1>2, <3>1
  <2> QED BY <1>1, <2>1, <2>2 DEF PostInv
<1>5. LateInv' /\ SleepsValid'
  BY <1>1, FitsStay DEF IInv, LateInv, SleepsValid, Refused, Normal
<1>6. ASSUME NEW d \in Periodics PROVE OnTime(d)'
  <2>1. OnTime(d)
    BY DEF IInv, PeriodicInv
  <2>2. Nanos(base[d])' = Nanos(base[d]) /\ Nanos(rem[d])' = Nanos(rem[d])
    BY <1>1 DEF Nanos
  <2> QED BY <1>1, <2>1, <2>2 DEF OnTime, P, Nanos, Instant
<1>7. ASSUME NEW d \in Jitters, d \notin refused' PROVE Telescopes(d)'
  <2>1. Telescopes(d)
    BY <1>1, <1>7 DEF IInv, JitterInv
  <2> QED BY <1>1, <2>1 DEF Telescopes, P, Q, Nanos
<1>8. DeltaInv'
  BY <1>1, FitsStay DEF IInv, DeltaInv
<1> QED BY <1>3, <1>4, <1>5, <1>6, <1>7, <1>8 DEF IInv, PeriodicInv, JitterInv

(* The post shortens a wait only after the run. *)
LEMMA PostKeeps == ASSUME IInv, Post PROVE IInv'
<1> USE KindsApart DEF jitterVars, jobVars
<1> DEFINE p == joined + 1
<1>1. /\ main = "join" /\ main' = "wait"
      /\ dispatch_sem' = [dispatch_sem EXCEPT ![p] = @ + 1]
      /\ due' = IF p \in Periodics /\ pc[p] = "asleep" /\ now < due[p]
                THEN [due EXCEPT ![p] = now] ELSE due
      /\ UNCHANGED <<now, running, joined, pc, base, rem, jitterVars, released, when>>
  BY DEF Post
<1>2. /\ joined \in Nat /\ joined < Len(Kinds) /\ Len(Kinds) \in Nat /\ p \in Dispatcher
      /\ ~running /\ now \in Nat /\ MaxLate \in Nat
  BY <1>1, Lengths DEF IInv, TypeInv, PostInv
<1>3. dispatch_sem[p] = 0
  <2>1. dispatch_sem[p] \in {0, 1}
    BY <1>2 DEF IInv, TypeInv
  <2>2. dispatch_sem[p] # 1
    BY <1>1, <1>2 DEF IInv, PostInv
  <2> QED BY <2>1, <2>2
<1>4. due' \in [Dispatcher -> Nat] /\ dispatch_sem' \in [Dispatcher -> {0, 1}]
  <2>1. due' \in [Dispatcher -> Nat]
    BY <1>1, <1>2 DEF IInv, TypeInv
  <2>2. dispatch_sem' = [dispatch_sem EXCEPT ![p] = 1]
    BY <1>1, <1>3
  <2> QED BY <2>1, <2>2 DEF IInv, TypeInv
<1>5. ASSUME NEW d \in Dispatcher
      PROVE  \/ due'[d] = due[d]
             \/ due'[d] = now /\ now < due[d] /\ pc[d] = "asleep" /\ d \in Periodics
  BY <1>1, <1>2 DEF IInv, TypeInv
<1>6. TypeInv'
  BY <1>1, <1>2, <1>4 DEF IInv, TypeInv
<1>7. PostInv'
  <2>1. ASSUME NEW d \in Dispatcher, dispatch_sem'[d] = 1 PROVE d <= joined \/ d = p
    <3>1. CASE d # p
      <4>1. dispatch_sem'[d] = dispatch_sem[d]
        BY <1>1, <3>1 DEF IInv, TypeInv
      <4> QED BY <1>1, <2>1, <4>1 DEF IInv, PostInv
    <3> QED BY <3>1
  <2> QED BY <1>1, <1>2, <2>1 DEF PostInv
<1>8. LateInv'
  <2>1. ASSUME NEW d \in Dispatcher, pc[d] # "exit" PROVE now <= due'[d] + MaxLate
    BY <1>2, <1>5, <2>1 DEF IInv, LateInv
  <2> QED BY <1>1, <2>1 DEF LateInv
<1>9. SleepsValid'
  BY <1>1, FitsStay DEF IInv, SleepsValid, Refused, Normal
<1>10. ASSUME NEW d \in Periodics PROVE OnTime(d)'
  <2>1. OnTime(d) /\ due[d] \in Nat /\ d \in Dispatcher
    BY DEF IInv, PeriodicInv, TypeInv
  <2>2. Nanos(base[d])' = Nanos(base[d]) /\ Nanos(rem[d])' = Nanos(rem[d])
    BY <1>1 DEF Nanos
  <2>3. CASE due'[d] = due[d]
    BY <1>1, <2>1, <2>2, <2>3 DEF OnTime, P, Nanos, Instant
  <2>4. CASE due'[d] = now /\ now < due[d] /\ pc[d] = "asleep"
    <3> DEFINE B == Nanos(base[d])
               n == released[d]
    <3>1. /\ n > 0 /\ B - (n - 1) * P \in 0..MaxLate
          /\ rem[d] \in Instant /\ Nanos(rem[d]) = B + P /\ due[d] <= B + P
          /\ when[d] - (n - 1) * P \in 0..(2 * MaxLate)
      BY <2>1, <2>4 DEF OnTime
    <3>2. B \in Nat /\ P \in Nat
      BY Instants, Lengths DEF IInv, TypeInv
    <3> HIDE DEF B
    <3>3. due'[d] <= B + P
      BY <1>2, <2>1, <2>4, <3>1, <3>2, SMT
    <3>4. Nanos(base[d])' = B /\ Nanos(rem[d])' = B + P
      BY <2>2, <3>1 DEF B
    <3>5. (rem[d] \in Instant)' /\ ~running' /\ pc'[d] = "asleep"
      BY <1>1, <1>2, <2>4, <3>1 DEF Instant
    <3> QED BY <1>1, <3>1, <3>3, <3>4, <3>5 DEF OnTime
  <2> QED BY <1>5, <2>1, <2>3, <2>4
<1>11. ASSUME NEW d \in Jitters, d \notin refused' PROVE Telescopes(d)'
  <2>1. Telescopes(d) /\ due'[d] = due[d]
    BY <1>1, <1>5, <1>11 DEF IInv, JitterInv
  <2> QED BY <1>1, <2>1 DEF Telescopes, P, Q, Nanos
<1>12. DeltaInv'
  BY <1>1, FitsStay DEF IInv, DeltaInv
<1> QED BY <1>6, <1>7, <1>8, <1>9, <1>10, <1>11, <1>12 DEF IInv, PeriodicInv, JitterInv

LEMMA TickKeeps == ASSUME IInv, Tick PROVE IInv'
<1> USE KindsApart DEF jitterVars, mainVars, sleepVars, jobVars
<1>1. /\ now' = now + 1 /\ \A d \in Dispatcher : pc[d] # "exit" => now < due[d] + MaxLate
      /\ UNCHANGED <<running, main, joined, pc, due, dispatch_sem, base, rem, jitterVars,
                     released, when>>
  BY DEF Tick
<1>2. now \in Nat /\ MaxLate \in Nat
  BY Lengths DEF IInv, TypeInv
<1>3. TypeInv'
  BY <1>1, <1>2 DEF IInv, TypeInv
<1>4. PostInv'
  BY <1>1 DEF IInv, PostInv
<1>5. LateInv'
  <2>1. \A d \in Dispatcher : due[d] \in Nat
    BY DEF IInv, TypeInv
  <2> QED BY <1>1, <1>2, <2>1 DEF LateInv
<1>6. SleepsValid'
  BY <1>1, FitsStay DEF IInv, SleepsValid, Refused, Normal
<1>7. ASSUME NEW d \in Periodics PROVE OnTime(d)'
  <2> DEFINE B == Nanos(base[d])
  <2>1. OnTime(d) /\ B \in Nat
    BY Instants DEF IInv, PeriodicInv, TypeInv
  <2>2. Nanos(base[d])' = Nanos(base[d]) /\ Nanos(rem[d])' = Nanos(rem[d])
    BY <1>1 DEF Nanos
  <2>3. B <= now => B <= now'
    <3> HIDE DEF B
    <3> QED BY <1>1, <1>2, <2>1
  <2> QED BY <1>1, <2>1, <2>2, <2>3 DEF OnTime, P, Nanos, Instant
<1>8. ASSUME NEW d \in Jitters, d \notin refused' PROVE Telescopes(d)'
  <2>1. Telescopes(d) /\ due[d] \in Nat
    BY <1>1, <1>8 DEF IInv, JitterInv, TypeInv
  <2>2. due[d] <= now => due[d] <= now'
    BY <1>1, <1>2, <2>1
  <2> QED BY <1>1, <2>1, <2>2 DEF Telescopes, P, Q, Nanos
<1>9. DeltaInv'
  BY <1>1, FitsStay DEF IInv, DeltaInv
<1> QED BY <1>3, <1>4, <1>5, <1>6, <1>7, <1>8, <1>9 DEF IInv, PeriodicInv, JitterInv

LEMMA StutterKeeps == ASSUME IInv, UNCHANGED vars PROVE IInv'
<1>1. UNCHANGED <<now, running, main, joined, pc, due, dispatch_sem, base, rem, deltaPeriod,
                  refused, released, when>>
  BY DEF vars, mainVars, sleepVars, jitterVars, jobVars
<1>2. TypeInv' /\ PostInv' /\ LateInv' /\ SleepsValid'
  BY <1>1, FitsStay DEF IInv, TypeInv, PostInv, LateInv, SleepsValid, Refused, Normal
<1>3. ASSUME NEW d \in Periodics PROVE OnTime(d)'
  <2>1. OnTime(d)
    BY DEF IInv, PeriodicInv
  <2> QED BY <1>1, <2>1 DEF OnTime, P, Nanos, Instant
<1>4. ASSUME NEW d \in Jitters, d \notin refused' PROVE Telescopes(d)'
  <2>1. Telescopes(d)
    BY <1>1, <1>4 DEF IInv, JitterInv
  <2> QED BY <1>1, <2>1 DEF Telescopes, P, Q, Nanos
<1>5. DeltaInv'
  BY <1>1, FitsStay DEF IInv, DeltaInv
<1> QED BY <1>2, <1>3, <1>4, <1>5 DEF IInv, PeriodicInv, JitterInv

LEMMA Inductive == Spec => []IInv
<1>1. Init => IInv
  BY InitInv
<1>2. IInv /\ [Next]_vars => IInv'
  BY DispatcherKeeps, EndRunKeeps, PostKeeps, JoinKeeps, TickKeeps, StutterKeeps
     DEF Next, MainStep, Terminated
<1> QED BY <1>1, <1>2, PTL DEF Spec

-----------------------------------------------------------------------------
(* What follows from the invariant *)

(* The types of all variables hold in every run. *)
THEOREM TypeCorrect == Spec => []TypeOK
<1>1. TypeInv => TypeOK
  <2> SUFFICES ASSUME TypeInv PROVE TypeOK
    OBVIOUS
  <2>1. base \in [Periodics -> Timespec]
    BY Instants DEF TypeInv
  <2>2. deltaPeriod \in [Jitters -> Timespec]
    BY DEF TypeInv, Deltas
  <2> QED BY <2>1, <2>2 DEF TypeInv, TypeOK
<1> QED BY <1>1, Inductive, PTL DEF IInv

(* However late each release is (Periodic::dispatch waits for now + period),*)
(* the n-th is at most twice the lateness after n-1 periods.                *)
THEOREM PeriodicKeepsTime == Spec => []PeriodicOnTime
<1>1. PeriodicInv => PeriodicOnTime
  BY DEF PeriodicInv, OnTime, PeriodicOnTime, P
<1> QED BY <1>1, Inductive, PTL DEF IInv

(* The random parts that PeriodicJitter sleeps do not add up: deltaPeriod   *)
(* takes back all but the last.  This is so for all periods, jitters and    *)
(* percentages, up to the first sleep that nanosleep refuses.               *)
THEOREM JitterKeepsTime == Spec => []JitterTelescopes
<1>1. ASSUME JitterInv, TypeInv PROVE JitterTelescopes
  <2> SUFFICES ASSUME NEW d \in Jitters \ refused, pc[d] = "asleep"
               PROVE  due[d] - (released[d] * P + Nanos(deltaPeriod[d]) - Q)
                        \in 0..(released[d] * MaxLate)
    BY DEF JitterTelescopes, P, Q
  <2>1. due[d] - (released[d] * P + (Nanos(deltaPeriod[d]) - Q)) \in 0..(released[d] * MaxLate)
    BY <1>1 DEF JitterInv, Telescopes
  <2>2. P \in Nat /\ Q \in Nat /\ released[d] \in Nat
    BY <1>1, Lengths, KindsApart DEF TypeInv
  <2>3. Nanos(deltaPeriod[d]) \in Int
    BY <1>1, Instants DEF TypeInv, Deltas
  <2>4. released[d] * P \in Nat
    BY <2>2
  <2> DEFINE D == Nanos(deltaPeriod[d])
             X == released[d] * P
  <2> HIDE DEF D, X
  <2>5. X + (D - Q) = X + D - Q
    BY <2>2, <2>3, <2>4, SMT DEF D, X
  <2> QED BY <2>1, <2>5 DEF D, X
<1> QED BY <1>1, Inductive, PTL DEF IInv

(* No dispatcher whose lengths of time fit asks nanosleep or sem_timedwait  *)
(* for a time they refuse; of a Periodic all lengths do.                    *)
THEOREM SleepsAreValid == Spec => []SleepsValid
BY Inductive, PTL DEF IInv

-----------------------------------------------------------------------------
(* The end of the run *)

T == Nanos(duration)

(* When the first sleep of a dispatcher has ended, and every one after which *)
(* it may sleep again, but for lateness: an Aperiodic may be released after  *)
(* the run.                                                                  *)
Latest(d) == IF d \in Aperiodics /\ Duration < ReleaseTime THEN Nanos(releaseTime) ELSE T

(* The main thread ends the run in time, but for its own lateness. *)
RunInv ==
  /\ running => now <= T + MaxLate
  /\ ~running => T <= now

(* A sleep is begun only by a dispatcher whose last one ended in the run,   *)
(* so what is slept for after the run is one sleep of each.                 *)
Bounded(d) ==
  /\ pc[d] = "start" => due[d] = 0
  /\ pc[d] \in {"test", "release", "sleep"} => due[d] <= now
  /\ pc[d] \in {"release", "sleep"} => due[d] <= Latest(d) + MaxLate
  /\ pc[d] \in {"test", "asleep"} => due[d] <= T + Overtime(d) + 2 * MaxLate

(* An Aperiodic releases after its first sleep, and no more. *)
ReleasedOnce(d) ==
  /\ pc[d] \in {"start", "release"} => released[d] = 0
  /\ pc[d] \in {"sleep", "test", "exit"} => released[d] = 1
  /\ pc[d] = "asleep" => \/ released[d] = 1
                         \/ released[d] = 0 /\ due[d] <= Latest(d) + MaxLate

(* A Periodic goes to a release only from a test in the run, and leaves its *)
(* loop only from one after it.                                             *)
ReleasedInRun(d) ==
  /\ (released[d] - 1) * P <= T + MaxLate
  /\ pc[d] = "release" => released[d] * P <= T + MaxLate
  /\ pc[d] = "exit" => T <= released[d] * P + 2 * MaxLate

(* Whom main has joined has ended. *)
JoinedInv ==
  /\ \A d \in Dispatcher : d <= joined => pc[d] = "exit"
  /\ main = "done" => joined = Len(Kinds)

BoundedInv  == \A d \in Dispatcher : Bounded(d)
ReleasedInv == /\ \A d \in Aperiodics : ReleasedOnce(d)
               /\ \A d \in Periodics : ReleasedInRun(d)

EndInv == RunInv /\ BoundedInv /\ ReleasedInv /\ JoinedInv

(* How long a dispatcher may sleep is a length of time. *)
LEMMA Overtimes ==
  /\ T \in Nat /\ MaxLate \in Nat /\ P \in Nat /\ J \in Nat /\ Nanos(releaseTime) \in Nat
  /\ \A d \in Dispatcher : /\ Overtime(d) \in Nat /\ Latest(d) \in Nat
                           /\ T <= Latest(d) /\ Latest(d) <= T + Overtime(d)
  /\ \A d \in Periodics : Overtime(d) = P /\ Latest(d) = T
  /\ \A d \in Jitters : Overtime(d) = P + 2 * J /\ Latest(d) = T
  /\ \A d \in Aperiodics : /\ Nanos(releaseTime) <= Latest(d)
                           /\ Latest(d) - Nanos(releaseTime) <= Overtime(d)
<1> USE KindsApart
<1> DEFINE R == Nanos(releaseTime)
<1>1. P \in Nat /\ J \in Nat /\ MaxLate \in Nat
  BY Lengths
<1>2. T \in Nat /\ R \in Nat
  BY AperiodicSleeps, Instants DEF T
<1>3. /\ ReleaseTime \in Nat /\ Duration \in Nat
      /\ ReleaseTime <= Duration => R <= T
      /\ Duration < ReleaseTime => T <= R
  <2>1. ReleaseTime \in Nat /\ Duration \in Nat
    BY DispatcherAssumption
  <2>2. ReleaseTime <= Duration => R <= T
    BY <2>1, MicrosMonotone DEF T, releaseTime, duration
  <2>3. Duration < ReleaseTime => T <= R
    BY <2>1, MicrosMonotone DEF T, releaseTime, duration
  <2> QED BY <2>1, <2>2, <2>3
<1>4. \A d \in Periodics : Overtime(d) = P /\ Latest(d) = T
  BY DEF Overtime, Latest, P
<1>5. \A d \in Jitters : Overtime(d) = P + 2 * J /\ Latest(d) = T
  BY DEF Overtime, Latest, P, J
<1>6. ASSUME NEW d \in Aperiodics
      PROVE  \/ Overtime(d) = T - R /\ Latest(d) = T /\ R <= T
             \/ Overtime(d) = R - T /\ Latest(d) = R /\ T <= R
  <2>1. CASE ReleaseTime <= Duration
    BY <1>3, <2>1 DEF Overtime, Latest, T
  <2>2. CASE Duration < ReleaseTime
    BY <1>3, <2>2 DEF Overtime, Latest, T
  <2> QED BY <1>3, <2>1, <2>2
<1>7. \A d \in Dispatcher : d \in Periodics \/ d \in Jitters \/ d \in Aperiodics
  <2>1. \A d \in Dispatcher : Kinds[d] \in {"periodic", "periodic_jitter", "aperiodic"}
    BY DispatcherAssumption DEF Dispatcher
  <2> QED BY <2>1 DEF Periodics, Jitters, Aperiodics
<1> HIDE DEF R
<1>8. ASSUME NEW d \in Dispatcher
      PROVE  /\ Overtime(d) \in Nat /\ Latest(d) \in Nat
             /\ T <= Latest(d) /\ Latest(d) <= T + Overtime(d)
  BY <1>1, <1>2, <1>4, <1>5, <1>6, <1>7
<1>9. ASSUME NEW d \in Aperiodics
      PROVE  R <= Latest(d) /\ Latest(d) - R <= Overtime(d)
  BY <1>2, <1>6
<1> QED BY <1>1, <1>2, <1>4, <1>5, <1>8, <1>9 DEF R

(* No step changes a length of time. *)
LEMMA LengthsStay ==
  /\ T' = T /\ P' = P
  /\ \A d \in Dispatcher : Overtime(d)' = Overtime(d) /\ Latest(d)' = Latest(d)
BY DEF T, P, Overtime, Latest, Nanos, period, jitter, releaseTime, duration, Micros, Periodics,
       Jitters, Aperiodics, Dispatcher

LEMMA InitEnd == Init => EndInv
<1> SUFFICES ASSUME Init PROVE EndInv
  OBVIOUS
<1> USE KindsApart
<1>1. T \in Nat /\ MaxLate \in Nat /\ P \in Nat
  BY Overtimes
<1>2. RunInv
  BY <1>1 DEF Init, RunInv
<1>3. BoundedInv
  BY DEF Init, BoundedInv, Bounded
<1>4. \A d \in Aperiodics : ReleasedOnce(d)
  BY DEF Init, ReleasedOnce
<1>5. \A d \in Periodics : ReleasedInRun(d)
  <2>1. (0 - 1) * P <= T + MaxLate
    BY <1>1, SMT
  <2> QED BY <2>1 DEF Init, ReleasedInRun
<1>6. JoinedInv
  BY DEF Init, JoinedInv
<1> QED BY <1>2, <1>3, <1>4, <1>5, <1>6 DEF EndInv, ReleasedInv

(* What is left to show of a step of one dispatcher. *)
LEMMA OneEnd ==
  ASSUME IInv, EndInv, NEW e \in Dispatcher, DispatcherStep(e), pc[e] # "exit",
         Bounded(e)', e \in Aperiodics => ReleasedOnce(e)', e \in Periodics => ReleasedInRun(e)'
  PROVE  EndInv'
<1> USE KindsApart, LengthsStay
<1>1. UNCHANGED <<now, running, main, joined>>
  BY MainKept
<1>2. RunInv'
  BY <1>1 DEF EndInv, RunInv
<1>3. ASSUME NEW d \in Dispatcher, d # e
      PROVE  pc'[d] = pc[d] /\ due'[d] = due[d] /\ released'[d] = released[d]
  BY <1>3, OthersKeep
<1>4. ASSUME NEW d \in Dispatcher PROVE Bounded(d)'
  <2>1. CASE d # e
    BY <1>1, <1>3, <2>1 DEF EndInv, BoundedInv, Bounded
  <2> QED BY <2>1
<1>5. ASSUME NEW d \in Aperiodics PROVE ReleasedOnce(d)'
  <2>1. CASE d # e
    BY <1>1, <1>3, <2>1 DEF EndInv, ReleasedInv, ReleasedOnce
  <2> QED BY <2>1
<1>6. ASSUME NEW d \in Periodics PROVE ReleasedInRun(d)'
  <2>1. CASE d # e
    <3>1. ReleasedInRun(d)
      BY DEF EndInv, ReleasedInv
    <3> QED BY <1>1, <1>3, <2>1, <3>1 DEF ReleasedInRun
  <2> QED BY <2>1
<1>7. JoinedInv'
  <2>1. ASSUME NEW d \in Dispatcher, d <= joined PROVE pc'[d] = "exit"
    BY <1>3, <2>1 DEF EndInv, JoinedInv
  <2> QED BY <1>1, <2>1 DEF EndInv, JoinedInv
<1> QED BY <1>2, <1>4, <1>5, <1>6, <1>7 DEF EndInv, BoundedInv, ReleasedInv,
           Aperiodics, Periodics, Dispatcher

(* The facts that the steps below start from. *)
LEMMA EndFacts ==
  ASSUME IInv, EndInv, NEW e \in Dispatcher
  PROVE  /\ T \in Nat /\ MaxLate \in Nat /\ P \in Nat /\ Overtime(e) \in Nat
         /\ Latest(e) \in Nat /\ T <= Latest(e) /\ Latest(e) <= T + Overtime(e)
         /\ now \in Nat /\ due[e] \in Nat /\ released[e] \in Nat
         /\ pc[e] # "exit" => now <= due[e] + MaxLate
         /\ Bounded(e)
         /\ e \in Aperiodics => ReleasedOnce(e)
         /\ e \in Periodics => ReleasedInRun(e)
BY Overtimes DEF IInv, TypeInv, LateInv, EndInv, BoundedInv, ReleasedInv

LEMMA StartEnd == ASSUME IInv, EndInv, NEW e \in Dispatcher, Start(e) PROVE EndInv'
<1> USE KindsApart, LengthsStay DEF mainVars, jobVars
<1>1. pc[e] = "start" /\ UNCHANGED <<now, running, main, joined, released>>
  BY DEF Start
<1>2. /\ T \in Nat /\ MaxLate \in Nat /\ Overtime(e) \in Nat /\ now \in Nat
      /\ Latest(e) \in Nat /\ Latest(e) <= T + Overtime(e)
      /\ due[e] = 0 /\ now <= MaxLate /\ released[e] \in Nat
      /\ e \in Aperiodics => released[e] = 0
      /\ e \in Periodics => ReleasedInRun(e)
  <2>1. /\ T \in Nat /\ MaxLate \in Nat /\ Overtime(e) \in Nat /\ now \in Nat
        /\ Latest(e) \in Nat /\ Latest(e) <= T + Overtime(e) /\ released[e] \in Nat
        /\ now <= due[e] + MaxLate /\ Bounded(e)
        /\ e \in Periodics => ReleasedInRun(e)
    BY <1>1, EndFacts
  <2>2. due[e] = 0
    BY <1>1, <2>1 DEF Bounded
  <2>3. e \in Aperiodics => released[e] = 0
    BY <1>1, EndFacts DEF ReleasedOnce
  <2> QED BY <2>1, <2>2, <2>3
<1>3. e \in Periodics => ReleasedInRun(e)' \/ pc'[e] \in {"release", "exit"}
  BY <1>1, <1>2 DEF ReleasedInRun
<1>4. CASE e \in Aperiodics
  <2>1. Goto(e, "asleep") /\ due' = [due EXCEPT ![e] = SleepUntil(releaseTime)]
    BY <1>4 DEF Start
  <2>2. "asleep" \in Label /\ Nanos(releaseTime) \in Nat /\ Nanos(releaseTime) <= Latest(e)
    BY <1>4, Overtimes DEF Label
  <2>3. pc'[e] = "asleep"
    BY <2>1, <2>2, GotoType
  <2>4. SleepUntil(releaseTime) = now + Nanos(releaseTime)
    BY AperiodicSleeps, Instants DEF SleepUntil
  <2>5. due'[e] = now + Nanos(releaseTime)
    BY <2>1, <2>4 DEF IInv, TypeInv
  <2>6. due'[e] <= Latest(e) + MaxLate /\ due'[e] <= T + Overtime(e) + 2 * MaxLate
    BY <1>2, <2>2, <2>5
  <2>7. Bounded(e)'
    BY <2>3, <2>6 DEF Bounded
  <2>8. ReleasedOnce(e)'
    BY <1>1, <1>2, <1>4, <2>3, <2>6 DEF ReleasedOnce
  <2> QED BY <1>1, <1>4, <2>7, <2>8, OneEnd DEF DispatcherStep
<1>5. CASE e \notin Aperiodics
  <2>1. Goto(e, "test") /\ due' = due /\ "test" \in Label
    BY <1>5 DEF Start, Label
  <2>2. pc'[e] = "test"
    BY <2>1, GotoType
  <2>3. Bounded(e)'
    BY <1>1, <1>2, <2>1, <2>2 DEF Bounded
  <2> QED BY <1>1, <1>3, <1>5, <2>2, <2>3, OneEnd DEF DispatcherStep
<1> QED BY <1>4, <1>5

LEMMA TestEnd == ASSUME IInv, EndInv, NEW e \in Dispatcher, Test(e) PROVE EndInv'
<1> USE KindsApart, LengthsStay DEF mainVars, sleepVars, jobVars
<1>1. /\ pc[e] = "test"
      /\ UNCHANGED <<now, running, main, joined, due, base, released>>
  BY DEF Test
<1>2. PICK l \in {"exit", "sleep", "release"} :
        /\ Goto(e, l)
        /\ l = "exit" <=> ~running
        /\ l = "sleep" => e \in Aperiodics
        /\ l = "release" => e \notin Aperiodics
  BY DEF Test
<1>3. l \in Label
  BY DEF Label
<1>4. pc'[e] = l
  BY <1>2, <1>3, GotoType
<1>5. /\ T \in Nat /\ MaxLate \in Nat /\ P \in Nat /\ now \in Nat /\ due[e] \in Nat
      /\ released[e] \in Nat /\ now <= due[e] + MaxLate /\ due[e] <= now
      /\ Latest(e) \in Nat /\ T <= Latest(e)
      /\ e \in Aperiodics => released[e] = 1
      /\ e \in Periodics => (released[e] - 1) * P <= T + MaxLate
  BY <1>1, EndFacts DEF Bounded, ReleasedOnce, ReleasedInRun
<1>6. running => now <= T + MaxLate
  BY DEF EndInv, RunInv
<1>7. ~running => T <= now
  BY DEF EndInv, RunInv
<1>8. Bounded(e)'
  BY <1>1, <1>2, <1>4, <1>5, <1>6 DEF Bounded
<1>9. ASSUME e \in Aperiodics PROVE ReleasedOnce(e)'
  BY <1>1, <1>2, <1>4, <1>5, <1>9 DEF ReleasedOnce
<1>10. ASSUME e \in Periodics PROVE ReleasedInRun(e)'
  <2> DEFINE B == Nanos(base[e])
             X == released[e] * P
  <2>1. B - X \in 0..MaxLate /\ due[e] <= B /\ (running => B <= now)
    BY <1>1, <1>10 DEF IInv, PeriodicInv, OnTime
  <2>2. B \in Nat /\ X \in Nat
    BY <1>5, <1>10, Instants DEF IInv, TypeInv
  <2> HIDE DEF B, X
  <2>3. running => X <= T + MaxLate
    BY <1>5, <1>6, <2>1, <2>2, SMT
  <2>4. ~running => T <= X + 2 * MaxLate
    BY <1>5, <1>7, <2>1, <2>2, SMT
  <2>5. l \in {"exit", "release"}
    BY <1>2, <1>10
  <2>6. (released[e] * P)' = X
    BY <1>1 DEF X
  <2>7. ((released[e] - 1) * P <= T + MaxLate)'
    BY <1>1, <1>5, <1>10
  <2>8. (pc[e] = "release" => released[e] * P <= T + MaxLate)'
    BY <1>2, <1>4, <2>3, <2>5, <2>6
  <2>9. (pc[e] = "exit" => T <= released[e] * P + 2 * MaxLate)'
    BY <1>2, <1>4, <2>4, <2>5, <2>6
  <2> QED BY <2>7, <2>8, <2>9 DEF ReleasedInRun
<1> QED BY <1>1, <1>8, <1>9, <1>10, OneEnd DEF DispatcherStep

LEMMA ReleaseEnd == ASSUME IInv, EndInv, NEW e \in Dispatcher, Release(e) PROVE EndInv'
<1> USE KindsApart, LengthsStay DEF mainVars, sleepVars
<1>1. /\ pc[e] = "release" /\ Goto(e, "sleep")
      /\ UNCHANGED <<now, running, main, joined, due>>
      /\ released' = [released EXCEPT ![e] = @ + 1]
  BY DEF Release
<1>2. pc'[e] = "sleep" /\ released'[e] = released[e] + 1
  <2>1. "sleep" \in Label
    BY DEF Label
  <2> QED BY <1>1, <2>1, GotoType DEF IInv, TypeInv
<1>3. /\ released[e] \in Nat /\ due[e] <= now /\ due[e] <= Latest(e) + MaxLate
      /\ e \in Aperiodics => released[e] = 0
      /\ e \in Periodics => released[e] * P <= T + MaxLate
  BY <1>1, EndFacts DEF Bounded, ReleasedOnce, ReleasedInRun
<1>4. Bounded(e)'
  BY <1>1, <1>2, <1>3 DEF Bounded
<1>5. e \in Aperiodics => ReleasedOnce(e)'
  BY <1>2, <1>3 DEF ReleasedOnce
<1>6. ASSUME e \in Periodics PROVE ReleasedInRun(e)'
  <2>1. released'[e] - 1 = released[e]
    BY <1>2, <1>3
  <2> QED BY <1>2, <1>3, <1>6, <2>1 DEF ReleasedInRun
<1> QED BY <1>1, <1>4, <1>5, <1>6, OneEnd DEF DispatcherStep

LEMMA WakeEnd == ASSUME IInv, EndInv, NEW e \in Dispatcher, Wake(e) PROVE EndInv'
<1> USE KindsApart, LengthsStay DEF mainVars, jobVars
<1>1. /\ pc[e] = "asleep" /\ now >= due[e]
      /\ UNCHANGED <<now, running, main, joined, due, released>>
  BY DEF Wake
<1>2. PICK l \in {"test", "release"} :
        Goto(e, l) /\ (l = "release" <=> e \in Aperiodics /\ released[e] = 0)
  BY DEF Wake
<1>3. pc'[e] = l
  <2>1. l \in Label
    BY DEF Label
  <2> QED BY <1>2, <2>1, GotoType
<1>4. /\ now \in Nat /\ due[e] \in Nat /\ due[e] <= T + Overtime(e) + 2 * MaxLate
      /\ e \in Aperiodics => released[e] = 1 \/ (released[e] = 0 /\ due[e] <= Latest(e) + MaxLate)
      /\ e \in Periodics => ReleasedInRun(e)
  BY <1>1, EndFacts DEF Bounded, ReleasedOnce
<1>5. Bounded(e)'
  BY <1>1, <1>2, <1>3, <1>4 DEF Bounded
<1>6. e \in Aperiodics => ReleasedOnce(e)'
  BY <1>1, <1>2, <1>3, <1>4 DEF ReleasedOnce
<1>7. e \in Periodics => ReleasedInRun(e)'
  BY <1>1, <1>2, <1>3, <1>4 DEF ReleasedInRun
<1> QED BY <1>1, <1>5, <1>6, <1>7, OneEnd DEF DispatcherStep

LEMMA PeriodicSleepEnd ==
  ASSUME IInv, EndInv, NEW e \in Dispatcher, PeriodicSleep(e) PROVE EndInv'
<1> USE KindsApart, LengthsStay DEF mainVars, jobVars
<1> DEFINE target == Plus(base[e], period)
           B == Nanos(base[e])
<1>1. /\ pc[e] = "sleep" /\ e \in Periodics /\ Goto(e, "asleep")
      /\ due' = [due EXCEPT ![e] = WaitUntil(e, target)]
      /\ UNCHANGED <<now, running, main, joined, released>>
  BY DEF PeriodicSleep
<1>2. pc'[e] = "asleep" /\ due'[e] = WaitUntil(e, target)
  <2>1. "asleep" \in Label
    BY DEF Label
  <2> QED BY <1>1, <2>1, GotoType DEF IInv, TypeInv
<1>3. base[e] \in Instant /\ period \in Instant
  BY <1>1, DispatcherAssumption, MicrosCounts DEF IInv, TypeInv, period
<1>4. Nanos(target) = B + P /\ B \in Nat /\ B <= now
  BY <1>1, <1>3, PlusAdds, Instants DEF P, IInv, PeriodicInv, OnTime
<1>5. /\ T \in Nat /\ MaxLate \in Nat /\ P \in Nat /\ now \in Nat /\ due[e] \in Nat
      /\ Overtime(e) = P /\ now <= due[e] + MaxLate /\ due[e] <= T + MaxLate
      /\ ReleasedInRun(e)
  BY <1>1, EndFacts, Overtimes DEF Bounded
<1> HIDE DEF target, B
<1>6. WaitUntil(e, target) <= T + Overtime(e) + 2 * MaxLate
  BY <1>4, <1>5, SMT DEF WaitUntil
<1>7. Bounded(e)'
  BY <1>2, <1>6 DEF Bounded
<1>8. ReleasedInRun(e)'
  BY <1>1, <1>2, <1>5 DEF ReleasedInRun
<1> QED BY <1>1, <1>7, <1>8, OneEnd DEF DispatcherStep

LEMMA JitterSleepEnd ==
  ASSUME IInv, EndInv, NEW e \in Dispatcher, JitterSleep(e) PROVE EndInv'
<1> USE KindsApart, LengthsStay DEF mainVars, jobVars
<1>1. /\ pc[e] = "sleep" /\ e \in Jitters /\ Goto(e, "asleep")
      /\ UNCHANGED <<now, running, main, joined, released>>
  BY DEF JitterSleep
<1>2. PICK k \in Percents : due' = [due EXCEPT ![e] = SleepUntil(NewPeriod(k, deltaPeriod[e]))]
  BY DEF JitterSleep
<1> DEFINE s == Nanos(NewPeriod(k, deltaPeriod[e]))
<1>3. deltaPeriod[e] \in Deltas
  BY <1>1 DEF IInv, TypeInv
<1>4. s <= P + 2 * J /\ s \in Int /\ NewPeriod(k, deltaPeriod[e]) \in Timespec
  BY <1>3, NewPeriodTelescopes, Instants
<1>5. due'[e] = now \/ due'[e] = now + s
  <2>1. \/ SleepUntil(NewPeriod(k, deltaPeriod[e])) = now
        \/ SleepUntil(NewPeriod(k, deltaPeriod[e])) = now + s
    BY <1>4, SleepsOn DEF IInv, TypeInv
  <2> QED BY <1>2, <2>1 DEF IInv, TypeInv
<1>6. pc'[e] = "asleep"
  <2>1. "asleep" \in Label
    BY DEF Label
  <2> QED BY <1>1, <2>1, GotoType
<1>7. /\ T \in Nat /\ MaxLate \in Nat /\ P \in Nat /\ J \in Nat /\ now \in Nat /\ due[e] \in Nat
      /\ Overtime(e) = P + 2 * J /\ now <= due[e] + MaxLate /\ due[e] <= T + MaxLate
  BY <1>1, EndFacts, Overtimes DEF Bounded
<1> HIDE DEF s
<1>8. due'[e] <= T + Overtime(e) + 2 * MaxLate
  BY <1>4, <1>5, <1>7
<1>9. Bounded(e)'
  BY <1>6, <1>8 DEF Bounded
<1> QED BY <1>1, <1>9, OneEnd DEF DispatcherStep

LEMMA JitterSkipEnd ==
  ASSUME IInv, EndInv, NEW e \in Dispatcher, JitterSkip(e) PROVE EndInv'
<1> USE KindsApart, LengthsStay DEF mainVars, sleepVars, jobVars
<1>1. /\ pc[e] = "sleep" /\ e \in Jitters /\ Goto(e, "test")
      /\ UNCHANGED <<now, running, main, joined, due, released>>
  BY DEF JitterSkip
<1>2. pc'[e] = "test"
  <2>1. "test" \in Label
    BY DEF Label
  <2> QED BY <1>1, <2>1, GotoType
<1>3. /\ T \in Nat /\ MaxLate \in Nat /\ Overtime(e) \in Nat /\ due[e] \in Nat
      /\ due[e] <= now /\ due[e] <= T + MaxLate
  BY <1>1, EndFacts, Overtimes DEF Bounded
<1>4. Bounded(e)'
  BY <1>1, <1>2, <1>3 DEF Bounded
<1> QED BY <1>1, <1>4, OneEnd DEF DispatcherStep

LEMMA AperiodicSleepEnd ==
  ASSUME IInv, EndInv, NEW e \in Dispatcher, AperiodicSleep(e) PROVE EndInv'
<1> USE KindsApart, LengthsStay DEF mainVars, jobVars
<1>1. /\ pc[e] = "sleep" /\ e \in Aperiodics /\ Goto(e, "asleep")
      /\ due' = [due EXCEPT ![e] = SleepUntil(Remainder)]
      /\ UNCHANGED <<now, running, main, joined, released>>
  BY DEF AperiodicSleep
<1>2. pc'[e] = "asleep"
  <2>1. "asleep" \in Label
    BY DEF Label
  <2> QED BY <1>1, <2>1, GotoType
<1> DEFINE R == Nanos(releaseTime)
<1>3. due'[e] = now \/ due'[e] = now + (T - R)
  <2>1. SleepUntil(Remainder) = now \/ SleepUntil(Remainder) = now + (T - R)
    BY AperiodicSleeps, SleepsOn DEF T, IInv, TypeInv
  <2> QED BY <1>1, <2>1 DEF IInv, TypeInv
<1>4. /\ T \in Nat /\ MaxLate \in Nat /\ now \in Nat /\ due[e] \in Nat /\ released[e] = 1
      /\ R \in Nat /\ Overtime(e) \in Nat /\ Latest(e) \in Nat
      /\ T <= Latest(e) /\ Latest(e) <= T + Overtime(e) /\ Latest(e) - R <= Overtime(e)
      /\ now <= due[e] + MaxLate /\ due[e] <= Latest(e) + MaxLate
  BY <1>1, EndFacts, Overtimes DEF Bounded, ReleasedOnce
<1> HIDE DEF R
<1>5. due'[e] <= T + Overtime(e) + 2 * MaxLate
  BY <1>3, <1>4
<1>6. Bounded(e)' /\ ReleasedOnce(e)'
  BY <1>1, <1>2, <1>4, <1>5 DEF Bounded, ReleasedOnce
<1> QED BY <1>1, <1>6, OneEnd DEF DispatcherStep

LEMMA EndRunEnd == ASSUME IInv, EndInv, EndRun PROVE EndInv'
<1> USE KindsApart, LengthsStay DEF sleepVars, jobVars
<1>1. /\ main = "sleep" /\ running' = FALSE /\ main' = "join" /\ T <= now
      /\ UNCHANGED <<now, joined, pc, due, released>>
  <2>1. now >= Nanos(duration) /\ now \in Nat /\ T \in Nat
    BY Overtimes DEF EndRun, IInv, TypeInv
  <2> QED BY <2>1 DEF EndRun, T
<1>2. RunInv'
  BY <1>1 DEF RunInv
<1>3. ASSUME NEW d \in Dispatcher PROVE Bounded(d)'
  BY <1>1 DEF EndInv, BoundedInv, Bounded
<1>4. ASSUME NEW d \in Aperiodics PROVE ReleasedOnce(d)'
  BY <1>1 DEF EndInv, ReleasedInv, ReleasedOnce
<1>5. ASSUME NEW d \in Periodics PROVE ReleasedInRun(d)'
  BY <1>1 DEF EndInv, ReleasedInv, ReleasedInRun
<1>6. JoinedInv'
  BY <1>1 DEF EndInv, JoinedInv
<1> QED BY <1>2, <1>3, <1>4, <1>5, <1>6
        DEF EndInv, BoundedInv, ReleasedInv, Aperiodics, Periodics, Dispatcher

(* A wait that the post shortens ends now. *)
LEMMA PostEnd == ASSUME IInv, EndInv, Post PROVE EndInv'
<1> USE KindsApart, LengthsStay DEF jobVars
<1> DEFINE p == joined + 1
<1>1. /\ main = "join" /\ main' = "wait"
      /\ due' = IF p \in Periodics /\ pc[p] = "asleep" /\ now < due[p]
                THEN [due EXCEPT ![p] = now] ELSE due
      /\ UNCHANGED <<now, running, joined, pc, released>>
  BY DEF Post
<1>2. RunInv'
  BY <1>1 DEF EndInv, RunInv
<1>3. ASSUME NEW d \in Dispatcher
      PROVE  due'[d] = due[d] \/ (due'[d] = now /\ now < due[d] /\ pc[d] = "asleep" /\ d \in Periodics)
  BY <1>1 DEF IInv, TypeInv
<1>4. ASSUME NEW d \in Dispatcher PROVE Bounded(d)'
  <2>1. Bounded(d) /\ now \in Nat /\ due[d] \in Nat /\ T + Overtime(d) + 2 * MaxLate \in Nat
    <3>1. T \in Nat /\ Overtime(d) \in Nat /\ MaxLate \in Nat
      BY Overtimes
    <3> QED BY <3>1, EndFacts
  <2>2. CASE due'[d] = due[d]
    BY <1>1, <2>1, <2>2 DEF Bounded
  <2>3. CASE due'[d] = now /\ now < due[d] /\ pc[d] = "asleep"
    BY <1>1, <2>1, <2>3 DEF Bounded
  <2> QED BY <1>3, <2>2, <2>3
<1>5. ASSUME NEW d \in Aperiodics PROVE ReleasedOnce(d)'
  <2>1. due'[d] = due[d]
    BY <1>3
  <2> QED BY <1>1, <2>1 DEF EndInv, ReleasedInv, ReleasedOnce
<1>6. ASSUME NEW d \in Periodics PROVE ReleasedInRun(d)'
  BY <1>1 DEF EndInv, ReleasedInv, ReleasedInRun
<1>7. JoinedInv'
  BY <1>1 DEF EndInv, JoinedInv
<1> QED BY <1>2, <1>4, <1>5, <1>6, <1>7
        DEF EndInv, BoundedInv, ReleasedInv, Aperiodics, Periodics, Dispatcher

LEMMA JoinEnd == ASSUME IInv, EndInv, Join PROVE EndInv'
<1> USE KindsApart, LengthsStay DEF sleepVars, jobVars
<1>1. /\ main = "wait" /\ pc[joined + 1] = "exit" /\ joined' = joined + 1
      /\ main' = IF joined' = Len(Kinds) THEN "done" ELSE "join"
      /\ UNCHANGED <<now, running, pc, due, released>>
  BY DEF Join
<1>2. RunInv'
  BY <1>1 DEF EndInv, RunInv
<1>3. ASSUME NEW d \in Dispatcher PROVE Bounded(d)'
  BY <1>1 DEF EndInv, BoundedInv, Bounded
<1>4. ASSUME NEW d \in Aperiodics PROVE ReleasedOnce(d)'
  BY <1>1 DEF EndInv, ReleasedInv, ReleasedOnce
<1>5. ASSUME NEW d \in Periodics PROVE ReleasedInRun(d)'
  BY <1>1 DEF EndInv, ReleasedInv, ReleasedInRun
<1>6. JoinedInv'
  <2>1. joined \in Nat /\ Len(Kinds) \in Nat
    BY DEF IInv, TypeInv
  <2>2. ASSUME NEW d \in Dispatcher, d <= joined' PROVE pc'[d] = "exit"
    <3>1. d <= joined \/ d = joined + 1
      BY <1>1, <2>1, <2>2
    <3> QED BY <1>1, <3>1 DEF EndInv, JoinedInv
  <2> QED BY <1>1, <2>2 DEF JoinedInv
<1> QED BY <1>2, <1>3, <1>4, <1>5, <1>6
        DEF EndInv, BoundedInv, ReleasedInv, Aperiodics, Periodics, Dispatcher

LEMMA TickEnd == ASSUME IInv, EndInv, Tick PROVE EndInv'
<1> USE KindsApart, LengthsStay DEF mainVars, sleepVars, jobVars
<1>1. /\ now' = now + 1 /\ (main = "sleep" => now < T + MaxLate)
      /\ UNCHANGED <<running, main, joined, pc, due, released>>
  BY DEF Tick, T
<1>2. now \in Nat /\ T \in Nat /\ MaxLate \in Nat /\ (running <=> main = "sleep")
  BY Overtimes DEF IInv, TypeInv, PostInv
<1>3. RunInv'
  BY <1>1, <1>2 DEF EndInv, RunInv
<1>4. ASSUME NEW d \in Dispatcher PROVE Bounded(d)'
  <2>1. Bounded(d) /\ due[d] \in Nat
    BY EndFacts
  <2>2. due[d] <= now => due[d] <= now'
    BY <1>1, <1>2, <2>1
  <2> QED BY <1>1, <2>1, <2>2 DEF Bounded
<1>5. ASSUME NEW d \in Aperiodics PROVE ReleasedOnce(d)'
  BY <1>1 DEF EndInv, ReleasedInv, ReleasedOnce
<1>6. ASSUME NEW d \in Periodics PROVE ReleasedInRun(d)'
  BY <1>1 DEF EndInv, ReleasedInv, ReleasedInRun
<1>7. JoinedInv'
  BY <1>1 DEF EndInv, JoinedInv
<1> QED BY <1>3, <1>4, <1>5, <1>6, <1>7
        DEF EndInv, BoundedInv, ReleasedInv, Aperiodics, Periodics, Dispatcher

LEMMA StutterEnd == ASSUME EndInv, UNCHANGED vars PROVE EndInv'
<1> USE LengthsStay
<1>1. UNCHANGED <<now, running, main, joined, pc, due, released>>
  BY DEF vars, mainVars, sleepVars, jobVars
<1>2. RunInv' /\ JoinedInv'
  BY <1>1 DEF EndInv, RunInv, JoinedInv, Dispatcher
<1>3. BoundedInv'
  BY <1>1 DEF EndInv, BoundedInv, Bounded, Dispatcher
<1>4. ReleasedInv'
  BY <1>1 DEF EndInv, ReleasedInv, ReleasedOnce, ReleasedInRun, Aperiodics, Periodics, Dispatcher
<1> QED BY <1>2, <1>3, <1>4 DEF EndInv

LEMMA EndInductive == Spec => []EndInv
<1>1. Init => EndInv
  BY InitEnd
<1>2. IInv /\ EndInv /\ [Next]_vars => EndInv'
  BY StartEnd, TestEnd, ReleaseEnd, WakeEnd, PeriodicSleepEnd, JitterSleepEnd, JitterSkipEnd,
     AperiodicSleepEnd, EndRunEnd, PostEnd, JoinEnd, TickEnd, StutterEnd
     DEF Next, DispatcherStep, MainStep, Terminated
<1> QED BY <1>1, <1>2, Inductive, PTL DEF Spec

(* When the last dispatcher has been joined, an Aperiodic has released one  *)
(* job and a Periodic a job in each of its periods in the run: a test of    *)
(* running that comes late, or the post of Dispatcher::join, adds none.     *)
THEOREM RunsCountTheirJobs == Spec => []JobsCounted
<1>1. ASSUME IInv, EndInv PROVE JobsCounted
  <2> USE KindsApart
  <2>1. SUFFICES ASSUME main = "done"
                 PROVE  /\ \A d \in Aperiodics : released[d] = 1
                        /\ \A d \in Periodics :
                             /\ (released[d] - 1) * P <= T + MaxLate
                             /\ released[d] * P + 2 * MaxLate >= T
    BY DEF JobsCounted, P, T
  <2>2. \A d \in Dispatcher : pc[d] = "exit"
    BY <1>1, <2>1 DEF EndInv, JoinedInv
  <2>3. \A d \in Aperiodics : released[d] = 1
    BY <1>1, <2>2 DEF EndInv, ReleasedInv, ReleasedOnce
  <2>4. ASSUME NEW d \in Periodics
        PROVE  (released[d] - 1) * P <= T + MaxLate /\ T <= released[d] * P + 2 * MaxLate
    BY <1>1, <2>2 DEF EndInv, ReleasedInv, ReleasedInRun
  <2>5. ASSUME NEW d \in Periodics PROVE released[d] * P + 2 * MaxLate >= T
    <3> DEFINE X == released[d] * P
    <3>1. T \in Nat /\ MaxLate \in Nat /\ P \in Nat /\ released[d] \in Nat
      BY <1>1, Overtimes DEF IInv, TypeInv
    <3>2. X \in Nat /\ T <= X + 2 * MaxLate
      BY <2>4, <3>1
    <3> HIDE DEF X
    <3>3. X + 2 * MaxLate >= T
      BY <3>1, <3>2
    <3> QED BY <3>3 DEF X
  <2> QED BY <2>3, <2>4, <2>5
<1> QED BY <1>1, Inductive, EndInductive, PTL

(* After the end of the run no dispatcher sleeps more than the one sleep it *)
(* may have begun in the run, whatever the order in which they are joined.  *)
THEOREM DispatchersEndInTime == Spec => []EndsInTime
<1>1. ASSUME IInv, EndInv PROVE EndsInTime
  <2>1. SUFFICES ASSUME NEW d \in Dispatcher, pc[d] # "exit"
                 PROVE  now <= T + Overtime(d) + 3 * MaxLate
    BY DEF EndsInTime, T
  <2>2. /\ T \in Nat /\ MaxLate \in Nat /\ Overtime(d) \in Nat /\ now \in Nat /\ due[d] \in Nat
        /\ Latest(d) \in Nat /\ Latest(d) <= T + Overtime(d)
        /\ now <= due[d] + MaxLate /\ Bounded(d)
    BY <1>1, <2>1, EndFacts
  <2>3. pc[d] \in {"start", "test", "release", "sleep", "asleep"}
    BY <1>1, <2>1 DEF IInv, TypeInv, Label
  <2>4. due[d] <= T + Overtime(d) + 2 * MaxLate
    BY <2>2, <2>3, SMT DEF Bounded
  <2> QED BY <2>2, <2>4
<1> QED BY <1>1, Inductive, EndInductive, PTL
=============================================================================
