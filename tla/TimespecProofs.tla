---------------------------- MODULE TimespecProofs ----------------------------
(***************************************************************************)
(* The operators on points in time compute with the integers they stand    *)
(* for, whatever the subdivision of the second.                            *)
(***************************************************************************)
EXTENDS Timespec, TLAPS

LEMMA SecondPositive == NanosPerSec \in Nat \ {0}
  BY SubdivisionAssumption, SMT DEF NanosPerSec

(* A point in time as the code keeps it: seconds from 0 on, normal. *)
Instant == [sec : Nat, nsec : 0..(NanosPerSec - 1)]

(* The lexical comparison of normal values is the comparison of the integers. *)
LEMMA LessIsOrder ==
  ASSUME NEW a \in Timespec, NEW b \in Timespec, Normal(a), Normal(b)
  PROVE  Less(a, b) <=> Nanos(a) < Nanos(b)
<1> DEFINE N == NanosPerSec
<1>1. N \in Nat \ {0}
  BY SecondPositive
<1>2. a.sec \in Int /\ b.sec \in Int /\ a.nsec \in 0..(N - 1) /\ b.nsec \in 0..(N - 1)
  BY DEF Timespec, Normal
<1>3. Nanos(a) = a.sec * N + a.nsec /\ Nanos(b) = b.sec * N + b.nsec
  BY DEF Nanos
<1> HIDE DEF N
<1>4. ASSUME NEW s \in Int, NEW t \in Int, s < t
      PROVE  s * N + N <= t * N
  <2>1. t * N = s * N + N + (t - s - 1) * N
    BY <1>1, SMT
  <2>2. (t - s - 1) * N \in Nat
    BY <1>1, <1>4, SMT
  <2>3. s * N \in Int /\ t * N \in Int
    BY <1>1, SMT
  <2> QED BY <1>1, <2>1, <2>2, <2>3, SMT
<1>5. CASE a.sec < b.sec
  <2>1. a.sec * N + N <= b.sec * N
    BY <1>2, <1>4, <1>5
  <2>2. a.sec * N \in Int /\ b.sec * N \in Int
    BY <1>1, <1>2, SMT
  <2>3. Nanos(a) < Nanos(b)
    BY <1>1, <1>2, <1>3, <2>1, <2>2, SMT
  <2> QED BY <1>5, <2>3 DEF Less
<1>6. CASE a.sec = b.sec
  <2>1. a.sec * N \in Int
    BY <1>1, <1>2, SMT
  <2> QED BY <1>1, <1>2, <1>3, <1>6, <2>1, SMT DEF Less
<1>7. CASE b.sec < a.sec
  <2>1. b.sec * N + N <= a.sec * N
    BY <1>2, <1>4, <1>7
  <2>2. a.sec * N \in Int /\ b.sec * N \in Int
    BY <1>1, <1>2, SMT
  <2>3. ~(Nanos(a) < Nanos(b))
    BY <1>1, <1>2, <1>3, <2>1, <2>2, SMT
  <2> QED BY <1>2, <1>7, <2>3, SMT DEF Less
<1> QED BY <1>2, <1>5, <1>6, <1>7, SMT

(* A normal value is determined by the integer it stands for. *)
LEMMA NanosDetermine ==
  ASSUME NEW a \in Timespec, NEW b \in Timespec, Normal(a), Normal(b), Nanos(a) = Nanos(b)
  PROVE  a = b
<1>1. Nanos(a) \in Int
  BY SecondPositive, SMT DEF Nanos, Timespec
<1>2. ~Less(a, b) /\ ~Less(b, a)
  BY <1>1, LessIsOrder, SMT
<1>3. a.sec = b.sec /\ a.nsec = b.nsec
  BY SecondPositive, <1>2, SMT DEF Less, Timespec, Normal
<1> QED BY <1>3 DEF Timespec

(* operator + adds, and of two normal values makes a normal one. *)
THEOREM PlusAdds ==
  ASSUME NEW a \in Instant, NEW b \in Instant
  PROVE  Plus(a, b) \in Instant /\ Nanos(Plus(a, b)) = Nanos(a) + Nanos(b)
<1> DEFINE N == NanosPerSec
<1>1. N \in Nat \ {0}
  BY SecondPositive
<1>2. a.sec \in Nat /\ b.sec \in Nat /\ a.nsec \in 0..(N - 1) /\ b.nsec \in 0..(N - 1)
  BY DEF Instant
<1>3. Plus(a, b) \in Instant
  BY <1>1, <1>2, SMT DEF Plus, Instant
<1>4. (a.sec + b.sec) * N = a.sec * N + b.sec * N
      /\ (a.sec + b.sec + 1) * N = a.sec * N + b.sec * N + N
  BY <1>1, <1>2, SMT
<1>5. a.sec * N \in Int /\ b.sec * N \in Int
  BY <1>1, <1>2, SMT
<1>6. CASE a.nsec + b.nsec > N - 1
  <2>1. Plus(a, b).sec = a.sec + b.sec + 1 /\ Plus(a, b).nsec = a.nsec + b.nsec - N
    BY <1>1, <1>2, <1>6, SMT DEF Plus
  <2> QED BY <1>1, <1>2, <1>3, <1>4, <1>5, <2>1, SMT DEF Nanos
<1>7. CASE ~(a.nsec + b.nsec > N - 1)
  <2>1. Plus(a, b).sec = a.sec + b.sec /\ Plus(a, b).nsec = a.nsec + b.nsec
    BY <1>1, <1>2, <1>7, SMT DEF Plus
  <2> QED BY <1>1, <1>2, <1>3, <1>4, <1>5, <2>1, SMT DEF Nanos
<1> QED BY <1>6, <1>7

(* operator - subtracts, in normal form or not. *)
THEOREM MinusSubtracts ==
  ASSUME NEW a \in Timespec, NEW b \in Timespec
  PROVE  Nanos(Minus(a, b)) = Nanos(a) - Nanos(b)
<1> DEFINE N == NanosPerSec
<1>1. N \in Nat \ {0}
  BY SecondPositive
<1>2. a.sec \in Int /\ b.sec \in Int /\ a.nsec \in Int /\ b.nsec \in Int
  BY DEF Timespec
<1>3. (a.sec - b.sec) * N = a.sec * N - b.sec * N
      /\ (a.sec - b.sec - 1) * N = a.sec * N - b.sec * N - N
  BY <1>1, <1>2, SMT
<1>4. a.sec * N \in Int /\ b.sec * N \in Int
  BY <1>1, <1>2, SMT
<1> QED BY <1>1, <1>2, <1>3, <1>4, SMT DEF Minus, Nanos

(* Micros gives the normal form of so many microseconds. *)
THEOREM MicrosCounts ==
  ASSUME NEW us \in Nat
  PROVE  Micros(us) \in Instant /\ Nanos(Micros(us)) = us * NanosPerMicro
<1> DEFINE M == MicrosPerSec
           P == NanosPerMicro
<1>1. M \in Nat \ {0} /\ P \in Nat \ {0} /\ NanosPerSec = M * P
  BY SubdivisionAssumption DEF NanosPerSec
<1> HIDE DEF M, P
<1>2. ASSUME NEW r \in 0..(M - 1)
      PROVE  r * P \in 0..(M * P - 1)
  <2>1. r * P \in Nat /\ M * P \in Nat
    BY <1>1, SMT
  <2>2. M * P = r * P + P + (M - r - 1) * P
    BY <1>1, SMT
  <2>3. (M - r - 1) * P \in Nat
    BY <1>1, <1>2, SMT
  <2> QED BY <1>1, <2>1, <2>2, <2>3, SMT
<1>3. CASE us < M
  <2>1. Micros(us) = [sec |-> 0, nsec |-> us * P]
    BY <1>3 DEF Micros, M, P
  <2>2. us * P \in 0..(M * P - 1)
    BY <1>1, <1>2, <1>3, SMT
  <2>3. 0 * NanosPerSec = 0
    BY SecondPositive, SMT
  <2> QED BY <1>1, <2>1, <2>2, <2>3, SMT DEF Instant, Nanos, P
<1>4. CASE ~(us < M)
  <2> DEFINE q == us \div M
             r == us - q * M
  <2>1. q \in Nat /\ q * M \in Nat /\ r \in 0..(M - 1)
    BY <1>1, SMT
  <2>2. Micros(us) = [sec |-> q, nsec |-> r * P]
    BY <1>4 DEF Micros, M, P
  <2>3. us = q * M + r
    BY <1>1, <2>1, SMT
  <2> HIDE DEF q, r
  <2>4. r * P \in 0..(M * P - 1)
    BY <1>2, <2>1
  <2>5. us * P = q * (M * P) + r * P
    BY <1>1, <2>1, <2>3, SMT
  <2> QED BY <1>1, <2>1, <2>2, <2>4, <2>5, SMT DEF Instant, Nanos, P
<1> QED BY <1>3, <1>4

(* The points in time of the clock are in order. *)
LEMMA MicrosMonotone ==
  ASSUME NEW m \in Nat, NEW n \in Nat, m <= n
  PROVE  Nanos(Micros(m)) <= Nanos(Micros(n))
<1>1. Nanos(Micros(m)) = m * NanosPerMicro /\ Nanos(Micros(n)) = n * NanosPerMicro
  BY MicrosCounts
<1>2. n * NanosPerMicro = m * NanosPerMicro + (n - m) * NanosPerMicro
  BY SubdivisionAssumption, SMT
<1>3. (n - m) * NanosPerMicro \in Nat /\ m * NanosPerMicro \in Nat
  BY SubdivisionAssumption, SMT
<1> QED BY <1>1, <1>2, <1>3, SMT
===============================================================================
