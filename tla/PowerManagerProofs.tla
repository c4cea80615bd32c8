-------------------------- MODULE PowerManagerProofs --------------------------
(***************************************************************************)
(* Type correctness of PowerManager, the schedule of the tables and what   *)
(* the manager may rely on when its wait ends, for any number of cores,    *)
(* tables, calls and any subdivision of the second.                        *)
(***************************************************************************)
EXTENDS PowerManager, TimespecProofs, WellFoundedInduction

HyperTable == {t \in [rows : Seq(Row), rowId : Nat, next : Instant] :
                 t.rows # << >> => t.rowId \in DOMAIN t.rows}

(* TypeOK with the values the clock and the tables can really have. *)
Types ==
  /\ running \in BOOLEAN /\ crashed \in BOOLEAN /\ clock \in Nat
  /\ tables \in [Core -> HyperTable]
  /\ nextActionTime \in Instant
  /\ nextCoreId \in Core \cup {Outside}
  /\ interrupt_sem \in Nat /\ sets \in Nat
  /\ manager \in Place /\ deadline \in Instant
  /\ approach \in {"ready", "post", "exit"} /\ main \in {"sleep", "join", "await", "exit"}
  /\ settled \in BOOLEAN
  /\ setAt \in [Core -> Instant] /\ elapsed \in [Core -> Nat]

-----------------------------------------------------------------------------
(* Points in time *)

LEMMA InstantIsNormal ==
  ASSUME NEW a \in Instant
  PROVE  a \in Timespec /\ Normal(a)
BY SecondPositive, SMT DEF Instant, Timespec, Normal

LEMMA NowIsInstant ==
  ASSUME clock \in Nat
  PROVE  Now \in Instant
BY MicrosCounts DEF Now

(* Two lengths may be added one after the other or at once. *)
LEMMA PlusMicros ==
  ASSUME NEW a \in Instant, NEW m \in Nat, NEW n \in Nat
  PROVE  Plus(Plus(a, Micros(m)), Micros(n)) = Plus(a, Micros(m + n))
<1>1. Micros(m) \in Instant /\ Nanos(Micros(m)) = m * NanosPerMicro
  BY MicrosCounts
<1>2. Micros(n) \in Instant /\ Nanos(Micros(n)) = n * NanosPerMicro
  BY MicrosCounts
<1>3. Micros(m + n) \in Instant /\ Nanos(Micros(m + n)) = (m + n) * NanosPerMicro
  <2>1. m + n \in Nat
    BY SMT
  <2> QED BY <2>1, MicrosCounts
<1> DEFINE b == Plus(a, Micros(m))
           l == Plus(b, Micros(n))
           r == Plus(a, Micros(m + n))
<1>4. b \in Instant /\ Nanos(b) = Nanos(a) + m * NanosPerMicro
  BY <1>1, PlusAdds
<1>5. r \in Instant /\ Nanos(r) = Nanos(a) + (m + n) * NanosPerMicro
  BY <1>3, PlusAdds
<1> HIDE DEF b, r
<1>6. l \in Instant /\ Nanos(l) = Nanos(b) + n * NanosPerMicro
  BY <1>2, <1>4, PlusAdds
<1> HIDE DEF l
<1>7. (m + n) * NanosPerMicro = m * NanosPerMicro + n * NanosPerMicro
      /\ m * NanosPerMicro \in Int /\ n * NanosPerMicro \in Int
  BY SubdivisionAssumption, SMT
<1>8. Nanos(a) \in Int
  BY SecondPositive, SMT DEF Nanos, Instant
<1>9. Nanos(l) = Nanos(r)
  BY <1>4, <1>5, <1>6, <1>7, <1>8, SMT
<1>10. l = r
  BY <1>5, <1>6, <1>9, InstantIsNormal, NanosDetermine
<1> QED BY <1>10 DEF l, r, b

LEMMA PlusZero ==
  ASSUME NEW a \in Instant
  PROVE  Plus(a, Micros(0)) = a
<1>1. Micros(0) = [sec |-> 0, nsec |-> 0]
  BY SubdivisionAssumption, SMT DEF Micros
<1>2. Plus(a, Micros(0)).sec = a.sec /\ Plus(a, Micros(0)).nsec = a.nsec
  BY <1>1, SecondPositive, SMT DEF Plus, Instant
<1>3. Plus(a, Micros(0)) = [sec |-> a.sec, nsec |-> a.nsec]
  BY <1>1, SecondPositive, SMT DEF Plus, Instant
<1> QED BY <1>3 DEF Instant

(* What is due stays due. *)
LEMMA DueStays ==
  ASSUME NEW a \in Instant, clock \in Nat, ~Less(Micros(clock), a)
  PROVE  ~Less(Micros(clock + 1), a)
<1>1. clock + 1 \in Nat /\ clock <= clock + 1
  BY SMT
<1>2. Micros(clock) \in Instant /\ Micros(clock + 1) \in Instant
  BY <1>1, MicrosCounts
<1>3. Nanos(Micros(clock)) <= Nanos(Micros(clock + 1))
  BY <1>1, MicrosMonotone
<1>4. Less(Micros(clock), a) <=> Nanos(Micros(clock)) < Nanos(a)
  BY <1>2, InstantIsNormal, LessIsOrder
<1>5. Less(Micros(clock + 1), a) <=> Nanos(Micros(clock + 1)) < Nanos(a)
  BY <1>2, InstantIsNormal, LessIsOrder
<1>6. Nanos(a) \in Int /\ Nanos(Micros(clock)) \in Int /\ Nanos(Micros(clock + 1)) \in Int
  BY <1>2, SecondPositive, SMT DEF Nanos, Instant
<1> QED BY <1>3, <1>4, <1>5, <1>6, SMT

LEMMA NotLessItself ==
  ASSUME NEW a \in Instant
  PROVE  ~Less(a, a)
BY SMT DEF Less, Instant
-----------------------------------------------------------------------------
(* Tables *)

LEMMA LengthType ==
  ASSUME NEW t \in HyperTable
  PROVE  CurrentLength(t) \in Nat
<1>1. CASE t.rows = << >>
  BY <1>1 DEF CurrentLength
<1>2. CASE t.rows # << >>
  <2>1. t.rows \in Seq(Row) /\ t.rowId \in DOMAIN t.rows
    BY <1>2 DEF HyperTable
  <2>2. t.rows[t.rowId] \in Row
    BY <2>1
  <2>3. CurrentLength(t) = t.rows[t.rowId].length
    BY <1>2 DEF CurrentLength
  <2> QED BY <2>2, <2>3 DEF Row
<1> QED BY <1>1, <1>2

LEMMA AdvancedType ==
  ASSUME NEW t \in HyperTable, NEW now
  PROVE  /\ Advanced(t, now) \in HyperTable
         /\ Advanced(t, now).rows = t.rows
         /\ t.rows # << >> => Advanced(t, now).next = Plus(t.next, Micros(CurrentLength(t)))
<1>1. CASE t.rows = << >>
  BY <1>1 DEF Advanced
<1>2. CASE t.rows # << >>
  <2> DEFINE next == Plus(t.next, Micros(CurrentLength(t)))
             id   == IF t.rowId >= Len(t.rows) THEN 1 ELSE t.rowId + 1
  <2>1. t \in [rows : Seq(Row), rowId : Nat, next : Instant]
    BY DEF HyperTable
  <2>2. t.rows \in Seq(Row) /\ t.next \in Instant /\ t.rowId \in DOMAIN t.rows
    BY <1>2, <2>1 DEF HyperTable
  <2>3. next \in Instant
    BY <2>2, LengthType, MicrosCounts, PlusAdds
  <2>4. id \in Nat /\ id \in DOMAIN t.rows
    BY <1>2, <2>2, SMT
  <2> HIDE DEF next, id
  <2>5. Advanced(t, now) = [t EXCEPT !.next = next, !.rowId = id]
    BY <1>2 DEF Advanced, next, id
  <2>6. Advanced(t, now) = [rows |-> t.rows, rowId |-> id, next |-> next]
    BY <2>1, <2>5
  <2>7. Advanced(t, now) \in HyperTable
    BY <2>2, <2>3, <2>4, <2>6 DEF HyperTable
  <2> QED BY <2>6, <2>7 DEF next
<1> QED BY <1>1, <1>2

LEMMA SetTableType ==
  ASSUME NEW rows \in Seq(Row), NEW now \in Instant
  PROVE  /\ setStateTable(rows, now) \in HyperTable
         /\ setStateTable(rows, now).next = now
<1>1. rows # << >> => 1 \in DOMAIN rows
  BY SMT
<1> QED BY <1>1 DEF setStateTable, HyperTable

LEMMA EmptyTableType == EmptyHyperTable \in HyperTable
<1>1. [sec |-> LongMax, nsec |-> NanosPerSec - 1] \in Instant
  BY SecondPositive, IntervalAssumption, SMT DEF Instant
<1>2. << >> \in Seq(Row)
  OBVIOUS
<1> QED BY <1>1, <1>2 DEF EmptyHyperTable, HyperTable

(* A set of numbers has a smallest one. *)
LEMMA Smallest ==
  ASSUME NEW S \in SUBSET Nat, S # {}
  PROVE  \E x \in S : \A y \in S : x <= y
<1>1. PICK x \in S : \A y \in S : ~(<<y, x>> \in OpToRel(<, Nat))
  BY WFMin, NatLessThanWellFounded
<1>2. \A y \in S : ~(y < x)
  BY <1>1 DEF OpToRel
<1> QED BY <1>2, SMT

(* There is an earliest core, the smallest of several: Earliest is one. *)
LEMMA EarliestIsCore ==
  ASSUME NEW t \in [Core -> HyperTable]
  PROVE  /\ Earliest(t) \in Core
         /\ \A d \in Core : ~Less(t[d].next, t[Earliest(t)].next)
<1> DEFINE Sec(c) == t[c].next.sec
           Nsec(c) == t[c].next.nsec
<1>1. \A c \in Core : Sec(c) \in Nat /\ Nsec(c) \in Nat /\ c \in Nat
  <2> TAKE c \in Core
  <2>1. t[c].next \in Instant
    BY DEF HyperTable
  <2> QED BY <2>1, SecondPositive, CoresAssumption, SMT DEF Instant, Core
<1>2. 0 \in Core
  BY CoresAssumption, SMT DEF Core
<1> DEFINE Secs == {Sec(c) : c \in Core}
<1>3. PICK s \in Secs : \A x \in Secs : s <= x
  <2>1. Secs \in SUBSET Nat /\ Secs # {}
    BY <1>1, <1>2
  <2> HIDE DEF Secs
  <2> QED BY <2>1, Smallest
<1> DEFINE A == {c \in Core : Sec(c) = s}
           Nsecs == {Nsec(c) : c \in A}
<1>4. A # {}
  BY <1>3
<1>5. PICK n \in Nsecs : \A x \in Nsecs : n <= x
  <2>1. Nsecs \in SUBSET Nat /\ Nsecs # {}
    BY <1>1, <1>4
  <2> HIDE DEF Nsecs
  <2> QED BY <2>1, Smallest
<1> DEFINE B == {c \in A : Nsec(c) = n}
<1>6. B # {}
  BY <1>5
<1>7. PICK e \in B : \A x \in B : e <= x
  <2>1. B \in SUBSET Nat
    BY <1>1
  <2> HIDE DEF B
  <2> QED BY <1>6, <2>1, Smallest
<1>8. e \in Core /\ Sec(e) = s /\ Nsec(e) = n
  BY <1>7
<1>9. ASSUME NEW d \in Core
      PROVE  ~Less(t[d].next, t[e].next) /\ (d < e => Less(t[e].next, t[d].next))
  <2>1. s <= Sec(d)
    BY <1>3, <1>9
  <2>2. Sec(d) = s => n <= Nsec(d)
    BY <1>5, <1>9
  <2>3. Sec(d) = s /\ Nsec(d) = n => e <= d
    BY <1>7, <1>9
  <2>4. s \in Nat /\ n \in Nat /\ e \in Nat /\ d \in Nat /\ Sec(d) \in Nat /\ Nsec(d) \in Nat
    BY <1>1, <1>8, <1>9
  <2>5. Less(t[d].next, t[e].next) <=> Sec(d) < s \/ (Sec(d) = s /\ Nsec(d) < n)
    BY <1>8 DEF Less
  <2>6. Less(t[e].next, t[d].next) <=> s < Sec(d) \/ (s = Sec(d) /\ n < Nsec(d))
    BY <1>8 DEF Less
  <2> HIDE DEF Sec, Nsec
  <2> QED BY <2>1, <2>2, <2>3, <2>4, <2>5, <2>6, SMT
<1>10. \E c \in Core : \A d \in Core :
         ~Less(t[d].next, t[c].next) /\ (d < c => Less(t[c].next, t[d].next))
  BY <1>8, <1>9
<1> QED BY <1>10, Zenon DEF Earliest
-----------------------------------------------------------------------------
(* Types *)

(* What the manager makes of a core it advances. *)
LEMMA ApplyTables ==
  ASSUME Types, Apply, nextCoreId \in Core
  PROVE  /\ tables' \in [Core -> HyperTable]
         /\ tables' = [tables EXCEPT ![nextCoreId] = Advanced(@, Now)]
         /\ nextCoreId' \in Core /\ nextActionTime' = tables'[nextCoreId'].next
         /\ \A d \in Core : ~Less(tables'[d].next, nextActionTime')
         /\ elapsed' = [elapsed EXCEPT ![nextCoreId] = @ + CurrentLength(tables[nextCoreId])]
         /\ manager' = "loop"
<1> DEFINE advanced == [tables EXCEPT ![nextCoreId] = Advanced(@, Now)]
<1>1. tables \in [Core -> HyperTable]
  BY DEF Types
<1>2. Advanced(tables[nextCoreId], Now) \in HyperTable
  BY <1>1, AdvancedType
<1>3. advanced \in [Core -> HyperTable]
  BY <1>1, <1>2
<1>4. /\ tables' = advanced /\ nextCoreId' = Earliest(advanced)
      /\ nextActionTime' = advanced[Earliest(advanced)].next
      /\ elapsed' = [elapsed EXCEPT ![nextCoreId] = @ + CurrentLength(tables[nextCoreId])]
      /\ manager' = "loop"
  BY DEF Apply
<1>5. tables' = [tables EXCEPT ![nextCoreId] = Advanced(@, Now)]
  BY <1>4
<1> HIDE DEF advanced
<1>6. Earliest(advanced) \in Core
      /\ \A d \in Core : ~Less(advanced[d].next, advanced[Earliest(advanced)].next)
  BY <1>3, EarliestIsCore
<1> QED BY <1>3, <1>4, <1>5, <1>6

(* A replacement of one table or of all: every table is of the right type,  *)
(* and the time of the next action is now, which is the time of nextCoreId. *)
LEMMA SetTables ==
  ASSUME Types, SetStateTables \/ SetStateTable
  PROVE  /\ tables' \in [Core -> HyperTable]
         /\ nextCoreId' \in Core /\ nextActionTime' = Now
         /\ tables'[nextCoreId'].next = Now
         /\ settled' = TRUE /\ approach' = "post" /\ clock' = clock /\ manager' = manager
         /\ setAt' \in [Core -> Instant] /\ elapsed' \in [Core -> Nat]
         /\ \A c \in Core : \/ /\ tables'[c] = tables[c] /\ setAt'[c] = setAt[c]
                               /\ elapsed'[c] = elapsed[c]
                            \/ /\ tables'[c].next = Now /\ setAt'[c] = Now
                               /\ elapsed'[c] = 0
<1>1. /\ tables \in [Core -> HyperTable] /\ Now \in Instant
      /\ setAt \in [Core -> Instant] /\ elapsed \in [Core -> Nat]
  BY NowIsInstant DEF Types
<1>2. \A pushes \in TablePushes :
        /\ setStateTable(Pushed(pushes), Now) \in HyperTable
        /\ setStateTable(Pushed(pushes), Now).next = Now
  BY <1>1, TablesAssumption, SetTableType
<1>3. 0 \in Core
  BY CoresAssumption, SMT DEF Core
<1>4. CASE SetStateTables
  <2>1. PICK pushes \in [Core -> TablePushes] :
          tables' = [c \in Core |-> setStateTable(Pushed(pushes[c]), Now)]
    BY <1>4 DEF SetStateTables
  <2>2. \A c \in Core : tables'[c] \in HyperTable /\ tables'[c].next = Now
    BY <1>2, <2>1
  <2>3. tables' \in [Core -> HyperTable]
    BY <2>1, <2>2
  <2>4. /\ nextCoreId' = 0 /\ nextActionTime' = Now
        /\ settled' = TRUE /\ approach' = "post" /\ clock' = clock /\ manager' = manager
        /\ setAt' = [c \in Core |-> Now] /\ elapsed' = [c \in Core |-> 0]
    BY <1>4 DEF SetStateTables
  <2> QED BY <1>1, <1>3, <2>2, <2>3, <2>4
<1>5. CASE SetStateTable
  <2>1. PICK k \in Core, pushes \in TablePushes :
          /\ tables' = [tables EXCEPT ![k] = setStateTable(Pushed(pushes), Now)]
          /\ nextCoreId' = k
          /\ setAt' = [setAt EXCEPT ![k] = Now]
          /\ elapsed' = [elapsed EXCEPT ![k] = 0]
    BY <1>5 DEF SetStateTable
  <2>2. tables' \in [Core -> HyperTable] /\ tables'[k].next = Now
    BY <1>1, <1>2, <2>1
  <2>3. /\ nextActionTime' = Now
        /\ settled' = TRUE /\ approach' = "post" /\ clock' = clock /\ manager' = manager
    BY <1>5 DEF SetStateTable
  <2>4. setAt' \in [Core -> Instant] /\ elapsed' \in [Core -> Nat]
    BY <1>1, <2>1
  <2>5. \A c \in Core : \/ /\ tables'[c] = tables[c] /\ setAt'[c] = setAt[c]
                          /\ elapsed'[c] = elapsed[c]
                       \/ /\ tables'[c].next = Now /\ setAt'[c] = Now
                          /\ elapsed'[c] = 0
    BY <1>1, <2>1, <2>2
  <2> QED BY <2>1, <2>2, <2>3, <2>4, <2>5
<1> QED BY <1>4, <1>5

(* Whatever the manager reads while nextActionTime is overwritten. *)
LEMMA DeadlineType ==
  ASSUME Types, DeadlineRead
  PROVE  deadline' \in Instant
<1>1. deadline \in Instant /\ Now \in Instant
  BY NowIsInstant DEF Types
<1>2. CASE manager = "wait"
  <2>1. PICK s, n \in {deadline, Now} : deadline' = [sec |-> s.sec, nsec |-> n.nsec]
    BY <1>2 DEF DeadlineRead
  <2>2. s \in Instant /\ n \in Instant
    BY <1>1, <2>1
  <2> QED BY <2>1, <2>2 DEF Instant
<1>3. CASE manager # "wait"
  BY <1>1, <1>3 DEF DeadlineRead
<1> QED BY <1>2, <1>3

LEMMA TypesInit == Init => Types
<1> SUFFICES ASSUME Init PROVE Types
  OBVIOUS
<1>1. Micros(0) \in Instant /\ Micros(Duration) \in Instant
  BY ClockAssumption, MicrosCounts
<1>2. Plus(Micros(0), Micros(Duration)) \in Instant
  BY <1>1, PlusAdds
<1>3. tables \in [Core -> HyperTable]
  BY EmptyTableType DEF Init
<1>4. setAt \in [Core -> Instant] /\ elapsed \in [Core -> Nat]
  BY <1>1 DEF Init
<1>5. nextActionTime \in Instant /\ deadline \in Instant
  BY <1>1, <1>2 DEF Init
<1>6. /\ running = TRUE /\ crashed = FALSE /\ clock = 0 /\ interrupt_sem = 0 /\ sets = 0
      /\ manager = "loop" /\ approach = "ready" /\ main = "sleep" /\ settled = FALSE
      /\ nextCoreId \in Core \cup {Outside}
  BY DEF Init
<1> QED BY <1>3, <1>4, <1>5, <1>6 DEF Types, Place

(* The steps that leave the tables alone, with what they do to the rest. *)
Quiet == Tick \/ ManagerLoop \/ Interrupted \/ TimedOut \/ PostInterrupt \/ ApproachExit
         \/ MainNext

LEMMA QuietSteps ==
  ASSUME Quiet
  PROVE  UNCHANGED <<tableVars, historyVars>>
BY DEF Quiet, Tick, ManagerLoop, Interrupted, TimedOut, PostInterrupt, ApproachExit, MainNext,
       EndRun, Join, JoinReturns, tableVars, historyVars

LEMMA TypesQuiet ==
  ASSUME Types, Quiet
  PROVE  Types'
<1>1. /\ tables' = tables /\ nextActionTime' = nextActionTime /\ nextCoreId' = nextCoreId
      /\ settled' = settled /\ setAt' = setAt /\ elapsed' = elapsed
  BY QuietSteps DEF tableVars, historyVars
<1>2. /\ running' \in BOOLEAN /\ crashed' \in BOOLEAN /\ clock' \in Nat
      /\ interrupt_sem' \in Nat /\ sets' \in Nat
      /\ manager' \in Place /\ deadline' \in Instant
      /\ approach' \in {"ready", "post", "exit"}
      /\ main' \in {"sleep", "join", "await", "exit"}
  <2>1. CASE Tick
    BY <2>1, SMT DEF Types, Tick, Place
  <2>2. CASE ManagerLoop
    BY <2>2 DEF Types, ManagerLoop, Place
  <2>3. CASE Interrupted
    BY <2>3, SMT DEF Types, Interrupted, Place
  <2>4. CASE TimedOut
    BY <2>4 DEF Types, TimedOut, Place
  <2>5. CASE PostInterrupt
    BY <2>5, SMT DEF Types, PostInterrupt, Place
  <2>6. CASE ApproachExit
    BY <2>6 DEF Types, ApproachExit, Place
  <2>7. CASE EndRun
    BY <2>7 DEF Types, EndRun, Place
  <2>8. CASE Join
    BY <2>8, SMT DEF Types, Join, Place
  <2>9. CASE JoinReturns
    BY <2>9 DEF Types, JoinReturns, Place
  <2> QED BY <2>1, <2>2, <2>3, <2>4, <2>5, <2>6, <2>7, <2>8, <2>9 DEF Quiet, MainNext
<1> QED BY <1>1, <1>2 DEF Types

LEMMA TypesApply ==
  ASSUME Types, Apply
  PROVE  Types'
<1>1. /\ running' = running /\ clock' = clock /\ interrupt_sem' = interrupt_sem
      /\ sets' = sets /\ deadline' = deadline /\ approach' = approach /\ main' = main
      /\ settled' = settled /\ setAt' = setAt
  BY DEF Apply, historyVars
<1>2. CASE nextCoreId \in Core
  <2>1. /\ tables' \in [Core -> HyperTable] /\ nextCoreId' \in Core
        /\ nextActionTime' = tables'[nextCoreId'].next /\ manager' = "loop"
    BY <1>2, ApplyTables
  <2>2. nextActionTime' \in Instant
    BY <2>1 DEF HyperTable
  <2>3. elapsed' \in [Core -> Nat]
    <3>1. CurrentLength(tables[nextCoreId]) \in Nat
      BY <1>2, LengthType DEF Types
    <3>2. elapsed' = [elapsed EXCEPT ![nextCoreId] = @ + CurrentLength(tables[nextCoreId])]
      BY <1>2, ApplyTables
    <3>3. elapsed \in [Core -> Nat]
      BY DEF Types
    <3>4. elapsed[nextCoreId] + CurrentLength(tables[nextCoreId]) \in Nat
      BY <1>2, <3>1, <3>3, SMT
    <3> QED BY <1>2, <3>2, <3>3, <3>4
  <2>4. crashed' = crashed
    BY <1>2 DEF Apply
  <2> QED BY <1>1, <2>1, <2>2, <2>3, <2>4 DEF Types, Place
<1>3. CASE nextCoreId \notin Core
  <2>1. /\ crashed' = TRUE /\ tables' = tables /\ nextActionTime' = nextActionTime
        /\ nextCoreId' = nextCoreId /\ elapsed' = elapsed /\ manager' = manager
    BY <1>3 DEF Apply, tableVars
  <2> QED BY <1>1, <2>1 DEF Types
<1> QED BY <1>2, <1>3

LEMMA TypesSet ==
  ASSUME Types, SetStateTables \/ SetStateTable
  PROVE  Types'
<1>1. /\ running' = running /\ crashed' = crashed /\ interrupt_sem' = interrupt_sem
      /\ sets' = sets + 1 /\ main' = main /\ DeadlineRead
  BY DEF SetStateTables, SetStateTable
<1>2. deadline' \in Instant
  BY <1>1, DeadlineType
<1>3. Now \in Instant
  BY NowIsInstant DEF Types
<1>4. sets' \in Nat
  BY <1>1, SMT DEF Types
<1>5. /\ tables' \in [Core -> HyperTable]
      /\ nextCoreId' \in Core /\ nextActionTime' = Now
      /\ settled' = TRUE /\ approach' = "post" /\ clock' = clock /\ manager' = manager
      /\ setAt' \in [Core -> Instant] /\ elapsed' \in [Core -> Nat]
  BY SetTables
<1> QED BY <1>1, <1>2, <1>3, <1>4, <1>5 DEF Types

(* Every step is one of these. *)
LEMMA StepKinds ==
  ASSUME [Next]_vars
  PROVE  Quiet \/ Apply \/ SetStateTables \/ SetStateTable \/ UNCHANGED vars
BY DEF Next, Manager, Approach, Quiet, Over

LEMMA TypesNext == Types /\ [Next]_vars => Types'
<1> SUFFICES ASSUME Types, [Next]_vars PROVE Types'
  OBVIOUS
<1>1. CASE UNCHANGED vars
  BY <1>1 DEF vars, tableVars, historyVars, Types
<1> QED BY <1>1, StepKinds, TypesQuiet, TypesApply, TypesSet

LEMMA TypesAlways == Spec => []Types
<1>1. Init => Types
  BY TypesInit
<1>2. Types /\ [Next]_vars => Types'
  BY TypesNext
<1> QED BY <1>1, <1>2, PTL DEF Spec

(* Every value has its type, the cursor of a table stays inside its rows,   *)
(* and the sums of times stay normal.                                       *)
THEOREM TypeCorrect == Spec => []TypeOK
<1>1. Types => TypeOK
  <2> SUFFICES ASSUME Types PROVE TypeOK
    OBVIOUS
  <2>1. \A c \in Core : /\ tables[c].next \in Timespec /\ Normal(tables[c].next)
                        /\ tables[c].rows # << >> => tables[c].rowId \in DOMAIN tables[c].rows
    <3> TAKE c \in Core
    <3>1. tables[c] \in HyperTable
      BY DEF Types
    <3> QED BY <3>1, InstantIsNormal DEF HyperTable
  <2>2. /\ nextActionTime \in Timespec /\ Normal(nextActionTime)
        /\ deadline \in Timespec
    BY InstantIsNormal DEF Types
  <2>3. setAt \in [Core -> Timespec]
    <3>1. Instant \subseteq Timespec
      BY InstantIsNormal
    <3> QED BY <3>1 DEF Types
  <2> QED BY <2>1, <2>2, <2>3 DEF Types, TypeOK
<1> QED BY <1>1, TypesAlways, PTL
-----------------------------------------------------------------------------
(* The row that is waited for *)

LEMMA NextCoreMatchesNext ==
  ASSUME Types, NextCoreMatches, [Next]_vars
  PROVE  NextCoreMatches'
<1>1. CASE UNCHANGED vars
  BY <1>1 DEF vars, tableVars, historyVars, NextCoreMatches
<1>2. CASE Quiet
  BY <1>2, QuietSteps DEF tableVars, historyVars, NextCoreMatches
<1>3. CASE Apply
  <2>1. CASE nextCoreId \in Core
    BY <1>3, <2>1, ApplyTables DEF NextCoreMatches
  <2>2. CASE nextCoreId \notin Core
    BY <1>3, <2>2 DEF Apply, tableVars, NextCoreMatches
  <2> QED BY <2>1, <2>2
<1>4. CASE SetStateTables \/ SetStateTable
  BY <1>4, SetTables DEF NextCoreMatches
<1> QED BY <1>1, <1>2, <1>3, <1>4, StepKinds

(* From the first tables on the row the manager waits for is the row it     *)
(* applies: nextActionTime is the time of the table of nextCoreId.          *)
THEOREM NextCoreAlwaysMatches == Spec => []NextCoreMatches
<1>1. Init => NextCoreMatches
  BY DEF Init, NextCoreMatches
<1>2. Types /\ NextCoreMatches /\ [Next]_vars => NextCoreMatches'
  BY NextCoreMatchesNext
<1> QED BY <1>1, <1>2, TypesAlways, PTL DEF Spec

-----------------------------------------------------------------------------
(* The schedule *)

LEMMA ScheduleApply ==
  ASSUME Types, ScheduleExact, Apply
  PROVE  ScheduleExact'
<1>1. CASE nextCoreId \in Core
  <2> DEFINE k == nextCoreId
             n == CurrentLength(tables[k])
  <2>1. /\ tables \in [Core -> HyperTable] /\ elapsed \in [Core -> Nat]
        /\ setAt \in [Core -> Instant] /\ k \in Core
    BY <1>1 DEF Types
  <2>2. /\ tables' = [tables EXCEPT ![k] = Advanced(@, Now)]
        /\ elapsed' = [elapsed EXCEPT ![k] = @ + n]
    BY <1>1, ApplyTables
  <2>3. setAt' = setAt
    BY DEF Apply
  <2>4. n \in Nat
    BY <2>1, LengthType
  <2> HIDE DEF k, n
  <2> SUFFICES ASSUME NEW c \in Core, tables'[c].rows # << >>
               PROVE  tables'[c].next = Plus(setAt'[c], Micros(elapsed'[c]))
    BY DEF ScheduleExact
  <2>5. CASE c = k
    <3>1. tables'[k] = Advanced(tables[k], Now) /\ elapsed'[k] = elapsed[k] + n
      BY <2>1, <2>2
    <3>2. tables'[k].rows = tables[k].rows
      BY <2>1, <3>1, AdvancedType
    <3>3. tables[k].rows # << >>
      BY <2>5, <3>2
    <3>4. tables'[k].next = Plus(tables[k].next, Micros(n))
      BY <2>1, <3>1, <3>3, AdvancedType DEF n
    <3>5. tables[k].next = Plus(setAt[k], Micros(elapsed[k]))
      BY <2>1, <3>3 DEF ScheduleExact
    <3>6. Plus(Plus(setAt[k], Micros(elapsed[k])), Micros(n))
            = Plus(setAt[k], Micros(elapsed[k] + n))
      BY <2>1, <2>4, PlusMicros
    <3> QED BY <2>3, <2>5, <3>1, <3>4, <3>5, <3>6
  <2>6. CASE c # k
    BY <2>1, <2>2, <2>3, <2>6 DEF ScheduleExact
  <2> QED BY <2>5, <2>6
<1>2. CASE nextCoreId \notin Core
  BY <1>2 DEF Apply, tableVars, ScheduleExact
<1> QED BY <1>1, <1>2

LEMMA ScheduleSet ==
  ASSUME Types, ScheduleExact, SetStateTables \/ SetStateTable
  PROVE  ScheduleExact'
<1>1. Now \in Instant
  BY NowIsInstant DEF Types
<1>2. Plus(Now, Micros(0)) = Now
  BY <1>1, PlusZero
<1> SUFFICES ASSUME NEW c \in Core, tables'[c].rows # << >>
             PROVE  tables'[c].next = Plus(setAt'[c], Micros(elapsed'[c]))
  BY DEF ScheduleExact
<1>3. \/ /\ tables'[c] = tables[c] /\ setAt'[c] = setAt[c] /\ elapsed'[c] = elapsed[c]
      \/ /\ tables'[c].next = Now /\ setAt'[c] = Now /\ elapsed'[c] = 0
  BY SetTables
<1>4. CASE tables'[c] = tables[c] /\ setAt'[c] = setAt[c] /\ elapsed'[c] = elapsed[c]
  BY <1>4 DEF ScheduleExact
<1>5. CASE tables'[c].next = Now /\ setAt'[c] = Now /\ elapsed'[c] = 0
  BY <1>2, <1>5
<1> QED BY <1>3, <1>4, <1>5

LEMMA ScheduleNext ==
  ASSUME Types, ScheduleExact, [Next]_vars
  PROVE  ScheduleExact'
<1>1. CASE UNCHANGED vars
  BY <1>1 DEF vars, tableVars, historyVars, ScheduleExact
<1>2. CASE Quiet
  BY <1>2, QuietSteps DEF tableVars, historyVars, ScheduleExact
<1> QED BY <1>1, <1>2, ScheduleApply, ScheduleSet, StepKinds

(* However late or often the manager wakes up, the next row of a table is   *)
(* due when the rows applied since the table was set should have ended.     *)
THEOREM ScheduleKept == Spec => []ScheduleExact
<1>1. Init => ScheduleExact
  BY DEF Init, ScheduleExact, EmptyHyperTable
<1>2. Types /\ ScheduleExact /\ [Next]_vars => ScheduleExact'
  BY ScheduleNext
<1> QED BY <1>1, <1>2, TypesAlways, PTL DEF Spec

-----------------------------------------------------------------------------
(* The end of the wait *)

(* While the manager waits, its time-out is the time of the row it will     *)
(* apply, or tables were set and their row is due already.                  *)
DueInv ==
  /\ NextCoreMatches
  /\ settled /\ manager = "wait" => deadline = nextActionTime \/ Due(nextCoreId)
  /\ settled /\ manager = "apply_due" => Due(nextCoreId)

LEMMA DueInvQuiet ==
  ASSUME Types, DueInv, Quiet
  PROVE  DueInv'
<1>1. /\ tables' = tables /\ nextActionTime' = nextActionTime /\ nextCoreId' = nextCoreId
      /\ settled' = settled
  BY QuietSteps DEF tableVars, historyVars
<1>2. NextCoreMatches'
  BY <1>1 DEF DueInv, NextCoreMatches
<1>3. CASE Tick
  <2>1. clock' = clock + 1 /\ manager' = manager /\ deadline' = deadline
    BY <1>3 DEF Tick
  <2>2. settled /\ Due(nextCoreId) => Due(nextCoreId)'
    <3> SUFFICES ASSUME settled, Due(nextCoreId) PROVE Due(nextCoreId)'
      OBVIOUS
    <3>1. nextCoreId \in Core
      BY DEF DueInv, NextCoreMatches
    <3>2. tables[nextCoreId].next \in Instant /\ clock \in Nat
      BY <3>1 DEF Types, HyperTable
    <3>3. ~Less(Micros(clock), tables[nextCoreId].next)
      BY DEF Due, Now
    <3>4. ~Less(Micros(clock + 1), tables[nextCoreId].next)
      BY <3>2, <3>3, DueStays
    <3> QED BY <1>1, <2>1, <3>4 DEF Due, Now
  <2> QED BY <1>1, <1>2, <2>1, <2>2 DEF DueInv
<1>4. CASE ~Tick
  <2>1. clock' = clock
    BY <1>4 DEF Quiet, ManagerLoop, Interrupted, TimedOut, PostInterrupt, ApproachExit,
                MainNext, EndRun, Join, JoinReturns
  <2>2. Due(nextCoreId)' <=> Due(nextCoreId)
    BY <1>1, <2>1 DEF Due, Now
  <2>3. CASE ManagerLoop
    BY <1>1, <1>2, <2>3 DEF ManagerLoop, DueInv
  <2>4. CASE Interrupted
    BY <1>2, <2>4 DEF Interrupted, DueInv
  <2>5. CASE TimedOut
    <3>1. settled => Due(nextCoreId)
      BY <2>5 DEF TimedOut, DueInv, NextCoreMatches, Due
    <3> QED BY <1>1, <1>2, <2>2, <2>5, <3>1 DEF TimedOut, DueInv
  <2>6. CASE PostInterrupt \/ ApproachExit \/ MainNext
    <3>1. manager' = manager /\ deadline' = deadline
      BY <2>6 DEF PostInterrupt, ApproachExit, MainNext, EndRun, Join, JoinReturns
    <3> QED BY <1>1, <1>2, <2>2, <3>1 DEF DueInv
  <2> QED BY <1>4, <2>3, <2>4, <2>5, <2>6 DEF Quiet
<1> QED BY <1>3, <1>4

LEMMA DueInvNext ==
  ASSUME Types, DueInv, [Next]_vars
  PROVE  DueInv'
<1>1. NextCoreMatches'
  BY NextCoreMatchesNext DEF DueInv
<1>2. CASE UNCHANGED vars
  BY <1>1, <1>2 DEF vars, tableVars, historyVars, DueInv, Due, Now
<1>3. CASE Quiet
  BY <1>3, DueInvQuiet
<1>4. CASE Apply
  <2>1. CASE nextCoreId \in Core
    <3>1. manager' = "loop"
      BY <1>4, <2>1 DEF Apply
    <3> QED BY <1>1, <3>1 DEF DueInv
  <2>2. CASE nextCoreId \notin Core
    <3>1. ~settled
      BY <2>2 DEF DueInv, NextCoreMatches
    <3>2. settled' = settled
      BY <1>4 DEF Apply
    <3> QED BY <1>1, <3>1, <3>2 DEF DueInv
  <2> QED BY <2>1, <2>2
<1>5. CASE SetStateTables \/ SetStateTable
  <2>1. tables'[nextCoreId'].next = Now /\ clock' = clock
    BY <1>5, SetTables
  <2>2. Now \in Instant
    BY NowIsInstant DEF Types
  <2>3. Due(nextCoreId)'
    BY <2>1, <2>2, NotLessItself DEF Due, Now
  <2> QED BY <1>1, <2>3 DEF DueInv
<1> QED BY <1>2, <1>3, <1>4, <1>5, StepKinds

(* A row applied because the wait timed out is due, also when the tables    *)
(* were replaced while the time-out was read or after it fired.             *)
THEOREM TimeoutAppliesDueRow == Spec => []TimeoutRowDue
<1>1. Init => DueInv
  BY DEF Init, DueInv, NextCoreMatches
<1>2. Types /\ DueInv /\ [Next]_vars => DueInv'
  BY DueInvNext
<1>3. DueInv => TimeoutRowDue
  BY DEF DueInv, TimeoutRowDue
<1> QED BY <1>1, <1>2, <1>3, TypesAlways, PTL DEF Spec

(* Unless a post is outstanding, which ends the wait, nextActionTime is the *)
(* earliest time of all tables, and the time-out the manager waits for.     *)
WaitInv ==
  manager \in {"loop", "wait"} /\ interrupt_sem = 0 /\ approach # "post" /\ settled =>
    /\ \A c \in Core : ~Less(tables[c].next, nextActionTime)
    /\ manager = "wait" => deadline = nextActionTime

LEMMA WaitInvQuiet ==
  ASSUME Types, WaitInv, Quiet
  PROVE  WaitInv'
<1>1. /\ tables' = tables /\ nextActionTime' = nextActionTime /\ settled' = settled
  BY QuietSteps DEF tableVars, historyVars
<1>2. CASE Tick
  BY <1>1, <1>2 DEF Tick, WaitInv
<1>3. CASE ManagerLoop
  BY <1>1, <1>3 DEF ManagerLoop, WaitInv
<1>4. CASE Interrupted
  BY <1>4 DEF Interrupted, WaitInv
<1>5. CASE TimedOut
  BY <1>5 DEF TimedOut, WaitInv
<1>6. CASE PostInterrupt \/ Join
  <2>1. interrupt_sem' # 0
    BY <1>6, SMT DEF PostInterrupt, Join, Types
  <2> QED BY <2>1 DEF WaitInv
<1>7. CASE ApproachExit
  BY <1>1, <1>7 DEF ApproachExit, WaitInv
<1>8. CASE EndRun
  BY <1>1, <1>8 DEF EndRun, WaitInv
<1>9. CASE JoinReturns
  BY <1>1, <1>9 DEF JoinReturns, WaitInv
<1> QED BY <1>2, <1>3, <1>4, <1>5, <1>6, <1>7, <1>8, <1>9 DEF Quiet, MainNext

LEMMA WaitInvNext ==
  ASSUME Types, WaitInv, [Next]_vars
  PROVE  WaitInv'
<1>1. CASE UNCHANGED vars
  BY <1>1 DEF vars, tableVars, historyVars, WaitInv
<1>2. CASE Quiet
  BY <1>2, WaitInvQuiet
<1>3. CASE Apply
  <2>1. CASE nextCoreId \in Core
    BY <1>3, <2>1, ApplyTables DEF WaitInv
  <2>2. CASE nextCoreId \notin Core
    BY <1>3, <2>2 DEF Apply, WaitInv
  <2> QED BY <2>1, <2>2
<1>4. CASE SetStateTables \/ SetStateTable
  <2>1. approach' = "post"
    BY <1>4, SetTables
  <2> QED BY <2>1 DEF WaitInv
<1> QED BY <1>1, <1>2, <1>3, <1>4, StepKinds

(* A manager that waits without a post outstanding has a time-out no later  *)
(* than any table's next action: no core and no replacement is overslept.   *)
THEOREM NoTableOverslept == Spec => []NeverSleepsPast
<1>1. Init => WaitInv
  BY DEF Init, WaitInv
<1>2. Types /\ WaitInv /\ [Next]_vars => WaitInv'
  BY WaitInvNext
<1>3. WaitInv => NeverSleepsPast
  BY DEF WaitInv, NeverSleepsPast
<1> QED BY <1>1, <1>2, <1>3, TypesAlways, PTL DEF Spec
===============================================================================
