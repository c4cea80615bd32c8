------------------------------ MODULE StateTable ------------------------------
(***************************************************************************)
(* The table of power states of a core (configuration/StateTable) and the  *)
(* cursor that walks through it (configuration/HyperStateTable).           *)
(***************************************************************************)
EXTENDS Timespec, Sequences

CONSTANTS MiniInterval,  \* MINIINTERVALLENGTH, in microseconds
          LongMax        \* LONG_MAX seconds: later than any time that comes

ASSUME IntervalAssumption == MiniInterval \in Nat \ {0} /\ LongMax \in Nat

(* A row: the frequency, 0 for idle, and for how many microseconds. *)
Row == [frequency : Nat, length : Nat]

(* pushState drops a row that is too short. *)
LongEnough(row) == row.length >= MiniInterval
Pushed(pushes)  == SelectSeq(pushes, LongEnough)

(* The constructor of HyperStateTable: no rows, and never an action. *)
EmptyHyperTable == [rows |-> << >>, rowId |-> 1,
                    next |-> [sec |-> LongMax, nsec |-> NanosPerSec - 1]]

(* HyperStateTable::setStateTable: from the top row, at once. *)
setStateTable(rows, now) == [rows |-> rows, rowId |-> 1, next |-> now]

(* The length of the row under the cursor. *)
CurrentLength(t) == IF t.rows = << >> THEN 0 ELSE t.rows[t.rowId].length

(* Mutant of Advanced: the cursor passes the last row. *)
AdvancedPastEnd(t, now) ==
  IF t.rows = << >> THEN t
  ELSE [t EXCEPT !.next  = Plus(t.next, Micros(CurrentLength(t))),
                 !.rowId = IF t.rowId > Len(t.rows) THEN 1 ELSE t.rowId + 1]

(* Mutant of Advanced: the length counts from the time of the call. *)
AdvancedFromNow(t, now) ==
  IF t.rows = << >> THEN t
  ELSE [t EXCEPT !.next  = Plus(now, Micros(CurrentLength(t))),
                 !.rowId = IF t.rowId >= Len(t.rows) THEN 1 ELSE t.rowId + 1]

(* What HyperStateTable::getState does to the cursor: the next action is due *)
(* when the row ends, after the last row comes the first.                    *)
Advanced(t, now) ==
  IF t.rows = << >> THEN t
  ELSE [t EXCEPT !.next  = Plus(t.next, Micros(CurrentLength(t))),
                 !.rowId = IF t.rowId >= Len(t.rows) THEN 1 ELSE t.rowId + 1]
===============================================================================
