------------------------------ MODULE JobQueue ------------------------------
(***************************************************************************)
(* The job queue of a core (src/src/configuration/JobQueue.cpp): a linked  *)
(* list of task pointers under the mutex queue_sem.  Every method used by  *)
(* the framework takes queue_sem before its first and releases it after    *)
(* its last access to the list, so a method is one atomic operation on the *)
(* list, and this module gives that operation as a function of the list.   *)
(* Positions are 0-based, as in the source.                                *)
(***************************************************************************)
EXTENDS Integers, SequencesExt

CONSTANT NoJob      \* the NULL Task pointer

(* protectedGetIteratorAt: a position behind the end means the end. *)
TruncatedPosition(q, position) ==
  IF position > Len(q) THEN Len(q) ELSE position

insertJob(q, job) == IF job = NoJob THEN q ELSE Append(q, job)

(* A negative position or a NULL job leaves the list alone. *)
insertJobAt(q, position, job) ==
  IF position < 0 \/ job = NoJob
  THEN q
  ELSE InsertAt(q, TruncatedPosition(q, position) + 1, job)

ValidPosition(q, position) == position \in 0..(Len(q) - 1)

(* What peek_at and pop_at return. *)
peek_at(q, position) ==
  IF ValidPosition(q, position) THEN q[position + 1] ELSE NoJob

(* Mutant of pop_at: the element is read but stays in the list. *)
PopAtKeeps(q, position) == q

(* What pop_at leaves behind. *)
pop_at(q, position) ==
  IF ValidPosition(q, position) THEN RemoveAt(q, position + 1) ELSE q

peek_front(q) == IF q = << >> THEN NoJob ELSE Head(q)

(* Mutant of pop_front: the head is read but stays in the list. *)
PopKeepsHead(q) == q

pop_front(q)  == IF q = << >> THEN q ELSE Tail(q)
=============================================================================
