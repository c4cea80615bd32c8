----------------------------- MODULE MCProcessor -----------------------------
(* Instances of Processor for TLC: two or three cores, one or two dispatchers.*)
EXTENDS Processor

CONSTANTS d1, d2

(* The allocator answers core 0 or 1 for pipelined jobs, as the default one   *)
(* does in turn, and core 1 or an index that names no core for the others.   *)
AnyCore == [d \in Dispatcher |-> IF d \in PipelinedTask THEN {0, 1} ELSE {1, 5}]

(* Every job starts on core 0. *)
CoreZero == [d \in Dispatcher |-> {0}]

(* The static allocation of every task to core 1.                            *)
CoreOne == [d \in Dispatcher |-> {1}]
==============================================================================
