---------------------------- MODULE MCPowerManager ----------------------------
(* An instance of PowerManager for TLC, and the operators on timespecs       *)
(* compared with their reference on all values of a small second.            *)
EXTENDS PowerManager

R(f, l) == [frequency |-> f, length |-> l]

(* Running and idle, and a table whose only row is dropped. *)
SmallTables == { <<R(1, 2), R(0, 3)>>, <<R(1, 1)>> }

Times == [sec : 0..2, nsec : 0..(NanosPerSec - 1)]

ASSUME TimespecReference ==
  \A a, b \in Times :
    /\ Nanos(Plus(a, b)) = Nanos(a) + Nanos(b) /\ Normal(Plus(a, b))
    /\ Nanos(Minus(a, b)) = Nanos(a) - Nanos(b)
    /\ ~Less(a, b) => Normal(Minus(a, b))
    /\ Less(a, b) <=> Nanos(a) < Nanos(b)

ASSUME MicrosReference ==
  \A us \in 0..(3 * MicrosPerSec) :
    Normal(Micros(us)) /\ Nanos(Micros(us)) = us * NanosPerMicro /\ convert_us(Micros(us)) = us
===============================================================================
