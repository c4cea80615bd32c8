------------------------------- MODULE Timespec -------------------------------
(***************************************************************************)
(* Points in time and lengths of time as utils/Operators and utils/TimeUtil *)
(* compute them: a record of seconds and nanoseconds.  The subdivision of  *)
(* the second is a parameter.                                              *)
(***************************************************************************)
EXTENDS Integers

CONSTANTS MicrosPerSec,   \* 1000000 in the code
          NanosPerMicro   \* 1000 in the code

ASSUME SubdivisionAssumption == MicrosPerSec \in Nat \ {0} /\ NanosPerMicro \in Nat \ {0}

NanosPerSec == MicrosPerSec * NanosPerMicro

Timespec  == [sec : Int, nsec : Int]
Normal(a) == a.nsec \in 0..(NanosPerSec - 1)

(* Reference: the number of nanoseconds a timespec stands for. *)
Nanos(a) == a.sec * NanosPerSec + a.nsec

(* operator + *)
Plus(a, b) ==
  LET sec  == a.sec + b.sec
      nsec == a.nsec + b.nsec
  IN  IF nsec > NanosPerSec - 1 THEN [sec |-> sec + 1, nsec |-> nsec - NanosPerSec]
      ELSE IF nsec < 0 THEN [sec |-> sec - 1, nsec |-> nsec + NanosPerSec]
      ELSE [sec |-> sec, nsec |-> nsec]

(* operator -: it borrows only if the difference of the seconds is positive. *)
Minus(a, b) ==
  IF a.nsec < b.nsec /\ a.sec - b.sec > 0
  THEN [sec |-> a.sec - b.sec - 1, nsec |-> a.nsec - b.nsec + NanosPerSec]
  ELSE [sec |-> a.sec - b.sec, nsec |-> a.nsec - b.nsec]

(* operator < *)
Less(a, b) == a.sec < b.sec \/ (a.sec = b.sec /\ a.nsec < b.nsec)

(* TimeUtil::Micros, for a length of time that is not negative. *)
Micros(us) ==
  IF us < MicrosPerSec
  THEN [sec |-> 0, nsec |-> us * NanosPerMicro]
  ELSE LET sec == us \div MicrosPerSec
       IN  [sec |-> sec, nsec |-> (us - sec * MicrosPerSec) * NanosPerMicro]

(* TimeUtil::convert_us *)
convert_us(a) == a.sec * MicrosPerSec + a.nsec \div NanosPerMicro
===============================================================================
