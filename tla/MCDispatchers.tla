---------------------------- MODULE MCDispatchers ----------------------------
(* Instances of Dispatchers for TLC. *)
EXTENDS Dispatchers

OneOfEach == <<"aperiodic", "periodic", "periodic_jitter">>
==============================================================================
