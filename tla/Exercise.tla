------------------------------- MODULE Exercise -------------------------------
(***************************************************************************)
(* What the modules on the algorithm pages (algo/) share: one call of a     *)
(* function on some input, and what it returned.                            *)
(***************************************************************************)
EXTENDS Integers, Sequences, FiniteSets, TLC

CONSTANTS
    NULL,      \* NULL or nil
    Crash,     \* the code reads or writes through NULL, or outside the array
    Endless    \* it does not return

ASSUME OutcomeAssumption == Cardinality({NULL, Crash, Endless}) = 3

VARIABLES call,      \* the call made, <<>> before
          result     \* what it returned

NoCallYet ==
    /\ call = <<>>
    /\ result = NULL

Called(name, args, r) ==
    /\ call = <<>>
    /\ call' = <<name>> \o args
    /\ result' = r

\* A call of this name has been made.
Answered(name) == call # <<>> /\ call[1] = name
=============================================================================
