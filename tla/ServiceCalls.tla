----------------------------- MODULE ServiceCalls -----------------------------
(* What the small services share: users, and slots for calls under way. *)
EXTENDS Integers, Sequences, FiniteSetsExt

CONSTANTS
    Users,          \* babysitters and parents
    None,           \* SQL null
    Calls,          \* slots for calls under way
    MaxCalls        \* bound: calls

ASSUME CallsAssumption == MaxCalls \in Nat \ {0}
ASSUME NullAssumption == None \notin Users /\ None \notin Nat

VARIABLE called     \* how many calls began

Counted == called < MaxCalls /\ called' = called + 1
=============================================================================
