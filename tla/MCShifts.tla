------------------------------- MODULE MCShifts -------------------------------
(* Small instances of Shifts. *)
EXTENDS Shifts, TLC

CONSTANTS s1, s2, o1, u1, u2

TwoEach == [o \in Orders |-> 2]
Entered == {-1, 1}
Interchangeable == Permutations(Shifts) \cup Permutations(Users)
=============================================================================
