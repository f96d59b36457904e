--------------------------- MODULE MCSingleFlight ---------------------------
(* Instances of SingleFlight for TLC. *)
EXTENDS SingleFlight, TLC

CONSTANTS p1, p2, p3

TwoProcs == {p1, p2}
ThreeProcs == {p1, p2, p3}

(* Without skew the callers are interchangeable. *)
NoSkew == [p \in Procs |-> 0]
FirstAhead == [p \in Procs |-> IF p = p1 THEN 1 ELSE 0]
ProcSymmetry == Permutations(Procs)
=============================================================================
