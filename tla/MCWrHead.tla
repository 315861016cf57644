------------------------------ MODULE MCWrHead ------------------------------
(* Small instances of WrHead for TLC.                                      *)
EXTENDS WrHead, TLC

CONSTANTS p1, p2, p3, p4, r1, r2, r3, c1, c2, v1, v2

Min1 == [v \in Conf |-> 1]
Max1 == [v \in Conf |-> 1]
Min2 == [v \in Conf |-> 2]
Max2 == [v \in Conf |-> 2]

(* Processes, requests, administrators and configurations of equal limits   *)
(* are interchangeable.                                                     *)
Symmetry == Permutations(Pid) \cup Permutations(Req)
SymmetryAll == Symmetry \cup Permutations(Ctl) \cup Permutations(Conf)
=============================================================================
