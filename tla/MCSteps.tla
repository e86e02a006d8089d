------------------------------ MODULE MCSteps ------------------------------
(* Two processes; two ids that differ by case only and one of its own.       *)
EXTENDS Steps

CONSTANTS p, q, step, STEP, other, v1, v2

ProcsMC == {p, q}
IdsMC == {step, STEP, other}
AliasMC == [i \in IdsMC |-> IF i = other THEN {} ELSE {step, STEP} \ {i}]
VersionsMC == {v1, v2}
BeforeMC == [i \in IdsMC |-> IF i = step THEN v1 ELSE None]
=============================================================================
