------------------------------- MODULE MCFanOut -------------------------------
(* One fan-out of three items with two workers and a step after it: more     *)
(* items than threads, so the window has to move.                            *)
EXTENDS WorkflowExecution

CONSTANTS f, i1, i2, i3, z, run

MCNode == {f, i1, i2, i3, z}
MCKind == [n \in MCNode |-> IF n = f THEN "fanout" ELSE "leaf"]
MCParent == [n \in MCNode |-> IF n \in {f, z} THEN run ELSE f]
MCSlot == [n \in MCNode |-> IF n = i2 THEN 2 ELSE IF n = i3 THEN 3 ELSE 1]
MCPos == [n \in MCNode |-> IF n = z THEN 2 ELSE 1]
=============================================================================
