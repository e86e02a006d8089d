------------------------------ MODULE MCCapture ------------------------------
(***************************************************************************)
(* A step of the main thread with a timeout, then a fan-out of two workers,*)
(* one with a timeout and one without.                                     *)
(***************************************************************************)
EXTENDS Capture

CONSTANTS w1, w2, m

MCWorker == {w1, w2}
MCSteps == [t \in {w1, w2, m} |-> 1]
MCTimed == {<<w2, 1>>, <<m, 1>>}
MCAlone == [t \in {w1, w2, m} |-> IF t = m THEN 1 ELSE 0]
MCAloneTimed == {<<m, 1>>}
=============================================================================
