---------------------------- MODULE MCSequential ----------------------------
(* A root sequence of a branch step and a tolerant workflow call whose body  *)
(* is a loop and a last step: every sequential way to own children.          *)
EXTENDS WorkflowExecution

CONSTANTS b, b1, b2, w, l, l1, l2, x, run

MCNode == {b, b1, b2, w, l, l1, l2, x}
MCKind == [n \in MCNode |-> CASE n = b -> "block" [] n = w -> "call"
                              [] n = l -> "loop" [] OTHER -> "leaf"]
MCParent == [n \in MCNode |-> CASE n \in {b, w} -> run [] n \in {b1, b2} -> b
                                [] n \in {l, x} -> w [] OTHER -> l]
MCSlot == [n \in MCNode |-> IF n \in {b2, l2} THEN 2 ELSE 1]
MCPos == [n \in MCNode |-> IF n \in {w, x} THEN 2 ELSE 1]
MCTolerant == {w}
=============================================================================
