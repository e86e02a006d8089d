---------------------------- MODULE RunLifecycle ----------------------------
(***************************************************************************)
(* What a workflow run promises to whoever reads its state file, without   *)
(* the tree, the threads, the failures or the processes that work on it:   *)
(* the life cycle of RunStatus, and steps that are completed in order and  *)
(* stay completed.                                                         *)
(***************************************************************************)
CONSTANTS
  Step,   \* step occurrences
  Prior,  \* Prior[n]: the steps before n in the sequence of n
  Top     \* the steps of the root sequence

VARIABLES
  status, \* RunStatus on disk
  done    \* the occurrences recorded as completed

Stopped == {"paused", "failed", "aborted", "completed"}

Init == status = "created" /\ done = {}

\* Whatever a checkpoint adds to done, it adds in order and removes nothing.
Grows ==
  /\ done \subseteq done' /\ done' \subseteq Step
  /\ \A n \in done' : Prior[n] \subseteq done'

Begin == status = "created" /\ status' = "running" /\ done' = done

Advance == status = "running" /\ status' = "running" /\ Grows

Stop ==
  /\ status = "running" /\ status' \in Stopped /\ Grows
  /\ status' = "completed" => Top \subseteq done'

Resume == status \in {"paused", "failed"} /\ status' = "running" /\ done' = done

Next == Begin \/ Advance \/ Stop \/ Resume

Spec == Init /\ [][Next]_<<status, done>>
=============================================================================
