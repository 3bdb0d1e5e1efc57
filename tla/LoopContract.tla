----------------------------- MODULE LoopContract -----------------------------
(***************************************************************************)
(* What the code emitted for a loop promises to its function: it ends, and *)
(* then memory and accumulators are what the source loop leaves, or it     *)
(* panics where the source loop panics.  Nothing is promised about memory  *)
(* after a panic: the scalar loop stops between two elements, the vector   *)
(* loop between two chunks.                                                *)
(***************************************************************************)
CONSTANTS
  JobOK(_),         \* the loops and run-time values considered
  Mem0, Acc0,       \* memory and accumulators before the loop
  ScalarResult(_)   \* what the source loop of a job does

VARIABLES job, mem, acc, outcome

vars == <<job, mem, acc, outcome>>

Init ==
  /\ JobOK(job)
  /\ mem = Mem0 /\ acc = Acc0
  /\ outcome = "running"

Finish ==
  /\ outcome = "running" /\ outcome' = "done"
  /\ ~ScalarResult(job).panicked
  /\ mem' = ScalarResult(job).mem
  /\ acc' = ScalarResult(job).acc
  /\ UNCHANGED job

Panic ==
  /\ outcome = "running" /\ outcome' = "panic"
  /\ ScalarResult(job).panicked
  /\ UNCHANGED job

Spec == Init /\ [][Finish \/ Panic]_vars
=============================================================================
