----------------------------- MODULE OnceResult -----------------------------
(***************************************************************************)
(* What the processes of one build rely on when they look something up     *)
(* through cached (cmd/loopvec-toolexec/simd.go): the lookup succeeds or   *)
(* fails once for the whole build, and every call of every process gets    *)
(* that outcome.                                                           *)
(***************************************************************************)
CONSTANT Processes

VARIABLES
  outcome,  \* what the lookup came to: "open", "result" or "error"
  answer    \* what each process's last call returned, "none" while it runs

vars == <<outcome, answer>>

Init ==
  /\ outcome = "open"
  /\ answer = [p \in Processes |-> "none"]

(* The first answer settles the lookup, the others repeat it.              *)
Answer(p) ==
  /\ answer[p] = "none"
  /\ outcome' \in IF outcome = "open" THEN {"result", "error"} ELSE {outcome}
  /\ answer' = [answer EXCEPT ![p] = outcome']

Call(p) ==
  /\ answer' = [answer EXCEPT ![p] = "none"]
  /\ UNCHANGED outcome

Next == \E p \in Processes : Answer(p) \/ Call(p)

Spec == Init /\ [][Next]_vars
=============================================================================
