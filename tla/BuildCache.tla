----------------------------- MODULE BuildCache -----------------------------
(***************************************************************************)
(* cached of cmd/loopvec-toolexec/simd.go for one name.  The go command    *)
(* runs a compiler or linker process per package, many at a time, and each *)
(* asks for the same listings: a file in the build's directory holds the   *)
(* listing, a second one, .err, the reason it could not be had, and a lock *)
(* file serializes who looks.  An action is one system call or the nested  *)
(* go command.                                                             *)
(***************************************************************************)
EXTENDS Naturals

CONSTANTS
  Processes,    \* the processes of the build
  NoProcess,    \* "nobody holds the lock"
  HasFlock,     \* lock_unix.go, or lock_other.go where lockFile does nothing
  Faults,       \* what may go wrong, a subset of FaultKind
  MaxCalls      \* bound: calls one process makes

(* The lookup fails, a file cannot be opened for writing, or written, or   *)
(* read, or the process is killed.                                         *)
FaultKind == {"compute", "create", "write", "read", "kill"}

ASSUME CacheAssumption ==
  /\ NoProcess \notin Processes
  /\ HasFlock \in BOOLEAN
  /\ Faults \subseteq FaultKind
  /\ MaxCalls \in Nat \ {0}

VARIABLES
  pc,           \* where each process is in cached
  holder,       \* who holds the lock
  result,       \* the result file: "absent", created and cut short ("part"), or "whole"
  errFile,      \* whether the .err file is there
  answer,       \* what the last call of each process returned, "none" while it runs
  calls,        \* calls each process has begun
  computations, \* how often the listing was computed
  missed,       \* history: who could not read, in its last call, a result that is there
  mishaps       \* history: what went wrong so far beside the lookup itself, see Mishap

vars == <<pc, holder, result, errFile, answer, calls, computations, missed, mishaps>>

(* An open or a read failed, a write was stopped half way, or a process    *)
(* was killed elsewhere.                                                   *)
Mishap == {"failed", "stopped", "killed"}

Init ==
  /\ pc = [p \in Processes |-> "call"]
  /\ holder = NoProcess
  /\ result = "absent" /\ errFile = FALSE
  /\ answer = [p \in Processes |-> "none"]
  /\ calls = [p \in Processes |-> 1]
  /\ computations = 0
  /\ missed = {} /\ mishaps = {}

At(p, label) == pc[p] = label
Goto(p, label) == pc' = [pc EXCEPT ![p] = label]
Return(p, value) ==
  /\ answer' = [answer EXCEPT ![p] = value]
  /\ Goto(p, "unlock")
GoesWrong(kind) == mishaps' = mishaps \union {kind}

(* A slip: the lock file is opened but nobody waits for it.                *)
LockAnyway(p) ==
  /\ At(p, "call")
  /\ holder' = p
  /\ Goto(p, "err")
  /\ UNCHANGED <<result, errFile, answer, calls, computations, missed, mishaps>>

(* lockFile: flock waits until nobody holds the file.                      *)
Lock(p) ==
  /\ At(p, "call")
  /\ IF HasFlock THEN holder = NoProcess /\ holder' = p ELSE UNCHANGED holder
  /\ Goto(p, "err")
  /\ UNCHANGED <<result, errFile, answer, calls, computations, missed, mishaps>>

(* The lock file cannot be opened.                                         *)
LockFails(p) ==
  /\ At(p, "call") /\ HasFlock /\ "create" \in Faults
  /\ answer' = [answer EXCEPT ![p] = "error"]
  /\ Goto(p, "returned")
  /\ GoesWrong("failed")
  /\ UNCHANGED <<holder, result, errFile, calls, computations, missed>>

(* A slip: nobody looks for a remembered failure.                          *)
ReadErrNever(p) ==
  /\ At(p, "err") /\ Goto(p, "result")
  /\ UNCHANGED <<holder, result, errFile, answer, calls, computations, missed, mishaps>>

(* The .err file counts as soon as it is there, whatever it holds; one     *)
(* that cannot be read counts as absent.                                   *)
ReadErr(p) ==
  /\ At(p, "err")
  /\ \/ errFile /\ Return(p, "error") /\ UNCHANGED mishaps
     \/ ~errFile /\ Goto(p, "result") /\ UNCHANGED <<answer, mishaps>>
     \/ errFile /\ "read" \in Faults /\ Goto(p, "result") /\ GoesWrong("failed") /\ UNCHANGED answer
  /\ UNCHANGED <<holder, result, errFile, calls, computations, missed>>

(* So does the result: what is in the file is the answer.                  *)
ReadResult(p) ==
  /\ At(p, "result")
  /\ \/ result # "absent" /\ Return(p, result) /\ UNCHANGED <<missed, mishaps>>
     \/ result = "absent" /\ Goto(p, "compute") /\ UNCHANGED <<answer, missed, mishaps>>
     \/ /\ result # "absent" /\ "read" \in Faults
        /\ Goto(p, "compute") /\ GoesWrong("failed")
        /\ missed' = missed \union {p} /\ UNCHANGED answer
  /\ UNCHANGED <<holder, result, errFile, calls, computations>>

(* The nested go command.                                                  *)
Compute(p) ==
  /\ At(p, "compute")
  /\ \/ Goto(p, "create")
     \/ "compute" \in Faults /\ Goto(p, "fail")
  /\ computations' = computations + 1
  /\ UNCHANGED <<holder, result, errFile, answer, calls, missed, mishaps>>

(* A slip: a failure is returned but not written down.                     *)
FailForgotten(p) ==
  /\ At(p, "fail")
  /\ Return(p, "error")
  /\ UNCHANGED <<holder, result, errFile, calls, computations, missed, mishaps>>

(* The failure is written to .err; an error from that is ignored.          *)
Fail(p) ==
  /\ At(p, "fail")
  /\ \/ errFile' = TRUE /\ UNCHANGED mishaps
     \/ "create" \in Faults /\ GoesWrong("failed") /\ UNCHANGED errFile
  /\ Return(p, "error")
  /\ UNCHANGED <<holder, result, calls, computations, missed>>

(* os.WriteFile: the file is created, or an existing one cut to nothing,   *)
(* and then written.  Either may fail, a full disk say, and what is there  *)
(* stays.                                                                  *)
Create(p) ==
  /\ At(p, "create")
  /\ result' = "part"
  /\ Goto(p, "write")
  /\ UNCHANGED <<holder, errFile, answer, calls, computations, missed, mishaps>>

CreateFails(p) ==
  /\ At(p, "create") /\ "create" \in Faults
  /\ Return(p, "error")
  /\ GoesWrong("failed")
  /\ UNCHANGED <<holder, result, errFile, calls, computations, missed>>

Write(p) ==
  /\ At(p, "write")
  /\ result' = "whole"
  /\ Return(p, "whole")
  /\ UNCHANGED <<holder, errFile, calls, computations, missed, mishaps>>

WriteFails(p) ==
  /\ At(p, "write") /\ "write" \in Faults
  /\ Return(p, "error")
  /\ GoesWrong("stopped")
  /\ UNCHANGED <<holder, result, errFile, calls, computations, missed>>

(* A slip: the lock is kept until the process exits.                       *)
UnlockLater(p) ==
  /\ At(p, "unlock")
  /\ Goto(p, "returned")
  /\ UNCHANGED <<holder, result, errFile, answer, calls, computations, missed, mishaps>>

Unlock(p) ==
  /\ At(p, "unlock")
  /\ holder' = IF HasFlock THEN NoProcess ELSE holder
  /\ Goto(p, "returned")
  /\ UNCHANGED <<result, errFile, answer, calls, computations, missed, mishaps>>

(* A process may ask again: tryRewrite and recordVariant both look the     *)
(* skip set up.                                                            *)
CallAgain(p) ==
  /\ At(p, "returned") /\ calls[p] < MaxCalls
  /\ Goto(p, "call")
  /\ answer' = [answer EXCEPT ![p] = "none"]
  /\ calls' = [calls EXCEPT ![p] = @ + 1]
  /\ missed' = missed \ {p}
  /\ UNCHANGED <<holder, result, errFile, computations, mishaps>>

(* A process that is killed loses its lock, and leaves the files.          *)
Kill(p) ==
  /\ "kill" \in Faults
  /\ pc[p] \notin {"returned", "killed"}
  /\ holder' = IF holder = p THEN NoProcess ELSE holder
  /\ Goto(p, "killed")
  /\ GoesWrong(IF At(p, "write") THEN "stopped" ELSE "killed")
  /\ UNCHANGED <<result, errFile, answer, calls, computations, missed>>

(* What a process does by itself, and what goes wrong instead.             *)
Progress(p) ==
  \/ Lock(p) \/ ReadErr(p) \/ ReadResult(p) \/ Compute(p) \/ Fail(p)
  \/ Create(p) \/ Write(p) \/ Unlock(p)

Step(p) == Progress(p) \/ LockFails(p) \/ CreateFails(p) \/ WriteFails(p)

Next == \E p \in Processes : Step(p) \/ CallAgain(p) \/ Kill(p)

Spec == Init /\ [][Next]_vars

(* A process that is inside cached and can go on does.  Nothing makes a    *)
(* system call fail, or a process ask again or be killed.                  *)
FairSpec == Spec /\ \A p \in Processes : WF_vars(Progress(p))
-----------------------------------------------------------------------------
(* The state is well formed.                                               *)
TypeOK ==
  /\ pc \in [Processes -> {"call", "err", "result", "compute", "fail", "create", "write",
                           "unlock", "returned", "killed"}]
  /\ holder \in Processes \cup {NoProcess}
  /\ result \in {"absent", "part", "whole"}
  /\ errFile \in BOOLEAN
  /\ answer \in [Processes -> {"none", "part", "whole", "error"}]
  /\ calls \in [Processes -> 1..MaxCalls]
  /\ computations \in Nat
  /\ missed \subseteq Processes /\ mishaps \subseteq Mishap

(* cached: "computes name once per build", also when it fails, as long as  *)
(* nothing goes wrong but the lookup itself.                               *)
ComputedOnce == mishaps = {} => computations <= 1

(* Until a write is stopped half way, no call returns a listing that is cut*)
(* short: a skip set with packages missing would let a package be rewritten*)
(* that simd depends on.  A file is written in place, the second time over *)
(* a listing that is there, so this rests on the lock whatever cannot be   *)
(* read or opened and whoever else is killed.                              *)
WholeAnswers == "stopped" \notin mishaps => \A p \in Processes : answer[p] # "part"

(* A listing that is there is cut to nothing only by the process inside,   *)
(* and only one that could not read it: whatever else goes wrong, whoever  *)
(* looked for the listing before it was there never writes over it.        *)
ResultStays ==
  [][result = "whole" /\ result' # "whole" => \E p \in missed : holder = p]_vars

(* What does no harm to the lookup: it fails itself, or a process is killed*)
(* that is not writing.                                                    *)
Harmless == mishaps \subseteq {"killed"}

(* cached: "a failure is remembered as well".  Once a call failed, no call *)
(* returns a listing.                                                      *)
FailureRemembered ==
  [][Harmless' =>
       \A p, q \in Processes :
         answer[p] = "error" /\ answer[q] = "none" => answer'[q] \in {"none", "error"}]_vars

(* What the files say of the lookup, and an answer in those words.         *)
Outcome == IF errFile THEN "error" ELSE IF result = "whole" THEN "result" ELSE "open"
Reported(value) == IF value = "whole" THEN "result" ELSE value

Once == INSTANCE OnceResult WITH
  outcome <- Outcome,
  answer <- [p \in Processes |-> Reported(answer[p])]

(* cached: "computes name once per build".  As long as nothing goes wrong  *)
(* that does harm, the processes of a build see one lookup that succeeds or*)
(* fails once, and all get what it came to: every step is one of OnceResult*)
(* or changes nothing there.                                               *)
ImplementsOnce == Once!Init /\ [][Harmless' => Once!Next]_(Once!vars)

(* Every call returns, unless its process is killed: nobody waits forever  *)
(* for a lock whose holder failed or is gone.                              *)
Returns == \A p \in Processes : At(p, "call") ~> pc[p] \in {"returned", "killed"}
=============================================================================
