-------------------------- MODULE BuildCacheProofs --------------------------
(***************************************************************************)
(* Theorems about BuildCache for any set of processes and any faults,      *)
(* where files can be locked: only a process that could not read a listing *)
(* ever tears it; until a write is stopped half way nobody is given a torn *)
(* one; until an open, a read or a write fails the processes see one       *)
(* lookup; and until anything goes wrong it is computed once.              *)
(***************************************************************************)
EXTENDS BuildCache, TLAPS

(* The places between taking the lock and giving it back.                  *)
Inside == {"err", "result", "compute", "fail", "create", "write", "unlock"}

(* The process inside is the one that holds the lock.                      *)
HolderInv == \A p \in Processes : pc[p] \in Inside <=> holder = p

(* Whoever looks the listing up found none, or could not read it.          *)
LookupInv ==
  \A p \in Processes :
    /\ pc[p] \in {"compute", "fail", "create"} => result = "absent" \/ p \in missed
    /\ pc[p] = "write" => result = "part"

LockInv == TypeOK /\ HolderInv /\ LookupInv

LEMMA LockInvInit == Init => LockInv
<1> SUFFICES ASSUME Init PROVE LockInv
  OBVIOUS
<1>1. TypeOK
  <2>1. calls \in [Processes -> 1..MaxCalls]
    BY CacheAssumption, 1 \in 1..MaxCalls DEF Init
  <2> QED
    BY <2>1 DEF Init, TypeOK
<1>2. \A p \in Processes : pc[p] = "call" /\ holder # p
  BY CacheAssumption DEF Init
<1>3. HolderInv /\ LookupInv
  BY <1>2 DEF HolderInv, LookupInv, Inside
<1> QED
  BY <1>1, <1>3 DEF LockInv

(* Each step of a process keeps the lock and the files in line.            *)
LEMMA LockInvStep == ASSUME HasFlock, LockInv, [Next]_vars PROVE LockInv'
<1> USE CacheAssumption DEF LockInv, TypeOK, HolderInv, LookupInv, Inside, At, Goto, Return, GoesWrong, Mishap
<1>1. ASSUME NEW p \in Processes, Lock(p) PROVE LockInv'
  BY <1>1 DEF Lock
<1>2. ASSUME NEW p \in Processes, LockFails(p) PROVE LockInv'
  BY <1>2 DEF LockFails
<1>3. ASSUME NEW p \in Processes, ReadErr(p) PROVE LockInv'
  <2>1. /\ pc[p] = "err" /\ UNCHANGED <<holder, result, errFile, calls, computations, missed>>
        /\ pc' = [pc EXCEPT ![p] = "unlock"] \/ pc' = [pc EXCEPT ![p] = "result"]
    BY <1>3 DEF ReadErr
  <2>2. answer' \in [Processes -> {"none", "part", "whole", "error"}] /\ mishaps' \subseteq Mishap
    BY <1>3 DEF ReadErr
  <2>3. TypeOK'
    BY <2>1, <2>2
  <2>4. HolderInv'
    BY <2>1
  <2>5. LookupInv'
    BY <2>1
  <2> QED
    BY <2>3, <2>4, <2>5
<1>4. ASSUME NEW p \in Processes, ReadResult(p) PROVE LockInv'
  <2>1. /\ pc[p] = "result" /\ UNCHANGED <<holder, result, errFile, calls, computations>>
        /\ \/ pc' = [pc EXCEPT ![p] = "unlock"] /\ missed' = missed
           \/ pc' = [pc EXCEPT ![p] = "compute"] /\ result = "absent" /\ missed' = missed
           \/ pc' = [pc EXCEPT ![p] = "compute"] /\ missed' = missed \union {p}
    BY <1>4 DEF ReadResult
  <2>2. answer' \in [Processes -> {"none", "part", "whole", "error"}] /\ mishaps' \subseteq Mishap
    BY <1>4 DEF ReadResult
  <2> QED
    BY <2>1, <2>2
<1>5. ASSUME NEW p \in Processes, Compute(p) PROVE LockInv'
  BY <1>5 DEF Compute
<1>6. ASSUME NEW p \in Processes, Fail(p) PROVE LockInv'
  BY <1>6 DEF Fail
<1>7. ASSUME NEW p \in Processes, Create(p) PROVE LockInv'
  BY <1>7 DEF Create
<1>8. ASSUME NEW p \in Processes, CreateFails(p) PROVE LockInv'
  BY <1>8 DEF CreateFails
<1>9. ASSUME NEW p \in Processes, Write(p) PROVE LockInv'
  BY <1>9 DEF Write
<1>10. ASSUME NEW p \in Processes, WriteFails(p) PROVE LockInv'
  BY <1>10 DEF WriteFails
<1>11. ASSUME NEW p \in Processes, Unlock(p) PROVE LockInv'
  BY <1>11 DEF Unlock
<1>12. ASSUME NEW p \in Processes, CallAgain(p) PROVE LockInv'
  BY <1>12 DEF CallAgain
<1>13. ASSUME NEW p \in Processes, Kill(p) PROVE LockInv'
  BY <1>13 DEF Kill
<1>14. CASE UNCHANGED vars
  BY <1>14 DEF vars
<1> QED
  BY <1>1, <1>2, <1>3, <1>4, <1>5, <1>6, <1>7, <1>8, <1>9, <1>10, <1>11, <1>12,
     <1>13, <1>14 DEF Next, Step, Progress

THEOREM LockInvariance == ASSUME HasFlock PROVE Spec => []LockInv
<1>1. Init => LockInv
  BY LockInvInit
<1>2. LockInv /\ [Next]_vars => LockInv'
  BY LockInvStep
<1> QED
  BY <1>1, <1>2, PTL DEF Spec

(* Whatever fails and whoever is killed, a listing that is whole is cut    *)
(* only by the process that holds the lock and could not read it.          *)
THEOREM ResultTornByItsReader == ASSUME HasFlock PROVE Spec => ResultStays
<1>1. ASSUME LockInv, [Next]_vars, result = "whole", result' # "whole"
      PROVE  \E p \in missed : holder = p
  <2>1. ASSUME NEW p \in Processes, Create(p) PROVE \E q \in missed : holder = q
    <3>1. pc[p] = "create" /\ holder = p
      BY <1>1, <2>1 DEF Create, At, LockInv, HolderInv, Inside
    <3>2. p \in missed
      BY <1>1, <3>1 DEF LockInv, LookupInv
    <3> QED
      BY <3>1, <3>2
  <2> QED
    BY <1>1, <2>1 DEF Next, Step, Progress, Lock, LockFails, ReadErr, ReadResult, Compute, Fail,
       CreateFails, Write, WriteFails, Unlock, CallAgain, Kill, vars
<1>2. LockInv /\ [Next]_vars =>
        [result = "whole" /\ result' # "whole" => \E p \in missed : holder = p]_vars
  BY <1>1
<1> QED
  BY <1>2, LockInvariance, PTL DEF Spec, ResultStays
-----------------------------------------------------------------------------
(* Until a write is stopped half way, a listing that is cut short is being *)
(* written.                                                                *)
TornInv == "stopped" \notin mishaps => (result = "part" => \E p \in Processes : pc[p] = "write")
NoneTornInv == LockInv /\ TornInv /\ WholeAnswers

LEMMA NoneTornStep ==
  ASSUME HasFlock, NoneTornInv, [Next]_vars
  PROVE  TornInv' /\ WholeAnswers'
<1> USE DEF NoneTornInv, LockInv, TypeOK, TornInv, WholeAnswers, At, Goto, Return, GoesWrong
<1>1. ASSUME NEW p \in Processes, Create(p) \/ Write(p) PROVE TornInv' /\ WholeAnswers'
  BY <1>1 DEF Create, Write
<1>2. ASSUME NEW p \in Processes, ReadResult(p) PROVE TornInv' /\ WholeAnswers'
  <2>1. "stopped" \notin mishaps => result # "part"
    \* Whoever writes is inside, and p is.
    BY <1>2 DEF ReadResult, HolderInv, Inside
  <2> QED
    BY <1>2, <2>1 DEF ReadResult
<1>3. ASSUME NEW p \in Processes, ReadErr(p) \/ Fail(p) \/ CreateFails(p) \/ LockFails(p) \/ CallAgain(p)
      PROVE  TornInv' /\ WholeAnswers'
  BY <1>3 DEF ReadErr, Fail, CreateFails, LockFails, CallAgain
<1>4. ASSUME NEW p \in Processes, Lock(p) \/ Compute(p) \/ Unlock(p) PROVE TornInv' /\ WholeAnswers'
  BY <1>4 DEF Lock, Compute, Unlock
<1>5. ASSUME NEW p \in Processes, WriteFails(p) PROVE TornInv' /\ WholeAnswers'
  BY <1>5 DEF WriteFails
<1>6. ASSUME NEW p \in Processes, Kill(p) PROVE TornInv' /\ WholeAnswers'
  BY <1>6 DEF Kill
<1>7. CASE UNCHANGED vars
  BY <1>7 DEF vars
<1> QED
  BY <1>1, <1>2, <1>3, <1>4, <1>5, <1>6, <1>7 DEF Next, Step, Progress

(* Until a write is stopped half way no process is given a listing that is *)
(* cut short, also where one that could not be read is written over.       *)
THEOREM NeverCutShort == ASSUME HasFlock PROVE Spec => []WholeAnswers
<1>1. Init => NoneTornInv
  BY LockInvInit DEF Init, NoneTornInv, TornInv, WholeAnswers
<1>2. NoneTornInv /\ [Next]_vars => NoneTornInv'
  BY LockInvStep, NoneTornStep DEF NoneTornInv
<1>3. NoneTornInv => WholeAnswers
  BY DEF NoneTornInv
<1> QED
  BY <1>1, <1>2, <1>3, PTL DEF Spec
-----------------------------------------------------------------------------
(* From here on nothing does harm but the lookup itself.                   *)

(* Nobody looks the listing up or writes it once a failure is recorded,    *)
(* and a listing that is not yet whole has a process writing it.           *)
OnceInv ==
  /\ \A p \in Processes :
       pc[p] \in {"result", "compute", "fail", "create", "write"} => ~errFile
  /\ result = "part" => \E p \in Processes : pc[p] = "write"
  /\ errFile => result = "absent"
  /\ missed = {}

(* Nobody has an answer before there is one.                               *)
AnswerInv ==
  \A p \in Processes : pc[p] \notin {"unlock", "returned", "killed"} => answer[p] = "none"

(* An error that was returned is written down.                             *)
AnsweredInv == \A p \in Processes : answer[p] = "error" => errFile

(* What was computed is on its way into a file, or in one.                 *)
CountInv ==
  /\ computations <= 1
  /\ computations = 1 =>
       errFile \/ result # "absent" \/ \E p \in Processes : pc[p] \in {"fail", "create"}

HarmlessInv == Harmless => OnceInv /\ AnswerInv /\ AnsweredInv
CountedInv == mishaps = {} => CountInv

FullInv == LockInv /\ HarmlessInv /\ CountedInv

LEMMA FullInvInit == Init => FullInv
<1> SUFFICES ASSUME Init PROVE FullInv
  OBVIOUS
<1>1. \A p \in Processes : pc[p] = "call" /\ answer[p] = "none"
  BY DEF Init
<1>2. result = "absent" /\ ~errFile /\ computations = 0 /\ missed = {}
  BY DEF Init
<1> QED
  BY <1>1, <1>2, LockInvInit DEF FullInv, HarmlessInv, CountedInv, OnceInv, CountInv, AnswerInv, AnsweredInv

(* What has gone wrong is not forgotten.                                   *)
LEMMA MishapsGrow == ASSUME [Next]_vars PROVE mishaps \subseteq mishaps'
<1> USE DEF GoesWrong
<1>1. ASSUME NEW p \in Processes, Progress(p) PROVE mishaps \subseteq mishaps'
  BY <1>1 DEF Progress, Lock, ReadErr, ReadResult, Compute, Fail, Create, Write, Unlock
<1>2. ASSUME NEW p \in Processes, LockFails(p) \/ CreateFails(p) \/ WriteFails(p) \/ CallAgain(p) \/ Kill(p)
      PROVE  mishaps \subseteq mishaps'
  BY <1>2 DEF LockFails, CreateFails, WriteFails, CallAgain, Kill
<1>3. CASE UNCHANGED vars
  BY <1>3 DEF vars
<1> QED
  BY <1>1, <1>2, <1>3 DEF Next, Step

(* A step that does no harm is none of a failing system call.              *)
LEMMA HarmlessSteps ==
  ASSUME Harmless', [Next]_vars
  PROVE  /\ Harmless
         /\ \A p \in Processes :
              /\ ~LockFails(p) /\ ~CreateFails(p) /\ ~WriteFails(p)
              /\ ReadErr(p) => UNCHANGED mishaps /\ IF errFile THEN Return(p, "error") ELSE Goto(p, "result") /\ UNCHANGED answer
              /\ ReadResult(p) => /\ UNCHANGED <<mishaps, missed>>
                                  /\ IF result # "absent" THEN Return(p, result)
                                     ELSE Goto(p, "compute") /\ UNCHANGED answer
              /\ Fail(p) => errFile' = TRUE /\ UNCHANGED mishaps
              /\ Kill(p) => pc[p] # "write"
<1> USE DEF Harmless, GoesWrong
<1>1. mishaps \subseteq mishaps'
  BY MishapsGrow
<1>2. "failed" \notin mishaps' /\ "stopped" \notin mishaps'
  OBVIOUS
<1> QED
  BY <1>1, <1>2 DEF LockFails, CreateFails, WriteFails, ReadErr, ReadResult, Fail, Kill, At

(* The files and the answers, one case per action.                         *)
LEMMA OnceStep ==
  ASSUME HasFlock, LockInv, HarmlessInv, Harmless', [Next]_vars
  PROVE  OnceInv' /\ AnswerInv' /\ AnsweredInv'
<1> DEFINE Goal == OnceInv /\ AnswerInv /\ AnsweredInv
<1>0. Goal
  BY HarmlessSteps DEF HarmlessInv
<1> USE <1>0, CacheAssumption DEF LockInv, TypeOK, HolderInv, LookupInv, OnceInv, AnswerInv, AnsweredInv,
    Inside, At, Goto, Return
<1>1. ASSUME NEW p \in Processes, Lock(p) PROVE Goal'
  BY <1>1 DEF Lock
<1>2. ASSUME NEW p \in Processes, ReadErr(p) PROVE Goal'
  <2>1. /\ pc[p] = "err" /\ UNCHANGED <<holder, result, errFile, calls, computations, missed>>
        /\ IF errFile THEN Return(p, "error") ELSE Goto(p, "result") /\ UNCHANGED answer
    BY <1>2, HarmlessSteps DEF ReadErr
  <2> QED
    BY <2>1
<1>3. ASSUME NEW p \in Processes, ReadResult(p) PROVE Goal'
  BY <1>3, HarmlessSteps DEF ReadResult
<1>4. ASSUME NEW p \in Processes, Compute(p) PROVE Goal'
  BY <1>4 DEF Compute
<1>5. ASSUME NEW p \in Processes, Fail(p) PROVE Goal'
  <2>1. errFile' = TRUE
    BY <1>5, HarmlessSteps
  <2>3. pc[p] = "fail" /\ result = "absent"
    BY <1>5 DEF Fail
  <2>2. Return(p, "error") /\ UNCHANGED <<holder, result, calls, computations, missed>>
    BY <1>5 DEF Fail
  <2> QED
    BY <2>1, <2>2, <2>3
<1>6. ASSUME NEW p \in Processes, Create(p) PROVE Goal'
  BY <1>6 DEF Create
<1>7. ASSUME NEW p \in Processes, Write(p) PROVE Goal'
  BY <1>7 DEF Write
<1>8. ASSUME NEW p \in Processes, Unlock(p) PROVE Goal'
  BY <1>8 DEF Unlock
<1>9. ASSUME NEW p \in Processes, CallAgain(p) PROVE Goal'
  BY <1>9 DEF CallAgain
<1>10. ASSUME NEW p \in Processes, Kill(p) PROVE Goal'
  BY <1>10, HarmlessSteps DEF Kill
<1>11. CASE UNCHANGED vars
  BY <1>11 DEF vars
<1> QED
  BY <1>1, <1>2, <1>3, <1>4, <1>5, <1>6, <1>7, <1>8, <1>9, <1>10, <1>11, HarmlessSteps DEF Next, Step, Progress

(* The count, while nothing at all has gone wrong.                         *)
LEMMA CountStep ==
  ASSUME HasFlock, FullInv, mishaps' = {}, [Next]_vars
  PROVE  CountInv'
<1>1. mishaps = {} /\ Harmless /\ Harmless'
  BY MishapsGrow DEF Harmless
<1>2. LockInv /\ OnceInv /\ CountInv
  BY <1>1 DEF FullInv, HarmlessInv, CountedInv
<1> USE <1>2 DEF LockInv, TypeOK, HolderInv, LookupInv, OnceInv, CountInv, Inside, At, Goto, Return
<1>3. ASSUME NEW p \in Processes, Lock(p) \/ Unlock(p) \/ CallAgain(p) PROVE CountInv'
  BY <1>3 DEF Lock, Unlock, CallAgain
<1>4. ASSUME NEW p \in Processes, ReadErr(p) PROVE CountInv'
  BY <1>4 DEF ReadErr
<1>5. ASSUME NEW p \in Processes, ReadResult(p) PROVE CountInv'
  BY <1>5 DEF ReadResult
<1>6. ASSUME NEW p \in Processes, Compute(p) PROVE CountInv'
  BY <1>6 DEF Compute
<1>7. ASSUME NEW p \in Processes, Fail(p) PROVE CountInv'
  BY <1>1, <1>7, HarmlessSteps DEF Fail
<1>8. ASSUME NEW p \in Processes, Create(p) \/ Write(p) PROVE CountInv'
  BY <1>8 DEF Create, Write
<1>9. ASSUME NEW p \in Processes PROVE ~LockFails(p) /\ ~CreateFails(p) /\ ~WriteFails(p) /\ ~Kill(p)
  BY DEF LockFails, CreateFails, WriteFails, Kill, GoesWrong
<1>10. CASE UNCHANGED vars
  BY <1>10 DEF vars
<1> QED
  BY <1>3, <1>4, <1>5, <1>6, <1>7, <1>8, <1>9, <1>10 DEF Next, Step, Progress

(* The invariant of the theorems that follow.                              *)
THEOREM FullInvariance == ASSUME HasFlock PROVE Spec => []FullInv
<1>1. Init => FullInv
  BY FullInvInit
<1>2. FullInv /\ [Next]_vars => FullInv'
  BY LockInvStep, OnceStep, CountStep DEF FullInv, HarmlessInv, CountedInv
<1> QED
  BY <1>1, <1>2, PTL DEF Spec

(* As long as nothing goes wrong but the lookup, the nested go command     *)
(* runs at most once, however many processes ask.                          *)
THEOREM ComputesOnce == ASSUME HasFlock PROVE Spec => []ComputedOnce
<1>1. FullInv => ComputedOnce
  BY DEF FullInv, CountedInv, CountInv, ComputedOnce
<1> QED
  BY <1>1, FullInvariance, PTL

(* One answer more is one answer more in the words of OnceResult.          *)
LEMMA ReportedAnswers ==
  ASSUME TypeOK, NEW p \in Processes, NEW value,
         answer' = [answer EXCEPT ![p] = value]
  PROVE  [q \in Processes |-> Reported(answer[q])]'
           = [[q \in Processes |-> Reported(answer[q])] EXCEPT ![p] = Reported(value)]
<1>1. \A q \in Processes : answer'[q] = IF q = p THEN value ELSE answer[q]
  BY DEF TypeOK
<1>2. \A q \in Processes :
        Reported(answer'[q]) = IF q = p THEN Reported(value) ELSE Reported(answer[q])
  BY <1>1
<1> QED
  BY <1>2

(* As long as no open, read or write fails, cached implements one lookup   *)
(* that every call of every process gets the outcome of, whoever is killed *)
(* before or after a write.                                                *)
THEOREM OneLookup == ASSUME HasFlock PROVE Spec => ImplementsOnce
<1>1. Init => Once!Init
  BY DEF Init, Once!Init, Outcome, Reported
<1>2. ASSUME FullInv, [Next]_vars, Harmless' PROVE [Once!Next]_(Once!vars)
  <2>0. LockInv /\ OnceInv /\ AnswerInv
    BY <1>2, HarmlessSteps DEF FullInv, HarmlessInv
  <2> DEFINE answers == [q \in Processes |-> Reported(answer[q])]
  <2>1. ASSUME NEW p \in Processes, NEW value \in {"whole", "error"},
               answer' = [answer EXCEPT ![p] = value],
               answer[p] = "none",
               Outcome' = Reported(value),
               Outcome \in {"open", Reported(value)}
        PROVE  Once!Answer(p)
    <3>1. answers' = [answers EXCEPT ![p] = Outcome']
      BY <2>0, <2>1, ReportedAnswers DEF LockInv
    <3>2. answers[p] = "none"
      BY <2>1 DEF Reported
    <3>3. Outcome' \in IF Outcome = "open" THEN {"result", "error"} ELSE {Outcome}
      BY <2>1 DEF Reported
    <3> QED
      BY <3>1, <3>2, <3>3 DEF Once!Answer
  <2>2. ASSUME UNCHANGED <<result, errFile, answer>> PROVE UNCHANGED Once!vars
    BY <2>2 DEF Once!vars, Outcome
  <2>3. ASSUME NEW p \in Processes, Fail(p) PROVE Once!Answer(p)
    <3>1. pc[p] = "fail" /\ errFile' = TRUE
      BY <1>2, <2>3, HarmlessSteps DEF Fail, At
    <3>2. ~errFile /\ result = "absent" /\ answer[p] = "none"
      BY <2>0, <3>1 DEF LockInv, LookupInv, OnceInv, AnswerInv
    <3> QED
      BY <2>1, <2>3, <3>1, <3>2 DEF Fail, Return, Outcome, Reported
  <2>4. ASSUME NEW p \in Processes, Write(p) PROVE Once!Answer(p)
    <3>1. ~errFile /\ result = "part" /\ answer[p] = "none" /\ result' = "whole" /\ ~errFile'
      BY <2>0, <2>4 DEF Write, At, LockInv, LookupInv, OnceInv, AnswerInv
    <3> QED
      BY <2>1, <2>4, <3>1 DEF Write, Return, Outcome, Reported
  <2>5. ASSUME NEW p \in Processes, ReadErr(p), errFile PROVE Once!Answer(p)
    <3>1. answer[p] = "none" /\ errFile' /\ Return(p, "error")
      BY <1>2, <2>0, <2>5, HarmlessSteps DEF ReadErr, At, AnswerInv
    <3> QED
      BY <2>1, <2>5, <3>1 DEF ReadErr, Return, Outcome, Reported
  <2>6. ASSUME NEW p \in Processes, ReadResult(p), result # "absent" PROVE Once!Answer(p)
    <3>1. result = "whole"
      \* Whoever writes is inside, and p is.
      BY <2>0, <2>6 DEF ReadResult, At, LockInv, TypeOK, HolderInv, OnceInv, Inside
    <3>2. answer[p] = "none" /\ ~errFile /\ UNCHANGED <<result, errFile>> /\ Return(p, "whole")
      BY <1>2, <2>0, <2>6, <3>1, HarmlessSteps DEF ReadResult, At, OnceInv, AnswerInv
    <3> QED
      BY <2>1, <3>1, <3>2 DEF Return, Outcome, Reported
  <2>7. ASSUME NEW p \in Processes, CallAgain(p) PROVE Once!Call(p)
    <3>1. answers' = [answers EXCEPT ![p] = "none"]
      BY <2>0, <2>7, ReportedAnswers DEF CallAgain, Reported, LockInv
    <3> QED
      BY <2>7, <3>1 DEF CallAgain, Once!Call, Outcome
  <2>8. ASSUME NEW p \in Processes,
               \/ Lock(p) \/ Compute(p) \/ Unlock(p) \/ Kill(p)
               \/ ReadErr(p) /\ ~errFile
               \/ ReadResult(p) /\ result = "absent"
        PROVE  UNCHANGED <<result, errFile, answer>>
    BY <2>8 DEF Lock, Compute, Unlock, Kill, ReadErr, ReadResult, Return
  <2>9. ASSUME NEW p \in Processes, Create(p) PROVE UNCHANGED Once!vars
    BY <2>0, <2>9 DEF Create, At, LockInv, LookupInv, OnceInv, Once!vars, Outcome
  <2>10. CASE UNCHANGED vars
    BY <2>2, <2>10 DEF vars
  <2> QED
    BY <1>2, <2>2, <2>3, <2>4, <2>5, <2>6, <2>7, <2>8, <2>9, <2>10, HarmlessSteps
    DEF Next, Step, Progress, Once!Next
<1>3. FullInv /\ [Next]_vars => [Harmless' => Once!Next]_(Once!vars)
  BY <1>2
<1> QED
  BY <1>1, <1>3, FullInvariance, PTL DEF Spec, ImplementsOnce

-----------------------------------------------------------------------------
(* "A failure is remembered as well" (simd.go): once one call of one       *)
(* process failed, no call of any process returns a listing, as long as no *)
(* open, read or write fails.                                              *)
THEOREM FailuresStay == ASSUME HasFlock PROVE Spec => FailureRemembered
<1>1. FullInv /\ [Next]_vars =>
        [Harmless' =>
           \A p, q \in Processes :
             answer[p] = "error" /\ answer[q] = "none" => answer'[q] \in {"none", "error"}]_vars
  <2> SUFFICES ASSUME FullInv, Next, Harmless', NEW p \in Processes, NEW q \in Processes,
                      answer[p] = "error", answer[q] = "none"
               PROVE  answer'[q] \in {"none", "error"}
    OBVIOUS
  <2>0. LockInv /\ OnceInv /\ AnsweredInv
    BY HarmlessSteps DEF FullInv, HarmlessInv
  <2>1. errFile
    BY <2>0 DEF AnsweredInv
  <2>2. ASSUME NEW r \in Processes PROVE ~Write(r) /\ ~ReadResult(r)
    BY <2>0, <2>1 DEF Write, ReadResult, At, OnceInv
  <2>3. ASSUME NEW r \in Processes,
               LockFails(r) \/ ReadErr(r) \/ Fail(r) \/ CreateFails(r) \/ WriteFails(r) \/ CallAgain(r)
        PROVE  answer'[q] \in {"none", "error"}
    BY <2>0, <2>3 DEF LockFails, ReadErr, Fail, CreateFails, WriteFails, CallAgain, Return, LockInv, TypeOK
  <2>4. ASSUME NEW r \in Processes, Lock(r) \/ Compute(r) \/ Create(r) \/ Unlock(r) \/ Kill(r)
        PROVE  answer'[q] \in {"none", "error"}
    BY <2>4 DEF Lock, Compute, Create, Unlock, Kill
  <2> QED
    BY <2>2, <2>3, <2>4 DEF Next, Step, Progress
<1> QED
  BY <1>1, FullInvariance, PTL DEF Spec, FailureRemembered
=============================================================================
