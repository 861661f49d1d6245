-------------------------- MODULE GenaiRetryProofs --------------------------
(***************************************************************************)
(* The safety properties of one robust_generate call, for every number of  *)
(* retries: whatever workers do, the caller gets the verdict of the last   *)
(* attempt, and a text of no other attempt.                                *)
(***************************************************************************)
EXTENDS GenaiRetry, TLAPS

(* Something has been spawned once the loop has counted an attempt. *)
AttemptInv ==
  /\ attempt = 0 => worker = "none" /\ parent \in {"loop", "returned"}
  /\ parent = "waiting" => attempt > 0
  /\ attempt = 0 <=> worker = "none"

(* What the worker printed is this attempt's, and so is what arrived: the  *)
(* context is empty before it generates.                                   *)
OutputInv ==
  /\ worker = "generate" => context = {}
  /\ worker = "report" => text = {attempt}
  /\ buffer.ok => buffer.text = {attempt} /\ attempt \in printed
  /\ pipe.ok => pipe.text = {attempt} /\ attempt \in printed

(* The result that is judged is this attempt's. *)
ResultInv ==
  /\ result.ok => /\ result.text = {attempt} /\ attempt \in printed
                  /\ worker \in {"exited", "crashed"} /\ parent \in {"judging", "returned"}
  /\ buffer.type # "Internal" /\ pipe.type # "Internal"
  /\ attempt = 0 => result.type = "Internal"
  /\ attempt > 0 /\ parent # "waiting" => result.type # "Internal"
  /\ parent = "returned" /\ ~result.ok => attempt = retries

IInv == TypeOK /\ AttemptInv /\ OutputInv /\ ResultInv

(* The results either side makes have their type. *)
LEMMA ResultTypes ==
  /\ Nothing \in Results
  /\ \A type \in {"raised", "WorkerCrashed", "AttemptTimeout", "Internal"} : Failure(type) \in Results
  /\ \A S \in SUBSET (0 .. MaxRetries) : Success(S) \in Results
BY DEF Nothing, Failure, Success, Results

(* The invariant holds initially. *)
LEMMA InitInv == Init => IInv
<1>. USE MaxRetriesAssumption
<1>. SUFFICES ASSUME Init PROVE IInv
  OBVIOUS
<1>1. {result, buffer, pipe} \subseteq Results
  BY ResultTypes DEF Init
<1>2. /\ retries \in 0 .. MaxRetries /\ attempt \in 0 .. retries
      /\ text \subseteq 0 .. MaxRetries /\ context \subseteq 0 .. MaxRetries
      /\ printed \subseteq Attempts
  BY DEF Init
<1>3. TypeOK
  BY <1>1, <1>2 DEF Init, TypeOK, Gone
<1>4. AttemptInv /\ OutputInv /\ ResultInv
  BY DEF Init, AttemptInv, OutputInv, ResultInv, Failure, Nothing
<1>. QED BY <1>3, <1>4 DEF IInv

(* The worker's steps. *)
LEMMA WorkerKeepsInv == IInv /\ WorkerNext => IInv'
<1>. USE MaxRetriesAssumption DEF IInv, Gone, parentVars
<1>. SUFFICES ASSUME IInv, WorkerNext PROVE IInv'
  OBVIOUS
<1>1. CASE Import
  BY <1>1 DEF Import, TypeOK, AttemptInv, OutputInv, ResultInv
<1>2. CASE OpenDevice \/ LoadModel \/ ClearContext
  <2>1. TypeOK'
    BY ResultTypes, <1>2 DEF OpenDevice, LoadModel, ClearContext, TryStep, PrintResult, TypeOK
  <2>2. (AttemptInv /\ OutputInv /\ ResultInv)'
    BY <1>2 DEF OpenDevice, LoadModel, ClearContext, TryStep, PrintResult, TypeOK, AttemptInv,
                OutputInv, ResultInv, Failure
  <2>. QED BY <2>1, <2>2
<1>3. CASE Generate
  <2>1. attempt \in 0 .. MaxRetries
    BY DEF TypeOK
  <2>2. TypeOK'
    BY ResultTypes, <1>3, <2>1 DEF Generate, TryStep, PrintResult, TypeOK
  <2>3. AttemptInv'
    BY <1>3 DEF Generate, TryStep, PrintResult, TypeOK, AttemptInv
  <2>4. OutputInv'
    <3>1. worker = "generate" /\ worker' \in {"report", "teardown"} /\ UNCHANGED <<attempt, printed>>
      BY <1>3 DEF Generate, TryStep, PrintResult
    <3>2. worker' = "report" => text' = {attempt}
      <4>1. context = {}
        BY <3>1 DEF OutputInv
      <4>. QED BY <1>3, <4>1 DEF Generate
    <3>3. (buffer' = buffer \/ ~ buffer'.ok) /\ (pipe' = pipe \/ ~ pipe'.ok)
      BY <1>3 DEF Generate, TryStep, PrintResult, Failure
    <3>. QED BY <3>1, <3>2, <3>3 DEF OutputInv
  <2>5. ResultInv'
    BY <1>3 DEF Generate, TryStep, PrintResult, TypeOK, AttemptInv, ResultInv, Failure
  <2>. QED BY <2>2, <2>3, <2>4, <2>5
<1>4. CASE Report
  <2>1. attempt \in Attempts
    BY <1>4 DEF Report, PrintResult, TypeOK, AttemptInv, Attempts
  <2>2. TypeOK'
    BY ResultTypes, <1>4, <2>1 DEF Report, PrintResult, TypeOK
  <2>3. (AttemptInv /\ OutputInv /\ ResultInv)'
    BY <1>4 DEF Report, PrintResult, TypeOK, AttemptInv, OutputInv, ResultInv, Success
  <2>. QED BY <2>2, <2>3
<1>5. CASE Teardown \/ Release \/ Exit
  BY <1>5 DEF Teardown, Release, Exit, TypeOK, AttemptInv, OutputInv, ResultInv
<1>6. CASE Crash
  <2>1. attempt \in 0 .. MaxRetries
    BY DEF TypeOK
  <2>2. TypeOK'
    BY <1>6, <2>1 DEF Crash, TypeOK
  <2>3. (AttemptInv /\ OutputInv /\ ResultInv)'
    BY <1>6 DEF Crash, TypeOK, AttemptInv, OutputInv, ResultInv
  <2>. QED BY <2>2, <2>3
<1>. QED BY <1>1, <1>2, <1>3, <1>4, <1>5, <1>6 DEF WorkerNext

(* The parent's steps. *)
LEMMA ParentKeepsInv == IInv /\ ParentNext => IInv'
<1>. USE MaxRetriesAssumption DEF IInv, Gone, workerVars
<1>. SUFFICES ASSUME IInv, ParentNext PROVE IInv'
  OBVIOUS
<1>1. CASE Spawn
  <2>1. TypeOK'
    <3>1. attempt' \in 0 .. retries'
      BY <1>1 DEF Spawn, TypeOK
    <3>2. {result, buffer, pipe}' \subseteq Results
      BY ResultTypes, <1>1 DEF Spawn, TypeOK
    <3>. QED BY <1>1, <3>1, <3>2 DEF Spawn, TypeOK
  <2>2. (AttemptInv /\ OutputInv /\ ResultInv)'
    BY <1>1 DEF Spawn, TypeOK, AttemptInv, OutputInv, ResultInv, Nothing
  <2>. QED BY <2>1, <2>2
<1>2. CASE Collect
  <2>1. TypeOK'
    BY ResultTypes, <1>2 DEF Collect, TypeOK
  <2>2. (AttemptInv /\ OutputInv /\ ResultInv)'
    BY <1>2 DEF Collect, TypeOK, AttemptInv, OutputInv, ResultInv, Failure
  <2>. QED BY <2>1, <2>2
<1>3. CASE Timeout
  <2>1. attempt \in 0 .. MaxRetries
    BY DEF TypeOK
  <2>2. TypeOK'
    BY ResultTypes, <1>3, <2>1 DEF Timeout, TypeOK
  <2>3. (AttemptInv /\ OutputInv /\ ResultInv)'
    BY <1>3 DEF Timeout, TypeOK, AttemptInv, OutputInv, ResultInv, Failure
  <2>. QED BY <2>2, <2>3
<1>4. CASE Judge
  BY <1>4 DEF Judge, TypeOK, AttemptInv, OutputInv, ResultInv
<1>5. CASE Wake
  BY <1>5 DEF Wake, TypeOK, AttemptInv, OutputInv, ResultInv
<1>6. CASE GiveUp
  BY <1>6 DEF GiveUp, TypeOK, AttemptInv, OutputInv, ResultInv
<1>. QED BY <1>1, <1>2, <1>3, <1>4, <1>5, <1>6 DEF ParentNext

(* The invariant holds always. *)
LEMMA InvHolds == Spec => []IInv
<1>1. IInv /\ [Next]_vars => IInv'
  <2>1. IInv /\ UNCHANGED vars => IInv'
    BY DEF IInv, TypeOK, AttemptInv, OutputInv, ResultInv, vars, parentVars, workerVars
  <2>. QED BY <2>1, WorkerKeepsInv, ParentKeepsInv DEF Next
<1>. QED BY <1>1, InitInv, PTL DEF Spec

(* The state of parent and worker keeps its types. *)
THEOREM TypeCorrectness == Spec => []TypeOK
<1>1. IInv => TypeOK
  BY DEF IInv
<1>. QED BY <1>1, InvHolds, PTL

(* A text that is returned was generated from its own prompt only: every   *)
(* attempt clears the device's conversation before it generates.           *)
THEOREM TextIsOwn == Spec => []TextIsFromThisAttempt
<1>1. IInv => TextIsFromThisAttempt
  BY DEF IInv, ResultInv, TextIsFromThisAttempt
<1>. QED BY <1>1, InvHolds, PTL

(* robust_generate returns the first success a worker reported, or the     *)
(* failure of the last of all its retries.                                 *)
THEOREM VerdictIsTheLastAttempts == Spec => []ResultIsTheLastAttempts
<1>1. IInv => ResultIsTheLastAttempts
  BY MaxRetriesAssumption DEF IInv, TypeOK, AttemptInv, ResultInv, ResultIsTheLastAttempts
<1>. QED BY <1>1, InvHolds, PTL
=============================================================================
