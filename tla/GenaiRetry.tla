----------------------------- MODULE GenaiRetry -----------------------------
(***************************************************************************)
(* One call of robust_generate (runtime/genai_generate.py): a parent that  *)
(* runs each attempt in a worker process (runtime/genai_worker.py) under a *)
(* hard timeout, and retries until one reports success.                    *)
(*                                                                         *)
(* The device keeps its conversation context between processes, which is   *)
(* what the worker's clear_context() calls are for; it is outside src/ and *)
(* modelled as the set of attempts whose tokens it holds.  The worker may  *)
(* raise, crash in native code, or hang, at any step.                      *)
(***************************************************************************)
EXTENDS Integers

CONSTANT MaxRetries   \* bound on --max-retries

ASSUME MaxRetriesAssumption == MaxRetries \in Nat

Attempts == 1 .. MaxRetries

VARIABLES
  retries,   \* max_retries
  parent,    \* where robust_generate is
  attempt,   \* the loop's attempt, 0 before the first
  result,    \* last_result
  worker,    \* where the worker of this attempt is
  loaded,    \* the worker's llm is not None
  text,      \* the context its text was generated from
  buffer,    \* what the worker has printed: stdout is a pipe, so block-buffered
  pipe,      \* what of it has reached the parent
  context,   \* the device's conversation context
  printed    \* attempts whose worker printed ok: true (history)

parentVars == <<retries, parent, attempt, result>>
workerVars == <<worker, loaded, text, buffer, pipe, context, printed>>
vars == <<parentVars, workerVars>>

Nothing == [ok |-> FALSE, type |-> "none", text |-> {}]
Failure(type) == [ok |-> FALSE, type |-> type, text |-> {}]
Success(tokens) == [ok |-> TRUE, type |-> "none", text |-> tokens]

Gone == {"none", "exited", "crashed", "killed"}

-----------------------------------------------------------------------------
(* The worker: main() of genai_worker.py, step by step. *)

(* print: the line waits in the buffer, unless it is too long for it.      *)
PrintResult(line) ==
  /\ buffer' = line
  /\ pipe' \in {pipe, line}

(* A step of the try block: the work is done, or it raises and the failure *)
(* is printed by the except clause before the teardown.                    *)
TryStep(from, to) ==
  /\ worker = from
  /\ \/ worker' = to /\ UNCHANGED <<buffer, pipe>>
     \/ worker' = "teardown" /\ PrintResult(Failure("raised"))
  /\ UNCHANGED <<parentVars, printed>>

(* The imports stand before the try: an ImportError leaves no JSON line. *)
Import ==
  /\ worker = "import"
  /\ worker' \in {"open", "flush"}
  /\ UNCHANGED <<parentVars, loaded, text, buffer, pipe, context, printed>>

OpenDevice ==
  /\ TryStep("open", "load")
  /\ UNCHANGED <<loaded, text, context>>

LoadModel ==
  /\ TryStep("load", "clear")
  /\ loaded' = (worker' = "clear")
  /\ UNCHANGED <<text, context>>

(* Variant for checking: no clear_context() before generating.             *)
KeepContext ==
  /\ TryStep("clear", "generate")
  /\ UNCHANGED <<loaded, text, context>>

ClearContext ==
  /\ TryStep("clear", "generate")
  /\ context' = IF worker' = "generate" THEN {} ELSE context
  /\ UNCHANGED <<loaded, text>>

(* A generation that raises may have put tokens in the context first. *)
Generate ==
  /\ TryStep("generate", "report")
  /\ \/ context' = context \cup {attempt}
     \/ worker' = "teardown" /\ UNCHANGED context
  /\ text' = IF worker' = "report" THEN context' ELSE text
  /\ UNCHANGED loaded

Report ==
  /\ worker = "report"
  /\ worker' = "teardown"
  /\ PrintResult(Success(text))
  /\ printed' = printed \cup {attempt}
  /\ UNCHANGED <<parentVars, loaded, text, context>>

(* finally: clear_context() then release(), each best effort. *)
Teardown ==
  /\ worker = "teardown"
  /\ worker' = "release"
  /\ \/ loaded /\ context' = {}
     \/ UNCHANGED context
  /\ UNCHANGED <<parentVars, loaded, text, buffer, pipe, printed>>

Release ==
  /\ worker = "release"
  /\ worker' = "flush"
  /\ UNCHANGED <<parentVars, loaded, text, buffer, pipe, context, printed>>

(* The interpreter exits and with that flushes stdout. *)
Exit ==
  /\ worker = "flush"
  /\ worker' = "exited"
  /\ pipe' = buffer
  /\ UNCHANGED <<parentVars, loaded, text, buffer, context, printed>>

(* A crash of the native stack takes the unflushed output with it.         *)
Crash ==
  /\ worker \notin Gone
  /\ worker' = "crashed"
  /\ context' \in {context} \cup (IF worker = "generate" THEN {context \cup {attempt}} ELSE {})
  /\ UNCHANGED <<parentVars, loaded, text, buffer, pipe, printed>>

WorkerNext ==
  \/ Import \/ OpenDevice \/ LoadModel \/ ClearContext \/ Generate
  \/ Report \/ Teardown \/ Release \/ Exit \/ Crash

-----------------------------------------------------------------------------
(* The parent: robust_generate() and run_attempt(). *)

(* Variant for checking: one attempt more than max_retries.                *)
SpawnOneMore ==
  /\ parent = "loop"
  /\ attempt <= retries
  /\ parent' = "waiting"
  /\ attempt' = attempt + 1
  /\ worker' = "import"
  /\ loaded' = FALSE
  /\ text' = {}
  /\ buffer' = Nothing
  /\ pipe' = Nothing
  /\ UNCHANGED <<retries, result, context, printed>>

(* Variant for checking: attempts append to one log the parent reads.      *)
SpawnOnOldOutput ==
  /\ parent = "loop"
  /\ attempt < retries
  /\ parent' = "waiting"
  /\ attempt' = attempt + 1
  /\ worker' = "import"
  /\ loaded' = FALSE
  /\ text' = {}
  /\ buffer' = Nothing
  /\ UNCHANGED <<retries, result, pipe, context, printed>>

Spawn ==
  /\ parent = "loop"
  /\ attempt < retries
  /\ parent' = "waiting"
  /\ attempt' = attempt + 1
  /\ worker' = "import"
  /\ loaded' = FALSE
  /\ text' = {}
  /\ buffer' = Nothing
  /\ pipe' = Nothing
  /\ UNCHANGED <<retries, result, context, printed>>

(* subprocess.run returned: the last RESULT_JSON line, or WorkerCrashed. *)
Collect ==
  /\ parent = "waiting"
  /\ worker \in {"exited", "crashed"}
  /\ parent' = "judging"
  /\ result' = IF pipe = Nothing THEN Failure("WorkerCrashed") ELSE pipe
  /\ UNCHANGED <<retries, attempt, workerVars>>

(* Variant for checking: a timeout notices a dead worker only.             *)
TimeoutOfDeadWorker ==
  /\ parent = "waiting"
  /\ worker \in {"exited", "crashed"}
  /\ parent' = "judging"
  /\ result' = Failure("AttemptTimeout")
  /\ UNCHANGED <<retries, attempt, workerVars>>

(* TimeoutExpired: the worker is killed wherever it is, a generation cut   *)
(* short included, and what it wrote is dropped, even if it has just       *)
(* exited.                                                                 *)
Timeout ==
  /\ parent = "waiting"
  /\ parent' = "judging"
  /\ result' = Failure("AttemptTimeout")
  /\ worker' = IF worker \in Gone THEN worker ELSE "killed"
  /\ context' \in {context} \cup (IF worker = "generate" THEN {context \cup {attempt}} ELSE {})
  /\ UNCHANGED <<retries, attempt, loaded, text, buffer, pipe, printed>>

Judge ==
  /\ parent = "judging"
  /\ parent' = IF result.ok THEN "returned"
               ELSE IF attempt < retries THEN "sleeping" ELSE "loop"
  /\ UNCHANGED <<retries, attempt, result, workerVars>>

(* The backoff between two attempts. *)
Wake ==
  /\ parent = "sleeping"
  /\ parent' = "loop"
  /\ UNCHANGED <<retries, attempt, result, workerVars>>

GiveUp ==
  /\ parent = "loop"
  /\ attempt >= retries
  /\ parent' = "returned"
  /\ UNCHANGED <<retries, attempt, result, workerVars>>

ParentNext == Spawn \/ Collect \/ Timeout \/ Judge \/ Wake \/ GiveUp

-----------------------------------------------------------------------------

Init ==
  /\ retries \in 0 .. MaxRetries
  /\ parent = "loop"
  /\ attempt = 0
  /\ result = Failure("Internal")
  /\ worker = "none"
  /\ loaded = FALSE
  /\ text = {}
  /\ buffer = Nothing
  /\ pipe = Nothing
  /\ context \in {{}, {0}}    \* 0: left there by an earlier call
  /\ printed = {}

Next == WorkerNext \/ ParentNext

(* The parent runs and its timer fires; nothing is assumed of the worker. *)
Spec == Init /\ [][Next]_vars /\ WF_vars(ParentNext)

-----------------------------------------------------------------------------

Results ==
  [ok : BOOLEAN, type : {"none", "raised", "WorkerCrashed", "AttemptTimeout", "Internal"},
   text : SUBSET (0 .. MaxRetries)]

(* The state of parent and worker keeps its types: no attempt beyond       *)
(* max_retries, and no text that mentions one.                             *)
TypeOK ==
  /\ retries \in 0 .. MaxRetries
  /\ parent \in {"loop", "waiting", "judging", "sleeping", "returned"}
  /\ attempt \in 0 .. retries
  /\ worker \in Gone \cup {"import", "open", "load", "clear", "generate", "report",
                           "teardown", "release", "flush"}
  /\ loaded \in BOOLEAN
  /\ {result, buffer, pipe} \subseteq Results
  /\ text \subseteq 0 .. MaxRetries
  /\ context \subseteq 0 .. MaxRetries
  /\ printed \subseteq Attempts

(* A text the caller gets was generated from its own prompt only, never on *)
(* top of what a killed, crashed or earlier attempt left on the device     *)
(* (genai_worker.py: a device left with stale context breaks the next      *)
(* attempt).                                                               *)
TextIsFromThisAttempt ==
  parent = "returned" /\ result.ok => result.text = {attempt}

(* The caller gets the verdict of the last attempt made.  A worker that    *)
(* was killed or never heard of cannot make the call succeed: success      *)
(* comes from a worker of this very attempt that printed its result and    *)
(* was gone before its time was up.                                        *)
(* A failure is returned only when every retry has been used up, and the   *)
(* "not attempted" placeholder only from an empty loop.                    *)
ResultIsTheLastAttempts ==
  /\ result.ok => /\ worker \in {"exited", "crashed"}
                  /\ attempt \in printed
                  /\ parent \in {"judging", "returned"}
  /\ parent = "returned" /\ ~result.ok =>
       /\ attempt = retries
       /\ result.type = "Internal" <=> retries = 0

(* A hanging worker never hangs the call: the hard timeout and the retry   *)
(* limit bring robust_generate to an end.                                  *)
Returns == <>(parent = "returned")
=============================================================================
