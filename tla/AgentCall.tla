------------------------------ MODULE AgentCall ------------------------------
(***************************************************************************)
(* One agent step of the engine, as each of the model-backed agents takes  *)
(* it: render_prompt with its log row and counters, the call of the model  *)
(* (LlmClient), attach_prompt_run_metadata, and the conversion of the      *)
(* output into the agent's section; all of it under with_retries.          *)
(*                                                                         *)
(* Steps of different runs are taken by different threads at the same time *)
(* and meet in the tables prompt_runs and prompt_counters.  Each action is *)
(* one transaction, or what happens between two of them; a transaction may *)
(* find the database locked.  The variant that assign_variant picks is in  *)
(* PromptRollout.                                                          *)
(***************************************************************************)
EXTENDS LlmClient, FiniteSets, Sequences

CONSTANTS
  RunOf, AgentOf,   \* the run and the agent of each thread's step
  StepRetries,      \* retries of _execute_with_step_audit
  Templates,        \* where a prompt may be found
  Defects,          \* what may be wrong with its contract or its text
  Unlucky           \* the threads whose transactions may find the database locked

\* What may be raised in a step.
Errors == {"FileNotFoundError", "ValueError", "PromptLintError", "TypeError",
           "OperationalError"}

ASSUME CallAssumption ==
  /\ StepRetries \in Nat
  /\ Templates \subseteq {"workflow", "generated", "common", "missing"}
  /\ Defects \subseteq {"contract", "undeclared", "schema", "lint", "placeholder"}
  /\ Unlucky \subseteq Threads
  /\ None \notin Errors

\* Runs are created one by one and a run's steps are taken by one thread.  The
\* exception is an evaluation of a run that two threads finish (see README).
ASSUME StepAssumption ==
  \A t, u \in Threads : t # u => RunOf[t] # RunOf[u] \/ AgentOf[t] # AgentOf[u]

VARIABLES
  job,          \* what each thread's step does next, and its locals
  promptRuns,   \* prompt_runs, in the order of its ids
  counters      \* prompt_counters

vars == <<settings, client, job, promptRuns, counters>>

-----------------------------------------------------------------------------
\* The errors with_retries does not retry.
Terminal == {"ValueError", "PromptLintError", "TypeError"}

JobPhases == {"idle", "rendering", "checking", "unrendered", "asking", "calling",
              "converting", "raised", "returned", "failed"}

\* row, asked: where the step's prompt was logged, and all requests of its tries;
\* the code does not keep them.
Jobs == [phase : JobPhases, fallback : {0, 1}, error : Errors \cup {None},
         tries : Nat, row : Nat, asked : Nat]

NoJob == [phase |-> "idle", fallback |-> 0, error |-> None, tries |-> 0,
          row |-> 0, asked |-> 0]

\* llm_enabled, llm_provider (with model, latency and usage) and fallback_reason.
Metadata == [enabled : {0, 1, None}, provider : {"openai", None},
             reason : Reasons \cup {None}]

NoMetadata == [enabled |-> None, provider |-> None, reason |-> None]

Rows == [run : {RunOf[t] : t \in Threads}, agent : {AgentOf[t] : t \in Threads},
         error : Errors \cup {None}, fallback : {0, 1}, meta : Metadata]

Counters == {"fallback_events", "schema_validation_errors"}

TypeOK ==
  /\ settings \in Settings
  /\ client \in [Threads -> Calls]
  /\ job \in [Threads -> Jobs]
  /\ promptRuns \in Seq(Rows)
  /\ counters \in [Counters -> Nat]

Init ==
  /\ ClientInit
  /\ job = [t \in Threads |-> NoJob]
  /\ promptRuns = <<>>
  /\ counters = [c \in Counters |-> 0]

-----------------------------------------------------------------------------
At(t, phase) == job[t].phase = phase
Becomes(t, j) == job' = [job EXCEPT ![t] = j]
Goto(t, phase) == Becomes(t, [job[t] EXCEPT !.phase = phase])
Fails(t, phase, error) == Becomes(t, [job[t] EXCEPT !.phase = phase, !.error = error])

\* t sends a request.
Requests(t) == Becomes(t, [job[t] EXCEPT !.phase = "calling", !.asked = job[t].asked + 1])

Count(c) == counters' = [counters EXCEPT ![c] = @ + 1]

\* A row of prompt_runs for t's prompt.
Row(t, error) == [run |-> RunOf[t], agent |-> AgentOf[t], error |-> error,
                  fallback |-> job[t].fallback, meta |-> NoMetadata]

\* The engine reaches a step of the run.
Begin(t) ==
  /\ At(t, "idle")
  /\ Goto(t, "rendering")
  /\ UNCHANGED <<client, promptRuns, counters>>

\* assign_variant and _resolve_prompt_path.
ResolvePath(t, template) ==
  /\ At(t, "rendering")
  /\ CASE template = "workflow" -> Goto(t, "checking") /\ UNCHANGED counters
       [] template = "missing" ->
            Fails(t, "unrendered", "FileNotFoundError") /\ UNCHANGED counters
       [] OTHER ->
            /\ Becomes(t, [job[t] EXCEPT !.phase = "checking",
                             !.fallback = IF template = "common" THEN 1 ELSE 0])
            /\ Count("fallback_events")
  /\ UNCHANGED <<client, promptRuns>>

\* The error of a defect.
DefectError(defect) == IF defect = "lint" THEN "PromptLintError" ELSE "ValueError"

\* The contract is normalized before a prompt is looked for; a missing schema version,
\* an incompatible one, the lint and substitute are found in the prompt.
RejectedAt(defect) == IF defect = "contract" THEN "rendering" ELSE "checking"

\* Variant with a bug: only an incompatible schema is counted.
Reject_LintUncounted(t, defect) ==
  /\ At(t, RejectedAt(defect))
  /\ Fails(t, "unrendered", DefectError(defect))
  /\ IF defect = "schema" THEN Count("schema_validation_errors")
     ELSE UNCHANGED counters
  /\ UNCHANGED <<client, promptRuns>>

\* The prompt cannot be rendered.  An incompatible schema and the lint's errors are
\* counted, the other defects are not.
Reject(t, defect) ==
  /\ At(t, RejectedAt(defect))
  /\ Fails(t, "unrendered", DefectError(defect))
  /\ IF defect \in {"schema", "lint"} THEN Count("schema_validation_errors")
     ELSE UNCHANGED counters
  /\ UNCHANGED <<client, promptRuns>>

LogRendered(t) ==
  /\ At(t, "checking")
  /\ promptRuns' = Append(promptRuns, Row(t, None))
  /\ Becomes(t, [job[t] EXCEPT !.phase = "asking", !.row = Len(promptRuns) + 1])
  /\ UNCHANGED <<client, counters>>

LogUnrendered(t) ==
  /\ At(t, "unrendered")
  /\ promptRuns' = Append(promptRuns, Row(t, job[t].error))
  /\ Goto(t, "raised")
  /\ UNCHANGED <<client, counters>>

\* load_runtime_llm_config and resolve_model_output, up to the first request.
Ask(t) ==
  /\ At(t, "asking")
  /\ \/ /\ Skip(t) \/ NotSent(t)
        /\ Goto(t, "calling")
     \/ /\ Send(t)
        /\ Requests(t)
  /\ UNCHANGED <<promptRuns, counters>>

Receive(t) ==
  /\ \E r \in Replies : ReceiveFailure(t, r) \/ ReceiveLast(t, r)
  /\ UNCHANGED <<job, promptRuns, counters>>

AskAgain(t) ==
  /\ SendAgain(t)
  /\ Requests(t)
  /\ UNCHANGED <<promptRuns, counters>>

\* What resolve_model_output tells of the call: no provider if the model is disabled.
MetadataOf(c) ==
  [enabled |-> IF c.reason = "llm_disabled" THEN 0 ELSE 1,
   provider |-> IF c.reason = "llm_disabled" THEN None ELSE "openai",
   reason |-> c.reason]

Coalesce(new, old) == IF new # None THEN new ELSE old

Merged(new, old) ==
  [enabled |-> Coalesce(new.enabled, old.enabled),
   provider |-> Coalesce(new.provider, old.provider),
   reason |-> Coalesce(new.reason, old.reason)]

RowsOf(run, agent) ==
  {i \in DOMAIN promptRuns : promptRuns[i].run = run /\ promptRuns[i].agent = agent}

\* Variant with a bug: the newest row of the agent, whatever its run.
NewestRow_AnyRun(t) ==
  CHOOSE i \in DOMAIN promptRuns :
    /\ promptRuns[i].agent = AgentOf[t]
    /\ \A j \in DOMAIN promptRuns : promptRuns[j].agent = AgentOf[t] => j <= i

\* attach_run_metadata finds the row by run, agent and prompt: the newest one.
NewestRow(t) ==
  CHOOSE i \in RowsOf(RunOf[t], AgentOf[t]) :
    \A j \in RowsOf(RunOf[t], AgentOf[t]) : j <= i

Attach(t) ==
  /\ At(t, "calling") /\ client[t].phase = "answered"
  /\ LET i == NewestRow(t) IN
       promptRuns' = [promptRuns EXCEPT ![i] = [promptRuns[i] EXCEPT
                        !.meta = Merged(MetadataOf(client[t]), promptRuns[i].meta)]]
  /\ Goto(t, "converting")
  /\ UNCHANGED <<client, counters>>

\* str, int, float and list of the output's values; the agent's own output has
\* the right types.
Convert(t) ==
  /\ At(t, "converting")
  /\ IF client[t].payload = "mistyped"
     THEN Fails(t, "raised", "TypeError")
     ELSE Becomes(t, [NoJob EXCEPT !.phase = "returned", !.row = job[t].row])
  /\ UNCHANGED <<client, promptRuns, counters>>

\* A transaction finds the database locked.  While the prompt is rendered the
\* error is logged like any other; anywhere else it leaves the agent.
Locked(t) ==
  /\ t \in Unlucky
  /\ \/ /\ job[t].phase \in {"rendering", "checking"}
        /\ Fails(t, "unrendered", "OperationalError")
     \/ /\ \/ At(t, "unrendered")
           \/ At(t, "calling") /\ client[t].phase = "answered"
        /\ Fails(t, "raised", "OperationalError")
  /\ UNCHANGED <<client, promptRuns, counters>>

\* Variant with a bug: every error is retried.
Retried_Always(t) == job[t].tries < StepRetries + 1

Retried(t) == job[t].error \notin Terminal /\ job[t].tries < StepRetries

\* with_retries: the agent is called again from its first line, or the run fails.
RetryStep(t) ==
  /\ At(t, "raised") /\ Retried(t)
  /\ Becomes(t, [job[t] EXCEPT !.phase = "rendering", !.error = None,
                   !.fallback = 0, !.row = 0, !.tries = job[t].tries + 1])
  /\ client' = [client EXCEPT ![t] = NoCall]
  /\ UNCHANGED <<promptRuns, counters>>

\* Variant with a bug: an error that was retried in vain is dropped.
FailStep_Dropped(t) ==
  /\ At(t, "raised") /\ job[t].error \in Terminal
  /\ Becomes(t, [NoJob EXCEPT !.phase = "failed"])
  /\ client' = [client EXCEPT ![t] = NoCall]
  /\ UNCHANGED <<promptRuns, counters>>

FailStep(t) ==
  /\ At(t, "raised") /\ ~Retried(t)
  /\ Becomes(t, [NoJob EXCEPT !.phase = "failed"])
  /\ client' = [client EXCEPT ![t] = NoCall]
  /\ UNCHANGED <<promptRuns, counters>>

Work(t) ==
  \/ \E template \in Templates : ResolvePath(t, template)
  \/ \E defect \in Defects : Reject(t, defect)
  \/ LogRendered(t) \/ LogUnrendered(t)
  \/ Ask(t) \/ Receive(t) \/ AskAgain(t) \/ Attach(t) \/ Convert(t)
  \/ Locked(t) \/ RetryStep(t) \/ FailStep(t)

Next ==
  /\ \E t \in Threads : Begin(t) \/ Work(t)
  /\ UNCHANGED settings

Spec == Init /\ [][Next]_vars

\* A thread goes on until its step has ended: the requests have a time limit, the
\* sleeps end, and a lock is either got or reported.
FairSpec == Spec /\ \A t \in Threads : WF_vars(Work(t) /\ UNCHANGED settings)

-----------------------------------------------------------------------------
\* The row that tells of a finished step tells of its own call, and no other row
\* of the step does, although the row is found again by run and agent after the
\* call: earlier tries of the step and steps of other runs write rows meanwhile
\* (prompt_diagnostics_repo.py:132-138).
RowTellsItsCall ==
  \A t \in Threads :
    job[t].phase \in {"converting", "returned"} =>
      \A i \in RowsOf(RunOf[t], AgentOf[t]) :
        promptRuns[i].meta = IF i = job[t].row THEN MetadataOf(client[t]) ELSE NoMetadata

\* The counters cover the rows they are reported next to: a common prompt's use and a
\* lint's failure are counted before the row that shows them is written, in a
\* transaction of its own, so a lock can lose a row but never leave one uncounted
\* (prompt_templates.py:174-180, 498-500, 537).  A row with "ValueError" may be
\* uncounted: of its causes only the incompatible schema is (486).
CountersCoverRows ==
  /\ Cardinality({i \in DOMAIN promptRuns : promptRuns[i].fallback = 1})
       <= counters["fallback_events"]
  /\ Cardinality({i \in DOMAIN promptRuns : promptRuns[i].error = "PromptLintError"})
       <= counters["schema_validation_errors"]

\* The retries of the client and those of the engine multiply and are still
\* bounded, in requests and in log rows; a failed conversion, a bad template and
\* a bad schema are not tried again (runner.py:131, retry_policy.py:28-42,
\* llm_client.py:94-158).
StepIsBounded ==
  \A t \in Threads :
    /\ job[t].asked <= (StepRetries + 1) * MaxRequests
    /\ Cardinality(RowsOf(RunOf[t], AgentOf[t])) <= StepRetries + 1

\* Each step's calls keep the promise of ModelAnswer.
AnswerOf(c) ==
  CASE c.phase = "idle" -> "none"
    [] c.phase = "answered" -> c.output
    [] OTHER -> "pending"

RequestsLeft(c) ==
  CASE c.phase = "sending" -> settings.requests - c.attempt + 1
    [] c.phase = "waiting" -> settings.requests - c.attempt
    [] OTHER -> 0

Answer == INSTANCE ModelAnswer
  WITH Askers <- Threads, MaxRequests <- MaxRequests,
       answer <- [t \in Threads |-> AnswerOf(client[t])],
       left <- [t \in Threads |-> RequestsLeft(client[t])]

ImplementsModelAnswer == Answer!Spec

\* Every step that begins returns a section or fails its run, whatever the
\* provider, the templates and the database do.
StepEnds ==
  \A t \in Threads : At(t, "rendering") ~> job[t].phase \in {"returned", "failed"}

=============================================================================
