# A formal model of the workflow engine

This directory holds TLA+ modules that model the approval-gated workflow engine
of the repository, TLC configurations that check them on small instances, and
proofs that TLAPS checks for every value of the constants. `PROJECT.json` lists
the runs, the mutants, the hazards, the findings and, for each definition, the
source lines it stands for. Paths below are relative to the repository.

## 1. The system

A sales assistant runs *workflows* on *deals*. A workflow is a list of agents
that fill an *envelope*; the action agent proposes a plan of steps (emails,
messages, CRM updates), a person approves, rejects or edits it, and after an
approval the execution agent calls the tools, the evaluator judges the outcome
and the run is completed. Prompts are rendered from templates, and each
workflow runs an A/B experiment on its prompts.

| Component | Source | State | Operations | Interacts with |
|---|---|---|---|---|
| REST layer | `api/router.py`, `api/app.py` | none | one synchronous handler per request, run on a thread pool | calls the service |
| Service | `api/service.py` | `_deal_envelopes`: one cached envelope per deal | start, CRM sync, approve, reject, edit, load and hydrate an envelope | engine, queue, tables |
| Engine | `orchestrator/runner.py`, `retry_policy.py` | `_run_ids`: current run of each deal | `run_workflow`, `resume_after_approval`, `_handle_evaluator_result`, `_snapshot` | agents, tables, queue |
| Approval | `approval/queue.py`, `action_lifecycle.py`, `policy.py` | the queue of known actions | enqueue, get, approve/reject/edit; confidence, channel and output policies | service, engine, execution agent |
| Agents | `agents/*.py` | none | one function per agent, may raise | prompts, LLM client |
| LLM client | `agents/llm_client.py`, `inference.py`, `runtime_config.py` | none (it reads the environment at each call) | ask the provider with retries, validate the output, or take the agent's own | agents, `prompt_runs` |
| Execution agent | `agents/execution_agent.py` | the plan's step statuses, in the shared envelope | policy, skip or call the tool of each step | tools |
| Tables | `data/db_client.py`, `data/repositories/` | runs, snapshots, actions, steps, execution logs, outcomes | one method, one connection | everything |
| Prompt experiments | `prompt_diagnostics_repo.py`, `agents/prompt_templates.py` | rollouts, metrics, assignments, changelog, votes, releases | assign, count, evaluate, promote, roll back | every render, outcome, rejection |
| Tools | `tools/*.py` | CRM records and idempotency cache (process memory) | send email/SMS, update CRM | execution agent |
| Registry, triggers | `workflows/*.py` | the registry | look up, trigger | engine |
| Memory, feedback, evaluation | `memory/`, `evaluation/` | the table `persona_insights`; two in-memory stores | retrieve, rank and gate evidence; judge an outcome and write its lesson | strategist, action agent, evaluator, engine |
| Additive repositories | `workflow_state_repo.py`, `crm_sync_log_repo.py`, `intervention_log_repo.py` | append-only logs, a state row | add, update, list | service, tests |

What is hard here:

* **The same plan lives in four places** — the envelope object (shared by
  reference between threads and the cache), the snapshot, the action and step
  rows, the execution log — and each is updated at a different moment. A crash
  keeps the tables and loses the rest.
* **Lookups by deal**: an approval names an action, but the engine works on
  the deal's current envelope and the deal's current run id.
* **Threads without locks**: handlers share envelope objects and dictionaries.
* **Retries and re-approvals** of work that is partly done: tool calls cannot
  be taken back, and their record is written after them.
* **A long-lived experiment**: phases, counters, votes and releases are changed
  by independent requests, over a long history.
* **Two levels of retries** around the model: the client repeats requests, the
  engine repeats the agent, and each try leaves rows behind that later code looks
  up again by run and agent.
* **A loop through memory**: what a run taught decides the strategy of later runs
  and with it whether they wait for a person.

Correct means: tools are called only for what was let through; a logged effect
is not repeated; nothing claims an effect that did not happen; every record
belongs to the deal and run it is about; the text approved is the text sent; an
approval is carried through; and an experiment shows and promotes the candidate
only when its own rules allow.

The complete list of hazards, each at its line with the properties that would
catch it, is under `hazards` in `PROJECT.json`.

## 2. Modules

| Module | What it is |
|---|---|
| `Orchestrator` | engine, service, queue, execution agent and their tables, as steps of worker threads |
| `OutreachLedger` | abstract specification: what the engine promises the outside world about tool calls |
| `MCOrchestrator` | instances of `Orchestrator` for TLC |
| `OrchestratorProofs` | typing theorem, with the frame lemmas other proofs use |
| `DealProofs` | what is looked up by deal stays on the deal |
| `ExecutionProofs` | what the records say of executions and outcomes |
| `LedgerProofs` | `Orchestrator` implements `OutreachLedger` |
| `LlmClient` | one call of the model provider, with its retries and every class of answer |
| `ModelAnswer` | abstract specification: what an agent may expect when it asks for its output |
| `AgentCall` | an agent's step: prompt, log row, call, metadata, conversion, retries |
| `MCAgentCall` | an instance of `AgentCall` for TLC |
| `AgentCallProofs` | types, the refinement of `ModelAnswer`, whose call a row tells of |
| `MemoryLoop` | evidence, strategy, approval gate, evaluation, and the lesson it leaves |
| `MCMemoryLoop` | an instance of `MemoryLoop` for TLC |
| `MemoryLoopProofs` | where evidence comes from, what a completed run has left |
| `PromptRollout` | the prompt experiments |
| `MCPromptRollout` | instances of `PromptRollout` for TLC |
| `PromptRolloutProofs` | the experiment's invariants, for all thresholds |
| `CrmTool` | the simulated CRM: records, timelines, the idempotency cache |
| `MCCrmTool` | instances of `CrmTool` for TLC |
| `CrmRecord` | abstract specification: what a client of the CRM may believe |
| `CrmToolProofs` | the CRM's keys, versions, stages and answers, and the refinement of `CrmRecord`, for any deals, keys and threads |

`AgentCall` extends `LlmClient` and instantiates `ModelAnswer`; `Orchestrator`
instantiates `OutreachLedger`, `CrmTool` instantiates `CrmRecord`. The proofs about the engine build on each other:
`OrchestratorProofs`, `DealProofs`, `ExecutionProofs`, `LedgerProofs`.

### Orchestrator

A **worker** is a thread that serves one request; `pc[w]` says what it does
next and `job[w]` holds its locals. Its steps are cut at database transactions
and tool calls, the points where another thread or a crash can come between.
A run's status is only ever written by the engine and read by nothing in it, so
it is written together with the snapshot or memory update next to it.

| Code | Actions |
|---|---|
| `run_workflow` | `StartRun`, `FirstSnapshot`, `SkipRun`, `AgentStep`, `AgentFail` |
| `_handle_action_agent_step`, `_handle_crm_agent_step` | `PlanAction`, `UpsertAction`, `UpsertPlan`, `SnapshotAction`, `ReturnStart` |
| `approve_action`, `reject_action`, `edit_action` | `Approve`, `Reject`, `Edit` (tables and queue), then `LoadCached`, or `LoadSaved` and `StoreHydrated`, or `LoadFails`; then `ApproveLoaded`, `ReviseLoaded` or `DecisionFails` |
| `resume_after_approval` | `ResumeNothingLeft`, `Resume`, then the execution agent, `RecordExecution`, `PersistPlan`, `MarkExecuted`, evaluation |
| `execution_agent` under `with_retries` | `ExecBegin`, `ExecStepBlocked`, `ExecStepAlready`, `ExecStepSend`, `ExecEnd`, `ExecRetry`, `ExecFail` |
| evaluator and `_handle_evaluator_result` | `RecordOutcome`, `Complete`, `EvalFail` |
| process restart | `Restart`: memory is emptied, tables stay |

Envelopes are objects with an identity (`EnvelopeIds`), since the cache and
several workers may hold the same one; unreferenced ones are reclaimed so that
the set can be small. A run has at most one action, named by the run.

Abstractions, all named:

* texts are members of `Bodies`, the output policy and the channel policy are
  the set `Flagged`; an unsupported channel behaves like a blocked step;
* the confidence policy is a free choice between pending and approved (what
  decides the confidence is in `MemoryLoop`);
* tools always succeed when called, as the email, SMS and CRM tools do here;
  a CRM call repeated under its key is dropped by the tool while the process
  runs, but `sends` counts every call the engine makes;
* the number of attempts of `with_retries` (three) is not counted: `ExecRetry`
  may happen any number of times, which only adds behaviours;
* steps that follow each other without a transaction another request could tell apart are
  one: `create_run` and the `_run_ids` entry (`StartRun`); the status writes of a resume
  and its two reads of the log (`Resume`, `runner.py:473-482`); the status test, tool call
  and status write of one step (`ExecStepSend`, `execution_agent.py:171-180`). What this
  loses are interleavings of two threads on one *shared plan object*, inside these lines;
* an executed step's result is successful: status and result are written and restored
  together, so `ExecStepAlready` tests the status only (`execution_agent.py:171`);
* a decision's step id is the index of the step in the plan of the decided run. Applied to
  the envelope of another run it finds nothing, as ids are unique (`Elsewhere`): an approval
  or rejection changes no step, an edit changes the first (`service.py:159-161`). No run of
  TLC combines such scopes with two runs of a deal, which takes too long; the theorems do;
* rows that one execution log query returns with the same order are taken in
  insertion order, the last one deciding;
* sections that no guard reads (signal, context, decision, history, memory) are
  left out of envelopes.

`sends` (calls that took effect, up to `SendCap`) and `granted` (runs whose
action was let through) are read by no action; they exist for the properties.

### OutreachLedger

Three actions: an action is let through (`Grant`), a tool is called on a deal
where something was let through and whose step is not logged as executed
(`Send`), results are logged that claim no call that was not made (`Record`).
`ImplementsLedger` says that the engine, with crashes, faults and retries, does
only this. `MCRecovery` checks it for one thread; `LedgerProofs` proves it for any
number of threads, deals, runs and steps, as long as requests that overlap are about
different deals. Two approvals of one deal break it: both pass the check of
`runner.py:480` before either records.

### LlmClient, ModelAnswer and AgentCall

`LlmClient` is one `generate_json` with `resolve_model_output` around it. `client[t]`
is the call a thread is inside. `Skip` and `NotSent` settle it without a request
(model disabled; no key, unknown provider), `Send` and `SendAgain` are requests,
`ReceiveFailure` is a transient failure with retries left, `ReceiveLast` the answer
that ends the call. An answer is one of the classes the client tells apart
(`Replies`): an HTTP status, a timeout, no connection, no completion, prose, a missing
field, a confidence outside [0, 1], a value of a wrong type elsewhere, and a good one.
The settings are the environment of the process.

`ModelAnswer` is the promise: a question costs at most `MaxRequests` requests and is
settled once, by the model or by the rules. `ImplementsModelAnswer` maps a call's
phase to the answer and its attempts to the requests left.

`AgentCall` is the course that all model-backed agents share:

| Code | Actions |
|---|---|
| `render_prompt`: contract, path, schema, lint, placeholders | `ResolvePath`, `Reject` |
| its log row | `LogRendered`, `LogUnrendered` |
| `resolve_model_output` | `Ask`, `Receive`, `AskAgain` |
| `attach_prompt_run_metadata` | `Attach`, which finds its row again by run and agent (`NewestRow`) |
| `str`, `int`, `float`, `list` of the output | `Convert`, which fails on a value of a wrong type |
| `with_retries` in `_execute_with_step_audit` | `RetryStep`, `FailStep` |
| SQLite's "database is locked" | `Locked`, in each transaction of the threads in `Unlucky` |

`promptRuns` and `counters` are the tables, which threads share; `job[t].row` and
`job[t].asked` are kept by the model only. `StepAssumption` says that no two threads
take one agent's step of one run. The program keeps to it but for evaluations that
two approvals of one action start together; those two may swap their metadata.

Code behaviour that the module has and a reader may not expect: an attempt that fails
to render leaves a row without metadata and is retried only for a missing file or a
locked database (`ValueError`, `PromptLintError` and `TypeError` are terminal);
`llm_empty_payload` is reached by no answer. What is wrong with a prompt is one of `Defects`.
Five of them raise before the prompt is rendered and leave an error row, two are counted as
`schema_validation_errors`: a schema version that does not fit and a lint error. An invalid
contract (`prompt_templates.py:298-315`), a template without a schema version (line 291) and
a placeholder that nothing fills (line 503) leave a row with the class `ValueError` and no
count, so the number of those rows says nothing about the counter. `CountersCoverRows` is
about fallbacks and lint errors, whose rows are always counted. `MAWI_LLM_TIMEOUT_SEC` overrides a timeout
given in the request, although `README.md:419-423` ranks the explicit one first; time is not
modelled. `README.md:438` and `README.md:465` promise the deterministic output for an
invalid one; that holds for missing fields and confidences (`Resolution`), while a value of
a wrong type fails the run (`Convert`).

### MemoryLoop

`run[r]` is how far a run has come through `run_workflow`, `resume[t]` what a thread does
in `resume_after_approval` and its locals, `lessons` the table `persona_insights`,
`outcomes` and `status` what the tables say of each run. Any number of threads may serve
approvals of one run at a time: each has its own execution, evaluation and label, and they
share the run's one outcome row and its status.

| Code | Actions |
|---|---|
| start of a run, `retrieve_persona_evidence`, `gate_memory_evidence` | `Retrieve`, `StartCrmSync` |
| strategist | `Decide`, `DecideByModel` |
| action agent and `requires_approval` | `Plan`, `PlanByModel` |
| approval and execution | `Approve`, `PlanCrmSync`; then `Execute` (the log), `MarkExecuted` (the status) |
| evaluator and `_handle_evaluator_result` | `Evaluate`, `EvaluateByModel`; then `Teach`; then `Complete`: three transactions |
| exceptions, restarts, time | `Fail`, `FailResume`, `Crash`, `DaysPass` |

`Newest`, `Retrieved` and `Gated` are the retrieval: the newest five rows of the
persona are taken *before* they are ranked, equal texts count once, and the stages of
the gate filter and average differently. Qualities, impacts and hints are in
thousandths and rounded as the code's floats are. The text of a lesson is what the
strategist looks for in it. The in-memory store is left out: the program never writes
insights to it.

Facts of the code the model has: the newest-five limit evicts good lessons for newer weak
ones; failures raise the confidence of later decisions, as a lesson's hint is the
confidence in its label, good or bad; the evaluator credits ROI framing for every reply,
also where the strategy was risk reduction; a model may claim an impact of memory it was
never shown; the action step retrieves evidence only to record it; an execution of all
steps whose evaluation was cut off is never evaluated again, so that the run stays `running`,
while one that failed can be approved again, also after a restart; the plan of `crm_sync` is
approved whatever its confidence.

Two approvals of one run may overlap (`runner.py:480-582`) and report different outcomes
(`service.py:82-83`). Then the second `record_outcome` may replace the first between that
one's outcome and its lesson, and if the process stops there the run is completed and the
outcome on record has no lesson. `CompletedRunTaught` therefore promises a lesson and an
outcome for every completed run, but that they agree only for runs outside `overlapped`.
`resumed` and `overlapped` are read by no code; `resumed` bounds the executions.

Simplifications: a run is its deal's only one, as `Orchestrator` has the envelopes and run
ids that runs of a deal share; the newest rows are those with the highest ids, where the
code orders by `created_at` first, a time taken before the write lock; an exact half in the
quality of a *model's* hint may be rounded either way by the code and is rounded one way here.

### PromptRollout

`ReadRollout` and `WriteAssignment` are the two halves of `assign_variant`, which
every render calls; `ReadAssignment` and then `RecordOutcomeMetrics` or
`RecordRejection` those of the counting methods, which read the assignment
before their first write locks the database. Both end in
`EvaluateRolloutHealth`, one transaction with the count. `RegisterPromptRelease`
and `RecordPromotionApproval` are the operator's calls; `ResumeRun` marks a run
as approved, after which `RenderedFor` says which workflow its prompts belong to.
Rates are compared exactly, by cross-multiplying; as the code subtracts floats,
a difference that equals its threshold may fall on either side (`Ties`). A
rejection may be counted for any run with an assignment, also before it has an
action. A resumed run does not pass its workflow on (`runner.py:447`,
`service.py:106`), so its execution and evaluation prompts and its outcome are counted
for the follow-up workflow; the model does the same. A run is in the canary bucket or not
(`CanaryRuns`), where the code hashes run and workflow together. Bounds for TLC only: `MaxExposures`, `MaxVotes`.

### CrmTool

`update_deal_stage` and `append_activity_log` (which `update_crm` calls) are cut at
each access to a dictionary: `Lookup` of the key's answer, `GetRecord` and
`SeedRecord` (`_get_or_create_record`), `CheckVersion` and `Refuse`, `WriteStage`,
`ReadVersion` and `WriteVersion` (the increment), `AppendActivity`, `Answer`. A
stage update changes the version before the timeline, an activity log after it. `WriteStage`
takes the prior stage and writes the new one in one step (`crm_tool.py:142-143`), which
matters to calls that overlap on one deal only.
`Fetch` stands for both reads, whose only effect is to seed a record. An answer
is kept as "done" or "conflict"; notes, metadata, times and the copies in the
responses are left out. Record objects are named by the thread that seeds them,
since two threads may both find none. In the program only `update_crm` runs on
several threads, so `MCCrmTwice` has no other operation; the rest is part of the
tool's interface and is used by its contract tests. What threads keep
(`AnsweredIsWritten`) is proved for any number of them and run with one.

`CrmRecord` is the tool as its client should see it: a deal has a record and a
history, a write changes both and answers its key in one step (`MoveDeal`, `LogNote`), or
is refused (`Refuse`), and an expected version is the one the record has at that step.
`ImplementsRecord` puts that step where the activity is appended, or the refusal kept.
`CurrentRecord` undoes what a stage update has written before its activity and adds what
a note's call has still to write after it (`Settled`); `ToldAnswer` counts an appended call as
answered. Like `EffectOncePerKey` it needs calls on one deal not to overlap.

`Orchestrator` does not use this module: it counts the calls the engine makes
(`sends`), and `CrmTool` says what the CRM makes of repeated ones.

## 3. What the runs check

| Run | Instance | Shows |
|---|---|---|
| `MCRecovery` | 1 run, 2 steps, 1 worker, restarts, execution and evaluator faults, blocked texts, decisions about all or about step 2 | `TypeOK`; `ExecutedMeansSent`; `ExecutedActionIsApproved`; `RunKnownOnResume`; `LoggedStepsStaySent`; `ImplementsLedger` |
| `MCDeals` | 2 runs of one deal and 1 of another, restarts, failing agents | `EffectsNeedGrant`, `FiledOnOwnDeal` |
| `MCThreads` | 2 workers on one run, with fairness | `OutcomeHasExecution`, `CompletedRunHasOutcome`, `SendsAreRecorded`, `ApprovalCompletesRun` |
| `MCEdits` | edits and decisions of a two-step plan, with faults | `ApprovedTextIsSent` |
| `MCRollout` | 1 workflow, 2 runs (one in the canary bucket), 2 threads | `TypeOK`, `ChangelogTellsPhase`, `OneCanary`, `CandidateNeedsCanary`, `FullWasApproved`, `RatesAreFractions` |
| `MCCrmCalls` | 1 deal, 3 keys, 3 stages, expected versions 1 to 3 or none, 1 thread | `TypeOK`, `EffectOncePerKey`, `RefusedIsNotWritten`, `AnsweredIsWritten`, `VersionCountsWrites`, `StagesFollowTimeline`, `ExpectedVersionHolds`, `ImplementsRecord` |
| `MCAgentCall` | the same agent's step of two runs, 2 threads, 2 requests per call, 1 retry of the step, an uncounted and a counted defect of the prompt, one thread with a locked database, with fairness | `TypeOK`, `RowTellsItsCall`, `CountersCoverRows`, `StepIsBounded`, `ImplementsModelAnswer`, `StepEnds` |
| `MCMemoryLoop` | 2 runs of one persona, one of them with the model, 2 threads, 2 histories of lessons, failures, restarts, days passing | `TypeOK`, `StricterStageUsesLess`, `EvidenceWasEarned`, `LiftIsEarned`, `RoiEvidenceNeedsPerson`, `CompletedRunTaught` |
| `MCStaleApproval`, `MCLostEdit`, `MCRejectedStep`, `MCCrmTwice` | the smallest instance that shows it | a counterexample to what a document or test says (section 5) |

**Bounds.** Two steps are the least for a partial execution and for step-scoped
decisions; with three or more nothing new is compared, as steps are handled one
by one. Two runs of a deal give the stale envelope and run id, a third of
another deal is what they could be confused with. Two workers are enough for
each pair of requests to interleave. `SendCap = 2` tells one call from a second
(1 where only "some call" matters). Envelope objects: one for each reference
that can exist at once. The rollout's thresholds are scaled down (20, 10 and 25
exposures to 2, 2 and 3, percentages accordingly) so that advance, rollback,
promotion and a second rollback fit under `MaxExposures = 4`; in these bounds
differences below, at and above a threshold occur. `MCRecovery` and `MCDeals`
use one worker because the properties are about sequential requests, or, for
`MCDeals`, to keep three runs within reach. The CRM's deals do not interact, so one is enough; three
keys per operation allow six writes, so that versions go past every expected one.
In `MCAgentCall` two requests and one retry are the least with a first, a repeated and a last
try at both levels; one retryable and one final status stand for the others. The
histories of `MCMemoryLoop` are weak and strong lessons of one text at different ages, and
four strong ones behind a lesson of another persona, whose impact with that of a new lesson
exceeds the bound of 0.15. Two threads and `MaxResumed = 2` let a run learn from the other,
be judged twice one after another, or be judged by two approvals at once; the theorems have
any number of both. `Stages = {5}` is the raw setting of the strictest stage, the one
whose gate differs from run to run; the laxer stages are compared with it in every state
by `StricterStageUsesLess`, and the theorems cover all. `LastDay = 20` lets a lesson lose
quality between two runs.
Permutations of runs of one deal, keys, workers, envelope objects or threads change nothing in the specification;
symmetry is used in the runs that check safety only (also in `MCRecovery` and
`MCCrmCalls`, whose action and refinement properties name no such element) and never
with liveness.

**Deadlock** is not checked: a system that nobody asks anything, or whose bounded
set of run ids, keys or counters is used up, stops legitimately.

**Fairness.** `FairSpec` adds weak fairness of `Step(w)` for each worker: a thread
that serves a request keeps running, because agents, tools and SQLite calls
return and nothing waits on another thread. It is never assumed that a request
arrives, that a fault or a restart happens, or which thread goes first.
`AgentCall`'s `FairSpec` does the same for a thread inside a step: requests have a time
limit, sleeps end, a lock is got or reported; a step need not begin. `StepEnds` is checked
with all of its faults. `ApprovalCompletesRun` is checked without faults: with an evaluator fault it is
false, as `runner.py:492` makes the second approval return early.

**Mutants.** Each property of a passing run has a mutant in `PROJECT.json`: an
operator beside the original (`..._NoLog`, `..._Early`, commented "variant with
a bug") that changes it as a plausible bug would, and breaks the property. The
variants are part of no specification.

## 4. What is proved

The theorems hold for every value of the constants that satisfies the assumptions of the
modules: `OrchestratorAssumption`, `ClientAssumption`, `CallAssumption`, `LoopAssumption`,
`HistoryAssumption`, `RolloutAssumption` and `CrmAssumption` only type the constants, and
`StepAssumption` is the one discussed above. More conditions are hypotheses of the
theorems that need them; the properties they serve fail otherwise:

| Condition | Meaning | Without it |
|---|---|---|
| `Apart` | requests that overlap are about different deals | two approvals of one deal send a step twice |
| `KeysApart` | CRM calls that overlap are for different keys | a write has its effect twice, see `MCCrmTwice` |
| `DealsApart` | CRM calls that overlap are on different deals | two calls read one version and write it back |
| `OneRunEach` | a deal has one run | another run's action is executed, see `MCStaleApproval` |
| `OneVersion` | `OneRunEach`, and decisions about whole actions (`Scopes` is `{All}`) | an edit of a later step puts its text into the action's row, which is the first step's |
| no restart (`~MayRestart`) | the process keeps its cache | a saved edit is lost, see `MCLostEdit` |
| `NoLoss` | no restart and no fault of the execution | a call is made and never recorded |

`Apart`, `KeysApart` and `DealsApart` are about the moments of a behaviour and stand as
`[]Apart` beside `Spec`; any number of threads and any interleaving of the requests they
allow is covered. With a single thread they hold of themselves, which the two theorems named
`OneByOne` draw from them. The code enforces none of them: they are how the service is used.

**The engine**

* `TypeCorrect` (`OrchestratorProofs`). `TypeOK` is not inductive: a worker's locals must
  name a run, deal and envelope object in the steps that use them. `TypeInv` adds, by
  `pc`, what a job holds, and that the cache and the workers point to objects that exist.
  There is one lemma per group of actions; what a request leaves when it ends
  (`EndRequest`) is one.
* `DealsCorrect` (`DealProofs`), for any threads, runs per deal and restarts:
  `EffectsNeedGrant`, `FiledOnOwnDeal`, `RunKnownOnResume`. `DealInv` adds that everything
  found under a deal is of that deal (`Directory`, `CacheOnDeal`, `JobsOnDeal`), and that
  the run id of a deal is known whenever an envelope of it can be: the two are found in
  different places, and a restart empties one of them.
* `ExecutedCorrect`, `OutcomesExecuted`, `CompletedEvaluated` (with `OneRunEach`) and
  `SendsRecorded` (with `NoLoss`) (`ExecutionProofs`), for any threads. For the first,
  each copy of a status is made from one that satisfies it, calls are never taken back,
  and the run of a shared object does not change while a worker holds it. `FilingInv`
  says what a worker that is about to evaluate or complete has already filed.
* `LedgerKept` and `LoggedIsNotSent` (`LedgerProofs`, under `Apart`): the refinement of
  `OutreachLedger`, with crashes, faults and retries. `SentInv` and `DealInv` give a send
  its grant and a record its calls. `LogInv` gives the rest: wherever the log says
  executed, the running plan says so too, or the output policy blocks the step, and then
  in every attempt. That a request on another deal leaves what this one works on is
  the matter of `EnvelopeKept`, `OtherRequests`, `OtherRows` and `CacheKept`: envelopes of
  two deals are two objects, and rows and cache entries are found by deal.
* `GateHolds` (`LedgerProofs`, under `Apart` and `OneRunEach`): `ExecutedActionIsApproved`.
  `GateInv` says that the queue's members have rows and that a request past the gate has
  an approved one.
* `TextHolds` (`LedgerProofs`, under `Apart` and `OneVersion`, no restart):
  `ApprovedTextIsSent`. `TextInv` says where the text of an action is at each moment: an
  action at rest shows in its row what the next decision finds (the cached envelope or
  else the newest snapshot), one that a request works on what its envelope has, or is
  about to get from an edit.
* `OneByOne` (`LedgerProofs`): with one thread, the ledger and its action property hold of
  every behaviour, and the gate where each deal has one run.

**The agents**

* `TypeCorrect`, `StepsAligned` and `AnswersAsPromised` (`AgentCallProofs`): each step's
  calls implement `ModelAnswer`, for any retries and statuses. `CallsAligned` says what
  the step's phase and the call's know of each other.
* `RowsTellTheirCalls` (under `StepAssumption`): `RowTellsItsCall`, although the row is
  found again by run and agent. `RowsKnown` adds that a step's own row is its newest from
  the time it is written and that its other rows are bare.
* `StepsBounded`: `StepIsBounded`, from what a step may have spent at each phase
  (`Spending`: the whole tries, and what the running one has asked) and logged (`Logging`).
* `RowsAreCounted`: `CountersCoverRows`. A fallback or a lint error that was counted and has
  no row yet is owed by a thread; `Books` says that rows and debts together are covered.

**The memory loop** (`MemoryLoopProofs`)

* `InvariantHolds`, and from it `LoopTyped`, `EvidenceEarned`, `CompletedTaught`,
  `RoiNeedsPerson` and `LiftEarned`, for any personas, runs, threads and histories.
  `IInv` is `MemoryInv` and `WorkInv`. `MemoryInv` joins `LessonsOnRecord` (a lesson names a
  run with an outcome), `IdleTaughtNothing`, `EvidenceInMemory` and `RulesFollowEvidence`
  (what the rules decided still fits the evidence they took). `WorkInv` is about the threads
  of a run: `WorkKnown` says what a thread has left by each phase, `Sole` that a thread whose
  run has not been `overlapped` is alone with it, so that neither the outcome nor the status
  changes behind its back. `CompletedTaught` needs no hypothesis: where approvals overlap
  the property itself asks for less. The lemmas on the gate (`EnoughAt`) say that no
  stage passes an empty set and the last one no single lesson.
* `StricterLess`: `StricterStageUsesLess`, which holds of every table of lessons with
  the right types, reachable or not. The average a strict stage looks at is a sum over a
  finite set; `SumBounded` (a sum is at most its size times a bound on its members) is
  proved by a least counterexample (`LeastNumber`).

**The experiment and the CRM**

* `RolloutCorrect` (`PromptRolloutProofs`): `TypeOK`, `ChangelogTellsPhase`,
  `OneCanary`, `CandidateNeedsCanary` and `FullWasApproved`. `RolloutInv` adds
  `Judged` (with a non-empty changelog, a shadow phase means that the candidate
  has been judged, so `TooFew` is false for good), `ReadsLate` (a thread
  that read the candidate read a rollout past its first shadow phase, or an
  assignment made there) and `NewestAssigned`.
* `RatesCorrect`: `RatesAreFractions`, from `RolloutInv` and itself.
* `TypeCorrect` (`PromptRolloutProofs`, `CrmToolProofs`): the types alone, for any threads.
* `AnsweredCorrect` (`CrmToolProofs`), for any threads and any overlap, from
  `AppendedIsWritten` (a call about to answer has its activity).
* `OnceCorrect` (under `KeysApart`): `EffectOncePerKey` and `RefusedIsNotWritten`, from
  `KeyIsFresh` and `WrittenIsKnown`: what is written was answered, or its call is about to be.
* `VersionCorrect`, `ExpectedCorrect` and `StageCorrect` (under `DealsApart`). `VersionInv`
  says how far version and timeline are apart at each step of a write, `StageInv` what
  the timeline tells of the record's stage there (`MidStage`).
* `RecordKept` (under `DealsApart`): the refinement of `CrmRecord`. `RecordInv` joins the
  invariants above with `AsksWell` (a refused call has its conflict, a note moves nothing).
  `AppendIsWrite` and `RefusalIsOne` are the two steps that count, `RecordStays` and
  `ToldStays` show that no other step is seen.
* `OneByOne` (`CrmToolProofs`): with one thread, all of it holds of every behaviour.

**Only model-checked.** Every safety, action and refinement property of the passing runs
is stated by a theorem, under the conditions above. Liveness (`ApprovalCompletesRun`,
`StepEnds`) is out of the prover's reach, like everything about fairness and `ENABLED`,
and stays with TLC. There is no recursive definition in these modules.

## 5. What the runs with a counterexample show

* `MCStaleApproval`: run 1 waits for approval, run 2 of the same deal replaces the
  cached envelope. The approval of run 1's action sends run 2's.
* `MCLostEdit`: an edit is saved in the action's row only. After a restart, the
  snapshot from before the edit is approved and sent.
* `MCRejectedStep`: step 1 rejected, step 2 approved; step 1 is sent as well.
* `MCCrmTwice`: two threads call `update_crm` with one key, both miss the cache, and the
  activity is written twice.

Other behaviour of the code that the models have and a reader may not expect, without a
run of its own:

* two overlapping approvals of one run with different reported outcomes may leave it
  completed with an outcome that taught nothing (`runner.py:572-582`, see `MemoryLoop`);
* some error rows of prompts are counted nowhere (see `AgentCall`);
* an execution may be filed under a later run of its deal, whose start put its own run id
  in `_run_ids` before it failed (`runner.py:200`, `runner.py:479`);
* a resumed run's prompts are rendered and counted for the follow-up workflow
  (`runner.py:447`, `service.py:106`);
* the queue knows an action and the run waits for approval before the action has its row
  (`runner.py:384-387`): a decision taken in between finds none, and a crash there leaves
  a run that waits for ever;
* a plan that is approved on the spot waits for a request to resume it
  (`runner.py:385`), and a rejection never ends its run (`service.py:110`);
* an evaluation that fails after the execution was recorded is never repeated
  (`runner.py:492`);
* registering the active release again makes it its own stable release
  (`prompt_diagnostics_repo.py:583-586`), registering it as deprecated leaves it active
  in the rollout (line 582), and approvals are counted, not approvers (line 686).

## 6. Not modelled, and the plan

| Left out | Why |
|---|---|
| prompt texts, blocks and contracts; redaction, tokens, latency | data that no guard reads |
| trigger predicates, risk tiers, the terms the output and channel policies look for | decisions without state; the models have their outcomes as choices |
| traces, list queries, summaries, deal rows | written or read, never decided on |
| `workflow_state`, CRM sync and intervention logs | appended or overwritten, read by no one in the engine |
| insight generation, simulation gate, health report, `feedback_writer` | offline scripts or called by nothing |
| authentication, validation and response shapes, entry point | no state |
| intervention context after a restart (`service.py:325`) | its section is not in the model's envelope |

`PROJECT.json`, `components`, has the reason for each component.

Order of work. Done: `Orchestrator` with `OutreachLedger`, `PromptRollout`, `CrmTool`
with `CrmRecord`, `LlmClient` with `ModelAnswer` and `AgentCall`, `MemoryLoop`, and the theorems above. Next:
`StepPolicy`, that is `approval/policy.py`, the registry's risk tiers and the triggers as
operators, checked against reference definitions over small inputs.
