---------------------------- MODULE Orchestrator ----------------------------
(***************************************************************************)
(* The approval-gated workflow engine: WorkflowOrchestrator                *)
(* (orchestrator/runner.py), the service in front of it (api/service.py),  *)
(* the approval queue and the tables both write.                           *)
(*                                                                         *)
(* A request (start, CRM sync, approve, reject, edit) is served by a       *)
(* worker: the REST handlers are synchronous functions, which the server   *)
(* runs on a pool of threads, and nothing in the engine takes a lock.  A   *)
(* worker's steps are cut where another thread or a crash can come         *)
(* between: at the database transactions (each repository method is one)   *)
(* and at every tool call.  A run's status, which no step reads back, is   *)
(* written together with the snapshot or the memory that follows it.       *)
(*                                                                         *)
(* A run's action is named by the run: run_workflow creates at most one    *)
(* action per run and its id is fresh.  Envelopes are objects shared by    *)
(* reference: the service's cache and every worker that serves the deal    *)
(* may hold the same one.                                                  *)
(***************************************************************************)
EXTENDS Naturals

CONSTANTS
  Deals, Runs, DealOf,   \* the deal of each run id that may be created
  Workers,               \* the threads that serve requests
  EnvelopeIds,           \* identities of envelope objects in memory
  NSteps,                \* steps of an action plan, in execution order
  PreAgents,             \* agents that run before the action or CRM agent
  Bodies, Flagged,       \* step texts; those the output policy blocks
  Generated,             \* the texts the agents write
  EditTexts,             \* the texts an editor submits (None: text untouched)
  Scopes,                \* step_id of a decision; All is step_id=None
  Workflows,             \* "outreach" (human gate), "crm_sync" (no gate)
  Faults,                \* where an exception may be raised
  MayRestart,            \* whether the process may be restarted
  SendCap,               \* the tool-call counter saturates here
  None

Steps == 1..NSteps
All == 0

ASSUME OrchestratorAssumption ==
  /\ NSteps \in Nat \ {0} /\ PreAgents \in Nat /\ SendCap \in Nat \ {0}
  /\ DealOf \in [Runs -> Deals]
  /\ Flagged \subseteq Bodies /\ Generated \subseteq Bodies
  /\ EditTexts \subseteq Bodies \cup {None}
  /\ Scopes \subseteq {All} \cup Steps
  /\ Workflows \subseteq {"outreach", "crm_sync"}
  /\ Faults \subseteq {"agent", "execution", "evaluator"}
  /\ MayRestart \in BOOLEAN
  /\ None \notin Runs /\ None \notin EnvelopeIds /\ None \notin Bodies
  /\ None \notin Deals

VARIABLES
  \* Tables, which survive a restart.
  runStatus,   \* workflow_runs.run_status, "none" before the row exists
  latestRun,   \* the run of a deal with the latest started_at
  actionRow,   \* actions: status and body_draft of a run's action
  stepRow,     \* action_steps: status and body of each step
  execLog,     \* execution_logs: the run an action's last execution is filed under
  stepLog,     \* execution_step_logs: the last status logged for each step
  outcomeRow,  \* outcomes: the run an action's outcome is filed under
  snapshot,    \* context_envelopes: the newest envelope saved for a deal
  \* Memory of the process.
  queue,       \* ApprovalQueue: the action ids it knows
  runIds,      \* WorkflowOrchestrator._run_ids
  dealEnvelope,\* WorkflowAPI._deal_envelopes
  envelope,    \* the envelope objects themselves
  pc, job,     \* what each worker does next, and its local variables
  \* The outside world, which no code reads.
  sends,       \* tool calls that took effect, per step of a run's action
  granted      \* runs whose action was let through: approved by a person or
               \* by the confidence policy, or of a workflow without a gate

tables == <<runStatus, latestRun, actionRow, stepRow, execLog, stepLog,
            outcomeRow, snapshot>>
memory == <<queue, runIds, dealEnvelope, envelope>>
vars == <<tables, memory, pc, job, sends, granted>>

-----------------------------------------------------------------------------
(***************************************************************************)
(* Values.                                                                 *)
(***************************************************************************)
RunStatuses == {"none", "running", "waiting_approval", "completed", "failed",
                "skipped"}
ActionStatuses == {"none", "pending_approval", "approved", "rejected"}
StepStatuses == ActionStatuses \cup {"executed", "failed"}
Results == {"none", "executed", "failed"}

StepTexts == [Steps -> Bodies \cup {None}]
StepRows == [stat : [Steps -> StepStatuses], body : StepTexts]

\* ContextEnvelope: the run that created it, the status of its action plan
\* ("none": no action context yet) and the plan's steps.
EnvelopeValues == [run : Runs, plan : ActionStatuses,
                   stat : [Steps -> StepStatuses], body : StepTexts]

NoEnvelope == [run |-> None, plan |-> "none"]
NoStepRows == [stat |-> [i \in Steps |-> "none"], body |-> [i \in Steps |-> None]]
NoResults == [i \in Steps |-> "none"]

NewEnvelope(r) == [run |-> r, plan |-> "none", stat |-> NoStepRows.stat,
                   body |-> NoStepRows.body]

RequestKinds == {"none", "outreach", "crm_sync", "approve", "reject", "edit"}
PcValues == {"idle", "created", "agents", "action_row", "step_rows",
             "action_snapshot", "returning", "decided", "hydrated", "loaded",
             "resuming", "executing", "steps", "record", "plan_rows", "mark", "evaluating",
             "completing"}

\* A worker's locals: the kind of request, the run or action id it names, its
\* scope and text, the deal and envelope it found, and in resume_after_approval
\* the run id, the loop index and the results of the steps.
NoJob == [kind |-> "none", id |-> None, scope |-> All, text |-> None,
          deal |-> None, env |-> None, rid |-> None, next |-> 0,
          res |-> NoResults]

Jobs == [kind : RequestKinds, id : Runs \cup {None}, scope : {All} \cup Steps,
         text : Bodies \cup {None}, deal : Deals \cup {None},
         env : EnvelopeIds \cup {None}, rid : Runs \cup {None}, next : Nat,
         res : [Steps -> Results]]

TypeOK ==
  /\ runStatus \in [Runs -> RunStatuses]
  /\ latestRun \in [Deals -> Runs \cup {None}]
  /\ actionRow \in [Runs -> [status : ActionStatuses, body : Bodies \cup {None}]]
  /\ stepRow \in [Runs -> StepRows]
  /\ execLog \in [Runs -> Runs \cup {None}]
  /\ stepLog \in [Runs -> [Steps -> Results]]
  /\ outcomeRow \in [Runs -> Runs \cup {None}]
  /\ snapshot \in [Deals -> EnvelopeValues \cup {NoEnvelope}]
  /\ queue \subseteq Runs
  /\ runIds \in [Deals -> Runs \cup {None}]
  /\ dealEnvelope \in [Deals -> EnvelopeIds \cup {None}]
  /\ envelope \in [EnvelopeIds -> EnvelopeValues \cup {NoEnvelope}]
  /\ pc \in [Workers -> PcValues]
  /\ job \in [Workers -> Jobs]
  /\ sends \in [Runs -> [Steps -> 0..SendCap]]
  /\ granted \subseteq Runs

Init ==
  /\ runStatus = [r \in Runs |-> "none"]
  /\ latestRun = [d \in Deals |-> None]
  /\ actionRow = [r \in Runs |-> [status |-> "none", body |-> None]]
  /\ stepRow = [r \in Runs |-> NoStepRows]
  /\ execLog = [r \in Runs |-> None]
  /\ stepLog = [r \in Runs |-> NoResults]
  /\ outcomeRow = [r \in Runs |-> None]
  /\ snapshot = [d \in Deals |-> NoEnvelope]
  /\ queue = {}
  /\ runIds = [d \in Deals |-> None]
  /\ dealEnvelope = [d \in Deals |-> None]
  /\ envelope = [e \in EnvelopeIds |-> NoEnvelope]
  /\ pc = [w \in Workers |-> "idle"]
  /\ job = [w \in Workers |-> NoJob]
  /\ sends = [r \in Runs |-> [i \in Steps |-> 0]]
  /\ granted = {}


-----------------------------------------------------------------------------
(***************************************************************************)
(* What the requests share.                                                *)
(***************************************************************************)
Goto(w, label) == pc' = [pc EXCEPT ![w] = label]

\* The envelope objects something still refers to.
Held == {dealEnvelope[d] : d \in Deals} \cup {job[v].env : v \in Workers}

FreshEnvelopes == EnvelopeIds \ Held

\* The request of w ends, the cache is left as de and the objects as es; what
\* nothing refers to any more is gone.
EndRequest(w, de, es) ==
  /\ Goto(w, "idle")
  /\ job' = [job EXCEPT ![w] = NoJob]
  /\ dealEnvelope' = de
  /\ envelope' = [e \in EnvelopeIds |->
                    IF \/ \E d \in Deals : de[d] = e
                       \/ \E v \in Workers \ {w} : job[v].env = e
                    THEN es[e] ELSE NoEnvelope]

\* _update_run_status; callers that got no run id from _run_ids skip it.
WithStatus(r, status) ==
  IF r = None THEN runStatus ELSE [runStatus EXCEPT ![r] = status]

\* _snapshot: filed under the run that _run_ids names, skipped without one.
WithSnapshot(w) ==
  LET d == job[w].deal
  IN IF runIds[d] = None THEN snapshot
     ELSE [snapshot EXCEPT ![d] = envelope[job[w].env]]

-----------------------------------------------------------------------------
(***************************************************************************)
(* run_workflow: start_workflow and run_crm_sync_workflow.                 *)
(***************************************************************************)
StartRun(w, d, kind) ==
  /\ pc[w] = "idle"
  /\ \E r \in Runs, e \in FreshEnvelopes :
       /\ runStatus[r] = "none" /\ DealOf[r] = d
       /\ runStatus' = [runStatus EXCEPT ![r] = "running"]
       /\ latestRun' = [latestRun EXCEPT ![d] = r]
       /\ runIds' = [runIds EXCEPT ![d] = r]
       /\ envelope' = [envelope EXCEPT ![e] = NewEnvelope(r)]
       /\ job' = [job EXCEPT ![w] = [NoJob EXCEPT !.kind = kind, !.id = r,
                                     !.deal = d, !.env = e]]
  /\ Goto(w, "created")
  /\ UNCHANGED <<actionRow, stepRow, execLog, stepLog, outcomeRow, snapshot,
                 queue, dealEnvelope, sends, granted>>

FirstSnapshot(w) ==
  /\ pc[w] = "created"
  /\ snapshot' = WithSnapshot(w)
  /\ Goto(w, "agents")
  /\ UNCHANGED <<runStatus, latestRun, actionRow, stepRow, execLog, stepLog,
                 outcomeRow, memory, job, sends, granted>>

\* The deal does not meet the workflow's trigger.
SkipRun(w) ==
  /\ pc[w] = "agents" /\ job[w].next = 0
  /\ runStatus' = WithStatus(job[w].id, "skipped")
  /\ snapshot' = WithSnapshot(w)
  /\ EndRequest(w, [dealEnvelope EXCEPT ![job[w].deal] = job[w].env], envelope)
  /\ UNCHANGED <<latestRun, actionRow, stepRow, execLog, stepLog, outcomeRow,
                 queue, runIds, sends, granted>>

\* A signal, context, strategist or intervention agent adds its section.
AgentStep(w) ==
  /\ pc[w] = "agents" /\ job[w].next < PreAgents
  /\ runStatus' = WithStatus(job[w].id, "running")
  /\ snapshot' = WithSnapshot(w)
  /\ job' = [job EXCEPT ![w].next = @ + 1]
  /\ UNCHANGED <<latestRun, actionRow, stepRow, execLog, stepLog, outcomeRow,
                 memory, pc, sends, granted>>

\* An agent raises: the run fails and its envelope never reaches the cache.
AgentFail(w) ==
  /\ "agent" \in Faults
  /\ pc[w] = "agents"
  /\ runStatus' = WithStatus(job[w].id, "failed")
  /\ snapshot' = WithSnapshot(w)
  /\ EndRequest(w, dealEnvelope, envelope)
  /\ UNCHANGED <<latestRun, actionRow, stepRow, execLog, stepLog, outcomeRow,
                 queue, runIds, sends, granted>>

\* The action or CRM agent has planned; the plan, in the envelope, waits for a
\* person or is approved at once.  A CRM plan always is.
Planned(w, text, plan) ==
  LET e == job[w].env
      r == job[w].id
  IN /\ envelope' = [envelope EXCEPT ![e].plan = plan, ![e].body = text,
                                     ![e].stat = [i \in Steps |-> plan]]
     /\ runStatus' = WithStatus(r, IF plan = "approved" THEN "running"
                                   ELSE "waiting_approval")
     /\ queue' = IF plan = "approved" THEN queue ELSE queue \cup {r}
     /\ granted' = IF plan = "approved" THEN granted \cup {r} ELSE granted

PlanAction(w, plan) ==
  /\ pc[w] = "agents" /\ job[w].next = PreAgents
  /\ job[w].kind = "crm_sync" => plan = "approved"
  /\ \E text \in [Steps -> Generated] : Planned(w, text, plan)
  /\ Goto(w, "action_row")
  /\ UNCHANGED <<latestRun, actionRow, stepRow, execLog, stepLog, outcomeRow,
                 snapshot, runIds, dealEnvelope, job, sends>>

UpsertAction(w) ==
  /\ pc[w] = "action_row"
  /\ LET env == envelope[job[w].env]
     IN actionRow' = [actionRow EXCEPT ![job[w].id] =
                        [status |-> env.plan, body |-> env.body[1]]]
  /\ Goto(w, "step_rows")
  /\ UNCHANGED <<runStatus, latestRun, stepRow, execLog, stepLog, outcomeRow,
                 snapshot, memory, job, sends, granted>>

\* The run whose action the envelope of w carries.
Target(w) == envelope[job[w].env].run

\* upsert_action_plan writes every step of the plan in one transaction.
WithPlanRows(w) ==
  LET env == envelope[job[w].env]
  IN [stepRow EXCEPT ![Target(w)] = [stat |-> env.stat, body |-> env.body]]

UpsertPlan(w) ==
  /\ pc[w] = "step_rows"
  /\ stepRow' = WithPlanRows(w)
  /\ Goto(w, "action_snapshot")
  /\ UNCHANGED <<runStatus, latestRun, actionRow, execLog, stepLog, outcomeRow,
                 snapshot, memory, job, sends, granted>>

\* Variant with a bug: every workflow goes on to execute.
SnapshotAction_NoGate(w) ==
  /\ pc[w] = "action_snapshot"
  /\ snapshot' = WithSnapshot(w)
  /\ Goto(w, "resuming")
  /\ UNCHANGED <<runStatus, latestRun, actionRow, stepRow, execLog, stepLog,
                 outcomeRow, memory, job, sends, granted>>

\* run_workflow returns here, approved or not; the CRM handler goes on to
\* resume_after_approval itself.
SnapshotAction(w) ==
  /\ pc[w] = "action_snapshot"
  /\ snapshot' = WithSnapshot(w)
  /\ Goto(w, IF job[w].kind = "crm_sync" THEN "resuming" ELSE "returning")
  /\ UNCHANGED <<runStatus, latestRun, actionRow, stepRow, execLog, stepLog,
                 outcomeRow, memory, job, sends, granted>>

ReturnStart(w) ==
  /\ pc[w] = "returning"
  /\ EndRequest(w, [dealEnvelope EXCEPT ![job[w].deal] = job[w].env], envelope)
  /\ UNCHANGED <<tables, queue, runIds, sends, granted>>

-----------------------------------------------------------------------------
(***************************************************************************)
(* approve_action, reject_action and edit_action.                          *)
(***************************************************************************)
KnownActions == {r \in Runs : r \in queue \/ actionRow[r].status # "none"}

Matches(scope, i) == scope \in {All, i}

\* Variant with a bug: a rejected action's row is final.
WithActionRow_KeepsRejected(a, status, text) ==
  IF actionRow[a].status \in {"none", "rejected"} THEN actionRow
  ELSE [actionRow EXCEPT ![a] =
         [status |-> status, body |-> IF text = None THEN @.body ELSE text]]

\* set_approved, set_rejected, set_edited: the action's row, and the rows of the
\* steps in scope.  Only a step edit carries its text to a step's row.
WithActionRow(a, status, text) ==
  IF actionRow[a].status = "none" THEN actionRow
  ELSE [actionRow EXCEPT ![a] =
         [status |-> status, body |-> IF text = None THEN @.body ELSE text]]

WithStepRows(a, scope, status, text) ==
  LET row == stepRow[a]
      hit == {i \in Steps : Matches(scope, i) /\ row.stat[i] # "none"}
  IN [stepRow EXCEPT ![a] =
       [stat |-> [i \in Steps |-> IF i \in hit THEN status ELSE row.stat[i]],
        body |-> [i \in Steps |-> IF i \in hit /\ scope = i /\ text # None
                                  THEN text ELSE row.body[i]]]]

\* Variant with a bug: the table takes the word the API returns.
StatusAfter_Edited(kind) ==
  CASE kind = "approve" -> "approved"
    [] kind = "reject"  -> "rejected"
    [] kind = "edit"    -> "edited"

StatusAfter(kind) ==
  CASE kind = "approve" -> "approved"
    [] kind = "reject"  -> "rejected"
    [] kind = "edit"    -> "pending_approval"

\* The decision is in the queue and in the tables before the envelope is found.
Decide(w, kind, a, scope, text) ==
  /\ pc[w] = "idle"
  /\ a \in KnownActions
  /\ queue' = queue \cup {a}
  /\ actionRow' = WithActionRow(a, StatusAfter(kind), text)
  /\ stepRow' = WithStepRows(a, scope, StatusAfter(kind), text)
  /\ granted' = IF kind = "approve" THEN granted \cup {a} ELSE granted
  /\ job' = [job EXCEPT ![w] = [NoJob EXCEPT !.kind = kind, !.id = a,
                                !.scope = scope, !.text = text]]
  /\ Goto(w, "decided")
  /\ UNCHANGED <<runStatus, latestRun, execLog, stepLog, outcomeRow, snapshot,
                 runIds, dealEnvelope, envelope, sends>>

Approve(w, a, scope) == Decide(w, "approve", a, scope, None)
Reject(w, a, scope)  == Decide(w, "reject", a, scope, None)
Edit(w, a, scope, text) == Decide(w, "edit", a, scope, text)

\* _find_deal_for_action: the deal whose cached envelope carries the action,
\* else the deal of the action's row.
DealsHolding(a) ==
  {d \in Deals : LET e == dealEnvelope[d]
                 IN e # None /\ envelope[e].plan # "none" /\ envelope[e].run = a}

FoundDeals(a) ==
  IF DealsHolding(a) # {} THEN DealsHolding(a)
  ELSE IF actionRow[a].status # "none" THEN {DealOf[a]} ELSE {}

\* _load_envelope: the deal's cached envelope, whichever run made it ...
LoadCached(w) ==
  /\ pc[w] = "decided"
  /\ \E d \in FoundDeals(job[w].id) :
       LET e == dealEnvelope[d]
       IN /\ e # None
          /\ job' = [job EXCEPT ![w].deal = d, ![w].env = e]
  /\ Goto(w, "loaded")
  /\ UNCHANGED <<tables, memory, sends, granted>>

\* ... or, on a miss, a new object from the deal's newest snapshot ...
LoadSaved(w) ==
  /\ pc[w] = "decided"
  /\ \E d \in FoundDeals(job[w].id), e \in FreshEnvelopes :
       /\ dealEnvelope[d] = None /\ snapshot[d] # NoEnvelope
       /\ envelope' = [envelope EXCEPT ![e] = snapshot[d]]
       /\ job' = [job EXCEPT ![w].deal = d, ![w].env = e]
  /\ Goto(w, "hydrated")
  /\ UNCHANGED <<tables, queue, runIds, dealEnvelope, sends, granted>>

\* Variant with a bug: the run id is not restored.
StoreHydrated_NoRunId(w) ==
  /\ pc[w] = "hydrated"
  /\ dealEnvelope' = [dealEnvelope EXCEPT ![job[w].deal] = job[w].env]
  /\ Goto(w, "loaded")
  /\ UNCHANGED <<tables, queue, runIds, envelope, job, sends, granted>>

\* ... which then becomes the cached one, under the deal's newest run.
StoreHydrated(w) ==
  /\ pc[w] = "hydrated"
  /\ LET d == job[w].deal
     IN /\ runIds' = [runIds EXCEPT ![d] = latestRun[d]]
        /\ dealEnvelope' = [dealEnvelope EXCEPT ![d] = job[w].env]
  /\ Goto(w, "loaded")
  /\ UNCHANGED <<tables, queue, envelope, job, sends, granted>>

\* The deal is not found, or it has no snapshot: the request ends in an error.
LoadFails(w) ==
  /\ pc[w] = "decided"
  /\ \A d \in FoundDeals(job[w].id) :
       dealEnvelope[d] = None /\ snapshot[d] = NoEnvelope
  /\ EndRequest(w, dealEnvelope, envelope)
  /\ UNCHANGED <<tables, queue, runIds, sends, granted>>

\* An envelope without an action: None has no status to set (nor a preview or
\* body), and resume_after_approval refuses it.
DecisionFails(w) ==
  /\ pc[w] = "loaded"
  /\ envelope[job[w].env].plan = "none"
  /\ job[w].kind = "approve" \/ job[w].scope = All \/ job[w].text # None
  /\ EndRequest(w, dealEnvelope, envelope)
  /\ UNCHANGED <<tables, queue, runIds, sends, granted>>

\* Step ids are fresh for each plan: a decision on a step finds it only in the plan of
\* the action it names, and the envelope may carry another run's.
Elsewhere == NSteps + 1

PlanScope(w) ==
  IF job[w].scope = All \/ Target(w) = job[w].id THEN job[w].scope ELSE Elsewhere

\* The plan after an approval: everything, or the one step and then the plan if
\* every step is approved.
ApprovedPlan(env, scope) ==
  LET stat == [i \in Steps |-> IF Matches(scope, i) THEN "approved"
                               ELSE env.stat[i]]
  IN [env EXCEPT !.stat = stat,
                 !.plan = IF scope = All \/ \A i \in Steps : stat[i] = "approved"
                          THEN "approved" ELSE @]

RejectedPlan(env, scope) ==
  [env EXCEPT !.stat = [i \in Steps |-> IF Matches(scope, i) THEN "rejected"
                                        ELSE @[i]],
              !.plan = IF scope = All THEN "rejected" ELSE @]

\* Variant with a bug: without a scope the last step is edited.
EditedPlan_Last(env, scope, text) ==
  LET i == IF scope \in Steps THEN scope ELSE NSteps
  IN [env EXCEPT !.plan = "pending_approval", !.stat[i] = "pending_approval",
                 !.body[i] = IF text = None THEN @ ELSE text]

\* The edited step is the one in scope, else, or if the plan has none, the first.
EditedPlan(env, scope, text) ==
  LET i == IF scope \in Steps THEN scope ELSE 1
  IN [env EXCEPT !.plan = "pending_approval", !.stat[i] = "pending_approval",
                 !.body[i] = IF text = None THEN @ ELSE text]

ApproveLoaded(w) ==
  /\ pc[w] = "loaded" /\ job[w].kind = "approve"
  /\ envelope[job[w].env].plan # "none"
  /\ envelope' = [envelope EXCEPT ![job[w].env] = ApprovedPlan(@, PlanScope(w))]
  /\ Goto(w, "resuming")
  /\ UNCHANGED <<tables, queue, runIds, dealEnvelope, job, sends, granted>>

\* A rejection or an edit changes the envelope in memory and ends: nothing
\* resumes the run, and nothing saves the envelope.
RevisedPlan(w) ==
  LET env == envelope[job[w].env]
  IN IF env.plan = "none" THEN env
     ELSE IF job[w].kind = "reject" THEN RejectedPlan(env, PlanScope(w))
     ELSE EditedPlan(env, PlanScope(w), job[w].text)

ReviseLoaded(w) ==
  /\ pc[w] = "loaded" /\ job[w].kind \in {"reject", "edit"}
  /\ envelope[job[w].env].plan = "none" => job[w].scope # All /\ job[w].text = None
  /\ EndRequest(w, [dealEnvelope EXCEPT ![job[w].deal] = job[w].env],
                [envelope EXCEPT ![job[w].env] = RevisedPlan(w)])
  /\ UNCHANGED <<tables, queue, runIds, sends, granted>>

-----------------------------------------------------------------------------
(***************************************************************************)
(* resume_after_approval, the execution agent and the evaluator.           *)
(***************************************************************************)
\* Variant with a bug: the execution log is not consulted.
ResumedStat_NoLog(env) ==
  [i \in Steps |-> IF env.stat[i] = "executed" THEN "executed" ELSE "approved"]

\* Steps are approved, and those the execution log knows take its last word.
ResumedStat(env) ==
  LET r == env.run
  IN [i \in Steps |->
       IF execLog[r] # None /\ stepLog[r][i] # "none" THEN stepLog[r][i]
       ELSE IF env.stat[i] = "executed" THEN "executed" ELSE "approved"]

\* With every step executed and an execution on record there is nothing left.
AllExecuted(w) ==
  /\ execLog[Target(w)] # None
  /\ \A i \in Steps : ResumedStat(envelope[job[w].env])[i] = "executed"

ResumedEnvelopes(w) ==
  [envelope EXCEPT ![job[w].env].plan = "approved",
                   ![job[w].env].stat = ResumedStat(envelope[job[w].env])]

ResumeNothingLeft(w) ==
  /\ pc[w] = "resuming" /\ AllExecuted(w)
  /\ EndRequest(w, [dealEnvelope EXCEPT ![job[w].deal] = job[w].env],
                ResumedEnvelopes(w))
  /\ UNCHANGED <<tables, queue, runIds, sends, granted>>

\* Variant with a bug: one current run for the process, not one per deal.
Resume_AnyRun(w) ==
  /\ pc[w] = "resuming" /\ ~AllExecuted(w)
  /\ envelope' = ResumedEnvelopes(w)
  /\ \E d \in Deals : /\ runIds[d] # None
                      /\ job' = [job EXCEPT ![w].rid = runIds[d]]
  /\ Goto(w, "executing")
  /\ UNCHANGED <<tables, queue, runIds, dealEnvelope, sends, granted>>

Resume(w) ==
  /\ pc[w] = "resuming" /\ ~AllExecuted(w)
  /\ envelope' = ResumedEnvelopes(w)
  /\ job' = [job EXCEPT ![w].rid = runIds[job[w].deal]]
  /\ Goto(w, "executing")
  /\ UNCHANGED <<tables, queue, runIds, dealEnvelope, sends, granted>>

\* Variant with a bug: an execution without steps is not recorded.
ExecBegin_Unrecorded(w) ==
  /\ pc[w] = "executing"
  /\ job' = [job EXCEPT ![w].next = 1, ![w].res = NoResults]
  /\ Goto(w, IF envelope[job[w].env].plan = "approved" THEN "steps"
             ELSE "evaluating")
  /\ UNCHANGED <<tables, memory, sends, granted>>

\* A plan that is no longer approved yields a failed execution without steps.
ExecBegin(w) ==
  /\ pc[w] = "executing"
  /\ job' = [job EXCEPT ![w].next = 1, ![w].res = NoResults]
  /\ Goto(w, IF envelope[job[w].env].plan = "approved" THEN "steps" ELSE "record")
  /\ UNCHANGED <<tables, memory, sends, granted>>

Bump(n) == IF n < SendCap THEN n + 1 ELSE n

\* The output policy (or the channel policy) blocks a step, executed or not; a
\* step executed before keeps its receipt; any other calls its tool.
Blocked(w) == envelope[job[w].env].body[job[w].next] \in Flagged

\* Variant with a bug: a step that failed before is taken as done.
CallsTool_NotFailed(w) ==
  /\ pc[w] = "steps" /\ job[w].next \in Steps
  /\ ~Blocked(w)
  /\ envelope[job[w].env].stat[job[w].next] \notin {"executed", "failed"}

CallsTool(w) ==
  /\ pc[w] = "steps" /\ job[w].next \in Steps
  /\ ~Blocked(w)
  /\ envelope[job[w].env].stat[job[w].next] # "executed"

StepDone(w, result) ==
  /\ envelope' = [envelope EXCEPT ![job[w].env].stat[job[w].next] = result]
  /\ job' = [job EXCEPT ![w].next = @ + 1, ![w].res[job[w].next] = result]
  /\ UNCHANGED <<tables, queue, runIds, dealEnvelope, pc, granted>>

ExecStepBlocked(w) ==
  /\ pc[w] = "steps" /\ job[w].next \in Steps
  /\ Blocked(w)
  /\ StepDone(w, "failed")
  /\ UNCHANGED sends

ExecStepAlready(w) ==
  /\ pc[w] = "steps" /\ job[w].next \in Steps
  /\ ~Blocked(w) /\ ~CallsTool(w)
  /\ StepDone(w, "executed")
  /\ UNCHANGED sends

ExecStepSend(w) ==
  /\ CallsTool(w)
  /\ StepDone(w, "executed")
  /\ sends' = [sends EXCEPT ![Target(w)][job[w].next] = Bump(@)]

\* Variant with a bug: the execution is not recorded.
ExecEnd_Unrecorded(w) ==
  /\ pc[w] = "steps" /\ job[w].next > NSteps
  /\ Goto(w, "plan_rows")
  /\ UNCHANGED <<tables, memory, job, sends, granted>>

ExecEnd(w) ==
  /\ pc[w] = "steps" /\ job[w].next > NSteps
  /\ Goto(w, "record")
  /\ UNCHANGED <<tables, memory, job, sends, granted>>

\* The execution agent or the evaluator raises once its retries are used up.
\* The run of the request is marked failed; a CRM sync is still inside
\* run_workflow, whose handler fails its own run and saves the envelope.
ResumeFails(w) ==
  LET job_run == IF job[w].kind = "crm_sync" THEN job[w].id ELSE job[w].rid
  IN /\ runStatus' = [r \in Runs |->
                        IF r \in {job_run, job[w].rid} THEN "failed"
                        ELSE runStatus[r]]
     /\ snapshot' = IF job[w].kind = "crm_sync" THEN WithSnapshot(w) ELSE snapshot
     /\ EndRequest(w, dealEnvelope, envelope)
     /\ UNCHANGED <<latestRun, actionRow, stepRow, execLog, stepLog, outcomeRow,
                    queue, runIds, sends, granted>>

ExecFail(w) ==
  /\ "execution" \in Faults
  /\ pc[w] \in {"executing", "steps"}
  /\ ResumeFails(w)

\* Variant with a bug: a retry starts from a plan whose statuses are reset.
ExecRetry_Reset(w) ==
  /\ "execution" \in Faults
  /\ pc[w] = "steps"
  /\ envelope' = [envelope EXCEPT ![job[w].env].stat = [i \in Steps |-> "approved"]]
  /\ Goto(w, "executing")
  /\ UNCHANGED <<tables, queue, runIds, dealEnvelope, job, sends, granted>>

\* An exception that is neither a ValueError nor a TypeError makes with_retries
\* call the agent again, on the plan as the failed attempt left it.  (The number
\* of attempts, three, is not counted.)
ExecRetry(w) ==
  /\ "execution" \in Faults
  /\ pc[w] = "steps"
  /\ Goto(w, "executing")
  /\ UNCHANGED <<tables, memory, job, sends, granted>>

\* record_execution: the action's one row (action_id is unique) is replaced, and a
\* row is added for each step the execution reached.
RecordExecution(w) ==
  /\ pc[w] = "record"
  /\ execLog' = [execLog EXCEPT ![Target(w)] =
                   IF job[w].rid = None THEN @ ELSE job[w].rid]
  /\ stepLog' = IF job[w].rid = None THEN stepLog
                ELSE [stepLog EXCEPT ![Target(w)] =
                        [i \in Steps |-> IF job[w].res[i] = "none" THEN @[i]
                                         ELSE job[w].res[i]]]
  /\ Goto(w, "plan_rows")
  /\ UNCHANGED <<runStatus, latestRun, actionRow, stepRow, outcomeRow, snapshot,
                 memory, job, sends, granted>>

PersistPlan(w) ==
  /\ pc[w] = "plan_rows"
  /\ stepRow' = IF job[w].rid = None THEN stepRow ELSE WithPlanRows(w)
  /\ Goto(w, "mark")
  /\ UNCHANGED <<runStatus, latestRun, actionRow, execLog, stepLog, outcomeRow,
                 snapshot, memory, job, sends, granted>>

\* Variant with a bug: the run is completed before it is evaluated.
MarkExecuted_Early(w) ==
  /\ pc[w] = "mark"
  /\ runStatus' = WithStatus(job[w].rid, "completed")
  /\ snapshot' = IF job[w].rid = None THEN snapshot ELSE WithSnapshot(w)
  /\ Goto(w, "evaluating")
  /\ UNCHANGED <<latestRun, actionRow, stepRow, execLog, stepLog, outcomeRow,
                 memory, job, sends, granted>>

MarkExecuted(w) ==
  /\ pc[w] = "mark"
  /\ runStatus' = WithStatus(job[w].rid, "running")
  /\ snapshot' = IF job[w].rid = None THEN snapshot ELSE WithSnapshot(w)
  /\ Goto(w, "evaluating")
  /\ UNCHANGED <<latestRun, actionRow, stepRow, execLog, stepLog, outcomeRow,
                 memory, job, sends, granted>>

EvalFail(w) ==
  /\ "evaluator" \in Faults
  /\ pc[w] = "evaluating"
  /\ ResumeFails(w)

RecordOutcome(w) ==
  /\ pc[w] = "evaluating"
  /\ outcomeRow' = [outcomeRow EXCEPT ![Target(w)] =
                      IF job[w].rid = None THEN @ ELSE job[w].rid]
  /\ Goto(w, "completing")
  /\ UNCHANGED <<runStatus, latestRun, actionRow, stepRow, execLog, stepLog,
                 snapshot, memory, job, sends, granted>>

\* Variant with a bug: the run's status is left as it was.
Complete_NoStatus(w) ==
  /\ pc[w] = "completing"
  /\ snapshot' = IF job[w].rid = None THEN snapshot ELSE WithSnapshot(w)
  /\ EndRequest(w, [dealEnvelope EXCEPT ![job[w].deal] = job[w].env], envelope)
  /\ UNCHANGED <<runStatus, latestRun, actionRow, stepRow, execLog, stepLog,
                 outcomeRow, queue, runIds, sends, granted>>

Complete(w) ==
  /\ pc[w] = "completing"
  /\ runStatus' = WithStatus(job[w].rid, "completed")
  /\ snapshot' = IF job[w].rid = None THEN snapshot ELSE WithSnapshot(w)
  /\ EndRequest(w, [dealEnvelope EXCEPT ![job[w].deal] = job[w].env], envelope)
  /\ UNCHANGED <<latestRun, actionRow, stepRow, execLog, stepLog, outcomeRow,
                 queue, runIds, sends, granted>>

-----------------------------------------------------------------------------
\* The process stops between any two steps and starts with an empty memory.
Restart ==
  /\ MayRestart
  /\ queue' = {}
  /\ runIds' = [d \in Deals |-> None]
  /\ dealEnvelope' = [d \in Deals |-> None]
  /\ envelope' = [e \in EnvelopeIds |-> NoEnvelope]
  /\ pc' = [w \in Workers |-> "idle"]
  /\ job' = [w \in Workers |-> NoJob]
  /\ UNCHANGED <<tables, sends, granted>>

\* A request arrives, or one that was accepted goes on.
Request(w) ==
  \/ \E d \in Deals, kind \in Workflows : StartRun(w, d, kind)
  \/ \E a \in Runs, scope \in Scopes :
       \/ Approve(w, a, scope)
       \/ Reject(w, a, scope)
       \/ \E text \in EditTexts : Edit(w, a, scope, text)

Fault(w) == AgentFail(w) \/ ExecFail(w) \/ ExecRetry(w) \/ EvalFail(w)

Step(w) ==
  \/ FirstSnapshot(w) \/ SkipRun(w) \/ AgentStep(w)
  \/ \E plan \in {"pending_approval", "approved"} : PlanAction(w, plan)
  \/ UpsertAction(w) \/ UpsertPlan(w) \/ SnapshotAction(w) \/ ReturnStart(w)
  \/ LoadCached(w) \/ LoadSaved(w) \/ StoreHydrated(w) \/ LoadFails(w)
  \/ DecisionFails(w) \/ ApproveLoaded(w) \/ ReviseLoaded(w)
  \/ ResumeNothingLeft(w) \/ Resume(w) \/ ExecBegin(w)
  \/ ExecStepBlocked(w) \/ ExecStepAlready(w) \/ ExecStepSend(w) \/ ExecEnd(w)
  \/ RecordExecution(w) \/ PersistPlan(w) \/ MarkExecuted(w)
  \/ RecordOutcome(w) \/ Complete(w)

Next ==
  \/ \E w \in Workers : Request(w) \/ Fault(w) \/ Step(w)
  \/ Restart

Spec == Init /\ [][Next]_vars

\* A thread that serves a request keeps running: agents, tools and the database
\* return.  Requests and faults are never forced, and the order of threads is free.
FairSpec == Spec /\ \A w \in Workers : WF_vars(Step(w))

-----------------------------------------------------------------------------
(***************************************************************************)
(* Properties.                                                             *)
(***************************************************************************)
SentFor(r, stat) == \A i \in Steps : stat[i] = "executed" => sends[r][i] > 0

\* A step is said to be executed, by an envelope in memory or saved, by its row,
\* by the execution log or by the results about to be logged, only if its tool
\* was called.  The statuses travel from the execution agent through four copies
\* (runner.py:480-517, service.py:297-310) and none is re-derived.
ExecutedMeansSent ==
  /\ \A e \in EnvelopeIds :
       envelope[e] # NoEnvelope => SentFor(envelope[e].run, envelope[e].stat)
  /\ \A d \in Deals :
       snapshot[d] # NoEnvelope => SentFor(snapshot[d].run, snapshot[d].stat)
  /\ \A r \in Runs : SentFor(r, stepRow[r].stat) /\ SentFor(r, stepLog[r])
  /\ \A w \in Workers :
       pc[w] \in {"steps", "record"} => SentFor(Target(w), job[w].res)

\* Once the execution log says a step was executed, its tool is not called again
\* while it says so: not by another approval, nor after a crash that left the
\* envelope older than the log (runner.py:480-493, execution_agent.py:167-173).
\* It takes the log and the envelope together, and one request on a deal at a time.
LoggedStepsStaySent ==
  [][\A r \in Runs, i \in Steps :
       stepLog[r][i] = "executed" => sends'[r][i] = sends[r][i]]_vars

\* An outcome is on record only for an action with an execution on record, even
\* if a decision of another thread takes the approval away from a plan that is
\* about to run (runner.py:507-572, execution_agent.py:63-72).
OutcomeHasExecution ==
  \A a \in Runs : outcomeRow[a] # None => execLog[a] # None

\* With one run for each deal, a completed run has an execution and an outcome of
\* its own: no interleaving of decisions completes a run that was not evaluated
\* (runner.py:514-583).
CompletedRunHasOutcome ==
  \A r \in Runs : runStatus[r] = "completed" => /\ outcomeRow[r] = r
                                                /\ execLog[r] = r

\* The tool of a step is called only while the action's row says approved: the
\* gate of README.md:119.  approve_action looks the envelope up by deal, and
\* resume_after_approval runs whatever action it carries (service.py:90-106).
ExecutedActionIsApproved ==
  \A w \in Workers : CallsTool(w) => actionRow[Target(w)].status = "approved"

\* resume_after_approval always finds a run id for the deal.  Without one it would
\* call the tools and skip every record of it (runner.py:479, 514, 571).
RunKnownOnResume ==
  \A w \in Workers :
    pc[w] \in {"resuming", "executing", "steps", "record"}
      => runIds[job[w].deal] # None

\* A tool is called only on a deal where an action was let through before: an
\* approval given for one deal never reaches another (service.py:287-310).
EffectsNeedGrant ==
  \A r \in Runs, i \in Steps :
    sends[r][i] > 0 => \E g \in granted : DealOf[g] = DealOf[r]

\* Executions and outcomes are filed under runs of the deal they happened on,
\* although the run id is looked up at the time of the approval and not kept with
\* the action (runner.py:479, 515, 572).
FiledOnOwnDeal ==
  \A a \in Runs : \A r \in {execLog[a], outcomeRow[a]} \ {None} :
    DealOf[r] = DealOf[a] /\ runStatus[r] # "none"

\* No call of a tool goes unrecorded while the process runs: it is in the log, or
\* a thread that is still to write the log holds its result, whatever the other
\* threads do to the envelope they share (runner.py:495-516).
SendsAreRecorded ==
  \A r \in Runs, i \in Steps :
    sends[r][i] > 0 =>
      \/ stepLog[r][i] # "none"
      \/ \E w \in Workers : /\ pc[w] \in {"steps", "record"}
                            /\ Target(w) = r /\ job[w].res[i] = "executed"

\* What is sent as the action's first step is the text its row shows to the person
\* who approves it (GET /actions), while the process runs: row and envelope are
\* edited by separate code (action_repo.py:122-155, service.py:149-167).
ApprovedTextIsSent ==
  \A w \in Workers :
    CallsTool(w) /\ job[w].next = 1
      => envelope[job[w].env].body[1] = actionRow[Target(w)].body

\* An approval that found an action completes its run, whatever other threads
\* decide meanwhile, when each deal has one run and nothing fails
\* (service.py:92-107, runner.py:449-592).
ApprovalCompletesRun ==
  \A w \in Workers, r \in Runs :
    (pc[w] = "resuming" /\ Target(w) = r) ~> (runStatus[r] = "completed")

\* The engine keeps the promises of OutreachLedger, crashes included, when
\* requests about one deal are served one at a time.
Ledger == INSTANCE OutreachLedger
  WITH Runs <- Runs, DealOf <- DealOf, Steps <- Steps, SendCap <- SendCap,
       sends <- sends, stepLog <- stepLog, granted <- granted

ImplementsLedger == Ledger!Spec

-----------------------------------------------------------------------------
(***************************************************************************)
(* What the documents say and the code does not do.                        *)
(***************************************************************************)
\* README.md:34 and 119: a tool is called for an action only if that action, and
\* not merely another of its deal, was let through.
SentActionWasGranted ==
  \A r \in Runs, i \in Steps : sends[r][i] > 0 => r \in granted

\* tests/TEST_SUITE_SCENARIOS.md:29, for one step of a plan: the tool of a step
\* whose row says rejected is not called.
RejectedStepIsNotSent ==
  \A w \in Workers :
    CallsTool(w) => stepRow[Target(w)].stat[job[w].next] # "rejected"

=============================================================================
