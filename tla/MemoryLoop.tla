------------------------------ MODULE MemoryLoop ------------------------------
(***************************************************************************)
(* The memory and evaluation loop: what finished runs taught about a       *)
(* persona (persona_insights) is retrieved, gated by quality and weighed   *)
(* by the strategist of later runs; the strategy decides whether the plan  *)
(* waits for a person; and its evaluation writes the next lesson.          *)
(*                                                                         *)
(* Runs of several deals share a persona and go through the loop at the    *)
(* same time, in threads or in one process after another; approvals of one *)
(* run may overlap, each with an execution and an evaluation of its own.   *)
(* A run is its deal's only one here.  The agents' outputs come from their *)
(* own rules or from the model (AgentCall); the queue, the envelopes and   *)
(* the execution are in Orchestrator.  Qualities, impacts and hints are in *)
(* thousandths.                                                            *)
(***************************************************************************)
EXTENDS Integers, Sequences, FiniteSets, FiniteSetsExt

CONSTANTS
  Personas,
  Runs, PersonaOf,   \* the runs, and the persona of each run's deal
  BaselineOf,        \* the strategy the deal's objections call for
  Stages,            \* values of memory_feedback_stage
  History,           \* the lessons earlier processes may have left
  Modelled,          \* the runs of processes that ask the model
  ModelDecisions,    \* what it may answer: a strategy with the impact of memory,
  ModelOutcomes,     \* and a label with the confidence in it
  Threads,           \* those that serve approvals and execute CRM plans
  LastDay, MaxResumed, None

Strategies == {"roi_framing", "risk_reduction"}

\* What an evaluation may find.
Labels == {"positive", "delayed_positive", "neutral", "delivery_failure"}

Confidences == 0 .. 1000

ASSUME LoopAssumption ==
  /\ PersonaOf \in [Runs -> Personas]
  /\ BaselineOf \in [Runs -> Strategies]
  /\ Stages \subseteq Int
  /\ Modelled \subseteq Runs
  /\ ModelDecisions \subseteq [strategy : Strategies, impact : Int]
  /\ ModelOutcomes \subseteq [label : Labels, hint : Confidences]
  /\ LastDay \in Nat /\ MaxResumed \in Nat
  /\ None \notin Strategies \cup Labels \cup Runs \cup {"completed"}

VARIABLES
  run,       \* what each run has come to
  lessons,   \* persona_insights, in the order of its ids
  outcomes,  \* the label in each run's row of outcomes
  status,    \* the status of each run's row
  resume,    \* what each thread does in resume_after_approval, and its locals
  today,
  \* History, which no code reads.
  resumed,   \* executions begun, bounded by MaxResumed
  overlapped \* runs two of whose executions were in progress together

history == <<resumed, overlapped>>
vars == <<run, lessons, outcomes, status, resume, today, history>>

-----------------------------------------------------------------------------
(* Retrieval. *)

MaxItems == 5

Recency(age) ==
  CASE age <= 14 -> 100
    [] age > 14 /\ age <= 45 -> 85
    [] age > 45 /\ age <= 90 -> 70
    [] OTHER -> 50

\* round(.., 3) of the products: for the hints of the evaluator the halves of the one
\* go down and those of the other up, as their binary values do.  For a model's hint
\* an exact half may go either way.
Quality(i) == (lessons[i].hint * Recency(today - lessons[i].day) + 49) \div 100
Impact(i) == (lessons[i].hint * 5 + 50) \div 100

\* Variant with a bug: the newest rows, whatever their persona.
Newest_AnyPersona(persona) ==
  {i \in DOMAIN lessons : Cardinality({j \in DOMAIN lessons : j > i}) < MaxItems}

\* get_persona_insights: the newest rows of the persona.  The code orders by
\* created_at and then by id; threads may take the time in the other order.
Newest(persona) ==
  LET mine == {i \in DOMAIN lessons : lessons[i].persona = persona}
  IN {i \in mine : Cardinality({j \in mine : j > i}) < MaxItems}

\* The stable sort by quality of rows that come newest first.
Precedes(j, i) == Quality(j) > Quality(i) \/ (Quality(j) = Quality(i) /\ j > i)

\* Variant with a bug: the first of two equal texts is the newer, not the better.
Retrieved_NewerFirst(persona, min) ==
  LET rows == Newest(persona)
  IN {i \in rows :
        /\ Quality(i) >= min
        /\ \A j \in rows : lessons[j].text = lessons[i].text /\ Quality(j) >= min => j <= i}

\* retrieve_persona_evidence: of rows with one text the first in the ranking.  The
\* in-memory store adds nothing, as the program never writes it.
Retrieved(persona, min) ==
  LET rows == Newest(persona)
  IN {i \in rows :
        /\ Quality(i) >= min
        /\ \A j \in rows : lessons[j].text = lessons[i].text => ~Precedes(j, i)}

\* _feedback_stage and _feedback_min_quality_score.
StageOf_Unclamped(raw) == raw   \* Variant with a bug: any number is a stage.

StageOf(raw) == IF raw < 1 THEN 1 ELSE IF raw > 3 THEN 3 ELSE raw
MinQuality(stage) == CASE stage <= 1 -> 0 [] stage = 2 -> 20 [] OTHER -> 40

TotalQuality(ev) == MapThenSumSet(Quality, ev)

\* gate_memory_evidence.
Passes(stage, ev) ==
  CASE stage <= 1 -> TRUE
    [] stage = 2 -> \E i \in ev : Quality(i) >= 200
    [] OTHER -> Cardinality(ev) >= 2 /\ TotalQuality(ev) >= 250 * Cardinality(ev)

Gated(stage, ev) == IF Passes(stage, ev) THEN ev ELSE {}

Evidence(persona, stage) == Gated(stage, Retrieved(persona, MinQuality(stage)))

-----------------------------------------------------------------------------
(* The agents' own rules. *)

\* The evaluator credits ROI framing for every reply; the summary that is appended
\* to its insight names the strategy.
Mentions(text, word) ==
  CASE word = "roi"  -> text.label = "positive" \/ text.strategy = "roi_framing"
    [] word = "risk" -> text.strategy = "risk_reduction"

\* Variant with a bug: risk is looked for first.
Strategy_RiskFirst(r, ev) ==
  IF \E i \in ev : Mentions(lessons[i].text, "risk") THEN "risk_reduction"
  ELSE IF \E i \in ev : Mentions(lessons[i].text, "roi") THEN "roi_framing"
  ELSE BaselineOf[r]

Strategy(r, ev) ==
  IF \E i \in ev : Mentions(lessons[i].text, "roi") THEN "roi_framing"
  ELSE IF \E i \in ev : Mentions(lessons[i].text, "risk") THEN "risk_reduction"
  ELSE BaselineOf[r]

Claimed(ev) == MapThenSumSet(Impact, ev)

Lift_Unbounded(ev) == Claimed(ev)   \* Variant with a bug: the impact is not bounded.

Lift(ev) ==
  CASE Claimed(ev) \in 0 .. 150 -> Claimed(ev)
    [] Claimed(ev) < 0 -> 0
    [] OTHER -> 150

PlanConfidence(strategy) == IF strategy = "roi_framing" THEN 740 ELSE 800

Threshold == 800

\* The hint of a lesson is the confidence in its label, good or bad.
Hint(label) ==
  CASE label = "positive" -> 850
    [] label = "delayed_positive" -> 740
    [] label = "neutral" -> 650
    [] label = "delivery_failure" -> 700

-----------------------------------------------------------------------------
\* syncing: in run_workflow for crm_sync; handed over: waits for an approval, or was
\* approved on the spot; approved: an execution was begun.
Phases == {"idle", "deciding", "planning", "syncing", "handed over", "approved", "lost"}

Statuses == {None, "running", "waiting_approval", "completed", "failed"}

\* used: memory_evidence_used; by: did the rules or the model decide?  executed: does
\* the execution log say that all steps were?
RunStates == [phase : Phases, stage : 1 .. 3, evidence : SUBSET Nat, used : Nat,
              strategy : Strategies \cup {None}, impact : Int,
              by : {"rules", "model"}, executed : {"no", "yes"}]

NewRun == [phase |-> "idle", stage |-> 1, evidence |-> {}, used |-> 0, strategy |-> None,
           impact |-> 0, by |-> "rules", executed |-> "no"]

\* Nothing takes such a run up again.
Lost == [NewRun EXCEPT !.phase = "lost"]

ResumePhases == {"idle", "executing", "executed", "evaluating", "recorded", "taught"}

\* The execution and the evaluation of one approval.
Resumes == [phase : ResumePhases, run : Runs \cup {None}, executed : {"no", "yes"},
            label : Labels \cup {None}, hint : Confidences]

NoResume == [phase |-> "idle", run |-> None, executed |-> "no", label |-> None, hint |-> 0]

Texts == [label : Labels, used : Nat, impact : Int, strategy : Strategies \cup {None}]

Lessons == [persona : Personas, run : Runs \cup {None}, text : Texts,
            hint : Confidences, day : Int]

ASSUME HistoryAssumption ==
  \A old \in History :
    /\ old \in Seq(Lessons)
    /\ \A i \in DOMAIN old : old[i].run = None

TypeOK ==
  /\ run \in [Runs -> RunStates]
  /\ lessons \in Seq(Lessons)
  /\ outcomes \in [Runs -> Labels \cup {None}]
  /\ status \in [Runs -> Statuses]
  /\ resume \in [Threads -> Resumes]
  /\ today \in 0 .. LastDay
  /\ resumed \in 0 .. MaxResumed
  /\ overlapped \subseteq Runs

Init ==
  /\ run = [r \in Runs |-> NewRun]
  /\ lessons \in History
  /\ outcomes = [r \in Runs |-> None]
  /\ status = [r \in Runs |-> None]
  /\ resume = [t \in Threads |-> NoResume]
  /\ today = 0
  /\ resumed = 0
  /\ overlapped = {}

In(r, phase) == run[r].phase = phase
Becomes(r, s) == run' = [run EXCEPT ![r] = s]
Goto(r, phase) == Becomes(r, [run[r] EXCEPT !.phase = phase])
SetStatus(r, s) == status' = [status EXCEPT ![r] = s]

Serves(t, r, phase) == resume[t].phase = phase /\ resume[t].run = r
Advance(t, phase) == resume' = [resume EXCEPT ![t].phase = phase]

\* A workflow with a strategist starts and gets to it: its evidence is retrieved.
Retrieve(r, raw) ==
  /\ In(r, "idle")
  /\ Becomes(r, [run[r] EXCEPT !.phase = "deciding", !.stage = StageOf(raw),
                               !.evidence = Evidence(PersonaOf[r], StageOf(raw))])
  /\ SetStatus(r, "running")
  /\ UNCHANGED <<lessons, outcomes, resume, today, history>>

\* crm_sync has no strategist.
StartCrmSync(r) ==
  /\ In(r, "idle")
  /\ Goto(r, "syncing")
  /\ SetStatus(r, "running")
  /\ UNCHANGED <<lessons, outcomes, resume, today, history>>

Decide(r) ==
  /\ In(r, "deciding")
  /\ LET ev == run[r].evidence IN
       Becomes(r, [run[r] EXCEPT !.phase = "planning", !.used = Cardinality(ev),
                                 !.strategy = Strategy(r, ev), !.impact = Lift(ev)])
  /\ UNCHANGED <<lessons, outcomes, status, resume, today, history>>

\* The model is not shown the evidence and may claim any.
DecideByModel(r, answer) ==
  /\ In(r, "deciding") /\ r \in Modelled
  /\ Becomes(r, [run[r] EXCEPT !.phase = "planning", !.by = "model",
                               !.strategy = answer.strategy, !.impact = answer.impact])
  /\ UNCHANGED <<lessons, outcomes, status, resume, today, history>>

\* The gate looks at the plan's confidence.  The step retrieves evidence again, but
\* only to record it.
Plan(r) ==
  /\ In(r, "planning")
  /\ Goto(r, "handed over")
  /\ IF PlanConfidence(run[r].strategy) < Threshold
     THEN SetStatus(r, "waiting_approval")
     ELSE UNCHANGED status
  /\ UNCHANGED <<lessons, outcomes, resume, today, history>>

PlanByModel(r, s) ==
  /\ In(r, "planning") /\ r \in Modelled
  /\ Becomes(r, [run[r] EXCEPT !.phase = "handed over", !.by = "model"])
  /\ SetStatus(r, s)
  /\ UNCHANGED <<lessons, outcomes, resume, today, history>>

\* An agent or a transaction of run_workflow fails.
Fail(r) ==
  /\ run[r].phase \in {"deciding", "planning", "syncing"}
  /\ Becomes(r, Lost)
  /\ SetStatus(r, "failed")
  /\ UNCHANGED <<lessons, outcomes, resume, today, history>>

\* A thread enters resume_after_approval with the run, whatever other threads do.
\* Nothing reads the evidence from here on.
Enter(t, r) ==
  /\ resume[t] = NoResume /\ resumed < MaxResumed
  /\ Becomes(r, [run[r] EXCEPT !.phase = "approved", !.stage = 1, !.evidence = {},
                               !.by = "rules"])
  /\ resume' = [resume EXCEPT ![t] = [NoResume EXCEPT !.phase = "executing", !.run = r]]
  /\ resumed' = resumed + 1
  /\ overlapped' = IF \E u \in Threads : resume[u].run = r THEN overlapped \cup {r}
                   ELSE overlapped
  /\ UNCHANGED <<lessons, outcomes, status, today>>

\* A CRM plan needs no approval: run_workflow goes on with it.
PlanCrmSync(t, r) == In(r, "syncing") /\ Enter(t, r)

\* A person approves the run's action, or approves it again, unless all its steps
\* were executed by then.
Approve(t, r) ==
  /\ run[r].phase \in {"handed over", "approved"} /\ run[r].executed = "no"
  /\ Enter(t, r)

\* record_execution: an execution without steps leaves the log of the steps alone.
Execute(t, r, executed) ==
  /\ Serves(t, r, "executing")
  /\ \/ Becomes(r, [run[r] EXCEPT !.executed = executed])
     \/ executed = "no" /\ UNCHANGED run
  /\ resume' = [resume EXCEPT ![t].phase = "executed", ![t].executed = executed]
  /\ UNCHANGED <<lessons, outcomes, status, today, history>>

MarkExecuted(t, r) ==
  /\ Serves(t, r, "executed")
  /\ Advance(t, "evaluating")
  /\ SetStatus(r, "running")
  /\ UNCHANGED <<run, lessons, outcomes, today, history>>

\* What the evaluator may find of the thread's execution: notes, for the late
\* interest, come only with crm_sync.
Found(t, r, label) ==
  \/ resume[t].executed = "no" /\ label = "delivery_failure"
  \/ resume[t].executed = "yes" /\ label \in {"positive", "neutral"}
  \/ resume[t].executed = "yes" /\ label = "delayed_positive" /\ run[r].strategy = None

\* The evaluator, and the first transaction of _handle_evaluator_result: the run's
\* one outcome is replaced.
Evaluated(t, r, label, hint) ==
  /\ Serves(t, r, "evaluating")
  /\ outcomes' = [outcomes EXCEPT ![r] = label]
  /\ resume' = [resume EXCEPT ![t].phase = "recorded", ![t].label = label,
                              ![t].hint = hint]
  /\ UNCHANGED <<run, lessons, status, today, history>>

Evaluate(t, r, label) == Found(t, r, label) /\ Evaluated(t, r, label, Hint(label))

EvaluateByModel(t, r, answer) ==
  r \in Modelled /\ Evaluated(t, r, answer.label, answer.hint)

\* The lesson a run teaches, of the thread's own evaluation.
Lesson(t, r) ==
  [persona |-> PersonaOf[r], run |-> r, hint |-> resume[t].hint, day |-> today,
   text |-> [label |-> resume[t].label, used |-> run[r].used, impact |-> run[r].impact,
             strategy |-> run[r].strategy]]

\* Variant with a bug: a delivery failure teaches nothing.
Teach_SkipsFailures(t, r) ==
  /\ Serves(t, r, "recorded")
  /\ lessons' = IF resume[t].label = "delivery_failure" THEN lessons
                ELSE Append(lessons, Lesson(t, r))
  /\ Advance(t, "taught")
  /\ UNCHANGED <<run, outcomes, status, today, history>>

Teach(t, r) ==
  /\ Serves(t, r, "recorded")
  /\ lessons' = Append(lessons, Lesson(t, r))
  /\ Advance(t, "taught")
  /\ UNCHANGED <<run, outcomes, status, today, history>>

Complete(t, r) ==
  /\ Serves(t, r, "taught")
  /\ SetStatus(r, "completed")
  /\ resume' = [resume EXCEPT ![t] = NoResume]
  /\ UNCHANGED <<run, lessons, outcomes, today, history>>

\* An agent fails, and the run with it, or a transaction does and the run's status
\* stays; but for a CRM sync run_workflow may be there to fail the run.
FailResume(t, r) ==
  /\ resume[t].run = r
  /\ resume' = [resume EXCEPT ![t] = NoResume]
  /\ \/ UNCHANGED status
     \/ /\ \/ resume[t].phase \in {"executing", "evaluating"}
           \/ run[r].strategy = None
        /\ SetStatus(r, "failed")
  /\ UNCHANGED <<run, lessons, outcomes, today, history>>

\* The process stops, and its threads are gone.  A run whose plan was handed over can
\* be approved as before; no other is taken up again.
Crash ==
  /\ run' = [r \in Runs |-> IF run[r].phase \in {"deciding", "planning", "syncing"}
                            THEN Lost ELSE run[r]]
  /\ resume' = [t \in Threads |-> NoResume]
  /\ UNCHANGED <<lessons, outcomes, status, today, history>>

DaysPass ==
  /\ today + 20 <= LastDay
  /\ today' = today + 20
  /\ UNCHANGED <<run, lessons, outcomes, status, resume, history>>

Step(r) ==
  \/ \E raw \in Stages : Retrieve(r, raw)
  \/ StartCrmSync(r) \/ Decide(r) \/ Plan(r) \/ Fail(r)
  \/ \E answer \in ModelDecisions : DecideByModel(r, answer)
  \/ \E s \in {"running", "waiting_approval"} : PlanByModel(r, s)

Resumed(t, r) ==
  \/ PlanCrmSync(t, r) \/ Approve(t, r)
  \/ \E executed \in {"no", "yes"} : Execute(t, r, executed)
  \/ MarkExecuted(t, r)
  \/ \E label \in Labels : Evaluate(t, r, label)
  \/ \E answer \in ModelOutcomes : EvaluateByModel(t, r, answer)
  \/ Teach(t, r) \/ Complete(t, r) \/ FailResume(t, r)

Next ==
  \/ \E r \in Runs : Step(r) \/ \E t \in Threads : Resumed(t, r)
  \/ Crash \/ DaysPass

Spec == Init /\ [][Next]_vars

-----------------------------------------------------------------------------
\* What a strict stage of the gate adapts to, a laxer one would have used as well,
\* whatever is in memory: though the strict one ranks fewer rows, drops the weak
\* ones first and looks at the average, the laxer one at the best
\* (retrieval.py:77-88, feedback_policy.py:31-49, runner.py:81-86).
StricterStageUsesLess ==
  \A persona \in Personas :
    /\ Evidence(persona, 3) \subseteq Evidence(persona, 2)
    /\ Evidence(persona, 2) \subseteq Evidence(persona, 1)

\* Evidence is earned: it tells of the run's own persona and of another run, whose
\* outcome is on record (runner.py:273-280, 573-581).
EvidenceWasEarned ==
  \A r \in Runs : \A i \in run[r].evidence :
    /\ lessons[i].persona = PersonaOf[r]
    /\ lessons[i].run # r
    /\ lessons[i].run # None => outcomes[lessons[i].run] # None

\* The guardrail of the strategist: memory lifts a decision of its rules by 0.15 at
\* the most, and not without evidence; at stage 3 not on a single lesson
\* (strategist_agent.py:53-55, feedback_policy.py:45-48).
LiftIsEarned ==
  \A r \in Runs :
    In(r, "planning") /\ run[r].by = "rules" =>
      /\ run[r].impact <= 150
      /\ run[r].impact > 0 => run[r].evidence # {}
      /\ run[r].stage = 3 => Cardinality(run[r].evidence) # 1

\* Where the rules decide, a plan that was made on evidence in favour of ROI always
\* waits for a person: memory may turn a plan that would have been approved on the
\* spot into one that is not, also if other evidence speaks of risk
\* (strategist_agent.py:63-69, action_agent.py:157, policy.py:18).
RoiEvidenceNeedsPerson ==
  \A r \in Runs :
    /\ In(r, "handed over") /\ status[r] = "running"
    /\ run[r].by = "rules" /\ run[r].strategy # None
    => \A i \in run[r].evidence : ~Mentions(lessons[i].text, "roi")

\* A run that counts as completed has its outcome on record and has taught a lesson,
\* whenever the process stops in between; and unless two of its approvals overlapped,
\* it taught the outcome on record, that of its last evaluation (runner.py:570-583).
CompletedRunTaught ==
  \A r \in Runs :
    status[r] = "completed" =>
      /\ outcomes[r] # None
      /\ \E i \in DOMAIN lessons :
           /\ lessons[i].run = r
           /\ r \notin overlapped => lessons[i].text.label = outcomes[r]

=============================================================================
