---------------------------- MODULE PromptRollout ----------------------------
(***************************************************************************)
(* The prompt experiment of each workflow                                  *)
(* (data/repositories/prompt_diagnostics_repo.py): every rendered prompt   *)
(* is assigned variant A (control) or B (candidate), outcomes and          *)
(* rejections are counted against the variant, and after each of them the  *)
(* rollout may advance, roll back or be promoted.                          *)
(*                                                                         *)
(* A repository method locks the database with its first write and keeps   *)
(* it to its end.  assign_variant reads the rollout, and the two methods   *)
(* that count read the run's assignment, before they write: what another   *)
(* thread writes may come between.  TLC uses smaller thresholds.           *)
(***************************************************************************)
EXTENDS Naturals, Sequences

CONSTANTS
  WorkflowIds, DefaultWorkflow, CrmWorkflow,
  Runs, WorkflowOf,       \* the workflow each run was started for
  CanaryRuns,             \* runs whose hash bucket is below canary_percent
  Threads,                \* threads that render prompts and report outcomes
  Releases,
  ReleaseInputs,          \* the statuses a release is registered with
  Outcomes,               \* the outcomes that are reported for a run
  CanaryAfter,            \* 20: control exposures that end the first shadow phase
  JudgeAfter,             \* 10: candidate exposures before it is judged
  PromoteAfter,           \* 25: candidate exposures before it is promoted
  ApprovalsNeeded,        \* 2
  Degradation,            \* per metric, the percentage a variant may fall behind
  MaxExposures, MaxVotes, \* bounds of the counters, for TLC
  None

Variants == {"A", "B"}
Metrics == {"replies", "meetings", "execution_successes", "rejections"}

ASSUME RolloutAssumption ==
  /\ DefaultWorkflow \in WorkflowIds /\ CrmWorkflow \in WorkflowIds
  /\ WorkflowOf \in [Runs -> WorkflowIds] /\ CanaryRuns \subseteq Runs
  /\ ReleaseInputs \subseteq {"draft", "active", "deprecated"}
  /\ Outcomes \subseteq [Metrics \ {"rejections"} -> {0, 1}]
  /\ CanaryAfter \in Nat \ {0} /\ JudgeAfter \in Nat \ {0}
  /\ PromoteAfter \in Nat /\ JudgeAfter <= PromoteAfter
  /\ ApprovalsNeeded \in Nat
  /\ Degradation \in [Metrics -> Nat]
  /\ MaxExposures \in Nat /\ MaxVotes \in Nat
  /\ None \notin Releases /\ None \notin Runs /\ None \notin WorkflowIds
  /\ None \notin Variants /\ None \notin {"render", "outcome", "rejection"}

VARIABLES
  rollout,      \* prompt_variant_rollouts
  metrics,      \* prompt_variant_metrics; no exposures means no row
  assignment,   \* prompt_variant_assignments: effective_variant
  newestOf,     \* the workflow of a run's assignment row with the highest id
  changelog,    \* prompt_variant_changelog: change_type
  votes,        \* prompt_promotion_approvals: how many of each decision
  releaseSet,   \* prompt_release_sets: status
  resumed,      \* the runs that resume_after_approval has gone on with
  reading       \* what the method each thread is in has read

vars == <<rollout, metrics, assignment, newestOf, changelog, votes, releaseSet,
          resumed, reading>>

Phases == {"shadow", "canary", "full"}
Changes == {"phase_advance", "auto_rollback", "promotion"}
Methods == {"render", "outcome", "rejection"}
Idle == [method |-> None, run |-> None, workflow |-> None, variant |-> None]

TypeOK ==
  /\ rollout \in [WorkflowIds -> [phase : Phases, default : Variants,
                                  active : Releases \cup {None},
                                  stable : Releases \cup {None}]]
  /\ metrics \in [WorkflowIds -> [Variants -> [Metrics \cup {"exposures"} -> Nat]]]
  /\ assignment \in [Runs -> [WorkflowIds -> Variants \cup {None}]]
  /\ newestOf \in [Runs -> WorkflowIds \cup {None}]
  /\ changelog \in [WorkflowIds -> Seq(Changes)]
  /\ votes \in [WorkflowIds -> [Releases -> [{"approved", "rejected"} -> Nat]]]
  /\ releaseSet \in [Releases -> {"none", "draft", "active", "deprecated"}]
  /\ resumed \subseteq Runs
  /\ reading \in [Threads -> [method : Methods, run : Runs, workflow : WorkflowIds,
                              variant : Variants] \cup {Idle}]

Init ==
  /\ rollout = [w \in WorkflowIds |-> [phase |-> "shadow", default |-> "A",
                                       active |-> None, stable |-> None]]
  /\ metrics = [w \in WorkflowIds |-> [v \in Variants |->
                  [k \in Metrics \cup {"exposures"} |-> 0]]]
  /\ assignment = [r \in Runs |-> [w \in WorkflowIds |-> None]]
  /\ newestOf = [r \in Runs |-> None]
  /\ changelog = [w \in WorkflowIds |-> <<>>]
  /\ votes = [w \in WorkflowIds |-> [l \in Releases |->
                [decision \in {"approved", "rejected"} |-> 0]]]
  /\ releaseSet = [l \in Releases |-> "none"]
  /\ resumed = {}
  /\ reading = [t \in Threads |-> Idle]

-----------------------------------------------------------------------------
(***************************************************************************)
(* Renders.                                                                *)
(***************************************************************************)
\* Variant with a bug: the shadow phase serves the bucket's own variant.
EffectiveVariant_Bucket(w, r) ==
  IF r \in CanaryRuns \/ rollout[w].phase = "full" THEN "B" ELSE "A"

EffectiveVariant(w, r) ==
  CASE rollout[w].phase = "shadow" -> rollout[w].default
    [] rollout[w].phase = "canary" -> IF r \in CanaryRuns THEN "B" ELSE "A"
    [] rollout[w].phase = "full"   -> "B"

\* The agents render for the run's workflow; after an approval
\* resume_after_approval renders for its default workflow, unless the run is a
\* CRM sync, which resumes itself.
RenderedFor(r) ==
  IF r \in resumed /\ WorkflowOf[r] # CrmWorkflow THEN DefaultWorkflow
  ELSE WorkflowOf[r]

ReadRollout(t, r) ==
  /\ reading[t] = Idle
  /\ LET w == RenderedFor(r)
     IN reading' = [reading EXCEPT ![t] =
                      [method |-> "render", run |-> r, workflow |-> w,
                       variant |-> EffectiveVariant(w, r)]]
  /\ UNCHANGED <<rollout, metrics, assignment, newestOf, changelog, votes,
                 releaseSet, resumed>>

HasRoom(w, v) == metrics[w][v].exposures < MaxExposures

\* Every render is an exposure of the variant it was assigned.
WriteAssignment(t) ==
  /\ reading[t].method = "render"
  /\ LET r == reading[t].run
         w == reading[t].workflow
         v == reading[t].variant
     IN /\ HasRoom(w, v)
        /\ assignment' = [assignment EXCEPT ![r][w] = v]
        /\ newestOf' = IF assignment[r][w] = None
                       THEN [newestOf EXCEPT ![r] = w] ELSE newestOf
        /\ metrics' = [metrics EXCEPT ![w][v].exposures = @ + 1]
  /\ reading' = [reading EXCEPT ![t] = Idle]
  /\ UNCHANGED <<rollout, changelog, votes, releaseSet, resumed>>

\* The run's action was approved (or is a CRM sync's).
ResumeRun(r) ==
  /\ newestOf[r] # None
  /\ resumed' = resumed \cup {r}
  /\ UNCHANGED <<rollout, metrics, assignment, newestOf, changelog, votes,
                 releaseSet, reading>>

-----------------------------------------------------------------------------
(***************************************************************************)
(* _evaluate_rollout_health, on the metrics m of workflow w as the         *)
(* transaction has just left them.                                         *)
(***************************************************************************)
TooFew(m) == m["A"].exposures = 0 \/ m["B"].exposures < JudgeAfter

\* The rate of metric k is higher for variant u than for v, by more than the
\* given percentage; a rate is a count over the variant's exposures.
Leads(m, u, v, k, percent) ==
  100 * m[u][k] * m[v].exposures
    > 100 * m[v][k] * m[u].exposures + percent * m[u].exposures * m[v].exposures

\* The code subtracts the rates in floating point: a difference of exactly the
\* threshold may come out on either side of it.
Ties(m, u, v, k, percent) ==
  100 * m[u][k] * m[v].exposures
    = 100 * m[v][k] * m[u].exposures + percent * m[u].exposures * m[v].exposures

Degraded(m, roundsUp) ==
  \E k \in Metrics :
    LET u == IF k = "rejections" THEN "B" ELSE "A"
        v == IF k = "rejections" THEN "A" ELSE "B"
    IN \/ Leads(m, u, v, k, Degradation[k])
       \/ roundsUp /\ Ties(m, u, v, k, Degradation[k])

Better(m) ==
  /\ \A k \in Metrics \ {"rejections"} : ~Leads(m, "A", "B", k, 0)
  /\ ~Leads(m, "B", "A", "rejections", 0)

\* Variant with a bug: the candidate's exposures do not matter.
Advances_Again(w, m) ==
  /\ rollout[w].phase = "shadow"
  /\ m["A"].exposures >= CanaryAfter

Advances(w, m) ==
  /\ TooFew(m)
  /\ rollout[w].phase = "shadow"
  /\ m["A"].exposures >= CanaryAfter

RollsBack(w, m, roundsUp) ==
  /\ ~TooFew(m)
  /\ Degraded(m, roundsUp) /\ rollout[w].phase # "shadow"

\* Variant with a bug: rejections stop a promotion, approvals are not needed.
Promotes_Unapproved(w, m) ==
  /\ ~TooFew(m)
  /\ Better(m)
  /\ m["B"].exposures >= PromoteAfter /\ rollout[w].default # "B"
  /\ LET l == rollout[w].active
     IN l # None /\ votes[w][l]["rejected"] = 0

Promotes(w, m) ==
  /\ ~TooFew(m)
  /\ Better(m)
  /\ m["B"].exposures >= PromoteAfter /\ rollout[w].default # "B"
  /\ LET l == rollout[w].active
     IN /\ l # None
        /\ votes[w][l]["approved"] >= ApprovalsNeeded
        /\ votes[w][l]["rejected"] = 0

Log(w, change) == changelog' = [changelog EXCEPT ![w] = Append(@, change)]

\* Variant with a bug: the candidate stays the default.
RolledBack_KeepsDefault(ro) ==
  [ro EXCEPT !.phase = "shadow",
             !.active = IF ro.stable = None THEN @ ELSE ro.stable]

\* Variant with a bug: the phase takes the value that the changelog shows.
RolledBack_AsLogged(ro) ==
  [ro EXCEPT !.phase = "shadow:A", !.default = "A",
             !.active = IF ro.stable = None THEN @ ELSE ro.stable]

RolledBack(ro) ==
  [ro EXCEPT !.phase = "shadow", !.default = "A",
             !.active = IF ro.stable = None THEN @ ELSE ro.stable]

EvaluateRolloutHealth(w, m) == \E roundsUp \in BOOLEAN :
  \/ /\ Advances(w, m)
     /\ rollout' = [rollout EXCEPT ![w].phase = "canary"]
     /\ Log(w, "phase_advance")
  \/ /\ RollsBack(w, m, roundsUp)
     /\ rollout' = [rollout EXCEPT ![w] = RolledBack(@)]
     /\ Log(w, "auto_rollback")
  \/ /\ ~RollsBack(w, m, roundsUp) /\ Promotes(w, m)
     /\ rollout' = [rollout EXCEPT ![w].phase = "full", ![w].default = "B"]
     /\ Log(w, "promotion")
  \/ /\ ~Advances(w, m) /\ ~RollsBack(w, m, roundsUp) /\ ~Promotes(w, m)
     /\ UNCHANGED <<rollout, changelog>>

-----------------------------------------------------------------------------
(***************************************************************************)
(* Outcomes, rejections, releases and votes.                               *)
(***************************************************************************)
\* Variant with a bug: an outcome is not an exposure.
Counted_NoExposure(m, v, outcome) ==
  [m EXCEPT ![v] = [k \in DOMAIN @ |-> IF k = "exposures" THEN @[k]
                                       ELSE @[k] + outcome[k]]]

\* One more exposure of variant v, with its outcome.
Counted(m, v, outcome) ==
  [m EXCEPT ![v] = [k \in DOMAIN @ |-> IF k = "exposures" THEN @[k] + 1
                                       ELSE @[k] + outcome[k]]]

\* The run's newest assignment says what an outcome or a rejection counts for.
ReadAssignment(t, r, method) ==
  /\ reading[t] = Idle
  /\ newestOf[r] # None
  /\ method = "outcome" => r \in resumed
  /\ LET w == newestOf[r]
     IN reading' = [reading EXCEPT ![t] =
                      [method |-> method, run |-> r, workflow |-> w,
                       variant |-> assignment[r][w]]]
  /\ UNCHANGED <<rollout, metrics, assignment, newestOf, changelog, votes,
                 releaseSet, resumed>>

CountFor(t, outcome) ==
  LET w == reading[t].workflow
      v == reading[t].variant
      m == Counted(metrics[w], v, outcome)
  IN /\ HasRoom(w, v)
     /\ metrics' = [metrics EXCEPT ![w] = m]
     /\ EvaluateRolloutHealth(w, m)
     /\ reading' = [reading EXCEPT ![t] = Idle]
     /\ UNCHANGED <<assignment, newestOf, votes, releaseSet, resumed>>

RecordOutcomeMetrics(t, outcome) ==
  /\ reading[t].method = "outcome"
  /\ CountFor(t, [k \in Metrics |-> IF k = "rejections" THEN 0 ELSE outcome[k]])

RecordRejection(t) ==
  /\ reading[t].method = "rejection"
  /\ CountFor(t, [k \in Metrics |-> IF k = "rejections" THEN 1 ELSE 0])

\* An active release makes the one before it the stable one.
Activated(ro, l) ==
  [ro EXCEPT !.stable = IF ro.active = None THEN @ ELSE ro.active, !.active = l]

RegisterPromptRelease(w, l, status) ==
  /\ releaseSet' = [releaseSet EXCEPT ![l] = status]
  /\ rollout' = IF status = "active" THEN [rollout EXCEPT ![w] = Activated(@, l)]
                ELSE rollout
  /\ UNCHANGED <<metrics, assignment, newestOf, changelog, votes, resumed,
                 reading>>

RecordPromotionApproval(w, l, decision) ==
  /\ votes[w][l][decision] < MaxVotes
  /\ votes' = [votes EXCEPT ![w][l][decision] = @ + 1]
  /\ UNCHANGED <<rollout, metrics, assignment, newestOf, changelog, releaseSet,
                 resumed, reading>>

Next ==
  \/ \E t \in Threads :
       \/ \E r \in Runs : \/ ReadRollout(t, r)
                          \/ \E method \in {"outcome", "rejection"} :
                               ReadAssignment(t, r, method)
       \/ WriteAssignment(t) \/ RecordRejection(t)
       \/ \E outcome \in Outcomes : RecordOutcomeMetrics(t, outcome)
  \/ \E r \in Runs : ResumeRun(r)
  \/ \E w \in WorkflowIds, l \in Releases :
       \/ \E status \in ReleaseInputs : RegisterPromptRelease(w, l, status)
       \/ \E decision \in {"approved", "rejected"} :
            RecordPromotionApproval(w, l, decision)

Spec == Init /\ [][Next]_vars

-----------------------------------------------------------------------------
(***************************************************************************)
(* Properties.                                                             *)
(***************************************************************************)
\* The changelog and the rollout agree: the last entry of a workflow's changelog
\* says the phase it is in, and the candidate is the default exactly in the full
\* phase, whatever sequence of advances, rollbacks and promotions led there
\* (prompt_diagnostics_repo.py:631-712).
ChangelogTellsPhase ==
  \A w \in WorkflowIds :
    LET log == changelog[w]
        last == IF log = <<>> THEN "none" ELSE log[Len(log)]
    IN /\ rollout[w].phase = CASE last = "phase_advance" -> "canary"
                               [] last = "promotion" -> "full"
                               [] last \in {"auto_rollback", "none"} -> "shadow"
       /\ rollout[w].default = "B" <=> rollout[w].phase = "full"

\* A workflow gets one canary phase: it is the first change, and after a rollback
\* there is no second, because the candidate's exposures are never reset
\* (prompt_diagnostics_repo.py:628-642).
OneCanary ==
  \A w \in WorkflowIds : \A i \in 1..Len(changelog[w]) :
    changelog[w][i] = "phase_advance" <=> i = 1

\* The candidate is shown to a run only after the workflow has entered its canary
\* phase, even when a thread renders with a rollout it read before another
\* thread's outcome changed it (prompt_diagnostics_repo.py:155-195).
CandidateNeedsCanary ==
  \A w \in WorkflowIds :
    changelog[w] = <<>> =>
      /\ metrics[w]["B"].exposures = 0
      /\ \A r \in Runs : assignment[r][w] # "B"

\* The candidate is everybody's variant only if the approvals of some release of
\* the workflow reached the quorum, also after later releases and rollbacks
\* (prompt_diagnostics_repo.py:682-705).
FullWasApproved ==
  \A w \in WorkflowIds : rollout[w].phase = "full" =>
    \E l \in Releases : votes[w][l]["approved"] >= ApprovalsNeeded

\* The rates the rollout is judged by are fractions, and an exposure counts for
\* one reply or one rejection but not both: renders, outcomes and rejections
\* update the counters in different transactions
\* (prompt_diagnostics_repo.py:186-195, 220-240, 259-270, 644-646).
RatesAreFractions ==
  \A w \in WorkflowIds, v \in Variants :
    \A k \in Metrics \ {"rejections"} :
      metrics[w][v][k] + metrics[w][v]["rejections"] <= metrics[w][v]["exposures"]

=============================================================================
