-------------------------- MODULE ExecutionProofs --------------------------
(***************************************************************************)
(* The theorem that nothing in the engine says a step was executed whose   *)
(* tool was not called, for any number of deals, runs, steps, threads and  *)
(* envelope objects, with crashes, exceptions and retries.                 *)
(*                                                                         *)
(* ExecutedMeansSent is inductive once the types are known: each copy of a *)
(* status is made from one that already satisfies it, calls are never      *)
(* taken back, and the run an envelope object belongs to never changes     *)
(* while a thread refers to it.                                            *)
(*                                                                         *)
(* The second half is about the opposite direction: what was executed is   *)
(* on record.                                                              *)
(***************************************************************************)
EXTENDS DealProofs

\* The four places that say what was executed.
EnvSent(env) == env # NoEnvelope => SentFor(env.run, env.stat)
EnvelopesSent == \A e \in EnvelopeIds : EnvSent(envelope[e])
SnapshotsSent == \A d \in Deals : EnvSent(snapshot[d])
TablesSent == \A r \in Runs : SentFor(r, stepRow[r].stat) /\ SentFor(r, stepLog[r])
Executing == {"steps", "record"}
ResultsSent ==
  \A w \in Workers : pc[w] \in Executing => SentFor(Target(w), job[w].res)

\* ExecutedMeansSent by the four places.
LEMMA SentParts ==
  ExecutedMeansSent <=> EnvelopesSent /\ SnapshotsSent /\ TablesSent /\ ResultsSent
BY DEF ExecutedMeansSent, EnvelopesSent, SnapshotsSent, TablesSent, ResultsSent,
       EnvSent, Executing

SentInv == TypeInv /\ ExecutedMeansSent

\* Calls are not taken back.
SendsKept == \A r \in Runs, i \in Steps : sends[r][i] > 0 => sends'[r][i] > 0

\* What was sent stays sent.
LEMMA SentForKept ==
  ASSUME SendsKept
  PROVE  \A r \in Runs : \A stat : SentFor(r, stat)
           => \A i \in Steps : stat[i] = "executed" => sends'[r][i] > 0
BY DEF SentFor, SendsKept

\* An envelope object that a thread refers to.
LEMMA ServingSent ==
  ASSUME SentInv, NEW w \in Workers, pc[w] \in Serving
  PROVE  /\ Target(w) \in Runs /\ job[w].env \in EnvelopeIds /\ job[w].deal \in Deals
         /\ envelope[job[w].env] \in EnvelopeValues
         /\ envelope[job[w].env] # NoEnvelope
         /\ SentFor(Target(w), envelope[job[w].env].stat)
<1>1. TypeInv
  BY DEF SentInv
<1>2. /\ Target(w) \in Runs /\ job[w].env \in EnvelopeIds /\ job[w].deal \in Deals
      /\ envelope[job[w].env] \in EnvelopeValues
      /\ envelope[job[w].env] # NoEnvelope
  BY <1>1, ServingFacts
<1> QED
  BY <1>2 DEF SentInv, ExecutedMeansSent, Target

\* What a thread saves or writes of its envelope.
LEMMA WritesSent ==
  ASSUME SentInv, NEW w \in Workers, pc[w] \in Serving
  PROVE  /\ \A d \in Deals : EnvSent(WithSnapshot(w)[d])
         /\ \A r \in Runs : SentFor(r, WithPlanRows(w)[r].stat)
<1>1. \A d \in Deals : EnvSent(snapshot[d])
  BY SentParts DEF SentInv, SnapshotsSent
<1>2. \A r \in Runs : SentFor(r, stepRow[r].stat)
  BY SentParts DEF SentInv, TablesSent
<1>3. /\ Target(w) \in Runs /\ job[w].deal \in Deals
      /\ SentFor(Target(w), envelope[job[w].env].stat)
  BY ServingSent
<1>4. snapshot \in [Deals -> EnvelopeValues \cup {NoEnvelope}] /\ stepRow \in [Runs -> StepRows]
  BY DEF SentInv, TypeInv, TypeOK
<1>5. EnvSent(envelope[job[w].env])
  BY <1>3 DEF EnvSent, Target
<1>6. \A d \in Deals : EnvSent(WithSnapshot(w)[d])
  BY <1>1, <1>3, <1>4, <1>5 DEF WithSnapshot
<1>7. \A r \in Runs : SentFor(r, WithPlanRows(w)[r].stat)
  BY <1>2, <1>3, <1>4 DEF WithPlanRows
<1> QED
  BY <1>6, <1>7

\* The results that the other threads hold, when w takes a step that leaves them
\* and the runs of their envelopes alone.
LEMMA OthersSent ==
  ASSUME SentInv, NEW w \in Workers, SendsKept,
         \A v \in Workers \ {w} : pc'[v] = pc[v] /\ job'[v] = job[v],
         \A v \in Workers \ {w} : pc[v] \in Executing =>
           envelope'[job[v].env].run = envelope[job[v].env].run,
         pc'[w] \in Executing => SentFor(Target(w), job[w].res)'
  PROVE  ResultsSent'
<1> SUFFICES ASSUME NEW v \in Workers, pc'[v] \in Executing
             PROVE  SentFor(Target(v), job[v].res)'
  BY DEF ResultsSent
<1>1. CASE v = w
  BY <1>1
<1>2. CASE v # w
  <2>1. pc[v] \in Executing /\ pc[v] \in Serving
    BY <1>2 DEF Executing, Serving, PcValues
  <2>2. Target(v) \in Runs /\ SentFor(Target(v), job[v].res)
    BY <2>1, ServingSent, SentParts DEF SentInv, ResultsSent
  <2>3. Target(v)' = Target(v) /\ job'[v] = job[v]
    BY <1>2, <2>1 DEF Target
  <2> QED
    BY <2>2, <2>3, SentForKept DEF SentFor
<1> QED
  BY <1>1, <1>2

\* What is not written still satisfies its part.
LEMMA KeptSent ==
  ASSUME SentInv, SendsKept
  PROVE  /\ UNCHANGED envelope => EnvelopesSent'
         /\ UNCHANGED snapshot => SnapshotsSent'
         /\ UNCHANGED <<stepRow, stepLog>> => TablesSent'
<1>1. /\ EnvelopesSent /\ SnapshotsSent /\ TablesSent
      /\ envelope \in [EnvelopeIds -> EnvelopeValues \cup {NoEnvelope}]
      /\ snapshot \in [Deals -> EnvelopeValues \cup {NoEnvelope}]
  BY SentParts DEF SentInv, TypeInv, TypeOK
<1>2. \A env \in EnvelopeValues : env.run \in Runs
  BY DEF EnvelopeValues
<1>3. ASSUME UNCHANGED envelope PROVE EnvelopesSent'
  BY <1>1, <1>2, <1>3 DEF EnvelopesSent, EnvSent, SentFor, SendsKept
<1>4. ASSUME UNCHANGED snapshot PROVE SnapshotsSent'
  BY <1>1, <1>2, <1>4 DEF SnapshotsSent, EnvSent, SentFor, SendsKept
<1>5. ASSUME UNCHANGED <<stepRow, stepLog>> PROVE TablesSent'
  BY <1>1, <1>5 DEF TablesSent, SentFor, SendsKept
<1> QED
  BY <1>3, <1>4, <1>5

\* The steps of a request that write tables and no envelope object.
LEMMA TableStepsSent ==
  ASSUME SentInv, NEW w \in Workers, pc[w] \in Serving,
         UNCHANGED <<envelope, sends>>,
         \A v \in Workers \ {w} : pc'[v] = pc[v] /\ job'[v] = job[v],
         pc'[w] \in Executing => pc[w] \in Executing /\ job'[w] = job[w],
         snapshot' \in {snapshot, WithSnapshot(w)},
         \/ stepRow' \in {stepRow, WithPlanRows(w)} /\ stepLog' = stepLog
         \/ TablesSent'
  PROVE  ExecutedMeansSent'
<1>1. SendsKept
  BY DEF SendsKept
<1>2. EnvelopesSent'
  BY <1>1, KeptSent
<1>3. SnapshotsSent'
  BY WritesSent, SentParts DEF SentInv, SnapshotsSent, EnvSent, SentFor
<1>4. TablesSent'
  BY WritesSent, SentParts DEF SentInv, TablesSent, SentFor
<1>5. ResultsSent'
  <2>1. pc'[w] \in Executing => SentFor(Target(w), job[w].res)'
    BY SentParts DEF SentInv, ResultsSent, Target, SentFor
  <2> QED
    BY <1>1, <2>1, OthersSent
<1> QED
  BY <1>2, <1>3, <1>4, <1>5, SentParts DEF ExecutedMeansSent, EnvelopesSent, SnapshotsSent,
     TablesSent, ResultsSent, EnvSent, Executing

\* A request that ends: the objects that remain are as es says.
LEMMA EndSent ==
  ASSUME SentInv, NEW w \in Workers, NEW de, NEW es, EndRequest(w, de, es),
         \A e \in EnvelopeIds : EnvSent(es[e]),
         \A e \in EnvelopeIds : envelope[e] \in EnvelopeValues => es[e].run = envelope[e].run,
         UNCHANGED <<sends, stepRow, stepLog>>,
         snapshot' = snapshot \/ (pc[w] \in Serving /\ snapshot' = WithSnapshot(w))
  PROVE  ExecutedMeansSent'
<1>1. SendsKept
  BY DEF SendsKept
<1>2. EnvelopesSent'
  BY DEF EndRequest, EnvelopesSent, EnvSent, SentFor
<1>3. SnapshotsSent'
  BY <1>1, KeptSent, WritesSent DEF SnapshotsSent, EnvSent, SentFor
<1>4. TablesSent'
  BY <1>1, KeptSent
<1>5. ResultsSent'
  <2>1. pc'[w] = "idle" /\ \A v \in Workers \ {w} : pc'[v] = pc[v] /\ job'[v] = job[v]
    BY DEF EndRequest, Goto, SentInv, TypeInv, TypeOK
  <2>2. ASSUME NEW v \in Workers \ {w}, pc[v] \in Executing
        PROVE  envelope'[job[v].env].run = envelope[job[v].env].run
    <3>1. job[v].env \in EnvelopeIds /\ envelope[job[v].env] \in EnvelopeValues
      BY <2>2, ServingSent DEF Executing, Serving, PcValues
    <3> QED
      BY <3>1 DEF EndRequest
  <2> QED
    BY <1>1, <2>1, <2>2, OthersSent DEF Executing
<1> QED
  BY <1>2, <1>3, <1>4, <1>5 DEF ExecutedMeansSent, EnvelopesSent, SnapshotsSent,
     TablesSent, ResultsSent, EnvSent, Executing

\* An envelope that satisfies its part after the step.
WillBeSent(env) ==
  env # NoEnvelope => \A i \in Steps : env.stat[i] = "executed" => sends'[env.run][i] > 0

\* A request that changes an object e, its own or one that no thread refers to yet.
LEMMA ObjectStepSent ==
  ASSUME SentInv, NEW w \in Workers, SendsKept, UNCHANGED <<stepRow, stepLog, snapshot>>,
         NEW e \in EnvelopeIds, NEW env, envelope' = [envelope EXCEPT ![e] = env],
         WillBeSent(env),
         \/ env.run = envelope[e].run
         \/ \A v \in Workers : job[v].env # e,
         \A v \in Workers \ {w} : pc'[v] = pc[v] /\ job'[v] = job[v],
         pc'[w] \in Executing => SentFor(Target(w), job[w].res)'
  PROVE  ExecutedMeansSent'
<1>1. envelope \in [EnvelopeIds -> EnvelopeValues \cup {NoEnvelope}] /\ EnvelopesSent
  BY SentParts DEF SentInv, TypeInv, TypeOK
<1>2. EnvelopesSent'
  <2> SUFFICES ASSUME NEW x \in EnvelopeIds PROVE EnvSent(envelope[x])'
    BY DEF EnvelopesSent
  <2>1. CASE x = e
    BY <1>1, <2>1 DEF EnvSent, SentFor, WillBeSent
  <2>2. CASE x # e
    BY <1>1, <2>2 DEF EnvelopesSent, EnvSent, SentFor, SendsKept, EnvelopeValues
  <2> QED
    BY <2>1, <2>2
<1>3. SnapshotsSent' /\ TablesSent'
  BY KeptSent
<1>4. ResultsSent'
  <2>1. ASSUME NEW v \in Workers \ {w}
        PROVE  envelope'[job[v].env].run = envelope[job[v].env].run
    BY <1>1
  <2> QED
    BY <2>1, OthersSent
<1> QED
  BY <1>2, <1>3, <1>4 DEF ExecutedMeansSent, EnvelopesSent, SnapshotsSent,
     TablesSent, ResultsSent, EnvSent, Executing

\* A step of w leaves the program counters and the locals of the others alone.
LEMMA OnlyMine ==
  ASSUME SentInv, NEW w \in Workers
  PROVE  /\ \A label : Goto(w, label)
              => pc'[w] = label /\ \A v \in Workers \ {w} : pc'[v] = pc[v]
         /\ \A j : job' = [job EXCEPT ![w] = j]
              => job'[w] = j /\ \A v \in Workers \ {w} : job'[v] = job[v]
BY DEF SentInv, TypeInv, TypeOK, Goto

\* The requests that arrive: a new run is empty, a decision writes its own word.
LEMMA RequestSent ==
  ASSUME SentInv, NEW w \in Workers, Request(w)
  PROVE  ExecutedMeansSent'
<1>1. ASSUME NEW d \in Deals, NEW kind \in Workflows, StartRun(w, d, kind)
      PROVE  ExecutedMeansSent'
  <2>1. PICK r \in Runs, e \in FreshEnvelopes :
          /\ envelope' = [envelope EXCEPT ![e] = NewEnvelope(r)]
          /\ job' = [job EXCEPT ![w] = [NoJob EXCEPT !.kind = kind, !.id = r,
                                        !.deal = d, !.env = e]]
    BY <1>1 DEF StartRun
  <2>2. e \in EnvelopeIds /\ \A v \in Workers : job[v].env # e
    BY DEF FreshEnvelopes, Held
  <2>3. UNCHANGED <<stepRow, stepLog, snapshot, sends>> /\ Goto(w, "created")
    BY <1>1 DEF StartRun
  <2>4. WillBeSent(NewEnvelope(r)) /\ SendsKept
    BY <2>3 DEF WillBeSent, NewEnvelope, NoStepRows, SendsKept
  <2>5. /\ \A v \in Workers \ {w} : pc'[v] = pc[v] /\ job'[v] = job[v]
        /\ pc'[w] \notin Executing
    BY <2>1, <2>3, OnlyMine DEF Executing
  <2> QED
    BY <2>1, <2>2, <2>3, <2>4, <2>5, ObjectStepSent
<1>2. ASSUME NEW kind \in {"approve", "reject", "edit"}, NEW a \in Runs,
             NEW scope \in Scopes, NEW text \in Bodies \cup {None},
             Decide(w, kind, a, scope, text)
      PROVE  ExecutedMeansSent'
  <2>1. /\ stepRow' = WithStepRows(a, scope, StatusAfter(kind), text)
        /\ UNCHANGED <<stepLog, snapshot, envelope, sends>>
        /\ Goto(w, "decided")
        /\ job' = [job EXCEPT ![w] = [NoJob EXCEPT !.kind = kind, !.id = a,
                                      !.scope = scope, !.text = text]]
    BY <1>2 DEF Decide
  <2>2. SendsKept /\ EnvelopesSent' /\ SnapshotsSent'
    BY <2>1, KeptSent DEF SendsKept
  <2>3. TablesSent'
    <3>1. StatusAfter(kind) # "executed"
      BY DEF StatusAfter
    <3>2. TablesSent /\ stepRow \in [Runs -> StepRows]
      BY SentParts DEF SentInv, TypeInv, TypeOK
    <3> QED
      BY <2>1, <3>1, <3>2 DEF TablesSent, SentFor, WithStepRows
  <2>4. ResultsSent'
    <3>1. /\ \A v \in Workers \ {w} : pc'[v] = pc[v] /\ job'[v] = job[v]
          /\ pc'[w] \notin Executing
      BY <2>1, OnlyMine DEF Executing
    <3> QED
      BY <2>1, <2>2, <3>1, OthersSent
  <2> QED
    BY <2>2, <2>3, <2>4 DEF ExecutedMeansSent, EnvelopesSent, SnapshotsSent,
       TablesSent, ResultsSent, EnvSent, Executing
<1> QED
  BY <1>1, <1>2, OrchestratorAssumption DEF Request, Approve, Reject, Edit

\* The plan operators mark no step executed that was not before; resuming takes
\* "executed" from the envelope or from the log.
LEMMA PlansSent ==
  ASSUME SentInv, NEW w \in Workers, pc[w] \in Serving
  PROVE  LET env == envelope[job[w].env]
         IN /\ \A scope : EnvSent(ApprovedPlan(env, scope))
                          /\ ApprovedPlan(env, scope).run = env.run
            /\ EnvSent(RevisedPlan(w)) /\ RevisedPlan(w).run = env.run
            /\ SentFor(env.run, ResumedStat(env))
<1> DEFINE env == envelope[job[w].env]
<1>1. env \in EnvelopeValues /\ SentFor(env.run, env.stat) /\ env.run \in Runs
  BY ServingSent DEF Target
<1>2. env = [run |-> env.run, plan |-> env.plan, stat |-> env.stat, body |-> env.body]
      /\ env.stat \in [Steps -> StepStatuses]
  BY <1>1 DEF EnvelopeValues
<1> HIDE DEF env
<1>3. ASSUME NEW scope
      PROVE  EnvSent(ApprovedPlan(env, scope)) /\ ApprovedPlan(env, scope).run = env.run
  BY <1>1, <1>2 DEF ApprovedPlan, EnvSent, SentFor
<1>4. ASSUME NEW scope
      PROVE  EnvSent(RejectedPlan(env, scope)) /\ RejectedPlan(env, scope).run = env.run
  BY <1>1, <1>2 DEF RejectedPlan, EnvSent, SentFor
<1>5. ASSUME NEW scope, NEW text
      PROVE  EnvSent(EditedPlan(env, scope, text)) /\ EditedPlan(env, scope, text).run = env.run
  BY <1>1, <1>2 DEF EditedPlan, EnvSent, SentFor
<1>6. EnvSent(RevisedPlan(w)) /\ RevisedPlan(w).run = env.run
  BY <1>1, <1>4, <1>5 DEF RevisedPlan, EnvSent, env
<1>7. SentFor(env.run, ResumedStat(env))
  BY <1>1, SentParts DEF SentInv, TablesSent, SentFor, ResumedStat
<1> QED
  BY <1>3, <1>6, <1>7 DEF env

\* The steps of a request that write tables only.
LEMMA WritingSent ==
  ASSUME SentInv, NEW w \in Workers,
         \/ FirstSnapshot(w) \/ AgentStep(w) \/ UpsertAction(w) \/ UpsertPlan(w)
         \/ SnapshotAction(w) \/ ExecEnd(w) \/ ExecRetry(w) \/ RecordExecution(w)
         \/ PersistPlan(w) \/ MarkExecuted(w) \/ RecordOutcome(w)
  PROVE  ExecutedMeansSent'
<1>1. pc[w] \in Serving /\ UNCHANGED <<envelope, sends>>
  BY DEF FirstSnapshot, AgentStep, UpsertAction, UpsertPlan, SnapshotAction, ExecEnd, ExecRetry,
         RecordExecution, PersistPlan, MarkExecuted, RecordOutcome, Serving, PcValues, memory
<1>2. \A v \in Workers \ {w} : pc'[v] = pc[v] /\ job'[v] = job[v]
  BY OnlyMine DEF FirstSnapshot, AgentStep, UpsertAction, UpsertPlan, SnapshotAction, ExecEnd,
     ExecRetry, RecordExecution, PersistPlan, MarkExecuted, RecordOutcome, SentInv, TypeInv, TypeOK
<1>3. pc'[w] \in Executing => pc[w] \in Executing /\ job'[w] = job[w]
  BY OnlyMine DEF FirstSnapshot, AgentStep, UpsertAction, UpsertPlan, SnapshotAction, ExecEnd,
     ExecRetry, RecordExecution, PersistPlan, MarkExecuted, RecordOutcome, Executing, Goto,
     SentInv, TypeInv, TypeOK
<1>4. snapshot' \in {snapshot, WithSnapshot(w)}
  BY DEF FirstSnapshot, AgentStep, UpsertAction, UpsertPlan, SnapshotAction, ExecEnd, ExecRetry,
         RecordExecution, PersistPlan, MarkExecuted, RecordOutcome, tables
<1>5. \/ stepRow' \in {stepRow, WithPlanRows(w)} /\ stepLog' = stepLog
      \/ TablesSent'
  <2>1. CASE RecordExecution(w)
    <3>1. Target(w) \in Runs /\ SentFor(Target(w), job[w].res)
      BY <1>1, <2>1, ServingSent, SentParts DEF SentInv, ResultsSent, RecordExecution, Executing
    <3>2. stepLog \in [Runs -> [Steps -> Results]] /\ TablesSent
      BY SentParts DEF SentInv, TypeInv, TypeOK
    <3>3. UNCHANGED <<stepRow, sends>>
      BY <2>1 DEF RecordExecution
    <3>4. \/ stepLog' = stepLog
          \/ stepLog' = [stepLog EXCEPT ![Target(w)] =
                           [i \in Steps |-> IF job[w].res[i] = "none" THEN @[i]
                                            ELSE job[w].res[i]]]
      BY <2>1 DEF RecordExecution
    <3> QED
      BY <3>1, <3>2, <3>3, <3>4 DEF TablesSent, SentFor
  <2>2. CASE ~RecordExecution(w)
    BY <2>2 DEF FirstSnapshot, AgentStep, UpsertAction, UpsertPlan, SnapshotAction, ExecEnd,
                ExecRetry, PersistPlan, MarkExecuted, RecordOutcome, tables
  <2> QED
    BY <2>1, <2>2
<1> QED
  BY <1>1, <1>2, <1>3, <1>4, <1>5, TableStepsSent

\* The steps that end a request.
LEMMA EndingSent ==
  ASSUME SentInv, NEW w \in Workers,
         \/ SkipRun(w) \/ AgentFail(w) \/ ReturnStart(w) \/ LoadFails(w) \/ DecisionFails(w)
         \/ ReviseLoaded(w) \/ ResumeNothingLeft(w) \/ ExecFail(w) \/ EvalFail(w)
         \/ Complete(w)
  PROVE  ExecutedMeansSent'
<1>1. UNCHANGED <<sends, stepRow, stepLog>>
  BY DEF SkipRun, AgentFail, ReturnStart, LoadFails, DecisionFails, ReviseLoaded,
         ResumeNothingLeft, ExecFail, EvalFail, ResumeFails, Complete, tables
<1>2. snapshot' = snapshot \/ (pc[w] \in Serving /\ snapshot' = WithSnapshot(w))
  <2>1. CASE ReturnStart(w) \/ LoadFails(w) \/ DecisionFails(w) \/ ReviseLoaded(w)
             \/ ResumeNothingLeft(w)
    BY <2>1 DEF ReturnStart, LoadFails, DecisionFails, ReviseLoaded, ResumeNothingLeft, tables
  <2>2. CASE SkipRun(w) \/ AgentFail(w)
    BY <2>2 DEF SkipRun, AgentFail, Serving, PcValues
  <2>3. CASE ExecFail(w) \/ EvalFail(w)
    <3>1. pc[w] \in Serving /\ ResumeFails(w)
      BY <2>3 DEF ExecFail, EvalFail, Serving, PcValues
    <3> QED
      BY <3>1 DEF ResumeFails
  <2>4. CASE Complete(w)
    BY <2>4 DEF Complete, Serving, PcValues
  <2> QED
    BY <2>1, <2>2, <2>3, <2>4
<1>3. EnvelopesSent /\ envelope \in [EnvelopeIds -> EnvelopeValues \cup {NoEnvelope}]
  BY SentParts DEF SentInv, TypeInv, TypeOK
<1>4. CASE \E de : EndRequest(w, de, envelope)
  BY <1>1, <1>2, <1>3, <1>4, EndSent DEF EnvelopesSent
<1>5. CASE ReviseLoaded(w)
  <2>1. pc[w] \in Serving
    BY <1>5 DEF ReviseLoaded, Serving, PcValues
  <2>2. job[w].env \in EnvelopeIds
    BY <2>1, ServingSent
  <2> DEFINE es == [envelope EXCEPT ![job[w].env] = RevisedPlan(w)]
  <2>3. /\ \A e \in EnvelopeIds : EnvSent(es[e])
        /\ \A e \in EnvelopeIds : es[e].run = envelope[e].run
    BY <1>3, <2>1, <2>2, PlansSent DEF EnvelopesSent
  <2> HIDE DEF es
  <2>4. \E de : EndRequest(w, de, es)
    BY <1>5 DEF ReviseLoaded, es
  <2> QED
    BY <1>1, <1>2, <2>3, <2>4, EndSent
<1>6. CASE ResumeNothingLeft(w)
  <2>1. pc[w] \in Serving
    BY <1>6 DEF ResumeNothingLeft, Serving, PcValues
  <2>2. job[w].env \in EnvelopeIds /\ envelope[job[w].env] \in EnvelopeValues
    BY <2>1, ServingSent
  <2> DEFINE es == ResumedEnvelopes(w)
  <2>3. /\ \A e \in EnvelopeIds : EnvSent(es[e])
        /\ \A e \in EnvelopeIds : es[e].run = envelope[e].run
    BY <1>3, <2>1, <2>2, PlansSent DEF EnvelopesSent, ResumedEnvelopes, EnvSent, EnvelopeValues
  <2> HIDE DEF es
  <2>4. \E de : EndRequest(w, de, es)
    BY <1>6 DEF ResumeNothingLeft, es
  <2> QED
    BY <1>1, <1>2, <2>3, <2>4, EndSent
<1> QED
  BY <1>4, <1>5, <1>6 DEF SkipRun, AgentFail, ReturnStart, LoadFails, DecisionFails,
     ExecFail, EvalFail, ResumeFails, Complete

\* The steps that find an envelope, decide about it or get it ready to execute.
LEMMA DecidingSent ==
  ASSUME SentInv, NEW w \in Workers,
         \/ \E plan \in {"pending_approval", "approved"} : PlanAction(w, plan)
         \/ LoadCached(w) \/ LoadSaved(w) \/ StoreHydrated(w) \/ ApproveLoaded(w)
         \/ Resume(w) \/ ExecBegin(w)
  PROVE  ExecutedMeansSent'
<1>0. /\ UNCHANGED <<sends, stepRow, stepLog, snapshot>> /\ SendsKept
      /\ \A v \in Workers \ {w} : pc'[v] = pc[v] /\ job'[v] = job[v]
  <2>1. UNCHANGED <<sends, stepRow, stepLog, snapshot>>
    BY DEF PlanAction, LoadCached, LoadSaved, StoreHydrated, ApproveLoaded, Resume, ExecBegin, tables
  <2>2. \A v \in Workers \ {w} : pc'[v] = pc[v] /\ job'[v] = job[v]
    BY DEF PlanAction, LoadCached, LoadSaved, StoreHydrated, ApproveLoaded, Resume, ExecBegin,
           Goto, SentInv, TypeInv, TypeOK
  <2> QED
    BY <2>1, <2>2 DEF SendsKept
<1>1. ASSUME NEW plan \in {"pending_approval", "approved"}, PlanAction(w, plan)
      PROVE  ExecutedMeansSent'
  <2>1. pc[w] \in Serving /\ pc'[w] \notin Executing
    BY <1>1, OnlyMine DEF PlanAction, Serving, PcValues, Executing
  <2>2. job[w].env \in EnvelopeIds /\ envelope[job[w].env] \in EnvelopeValues
    BY <2>1, ServingSent
  <2>3. PICK text \in [Steps -> Generated] : Planned(w, text, plan)
    BY <1>1 DEF PlanAction
  <2> DEFINE new == [envelope[job[w].env] EXCEPT !.plan = plan, !.body = text,
                                                 !.stat = [i \in Steps |-> plan]]
  <2>4. envelope' = [envelope EXCEPT ![job[w].env] = new]
    BY <2>2, <2>3 DEF Planned, SentInv, TypeInv, TypeOK, EnvelopeValues
  <2>5. new.run = envelope[job[w].env].run /\ WillBeSent(new)
    BY <2>2 DEF EnvelopeValues, WillBeSent
  <2> HIDE DEF new
  <2> QED
    BY <1>0, <2>1, <2>2, <2>4, <2>5, ObjectStepSent
<1>2. CASE LoadCached(w) \/ StoreHydrated(w)
  <2>1. UNCHANGED envelope /\ pc'[w] \notin Executing
    BY <1>2, OnlyMine DEF LoadCached, StoreHydrated, memory, Executing
  <2> QED
    BY <1>0, <2>1, KeptSent, OthersSent DEF ExecutedMeansSent, EnvelopesSent, SnapshotsSent,
       TablesSent, ResultsSent, EnvSent, Executing
<1>3. CASE LoadSaved(w)
  <2>1. PICK d \in FoundDeals(job[w].id), e \in FreshEnvelopes :
          envelope' = [envelope EXCEPT ![e] = snapshot[d]]
    BY <1>3 DEF LoadSaved
  <2>2. pc[w] = "decided" /\ pc'[w] \notin Executing
    BY <1>3, OnlyMine DEF LoadSaved, Executing
  <2>3. d \in Deals /\ e \in EnvelopeIds /\ \A v \in Workers : job[v].env # e
    BY OrchestratorAssumption, <2>2
       DEF FoundDeals, DealsHolding, FreshEnvelopes, Held, SentInv, TypeInv, TypeOK, JobsOK, JobOK
  <2>4. WillBeSent(snapshot[d])
    BY <1>0, <2>3, SentParts DEF SentInv, SnapshotsSent, EnvSent, SentFor, WillBeSent
  <2> QED
    BY <1>0, <2>1, <2>2, <2>3, <2>4, ObjectStepSent
<1>4. CASE ApproveLoaded(w)
  <2>1. pc[w] \in Serving /\ pc'[w] \notin Executing
    BY <1>4, OnlyMine DEF ApproveLoaded, Serving, PcValues, Executing
  <2> DEFINE new == ApprovedPlan(envelope[job[w].env], PlanScope(w))
  <2>2. /\ job[w].env \in EnvelopeIds
        /\ envelope' = [envelope EXCEPT ![job[w].env] = new]
    BY <1>4, <2>1, ServingSent DEF ApproveLoaded
  <2>3. EnvSent(new) /\ new.run = envelope[job[w].env].run
    BY <2>1, PlansSent
  <2> HIDE DEF new
  <2>4. WillBeSent(new)
    BY <1>0, <2>3 DEF EnvSent, SentFor, WillBeSent
  <2> QED
    BY <1>0, <2>1, <2>2, <2>3, <2>4, ObjectStepSent
<1>5. CASE Resume(w)
  <2>1. pc[w] \in Serving /\ pc'[w] \notin Executing
    BY <1>5, OnlyMine DEF Resume, Serving, PcValues, Executing
  <2> DEFINE env == envelope[job[w].env]
             new == [env EXCEPT !.plan = "approved", !.stat = ResumedStat(env)]
  <2>2. job[w].env \in EnvelopeIds /\ env \in EnvelopeValues
    BY <2>1, ServingSent
  <2>3. envelope' = [envelope EXCEPT ![job[w].env] = new]
    BY <1>5, <2>2 DEF Resume, ResumedEnvelopes, SentInv, TypeInv, TypeOK
  <2>4. SentFor(env.run, ResumedStat(env))
    BY <2>1, PlansSent
  <2>5. new.run = env.run /\ EnvSent(new)
    BY <2>2, <2>4 DEF EnvelopeValues, EnvSent
  <2> HIDE DEF new
  <2>6. WillBeSent(new)
    BY <1>0, <2>5 DEF EnvSent, SentFor, WillBeSent
  <2> QED
    BY <1>0, <2>1, <2>2, <2>3, <2>5, <2>6, ObjectStepSent
<1>6. CASE ExecBegin(w)
  <2>1. UNCHANGED envelope /\ job'[w].res = NoResults
    BY <1>6 DEF ExecBegin, memory, SentInv, TypeInv, TypeOK, Jobs
  <2>2. SentFor(Target(w), job[w].res)'
    BY <2>1 DEF SentFor, NoResults
  <2> QED
    BY <1>0, <2>1, <2>2, KeptSent, OthersSent DEF ExecutedMeansSent, EnvelopesSent, SnapshotsSent,
       TablesSent, ResultsSent, EnvSent, Executing
<1> QED
  BY <1>1, <1>2, <1>3, <1>4, <1>5, <1>6

\* A step of the execution: its status and its result are those of its call.
LEMMA StepDoneSent ==
  ASSUME SentInv, NEW w \in Workers, pc[w] = "steps", job[w].next \in Steps,
         NEW result \in {"executed", "failed"}, StepDone(w, result), SendsKept,
         result = "executed" => sends'[Target(w)][job[w].next] > 0
  PROVE  ExecutedMeansSent'
<1> DEFINE env == envelope[job[w].env]
           i == job[w].next
           stat == [env.stat EXCEPT ![i] = result]
           new == [env EXCEPT !.stat = stat]
           res == [job[w].res EXCEPT ![i] = result]
<1>1. pc[w] \in Serving /\ pc[w] \in Executing /\ TypeInv
  BY DEF Serving, PcValues, Executing, SentInv
<1>2. /\ job[w].env \in EnvelopeIds /\ env \in EnvelopeValues /\ job[w] \in Jobs
      /\ Target(w) = env.run /\ env.run \in Runs /\ env # NoEnvelope
      /\ SentFor(env.run, env.stat) /\ SentFor(env.run, job[w].res)
  BY <1>1, ServingSent, SentParts DEF SentInv, TypeInv, TypeOK, ResultsSent, Target
<1>3. UNCHANGED <<stepRow, stepLog, snapshot, pc>>
  BY DEF StepDone, tables
<1>4. envelope' = [envelope EXCEPT ![job[w].env] = new]
  BY <1>2 DEF StepDone, SentInv, TypeInv, TypeOK, EnvelopeValues
<1>5. job' = [job EXCEPT ![w] = [job[w] EXCEPT !.next = i + 1, !.res = res]]
  BY <1>1, StepDoneJob
<1>6. /\ new.run = env.run /\ new.stat = stat
      /\ \A x \in Steps : stat[x] = "executed" => sends'[env.run][x] > 0
  BY <1>2 DEF EnvelopeValues, SentFor, SendsKept
<1>7. \A x \in Steps : res[x] = "executed" => sends'[env.run][x] > 0
  BY <1>2 DEF Jobs, SentFor, SendsKept
<1>8. job'[w].res = res /\ job'[w].env = job[w].env
      /\ \A v \in Workers \ {w} : job'[v] = job[v]
  <2> DEFINE j == [job[w] EXCEPT !.next = i + 1, !.res = res]
  <2>1. j.res = res /\ j.env = job[w].env
    BY <1>2 DEF Jobs
  <2> HIDE DEF j
  <2> QED
    BY <1>5, <2>1, OnlyMine DEF j
<1> HIDE DEF new, stat, res
<1>9. envelope'[job[w].env] = new
  BY <1>2, <1>4 DEF SentInv, TypeInv, TypeOK
<1>10. SentFor(Target(w), job[w].res)'
  BY <1>6, <1>7, <1>8, <1>9 DEF SentFor, Target
<1>11. WillBeSent(new)
  BY <1>6 DEF WillBeSent
<1> QED
  BY <1>2, <1>3, <1>4, <1>6, <1>8, <1>10, <1>11, ObjectStepSent

\* A step of the plan is passed over or executed (execution_agent.py:77-208).
LEMMA ExecutingSent ==
  ASSUME SentInv, NEW w \in Workers,
         ExecStepBlocked(w) \/ ExecStepAlready(w) \/ ExecStepSend(w)
  PROVE  ExecutedMeansSent'
<1>1. CASE ExecStepBlocked(w)
  <2>1. SendsKept
    BY <1>1 DEF ExecStepBlocked, SendsKept
  <2> QED
    BY <1>1, <2>1, StepDoneSent DEF ExecStepBlocked
<1>2. CASE ExecStepAlready(w)
  <2>1. UNCHANGED sends /\ pc[w] = "steps" /\ job[w].next \in Steps /\ StepDone(w, "executed")
    BY <1>2 DEF ExecStepAlready
  <2>2. envelope[job[w].env].stat[job[w].next] = "executed"
    BY <1>2 DEF ExecStepAlready, CallsTool
  <2>3. SentFor(Target(w), envelope[job[w].env].stat)
    BY <2>1, ServingSent DEF Serving, PcValues
  <2> QED
    BY <2>1, <2>2, <2>3, StepDoneSent DEF SendsKept, SentFor
<1>3. CASE ExecStepSend(w)
  <2>1. /\ pc[w] = "steps" /\ job[w].next \in Steps /\ StepDone(w, "executed")
        /\ sends' = [sends EXCEPT ![Target(w)][job[w].next] = Bump(@)]
    BY <1>3 DEF ExecStepSend, CallsTool
  <2>2. Target(w) \in Runs
    BY <2>1, ServingSent DEF Serving, PcValues
  <2>3. sends \in [Runs -> [Steps -> 0..SendCap]] /\ SendCap \in Nat \ {0}
    BY OrchestratorAssumption DEF SentInv, TypeInv, TypeOK
  <2>4. \A n \in 0..SendCap : Bump(n) > 0
    BY <2>3 DEF Bump
  <2>5. SendsKept /\ sends'[Target(w)][job[w].next] > 0
    BY <2>1, <2>2, <2>3, <2>4 DEF SendsKept
  <2> QED
    BY <2>1, <2>5, StepDoneSent
<1> QED
  BY <1>1, <1>2, <1>3

\* ExecutedMeansSent is inductive relative to the types.
LEMMA NextSentInv == SentInv /\ [Next]_vars => SentInv'
<1> SUFFICES ASSUME SentInv, [Next]_vars PROVE ExecutedMeansSent'
  BY NextTypeInv DEF SentInv
<1>1. ASSUME NEW w \in Workers, Request(w) PROVE ExecutedMeansSent'
  BY <1>1, RequestSent
<1>2. ASSUME NEW w \in Workers, Fault(w) PROVE ExecutedMeansSent'
  BY <1>2, EndingSent, WritingSent DEF Fault
<1>3. ASSUME NEW w \in Workers, Step(w) PROVE ExecutedMeansSent'
  BY <1>3, WritingSent, EndingSent, DecidingSent, ExecutingSent DEF Step
<1>4. CASE Restart
  <2>1. SendsKept /\ UNCHANGED <<snapshot, stepRow, stepLog>>
    BY <1>4 DEF Restart, SendsKept, tables
  <2>2. EnvelopesSent' /\ ResultsSent'
    BY <1>4 DEF Restart, EnvelopesSent, ResultsSent, EnvSent, Executing
  <2> QED
    BY <2>1, <2>2, KeptSent DEF ExecutedMeansSent, EnvelopesSent, SnapshotsSent,
       TablesSent, ResultsSent, EnvSent, Executing
<1>5. CASE UNCHANGED vars
  BY <1>5 DEF vars, tables, memory, SentInv, ExecutedMeansSent, SentFor, Target
<1> QED
  BY <1>1, <1>2, <1>3, <1>4, <1>5 DEF Next

\* No envelope, snapshot, row, log entry or result ever says that a step was executed
\* whose tool was not called, whatever threads interleave, wherever the process
\* stops and whatever is raised and retried (runner.py:480-517, service.py:297-310).
THEOREM ExecutedCorrect == Spec => []ExecutedMeansSent
<1>1. Init => SentInv
  BY InitTypeInv DEF Init, SentInv, ExecutedMeansSent, SentFor, NoStepRows, NoResults
<1>2. SentInv => ExecutedMeansSent
  BY DEF SentInv
<1> QED
  BY <1>1, <1>2, NextSentInv, PTL DEF Spec

-----------------------------------------------------------------------------
(***************************************************************************)
(* Executions and outcomes on record.                                      *)
(***************************************************************************)
\* Only the recording of an execution writes the log.
LEMMA LogWrites ==
  ASSUME NEW w \in Workers, Request(w) \/ Fault(w) \/ Step(w), ~RecordExecution(w)
  PROVE  UNCHANGED <<execLog, stepLog>>
<1>1. CASE Request(w)
  BY <1>1 DEF Request, StartRun, Approve, Reject, Edit, Decide
<1>2. CASE Fault(w)
  BY <1>2 DEF Fault, AgentFail, ExecFail, ExecRetry, EvalFail, ResumeFails, tables
<1>3. CASE Step(w)
  BY <1>3 DEF Step, FirstSnapshot, SkipRun, AgentStep, PlanAction, UpsertAction, UpsertPlan,
              SnapshotAction, ReturnStart, LoadCached, LoadSaved, StoreHydrated, LoadFails,
              DecisionFails, ApproveLoaded, ReviseLoaded, ResumeNothingLeft, Resume, ExecBegin,
              ExecStepBlocked, ExecStepAlready, ExecStepSend, StepDone, ExecEnd, PersistPlan,
              MarkExecuted, RecordOutcome, Complete, tables
<1> QED
  BY <1>1, <1>2, <1>3

\* Only the execution of a step calls a tool.
LEMMA SendsWritten ==
  ASSUME NEW w \in Workers, Request(w) \/ Fault(w) \/ Step(w), ~ExecStepSend(w)
  PROVE  UNCHANGED sends
<1>1. CASE Request(w)
  BY <1>1 DEF Request, StartRun, Approve, Reject, Edit, Decide
<1>2. CASE Fault(w)
  BY <1>2 DEF Fault, AgentFail, ExecFail, ExecRetry, EvalFail, ResumeFails
<1>3. CASE Step(w)
  BY <1>3 DEF Step, FirstSnapshot, SkipRun, AgentStep, PlanAction, UpsertAction, UpsertPlan,
              SnapshotAction, ReturnStart, LoadCached, LoadSaved, StoreHydrated, LoadFails,
              DecisionFails, ApproveLoaded, ReviseLoaded, ResumeNothingLeft, Resume,
              ExecBegin, ExecStepBlocked, ExecStepAlready, ExecEnd, RecordExecution,
              PersistPlan, MarkExecuted, RecordOutcome, Complete
<1> QED
  BY <1>1, <1>2, <1>3

Filing == {"executing", "steps", "record", "plan_rows", "mark", "evaluating", "completing"}

\* A request that executes has a run to file under, and has filed its execution before
\* it is evaluated and its outcome before it completes.
FilesInOrder(w) ==
  /\ pc[w] \in Filing => job[w].rid # None
  /\ pc[w] \in {"plan_rows", "mark", "evaluating", "completing"} => execLog[Target(w)] # None
  /\ pc[w] = "completing" => outcomeRow[Target(w)] # None

FilingInv ==
  DealInv /\ OutcomeHasExecution /\ \A w \in Workers : FilesInOrder(w)

\* What is filed stays filed, and nothing is filed but by a request that does so.
LEMMA FiledStays ==
  ASSUME FilingInv, NEW w \in Workers, Request(w) \/ Fault(w) \/ Step(w)
  PROVE  /\ \A a \in Runs : execLog[a] # None => execLog'[a] # None
         /\ \A a \in Runs : outcomeRow[a] # None => outcomeRow'[a] # None
         /\ ~RecordOutcome(w) => outcomeRow' = outcomeRow
<1>1. \A a \in Runs : execLog[a] # None => execLog'[a] # None
  <2>1. CASE ~RecordExecution(w)
    BY <2>1, LogWrites
  <2>2. CASE RecordExecution(w)
    BY <2>2 DEF RecordExecution, FilingInv, DealInv, TypeInv, TypeOK
  <2> QED
    BY <2>1, <2>2
<1>2. ~RecordOutcome(w) => outcomeRow' = outcomeRow
  <2>1. CASE Request(w)
    BY <2>1 DEF Request, StartRun, Approve, Reject, Edit, Decide
  <2>2. CASE Fault(w)
    BY <2>2 DEF Fault, AgentFail, ExecFail, ExecRetry, EvalFail, ResumeFails, tables
  <2>3. CASE Step(w)
    BY <2>3 DEF Step, FirstSnapshot, SkipRun, AgentStep, PlanAction, UpsertAction, UpsertPlan,
                SnapshotAction, ReturnStart, LoadCached, LoadSaved, StoreHydrated, LoadFails,
                DecisionFails, ApproveLoaded, ReviseLoaded, ResumeNothingLeft, Resume,
                ExecBegin, ExecStepBlocked, ExecStepAlready, ExecStepSend, StepDone, ExecEnd,
                RecordExecution, PersistPlan, MarkExecuted, Complete, tables
  <2> QED
    BY <2>1, <2>2, <2>3
<1>3. \A a \in Runs : outcomeRow[a] # None => outcomeRow'[a] # None
  BY <1>2 DEF RecordOutcome, FilingInv, DealInv, TypeInv, TypeOK
<1> QED
  BY <1>1, <1>2, <1>3

\* Where the steps of a resumed request lead.
LEMMA FilingSteps ==
  ASSUME FilingInv, NEW w \in Workers, Request(w) \/ Fault(w) \/ Step(w), pc'[w] \in Filing
  PROVE  /\ Advancing(w)
         /\ \/ pc[w] \in Filing /\ job'[w].rid = job[w].rid
            \/ Resume(w) /\ pc'[w] = "executing"
         /\ pc'[w] \in {"plan_rows", "mark", "evaluating", "completing"} =>
              \/ RecordExecution(w)
              \/ pc[w] \in {"plan_rows", "mark", "evaluating", "completing"}
         /\ pc'[w] = "completing" => RecordOutcome(w)
<1> USE DEF Filing
<1>0. TypeInv /\ pc \in [Workers -> PcValues] /\ job \in [Workers -> Jobs]
  BY DEF FilingInv, DealInv, TypeInv, TypeOK
<1>1. ~Request(w)
  BY <1>0 DEF Request, StartRun, Approve, Reject, Edit, Decide, Goto
<1>2. ~Ending(w)
  <2>1. Ending(w) => pc'[w] = "idle"
    BY <1>0, EndingRuns DEF FilingInv, EndRequest, Goto
  <2> QED
    BY <2>1
<1>3. ~(LoadCached(w) \/ LoadSaved(w) \/ StoreHydrated(w))
  BY <1>0 DEF LoadCached, LoadSaved, StoreHydrated, Goto
<1>4. Advancing(w)
  BY <1>1, <1>2, <1>3 DEF Step, Fault, Advancing, Ending
<1>5. ~( \/ FirstSnapshot(w) \/ AgentStep(w) \/ UpsertAction(w) \/ UpsertPlan(w)
         \/ \E plan \in {"pending_approval", "approved"} : PlanAction(w, plan)
         \/ SnapshotAction(w) \/ ApproveLoaded(w))
  BY <1>0 DEF FirstSnapshot, AgentStep, UpsertAction, UpsertPlan, PlanAction, SnapshotAction,
              ApproveLoaded, Goto
<1>6. CASE Resume(w)
  BY <1>0, <1>4, <1>6 DEF Resume, Goto
<1>7. CASE ExecBegin(w)
  <2>1. pc[w] = "executing" /\ pc'[w] \in {"steps", "record"} /\ job'[w].rid = job[w].rid
    BY <1>0, <1>7 DEF ExecBegin, Goto, Jobs
  <2> QED
    BY <1>4, <2>1
<1>8. CASE ExecStepBlocked(w) \/ ExecStepAlready(w) \/ ExecStepSend(w)
  <2>1. pc[w] = "steps" /\ \E result : StepDone(w, result)
    BY <1>8 DEF ExecStepBlocked, ExecStepAlready, ExecStepSend, CallsTool
  <2>2. pc'[w] = "steps" /\ job'[w].rid = job[w].rid
    BY <1>0, <2>1 DEF StepDone, Jobs
  <2> QED
    BY <1>4, <2>1, <2>2
<1>9. CASE ExecEnd(w) \/ ExecRetry(w) \/ RecordExecution(w) \/ PersistPlan(w)
           \/ MarkExecuted(w) \/ RecordOutcome(w)
  BY <1>0, <1>4, <1>9 DEF ExecEnd, ExecRetry, RecordExecution, PersistPlan, MarkExecuted,
                          RecordOutcome, Goto
<1> QED
  BY <1>4, <1>5, <1>6, <1>7, <1>8, <1>9 DEF Advancing

\* The steps of w itself file in order.
LEMMA OwnFiling ==
  ASSUME FilingInv, NEW w \in Workers, Request(w) \/ Fault(w) \/ Step(w)
  PROVE  FilesInOrder(w)'
<1> SUFFICES ASSUME pc'[w] \in Filing PROVE FilesInOrder(w)'
  BY DEF FilesInOrder, Filing
<1>1. /\ DealInv /\ Advancing(w) /\ FilesInOrder(w)
      /\ job \in [Workers -> Jobs] /\ execLog \in [Runs -> Runs \cup {None}]
      /\ outcomeRow \in [Runs -> Runs \cup {None}]
  BY FilingSteps DEF FilingInv, DealInv, TypeInv, TypeOK
<1>2. pc[w] \in Serving /\ Target(w) \in Runs
  BY <1>1, AdvancingPc, ServingDeal
<1>3. Target(w)' = Target(w)
  BY <1>1, <1>2, AdvancingJob, AdvancingRuns, ServingDeal DEF Target
<1>4. job'[w].rid # None
  <2>1. CASE Resume(w)
    <3>1. pc[w] = "resuming" /\ job'[w].rid = runIds[job[w].deal]
      BY <1>1, <2>1 DEF Resume, Jobs
    <3> QED
      BY <1>1, <3>1 DEF DealInv, JobsOnDeal, JobOnDeal, Serving, PcValues
  <2> QED
    BY <1>1, <2>1, FilingSteps DEF FilesInOrder
<1>5. ASSUME pc'[w] \in {"plan_rows", "mark", "evaluating", "completing"}
      PROVE  execLog'[Target(w)] # None
  <2>1. CASE RecordExecution(w)
    <3>1. job[w].rid # None
      BY <1>1, <2>1 DEF RecordExecution, FilesInOrder, Filing
    <3> QED
      BY <1>1, <1>2, <2>1, <3>1 DEF RecordExecution
  <2> QED
    BY <1>1, <1>2, <1>5, <2>1, FilingSteps, FiledStays DEF FilesInOrder
<1>6. ASSUME pc'[w] = "completing" PROVE outcomeRow'[Target(w)] # None
  <2>1. RecordOutcome(w) /\ job[w].rid # None
    BY <1>1, <1>6, FilingSteps DEF RecordOutcome, FilesInOrder, Filing
  <2> QED
    BY <1>1, <1>2, <2>1 DEF RecordOutcome
<1> QED
  BY <1>3, <1>4, <1>5, <1>6 DEF FilesInOrder

\* FilingInv is inductive.
LEMMA NextFilingInv == FilingInv /\ [Next]_vars => FilingInv'
<1> SUFFICES ASSUME FilingInv, [Next]_vars
             PROVE  OutcomeHasExecution' /\ \A w \in Workers : FilesInOrder(w)'
  BY NextDealInv DEF FilingInv
<1>1. ASSUME NEW w \in Workers, Request(w) \/ Fault(w) \/ Step(w)
      PROVE  OutcomeHasExecution' /\ \A v \in Workers : FilesInOrder(v)'
  <2>1. OutcomeHasExecution'
    <3>1. CASE ~RecordOutcome(w)
      BY <1>1, <3>1, FiledStays DEF FilingInv, OutcomeHasExecution
    <3>2. CASE RecordOutcome(w)
      <4>1. /\ outcomeRow' = [outcomeRow EXCEPT ![Target(w)] =
                                IF job[w].rid = None THEN @ ELSE job[w].rid]
            /\ pc[w] = "evaluating"
        BY <3>2 DEF RecordOutcome
      <4>2. execLog[Target(w)] # None
        BY <4>1 DEF FilingInv, FilesInOrder
      <4> QED
        BY <1>1, <4>1, <4>2, FiledStays
           DEF FilingInv, OutcomeHasExecution, DealInv, TypeInv, TypeOK
    <3> QED
      BY <3>1, <3>2
  <2>2. ASSUME NEW v \in Workers, v # w PROVE FilesInOrder(v)'
    <3>1. /\ FilesInOrder(v) /\ DealInv
          /\ pc'[v] = pc[v] /\ job'[v] = job[v]
          /\ pc[v] \in Serving => Target(v)' = Target(v) /\ Target(v) \in Runs
      BY <1>1, <2>2, OthersKept, ServingDeal DEF FilingInv
    <3>2. pc[v] \in Filing => pc[v] \in Serving
      BY DEF Filing, Serving, PcValues
    <3> QED
      BY <1>1, <3>1, <3>2, FiledStays DEF FilesInOrder, Filing
  <2> QED
    BY <1>1, <2>1, <2>2, OwnFiling
<1>2. CASE Restart
  BY <1>2 DEF Restart, FilingInv, OutcomeHasExecution, FilesInOrder, Filing, tables
<1>3. CASE UNCHANGED vars
  BY <1>3 DEF vars, tables, memory, FilingInv, OutcomeHasExecution, FilesInOrder, Target
<1> QED
  BY <1>1, <1>2, <1>3 DEF Next

\* FilingInv holds at the start.
LEMMA InitFilingInv == Init => FilingInv
BY InitDealInv DEF Init, FilingInv, OutcomeHasExecution, FilesInOrder, Filing

\* An outcome is on record only for an action with an execution on record, whatever the
\* threads do to each other's plans (runner.py:507-572, execution_agent.py:63-72).
THEOREM OutcomesExecuted == Spec => []OutcomeHasExecution
<1>1. FilingInv => OutcomeHasExecution
  BY DEF FilingInv
<1> QED
  BY <1>1, InitFilingInv, NextFilingInv, PTL DEF Spec

OneRunEach == \A r, q \in Runs : DealOf[r] = DealOf[q] => r = q

CompletedFiled ==
  \A r \in Runs : runStatus[r] = "completed" => outcomeRow[r] # None /\ execLog[r] # None

\* Only Complete writes the final status.
LEMMA CompletesOnly ==
  ASSUME FilingInv, NEW w \in Workers, Request(w) \/ Fault(w) \/ Step(w), ~Complete(w),
         NEW r \in Runs, runStatus'[r] = "completed"
  PROVE  runStatus[r] = "completed"
<1>1. runStatus \in [Runs -> RunStatuses]
  BY DEF FilingInv, DealInv, TypeInv, TypeOK
<1>2. ASSUME NEW x, NEW st, st # "completed", runStatus' = WithStatus(x, st)
      PROVE  runStatus[r] = "completed"
  BY <1>1, <1>2 DEF WithStatus
<1>3. CASE UNCHANGED runStatus
  BY <1>3
<1>4. CASE Request(w)
  BY <1>1, <1>4 DEF Request, StartRun, Approve, Reject, Edit, Decide
<1>5. CASE ResumeFails(w)
  BY <1>1, <1>5 DEF ResumeFails
<1>6. CASE Fault(w)
  BY <1>2, <1>3, <1>5, <1>6 DEF Fault, AgentFail, ExecFail, ExecRetry, EvalFail, tables
<1>7. CASE \E plan \in {"pending_approval", "approved"} : PlanAction(w, plan)
  <2>1. PICK x, st : st # "completed" /\ runStatus' = WithStatus(x, st)
    BY <1>7 DEF PlanAction, Planned
  <2> QED
    BY <2>1, <1>2
<1>8. CASE FirstSnapshot(w) \/ SkipRun(w) \/ AgentStep(w) \/ MarkExecuted(w)
  BY <1>2, <1>3, <1>8 DEF FirstSnapshot, SkipRun, AgentStep, MarkExecuted
<1>9. CASE Step(w)
  BY <1>3, <1>7, <1>8, <1>9
     DEF Step, UpsertAction, UpsertPlan, SnapshotAction, ReturnStart, LoadCached, LoadSaved,
         StoreHydrated, LoadFails, DecisionFails, ApproveLoaded, ReviseLoaded,
         ResumeNothingLeft, Resume, ExecBegin, ExecStepBlocked, ExecStepAlready, ExecStepSend,
         StepDone, ExecEnd, RecordExecution, PersistPlan, RecordOutcome, tables
<1> QED
  BY <1>4, <1>6, <1>9

\* When each deal has one run, a run is completed only with an execution and an outcome of
\* its own, on any number of threads and wherever the process stops (runner.py:514-583).
THEOREM CompletedEvaluated ==
  ASSUME OneRunEach PROVE Spec => []CompletedRunHasOutcome
<1>1. Init => FilingInv /\ CompletedFiled
  BY InitFilingInv DEF Init, CompletedFiled
<1>2. FilingInv /\ CompletedFiled /\ [Next]_vars => FilingInv' /\ CompletedFiled'
  <2> SUFFICES ASSUME FilingInv, CompletedFiled, [Next]_vars PROVE CompletedFiled'
    BY NextFilingInv
  <2>1. ASSUME NEW w \in Workers, Request(w) \/ Fault(w) \/ Step(w),
               NEW r \in Runs, runStatus'[r] = "completed"
        PROVE  outcomeRow'[r] # None /\ execLog'[r] # None
    <3>1. CASE runStatus[r] = "completed"
      BY <2>1, <3>1, FiledStays DEF CompletedFiled
    <3>2. CASE Complete(w) /\ runStatus[r] # "completed"
      <4>1. pc[w] = "completing" /\ pc[w] \in Serving /\ DealInv
        BY <3>2 DEF Complete, Serving, PcValues, FilingInv
      <4>2. r = job[w].rid
        BY <2>1, <3>2 DEF Complete, WithStatus, FilingInv, DealInv, TypeInv, TypeOK
      <4>3. r = Target(w)
        BY <4>1, <4>2, ServingDeal, OrchestratorAssumption DEF OneRunEach, OnDeal
      <4>4. outcomeRow[r] # None /\ execLog[r] # None
        BY <4>1, <4>3 DEF FilingInv, FilesInOrder
      <4> QED
        BY <2>1, <4>4, FiledStays
    <3> QED
      BY <2>1, <3>1, <3>2, CompletesOnly
  <2>2. CASE Restart \/ UNCHANGED vars
    BY <2>2 DEF Restart, vars, tables, CompletedFiled
  <2> QED
    BY <2>1, <2>2 DEF Next, CompletedFiled
<1>3. FilingInv /\ CompletedFiled => CompletedRunHasOutcome
  BY DEF FilingInv, CompletedFiled, CompletedRunHasOutcome, DealInv, FiledOnOwnDeal, OneRunEach,
         TypeInv, TypeOK
<1> QED
  BY <1>1, <1>2, <1>3, PTL DEF Spec

-----------------------------------------------------------------------------
(***************************************************************************)
(* Every call of a tool is recorded, as long as the process runs and the   *)
(* execution agent does not raise.                                         *)
(***************************************************************************)
NoLoss == ~MayRestart /\ "execution" \notin Faults

\* The results of the steps to come are empty.
NoneAhead(w) ==
  pc[w] = "steps" => \A i \in Steps : i >= job[w].next => job[w].res[i] = "none"

\* A thread that is still to log the call of step i of the action of r.
Holds(w, r, i) ==
  pc[w] \in {"steps", "record"} /\ Target(w) = r /\ job[w].res[i] = "executed"

CallsInv == FilingInv /\ SendsAreRecorded /\ \A w \in Workers : NoneAhead(w)

\* What the step of w makes of the results it holds: it keeps them or logs them.
LEMMA HeldStays ==
  ASSUME NoLoss, CallsInv, NEW w \in Workers, Request(w) \/ Fault(w) \/ Step(w),
         NEW r \in Runs, NEW i \in Steps, Holds(w, r, i)
  PROVE  stepLog'[r][i] # "none" \/ Holds(w, r, i)'
<1>1. /\ FilingInv /\ DealInv /\ TypeInv /\ NoneAhead(w) /\ FilesInOrder(w)
      /\ pc \in [Workers -> PcValues] /\ job \in [Workers -> Jobs]
      /\ stepLog \in [Runs -> [Steps -> Results]]
  BY DEF CallsInv, FilingInv, DealInv, TypeInv, TypeOK
<1>2. CASE RecordExecution(w)
  <2>1. job[w].rid # None
    BY <1>1, <1>2 DEF RecordExecution, FilesInOrder, Filing
  <2> QED
    BY <1>1, <1>2, <2>1 DEF RecordExecution, Holds
<1>3. ASSUME Advancing(w), pc'[w] \in {"steps", "record"}, job'[w].res[i] = "executed"
      PROVE  Holds(w, r, i)'
  <2>1. pc[w] \in Serving
    BY DEF Holds, Serving, PcValues
  <2>2. Target(w)' = Target(w)
    BY <1>1, <1>3, <2>1, AdvancingJob, AdvancingRuns, ServingDeal DEF Target
  <2> QED
    BY <1>3, <2>2 DEF Holds
<1>4. CASE ExecEnd(w)
  BY <1>1, <1>3, <1>4 DEF ExecEnd, Advancing, Goto, Holds
<1>5. CASE ExecStepBlocked(w) \/ ExecStepAlready(w) \/ ExecStepSend(w)
  <2>1. pc[w] = "steps" /\ job[w].next \in Steps /\ \E result : StepDone(w, result)
    BY <1>5 DEF ExecStepBlocked, ExecStepAlready, ExecStepSend, CallsTool
  <2>2. i # job[w].next
    BY <1>1, <2>1 DEF NoneAhead, Holds, Steps
  <2>3. pc'[w] = "steps" /\ job'[w].res[i] = job[w].res[i]
    BY <1>1, <2>1, <2>2 DEF StepDone, Jobs
  <2> QED
    BY <1>3, <1>5, <2>3 DEF Advancing, Holds
<1>6. ~( \/ Request(w) \/ Fault(w) \/ FirstSnapshot(w) \/ SkipRun(w) \/ AgentStep(w)
         \/ \E plan \in {"pending_approval", "approved"} : PlanAction(w, plan)
         \/ UpsertAction(w) \/ UpsertPlan(w) \/ SnapshotAction(w) \/ ReturnStart(w)
         \/ LoadCached(w) \/ LoadSaved(w) \/ StoreHydrated(w) \/ LoadFails(w)
         \/ DecisionFails(w) \/ ApproveLoaded(w) \/ ReviseLoaded(w) \/ ResumeNothingLeft(w)
         \/ Resume(w) \/ ExecBegin(w) \/ PersistPlan(w) \/ MarkExecuted(w)
         \/ RecordOutcome(w) \/ Complete(w))
  <2>1. pc[w] \in {"steps", "record"}
    BY DEF Holds
  <2>2. ~Request(w) /\ ~Fault(w)
    BY <2>1 DEF NoLoss, Request, StartRun, Approve, Reject, Edit, Decide, Fault, AgentFail,
                ExecFail, ExecRetry, EvalFail
  <2> QED
    BY <2>1, <2>2
       DEF FirstSnapshot, SkipRun, AgentStep, PlanAction, UpsertAction, UpsertPlan,
           SnapshotAction, ReturnStart, LoadCached, LoadSaved, StoreHydrated, LoadFails,
           DecisionFails, ApproveLoaded, ReviseLoaded, ResumeNothingLeft, Resume, ExecBegin,
           PersistPlan, MarkExecuted, RecordOutcome, Complete
<1> QED
  BY <1>2, <1>4, <1>5, <1>6 DEF Step

\* Only a step that holds its result calls a tool, and the log forgets no step.
LEMMA CallsAreHeld ==
  ASSUME CallsInv, NEW w \in Workers, Request(w) \/ Fault(w) \/ Step(w),
         NEW r \in Runs, NEW i \in Steps
  PROVE  /\ sends'[r][i] > 0 => sends[r][i] > 0 \/ Holds(w, r, i)'
         /\ stepLog[r][i] # "none" => stepLog'[r][i] # "none"
<1>1. /\ DealInv /\ TypeInv /\ pc \in [Workers -> PcValues] /\ job \in [Workers -> Jobs]
      /\ stepLog \in [Runs -> [Steps -> Results]]
      /\ sends \in [Runs -> [Steps -> 0..SendCap]]
  BY DEF CallsInv, FilingInv, DealInv, TypeInv, TypeOK
<1>2. stepLog[r][i] # "none" => stepLog'[r][i] # "none"
  <2>1. CASE RecordExecution(w)
    BY <1>1, <2>1 DEF RecordExecution
  <2> QED
    BY <2>1, LogWrites
<1>3. CASE ExecStepSend(w)
  <2>1. /\ pc[w] = "steps" /\ job[w].next \in Steps /\ StepDone(w, "executed")
        /\ sends' = [sends EXCEPT ![Target(w)][job[w].next] = Bump(@)]
        /\ Advancing(w) /\ pc[w] \in Serving
    BY <1>3 DEF ExecStepSend, CallsTool, Advancing, Serving, PcValues
  <2>2. Target(w)' = Target(w)
    BY <1>1, <2>1, AdvancingJob, AdvancingRuns, ServingDeal DEF Target
  <2>3. pc'[w] = "steps" /\ job'[w].res[job[w].next] = "executed"
    BY <1>1, <2>1 DEF StepDone, Jobs
  <2>4. sends'[r][i] > 0 /\ ~(sends[r][i] > 0) => r = Target(w) /\ i = job[w].next
    BY <1>1, <2>1
  <2> QED
    BY <1>2, <2>2, <2>3, <2>4 DEF Holds
<1>4. CASE ~ExecStepSend(w)
  <2>1. sends' = sends
    BY <1>4, SendsWritten
  <2> QED
    BY <1>2, <2>1
<1> QED
  BY <1>3, <1>4

\* The results of the steps to come stay empty.
LEMMA AheadStays ==
  ASSUME CallsInv, NEW w \in Workers, Request(w) \/ Fault(w) \/ Step(w)
  PROVE  NoneAhead(w)'
<1> SUFFICES ASSUME pc'[w] = "steps", NEW i \in Steps, i >= job'[w].next
             PROVE  job'[w].res[i] = "none"
  BY DEF NoneAhead
<1>1. /\ FilingInv /\ TypeInv /\ NoneAhead(w)
      /\ pc \in [Workers -> PcValues] /\ job \in [Workers -> Jobs]
  BY DEF CallsInv, FilingInv, DealInv, TypeInv, TypeOK
<1>2. CASE ExecBegin(w)
  BY <1>1, <1>2 DEF ExecBegin, NoResults, Jobs
<1>3. CASE ExecStepBlocked(w) \/ ExecStepAlready(w) \/ ExecStepSend(w)
  <2>1. pc[w] = "steps" /\ job[w].next \in Steps /\ \E result : StepDone(w, result)
    BY <1>3 DEF ExecStepBlocked, ExecStepAlready, ExecStepSend, CallsTool
  <2>2. job'[w].next = job[w].next + 1
    BY <1>1, <2>1 DEF StepDone, Jobs
  <2>3. i # job[w].next /\ i >= job[w].next
    BY <2>1, <2>2 DEF Steps
  <2>4. job'[w].res[i] = job[w].res[i]
    BY <1>1, <2>1, <2>3 DEF StepDone, Jobs
  <2> QED
    BY <1>1, <2>1, <2>3, <2>4 DEF NoneAhead
<1>4. Advancing(w) /\ ~Resume(w)
  <2>1. "steps" # "executing" /\ pc'[w] \in Filing
    BY DEF Filing
  <2>2. Advancing(w)
    BY <1>1, <2>1, FilingSteps
  <2>3. ~Resume(w)
    BY <1>1 DEF Resume, Goto
  <2> QED
    BY <2>2, <2>3
<1>5. ~( \/ FirstSnapshot(w) \/ AgentStep(w) \/ UpsertAction(w) \/ UpsertPlan(w)
         \/ \E plan \in {"pending_approval", "approved"} : PlanAction(w, plan)
         \/ SnapshotAction(w) \/ ApproveLoaded(w) \/ ExecEnd(w) \/ ExecRetry(w)
         \/ RecordExecution(w) \/ PersistPlan(w) \/ MarkExecuted(w) \/ RecordOutcome(w))
  BY <1>1 DEF FirstSnapshot, AgentStep, UpsertAction, UpsertPlan, PlanAction, SnapshotAction,
              ApproveLoaded, ExecEnd, ExecRetry, RecordExecution, PersistPlan, MarkExecuted,
              RecordOutcome, Goto
<1> QED
  BY <1>2, <1>3, <1>4, <1>5 DEF Advancing

\* CallsInv is inductive while nothing is lost.
LEMMA NextCallsInv ==
  ASSUME NoLoss PROVE CallsInv /\ [Next]_vars => CallsInv'
<1> SUFFICES ASSUME CallsInv, [Next]_vars
             PROVE  SendsAreRecorded' /\ \A w \in Workers : NoneAhead(w)'
  BY NextFilingInv DEF CallsInv
<1>1. ASSUME NEW w \in Workers, Request(w) \/ Fault(w) \/ Step(w)
      PROVE  SendsAreRecorded' /\ \A v \in Workers : NoneAhead(v)'
  <2>1. ASSUME NEW v \in Workers, v # w
        PROVE  /\ pc'[v] = pc[v] /\ job'[v] = job[v]
               /\ pc[v] \in {"steps", "record"} => Target(v)' = Target(v)
    BY <1>1, <2>1, OthersKept DEF CallsInv, FilingInv, Serving, PcValues
  <2>2. ASSUME NEW v \in Workers PROVE NoneAhead(v)'
    <3>1. CASE v = w
      BY <1>1, <3>1, AheadStays
    <3>2. CASE v # w
      BY <2>1, <3>2 DEF NoneAhead, CallsInv
    <3> QED
      BY <3>1, <3>2
  <2>3. ASSUME NEW r \in Runs, NEW i \in Steps, sends'[r][i] > 0
        PROVE  stepLog'[r][i] # "none" \/ \E v \in Workers : Holds(v, r, i)'
    <3>1. CASE Holds(w, r, i)'
      BY <3>1
    <3>2. CASE stepLog[r][i] # "none"
      BY <1>1, <3>2, CallsAreHeld
    <3>3. ASSUME NEW v \in Workers, Holds(v, r, i)
          PROVE  stepLog'[r][i] # "none" \/ Holds(v, r, i)'
      <4>1. CASE v = w
        BY <1>1, <3>3, <4>1, HeldStays
      <4>2. CASE v # w
        BY <2>1, <3>3, <4>2 DEF Holds
      <4> QED
        BY <4>1, <4>2
    <3>4. sends[r][i] > 0 => stepLog[r][i] # "none" \/ \E v \in Workers : Holds(v, r, i)
      BY DEF CallsInv, SendsAreRecorded, Holds
    <3> QED
      BY <1>1, <2>3, <3>1, <3>2, <3>3, <3>4, CallsAreHeld
  <2> QED
    BY <2>2, <2>3 DEF SendsAreRecorded, Holds
<1>2. CASE UNCHANGED vars
  BY <1>2 DEF vars, tables, memory, CallsInv, SendsAreRecorded, NoneAhead, Target
<1> QED
  BY <1>1, <1>2 DEF Next, NoLoss, Restart

\* No call of a tool goes unrecorded while the process runs and the execution agent does
\* not raise: it is in the log, or a thread that is still to write the log holds its result,
\* whatever the other threads do to the envelope they share (runner.py:495-516).
THEOREM SendsRecorded ==
  ASSUME NoLoss PROVE Spec => []SendsAreRecorded
<1>1. Init => CallsInv
  BY InitFilingInv DEF Init, CallsInv, SendsAreRecorded, NoneAhead
<1>2. CallsInv => SendsAreRecorded
  BY DEF CallsInv
<1> QED
  BY <1>1, <1>2, NextCallsInv, PTL DEF Spec

=============================================================================
