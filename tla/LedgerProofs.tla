----------------------------- MODULE LedgerProofs -----------------------------
(***************************************************************************)
(* The theorem that the engine keeps the promises of OutreachLedger as     *)
(* long as requests that overlap are about different deals: for any number *)
(* of threads, deals, runs and steps, wherever the process stops and       *)
(* whatever is raised and retried.                                         *)
(*                                                                         *)
(* That a call has its grant and an entry of the log its call is known     *)
(* from DealProofs and ExecutionProofs.  What is left is that no step is   *)
(* sent while the log says it was executed: from the moment a request      *)
(* takes the log's statuses over, its plan says so as well, or the output  *)
(* policy blocks the step, and then it does so in every attempt.           *)
(*                                                                         *)
(* The last two sections add the gate and the text: where each deal has    *)
(* one run, a tool is called only while the row of its action says         *)
(* approved, and with the text that the row shows.                         *)
(***************************************************************************)
EXTENDS ExecutionProofs

\* Requests that overlap are about different deals.
Apart ==
  \A v, w \in Workers :
    v # w /\ pc[v] # "idle" /\ pc[w] # "idle" => DealOf[job[v].id] # DealOf[job[w].id]

LogFiled == \A r \in Runs, i \in Steps : stepLog[r][i] # "none" => execLog[r] # None

Running == {"executing", "steps"}

\* The plan of a request that executes knows what the log knows.
KnowsLog(w) ==
  pc[w] \in Running =>
    \A i \in Steps : stepLog[Target(w)][i] = "executed" =>
      envelope[job[w].env].stat[i] = "executed" \/ envelope[job[w].env].body[i] \in Flagged

LogInv == LogFiled /\ \A w \in Workers : KnowsLog(w)

LedgerInv == SentInv /\ DealInv /\ LogInv

\* An execution and its steps are logged together or, without a run id, not at all.
LEMMA LogFiledKept ==
  ASSUME LedgerInv, NEW w \in Workers, Request(w) \/ Fault(w) \/ Step(w)
  PROVE  LogFiled'
<1>1. CASE ~RecordExecution(w)
  BY <1>1, LogWrites DEF LedgerInv, LogInv, LogFiled
<1>2. CASE RecordExecution(w)
  <2>1. pc[w] \in Serving
    BY <1>2 DEF RecordExecution, Serving, PcValues
  <2>2. /\ Target(w) \in Runs /\ LogFiled
        /\ execLog \in [Runs -> Runs \cup {None}]
        /\ stepLog \in [Runs -> [Steps -> Results]]
    BY <2>1, ServingSent DEF LedgerInv, LogInv, SentInv, TypeInv, TypeOK
  <2>3. CASE job[w].rid = None
    BY <1>2, <2>2, <2>3 DEF RecordExecution, LogFiled
  <2>4. CASE job[w].rid # None
    BY <1>2, <2>2, <2>4 DEF RecordExecution, LogFiled
  <2> QED
    BY <2>3, <2>4
<1> QED
  BY <1>1, <1>2

\* Which steps lead into the execution, or stay in it.
LEMMA StaysRunning ==
  ASSUME LedgerInv, NEW w \in Workers, Request(w) \/ Fault(w) \/ Step(w),
         pc'[w] \in Running
  PROVE  \/ Resume(w)
         \/ pc[w] \in Running /\ UNCHANGED <<envelope, stepLog>> /\ job'[w].env = job[w].env
         \/ ExecStepBlocked(w) \/ ExecStepAlready(w) \/ ExecStepSend(w)
<1> USE DEF Running
<1>0. SentInv /\ TypeInv /\ pc \in [Workers -> PcValues] /\ job \in [Workers -> Jobs]
  BY DEF LedgerInv, SentInv, TypeInv, TypeOK
<1>1. CASE Request(w)
  BY <1>0, <1>1 DEF Request, StartRun, Approve, Reject, Edit, Decide, Goto
<1>2. CASE ExecBegin(w)
  BY <1>0, <1>2 DEF ExecBegin, memory, tables, Jobs
<1>3. CASE ExecRetry(w)
  BY <1>3 DEF ExecRetry, memory, tables
<1>4. CASE AgentFail(w) \/ ExecFail(w) \/ EvalFail(w)
  BY <1>0, <1>4 DEF AgentFail, ExecFail, EvalFail, ResumeFails, EndRequest, Goto
<1>5. CASE \/ FirstSnapshot(w) \/ SkipRun(w) \/ AgentStep(w) \/ UpsertAction(w) \/ UpsertPlan(w)
           \/ \E plan \in {"pending_approval", "approved"} : PlanAction(w, plan)
           \/ SnapshotAction(w) \/ ReturnStart(w)
  BY <1>0, <1>5 DEF FirstSnapshot, SkipRun, AgentStep, UpsertAction, UpsertPlan, PlanAction,
                    SnapshotAction, ReturnStart, EndRequest, Goto
<1>6. CASE \/ LoadCached(w) \/ LoadSaved(w) \/ StoreHydrated(w) \/ LoadFails(w)
           \/ DecisionFails(w) \/ ApproveLoaded(w) \/ ReviseLoaded(w) \/ ResumeNothingLeft(w)
  BY <1>0, <1>6 DEF LoadCached, LoadSaved, StoreHydrated, LoadFails, DecisionFails,
                    ApproveLoaded, ReviseLoaded, ResumeNothingLeft, EndRequest, Goto
<1>7. CASE \/ ExecEnd(w) \/ RecordExecution(w) \/ PersistPlan(w) \/ MarkExecuted(w)
           \/ RecordOutcome(w) \/ Complete(w)
  BY <1>0, <1>7 DEF ExecEnd, RecordExecution, PersistPlan, MarkExecuted, RecordOutcome,
                    Complete, EndRequest, Goto
<1> QED
  BY <1>1, <1>2, <1>3, <1>4, <1>5, <1>6, <1>7 DEF Fault, Step

\* A request takes the log's statuses over when it resumes.
LEMMA ResumeKnowsLog ==
  ASSUME LedgerInv, NEW w \in Workers, Resume(w)
  PROVE  KnowsLog(w)'
<1> DEFINE env == envelope[job[w].env]
           new == [env EXCEPT !.plan = "approved", !.stat = ResumedStat(env)]
<1>1. pc[w] \in Serving
  BY DEF Resume, Serving, PcValues
<1>2. /\ job[w].env \in EnvelopeIds /\ env \in EnvelopeValues /\ env.run \in Runs
      /\ envelope \in [EnvelopeIds -> EnvelopeValues \cup {NoEnvelope}] /\ LogFiled
  BY <1>1, ServingSent DEF LedgerInv, LogInv, SentInv, TypeInv, TypeOK, Target
<1>3. envelope' = [envelope EXCEPT ![job[w].env] = new] /\ stepLog' = stepLog
  BY <1>2 DEF Resume, ResumedEnvelopes, tables
<1>4. job'[w].env = job[w].env
  BY DEF Resume, LedgerInv, SentInv, TypeInv, TypeOK, Jobs
<1>5. new.run = env.run /\ new.stat = ResumedStat(env)
  BY <1>2 DEF EnvelopeValues
<1>6. \A i \in Steps : stepLog[env.run][i] = "executed" => ResumedStat(env)[i] = "executed"
  BY <1>2 DEF LogFiled, ResumedStat
<1> HIDE DEF new, env
<1>7. envelope'[job'[w].env] = new
  BY <1>2, <1>3, <1>4
<1> QED
  BY <1>3, <1>5, <1>6, <1>7 DEF KnowsLog, Target

\* A step of the execution is marked failed only where the output policy blocks it.
LEMMA StepKnowsLog ==
  ASSUME LedgerInv, NEW w \in Workers,
         ExecStepBlocked(w) \/ ExecStepAlready(w) \/ ExecStepSend(w)
  PROVE  KnowsLog(w)'
<1> DEFINE env == envelope[job[w].env]
           i == job[w].next
<1>1. PICK result \in {"executed", "failed"} :
        /\ StepDone(w, result) /\ pc[w] = "steps" /\ i \in Steps
        /\ result = "failed" => env.body[i] \in Flagged
  BY DEF ExecStepBlocked, ExecStepAlready, ExecStepSend, CallsTool, Blocked
<1> DEFINE new == [env EXCEPT !.stat = [env.stat EXCEPT ![i] = result]]
<1>2. pc[w] \in Serving
  BY <1>1 DEF Serving, PcValues
<1>3. /\ job[w].env \in EnvelopeIds /\ env \in EnvelopeValues
      /\ envelope \in [EnvelopeIds -> EnvelopeValues \cup {NoEnvelope}]
      /\ job[w] \in Jobs /\ job \in [Workers -> Jobs] /\ TypeInv
  BY <1>2, ServingSent DEF LedgerInv, SentInv, TypeInv, TypeOK
<1>4. envelope' = [envelope EXCEPT ![job[w].env] = new] /\ stepLog' = stepLog
  BY <1>1, <1>3 DEF StepDone, tables, EnvelopeValues
<1>5. job'[w].env = job[w].env
  BY <1>1, <1>3 DEF StepDone, Jobs
<1>6. /\ new.run = env.run /\ new.body = env.body
      /\ \A x \in Steps : new.stat[x] = IF x = i THEN result ELSE env.stat[x]
  BY <1>1, <1>3 DEF EnvelopeValues
<1>7. \A x \in Steps : stepLog[env.run][x] = "executed" =>
        env.stat[x] = "executed" \/ env.body[x] \in Flagged
  BY <1>1 DEF LedgerInv, LogInv, KnowsLog, Running, Target
<1> HIDE DEF new, env
<1>8. envelope'[job'[w].env] = new
  BY <1>3, <1>4, <1>5 DEF env
<1>9. \A x \in Steps : stepLog[env.run][x] = "executed" =>
        new.stat[x] = "executed" \/ new.body[x] \in Flagged
  BY <1>1, <1>6, <1>7
<1> QED
  BY <1>4, <1>6, <1>8, <1>9 DEF KnowsLog, Target

\* A step changes no envelope that another request holds and its own does not.
LEMMA EnvelopeKept ==
  ASSUME DealInv, NEW w \in Workers, Request(w) \/ Fault(w) \/ Step(w),
         NEW v \in Workers \ {w}, pc[v] \in Serving, job[w].env # job[v].env
  PROVE  envelope'[job[v].env] = envelope[job[v].env]
<1> SUFFICES ASSUME NEW e, e = job[v].env
             PROVE  envelope'[e] = envelope[e]
  OBVIOUS
<1>0. /\ e \in EnvelopeIds /\ e \notin FreshEnvelopes /\ job[w].env # e
      /\ envelope \in [EnvelopeIds -> EnvelopeValues \cup {NoEnvelope}]
  BY ServingDeal DEF FreshEnvelopes, Held, DealInv, TypeInv, TypeOK
<1>1. ASSUME NEW x \in FreshEnvelopes, NEW new, envelope' = [envelope EXCEPT ![x] = new]
      PROVE  envelope'[e] = envelope[e]
  BY <1>0, <1>1
<1>2. CASE Request(w)
  <2>1. ASSUME NEW d \in Deals, NEW kind \in Workflows, StartRun(w, d, kind)
        PROVE  envelope'[e] = envelope[e]
    BY <1>1, <2>1 DEF StartRun
  <2>2. ASSUME NEW kind, NEW a, NEW scope, NEW text, Decide(w, kind, a, scope, text)
        PROVE  envelope'[e] = envelope[e]
    BY <2>2 DEF Decide
  <2> QED
    BY <1>2, <2>1, <2>2 DEF Request, Approve, Reject, Edit
<1>3. CASE LoadCached(w) \/ StoreHydrated(w)
  BY <1>3 DEF LoadCached, StoreHydrated, memory
<1>4. CASE LoadSaved(w)
  BY <1>1, <1>4 DEF LoadSaved
<1>5. CASE Advancing(w)
  <2>1. ASSUME NEW new, envelope' = [envelope EXCEPT ![job[w].env] = new]
        PROVE  envelope'[e] = envelope[e]
    BY <1>0, <2>1
  <2>2. ASSUME NEW plan, PlanAction(w, plan)
        PROVE  envelope'[e] = envelope[e]
    BY <2>1, <2>2 DEF PlanAction, Planned
  <2>3. CASE ApproveLoaded(w)
    BY <2>1, <2>3 DEF ApproveLoaded
  <2>4. CASE Resume(w)
    BY <2>1, <2>4 DEF Resume, ResumedEnvelopes
  <2>5. ASSUME NEW result, StepDone(w, result)
        PROVE  envelope'[e] = envelope[e]
    BY <2>1, <2>5 DEF StepDone
  <2>6. CASE ExecStepBlocked(w) \/ ExecStepAlready(w) \/ ExecStepSend(w)
    BY <2>5, <2>6 DEF ExecStepBlocked, ExecStepAlready, ExecStepSend
  <2>7. CASE \/ FirstSnapshot(w) \/ AgentStep(w) \/ UpsertAction(w) \/ UpsertPlan(w)
             \/ SnapshotAction(w) \/ ExecBegin(w) \/ ExecEnd(w) \/ ExecRetry(w)
             \/ RecordExecution(w) \/ PersistPlan(w) \/ MarkExecuted(w) \/ RecordOutcome(w)
    BY <2>7 DEF FirstSnapshot, AgentStep, UpsertAction, UpsertPlan, SnapshotAction, ExecBegin,
       ExecEnd, ExecRetry, RecordExecution, PersistPlan, MarkExecuted, RecordOutcome, memory
  <2> QED
    BY <1>5, <2>2, <2>3, <2>4, <2>6, <2>7 DEF Advancing
<1>6. CASE Ending(w)
  <2>1. ASSUME NEW de, NEW es, EndRequest(w, de, es), es[e] = envelope[e]
        PROVE  envelope'[e] = envelope[e]
    BY <1>0, <2>1 DEF EndRequest
  <2>2. CASE ReviseLoaded(w)
    <3>1. [envelope EXCEPT ![job[w].env] = RevisedPlan(w)][e] = envelope[e]
      BY <1>0
    <3> QED
      BY <2>1, <2>2, <3>1 DEF ReviseLoaded
  <2>3. CASE ResumeNothingLeft(w)
    <3>1. ResumedEnvelopes(w)[e] = envelope[e]
      BY <1>0 DEF ResumedEnvelopes
    <3> QED
      BY <2>1, <2>3, <3>1 DEF ResumeNothingLeft
  <2>4. CASE ~ReviseLoaded(w) /\ ~ResumeNothingLeft(w)
    BY <1>6, <2>1, <2>4 DEF Ending, SkipRun, AgentFail, ReturnStart, LoadFails, DecisionFails,
       ExecFail, EvalFail, ResumeFails, Complete
  <2> QED
    BY <2>2, <2>3, <2>4
<1> QED
  BY <1>2, <1>3, <1>4, <1>5, <1>6 DEF Fault, Step, Advancing, Ending

\* What a request works on stays as it is while another is served, as that one is about
\* another deal.
LEMMA OtherRequests ==
  ASSUME Apart, DealInv, NEW w \in Workers, Request(w) \/ Fault(w) \/ Step(w),
         NEW v \in Workers \ {w}, pc[v] # "idle"
  PROVE  /\ pc'[v] = pc[v] /\ job'[v] = job[v] /\ job[v].id \in Runs
         /\ pc[w] \in Serving => job[w].deal # DealOf[job[v].id]
         /\ pc[v] \in Serving =>
              /\ envelope'[job[v].env] = envelope[job[v].env]
              /\ stepLog'[Target(v)] = stepLog[Target(v)]
<1>1. pc'[v] = pc[v] /\ job'[v] = job[v]
  BY OthersKept
<1>2. job[v].id \in Runs /\ job[w].env # None => pc[w] \in Serving
  BY DEF DealInv, TypeInv, TypeOK, JobsOK, JobOK, Serving
<1>3. job[v].id \in Runs
  BY DEF DealInv, TypeInv, JobsOK, JobOK
<1>4. ASSUME pc[w] \in Serving
      PROVE  job[w].deal # DealOf[job[v].id] /\ DealOf[Target(w)] = job[w].deal
  BY <1>4, ServingDeal DEF Apart, Serving
<1>5. ASSUME pc[v] \in Serving
      PROVE  /\ Target(v) \in Runs /\ DealOf[Target(v)] = DealOf[job[v].id]
             /\ job[v].env \in EnvelopeIds
  BY <1>5, ServingDeal
<1>6. ASSUME pc[v] \in Serving
      PROVE  envelope'[job[v].env] = envelope[job[v].env]
  <2>1. job[w].env # job[v].env
    BY <1>2, <1>3, <1>4, <1>5, <1>6, OrchestratorAssumption DEF Target
  <2> QED
    BY <1>6, <2>1, EnvelopeKept
<1>7. ASSUME pc[v] \in Serving
      PROVE  stepLog'[Target(v)] = stepLog[Target(v)]
  <2>1. CASE ~RecordExecution(w)
    BY <2>1, LogWrites
  <2>2. CASE RecordExecution(w)
    <3>1. pc[w] \in Serving
      BY <2>2 DEF RecordExecution, Serving, PcValues
    <3>2. Target(v) # Target(w)
      BY <1>4, <1>5, <1>7, <3>1
    <3> QED
      BY <1>5, <1>7, <2>2, <3>2 DEF RecordExecution, DealInv, TypeInv, TypeOK
  <2> QED
    BY <2>1, <2>2
<1> QED
  BY <1>1, <1>3, <1>4, <1>6, <1>7

\* LedgerInv is inductive for requests about different deals.
LEMMA NextLedgerInv == Apart /\ LedgerInv /\ [Next]_vars => LedgerInv'
<1> SUFFICES ASSUME Apart, LedgerInv, [Next]_vars PROVE LogInv'
  BY NextSentInv, NextDealInv DEF LedgerInv
<1>1. ASSUME NEW w \in Workers, Request(w) \/ Fault(w) \/ Step(w)
      PROVE  LogInv'
  <2>1. LogFiled'
    BY <1>1, LogFiledKept
  <2>2. KnowsLog(w)'
    <3>1. CASE pc'[w] \notin Running
      BY <3>1 DEF KnowsLog
    <3>2. CASE pc[w] \in Running /\ UNCHANGED <<envelope, stepLog>> /\ job'[w].env = job[w].env
      BY <3>2 DEF LedgerInv, LogInv, KnowsLog, Target
    <3> QED
      BY <1>1, <3>1, <3>2, StaysRunning, ResumeKnowsLog, StepKnowsLog
  <2>3. ASSUME NEW v \in Workers \ {w} PROVE KnowsLog(v)'
    <3>1. pc'[v] = pc[v]
      BY <1>1, OthersKept DEF LedgerInv
    <3>2. CASE pc[v] \notin Running
      BY <3>1, <3>2 DEF KnowsLog
    <3>3. CASE pc[v] \in Running
      <4>1. pc[v] \in Serving /\ pc[v] # "idle"
        BY <3>3 DEF Running, Serving, PcValues
      <4>2. /\ job'[v] = job[v] /\ envelope'[job[v].env] = envelope[job[v].env]
            /\ stepLog'[Target(v)] = stepLog[Target(v)]
        BY <1>1, <4>1, OtherRequests DEF LedgerInv
      <4> QED
        BY <3>1, <4>2 DEF LedgerInv, LogInv, KnowsLog, Target
    <3> QED
      BY <3>2, <3>3
  <2> QED
    BY <2>1, <2>2, <2>3 DEF LogInv
<1>2. CASE Restart
  BY <1>2 DEF Restart, LedgerInv, LogInv, LogFiled, KnowsLog, Running, tables
<1>3. CASE UNCHANGED vars
  BY <1>3 DEF vars, tables, memory, LedgerInv, LogInv, LogFiled, KnowsLog, Target
<1> QED
  BY <1>1, <1>2, <1>3 DEF Next

\* LedgerInv holds at the start.
LEMMA InitLedgerInv == Init => LedgerInv
<1> SUFFICES ASSUME Init PROVE LedgerInv
  OBVIOUS
<1>1. SentInv
  BY InitTypeInv DEF Init, SentInv, ExecutedMeansSent, SentFor, NoStepRows, NoResults
<1>2. DealInv
  BY InitDealInv
<1>3. LogInv
  BY DEF Init, LogInv, LogFiled, KnowsLog, Running, NoResults
<1> QED
  BY <1>1, <1>2, <1>3 DEF LedgerInv

\* A call of a tool is one the ledger allows.
LEMMA SendsAsPromised ==
  ASSUME LedgerInv, NEW w \in Workers, ExecStepSend(w)
  PROVE  \E r \in Runs, i \in Steps : stepLog[r][i] # "executed" /\ Ledger!Send(r, i)
<1> DEFINE r == Target(w)
           i == job[w].next
<1>1. pc[w] = "steps" /\ i \in Steps /\ pc[w] \in Serving
  BY DEF ExecStepSend, CallsTool, Serving, PcValues
<1>2. r \in Runs /\ DealOf[job[w].id] = DealOf[r] /\ job[w].id \in granted
  BY <1>1, ServingDeal DEF LedgerInv, DealInv, JobsOnDeal, JobOnDeal, Resuming
<1>3. stepLog[r][i] # "executed"
  BY <1>1 DEF ExecStepSend, CallsTool, Blocked, LedgerInv, LogInv, KnowsLog, Running
<1>4. /\ sends' = [sends EXCEPT ![r][i] = IF @ < SendCap THEN @ + 1 ELSE @]
      /\ UNCHANGED <<stepLog, granted>>
  BY DEF ExecStepSend, StepDone, Bump, tables
<1>5. Ledger!Send(r, i)
  BY <1>2, <1>3, <1>4 DEF Ledger!Send, Ledger!Bump
<1> QED
  BY <1>1, <1>2, <1>3, <1>5

\* What is logged is what was done, and the results of one execution.
LEMMA RecordsAsPromised ==
  ASSUME LedgerInv, NEW w \in Workers, RecordExecution(w)
  PROVE  \/ UNCHANGED Ledger!vars
         \/ \E r \in Runs, results \in [Steps -> Ledger!Results] : Ledger!Record(r, results)
<1> DEFINE r == Target(w)
<1>1. pc[w] \in Serving /\ pc[w] \in Executing
  BY DEF RecordExecution, Serving, PcValues, Executing
<1>2. r \in Runs /\ SentFor(r, job[w].res) /\ job[w].res \in [Steps -> Results]
  BY <1>1, ServingSent, SentParts
     DEF LedgerInv, SentInv, ResultsSent, TypeInv, TypeOK, Jobs
<1>3. UNCHANGED <<sends, granted>>
  BY DEF RecordExecution
<1>4. CASE job[w].rid = None
  BY <1>3, <1>4 DEF RecordExecution, Ledger!vars
<1>5. CASE job[w].rid # None
  <2>1. stepLog' = [stepLog EXCEPT ![r] = [i \in Steps |-> IF job[w].res[i] = "none" THEN @[i]
                                                         ELSE job[w].res[i]]]
    BY <1>5 DEF RecordExecution
  <2>2. Ledger!Record(r, job[w].res)
    BY <1>2, <1>3, <2>1 DEF Ledger!Record, SentFor
  <2> QED
    BY <1>2, <2>2 DEF Ledger!Results, Results
<1> QED
  BY <1>4, <1>5

\* Every other step lets an action through or does nothing the ledger knows of.
LEMMA OthersAsPromised ==
  ASSUME LedgerInv, NEW w \in Workers, Request(w) \/ Fault(w) \/ Step(w),
         ~RecordExecution(w), ~ExecStepSend(w)
  PROVE  UNCHANGED Ledger!vars \/ \E r \in Runs : Ledger!Grant(r)
<1>1. UNCHANGED stepLog
  BY LogWrites
<1>2. UNCHANGED sends
  BY SendsWritten
<1>3. UNCHANGED granted \/ \E r \in Runs : granted' = granted \cup {r}
  <2>1. CASE Request(w)
    BY <2>1 DEF Request, StartRun, Approve, Reject, Edit, Decide
  <2>2. CASE Fault(w)
    BY <2>2 DEF Fault, AgentFail, ExecFail, ExecRetry, EvalFail, ResumeFails
  <2>3. CASE \E plan \in {"pending_approval", "approved"} : PlanAction(w, plan)
    <3>1. job[w].id \in Runs
      BY <2>3, ServingDeal DEF PlanAction, Serving, PcValues, LedgerInv
    <3> QED
      BY <2>3, <3>1 DEF PlanAction, Planned
  <2>4. CASE Step(w)
    BY <2>3, <2>4
       DEF Step, FirstSnapshot, SkipRun, AgentStep, UpsertAction, UpsertPlan,
           SnapshotAction, ReturnStart, LoadCached, LoadSaved, StoreHydrated, LoadFails,
           DecisionFails, ApproveLoaded, ReviseLoaded, ResumeNothingLeft, Resume,
           ExecBegin, ExecStepBlocked, ExecStepAlready, StepDone, ExecEnd, PersistPlan,
           MarkExecuted, RecordOutcome, Complete
  <2> QED
    BY <2>1, <2>2, <2>4
<1> QED
  BY <1>1, <1>2, <1>3 DEF Ledger!vars, Ledger!Grant

\* Every step of the engine is a step of the ledger, or none.
LEMMA StepsAsPromised == LedgerInv /\ [Next]_vars => [Ledger!Next]_Ledger!vars
<1> SUFFICES ASSUME LedgerInv, [Next]_vars PROVE [Ledger!Next]_Ledger!vars
  OBVIOUS
<1>1. ASSUME NEW w \in Workers, Request(w) \/ Fault(w) \/ Step(w)
      PROVE  [Ledger!Next]_Ledger!vars
  BY <1>1, SendsAsPromised, RecordsAsPromised, OthersAsPromised DEF Ledger!Next
<1>2. CASE Restart \/ UNCHANGED vars
  BY <1>2 DEF Restart, vars, tables, Ledger!vars
<1> QED
  BY <1>1, <1>2 DEF Next

\* As long as requests that overlap are about different deals, the engine does only what
\* OutreachLedger allows, crashes, faults and retries included: it calls tools on deals
\* where an action was let through, never for a step that the log says was executed, and
\* logs only calls that were made (runner.py:480-517, execution_agent.py:77-208, service.py:85-107).
THEOREM LedgerKept ==
  Spec /\ []Apart => ImplementsLedger
<1>1. Init => Ledger!Init
  BY DEF Init, Ledger!Init, NoResults
<1> QED
  BY <1>1, InitLedgerInv, NextLedgerInv, StepsAsPromised, PTL
     DEF Spec, ImplementsLedger, Ledger!Spec

\* As long as requests that overlap are about different deals, the tool of a step is not
\* called while the log says that the step was executed, whatever else was approved, edited or lost
\* (runner.py:480-493, execution_agent.py:167-173).
THEOREM LoggedIsNotSent ==
  Spec /\ []Apart => LoggedStepsStaySent
<1> DEFINE Stays == \A r \in Runs, i \in Steps :
                      stepLog[r][i] = "executed" => sends'[r][i] = sends[r][i]
<1>1. LedgerInv /\ [Next]_vars => [Stays]_vars
  <2> SUFFICES ASSUME LedgerInv, [Next]_vars, NEW r \in Runs, NEW i \in Steps,
                      stepLog[r][i] = "executed"
               PROVE  sends'[r][i] = sends[r][i]
    OBVIOUS
  <2>1. [Ledger!Next]_Ledger!vars
    BY StepsAsPromised
  <2>2. sends \in [Runs -> [Steps -> 0..SendCap]]
    BY DEF LedgerInv, SentInv, TypeInv, TypeOK
  <2> QED
    BY <2>1, <2>2 DEF Ledger!Next, Ledger!Grant, Ledger!Send, Ledger!Record, Ledger!vars
<1> QED
  BY <1>1, InitLedgerInv, NextLedgerInv, PTL DEF Spec, LoggedStepsStaySent

-----------------------------------------------------------------------------
(***************************************************************************)
(* The gate: with one run for each deal, what is executed is an action     *)
(* whose row says approved.                                                *)
(***************************************************************************)
RowApproved(w) == actionRow[job[w].id].status = "approved"

\* The queue knows an action before its row is written.
QueueFiled ==
  \A r \in queue : \/ actionRow[r].status # "none"
                   \/ \E w \in Workers : pc[w] = "action_row" /\ job[w].id = r

\* A request that is to execute has an approved row, since it decided or since the
\* plan of a workflow without a gate was filed.
PassedGate(w) ==
  /\ pc[w] = "action_row" =>
       /\ envelope[job[w].env].plan # "none"
       /\ job[w].kind = "crm_sync" => envelope[job[w].env].plan = "approved"
  /\ pc[w] \in {"step_rows", "action_snapshot"} /\ job[w].kind = "crm_sync" => RowApproved(w)
  /\ pc[w] \in {"decided", "hydrated", "loaded"} /\ job[w].kind = "approve" => RowApproved(w)
  /\ pc[w] \in {"resuming", "executing", "steps"} => RowApproved(w)

GateInv == DealInv /\ QueueFiled /\ \A w \in Workers : PassedGate(w)

\* Only a request finds its thread idle.
LEMMA StepsAreBusy ==
  ASSUME DealInv, NEW w \in Workers, Step(w) \/ Fault(w)
  PROVE  pc[w] # "idle"
<1>1. CASE Advancing(w)
  BY <1>1, AdvancingPc DEF Serving
<1>2. CASE Ending(w)
  BY <1>2 DEF Ending, SkipRun, AgentFail, ReturnStart, LoadFails, DecisionFails,
     ReviseLoaded, ResumeNothingLeft, ExecFail, EvalFail, Complete
<1>3. CASE LoadCached(w) \/ LoadSaved(w) \/ StoreHydrated(w)
  BY <1>3 DEF LoadCached, LoadSaved, StoreHydrated
<1> QED
  BY <1>1, <1>2, <1>3 DEF Step, Fault, Advancing, Ending

\* What a decision makes of the row of its action: it has one.
LEMMA DecidePasses ==
  ASSUME Apart', GateInv, NEW w \in Workers, Request(w),
         NEW kind \in {"approve", "reject", "edit"},
         NEW a \in Runs, NEW scope, NEW text, Decide(w, kind, a, scope, text)
  PROVE  QueueFiled' /\ PassedGate(w)' /\ actionRow[a].status # "none"
<1>1. /\ pc[w] = "idle" /\ queue \subseteq Runs
      /\ actionRow \in [Runs -> [status : ActionStatuses, body : Bodies \cup {None}]]
      /\ pc \in [Workers -> PcValues] /\ job \in [Workers -> Jobs]
  BY DEF Decide, GateInv, DealInv, TypeInv, TypeOK
<1>2. pc'[w] = "decided" /\ job'[w].kind = kind /\ job'[w].id = a
  BY <1>1 DEF Decide, Goto, NoJob
<1>3. actionRow[a].status # "none"
  <2>1. ASSUME NEW v \in Workers, pc[v] = "action_row", job[v].id = a PROVE FALSE
    <3>1. v # w /\ pc'[v] = pc[v] /\ job'[v] = job[v]
      BY <1>1, <2>1, OthersKept DEF GateInv
    <3> QED
      BY <1>2, <2>1, <3>1 DEF Apart
  <2> QED
    BY <2>1 DEF Decide, KnownActions, GateInv, QueueFiled
<1>4. /\ actionRow'[a].status = StatusAfter(kind)
      /\ \A r \in Runs \ {a} : actionRow'[r] = actionRow[r]
  BY <1>1, <1>3 DEF Decide, WithActionRow
<1>5. StatusAfter(kind) # "none" /\ (kind = "approve" => StatusAfter(kind) = "approved")
  BY DEF StatusAfter
<1>6. QueueFiled'
  <2> SUFFICES ASSUME NEW r \in queue, r # a
               PROVE  \/ actionRow'[r].status # "none"
                      \/ \E v \in Workers : pc'[v] = "action_row" /\ job'[v].id = r
    BY <1>4, <1>5 DEF Decide, QueueFiled
  <2>1. CASE actionRow[r].status # "none"
    BY <1>1, <1>4, <2>1
  <2>2. CASE \E v \in Workers : pc[v] = "action_row" /\ job[v].id = r
    BY <1>1, <2>2, OthersKept DEF GateInv
  <2> QED
    BY <2>1, <2>2 DEF GateInv, QueueFiled
<1> QED
  BY <1>2, <1>3, <1>4, <1>5, <1>6 DEF PassedGate, RowApproved

\* The plan of a workflow without a gate is approved when it is filed.
LEMMA PlanPasses ==
  ASSUME GateInv, NEW w \in Workers,
         NEW plan \in {"pending_approval", "approved"}, PlanAction(w, plan)
  PROVE  QueueFiled' /\ PassedGate(w)'
<1>1. /\ pc[w] = "agents" /\ pc[w] \in Serving
      /\ pc \in [Workers -> PcValues] /\ job' = job /\ actionRow' = actionRow
      /\ envelope \in [EnvelopeIds -> EnvelopeValues \cup {NoEnvelope}]
  BY DEF PlanAction, Serving, PcValues, GateInv, DealInv, TypeInv, TypeOK
<1>2. job[w].env \in EnvelopeIds /\ envelope[job[w].env] \in EnvelopeValues
  BY <1>1, ServingDeal DEF GateInv
<1>3. PICK text \in [Steps -> Generated] : Planned(w, text, plan)
  BY DEF PlanAction
<1>4. envelope'[job[w].env].plan = plan
  BY <1>2, <1>1, <1>3 DEF Planned, EnvelopeValues
<1>5. pc'[w] = "action_row" /\ (job[w].kind = "crm_sync" => plan = "approved")
  BY <1>1 DEF PlanAction, Goto
<1>6. QueueFiled'
  <2>1. \A v \in Workers \ {w} : pc'[v] = pc[v]
    BY <1>1 DEF PlanAction, Goto
  <2> QED
    BY <1>1, <1>3, <1>5, <2>1 DEF Planned, GateInv, QueueFiled
<1> QED
  BY <1>1, <1>4, <1>5, <1>6 DEF PassedGate

\* The row takes the status of the plan.
LEMMA UpsertPasses ==
  ASSUME GateInv, NEW w \in Workers, UpsertAction(w)
  PROVE  QueueFiled' /\ PassedGate(w)'
<1>1. /\ pc[w] = "action_row" /\ pc[w] \in Serving
      /\ pc \in [Workers -> PcValues] /\ job' = job /\ queue' = queue
      /\ actionRow \in [Runs -> [status : ActionStatuses, body : Bodies \cup {None}]]
  BY DEF UpsertAction, memory, Serving, PcValues, GateInv, DealInv, TypeInv, TypeOK
<1>2. job[w].id \in Runs
  BY <1>1, ServingDeal DEF GateInv
<1>3. /\ actionRow'[job[w].id].status = envelope[job[w].env].plan
      /\ \A r \in Runs \ {job[w].id} : actionRow'[r] = actionRow[r]
  BY <1>1, <1>2 DEF UpsertAction
<1>4. /\ envelope[job[w].env].plan # "none"
      /\ job[w].kind = "crm_sync" => envelope[job[w].env].plan = "approved"
  BY <1>1 DEF GateInv, PassedGate
<1>5. pc'[w] = "step_rows"
  BY <1>1 DEF UpsertAction, Goto
<1>6. queue \subseteq Runs
  BY DEF GateInv, DealInv, TypeInv, TypeOK
<1>7. QueueFiled'
  <2>1. \A v \in Workers \ {w} : pc'[v] = pc[v]
    BY <1>1 DEF UpsertAction, Goto
  <2> QED
    BY <1>1, <1>3, <1>4, <1>6, <2>1 DEF GateInv, QueueFiled
<1> QED
  BY <1>1, <1>3, <1>4, <1>5, <1>7 DEF PassedGate, RowApproved

\* Every other step leaves the queue and the rows alone, and brings no request past the
\* gate.
LEMMA OthersPass ==
  ASSUME GateInv, NEW w \in Workers, Request(w) \/ Fault(w) \/ Step(w),
         ~UpsertAction(w),
         ~\E plan \in {"pending_approval", "approved"} : PlanAction(w, plan),
         ~\E kind \in {"approve", "reject", "edit"}, a \in Runs, scope \in Scopes,
             text \in EditTexts \cup {None} : Decide(w, kind, a, scope, text)
  PROVE  UNCHANGED <<queue, actionRow>> /\ pc[w] # "action_row" /\ PassedGate(w)'
<1>0. /\ pc \in [Workers -> PcValues] /\ job \in [Workers -> Jobs] /\ PassedGate(w)
      /\ DealInv
  BY DEF GateInv, DealInv, TypeInv, TypeOK
<1>1. ASSUME Goto(w, "idle") PROVE PassedGate(w)'
  BY <1>0, <1>1 DEF Goto, PassedGate
<1>2. CASE Request(w)
  <2>1. PICK d \in Deals, kind \in Workflows : StartRun(w, d, kind)
    <3>1. ASSUME NEW a \in Runs, NEW scope \in Scopes
          PROVE  ~Approve(w, a, scope) /\ ~Reject(w, a, scope)
                 /\ \A text \in EditTexts : ~Edit(w, a, scope, text)
      BY <3>1 DEF Approve, Reject, Edit
    <3> QED
      BY <1>2, <3>1 DEF Request
  <2> QED
    BY <1>0, <2>1 DEF StartRun, Goto, PassedGate
<1>3. CASE AgentFail(w) \/ ExecFail(w) \/ EvalFail(w)
  BY <1>0, <1>1, <1>3 DEF AgentFail, ExecFail, EvalFail, ResumeFails, EndRequest
<1>4. CASE SkipRun(w) \/ ReturnStart(w) \/ LoadFails(w) \/ DecisionFails(w) \/ ReviseLoaded(w)
           \/ ResumeNothingLeft(w) \/ Complete(w)
  BY <1>0, <1>1, <1>4
     DEF SkipRun, ReturnStart, LoadFails, DecisionFails, ReviseLoaded, ResumeNothingLeft,
         Complete, EndRequest, tables
<1>5. CASE FirstSnapshot(w) \/ AgentStep(w) \/ ExecEnd(w) \/ RecordExecution(w)
           \/ PersistPlan(w) \/ MarkExecuted(w) \/ RecordOutcome(w)
  BY <1>0, <1>5 DEF FirstSnapshot, AgentStep, ExecEnd, RecordExecution, PersistPlan,
                    MarkExecuted, RecordOutcome, Goto, PassedGate, memory, tables
<1>6. CASE UpsertPlan(w) \/ SnapshotAction(w) \/ ExecRetry(w)
  BY <1>0, <1>6 DEF UpsertPlan, SnapshotAction, ExecRetry, Goto, PassedGate, RowApproved,
                    memory, tables
<1>7. CASE StoreHydrated(w) \/ ApproveLoaded(w)
  BY <1>0, <1>7 DEF StoreHydrated, ApproveLoaded, Goto, PassedGate, RowApproved, tables
<1>8. CASE LoadCached(w) \/ LoadSaved(w)
  <2>1. job'[w].id = job[w].id /\ job'[w].kind = job[w].kind
    <3>1. PICK d, e : job' = [job EXCEPT ![w].deal = d, ![w].env = e]
      BY <1>8 DEF LoadCached, LoadSaved
    <3> QED
      BY <1>0, <3>1 DEF Jobs
  <2>2. /\ pc[w] = "decided" /\ pc'[w] \in {"hydrated", "loaded"}
        /\ UNCHANGED <<queue, actionRow>>
    BY <1>0, <1>8 DEF LoadCached, LoadSaved, Goto, memory, tables
  <2> QED
    BY <1>0, <2>1, <2>2 DEF PassedGate, RowApproved
<1>9. CASE Resume(w) \/ ExecBegin(w)
  <2>1. job'[w].id = job[w].id
    BY <1>0, <1>9 DEF Resume, ExecBegin, Jobs
  <2> QED
    BY <1>0, <1>9, <2>1 DEF Resume, ExecBegin, Goto, PassedGate, RowApproved, memory, tables
<1>10. CASE ExecStepBlocked(w) \/ ExecStepAlready(w) \/ ExecStepSend(w)
  <2>1. PICK result : StepDone(w, result) /\ pc[w] = "steps"
    BY <1>10 DEF ExecStepBlocked, ExecStepAlready, ExecStepSend, CallsTool
  <2>2. job'[w].id = job[w].id
    BY <1>0, <2>1 DEF StepDone, Jobs
  <2> QED
    BY <1>0, <2>1, <2>2 DEF StepDone, PassedGate, RowApproved, tables
<1> QED
  BY <1>2, <1>3, <1>4, <1>5, <1>6, <1>7, <1>8, <1>9, <1>10 DEF Fault, Step

\* The row of an action changes when it is filed and when it is decided on.
LEMMA RowsWritten ==
  ASSUME GateInv, NEW w \in Workers, Request(w) \/ Fault(w) \/ Step(w), NEW r \in Runs
  PROVE  \/ actionRow'[r] = actionRow[r]
         \/ UpsertAction(w) /\ r = job[w].id
         \/ \E kind, scope, text : Decide(w, kind, r, scope, text)
<1>0. actionRow \in [Runs -> [status : ActionStatuses, body : Bodies \cup {None}]]
  BY DEF GateInv, DealInv, TypeInv, TypeOK
<1>1. CASE UpsertAction(w)
  BY <1>0, <1>1 DEF UpsertAction
<1>2. CASE \E plan \in {"pending_approval", "approved"} : PlanAction(w, plan)
  BY <1>2 DEF PlanAction
<1>3. ASSUME NEW kind, NEW a, NEW scope, NEW text, Decide(w, kind, a, scope, text)
      PROVE  \/ actionRow'[r] = actionRow[r]
             \/ \E k, s, t : Decide(w, k, r, s, t)
  BY <1>0, <1>3 DEF Decide, WithActionRow
<1> QED
  BY <1>1, <1>2, <1>3, OthersPass

\* A request's row is not changed while one about another deal is served.
LEMMA OtherRows ==
  ASSUME Apart, Apart', GateInv, NEW w \in Workers, Request(w) \/ Fault(w) \/ Step(w),
         NEW v \in Workers \ {w}, pc[v] # "idle"
  PROVE  actionRow'[job[v].id] = actionRow[job[v].id]
<1>1. /\ DealInv /\ job[v].id \in Runs /\ pc'[v] = pc[v] /\ job'[v] = job[v]
      /\ job \in [Workers -> Jobs] /\ pc \in [Workers -> PcValues]
  BY OtherRequests DEF GateInv, DealInv, TypeInv, TypeOK
<1>2. ASSUME UpsertAction(w), job[v].id = job[w].id PROVE FALSE
  BY <1>2 DEF UpsertAction, Apart
<1>3. ASSUME NEW kind, NEW scope, NEW text, Decide(w, kind, job[v].id, scope, text) PROVE FALSE
  <2>1. pc'[w] # "idle" /\ job'[w].id = job[v].id
    BY <1>1, <1>3 DEF Decide, Goto, NoJob
  <2> QED
    BY <1>1, <2>1 DEF Apart
<1> QED
  BY <1>1, <1>2, <1>3, RowsWritten

\* GateInv is inductive for requests about different deals.
LEMMA NextGateInv == Apart /\ Apart' /\ GateInv /\ [Next]_vars => GateInv'
<1> SUFFICES ASSUME Apart, Apart', GateInv, [Next]_vars
             PROVE  QueueFiled' /\ \A w \in Workers : PassedGate(w)'
  BY NextDealInv DEF GateInv
<1>1. ASSUME NEW w \in Workers, Request(w) \/ Fault(w) \/ Step(w)
      PROVE  QueueFiled' /\ \A v \in Workers : PassedGate(v)'
  <2>1. ASSUME UNCHANGED <<queue, actionRow>>, pc[w] # "action_row" PROVE QueueFiled'
    BY <1>1, <2>1, OthersKept DEF GateInv, QueueFiled
  <2>2. ASSUME NEW kind \in {"approve", "reject", "edit"}, NEW a \in Runs, NEW scope, NEW text,
               Decide(w, kind, a, scope, text)
        PROVE  Request(w)
    BY <1>1, <2>2, StepsAreBusy DEF Decide, GateInv
  <2>3. QueueFiled' /\ PassedGate(w)'
    BY <1>1, <2>1, <2>2, DecidePasses, PlanPasses, UpsertPasses, OthersPass
  <2>4. ASSUME NEW v \in Workers \ {w} PROVE PassedGate(v)'
    <3>1. pc'[v] = pc[v] /\ job'[v] = job[v] /\ PassedGate(v)
      BY <1>1, OthersKept DEF GateInv
    <3>2. CASE pc[v] = "idle"
      BY <3>1, <3>2 DEF PassedGate
    <3>3. CASE pc[v] # "idle"
      <4>1. actionRow'[job[v].id] = actionRow[job[v].id]
        BY <1>1, <3>3, OtherRows
      <4>2. pc[v] = "action_row" => envelope'[job[v].env] = envelope[job[v].env]
        BY <1>1, OtherRequests DEF GateInv, Serving, PcValues
      <4> QED
        BY <3>1, <4>1, <4>2 DEF PassedGate, RowApproved
    <3> QED
      BY <3>2, <3>3
  <2> QED
    BY <2>3, <2>4
<1>2. CASE Restart
  BY <1>2 DEF Restart, QueueFiled, PassedGate, tables
<1>3. CASE UNCHANGED vars
  BY <1>3 DEF vars, tables, memory, GateInv, QueueFiled, PassedGate, RowApproved
<1> QED
  BY <1>1, <1>2, <1>3 DEF Next

\* With one run for each deal, and as long as requests that overlap are about different
\* deals, a tool is called only while the row of its action says approved, wherever the
\* process stops and whatever was rejected or edited before (service.py:76-107, runner.py:449-507).
THEOREM GateHolds ==
  ASSUME OneRunEach PROVE Spec /\ []Apart => []ExecutedActionIsApproved
<1>1. Init => GateInv
  BY InitDealInv DEF Init, GateInv, QueueFiled, PassedGate
<1>2. GateInv => ExecutedActionIsApproved
  <2> SUFFICES ASSUME GateInv, NEW w \in Workers, CallsTool(w)
               PROVE  actionRow[Target(w)].status = "approved"
    BY DEF ExecutedActionIsApproved
  <2>1. pc[w] = "steps" /\ pc[w] \in Serving
    BY DEF CallsTool, Serving, PcValues
  <2>2. job[w].id = Target(w)
    BY <2>1, ServingDeal DEF GateInv, OneRunEach
  <2> QED
    BY <2>1, <2>2 DEF GateInv, PassedGate, RowApproved
<1> QED
  BY <1>1, <1>2, NextGateInv, PTL DEF Spec

-----------------------------------------------------------------------------
(***************************************************************************)
(* The text: what is sent is what the approver was shown.  Row and         *)
(* envelope are written apart, so the invariant says for every action      *)
(* where its envelope is now (in the cache, in the newest snapshot or in   *)
(* the hands of a request) and that the row has that text, or the text     *)
(* that an edit under way is about to give it.                             *)
(***************************************************************************)
\* What a decision on the deal d finds.
Copy(d) == IF dealEnvelope[d] # None THEN envelope[dealEnvelope[d]] ELSE snapshot[d]

Shows(env, r) == env.plan # "none" /\ env.body[1] = actionRow[r].body

\* The row has the edit that the envelope is still to get.
ShowsEdited(env, w) ==
  /\ env.plan # "none"
  /\ actionRow[job[w].id].body = IF job[w].text = None THEN env.body[1] ELSE job[w].text

Works(w, r) == pc[w] # "idle" /\ job[w].id = r

\* An action no request is about shows what the next decision will find.
AtRest ==
  \A r \in Runs : actionRow[r].status # "none" =>
    /\ runStatus[r] # "none"
    /\ (\A w \in Workers : ~Works(w, r)) => Shows(Copy(DealOf[r]), r)

TextJob(w) ==
  LET r == job[w].id
      d == job[w].deal
      env == envelope[job[w].env]
  IN /\ job[w].scope = All /\ (job[w].kind # "edit" => job[w].text = None)
     /\ pc[w] \in {"created", "agents", "action_row"} => actionRow[r].status = "none"
     /\ pc[w] \in {"created", "agents"} \cup Planning => dealEnvelope[d] = None
     /\ pc[w] \in (Planning \cup Resuming) \ {"action_row"} => Shows(env, r)
     /\ pc[w] \in Resuming \cup {"loaded"} =>
          dealEnvelope[d] = job[w].env \/ (dealEnvelope[d] = None /\ job[w].kind = "crm_sync")
     /\ pc[w] = "decided" => ShowsEdited(Copy(DealOf[r]), w)
     /\ pc[w] \in {"hydrated", "loaded"} => ShowsEdited(env, w)

TextInv == GateInv /\ AtRest /\ \A w \in Workers : TextJob(w)

\* The conditions of this section: one run for each deal, and decisions about whole
\* actions.
OneVersion == OneRunEach /\ Scopes \subseteq {All}

\* A step leaves what decisions on other deals find.
LEMMA CopyKept ==
  ASSUME DealInv, NEW w \in Workers, Request(w) \/ Fault(w) \/ Step(w), NEW d \in Deals,
         pc[w] \in Serving => d # job[w].deal
  PROVE  Copy(d)' = Copy(d)
<1>0. /\ dealEnvelope \in [Deals -> EnvelopeIds \cup {None}] /\ None \notin EnvelopeIds
      /\ envelope \in [EnvelopeIds -> EnvelopeValues \cup {NoEnvelope}]
      /\ snapshot \in [Deals -> EnvelopeValues \cup {NoEnvelope}]
      /\ job \in [Workers -> Jobs]
  BY OrchestratorAssumption DEF DealInv, TypeInv, TypeOK
<1>1. ASSUME pc[w] \in Serving
      PROVE  job[w].env \in EnvelopeIds /\ job[w].deal \in Deals /\ dealEnvelope[d] # job[w].env
  BY <1>0, <1>1, ServingDeal DEF DealInv, CacheOnDeal, Target
<1>2. ASSUME NEW e \in FreshEnvelopes, NEW new, envelope' = [envelope EXCEPT ![e] = new],
             UNCHANGED <<dealEnvelope, snapshot>>
      PROVE  Copy(d)' = Copy(d)
  BY <1>0, <1>2 DEF Copy, FreshEnvelopes, Held
<1>3. CASE Request(w)
  <2>1. ASSUME NEW x \in Deals, NEW kind \in Workflows, StartRun(w, x, kind)
        PROVE  Copy(d)' = Copy(d)
    BY <1>2, <2>1 DEF StartRun
  <2>2. ASSUME NEW kind, NEW a, NEW scope, NEW text, Decide(w, kind, a, scope, text)
        PROVE  Copy(d)' = Copy(d)
    BY <2>2 DEF Decide, Copy
  <2> QED
    BY <1>3, <2>1, <2>2 DEF Request, Approve, Reject, Edit
<1>4. CASE LoadCached(w)
  BY <1>4 DEF LoadCached, Copy, tables, memory
<1>5. CASE LoadSaved(w)
  BY <1>2, <1>5 DEF LoadSaved, tables
<1>6. CASE StoreHydrated(w)
  <2>1. pc[w] \in Serving
    BY <1>6 DEF StoreHydrated, Serving, PcValues
  <2> QED
    BY <1>0, <1>1, <1>6, <2>1 DEF StoreHydrated, Copy, tables
<1>7. ASSUME Advancing(w) PROVE Copy(d)' = Copy(d)
  <2>1. pc[w] \in Serving
    BY <1>7, AdvancingPc
  <2>2. dealEnvelope' = dealEnvelope
    BY <1>7 DEF Advancing, FirstSnapshot, AgentStep, UpsertAction, UpsertPlan, PlanAction,
         SnapshotAction, ApproveLoaded, Resume, ExecBegin, ExecStepBlocked, ExecStepAlready,
         ExecStepSend, StepDone, ExecEnd, ExecRetry, RecordExecution, PersistPlan,
         MarkExecuted, RecordOutcome, memory
  <2>3. snapshot' = snapshot \/ snapshot' = WithSnapshot(w)
    BY <1>7 DEF Advancing, FirstSnapshot, AgentStep, UpsertAction, UpsertPlan, PlanAction,
         SnapshotAction, ApproveLoaded, Resume, ExecBegin, ExecStepBlocked, ExecStepAlready,
         ExecStepSend, StepDone, ExecEnd, ExecRetry, RecordExecution, PersistPlan,
         MarkExecuted, RecordOutcome, tables
  <2>4. snapshot'[d] = snapshot[d]
    BY <1>0, <2>1, <2>3 DEF WithSnapshot
  <2>5. \A e \in EnvelopeIds \ {job[w].env} : envelope'[e] = envelope[e]
    BY <1>0, <1>7 DEF Advancing, FirstSnapshot, AgentStep, UpsertAction, UpsertPlan, PlanAction,
         Planned, SnapshotAction, ApproveLoaded, Resume, ResumedEnvelopes, ExecBegin,
         ExecStepBlocked, ExecStepAlready, ExecStepSend, StepDone, ExecEnd, ExecRetry,
         RecordExecution, PersistPlan, MarkExecuted, RecordOutcome, memory
  <2> QED
    BY <1>0, <1>1, <2>1, <2>2, <2>4, <2>5 DEF Copy
<1>8. ASSUME Ending(w) PROVE Copy(d)' = Copy(d)
  <2>1. PICK de, es :
          /\ EndRequest(w, de, es)
          /\ \/ de = dealEnvelope
             \/ /\ pc[w] \in Serving
                /\ de = [dealEnvelope EXCEPT ![job[w].deal] = job[w].env]
          /\ \/ es = envelope
             \/ /\ pc[w] \in Serving
                /\ \A e \in EnvelopeIds \ {job[w].env} : es[e] = envelope[e]
    <3>1. CASE SkipRun(w) \/ ReturnStart(w) \/ Complete(w)
      BY <3>1 DEF SkipRun, ReturnStart, Complete, Serving, PcValues
    <3>2. CASE AgentFail(w) \/ LoadFails(w) \/ DecisionFails(w) \/ ExecFail(w) \/ EvalFail(w)
      BY <3>2 DEF AgentFail, LoadFails, DecisionFails, ExecFail, EvalFail, ResumeFails
    <3>3. CASE ReviseLoaded(w)
      <4> DEFINE es == [envelope EXCEPT ![job[w].env] = RevisedPlan(w)]
      <4>1. \A e \in EnvelopeIds \ {job[w].env} : es[e] = envelope[e]
        BY <1>0
      <4> HIDE DEF es
      <4>2. /\ pc[w] \in Serving
            /\ EndRequest(w, [dealEnvelope EXCEPT ![job[w].deal] = job[w].env], es)
        BY <3>3 DEF ReviseLoaded, Serving, PcValues, es
      <4> QED
        BY <4>1, <4>2
    <3>4. CASE ResumeNothingLeft(w)
      <4>1. \A e \in EnvelopeIds \ {job[w].env} : ResumedEnvelopes(w)[e] = envelope[e]
        BY <1>0 DEF ResumedEnvelopes
      <4>2. /\ pc[w] \in Serving
            /\ EndRequest(w, [dealEnvelope EXCEPT ![job[w].deal] = job[w].env],
                          ResumedEnvelopes(w))
        BY <3>4 DEF ResumeNothingLeft, Serving, PcValues
      <4> QED
        BY <4>1, <4>2
    <3> QED
      BY <1>8, <3>1, <3>2, <3>3, <3>4 DEF Ending
  <2>2. snapshot' = snapshot \/ (pc[w] \in Serving /\ snapshot' = WithSnapshot(w))
    BY <1>8 DEF Ending, SkipRun, AgentFail, ReturnStart, LoadFails, DecisionFails,
         ReviseLoaded, ResumeNothingLeft, ExecFail, EvalFail, ResumeFails, Complete, tables,
         Serving, PcValues
  <2>3. snapshot'[d] = snapshot[d]
    BY <1>0, <2>2 DEF WithSnapshot
  <2>4. de[d] = dealEnvelope[d] /\ dealEnvelope' = de
    BY <1>0, <2>1 DEF EndRequest
  <2>5. ASSUME dealEnvelope[d] # None
        PROVE  envelope'[dealEnvelope[d]] = envelope[dealEnvelope[d]]
    BY <1>0, <1>1, <2>1, <2>4, <2>5 DEF EndRequest
  <2> QED
    BY <2>3, <2>4, <2>5 DEF Copy
<1> QED
  BY <1>3, <1>4, <1>5, <1>6, <1>7, <1>8 DEF Fault, Step, Advancing, Ending

\* What a request that serves a deal knows of its action.
LEMMA ServingText ==
  ASSUME OneVersion, TextInv, NEW w \in Workers, pc[w] \in Serving
  PROVE  /\ job[w].id \in Runs /\ job[w].deal \in Deals /\ DealOf[job[w].id] = job[w].deal
         /\ job[w].env \in EnvelopeIds /\ envelope[job[w].env] \in EnvelopeValues
         /\ None \notin EnvelopeIds /\ 1 \in Steps
         /\ dealEnvelope \in [Deals -> EnvelopeIds \cup {None}]
         /\ envelope \in [EnvelopeIds -> EnvelopeValues \cup {NoEnvelope}]
         /\ snapshot \in [Deals -> EnvelopeValues \cup {NoEnvelope}]
         /\ pc[w] # "hydrated" => runIds[job[w].deal] # None
         /\ runStatus[job[w].id] # "none"
<1>1. DealInv /\ TypeInv /\ JobOnDeal(w)
  BY DEF TextInv, GateInv, DealInv, JobsOnDeal
<1>2. 1 \in Steps /\ None \notin EnvelopeIds
  BY OrchestratorAssumption DEF Steps
<1>3. runStatus[job[w].id] # "none"
  <2> DEFINE r == latestRun[job[w].deal]
  <2>1. r \in Runs /\ DealOf[r] = job[w].deal /\ runStatus[r] # "none"
    BY <1>1, ServingDeal DEF DealInv, Directory, OnDeal, TypeInv, TypeOK
  <2>2. job[w].id \in Runs /\ DealOf[job[w].id] = job[w].deal
    BY <1>1, ServingDeal
  <2>3. job[w].id = r
    BY <2>1, <2>2 DEF OneVersion, OneRunEach
  <2> QED
    BY <2>1, <2>3
<1> QED
  BY <1>1, <1>2, <1>3, ServingDeal DEF JobOnDeal, TypeInv, TypeOK

\* A request that ends leaves its action in the cache, or saved, as its row shows it.
LEMMA EndingText ==
  ASSUME OneVersion, TextInv, NEW w \in Workers, Ending(w), NEW r, r = job[w].id
  PROVE  TextJob(w)' /\ (actionRow'[r].status # "none" => Shows(Copy(DealOf[r]), r)')
<1> DEFINE d == job[w].deal
           e == job[w].env
<1>0. DealInv /\ TextJob(w) /\ PassedGate(w) /\ actionRow' = actionRow
      /\ job \in [Workers -> Jobs] /\ pc \in [Workers -> PcValues]
  BY DEF TextInv, GateInv, DealInv, TypeInv, TypeOK, Ending, SkipRun, AgentFail, ReturnStart,
         LoadFails, DecisionFails, ReviseLoaded, ResumeNothingLeft, ExecFail, EvalFail,
         ResumeFails, Complete, tables
<1>1. TextJob(w)'
  <2>1. pc'[w] = "idle" /\ job'[w] = NoJob
    BY <1>0, EndingRuns DEF EndRequest, Goto
  <2> QED
    BY <2>1 DEF TextJob, NoJob, Planning, Resuming
<1>2. ASSUME pc[w] \in Serving, NEW es, EndRequest(w, [dealEnvelope EXCEPT ![d] = e], es),
             es[e].plan # "none" /\ es[e].body[1] = actionRow[r].body
      PROVE  Shows(Copy(DealOf[r]), r)'
  <2>1. e \in EnvelopeIds /\ e # None /\ d \in Deals /\ DealOf[r] = d
        /\ dealEnvelope \in [Deals -> EnvelopeIds \cup {None}]
    BY <1>2, ServingText
  <2>2. dealEnvelope'[d] = e /\ envelope'[e] = es[e]
    BY <1>2, <2>1 DEF EndRequest
  <2> QED
    BY <1>0, <1>2, <2>1, <2>2 DEF Copy, Shows
<1>3. ASSUME pc[w] \in Resuming, ResumeFails(w)
      PROVE  Shows(Copy(DealOf[r]), r)'
  <2>0. pc[w] \in Serving /\ pc[w] # "hydrated"
    BY <1>3 DEF Resuming, Serving, PcValues
  <2>1. /\ e \in EnvelopeIds /\ e # None /\ d \in Deals /\ DealOf[r] = d /\ runIds[d] # None
        /\ dealEnvelope \in [Deals -> EnvelopeIds \cup {None}]
        /\ snapshot \in [Deals -> EnvelopeValues \cup {NoEnvelope}]
    BY <2>0, ServingText
  <2>2. Shows(envelope[e], r)
    BY <1>0, <1>3 DEF TextJob, Planning, Resuming
  <2>3. EndRequest(w, dealEnvelope, envelope)
    BY <1>3 DEF ResumeFails
  <2>4. CASE dealEnvelope[d] = e
    <3>1. dealEnvelope'[d] = e /\ envelope'[e] = envelope[e]
      BY <2>1, <2>3, <2>4 DEF EndRequest
    <3> QED
      BY <1>0, <2>1, <2>2, <3>1 DEF Copy, Shows
  <2>5. CASE dealEnvelope[d] = None /\ job[w].kind = "crm_sync"
    <3>1. dealEnvelope'[d] = None
      BY <2>3, <2>5 DEF EndRequest
    <3>2. snapshot'[d] = envelope[e]
      BY <1>3, <2>1, <2>5 DEF ResumeFails, WithSnapshot
    <3> QED
      BY <1>0, <2>1, <2>2, <3>1, <3>2 DEF Copy, Shows
  <2> QED
    BY <1>0, <1>3, <2>4, <2>5 DEF TextJob
<1>4. CASE SkipRun(w) \/ AgentFail(w)
  BY <1>0, <1>1, <1>4 DEF SkipRun, AgentFail, TextJob
<1>5. CASE ReturnStart(w) \/ Complete(w)
  <2>1. pc[w] \in Serving /\ pc[w] \in (Planning \cup Resuming) \ {"action_row"}
    BY <1>5 DEF ReturnStart, Complete, Serving, PcValues, Planning, Resuming
  <2>2. Shows(envelope[e], r)
    BY <1>0, <2>1 DEF TextJob
  <2> QED
    BY <1>1, <1>2, <1>5, <2>1, <2>2 DEF ReturnStart, Complete, Shows
<1>6. CASE ExecFail(w) \/ EvalFail(w)
  BY <1>1, <1>3, <1>6 DEF ExecFail, EvalFail, Resuming
<1>7. CASE LoadFails(w)
  <2>1. pc[w] = "decided" /\ r \in Runs /\ r \in Runs
    BY <1>0, <1>7 DEF LoadFails, DealInv, TypeInv, JobsOK, JobOK
  <2>2. ShowsEdited(Copy(DealOf[r]), w)
    BY <1>0, <2>1 DEF TextJob
  <2>3. CASE actionRow[r].status = "none"
    BY <1>0, <1>1, <2>3
  <2>4. CASE actionRow[r].status # "none"
    <3>1. \E x \in FoundDeals(r) : TRUE
      BY <2>4 DEF FoundDeals
    <3>2. DealOf[r] \in FoundDeals(r)
      BY <1>0, <2>1, <3>1, FoundIsOwn
    <3>3. Copy(DealOf[r]) = NoEnvelope
      BY <1>7, <3>2 DEF LoadFails, Copy
    <3> QED
      BY <2>2, <3>3 DEF ShowsEdited, NoEnvelope
  <2> QED
    BY <2>3, <2>4
<1>8. CASE DecisionFails(w)
  BY <1>0, <1>8 DEF DecisionFails, TextJob, ShowsEdited
<1>9. CASE ReviseLoaded(w)
  <2> DEFINE env == envelope[e]
             es == [envelope EXCEPT ![e] = RevisedPlan(w)]
  <2>1. /\ pc[w] = "loaded" /\ pc[w] \in Serving /\ job[w].kind \in {"reject", "edit"}
        /\ EndRequest(w, [dealEnvelope EXCEPT ![d] = e], es)
    BY <1>9 DEF ReviseLoaded, Serving, PcValues
  <2>2. /\ e \in EnvelopeIds /\ env \in EnvelopeValues /\ 1 \in Steps
        /\ envelope \in [EnvelopeIds -> EnvelopeValues \cup {NoEnvelope}]
    BY <2>1, ServingText
  <2>3. /\ env.plan # "none" /\ job[w].scope = All
        /\ job[w].kind = "reject" => job[w].text = None
        /\ actionRow[r].body = IF job[w].text = None THEN env.body[1] ELSE job[w].text
    BY <1>0, <2>1 DEF TextJob, ShowsEdited
  <2>4. CASE job[w].kind = "reject"
    <3>1. RevisedPlan(w).plan # "none" /\ RevisedPlan(w).body = env.body
      BY <2>2, <2>3, <2>4 DEF RevisedPlan, RejectedPlan, EnvelopeValues
    <3>2. es[e] = RevisedPlan(w)
      BY <2>2
    <3> HIDE DEF es
    <3> QED
      BY <1>1, <1>2, <2>1, <2>3, <2>4, <3>1, <3>2
  <2>5. CASE job[w].kind = "edit"
    <3>1. RevisedPlan(w) = EditedPlan(env, All, job[w].text)
      BY <2>3, <2>5 DEF RevisedPlan, PlanScope
    <3>2. EditedPlan(env, All, job[w].text).plan = "pending_approval"
      BY <2>2 DEF EditedPlan, EnvelopeValues
    <3>3. EditedPlan(env, All, job[w].text).body[1]
            = IF job[w].text = None THEN env.body[1] ELSE job[w].text
      <4>1. All \notin Steps
        BY DEF All, Steps
      <4> QED
        BY <2>2, <4>1 DEF EditedPlan, EnvelopeValues, StepTexts
    <3>4. es[e] = RevisedPlan(w)
      BY <2>2
    <3> HIDE DEF es
    <3> QED
      BY <1>1, <1>2, <2>1, <2>3, <3>1, <3>2, <3>3, <3>4
  <2> QED
    BY <2>1, <2>4, <2>5
<1>10. CASE ResumeNothingLeft(w)
  <2>1. /\ pc[w] = "resuming" /\ pc[w] \in Serving /\ pc[w] \in Resuming
        /\ EndRequest(w, [dealEnvelope EXCEPT ![d] = e], ResumedEnvelopes(w))
    BY <1>10 DEF ResumeNothingLeft, Serving, PcValues, Resuming
  <2>2. /\ e \in EnvelopeIds /\ envelope[e] \in EnvelopeValues
        /\ envelope \in [EnvelopeIds -> EnvelopeValues \cup {NoEnvelope}]
    BY <2>1, ServingText
  <2>3. ResumedEnvelopes(w)[e].plan = "approved" /\ ResumedEnvelopes(w)[e].body = envelope[e].body
    BY <2>2 DEF ResumedEnvelopes, EnvelopeValues
  <2>4. Shows(envelope[e], r)
    BY <1>0, <2>1 DEF TextJob, Planning, Resuming
  <2> QED
    BY <1>1, <1>2, <2>1, <2>3, <2>4 DEF Shows
<1> QED
  BY <1>4, <1>5, <1>6, <1>7, <1>8, <1>9, <1>10 DEF Ending

\* A request that goes on keeps the first text of its plan as the row shows it.
LEMMA AdvancingText ==
  ASSUME OneVersion, TextInv, NEW w \in Workers, Advancing(w)
  PROVE  TextJob(w)'
<1> DEFINE r == job[w].id
           d == job[w].deal
           e == job[w].env
           env == envelope[e]
<1>0. /\ DealInv /\ TextJob(w) /\ PassedGate(w) /\ pc[w] \in Serving /\ env \in EnvelopeValues
      /\ job \in [Workers -> Jobs] /\ pc \in [Workers -> PcValues] /\ e \in EnvelopeIds
      /\ envelope \in [EnvelopeIds -> EnvelopeValues \cup {NoEnvelope}]
      /\ actionRow \in [Runs -> [status : ActionStatuses, body : Bodies \cup {None}]]
  BY AdvancingPc, ServingDeal DEF TextInv, GateInv, DealInv, TypeInv, TypeOK
<1>1. /\ job'[w].id = r /\ job'[w].deal = d /\ job'[w].env = e /\ job'[w].kind = job[w].kind
      /\ job'[w].scope = job[w].scope /\ job'[w].text = job[w].text
  <2>1. CASE AgentStep(w) \/ Resume(w) \/ ExecBegin(w)
    BY <1>0, <2>1 DEF AgentStep, Resume, ExecBegin, Jobs
  <2>2. ASSUME NEW result, StepDone(w, result)
        PROVE  job'[w] = [job[w] EXCEPT !.next = @ + 1, !.res[job[w].next] = result]
    BY <1>0, <2>2 DEF StepDone
  <2>3. CASE \E result : StepDone(w, result)
    BY <1>0, <2>2, <2>3 DEF Jobs
  <2> QED
    BY <2>1, <2>3
       DEF Advancing, FirstSnapshot, UpsertAction, UpsertPlan, PlanAction, SnapshotAction,
           ApproveLoaded, ExecStepBlocked, ExecStepAlready, ExecStepSend, ExecEnd, ExecRetry,
           RecordExecution, PersistPlan, MarkExecuted, RecordOutcome
<1>2. dealEnvelope' = dealEnvelope
  BY DEF Advancing, FirstSnapshot, AgentStep, UpsertAction, UpsertPlan, PlanAction,
         SnapshotAction, ApproveLoaded, Resume, ExecBegin, ExecStepBlocked, ExecStepAlready,
         ExecStepSend, StepDone, ExecEnd, ExecRetry, RecordExecution, PersistPlan,
         MarkExecuted, RecordOutcome, memory
\* The requests that have a row go on with it.
<1>3. ASSUME pc[w] \in (Planning \cup Resuming) \ {"action_row"},
             pc'[w] \in (Planning \cup Resuming) \ {"action_row"},
             pc'[w] \in Planning => pc[w] \in Planning,
             pc[w] \in Planning /\ pc'[w] \in Resuming => job[w].kind = "crm_sync",
             envelope'[e].plan # "none" /\ envelope'[e].body = env.body,
             actionRow' = actionRow
      PROVE  TextJob(w)'
  <2>1. pc'[w] \notin {"created", "agents", "action_row", "decided", "hydrated", "loaded"}
    BY <1>3 DEF Planning, Resuming
  <2>2. Shows(env, r)'
    BY <1>0, <1>1, <1>3 DEF TextJob, Shows
  <2>3. pc'[w] \in Planning => dealEnvelope[d] = None
    BY <1>0, <1>3 DEF TextJob
  <2>4. pc'[w] \in Resuming =>
          dealEnvelope[d] = e \/ (dealEnvelope[d] = None /\ job[w].kind = "crm_sync")
    BY <1>0, <1>3 DEF TextJob
  <2>5. job[w].scope = All /\ (job[w].kind # "edit" => job[w].text = None)
    BY <1>0 DEF TextJob
  <2> QED
    BY <1>1, <1>2, <2>1, <2>2, <2>3, <2>4, <2>5 DEF TextJob, Shows
<1>4. CASE FirstSnapshot(w) \/ AgentStep(w)
  <2>1. pc[w] \in {"created", "agents"} /\ pc'[w] = "agents" /\ actionRow' = actionRow
    BY <1>0, <1>4 DEF FirstSnapshot, AgentStep, Goto
  <2> QED
    BY <1>0, <1>1, <1>2, <2>1 DEF TextJob, Planning, Resuming
<1>5. CASE \E plan \in {"pending_approval", "approved"} : PlanAction(w, plan)
  <2>1. pc[w] = "agents" /\ pc'[w] = "action_row" /\ actionRow' = actionRow
    BY <1>0, <1>5 DEF PlanAction, Goto
  <2> QED
    BY <1>0, <1>1, <1>2, <2>1 DEF TextJob, Planning, Resuming
<1>6. CASE UpsertAction(w)
  <2>1. /\ pc[w] = "action_row" /\ pc'[w] = "step_rows" /\ envelope' = envelope
        /\ actionRow' = [actionRow EXCEPT ![r] = [status |-> env.plan, body |-> env.body[1]]]
    BY <1>0, <1>6 DEF UpsertAction, Goto, memory
  <2>2. r \in Runs
    BY <1>0, ServingDeal
  <2>3. env.plan # "none" /\ actionRow'[r].body = env.body[1]
    BY <1>0, <2>1, <2>2 DEF PassedGate
  <2>4. Shows(env, r)'
    BY <1>1, <2>1, <2>3 DEF Shows
  <2> QED
    BY <1>0, <1>1, <1>2, <2>1, <2>3 DEF TextJob, Planning, Resuming, Shows
<1>7. ASSUME pc[w] \in (Planning \cup Resuming) \ {"action_row"} PROVE env.plan # "none"
  BY <1>0, <1>7 DEF TextJob, Shows
<1>8. CASE UpsertPlan(w) \/ SnapshotAction(w)
  <2>1. /\ pc[w] \in {"step_rows", "action_snapshot"} /\ UNCHANGED <<envelope, actionRow>>
        /\ pc'[w] \in {"action_snapshot", "returning", "resuming"}
        /\ pc'[w] = "resuming" => job[w].kind = "crm_sync"
    BY <1>0, <1>8 DEF UpsertPlan, SnapshotAction, Goto, memory
  <2> QED
    BY <1>3, <1>7, <2>1 DEF Planning, Resuming
<1>9. CASE ApproveLoaded(w)
  <2>1. /\ pc[w] = "loaded" /\ pc'[w] = "resuming" /\ actionRow' = actionRow
        /\ job[w].kind = "approve"
        /\ envelope' = [envelope EXCEPT ![e] = ApprovedPlan(@, PlanScope(w))]
    BY <1>0, <1>9 DEF ApproveLoaded, Goto, tables
  <2>2. job[w].scope = All /\ job[w].text = None /\ ShowsEdited(env, w) /\ dealEnvelope[d] = e
    BY <1>0, <2>1 DEF TextJob
  <2>3. envelope'[e].plan = "approved" /\ envelope'[e].body = env.body
    BY <1>0, <2>1, <2>2 DEF PlanScope, ApprovedPlan, EnvelopeValues
  <2>4. Shows(envelope[e], r)'
    BY <1>1, <2>1, <2>2, <2>3 DEF Shows, ShowsEdited
  <2> QED
    BY <1>1, <1>2, <2>1, <2>2, <2>4 DEF TextJob, Planning, Resuming, Shows
<1>10. CASE Resume(w)
  <2>1. /\ pc[w] = "resuming" /\ pc'[w] = "executing" /\ actionRow' = actionRow
        /\ envelope' = ResumedEnvelopes(w)
    BY <1>0, <1>10 DEF Resume, Goto, tables
  <2>2. envelope'[e].plan = "approved" /\ envelope'[e].body = env.body
    BY <1>0, <2>1 DEF ResumedEnvelopes, EnvelopeValues
  <2> QED
    BY <1>3, <2>1, <2>2 DEF Planning, Resuming
<1>11. CASE ExecStepBlocked(w) \/ ExecStepAlready(w) \/ ExecStepSend(w)
  <2>1. PICK result : StepDone(w, result) /\ pc[w] = "steps"
    BY <1>11 DEF ExecStepBlocked, ExecStepAlready, ExecStepSend, CallsTool
  <2>2. pc'[w] = "steps" /\ actionRow' = actionRow
        /\ envelope' = [envelope EXCEPT ![e].stat[job[w].next] = result]
    BY <2>1 DEF StepDone, tables
  <2>3. envelope'[e].plan = env.plan /\ envelope'[e].body = env.body
    BY <1>0, <2>2 DEF EnvelopeValues
  <2> QED
    BY <1>3, <1>7, <2>1, <2>2, <2>3 DEF Planning, Resuming
<1>12. CASE ExecBegin(w) \/ ExecEnd(w) \/ ExecRetry(w) \/ RecordExecution(w) \/ PersistPlan(w)
            \/ MarkExecuted(w) \/ RecordOutcome(w)
  <2>1. pc[w] \in Resuming /\ pc'[w] \in Resuming /\ UNCHANGED <<envelope, actionRow>>
    BY <1>0, <1>12 DEF ExecBegin, ExecEnd, ExecRetry, RecordExecution, PersistPlan,
         MarkExecuted, RecordOutcome, Goto, Resuming, memory, tables
  <2> QED
    BY <1>3, <1>7, <2>1 DEF Planning, Resuming
<1> QED
  BY <1>4, <1>5, <1>6, <1>8, <1>9, <1>10, <1>11, <1>12 DEF Advancing

\* A decision finds the envelope that its action has at rest.
LEMMA LoadingText ==
  ASSUME OneVersion, TextInv, NEW w \in Workers,
         LoadCached(w) \/ LoadSaved(w) \/ StoreHydrated(w)
  PROVE  TextJob(w)' /\ UNCHANGED <<actionRow, runStatus>> /\ job'[w].id = job[w].id
         /\ pc[w] # "idle" /\ pc'[w] # "idle"
<1>0. /\ DealInv /\ TextJob(w) /\ job \in [Workers -> Jobs] /\ pc \in [Workers -> PcValues]
      /\ pc[w] = "decided" => job[w].id \in Runs
      /\ dealEnvelope \in [Deals -> EnvelopeIds \cup {None}] /\ None \notin EnvelopeIds
      /\ envelope \in [EnvelopeIds -> EnvelopeValues \cup {NoEnvelope}]
  BY OrchestratorAssumption DEF TextInv, GateInv, DealInv, TypeInv, TypeOK, JobsOK, JobOK
<1>1. CASE LoadCached(w)
  <2>1. PICK d \in FoundDeals(job[w].id) :
          /\ dealEnvelope[d] # None
          /\ job' = [job EXCEPT ![w].deal = d, ![w].env = dealEnvelope[d]]
    BY <1>1 DEF LoadCached
  <2>2. pc[w] = "decided" /\ pc'[w] = "loaded" /\ UNCHANGED <<tables, memory>>
    BY <1>0, <1>1 DEF LoadCached, Goto
  <2>3. d \in Deals /\ DealOf[job[w].id] = d
    BY <1>0, <2>2, FoundIsOwn
  <2>4. /\ job'[w].deal = d /\ job'[w].env = dealEnvelope[d] /\ job'[w].id = job[w].id
        /\ job'[w].kind = job[w].kind /\ job'[w].scope = job[w].scope
        /\ job'[w].text = job[w].text
    BY <1>0, <2>1 DEF Jobs
  <2>5. ShowsEdited(envelope[dealEnvelope[d]], w)
    BY <1>0, <2>1, <2>2, <2>3 DEF TextJob, Copy
  <2> QED
    BY <1>0, <2>2, <2>4, <2>5 DEF TextJob, ShowsEdited, Planning, Resuming, tables, memory
<1>2. CASE LoadSaved(w)
  <2>1. PICK d \in FoundDeals(job[w].id), x \in FreshEnvelopes :
          /\ dealEnvelope[d] = None /\ snapshot[d] # NoEnvelope
          /\ envelope' = [envelope EXCEPT ![x] = snapshot[d]]
          /\ job' = [job EXCEPT ![w].deal = d, ![w].env = x]
    BY <1>2 DEF LoadSaved
  <2>2. /\ pc[w] = "decided" /\ pc'[w] = "hydrated"
        /\ UNCHANGED <<tables, dealEnvelope>>
    BY <1>0, <1>2 DEF LoadSaved, Goto
  <2>3. d \in Deals /\ DealOf[job[w].id] = d /\ x \in EnvelopeIds
    BY <1>0, <2>2, FoundIsOwn DEF FreshEnvelopes
  <2>4. /\ job'[w].deal = d /\ job'[w].env = x /\ job'[w].id = job[w].id
        /\ job'[w].kind = job[w].kind /\ job'[w].scope = job[w].scope
        /\ job'[w].text = job[w].text
    BY <1>0, <2>1 DEF Jobs
  <2>5. ShowsEdited(snapshot[d], w) /\ envelope'[x] = snapshot[d]
    BY <1>0, <2>1, <2>2, <2>3 DEF TextJob, Copy
  <2> QED
    BY <1>0, <2>2, <2>4, <2>5 DEF TextJob, ShowsEdited, Planning, Resuming, tables
<1>3. CASE StoreHydrated(w)
  <2>1. /\ dealEnvelope' = [dealEnvelope EXCEPT ![job[w].deal] = job[w].env]
        /\ UNCHANGED <<tables, envelope, job>> /\ pc[w] = "hydrated" /\ pc'[w] = "loaded"
    BY <1>0, <1>3 DEF StoreHydrated, Goto
  <2>2. job[w].deal \in Deals
    BY <1>0, <2>1, ServingDeal DEF Serving, PcValues
  <2> QED
    BY <1>0, <2>1, <2>2 DEF TextJob, ShowsEdited, Planning, Resuming, tables
<1> QED
  BY <1>1, <1>2, <1>3

\* A request that arrives: a new run has no row, and a decision finds its action at rest.
LEMMA RequestText ==
  ASSUME OneVersion, Apart', TextInv, NEW w \in Workers, Request(w)
  PROVE  TextJob(w)' /\ \A r \in Runs : runStatus[r] # "none" => runStatus'[r] # "none"
<1>0. /\ DealInv /\ job \in [Workers -> Jobs] /\ pc \in [Workers -> PcValues]
      /\ actionRow \in [Runs -> [status : ActionStatuses, body : Bodies \cup {None}]]
      /\ runStatus \in [Runs -> RunStatuses] /\ queue \subseteq Runs
  BY DEF TextInv, GateInv, DealInv, TypeInv, TypeOK
<1>1. ASSUME NEW d \in Deals, NEW kind \in Workflows, StartRun(w, d, kind)
      PROVE  TextJob(w)' /\ \A r \in Runs : runStatus[r] # "none" => runStatus'[r] # "none"
  <2>1. PICK r \in Runs, e \in FreshEnvelopes :
          /\ runStatus[r] = "none" /\ DealOf[r] = d
          /\ runStatus' = [runStatus EXCEPT ![r] = "running"]
          /\ job' = [job EXCEPT ![w] = [NoJob EXCEPT !.kind = kind, !.id = r,
                                        !.deal = d, !.env = e]]
    BY <1>1 DEF StartRun
  <2>2. pc'[w] = "created" /\ UNCHANGED <<actionRow, dealEnvelope>>
    BY <1>0, <1>1 DEF StartRun, Goto
  <2>3. /\ job'[w].id = r /\ job'[w].deal = d /\ job'[w].kind = kind
        /\ job'[w].scope = All /\ job'[w].text = None
    BY <1>0, <2>1 DEF NoJob
  <2>4. actionRow[r].status = "none"
    BY <2>1 DEF TextInv, AtRest
  <2>5. dealEnvelope[d] = None
    <3>1. SUFFICES ASSUME dealEnvelope[d] # None PROVE FALSE
      OBVIOUS
    <3>2. runIds[d] # None /\ runIds[d] \in Runs \cup {None}
      BY <1>0, <3>1 DEF DealInv, CacheOnDeal, TypeInv, TypeOK
    <3>3. DealOf[runIds[d]] = d /\ runStatus[runIds[d]] # "none"
      BY <1>0, <3>2 DEF DealInv, Directory, OnDeal
    <3> QED
      BY <2>1, <3>2, <3>3 DEF OneVersion, OneRunEach
  <2>6. TextJob(w)'
    BY <2>2, <2>3, <2>4, <2>5 DEF TextJob, Planning, Resuming
  <2> QED
    BY <1>0, <2>1, <2>6
<1>2. ASSUME NEW kind \in {"approve", "reject", "edit"}, NEW a \in Runs, NEW scope \in Scopes,
             NEW text \in Bodies \cup {None}, Decide(w, kind, a, scope, text),
             kind # "edit" => text = None
      PROVE  TextJob(w)' /\ \A r \in Runs : runStatus[r] # "none" => runStatus'[r] # "none"
  <2>1. /\ pc[w] = "idle" /\ pc'[w] = "decided"
        /\ UNCHANGED <<runStatus, snapshot, dealEnvelope, envelope>>
        /\ actionRow' = WithActionRow(a, StatusAfter(kind), text)
        /\ job' = [job EXCEPT ![w] = [NoJob EXCEPT !.kind = kind, !.id = a,
                                      !.scope = scope, !.text = text]]
    BY <1>0, <1>2 DEF Decide, Goto
  <2>2. /\ job'[w].id = a /\ job'[w].kind = kind /\ job'[w].scope = scope
        /\ job'[w].text = text /\ scope = All
    BY <1>0, <2>1 DEF NoJob, OneVersion
  <2>3. actionRow[a].status # "none"
    BY <1>2, DecidePasses DEF TextInv
  <2>4. Shows(Copy(DealOf[a]), a)
    <3>1. \A v \in Workers : ~Works(v, a)
      BY <1>0, <2>1, <2>2, OthersKept DEF Apart, Works
    <3> QED
      BY <2>3, <3>1 DEF TextInv, AtRest
  <2>5. actionRow'[a].body = IF text = None THEN actionRow[a].body ELSE text
    BY <1>0, <2>1, <2>3 DEF WithActionRow
  <2>6. Copy(DealOf[a])' = Copy(DealOf[a])
    BY <2>1 DEF Copy
  <2>7. ShowsEdited(Copy(DealOf[a]), w)'
    BY <2>2, <2>4, <2>5, <2>6 DEF Shows, ShowsEdited
  <2>8. TextJob(w)'
    BY <1>2, <2>1, <2>2, <2>7 DEF TextJob, Planning, Resuming
  <2> QED
    BY <2>1, <2>8
<1>3. EditTexts \subseteq Bodies \cup {None}
  BY OrchestratorAssumption
<1> QED
  BY <1>1, <1>2, <1>3 DEF Request, Approve, Reject, Edit

\* An action that no request is about, before the step or since, shows what it showed.
LEMMA RestKept ==
  ASSUME OneVersion, TextInv, NEW w \in Workers, Request(w) \/ Fault(w) \/ Step(w),
         NEW r \in Runs, actionRow'[r].status # "none", \A v \in Workers : ~Works(v, r)'
  PROVE  Shows(Copy(DealOf[r]), r)'
<1>0. /\ DealInv /\ job \in [Workers -> Jobs] /\ pc \in [Workers -> PcValues] /\ GateInv
  BY DEF TextInv, GateInv, DealInv, TypeInv, TypeOK
<1>1. CASE Ending(w) /\ r = job[w].id
  BY <1>1, EndingText
<1>2. CASE ~Works(w, r) /\ actionRow'[r] = actionRow[r]
  <2>1. pc[w] \in Serving => DealOf[r] # job[w].deal
    <3>1. SUFFICES ASSUME pc[w] \in Serving, DealOf[r] = job[w].deal PROVE FALSE
      OBVIOUS
    <3>2. job[w].id \in Runs /\ DealOf[job[w].id] = DealOf[r]
      BY <3>1, ServingText
    <3> QED
      BY <1>2, <3>1, <3>2 DEF OneVersion, OneRunEach, Works, Serving
  <2>2. DealOf[r] \in Deals
    BY OrchestratorAssumption
  <2>3. Copy(DealOf[r])' = Copy(DealOf[r])
    BY <1>0, <2>1, <2>2, CopyKept
  <2>4. Shows(Copy(DealOf[r]), r)
    <3>1. \A v \in Workers : ~Works(v, r)
      BY <1>0, <1>2, OthersKept DEF Works
    <3> QED
      BY <1>2, <3>1 DEF TextInv, AtRest
  <2> QED
    BY <1>2, <2>3, <2>4 DEF Shows
<1>3. CASE Request(w)
  <2>1. pc[w] = "idle" /\ pc'[w] # "idle"
    BY <1>0, <1>3 DEF Request, StartRun, Approve, Reject, Edit, Decide, Goto
  <2>2. ~UpsertAction(w) /\ ~Works(w, r)
    BY <2>1 DEF UpsertAction, Works
  <2>3. ASSUME NEW kind, NEW scope, NEW text, Decide(w, kind, r, scope, text) PROVE FALSE
    <3>1. job'[w].id = r
      BY <1>0, <2>3 DEF Decide, NoJob
    <3> QED
      BY <2>1, <3>1 DEF Works
  <2> QED
    BY <1>0, <1>2, <2>2, <2>3, RowsWritten
<1>4. CASE Step(w) \/ Fault(w)
  <2>1. pc[w] # "idle"
    BY <1>0, <1>4, StepsAreBusy
  <2>2. ASSUME ~Ending(w) PROVE job'[w].id = job[w].id /\ pc'[w] # "idle"
    <3>1. Advancing(w) \/ LoadCached(w) \/ LoadSaved(w) \/ StoreHydrated(w)
      BY <1>4, <2>2 DEF Step, Fault, Advancing, Ending
    <3> QED
      BY <1>0, <3>1, AdvancingPc, AdvancingJob, LoadingText DEF Serving
  <2>3. ASSUME NEW kind, NEW scope, NEW text, Decide(w, kind, r, scope, text) PROVE FALSE
    BY <2>1, <2>3 DEF Decide
  <2>4. ASSUME UpsertAction(w) PROVE ~Ending(w)
    BY <2>4, <1>0 DEF UpsertAction, Ending, SkipRun, AgentFail, ReturnStart, LoadFails,
       DecisionFails, ReviseLoaded, ResumeNothingLeft, ExecFail, EvalFail, ResumeFails, Complete
  <2>5. CASE r # job[w].id
    BY <1>0, <1>2, <1>4, <2>3, <2>5, RowsWritten DEF Works
  <2>6. CASE r = job[w].id
    BY <1>1, <2>2, <2>6 DEF Works
  <2> QED
    BY <2>5, <2>6
<1> QED
  BY <1>3, <1>4

\* A step caches no envelope on the deals it is not about.
LEMMA CacheKept ==
  ASSUME DealInv, NEW w \in Workers, Request(w) \/ Fault(w) \/ Step(w), NEW d \in Deals,
         pc[w] \in Serving => d # job[w].deal
  PROVE  dealEnvelope'[d] = dealEnvelope[d]
<1>0. dealEnvelope \in [Deals -> EnvelopeIds \cup {None}]
  BY DEF DealInv, TypeInv, TypeOK
<1>1. CASE Request(w)
  BY <1>1 DEF Request, StartRun, Approve, Reject, Edit, Decide
<1>2. CASE LoadCached(w) \/ LoadSaved(w)
  BY <1>2 DEF LoadCached, LoadSaved, memory
<1>3. CASE StoreHydrated(w)
  BY <1>0, <1>3 DEF StoreHydrated, Serving, PcValues
<1>4. CASE Advancing(w)
  BY <1>4 DEF Advancing, FirstSnapshot, AgentStep, UpsertAction, UpsertPlan, PlanAction,
     SnapshotAction, ApproveLoaded, Resume, ExecBegin, ExecStepBlocked, ExecStepAlready,
     ExecStepSend, StepDone, ExecEnd, ExecRetry, RecordExecution, PersistPlan,
     MarkExecuted, RecordOutcome, memory
<1>5. CASE Ending(w)
  BY <1>0, <1>5, EndingRuns DEF EndRequest
<1> QED
  BY <1>1, <1>2, <1>3, <1>4, <1>5 DEF Fault, Step, Advancing, Ending

\* The texts of the other requests stay as they are.
LEMMA OthersText ==
  ASSUME Apart, Apart', TextInv, NEW w \in Workers, Request(w) \/ Fault(w) \/ Step(w),
         NEW v \in Workers \ {w}
  PROVE  TextJob(v)'
<1>1. GateInv /\ DealInv /\ TextJob(v) /\ pc'[v] = pc[v] /\ job'[v] = job[v]
  BY OthersKept DEF TextInv, GateInv
<1>2. CASE pc[v] = "idle"
  BY <1>1, <1>2 DEF TextJob, Planning, Resuming
<1>3. CASE pc[v] # "idle"
  <2> DEFINE d == DealOf[job[v].id]
  <2>1. d \in Deals /\ (pc[w] \in Serving => job[w].deal # d)
    BY <1>1, <1>3, OtherRequests, OrchestratorAssumption
  <2>2. actionRow'[job[v].id] = actionRow[job[v].id]
    BY <1>1, <1>3, OtherRows
  <2>3. Copy(d)' = Copy(d) /\ dealEnvelope'[d] = dealEnvelope[d]
    BY <1>1, <2>1, CopyKept, CacheKept
  <2>4. CASE pc[v] = "decided"
    BY <1>1, <2>2, <2>3, <2>4 DEF TextJob, ShowsEdited, Planning, Resuming
  <2>5. CASE pc[v] # "decided"
    <3>1. pc[v] \in Serving /\ job[v].deal = d
      BY <1>1, <1>3, <2>5, ServingDeal DEF Serving, DealInv, TypeInv, TypeOK
    <3>2. envelope'[job[v].env] = envelope[job[v].env]
      BY <1>1, <1>3, <3>1, OtherRequests
    <3> QED
      BY <1>1, <2>2, <2>3, <2>5, <3>1, <3>2 DEF TextJob, ShowsEdited, Shows
  <2> QED
    BY <2>4, <2>5
<1> QED
  BY <1>2, <1>3

\* TextInv is inductive, as long as the process runs.
LEMMA NextTextInv ==
  ASSUME OneVersion, ~MayRestart
  PROVE  Apart /\ Apart' /\ TextInv /\ [Next]_vars => TextInv'
<1> SUFFICES ASSUME Apart, Apart', TextInv, [Next]_vars
             PROVE  AtRest' /\ \A w \in Workers : TextJob(w)'
  BY NextGateInv DEF TextInv
<1>1. ASSUME NEW w \in Workers, Request(w) \/ Fault(w) \/ Step(w)
      PROVE  AtRest' /\ \A v \in Workers : TextJob(v)'
  <2>0. GateInv /\ DealInv
    BY DEF TextInv, GateInv
  <2>1. TextJob(w)'
    BY <1>1, RequestText, EndingText, AdvancingText, LoadingText
       DEF Step, Fault, Advancing, Ending
  <2>2. ASSUME NEW r \in Runs, actionRow'[r].status # "none" PROVE runStatus'[r] # "none"
    <3>1. \A q \in Runs : runStatus[q] # "none" => runStatus'[q] # "none"
      BY <1>1, <2>0, RequestText, StepMonotone DEF Monotone
    <3>2. CASE actionRow[r].status # "none"
      BY <3>1, <3>2 DEF TextInv, AtRest
    <3>3. CASE UpsertAction(w) /\ r = job[w].id
      <4>1. pc[w] \in Serving
        BY <3>3 DEF UpsertAction, Serving, PcValues
      <4> QED
        BY <3>1, <3>3, <4>1, ServingText
    <3>4. CASE \E kind, scope, text : Decide(w, kind, r, scope, text)
      <4>1. PICK kind, scope, text : Decide(w, kind, r, scope, text)
        BY <3>4
      <4>2. CASE actionRow[r].status = "none"
        <5>1. actionRow' = actionRow
          BY <4>1, <4>2 DEF Decide, WithActionRow
        <5> QED
          BY <2>2, <4>2, <5>1
      <4> QED
        BY <3>2, <4>2
    <3> QED
      BY <1>1, <2>0, <2>2, <3>2, <3>3, <3>4, RowsWritten
  <2>3. AtRest'
    BY <1>1, <2>2, RestKept DEF AtRest
  <2> QED
    BY <1>1, <2>1, <2>3, OthersText
<1>2. CASE UNCHANGED vars
  <2>1. UNCHANGED <<actionRow, runStatus, dealEnvelope, envelope, snapshot, pc, job>>
    BY <1>2 DEF vars, tables, memory
  <2>2. \A d : Copy(d)' = Copy(d)
    BY <2>1 DEF Copy
  <2>3. AtRest'
    BY <2>1, <2>2 DEF TextInv, AtRest, Works, Shows
  <2>4. \A w \in Workers : TextJob(w)'
    BY <2>1, <2>2 DEF TextInv, TextJob, Shows, ShowsEdited
  <2> QED
    BY <2>3, <2>4
<1>3. CASE Restart
  BY <1>3 DEF Restart
<1> QED
  BY <1>1, <1>2, <1>3 DEF Next

\* With one run for each deal and decisions about whole actions, and as long as requests
\* that overlap are about different deals, what is sent as the first step is, as long as
\* the process runs, the text that the row of the action shows to its approver, whatever was
\* edited, rejected, approved again or raised before (action_repo.py:122-155, service.py:76-167).
THEOREM TextHolds ==
  ASSUME OneVersion, ~MayRestart PROVE Spec /\ []Apart => []ApprovedTextIsSent
<1>1. Init => TextInv
  <2> SUFFICES ASSUME Init PROVE TextInv
    OBVIOUS
  <2>1. GateInv
    BY InitDealInv DEF Init, GateInv, QueueFiled, PassedGate
  <2> QED
    BY <2>1 DEF Init, TextInv, AtRest, TextJob, NoJob, Planning, Resuming
<1>2. TextInv => ApprovedTextIsSent
  <2> SUFFICES ASSUME TextInv, NEW w \in Workers, CallsTool(w), job[w].next = 1
               PROVE  envelope[job[w].env].body[1] = actionRow[Target(w)].body
    BY DEF ApprovedTextIsSent
  <2>1. pc[w] = "steps" /\ pc[w] \in Serving
    BY DEF CallsTool, Serving, PcValues
  <2>2. job[w].id = Target(w)
    BY <2>1, ServingDeal DEF TextInv, GateInv, OneVersion, OneRunEach
  <2>3. Shows(envelope[job[w].env], job[w].id)
    BY <2>1 DEF TextInv, TextJob, Planning, Resuming
  <2> QED
    BY <2>2, <2>3 DEF Shows
<1> QED
  BY <1>1, <1>2, NextTextInv, PTL DEF Spec

------------------------------------------------------------------------------
(* One thread: a server that answers one request at a time. *)

\* A single thread's requests never overlap, so its server implements OutreachLedger in
\* every behaviour, and where each deal has one run it passes the gate (service.py:85-107,
\* runner.py:449-507).
THEOREM OneByOne ==
  ASSUME \A v, w \in Workers : v = w
  PROVE  /\ Spec => ImplementsLedger /\ LoggedStepsStaySent
         /\ OneRunEach => (Spec => []ExecutedActionIsApproved)
<1>1. Apart
  BY DEF Apart
<1>2. []Apart
  BY <1>1, PTL
<1>3. Spec => ImplementsLedger /\ LoggedStepsStaySent
  BY <1>2, LedgerKept, LoggedIsNotSent
<1>4. ASSUME OneRunEach PROVE Spec => []ExecutedActionIsApproved
  BY <1>2, <1>4, GateHolds
<1> QED
  BY <1>3, <1>4

=============================================================================
