------------------------------ MODULE DealProofs ------------------------------
(***************************************************************************)
(* Theorems about lookups by deal: a tool is called only on a deal where   *)
(* something was let through, what is filed belongs to the deal, and a     *)
(* resumed request always knows a run of the deal; for any number of       *)
(* deals, runs, steps and threads, with crashes and exceptions.            *)
(*                                                                         *)
(* None of the three is inductive.  DealInv adds that everything the       *)
(* engine finds under a deal (newest run, current run, newest snapshot,    *)
(* cached envelope, and what a thread took from them) is of that deal, and *)
(* that the run of a deal is known whenever its envelope is.               *)
(***************************************************************************)
EXTENDS OrchestratorProofs

\* A run of the deal d, once there is one.
OnDeal(d, r) == r # None => DealOf[r] = d /\ runStatus[r] # "none"

\* The deal's newest run, its current run and its newest snapshot.
Directory == \A d \in Deals :
  /\ OnDeal(d, latestRun[d]) /\ OnDeal(d, runIds[d])
  /\ runIds[d] # None => latestRun[d] # None
  /\ snapshot[d] # NoEnvelope => latestRun[d] # None /\ DealOf[snapshot[d].run] = d

CacheOnDeal == \A d \in Deals :
  dealEnvelope[d] # None
    => runIds[d] # None /\ DealOf[envelope[dealEnvelope[d]].run] = d

\* What a request does after its plan is made, and after it is let through.
Planning == {"action_row", "step_rows", "action_snapshot", "returning"}
Resuming == {"resuming", "executing", "steps", "record", "plan_rows", "mark",
             "evaluating", "completing"}

JobOnDeal(w) ==
  /\ pc[w] \in Serving => /\ DealOf[job[w].id] = job[w].deal
                          /\ DealOf[Target(w)] = job[w].deal
                          /\ OnDeal(job[w].deal, job[w].rid)
                          /\ latestRun[job[w].deal] # None
  /\ pc[w] \in Serving \ {"hydrated"} => runIds[job[w].deal] # None
  /\ pc[w] = "decided" => job[w].rid = None
  /\ \/ pc[w] # "idle" /\ job[w].kind = "approve"
     \/ pc[w] \in Planning /\ job[w].kind = "crm_sync"
     \/ pc[w] \in Resuming
     => job[w].id \in granted

JobsOnDeal == \A w \in Workers : JobOnDeal(w)

DealInv ==
  TypeInv /\ Directory /\ CacheOnDeal /\ JobsOnDeal /\ FiledOnOwnDeal /\ EffectsNeedGrant

\* What a step never takes back, a restart apart.
Monotone ==
  /\ \A r \in Runs : runStatus[r] # "none" => runStatus'[r] # "none"
  /\ granted \subseteq granted'
  /\ \A d \in Deals : /\ latestRun[d] # None => latestRun'[d] # None
                      /\ runIds[d] # None => runIds'[d] # None

\* A step of w leaves the program counters and the locals of the others alone.
LEMMA OtherThreads ==
  ASSUME TypeInv, NEW w \in Workers
  PROVE  /\ \A label : Goto(w, label)
              => pc'[w] = label /\ \A v \in Workers \ {w} : pc'[v] = pc[v]
         /\ \A j : job' = [job EXCEPT ![w] = j]
              => job'[w] = j /\ \A v \in Workers \ {w} : job'[v] = job[v]
BY DEF TypeInv, TypeOK, Goto

\* What a request that serves a deal relies on.
LEMMA ServingDeal ==
  ASSUME DealInv, NEW w \in Workers, pc[w] \in Serving
  PROVE  /\ job[w] \in Jobs /\ job[w].id \in Runs /\ job[w].deal \in Deals
         /\ job[w].env \in EnvelopeIds /\ envelope[job[w].env] \in EnvelopeValues
         /\ Target(w) \in Runs /\ envelope[job[w].env] # NoEnvelope
         /\ job[w].rid \in Runs \cup {None}
         /\ DealOf[job[w].id] = job[w].deal /\ DealOf[Target(w)] = job[w].deal
         /\ OnDeal(job[w].deal, job[w].rid)
         /\ latestRun[job[w].deal] # None
<1>1. TypeInv /\ JobOnDeal(w)
  BY DEF DealInv, JobsOnDeal
<1>2. /\ job[w] \in Jobs /\ job[w].id \in Runs /\ job[w].deal \in Deals
      /\ job[w].env \in EnvelopeIds /\ envelope[job[w].env] \in EnvelopeValues
      /\ Target(w) \in Runs /\ envelope[job[w].env] # NoEnvelope
  BY <1>1, ServingFacts
<1>3. job[w].rid \in Runs \cup {None}
  BY <1>2 DEF Jobs
<1> QED
  BY <1>1, <1>2, <1>3 DEF JobOnDeal

\* A run of a deal stays one.
LEMMA OnDealKept ==
  ASSUME Monotone, NEW d \in Deals, NEW r \in Runs \cup {None}, OnDeal(d, r)
  PROVE  r # None => DealOf[r] = d /\ runStatus'[r] # "none"
BY DEF Monotone, OnDeal

\* The other threads, when w takes a step that leaves their locals and the runs of
\* their envelopes alone.
LEMMA OthersOnDeal ==
  ASSUME DealInv, NEW w \in Workers, Monotone,
         \A v \in Workers \ {w} : pc'[v] = pc[v] /\ job'[v] = job[v],
         \A v \in Workers \ {w} : pc[v] \in Serving =>
           envelope'[job[v].env].run = envelope[job[v].env].run,
         JobOnDeal(w)'
  PROVE  JobsOnDeal'
<1> SUFFICES ASSUME NEW v \in Workers, v # w PROVE JobOnDeal(v)'
  BY DEF JobsOnDeal
<1>1. pc'[v] = pc[v] /\ job'[v] = job[v] /\ JobOnDeal(v)
  BY DEF DealInv, JobsOnDeal
<1>2. ASSUME pc[v] \in Serving
      PROVE  /\ DealOf[job[v].id] = job[v].deal
             /\ Target(v)' = Target(v) /\ DealOf[Target(v)] = job[v].deal
             /\ OnDeal(job[v].deal, job[v].rid)'
             /\ latestRun'[job[v].deal] # None
  <2>1. Target(v)' = Target(v)
    BY <1>1, <1>2 DEF Target
  <2>2. OnDeal(job[v].deal, job[v].rid)'
    BY <1>1, <1>2, ServingDeal, OnDealKept DEF OnDeal
  <2> QED
    BY <1>2, <2>1, <2>2, ServingDeal DEF Monotone
<1>3. ASSUME pc[v] \in Serving \ {"hydrated"} PROVE runIds'[job[v].deal] # None
  BY <1>1, <1>3, ServingDeal DEF JobOnDeal, Monotone
<1> QED
  BY <1>1, <1>2, <1>3 DEF JobOnDeal, Monotone

\* The directory when a step writes no entry but a snapshot of its own deal.
LEMMA DirectoryKept ==
  ASSUME DealInv, NEW w \in Workers, Monotone,
         UNCHANGED <<latestRun, runIds>>,
         snapshot' = snapshot \/ (pc[w] \in Serving /\ snapshot' = WithSnapshot(w))
  PROVE  Directory'
<1> SUFFICES ASSUME NEW d \in Deals
             PROVE  /\ OnDeal(d, latestRun[d])' /\ OnDeal(d, runIds[d])'
                    /\ runIds'[d] # None => latestRun'[d] # None
                    /\ snapshot'[d] # NoEnvelope
                         => latestRun'[d] # None /\ DealOf[snapshot'[d].run] = d
  BY DEF Directory
<1>1. /\ latestRun[d] \in Runs \cup {None} /\ runIds[d] \in Runs \cup {None}
      /\ OnDeal(d, latestRun[d]) /\ OnDeal(d, runIds[d])
      /\ runIds[d] # None => latestRun[d] # None
      /\ snapshot[d] # NoEnvelope => latestRun[d] # None /\ DealOf[snapshot[d].run] = d
      /\ snapshot \in [Deals -> EnvelopeValues \cup {NoEnvelope}]
  BY DEF DealInv, Directory, TypeInv, TypeOK
<1>2. OnDeal(d, latestRun[d])' /\ OnDeal(d, runIds[d])'
  BY <1>1, OnDealKept DEF OnDeal
<1>3. CASE snapshot' = snapshot
  BY <1>1, <1>2, <1>3
<1>4. CASE pc[w] \in Serving /\ snapshot' = WithSnapshot(w)
  <2>1. DealOf[envelope[job[w].env].run] = job[w].deal /\ latestRun[job[w].deal] # None
    BY <1>4, ServingDeal DEF Target
  <2> QED
    BY <1>1, <1>2, <1>4, <2>1 DEF WithSnapshot
<1> QED
  BY <1>3, <1>4

\* What is filed, when a step files at most its own run under its own target.
LEMMA FiledKept ==
  ASSUME DealInv, NEW w \in Workers, Monotone,
         \/ UNCHANGED <<execLog, outcomeRow>>
         \/ /\ pc[w] \in Serving
            /\ \A a \in Runs : /\ \/ execLog'[a] = execLog[a]
                                  \/ a = Target(w) /\ execLog'[a] = job[w].rid
                               /\ \/ outcomeRow'[a] = outcomeRow[a]
                                  \/ a = Target(w) /\ outcomeRow'[a] = job[w].rid
  PROVE  FiledOnOwnDeal'
<1> SUFFICES ASSUME NEW a \in Runs, NEW r, r # None,
                    r = execLog'[a] \/ r = outcomeRow'[a]
             PROVE  DealOf[r] = DealOf[a] /\ runStatus'[r] # "none"
  BY DEF FiledOnOwnDeal
<1>1. ASSUME r = execLog[a] \/ r = outcomeRow[a]
      PROVE  DealOf[r] = DealOf[a] /\ runStatus'[r] # "none"
  <2>1. r \in Runs
    BY <1>1 DEF DealInv, TypeInv, TypeOK
  <2> QED
    BY <1>1, <2>1 DEF DealInv, FiledOnOwnDeal, Monotone
<1>2. ASSUME pc[w] \in Serving, a = Target(w), r = job[w].rid
      PROVE  DealOf[r] = DealOf[a] /\ runStatus'[r] # "none"
  BY <1>2, ServingDeal, OnDealKept
<1> QED
  BY <1>1, <1>2

\* Calls that have their grant, when a step makes at most one of its own.
LEMMA EffectsKept ==
  ASSUME DealInv, NEW w \in Workers, Monotone,
         \/ UNCHANGED sends
         \/ /\ pc[w] \in Resuming
            /\ \A r \in Runs, i \in Steps :
                 sends'[r][i] > 0 => sends[r][i] > 0 \/ r = Target(w)
  PROVE  EffectsNeedGrant'
<1> SUFFICES ASSUME NEW r \in Runs, NEW i \in Steps, sends'[r][i] > 0
             PROVE  \E g \in granted' : DealOf[g] = DealOf[r]
  BY DEF EffectsNeedGrant
<1>1. CASE sends[r][i] > 0
  BY <1>1 DEF DealInv, EffectsNeedGrant, Monotone
<1>2. CASE pc[w] \in Resuming /\ r = Target(w)
  <2>1. pc[w] \in Serving
    BY <1>2 DEF Resuming, Serving, PcValues
  <2>2. job[w].id \in granted /\ DealOf[job[w].id] = DealOf[r]
    BY <1>2, <2>1, ServingDeal DEF DealInv, JobsOnDeal, JobOnDeal
  <2> QED
    BY <2>2 DEF Monotone
<1> QED
  BY <1>1, <1>2

\* A request that goes on with the deal, the envelope and the run it has.
LEMMA AdvanceDeal ==
  ASSUME DealInv, NEW w \in Workers, pc[w] \in Serving \ {"hydrated"}, Monotone,
         UNCHANGED <<latestRun, runIds, dealEnvelope>>,
         snapshot' = snapshot \/ snapshot' = WithSnapshot(w),
         \A e \in EnvelopeIds : envelope[e] \in EnvelopeValues
                                  => envelope'[e].run = envelope[e].run,
         \A v \in Workers \ {w} : pc'[v] = pc[v] /\ job'[v] = job[v],
         pc'[w] \in Serving \ {"hydrated"},
         /\ job'[w].id = job[w].id /\ job'[w].deal = job[w].deal
         /\ job'[w].env = job[w].env /\ job'[w].kind = job[w].kind
         /\ job'[w].rid = job[w].rid \/ job'[w].rid = runIds[job[w].deal],
         pc'[w] \in Planning /\ job[w].kind = "crm_sync" => job[w].id \in granted',
         pc'[w] \in Resuming => job[w].id \in granted'
  PROVE  Directory' /\ CacheOnDeal' /\ JobsOnDeal'
<1>1. Directory'
  BY DirectoryKept
<1>2. CacheOnDeal'
  BY DEF CacheOnDeal, DealInv, TypeInv, TypeOK, CacheOK
<1>3. JobOnDeal(w)'
  <2>1. /\ JobOnDeal(w) /\ pc[w] \in Serving /\ pc[w] # "idle"
        /\ runIds[job[w].deal] # None
    BY DEF DealInv, JobsOnDeal, JobOnDeal, Serving
  <2>2. /\ DealOf[job'[w].id] = job'[w].deal
        /\ Target(w)' = Target(w) /\ DealOf[Target(w)] = job'[w].deal
        /\ latestRun'[job'[w].deal] # None /\ runIds'[job'[w].deal] # None
    BY <2>1, ServingDeal DEF Target
  <2>3. OnDeal(job[w].deal, job[w].rid)'
    <3>1. OnDeal(job[w].deal, runIds[job[w].deal])
      BY <2>1, ServingDeal DEF DealInv, Directory
    <3>2. OnDeal(job[w].deal, job[w].rid) /\ job[w].deal \in Deals
          /\ job[w].rid \in Runs \cup {None} /\ runIds[job[w].deal] \in Runs \cup {None}
      BY <2>1, ServingDeal DEF DealInv, TypeInv, TypeOK
    <3> QED
      BY <3>1, <3>2, OnDealKept DEF OnDeal
  <2>4. pc'[w] # "decided" /\ (job[w].kind = "approve" => job[w].id \in granted')
    BY <2>1 DEF JobOnDeal, Monotone, Serving
  <2> QED
    BY <2>2, <2>3, <2>4 DEF JobOnDeal
<1>4. ASSUME NEW v \in Workers, pc[v] \in Serving
      PROVE  envelope'[job[v].env].run = envelope[job[v].env].run
  BY <1>4, ServingDeal
<1> QED
  BY <1>1, <1>2, <1>3, <1>4, OthersOnDeal

\* A request that ends, with or without its envelope in the cache.
LEMMA EndDeal ==
  ASSUME DealInv, NEW w \in Workers, Monotone,
         UNCHANGED <<latestRun, runIds, execLog, outcomeRow, sends>>,
         snapshot' = snapshot \/ (pc[w] \in Serving /\ snapshot' = WithSnapshot(w)),
         NEW de, NEW es, EndRequest(w, de, es),
         \A e \in EnvelopeIds : envelope[e] \in EnvelopeValues => es[e].run = envelope[e].run,
         \/ de = dealEnvelope
         \/ /\ pc[w] \in Serving \ {"hydrated"}
            /\ de = [dealEnvelope EXCEPT ![job[w].deal] = job[w].env]
  PROVE  /\ Directory' /\ CacheOnDeal' /\ JobsOnDeal'
         /\ FiledOnOwnDeal' /\ EffectsNeedGrant'
<1>1. Directory'
  BY DirectoryKept
<1>2. FiledOnOwnDeal' /\ EffectsNeedGrant'
  BY FiledKept, EffectsKept
<1>3. CacheOnDeal'
  <2> SUFFICES ASSUME NEW d \in Deals, de[d] # None
               PROVE  runIds[d] # None /\ DealOf[envelope'[de[d]].run] = d
    BY DEF CacheOnDeal, EndRequest
  <2>1. \A x \in Deals : dealEnvelope[x] # None =>
          /\ runIds[x] # None /\ DealOf[envelope[dealEnvelope[x]].run] = x
          /\ envelope[dealEnvelope[x]] \in EnvelopeValues
          /\ dealEnvelope[x] \in EnvelopeIds
    BY DEF DealInv, CacheOnDeal, TypeInv, TypeOK, CacheOK
  <2>2. ASSUME pc[w] \in Serving \ {"hydrated"}
        PROVE  /\ runIds[job[w].deal] # None /\ job[w].env \in EnvelopeIds
               /\ DealOf[envelope[job[w].env].run] = job[w].deal
               /\ envelope[job[w].env] \in EnvelopeValues
    BY <2>2, ServingDeal DEF DealInv, JobsOnDeal, JobOnDeal, Target
  <2>3. dealEnvelope \in [Deals -> EnvelopeIds \cup {None}]
    BY DEF DealInv, TypeInv, TypeOK
  <2>4. /\ runIds[d] # None /\ de[d] \in EnvelopeIds
        /\ DealOf[envelope[de[d]].run] = d /\ envelope[de[d]] \in EnvelopeValues
    <3>1. CASE de[d] = dealEnvelope[d]
      BY <3>1, <2>1
    <3>2. CASE de[d] # dealEnvelope[d]
      BY <3>2, <2>2, <2>3
    <3> QED
      BY <3>1, <3>2
  <2>5. envelope'[de[d]] = es[de[d]]
    BY <2>4 DEF EndRequest
  <2> QED
    BY <2>4, <2>5
<1>4. JobsOnDeal'
  <2>1. pc'[w] = "idle" /\ \A v \in Workers \ {w} : pc'[v] = pc[v] /\ job'[v] = job[v]
    BY DEF EndRequest, Goto, DealInv, TypeInv, TypeOK
  <2>2. ASSUME NEW v \in Workers \ {w}, pc[v] \in Serving
        PROVE  envelope'[job[v].env].run = envelope[job[v].env].run
    <3>1. job[v].env \in EnvelopeIds /\ envelope[job[v].env] \in EnvelopeValues
      BY <2>2, ServingDeal
    <3> QED
      BY <3>1 DEF EndRequest
  <2>3. JobOnDeal(w)'
    BY <2>1 DEF JobOnDeal, Serving, Planning, Resuming
  <2> QED
    BY <2>1, <2>2, <2>3, OthersOnDeal
<1> QED
  BY <1>1, <1>2, <1>3, <1>4

\* A step of a request takes back no run, no grant and no entry of a deal.
LEMMA StepMonotone ==
  ASSUME DealInv, NEW w \in Workers, Step(w) \/ Fault(w)
  PROVE  Monotone
<1>1. /\ runStatus \in [Runs -> RunStatuses] /\ granted \subseteq Runs
      /\ latestRun \in [Deals -> Runs \cup {None}]
      /\ runIds \in [Deals -> Runs \cup {None}]
  BY DEF DealInv, TypeInv, TypeOK
<1>2. \A r \in Runs : runStatus[r] # "none" => runStatus'[r] # "none"
  <2>1. ASSUME NEW x, NEW st, st # "none", runStatus' = WithStatus(x, st)
        PROVE  \A r \in Runs : runStatus[r] # "none" => runStatus'[r] # "none"
    BY <1>1, <2>1 DEF WithStatus
  <2>2. ASSUME ResumeFails(w)
        PROVE  \A r \in Runs : runStatus[r] # "none" => runStatus'[r] # "none"
    BY <1>1, <2>2 DEF ResumeFails
  <2>3. CASE Fault(w)
    BY <2>1, <2>2, <2>3 DEF Fault, AgentFail, ExecFail, ExecRetry, EvalFail, tables
  <2>4. CASE UNCHANGED runStatus
    BY <2>4
  <2>5. CASE \E plan \in {"pending_approval", "approved"} : PlanAction(w, plan)
    <3>1. PICK x, st : st # "none" /\ runStatus' = WithStatus(x, st)
      BY <2>5 DEF PlanAction, Planned
    <3> QED
      BY <3>1, <2>1
  <2>6. CASE FirstSnapshot(w) \/ SkipRun(w) \/ AgentStep(w) \/ MarkExecuted(w) \/ Complete(w)
    BY <2>1, <2>6 DEF FirstSnapshot, SkipRun, AgentStep, MarkExecuted, Complete
  <2>7. CASE Step(w)
    BY <2>4, <2>5, <2>6, <2>7
       DEF Step, UpsertAction, UpsertPlan, SnapshotAction, ReturnStart, LoadCached, LoadSaved,
           StoreHydrated, LoadFails, DecisionFails, ApproveLoaded, ReviseLoaded,
           ResumeNothingLeft, Resume, ExecBegin, ExecStepBlocked, ExecStepAlready, ExecStepSend,
           StepDone, ExecEnd, RecordExecution, PersistPlan, RecordOutcome, tables
  <2> QED
    BY <2>3, <2>7
<1>3. granted \subseteq granted'
  <2>1. CASE UNCHANGED granted
    BY <2>1
  <2>2. CASE \E plan \in {"pending_approval", "approved"} : PlanAction(w, plan)
    BY <2>2 DEF PlanAction, Planned
  <2>3. CASE Fault(w)
    BY <2>1, <2>3 DEF Fault, AgentFail, ExecFail, ExecRetry, EvalFail, ResumeFails
  <2>4. CASE Step(w)
    BY <2>1, <2>2, <2>4
       DEF Step, FirstSnapshot, SkipRun, AgentStep, UpsertAction, UpsertPlan, SnapshotAction,
           ReturnStart, LoadCached, LoadSaved, StoreHydrated, LoadFails, DecisionFails,
           ApproveLoaded, ReviseLoaded, ResumeNothingLeft, Resume, ExecBegin, ExecStepBlocked,
           ExecStepAlready, ExecStepSend, StepDone, ExecEnd, RecordExecution, PersistPlan,
           MarkExecuted, RecordOutcome, Complete
  <2> QED
    BY <2>3, <2>4
<1>4. \A d \in Deals : /\ latestRun[d] # None => latestRun'[d] # None
                       /\ runIds[d] # None => runIds'[d] # None
  <2>1. CASE UNCHANGED <<latestRun, runIds>>
    BY <2>1
  <2>2. CASE StoreHydrated(w)
    <3>1. pc[w] = "hydrated" /\ pc[w] \in Serving
      BY <2>2 DEF StoreHydrated, Serving, PcValues
    <3>2. latestRun[job[w].deal] # None /\ job[w].deal \in Deals
      BY <3>1, ServingDeal
    <3> QED
      BY <1>1, <2>2, <3>2 DEF StoreHydrated, tables
  <2>3. CASE Fault(w)
    BY <2>1, <2>3 DEF Fault, AgentFail, ExecFail, ExecRetry, EvalFail, ResumeFails, tables, memory
  <2>4. CASE \E plan \in {"pending_approval", "approved"} : PlanAction(w, plan)
    BY <2>1, <2>4 DEF PlanAction
  <2>5. CASE Step(w)
    BY <2>1, <2>2, <2>4, <2>5
       DEF Step, FirstSnapshot, SkipRun, AgentStep, UpsertAction, UpsertPlan, SnapshotAction,
           ReturnStart, LoadCached, LoadSaved, LoadFails, DecisionFails,
           ApproveLoaded, ReviseLoaded, ResumeNothingLeft, Resume, ExecBegin, ExecStepBlocked,
           ExecStepAlready, ExecStepSend, StepDone, ExecEnd, RecordExecution, PersistPlan,
           MarkExecuted, RecordOutcome, Complete, tables, memory
  <2> QED
    BY <2>3, <2>5
<1> QED
  BY <1>2, <1>3, <1>4 DEF Monotone

\* Steps that keep the run of every envelope object.
LEMMA RunsKept ==
  ASSUME DealInv, NEW w \in Workers, pc[w] \in Serving,
         \/ UNCHANGED envelope
         \/ \E plan \in {"pending_approval", "approved"} : PlanAction(w, plan)
         \/ ApproveLoaded(w) \/ Resume(w)
         \/ \E result : StepDone(w, result)
  PROVE  \A e \in EnvelopeIds : envelope[e] \in EnvelopeValues
                                  => envelope'[e].run = envelope[e].run
<1> DEFINE env == envelope[job[w].env]
<1>1. /\ job[w].env \in EnvelopeIds /\ env \in EnvelopeValues
      /\ envelope \in [EnvelopeIds -> EnvelopeValues \cup {NoEnvelope}]
  BY ServingDeal DEF DealInv, TypeInv, TypeOK
<1>2. CASE \E new : new.run = env.run /\ envelope' = [envelope EXCEPT ![job[w].env] = new]
  BY <1>1, <1>2
<1>3. CASE \E plan \in {"pending_approval", "approved"} : PlanAction(w, plan)
  <2>1. PICK plan \in {"pending_approval", "approved"}, text \in [Steps -> Generated] :
          Planned(w, text, plan)
    BY <1>3 DEF PlanAction
  <2> DEFINE new == [env EXCEPT !.plan = plan, !.body = text,
                                !.stat = [i \in Steps |-> plan]]
  <2>2. envelope' = [envelope EXCEPT ![job[w].env] = new]
    BY <1>1, <2>1 DEF Planned, EnvelopeValues
  <2>3. new.run = env.run
    BY <1>1 DEF EnvelopeValues
  <2> HIDE DEF new
  <2> QED
    BY <1>2, <2>2, <2>3
<1>4. CASE ApproveLoaded(w)
  <2> DEFINE new == ApprovedPlan(env, PlanScope(w))
  <2>1. new.run = env.run
    BY <1>1 DEF ApprovedPlan, EnvelopeValues
  <2>2. envelope' = [envelope EXCEPT ![job[w].env] = new]
    BY <1>1, <1>4 DEF ApproveLoaded
  <2> HIDE DEF new
  <2> QED
    BY <1>2, <2>1, <2>2
<1>5. CASE Resume(w)
  <2> DEFINE new == [env EXCEPT !.plan = "approved", !.stat = ResumedStat(env)]
  <2>1. new.run = env.run
    BY <1>1 DEF EnvelopeValues
  <2>2. envelope' = [envelope EXCEPT ![job[w].env] = new]
    BY <1>1, <1>5 DEF Resume, ResumedEnvelopes
  <2> HIDE DEF new
  <2> QED
    BY <1>2, <2>1, <2>2
<1>6. CASE \E result : StepDone(w, result)
  <2>1. PICK result : StepDone(w, result)
    BY <1>6
  <2> DEFINE new == [env EXCEPT !.stat[job[w].next] = result]
  <2>2. new.run = env.run
    BY <1>1 DEF EnvelopeValues
  <2>3. envelope' = [envelope EXCEPT ![job[w].env] = new]
    BY <1>1, <2>1 DEF StepDone
  <2> HIDE DEF new
  <2> QED
    BY <1>2, <2>2, <2>3
<1> QED
  BY <1>3, <1>4, <1>5, <1>6

Advancing(w) ==
  \/ FirstSnapshot(w) \/ AgentStep(w) \/ UpsertAction(w) \/ UpsertPlan(w)
  \/ \E plan \in {"pending_approval", "approved"} : PlanAction(w, plan)
  \/ SnapshotAction(w) \/ ApproveLoaded(w) \/ Resume(w) \/ ExecBegin(w)
  \/ ExecStepBlocked(w) \/ ExecStepAlready(w) \/ ExecStepSend(w) \/ ExecEnd(w)
  \/ ExecRetry(w) \/ RecordExecution(w) \/ PersistPlan(w) \/ MarkExecuted(w)
  \/ RecordOutcome(w)

\* What an advancing step does to the locals of its worker.
LEMMA AdvancingJob ==
  ASSUME DealInv, NEW w \in Workers, Advancing(w)
  PROVE  /\ job'[w].id = job[w].id /\ job'[w].deal = job[w].deal
         /\ job'[w].env = job[w].env /\ job'[w].kind = job[w].kind
         /\ job'[w].rid = job[w].rid \/ job'[w].rid = runIds[job[w].deal]
         /\ \A v \in Workers \ {w} : job'[v] = job[v]
<1>1. TypeInv /\ job \in [Workers -> Jobs]
  BY DEF DealInv, TypeInv, TypeOK
<1>3. CASE UNCHANGED job
  BY <1>3
<1>4. CASE AgentStep(w)
  BY <1>1, <1>4 DEF AgentStep, Jobs
<1>5. CASE Resume(w)
  BY <1>1, <1>5 DEF Resume, Jobs
<1>6. CASE ExecBegin(w)
  BY <1>1, <1>6 DEF ExecBegin, Jobs
<1>7. ASSUME NEW result, StepDone(w, result)
      PROVE  /\ job'[w].id = job[w].id /\ job'[w].deal = job[w].deal
             /\ job'[w].env = job[w].env /\ job'[w].kind = job[w].kind
             /\ job'[w].rid = job[w].rid \/ job'[w].rid = runIds[job[w].deal]
             /\ \A v \in Workers \ {w} : job'[v] = job[v]
  BY <1>1, <1>7 DEF StepDone, Jobs
<1> QED
  BY <1>3, <1>4, <1>5, <1>6, <1>7
     DEF Advancing, FirstSnapshot, UpsertAction, UpsertPlan, PlanAction, SnapshotAction,
         ApproveLoaded, ExecStepBlocked, ExecStepAlready, ExecStepSend, ExecEnd, ExecRetry,
         RecordExecution, PersistPlan, MarkExecuted, RecordOutcome

\* Where an advancing step leads, and that a request is let through before it resumes:
\* by the decision it carries, or as a CRM plan that nobody has to approve.
LEMMA AdvancingPc ==
  ASSUME DealInv, NEW w \in Workers, Advancing(w)
  PROVE  /\ pc[w] \in Serving \ {"hydrated"} /\ pc'[w] \in Serving \ {"hydrated"}
         /\ \A v \in Workers \ {w} : pc'[v] = pc[v]
         /\ pc'[w] \in Planning /\ job[w].kind = "crm_sync" => job[w].id \in granted'
         /\ pc'[w] \in Resuming => job[w].id \in granted'
<1>1. TypeInv /\ JobOnDeal(w) /\ pc \in [Workers -> PcValues] /\ granted \subseteq granted'
  <2>1. Step(w) \/ Fault(w)
    BY DEF Advancing, Step, Fault
  <2> QED
    BY <2>1, StepMonotone DEF DealInv, JobsOnDeal, TypeInv, TypeOK, Monotone
<1>2. CASE \E plan \in {"pending_approval", "approved"} : PlanAction(w, plan)
  <2>1. PICK plan \in {"pending_approval", "approved"} : PlanAction(w, plan)
    BY <1>2
  <2>2. /\ pc[w] = "agents" /\ Goto(w, "action_row")
        /\ job[w].kind = "crm_sync" => plan = "approved"
        /\ plan = "approved" => granted' = granted \cup {job[w].id}
    BY <2>1 DEF PlanAction, Planned
  <2> QED
    BY <1>1, <2>2, OtherThreads DEF Planning, Resuming, Serving, PcValues
<1>3. CASE FirstSnapshot(w) \/ AgentStep(w)
  BY <1>1, <1>3, OtherThreads DEF FirstSnapshot, AgentStep, Planning, Resuming, Serving, PcValues
<1>4. CASE UpsertAction(w) \/ UpsertPlan(w)
  BY <1>1, <1>4, OtherThreads
     DEF UpsertAction, UpsertPlan, Planning, Resuming, Serving, PcValues, JobOnDeal
<1>5. CASE SnapshotAction(w)
  <2>1. /\ pc[w] = "action_snapshot"
        /\ pc'[w] = (IF job[w].kind = "crm_sync" THEN "resuming" ELSE "returning")
        /\ \A v \in Workers \ {w} : pc'[v] = pc[v]
    BY <1>1, <1>5, OtherThreads DEF SnapshotAction
  <2>2. job[w].kind = "crm_sync" => job[w].id \in granted
    BY <1>1, <2>1 DEF JobOnDeal, Planning
  <2> QED
    BY <1>1, <2>1, <2>2 DEF Planning, Resuming, Serving, PcValues
<1>6. CASE ApproveLoaded(w)
  BY <1>1, <1>6, OtherThreads DEF ApproveLoaded, Planning, Resuming, Serving, PcValues, JobOnDeal
<1>7. CASE ExecBegin(w)
  <2>1. /\ pc[w] = "executing" /\ pc'[w] \in {"steps", "record"}
        /\ \A v \in Workers \ {w} : pc'[v] = pc[v]
    BY <1>1, <1>7, OtherThreads DEF ExecBegin
  <2> QED
    BY <1>1, <2>1 DEF Planning, Resuming, Serving, PcValues, JobOnDeal
<1>8. CASE ExecStepBlocked(w) \/ ExecStepAlready(w) \/ ExecStepSend(w)
  <2>1. pc[w] = "steps" /\ pc' = pc
    BY <1>8 DEF ExecStepBlocked, ExecStepAlready, ExecStepSend, StepDone, CallsTool
  <2> QED
    BY <1>1, <2>1 DEF Planning, Resuming, Serving, PcValues, JobOnDeal
<1>9. CASE Resume(w) \/ ExecEnd(w) \/ ExecRetry(w) \/ RecordExecution(w) \/ PersistPlan(w)
           \/ MarkExecuted(w) \/ RecordOutcome(w)
  <2>1. /\ pc[w] \in Resuming /\ pc'[w] \in Resuming
        /\ \A v \in Workers \ {w} : pc'[v] = pc[v]
    BY <1>1, <1>9, OtherThreads
       DEF Resume, ExecEnd, ExecRetry, RecordExecution, PersistPlan, MarkExecuted,
           RecordOutcome, Resuming
  <2>2. job[w].id \in granted
    BY <1>1, <2>1 DEF JobOnDeal
  <2> QED
    BY <1>1, <2>1, <2>2 DEF Planning, Resuming, Serving, PcValues
<1> QED
  BY <1>2, <1>3, <1>4, <1>5, <1>6, <1>7, <1>8, <1>9 DEF Advancing

\* An advancing step leaves every envelope object its run.
LEMMA AdvancingRuns ==
  ASSUME DealInv, NEW w \in Workers, Advancing(w)
  PROVE  \A e \in EnvelopeIds : envelope[e] \in EnvelopeValues
                                  => envelope'[e].run = envelope[e].run
<1>1. \/ UNCHANGED envelope
      \/ \E plan \in {"pending_approval", "approved"} : PlanAction(w, plan)
      \/ ApproveLoaded(w) \/ Resume(w)
      \/ \E result : StepDone(w, result)
  BY DEF Advancing, FirstSnapshot, AgentStep, UpsertAction, UpsertPlan, SnapshotAction,
         ExecBegin, ExecStepBlocked, ExecStepAlready, ExecStepSend, ExecEnd, ExecRetry,
         RecordExecution, PersistPlan, MarkExecuted, RecordOutcome, memory
<1>2. pc[w] \in Serving
  BY AdvancingPc
<1> QED
  BY <1>1, <1>2, RunsKept

\* An advancing step keeps what is found by deal.
LEMMA AdvancingDeal ==
  ASSUME DealInv, NEW w \in Workers, Advancing(w)
  PROVE  /\ Directory' /\ CacheOnDeal' /\ JobsOnDeal'
         /\ FiledOnOwnDeal' /\ EffectsNeedGrant'
<1>1. Monotone
  BY StepMonotone DEF Advancing, Step, Fault
<1>2. pc[w] \in Serving \ {"hydrated"}
  BY AdvancingPc
<1>3. UNCHANGED <<latestRun, runIds, dealEnvelope>>
  BY DEF Advancing, FirstSnapshot, AgentStep, UpsertAction, UpsertPlan, PlanAction,
         SnapshotAction, ApproveLoaded, Resume, ExecBegin, ExecStepBlocked, ExecStepAlready,
         ExecStepSend, StepDone, ExecEnd, ExecRetry, RecordExecution, PersistPlan,
         MarkExecuted, RecordOutcome, tables, memory
<1>4. snapshot' = snapshot \/ snapshot' = WithSnapshot(w)
  BY DEF Advancing, FirstSnapshot, AgentStep, UpsertAction, UpsertPlan, PlanAction,
         SnapshotAction, ApproveLoaded, Resume, ExecBegin, ExecStepBlocked, ExecStepAlready,
         ExecStepSend, StepDone, ExecEnd, ExecRetry, RecordExecution, PersistPlan,
         MarkExecuted, RecordOutcome, tables
<1>5. Directory' /\ CacheOnDeal' /\ JobsOnDeal'
  BY <1>1, <1>2, <1>3, <1>4, AdvancingPc, AdvancingJob, AdvancingRuns, AdvanceDeal
<1>6. FiledOnOwnDeal'
  <2>1. CASE UNCHANGED <<execLog, outcomeRow>>
    BY <1>1, <2>1, FiledKept
  <2>2. CASE RecordExecution(w) \/ RecordOutcome(w)
    <3>1. \A a \in Runs : /\ \/ execLog'[a] = execLog[a]
                             \/ a = Target(w) /\ execLog'[a] = job[w].rid
                          /\ \/ outcomeRow'[a] = outcomeRow[a]
                             \/ a = Target(w) /\ outcomeRow'[a] = job[w].rid
      BY <2>2 DEF RecordExecution, RecordOutcome, DealInv, TypeInv, TypeOK
    <3> QED
      BY <1>1, <1>2, <3>1, FiledKept
  <2> QED
    BY <2>1, <2>2
       DEF Advancing, FirstSnapshot, AgentStep, UpsertAction, UpsertPlan, PlanAction,
           SnapshotAction, ApproveLoaded, Resume, ExecBegin, ExecStepBlocked, ExecStepAlready,
           ExecStepSend, StepDone, ExecEnd, ExecRetry, PersistPlan, MarkExecuted, tables
<1>7. EffectsNeedGrant'
  <2>1. CASE UNCHANGED sends
    BY <1>1, <2>1, EffectsKept
  <2>2. CASE ExecStepSend(w)
    <3>1. pc[w] \in Resuming
      BY <2>2 DEF ExecStepSend, CallsTool, Resuming
    <3>2. \A r \in Runs, i \in Steps :
            sends'[r][i] > 0 => sends[r][i] > 0 \/ r = Target(w)
      BY <2>2 DEF ExecStepSend, DealInv, TypeInv, TypeOK
    <3> QED
      BY <1>1, <3>1, <3>2, EffectsKept
  <2> QED
    BY <2>1, <2>2
       DEF Advancing, FirstSnapshot, AgentStep, UpsertAction, UpsertPlan, PlanAction,
           SnapshotAction, ApproveLoaded, Resume, ExecBegin, ExecStepBlocked, ExecStepAlready,
           ExecEnd, ExecRetry, RecordExecution, PersistPlan, MarkExecuted, RecordOutcome
<1> QED
  BY <1>5, <1>6, <1>7

Ending(w) ==
  \/ SkipRun(w) \/ AgentFail(w) \/ ReturnStart(w) \/ LoadFails(w) \/ DecisionFails(w)
  \/ ReviseLoaded(w) \/ ResumeNothingLeft(w) \/ ExecFail(w) \/ EvalFail(w) \/ Complete(w)

\* How a request ends: its envelope may go to the cache, and no object changes its run.
LEMMA EndingRuns ==
  ASSUME DealInv, NEW w \in Workers, Ending(w)
  PROVE  \E de, es :
           /\ EndRequest(w, de, es)
           /\ \A e \in EnvelopeIds : envelope[e] \in EnvelopeValues
                                       => es[e].run = envelope[e].run
           /\ \/ de = dealEnvelope
              \/ /\ pc[w] \in Serving \ {"hydrated"}
                 /\ de = [dealEnvelope EXCEPT ![job[w].deal] = job[w].env]
<1> DEFINE cached == [dealEnvelope EXCEPT ![job[w].deal] = job[w].env]
<1>1. CASE EndRequest(w, dealEnvelope, envelope)
  BY <1>1
<1>2. CASE SkipRun(w) \/ ReturnStart(w) \/ Complete(w)
  BY <1>2 DEF SkipRun, ReturnStart, Complete, Serving, PcValues
<1>3. CASE ReviseLoaded(w)
  <2> DEFINE es == [envelope EXCEPT ![job[w].env] = RevisedPlan(w)]
  <2>1. pc[w] \in Serving \ {"hydrated"} /\ EndRequest(w, cached, es)
    BY <1>3 DEF ReviseLoaded, Serving, PcValues
  <2>2. job[w].env \in EnvelopeIds /\ envelope[job[w].env] \in EnvelopeValues
        /\ envelope \in [EnvelopeIds -> EnvelopeValues \cup {NoEnvelope}]
    BY <2>1, ServingDeal DEF DealInv, TypeInv, TypeOK
  <2>3. RevisedPlan(w).run = envelope[job[w].env].run
    BY <2>2 DEF RevisedPlan, RejectedPlan, EditedPlan, EnvelopeValues
  <2>4. \A e \in EnvelopeIds : es[e].run = envelope[e].run
    BY <2>2, <2>3
  <2> HIDE DEF es
  <2> QED
    BY <2>1, <2>4
<1>4. CASE ResumeNothingLeft(w)
  <2> DEFINE env == envelope[job[w].env]
             new == [env EXCEPT !.plan = "approved", !.stat = ResumedStat(env)]
             es == [envelope EXCEPT ![job[w].env] = new]
  <2>1. pc[w] \in Serving \ {"hydrated"} /\ EndRequest(w, cached, ResumedEnvelopes(w))
    BY <1>4 DEF ResumeNothingLeft, Serving, PcValues
  <2>2. job[w].env \in EnvelopeIds /\ env \in EnvelopeValues
        /\ envelope \in [EnvelopeIds -> EnvelopeValues \cup {NoEnvelope}]
    BY <2>1, ServingDeal DEF DealInv, TypeInv, TypeOK
  <2>3. new.run = env.run /\ ResumedEnvelopes(w) = es
    BY <2>2 DEF ResumedEnvelopes, EnvelopeValues
  <2>4. \A e \in EnvelopeIds : es[e].run = envelope[e].run
    BY <2>2, <2>3
  <2> HIDE DEF es
  <2> QED
    BY <2>1, <2>3, <2>4
<1> QED
  BY <1>1, <1>2, <1>3, <1>4 DEF Ending, AgentFail, LoadFails, DecisionFails, ExecFail,
     EvalFail, ResumeFails

\* A step that ends its request keeps what is found by deal.
LEMMA EndingDeal ==
  ASSUME DealInv, NEW w \in Workers, Ending(w)
  PROVE  /\ Directory' /\ CacheOnDeal' /\ JobsOnDeal'
         /\ FiledOnOwnDeal' /\ EffectsNeedGrant'
<1>1. Monotone
  BY StepMonotone DEF Ending, Step, Fault
<1>2. UNCHANGED <<latestRun, runIds, execLog, outcomeRow, sends>>
  BY DEF Ending, SkipRun, AgentFail, ReturnStart, LoadFails, DecisionFails, ReviseLoaded,
         ResumeNothingLeft, ExecFail, EvalFail, ResumeFails, Complete, tables
<1>3. snapshot' = snapshot \/ (pc[w] \in Serving /\ snapshot' = WithSnapshot(w))
  BY DEF Ending, SkipRun, AgentFail, ReturnStart, LoadFails, DecisionFails, ReviseLoaded,
         ResumeNothingLeft, ExecFail, EvalFail, ResumeFails, Complete, tables, Serving, PcValues
<1> QED
  BY <1>1, <1>2, <1>3, EndingRuns, EndDeal

\* The deals an approval finds are those of the action it names.
LEMMA FoundIsOwn ==
  ASSUME DealInv, NEW a \in Runs
  PROVE  FoundDeals(a) \subseteq Deals /\ \A d \in FoundDeals(a) : DealOf[a] = d
BY OrchestratorAssumption DEF DealInv, CacheOnDeal, FoundDeals, DealsHolding

\* Finding the envelope of a decision, in the cache or in the newest snapshot.
LEMMA LoadingDeal ==
  ASSUME DealInv, NEW w \in Workers, LoadCached(w) \/ LoadSaved(w) \/ StoreHydrated(w)
  PROVE  /\ Directory' /\ CacheOnDeal' /\ JobsOnDeal'
         /\ FiledOnOwnDeal' /\ EffectsNeedGrant'
<1>1. Monotone
  BY StepMonotone DEF Step
<1>2. FiledOnOwnDeal' /\ EffectsNeedGrant'
  BY <1>1, FiledKept, EffectsKept DEF LoadCached, LoadSaved, StoreHydrated, tables
<1>3. /\ job \in [Workers -> Jobs] /\ JobOnDeal(w) /\ TypeInv /\ granted' = granted
      /\ pc[w] = "decided" => job[w].id \in Runs
      /\ envelope \in [EnvelopeIds -> EnvelopeValues \cup {NoEnvelope}]
      /\ snapshot \in [Deals -> EnvelopeValues \cup {NoEnvelope}]
      /\ latestRun \in [Deals -> Runs \cup {None}] /\ runIds \in [Deals -> Runs \cup {None}]
      /\ dealEnvelope \in [Deals -> EnvelopeIds \cup {None}]
  BY DEF DealInv, JobsOnDeal, TypeInv, TypeOK, JobsOK, JobOK, LoadCached, LoadSaved, StoreHydrated
<1>4. \A v \in Workers \ {w} : pc'[v] = pc[v] /\ job'[v] = job[v]
  BY <1>3 DEF LoadCached, LoadSaved, StoreHydrated, Goto, TypeInv, TypeOK
<1>5. CASE LoadCached(w)
  <2>1. PICK d \in FoundDeals(job[w].id) :
          /\ dealEnvelope[d] # None
          /\ job' = [job EXCEPT ![w].deal = d, ![w].env = dealEnvelope[d]]
    BY <1>5 DEF LoadCached
  <2>2. pc[w] = "decided" /\ pc'[w] = "loaded" /\ UNCHANGED <<tables, memory>>
    BY <1>3, <1>5, OtherThreads DEF LoadCached
  <2>3. d \in Deals /\ DealOf[job[w].id] = d
    BY <1>3, <2>2, FoundIsOwn
  <2>4. /\ job'[w].deal = d /\ job'[w].env = dealEnvelope[d] /\ job'[w].id = job[w].id
        /\ job'[w].rid = job[w].rid /\ job'[w].kind = job[w].kind
    BY <1>3, <2>1 DEF Jobs
  <2>5. OnDeal(d, job[w].rid)'
    BY <1>3, <2>2, <2>4 DEF JobOnDeal, OnDeal
  <2>6. JobOnDeal(w)'
    BY <1>3, <2>1, <2>2, <2>3, <2>4, <2>5
       DEF JobOnDeal, DealInv, CacheOnDeal, Directory, Target, memory, tables, Planning,
           Resuming, Serving, OnDeal
  <2> QED
    BY <1>1, <1>2, <1>4, <2>2, <2>6, OthersOnDeal, DirectoryKept
       DEF DealInv, CacheOnDeal, memory, tables
<1>6. CASE LoadSaved(w)
  <2>1. PICK d \in FoundDeals(job[w].id), e \in FreshEnvelopes :
          /\ snapshot[d] # NoEnvelope
          /\ envelope' = [envelope EXCEPT ![e] = snapshot[d]]
          /\ job' = [job EXCEPT ![w].deal = d, ![w].env = e]
    BY <1>6 DEF LoadSaved
  <2>2. /\ pc[w] = "decided" /\ pc'[w] = "hydrated"
        /\ UNCHANGED <<tables, runIds, dealEnvelope>>
    BY <1>3, <1>6, OtherThreads DEF LoadSaved
  <2>3. /\ d \in Deals /\ DealOf[job[w].id] = d
        /\ e \in EnvelopeIds /\ \A v \in Workers : job[v].env # e
        /\ \A x \in Deals : dealEnvelope[x] # e
    BY <1>3, <2>2, FoundIsOwn DEF FreshEnvelopes, Held
  <2>4. /\ job'[w].deal = d /\ job'[w].env = e /\ job'[w].id = job[w].id
        /\ job'[w].rid = job[w].rid /\ job'[w].kind = job[w].kind
    BY <1>3, <2>1 DEF Jobs
  <2>5. OnDeal(d, job[w].rid)'
    BY <1>3, <2>2, <2>4 DEF JobOnDeal, OnDeal
  <2>6. DealOf[Target(w)'] = d /\ latestRun'[d] # None
    BY <1>3, <2>1, <2>2, <2>3, <2>4 DEF DealInv, Directory, Target, tables
  <2>7. JobOnDeal(w)'
    BY <1>3, <2>2, <2>3, <2>4, <2>5, <2>6 DEF JobOnDeal, Planning, Resuming, OnDeal
  <2>8. \A v \in Workers \ {w} : envelope'[job[v].env].run = envelope[job[v].env].run
    BY <1>3, <2>1, <2>3
  <2>9. CacheOnDeal'
    BY <1>3, <2>1, <2>2, <2>3 DEF DealInv, CacheOnDeal
  <2> QED
    BY <1>1, <1>2, <1>4, <2>2, <2>7, <2>8, <2>9, OthersOnDeal, DirectoryKept DEF tables
<1>7. CASE StoreHydrated(w)
  <2> DEFINE d == job[w].deal
  <2>1. /\ runIds' = [runIds EXCEPT ![d] = latestRun[d]]
        /\ dealEnvelope' = [dealEnvelope EXCEPT ![d] = job[w].env]
        /\ UNCHANGED <<tables, envelope, job>>
        /\ pc[w] = "hydrated" /\ pc'[w] = "loaded"
    BY <1>3, <1>7, OtherThreads DEF StoreHydrated
  <2>2. /\ d \in Deals /\ latestRun[d] # None /\ DealOf[job[w].id] = d
        /\ DealOf[envelope[job[w].env].run] = d /\ OnDeal(d, job[w].rid)
    BY <2>1, ServingDeal DEF Serving, PcValues, Target
  <2>3. Directory'
    BY <1>3, <2>1, <2>2 DEF DealInv, Directory, OnDeal, tables
  <2>4. CacheOnDeal'
    BY <1>3, <2>1, <2>2 DEF DealInv, CacheOnDeal
  <2>5. JobOnDeal(w)'
    BY <1>3, <2>1, <2>2 DEF JobOnDeal, Target, OnDeal, tables, Planning, Resuming
  <2> QED
    BY <1>1, <1>2, <1>4, <2>1, <2>3, <2>4, <2>5, OthersOnDeal
<1> QED
  BY <1>5, <1>6, <1>7

\* The requests that arrive: a new run belongs to its deal, an approval is a grant.
LEMMA RequestDeal ==
  ASSUME DealInv, NEW w \in Workers, Request(w)
  PROVE  /\ Directory' /\ CacheOnDeal' /\ JobsOnDeal'
         /\ FiledOnOwnDeal' /\ EffectsNeedGrant'
<1>1. ASSUME NEW d \in Deals, NEW kind \in Workflows, StartRun(w, d, kind)
      PROVE  /\ Directory' /\ CacheOnDeal' /\ JobsOnDeal'
             /\ FiledOnOwnDeal' /\ EffectsNeedGrant'
  <2>1. PICK r \in Runs, e \in FreshEnvelopes :
          /\ runStatus[r] = "none" /\ DealOf[r] = d
          /\ runStatus' = [runStatus EXCEPT ![r] = "running"]
          /\ latestRun' = [latestRun EXCEPT ![d] = r]
          /\ runIds' = [runIds EXCEPT ![d] = r]
          /\ envelope' = [envelope EXCEPT ![e] = NewEnvelope(r)]
          /\ job' = [job EXCEPT ![w] = [NoJob EXCEPT !.kind = kind, !.id = r,
                                        !.deal = d, !.env = e]]
    BY <1>1 DEF StartRun
  <2>2. /\ UNCHANGED <<execLog, outcomeRow, snapshot, dealEnvelope, sends, granted>>
        /\ pc'[w] = "created"
        /\ \A v \in Workers \ {w} : pc'[v] = pc[v] /\ job'[v] = job[v]
    BY <1>1, <2>1, OtherThreads DEF StartRun, DealInv
  <2>3. /\ e \in EnvelopeIds /\ \A v \in Workers : job[v].env # e
        /\ \A x \in Deals : dealEnvelope[x] # e
    BY DEF FreshEnvelopes, Held
  <2>4. /\ runStatus \in [Runs -> RunStatuses] /\ latestRun \in [Deals -> Runs \cup {None}]
        /\ runIds \in [Deals -> Runs \cup {None}] /\ job \in [Workers -> Jobs]
        /\ envelope \in [EnvelopeIds -> EnvelopeValues \cup {NoEnvelope}] /\ r # None
    BY OrchestratorAssumption DEF DealInv, TypeInv, TypeOK
  <2>5. Monotone
    BY <2>1, <2>2, <2>4 DEF Monotone
  <2>6. Directory'
    BY <2>1, <2>2, <2>4 DEF DealInv, Directory, OnDeal
  <2>7. CacheOnDeal'
    BY <2>1, <2>2, <2>3, <2>4 DEF DealInv, CacheOnDeal
  <2>8. JobOnDeal(w)'
    <3>1. /\ job'[w].id = r /\ job'[w].deal = d /\ job'[w].env = e
          /\ job'[w].rid = None /\ job'[w].kind = kind /\ kind # "approve"
      BY <2>1, <2>4, OrchestratorAssumption DEF NoJob
    <3>2. Target(w)' = r /\ latestRun'[d] = r /\ runIds'[d] = r
      BY <2>1, <2>3, <2>4, <3>1 DEF Target, NewEnvelope
    <3> QED
      BY <2>1, <2>2, <2>4, <3>1, <3>2 DEF JobOnDeal, OnDeal, Planning, Resuming
  <2>9. \A v \in Workers \ {w} : envelope'[job[v].env].run = envelope[job[v].env].run
    BY <2>1, <2>3, <2>4
  <2>10. JobsOnDeal'
    BY <2>2, <2>5, <2>8, <2>9, OthersOnDeal
  <2> QED
    BY <2>2, <2>5, <2>6, <2>7, <2>10, FiledKept, EffectsKept
<1>2. ASSUME NEW kind \in {"approve", "reject", "edit"}, NEW a \in Runs,
             NEW scope \in Scopes, NEW text \in Bodies \cup {None},
             Decide(w, kind, a, scope, text)
      PROVE  /\ Directory' /\ CacheOnDeal' /\ JobsOnDeal'
             /\ FiledOnOwnDeal' /\ EffectsNeedGrant'
  <2>1. /\ UNCHANGED <<runStatus, latestRun, execLog, outcomeRow, snapshot, runIds,
                       dealEnvelope, envelope, sends>>
        /\ granted' = (IF kind = "approve" THEN granted \cup {a} ELSE granted)
        /\ job' = [job EXCEPT ![w] = [NoJob EXCEPT !.kind = kind, !.id = a,
                                      !.scope = scope, !.text = text]]
        /\ pc'[w] = "decided" /\ \A v \in Workers \ {w} : pc'[v] = pc[v]
    BY <1>2, OtherThreads DEF Decide, DealInv
  <2>2. /\ job'[w].id = a /\ job'[w].kind = kind /\ job'[w].rid = None
        /\ \A v \in Workers \ {w} : job'[v] = job[v]
    BY <2>1 DEF DealInv, TypeInv, TypeOK, NoJob
  <2>3. Monotone
    BY <2>1 DEF Monotone
  <2>4. JobOnDeal(w)'
    BY <2>1, <2>2 DEF JobOnDeal, Serving, Planning, Resuming
  <2>5. JobsOnDeal'
    BY <2>1, <2>2, <2>3, <2>4, OthersOnDeal
  <2>6. CacheOnDeal'
    BY <2>1 DEF DealInv, CacheOnDeal
  <2> QED
    BY <2>1, <2>3, <2>5, <2>6, DirectoryKept, FiledKept, EffectsKept
<1> QED
  BY <1>1, <1>2, OrchestratorAssumption DEF Request, Approve, Reject, Edit

\* A step of w leaves the other threads what they do next, their locals and the run
\* they serve.
LEMMA OthersKept ==
  ASSUME DealInv, NEW w \in Workers, Request(w) \/ Step(w) \/ Fault(w), NEW v \in Workers \ {w}
  PROVE  /\ pc'[v] = pc[v] /\ job'[v] = job[v]
         /\ pc[v] \in Serving => Target(v)' = Target(v)
<1>1. /\ TypeInv /\ envelope \in [EnvelopeIds -> EnvelopeValues \cup {NoEnvelope}]
      /\ job \in [Workers -> Jobs] /\ pc \in [Workers -> PcValues]
      /\ pc[v] \in Serving => job[v].env \in EnvelopeIds
                              /\ envelope[job[v].env] \in EnvelopeValues
  BY ServingDeal DEF DealInv, TypeInv, TypeOK
<1>2. CASE Advancing(w)
  <2>1. pc'[v] = pc[v] /\ job'[v] = job[v]
    BY <1>2, AdvancingPc, AdvancingJob
  <2> QED
    BY <1>1, <1>2, <2>1, AdvancingRuns DEF Target
<1>3. CASE Ending(w)
  <2>1. PICK de, es : /\ EndRequest(w, de, es)
                      /\ \A e \in EnvelopeIds : envelope[e] \in EnvelopeValues
                                                  => es[e].run = envelope[e].run
    BY <1>3, EndingRuns
  <2>2. pc'[v] = pc[v] /\ job'[v] = job[v]
    BY <1>1, <2>1 DEF EndRequest, Goto
  <2> QED
    BY <1>1, <2>1, <2>2 DEF EndRequest, Target
<1>4. CASE LoadCached(w) \/ StoreHydrated(w)
  BY <1>1, <1>4 DEF LoadCached, StoreHydrated, Goto, Target, memory
<1>5. CASE LoadSaved(w)
  <2>1. PICK d \in FoundDeals(job[w].id), e \in FreshEnvelopes :
          /\ envelope' = [envelope EXCEPT ![e] = snapshot[d]]
          /\ job' = [job EXCEPT ![w].deal = d, ![w].env = e]
    BY <1>5 DEF LoadSaved
  <2> QED
    BY <1>1, <1>5, <2>1 DEF LoadSaved, Goto, Target, FreshEnvelopes, Held
<1>6. ASSUME NEW d \in Deals, NEW kind \in Workflows, StartRun(w, d, kind)
      PROVE  /\ pc'[v] = pc[v] /\ job'[v] = job[v]
             /\ pc[v] \in Serving => Target(v)' = Target(v)
  <2>1. PICK r \in Runs, e \in FreshEnvelopes :
          /\ envelope' = [envelope EXCEPT ![e] = NewEnvelope(r)]
          /\ job' = [job EXCEPT ![w] = [NoJob EXCEPT !.kind = kind, !.id = r,
                                        !.deal = d, !.env = e]]
    BY <1>6 DEF StartRun
  <2> QED
    BY <1>1, <1>6, <2>1 DEF StartRun, Goto, Target, FreshEnvelopes, Held
<1>7. ASSUME NEW kind, NEW a, NEW scope, NEW text, Decide(w, kind, a, scope, text)
      PROVE  /\ pc'[v] = pc[v] /\ job'[v] = job[v]
             /\ pc[v] \in Serving => Target(v)' = Target(v)
  BY <1>1, <1>7 DEF Decide, Goto, Target
<1> QED
  BY <1>2, <1>3, <1>4, <1>5, <1>6, <1>7
     DEF Request, Approve, Reject, Edit, Step, Fault, Advancing, Ending

\* DealInv is inductive.
LEMMA NextDealInv == DealInv /\ [Next]_vars => DealInv'
<1> SUFFICES ASSUME DealInv, [Next]_vars
             PROVE  /\ Directory' /\ CacheOnDeal' /\ JobsOnDeal'
                    /\ FiledOnOwnDeal' /\ EffectsNeedGrant'
  BY NextTypeInv DEF DealInv
<1>1. ASSUME NEW w \in Workers, Request(w)
      PROVE  /\ Directory' /\ CacheOnDeal' /\ JobsOnDeal'
             /\ FiledOnOwnDeal' /\ EffectsNeedGrant'
  BY <1>1, RequestDeal
<1>2. ASSUME NEW w \in Workers, Step(w) \/ Fault(w)
      PROVE  /\ Directory' /\ CacheOnDeal' /\ JobsOnDeal'
             /\ FiledOnOwnDeal' /\ EffectsNeedGrant'
  BY <1>2, AdvancingDeal, EndingDeal, LoadingDeal DEF Step, Fault, Advancing, Ending
<1>3. CASE Restart
  <2>1. /\ runIds' = [d \in Deals |-> None] /\ dealEnvelope' = [d \in Deals |-> None]
        /\ pc' = [w \in Workers |-> "idle"] /\ UNCHANGED <<tables, sends, granted>>
    BY <1>3 DEF Restart
  <2> QED
    BY <2>1 DEF DealInv, Directory, CacheOnDeal, JobsOnDeal, JobOnDeal, FiledOnOwnDeal,
                EffectsNeedGrant, OnDeal, Serving, Planning, Resuming, tables
<1>4. CASE UNCHANGED vars
  BY <1>4 DEF vars, tables, memory, DealInv, Directory, CacheOnDeal, JobsOnDeal, JobOnDeal,
              FiledOnOwnDeal, EffectsNeedGrant, OnDeal, Target
<1> QED
  BY <1>1, <1>2, <1>3, <1>4 DEF Next

\* DealInv holds of the empty tables and memory.
LEMMA InitDealInv == Init => DealInv
<1> SUFFICES ASSUME Init PROVE DealInv
  OBVIOUS
<1>1. Directory /\ CacheOnDeal /\ JobsOnDeal
  BY DEF Init, Directory, OnDeal, CacheOnDeal, JobsOnDeal, JobOnDeal, Serving, Planning,
         Resuming
<1>2. FiledOnOwnDeal /\ EffectsNeedGrant
  BY DEF Init, FiledOnOwnDeal, EffectsNeedGrant
<1> QED
  BY <1>1, <1>2, InitTypeInv DEF DealInv

\* A tool is called only on a deal where an action was let through before; what is
\* filed is filed under a run of the action's own deal that exists; and a request that
\* resumes always finds a run of its deal to file under; although the engine looks
\* everything up by deal and the process may stop anywhere (runner.py:479-572,
\* service.py:287-327).
THEOREM DealsCorrect == Spec => [](EffectsNeedGrant /\ FiledOnOwnDeal /\ RunKnownOnResume)
<1>1. DealInv => EffectsNeedGrant /\ FiledOnOwnDeal /\ RunKnownOnResume
  BY DEF DealInv, JobsOnDeal, JobOnDeal, RunKnownOnResume, Serving, PcValues
<1> QED
  BY <1>1, InitDealInv, NextDealInv, PTL DEF Spec

=============================================================================
