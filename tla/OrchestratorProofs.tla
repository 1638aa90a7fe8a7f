------------------------- MODULE OrchestratorProofs -------------------------
(***************************************************************************)
(* Theorems about the workflow engine, for any number of deals, runs,      *)
(* steps, threads and envelope objects, with crashes and exceptions.       *)
(***************************************************************************)
EXTENDS Orchestrator, TLAPS

(***************************************************************************)
(* Types.  TypeOK is not inductive: a step that saves or edits an envelope *)
(* through a reference keeps the types only if the reference leads to an   *)
(* envelope.  JobsOK and CacheOK say that references never dangle.         *)
(***************************************************************************)
Serving == PcValues \ {"idle", "decided"}

JobOK(w) ==
  /\ pc[w] = "idle" => job[w] = NoJob
  /\ pc[w] # "idle" => job[w].id \in Runs
  /\ pc[w] \in {"idle", "decided"} => job[w].env = None
  /\ pc[w] \in {"decided", "hydrated", "loaded"} =>
       job[w].kind \in {"approve", "reject", "edit"}
  /\ pc[w] \in Serving =>
       /\ job[w].deal \in Deals /\ job[w].env \in EnvelopeIds
       /\ envelope[job[w].env] \in EnvelopeValues

JobsOK == \A w \in Workers : JobOK(w)

CacheOK == \A d \in Deals :
  dealEnvelope[d] # None => envelope[dealEnvelope[d]] \in EnvelopeValues

TypeInv == TypeOK /\ JobsOK /\ CacheOK

\* TypeInv holds of the empty tables and memory.
LEMMA InitTypeInv == Init => TypeInv
<1> SUFFICES ASSUME Init PROVE TypeInv
  OBVIOUS
<1>1. TypeOK
  BY OrchestratorAssumption DEF Init, TypeOK, RunStatuses, ActionStatuses, StepStatuses, Results,
     StepRows, StepTexts, NoStepRows, NoResults, NoJob, Jobs, RequestKinds,
     PcValues, All, Steps
<1>2. JobsOK /\ CacheOK
  BY DEF Init, JobsOK, JobOK, CacheOK, Serving, NoJob
<1> QED
  BY <1>1, <1>2 DEF TypeInv

\* What is left of the cache and the objects when a request ends is typed, and
\* no reference dangles.
LEMMA EndRequestTypes ==
  ASSUME TypeInv, NEW w \in Workers, NEW de, NEW es,
         de \in [Deals -> EnvelopeIds \cup {None}],
         es \in [EnvelopeIds -> EnvelopeValues \cup {NoEnvelope}],
         \A d \in Deals : de[d] # None => es[de[d]] \in EnvelopeValues,
         \A e \in EnvelopeIds : envelope[e] \in EnvelopeValues => es[e] \in EnvelopeValues,
         EndRequest(w, de, es)
  PROVE  /\ dealEnvelope' \in [Deals -> EnvelopeIds \cup {None}]
         /\ envelope' \in [EnvelopeIds -> EnvelopeValues \cup {NoEnvelope}]
         /\ pc' \in [Workers -> PcValues] /\ job' \in [Workers -> Jobs]
         /\ JobsOK' /\ CacheOK'
<1>1. pc' \in [Workers -> PcValues] /\ job' \in [Workers -> Jobs]
  BY DEF EndRequest, Goto, TypeInv, TypeOK, PcValues, NoJob, Jobs, RequestKinds, All, NoResults, Results
<1>2. /\ dealEnvelope' \in [Deals -> EnvelopeIds \cup {None}]
      /\ envelope' \in [EnvelopeIds -> EnvelopeValues \cup {NoEnvelope}]
  BY DEF EndRequest
<1>3. JobsOK'
  <2> SUFFICES ASSUME NEW v \in Workers PROVE JobOK(v)'
    BY DEF JobsOK
  <2>1. CASE v = w
    BY <2>1 DEF EndRequest, Goto, JobOK, TypeInv, TypeOK, NoJob, Serving
  <2>2. CASE v # w
    <3>1. pc'[v] = pc[v] /\ job'[v] = job[v] /\ JobOK(v)
      BY <2>2 DEF EndRequest, Goto, TypeInv, TypeOK, JobsOK
    <3>2. ASSUME pc[v] \in Serving
          PROVE  envelope'[job[v].env] \in EnvelopeValues
      BY <2>2, <3>1, <3>2 DEF EndRequest, JobOK
    <3> QED
      BY <3>1, <3>2 DEF JobOK
  <2> QED
    BY <2>1, <2>2
<1>4. CacheOK'
  <2> SUFFICES ASSUME NEW d \in Deals, dealEnvelope'[d] # None
               PROVE  envelope'[dealEnvelope'[d]] \in EnvelopeValues
    BY DEF CacheOK
  <2> QED
    BY DEF EndRequest
<1> QED
  BY <1>1, <1>2, <1>3, <1>4

\* The typing of the variables that only some actions write.
TableTypes ==
  /\ runStatus \in [Runs -> RunStatuses]
  /\ latestRun \in [Deals -> Runs \cup {None}]
  /\ actionRow \in [Runs -> [status : ActionStatuses, body : Bodies \cup {None}]]
  /\ stepRow \in [Runs -> StepRows]
  /\ execLog \in [Runs -> Runs \cup {None}]
  /\ stepLog \in [Runs -> [Steps -> Results]]
  /\ outcomeRow \in [Runs -> Runs \cup {None}]
  /\ snapshot \in [Deals -> EnvelopeValues \cup {NoEnvelope}]
  /\ queue \subseteq Runs
  /\ runIds \in [Deals -> Runs \cup {None}]
  /\ sends \in [Runs -> [Steps -> 0..SendCap]]
  /\ granted \subseteq Runs

MemoryTypes ==
  /\ dealEnvelope \in [Deals -> EnvelopeIds \cup {None}]
  /\ envelope \in [EnvelopeIds -> EnvelopeValues \cup {NoEnvelope}]
  /\ pc \in [Workers -> PcValues]
  /\ job \in [Workers -> Jobs]

\* TypeOK is the two parts.
LEMMA TypeParts == TypeOK <=> TableTypes /\ MemoryTypes
BY DEF TypeOK, TableTypes, MemoryTypes

\* A request that goes on with the deal and the envelope it has, and changes
\* envelopes only into envelopes, keeps the types and dangles no reference.
LEMMA AdvanceTypes ==
  ASSUME TypeInv, NEW w \in Workers, pc[w] \in Serving,
         NEW label \in Serving \ {"hydrated", "loaded"}, Goto(w, label),
         NEW j \in Jobs, job' = [job EXCEPT ![w] = j],
         j.id = job[w].id, j.deal = job[w].deal, j.env = job[w].env,
         dealEnvelope' = dealEnvelope,
         envelope' \in [EnvelopeIds -> EnvelopeValues \cup {NoEnvelope}],
         \A e \in EnvelopeIds : envelope[e] \in EnvelopeValues
                                  => envelope'[e] \in EnvelopeValues
  PROVE  MemoryTypes' /\ JobsOK' /\ CacheOK'
<1>1. MemoryTypes'
  BY DEF Goto, TypeInv, TypeOK, MemoryTypes, Serving
<1>2. JobsOK'
  <2> SUFFICES ASSUME NEW v \in Workers PROVE JobOK(v)'
    BY DEF JobsOK
  <2>1. CASE v = w
    <3>1. JobOK(w) /\ pc'[w] = label /\ job'[w] = j
      BY DEF TypeInv, JobsOK, TypeOK, Goto
    <3> QED
      BY <2>1, <3>1 DEF JobOK, Serving
  <2>2. CASE v # w
    <3>1. JobOK(v) /\ pc'[v] = pc[v] /\ job'[v] = job[v]
      BY <2>2 DEF TypeInv, JobsOK, TypeOK, Goto
    <3> QED
      BY <3>1 DEF JobOK
  <2> QED
    BY <2>1, <2>2
<1>3. CacheOK'
  BY DEF CacheOK, TypeInv, TypeOK
<1> QED
  BY <1>1, <1>2, <1>3

\* What a request that has found its envelope may rely on.
LEMMA ServingFacts ==
  ASSUME TypeInv, NEW w \in Workers, pc[w] \in Serving
  PROVE  /\ job[w] \in Jobs /\ job[w].id \in Runs /\ job[w].deal \in Deals
         /\ job[w].env \in EnvelopeIds /\ envelope[job[w].env] \in EnvelopeValues
         /\ Target(w) \in Runs /\ NoEnvelope \notin EnvelopeValues
BY OrchestratorAssumption
   DEF TypeInv, TypeOK, JobsOK, JobOK, Target, EnvelopeValues, NoEnvelope, Serving

\* The plan operators yield envelopes.
LEMMA PlanTypes ==
  ASSUME NEW env \in EnvelopeValues, NEW scope, NEW text \in Bodies \cup {None}, TypeOK
  PROVE  /\ ApprovedPlan(env, scope) \in EnvelopeValues
         /\ RejectedPlan(env, scope) \in EnvelopeValues
         /\ EditedPlan(env, scope, text) \in EnvelopeValues
         /\ ResumedStat(env) \in [Steps -> StepStatuses]
<1>1. ApprovedPlan(env, scope) \in EnvelopeValues
  BY DEF ApprovedPlan, EnvelopeValues, StepStatuses, ActionStatuses
<1>2. RejectedPlan(env, scope) \in EnvelopeValues
  BY DEF RejectedPlan, EnvelopeValues, StepStatuses, ActionStatuses
<1>3. EditedPlan(env, scope, text) \in EnvelopeValues
  BY OrchestratorAssumption
     DEF EditedPlan, EnvelopeValues, StepStatuses, ActionStatuses, StepTexts, Steps
<1>4. ResumedStat(env) \in [Steps -> StepStatuses]
  BY DEF ResumedStat, TypeOK, EnvelopeValues, StepStatuses, ActionStatuses, Results
<1> QED
  BY <1>1, <1>2, <1>3, <1>4

\* The values written to the tables have the tables' types.
LEMMA WriteTypes ==
  ASSUME TypeInv, NEW w \in Workers, pc[w] \in Serving
  PROVE  /\ WithSnapshot(w) \in [Deals -> EnvelopeValues \cup {NoEnvelope}]
         /\ WithPlanRows(w) \in [Runs -> StepRows]
         /\ \A r \in Runs \cup {None}, st \in RunStatuses :
              WithStatus(r, st) \in [Runs -> RunStatuses]
<1>1. WithSnapshot(w) \in [Deals -> EnvelopeValues \cup {NoEnvelope}]
  BY ServingFacts DEF WithSnapshot, TypeInv, TypeOK
<1>2. WithPlanRows(w) \in [Runs -> StepRows]
  BY ServingFacts DEF WithPlanRows, TypeInv, TypeOK, StepRows, EnvelopeValues, Target
<1>3. \A r \in Runs \cup {None}, st \in RunStatuses :
        WithStatus(r, st) \in [Runs -> RunStatuses]
  BY DEF WithStatus, TypeInv, TypeOK
<1> QED
  BY <1>1, <1>2, <1>3

\* The ends of the ways a request may fail or finish.
LEMMA EndTypes ==
  ASSUME TypeInv, NEW w \in Workers, pc[w] \in Serving, NEW v \in EnvelopeValues
  PROVE  /\ EndRequest(w, dealEnvelope, envelope)
              => MemoryTypes' /\ JobsOK' /\ CacheOK'
         /\ EndRequest(w, [dealEnvelope EXCEPT ![job[w].deal] = job[w].env],
                       [envelope EXCEPT ![job[w].env] = v])
              => MemoryTypes' /\ JobsOK' /\ CacheOK'
         /\ EndRequest(w, [dealEnvelope EXCEPT ![job[w].deal] = job[w].env], envelope)
              => MemoryTypes' /\ JobsOK' /\ CacheOK'
<1> DEFINE de == [dealEnvelope EXCEPT ![job[w].deal] = job[w].env]
           es == [envelope EXCEPT ![job[w].env] = v]
<1>1. /\ dealEnvelope \in [Deals -> EnvelopeIds \cup {None}]
      /\ envelope \in [EnvelopeIds -> EnvelopeValues \cup {NoEnvelope}]
      /\ \A d \in Deals : dealEnvelope[d] # None
                            => envelope[dealEnvelope[d]] \in EnvelopeValues
  BY DEF TypeInv, TypeOK, CacheOK
<1>2. /\ de \in [Deals -> EnvelopeIds \cup {None}]
      /\ es \in [EnvelopeIds -> EnvelopeValues \cup {NoEnvelope}]
      /\ \A e \in EnvelopeIds : envelope[e] \in EnvelopeValues => es[e] \in EnvelopeValues
      /\ \A d \in Deals : de[d] # None => /\ envelope[de[d]] \in EnvelopeValues
                                          /\ es[de[d]] \in EnvelopeValues
  BY <1>1, ServingFacts
<1> HIDE DEF de, es
<1>3. EndRequest(w, dealEnvelope, envelope) => MemoryTypes' /\ JobsOK' /\ CacheOK'
  BY <1>1, EndRequestTypes DEF MemoryTypes
<1>4. EndRequest(w, de, es) => MemoryTypes' /\ JobsOK' /\ CacheOK'
  BY <1>2, EndRequestTypes DEF MemoryTypes
<1>5. EndRequest(w, de, envelope) => MemoryTypes' /\ JobsOK' /\ CacheOK'
  BY <1>1, <1>2, EndRequestTypes DEF MemoryTypes
<1> QED
  BY <1>3, <1>4, <1>5 DEF de, es

\* A new request leaves the requests of the other workers alone.
LEMMA NewRequestTypes ==
  ASSUME TypeInv, NEW w \in Workers, Request(w)
  PROVE  TypeInv'
<1> USE OrchestratorAssumption
<1>1. ASSUME NEW d \in Deals, NEW kind \in Workflows, StartRun(w, d, kind)
      PROVE  TypeInv'
  <2>1. PICK r \in Runs, e \in FreshEnvelopes :
          /\ runStatus' = [runStatus EXCEPT ![r] = "running"]
          /\ latestRun' = [latestRun EXCEPT ![d] = r]
          /\ runIds' = [runIds EXCEPT ![d] = r]
          /\ envelope' = [envelope EXCEPT ![e] = NewEnvelope(r)]
          /\ job' = [job EXCEPT ![w] = [NoJob EXCEPT !.kind = kind, !.id = r,
                                        !.deal = d, !.env = e]]
    BY <1>1 DEF StartRun
  <2>2. TableTypes'
    BY <1>1, <2>1 DEF StartRun, TypeInv, TypeOK, TableTypes, RunStatuses
  <2>3. NewEnvelope(r) \in EnvelopeValues /\ e \in EnvelopeIds
    BY DEF NewEnvelope, EnvelopeValues, NoStepRows, StepTexts, StepStatuses,
           ActionStatuses, FreshEnvelopes
  <2>4. [NoJob EXCEPT !.kind = kind, !.id = r, !.deal = d, !.env = e] \in Jobs
    BY <2>3 DEF NoJob, Jobs, RequestKinds, All, NoResults, Results
  <2>5. MemoryTypes'
    BY <1>1, <2>1, <2>3, <2>4 DEF StartRun, Goto, TypeInv, TypeOK, MemoryTypes, PcValues
  <2>6. JobsOK'
    <3> SUFFICES ASSUME NEW v \in Workers PROVE JobOK(v)'
      BY DEF JobsOK
    <3>1. CASE v = w
      <4>1. /\ pc'[w] = "created" /\ envelope'[e] = NewEnvelope(r)
            /\ job'[w] = [NoJob EXCEPT !.kind = kind, !.id = r, !.deal = d, !.env = e]
        BY <1>1, <2>1, <2>3 DEF StartRun, Goto, TypeInv, TypeOK
      <4>2. job'[w].id = r /\ job'[w].deal = d /\ job'[w].env = e
        BY <4>1 DEF NoJob
      <4> QED
        BY <3>1, <4>1, <4>2, <2>3 DEF JobOK
    <3>2. CASE v # w
      <4>1. pc'[v] = pc[v] /\ job'[v] = job[v] /\ JobOK(v) /\ job[v].env # e
        BY <1>1, <2>1, <3>2
           DEF StartRun, Goto, TypeInv, TypeOK, JobsOK, FreshEnvelopes, Held
      <4> QED
        BY <4>1, <2>1, <2>3 DEF JobOK, TypeInv, TypeOK
    <3> QED
      BY <3>1, <3>2
  <2>7. CacheOK'
    BY <1>1, <2>1, <2>3 DEF StartRun, CacheOK, TypeInv, TypeOK, FreshEnvelopes, Held
  <2> QED
    BY <2>2, <2>5, <2>6, <2>7, TypeParts DEF TypeInv, TypeOK, TableTypes, MemoryTypes
<1>2. ASSUME NEW kind \in {"approve", "reject", "edit"}, NEW a \in Runs,
             NEW scope \in Scopes, NEW text \in Bodies \cup {None},
             Decide(w, kind, a, scope, text)
      PROVE  TypeInv'
  <2>1. StatusAfter(kind) \in {"approved", "rejected", "pending_approval"}
    BY DEF StatusAfter
  <2>2. WithActionRow(a, StatusAfter(kind), text)
          \in [Runs -> [status : ActionStatuses, body : Bodies \cup {None}]]
    BY <2>1 DEF WithActionRow, TypeInv, TypeOK, ActionStatuses
  <2>3. WithStepRows(a, scope, StatusAfter(kind), text) \in [Runs -> StepRows]
    BY <2>1 DEF WithStepRows, TypeInv, TypeOK, StepRows, StepTexts, StepStatuses,
                ActionStatuses
  <2>4. TableTypes'
    BY <1>2, <2>2, <2>3 DEF Decide, TypeInv, TypeOK, TableTypes
  <2>5. [NoJob EXCEPT !.kind = kind, !.id = a, !.scope = scope, !.text = text] \in Jobs
    BY DEF NoJob, Jobs, RequestKinds, All, NoResults, Results
  <2>6. MemoryTypes'
    BY <1>2, <2>5 DEF Decide, Goto, TypeInv, TypeOK, MemoryTypes, PcValues
  <2>7. JobsOK' /\ CacheOK'
    BY <1>2 DEF Decide, Goto, TypeInv, TypeOK, JobsOK, JobOK, CacheOK, NoJob, Serving
  <2> QED
    BY <2>4, <2>6, <2>7, TypeParts DEF TypeInv, TypeOK, TableTypes, MemoryTypes
<1> QED
  BY <1>1, <1>2 DEF Request, Approve, Reject, Edit

Continues(j, k) ==
  k \in Jobs /\ k.id = j.id /\ k.deal = j.deal /\ k.env = j.env

\* A worker's loop index, results and run id change, its deal and envelope do not.
LEMMA JobChange ==
  ASSUME NEW j \in Jobs
  PROVE  /\ Continues(j, j)
         /\ \A n \in Nat : Continues(j, [j EXCEPT !.next = n])
         /\ \A n \in Nat, rr \in [Steps -> Results] :
              Continues(j, [j EXCEPT !.next = n, !.res = rr])
         /\ \A r \in Runs \cup {None} : Continues(j, [j EXCEPT !.rid = r])
BY DEF Jobs, Continues

\* The results of the steps are typed.
LEMMA ResultTypes ==
  ASSUME NEW j \in Jobs
  PROVE  /\ \A i \in Steps, result \in Results :
              [j.res EXCEPT ![i] = result] \in [Steps -> Results]
         /\ j.next + 1 \in Nat /\ NoResults \in [Steps -> Results]
<1>1. /\ \A i \in Steps, result \in Results :
           [j.res EXCEPT ![i] = result] \in [Steps -> Results]
      /\ j.next + 1 \in Nat
  BY DEF Jobs
<1>2. NoResults \in [Steps -> Results]
  BY DEF NoResults, Results
<1> QED
  BY <1>1, <1>2

\* A step of the execution, as a change of the worker's record.
LEMMA StepDoneJob ==
  ASSUME TypeInv, NEW w \in Workers, NEW result, StepDone(w, result)
  PROVE  job' = [job EXCEPT ![w] =
                   [job[w] EXCEPT !.next = job[w].next + 1,
                                  !.res = [job[w].res EXCEPT ![job[w].next] = result]]]
BY DEF StepDone, TypeInv, TypeOK, Jobs

\* A request that goes on keeps the types.
LEMMA StepTypes ==
  ASSUME TypeInv, NEW w \in Workers, Step(w)
  PROVE  TypeInv'
<1> USE OrchestratorAssumption
<1>0. ASSUME TableTypes', MemoryTypes', JobsOK', CacheOK'
      PROVE  TypeInv'
  BY <1>0, TypeParts DEF TypeInv, TypeOK, TableTypes, MemoryTypes
<1>1. CASE FirstSnapshot(w)
  <2>1. pc[w] \in Serving /\ job[w] \in Jobs /\ Goto(w, "agents")
        /\ UNCHANGED <<memory, job>>
    BY <1>1 DEF FirstSnapshot, Serving, PcValues, TypeInv, TypeOK
  <2>2. WithSnapshot(w) \in [Deals -> EnvelopeValues \cup {NoEnvelope}]
    BY <2>1, WriteTypes
  <2>3. TableTypes'
    BY <1>1, <2>1, <2>2, TypeParts DEF FirstSnapshot, TableTypes, TypeInv, memory
  <2>4. MemoryTypes' /\ JobsOK' /\ CacheOK'
    BY <2>1, AdvanceTypes, "agents" \in Serving \ {"hydrated", "loaded"}
       DEF memory, Serving, PcValues, TypeInv, TypeOK
  <2> QED
    BY <2>3, <2>4, <1>0
<1>2. CASE UpsertAction(w)
  <2>1. pc[w] \in Serving /\ job[w] \in Jobs /\ Goto(w, "step_rows")
        /\ UNCHANGED <<memory, job>>
    BY <1>2 DEF UpsertAction, Serving, PcValues, TypeInv, TypeOK
  <2>2. job[w].id \in Runs /\ envelope[job[w].env] \in EnvelopeValues
    BY <2>1, ServingFacts
  <2> DEFINE env == envelope[job[w].env]
             row == [status |-> env.plan, body |-> env.body[1]]
  <2>3. env.plan \in ActionStatuses /\ env.body[1] \in Bodies \cup {None}
    <3>1. 1 \in Steps
      BY DEF Steps
    <3> QED
      BY <2>2, <3>1 DEF EnvelopeValues, StepTexts
  <2>4. row \in [status : ActionStatuses, body : Bodies \cup {None}]
    BY <2>3
  <2>5. /\ actionRow' = [actionRow EXCEPT ![job[w].id] = row]
        /\ UNCHANGED <<runStatus, latestRun, stepRow, execLog, stepLog, outcomeRow,
                       snapshot, queue, runIds, sends, granted>>
    BY <1>2 DEF UpsertAction, memory
  <2> HIDE DEF env, row
  <2>6. TableTypes'
    BY <2>2, <2>4, <2>5, TypeParts DEF TableTypes, TypeInv
  <2>7. MemoryTypes' /\ JobsOK' /\ CacheOK'
    BY <2>1, AdvanceTypes, "step_rows" \in Serving \ {"hydrated", "loaded"}
       DEF memory, Serving, PcValues, TypeInv, TypeOK
  <2> QED
    BY <2>6, <2>7, <1>0
<1>3. CASE UpsertPlan(w)
  <2>1. pc[w] \in Serving /\ job[w] \in Jobs /\ Goto(w, "action_snapshot")
        /\ UNCHANGED <<memory, job>>
    BY <1>3 DEF UpsertPlan, Serving, PcValues, TypeInv, TypeOK
  <2>2. WithPlanRows(w) \in [Runs -> StepRows]
    BY <2>1, WriteTypes
  <2>3. TableTypes'
    BY <1>3, <2>1, <2>2, TypeParts DEF UpsertPlan, TableTypes, TypeInv, memory
  <2>4. MemoryTypes' /\ JobsOK' /\ CacheOK'
    BY <2>1, AdvanceTypes, "action_snapshot" \in Serving \ {"hydrated", "loaded"}
       DEF memory, Serving, PcValues, TypeInv, TypeOK
  <2> QED
    BY <2>3, <2>4, <1>0
<1>4. CASE RecordExecution(w)
  <2>1. pc[w] \in Serving /\ job[w] \in Jobs /\ Goto(w, "plan_rows")
        /\ UNCHANGED <<memory, job>>
    BY <1>4 DEF RecordExecution, Serving, PcValues, TypeInv, TypeOK
  <2>2. Target(w) \in Runs
    BY <2>1, ServingFacts
  <2>3. TableTypes'
    BY <1>4, <2>1, <2>2, TypeParts DEF RecordExecution, TableTypes, TypeInv, memory, Jobs, Results
  <2>4. MemoryTypes' /\ JobsOK' /\ CacheOK'
    BY <2>1, AdvanceTypes, "plan_rows" \in Serving \ {"hydrated", "loaded"}
       DEF memory, Serving, PcValues, TypeInv, TypeOK
  <2> QED
    BY <2>3, <2>4, <1>0
<1>5. CASE PersistPlan(w)
  <2>1. pc[w] \in Serving /\ job[w] \in Jobs /\ Goto(w, "mark")
        /\ UNCHANGED <<memory, job>>
    BY <1>5 DEF PersistPlan, Serving, PcValues, TypeInv, TypeOK
  <2>2. WithPlanRows(w) \in [Runs -> StepRows]
    BY <2>1, WriteTypes
  <2>3. TableTypes'
    BY <1>5, <2>1, <2>2, TypeParts DEF PersistPlan, TableTypes, TypeInv, memory
  <2>4. MemoryTypes' /\ JobsOK' /\ CacheOK'
    BY <2>1, AdvanceTypes, "mark" \in Serving \ {"hydrated", "loaded"}
       DEF memory, Serving, PcValues, TypeInv, TypeOK
  <2> QED
    BY <2>3, <2>4, <1>0
<1>6. CASE MarkExecuted(w)
  <2>1. pc[w] \in Serving /\ job[w] \in Jobs /\ Goto(w, "evaluating")
        /\ UNCHANGED <<memory, job>>
    BY <1>6 DEF MarkExecuted, Serving, PcValues, TypeInv, TypeOK
  <2>2. /\ WithSnapshot(w) \in [Deals -> EnvelopeValues \cup {NoEnvelope}]
        /\ \A r \in Runs \cup {None}, st \in RunStatuses :
          WithStatus(r, st) \in [Runs -> RunStatuses]
    BY <2>1, WriteTypes
  <2>3. TableTypes'
    BY <1>6, <2>1, <2>2, TypeParts DEF MarkExecuted, TableTypes, TypeInv, memory, Jobs, RunStatuses
  <2>4. MemoryTypes' /\ JobsOK' /\ CacheOK'
    BY <2>1, AdvanceTypes, "evaluating" \in Serving \ {"hydrated", "loaded"}
       DEF memory, Serving, PcValues, TypeInv, TypeOK
  <2> QED
    BY <2>3, <2>4, <1>0
<1>7. CASE RecordOutcome(w)
  <2>1. pc[w] \in Serving /\ job[w] \in Jobs /\ Goto(w, "completing")
        /\ UNCHANGED <<memory, job>>
    BY <1>7 DEF RecordOutcome, Serving, PcValues, TypeInv, TypeOK
  <2>2. Target(w) \in Runs
    BY <2>1, ServingFacts
  <2>3. TableTypes'
    BY <1>7, <2>1, <2>2, TypeParts DEF RecordOutcome, TableTypes, TypeInv, memory, Jobs
  <2>4. MemoryTypes' /\ JobsOK' /\ CacheOK'
    BY <2>1, AdvanceTypes, "completing" \in Serving \ {"hydrated", "loaded"}
       DEF memory, Serving, PcValues, TypeInv, TypeOK
  <2> QED
    BY <2>3, <2>4, <1>0
<1>8. CASE ExecEnd(w)
  <2>1. pc[w] \in Serving /\ job[w] \in Jobs /\ Goto(w, "record")
        /\ UNCHANGED <<memory, job>>
    BY <1>8 DEF ExecEnd, Serving, PcValues, TypeInv, TypeOK
  <2>2. Target(w) \in Runs
    BY <2>1, ServingFacts
  <2>3. TableTypes'
    BY <1>8, <2>1, <2>2, TypeParts DEF ExecEnd, TableTypes, TypeInv, memory, tables
  <2>4. MemoryTypes' /\ JobsOK' /\ CacheOK'
    BY <2>1, AdvanceTypes, "record" \in Serving \ {"hydrated", "loaded"}
       DEF memory, Serving, PcValues, TypeInv, TypeOK
  <2> QED
    BY <2>3, <2>4, <1>0
<1>9. CASE AgentStep(w)
  <2> DEFINE j == [job[w] EXCEPT !.next = job[w].next + 1]
             label == "agents"
  <2>1. /\ pc[w] \in Serving /\ job[w] \in Jobs /\ Goto(w, label)
        /\ job[w].rid \in Runs \cup {None}
        /\ job' = [job EXCEPT ![w] = j]
    BY <1>9 DEF AgentStep, Serving, PcValues, TypeInv, TypeOK, Jobs, Goto
  <2>2. /\ WithSnapshot(w) \in [Deals -> EnvelopeValues \cup {NoEnvelope}]
        /\ \A r \in Runs \cup {None}, st \in RunStatuses :
          WithStatus(r, st) \in [Runs -> RunStatuses]
        /\ job[w].id \in Runs /\ job[w].next + 1 \in Nat
    BY <2>1, WriteTypes, ServingFacts, ResultTypes
  <2>3. Continues(job[w], j)
    BY <2>1, <2>2, JobChange
  <2>4. label \in Serving \ {"hydrated", "loaded"}
    BY DEF Serving, PcValues
  <2>5. TableTypes'
    BY <1>9, <2>1, <2>2, TypeParts DEF AgentStep, TableTypes, TypeInv, memory, tables, StepDone, RunStatuses
  <2>6. /\ dealEnvelope' = dealEnvelope
        /\ envelope' \in [EnvelopeIds -> EnvelopeValues \cup {NoEnvelope}]
        /\ \A e \in EnvelopeIds : envelope[e] \in EnvelopeValues
                                   => envelope'[e] \in EnvelopeValues
    BY <1>9, <2>1, <2>2 DEF AgentStep, TypeInv, TypeOK, memory, StepDone, RunStatuses
  <2> HIDE DEF j, label
  <2>7. MemoryTypes' /\ JobsOK' /\ CacheOK'
    BY <2>1, <2>2, <2>3, <2>4, <2>6, AdvanceTypes DEF Continues
  <2> QED
    BY <2>5, <2>7, <1>0
<1>10. CASE ExecBegin(w)
  <2> DEFINE j == [job[w] EXCEPT !.next = 1, !.res = NoResults]
             label == IF envelope[job[w].env].plan = "approved" THEN "steps" ELSE "record"
  <2>1. /\ pc[w] \in Serving /\ job[w] \in Jobs /\ Goto(w, label)
        /\ job[w].rid \in Runs \cup {None}
        /\ job' = [job EXCEPT ![w] = j]
    BY <1>10 DEF ExecBegin, Serving, PcValues, TypeInv, TypeOK, Jobs
  <2>2. Target(w) \in Runs /\ NoResults \in [Steps -> Results]
    BY <2>1, ServingFacts, ResultTypes
  <2>3. Continues(job[w], j)
    BY <2>1, <2>2, JobChange
  <2>4. label \in Serving \ {"hydrated", "loaded"}
    BY DEF Serving, PcValues
  <2>5. TableTypes'
    BY <1>10, <2>1, <2>2, TypeParts DEF ExecBegin, TableTypes, TypeInv, memory, tables, StepDone
  <2>6. /\ dealEnvelope' = dealEnvelope
        /\ envelope' \in [EnvelopeIds -> EnvelopeValues \cup {NoEnvelope}]
        /\ \A e \in EnvelopeIds : envelope[e] \in EnvelopeValues
                                   => envelope'[e] \in EnvelopeValues
    BY <1>10, <2>1, <2>2 DEF ExecBegin, TypeInv, TypeOK, memory, StepDone
  <2> HIDE DEF j, label
  <2>7. MemoryTypes' /\ JobsOK' /\ CacheOK'
    BY <2>1, <2>2, <2>3, <2>4, <2>6, AdvanceTypes DEF Continues
  <2> QED
    BY <2>5, <2>7, <1>0
<1>11. CASE ExecStepBlocked(w)
  <2> DEFINE j == [job[w] EXCEPT !.next = job[w].next + 1, !.res = [job[w].res EXCEPT ![job[w].next] = "failed"]]
             label == "steps"
  <2>1. /\ pc[w] \in Serving /\ job[w] \in Jobs /\ Goto(w, label)
        /\ job[w].rid \in Runs \cup {None}
    BY <1>11 DEF ExecStepBlocked, Serving, PcValues, TypeInv, TypeOK, Jobs, StepDone, Goto
  <2>2. /\ envelope[job[w].env] \in EnvelopeValues /\ job[w].env \in EnvelopeIds
        /\ Target(w) \in Runs
        /\ job' = [job EXCEPT ![w] = j]
        /\ [job[w].res EXCEPT ![job[w].next] = "failed"] \in [Steps -> Results]
        /\ job[w].next + 1 \in Nat
    BY <2>1, ServingFacts, StepDoneJob, ResultTypes, <1>11
       DEF ExecStepBlocked, Results
  <2>3. Continues(job[w], j)
    BY <2>1, <2>2, JobChange
  <2>4. label \in Serving \ {"hydrated", "loaded"}
    BY DEF Serving, PcValues
  <2>5. TableTypes'
    BY <1>11, <2>1, <2>2, TypeParts DEF ExecStepBlocked, TableTypes, TypeInv, memory, tables, StepDone, EnvelopeValues, StepStatuses, ActionStatuses
  <2>6. /\ dealEnvelope' = dealEnvelope
        /\ envelope' \in [EnvelopeIds -> EnvelopeValues \cup {NoEnvelope}]
        /\ \A e \in EnvelopeIds : envelope[e] \in EnvelopeValues
                                   => envelope'[e] \in EnvelopeValues
    BY <1>11, <2>1, <2>2 DEF ExecStepBlocked, TypeInv, TypeOK, memory, StepDone, EnvelopeValues, StepStatuses, ActionStatuses
  <2> HIDE DEF j, label
  <2>7. MemoryTypes' /\ JobsOK' /\ CacheOK'
    BY <2>1, <2>2, <2>3, <2>4, <2>6, AdvanceTypes DEF Continues
  <2> QED
    BY <2>5, <2>7, <1>0
<1>12. CASE ExecStepAlready(w)
  <2> DEFINE j == [job[w] EXCEPT !.next = job[w].next + 1, !.res = [job[w].res EXCEPT ![job[w].next] = "executed"]]
             label == "steps"
  <2>1. /\ pc[w] \in Serving /\ job[w] \in Jobs /\ Goto(w, label)
        /\ job[w].rid \in Runs \cup {None}
    BY <1>12 DEF ExecStepAlready, Serving, PcValues, TypeInv, TypeOK, Jobs, StepDone, Goto
  <2>2. /\ envelope[job[w].env] \in EnvelopeValues /\ job[w].env \in EnvelopeIds
        /\ Target(w) \in Runs
        /\ job' = [job EXCEPT ![w] = j]
        /\ [job[w].res EXCEPT ![job[w].next] = "executed"] \in [Steps -> Results]
        /\ job[w].next + 1 \in Nat
    BY <2>1, ServingFacts, StepDoneJob, ResultTypes, <1>12
       DEF ExecStepAlready, Results
  <2>3. Continues(job[w], j)
    BY <2>1, <2>2, JobChange
  <2>4. label \in Serving \ {"hydrated", "loaded"}
    BY DEF Serving, PcValues
  <2>5. TableTypes'
    BY <1>12, <2>1, <2>2, TypeParts DEF ExecStepAlready, TableTypes, TypeInv, memory, tables, StepDone, EnvelopeValues, StepStatuses, ActionStatuses
  <2>6. /\ dealEnvelope' = dealEnvelope
        /\ envelope' \in [EnvelopeIds -> EnvelopeValues \cup {NoEnvelope}]
        /\ \A e \in EnvelopeIds : envelope[e] \in EnvelopeValues
                                   => envelope'[e] \in EnvelopeValues
    BY <1>12, <2>1, <2>2 DEF ExecStepAlready, TypeInv, TypeOK, memory, StepDone, EnvelopeValues, StepStatuses, ActionStatuses
  <2> HIDE DEF j, label
  <2>7. MemoryTypes' /\ JobsOK' /\ CacheOK'
    BY <2>1, <2>2, <2>3, <2>4, <2>6, AdvanceTypes DEF Continues
  <2> QED
    BY <2>5, <2>7, <1>0
<1>13. CASE ExecStepSend(w)
  <2> DEFINE j == [job[w] EXCEPT !.next = job[w].next + 1, !.res = [job[w].res EXCEPT ![job[w].next] = "executed"]]
             label == "steps"
  <2>1. /\ pc[w] \in Serving /\ job[w] \in Jobs /\ Goto(w, label)
        /\ job[w].rid \in Runs \cup {None}
    BY <1>13 DEF ExecStepSend, Serving, PcValues, TypeInv, TypeOK, Jobs, StepDone, Goto, CallsTool
  <2>2. /\ envelope[job[w].env] \in EnvelopeValues /\ job[w].env \in EnvelopeIds
        /\ Target(w) \in Runs
        /\ job' = [job EXCEPT ![w] = j]
        /\ [job[w].res EXCEPT ![job[w].next] = "executed"] \in [Steps -> Results]
        /\ job[w].next + 1 \in Nat
    BY <2>1, ServingFacts, StepDoneJob, ResultTypes, <1>13
       DEF ExecStepSend, Results, CallsTool
  <2>3. Continues(job[w], j)
    BY <2>1, <2>2, JobChange
  <2>4. label \in Serving \ {"hydrated", "loaded"}
    BY DEF Serving, PcValues
  <2>5. TableTypes'
    BY <1>13, <2>1, <2>2, TypeParts DEF ExecStepSend, TableTypes, TypeInv, memory, tables, StepDone, EnvelopeValues, StepStatuses, ActionStatuses, CallsTool, Bump
  <2>6. /\ dealEnvelope' = dealEnvelope
        /\ envelope' \in [EnvelopeIds -> EnvelopeValues \cup {NoEnvelope}]
        /\ \A e \in EnvelopeIds : envelope[e] \in EnvelopeValues
                                   => envelope'[e] \in EnvelopeValues
    BY <1>13, <2>1, <2>2 DEF ExecStepSend, TypeInv, TypeOK, memory, StepDone, EnvelopeValues, StepStatuses, ActionStatuses, CallsTool, Bump
  <2> HIDE DEF j, label
  <2>7. MemoryTypes' /\ JobsOK' /\ CacheOK'
    BY <2>1, <2>2, <2>3, <2>4, <2>6, AdvanceTypes DEF Continues
  <2> QED
    BY <2>5, <2>7, <1>0
<1>14. CASE Resume(w)
  <2> DEFINE j == [job[w] EXCEPT !.rid = runIds[job[w].deal]]
             label == "executing"
  <2>1. /\ pc[w] \in Serving /\ job[w] \in Jobs /\ Goto(w, label)
        /\ job[w].rid \in Runs \cup {None}
        /\ job' = [job EXCEPT ![w] = j]
    BY <1>14 DEF Resume, Serving, PcValues, TypeInv, TypeOK, Jobs, JobsOK, JobOK
  <2>2. /\ runIds[job[w].deal] \in Runs \cup {None}
        /\ job[w].deal \in Deals /\ job[w].env \in EnvelopeIds
        /\ ResumedStat(envelope[job[w].env]) \in [Steps -> StepStatuses]
        /\ envelope[job[w].env] \in EnvelopeValues
    BY <2>1, ServingFacts, PlanTypes DEF TypeInv, TypeOK, Jobs
  <2>3. Continues(job[w], j)
    BY <2>1, <2>2, JobChange
  <2>4. label \in Serving \ {"hydrated", "loaded"}
    BY DEF Serving, PcValues
  <2>5. TableTypes'
    BY <1>14, <2>1, <2>2, TypeParts DEF Resume, TableTypes, TypeInv, memory, tables, StepDone, ResumedEnvelopes, EnvelopeValues, ActionStatuses
  <2>6. /\ dealEnvelope' = dealEnvelope
        /\ envelope' \in [EnvelopeIds -> EnvelopeValues \cup {NoEnvelope}]
        /\ \A e \in EnvelopeIds : envelope[e] \in EnvelopeValues
                                   => envelope'[e] \in EnvelopeValues
    BY <1>14, <2>1, <2>2 DEF Resume, TypeInv, TypeOK, memory, StepDone, ResumedEnvelopes, EnvelopeValues, ActionStatuses
  <2> HIDE DEF j, label
  <2>7. MemoryTypes' /\ JobsOK' /\ CacheOK'
    BY <2>1, <2>2, <2>3, <2>4, <2>6, AdvanceTypes DEF Continues
  <2> QED
    BY <2>5, <2>7, <1>0
<1>15. CASE ApproveLoaded(w)
  <2> DEFINE j == job[w]
             label == "resuming"
  <2>1. /\ pc[w] \in Serving /\ job[w] \in Jobs /\ Goto(w, label)
        /\ job[w].rid \in Runs \cup {None}
        /\ job' = [job EXCEPT ![w] = j]
    BY <1>15 DEF ApproveLoaded, Serving, PcValues, TypeInv, TypeOK, Jobs
  <2>2. /\ ApprovedPlan(envelope[job[w].env], PlanScope(w)) \in EnvelopeValues
        /\ job[w].env \in EnvelopeIds
    BY <2>1, ServingFacts, PlanTypes DEF TypeInv, Jobs
  <2>3. Continues(job[w], j)
    BY <2>1, <2>2, JobChange
  <2>4. label \in Serving \ {"hydrated", "loaded"}
    BY DEF Serving, PcValues
  <2>5. TableTypes'
    BY <1>15, <2>1, <2>2, TypeParts DEF ApproveLoaded, TableTypes, TypeInv, memory, tables, StepDone
  <2>6. /\ dealEnvelope' = dealEnvelope
        /\ envelope' \in [EnvelopeIds -> EnvelopeValues \cup {NoEnvelope}]
        /\ \A e \in EnvelopeIds : envelope[e] \in EnvelopeValues
                                   => envelope'[e] \in EnvelopeValues
    BY <1>15, <2>1, <2>2 DEF ApproveLoaded, TypeInv, TypeOK, memory, StepDone
  <2> HIDE DEF j, label
  <2>7. MemoryTypes' /\ JobsOK' /\ CacheOK'
    BY <2>1, <2>2, <2>3, <2>4, <2>6, AdvanceTypes DEF Continues
  <2> QED
    BY <2>5, <2>7, <1>0
<1>16. CASE SnapshotAction(w)
  <2> DEFINE j == job[w]
             label == IF job[w].kind = "crm_sync" THEN "resuming" ELSE "returning"
  <2>1. /\ pc[w] \in Serving /\ job[w] \in Jobs /\ Goto(w, label)
        /\ job[w].rid \in Runs \cup {None}
        /\ job' = [job EXCEPT ![w] = j]
    BY <1>16 DEF SnapshotAction, Serving, PcValues, TypeInv, TypeOK, Jobs
  <2>2. WithSnapshot(w) \in [Deals -> EnvelopeValues \cup {NoEnvelope}]
    BY <2>1, WriteTypes
  <2>3. Continues(job[w], j)
    BY <2>1, <2>2, JobChange
  <2>4. label \in Serving \ {"hydrated", "loaded"}
    BY DEF Serving, PcValues
  <2>5. TableTypes'
    BY <1>16, <2>1, <2>2, TypeParts DEF SnapshotAction, TableTypes, TypeInv, memory, tables, StepDone
  <2>6. /\ dealEnvelope' = dealEnvelope
        /\ envelope' \in [EnvelopeIds -> EnvelopeValues \cup {NoEnvelope}]
        /\ \A e \in EnvelopeIds : envelope[e] \in EnvelopeValues
                                   => envelope'[e] \in EnvelopeValues
    BY <1>16, <2>1, <2>2 DEF SnapshotAction, TypeInv, TypeOK, memory, StepDone
  <2> HIDE DEF j, label
  <2>7. MemoryTypes' /\ JobsOK' /\ CacheOK'
    BY <2>1, <2>2, <2>3, <2>4, <2>6, AdvanceTypes DEF Continues
  <2> QED
    BY <2>5, <2>7, <1>0
<1>17. ASSUME NEW plan \in {"pending_approval", "approved"}, PlanAction(w, plan)
      PROVE  TypeInv'
  <2>1. PICK text \in [Steps -> Generated] : Planned(w, text, plan)
    BY <1>17 DEF PlanAction
  <2>2. /\ pc[w] \in Serving /\ Goto(w, "action_row") /\ job[w] \in Jobs
        /\ job' = [job EXCEPT ![w] = job[w]]
    BY <1>17 DEF PlanAction, Serving, PcValues, TypeInv, TypeOK
  <2>3. /\ envelope[job[w].env] \in EnvelopeValues /\ job[w].env \in EnvelopeIds
        /\ job[w].id \in Runs
        /\ \A r \in Runs \cup {None}, st \in RunStatuses :
          WithStatus(r, st) \in [Runs -> RunStatuses]
    BY <2>2, ServingFacts, WriteTypes
  <2>4. TableTypes'
    BY <1>17, <2>1, <2>3, TypeParts DEF PlanAction, Planned, TableTypes, TypeInv, RunStatuses
  <2>5. /\ text \in StepTexts /\ plan \in ActionStatuses
        /\ [i \in Steps |-> plan] \in [Steps -> StepStatuses]
    BY DEF StepTexts, ActionStatuses, StepStatuses
  <2>6. /\ dealEnvelope' = dealEnvelope
        /\ envelope' \in [EnvelopeIds -> EnvelopeValues \cup {NoEnvelope}]
        /\ \A e \in EnvelopeIds : envelope[e] \in EnvelopeValues
                                   => envelope'[e] \in EnvelopeValues
    BY <1>17, <2>1, <2>3, <2>5 DEF PlanAction, Planned, TypeInv, TypeOK, EnvelopeValues
  <2>7. MemoryTypes' /\ JobsOK' /\ CacheOK'
    BY <2>2, <2>6, AdvanceTypes, "action_row" \in Serving \ {"hydrated", "loaded"}
       DEF Serving, PcValues
  <2> QED
    BY <2>4, <2>7, <1>0
<1>18. CASE SkipRun(w)
  <2>1. pc[w] \in Serving
    BY <1>18 DEF SkipRun, Serving, PcValues
  <2>2. /\ WithSnapshot(w) \in [Deals -> EnvelopeValues \cup {NoEnvelope}]
        /\ \A r \in Runs \cup {None}, st \in RunStatuses :
          WithStatus(r, st) \in [Runs -> RunStatuses]
        /\ job[w].id \in Runs /\ envelope[job[w].env] \in EnvelopeValues
    BY <2>1, WriteTypes, ServingFacts
  <2>3. TableTypes'
    BY <1>18, <2>1, <2>2, TypeParts DEF SkipRun, TableTypes, TypeInv, tables, RunStatuses
  <2>4. MemoryTypes' /\ JobsOK' /\ CacheOK'
    BY <1>18, <2>1, <2>2, EndTypes DEF SkipRun
  <2> QED
    BY <2>3, <2>4, <1>0
<1>19. CASE ReturnStart(w)
  <2>1. pc[w] \in Serving
    BY <1>19 DEF ReturnStart, Serving, PcValues
  <2>2. envelope[job[w].env] \in EnvelopeValues
    BY <2>1, ServingFacts
  <2>3. TableTypes'
    BY <1>19, <2>1, <2>2, TypeParts DEF ReturnStart, TableTypes, TypeInv, tables
  <2>4. MemoryTypes' /\ JobsOK' /\ CacheOK'
    BY <1>19, <2>1, <2>2, EndTypes DEF ReturnStart
  <2> QED
    BY <2>3, <2>4, <1>0
<1>20. CASE DecisionFails(w)
  <2>1. pc[w] \in Serving
    BY <1>20 DEF DecisionFails, Serving, PcValues
  <2>2. envelope[job[w].env] \in EnvelopeValues
    BY <2>1, ServingFacts
  <2>3. TableTypes'
    BY <1>20, <2>1, <2>2, TypeParts DEF DecisionFails, TableTypes, TypeInv, tables
  <2>4. MemoryTypes' /\ JobsOK' /\ CacheOK'
    BY <1>20, <2>1, <2>2, EndTypes DEF DecisionFails
  <2> QED
    BY <2>3, <2>4, <1>0
<1>21. CASE Complete(w)
  <2>1. pc[w] \in Serving
    BY <1>21 DEF Complete, Serving, PcValues
  <2>2. /\ WithSnapshot(w) \in [Deals -> EnvelopeValues \cup {NoEnvelope}]
        /\ \A r \in Runs \cup {None}, st \in RunStatuses :
          WithStatus(r, st) \in [Runs -> RunStatuses]
        /\ job[w].rid \in Runs \cup {None} /\ envelope[job[w].env] \in EnvelopeValues
    BY <2>1, WriteTypes, ServingFacts DEF Jobs
  <2>3. TableTypes'
    BY <1>21, <2>1, <2>2, TypeParts DEF Complete, TableTypes, TypeInv, tables, RunStatuses
  <2>4. MemoryTypes' /\ JobsOK' /\ CacheOK'
    BY <1>21, <2>1, <2>2, EndTypes DEF Complete
  <2> QED
    BY <2>3, <2>4, <1>0
<1>22. CASE ReviseLoaded(w)
  <2>1. pc[w] \in Serving /\ pc[w] = "loaded"
    BY <1>22 DEF ReviseLoaded, Serving, PcValues
  <2>2. /\ envelope[job[w].env] \in EnvelopeValues /\ job[w].scope \in {All} \cup Steps
        /\ job[w].text \in Bodies \cup {None}
    BY <2>1, ServingFacts DEF Jobs
  <2>3. RevisedPlan(w) \in EnvelopeValues
    BY <2>2, PlanTypes DEF RevisedPlan, TypeInv
  <2>4. TableTypes'
    BY <1>22, TypeParts DEF ReviseLoaded, TableTypes, TypeInv, tables
  <2>5. MemoryTypes' /\ JobsOK' /\ CacheOK'
    BY <1>22, <2>1, <2>3, EndTypes DEF ReviseLoaded
  <2> QED
    BY <2>4, <2>5, <1>0
<1>23. CASE ResumeNothingLeft(w)
  <2> DEFINE env == envelope[job[w].env]
             new == [env EXCEPT !.plan = "approved", !.stat = ResumedStat(env)]
  <2>1. pc[w] \in Serving
    BY <1>23 DEF ResumeNothingLeft, Serving, PcValues
  <2>2. env \in EnvelopeValues /\ job[w].env \in EnvelopeIds
        /\ ResumedStat(env) \in [Steps -> StepStatuses]
    BY <2>1, ServingFacts, PlanTypes DEF TypeInv, Jobs
  <2>3. new \in EnvelopeValues
    BY <2>2 DEF EnvelopeValues, ActionStatuses
  <2>4. ResumedEnvelopes(w) = [envelope EXCEPT ![job[w].env] = new]
    BY <2>2 DEF ResumedEnvelopes, TypeInv, TypeOK
  <2>5. TableTypes'
    BY <1>23, TypeParts DEF ResumeNothingLeft, TableTypes, TypeInv, tables
  <2> HIDE DEF new
  <2>6. EndRequest(w, [dealEnvelope EXCEPT ![job[w].deal] = job[w].env],
                   [envelope EXCEPT ![job[w].env] = new])
    BY <1>23, <2>4 DEF ResumeNothingLeft
  <2>7. MemoryTypes' /\ JobsOK' /\ CacheOK'
    BY <2>1, <2>3, <2>6, EndTypes
  <2> QED
    BY <2>5, <2>7, <1>0
<1>24. CASE LoadFails(w)
  <2>1. TableTypes'
    BY <1>24, TypeParts DEF LoadFails, TableTypes, TypeInv, tables
  <2>2. MemoryTypes' /\ JobsOK' /\ CacheOK'
    BY <1>24, EndRequestTypes DEF LoadFails, TypeInv, TypeOK, CacheOK, MemoryTypes
  <2> QED
    BY <2>1, <2>2, <1>0
<1>25. CASE LoadCached(w)
  <2>1. PICK d \in FoundDeals(job[w].id) :
          /\ dealEnvelope[d] # None
          /\ job' = [job EXCEPT ![w].deal = d, ![w].env = dealEnvelope[d]]
    BY <1>25 DEF LoadCached
  <2>2. pc[w] = "decided" /\ job[w] \in Jobs /\ job[w].id \in Runs
        /\ job[w].kind \in {"approve", "reject", "edit"}
    BY <1>25 DEF LoadCached, TypeInv, TypeOK, JobsOK, JobOK
  <2>3. d \in Deals
    BY <2>2 DEF FoundDeals, DealsHolding
  <2>4. dealEnvelope[d] \in EnvelopeIds /\ envelope[dealEnvelope[d]] \in EnvelopeValues
    BY <2>1, <2>3 DEF TypeInv, TypeOK, CacheOK
  <2> DEFINE j == [job[w] EXCEPT !.deal = d, !.env = dealEnvelope[d]]
  <2>5. job' = [job EXCEPT ![w] = j]
    BY <2>1 DEF TypeInv, TypeOK
  <2>6. /\ j \in Jobs /\ j.id = job[w].id /\ j.deal = d /\ j.env = dealEnvelope[d]
        /\ j.kind = job[w].kind
    BY <2>2, <2>3, <2>4 DEF Jobs
  <2> HIDE DEF j
  <2>7. TableTypes'
    BY <1>25, TypeParts DEF LoadCached, TableTypes, TypeInv, tables, memory
  <2>8. MemoryTypes' /\ CacheOK'
    BY <1>25, <2>5, <2>6
       DEF LoadCached, MemoryTypes, CacheOK, TypeInv, TypeOK, memory, Goto, PcValues
  <2>9. JobsOK'
    <3>0. pc'[w] = "loaded" /\ job'[w] = j /\ envelope' = envelope
      BY <1>25, <2>5 DEF LoadCached, TypeInv, TypeOK, memory, Goto
    <3> SUFFICES ASSUME NEW v \in Workers PROVE JobOK(v)'
      BY DEF JobsOK
    <3>1. CASE v = w
      BY <3>1, <3>0, <2>2, <2>3, <2>4, <2>6 DEF JobOK, Serving
    <3>2. CASE v # w
      <4>1. pc'[v] = pc[v] /\ job'[v] = job[v] /\ JobOK(v)
        BY <3>2, <1>25, <2>5 DEF LoadCached, TypeInv, TypeOK, JobsOK, Goto
      <4> QED
        BY <4>1, <3>0 DEF JobOK
    <3> QED
      BY <3>1, <3>2
  <2> QED
    BY <2>7, <2>8, <2>9, <1>0
<1>26. CASE LoadSaved(w)
  <2>1. PICK d \in FoundDeals(job[w].id), e \in FreshEnvelopes :
          /\ dealEnvelope[d] = None /\ snapshot[d] # NoEnvelope
          /\ envelope' = [envelope EXCEPT ![e] = snapshot[d]]
          /\ job' = [job EXCEPT ![w].deal = d, ![w].env = e]
    BY <1>26 DEF LoadSaved
  <2>2. pc[w] = "decided" /\ job[w] \in Jobs /\ job[w].id \in Runs
        /\ job[w].kind \in {"approve", "reject", "edit"}
    BY <1>26 DEF LoadSaved, TypeInv, TypeOK, JobsOK, JobOK
  <2>3. d \in Deals
    BY <2>2 DEF FoundDeals, DealsHolding
  <2>4. /\ e \in EnvelopeIds /\ snapshot[d] \in EnvelopeValues
        /\ \A x \in Deals : dealEnvelope[x] # e
        /\ \A v \in Workers : job[v].env # e
    BY <2>1, <2>3 DEF TypeInv, TypeOK, FreshEnvelopes, Held
  <2> DEFINE j == [job[w] EXCEPT !.deal = d, !.env = e]
  <2>5. job' = [job EXCEPT ![w] = j]
    BY <2>1 DEF TypeInv, TypeOK
  <2>6. /\ j \in Jobs /\ j.id = job[w].id /\ j.deal = d /\ j.env = e
        /\ j.kind = job[w].kind
    BY <2>2, <2>3, <2>4 DEF Jobs
  <2> HIDE DEF j
  <2>7. TableTypes'
    BY <1>26, TypeParts DEF LoadSaved, TableTypes, TypeInv, tables
  <2>8. MemoryTypes' /\ CacheOK'
    <3>1. pc' \in [Workers -> PcValues] /\ job' \in [Workers -> Jobs]
      BY <1>26, <2>5, <2>6 DEF LoadSaved, TypeInv, TypeOK, Goto, PcValues
    <3>2. /\ dealEnvelope' = dealEnvelope
          /\ envelope' \in [EnvelopeIds -> EnvelopeValues \cup {NoEnvelope}]
      BY <1>26, <2>1, <2>4 DEF LoadSaved, TypeInv, TypeOK
    <3>3. CacheOK'
      BY <2>1, <2>4, <3>2 DEF CacheOK, TypeInv, TypeOK
    <3> QED
      BY <3>1, <3>2, <3>3 DEF MemoryTypes, TypeInv, TypeOK
  <2>9. JobsOK'
    <3>0. /\ pc'[w] = "hydrated" /\ job'[w] = j /\ envelope'[e] = snapshot[d]
          /\ \A x \in EnvelopeIds \ {e} : envelope'[x] = envelope[x]
      BY <1>26, <2>1, <2>4, <2>5 DEF LoadSaved, TypeInv, TypeOK, Goto
    <3> SUFFICES ASSUME NEW v \in Workers PROVE JobOK(v)'
      BY DEF JobsOK
    <3>1. CASE v = w
      BY <3>1, <3>0, <2>2, <2>3, <2>4, <2>6 DEF JobOK, Serving
    <3>2. CASE v # w
      <4>1. pc'[v] = pc[v] /\ job'[v] = job[v] /\ JobOK(v)
        BY <3>2, <1>26, <2>5 DEF LoadSaved, TypeInv, TypeOK, JobsOK, Goto
      <4> QED
        BY <4>1, <3>0, <2>4 DEF JobOK
    <3> QED
      BY <3>1, <3>2
  <2> QED
    BY <2>7, <2>8, <2>9, <1>0
<1>27. CASE StoreHydrated(w)
  <2>1. pc[w] = "hydrated" /\ pc[w] \in Serving
    BY <1>27 DEF StoreHydrated, Serving, PcValues
  <2>2. job[w].deal \in Deals /\ job[w].env \in EnvelopeIds
        /\ envelope[job[w].env] \in EnvelopeValues
    BY <2>1, ServingFacts
  <2>3. TableTypes'
    BY <1>27, <2>2, TypeParts DEF StoreHydrated, TableTypes, TypeInv, tables, TypeOK
  <2>4. MemoryTypes' /\ CacheOK'
    BY <1>27, <2>2
       DEF StoreHydrated, MemoryTypes, CacheOK, TypeInv, TypeOK, Goto, PcValues
  <2>5. JobsOK'
    BY <1>27, <2>1 DEF StoreHydrated, TypeInv, TypeOK, JobsOK, JobOK, Goto, Serving, PcValues
  <2> QED
    BY <2>3, <2>4, <2>5, <1>0
<1> QED
  BY <1>1, <1>2, <1>3, <1>4, <1>5, <1>6, <1>7, <1>8, <1>9, <1>10, <1>11, <1>12, <1>13, <1>14, <1>15, <1>16, <1>17, <1>18, <1>19, <1>20, <1>21, <1>22, <1>23, <1>24, <1>25, <1>26, <1>27 DEF Step

\* Faults and restarts keep the types.
LEMMA FaultTypes ==
  ASSUME TypeInv, NEW w \in Workers, Fault(w)
  PROVE  TypeInv'
<1> USE OrchestratorAssumption
<1>1. pc[w] \in Serving
  BY DEF Fault, AgentFail, ExecFail, ExecRetry, EvalFail, Serving, PcValues
<1>2. /\ WithSnapshot(w) \in [Deals -> EnvelopeValues \cup {NoEnvelope}]
      /\ \A r \in Runs \cup {None}, st \in RunStatuses :
           WithStatus(r, st) \in [Runs -> RunStatuses]
      /\ job[w].id \in Runs /\ envelope[job[w].env] \in EnvelopeValues
  BY <1>1, ServingFacts, WriteTypes
<1>3. CASE ExecRetry(w)
  <2>1. job[w] \in Jobs /\ Goto(w, "executing") /\ UNCHANGED <<memory, job>>
    BY <1>3 DEF ExecRetry, TypeInv, TypeOK
  <2>2. TableTypes'
    BY <1>3, TypeParts DEF ExecRetry, TableTypes, TypeInv, memory, tables
  <2>3. MemoryTypes' /\ JobsOK' /\ CacheOK'
    BY <1>1, <2>1, AdvanceTypes, "executing" \in Serving \ {"hydrated", "loaded"}
       DEF memory, Serving, PcValues, TypeInv, TypeOK
  <2> QED
    BY <2>2, <2>3, TypeParts DEF TypeInv, TypeOK, TableTypes, MemoryTypes
<1>4. CASE AgentFail(w) \/ ResumeFails(w)
  <2>1. TableTypes'
    <3>1. CASE AgentFail(w)
      BY <3>1, <1>2, TypeParts DEF AgentFail, TableTypes, TypeInv, RunStatuses
    <3>2. CASE ResumeFails(w)
      BY <3>2, <1>2, TypeParts DEF ResumeFails, TableTypes, TypeInv, RunStatuses
    <3> QED
      BY <1>4, <3>1, <3>2
  <2>2. EndRequest(w, dealEnvelope, envelope)
    BY <1>4 DEF AgentFail, ResumeFails
  <2>3. MemoryTypes' /\ JobsOK' /\ CacheOK'
    BY <1>1, <1>2, <2>2, EndTypes
  <2> QED
    BY <2>1, <2>3, TypeParts DEF TypeInv, TypeOK, TableTypes, MemoryTypes
<1> QED
  BY <1>3, <1>4 DEF Fault, ExecFail, EvalFail

\* A restart loses the memory and keeps the tables.
LEMMA RestartTypes ==
  ASSUME TypeInv, Restart
  PROVE  TypeInv'
<1>1. TableTypes'
  BY TypeParts DEF Restart, TableTypes, TypeInv, tables
<1>2. NoJob \in Jobs
  BY DEF NoJob, Jobs, RequestKinds, All, NoResults, Results
<1>3. MemoryTypes' /\ JobsOK' /\ CacheOK'
  BY <1>2 DEF Restart, MemoryTypes, JobsOK, JobOK, CacheOK, Serving, PcValues, NoJob
<1> QED
  BY <1>1, <1>3, TypeParts DEF TypeInv, TypeOK, TableTypes, MemoryTypes

\* TypeInv is inductive.
LEMMA NextTypeInv == TypeInv /\ [Next]_vars => TypeInv'
<1> SUFFICES ASSUME TypeInv, [Next]_vars PROVE TypeInv'
  OBVIOUS
<1>1. CASE Next
  BY <1>1, NewRequestTypes, FaultTypes, StepTypes, RestartTypes DEF Next
<1>2. CASE UNCHANGED vars
  BY <1>2 DEF vars, tables, memory, TypeInv, TypeOK, JobsOK, JobOK, CacheOK
<1> QED
  BY <1>1, <1>2

\* The tables, the memory and the locals of every request keep their types: no
\* reference to an envelope dangles, whatever is interleaved, lost in a crash or
\* raised (service.py:287-310, runner.py:185-592).
THEOREM TypeCorrect == Spec => []TypeOK
<1>1. Init => TypeInv
  BY InitTypeInv
<1>2. TypeInv /\ [Next]_vars => TypeInv'
  BY NextTypeInv
<1>3. TypeInv => TypeOK
  BY DEF TypeInv
<1> QED
  BY <1>1, <1>2, <1>3, PTL DEF Spec

=============================================================================
