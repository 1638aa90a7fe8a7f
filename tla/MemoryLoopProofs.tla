--------------------------- MODULE MemoryLoopProofs ---------------------------
(***************************************************************************)
(* Proofs about MemoryLoop: its types, where evidence comes from, what a   *)
(* completed run has left, that evidence in favour of ROI sends a plan of  *)
(* the rules to a person, and that the stages of the gate are nested.      *)
(***************************************************************************)
EXTENDS MemoryLoop, FiniteSetTheorems, SequenceTheorems, WellFoundedInduction, TLAPS

-----------------------------------------------------------------------------
(* What the operators give. *)

\* The evidence of a persona is among its lessons.
LEMMA EvidenceOfPersona ==
  ASSUME NEW persona, NEW stage
  PROVE  /\ Evidence(persona, stage) \subseteq DOMAIN lessons
         /\ \A i \in Evidence(persona, stage) : lessons[i].persona = persona
BY DEF Evidence, Gated, Retrieved, Newest

\* Lessons are numbered, and their numbers are finite.
LEMMA LessonNumbers ==
  ASSUME lessons \in Seq(Lessons)
  PROVE  /\ DOMAIN lessons = 1 .. Len(lessons)
         /\ Len(lessons) \in Nat
         /\ DOMAIN lessons \subseteq Nat
         /\ IsFiniteSet(DOMAIN lessons)
<1>1. DOMAIN lessons = 1 .. Len(lessons) /\ Len(lessons) \in Nat
  BY LenProperties
<1> QED
  BY <1>1, FS_Interval

\* A stage is one of three.
LEMMA StageOfIsStage ==
  ASSUME NEW raw \in Int
  PROVE  StageOf(raw) \in 1 .. 3
BY DEF StageOf

\* The rules choose a strategy, and ROI whenever the evidence mentions it.
LEMMA StrategyOfRules ==
  ASSUME NEW r \in Runs, NEW ev
  PROVE  /\ Strategy(r, ev) \in Strategies
         /\ (\E i \in ev : Mentions(lessons[i].text, "roi")) => Strategy(r, ev) = "roi_framing"
BY LoopAssumption DEF LoopAssumption, Strategy, Strategies

\* The lift is bounded.
LEMMA LiftIsBounded ==
  ASSUME NEW ev
  PROVE  Lift(ev) \in 0 .. 150
BY DEF Lift

\* No evidence claims an impact of nothing.
LEMMA NothingClaimed == Claimed({}) = 0
<1> DEFINE F(g) == [s \in SUBSET {} |->
                      IF s = {} THEN 0
                      ELSE LET x == CHOOSE y \in s : TRUE IN Impact(x) + g[s \ {x}]]
<1>1. F([s \in SUBSET {} |-> 0]) = [s \in SUBSET {} |-> 0]
  OBVIOUS
<1>2. \A g : g = F(g) => g[{}] = 0
  OBVIOUS
<1>3. (CHOOSE g : g = F(g)) = F(CHOOSE g : g = F(g))
  BY <1>1
<1> QED
  BY <1>2, <1>3 DEF Claimed, MapThenSumSet, MapThenFoldSet

LEMMA NoLiftWithoutEvidence ==
  ASSUME NEW ev, Lift(ev) > 0
  PROVE  ev # {}
BY NothingClaimed DEF Lift

\* The last stage of the gate wants two lessons or lets none pass.
LEMMA EvidenceIsEnough ==
  ASSUME NEW persona, NEW stage \in 1 .. 3, stage = 3
  PROVE  Cardinality(Evidence(persona, stage)) # 1
<1>1. CASE Passes(stage, Retrieved(persona, MinQuality(stage)))
  BY <1>1 DEF Passes, Evidence, Gated
<1>2. CASE ~Passes(stage, Retrieved(persona, MinQuality(stage)))
  BY <1>2, FS_EmptySet DEF Evidence, Gated
<1> QED
  BY <1>1, <1>2

\* The hint of a label is a confidence.
LEMMA HintIsConfidence ==
  ASSUME NEW label \in Labels
  PROVE  Hint(label) \in Confidences
BY DEF Hint, Labels, Confidences

-----------------------------------------------------------------------------
(* The invariant: what memory and the runs' decisions were made of, *)

\* Every lesson is of a run whose outcome is on record.
LessonsOnRecord ==
  \A i \in DOMAIN lessons : lessons[i].run # None => outcomes[lessons[i].run] # None

\* A run that has not started has taught nothing.
IdleTaughtNothing ==
  \A r \in Runs : In(r, "idle") => \A i \in DOMAIN lessons : lessons[i].run # r

\* Evidence is in memory, of the persona, and not of the run itself.
EvidenceInMemory ==
  \A r \in Runs : \A i \in run[r].evidence :
    i \in DOMAIN lessons /\ lessons[i].persona = PersonaOf[r] /\ lessons[i].run # r

\* The last stage of the gate lets no single lesson pass.
EnoughAt(stage, ev) == stage = 3 => Cardinality(ev) # 1

\* Where the rules decided, strategy and impact follow the evidence, until it is
\* dropped.
FollowsEvidence(r) ==
  /\ In(r, "planning") /\ run[r].by = "rules"
       => ((\E i \in run[r].evidence : Mentions(lessons[i].text, "roi"))
             => run[r].strategy = "roi_framing")
  /\ In(r, "deciding") => EnoughAt(run[r].stage, run[r].evidence)
  /\ In(r, "planning") /\ run[r].by = "rules"
       => /\ run[r].impact <= 150
          /\ run[r].impact > 0 => run[r].evidence # {}
          /\ EnoughAt(run[r].stage, run[r].evidence)

RulesFollowEvidence == \A r \in Runs : FollowsEvidence(r)

MemoryInv ==
  /\ TypeOK
  /\ LessonsOnRecord
  /\ IdleTaughtNothing
  /\ EvidenceInMemory
  /\ RulesFollowEvidence
  /\ RoiEvidenceNeedsPerson

(* and what the threads that serve its approvals have left of a run. *)

\* The run has an outcome and a lesson, of that outcome unless approvals overlapped.
Told(r) ==
  /\ outcomes[r] # None
  /\ \E i \in DOMAIN lessons :
       /\ lessons[i].run = r
       /\ r \notin overlapped => lessons[i].text.label = outcomes[r]

\* What a thread has left of its run by the time it reaches a phase.
WorkKnown(t, r) ==
  resume[t].run = r =>
    /\ In(r, "approved")
    /\ resume[t].phase \in {"recorded", "taught"}
         => resume[t].label \in Labels /\ outcomes[r] # None
    /\ resume[t].phase = "taught" => Told(r)

\* A thread whose run no other had with it is the only one to write of it: the run is
\* not completed behind its back, and the outcome is its own.
Sole(t, r) ==
  r \notin overlapped /\ resume[t].run = r =>
    /\ \A u \in Threads : resume[u].run = r => u = t
    /\ resume[t].phase \in {"evaluating", "recorded", "taught"} => status[r] # "completed"
    /\ resume[t].phase \in {"recorded", "taught"} => outcomes[r] = resume[t].label

WorkOn(r) ==
  /\ status[r] = "completed" => Told(r)
  /\ \A t \in Threads : WorkKnown(t, r) /\ Sole(t, r)

WorkInv == \A r \in Runs : WorkOn(r)

IInv == MemoryInv /\ WorkInv

-----------------------------------------------------------------------------
LEMMA InitHolds == Init => IInv
<1> SUFFICES ASSUME Init PROVE IInv
  OBVIOUS
<1>1. TypeOK
  <2>1. NewRun \in RunStates
    BY DEF NewRun, RunStates, Phases
  <2>2. NoResume \in Resumes
    BY DEF NoResume, Resumes, ResumePhases, Confidences
  <2>3. lessons \in Seq(Lessons)
    BY HistoryAssumption DEF Init
  <2> QED
    BY <2>1, <2>2, <2>3, LoopAssumption DEF LoopAssumption, Init, TypeOK, Statuses
<1>2. \A r \in Runs : run[r] = NewRun /\ status[r] = None
  BY DEF Init
<1>3. \A i \in DOMAIN lessons : lessons[i].run = None
  BY HistoryAssumption DEF Init
<1>4. \A r \in Runs : run[r].phase = "idle" /\ run[r].evidence = {} /\ run[r].strategy = None
  BY <1>2 DEF NewRun
<1>5. LessonsOnRecord /\ IdleTaughtNothing
  BY LoopAssumption, <1>3 DEF LoopAssumption, LessonsOnRecord, IdleTaughtNothing
<1>6. EvidenceInMemory /\ RulesFollowEvidence /\ RoiEvidenceNeedsPerson
  BY <1>4 DEF EvidenceInMemory, RulesFollowEvidence, FollowsEvidence, RoiEvidenceNeedsPerson, In
<1>7. WorkInv
  <2>1. None # "completed" /\ None \notin Runs
    BY LoopAssumption DEF LoopAssumption
  <2>2. \A t \in Threads : resume[t].run = None
    BY DEF Init, NoResume
  <2> QED
    BY <1>2, <2>1, <2>2 DEF WorkInv, WorkOn, WorkKnown, Sole
<1> QED
  BY <1>1, <1>5, <1>6, <1>7 DEF IInv, MemoryInv

-----------------------------------------------------------------------------
(* Most steps write one run and its status, and leave the tables alone. *)

\* A state and a status of a run that agree with the tables.
Fits(r, state, st) ==
  /\ state \in RunStates /\ st \in Statuses
  /\ state.phase # "idle"
  /\ \A i \in state.evidence :
       i \in DOMAIN lessons /\ lessons[i].persona = PersonaOf[r] /\ lessons[i].run # r
  /\ state.phase = "planning" /\ state.by = "rules"
       => ((\E i \in state.evidence : Mentions(lessons[i].text, "roi"))
             => state.strategy = "roi_framing")
  /\ state.phase = "deciding" => EnoughAt(state.stage, state.evidence)
  /\ state.phase = "planning" /\ state.by = "rules"
       => /\ state.impact <= 150
          /\ state.impact > 0 => state.evidence # {}
          /\ EnoughAt(state.stage, state.evidence)
  /\ state.phase = "handed over" /\ st = "running" /\ state.by = "rules"
       /\ state.strategy # None
       => \A i \in state.evidence : ~Mentions(lessons[i].text, "roi")

LEMMA FitsMemory ==
  ASSUME IInv, NEW r \in Runs, NEW state, NEW st, Fits(r, state, st),
         run' = [run EXCEPT ![r] = state], status' = [status EXCEPT ![r] = st],
         lessons' = lessons, outcomes' = outcomes, today' = today,
         resume' \in [Threads -> Resumes], resumed' \in 0 .. MaxResumed,
         overlapped' \subseteq Runs
  PROVE  MemoryInv'
<1>1. TypeOK
  BY DEF IInv, MemoryInv
<1>2. /\ run'[r] = state /\ status'[r] = st
      /\ \A q \in Runs : q # r => run'[q] = run[q] /\ status'[q] = status[q]
  BY <1>1 DEF TypeOK
<1>3. TypeOK'
  BY <1>1 DEF TypeOK, Fits
<1>4. LessonsOnRecord'
  BY DEF IInv, MemoryInv, LessonsOnRecord
<1>5. IdleTaughtNothing'
  <2> SUFFICES ASSUME NEW q \in Runs, run'[q].phase = "idle", NEW i \in DOMAIN lessons
               PROVE  lessons[i].run # q
    BY DEF IdleTaughtNothing, In
  <2>1. run'[q] = run[q]
    BY <1>2 DEF Fits
  <2> QED
    BY <2>1 DEF IInv, MemoryInv, IdleTaughtNothing, In
<1>6. EvidenceInMemory'
  <2> SUFFICES ASSUME NEW q \in Runs, NEW i \in run'[q].evidence
               PROVE  /\ i \in DOMAIN lessons /\ lessons[i].persona = PersonaOf[q]
                      /\ lessons[i].run # q
    BY DEF EvidenceInMemory
  <2>1. CASE q = r
    BY <1>2, <2>1 DEF Fits
  <2>2. CASE q # r
    BY <1>2, <2>2 DEF IInv, MemoryInv, EvidenceInMemory
  <2> QED
    BY <2>1, <2>2
<1>7. RulesFollowEvidence'
  <2> SUFFICES ASSUME NEW q \in Runs PROVE FollowsEvidence(q)'
    BY DEF RulesFollowEvidence
  <2>1. CASE q = r
    BY <1>2, <2>1 DEF FollowsEvidence, In, Fits
  <2>2. CASE q # r
    BY <1>2, <2>2 DEF IInv, MemoryInv, RulesFollowEvidence, FollowsEvidence, In
  <2> QED
    BY <2>1, <2>2
<1>8. RoiEvidenceNeedsPerson'
  <2> SUFFICES ASSUME NEW q \in Runs,
                      (In(q, "handed over") /\ status[q] = "running"
                         /\ run[q].by = "rules" /\ run[q].strategy # None)',
                      NEW i \in run'[q].evidence
               PROVE  ~Mentions(lessons'[i].text, "roi")
    BY DEF RoiEvidenceNeedsPerson
  <2>1. CASE q = r
    BY <1>2, <2>1 DEF In, Fits
  <2>2. CASE q # r
    BY <1>2, <2>2 DEF IInv, MemoryInv, RoiEvidenceNeedsPerson, In
  <2> QED
    BY <2>1, <2>2
<1> QED
  BY <1>3, <1>4, <1>5, <1>6, <1>7, <1>8 DEF MemoryInv

\* A run that no step of a thread touched: lessons may come behind its own.
LEMMA WorkUntouched ==
  ASSUME IInv, NEW r \in Runs,
         In(r, "approved") => In(r, "approved")',
         status'[r] = status[r], outcomes'[r] = outcomes[r],
         DOMAIN lessons \subseteq DOMAIN lessons',
         \A i \in DOMAIN lessons : lessons'[i] = lessons[i],
         r \in overlapped' <=> r \in overlapped,
         \A t \in Threads : resume'[t].run = r => resume'[t] = resume[t]
  PROVE  WorkOn(r)'
<1>1. WorkOn(r)
  BY DEF IInv, WorkInv
<1>2. Told(r) => Told(r)'
  BY DEF Told
<1>3. ASSUME NEW t \in Threads PROVE WorkKnown(t, r)'
  BY <1>1, <1>2 DEF WorkOn, WorkKnown
<1>4. ASSUME NEW t \in Threads PROVE Sole(t, r)'
  BY <1>1 DEF WorkOn, Sole
<1> QED
  BY <1>1, <1>2, <1>3, <1>4 DEF WorkOn

LEMMA FitsKeeps ==
  ASSUME IInv, NEW r \in Runs, NEW state, NEW st, Fits(r, state, st),
         run[r].phase # "approved", st = status[r] \/ st # "completed",
         run' = [run EXCEPT ![r] = state], status' = [status EXCEPT ![r] = st],
         UNCHANGED <<lessons, outcomes, resume, today, history>>
  PROVE  IInv'
<1>0. /\ TypeOK
      /\ run' = [run EXCEPT ![r] = state] /\ status' = [status EXCEPT ![r] = st]
      /\ lessons' = lessons /\ outcomes' = outcomes /\ today' = today
      /\ resume' = resume /\ resumed' = resumed /\ overlapped' = overlapped
  BY DEF IInv, MemoryInv, history
<1>1. MemoryInv'
  <2>1. /\ resume' \in [Threads -> Resumes] /\ resumed' \in 0 .. MaxResumed
        /\ overlapped' \subseteq Runs
    BY <1>0 DEF TypeOK
  <2> QED
    BY <1>0, <2>1, FitsMemory
<1>2. /\ status'[r] = st
      /\ \A q \in Runs : q # r => run'[q] = run[q] /\ status'[q] = status[q]
  BY <1>0 DEF TypeOK
<1>3. WorkOn(r)'
  <2>1. \A t \in Threads : resume[t].run # r
    BY DEF IInv, WorkInv, WorkOn, WorkKnown, In
  <2>2. status'[r] = "completed" => Told(r)'
    BY <1>0, <1>2 DEF IInv, WorkInv, WorkOn, Told
  <2> QED
    BY <1>0, <2>1, <2>2 DEF WorkOn, WorkKnown, Sole
<1>4. ASSUME NEW q \in Runs, q # r PROVE WorkOn(q)'
  BY <1>0, <1>2, <1>4, WorkUntouched DEF In
<1> QED
  BY <1>1, <1>3, <1>4 DEF IInv, WorkInv

\* What the invariant says of one run.
LEMMA RunKnown ==
  ASSUME IInv, NEW r \in Runs
  PROVE  /\ run[r] \in RunStates /\ status[r] \in Statuses
         /\ outcomes[r] \in Labels \cup {None}
         /\ \A i \in run[r].evidence :
              i \in DOMAIN lessons /\ lessons[i].persona = PersonaOf[r] /\ lessons[i].run # r
         /\ run[r].phase = "deciding" => EnoughAt(run[r].stage, run[r].evidence)
BY DEF IInv, MemoryInv, TypeOK, EvidenceInMemory, RulesFollowEvidence, FollowsEvidence, In

\* A step that leaves the status alone writes it back.
LEMMA StatusWrittenBack ==
  ASSUME TypeOK, NEW r \in Runs, UNCHANGED status
  PROVE  status' = [status EXCEPT ![r] = status[r]]
BY DEF TypeOK

\* The states that the steps give a run.
AsMoved(s, phase) == [s EXCEPT !.phase = phase]

\* A run that goes to another phase.
LEMMA PhaseSet ==
  ASSUME NEW s \in RunStates,
         NEW phase \in Phases
  PROVE  LET state == AsMoved(s, phase)
         IN  /\ state \in RunStates
             /\ state.phase = phase
             /\ state.evidence = s.evidence
             /\ state.strategy = s.strategy
             /\ state.by = s.by
BY DEF AsMoved, RunStates

AsRetrieved(s, phase, stage, evidence) ==
  [s EXCEPT !.phase = phase, !.stage = stage, !.evidence = evidence]

\* A run that got its evidence.
LEMMA RetrievedState ==
  ASSUME NEW s \in RunStates,
         NEW phase \in Phases, NEW stage \in 1 .. 3, NEW evidence \in SUBSET Nat
  PROVE  LET state == AsRetrieved(s, phase, stage, evidence)
         IN  /\ state \in RunStates
             /\ state.phase = phase
             /\ state.stage = stage
             /\ state.evidence = evidence
<1> DEFINE s1 == [s EXCEPT !.phase = phase]
           s2 == [s1 EXCEPT !.stage = stage]
           s3 == [s2 EXCEPT !.evidence = evidence]
<1>1. s1 \in RunStates
  BY DEF RunStates
<1> HIDE DEF s1
<1>2. s2 \in RunStates
  BY <1>1 DEF RunStates
<1> HIDE DEF s2
<1>3. s3 \in RunStates
  BY <1>2 DEF RunStates
<1> USE DEF AsRetrieved, s1, s2
<1> QED
  BY <1>3 DEF RunStates

AsDecided(s, phase, used, strategy, impact) ==
  [s EXCEPT !.phase = phase, !.used = used,
            !.strategy = strategy, !.impact = impact]

\* A run whose rules decided.
LEMMA DecidedState ==
  ASSUME NEW s \in RunStates,
         NEW phase \in Phases, NEW used \in Nat, NEW strategy \in Strategies \cup {None},
         NEW impact \in Int
  PROVE  LET state == AsDecided(s, phase, used, strategy, impact)
         IN  /\ state \in RunStates
             /\ state.phase = phase
             /\ state.stage = s.stage
             /\ state.strategy = strategy
             /\ state.impact = impact
             /\ state.evidence = s.evidence
             /\ state.by = s.by
<1> DEFINE s1 == [s EXCEPT !.phase = phase]
           s2 == [s1 EXCEPT !.used = used]
           s3 == [s2 EXCEPT !.strategy = strategy]
           s4 == [s3 EXCEPT !.impact = impact]
<1>1. s1 \in RunStates
  BY DEF RunStates
<1> HIDE DEF s1
<1>2. s2 \in RunStates
  BY <1>1 DEF RunStates
<1> HIDE DEF s2
<1>3. s3 \in RunStates
  BY <1>2 DEF RunStates
<1> HIDE DEF s3
<1>4. s4 \in RunStates
  BY <1>3 DEF RunStates
<1> USE DEF AsDecided, s1, s2, s3
<1> QED
  BY <1>4 DEF RunStates

AsModelDecided(s, phase, by, strategy, impact) ==
  [s EXCEPT !.phase = phase, !.by = by,
            !.strategy = strategy, !.impact = impact]

\* A run whose model decided.
LEMMA ModelDecidedState ==
  ASSUME NEW s \in RunStates,
         NEW phase \in Phases, NEW by \in {"rules", "model"},
         NEW strategy \in Strategies \cup {None}, NEW impact \in Int
  PROVE  LET state == AsModelDecided(s, phase, by, strategy, impact)
         IN  /\ state \in RunStates
             /\ state.phase = phase
             /\ state.by = by
             /\ state.strategy = strategy
             /\ state.evidence = s.evidence
<1> DEFINE s1 == [s EXCEPT !.phase = phase]
           s2 == [s1 EXCEPT !.by = by]
           s3 == [s2 EXCEPT !.strategy = strategy]
           s4 == [s3 EXCEPT !.impact = impact]
<1>1. s1 \in RunStates
  BY DEF RunStates
<1> HIDE DEF s1
<1>2. s2 \in RunStates
  BY <1>1 DEF RunStates
<1> HIDE DEF s2
<1>3. s3 \in RunStates
  BY <1>2 DEF RunStates
<1> HIDE DEF s3
<1>4. s4 \in RunStates
  BY <1>3 DEF RunStates
<1> USE DEF AsModelDecided, s1, s2, s3
<1> QED
  BY <1>4 DEF RunStates

AsModelPlanned(s, phase, by) ==
  [s EXCEPT !.phase = phase, !.by = by]

\* A run whose model planned.
LEMMA ModelPlannedState ==
  ASSUME NEW s \in RunStates,
         NEW phase \in Phases, NEW by \in {"rules", "model"}
  PROVE  LET state == AsModelPlanned(s, phase, by)
         IN  /\ state \in RunStates
             /\ state.phase = phase
             /\ state.by = by
             /\ state.evidence = s.evidence
             /\ state.strategy = s.strategy
<1> DEFINE s1 == [s EXCEPT !.phase = phase]
           s2 == [s1 EXCEPT !.by = by]
<1>1. s1 \in RunStates
  BY DEF RunStates
<1> HIDE DEF s1
<1>2. s2 \in RunStates
  BY <1>1 DEF RunStates
<1> USE DEF AsModelPlanned, s1
<1> QED
  BY <1>2 DEF RunStates

AsApproved(s, phase) ==
  [s EXCEPT !.phase = phase, !.stage = 1, !.evidence = {}, !.by = "rules"]

\* A run that was approved.
LEMMA ApprovedState ==
  ASSUME NEW s \in RunStates, NEW phase \in Phases
  PROVE  LET state == AsApproved(s, phase)
         IN  /\ state \in RunStates
             /\ state.phase = phase
             /\ state.evidence = {}
<1> DEFINE s1 == [s EXCEPT !.phase = phase]
           s2 == [s1 EXCEPT !.stage = 1]
           s3 == [s2 EXCEPT !.evidence = {}]
           s4 == [s3 EXCEPT !.by = "rules"]
<1>1. s1 \in RunStates
  BY DEF RunStates
<1> HIDE DEF s1
<1>2. s2 \in RunStates
  BY <1>1 DEF RunStates
<1> HIDE DEF s2
<1>3. s3 \in RunStates
  BY <1>2 DEF RunStates
<1> HIDE DEF s3
<1>4. s4 \in RunStates
  BY <1>3 DEF RunStates
<1> USE DEF AsApproved, s1, s2, s3
<1> QED
  BY <1>4 DEF RunStates

AsExecuted(s, executed) == [s EXCEPT !.executed = executed]

\* A run that was executed.
LEMMA ExecutedState ==
  ASSUME NEW s \in RunStates, NEW executed \in {"no", "yes"}
  PROVE  LET state == AsExecuted(s, executed)
         IN  /\ state \in RunStates
             /\ state.phase = s.phase
             /\ state.evidence = s.evidence
BY DEF AsExecuted, RunStates

LEMMA RetrieveKeeps ==
  ASSUME IInv, NEW r \in Runs, NEW raw \in Stages, Retrieve(r, raw)
  PROVE  IInv'
<1> DEFINE ev == Evidence(PersonaOf[r], StageOf(raw))
           state == AsRetrieved(run[r], "deciding", StageOf(raw), ev)
<1>1. /\ run[r].phase = "idle"
      /\ run' = [run EXCEPT ![r] = state] /\ status' = [status EXCEPT ![r] = "running"]
      /\ UNCHANGED <<lessons, outcomes, resume, today, history>>
  BY DEF Retrieve, In, Becomes, SetStatus, AsRetrieved
<1>2. StageOf(raw) \in 1 .. 3
  BY LoopAssumption, StageOfIsStage DEF LoopAssumption
<1>3. ev \subseteq DOMAIN lessons /\ \A i \in ev : lessons[i].persona = PersonaOf[r]
  BY EvidenceOfPersona
<1>4. ev \subseteq Nat
  BY <1>3, LessonNumbers DEF IInv, MemoryInv, TypeOK
<1>5. \A i \in ev : lessons[i].run # r
  BY <1>1, <1>3 DEF IInv, MemoryInv, IdleTaughtNothing, In
<1>8. EnoughAt(StageOf(raw), ev)
  BY <1>2, EvidenceIsEnough DEF EnoughAt
<1> HIDE DEF ev
<1>6. /\ state \in RunStates /\ state.phase = "deciding" /\ state.evidence = ev
      /\ state.stage = StageOf(raw)
  <2>1. run[r] \in RunStates /\ "deciding" \in Phases
    BY RunKnown DEF Phases
  <2> QED
    BY <1>2, <1>4, <2>1, RetrievedState
<1> HIDE DEF state
<1>7. Fits(r, state, "running")
  BY <1>3, <1>5, <1>6, <1>8 DEF Fits, Statuses
<1> QED
  BY <1>1, <1>7, FitsKeeps

\* Of a run without a strategist nothing is known yet: it has no evidence.
LEMMA StartCrmSyncKeeps ==
  ASSUME IInv, NEW r \in Runs, StartCrmSync(r)
  PROVE  IInv'
<1> DEFINE state == AsMoved(run[r], "syncing")
<1>1. /\ run[r].phase = "idle"
      /\ run' = [run EXCEPT ![r] = state] /\ status' = [status EXCEPT ![r] = "running"]
      /\ UNCHANGED <<lessons, outcomes, resume, today, history>>
  BY DEF StartCrmSync, Goto, In, Becomes, SetStatus, AsMoved
<1>2. run[r] \in RunStates /\ "syncing" \in Phases
  BY <1>1, RunKnown DEF Phases
<1>3. state \in RunStates /\ state.phase = "syncing" /\ state.evidence = run[r].evidence
  BY <1>2, PhaseSet
<1> HIDE DEF state
<1>4. Fits(r, state, "running")
  BY <1>3, RunKnown DEF Fits, Statuses
<1> QED
  BY <1>1, <1>4, FitsKeeps

\* The rules take the strategy that the evidence calls for.
LEMMA DecideKeeps ==
  ASSUME IInv, NEW r \in Runs, Decide(r)
  PROVE  IInv'
<1> DEFINE ev == run[r].evidence
           used == Cardinality(ev)
           strategy == Strategy(r, ev)
           impact == Lift(ev)
           state == AsDecided(run[r], "planning", used, strategy, impact)
<1>1. /\ run[r].phase = "deciding"
      /\ run' = [run EXCEPT ![r] = state] /\ UNCHANGED status
      /\ UNCHANGED <<lessons, outcomes, resume, today, history>>
  BY DEF Decide, In, Becomes, AsDecided
<1>2. used \in Nat
  <2>1. ev \subseteq DOMAIN lessons
    BY RunKnown
  <2>2. IsFiniteSet(DOMAIN lessons)
    BY LessonNumbers DEF IInv, MemoryInv, TypeOK
  <2> QED
    BY <2>1, <2>2, FS_Subset, FS_CardinalityType
<1>3. (\E i \in ev : Mentions(lessons[i].text, "roi")) => strategy = "roi_framing"
  BY StrategyOfRules
<1>10. strategy \in Strategies \cup {None}
  BY StrategyOfRules
<1>4. impact \in Int /\ impact <= 150 /\ (impact > 0 => ev # {})
  BY LiftIsBounded, NoLiftWithoutEvidence
<1>5. run[r] \in RunStates /\ "planning" \in Phases
  BY RunKnown DEF Phases
<1>6. status[r] \in Statuses
  BY RunKnown
<1>7. status' = [status EXCEPT ![r] = status[r]]
  BY <1>1, StatusWrittenBack DEF IInv, MemoryInv
<1> HIDE DEF used, strategy, impact
<1>8. /\ state \in RunStates /\ state.phase = "planning"
      /\ state.evidence = ev /\ state.strategy = strategy
      /\ state.impact = impact /\ state.stage = run[r].stage
  BY <1>10, <1>2, <1>4, <1>5, DecidedState
<1> HIDE DEF state
<1>9. Fits(r, state, status[r])
  BY <1>1, <1>3, <1>4, <1>6, <1>8, RunKnown DEF Fits
<1> QED
  BY <1>1, <1>7, <1>9, FitsKeeps

\* The model's decision binds nothing.
LEMMA DecideByModelKeeps ==
  ASSUME IInv, NEW r \in Runs, NEW answer \in ModelDecisions, DecideByModel(r, answer)
  PROVE  IInv'
<1> DEFINE strategy == answer.strategy
           impact == answer.impact
           state == AsModelDecided(run[r], "planning", "model", strategy, impact)
<1>1. /\ run[r].phase = "deciding"
      /\ run' = [run EXCEPT ![r] = state] /\ UNCHANGED status
      /\ UNCHANGED <<lessons, outcomes, resume, today, history>>
  BY DEF DecideByModel, In, Becomes, AsModelDecided
<1>2. strategy \in Strategies /\ impact \in Int
  BY LoopAssumption DEF LoopAssumption
<1>3. run[r] \in RunStates /\ "planning" \in Phases /\ status[r] \in Statuses
  BY RunKnown DEF Phases
<1>4. status' = [status EXCEPT ![r] = status[r]]
  BY <1>1, StatusWrittenBack DEF IInv, MemoryInv
<1> HIDE DEF strategy, impact
<1>5. /\ state \in RunStates /\ state.phase = "planning" /\ state.by = "model"
      /\ state.evidence = run[r].evidence
  BY <1>2, <1>3, ModelDecidedState
<1> HIDE DEF state
<1>6. Fits(r, state, status[r])
  BY <1>3, <1>5, RunKnown DEF Fits
<1> QED
  BY <1>1, <1>4, <1>6, FitsKeeps

\* A plan of ROI framing waits for a person; any other was not made on evidence of it.
LEMMA PlanKeeps ==
  ASSUME IInv, NEW r \in Runs, Plan(r)
  PROVE  IInv'
<1> DEFINE state == AsMoved(run[r], "handed over")
<1>1. /\ run[r].phase = "planning"
      /\ run' = [run EXCEPT ![r] = state]
      /\ UNCHANGED <<lessons, outcomes, resume, today, history>>
  BY DEF Plan, Goto, In, Becomes, AsMoved
<1>2. run[r] \in RunStates /\ "handed over" \in Phases
  BY RunKnown DEF Phases
<1>3. /\ state \in RunStates /\ state.phase = "handed over"
      /\ state.evidence = run[r].evidence /\ state.strategy = run[r].strategy
      /\ state.by = run[r].by
  BY <1>2, PhaseSet
<1> HIDE DEF state
<1>4. CASE PlanConfidence(run[r].strategy) < Threshold
  <2>1. status' = [status EXCEPT ![r] = "waiting_approval"]
    BY <1>4 DEF Plan, SetStatus
  <2>2. Fits(r, state, "waiting_approval")
    BY <1>3, RunKnown DEF Fits, Statuses
  <2> QED
    BY <1>1, <2>1, <2>2, FitsKeeps
<1>5. CASE ~(PlanConfidence(run[r].strategy) < Threshold)
  <2>1. status' = [status EXCEPT ![r] = status[r]]
    BY <1>5, StatusWrittenBack DEF Plan, IInv, MemoryInv
  <2>2. run[r].strategy # "roi_framing"
    BY <1>5 DEF PlanConfidence, Threshold
  <2>3. run[r].by = "rules" => \A i \in run[r].evidence : ~Mentions(lessons[i].text, "roi")
    BY <1>1, <2>2 DEF IInv, MemoryInv, RulesFollowEvidence, FollowsEvidence, In
  <2>4. status[r] \in Statuses
    BY RunKnown
  <2>5. Fits(r, state, status[r])
    BY <1>3, <2>3, <2>4, RunKnown DEF Fits
  <2> QED
    BY <1>1, <2>1, <2>5, FitsKeeps
<1> QED
  BY <1>4, <1>5

LEMMA PlanByModelKeeps ==
  ASSUME IInv, NEW r \in Runs, NEW st \in {"running", "waiting_approval"}, PlanByModel(r, st)
  PROVE  IInv'
<1> DEFINE state == AsModelPlanned(run[r], "handed over", "model")
<1>1. /\ run[r].phase = "planning"
      /\ run' = [run EXCEPT ![r] = state] /\ status' = [status EXCEPT ![r] = st]
      /\ UNCHANGED <<lessons, outcomes, resume, today, history>>
  BY DEF PlanByModel, In, Becomes, SetStatus, AsModelPlanned
<1>2. run[r] \in RunStates /\ "handed over" \in Phases
  BY RunKnown DEF Phases
<1>3. /\ state \in RunStates /\ state.phase = "handed over" /\ state.by = "model"
      /\ state.evidence = run[r].evidence
  BY <1>2, ModelPlannedState
<1> HIDE DEF state
<1>4. Fits(r, state, st)
  BY <1>3, RunKnown DEF Fits, Statuses
<1> QED
  BY <1>1, <1>4, FitsKeeps

\* The state of a run that is lost.
LEMMA LostState ==
  Lost \in RunStates /\ Lost.phase = "lost" /\ Lost.evidence = {}
<1>1. NewRun \in RunStates /\ NewRun.evidence = {}
  BY DEF NewRun, RunStates, Phases
<1>2. "lost" \in Phases
  BY DEF Phases
<1>3. Lost = AsMoved(NewRun, "lost")
  BY DEF Lost, AsMoved
<1> QED
  BY <1>1, <1>2, <1>3, PhaseSet

LEMMA FailKeeps ==
  ASSUME IInv, NEW r \in Runs, Fail(r)
  PROVE  IInv'
<1>1. /\ run[r].phase # "approved"
      /\ run' = [run EXCEPT ![r] = Lost] /\ status' = [status EXCEPT ![r] = "failed"]
      /\ UNCHANGED <<lessons, outcomes, resume, today, history>>
  BY DEF Fail, Becomes, SetStatus
<1>2. Fits(r, Lost, "failed")
  BY LostState DEF Fits, Statuses
<1> QED
  BY <1>1, <1>2, FitsKeeps

-----------------------------------------------------------------------------
(* The threads in resume_after_approval. *)

\* The locals of a thread after a step of it.
LEMMA ThreadPhase ==
  ASSUME NEW s \in Resumes, NEW phase \in ResumePhases
  PROVE  /\ [s EXCEPT !.phase = phase] \in Resumes
         /\ [s EXCEPT !.phase = phase].phase = phase
         /\ [s EXCEPT !.phase = phase].run = s.run
         /\ [s EXCEPT !.phase = phase].label = s.label
BY DEF Resumes

LEMMA ThreadExecuted ==
  ASSUME NEW s \in Resumes, NEW executed \in {"no", "yes"}
  PROVE  /\ [s EXCEPT !.executed = executed] \in Resumes
         /\ [s EXCEPT !.executed = executed].phase = s.phase
         /\ [s EXCEPT !.executed = executed].run = s.run
BY DEF Resumes

LEMMA ThreadLabelled ==
  ASSUME NEW s \in Resumes, NEW label \in Labels
  PROVE  /\ [s EXCEPT !.label = label] \in Resumes
         /\ [s EXCEPT !.label = label].phase = s.phase
         /\ [s EXCEPT !.label = label].run = s.run
         /\ [s EXCEPT !.label = label].label = label
BY DEF Resumes

LEMMA ThreadHinted ==
  ASSUME NEW s \in Resumes, NEW hint \in Confidences
  PROVE  /\ [s EXCEPT !.hint = hint] \in Resumes
         /\ [s EXCEPT !.hint = hint].phase = s.phase
         /\ [s EXCEPT !.hint = hint].run = s.run
         /\ [s EXCEPT !.hint = hint].label = s.label
BY DEF Resumes

LEMMA NoThread == NoResume \in Resumes /\ NoResume.run = None
BY DEF NoResume, Resumes, ResumePhases, Confidences

\* A thread that serves a run has the run approved, and a state that fits as it is.
LEMMA ServedRun ==
  ASSUME IInv, NEW t \in Threads, NEW r \in Runs, resume[t].run = r, NEW st \in Statuses
  PROVE  /\ run[r].phase = "approved"
         /\ Fits(r, run[r], st)
         /\ WorkOn(r) /\ WorkKnown(t, r) /\ Sole(t, r)
         /\ resume[t] \in Resumes
<1>1. WorkOn(r) /\ WorkKnown(t, r) /\ Sole(t, r)
  BY DEF IInv, WorkInv, WorkOn
<1>2. run[r].phase = "approved"
  BY <1>1 DEF WorkKnown, In
<1>3. resume[t] \in Resumes
  BY DEF IInv, MemoryInv, TypeOK
<1> QED
  BY <1>1, <1>2, <1>3, RunKnown DEF Fits

\* The step of a thread leaves the work on all other runs as it was.
LEMMA WorkElsewhere ==
  ASSUME IInv, NEW t \in Threads, NEW r \in Runs,
         \A q \in Runs : q # r =>
           /\ run'[q] = run[q] /\ status'[q] = status[q] /\ outcomes'[q] = outcomes[q]
           /\ q \in overlapped' <=> q \in overlapped,
         DOMAIN lessons \subseteq DOMAIN lessons',
         \A i \in DOMAIN lessons : lessons'[i] = lessons[i],
         \A u \in Threads : u # t => resume'[u] = resume[u],
         resume'[t].run \in {r, None},
         WorkOn(r)'
  PROVE  WorkInv'
<1> SUFFICES ASSUME NEW q \in Runs, q # r PROVE WorkOn(q)'
  BY DEF WorkInv
<1>1. \A u \in Threads : resume'[u].run = q => resume'[u] = resume[u]
  BY LoopAssumption DEF LoopAssumption
<1> QED
  BY <1>1, WorkUntouched DEF In

LEMMA EnterKeeps ==
  ASSUME IInv, NEW t \in Threads, NEW r \in Runs, Enter(t, r)
  PROVE  IInv'
<1> DEFINE state == AsApproved(run[r], "approved")
           moved == [NoResume EXCEPT !.phase = "executing"]
           new == [moved EXCEPT !.run = r]
<1>0. TypeOK
  BY DEF IInv, MemoryInv
<1>1. /\ run' = [run EXCEPT ![r] = state]
      /\ resume' = [resume EXCEPT ![t] = new]
      /\ lessons' = lessons /\ outcomes' = outcomes /\ status' = status /\ today' = today
      /\ resumed' = resumed + 1 /\ resumed < MaxResumed
      /\ overlapped' = IF \E u \in Threads : resume[u].run = r
                       THEN overlapped \cup {r} ELSE overlapped
  BY DEF Enter, Becomes, AsApproved
<1>2. new \in Resumes /\ new.phase = "executing" /\ new.run = r
  <2>1. moved \in Resumes /\ moved.phase = "executing"
    BY NoThread, ThreadPhase DEF ResumePhases
  <2> HIDE DEF moved
  <2> QED
    BY <2>1 DEF Resumes
<1> HIDE DEF new
<1>3. /\ resume' \in [Threads -> Resumes] /\ resume'[t] = new
      /\ \A u \in Threads : u # t => resume'[u] = resume[u]
  BY <1>0, <1>1, <1>2 DEF TypeOK
<1>4. resumed' \in 0 .. MaxResumed /\ overlapped' \subseteq Runs
  BY <1>0, <1>1, LoopAssumption DEF TypeOK, LoopAssumption
<1>5. state \in RunStates /\ state.phase = "approved" /\ state.evidence = {}
  BY RunKnown, ApprovedState DEF Phases
<1> HIDE DEF state
<1>6. run'[r] = state /\ \A q \in Runs : q # r => run'[q] = run[q]
  BY <1>0, <1>1 DEF TypeOK
<1>7. MemoryInv'
  <2>1. Fits(r, state, status[r])
    BY <1>5, RunKnown DEF Fits
  <2>2. status' = [status EXCEPT ![r] = status[r]]
    BY <1>0, <1>1, StatusWrittenBack
  <2> QED
    BY <1>1, <1>3, <1>4, <2>1, <2>2, FitsMemory
<1>8. WorkOn(r)'
  <2>1. WorkOn(r)
    BY DEF IInv, WorkInv
  <2>2. Told(r) => Told(r)'
    BY <1>1 DEF Told
  <2>3. ASSUME NEW u \in Threads PROVE WorkKnown(u, r)'
    BY <1>1, <1>2, <1>3, <1>5, <1>6, <2>1, <2>2 DEF WorkOn, WorkKnown, In
  <2>4. ASSUME NEW u \in Threads PROVE Sole(u, r)'
    <3> SUFFICES ASSUME r \notin overlapped', resume'[u].run = r
                 PROVE  /\ \A v \in Threads : resume'[v].run = r => v = u
                        /\ resume'[u].phase = "executing"
      BY DEF Sole
    <3>1. \A v \in Threads : resume[v].run # r
      BY <1>1
    <3> QED
      BY <1>2, <1>3, <3>1
  <2> QED
    BY <1>1, <2>1, <2>2, <2>3, <2>4 DEF WorkOn
<1>9. \A q \in Runs : q # r => (q \in overlapped' <=> q \in overlapped)
  BY <1>1
<1>10. WorkInv'
  BY <1>1, <1>2, <1>3, <1>6, <1>8, <1>9, WorkElsewhere
<1> QED
  BY <1>7, <1>10 DEF IInv

LEMMA ExecuteKeeps ==
  ASSUME IInv, NEW t \in Threads, NEW r \in Runs, NEW executed \in {"no", "yes"},
         Execute(t, r, executed)
  PROVE  IInv'
<1> DEFINE moved == [resume[t] EXCEPT !.phase = "executed"]
           new == [moved EXCEPT !.executed = executed]
<1>0. TypeOK
  BY DEF IInv, MemoryInv
<1>1. /\ resume[t].run = r
      /\ run' = [run EXCEPT ![r] = AsExecuted(run[r], executed)] \/ run' = run
      /\ resume' = [resume EXCEPT ![t] = new]
      /\ lessons' = lessons /\ outcomes' = outcomes /\ status' = status /\ today' = today
      /\ resumed' = resumed /\ overlapped' = overlapped
  BY <1>0 DEF Execute, Serves, Becomes, AsExecuted, history, TypeOK
<1>2. new \in Resumes /\ new.phase = "executed" /\ new.run = r
  <2>1. /\ moved \in Resumes /\ moved.phase = "executed" /\ moved.run = r
    BY <1>0, <1>1, ThreadPhase DEF TypeOK, ResumePhases
  <2> HIDE DEF moved
  <2> QED
    BY <2>1, ThreadExecuted
<1> HIDE DEF new
<1>3. /\ resume' \in [Threads -> Resumes] /\ resume'[t] = new
      /\ \A u \in Threads : u # t => resume'[u] = resume[u]
  BY <1>0, <1>1, <1>2 DEF TypeOK
<1>4. /\ run[r].phase = "approved" /\ Fits(r, run[r], status[r])
      /\ WorkOn(r) /\ run[r] \in RunStates
  BY <1>1, ServedRun, RunKnown
<1>5. PICK state : /\ run' = [run EXCEPT ![r] = state]
                   /\ state \in RunStates /\ state.phase = "approved"
                   /\ state.evidence = run[r].evidence
  <2>1. CASE run' = [run EXCEPT ![r] = AsExecuted(run[r], executed)]
    <3> DEFINE logged == AsExecuted(run[r], executed)
    <3>1. /\ logged \in RunStates /\ logged.phase = "approved"
          /\ logged.evidence = run[r].evidence
      BY <1>4, ExecutedState
    <3> HIDE DEF logged
    <3>2. run' = [run EXCEPT ![r] = logged]
      BY <2>1 DEF logged
    <3> QED
      BY <3>1, <3>2
  <2>2. CASE run' = run
    <3>1. run' = [run EXCEPT ![r] = run[r]]
      BY <1>0, <2>2 DEF TypeOK
    <3> QED
      BY <1>4, <3>1
  <2> QED
    BY <1>1, <2>1, <2>2
<1>6. run'[r] = state /\ \A q \in Runs : q # r => run'[q] = run[q]
  BY <1>0, <1>5 DEF TypeOK
<1>7. MemoryInv'
  <2>1. Fits(r, state, status[r])
    BY <1>5, RunKnown DEF Fits
  <2>2. status' = [status EXCEPT ![r] = status[r]]
    BY <1>0, <1>1, StatusWrittenBack
  <2>3. resumed' \in 0 .. MaxResumed /\ overlapped' \subseteq Runs
    BY <1>0, <1>1 DEF TypeOK
  <2> QED
    BY <1>1, <1>3, <1>5, <2>1, <2>2, <2>3, FitsMemory
<1>8. WorkOn(r)'
  <2>1. Told(r) => Told(r)'
    BY <1>1 DEF Told
  <2>2. ASSUME NEW u \in Threads PROVE WorkKnown(u, r)'
    BY <1>1, <1>2, <1>3, <1>4, <1>5, <1>6, <2>1 DEF WorkOn, WorkKnown, In
  <2>3. ASSUME NEW u \in Threads PROVE Sole(u, r)'
    BY <1>1, <1>2, <1>3, <1>4 DEF WorkOn, Sole
  <2> QED
    BY <1>1, <1>4, <2>1, <2>2, <2>3 DEF WorkOn
<1>9. WorkInv'
  BY <1>1, <1>2, <1>3, <1>6, <1>8, WorkElsewhere
<1> QED
  BY <1>7, <1>9 DEF IInv

LEMMA MarkExecutedKeeps ==
  ASSUME IInv, NEW t \in Threads, NEW r \in Runs, MarkExecuted(t, r)
  PROVE  IInv'
<1> DEFINE new == [resume[t] EXCEPT !.phase = "evaluating"]
<1>0. TypeOK
  BY DEF IInv, MemoryInv
<1>1. /\ resume[t].run = r /\ resume' = [resume EXCEPT ![t] = new]
      /\ status' = [status EXCEPT ![r] = "running"]
      /\ lessons' = lessons /\ outcomes' = outcomes /\ run' = run /\ today' = today
      /\ resumed' = resumed /\ overlapped' = overlapped
  BY DEF MarkExecuted, Serves, Advance, SetStatus, history
<1>2. new \in Resumes /\ new.phase = "evaluating" /\ new.run = r
  BY <1>0, <1>1, ThreadPhase DEF TypeOK, ResumePhases
<1> HIDE DEF new
<1>3. /\ resume' \in [Threads -> Resumes] /\ resume'[t] = new
      /\ \A u \in Threads : u # t => resume'[u] = resume[u]
  BY <1>0, <1>1, <1>2 DEF TypeOK
<1>4. status'[r] = "running" /\ \A q \in Runs : q # r => status'[q] = status[q]
  BY <1>0, <1>1 DEF TypeOK
<1>5. MemoryInv'
  <2>1. Fits(r, run[r], "running")
    BY <1>1, ServedRun DEF Statuses
  <2>2. run' = [run EXCEPT ![r] = run[r]]
    BY <1>0, <1>1 DEF TypeOK
  <2>3. resumed' \in 0 .. MaxResumed /\ overlapped' \subseteq Runs
    BY <1>0, <1>1 DEF TypeOK
  <2> QED
    BY <1>1, <1>3, <2>1, <2>2, <2>3, FitsMemory
<1>6. WorkOn(r)'
  <2>1. WorkOn(r)
    BY DEF IInv, WorkInv
  <2>2. Told(r) => Told(r)'
    BY <1>1 DEF Told
  <2>3. ASSUME NEW u \in Threads PROVE WorkKnown(u, r)'
    BY <1>1, <1>2, <1>3, <2>1, <2>2 DEF WorkOn, WorkKnown, In
  <2>4. ASSUME NEW u \in Threads PROVE Sole(u, r)'
    BY <1>1, <1>2, <1>3, <1>4, <2>1 DEF WorkOn, Sole
  <2> QED
    BY <1>4, <2>3, <2>4 DEF WorkOn
<1>7. WorkInv'
  BY <1>1, <1>2, <1>3, <1>4, <1>6, WorkElsewhere
<1> QED
  BY <1>5, <1>7 DEF IInv

\* An evaluation puts a label on record, and never takes one off: that of a completed
\* run is replaced only when another approval of it was in progress.
LEMMA EvaluatedKeeps ==
  ASSUME IInv, NEW t \in Threads, NEW r \in Runs, NEW label \in Labels,
         NEW hint \in Confidences, Evaluated(t, r, label, hint)
  PROVE  IInv'
<1> DEFINE moved == [resume[t] EXCEPT !.phase = "recorded"]
           labelled == [moved EXCEPT !.label = label]
           new == [labelled EXCEPT !.hint = hint]
<1>0. TypeOK
  BY DEF IInv, MemoryInv
<1>1. /\ resume[t].run = r /\ resume[t].phase = "evaluating"
      /\ resume' = [resume EXCEPT ![t] = new]
      /\ outcomes' = [outcomes EXCEPT ![r] = label]
      /\ run' = run /\ lessons' = lessons /\ status' = status /\ today' = today
      /\ resumed' = resumed /\ overlapped' = overlapped
  BY <1>0 DEF Evaluated, Serves, history, TypeOK
<1>2. new \in Resumes /\ new.phase = "recorded" /\ new.run = r /\ new.label = label
  <2>1. moved \in Resumes /\ moved.phase = "recorded" /\ moved.run = r
    BY <1>0, <1>1, ThreadPhase DEF TypeOK, ResumePhases
  <2> HIDE DEF moved
  <2>2. /\ labelled \in Resumes /\ labelled.phase = "recorded" /\ labelled.run = r
        /\ labelled.label = label
    BY <2>1, ThreadLabelled
  <2> HIDE DEF labelled
  <2> QED
    BY <2>2, ThreadHinted
<1> HIDE DEF new
<1>3. /\ resume' \in [Threads -> Resumes] /\ resume'[t] = new
      /\ \A u \in Threads : u # t => resume'[u] = resume[u]
  BY <1>0, <1>1, <1>2 DEF TypeOK
<1>4. outcomes'[r] = label /\ \A q \in Runs : q # r => outcomes'[q] = outcomes[q]
  BY <1>0, <1>1 DEF TypeOK
<1>5. label # None
  BY LoopAssumption DEF LoopAssumption
<1>6. MemoryInv'
  <2>1. TypeOK'
    BY <1>0, <1>1, <1>3 DEF TypeOK
  <2>2. LessonsOnRecord'
    <3> SUFFICES ASSUME NEW i \in DOMAIN lessons, lessons[i].run # None
                 PROVE  outcomes'[lessons[i].run] # None
      BY <1>1 DEF LessonsOnRecord
    <3>1. lessons[i].run \in Runs
      <4>1. lessons[i] \in Lessons
        BY <1>0 DEF TypeOK
      <4> QED
        BY <4>1 DEF Lessons
    <3> QED
      BY <1>4, <1>5, <3>1 DEF IInv, MemoryInv, LessonsOnRecord
  <2>3. IdleTaughtNothing' /\ EvidenceInMemory' /\ RoiEvidenceNeedsPerson'
    BY <1>1 DEF IInv, MemoryInv, IdleTaughtNothing, EvidenceInMemory,
       RoiEvidenceNeedsPerson, In
  <2>4. RulesFollowEvidence'
    BY <1>1 DEF IInv, MemoryInv, RulesFollowEvidence, FollowsEvidence, In
  <2> QED
    BY <2>1, <2>2, <2>3, <2>4 DEF MemoryInv
<1>7. WorkOn(r)'
  <2>1. WorkOn(r) /\ Sole(t, r)
    BY DEF IInv, WorkInv, WorkOn
  <2>2. r \in overlapped /\ Told(r) => Told(r)'
    BY <1>1, <1>4, <1>5 DEF Told
  <2>3. status'[r] = "completed" => Told(r)'
    BY <1>1, <2>1, <2>2 DEF WorkOn, Sole
  <2>4. ASSUME NEW u \in Threads PROVE WorkKnown(u, r)'
    <3>1. CASE u = t
      BY <1>1, <1>2, <1>3, <1>4, <1>5, <2>1, <3>1 DEF WorkOn, WorkKnown, In
    <3>2. CASE u # t /\ resume[u].run = r
      <4>1. r \in overlapped
        BY <1>1, <2>1, <3>2 DEF Sole
      <4> QED
        BY <1>1, <1>3, <1>4, <1>5, <2>1, <2>2, <3>2, <4>1 DEF WorkOn, WorkKnown, In
    <3>3. CASE u # t /\ resume[u].run # r
      BY <1>3, <3>3 DEF WorkKnown
    <3> QED
      BY <3>1, <3>2, <3>3
  <2>5. ASSUME NEW u \in Threads PROVE Sole(u, r)'
    <3> SUFFICES ASSUME r \notin overlapped', resume'[u].run = r PROVE Sole(u, r)'
      BY DEF Sole
    <3>1. \A v \in Threads : resume'[v].run = r => v = t
      BY <1>1, <1>3, <2>1 DEF Sole
    <3> QED
      BY <1>1, <1>2, <1>3, <1>4, <2>1, <3>1 DEF Sole
  <2> QED
    BY <2>3, <2>4, <2>5 DEF WorkOn
<1>8. WorkInv'
  BY <1>1, <1>2, <1>3, <1>4, <1>7, WorkElsewhere
<1> QED
  BY <1>6, <1>8 DEF IInv

\* A lesson is added behind the others, which stay as they are.
LEMMA TeachKeeps ==
  ASSUME IInv, NEW t \in Threads, NEW r \in Runs, Teach(t, r)
  PROVE  IInv'
<1> DEFINE new == [resume[t] EXCEPT !.phase = "taught"]
           next == Len(lessons) + 1
<1>0. TypeOK
  BY DEF IInv, MemoryInv
<1>1. /\ resume[t].run = r /\ resume[t].phase = "recorded"
      /\ resume' = [resume EXCEPT ![t] = new]
      /\ lessons' = Append(lessons, Lesson(t, r))
      /\ run' = run /\ outcomes' = outcomes /\ status' = status /\ today' = today
      /\ resumed' = resumed /\ overlapped' = overlapped
  BY DEF Teach, Serves, Advance, history
<1>2. new \in Resumes /\ new.phase = "taught" /\ new.run = r /\ new.label = resume[t].label
  BY <1>0, <1>1, ThreadPhase DEF TypeOK, ResumePhases
<1> HIDE DEF new
<1>3. /\ resume' \in [Threads -> Resumes] /\ resume'[t] = new
      /\ \A u \in Threads : u # t => resume'[u] = resume[u]
  BY <1>0, <1>1, <1>2 DEF TypeOK
<1>4. /\ WorkOn(r) /\ WorkKnown(t, r) /\ Sole(t, r)
      /\ run[r].phase = "approved" /\ resume[t].label \in Labels /\ outcomes[r] # None
  <2>1. WorkOn(r) /\ WorkKnown(t, r) /\ Sole(t, r)
    BY DEF IInv, WorkInv, WorkOn
  <2> QED
    BY <1>1, <2>1 DEF WorkKnown, In
<1>5. /\ Lesson(t, r) \in Lessons /\ Lesson(t, r).run = r
      /\ Lesson(t, r).text.label = resume[t].label
  <2>1. PersonaOf[r] \in Personas /\ today \in Int
    BY <1>0, LoopAssumption DEF LoopAssumption, TypeOK
  <2>2. run[r].used \in Nat /\ run[r].impact \in Int
        /\ run[r].strategy \in Strategies \cup {None}
    BY RunKnown DEF RunStates
  <2>3. resume[t].hint \in Confidences
    BY <1>0 DEF TypeOK, Resumes
  <2> QED
    BY <1>4, <2>1, <2>2, <2>3 DEF Lesson, Lessons, Texts
<1>6. /\ lessons' \in Seq(Lessons) /\ DOMAIN lessons' = DOMAIN lessons \cup {next}
      /\ next \notin DOMAIN lessons /\ lessons'[next] = Lesson(t, r)
      /\ \A i \in DOMAIN lessons : lessons'[i] = lessons[i]
  BY <1>0, <1>1, <1>5, LessonNumbers, AppendProperties DEF TypeOK
<1> HIDE DEF next
<1>7. MemoryInv'
  <2>1. TypeOK'
    BY <1>0, <1>1, <1>3, <1>6 DEF TypeOK
  <2>2. LessonsOnRecord'
    BY <1>1, <1>4, <1>5, <1>6 DEF IInv, MemoryInv, LessonsOnRecord
  <2>3. IdleTaughtNothing'
    BY <1>1, <1>4, <1>5, <1>6 DEF IInv, MemoryInv, IdleTaughtNothing, In
  <2>4. EvidenceInMemory'
    BY <1>1, <1>6 DEF IInv, MemoryInv, EvidenceInMemory
  <2>5. \A q \in Runs : \A i \in run[q].evidence : lessons'[i] = lessons[i]
    BY <1>6 DEF IInv, MemoryInv, EvidenceInMemory
  <2>6. RulesFollowEvidence'
    <3> SUFFICES ASSUME NEW q \in Runs PROVE FollowsEvidence(q)'
      BY DEF RulesFollowEvidence
    <3> QED
      BY <1>1, <2>5 DEF IInv, MemoryInv, RulesFollowEvidence, FollowsEvidence, In
  <2>7. RoiEvidenceNeedsPerson'
    BY <1>1, <2>5 DEF IInv, MemoryInv, RoiEvidenceNeedsPerson, In
  <2> QED
    BY <2>1, <2>2, <2>3, <2>4, <2>6, <2>7 DEF MemoryInv
<1>8. WorkOn(r)'
  <2>1. Told(r)'
    BY <1>1, <1>4, <1>5, <1>6 DEF Told, Sole
  <2>2. ASSUME NEW u \in Threads PROVE WorkKnown(u, r)'
    <3>1. CASE u = t
      BY <1>1, <1>2, <1>3, <1>4, <2>1, <3>1 DEF WorkKnown, In
    <3>2. CASE u # t
      BY <1>1, <1>3, <1>4, <2>1, <3>2 DEF WorkOn, WorkKnown, In
    <3> QED
      BY <3>1, <3>2
  <2>3. ASSUME NEW u \in Threads PROVE Sole(u, r)'
    <3> SUFFICES ASSUME r \notin overlapped', resume'[u].run = r PROVE Sole(u, r)'
      BY DEF Sole
    <3>1. \A v \in Threads : resume'[v].run = r => v = t
      BY <1>1, <1>3, <1>4 DEF Sole
    <3> QED
      BY <1>1, <1>2, <1>3, <1>4, <3>1 DEF Sole
  <2> QED
    BY <2>1, <2>2, <2>3 DEF WorkOn
<1>9. DOMAIN lessons \subseteq DOMAIN lessons'
  BY <1>6
<1>10. WorkInv'
  BY <1>1, <1>2, <1>3, <1>6, <1>8, <1>9, WorkElsewhere
<1> QED
  BY <1>7, <1>10 DEF IInv

\* A thread that is done, or failed, leaves the run with a status.
LEMMA LeaveKeeps ==
  ASSUME IInv, NEW t \in Threads, NEW r \in Runs, resume[t].run = r,
         NEW st \in Statuses, st = "completed" => Told(r),
         status' = [status EXCEPT ![r] = st],
         resume' = [resume EXCEPT ![t] = NoResume],
         UNCHANGED <<run, lessons, outcomes, today, history>>
  PROVE  IInv'
<1>0. /\ TypeOK
      /\ status' = [status EXCEPT ![r] = st] /\ resume' = [resume EXCEPT ![t] = NoResume]
      /\ run' = run /\ lessons' = lessons /\ outcomes' = outcomes /\ today' = today
      /\ resumed' = resumed /\ overlapped' = overlapped
  BY DEF IInv, MemoryInv, history
<1>1. /\ resume' \in [Threads -> Resumes] /\ resume'[t].run = None
      /\ \A u \in Threads : u # t => resume'[u] = resume[u]
  BY <1>0, NoThread DEF TypeOK
<1>2. status'[r] = st /\ \A q \in Runs : q # r => status'[q] = status[q]
  BY <1>0 DEF TypeOK
<1>3. Fits(r, run[r], st) /\ WorkOn(r) /\ Sole(t, r)
  BY ServedRun
<1>4. MemoryInv'
  <2>1. run' = [run EXCEPT ![r] = run[r]]
    BY <1>0 DEF TypeOK
  <2>2. resumed' \in 0 .. MaxResumed /\ overlapped' \subseteq Runs
    BY <1>0 DEF TypeOK
  <2> QED
    BY <1>0, <1>1, <1>3, <2>1, <2>2, FitsMemory
<1>5. WorkOn(r)'
  <2>1. Told(r) => Told(r)'
    BY <1>0 DEF Told
  <2>2. None # r
    BY LoopAssumption DEF LoopAssumption
  <2>3. ASSUME NEW u \in Threads PROVE WorkKnown(u, r)'
    BY <1>0, <1>1, <1>3, <2>1, <2>2 DEF WorkOn, WorkKnown, In
  <2>4. ASSUME NEW u \in Threads PROVE Sole(u, r)'
    BY <1>0, <1>1, <1>3, <2>2 DEF Sole
  <2> QED
    BY <1>2, <2>1, <2>3, <2>4 DEF WorkOn
<1>6. WorkInv'
  BY <1>0, <1>1, <1>2, <1>5, WorkElsewhere
<1> QED
  BY <1>4, <1>6 DEF IInv

LEMMA CompleteKeeps ==
  ASSUME IInv, NEW t \in Threads, NEW r \in Runs, Complete(t, r)
  PROVE  IInv'
<1>1. resume[t].run = r /\ resume[t].phase = "taught"
  BY DEF Complete, Serves
<1>2. Told(r)
  BY <1>1 DEF IInv, WorkInv, WorkOn, WorkKnown
<1> QED
  BY <1>1, <1>2, LeaveKeeps DEF Complete, SetStatus, Statuses

LEMMA FailResumeKeeps ==
  ASSUME IInv, NEW t \in Threads, NEW r \in Runs, FailResume(t, r)
  PROVE  IInv'
<1>1. CASE UNCHANGED status
  <2>1. status' = [status EXCEPT ![r] = status[r]]
    BY <1>1, StatusWrittenBack DEF IInv, MemoryInv
  <2>2. status[r] \in Statuses /\ (status[r] = "completed" => Told(r))
    BY RunKnown DEF IInv, WorkInv, WorkOn
  <2> QED
    BY <2>1, <2>2, LeaveKeeps DEF FailResume
<1>2. CASE SetStatus(r, "failed")
  BY <1>2, LeaveKeeps DEF FailResume, SetStatus, Statuses
<1> QED
  BY <1>1, <1>2 DEF FailResume

\* After a crash a run is as it was, or lost, and no thread is left.
LEMMA CrashKeeps ==
  ASSUME IInv, Crash
  PROVE  IInv'
<1>1. /\ lessons' = lessons /\ outcomes' = outcomes /\ status' = status /\ today' = today
      /\ resumed' = resumed /\ overlapped' = overlapped
      /\ run' = [r \in Runs |-> run'[r]]
      /\ resume' = [t \in Threads |-> NoResume]
  BY DEF Crash, history
<1>2. ASSUME NEW r \in Runs
      PROVE  /\ run'[r] \in RunStates
             /\ \/ run'[r] = run[r] /\ run[r].phase \notin {"deciding", "planning", "syncing"}
                \/ /\ run'[r].phase = "lost" /\ run'[r].evidence = {}
                   /\ run[r].phase \in {"deciding", "planning", "syncing"}
  BY RunKnown, LostState DEF Crash
<1>3. TypeOK'
  <2>1. run' \in [Runs -> RunStates]
    BY <1>1, <1>2
  <2>2. resume' \in [Threads -> Resumes]
    BY <1>1, NoThread
  <2> QED
    BY <1>1, <2>1, <2>2 DEF IInv, MemoryInv, TypeOK
<1>4. LessonsOnRecord' /\ IdleTaughtNothing' /\ EvidenceInMemory'
  BY <1>1, <1>2 DEF IInv, MemoryInv, LessonsOnRecord, IdleTaughtNothing, EvidenceInMemory, In
<1>5. RulesFollowEvidence'
  BY <1>2 DEF RulesFollowEvidence, FollowsEvidence, In
<1>6. RoiEvidenceNeedsPerson'
  <2> SUFFICES ASSUME NEW q \in Runs,
                      (In(q, "handed over") /\ status[q] = "running"
                         /\ run[q].by = "rules" /\ run[q].strategy # None)',
                      NEW i \in run'[q].evidence
               PROVE  ~Mentions(lessons'[i].text, "roi")
    BY DEF RoiEvidenceNeedsPerson
  <2>1. run'[q] = run[q]
    BY <1>2 DEF In
  <2> QED
    BY <1>1, <2>1 DEF IInv, MemoryInv, RoiEvidenceNeedsPerson, In
<1>7. ASSUME NEW r \in Runs PROVE WorkOn(r)'
  <2>1. \A t \in Threads : resume'[t].run # r
    BY <1>1, NoThread, LoopAssumption DEF LoopAssumption
  <2>2. In(r, "approved") => In(r, "approved")'
    BY <1>2 DEF In
  <2> QED
    BY <1>1, <2>1, <2>2, WorkUntouched
<1> QED
  BY <1>3, <1>4, <1>5, <1>6, <1>7 DEF IInv, MemoryInv, WorkInv

\* Nothing but the day changes.
LEMMA OtherDayKeeps ==
  ASSUME IInv, UNCHANGED <<run, lessons, outcomes, status, resume, history>>,
         today' \in 0 .. LastDay
  PROVE  IInv'
<1>1. TypeOK' /\ LessonsOnRecord' /\ IdleTaughtNothing' /\ EvidenceInMemory'
  BY DEF IInv, MemoryInv, TypeOK, LessonsOnRecord, IdleTaughtNothing, EvidenceInMemory, In,
     history
<1>2. RulesFollowEvidence' /\ RoiEvidenceNeedsPerson'
  BY DEF IInv, MemoryInv, RulesFollowEvidence, FollowsEvidence, RoiEvidenceNeedsPerson, In
<1>3. ASSUME NEW r \in Runs PROVE WorkOn(r)'
  BY WorkUntouched DEF In, history
<1> QED
  BY <1>1, <1>2, <1>3 DEF IInv, MemoryInv, WorkInv

LEMMA NextKeeps == IInv /\ [Next]_vars => IInv'
<1> SUFFICES ASSUME IInv, [Next]_vars PROVE IInv'
  OBVIOUS
<1>1. ASSUME NEW r \in Runs, Step(r) PROVE IInv'
  <2>1. CASE \E raw \in Stages : Retrieve(r, raw)
    BY <2>1, RetrieveKeeps
  <2>2. CASE StartCrmSync(r)
    BY <2>2, StartCrmSyncKeeps
  <2>3. CASE Decide(r)
    BY <2>3, DecideKeeps
  <2>4. CASE \E answer \in ModelDecisions : DecideByModel(r, answer)
    BY <2>4, DecideByModelKeeps
  <2>5. CASE Plan(r)
    BY <2>5, PlanKeeps
  <2>6. CASE \E s \in {"running", "waiting_approval"} : PlanByModel(r, s)
    BY <2>6, PlanByModelKeeps
  <2>7. CASE Fail(r)
    BY <2>7, FailKeeps
  <2> QED
    BY <1>1, <2>1, <2>2, <2>3, <2>4, <2>5, <2>6, <2>7 DEF Step
<1>2. ASSUME NEW r \in Runs, NEW t \in Threads, Resumed(t, r) PROVE IInv'
  <2>1. CASE PlanCrmSync(t, r) \/ Approve(t, r)
    BY <2>1, EnterKeeps DEF PlanCrmSync, Approve
  <2>2. CASE \E executed \in {"no", "yes"} : Execute(t, r, executed)
    BY <2>2, ExecuteKeeps
  <2>3. CASE MarkExecuted(t, r)
    BY <2>3, MarkExecutedKeeps
  <2>4. CASE \E label \in Labels : Evaluate(t, r, label)
    BY <2>4, EvaluatedKeeps, HintIsConfidence DEF Evaluate
  <2>5. CASE \E answer \in ModelOutcomes : EvaluateByModel(t, r, answer)
    <3>1. PICK answer \in ModelOutcomes : Evaluated(t, r, answer.label, answer.hint)
      BY <2>5 DEF EvaluateByModel
    <3>2. answer.label \in Labels /\ answer.hint \in Confidences
      BY LoopAssumption DEF LoopAssumption
    <3> QED
      BY <3>1, <3>2, EvaluatedKeeps
  <2>6. CASE Teach(t, r)
    BY <2>6, TeachKeeps
  <2>7. CASE Complete(t, r)
    BY <2>7, CompleteKeeps
  <2>8. CASE FailResume(t, r)
    BY <2>8, FailResumeKeeps
  <2> QED
    BY <1>2, <2>1, <2>2, <2>3, <2>4, <2>5, <2>6, <2>7, <2>8 DEF Resumed
<1>3. CASE DaysPass
  <2>1. today' \in 0 .. LastDay
    BY <1>3, LoopAssumption DEF LoopAssumption, DaysPass, IInv, MemoryInv, TypeOK
  <2> QED
    BY <1>3, <2>1, OtherDayKeeps DEF DaysPass
<1>4. CASE UNCHANGED vars
  <2>1. today' \in 0 .. LastDay
    BY <1>4 DEF vars, IInv, MemoryInv, TypeOK
  <2> QED
    BY <1>4, <2>1, OtherDayKeeps DEF vars
<1> QED
  BY <1>1, <1>2, <1>3, <1>4, CrashKeeps DEF Next

-----------------------------------------------------------------------------
(* The stages of the gate: what the sum of the qualities says of the best one. *)

\* A set of numbers that is not empty has a least one: the induction of the lemmas
\* below, over the least size at which they would be wrong.
LEMMA LeastNumber ==
  ASSUME NEW S \in SUBSET Nat, S # {}
  PROVE  \E n \in S : \A m \in S : n <= m
<1>1. PICK n \in S : \A m \in S : <<m, n>> \notin OpToRel(<, Nat)
  BY WFMin, NatLessThanWellFounded, Zenon
<1>2. \A m \in S : ~(m < n)
  BY <1>1, Zenon DEF OpToRel
<1> QED
  BY <1>2

\* The element a fold of MapThenSumSet takes next, and what it adds up.
First(s) == CHOOSE x \in s : TRUE

AddsUp(q, sum, s) ==
  sum[s] = IF s = {} THEN 0 ELSE q[First(s)] + sum[s \ {First(s)}]

\* The fold goes on with a smaller set.
LEMMA FirstIsMember ==
  ASSUME NEW S, IsFiniteSet(S), NEW s \in SUBSET S, s # {}
  PROVE  /\ First(s) \in s
         /\ s \ {First(s)} \in SUBSET S
         /\ IsFiniteSet(s) /\ Cardinality(s) \in Nat /\ Cardinality(s) > 0
         /\ Cardinality(s \ {First(s)}) = Cardinality(s) - 1
<1>1. First(s) \in s
  BY DEF First
<1>2. IsFiniteSet(s)
  BY FS_Subset
<1> QED
  BY <1>1, <1>2, FS_RemoveElement, FS_CardinalityType, FS_EmptySet

\* The recursion over the subsets of a finite set has a solution.
LEMMA SumExists ==
  ASSUME NEW S, IsFiniteSet(S), NEW q \in [S -> Int]
  PROVE  \E sum \in [SUBSET S -> Int] : \A s \in SUBSET S : AddsUp(q, sum, s)
<1> DEFINE Small(n) == {s \in SUBSET S : Cardinality(s) <= n}
           Solved(n) == \E sum \in [SUBSET S -> Int] :
                          \A s \in Small(n) : AddsUp(q, sum, s)
           Open == {n \in Nat : ~Solved(n)}
<1>1. ASSUME Open # {} PROVE FALSE
  <2>1. PICK n \in Open : \A m \in Open : n <= m
    BY <1>1, LeastNumber
  <2>2. n # 0
    <3>1. ASSUME NEW s \in SUBSET S, Cardinality(s) <= 0, s # {} PROVE FALSE
      <4>1. Cardinality(s) \in Nat /\ Cardinality(s) > 0
        BY <3>1, FirstIsMember
      <4> QED
        BY <3>1, <4>1
    <3> DEFINE z == [u \in SUBSET S |-> 0]
    <3>2. z \in [SUBSET S -> Int] /\ z[{}] = 0
      OBVIOUS
    <3> HIDE DEF z
    <3>3. \A s \in Small(0) : AddsUp(q, z, s)
      BY <3>1, <3>2 DEF AddsUp
    <3>4. Solved(0)
      BY <3>2, <3>3
    <3> QED
      BY <3>4
  <2>3. n - 1 \in Nat /\ Solved(n - 1)
    <3> HIDE DEF Solved
    <3>1. n \in Nat /\ n - 1 \in Nat /\ ~(n <= n - 1)
      BY <2>2
    <3> QED
      BY <2>1, <3>1
  <2>4. PICK g \in [SUBSET S -> Int] : \A s \in Small(n - 1) : AddsUp(q, g, s)
    BY <2>3
  <2> DEFINE h == [s \in SUBSET S |-> IF s = {} THEN 0 ELSE q[First(s)] + g[s \ {First(s)}]]
  <2>5. h \in [SUBSET S -> Int]
    <3>1. ASSUME NEW s \in SUBSET S, s # {}
          PROVE q[First(s)] + g[s \ {First(s)}] \in Int
      <4>1. First(s) \in S /\ s \ {First(s)} \in SUBSET S
        BY <3>1, FirstIsMember
      <4> QED
        BY <4>1
    <3> QED
      BY <3>1
  <2>6. ASSUME NEW s \in Small(n) PROVE AddsUp(q, h, s)
    <3>1. CASE s = {}
      <4>1. h[s] = 0
        BY <3>1
      <4> HIDE DEF h
      <4> QED
        BY <3>1, <4>1 DEF AddsUp
    <3>2. CASE s # {}
      <4> DEFINE rest == s \ {First(s)}
      <4>1. rest \in Small(n - 1)
        BY <3>2, FirstIsMember
      <4>2. g[rest] = IF rest = {} THEN 0 ELSE q[First(rest)] + g[rest \ {First(rest)}]
        BY <2>4, <4>1 DEF AddsUp
      <4>3. h[rest] = g[rest]
        BY <4>1, <4>2
      <4>4. h[s] = q[First(s)] + g[rest]
        BY <3>2
      <4> HIDE DEF h
      <4> QED
        BY <3>2, <4>3, <4>4 DEF AddsUp
    <3> QED
      BY <3>1, <3>2
  <2>7. Solved(n)
    BY <2>5, <2>6
  <2> QED
    BY <2>1, <2>7
<1>2. Cardinality(S) \in Nat /\ Small(Cardinality(S)) = SUBSET S
  BY FS_CardinalityType, FS_Subset
<1>3. Solved(Cardinality(S))
  BY <1>1, <1>2
<1> QED
  BY <1>2, <1>3

\* What adds up stays at the bound of its parts.
LEMMA SumBounded ==
  ASSUME NEW S, IsFiniteSet(S), NEW q \in [S -> Int], NEW b \in Int,
         \A x \in S : q[x] <= b,
         NEW sum, \A s \in SUBSET S : AddsUp(q, sum, s)
  PROVE  sum[S] \in Int /\ sum[S] <= b * Cardinality(S)
<1> DEFINE Good(s) == sum[s] \in Int /\ sum[s] <= b * Cardinality(s)
           Bad == {n \in Nat : \E s \in SUBSET S : Cardinality(s) = n /\ ~Good(s)}
<1>1. ASSUME Bad # {} PROVE FALSE
  <2>1. PICK n \in Bad : \A m \in Bad : n <= m
    BY <1>1, LeastNumber
  <2>2. PICK s \in SUBSET S : Cardinality(s) = n /\ ~Good(s)
    BY <2>1
  <2>3. s # {}
    <3>1. sum[{}] = 0
      BY DEF AddsUp
    <3>2. Cardinality({}) = 0 /\ b * 0 = 0
      BY FS_EmptySet
    <3>3. Good({})
      BY <3>1, <3>2
    <3> HIDE DEF Good
    <3> QED
      BY <2>2, <3>3
  <2> DEFINE rest == s \ {First(s)}
  <2>4. /\ rest \in SUBSET S /\ Cardinality(rest) = n - 1 /\ n - 1 \in Nat
        /\ First(s) \in S
    <3>1. n \in Nat /\ Cardinality(s) = n
      BY <2>2
    <3> HIDE DEF Good
    <3>2. /\ First(s) \in s /\ rest \in SUBSET S
          /\ Cardinality(s) > 0 /\ Cardinality(rest) = Cardinality(s) - 1
      BY <2>3, FirstIsMember
    <3> QED
      BY <3>1, <3>2
  <2>5. Good(rest)
    <3> HIDE DEF Good, rest
    <3>1. ASSUME ~Good(rest) PROVE n - 1 \in Bad
      BY <2>4, <3>1
    <3>2. n \in Nat /\ ~(n <= n - 1)
      OBVIOUS
    <3> QED
      BY <2>1, <3>1, <3>2
  <2>6. sum[s] = q[First(s)] + sum[rest]
    BY <2>3 DEF AddsUp
  <2>7. q[First(s)] \in Int /\ q[First(s)] <= b
    BY <2>4
  <2>8. sum[rest] \in Int /\ sum[rest] <= b * (n - 1)
    BY <2>4, <2>5
  <2>9. b * (n - 1) + b = b * n
    BY <2>4
  <2>10. sum[s] \in Int /\ sum[s] <= b * n
    <3> HIDE DEF rest
    <3> QED
    BY <2>6, <2>7, <2>8, <2>9, <2>4
  <2> QED
    BY <2>2, <2>10
<1>2. Cardinality(S) \in Nat
  BY FS_CardinalityType
<1> QED
  BY <1>1, <1>2

\* The total quality of evidence is the sum over the recursion.
LEMMA TotalAtMost ==
  ASSUME NEW ev, IsFiniteSet(ev), NEW b \in Int,
         \A i \in ev : Quality(i) \in Int /\ Quality(i) <= b
  PROVE  TotalQuality(ev) \in Int /\ TotalQuality(ev) <= b * Cardinality(ev)
<1> DEFINE q == [i \in ev |-> Quality(i)]
           Sums(sum) == sum = [s \in SUBSET ev |->
                          IF s = {} THEN 0
                          ELSE LET x == CHOOSE x \in s : TRUE
                               IN  Quality(x) + sum[s \ {x}]]
           total == CHOOSE sum : Sums(sum)
<1>1. q \in [ev -> Int] /\ \A i \in ev : q[i] = Quality(i) /\ q[i] <= b
  OBVIOUS
<1>2. ASSUME NEW s \in SUBSET ev, s # {} PROVE First(s) \in ev
  BY <1>2, FirstIsMember
<1>3. \E sum : Sums(sum)
  <2>1. PICK sum \in [SUBSET ev -> Int] : \A s \in SUBSET ev : AddsUp(q, sum, s)
    <3> HIDE DEF q
    <3> QED
      BY <1>1, SumExists
  <2>2. ASSUME NEW s \in SUBSET ev
        PROVE sum[s] = IF s = {} THEN 0 ELSE Quality(First(s)) + sum[s \ {First(s)}]
    <3> HIDE DEF q
    <3> QED
      BY <1>1, <1>2, <2>1 DEF AddsUp
  <2>3. Sums(sum)
    BY <2>1, <2>2 DEF First
  <2> QED
    BY <2>3
<1>4. Sums(total)
  <2> HIDE DEF Sums
  <2> QED
    BY <1>3
<1>5. ASSUME NEW s \in SUBSET ev PROVE AddsUp(q, total, s)
  <2>1. total[s] = IF s = {} THEN 0 ELSE Quality(First(s)) + total[s \ {First(s)}]
    <3> HIDE DEF total
    <3> QED
      BY <1>4 DEF First
  <2> HIDE DEF total, q
  <2> QED
    BY <1>1, <1>2, <2>1 DEF AddsUp
<1>6. TotalQuality(ev) = total[ev]
  BY DEF TotalQuality, MapThenSumSet, MapThenFoldSet
<1> HIDE DEF q, total
<1> QED
  BY <1>1, <1>5, <1>6, SumBounded

\* Qualities are numbers.
LEMMA QualityIsInteger ==
  ASSUME lessons \in Seq(Lessons), today \in Int, NEW i \in DOMAIN lessons
  PROVE  Quality(i) \in Int
<1>1. lessons[i] \in Lessons
  BY LenProperties, ElementOfSeq
<1>2. lessons[i].hint \in Int /\ lessons[i].day \in Int
  <2>1. lessons[i].hint \in Confidences /\ lessons[i].day \in Int
    BY <1>1, Zenon DEF Lessons
  <2>2. Confidences \subseteq Int
    BY DEF Confidences
  <2> QED
    BY <2>1, <2>2, Zenon
<1>3. ASSUME NEW age \in Int PROVE Recency(age) \in {50, 70, 85, 100}
  <2>1. CASE age <= 14
    BY <2>1 DEF Recency
  <2>2. CASE age > 14 /\ age <= 45
    BY <2>2 DEF Recency
  <2>3. CASE age > 45 /\ age <= 90
    BY <2>3 DEF Recency
  <2>4. CASE age > 90
    BY <2>4 DEF Recency
  <2> QED
    BY <2>1, <2>2, <2>3, <2>4
<1> DEFINE recency == Recency(today - lessons[i].day)
<1>4. recency \in Int
  BY <1>2, <1>3
<1> HIDE DEF recency
<1>5. lessons[i].hint * recency + 49 \in Int
  BY <1>2, <1>4
<1>6. Quality(i) = (lessons[i].hint * recency + 49) \div 100
  BY DEF Quality, recency
<1> QED
  BY <1>5, <1>6

\* Retrieval with a higher minimum finds less.
LEMMA StricterRetrieval ==
  ASSUME lessons \in Seq(Lessons), today \in Int, NEW persona,
         NEW low \in Int, NEW high \in Int, low <= high
  PROVE  Retrieved(persona, high) \subseteq Retrieved(persona, low)
<1> SUFFICES ASSUME NEW i \in Retrieved(persona, high) PROVE i \in Retrieved(persona, low)
  OBVIOUS
<1>1. i \in DOMAIN lessons /\ Quality(i) >= high
  BY DEF Retrieved, Newest
<1>2. Quality(i) >= low
  BY <1>1, QualityIsInteger
<1> QED
  BY <1>2 DEF Retrieved

\* An average of 0.25 over two lessons or more needs one of 0.2, so what passes the
\* last gate would have passed the one before.
LEMMA StricterGate ==
  ASSUME lessons \in Seq(Lessons), today \in Int, NEW persona
  PROVE  /\ Evidence(persona, 3) \subseteq Evidence(persona, 2)
         /\ Evidence(persona, 2) \subseteq Evidence(persona, 1)
<1>1. /\ Retrieved(persona, 40) \subseteq Retrieved(persona, 20)
      /\ Retrieved(persona, 20) \subseteq Retrieved(persona, 0)
  BY StricterRetrieval
<1>2. MinQuality(1) = 0 /\ MinQuality(2) = 20 /\ MinQuality(3) = 40
  BY DEF MinQuality
<1>3. Evidence(persona, 2) \subseteq Evidence(persona, 1)
  BY <1>1, <1>2 DEF Evidence, Gated, Passes
<1> DEFINE ev == Retrieved(persona, 40)
<1>4. ASSUME Cardinality(ev) >= 2, TotalQuality(ev) >= 250 * Cardinality(ev)
      PROVE  \E i \in ev : Quality(i) >= 200
  <2>1. IsFiniteSet(ev) /\ Cardinality(ev) \in Nat /\ ev \subseteq DOMAIN lessons
    <3>1. ev \subseteq DOMAIN lessons
      BY DEF Retrieved, Newest
    <3> QED
      BY <3>1, LessonNumbers, FS_Subset, FS_CardinalityType
  <2> HIDE DEF ev
  <2>2. \A i \in ev : Quality(i) \in Int
    BY <2>1, QualityIsInteger
  <2>3. ASSUME \A i \in ev : ~(Quality(i) >= 200) PROVE FALSE
    <3>1. TotalQuality(ev) \in Int /\ TotalQuality(ev) <= 199 * Cardinality(ev)
      BY <2>1, <2>2, <2>3, TotalAtMost
    <3> QED
      BY <1>4, <2>1, <3>1
  <2> QED
    BY <2>3
<1>5. Evidence(persona, 3) \subseteq Evidence(persona, 2)
  BY <1>1, <1>2, <1>4 DEF Evidence, Gated, Passes
<1> QED
  BY <1>3, <1>5

-----------------------------------------------------------------------------
\* The invariant holds of every behaviour.
THEOREM InvariantHolds == Spec => []IInv
BY InitHolds, NextKeeps, PTL DEF Spec

\* The runs, the tables and the lessons keep their types.
THEOREM LoopTyped == Spec => []TypeOK
BY InvariantHolds, PTL DEF IInv, MemoryInv

\* Where the rules decide, memory lifts a decision by 0.15 at the most, only with evidence,
\* and at the last stage with two lessons or more, for any histories
\* (strategist_agent.py:53-55, feedback_policy.py:45-48).
THEOREM LiftEarned == Spec => []LiftIsEarned
<1>1. IInv => LiftIsEarned
  BY DEF IInv, MemoryInv, RulesFollowEvidence, FollowsEvidence, EnoughAt, LiftIsEarned
<1> QED
  BY <1>1, InvariantHolds, PTL

\* Whatever the gate let through, for any number of runs, personas and crashes, was
\* taught about the run's own persona by another run with an outcome on record.
THEOREM EvidenceEarned == Spec => []EvidenceWasEarned
<1>1. IInv => EvidenceWasEarned
  BY DEF IInv, MemoryInv, EvidenceInMemory, LessonsOnRecord, EvidenceWasEarned
<1> QED
  BY <1>1, InvariantHolds, PTL

\* A completed run has its outcome on record and has taught a lesson, whichever of its
\* transactions a crash, another run or another approval came between; and with no
\* two approvals of it in progress together, it taught the outcome on record, for any
\* number of approvals, threads and runs (runner.py:466-583).
THEOREM CompletedTaught == Spec => []CompletedRunTaught
<1>1. IInv => CompletedRunTaught
  BY DEF IInv, WorkInv, WorkOn, Told, CompletedRunTaught
<1> QED
  BY <1>1, InvariantHolds, PTL

\* Evidence in favour of ROI sends the rules' plan to a person, however many lessons
\* there are and whatever else they mention.
THEOREM RoiNeedsPerson == Spec => []RoiEvidenceNeedsPerson
BY InvariantHolds, PTL DEF IInv, MemoryInv

\* Whatever is in memory, a stricter stage of the gate adapts to nothing that a laxer
\* one would have kept out, though one looks at the best lesson and the other at the
\* average of those it ranked (feedback_policy.py:31-49).
THEOREM StricterLess == Spec => []StricterStageUsesLess
<1>1. TypeOK => StricterStageUsesLess
  BY StricterGate DEF TypeOK, StricterStageUsesLess
<1> QED
  BY <1>1, LoopTyped, PTL

=============================================================================
