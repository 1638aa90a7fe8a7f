------------------------ MODULE PromptRolloutProofs ------------------------
(***************************************************************************)
(* Theorems about the prompt experiments, for any number of workflows,     *)
(* runs, threads and releases and for every value of the thresholds.       *)
(***************************************************************************)
EXTENDS PromptRollout, TLAPS

(***************************************************************************)
(* Why there is one canary phase: the changelog starts with the advance to *)
(* it, exposures never shrink, and a rollout is back in its shadow phase   *)
(* only after the candidate was judged, when TooFew is false for good.     *)
(***************************************************************************)
\* What the phases say about the exposures.
Judged ==
  \A w \in WorkflowIds : changelog[w] # <<>> =>
    /\ metrics[w]["A"].exposures > 0
    /\ rollout[w].phase = "shadow" => metrics[w]["B"].exposures >= JudgeAfter

\* A thread that is about to write the candidate's assignment, or to count for it,
\* read tables of a rollout that had left its first shadow phase.
ReadsLate ==
  \A t \in Threads :
    reading[t] # Idle /\ reading[t].variant = "B"
      => changelog[reading[t].workflow] # <<>>

\* The newest assignment of a run is an assignment.
NewestAssigned ==
  \A r \in Runs : newestOf[r] # None => assignment[r][newestOf[r]] # None

RolloutInv ==
  /\ TypeOK
  /\ ChangelogTellsPhase /\ OneCanary /\ CandidateNeedsCanary /\ FullWasApproved
  /\ Judged /\ ReadsLate /\ NewestAssigned

\* The invariant holds of the empty tables.
LEMMA InitRolloutInv == Init => RolloutInv
<1> SUFFICES ASSUME Init PROVE RolloutInv
  OBVIOUS
<1>1. TypeOK
  BY RolloutAssumption DEF Init, TypeOK, Phases, Variants, Metrics, Changes, Idle
<1>2. ChangelogTellsPhase /\ OneCanary /\ CandidateNeedsCanary /\ FullWasApproved
  BY RolloutAssumption DEF Init, ChangelogTellsPhase, OneCanary, CandidateNeedsCanary, FullWasApproved,
     Variants, Metrics
<1>3. Judged /\ ReadsLate /\ NewestAssigned
  BY DEF Init, Judged, ReadsLate, NewestAssigned
<1> QED
  BY <1>1, <1>2, <1>3 DEF RolloutInv

\* What a render reads keeps the invariant: the candidate is read only in a canary
\* or full phase, which the changelog shows.
LEMMA ReadKeeps ==
  ASSUME RolloutInv, NEW t \in Threads, NEW r \in Runs, ReadRollout(t, r)
  PROVE  RolloutInv'
<1> DEFINE w == RenderedFor(r)
           v == EffectiveVariant(w, r)
<1>1. w \in WorkflowIds
  BY RolloutAssumption DEF RenderedFor
<1>2. v \in Variants /\ (v = "B" => changelog[w] # <<>>)
  BY <1>1 DEF RolloutInv, TypeOK, EffectiveVariant, ChangelogTellsPhase, Phases, Variants
<1> HIDE DEF w, v
<1>3. reading' = [reading EXCEPT ![t] = [method |-> "render", run |-> r,
                                         workflow |-> w, variant |-> v]]
  BY DEF ReadRollout, w, v
<1>4. UNCHANGED <<rollout, metrics, assignment, newestOf, changelog, votes,
                  releaseSet, resumed>>
  BY DEF ReadRollout
<1>5. TypeOK'
  BY <1>1, <1>2, <1>3, <1>4 DEF RolloutInv, TypeOK, Methods
<1>6. ReadsLate'
  BY <1>1, <1>2, <1>3, <1>4 DEF RolloutInv, TypeOK, ReadsLate
<1>7. (ChangelogTellsPhase /\ OneCanary /\ CandidateNeedsCanary /\ FullWasApproved)'
  BY <1>4 DEF RolloutInv, ChangelogTellsPhase, OneCanary, CandidateNeedsCanary, FullWasApproved
<1>8. (Judged /\ NewestAssigned)'
  BY <1>4 DEF RolloutInv, Judged, NewestAssigned
<1> QED
  BY <1>5, <1>6, <1>7, <1>8 DEF RolloutInv

\* A run's newest assignment is of the candidate only if its workflow's changelog
\* is not empty.
LEMMA ReadAssignmentKeeps ==
  ASSUME RolloutInv, NEW t \in Threads, NEW r \in Runs,
         NEW method \in {"outcome", "rejection"}, ReadAssignment(t, r, method)
  PROVE  RolloutInv'
<1> DEFINE w == newestOf[r]
           v == assignment[r][w]
<1>1. /\ w \in WorkflowIds /\ v \in Variants
      /\ v = "B" => changelog[w] # <<>>
  BY RolloutAssumption
     DEF ReadAssignment, RolloutInv, TypeOK, NewestAssigned, CandidateNeedsCanary
<1>2. reading' = [reading EXCEPT ![t] = [method |-> method, run |-> r,
                                         workflow |-> w, variant |-> v]]
  BY DEF ReadAssignment
<1>3. UNCHANGED <<rollout, metrics, assignment, newestOf, changelog, votes,
                  releaseSet, resumed>>
  BY DEF ReadAssignment
<1> HIDE DEF w, v
<1>4. TypeOK'
  BY <1>1, <1>2, <1>3 DEF RolloutInv, TypeOK, Methods
<1>5. ReadsLate'
  BY <1>1, <1>2, <1>3 DEF RolloutInv, TypeOK, ReadsLate
<1>6. (ChangelogTellsPhase /\ OneCanary /\ CandidateNeedsCanary /\ FullWasApproved)'
  BY <1>3 DEF RolloutInv, ChangelogTellsPhase, OneCanary, CandidateNeedsCanary, FullWasApproved
<1>7. (Judged /\ NewestAssigned)'
  BY <1>3 DEF RolloutInv, Judged, NewestAssigned
<1> QED
  BY <1>4, <1>5, <1>6, <1>7 DEF RolloutInv

\* A method that has read something.
LEMMA Reading ==
  ASSUME RolloutInv, NEW t \in Threads, reading[t].method \in Methods
  PROVE  /\ reading[t] # Idle /\ reading[t].run \in Runs
         /\ reading[t].workflow \in WorkflowIds /\ reading[t].variant \in Variants
         /\ reading[t].variant = "B" => changelog[reading[t].workflow] # <<>>
<1>1. reading[t] # Idle
  BY RolloutAssumption DEF Idle, Methods
<1> QED
  BY <1>1 DEF RolloutInv, TypeOK, ReadsLate

\* An assignment counts one exposure more for a variant that ReadsLate allows.
LEMMA WriteKeeps ==
  ASSUME RolloutInv, NEW t \in Threads, WriteAssignment(t)
  PROVE  RolloutInv'
<1> DEFINE r == reading[t].run
           w == reading[t].workflow
           v == reading[t].variant
<1>1. r \in Runs /\ w \in WorkflowIds /\ v \in Variants /\ None \notin Variants
      /\ None \notin WorkflowIds
  BY RolloutAssumption, Reading DEF WriteAssignment, Methods
<1>2. v = "B" => changelog[w] # <<>>
  BY Reading DEF WriteAssignment, Methods
<1>3. /\ assignment' = [assignment EXCEPT ![r][w] = v]
      /\ newestOf' = IF assignment[r][w] = None
                     THEN [newestOf EXCEPT ![r] = w] ELSE newestOf
      /\ metrics' = [metrics EXCEPT ![w][v].exposures = @ + 1]
      /\ reading' = [reading EXCEPT ![t] = Idle]
      /\ UNCHANGED <<rollout, changelog, votes, releaseSet, resumed>>
  BY DEF WriteAssignment
<1> HIDE DEF r, w, v
<1> DEFINE counters == [Metrics \cup {"exposures"} -> Nat]
           now == [metrics[w][v] EXCEPT !["exposures"] = @ + 1]
<1>a. metrics \in [WorkflowIds -> [Variants -> counters]]
  BY DEF RolloutInv, TypeOK
<1>b. now \in counters /\ now["exposures"] >= metrics[w][v]["exposures"]
  BY <1>1, <1>a
<1>c. metrics' = [metrics EXCEPT ![w][v] = now]
  BY <1>1, <1>3, <1>a
<1> HIDE DEF counters, now
<1>4. metrics' \in [WorkflowIds -> [Variants -> counters]]
  BY <1>1, <1>a, <1>b, <1>c
<1>5. \A u \in WorkflowIds, x \in Variants :
        /\ metrics'[u][x].exposures >= metrics[u][x].exposures
        /\ u # w \/ x # v => metrics'[u][x].exposures = metrics[u][x].exposures
  <2> TAKE u \in WorkflowIds, x \in Variants
  <2>1. metrics[u][x] \in counters
    BY <1>a
  <2>2. metrics'[u][x] = IF u = w /\ x = v THEN now ELSE metrics[u][x]
    BY <1>1, <1>a, <1>c
  <2> QED
    BY <2>1, <2>2, <1>b DEF counters
<1>6. TypeOK'
  <2>1. /\ assignment' \in [Runs -> [WorkflowIds -> Variants \cup {None}]]
        /\ newestOf' \in [Runs -> WorkflowIds \cup {None}]
        /\ reading' \in [Threads -> [method : Methods, run : Runs,
                                      workflow : WorkflowIds,
                                      variant : Variants] \cup {Idle}]
    BY <1>1, <1>3 DEF RolloutInv, TypeOK
  <2> QED
    BY <1>3, <1>4, <2>1 DEF RolloutInv, TypeOK, counters
<1>7. (ChangelogTellsPhase /\ OneCanary /\ FullWasApproved)'
  BY <1>3 DEF RolloutInv, ChangelogTellsPhase, OneCanary, FullWasApproved
<1>8. CandidateNeedsCanary'
  BY <1>1, <1>2, <1>3, <1>5 DEF RolloutInv, TypeOK, CandidateNeedsCanary, Variants
<1>9. Judged'
  <2>1. \A u \in WorkflowIds, x \in Variants :
          metrics[u][x].exposures \in Nat /\ metrics'[u][x].exposures \in Nat
    BY <1>4, <1>a DEF counters
  <2> QED
    BY RolloutAssumption, <1>3, <1>5, <2>1 DEF RolloutInv, Judged, Variants
<1>10. ReadsLate'
  BY <1>3 DEF RolloutInv, TypeOK, ReadsLate
<1>11. NewestAssigned'
  BY <1>1, <1>3 DEF RolloutInv, TypeOK, NewestAssigned
<1> QED
  BY <1>6, <1>7, <1>8, <1>9, <1>10, <1>11 DEF RolloutInv

\* An entry of the changelog is added after those that were there.
LEMMA LogFacts ==
  ASSUME TypeOK, NEW w \in WorkflowIds, NEW change \in Changes, Log(w, change)
  PROVE  /\ changelog' \in [WorkflowIds -> Seq(Changes)]
         /\ \A u \in WorkflowIds \ {w} : changelog'[u] = changelog[u]
         /\ changelog'[w] # <<>> /\ changelog[w] \in Seq(Changes)
         /\ Len(changelog'[w]) = Len(changelog[w]) + 1
         /\ changelog'[w][Len(changelog[w]) + 1] = change
         /\ \A i \in 1..Len(changelog[w]) : changelog'[w][i] = changelog[w][i]
<1>1. changelog' = [changelog EXCEPT ![w] = Append(changelog[w], change)]
  BY DEF Log
<1>2. changelog \in [WorkflowIds -> Seq(Changes)]
  BY DEF TypeOK
<1> QED
  BY <1>1, <1>2

\* What a transaction that counts for workflow w leaves: counters m that never
\* shrink, the candidate's still at zero while the changelog is empty.
CountsUp(w, m) ==
  /\ m \in [Variants -> [Metrics \cup {"exposures"} -> Nat]]
  /\ \A v \in Variants : m[v].exposures >= metrics[w][v].exposures
  /\ changelog[w] = <<>> => m["B"].exposures = 0
  /\ metrics' = [metrics EXCEPT ![w] = m]
  /\ \E t \in Threads : reading' = [reading EXCEPT ![t] = Idle]
  /\ UNCHANGED <<assignment, newestOf, votes, releaseSet, resumed>>

\* What counting up says of the other workflows and of the exposures.
LEMMA CountFacts ==
  ASSUME RolloutInv, NEW w \in WorkflowIds, NEW m, CountsUp(w, m)
  PROVE  /\ metrics' \in [WorkflowIds -> [Variants -> [Metrics \cup {"exposures"} -> Nat]]]
         /\ \A u \in WorkflowIds \ {w} : metrics'[u] = metrics[u]
         /\ metrics'[w] = m
         /\ \A u \in WorkflowIds, v \in Variants :
              metrics'[u][v].exposures \in Nat /\ metrics[u][v].exposures \in Nat
         /\ reading' \in [Threads -> [method : Methods, run : Runs,
                                      workflow : WorkflowIds,
                                      variant : Variants] \cup {Idle}]
         /\ \A t \in Threads : reading'[t] \in {reading[t], Idle}
<1> DEFINE counters == [Metrics \cup {"exposures"} -> Nat]
<1>1. /\ metrics \in [WorkflowIds -> [Variants -> counters]]
      /\ m \in [Variants -> counters]
      /\ metrics' = [metrics EXCEPT ![w] = m]
  BY DEF RolloutInv, TypeOK, CountsUp
<1>2. \A n \in counters : n.exposures \in Nat
  OBVIOUS
<1> HIDE DEF counters
<1>3. metrics' \in [WorkflowIds -> [Variants -> counters]]
  BY <1>1
<1>4. /\ \A u \in WorkflowIds \ {w} : metrics'[u] = metrics[u]
      /\ metrics'[w] = m
  BY <1>1
<1>5. \A u \in WorkflowIds, v \in Variants :
        metrics'[u][v].exposures \in Nat /\ metrics[u][v].exposures \in Nat
  BY <1>1, <1>2, <1>3
<1>6. /\ reading' \in [Threads -> [method : Methods, run : Runs,
                                    workflow : WorkflowIds,
                                    variant : Variants] \cup {Idle}]
      /\ \A t \in Threads : reading'[t] \in {reading[t], Idle}
  BY DEF RolloutInv, TypeOK, CountsUp
<1> QED
  BY <1>3, <1>4, <1>5, <1>6 DEF counters

\* A count that changes nothing in the rollout.
LEMMA NoChangeKeeps ==
  ASSUME RolloutInv, NEW w \in WorkflowIds, NEW m, CountsUp(w, m),
         UNCHANGED <<rollout, changelog>>
  PROVE  RolloutInv'
<1>1. /\ UNCHANGED <<assignment, newestOf, votes, releaseSet, resumed>>
      /\ \A v \in Variants : m[v].exposures >= metrics[w][v].exposures
      /\ changelog[w] = <<>> => m["B"].exposures = 0
  BY DEF CountsUp
<1>2. TypeOK'
  BY CountFacts, <1>1 DEF RolloutInv, TypeOK
<1>3. (ChangelogTellsPhase /\ OneCanary /\ FullWasApproved)'
  BY <1>1 DEF RolloutInv, ChangelogTellsPhase, OneCanary, FullWasApproved
<1>4. CandidateNeedsCanary'
  BY CountFacts, <1>1 DEF RolloutInv, CandidateNeedsCanary
<1>5. Judged'
  <2>1. \A u \in WorkflowIds, v \in Variants :
          /\ metrics'[u][v].exposures \in Nat /\ metrics[u][v].exposures \in Nat
          /\ metrics'[u][v].exposures >= metrics[u][v].exposures
    <3> TAKE u \in WorkflowIds, v \in Variants
    <3>1. metrics'[u][v].exposures \in Nat /\ metrics[u][v].exposures \in Nat
      BY CountFacts
    <3>2. metrics'[u] = metrics[u] \/ (u = w /\ metrics'[u] = m)
      BY CountFacts
    <3> QED
      BY <1>1, <3>1, <3>2
  <2> QED
    BY RolloutAssumption, <2>1 DEF RolloutInv, Judged, Variants
<1>6. (ReadsLate /\ NewestAssigned)'
  BY <1>1, CountFacts DEF RolloutInv, ReadsLate, NewestAssigned
<1> QED
  BY <1>2, <1>3, <1>4, <1>5, <1>6 DEF RolloutInv

\* A change of the rollout that the changelog records: the first one is the advance,
\* and what it leaves satisfies the judged and the approved parts of the invariant.
LEMMA ChangeKeeps ==
  ASSUME RolloutInv, NEW w \in WorkflowIds, NEW m, CountsUp(w, m),
         NEW change \in Changes, NEW ro, Log(w, change),
         rollout' = [rollout EXCEPT ![w] = ro],
         ro \in [phase : Phases, default : Variants,
                 active : Releases \cup {None}, stable : Releases \cup {None}],
         ro.phase = CASE change = "phase_advance" -> "canary"
                      [] change = "promotion" -> "full"
                      [] change = "auto_rollback" -> "shadow",
         ro.default = "B" <=> ro.phase = "full",
         change = "phase_advance" <=> changelog[w] = <<>>,
         m["A"].exposures > 0,
         ro.phase = "shadow" => m["B"].exposures >= JudgeAfter,
         ro.phase = "full" => \E l \in Releases : votes[w][l]["approved"] >= ApprovalsNeeded
  PROVE  RolloutInv'
<1>1. UNCHANGED <<assignment, newestOf, votes, releaseSet, resumed>>
  BY DEF CountsUp
<1>2. /\ \A u \in WorkflowIds \ {w} : rollout'[u] = rollout[u]
      /\ rollout'[w] = ro
  BY DEF RolloutInv, TypeOK
<1>3. TypeOK
  BY DEF RolloutInv
<1>4. TypeOK'
  BY CountFacts, LogFacts, <1>1, <1>3 DEF TypeOK
<1>5. ChangelogTellsPhase'
  <2>1. ASSUME NEW u \in WorkflowIds \ {w}
        PROVE  /\ rollout'[u] = rollout[u] /\ changelog'[u] = changelog[u]
    BY <1>2, <1>3, LogFacts
  <2>2. /\ changelog'[w] # <<>>
        /\ changelog'[w][Len(changelog'[w])] = change
    BY <1>3, LogFacts
  <2> DEFINE Tells(phase, default, last) ==
        /\ phase = CASE last = "phase_advance" -> "canary"
                     [] last = "promotion" -> "full"
                     [] last \in {"auto_rollback", "none"} -> "shadow"
        /\ default = "B" <=> phase = "full"
      Last(log) == IF log = <<>> THEN "none" ELSE log[Len(log)]
  <2>3. Tells(ro.phase, ro.default, change)
    BY DEF Changes
  <2>4. \A u \in WorkflowIds : Tells(rollout[u].phase, rollout[u].default, Last(changelog[u]))
    BY DEF RolloutInv, ChangelogTellsPhase
  <2>5. Last(changelog'[w]) = change
    BY <2>2
  <2>6. ASSUME NEW u \in WorkflowIds
        PROVE  Tells(rollout'[u].phase, rollout'[u].default, Last(changelog'[u]))
    <3> HIDE DEF Tells
    <3> QED
      BY <1>2, <2>1, <2>3, <2>4, <2>5
  <2> QED
    BY <2>6 DEF ChangelogTellsPhase
<1>6. OneCanary'
  <2>1. ASSUME NEW u \in WorkflowIds \ {w}, NEW i \in 1..Len(changelog'[u])
        PROVE  changelog'[u][i] = "phase_advance" <=> i = 1
    BY <1>3, LogFacts DEF RolloutInv, OneCanary
  <2>2. ASSUME NEW i \in 1..Len(changelog'[w])
        PROVE  changelog'[w][i] = "phase_advance" <=> i = 1
    <3>1. Len(changelog[w]) \in Nat /\ (changelog[w] = <<>> <=> Len(changelog[w]) = 0)
      BY <1>3, LogFacts
    <3>2. CASE i \in 1..Len(changelog[w])
      BY <1>3, LogFacts, <3>1, <3>2 DEF RolloutInv, OneCanary
    <3>3. CASE i = Len(changelog[w]) + 1
      BY <1>3, LogFacts, <3>1, <3>3
    <3> QED
      BY <1>3, LogFacts, <3>1, <3>2, <3>3
  <2> QED
    BY <2>1, <2>2 DEF OneCanary
<1>7. CandidateNeedsCanary'
  <2>1. changelog'[w] # <<>>
    BY <1>3, LogFacts
  <2>2. ASSUME NEW u \in WorkflowIds \ {w}
        PROVE  changelog'[u] = changelog[u] /\ metrics'[u] = metrics[u]
    BY <1>3, LogFacts, CountFacts
  <2> QED
    BY <1>1, <2>1, <2>2 DEF RolloutInv, CandidateNeedsCanary
<1>8. FullWasApproved'
  BY <1>1, <1>2 DEF RolloutInv, FullWasApproved
<1>9. Judged'
  <2>1. ASSUME NEW u \in WorkflowIds \ {w}
        PROVE  /\ rollout'[u] = rollout[u] /\ changelog'[u] = changelog[u]
               /\ metrics'[u] = metrics[u]
    BY <1>2, <1>3, LogFacts, CountFacts
  <2>2. metrics'[w] = m
    BY CountFacts
  <2> QED
    BY <1>2, <2>1, <2>2 DEF RolloutInv, Judged
<1>10. ReadsLate'
  <2>1. \A u \in WorkflowIds : changelog[u] # <<>> => changelog'[u] # <<>>
    BY <1>3, LogFacts
  <2>2. \A t \in Threads : reading[t] # Idle => reading[t].workflow \in WorkflowIds
    BY <1>3 DEF TypeOK
  <2> QED
    BY <2>1, <2>2, CountFacts DEF RolloutInv, ReadsLate
<1>11. NewestAssigned'
  BY <1>1 DEF RolloutInv, NewestAssigned
<1> QED
  BY <1>4, <1>5, <1>6, <1>7, <1>8, <1>9, <1>10, <1>11 DEF RolloutInv

\* Counting an outcome or a rejection, for the assignment that was read.
LEMMA CountForCounts ==
  ASSUME RolloutInv, NEW t \in Threads, NEW outcome \in [Metrics -> {0, 1}],
         reading[t].method \in Methods, CountFor(t, outcome)
  PROVE  \E w \in WorkflowIds : \E m : CountsUp(w, m) /\ EvaluateRolloutHealth(w, m)
<1> DEFINE w == reading[t].workflow
           v == reading[t].variant
           m == Counted(metrics[w], v, outcome)
           counters == [Metrics \cup {"exposures"} -> Nat]
<1>1. w \in WorkflowIds /\ v \in Variants /\ (v = "B" => changelog[w] # <<>>)
  BY Reading
<1>2. metrics[w] \in [Variants -> counters] /\ metrics[w][v] \in counters
  BY <1>1 DEF RolloutInv, TypeOK
<1>3. changelog[w] = <<>> => metrics[w]["B"].exposures = 0
  BY <1>1 DEF RolloutInv, CandidateNeedsCanary
<1>4. /\ metrics' = [metrics EXCEPT ![w] = m]
      /\ EvaluateRolloutHealth(w, m)
      /\ reading' = [reading EXCEPT ![t] = Idle]
      /\ UNCHANGED <<assignment, newestOf, votes, releaseSet, resumed>>
  BY DEF CountFor
<1> DEFINE n == [k \in DOMAIN metrics[w][v] |->
                   IF k = "exposures" THEN metrics[w][v][k] + 1
                   ELSE metrics[w][v][k] + outcome[k]]
<1>5. m = [metrics[w] EXCEPT ![v] = n]
  BY DEF Counted
<1>6. n \in counters /\ n.exposures >= metrics[w][v].exposures
  <2>1. DOMAIN metrics[w][v] = Metrics \cup {"exposures"}
    BY <1>2
  <2>2. \A k \in Metrics \cup {"exposures"} : metrics[w][v][k] \in Nat
    BY <1>2
  <2>3. \A k \in Metrics : outcome[k] \in Nat
    OBVIOUS
  <2>4. \A k \in Metrics \cup {"exposures"} : n[k] \in Nat
    BY <2>1, <2>2, <2>3
  <2>5. n \in counters
    BY <2>1, <2>4
  <2>6. n["exposures"] = metrics[w][v]["exposures"] + 1
    BY <2>1
  <2>7. metrics[w][v].exposures \in Nat
    BY <2>2
  <2> HIDE DEF n, m, w, v, counters
  <2> QED
    BY <2>5, <2>6, <2>7
<1> HIDE DEF n, m, w, v
<1>7. m \in [Variants -> counters]
  BY <1>2, <1>5, <1>6
<1>8. \A x \in Variants : metrics[w][x].exposures \in Nat
  BY <1>2
<1>9. \A x \in Variants : m[x].exposures >= metrics[w][x].exposures
  BY <1>1, <1>2, <1>5, <1>6, <1>8
<1>10. changelog[w] = <<>> => m["B"].exposures = 0
  BY <1>1, <1>2, <1>3, <1>5 DEF Variants
<1>11. CountsUp(w, m)
  BY <1>4, <1>7, <1>9, <1>10 DEF CountsUp
<1> QED
  BY <1>1, <1>4, <1>11

\* Whatever the evaluation decides keeps the invariant.
LEMMA EvaluationKeeps ==
  ASSUME RolloutInv, NEW w \in WorkflowIds, NEW m, CountsUp(w, m),
         EvaluateRolloutHealth(w, m)
  PROVE  RolloutInv'
<1> DEFINE ro == rollout[w]
           Rollouts == [phase : Phases, default : Variants,
                        active : Releases \cup {None}, stable : Releases \cup {None}]
<1>1. ro \in Rollouts /\ JudgeAfter \in Nat \ {0} /\ CanaryAfter \in Nat \ {0}
  BY RolloutAssumption DEF RolloutInv, TypeOK
<1>2. \A v \in Variants : m[v].exposures \in Nat
  BY CountFacts
<1>3. \A v \in Variants : m[v].exposures >= metrics[w][v].exposures /\ metrics[w][v].exposures \in Nat
  BY CountFacts DEF CountsUp
<1>4. changelog[w] = <<>> => TooFew(m)
  BY <1>1 DEF CountsUp, TooFew
<1>5. ro.phase = "shadow" /\ changelog[w] # <<>> => ~TooFew(m)
  BY <1>1, <1>2, <1>3 DEF RolloutInv, Judged, TooFew, Variants
<1>6. ~TooFew(m) => m["A"].exposures > 0 /\ m["B"].exposures >= JudgeAfter
  BY <1>1, <1>2 DEF TooFew, Variants
<1>7. CASE /\ Advances(w, m)
           /\ rollout' = [rollout EXCEPT ![w].phase = "canary"]
           /\ Log(w, "phase_advance")
  <2>1. rollout' = [rollout EXCEPT ![w] = [ro EXCEPT !.phase = "canary"]]
    BY <1>1, <1>7 DEF RolloutInv, TypeOK
  <2>2. changelog[w] = <<>> /\ m["A"].exposures > 0 /\ ro.phase = "shadow"
    BY <1>1, <1>2, <1>5, <1>7 DEF Advances, Variants
  <2>3. ro.default # "B"
    BY <2>2 DEF RolloutInv, ChangelogTellsPhase
  <2> DEFINE new == [ro EXCEPT !.phase = "canary"]
  <2>4. new \in Rollouts /\ new.phase = "canary" /\ new.default # "B"
    BY <1>1, <2>3 DEF Phases
  <2> HIDE DEF new
  <2> QED
    BY <1>7, <2>1, <2>2, <2>4, ChangeKeeps DEF Changes, new
<1>8. ASSUME NEW up \in BOOLEAN, RollsBack(w, m, up),
             rollout' = [rollout EXCEPT ![w] = RolledBack(@)], Log(w, "auto_rollback")
      PROVE  RolloutInv'
  <2> DEFINE new == RolledBack(ro)
  <2>1. rollout' = [rollout EXCEPT ![w] = new]
    BY <1>8
  <2>2. ~TooFew(m) /\ changelog[w] # <<>>
    BY <1>4, <1>8 DEF RollsBack
  <2>3. new \in Rollouts /\ new.phase = "shadow" /\ new.default # "B"
    BY <1>1 DEF RolledBack, Phases, Variants
  <2> HIDE DEF new
  <2> QED
    BY <1>6, <1>8, <2>1, <2>2, <2>3, ChangeKeeps DEF Changes
<1>9. CASE /\ Promotes(w, m)
           /\ rollout' = [rollout EXCEPT ![w].phase = "full", ![w].default = "B"]
           /\ Log(w, "promotion")
  <2> DEFINE new == [ro EXCEPT !.phase = "full", !.default = "B"]
  <2>1. rollout' = [rollout EXCEPT ![w] = new]
    BY <1>1, <1>9 DEF RolloutInv, TypeOK
  <2>2. ~TooFew(m) /\ changelog[w] # <<>>
    BY <1>4, <1>9 DEF Promotes
  <2>3. \E l \in Releases : votes[w][l]["approved"] >= ApprovalsNeeded
    BY <1>1, <1>9 DEF Promotes
  <2>4. new \in Rollouts /\ new.phase = "full" /\ new.default = "B"
    BY <1>1 DEF Phases, Variants
  <2> HIDE DEF new
  <2> QED
    BY <1>6, <1>9, <2>1, <2>2, <2>3, <2>4, ChangeKeeps DEF Changes
<1>10. CASE UNCHANGED <<rollout, changelog>>
  BY <1>10, NoChangeKeeps
<1> QED
  BY <1>7, <1>8, <1>9, <1>10 DEF EvaluateRolloutHealth

\* Releases and votes: an active release changes neither phase nor default, and a
\* vote is never withdrawn.
LEMMA ReleaseKeeps ==
  ASSUME RolloutInv, NEW w \in WorkflowIds, NEW l \in Releases,
         NEW status \in ReleaseInputs, RegisterPromptRelease(w, l, status)
  PROVE  RolloutInv'
<1>1. UNCHANGED <<metrics, assignment, newestOf, changelog, votes, resumed, reading>>
  BY DEF RegisterPromptRelease
<1>2. /\ rollout' \in [WorkflowIds -> [phase : Phases, default : Variants,
                                       active : Releases \cup {None},
                                       stable : Releases \cup {None}]]
      /\ \A u \in WorkflowIds : /\ rollout'[u].phase = rollout[u].phase
                                /\ rollout'[u].default = rollout[u].default
  <2> DEFINE Rollouts == [phase : Phases, default : Variants,
                          active : Releases \cup {None}, stable : Releases \cup {None}]
             new == Activated(rollout[w], l)
  <2>1. rollout \in [WorkflowIds -> Rollouts]
    BY DEF RolloutInv, TypeOK
  <2>2. new \in Rollouts /\ new.phase = rollout[w].phase /\ new.default = rollout[w].default
    BY <2>1 DEF Activated
  <2>3. rollout' = rollout \/ rollout' = [rollout EXCEPT ![w] = new]
    BY DEF RegisterPromptRelease
  <2> HIDE DEF new
  <2> QED
    BY <2>1, <2>2, <2>3
<1>3. releaseSet' \in [Releases -> {"none", "draft", "active", "deprecated"}]
  BY RolloutAssumption DEF RolloutInv, TypeOK, RegisterPromptRelease
<1>4. TypeOK'
  BY <1>1, <1>2, <1>3 DEF RolloutInv, TypeOK
<1>5. ChangelogTellsPhase'
  BY <1>1, <1>2 DEF RolloutInv, ChangelogTellsPhase
<1>6. (OneCanary /\ CandidateNeedsCanary /\ FullWasApproved /\ Judged)'
  BY <1>1, <1>2 DEF RolloutInv, OneCanary, CandidateNeedsCanary, FullWasApproved, Judged
<1>7. (ReadsLate /\ NewestAssigned)'
  BY <1>1 DEF RolloutInv, ReadsLate, NewestAssigned
<1> QED
  BY <1>4, <1>5, <1>6, <1>7 DEF RolloutInv

\* A vote only adds to the votes (prompt_diagnostics_repo.py:595-615).
LEMMA VoteKeeps ==
  ASSUME RolloutInv, NEW w \in WorkflowIds, NEW l \in Releases,
         NEW decision \in {"approved", "rejected"},
         RecordPromotionApproval(w, l, decision)
  PROVE  RolloutInv'
<1>1. UNCHANGED <<rollout, metrics, assignment, newestOf, changelog, releaseSet,
                  resumed, reading>>
  BY DEF RecordPromotionApproval
<1> DEFINE tally == [{"approved", "rejected"} -> Nat]
           now == [votes[w][l] EXCEPT ![decision] = @ + 1]
<1>2. votes \in [WorkflowIds -> [Releases -> tally]]
  BY DEF RolloutInv, TypeOK
<1>3. now \in tally /\ now["approved"] >= votes[w][l]["approved"]
  BY <1>2
<1>4. votes' = [votes EXCEPT ![w][l] = now]
  BY <1>2 DEF RecordPromotionApproval
<1> HIDE DEF now
<1>5. votes' \in [WorkflowIds -> [Releases -> tally]]
  BY <1>2, <1>3, <1>4
<1>6. \A u \in WorkflowIds, x \in Releases :
        /\ votes[u][x]["approved"] \in Nat /\ votes'[u][x]["approved"] \in Nat
        /\ votes'[u][x]["approved"] >= votes[u][x]["approved"]
  BY <1>2, <1>3, <1>4, <1>5
<1>7. TypeOK'
  BY <1>1, <1>5 DEF RolloutInv, TypeOK
<1>8. FullWasApproved'
  BY RolloutAssumption, <1>1, <1>6 DEF RolloutInv, FullWasApproved
<1>9. (ChangelogTellsPhase /\ OneCanary /\ CandidateNeedsCanary /\ Judged)'
  BY <1>1 DEF RolloutInv, ChangelogTellsPhase, OneCanary, CandidateNeedsCanary, Judged
<1>10. (ReadsLate /\ NewestAssigned)'
  BY <1>1 DEF RolloutInv, ReadsLate, NewestAssigned
<1> QED
  BY <1>7, <1>8, <1>9, <1>10 DEF RolloutInv

\* A step in which no table of the experiments changes.
LEMMA QuietKeeps ==
  ASSUME RolloutInv, resumed' \subseteq Runs,
         UNCHANGED <<rollout, metrics, assignment, newestOf, changelog, votes,
                     releaseSet, reading>>
  PROVE  RolloutInv'
<1>1. TypeOK'
  BY DEF RolloutInv, TypeOK
<1>2. (ChangelogTellsPhase /\ OneCanary /\ CandidateNeedsCanary /\ FullWasApproved)'
  BY DEF RolloutInv, ChangelogTellsPhase, OneCanary, CandidateNeedsCanary, FullWasApproved
<1>3. (Judged /\ ReadsLate /\ NewestAssigned)'
  BY DEF RolloutInv, Judged, ReadsLate, NewestAssigned
<1> QED
  BY <1>1, <1>2, <1>3 DEF RolloutInv

\* The invariant is inductive.
LEMMA NextRolloutInv == RolloutInv /\ [Next]_vars => RolloutInv'
<1> SUFFICES ASSUME RolloutInv, [Next]_vars PROVE RolloutInv'
  OBVIOUS
<1>1. ASSUME NEW t \in Threads, WriteAssignment(t) PROVE RolloutInv'
  BY <1>1, WriteKeeps
<1>2. ASSUME NEW t \in Threads, NEW r \in Runs, ReadRollout(t, r) PROVE RolloutInv'
  BY <1>2, ReadKeeps
<1>3. ASSUME NEW r \in Runs, ResumeRun(r) PROVE RolloutInv'
  BY <1>3, QuietKeeps DEF ResumeRun, RolloutInv, TypeOK
<1>4. ASSUME NEW t \in Threads, NEW outcome \in [Metrics -> {0, 1}],
             reading[t].method \in Methods, CountFor(t, outcome)
      PROVE  RolloutInv'
  BY <1>4, CountForCounts, EvaluationKeeps
<1>5. ASSUME NEW t \in Threads, RecordRejection(t) PROVE RolloutInv'
  <2>1. [k \in Metrics |-> IF k = "rejections" THEN 1 ELSE 0] \in [Metrics -> {0, 1}]
    OBVIOUS
  <2> QED
    BY <1>4, <1>5, <2>1 DEF RecordRejection, Methods
<1>6. ASSUME NEW t \in Threads, NEW outcome \in Outcomes, RecordOutcomeMetrics(t, outcome)
      PROVE  RolloutInv'
  <2>1. [k \in Metrics |-> IF k = "rejections" THEN 0 ELSE outcome[k]] \in [Metrics -> {0, 1}]
    BY RolloutAssumption
  <2> QED
    BY <1>4, <1>6, <2>1 DEF RecordOutcomeMetrics, Methods
<1>7. ASSUME NEW w \in WorkflowIds, NEW l \in Releases, NEW status \in ReleaseInputs,
             RegisterPromptRelease(w, l, status)
      PROVE  RolloutInv'
  BY <1>7, ReleaseKeeps
<1>8. ASSUME NEW w \in WorkflowIds, NEW l \in Releases,
             NEW decision \in {"approved", "rejected"},
             RecordPromotionApproval(w, l, decision)
      PROVE  RolloutInv'
  BY <1>8, VoteKeeps
<1>9. ASSUME NEW t \in Threads, NEW r \in Runs, NEW method \in {"outcome", "rejection"},
             ReadAssignment(t, r, method)
      PROVE  RolloutInv'
  BY <1>9, ReadAssignmentKeeps
<1>10. CASE UNCHANGED vars
  BY <1>10, QuietKeeps DEF vars, RolloutInv, TypeOK
<1> QED
  BY <1>1, <1>2, <1>3, <1>5, <1>6, <1>7, <1>8, <1>9, <1>10 DEF Next

\* In every reachable state of the experiments the tables are typed, the changelog
\* tells the phase, there was at most one canary phase, the candidate was shown only
\* after it began, and a candidate that is everybody's default was approved.
THEOREM RolloutCorrect ==
  Spec => [](TypeOK /\ ChangelogTellsPhase /\ OneCanary /\ CandidateNeedsCanary
             /\ FullWasApproved)
<1>1. RolloutInv => TypeOK /\ ChangelogTellsPhase /\ OneCanary /\ CandidateNeedsCanary
                    /\ FullWasApproved
  BY DEF RolloutInv
<1> QED
  BY InitRolloutInv, NextRolloutInv, <1>1, PTL DEF Spec

\* In particular the tables, assignments and what threads have read keep their types,
\* for all thresholds, workflows, runs and threads.
THEOREM TypeCorrect == Spec => []TypeOK
<1>1. RolloutInv => TypeOK
  BY DEF RolloutInv
<1> QED
  BY InitRolloutInv, NextRolloutInv, <1>1, PTL DEF Spec

(***************************************************************************)
(* Rates.                                                                  *)
(***************************************************************************)
\* The counters of one variant, as RatesAreFractions wants them.
Fractions(n) == \A k \in Metrics \ {"rejections"} : n[k] + n["rejections"] <= n["exposures"]

\* A render adds an exposure; a count adds an exposure with one success or rejection.
LEMMA CountKeepsRates ==
  ASSUME RolloutInv, RatesAreFractions, NEW t \in Threads,
         NEW outcome \in [Metrics -> {0, 1}],
         \A k \in Metrics \ {"rejections"} : outcome[k] + outcome["rejections"] <= 1,
         reading[t].method \in Methods, CountFor(t, outcome)
  PROVE  RatesAreFractions'
<1> DEFINE w == reading[t].workflow
           v == reading[t].variant
           counters == [Metrics \cup {"exposures"} -> Nat]
           n == metrics[w][v]
           now == [k \in DOMAIN n |-> IF k = "exposures" THEN n[k] + 1
                                      ELSE n[k] + outcome[k]]
<1>1. w \in WorkflowIds /\ v \in Variants
  BY Reading
<1>2. metrics \in [WorkflowIds -> [Variants -> counters]]
  BY DEF RolloutInv, TypeOK
<1>3. metrics' = [metrics EXCEPT ![w] = [metrics[w] EXCEPT ![v] = now]]
  BY DEF CountFor, Counted
<1>4. n \in counters /\ Fractions(n)
  BY <1>1, <1>2 DEF RatesAreFractions, Fractions
<1>5. Fractions(now)
  <2> SUFFICES ASSUME NEW k \in Metrics \ {"rejections"}
               PROVE  now[k] + now["rejections"] <= now["exposures"]
    BY DEF Fractions
  <2>1. /\ k \in Metrics \cup {"exposures"} /\ k # "exposures" /\ "rejections" \in Metrics
        /\ n[k] \in Nat /\ n["rejections"] \in Nat /\ n["exposures"] \in Nat
        /\ outcome[k] \in Nat /\ outcome["rejections"] \in Nat
    BY <1>4 DEF Metrics
  <2>2. n[k] + n["rejections"] <= n["exposures"] /\ outcome[k] + outcome["rejections"] <= 1
    BY <1>4 DEF Fractions
  <2>3. /\ now[k] = n[k] + outcome[k]
        /\ now["rejections"] = n["rejections"] + outcome["rejections"]
        /\ now["exposures"] = n["exposures"] + 1
    BY <1>4, <2>1
  <2> HIDE DEF now, n
  <2> QED
    BY <2>1, <2>2, <2>3
<1> HIDE DEF now, w, v
<1>6. \A u \in WorkflowIds, x \in Variants :
        metrics'[u][x] = IF u = w /\ x = v THEN now ELSE metrics[u][x]
  BY <1>1, <1>2, <1>3
<1> QED
  BY <1>5, <1>6 DEF RatesAreFractions, Fractions

\* Renders add an exposure, outcomes and rejections an exposure with at most one
\* of a reply and a rejection; nothing else touches the counters.
LEMMA NextKeepsRates ==
  RolloutInv /\ RatesAreFractions /\ [Next]_vars => RatesAreFractions'
<1> SUFFICES ASSUME RolloutInv, RatesAreFractions, [Next]_vars
             PROVE  RatesAreFractions'
  OBVIOUS
<1>1. ASSUME NEW t \in Threads, WriteAssignment(t) PROVE RatesAreFractions'
  <2> DEFINE w == reading[t].workflow
             v == reading[t].variant
             counters == [Metrics \cup {"exposures"} -> Nat]
             n == metrics[w][v]
             now == [n EXCEPT !["exposures"] = @ + 1]
  <2>1. w \in WorkflowIds /\ v \in Variants
    BY <1>1, Reading DEF WriteAssignment, Methods
  <2>2. metrics \in [WorkflowIds -> [Variants -> counters]]
    BY DEF RolloutInv, TypeOK
  <2>3. metrics' = [metrics EXCEPT ![w][v] = now]
    BY <1>1, <2>1, <2>2 DEF WriteAssignment
  <2>4. n \in counters /\ Fractions(n)
    BY <2>1, <2>2 DEF RatesAreFractions, Fractions
  <2>5. Fractions(now)
    BY <2>4 DEF Fractions, Metrics
  <2> HIDE DEF now, w, v
  <2>6. \A u \in WorkflowIds, x \in Variants :
          metrics'[u][x] = IF u = w /\ x = v THEN now ELSE metrics[u][x]
    BY <2>1, <2>2, <2>3
  <2> QED
    BY <2>5, <2>6 DEF RatesAreFractions, Fractions
<1>2. ASSUME NEW t \in Threads, RecordRejection(t) PROVE RatesAreFractions'
  <2> DEFINE outcome == [k \in Metrics |-> IF k = "rejections" THEN 1 ELSE 0]
  <2>1. outcome \in [Metrics -> {0, 1}]
    OBVIOUS
  <2>2. \A k \in Metrics \ {"rejections"} : outcome[k] + outcome["rejections"] <= 1
    BY DEF Metrics
  <2> QED
    BY <1>2, <2>1, <2>2, CountKeepsRates DEF RecordRejection, Methods
<1>3. ASSUME NEW t \in Threads, NEW reported \in Outcomes, RecordOutcomeMetrics(t, reported)
      PROVE  RatesAreFractions'
  <2> DEFINE outcome == [k \in Metrics |-> IF k = "rejections" THEN 0 ELSE reported[k]]
  <2>1. outcome \in [Metrics -> {0, 1}]
    BY RolloutAssumption
  <2>2. \A k \in Metrics \ {"rejections"} : outcome[k] + outcome["rejections"] <= 1
    BY <2>1 DEF Metrics
  <2> QED
    BY <1>3, <2>1, <2>2, CountKeepsRates DEF RecordOutcomeMetrics, Methods
<1>4. CASE UNCHANGED metrics
  BY <1>4 DEF RatesAreFractions
<1> QED
  BY <1>1, <1>2, <1>3, <1>4
     DEF Next, vars, ReadRollout, ReadAssignment, ResumeRun, RegisterPromptRelease, RecordPromotionApproval

\* The rates of every variant are fractions, and no exposure is counted both as a
\* success and as a rejection.
THEOREM RatesCorrect == Spec => []RatesAreFractions
<1>1. Init => RatesAreFractions
  BY DEF Init, RatesAreFractions, Metrics
<1> QED
  BY InitRolloutInv, NextRolloutInv, NextKeepsRates, <1>1, PTL DEF Spec

=============================================================================
