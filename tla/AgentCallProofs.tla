-------------------------- MODULE AgentCallProofs --------------------------
(***************************************************************************)
(* Proofs about AgentCall, for every number of threads, statuses, retries  *)
(* and templates: the type invariant; that each step's calls implement     *)
(* ModelAnswer; that the row which tells of a finished step tells of its   *)
(* own call; what a step may cost; and that what the rows show is counted. *)
(***************************************************************************)
EXTENDS AgentCall, SequenceTheorems, FiniteSetTheorems, TLAPS

\* What a thread's step and its call know of each other.
Aligned(t) ==
  /\ job[t].phase \in {"idle", "rendering", "checking", "unrendered", "asking", "failed"}
       => client[t].phase = "idle"
  /\ job[t].phase \in {"converting", "returned"} => client[t].phase = "answered"
  /\ job[t].phase = "raised" => client[t].phase \in {"idle", "answered"}
  /\ client[t].phase = "sending" => client[t].attempt \in 1 .. settings.requests
  /\ client[t].phase = "waiting" => client[t].attempt \in 1 .. settings.requests - 1
  /\ client[t].phase = "answered" => client[t].output \in {"model", "rules"}

CallsAligned == \A t \in Threads : Aligned(t)

-----------------------------------------------------------------------------
\* Type correctness.
THEOREM InitTyped == Init => TypeOK
  BY DEF Init, TypeOK, ClientInit, NoCall, NoJob, Calls, Jobs, Phases, JobPhases, Settings

LEMMA RulesTyped ==
  ASSUME NEW reason \in Reasons
  PROVE  Rules(reason) \in Calls
  BY DEF Rules, NoCall, Calls, Phases

\* What a call may be resolved to.
LEMMA ResolutionTyped ==
  ASSUME NEW r \in Replies
  PROVE  Resolution(r) \in Calls
<1>1. CASE Valid(r)
  BY <1>1 DEF Resolution, Valid, Model, Rules, NoCall, Calls, Phases, Reasons
<1>2. CASE ~Valid(r)
  BY <1>2, RulesTyped DEF Resolution, Reasons
<1> QED
  BY <1>1, <1>2

\* The two ways a thread moves: its step, and its call.
LEMMA JobTyped ==
  ASSUME TypeOK, NEW t \in Threads, NEW j \in Jobs, Becomes(t, j)
  PROVE  job' \in [Threads -> Jobs]
  BY DEF TypeOK, Becomes

LEMMA JobFieldsTyped ==
  ASSUME NEW j \in Jobs, NEW phase \in JobPhases, NEW e \in Errors \cup {None},
         NEW f \in {0, 1}, NEW m \in Nat, NEW n \in Nat
  PROVE  /\ [j EXCEPT !.phase = phase, !.fallback = f] \in Jobs
         /\ [j EXCEPT !.phase = phase, !.row = n] \in Jobs
         /\ [j EXCEPT !.phase = phase, !.asked = n] \in Jobs
         /\ [j EXCEPT !.phase = phase, !.error = e, !.fallback = f, !.row = m,
                      !.tries = n] \in Jobs
  BY DEF Jobs

LEMMA ClientTyped ==
  ASSUME TypeOK, NEW t \in Threads, NEW c \in Calls, client' = [client EXCEPT ![t] = c]
  PROVE  client' \in [Threads -> Calls]
  BY DEF TypeOK

LEMMA GotoTyped ==
  ASSUME TypeOK, NEW t \in Threads, NEW phase \in JobPhases, Goto(t, phase)
  PROVE  job' \in [Threads -> Jobs]
  BY DEF TypeOK, Goto, Becomes, Jobs

LEMMA RequestsTyped ==
  ASSUME TypeOK, NEW t \in Threads, Requests(t)
  PROVE  job' \in [Threads -> Jobs]
<1>1. job[t] \in Jobs
  BY DEF TypeOK
<1>2. job[t].asked + 1 \in Nat
  BY <1>1 DEF Jobs
<1>3. "calling" \in JobPhases
  BY DEF JobPhases
<1>4. [job[t] EXCEPT !.phase = "calling", !.asked = job[t].asked + 1] \in Jobs
  BY <1>1, <1>2, <1>3, JobFieldsTyped
<1> QED
  BY <1>4, JobTyped DEF Requests

LEMMA FailsTyped ==
  ASSUME TypeOK, NEW t \in Threads, NEW phase \in JobPhases,
         NEW e \in Errors \cup {None}, Fails(t, phase, e)
  PROVE  job' \in [Threads -> Jobs]
  BY DEF TypeOK, Fails, Becomes, Jobs

LEMMA CountTyped ==
  ASSUME TypeOK, NEW c \in Counters, Count(c)
  PROVE  counters' \in [Counters -> Nat]
  BY DEF TypeOK, Count

LEMMA RowTyped ==
  ASSUME TypeOK, NEW t \in Threads, NEW e \in Errors \cup {None}
  PROVE  Row(t, e) \in Rows
  BY DEF TypeOK, Row, Rows, Jobs, NoMetadata, Metadata

LEMMA MergedTyped ==
  ASSUME TypeOK, NEW t \in Threads, NEW m \in Metadata
  PROVE  Merged(MetadataOf(client[t]), m) \in Metadata
  BY DEF TypeOK, Merged, MetadataOf, Metadata, Coalesce, Calls

LEMMA StepTyped ==
  ASSUME TypeOK, NEW t \in Threads, Begin(t) \/ Work(t), UNCHANGED settings
  PROVE  TypeOK'
<1> USE DEF JobPhases, Errors
<1> SUFFICES /\ job' \in [Threads -> Jobs]
             /\ client' \in [Threads -> Calls]
             /\ promptRuns' \in Seq(Rows)
             /\ counters' \in [Counters -> Nat]
  BY DEF TypeOK
<1>0. /\ job \in [Threads -> Jobs]
      /\ client \in [Threads -> Calls]
      /\ promptRuns \in Seq(Rows)
      /\ counters \in [Counters -> Nat]
  BY DEF TypeOK
<1>1. CASE Begin(t)
  BY <1>0, <1>1, GotoTyped DEF Begin
<1>2. ASSUME NEW template \in Templates, ResolvePath(t, template)
      PROVE  TypeOK'
  <2>1. counters' \in [Counters -> Nat]
    BY <1>0, <1>2, CountTyped DEF ResolvePath, Counters
  <2>2. job' \in [Threads -> Jobs]
    <3>1. CASE template = "workflow"
      BY <1>2, <3>1, GotoTyped DEF ResolvePath
    <3>2. CASE template = "missing"
      BY <1>2, <3>2, FailsTyped DEF ResolvePath
    <3>3. CASE template \notin {"workflow", "missing"}
      <4> DEFINE f == IF template = "common" THEN 1 ELSE 0
      <4>1. f \in {0, 1}
        OBVIOUS
      <4>2. Becomes(t, [job[t] EXCEPT !.phase = "checking", !.fallback = f])
        BY <1>2, <3>3 DEF ResolvePath
      <4> HIDE DEF f
      <4>3. [job[t] EXCEPT !.phase = "checking", !.fallback = f] \in Jobs
        BY <1>0, <4>1, JobFieldsTyped
      <4> QED
        BY <4>2, <4>3, JobTyped
    <3> QED
      BY <3>1, <3>2, <3>3
  <2> QED
    BY <1>2, <2>1, <2>2 DEF ResolvePath, TypeOK
<1>3. ASSUME NEW defect \in Defects, Reject(t, defect)
      PROVE  TypeOK'
  <2>1. counters' \in [Counters -> Nat]
    BY <1>0, <1>3, CountTyped DEF Reject, Counters
  <2>2. job' \in [Threads -> Jobs]
    BY <1>3, FailsTyped DEF Reject, DefectError
  <2> QED
    BY <1>0, <1>3, <2>1, <2>2 DEF Reject, TypeOK
<1>4. CASE LogRendered(t)
  <2>1. promptRuns' \in Seq(Rows)
    BY <1>0, <1>4, RowTyped DEF LogRendered
  <2>2. job' \in [Threads -> Jobs]
    <3>1. Len(promptRuns) + 1 \in Nat
      BY <1>0
    <3>2. [job[t] EXCEPT !.phase = "asking", !.row = Len(promptRuns) + 1] \in Jobs
      BY <1>0, <3>1, JobFieldsTyped
    <3> QED
      BY <1>4, <3>2, JobTyped DEF LogRendered
  <2> QED
    BY <1>0, <1>4, <2>1, <2>2 DEF LogRendered
<1>5. CASE LogUnrendered(t)
  <2>1. job[t].error \in Errors \cup {None}
    BY <1>0 DEF Jobs
  <2>2. promptRuns' \in Seq(Rows)
    BY <1>0, <1>5, <2>1, RowTyped DEF LogUnrendered
  <2> QED
    BY <1>0, <1>5, <2>2, GotoTyped DEF LogUnrendered
<1>6. CASE Ask(t)
  <2>1. client' \in [Threads -> Calls]
    <3>1. CASE Skip(t) \/ NotSent(t)
      BY <3>1, RulesTyped, ClientTyped DEF Skip, NotSent, Reasons
    <3>2. CASE Send(t)
      <4>1. [NoCall EXCEPT !.phase = "sending", !.attempt = 1] \in Calls
        BY DEF NoCall, Calls, Phases
      <4> QED
        BY <3>2, <4>1, ClientTyped DEF Send
    <3> QED
      BY <1>6, <3>1, <3>2 DEF Ask
  <2>2. job' \in [Threads -> Jobs]
    <3>1. CASE Goto(t, "calling")
      BY <3>1, GotoTyped
    <3>2. CASE Requests(t)
      BY <3>2, RequestsTyped
    <3> QED
      BY <1>6, <3>1, <3>2 DEF Ask
  <2> QED
    BY <1>0, <1>6, <2>1, <2>2 DEF Ask
<1>7. CASE Receive(t)
  <2>1. client' \in [Threads -> Calls]
    <3>1. PICK r \in Replies : ReceiveFailure(t, r) \/ ReceiveLast(t, r)
      BY <1>7 DEF Receive
    <3>2. CASE ReceiveFailure(t, r)
      BY <1>0, <3>2 DEF ReceiveFailure, Calls, Phases
    <3>3. CASE ReceiveLast(t, r)
      BY <3>3, ResolutionTyped, ClientTyped DEF ReceiveLast
    <3> QED
      BY <3>1, <3>2, <3>3
  <2> QED
    BY <1>0, <1>7, <2>1 DEF Receive
<1>8. CASE AskAgain(t)
  <2>1. client' \in [Threads -> Calls]
    <3>1. client[t] \in Calls /\ client[t].attempt + 1 \in Nat
      BY <1>0 DEF Calls
    <3> DEFINE n == client[t].attempt + 1
               c == [client[t] EXCEPT !.phase = "sending", !.attempt = n]
    <3>2. client' = [client EXCEPT ![t] = c]
      BY <1>8 DEF AskAgain, SendAgain
    <3> HIDE DEF n
    <3>3. c \in Calls
      BY <3>1 DEF n, Calls, Phases
    <3> QED
      BY <3>2, <3>3, ClientTyped
  <2>2. job' \in [Threads -> Jobs]
    BY <1>8, RequestsTyped DEF AskAgain
  <2> QED
    BY <1>0, <1>8, <2>1, <2>2 DEF AskAgain
<1>9. CASE Attach(t)
  <2>1. promptRuns' \in Seq(Rows)
    <3> DEFINE n == NewestRow(t)
               m == Merged(MetadataOf(client[t]), promptRuns[n].meta)
    <3>1. promptRuns' = [promptRuns EXCEPT ![n] = [promptRuns[n] EXCEPT !.meta = m]]
      BY <1>9 DEF Attach
    <3>2. n \in DOMAIN promptRuns => promptRuns[n] \in Rows
      BY <1>0
    <3>3. n \in DOMAIN promptRuns => m \in Metadata
      BY <3>2, MergedTyped DEF Rows
    <3> HIDE DEF n, m
    <3>4. n \in DOMAIN promptRuns => [promptRuns[n] EXCEPT !.meta = m] \in Rows
      BY <3>2, <3>3 DEF Rows
    <3>5. CASE n \in 1 .. Len(promptRuns)
      <4>1. [promptRuns[n] EXCEPT !.meta = m] \in Rows
        BY <1>0, <3>4, <3>5, LenProperties
      <4> QED
        BY <1>0, <3>1, <3>5, <4>1, ExceptSeq
    <3>6. CASE n \notin 1 .. Len(promptRuns)
      <4>1. promptRuns' = promptRuns
        BY <1>0, <3>1, <3>6, LenProperties
      <4> QED
        BY <1>0, <4>1
    <3> QED
      BY <3>5, <3>6
  <2> QED
    BY <1>0, <1>9, <2>1, GotoTyped DEF Attach
<1>10. CASE Convert(t)
  <2>1. CASE client[t].payload = "mistyped"
    BY <1>0, <1>10, <2>1, FailsTyped DEF Convert
  <2>2. CASE client[t].payload # "mistyped"
    <3>1. [NoJob EXCEPT !.phase = "returned", !.row = job[t].row] \in Jobs
      BY <1>0 DEF NoJob, Jobs
    <3> QED
      BY <1>0, <1>10, <2>2, <3>1, JobTyped DEF Convert
  <2> QED
    BY <2>1, <2>2
<1>11. CASE Locked(t)
  BY <1>0, <1>11, FailsTyped DEF Locked
<1>12. NoCall \in Calls
  BY DEF NoCall, Calls, Phases
<1>13. CASE RetryStep(t)
  <2>1. job' \in [Threads -> Jobs]
    <3>1. job[t].tries + 1 \in Nat
      BY <1>0 DEF Jobs
    <3>2. [job[t] EXCEPT !.phase = "rendering", !.error = None, !.fallback = 0,
                         !.row = 0, !.tries = job[t].tries + 1] \in Jobs
      BY <1>0, <3>1, JobFieldsTyped
    <3> QED
      BY <1>13, <3>2, JobTyped DEF RetryStep
  <2> QED
    BY <1>0, <1>12, <1>13, <2>1, ClientTyped DEF RetryStep
<1>14. CASE FailStep(t)
  <2>1. [NoJob EXCEPT !.phase = "failed"] \in Jobs
    BY DEF NoJob, Jobs
  <2> QED
    BY <1>0, <1>12, <1>14, <2>1, JobTyped, ClientTyped DEF FailStep
<1> QED
  BY <1>1, <1>2, <1>3, <1>4, <1>5, <1>6, <1>7, <1>8, <1>9, <1>10, <1>11, <1>13, <1>14
     DEF Work, TypeOK

\* Type correctness of every step of every behaviour.
THEOREM TypeCorrect == Spec => []TypeOK
<1>1. TypeOK /\ [Next]_vars => TypeOK'
  <2> SUFFICES ASSUME TypeOK, [Next]_vars PROVE TypeOK'
    OBVIOUS
  <2>1. CASE Next
    BY <2>1, StepTyped DEF Next
  <2>2. CASE UNCHANGED vars
    BY <2>2 DEF TypeOK, vars
  <2> QED
    BY <2>1, <2>2
<1> QED
  BY InitTyped, <1>1, PTL DEF Spec

-----------------------------------------------------------------------------
\* A step of one thread leaves the step and the call of every other alone.
LEMMA BecomesMoves ==
  ASSUME TypeOK, NEW t \in Threads, NEW j, Becomes(t, j)
  PROVE  job'[t] = j /\ \A u \in Threads : u # t => job'[u] = job[u]
  BY DEF TypeOK, Becomes

LEMMA GotoMoves ==
  ASSUME TypeOK, NEW t \in Threads, NEW phase, Goto(t, phase)
  PROVE  job'[t].phase = phase /\ job'[t].row = job[t].row
<1>1. job'[t] = [job[t] EXCEPT !.phase = phase]
  BY BecomesMoves DEF Goto
<1> QED
  BY <1>1 DEF TypeOK, Jobs

LEMMA FailsMoves ==
  ASSUME TypeOK, NEW t \in Threads, NEW phase, NEW e, Fails(t, phase, e)
  PROVE  job'[t].phase = phase /\ job'[t].error = e
<1>1. job'[t] = [job[t] EXCEPT !.phase = phase, !.error = e]
  BY BecomesMoves DEF Fails
<1> QED
  BY <1>1 DEF TypeOK, Jobs

LEMMA RequestsMoves ==
  ASSUME TypeOK, NEW t \in Threads, Requests(t)
  PROVE  job'[t].phase = "calling" /\ job'[t].row = job[t].row
<1> DEFINE n == job[t].asked + 1
<1>1. Becomes(t, [job[t] EXCEPT !.phase = "calling", !.asked = n])
  BY DEF Requests
<1> HIDE DEF n
<1>2. job'[t] = [job[t] EXCEPT !.phase = "calling", !.asked = n]
  BY <1>1, BecomesMoves
<1> QED
  BY <1>2 DEF TypeOK, Jobs

LEMMA CheckingMoves ==
  ASSUME TypeOK, NEW t \in Threads, NEW f,
         Becomes(t, [job[t] EXCEPT !.phase = "checking", !.fallback = f])
  PROVE  job'[t].phase = "checking"
<1>1. job'[t] = [job[t] EXCEPT !.phase = "checking", !.fallback = f]
  BY BecomesMoves
<1> QED
  BY <1>1 DEF TypeOK, Jobs

LEMMA LoggedMoves ==
  ASSUME TypeOK, NEW t \in Threads, NEW n,
         Becomes(t, [job[t] EXCEPT !.phase = "asking", !.row = n])
  PROVE  job'[t].phase = "asking" /\ job'[t].row = n
<1>1. job'[t] = [job[t] EXCEPT !.phase = "asking", !.row = n]
  BY BecomesMoves
<1> QED
  BY <1>1 DEF TypeOK, Jobs

LEMMA ReturnedMoves ==
  ASSUME TypeOK, NEW t \in Threads, NEW n,
         Becomes(t, [NoJob EXCEPT !.phase = "returned", !.row = n])
  PROVE  job'[t].phase = "returned" /\ job'[t].row = n
<1>1. job'[t] = [NoJob EXCEPT !.phase = "returned", !.row = n]
  BY BecomesMoves
<1> QED
  BY <1>1 DEF NoJob

LEMMA EndMoves ==
  ASSUME TypeOK, NEW t \in Threads, RetryStep(t) \/ FailStep(t)
  PROVE  job'[t].phase = IF RetryStep(t) THEN "rendering" ELSE "failed"
<1>1. CASE RetryStep(t)
  <2> DEFINE n == job[t].tries + 1
  <2>1. Becomes(t, [job[t] EXCEPT !.phase = "rendering", !.error = None,
                      !.fallback = 0, !.row = 0, !.tries = n])
    BY <1>1 DEF RetryStep
  <2> HIDE DEF n
  <2>2. job'[t] = [job[t] EXCEPT !.phase = "rendering", !.error = None,
                      !.fallback = 0, !.row = 0, !.tries = n]
    BY <2>1, BecomesMoves
  <2> QED
    BY <1>1, <2>2 DEF TypeOK, Jobs
<1>2. CASE ~RetryStep(t)
  <2>1. job'[t] = [NoJob EXCEPT !.phase = "failed"]
    BY <1>2, BecomesMoves DEF FailStep
  <2> QED
    BY <1>2, <2>1 DEF NoJob
<1> QED
  BY <1>1, <1>2

LEMMA CallMoves ==
  ASSUME TypeOK, NEW t \in Threads, NEW c, client' = [client EXCEPT ![t] = c]
  PROVE  client'[t] = c /\ \A u \in Threads : u # t => client'[u] = client[u]
  BY DEF TypeOK

LEMMA OthersStay ==
  ASSUME TypeOK, NEW t \in Threads, Begin(t) \/ Work(t), NEW u \in Threads, u # t
  PROVE  job'[u] = job[u] /\ client'[u] = client[u]
<1>1. job'[u] = job[u]
  <2>1. CASE job' = job
    BY <2>1
  <2>2. CASE \E j : Becomes(t, j)
    BY <2>2, BecomesMoves
  <2> QED
    BY <2>1, <2>2
       DEF Begin, Work, ResolvePath, Reject, LogRendered, LogUnrendered, Ask, Receive,
           AskAgain, Attach, Convert, Locked, RetryStep, FailStep, Goto, Fails, Requests
<1>2. client'[u] = client[u]
  <2>1. CASE client' = client
    BY <2>1
  <2>2. CASE \E c : client' = [client EXCEPT ![t] = c]
    BY <2>2, CallMoves
  <2> QED
    BY <2>1, <2>2
       DEF Begin, Work, ResolvePath, Reject, LogRendered, LogUnrendered, Ask, Receive,
           AskAgain, Attach, Convert, Locked, RetryStep, FailStep, Skip, NotSent, Send,
           ReceiveFailure, ReceiveLast, SendAgain
<1> QED
  BY <1>1, <1>2

\* An agent's call is resolved by the model or by the agent itself.
LEMMA ResolutionAnswers ==
  ASSUME NEW r \in Replies
  PROVE  /\ Resolution(r).phase = "answered"
         /\ Resolution(r).output \in {"model", "rules"}
  BY DEF Resolution, Rules, Model, NoCall

LEMMA AlignedStep ==
  ASSUME TypeOK, NEW t \in Threads, Aligned(t), Begin(t) \/ Work(t), UNCHANGED settings
  PROVE  Aligned(t)'
<1>0. /\ client[t].attempt \in Nat
      /\ settings.requests \in Nat
      /\ client[t].phase \in Phases
  BY ClientAssumption DEF TypeOK, Calls, Settings
<1>1. CASE Begin(t)
  <2>1. client' = client /\ job[t].phase = "idle"
    BY <1>1 DEF Begin, At
  <2>2. job'[t].phase = "rendering"
    BY <1>1, GotoMoves DEF Begin
  <2> QED
    BY <2>1, <2>2 DEF Aligned
<1>2. ASSUME NEW template \in Templates, ResolvePath(t, template)
      PROVE  Aligned(t)'
  <2>1. client' = client /\ job[t].phase = "rendering"
    BY <1>2 DEF ResolvePath, At
  <2>2. job'[t].phase \in {"checking", "unrendered"}
    BY <1>2, GotoMoves, FailsMoves, CheckingMoves DEF ResolvePath
  <2> QED
    BY <2>1, <2>2 DEF Aligned
<1>3. ASSUME NEW defect \in Defects, Reject(t, defect)
      PROVE  Aligned(t)'
  <2>1. client' = client /\ job[t].phase \in {"rendering", "checking"}
    BY <1>3 DEF Reject, At, RejectedAt
  <2>2. job'[t].phase = "unrendered"
    BY <1>3, FailsMoves DEF Reject
  <2> QED
    BY <2>1, <2>2 DEF Aligned
<1>4. CASE LogRendered(t)
  <2>1. client' = client /\ job[t].phase = "checking"
    BY <1>4 DEF LogRendered, At
  <2>2. job'[t].phase = "asking"
    BY <1>4, LoggedMoves DEF LogRendered
  <2> QED
    BY <2>1, <2>2 DEF Aligned
<1>5. CASE LogUnrendered(t)
  <2>1. client' = client /\ job[t].phase = "unrendered"
    BY <1>5 DEF LogUnrendered, At
  <2>2. job'[t].phase = "raised"
    BY <1>5, GotoMoves DEF LogUnrendered
  <2> QED
    BY <2>1, <2>2 DEF Aligned
<1>6. CASE Ask(t)
  <2>1. job'[t].phase = "calling"
    BY <1>6, GotoMoves, RequestsMoves DEF Ask
  <2>2. CASE Skip(t) \/ NotSent(t)
    <3>1. client'[t].phase = "answered" /\ client'[t].output = "rules"
      BY <2>2 DEF Skip, NotSent, Rules, NoCall, TypeOK
    <3> QED
      BY <2>1, <3>1 DEF Aligned
  <2>3. CASE Send(t)
    <3>1. client'[t].phase = "sending" /\ client'[t].attempt = 1
      BY <2>3 DEF Send, NoCall, TypeOK
    <3>2. 1 \in 1 .. settings'.requests
      BY <1>0, <2>3 DEF Send
    <3> QED
      BY <2>1, <3>1, <3>2 DEF Aligned
  <2> QED
    BY <1>6, <2>2, <2>3 DEF Ask
<1>7. CASE Receive(t)
  <2>1. job' = job
    BY <1>7 DEF Receive
  <2>2. PICK r \in Replies : ReceiveFailure(t, r) \/ ReceiveLast(t, r)
    BY <1>7 DEF Receive
  <2>3. client[t].phase = "sending"
    BY <2>2 DEF ReceiveFailure, ReceiveLast
  <2>4. job[t].phase \notin {"idle", "rendering", "checking", "unrendered", "asking",
                             "failed", "converting", "returned", "raised"}
    BY <2>3 DEF Aligned
  <2>5. CASE ReceiveFailure(t, r)
    <3>1. /\ client'[t].phase = "waiting"
          /\ client'[t].attempt = client[t].attempt
      BY <2>5 DEF ReceiveFailure, TypeOK, Calls
    <3>2. client[t].attempt \in 1 .. settings.requests - 1
      BY <1>0, <2>3, <2>5 DEF ReceiveFailure, MayRetry, Aligned
    <3> QED
      BY <2>1, <2>4, <3>1, <3>2 DEF Aligned
  <2>6. CASE ReceiveLast(t, r)
    <3>1. /\ client'[t].phase = "answered"
          /\ client'[t].output \in {"model", "rules"}
      BY <2>6, CallMoves, ResolutionAnswers DEF ReceiveLast
    <3> QED
      BY <2>1, <2>4, <3>1 DEF Aligned
  <2> QED
    BY <2>2, <2>5, <2>6
<1>8. CASE AskAgain(t)
  <2>1. job'[t].phase = "calling"
    BY <1>8, RequestsMoves DEF AskAgain
  <2>2. client[t].attempt \in 1 .. settings.requests - 1
    BY <1>8 DEF AskAgain, SendAgain, Aligned
  <2> DEFINE n == client[t].attempt + 1
  <2>3. n \in 1 .. settings'.requests
    BY <1>0, <2>2
  <2>4. client' = [client EXCEPT ![t] = [client[t] EXCEPT !.phase = "sending",
                                                         !.attempt = n]]
    BY <1>8 DEF AskAgain, SendAgain
  <2> HIDE DEF n
  <2>5. client'[t].phase = "sending" /\ client'[t].attempt = n
    BY <2>4, CallMoves DEF TypeOK, Calls
  <2> QED
    BY <2>1, <2>3, <2>5 DEF Aligned
<1>9. CASE Attach(t)
  <2>1. client' = client /\ client[t].phase = "answered"
    BY <1>9 DEF Attach
  <2>2. job'[t].phase = "converting"
    BY <1>9, GotoMoves DEF Attach
  <2> QED
    BY <2>1, <2>2 DEF Aligned
<1>10. CASE Convert(t)
  <2>1. client' = client /\ client[t].phase = "answered"
    BY <1>10 DEF Convert, At, Aligned
  <2>2. job'[t].phase \in {"raised", "returned"}
    BY <1>10, FailsMoves, ReturnedMoves DEF Convert
  <2> QED
    BY <2>1, <2>2 DEF Aligned
<1>11. CASE Locked(t)
  <2>1. client' = client
    BY <1>11 DEF Locked
  <2>2. CASE /\ job[t].phase \in {"rendering", "checking"}
             /\ Fails(t, "unrendered", "OperationalError")
    <3>1. job'[t].phase = "unrendered"
      BY <2>2, FailsMoves
    <3> QED
      BY <2>1, <2>2, <3>1 DEF Aligned
  <2>3. CASE /\ At(t, "unrendered") \/ (At(t, "calling") /\ client[t].phase = "answered")
             /\ Fails(t, "raised", "OperationalError")
    <3>1. job'[t].phase = "raised"
      BY <2>3, FailsMoves
    <3>2. client[t].phase \in {"idle", "answered"}
      BY <2>3 DEF At, Aligned
    <3> QED
      BY <2>1, <3>1, <3>2 DEF Aligned
  <2> QED
    BY <1>11, <2>2, <2>3 DEF Locked
<1>12. CASE RetryStep(t) \/ FailStep(t)
  <2>1. client'[t].phase = "idle"
    BY <1>12, CallMoves DEF RetryStep, FailStep, NoCall
  <2>2. job'[t].phase \in {"rendering", "failed"}
    BY <1>12, EndMoves
  <2> QED
    BY <2>1, <2>2 DEF Aligned
<1> QED
  BY <1>1, <1>2, <1>3, <1>4, <1>5, <1>6, <1>7, <1>8, <1>9, <1>10, <1>11, <1>12 DEF Work

THEOREM StepsAligned == Spec => [](TypeOK /\ CallsAligned)
<1>1. Init => CallsAligned
  <2> SUFFICES ASSUME Init, NEW t \in Threads PROVE Aligned(t)
    BY DEF CallsAligned
  <2>1. job[t].phase = "idle" /\ client[t].phase = "idle"
    BY DEF Init, ClientInit, NoCall, NoJob
  <2> QED
    BY <2>1 DEF Aligned
<1>2. TypeOK /\ CallsAligned /\ [Next]_vars => CallsAligned'
  <2> SUFFICES ASSUME TypeOK, CallsAligned, [Next]_vars, NEW u \in Threads
               PROVE  Aligned(u)'
    BY DEF CallsAligned
  <2>1. CASE UNCHANGED vars
    BY <2>1 DEF vars, CallsAligned, Aligned
  <2>2. ASSUME NEW t \in Threads, Begin(t) \/ Work(t), UNCHANGED settings
        PROVE  Aligned(u)'
    <3>1. CASE u = t
      BY <2>2, <3>1, AlignedStep DEF CallsAligned
    <3>2. CASE u # t
      <4>1. job'[u] = job[u] /\ client'[u] = client[u]
        BY <2>2, <3>2, OthersStay
      <4> QED
        BY <2>2, <4>1 DEF CallsAligned, Aligned
    <3> QED
      BY <3>1, <3>2
  <2> QED
    BY <2>1, <2>2 DEF Next
<1> QED
  BY <1>1, <1>2, TypeCorrect, PTL DEF Spec

-----------------------------------------------------------------------------
\* The calls of each step implement ModelAnswer: where the call of t goes from
\* client[t] to c, the abstract state of t follows.
LEMMA AnswerFollows ==
  ASSUME TypeOK, NEW t \in Threads, NEW c, UNCHANGED settings,
         client' = [client EXCEPT ![t] = c]
  PROVE  /\ [u \in Threads |-> AnswerOf(client[u])]'
              = [[u \in Threads |-> AnswerOf(client[u])] EXCEPT ![t] = AnswerOf(c)]
         /\ [u \in Threads |-> RequestsLeft(client[u])]'
              = [[u \in Threads |-> RequestsLeft(client[u])] EXCEPT ![t] = RequestsLeft(c)]
<1>1. /\ client'[t] = c
      /\ \A u \in Threads : u # t => client'[u] = client[u]
  BY CallMoves
<1>2. \A u \in Threads : AnswerOf(client'[u]) = IF u = t THEN AnswerOf(c)
                                                ELSE AnswerOf(client[u])
  BY <1>1
<1>3. \A x : RequestsLeft(x)' = RequestsLeft(x)
  BY DEF RequestsLeft
<1>4. \A u \in Threads : RequestsLeft(client[u])' = IF u = t THEN RequestsLeft(c)
                                                    ELSE RequestsLeft(client[u])
  BY <1>1 DEF RequestsLeft
<1> QED
  BY <1>2, <1>4

\* A question is settled at once.
LEMMA SettledAtOnce ==
  ASSUME TypeOK, NEW t \in Threads, Aligned(t), Ask(t), Skip(t) \/ NotSent(t),
         UNCHANGED settings
  PROVE  Answer!Ask(t)
<1>1. PICK reason : client' = [client EXCEPT ![t] = Rules(reason)]
  BY DEF Skip, NotSent
<1>2. AnswerOf(Rules(reason)) = "rules" /\ RequestsLeft(Rules(reason)) = 0
  BY DEF AnswerOf, RequestsLeft, Rules, NoCall
<1>3. AnswerOf(client[t]) = "none"
  BY DEF Ask, At, Aligned, AnswerOf
<1> DEFINE ans == [u \in Threads |-> AnswerOf(client[u])]
           lef == [u \in Threads |-> RequestsLeft(client[u])]
<1>4. /\ ans' = [ans EXCEPT ![t] = "rules"]
      /\ lef' = [lef EXCEPT ![t] = 0]
  <2> DEFINE c == Rules(reason)
  <2>1. client' = [client EXCEPT ![t] = c]
    BY <1>1
  <2>2. AnswerOf(c) = "rules" /\ RequestsLeft(c) = 0
    BY <1>2
  <2> HIDE DEF c
  <2> QED
    BY <2>1, <2>2, AnswerFollows
<1>5. ans[t] # "pending"
  BY <1>3
<1> QED
  BY <1>4, <1>5 DEF Answer!Ask

\* A question is sent to the model.
LEMMA SentOut ==
  ASSUME TypeOK, NEW t \in Threads, Aligned(t), Ask(t), Send(t), UNCHANGED settings
  PROVE  Answer!Ask(t)
<1> DEFINE c == [NoCall EXCEPT !.phase = "sending", !.attempt = 1]
<1>1. client' = [client EXCEPT ![t] = c]
  BY DEF Send
<1>2. settings.requests \in 1 .. MaxRequests
  BY ClientAssumption DEF Send, TypeOK, Settings
<1>3. AnswerOf(c) = "pending" /\ RequestsLeft(c) = settings.requests
  BY <1>2, ClientAssumption DEF AnswerOf, RequestsLeft, NoCall
<1>4. AnswerOf(client[t]) = "none"
  BY DEF Ask, At, Aligned, AnswerOf
<1> HIDE DEF c
<1> QED
  BY <1>1, <1>2, <1>3, <1>4, AnswerFollows DEF Answer!Ask

\* A request came back.
LEMMA Answered ==
  ASSUME TypeOK, NEW t \in Threads, Aligned(t), Receive(t), UNCHANGED settings
  PROVE  Answer!Request(t)
<1>1. PICK r \in Replies : ReceiveFailure(t, r) \/ ReceiveLast(t, r)
  BY DEF Receive
<1>2. /\ client[t].phase = "sending"
      /\ client[t].attempt \in 1 .. settings.requests
      /\ settings.requests \in Nat
  BY <1>1, ClientAssumption DEF ReceiveFailure, ReceiveLast, Aligned, TypeOK, Settings
<1>3. /\ AnswerOf(client[t]) = "pending"
      /\ RequestsLeft(client[t]) = settings.requests - client[t].attempt + 1
  BY <1>2 DEF AnswerOf, RequestsLeft
<1>4. CASE ReceiveFailure(t, r)
  <2> DEFINE c == [client[t] EXCEPT !.phase = "waiting"]
  <2>1. client' = [client EXCEPT ![t] = c]
    BY <1>4 DEF ReceiveFailure
  <2>2. c.phase = "waiting" /\ c.attempt = client[t].attempt
    BY DEF TypeOK, Calls
  <2>3. client[t].attempt < settings.requests
    BY <1>4 DEF ReceiveFailure, MayRetry
  <2>4. /\ AnswerOf(c) = "pending"
        /\ RequestsLeft(c) = RequestsLeft(client[t]) - 1
        /\ RequestsLeft(c) > 0
    BY <1>2, <1>3, <2>2, <2>3 DEF AnswerOf, RequestsLeft
  <2> HIDE DEF c
  <2> DEFINE ans == [u \in Threads |-> AnswerOf(client[u])]
             lef == [u \in Threads |-> RequestsLeft(client[u])]
  <2>5. ans' = [ans EXCEPT ![t] = AnswerOf(c)] /\ lef' = [lef EXCEPT ![t] = RequestsLeft(c)]
    BY <2>1, AnswerFollows
  <2>6. ans[t] = "pending" /\ lef[t] > 0 /\ ans' = ans /\ lef'[t] > 0
        /\ lef' = [lef EXCEPT ![t] = lef[t] - 1]
    <3>1. ans[t] = AnswerOf(c) /\ lef[t] - 1 = RequestsLeft(c) /\ lef[t] > 0
      BY <1>2, <1>3, <2>4
    <3>2. lef'[t] = RequestsLeft(c)
      BY <2>5
    <3>3. ans' = ans
      BY <2>5, <3>1
    <3> QED
      BY <1>3, <2>4, <2>5, <3>1, <3>2, <3>3
  <2> QED
    BY <2>6 DEF Answer!Request
<1>5. CASE ReceiveLast(t, r)
  <2>1. client' = [client EXCEPT ![t] = Resolution(r)]
    BY <1>5 DEF ReceiveLast
  <2>2. /\ AnswerOf(Resolution(r)) \in {"model", "rules"}
        /\ RequestsLeft(Resolution(r)) = 0
    BY ResolutionAnswers DEF AnswerOf, RequestsLeft
  <2>3. RequestsLeft(client[t]) > 0
    BY <1>2, <1>3
  <2> QED
    BY <1>3, <2>1, <2>2, <2>3, AnswerFollows DEF Answer!Request
<1> QED
  BY <1>1, <1>4, <1>5

\* Sleeping before the next request is no abstract step.
LEMMA Slept ==
  ASSUME TypeOK, NEW t \in Threads, Aligned(t), AskAgain(t), UNCHANGED settings
  PROVE  UNCHANGED Answer!vars
<1> DEFINE n == client[t].attempt + 1
           c == [client[t] EXCEPT !.phase = "sending", !.attempt = n]
<1>1. client' = [client EXCEPT ![t] = c]
  BY DEF AskAgain, SendAgain
<1>2. /\ client[t].phase = "waiting"
      /\ client[t].attempt \in Nat
      /\ settings.requests \in Nat
  BY ClientAssumption DEF AskAgain, SendAgain, TypeOK, Calls, Settings
<1>3. c.phase = "sending" /\ c.attempt = n
  <2> HIDE DEF n
  <2> QED
    BY DEF TypeOK, Calls
<1>4. AnswerOf(c) = AnswerOf(client[t]) /\ RequestsLeft(c) = RequestsLeft(client[t])
  BY <1>2, <1>3 DEF AnswerOf, RequestsLeft
<1> HIDE DEF c
<1> DEFINE ans == [u \in Threads |-> AnswerOf(client[u])]
           lef == [u \in Threads |-> RequestsLeft(client[u])]
<1>5. /\ ans' = [ans EXCEPT ![t] = AnswerOf(c)]
      /\ lef' = [lef EXCEPT ![t] = RequestsLeft(c)]
  BY <1>1, AnswerFollows
<1>6. AnswerOf(c) = ans[t] /\ RequestsLeft(c) = lef[t]
  BY <1>4
<1>7. ans' = ans /\ lef' = lef
  BY <1>5, <1>6
<1> QED
  BY <1>7 DEF Answer!vars

\* The step gives up its try.
LEMMA GaveUp ==
  ASSUME TypeOK, NEW t \in Threads, Aligned(t), RetryStep(t) \/ FailStep(t),
         UNCHANGED settings
  PROVE  Answer!Forget(t)
<1>1. client' = [client EXCEPT ![t] = NoCall]
  BY DEF RetryStep, FailStep
<1>2. client[t].phase \in {"idle", "answered"}
  BY DEF RetryStep, FailStep, At, Aligned
<1>3. AnswerOf(client[t]) # "pending" /\ RequestsLeft(client[t]) = 0
  BY <1>2 DEF AnswerOf, RequestsLeft, Aligned
<1>4. AnswerOf(NoCall) = "none" /\ RequestsLeft(NoCall) = 0
  BY DEF AnswerOf, RequestsLeft, NoCall
<1> DEFINE ans == [u \in Threads |-> AnswerOf(client[u])]
           lef == [u \in Threads |-> RequestsLeft(client[u])]
<1>5. /\ ans' = [ans EXCEPT ![t] = AnswerOf(NoCall)]
      /\ lef' = [lef EXCEPT ![t] = RequestsLeft(NoCall)]
  BY <1>1, AnswerFollows
<1>6. ans[t] # "pending" /\ lef[t] = 0
  BY <1>3
<1>7. ans' = [ans EXCEPT ![t] = "none"] /\ lef' = lef
  BY <1>4, <1>5, <1>6
<1> QED
  BY <1>6, <1>7 DEF Answer!Forget

LEMMA NoCallMade ==
  ASSUME UNCHANGED <<client, settings>>
  PROVE  UNCHANGED Answer!vars
  BY DEF Answer!vars, AnswerOf, RequestsLeft

\* The refinement: whatever the provider does, a question costs a bounded number
\* of requests, and once settled it stays so until the agent asks again.
THEOREM AnswersAsPromised == Spec => ImplementsModelAnswer
<1>1. Init => Answer!Init
  BY DEF Init, ClientInit, NoCall, Answer!Init, AnswerOf, RequestsLeft
<1>2. TypeOK /\ CallsAligned /\ [Next]_vars => [Answer!Next]_Answer!vars
  <2> SUFFICES ASSUME TypeOK, CallsAligned, [Next]_vars
               PROVE  [Answer!Next]_Answer!vars
    OBVIOUS
  <2>1. CASE UNCHANGED vars
    BY <2>1, NoCallMade DEF vars
  <2>2. ASSUME NEW t \in Threads, Begin(t) \/ Work(t), UNCHANGED settings
        PROVE  [Answer!Next]_Answer!vars
    <3>1. Aligned(t)
      BY DEF CallsAligned
    <3>2. CASE Ask(t)
      BY <2>2, <3>1, <3>2, SettledAtOnce, SentOut DEF Ask, Answer!Next
    <3>3. CASE Receive(t)
      BY <2>2, <3>1, <3>3, Answered DEF Answer!Next
    <3>4. CASE AskAgain(t)
      BY <2>2, <3>1, <3>4, Slept
    <3>5. CASE RetryStep(t) \/ FailStep(t)
      BY <2>2, <3>1, <3>5, GaveUp DEF Answer!Next
    <3>6. CASE client' = client
      BY <2>2, <3>6, NoCallMade
    <3> QED
      BY <2>2, <3>2, <3>3, <3>4, <3>5, <3>6
         DEF Begin, Work, ResolvePath, Reject, LogRendered, LogUnrendered, Attach, Convert,
             Locked
  <2> QED
    BY <2>1, <2>2 DEF Next
<1> QED
  BY <1>1, <1>2, StepsAligned, PTL DEF Spec, Answer!Spec, ImplementsModelAnswer

-----------------------------------------------------------------------------
\* What is known of the rows of a thread's run and agent at each phase of its
\* step: until the metadata is attached they have none, and the step's own row is
\* the newest of them.
MyRows(t) == RowsOf(RunOf[t], AgentOf[t])

Bare(t) == \A i \in MyRows(t) : promptRuns[i].meta = NoMetadata

Newest(t) == job[t].row \in MyRows(t) /\ \A j \in MyRows(t) : j <= job[t].row

Tells(t) ==
  \A i \in MyRows(t) :
    promptRuns[i].meta = IF i = job[t].row THEN MetadataOf(client[t]) ELSE NoMetadata

RowsKnown(t) ==
  /\ job[t].phase \in {"asking", "calling", "converting", "returned"} => Newest(t)
  /\ job[t].phase \in {"idle", "rendering", "checking", "unrendered", "asking", "calling"}
       => Bare(t)
  /\ job[t].phase = "raised" /\ job[t].error # "TypeError" => Bare(t)
  /\ job[t].phase \in {"converting", "returned"} => Tells(t)

AllRowsKnown == \A t \in Threads : RowsKnown(t)

\* The row found by attach_run_metadata is the step's own.
LEMMA FoundIsOwn ==
  ASSUME TypeOK, NEW t \in Threads, Newest(t)
  PROVE  NewestRow(t) = job[t].row
<1>1. MyRows(t) \subseteq Nat
  BY LenProperties DEF TypeOK, MyRows, RowsOf
<1>2. \A i \in MyRows(t) : (\A j \in MyRows(t) : j <= i) => i = job[t].row
  BY <1>1 DEF Newest
<1> QED
  BY <1>2 DEF Newest, NewestRow, MyRows

\* A row is added for t.
LEMMA RowAdded ==
  ASSUME TypeOK, NEW t \in Threads, NEW e \in Errors \cup {None},
         promptRuns' = Append(promptRuns, Row(t, e))
  PROVE  /\ MyRows(t)' = MyRows(t) \cup {Len(promptRuns) + 1}
         /\ \A i \in MyRows(t) : promptRuns'[i] = promptRuns[i] /\ i <= Len(promptRuns)
         /\ promptRuns'[Len(promptRuns) + 1].meta = NoMetadata
         /\ \A u \in Threads : u # t =>
              /\ MyRows(u)' = MyRows(u)
              /\ \A i \in MyRows(u) : promptRuns'[i] = promptRuns[i]
<1> DEFINE n == Len(promptRuns)
<1>1. /\ n \in Nat
      /\ DOMAIN promptRuns = 1 .. n
      /\ DOMAIN promptRuns' = 1 .. (n + 1)
      /\ \A i \in 1 .. n : promptRuns'[i] = promptRuns[i]
      /\ promptRuns'[n + 1] = Row(t, e)
  BY LenProperties, AppendProperties, RowTyped DEF TypeOK
<1>2. /\ promptRuns'[n + 1].run = RunOf[t]
      /\ promptRuns'[n + 1].agent = AgentOf[t]
      /\ promptRuns'[n + 1].meta = NoMetadata
  BY <1>1 DEF Row
<1>3. \A u \in Threads : u # t => n + 1 \notin MyRows(u)'
  BY <1>2, StepAssumption DEF MyRows, RowsOf
<1> QED
  BY <1>1, <1>2, <1>3 DEF MyRows, RowsOf

\* The metadata of t's row is set.
LEMMA RowAttached ==
  ASSUME TypeOK, NEW t \in Threads, Newest(t), Bare(t), Attach(t)
  PROVE  /\ MyRows(t)' = MyRows(t)
         /\ \A i \in MyRows(t) :
              promptRuns'[i].meta = IF i = job[t].row THEN MetadataOf(client[t])
                                    ELSE NoMetadata
         /\ \A u \in Threads : u # t =>
              /\ MyRows(u)' = MyRows(u)
              /\ \A i \in MyRows(u) : promptRuns'[i] = promptRuns[i]
<1> DEFINE n == job[t].row
           m == Merged(MetadataOf(client[t]), promptRuns[n].meta)
           row == [promptRuns[n] EXCEPT !.meta = m]
<1>1. promptRuns' = [promptRuns EXCEPT ![n] = row]
  BY FoundIsOwn DEF Attach
<1>2. n \in DOMAIN promptRuns /\ promptRuns[n] \in Rows
  BY DEF TypeOK, Newest, MyRows, RowsOf
<1>3. m = MetadataOf(client[t])
  <2>1. promptRuns[n].meta = NoMetadata
    BY DEF Newest, Bare
  <2> QED
    BY <2>1 DEF Merged, Coalesce, NoMetadata, MetadataOf
<1> HIDE DEF m
<1>4. row.run = promptRuns[n].run /\ row.agent = promptRuns[n].agent /\ row.meta = m
  BY <1>2 DEF Rows
<1> HIDE DEF row
<1>5. /\ DOMAIN promptRuns' = DOMAIN promptRuns
      /\ promptRuns'[n] = row
      /\ \A i \in DOMAIN promptRuns : i # n => promptRuns'[i] = promptRuns[i]
  BY <1>1, <1>2
<1>6. \A u \in Threads : MyRows(u)' = MyRows(u)
  BY <1>4, <1>5 DEF MyRows, RowsOf
<1>7. \A u \in Threads : u # t => n \notin MyRows(u)
  BY StepAssumption DEF Newest, MyRows, RowsOf
<1>8. \A i \in MyRows(t) : promptRuns'[i].meta = IF i = n THEN MetadataOf(client[t])
                                                 ELSE NoMetadata
  BY <1>3, <1>4, <1>5 DEF Bare, MyRows, RowsOf
<1> QED
  BY <1>5, <1>6, <1>7, <1>8 DEF MyRows, RowsOf

LEMMA OtherRowsStay ==
  ASSUME TypeOK, NEW t \in Threads, RowsKnown(t), Begin(t) \/ Work(t),
         NEW u \in Threads, u # t
  PROVE  /\ MyRows(u)' = MyRows(u)
         /\ \A i \in MyRows(u) : promptRuns'[i] = promptRuns[i]
<1>1. CASE LogRendered(t) \/ LogUnrendered(t)
  <2>1. PICK e \in Errors \cup {None} : promptRuns' = Append(promptRuns, Row(t, e))
    BY <1>1 DEF LogRendered, LogUnrendered, TypeOK, Jobs
  <2> QED
    BY <2>1, RowAdded
<1>2. CASE Attach(t)
  <2>1. Newest(t) /\ Bare(t)
    BY <1>2 DEF Attach, At, RowsKnown
  <2> QED
    BY <1>2, <2>1, RowAttached
<1>3. CASE promptRuns' = promptRuns
  BY <1>3 DEF MyRows, RowsOf
<1> QED
  BY <1>1, <1>2, <1>3
     DEF Begin, Work, ResolvePath, Reject, Ask, Receive, AskAgain, Convert, Locked,
         RetryStep, FailStep

\* Where the rows and the call of t stay, what is known of them does.
LEMMA BareStays ==
  ASSUME NEW t \in Threads, promptRuns' = promptRuns
  PROVE  /\ MyRows(t)' = MyRows(t)
         /\ Bare(t) => Bare(t)'
         /\ job'[t].row = job[t].row => Newest(t)' = Newest(t)
         /\ job'[t].row = job[t].row /\ client'[t] = client[t] => Tells(t)' = Tells(t)
  BY DEF MyRows, RowsOf, Bare, Newest, Tells

LEMMA RowsKnownStep ==
  ASSUME TypeOK, NEW t \in Threads, RowsKnown(t), Aligned(t), Begin(t) \/ Work(t),
         UNCHANGED settings
  PROVE  RowsKnown(t)'
<1>1. CASE Begin(t)
  <2>1. promptRuns' = promptRuns /\ Bare(t) /\ job'[t].phase = "rendering"
    BY <1>1, GotoMoves DEF Begin, At, RowsKnown
  <2> QED
    BY <2>1, BareStays DEF RowsKnown
<1>2. ASSUME NEW template \in Templates, ResolvePath(t, template)
      PROVE  RowsKnown(t)'
  <2>1. promptRuns' = promptRuns /\ Bare(t)
    BY <1>2 DEF ResolvePath, At, RowsKnown
  <2>2. job'[t].phase \in {"checking", "unrendered"}
    BY <1>2, GotoMoves, FailsMoves, CheckingMoves DEF ResolvePath
  <2> QED
    BY <2>1, <2>2, BareStays DEF RowsKnown
<1>3. ASSUME NEW defect \in Defects, Reject(t, defect)
      PROVE  RowsKnown(t)'
  <2>1. promptRuns' = promptRuns /\ Bare(t) /\ job'[t].phase = "unrendered"
    BY <1>3, FailsMoves DEF Reject, RejectedAt, At, RowsKnown
  <2> QED
    BY <2>1, BareStays DEF RowsKnown
<1>4. CASE LogRendered(t)
  <2>1. Bare(t) /\ promptRuns' = Append(promptRuns, Row(t, None))
    BY <1>4 DEF LogRendered, At, RowsKnown
  <2>2. job'[t].phase = "asking" /\ job'[t].row = Len(promptRuns) + 1
    BY <1>4, LoggedMoves DEF LogRendered
  <2>3. Len(promptRuns) \in Nat
    BY LenProperties DEF TypeOK
  <2>4. MyRows(t) \subseteq Nat
    BY LenProperties DEF TypeOK, MyRows, RowsOf
  <2>5. Newest(t)'
    BY <2>1, <2>2, <2>3, <2>4, RowAdded DEF Newest
  <2>6. Bare(t)'
    BY <2>1, RowAdded DEF Bare
  <2> QED
    BY <2>2, <2>5, <2>6 DEF RowsKnown
<1>5. CASE LogUnrendered(t)
  <2>1. Bare(t) /\ promptRuns' = Append(promptRuns, Row(t, job[t].error))
    BY <1>5 DEF LogUnrendered, At, RowsKnown
  <2>2. job[t].error \in Errors \cup {None}
    BY DEF TypeOK, Jobs
  <2>3. job'[t].phase = "raised"
    BY <1>5, GotoMoves DEF LogUnrendered
  <2>4. Bare(t)'
    BY <2>1, <2>2, RowAdded DEF Bare
  <2> QED
    BY <2>3, <2>4 DEF RowsKnown
<1>6. CASE Ask(t) \/ AskAgain(t)
  <2>1. job[t].phase \in {"asking", "calling"}
    BY <1>6 DEF Ask, At, AskAgain, SendAgain, Aligned, TypeOK, Jobs, JobPhases
  <2>2. Bare(t) /\ Newest(t) /\ promptRuns' = promptRuns
    BY <1>6, <2>1 DEF Ask, AskAgain, RowsKnown
  <2>3. job'[t].phase = "calling" /\ job'[t].row = job[t].row
    <3>1. CASE Requests(t)
      BY <3>1, RequestsMoves
    <3>2. CASE Goto(t, "calling")
      BY <3>2, GotoMoves
    <3> QED
      BY <1>6, <3>1, <3>2 DEF Ask, AskAgain
  <2> QED
    BY <2>2, <2>3, BareStays DEF RowsKnown
<1>7. CASE Receive(t)
  <2>1. promptRuns' = promptRuns /\ job' = job
    BY <1>7 DEF Receive
  <2>2. job[t].phase = "calling"
    BY <1>7 DEF Receive, ReceiveFailure, ReceiveLast, Aligned, TypeOK, Jobs, JobPhases
  <2> QED
    BY <2>1, <2>2, BareStays DEF RowsKnown
<1>8. CASE Attach(t)
  <2>1. Bare(t) /\ Newest(t) /\ client' = client
    BY <1>8 DEF Attach, At, RowsKnown
  <2>2. job'[t].phase = "converting" /\ job'[t].row = job[t].row
    BY <1>8, GotoMoves DEF Attach
  <2>3. Newest(t)' /\ Tells(t)'
    BY <1>8, <2>1, <2>2, RowAttached DEF Newest, Tells, MetadataOf
  <2> QED
    BY <2>2, <2>3 DEF RowsKnown
<1>9. CASE Convert(t)
  <2>1. Newest(t) /\ Tells(t) /\ UNCHANGED <<client, promptRuns>>
    BY <1>9 DEF Convert, At, RowsKnown
  <2>2. CASE Fails(t, "raised", "TypeError")
    BY <2>2, FailsMoves DEF RowsKnown
  <2>3. CASE Becomes(t, [NoJob EXCEPT !.phase = "returned", !.row = job[t].row])
    <3>1. job'[t].phase = "returned" /\ job'[t].row = job[t].row
      BY <2>3, ReturnedMoves
    <3> QED
      BY <2>1, <3>1, BareStays DEF RowsKnown
  <2> QED
    BY <1>9, <2>2, <2>3 DEF Convert
<1>10. CASE Locked(t)
  <2>1. Bare(t) /\ promptRuns' = promptRuns
    BY <1>10 DEF Locked, At, RowsKnown
  <2>2. job'[t].phase \in {"unrendered", "raised"}
    BY <1>10, FailsMoves DEF Locked
  <2> QED
    BY <2>1, <2>2, BareStays DEF RowsKnown
<1>11. CASE RetryStep(t)
  <2>1. Bare(t) /\ promptRuns' = promptRuns
    BY <1>11 DEF RetryStep, At, Retried, Terminal, RowsKnown
  <2>2. job'[t].phase = "rendering"
    BY <1>11, EndMoves
  <2> QED
    BY <2>1, <2>2, BareStays DEF RowsKnown
<1>12. CASE FailStep(t) /\ ~RetryStep(t)
  <2>1. job'[t].phase = "failed"
    BY <1>12, EndMoves
  <2> QED
    BY <2>1 DEF RowsKnown
<1> QED
  BY <1>1, <1>2, <1>3, <1>4, <1>5, <1>6, <1>7, <1>8, <1>9, <1>10, <1>11, <1>12 DEF Work

\* It is known in every state, however the steps of the threads interleave.
THEOREM RowsStayKnown == Spec => []AllRowsKnown
<1>1. Init => AllRowsKnown
  <2> SUFFICES ASSUME Init, NEW t \in Threads PROVE RowsKnown(t)
    BY DEF AllRowsKnown
  <2>1. job[t].phase = "idle" /\ MyRows(t) = {}
    BY DEF Init, NoJob, MyRows, RowsOf
  <2> QED
    BY <2>1 DEF RowsKnown, Bare
<1>2. TypeOK /\ CallsAligned /\ AllRowsKnown /\ [Next]_vars => AllRowsKnown'
  <2> SUFFICES ASSUME TypeOK, CallsAligned, AllRowsKnown, [Next]_vars, NEW u \in Threads
               PROVE  RowsKnown(u)'
    BY DEF AllRowsKnown
  <2>1. RowsKnown(u)
    BY DEF AllRowsKnown
  <2>2. CASE UNCHANGED vars
    BY <2>1, <2>2 DEF vars, RowsKnown, Newest, Bare, Tells, MyRows, RowsOf, MetadataOf
  <2>3. ASSUME NEW t \in Threads, Begin(t) \/ Work(t), UNCHANGED settings
        PROVE  RowsKnown(u)'
    <3>1. RowsKnown(t) /\ Aligned(t)
      BY DEF AllRowsKnown, CallsAligned
    <3>2. CASE u = t
      BY <2>3, <3>1, <3>2, RowsKnownStep
    <3>3. CASE u # t
      <4>1. job'[u] = job[u] /\ client'[u] = client[u]
        BY <2>3, <3>3, OthersStay
      <4>2. /\ MyRows(u)' = MyRows(u)
            /\ \A i \in MyRows(u) : promptRuns'[i] = promptRuns[i]
        BY <2>3, <3>1, <3>3, OtherRowsStay
      <4> QED
        BY <2>1, <4>1, <4>2 DEF RowsKnown, Newest, Bare, Tells, MetadataOf
    <3> QED
      BY <3>2, <3>3
  <2> QED
    BY <2>2, <2>3 DEF Next
<1> QED
  BY <1>1, <1>2, StepsAligned, PTL DEF Spec

\* The row that tells of a finished step tells of its own call.
THEOREM RowsTellTheirCalls == Spec => []RowTellsItsCall
<1>1. AllRowsKnown => RowTellsItsCall
  BY DEF AllRowsKnown, RowsKnown, Tells, MyRows, RowTellsItsCall
<1> QED
  BY <1>1, RowsStayKnown, PTL

-----------------------------------------------------------------------------
\* How much a thread may have spent at each phase of its step: k whole tries, and
\* what the running one has asked and logged.
Spent(k) == k * MaxRequests

Tried(t) == Cardinality(MyRows(t))

Spending(t) ==
  LET k == job[t].tries IN
    /\ k <= StepRetries
    /\ job[t].phase \in {"idle", "rendering", "checking", "unrendered", "asking"}
         => job[t].asked <= Spent(k)
    /\ job[t].phase = "calling" /\ client[t].phase # "answered"
         => job[t].asked <= Spent(k) + client[t].attempt
    /\ job[t].phase \in {"calling", "converting", "raised"}
         => job[t].asked <= Spent(k) + MaxRequests
    /\ job[t].phase \in {"returned", "failed"} => job[t].asked = 0

Logging(t) ==
  LET k == job[t].tries IN
    /\ IsFiniteSet(MyRows(t))
    /\ job[t].phase \in {"idle", "rendering", "checking", "unrendered"} => Tried(t) <= k
    /\ job[t].phase \in {"asking", "calling", "converting", "raised"} => Tried(t) <= k + 1
    /\ job[t].phase \in {"returned", "failed"} => Tried(t) <= StepRetries + 1

AllBounded == \A t \in Threads : Spending(t) /\ Logging(t)

LEMMA SpentIs ==
  ASSUME NEW k \in Nat
  PROVE  /\ Spent(k) \in Nat
         /\ Spent(k + 1) = Spent(k) + MaxRequests
         /\ k <= StepRetries => Spent(k) + MaxRequests <= Spent(StepRetries + 1)
<1> USE ClientAssumption, CallAssumption
<1>1. Spent(k) \in Nat /\ Spent(k + 1) = Spent(k) + MaxRequests
  BY DEF Spent
<1>2. ASSUME k <= StepRetries
      PROVE  Spent(k + 1) <= Spent(StepRetries + 1)
  <2>1. PICK d \in Nat : StepRetries + 1 = (k + 1) + d
    <3>1. StepRetries - k \in Nat /\ StepRetries + 1 = (k + 1) + (StepRetries - k)
      BY <1>2
    <3> QED
      BY <3>1
  <2>2. Spent(StepRetries + 1) = Spent(k + 1) + d * MaxRequests
    BY <2>1 DEF Spent
  <2>3. d * MaxRequests \in Nat
    BY <2>1
  <2> QED
    BY <1>1, <2>2, <2>3
<1> QED
  BY <1>1, <1>2

\* What each way of moving leaves of the phase, the tries and the requests.
Kept(t, phase) ==
  /\ job'[t].phase = phase
  /\ job'[t].tries = job[t].tries /\ job'[t].asked = job[t].asked

LEMMA Moves ==
  ASSUME TypeOK, NEW t \in Threads
  PROVE  /\ \A phase : Goto(t, phase) => Kept(t, phase)
         /\ \A phase, e : Fails(t, phase, e) => Kept(t, phase)
         /\ \A f : Becomes(t, [job[t] EXCEPT !.phase = "checking", !.fallback = f])
                     => Kept(t, "checking")
         /\ \A n : Becomes(t, [job[t] EXCEPT !.phase = "asking", !.row = n])
                     => Kept(t, "asking")
         /\ Requests(t) => /\ job'[t].phase = "calling"
                           /\ job'[t].tries = job[t].tries
                           /\ job'[t].asked = job[t].asked + 1
         /\ RetryStep(t) => /\ job'[t].phase = "rendering"
                            /\ job'[t].tries = job[t].tries + 1
                            /\ job'[t].asked = job[t].asked
         /\ \A n : Becomes(t, [NoJob EXCEPT !.phase = "returned", !.row = n])
                     => /\ job'[t].phase = "returned"
                        /\ job'[t].tries = 0 /\ job'[t].asked = 0
         /\ FailStep(t) => /\ job'[t].phase = "failed"
                           /\ job'[t].tries = 0 /\ job'[t].asked = 0
<1>0. job[t] \in Jobs
  BY DEF TypeOK
<1>n. \A j : Becomes(t, j) => job'[t] = j
  BY BecomesMoves
<1>1. \A phase : Goto(t, phase) => Kept(t, phase)
  BY <1>0, <1>n DEF Goto, Jobs, Kept
<1>2. \A phase, e : Fails(t, phase, e) => Kept(t, phase)
  BY <1>0, <1>n DEF Fails, Jobs, Kept
<1>3. Requests(t) => /\ job'[t].phase = "calling"
                     /\ job'[t].tries = job[t].tries
                     /\ job'[t].asked = job[t].asked + 1
  <2> DEFINE n == job[t].asked + 1
  <2>1. Requests(t) => job'[t] = [job[t] EXCEPT !.phase = "calling", !.asked = n]
    BY <1>n DEF Requests
  <2> HIDE DEF n
  <2>2. Requests(t) => /\ job'[t].phase = "calling"
                       /\ job'[t].tries = job[t].tries /\ job'[t].asked = n
    BY <1>0, <2>1 DEF Jobs
  <2> QED
    BY <2>2 DEF n
<1>4. RetryStep(t) => /\ job'[t].phase = "rendering"
                      /\ job'[t].tries = job[t].tries + 1
                      /\ job'[t].asked = job[t].asked
  <2> DEFINE n == job[t].tries + 1
  <2>1. RetryStep(t) =>
          job'[t] = [job[t] EXCEPT !.phase = "rendering", !.error = None,
                       !.fallback = 0, !.row = 0, !.tries = n]
    BY <1>n DEF RetryStep
  <2> HIDE DEF n
  <2>2. RetryStep(t) => /\ job'[t].phase = "rendering"
                        /\ job'[t].tries = n /\ job'[t].asked = job[t].asked
    BY <1>0, <2>1 DEF Jobs
  <2> QED
    BY <2>2 DEF n
<1>5. \A n : Becomes(t, [NoJob EXCEPT !.phase = "returned", !.row = n]) =>
        job'[t].phase = "returned" /\ job'[t].tries = 0 /\ job'[t].asked = 0
  BY <1>n DEF NoJob
<1>6. FailStep(t) => job'[t].phase = "failed" /\ job'[t].tries = 0 /\ job'[t].asked = 0
  BY <1>n DEF NoJob, FailStep
<1>7. \A f : Becomes(t, [job[t] EXCEPT !.phase = "checking", !.fallback = f])
               => Kept(t, "checking")
  BY <1>0, <1>n DEF Jobs, Kept
<1>8. \A n : Becomes(t, [job[t] EXCEPT !.phase = "asking", !.row = n])
               => Kept(t, "asking")
  BY <1>0, <1>n DEF Jobs, Kept
<1> QED
  BY <1>1, <1>2, <1>3, <1>4, <1>5, <1>6, <1>7, <1>8

\* A step of t keeps within what it may have spent,
LEMMA SpendingStep ==
  ASSUME TypeOK, NEW t \in Threads, Aligned(t), Spending(t), Begin(t) \/ Work(t),
         UNCHANGED settings
  PROVE  Spending(t)'
<1> DEFINE k == job[t].tries
           a == job[t].asked
           n == client[t].attempt
<1>0. /\ k \in Nat /\ a \in Nat /\ n \in Nat
      /\ MaxRequests \in Nat /\ StepRetries \in Nat
      /\ settings.requests \in {0, MaxRequests}
      /\ client[t].phase \in Phases /\ job[t].phase \in JobPhases
  BY ClientAssumption, CallAssumption DEF TypeOK, Jobs, Calls, Settings
<1>1. Spent(k) \in Nat /\ Spent(k + 1) = Spent(k) + MaxRequests /\ k <= StepRetries
  BY <1>0, SpentIs DEF Spending
\* Up to the first request, and when the prompt cannot be rendered.
<1>2. ASSUME \/ Kept(t, "rendering") /\ At(t, "idle")
             \/ Kept(t, "checking") /\ At(t, "rendering")
             \/ Kept(t, "unrendered") /\ job[t].phase \in {"rendering", "checking"}
             \/ Kept(t, "asking") /\ At(t, "checking")
             \/ Kept(t, "raised") /\ job[t].phase \in {"unrendered", "converting"}
             \/ Kept(t, "raised") /\ At(t, "calling") /\ client[t].phase = "answered"
             \/ Kept(t, "converting") /\ At(t, "calling")
      PROVE  Spending(t)'
  BY <1>0, <1>1, <1>2 DEF Spending, Kept, At
<1>3. CASE Ask(t)
  <2>1. a <= Spent(k)
    BY <1>3 DEF Ask, At, Spending
  <2>2. CASE Goto(t, "calling") /\ (Skip(t) \/ NotSent(t))
    <3>1. Kept(t, "calling")
      BY <2>2, Moves
    <3>2. client'[t].phase = "answered"
      BY <2>2 DEF Skip, NotSent, Rules, NoCall, TypeOK
    <3> QED
      BY <1>0, <1>1, <2>1, <3>1, <3>2 DEF Spending, Kept
  <2>3. CASE Requests(t) /\ Send(t)
    <3>1. client'[t].attempt = 1 /\ MaxRequests > 0
      BY <1>0, <2>3 DEF Send, NoCall, TypeOK
    <3>2. job'[t].phase = "calling" /\ job'[t].tries = k /\ job'[t].asked = a + 1
      BY <2>3, Moves
    <3> QED
      BY <1>0, <1>1, <2>1, <3>1, <3>2 DEF Spending
  <2> QED
    BY <1>3, <2>2, <2>3 DEF Ask
<1>4. CASE Receive(t)
  <2>1. job' = job
    BY <1>4 DEF Receive
  <2>2. PICK r \in Replies : ReceiveFailure(t, r) \/ ReceiveLast(t, r)
    BY <1>4 DEF Receive
  <2>3. client[t].phase = "sending"
    BY <2>2 DEF ReceiveFailure, ReceiveLast
  <2>4. client'[t].phase = "answered" \/ client'[t].attempt = n
    BY <2>2, ResolutionAnswers DEF ReceiveFailure, ReceiveLast, TypeOK, Calls
  <2> QED
    BY <1>0, <1>1, <2>1, <2>3, <2>4 DEF Spending
<1>5. CASE AskAgain(t)
  <2>1. client[t].phase = "waiting" /\ n + 1 <= MaxRequests /\ job[t].phase = "calling"
    BY <1>0, <1>5 DEF AskAgain, SendAgain, Aligned, JobPhases
  <2>2. client'[t].attempt = n + 1
    <3> DEFINE m == n + 1
    <3>1. client' = [client EXCEPT ![t] = [client[t] EXCEPT !.phase = "sending",
                                                           !.attempt = m]]
      BY <1>5 DEF AskAgain, SendAgain
    <3> HIDE DEF m
    <3>2. client'[t].attempt = m
      BY <3>1 DEF TypeOK, Calls
    <3> QED
      BY <3>2 DEF m
  <2>3. job'[t].phase = "calling" /\ job'[t].tries = k /\ job'[t].asked = a + 1
    BY <1>5, Moves DEF AskAgain
  <2>4. a <= Spent(k) + n
    BY <2>1 DEF Spending
  <2> HIDE DEF n, a, k
  <2> QED
    BY <1>0, <1>1, <2>1, <2>2, <2>3, <2>4 DEF Spending
<1>6. CASE RetryStep(t)
  <2>1. job'[t].phase = "rendering" /\ job'[t].tries = k + 1 /\ job'[t].asked = a
    BY <1>6, Moves
  <2>2. a <= Spent(k) + MaxRequests /\ k < StepRetries
    BY <1>6 DEF Spending, RetryStep, At, Retried
  <2> QED
    BY <1>0, <1>1, <2>1, <2>2 DEF Spending
<1>7. ASSUME job'[t].phase \in {"returned", "failed"}, job'[t].tries = 0, job'[t].asked = 0
      PROVE  Spending(t)'
  BY <1>0, <1>7 DEF Spending
<1> HIDE DEF k, a, n
<1> QED
  BY <1>2, <1>3, <1>4, <1>5, <1>6, <1>7, Moves
     DEF Begin, Work, ResolvePath, Reject, RejectedAt, LogRendered, LogUnrendered,
         Attach, Convert, Locked, At

\* and within what it may have logged.
LEMMA LoggingStep ==
  ASSUME TypeOK, NEW t \in Threads, RowsKnown(t), Aligned(t), Spending(t), Logging(t),
         Begin(t) \/ Work(t)
  PROVE  Logging(t)'
<1> DEFINE k == job[t].tries
           n == Tried(t)
<1>0. /\ k \in Nat /\ n \in Nat /\ StepRetries \in Nat
      /\ k <= StepRetries
      /\ job[t].phase \in JobPhases
      /\ IsFiniteSet(MyRows(t))
  BY CallAssumption, FS_CardinalityType DEF TypeOK, Jobs, Logging, Spending, Tried
\* A row is written.
<1>1. ASSUME NEW e \in Errors \cup {None}, promptRuns' = Append(promptRuns, Row(t, e))
      PROVE  IsFiniteSet(MyRows(t))' /\ Tried(t)' = n + 1
  <2>1. MyRows(t)' = MyRows(t) \cup {Len(promptRuns) + 1}
    BY <1>1, RowAdded
  <2>2. Len(promptRuns) + 1 \notin MyRows(t)
    BY LenProperties DEF TypeOK, MyRows, RowsOf
  <2> QED
    BY <1>0, <2>1, <2>2, FS_AddElement DEF Tried
<1>2. CASE LogRendered(t)
  <2>1. Kept(t, "asking") /\ n <= k
    BY <1>2, Moves DEF LogRendered, At, Logging
  <2>2. IsFiniteSet(MyRows(t))' /\ Tried(t)' = n + 1
    BY <1>1, <1>2 DEF LogRendered
  <2> HIDE DEF n
  <2> QED
    BY <1>0, <2>1, <2>2 DEF Logging, Kept
<1>3. CASE LogUnrendered(t)
  <2>1. Kept(t, "raised") /\ n <= k
    BY <1>3, Moves DEF LogUnrendered, At, Logging
  <2>2. job[t].error \in Errors \cup {None}
    BY DEF TypeOK, Jobs
  <2>3. IsFiniteSet(MyRows(t))' /\ Tried(t)' = n + 1
    BY <1>1, <1>3, <2>2 DEF LogUnrendered
  <2> HIDE DEF n
  <2> QED
    BY <1>0, <2>1, <2>3 DEF Logging, Kept
\* No row is written.
<1>4. ASSUME MyRows(t)' = MyRows(t),
             \/ Kept(t, "rendering") /\ At(t, "idle")
             \/ Kept(t, "checking") /\ At(t, "rendering")
             \/ Kept(t, "unrendered") /\ job[t].phase \in {"rendering", "checking"}
             \/ Kept(t, "raised") /\ job[t].phase \in {"unrendered", "calling", "converting"}
             \/ Kept(t, "converting") /\ At(t, "calling")
             \/ /\ job[t].phase \in {"asking", "calling"}
                /\ job'[t].phase = "calling" /\ job'[t].tries = k
             \/ job' = job
             \/ /\ At(t, "raised") /\ job'[t].phase = "rendering"
                /\ job'[t].tries = k + 1
             \/ /\ job[t].phase \in {"converting", "raised"}
                /\ job'[t].phase \in {"returned", "failed"}
      PROVE  Logging(t)'
  <2>1. IsFiniteSet(MyRows(t))' /\ Tried(t)' = n
    BY <1>0, <1>4 DEF Tried
  <2> HIDE DEF n
  <2>2. /\ job[t].phase \in {"idle", "rendering", "checking", "unrendered"} => n <= k
        /\ job[t].phase \in {"asking", "calling", "converting", "raised"} => n <= k + 1
    BY DEF Logging, n
  <2>3. job' = job => Logging(t)'
    BY <2>1 DEF Logging, n
  <2> QED
    BY <1>0, <1>4, <2>1, <2>2, <2>3 DEF Logging, Kept, At
<1>5. CASE Attach(t)
  <2>1. MyRows(t)' = MyRows(t)
    BY <1>5, RowAttached DEF Attach, At, RowsKnown
  <2>2. Kept(t, "converting")
    BY <1>5, Moves DEF Attach
  <2> QED
    BY <1>4, <1>5, <2>1, <2>2 DEF Attach
<1>6. CASE promptRuns' = promptRuns
  <2>1. MyRows(t)' = MyRows(t)
    BY <1>6, BareStays
  <2>2. AskAgain(t) => job[t].phase = "calling"
    BY DEF AskAgain, SendAgain, Aligned, TypeOK, Jobs, JobPhases
  <2>3. CASE Ask(t) \/ AskAgain(t)
    <3>1. /\ job[t].phase \in {"asking", "calling"}
          /\ job'[t].phase = "calling" /\ job'[t].tries = k
      BY <2>2, <2>3, Moves DEF Ask, AskAgain, At, Kept
    <3> QED
      BY <1>4, <2>1, <3>1
  <2>4. CASE RetryStep(t) \/ FailStep(t)
    <3>1. At(t, "raised")
      BY <2>4 DEF RetryStep, FailStep
    <3>2. /\ RetryStep(t) => job'[t].phase = "rendering" /\ job'[t].tries = k + 1
          /\ FailStep(t) => job'[t].phase = "failed"
      BY Moves
    <3> HIDE DEF k, n
    <3> QED
      BY <1>4, <2>1, <2>4, <3>1, <3>2 DEF At
  <2>5. CASE Convert(t)
    BY <1>4, <2>1, <2>5, Moves DEF Convert, At
  <2>6. CASE Begin(t) \/ (\E template \in Templates : ResolvePath(t, template))
               \/ (\E defect \in Defects : Reject(t, defect)) \/ Receive(t) \/ Locked(t)
    <3> HIDE DEF n, k
    <3> QED
    BY <1>4, <2>1, <2>6, Moves DEF Begin, ResolvePath, Reject, RejectedAt, Receive, Locked, At
  <2>7. ~LogRendered(t) /\ ~LogUnrendered(t)
    <3>1. Len(promptRuns') # Len(promptRuns) + 1
      BY <1>6, LenProperties DEF TypeOK
    <3>2. \A e \in Errors \cup {None} :
            Len(Append(promptRuns, Row(t, e))) = Len(promptRuns) + 1
      BY AppendProperties, RowTyped DEF TypeOK
    <3>3. job[t].error \in Errors \cup {None}
      BY DEF TypeOK, Jobs
    <3> QED
      BY <3>1, <3>2, <3>3 DEF LogRendered, LogUnrendered
  <2>8. CASE Attach(t)
    BY <1>5, <2>8
  <2> QED
    BY <2>3, <2>4, <2>5, <2>6, <2>7, <2>8 DEF Work
<1> QED
  BY <1>2, <1>3, <1>5, <1>6
     DEF Begin, Work, ResolvePath, Reject, Ask, Receive, AskAgain, Convert, Locked,
         RetryStep, FailStep

\* The retries of the client and of the engine multiply and no more: no step sends
\* more than (StepRetries + 1) * MaxRequests requests or writes more than
\* StepRetries + 1 rows (runner.py:131, retry_policy.py:28-42, llm_client.py:94-158).
THEOREM StepsBounded == Spec => []StepIsBounded
<1>1. Init => AllBounded
  <2> SUFFICES ASSUME Init, NEW t \in Threads PROVE Spending(t) /\ Logging(t)
    BY DEF AllBounded
  <2>1. job[t] = NoJob /\ MyRows(t) = {}
    BY DEF Init, MyRows, RowsOf
  <2> QED
    BY <2>1, SpentIs, CallAssumption, FS_EmptySet DEF NoJob, Spending, Logging, Tried
<1>2. TypeOK /\ CallsAligned /\ AllRowsKnown /\ AllBounded /\ [Next]_vars => AllBounded'
  <2> SUFFICES ASSUME TypeOK, CallsAligned, AllRowsKnown, AllBounded, [Next]_vars,
                      NEW u \in Threads
               PROVE  Spending(u)' /\ Logging(u)'
    BY DEF AllBounded
  <2>1. Spending(u) /\ Logging(u)
    BY DEF AllBounded
  <2>2. CASE UNCHANGED vars
    BY <2>1, <2>2 DEF vars, Spending, Logging, Tried, MyRows, RowsOf
  <2>3. ASSUME NEW t \in Threads, Begin(t) \/ Work(t), UNCHANGED settings
        PROVE  Spending(u)' /\ Logging(u)'
    <3>1. RowsKnown(t) /\ Aligned(t) /\ Spending(t) /\ Logging(t)
      BY DEF AllRowsKnown, CallsAligned, AllBounded
    <3>2. CASE u = t
      BY <2>3, <3>1, <3>2, SpendingStep, LoggingStep
    <3>3. CASE u # t
      <4>1. job'[u] = job[u] /\ client'[u] = client[u]
        BY <2>3, <3>3, OthersStay
      <4>2. MyRows(u)' = MyRows(u)
        BY <2>3, <3>1, <3>3, OtherRowsStay
      <4> QED
        BY <2>1, <4>1, <4>2 DEF Spending, Logging, Tried
    <3> QED
      BY <3>2, <3>3
  <2> QED
    BY <2>2, <2>3 DEF Next
<1>3. TypeOK /\ AllBounded => StepIsBounded
  <2> SUFFICES ASSUME TypeOK, AllBounded, NEW t \in Threads
               PROVE  /\ job[t].asked <= Spent(StepRetries + 1)
                      /\ Tried(t) <= StepRetries + 1
    BY DEF StepIsBounded, Spent, Tried, MyRows
  <2> DEFINE k == job[t].tries
  <2>1. /\ k \in Nat /\ k <= StepRetries /\ job[t].asked \in Nat
        /\ client[t].attempt \in Nat /\ Tried(t) \in Nat
        /\ MaxRequests \in Nat /\ StepRetries \in Nat
        /\ job[t].phase \in JobPhases
    BY ClientAssumption, CallAssumption, FS_CardinalityType
       DEF TypeOK, Jobs, Calls, AllBounded, Spending, Logging, Tried
  <2>2. /\ Spent(k) \in Nat /\ Spent(StepRetries + 1) \in Nat
        /\ Spent(k) + MaxRequests <= Spent(StepRetries + 1)
    BY <2>1, SpentIs
  <2>3. Spending(t) /\ Logging(t)
    BY DEF AllBounded
  <2> HIDE DEF k
  <2>4. /\ job[t].phase \in {"idle", "rendering", "checking", "unrendered", "asking"}
             => job[t].asked <= Spent(k)
        /\ job[t].phase \in {"calling", "converting", "raised"}
             => job[t].asked <= Spent(k) + MaxRequests
        /\ job[t].phase \in {"returned", "failed"} => job[t].asked = 0
        /\ Tried(t) <= k + 1 \/ Tried(t) <= StepRetries + 1
    BY <2>1, <2>3 DEF Spending, Logging, JobPhases, k
  <2> QED
    BY <2>1, <2>2, <2>4 DEF JobPhases
<1> QED
  BY <1>1, <1>2, <1>3, StepsAligned, RowsStayKnown, PTL DEF Spec

-----------------------------------------------------------------------------
\* The rows and the counters.  What is counted and not logged yet is owed by a
\* thread: with what is logged, it is at most what was counted.
LintError(e) == e = "PromptLintError"

InCommon == {i \in DOMAIN promptRuns : promptRuns[i].fallback = 1}

Linted == {i \in DOMAIN promptRuns : LintError(promptRuns[i].error)}

OwesCommon ==
  {t \in Threads : job[t].phase \in {"checking", "unrendered"} /\ job[t].fallback = 1}

OwesLint ==
  {t \in Threads : At(t, "unrendered") /\ LintError(job[t].error)}

\* Until a prompt is resolved and rejected, there is nothing to owe.
Fresh(t) ==
  /\ job[t].phase \in {"idle", "rendering", "checking"}
       => ~LintError(job[t].error)
  /\ job[t].phase \in {"idle", "rendering"} => job[t].fallback = 0

Covered(rows, owed, n) ==
  /\ IsFiniteSet(rows) /\ IsFiniteSet(owed)
  /\ Cardinality(rows) + Cardinality(owed) <= n

Books ==
  /\ Covered(InCommon, OwesCommon, counters["fallback_events"])
  /\ Covered(Linted, OwesLint, counters["schema_validation_errors"])
  /\ \A t \in Threads : Fresh(t)

\* One more is owed and counted; what is owed is logged; less is owed.
LEMMA CoverMoves ==
  ASSUME NEW rows, NEW owed, NEW n \in Nat, Covered(rows, owed, n), NEW t, NEW i
  PROVE  /\ Covered(rows, owed \cup {t}, n + 1)
         /\ Covered(rows, owed \ {t}, n)
         /\ Covered(rows, owed, n + 1)
         /\ t \in owed => Covered(rows \cup {i}, owed \ {t}, n)
<1>1. Cardinality(rows) \in Nat /\ Cardinality(owed) \in Nat
  BY FS_CardinalityType DEF Covered
<1>2. /\ IsFiniteSet(owed \cup {t})
      /\ Cardinality(owed \cup {t}) <= Cardinality(owed) + 1
  BY <1>1, FS_AddElement DEF Covered
<1>3. /\ IsFiniteSet(owed \ {t})
      /\ Cardinality(owed \ {t}) = IF t \in owed THEN Cardinality(owed) - 1
                                   ELSE Cardinality(owed)
  BY FS_RemoveElement DEF Covered
<1>4. /\ IsFiniteSet(rows \cup {i})
      /\ Cardinality(rows \cup {i}) <= Cardinality(rows) + 1
  BY <1>1, FS_AddElement DEF Covered
<1>5. /\ Cardinality(owed \cup {t}) \in Nat /\ Cardinality(owed \ {t}) \in Nat
      /\ Cardinality(rows \cup {i}) \in Nat
  BY <1>2, <1>3, <1>4, FS_CardinalityType
<1> QED
  BY <1>1, <1>2, <1>3, <1>4, <1>5 DEF Covered

\* A row of t, and the sets of rows.
LEMMA RowCounts ==
  ASSUME TypeOK, NEW t \in Threads, NEW e \in Errors \cup {None},
         promptRuns' = Append(promptRuns, Row(t, e))
  PROVE  LET i == Len(promptRuns) + 1 IN
         /\ InCommon' = IF job[t].fallback = 1 THEN InCommon \cup {i} ELSE InCommon
         /\ Linted' = IF LintError(e) THEN Linted \cup {i}
                         ELSE Linted
<1> DEFINE n == Len(promptRuns)
<1>1. /\ n \in Nat
      /\ DOMAIN promptRuns = 1 .. n
      /\ DOMAIN promptRuns' = 1 .. (n + 1)
      /\ \A i \in 1 .. n : promptRuns'[i] = promptRuns[i]
      /\ promptRuns'[n + 1] = Row(t, e)
  BY LenProperties, AppendProperties, RowTyped DEF TypeOK
<1>2. promptRuns'[n + 1].fallback = job[t].fallback /\ promptRuns'[n + 1].error = e
  BY <1>1 DEF Row
<1> HIDE DEF n
<1>3. InCommon' = IF job[t].fallback = 1 THEN InCommon \cup {n + 1} ELSE InCommon
  BY <1>1, <1>2 DEF InCommon
<1>4. Linted' = IF LintError(e) THEN Linted \cup {n + 1}
                   ELSE Linted
  BY <1>1, <1>2 DEF Linted
<1> QED
  BY <1>3, <1>4 DEF n

\* Attaching metadata changes nothing else of the rows.
LEMMA AttachCounts ==
  ASSUME TypeOK, NEW t \in Threads, Attach(t)
  PROVE  InCommon' = InCommon /\ Linted' = Linted
<1> DEFINE n == NewestRow(t)
           m == Merged(MetadataOf(client[t]), promptRuns[n].meta)
<1>1. promptRuns' = [promptRuns EXCEPT ![n] = [promptRuns[n] EXCEPT !.meta = m]]
  BY DEF Attach
<1>2. \A i \in DOMAIN promptRuns : promptRuns[i] \in Rows
  BY DEF TypeOK
<1> HIDE DEF m, n
<1>3. /\ DOMAIN promptRuns' = DOMAIN promptRuns
      /\ \A i \in DOMAIN promptRuns : /\ promptRuns'[i].fallback = promptRuns[i].fallback
                                      /\ promptRuns'[i].error = promptRuns[i].error
  BY <1>1, <1>2 DEF Rows
<1> QED
  BY <1>3 DEF InCommon, Linted

\* Only t's own debts change with its step.
LEMMA OwesMoves ==
  ASSUME TypeOK, NEW t \in Threads, Begin(t) \/ Work(t)
  PROVE  /\ OwesCommon' = IF /\ job'[t].phase \in {"checking", "unrendered"}
                             /\ job'[t].fallback = 1
                          THEN OwesCommon \cup {t} ELSE OwesCommon \ {t}
         /\ OwesLint' = IF job'[t].phase = "unrendered" /\ LintError(job'[t].error)
                             THEN OwesLint \cup {t} ELSE OwesLint \ {t}
<1>1. \A u \in Threads : u # t => job'[u] = job[u]
  BY OthersStay
<1> QED
  BY <1>1 DEF OwesCommon, OwesLint, LintError, At

\* What each way of moving leaves of the fallback and the error.
LEMMA DebtMoves ==
  ASSUME TypeOK, NEW t \in Threads
  PROVE  /\ \A phase : Goto(t, phase) => /\ job'[t].phase = phase
                                         /\ job'[t].fallback = job[t].fallback
                                         /\ job'[t].error = job[t].error
         /\ \A f : Becomes(t, [job[t] EXCEPT !.phase = "checking", !.fallback = f])
                     => /\ job'[t].phase = "checking"
                        /\ job'[t].fallback = f
                        /\ job'[t].error = job[t].error
         /\ RetryStep(t) => /\ job'[t].phase = "rendering"
                            /\ job'[t].fallback = 0 /\ job'[t].error = None
<1>0. job[t] \in Jobs
  BY DEF TypeOK
<1>n. \A j : Becomes(t, j) => job'[t] = j
  BY BecomesMoves
<1>1. RetryStep(t) => /\ job'[t].phase = "rendering"
                      /\ job'[t].fallback = 0 /\ job'[t].error = None
  <2> DEFINE n == job[t].tries + 1
  <2>1. RetryStep(t) =>
          job'[t] = [job[t] EXCEPT !.phase = "rendering", !.error = None,
                       !.fallback = 0, !.row = 0, !.tries = n]
    BY <1>n DEF RetryStep
  <2> HIDE DEF n
  <2> QED
    BY <1>0, <2>1 DEF Jobs
<1> QED
  BY <1>0, <1>n, <1>1 DEF Goto, Jobs

\* The same of a step that fails.
LEMMA FailsLeaves ==
  ASSUME TypeOK, NEW t \in Threads, NEW phase, NEW e, Fails(t, phase, e)
  PROVE  /\ job'[t].phase = phase
         /\ job'[t].fallback = job[t].fallback
         /\ job'[t].error = e
<1>1. job[t] \in Jobs
  BY DEF TypeOK
<1>2. job'[t] = [job[t] EXCEPT !.phase = phase, !.error = e]
  BY BecomesMoves DEF Fails
<1> QED
  BY <1>1, <1>2 DEF Jobs

\* A step that owes and logs nothing.
LEMMA BooksUntouched ==
  ASSUME TypeOK, Books, NEW t \in Threads, Begin(t) \/ Work(t),
         InCommon' = InCommon, Linted' = Linted, UNCHANGED counters,
         job'[t].phase \notin {"checking", "unrendered"}
  PROVE  /\ Covered(InCommon, OwesCommon, counters["fallback_events"])'
         /\ Covered(Linted, OwesLint, counters["schema_validation_errors"])'
<1>1. OwesCommon' = OwesCommon \ {t} /\ OwesLint' = OwesLint \ {t}
  BY OwesMoves
<1>2. counters["fallback_events"] \in Nat /\ counters["schema_validation_errors"] \in Nat
  BY DEF TypeOK, Counters
<1> QED
  BY <1>1, <1>2, CoverMoves DEF Books

\* The books stay right: a fallback and a rejection are counted as they become owed,
\* and the row that shows one settles the debt.
LEMMA BooksStep ==
  ASSUME TypeOK, Books, NEW t \in Threads, Aligned(t), Begin(t) \/ Work(t)
  PROVE  /\ Covered(InCommon, OwesCommon, counters["fallback_events"])'
         /\ Covered(Linted, OwesLint, counters["schema_validation_errors"])'
         /\ Fresh(t)'
<1> DEFINE cf == counters["fallback_events"]
           cs == counters["schema_validation_errors"]
<1>0. /\ cf \in Nat /\ cs \in Nat
      /\ Covered(InCommon, OwesCommon, cf) /\ Covered(Linted, OwesLint, cs)
      /\ Fresh(t)
  BY DEF TypeOK, Counters, Books
<1>1. /\ Count("fallback_events") =>
           counters'["fallback_events"] = cf + 1 /\ counters'["schema_validation_errors"] = cs
      /\ Count("schema_validation_errors") =>
           counters'["fallback_events"] = cf /\ counters'["schema_validation_errors"] = cs + 1
  BY DEF TypeOK, Counters, Count
<1>2. promptRuns' = promptRuns => InCommon' = InCommon /\ Linted' = Linted
  BY DEF InCommon, Linted
<1>3. job[t] \in Jobs /\ t \in Threads
  BY DEF TypeOK
<1> HIDE DEF cf, cs
<1>4. ASSUME NEW template \in Templates, ResolvePath(t, template)
      PROVE  /\ Covered(InCommon, OwesCommon, cf)'
             /\ Covered(Linted, OwesLint, cs)'
             /\ Fresh(t)'
  <2>1. /\ promptRuns' = promptRuns /\ job[t].phase = "rendering" /\ job[t].fallback = 0
        /\ ~LintError(job[t].error)
    BY <1>0, <1>4 DEF ResolvePath, At, Fresh, LintError
  <2>2. /\ job'[t].phase \in {"checking", "unrendered"}
        /\ ~LintError(job'[t].error)
        /\ \/ job'[t].fallback = 0 /\ UNCHANGED counters
           \/ Count("fallback_events")
    <3>1. CASE template = "workflow"
      <4>1. Goto(t, "checking") /\ UNCHANGED counters
        BY <1>4, <3>1 DEF ResolvePath
      <4> QED
        BY <2>1, <4>1, DebtMoves
    <3>2. CASE template = "missing"
      <4>1. Fails(t, "unrendered", "FileNotFoundError") /\ UNCHANGED counters
        BY <1>4, <3>2 DEF ResolvePath
      <4>2. /\ job'[t].phase = "unrendered" /\ job'[t].fallback = job[t].fallback
            /\ job'[t].error = "FileNotFoundError"
        BY <4>1, FailsLeaves
      <4> QED
        BY <2>1, <4>1, <4>2 DEF LintError
    <3>3. CASE template \notin {"workflow", "missing"}
      <4> DEFINE f == IF template = "common" THEN 1 ELSE 0
      <4>1. /\ Becomes(t, [job[t] EXCEPT !.phase = "checking", !.fallback = f])
            /\ Count("fallback_events")
        BY <1>4, <3>3 DEF ResolvePath
      <4> HIDE DEF f
      <4> QED
        BY <2>1, <4>1, DebtMoves
    <3> QED
      BY <3>1, <3>2, <3>3
  <2>3. OwesLint' = OwesLint \ {t}
    BY <2>2, OwesMoves
  <2>4. OwesCommon' = IF job'[t].fallback = 1 THEN OwesCommon \cup {t}
                      ELSE OwesCommon \ {t}
    BY <2>2, OwesMoves
  <2>5. t \notin OwesCommon
    BY <2>1 DEF OwesCommon
  <2>6. OwesCommon \ {t} = OwesCommon
    BY <2>5
  <2>7. Fresh(t)'
    BY <2>2 DEF Fresh, LintError
  <2>8. CASE job'[t].fallback = 0 /\ UNCHANGED counters
    <3>1. OwesCommon' = OwesCommon \ {t}
      BY <2>4, <2>8
    <3> QED
      BY <1>0, <1>2, <2>1, <2>3, <2>7, <2>8, <3>1, CoverMoves DEF cf, cs
  <2>9. CASE Count("fallback_events")
    <3>1. Covered(InCommon, OwesCommon, cf)'
      <4>1. OwesCommon' = OwesCommon \cup {t} \/ OwesCommon' = OwesCommon
        BY <2>4, <2>6
      <4>2. InCommon' = InCommon /\ counters'["fallback_events"] = cf + 1
        BY <1>1, <1>2, <2>1, <2>9
      <4>3. /\ Covered(InCommon, OwesCommon \cup {t}, cf + 1)
            /\ Covered(InCommon, OwesCommon, cf + 1)
        BY <1>0, CoverMoves
      <4> QED
        BY <4>1, <4>2, <4>3 DEF cf
    <3>2. Covered(Linted, OwesLint, cs)'
      BY <1>0, <1>1, <1>2, <2>1, <2>3, <2>9, CoverMoves DEF cs
    <3> QED
      BY <2>7, <3>1, <3>2
  <2> QED
    BY <2>2, <2>8, <2>9
<1>5. ASSUME NEW defect \in Defects, Reject(t, defect)
      PROVE  /\ Covered(InCommon, OwesCommon, cf)'
             /\ Covered(Linted, OwesLint, cs)'
             /\ Fresh(t)'
  <2>1. promptRuns' = promptRuns /\ job[t].phase = RejectedAt(defect)
    BY <1>5 DEF Reject, At
  <2>2. /\ job'[t].phase = "unrendered" /\ job'[t].fallback = job[t].fallback
        /\ job'[t].error = DefectError(defect)
    <3>1. Fails(t, "unrendered", DefectError(defect))
      BY <1>5 DEF Reject
    <3> QED
      BY <3>1, FailsLeaves
  <2>3. OwesLint' = IF defect = "lint" THEN OwesLint \cup {t} ELSE OwesLint \ {t}
    BY <2>2, OwesMoves DEF DefectError, LintError
  <2>4. OwesCommon' = OwesCommon
    <3>1. CASE defect = "contract"
      <4>1. job[t].phase = "rendering" /\ job[t].fallback = 0
        BY <1>0, <2>1, <3>1 DEF RejectedAt, Fresh
      <4>2. OwesCommon \ {t} = OwesCommon
        BY <4>1 DEF OwesCommon
      <4>3. OwesCommon' = OwesCommon \ {t}
        BY <2>2, <4>1, OwesMoves
      <4> QED
        BY <4>2, <4>3
    <3>2. CASE defect # "contract"
      <4>1. job[t].phase = "checking"
        BY <2>1, <3>2 DEF RejectedAt
      <4>2. job[t].fallback = 1 <=> t \in OwesCommon
        BY <4>1 DEF OwesCommon
      <4> QED
        BY <2>2, <4>2, OwesMoves
    <3> QED
      BY <3>1, <3>2
  <2>5. CASE defect \in {"schema", "lint"}
    <3>1. Count("schema_validation_errors")
      BY <1>5, <2>5 DEF Reject
    <3>2. Covered(InCommon, OwesCommon, cf)'
      BY <1>0, <1>1, <1>2, <2>1, <2>4, <3>1 DEF cf
    <3>3. /\ Covered(Linted, OwesLint \cup {t}, cs + 1)
          /\ Covered(Linted, OwesLint \ {t}, cs + 1)
      <4>1. Covered(Linted, OwesLint \ {t}, cs)
        BY <1>0, CoverMoves
      <4> QED
        BY <1>0, <4>1, CoverMoves
    <3>4. Covered(Linted, OwesLint, cs)'
      BY <1>1, <1>2, <2>1, <2>3, <3>1, <3>3 DEF cs
    <3> QED
      BY <2>2, <3>2, <3>4 DEF Fresh
  <2>6. CASE defect \notin {"schema", "lint"}
    <3>1. UNCHANGED counters
      BY <1>5, <2>6 DEF Reject
    <3>2. Covered(InCommon, OwesCommon, cf)'
      BY <1>0, <1>2, <2>1, <2>4, <3>1 DEF cf
    <3>3. Covered(Linted, OwesLint \ {t}, cs)
      BY <1>0, CoverMoves
    <3>4. Covered(Linted, OwesLint, cs)'
      BY <1>2, <2>1, <2>3, <2>6, <3>1, <3>3 DEF cs
    <3> QED
      BY <2>2, <3>2, <3>4 DEF Fresh
  <2> QED
    BY <2>5, <2>6
\* A row is written: what it shows was owed.
<1>6. ASSUME NEW e \in Errors \cup {None}, promptRuns' = Append(promptRuns, Row(t, e)),
             UNCHANGED counters,
             job'[t].phase \in {"asking", "raised"},
             job[t].phase \in {"checking", "unrendered"},
             LintError(e) => t \in OwesLint
      PROVE  /\ Covered(InCommon, OwesCommon, cf)'
             /\ Covered(Linted, OwesLint, cs)'
             /\ Fresh(t)'
  <2>1. OwesCommon' = OwesCommon \ {t} /\ OwesLint' = OwesLint \ {t}
    BY <1>6, OwesMoves
  <2>2. job[t].fallback = 1 => t \in OwesCommon
    BY <1>6 DEF OwesCommon
  <2> DEFINE i == Len(promptRuns) + 1
  <2>3. /\ InCommon' = IF job[t].fallback = 1 THEN InCommon \cup {i} ELSE InCommon
        /\ Linted' = IF LintError(e) THEN Linted \cup {i} ELSE Linted
    BY <1>6, RowCounts DEF LintError
  <2> HIDE DEF i
  <2>4. Covered(InCommon, OwesCommon, cf)'
    BY <1>0, <1>6, <2>1, <2>2, <2>3, CoverMoves DEF cf
  <2>5. Covered(Linted, OwesLint, cs)'
    BY <1>0, <1>6, <2>1, <2>3, CoverMoves DEF cs
  <2> QED
    BY <1>6, <2>4, <2>5 DEF Fresh
<1>7. CASE LogRendered(t)
  <2>1. /\ job[t].phase = "checking" /\ job'[t].phase = "asking"
        /\ promptRuns' = Append(promptRuns, Row(t, None)) /\ UNCHANGED counters
    BY <1>7, LoggedMoves DEF LogRendered, At
  <2>2. ~LintError(None)
    BY CallAssumption DEF LintError, Errors
  <2> QED
    BY <1>6, <2>1, <2>2 DEF cf, cs
<1>8. CASE LogUnrendered(t)
  <2>1. /\ job[t].phase = "unrendered" /\ job'[t].phase = "raised"
        /\ promptRuns' = Append(promptRuns, Row(t, job[t].error)) /\ UNCHANGED counters
    BY <1>8, GotoMoves DEF LogUnrendered, At
  <2>2. LintError(job[t].error) => t \in OwesLint
    BY <2>1 DEF OwesLint, At, LintError
  <2>3. job[t].error \in Errors \cup {None}
    BY <1>3 DEF Jobs
  <2> QED
    BY <1>6, <2>1, <2>2, <2>3 DEF cf, cs
\* A lock while the prompt is rendered leaves the debt, anywhere else it loses the row.
<1>9. CASE Locked(t)
  <2>1. InCommon' = InCommon /\ Linted' = Linted /\ UNCHANGED counters
    BY <1>2, <1>9 DEF Locked
  <2>2. CASE /\ job[t].phase \in {"rendering", "checking"}
             /\ Fails(t, "unrendered", "OperationalError")
    <3>1. /\ job'[t].phase = "unrendered" /\ job'[t].fallback = job[t].fallback
          /\ job'[t].error = "OperationalError"
      <4>1. Fails(t, "unrendered", "OperationalError")
        BY <2>2
      <4> QED
        BY <4>1, FailsLeaves
    <3>2. OwesLint' = OwesLint \ {t}
      BY <3>1, OwesMoves DEF LintError
    <3>3. OwesCommon' = OwesCommon \/ OwesCommon' = OwesCommon \ {t}
      <4>1. CASE job[t].fallback = 1
        <5>1. job[t].phase = "checking"
          BY <1>0, <2>2, <4>1 DEF Fresh
        <5> QED
          BY <3>1, <4>1, <5>1, OwesMoves DEF OwesCommon
      <4>2. CASE job[t].fallback # 1
        BY <3>1, <4>2, OwesMoves
      <4> QED
        BY <4>1, <4>2
    <3>4. Covered(InCommon, OwesCommon, cf)'
      <4>1. Covered(InCommon, OwesCommon \ {t}, cf)
        BY <1>0, CoverMoves
      <4> QED
        BY <1>0, <2>1, <3>3, <4>1 DEF cf
    <3>5. Covered(Linted, OwesLint, cs)'
      <4>1. Covered(Linted, OwesLint \ {t}, cs)
        BY <1>0, CoverMoves
      <4> QED
        BY <2>1, <3>2, <4>1 DEF cs
    <3> QED
      BY <3>1, <3>4, <3>5 DEF Fresh, cf, cs
  <2>3. CASE Fails(t, "raised", "OperationalError")
    <3>1. job'[t].phase = "raised"
      BY <2>3, FailsLeaves
    <3> QED
      BY <2>1, <3>1, BooksUntouched DEF Fresh, cf, cs
  <2> QED
    BY <1>9, <2>2, <2>3 DEF Locked
<1>10. CASE Begin(t)
  <2>1. /\ job'[t].phase = "rendering" /\ job[t].phase = "idle"
        /\ job'[t].fallback = job[t].fallback /\ job'[t].error = job[t].error
    BY <1>10, DebtMoves DEF Begin, At
  <2>2. Fresh(t)'
    BY <1>0, <2>1 DEF Fresh
  <2> QED
    BY <1>2, <1>10, <2>1, <2>2, BooksUntouched DEF Begin, cf, cs
<1>11. CASE RetryStep(t)
  <2>1. job'[t].phase = "rendering" /\ job'[t].fallback = 0 /\ ~LintError(job'[t].error)
    BY <1>11, DebtMoves, CallAssumption DEF LintError, Errors
  <2>2. Fresh(t)'
    BY <2>1 DEF Fresh, LintError
  <2> QED
    BY <1>2, <1>11, <2>1, <2>2, BooksUntouched DEF RetryStep, cf, cs
<1>12. CASE Ask(t) \/ Receive(t) \/ AskAgain(t) \/ Attach(t) \/ Convert(t)
              \/ (FailStep(t) /\ ~RetryStep(t))
  <2>1. InCommon' = InCommon /\ Linted' = Linted /\ UNCHANGED counters
    BY <1>2, <1>12, AttachCounts DEF Ask, Receive, AskAgain, Attach, Convert, FailStep
  <2>2. job'[t].phase \in {"calling", "converting", "returned", "raised", "failed"}
    <3>1. Receive(t) => job'[t].phase = "calling"
      BY DEF Receive, ReceiveFailure, ReceiveLast, Aligned, TypeOK, Jobs, JobPhases
    <3> QED
      BY <1>12, <3>1, GotoMoves, RequestsMoves, FailsMoves, ReturnedMoves, EndMoves
         DEF Ask, AskAgain, Attach, Convert
  <2> QED
    BY <2>1, <2>2, BooksUntouched DEF Fresh, cf, cs
<1> QED
  BY <1>4, <1>5, <1>7, <1>8, <1>9, <1>10, <1>11, <1>12 DEF Work, cf, cs

\* The counters are never behind the rows they cover: a fallback or a failed lint that
\* the log shows has been counted, whichever transaction finds the database locked and
\* whatever else, counted or not, is wrong with other prompts
\* (prompt_templates.py:174-180, 498-500, 537).
THEOREM RowsAreCounted == Spec => []CountersCoverRows
<1>1. Init => Books
  <2> SUFFICES ASSUME Init PROVE Books
    OBVIOUS
  <2>1. InCommon = {} /\ Linted = {}
    BY DEF Init, InCommon, Linted
  <2>2. OwesCommon = {} /\ OwesLint = {}
    BY DEF Init, NoJob, OwesCommon, OwesLint, At
  <2>3. counters["fallback_events"] = 0 /\ counters["schema_validation_errors"] = 0
    BY DEF Init, Counters
  <2>4. \A t \in Threads : Fresh(t)
    BY CallAssumption DEF Init, NoJob, Fresh, LintError, Errors
  <2> QED
    BY <2>1, <2>2, <2>3, <2>4, FS_EmptySet DEF Books, Covered
<1>2. TypeOK /\ CallsAligned /\ Books /\ [Next]_vars => Books'
  <2> SUFFICES ASSUME TypeOK, CallsAligned, Books, [Next]_vars PROVE Books'
    OBVIOUS
  <2>1. CASE UNCHANGED vars
    BY <2>1 DEF vars, Books, InCommon, Linted, OwesCommon, OwesLint, At, Fresh
  <2>2. ASSUME NEW t \in Threads, Begin(t) \/ Work(t)
        PROVE  Books'
    <3>1. \A u \in Threads : u # t => Fresh(u)'
      <4> SUFFICES ASSUME NEW u \in Threads, u # t PROVE Fresh(u)'
        OBVIOUS
      <4>1. job'[u] = job[u] /\ Fresh(u)
        BY <2>2, OthersStay DEF Books
      <4> QED
        BY <4>1 DEF Fresh
    <3>2. Aligned(t)
      BY DEF CallsAligned
    <3> QED
      BY <2>2, <3>1, <3>2, BooksStep DEF Books
  <2> QED
    BY <2>1, <2>2 DEF Next
<1>3. TypeOK /\ Books => CountersCoverRows
  <2> SUFFICES ASSUME TypeOK, Books PROVE CountersCoverRows
    OBVIOUS
  <2>1. /\ Cardinality(OwesCommon) \in Nat /\ Cardinality(OwesLint) \in Nat
        /\ Cardinality(InCommon) \in Nat /\ Cardinality(Linted) \in Nat
    BY FS_CardinalityType DEF Books, Covered
  <2>2. counters["fallback_events"] \in Nat /\ counters["schema_validation_errors"] \in Nat
    BY DEF TypeOK, Counters
  <2>3. /\ Cardinality(InCommon) <= counters["fallback_events"]
        /\ Cardinality(Linted) <= counters["schema_validation_errors"]
    BY <2>1, <2>2 DEF Books, Covered
  <2> QED
    BY <2>3 DEF CountersCoverRows, InCommon, Linted, LintError
<1> QED
  BY <1>1, <1>2, <1>3, StepsAligned, PTL DEF Spec

=============================================================================
