--------------------------- MODULE CrmToolProofs ---------------------------
(***************************************************************************)
(* Proofs about CrmTool.  Whatever the threads do, a call that was         *)
(* answered with success is in the timeline.  As long as no two calls for  *)
(* one key overlap, a key takes effect at most once and never after a      *)
(* conflict.  As long as no two calls on one deal overlap, the version     *)
(* counts the activities, an expected version is one that the caller has   *)
(* seen, the timeline accounts for the stage, and the tool implements      *)
(* CrmRecord.  Calls on other deals may come between any two steps.        *)
(***************************************************************************)
EXTENDS CrmTool, TLAPS

\* What the locals c of a call at step l hold: the deal always, the key and the
\* stage of a write, and the record once it was found.
WellFormed(l, c) ==
  /\ l # "idle" => c.deal \in Deals
  /\ l \notin {"idle", "get_record", "seeding"} => c.op \in Writes
  /\ l # "idle" /\ c.op \in Writes => c.key \in Keys
  /\ l # "idle" /\ c.op = "stage" => c.to \in Stages
  /\ l \notin {"idle", "lookup", "get_record", "seeding"} => c.rec \in Threads
  /\ l = "write_stage" => c.op = "stage"

TablesOK ==
  /\ store \in [Deals -> Threads \cup {None}]
  /\ record \in [Deals -> [Threads -> Records]]
  /\ timeline \in [Deals -> Seq(Entries)]
  /\ cache \in [Writes -> [Deals -> [Keys -> Answers]]]

CallsOK ==
  /\ pc \in [Threads -> PcValues]
  /\ call \in [Threads -> CallRecords]
  /\ \A t \in Threads : WellFormed(pc[t], call[t])

TypeInv == TablesOK /\ CallsOK

\* Success is answered only after the activity was appended.
AppendedIsWritten ==
  \A t \in Threads :
    Appended(t) => Written(call[t].op, call[t].deal, call[t].key) # {}

AnsweredInv == TypeInv /\ AnsweredIsWritten /\ AppendedIsWritten

-----------------------------------------------------------------------------
(* Typing. *)

\* The initial state is well typed.
LEMMA InitTypeInv == Init => TypeInv
<1> SUFFICES ASSUME Init PROVE TypeInv
  OBVIOUS
<1>1. TablesOK
  BY CrmAssumption DEF Init, TablesOK, Seed, Records, Answers
<1>2. NoCall \in CallRecords
  BY DEF NoCall, CallRecords
<1>3. CallsOK
  BY <1>2 DEF Init, CallsOK, WellFormed, PcValues
<1> QED
  BY <1>1, <1>3 DEF TypeInv

\* One thread goes to step l with the locals c; the others stay where they are.
LEMMA ThreadMoves ==
  ASSUME CallsOK, NEW t \in Threads, NEW l \in PcValues, NEW c \in CallRecords,
         WellFormed(l, c), Goto(t, l), call' = [call EXCEPT ![t] = c]
  PROVE  /\ CallsOK'
         /\ pc'[t] = l /\ call'[t] = c
         /\ \A s \in Threads \ {t} : pc'[s] = pc[s] /\ call'[s] = call[s]
<1>1. /\ pc' \in [Threads -> PcValues] /\ call' \in [Threads -> CallRecords]
      /\ pc'[t] = l /\ call'[t] = c
      /\ \A s \in Threads \ {t} : pc'[s] = pc[s] /\ call'[s] = call[s]
  BY DEF CallsOK, Goto
<1>2. \A s \in Threads : WellFormed(pc'[s], call'[s])
  BY <1>1 DEF CallsOK
<1> QED
  BY <1>1, <1>2 DEF CallsOK

\* The same with the locals as they are.
LEMMA ThreadGoes ==
  ASSUME CallsOK, NEW t \in Threads, NEW l \in PcValues,
         WellFormed(l, call[t]), Goto(t, l), UNCHANGED call
  PROVE  /\ CallsOK'
         /\ pc'[t] = l /\ call'[t] = call[t]
         /\ \A s \in Threads \ {t} : pc'[s] = pc[s] /\ call'[s] = call[s]
<1>1. call[t] \in CallRecords /\ call' = [call EXCEPT ![t] = call[t]]
  BY DEF CallsOK
<1> QED
  BY <1>1, ThreadMoves

\* A call that returns leaves an idle thread.
LEMMA ThreadReturns ==
  ASSUME CallsOK, NEW t \in Threads, Return(t)
  PROVE  /\ CallsOK'
         /\ pc'[t] = "idle" /\ call'[t] = NoCall
         /\ \A s \in Threads \ {t} : pc'[s] = pc[s] /\ call'[s] = call[s]
<1>1. NoCall \in CallRecords /\ WellFormed("idle", NoCall)
  BY CrmAssumption DEF NoCall, CallRecords, WellFormed, Writes
<1>2. "idle" \in PcValues
  BY DEF PcValues
<1> QED
  BY <1>1, <1>2, ThreadMoves DEF Return

\* A call's first step gives its locals their types.
LEMMA CallTypeInv ==
  ASSUME TypeInv, NEW t \in Threads, Call(t)
  PROVE  TypeInv' /\ pc[t] = "idle" /\ pc'[t] \in {"get_record", "lookup"}
         /\ (pc'[t] = "get_record" => call'[t].op = "fetch")
         /\ \A s \in Threads \ {t} : pc'[s] = pc[s] /\ call'[s] = call[s]
<1> USE CrmAssumption DEF NoCall, CallRecords, WellFormed, PcValues, Writes
<1>1. PICK d \in Deals :
        \/ Fetch(t, d)
        \/ \E k \in Keys, v \in Expected : AppendActivityLog(t, d, k, v)
        \/ \E k \in Keys, s \in Stages, v \in Expected : UpdateDealStage(t, d, k, s, v)
  BY DEF Call
<1>2. TablesOK' /\ pc[t] = "idle"
  BY <1>1 DEF Fetch, AppendActivityLog, UpdateDealStage, TypeInv, TablesOK
<1>3. ASSUME Fetch(t, d)
      PROVE  CallsOK' /\ pc'[t] = "get_record" /\ call'[t].op = "fetch"
             /\ \A s \in Threads \ {t} : pc'[s] = pc[s] /\ call'[s] = call[s]
  <2> DEFINE c == [NoCall EXCEPT !.deal = d]
  <2>1. c \in CallRecords /\ WellFormed("get_record", c) /\ c.op = "fetch"
    OBVIOUS
  <2>2. Goto(t, "get_record") /\ call' = [call EXCEPT ![t] = c]
    BY <1>3 DEF Fetch
  <2> HIDE DEF c
  <2> QED
    BY <2>1, <2>2, ThreadMoves DEF TypeInv
<1>4. ASSUME NEW k \in Keys, NEW v \in Expected, AppendActivityLog(t, d, k, v)
      PROVE  CallsOK' /\ pc'[t] = "lookup"
             /\ \A s \in Threads \ {t} : pc'[s] = pc[s] /\ call'[s] = call[s]
  <2> DEFINE c == [NoCall EXCEPT !.op = "note", !.deal = d, !.key = k, !.expected = v]
  <2>1. c \in CallRecords /\ WellFormed("lookup", c)
    OBVIOUS
  <2>2. Goto(t, "lookup") /\ call' = [call EXCEPT ![t] = c]
    BY <1>4 DEF AppendActivityLog
  <2> HIDE DEF c
  <2> QED
    BY <2>1, <2>2, ThreadMoves DEF TypeInv
<1>5. ASSUME NEW k \in Keys, NEW z \in Stages, NEW v \in Expected,
             UpdateDealStage(t, d, k, z, v)
      PROVE  CallsOK' /\ pc'[t] = "lookup"
             /\ \A s \in Threads \ {t} : pc'[s] = pc[s] /\ call'[s] = call[s]
  <2> DEFINE c == [NoCall EXCEPT !.op = "stage", !.deal = d, !.key = k, !.to = z,
                                 !.expected = v]
  <2>1. c \in CallRecords /\ WellFormed("lookup", c)
    OBVIOUS
  <2>2. Goto(t, "lookup") /\ call' = [call EXCEPT ![t] = c]
    BY <1>5 DEF UpdateDealStage
  <2> HIDE DEF c
  <2> QED
    BY <2>1, <2>2, ThreadMoves DEF TypeInv
<1> QED
  BY <1>1, <1>2, <1>3, <1>4, <1>5 DEF TypeInv

\* A record object changes to another record.
LEMMA RecordTyped ==
  ASSUME TablesOK, NEW d \in Deals, NEW r \in Threads, NEW v \in Records,
         record' = [record EXCEPT ![d] = [record[d] EXCEPT ![r] = v]]
  PROVE  record' \in [Deals -> [Threads -> Records]]
<1>1. record[d] \in [Threads -> Records]
  BY DEF TablesOK
<1>2. [record[d] EXCEPT ![r] = v] \in [Threads -> Records]
  BY <1>1
<1> QED
  BY <1>2 DEF TablesOK

\* What a step of a call leaves alone: its write, and the other threads.
SameWrite(t) == /\ call'[t].op = call[t].op /\ call'[t].deal = call[t].deal
                /\ call'[t].key = call[t].key
                /\ call'[t].expected = call[t].expected

OnlyMine(t) == /\ pc'[t] # "idle" => SameWrite(t)
               /\ \A s \in Threads \ {t} : pc'[s] = pc[s] /\ call'[s] = call[s]

\* Each step of a call keeps the types.
LEMMA WorkTypeInv ==
  ASSUME TypeInv, NEW t \in Threads, Work(t)
  PROVE  TypeInv' /\ OnlyMine(t)
<1> DEFINE l == pc[t]
           c == call[t]
<1>1. /\ c \in CallRecords /\ l \in PcValues /\ WellFormed(l, c)
  BY DEF TypeInv, CallsOK
<1>2. SUFFICES TablesOK' /\ CallsOK' /\ OnlyMine(t)
  BY DEF TypeInv
<1>3. ASSUME Return(t)
      PROVE  CallsOK' /\ OnlyMine(t)
  BY <1>3, ThreadReturns DEF TypeInv, OnlyMine
<1>4. ASSUME NEW m \in PcValues, Goto(t, m), UNCHANGED call, WellFormed(m, c)
      PROVE  CallsOK' /\ OnlyMine(t)
  BY <1>4, ThreadGoes DEF TypeInv, OnlyMine, SameWrite
<1>5. ASSUME NEW m \in PcValues, NEW x \in CallRecords, WellFormed(m, x), Goto(t, m),
             call' = [call EXCEPT ![t] = x], x.op = c.op, x.deal = c.deal,
             x.key = c.key, x.expected = c.expected
      PROVE  CallsOK' /\ OnlyMine(t)
  BY <1>5, ThreadMoves DEF TypeInv, OnlyMine, SameWrite
<1>6. CASE Lookup(t)
  <2>1. TablesOK'
    BY <1>6 DEF Lookup, TypeInv, TablesOK
  <2>2. CASE Return(t)
    BY <2>1, <2>2, <1>3
  <2>3. CASE Goto(t, "get_record") /\ UNCHANGED call
    BY <1>6, <2>1, <2>3, <1>1, <1>4 DEF Lookup, WellFormed, PcValues, Writes
  <2> QED
    BY <1>6, <2>2, <2>3 DEF Lookup
<1>7. CASE GetRecord(t)
  <2>1. TablesOK' /\ c.deal \in Deals /\ l = "get_record"
    BY <1>7, <1>1 DEF GetRecord, TypeInv, TablesOK, WellFormed
  <2>2. CASE Return(t)
    BY <2>1, <2>2, <1>3
  <2>3. CASE Goto(t, "seeding") /\ UNCHANGED call
    BY <2>1, <2>3, <1>1, <1>4 DEF WellFormed, PcValues, Writes
  <2>4. CASE store[c.deal] # None /\ c.op # "fetch"
    <3> DEFINE x == [c EXCEPT !.rec = store[c.deal]]
    <3>1. store[c.deal] \in Threads
      BY <2>1, <2>4 DEF TypeInv, TablesOK
    <3>2. x \in CallRecords /\ WellFormed("check", x) /\ "check" \in PcValues
      BY <2>1, <2>4, <1>1, <3>1 DEF CallRecords, WellFormed, PcValues, Writes
    <3>3. x.op = c.op /\ x.deal = c.deal /\ x.key = c.key /\ x.expected = c.expected
      BY <1>1 DEF CallRecords
    <3>4. Goto(t, "check") /\ call' = [call EXCEPT ![t] = x]
      BY <1>7, <2>4, <1>1 DEF GetRecord, TypeInv, CallsOK
    <3> HIDE DEF x
    <3> QED
      BY <2>1, <3>2, <3>3, <3>4, <1>5
  <2> QED
    BY <1>7, <2>2, <2>3, <2>4 DEF GetRecord
<1>8. CASE SeedRecord(t)
  <2>1. c.deal \in Deals /\ l = "seeding" /\ Seed \in Records
    BY <1>8, <1>1, CrmAssumption DEF SeedRecord, WellFormed, Seed, Records
  <2>2. record' \in [Deals -> [Threads -> Records]]
    BY <1>8, <2>1, RecordTyped DEF SeedRecord, TypeInv, TablesOK
  <2>3. TablesOK' /\ c.deal \in Deals /\ l = "seeding"
    BY <1>8, <2>1, <2>2 DEF SeedRecord, TypeInv, TablesOK
  <2>4. CASE Return(t)
    BY <2>3, <2>4, <1>3
  <2>5. CASE c.op # "fetch"
    <3> DEFINE x == [c EXCEPT !.rec = t]
    <3>1. x \in CallRecords /\ WellFormed("check", x) /\ "check" \in PcValues
      BY <2>3, <2>5, <1>1 DEF CallRecords, WellFormed, PcValues, Writes
    <3>2. x.op = c.op /\ x.deal = c.deal /\ x.key = c.key /\ x.expected = c.expected
      BY <1>1 DEF CallRecords
    <3>3. Goto(t, "check") /\ call' = [call EXCEPT ![t] = x]
      BY <1>8, <2>5, <1>1 DEF SeedRecord, TypeInv, CallsOK
    <3> HIDE DEF x
    <3> QED
      BY <2>3, <3>1, <3>2, <3>3, <1>5
  <2> QED
    BY <1>8, <2>4, <2>5 DEF SeedRecord
<1>9. CASE CheckVersion(t)
  <2>1. TablesOK' /\ l = "check" /\ UNCHANGED call
    BY <1>9 DEF CheckVersion, TypeInv, TablesOK
  <2>2. PICK m \in {"refused", "write_stage", "append"} :
          Goto(t, m) /\ (m = "write_stage" => c.op = "stage")
    BY <1>9 DEF CheckVersion
  <2> QED
    BY <2>1, <2>2, <1>1, <1>4 DEF WellFormed, PcValues
<1>10. CASE Refuse(t)
  <2>1. TablesOK'
    BY <1>10, <1>1 DEF Refuse, Remember, Answers, TypeInv, TablesOK, WellFormed
  <2> QED
    BY <1>10, <2>1, <1>3 DEF Refuse
<1>11. CASE WriteStage(t)
  <2> DEFINE x == [c EXCEPT !.from = record[c.deal][c.rec].stage]
  <2>1. l = "write_stage" /\ c.deal \in Deals /\ c.rec \in Threads /\ c.to \in Stages
    BY <1>11, <1>1 DEF WriteStage, WellFormed
  <2>2. record[c.deal][c.rec] \in Records
    BY <2>1 DEF TypeInv, TablesOK
  <2>3. record' \in [Deals -> [Threads -> Records]]
    <3> DEFINE v == [record[c.deal][c.rec] EXCEPT !.stage = c.to]
    <3>1. v \in Records
      BY <2>1, <2>2 DEF Records
    <3>2. record' = [record EXCEPT ![c.deal] = [record[c.deal] EXCEPT ![c.rec] = v]]
      BY <1>11, <2>1 DEF WriteStage, TypeInv, TablesOK
    <3> HIDE DEF v
    <3> QED
      BY <2>1, <3>1, <3>2, RecordTyped DEF TypeInv
  <2>4. TablesOK'
    BY <1>11, <2>3 DEF WriteStage, TypeInv, TablesOK
  <2>5. x \in CallRecords /\ WellFormed("read_version", x) /\ "read_version" \in PcValues
    BY <2>1, <2>2, <1>1 DEF CallRecords, WellFormed, PcValues, Records
  <2>6. x.op = c.op /\ x.deal = c.deal /\ x.key = c.key /\ x.expected = c.expected
    BY <1>1 DEF CallRecords
  <2>7. Goto(t, "read_version") /\ call' = [call EXCEPT ![t] = x]
    BY <1>11, <1>1 DEF WriteStage, TypeInv, CallsOK
  <2> HIDE DEF x
  <2> QED
    BY <2>4, <2>5, <2>6, <2>7, <1>5
<1>12. CASE ReadVersion(t)
  <2> DEFINE x == [c EXCEPT !.version = Mine(t).version]
  <2>1. l = "read_version" /\ c.deal \in Deals /\ c.rec \in Threads
    BY <1>12, <1>1 DEF ReadVersion, WellFormed
  <2>2. Mine(t) \in Records
    BY <2>1 DEF TypeInv, TablesOK, Mine
  <2>3. TablesOK'
    BY <1>12 DEF ReadVersion, TypeInv, TablesOK
  <2>4. x \in CallRecords /\ WellFormed("write_version", x) /\ "write_version" \in PcValues
    BY <2>1, <2>2, <1>1 DEF CallRecords, WellFormed, PcValues, Records
  <2>5. x.op = c.op /\ x.deal = c.deal /\ x.key = c.key /\ x.expected = c.expected
    BY <1>1 DEF CallRecords
  <2>6. Goto(t, "write_version") /\ call' = [call EXCEPT ![t] = x]
    BY <1>12, <1>1 DEF ReadVersion, TypeInv, CallsOK
  <2> HIDE DEF x
  <2> QED
    BY <2>3, <2>4, <2>5, <2>6, <1>5
<1>13. CASE WriteVersion(t)
  <2>1. l = "write_version" /\ c.deal \in Deals /\ c.rec \in Threads
        /\ c.version + 1 \in Nat /\ UNCHANGED call
    BY <1>13, <1>1 DEF WriteVersion, WellFormed, CallRecords
  <2>2. record[c.deal][c.rec] \in Records
    BY <2>1 DEF TypeInv, TablesOK
  <2>3. record' \in [Deals -> [Threads -> Records]]
    <3> DEFINE v == [record[c.deal][c.rec] EXCEPT !.version = c.version + 1]
    <3>1. v \in Records
      BY <2>1, <2>2 DEF Records
    <3>2. record' = [record EXCEPT ![c.deal] = [record[c.deal] EXCEPT ![c.rec] = v]]
      BY <1>13, <2>1 DEF WriteVersion, TypeInv, TablesOK
    <3> HIDE DEF v
    <3> QED
      BY <2>1, <3>1, <3>2, RecordTyped DEF TypeInv
  <2>4. TablesOK'
    BY <1>13, <2>3 DEF WriteVersion, TypeInv, TablesOK
  <2>5. PICK m \in {"append", "answer"} : Goto(t, m)
    BY <1>13 DEF WriteVersion
  <2> QED
    BY <2>1, <2>4, <2>5, <1>1, <1>4 DEF WellFormed, PcValues
<1>14. CASE AppendActivity(t)
  <2>1. l = "append" /\ c.deal \in Deals /\ UNCHANGED call
    BY <1>14, <1>1 DEF AppendActivity, WellFormed
  <2>2. Activity(t) \in Entries
    BY <2>1, <1>1 DEF Activity, Entries, WellFormed, CallRecords
  <2>3. TablesOK'
    BY <1>14, <2>1, <2>2 DEF AppendActivity, TypeInv, TablesOK
  <2>4. PICK m \in {"answer", "read_version"} : Goto(t, m)
    BY <1>14 DEF AppendActivity
  <2> QED
    BY <2>1, <2>3, <2>4, <1>1, <1>4 DEF WellFormed, PcValues
<1>15. CASE Answer(t)
  <2>1. TablesOK'
    BY <1>15, <1>1 DEF Answer, Remember, Answers, TypeInv, TablesOK, WellFormed
  <2> QED
    BY <1>15, <2>1, <1>3 DEF Answer
<1> QED
  BY <1>6, <1>7, <1>8, <1>9, <1>10, <1>11, <1>12, <1>13, <1>14, <1>15 DEF Work

\* Every step keeps the types.
LEMMA NextTypeInv == TypeInv /\ [Next]_vars => TypeInv'
<1>1. TypeInv /\ UNCHANGED vars => TypeInv'
  BY DEF TypeInv, TablesOK, CallsOK, vars
<1> QED
  BY <1>1, CallTypeInv, WorkTypeInv DEF Next

\* Type correctness: records, timelines, answers and locals have their types.
THEOREM TypeCorrect == Spec => []TypeOK
<1>1. TypeInv => TypeOK
  BY DEF TypeInv, TypeOK, TablesOK, CallsOK
<1> QED
  BY InitTypeInv, NextTypeInv, <1>1, PTL DEF Spec

-----------------------------------------------------------------------------
(* Answers, for any number of threads. *)

\* What one activity does to the timelines.
LEMMA AppendFacts ==
  ASSUME TypeInv, NEW t \in Threads, AppendActivity(t)
  PROVE  LET o == call[t].op
             d == call[t].deal
             k == call[t].key
             n == Len(timeline[d]) + 1
         IN /\ d \in Deals /\ k \in Keys /\ o \in Writes /\ n \in Nat \ {0}
            /\ n \notin DOMAIN timeline[d]
            /\ DOMAIN timeline'[d] = DOMAIN timeline[d] \cup {n}
            /\ Len(timeline'[d]) = n
            /\ timeline'[d][n].kind = o /\ timeline'[d][n].key = k
            /\ \A i \in DOMAIN timeline[d] : timeline'[d][i] = timeline[d][i]
            /\ \A z \in Deals \ {d} : timeline'[z] = timeline[z]
<1> DEFINE o == call[t].op
           d == call[t].deal
           k == call[t].key
           e == Activity(t)
<1>1. d \in Deals /\ k \in Keys /\ o \in Writes
  BY DEF AppendActivity, TypeInv, CallsOK, WellFormed
<1>2. e \in Entries /\ e.kind = o /\ e.key = k
  BY <1>1 DEF Activity, Entries, TypeInv, CallsOK, WellFormed, CallRecords
<1>3. timeline[d] \in Seq(Entries) /\ timeline' = [timeline EXCEPT ![d] = Append(timeline[d], e)]
  BY <1>1 DEF AppendActivity, TypeInv, TablesOK
<1>4. /\ timeline'[d] = Append(timeline[d], e)
      /\ \A z \in Deals \ {d} : timeline'[z] = timeline[z]
  BY <1>1, <1>3 DEF TypeInv, TablesOK
<1> HIDE DEF o, d, k, e
<1>5. /\ Len(timeline[d]) \in Nat /\ DOMAIN timeline[d] = 1..Len(timeline[d])
      /\ Len(timeline'[d]) = Len(timeline[d]) + 1
      /\ DOMAIN timeline'[d] = 1..(Len(timeline[d]) + 1)
      /\ timeline'[d][Len(timeline[d]) + 1] = e
      /\ \A i \in 1..Len(timeline[d]) : timeline'[d][i] = timeline[d][i]
  BY <1>2, <1>3, <1>4
<1>6. QED
  BY <1>1, <1>2, <1>4, <1>5 DEF o, d, k, e

\* The step appends an activity of its key, and of no other.
LEMMA AppendWritten ==
  ASSUME TypeInv, NEW t \in Threads, AppendActivity(t),
         NEW o \in Writes, NEW d \in Deals, NEW k \in Keys
  PROVE  /\ Written(o, d, k)' =
              IF o = call[t].op /\ d = call[t].deal /\ k = call[t].key
              THEN Written(o, d, k) \cup {Len(timeline[d]) + 1}
              ELSE Written(o, d, k)
<1>1. CASE d # call[t].deal
  BY <1>1, AppendFacts DEF Written
<1>2. CASE d = call[t].deal
  <2> DEFINE n == Len(timeline[d]) + 1
  <2>1. /\ n \notin DOMAIN timeline[d]
        /\ DOMAIN timeline'[d] = DOMAIN timeline[d] \cup {n}
        /\ timeline'[d][n].kind = call[t].op /\ timeline'[d][n].key = call[t].key
        /\ \A i \in DOMAIN timeline[d] : timeline'[d][i] = timeline[d][i]
    BY <1>2, AppendFacts
  <2> HIDE DEF n
  <2>2. Written(o, d, k)' = {i \in DOMAIN timeline[d] \cup {n} :
                               timeline'[d][i].kind = o /\ timeline'[d][i].key = k}
    BY <2>1 DEF Written
  <2>3. Written(o, d, k)' =
          Written(o, d, k) \cup {i \in {n} : call[t].op = o /\ call[t].key = k}
    BY <2>1, <2>2 DEF Written
  <2> QED
    BY <1>2, <2>3 DEF n
<1> QED
  BY <1>1, <1>2

\* What was written stays written.
LEMMA WrittenStays ==
  ASSUME TypeInv, NEW t \in Threads, Work(t) \/ Call(t),
         NEW o \in Writes, NEW d \in Deals, NEW k \in Keys, Written(o, d, k) # {}
  PROVE  Written(o, d, k)' # {}
<1>1. CASE AppendActivity(t)
  BY <1>1, AppendWritten
<1>2. CASE UNCHANGED timeline
  BY <1>2 DEF Written
<1> QED
  BY <1>1, <1>2 DEF Work, Call, Lookup, GetRecord, SeedRecord, CheckVersion, Refuse,
     WriteStage, ReadVersion, WriteVersion, Answer, Fetch, AppendActivityLog,
     UpdateDealStage

\* The call of the thread that moves is written when it says so.
LEMMA MoverIsWritten ==
  ASSUME AnsweredInv, NEW t \in Threads, Work(t), Appended(t)'
  PROVE  Written(call[t].op, call[t].deal, call[t].key)'  # {}
         /\ SameWrite(t)
<1>1. /\ call[t].op \in {"fetch", "stage", "note"} /\ pc[t] \in PcValues
      /\ WellFormed(pc[t], call[t]) /\ TypeInv
  BY DEF AnsweredInv, TypeInv, CallsOK, CallRecords
<1>2. pc'[t] # "idle" /\ SameWrite(t)
  BY <1>1, WorkTypeInv DEF Appended, OnlyMine
<1>3. CASE AppendActivity(t)
  <2>1. call[t].op \in Writes /\ call[t].deal \in Deals /\ call[t].key \in Keys
    BY <1>1, <1>3, AppendFacts
  <2>2. PICK o \in Writes, d \in Deals, k \in Keys :
          o = call[t].op /\ d = call[t].deal /\ k = call[t].key
    BY <2>1
  <2>3. Written(o, d, k)' = Written(o, d, k) \cup {Len(timeline[d]) + 1}
    BY <1>1, <1>3, <2>2, AppendWritten
  <2>4. Len(timeline[d]) + 1 \in Written(o, d, k)'
    BY <2>3
  <2>5. Written(o, d, k)' # {}
    BY <2>4
  <2>6. call'[t].op = o /\ call'[t].deal = d /\ call'[t].key = k
    BY <1>3, <2>2 DEF AppendActivity
  <2> QED
    BY <1>2, <2>5, <2>6
<1>4. CASE ReadVersion(t) \/ WriteVersion(t)
  <2>1. Appended(t)
    BY <1>1, <1>2, <1>4 DEF ReadVersion, WriteVersion, Goto, Appended, SameWrite,
       TypeInv, CallsOK, WellFormed, Writes
  <2>2. call[t].op \in Writes /\ call[t].deal \in Deals /\ call[t].key \in Keys
    BY <1>1, <1>4 DEF ReadVersion, WriteVersion, WellFormed
  <2>3. Written(call[t].op, call[t].deal, call[t].key) # {} /\ UNCHANGED timeline
    BY <1>4, <2>1 DEF AnsweredInv, AppendedIsWritten, ReadVersion, WriteVersion
  <2>4. UNCHANGED call[t].op /\ UNCHANGED call[t].deal /\ UNCHANGED call[t].key
    BY <1>2 DEF SameWrite
  <2> QED
    BY <1>2, <2>3, <2>4 DEF Written
<1>5. CASE WriteStage(t)
  BY <1>1, <1>2, <1>5 DEF WriteStage, Goto, Appended, SameWrite, WellFormed,
     TypeInv, CallsOK
<1>6. CASE Lookup(t) \/ GetRecord(t) \/ SeedRecord(t) \/ CheckVersion(t)
           \/ Refuse(t) \/ Answer(t)
  BY <1>1, <1>2, <1>6 DEF Lookup, GetRecord, SeedRecord, CheckVersion, Refuse, Answer,
     Return, Goto, Appended, TypeInv, CallsOK
<1> QED
  BY <1>3, <1>4, <1>5, <1>6 DEF Work

\* A step keeps what was answered or appended in the timeline.
LEMMA AnsweredStep == AnsweredInv /\ [Next]_vars => AnsweredInv'
<1>1. ASSUME AnsweredInv, NEW t \in Threads, Work(t)
      PROVE  AnsweredInv'
  <2>1. TypeInv /\ TypeInv' /\ OnlyMine(t)
    BY <1>1, WorkTypeInv DEF AnsweredInv
  <2>2. AnsweredIsWritten'
    <3> SUFFICES ASSUME NEW o \in Writes, NEW d \in Deals, NEW k \in Keys,
                        cache'[o][d][k] = "done"
                 PROVE  Written(o, d, k)' # {}
      BY DEF AnsweredIsWritten
    <3>1. CASE cache[o][d][k] = "done"
      BY <1>1, <2>1, <3>1, WrittenStays DEF AnsweredInv, AnsweredIsWritten
    <3>2. CASE cache[o][d][k] # "done"
      <4>1. Refuse(t) \/ Answer(t)
        BY <1>1, <3>2 DEF Work, Lookup, GetRecord, SeedRecord, CheckVersion,
           WriteStage, ReadVersion, WriteVersion, AppendActivity
      <4>2. call[t].op \in Writes /\ call[t].deal \in Deals /\ call[t].key \in Keys
        BY <2>1, <4>1 DEF Refuse, Answer, TypeInv, CallsOK, WellFormed
      <4>3. /\ Answer(t)
            /\ o = call[t].op /\ d = call[t].deal /\ k = call[t].key
        BY <2>1, <3>2, <4>1, <4>2 DEF Refuse, Answer, Remember, TypeInv, TablesOK
      <4>4. Written(o, d, k) # {}
        BY <1>1, <4>3 DEF AnsweredInv, AppendedIsWritten, Appended, Answer
      <4> QED
        BY <4>3, <4>4 DEF Answer, Written
    <3> QED
      BY <3>1, <3>2
  <2>3. AppendedIsWritten'
    <3> SUFFICES ASSUME NEW s \in Threads, Appended(s)'
                 PROVE  Written(call[s].op, call[s].deal, call[s].key)' # {}
      BY DEF AppendedIsWritten
    <3>1. CASE s = t
      BY <1>1, <3>1, MoverIsWritten
    <3>2. CASE s # t
      <4>1. call'[s] = call[s] /\ Appended(s)
        BY <2>1, <3>2 DEF OnlyMine, Appended
      <4>2. PICK o \in Writes, d \in Deals, k \in Keys :
              o = call[s].op /\ d = call[s].deal /\ k = call[s].key
        BY <2>1, <4>1 DEF Appended, TypeInv, CallsOK, WellFormed, Writes
      <4>3. Written(o, d, k)' # {}
        BY <1>1, <2>1, <4>1, <4>2, WrittenStays DEF AnsweredInv, AppendedIsWritten
      <4> QED
        BY <4>1, <4>2, <4>3 DEF Written
    <3> QED
      BY <3>1, <3>2
  <2> QED
    BY <2>1, <2>2, <2>3 DEF AnsweredInv
<1>2. ASSUME AnsweredInv, NEW t \in Threads, Call(t)
      PROVE  AnsweredInv'
  <2>1. /\ TypeInv' /\ pc'[t] \in {"get_record", "lookup"}
        /\ \A s \in Threads \ {t} : pc'[s] = pc[s] /\ call'[s] = call[s]
        /\ UNCHANGED <<cache, timeline>>
    BY <1>2, CallTypeInv DEF AnsweredInv, Call, Fetch, AppendActivityLog, UpdateDealStage
  <2>2. AnsweredIsWritten'
    BY <1>2, <2>1 DEF AnsweredInv, AnsweredIsWritten, Written
  <2>3. AppendedIsWritten'
    BY <1>2, <2>1 DEF AnsweredInv, AppendedIsWritten, Appended, Written
  <2> QED
    BY <2>1, <2>2, <2>3 DEF AnsweredInv
<1>3. ASSUME AnsweredInv, UNCHANGED vars
      PROVE  AnsweredInv'
  <2>1. TypeInv'
    BY <1>3, NextTypeInv DEF AnsweredInv
  <2> QED
    BY <1>3, <2>1 DEF AnsweredInv, AnsweredIsWritten, AppendedIsWritten, Appended,
       Written, vars
<1> QED
  BY <1>1, <1>2, <1>3 DEF Next

\* Whatever the threads do, a call that was answered with success is in the
\* timeline: the activity is appended before the answer is kept.
THEOREM AnsweredCorrect == Spec => []AnsweredIsWritten
<1>1. Init => AnsweredInv
  BY InitTypeInv DEF Init, AnsweredInv, AnsweredIsWritten, AppendedIsWritten, Appended
<1>2. AnsweredInv => AnsweredIsWritten
  BY DEF AnsweredInv
<1> QED
  BY <1>1, <1>2, AnsweredStep, PTL DEF Spec

-----------------------------------------------------------------------------
(* Keys, when no two calls for one key overlap. *)

\* A write past the look into the cache has a key that was not answered.
KeyIsFresh ==
  \A t \in Threads :
    pc[t] \notin {"idle", "lookup"} /\ call[t].op \in Writes => Answered(t) = "new"

\* Calls that overlap are for different keys.
KeysApart ==
  \A s, t \in Threads :
    s # t /\ pc[s] # "idle" /\ pc[t] # "idle" /\ call[s].op \in Writes
      => ~IsFor(s, call[t].op, call[t].deal, call[t].key)

\* What is written was answered, or its call is about to be.
WrittenIsKnown ==
  \A o \in Writes, d \in Deals, k \in Keys :
    Written(o, d, k) # {} =>
      \/ cache[o][d][k] = "done"
      \/ \E t \in Threads : Appended(t) /\ IsFor(t, o, d, k)

KeyInv == AnsweredInv /\ KeyIsFresh /\ WrittenIsKnown /\ EffectOncePerKey

\* A call that is about to append has written nothing under its key.
LEMMA NothingWritten ==
  ASSUME KeysApart, KeyInv, NEW t \in Threads, pc[t] \in {"append", "refused"},
         NEW o \in Writes, NEW d \in Deals, NEW k \in Keys, IsFor(t, o, d, k)
  PROVE  Written(o, d, k) = {} /\ cache[o][d][k] = "new"
<1>1. cache[o][d][k] = "new"
  BY DEF KeyInv, KeyIsFresh, IsFor, Answered
<1>2. \A s \in Threads : ~(Appended(s) /\ IsFor(s, o, d, k))
  BY DEF KeysApart, Appended, IsFor
<1> QED
  BY <1>1, <1>2 DEF KeyInv, WrittenIsKnown

\* One activity keeps the invariant: its key has none yet.
LEMMA KeyAppend ==
  ASSUME KeysApart, KeyInv, NEW t \in Threads, AppendActivity(t)
  PROVE  KeyInv'
<1>1. /\ TypeInv /\ Work(t) /\ UNCHANGED <<cache, call>> /\ pc[t] = "append"
  BY DEF KeyInv, AnsweredInv, Work, AppendActivity
<1>2. PICK o \in Writes, d \in Deals, k \in Keys : IsFor(t, o, d, k)
  BY <1>1, AppendFacts DEF IsFor
<1>3. Written(o, d, k) = {} /\ cache[o][d][k] = "new"
  BY <1>1, <1>2, NothingWritten DEF Appended
<1>4. AnsweredInv'
  BY <1>1, AnsweredStep DEF KeyInv, Next
<1>5. KeyIsFresh'
  <2>1. \A s \in Threads \ {t} : pc'[s] = pc[s]
    BY <1>1, WorkTypeInv DEF OnlyMine
  <2> QED
    BY <1>1, <2>1 DEF KeyInv, KeyIsFresh, Answered
<1>6. WrittenIsKnown'
  <2> SUFFICES ASSUME NEW p \in Writes, NEW e \in Deals, NEW j \in Keys,
                      Written(p, e, j)' # {}
               PROVE  \/ cache'[p][e][j] = "done"
                      \/ \E s \in Threads : Appended(s)' /\ IsFor(s, p, e, j)'
    BY DEF WrittenIsKnown
  <2>1. CASE IsFor(t, p, e, j)
    <3>1. pc'[t] = IF p = "stage" THEN "answer" ELSE "read_version"
      BY <1>1, <2>1 DEF AppendActivity, Goto, IsFor, TypeInv, CallsOK
    <3> QED
      BY <1>1, <2>1, <3>1 DEF Appended, IsFor, Writes
  <2>2. CASE ~IsFor(t, p, e, j)
    <3>1. Written(p, e, j)' = Written(p, e, j)
      BY <1>1, <2>2, AppendWritten DEF IsFor
    <3>2. ASSUME NEW s \in Threads, Appended(s), IsFor(s, p, e, j)
          PROVE  Appended(s)' /\ IsFor(s, p, e, j)'
      BY <1>1, <2>2, <3>2, WorkTypeInv DEF OnlyMine, Appended, IsFor
    <3> QED
      BY <1>1, <3>1, <3>2 DEF KeyInv, WrittenIsKnown
  <2> QED
    BY <2>1, <2>2
<1>7. EffectOncePerKey'
  <2> SUFFICES ASSUME NEW e \in Deals,
                      NEW i \in DOMAIN timeline'[e], NEW j \in DOMAIN timeline'[e],
                      timeline'[e][i].kind = timeline'[e][j].kind,
                      timeline'[e][i].key = timeline'[e][j].key
               PROVE  i = j
    BY DEF EffectOncePerKey
  <2>1. CASE e # d
    BY <1>1, <1>2, <2>1, AppendFacts DEF IsFor, KeyInv, EffectOncePerKey
  <2>2. CASE e = d
    <3> DEFINE n == Len(timeline[d]) + 1
    <3>1. /\ DOMAIN timeline'[d] = DOMAIN timeline[d] \cup {n}
          /\ timeline'[d][n].kind = o /\ timeline'[d][n].key = k
          /\ \A x \in DOMAIN timeline[d] : timeline'[d][x] = timeline[d][x]
      BY <1>1, <1>2, AppendFacts DEF IsFor
    <3> HIDE DEF n
    <3>2. \A x \in DOMAIN timeline[d] : timeline[d][x].kind # o \/ timeline[d][x].key # k
      BY <1>3 DEF Written
    <3> QED
      BY <2>2, <3>1, <3>2 DEF KeyInv, EffectOncePerKey
  <2> QED
    BY <2>1, <2>2
<1> QED
  BY <1>4, <1>5, <1>6, <1>7 DEF KeyInv

\* The steps that keep an answer and end the call.
LEMMA KeyEnd ==
  ASSUME KeysApart, KeyInv, NEW t \in Threads, Refuse(t) \/ Answer(t)
  PROVE  KeyInv'
<1>1. /\ TypeInv /\ Work(t) /\ UNCHANGED timeline
      /\ pc'[t] = "idle" /\ call[t].op \in Writes /\ call[t].deal \in Deals
      /\ call[t].key \in Keys
  BY DEF KeyInv, AnsweredInv, Work, Refuse, Answer, Return, Goto, TypeInv, CallsOK,
     WellFormed
<1>2. PICK o \in Writes, d \in Deals, k \in Keys : IsFor(t, o, d, k)
  BY <1>1 DEF IsFor
<1>3. AnsweredInv'
  BY <1>1, AnsweredStep DEF KeyInv, Next
<1>4. OnlyMine(t) /\ pc[t] # "idle"
  BY <1>1, WorkTypeInv DEF Refuse, Answer
<1>5. \A p \in Writes, e \in Deals, j \in Keys :
        ~IsFor(t, p, e, j) => cache'[p][e][j] = cache[p][e][j]
  <2>1. PICK a \in {"conflict", "done"} : Remember(t, a)
    BY DEF Refuse, Answer
  <2> QED
    BY <1>1, <2>1 DEF Remember, IsFor, TypeInv, TablesOK
<1>6. KeyIsFresh'
  <2> SUFFICES ASSUME NEW s \in Threads, pc'[s] \notin {"idle", "lookup"},
                      call'[s].op \in Writes
               PROVE  Answered(s)' = "new"
    BY DEF KeyIsFresh
  <2>1. s # t /\ pc'[s] = pc[s] /\ call'[s] = call[s]
    BY <1>1, <1>4 DEF OnlyMine
  <2>2. call[s].deal \in Deals /\ call[s].key \in Keys
    BY <1>1, <2>1 DEF TypeInv, CallsOK, WellFormed
  <2>3. ~IsFor(t, call[s].op, call[s].deal, call[s].key)
    BY <1>1, <1>4, <2>1 DEF KeysApart
  <2> QED
    BY <1>5, <2>1, <2>2, <2>3 DEF KeyInv, KeyIsFresh, Answered
<1>7. WrittenIsKnown'
  <2> SUFFICES ASSUME NEW p \in Writes, NEW e \in Deals, NEW j \in Keys,
                      Written(p, e, j) # {}
               PROVE  \/ cache'[p][e][j] = "done"
                      \/ \E s \in Threads : Appended(s)' /\ IsFor(s, p, e, j)'
    BY <1>1 DEF WrittenIsKnown, Written
  <2>1. CASE IsFor(t, p, e, j)
    <3>1. Answer(t)
      BY <2>1, NothingWritten DEF Refuse, Appended
    <3> QED
      BY <1>1, <2>1, <3>1 DEF Answer, Remember, IsFor, TypeInv, TablesOK
  <2>2. CASE ~IsFor(t, p, e, j)
    <3>1. ASSUME NEW s \in Threads, Appended(s), IsFor(s, p, e, j)
          PROVE  Appended(s)' /\ IsFor(s, p, e, j)'
      BY <1>4, <2>2, <3>1 DEF OnlyMine, Appended, IsFor
    <3> QED
      BY <1>5, <2>2, <3>1 DEF KeyInv, WrittenIsKnown
  <2> QED
    BY <2>1, <2>2
<1> QED
  BY <1>1, <1>3, <1>6, <1>7 DEF KeyInv, EffectOncePerKey

\* The other steps write no activity and keep no answer.
LEMMA KeyOther ==
  ASSUME KeysApart, KeyInv, NEW t \in Threads,
         \/ Lookup(t) \/ GetRecord(t) \/ SeedRecord(t) \/ CheckVersion(t)
         \/ WriteStage(t) \/ ReadVersion(t) \/ WriteVersion(t)
  PROVE  KeyInv'
<1>1. /\ TypeInv /\ Work(t) /\ UNCHANGED <<timeline, cache>>
  BY DEF KeyInv, AnsweredInv, Work, Lookup, GetRecord, SeedRecord, CheckVersion,
     WriteStage, ReadVersion, WriteVersion
<1>2. /\ pc[t] \in PcValues /\ WellFormed(pc[t], call[t])
      /\ call[t].op \in {"fetch", "stage", "note"} /\ OnlyMine(t)
  BY <1>1, WorkTypeInv DEF TypeInv, CallsOK, CallRecords
<1>3. AnsweredInv'
  BY <1>1, AnsweredStep DEF KeyInv, Next
<1>4. KeyIsFresh'
  <2> SUFFICES ASSUME pc'[t] \notin {"idle", "lookup"}, call'[t].op \in Writes
               PROVE  Answered(t)' = "new"
    BY <1>1, <1>2 DEF KeyInv, KeyIsFresh, OnlyMine, Answered
  <2>1. SameWrite(t)
    BY <1>2 DEF OnlyMine
  <2>2. Answered(t) = "new"
    <3>1. CASE Lookup(t)
      BY <1>1, <3>1 DEF Lookup, Return, Goto, TypeInv, CallsOK
    <3>2. CASE ~Lookup(t)
      <4>1. pc[t] \notin {"idle", "lookup"}
        BY <3>2 DEF GetRecord, SeedRecord, CheckVersion, WriteStage, ReadVersion,
           WriteVersion
      <4> QED
        BY <2>1, <4>1 DEF KeyInv, KeyIsFresh, SameWrite
    <3> QED
      BY <3>1, <3>2
  <2> QED
    BY <1>1, <2>1, <2>2 DEF Answered, SameWrite
<1>5. WrittenIsKnown'
  <2>1. ASSUME Appended(t)
        PROVE  Appended(t)' /\ SameWrite(t)
    <3>1. ReadVersion(t) \/ WriteVersion(t)
      BY <2>1 DEF Appended, Lookup, GetRecord, SeedRecord, CheckVersion, WriteStage
    <3>2. call[t].op = "note" /\ pc'[t] \in {"write_version", "answer"}
      BY <1>1, <2>1, <3>1 DEF Appended, ReadVersion, WriteVersion, Goto, TypeInv, CallsOK
    <3> QED
      BY <1>2, <3>2 DEF OnlyMine, SameWrite, Appended
  <2> SUFFICES ASSUME NEW p \in Writes, NEW e \in Deals, NEW j \in Keys,
                      Written(p, e, j) # {}, cache[p][e][j] # "done"
               PROVE  \E s \in Threads : Appended(s)' /\ IsFor(s, p, e, j)'
    BY <1>1 DEF WrittenIsKnown, Written
  <2>2. PICK s \in Threads : Appended(s) /\ IsFor(s, p, e, j)
    BY DEF KeyInv, WrittenIsKnown
  <2>3. CASE s = t
    BY <2>1, <2>2, <2>3 DEF IsFor, SameWrite
  <2>4. CASE s # t
    BY <1>2, <2>2, <2>4 DEF OnlyMine, Appended, IsFor
  <2> QED
    BY <2>3, <2>4
<1> QED
  BY <1>1, <1>3, <1>4, <1>5 DEF KeyInv, EffectOncePerKey

\* A new call writes nothing.
LEMMA KeyCall ==
  ASSUME KeysApart, KeyInv, NEW t \in Threads, Call(t)
  PROVE  KeyInv'
<1>1. /\ pc[t] = "idle" /\ pc'[t] \in {"get_record", "lookup"}
      /\ (pc'[t] = "get_record" => call'[t].op = "fetch")
      /\ UNCHANGED <<cache, timeline>>
      /\ \A s \in Threads \ {t} : pc'[s] = pc[s] /\ call'[s] = call[s]
  BY CallTypeInv DEF KeyInv, AnsweredInv, Call, Fetch, AppendActivityLog, UpdateDealStage
<1>2. AnsweredInv'
  BY AnsweredStep DEF KeyInv, Next
<1>3. KeyIsFresh'
  BY <1>1 DEF KeyInv, KeyIsFresh, Answered, Writes
<1>4. WrittenIsKnown'
  BY <1>1 DEF KeyInv, WrittenIsKnown, Written, Appended, IsFor
<1> QED
  BY <1>1, <1>2, <1>3, <1>4 DEF KeyInv, EffectOncePerKey

\* Every step keeps the invariant of the keys.
LEMMA KeyStep == KeysApart /\ KeyInv /\ [Next]_vars => KeyInv'
<1>1. ASSUME KeyInv, UNCHANGED vars
      PROVE  KeyInv'
  <2>1. AnsweredInv'
    BY <1>1, AnsweredStep DEF KeyInv
  <2> QED
    BY <1>1, <2>1 DEF KeyInv, KeyIsFresh, Answered, WrittenIsKnown, Written, Appended,
       IsFor, EffectOncePerKey, vars
<1> QED
  BY <1>1, KeyAppend, KeyEnd, KeyOther, KeyCall DEF Next, Work

\* No key was answered at first, and nothing written.
LEMMA InitKeyInv == Init => KeyInv
  BY InitTypeInv DEF Init, KeyInv, AnsweredInv, AnsweredIsWritten, AppendedIsWritten,
     Appended, KeyIsFresh, WrittenIsKnown, Written, EffectOncePerKey

\* As long as no two calls for one key overlap, a key has one effect at most, and none
\* after its call was answered with a conflict, whatever the threads do to the same deal.
THEOREM OnceCorrect ==
  Spec /\ []KeysApart => [](EffectOncePerKey /\ RefusedIsNotWritten)
<1>1. KeyInv => EffectOncePerKey /\ RefusedIsNotWritten
  <2> SUFFICES ASSUME KeyInv, NEW o \in Writes, NEW d \in Deals, NEW k \in Keys,
                      cache[o][d][k] = "conflict", Written(o, d, k) # {}
               PROVE  FALSE
    BY DEF KeyInv, RefusedIsNotWritten
  <2>1. PICK t \in Threads : Appended(t) /\ IsFor(t, o, d, k)
    BY DEF KeyInv, WrittenIsKnown
  <2>2. cache[o][d][k] = "new"
    BY <2>1 DEF KeyInv, KeyIsFresh, Answered, IsFor, Appended
  <2> QED
    BY <2>2
<1>2. KeysApart /\ KeyInv /\ [Next]_vars => KeyInv'
  BY KeyStep
<1> QED
  BY <1>1, <1>2, InitKeyInv, PTL DEF Spec

-----------------------------------------------------------------------------
(* Versions, when no two calls on one deal overlap. *)

\* Calls that overlap are on different deals.
DealsApart ==
  \A s, t \in Threads :
    s # t /\ pc[s] # "idle" /\ pc[t] # "idle" => call[s].deal # call[t].deal

MidWrite == {"read_version", "write_version", "append"}

Size(d) == Len(timeline[d])

\* A call works on the stored record.
OnStored(t) ==
  /\ pc[t] = "seeding" => store[call[t].deal] = None
  /\ pc[t] \notin {"idle", "lookup", "get_record", "seeding"}
       => store[call[t].deal] = call[t].rec

\* Between the first and the last change of a call, the version is ahead of the
\* timeline (a stage update counts first) or behind it (a note appends first).
MidVersion(t) ==
  LET n == Size(call[t].deal)
      v == Mine(t).version
      stage == call[t].op = "stage"
  IN /\ pc[t] \in {"read_version", "write_version"}
          => v = IF stage THEN n + 1 ELSE n
     /\ pc[t] = "write_version" => call[t].version = v
     /\ pc[t] = "append" => v = IF stage THEN n + 2 ELSE n + 1

\* Until the activity is appended, the timeline is the one the caller expected.
ExpectedSoFar(t) ==
  \/ call[t].expected = None
  \/ pc[t] \notin MidWrite \cup {"write_stage"}
  \/ call[t].op = "note" /\ pc[t] # "append"
  \/ call[t].expected = Size(call[t].deal) + 1

\* What the locals of t say of its deal.
Consistent(t) == OnStored(t) /\ MidVersion(t) /\ ExpectedSoFar(t)

\* A deal without a record has no activity.
StoreInv == \A d \in Deals : store[d] = None => Size(d) = 0

VersionInv ==
  /\ TypeInv /\ StoreInv /\ VersionCountsWrites
  /\ \A t \in Threads : Consistent(t)

\* A step changes nothing of the deals its thread is not on.
LEMMA OtherDeals ==
  ASSUME TypeInv, NEW t \in Threads, Call(t) \/ Work(t), NEW e \in Deals,
         pc[t] = "idle" \/ call[t].deal # e
  PROVE  store'[e] = store[e] /\ record'[e] = record[e] /\ timeline'[e] = timeline[e]
<1>1. CASE Call(t)
  BY <1>1 DEF Call, Fetch, AppendActivityLog, UpdateDealStage
<1>2. CASE Work(t) /\ UNCHANGED <<store, record, timeline>>
  BY <1>2
<1>3. CASE SeedRecord(t) \/ WriteStage(t) \/ WriteVersion(t) \/ AppendActivity(t)
  <2>1. call[t].deal # e
    BY <1>3 DEF SeedRecord, WriteStage, WriteVersion, AppendActivity
  <2> QED
    BY <1>3, <2>1 DEF SeedRecord, WriteStage, WriteVersion, AppendActivity, TypeInv, TablesOK
<1> QED
  BY <1>1, <1>2, <1>3 DEF Work, Lookup, GetRecord, CheckVersion, Refuse, ReadVersion, Answer

\* What another thread has read stays so, as it is on another deal.
LEMMA OtherThreads ==
  ASSUME DealsApart, TypeInv, NEW t \in Threads, Call(t) \/ Work(t),
         NEW s \in Threads, s # t
  PROVE  /\ pc'[s] = pc[s] /\ call'[s] = call[s]
         /\ pc[s] # "idle" =>
              LET d == call[s].deal IN
              /\ d \in Deals
              /\ store'[d] = store[d] /\ record'[d] = record[d] /\ timeline'[d] = timeline[d]
<1>1. pc'[s] = pc[s] /\ call'[s] = call[s]
  BY CallTypeInv, WorkTypeInv DEF OnlyMine
<1>2. ASSUME pc[s] # "idle"
      PROVE  call[s].deal \in Deals /\ (pc[t] = "idle" \/ call[t].deal # call[s].deal)
  BY <1>2 DEF TypeInv, CallsOK, WellFormed, DealsApart
<1> QED
  BY <1>1, <1>2, OtherDeals

\* So its locals stay consistent.
LEMMA OthersConsistent ==
  ASSUME DealsApart, VersionInv, NEW t \in Threads, Call(t) \/ Work(t),
         NEW s \in Threads, s # t
  PROVE  Consistent(s)'
<1>1. TypeInv /\ Consistent(s)
  BY DEF VersionInv
<1>2. CASE pc[s] = "idle"
  BY <1>1, <1>2, OtherThreads DEF Consistent, OnStored, MidVersion, ExpectedSoFar, MidWrite
<1>3. CASE pc[s] # "idle"
  <2> DEFINE d == call[s].deal
  <2>1. /\ pc'[s] = pc[s] /\ call'[s] = call[s]
        /\ store'[d] = store[d] /\ record'[d] = record[d] /\ timeline'[d] = timeline[d]
    BY <1>1, <1>3, OtherThreads
  <2>2. OnStored(s)'
    BY <1>1, <1>3, <2>1 DEF Consistent, OnStored
  <2>3. MidVersion(s)'
    BY <1>1, <1>3, <2>1 DEF Consistent, MidVersion, Mine, Size
  <2>4. ExpectedSoFar(s)'
    BY <1>1, <1>3, <2>1 DEF Consistent, ExpectedSoFar, Size
  <2> QED
    BY <2>2, <2>3, <2>4 DEF Consistent
<1> QED
  BY <1>2, <1>3

\* A deal on which a step leaves nothing half done was quiet before, unless the thread
\* that made the step is on it.
LEMMA QuietBefore ==
  ASSUME TypeInv, NEW t \in Threads, Call(t) \/ Work(t), NEW e, Quiet(e)',
         pc[t] \notin MidWrite \/ call[t].deal # e
  PROVE  Quiet(e)
BY CallTypeInv, WorkTypeInv DEF OnlyMine, Quiet, MidWrite

\* A deal is quiet when the thread on it is before or after its changes.
LEMMA MyDealQuiet ==
  ASSUME DealsApart, NEW t \in Threads, pc[t] \notin MidWrite \cup {"idle"}
  PROVE  Quiet(call[t].deal)
BY DEF DealsApart, Quiet, MidWrite

\* The version of a quiet deal counts its activities.
LEMMA QuietVersion ==
  ASSUME VersionInv, NEW d \in Deals, Quiet(d), store[d] # None
  PROVE  record[d][store[d]].version = Size(d) + 1
<1>1. Size(d) \in Nat
  BY DEF VersionInv, TypeInv, TablesOK, Size
<1> QED
  BY <1>1 DEF VersionInv, VersionCountsWrites, Size

\* A step keeps the invariant if it keeps what concerns its own thread and deal.
LEMMA StepKeeps ==
  ASSUME DealsApart, VersionInv, NEW t \in Threads, Call(t) \/ Work(t), TypeInv',
         Consistent(t)',
         \A d \in Deals : Quiet(d)' /\ store'[d] # None /\ pc[t] # "idle" /\ d = call[t].deal
                            => record'[d][store'[d]].version = 1 + Len(timeline'[d]),
         \A d \in Deals : store'[d] = None /\ pc[t] # "idle" /\ d = call[t].deal
                            => Len(timeline'[d]) = 0
  PROVE  VersionInv'
<1>1. \A s \in Threads : Consistent(s)'
  BY OthersConsistent
<1>2. ASSUME NEW e \in Deals, pc[t] = "idle" \/ e # call[t].deal
      PROVE  /\ store'[e] = store[e] /\ record'[e] = record[e] /\ timeline'[e] = timeline[e]
             /\ Quiet(e)' => Quiet(e)
  BY <1>2, OtherDeals, QuietBefore DEF VersionInv, MidWrite
<1>3. StoreInv'
  BY <1>2 DEF VersionInv, StoreInv, Size
<1>4. VersionCountsWrites'
  BY <1>2 DEF VersionInv, VersionCountsWrites
<1> QED
  BY <1>1, <1>3, <1>4 DEF VersionInv

\* The steps that change neither records nor timelines.
LEMMA VersionRest ==
  ASSUME DealsApart, VersionInv, NEW t \in Threads,
         \/ Call(t) \/ Lookup(t) \/ GetRecord(t) \/ CheckVersion(t) \/ Refuse(t)
         \/ Answer(t)
  PROVE  VersionInv'
<1>1. /\ TypeInv /\ Consistent(t) /\ UNCHANGED <<store, record, timeline>>
      /\ pc[t] \notin MidWrite /\ (Call(t) \/ Work(t))
  BY DEF VersionInv, Call, Fetch, AppendActivityLog, UpdateDealStage, Lookup,
     GetRecord, CheckVersion, Refuse, Answer, MidWrite, Work
<1>2. TypeInv'
  BY <1>1, CallTypeInv, WorkTypeInv
<1>3. ASSUME NEW d \in Deals, pc[t] # "idle", d = call[t].deal
      PROVE  /\ Size(d) \in Nat /\ Quiet(d)
             /\ store[d] # None => record[d][store[d]].version = Size(d) + 1
  BY <1>1, <1>3, MyDealQuiet, QuietVersion DEF TypeInv, TablesOK, Size
<1>4. Consistent(t)'
  <2>1. CASE CheckVersion(t)
    <3> DEFINE d == call[t].deal
               r == call[t].rec
    <3>1. /\ UNCHANGED call /\ d \in Deals /\ r \in Threads /\ store[d] = r
          /\ call[t].op \in Writes /\ pc[t] = "check"
      BY <1>1, <2>1 DEF CheckVersion, TypeInv, CallsOK, WellFormed, Consistent, OnStored
    <3>2. Mine(t).version = Size(d) + 1 /\ Size(d) \in Nat
      BY <1>3, <3>1, CrmAssumption DEF Mine
    <3>3. pc'[t] = IF Conflict(t) THEN "refused"
                   ELSE IF call[t].op = "stage" THEN "write_stage" ELSE "append"
      BY <1>1, <2>1 DEF CheckVersion, Goto, TypeInv, CallsOK
    <3>4. OnStored(t)'
      BY <1>1, <3>1, <3>3 DEF OnStored
    <3>5. MidVersion(t)'
      BY <1>1, <3>1, <3>2, <3>3 DEF MidVersion, Mine, Size, Writes
    <3>6. ExpectedSoFar(t)'
      BY <1>1, <3>1, <3>2, <3>3 DEF ExpectedSoFar, Conflict, MidWrite, Size, Writes
    <3> QED
      BY <3>4, <3>5, <3>6 DEF Consistent
  <2>2. CASE ~CheckVersion(t)
    <3>1. pc'[t] \in {"idle", "lookup", "get_record", "seeding", "check"}
      BY <1>1, <1>2, <2>2, CallTypeInv DEF TypeInv, CallsOK, Lookup, GetRecord, Refuse,
         Answer, Return, Goto
    <3>2. MidVersion(t)' /\ ExpectedSoFar(t)'
      BY <3>1 DEF MidVersion, ExpectedSoFar, MidWrite
    <3>3. pc'[t] \in {"seeding", "check"} => GetRecord(t)
      BY <1>1, <2>2, CallTypeInv DEF TypeInv, CallsOK, Lookup, Refuse, Answer, Return, Goto
    <3>4. pc'[t] = "seeding" => store[call'[t].deal] = None
      BY <1>1, <3>3 DEF GetRecord, Goto, Return, TypeInv, CallsOK
    <3>5. pc'[t] = "check" => store[call'[t].deal] = call'[t].rec
      <4> SUFFICES ASSUME pc'[t] = "check"
                   PROVE  store[call'[t].deal] = call'[t].rec
        OBVIOUS
      <4>1. /\ call[t] \in CallRecords
            /\ call' = [call EXCEPT ![t].rec = store[call[t].deal]]
        BY <1>1, <3>3 DEF GetRecord, Goto, Return, TypeInv, CallsOK
      <4> QED
        BY <1>1, <4>1 DEF TypeInv, CallsOK, CallRecords
    <3> QED
      BY <1>1, <3>1, <3>2, <3>4, <3>5 DEF Consistent, OnStored
  <2> QED
    BY <2>1, <2>2
<1>5. ASSUME NEW d \in Deals, pc[t] # "idle", d = call[t].deal
      PROVE  /\ store'[d] # None => record'[d][store'[d]].version = 1 + Len(timeline'[d])
             /\ store'[d] = None => Len(timeline'[d]) = 0
  BY <1>1, <1>3, <1>5 DEF VersionInv, StoreInv, Size
<1> QED
  BY <1>1, <1>2, <1>4, <1>5, StepKeeps

\* A record that is seeded has version 1, and its deal no activity.
LEMMA VersionSeed ==
  ASSUME DealsApart, VersionInv, NEW t \in Threads, SeedRecord(t)
  PROVE  VersionInv'
<1> DEFINE d == call[t].deal
<1>1. /\ TypeInv /\ Work(t) /\ pc[t] = "seeding" /\ d \in Deals
      /\ UNCHANGED timeline /\ store[d] = None
  BY DEF VersionInv, SeedRecord, Work, TypeInv, CallsOK, WellFormed, Consistent, OnStored
<1>2. Len(timeline[d]) = 0 /\ store'[d] = t /\ record'[d][t] = Seed
  BY <1>1 DEF VersionInv, StoreInv, SeedRecord, TypeInv, TablesOK, Size
<1>3. TypeInv' /\ t # None
  BY <1>1, WorkTypeInv, CrmAssumption
<1>4. \/ pc'[t] = "idle"
      \/ pc'[t] = "check" /\ call'[t].deal = d /\ call'[t].rec = t
  BY <1>1 DEF SeedRecord, Return, Goto, TypeInv, CallsOK, CallRecords
<1>5. Consistent(t)'
  BY <1>2, <1>4 DEF Consistent, OnStored, MidVersion, ExpectedSoFar, MidWrite
<1>6. record'[d][store'[d]].version = 1 + Len(timeline'[d])
  BY <1>1, <1>2 DEF Seed
<1> QED
  BY <1>1, <1>2, <1>3, <1>5, <1>6, StepKeeps

\* What the steps of a write share: they stay with their deal and its record.
LEMMA WriteFacts ==
  ASSUME VersionInv, NEW t \in Threads,
         WriteStage(t) \/ ReadVersion(t) \/ WriteVersion(t) \/ AppendActivity(t)
  PROVE  /\ TypeInv /\ TypeInv' /\ UNCHANGED store
         /\ call[t].deal \in Deals /\ call[t].rec \in Threads /\ call[t].op \in Writes
         /\ SameWrite(t) /\ call'[t].rec = call[t].rec
         /\ store[call[t].deal] = call[t].rec
         /\ pc'[t] \in MidWrite \cup {"answer"}
         /\ \A d \in Deals : Size(d) \in Nat
<1>1. Work(t) /\ TypeInv /\ Consistent(t) /\ pc[t] \in MidWrite \cup {"write_stage"}
  BY DEF Work, VersionInv, WriteStage, ReadVersion, WriteVersion, AppendActivity, MidWrite
<1>2. TypeInv' /\ OnlyMine(t)
  BY <1>1, WorkTypeInv
<1>3. pc'[t] \in MidWrite \cup {"answer"}
  BY <1>1 DEF WriteStage, ReadVersion, WriteVersion, AppendActivity, Goto, MidWrite,
     TypeInv, CallsOK
<1>4. /\ call[t].deal \in Deals /\ call[t].rec \in Threads /\ call[t].op \in Writes
      /\ store[call[t].deal] = call[t].rec
  BY <1>1 DEF MidWrite, TypeInv, CallsOK, WellFormed, Consistent, OnStored
<1>5. call'[t].rec = call[t].rec /\ UNCHANGED store
  BY <1>1 DEF WriteStage, ReadVersion, WriteVersion, AppendActivity, TypeInv, CallsOK,
     CallRecords
<1>6. SameWrite(t)
  BY <1>2, <1>3 DEF OnlyMine, MidWrite
<1>7. \A d \in Deals : Size(d) \in Nat
  BY <1>1 DEF TypeInv, TablesOK, Size
<1> QED
  BY <1>1, <1>2, <1>3, <1>4, <1>5, <1>6, <1>7

\* A write's step keeps the invariant if it keeps it for the write's own deal.
LEMMA WriteKeeps ==
  ASSUME DealsApart, VersionInv, NEW t \in Threads,
         WriteStage(t) \/ ReadVersion(t) \/ WriteVersion(t) \/ AppendActivity(t),
         MidVersion(t)', ExpectedSoFar(t)',
         pc'[t] = "answer" =>
           record'[call[t].deal][call[t].rec].version = Len(timeline'[call[t].deal]) + 1
  PROVE  VersionInv'
<1> DEFINE d == call[t].deal
<1>1. /\ TypeInv' /\ UNCHANGED store /\ d \in Deals /\ call'[t].deal = d
      /\ store[d] = call[t].rec /\ call[t].rec # None /\ call'[t].rec = call[t].rec
      /\ pc'[t] \in MidWrite \cup {"answer"}
  BY WriteFacts, CrmAssumption DEF SameWrite
<1>2. Work(t)
  BY DEF Work
<1>3. Consistent(t)'
  BY <1>1 DEF Consistent, OnStored, MidWrite
<1>4. Quiet(d)' => pc'[t] = "answer"
  BY <1>1 DEF Quiet, MidWrite
<1>5. Len(timeline'[d]) \in Nat
  BY <1>1 DEF TypeInv, TablesOK
<1> QED
  BY <1>1, <1>2, <1>3, <1>4, <1>5, StepKeeps

\* The steps of a write, each with what it does to its version and timeline.
LEMMA VersionWrite ==
  ASSUME DealsApart, VersionInv, NEW t \in Threads,
         WriteStage(t) \/ ReadVersion(t) \/ WriteVersion(t) \/ AppendActivity(t)
  PROVE  VersionInv'
<1> DEFINE d == call[t].deal
           r == call[t].rec
           n == Size(d)
           v == record[d][r].version
<1>1. /\ TypeInv /\ d \in Deals /\ r \in Threads /\ call[t].op \in Writes
      /\ store[d] = r /\ r # None /\ n \in Nat
      /\ call'[t].op = call[t].op /\ call'[t].deal = d /\ call'[t].rec = r
      /\ call'[t].expected = call[t].expected
  BY WriteFacts, CrmAssumption DEF SameWrite
<1>2. MidVersion(t) /\ ExpectedSoFar(t) /\ record[d][r] \in Records /\ v = Mine(t).version
  BY <1>1 DEF VersionInv, Consistent, TypeInv, TablesOK, Mine
<1>3. CASE WriteStage(t)
  <2>1. /\ pc[t] = "write_stage" /\ pc'[t] = "read_version" /\ UNCHANGED timeline
        /\ call[t].op = "stage"
    BY <1>1, <1>3 DEF WriteStage, Goto, TypeInv, CallsOK, WellFormed
  <2>2. v = n + 1
    BY <1>1, <2>1, MyDealQuiet, QuietVersion DEF MidWrite
  <2>3. record'[d][r].version = v
    BY <1>1, <1>2, <1>3 DEF WriteStage, TypeInv, TablesOK, Records
  <2>4. MidVersion(t)'
    BY <1>1, <2>1, <2>2, <2>3 DEF MidVersion, Mine, Size
  <2>5. ExpectedSoFar(t)'
    BY <1>1, <1>2, <2>1 DEF ExpectedSoFar, MidWrite, Size
  <2> QED
    BY <2>1, <2>4, <2>5, WriteKeeps
<1>4. CASE ReadVersion(t)
  <2>1. /\ pc[t] = "read_version" /\ pc'[t] = "write_version"
        /\ UNCHANGED <<record, timeline>> /\ call'[t].version = v
    BY <1>1, <1>2, <1>4 DEF ReadVersion, Goto, TypeInv, CallsOK, CallRecords
  <2>2. MidVersion(t)'
    BY <1>1, <1>2, <2>1 DEF MidVersion, Mine, Size
  <2>3. ExpectedSoFar(t)'
    BY <1>1, <1>2, <2>1 DEF ExpectedSoFar, MidWrite, Size, Writes
  <2> QED
    BY <2>1, <2>2, <2>3, WriteKeeps
<1>5. CASE WriteVersion(t)
  <2>1. /\ pc[t] = "write_version" /\ UNCHANGED <<timeline, call>>
        /\ pc'[t] = IF call[t].op = "stage" THEN "append" ELSE "answer"
    BY <1>1, <1>5 DEF WriteVersion, Goto, TypeInv, CallsOK
  <2>2. record'[d][r].version = call[t].version + 1
    BY <1>1, <1>2, <1>5 DEF WriteVersion, TypeInv, TablesOK, Records
  <2>3. call[t].version = IF call[t].op = "stage" THEN n + 1 ELSE n
    BY <1>2, <2>1 DEF MidVersion
  <2>4. MidVersion(t)'
    BY <1>1, <2>1, <2>2, <2>3 DEF MidVersion, Mine, Size
  <2>5. ExpectedSoFar(t)'
    BY <1>1, <1>2, <2>1 DEF ExpectedSoFar, MidWrite, Size, Writes
  <2>6. pc'[t] = "answer" => record'[d][r].version = Len(timeline'[d]) + 1
    BY <1>1, <2>1, <2>2, <2>3 DEF Size
  <2> QED
    BY <2>4, <2>5, <2>6, WriteKeeps
<1>6. CASE AppendActivity(t)
  <2>1. /\ pc[t] = "append" /\ UNCHANGED <<record, call>>
        /\ pc'[t] = IF call[t].op = "stage" THEN "answer" ELSE "read_version"
    BY <1>1, <1>6 DEF AppendActivity, Goto, TypeInv, CallsOK
  <2>2. Len(timeline'[d]) = n + 1
    BY <1>1, <1>6, AppendFacts DEF Size
  <2>3. v = IF call[t].op = "stage" THEN n + 2 ELSE n + 1
    BY <1>2, <2>1 DEF MidVersion
  <2>4. MidVersion(t)'
    BY <1>1, <2>1, <2>2, <2>3 DEF MidVersion, Mine, Size
  <2>5. ExpectedSoFar(t)'
    BY <1>1, <2>1 DEF ExpectedSoFar, MidWrite, Writes
  <2>6. pc'[t] = "answer" => record'[d][r].version = Len(timeline'[d]) + 1
    BY <1>1, <2>1, <2>2, <2>3
  <2> QED
    BY <2>4, <2>5, <2>6, WriteKeeps
<1> QED
  BY <1>3, <1>4, <1>5, <1>6

\* Every step keeps the invariant of the versions.
LEMMA VersionStep == DealsApart /\ VersionInv /\ [Next]_vars => VersionInv'
<1>1. ASSUME VersionInv, UNCHANGED vars
      PROVE  VersionInv'
  <2>1. TypeInv'
    BY <1>1, NextTypeInv DEF VersionInv
  <2> QED
    BY <1>1, <2>1 DEF VersionInv, StoreInv, VersionCountsWrites, Quiet, Consistent,
       OnStored, MidVersion, ExpectedSoFar, Size, Mine, vars
<1> QED
  BY <1>1, VersionRest, VersionSeed, VersionWrite DEF Next, Work

\* The initial state: no deal has a record or an activity.
LEMMA VersionInit == Init => VersionInv
  BY InitTypeInv DEF Init, VersionInv, StoreInv, VersionCountsWrites, Consistent, OnStored,
     MidVersion, ExpectedSoFar, MidWrite, Size

\* As long as no two calls on one deal overlap, the version counts the activities, for
\* any number of threads that are on different deals.
THEOREM VersionCorrect ==
  Spec /\ []DealsApart => []VersionCountsWrites
<1>1. VersionInv => VersionCountsWrites
  BY DEF VersionInv
<1>2. DealsApart /\ VersionInv /\ [Next]_vars => VersionInv'
  BY VersionStep
<1> QED
  BY <1>1, <1>2, VersionInit, PTL DEF Spec

\* As long as no two calls on one deal overlap, a write with an expected version is
\* appended right after the activities its caller has seen.
THEOREM ExpectedCorrect ==
  Spec /\ []DealsApart => ExpectedVersionHolds
<1> DEFINE Held == \A t \in Threads :
             LET d == call[t].deal
             IN pc[t] = "append" /\ pc'[t] # "append" /\ call[t].expected # None
                  => Len(timeline'[d]) = call[t].expected
<1>1. VersionInv /\ [Next]_vars => [Held]_vars
  <2> SUFFICES ASSUME VersionInv, Next, NEW t \in Threads,
                      pc[t] = "append", pc'[t] # "append", call[t].expected # None
               PROVE  Len(timeline'[call[t].deal]) = call[t].expected
    OBVIOUS
  <2>1. Call(t) \/ Work(t)
    BY CallTypeInv, WorkTypeInv DEF VersionInv, Next, OnlyMine
  <2>2. AppendActivity(t)
    BY <2>1, CallTypeInv DEF VersionInv, Work, Lookup, GetRecord, SeedRecord,
       CheckVersion, Refuse, WriteStage, ReadVersion, WriteVersion, Answer
  <2>3. Len(timeline'[call[t].deal]) = Size(call[t].deal) + 1
    BY <2>2, AppendFacts DEF VersionInv, Size
  <2>4. call[t].expected = Size(call[t].deal) + 1
    BY DEF VersionInv, Consistent, ExpectedSoFar, MidWrite
  <2> QED
    BY <2>3, <2>4
<1>2. DealsApart /\ VersionInv /\ [Next]_vars => VersionInv'
  BY VersionStep
<1> QED
  BY <1>1, <1>2, VersionInit, PTL DEF Spec, ExpectedVersionHolds

-----------------------------------------------------------------------------
(* Stages, when no two calls on one deal overlap. *)

\* In the middle of a write the timeline still tells the stage from before it.
MidStage(t) ==
  LET told == Len(timeline[call[t].deal])
  IN pc[t] \in MidWrite =>
       IF call[t].op = "stage"
       THEN Tells(timeline[call[t].deal], told, call[t].from) /\ Mine(t).stage = call[t].to
       ELSE Tells(timeline[call[t].deal], told, Mine(t).stage)

StageInv ==
  /\ VersionInv /\ StagesFollowTimeline
  /\ \A t \in Threads : MidStage(t)

\* The stage of a quiet deal is the one its timeline tells.
StageTold(d) ==
  Quiet(d) /\ store[d] # None => Tells(timeline[d], Len(timeline[d]), record[d][store[d]].stage)

\* It is so of every deal.
LEMMA StagesOfDeals ==
  StagesFollowTimeline <=> \A d \in Deals : Chained(timeline[d]) /\ StageTold(d)
BY DEF StagesFollowTimeline, Chained, StageTold

\* A quiet deal is at the stage its timeline tells.
LEMMA QuietStage ==
  ASSUME StageInv, NEW d \in Deals, Quiet(d), store[d] # None
  PROVE  Tells(timeline[d], Size(d), record[d][store[d]].stage)
BY DEF StageInv, StagesFollowTimeline, Size

\* What the other threads know of the stages stays so.
LEMMA OthersMidStage ==
  ASSUME DealsApart, StageInv, NEW t \in Threads, Call(t) \/ Work(t),
         NEW s \in Threads, s # t
  PROVE  MidStage(s)'
<1>1. TypeInv /\ MidStage(s)
  BY DEF StageInv, VersionInv
<1>2. CASE pc[s] = "idle"
  BY <1>1, <1>2, OtherThreads DEF MidStage, MidWrite
<1>3. CASE pc[s] # "idle"
  <2> DEFINE d == call[s].deal
  <2>1. /\ pc'[s] = pc[s] /\ call'[s] = call[s]
        /\ record'[d] = record[d] /\ timeline'[d] = timeline[d]
    BY <1>1, <1>3, OtherThreads
  <2> QED
    BY <1>1, <2>1 DEF MidStage, Mine
<1> QED
  BY <1>2, <1>3

\* A step keeps the invariant if it keeps what concerns its own thread and deal.
LEMMA StageKeeps ==
  ASSUME DealsApart, StageInv, NEW t \in Threads, Call(t) \/ Work(t), VersionInv',
         MidStage(t)',
         \A d \in Deals : pc[t] # "idle" /\ d = call[t].deal
                            => Chained(timeline'[d]) /\ StageTold(d)'
  PROVE  StageInv'
<1>1. \A s \in Threads : MidStage(s)'
  BY OthersMidStage
<1>2. StagesFollowTimeline'
  <2> SUFFICES ASSUME NEW e \in Deals, pc[t] = "idle" \/ e # call[t].deal
               PROVE  Chained(timeline'[e]) /\ StageTold(e)'
    BY DEF StagesFollowTimeline, Chained, StageTold
  <2>1. /\ store'[e] = store[e] /\ record'[e] = record[e] /\ timeline'[e] = timeline[e]
        /\ Quiet(e)' => Quiet(e)
    BY OtherDeals, QuietBefore DEF StageInv, VersionInv, MidWrite
  <2>2. Chained(timeline[e]) /\ StageTold(e)
    BY StagesOfDeals DEF StageInv
  <2>3. Chained(timeline'[e])
    BY <2>1, <2>2
  <2>4. StageTold(e)'
    BY <2>1, <2>2 DEF StageTold
  <2> QED
    BY <2>3, <2>4
<1> QED
  BY <1>1, <1>2 DEF StageInv

\* The steps that change neither records nor timelines.
LEMMA StageRest ==
  ASSUME DealsApart, StageInv, NEW t \in Threads,
         \/ Call(t) \/ Lookup(t) \/ GetRecord(t) \/ CheckVersion(t) \/ Refuse(t)
         \/ Answer(t)
  PROVE  StageInv'
<1>1. /\ VersionInv /\ TypeInv /\ UNCHANGED <<store, record, timeline>>
      /\ pc[t] \notin MidWrite /\ (Call(t) \/ Work(t))
  BY DEF StageInv, VersionInv, Call, Fetch, AppendActivityLog, UpdateDealStage, Lookup,
     GetRecord, CheckVersion, Refuse, Answer, MidWrite, Work
<1>2. VersionInv' /\ TypeInv'
  BY <1>1, VersionRest DEF VersionInv
<1>3. ASSUME NEW d \in Deals, pc[t] # "idle", d = call[t].deal
      PROVE  Chained(timeline'[d]) /\ StageTold(d)'
  <2>1. Quiet(d) /\ Chained(timeline[d])
    BY <1>1, <1>3, MyDealQuiet, StagesOfDeals DEF StageInv
  <2>2. Chained(timeline'[d])
    BY <1>1, <2>1
  <2>3. StageTold(d)'
    BY <1>1, <2>1, QuietStage DEF StageTold, Size
  <2> QED
    BY <2>2, <2>3
<1>4. MidStage(t)'
  <2>1. CASE CheckVersion(t)
    <3> SUFFICES ASSUME pc'[t] \in MidWrite PROVE MidStage(t)'
      BY DEF MidStage
    <3>1. /\ UNCHANGED call /\ pc[t] = "check"
          /\ pc'[t] = IF Conflict(t) THEN "refused"
                      ELSE IF call[t].op = "stage" THEN "write_stage" ELSE "append"
      BY <1>1, <2>1 DEF CheckVersion, Goto, TypeInv, CallsOK
    <3>2. /\ call[t].deal \in Deals /\ call[t].rec \in Threads
          /\ store[call[t].deal] = call[t].rec /\ Quiet(call[t].deal)
      BY <1>1, <3>1, MyDealQuiet
      DEF TypeInv, CallsOK, WellFormed, VersionInv, Consistent, OnStored
    <3>3. call[t].op # "stage"
      BY <3>1 DEF MidWrite
    <3>4. Tells(timeline[call[t].deal], Size(call[t].deal), Mine(t).stage)
      BY <3>2, QuietStage, CrmAssumption DEF Mine
    <3> QED
      BY <1>1, <3>1, <3>3, <3>4 DEF MidStage, Mine, Size
  <2>2. CASE ~CheckVersion(t)
    <3>1. pc'[t] \in {"idle", "lookup", "get_record", "seeding", "check"}
      BY <1>1, <1>2, <2>2, CallTypeInv DEF TypeInv, CallsOK, Lookup, GetRecord, Refuse,
         Answer, Return, Goto
    <3> QED
      BY <3>1 DEF MidStage, MidWrite
  <2> QED
    BY <2>1, <2>2
<1> QED
  BY <1>1, <1>2, <1>3, <1>4, StageKeeps

\* A record that is seeded is at the stage of an empty timeline.
LEMMA StageSeed ==
  ASSUME DealsApart, StageInv, NEW t \in Threads, SeedRecord(t)
  PROVE  StageInv'
<1> DEFINE d == call[t].deal
<1>1. /\ VersionInv /\ TypeInv /\ pc[t] = "seeding" /\ d \in Deals /\ Work(t)
      /\ UNCHANGED timeline /\ store[d] = None
  BY DEF StageInv, VersionInv, SeedRecord, TypeInv, CallsOK, WellFormed, Consistent,
     OnStored, Work
<1>2. Size(d) = 0 /\ store'[d] = t /\ record'[d][t] = Seed
  BY <1>1 DEF VersionInv, StoreInv, SeedRecord, TypeInv, TablesOK, Size
<1>3. pc'[t] \in {"idle", "check"}
  BY <1>1 DEF SeedRecord, Return, Goto, TypeInv, CallsOK
<1>4. VersionInv'
  BY <1>1, VersionSeed
<1>5. \A e \in Deals : e = d => Chained(timeline'[e]) /\ StageTold(e)'
  <2> SUFFICES ASSUME NEW e \in Deals, e = d
               PROVE  Chained(timeline'[e]) /\ StageTold(e)'
    OBVIOUS
  <2>1. Chained(timeline'[e])
    BY <1>1, StagesOfDeals DEF StageInv
  <2>2. Tells(timeline'[e], 0, "proposal")
    BY DEF Tells
  <2>3. Len(timeline'[e]) = 0 /\ record'[e][store'[e]].stage = "proposal"
    BY <1>1, <1>2 DEF Size, Seed
  <2>4. StageTold(e)'
    BY <2>2, <2>3 DEF StageTold
  <2> QED
    BY <2>1, <2>4
<1>6. MidStage(t)'
  BY <1>3 DEF MidStage, MidWrite
<1> QED
  BY <1>1, <1>4, <1>5, <1>6, StageKeeps

\* A write's step keeps the invariant if it keeps it for the write's own deal.
LEMMA StageWriteKeeps ==
  ASSUME DealsApart, StageInv, NEW t \in Threads,
         WriteStage(t) \/ ReadVersion(t) \/ WriteVersion(t) \/ AppendActivity(t),
         MidStage(t)', Chained(timeline'[call[t].deal]),
         pc'[t] = "answer" => Tells(timeline'[call[t].deal], Len(timeline'[call[t].deal]),
                                    record'[call[t].deal][call[t].rec].stage)
  PROVE  StageInv'
<1> DEFINE d == call[t].deal
<1>1. /\ VersionInv /\ UNCHANGED store /\ Work(t)
      /\ call'[t].deal = d /\ store[d] = call[t].rec
      /\ pc'[t] \in MidWrite \cup {"answer"}
  BY WriteFacts DEF StageInv, SameWrite, Work
<1>2. VersionInv'
  BY <1>1, VersionWrite
<1>3. \A e \in Deals : e = d => Chained(timeline'[e]) /\ StageTold(e)'
  <2> SUFFICES ASSUME NEW e \in Deals, e = d PROVE StageTold(e)'
    OBVIOUS
  <2>1. Quiet(e)' => pc'[t] = "answer"
    BY <1>1 DEF Quiet, MidWrite
  <2> QED
    BY <1>1, <2>1 DEF StageTold
<1> QED
  BY <1>1, <1>2, <1>3, StageKeeps

\* An activity more: the chain grows by it, and it tells its stage if it is an update.
LEMMA AppendTells ==
  ASSUME NEW a \in Seq(Entries), NEW e \in Entries, Chained(a),
         e.kind = "stage" => Tells(a, Len(a), e.from)
  PROVE  /\ Chained(Append(a, e))
         /\ e.kind = "stage" => Tells(Append(a, e), Len(a) + 1, e.to)
         /\ e.kind # "stage" =>
              \A stage : Tells(a, Len(a), stage) => Tells(Append(a, e), Len(a) + 1, stage)
<1> DEFINE n == Len(a)
           b == Append(a, e)
<1>1. /\ n \in Nat /\ DOMAIN a = 1 .. n /\ DOMAIN b = 1 .. (n + 1)
      /\ b[n + 1] = e /\ \A i \in 1 .. n : b[i] = a[i]
  OBVIOUS
<1> HIDE DEF n, b
<1>2. ASSUME NEW k \in 0 .. n, NEW stage, Tells(a, k, stage) PROVE Tells(b, k, stage)
  <2>1. 1 .. k \subseteq 1 .. n
    BY <1>1
  <2>2. {i \in 1 .. k : b[i].kind = "stage"} = {i \in 1 .. k : a[i].kind = "stage"}
    BY <1>1, <2>1
  <2> QED
    BY <1>1, <1>2, <2>1, <2>2 DEF Tells
<1>3. Chained(b)
  <2> SUFFICES ASSUME NEW i \in 1 .. (n + 1), b[i].kind = "stage"
               PROVE  Tells(b, i - 1, b[i].from)
    BY <1>1 DEF Chained
  <2>1. CASE i = n + 1
    <3>1. i - 1 = n /\ b[i] = e /\ n \in 0 .. n
      BY <1>1, <2>1
    <3>2. Tells(a, n, e.from)
      BY <3>1 DEF n
    <3> QED
      BY <1>2, <3>1, <3>2
  <2>2. CASE i # n + 1
    <3>1. i \in 1 .. n /\ i - 1 \in 0 .. n /\ b[i] = a[i]
      BY <1>1, <2>2
    <3>2. Tells(a, i - 1, a[i].from)
      BY <1>1, <3>1 DEF Chained
    <3> QED
      BY <1>2, <3>1, <3>2
  <2> QED
    BY <2>1, <2>2
<1>4. ASSUME e.kind = "stage" PROVE Tells(b, n + 1, e.to)
  BY <1>1, <1>4 DEF Tells
<1>5. ASSUME e.kind # "stage", NEW stage, Tells(a, n, stage)
      PROVE  Tells(b, n + 1, stage)
  <2>1. {i \in 1 .. (n + 1) : b[i].kind = "stage"} = {i \in 1 .. n : a[i].kind = "stage"}
    BY <1>1, <1>5
  <2> QED
    BY <1>1, <1>5, <2>1 DEF Tells
<1> QED
  BY <1>3, <1>4, <1>5 DEF n, b

\* The steps of a write, each with what it does to the stage and the timeline.
LEMMA StageWrite ==
  ASSUME DealsApart, StageInv, NEW t \in Threads,
         WriteStage(t) \/ ReadVersion(t) \/ WriteVersion(t) \/ AppendActivity(t)
  PROVE  StageInv'
<1> DEFINE d == call[t].deal
           r == call[t].rec
           n == Len(timeline[d])
<1>1. /\ VersionInv /\ TypeInv /\ d \in Deals /\ r \in Threads /\ call[t].op \in Writes
      /\ store[d] = r /\ r # None /\ n \in Nat
      /\ call'[t].op = call[t].op /\ call'[t].deal = d /\ call'[t].rec = r
      /\ call'[t].key = call[t].key
  BY WriteFacts, CrmAssumption DEF StageInv, SameWrite, Size
<1>2. /\ MidStage(t) /\ Chained(timeline[d]) /\ record[d][r] \in Records
      /\ call[t] \in CallRecords /\ timeline[d] \in Seq(Entries)
  BY <1>1, StagesOfDeals DEF StageInv, TypeInv, TablesOK, CallsOK
<1>3. CASE WriteStage(t)
  <2>1. /\ pc[t] = "write_stage" /\ pc'[t] = "read_version" /\ UNCHANGED timeline
        /\ call[t].op = "stage" /\ call[t].to \in Stages
    BY <1>1, <1>3 DEF WriteStage, Goto, TypeInv, CallsOK, WellFormed
  <2>2. Tells(timeline[d], n, record[d][r].stage)
    BY <1>1, <2>1, MyDealQuiet, QuietStage DEF MidWrite, Size
  <2>3. record'[d][r].stage = call[t].to
    BY <1>1, <1>2, <1>3 DEF WriteStage, TypeInv, TablesOK, Records
  <2>4. call'[t].from = record[d][r].stage /\ call'[t].to = call[t].to
    BY <1>1, <1>2, <1>3 DEF WriteStage, TypeInv, CallsOK, CallRecords
  <2>5. MidStage(t)'
    BY <1>1, <2>1, <2>2, <2>3, <2>4 DEF MidStage, Mine
  <2> QED
    BY <1>2, <2>1, <2>5, StageWriteKeeps
<1>4. CASE ReadVersion(t)
  <2>1. /\ pc[t] = "read_version" /\ pc'[t] = "write_version"
        /\ UNCHANGED <<record, timeline>>
        /\ call'[t].from = call[t].from /\ call'[t].to = call[t].to
    BY <1>1, <1>2, <1>4 DEF ReadVersion, Goto, TypeInv, CallsOK, CallRecords
  <2>2. MidStage(t)'
    BY <1>1, <1>2, <2>1 DEF MidStage, Mine, MidWrite
  <2> QED
    BY <1>2, <2>1, <2>2, StageWriteKeeps
<1>5. CASE WriteVersion(t)
  <2>1. /\ pc[t] = "write_version" /\ UNCHANGED <<timeline, call>>
        /\ pc'[t] = IF call[t].op = "stage" THEN "append" ELSE "answer"
    BY <1>1, <1>5 DEF WriteVersion, Goto, TypeInv, CallsOK
  <2>2. record'[d][r].stage = record[d][r].stage
    BY <1>1, <1>2, <1>5 DEF WriteVersion, TypeInv, TablesOK, Records
  <2>3. MidStage(t)'
    BY <1>1, <1>2, <2>1, <2>2 DEF MidStage, Mine, MidWrite
  <2>4. pc'[t] = "answer" => Tells(timeline'[d], n, record'[d][r].stage)
    BY <1>1, <1>2, <2>1, <2>2 DEF MidStage, Mine, MidWrite
  <2> QED
    BY <1>2, <2>1, <2>3, <2>4, StageWriteKeeps
<1>6. CASE AppendActivity(t)
  <2> DEFINE e == Activity(t)
  <2>1. /\ pc[t] = "append" /\ UNCHANGED <<record, call>>
        /\ pc'[t] = IF call[t].op = "stage" THEN "answer" ELSE "read_version"
        /\ timeline'[d] = Append(timeline[d], e)
    BY <1>1, <1>6 DEF AppendActivity, Goto, TypeInv, CallsOK, TablesOK
  <2>2. e \in Entries /\ e.kind = call[t].op /\ e.from = call[t].from /\ e.to = call[t].to
    BY <1>1, <1>2, <2>1 DEF Activity, Entries, CallRecords, TypeInv, CallsOK, WellFormed
  <2>3. IF call[t].op = "stage"
        THEN Tells(timeline[d], n, call[t].from) /\ Mine(t).stage = call[t].to
        ELSE Tells(timeline[d], n, Mine(t).stage)
    BY <1>2, <2>1 DEF MidStage, MidWrite
  <2> HIDE DEF e
  <2>4. /\ Chained(timeline'[d])
        /\ e.kind = "stage" => Tells(timeline'[d], n + 1, e.to)
        /\ e.kind # "stage" => \A stage : Tells(timeline[d], n, stage)
                               => Tells(timeline'[d], n + 1, stage)
    BY <1>1, <1>2, <2>1, <2>2, <2>3, AppendTells
  <2>5. Len(timeline'[d]) = n + 1
    BY <1>2, <2>1
  <2>6. Tells(timeline'[d], n + 1, record'[d][r].stage)
    BY <1>1, <2>1, <2>2, <2>3, <2>4 DEF Mine
  <2>7. MidStage(t)'
    BY <1>1, <2>1, <2>5, <2>6 DEF MidStage, Mine, MidWrite
  <2> QED
    BY <2>1, <2>4, <2>5, <2>6, <2>7, StageWriteKeeps
<1> QED
  BY <1>3, <1>4, <1>5, <1>6

\* Every step keeps the invariant of the stages.
LEMMA StageStep == DealsApart /\ StageInv /\ [Next]_vars => StageInv'
<1>1. ASSUME StageInv, VersionInv', UNCHANGED vars
      PROVE  StageInv'
  BY <1>1 DEF StageInv, StagesFollowTimeline, Quiet, MidStage, Mine, vars
<1>2. DealsApart /\ StageInv /\ [Next]_vars => VersionInv'
  BY VersionStep DEF StageInv
<1> QED
  BY <1>1, <1>2, StageRest, StageSeed, StageWrite DEF Next, Work

\* An empty timeline follows itself.
LEMMA InitStageInv == Init => StageInv
<1>1. Chained(<<>>)
  BY DEF Chained
<1>2. Init => /\ \A d \in Deals : timeline[d] = <<>> /\ store[d] = None
              /\ \A t \in Threads : pc[t] = "idle"
  BY DEF Init
<1> QED
  BY <1>1, <1>2, VersionInit DEF StageInv, StagesFollowTimeline, MidStage, MidWrite

\* As long as no two calls on one deal overlap, the stage updates of its timeline follow
\* one another up to the stage of its record, however the notes, conflicts, answers from
\* the cache and seeded records come between them.
THEOREM StageCorrect ==
  Spec /\ []DealsApart => []StagesFollowTimeline
<1>1. StageInv => StagesFollowTimeline
  BY DEF StageInv
<1>2. DealsApart /\ StageInv /\ [Next]_vars => StageInv'
  BY StageStep
<1> QED
  BY <1>1, <1>2, InitStageInv, PTL DEF Spec

-----------------------------------------------------------------------------
(* The tool as one record that changes at once, on the same condition. *)

\* Calls on different deals are for different keys.
LEMMA ApartDealsApartKeys == DealsApart => KeysApart
BY DEF DealsApart, KeysApart, IsFor

\* A thread at work is not idle, and keeps its deal until it returns.
LEMMA WorkerStays ==
  ASSUME TypeInv, NEW t \in Threads, Work(t)
  PROVE  /\ pc[t] # "idle" /\ call[t].deal \in Deals /\ TypeInv' /\ OnlyMine(t)
         /\ pc'[t] # "idle" => SameWrite(t)
<1>1. pc[t] # "idle"
  BY DEF Work, Lookup, GetRecord, SeedRecord, CheckVersion, Refuse, WriteStage, ReadVersion,
     WriteVersion, AppendActivity, Answer
<1>2. call[t].deal \in Deals
  BY <1>1 DEF TypeInv, CallsOK, WellFormed
<1> QED
  BY <1>1, <1>2, WorkTypeInv DEF OnlyMine

\* What a write that is under way asks for, and why it is refused.
AsksWell(t) ==
  /\ pc[t] # "idle" /\ call[t].op \in Writes => call[t].expected \in Expected
  /\ call[t].op = "note" => call[t].from = None /\ call[t].to = None
  /\ pc[t] = "refused" => Conflict(t)

RecordInv == KeyInv /\ StageInv /\ \A t \in Threads : AsksWell(t)

\* Every step leaves the calls with their reasons.
LEMMA AsksWellKept ==
  ASSUME DealsApart, VersionInv, NEW t \in Threads, Call(t) \/ Work(t),
         \A s \in Threads : AsksWell(s)
  PROVE  \A s \in Threads : AsksWell(s)'
<1>0. TypeInv
  BY DEF VersionInv
<1>1. ASSUME NEW s \in Threads, s # t PROVE AsksWell(s)'
  <2>1. pc'[s] = pc[s] /\ call'[s] = call[s] /\ AsksWell(s)
    BY <1>0, <1>1, OtherThreads
  <2>2. CASE pc[s] = "refused"
    BY <1>0, <1>1, <2>1, <2>2, OtherThreads DEF AsksWell, Conflict, Mine
  <2>3. CASE pc[s] # "refused"
    BY <2>1, <2>3 DEF AsksWell
  <2> QED
    BY <2>2, <2>3
<1>2. CASE Call(t)
  <2>1. pc'[t] \in {"get_record", "lookup"} /\ (pc'[t] = "get_record" => call'[t].op = "fetch")
    BY <1>0, <1>2, CallTypeInv
  <2>2. /\ call'[t].op \in Writes => call'[t].expected \in Expected
        /\ call'[t].op = "note" => call'[t].from = None /\ call'[t].to = None
    <3> USE DEF NoCall, Writes, TypeInv, CallsOK
    <3>1. ASSUME NEW d \in Deals, Fetch(t, d) PROVE call'[t].op = "fetch"
      BY <1>0, <3>1 DEF Fetch
    <3>2. ASSUME NEW d \in Deals, NEW k \in Keys, NEW v \in Expected,
                 AppendActivityLog(t, d, k, v)
          PROVE  call'[t].expected = v /\ call'[t].from = None /\ call'[t].to = None
      BY <1>0, <3>2 DEF AppendActivityLog
    <3>3. ASSUME NEW d \in Deals, NEW k \in Keys, NEW v \in Expected, NEW s \in Stages,
                 UpdateDealStage(t, d, k, s, v)
          PROVE  call'[t].expected = v /\ call'[t].op = "stage"
      BY <1>0, <3>3 DEF UpdateDealStage
    <3> QED
      BY <1>2, <3>1, <3>2, <3>3 DEF Call
  <2> QED
    BY <1>1, <2>1, <2>2 DEF AsksWell
<1>3. CASE Work(t)
  <2>1. OnlyMine(t) /\ AsksWell(t) /\ pc[t] # "idle"
    BY <1>0, <1>3, WorkerStays
  <2>2. pc'[t] # "idle" /\ call'[t].op \in Writes => call'[t].expected \in Expected
    BY <2>1 DEF OnlyMine, SameWrite, AsksWell
  <2>3. pc'[t] = "refused" => CheckVersion(t)
    BY <1>0, <1>3 DEF Work, Lookup, GetRecord, SeedRecord, Refuse, WriteStage, ReadVersion,
       WriteVersion, AppendActivity, Answer, Return, Goto, TypeInv, CallsOK
  <2>4. CheckVersion(t) /\ pc'[t] = "refused" => Conflict(t)'
    BY <1>0 DEF CheckVersion, Goto, Conflict, Mine, TypeInv, CallsOK
  <2>5. call'[t].op = "note" => call'[t].from = None /\ call'[t].to = None
    <3>1. NoCall.op # "note" /\ call[t] \in CallRecords /\ call \in [Threads -> CallRecords]
      BY <1>0 DEF NoCall, TypeInv, CallsOK
    <3>2. CASE WriteStage(t)
      BY <1>0, <3>1, <3>2 DEF WriteStage, CallRecords, TypeInv, CallsOK, WellFormed
    <3>3. CASE Return(t)
      BY <3>1, <3>3 DEF Return
    <3>4. CASE ~WriteStage(t) /\ ~Return(t)
      <4>1. \/ UNCHANGED call
            \/ \E r : call' = [call EXCEPT ![t].rec = r]
            \/ \E v : call' = [call EXCEPT ![t].version = v]
        BY <1>3, <3>4 DEF Work, Lookup, GetRecord, SeedRecord, CheckVersion, Refuse,
           ReadVersion, WriteVersion, AppendActivity, Answer
      <4> QED
        BY <2>1, <3>1, <4>1 DEF AsksWell, CallRecords
    <3> QED
      BY <3>2, <3>3, <3>4
  <2> QED
    BY <1>1, <2>2, <2>3, <2>4, <2>5 DEF AsksWell
<1> QED
  BY <1>2, <1>3

\* The invariants together.
LEMMA RecordStep == DealsApart /\ RecordInv /\ [Next]_vars => RecordInv'
<1>1. DealsApart /\ RecordInv /\ [Next]_vars => KeyInv' /\ StageInv'
  BY ApartDealsApartKeys, KeyStep, StageStep DEF RecordInv
<1>2. ASSUME RecordInv, UNCHANGED vars PROVE \A t \in Threads : AsksWell(t)'
  BY <1>2 DEF RecordInv, AsksWell, Conflict, Mine, vars
<1>3. ASSUME DealsApart, RecordInv, Next PROVE \A t \in Threads : AsksWell(t)'
  BY <1>3, AsksWellKept DEF RecordInv, StageInv, Next
<1> QED
  BY <1>1, <1>2, <1>3 DEF RecordInv

\* The only member of a set.
LEMMA OnlyOne == \A x : Only({x}) = x
  BY DEF Only

\* The writers of a deal: those that a step of another deal leaves, and the thread itself.
LEMMA WritersStep ==
  ASSUME DealsApart, TypeInv, NEW t \in Threads, Call(t) \/ Work(t), NEW d \in Deals
  PROVE  /\ pc[t] = "idle" \/ call[t].deal # d =>
              Writers(d)' = Writers(d) /\ t \notin Writers(d)
         /\ pc[t] # "idle" /\ call[t].deal = d =>
              /\ Writers(d) = IF pc[t] \in MidWrite THEN {t} ELSE {}
              /\ Writers(d)' = IF pc'[t] \in MidWrite THEN {t} ELSE {}
<1>1. \A s \in Threads : s # t => pc'[s] = pc[s] /\ call'[s] = call[s]
  BY OtherThreads
<1>2. pc'[t] \in MidWrite => pc[t] # "idle" /\ call'[t].deal = call[t].deal
  <2>1. CASE Call(t)
    BY <2>1, CallTypeInv DEF MidWrite
  <2>2. CASE Work(t)
    <3>1. pc[t] # "idle" /\ OnlyMine(t)
      BY <2>2, WorkerStays
    <3> QED
      BY <3>1 DEF OnlyMine, SameWrite, MidWrite
  <2> QED
    BY <2>1, <2>2
<1>3. ASSUME pc[t] = "idle" \/ call[t].deal # d
      PROVE  Writers(d)' = Writers(d) /\ t \notin Writers(d)
  BY <1>1, <1>2, <1>3 DEF Writers, MidWrite
<1>4. ASSUME pc[t] # "idle", call[t].deal = d
      PROVE  /\ Writers(d) = IF pc[t] \in MidWrite THEN {t} ELSE {}
             /\ Writers(d)' = IF pc'[t] \in MidWrite THEN {t} ELSE {}
  <2>1. \A s \in Threads : s # t => pc[s] = "idle" \/ call[s].deal # d
    BY <1>4 DEF DealsApart
  <2> QED
    BY <1>1, <1>2, <1>4, <2>1 DEF Writers, MidWrite
<1> QED
  BY <1>3, <1>4

\* A step shows nothing of the deals its thread is not on.
LEMMA OthersRecord ==
  ASSUME DealsApart, TypeInv, NEW t \in Threads, Call(t) \/ Work(t), NEW d \in Deals,
         pc[t] = "idle" \/ call[t].deal # d
  PROVE  CurrentRecord(d)' = CurrentRecord(d)
<1>1. /\ store'[d] = store[d] /\ record'[d] = record[d]
      /\ Writers(d)' = Writers(d) /\ t \notin Writers(d)
  BY OtherDeals, WritersStep
<1>2. CASE Writers(d) = {}
  BY <1>1, <1>2 DEF CurrentRecord
<1>3. ASSUME NEW w \in Writers(d) PROVE CurrentRecord(d)' = CurrentRecord(d)
  <2>1. Writers(d) = {w} /\ w \in Threads /\ w # t
    BY <1>1 DEF Writers, DealsApart
  <2>2. pc'[w] = pc[w] /\ call'[w] = call[w]
    BY <2>1, OtherThreads
  <2>3. Only(Writers(d)) = w /\ Only(Writers(d)') = w
    BY <1>1, <2>1, OnlyOne
  <2> QED
    BY <1>1, <2>1, <2>2, <2>3 DEF CurrentRecord
<1> QED
  BY <1>2, <1>3

\* What is remembered is the answer of the call's own key.
LEMMA Remembered ==
  ASSUME TypeInv, NEW t \in Threads, NEW told, Remember(t, told),
         NEW o \in Writes, NEW d \in Deals, NEW k \in Keys
  PROVE  cache'[o][d][k] = IF call[t].op = o /\ call[t].deal = d /\ call[t].key = k
                           THEN told ELSE cache[o][d][k]
<1> DEFINE a == call[t].op
           b == call[t].deal
           c == call[t].key
<1>1. /\ cache \in [Writes -> [Deals -> [Keys -> Answers]]]
      /\ cache[o] \in [Deals -> [Keys -> Answers]]
  BY DEF TypeInv, TablesOK
<1>2. CASE a = o
  <2>1. cache'[o] = [cache[o] EXCEPT ![b][c] = told]
    BY <1>1, <1>2 DEF Remember
  <2> QED
    BY <1>1, <1>2, <2>1
<1>3. CASE a # o
  BY <1>1, <1>3 DEF Remember
<1> QED
  BY <1>2, <1>3

\* Nor of what their keys were told.
LEMMA OthersTold ==
  ASSUME DealsApart, TypeInv, NEW t \in Threads, Call(t) \/ Work(t), NEW d \in Deals,
         pc[t] = "idle" \/ call[t].deal # d, NEW o \in Writes, NEW k \in Keys
  PROVE  ToldAnswer(o, d, k)' = ToldAnswer(o, d, k)
<1>1. cache'[o][d][k] = cache[o][d][k]
  <2>1. CASE Refuse(t) \/ Answer(t)
    <3>1. call[t].deal # d
      BY <2>1 DEF Refuse, Answer
    <3> QED
      BY <2>1, <3>1, Remembered DEF Refuse, Answer
  <2>2. CASE ~(Refuse(t) \/ Answer(t))
    BY <2>2 DEF Call, Fetch, AppendActivityLog, UpdateDealStage, Work, Lookup, GetRecord,
       SeedRecord, CheckVersion, WriteStage, ReadVersion, WriteVersion, AppendActivity
  <2> QED
    BY <2>1, <2>2
<1>2. \A s \in Threads : s # t => pc'[s] = pc[s] /\ call'[s] = call[s]
  BY OtherThreads
<1>3. ~(Appended(t) /\ IsFor(t, o, d, k))
  BY DEF Appended, IsFor
<1>4. ~(Appended(t)' /\ IsFor(t, o, d, k)')
  <2>1. CASE Call(t)
    BY <2>1, CallTypeInv DEF Appended
  <2>2. CASE Work(t)
    <3>1. pc[t] # "idle" /\ OnlyMine(t)
      BY <2>2, WorkerStays
    <3> QED
      BY <3>1 DEF OnlyMine, SameWrite, Appended, IsFor
  <2> QED
    BY <2>1, <2>2
<1>5. (\E s \in Threads : Appended(s)' /\ IsFor(s, o, d, k)')
        <=> \E s \in Threads : Appended(s) /\ IsFor(s, o, d, k)
  BY <1>2, <1>3, <1>4 DEF Appended, IsFor
<1> QED
  BY <1>1, <1>5 DEF ToldAnswer

\* What its own deal shows, before and after the step.
LEMMA MineRecord ==
  ASSUME DealsApart, TypeInv, NEW t \in Threads, Work(t), NEW d \in Deals, call[t].deal = d
  PROVE  /\ CurrentRecord(d) =
              IF store[d] = None THEN Seed
              ELSE IF pc[t] \in MidWrite THEN Settled(record[d][store[d]], pc[t], call[t])
              ELSE record[d][store[d]]
         /\ CurrentRecord(d)' =
              IF store'[d] = None THEN Seed
              ELSE IF pc'[t] \in MidWrite THEN Settled(record'[d][store'[d]], pc'[t], call'[t])
              ELSE record'[d][store'[d]]
<1>1. /\ Writers(d) = IF pc[t] \in MidWrite THEN {t} ELSE {}
      /\ Writers(d)' = IF pc'[t] \in MidWrite THEN {t} ELSE {}
  BY WorkerStays, WritersStep
<1>2. Only({t}) = t /\ {t} # {}
  BY OnlyOne
<1>3. CurrentRecord(d) =
        IF store[d] = None THEN Seed
        ELSE IF pc[t] \in MidWrite THEN Settled(record[d][store[d]], pc[t], call[t])
        ELSE record[d][store[d]]
  BY <1>1, <1>2 DEF CurrentRecord
<1>4. CurrentRecord(d)' =
        IF store'[d] = None THEN Seed
        ELSE IF pc'[t] \in MidWrite THEN Settled(record'[d][store'[d]], pc'[t], call'[t])
        ELSE record'[d][store'[d]]
  BY <1>1, <1>2 DEF CurrentRecord
<1> QED
  BY <1>3, <1>4

\* And what its keys were told.
LEMMA MineTold ==
  ASSUME DealsApart, TypeInv, NEW t \in Threads, Work(t), NEW d \in Deals, call[t].deal = d,
         NEW o \in Writes, NEW k \in Keys
  PROVE  /\ ToldAnswer(o, d, k) =
              IF Appended(t) /\ IsFor(t, o, d, k) THEN "done" ELSE cache[o][d][k]
         /\ ToldAnswer(o, d, k)' =
              IF Appended(t)' /\ IsFor(t, o, d, k)' THEN "done" ELSE cache'[o][d][k]
<1>1. \A s \in Threads : s # t =>
        /\ pc'[s] = pc[s] /\ call'[s] = call[s]
        /\ pc[s] = "idle" \/ call[s].deal # d
  BY OtherThreads, WorkerStays DEF DealsApart
<1>2. \A s \in Threads : s # t =>
        ~(Appended(s) /\ IsFor(s, o, d, k)) /\ ~(Appended(s)' /\ IsFor(s, o, d, k)')
  BY <1>1 DEF Appended, IsFor
<1>3. ToldAnswer(o, d, k) = IF Appended(t) /\ IsFor(t, o, d, k) THEN "done" ELSE cache[o][d][k]
  BY <1>2 DEF ToldAnswer
<1>4. ToldAnswer(o, d, k)' =
        IF Appended(t)' /\ IsFor(t, o, d, k)' THEN "done" ELSE cache'[o][d][k]
  BY <1>2 DEF ToldAnswer
<1> QED
  BY <1>3, <1>4

\* Only the append shows in a record.
LEMMA RecordStays ==
  ASSUME DealsApart, RecordInv, NEW t \in Threads, Work(t), ~AppendActivity(t),
         NEW d \in Deals, call[t].deal = d
  PROVE  CurrentRecord(d)' = CurrentRecord(d)
<1>1. /\ VersionInv /\ TypeInv /\ Consistent(t) /\ TypeInv'
      /\ pc[t] # "idle" /\ (pc'[t] # "idle" => SameWrite(t))
  BY WorkerStays DEF RecordInv, StageInv, VersionInv
<1>2. CASE Lookup(t) \/ GetRecord(t) \/ Refuse(t) \/ Answer(t)
  <2>1. UNCHANGED <<store, record>> /\ pc[t] \notin MidWrite /\ pc'[t] \notin MidWrite
    BY <1>1, <1>2 DEF Lookup, GetRecord, Refuse, Answer, Return, Goto, MidWrite, TypeInv,
       CallsOK
  <2> QED
    BY <1>1, <2>1, MineRecord
<1>3. CASE CheckVersion(t)
  <2>1. /\ UNCHANGED <<store, record, call>> /\ pc[t] \notin MidWrite
        /\ pc'[t] \in MidWrite => pc'[t] = "append" /\ call[t].op # "stage"
    BY <1>1, <1>3 DEF CheckVersion, Goto, MidWrite, TypeInv, CallsOK
  <2> QED
    BY <1>1, <2>1, MineRecord DEF Settled
<1>4. CASE SeedRecord(t)
  <2>1. /\ store[d] = None /\ store'[d] = t /\ record'[d][t] = Seed
        /\ pc'[t] \notin MidWrite
    BY <1>1, <1>4 DEF SeedRecord, Consistent, OnStored, Return, Goto, MidWrite, TypeInv,
       TablesOK, CallsOK
  <2> QED
    BY <1>1, <2>1, MineRecord
<1>5. CASE WriteStage(t) \/ ReadVersion(t) \/ WriteVersion(t)
  <2> DEFINE r == call[t].rec
  <2>1. /\ UNCHANGED store /\ store[d] = r /\ r \in Threads /\ store[d] # None
        /\ record[d][r] \in Records /\ call[t] \in CallRecords /\ MidVersion(t)
        /\ Mine(t) = record[d][r]
    BY <1>1, <1>5, WriteFacts, CrmAssumption DEF TypeInv, TablesOK, CallsOK, Consistent, Mine
  <2>2. CASE WriteStage(t)
    <3>1. /\ pc[t] = "write_stage" /\ pc'[t] = "read_version" /\ call[t].op = "stage"
          /\ call'[t].op = call[t].op /\ call'[t].from = record[d][r].stage
          /\ record'[d][r].version = record[d][r].version
      <4>1. /\ pc \in [Threads -> PcValues] /\ call \in [Threads -> CallRecords]
            /\ record \in [Deals -> [Threads -> Records]]
            /\ WellFormed(pc[t], call[t])
        BY <1>1 DEF TypeInv, TablesOK, CallsOK
      <4>2. /\ pc[t] = "write_stage" /\ pc'[t] = "read_version"
            /\ call' = [call EXCEPT ![t].from = record[d][r].stage]
            /\ record' = [record EXCEPT ![d][r].stage = call[t].to]
        BY <2>2, <4>1 DEF WriteStage, Goto
      <4>3. call[t].op = "stage"
        BY <4>1, <4>2 DEF WellFormed
      <4>4. call'[t].op = call[t].op /\ call'[t].from = record[d][r].stage
        BY <4>1, <4>2 DEF CallRecords
      <4>5. record'[d][r].version = record[d][r].version
        BY <2>1, <4>1, <4>2 DEF Records
      <4> QED
        BY <4>2, <4>3, <4>4, <4>5
    <3>2. record[d][r] = [stage |-> record[d][r].stage, version |-> record[d][r].version]
      BY <2>1 DEF Records
    <3> QED
      BY <1>1, <2>1, <3>1, <3>2, MineRecord DEF Settled, MidWrite
  <2>3. CASE ReadVersion(t)
    <3>1. /\ pc[t] = "read_version" /\ pc'[t] = "write_version" /\ UNCHANGED record
          /\ call'[t].op = call[t].op /\ call'[t].from = call[t].from
      BY <1>1, <2>1, <2>3 DEF ReadVersion, Goto, TypeInv, CallsOK, CallRecords
    <3> QED
      BY <1>1, <2>1, <3>1, MineRecord DEF Settled, MidWrite
  <2>4. CASE WriteVersion(t)
    <3>1. /\ pc[t] = "write_version" /\ UNCHANGED call
          /\ pc'[t] = IF call[t].op = "stage" THEN "append" ELSE "answer"
          /\ record'[d][r] = [record[d][r] EXCEPT !.version = call[t].version + 1]
          /\ call[t].version = record[d][r].version
      BY <1>1, <2>1, <2>4 DEF WriteVersion, Goto, TypeInv, TablesOK, CallsOK, MidVersion
    <3>2. CASE call[t].op = "stage"
      <4>1. record'[d][r].version = record[d][r].version + 1 /\ record[d][r].version \in Nat
        BY <2>1, <3>1 DEF Records
      <4>2. CurrentRecord(d) = Settled(record[d][r], pc[t], call[t])
        BY <1>1, <2>1, <3>1, MineRecord DEF MidWrite
      <4>3. CurrentRecord(d)' = Settled(record'[d][r], "append", call[t])
        BY <1>1, <2>1, <3>1, <3>2, MineRecord DEF MidWrite
      <4>4. /\ Settled(record[d][r], pc[t], call[t]) =
                 [stage |-> call[t].from, version |-> record[d][r].version]
            /\ Settled(record'[d][r], "append", call[t]) =
                 [stage |-> call[t].from, version |-> record'[d][r].version - 1]
        BY <3>1, <3>2 DEF Settled
      <4> QED
        BY <4>1, <4>2, <4>3, <4>4
    <3>3. CASE call[t].op # "stage"
      <4>1. CurrentRecord(d) = [record[d][r] EXCEPT !.version = @ + 1]
        <5>1. CurrentRecord(d) = Settled(record[d][r], pc[t], call[t])
          BY <1>1, <2>1, <3>1, MineRecord DEF MidWrite
        <5>2. pc[t] # "append"
          BY <3>1
        <5> QED
          BY <3>3, <5>1, <5>2 DEF Settled
      <4>2. CurrentRecord(d)' = record'[d][r]
        BY <1>1, <2>1, <3>1, <3>3, MineRecord DEF MidWrite
      <4> QED
        BY <3>1, <4>1, <4>2
    <3> QED
      BY <3>2, <3>3
  <2> QED
    BY <1>5, <2>2, <2>3, <2>4
<1> QED
  BY <1>2, <1>3, <1>4, <1>5 DEF Work

\* Only the append and the refusal tell a key something new.
LEMMA ToldStays ==
  ASSUME DealsApart, RecordInv, NEW t \in Threads, Work(t), ~AppendActivity(t), ~Refuse(t),
         NEW d \in Deals, call[t].deal = d, NEW o \in Writes, NEW k \in Keys
  PROVE  ToldAnswer(o, d, k)' = ToldAnswer(o, d, k)
<1>1. /\ TypeInv /\ pc[t] # "idle" /\ (pc'[t] # "idle" => SameWrite(t))
  BY WorkerStays DEF RecordInv, StageInv, VersionInv
<1>2. CASE Answer(t)
  <2>1. pc[t] = "answer" /\ pc'[t] = "idle"
    BY <1>1, <1>2 DEF Answer, Return, Goto, TypeInv, CallsOK
  <2>2. cache'[o][d][k] = IF IsFor(t, o, d, k) THEN "done" ELSE cache[o][d][k]
    BY <1>1, <1>2, Remembered DEF Answer, IsFor
  <2> QED
    BY <1>1, <2>1, <2>2, MineTold DEF Appended
<1>3. CASE ~Answer(t)
  <2>1. UNCHANGED cache
    BY <1>3 DEF Work, Lookup, GetRecord, SeedRecord, CheckVersion, WriteStage, ReadVersion,
       WriteVersion
  <2>2. Appended(t)' <=> Appended(t)
    <3>1. CASE Lookup(t) \/ GetRecord(t) \/ SeedRecord(t) \/ CheckVersion(t)
      BY <1>1, <3>1 DEF Lookup, GetRecord, SeedRecord, CheckVersion, Return, Goto, Appended,
         TypeInv, CallsOK
    <3>2. CASE WriteStage(t)
      BY <1>1, <3>2 DEF WriteStage, Goto, Appended, SameWrite, TypeInv, CallsOK, WellFormed
    <3>3. CASE ReadVersion(t) \/ WriteVersion(t)
      BY <1>1, <3>3 DEF ReadVersion, WriteVersion, Goto, Appended, SameWrite, TypeInv,
         CallsOK, WellFormed, Writes
    <3> QED
      BY <1>3, <3>1, <3>2, <3>3 DEF Work
  <2>3. Appended(t)' => (IsFor(t, o, d, k)' <=> IsFor(t, o, d, k))
    BY <1>1 DEF Appended, IsFor, SameWrite
  <2> QED
    BY <1>1, <2>1, <2>2, <2>3, MineTold
<1> QED
  BY <1>2, <1>3

\* The steps that the record does not show.
LEMMA RecordStutters ==
  ASSUME DealsApart, RecordInv, NEW t \in Threads, Call(t) \/ Work(t), ~AppendActivity(t),
         ~Refuse(t)
  PROVE  UNCHANGED Atomic!vars
<1>0. TypeInv
  BY DEF RecordInv, StageInv, VersionInv
<1>1. \A d \in Deals : CurrentRecord(d)' = CurrentRecord(d)
  BY <1>0, OthersRecord, RecordStays, CallTypeInv
<1>2. \A o \in Writes, d \in Deals, k \in Keys : ToldAnswer(o, d, k)' = ToldAnswer(o, d, k)
  BY <1>0, OthersTold, ToldStays, CallTypeInv
<1>3. UNCHANGED timeline
  <2>1. CASE Call(t)
    <3>1. ASSUME NEW d \in Deals, Fetch(t, d) PROVE UNCHANGED timeline
      BY <3>1 DEF Fetch
    <3>2. ASSUME NEW d \in Deals, NEW k \in Keys, NEW v \in Expected,
                 AppendActivityLog(t, d, k, v)
          PROVE  UNCHANGED timeline
      BY <3>2 DEF AppendActivityLog
    <3>3. ASSUME NEW d \in Deals, NEW k \in Keys, NEW v \in Expected, NEW s \in Stages,
                 UpdateDealStage(t, d, k, s, v)
          PROVE  UNCHANGED timeline
      BY <3>3 DEF UpdateDealStage
    <3> QED
      BY <2>1, <3>1, <3>2, <3>3 DEF Call
  <2>2. CASE Work(t)
    BY <2>2 DEF Work, Lookup, GetRecord, SeedRecord, CheckVersion, WriteStage, ReadVersion,
       WriteVersion, Answer
  <2> QED
    BY <2>1, <2>2
<1>4. UNCHANGED Current
  BY <1>1 DEF Current
<1>5. UNCHANGED Told
  BY <1>2 DEF Told
<1> QED
  BY <1>3, <1>4, <1>5 DEF Atomic!vars

\* A call that tells its key something new tells a key that was told nothing.
LEMMA TellsOnce ==
  ASSUME DealsApart, RecordInv, NEW t \in Threads, AppendActivity(t) \/ Refuse(t),
         NEW op \in Writes, NEW d \in Deals, NEW key \in Keys, IsFor(t, op, d, key),
         NEW told,
         \A o \in Writes, k \in Keys :
           ToldAnswer(o, d, k)' = IF o = op /\ k = key THEN told ELSE ToldAnswer(o, d, k)
  PROVE  Atomic!Tell(op, d, key, told)
<1>1. /\ TypeInv /\ Work(t) /\ pc[t] \in {"append", "refused"}
      /\ call[t].op = op /\ call[t].deal = d /\ call[t].key = key
  BY DEF RecordInv, StageInv, VersionInv, Work, AppendActivity, Refuse, IsFor
<1>2. Told[op][d][key] = "new"
  <2>1. ToldAnswer(op, d, key) = cache[op][d][key]
    BY <1>1, MineTold DEF Appended
  <2>2. cache[op][d][key] = "new"
    BY <1>1 DEF RecordInv, KeyInv, KeyIsFresh, Answered
  <2> QED
    BY <2>1, <2>2 DEF Told
<1>3. \A o \in Writes, e \in Deals, k \in Keys :
        ToldAnswer(o, e, k)' = IF o = op /\ e = d /\ k = key THEN told ELSE ToldAnswer(o, e, k)
  <2>1. ASSUME NEW o \in Writes, NEW e \in Deals, NEW k \in Keys, e # d
        PROVE  ToldAnswer(o, e, k)' = ToldAnswer(o, e, k)
    BY <1>1, <2>1, OthersTold
  <2> QED
    BY <2>1
<1>4. Told' = [Told EXCEPT ![op][d][key] = told]
  <2>1. Told'[op][d] = [Told[op][d] EXCEPT ![key] = told]
    BY <1>3 DEF Told
  <2>2. Told'[op] = [Told[op] EXCEPT ![d] = Told'[op][d]]
    BY <1>3 DEF Told
  <2>3. Told' = [Told EXCEPT ![op] = Told'[op]]
    BY <1>3 DEF Told
  <2> QED
    BY <2>1, <2>2, <2>3
<1> QED
  BY <1>2, <1>4 DEF Atomic!Tell

\* A refusal tells its key a conflict, for a version that the record does not have.
LEMMA RefusalIsOne ==
  ASSUME DealsApart, RecordInv, NEW t \in Threads, Refuse(t)
  PROVE  Atomic!Next
<1>1. /\ VersionInv /\ TypeInv /\ Work(t) /\ AsksWell(t) /\ pc[t] = "refused"
      /\ pc'[t] = "idle" /\ UNCHANGED <<store, record, timeline>>
  BY DEF RecordInv, StageInv, VersionInv, Work, Refuse, Return, Goto, TypeInv, CallsOK
<1> SUFFICES ASSUME NEW op \in Writes, NEW d \in Deals, NEW key \in Keys,
                    NEW expected \in Expected, IsFor(t, op, d, key),
                    expected = call[t].expected
             PROVE  Atomic!Refuse(op, d, key, expected)
  BY <1>1 DEF TypeInv, CallsOK, WellFormed, AsksWell, IsFor, Atomic!Next, Writes
<1>2. call[t].op = op /\ call[t].deal = d /\ call[t].key = key
  BY DEF IsFor
<1>3. \A e \in Deals : CurrentRecord(e)' = CurrentRecord(e)
  BY <1>1, OthersRecord, RecordStays DEF Refuse, AppendActivity
<1>4. \A o \in Writes, k \in Keys :
        ToldAnswer(o, d, k)' = IF o = op /\ k = key THEN "conflict" ELSE ToldAnswer(o, d, k)
  <2> SUFFICES ASSUME NEW o \in Writes, NEW k \in Keys
               PROVE  ToldAnswer(o, d, k)' =
                        IF o = op /\ k = key THEN "conflict" ELSE ToldAnswer(o, d, k)
    OBVIOUS
  <2>1. ToldAnswer(o, d, k) = cache[o][d][k] /\ ToldAnswer(o, d, k)' = cache'[o][d][k]
    BY <1>1, <1>2, MineTold DEF Appended
  <2>2. cache'[o][d][k] = IF o = op /\ k = key THEN "conflict" ELSE cache[o][d][k]
    BY <1>1, <1>2, Remembered DEF Refuse
  <2> QED
    BY <2>1, <2>2
<1>5. CurrentRecord(d) = record[d][call[t].rec] /\ Mine(t) = record[d][call[t].rec]
  BY <1>1, <1>2, MineRecord, CrmAssumption
  DEF VersionInv, Consistent, OnStored, MidWrite, Mine, TypeInv, CallsOK, WellFormed
<1>6. expected \notin {None, CurrentRecord(d).version}
  BY <1>1, <1>5 DEF AsksWell, Conflict
<1>7. UNCHANGED Current /\ Current[d] = CurrentRecord(d)
  BY <1>3 DEF Current
<1> QED
  BY <1>1, <1>4, <1>6, <1>7, TellsOnce DEF Atomic!Refuse, Atomic!Seen

\* An append is a stage update or a note that takes effect.
LEMMA AppendIsWrite ==
  ASSUME DealsApart, RecordInv, NEW t \in Threads, AppendActivity(t)
  PROVE  Atomic!Next
<1>1. /\ StageInv /\ VersionInv /\ TypeInv /\ Work(t) /\ AsksWell(t) /\ Consistent(t)
      /\ MidStage(t) /\ pc[t] = "append" /\ UNCHANGED <<store, record, cache, call>>
      /\ pc'[t] = IF call[t].op = "stage" THEN "answer" ELSE "read_version"
  BY DEF RecordInv, StageInv, VersionInv, Work, AppendActivity, Goto, TypeInv, CallsOK
<1> SUFFICES ASSUME NEW op \in Writes, NEW d \in Deals, NEW key \in Keys,
                    NEW expected \in Expected, IsFor(t, op, d, key),
                    expected = call[t].expected
             PROVE  \/ \E to \in Stages : Atomic!MoveDeal(d, key, to, expected)
                    \/ Atomic!LogNote(d, key, expected)
  BY <1>1 DEF TypeInv, CallsOK, WellFormed, AsksWell, IsFor, Atomic!Next, Writes
<1>2. call[t].op = op /\ call[t].deal = d /\ call[t].key = key
  BY DEF IsFor
<1> DEFINE r == record[d][call[t].rec]
<1>3. /\ store[d] = call[t].rec /\ store[d] # None /\ Mine(t) = r /\ r \in Records
      /\ Size(d) \in Nat /\ (op = "stage" => call[t].to \in Stages)
  <2>1. store[d] = call[t].rec /\ call[t].rec \in Threads
    BY <1>1, <1>2 DEF Consistent, OnStored, TypeInv, CallsOK, WellFormed
  <2>2. r \in Records /\ Size(d) \in Nat
    BY <1>1, <2>1 DEF TypeInv, TablesOK, Size
  <2>3. op = "stage" => call[t].to \in Stages
    BY <1>1, <1>2 DEF TypeInv, CallsOK, WellFormed
  <2> QED
    BY <1>2, <2>1, <2>2, <2>3, CrmAssumption DEF Mine
<1>4. timeline' = [timeline EXCEPT ![d] = Append(@, Activity(t))]
  BY <1>2 DEF AppendActivity
<1>5. \A o \in Writes, k \in Keys :
        ToldAnswer(o, d, k)' = IF o = op /\ k = key THEN "done" ELSE ToldAnswer(o, d, k)
  <2>1. ~Appended(t) /\ Appended(t)'
    BY <1>1, <1>2 DEF Appended, Writes
  <2>2. \A o \in Writes, k \in Keys : IsFor(t, o, d, k)' <=> o = op /\ k = key
    BY <1>1, <1>2 DEF IsFor
  <2> QED
    BY <1>1, <1>2, <2>1, <2>2, MineTold
<1>6. Atomic!Tell(op, d, key, "done")
  BY <1>5, TellsOnce
<1>7. /\ CurrentRecord(d) = Settled(r, "append", call[t])
      /\ CurrentRecord(d)' =
           IF op = "stage" THEN r ELSE Settled(r, "read_version", call[t])
      /\ \A e \in Deals : e # d => CurrentRecord(e)' = CurrentRecord(e)
  BY <1>1, <1>2, <1>3, MineRecord, OthersRecord DEF MidWrite
<1>8. expected \in {None, Size(d) + 1}
  BY <1>1, <1>2 DEF Consistent, ExpectedSoFar, MidWrite
<1>9. CASE op = "stage"
  <2> DEFINE to == call[t].to
  <2>1. r.version = Size(d) + 2 /\ r.stage = to
    BY <1>1, <1>2, <1>3, <1>9 DEF Consistent, MidVersion, MidStage, MidWrite
  <2>2. CurrentRecord(d) = [stage |-> call[t].from, version |-> Size(d) + 1]
    BY <1>2, <1>3, <1>7, <1>9, <2>1 DEF Settled
  <2>3. CurrentRecord(d)' = [stage |-> to, version |-> CurrentRecord(d).version + 1]
    <3>1. r = [stage |-> to, version |-> Size(d) + 2]
      BY <1>3, <2>1 DEF Records
    <3> QED
      BY <1>3, <1>7, <1>9, <2>2, <3>1
  <2> HIDE DEF to
  <2>4. /\ Current[d] = CurrentRecord(d)
        /\ Current' = [Current EXCEPT ![d] = [stage |-> to, version |-> @.version + 1]]
    BY <1>7, <2>3 DEF Current
  <2>5. Activity(t) = [kind |-> "stage", key |-> key, from |-> Current[d].stage, to |-> to]
    BY <1>2, <1>9, <2>2, <2>4 DEF Activity, to
  <2>6. expected \in {None, Current[d].version}
    BY <1>8, <2>2, <2>4
  <2>7. to \in Stages
    BY <1>3, <1>9 DEF to
  <2> QED
    BY <1>4, <1>6, <1>9, <2>4, <2>5, <2>6, <2>7 DEF Atomic!MoveDeal, Atomic!Seen
<1>10. CASE op = "note"
  <2>1. r.version = Size(d) + 1
    BY <1>1, <1>2, <1>3, <1>10 DEF Consistent, MidVersion
  <2>2. CurrentRecord(d) = r /\ CurrentRecord(d)' = [r EXCEPT !.version = @ + 1]
    BY <1>2, <1>7, <1>10 DEF Settled
  <2>3. /\ Current[d] = CurrentRecord(d)
        /\ Current' = [Current EXCEPT ![d].version = @ + 1]
    BY <1>7, <2>2 DEF Current
  <2>4. Activity(t) = [kind |-> "note", key |-> key, from |-> None, to |-> None]
    BY <1>1, <1>2, <1>10 DEF Activity, AsksWell
  <2>5. expected \in {None, Current[d].version}
    BY <1>8, <2>1, <2>2, <2>3
  <2> QED
    BY <1>4, <1>6, <1>10, <2>3, <2>4, <2>5 DEF Atomic!LogNote, Atomic!Seen
<1> QED
  BY <1>9, <1>10 DEF Writes

\* Every step is one of the record's, or none.
LEMMA StepsOfRecord == DealsApart /\ RecordInv /\ [Next]_vars => [Atomic!Next]_Atomic!vars
<1>1. ASSUME RecordInv, UNCHANGED vars PROVE UNCHANGED Atomic!vars
  <2>1. \A d \in Deals : CurrentRecord(d)' = CurrentRecord(d)
    BY <1>1 DEF vars, CurrentRecord, Writers, Settled
  <2>2. \A o \in Writes, d \in Deals, k \in Keys : ToldAnswer(o, d, k)' = ToldAnswer(o, d, k)
    BY <1>1 DEF vars, ToldAnswer, Appended, IsFor
  <2> QED
    BY <1>1, <2>1, <2>2 DEF vars, Current, Told, Atomic!vars
<1>2. ASSUME DealsApart, RecordInv, NEW t \in Threads, Call(t) \/ Work(t)
      PROVE  [Atomic!Next]_Atomic!vars
  BY <1>2, AppendIsWrite, RefusalIsOne, RecordStutters
<1> QED
  BY <1>1, <1>2 DEF Next

\* As long as no two calls on one deal overlap, the tool is a record that changes at once:
\* every call takes effect in one step, on the version it expects and for a key that was
\* told nothing, or is refused, or does nothing, whatever its threads do in between.
THEOREM RecordKept ==
  Spec /\ []DealsApart => ImplementsRecord
<1>1. Init => RecordInv
  <2>1. Init => StageInv
    BY InitStageInv
  <2>2. Init => KeyInv
    BY InitKeyInv
  <2>3. Init => \A t \in Threads : AsksWell(t)
    BY DEF Init, AsksWell, NoCall
  <2> QED
    BY <2>1, <2>2, <2>3 DEF RecordInv
<1>2. Init => Atomic!Init
  <2> SUFFICES ASSUME Init PROVE Atomic!Init
    OBVIOUS
  <2>1. \A d \in Deals : CurrentRecord(d) = [stage |-> "proposal", version |-> 1]
    <3>1. \A d \in Deals : store[d] = None
      BY DEF Init
    <3> QED
      BY <3>1 DEF CurrentRecord, Seed
  <2>2. \A o \in Writes, d \in Deals, k \in Keys : ToldAnswer(o, d, k) = "new"
    BY DEF Init, ToldAnswer, Appended
  <2> QED
    BY <2>1, <2>2 DEF Init, Atomic!Init, Current, Told, Writes
<1> QED
  BY <1>1, <1>2, RecordStep, StepsOfRecord, PTL DEF Spec, ImplementsRecord, Atomic!Spec

-----------------------------------------------------------------------------
(* One thread: the calls of a server that answers one request at a time. *)

\* A single thread's calls never overlap, so all of it holds of every behaviour.
THEOREM OneByOne ==
  ASSUME \A s, t \in Threads : s = t
  PROVE  /\ Spec => [](/\ EffectOncePerKey /\ RefusedIsNotWritten
                       /\ VersionCountsWrites /\ StagesFollowTimeline)
         /\ Spec => ImplementsRecord
<1>1. DealsApart /\ KeysApart
  BY DEF DealsApart, KeysApart
<1>2. [](DealsApart /\ KeysApart)
  BY <1>1, PTL
<1>3. Spec => [](/\ EffectOncePerKey /\ RefusedIsNotWritten
                 /\ VersionCountsWrites /\ StagesFollowTimeline)
  BY <1>2, OnceCorrect, VersionCorrect, StageCorrect, PTL
<1>4. Spec => ImplementsRecord
  BY <1>2, RecordKept, PTL
<1> QED
  BY <1>3, <1>4

=============================================================================
