------------------------------ MODULE CrmTool ------------------------------
(***************************************************************************)
(* The simulated CRM (tools/crm_tool.py): records with a version, a        *)
(* timeline of activities and a cache of answers by idempotency key, all   *)
(* of them dictionaries of the process.                                    *)
(*                                                                         *)
(* The execution agent calls update_crm from the threads that serve        *)
(* approvals and the tool takes no lock, so a call is cut at each access   *)
(* to a dictionary that another thread may reach.  Record objects are      *)
(* named by the thread that seeds them: two threads may each find a deal   *)
(* without a record, and the first then holds one that is not stored.      *)
(* A restart empties all of it, which is the initial state again.          *)
(***************************************************************************)
EXTENDS Naturals, Sequences

CONSTANTS
  Deals, Threads, Keys, Stages,
  Operations,   \* what is called: "fetch", "stage", "note"
  Expected,     \* the expected_version of a call, None for no check
  None

ASSUME CrmAssumption ==
  /\ "proposal" \in Stages
  /\ Operations \subseteq {"fetch", "stage", "note"}
  /\ Expected \subseteq Nat \cup {None}
  /\ None \notin Threads /\ None \notin Nat /\ None \notin Keys
  /\ None \notin Deals /\ None \notin Stages

VARIABLES
  store,      \* _DEAL_STORE: the record object of a deal
  record,     \* the record objects, one for each thread that may seed one
  timeline,   \* _ACTIVITY_STORE, oldest first
  cache,      \* _IDEMPOTENCY_CACHE: "new", or the answer that was given
  pc, call    \* what each thread does next, its arguments and locals

vars == <<store, record, timeline, cache, pc, call>>

-----------------------------------------------------------------------------
Writes == {"stage", "note"}
Records == [stage : Stages, version : Nat]
Seed == [stage |-> "proposal", version |-> 1]

\* An activity; from and to are the stages of a stage update.
Entries == [kind : Writes, key : Keys, from : Stages \cup {None},
            to : Stages \cup {None}]

Answers == {"new", "conflict", "done"}

PcValues == {"idle", "lookup", "get_record", "seeding", "check", "write_stage",
             "read_version", "write_version", "append", "refused", "answer"}

NoCall == [op |-> "fetch", deal |-> None, key |-> None, to |-> None,
           expected |-> None, rec |-> None, from |-> None, version |-> 0]

CallRecords == [op : {"fetch", "stage", "note"}, deal : Deals \cup {None},
                key : Keys \cup {None}, to : Stages \cup {None},
                expected : Nat \cup {None}, rec : Threads \cup {None},
                from : Stages \cup {None}, version : Nat]

TypeOK ==
  /\ store \in [Deals -> Threads \cup {None}]
  /\ record \in [Deals -> [Threads -> Records]]
  /\ timeline \in [Deals -> Seq(Entries)]
  /\ cache \in [Writes -> [Deals -> [Keys -> Answers]]]
  /\ pc \in [Threads -> PcValues]
  /\ call \in [Threads -> CallRecords]

Init ==
  /\ store = [d \in Deals |-> None]
  /\ record = [d \in Deals |-> [t \in Threads |-> Seed]]
  /\ timeline = [d \in Deals |-> <<>>]
  /\ cache = [o \in Writes |-> [d \in Deals |-> [k \in Keys |-> "new"]]]
  /\ pc = [t \in Threads |-> "idle"]
  /\ call = [t \in Threads |-> NoCall]

-----------------------------------------------------------------------------
Goto(t, label) == pc' = [pc EXCEPT ![t] = label]

Return(t) == Goto(t, "idle") /\ call' = [call EXCEPT ![t] = NoCall]

Answered(t) == cache[call[t].op][call[t].deal][call[t].key]

\* Variant with a bug: the keys of the cache do not tell the operations apart.
Remember_AnyOperation(t, answer) ==
  cache' = [o \in Writes |-> [cache[o] EXCEPT ![call[t].deal][call[t].key] = answer]]

Remember(t, answer) ==
  cache' = [cache EXCEPT ![call[t].op][call[t].deal][call[t].key] = answer]

\* fetch_deal_record and fetch_activity_timeline: only their effect on the store.
Fetch(t, d) ==
  /\ pc[t] = "idle" /\ "fetch" \in Operations
  /\ call' = [call EXCEPT ![t] = [NoCall EXCEPT !.deal = d]]
  /\ Goto(t, "get_record")
  /\ UNCHANGED <<store, record, timeline, cache>>

UpdateDealStage(t, d, k, s, v) ==
  /\ pc[t] = "idle" /\ "stage" \in Operations
  /\ call' = [call EXCEPT ![t] = [NoCall EXCEPT !.op = "stage", !.deal = d,
                                  !.key = k, !.to = s, !.expected = v]]
  /\ Goto(t, "lookup")
  /\ UNCHANGED <<store, record, timeline, cache>>

\* append_activity_log; update_crm calls it with the id of a plan's step as the
\* key and without an expected version.
AppendActivityLog(t, d, k, v) ==
  /\ pc[t] = "idle" /\ "note" \in Operations
  /\ call' = [call EXCEPT ![t] = [NoCall EXCEPT !.op = "note", !.deal = d,
                                  !.key = k, !.expected = v]]
  /\ Goto(t, "lookup")
  /\ UNCHANGED <<store, record, timeline, cache>>

\* Variant with a bug: a conflict is not an answer.
Lookup_DoneOnly(t) ==
  /\ pc[t] = "lookup"
  /\ IF Answered(t) = "done" THEN Return(t)
     ELSE Goto(t, "get_record") /\ UNCHANGED call
  /\ UNCHANGED <<store, record, timeline, cache>>

\* A key that was answered is answered the same again, conflicts included.
Lookup(t) ==
  /\ pc[t] = "lookup"
  /\ IF Answered(t) # "new" THEN Return(t)
     ELSE Goto(t, "get_record") /\ UNCHANGED call
  /\ UNCHANGED <<store, record, timeline, cache>>

\* _get_or_create_record: the look, and the store of a new record after it.
GetRecord(t) ==
  /\ pc[t] = "get_record"
  /\ LET r == store[call[t].deal]
     IN IF r = None THEN Goto(t, "seeding") /\ UNCHANGED call
        ELSE IF call[t].op = "fetch" THEN Return(t)
        ELSE Goto(t, "check") /\ call' = [call EXCEPT ![t].rec = r]
  /\ UNCHANGED <<store, record, timeline, cache>>

SeedRecord(t) ==
  LET d == call[t].deal
  IN /\ pc[t] = "seeding"
     /\ store' = [store EXCEPT ![d] = t]
     /\ record' = [record EXCEPT ![d][t] = Seed]
     /\ IF call[t].op = "fetch" THEN Return(t)
        ELSE Goto(t, "check") /\ call' = [call EXCEPT ![t].rec = t]
     /\ UNCHANGED <<timeline, cache>>

\* The record object that t works on.
Mine(t) == record[call[t].deal][call[t].rec]

\* Variant with a bug: only an older version of the record is a conflict.
Conflict_Behind(t) == /\ call[t].expected # None
                      /\ Mine(t).version < call[t].expected

Conflict(t) == call[t].expected \notin {None, Mine(t).version}

CheckVersion(t) ==
  /\ pc[t] = "check"
  /\ Goto(t, IF Conflict(t) THEN "refused"
             ELSE IF call[t].op = "stage" THEN "write_stage" ELSE "append")
  /\ UNCHANGED <<store, record, timeline, cache, call>>

Refuse(t) ==
  /\ pc[t] = "refused"
  /\ Remember(t, "conflict")
  /\ Return(t)
  /\ UNCHANGED <<store, record, timeline>>

\* Variant with a bug: the stage is remembered after it was overwritten.
WriteStage_Late(t) ==
  LET d == call[t].deal
      r == call[t].rec
  IN /\ pc[t] = "write_stage"
     /\ record' = [record EXCEPT ![d][r].stage = call[t].to]
     /\ call' = [call EXCEPT ![t].from = call[t].to]
     /\ Goto(t, "read_version")
     /\ UNCHANGED <<store, timeline, cache>>

WriteStage(t) ==
  LET d == call[t].deal
      r == call[t].rec
  IN /\ pc[t] = "write_stage"
     /\ record' = [record EXCEPT ![d][r].stage = call[t].to]
     /\ call' = [call EXCEPT ![t].from = record[d][r].stage]
     /\ Goto(t, "read_version")
     /\ UNCHANGED <<store, timeline, cache>>

\* The version is read, converted and written back.
ReadVersion(t) ==
  /\ pc[t] = "read_version"
  /\ call' = [call EXCEPT ![t].version = Mine(t).version]
  /\ Goto(t, "write_version")
  /\ UNCHANGED <<store, record, timeline, cache>>

\* Variant with a bug: an activity leaves the version as it is.
WriteVersion_StageOnly(t) ==
  LET d == call[t].deal
      r == call[t].rec
  IN /\ pc[t] = "write_version"
     /\ record' = IF call[t].op = "note" THEN record
                  ELSE [record EXCEPT ![d][r].version = call[t].version + 1]
     /\ Goto(t, IF call[t].op = "stage" THEN "append" ELSE "answer")
     /\ UNCHANGED <<store, timeline, cache, call>>

WriteVersion(t) ==
  LET d == call[t].deal
      r == call[t].rec
  IN /\ pc[t] = "write_version"
     /\ record' = [record EXCEPT ![d][r].version = call[t].version + 1]
     /\ Goto(t, IF call[t].op = "stage" THEN "append" ELSE "answer")
     /\ UNCHANGED <<store, timeline, cache, call>>

\* Variant with a bug: key and stage are swapped.
Activity_Swapped(t) == [kind |-> call[t].op, key |-> call[t].to,
                        from |-> call[t].from, to |-> call[t].key]

Activity(t) == [kind |-> call[t].op, key |-> call[t].key,
                from |-> call[t].from, to |-> call[t].to]

\* Variant with a bug: the timeline keeps the newest activity only.
AppendActivity_Newest(t) ==
  /\ pc[t] = "append"
  /\ timeline' = [timeline EXCEPT ![call[t].deal] = <<Activity(t)>>]
  /\ Goto(t, IF call[t].op = "stage" THEN "answer" ELSE "read_version")
  /\ UNCHANGED <<store, record, cache, call>>

\* A stage update appends its activity last, an activity log first.
AppendActivity(t) ==
  /\ pc[t] = "append"
  /\ timeline' = [timeline EXCEPT ![call[t].deal] = Append(@, Activity(t))]
  /\ Goto(t, IF call[t].op = "stage" THEN "answer" ELSE "read_version")
  /\ UNCHANGED <<store, record, cache, call>>

\* Variant with a bug: an answer is not kept for the next call.
Answer_Forget(t) ==
  /\ pc[t] = "answer"
  /\ Return(t)
  /\ UNCHANGED <<store, record, timeline, cache>>

Answer(t) ==
  /\ pc[t] = "answer"
  /\ Remember(t, "done")
  /\ Return(t)
  /\ UNCHANGED <<store, record, timeline>>

-----------------------------------------------------------------------------
Work(t) ==
  \/ Lookup(t) \/ GetRecord(t) \/ SeedRecord(t) \/ CheckVersion(t) \/ Refuse(t)
  \/ WriteStage(t) \/ ReadVersion(t) \/ WriteVersion(t) \/ AppendActivity(t)
  \/ Answer(t)

Call(t) ==
  \E d \in Deals :
    \/ Fetch(t, d)
    \/ \E k \in Keys, v \in Expected : AppendActivityLog(t, d, k, v)
    \/ \E k \in Keys, s \in Stages, v \in Expected : UpdateDealStage(t, d, k, s, v)

Next == \E t \in Threads : Call(t) \/ Work(t)

Spec == Init /\ [][Next]_vars

-----------------------------------------------------------------------------
(***************************************************************************)
(* Properties.                                                             *)
(***************************************************************************)
Written(o, d, k) ==
  {i \in DOMAIN timeline[d] : timeline[d][i].kind = o /\ timeline[d][i].key = k}

\* A call that was answered with success is in the timeline, whatever other
\* threads do to the same deal (append before the answer, lines 157 and 220).
AnsweredIsWritten ==
  \A o \in Writes, d \in Deals, k \in Keys :
    cache[o][d][k] = "done" => Written(o, d, k) # {}

\* "Write back ... with idempotency": one key has at most one effect.  It needs
\* the calls for one key one at a time: the look into the cache and the answer kept in it
\* are apart.
EffectOncePerKey ==
  \A d \in Deals : \A i, j \in DOMAIN timeline[d] :
    timeline[d][i].kind = timeline[d][j].kind /\ timeline[d][i].key = timeline[d][j].key
      => i = j

\* A key that was told of a conflict never takes effect, so the caller who
\* resolves it with a fresh key does not write twice.
RefusedIsNotWritten ==
  \A o \in Writes, d \in Deals, k \in Keys :
    cache[o][d][k] = "conflict" => Written(o, d, k) = {}

\* No call is between the first and the last of its changes.
Quiet(d) ==
  \A t \in Threads :
    call[t].deal = d => pc[t] \notin {"read_version", "write_version", "append"}

\* The version hint counts the activities, whichever operation wrote them: a
\* client that compares versions sees every change.
VersionCountsWrites ==
  \A d \in Deals :
    Quiet(d) /\ store[d] # None
      => record[d][store[d]].version = 1 + Len(timeline[d])

\* The first n activities of a timeline leave the deal at a stage: the one that the
\* newest stage update among them set.
Tells(activities, n, stage) ==
  LET moves == {i \in 1 .. n : activities[i].kind = "stage"}
  IN \/ moves = {} /\ stage = "proposal"
     \/ \E m \in moves : activities[m].to = stage /\ \A i \in moves : i <= m

\* Each stage update starts where the one before it ended.
Chained(activities) ==
  \A i \in DOMAIN activities :
    activities[i].kind = "stage" => Tells(activities, i - 1, activities[i].from)

\* The timeline accounts for the stage: its updates follow one another, and the
\* last one ends at the record's stage.
StagesFollowTimeline ==
  \A d \in Deals :
    /\ Chained(timeline[d])
    /\ Quiet(d) /\ store[d] # None
         => Tells(timeline[d], Len(timeline[d]), record[d][store[d]].stage)

\* A call with an expected version changes only the state its caller has seen:
\* what it appends comes right after the activities of that version.
ExpectedVersionHolds ==
  [][\A t \in Threads :
       LET d == call[t].deal
       IN pc[t] = "append" /\ pc'[t] # "append" /\ call[t].expected # None
            => Len(timeline'[d]) = call[t].expected]_vars

-----------------------------------------------------------------------------
(* The tool as one record that changes at once. *)

\* The threads that are in the middle of changing a deal.
Writers(d) ==
  {t \in Threads : call[t].deal = d /\ pc[t] \in {"read_version", "write_version", "append"}}

\* A half changed record as a client should take it who reads the timeline: a stage
\* update that is not appended yet does not count, a note that is appended does.
Settled(stored, label, c) ==
  IF c.op = "stage"
  THEN [stage |-> c.from,
        version |-> IF label = "append" THEN stored.version - 1 ELSE stored.version]
  ELSE IF label = "append" THEN stored ELSE [stored EXCEPT !.version = @ + 1]

Only(set) == CHOOSE x \in set : TRUE

CurrentRecord(d) ==
  LET stored == record[d][store[d]]
      t == Only(Writers(d))
  IN IF store[d] = None THEN Seed
     ELSE IF Writers(d) = {} THEN stored
     ELSE Settled(stored, pc[t], call[t])

\* The call of t has written its activity and not yet kept its answer.
Appended(t) ==
  \/ pc[t] \in {"read_version", "write_version"} /\ call[t].op = "note"
  \/ pc[t] = "answer"

\* The call of t is the one for this key.
IsFor(t, o, d, k) == call[t].op = o /\ call[t].deal = d /\ call[t].key = k

\* What the key is told, by the cache or by the call that is about to end.
ToldAnswer(o, d, k) ==
  IF \E t \in Threads : Appended(t) /\ IsFor(t, o, d, k) THEN "done" ELSE cache[o][d][k]

Current == [d \in Deals |-> CurrentRecord(d)]

Told == [o \in Writes |-> [d \in Deals |-> [k \in Keys |-> ToldAnswer(o, d, k)]]]

Atomic == INSTANCE CrmRecord WITH current <- Current, history <- timeline, answer <- Told

\* Each call is one change of record, timeline and answer together, at the moment its
\* activity is appended or its refusal is kept, or it changes nothing (lines 110-238).
\* It needs calls on one deal one at a time, like EffectOncePerKey.
ImplementsRecord == Atomic!Spec

=============================================================================
