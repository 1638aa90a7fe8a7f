--------------------------- MODULE OutreachLedger ---------------------------
(***************************************************************************)
(* What the workflow engine promises the outside world about tool calls,   *)
(* without requests, envelopes or tables: a step's tool is called only on  *)
(* a deal where some action was let through, and never again once the      *)
(* execution log says the step was executed; and the log never claims a    *)
(* call that was not made.  Calls that were made but not logged yet may be *)
(* repeated: a crash or an exception between the call and the log leaves   *)
(* the engine no other choice.                                             *)
(***************************************************************************)
EXTENDS Naturals

CONSTANTS Runs, DealOf,  \* the runs that may be created, and their deals
          Steps,         \* steps of an action plan
          SendCap        \* the tool-call counter saturates here

VARIABLES sends,         \* tool calls that took effect
          stepLog,       \* the last result logged for each step
          granted        \* runs whose action was let through

vars == <<sends, stepLog, granted>>

Results == {"none", "executed", "failed"}

Init ==
  /\ sends = [r \in Runs |-> [i \in Steps |-> 0]]
  /\ stepLog = [r \in Runs |-> [i \in Steps |-> "none"]]
  /\ granted = {}

Grant(r) ==
  /\ granted' = granted \cup {r}
  /\ UNCHANGED <<sends, stepLog>>

Bump(n) == IF n < SendCap THEN n + 1 ELSE n

Send(r, i) ==
  /\ \E g \in granted : DealOf[g] = DealOf[r]
  /\ stepLog[r][i] # "executed"
  /\ sends' = [sends EXCEPT ![r][i] = Bump(@)]
  /\ UNCHANGED <<stepLog, granted>>

Record(r, results) ==
  /\ \A i \in Steps : results[i] = "executed" => sends[r][i] > 0
  /\ stepLog' = [stepLog EXCEPT ![r] =
                   [i \in Steps |-> IF results[i] = "none" THEN @[i]
                                    ELSE results[i]]]
  /\ UNCHANGED <<sends, granted>>

Next == \E r \in Runs :
  \/ Grant(r)
  \/ \E i \in Steps : Send(r, i)
  \/ \E results \in [Steps -> Results] : Record(r, results)

Spec == Init /\ [][Next]_vars

=============================================================================
