----------------------------- MODULE CrmRecord -----------------------------
(***************************************************************************)
(* What a client of the CRM tool may believe, without threads, record      *)
(* objects or half-done writes: a deal has a record and a history, a write *)
(* changes both at once, on the state its caller has seen, and a key is    *)
(* answered once for all.                                                  *)
(***************************************************************************)
EXTENDS Naturals, Sequences

CONSTANTS Deals, Keys, Stages, Expected, None

VARIABLES current,   \* stage and version of each deal
          history,   \* the activities of each deal, oldest first
          answer     \* what each key was told: "new", "conflict" or "done"

vars == <<current, history, answer>>

Init ==
  /\ current = [d \in Deals |-> [stage |-> "proposal", version |-> 1]]
  /\ history = [d \in Deals |-> <<>>]
  /\ answer = [o \in {"stage", "note"} |-> [d \in Deals |-> [k \in Keys |-> "new"]]]

\* A new key is answered, for good.
Tell(o, d, k, told) ==
  /\ answer[o][d][k] = "new"
  /\ answer' = [answer EXCEPT ![o][d][k] = told]

\* What the caller has seen, None if it does not say.
Seen(d) == {None, current[d].version}

MoveDeal(d, k, to, expected) ==
  /\ history' = [history EXCEPT ![d] =
       Append(@, [kind |-> "stage", key |-> k, from |-> current[d].stage, to |-> to])]
  /\ current' = [current EXCEPT ![d] = [stage |-> to, version |-> @.version + 1]]
  /\ expected \in Seen(d)
  /\ Tell("stage", d, k, "done")

LogNote(d, k, expected) ==
  /\ history' = [history EXCEPT ![d] =
       Append(@, [kind |-> "note", key |-> k, from |-> None, to |-> None])]
  /\ current' = [current EXCEPT ![d].version = @ + 1]
  /\ expected \in Seen(d)
  /\ Tell("note", d, k, "done")

\* The caller has seen another version.
Refuse(o, d, k, expected) ==
  /\ UNCHANGED <<history, current>>
  /\ expected \notin Seen(d)
  /\ Tell(o, d, k, "conflict")

Next ==
  \E d \in Deals, k \in Keys, expected \in Expected :
    \/ \E to \in Stages : MoveDeal(d, k, to, expected)
    \/ LogNote(d, k, expected)
    \/ \E o \in {"stage", "note"} : Refuse(o, d, k, expected)

Spec == Init /\ [][Next]_vars

=============================================================================
