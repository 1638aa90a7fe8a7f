---------------------------- MODULE ModelAnswer ----------------------------
(***************************************************************************)
(* What an agent may expect when it asks for its output, without providers,*)
(* replies or time: the question costs a bounded number of requests, each  *)
(* of which may settle it, by the model or by the agent's own rules, and   *)
(* the last one does.  A settled question stays settled until the agent    *)
(* asks again or gives up its work.                                        *)
(***************************************************************************)
EXTENDS Naturals

CONSTANTS Askers,       \* who asks
          MaxRequests   \* requests one question may cost

VARIABLES answer,       \* who settled the question of each asker
          left          \* the requests it may still cost

vars == <<answer, left>>

Answers == {"none", "pending", "model", "rules"}

TypeOK ==
  /\ answer \in [Askers -> Answers]
  /\ left \in [Askers -> 0 .. MaxRequests]

Init ==
  /\ answer = [a \in Askers |-> "none"]
  /\ left = [a \in Askers |-> 0]

\* The rules settle it at once when there is no model to ask.
Ask(a) ==
  /\ answer[a] # "pending"
  /\ \/ /\ answer' = [answer EXCEPT ![a] = "rules"]
        /\ left' = [left EXCEPT ![a] = 0]
     \/ \E n \in 1 .. MaxRequests :
          /\ answer' = [answer EXCEPT ![a] = "pending"]
          /\ left' = [left EXCEPT ![a] = n]

\* One request is spent: the model settles it, or the next request or the rules will.
Request(a) ==
  /\ answer[a] = "pending" /\ left[a] > 0
  /\ \/ /\ left' = [left EXCEPT ![a] = @ - 1]
        /\ answer' = answer
        /\ left'[a] > 0
     \/ /\ \E who \in {"model", "rules"} : answer' = [answer EXCEPT ![a] = who]
        /\ left' = [left EXCEPT ![a] = 0]

\* The asker gave up its work: the answer is forgotten.
Forget(a) ==
  /\ answer[a] # "pending"
  /\ answer' = [answer EXCEPT ![a] = "none"]
  /\ UNCHANGED left

Next == \E a \in Askers : Ask(a) \/ Request(a) \/ Forget(a)

Spec == Init /\ [][Next]_vars

=============================================================================
