------------------------------ MODULE LlmClient ------------------------------
(***************************************************************************)
(* One call of the model provider: generate_json (agents/llm_client.py)    *)
(* with its retries, and resolve_model_output (agents/inference.py), which *)
(* takes the model's output or the agent's own.  A thread is inside one    *)
(* call at a time and shares nothing with the others here; AgentCall       *)
(* composes the call with the prompt tables, which threads do share.       *)
(*                                                                         *)
(* Abstracted: the text of prompts and replies (a reply is what the client *)
(* tells apart in it), redaction, latency and token counts.                *)
(***************************************************************************)
EXTENDS Integers

CONSTANTS
  Threads,
  Statuses,      \* the HTTP error statuses the provider may answer with
  MaxRequests,   \* the most requests a call may be set up to make
  None

ASSUME ClientAssumption ==
  /\ Statuses \subseteq 300 .. 599
  /\ MaxRequests \in Nat
  /\ None \notin STRING /\ None \notin Int

VARIABLES
  settings,   \* the environment of the process, which nothing in it changes
  client      \* the call each thread is inside, or made last

-----------------------------------------------------------------------------
\* What each call reads of the environment: is the model enabled, and how many
\* requests may it make; none with an unknown provider, no key or a negative
\* MAWI_LLM_MAX_RETRIES, and one more than the retries otherwise.
Settings == [enabled : BOOLEAN, requests : {0, MaxRequests}]

\* What a request comes back with: an HTTP error, no answer in time, no
\* connection, an answer that is not a completion, a completion that is no JSON
\* object, one without a required field, one whose confidence is no number of
\* [0, 1], one with a value of a wrong type elsewhere, and a good one.
Replies ==
  [kind : {"http"}, status : Statuses]
    \cup [kind : {"timed out", "refused", "garbled", "prose", "incomplete",
                  "unlikely", "mistyped", "good"}, status : {200}]

RetryableStatus(status) == status \in {408, 409, 429} \/ status >= 500

Retryable(r) ==
  \/ r.kind \in {"timed out", "refused", "prose"}
  \/ r.kind = "http" /\ RetryableStatus(r.status)

\* The error code of generate_json.
ErrorOf(r) ==
  CASE r.kind = "timed out"  -> "timeout"
    [] r.kind = "prose"      -> "invalid_json"
    [] r.kind = "incomplete" -> "missing_required_fields"
    [] r.kind \in {"http", "refused", "garbled"} -> "provider_error"
    [] OTHER                 -> None

\* validate_model_output_json: the required fields and a confidence in [0, 1].
Valid(r) == r.kind \in {"mistyped", "good"}

\* fallback_reason: None when the model's output is taken.
Reasons == {"llm_disabled", "llm_error", "llm_validation_failed"}

Phases == {"idle", "sending", "waiting", "answered"}
Calls == [phase : Phases, attempt : Nat, output : {None, "model", "rules"},
          payload : {None, "mistyped", "good"}, reason : Reasons \cup {None}]

NoCall == [phase |-> "idle", attempt |-> 0, output |-> None, payload |-> None,
           reason |-> None]

ClientInit ==
  /\ settings \in Settings
  /\ client = [t \in Threads |-> NoCall]

-----------------------------------------------------------------------------
\* The two ends of a call: the agent's own output, for a reason, or the model's.
Rules(reason) == [NoCall EXCEPT !.phase = "answered", !.output = "rules",
                                !.reason = reason]

Model(r) == [NoCall EXCEPT !.phase = "answered", !.output = "model", !.payload = r.kind]

\* The model is disabled: nothing is sent.
Skip(t) ==
  /\ ~settings.enabled
  /\ client' = [client EXCEPT ![t] = Rules("llm_disabled")]

NotSent(t) ==
  /\ settings.enabled /\ settings.requests = 0
  /\ client' = [client EXCEPT ![t] = Rules("llm_error")]

Send(t) ==
  /\ settings.enabled /\ settings.requests > 0
  /\ client' = [client EXCEPT ![t] = [NoCall EXCEPT !.phase = "sending",
                                                   !.attempt = 1]]

\* Variant with a bug: an output that failed the validation is taken.
Resolution_Unvalidated(r) ==
  IF ErrorOf(r) # None THEN Rules("llm_error") ELSE Model(r)

\* resolve_model_output, once generate_json has returned.
Resolution(r) ==
  IF ErrorOf(r) # None THEN Rules("llm_error")
  ELSE IF ~Valid(r) THEN Rules("llm_validation_failed")
  ELSE Model(r)

\* Variant with a bug: one retry too many.
MayRetry_OneMore(t, r) == Retryable(r) /\ client[t].attempt <= settings.requests

MayRetry(t, r) == Retryable(r) /\ client[t].attempt < settings.requests

\* A transient failure with retries left: the thread sleeps before the next request.
ReceiveFailure(t, r) ==
  /\ client[t].phase = "sending" /\ MayRetry(t, r)
  /\ client' = [client EXCEPT ![t].phase = "waiting"]

ReceiveLast(t, r) ==
  /\ client[t].phase = "sending" /\ ~MayRetry(t, r)
  /\ client' = [client EXCEPT ![t] = Resolution(r)]

SendAgain(t) ==
  /\ client[t].phase = "waiting"
  /\ client' = [client EXCEPT ![t] = [client[t] EXCEPT
                  !.phase = "sending", !.attempt = client[t].attempt + 1]]

=============================================================================
