----------------------------- MODULE OtlpClient -----------------------------
(***************************************************************************)
(* ExportClient::export of src/src/otlp/mod.rs, called by the exporter's   *)
(* loop (record.rs, 1242-1264) for one payload after the other:            *)
(*                                                                         *)
(*   exporter --attempt--> endpoint --answer, or none--> retry or outcome  *)
(*                                                                         *)
(* The endpoint may accept a payload and its answer be lost, so that a     *)
(* payload may be accepted more than once.  The stopping flag is set when  *)
(* the recording is aborted (OtlpExporter::cancel), at any moment.  Time   *)
(* is counted in units of a delay; what a request carries is left out, and *)
(* so are the time limit of a request and the text of an error.            *)
(***************************************************************************)
EXTENDS Naturals

CONSTANTS
    Payloads,     \* how many payloads the exporter's queue hands out
    MaxAttempts,  \* MAX_ATTEMPTS
    MaxDelay,     \* MAX_RETRY_DELAY
    RetryAfters   \* the delays an endpoint may ask for, some beyond MaxDelay

ASSUME OtlpAssumption ==
    /\ Payloads \in Nat /\ MaxAttempts \in Nat \ {0} /\ MaxDelay \in Nat
    /\ RetryAfters \subseteq Nat

VARIABLES
    xpc,       \* the exporter: "recv", "prepare", "check", "send", "wait", "decide", "sleep" or "done"
    payload,   \* the payload it exports
    attempt,   \* attempts
    answer,    \* what send_once returned
    nap,       \* the delay that is left
    quitting,  \* stopping
    accepted,  \* endpoint: how often it accepted the payload
    outcome,   \* the last ExportOutcome
    afterStop, \* history: attempts that began after quitting
    slept,     \* history: how long the exporter slept for this payload
    repeated   \* history: a payload was sent again after a definite answer

clientVars == <<xpc, payload, attempt, answer, nap, outcome>>
otlpVars   == <<clientVars, quitting, accepted, afterStop, slept, repeated>>

(* What comes back, as send_once sees it: what the endpoint may have done, *)
(* whether an attempt counts as delivered, whether it may be repeated.     *)
Answer(name, delivered, retryable, takes) ==
    [name |-> name, delivered |-> delivered, retryable |-> retryable, takes |-> takes]
NoAnswer == Answer("none", FALSE, FALSE, {})
Answers == {
    Answer("accepted",   TRUE,  FALSE, {TRUE}),        \* 200, also with a partial success
    Answer("unreadable", FALSE, FALSE, {TRUE}),        \* 200 with a body that is too large or not protobuf
    Answer("refused",    FALSE, FALSE, {FALSE}),       \* another status: 400, 401, 413, 500
    Answer("busy",       FALSE, TRUE,  {FALSE}),       \* 429, 503
    Answer("gateway",    FALSE, TRUE,  {TRUE, FALSE}), \* 408, 502, 504
    Answer("lost",       FALSE, TRUE,  {TRUE, FALSE}), \* Io, Timeout, ConnectionFailed, ...
    Answer("invalid",    FALSE, FALSE, {FALSE})}       \* any other ureq::Error

NoOutcome == [delivered |-> FALSE, attempts |-> 0]

OtlpInit ==
    /\ xpc = "recv" /\ payload = 0 /\ attempt = 0 /\ answer = NoAnswer /\ nap = 0
    /\ quitting = FALSE /\ accepted = 0 /\ outcome = NoOutcome
    /\ afterStop = 0 /\ slept = 0 /\ repeated = FALSE

(* export_loop takes the next payload, also when the recording has been    *)
(* aborted: cancel closes the queue but leaves what is in it.  Then the    *)
(* payload is not exported.  (Mutant: it is.)                              *)
NotAsked == FALSE
Aborted  == quitting
Receive ==
    /\ xpc = "recv"
    /\ payload < Payloads
    /\ payload' = payload + 1
    /\ xpc' = (IF Aborted THEN "recv" ELSE "prepare")
    /\ outcome' = (IF Aborted THEN NoOutcome ELSE outcome)
    /\ attempt' = 0 /\ answer' = NoAnswer /\ accepted' = 0 /\ slept' = 0
    /\ UNCHANGED <<nap, quitting, afterStop, repeated>>

Drained ==
    /\ xpc = "recv" /\ payload = Payloads
    /\ xpc' = "done"
    /\ UNCHANGED <<payload, attempt, answer, nap, outcome, quitting, accepted, afterStop, slept, repeated>>

(* (Mutant: a failure leaves the outcome of the payload before.)           *)
ReturnStale(delivered) ==
    /\ outcome' = (IF delivered THEN [delivered |-> TRUE, attempts |-> attempt] ELSE outcome)
    /\ xpc' = "recv"
Return(delivered) ==
    /\ outcome' = [delivered |-> delivered, attempts |-> attempt]
    /\ xpc' = "recv"

(* prepare_body; gzip may fail, and no attempt is made.                    *)
PrepareBody ==
    /\ xpc = "prepare"
    /\ \/ xpc' = "check" /\ UNCHANGED outcome
       \/ Return(FALSE)
    /\ UNCHANGED <<payload, attempt, answer, nap, quitting, accepted, afterStop, slept, repeated>>

(* The head of the loop: the first attempt is made in any case.            *)
MayBegin == attempt = 0 \/ ~quitting
Check ==
    /\ xpc = "check"
    /\ IF MayBegin
       THEN xpc' = "send" /\ attempt' = attempt + 1 /\ UNCHANGED outcome
       ELSE Return(FALSE) /\ UNCHANGED attempt
    /\ UNCHANGED <<payload, answer, nap, quitting, accepted, afterStop, slept, repeated>>

(* send_once: the request leaves ...                                       *)
SendOnce ==
    /\ xpc = "send"
    /\ xpc' = "wait"
    /\ afterStop' = afterStop + (IF quitting THEN 1 ELSE 0)
    /\ repeated' = (repeated \/ (answer # NoAnswer /\ FALSE \notin answer.takes))
    /\ UNCHANGED <<payload, attempt, answer, nap, outcome, quitting, accepted, slept>>

(* ... and something comes back, at the latest when the timeout passes.    *)
Answered ==
    /\ xpc = "wait"
    /\ \E a \in Answers, taken \in BOOLEAN :
         /\ taken \in a.takes
         /\ answer' = a
         /\ accepted' = accepted + (IF taken THEN 1 ELSE 0)
    /\ xpc' = "decide"
    /\ UNCHANGED <<payload, attempt, nap, outcome, quitting, afterStop, slept, repeated>>

(* Whether the attempt may be repeated.  (Mutants: an answer that cannot   *)
(* be read is repeated, too; the attempts are not counted.)                *)
UnlessDelivered == ~answer.delivered /\ answer.name # "refused"
Retryable       == answer.retryable
LastAttempt     == attempt = MaxAttempts

(* retry_delay doubles from attempt to attempt, up to a shift of six.      *)
Doubled       == <<1, 2, 4, 8, 16, 32, 64>>
RetryDelay(n) == Doubled[IF n <= 7 THEN n ELSE 7]
Capped(d) == IF d <= MaxDelay THEN d ELSE MaxDelay

Decide ==
    /\ xpc = "decide"
    /\ IF answer.delivered \/ ~Retryable \/ LastAttempt \/ quitting
       THEN Return(answer.delivered) /\ UNCHANGED nap
       ELSE /\ xpc' = "sleep"
            /\ \E d \in RetryAfters \cup {RetryDelay(attempt)} : nap' = Capped(d)
            /\ UNCHANGED outcome
    /\ UNCHANGED <<payload, attempt, answer, quitting, accepted, afterStop, slept, repeated>>

(* sleep_interruptibly, an iteration of its loop                           *)
Sleep ==
    /\ xpc = "sleep"
    /\ IF nap = 0 \/ quitting
       THEN xpc' = "check" /\ UNCHANGED <<nap, slept>>
       ELSE nap' = nap - 1 /\ slept' = slept + 1 /\ UNCHANGED xpc
    /\ UNCHANGED <<payload, attempt, answer, outcome, quitting, accepted, afterStop, repeated>>

(* OtlpExporter::cancel, when the recording fails                          *)
Cancel ==
    /\ ~quitting /\ xpc # "done"
    /\ quitting' = TRUE
    /\ UNCHANGED <<clientVars, accepted, afterStop, slept, repeated>>

OtlpNext ==
    \/ Receive \/ Drained \/ PrepareBody \/ Check \/ SendOnce \/ Answered
    \/ Decide \/ Sleep \/ Cancel

OtlpSpec == OtlpInit /\ [][OtlpNext]_otlpVars

-----------------------------------------------------------------------------
OtlpTyped ==
    /\ xpc \in {"recv", "prepare", "check", "send", "wait", "decide", "sleep", "done"}
    /\ payload \in 0..Payloads /\ attempt \in 0..MaxAttempts
    /\ answer \in Answers \cup {NoAnswer} /\ nap \in 0..MaxDelay
    /\ quitting \in BOOLEAN /\ repeated \in BOOLEAN
    /\ accepted \in 0..attempt
    /\ outcome \in [delivered : BOOLEAN, attempts : 0..MaxAttempts]
    /\ afterStop \in Nat /\ slept \in Nat

(* What export may do to an endpoint and to an aborted recording.  After a *)
(* stop at most one more attempt begins, whatever is still queued; a       *)
(* payload goes out again only when the endpoint may not have taken it; a  *)
(* payload that counts as delivered was taken; and all delays together are *)
(* at most MAX_RETRY_DELAY per attempt, whatever Retry-After says.         *)
ExportsBounded ==
    /\ afterStop <= 1
    /\ ~repeated
    /\ xpc = "decide" /\ answer.delivered => accepted > 0
    /\ slept <= attempt * MaxDelay

(* A payload counts as sent when its outcome is there.                     *)
Idle == xpc \in {"recv", "done"}
OneExport == INSTANCE ExportStep WITH
    phase     <- CASE xpc = "recv" -> "idle" [] xpc = "done" -> "done" [] OTHER -> "send",
    taken     <- payload,
    held      <- Idle /\ accepted > 0,
    delivered <- outcome.delivered,
    stopped   <- quitting

(* The loop of attempts in ExportClient::export, with its delays, repeats  *)
(* and lost answers, amounts to what the output pipeline takes it for: one *)
(* step with one outcome per payload, and none for a payload that is taken *)
(* from the queue after the abort (record.rs, 1242-1264).                  *)
ImplementsExport == OneExport!Spec
=============================================================================
