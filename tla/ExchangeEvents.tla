--------------------------- MODULE ExchangeEvents ---------------------------
(***************************************************************************)
(* What the listener is told of a request that is sent on a bound          *)
(* connection: send_bound_request of transport/service.rs, the observed    *)
(* outgoing body of transport/body.rs, and the two flags of CallContext    *)
(* between them.  A body belongs to hyper once the request is handed over: *)
(* the task that writes it runs beside the call, and may outlive the       *)
(* attempt.  Retries and follow-ups of a call share its CallContext.       *)
(***************************************************************************)
EXTENDS Integers, Sequences

CONSTANT MaxSends   \* how many attempts of one call are looked at

ASSUME ExchangeAssumption == MaxSends \in Nat \ {0}

VARIABLES
  sends, step,     \* the attempt that is under way, and where it is
  form,            \* of each attempt's body: absent, empty or a stream
  body,            \* the ObservedOutgoingBody of each attempt
  writeComplete,   \* request_write_complete
  failedEmitted,   \* request_failed_emitted
  reports,         \* the failure events that are about each attempt
  lost,            \* ghost: attempts whose send failed, and whose error is mapped
  haunted          \* ghost: attempts begun while an earlier body was alive

flagVars == <<writeComplete, failedEmitted>>

exchangeVars == <<sends, step, form, body, flagVars, reports, lost, haunted>>

Sends == 1..MaxSends

Alive == {"waiting", "started"}

ExchangeInit ==
  /\ sends = 0 /\ step = "idle"
  /\ form = [a \in Sends |-> "absent"]
  /\ body = [a \in Sends |-> "none"]
  /\ writeComplete = FALSE /\ failedEmitted = FALSE
  /\ reports = [a \in Sends |-> <<>>]
  /\ lost = {} /\ haunted = {}

-----------------------------------------------------------------------------
(* The call: send_bound_request *)

\* Wrong variant: the flags of the attempt before are kept.
PrepareOnly(f) ==
  /\ step = "idle" /\ sends < MaxSends
  /\ sends' = sends + 1 /\ step' = "ready"
  /\ form' = [form EXCEPT ![sends'] = f]
  /\ body' = [body EXCEPT ![sends'] = IF f = "stream" THEN "waiting" ELSE "none"]
  /\ haunted' = IF \E a \in 1..sends : body[a] \in Alive THEN haunted \cup {sends'}
                                                           ELSE haunted
  /\ writeComplete' = (writeComplete \/ f = "absent")
  /\ UNCHANGED <<failedEmitted, reports, lost>>

\* The flags are reset and the body wrapped.
Prepare(f) ==
  /\ step = "idle" /\ sends < MaxSends
  /\ sends' = sends + 1 /\ step' = "ready"
  /\ form' = [form EXCEPT ![sends'] = f]
  /\ body' = [body EXCEPT ![sends'] = IF f = "stream" THEN "waiting" ELSE "none"]
  /\ haunted' = IF \E a \in 1..sends : body[a] \in Alive THEN haunted \cup {sends'}
                                                           ELSE haunted
  /\ writeComplete' = (f = "absent") /\ failedEmitted' = FALSE
  /\ UNCHANGED <<reports, lost>>

\* sender.ready() fails: the request is dropped, and no event of it was heard.
NotReady ==
  /\ step = "ready"
  /\ step' = "idle"
  /\ body' = [body EXCEPT ![sends] = IF @ = "waiting" THEN "dropped" ELSE @]
  /\ UNCHANGED <<sends, form, flagVars, reports, lost, haunted>>

\* dispatch_try_send_request: the request is handed over, ...
HandOver ==
  /\ step = "ready"
  /\ step' = "handed"
  /\ UNCHANGED <<sends, form, body, flagVars, reports, lost, haunted>>

\* ... and an empty body, which hyper will not ask for, is reported as sent.
Dispatched ==
  /\ step = "handed"
  /\ step' = "response"
  /\ writeComplete' = (writeComplete \/ form[sends] = "empty")
  /\ UNCHANGED <<sends, form, body, failedEmitted, reports, lost, haunted>>

\* The head of a response, be the body written or not: the call may go on.
Responded ==
  /\ step = "response"
  /\ step' = "idle"
  /\ UNCHANGED <<sends, form, body, flagVars, reports, lost, haunted>>

\* map_try_send_error_with_events looks at one flag ...
SendFails ==
  /\ step = "response"
  /\ step' = IF failedEmitted THEN "idle" ELSE "classify"
  /\ lost' = IF failedEmitted THEN lost \cup {sends} ELSE lost
  /\ UNCHANGED <<sends, form, body, flagVars, reports, haunted>>

\* ... and then at the other.
Classify ==
  /\ step = "classify"
  /\ step' = "idle"
  /\ lost' = lost \cup {sends}
  /\ reports' = [reports EXCEPT ![sends] =
                   Append(@, IF writeComplete THEN "response failed" ELSE "request failed")]
  /\ UNCHANGED <<sends, form, body, flagVars, haunted>>

-----------------------------------------------------------------------------
(* The task that writes a body: ObservedOutgoingBody *)

Handed(a) == a < sends \/ (a = sends /\ step # "ready")

BodyStarts(a) ==
  /\ Handed(a) /\ body[a] = "waiting"
  /\ body' = [body EXCEPT ![a] = "started"]
  /\ UNCHANGED <<sends, step, form, flagVars, reports, lost, haunted>>

\* The last frame, or the drop of a body that has nothing left.
BodyEnds(a) ==
  /\ Handed(a) /\ body[a] = "started"
  /\ body' = [body EXCEPT ![a] = "written"]
  /\ writeComplete' = TRUE
  /\ UNCHANGED <<sends, step, form, failedEmitted, reports, lost, haunted>>

BodyFails(a) ==
  /\ Handed(a) /\ body[a] = "started"
  /\ body' = [body EXCEPT ![a] =
                IF a \in lost \/ (a = sends /\ step = "classify") THEN "failed late" ELSE "failed"]
  /\ failedEmitted' = TRUE
  /\ reports' = [reports EXCEPT ![a] = Append(@, "request failed")]
  /\ UNCHANGED <<sends, step, form, writeComplete, lost, haunted>>

\* The connection is gone, or the server wants no more of it: no event.
BodyDropped(a) ==
  /\ Handed(a) /\ body[a] \in Alive
  /\ body' = [body EXCEPT ![a] = "dropped"]
  /\ UNCHANGED <<sends, step, form, flagVars, reports, lost, haunted>>

ExchangeNext ==
  \/ \E f \in {"absent", "empty", "stream"} : Prepare(f)
  \/ NotReady \/ HandOver \/ Dispatched \/ Responded \/ SendFails \/ Classify
  \/ \E a \in Sends : BodyStarts(a) \/ BodyEnds(a) \/ BodyFails(a) \/ BodyDropped(a)

-----------------------------------------------------------------------------
(* Properties *)

\* A request that was handed over and failed is reported as failed, once (twice
\* only when its own body fails after the error of the send has arrived), and
\* as a failed response only when all of the request had been written.  A
\* body of an earlier attempt that is still alive may set the flags of this one:
\* nothing is promised then.
FailureIsReported ==
  \A a \in lost \ haunted :
    /\ Len(reports[a]) \in (IF body[a] = "failed late" THEN {1, 2} ELSE {1})
    /\ "response failed" \in {reports[a][i] : i \in DOMAIN reports[a]}
         => form[a] # "stream" \/ body[a] = "written"
=============================================================================
