------------------------------ MODULE FollowUp ------------------------------
(***************************************************************************)
(* One logical call in FollowUpPolicyService (policy/follow_up.rs): the    *)
(* loop that authenticates, retries and redirects, with the parts of an    *)
(* attempt it interacts with: the proxy candidates and the sticky proxy    *)
(* (client.rs, proxy.rs), admission and the candidate loop of              *)
(* transport/service.rs, and the authentication of a CONNECT tunnel        *)
(* (transport/connect.rs).                                                 *)
(*                                                                         *)
(* A URI is its origin.  "auth" stands for every header that               *)
(* strip_sensitive_cross_origin_headers removes and names the origin it    *)
(* was made for; "pauth" is Proxy-Authorization and names its proxy.       *)
(***************************************************************************)
EXTENDS Naturals, Sequences, SequencesExt

CONSTANTS
  Origin,         \* the origins a URI may have
  Secure,         \* the https ones
  Proxy,          \* the proxies of the selector
  Direct,         \* the DIRECT choice
  None,
  Config,         \* the clients to check: their policies, max_redirects, and in
                  \* selection the choices of ProxySelector::select per origin
  MaxAuths,       \* max_auth_attempts
  MaxAttempts     \* the attempts custom policies may ask for, a bound of the model

\* The policies of a client with the overrides of a call, None where it has none.
Client ==
  [customRetry : BOOLEAN, maxRetries : Nat, retryOption : Nat \cup {None},
   nonIdempotent : BOOLEAN, onConnectionFailure : BOOLEAN,
   customRedirect : BOOLEAN, follow : BOOLEAN, followOption : BOOLEAN \cup {None},
   maxRedirects : Nat, insecure : BOOLEAN,
   authenticates : BOOLEAN, proxyAuthenticates : BOOLEAN,
   selection : [Origin -> Seq(Proxy \cup {Direct})]]

ASSUME ConfigAssumption ==
  /\ Secure \subseteq Origin
  /\ \A c \in Config : c \in Client
  /\ MaxAuths \in Nat /\ MaxAttempts \in Nat

VARIABLES
  config,     \* the client's policies and the call's overrides
  request,    \* the request of the next attempt, or of the one under way
  snapshot,   \* RequestSnapshot of the attempt
  attempt, retries, redirects, auths,
  tunnelAuths, \* auth_count of establish_connect_tunnel
  pc,
  left,       \* the candidates of the attempt not yet tried
  route,      \* the candidate in use
  permit,     \* the call holds a request admission permit
  answer,     \* the response or error the policy looks at
  sent,       \* ghost: the request as it was last written, None before
  bodySent,   \* ghost: the caller's one-shot body went out
  queueEnds,  \* ghost: dispatcher_queue_end events
  failure     \* why the call failed, None if it did not

vars == <<config, request, snapshot, attempt, retries, redirects, auths, tunnelAuths, pc,
          left, route, permit, answer, sent, bodySent, queueEnds, failure>>

counters == <<retries, redirects, auths>>
ghosts == <<sent, bodySent, queueEnds>>

Request ==
  [origin : Origin, method : {"GET", "POST"}, body : {"none", "replayable", "oneshot"},
   auth : Origin \cup {None}, pauth : Proxy \cup {None}, sticky : Proxy \cup {None},
   queued : BOOLEAN, exact : BOOLEAN]
Status == {"200", "401", "407", "408", "421", "302", "307", "503"}
Response ==
  [kind : {"response"}, status : Status, proxy : Proxy \cup {None}, coalesced : BOOLEAN,
   location : Origin \cup {None}, retryAfter : {"absent", "now", "later"}]
Failure == [kind : {"error"}, retryable : BOOLEAN, committed : BOOLEAN]

(***************************************************************************)
(* The configuration.  An override of the call refines the built-in        *)
(* policies only: a custom policy of the client stays in charge.           *)
(***************************************************************************)
Overridden(value, option) == IF option = None THEN value ELSE option

RequestRetries == Overridden(config.maxRetries, config.retryOption)
DefaultRetries == IF config.customRetry THEN config.maxRetries ELSE RequestRetries
DefaultFollows ==
  IF config.customRedirect THEN config.follow ELSE Overridden(config.follow, config.followOption)

\* Mutant: the capture mode is chosen before the overrides are applied.
RebuildableByClient ==
  \/ config.customRedirect \/ config.follow
  \/ config.customRetry \/ config.maxRetries > 0
  \/ config.authenticates \/ config.proxyAuthenticates

\* SnapshotCaptureMode::for_policy
Rebuildable ==
  \/ config.customRedirect \/ DefaultFollows
  \/ config.customRetry \/ DefaultRetries > 0
  \/ config.authenticates \/ config.proxyAuthenticates

(***************************************************************************)
(* Building the next request.                                              *)
(***************************************************************************)
IsReplayable == snapshot.body # "oneshot"

\* reset_network_attempt_extensions
Reset(r, proxy) == [r EXCEPT !.sticky = proxy, !.queued = FALSE]

ToRetryRequest == Reset(snapshot, snapshot.sticky)

\* Mutant: sensitive headers follow the redirect wherever it leads.
StripNothing(r, origin) == [r EXCEPT !.origin = origin]

\* same_origin and strip_sensitive_cross_origin_headers
Strip(r, origin) ==
  [r EXCEPT !.origin = origin, !.auth = IF origin = r.origin THEN @ ELSE None]

SwitchToGet(status) == status = "302" /\ snapshot.method # "GET"

RedirectBody(status) ==
  IF SwitchToGet(status) \/ ~IsReplayable THEN "none" ELSE snapshot.body

IntoRedirectRequest(status, origin, proxy) ==
  Reset([Strip(snapshot, origin) EXCEPT
           !.body = RedirectBody(status),
           !.method = IF SwitchToGet(status) THEN "GET" ELSE @],
        proxy)

(***************************************************************************)
(* An attempt: the candidates, admission, the connection, the exchange.    *)
(***************************************************************************)
\* resolved_proxy_candidates_with_sticky, for a selection without duplicates
Candidates(origin, sticky) ==
  LET choices == IF config.selection[origin] = <<>> THEN <<Direct>> ELSE config.selection[origin]
      place == CHOOSE i \in DOMAIN choices : choices[i] = sticky
  IN  IF sticky # None /\ Contains(choices, sticky)
      THEN <<sticky>> \o RemoveAt(choices, place)
      ELSE choices

\* The candidate first_acquirable_index prefers, if the pool has one, then the others.
Orders(candidates) ==
  {candidates} \cup
  {<<candidates[i]>> \o RemoveAt(candidates, i) : i \in DOMAIN candidates}

Init ==
  /\ config \in Config
  /\ request \in {r \in Request : r.pauth = None /\ r.sticky = None /\ ~r.exact
                                  /\ r.auth \in {None, r.origin}
                                  /\ (r.method = "GET" => r.body # "replayable")}
  /\ snapshot = request
  /\ attempt = 1 /\ retries = 0 /\ redirects = 0 /\ auths = 0 /\ tunnelAuths = 0
  /\ pc = "ready"
  /\ left = <<>>
  /\ route = None
  /\ permit = FALSE
  /\ answer = None
  /\ sent = None /\ bodySent = FALSE /\ queueEnds = 0
  /\ failure = None

Fail(reason) ==
  /\ pc' = "failed"
  /\ failure' = reason
  /\ permit' = FALSE
  /\ UNCHANGED <<config, request, snapshot, attempt, counters, tunnelAuths, left, route, answer,
                 ghosts>>

\* validate_request and apply_request_cookies: the call ends, no policy is asked.
Rejected ==
  /\ pc = "ready"
  /\ Fail("invalid")

\* The proxy selector fails, which is an error of the attempt.
SelectionFails ==
  /\ pc = "ready"
  /\ snapshot' = request
  /\ answer' = [kind |-> "error", retryable |-> FALSE, committed |-> FALSE]
  /\ pc' = "error"
  /\ UNCHANGED <<config, request, attempt, counters, tunnelAuths, left, route, permit, ghosts,
                 failure>>

\* The head of the loop, cache_request_addresses and first_acquirable_index.
Prepare ==
  /\ pc = "ready"
  /\ snapshot' = request
  /\ LET candidates == Candidates(request.origin, request.sticky) IN
       /\ request' = [request EXCEPT !.pauth =
                        IF request.sticky # None /\ ~Contains(candidates, request.sticky)
                        THEN None ELSE @]
       /\ left' \in Orders(candidates)
  /\ pc' = "acquire"
  /\ UNCHANGED <<config, attempt, counters, tunnelAuths, route, permit, answer, ghosts, failure>>

\* RequestAdmissionLimiter::acquire for the next candidate.
Admit ==
  /\ pc = "acquire"
  /\ route' = Head(left)
  /\ left' = Tail(left)
  /\ permit' = TRUE
  /\ queueEnds' = queueEnds + IF request.queued THEN 1 ELSE 0
  /\ request' = [request EXCEPT !.queued = FALSE]
  /\ tunnelAuths' = 0
  /\ pc' = "connect"
  /\ UNCHANGED <<config, snapshot, attempt, counters, answer, sent, bodySent, failure>>

\* The candidate's error is kept; the next candidate is tried, if there is one.
NextCandidate(rest, error) ==
  /\ permit' = FALSE
  /\ left' = rest
  /\ IF rest = <<>> THEN pc' = "error" /\ answer' = error
                    ELSE pc' = "acquire" /\ answer' = answer
  /\ tunnelAuths' = 0
  /\ UNCHANGED <<config, request, snapshot, attempt, counters, ghosts, failure>>

Refused ==
  /\ pc = "acquire"
  /\ route' = Head(left)
  /\ NextCandidate(Tail(left), [kind |-> "error", retryable |-> FALSE, committed |-> FALSE])

DialFails ==
  /\ pc = "connect"
  /\ \E retryable \in BOOLEAN :
       NextCandidate(left, [kind |-> "error", retryable |-> retryable, committed |-> FALSE])
  /\ UNCHANGED route

Tunnelled == route \in Proxy /\ request.origin \in Secure

\* establish_connect_tunnel: a 407 that the proxy authenticator answers.
TunnelAuthenticates ==
  /\ pc = "connect"
  /\ Tunnelled
  /\ config.proxyAuthenticates
  /\ auths + tunnelAuths < MaxAuths
  /\ tunnelAuths' = tunnelAuths + 1
  /\ UNCHANGED <<config, request, snapshot, attempt, counters, pc, left, route, permit, answer,
                 sent, bodySent, queueEnds, failure>>

\* prepare_request_for_send: Proxy-Authorization goes when the proxy changed.
Send ==
  /\ pc = "connect"
  /\ sent' = [origin |-> request.origin, route |-> route, auth |-> request.auth,
              body |-> request.body,
              pauth |-> IF request.sticky # None /\ request.sticky # route THEN None
                        ELSE request.pauth,
              again |-> bodySent /\ request.body = "oneshot"]
  /\ bodySent' = (bodySent \/ request.body = "oneshot")
  /\ pc' = "sent"
  /\ UNCHANGED <<config, request, snapshot, attempt, counters, tunnelAuths, left, route, permit,
                 answer, queueEnds, failure>>

\* A response.  It has a location, None if it is absent or no text, with a redirect
\* only, and Retry-After where that matters: "now" is RetryAfter::Immediate, "later"
\* is Delayed or Invalid.
Respond ==
  /\ pc = "sent"
  /\ \E r \in Response :
       /\ r.proxy = IF route = Direct THEN None ELSE route
       /\ r.coalesced => r.status = "421" /\ ~request.exact /\ request.origin \in Secure
       /\ r.location # None => r.status \in {"302", "307"}
       /\ r.retryAfter # "absent" => r.status \in {"408", "503"}
       /\ answer' = r
  /\ pc' = "response"
  /\ UNCHANGED <<config, request, snapshot, attempt, counters, tunnelAuths, left, route, permit,
                 ghosts, failure>>

\* store_response_cookies: the call ends, no policy is asked.
CookiesFail ==
  /\ pc = "sent"
  /\ Fail("cookies")

ExchangeFails ==
  /\ pc = "sent"
  /\ answer' \in Failure
  /\ permit' = FALSE
  /\ pc' = "error"
  /\ UNCHANGED <<config, request, snapshot, attempt, counters, tunnelAuths, left, route,
                 ghosts, failure>>

(***************************************************************************)
(* The decision about a response, in the order of the code: authenticate,  *)
(* retry a misdirected request, retry a status, redirect.                  *)
(***************************************************************************)
Authenticates ==
  \/ answer.status = "401" /\ config.authenticates
  \/ answer.status = "407" /\ answer.proxy # None /\ config.proxyAuthenticates

CanAuthenticate == Authenticates /\ auths < MaxAuths /\ IsReplayable

\* Mutant: the next attempt starts while the response is still held.
FollowUndrained(next) ==
  /\ request' = next
  /\ attempt' = attempt + 1
  /\ pc' = "ready"
  /\ UNCHANGED <<config, snapshot, tunnelAuths, left, route, permit, answer, sent, bodySent,
                 queueEnds, failure>>

\* The follow-up is decided; its intermediate response is drained first.
Follow(next) ==
  /\ request' = next
  /\ attempt' = attempt + 1
  /\ pc' = "drain"
  /\ UNCHANGED <<config, snapshot, tunnelAuths, left, route, permit, answer, sent, bodySent,
                 queueEnds, failure>>

Challenge ==
  /\ pc = "response"
  /\ CanAuthenticate
  /\ pc' = "authenticating"
  /\ UNCHANGED <<config, request, snapshot, attempt, counters, tunnelAuths, left, route, permit,
                 answer, ghosts, failure>>

\* The authenticator returns a request for the origin or for the proxy.
Authenticated ==
  /\ pc = "authenticating"
  /\ auths' = auths + 1
  /\ Follow(Reset(IF answer.status = "401" THEN [snapshot EXCEPT !.auth = snapshot.origin]
                  ELSE [snapshot EXCEPT !.pauth = answer.proxy],
                  answer.proxy))
  /\ UNCHANGED <<retries, redirects>>

AuthenticatorDeclines ==
  /\ pc = "authenticating"
  /\ pc' = "declined"
  /\ UNCHANGED <<config, request, snapshot, attempt, counters, tunnelAuths, left, route, permit,
                 answer, ghosts, failure>>

AuthenticatorFails ==
  /\ pc = "authenticating"
  /\ Fail("authenticator")

Unauthenticated == pc = "declined" \/ (pc = "response" /\ ~CanAuthenticate)

ShouldRetryMisdirected ==
  /\ answer.status = "421"
  /\ answer.coalesced
  /\ IsReplayable
  /\ retries < RequestRetries

MisdirectedDue == Unauthenticated /\ ShouldRetryMisdirected

\* Mutant: the retry on an exact connection is not counted.
RetryMisdirectedUncounted ==
  /\ MisdirectedDue
  /\ Follow([ToRetryRequest EXCEPT !.exact = TRUE])
  /\ UNCHANGED counters

RetryMisdirected ==
  /\ MisdirectedDue
  /\ retries' = retries + 1
  /\ Follow([ToRetryRequest EXCEPT !.exact = TRUE])
  /\ UNCHANGED <<redirects, auths>>

\* DefaultRetryPolicy::should_retry_response, or what a custom policy says.
RetriesStatus ==
  IF config.customRetry THEN {b \in BOOLEAN : b => attempt < MaxAttempts}
  ELSE {/\ IsReplayable /\ retries < DefaultRetries
        /\ snapshot.method = "GET" \/ config.nonIdempotent
        /\ \/ answer.status = "408" /\ config.onConnectionFailure /\ answer.retryAfter # "later"
           \/ answer.status = "503" /\ answer.retryAfter = "now"}

StatusRetryDue == Unauthenticated /\ ~ShouldRetryMisdirected /\ TRUE \in RetriesStatus

\* Only a custom policy asks for a retry of a body that cannot be cloned.
RetryStatus ==
  /\ StatusRetryDue
  /\ IF IsReplayable
     THEN retries' = retries + 1 /\ Follow(ToRetryRequest) /\ UNCHANGED <<redirects, auths>>
     ELSE Fail("uncloneable")

\* Neither a misdirected request nor a status retry.
Unretried ==
  /\ Unauthenticated
  /\ ~ShouldRetryMisdirected
  /\ FALSE \in RetriesStatus

Redirects ==
  /\ config.customRedirect \/ DefaultFollows
  /\ answer.status \in {"302", "307"} /\ answer.location # None

\* DefaultRedirectPolicy::should_redirect, or what a custom policy says.
Decisions ==
  IF config.customRedirect
  THEN {d \in {"Follow", "Stop", "Error"} : d = "Follow" => attempt < MaxAttempts}
  ELSE IF redirects >= config.maxRedirects THEN {"Error"}
  ELSE IF ~config.insecure /\ request.origin \in Secure /\ answer.location \notin Secure
  THEN {"Error"}
  ELSE {"Follow"}

\* 307 and 308 need the body again.
MissingBody == answer.status = "307" /\ ~IsReplayable

\* emit_terminal_follow_up: the response, and its permit, go to the caller.
Return ==
  /\ Unretried
  /\ \/ ~Redirects
     \/ Redirects /\ ("Stop" \in Decisions \/ ("Follow" \in Decisions /\ MissingBody))
  /\ pc' = "returned"
  /\ UNCHANGED <<config, request, snapshot, attempt, counters, tunnelAuths, left, route, permit,
                 answer, ghosts, failure>>

\* The policy refuses the redirect, or the location is no valid URI.
RedirectFails ==
  /\ Unretried
  /\ Redirects
  /\ Fail("redirect")

RedirectDue == Unretried /\ Redirects /\ "Follow" \in Decisions /\ ~MissingBody

FollowRedirect ==
  /\ RedirectDue
  /\ redirects' = redirects + 1
  /\ Follow(IntoRedirectRequest(answer.status, answer.location, answer.proxy))
  /\ UNCHANGED <<retries, auths>>

\* drain_intermediate_response: the body is read up to a cap, then dropped.
Drain ==
  /\ pc = "drain"
  /\ permit' = FALSE
  /\ pc' = "ready"
  /\ UNCHANGED <<config, request, snapshot, attempt, counters, tunnelAuths, left, route, answer,
                 ghosts, failure>>

(***************************************************************************)
(* The decision about an error.                                            *)
(***************************************************************************)
\* DefaultRetryPolicy::should_retry, or what a custom policy says; retryable stands for
\* the kind of the error and the flags of the policy about it.
RetriesError ==
  IF config.customRetry THEN {b \in BOOLEAN : b => attempt < MaxAttempts}
  ELSE {answer.retryable /\ IsReplayable /\ retries < DefaultRetries
          /\ (answer.committed => snapshot.method = "GET")}

ErrorRetryDue == pc = "error" /\ TRUE \in RetriesError

RetryError ==
  /\ ErrorRetryDue
  /\ IF ~IsReplayable THEN Fail("uncloneable")
     ELSE /\ retries' = retries + 1
          /\ attempt' = attempt + 1
          /\ request' = ToRetryRequest
          /\ pc' = "ready"
          /\ UNCHANGED <<config, snapshot, redirects, auths, tunnelAuths, left, route, permit,
                         answer, ghosts, failure>>

GiveUp ==
  /\ pc = "error"
  /\ FALSE \in RetriesError
  /\ Fail("error")

Next ==
  \/ Rejected \/ SelectionFails \/ Prepare \/ Admit \/ Refused \/ DialFails \/ TunnelAuthenticates \/ Send
  \/ Respond \/ CookiesFail \/ ExchangeFails
  \/ Challenge \/ Authenticated \/ AuthenticatorDeclines \/ AuthenticatorFails
  \/ RetryMisdirected \/ RetryStatus \/ Return \/ RedirectFails \/ FollowRedirect \/ Drain
  \/ RetryError \/ GiveUp

Spec == Init /\ [][Next]_vars

-----------------------------------------------------------------------------
\* Every variable has its type.
TypeOK ==
  /\ config \in Config
  /\ request \in Request /\ snapshot \in Request
  /\ {attempt, retries, redirects, auths, tunnelAuths, queueEnds} \subseteq Nat
  /\ pc \in {"ready", "acquire", "connect", "sent", "response", "authenticating", "declined",
             "drain", "error", "returned", "failed"}
  /\ left \in Seq(Proxy \cup {Direct})
  /\ route \in Proxy \cup {Direct, None}
  /\ {permit, bodySent} \subseteq BOOLEAN
  /\ answer \in Response \cup Failure \cup {None}
  /\ failure \in {None, "invalid", "cookies", "authenticator", "redirect", "uncloneable", "error"}

\* Every attempt but the first is owed to one counted retry, redirect or
\* authentication, and the built-in policies keep each count within its limit
\* (max_retries, max_redirects, max_auth_attempts), so a call ends after
\* finitely many attempts whatever the servers answer.
AttemptsAreCounted ==
  /\ attempt = 1 + retries + redirects + auths
  /\ ~config.customRetry => retries <= RequestRetries
  /\ ~config.customRedirect => redirects <= config.maxRedirects
  /\ auths <= MaxAuths

\* Sensitive headers, the caller's or the authenticator's, are sent to the
\* origin they were made for and to no other, through any chain of redirects,
\* retries and challenges (strip_sensitive_cross_origin_headers on a snapshot).
CredentialsStayHome == sent # None => sent.auth \in {None, sent.origin}

\* A body that can be read once is written once: no retry, redirect or
\* authentication sends it again (is_replayable, into_redirect_request).
OneShotSentOnce == sent # None => ~sent.again

\* The light snapshot is taken only when nothing will be rebuilt from it:
\* whenever a follow-up is due, headers and extensions were captured
\* (SnapshotCaptureMode::for_policy against every later decision).
SnapshotSuffices ==
  \/ pc = "response" /\ CanAuthenticate
  \/ MisdirectedDue \/ StatusRetryDue \/ RedirectDue \/ ErrorRetryDue
  => Rebuildable

\* The call never waits for admission while it holds a permit: the
\* intermediate response is gone before the next attempt
\* (drain_intermediate_response; docs/ARCHITECTURE.md:120).
NeverWaitsHolding == pc \in {"ready", "acquire"} => ~permit

\* dispatcher_queue_end is emitted at most once for a queued call, whatever
\* candidates and follow-ups it takes (DispatcherQueued is removed on
\* admission and by reset_network_attempt_extensions).
QueueEndsOnce == queueEnds <= 1

\* Admission sees a call that holds nothing, and reports its queueing once.
AdmissionIsClean == NeverWaitsHolding /\ QueueEndsOnce

\* A follow-up is built from a snapshot that has all of it, and never sends a
\* body again that could be read only once.
RebuildIsSound == TypeOK /\ SnapshotSuffices /\ OneShotSentOnce
=============================================================================
