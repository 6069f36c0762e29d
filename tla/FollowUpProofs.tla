--------------------------- MODULE FollowUpProofs ---------------------------
(***************************************************************************)
(* What FollowUp promises of a call, for every client, every set of        *)
(* origins and proxies and every limit.                                    *)
(***************************************************************************)
EXTENDS FollowUp, TLAPS

\* A leaf that names no prover is tried with these, in this order.
USE SMTT(30), ZenonT(30), Z3T(30)

Choice == Proxy \cup {Direct}

-----------------------------------------------------------------------------
(* The inductive invariant.                                                *)

Judging == {"response", "authenticating", "declined"}
Underway == {"acquire", "connect", "sent", "error"} \cup Judging

\* What the policy looks at is a response or an error; a challenge that is
\* being answered was within the limit; there is a candidate to try.
Stages ==
  /\ pc \in Judging => answer \in Response
  /\ pc = "error" => answer \in Failure
  /\ pc = "authenticating" => auths < MaxAuths /\ IsReplayable
  /\ pc = "acquire" => left # <<>>

\* The snapshot and the request name the origin their credentials are for.
Addressed ==
  /\ request.auth \in {None, request.origin}
  /\ snapshot.auth \in {None, snapshot.origin}
  /\ CredentialsStayHome

\* What is decided by looking at the snapshot's body holds of the request's, and
\* a one-shot body that went out is in no request that is still to be sent.
BodyOnce ==
  /\ pc \in Underway => snapshot.body = request.body
  /\ bodySent /\ pc \in {"ready", "acquire", "connect", "drain"} => request.body # "oneshot"
  /\ OneShotSentOnce

\* A permit is held from admission to the end of the attempt only.
Holding == pc \in {"ready", "acquire", "error"} => ~permit

\* The mark of a queued call is there until its queue end is reported.
QueueMark == queueEnds <= 1 /\ (request.queued => queueEnds = 0)

IInv ==
  /\ TypeOK /\ Stages /\ AttemptsAreCounted
  /\ Addressed /\ BodyOnce /\ Holding /\ QueueMark

-----------------------------------------------------------------------------
(* The candidates of an attempt.                                           *)

\* There is always a candidate, and each is a choice of the selector or DIRECT.
LEMMA CandidatesType ==
  ASSUME TypeOK, NEW origin \in Origin, NEW sticky \in Proxy \cup {None}
  PROVE  Candidates(origin, sticky) \in Seq(Choice) \ {<<>>}
<1> DEFINE choices ==
      IF config.selection[origin] = <<>> THEN <<Direct>> ELSE config.selection[origin]
<1> DEFINE place == CHOOSE i \in DOMAIN choices : choices[i] = sticky
<1>1. config.selection[origin] \in Seq(Choice)
  BY ConfigAssumption DEF TypeOK, Client, Choice
<1>2. choices \in Seq(Choice) \ {<<>>}
  BY <1>1 DEF Choice
<1> HIDE DEF choices
<1>3. CASE sticky # None /\ Contains(choices, sticky)
  <2>1. place \in 1 .. Len(choices) /\ choices[place] = sticky
    BY <1>2, <1>3 DEF Contains
  <2>2. sticky \in Choice
    BY <1>2, <2>1
  <2> HIDE DEF place
  <2>3. RemoveAt(choices, place) \in Seq(Choice)
    BY <1>2, <2>1 DEF RemoveAt
  <2>4. <<sticky>> \o RemoveAt(choices, place) \in Seq(Choice) \ {<<>>}
    BY <2>2, <2>3
  <2> QED
    BY <1>3, <2>4 DEF Candidates, choices, place
<1>4. CASE ~(sticky # None /\ Contains(choices, sticky))
  BY <1>2, <1>4 DEF Candidates, choices
<1> QED
  BY <1>3, <1>4

\* Putting the candidate that the pool can serve first keeps the rest.
LEMMA OrdersType ==
  ASSUME NEW candidates \in Seq(Choice) \ {<<>>}, NEW order \in Orders(candidates)
  PROVE  order \in Seq(Choice) \ {<<>>}
<1>1. CASE order = candidates
  BY <1>1
<1>2. ASSUME NEW i \in DOMAIN candidates, order = <<candidates[i]>> \o RemoveAt(candidates, i)
      PROVE  order \in Seq(Choice) \ {<<>>}
  <2>1. i \in 1 .. Len(candidates) /\ candidates[i] \in Choice
    OBVIOUS
  <2>2. RemoveAt(candidates, i) \in Seq(Choice)
    BY <2>1 DEF RemoveAt
  <2> QED
    BY <1>2, <2>1, <2>2
<1> QED
  BY <1>1, <1>2, ZenonT(30) DEF Orders

-----------------------------------------------------------------------------
(* The invariant holds initially and every action preserves it.            *)

LEMMA InitIInv == Init => IInv
<1> SUFFICES ASSUME Init PROVE IInv
  OBVIOUS
<1>1. TypeOK
  <2>1. {attempt, retries, redirects, auths, tunnelAuths, queueEnds} \subseteq Nat
    BY DEF Init
  <2>2. {permit, bodySent} \subseteq BOOLEAN
    BY ZenonT(30) DEF Init
  <2>3. request \in Request /\ left \in Seq(Proxy \cup {Direct})
    BY DEF Init
  <2> QED
    BY <2>1, <2>2, <2>3 DEF Init, TypeOK
<1>2. Stages /\ Addressed /\ BodyOnce /\ Holding /\ QueueMark
  BY <1>1 DEF Init, TypeOK, Stages, Judging, Underway, Addressed, CredentialsStayHome, BodyOnce,
              OneShotSentOnce, Holding, QueueMark
<1>3. AttemptsAreCounted
  <2>1. config \in Client
    BY <1>1, ConfigAssumption DEF TypeOK
  <2> QED
    BY <2>1, ConfigAssumption DEF Init, AttemptsAreCounted, RequestRetries, Overridden, Client
<1> QED
  BY <1>1, <1>2, <1>3 DEF IInv

\* The counts stand as long as nobody touches them.
LEMMA CountsStand ==
  ASSUME AttemptsAreCounted, UNCHANGED <<config, attempt, counters>>
  PROVE  AttemptsAreCounted'
BY DEF AttemptsAreCounted, RequestRetries, Overridden, counters

LEMMA FailIInv ==
  ASSUME IInv, NEW reason, Fail(reason),
         reason \in {"invalid", "cookies", "authenticator", "redirect", "uncloneable", "error"}
  PROVE  IInv'
<1>1. TypeOK'
  BY ZenonT(30) DEF IInv, Fail, counters, ghosts, TypeOK
<1>2. AttemptsAreCounted'
  BY CountsStand DEF IInv, Fail
<1>3. Addressed' /\ BodyOnce'
  BY DEF IInv, Fail, ghosts, Addressed, CredentialsStayHome, BodyOnce, Underway, Judging,
         OneShotSentOnce
<1>4. Stages' /\ Holding' /\ QueueMark'
  BY DEF IInv, Fail, ghosts, Stages, Judging, Holding, QueueMark
<1> QED
  BY <1>1, <1>2, <1>3, <1>4 DEF IInv

LEMMA SelectionFailsIInv == IInv /\ SelectionFails => IInv'
<1> SUFFICES ASSUME IInv, SelectionFails PROVE IInv'
  OBVIOUS
<1>1. answer' \in Failure
  BY DEF SelectionFails, Failure
<1>2. TypeOK'
  BY <1>1 DEF IInv, SelectionFails, counters, ghosts, TypeOK
<1>3. AttemptsAreCounted'
  BY CountsStand DEF IInv, SelectionFails
<1>4. Stages' /\ Holding' /\ QueueMark'
  BY <1>1 DEF IInv, SelectionFails, ghosts, Stages, Judging, Holding, QueueMark
<1>5. Addressed' /\ BodyOnce'
  BY DEF IInv, SelectionFails, ghosts, Addressed, CredentialsStayHome, BodyOnce, Underway,
         Judging, OneShotSentOnce
<1> QED
  BY <1>2, <1>3, <1>4, <1>5 DEF IInv

LEMMA PrepareIInv == IInv /\ Prepare => IInv'
<1> SUFFICES ASSUME IInv, Prepare PROVE IInv'
  OBVIOUS
<1> DEFINE candidates == Candidates(request.origin, request.sticky)
           pauth == IF request.sticky # None /\ ~Contains(candidates, request.sticky)
                    THEN None ELSE request.pauth
<1>1. request \in Request
  BY DEF IInv, TypeOK
<1>2. request.origin \in Origin /\ request.sticky \in Proxy \cup {None}
      /\ request.pauth \in Proxy \cup {None}
  BY <1>1 DEF Request
<1>3. candidates \in Seq(Choice) \ {<<>>}
  BY <1>2, CandidatesType DEF IInv
<1>4. left' \in Orders(candidates) /\ request' = [request EXCEPT !.pauth = pauth]
  BY DEF Prepare
<1>5. left' \in Seq(Choice) \ {<<>>}
  <2> HIDE DEF candidates
  <2> QED BY <1>3, <1>4, OrdersType
<1>6. pauth \in Proxy \cup {None}
  BY <1>2
<1> HIDE DEF candidates, pauth
<1>7. request' \in Request
  BY <1>1, <1>4, <1>6 DEF Request
<1>8. TypeOK'
  BY <1>5, <1>7 DEF IInv, Prepare, counters, ghosts, TypeOK, Choice
<1>9. AttemptsAreCounted'
  BY CountsStand DEF IInv, Prepare
<1>10. Stages' /\ Holding' /\ QueueMark'
  BY <1>1, <1>4, <1>5 DEF IInv, Prepare, ghosts, Stages, Judging, Holding, QueueMark, Request
<1>11. Addressed' /\ BodyOnce'
  BY <1>1, <1>4 DEF IInv, Prepare, ghosts, Addressed, CredentialsStayHome, BodyOnce, Underway,
         Judging, OneShotSentOnce, Request
<1> QED
  BY <1>8, <1>9, <1>10, <1>11 DEF IInv

LEMMA AdmitIInv == IInv /\ Admit => IInv'
<1> SUFFICES ASSUME IInv, Admit PROVE IInv'
  OBVIOUS
<1>1. left \in Seq(Choice) /\ left # <<>> /\ request \in Request
  BY DEF IInv, TypeOK, Stages, Admit, Choice
<1>2. route' \in Choice /\ left' \in Seq(Choice)
  BY <1>1 DEF Admit
<1>3. request' \in Request
  BY <1>1, ZenonT(30) DEF Admit, Request
<1>4. queueEnds' \in Nat
  BY DEF Admit, IInv, TypeOK
<1>5. TypeOK'
  BY <1>2, <1>3, <1>4 DEF IInv, Admit, counters, TypeOK, Choice
<1>6. AttemptsAreCounted'
  BY CountsStand DEF IInv, Admit
<1>7. Stages' /\ Holding' /\ QueueMark'
  BY <1>1 DEF IInv, Admit, TypeOK, Stages, Judging, Holding, QueueMark, Request
<1>8. Addressed' /\ BodyOnce'
  BY <1>1 DEF IInv, Admit, Addressed, CredentialsStayHome, BodyOnce, Underway,
         Judging, OneShotSentOnce, Request
<1> QED
  BY <1>5, <1>6, <1>7, <1>8 DEF IInv

\* A candidate that failed leaves the permit, and the next one or the error.
LEMMA NextCandidateIInv ==
  ASSUME IInv, pc \in {"acquire", "connect"},
         NEW rest \in Seq(Choice), NEW error \in Failure, NextCandidate(rest, error),
         route' \in Proxy \cup {Direct, None}
  PROVE  IInv'
<1>1. \/ rest = <<>> /\ pc' = "error" /\ answer' = error
      \/ rest # <<>> /\ pc' = "acquire" /\ answer' = answer
  BY DEF NextCandidate
<1>2. TypeOK'
  <2>1. answer' \in Response \cup Failure \cup {None} /\ pc' \in {"error", "acquire"}
    BY <1>1 DEF IInv, TypeOK
  <2>2. /\ permit' = FALSE /\ left' = rest /\ tunnelAuths' = 0
        /\ UNCHANGED <<config, request, snapshot, attempt, counters, ghosts, failure>>
    BY DEF NextCandidate
  <2>3. TypeOK
    BY DEF IInv
  <2>4. {attempt', retries', redirects', auths', tunnelAuths', queueEnds'} \subseteq Nat
    BY <2>2, <2>3 DEF TypeOK, counters, ghosts
  <2>5. {permit', bodySent'} \subseteq BOOLEAN
    BY <2>2, <2>3, ZenonT(30) DEF TypeOK, ghosts
  <2>6. left' \in Seq(Proxy \cup {Direct})
    BY <2>2 DEF Choice
  <2> QED
    BY <2>1, <2>2, <2>3, <2>4, <2>5, <2>6 DEF TypeOK
<1>3. AttemptsAreCounted'
  BY CountsStand DEF IInv, NextCandidate
<1>4. Stages' /\ Holding' /\ QueueMark'
  BY <1>1 DEF IInv, NextCandidate, ghosts, Stages, Judging, Holding, QueueMark
<1>5. Addressed' /\ BodyOnce'
  BY <1>1 DEF IInv, NextCandidate, ghosts, Addressed, CredentialsStayHome, BodyOnce, Underway,
         Judging, OneShotSentOnce
<1> QED
  BY <1>2, <1>3, <1>4, <1>5 DEF IInv

LEMMA RefusedIInv == IInv /\ Refused => IInv'
<1> SUFFICES ASSUME IInv, Refused PROVE IInv'
  OBVIOUS
<1>1. left \in Seq(Choice) /\ left # <<>>
  BY DEF IInv, TypeOK, Stages, Refused, Choice
<1>2. Tail(left) \in Seq(Choice) /\ route' \in Choice
  BY <1>1 DEF Refused
<1>3. [kind |-> "error", retryable |-> FALSE, committed |-> FALSE] \in Failure
  BY DEF Failure
<1> QED
  BY <1>2, <1>3, NextCandidateIInv, ZenonT(30) DEF Refused, Choice

LEMMA DialFailsIInv == IInv /\ DialFails => IInv'
<1> SUFFICES ASSUME IInv, DialFails PROVE IInv'
  OBVIOUS
<1>1. PICK retryable \in BOOLEAN :
        NextCandidate(left, [kind |-> "error", retryable |-> retryable, committed |-> FALSE])
  BY ZenonT(30) DEF DialFails
<1>2. [kind |-> "error", retryable |-> retryable, committed |-> FALSE] \in Failure
  BY DEF Failure
<1>3. left \in Seq(Choice) /\ route' \in Proxy \cup {Direct, None}
  BY DEF IInv, TypeOK, DialFails, Choice
<1> QED
  BY <1>1, <1>2, <1>3, NextCandidateIInv DEF DialFails

LEMMA TunnelAuthenticatesIInv == IInv /\ TunnelAuthenticates => IInv'
<1> SUFFICES ASSUME IInv, TunnelAuthenticates PROVE IInv'
  OBVIOUS
<1>1. TypeOK'
  BY DEF IInv, TunnelAuthenticates, counters, TypeOK
<1>2. AttemptsAreCounted'
  BY CountsStand DEF IInv, TunnelAuthenticates
<1>3. Stages' /\ Holding' /\ QueueMark' /\ Addressed' /\ BodyOnce'
  BY DEF IInv, TunnelAuthenticates, Stages, Judging, Holding, QueueMark, Addressed,
         CredentialsStayHome, BodyOnce, Underway, OneShotSentOnce, IsReplayable
<1> QED
  BY <1>1, <1>2, <1>3 DEF IInv

LEMMA SendIInv == IInv /\ Send => IInv'
<1> SUFFICES ASSUME IInv, Send PROVE IInv'
  OBVIOUS
<1>1. bodySent' \in BOOLEAN
  BY DEF Send, IInv, TypeOK
<1>2. TypeOK'
  BY <1>1 DEF IInv, Send, counters, TypeOK
<1>3. AttemptsAreCounted'
  BY CountsStand DEF IInv, Send
<1>4. Stages' /\ Holding' /\ QueueMark' /\ Addressed'
  BY DEF IInv, Send, Stages, Judging, Holding, QueueMark, Addressed, CredentialsStayHome
<1>5. BodyOnce'
  BY ZenonT(30) DEF IInv, Send, BodyOnce, Underway, Judging, OneShotSentOnce
<1> QED
  BY <1>2, <1>3, <1>4, <1>5 DEF IInv

LEMMA RespondIInv == IInv /\ Respond => IInv'
<1> SUFFICES ASSUME IInv, Respond PROVE IInv'
  OBVIOUS
<1>1. answer' \in Response
  BY DEF Respond
<1>2. TypeOK'
  BY <1>1 DEF IInv, Respond, counters, ghosts, TypeOK
<1>3. AttemptsAreCounted'
  BY CountsStand DEF IInv, Respond
<1>4. Stages' /\ Holding' /\ QueueMark' /\ Addressed' /\ BodyOnce'
  BY <1>1 DEF IInv, Respond, ghosts, Stages, Judging, Holding, QueueMark, Addressed,
              CredentialsStayHome, BodyOnce, Underway, OneShotSentOnce
<1> QED
  BY <1>2, <1>3, <1>4 DEF IInv

LEMMA ExchangeFailsIInv == IInv /\ ExchangeFails => IInv'
<1> SUFFICES ASSUME IInv, ExchangeFails PROVE IInv'
  OBVIOUS
<1>1. TypeOK'
  BY ZenonT(30) DEF IInv, ExchangeFails, counters, ghosts, TypeOK
<1>2. AttemptsAreCounted'
  BY CountsStand DEF IInv, ExchangeFails
<1>3. Stages' /\ Holding' /\ QueueMark' /\ Addressed' /\ BodyOnce'
  BY DEF IInv, ExchangeFails, ghosts, Stages, Judging, Holding, QueueMark, Addressed,
         CredentialsStayHome, BodyOnce, Underway, OneShotSentOnce
<1> QED
  BY <1>1, <1>2, <1>3 DEF IInv

\* The steps of the policy that only move on: a challenge is taken up or declined,
\* the response is returned, or it has been drained.
LEMMA DecideIInv == IInv /\ (Challenge \/ AuthenticatorDeclines \/ Return \/ Drain) => IInv'
<1> SUFFICES ASSUME IInv, Challenge \/ AuthenticatorDeclines \/ Return \/ Drain PROVE IInv'
  OBVIOUS
<1>1. TypeOK'
  BY ZenonT(30) DEF IInv, Challenge, AuthenticatorDeclines, Return, Drain, counters, ghosts, TypeOK
<1>2. AttemptsAreCounted'
  BY CountsStand DEF IInv, Challenge, AuthenticatorDeclines, Return, Drain
<1>3. Stages'
  BY DEF IInv, Challenge, AuthenticatorDeclines, Return, Drain, CanAuthenticate, IsReplayable,
         counters, Stages, Judging
<1>4. Holding' /\ QueueMark'
  BY DEF IInv, Challenge, AuthenticatorDeclines, Return, Drain, ghosts, Holding, QueueMark
<1>5. Addressed' /\ BodyOnce'
  BY DEF IInv, Challenge, AuthenticatorDeclines, Return, Drain, ghosts, Addressed,
         CredentialsStayHome, BodyOnce, Underway, Judging, OneShotSentOnce
<1> QED
  BY <1>1, <1>2, <1>3, <1>4, <1>5 DEF IInv

-----------------------------------------------------------------------------
(* The requests that follow-ups are built from a snapshot as.              *)

\* A request that may be the next: its credentials are for its origin, its body
\* can be sent, and it is not marked as queued.
Sendable(r) ==
  /\ r \in Request
  /\ r.auth \in {None, r.origin}
  /\ r.body # "oneshot"
  /\ ~r.queued

\* Resetting the extensions of a request whose body can be sent makes it sendable.
LEMMA ResetSendable ==
  ASSUME NEW r \in Request, NEW proxy \in Proxy \cup {None},
         r.auth \in {None, r.origin}, r.body # "oneshot"
  PROVE  Sendable(Reset(r, proxy))
BY ZenonT(30) DEF Sendable, Reset, Request

LEMMA RetrySendable ==
  ASSUME IInv, IsReplayable
  PROVE  Sendable(ToRetryRequest) /\ Sendable([ToRetryRequest EXCEPT !.exact = TRUE])
<1>1. snapshot \in Request /\ snapshot.auth \in {None, snapshot.origin}
  BY DEF IInv, TypeOK, Addressed
<1>2. snapshot.sticky \in Proxy \cup {None}
  BY <1>1 DEF Request
<1>3. Sendable(ToRetryRequest)
  BY <1>1, <1>2, ResetSendable DEF ToRetryRequest, IsReplayable
<1> QED
  BY <1>3, ZenonT(30) DEF Sendable, Request

LEMMA AuthSendable ==
  ASSUME IInv, IsReplayable, answer \in Response
  PROVE  Sendable(Reset(IF answer.status = "401" THEN [snapshot EXCEPT !.auth = snapshot.origin]
                        ELSE [snapshot EXCEPT !.pauth = answer.proxy],
                        answer.proxy))
<1> DEFINE r == IF answer.status = "401" THEN [snapshot EXCEPT !.auth = snapshot.origin]
                ELSE [snapshot EXCEPT !.pauth = answer.proxy]
<1>1. snapshot \in Request /\ snapshot.auth \in {None, snapshot.origin}
  BY DEF IInv, TypeOK, Addressed
<1>2. answer.proxy \in Proxy \cup {None}
  BY DEF Response
<1>3. r \in Request /\ r.auth \in {None, r.origin} /\ r.body # "oneshot"
  BY <1>1, <1>2 DEF IsReplayable, Request
<1> HIDE DEF r
<1>4. Sendable(Reset(r, answer.proxy))
  BY <1>2, <1>3, ResetSendable
<1> QED
  BY <1>4 DEF r

\* A redirect drops the credentials that are not for its origin, and the body when
\* it could be read only once.
LEMMA RedirectSendable ==
  ASSUME IInv, answer \in Response, answer.location # None
  PROVE  Sendable(IntoRedirectRequest(answer.status, answer.location, answer.proxy))
<1> DEFINE stripped == Strip(snapshot, answer.location)
           r == [stripped EXCEPT !.body = RedirectBody(answer.status),
                                 !.method = IF SwitchToGet(answer.status) THEN "GET" ELSE @]
<1>1. snapshot \in Request /\ snapshot.auth \in {None, snapshot.origin}
  BY DEF IInv, TypeOK, Addressed
<1>2. answer.proxy \in Proxy \cup {None} /\ answer.location \in Origin
  BY DEF Response
<1>3. stripped \in Request /\ stripped.auth \in {None, stripped.origin}
  BY <1>1, <1>2, ZenonT(30) DEF Strip, Request
<1>4. RedirectBody(answer.status) \in {"none", "replayable"}
  BY <1>1 DEF RedirectBody, IsReplayable, Request
<1> HIDE DEF stripped
<1>5. r \in Request /\ r.auth \in {None, r.origin} /\ r.body # "oneshot"
  BY <1>3, <1>4, ZenonT(30) DEF Request
<1> HIDE DEF r
<1>6. Sendable(Reset(r, answer.proxy))
  BY <1>2, <1>5, ResetSendable
<1> QED
  BY <1>6 DEF r, stripped, IntoRedirectRequest

\* A follow-up: one of the counts grows with the number of the attempt.
LEMMA FollowUpIInv ==
  ASSUME IInv, NEW next, Sendable(next), request' = next,
         attempt' = attempt + 1, AttemptsAreCounted',
         {retries', redirects', auths'} \subseteq Nat,
         \/ pc \in Judging /\ pc' = "drain"
         \/ pc = "error" /\ pc' = "ready",
         UNCHANGED <<config, snapshot, tunnelAuths, left, route, permit, answer, ghosts, failure>>
  PROVE  IInv'
<1>1. TypeOK'
  <2>1. request' \in Request /\ pc' \in {"drain", "ready"} /\ attempt' \in Nat
    BY DEF Sendable, IInv, TypeOK
  <2> QED
    BY <2>1 DEF IInv, TypeOK, ghosts
<1>2. Stages'
  BY DEF Stages, Judging
<1>3. Addressed'
  BY DEF IInv, Addressed, CredentialsStayHome, Sendable, ghosts
<1>4. BodyOnce'
  BY DEF IInv, BodyOnce, Underway, Judging, OneShotSentOnce, Sendable, ghosts
<1>5. Holding' /\ QueueMark'
  BY DEF IInv, Holding, QueueMark, Sendable, ghosts
<1> QED
  BY <1>1, <1>2, <1>3, <1>4, <1>5 DEF IInv

\* One more of a count that was below its limit.
LEMMA CountsGrow ==
  ASSUME IInv, UNCHANGED config, attempt' = attempt + 1,
         \/ /\ retries' = retries + 1 /\ UNCHANGED <<redirects, auths>>
            /\ ~config.customRetry => retries < RequestRetries
         \/ /\ redirects' = redirects + 1 /\ UNCHANGED <<retries, auths>>
            /\ ~config.customRedirect => redirects < config.maxRedirects
         \/ /\ auths' = auths + 1 /\ UNCHANGED <<retries, redirects>>
            /\ auths < MaxAuths
  PROVE  AttemptsAreCounted' /\ {retries', redirects', auths'} \subseteq Nat
<1>1. config \in Client /\ MaxAuths \in Nat
  BY ConfigAssumption DEF IInv, TypeOK
<1>2. RequestRetries \in Nat /\ config.maxRedirects \in Nat
  BY <1>1 DEF RequestRetries, Overridden, Client
<1>3. RequestRetries' = RequestRetries
  BY DEF RequestRetries, Overridden
<1>4. attempt \in Nat /\ retries \in Nat /\ redirects \in Nat /\ auths \in Nat
  BY DEF IInv, TypeOK
<1>5. AttemptsAreCounted
  BY DEF IInv
<1>6. attempt' = 1 + retries' + redirects' + auths'
  BY <1>4, <1>5 DEF AttemptsAreCounted
<1>7. auths' <= MaxAuths /\ {retries', redirects', auths'} \subseteq Nat
  BY <1>1, <1>4, <1>5 DEF AttemptsAreCounted
<1>8. (~config.customRetry => retries' <= RequestRetries)
      /\ (~config.customRedirect => redirects' <= config.maxRedirects)
  BY <1>2, <1>4, <1>5 DEF AttemptsAreCounted
<1> QED
  BY <1>3, <1>6, <1>7, <1>8 DEF AttemptsAreCounted

LEMMA AuthenticatedIInv == IInv /\ Authenticated => IInv'
<1> SUFFICES ASSUME IInv, Authenticated PROVE IInv'
  OBVIOUS
<1> DEFINE next == Reset(IF answer.status = "401" THEN [snapshot EXCEPT !.auth = snapshot.origin]
                         ELSE [snapshot EXCEPT !.pauth = answer.proxy], answer.proxy)
<1>1. pc = "authenticating" /\ answer \in Response /\ auths < MaxAuths /\ IsReplayable
  BY DEF Authenticated, IInv, Stages, Judging
<1>2. Sendable(next)
  BY <1>1, AuthSendable
<1>3. Follow(next)
  BY DEF Authenticated
<1> HIDE DEF next
<1>4. AttemptsAreCounted' /\ {retries', redirects', auths'} \subseteq Nat
  BY <1>1, <1>3, CountsGrow DEF Authenticated, Follow
<1> QED
  BY <1>1, <1>2, <1>3, <1>4, FollowUpIInv DEF Follow, Judging, ghosts

LEMMA RetryMisdirectedIInv == IInv /\ RetryMisdirected => IInv'
<1> SUFFICES ASSUME IInv, RetryMisdirected PROVE IInv'
  OBVIOUS
<1> DEFINE next == [ToRetryRequest EXCEPT !.exact = TRUE]
<1>1. pc \in Judging /\ IsReplayable /\ retries < RequestRetries
  BY DEF RetryMisdirected, MisdirectedDue, Unauthenticated, ShouldRetryMisdirected, Judging
<1>2. Sendable(next)
  BY <1>1, RetrySendable
<1>3. Follow(next)
  BY DEF RetryMisdirected
<1> HIDE DEF next
<1>4. AttemptsAreCounted' /\ {retries', redirects', auths'} \subseteq Nat
  BY <1>1, <1>3, CountsGrow DEF RetryMisdirected, Follow
<1> QED
  BY <1>1, <1>2, <1>3, <1>4, FollowUpIInv DEF Follow, ghosts

LEMMA RetryStatusIInv == IInv /\ RetryStatus => IInv'
<1> SUFFICES ASSUME IInv, RetryStatus PROVE IInv'
  OBVIOUS
<1>1. CASE ~IsReplayable
  BY <1>1, FailIInv DEF RetryStatus
<1>2. CASE IsReplayable
  <2>1. pc \in Judging
    BY DEF RetryStatus, StatusRetryDue, Unauthenticated, Judging
  <2>2. ~config.customRetry => retries < RequestRetries
    BY ZenonT(30) DEF RetryStatus, StatusRetryDue, RetriesStatus, DefaultRetries
  <2>3. Sendable(ToRetryRequest)
    BY <1>2, RetrySendable
  <2>4. retries' = retries + 1 /\ Follow(ToRetryRequest) /\ UNCHANGED <<redirects, auths>>
    BY <1>2 DEF RetryStatus
  <2>5. AttemptsAreCounted' /\ {retries', redirects', auths'} \subseteq Nat
    BY <2>2, <2>4, CountsGrow DEF Follow
  <2> QED
    BY <2>1, <2>3, <2>4, <2>5, FollowUpIInv DEF Follow, ghosts
<1> QED
  BY <1>1, <1>2

LEMMA RetryErrorIInv == IInv /\ RetryError => IInv'
<1> SUFFICES ASSUME IInv, RetryError PROVE IInv'
  OBVIOUS
<1>1. CASE ~IsReplayable
  BY <1>1, FailIInv DEF RetryError
<1>2. CASE IsReplayable
  <2>1. pc = "error"
    BY DEF RetryError, ErrorRetryDue
  <2>2. ~config.customRetry => retries < RequestRetries
    BY ZenonT(30) DEF RetryError, ErrorRetryDue, RetriesError, DefaultRetries
  <2>3. Sendable(ToRetryRequest)
    BY <1>2, RetrySendable
  <2>4. /\ retries' = retries + 1 /\ attempt' = attempt + 1
        /\ request' = ToRetryRequest /\ pc' = "ready"
        /\ UNCHANGED <<config, snapshot, redirects, auths, tunnelAuths, left, route, permit,
                       answer, ghosts, failure>>
    BY <1>2 DEF RetryError
  <2>5. AttemptsAreCounted' /\ {retries', redirects', auths'} \subseteq Nat
    BY <2>2, <2>4, CountsGrow
  <2> QED
    BY <2>1, <2>3, <2>4, <2>5, FollowUpIInv
<1> QED
  BY <1>1, <1>2

LEMMA FollowRedirectIInv == IInv /\ FollowRedirect => IInv'
<1> SUFFICES ASSUME IInv, FollowRedirect PROVE IInv'
  OBVIOUS
<1> DEFINE next == IntoRedirectRequest(answer.status, answer.location, answer.proxy)
<1>1. pc \in Judging /\ answer \in Response
  BY DEF FollowRedirect, RedirectDue, Unretried, Unauthenticated, IInv, Stages, Judging
<1>2. ~config.customRedirect => redirects < config.maxRedirects
  <2>1. config.maxRedirects \in Nat /\ redirects \in Nat
    BY ConfigAssumption DEF IInv, TypeOK, Client
  <2> QED
    BY <2>1 DEF FollowRedirect, RedirectDue, Decisions
<1>3. Sendable(next)
  BY <1>1, RedirectSendable DEF FollowRedirect, RedirectDue, Redirects
<1>4. Follow(next)
  BY DEF FollowRedirect
<1> HIDE DEF next
<1>5. AttemptsAreCounted' /\ {retries', redirects', auths'} \subseteq Nat
  BY <1>2, <1>4, CountsGrow DEF FollowRedirect, Follow
<1> QED
  BY <1>1, <1>3, <1>4, <1>5, FollowUpIInv DEF Follow, ghosts

-----------------------------------------------------------------------------
(* The theorems.                                                           *)

LEMMA NextIInv == IInv /\ [Next]_vars => IInv'
<1> SUFFICES ASSUME IInv, [Next]_vars PROVE IInv'
  OBVIOUS
<1>1. CASE Rejected \/ CookiesFail \/ AuthenticatorFails \/ RedirectFails \/ GiveUp
  BY <1>1, FailIInv, ZenonT(30) DEF Rejected, CookiesFail, AuthenticatorFails, RedirectFails, GiveUp
<1>2. CASE SelectionFails \/ Prepare \/ Admit \/ Refused \/ DialFails \/ TunnelAuthenticates
  BY <1>2, SelectionFailsIInv, PrepareIInv, AdmitIInv, RefusedIInv, DialFailsIInv,
     TunnelAuthenticatesIInv
<1>3. CASE Send \/ Respond \/ ExchangeFails
  BY <1>3, SendIInv, RespondIInv, ExchangeFailsIInv
<1>4. CASE Challenge \/ AuthenticatorDeclines \/ Return \/ Drain
  BY <1>4, DecideIInv
<1>5. CASE Authenticated \/ RetryMisdirected \/ RetryStatus \/ RetryError \/ FollowRedirect
  BY <1>5, AuthenticatedIInv, RetryMisdirectedIInv, RetryStatusIInv, RetryErrorIInv,
     FollowRedirectIInv
<1>6. CASE UNCHANGED vars
  <2>1. TypeOK' /\ Stages'
    BY <1>6 DEF vars, IInv, TypeOK, Stages, IsReplayable
  <2>2. AttemptsAreCounted'
    BY <1>6, CountsStand DEF vars, IInv, counters
  <2>3. Addressed' /\ BodyOnce' /\ Holding' /\ QueueMark'
    BY <1>6 DEF vars, IInv, Addressed, CredentialsStayHome, BodyOnce, OneShotSentOnce, Holding,
                QueueMark
  <2> QED
    BY <2>1, <2>2, <2>3 DEF IInv
<1> QED
  BY <1>1, <1>2, <1>3, <1>4, <1>5, <1>6 DEF Next

\* The inductive invariant holds of every reachable state.
THEOREM Invariance == Spec => []IInv
BY InitIInv, NextIInv, PTL DEF Spec

\* Whatever the servers answer, every attempt of a call but the first is counted
\* as a retry, a redirect or an authentication, and each count stays within the
\* limit of its built-in policy (follow_up.rs, the loop of FollowUpPolicyService).
THEOREM AttemptsCounted == Spec => []AttemptsAreCounted
<1>1. IInv => AttemptsAreCounted
  BY DEF IInv
<1> QED
  BY <1>1, Invariance, PTL

\* Credentials are sent to the origin they were made for, however long the chain
\* of redirects, retries and challenges (strip_sensitive_cross_origin_headers).
THEOREM CredentialsHome == Spec => []CredentialsStayHome
<1>1. IInv => CredentialsStayHome
  BY DEF IInv, Addressed
<1> QED
  BY <1>1, Invariance, PTL

\* A call that asks for admission holds no permit, and its dispatcher_queue_end
\* is emitted at most once (drain_intermediate_response, DispatcherQueued).
THEOREM AdmissionClean == Spec => []AdmissionIsClean
<1>1. IInv => AdmissionIsClean
  BY DEF IInv, Holding, QueueMark, AdmissionIsClean, NeverWaitsHolding, QueueEndsOnce
<1> QED
  BY <1>1, Invariance, PTL

\* Every follow-up that comes due is covered by the capture mode chosen for the
\* policies: no policy asks for what a light snapshot has dropped.
LEMMA CaptureCovers == IInv => SnapshotSuffices
<1> SUFFICES ASSUME IInv,
                    \/ pc = "response" /\ CanAuthenticate
                    \/ MisdirectedDue \/ StatusRetryDue \/ RedirectDue \/ ErrorRetryDue
             PROVE  Rebuildable
  BY DEF SnapshotSuffices
<1>1. config \in Client /\ retries \in Nat
  BY ConfigAssumption DEF IInv, TypeOK
<1>2. RequestRetries \in Nat /\ DefaultRetries \in Nat
  BY <1>1 DEF RequestRetries, DefaultRetries, Overridden, Client
<1>3. CASE CanAuthenticate
  BY <1>3 DEF CanAuthenticate, Authenticates, Rebuildable
<1>4. CASE MisdirectedDue
  BY <1>1, <1>2, <1>4 DEF MisdirectedDue, ShouldRetryMisdirected, DefaultRetries, Rebuildable
<1>5. CASE StatusRetryDue
  <2>1. config.customRetry \/ retries < DefaultRetries
    BY <1>5, ZenonT(30) DEF StatusRetryDue, RetriesStatus
  <2> QED
    BY <1>1, <1>2, <2>1 DEF Rebuildable
<1>6. CASE RedirectDue
  BY <1>6 DEF RedirectDue, Redirects, Rebuildable
<1>7. CASE ErrorRetryDue
  <2>1. config.customRetry \/ retries < DefaultRetries
    BY <1>7, ZenonT(30) DEF ErrorRetryDue, RetriesError
  <2> QED
    BY <1>1, <1>2, <2>1 DEF Rebuildable
<1> QED
  BY <1>3, <1>4, <1>5, <1>6, <1>7

\* A follow-up is built from a snapshot that has all of it, and a body that can be
\* read once is never sent twice (SnapshotCaptureMode::for_policy, is_replayable).
THEOREM RebuildSound == Spec => []RebuildIsSound
<1>1. IInv => RebuildIsSound
  BY CaptureCovers DEF IInv, BodyOnce, RebuildIsSound
<1> QED
  BY <1>1, Invariance, PTL
=============================================================================
