----------------------------- MODULE MCFollowUp -----------------------------
(***************************************************************************)
(* Instances of FollowUp for TLC.                                          *)
(***************************************************************************)
EXTENDS FollowUp

CONSTANTS o1, o2, p1

\* Two origins without a proxy, the first of them https.
NoProxy == [o \in Origin |-> <<Direct>>]

\* Both origins behind one proxy; only the second may also be reached directly.
OneProxy == (o1 :> <<p1>>) @@ (o2 :> <<p1, Direct>>)

\* The built-in and custom policies with the call's overrides, when they override:
\* every combination of the built-in ones, and beside a custom policy, which ignores
\* the override of its own kind, one override at a time.  retry_non_idempotent
\* belongs to the built-in policy and matters when that retries.
EveryConfig ==
  {c \in [customRetry : BOOLEAN, maxRetries : 0 .. 1, retryOption : {None, 0, 1},
          customRedirect : BOOLEAN, follow : BOOLEAN, followOption : {None, TRUE, FALSE},
          authenticates : BOOLEAN, proxyAuthenticates : {FALSE},
          nonIdempotent : BOOLEAN, onConnectionFailure : {TRUE}, insecure : {FALSE},
          selection : {NoProxy}, maxRedirects : {1}] :
     /\ c.nonIdempotent => ~c.customRetry /\ 1 \in {c.maxRetries, c.retryOption}
     /\ c.customRetry \/ c.customRedirect => None \in {c.retryOption, c.followOption}
     /\ c.retryOption # c.maxRetries
     /\ c.followOption # c.follow}

\* The built-in policies, with both authenticators.
Authenticating ==
  [customRetry : {FALSE}, maxRetries : {1}, retryOption : {None},
   customRedirect : {FALSE}, follow : {TRUE}, followOption : {None},
   authenticates : {TRUE}, proxyAuthenticates : {TRUE},
   nonIdempotent : {FALSE}, onConnectionFailure : BOOLEAN, insecure : BOOLEAN,
   selection : {OneProxy}, maxRedirects : {2}]

Clients == EveryConfig \cup Authenticating
=============================================================================
