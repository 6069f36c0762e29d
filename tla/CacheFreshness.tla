---------------------------- MODULE CacheFreshness ----------------------------
(***************************************************************************)
(* The rules by which the cache interceptor (crates/openwire-cache) decides *)
(* what it may store, how long a response is fresh and whether a stored one *)
(* may answer a request.  They are functions of the response's headers, of  *)
(* the request's directives and of the clock.                               *)
(*                                                                         *)
(* Headers are a record.  A time is None if there is no such header and     *)
(* Unparsable if there is one that is no date.                              *)
(*   cc.present       there is a Cache-Control header; its directives:      *)
(*   cc.noStore, cc.noCache, cc.mustRevalidate                              *)
(*   cc.permit        public or s-maxage                                    *)
(*   cc.maxAge        max-age, None if absent or no number, and cc.twice if *)
(*                    it occurs more than once                              *)
(*   expires, date, lastModified  times; expiresTwice if there are two      *)
(*   age              Age, 0 if absent                                      *)
(*   etag, setCookie  the header is present                                 *)
(*   vary             the request fields that Vary names, in its order, "*" *)
(*                    among them; varies if there is such a header          *)
(* A request's policy is a record with noCache, noStore, onlyIfCached,      *)
(* maxAge, maxStale, minFresh, and auth, its Authorization value.           *)
(***************************************************************************)
EXTENDS Integers, FiniteSets

CONSTANTS NoAuth,        \* a request without Authorization
          Denominator    \* LAST_MODIFIED_HEURISTIC_DENOMINATOR

ASSUME DenominatorAssumption == Denominator \in Nat \ {0}

None == -1        \* an absent time or duration
AnyStale == -2    \* max-stale with no limit
Unparsable == -3  \* a header that is no date
Epoch == 0        \* UNIX_EPOCH

\* parse_http_date_header yields a time.
Parses(t) == t \notin {None, Unparsable}

\* Duration subtraction: never below zero.
Minus(a, b) == IF a > b THEN a - b ELSE 0

Least(a, b) == IF a < b THEN a ELSE b

\* CacheValidators: the headers need only be there.
HasValidators(h) == h.etag \/ h.lastModified # None

-----------------------------------------------------------------------------
(* How long a response is fresh, and how old it is when it is stored.      *)

\* DATE, or the clock when there is none.
DateOr(h, now) == IF Parses(h.date) THEN h.date ELSE now

HeuristicLifetime(h, now) ==
    IF ~Parses(h.lastModified) \/ DateOr(h, now) < h.lastModified THEN 0
    ELSE (DateOr(h, now) - h.lastModified) \div Denominator

\* An Expires that is no date lies in the past.
ExpiresAt(h) == IF Parses(h.expires) THEN h.expires ELSE Epoch

\* response_freshness_lifetime, with zero for no lifetime at all.
FreshnessLifetime(h, now) ==
    CASE h.cc.twice -> 0
      [] ~h.cc.twice /\ h.cc.maxAge # None -> h.cc.maxAge
      [] ~h.cc.twice /\ h.cc.maxAge = None /\ h.expiresTwice -> 0
      [] ~h.cc.twice /\ h.cc.maxAge = None /\ ~h.expiresTwice ->
            IF h.expires # None THEN Minus(ExpiresAt(h), DateOr(h, now))
            ELSE HeuristicLifetime(h, now)

\* response_current_age at the moment of storing.
ResponseCurrentAge(h, now) ==
    LET apparent == IF Parses(h.date) THEN Minus(now, h.date) ELSE 0
    IN IF apparent > h.age THEN apparent ELSE h.age

-----------------------------------------------------------------------------
(* What may be stored.                                                     *)

AllowsAuthorizedStorage(h) == h.cc.permit \/ h.cc.mustRevalidate

ResponseIsStorable(h, status, lifetime, auth) ==
    /\ status = 200
    /\ ~h.setCookie
    /\ ~h.cc.noStore
    /\ auth # NoAuth => AllowsAuthorizedStorage(h)
    /\ h.cc.noCache => HasValidators(h)
    /\ lifetime > 0 \/ HasValidators(h)

-----------------------------------------------------------------------------
(* What may be served.  A stored response e has h, storedAt, initialAge,   *)
(* lifetime, mustValidate and mustRevalidate.                              *)

\* Mutant: a stored response stays as old as it was when it was stored.
AgeWhenStored(e, now) == e.initialAge

CurrentAge(e, now) == e.initialAge + Minus(now, e.storedAt)

EffectiveLifetime(e, policy) ==
    IF policy.maxAge = None THEN e.lifetime ELSE Least(e.lifetime, policy.maxAge)

\* Mutant: a response is fresh up to and including the end of its lifetime.
IsFreshTooLong(e, policy, now) ==
    LET age  == CurrentAge(e, now)
        life == EffectiveLifetime(e, policy)
    IN /\ age <= life
       /\ policy.minFresh # None => age + policy.minFresh <= life

IsFreshFor(e, policy, now) ==
    LET age  == CurrentAge(e, now)
        life == EffectiveLifetime(e, policy)
    IN /\ age < life
       /\ policy.minFresh # None => age + policy.minFresh <= life

IsStaleAcceptableFor(e, policy, now) ==
    /\ ~e.mustRevalidate
    /\ policy.minFresh = None
    /\ policy.maxStale # None
    /\ \/ policy.maxStale = AnyStale
       \/ Minus(CurrentAge(e, now), EffectiveLifetime(e, policy))
             <= policy.maxStale

IsServableFor(e, policy, now) ==
    /\ ~e.mustValidate
    /\ IsFreshFor(e, policy, now) \/ IsStaleAcceptableFor(e, policy, now)

\* RequestCachePolicy::lookup: the request lets a stored response answer.
Lookup(policy) ==
    /\ ~policy.noCache
    /\ policy.maxAge # 0 \/ policy.maxStale # None

-----------------------------------------------------------------------------
(* The headers of a stored response after a 304: Age goes, and every field *)
(* the 304 carries replaces the stored one.                                *)

Merge304(stored, validation) ==
    LET Newer(a, b) == IF b = None THEN a ELSE b
    IN [cc           |-> IF validation.cc.present THEN validation.cc
                         ELSE stored.cc,
        expires      |-> Newer(stored.expires, validation.expires),
        expiresTwice |-> IF validation.expires # None THEN validation.expiresTwice
                         ELSE stored.expiresTwice,
        date         |-> Newer(stored.date, validation.date),
        lastModified |-> Newer(stored.lastModified, validation.lastModified),
        age          |-> validation.age,
        etag         |-> stored.etag \/ validation.etag,
        setCookie    |-> stored.setCookie \/ validation.setCookie,
        vary         |-> IF validation.varies THEN validation.vary
                         ELSE stored.vary,
        varies       |-> stored.varies \/ validation.varies]
=============================================================================
