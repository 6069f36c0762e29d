---------------------------- MODULE ResponseCache ----------------------------
(***************************************************************************)
(* The cache interceptor and its in-memory store (crates/openwire-cache),   *)
(* used by several calls at once.  CacheInterceptor::intercept awaits the   *)
(* store, the rest of the chain and the response's body; each await is a    *)
(* place where other calls run, and each store operation is one step under  *)
(* the store's lock.                                                        *)
(*                                                                         *)
(* The origin is external.  It keeps a version of every resource, raised by *)
(* an unsafe request, and answers a GET with the headers it likes; it       *)
(* answers 304 only when the version asked about is the current one.        *)
(***************************************************************************)
EXTENDS CacheFreshness, Sequences, SequencesExt, FiniteSetsExt

CONSTANTS
    Keys,        \* URIs, after normalize_cache_uri
    Host,        \* Host[k], the host of a URI
    Callers,     \* concurrent users of the client
    Scenario     \* by name: how the client is set up and used, see below

ASSUME ScenarioAssumption ==
    \A s \in DOMAIN Scenario : /\ Scenario[s].maxEntries \in Nat \ {0}
                               /\ Scenario[s].maxBodyBytes \in Nat
                               /\ Scenario[s].callers \subseteq Callers

VARIABLES
    scenario, \* which one it is: never changes
    store,    \* the candidates of every key, in the order of the Vec
    now,      \* the clock
    version,  \* the origin's current version of every resource
    calls,    \* calls made so far
    pc, req, entry, answer, todo,   \* the state of each caller's call
    result,   \* how each caller's last call ended
    num,      \* history: the number of each caller's call
    doomed,   \* history: what was stored when an unsafe call was answered
    purged,   \* history: the same, for the unsafe calls that have returned
    known,    \* history: purged, when the caller's call began
    revived   \* history: what a 304 under way put back after an unsafe call

\* The requests that the active callers make, the headers the origin gives with
\* the size of the body, the limits of MemoryCacheStore, and two bounds: the
\* time that passes and the calls made.
Requests == Scenario[scenario].requests
Answers == Scenario[scenario].answers
MaxEntries == Scenario[scenario].maxEntries
MaxBodyBytes == Scenario[scenario].maxBodyBytes
MaxTime == Scenario[scenario].maxTime
MaxCalls == Scenario[scenario].maxCalls

vars == <<scenario, store, now, version, calls, pc, req, entry, answer, todo, result,
          num, doomed, purged, known, revived>>

local == <<req, entry, answer, todo>>
history == <<num, doomed, purged, known, revived>>

NoEntry == [version |-> None]
NoResult == [kind |-> "none"]

Cacheable(r) == r.method = "GET"
Unsafe(r) == r.method = "PUT"
Authorized(r) == r.auth # NoAuth

Init ==
    /\ scenario \in DOMAIN Scenario
    /\ store = [k \in Keys |-> <<>>]
    /\ now = 1
    /\ version = [k \in Keys |-> 0]
    /\ calls = 0
    /\ pc = [c \in Callers |-> "idle"]
    /\ req \in [Callers -> {CHOOSE r \in Requests : TRUE}]
    /\ entry = [c \in Callers |-> NoEntry]
    /\ answer = [c \in Callers |-> NoEntry]
    /\ todo = [c \in Callers |-> <<>>]
    /\ result = [c \in Callers |-> NoResult]
    /\ num = [c \in Callers |-> 0]
    /\ doomed = [c \in Callers |-> {}]
    /\ purged = {}
    /\ known = [c \in Callers |-> {}]
    /\ revived = {}

-----------------------------------------------------------------------------
(* Variants.                                                               *)

\* CapturedVary is a list of fields, each with the request's value of it.
Tracks(vary, f) == \E i \in DOMAIN vary : vary[i].field = f

\* include_request_header: in the place the field has, or at the end.
Include(vary, f, r) ==
    LET new == [field |-> f, value |-> r[f]]
    IN IF Tracks(vary, f)
       THEN [i \in DOMAIN vary |-> IF vary[i].field = f THEN new ELSE vary[i]]
       ELSE Append(vary, new)

\* CapturedVary::capture: each field that Vary names, once, in its order.
Capture(fields, r) ==
    FoldLeft(LAMBDA vary, f : IF Tracks(vary, f) THEN vary
                              ELSE Append(vary, [field |-> f, value |-> r[f]]),
             <<>>, fields)

MatchesRequest(e, r) ==
    /\ Authorized(r) => Tracks(e.vary, "auth")
    /\ \A i \in DOMAIN e.vary : r[e.vary[i].field] = e.vary[i].value

\* same_variant_as: the lists are equal, the order of their fields included.
SameVariant(e, f) == e.vary = f.vary

-----------------------------------------------------------------------------
(* MemoryCacheStore.                                                       *)

Bytes(s, keys) ==
    MapThenSumSet(LAMBDA k :
        MapThenSumSet(LAMBDA i : s[k][i].size, DOMAIN s[k]), keys)

Present(s) == {k \in Keys : s[k] # <<>>}

Within(s, keys) == /\ Cardinality(keys) <= MaxEntries
                   /\ Bytes(s, keys) <= MaxBodyBytes

\* Mutant: only the number of keys is limited.
EnforceEntriesOnly(s) ==
    {[k \in Keys |-> IF k \in kept THEN s[k] ELSE <<>>] :
       kept \in {K \in SUBSET Present(s) :
                    /\ Cardinality(K) <= MaxEntries
                    /\ \/ K = Present(s)
                       \/ \E d \in Present(s) \ K :
                             Cardinality(K \cup {d}) > MaxEntries}}

\* enforce_limits takes keys out in the map's own order, which is any order,
\* for as long as the store is over a limit.
EnforceLimits(s) ==
    {[k \in Keys |-> IF k \in kept THEN s[k] ELSE <<>>] :
       kept \in {K \in SUBSET Present(s) :
                    /\ Within(s, K)
                    /\ \/ K = Present(s)
                       \/ \E d \in Present(s) \ K : ~Within(s, K \cup {d})}}

\* put_candidate: the stores it may leave.
PutCandidate(k, e) ==
    IF e.size > MaxBodyBytes THEN {store}
    ELSE LET same == {i \in DOMAIN store[k] : SameVariant(store[k][i], e)}
         IN EnforceLimits(
              [store EXCEPT ![k] = IF same = {} THEN Append(@, e)
                                   ELSE [@ EXCEPT ![Min(same)] = e]])

RemoveCandidate(k, e) ==
    [store EXCEPT ![k] = SelectSeq(@, LAMBDA f : ~SameVariant(e, f))]

RemoveKey(k) == [store EXCEPT ![k] = <<>>]

-----------------------------------------------------------------------------
Return(c, res) ==
    /\ pc' = [pc EXCEPT ![c] = "done"]
    /\ result' = [result EXCEPT ![c] = res]

Goto(c, label) ==
    /\ pc' = [pc EXCEPT ![c] = label]
    /\ UNCHANGED result

\* A caller makes its next call.
Call(c) ==
    /\ pc[c] \in {"idle", "done"} /\ calls < MaxCalls
    /\ c \in Scenario[scenario].callers
    /\ calls' = calls + 1
    /\ pc' = [pc EXCEPT ![c] = "lookup"]
    /\ result' = [result EXCEPT ![c] = NoResult]
    /\ \E r \in Requests : req' = [req EXCEPT ![c] = r]
    /\ num' = [num EXCEPT ![c] = calls']
    /\ known' = [known EXCEPT ![c] = purged]
    /\ entry' = [entry EXCEPT ![c] = NoEntry]
    /\ answer' = [answer EXCEPT ![c] = NoEntry]
    /\ todo' = [todo EXCEPT ![c] = <<>>]
    /\ UNCHANGED <<store, now, version, doomed, purged, revived>>

\* The candidates, newest position first; the first that matches decides.
Matching(c) ==
    {i \in DOMAIN store[req[c].key] : MatchesRequest(store[req[c].key][i], req[c])}

CanRevalidate(e, r) == ~r.conditional /\ HasValidators(e.h)

Look(c) ==
    LET r == req[c]
        found == IF Cacheable(r) THEN Matching(c) ELSE {}
        e == store[r.key][Max(found)]
        servable == found # {} /\ Lookup(r) /\ IsServableFor(e, r, now)
    IN
    /\ pc[c] = "lookup"
    /\ \/ /\ servable
          /\ Return(c, [kind |-> "hit", entry |-> e, at |-> now])
          /\ UNCHANGED entry
       \/ /\ ~servable
          /\ Cacheable(r) /\ r.onlyIfCached
          /\ Return(c, [kind |-> "unsatisfied"])
          /\ UNCHANGED entry
       \/ /\ ~servable
          /\ ~(Cacheable(r) /\ r.onlyIfCached)
          /\ Goto(c, "fetch")
          /\ entry' = [entry EXCEPT ![c] =
                IF found # {} /\ CanRevalidate(e, r) THEN e ELSE NoEntry]
    /\ UNCHANGED <<store, now, version, calls, req, answer, todo, history>>

-----------------------------------------------------------------------------
(* The rest of the chain.                                                  *)

\* The origin handles the request, some time before its response is read.
OriginAnswers(c) ==
    LET r == req[c]
        v == IF Unsafe(r) THEN version[r.key] + 1 ELSE version[r.key]
    IN
    /\ pc[c] = "fetch"
    /\ \E a \in Answers :
         \E status \in IF Unsafe(r) THEN {200, 500}
                       ELSE IF entry[c] # NoEntry /\ entry[c].version = v
                            THEN {200, 304, 500} ELSE {200, 500} :
           /\ answer' = [answer EXCEPT ![c] =
                 [status |-> status, version |-> v, made |-> now - a.h.age,
                  h |-> [a.h EXCEPT !.date = IF Parses(@) THEN now - a.h.age ELSE @],
                  lifetime |-> 0, size |-> a.size, also |-> a.also]]
           /\ version' = [version EXCEPT ![r.key] =
                             IF status = 500 THEN @ ELSE v]
    /\ Goto(c, "answered")
    /\ UNCHANGED <<store, now, calls, req, entry, todo, history>>

FetchFails(c) ==
    /\ pc[c] = "fetch"
    /\ Return(c, [kind |-> "error"])
    /\ UNCHANGED <<store, now, version, calls, local, history>>

-----------------------------------------------------------------------------
(* What is done with the response.                                         *)

\* Mutant: only the target of the request is invalidated.
InvalidationKeysTarget(r, a) == <<r.key>>

InvalidationKeys(r, a) ==
    <<r.key>> \o SetToSeq({k \in a.also : Host[k] = Host[r.key]} \ {r.key})

FromOrigin(c) == [kind |-> "origin", version |-> answer[c].version]

\* CapturedVary::capture fails on "*".
Star(h) == Contains(h.vary, "*")

\* By the clock when the headers arrive, not when the body has been read.
Lifetime(c) == FreshnessLifetime(answer[c].h, now)

Storable(c) ==
    /\ ResponseIsStorable(answer[c].h, answer[c].status, Lifetime(c), req[c].auth)
    /\ ~Star(answer[c].h)

\* Up to the first await after the chain's answer.
Receive(c) ==
    LET r == req[c]
        a == answer[c]
    IN
    /\ pc[c] = "answered"
    /\ \/ /\ Unsafe(r) /\ a.status # 500
          /\ todo' = [todo EXCEPT ![c] = InvalidationKeys(r, a)]
          /\ doomed' = [doomed EXCEPT ![c] =
                {store[k][i].id : <<k, i>> \in {x \in Keys \X (1..MaxCalls) :
                    /\ x[2] \in DOMAIN store[x[1]]
                    /\ x[1] = r.key \/ (x[1] \in a.also /\ Host[x[1]] = Host[r.key])}}]
          /\ Goto(c, "invalidate")
          /\ UNCHANGED answer
       \/ /\ ~Cacheable(r) /\ ~(Unsafe(r) /\ a.status # 500)
          /\ Return(c, FromOrigin(c))
          /\ UNCHANGED <<answer, todo, doomed>>
       \/ /\ Cacheable(r)
          /\ \/ /\ entry[c] # NoEntry /\ a.status = 304
                /\ Goto(c, "body304") /\ UNCHANGED answer
             \/ /\ ~(entry[c] # NoEntry /\ a.status = 304)
                /\ \/ r.noStore /\ Return(c, FromOrigin(c)) /\ UNCHANGED answer
                   \/ /\ ~r.noStore /\ Storable(c)
                      /\ answer' = [answer EXCEPT ![c].lifetime = Lifetime(c)]
                      /\ Goto(c, "body")
                   \/ /\ ~r.noStore /\ ~Storable(c)
                      /\ IF a.h.cc.noStore \/ a.status = 200
                         THEN Goto(c, "unusable")
                         ELSE Return(c, FromOrigin(c))
                      /\ UNCHANGED answer
          /\ UNCHANGED <<todo, doomed>>
    /\ UNCHANGED <<store, now, version, calls, req, entry, num, purged, known, revived>>

\* The invalidations of an unsafe request, one store operation each.
Invalidate(c) ==
    /\ pc[c] = "invalidate"
    /\ store' = RemoveKey(Head(todo[c]))
    /\ todo' = [todo EXCEPT ![c] = Tail(@)]
    /\ IF Len(todo[c]) = 1
       THEN Return(c, FromOrigin(c)) /\ purged' = purged \cup doomed[c]
       ELSE Goto(c, "invalidate") /\ UNCHANGED purged
    /\ UNCHANGED <<now, version, calls, req, entry, answer, num, doomed, known,
                   revived>>

\* remove_unusable_candidate: the whole key, or the candidates that a request
\* with credentials matches, which are looked up in a step of their own.
RemoveUnusable(c) ==
    LET r == req[c]
        k == r.key
    IN
    /\ pc[c] = "unusable"
    /\ \/ /\ ~Authorized(r)
          /\ store' = RemoveKey(k)
          /\ Return(c, FromOrigin(c))
          /\ UNCHANGED todo
       \/ /\ Authorized(r) /\ entry[c] # NoEntry
          /\ store' = RemoveCandidate(k, entry[c])
          /\ Return(c, FromOrigin(c))
          /\ UNCHANGED todo
       \/ /\ Authorized(r) /\ entry[c] = NoEntry
          /\ LET matches == SelectSeq(store[k], LAMBDA e : MatchesRequest(e, r))
             IN IF matches = <<>> THEN Return(c, FromOrigin(c)) /\ UNCHANGED todo
                ELSE /\ Goto(c, "removing")
                     /\ todo' = [todo EXCEPT ![c] = matches]
          /\ UNCHANGED store
    /\ UNCHANGED <<now, version, calls, req, entry, answer, history>>

RemoveMatching(c) ==
    /\ pc[c] = "removing"
    /\ store' = RemoveCandidate(req[c].key, Head(todo[c]))
    /\ todo' = [todo EXCEPT ![c] = Tail(@)]
    /\ IF Len(todo[c]) = 1 THEN Return(c, FromOrigin(c)) ELSE Goto(c, "removing")
    /\ UNCHANGED <<now, version, calls, req, entry, answer, history>>

BodyFails(c) ==
    /\ pc[c] \in {"body", "body304"}
    /\ Return(c, [kind |-> "error"])
    /\ UNCHANGED <<store, now, version, calls, local, history>>

\* CachedResponse::new_with_vary.  The fields id, for and made are history: the
\* call whose 200 it was, the request that put it there, and when the origin
\* made or confirmed it.
NewEntry(r, h, lifetime, vary, v, size, id, made) ==
    [version |-> v, h |-> h, size |-> size, vary |-> vary,
     storedAt |-> now, initialAge |-> ResponseCurrentAge(h, now),
     lifetime |-> lifetime,
     mustValidate |-> h.cc.noCache, mustRevalidate |-> h.cc.mustRevalidate,
     id |-> id, for |-> r, made |-> made]

VaryOf(c) ==
    LET captured == Capture(answer[c].h.vary, req[c])
    IN IF Authorized(req[c]) THEN Include(captured, "auth", req[c]) ELSE captured

\* A 200 whose body has been read.
StoreResponse(c) ==
    LET r == req[c]
        a == answer[c]
        e == NewEntry(r, a.h, a.lifetime, VaryOf(c), a.version, a.size,
                      num[c], a.made)
    IN
    /\ pc[c] = "body"
    /\ store' \in PutCandidate(r.key, e)
    /\ Return(c, FromOrigin(c))
    /\ UNCHANGED <<now, version, calls, local, history>>

StillStorable(h, status, lifetime, auth) ==
    ~Star(h) /\ ResponseIsStorable(h, status, lifetime, auth)

\* A 304 whose body has been read: freshen_from_not_modified, the store, and
\* the stored body as the answer.
Freshen(c) ==
    LET r == req[c]
        old == entry[c]
        h == Merge304(old.h, answer[c].h)
        life == FreshnessLifetime(h, now)
        vary == IF Star(h) THEN <<>>
                ELSE IF Tracks(old.vary, "auth")
                THEN Include(Capture(h.vary, r), "auth", r)
                ELSE Capture(h.vary, r)
        e == NewEntry(r, h, life, vary, old.version, old.size, old.id,
                      IF Parses(answer[c].h.date) THEN answer[c].made ELSE old.made)
        gone == UNION {doomed[d] : d \in Callers} \cup purged
    IN
    /\ pc[c] = "body304"
    /\ IF StillStorable(h, 200, life, r.auth)
       THEN /\ store' \in PutCandidate(r.key, e)
            /\ revived' = revived \cup (({old.id} \cap gone) \ known[c])
       ELSE store' = RemoveCandidate(r.key, old) /\ UNCHANGED revived
    /\ Return(c, [kind |-> "validated", entry |-> e, at |-> now])
    /\ UNCHANGED <<now, version, calls, local, num, doomed, purged, known>>

-----------------------------------------------------------------------------
Tick ==
    /\ now < MaxTime
    /\ now' = now + 1
    /\ UNCHANGED <<store, version, calls, pc, local, result, history>>

Step(c) ==
    \/ Call(c) \/ Look(c) \/ OriginAnswers(c) \/ FetchFails(c)
    \/ Receive(c) \/ Invalidate(c) \/ RemoveUnusable(c) \/ RemoveMatching(c)
    \/ BodyFails(c) \/ StoreResponse(c) \/ Freshen(c)

Next == (Tick \/ \E c \in Callers : Step(c)) /\ UNCHANGED scenario

Spec == Init /\ [][Next]_vars

-----------------------------------------------------------------------------
Stored == UNION {{k} \X DOMAIN store[k] : k \in Keys}

Kinds == {"none", "hit", "unsatisfied", "origin", "validated", "error"}

TypeOK ==
    /\ \A k \in Keys : Len(store[k]) <= MaxCalls
    /\ now \in 1..MaxTime /\ calls \in 0..MaxCalls
    /\ version \in [Keys -> 0..MaxCalls]
    /\ pc \in [Callers -> {"idle", "lookup", "fetch", "answered", "invalidate",
                           "unusable", "removing", "body", "body304", "done"}]
    /\ req \in [Callers -> Requests]
    /\ \A c \in Callers : result[c].kind \in Kinds
    /\ \A x \in Stored : LET e == store[x[1]][x[2]] IN
          e.storedAt \in 1..now /\ e.initialAge \in Nat /\ e.lifetime \in Nat
          /\ e.version \in 0..version[x[1]]

FromStore(c) == result[c].kind \in {"hit", "validated"}

\* A stored response answers a request only if the request that put it there
\* carried the same credentials and, where the response says that it varies by
\* language, the same language: also after other variants, other credentials
\* and revalidations of the same URI.
AnswersItsVariant ==
    \A c \in Callers : FromStore(c) =>
        LET e == result[c].entry IN
        /\ e.for.auth = req[c].auth
        /\ Contains(e.h.vary, "lang") => e.for.lang = req[c].lang

\* A response served without asking the origin was made, or confirmed, by the
\* origin no longer ago than the max-age it declared and the request's own
\* max-age allow, its time on the network included; or it is stale by no more
\* than the request accepts and must not be revalidated.
HitIsFresh ==
    \A c \in Callers : result[c].kind = "hit" =>
        LET e   == result[c].entry
            r   == req[c]
            end == e.made + (IF r.maxAge = None THEN e.h.cc.maxAge
                             ELSE Least(e.h.cc.maxAge, r.maxAge))
        IN Parses(e.h.date) /\ e.h.cc.maxAge # None /\ ~e.h.cc.twice =>
             \/ result[c].at < end /\
                (r.minFresh # None => result[c].at + r.minFresh <= end)
             \/ /\ ~e.h.cc.mustRevalidate /\ r.minFresh = None
                /\ \/ r.maxStale = AnyStale
                   \/ r.maxStale # None /\ result[c].at <= end + r.maxStale

\* Nothing in the store is forbidden to be there by the response's own
\* headers as they now read, the changes a 304 made to them included: no
\* no-store, no cookies, no Vary: *, no answer to a request with credentials
\* without permission, and nothing that could neither be served nor validated.
StoredWasAllowed ==
    \A x \in Stored :
        LET e == store[x[1]][x[2]] IN
        /\ ~e.h.cc.noStore /\ ~e.h.setCookie /\ ~Contains(e.h.vary, "*")
        /\ e.for.auth # NoAuth => e.h.cc.permit \/ e.h.cc.mustRevalidate
        /\ e.mustValidate \/ e.lifetime = 0 => HasValidators(e.h)

\* A key holds at most one response for each list of fields and values, in any
\* order of stores, replacements and revalidations.  The same fields in another
\* order are another list: of two such responses both are kept.
OneEntryPerVariant ==
    \A k \in Keys : \A i, j \in DOMAIN store[k] :
        i # j => ~SameVariant(store[k][i], store[k][j])

\* The store is never over its limits, whichever keys it chose to give up.
StoreWithinLimits ==
    /\ Cardinality(Present(store)) <= MaxEntries
    /\ Bytes(store, Keys) <= MaxBodyBytes

\* What was stored for a URI when an unsafe request's answer arrived, for its
\* target or for a URI of the same host that the answer names, is served to no
\* call begun after the unsafe one returned, whatever calls overlapped it; with
\* one exception: a GET that looked it up before then, and was told 304, puts it
\* back.
InvalidationHolds ==
    \A c \in Callers : result[c].kind = "hit" =>
        result[c].entry.id \notin known[c] \ revived

\* A response from the store is one the request may have, and fresh enough.
HitIsRight == AnswersItsVariant /\ HitIsFresh

\* The store holds what may be stored, once, within its limits.
StoreIsSound == TypeOK /\ StoredWasAllowed /\ OneEntryPerVariant /\ StoreWithinLimits
=============================================================================
