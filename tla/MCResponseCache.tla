--------------------------- MODULE MCResponseCache ---------------------------
(***************************************************************************)
(* Requests, answers and limits for checking ResponseCache.                *)
(***************************************************************************)
EXTENDS ResponseCache

CONSTANTS k1, k2, alice, c1, c2

MCHost == [k \in Keys |-> "host"]

Plain == [method |-> "GET", key |-> k1, auth |-> NoAuth, lang |-> "en",
          conditional |-> FALSE, noCache |-> FALSE, noStore |-> FALSE,
          onlyIfCached |-> FALSE, maxAge |-> None, maxStale |-> None,
          minFresh |-> None]

CC == [present |-> TRUE, noStore |-> FALSE, noCache |-> FALSE,
       mustRevalidate |-> FALSE, permit |-> FALSE, maxAge |-> 2,
       twice |-> FALSE]

NoCC == [CC EXCEPT !.present = FALSE, !.maxAge = None]

\* A date other than None stands for the origin's clock.
Headers == [cc |-> CC, expires |-> None, expiresTwice |-> FALSE, date |-> 0,
            lastModified |-> None, age |-> 0, etag |-> TRUE,
            setCookie |-> FALSE, vary |-> <<>>, varies |-> FALSE]

Answer(h) == [h |-> h, size |-> 1, also |-> {}]

-----------------------------------------------------------------------------
(* Reuse: variants, credentials and the directives of requests.            *)

ReuseRequests ==
    {Plain,
     [Plain EXCEPT !.lang = "fr"],
     [Plain EXCEPT !.method = "HEAD"],
     [Plain EXCEPT !.auth = alice],
     [Plain EXCEPT !.onlyIfCached = TRUE],
     [Plain EXCEPT !.noStore = TRUE]}

ReuseAnswers ==
    {Answer(Headers),
     Answer([Headers EXCEPT !.cc.maxAge = 1, !.cc.mustRevalidate = TRUE, !.age = 1]),
     Answer([Headers EXCEPT !.cc = NoCC, !.date = None, !.vary = <<"lang">>,
                            !.varies = TRUE]),
     Answer([Headers EXCEPT !.cc.permit = TRUE, !.etag = FALSE, !.vary = <<"lang">>,
                            !.varies = TRUE]),
     Answer([Headers EXCEPT !.cc.permit = TRUE, !.vary = <<"auth", "lang", "auth">>,
                            !.varies = TRUE])}

-----------------------------------------------------------------------------
(* Aging: the clock runs past every limit of responses and requests.       *)

AgingRequests ==
    {Plain,
     [Plain EXCEPT !.maxAge = 1],
     [Plain EXCEPT !.maxStale = 1],
     [Plain EXCEPT !.maxStale = 1, !.maxAge = 1],
     [Plain EXCEPT !.maxStale = AnyStale],
     [Plain EXCEPT !.minFresh = 1]}

AgingAnswers ==
    {Answer(Headers),
     Answer([Headers EXCEPT !.cc.maxAge = 3, !.age = 1]),
     Answer([Headers EXCEPT !.cc.mustRevalidate = TRUE, !.etag = FALSE,
                            !.lastModified = Unparsable]),
     Answer([Headers EXCEPT !.cc = NoCC, !.date = Unparsable, !.expires = 3])}

-----------------------------------------------------------------------------
(* Refusals: what must not be stored, and a 304 that says so later.        *)

RefusalRequests ==
    {Plain, [Plain EXCEPT !.auth = alice], [Plain EXCEPT !.conditional = TRUE]}

RefusalAnswers ==
    {Answer([Headers EXCEPT !.cc.maxAge = 0, !.cc.permit = TRUE]),
     Answer([Headers EXCEPT !.cc.noStore = TRUE]),
     Answer([Headers EXCEPT !.setCookie = TRUE]),
     Answer([Headers EXCEPT !.vary = <<"*">>, !.varies = TRUE]),
     Answer([Headers EXCEPT !.cc = NoCC, !.expires = Unparsable]),
     Answer([Headers EXCEPT !.etag = FALSE, !.cc.maxAge = 0])}

\* The same while another call is under way.
RacingRequests == {Plain, [Plain EXCEPT !.auth = alice]}

RacingAnswers ==
    {Answer([Headers EXCEPT !.cc.maxAge = 0, !.cc.permit = TRUE]),
     Answer([Headers EXCEPT !.cc.noStore = TRUE]),
     Answer([Headers EXCEPT !.vary = <<"*">>, !.varies = TRUE])}

-----------------------------------------------------------------------------
(* Writes: two resources of one host, and bodies that fill the store.      *)

WriteRequests ==
    {Plain,
     [Plain EXCEPT !.noCache = TRUE],
     [Plain EXCEPT !.key = k2],
     [Plain EXCEPT !.method = "PUT"]}

WriteAnswers == {[Answer(Headers) EXCEPT !.also = {k2}]}

FullRequests == {Plain, [Plain EXCEPT !.key = k2], [Plain EXCEPT !.lang = "fr"]}

FullAnswers ==
    {[h |-> [Headers EXCEPT !.vary = <<"lang">>, !.varies = TRUE], size |-> n,
      also |-> {}] : n \in {1, 2, 3}}

-----------------------------------------------------------------------------
MCScenario ==
    [reuse |-> [requests |-> ReuseRequests, answers |-> ReuseAnswers, callers |-> {c1},
                maxEntries |-> 1, maxBodyBytes |-> 8, maxTime |-> 2, maxCalls |-> 3],
     aging |-> [requests |-> AgingRequests, answers |-> AgingAnswers, callers |-> {c1},
                maxEntries |-> 1, maxBodyBytes |-> 8, maxTime |-> 4, maxCalls |-> 3],
     refusals |-> [requests |-> RefusalRequests, answers |-> RefusalAnswers,
                   callers |-> {c1},
                   maxEntries |-> 1, maxBodyBytes |-> 8, maxTime |-> 1, maxCalls |-> 4],
     racing |-> [requests |-> RacingRequests, answers |-> RacingAnswers,
                 callers |-> {c1, c2},
                 maxEntries |-> 1, maxBodyBytes |-> 8, maxTime |-> 1, maxCalls |-> 3],
     writes |-> [requests |-> WriteRequests, answers |-> WriteAnswers,
                 callers |-> {c1, c2},
                 maxEntries |-> 2, maxBodyBytes |-> 8, maxTime |-> 1, maxCalls |-> 4],
     limits |-> [requests |-> FullRequests, answers |-> FullAnswers,
                 callers |-> {c1, c2},
                 maxEntries |-> 1, maxBodyBytes |-> 3, maxTime |-> 1, maxCalls |-> 3]]
=============================================================================
