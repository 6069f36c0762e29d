------------------------------- MODULE MCRules -------------------------------
(***************************************************************************)
(* The client's pure rules, each over every input of a small set: a state   *)
(* is a rule and one input of it.  The rules of the cache's freshness also  *)
(* look at the clock, which advances.                                       *)
(***************************************************************************)
EXTENDS CacheFreshness, RouteOrder, Coalescing, Proxying, HeaderRules

CONSTANTS MaxAddrs,            \* the longest answer of the resolver
          StoredAt, MaxTime    \* a response is stored, and asked for until

VARIABLES rule,   \* the rule at hand
          x       \* its input

vars == <<rule, x>>

-----------------------------------------------------------------------------
(* Freshness: a stored response e, a request's policy and the time.        *)

MCHeaders ==
    [cc : [maxAge : {None, 0, 2, 3}, twice : BOOLEAN],
     expires : {None, Unparsable, 5, 6}, expiresTwice : BOOLEAN,
     date : {None, Unparsable, 2, 4}, lastModified : {None, Unparsable, 0, 1}, age : {0, 2}]

Policies ==
    [maxAge : {None, 1, 3}, minFresh : {None, 1}, maxStale : {None, AnyStale, 1}]

\* The stored responses, by what decides their freshness: the lifetime is computed
\* when the headers have come, the age when the body has been read, later.
MCEntries ==
    {[h |-> h, storedAt |-> StoredAt, mustValidate |-> FALSE, mustRevalidate |-> must,
      initialAge |-> ResponseCurrentAge(h, StoredAt),
      receivedAt |-> StoredAt - reading,
      lifetime |-> FreshnessLifetime(h, StoredAt - reading)] :
        h \in {g \in MCHeaders : /\ g.cc.twice => g.cc.maxAge # None
                                 /\ g.expiresTwice => g.expires # None},
        must \in BOOLEAN, reading \in {0, 2}}

FreshnessInputs == [e : MCEntries, policy : Policies, now : {StoredAt}]

Tick ==
    /\ rule = "freshness" /\ x.now < MaxTime
    /\ x' = [x EXCEPT !.now = @ + 1] /\ UNCHANGED rule

\* The moment a response ceases to be fresh, put as moments of the clock: the
\* date plus max-age, the time of Expires, or the date plus a share of the
\* time since the last modification; twice the same field, or an Expires that
\* is no date, means never fresh.  Without a date a response counts as made
\* when its headers came, and the time its body took is not counted.
Made == IF Parses(x.e.h.date) THEN x.e.h.date ELSE x.e.receivedAt

Uncounted == IF Parses(x.e.h.date) THEN 0 ELSE StoredAt - x.e.receivedAt

InTime(slack) ==
    LET h == x.e.h
        now == x.now - Uncounted
    IN
    /\ x.policy.maxAge # None => now < Made + x.policy.maxAge + slack
    /\ CASE h.cc.twice -> now < Made + slack
         [] ~h.cc.twice /\ h.cc.maxAge # None -> now < Made + h.cc.maxAge + slack
         [] h.cc.maxAge = None /\ h.expiresTwice -> now < Made + slack
         [] h.cc.maxAge = None /\ ~h.expiresTwice /\ h.expires # None ->
               now < Made + slack \/ (Parses(h.expires) /\ now < h.expires + slack)
         [] OTHER -> \/ now < Made + slack
                     \/ /\ Parses(h.lastModified)
                        /\ Denominator * (now - Made - slack) < Made - h.lastModified

\* A response is served only before the moment that its headers and the
\* request's max-age set, put back by the staleness the request accepts and
\* not at all when it must be revalidated.  One without a date is served later
\* than that by at most the time that its body took to arrive (is_servable_for,
\* against the precedence of max-age, Expires and the heuristic in absolute times).
ServedInTime ==
    rule = "freshness" /\ IsServableFor(x.e, x.policy, x.now) =>
        \/ InTime(0)
        \/ /\ ~x.e.mustRevalidate /\ x.policy.minFresh = None
           /\ x.policy.maxStale = AnyStale \/
              (x.policy.maxStale # None /\ InTime(x.policy.maxStale + 1))

\* Asking for fresher responses admits nothing that was not admitted without
\* asking, and accepting stale ones refuses nothing (is_fresh_for and
\* is_stale_acceptable_for taken together).
StricterServesLess ==
    rule = "freshness" =>
        LET Served(policy) == IsServableFor(x.e, policy, x.now) IN
        /\ Served(x.policy) => Served([x.policy EXCEPT !.maxAge = None, !.minFresh = None])
        /\ Served([x.policy EXCEPT !.maxStale = None]) => Served(x.policy)

\* The freshness rules, in both directions.
FreshnessIsSound == ServedInTime /\ StricterServesLess

-----------------------------------------------------------------------------
(* The order of routes: an answer of the resolver.                         *)

\* Where the i-th address of a family belongs when the families take turns from
\* IPv6 on and the longer one fills what is left.
Position(f, i) ==
    i + Least(IF f = "Ipv6" THEN i - 1 ELSE i, Len(Of(OtherFamily(f), x)))

\* order_for_fast_fallback places every address of the answer once, each family
\* in the resolver's order, the families alternating from IPv6 until one runs
\* out.
OrderedAsPromised ==
    rule = "route order" =>
        LET ordered == OrderForFastFallback(x) IN
        /\ Len(ordered) = Len(x)
        /\ \A f \in Family : \A i \in DOMAIN Of(f, x) :
             ordered[Position(f, i)] = Of(f, x)[i]

-----------------------------------------------------------------------------
(* Coalescing: a connection, a request for another authority and the        *)
(* targets that its name resolved to.                                       *)

HostNames == {<<"ex">>, <<"a", "ex">>, <<"b", "ex">>, <<"b", "a", "ex">>}

Targets == {"t1", "t2"}

MCAddresses ==
    [scheme : {"http", "https"}, host : HostNames, port : {443, 444}, proxied : BOOLEAN,
     policy : {"Http1OrHttp2", "Http1Only"}]

CoalescingInputs ==
    [connection : [protocol : {"Http1", "Http2"}, target : {"t1"},
                   address : {a \in MCAddresses : a.port = 443 /\ a.policy = "Http1OrHttp2"},
                   names : {{}, {<<"*", "ex">>}, {<<"*", "a", "ex">>, <<"b", "ex">>}, {<<"ex">>}}],
     request : MCAddresses, targets : {{}, {"t2"}, Targets}]

\* A stream of a connection goes to a request for another authority only when the
\* server proved the name of that authority, label by label, on the same port, when
\* both are direct and one of the addresses of that name is the connection's.  Such a
\* connection is in the index under that address, and the end of one of its streams
\* wakes whoever waits for that authority: the rules of the pool and of the waiting
\* calls, which are written apart, agree (can_coalesce, coalescing_index_target and
\* coalescing_wait_eligible).
CoalescingIsAuthorized ==
    rule = "coalescing" =>
        LET c == x.connection
            r == x.request
            Proves(name) ==
                /\ Len(name) = Len(r.host)
                /\ \A i \in DOMAIN name :
                     name[i] = r.host[i] \/ (i = 1 /\ name[i] = "*" /\ Len(name) > 1)
            eligible == WaitEligible(c.address, r, c.names)
        IN
        /\ CanCoalesce(c, r, x.targets) =>
             /\ \E name \in c.names : Proves(name)
             /\ ~c.address.proxied /\ ~r.proxied /\ c.address.port = r.port
             /\ eligible /\ IndexTarget(c) \cap x.targets # {}
        /\ eligible /\ IndexTarget(c) \cap x.targets # {} /\ r.host # c.address.host =>
             CanCoalesce(c, r, x.targets)

\* The connections a request may use and the addresses it is dialled at.
RoutesAreSound == OrderedAsPromised /\ CoalescingIsAuthorized

-----------------------------------------------------------------------------
(* Proxies: the rules of a client, the environment, the target of a request *)
(* and the proxy of the exchange before it.                                 *)

Labels == {"", "A", "a", "b", "ex", "localhost", "v4-2", "v4-3", "v4-7", "v6-9", "[v6-9]"}

MCLower == [l \in Labels |-> IF l = "A" THEN "a" ELSE l]

Ip(family, value) == [family |-> family, value |-> value]

MCIpOf == (<<"v4-2">> :> Ip("v4", 2)) @@ (<<"v4-3">> :> Ip("v4", 3))
          @@ (<<"v4-7">> :> Ip("v4", 7)) @@ (<<"v6-9">> :> Ip("v6", 9))

MCWidth == [v4 |-> 3, v6 |-> 4]

MCLoopback == {Ip("v4", 7), Ip("v6", 9)}

Uris == [scheme : {"http", "https"},
         host : {<<"A", "ex">>, <<"b", "a", "ex", "">>, <<"ex">>, <<"b">>, <<"localhost">>,
                 <<"v4-2">>, <<"v4-3">>, <<"v4-7">>, <<"[v6-9]">>}]

Url(scheme, name, port, user) == [scheme |-> scheme, name |-> name, port |-> port, user |-> user]

Plain == Url("http", "p", TRUE, "none")
Signed == Url("http", "p", FALSE, "named")
Socks == Url("socks5", "q", TRUE, "none")
Portless == Url("socks5", "q", FALSE, "none")

Entry(kind, host) == [kind |-> kind, host |-> host, ip |-> Ip("v4", 0), prefix |-> 0]
Cidr(ip, prefix) == [kind |-> "cidr", host |-> <<>>, ip |-> ip, prefix |-> prefix]

MCRuleSet ==
    [url : {Plain}, intercept : {"http", "https"},
     tokens : {{}, {{Entry("domain", <<"A", "ex">>), Entry("localhost", <<>>)}}}]
    \cup [url : {Signed, Socks, Portless}, intercept : {"all"},
          tokens : {{}, {{Entry("host", <<"ex", "">>)}}, {{Entry("domain", <<"", "a", "ex">>)}}}]

NoProxyLists ==
    {{Entry("*", <<>>)}, {Entry("localhost", <<>>)}, {Entry("domain", <<"", "">>)},
     {Entry("host", <<"v4-2">>), Cidr(Ip("v6", 9), 4)}, {Entry("host", <<"v6-9">>)}, {Cidr(Ip("v4", 3), 2)},
     {Cidr(Ip("v4", 5), 1)}, {Cidr(Ip("v4", 5), 0)}, {Cidr(Ip("v4", 1), 4)}}

Unset == [n \in {"http_proxy", "HTTP_PROXY", "https_proxy", "HTTPS_PROXY", "all_proxy",
                 "ALL_PROXY", "NO_PROXY", "no_proxy"} |-> {}]

Environments ==
    {[Unset EXCEPT !["http_proxy"] = a, !["HTTP_PROXY"] = {Plain}, !["HTTPS_PROXY"] = b,
                   !["ALL_PROXY"] = c, !["NO_PROXY"] = d, !["no_proxy"] = e] :
        a \in {{}, {Socks}}, b \in {{}, {Signed}},
        c \in {{}, {Portless}, {Url("http", "p", TRUE, "nameless")}},
        d \in {{}} \cup {{l} : l \in NoProxyLists}, e \in {{}, {{Entry("*", <<>>)}}}}

Stickies == {{}, {SelectedProxy(FromTarget(Signed, "http", {}))},
             {SelectedProxy(FromTarget(Socks, "all", {}))}}

ProxyInputs ==
    [rules : SeqOf(MCRuleSet, 2), env : {[Unset EXCEPT !["all_proxy"] = {Plain}]},
     useSystem : {TRUE}, uri : Uris, sticky : Stickies]
    \cup [rules : {<<>>, <<[url |-> Plain, intercept |-> "https", tokens |-> {}]>>},
          env : Environments, useSystem : BOOLEAN, uri : Uris, sticky : {{}}]

\* The first bits of two addresses agree.
SameNetwork(a, b, prefix) ==
    /\ a.family = b.family
    /\ \A i \in (MCWidth[a.family] - prefix)..(MCWidth[a.family] - 1) :
         (a.value \div 2 ^ i) % 2 = (b.value \div 2 ^ i) % 2

Bare(labels) == SelectSeq([i \in DOMAIN labels |-> MCLower[labels[i]]], LAMBDA l : l # "")

\* The address that a host is; in a URI one of IPv6 is in brackets.
IpsOf(host) ==
    LET literals == MCIpOf @@ (<<"[v6-9]">> :> Ip("v6", 9))
    IN {literals[h] : h \in {Bare(host)} \cap DOMAIN literals}

\* What an entry of a no-proxy list says of a host, by its name and by its address.
CoversName(t, host) ==
    LET h == Bare(host)
        named == Bare(t.host)
    IN
    CASE t.kind = "*" -> TRUE
      [] t.kind = "host" -> h = named
      [] t.kind = "domain" -> /\ named # <<>>
                              /\ \E k \in 0..(Len(h) - 1) : SubSeq(h, k + 1, Len(h)) = named
      [] t.kind = "localhost" -> h = <<"localhost">>
      [] t.kind = "cidr" -> FALSE

CoversAddress(t, host) ==
    \E a \in IpsOf(host) :
        CASE t.kind = "host" -> a \in IpsOf(t.host)
          [] t.kind = "localhost" -> a \in MCLoopback
          [] t.kind = "cidr" -> SameNetwork(a, t.ip, t.prefix)
          [] t.kind \in {"*", "domain"} -> FALSE

Covers(t, host) == CoversName(t, host) \/ CoversAddress(t, host)

Applies(source) ==
    /\ source.intercept \in {x.uri.scheme, "all"}
    /\ ~\E tokens \in source.tokens : \E t \in tokens : Covers(t, x.uri.host)

\* The rules the environment amounts to, and whether any part of it is refused.
SystemSources ==
    LET list == LookupProxyVar(x.env, <<"NO_PROXY", "no_proxy">>)
        From(names, intercept) ==
            SetToSeq([url : LookupProxyVar(x.env, names), intercept : {intercept}, tokens : {list}])
    IN  From(<<"http_proxy", "HTTP_PROXY">>, "http")
        \o From(<<"https_proxy", "HTTPS_PROXY">>, "https")
        \o From(<<"all_proxy", "ALL_PROXY">>, "all")

Refused ==
    \E i \in DOMAIN SystemSources :
        \/ SystemSources[i].url.user = "nameless"
        \/ \E tokens \in SystemSources[i].tokens : \E t \in tokens :
             t.kind = "cidr" /\ t.prefix > MCWidth[t.ip.family]

\* A list names the address of the target, and the target is an IPv6 address: the
\* host of a URI keeps the brackets, so NoProxy::matches takes it for no address.
Bracketed ==
    /\ \E a \in IpsOf(x.uri.host) : a.family = "v6"
    /\ \E tokens \in UNION {x.rules[i].tokens : i \in DOMAIN x.rules}
                       \cup LookupProxyVar(x.env, <<"NO_PROXY", "no_proxy">>) :
         \E t \in tokens : CoversAddress(t, x.uri.host)

\* A request goes through the proxies whose rules apply to it and through no
\* other, except that an entry for the address of an IPv6 target goes unseen
\* (Bracketed), about which nothing is said: the client's own before those of the environment, each once, in their
\* order but for the proxy of the exchange before, and directly only when none
\* applies.  Every one of them can be dialled, unless one has no port, and none
\* has the target's name resolved here.  A WebSocket takes the first of them
\* (ProxyRules::select, resolved_proxy_candidates_with_sticky, Address::from_uri
\* and build_address, against what no-proxy lists say of labels and bits).
ProxyIsRespected ==
    rule = "proxies" /\ ~Bracketed =>
        LET Own(r) == FromTarget(r.url, r.intercept,
                                 {ParseNoProxy(tokens).value : tokens \in r.tokens})
            selection == Select([i \in DOMAIN x.rules |-> Own(x.rules[i])],
                                x.useSystem, x.env, x.uri)
            own == SelectSeq(x.rules, Applies)
            failed == own = <<>> /\ x.useSystem /\ Refused
            sources == IF own # <<>> \/ ~x.useSystem THEN own
                       ELSE SelectSeq(SystemSources, Applies)
            Candidate(s) == SelectedProxy(FromTarget(s.url, s.intercept, {}))
            candidates == ResolvedProxyCandidates(selection.value, x.sticky)
            Rank(c) == Min({i \in DOMAIN sources : Candidate(sources[i]) = c})
            moved == \E s \in x.sticky : SameEndpoint(candidates[1], s)
            addresses == RequestAddresses(x.uri, selection, x.sticky)
        IN
        /\ selection.ok <=> ~failed
        /\ ~failed =>
             /\ IsInjective(candidates)
             /\ ToSet(candidates) = IF sources = <<>> THEN {Direct}
                                    ELSE {Candidate(sources[i]) : i \in DOMAIN sources}
             /\ \A i, j \in DOMAIN candidates :
                  i < j /\ (moved => i > 1) => Rank(candidates[i]) < Rank(candidates[j])
             /\ \A s \in x.sticky : (\E i \in DOMAIN candidates : SameEndpoint(candidates[i], s))
                                      => moved
        /\ addresses.ok <=> ~failed /\ \A i \in DOMAIN sources : sources[i].url # Portless
        /\ addresses.ok =>
             /\ \A i \in DOMAIN candidates :
                  (addresses.value[i].dns = <<"p">> \/ addresses.value[i].dns = <<"q">>)
                    <=> candidates[i] # Direct
             /\ x.sticky = {} => BuildAddress(x.uri, selection) = Got(addresses.value[1])

-----------------------------------------------------------------------------
(* Headers: a request, the connection it goes out on and the response.      *)

Basic ==
    [r |-> [method |-> "GET", scheme |-> "https", version |-> "1.1", form |-> "absolute",
            body |-> "known", websocket |-> FALSE, offered |-> <<>>, host |-> "none",
            length |-> "none", coding |-> "none", connection |-> <<>>, te |-> <<>>,
            names |-> {}],
     strict |-> FALSE, h2 |-> FALSE,
     route |-> [kind |-> "direct", credentials |-> FALSE, moved |-> FALSE],
     response |-> [version |-> "1.1", status |-> 200, connection |-> <<>>,
                   encoding |-> <<>>, length |-> "right"]]

Connections == {<<>>, <<<<"close", "te">>>>, <<<<"x-hop", "">>, <<"content-length">>>>,
                <<<<"x-hop", Malformed>>>>, <<<<"keep-alive">>, Opaque>>}

Framings ==
    {[Basic EXCEPT !.r.version = a, !.r.body = b, !.r.host = c, !.r.length = d, !.r.coding = e,
                   !.r.connection = f, !.strict = g, !.h2 = h] :
        a \in {"1.0", "1.1", "2"}, b \in {"absent", "known", "unknown"},
        c \in {"none", "same", "other"}, d \in {"none", "right", "wrong"},
        e \in {"none", "chunked", "other"}, f \in Connections, g \in BOOLEAN, h \in BOOLEAN}

Sendings ==
    {[Basic EXCEPT !.r.scheme = a, !.r.connection = b, !.r.te = c, !.r.names = d, !.h2 = e,
                   !.route = f] :
        a \in {"http", "https"}, b \in Connections,
        c \in {<<>>, <<<<"trailers", "gzip">>>>, <<<<"gzip">>, Opaque>>},
        d \in {{}, {"keep-alive", "proxy-connection", "upgrade", "x-hop"},
               {"priority", "proxy-authorization"}},
        e \in BOOLEAN,
        f \in {g \in [kind : {"direct", "forward", "connect"}, credentials : BOOLEAN,
                      moved : BOOLEAN] : g.credentials => g.kind # "direct"}}

Handshakes ==
    {[Basic EXCEPT !.r.websocket = TRUE, !.r.method = a, !.r.scheme = b, !.r.offered = c,
                   !.r.version = d, !.r.connection = e] :
        a \in {"GET", "POST"}, b \in {"ws", "wss", "http", "https", "ftp"},
        c \in {<<>>, <<"a", "b">>, <<"a", "a">>, <<"">>}, d \in {"1.1", "2"}, e \in Connections}

Answers ==
    {[Basic EXCEPT !.r.method = a, !.r.names = b, !.r.connection = c, !.response.version = d,
                   !.response.status = e, !.response.connection = f, !.response.encoding = g] :
        a \in {"GET", "HEAD"}, b \in {{}, {"accept-encoding"}, {"range"}}, c \in Connections,
        d \in {"1.0", "1.1"}, e \in {200, 204, 304}, f \in Connections,
        g \in {<<>>, <<<<"identity">>>>, <<<<"gzip", "">>, <<"br">>>>, <<<<"gzip">>, <<"zstd">>>>,
               <<<<"gzip">>, Opaque>>}}

\* What leaves is framed as its body requires: never by two headers, never by a
\* length the caller made up, and over HTTP/1.1 by exactly the one that fits.
FramedByBody(sent, protocol) ==
    /\ sent.length # "wrong" /\ ~(sent.length # "none" /\ sent.coding # "none")
    /\ protocol = "Http1" /\ sent.version = "1.1" =>
         /\ sent.length = IF sent.body = "known" THEN "right" ELSE "none"
         /\ sent.coding = IF sent.body = "unknown" THEN "chunked" ELSE "none"

\* HTTP/2 carries nothing that belongs to a connection: neither the headers of
\* HTTP/1.1 nor those that the caller's Connection names, and of TE only trailers.
FreeOfHops(sent) ==
    LET named == UNION {Tokens(x.r.connection[i]) : i \in DOMAIN x.r.connection} IN
    /\ sent.connection = <<>> /\ sent.coding = "none"
    /\ sent.names \cap ({"keep-alive", "proxy-connection", "upgrade"} \cup named) = {}
    /\ sent.te # <<>> => /\ sent.te = <<<<"trailers">>>> /\ "te" \notin named
                         /\ HeaderHasToken(x.r.te, "trailers")
    /\ "content-length" \in named => sent.length = "none"

\* The headers of a request on the wire.  It is framed by its body; over HTTP/2
\* nothing of the connection is left; the target is in absolute form exactly for a
\* forward proxy and HTTP/2; a proxy's credentials are added for that proxy's
\* forward route alone and never stay when the route changes; a handshake asks for
\* the upgrade whatever the caller set (normalize_request, prepare_request_for_send).
WireIsSound(n, protocol, sent) ==
    /\ FramedByBody(sent, protocol)
    /\ protocol = "Http2" => FreeOfHops(sent)
    /\ sent.form = "absolute" <=> protocol = "Http2" \/ x.route.kind = "forward"
    /\ "proxy-authorization" \in sent.names =>
         \/ x.route.kind = "forward" /\ x.route.credentials
         \/ "proxy-authorization" \in x.r.names /\ ~x.route.moved
    /\ x.r.websocket =>
         /\ sent.version = "1.1" /\ sent.connection = <<<<"upgrade">>>> /\ "upgrade" \in sent.names
         /\ sent.scheme \in {"http", "https"} /\ ~n.transparent

\* The response.  A connection is kept only when neither side asks to close it in
\* words that can be read; a body is decoded only when the client itself asked for
\* its coding, and then wholly: what is left of the headers describes what is left
\* of the body (http1_exchange_allows_reuse, decode_response).
AnswerIsSound(n, sent) ==
    LET out == Intercept(n, x.r.method, x.response)
        codings == FlattenSeq(x.response.encoding)
    IN
    /\ AllowsReuse(sent, x.response) =>
         /\ ~HeaderHasToken(sent.connection, "close")
         /\ ~HeaderHasToken(x.response.connection, "close")
         /\ \A i \in DOMAIN x.response.connection : x.response.connection[i] # Opaque
    /\ IF out.layers = <<>> THEN out.response = x.response
       ELSE /\ {"accept-encoding", "range"} \cap x.r.names = {} /\ x.r.method # "HEAD"
            /\ x.response.status = 200 /\ out.response.encoding = <<>>
            /\ out.response.length = "none"
            /\ Reverse(out.layers) = SelectSeq(codings, LAMBDA c : c \in Supported)
            /\ ToSet(codings) \subseteq Supported \cup {"", "identity"}

\* What the client does to the headers of a request keeps them true of it, and
\* what it does to those of a response likewise; it refuses a request only for a
\* Host that is not the target's, or a handshake that is none.
HeadersAreTrue ==
    rule = "headers" =>
        /\ NormalizeRequest(x.r, x.strict) = {} =>
             \/ x.strict /\ x.r.host = "other"
             \/ x.r.websocket /\ (\/ x.r.method # "GET" \/ x.r.scheme = "ftp"
                                  \/ ~IsInjective(x.r.offered) \/ Contains(x.r.offered, ""))
        /\ \A n \in NormalizeRequest(x.r, x.strict) :
             LET protocol == DetermineProtocol(n.request.scheme, x.h2)
                 sent == PrepareForSend(n.request, protocol, x.route)
             IN  WireIsSound(n, protocol, sent) /\ AnswerIsSound(n, sent)

-----------------------------------------------------------------------------
(* WebSocket: a message to send, and the answer to a handshake.             *)

Messages ==
    {m \in [op : {"text", "binary", "close", "ping", "pong"}, len : 0..(MaxFrameSize + 2),
            text : {"whole"}, code : BOOLEAN, noStatus : BOOLEAN] :
        m.noStatus => m.op = "close" /\ m.len = 0 /\ ~m.code}

\* What a codec with these rules makes of a frame received whole.
Readable(f) ==
    /\ Decode(f, Size(f)) = "frame"
    /\ f.op \in Control => ParseControl(<<f>>, 1).kind \notin Errors

\* A frame the engine sends is one that its own rules can read, and it refuses to
\* send exactly the others: the form of the length agrees at every boundary, and no
\* part of a frame is taken for the whole (validate_outbound_engine_frame,
\* encode_frame and decode_frame against one another).
EncodedIsReadable ==
    rule = "message" =>
        LET f == Encode(x) IN
        /\ f.len <= MaxFrameSize => (ValidateOutbound(x) <=> Readable(f))
        /\ ValidateOutbound(x) /\ f.len <= MaxFrameSize =>
             \A have \in 0..(Size(f) - 1) : Decode(f, have) = "more"

HandshakeAnswers ==
    [offered : {<<>>, <<"a">>, <<"a", "b">>, <<"a", "a">>},
     answer : [status : {101, 200}, upgrade : {<<>>, <<<<"h2c">>, <<"websocket">>>>},
               connection : {<<Opaque>>, <<<<"keep-alive", "upgrade">>>>},
               accept : {<<>>, <<"key">>, <<"key", "key">>, <<"other">>},
               protocol : {<<>>, <<<<"a">>>>, <<<<"b">>>>, <<<<"">>>>, <<<<"a", "b">>>>,
                           <<<<"a">>, <<"b">>>>, <<Opaque>>},
               extensions : {<<>>, <<<<"", "">>>>, <<<<"">>, <<"deflate">>>>, <<Opaque>>}]]

\* A handshake is accepted exactly when its answer switches protocols, holds the
\* expected key once and nothing else, names at most one subprotocol, one that was
\* offered, and no extension (validate_handshake_response).
HandshakeIsAgreed ==
    rule = "handshake" =>
        LET a == x.answer
            named == FlattenSeq(a.protocol)
        IN
        ValidateHandshakeResponse(a, "key", x.offered) = "ok" <=>
          /\ a.status = 101 /\ a.accept = <<"key">>
          /\ HeaderHasToken(a.upgrade, "websocket") /\ HeaderHasToken(a.connection, "upgrade")
          /\ Len(named) <= 1 /\ ToSet(named) \subseteq ToSet(x.offered)
          /\ ToSet(FlattenSeq(a.extensions)) \subseteq {""}

\* Both sides of a WebSocket read what the client writes, and the client takes
\* nothing it did not ask for.
WireFormIsAgreed == EncodedIsReadable /\ HandshakeIsAgreed

-----------------------------------------------------------------------------
Init ==
    \/ rule = "freshness" /\ x \in FreshnessInputs
    \/ rule = "route order" /\ x \in SeqOf(Family, MaxAddrs)
    \/ rule = "coalescing" /\ x \in CoalescingInputs
    \/ rule = "proxies" /\ x \in ProxyInputs
    \/ rule = "headers" /\ x \in Framings \cup Sendings \cup Handshakes \cup Answers
    \/ rule = "message" /\ x \in Messages
    \/ rule = "handshake" /\ x \in HandshakeAnswers

Next == Tick

Spec == Init /\ [][Next]_vars
=============================================================================
