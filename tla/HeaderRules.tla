----------------------------- MODULE HeaderRules -----------------------------
(***************************************************************************)
(* What the client does to the headers of a request on its way out, and to  *)
(* those of the response: the bridge interceptor (bridge.rs, and            *)
(* compression.rs), prepare_request_for_send of transport/service.rs with   *)
(* transport/protocol.rs, and the decision whether an HTTP/1.1 connection   *)
(* may be used again.                                                       *)
(*                                                                         *)
(* A request is a record:                                                   *)
(*   method, scheme, version       as in its head                           *)
(*   form        absolute or origin: the form of its target                 *)
(*   body        absent, known or unknown: whether its length is known      *)
(*   websocket   it carries a WebSocketRequestMarker; offered are the       *)
(*               subprotocols of it                                         *)
(*   host        none, same or other (than the authority of the URI)        *)
(*   length      Content-Length: none, right or wrong                       *)
(*   coding      Transfer-Encoding: none, chunked or other                  *)
(*   connection, te    headers as in WebSocketRules, in lower case          *)
(*   names       the other headers it has                                   *)
(* A route has a kind (direct, forward, connect), credentials and moved.    *)
(* A function that may fail returns the set of its result, or {}.           *)
(***************************************************************************)
EXTENDS WebSocketRules

CONSTANT Supported   \* the content codings this build decodes

Malformed == "a b"   \* what is between two commas and is no token

-----------------------------------------------------------------------------
(* The bridge: normalize_request *)

\* rewrite_scheme.
RewriteScheme(scheme) ==
  CASE scheme = "ws" -> {"http"}
    [] scheme = "wss" -> {"https"}
    [] scheme \in {"http", "https"} -> {scheme}
    [] OTHER -> {}

\* inject_handshake, with request_must_be_get.
InjectHandshake(r) ==
  {[r EXCEPT !.scheme = scheme, !.connection = <<<<"upgrade">>>>, !.version = "1.1",
             !.names = @ \cup {"upgrade", "sec-websocket-key", "sec-websocket-version"}
                         \cup (IF r.offered = <<>> THEN {} ELSE {"sec-websocket-protocol"})] :
     scheme \in IF ValidateSubprotocols(r.offered) /\ r.method = "GET"
                THEN RewriteScheme(r.scheme) ELSE {}}

NormalizeHostHeader(r, strict) ==
  IF r.host = "none" THEN {[r EXCEPT !.host = "same"]}
  ELSE IF strict /\ r.host # "same" THEN {} ELSE {r}

NormalizeUserAgentHeader(r) == [r EXCEPT !.names = @ \cup {"user-agent"}]

NormalizeBodyHeaders(r) ==
  CASE r.body = "absent" -> [r EXCEPT !.length = "none", !.coding = "none"]
    [] r.body = "known" -> [r EXCEPT !.length = "right", !.coding = "none"]
    [] r.body = "unknown" ->
         [r EXCEPT !.length = "none", !.coding = IF r.version = "1.1" THEN "chunked" ELSE "none"]

\* should_skip_transparent_compression.
SkipCompression(r) == r.websocket \/ {"accept-encoding", "range"} \cap r.names # {}

NormalizeEncoding(r) ==
  IF SkipCompression(r) \/ Supported = {} THEN [request |-> r, transparent |-> FALSE]
  ELSE [request |-> [r EXCEPT !.names = @ \cup {"accept-encoding"}], transparent |-> TRUE]

NormalizeRequest(r, strict) ==
  {NormalizeEncoding(NormalizeBodyHeaders(NormalizeUserAgentHeader(n))) :
     n \in UNION {NormalizeHostHeader(i, strict) :
                    i \in IF r.websocket THEN InjectHandshake(r) ELSE {r}}}

-----------------------------------------------------------------------------
(* The connection: prepare_request_for_send *)

DetermineProtocol(scheme, h2) == IF scheme = "https" /\ h2 THEN "Http2" ELSE "Http1"

\* clear_proxy_authorization_if_proxy_changed; moved: an earlier exchange of the
\* call went through another proxy.
ClearProxyAuthorization(r, moved) ==
  IF moved THEN [r EXCEPT !.names = @ \ {"proxy-authorization"}] ELSE r

ApplyForwardProxyCredentials(r, kind, credentials) ==
  IF kind = "forward" /\ credentials THEN [r EXCEPT !.names = @ \cup {"proxy-authorization"}]
  ELSE r

ApplyPriority(r) == [r EXCEPT !.names = @ \cup {"priority"}]

\* connection_nominated_headers: what is no header name is passed over.
Nominated(r) == UNION {Tokens(r.connection[i]) : i \in DOMAIN r.connection} \ {"", Malformed}

\* Wrong variant: TE is put back whether or not Connection names it.
StripKeepingTe(r) ==
  [r EXCEPT !.connection = <<>>, !.coding = "none",
            !.te = IF HeaderHasToken(@, "trailers") THEN <<<<"trailers">>>> ELSE <<>>,
            !.names = @ \ ({"keep-alive", "proxy-connection", "upgrade"} \cup Nominated(r)),
            !.length = IF "content-length" \in Nominated(r) THEN "none" ELSE @,
            !.host = IF "host" \in Nominated(r) THEN "none" ELSE @]

\* strip_http2_connection_specific_headers and append_http2_te_trailers.
StripConnectionSpecific(r) ==
  [r EXCEPT !.connection = <<>>, !.coding = "none",
            !.te = IF "te" \notin Nominated(r) /\ HeaderHasToken(@, "trailers")
                   THEN <<<<"trailers">>>> ELSE <<>>,
            !.names = @ \ ({"keep-alive", "proxy-connection", "upgrade"} \cup Nominated(r)),
            !.length = IF "content-length" \in Nominated(r) THEN "none" ELSE @,
            !.host = IF "host" \in Nominated(r) THEN "none" ELSE @]

PrepareBoundRequest(r, protocol, kind) ==
  IF protocol = "Http2" THEN StripConnectionSpecific(r)
  ELSE IF kind = "forward" THEN r ELSE [r EXCEPT !.form = "origin"]

PrepareForSend(r, protocol, route) ==
  LET cleared == ClearProxyAuthorization(r, route.moved)
      signed == ApplyForwardProxyCredentials(cleared, route.kind, route.credentials)
  IN  PrepareBoundRequest(ApplyPriority(signed), protocol, route.kind)

-----------------------------------------------------------------------------
(* The response *)

\* connection_header_requests_close: what cannot be read asks to close.
RequestsClose(header) ==
  \E i \in DOMAIN header : header[i] = Opaque \/ Tokens(header[i]) \cap {"close", Malformed} # {}

\* http1_exchange_allows_reuse, of the headers that went out.
AllowsReuse(r, response) ==
  ~RequestsClose(r.connection) /\ response.version # "1.0" /\ ~RequestsClose(response.connection)

\* response_can_have_body.
CanHaveBody(method, status) == method # "HEAD" /\ status \notin {100, 101, 204, 304}

\* supported_content_encodings, of all fields put together.
ContentEncodings(header) ==
  SelectSeq(FlattenSeq(header), LAMBDA coding : coding \notin {"", "identity"})

\* decode_response: the response, and the layers its body goes through.
DecodeResponse(method, response) ==
  LET codings == ContentEncodings(response.encoding)
  IN  IF ~CanHaveBody(method, response.status) \/ Contains(response.encoding, Opaque)
           \/ ~(ToSet(codings) \subseteq Supported) \/ codings = <<>>
      THEN [response |-> response, layers |-> <<>>]
      ELSE [response |-> [response EXCEPT !.encoding = <<>>, !.length = "none"],
            layers |-> Reverse(codings)]

\* BridgeInterceptor::intercept, once the response is there.
Intercept(normalized, method, response) ==
  IF normalized.transparent THEN DecodeResponse(method, response)
  ELSE [response |-> response, layers |-> <<>>]
=============================================================================
