---------------------------- MODULE ConnectPath ----------------------------
(***************************************************************************)
(* How one route becomes a bound connection: the lookup of its name        *)
(* (CachingDnsResolver of openwire-tokio), the TCP connect, the tunnel     *)
(* through an HTTP or SOCKS5 proxy, the TLS handshake (transport/connect.rs*)
(* and openwire-rustls) and the protocol binding (transport/service.rs).   *)
(* The race between the routes of a plan is FastFallback's subject.        *)
(*                                                                         *)
(* Peers are silent, slow, wrong or gone as they like.  A byte from a proxy*)
(* is a Reply byte or the number of its place in the tunnelled stream.     *)
(* Time is a clock that stops at no running timer.  Time that passes while *)
(* no timer runs, and allowances granted twice, add up in the ghost slack. *)
(***************************************************************************)
EXTENDS Integers, Sequences, SequencesExt

CONSTANTS
  Plans,          \* the configurations of a connect, see plan
  MaxAuths,       \* max_proxy_auth_attempts
  HeadLimit,      \* the 8 KiB of a CONNECT response
  Chunk,          \* the 512 bytes read at a time
  Heads,          \* lengths of a CONNECT response
  HostLengths,    \* lengths of a name in a SOCKS5 reply
  Payload,        \* bytes of the tunnelled stream sent behind the reply
  PositiveTtl, NegativeTtl,
  MaxSlack, None

ASSUME ConnectAssumption ==
  /\ Plans \subseteq
       [kind : {"direct", "forward", "connect", "socks"}, https : BOOLEAN, tls : BOOLEAN,
        credentials : {"none", "usable", "unusable"}, authenticator : BOOLEAN,
        spent : Nat, longHost : BOOLEAN, later : BOOLEAN, upgrade : BOOLEAN,
        timeout : Nat \cup {None}, deadline : Nat \cup {None}]
  /\ \A p \in Plans :
       /\ p.kind = "connect" => p.https
       /\ p.kind = "forward" => ~p.https
       /\ p.upgrade => p.deadline # None
  /\ {HeadLimit, Chunk} \subseteq Nat \ {0} /\ Heads \subseteq Nat \ {0}
  /\ HostLengths \subseteq 0..255
  /\ {MaxAuths, Payload, PositiveTtl, NegativeTtl, MaxSlack} \subseteq Nat
  /\ None \notin Nat

VARIABLES
  plan,       \* what this connect is asked for: never changes
  now, slack,
  pc,         \* the await the connect is at, see Awaits
  until,      \* when the timer of this await fires
  started,    \* ConnectBudget::started_at
  grant,      \* an allowance computed before the await it is for
  wire,       \* bytes the peer has sent and nobody has read
  buffer,     \* read_connect_response_inner: what has been read of the response
  reply,      \* what the proxy is answering
  auths,      \* auth_count of establish_connect_tunnel
  headers,    \* connect_headers
  prefetched, \* PrefetchedTunnelBytes
  delivered,  \* ghost: the bytes handed to whoever reads the new stream
  outcome,    \* the error of a connect that failed: its stage, whether a retry may help, why
  cached,     \* the DNS cache's entry for the name
  other,      \* another call's lookup of the same name
  found       \* ghost: the answer of the lookup, and how old it was

dnsVars == <<cached, other, found>>

streamVars == <<wire, buffer, reply, prefetched, delivered>>

authVars == <<auths, headers>>

connectVars == <<plan, now, slack, pc, until, started, grant, streamVars, authVars,
                 outcome, dnsVars>>

Reply == "reply"   \* a byte of a proxy's reply

Bytes(n) == [i \in 1..n |-> Reply]

Tunnelled == [i \in 1..Payload |-> i]

Least(a, b) == IF a < b THEN a ELSE b

Most(a, b) == IF a > b THEN a ELSE b

-----------------------------------------------------------------------------
(* Awaits and their timers *)

Done == {"bound", "failed", "abandoned"}

\* Go to an await whose timer is set to allowed.
Await(p, allowed) ==
  /\ pc' = p
  /\ until' = IF allowed = None THEN None ELSE now + allowed
  /\ UNCHANGED outcome

Fail(stage, retryable, cause) ==
  /\ pc' = "failed" /\ until' = None
  /\ outcome' = [stage |-> stage, retryable |-> retryable, cause |-> cause]

\* The connect timeout, started at s, and the deadline of the call: the smaller
\* of what is left of the two.
Budget(s) ==
  LET connect == IF plan.timeout = None THEN None ELSE Most(plan.timeout - (now - s), 0)
      call == IF plan.deadline = None THEN None ELSE Most(plan.deadline - now, 0)
  IN  CASE connect = None -> call
        [] call = None -> connect
        [] OTHER -> Least(connect, call)

\* Wrong variant: every step of the tunnel has the whole timeout.
RemainingAnew == Budget(now)

\* ConnectBudget::remaining.
Remaining == Budget(started)

Tick ==
  /\ pc \notin Done
  /\ (plan.deadline # None /\ pc # "upgrade") => now < plan.deadline
  /\ IF until = None THEN (plan.deadline # None \/ slack < MaxSlack) /\ slack' = slack + 1
                     ELSE now < until /\ UNCHANGED slack
  /\ now' = now + 1
  /\ UNCHANGED <<plan, pc, until, started, grant, streamVars, authVars, outcome, dnsVars>>

\* The deadline of the call drops whatever the call is waiting for.  For a
\* WebSocket it is the handshake timeout, which this far is the connect's.
Abandon ==
  /\ pc \notin Done \cup {"upgrade"}
  /\ plan.deadline # None /\ now >= plan.deadline
  /\ pc' = "abandoned" /\ until' = None
  /\ UNCHANGED <<plan, now, slack, started, grant, streamVars, authVars, outcome, dnsVars>>

StageOf(p) ==
  CASE p \in {"tcp", "reconnect"} -> "Tcp"
    [] p = "tls" -> "Tls"
    [] p = "bind" -> "ProtocolBinding"
    [] OTHER -> "ProxyTunnel"

\* The timer of an await fires.  Whatever is late, a retry may help; a late
\* handshake or binding counts as a late TCP connect.
TimesOut ==
  /\ until # None /\ now >= until
  /\ IF pc = "upgrade" THEN Fail(None, FALSE, "timeout")
     ELSE Fail(IF pc \in {"tls", "bind"} THEN "Tcp" ELSE StageOf(pc), TRUE, "timeout")
  /\ UNCHANGED <<plan, now, slack, started, grant, streamVars, authVars, dnsVars>>

\* The socket fails, or the peer closes it.
SocketFails ==
  /\ pc \notin Done \cup {"lookup", "resolve", "next route", "authenticate", "upgrade"}
  /\ Fail(StageOf(pc), TRUE, "peer")
  /\ UNCHANGED <<plan, now, slack, started, grant, streamVars, authVars, dnsVars>>

-----------------------------------------------------------------------------
(* Lookup and TCP *)

Entry(ok) ==
  [ok |-> ok, at |-> now, expires |-> now + (IF ok THEN PositiveTtl ELSE NegativeTtl)]

\* Wrong variant: an entry serves for as long as it is there.
LivesOn(entry) == entry # None

Live(entry) == entry # None /\ entry.expires > now

\* The budget of a route through a proxy starts with its TCP connect, which
\* gets all of it; other routes have the timeout for the TCP connect alone.
BeginTcp ==
  /\ started' = now
  /\ Await("tcp", IF plan.kind \in {"connect", "socks"} THEN Budget(now) ELSE plan.timeout)

Found(entry) ==
  /\ found' = [ok |-> entry.ok, at |-> entry.at, served |-> now]
  /\ IF entry.ok THEN BeginTcp ELSE Fail("Dns", TRUE, "peer") /\ UNCHANGED started

\* CachingDnsResolver::resolve up to its await: the cache is read under its lock.
Lookup ==
  /\ pc = "lookup"
  /\ IF Live(cached) THEN Found(cached)
                     ELSE Await("resolve", None) /\ UNCHANGED <<started, found>>
  /\ UNCHANGED <<plan, now, slack, grant, streamVars, authVars, cached, other>>

\* ... and from there: whatever the entry is by now, this answer replaces it.
Resolved(ok) ==
  /\ pc = "resolve"
  /\ cached' = Entry(ok)
  /\ Found(cached')
  /\ UNCHANGED <<plan, now, slack, grant, streamVars, authVars, other>>

\* A later route of a plan begins: its name is resolved.
NextRoute ==
  /\ pc = "next route"
  /\ BeginTcp
  /\ UNCHANGED <<plan, now, slack, grant, streamVars, authVars, dnsVars>>

\* Another call looks the name up, while this one has not got its answer.
OtherLookup ==
  /\ other = "idle" /\ pc \in {"lookup", "resolve"}
  /\ other' = IF Live(cached) THEN "done" ELSE "resolving"
  /\ UNCHANGED <<plan, now, slack, pc, until, started, grant, streamVars, authVars, outcome,
                 cached, found>>

OtherResolved(ok) ==
  /\ other = "resolving" /\ pc \in {"lookup", "resolve"}
  /\ other' = "done"
  /\ cached' = Entry(ok)
  /\ UNCHANGED <<plan, now, slack, pc, until, started, grant, streamVars, authVars, outcome,
                 found>>

-----------------------------------------------------------------------------
(* TLS and binding *)

\* with_connect_stage_timeout around the binding.  A WebSocket's opening handshake
\* takes its place, and has the whole handshake timeout once more.
BeginBind ==
  IF plan.upgrade THEN Await("upgrade", plan.deadline)
  ELSE IF plan.timeout = 0 THEN Fail("Tcp", TRUE, "timeout") ELSE Await("bind", plan.timeout)

\* Wrong variant: nothing times the handshake through a tunnel.
BeginTlsUntimed == IF plan.https THEN Await("tls", None) ELSE BeginBind

\* connect_target_tls_if_needed and finalize_direct_connection: a new timeout.
BeginTls ==
  IF ~plan.https THEN BeginBind
  ELSE IF ~plan.tls THEN Fail("Tls", TRUE, "no connector")
  ELSE IF plan.timeout = 0 THEN Fail("Tcp", TRUE, "timeout")
  ELSE Await("tls", plan.timeout)

\* The TCP connect of a route without a tunnel: dial_direct, and its like for
\* forward proxies, which never do TLS.
ConnectDirect ==
  /\ pc = "tcp" /\ plan.kind = "direct"
  /\ BeginTls
  /\ UNCHANGED <<plan, now, slack, started, grant, streamVars, authVars, dnsVars>>

ConnectViaHttpForwardProxy ==
  /\ pc = "tcp" /\ plan.kind = "forward"
  /\ BeginBind
  /\ UNCHANGED <<plan, now, slack, started, grant, streamVars, authVars, dnsVars>>

HandshakeDone ==
  /\ pc = "tls"
  /\ BeginBind
  /\ UNCHANGED <<plan, now, slack, started, grant, streamVars, authVars, dnsVars>>

\* A certificate or version that another try will not change, or a host that
\* is no server name.
HandshakeRefused ==
  /\ pc = "tls"
  /\ \E stage \in {"Tls", None} : Fail(stage, FALSE, "refused")
  /\ UNCHANGED <<plan, now, slack, started, grant, streamVars, authVars, dnsVars>>

Bound ==
  /\ pc = "bind"
  /\ pc' = "bound" /\ until' = None
  /\ UNCHANGED <<plan, now, slack, started, grant, streamVars, authVars, outcome, dnsVars>>

\* The WebSocket's server answers the opening handshake, the answer passes or
\* not (WebSocketRules), or the connection fails.
Upgraded(accepted) ==
  /\ pc = "upgrade"
  /\ IF accepted THEN pc' = "bound" /\ until' = None /\ UNCHANGED outcome
                 ELSE Fail(None, FALSE, "refused")
  /\ UNCHANGED <<plan, now, slack, started, grant, streamVars, authVars, dnsVars>>

UpgradeFails ==
  /\ pc = "upgrade"
  /\ \E stage \in {"ProtocolBinding", None} : Fail(stage, stage # None, "peer")
  /\ UNCHANGED <<plan, now, slack, started, grant, streamVars, authVars, dnsVars>>

\* The new stream is read, n bytes at a time: PrefetchedTunnelBytes::poll_read.
ReadStream(n) ==
  /\ pc \in {"tls", "bind", "upgrade", "bound"}
  /\ LET source == IF prefetched # <<>> THEN prefetched ELSE wire
         k == Least(n, Len(source))
         rest == SubSeq(source, k + 1, Len(source))
     IN  /\ k > 0
         /\ delivered' = delivered \o SubSeq(source, 1, k)
         /\ prefetched' = IF prefetched # <<>> THEN rest ELSE <<>>
         /\ wire' = IF prefetched # <<>> THEN wire ELSE rest
  /\ UNCHANGED <<plan, now, slack, pc, until, started, grant, buffer, reply, authVars,
                 outcome, dnsVars>>

-----------------------------------------------------------------------------
(* The tunnel through an HTTP proxy: establish_connect_tunnel *)

\* build_connect_request refuses values that are no text.  The allowance of
\* the response is computed here, before the request is written.
BeginConnect(hs) ==
  /\ headers' = hs
  /\ IF "opaque" \in hs THEN Fail(None, FALSE, "request") /\ UNCHANGED grant
     ELSE grant' = Remaining /\ Await("write connect", None)

ConnectViaHttpProxy ==
  /\ pc = "tcp" /\ plan.kind = "connect"
  /\ BeginConnect(IF plan.credentials = "none" THEN {} ELSE {"proxy-authorization"})
  /\ UNCHANGED <<plan, now, slack, started, streamVars, auths, dnsVars>>

\* The connection of another round of authentication.
Reconnected ==
  /\ pc = "reconnect"
  /\ BeginConnect(headers)
  /\ UNCHANGED <<plan, now, slack, started, streamVars, auths, dnsVars>>

\* The request is out; the proxy's response is one of these, of any length.
ConnectWritten(status, length) ==
  /\ pc = "write connect"
  /\ reply' = [status |-> status, length |-> length]
  /\ wire' = Bytes(length) \o Tunnelled
  /\ Await("read connect", grant)
  /\ UNCHANGED <<plan, now, slack, started, grant, buffer, prefetched, delivered, authVars,
                 dnsVars>>

MayAuthenticate == plan.authenticator /\ plan.spent + auths < MaxAuths

\* read_connect_response_inner: one read, and when the head is whole the answer
\* to it.  A response that is not 200 is dropped with its stream.
ReadConnect(n) ==
  LET got == buffer \o SubSeq(wire, 1, n)
      whole == Len(got) >= reply.length
      established == whole /\ reply.status = "ok"
  IN  /\ pc = "read connect" /\ n <= Len(wire)
      /\ CASE ~whole /\ Len(got) > HeadLimit -> Fail("ProxyTunnel", TRUE, "size")
           [] ~whole /\ Len(got) <= HeadLimit -> UNCHANGED <<pc, until, outcome>>
           [] established -> BeginTls
           [] whole /\ reply.status = "malformed" -> Fail("ProxyTunnel", TRUE, "peer")
           [] whole /\ reply.status = "challenge" /\ MayAuthenticate ->
                Await("authenticate", None)
           [] whole /\ reply.status = "challenge" /\ ~MayAuthenticate ->
                Fail("ProxyTunnel", FALSE, "refused")
           [] whole /\ reply.status = "refused" -> Fail("ProxyTunnel", FALSE, "refused")
      /\ buffer' = IF whole THEN <<>> ELSE got
      /\ wire' = IF whole /\ ~established THEN <<>> ELSE SubSeq(wire, n + 1, Len(wire))
      /\ prefetched' = IF established THEN SubSeq(got, reply.length + 1, Len(got)) ELSE <<>>
      /\ UNCHANGED <<plan, now, slack, started, grant, reply, delivered, authVars, dnsVars>>

SanitizeConnectHeaders(hs) == hs \cap {"proxy-authorization", "opaque"}

\* The authenticator gives a request, whose headers may be any: another round,
\* on a new connection to the proxy.
Authenticated(hs) ==
  /\ pc = "authenticate"
  /\ auths' = auths + 1
  /\ headers' = SanitizeConnectHeaders(hs)
  /\ Await("reconnect", Remaining)
  /\ UNCHANGED <<plan, now, slack, started, grant, streamVars, dnsVars>>

\* It has nothing to offer, or fails.
AuthenticatorGivesUp ==
  /\ pc = "authenticate"
  /\ \E stage \in {"ProxyTunnel", None} : Fail(stage, FALSE, "refused")
  /\ UNCHANGED <<plan, now, slack, started, grant, streamVars, authVars, dnsVars>>

-----------------------------------------------------------------------------
(* The tunnel through a SOCKS5 proxy: establish_socks5_tunnel *)

\* A message has been written and the proxy's answer to it is on its way.
Answering(answer, bytes) ==
  /\ reply' = answer
  /\ wire' = bytes
  /\ UNCHANGED <<buffer, prefetched, delivered>>

ConnectViaSocksProxy ==
  /\ pc = "tcp" /\ plan.kind = "socks"
  /\ Await("greet", Remaining)
  /\ UNCHANGED <<plan, now, slack, started, grant, streamVars, authVars, dnsVars>>

Greeted(answer) ==
  /\ pc = "greet"
  /\ Answering(answer, Bytes(2))
  /\ Await("choice", Remaining)
  /\ UNCHANGED <<plan, now, slack, started, grant, authVars, dnsVars>>

\* read_exact: n bytes, no more.
Take(n) ==
  /\ Len(wire) >= n
  /\ wire' = SubSeq(wire, n + 1, Len(wire))
  /\ UNCHANGED <<buffer, reply, prefetched, delivered>>

BeginAsk ==
  IF plan.longHost THEN Fail(None, FALSE, "request") ELSE Await("ask", Remaining)

ReadChoice ==
  /\ pc = "choice" /\ Take(2)
  /\ CASE reply = "no auth" -> BeginAsk
       [] reply = "refused" -> Fail("ProxyTunnel", FALSE, "refused")
       [] reply = "password" /\ plan.credentials = "none" ->
            Fail("ProxyTunnel", FALSE, "refused")
       [] reply = "password" /\ plan.credentials = "unusable" -> Fail(None, FALSE, "request")
       [] reply = "password" /\ plan.credentials = "usable" -> Await("password", Remaining)
  /\ UNCHANGED <<plan, now, slack, started, grant, authVars, dnsVars>>

PasswordWritten(answer) ==
  /\ pc = "password"
  /\ Answering(answer, Bytes(2))
  /\ Await("verdict", Remaining)
  /\ UNCHANGED <<plan, now, slack, started, grant, authVars, dnsVars>>

ReadVerdict ==
  /\ pc = "verdict" /\ Take(2)
  /\ IF reply = "refused" THEN Fail("ProxyTunnel", FALSE, "refused") ELSE BeginAsk
  /\ UNCHANGED <<plan, now, slack, started, grant, authVars, dnsVars>>

\* How long the address of a reply is, behind the head and the length of a name.
AddressBytes(answer) ==
  CASE answer.kind = "v4" -> 4
    [] answer.kind = "v6" -> 16
    [] answer.kind = "name" -> answer.length
    [] OTHER -> 0

Asked(answer) ==
  LET length == IF answer.kind = "name" THEN 1 ELSE 0
  IN  /\ pc = "ask"
      /\ Answering(answer, Bytes(4 + length + AddressBytes(answer) + 2) \o Tunnelled)
      /\ grant' = Remaining
      /\ Await("reply", grant')
      /\ UNCHANGED <<plan, now, slack, started, authVars, dnsVars>>

\* The next read of the reply is given the allowance of the first one again.
ReadOn(p) ==
  /\ Await(p, grant)
  /\ slack' = slack + (IF grant = None THEN 0 ELSE grant)

ReadReply ==
  /\ pc = "reply" /\ Take(4)
  /\ CASE reply.kind = "refused" ->
            Fail("ProxyTunnel", FALSE, "refused") /\ UNCHANGED slack
       [] reply.kind = "name" -> ReadOn("reply length")
       [] reply.kind \in {"v4", "v6"} -> ReadOn("reply address")
  /\ UNCHANGED <<plan, now, started, grant, authVars, dnsVars>>

ReadReplyLength ==
  /\ pc = "reply length" /\ Take(1)
  /\ ReadOn("reply address")
  /\ UNCHANGED <<plan, now, started, grant, authVars, dnsVars>>

\* Wrong variant: the port behind a name is left in the stream.
ReadReplyAddressOnly ==
  /\ pc = "reply address"
  /\ Take(AddressBytes(reply) + (IF reply.kind = "name" THEN 0 ELSE 2))
  /\ BeginTls
  /\ UNCHANGED <<plan, now, slack, started, grant, authVars, dnsVars>>

\* The address and the port.
ReadReplyAddress ==
  /\ pc = "reply address" /\ Take(AddressBytes(reply) + 2)
  /\ BeginTls
  /\ UNCHANGED <<plan, now, slack, started, grant, authVars, dnsVars>>

-----------------------------------------------------------------------------
(* The connect *)

ConnectInit ==
  /\ plan \in Plans
  /\ now = 0 /\ slack = 0
  /\ pc = (IF plan.later THEN "next route" ELSE "lookup")
  /\ until = None /\ started = 0 /\ grant = None
  /\ wire = <<>> /\ buffer = <<>> /\ reply = None /\ prefetched = <<>> /\ delivered = <<>>
  /\ auths = 0 /\ headers = {}
  /\ outcome = None
  /\ cached = None /\ other = "idle" /\ found = None

Statuses == {"ok", "challenge", "refused", "malformed"}

Offers == {{"proxy-authorization", "cookie"}, {"opaque"}, {}}

Answers == [kind : {"v4", "v6", "refused"}, length : {0}]
           \cup [kind : {"name"}, length : HostLengths]

Progress ==
  \/ Lookup \/ NextRoute \/ \E ok \in BOOLEAN : Resolved(ok)
  \/ ConnectDirect \/ ConnectViaHttpForwardProxy \/ ConnectViaHttpProxy \/ Reconnected
  \/ ConnectViaSocksProxy
  \/ HandshakeDone \/ HandshakeRefused \/ Bound \/ UpgradeFails
  \/ \E status \in Statuses, length \in Heads : ConnectWritten(status, length)
  \/ \E n \in 1..Chunk : ReadConnect(n)
  \/ \E hs \in Offers : Authenticated(hs)
  \/ AuthenticatorGivesUp
  \/ \E answer \in {"no auth", "password", "refused"} : Greeted(answer)
  \/ ReadChoice
  \/ \E answer \in {"granted", "refused"} : PasswordWritten(answer)
  \/ ReadVerdict
  \/ \E answer \in Answers : Asked(answer)
  \/ ReadReply \/ ReadReplyLength \/ ReadReplyAddress

ConnectNext ==
  \/ Progress \/ Tick \/ Abandon \/ TimesOut \/ SocketFails
  \/ OtherLookup \/ \E ok \in BOOLEAN : OtherResolved(ok)
  \/ \E n \in 1..Chunk : ReadStream(n)

\* The clock runs and timers fire; the resolver answers, a socket takes the
\* request or breaks, the authenticator returns.  No other peer need do anything.
ConnectFairness ==
  /\ WF_connectVars(Tick) /\ WF_connectVars(TimesOut) /\ WF_connectVars(Abandon)
  /\ WF_connectVars(Lookup \/ NextRoute \/ \E ok \in BOOLEAN : Resolved(ok))
  /\ WF_connectVars(\E status \in Statuses, length \in Heads : ConnectWritten(status, length))
  /\ WF_connectVars(AuthenticatorGivesUp \/ \E hs \in Offers : Authenticated(hs))

-----------------------------------------------------------------------------
(* Properties *)

\* The stream that TLS or the protocol binding is given is exactly what the
\* target sent through the tunnel: no byte of the proxy's reply is left in it,
\* and no byte read along with the reply is lost, repeated or late.  A CONNECT
\* response is refused for its size only when its head is longer than 8 KiB,
\* and at most one read more than that is ever held.
TunnelIsClean ==
  /\ (plan.kind \in {"connect", "socks"} /\ pc \in {"tls", "bind", "upgrade", "bound"})
       => delivered \o prefetched \o wire = Tunnelled
  /\ (outcome # None /\ outcome.cause = "size") => reply.length > HeadLimit
  /\ Len(buffer) <= HeadLimit + Chunk

Tunnelling == {"tcp", "reconnect", "read connect", "greet", "choice", "password", "verdict",
               "ask", "reply", "reply length", "reply address"}

\* All timed steps of a tunnel, however many rounds it takes, share one connect
\* timeout: no timer of theirs runs past its end, but for the time that untimed
\* steps took (the CONNECT request, the authenticator) and for the later reads of
\* a SOCKS5 reply, which are granted the allowance of the first again.  The whole
\* connect takes at most three timeouts, of TCP and tunnel, TLS and binding, and
\* that of a WebSocket two handshake timeouts.  The rounds of authentication count
\* against what the call has left.
BudgetIsShared ==
  /\ plan.timeout # None =>
       /\ (pc \in Tunnelling /\ until # None) => until <= started + plan.timeout + slack
       /\ (pc \notin {"lookup", "resolve", "next route"} /\ ~plan.upgrade)
            => now <= started + 3 * plan.timeout + slack
  /\ plan.upgrade => now <= 2 * plan.deadline
  /\ auths > 0 => plan.spent + auths <= MaxAuths
  /\ headers \subseteq {"proxy-authorization", "opaque"}

\* A connect uses addresses that a lookup gave less than the positive TTL ago,
\* and fails without asking only on a failure less than the negative TTL old:
\* whoever filled the cache, and whenever their lookup began.
LookupIsFresh ==
  found # None => \/ found.served = found.at
                  \/ found.served - found.at < (IF found.ok THEN PositiveTtl ELSE NegativeTtl)

\* With a connect timeout or a deadline a connect ends, however silent its peers.
SetupEnds == (plan.timeout # None \/ plan.deadline # None) => <>(pc \in Done)
=============================================================================
