------------------------------ MODULE Proxying ------------------------------
(***************************************************************************)
(* Which proxy a request goes through: the rules of proxy.rs, explicit and  *)
(* from the environment, and the addresses that connection/planning.rs and  *)
(* cache_request_addresses of client.rs make of the chosen candidates.      *)
(*                                                                         *)
(* A host is the sequence of its labels as written, so a dot at its end is  *)
(* an empty last label; the text of an IP address is one label.  A proxy's  *)
(* URL is a record of scheme, name, port (whether it has one) and user      *)
(* ("none", "named", "nameless").  An Option is a set of at most one.       *)
(***************************************************************************)
EXTENDS Integers, Sequences, SequencesExt, FiniteSetsExt

CONSTANTS
  Lower,      \* labels in lower case
  IpOf,       \* the normalized hosts that parse as an IpAddr, and their addresses
  Width,      \* the bits of an address of either family
  IsLoopback  \* the loopback addresses

ASSUME ProxyAssumption ==
  \A h \in DOMAIN IpOf : IpOf[h].value \in 0..(2 ^ Width[IpOf[h].family] - 1)

Failed == [ok |-> FALSE, value |-> <<>>]

Got(v) == [ok |-> TRUE, value |-> v]

-----------------------------------------------------------------------------
(* NoProxy *)

Named(labels) == {i \in DOMAIN labels : labels[i] # ""}

NormalizeHost(host) ==
  [i \in 1..Max(Named(host) \cup {0}) |-> Lower[host[i]]]

NormalizeDomainSuffix(suffix) ==
  IF Named(suffix) = {} THEN <<>>
  ELSE NormalizeHost(SubSeq(suffix, Min(Named(suffix)), Len(suffix)))

\* canonicalize_ipv4_network and canonicalize_ipv6_network.
Canonicalize(ip, prefix) == ip.value - (ip.value % (2 ^ (Width[ip.family] - prefix)))

\* CidrBlock::matches.
CidrMatches(block, ip) ==
  block.family = ip.family /\ Canonicalize(ip, block.prefix) = block.network

\* A suffix with nothing but dots is a suffix of no host.
NoProxyMatches(noProxy, host) ==
  LET h == NormalizeHost(host)
      ip == IF h \in DOMAIN IpOf THEN {IpOf[h]} ELSE {}
  IN  \/ noProxy.all
      \/ h \in noProxy.hosts
      \/ \E suffix \in noProxy.domains : suffix # <<>> /\ IsSuffix(suffix, h)
      \/ noProxy.loopback /\ (h = <<"localhost">> \/ ip \cap IsLoopback # {})
      \/ \E a \in ip, block \in noProxy.blocks : CidrMatches(block, a)

\* The entries of one kind: "*", "localhost", "cidr", "domain", and "host", which
\* is an address in the environment and anything in NoProxy::host.
Entries(tokens, kind) == {t \in tokens : t.kind = kind}

\* Wrong variant: the address of a block is taken as it is written.
ParseNoProxyRaw(tokens) ==
  IF \E t \in Entries(tokens, "cidr") : t.prefix > Width[t.ip.family] THEN Failed
  ELSE Got([all |-> Entries(tokens, "*") # {},
            loopback |-> Entries(tokens, "localhost") # {},
            hosts |-> {NormalizeHost(t.host) : t \in Entries(tokens, "host")}
                      \cup {<<"localhost">> : t \in Entries(tokens, "localhost")},
            domains |-> {NormalizeDomainSuffix(t.host) : t \in Entries(tokens, "domain")},
            blocks |-> {[family |-> t.ip.family, prefix |-> t.prefix,
                         network |-> t.ip.value] : t \in Entries(tokens, "cidr")}])

\* parse_no_proxy and parse_cidr_block, and the builders of NoProxy.
ParseNoProxy(tokens) ==
  IF \E t \in Entries(tokens, "cidr") : t.prefix > Width[t.ip.family] THEN Failed
  ELSE Got([all |-> Entries(tokens, "*") # {},
            loopback |-> Entries(tokens, "localhost") # {},
            hosts |-> {NormalizeHost(t.host) : t \in Entries(tokens, "host")}
                      \cup {<<"localhost">> : t \in Entries(tokens, "localhost")},
            domains |-> {NormalizeDomainSuffix(t.host) : t \in Entries(tokens, "domain")},
            blocks |-> {[family |-> t.ip.family, prefix |-> t.prefix,
                         network |-> Canonicalize(t.ip, t.prefix)] : t \in Entries(tokens, "cidr")}])

-----------------------------------------------------------------------------
(* Proxies and their selection *)

\* Proxy::from_target, with Proxy::no_proxy; credentials move out of the URL.
FromTarget(url, intercept, noProxy) ==
  [target |-> [scheme |-> url.scheme, name |-> url.name, port |-> url.port],
   credentials |-> url.user = "named", intercept |-> intercept, noProxy |-> noProxy]

\* proxy_from_env: what the schemes and credentials it refuses leave.
UsableFromEnv(url) == url.scheme \in {"http", "socks5"} /\ url.user # "nameless"

Intercepts(proxy, scheme) == proxy.intercept \in {scheme, "all"}

\* Proxy::matches.
Matches(proxy, uri) ==
  /\ \A noProxy \in proxy.noProxy : ~NoProxyMatches(noProxy, uri.host)
  /\ Intercepts(proxy, uri.scheme)

MatchingProxies(proxies, uri) == SelectSeq(proxies, LAMBDA p : Matches(p, uri))

\* lookup_proxy_var: the first of the names that is set, and not to "".
LookupProxyVar(env, names) ==
  LET set == {i \in DOMAIN names : env[names[i]] # {}}
  IN  IF set = {} THEN {} ELSE env[names[Min(set)]]

\* system_proxies_from_iter.
SystemProxies(env) ==
  LET tokens == LookupProxyVar(env, <<"NO_PROXY", "no_proxy">>)
      parsed == {ParseNoProxy(t) : t \in tokens}
      http == LookupProxyVar(env, <<"http_proxy", "HTTP_PROXY">>)
      https == LookupProxyVar(env, <<"https_proxy", "HTTPS_PROXY">>)
      all == LookupProxyVar(env, <<"all_proxy", "ALL_PROXY">>)
      noProxy == {p.value : p \in parsed}
      Proxies(urls, intercept) == SetToSeq({FromTarget(u, intercept, noProxy) : u \in urls})
  IN  IF (\E p \in parsed : ~p.ok) \/ (\E u \in http \cup https \cup all : ~UsableFromEnv(u))
      THEN Failed
      ELSE Got(Proxies(http, "http") \o Proxies(https, "https") \o Proxies(all, "all"))

Direct == [direct |-> TRUE]

\* ProxyRules::select: the environment is read only when no rule matches.
Select(proxies, useSystem, env, uri) ==
  LET explicit == MatchingProxies(proxies, uri)
      system == SystemProxies(env)
      matches == MatchingProxies(system.value, uri)
  IN  IF explicit # <<>> THEN Got(explicit)
      ELSE IF useSystem /\ ~system.ok THEN Failed
      ELSE IF useSystem /\ matches # <<>> THEN Got(matches)
      ELSE Got(<<Direct>>)

-----------------------------------------------------------------------------
(* Candidates and addresses *)

\* Proxy::selected_proxy.
SelectedProxy(choice) ==
  IF choice = Direct THEN Direct
  ELSE [target |-> choice.target, credentials |-> choice.credentials,
        intercept |-> choice.intercept]

SameEndpoint(a, b) ==
  a # Direct /\ b # Direct /\ a.target = b.target /\ a.credentials = b.credentials

\* resolved_proxy_candidates_with_sticky.
ResolvedProxyCandidates(choices, sticky) ==
  LET each == FoldLeft(LAMBDA acc, c : IF Contains(acc, SelectedProxy(c)) THEN acc
                                       ELSE Append(acc, SelectedProxy(c)), <<>>, choices)
      candidates == IF each = <<>> THEN <<Direct>> ELSE each
      stuck == {i \in DOMAIN candidates : \E s \in sticky : SameEndpoint(candidates[i], s)}
  IN  IF stuck = {} THEN candidates
      ELSE <<candidates[Min(stuck)]>> \o RemoveAt(candidates, Min(stuck))

\* ProxyConfig::from_runtime_proxy: how the proxy is used.
FromRuntimeProxy(scheme, proxy) ==
  IF (proxy.target.scheme = "socks5" /\ ~proxy.target.port) \/ ~Intercepts(proxy, scheme)
  THEN Failed
  ELSE Got(IF proxy.target.scheme = "socks5" THEN "socks"
           ELSE IF scheme = "http" THEN "forward" ELSE "connect")

\* DefaultRoutePlanner::dns_target: whose name is resolved.
DnsTarget(uri, candidate) ==
  IF candidate = Direct THEN [i \in DOMAIN uri.host |-> Lower[uri.host[i]]]
  ELSE <<candidate.target.name>>

\* Address::from_uri, with the name that will be resolved for it.
FromUri(uri, candidate) ==
  LET mode == IF candidate = Direct THEN Got("direct")
              ELSE FromRuntimeProxy(uri.scheme, candidate)
  IN  IF mode.ok THEN Got([mode |-> mode.value, dns |-> DnsTarget(uri, candidate)])
      ELSE Failed

\* cache_request_addresses: one candidate without an address fails them all.
RequestAddresses(uri, selection, sticky) ==
  LET candidates == ResolvedProxyCandidates(selection.value, sticky)
      addresses == [i \in DOMAIN candidates |-> FromUri(uri, candidates[i])]
  IN  IF ~selection.ok \/ \E i \in DOMAIN addresses : ~addresses[i].ok THEN Failed
      ELSE Got([i \in DOMAIN addresses |-> addresses[i].value])

\* build_address of a WebSocket: the first proxy, wherever it stands.
BuildAddress(uri, selection) ==
  LET proxies == SelectSeq(selection.value, LAMBDA c : c # Direct)
  IN  IF ~selection.ok THEN Failed
      ELSE FromUri(uri, IF proxies = <<>> THEN Direct ELSE SelectedProxy(Head(proxies)))
=============================================================================
