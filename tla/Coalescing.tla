----------------------------- MODULE Coalescing -----------------------------
(***************************************************************************)
(* Which HTTP/2 connections a request for another authority may use: the    *)
(* pool's rule (connection/pool.rs), the rule by which a freed stream wakes *)
(* waiting calls (connection/limits.rs), and the match of names that both   *)
(* share (connection/mod.rs).  PooledExchange and ConnectionLimits take     *)
(* their results as constants.                                              *)
(*                                                                         *)
(* A host, and a name of a certificate, is the sequence of its labels.  An  *)
(* address has a scheme, host, port, proxied and policy; a connection has a *)
(* protocol, an address, the names of the certificate (CoalescingInfo) and  *)
(* the target of its direct route.                                          *)
(***************************************************************************)
EXTENDS Integers, Sequences, SequencesExt

\* Wrong variant: a wildcard stands for any number of labels.
MatchesAnyDepth(pattern, host) ==
  \/ pattern = host
  \/ /\ Len(pattern) > 1 /\ pattern[1] = "*"
     /\ IsSuffix(Tail(pattern), host) /\ Len(host) >= Len(pattern)

\* verified_server_name_matches: what precedes the suffix is one label.
VerifiedServerNameMatches(pattern, host) ==
  \/ pattern = host
  \/ /\ Len(pattern) > 1 /\ pattern[1] = "*"
     /\ IsSuffix(Tail(pattern), host) /\ Len(host) - Len(Tail(pattern)) = 1

RequestAllowsCoalescing(address) ==
  address.scheme = "https" /\ ~address.proxied /\ address.policy # "Http1Only"

ConnectionAllowsCoalescing(connection) ==
  connection.address.scheme = "https" /\ ~connection.address.proxied

\* route_overlap; targets are those of the direct routes of the plan.
RouteOverlap(connection, targets) ==
  ~connection.address.proxied /\ connection.target \in targets

\* can_coalesce.
CanCoalesce(connection, request, targets) ==
  /\ connection.protocol = "Http2"
  /\ RequestAllowsCoalescing(request) /\ ConnectionAllowsCoalescing(connection)
  /\ connection.address.port = request.port
  /\ connection.address.host # request.host
  /\ \E name \in connection.names : VerifiedServerNameMatches(name, request.host)
  /\ RouteOverlap(connection, targets)

\* coalescing_index_target: where index_coalescing puts a connection, if at all.
IndexTarget(connection) ==
  IF connection.protocol = "Http2" /\ ConnectionAllowsCoalescing(connection)
  THEN {connection.target} ELSE {}

\* coalescing_wait_eligible, of the connection's address and a waiting one.
WaitEligible(origin, waiting, names) ==
  /\ origin.scheme = "https" /\ waiting.scheme = "https"
  /\ ~origin.proxied /\ ~waiting.proxied
  /\ origin.port = waiting.port
  /\ waiting.policy # "Http1Only"
  /\ \E name \in names : VerifiedServerNameMatches(name, waiting.host)
=============================================================================
