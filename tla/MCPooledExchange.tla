-------------------------- MODULE MCPooledExchange --------------------------
(* Model values for PooledExchange.                                          *)
EXTENDS PooledExchange, TLC

CONSTANTS c1, c2, a1, a2

\* Two calls of an Http1 origin, and the reaper.
Http1Setup ==
  [addressOf |-> c1 :> a1 @@ c2 :> a1,
   protocolOf |-> a1 :> "Http1" @@ a2 :> "Http1",
   coalescesWith |-> a1 :> {} @@ a2 :> {},
   reaper |-> TRUE]

\* Two authorities of one Http2 server; calls of a2 may share streams of a1.
\* Their own operations prune both addresses.
SharedSetup ==
  [addressOf |-> c1 :> a1 @@ c2 :> a2,
   protocolOf |-> a1 :> "Http2" @@ a2 :> "Http2",
   coalescesWith |-> a1 :> {} @@ a2 :> {a1},
   reaper |-> FALSE]

BothSetups == {Http1Setup, SharedSetup}

IdSymmetry == Permutations(Id)
=============================================================================
