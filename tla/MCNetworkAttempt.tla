------------------------- MODULE MCNetworkAttempt -------------------------
(***************************************************************************)
(* NetworkAttempt for TLC: direct routes, forward proxies, and tunnels     *)
(* through both kinds of proxies, with and without timeouts, and two       *)
(* WebSockets.                                                             *)
(***************************************************************************)
EXTENDS NetworkAttempt

Route(kind, https, timeout, deadline) ==
  [kind |-> kind, https |-> https, tls |-> TRUE, credentials |-> "usable",
   authenticator |-> TRUE, spent |-> 0, longHost |-> FALSE, later |-> TRUE,
   upgrade |-> FALSE, timeout |-> timeout, deadline |-> deadline]

SomePlans ==
  {[Route("direct", TRUE, 2, 4) EXCEPT !.later = FALSE],
   Route("direct", FALSE, 0, None), Route("direct", TRUE, None, 3),
   Route("forward", FALSE, 2, None),
   Route("connect", TRUE, 2, None), Route("connect", TRUE, None, 3),
   [Route("connect", TRUE, 2, 3) EXCEPT !.spent = 1],
   [Route("connect", TRUE, 2, None) EXCEPT !.authenticator = FALSE, !.credentials = "none"],
   [Route("connect", TRUE, 0, None) EXCEPT !.tls = FALSE],
   Route("socks", TRUE, 2, None),
   [Route("socks", FALSE, 2, 3) EXCEPT !.credentials = "none"],
   [Route("socks", FALSE, 1, None) EXCEPT !.credentials = "unusable"],
   [Route("socks", FALSE, 1, None) EXCEPT !.longHost = TRUE],
   [Route("direct", FALSE, None, 3) EXCEPT !.upgrade = TRUE]}

-----------------------------------------------------------------------------
(* WebSockets                                                              *)

Accepting ==
  [status |-> 101, upgrade |-> <<<<"websocket">>>>, connection |-> <<<<"keep-alive", "upgrade">>>>,
   accept |-> <<Expected>>, protocol |-> <<>>, extensions |-> <<>>]

OneProtocol == <<"v1">>

SomeResponses == {Accepting, [Accepting EXCEPT !.accept = <<>>]}

Frame(op, fin, enc, len) ==
  [op |-> op, fin |-> fin, legal |-> TRUE, enc |-> enc, len |-> len, text |-> "whole",
   code |-> TRUE]

\* A character that begins in the first frame of a message and ends in the last.
Opening == [Frame("text", FALSE, 7, 1) EXCEPT !.text = "open"]

Shutting == [Frame("cont", TRUE, 7, 1) EXCEPT !.text = "shut"]

Between == [Frame("cont", FALSE, 7, 1) EXCEPT !.text = "both"]

Fragments ==
  {Frame("text", TRUE, 7, 1), Opening, Frame("cont", FALSE, 7, 0), Between, Shutting,
   Frame("binary", FALSE, 7, 2), Frame("ping", TRUE, 7, 1)}

Others ==
  {Frame("binary", TRUE, 16, 3), Frame("binary", TRUE, 16, 2), Frame("binary", TRUE, 64, 4),
   Frame("binary", TRUE, 64, 5), Frame("cont", TRUE, 64, 6),
   [Frame("text", TRUE, 7, 1) EXCEPT !.text = "bad"],
   [Frame("pong", TRUE, 7, 0) EXCEPT !.legal = FALSE],
   Frame("pong", FALSE, 7, 0), Frame("ping", TRUE, 16, 3),
   Frame("close", TRUE, 7, 0), Frame("close", TRUE, 7, 1), Frame("close", TRUE, 7, 2),
   [Frame("close", TRUE, 7, 2) EXCEPT !.code = FALSE],
   [Frame("close", TRUE, 7, 2) EXCEPT !.text = "bad"]}

\* Fragments in any order, whatever may come between the ends of a
\* character, and everything else behind what may come before it.
SomeWires ==
  SeqOf(Fragments, 3)
  \cup {<<Opening, f, g, Shutting>> : f, g \in Fragments}
  \cup {Append(s, f) : s \in SeqOf(Fragments, 1), f \in Others}
  \cup {<<f, g>> : f, g \in Others}
=============================================================================
