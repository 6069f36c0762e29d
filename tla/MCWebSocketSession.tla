------------------------- MODULE MCWebSocketSession -------------------------
(* WebSocketSession for TLC; the lanes are short so that they fill up.       *)
EXTENDS WebSocketSession
=============================================================================
