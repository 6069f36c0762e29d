--------------------------- MODULE NetworkAttempt ---------------------------
(***************************************************************************)
(* A network attempt of a call: ConnectPath up to the bound connection,    *)
(* then the exchange on it (ExchangeEvents), or the frames of a WebSocket  *)
(* (WebSocketStream) once its opening handshake has passed.  What follows  *)
(* looks neither at the clock nor at how the connection came about, so     *)
(* both are forgotten when it begins; a second attempt of a call finds the *)
(* connection pooled.                                                      *)
(***************************************************************************)
EXTENDS ConnectPath, ExchangeEvents, WebSocketStream

CONSTANTS
  Responses,   \* the responses to an opening handshake
  Expected,    \* the accept value that the client's key calls for
  Offered      \* the subprotocols it offers

vars == <<connectVars, exchangeVars, streamStateVars>>

\* The connection is used: its stream has been read, and what led to it is
\* forgotten.
Forget ==
  /\ now' = 0 /\ slack' = 0 /\ started' = 0 /\ grant' = None
  /\ delivered' = delivered \o prefetched \o wire /\ prefetched' = <<>> /\ wire' = <<>>
  /\ reply' = None
  /\ auths' = 0 /\ headers' = {}
  /\ cached' = None /\ other' = "idle" /\ found' = None
  /\ UNCHANGED <<plan, pc, until, buffer, outcome>>

\* run_handshake: the response is validated, and the engine reads what follows.
RunHandshake(r) ==
  Upgraded(ValidateHandshakeResponse(r, Expected, Offered) = "ok")

Open(w) ==
  /\ pc = "bound" /\ plan.upgrade /\ sent = <<>> /\ ~done
  /\ sent' = w
  /\ UNCHANGED <<arrived, at, inProgress, done, items, exchangeVars>>
  /\ Forget

Init == ConnectInit /\ ExchangeInit /\ StreamInit

Next ==
  \/ /\ sends = 0 /\ sent = <<>>
     /\ ConnectNext \/ \E r \in Responses : RunHandshake(r)
     /\ UNCHANGED <<exchangeVars, streamStateVars>>
  \/ pc = "bound" /\ ~plan.upgrade /\ ExchangeNext /\ Forget /\ UNCHANGED streamStateVars
  \/ \E w \in Wires : Open(w)
  \/ sent # <<>> /\ StreamNext /\ UNCHANGED <<connectVars, exchangeVars>>

Spec == Init /\ [][Next]_vars /\ ConnectFairness
=============================================================================
