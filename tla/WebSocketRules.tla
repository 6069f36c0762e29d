--------------------------- MODULE WebSocketRules ---------------------------
(***************************************************************************)
(* The rules of a WebSocket: the opening handshake (websocket/handshake.rs) *)
(* and the native engine's frames (websocket/native: codec.rs, session.rs,  *)
(* and the frames that engine.rs sends).                                    *)
(*                                                                         *)
(* Bytes are counted, not kept.  A frame on the wire is a record:           *)
(*   op     text, binary, cont, close, ping, pong                           *)
(*   fin    the last fragment                                               *)
(*   legal  no reserved bit, a known opcode, not masked                     *)
(*   enc    7, 16 or 64: the form its length is written in                  *)
(*   len    the length of its payload                                       *)
(*   text   its payload as UTF-8: whole, also when it is empty, open (ends  *)
(*          inside a code point), shut (begins inside one), both or bad     *)
(*   code   whether the status of a close frame passes close_code_is_valid  *)
(***************************************************************************)
EXTENDS Integers, Sequences, SequencesExt, FiniteSetsExt

CONSTANTS
    ShortMax, MiddleMax,  \* 125 and u16::MAX: the largest lengths that the
                          \* short and the middle form can carry
    LengthLimit,          \* 2^63: a length with the top bit
    MaxFrameSize, MaxMessageSize

ASSUME FrameAssumption ==
    /\ {ShortMax, MiddleMax, LengthLimit, MaxFrameSize, MaxMessageSize} \subseteq Nat
    /\ 1 < ShortMax /\ ShortMax < MiddleMax /\ MiddleMax < LengthLimit

-----------------------------------------------------------------------------
(* decode_frame and encode_frame.                                          *)

Control == {"close", "ping", "pong"}

HeaderLen(f) == CASE f.enc = 7 -> 2 [] f.enc = 16 -> 4 [] f.enc = 64 -> 10

Size(f) == HeaderLen(f) + f.len

\* What the first two bytes give away, and what the length does.
BadStart(f) == ~f.legal \/ (f.op \in Control /\ ~f.fin)

BadLength(f) ==
    \/ f.enc = 16 /\ f.len <= ShortMax
    \/ f.enc = 64 /\ (f.len <= MiddleMax \/ f.len >= LengthLimit)
    \/ f.op \in Control /\ f.len > ShortMax

\* decode_frame on a buffer whose first have bytes are of f: "more" is Ok(None).
Decode(f, have) ==
    IF have < 2 THEN "more"
    ELSE IF BadStart(f) THEN "invalid"
    ELSE IF have < HeaderLen(f) THEN "more"
    ELSE IF BadLength(f) THEN "invalid"
    ELSE IF f.len > MaxFrameSize THEN "too large"
    ELSE IF have < Size(f) THEN "more"
    ELSE "frame"

\* validate_outbound_engine_frame.  A message is a record of op, len, text, code
\* and noStatus, which is code 1005 and no reason; len is without the code.
ValidateOutbound(m) ==
    CASE m.op \in {"ping", "pong"} -> m.len <= ShortMax
      [] m.op = "close" -> m.noStatus \/ (m.code /\ m.len <= ShortMax - 2)
      [] OTHER -> TRUE

PayloadLen(m) ==
    CASE m.op # "close" -> m.len
      [] m.op = "close" /\ m.noStatus -> 0
      [] m.op = "close" /\ ~m.noStatus -> m.len + 2

\* Wrong variant: the short form ends one byte too early.
EncodeShort(m) ==
    LET len == PayloadLen(m) IN
    [op |-> m.op, fin |-> TRUE, legal |-> TRUE, len |-> len, text |-> m.text, code |-> m.code,
     enc |-> IF len < ShortMax THEN 7 ELSE IF len <= MiddleMax THEN 16 ELSE 64]

\* NativeSink::start_send and encode_frame; the masking key is left out.
Encode(m) ==
    LET len == PayloadLen(m) IN
    [op |-> m.op, fin |-> TRUE, legal |-> TRUE, len |-> len, text |-> m.text, code |-> m.code,
     enc |-> IF len <= ShortMax THEN 7 ELSE IF len <= MiddleMax THEN 16 ELSE 64]

-----------------------------------------------------------------------------
(* ReassemblyState.  parts are the places in s of the frames of a message.  *)

Nothing == [kind |-> "nothing", parts |-> <<>>]

Error(why) == [kind |-> why, parts |-> <<>>]

Errors == {"invalid", "too large", "close code", "utf8", "truncated", "incomplete", "io"}

Length(s, parts) == FoldSeq(LAMBDA i, sum : s[i].len + sum, 0, parts)

\* from_utf8 of the parts put together, of which the empty ones leave nothing.
ValidText(s, parts) ==
    LET bytes == SelectSeq(parts, LAMBDA i : s[i].len > 0)
        At(j) == IF j \in DOMAIN bytes THEN s[bytes[j]].text ELSE "whole"
    IN
    \A j \in 0..Len(bytes) :
        /\ At(j) # "bad"
        /\ At(j) \in {"open", "both"} <=> At(j + 1) \in {"shut", "both"}

DeliverSingle(s, parts) ==
    IF Length(s, parts) > MaxMessageSize THEN Error("too large")
    ELSE IF s[parts[1]].op = "text" /\ ~ValidText(s, parts) THEN Error("utf8")
    ELSE [kind |-> s[parts[1]].op, parts |-> parts]

ParseControl(s, i) ==
    LET f == s[i] IN
    IF f.op # "close" \/ f.len = 0 THEN [kind |-> f.op, parts |-> <<i>>]
    ELSE IF f.len = 1 THEN Error("invalid")
    ELSE IF ~f.code THEN Error("close code")
    ELSE IF f.text # "whole" THEN Error("utf8")
    ELSE [kind |-> "close", parts |-> <<i>>]

\* Wrong variant: a control frame ends the message in progress.
FeedDropping(s, open, i) ==
    LET parts == Append(open, i) IN
    IF s[i].op \in Control THEN <<<<>>, ParseControl(s, i)>>
    ELSE IF (s[i].op = "cont") # (open # <<>>) THEN <<open, Error("invalid")>>
    ELSE IF Length(s, parts) > MaxMessageSize THEN <<open, Error("too large")>>
    ELSE IF s[i].fin THEN <<<<>>, DeliverSingle(s, parts)>>
    ELSE <<parts, Nothing>>

\* ReassemblyState::feed with frame i while the message open is in progress: the
\* message in progress afterwards, and what is delivered.
Feed(s, open, i) ==
    LET parts == Append(open, i) IN
    IF s[i].op \in Control THEN <<open, ParseControl(s, i)>>
    ELSE IF (s[i].op = "cont") # (open # <<>>) THEN <<open, Error("invalid")>>
    ELSE IF Length(s, parts) > MaxMessageSize THEN <<open, Error("too large")>>
    ELSE IF s[i].fin THEN <<<<>>, DeliverSingle(s, parts)>>
    ELSE <<parts, Nothing>>

-----------------------------------------------------------------------------
(* The opening handshake.  A header is the sequence of its fields; a field  *)
(* is the sequence of the tokens between its commas, or Opaque when it is   *)
(* no text.                                                                 *)

Opaque == <<"not text">>

Tokens(field) == IF field = Opaque THEN {} ELSE ToSet(field)

HeaderHasToken(header, token) == \E i \in DOMAIN header : token \in Tokens(header[i])

\* validate_subprotocols: tokens, each offered once.
ValidateSubprotocols(offered) == "" \notin ToSet(offered) /\ IsInjective(offered)

\* validate_selected_subprotocol.
ValidateSelectedSubprotocol(header, offered) ==
    IF header = <<>> THEN [ok |-> TRUE, selected |-> <<>>]
    ELSE IF Len(header) > 1 \/ header[1] = Opaque \/ Len(header[1]) > 1
         THEN [ok |-> FALSE, selected |-> <<>>]
    ELSE [ok |-> header[1][1] \in ToSet(offered), selected |-> header[1]]

\* reject_unrequested_extensions passes fields with nothing between the commas.
NoExtensions(header) ==
    \A i \in DOMAIN header : header[i] # Opaque /\ Tokens(header[i]) \subseteq {""}

\* validate_handshake_response, for the reasons' sake in its order; accept is
\* compared whole.
ValidateHandshakeResponse(r, expected, offered) ==
    LET subprotocol == ValidateSelectedSubprotocol(r.protocol, offered) IN
    IF r.status # 101 THEN "unexpected status"
    ELSE IF ~HeaderHasToken(r.upgrade, "websocket") THEN "missing upgrade"
    ELSE IF ~HeaderHasToken(r.connection, "upgrade") THEN "missing connection"
    ELSE IF r.accept # <<expected>> THEN "invalid accept"
    ELSE IF ~subprotocol.ok THEN "subprotocol"
    ELSE IF ~NoExtensions(r.extensions) THEN "extension"
    ELSE "ok"
=============================================================================
