--------------------------- MODULE WebSocketStream ---------------------------
(***************************************************************************)
(* NativeStream of websocket/native/engine.rs: it reads the connection in   *)
(* chunks, takes whole frames from its buffer and puts fragmented messages  *)
(* together.  What the server sends arrives in pieces that have nothing to  *)
(* do with its frames, and may end after any byte.                          *)
(***************************************************************************)
EXTENDS WebSocketRules

CONSTANTS
    Wires,          \* sequences of frames a server may send
    ReadChunkSize

ASSUME StreamAssumption == ReadChunkSize \in Nat \ {0}

VARIABLES
    sent,        \* all the frames the server sends
    arrived,     \* how many bytes of them have been read
    at,          \* the frame whose first byte is first in the buffer
    inProgress,  \* ReassemblyState: the places of the fragments so far
    done,        \* NativeStream::done
    items        \* what poll_next has returned

streamStateVars == <<sent, arrived, at, inProgress, done, items>>

StreamInit ==
    /\ sent = <<>> /\ arrived = 0 /\ at = 1
    /\ inProgress = <<>> /\ done = FALSE /\ items = <<>>

\* The bytes of the first n frames.
Offset(n) == FoldSet(LAMBDA i, sum : Size(sent[i]) + sum, 0, 1..n)

\* The bytes in the buffer, and what decode_frame makes of them.
Buffered == arrived - Offset(at - 1)

Decoded == IF at > Len(sent) THEN "more" ELSE Decode(sent[at], Buffered)

-----------------------------------------------------------------------------
(* poll_next, one turn of its loop per step.                               *)

DecodeFails ==
    /\ ~done /\ Decoded \in {"invalid", "too large"}
    /\ done' = TRUE /\ items' = Append(items, Error(Decoded))
    /\ UNCHANGED <<sent, arrived, at, inProgress>>

TakeFrame ==
    /\ ~done /\ Decoded = "frame"
    /\ LET result == Feed(sent, inProgress, at) IN
         /\ inProgress' = result[1]
         /\ items' = IF result[2] = Nothing THEN items ELSE Append(items, result[2])
         /\ done' = (result[2].kind \in Errors \cup {"close"})
    /\ at' = at + 1
    /\ UNCHANGED <<sent, arrived>>

\* poll_fill: some of the bytes that are on their way.
Fill(n) ==
    /\ ~done /\ Decoded = "more"
    /\ arrived + n <= Offset(Len(sent))
    /\ arrived' = arrived + n
    /\ UNCHANGED <<sent, at, inProgress, done, items>>

ReadFails ==
    /\ ~done /\ Decoded = "more"
    /\ done' = TRUE /\ items' = Append(items, Error("io"))
    /\ UNCHANGED <<sent, arrived, at, inProgress>>

EndOfStream ==
    /\ ~done /\ Decoded = "more"
    /\ done' = TRUE
    /\ items' = Append(items, IF Buffered > 0 THEN Error("truncated")
                              ELSE IF inProgress # <<>> THEN Error("incomplete")
                              ELSE [kind |-> "end", parts |-> <<>>])
    /\ UNCHANGED <<sent, arrived, at, inProgress>>

StreamNext ==
    \/ DecodeFails \/ TakeFrame \/ ReadFails \/ EndOfStream
    \/ \E n \in 1..ReadChunkSize : Fill(n)

-----------------------------------------------------------------------------
(* What the application should see, said of the frames alone.              *)

Data(i) == {k \in 1..i : sent[k].op \notin Control}

Ascending(S) == SelectSeq([k \in DOMAIN sent |-> k], LAMBDA k : k \in S)

\* The data frames up to frame i that make one message with it.
MessageOf(i) ==
    Ascending({k \in Data(i) : \A j \in Data(i) : j > k => sent[j].op = "cont"})

\* The text that ends with frame i is no UTF-8: a code point is begun, carried on or
\* ended where it should not be.
Broken(i) ==
    LET parts == ToSet(MessageOf(i))
        Before(k, t) == Cardinality({j \in parts : j < k /\ sent[j].text = t})
        Inside(k) == Before(k, "open") > Before(k, "shut")
    IN
    \/ Inside(i + 1)
    \/ \E k \in parts : \/ sent[k].text = "bad"
                        \/ /\ sent[k].len > 0
                           /\ Inside(k) # (sent[k].text \in {"shut", "both"})

\* A frame that no application may be given: a continuation of nothing, a message
\* begun inside another, too long a message, text that is no UTF-8, or a close
\* frame that makes no sense.
Faulty(i) ==
    LET f == sent[i] IN
    IF f.op \in Control
    THEN f.op = "close" /\ f.len > 0 /\ (f.len = 1 \/ ~f.code \/ f.text # "whole")
    ELSE \/ f.op = "cont" <=> (Data(i - 1) = {} \/ sent[Max(Data(i - 1))].fin)
         \/ Length(sent, MessageOf(i)) > MaxMessageSize
         \/ f.fin /\ sent[MessageOf(i)[1]].op = "text" /\ Broken(i)

Final == Errors \cup {"close", "end"}

\* The application gets, whatever the pieces the bytes came in, exactly the
\* messages that the frames taken so far make up: in their order, each once, and
\* whole also when control frames came between its fragments.  It gets nothing of
\* a faulty frame.  Nothing follows a close frame, an error or the end, and the
\* stream ends as if all were well only between frames and outside of a message.
FramesAreExact ==
    LET messages == SelectSeq(items, LAMBDA m : m.kind \notin Errors \cup {"end"})
        good == Ascending({k \in 1..at - 1 : sent[k].fin /\ ~Faulty(k)})
    IN
    /\ messages = [j \in DOMAIN good |->
          IF sent[good[j]].op \in Control THEN [kind |-> sent[good[j]].op, parts |-> <<good[j]>>]
          ELSE [kind |-> sent[MessageOf(good[j])[1]].op, parts |-> MessageOf(good[j])]]
    /\ \A j \in DOMAIN items : items[j].kind \in Final => j = Len(items)
    /\ done <=> items # <<>> /\ items[Len(items)].kind \in Final
    /\ (items # <<>> /\ items[Len(items)].kind = "end") =>
          arrived = Offset(at - 1) /\ (Data(at - 1) # {} => sent[Max(Data(at - 1))].fin)
=============================================================================
