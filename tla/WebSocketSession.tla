-------------------------- MODULE WebSocketSession --------------------------
(***************************************************************************)
(* A WebSocket session after the upgrade: the writer, reader and heartbeat *)
(* tasks of websocket/writer.rs, the sender and receiver handles of        *)
(* websocket/public.rs, and the bounded lanes between them.                *)
(*                                                                         *)
(* A step of a task ends where the code awaits.  The engine is external:   *)
(* its sink accepts a frame, fails, or blocks while the peer does not read *)
(* (no write has a timeout), its stream yields any frame, an error or the  *)
(* end of the stream.  Payloads, close codes and the queued messages       *)
(* themselves are left out, and data_open, which only spares the select a  *)
(* branch; the data lane and the receiver lane are counters.               *)
(***************************************************************************)
EXTENDS Integers, Sequences

CONSTANTS
  ControlCapacity,  \* CONTROL_LANE_CAPACITY
  QueueSize,        \* of the data lane and of the receiver lane
  Heartbeat,        \* whether ping_interval is set: a set of choices
  DeliverControl    \* deliver_control_frames

ASSUME SessionAssumption ==
  /\ ControlCapacity \in Nat \ {0} /\ QueueSize \in Nat \ {0}
  /\ Heartbeat \subseteq BOOLEAN /\ DeliverControl \in BOOLEAN

Command == {"Ping", "Pong", "Close", "CloseAck", "PingTimeout", "Cancel"}

VARIABLES
  control,   \* the control lane
  data,      \* messages in the data lane
  owed,      \* those of them accepted before close() was called
  inbox,     \* items in the receiver lane
  session,   \* SessionState: local, remote, closed, terminal
  writer, after,   \* the writer task, and where it goes when drained
  notified,  \* notify_waiters reached the writer in its select
  reader, saw,     \* the reader task, and the local_close_started it read
  beat, ponged,    \* the heartbeat task; a pong since the generation it holds
  producer, closer, handle,   \* send(), close(), the sender handles
  acked,     \* the ack of close()
  receiver   \* whether the WebSocketReceiver is alive

lanes == <<control, data, owed, inbox>>

writerVars == <<writer, after, notified>>

readerVars == <<reader, saw>>

beatVars == <<beat, ponged>>

userVars == <<producer, closer, handle, receiver>>

vars == <<lanes, session, writerVars, readerVars, beatVars, userVars, acked>>

Init ==
  /\ control = <<>> /\ data = 0 /\ owed = 0 /\ inbox = 0
  /\ session = [local |-> FALSE, remote |-> FALSE, closed |-> FALSE, terminal |-> "none"]
  /\ writer = "select" /\ after = "none" /\ notified = FALSE
  /\ reader = "read" /\ saw = FALSE
  /\ beat \in {IF h THEN "tick" ELSE "done" : h \in Heartbeat} /\ ponged = FALSE
  /\ producer = "idle" /\ closer = "idle" /\ handle = "held"
  /\ receiver = TRUE /\ acked = FALSE

-----------------------------------------------------------------------------
(* SessionState and the lanes *)

\* emit_terminal_failure and emit_call_end: only the first of them counts.
Failed(s) == [s EXCEPT !.terminal = IF @ = "none" THEN "failed" ELSE @]

Ended(s) == [s EXCEPT !.terminal = IF @ = "none" THEN "end" ELSE @]

\* try_mark_closed, websocket_closed and emit_call_end.
Closed(s) == IF s.closed THEN s ELSE [Ended(s) EXCEPT !.closed = TRUE]

\* A send on the control lane: it waits for room, and fails without a writer.
Enqueue(cmd) ==
  IF writer = "done" THEN UNCHANGED control
  ELSE Len(control) < ControlCapacity /\ control' = Append(control, cmd)

\* A send on the receiver lane.
Deliver ==
  IF receiver THEN inbox < QueueSize /\ inbox' = inbox + 1
              ELSE UNCHANGED inbox

TakeData ==
  /\ data' = data - 1
  /\ owed' = IF owed = 0 THEN 0 ELSE owed - 1

-----------------------------------------------------------------------------
(* run_writer *)

\* The last step: the lanes go with the writer, and so does a pending ack.
Stop ==
  /\ writer' = "done" /\ after' = "none" /\ notified' = FALSE
  /\ control' = <<>> /\ data' = 0 /\ owed' = 0

Goto(l) == writer' = l /\ UNCHANGED <<after, notified>>

Drain(l) == writer' = "drain" /\ after' = l /\ notified' = FALSE

Shutdown ==
  /\ writer = "select" /\ notified
  /\ Drain("cancel")
  /\ UNCHANGED <<lanes, session, readerVars, beatVars, userVars, acked>>

\* handle_control_command, up to its first await.
Handle(cmd) ==
  /\ CASE cmd \in {"Ping", "Pong"} ->
            Goto(IF session.remote THEN "select" ELSE "control frame")
       [] cmd = "Close" ->
            IF session.remote THEN Goto("select") ELSE Drain("close")
       [] cmd = "CloseAck" -> Goto("ack frame")
       [] cmd = "PingTimeout" ->
            Goto(IF session.remote THEN "select" ELSE "report timeout")
       [] cmd = "Cancel" -> Drain("cancel")
  /\ acked' = (acked \/ (cmd = "Close" /\ session.remote))
  /\ session' =
       IF session.remote THEN session
       ELSE IF cmd = "Close" THEN [session EXCEPT !.local = TRUE]
       ELSE IF cmd = "PingTimeout" THEN Failed([session EXCEPT !.local = TRUE])
       ELSE session

TakeControl ==
  /\ writer = "select" /\ ~notified
  /\ control # <<>>
  /\ Handle(Head(control))
  /\ control' = Tail(control)
  /\ UNCHANGED <<data, owed, inbox, readerVars, beatVars, userVars>>

\* Data comes last; what arrives after the peer's close is dropped.
TakeMessage ==
  /\ writer = "select" /\ ~notified
  /\ control = <<>>
  /\ data > 0
  /\ TakeData
  /\ Goto(IF session.remote THEN "select" ELSE "data frame")
  /\ UNCHANGED <<control, inbox, session, readerVars, beatVars, userVars, acked>>

\* Wrong variant: pings and pongs go before all data.
FrameSentOnly ==
  /\ writer = "control frame"
  /\ Goto("select")
  /\ UNCHANGED <<lanes, session, readerVars, beatVars, userVars, acked>>

\* maybe_send_one_data follows every ping and pong.
FrameSent ==
  /\ writer = "control frame"
  /\ IF data > 0 THEN TakeData /\ Goto(IF session.remote THEN "select" ELSE "data frame")
                 ELSE Goto("select") /\ UNCHANGED <<data, owed>>
  /\ UNCHANGED <<control, inbox, session, readerVars, beatVars, userVars, acked>>

DataSent ==
  /\ writer = "data frame"
  /\ Goto("select")
  /\ UNCHANGED <<lanes, session, readerVars, beatVars, userVars, acked>>

\* drain_data_lane, one message at a time.
DrainOne ==
  /\ writer = "drain"
  /\ data > 0
  /\ TakeData
  /\ Goto(IF session.remote THEN "drain" ELSE "drain frame")
  /\ UNCHANGED <<control, inbox, session, readerVars, beatVars, userVars, acked>>

DrainSent ==
  /\ writer = "drain frame"
  /\ Goto("drain")
  /\ UNCHANGED <<lanes, session, readerVars, beatVars, userVars, acked>>

Drained ==
  /\ writer = "drain"
  /\ data = 0
  /\ Goto(IF after = "close" THEN "close frame" ELSE "flush")
  /\ UNCHANGED <<lanes, session, readerVars, beatVars, userVars, acked>>

\* Cancel and shutdown: the sink is flushed before the failure is reported.
Flushed ==
  /\ writer = "flush"
  /\ session' = Failed(session)
  /\ Stop
  /\ UNCHANGED <<inbox, readerVars, beatVars, userVars, acked>>

\* The sink fails: the call has failed, and the receiver is told.
SendFails ==
  /\ writer \in {"control frame", "data frame", "drain frame"}
  /\ session' = Failed(session)
  /\ Goto("report")
  /\ UNCHANGED <<lanes, readerVars, beatVars, userVars, acked>>

Report ==
  /\ writer = "report"
  /\ Deliver
  /\ Stop
  /\ UNCHANGED <<session, readerVars, beatVars, userVars, acked>>

\* The Close frame is sent or lost; either way the peer has close_timeout.
CloseSent ==
  /\ writer = "close frame"
  /\ Goto("wait")
  /\ UNCHANGED <<lanes, session, readerVars, beatVars, userVars, acked>>

\* While it waits, the writer drops data and all commands but Cancel.
WaitSkips ==
  /\ writer = "wait"
  /\ IF control # <<>>
       THEN /\ Head(control) # "Cancel"
            /\ control' = Tail(control)
            /\ UNCHANGED <<data, owed>>
       ELSE data > 0 /\ TakeData /\ UNCHANGED control
  /\ UNCHANGED <<inbox, session, writerVars, readerVars, beatVars, userVars, acked>>

\* Wrong variant: a close that was not acknowledged ends without an event.
WaitEndsSilently ==
  /\ writer = "wait"
  /\ acked' = TRUE
  /\ Stop
  /\ UNCHANGED <<inbox, session, readerVars, beatVars, userVars>>

\* Cancel, no senders, or the timeout.
WaitEnds ==
  /\ writer = "wait"
  /\ session' = Closed(session)
  /\ acked' = TRUE
  /\ Stop
  /\ UNCHANGED <<inbox, readerVars, beatVars, userVars>>

AckSent ==
  /\ writer = "ack frame"
  /\ Stop
  /\ UNCHANGED <<inbox, session, readerVars, beatVars, userVars, acked>>

ReportTimeout ==
  /\ writer = "report timeout"
  /\ Deliver
  /\ Goto("timeout frame")
  /\ UNCHANGED <<control, data, owed, session, readerVars, beatVars, userVars, acked>>

TimeoutSent ==
  /\ writer = "timeout frame"
  /\ Stop
  /\ UNCHANGED <<inbox, session, readerVars, beatVars, userVars, acked>>

WriterStep ==
  \/ Shutdown \/ TakeControl \/ TakeMessage \/ DrainOne \/ Drained
  \/ Report \/ ReportTimeout \/ WaitSkips \/ WaitEnds

\* A send or flush of the sink comes to its end.
SinkStep ==
  \/ FrameSent \/ DataSent \/ DrainSent \/ CloseSent \/ AckSent \/ TimeoutSent
  \/ Flushed \/ SendFails

-----------------------------------------------------------------------------
(* run_reader *)

Read(l) ==
  /\ reader = "read"
  /\ reader' = l
  /\ UNCHANGED <<lanes, writerVars, beat, userVars, acked>>

ReadPing == Read("pong") /\ UNCHANGED <<session, saw, ponged>>

ReadPong ==
  /\ Read(IF DeliverControl THEN "deliver" ELSE "read")
  /\ ponged' = (beat \in {"ping", "await"})
  /\ UNCHANGED <<session, saw>>

ReadData == Read("deliver") /\ UNCHANGED <<session, saw, ponged>>

\* local_close_started is read before remote_close_started is set.
ReadClose ==
  /\ Read("mark")
  /\ saw' = session.local
  /\ UNCHANGED <<session, ponged>>

\* An error, or the end of the stream without a Close frame.
ReadError ==
  /\ Read("tell")
  /\ session' = Failed(session)
  /\ saw' = TRUE
  /\ UNCHANGED ponged

ReadEnd ==
  /\ session.local
  /\ Read("signal")
  /\ saw' = TRUE
  /\ UNCHANGED <<session, ponged>>

MarkRemote ==
  /\ reader = "mark"
  /\ reader' = "tell"
  /\ session' = LET s == [session EXCEPT !.remote = TRUE]
                IN  IF saw THEN s ELSE Closed(s)
  /\ UNCHANGED <<lanes, writerVars, saw, beatVars, userVars, acked>>

SendPong ==
  /\ reader = "pong"
  /\ Enqueue("Pong")
  /\ reader' = IF DeliverControl THEN "deliver" ELSE "read"
  /\ UNCHANGED <<data, owed, inbox, session, writerVars, saw, beatVars, userVars, acked>>

DeliverItem ==
  /\ reader \in {"deliver", "tell"}
  /\ Deliver
  /\ reader' = IF reader = "deliver" THEN "read" ELSE "signal"
  /\ UNCHANGED <<control, data, owed, session, writerVars, saw, beatVars, userVars, acked>>

\* The last word of the reader, after which it is done.  It is a word that ends
\* the writer, which so never sees its control lane without senders.
Signal ==
  /\ reader = "signal"
  /\ Enqueue(IF saw THEN "Cancel" ELSE "CloseAck")
  /\ reader' = "done" /\ saw' = FALSE
  /\ UNCHANGED <<data, owed, inbox, session, writerVars, beatVars, userVars, acked>>

ReaderStep == MarkRemote \/ SendPong \/ DeliverItem \/ Signal

PeerStep == ReadPing \/ ReadPong \/ ReadData \/ ReadClose \/ ReadError \/ ReadEnd

-----------------------------------------------------------------------------
(* run_heartbeat *)

Tick ==
  /\ beat = "tick"
  /\ beat' = "ping" /\ ponged' = FALSE
  /\ UNCHANGED <<lanes, session, writerVars, readerVars, userVars, acked>>

SendPing ==
  /\ beat = "ping"
  /\ Enqueue("Ping")
  /\ IF writer = "done" THEN beat' = "done" /\ ponged' = FALSE
                        ELSE beat' = "await" /\ UNCHANGED ponged
  /\ UNCHANGED <<data, owed, inbox, session, writerVars, readerVars, userVars, acked>>

\* A pong, the timeout, or the lane is closed.
AwaitPong ==
  /\ beat = "await"
  /\ \/ beat' = IF ponged THEN "tick" ELSE "give up"
     \/ writer = "done" /\ beat' = "done"
  /\ ponged' = FALSE
  /\ UNCHANGED <<lanes, session, writerVars, readerVars, userVars, acked>>

\* Wrong variant: try_send, which gives up when the control lane is full.
TrySendTimeout ==
  /\ beat = "give up"
  /\ control' = IF writer # "done" /\ Len(control) < ControlCapacity
                  THEN Append(control, "PingTimeout") ELSE control
  /\ beat' = "done"
  /\ UNCHANGED <<data, owed, inbox, session, writerVars, readerVars, ponged, userVars, acked>>

SendTimeout ==
  /\ beat = "give up"
  /\ Enqueue("PingTimeout")
  /\ beat' = "done"
  /\ UNCHANGED <<data, owed, inbox, session, writerVars, readerVars, ponged, userVars, acked>>

BeatStep == Tick \/ SendPing \/ AwaitPong \/ SendTimeout

-----------------------------------------------------------------------------
(* WebSocketSender and WebSocketReceiver *)

\* send() looks at the closed flag, then waits for room in the data lane.
StartSend ==
  /\ handle = "held" /\ closer = "idle" /\ producer = "idle"
  /\ producer' = "sending"
  /\ UNCHANGED <<lanes, session, writerVars, readerVars, beatVars, closer, handle, receiver, acked>>

SendMessage ==
  /\ producer = "sending"
  /\ producer' = "idle"
  /\ IF writer = "done" THEN UNCHANGED data
     ELSE data < QueueSize /\ data' = data + 1
  /\ UNCHANGED <<control, owed, inbox, session, writerVars, readerVars, beatVars,
                 closer, handle, receiver, acked>>

StartClose ==
  /\ handle = "held" /\ closer = "idle"
  /\ closer' = "enqueue"
  /\ owed' = data
  /\ UNCHANGED <<control, data, inbox, session, writerVars, readerVars, beatVars,
                 producer, handle, receiver, acked>>

EnqueueClose ==
  /\ closer = "enqueue"
  /\ Enqueue("Close")
  /\ closer' = IF writer = "done" THEN "returned" ELSE "await"
  /\ UNCHANGED <<data, owed, inbox, session, writerVars, readerVars, beatVars,
                 producer, handle, receiver, acked>>

CloseReturns ==
  /\ closer = "await"
  /\ acked \/ writer = "done"
  /\ closer' = "returned"
  /\ UNCHANGED <<lanes, session, writerVars, readerVars, beatVars,
                 producer, handle, receiver, acked>>

\* The future of send() or close() is dropped by its task.
Abandon ==
  /\ \/ producer = "sending" /\ producer' = "idle" /\ UNCHANGED closer
     \/ closer \in {"enqueue", "await"} /\ closer' = "returned" /\ UNCHANGED producer
  /\ UNCHANGED <<lanes, session, writerVars, readerVars, beatVars, handle, receiver, acked>>

\* Drop of SenderInner: try_send(Cancel), then notify_waiters.
DropSender ==
  /\ handle = "held" /\ producer = "idle" /\ closer \in {"idle", "returned"}
  /\ handle' = "notify"
  /\ control' = IF writer # "done" /\ Len(control) < ControlCapacity
                  THEN Append(control, "Cancel") ELSE control
  /\ UNCHANGED <<data, owed, inbox, session, writerVars, readerVars, beatVars,
                 producer, closer, receiver, acked>>

NotifyWaiters ==
  /\ handle = "notify"
  /\ handle' = "dropped"
  /\ notified' = (writer = "select")
  /\ UNCHANGED <<lanes, session, writer, after, readerVars, beatVars,
                 producer, closer, receiver, acked>>

Receive ==
  /\ receiver /\ inbox > 0
  /\ inbox' = inbox - 1
  /\ UNCHANGED <<control, data, owed, session, writerVars, readerVars, beatVars, userVars, acked>>

DropReceiver ==
  /\ receiver
  /\ receiver' = FALSE /\ inbox' = 0
  /\ UNCHANGED <<control, data, owed, session, writerVars, readerVars, beatVars,
                 producer, closer, handle, acked>>

\* Steps a user's task takes once it has begun an operation.
UserStep == SendMessage \/ EnqueueClose \/ CloseReturns \/ NotifyWaiters

Next ==
  \/ WriterStep \/ SinkStep \/ ReaderStep \/ PeerStep \/ BeatStep \/ UserStep
  \/ StartSend \/ StartClose \/ Abandon \/ DropSender \/ Receive \/ DropReceiver

\* Tasks that can run do, and timers fire.  A lane serves its waiting senders in
\* order (tokio's mpsc), so that a send is not passed over for ever.  Nothing is
\* assumed of the peer, which may never read, nor of what the user's tasks
\* start, read or drop.
Fairness ==
  /\ WF_vars(WriterStep) /\ WF_vars(WaitEnds) /\ WF_vars(ReaderStep)
  /\ WF_vars(BeatStep) /\ WF_vars(UserStep)
  /\ SF_vars(EnqueueClose) /\ SF_vars(SendTimeout) /\ SF_vars(Report \/ ReportTimeout)

Spec == Init /\ [][Next]_vars /\ Fairness

\* The user reads what the session delivers.
UserReads == WF_vars(Receive)

\* No write blocks for ever: the peer reads, or the socket fails.
PeerReads == WF_vars(SinkStep)

-----------------------------------------------------------------------------
(* Properties *)

TypeOK ==
  /\ control \in Seq(Command) /\ Len(control) <= ControlCapacity
  /\ data \in 0..QueueSize /\ owed \in 0..data /\ inbox \in 0..QueueSize
  /\ session \in [local : BOOLEAN, remote : BOOLEAN, closed : BOOLEAN,
                  terminal : {"none", "end", "failed"}]
  /\ writer \in {"select", "control frame", "data frame", "drain", "drain frame", "report",
                 "close frame", "wait", "ack frame", "report timeout", "timeout frame",
                 "flush", "done"}
  /\ after \in {"none", "close", "cancel"} /\ notified \in BOOLEAN
  /\ reader \in {"read", "pong", "deliver", "mark", "tell", "signal", "done"} /\ saw \in BOOLEAN
  /\ beat \in {"tick", "ping", "await", "give up", "done"} /\ ponged \in BOOLEAN
  /\ producer \in {"idle", "sending"} /\ closer \in {"idle", "enqueue", "await", "returned"}
  /\ handle \in {"held", "notify", "dropped"} /\ acked \in BOOLEAN /\ receiver \in BOOLEAN

\* A call whose tasks are over has had its terminal event: call_end or
\* call_failed fires, whichever way the session ended.
OverMeansTerminal ==
  writer = "done" /\ reader = "done" => session.terminal # "none"

\* Control commands overtake data, but what send() accepted before close() was
\* called is handed to the sink before the Close frame (or dropped because the
\* peer has closed).
AcceptedIsWritten == writer \in {"close frame", "wait"} => owed = 0

\* "The control lane is bounded so a ping flood cannot livelock the writer off
\* the data lane": while the user reads and no write blocks for ever, a full data
\* lane gets room again and again, or the session comes to its end; and close(),
\* which a handle calls once, returns, whatever the peer sends or leaves unsent.
UserIsServed ==
  UserReads /\ PeerReads =>
    []<>(/\ data < QueueSize \/ session.terminal # "none"
         /\ closer \notin {"enqueue", "await"})

\* A heartbeat that gave up fails the call, also when the user does not read,
\* unless the writer is stuck in a write.
TimeoutIsReported ==
  PeerReads => (beat = "give up" ~> session.terminal # "none")

\* Nothing the user was promised is lost on the way: neither the data that send()
\* accepted nor the report of the end.
NothingIsLost == TypeOK /\ OverMeansTerminal /\ AcceptedIsWritten
=============================================================================
