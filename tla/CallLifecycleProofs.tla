------------------------- MODULE CallLifecycleProofs -------------------------
(***************************************************************************)
(* Proofs about CallLifecycle, for any number of tasks and of handles.     *)
(*                                                                         *)
(* The inductive invariant has four parts beside the types.  Flow says     *)
(* where the lease, the permit and the flags of the incoming body are at   *)
(* each place of the call; Cancels and Deadlines say, from the moment a    *)
(* poll has registered, who is going to wake the task; Hears says which    *)
(* events the listener has been told at each place, and Story that what it *)
(* was told is in order.                                                   *)
(***************************************************************************)
EXTENDS CallLifecycle, TLAPS

\* A leaf that names no prover is tried with these, in this order.
USE SMTT(30), ZenonT(30), Z3T(30)

\* The body is in its owner's hands, or being polled.
Bodies == {"ready", "bcheck", "bregister", "brecheck", "decode", "dcheck",
           "dregister", "drecheck", "frame", "bparked"}

\* The poll has gone down to the incoming body.
Reading == {"dcheck", "dregister", "drecheck", "frame", "bparked"}

\* Where the lease, the permit and the two flags of the incoming body are at
\* each place of the call.
Flow ==
    /\ pc \in {"built", "spawned", "refused"} => lease = "none"
    /\ pc \in Executing => lease \in {"none", "held"}
    /\ pc \in Reading \cup {"sent"} => lease = "held"
    /\ pc \in Bodies => lease \in {"held", "released"}
    /\ pc \in Bodies /\ lease = "released" => decoding
    /\ pc \in {"failed", "dropped"} => lease # "held"
    /\ pc \in {"held", "gone"} => lease \notin {"none", "held"}
    /\ lease = "none" => permit = "none"
    /\ lease = "held" => permit = "held"
    /\ pc \in Over => permit # "held"
    /\ drained <=> lease = "released"
    /\ force => pc \in {"held", "gone"}

\* Past the second look at the flag: the task has registered.
Guarded == {"parked", "decode", "dcheck", "dregister", "drecheck", "frame",
            "bparked"}

\* The steps of cancel(), and why a cancellation reaches the task: until the
\* flag is stored the slot holds the task that registered, and then that task
\* is scheduled or a cancel() is on its way to the slot.
Cancels ==
    /\ \A h \in Handles : cpc[h] # "idle" => canceled
    /\ cancels = IF notified THEN 1 ELSE 0
    /\ \A h \in Handles : cpc[h] = "done" => notified
    /\ pc \in Guarded /\ canceled =>
          on \in scheduled \/ (waker = on /\ \E h \in Handles : cpc[h] = "wake")
    /\ pc \in Guarded \cup {"recheck", "brecheck"} /\ ~canceled => waker = on

\* The same for the two clocks: the timer holds the task that is executing, and
\* the signal of the body the task that registered with it, until it has fired.
Deadlines ==
    /\ lease = "none" => signal = "none"
    /\ pc \in {"check", "register", "recheck", "parked"} /\ deadline =>
          on \in scheduled \/ timerWaker = on
    /\ deadline /\ lease = "held" => signal # "none"
    /\ pc \in {"drecheck", "frame", "bparked"} /\ signal \in {"waiting", "stored"} =>
          dwaker = on
    /\ pc \in {"frame", "bparked"} /\ signal = "expired" => on \in scheduled

-----------------------------------------------------------------------------
OnceIn(l, S) == \A i, j \in DOMAIN l : l[i] \in S /\ l[j] \in S => i = j

\* What is well told about a call, so far.
Story(l) ==
    /\ OnceIn(l, {"call_start"}) /\ OnceIn(l, Terminals)
    /\ OnceIn(l, {"response_body_start"}) /\ OnceIn(l, BodyEnds)
    /\ \A i \in DOMAIN l :
          l[i] \in BodyEnds => \E j \in 1..(i-1) : l[j] = "response_body_start"
    /\ \A i \in DOMAIN l : l[i] \in Terminals => i = Len(l)

\* What the listener has heard at each place of the call.
Hears ==
    /\ Story(log)
    /\ pc \in {"built", "spawned", "refused"} =>
          Range(log) \subseteq {"dispatcher_queue_start"}
    /\ pc \notin {"built", "spawned", "refused", "dropped"} => Told("call_start")
    /\ Reported(Terminals) <=> pc \in {"failed", "held", "gone"}
    /\ lease \in {"none", "held", "discarded"} => ~Told("response_body_end")
    /\ lease = "released" \/ (lease = "abandoned" /\ pc # "failed") =>
          Told("response_body_end")
    /\ Told("response_body_failed") <=> lease = "discarded"
    /\ Told("response_body_failed") => ~Told("call_end")
    /\ doomed => canceled /\ pc \in {"bcheck", "held", "gone"} /\ ~Told("call_end")

-----------------------------------------------------------------------------
\* The events of a call make up sequences of events.
LEMMA LogsAreLogs ==
    ASSUME TypeOK
    PROVE  /\ StartBody(log) \in Seq(Events) /\ Abandoned(log) \in Seq(Events)
           /\ \A l \in Seq(Events), e \in Events : Append(l, e) \in Seq(Events)
           /\ {"call_start", "call_end", "call_failed", "response_body_start",
               "response_body_end", "response_body_failed"} \subseteq Events
           /\ \A e, f \in Events : Append(Append(StartBody(log), e), f) \in Seq(Events)
<1>1. StartBody(log) \in Seq(Events) /\ Abandoned(log) \in Seq(Events)
    BY DEF TypeOK, StartBody, Abandoned, Events
<1>2. \A l \in Seq(Events), e \in Events : Append(l, e) \in Seq(Events)
    OBVIOUS
<1>3. {"call_start", "call_end", "call_failed", "response_body_start",
       "response_body_end", "response_body_failed"} \subseteq Events
    BY DEF Events
<1>4. ASSUME NEW e \in Events, NEW f \in Events
      PROVE  Append(Append(StartBody(log), e), f) \in Seq(Events)
  <2>1. Append(StartBody(log), e) \in Seq(Events)
        BY <1>1
  <2> QED
        BY <2>1
<1> QED
    BY <1>1, <1>2, <1>3, <1>4

\* A call that was built and not yet started.
LEMMA InitIInv == Init => TypeOK /\ Flow /\ Cancels /\ Deadlines
<1> SUFFICES ASSUME Init PROVE TypeOK /\ Flow /\ Cancels /\ Deadlines
    OBVIOUS
<1>1. TypeOK
  <2>1. log \in Seq(Events) /\ cpc \in [Handles -> {"idle", "wake", "notify", "done"}]
        BY DEF Init
  <2> QED
        BY <2>1, ZenonT(30) DEF Init, TypeOK, Executing, Over
<1>2. Flow
    BY DEF Init, Flow, Executing, Over, Bodies, Reading
<1>3. Cancels
    BY DEF Init, Cancels, Guarded
<1>4. Deadlines
    BY DEF Init, Deadlines
<1> QED
    BY <1>1, <1>2, <1>3, <1>4

\* Every step keeps the types.
LEMMA NextTypeOK == TypeOK /\ [Next]_vars => TypeOK'
<1> SUFFICES ASSUME TypeOK, [Next]_vars PROVE TypeOK'
    OBVIOUS
<1>1. ASSUME NEW h \in Handles, CancelStore(h) PROVE TypeOK'
    BY <1>1 DEF CancelStore, TypeOK, Executing, Over, Events, state, timer,
       body, fixed
<1>2. ASSUME NEW h \in Handles, CancelWake(h) PROVE TypeOK'
    BY <1>2 DEF CancelWake, Schedule, TypeOK, Executing, Over, Events, state,
       timer, body, fixed
<1>3. ASSUME NEW h \in Handles, CancelNotify(h) PROVE TypeOK'
    BY <1>3 DEF CancelNotify, TypeOK, Executing, Over, Events, state, timer,
       body, fixed
<1>4. CASE TimerFires
    BY <1>4 DEF TimerFires, Schedule, TypeOK, Executing, Over, Events, state,
       timer, body, fixed
<1>5. CASE SleeperStores
    BY <1>5 DEF SleeperStores, TypeOK, Executing, Over, Events, state, timer,
       body, fixed
<1>6. CASE SleeperWakes
    BY <1>6 DEF SleeperWakes, Schedule, TypeOK, Executing, Over, Events,
       state, timer, body, fixed
<1>7. CASE RunSpawned
    BY <1>7 DEF RunSpawned, TypeOK, Executing, Over, Events, state, timer,
       body, fixed
<1>8. CASE PreCheck
  <2>1. log' \in Seq(Events)
    <3>1. \/ log' = log
          \/ log' = Append(Abandoned(log), "call_failed")
        BY <1>8 DEF PreCheck, Fail
    <3> QED
        BY <3>1, LogsAreLogs, ZenonT(30) DEF TypeOK
  <2> QED
        BY <1>8, <2>1 DEF PreCheck, Fail, AbandonedLease, TypeOK, Executing,
           Over, state, timer, body, fixed
<1>9. CASE TransportResponds
    BY <1>9 DEF TransportResponds, TypeOK, Executing, Over, Events, state,
       timer, body, fixed
<1>10. CASE SleeperRefused
    BY <1>10 DEF SleeperRefused, TypeOK, Executing, Over, Events, state,
       timer, body, fixed
<1>11. CASE InnerFails
    BY <1>11, LogsAreLogs DEF InnerFails, Fail, AbandonedLease, TypeOK,
       Executing, Over, Events, state, timer, body, fixed
<1>12. CASE InnerReturns
    BY <1>12 DEF InnerReturns, TypeOK, Executing, Over, Events, state, timer,
       body, fixed
<1>13. CASE InnerPending
    BY <1>13 DEF InnerPending, TypeOK, Executing, Over, Events, state, timer,
       body, fixed
<1>14. CASE PollSleep
  <2>1. log' \in Seq(Events)
    <3>1. \/ log' = log
          \/ log' = Append(Abandoned(log), "call_failed")
        BY <1>14 DEF PollSleep, Fail
    <3> QED
        BY <3>1, LogsAreLogs, ZenonT(30) DEF TypeOK
  <2> QED
        BY <1>14, <2>1 DEF PollSleep, Fail, AbandonedLease, TypeOK,
           Executing, Over, state, timer, body, fixed
<1>15. CASE CheckCanceled
  <2>1. log' \in Seq(Events)
    <3>1. \/ log' = log
          \/ log' = Append(Abandoned(log), "call_failed")
        BY <1>15 DEF CheckCanceled, Fail
    <3> QED
        BY <3>1, LogsAreLogs, ZenonT(30) DEF TypeOK
  <2> QED
        BY <1>15, <2>1 DEF CheckCanceled, Fail, AbandonedLease, TypeOK,
           Executing, Over, state, timer, body, fixed
<1>16. CASE RegisterCanceled
    BY <1>16 DEF RegisterCanceled, TypeOK, Executing, Over, Events, state,
       timer, body, fixed
<1>17. CASE BodyCheckCanceled
  <2>1. log' \in Seq(Events)
    <3>1. \/ log' = log
          \/ log' = Append(Abandoned(log), "call_failed")
        BY <1>17 DEF BodyCheckCanceled, Finish
    <3> QED
        BY <3>1, LogsAreLogs, ZenonT(30) DEF TypeOK
  <2> QED
        BY <1>17, <2>1 DEF BodyCheckCanceled, Finish, AbandonedLease, TypeOK,
           Executing, Over, state, timer, body, fixed
<1>18. CASE Decode
  <2>1. log' \in Seq(Events)
    <3>1. \/ log' = log
          \/ log' = Append(Append(StartBody(log), "response_body_failed"), "call_failed")
          \/ log' = Append(log, "call_failed")
          \/ log' = Append(Abandoned(log), "call_end")
        BY <1>18 DEF Decode, Finish
    <3> QED
        BY <3>1, LogsAreLogs, ZenonT(30) DEF TypeOK
  <2>2. lease' \in {lease, "discarded", "abandoned"} /\ force' \in BOOLEAN
        BY <1>18, ZenonT(30) DEF Decode, Finish, AbandonedLease, TypeOK, body
  <2>3. pc' \in {"ready", "held", "dcheck"}
        BY <1>18 DEF Decode, Finish
  <2>4. UNCHANGED <<signal, dwaker, drained, permit>>
        BY <1>18 DEF Decode, Finish, body
  <2> QED
        BY <1>18, <2>1, <2>2, <2>3, <2>4 DEF Decode, Finish, AbandonedLease,
           TypeOK, Executing,
           Over, state, timer, body, fixed
<1>19. CASE CheckDeadline
  <2>1. log' \in Seq(Events)
    <3>1. \/ log' = log
          \/ log' = Append(Append(StartBody(log), "response_body_failed"), "call_failed")
        BY <1>19 DEF CheckDeadline, BodyError
    <3> QED
        BY <3>1, LogsAreLogs, ZenonT(30) DEF TypeOK
  <2> QED
        BY <1>19, <2>1 DEF CheckDeadline, BodyError, Expired, TypeOK,
           Executing, Over, state, timer, body, fixed
<1>20. CASE RegisterDeadline
    BY <1>20 DEF RegisterDeadline, TypeOK, Executing, Over, Events, state,
       timer, body, fixed
<1>21. CASE FrameData
    BY <1>21, LogsAreLogs DEF FrameData, TypeOK, Executing, Over, Events,
       state, timer, body, fixed
<1>22. CASE FrameError
    BY <1>22, LogsAreLogs DEF FrameError, BodyError, TypeOK, Executing, Over,
       Events, state, timer, body, fixed
<1>23. CASE FrameEnd
  <2>1. log' \in Seq(Events)
    <3>1. \/ log' = Append(StartBody(log), "response_body_end")
          \/ log' = Append(Append(StartBody(log), "response_body_end"), "call_end")
        BY <1>23 DEF FrameEnd
    <3> QED
        BY <3>1, LogsAreLogs, ZenonT(30) DEF TypeOK
  <2> QED
        BY <1>23, <2>1 DEF FrameEnd, TypeOK, Executing, Over, state, timer,
           body, fixed
<1>24. CASE FramePending
    BY <1>24 DEF FramePending, TypeOK, Executing, Over, Events, state, timer,
       body, fixed
<1>25. CASE Woken
    BY <1>25 DEF Woken, TypeOK, Executing, Over, Events, state, timer, body,
       fixed, Waiting
<1>26. CASE SendFails
    BY <1>26, LogsAreLogs DEF SendFails, DropUnfinished, AbandonedLease,
       TypeOK, Executing, Over, Events, state, timer, body, fixed
<1>27. CASE Execute
    BY <1>27 DEF Execute, TypeOK, Executing, Over, Events, state, timer,
       body, fixed
<1>28. CASE Enqueue
    BY <1>28 DEF Enqueue, TypeOK, Executing, Over, Events, state, timer,
       body, fixed
<1>29. CASE DropQueuedCall
    BY <1>29 DEF DropQueuedCall, TypeOK, Executing, Over, Events, state,
       timer, body, fixed
<1>30. CASE AwaitResponse
    BY <1>30 DEF AwaitResponse, TypeOK, Executing, Over, Events, state,
       timer, body, fixed
<1>31. CASE DropResult
    BY <1>31, LogsAreLogs DEF DropResult, DropUnfinished, AbandonedLease,
       TypeOK, Executing, Over, Events, state, timer, body, fixed
<1>32. CASE DropExecution
    BY <1>32, LogsAreLogs DEF DropExecution, AbandonedLease, TypeOK,
       Executing, Over, Events, state, timer, body, fixed
<1>33. CASE DropBody
    BY <1>33, LogsAreLogs DEF DropBody, DropUnfinished, AbandonedLease,
       TypeOK, Executing, Over, Events, state, timer, body, fixed
<1>34. CASE DropFinished
    BY <1>34 DEF DropFinished, TypeOK, Executing, Over, Events, state, timer,
       body, fixed
<1>35. ASSUME NEW t \in Tasks, PollBody(t) PROVE TypeOK'
    BY <1>35 DEF PollBody, TypeOK, Executing, Over, Events, state, timer,
       body, fixed
<1>36. ASSUME NEW t \in Tasks, Repoll(t) PROVE TypeOK'
    BY <1>36 DEF Repoll, TypeOK, Executing, Over, Events, state, timer, body,
       fixed, Waiting
<1>37. CASE Finished
    BY <1>37 DEF Finished, vars, TypeOK, Executing, Over, Events, state, timer,
       body, fixed
<1>38. CASE UNCHANGED vars
    BY <1>38 DEF TypeOK, Executing, Over, Events, state, timer, body, fixed, vars
<1> QED
    BY <1>1, <1>2, <1>3, <1>4, <1>5, <1>6, <1>7, <1>8, <1>9, <1>10, <1>11,
       <1>12, <1>13, <1>14, <1>15, <1>16, <1>17, <1>18, <1>19, <1>20, <1>21,
       <1>22, <1>23, <1>24, <1>25, <1>26, <1>27, <1>28, <1>29, <1>30, <1>31,
       <1>32, <1>33, <1>34, <1>35, <1>36, <1>37, <1>38 DEF Next, Cancel,
       Sleeper,
       ExecutionStep, BodyStep, Caller

\* Every step keeps the lease, the permit and the flags where the call is.
LEMMA NextFlow == TypeOK /\ Flow /\ [Next]_vars => Flow'
<1> SUFFICES ASSUME TypeOK, Flow, [Next]_vars PROVE Flow'
    OBVIOUS
<1>1. ASSUME NEW h \in Handles, CancelStore(h) PROVE Flow'
    BY <1>1 DEF CancelStore, TypeOK, Flow, Bodies, Reading, Executing, Over,
       state, timer, body, fixed
<1>2. ASSUME NEW h \in Handles, CancelWake(h) PROVE Flow'
    BY <1>2 DEF CancelWake, Schedule, TypeOK, Flow, Bodies, Reading,
       Executing, Over, state, timer, body, fixed
<1>3. ASSUME NEW h \in Handles, CancelNotify(h) PROVE Flow'
    BY <1>3 DEF CancelNotify, TypeOK, Flow, Bodies, Reading, Executing, Over,
       state, timer, body, fixed
<1>4. CASE TimerFires
    BY <1>4 DEF TimerFires, Schedule, TypeOK, Flow, Bodies, Reading,
       Executing, Over, state, timer, body, fixed
<1>5. CASE SleeperStores
    BY <1>5 DEF SleeperStores, TypeOK, Flow, Bodies, Reading, Executing,
       Over, state, timer, body, fixed
<1>6. CASE SleeperWakes
    BY <1>6 DEF SleeperWakes, Schedule, TypeOK, Flow, Bodies, Reading,
       Executing, Over, state, timer, body, fixed
<1>7. CASE RunSpawned
    BY <1>7 DEF RunSpawned, TypeOK, Flow, Bodies, Reading, Executing, Over,
       state, timer, body, fixed
<1>8. CASE PreCheck
    BY <1>8 DEF PreCheck, Fail, AbandonedLease, TypeOK, Flow, Bodies,
       Reading, Executing, Over, state, timer, body, fixed
<1>9. CASE TransportResponds
    BY <1>9 DEF TransportResponds, TypeOK, Flow, Bodies, Reading, Executing,
       Over, state, timer, body, fixed
<1>10. CASE SleeperRefused
    BY <1>10 DEF SleeperRefused, TypeOK, Flow, Bodies, Reading, Executing,
       Over, state, timer, body, fixed
<1>11. CASE InnerFails
    BY <1>11 DEF InnerFails, Fail, AbandonedLease, TypeOK, Flow, Bodies,
       Reading, Executing, Over, state, timer, body, fixed
<1>12. CASE InnerReturns
    BY <1>12 DEF InnerReturns, TypeOK, Flow, Bodies, Reading, Executing,
       Over, state, timer, body, fixed
<1>13. CASE InnerPending
    BY <1>13 DEF InnerPending, TypeOK, Flow, Bodies, Reading, Executing,
       Over, state, timer, body, fixed
<1>14. CASE PollSleep
    BY <1>14 DEF PollSleep, Fail, AbandonedLease, TypeOK, Flow, Bodies,
       Reading, Executing, Over, state, timer, body, fixed
<1>15. CASE CheckCanceled
    BY <1>15 DEF CheckCanceled, Fail, AbandonedLease, TypeOK, Flow, Bodies,
       Reading, Executing, Over, state, timer, body, fixed
<1>16. CASE RegisterCanceled
    BY <1>16 DEF RegisterCanceled, TypeOK, Flow, Bodies, Reading, Executing,
       Over, state, timer, body, fixed
<1>17. CASE BodyCheckCanceled
    BY <1>17 DEF BodyCheckCanceled, Finish, AbandonedLease, TypeOK, Flow,
       Bodies, Reading, Executing, Over, state, timer, body, fixed
<1>18. CASE Decode
    BY <1>18 DEF Decode, Finish, AbandonedLease, TypeOK, Flow, Bodies,
       Reading, Executing, Over, state, timer, body, fixed
<1>19. CASE CheckDeadline
    BY <1>19 DEF CheckDeadline, BodyError, Expired, TypeOK, Flow, Bodies,
       Reading, Executing, Over, state, timer, body, fixed
<1>20. CASE RegisterDeadline
    BY <1>20 DEF RegisterDeadline, TypeOK, Flow, Bodies, Reading, Executing,
       Over, state, timer, body, fixed
<1>21. CASE FrameData
    BY <1>21 DEF FrameData, TypeOK, Flow, Bodies, Reading, Executing, Over,
       state, timer, body, fixed
<1>22. CASE FrameError
    BY <1>22 DEF FrameError, BodyError, TypeOK, Flow, Bodies, Reading,
       Executing, Over, state, timer, body, fixed
<1>23. CASE FrameEnd
    BY <1>23 DEF FrameEnd, TypeOK, Flow, Bodies, Reading, Executing, Over,
       state, timer, body, fixed
<1>24. CASE FramePending
    BY <1>24 DEF FramePending, TypeOK, Flow, Bodies, Reading, Executing,
       Over, state, timer, body, fixed
<1>25. CASE Woken
    BY <1>25 DEF Woken, TypeOK, Flow, Bodies, Reading, Executing, Over,
       state, timer, body, fixed, Waiting
<1>26. CASE SendFails
    BY <1>26 DEF SendFails, DropUnfinished, AbandonedLease, TypeOK, Flow,
       Bodies, Reading, Executing, Over, state, timer, body, fixed
<1>27. CASE Execute
    BY <1>27 DEF Execute, TypeOK, Flow, Bodies, Reading, Executing, Over,
       state, timer, body, fixed
<1>28. CASE Enqueue
    BY <1>28 DEF Enqueue, TypeOK, Flow, Bodies, Reading, Executing, Over,
       state, timer, body, fixed
<1>29. CASE DropQueuedCall
    BY <1>29 DEF DropQueuedCall, TypeOK, Flow, Bodies, Reading, Executing,
       Over, state, timer, body, fixed
<1>30. CASE AwaitResponse
    BY <1>30 DEF AwaitResponse, TypeOK, Flow, Bodies, Reading, Executing,
       Over, state, timer, body, fixed
<1>31. CASE DropResult
    BY <1>31 DEF DropResult, DropUnfinished, AbandonedLease, TypeOK, Flow,
       Bodies, Reading, Executing, Over, state, timer, body, fixed
<1>32. CASE DropExecution
    BY <1>32 DEF DropExecution, AbandonedLease, TypeOK, Flow, Bodies,
       Reading, Executing, Over, state, timer, body, fixed
<1>33. CASE DropBody
    BY <1>33 DEF DropBody, DropUnfinished, AbandonedLease, TypeOK, Flow,
       Bodies, Reading, Executing, Over, state, timer, body, fixed
<1>34. CASE DropFinished
    BY <1>34 DEF DropFinished, TypeOK, Flow, Bodies, Reading, Executing,
       Over, state, timer, body, fixed
<1>35. ASSUME NEW t \in Tasks, PollBody(t) PROVE Flow'
    BY <1>35 DEF PollBody, TypeOK, Flow, Bodies, Reading, Executing, Over,
       state, timer, body, fixed
<1>36. ASSUME NEW t \in Tasks, Repoll(t) PROVE Flow'
    BY <1>36 DEF Repoll, TypeOK, Flow, Bodies, Reading, Executing, Over,
       state, timer, body, fixed, Waiting
<1>37. CASE Finished
    BY <1>37 DEF Finished, vars, TypeOK, Flow, Bodies, Reading, Executing, Over,
       state, timer, body, fixed
<1>38. CASE UNCHANGED vars
    BY <1>38 DEF TypeOK, Flow, Bodies, Reading, Executing, Over, state, timer,
       body, fixed, vars
<1> QED
    BY <1>1, <1>2, <1>3, <1>4, <1>5, <1>6, <1>7, <1>8, <1>9, <1>10, <1>11,
       <1>12, <1>13, <1>14, <1>15, <1>16, <1>17, <1>18, <1>19, <1>20, <1>21,
       <1>22, <1>23, <1>24, <1>25, <1>26, <1>27, <1>28, <1>29, <1>30, <1>31,
       <1>32, <1>33, <1>34, <1>35, <1>36, <1>37, <1>38 DEF Next, Cancel,
       Sleeper,
       ExecutionStep, BodyStep, Caller

\* No step loses a cancellation: poll_canceled looks, registers and looks
\* again, and cancel() stores before it wakes.
LEMMA NextCancels == TypeOK /\ Cancels /\ [Next]_vars => Cancels'
<1> SUFFICES ASSUME TypeOK, Cancels, [Next]_vars PROVE Cancels'
    OBVIOUS
<1>1. ASSUME NEW h \in Handles, CancelStore(h) PROVE Cancels'
    BY <1>1 DEF CancelStore, TypeOK, Cancels, Guarded, state, timer, body,
       fixed
<1>2. ASSUME NEW h \in Handles, CancelWake(h) PROVE Cancels'
    BY <1>2, NoTaskIsNoTask DEF CancelWake, Schedule, TypeOK, Cancels,
       Guarded, state, timer, body, fixed
<1>3. ASSUME NEW h \in Handles, CancelNotify(h) PROVE Cancels'
    BY <1>3 DEF CancelNotify, TypeOK, Cancels, Guarded, state, timer, body,
       fixed
<1>4. CASE TimerFires
    BY <1>4, NoTaskIsNoTask DEF TimerFires, Schedule, TypeOK, Cancels,
       Guarded, state, timer, body, fixed
<1>5. CASE SleeperStores
    BY <1>5 DEF SleeperStores, TypeOK, Cancels, Guarded, state, timer, body,
       fixed
<1>6. CASE SleeperWakes
    BY <1>6, NoTaskIsNoTask DEF SleeperWakes, Schedule, TypeOK, Cancels,
       Guarded, state, timer, body, fixed
<1>7. CASE RunSpawned
    BY <1>7 DEF RunSpawned, TypeOK, Cancels, Guarded, state, timer, body,
       fixed
<1>8. CASE PreCheck
    BY <1>8 DEF PreCheck, Fail, AbandonedLease, TypeOK, Cancels, Guarded,
       state, timer, body, fixed
<1>9. CASE TransportResponds
    BY <1>9 DEF TransportResponds, TypeOK, Cancels, Guarded, state, timer,
       body, fixed
<1>10. CASE SleeperRefused
    BY <1>10 DEF SleeperRefused, TypeOK, Cancels, Guarded, state, timer,
       body, fixed
<1>11. CASE InnerFails
    BY <1>11 DEF InnerFails, Fail, AbandonedLease, TypeOK, Cancels, Guarded,
       state, timer, body, fixed
<1>12. CASE InnerReturns
    BY <1>12 DEF InnerReturns, TypeOK, Cancels, Guarded, state, timer, body,
       fixed
<1>13. CASE InnerPending
    BY <1>13 DEF InnerPending, TypeOK, Cancels, Guarded, state, timer, body,
       fixed
<1>14. CASE PollSleep
    BY <1>14 DEF PollSleep, Fail, AbandonedLease, TypeOK, Cancels, Guarded,
       state, timer, body, fixed
<1>15. CASE CheckCanceled
    BY <1>15 DEF CheckCanceled, Fail, AbandonedLease, TypeOK, Cancels,
       Guarded, state, timer, body, fixed
<1>16. CASE RegisterCanceled
    BY <1>16 DEF RegisterCanceled, TypeOK, Cancels, Guarded, state, timer,
       body, fixed
<1>17. CASE BodyCheckCanceled
    BY <1>17 DEF BodyCheckCanceled, Finish, AbandonedLease, TypeOK, Cancels,
       Guarded, state, timer, body, fixed
<1>18. CASE Decode
    BY <1>18 DEF Decode, Finish, AbandonedLease, TypeOK, Cancels, Guarded,
       state, timer, body, fixed
<1>19. CASE CheckDeadline
    BY <1>19 DEF CheckDeadline, BodyError, Expired, TypeOK, Cancels, Guarded,
       state, timer, body, fixed
<1>20. CASE RegisterDeadline
    BY <1>20 DEF RegisterDeadline, TypeOK, Cancels, Guarded, state, timer,
       body, fixed
<1>21. CASE FrameData
    BY <1>21 DEF FrameData, TypeOK, Cancels, Guarded, state, timer, body,
       fixed
<1>22. CASE FrameError
    BY <1>22 DEF FrameError, BodyError, TypeOK, Cancels, Guarded, state,
       timer, body, fixed
<1>23. CASE FrameEnd
    BY <1>23 DEF FrameEnd, TypeOK, Cancels, Guarded, state, timer, body, fixed
<1>24. CASE FramePending
    BY <1>24 DEF FramePending, TypeOK, Cancels, Guarded, state, timer, body,
       fixed
<1>25. CASE Woken
    BY <1>25 DEF Woken, TypeOK, Cancels, Guarded, state, timer, body, fixed,
       Waiting
<1>26. CASE SendFails
    BY <1>26 DEF SendFails, DropUnfinished, AbandonedLease, TypeOK, Cancels,
       Guarded, state, timer, body, fixed
<1>27. CASE Execute
    BY <1>27 DEF Execute, TypeOK, Cancels, Guarded, state, timer, body, fixed
<1>28. CASE Enqueue
    BY <1>28 DEF Enqueue, TypeOK, Cancels, Guarded, state, timer, body, fixed
<1>29. CASE DropQueuedCall
    BY <1>29 DEF DropQueuedCall, TypeOK, Cancels, Guarded, state, timer,
       body, fixed
<1>30. CASE AwaitResponse
    BY <1>30 DEF AwaitResponse, TypeOK, Cancels, Guarded, state, timer, body,
       fixed
<1>31. CASE DropResult
    BY <1>31 DEF DropResult, DropUnfinished, AbandonedLease, TypeOK, Cancels,
       Guarded, state, timer, body, fixed
<1>32. CASE DropExecution
    BY <1>32 DEF DropExecution, AbandonedLease, TypeOK, Cancels, Guarded,
       state, timer, body, fixed
<1>33. CASE DropBody
    BY <1>33 DEF DropBody, DropUnfinished, AbandonedLease, TypeOK, Cancels,
       Guarded, state, timer, body, fixed
<1>34. CASE DropFinished
    BY <1>34 DEF DropFinished, TypeOK, Cancels, Guarded, state, timer, body,
       fixed
<1>35. ASSUME NEW t \in Tasks, PollBody(t) PROVE Cancels'
    BY <1>35 DEF PollBody, TypeOK, Cancels, Guarded, state, timer, body, fixed
<1>36. ASSUME NEW t \in Tasks, Repoll(t) PROVE Cancels'
    BY <1>36 DEF Repoll, TypeOK, Cancels, Guarded, state, timer, body, fixed,
       Waiting
<1>37. CASE Finished
    BY <1>37 DEF Finished, vars, TypeOK, Cancels, Guarded, state, timer, body, fixed
<1>38. CASE UNCHANGED vars
    BY <1>38 DEF TypeOK, Cancels, Guarded, state, timer, body, fixed, vars
<1> QED
    BY <1>1, <1>2, <1>3, <1>4, <1>5, <1>6, <1>7, <1>8, <1>9, <1>10, <1>11,
       <1>12, <1>13, <1>14, <1>15, <1>16, <1>17, <1>18, <1>19, <1>20, <1>21,
       <1>22, <1>23, <1>24, <1>25, <1>26, <1>27, <1>28, <1>29, <1>30, <1>31,
       <1>32, <1>33, <1>34, <1>35, <1>36, <1>37, <1>38 DEF Next, Cancel,
       Sleeper,
       ExecutionStep, BodyStep, Caller

\* No step loses a deadline: the sleep is polled with the task's waker, and
\* poll_deadline looks, registers and looks again.
LEMMA NextDeadlines == TypeOK /\ Flow /\ Deadlines /\ [Next]_vars => Deadlines'
<1> SUFFICES ASSUME TypeOK, Flow, Deadlines, [Next]_vars PROVE Deadlines'
    OBVIOUS
<1>1. ASSUME NEW h \in Handles, CancelStore(h) PROVE Deadlines'
    BY <1>1 DEF CancelStore, TypeOK, Flow, Deadlines, Bodies, Reading,
       Executing, state, timer, body, fixed
<1>2. ASSUME NEW h \in Handles, CancelWake(h) PROVE Deadlines'
    BY <1>2, NoTaskIsNoTask DEF CancelWake, Schedule, TypeOK, Flow,
       Deadlines, Bodies, Reading, Executing, state, timer, body, fixed
<1>3. ASSUME NEW h \in Handles, CancelNotify(h) PROVE Deadlines'
    BY <1>3 DEF CancelNotify, TypeOK, Flow, Deadlines, Bodies, Reading,
       Executing, state, timer, body, fixed
<1>4. CASE TimerFires
    BY <1>4, NoTaskIsNoTask DEF TimerFires, Schedule, TypeOK, Flow,
       Deadlines, Bodies, Reading, Executing, state, timer, body, fixed
<1>5. CASE SleeperStores
    BY <1>5 DEF SleeperStores, TypeOK, Flow, Deadlines, Bodies, Reading,
       Executing, state, timer, body, fixed
<1>6. CASE SleeperWakes
    BY <1>6, NoTaskIsNoTask DEF SleeperWakes, Schedule, TypeOK, Flow,
       Deadlines, Bodies, Reading, Executing, state, timer, body, fixed
<1>7. CASE RunSpawned
    BY <1>7 DEF RunSpawned, TypeOK, Flow, Deadlines, Bodies, Reading,
       Executing, state, timer, body, fixed
<1>8. CASE PreCheck
    BY <1>8 DEF PreCheck, Fail, AbandonedLease, TypeOK, Flow, Deadlines,
       Bodies, Reading, Executing, state, timer, body, fixed
<1>9. CASE TransportResponds
    BY <1>9 DEF TransportResponds, TypeOK, Flow, Deadlines, Bodies, Reading,
       Executing, state, timer, body, fixed
<1>10. CASE SleeperRefused
    BY <1>10 DEF SleeperRefused, TypeOK, Flow, Deadlines, Bodies, Reading,
       Executing, state, timer, body, fixed
<1>11. CASE InnerFails
    BY <1>11 DEF InnerFails, Fail, AbandonedLease, TypeOK, Flow, Deadlines,
       Bodies, Reading, Executing, state, timer, body, fixed
<1>12. CASE InnerReturns
    BY <1>12 DEF InnerReturns, TypeOK, Flow, Deadlines, Bodies, Reading,
       Executing, state, timer, body, fixed
<1>13. CASE InnerPending
    BY <1>13 DEF InnerPending, TypeOK, Flow, Deadlines, Bodies, Reading,
       Executing, state, timer, body, fixed
<1>14. CASE PollSleep
    BY <1>14 DEF PollSleep, Fail, AbandonedLease, TypeOK, Flow, Deadlines,
       Bodies, Reading, Executing, state, timer, body, fixed
<1>15. CASE CheckCanceled
    BY <1>15 DEF CheckCanceled, Fail, AbandonedLease, TypeOK, Flow,
       Deadlines, Bodies, Reading, Executing, state, timer, body, fixed
<1>16. CASE RegisterCanceled
    BY <1>16 DEF RegisterCanceled, TypeOK, Flow, Deadlines, Bodies, Reading,
       Executing, state, timer, body, fixed
<1>17. CASE BodyCheckCanceled
    BY <1>17 DEF BodyCheckCanceled, Finish, AbandonedLease, TypeOK, Flow,
       Deadlines, Bodies, Reading, Executing, state, timer, body, fixed
<1>18. CASE Decode
    BY <1>18 DEF Decode, Finish, AbandonedLease, TypeOK, Flow, Deadlines,
       Bodies, Reading, Executing, state, timer, body, fixed
<1>19. CASE CheckDeadline
    BY <1>19 DEF CheckDeadline, BodyError, Expired, TypeOK, Flow, Deadlines,
       Bodies, Reading, Executing, state, timer, body, fixed
<1>20. CASE RegisterDeadline
    BY <1>20 DEF RegisterDeadline, TypeOK, Flow, Deadlines, Bodies, Reading,
       Executing, state, timer, body, fixed
<1>21. CASE FrameData
    BY <1>21 DEF FrameData, TypeOK, Flow, Deadlines, Bodies, Reading,
       Executing, state, timer, body, fixed
<1>22. CASE FrameError
    BY <1>22 DEF FrameError, BodyError, TypeOK, Flow, Deadlines, Bodies,
       Reading, Executing, state, timer, body, fixed
<1>23. CASE FrameEnd
    BY <1>23 DEF FrameEnd, TypeOK, Flow, Deadlines, Bodies, Reading,
       Executing, state, timer, body, fixed
<1>24. CASE FramePending
    BY <1>24 DEF FramePending, TypeOK, Flow, Deadlines, Bodies, Reading,
       Executing, state, timer, body, fixed
<1>25. CASE Woken
    BY <1>25 DEF Woken, TypeOK, Flow, Deadlines, Bodies, Reading, Executing,
       state, timer, body, fixed, Waiting
<1>26. CASE SendFails
    BY <1>26 DEF SendFails, DropUnfinished, AbandonedLease, TypeOK, Flow,
       Deadlines, Bodies, Reading, Executing, state, timer, body, fixed
<1>27. CASE Execute
    BY <1>27 DEF Execute, TypeOK, Flow, Deadlines, Bodies, Reading,
       Executing, state, timer, body, fixed
<1>28. CASE Enqueue
    BY <1>28 DEF Enqueue, TypeOK, Flow, Deadlines, Bodies, Reading,
       Executing, state, timer, body, fixed
<1>29. CASE DropQueuedCall
    BY <1>29 DEF DropQueuedCall, TypeOK, Flow, Deadlines, Bodies, Reading,
       Executing, state, timer, body, fixed
<1>30. CASE AwaitResponse
    BY <1>30 DEF AwaitResponse, TypeOK, Flow, Deadlines, Bodies, Reading,
       Executing, state, timer, body, fixed
<1>31. CASE DropResult
    BY <1>31 DEF DropResult, DropUnfinished, AbandonedLease, TypeOK, Flow,
       Deadlines, Bodies, Reading, Executing, state, timer, body, fixed
<1>32. CASE DropExecution
    BY <1>32 DEF DropExecution, AbandonedLease, TypeOK, Flow, Deadlines,
       Bodies, Reading, Executing, state, timer, body, fixed
<1>33. CASE DropBody
    BY <1>33 DEF DropBody, DropUnfinished, AbandonedLease, TypeOK, Flow,
       Deadlines, Bodies, Reading, Executing, state, timer, body, fixed
<1>34. CASE DropFinished
    BY <1>34 DEF DropFinished, TypeOK, Flow, Deadlines, Bodies, Reading,
       Executing, state, timer, body, fixed
<1>35. ASSUME NEW t \in Tasks, PollBody(t) PROVE Deadlines'
    BY <1>35 DEF PollBody, TypeOK, Flow, Deadlines, Bodies, Reading,
       Executing, state, timer, body, fixed
<1>36. ASSUME NEW t \in Tasks, Repoll(t) PROVE Deadlines'
    BY <1>36 DEF Repoll, TypeOK, Flow, Deadlines, Bodies, Reading, Executing,
       state, timer, body, fixed, Waiting
<1>37. CASE Finished
    BY <1>37 DEF Finished, vars, TypeOK, Flow, Deadlines, Bodies, Reading,
       Executing, state, timer, body, fixed
<1>38. CASE UNCHANGED vars
    BY <1>38 DEF TypeOK, Flow, Deadlines, Bodies, Reading, Executing, state,
       timer, body, fixed, vars
<1> QED
    BY <1>1, <1>2, <1>3, <1>4, <1>5, <1>6, <1>7, <1>8, <1>9, <1>10, <1>11,
       <1>12, <1>13, <1>14, <1>15, <1>16, <1>17, <1>18, <1>19, <1>20, <1>21,
       <1>22, <1>23, <1>24, <1>25, <1>26, <1>27, <1>28, <1>29, <1>30, <1>31,
       <1>32, <1>33, <1>34, <1>35, <1>36, <1>37, <1>38 DEF Next, Cancel,
       Sleeper,
       ExecutionStep, BodyStep, Caller

-----------------------------------------------------------------------------
\* An event told is added to what was told.
LEMMA AppendRange ==
    ASSUME NEW l \in Seq(Events), NEW e \in Events
    PROVE  Range(Append(l, e)) = Range(l) \cup {e}
<1>1. DOMAIN Append(l, e) = DOMAIN l \cup {Len(l) + 1}
    OBVIOUS
<1>2. \A i \in DOMAIN l : Append(l, e)[i] = l[i]
    OBVIOUS
<1>3. Append(l, e)[Len(l) + 1] = e
    OBVIOUS
<1> QED
    BY <1>1, <1>2, <1>3 DEF Range

\* An event that may come next keeps the story in order.
LEMMA StoryAppend ==
    ASSUME NEW l \in Seq(Events), NEW e \in Events, Story(l),
           Range(l) \cap Terminals = {},
           e \in {"call_start", "response_body_start"} => e \notin Range(l),
           e \in BodyEnds => /\ "response_body_start" \in Range(l)
                             /\ Range(l) \cap BodyEnds = {}
    PROVE  Story(Append(l, e))
<1> DEFINE m == Append(l, e)
<1>1. DOMAIN m = 1..(Len(l) + 1) /\ DOMAIN l = 1..Len(l) /\ Len(l) \in Nat
    OBVIOUS
<1>2. \A i \in DOMAIN l : m[i] = l[i]
    OBVIOUS
<1>3. m[Len(l) + 1] = e /\ Len(m) = Len(l) + 1
    OBVIOUS
<1>4. \A i \in DOMAIN l : l[i] \in Range(l)
    BY DEF Range
<1> HIDE DEF m
<1>5. ASSUME NEW S, OnceIn(l, S), e \in S => Range(l) \cap S = {}
      PROVE  OnceIn(m, S)
    BY <1>1, <1>2, <1>3, <1>4, <1>5 DEF OnceIn
<1>6. OnceIn(m, {"call_start"}) /\ OnceIn(m, {"response_body_start"})
    BY <1>5 DEF Story
<1>7. OnceIn(m, Terminals) /\ OnceIn(m, BodyEnds)
    BY <1>5 DEF Story
<1>8. ASSUME NEW i \in DOMAIN m, m[i] \in BodyEnds
      PROVE  \E j \in 1..(i-1) : m[j] = "response_body_start"
  <2>1. CASE i \in DOMAIN l
        BY <1>1, <1>2, <1>8, <2>1 DEF Story
  <2>2. CASE i = Len(l) + 1
    <3>1. PICK j \in DOMAIN l : l[j] = "response_body_start"
        BY <1>3, <1>8, <2>2 DEF Range
    <3> QED
        BY <1>1, <1>2, <2>2, <3>1
  <2> QED
        BY <1>1, <2>1, <2>2
<1>9. \A i \in DOMAIN m : m[i] \in Terminals => i = Len(m)
    BY <1>1, <1>2, <1>3, <1>4
<1> QED
    BY <1>6, <1>7, <1>8, <1>9 DEF Story, m

\* ensure_body_started, told in a story that is not over.
LEMMA StoryStart ==
    ASSUME TypeOK, Story(log), ~Reported(Terminals)
    PROVE  /\ StartBody(log) \in Seq(Events)
           /\ Story(StartBody(log))
           /\ Range(StartBody(log)) = Range(log) \cup {"response_body_start"}
<1>1. log \in Seq(Events) /\ Range(log) \cap Terminals = {}
    BY DEF TypeOK, Reported, Told
<1>2. CASE Told("response_body_start")
    BY <1>1, <1>2 DEF StartBody, Told
<1>3. CASE ~Told("response_body_start")
  <2>1. StartBody(log) = Append(log, "response_body_start")
        BY <1>3 DEF StartBody
  <2>2. "response_body_start" \in Events /\ "response_body_start" \notin BodyEnds
        BY DEF Events, BodyEnds
  <2>3. Story(StartBody(log))
        BY <1>1, <1>3, <2>1, <2>2, StoryAppend DEF Told
  <2> QED
        BY <1>1, <2>1, <2>2, <2>3, AppendRange
<1> QED
    BY <1>2, <1>3

\* The end of the incoming body, told in a story that has none.
LEMMA StoryBodyEnd ==
    ASSUME TypeOK, Story(log), ~Reported(Terminals), ~Reported(BodyEnds),
           NEW e \in BodyEnds
    PROVE  /\ Append(StartBody(log), e) \in Seq(Events)
           /\ Story(Append(StartBody(log), e))
           /\ Range(Append(StartBody(log), e)) =
                 Range(log) \cup {"response_body_start", e}
<1> DEFINE l == StartBody(log)
<1>1. /\ l \in Seq(Events) /\ Story(l)
      /\ Range(l) = Range(log) \cup {"response_body_start"}
    BY StoryStart
<1>2. e \in Events /\ e \notin {"call_start", "response_body_start"}
    BY DEF Events, BodyEnds
<1>3. Range(l) \cap Terminals = {} /\ Range(l) \cap BodyEnds = {}
    BY <1>1 DEF Reported, Told, Terminals, BodyEnds
<1> HIDE DEF l
<1>4. Story(Append(l, e))
    BY <1>1, <1>2, <1>3, StoryAppend
<1>5. Range(Append(l, e)) = Range(l) \cup {e}
    BY <1>1, <1>2, AppendRange
<1> QED
    BY <1>1, <1>2, <1>4, <1>5 DEF l

\* The last word.
LEMMA StoryTerminal ==
    ASSUME NEW l \in Seq(Events), Story(l), Range(l) \cap Terminals = {},
           NEW e \in Terminals
    PROVE  /\ Story(Append(l, e))
           /\ Range(Append(l, e)) = Range(l) \cup {e}
<1>1. e \in Events /\ e \notin {"call_start", "response_body_start"} \cup BodyEnds
    BY DEF Events, Terminals, BodyEnds
<1> QED
    BY <1>1, StoryAppend, AppendRange

\* What the end of a call adds to the story, with the body that goes with it.
LEMMA StoryEnds ==
    ASSUME TypeOK, Story(log), ~Reported(Terminals),
           lease = "held" => ~Reported(BodyEnds),
           NEW e \in Terminals
    PROVE  /\ Story(Abandoned(log)) /\ Story(Append(Abandoned(log), e))
           /\ Range(Append(Abandoned(log), e)) = Range(Abandoned(log)) \cup {e}
           /\ lease # "held" => Range(Abandoned(log)) = Range(log)
           /\ lease = "held" /\ ~force =>
                 Range(Abandoned(log)) =
                    Range(log) \cup {"response_body_start", "response_body_end"}
<1>1. /\ Abandoned(log) \in Seq(Events) /\ Story(Abandoned(log))
      /\ lease # "held" => Range(Abandoned(log)) = Range(log)
      /\ lease = "held" /\ ~force =>
            Range(Abandoned(log)) =
               Range(log) \cup {"response_body_start", "response_body_end"}
      /\ Range(Abandoned(log)) \cap Terminals = {}
  <2>1. CASE lease # "held"
        BY <2>1 DEF Abandoned, TypeOK, Reported, Told
  <2>2. CASE lease = "held"
    <3> DEFINE d == IF force THEN "response_body_failed" ELSE "response_body_end"
    <3>1. Abandoned(log) = Append(StartBody(log), d)
        BY <2>2 DEF Abandoned
    <3>2. d \in BodyEnds /\ (~force => d = "response_body_end")
        BY DEF BodyEnds
    <3> HIDE DEF d
    <3>3. /\ Abandoned(log) \in Seq(Events) /\ Story(Abandoned(log))
          /\ Range(Abandoned(log)) = Range(log) \cup {"response_body_start", d}
        BY <2>2, <3>1, <3>2, StoryBodyEnd
    <3>4. Range(Abandoned(log)) \cap Terminals = {}
        BY <3>2, <3>3 DEF Reported, Told, Terminals, BodyEnds
    <3> QED
        BY <2>2, <3>2, <3>3, <3>4
  <2> QED
        BY <2>1, <2>2
<1> QED
    BY <1>1, StoryTerminal

\* A call that ends, by Fail, Finish or DropUnfinished.
LEMMA EndsHears ==
    ASSUME TypeOK, Flow, Hears, pc \in Executing \cup Bodies \cup {"sent"},
           NEW e \in Terminals,
           log' = Append(Abandoned(log), e), lease' = AbandonedLease,
           pc' \in {"failed", "held", "gone"},
           doomed' => canceled' /\ pc' # "failed" /\ e = "call_failed"
    PROVE  Hears'
<1>1. /\ ~Reported(Terminals) /\ Story(log) /\ Told("call_start")
      /\ ~Told("response_body_failed")
      /\ lease \in {"none", "held", "released"} /\ ~force
    BY DEF Hears, Flow, Executing, Bodies, TypeOK
<1>2. lease = "held" => ~Reported(BodyEnds)
    BY <1>1 DEF Hears, Reported, BodyEnds
<1>3. /\ Story(log') /\ Range(log') = Range(Abandoned(log)) \cup {e}
      /\ lease # "held" => Range(Abandoned(log)) = Range(log)
      /\ lease = "held" =>
            Range(Abandoned(log)) =
               Range(log) \cup {"response_body_start", "response_body_end"}
    BY <1>1, <1>2, StoryEnds
<1>4. lease' = IF lease = "held" THEN "abandoned" ELSE lease
    BY <1>1 DEF AbandonedLease
<1> QED
    BY <1>1, <1>3, <1>4 DEF Hears, Told, Reported, Terminals

\* The incoming body fails, and the call with it.
LEMMA BodyFails ==
    ASSUME TypeOK, Flow, Hears, pc \in Bodies, lease = "held", ~doomed',
           log' = Append(Append(StartBody(log), "response_body_failed"), "call_failed"),
           lease' = "discarded", pc' = "held"
    PROVE  Hears'
<1> DEFINE l == Append(StartBody(log), "response_body_failed")
<1>1. /\ ~Reported(Terminals) /\ ~Reported(BodyEnds) /\ Story(log)
      /\ Told("call_start")
    BY DEF Hears, Bodies, Reported, BodyEnds
<1>2. "response_body_failed" \in BodyEnds /\ "call_failed" \in Terminals
    BY DEF BodyEnds, Terminals
<1>3. /\ l \in Seq(Events) /\ Story(l)
      /\ Range(l) = Range(log) \cup {"response_body_start", "response_body_failed"}
    BY <1>1, <1>2, StoryBodyEnd
<1>4. Range(l) \cap Terminals = {}
    BY <1>1, <1>3 DEF Reported, Told, Terminals
<1> HIDE DEF l
<1>5. Story(Append(l, "call_failed"))
      /\ Range(Append(l, "call_failed")) = Range(l) \cup {"call_failed"}
    BY <1>2, <1>3, <1>4, StoryTerminal
<1>6. log' = Append(l, "call_failed")
    BY DEF l
<1>7. Range(log') = Range(log) \cup {"response_body_start", "response_body_failed",
                                    "call_failed"}
    BY <1>3, <1>5, <1>6, ZenonT(30)
<1>8. ~Told("call_end") /\ ~Told("response_body_end")
    BY <1>1 DEF Reported, Terminals, BodyEnds
<1>9. /\ Told("call_start")' /\ Reported(Terminals)' /\ ~Told("response_body_end")'
      /\ Told("response_body_failed")' /\ ~Told("call_end")'
    BY <1>1, <1>7, <1>8 DEF Told, Reported, Terminals
<1> QED
    BY <1>5, <1>6, <1>9, ZenonT(30) DEF Hears

\* Every step tells the listener what belongs to where the call goes.
LEMMA NextHears == TypeOK /\ Flow /\ Hears /\ [Next]_vars => Hears'
<1> SUFFICES ASSUME TypeOK, Flow, Hears, [Next]_vars PROVE Hears'
    OBVIOUS
<1>1. ASSUME NEW h \in Handles, CancelStore(h) PROVE Hears'
    BY <1>1 DEF CancelStore, TypeOK, Hears, Told, Reported, state, timer,
           body, fixed
<1>2. ASSUME NEW h \in Handles, CancelWake(h) PROVE Hears'
    BY <1>2 DEF CancelWake, TypeOK, Hears, Told, Reported, state, timer,
           body, fixed
<1>3. ASSUME NEW h \in Handles, CancelNotify(h) PROVE Hears'
    BY <1>3 DEF CancelNotify, TypeOK, Hears, Told, Reported, state, timer,
           body, fixed
<1>4. CASE TimerFires
    BY <1>4 DEF TimerFires, TypeOK, Hears, Told, Reported, state, timer,
           body, fixed
<1>5. CASE SleeperStores
    BY <1>5 DEF SleeperStores, TypeOK, Hears, Told, Reported, state, timer,
           body, fixed
<1>6. CASE SleeperWakes
    BY <1>6 DEF SleeperWakes, TypeOK, Hears, Told, Reported, state, timer,
           body, fixed
<1>7. CASE RunSpawned
  <2>1. log \in Seq(Events) /\ "call_start" \in Events
        BY DEF TypeOK, Events
  <2>2. Range(log) \subseteq {"dispatcher_queue_start"} /\ Story(log)
        BY <1>7 DEF RunSpawned, Hears
  <2>3. Range(log') = Range(log) \cup {"call_start"}
        BY <1>7, <2>1, AppendRange DEF RunSpawned
  <2>4. Story(log')
        BY <1>7, <2>1, <2>2, StoryAppend DEF RunSpawned, Terminals, BodyEnds
  <2> QED
        BY <1>7, <2>2, <2>3, <2>4 DEF RunSpawned, TypeOK, Hears,
           Told, Reported, state, timer, body, fixed, Terminals
<1>8. CASE PreCheck
  <2>1. CASE Fail
        BY <1>8, <2>1, EndsHears DEF PreCheck, Fail, Executing, Terminals,
           Hears, state
  <2>2. CASE pc' = "inner" /\ UNCHANGED <<body, log>>
    <3>1. pc \in Executing /\ UNCHANGED <<canceled, doomed, log, lease>>
        BY <1>8, <2>2 DEF PreCheck, Executing, body, state
    <3> QED
        BY <2>2, <3>1 DEF Hears, Told, Reported, Executing
  <2> QED
        BY <1>8, <2>1, <2>2 DEF PreCheck
<1>9. CASE TransportResponds
    BY <1>9 DEF TransportResponds, TypeOK, Hears, Told, Reported, state,
           timer, body, fixed
<1>10. CASE SleeperRefused
  <2>1. /\ log \in Seq(Events) /\ Story(log) /\ Range(log) \cap Terminals = {}
        /\ "call_failed" \in Terminals
        BY <1>10 DEF SleeperRefused, TypeOK, Hears, Reported, Told, Terminals
  <2>2. Story(log') /\ Range(log') = Range(log) \cup {"call_failed"}
        BY <1>10, <2>1, StoryTerminal DEF SleeperRefused
  <2> QED
        BY <1>10, <2>1, <2>2 DEF SleeperRefused, TypeOK, Hears, Told,
           Reported, state, timer, body, fixed, Terminals
<1>11. CASE InnerFails
    BY <1>11, EndsHears DEF InnerFails, Fail, Executing, Terminals, Hears, state
<1>12. CASE InnerReturns
    BY <1>12 DEF InnerReturns, TypeOK, Hears, Told, Reported, state, timer,
           body, fixed
<1>13. CASE InnerPending
    BY <1>13 DEF InnerPending, TypeOK, Hears, Told, Reported, state, timer,
           body, fixed
<1>14. CASE PollSleep
  <2>1. CASE Fail
        BY <1>14, <2>1, EndsHears DEF PollSleep, Fail, Executing, Terminals,
           Hears, state
  <2>2. CASE pc' = "check" /\ UNCHANGED <<body, log>>
    <3>1. pc \in Executing /\ UNCHANGED <<canceled, doomed, log, lease>>
        BY <1>14, <2>2 DEF PollSleep, Executing, body, state
    <3> QED
        BY <2>2, <3>1 DEF Hears, Told, Reported, Executing
  <2> QED
        BY <1>14, <2>1, <2>2 DEF PollSleep
<1>15. CASE CheckCanceled
  <2>1. CASE Fail
        BY <1>15, <2>1, EndsHears DEF CheckCanceled, Fail, Executing,
           Terminals, Hears, state
  <2>2. CASE pc' \in {"register", "parked"} /\ UNCHANGED <<body, log>>
    <3>1. pc \in Executing /\ UNCHANGED <<canceled, doomed, log, lease>>
        BY <1>15, <2>2 DEF CheckCanceled, Executing, body, state
    <3> QED
        BY <2>2, <3>1 DEF Hears, Told, Reported, Executing
  <2> QED
        BY <1>15, <2>1, <2>2 DEF CheckCanceled
<1>16. CASE RegisterCanceled
    BY <1>16 DEF RegisterCanceled, TypeOK, Hears, Told, Reported, state,
           timer, body, fixed
<1>17. CASE BodyCheckCanceled
  <2>1. CASE Finish("call_failed")
        BY <1>17, <2>1, EndsHears DEF BodyCheckCanceled, Finish, Bodies,
           Terminals, Hears, state
  <2>2. CASE ~canceled /\ UNCHANGED <<body, log>>
        BY <1>17, <2>2 DEF BodyCheckCanceled, Finish, TypeOK, Hears, Told,
           Reported, state, timer, body, fixed
  <2> QED
        BY <1>17, <2>1, <2>2 DEF BodyCheckCanceled
<1>18. CASE Decode
  <2>1. CASE pc' \in {"ready", "dcheck"} /\ UNCHANGED <<body, log>>
        BY <1>18, <2>1 DEF Decode, Finish, TypeOK, Hears, Told, Reported,
           state, timer, body, fixed
  <2>2. CASE /\ pc' = "held"
             /\ log' = Append(IF lease # "held" THEN log
                              ELSE Append(StartBody(log), "response_body_failed"),
                              "call_failed")
             /\ lease' = IF lease = "held" THEN "discarded" ELSE lease
    <3>1. CASE lease = "held"
        BY <1>18, <2>2, <3>1, BodyFails DEF Decode, Bodies, Hears, state
    <3>2. CASE lease # "held"
        BY <1>18, <2>2, <3>2, EndsHears DEF Decode, Bodies, Terminals, Abandoned,
           AbandonedLease, Hears, state
    <3> QED
        BY <3>1, <3>2
  <2>3. CASE Finish("call_end")
        BY <1>18, <2>3, EndsHears DEF Decode, Finish, Bodies, Terminals, Hears,
           state
  <2> QED
        BY <1>18, <2>1, <2>2, <2>3 DEF Decode
<1>19. CASE CheckDeadline
  <2>1. CASE BodyError
        BY <1>19, <2>1, BodyFails DEF CheckDeadline, BodyError, Bodies,
           Reading, Flow, Hears
  <2>2. CASE UNCHANGED <<body, log>> /\ pc' \in {"dregister", "frame"}
        BY <1>19, <2>2 DEF CheckDeadline, TypeOK, Hears, Told, Reported,
           state, timer, body, fixed
  <2> QED
        BY <1>19, <2>1, <2>2 DEF CheckDeadline
<1>20. CASE RegisterDeadline
    BY <1>20 DEF RegisterDeadline, TypeOK, Hears, Told, Reported, state,
           timer, body, fixed
<1>21. CASE FrameData
  <2>1. ~Reported(Terminals) /\ Story(log)
        BY <1>21 DEF FrameData, Hears
  <2>2. Story(log') /\ Range(log) \subseteq Range(log')
        /\ Range(log') \subseteq Range(log) \cup {"response_body_start"}
        BY <1>21, <2>1, StoryStart DEF FrameData
  <2> QED
        BY <1>21, <2>1, <2>2 DEF FrameData, TypeOK, Hears, Told, Reported,
           state, timer, body, fixed, Terminals
<1>22. CASE FrameError
    BY <1>22, BodyFails DEF FrameError, BodyError, Bodies, Reading, Flow, Hears
<1>23. CASE FrameEnd
  <2> DEFINE ended == Append(StartBody(log), "response_body_end")
  <2>1. ~Reported(Terminals) /\ ~Reported(BodyEnds) /\ Story(log) /\ lease = "held"
        BY <1>23 DEF FrameEnd, Hears, Flow, Reading, Reported, BodyEnds
  <2>2. "response_body_end" \in BodyEnds /\ "call_end" \in Terminals
        BY DEF BodyEnds, Terminals
  <2>3. /\ ended \in Seq(Events) /\ Story(ended)
        /\ Range(ended) = Range(log) \cup {"response_body_start", "response_body_end"}
        BY <2>1, <2>2, StoryBodyEnd
  <2>4. Range(ended) \cap Terminals = {}
        BY <2>1, <2>3 DEF Reported, Told, Terminals
  <2>5. \/ pc' = "decode" /\ log' = ended
        \/ pc' = "held" /\ log' = Append(ended, "call_end")
        BY <1>23 DEF FrameEnd
  <2> HIDE DEF ended
  <2>6. /\ Story(log')
        /\ \/ pc' = "decode" /\ Range(log') = Range(ended)
           \/ pc' = "held" /\ Range(log') = Range(ended) \cup {"call_end"}
        BY <2>2, <2>3, <2>4, <2>5, StoryTerminal, ZenonT(30)
  <2>7. lease' = "released" /\ ~doomed' /\ ~Told("response_body_failed")
        BY <1>23, <2>1 DEF FrameEnd, Hears
  <2> QED
        BY <1>23, <2>1, <2>3, <2>4, <2>6, <2>7 DEF FrameEnd, Hears, Told, Reported,
           Terminals
<1>24. CASE FramePending
    BY <1>24 DEF FramePending, TypeOK, Hears, Told, Reported, state, timer,
           body, fixed
<1>25. CASE Woken
    BY <1>25 DEF Woken, TypeOK, Hears, Terminals, Told, Reported, state, timer,
       body,
           fixed, Waiting
<1>26. CASE SendFails
    BY <1>26, EndsHears DEF SendFails, DropUnfinished, Bodies, Terminals,
           state
<1>27. CASE Execute
  <2>1. log \in Seq(Events) /\ "call_start" \in Events
        BY DEF TypeOK, Events
  <2>2. Range(log) \subseteq {"dispatcher_queue_start"} /\ Story(log)
        BY <1>27 DEF Execute, Hears
  <2>3. Range(log') = Range(log) \cup {"call_start"}
        BY <1>27, <2>1, AppendRange DEF Execute
  <2>4. Story(log')
        BY <1>27, <2>1, <2>2, StoryAppend DEF Execute, Terminals, BodyEnds
  <2> QED
        BY <1>27, <2>2, <2>3, <2>4 DEF Execute, TypeOK, Hears,
           Told, Reported, state, timer, body, fixed, Terminals
<1>28. CASE Enqueue
  <2>1. log \in Seq(Events) /\ "dispatcher_queue_start" \in Events
        BY DEF TypeOK, Events
  <2>2. Range(log) \subseteq {"dispatcher_queue_start"} /\ Story(log)
        BY <1>28 DEF Enqueue, Hears
  <2>3. Range(log') = Range(log) \cup {"dispatcher_queue_start"}
        BY <1>28, <2>1, AppendRange DEF Enqueue
  <2>4. Story(log')
        BY <1>28, <2>1, <2>2, StoryAppend DEF Enqueue, Terminals, BodyEnds
  <2> QED
        BY <1>28, <2>2, <2>3, <2>4 DEF Enqueue, TypeOK, Hears,
           Told, Reported, state, timer, body, fixed, Terminals
<1>29. CASE DropQueuedCall
    BY <1>29 DEF DropQueuedCall, TypeOK, Hears, Told, Reported, state, timer,
           body, fixed
<1>30. CASE AwaitResponse
    BY <1>30 DEF AwaitResponse, TypeOK, Hears, Told, Reported, state, timer,
           body, fixed
<1>31. CASE DropResult
    BY <1>31, EndsHears DEF DropResult, DropUnfinished, Bodies, Terminals,
           state
<1>32. CASE DropExecution
  <2>1. /\ ~Reported(Terminals) /\ ~Reported(BodyEnds) /\ Story(log)
        /\ lease \in {"none", "held"} /\ ~force
        BY <1>32 DEF DropExecution, Hears, Flow, Executing, Reported,
           BodyEnds, TypeOK
  <2>2. Story(log')
        BY <1>32, <2>1, StoryEnds DEF DropExecution, Terminals
  <2>3. /\ lease # "held" => Range(log') = Range(log)
        /\ lease = "held" =>
              Range(log') = Range(log) \cup {"response_body_start", "response_body_end"}
        BY <1>32, <2>1, StoryEnds DEF DropExecution, Terminals
  <2> QED
        BY <1>32, <2>1, <2>2, <2>3 DEF DropExecution, AbandonedLease, TypeOK,
           Hears, Told, Reported, state, timer, body, fixed, Terminals,
           BodyEnds
<1>33. CASE DropBody
    BY <1>33, EndsHears DEF DropBody, DropUnfinished, Bodies, Terminals, state
<1>34. CASE DropFinished
    BY <1>34 DEF DropFinished, TypeOK, Hears, Told, Reported, state, timer,
           body, fixed
<1>35. ASSUME NEW t \in Tasks, PollBody(t) PROVE Hears'
    BY <1>35 DEF PollBody, TypeOK, Hears, Terminals, Told, Reported, state,
       timer, body,
           fixed
<1>36. ASSUME NEW t \in Tasks, Repoll(t) PROVE Hears'
    BY <1>36 DEF Repoll, TypeOK, Hears, Terminals, Told, Reported, state,
       timer, body,
           fixed, Waiting
<1>37. CASE Finished
    BY <1>37 DEF Finished, TypeOK, Hears, Told, Reported, state, timer, body,
           fixed, vars
<1>38. CASE UNCHANGED vars
    BY <1>38 DEF TypeOK, Hears, Told, Reported, state, timer, body, fixed,
           vars
<1> QED
    BY <1>1, <1>2, <1>3, <1>4, <1>5, <1>6, <1>7, <1>8, <1>9, <1>10,
           <1>11, <1>12, <1>13, <1>14, <1>15, <1>16, <1>17, <1>18, <1>19,
           <1>20, <1>21, <1>22, <1>23, <1>24, <1>25, <1>26, <1>27, <1>28,
           <1>29, <1>30, <1>31, <1>32, <1>33, <1>34, <1>35, <1>36, <1>37,
           <1>38 DEF Next, Cancel,
       Sleeper, ExecutionStep, BodyStep, Caller

-----------------------------------------------------------------------------
\* The inductive invariant of a call.
IInv == TypeOK /\ Flow /\ Cancels /\ Deadlines /\ Hears

\* The inductive invariant holds of every call.
THEOREM Invariance == Spec => []IInv
<1>1. Init => IInv
  <2>1. Init => Hears
        BY DEF Init, Hears, Story, OnceIn, Told, Reported, Range, Terminals,
           BodyEnds
  <2> QED
        BY <2>1, InitIInv DEF IInv
<1>2. IInv /\ [Next]_vars => IInv'
    BY NextTypeOK, NextFlow, NextCancels, NextDeadlines, NextHears DEF IInv
<1> QED
    BY <1>1, <1>2, PTL DEF Spec

\* No cancellation and no deadline is lost (SignalsAreHeard), whatever the number
\* of tasks and handles: a task that waits while the call is canceled, or past
\* its deadline, is scheduled or about to be, although poll_canceled and
\* poll_deadline run beside cancel() and the sleeper, and the call may move to
\* another task between two polls.
THEOREM SignalsHeard == Spec => []SignalsAreHeard
<1>1. IInv => SignalsAreHeard
    BY DEF IInv, SignalsAreHeard, CancelIsHeard, DeadlineIsHeard, Cancels,
       Deadlines,
           Flow, TypeOK, Waiting, Guarded, Reading
<1> QED
    BY <1>1, Invariance, PTL

\* The connection goes back to the pool only after a body read to its end, is
\* discarded exactly when the body was reported to have failed, and the request
\* slot is held as long as the connection and never after the call
\* (ResourcesFollowBody): finish_abandoned, finish_with_error and the drops.
THEOREM ResourcesFollow == Spec => []ResourcesFollowBody
<1>1. IInv => ResourcesFollowBody
    BY DEF IInv, ResourcesFollowBody, LeaseFollowsBody, SlotOutlivesLease,
       Flow, Hears,
           TypeOK
<1> QED
    BY <1>1, Invariance, PTL

\* What the invariant says of the listener.
LEMMA IInvOneStory == IInv => ListenerHearsOneStory
<1> SUFFICES ASSUME IInv PROVE ListenerHearsOneStory
    OBVIOUS
<1>1. OneTerminalEvent
  <2>1. Reported(Terminals) => log[Len(log)] \in Terminals
    <3>1. ASSUME NEW e \in Terminals, Told(e) PROVE log[Len(log)] \in Terminals
      <4>1. PICK i \in DOMAIN log : log[i] = e
        BY <3>1 DEF Told, Range
      <4> QED
        BY <4>1 DEF IInv, Hears, Story
    <3> QED
        BY <3>1 DEF Reported
  <2>2. Reported(Terminals) => Told("call_start")
        BY DEF IInv, Hears
  <2> QED
        BY <2>1, <2>2 DEF IInv, Hears, Story, OnceIn, OneTerminalEvent, AtMostOnce
<1>2. BodyIsInsideCall
  <2>1. pc # "failed" /\ lease \notin {"none", "held"} => Reported(BodyEnds)
        BY DEF IInv, Hears, TypeOK, Reported, BodyEnds
  <2> QED
        BY <2>1 DEF IInv, Hears, Story, OnceIn, BodyIsInsideCall, AtMostOnce
<1>3. CanceledOnce
    BY DEF IInv, Cancels, CanceledOnce
<1>4. CanceledNeverEnds
    BY DEF IInv, Hears, CanceledNeverEnds
<1> QED
    BY <1>1, <1>2, <1>3, <1>4 DEF IInv, ListenerHearsOneStory

\* The listener hears one story of a call (ListenerHearsOneStory), whatever the
\* number of tasks the call moves between and of handles that cancel it: one
\* terminal event and nothing after it, the body's own events inside the call's,
\* canceled() once and before any cancel() returns, and no call_end for a poll
\* or a drop that found the call canceled.
THEOREM OneStory == Spec => []ListenerHearsOneStory
BY IInvOneStory, Invariance, PTL
=============================================================================
