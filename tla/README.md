# A verification project for openwire

openwire is an asynchronous HTTP client. This directory holds TLA+ modules
translated from its source, TLC configurations that check them on small
instances, and proofs about four of them that TLAPS checks for every value of
the constants. `PROJECT.json` names, for each definition, the lines of source it
stands for.

## The system and its modules

A call passes through interceptors (bridge, cache, logging), then through the
follow-up policy, which makes one network attempt after another. An attempt
picks a proxy and an address, is admitted by the request scheduler, takes a
pooled connection or waits for a connection slot and dials, and sends the
request. The response body holds the connection and the request slot until it
ends or is dropped. A WebSocket leaves that path after its opening handshake and
runs a session of three tasks.

| Part | Source (under `src/crates/`) | Modules |
| --- | --- | --- |
| Request admission | `openwire/src/connection/scheduler.rs` | `RequestScheduler`, `RequestAdmission`, `SchedulerRefinement`; proofs in `SchedulerQueueProofs`, `SchedulerSlotProofs`, `RequestSchedulerProofs`, `SchedulerRefinementProofs` |
| Connection slots and the wait for one | `openwire/src/connection/limits.rs`, the waiting loop of `transport/service.rs` | `ConnectionLimits`; proofs in `ConnectionWaitProofs`, `ConnectionLimitsProofs` |
| Pool, bindings, connection tasks, exchange | `openwire/src/connection/pool.rs`, `real_connection.rs`, `transport/bindings.rs`, `service.rs`, `body.rs` | `PooledExchange` |
| HTTP/2 coalescing | `openwire/src/connection/pool.rs`, `limits.rs`, `connection/mod.rs` | `Coalescing` |
| Dial race | `openwire/src/connection/fast_fallback.rs`, `planning.rs` | `FastFallback`, `RouteOrder` |
| Lookup, tunnels, TLS, binding | `openwire-tokio` (DNS cache), `openwire/src/transport/connect.rs`, `openwire-rustls` | `ConnectPath` |
| Failure reports of an attempt | `openwire/src/transport/service.rs`, `body.rs`, `openwire-core/src/context.rs` | `ExchangeEvents` |
| Follow-up policy | `openwire/src/policy/follow_up.rs` and the admission and proxy code it drives | `FollowUp`; proofs in `FollowUpProofs` |
| One call, its body and its handles | `openwire/src/client.rs`, `transport/body.rs` | `CallLifecycle`; proofs in `CallLifecycleProofs` |
| Response cache | `openwire-cache/src/lib.rs` | `CacheFreshness`, `ResponseCache` |
| Proxy rules and addresses | `openwire/src/proxy.rs`, `connection/planning.rs`, `client.rs` | `Proxying` |
| Headers of requests and responses | `openwire/src/bridge.rs`, `compression.rs`, `transport/protocol.rs`, `websocket/handshake.rs` | `HeaderRules` |
| WebSocket session | `openwire/src/websocket/writer.rs`, `public.rs` | `WebSocketSession` |
| WebSocket handshake and native frames | `openwire/src/websocket/handshake.rs`, `native/*.rs` | `WebSocketRules`, `WebSocketStream` |

`NetworkAttempt` composes `ConnectPath`, `ExchangeEvents` and `WebSocketStream`:
a connect that succeeds continues as an exchange or as a WebSocket. Since what
follows looks at neither the clock nor the history of the connection, a step
`Forget` drops both there. `RequestScheduler` implements `RequestAdmission`,
which says what callers are promised and knows no slab, index, counter or waker;
`SchedulerRefinement` holds the mapping: the callers in line are the owners of the
keys in the `VecDeque`, in its order.
The `MC*` modules hold the model values, scenarios and plans of the instances.

### How state and steps correspond to the code

* `RequestScheduler`: `global` is the state behind the mutex, each critical
  section one action; `guard` is the slab key of each `WaiterGuard`; slab keys
  are reused.
* `ConnectionLimits`: every access to a semaphore, a `Notify` or a map is a step,
  so that drops on several threads interleave. Objects have identities, because
  a map entry may be reclaimed and created again while an old object is in use.
* `PooledExchange`: a pool operation locks one address, prunes in two steps (look,
  then close), works, unlocks, and cleans the other indexes afterwards, one map at
  a time; removing a connection and publishing one take several steps for the
  same reason. A call may be dropped at each of its awaits, a task aborted at
  any. The reaper is one more process.
* `WebSocketSession`: a step ends where the code awaits; lanes are bounded
  queues or counters; a write ends, fails or blocks as the sink likes, the peer
  sends what it likes.
  After the reader's last word (`Cancel` or `CloseAck`) the writer always ends,
  so the branch in which the control lane closes under a running writer is never
  taken and has no action.
* `FastFallback`: an abort raises a flag that the task meets at its next poll.
* `ConnectPath`: peers are silent, slow, wrong or gone as they like. A byte of the
  stream is its place in it, so lost, repeated and late bytes can be told apart.
  Time is a clock that stops at no running timer. The DNS cache is shared with
  other users.
* `ExchangeEvents`: the task that writes a body runs beside the call and can
  outlive the attempt; the two flags it shares with the call belong to the call.
* `FollowUp`: one loop iteration is an attempt, an answer and a decision. A URI
  is its origin; a credential names the origin or proxy it was made for.
  `Retry-After` is absent, due at once or later; a redirect may lack its
  `Location`; the cookie jar may fail while a request is made.
* `CallLifecycle`: a poll of a wake slot reads, registers and reads again, in
  three steps; `cancel` stores, wakes and notifies, in three steps.
* `ResponseCache`: each operation of the store is a step, and so is each await
  of the interceptor. The origin is external: it has a version per resource,
  which a write raises. What `Vary` captured is a list of fields and values, as in
  the code. The clock is read when the head arrives and again when the body was
  stored; dates may fail to parse.
* `RouteOrder`, `CacheFreshness`, `Proxying`, `HeaderRules`, `Coalescing`,
  `WebSocketRules`: functions without state, operators here. Text becomes labels,
  sets of names and numbers.

## The runs

Every run finishes within five minutes. Counts are distinct states.

| Run | States | What it shows |
| --- | ---: | --- |
| `request_scheduler` | 138,584 | Four requests of three addresses acquire, queue, get promoted, move between two tasks, are cancelled and release in every order: the counts stay exact, the limits hold, no slot idles beside a waiter and no waiter is left unwoken. |
| `request_turns` | 114,196 | Five requests, so that the queue can be full while others arrive: nobody is refused who could run, nobody is overtaken, and the slab and its indexes never make the scheduler act differently from RequestAdmission. |
| `request_admission` | 1,684 | With aging and callers that give their slots back, every waiting request leaves the queue although more urgent requests keep arriving. |
| `connection_limits` | 1,178,887 | Three calls of two addresses compete for two slots, one per address, while semaphores and Notify entries are reclaimed and created again: the limits hold across semaphore objects, no listener is left on an orphaned Notify, and nobody sleeps beside a free slot unless a call gave an address permit back for want of a global one. |
| `pooled_exchange` | 725,128 | Two calls of an Http1 origin with the reaper, or of two authorities of one Http2 server, with two connections: allocations are exact unless the connection is being removed, an Http1 sender is never shared, a prune closes nothing that its own address uses, and at rest the pool's indexes, the bindings and the tasks agree. |
| `websocket_session` | 162,903 | Writer, reader, heartbeat, sender and receiver with full lanes, sinks that fail or block and a peer that sends anything: accepted data precedes the Close frame, no session ends without its terminal event, and, as long as no write blocks for ever, a heartbeat that gives up ends the call and, while the user reads, close() returns and a ping flood does not starve the data lane. |
| `fast_fallback` | 19,363 | Every race of up to three routes, with tasks that outrun their abort, vanish or fail to spawn: the listener's account of a won race is exact, the dial gives up only when no route is left, no return leaves a task running unaborted, every dial returns, and in the end only the winner's socket is open, also after the dial was dropped. |
| `follow_up` | 3,078,936 | The built-in and custom policies with their overrides and an authenticator, with any answers of two origins, and chains of two redirects, a retry and an authentication behind a proxy: the light snapshot is never needed, attempts are bounded, a one-shot body goes out once, no attempt waits for admission while it holds a permit, sensitive headers stay with their origin. |
| `call_lifecycle` | 180,020 | One call, executed or enqueued, polled from two tasks and canceled by two handles, with and without a deadline and a decoder: the events it reports, what becomes of its connection and its request slot, that no wakeup is lost, and that a canceled call or wait for body data ends with only the runtime's own fairness. |
| `response_cache` | 989,313 | Six ways to use the cache, while time passes: one caller with different credentials, languages and orders of Vary; one caller whose clock runs past every limit of responses and requests; one caller, and then two, with an origin that changes its mind about what may be stored; two callers, one of them writing; and bodies of several sizes in a small store. |
| `rules` | 744,619 | The pure rules of the client, each against a reference definition over every input of a small set: the order of routes, the connections other authorities may share, the freshness of stored responses as the clock advances, the choice of proxies and the addresses made of them, the headers of requests and responses, the frames and the handshake of a WebSocket. |
| `network_attempt` | 281,838 | A connect along every kind of route, with slow, silent, wrong and vanishing peers and a shared DNS cache, then two attempts of a call on the bound connection beside the tasks that write their bodies, or the frames of a WebSocket cut at any byte: the tunnel hands over exactly the target's bytes, one connect timeout covers all of a tunnel's timed steps, answers of the resolver are fresh, a lost request is reported once and under the right name, messages come out whole, once and in order, and a timed connect ends. |

What the properties say, in the words of the code they are about:

* **Admission** (`request_scheduler`, `request_turns`, `request_admission`).
  `Consistent`: slab, `BTreeSet`, `VecDeque` and guards describe one queue.
  `Accounting`: counters equal what is held or promised. `WithinLimits`.
  `WorkConserving`: no slot is free beside a waiter that could take it.
  `NoLostWakeup`: the task that polled last is the one that is woken.
  `NoSpuriousCapacity`: only a request without a slot is refused.
  `ImplementsAdmission`: refinement of `RequestAdmission`. `NoStarvation`: a
  waiter leaves the queue however urgent the newcomers.
* **Slots** (`connection_limits`). `LimitsHold`: limits are kept across semaphore
  objects, and every listener waits where the next release will look for it.
  `StrandedOnlyByBounce`: nobody sleeps beside a slot they could take, with one
  exception (see below).
* **Pool** (`pooled_exchange`). `CountersAreExact`: an open connection's
  allocations are the calls that use it and those dropped in flight (while it is
  being removed there may be more), and an HTTP/1.1 connection has one user. `VictimsAreUnused`: a prune closes nothing
  that its address uses. `PoolAndTasksAgree`: at rest the indexes, bindings and
  tasks agree.
* **WebSocket session** (`websocket_session`). `NothingIsLost`: data accepted
  before `close()` is written before the Close frame, and the end is reported.
  `UserIsServed`: while the user reads and no write blocks for ever, a ping flood
  does not starve the data lane and `close()` returns (one formula, since a handle
  closes once). `TimeoutIsReported`: a heartbeat that gives up ends the call, if
  no write blocks for ever.
* **Dial race** (`fast_fallback`). `ReturnIsClean`: a dial gives up only when
  nothing is left to try, leaves no task unaborted, and reports each route as it
  ended. `DialSettles`: every dial returns, and in the end only the winner's
  socket is open, also after the dial was dropped.
* **Follow-ups** (`follow_up`). `RebuildIsSound`: a follow-up needs nothing its
  snapshot lacks, and a one-shot body goes out once. `AttemptsAreCounted`:
  attempts are bounded by the budgets. `AdmissionIsClean`: no attempt waits for
  admission while it holds a permit. `CredentialsStayHome`: sensitive headers go
  to the origin they were made for.
* **Calls** (`call_lifecycle`). `ListenerHearsOneStory`, `ResourcesFollowBody`,
  `SignalsAreHeard` (no cancellation or deadline falls between a look and a
  registration), `CancelEndsWaiting`.
* **Cache** (`response_cache`). `HitIsRight`: what is served without asking is of
  the request's variant and fresh for response and request. `StoreIsSound`: what
  is stored was allowed to be, within the limits, once per captured list of
  `Vary`. `InvalidationHolds`: what a write invalidated is not served later, unless
  a 304 of a call that had begun before put it back.
* **Rules** (`rules`). `RoutesAreSound`: addresses alternate by family, none lost;
  a connection is shared only with a name its certificate covers, on the same
  kind of route, and whoever may share it is found by the index and woken by the
  limiter. `FreshnessIsSound`: the rules of freshness in both directions.
  `ProxyIsRespected`: a request goes through the proxies whose rules apply and no
  other (IPv6 literals are set apart, see below). `HeadersAreTrue`: after all rewriting the headers are true of the
  message. `WireFormIsAgreed`: frames written can be read back, and the handshake
  accepts what was asked for and nothing else. Each of these is compared with a
  definition written independently of the code's loops.
* **Attempts** (`network_attempt`). `TunnelIsClean`: the stream behind a tunnel is
  exactly the target's. `BudgetIsShared`: timeouts add up to no more than stated.
  `LookupIsFresh`: no address or failure is used beyond its TTL.
  `FailureIsReported`: a failed request is reported as failed, in the right way.
  `FramesAreExact`: messages survive any chunking. `SetupEnds`.

For every property the project names a mutant: a plausible slip in the mapped
code under which TLC finds the property violated.

## Bounds and why they are enough

| Run | Instance | What it must contain |
| --- | --- | --- |
| `request_scheduler` | 4 requests, 3 addresses, 3 keys, 2 tasks; limits 2 in total, 1 per address, 2 queued | a full total, a full address, a full queue, a reused key, a promoted waiter that is dropped, aging on both sides of the urgency boundary |
| `request_turns` | 5 requests, otherwise the same, 1 task | a newcomer while the queue is full and slots are taken |
| `request_admission` | 5 requests, 2 addresses | an endless stream of urgent requests beside a patient one |
| `connection_limits` | 3 calls, 2 addresses, 3 semaphores, 2 `Notify` objects | reclaim and re-creation while an older object is in use |
| `pooled_exchange` | 2 calls, 2 connections, `MaxIdle` 1, 2 streams, 1 call dropped in flight; an HTTP/1.1 setup with the reaper and a coalescing HTTP/2 setup without it, where each call prunes under the other | prune against acquire, eviction by count, a full connection |
| `websocket_session` | control lane 1, data and receiver lanes 1, with and without heartbeat | every lane full |
| `fast_fallback` | up to 3 routes | one that wins, one that fails, one that runs late |
| `follow_up` | 2 origins, 1 proxy, every combination of built-in policies and overrides that differ from them, one override at a time beside a custom policy, `MaxAuths` 1, 3 attempts where a custom policy decides | chains of two redirects, a retry and an authentication |
| `call_lifecycle` | 2 tasks, 2 handles, with and without a deadline and a decoder | a future that moves between tasks during a cancel |
| `response_cache` | 2 callers, 2 resources, six scenarios with 3 or 4 calls each, times up to 4 | overlapping revalidation, write and store; each limit of freshness on both sides |
| `rules` | up to 7 addresses, times up to 9, frame lengths across the three forms, small address widths | every boundary of every rule |
| `network_attempt` | 14 plans, heads and payloads around the limits, 2 attempts, up to 3 frames in any order, and any 2 between the halves of a character | every kind of route, a reply that straddles a read, a late body |

Counters that only grow are bounded in the guards (`MaxSeq`, `MaxAttempts`,
`MaxSends`, `MaxSlack`, `MaxLost`, the scenarios' `maxCalls` and `maxTime`). The code's large
numbers (125 and 65535 bytes of a frame, 8 KiB of a response head, 32 and 128
bits of an address) are constants with small values. `SYMMETRY` is used for slab
keys, tasks, object and connection ids, in runs of safety properties and of
action properties that name none of these.

## Fairness

* `RequestAdmission`: time passes, a woken task is polled, and a caller drops its
  response one day. Nothing is assumed of who arrives.
* `WebSocketSession`: the runtime polls tasks that can proceed. A send on a tokio
  channel is first come first served, so a sender that is blocked again and again
  gets its turn: strong fairness of the three sends concerned. Nothing is assumed
  of the sink: that writes end, like that the user keeps reading, is a premise of
  the properties that need it.
* `FastFallback`: tasks that can proceed are polled; connects end, because
  `connect_timeout` is set.
* `CallLifecycle`: woken tasks are polled, a poll or a `cancel` once begun
  finishes, timers fire. Nothing is assumed of the peer.
* `ConnectPath`: clock and timers, the resolver answers, the socket takes the
  CONNECT request, the authenticator returns. Peers may be silent for ever.

Deadlock is checked except where a call, session or instance may be over.

## What is proved

For every value of the constants, and so for any number of requests, calls,
addresses, origins, tasks and handles, and for every limit:

| Theorem | Module | Says |
| --- | --- | --- |
| `StaysConsistent` | `RequestSchedulerProofs` | `Spec => []Consistent` |
| `CountsAreExact` | `RequestSchedulerProofs` | `Spec => []Accounting` |
| `LimitsHold` | `RequestSchedulerProofs` | `Spec => []WithinLimits` |
| `SlotsAreHandedOver` | `RequestSchedulerProofs` | `Spec => []WorkConserving` |
| `RefusalsAreDue` | `RequestSchedulerProofs` | `Spec => NoSpuriousCapacity`, an action property |
| `WakeupsArrive` | `RequestSchedulerProofs` | `Spec => []NoLostWakeup` |
| `Refinement` | `SchedulerRefinementProofs` | `Spec => ImplementsAdmission` |
| `Limits` | `ConnectionLimitsProofs` | `Spec => []LimitsHold` |
| `Stranded` | `ConnectionLimitsProofs` | `Spec => []StrandedOnlyByBounce` |
| `RebuildSound`, `AttemptsCounted`, `AdmissionClean`, `CredentialsHome` | `FollowUpProofs` | `Spec => []` of the four properties of `follow_up` |
| `OneStory`, `ResourcesFollow`, `SignalsHeard` | `CallLifecycleProofs` | `Spec => []` of the three invariants of `call_lifecycle` |

The assumptions are those the modules state, and TLC evaluates them in the runs:
limits are naturals (a limit per address is not zero in `ConnectionLimits`),
each request or call has an address and an urgency, sentinels are not ordinary
values, requests, slab keys and calls are finite in number
(`SchedulerAssumption`, `VacantAssumption`, `LimitsAssumption`,
`NoTaskIsNoTask`), the task that polls an acquire future is neither no waker nor a
task in `poll_ready` (`WakerAssumption`), and a configuration of `FollowUp` is a record of policies,
overrides and proxy selections (`ConfigAssumption`).

**Admission.** The induction is on

    IInv == TypeOK /\ Sound(global, permits) /\ GuardsOwnWaiters /\ WorkConserving

None of the properties is inductive alone. That a count stays exact when a waiter
is removed needs that both indexes list it exactly once and in order (`Sound`);
that the waiter removed is the caller's own, although keys are reused, needs
`GuardsOwnWaiters`; and that a release, which promotes one waiter only, leaves no
slot idle needs that none was idle before. `NoLostWakeup` is inductive relative
to `IInv`: `GuardsOwnWaiters` keeps a promotion or a reused key from touching the
waker of another future.

The refinement needs two facts more, `RInv == IInv /\ Matching /\ AgedInOrder`:
the urgency in the slab is the one of the request that owns the key, and waiters
age in the order of their arrival. With them the place in the `BTreeSet` that
`select_waiter` prefers is the place in line that `RequestAdmission` gives the
turn to. Each action of the scheduler is then shown to be one action of
`RequestAdmission`; a poll that only replaces a waker, and `poll_ready`, are
stuttering steps. The argument has four layers: `SchedulerQueueProofs` shows what
insertion, removal, aging and lookup do to slab and indexes and to the line of
callers they stand for; `SchedulerSlotProofs` what `try_promote` does to counts
and slots; `RequestSchedulerProofs` and `SchedulerRefinementProofs` have one step
per action.

**Slots.** The limit of an address must hold across semaphore objects, which are
reclaimed and created again. `IInv` (in `ConnectionWaitProofs`) says that no
permit is lost or made up (`Slots`); where a call has an `Arc` of its semaphore
and where a drop goes on to (`Binds`, `Returns`); and that the map's entry of an
address is the semaphore of every call that uses one for it, but for the call
that has just removed it (`Entries`). The last is what lets a count per object
bound the connections per address. The other parts are about the `Notify`
objects: no two addresses share one, nobody listens on one that was removed, and
a wait list names exactly calls that wait there, each once (`Waits`,
`NotesApart`, `ListenersAreReachable`, `Queues`). `ConnectionWaitProofs` has the
part without counting, `ConnectionLimitsProofs` the permits and the theorems.

That nobody sleeps beside a slot they could take is about steps that are still to
come, and is inductive only as `Claims`: a call that found no slot has heard of a
release, or some call is on its way to `notify_global` (`Announced`), or there
still is no slot for it, unless it is one of the exception's; and a call that is
giving an address permit back, which will be asleep after that, relies on the total
limit being used up (`Bouncing`). `Entries` is needed here too: a release, a
reclaimed semaphore and a new one change what `can_acquire` says of one address
only. A reclaimed semaphore has all its permits, so that without it
`can_acquire` says what it said before; this is where a limit per address of zero
would make a difference.

**Follow-ups.** `IInv` adds to the properties what the loop relies on between its
steps: a response or an error is what is being judged, and a challenge under way
was within the limit (`Stages`); credentials in a request or a snapshot are for
its origin (`Addressed`); the snapshot's body is the request's, and a one-shot
body that went out is in no request still to be sent (`BodyOnce`); no permit
outlives its attempt (`Holding`); the mark of a queued call is there until its
queue end is reported (`QueueMark`). Chains of any length follow, for any set of
origins and proxies.

**Calls.** `IInv == TypeOK /\ Flow /\ Cancels /\ Deadlines /\ Hears`. `Flow` says
where lease, permit and the flags of the incoming body are at each place of the
call; `Cancels` and `Deadlines` say, from the moment a poll has registered, who
is going to wake the task; `Hears` says what the listener was told at each place,
and that it was told in order.

### Only model-checked

* All liveness: `NoStarvation`, `UserIsServed`, `TimeoutIsReported`, `DialSettles`,
  `CancelEndsWaiting`, `SetupEnds`. Fairness and `ENABLED` are out of the prover's
  reach.
* The invariants of `PooledExchange`, `WebSocketSession`, `FastFallback`,
  `ResponseCache` and `NetworkAttempt`.
* `rules`: what recursive functions and folds compute for every input. Induction
  over data is out of the prover's reach.

## Where code and documents differ

Met while modelling. The properties are stated with the exact exception, so that
the runs show that nothing else goes wrong.

* `limits.rs:148`: `try_acquire` returns an unused address permit without telling
  anybody; a call of the same address that probed in between sleeps beside free
  slots. `docs/ARCHITECTURE.md:427` and `service.rs:400` describe the wait as
  lossless. (The exception of `StrandedOnlyByBounce`.)
* `limits.rs:310`: two `listen` futures dropped at once each see the other's
  reference and leave the map entry behind; `limits.rs:300` says entries are
  dropped with the last future.
* `pool.rs:474`: a coalesced acquire takes a stream between a prune's look and its
  close. `pool.rs:520`: "in-use streams finish first." (The exception of
  `VictimsAreUnused`.)
* `service.rs:124`: a call dropped between `into_send_parts` and the response
  leaves its HTTP/2 allocation counted; `client.rs:488` speaks of concurrent
  streams.
* `writer.rs:111`: with the receiver lane full and nobody reading, the report of a
  failed frame blocks the writer and `close()` does not return; `public.rs:72`
  says it does after the close timeout. (Hence the premise that the user reads.)
* `writer.rs:103`, `151`, `168`, `196`, `227`, `247`: writes to the sink are not timed
  (`native/engine.rs:91`), so that with a peer that stops reading neither `close()`
  returns (`public.rs:72`) nor does a heartbeat that gives up end the call. (Hence
  the premise `PeerReads`.)
* `public.rs:32`: the drop of the last sender can go unnoticed when the control
  lane is full and the writer is outside its select; `public.rs:29` says it
  cannot be lost.
* `writer.rs:203`: a `CloseAck` queued while a local Close waits is skipped, and the
  writer waits for the timeout; `docs/websocket-design.md:489` says it is written.
* `writer.rs:216`: `call_end` is also reported after a close timeout;
  `docs/websocket-design.md:566` ties it to a graceful close.
* `fast_fallback.rs:512`: one permit covers all sockets of a race, and tasks of a
  dropped dial hold theirs after the permit is back; `client.rs:495` says the
  limit "caps sockets".
* `connect.rs:523`: authentications of a tunnel are not added to the call's count;
  `README.md:272` calls the limit a per-call budget.
* `follow_up.rs:731`: `Proxy-Authorization` cleared by the transport on its copy
  comes back with the snapshot after a redirect to a direct route;
  `follow_up.rs:840` says the transport clears it.
* `client.rs:1102`: dropping the future of `execute` leaves `call_start` without a
  terminal event; `event.rs:34` speaks of a pair.
* `openwire-cache/src/lib.rs`: variants are compared as lists, so that two orders of
  the same `Vary` fields leave two entries. A response with `Expires` and no `Date`
  is served past it by as long as its body took, since its age counts from when
  it was stored. (`FreshnessIsSound` states this allowance.)
* `openwire-cache/src/lib.rs:119`: a 304 puts a stored entry back that a write
  removed meanwhile. (The exception of `InvalidationHolds`.) Line 118: the 304 path
  stores although the request says `no-store`; `README.md:300` lists `no-store`
  as honoured.
* `context.rs:60`: the flag "already published for this attempt" belongs to the
  call, and the body of an earlier attempt may set it. (The exception of
  `FailureIsReported`, as is a body that fails after the send's error arrived.)
* `docs/ARCHITECTURE.md:407` speaks of one `connect_timeout` for TCP, TLS and
  binding; each of them is given a fresh one, the CONNECT request and the
  authenticator are not timed, the later reads of a SOCKS5 reply get the first
  read's allowance again, and opening a WebSocket may take two handshake timeouts.
  (`BudgetIsShared` states these sums.)
* `proxy.rs:365`: IPv6 entries of a no-proxy list (a host, a range, `loopback`) do not
  match the bracketed host of a URI; the comment on loopback speaks of "loopback
  IP addresses" and the tests, 713-715, use the bare form. (The exception
  `Bracketed` of `ProxyIsRespected`.)
* `proxy.rs`: a `socks5` URL without a port fails
  every candidate of the request; a WebSocket passes over a Direct choice of a
  custom selector in favour of a later proxy.

## Not modelled

* Client builder and configuration: setters and checks of single values.
* Authentication challenges, cookies, the syntax of `Retry-After`, dates and URLs:
  parsers over characters, without state. The modules take their results, failure
  included, as choices.
* Cookie jar: a lock around an external crate.
* Logging, tracing, statistics: no state of the client depends on them.
* Core types, traits and Tower adapters: data and forwarding calls.
* Other WebSocket engines: adapters to external crates, behind the interface that
  `WebSocketSession` uses.
* Content decoders, TLS and HTTP framing: external crates. Their success and
  failure are choices.
* In `PooledExchange`, the clock behind idle and lifetime limits (a prune may evict
  any idle connection) and the further proxy candidates of an acquire.
* In `CallLifecycle`, a response that no network exchange produced.
* Memory orderings weaker than sequential consistency.

## Plan

1. Prove the exact counts of `PooledExchange` for every number of calls.
2. A clock for the pool's limits.
