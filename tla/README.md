# A verification project for mqtt2db-go

mqtt2db-go subscribes to an MQTT broker (Comqtt), buffers telemetry messages in
memory and on disk, and writes them to PostgreSQL in batches. This directory
models that pipeline in TLA+, model-checks it with TLC on small instances, and
proves its central guarantees with TLAPS for instances of any size.

Paths and line numbers are those of the repository; `PROJECT.json` maps every
definition that models code to the lines it models.

## 1. Inventory

| Component | State | Operations | Hard parts | What makes it correct |
|---|---|---|---|---|
| Ring buffer, `internal/buffer` | slots, head, size, bytes under one mutex; metrics outside it | `Enqueue`, `Dequeue`, `State` | index wrap-around, two caps, metrics written after the unlock | a bounded FIFO; byte total exact; freed slots zeroed; counters add up |
| WAL, `internal/wal` | Badger entries with keys `msg:{nanos}:{seq}`, TTL, an atomic counter | `Append`, `Drain`, `Len`, `RefreshMetrics` | concurrent appends, drain in two transactions, restarts reset the counter, unreadable values | each entry leaves once, in insertion order; keys compare like numbers |
| Subscriber, `internal/subscriber` | paho session, client id, paused flag | `onPublish`, `HandleMessage`, `routeMessage`, `handleParseFailure` | acknowledgement and redelivery, ring full then WAL failing | what is acknowledged was accepted; redeliveries are recognised |
| Flush workers, `internal/flusher` | batch in hand, retry number, `walMu` | `workerLoop`, `pullBatch`, `flushWithRetry` | ambiguous commits, partly requeued batches, cancellation | no silent loss, no double flush, transient errors never dead-letter, progress |
| Adaptive mode, `internal/flusher` | mode, latency window, `criticalUntil`, `belowSince` under `mu` | `recordLatency`, `maybeRecover`, `enterCritical`, `criticalGate` | three lock sections per flush, several workers | one rung at a time, clocks reset, return to normal |
| Copier and pool, `internal/postgres` | pgx pool, one staging table per connection | `NewPool`, `CopyMessages`, `InsertUnparseable` | sessions and transaction pooling, lost connections | a batch is stored whole or not at all, success means stored, no leaked connection |
| Dead-letter sink, `internal/deadletter` | an object counter | `Write` | one write of several fails | each dropped message is accounted for |
| MQTT session, `internal/subscriber` | connection, the broker's session and its expiry | `Start`, `onConnectionUp`, disconnect | a session that expired, was cleaned or resumed; a Subscribe that fails | a connection that subscribed hears the topic; queued publishes are kept |
| Process, `cmd/mqtt2db-go` | root context, open resources, five goroutines | boot, SIGTERM, wait of 30 s, deferred closes, exit | constructors that fail half way, subsystems that end early, crash and restart | closes after use, in order; every shutdown ends |
| Configuration, `internal/config` | the merged document | defaults, YAML, environment, `Validate` | rules stated twice, in `Validate` and in the constructors | what it accepts boots, but for named gaps |
| Health server, `internal/health` | registered probes | readiness request | probes in map order over shared resources | ready means every probe has answered now |
| Logging, migrations, stress tools, version | – | – | output, a separate command, test tools | see section 9 |

How they interact: paho calls the subscriber, one publish at a time. The
subscriber offers the message to the ring and, on `ErrFull`, to the WAL. Each
worker wakes on a timer, takes a batch from the ring and fills it up from the
WAL under `walMu`, then calls `CopyMessages`. After its last retry a transient
error puts the batch back into the WAL; a poison error (SQLSTATE class 22 or
23), or a WAL that fails, sends it to the dead-letter sink. Latencies and errors
of all workers drive the shared mode. `run` constructs everything in order and
starts five goroutines: the subscriber, the workers, two HTTP servers and a
ticker for the WAL's gauges. The readiness probes use the same pool as the
workers. SIGTERM cancels the context that everything runs under; `run` waits up
to 30 seconds, and its deferred closes take down the WAL and then the pool.

`PROJECT.json` lists the hazards of this code, each at its line, with the
properties that would catch it going wrong.

## 2. Modules

```
FoldProofs <- RingProofs, WALProofs
BoundedFIFO <- Ring <- RingProofs, MCRing
ModeLadder <- FlusherMode <- FlusherModeHistory <- FlusherModeProofs
Buffers <- Subscriber, Flusher <- Pipeline <- MCPipeline, PipelineProofs <- OwnershipProofs
                DeliveryContract <- Pipeline
WALContract <- WAL <- WALProofs
CopyContract <- Copier <- CopierProofs
Config <- Process <- Health, Session <- Service <- MCService, ServiceProofs
```

**Ring** models `buffer.go`. One action per critical section (`Enqueue`,
`Refuse`, `Dequeue`, `DequeueNil`), then the metric writes that follow the
unlock, each a step of its own with the values captured under the lock.
Thresholds are percentages, as `New` computes them. **BoundedFIFO** is the
abstract queue: accept at the tail while there is room, hand out a prefix.

**FlusherMode** models every lock section of `Flusher.mu`. `workerLoop` reads
the mode and the gate in two steps; a successful flush runs `maybeRecover` and
then `recordLatency` in two steps, so that steps of other workers fall in
between. Times are ages: `gate` is the time left until `criticalUntil`, `below`
the age of `belowSince`. `p95Locked` sorts the window and indexes it.
**ModeLadder** says what the mode may do at all. **FlusherModeHistory** adds a
count of the pulls a worker makes while the gate is closed.

**Buffers**, **Subscriber**, **Flusher** and **Pipeline** are the end-to-end
model. A message is a model value that stands for its dedup key; since
`makeDedupKey` uses the time of delivery, each delivery of a publish is a new
message. The ring is the FIFO that `Ring` is shown to implement. The WAL is a
set of messages; module `WAL` looks inside. Each access to shared state is a
step: one `Enqueue`, one Badger transaction (so `Drain` is two), one PostgreSQL
transaction, one S3 object. Where the code gives a message up, the model records
it in `lost` with one of five causes: the process crashed (`crash`), it exited
with messages in memory (`exit`), a backoff was cancelled (`cancel`), a
dead-letter write failed (`deadletter`), a WAL entry expired (`ttl`).
`CopyTransient` may or may not leave the rows behind, as an error after a commit
can. `Puback` follows every return of the handler: `Start` builds the paho
client without manual acknowledgement. The PUBACK may be lost with the connection
(`PubackLost`), which drops, or which `Start` closes after SIGTERM without waiting
for the handler; `Exit` waits for the workers only and may cut the handler off
anywhere. **DeliveryContract** is the promise to an accepted message: pending until
it has an outcome, and outcomes are final.

**WAL** models `wal.go`. A key is its sequence of digits, and Badger's order is
the order of characters. `Append` stamps, numbers and commits in three steps;
`Drain` reads and deletes in two transactions; entries expire, turn unreadable,
survive a crash; the counter starts again with the process. `Base` and `Width`
stand for the code's 10 and 20; `Rest` is the loop of `writePadded20`, and
`parseKeyTime` reads the digits back. The clock never steps back (`Tick`), and a
restart takes longer than one tick (`Reopen`); section 9 says what rests on it.
**WALContract** is what the pipeline takes the WAL for, a set from which a message
leaves by `Drain` or by expiry; it is the link between `WAL` and the variable
`wal` of `Buffers`.

**Copier** models `postgres.go`: the pool, the session behind each connection,
the staging table that `AfterConnect` creates in a session, and the statements
of `CopyMessages`. `PoolMode` says whether a connection has a session of its own
or borrows one for each transaction. **CopyContract** is what `Flusher` takes a
call for: one step that succeeds with the whole batch stored, or fails and may
have stored the whole batch or nothing (`CopyOK`, `CopyTransient`, `CopyPoison`).

**Config** holds the defaults, the overlay of file and environment, every rule of
`Validate`, and next to them what each constructor refuses (`Accepts`).
`Unchecked` names the gaps between the two: a DSN that does not parse, other
columns, a value log that Badger refuses (outside 1 MiB to 2 GiB), more slots than
`make` can allocate (`MaxSlots`), HTTP paths that `ServeMux` refuses. **Process** is
`run`: one action per constructor, the subsystems, the calls their goroutines have
in progress inside the pool or the WAL, the wait after SIGTERM and the deferred
closes. **Health** is a readiness request, probe by probe in any order. **Session**
is the MQTT connection: connect, subscribe, lose the connection, and the broker's
session with its expiry clock. **Service** composes them: a step of the process that ends
it takes the session's connection and the open request with it. The work that
`Pipeline` models appears in `Service` only as calls that use a resource.

External parts (the broker and paho, PostgreSQL, PgBouncer, Badger's order,
S3) are modelled by how the code uses them, and marked external in the map.

## 3. Runs that pass

| Run | Instance | What it shows |
|---|---|---|
| `ring` | 3 slots, 7 bytes, messages of 1 and 3 bytes, one producer, two consumers, 4 enqueues | types, `FreeSlotsZeroed`, `BytesExact`, `CountersBalance`, and that the ring refines `BoundedFIFO` |
| `mode` | two workers, a window of 2 samples, latencies 0..3, one retry | `RecoveryClockReset`, `StalePullOnce`, refinement of `ModeLadder`, and `RecoversToNormal` |
| `pipeline` | all seven kinds of fault, a good and a bad topic, two deliveries (the second one poison), one ring slot, two workers, one retry | `Conserved`, `NoDoubleFlush`, `OneLiveEntry`, `NoTransientDeadLetter`, `FlushEnds`, `KeepsContract` |
| `pipeline_live` | two workers, a poison message that only fits the WAL, PostgreSQL failures, SIGTERM and restarts | `EventuallySettled` |
| `wal` | two appenders, limits 1 and 2, three appends, four clock values, TTL 2, base 2 | `KeyOrder`, `ExactlyOnce`, `InsertionOrder`, `AgeOfOldest`, `UnreadableBlocks`, and that the store refines `WALContract` |
| `copier` | two workers, two connections, three sessions, three messages, direct connections | `NoLeak`, `StagingReady`, `ConfirmedStored`, `AtomicBatch`, and that a call refines the one step of `CopyContract` |
| `service` | twelve configurations (one that boots, one or more for each gap of `Validate`, and refused ones), one publish, a session of 1.5 seconds | `ValidConfigBoots`, `UsesOpen`, `ReadyIsFresh`, `ListensWhenUp`, `QueuedKept`, `ShutdownEnds` |

Why the bounds are enough. Three slots with batches of one and two make the head
wrap at every offset, and 7 bytes refuse a large message while slots are free.
Two samples are the smallest window in which an old sample outlives a new one;
latencies 0..3 fall below, between and above the two thresholds. One ring slot
makes the WAL path the normal case; a batch size of two makes a pull take from
both; two deliveries in one batch reach a partly requeued, partly dead-lettered
batch. In base 2, clock values and sequence numbers get a digit longer within
the run, which is what zero padding is about. Three sessions leave one free, so
a reconnect may land in a session that another connection has left. A backoff of
1500 ms is a session of one second: it can expire, be resumed, or be found gone
by the next process, which may have another configuration. `MaxSlots` is a stand-in
of a million for what 64 bits can address: one configuration exceeds it, as one has
a value log of 1000 bytes; sizes beyond 2 GiB are outside TLC's numbers and left to
the proof. One publish is enough, because the handler works on one at a time and
the broker's queue is a set.

Named bounds: `MaxCalls` (Ring), `MaxLatency` (FlusherMode), `MaxNanos` and
`MaxAppends` (WAL), the sizes of `Msgs` and `Publishes`. `ring` and `wal` switch
deadlock checking off because these bounds stop them; no other run does.
`pipeline` uses symmetry of the workers, which no definition tells apart.

Every property has a mutant: a definition next to the real one, changed as a
plausible bug would change it (an off-by-one, a missing delete, a dropped lock),
under which TLC finds the property violated.

## 4. Fairness

Only the three liveness properties need it.

* `mode`: each worker and the clock make progress, since timers fire, lock
  sections end and `CopyMessages` returns. Nothing is assumed about PostgreSQL
  getting well: `RecoversToNormal` speaks of the behaviours in which it does
  (`Heal`), after which calls are fast and traffic keeps pulls non-empty.
* `pipeline_live`: weak fairness of the handler, the workers, exit and restart
  (goroutines are scheduled, an orchestrator restarts the process). Strong
  fairness of entering `Drain`, because `sync.Mutex` hands a contended lock to a
  waiting goroutine in the end, and of `Stop`, because a `select` with
  `ctx.Done` ready picks it in the end. `EventuallySettled` is conditional on
  `calm`: faults stop at some point, which is not assumed to happen.
* `service`: weak fairness of `Main`, the goroutine of `run`, whose steps nothing
  but its own waiting delays, and of `CallReturns`: a call into the pool or the
  WAL returns in the end, because the flusher passes the cancelled context on,
  the handler and the probes have deadlines, and Badger's calls are local
  (`Bounded`). Nothing is assumed of the subsystems: `ShutdownEnds` holds although
  a worker may never leave its loop, because of the 30 seconds.

## 5. Where the code and its documents disagree

Five runs check one statement each and TLC finds it violated.

* `pipeline_refused`: `subscriber.go:7-10` says that a message which cannot be
  enqueued is not acked. paho acks when the handler returns, because
  `EnableManualAcknowledgment` is not set.
* `pipeline_redelivery`: the schema says that redeliveries collapse to one row.
  The dedup key holds the time of delivery, so a redelivery is a second row. The
  run loses a PUBACK with its connection; an orderly restart can do the same,
  because `Start` disconnects without waiting for the handler.
* `pipeline_drained`: `wal.go:172-174` says that a crash in the middle of a flush
  leaves entries replayable. `Drain` deletes them before it returns them, so the
  crash loses them whether or not the broker has been answered.
* `pipeline_shutdown`: `main.go:5-6` says that each subsystem flushes its
  in-flight work. The ring's content and a batch in backoff are dropped.
* `copier_pooled`: `postgres.go:154-155` says that transaction pooling does not
  orphan the staging table. It is a session's table; the next transaction may
  get another session.

Seen while modelling, without a run of their own:

* `flusher.go:13-14` asks for a quiet recovery window before normal mode.
  `belowSince` survives an excursion to critical mode (the switch of
  `recordLatency` leaves it alone), and the way back can then be immediate.
* `main.go:155-160` says that the MQTT probe means "connected at least once"; it
  returns nil whatever the connection does.
* `subscriber.go:152-154`: the session is to survive "at least the length of
  MaxReconnectBackoff". Seconds are truncated: 1.5 s becomes 1, and less than a
  second becomes no session at all. `max_reconnect_backoff` is used for nothing
  else; autopaho retries every second.
* `subscriber.go:224-229`: a Subscribe that fails is only logged, so the service
  can be connected, ready, and hear nothing until the next reconnect.
* `subscriber.go:176-179`: the connected gauge is cleared on a DISCONNECT packet
  and at shutdown, not when the network connection drops.
* `config.go:228` says that operators see every problem at once. `Validate` does
  not look at the DSN's syntax, at the order of `columns`, at Badger's bounds on
  `value_log_file_size` (1000 bytes or 4 GiB pass), at an upper limit of
  `max_messages`, or at the HTTP paths. Each of them ends the boot half way: the
  slots by a panic of `make`, a malformed metrics path by one of `ServeMux`, and
  health paths that are malformed or conflict by one in a goroutine, without
  `run`'s deferred closes.
* `protocol_version: 3` passes `Validate`, and the client speaks MQTT 5 all the
  same. `keepalive` is truncated to whole seconds and to 16 bits.
* `main.go:225` says that all subsystems are waited for; paho's handler goroutine
  is not one of them and may be in `Append` while the WAL closes.
* `README.md:122` says that messages are acked only after they land in
  PostgreSQL; they are acked once they are in the ring.
* ADR 0005 (lines 264-266) says that a message never disappears; a failed
  dead-letter write drops it (cause `deadletter`).
* `subscriber.go:340-342`: the paused gauge is said to clear when the ring is
  below its pause threshold; a successful spill clears it while the ring is full.
* `buffer.go:39-40` says that the spill state writes past the ring; the WAL is
  used on `ErrFull` only.
* `flusher.go:10-11` says that critical mode stops pulling; it pulls once its gate
  has passed, and critical mode entered through latency has no gate.
* `flusher.go:16-20` says that a batch is dead-lettered after its last retry;
  transient errors requeue it.
* `metrics.go:48`: the depth gauge is written after the unlock, so two threads
  can leave the older value in it.
* `wal.go:6-8` says that expired messages are dropped with a metric; nothing
  increments `expired_total`.
* `wal.go:121-122` says that `Drain` deletes in the same transaction; it uses two.

## 6. What is proved

About 205 lemmas and theorems, checked by TLAPS, for every value of the
constants that satisfies the named assumptions. Those on configured numbers are
what `Config.Validate` enforces; the others say that sets are disjoint and that
sizes are natural numbers, in `Copier` that the set of messages is finite, and in
`WAL` that the clock and the numbers fit the width: `WidthAssumption` says that
after `Width` turns of the loop nothing is left of the largest ones, which is
what 20 decimal digits are for 64 bits. Every invariant and every action property
that a run checks, and every refinement, is also a theorem.

**FoldProofs.** The recursion that the other proofs need. The library states
induction over an operator, which the provers cannot instantiate; it also states
that the naturals are well founded, from which induction over a *set* of numbers
(`NatSetInduction`) and over finite sets (`FiniteSetInduction`) follows. From
these: `SumAdd` and `SumUnion`, the sum of a function over a finite set with one
more element and over a disjoint union, and `LoopExists`, that a loop over an
index has the values its step defines.

**RingProofs.** `RingInvariant`, `RingTypes`, `SlotsExact`, `BytesAlwaysExact`,
`CountersAlwaysBalance`, `RingImplementsFIFO`. The inductive invariant says that
exactly the slots between head and tail hold messages. It is needed because the
refinement reads the queue off the slots: an `Enqueue` must hit a free slot, and
a `Dequeue` must leave the other held slots alone. The arithmetic is in lemmas on
the modulus for offsets of up to one turn. `BytesInv` adds that the byte total is
the sum of the sizes in these slots: an `Enqueue` adds one slot to the sum, and a
`Dequeue` takes away the sum over the slots it empties, across the wrap.
`CountersInv` adds that finitely many threads have left the critical section
without having counted; what they owe grows with a critical section, and shrinks
by what an increment adds to the counter.

**FlusherModeProofs.** `ModeTypes`, `ModeInvariant`, `RecoveryClockAlwaysReset`,
`FlusherImplementsLadder`, `StalePullAtMostOnce`. The invariant is the types plus
`RecoveryClockReset`; the refinement needs the case split of `recordLatency` on
the mode it finds, not on the one the worker saw earlier. For `StalePullOnce`,
`EarlyInv` says that a worker which has used its stale pull is not in front of
another one while the gate is closed: it must read the mode, and then the gate,
again. `ModeTypes` needs `BackoffInv`: backoff only with a retry left.

**PipelineProofs.** `PipelineTypes`, `NoSilentLoss`, `TransientNeverDeadLetters`,
`FlushAlwaysEnds`, `PipelineKeepsContract`, `AckedWhileWALWorks`. `Conserved` is not
inductive alone. The invariant adds `HandsInv` (a worker between batches holds
nothing, a loop works on a part of its batch, backoff only with a retry left), `OriginInv` (only accepted messages
are buffered or settled, and the one being routed was not accepted before) and
`ReasonInv` (a worker in the dead-letter loop has a reason). The argument of
`NoSilentLoss`: every action moves a message between places of `InFlight`, or
settles it; `RangeSplit` and `RangeAppend` do it for the ring, and the drain
is safe because entries are handed over in the step that deletes them.

`FlushAlwaysEnds` bounds the steps of one flush by `2 * MaxRetries + 3 + 2 * n` after
the pull of n messages or fewer. Each step lowers `StepsLeft`, a natural number: a
drain may add as many messages as it has room for, which the rank has counted
already, and an append that fails starts the dead-letter loop over the whole
batch, for which the rank of the requeue loop includes the batch a second time.
`FiniteInv` is what makes these sets countable when the set of all messages is
infinite.

One of the statements that section 5 refutes is proved under the condition that it
needs. `AckedWhileWALWorks`: without failures of the WAL, only what was accepted is
acknowledged, whatever else fails.

**OwnershipProofs.** `NeverFlushedTwiceAtOnce` and `NeverTwiceInWAL`. A message has
one owner (`Exclusive`): the ring, the WAL, or the batch of one worker. The
invariant needs `Once` (no message twice in the ring, or a dequeue would leave a
copy behind) and `DrainInv` (between the two transactions of a drain the worker
holds `walMu` and what it has read is still in the WAL), which is where the
lock enters the argument. A batch in the dead-letter loop is deliberately owned
no more: after a requeue that failed half way its first messages are in the WAL
as well.

**WALProofs.** `PaddedOrder`, `ParseInverts`, `WALInvariant`, `WALTypes`,
`KeysStayOrdered`, `AppendsExactlyOnce`, `DrainInOrder`, `UnreadableNeverPassed`,
`GaugeIsOldest`, `WALImplementsContract`. `PaddedOrder`: padded numbers compare
like the numbers, in any base and width. It is an induction on the number of
leading digits (`PrefixOrder`): the first i digits of m and n compare like what
the loop has left of them after `Width - i` turns. `JoinedOrder` derives the order of
keys, with the colon after every digit; `ParseInverts` says that `parseKeyTime`
reads from a key the stamp that was written into it, and with the order it gives
`GaugeIsOldest`: the first key of the iteration holds the oldest stamp. The
invariant says that identities are unique although the counter restarts:
`StampsInv`, an identity numbered by an earlier process has an earlier stamp
than anything this process may still append. That is where the assumption that
a restart takes longer than a tick of the clock (`Reopen`) is used, and that the
clock is not set back (`Tick`).

**ServiceProofs.** `ServiceTypes`, `ValidatedConfigBoots`, `ClosedAfterUse`,
`ReadyAfterAllProbes`, `SubscribedWhenUp`, `QueueSurvives`, for any set of
configurations and publishes. `PhaseInv` says what is open and what runs in every
phase of `run`, `CallsTracked` that a call in progress belongs to a subsystem
that has not returned; together they give `UsesOpen`. `ValidatedAccepted`
compares the rules of `Validate` with each constructor's; what they leave open is
`Unchecked`. `QueueSurvives` speaks of the session's lifetime as the code computes
it, in whole seconds.

**CopierProofs.** `CopierTypes`, `CopierInvariant`, `PoolNeverLeaks`,
`SuccessMeansStored`, `BatchesAreAtomic` and `CopierImplementsContract` for both
pool modes, and `DirectConnectionsKeepStaging` for `PoolMode = "session"`, which is
exactly the assumption that `copier_pooled` shows to be needed. The invariant
ties connections to calls, keeps the staging table empty between transactions,
and says that what a transaction has copied is its whole batch; the row count of
`CopyFrom` is what makes it so (`FullCopy`, a fact about finite sets).

## 7. What is only model-checked

The three liveness properties, `RecoversToNormal`, `EventuallySettled` and
`ShutdownEnds`: they rest on fairness, and neither fairness nor `ENABLED` is within
the prover's reach. `FlushAlwaysEnds` is the part of `EventuallySettled` that needs
no fairness: a flush cannot go on for ever without ending, but that its worker
makes the next step is left to TLC.

## 8. Plan

Done, in this order: ring, mode, pipeline, WAL and copier, because loss of
messages is what the service is about; then the process around them with its
configuration, health server and MQTT session, the WAL as a refinement of the
set that the pipeline uses, `CopyMessages` as a refinement of the step that the
pipeline makes of it, the proofs of ownership and of the WAL, and the proofs
about digits, sums and counters. Next:

1. The pipeline inside the service: one model in which the handler and the
   workers of `Pipeline` are the users of `Service`.
2. The topic grammar of `ParseTopic` with its four error classes, and the object
   keys of the dead-letter sink.
3. Starvation of the WAL under traffic that fills every batch from the ring.

## 9. What is not modelled

* Version, migrations, log output: constants, a separate command around a
  library, and text.
* A wall clock that is set back. `makeKey` stamps with `time.Now()`, which an
  operator or NTP may step back. Within a process `ExactlyOnce` does not need a
  steady clock, since the sequence number keeps keys distinct; across a restart it
  does, because the number starts again and a key could come back. `InsertionOrder`
  and `AgeOfOldest` need it at any time: entries stamped after the step would be
  drained first.
* Contents of messages, topics and rows. A topic parses or does not; a message is
  poison or not; a WAL value can be decoded or not. The pipeline identifies a
  message with its dedup key, so two messages of one device in the same
  nanosecond, which PostgreSQL would take for one, do not occur.
* The YAML and environment parsers, and configured values that nothing tells
  apart (addresses, credentials, flags). Letter case of the logging values.
* Other replicas in the shared subscription: `Session` has one client.
* Object keys of the dead-letter sink: day, tenant, device, time and a counter
  that restarts with the process.
* A bound on the time of a `CopyMessages` call: the code sets none per attempt, so
  the models let it take any time.
* Metrics other than the ring's counters and the WAL's oldest age: nothing in the
  program reads them.
* The load generator and the stress harness under `test/`.
