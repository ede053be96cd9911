------------------------------ MODULE Pipeline ------------------------------
(***************************************************************************)
(* cmd/mqtt2db-go: the subscriber and the flush workers composed over the  *)
(* ring and the WAL, with what happens to the process as a whole: SIGTERM, *)
(* exit, crash and restart, and the expiry of WAL entries.                 *)
(***************************************************************************)
EXTENDS Subscriber, Flusher

vars == <<bufVars, subVars, flushVars>>

Init == BuffersInit /\ SubscriberInit /\ FlusherInit

Lost == {l[1] : l \in lost}
Settled == rows \cup dlq \cup Lost

\* Messages that exist only in the process's memory.
InMemory == Range(ring) \cup UNION {HeldBy(w) : w \in Workers}
InFlight == InMemory \cup wal

-----------------------------------------------------------------------------
\* Everything in memory is gone; the broker takes back what was not acked.
MemoryLost(cause) ==
  /\ phase' = "down"
  /\ Drop(InMemory, cause)
  /\ ring' = << >>
  /\ pc' = [w \in Workers |-> "stopped"]
  /\ batch' = [w \in Workers |-> {}]
  /\ room' = [w \in Workers |-> 0]
  /\ read' = [w \in Workers |-> {}]
  /\ todo' = [w \in Workers |-> {}]
  /\ attempt' = [w \in Workers |-> 0]
  /\ walMu' = NoWorker
  /\ broker' = [p \in Publishes |-> IF broker[p] = "inflight" THEN "queued" ELSE broker[p]]
  /\ subPc' = "idle" /\ subPub' = None /\ subMsg' = None
  /\ UNCHANGED <<wal, calm, of, accepted, spilled, preserved,
                 rows, dlq, walFailed>>

\* SIGTERM cancels the root context.
Sigterm == /\ phase = "running" /\ May("sigterm")
           /\ phase' = "stopping"
           /\ UNCHANGED <<ring, wal, calm, subVars, flushVars>>

\* run returns once every subsystem has.  The workers are out of their loops;
\* the subscriber's Start does not wait for paho's handler, which the exit may
\* cut off at any point.
Exit == /\ phase = "stopping"
        /\ \A w \in Workers : pc[w] = "stopped"
        /\ MemoryLost("exit")

\* The process dies, or the 30 seconds of run's shutdown are over.
Crash == /\ phase # "down" /\ May("crash")
         /\ MemoryLost("crash")

\* The orchestrator starts the process again on the same WAL directory.
Restart == /\ phase = "down"
           /\ phase' = "running"
           /\ pc' = [w \in Workers |-> "wait"]
           /\ UNCHANGED <<ring, wal, calm, subVars, batch, room, read, todo,
                          attempt, walMu, rows, dlq, walFailed, lost>>

\* Badger drops an entry whose TTL is over.  One that a Drain has read is in
\* that worker's hands whether it expires or is deleted.
Expire(m) == /\ m \in wal /\ May("ttl")
             /\ \A w \in Workers : m \notin read[w]
             /\ wal' = wal \ {m}
             /\ Drop({m}, "ttl")
             /\ UNCHANGED <<ring, phase, calm, subVars, pc, batch, room, read,
                            todo, attempt, walMu, rows, dlq, walFailed>>

\* From some point on the environment is kind: no crash, signal, connection
\* loss, WAL, PostgreSQL or S3 error and no expiry.
CalmDown == /\ ~calm /\ calm' = TRUE
            /\ UNCHANGED <<ring, wal, phase, subVars, flushVars>>

Next ==
  \/ SubscriberStep /\ UNCHANGED flushVars
  \/ (\E w \in Workers : WorkerStep(w)) /\ UNCHANGED subVars
  \/ Sigterm \/ Exit \/ Crash \/ Restart
  \/ \E m \in Msgs : Expire(m)

Spec == Init /\ [][Next]_vars

\* Goroutines are scheduled, timers fire and calls return, the process is
\* restarted.  sync.Mutex hands walMu to a waiting worker in the end, and a
\* select picks ctx.Done in the end when it is ready again and again.
Fairness ==
  /\ WF_vars(Handle /\ UNCHANGED flushVars)
  /\ WF_vars(Exit) /\ WF_vars(Restart)
  /\ \A w \in Workers :
       /\ WF_vars(WorkerStep(w) /\ UNCHANGED subVars)
       /\ SF_vars((\E S \in SUBSET wal : DrainRead(w, S)) /\ UNCHANGED subVars)
       /\ SF_vars(Stop(w) /\ UNCHANGED subVars)

LiveSpec == Init /\ [][Next \/ CalmDown]_vars /\ Fairness

-----------------------------------------------------------------------------
(* Properties *)

\* Every variable of the pipeline has its type.
TypeOK == BuffersTypeOK /\ SubscriberTypeOK /\ FlusherTypeOK

\* No silent loss: a message the subscriber accepted is in the ring, in the
\* WAL or in the hands of a worker until it is stored, dead-lettered, or
\* dropped at one of the five places that Causes names.  Retries, ambiguous
\* commits, partly requeued batches, failing drains, crashes and restarts
\* open no sixth one.
Conserved == accepted \ Settled \subseteq InFlight

Contract == INSTANCE DeliveryContract WITH
  pending <- InFlight \ Settled, stored <- rows,
  deadLettered <- dlq, dropped <- Lost

\* The pipeline keeps the delivery contract: only accepted messages get an
\* outcome, outcomes are final, and pending messages stay pending until then.
KeepsContract == Contract!Spec

\* walMu does its work: two workers never have the same message in a flush at
\* the same time, although batches are requeued and drained concurrently.
Flushing(w) == IF pc[w] \in {"copy", "backoff"} THEN batch[w] ELSE {}
NoDoubleFlush ==
  \A v, w \in Workers : v # w => Flushing(v) \cap Flushing(w) = {}

\* A message never gets a second live WAL entry: whatever is about to be
\* appended, by the subscriber or by a requeue, is not in the WAL already.
OneLiveEntry ==
  /\ subPc = "spill" => subMsg \notin wal
  /\ \A w \in Workers : pc[w] = "requeue" => todo[w] \cap wal = {}

\* The first success criterion of ADR 0005: transient PostgreSQL trouble never
\* dead-letters.  Without a poison message among the accepted ones and without
\* a failing WAL the dead-letter sink stays empty, for any sequence of errors.
NoTransientDeadLetter ==
  dlq # {} => walFailed \/ accepted \cap Poison # {}

\* How many steps worker w may still make before it waits for its timer again:
\* the two transactions of a Drain, two for each retry left (the backoff and the
\* call), and one per message of the requeue loop and of the dead-letter loop.
StepsLeft(w) ==
  LET retries == 2 * (MaxRetries - attempt[w])
      held == Cardinality(batch[w])
  IN  CASE pc[w] = "drain" -> retries + 3 + 2 * (held + room[w])
        [] pc[w] = "delete" -> retries + 2 + 2 * (held + Cardinality(read[w]))
        [] pc[w] = "copy" -> retries + 1 + 2 * held
        [] pc[w] = "backoff" -> retries + 2 * held
        [] pc[w] = "requeue" -> held + Cardinality(todo[w])
        [] pc[w] = "deadletter" -> Cardinality(todo[w])
        [] OTHER -> 0

\* A step that moves worker w inside a flush brings it nearer to the end.
Advances(w) ==
  <<pc[w], todo[w]>>' # <<pc[w], todo[w]>> /\ pc'[w] \notin {"wait", "stopped"} =>
    /\ StepsLeft(w)' >= 0
    /\ IF pc[w] = "wait"
       THEN \E n \in BatchSizes : StepsLeft(w)' <= 2 * MaxRetries + 3 + 2 * n
       ELSE StepsLeft(w)' < StepsLeft(w)

\* A flush ends: whatever fails, and however often, a worker that has pulled n
\* messages or fewer is back at its timer, or has ended, after a number of steps
\* that the batch size and the retry limit bound.  Neither the retries, nor a
\* requeue that falls through to the dead-letter loop, nor a Drain that waits for
\* walMu make it start over.
FlushEnds == [][\A w \in Workers : Advances(w)]_vars

\* Once the environment is calm, everything accepted is settled in the end: no
\* lock, retry loop or WAL round trip keeps a message for ever.
EventuallySettled ==
  \A m \in Msgs : (calm /\ m \in accepted) ~> (m \in Settled)

-----------------------------------------------------------------------------
(* What comments and documents of the repository say of the pipeline. *)

\* subscriber.go: "Messages that can't be enqueued are NOT acked, so Comqtt
\* buffers or redelivers".
RefusedNotAcked ==
  \A p \in Publishes \ BadTopics :
    broker[p] = "acked" => \E m \in accepted : of[m] = p

\* 0001_init.up.sql: "duplicate MQTT redeliveries collapse to a single row".
OneRowPerPublish == \A m, n \in rows : of[m] = of[n] => m = n

\* wal.go, Drain: "a flusher crash mid-flush leaves entries replayable on
\* restart".
CrashKeepsSpilled ==
  \A m \in spilled : <<m, "crash">> \in lost => m \in wal \cup rows \cup dlq

\* main.go: "each subsystem flushes its in-flight work then returns".
ShutdownFlushes ==
  \A m \in Msgs : {<<m, "exit">>, <<m, "cancel">>} \cap lost # {} => m \in wal \cup rows \cup dlq
=============================================================================
