------------------------------ MODULE Flusher ------------------------------
(***************************************************************************)
(* internal/flusher: the workers that move messages from the ring and the  *)
(* WAL to PostgreSQL, and what they do when that fails: retry, put the     *)
(* batch back into the WAL, dead-letter it.  Each step that touches shared *)
(* state (the ring's lock, a Badger transaction, a PostgreSQL transaction, *)
(* one S3 object) is an action.                                            *)
(*                                                                         *)
(* The adaptive mode is module FlusherMode's subject.  Here it is seen     *)
(* from outside: a pull asks for one of the two batch sizes, and a closed  *)
(* gate only delays it.  A batch is a set: the loops over it take its      *)
(* messages in any order.                                                  *)
(***************************************************************************)
EXTENDS Buffers

CONSTANTS Workers,
          BatchSizes,  \* batch_size and elevated_batch_size
          MaxRetries,
          Poison,      \* messages PostgreSQL refuses with SQLSTATE 22 or 23
          NoWorker

ASSUME FlusherAssumption ==
  /\ BatchSizes \subseteq Nat \ {0}
  /\ MaxRetries \in Nat
  /\ Poison \subseteq Msgs
  /\ NoWorker \notin Workers

VARIABLES pc,        \* where each worker is
          batch,     \* per worker: the batch in hand
          room,      \* per worker: what pullBatch may still take from the WAL
          read,      \* per worker: entries Drain has read and not yet deleted
          todo,      \* per worker: messages a loop over the batch has left
          attempt,   \* per worker: retry number
          walMu,     \* the worker that holds Flusher.walMu
          rows,      \* dedup keys in the telemetry table
          dlq,       \* messages with a dead-letter object
          walFailed, \* some requeue met a failing WAL
          lost       \* <<message, cause>>: dropped at a point of the code

flushVars == <<pc, batch, room, read, todo, attempt, walMu, rows, dlq, walFailed, lost>>

Causes == {"crash", "exit", "cancel", "deadletter", "ttl"}

FlusherInit ==
  /\ pc = [w \in Workers |-> "wait"]
  /\ batch = [w \in Workers |-> {}]
  /\ room = [w \in Workers |-> 0]
  /\ read = [w \in Workers |-> {}]
  /\ todo = [w \in Workers |-> {}]
  /\ attempt = [w \in Workers |-> 0]
  /\ walMu = NoWorker
  /\ rows = {} /\ dlq = {} /\ walFailed = FALSE /\ lost = {}

FlusherTypeOK ==
  /\ pc \in [Workers -> {"wait", "drain", "delete", "copy", "backoff",
                         "requeue", "deadletter", "stopped"}]
  /\ batch \in [Workers -> SUBSET Msgs]
  /\ room \in [Workers -> Nat]
  /\ read \in [Workers -> SUBSET Msgs]
  /\ todo \in [Workers -> SUBSET Msgs]
  /\ attempt \in [Workers -> 0..MaxRetries]
  /\ walMu \in Workers \cup {NoWorker}
  /\ rows \subseteq Msgs /\ dlq \subseteq Msgs
  /\ walFailed \in BOOLEAN
  /\ lost \subseteq Msgs \X Causes

Goto(w, label) == pc' = [pc EXCEPT ![w] = label]
SetBatch(w, S) == batch' = [batch EXCEPT ![w] = S]
SetTodo(w, S) == todo' = [todo EXCEPT ![w] = S]
Drop(S, cause) == lost' = lost \cup (S \X {cause})

\* What worker w alone answers for.  In the requeue and dead-letter loops the
\* messages already handled are no longer its own.
HeldBy(w) ==
  IF pc[w] \in {"requeue", "deadletter"} THEN todo[w] ELSE batch[w]

-----------------------------------------------------------------------------
(* pullBatch *)

\* The timer fires and Dequeue takes up to n messages from the ring.  After
\* cancellation Go's select may still choose the timer over ctx.Done.
PullRing(w, n) ==
  /\ pc[w] = "wait" /\ phase # "down"
  /\ SetBatch(w, Front(n))
  /\ ring' = Rest(n)
  /\ room' = [room EXCEPT ![w] = n - Taken(n)]
  /\ attempt' = [attempt EXCEPT ![w] = 0]
  /\ Goto(w, IF Taken(n) < n THEN "drain" ELSE "copy")
  /\ UNCHANGED <<wal, phase, calm, read, todo, walMu, rows, dlq, walFailed, lost>>

\* Mutant of AfterPull: a Drain that returns nothing ends the tick, although
\* the ring gave messages.
AfterPullGivesUp(w, S) == Goto(w, "wait")

\* workerLoop goes on with the batch unless it is empty.
AfterPull(w, S) == Goto(w, IF S = {} THEN "wait" ELSE "copy")

\* Mutant of WALFree: Drain calls are not serialized.
WALFreeAlways == TRUE

\* No other worker is inside Drain.
WALFree == walMu = NoWorker

\* Drain's read transaction, under walMu: as many entries as fit.
DrainRead(w, S) ==
  /\ pc[w] = "drain" /\ phase # "down"
  /\ WALFree
  /\ S \subseteq wal
  /\ Cardinality(S) = IF Cardinality(wal) < room[w] THEN Cardinality(wal) ELSE room[w]
  /\ IF S = {}
     THEN /\ AfterPull(w, batch[w])
          /\ UNCHANGED <<read, walMu>>
     ELSE /\ Goto(w, "delete")
          /\ read' = [read EXCEPT ![w] = S]
          /\ walMu' = w
  /\ UNCHANGED <<bufVars, batch, room, todo, attempt, rows, dlq, walFailed, lost>>

\* Mutant of Undrained: the delete transaction is forgotten.
UndrainedAll(w) == wal

\* The WAL after Drain deleted what it read.
Undrained(w) == wal \ read[w]

\* Drain's delete transaction; only now are the entries returned.
DrainDelete(w) ==
  /\ pc[w] = "delete" /\ phase # "down"
  /\ wal' = Undrained(w)
  /\ SetBatch(w, batch[w] \cup read[w])
  /\ read' = [read EXCEPT ![w] = {}]
  /\ walMu' = NoWorker
  /\ Goto(w, "copy")
  /\ UNCHANGED <<ring, phase, calm, room, todo, attempt, rows, dlq, walFailed, lost>>

\* Either transaction fails: pullBatch goes on with what the ring gave.
DrainError(w) ==
  /\ \/ pc[w] = "drain" /\ WALFree
     \/ pc[w] = "delete"
  /\ phase # "down" /\ May("wal")
  /\ read' = [read EXCEPT ![w] = {}]
  /\ walMu' = NoWorker
  /\ AfterPull(w, batch[w])
  /\ UNCHANGED <<bufVars, batch, room, todo, attempt, rows, dlq, walFailed, lost>>

-----------------------------------------------------------------------------
(* flushWithRetry *)

\* CopyMessages commits; rows that are already there are left alone.  After
\* cancellation no call succeeds: one that SIGTERM catches between its commit
\* and its return has committed before.
CopyOK(w) ==
  /\ pc[w] = "copy" /\ phase = "running"
  /\ batch[w] \cap Poison = {}
  /\ rows' = rows \cup batch[w]
  /\ SetBatch(w, {})
  /\ Goto(w, "wait")
  /\ UNCHANGED <<bufVars, room, read, todo, attempt, walMu, dlq, walFailed, lost>>

\* Mutants of AfterError: one retry too many, or out of retries everything is
\* dead-lettered, or everything is requeued.
AfterErrorOneMore(w, poison) ==
  IF attempt[w] <= MaxRetries
  THEN Goto(w, "backoff") /\ UNCHANGED todo
  ELSE /\ Goto(w, IF poison THEN "deadletter" ELSE "requeue")
       /\ SetTodo(w, batch[w])

AfterErrorDeadLetters(w, poison) ==
  IF attempt[w] < MaxRetries
  THEN Goto(w, "backoff") /\ UNCHANGED todo
  ELSE Goto(w, "deadletter") /\ SetTodo(w, batch[w])

AfterErrorRequeues(w, poison) ==
  IF attempt[w] < MaxRetries
  THEN Goto(w, "backoff") /\ UNCHANGED todo
  ELSE Goto(w, "requeue") /\ SetTodo(w, batch[w])

\* Where an error leads: back off, or once the retries are used up to the WAL
\* for a transient error and to the dead-letter sink for a poison one.
AfterError(w, poison) ==
  IF attempt[w] < MaxRetries
  THEN Goto(w, "backoff") /\ UNCHANGED todo
  ELSE /\ Goto(w, IF poison THEN "deadletter" ELSE "requeue")
       /\ SetTodo(w, batch[w])

\* CopyMessages fails for a reason that may pass.  The error may hide a commit
\* that reached the server.
CopyTransient(w) ==
  /\ pc[w] = "copy" /\ phase # "down"
  /\ May("postgres") \/ phase = "stopping"
  /\ rows' \in {rows} \cup (IF batch[w] \cap Poison = {} THEN {rows \cup batch[w]} ELSE {})
  /\ AfterError(w, FALSE)
  /\ UNCHANGED <<bufVars, batch, room, read, attempt, walMu, dlq, walFailed, lost>>

\* PostgreSQL refuses a row, and with it the whole batch.
CopyPoison(w) ==
  /\ pc[w] = "copy" /\ phase = "running"
  /\ batch[w] \cap Poison # {}
  /\ AfterError(w, TRUE)
  /\ UNCHANGED <<bufVars, batch, room, read, attempt, walMu, rows, dlq, walFailed, lost>>

\* Mutant of Retry: the attempts are not counted.
RetryUncounted(w) ==
  /\ pc[w] = "backoff" /\ phase # "down"
  /\ Goto(w, "copy")
  /\ UNCHANGED <<bufVars, batch, room, read, todo, attempt, walMu, rows, dlq, walFailed, lost>>

\* The backoff ends.
Retry(w) ==
  /\ pc[w] = "backoff" /\ phase # "down"
  /\ attempt' = [attempt EXCEPT ![w] = @ + 1]
  /\ Goto(w, "copy")
  /\ UNCHANGED <<bufVars, batch, room, read, todo, walMu, rows, dlq, walFailed, lost>>

\* The context is cancelled during a backoff: flushWithRetry just returns.
CancelBackoff(w) ==
  /\ pc[w] = "backoff" /\ phase = "stopping"
  /\ Drop(batch[w], "cancel")
  /\ SetBatch(w, {})
  /\ Goto(w, "wait")
  /\ UNCHANGED <<bufVars, room, read, todo, attempt, walMu, rows, dlq, walFailed>>

\* Mutant of FinishOne: the loop returns after its first message.
FinishFirst(w, m) ==
  Goto(w, "wait") /\ SetBatch(w, {}) /\ SetTodo(w, {})

\* One message of a loop is done; the batch is given up with its last one.
FinishOne(w, m) ==
  /\ SetTodo(w, todo[w] \ {m})
  /\ IF todo[w] = {m}
     THEN Goto(w, "wait") /\ SetBatch(w, {})
     ELSE UNCHANGED <<pc, batch>>

\* The requeue loop appends one message to the WAL.
Requeue(w, m) ==
  /\ pc[w] = "requeue" /\ phase # "down" /\ m \in todo[w]
  /\ wal' = wal \cup {m}
  /\ FinishOne(w, m)
  /\ UNCHANGED <<ring, phase, calm, room, read, attempt, walMu, rows, dlq, walFailed, lost>>

\* Mutant of FallThrough: the message whose append failed is skipped.
FallThroughSkips(w, m) == SetTodo(w, batch[w] \ {m})

\* The whole batch goes to the dead-letter loop.
FallThrough(w, m) == SetTodo(w, batch[w])

\* An append of the requeue loop fails.
RequeueFails(w, m) ==
  /\ pc[w] = "requeue" /\ phase # "down" /\ May("wal") /\ m \in todo[w]
  /\ walFailed' = TRUE
  /\ Goto(w, "deadletter")
  /\ FallThrough(w, m)
  /\ UNCHANGED <<bufVars, batch, room, read, attempt, walMu, rows, dlq, lost>>

\* The dead-letter loop writes one object.
DeadLetter(w, m) ==
  /\ pc[w] = "deadletter" /\ phase = "running" /\ m \in todo[w]
  /\ dlq' = dlq \cup {m}
  /\ FinishOne(w, m)
  /\ UNCHANGED <<bufVars, room, read, attempt, walMu, rows, walFailed, lost>>

\* A dead-letter write fails, is logged and skipped.
DeadLetterFails(w, m) ==
  /\ pc[w] = "deadletter" /\ phase # "down" /\ m \in todo[w]
  /\ May("s3") \/ phase = "stopping"
  /\ Drop({m}, "deadletter")
  /\ FinishOne(w, m)
  /\ UNCHANGED <<bufVars, room, read, attempt, walMu, rows, dlq, walFailed>>

\* workerLoop sees ctx.Done.
Stop(w) ==
  /\ pc[w] = "wait" /\ phase = "stopping"
  /\ Goto(w, "stopped")
  /\ UNCHANGED <<bufVars, batch, room, read, todo, attempt, walMu, rows, dlq, walFailed, lost>>

WorkerStep(w) ==
  \/ \E n \in BatchSizes : PullRing(w, n)
  \/ \E S \in SUBSET wal : DrainRead(w, S)
  \/ DrainDelete(w) \/ DrainError(w)
  \/ CopyOK(w) \/ CopyTransient(w) \/ CopyPoison(w)
  \/ Retry(w) \/ CancelBackoff(w) \/ Stop(w)
  \/ \E m \in Msgs : \/ Requeue(w, m) \/ RequeueFails(w, m)
                     \/ DeadLetter(w, m) \/ DeadLetterFails(w, m)
=============================================================================
