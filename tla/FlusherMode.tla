---------------------------- MODULE FlusherMode ----------------------------
(***************************************************************************)
(* internal/flusher: the adaptive mode shared by the flush workers.        *)
(* Every lock section of Flusher.mu is one action, so a worker may decide  *)
(* on a mode that another worker changes before it acts.                   *)
(*                                                                         *)
(* Time is kept as ages, which is all the code compares: gate is           *)
(* criticalUntil - now (0 once passed), below is now - belowSince, elapsed *)
(* is the running time of a CopyMessages call.  Ages stop at the largest   *)
(* value the code can tell apart, so behaviours have no time horizon.      *)
(* Timers (flush interval, retry backoff) may fire at any moment.          *)
(***************************************************************************)
EXTENDS Integers, Sequences, TLC

CONSTANTS Workers,
          ElevatedLatencyThreshold, CriticalLatencyThreshold,
          RecoveryWindow,
          windowCapacity,  \* samples kept for the p95
          MaxRetries,
          MaxLatency       \* bound: longer flushes are not told apart

ASSUME FlusherModeAssumption ==
  /\ ElevatedLatencyThreshold \in Nat \ {0}
  /\ CriticalLatencyThreshold \in Nat
  /\ ElevatedLatencyThreshold < CriticalLatencyThreshold
  /\ RecoveryWindow \in Nat \ {0}
  /\ windowCapacity \in Nat \ {0}
  /\ MaxRetries \in Nat
  /\ MaxLatency \in Nat /\ CriticalLatencyThreshold <= MaxLatency

VARIABLES mode,           \* Flusher.mode
          gate,           \* time left until Flusher.criticalUntil
          below,          \* age of Flusher.belowSince, or NoTime when zero
          latencyWindow,  \* Flusher.latencyWindow, oldest sample first
          pc,             \* where each worker is
          elapsed,        \* per worker: latency of the current CopyMessages
          attempt,        \* per worker: retry number of the current batch
          healthy         \* PostgreSQL answers fast and without errors again

modeVars == <<mode, gate, below, latencyWindow>>
workerVars == <<pc, elapsed, attempt>>
vars == <<mode, gate, below, latencyWindow, pc, elapsed, attempt, healthy>>

NoTime == -1
Modes == {"normal", "elevated", "critical"}

AtMost(bound, x) == IF x > bound THEN bound ELSE x

-----------------------------------------------------------------------------
\* p95Locked: sort a copy of the window and index it.
p95Locked(win) ==
  LET n == Len(win)
      idx == AtMost(n - 1, (95 * n) \div 100)
  IN  IF n = 0 THEN 0 ELSE SortSeq(win, LAMBDA a, b : a < b)[idx + 1]

\* Mutant of Sampled: the window is never trimmed.
SampledUntrimmed(d) == Append(latencyWindow, d)

\* recordLatency's append, keeping the newest windowCapacity samples.
Sampled(d) ==
  LET longer == Append(latencyWindow, d)
  IN  IF Len(longer) > windowCapacity
      THEN SubSeq(longer, Len(longer) - windowCapacity + 1, Len(longer))
      ELSE longer

Init ==
  /\ mode = "normal" /\ gate = 0 /\ below = NoTime /\ latencyWindow = << >>
  /\ pc = [w \in Workers |-> "wait"]
  /\ elapsed = [w \in Workers |-> 0]
  /\ attempt = [w \in Workers |-> 0]
  /\ healthy = FALSE

Goto(w, label) == pc' = [pc EXCEPT ![w] = label]

-----------------------------------------------------------------------------
\* workerLoop: the timer fires and modeIs reads the mode.
CheckMode(w) ==
  /\ pc[w] = "wait"
  /\ Goto(w, IF mode = "critical" THEN "gate" ELSE "pull")
  /\ UNCHANGED <<modeVars, elapsed, attempt, healthy>>

\* Mutant of GateClosed: the gate is not consulted.
GateIgnored == FALSE

\* now is before criticalUntil.
GateClosed == gate > 0

\* workerLoop: criticalGate is read in a lock section of its own.
CheckGate(w) ==
  /\ pc[w] = "gate"
  /\ Goto(w, IF GateClosed THEN "wait" ELSE "pull")
  /\ UNCHANGED <<modeVars, elapsed, attempt, healthy>>

\* workerLoop: pullBatch found nothing.
PullEmpty(w) ==
  /\ pc[w] = "pull" /\ ~healthy
  /\ Goto(w, "wait")
  /\ UNCHANGED <<modeVars, elapsed, attempt, healthy>>

\* pullBatch returned a batch; flushWithRetry starts its first attempt.
PullBatch(w) ==
  /\ pc[w] = "pull"
  /\ Goto(w, "copy")
  /\ elapsed' = [elapsed EXCEPT ![w] = 0]
  /\ attempt' = [attempt EXCEPT ![w] = 0]
  /\ UNCHANGED <<modeVars, healthy>>

\* Mutant of RecoveredMode: a success resets the mode altogether.
RecoveredToNormal == IF mode = "critical" THEN "normal" ELSE mode

\* maybeRecover: a success in critical mode downgrades to elevated.
RecoveredMode == IF mode = "critical" THEN "elevated" ELSE mode

\* CopyMessages succeeds: the latency is captured and maybeRecover runs.
maybeRecover(w) ==
  /\ pc[w] = "copy"
  /\ mode' = RecoveredMode
  /\ Goto(w, "record")
  /\ UNCHANGED <<gate, below, latencyWindow, elapsed, attempt, healthy>>

\* Mutants of AfterSample: belowSince survives the return to normal, or is set
\* anew by every fast sample.
AfterSampleKeepsClock(p95) ==
  CASE mode = "elevated" /\ p95 >= CriticalLatencyThreshold -> <<"critical", below>>
    [] mode = "elevated" /\ p95 < ElevatedLatencyThreshold /\ below = NoTime -> <<mode, 0>>
    [] mode = "elevated" /\ p95 < ElevatedLatencyThreshold /\ below >= RecoveryWindow ->
         <<"normal", below>>
    [] mode # "elevated" /\ p95 >= ElevatedLatencyThreshold -> <<"elevated", below>>
    [] OTHER -> <<mode, below>>

AfterSampleRestartsClock(p95) ==
  CASE mode = "normal" -> <<IF p95 >= ElevatedLatencyThreshold THEN "elevated" ELSE mode, below>>
    [] mode = "elevated" /\ p95 < ElevatedLatencyThreshold -> <<mode, 0>>
    [] OTHER -> <<mode, below>>

\* The switch of recordLatency: the new mode and the new belowSince.
AfterSample(p95) ==
  CASE mode = "normal" ->
         <<IF p95 >= ElevatedLatencyThreshold THEN "elevated" ELSE mode, below>>
    [] mode = "elevated" /\ p95 >= CriticalLatencyThreshold ->
         <<"critical", below>>
    [] mode = "elevated" /\ p95 < ElevatedLatencyThreshold /\ below = NoTime ->
         <<mode, 0>>
    [] mode = "elevated" /\ p95 < ElevatedLatencyThreshold /\ below # NoTime ->
         IF below >= RecoveryWindow THEN <<"normal", NoTime>> ELSE <<mode, below>>
    [] mode = "critical" ->
         <<IF p95 < ElevatedLatencyThreshold THEN "elevated" ELSE mode, below>>
    [] OTHER -> <<mode, NoTime>>

\* recordLatency, a lock section after maybeRecover's; then back to the timer.
recordLatency(w) ==
  LET after == AfterSample(p95Locked(latencyWindow'))
  IN  /\ pc[w] = "record"
      /\ latencyWindow' = Sampled(elapsed[w])
      /\ mode' = after[1]
      /\ below' = after[2]
      /\ Goto(w, "wait")
      /\ elapsed' = [elapsed EXCEPT ![w] = 0]
      /\ UNCHANGED <<gate, attempt, healthy>>

\* CopyMessages fails: enterCritical, then back off or give the batch up.
enterCritical(w) ==
  /\ pc[w] = "copy" /\ ~healthy
  /\ mode' = "critical"
  /\ gate' = RecoveryWindow
  /\ Goto(w, IF attempt[w] < MaxRetries THEN "backoff" ELSE "wait")
  /\ elapsed' = [elapsed EXCEPT ![w] = 0]
  /\ UNCHANGED <<below, latencyWindow, attempt, healthy>>

\* The backoff timer fires and the next attempt starts.
Retry(w) ==
  /\ pc[w] = "backoff"
  /\ Goto(w, "copy")
  /\ attempt' = [attempt EXCEPT ![w] = @ + 1]
  /\ UNCHANGED <<modeVars, elapsed, healthy>>

Worker(w) ==
  \/ CheckMode(w) \/ CheckGate(w) \/ PullEmpty(w) \/ PullBatch(w)
  \/ maybeRecover(w) \/ recordLatency(w) \/ enterCritical(w) \/ Retry(w)

\* One unit of time passes.  A healthy PostgreSQL answers a call that began
\* since it recovered before the elevated threshold is reached.
Tick ==
  /\ healthy => \A w \in Workers :
       pc[w] = "copy" => elapsed[w] # ElevatedLatencyThreshold - 1
  /\ gate' = IF gate > 0 THEN gate - 1 ELSE 0
  /\ below' = IF below = NoTime THEN below ELSE AtMost(RecoveryWindow, below + 1)
  /\ elapsed' = [w \in Workers |->
       IF pc[w] = "copy" THEN AtMost(MaxLatency, elapsed[w] + 1) ELSE elapsed[w]]
  /\ UNCHANGED <<mode, latencyWindow, pc, attempt, healthy>>

\* PostgreSQL recovers for good, and the backlog keeps every pull non-empty.
Heal == ~healthy /\ healthy' = TRUE /\ UNCHANGED <<modeVars, workerVars>>

Next == (\E w \in Workers : Worker(w)) \/ Tick \/ Heal

Spec == Init /\ [][Next]_vars

-----------------------------------------------------------------------------
\* Every variable has its type.
TypeOK ==
  /\ mode \in Modes
  /\ gate \in 0..RecoveryWindow
  /\ below \in {NoTime} \cup (0..RecoveryWindow)
  /\ latencyWindow \in Seq(0..MaxLatency) /\ Len(latencyWindow) <= windowCapacity
  /\ pc \in [Workers -> {"wait", "gate", "pull", "copy", "record", "backoff"}]
  /\ elapsed \in [Workers -> 0..MaxLatency]
  /\ attempt \in [Workers -> 0..MaxRetries]
  /\ healthy \in BOOLEAN

\* A full recovery leaves no recovery clock running: the belowSince of one
\* slowdown can never shorten the recovery of the next one, even though other
\* workers fail and record samples in between.
RecoveryClockReset == mode = "normal" => below = NoTime

Ladder == INSTANCE ModeLadder

\* Whatever the interleaving of the workers' lock sections, the mode moves one
\* rung at a time and only an error jumps to critical, closing the gate.
RefinesLadder == Ladder!Spec

\* Once PostgreSQL is healthy again and traffic continues, the flusher gets
\* back to normal mode and stays there: no mix of stale samples, gate and
\* recovery clock keeps it degraded.
RecoversToNormal == [](healthy => <>[](mode = "normal"))

=============================================================================
