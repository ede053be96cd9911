------------------------- MODULE FlusherModeProofs -------------------------
(***************************************************************************)
(* Proofs about the adaptive mode for every number of workers, thresholds, *)
(* window sizes and retry limits.                                          *)
(***************************************************************************)
EXTENDS FlusherModeHistory, TLAPS

-----------------------------------------------------------------------------
(* The inductive invariant: types, and no recovery clock in normal mode. *)

ModeInv ==
  /\ mode \in Modes
  /\ gate \in 0..RecoveryWindow
  /\ below \in {NoTime} \cup (0..RecoveryWindow)
  /\ RecoveryClockReset

\* Where recordLatency's switch can lead, whatever the p95 is: one rung up or
\* down, and to normal only with the recovery clock cleared.
LEMMA AfterSampleCases ==
  ASSUME ModeInv, NEW p
  PROVE  /\ AfterSample(p)[1] \in Modes
         /\ AfterSample(p)[2] \in {NoTime} \cup (0..RecoveryWindow)
         /\ AfterSample(p)[1] = "normal" => AfterSample(p)[2] = NoTime
         /\ \/ AfterSample(p)[1] = mode
            \/ <<mode, AfterSample(p)[1]>> \in
                 {<<"normal", "elevated">>, <<"elevated", "critical">>,
                  <<"critical", "elevated">>, <<"elevated", "normal">>}
<1> USE FlusherModeAssumption DEF ModeInv, RecoveryClockReset, Modes
<1>1. CASE mode = "normal"
  BY <1>1 DEF AfterSample
<1>2. CASE mode = "elevated"
  BY <1>2 DEF AfterSample, NoTime
<1>3. CASE mode = "critical"
  BY <1>3 DEF AfterSample
<1> QED BY <1>1, <1>2, <1>3

\* Every step keeps the invariant and is a step of the mode ladder.
LEMMA ModeStep ==
  ASSUME ModeInv, [Next]_vars
  PROVE  ModeInv' /\ [Ladder!Next]_(Ladder!ladderVars)
<1> USE FlusherModeAssumption
<1>0. ASSUME UNCHANGED <<mode, gate, below>>
      PROVE  ModeInv' /\ UNCHANGED Ladder!ladderVars
  BY <1>0 DEF ModeInv, RecoveryClockReset, Ladder!ladderVars
<1>1. CASE UNCHANGED vars
  BY <1>0, <1>1 DEF vars
<1>2. ASSUME NEW w \in Workers,
             CheckMode(w) \/ CheckGate(w) \/ PullEmpty(w) \/ PullBatch(w) \/ Retry(w)
      PROVE  ModeInv' /\ UNCHANGED Ladder!ladderVars
  BY <1>0, <1>2 DEF CheckMode, CheckGate, PullEmpty, PullBatch, Retry, modeVars
<1>3. ASSUME NEW w \in Workers, maybeRecover(w)
      PROVE  ModeInv' /\ [Ladder!Next]_(Ladder!ladderVars)
  BY <1>3 DEF maybeRecover, RecoveredMode, ModeInv, Modes, RecoveryClockReset,
              Ladder!Next, Ladder!OneRung, Ladder!ladderVars
<1>4. ASSUME NEW w \in Workers, recordLatency(w)
      PROVE  ModeInv' /\ [Ladder!Next]_(Ladder!ladderVars)
  <2> DEFINE p == p95Locked(latencyWindow')
  <2>1. mode' = AfterSample(p)[1] /\ below' = AfterSample(p)[2] /\ UNCHANGED gate
    BY <1>4 DEF recordLatency
  <2> HIDE DEF p
  <2>2. ModeInv'
    BY <2>1, AfterSampleCases DEF ModeInv, RecoveryClockReset
  <2>3. mode' = mode \/ Ladder!OneRung
    BY <2>1, AfterSampleCases DEF Ladder!OneRung
  <2> QED BY <2>1, <2>2, <2>3 DEF Ladder!Next, Ladder!ladderVars
<1>5. ASSUME NEW w \in Workers, enterCritical(w)
      PROVE  ModeInv' /\ Ladder!Fail
  BY <1>5 DEF enterCritical, ModeInv, Modes, RecoveryClockReset, Ladder!Fail
<1>6. CASE Tick
  <2>1. ModeInv'
    BY <1>6 DEF Tick, ModeInv, RecoveryClockReset, NoTime, AtMost
  <2>2. UNCHANGED mode /\ gate' = IF gate > 0 THEN gate - 1 ELSE 0
    BY <1>6 DEF Tick
  <2>3. CASE gate > 0
    BY <2>1, <2>2, <2>3 DEF Ladder!Pass, Ladder!Next
  <2>4. CASE ~(gate > 0)
    <3>1. gate = 0
      BY <2>4 DEF ModeInv
    <3> QED BY <2>1, <2>2, <2>4, <3>1 DEF Ladder!ladderVars
  <2> QED BY <2>3, <2>4
<1>7. CASE Heal
  BY <1>0, <1>7 DEF Heal, modeVars
<1> QED BY <1>1, <1>2, <1>3, <1>4, <1>5, <1>6, <1>7 DEF Next, Worker, Ladder!Next

\* The invariant holds in every reachable state.
THEOREM ModeInvariant == Spec => []ModeInv
<1>1. Init => ModeInv
  BY FlusherModeAssumption DEF Init, ModeInv, Modes, RecoveryClockReset
<1>2. ModeInv /\ [Next]_vars => ModeInv'
  BY ModeStep
<1> QED BY <1>1, <1>2, PTL DEF Spec

\* No recovery clock survives the return to normal mode.
THEOREM RecoveryClockAlwaysReset == Spec => []RecoveryClockReset
BY ModeInvariant, PTL DEF ModeInv

\* The flusher's mode implements the ladder, for any number of workers.
THEOREM FlusherImplementsLadder == Spec => RefinesLadder
<1>1. Init => Ladder!Init
  BY DEF Init, Ladder!Init
<1>2. ModeInv /\ [Next]_vars => [Ladder!Next]_(Ladder!ladderVars)
  BY ModeStep
<1> QED BY <1>1, <1>2, ModeInvariant, PTL DEF Spec, RefinesLadder, Ladder!Spec
-----------------------------------------------------------------------------
(* Types *)

\* What recordLatency keeps is a window of at most windowCapacity samples.
LEMMA SampledType ==
  ASSUME TypeOK, NEW d \in 0..MaxLatency
  PROVE  Sampled(d) \in Seq(0..MaxLatency) /\ Len(Sampled(d)) <= windowCapacity
<1> USE FlusherModeAssumption
<1> DEFINE longer == Append(latencyWindow, d)
<1>1. /\ latencyWindow \in Seq(0..MaxLatency) /\ Len(latencyWindow) \in Nat
      /\ Len(latencyWindow) <= windowCapacity
  BY DEF TypeOK
<1>2. longer \in Seq(0..MaxLatency) /\ Len(longer) = Len(latencyWindow) + 1
  BY <1>1
<1> HIDE DEF longer
<1>3. CASE Len(longer) > windowCapacity
  <2>1. Len(longer) - windowCapacity + 1 \in 1..Len(longer)
    BY <1>1, <1>2, <1>3
  <2>2. \A i \in (Len(longer) - windowCapacity + 1)..Len(longer) : i \in 1..Len(longer)
    BY <1>1, <1>2, <2>1
  <2> DEFINE part == SubSeq(longer, Len(longer) - windowCapacity + 1, Len(longer))
  <2>3. part \in Seq(0..MaxLatency) /\ Len(part) = windowCapacity
    BY <1>1, <1>2, <2>1, <2>2
  <2>4. Sampled(d) = part
    BY <1>3 DEF Sampled, longer
  <2> HIDE DEF part
  <2>5. windowCapacity <= windowCapacity
    OBVIOUS
  <2> QED BY <2>3, <2>4, <2>5
<1>4. CASE ~(Len(longer) > windowCapacity)
  <2>1. Sampled(d) = longer
    BY <1>4 DEF Sampled, longer
  <2> QED BY <1>1, <1>2, <1>4, <2>1
<1> QED BY <1>3, <1>4

\* A worker backs off only with a retry left.
BackoffInv == \A w \in Workers : pc[w] = "backoff" => attempt[w] < MaxRetries

\* Every step of a worker keeps the types.
LEMMA WorkerTypes ==
  ASSUME TypeOK, BackoffInv, ModeInv', NEW w \in Workers, Worker(w)
  PROVE  TypeOK' /\ BackoffInv'
<1> USE FlusherModeAssumption
<1>1. mode' \in Modes /\ gate' \in 0..RecoveryWindow /\ below' \in {NoTime} \cup (0..RecoveryWindow)
  BY DEF ModeInv
<1>2. CASE \/ CheckMode(w) \/ CheckGate(w) \/ PullEmpty(w) \/ PullBatch(w) \/ maybeRecover(w)
  <2>1. TypeOK'
    <3>1. UNCHANGED <<latencyWindow, healthy>>
      BY <1>2 DEF CheckMode, CheckGate, PullEmpty, PullBatch, maybeRecover, modeVars
    <3>2. elapsed' \in [Workers -> 0..MaxLatency] /\ attempt' \in [Workers -> 0..MaxRetries]
      BY <1>2 DEF CheckMode, CheckGate, PullEmpty, PullBatch, maybeRecover, TypeOK
    <3>3. \E l \in {"gate", "pull", "wait", "copy", "record"} : pc' = [pc EXCEPT ![w] = l]
      BY <1>2 DEF CheckMode, CheckGate, PullEmpty, PullBatch, maybeRecover, Goto
    <3> QED BY <1>1, <3>1, <3>2, <3>3 DEF TypeOK
  <2>2. BackoffInv'
    BY <1>2 DEF CheckMode, CheckGate, PullEmpty, PullBatch, maybeRecover, Goto, TypeOK, BackoffInv
  <2> QED BY <2>1, <2>2
<1>3. CASE recordLatency(w)
  <2>1. latencyWindow' = Sampled(elapsed[w]) /\ elapsed[w] \in 0..MaxLatency
    BY <1>3 DEF recordLatency, TypeOK
  <2>2. latencyWindow' \in Seq(0..MaxLatency) /\ Len(latencyWindow') <= windowCapacity
    BY <2>1, SampledType
  <2>3. /\ pc' = [pc EXCEPT ![w] = "wait"] /\ elapsed' = [elapsed EXCEPT ![w] = 0]
        /\ UNCHANGED <<attempt, healthy>>
    BY <1>3 DEF recordLatency, Goto
  <2>4. TypeOK'
    BY <1>1, <2>2, <2>3 DEF TypeOK
  <2>5. BackoffInv'
    BY <2>3 DEF TypeOK, BackoffInv
  <2> QED BY <2>4, <2>5
<1>4. CASE enterCritical(w)
  <2>1. TypeOK'
    BY <1>1, <1>4 DEF enterCritical, Goto, TypeOK
  <2>2. BackoffInv'
    BY <1>4 DEF enterCritical, Goto, TypeOK, BackoffInv
  <2> QED BY <2>1, <2>2
<1>5. CASE Retry(w)
  <2>1. attempt[w] + 1 \in 0..MaxRetries
    BY <1>5 DEF Retry, TypeOK, BackoffInv
  <2>2. TypeOK'
    BY <1>1, <1>5, <2>1 DEF Retry, Goto, modeVars, TypeOK
  <2>3. BackoffInv'
    BY <1>5 DEF Retry, Goto, TypeOK, BackoffInv
  <2> QED BY <2>2, <2>3
<1> QED BY <1>2, <1>3, <1>4, <1>5 DEF Worker

\* Every variable of the adaptive mode keeps its type, the window its size and
\* the retry counter its limit, for any number of workers.
THEOREM ModeTypes == Spec => []TypeOK
<1> USE FlusherModeAssumption
<1>1. Init => TypeOK /\ BackoffInv
  <2> SUFFICES ASSUME Init PROVE TypeOK /\ BackoffInv
    OBVIOUS
  <2>1. latencyWindow \in Seq(0..MaxLatency) /\ Len(latencyWindow) <= windowCapacity
    BY DEF Init
  <2>2. \A w \in Workers : pc[w] = "wait"
    BY DEF Init
  <2>3. /\ mode \in Modes /\ gate \in 0..RecoveryWindow
        /\ below \in {NoTime} \cup (0..RecoveryWindow)
    BY DEF Init, Modes
  <2>6. healthy \in BOOLEAN
    BY DEF Init
  <2>4. /\ pc \in [Workers -> {"wait", "gate", "pull", "copy", "record", "backoff"}]
        /\ elapsed \in [Workers -> 0..MaxLatency] /\ attempt \in [Workers -> 0..MaxRetries]
    BY DEF Init
  <2>5. TypeOK
    BY <2>1, <2>3, <2>4, <2>6 DEF TypeOK
  <2> QED BY <2>2, <2>5 DEF BackoffInv
<1>2. ASSUME TypeOK, BackoffInv, ModeInv', [Next]_vars
      PROVE  TypeOK' /\ BackoffInv'
  <2>1. CASE UNCHANGED vars
    BY <1>2, <2>1 DEF vars, TypeOK, BackoffInv
  <2>2. CASE Tick
    <3>1. /\ mode' \in Modes /\ gate' \in 0..RecoveryWindow
          /\ below' \in {NoTime} \cup (0..RecoveryWindow)
      BY <1>2 DEF ModeInv
    <3>2. elapsed' \in [Workers -> 0..MaxLatency]
      BY <1>2, <2>2 DEF Tick, TypeOK, AtMost
    <3> QED BY <1>2, <2>2, <3>1, <3>2 DEF Tick, TypeOK, BackoffInv
  <2>3. CASE Heal
    BY <1>2, <2>3 DEF Heal, modeVars, workerVars, TypeOK, BackoffInv
  <2> QED BY <1>2, <2>1, <2>2, <2>3, WorkerTypes DEF Next
<1> QED BY <1>1, <1>2, ModeInvariant, PTL DEF Spec

-----------------------------------------------------------------------------
(* The pull that was already decided on *)

\* A worker that has made its early pull gets no second one while critical mode
\* and the closed gate last: it would have to decide again.
EarlyInv ==
  /\ early \in [Workers -> 0..1]
  /\ \A w \in Workers :
       early[w] = 1 /\ mode = "critical" /\ gate > 0 => pc[w] # "pull"

\* Every step keeps it, because whatever closes the gate or enters critical
\* mode counts from zero again.
LEMMA EarlyStep ==
  ASSUME TypeOK, EarlyInv, [HNext]_histVars
  PROVE  EarlyInv'
<1> USE FlusherModeAssumption
<1>1. CASE UNCHANGED histVars
  BY <1>1 DEF histVars, vars, EarlyInv
<1>2. CASE HNext /\ Enters
  <2>1. early' = [w \in Workers |-> 0]
    BY <1>2 DEF HNext, CountEarly
  <2> QED BY <2>1 DEF EarlyInv
<1>3. CASE HNext /\ ~Enters
  <2>1. \A w \in Workers :
          early'[w] = IF Pulls(w) /\ mode = "critical" /\ gate > 0
                      THEN AtMost(2, early[w] + 1) ELSE early[w]
    BY <1>3 DEF HNext, CountEarly
  <2>2. /\ mode' = "critical" => mode = "critical"
        /\ \A v \in Workers : ~enterCritical(v)
    BY <1>3 DEF Enters
  <2>3. gate' > 0 => gate > 0
    BY <1>3, <2>2 DEF HNext, Next, Worker, CheckMode, CheckGate, PullEmpty, PullBatch,
                      maybeRecover, recordLatency, Retry, Tick, Heal, modeVars, TypeOK
  <2>4. ASSUME NEW w \in Workers, mode = "critical", gate > 0, pc[w] # "pull"
        PROVE  pc'[w] # "pull"
    BY <1>3, <2>2, <2>4 DEF HNext, Next, Worker, CheckMode, CheckGate, GateClosed, PullEmpty,
                      PullBatch, maybeRecover, recordLatency, Retry, Tick, Heal, Goto,
                      workerVars, TypeOK
  <2>5. ASSUME NEW w \in Workers
        PROVE  /\ early'[w] \in 0..1
               /\ early'[w] = 1 /\ mode' = "critical" /\ gate' > 0 => pc'[w] # "pull"
    <3>1. CASE Pulls(w) /\ mode = "critical" /\ gate > 0
      <4>1. early[w] = 0 /\ early'[w] = 1
        BY <2>1, <3>1 DEF EarlyInv, Pulls, AtMost
      <4> QED BY <3>1, <4>1 DEF Pulls
    <3>2. CASE ~(Pulls(w) /\ mode = "critical" /\ gate > 0)
      <4>1. early'[w] = early[w]
        BY <2>1, <3>2
      <4> QED BY <2>2, <2>3, <2>4, <4>1 DEF EarlyInv
    <3> QED BY <3>1, <3>2
  <2>6. early' \in [Workers -> 0..1]
    BY <1>3, <2>5 DEF HNext, CountEarly
  <2> QED BY <2>5, <2>6 DEF EarlyInv
<1> QED BY <1>1, <1>2, <1>3

\* However the lock sections interleave, a worker gets past a closed gate at
\* most once, with the pull it had decided on before.
THEOREM StalePullAtMostOnce == HSpec => []StalePullOnce
<1>1. HSpec => Spec
  <2>1. HInit => Init
    BY DEF HInit
  <2>2. [HNext]_histVars => [Next]_vars
    BY DEF HNext, histVars
  <2> QED BY <2>1, <2>2, PTL DEF HSpec, Spec
<1>2. ASSUME HInit PROVE EarlyInv
  <2>1. gate = 0 /\ early = [w \in Workers |-> 0]
    BY <1>2 DEF HInit, Init
  <2> QED BY <2>1 DEF EarlyInv
<1>3. TypeOK /\ EarlyInv /\ [HNext]_histVars => EarlyInv'
  BY EarlyStep
<1>4. ASSUME EarlyInv PROVE StalePullOnce
  <2>1. early \in [Workers -> 0..1]
    BY <1>4 DEF EarlyInv
  <2> QED BY <2>1 DEF StalePullOnce
<1> QED BY <1>1, <1>2, <1>3, <1>4, ModeTypes, PTL DEF HSpec
=============================================================================
