------------------------- MODULE FlusherModeHistory -------------------------
(***************************************************************************)
(* FlusherMode with a history variable that counts the pulls of a worker   *)
(* that the critical gate should have held back.                           *)
(***************************************************************************)
EXTENDS FlusherMode

VARIABLE early  \* per worker: pulls since critical was entered, gate closed

histVars == <<vars, early>>

HInit == Init /\ early = [w \in Workers |-> 0]

Pulls(w) == pc[w] = "pull" /\ pc'[w] # "pull"
Enters == \/ mode # "critical" /\ mode' = "critical"
          \/ \E w \in Workers : enterCritical(w)

CountEarly ==
  early' = [w \in Workers |->
    IF Enters THEN 0
    ELSE IF Pulls(w) /\ mode = "critical" /\ gate > 0 THEN AtMost(2, early[w] + 1)
    ELSE early[w]]

HNext == Next /\ CountEarly

\* Workers and the clock make progress: timers fire, lock sections end and a
\* CopyMessages call returns.  Nothing is assumed of Heal.
HSpec == /\ HInit /\ [][HNext]_histVars
         /\ WF_histVars(Tick /\ CountEarly)
         /\ \A w \in Workers : WF_histVars(Worker(w) /\ CountEarly)

\* After an error closed the gate, a worker makes at most the one pull it had
\* already decided on: the mode and the gate are read in separate lock
\* sections, and that window never lets a worker in twice.
StalePullOnce == \A w \in Workers : early[w] <= 1
=============================================================================
