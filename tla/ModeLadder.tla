----------------------------- MODULE ModeLadder -----------------------------
(***************************************************************************)
(* What the adaptive flusher promises about its mode: a ladder             *)
(* normal - elevated - critical that latency climbs and descends one rung  *)
(* at a time, that a failed flush jumps to the top of, closing the pull    *)
(* gate for a full recovery window, and that no single event descends from *)
(* the top to the bottom.                                                  *)
(***************************************************************************)
EXTENDS Naturals

CONSTANT RecoveryWindow

VARIABLES mode, gate  \* gate: time left before critical mode may pull again

ladderVars == <<mode, gate>>

Init == mode = "normal" /\ gate = 0

\* A flush returned an error.
Fail == mode' = "critical" /\ gate' = RecoveryWindow

\* Latency rises or falls by one rung, or a flush succeeds in critical mode.
OneRung == /\ <<mode, mode'>> \in {<<"normal", "elevated">>,
                                   <<"elevated", "critical">>,
                                   <<"critical", "elevated">>,
                                   <<"elevated", "normal">>}
           /\ UNCHANGED gate

\* Time passes; it never changes the mode by itself.
Pass == gate > 0 /\ gate' = gate - 1 /\ UNCHANGED mode

Next == Fail \/ OneRung \/ Pass

Spec == Init /\ [][Next]_ladderVars
=============================================================================
