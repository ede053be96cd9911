---------------------------- MODULE WALContract ----------------------------
(***************************************************************************)
(* What subscriber and flusher rely on when they use the WAL as a set of   *)
(* messages (variable wal of module Buffers): Append adds a message of its *)
(* own, Drain takes some for good, and nothing else leaves it but by       *)
(* expiry.  A crash or a failing transaction is none of its steps.         *)
(***************************************************************************)
CONSTANTS Messages,  \* what may be appended
          Expires    \* whether entries have a TTL

VARIABLES kept,   \* in the WAL
          taken,  \* returned by a Drain
          used    \* ever appended

vars == <<kept, taken, used>>

Init == kept = {} /\ taken = {} /\ used = {}

Append(m) ==
  /\ m \notin used
  /\ kept' = kept \cup {m} /\ used' = used \cup {m}
  /\ taken' = taken

Take(S) ==
  /\ kept' = kept \ S /\ taken' = taken \cup S
  /\ used' = used

Expire(S) ==
  /\ Expires
  /\ kept' = kept \ S
  /\ UNCHANGED <<taken, used>>

Next == \/ \E m \in Messages : Append(m)
        \/ \E S \in SUBSET kept : Take(S) \/ Expire(S)

Spec == Init /\ [][Next]_vars
=============================================================================
