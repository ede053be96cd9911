---------------------------- MODULE CopyContract ----------------------------
(***************************************************************************)
(* What module Flusher takes a call of CopyMessages for: one step that     *)
(* stores the whole batch and succeeds (CopyOK), or fails and may have     *)
(* stored the whole batch or nothing (CopyTransient, CopyPoison).          *)
(* Connections, sessions, the staging table and statements are no part.    *)
(***************************************************************************)
CONSTANTS Workers, Msgs

VARIABLES batch,     \* per worker: the batch of its call, {} outside one
          rows,      \* dedup keys in the table
          confirmed  \* messages of calls that succeeded

vars == <<batch, rows, confirmed>>

Init == batch = [w \in Workers |-> {}] /\ rows = {} /\ confirmed = {}

Begin(w, B) ==
  /\ batch[w] = {} /\ B # {}
  /\ batch' = [batch EXCEPT ![w] = B]
  /\ UNCHANGED <<rows, confirmed>>

Finish(w) == batch[w] # {} /\ batch' = [batch EXCEPT ![w] = {}]

CopyOK(w) ==
  /\ Finish(w)
  /\ rows' = rows \cup batch[w] /\ confirmed' = confirmed \cup batch[w]

CopyFails(w) ==
  /\ Finish(w)
  /\ rows' \in {rows, rows \cup batch[w]}
  /\ UNCHANGED confirmed

Next == \E w \in Workers :
  (\E B \in SUBSET Msgs : Begin(w, B)) \/ CopyOK(w) \/ CopyFails(w)

Spec == Init /\ [][Next]_vars
=============================================================================
