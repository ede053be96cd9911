-------------------------- MODULE DeliveryContract --------------------------
(***************************************************************************)
(* What the ingest service owes a message it has accepted.  The message is *)
(* pending until it is stored in PostgreSQL, written to the dead-letter    *)
(* sink, or dropped at one of the places where the code gives a message    *)
(* up.  Outcomes are never taken back, and a pending message never simply  *)
(* disappears.                                                             *)
(***************************************************************************)
CONSTANT Msgs

VARIABLES accepted, pending, stored, deadLettered, dropped

contractVars == <<accepted, pending, stored, deadLettered, dropped>>

Init == /\ accepted = {} /\ pending = {}
        /\ stored = {} /\ deadLettered = {} /\ dropped = {}

Accept(m) == /\ m \notin accepted
             /\ accepted' = accepted \cup {m}
             /\ pending' = pending \cup {m}
             /\ UNCHANGED <<stored, deadLettered, dropped>>

\* Some accepted messages get an outcome; only those stop being pending.
Settle == /\ stored \subseteq stored' /\ stored' \subseteq accepted
          /\ deadLettered \subseteq deadLettered' /\ deadLettered' \subseteq accepted
          /\ dropped \subseteq dropped' /\ dropped' \subseteq accepted
          /\ pending' = pending \ (stored' \cup deadLettered' \cup dropped')
          /\ UNCHANGED accepted

Next == Settle \/ \E m \in Msgs : Accept(m)

Spec == Init /\ [][Next]_contractVars
=============================================================================
