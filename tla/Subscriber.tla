----------------------------- MODULE Subscriber -----------------------------
(***************************************************************************)
(* internal/subscriber: one MQTT publish at a time is parsed, routed to    *)
(* the ring or the WAL, and acknowledged.  Start builds the paho client    *)
(* without EnableManualAcknowledgment, so paho itself sends the PUBACK     *)
(* when the handler returns, whatever HandleMessage decided.  The broker   *)
(* keeps a QoS 1 publish until its PUBACK and delivers it again when the   *)
(* connection or the process was lost first.                               *)
(***************************************************************************)
EXTENDS Buffers

CONSTANTS Publishes,   \* QoS 1 publishes queued at the broker
          BadTopics,   \* the publishes whose topic ParseTopic refuses
          None

ASSUME SubscriberAssumption ==
  /\ BadTopics \subseteq Publishes
  /\ None \notin Publishes /\ None \notin Msgs

VARIABLES broker,    \* per publish: "queued", "inflight" or "acked"
          of,        \* per message: the publish it was built from
          subPc,     \* where HandleMessage is
          subPub,    \* the publish being handled
          subMsg,    \* the message built from it
          accepted,  \* messages that routeMessage returned true for
          spilled,   \* messages that MarkSpilled counted
          preserved  \* publishes in telemetry_unparseable

subVars == <<broker, of, subPc, subPub, subMsg, accepted,
             spilled, preserved>>

SubscriberInit ==
  /\ broker = [p \in Publishes |-> "queued"]
  /\ of = [m \in Msgs |-> None]
  /\ subPc = "idle" /\ subPub = None /\ subMsg = None
  /\ accepted = {} /\ spilled = {} /\ preserved = {}

SubscriberTypeOK ==
  /\ broker \in [Publishes -> {"queued", "inflight", "acked"}]
  /\ of \in [Msgs -> Publishes \cup {None}]
  /\ subPc \in {"idle", "route", "spill", "unparseable", "return"}
  /\ subPub \in Publishes \cup {None}
  /\ subMsg \in Msgs \cup {None}
  /\ accepted \subseteq Msgs /\ spilled \subseteq Msgs
  /\ preserved \subseteq BadTopics

-----------------------------------------------------------------------------
\* HandleMessage parses the topic and builds the message.  makeDedupKey stamps
\* it with the time of this delivery, so every delivery is a new message.
Receive(p, m) ==
  /\ phase = "running" /\ subPc = "idle"
  /\ broker[p] = "queued" /\ p \notin BadTopics
  /\ of[m] = None
  /\ broker' = [broker EXCEPT ![p] = "inflight"]
  /\ of' = [of EXCEPT ![m] = p]
  /\ subPc' = "route" /\ subPub' = p /\ subMsg' = m
  /\ UNCHANGED <<bufVars, accepted, spilled, preserved>>

\* ParseTopic refuses the topic.
ReceiveBadTopic(p) ==
  /\ phase = "running" /\ subPc = "idle"
  /\ broker[p] = "queued" /\ p \in BadTopics
  /\ broker' = [broker EXCEPT ![p] = "inflight"]
  /\ subPc' = "unparseable" /\ subPub' = p
  /\ UNCHANGED <<bufVars, of, subMsg, accepted, spilled, preserved>>

\* The row is written, or the insert fails or times out.
InsertUnparseable ==
  \/ preserved' = preserved \cup {subPub}
  \/ May("postgres") /\ UNCHANGED preserved

\* One best-effort insert, then ack either way.
handleParseFailure ==
  /\ subPc = "unparseable" /\ phase # "down"
  /\ InsertUnparseable
  /\ subPc' = "return"
  /\ UNCHANGED <<bufVars, broker, of, subPub, subMsg, accepted, spilled>>

\* Mutant of RingHasRoom: an off-by-one on the slots.
RingHasRoomOffByOne ==
  Len(ring) <= RingCapacity /\ BytesIn(ring) + messageSize[subMsg] <= MaxBytes

\* Enqueue's test of both caps.
RingHasRoom ==
  Len(ring) < RingCapacity /\ BytesIn(ring) + messageSize[subMsg] <= MaxBytes

\* routeMessage: the ring takes the message.  The state it returns only drives
\* the Paused gauge, which nothing reads.
EnqueueRing ==
  /\ subPc = "route" /\ phase # "down"
  /\ RingHasRoom
  /\ ring' = Append(ring, subMsg)
  /\ accepted' = accepted \cup {subMsg}
  /\ subPc' = "return"
  /\ UNCHANGED <<wal, phase, calm, broker, of, subPub, subMsg, spilled, preserved>>

\* routeMessage: the ring answers ErrFull; the WAL is tried next, and the
\* workers may drain the ring in between.
RingFull ==
  /\ subPc = "route" /\ phase # "down"
  /\ ~RingHasRoom
  /\ subPc' = "spill"
  /\ UNCHANGED <<bufVars, broker, of, subPub, subMsg, accepted, spilled, preserved>>

\* routeMessage: the WAL takes the message.
SpillToWAL ==
  /\ subPc = "spill" /\ phase # "down"
  /\ wal' = wal \cup {subMsg}
  /\ spilled' = spilled \cup {subMsg}
  /\ accepted' = accepted \cup {subMsg}
  /\ subPc' = "return"
  /\ UNCHANGED <<ring, phase, calm, broker, of, subPub, subMsg, preserved>>

\* routeMessage: the WAL append fails as well, so the message is refused.
SpillFails ==
  /\ subPc = "spill" /\ phase # "down" /\ May("wal")
  /\ subPc' = "return"
  /\ UNCHANGED <<bufVars, broker, of, subPub, subMsg, accepted, spilled, preserved>>

\* The handler returns and paho sends the PUBACK for it.
Puback ==
  /\ subPc = "return" /\ phase # "down"
  /\ broker' = [broker EXCEPT ![subPub] = "acked"]
  /\ subPc' = "idle" /\ subPub' = None /\ subMsg' = None
  /\ UNCHANGED <<bufVars, of, accepted, spilled, preserved>>

\* The connection ends before the PUBACK reaches the broker, which delivers the
\* publish again to the resumed session.  It drops, or the context is cancelled:
\* Start then disconnects without waiting for the handler.
PubackLost ==
  /\ subPc = "return" /\ phase # "down"
  /\ May("mqtt") \/ phase = "stopping"
  /\ broker' = [broker EXCEPT ![subPub] = "queued"]
  /\ subPc' = "idle" /\ subPub' = None /\ subMsg' = None
  /\ UNCHANGED <<bufVars, of, accepted, spilled, preserved>>

Handle == \/ handleParseFailure \/ EnqueueRing \/ RingFull
          \/ SpillToWAL \/ SpillFails \/ Puback \/ PubackLost

SubscriberStep ==
  \/ \E p \in Publishes, m \in Msgs : Receive(p, m)
  \/ \E p \in Publishes : ReceiveBadTopic(p)
  \/ Handle
=============================================================================
