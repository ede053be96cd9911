------------------------------ MODULE Buffers ------------------------------
(***************************************************************************)
(* The state that the MQTT subscriber and the flush workers share: the     *)
(* in-memory ring, the Badger WAL and the process's root context.          *)
(*                                                                         *)
(* The ring is the bounded FIFO that module Ring is shown to implement.    *)
(* A WAL entry stands for its message: module Pipeline checks that no      *)
(* message ever has two live entries.  The order of WAL entries is module  *)
(* WAL's subject; here a drain returns any entries of the right number.    *)
(***************************************************************************)
EXTENDS Integers, Sequences, FiniteSetsExt, Functions

CONSTANTS Msgs,          \* messages, by dedup key: one per delivery received
          messageSize,   \* [Msgs -> Nat], the bytes charged for each
          RingCapacity,  \* buffer.max_messages
          MaxBytes,      \* buffer.max_bytes
          Faults         \* the faults that the environment may produce

ASSUME BuffersAssumption ==
  /\ Faults \subseteq {"crash", "sigterm", "mqtt", "wal", "postgres", "s3", "ttl"}
  /\ messageSize \in [Msgs -> Nat]
  /\ RingCapacity \in Nat \ {0} /\ MaxBytes \in Nat \ {0}

VARIABLES ring,   \* messages in the ring, oldest first
          wal,    \* messages with a live WAL entry; survives a crash
          phase,  \* "running", "stopping" (root context cancelled) or "down"
          calm    \* no fault of the environment will happen any more

bufVars == <<ring, wal, phase, calm>>

\* A process killed or told to stop, a lost connection, errors of the WAL, of
\* PostgreSQL and of S3, WAL entries that outlive their TTL.
May(fault) == ~calm /\ fault \in Faults

Phases == {"running", "stopping", "down"}

BuffersInit == /\ ring = << >> /\ wal = {}
               /\ phase = "running" /\ calm = FALSE

BuffersTypeOK == /\ ring \in Seq(Msgs) /\ Len(ring) <= RingCapacity
                 /\ wal \subseteq Msgs
                 /\ phase \in Phases
                 /\ calm \in BOOLEAN

BytesIn(s) == MapThenSumSet(LAMBDA i : messageSize[s[i]], DOMAIN s)

\* What Dequeue(n) returns and leaves.
Taken(n) == IF n > Len(ring) THEN Len(ring) ELSE n
Front(n) == Range(SubSeq(ring, 1, Taken(n)))
Rest(n) == SubSeq(ring, Taken(n) + 1, Len(ring))
=============================================================================
