------------------------------- MODULE Config -------------------------------
(***************************************************************************)
(* internal/config, and what each constructor of the service then demands  *)
(* of the configuration it is given.                                       *)
(*                                                                         *)
(* A configuration maps the YAML names to values.  Durations are in        *)
(* milliseconds, thresholds in percent.  A string is what the code tells   *)
(* apart: empty, malformed, or a value that is accepted as it is.          *)
(***************************************************************************)
EXTENDS Integers, Functions, TLC

CONSTANT MaxSlots   \* the longest slice of messages that make can allocate

ASSUME SlotsAssumption == MaxSlots \in Nat \ {0}

Canonical == "tenant_id,device_uuid,topic,payload,received_at,dedup_key"

NewDefault ==
  [brokers |-> {}, client_id_prefix |-> "mqtt2db-go", shared_subscription |-> "",
   keepalive |-> 30000, connect_timeout |-> 10000, max_reconnect_backoff |-> 30000,
   clean_session |-> FALSE, protocol_version |-> 5,
   max_messages |-> 100000, max_bytes |-> 104857600,
   spill_threshold |-> 80, pause_threshold |-> 95,
   wal_path |-> "/var/lib/mqtt2db-go/wal", ttl |-> 604800000, value_log_file_size |-> 1073741824,
   dsn |-> "", max_conns |-> 10, min_conns |-> 2, schema |-> "public", table |-> "telemetry",
   columns |-> Canonical,
   batch_size |-> 1000, flush_interval |-> 100, elevated_latency_threshold |-> 500,
   elevated_batch_size |-> 5000, elevated_flush_interval |-> 500,
   critical_latency_threshold |-> 2000, recovery_window |-> 60000, max_retries |-> 5, workers |-> 1,
   bucket |-> "", region |-> "us-east-1", endpoint |-> "",
   metrics_path |-> "/metrics", liveness_path |-> "/healthz", readiness_path |-> "/readyz",
   level |-> "info", format |-> "json"]

-----------------------------------------------------------------------------
(* Validate *)

ValidMQTT(c) ==
  /\ c.brokers # {} /\ c.brokers \cap {"", "malformed"} = {}
  /\ c.shared_subscription \notin {"", "unshared"}
  /\ c.client_id_prefix # ""
  /\ c.protocol_version \in {3, 5}
  /\ c.keepalive > 0 /\ c.connect_timeout > 0 /\ c.max_reconnect_backoff > 0

\* Mutant of ValidBuffer: the upper bounds are forgotten.
ValidBufferLoose(c) ==
  /\ c.max_messages > 0 /\ c.max_bytes > 0
  /\ 0 < c.spill_threshold /\ c.spill_threshold < c.pause_threshold

ValidBuffer(c) ==
  /\ c.max_messages > 0 /\ c.max_bytes > 0
  /\ 0 < c.spill_threshold /\ c.spill_threshold < 100
  /\ 0 < c.pause_threshold /\ c.pause_threshold < 100
  /\ c.spill_threshold < c.pause_threshold

ValidBadger(c) == c.wal_path # "" /\ c.ttl > 0 /\ c.value_log_file_size > 0

ValidPostgres(c) ==
  /\ c.dsn # ""
  /\ c.max_conns > 0 /\ 0 <= c.min_conns /\ c.min_conns <= c.max_conns
  /\ c.schema # "" /\ c.table # "" /\ c.columns # ""

ValidFlusher(c) ==
  /\ c.batch_size > 0 /\ c.elevated_batch_size >= c.batch_size
  /\ c.max_retries >= 0
  /\ c.flush_interval > 0 /\ c.elevated_flush_interval > 0
  /\ c.elevated_latency_threshold > 0 /\ c.critical_latency_threshold > 0
  /\ c.recovery_window > 0
  /\ c.elevated_latency_threshold < c.critical_latency_threshold

ValidDeadLetter(c) == c.bucket # "" /\ c.region # "" /\ c.endpoint # "malformed"

ValidLogging(c) == /\ c.level \in {"debug", "info", "warn", "error"}
                   /\ c.format \in {"json", "text"}

Validate(c) == /\ ValidMQTT(c) /\ ValidBuffer(c) /\ ValidBadger(c) /\ ValidPostgres(c)
               /\ ValidFlusher(c) /\ ValidDeadLetter(c) /\ ValidLogging(c)

\* The variables of the environment that belong to a field; others are ignored.
Known(env) == Restrict(env, DOMAIN env \cap DOMAIN NewDefault)

\* Load: YAML over the defaults, unknown keys refused; environment over both.
Overlaid(yaml, env) == Known(env) @@ yaml @@ NewDefault
Loads(yaml, env) == /\ DOMAIN yaml \subseteq DOMAIN NewDefault
                    /\ Validate(Overlaid(yaml, env))

-----------------------------------------------------------------------------
(* What the constructors that run calls refuse *)

LoggerAccepts(c) == c.level \in {"debug", "info", "", "warn", "warning", "error"}
                    /\ c.format \in {"json", "text"}
PoolAccepts(c) == c.dsn \notin {"", "malformed"}
CopierAccepts(c) == c.schema # "" /\ c.table # "" /\ c.columns = Canonical
UnparseableAccepts(c) == c.schema # ""

\* badger.Open refuses a value log outside [1 MiB, 2 GiB).
ValueLogFits(c) == c.value_log_file_size \in 1048576..2147483647
WALAccepts(c) == c.wal_path # "" /\ ValueLogFits(c)

\* make panics on a length that the address space cannot hold.
SlotsFit(c) == c.max_messages <= MaxSlots
RingAccepts(c) ==
  /\ c.max_messages > 0 /\ c.max_bytes > 0
  /\ 0 < c.spill_threshold /\ c.spill_threshold < 100
  /\ 0 < c.pause_threshold /\ c.pause_threshold < 100
  /\ c.spill_threshold < c.pause_threshold
  /\ SlotsFit(c)
SinkAccepts(c) == c.bucket # ""
SubscriberAccepts(c) == c.brokers # {} /\ c.client_id_prefix # ""

\* ServeMux panics on a malformed pattern: one without a slash, for instance.
MuxAccepts(path) == path \notin {"", "malformed"}

\* It panics as well on two handlers whose patterns conflict, which equal ones
\* stand for; empty health paths have their defaults.
OrDefault(path, default) == IF path = "" THEN default ELSE path
HealthAccepts(c) ==
  LET live == OrDefault(c.liveness_path, "/healthz")
      ready == OrDefault(c.readiness_path, "/readyz")
  IN  MuxAccepts(live) /\ MuxAccepts(ready) /\ live # ready

\* The constructors by the step of run that calls them.  flusher.New looks at
\* no number; the health server is constructed without a look at its paths.
Accepts(step, c) ==
  CASE step = "logger" -> LoggerAccepts(c)
    [] step = "pool" -> PoolAccepts(c)
    [] step = "copier" -> CopierAccepts(c)
    [] step = "unparseable" -> UnparseableAccepts(c)
    [] step = "wal" -> WALAccepts(c)
    [] step = "ring" -> RingAccepts(c)
    [] step = "sink" -> SinkAccepts(c)
    [] step = "subscriber" -> SubscriberAccepts(c)
    [] step = "metrics" -> MuxAccepts(c.metrics_path)
    [] OTHER -> TRUE

\* What Validate lets through and a constructor refuses.
Unchecked(c) == \/ c.dsn = "malformed" \/ c.columns # Canonical
                \/ ~ValueLogFits(c) \/ ~SlotsFit(c)
                \/ ~MuxAccepts(c.metrics_path) \/ ~HealthAccepts(c)
=============================================================================
