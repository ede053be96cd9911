----------------------------- MODULE MCService -----------------------------
(* An instance of Service for TLC. *)
EXTENDS Service

\* A file with the required values, and a session that survives 1.5 seconds, rounded down.
Minimal == [brokers |-> {"tcp"}, shared_subscription |-> "shared", dsn |-> "dsn",
            bucket |-> "dlq", max_reconnect_backoff |-> 1500]

Source(yaml, env) == [yaml |-> yaml, env |-> env]
None == [n \in {} |-> {}]

\* One that boots, one with an unknown variable in the environment, whose two
\* health paths are the same and that starts clean, one for each other gap of
\* Validate, then ones it refuses.
MCSources ==
  {Source(Minimal, env) : env \in
     {None, [readiness_path |-> "/healthz", clean_session |-> TRUE, home |-> "/root"],
      [dsn |-> "malformed"], [columns |-> "other"], [metrics_path |-> "malformed"],
      [value_log_file_size |-> 1000], [max_messages |-> 2000000],
      [pause_threshold |-> 100], [spill_threshold |-> 95], [level |-> "trace"]}} \cup
  {Source(None, None), Source([broker |-> "tcp"] @@ Minimal, None)}
=============================================================================
