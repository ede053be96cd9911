------------------------------ MODULE Process ------------------------------
(***************************************************************************)
(* cmd/mqtt2db-go, run: the configuration is loaded, the components are    *)
(* constructed in order, five subsystems run in goroutines of their own    *)
(* until SIGTERM, and the deferred closes take the resources down again.   *)
(*                                                                         *)
(* Actions say what happens to the process.  What a step of it does to the *)
(* health server and to the MQTT session is composed in module Service.    *)
(***************************************************************************)
EXTENDS Config, FiniteSets

CONSTANT Sources   \* pairs of a YAML file and an environment

\* Durations are numbers, whatever their value.
ASSUME DurationAssumption ==
  \A s \in Sources : Overlaid(s.yaml, s.env).max_reconnect_backoff \in Int

VARIABLES phase,     \* what run is doing: a step's name, or a later phase
          cfg,       \* the configuration run was given
          ctxDone,   \* the root context is cancelled
          opened,    \* resources whose deferred Close is still to run
          alive,     \* subsystems that wg waits for
          uses,      \* per user: the resource a call of it is using now
          timedOut,  \* the 30 seconds of the shutdown were over first
          refused    \* the constructor that refused the configuration

procVars == <<phase, cfg, ctxDone, opened, alive, uses, timedOut, refused>>

Subsystems == {"subscriber", "flusher", "health", "metrics", "wal-metrics"}
Resources == {"pool", "wal"}

\* The goroutines that call into the pool or the WAL, with what they call.
\* paho runs the message handler in a goroutine that wg does not know.
Reach == [flusher |-> {"wal", "pool"}, handler |-> {"wal", "pool"},
          probe |-> {"pool"}, refresh |-> {"wal"}]
Users == DOMAIN Reach

\* The subsystem whose return means that the user's call is over.
TrackedBy == [flusher |-> "flusher", probe |-> "health", refresh |-> "wal-metrics"]

Idle(u) == uses[u] = "none"
Up == phase \in {"running", "waiting", "closing"}

ProcessInit ==
  /\ phase = "down" /\ cfg = NewDefault /\ ctxDone = FALSE
  /\ opened = {} /\ alive = {}
  /\ uses = [u \in Users |-> "none"]
  /\ timedOut = FALSE /\ refused = "none"

-----------------------------------------------------------------------------
(* Boot *)

\* The steps of run that construct something, each with the next.
After == [logger |-> "pool", pool |-> "copier", copier |-> "unparseable",
          unparseable |-> "wal", wal |-> "ring", ring |-> "sink", sink |-> "flusher",
          flusher |-> "subscriber", subscriber |-> "metrics", metrics |-> "start"]
Booting == phase \in DOMAIN After

\* The WAL is never open without the pool, which was opened before it and is
\* closed after it.
ProcessTypeOK ==
  /\ phase \in DOMAIN After \cup {"start", "running", "waiting", "closing", "down"}
  /\ ctxDone \in BOOLEAN /\ timedOut \in BOOLEAN
  /\ opened \in {{}, {"pool"}, Resources} /\ alive \subseteq Subsystems
  /\ uses \in [Users -> Resources \cup {"none"}]

\* A file or an environment that does not load ends the process at once.
Load(source) ==
  /\ phase = "down"
  /\ Loads(source.yaml, source.env)
  /\ phase' = "logger"
  /\ cfg' = Overlaid(source.yaml, source.env)
  /\ ctxDone' = FALSE /\ timedOut' = FALSE /\ refused' = "none"
  /\ UNCHANGED <<opened, alive, uses>>

\* A constructor succeeds; its resource gets a deferred Close.
Construct ==
  /\ Booting /\ Accepts(phase, cfg)
  /\ phase' = After[phase]
  /\ opened' = opened \cup ({phase} \cap Resources)
  /\ UNCHANGED <<cfg, ctxDone, alive, uses, timedOut, refused>>

\* A constructor refuses the configuration and run returns.  The ring and the
\* mux of the metrics server may refuse by a panic, which runs the deferred
\* closes as well.
Refuse ==
  /\ Booting /\ ~Accepts(phase, cfg)
  /\ phase' = "closing" /\ refused' = phase
  /\ UNCHANGED <<cfg, ctxDone, opened, alive, uses, timedOut>>

\* A constructor fails for a reason outside the configuration: a locked WAL
\* directory, no AWS settings, no host name.
ConstructFails ==
  /\ phase \in {"wal", "sink", "subscriber"}
  /\ phase' = "closing"
  /\ UNCHANGED <<cfg, ctxDone, opened, alive, uses, timedOut, refused>>

StartBackground ==
  /\ phase = "start"
  /\ phase' = "running" /\ alive' = Subsystems
  /\ UNCHANGED <<cfg, ctxDone, opened, uses, timedOut, refused>>

-----------------------------------------------------------------------------
(* Running *)

\* Before NotifyContext a signal kills; that is Killed.
Sigterm ==
  /\ phase \notin {"down", "logger"} /\ ~ctxDone
  /\ ctxDone' = TRUE
  /\ UNCHANGED <<phase, cfg, opened, alive, uses, timedOut, refused>>

\* ListenAndServe of an HTTP server fails, its address being in use.  run only
\* logs it and goes on.
ListenFails(n) ==
  /\ Up /\ n \in {"health", "metrics"} \cap alive
  /\ n = "health" => HealthAccepts(cfg)
  /\ alive' = alive \ {n}
  /\ UNCHANGED <<phase, cfg, ctxDone, opened, uses, timedOut, refused>>

\* A closed WAL and a pool whose Close has begun answer with an error at once.
Usable == IF phase = "closing" /\ "wal" \notin opened THEN {} ELSE opened

\* A user may make a call while its subsystem runs.
BeginUse(u, r) ==
  /\ Up /\ Idle(u) /\ r \in Reach[u] \cap Usable
  /\ u \in DOMAIN TrackedBy => TrackedBy[u] \in alive
  /\ uses' = [uses EXCEPT ![u] = r]
  /\ UNCHANGED <<phase, cfg, ctxDone, opened, alive, timedOut, refused>>

EndUse(u) ==
  /\ Up /\ ~Idle(u)
  /\ uses' = [uses EXCEPT ![u] = "none"]
  /\ UNCHANGED <<phase, cfg, ctxDone, opened, alive, timedOut, refused>>

\* A subsystem returns when it has seen the cancelled context, and its own
\* calls are over: the workers and the ticker run them in their loops, and the
\* 5 seconds that health grants its requests exceed the probes' 3.
Leave(n) ==
  /\ Up /\ ctxDone /\ n \in alive
  /\ n = "health" => HealthAccepts(cfg)
  /\ \A u \in DOMAIN TrackedBy : TrackedBy[u] = n => Idle(u)
  /\ alive' = alive \ {n}
  /\ UNCHANGED <<phase, cfg, ctxDone, opened, uses, timedOut, refused>>

-----------------------------------------------------------------------------
(* Shutdown *)

Stop ==
  /\ phase = "running" /\ ctxDone
  /\ phase' = "waiting"
  /\ UNCHANGED <<cfg, ctxDone, opened, alive, uses, timedOut, refused>>

\* Mutant of WaitOver: the refresher was started without startBackground.
WaitOverUntracked == alive \subseteq {"wal-metrics"}

WaitOver == alive = {}

AllDone ==
  /\ phase = "waiting" /\ WaitOver
  /\ phase' = "closing"
  /\ UNCHANGED <<cfg, ctxDone, opened, alive, uses, timedOut, refused>>

\* time.After(30 * time.Second)
GiveUp ==
  /\ phase = "waiting"
  /\ phase' = "closing" /\ timedOut' = TRUE
  /\ UNCHANGED <<cfg, ctxDone, opened, alive, uses, refused>>

\* Mutant of NextClose: defers would run in the order they were pushed.
NextCloseFIFO(r) == r = "wal" => "pool" \notin opened

\* Deferred calls run last in, first out.
NextClose(r) == r = "pool" => "wal" \notin opened

CloseWAL ==
  /\ phase = "closing" /\ "wal" \in opened /\ NextClose("wal")
  /\ opened' = opened \ {"wal"}
  /\ UNCHANGED <<phase, cfg, ctxDone, alive, uses, timedOut, refused>>

\* pgxpool's Close waits until every acquired connection is back.
ClosePool ==
  /\ phase = "closing" /\ "pool" \in opened /\ NextClose("pool")
  /\ \A u \in Users : uses[u] # "pool"
  /\ opened' = opened \ {"pool"}
  /\ UNCHANGED <<phase, cfg, ctxDone, alive, uses, timedOut, refused>>

\* The process is gone, and every goroutine with it.
Down ==
  /\ phase' = "down" /\ ctxDone' = FALSE /\ timedOut' = FALSE
  /\ opened' = {} /\ alive' = {}
  /\ uses' = [u \in Users |-> "none"]
  /\ UNCHANGED <<cfg, refused>>

Exit == phase = "closing" /\ opened = {} /\ Down

Killed == phase # "down" /\ Down

\* health.Run builds its mux in its goroutine: a panic there ends the process
\* without the deferred closes of run.
MuxPanics ==
  /\ Up /\ "health" \in alive /\ ~HealthAccepts(cfg)
  /\ phase' = "down" /\ ctxDone' = FALSE /\ timedOut' = FALSE
  /\ opened' = {} /\ alive' = {}
  /\ uses' = [u \in Users |-> "none"]
  /\ refused' = "health"
  /\ UNCHANGED cfg

-----------------------------------------------------------------------------
\* Mutant of Bounded: CopyMessages is called without the root context.
BoundedButFlusher(u, r) == r = "wal" \/ u # "flusher"

\* Calls that return by themselves once the root context is done: the flusher
\* passes it on, the handler and the probes have deadlines of 5 and 3 seconds,
\* and Badger's calls are local.
Bounded(u, r) == u \in Users /\ r \in Reach[u]
=============================================================================
