--------------------------- MODULE ServiceProofs ---------------------------
(***************************************************************************)
(* Proofs about the service for every set of configurations, valid or not, *)
(* and any number of publishes.                                            *)
(***************************************************************************)
EXTENDS Service, TLAPS

-----------------------------------------------------------------------------
(* Configuration *)

\* Apart from the gaps that Unchecked names, no constructor refuses what
\* Validate has accepted.
LEMMA ValidatedAccepted ==
  ASSUME NEW c, Validate(c), ~Unchecked(c), NEW step
  PROVE  Accepts(step, c)
<1>1. PoolAccepts(c) /\ CopierAccepts(c) /\ UnparseableAccepts(c)
  BY DEF Validate, ValidPostgres, Unchecked, PoolAccepts, CopierAccepts, UnparseableAccepts
<1>2. RingAccepts(c)
  BY DEF Validate, ValidBuffer, RingAccepts, Unchecked
<1>3. WALAccepts(c) /\ SinkAccepts(c) /\ SubscriberAccepts(c)
  BY DEF Validate, ValidBadger, ValidDeadLetter, ValidMQTT, WALAccepts, SinkAccepts,
         SubscriberAccepts, Unchecked
<1>4. LoggerAccepts(c)
  BY DEF Validate, ValidLogging, LoggerAccepts
<1>5. MuxAccepts(c.metrics_path)
  BY DEF Unchecked
<1> QED BY <1>1, <1>2, <1>3, <1>4, <1>5 DEF Accepts

\* The names behind the records of module Process.
LEMMA Names ==
  /\ Users = {"flusher", "handler", "probe", "refresh"}
  /\ DOMAIN TrackedBy = {"flusher", "probe", "refresh"}
  /\ \A u \in Users : Reach[u] \subseteq Resources
BY DEF Users, Reach, TrackedBy, Resources

-----------------------------------------------------------------------------
(* The process *)

\* What is open and what runs in every phase of run.
PhaseInv ==
  /\ phase \in {"down", "logger", "pool"} => opened = {}
  /\ phase \in {"copier", "unparseable", "wal"} => opened = {"pool"}
  /\ phase \in {"ring", "sink", "flusher", "subscriber", "metrics", "start",
                "running", "waiting"} => opened = Resources
  /\ ~Up => alive = {}
  /\ phase # "closing" => ~timedOut
  /\ phase = "closing" /\ ~timedOut => alive = {}

\* A call of a tracked user is made while its subsystem runs.
CallsTracked ==
  \A u \in DOMAIN TrackedBy : ~Idle(u) => TrackedBy[u] \in alive

\* run has a validated configuration, and the constructors agree with it.
ConfigInv ==
  /\ phase # "down" => Validate(cfg) /\ cfg.max_reconnect_backoff \in Int
  /\ ValidConfigBoots

ProcessInv == ProcessTypeOK /\ PhaseInv /\ CallsTracked /\ ConfigInv

\* The boot keeps the invariant: every constructor opens its resource in turn.
LEMMA BootKeeps ==
  ASSUME ProcessInv, Boot
  PROVE  ProcessInv'
<1>1. ASSUME NEW source \in Sources, Load(source)
      PROVE  ProcessInv'
  <2>1. Overlaid(source.yaml, source.env).max_reconnect_backoff \in Int
    BY DurationAssumption
  <2>2. ConfigInv'
    BY <1>1, <2>1 DEF Load, Loads, ConfigInv, ValidConfigBoots
  <2>3. CallsTracked'
    BY <1>1 DEF ProcessInv, Load, CallsTracked, Idle
  <2> QED BY <1>1, <2>2, <2>3 DEF ProcessInv, Load, ProcessTypeOK, PhaseInv, Up, After
<1>2. CASE Construct
  <2>1. ConfigInv'
    BY <1>2 DEF Construct, Booting, ProcessInv, ConfigInv, ValidConfigBoots, After
  <2>2. CallsTracked'
    BY <1>2 DEF ProcessInv, Construct, CallsTracked, Idle
  <2>3. ProcessTypeOK' /\ PhaseInv'
    <3>1. CASE phase = "pool"
      <4>1. opened' = {"pool"} /\ phase' = "copier"
        BY <1>2, <3>1 DEF ProcessInv, Construct, PhaseInv, After, Resources
      <4> QED BY <1>2, <3>1, <4>1 DEF ProcessInv, Construct, ProcessTypeOK, PhaseInv, Up, After
    <3>2. CASE phase = "wal"
      <4>1. opened' = Resources /\ phase' = "ring"
        BY <1>2, <3>2 DEF ProcessInv, Construct, PhaseInv, After, Resources
      <4> QED BY <1>2, <3>2, <4>1 DEF ProcessInv, Construct, ProcessTypeOK, PhaseInv, Up, After
    <3>3. CASE phase \notin Resources
      <4>1. opened' = opened
        BY <1>2, <3>3 DEF Construct
      <4> QED BY <1>2, <3>3, <4>1 DEF ProcessInv, Construct, Booting, ProcessTypeOK, PhaseInv, Up,
                                       After, Resources
    <3> QED BY <3>1, <3>2, <3>3 DEF Resources
  <2> QED BY <2>1, <2>2, <2>3 DEF ProcessInv
<1>3. CASE Refuse
  <2>1. ConfigInv'
    BY <1>3, ValidatedAccepted DEF Refuse, Booting, ProcessInv, ConfigInv, ValidConfigBoots, After
  <2>2. CallsTracked'
    BY <1>3 DEF ProcessInv, Refuse, CallsTracked, Idle
  <2>3. ProcessTypeOK' /\ PhaseInv'
    BY <1>3 DEF ProcessInv, Refuse, Booting, ProcessTypeOK, PhaseInv, Up, After
  <2> QED BY <2>1, <2>2, <2>3 DEF ProcessInv
<1>4. CASE ConstructFails
  <2>1. ConfigInv' /\ CallsTracked'
    BY <1>4 DEF ConstructFails, ProcessInv, ConfigInv, ValidConfigBoots, CallsTracked, Idle
  <2>2. ProcessTypeOK' /\ PhaseInv'
    BY <1>4 DEF ProcessInv, ConstructFails, ProcessTypeOK, PhaseInv, Up, After
  <2> QED BY <2>1, <2>2 DEF ProcessInv
<1>5. CASE StartBackground
  <2>1. ConfigInv'
    BY <1>5 DEF StartBackground, ProcessInv, ConfigInv, ValidConfigBoots
  <2>2. CallsTracked'
    BY <1>5, Names DEF StartBackground, ProcessInv, CallsTracked, Idle, TrackedBy, Subsystems
  <2>3. ProcessTypeOK' /\ PhaseInv'
    BY <1>5 DEF ProcessInv, StartBackground, ProcessTypeOK, PhaseInv, Up, After
  <2> QED BY <2>1, <2>2, <2>3 DEF ProcessInv
<1> QED BY <1>1, <1>2, <1>3, <1>4, <1>5 DEF Boot

\* The shutdown keeps the invariant: the WAL closes first, and only after the
\* wait is over or its time is.
LEMMA ShutdownKeeps ==
  ASSUME ProcessInv, Shutdown \/ Sigterm
  PROVE  ProcessInv'
<1>1. ConfigInv'
  BY DEF Shutdown, Sigterm, Stop, AllDone, GiveUp, CloseWAL, ClosePool, ProcessInv,
         ConfigInv, ValidConfigBoots
<1>2. CallsTracked'
  BY DEF Shutdown, Sigterm, Stop, AllDone, GiveUp, CloseWAL, ClosePool, ProcessInv,
         CallsTracked, Idle
<1>3. CASE Sigterm \/ Stop \/ AllDone \/ GiveUp
  <2>1. ctxDone' \in BOOLEAN /\ timedOut' \in BOOLEAN
    BY <1>3 DEF Sigterm, Stop, AllDone, GiveUp, ProcessInv, ProcessTypeOK
  <2>2. PhaseInv'
    BY <1>3 DEF Sigterm, Stop, AllDone, GiveUp, WaitOver, ProcessInv, PhaseInv, Up
  <2>3. phase' \in {phase, "waiting", "closing"} /\ UNCHANGED <<opened, alive, uses>>
    BY <1>3 DEF Sigterm, Stop, AllDone, GiveUp
  <2>4. ProcessTypeOK'
    BY <2>1, <2>3 DEF ProcessInv, ProcessTypeOK
  <2> QED BY <1>1, <1>2, <2>2, <2>4 DEF ProcessInv
<1>4. CASE CloseWAL \/ ClosePool
  <2>1. opened \in {{"pool"}, Resources} /\ opened' \in {{}, {"pool"}}
    BY <1>4 DEF CloseWAL, ClosePool, NextClose, ProcessInv, ProcessTypeOK, Resources
  <2>2. phase = "closing" /\ UNCHANGED <<phase, ctxDone, alive, uses, timedOut>>
    BY <1>4 DEF CloseWAL, ClosePool
  <2> QED BY <1>1, <1>2, <2>1, <2>2 DEF ProcessInv, ProcessTypeOK, PhaseInv, Up
<1> QED BY <1>3, <1>4 DEF Shutdown

\* A call begins in the name of a running subsystem, or of the handler.
LEMMA BeginKeeps ==
  ASSUME ProcessInv, NEW u \in Users, NEW r, BeginUse(u, r)
  PROVE  ProcessInv'
<1>1. ConfigInv' /\ PhaseInv'
  BY DEF BeginUse, ProcessInv, ConfigInv, ValidConfigBoots, PhaseInv, Up
<1>2. ProcessTypeOK'
  BY Names DEF BeginUse, ProcessInv, ProcessTypeOK
<1>3. CallsTracked'
  BY Names DEF BeginUse, ProcessInv, ProcessTypeOK, CallsTracked, Idle
<1> QED BY <1>1, <1>2, <1>3 DEF ProcessInv

\* A call ends.
LEMMA EndKeeps ==
  ASSUME ProcessInv, NEW u \in Users, EndUse(u)
  PROVE  ProcessInv'
<1>1. ConfigInv' /\ PhaseInv'
  BY DEF EndUse, ProcessInv, ConfigInv, ValidConfigBoots, PhaseInv, Up
<1>2. ProcessTypeOK'
  BY DEF EndUse, ProcessInv, ProcessTypeOK
<1>3. CallsTracked'
  BY Names DEF EndUse, ProcessInv, ProcessTypeOK, CallsTracked, Idle
<1> QED BY <1>1, <1>2, <1>3 DEF ProcessInv

\* A subsystem returns when its calls are over.
LEMMA LeaveKeeps ==
  ASSUME ProcessInv, NEW n,
         Leave(n) \/ (ListenFails(n) /\ (n = "health" => Idle("probe")))
  PROVE  ProcessInv'
<1>1. ConfigInv' /\ PhaseInv' /\ ProcessTypeOK'
  BY DEF Leave, ListenFails, ProcessInv, ConfigInv, ValidConfigBoots, PhaseInv, Up,
         ProcessTypeOK
<1>2. CallsTracked'
  BY Names DEF Leave, ListenFails, ProcessInv, CallsTracked, Idle, TrackedBy
<1> QED BY <1>1, <1>2 DEF ProcessInv

\* The end of the process leaves nothing open.
LEMMA DieKeeps ==
  ASSUME ProcessInv, Exit \/ Killed \/ MuxPanics
  PROVE  ProcessInv'
<1>1. phase' = "down" /\ timedOut' = FALSE /\ ctxDone' = FALSE /\ opened' = {} /\ alive' = {}
      /\ uses' = [u \in Users |-> "none"] /\ UNCHANGED cfg
  BY DEF Exit, Killed, MuxPanics, Down
<1>2. ConfigInv'
  BY <1>1 DEF Exit, Killed, MuxPanics, Down, ProcessInv, ConfigInv, ValidConfigBoots, Unchecked
<1>3. CallsTracked'
  BY <1>1, Names DEF CallsTracked, Idle
<1>4. ProcessTypeOK'
  BY <1>1 DEF ProcessTypeOK
<1>5. PhaseInv'
  BY <1>1 DEF PhaseInv, Up
<1> QED BY <1>2, <1>3, <1>4, <1>5 DEF ProcessInv

-----------------------------------------------------------------------------
(* The readiness endpoint *)

\* A ping belongs to an open request; as long as nothing failed, the probes
\* that have not passed are still to run.
HealthInv ==
  /\ HealthTypeOK
  /\ todo # {} => reply = "pending"
  /\ ~Idle("probe") => "postgres" \in todo
  /\ reply = "pending" /\ allOK => todo \cup passed = Probes
  /\ ReadyIsFresh

\* Every step of a request keeps it.
LEMMA HealthKeeps ==
  ASSUME ProcessInv, HealthInv, HealthStep
  PROVE  ProcessInv' /\ HealthInv'
<1> USE Names
<1>0. ASSUME UNCHANGED procVars
      PROVE  ProcessInv'
  BY <1>0 DEF procVars, ProcessInv, ProcessTypeOK, PhaseInv, Up, CallsTracked, Idle,
              ConfigInv, ValidConfigBoots
<1>1. CASE Request \/ Answer
  <2>1. UNCHANGED procVars
    BY <1>1 DEF Request, Answer
  <2> QED BY <1>0, <1>1, <2>1 DEF Request, Answer, NoRequest, HealthInv, HealthTypeOK, Probes, ReadyIsFresh,
              Idle, procVars
<1>2. CASE BeginPing
  BY <1>2, BeginKeeps DEF BeginPing, BeginUse, HealthInv, HealthTypeOK, healthVars, Idle,
     ReadyIsFresh, ProcessInv, ProcessTypeOK
<1>3. ASSUME NEW ok \in BOOLEAN, EndPing(ok)
      PROVE  ProcessInv' /\ HealthInv'
  <2>1. ProcessInv'
    BY <1>3, EndKeeps DEF EndPing
  <2>2. Idle("probe")'
    BY <1>3 DEF EndPing, EndUse, Idle, ProcessInv, ProcessTypeOK
  <2> QED BY <1>3, <2>1, <2>2 DEF EndPing, Returned, AllOKAfter, HealthInv, HealthTypeOK,
               ReadyIsFresh, Probes
<1>4. ASSUME NEW ok \in BOOLEAN, PingRefused \/ HeadBucket(ok)
      PROVE  ProcessInv' /\ HealthInv'
  <2>1. UNCHANGED procVars /\ Idle("probe") /\ Idle("probe")'
    BY <1>4 DEF PingRefused, HeadBucket, procVars, Idle
  <2> QED BY <1>0, <1>4, <2>1 DEF PingRefused, HeadBucket, Returned, AllOKAfter, HealthInv,
               HealthTypeOK, ReadyIsFresh, Probes
<1> QED BY <1>1, <1>2, <1>3, <1>4 DEF HealthStep

-----------------------------------------------------------------------------
(* The MQTT session *)

\* onConnectionUp belongs to a connection; once it has subscribed, the session
\* stays subscribed while the connection lasts.
SessionInv ==
  /\ SessionTypeOK
  /\ callback # "none" => link
  /\ ListensWhenUp

\* Every step of the client and of the broker keeps it.
LEMMA SessionKeeps ==
  ASSUME ProcessInv, SessionInv, SessionStep
  PROVE  SessionInv'
<1> USE DEF SessionInv, SessionTypeOK, ListensWhenUp
<1>1. CASE ConnectionUp
  <2>1. SessionExpiryInterval \in Nat
    <3>1. phase # "down"
      BY <1>1 DEF ConnectionUp, ProcessInv, PhaseInv, Up
    <3>2. cfg.max_reconnect_backoff \in Int /\ cfg.max_reconnect_backoff > 0
      BY <3>1 DEF ProcessInv, ConfigInv, Validate, ValidMQTT
    <3> QED BY <3>2 DEF SessionExpiryInterval
  <2>2. session' \in {"bare", session} /\ queue' \in {{}, queue}
    BY <1>1 DEF ConnectionUp
  <2>3. session' \in {"none", "bare", "subscribed"} /\ queue' \subseteq Publishes
    BY <2>2
  <2> QED BY <1>1, <2>1, <2>3 DEF ConnectionUp, OnUp
<1>2. CASE SubscribeOK \/ SubscribeFails \/ ConnectionLost
  BY <1>2 DEF SubscribeOK, SubscribeFails, ConnectionLost, Disconnect
<1>3. CASE HandlerReturns
  <2>1. queue' \subseteq Publishes
    BY <1>3 DEF HandlerReturns
  <2> QED BY <1>3, <2>1 DEF HandlerReturns
<1>4. CASE Second \/ Expire
  BY <1>4 DEF Second, Expire
<1>5. ASSUME NEW p \in Publishes, OnPublish(p) \/ Publish(p)
      PROVE  SessionInv'
  BY <1>5 DEF OnPublish, Publish
<1> QED BY <1>1, <1>2, <1>3, <1>4, <1>5 DEF SessionStep

-----------------------------------------------------------------------------
(* The service *)

ServiceInv == ProcessInv /\ HealthInv /\ SessionInv

\* Initially the process is down, and so are its parts.
LEMMA ServiceStart ==
  ASSUME Init
  PROVE  ServiceInv
<1>1. ProcessInv
  BY Names DEF Init, ProcessInit, ProcessInv, ProcessTypeOK, PhaseInv, Up, CallsTracked, Idle,
               ConfigInv, ValidConfigBoots
<1>2. HealthInv
  BY Names DEF Init, ProcessInit, HealthInit, HealthInv, HealthTypeOK, Idle, ReadyIsFresh
<1>3. SessionInv
  BY DEF Init, SessionInit, SessionInv, SessionTypeOK, ListensWhenUp
<1> QED BY <1>1, <1>2, <1>3 DEF ServiceInv

\* Every step of the service keeps the invariant of each of its parts.
LEMMA ServiceStep ==
  ASSUME ServiceInv, [Next]_vars
  PROVE  ServiceInv'
<1>1. ASSUME UNCHANGED procVars PROVE ProcessInv' /\ UNCHANGED uses
  BY <1>1 DEF procVars, ServiceInv, ProcessInv, ProcessTypeOK, PhaseInv, Up, CallsTracked, Idle,
              ConfigInv, ValidConfigBoots
<1>2. ASSUME UNCHANGED healthVars, uses'["probe"] \in {"none", uses["probe"]}
      PROVE  HealthInv'
  BY <1>2 DEF healthVars, ServiceInv, HealthInv, HealthTypeOK, Idle, ReadyIsFresh
<1>3. ASSUME UNCHANGED sessVars PROVE SessionInv'
  BY <1>3 DEF sessVars, ServiceInv, SessionInv, SessionTypeOK, ListensWhenUp
<1>4. CASE UNCHANGED vars
  BY <1>1, <1>2, <1>3, <1>4 DEF vars, ServiceInv
<1>5. CASE (Boot \/ Sigterm \/ Shutdown) /\ UNCHANGED <<healthVars, sessVars>>
  <2>1. UNCHANGED uses
    BY <1>5 DEF Boot, Load, Construct, Refuse, ConstructFails, StartBackground, Sigterm,
                Shutdown, Stop, AllDone, GiveUp, CloseWAL, ClosePool
  <2>2. ProcessInv'
    BY <1>5, BootKeeps, ShutdownKeeps DEF ServiceInv
  <2> QED BY <1>2, <1>3, <1>5, <2>1, <2>2 DEF ServiceInv
<1>6. CASE Call /\ UNCHANGED <<healthVars, sessVars>>
  <2>1. PICK u \in {"flusher", "refresh", "handler"}, r \in Resources : BeginUse(u, r)
    BY <1>6 DEF Call
  <2>2. ProcessInv'
    BY <2>1, BeginKeeps, Names DEF ServiceInv
  <2>3. uses'["probe"] = uses["probe"]
    BY <2>1, Names DEF BeginUse, ServiceInv, ProcessInv, ProcessTypeOK
  <2> QED BY <1>2, <1>3, <1>6, <2>2, <2>3 DEF ServiceInv
<1>7. ASSUME NEW u \in Users, Return(u), UNCHANGED <<healthVars, sessVars>>
      PROVE  ServiceInv'
  <2>1. ProcessInv'
    BY <1>7, EndKeeps DEF Return, ServiceInv
  <2>2. uses'["probe"] = uses["probe"]
    BY <1>7, Names DEF Return, EndUse, ServiceInv, ProcessInv, ProcessTypeOK
  <2> QED BY <1>2, <1>3, <1>7, <2>1, <2>2 DEF ServiceInv
<1>8. ASSUME NEW n \in Subsystems, Fail(n), UNCHANGED <<healthVars, sessVars>>
      PROVE  ServiceInv'
  <2>1. n = "health" => Idle("probe")
    BY <1>8 DEF Fail, NoRequest, ServiceInv, HealthInv
  <2>2. ProcessInv' /\ UNCHANGED uses
    BY <1>8, <2>1, LeaveKeeps DEF Fail, ListenFails, ServiceInv
  <2> QED BY <1>2, <1>3, <1>8, <2>2 DEF ServiceInv
<1>9. ASSUME NEW n \in Subsystems, Depart(n)
      PROVE  ServiceInv'
  <2>1. ProcessInv' /\ UNCHANGED uses
    BY <1>9, LeaveKeeps DEF Depart, Leave, ServiceInv
  <2>2. SessionInv'
    BY <1>3, <1>9 DEF Depart, Disconnect, ServiceInv, SessionInv, SessionTypeOK, ListensWhenUp
  <2> QED BY <1>2, <1>9, <2>1, <2>2 DEF Depart, ServiceInv
<1>10. CASE HealthStep /\ UNCHANGED sessVars
  BY <1>3, <1>10, HealthKeeps DEF ServiceInv
<1>11. CASE SessionStep /\ UNCHANGED <<procVars, healthVars>>
  BY <1>1, <1>2, <1>11, SessionKeeps DEF ServiceInv
<1>12. CASE Die
  <2>1. ProcessInv'
    BY <1>12, DieKeeps DEF Die, ServiceInv
  <2>2. Idle("probe")'
    BY <1>12, Names DEF Die, Exit, Killed, MuxPanics, Down, Idle
  <2>3. HealthInv'
    BY <1>12, <2>2 DEF Die, HealthDown, HealthInv, HealthTypeOK, ReadyIsFresh
  <2>4. SessionInv'
    BY <1>12 DEF Die, SessionDown, ServiceInv, SessionInv, SessionTypeOK, ListensWhenUp
  <2> QED BY <2>1, <2>3, <2>4 DEF ServiceInv
<1> QED
  BY <1>4, <1>5, <1>6, <1>7, <1>8, <1>9, <1>10, <1>11, <1>12 DEF Next

\* The invariant holds in every behaviour of the service.
THEOREM ServiceInvariant == Spec => []ServiceInv
<1>1. Init => ServiceInv
  BY ServiceStart
<1>2. ServiceInv /\ [Next]_vars => ServiceInv'
  BY ServiceStep
<1> QED BY <1>1, <1>2, PTL DEF Spec

\* Every variable has its type, whatever the configurations; in particular the
\* deferred closes of run never leave the WAL open without the pool.
THEOREM ServiceTypes == Spec => []TypeOK
<1>1. ServiceInv => TypeOK
  BY DEF ServiceInv, ProcessInv, HealthInv, SessionInv, TypeOK
<1> QED BY <1>1, ServiceInvariant, PTL

\* No constructor of run refuses a configuration that Validate has accepted,
\* but for the values that Unchecked names: true of every configuration there
\* is, not only of the ones the run tries.
THEOREM ValidatedConfigBoots == Spec => []ValidConfigBoots
<1>1. ServiceInv => ValidConfigBoots
  BY DEF ServiceInv, ProcessInv, ConfigInv
<1> QED BY <1>1, ServiceInvariant, PTL

\* The pool and the WAL are not closed under a call of a subsystem that run
\* has waited for.
THEOREM ClosedAfterUse == Spec => []UsesOpen
<1>1. ASSUME ServiceInv PROVE UsesOpen
  <2> SUFFICES ASSUME ~timedOut, NEW u \in DOMAIN TrackedBy, uses[u] # "none"
               PROVE  uses[u] \in opened
    BY DEF UsesOpen
  <2>1. alive # {}
    BY <1>1 DEF ServiceInv, ProcessInv, CallsTracked, Idle
  <2>2. opened = Resources
    BY <1>1, <2>1 DEF ServiceInv, ProcessInv, PhaseInv, Up
  <2> QED BY <1>1, <2>2, Names DEF ServiceInv, ProcessInv, ProcessTypeOK
<1> QED BY <1>1, ServiceInvariant, PTL

\* handleReady answers 200 only when all probes of that request have passed.
THEOREM ReadyAfterAllProbes == Spec => []ReadyIsFresh
<1>1. ServiceInv => ReadyIsFresh
  BY DEF ServiceInv, HealthInv
<1> QED BY <1>1, ServiceInvariant, PTL

\* A connection whose onConnectionUp has subscribed hears the topic.
THEOREM SubscribedWhenUp == Spec => []ListensWhenUp
<1>1. ServiceInv => ListensWhenUp
  BY DEF ServiceInv, SessionInv
<1> QED BY <1>1, ServiceInvariant, PTL

\* What a step may do to the broker's queue: Start's session settings lose a
\* queued publish only by expiry or by a clean start that was asked for.
LEMMA QueueStep ==
  ASSUME [Next]_vars, NEW p \in queue \ queue'
  PROVE  \/ handling = p /\ mine /\ handling' = NoPublish
         \/ ~link /\ outage >= lifetime /\ session' = "none"
         \/ ~link /\ link' /\ initial /\ cfg.clean_session
<1>1. SessionStep
  BY DEF Next, vars, sessVars, Depart, Disconnect, Die, SessionDown
<1> QED BY <1>1 DEF SessionStep, ConnectionUp, CleanStart, SubscribeOK, SubscribeFails,
       ConnectionLost, Disconnect, HandlerReturns, Second, Expire, OnPublish, Publish

\* The session that Start asks for keeps what the broker has queued, until it
\* is acknowledged, the lifetime in whole seconds is over, or a clean start was
\* asked for.
THEOREM QueueSurvives == Spec => QueuedKept
<1>1. [Next]_vars => [\A p \in queue \ queue' :
                        \/ handling = p /\ mine /\ handling' = NoPublish
                        \/ ~link /\ outage >= lifetime /\ session' = "none"
                        \/ ~link /\ link' /\ initial /\ cfg.clean_session]_vars
  BY QueueStep
<1> QED BY <1>1, PTL DEF Spec, QueuedKept
=============================================================================
