------------------------------ MODULE Service ------------------------------
(***************************************************************************)
(* The service as one process: boot from a configuration, the MQTT session *)
(* and the readiness endpoint while it runs, shutdown, crash and restart.  *)
(* What the handler and the workers do with messages is module Pipeline's  *)
(* subject; here they are users of the pool and of the WAL.                *)
(***************************************************************************)
EXTENDS Health, Session

vars == <<procVars, healthVars, sessVars>>

Init == ProcessInit /\ HealthInit /\ SessionInit

Boot == \/ \E source \in Sources : Load(source)
        \/ Construct \/ Refuse \/ ConstructFails \/ StartBackground

Shutdown == Stop \/ AllDone \/ GiveUp \/ CloseWAL \/ ClosePool

\* The workers, the ticker and the message handler call the resources.
Call == \/ \E u \in {"flusher", "refresh"}, r \in Resources : BeginUse(u, r)
        \/ handling # NoPublish /\ \E r \in Resources : BeginUse("handler", r)

Return(u) == u # "probe" /\ EndUse(u)

\* A server that serves requests has its address.
Fail(n) == ListenFails(n) /\ (n = "health" => NoRequest)

\* Shutdown of the health server waits for its requests.  The subscriber's
\* Disconnect does not wait for a handler.
Depart(n) ==
  /\ Leave(n) /\ UNCHANGED healthVars
  /\ n = "health" => NoRequest
  /\ IF n = "subscriber" THEN Disconnect ELSE UNCHANGED sessVars

Die == (Exit \/ Killed \/ MuxPanics) /\ HealthDown /\ SessionDown

Next ==
  \/ /\ \/ Boot \/ Sigterm \/ Shutdown \/ Call
        \/ \E u \in Users : Return(u)
        \/ \E n \in Subsystems : Fail(n)
     /\ UNCHANGED <<healthVars, sessVars>>
  \/ \E n \in Subsystems : Depart(n)
  \/ HealthStep /\ UNCHANGED sessVars
  \/ SessionStep /\ UNCHANGED <<procVars, healthVars>>
  \/ Die

Spec == Init /\ [][Next]_vars

\* The goroutine of run goes on whenever it can and timers fire; of the calls
\* that Bounded names one returns in the end.  Nothing is assumed of the
\* subsystems' return: the 30 seconds cover it.
Main == \/ /\ Construct \/ Refuse \/ StartBackground \/ Shutdown
           /\ UNCHANGED <<healthVars, sessVars>>
        \/ Exit /\ HealthDown /\ SessionDown

CallReturns == \E u \in Users :
  /\ Bounded(u, uses[u])
  /\ \/ Return(u) /\ UNCHANGED <<healthVars, sessVars>>
     \/ u = "probe" /\ (\E ok \in BOOLEAN : EndPing(ok)) /\ UNCHANGED sessVars

Fairness == WF_vars(Main) /\ WF_vars(CallReturns)

LiveSpec == Spec /\ Fairness

-----------------------------------------------------------------------------
(* Properties *)

\* Every variable has its type.  In particular the WAL is never open without
\* the pool: the deferred closes run in the opposite order.
TypeOK == ProcessTypeOK /\ HealthTypeOK /\ SessionTypeOK

\* Validate is complete up to the gaps that Unchecked names: what it accepts,
\* no constructor of the service refuses, so a bad value is reported with all
\* the others at load time and not half way through the boot.
ValidConfigBoots == refused # "none" => Unchecked(cfg)

\* No subsystem that wg waits for has a call inside the WAL or the pool when
\* it is closed, unless the 30 seconds ran out.  The message handler is not
\* waited for: it may be inside the WAL when Close runs.
UsesOpen ==
  ~timedOut => \A u \in DOMAIN TrackedBy : uses[u] \in opened \cup {"none"}

\* Ready means that in this very request every probe has answered without an
\* error, whatever their order, and that none is left out.
ReadyIsFresh == reply = "200" => passed = Probes

\* A connection on which Subscribe succeeded hears the topic, whatever became
\* of the session before: expired, cleaned, resumed or of an earlier process.
ListensWhenUp == link /\ callback = "ok" => session = "subscribed"

\* What the broker has queued for us leaves the queue for three reasons only:
\* its handler has returned on the connection that delivered it; an outage has
\* lasted as many whole seconds as max_reconnect_backoff held when the client
\* last connected, the lifetime it then asked for, which may be up to a second
\* less than max_reconnect_backoff; or a new process starts clean because it is
\* configured to.  A handler that outlives its connection takes nothing off.
QueuedKept ==
  [][\A p \in queue \ queue' :
       \/ handling = p /\ mine /\ handling' = NoPublish
       \/ ~link /\ outage >= lifetime /\ session' = "none"
       \/ ~link /\ link' /\ initial /\ cfg.clean_session]_vars

\* After SIGTERM the process ends, whatever its subsystems are doing: neither
\* the wait for them nor the closing of the pool lasts for ever.
ShutdownEnds == ctxDone ~> phase = "down"
=============================================================================
