------------------------------ MODULE Session ------------------------------
(***************************************************************************)
(* internal/subscriber, Start and onConnectionUp: autopaho connects, and   *)
(* connects again after every loss, with a session that the broker keeps   *)
(* for the whole seconds of max_reconnect_backoff; every connection        *)
(* subscribes anew.                                                        *)
(*                                                                         *)
(* The broker is external: it queues QoS 1 publishes for a session that is *)
(* subscribed, delivers them until they are acknowledged, and may drop a   *)
(* session once it has been without a connection for its lifetime.  No     *)
(* other replica takes part in the shared subscription.                    *)
(***************************************************************************)
EXTENDS Process

CONSTANTS Publishes, NoPublish

VARIABLES link,      \* there is a connection to the broker
          callback,  \* onConnectionUp of this connection, and how it ended
          initial,   \* autopaho has not connected yet in this process
          session,   \* the broker's session for our client id
          lifetime,  \* its expiry interval, in seconds
          outage,    \* seconds it has been without a connection
          queue,     \* publishes queued in it
          handling,  \* the publish that onPublish works on
          mine       \* it came over the present connection

sessVars == <<link, callback, initial, session, lifetime, outage, queue, handling, mine>>

SessionInit ==
  /\ link = FALSE /\ callback = "none" /\ initial = TRUE
  /\ session = "none" /\ lifetime = 0 /\ outage = 0 /\ queue = {}
  /\ handling = NoPublish /\ mine = FALSE

SessionTypeOK ==
  /\ link \in BOOLEAN /\ callback \in {"none", "subscribing", "ok", "failed"}
  /\ initial \in BOOLEAN /\ session \in {"none", "bare", "subscribed"}
  /\ lifetime \in Nat /\ outage \in Nat /\ queue \subseteq Publishes
  /\ handling \in Publishes \cup {NoPublish} /\ mine \in BOOLEAN

-----------------------------------------------------------------------------
(* The client *)

\* Mutant of CleanStart: every connection starts clean, not the first alone.
CleanStartAlways == cfg.clean_session

\* CleanStartOnInitialConnection
CleanStart == initial /\ cfg.clean_session

\* Whole seconds: a shorter max_reconnect_backoff keeps no session at all.
SessionExpiryInterval == cfg.max_reconnect_backoff \div 1000

\* Mutant of OnUp: a client that trusts its session subscribes only once.
OnUpOnce == IF initial THEN "subscribing" ELSE "ok"

\* onConnectionUp subscribes whether or not the broker has resumed a session.
OnUp == "subscribing"

ConnectionUp ==
  /\ "subscriber" \in alive /\ ~ctxDone /\ ~link
  /\ link' = TRUE /\ callback' = OnUp /\ initial' = FALSE
  /\ session' = IF CleanStart \/ session = "none" THEN "bare" ELSE session
  /\ queue' = IF CleanStart THEN {} ELSE queue
  /\ lifetime' = SessionExpiryInterval /\ outage' = 0
  /\ UNCHANGED <<handling, mine>>

SubscribeOK ==
  /\ callback = "subscribing"
  /\ callback' = "ok" /\ session' = "subscribed"
  /\ UNCHANGED <<link, initial, lifetime, outage, queue, handling, mine>>

\* An error or 30 seconds without an answer, which the broker may still have
\* acted upon.  It is only logged.
SubscribeFails ==
  /\ callback = "subscribing"
  /\ callback' = "failed" /\ session' \in {session, "subscribed"}
  /\ UNCHANGED <<link, initial, lifetime, outage, queue, handling, mine>>

\* The connection ends; a handler goes on, but its PUBACK cannot be sent.
Disconnect ==
  /\ link' = FALSE /\ callback' = "none" /\ mine' = FALSE
  /\ UNCHANGED <<initial, session, lifetime, outage, queue, handling>>

ConnectionLost == link /\ Disconnect

\* onPublish, one publish at a time.
OnPublish(p) ==
  /\ link /\ p \in queue /\ handling = NoPublish
  /\ handling' = p /\ mine' = TRUE
  /\ UNCHANGED <<link, callback, initial, session, lifetime, outage, queue>>

\* Its calls into the WAL and the pool are over, and paho acknowledges.
HandlerReturns ==
  /\ handling # NoPublish /\ Idle("handler")
  /\ queue' = IF mine THEN queue \ {handling} ELSE queue
  /\ handling' = NoPublish /\ mine' = FALSE
  /\ UNCHANGED <<link, callback, initial, session, lifetime, outage>>

-----------------------------------------------------------------------------
(* The broker *)

Publish(p) ==
  /\ session = "subscribed"
  /\ queue' = queue \cup {p}
  /\ UNCHANGED <<link, callback, initial, session, lifetime, outage, handling, mine>>

Second ==
  /\ ~link /\ session # "none" /\ outage < lifetime
  /\ outage' = outage + 1
  /\ UNCHANGED <<link, callback, initial, session, lifetime, queue, handling, mine>>

Expire ==
  /\ ~link /\ session # "none" /\ outage >= lifetime
  /\ session' = "none" /\ lifetime' = 0 /\ outage' = 0 /\ queue' = {}
  /\ UNCHANGED <<link, callback, initial, handling, mine>>

SessionStep ==
  \/ ConnectionUp \/ SubscribeOK \/ SubscribeFails \/ ConnectionLost
  \/ HandlerReturns \/ Second \/ Expire
  \/ \E p \in Publishes : OnPublish(p) \/ Publish(p)

\* The process is gone; the broker sees the connection end.
SessionDown ==
  /\ link' = FALSE /\ callback' = "none" /\ initial' = TRUE
  /\ handling' = NoPublish /\ mine' = FALSE
  /\ UNCHANGED <<session, lifetime, outage, queue>>
=============================================================================
