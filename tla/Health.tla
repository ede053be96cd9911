------------------------------- MODULE Health -------------------------------
(***************************************************************************)
(* internal/health: a readiness request takes a snapshot of the registered *)
(* probes, runs them one after the other in the order of Go's maps, and    *)
(* answers 200 when none of them failed.  All share a deadline of 3        *)
(* seconds.  run registers three probes; the one for MQTT always succeeds. *)
(***************************************************************************)
EXTENDS Process

VARIABLES todo,    \* probes of the open request that have not returned
          passed,  \* those that returned nil
          allOK,   \* as in handleReady
          reply    \* status of the last answer

healthVars == <<todo, passed, allOK, reply>>

Probes == {"postgres", "dead_letter_bucket", "mqtt"}

HealthInit == todo = {} /\ passed = {} /\ allOK = TRUE /\ reply = "none"

HealthTypeOK ==
  /\ todo \subseteq Probes /\ passed \subseteq Probes
  /\ allOK \in BOOLEAN /\ reply \in {"none", "pending", "200", "503"}

NoRequest == reply # "pending"

\* GET on the readiness path.  The probe for MQTT returns nil without looking
\* at anything, so its place in the order makes no difference.
Request ==
  /\ "health" \in alive /\ HealthAccepts(cfg) /\ NoRequest
  /\ todo' = Probes \ {"mqtt"} /\ passed' = {"mqtt"}
  /\ allOK' = TRUE /\ reply' = "pending"
  /\ UNCHANGED procVars

\* Mutant of AllOKAfter: the last probe decides.
AllOKLast(ok) == ok

AllOKAfter(ok) == allOK /\ ok

Returned(p, ok) ==
  /\ todo' = todo \ {p}
  /\ passed' = IF ok THEN passed \cup {p} ELSE passed
  /\ allOK' = AllOKAfter(ok)
  /\ UNCHANGED reply

\* pool.Ping takes a connection of the pool, or fails at once when there is
\* no pool any more.
BeginPing ==
  /\ "postgres" \in todo /\ BeginUse("probe", "pool")
  /\ UNCHANGED healthVars

EndPing(ok) == ~Idle("probe") /\ EndUse("probe") /\ Returned("postgres", ok)

PingRefused ==
  /\ "postgres" \in todo /\ Idle("probe") /\ "pool" \notin Usable
  /\ Returned("postgres", FALSE)
  /\ UNCHANGED procVars

\* dlq.HealthCheck asks S3 for the bucket.
HeadBucket(ok) ==
  /\ "dead_letter_bucket" \in todo /\ Idle("probe")
  /\ Returned("dead_letter_bucket", ok)
  /\ UNCHANGED procVars

Answer ==
  /\ reply = "pending" /\ todo = {}
  /\ reply' = IF allOK THEN "200" ELSE "503"
  /\ UNCHANGED <<procVars, todo, passed, allOK>>

HealthStep == \/ Request \/ Answer \/ BeginPing \/ PingRefused
              \/ \E ok \in BOOLEAN : EndPing(ok) \/ HeadBucket(ok)

\* The process is gone and its requests with it.
HealthDown == todo' = {} /\ passed' = {} /\ allOK' = TRUE /\ reply' = "none"
=============================================================================
