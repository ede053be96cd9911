\* Direct connections: two workers, two connections, one spare session.
CONSTANTS
  Workers = {w1, w2}
  Conns = {c1, c2}
  Sessions = {s1, s2, s3}
  Msgs = {m1, m2, m3}
  PoolMode = "session"
  None = None
SPECIFICATION Spec
INVARIANTS TypeOK NoLeak StagingReady ConfirmedStored
PROPERTIES AtomicBatch RefinesCopy
