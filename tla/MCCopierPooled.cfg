\* The same behind a PgBouncer that pools transactions.
CONSTANTS
  Workers = {w1, w2}
  Conns = {c1, c2}
  Sessions = {s1, s2}
  Msgs = {m1, m2}
  PoolMode = "transaction"
  None = None
SPECIFICATION Spec
INVARIANT StagingReady
