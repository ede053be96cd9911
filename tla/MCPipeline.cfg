\* Every fault, a bad topic and a good one, two deliveries of which the second is poison, two workers.
CONSTANTS
  m1 = m1
  m2 = m2
  m3 = m3
  p1 = p1
  p2 = p2
  Msgs = {m1, m2}
  messageSize <- MCSizes
  RingCapacity = 1
  MaxBytes = 4
  Publishes = {p1, p2}
  BadTopics = {p2}
  None = None
  Workers = {w1, w2}
  BatchSizes = {2}
  MaxRetries = 1
  Poison = {m2}
  NoWorker = NoWorker
  Faults = {"crash", "sigterm", "mqtt", "wal", "postgres", "s3", "ttl"}
SPECIFICATION Spec
SYMMETRY WorkerPerms
INVARIANTS TypeOK Conserved NoDoubleFlush OneLiveEntry NoTransientDeadLetter
PROPERTIES KeepsContract FlushEnds
