\* A full ring and a failing WAL.
CONSTANTS
  m1 = m1
  m2 = m2
  m3 = m3
  p1 = p1
  p2 = p2
  Msgs = {m1, m2}
  messageSize <- MCSizes
  RingCapacity = 1
  MaxBytes = 4
  Publishes = {p1, p2}
  BadTopics = {}
  None = None
  Workers = {w1}
  BatchSizes = {2}
  MaxRetries = 1
  Poison = {m2}
  NoWorker = NoWorker
  Faults = {"wal"}
SPECIFICATION Spec
INVARIANT RefusedNotAcked
