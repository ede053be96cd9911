\* Progress: two workers that contend for walMu, failing PostgreSQL, shutdowns and restarts; m3 is poison and fits only the WAL.
CONSTANTS
  m1 = m1
  m2 = m2
  m3 = m3
  p1 = p1
  p2 = p2
  Msgs = {m1, m3}
  messageSize <- MCSizes
  RingCapacity = 1
  MaxBytes = 4
  Publishes = {p1, p2}
  BadTopics = {}
  None = None
  Workers = {w1, w2}
  BatchSizes = {2}
  MaxRetries = 0
  Poison = {m3}
  NoWorker = NoWorker
  Faults = {"sigterm", "postgres"}
SPECIFICATION LiveSpec
PROPERTIES EventuallySettled
