\* Three slots and a byte cap that binds before the slots do for large messages.
CONSTANTS
  small = small
  large = large
  Messages = {small, large}
  messageSize <- MCSizes
  NoMessage = NoMessage
  Producers = {sub}
  Consumers = {w1, w2}
  MaxMessages = 3
  MaxBytes = 7
  SpillPercent = 40
  PausePercent = 80
  MaxBatch = 2
  MaxCalls = 4
SPECIFICATION Spec
INVARIANTS TypeOK FreeSlotsZeroed BytesExact CountersBalance
PROPERTIES RefinesFIFO
CHECK_DEADLOCK FALSE
