\* Two workers, a window of two samples; a fast flush takes zero ticks or one, so that time always passes.
CONSTANTS
  Workers = {w1, w2}
  ElevatedLatencyThreshold = 2
  CriticalLatencyThreshold = 3
  RecoveryWindow = 2
  windowCapacity = 2
  MaxRetries = 1
  MaxLatency = 3
SPECIFICATION HSpec
INVARIANTS TypeOK RecoveryClockReset StalePullOnce
PROPERTIES RefinesLadder RecoversToNormal
