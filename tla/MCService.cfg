\* Twelve configurations, one publish; nothing else is bounded.
CONSTANTS
  Sources <- MCSources
  Publishes = {p1}
  NoPublish = NoPublish
  MaxSlots = 1000000
SPECIFICATION LiveSpec
INVARIANTS TypeOK ValidConfigBoots UsesOpen ReadyIsFresh ListensWhenUp
PROPERTIES QueuedKept ShutdownEnds
