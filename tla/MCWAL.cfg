\* Two callers of Append, Drain with two limits; numbers go from one to two digits in base 2.
CONSTANTS
  Callers = {c1, c2}
  TTL = 2
  Limits = {1, 2}
  Base = 2
  Width = 2
  MaxNanos = 3
  MaxAppends = 3
SPECIFICATION Spec
CHECK_DEADLOCK FALSE
INVARIANTS TypeOK KeyOrder ExactlyOnce InsertionOrder
PROPERTIES AgeOfOldest UnreadableBlocks RefinesContract
