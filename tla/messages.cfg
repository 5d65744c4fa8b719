\* Two readings of every type over one connection; short reads, the end of the stream.
SPECIFICATION Spec
CONSTANTS
  Base = 8
  TopicSize = 2
  DataSize = 6
  Readings <- MCReadings
  Faults = {"segments", "crash"}
  MaxSent = 2
  MaxOdd = 2
\* Providers may stop for ever, and nothing runs after the end.
CHECK_DEADLOCK FALSE
INVARIANTS
  ShownAsPublished NothingLost
