SPECIFICATION MCSpec
CONSTANTS
  Intervals = {1, 3}
  Late = 1
  Margin = 2
  DefaultTimeout = 3
  StaleAfter = 2
  GapsKept = 3
  Queue = 2
  Senders <- MCSenders
  Snapshots <- MCSnapshots
  Commands <- MCCommands
  Replies <- MCReplies
  Lengths <- MCLengths
  Numbers <- MCNumbers
  MaxChanges = 2
  MaxWorkers = 2
INVARIANTS ReadAsSent StatusAnswered FeedHonest
\* A call of --status ends, and so does reading a payload.
CHECK_DEADLOCK FALSE
