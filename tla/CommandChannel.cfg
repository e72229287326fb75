SPECIFICATION FairSpec
CONSTANTS
  Calls = {c1}
  MaxWorkers = 2
  MaxClicks = 3
  SendQueue = 1
  None = None
INVARIANTS AnswerIsOwn OnceAndInOrder
PROPERTIES OperatorTold
