SPECIFICATION TreeSpec
CONSTANTS
  Controllers = {"memory"}
  Old = {o1, o2}
  KillAttempts = 2
  RemovalAttempts = 2
INVARIANTS AnswerIsTrue LimitsHoldOrTold OldCopiesGoneOrTold
PROPERTIES NoHandlerInChild DiesWithManager ManagerGetsOn
\* A launch ends.
CHECK_DEADLOCK FALSE
