SPECIFICATION Spec
CONSTANTS
  PageLimit = 2
  Start <- MCStart
  Uses <- MCUses
  MaxFlight = 2
  MaxEvents = 1
INVARIANT LoadsInOrder
PROPERTIES SelectionKept AnswersStayOnTheirPage PromptGoesWhereShown ShownInTheEnd
CHECK_DEADLOCK FALSE
