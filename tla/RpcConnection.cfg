CONSTANTS
  NCalls = 3
  MaxInflight = 2
SPECIFICATION FairSpec
INVARIANTS AnswersMatch
PROPERTIES CallsEnd BothEnd
CHECK_DEADLOCK FALSE
