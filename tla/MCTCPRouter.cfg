SPECIFICATION RouterSpec
CONSTANTS
  Words <- MCWords
  MaxSent = 5
  MaxLeading = 2
  MaxRecords = 2
INVARIANTS
  RoutedAsRead
  AnsweredExactly
  RequestReached
CHECK_DEADLOCK FALSE
