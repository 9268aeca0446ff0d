SPECIFICATION MCSpec
CONSTANTS
  Alphabet <- Tokens
  Custom <- Tagged
  MaxInput = 13
  MaxPredicates = 2
  MaxSet = 2
  MaxValue = 2
  MaxLabels = 1
  MaxPage = 2
  NumNames = 3
  Own = 2
  Inserts <- Insertions
  Limits = {0, 1, 3}
INVARIANT SelectionIsExact
CHECK_DEADLOCK FALSE
