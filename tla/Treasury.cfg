SPECIFICATION SmallSpec
CONSTANTS
  w1 = w1
  w2 = w2
  Workers = {w1, w2}
  Rows = {1, 2, 3, 4, 5}
  MaxAmount = 1
  MaxBalance = 2
  MaxLedger = 6
  FewRows = 3
INVARIANTS BooksReconcile NeverOverdrawn MoneyConserved
PROPERTY RequestsEnd
CHECK_DEADLOCK FALSE
