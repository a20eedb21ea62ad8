SPECIFICATION Spec
CONSTANTS
  Request = {q, r}
  Cases = 2
  Span = 2
  MaxCount = 2
  Starter = 1
  LastDay = 3
  MaxEarned = 1
  MaxActs = 3
INVARIANTS BooksBalance StaysReadable ArchivesAddUp
CHECK_DEADLOCK FALSE
