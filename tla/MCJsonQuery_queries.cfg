\* Every small table under every kind of query, and walks over changing tables.
SPECIFICATION Spec
CONSTANTS
  Texts <- MCTexts
  NullText = 5
  NumberOf <- MCNumberOf
  NotNumeric = NotNumeric
  Within <- MCWithin
  NoQuery = NoQuery
  Ids = {1, 2, 4}
  Configs <- EveryUse
  MaxInt = 1000
  MaxRows = 3
  MaxChanges = 2
INVARIANTS SqlAnswersLikeJson PageIsSliceOfWhole GroupsPartition
INVARIANTS SortedAnswerIsOrdered WalkErrorsBounded
