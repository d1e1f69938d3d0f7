SPECIFICATION Spec
CONSTANTS
  e1 = e1  e2 = e2  e3 = e3  e4 = e4  v1 = v1
  Entity = {e1, e2, e3, e4}
  Component = {1, 2, 3, 4}
  Value = {v1}
  Query <- Queries
  Shape <- Shapes
  MaxEdits = 2
INVARIANTS StorageTypeOK RowsAreCurrent UntouchedVisitedOnce MissesCounted
PROPERTY ImplementsRecordMap
