SPECIFICATION Spec
CONSTANTS
  Source = {s1, s2, s3}
  EndTime = 3
  MaxTime = 3
  MaxIssued = 4
INVARIANT NothingOverdue
PROPERTY ServesInOrder
