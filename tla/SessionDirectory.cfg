\* Four sessions of two names, in four operations that date a session.
SPECIFICATION Spec
CONSTANTS
  s1 = s1
  s2 = s2
  s3 = s3
  s4 = s4
  n1 = n1
  n2 = n2
  Ids = {s1, s2, s3, s4}
  Names = {n1, n2}
  None = none
  Shared = shared
  MaxTime = 4
SYMMETRY Symmetry
INVARIANTS
  TypeOK
  FilesAgree
  NamesAreUnique
  GroupsShareADatabase
\* The number of operations is bounded.
CHECK_DEADLOCK FALSE
