\* Two overlapping requests on a small configuration.
SPECIFICATION Spec
CONSTANTS
  Ids <- MCIds
  Keys = {"a", "b"}
  Requests = {q1, q2}
  None = none
  Tables <- MCTables
  MaxOps = 2
  MaxFaults = 1
SYMMETRY Symmetry
INVARIANTS
  TypeOK
  NoOrphans
  KeysUnique
  SystemTableHasNoFields
  RowsAreLogged
CHECK_DEADLOCK FALSE
