\* Two overlapping requests and one reading at a time.
SPECIFICATION FairSpec
CONSTANTS
  Views <- MCViews
  Tenants = {t}
  Global = global
  Types = {"list"}
  Requests = {q1, q2}
  Readers = {r1}
  Versions = {v1}
  None = none
  t = t
  Served = {t}
  Tables <- MCTables
  TTL = 2
  Slow = 1
  MaxOps = 2
INVARIANTS
  TypeOK
  OneActivePerScope
  StalenessBounded
  ClearingIsEffective
PROPERTIES
  EventuallyFresh
CHECK_DEADLOCK FALSE
