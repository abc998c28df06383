\* Two approvals racing each other, the first run, eviction and calls that raise.
SPECIFICATION FairSpec
CONSTANTS
  inc1 = inc1
  inc2 = inc2
  inc3 = inc3
  app1 = app1
  app2 = app2
  Creator = {inc1, inc2}
  Async = {inc2}
  Approver = {app1, app2}
  Retained = 1
  MaxInflight = 1
  PoolSize = 1
  Faulty = {inc1}
INVARIANTS
  OneDecision
  RemediatesOnce
PROPERTIES
  ApprovalAnswered
CHECK_DEADLOCK FALSE
