\* Evicting an incident that is being resumed gives the next approval a new lock.
SPECIFICATION Spec
CONSTANTS
  inc1 = inc1
  inc2 = inc2
  inc3 = inc3
  app1 = app1
  app2 = app2
  Creator = {inc1, inc2}
  Async = {inc1, inc2}
  Approver = {app1, app2}
  Retained = 1
  MaxInflight = 2
  PoolSize = 1
  Faulty = {}
INVARIANTS
  NoConcurrentResumes
CHECK_DEADLOCK FALSE
