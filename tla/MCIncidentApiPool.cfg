\* Three asynchronous incidents through backpressure, the pool and eviction.
SPECIFICATION FairSpec
CONSTANTS
  inc1 = inc1
  inc2 = inc2
  inc3 = inc3
  app1 = app1
  app2 = app2
  Creator = {inc1, inc2, inc3}
  Async = {inc1, inc2, inc3}
  Approver = {app1}
  Retained = 2
  MaxInflight = 2
  PoolSize = 1
  Faulty = {inc3}
INVARIANTS
  SlotsAccounted
PROPERTIES
  EndedEvictedFirst
  RunsAreStored
CHECK_DEADLOCK FALSE
