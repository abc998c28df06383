\* The workflow thread and an abandoned attempt on the clients of one incident.
SPECIFICATION Spec
CONSTANTS
  main = main
  late = late
  Threads = {main, late}
  Callers = {main, late}
  Declared = {"query_metrics", "list_recent_deploys", "rollback_deployment"}
  Writes = {"rollback_deployment"}
  RatePerMin = 2
  Minute = 1
  MaxTime = 3
  MaxVersion = 2
  Chains <- MCChains
  MaxFlips = 2
  Cases <- MCCases
INVARIANTS
  RateBounded
  VerifierReadsItsWrites
  DeadCostsOneAttempt
CHECK_DEADLOCK FALSE
