\* A ledger of either kind: concurrent appends, failing writes, a restart.
SPECIFICATION Spec
CONSTANTS
  t1 = t1
  t2 = t2
  b1 = b1
  b2 = b2
  NoThread = NoThread
  Thread = {t1, t2}
  Body = {b1, b2}
  DiskMayFail = TRUE
  MayRestart = TRUE
  MaxAppends = 4
INVARIANTS
  ChainNeverForks
  FileFollowsMemory
  ReloadVerifies
  RowsFollowMemory
CHECK_DEADLOCK FALSE
