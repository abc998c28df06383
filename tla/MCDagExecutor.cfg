\* Pauses, resumes, retries, timeouts, deadline, undo, and an audit log that
\* never raises or may raise on any append.
SPECIFICATION FairSpec
CONSTANTS
  plan = plan
  gate = gate
  apply = apply
  signoff = signoff
  check = check
  NoNode = NoNode
  Node <- MCNode
  Order <- MCOrder
  Deps <- MCDeps
  GateNode <- MCGateNode
  GateInput <- MCGateInput
  Bodyless <- MCBodyless
  MaxAttempts <- MCMaxAttempts
  Timed <- MCTimed
  Compensable <- MCCompensable
  HasDeadline = TRUE
  MaxInvocations = 3
INVARIANTS
  IInv
  DependenciesFirst
  GatesRespected
  NoRacingAttempts
  NoReplay
  UndoReversesCompletion
  OutcomeMatchesHistory
PROPERTIES
  ImplementsDurableWorkflow
  CallReturns
CHECK_DEADLOCK FALSE
