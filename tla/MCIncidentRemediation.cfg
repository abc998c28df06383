\* The whole workflow with its writer, its saga and abandoned workers.
SPECIFICATION FairSpec
CONSTANTS
  PlanLength = 3
  Undoable <- MCUndoable
  MaxAttempts = 1
  MaxInvocations = 3
INVARIANTS
  WritesAuthorised
  NoStepReplayed
  ResidueExplained
PROPERTIES
  UndoneInReverse
  QuietAfterReturn
  Settles
CHECK_DEADLOCK FALSE
