\* Registration, validation and depth-first ordering of every small workflow.
SPECIFICATION FairSpec
CONSTANTS
  a = a
  b = b
  c = c
  ghost = ghost
  Name <- MCName
  Workflows <- MCWorkflows
  MaxNodes = 3
INVARIANTS
  IInv
  DepsBefore
  CompleteOrder
  RefusedIffInvalid
PROPERTY
  Terminates
CHECK_DEADLOCK FALSE
