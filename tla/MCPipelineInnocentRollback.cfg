\* A live diagnostician on the deploy that lowered its pool (scenario 5).
SPECIFICATION Spec
CONSTANTS
  Cases <- LiveDiagnostician
  BogusShas <- MCBogusShas
  MaxSteps = 8
  MaxProposed = 2
  MaxUpsets = 0
INVARIANT InnocentDeployKept
CHECK_DEADLOCK FALSE
