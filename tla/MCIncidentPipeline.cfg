\* The golden scenarios and five variants under both drivers, with the offline
\* backend alone, a live investigator, or a live diagnostician and planner.
SPECIFICATION FairSpec
CONSTANTS
  Cases <- MCCases
  BogusShas <- MCBogusShas
  MaxSteps = 8
  MaxProposed = 2
  MaxUpsets = 2
INVARIANTS
  GoldenOutcomes
  GroundedAtTheGate
  RemediationAuthorised
  FallbackCoversBaseline
PROPERTIES
  Concludes
CHECK_DEADLOCK FALSE
