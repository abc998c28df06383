\* One thread scores the same change over and over.
SPECIFICATION Spec
CONSTANTS
  Threads = {t1}
  MaxEpisodes = 2
  MaxAdded = 4
  MaxRestarts = 0
  Changes <- MCChanges
  Incidents <- MCIncidents
INVARIANT PrecedentRetrieved
CHECK_DEADLOCK FALSE
