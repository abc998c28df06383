\* Two threads score changes and learn, with a durable memory and a bounded one.
SPECIFICATION Spec
CONSTANTS
  Threads = {t1, t2}
  MaxEpisodes = 2
  MaxAdded = 3
  MaxRestarts = 1
  Changes <- MCChanges
  Incidents <- MCIncidents
INVARIANTS
  LearningSurvives
  OnlyIncidentsInflate
CHECK_DEADLOCK FALSE
