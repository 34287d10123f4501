SPECIFICATION FairSpec
CONSTANTS
  j1 = j1
  j2 = j2
  w1 = w1
  w2 = w2
  Job <- MCJob2
  Worker <- MCWorker2
  QueueSize = 1
  Timed <- MCJob2
INVARIANTS
  RunningIffOneWorker
  CloseSettlesEarlierJobs
  TransitionsAccounted
PROPERTIES
  ImplementsLifecycle
  JobsSettle
