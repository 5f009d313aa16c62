SPECIFICATION FairSpec
CONSTANTS
  e1 = e1
  e2 = e2
  e3 = e3
  t1 = t1
  w1 = w1
  w2 = w2
  c1 = c1
  NoWork = NoWork
  EventCap = 1
  TaskCap = 1
  ResultCap = 1
  Events <- MCEvents
  Tasks <- MCTasks
  EventWorkers <- MCEventWorkers
  ConsensusWorkers <- MCConsensusWorkers
INVARIANTS TypeOK WorkConserved
PROPERTIES AcceptedIsHandled StopTerminates
CHECK_DEADLOCK FALSE
