SPECIFICATION FairSpec
CONSTANTS
  j1 = j1
  j2 = j2
  j3 = j3
  Jobs = {j1, j2, j3}
  NoJob = NoJob
  LastStamp = 6
  Stamps <- MCStamps
  MaxSize = 2
  MinAdvance = 1
  MaxAdvance = 2
  Unmarshalable = {j3}
  CloseMayFail = TRUE
  MaxStarts = 2
INVARIANT OnePlace
INVARIANT LossBound
PROPERTY ImplementsJobQueue
PROPERTY StopTerminates
PROPERTY EveryJobSettles
CHECK_DEADLOCK FALSE
