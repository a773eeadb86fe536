SPECIFICATION Spec
CONSTANTS
  Queries = {}
  Datapoints = {}
  Entrypoints <- NoJobs
  DataChecksums <- NoJobs
  RequiredProps <- NoJobs
  CanRun = {}
  Jobs <- TreeJobs
  JobType <- TreeJobType
  JobSystem <- TreeJobSystem
  JobQuery <- TreeJobQuery
  JobData <- TreeJobQuery
  ChildJobs <- TreeChildJobs
  JobImpact <- TreeJobImpact
  CollectScores = {}
  CollectData = {}
  Rescore = TRUE
  SuppliedScore <- TreeScores
  FailErrors = TRUE
  Outcomes <- NoJobs
  MayFail = {}
  ResultCap = 1
INVARIANT RescoreRollsUp
