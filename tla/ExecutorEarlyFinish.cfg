SPECIFICATION Spec
CONSTANTS
  Queries <- FilterQueries
  Datapoints = {"a", "b"}
  Entrypoints <- FilterEntrypoints
  DataChecksums <- FilterData
  RequiredProps <- FilterProps
  CanRun <- FilterQueries
  Jobs = {}
  JobType <- NoJobs
  JobSystem <- NoJobs
  JobQuery <- NoJobs
  JobData <- NoJobs
  ChildJobs <- NoJobs
  JobImpact <- NoJobs
  CollectScores <- FilterQueries
  CollectData = {}
  Rescore = FALSE
  SuppliedScore <- NoJobs
  FailErrors = FALSE
  Outcomes <- FilterOutcomes
  MayFail = {}
  ResultCap = 1
INVARIANT ProvisionalScoresHadTheirChance
