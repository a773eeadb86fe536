SPECIFICATION Spec
CONSTANTS
  Queries <- SharedQueries
  Datapoints = {"p", "x"}
  Entrypoints <- SharedEntrypoints
  DataChecksums <- SharedData
  RequiredProps <- SharedProps
  CanRun <- SharedQueries
  Jobs <- SharedJobs
  JobType <- SharedJobType
  JobSystem <- SharedJobSystem
  JobQuery <- SharedJobQuery
  JobData <- SharedJobData
  ChildJobs <- SharedChildJobs
  JobImpact <- SharedJobImpact
  CollectScores = {}
  CollectData = {"p"}
  Rescore = FALSE
  SuppliedScore <- NoJobs
  FailErrors = FALSE
  Outcomes <- SharedOutcomes
  MayFail = {}
  ResultCap = 1
INVARIANT GraphUpToDate
