SPECIFICATION Spec
CONSTANTS
  Queries <- OldQueries
  Datapoints = {"p", "x"}
  Entrypoints <- OldEntrypoints
  DataChecksums <- OldData
  RequiredProps <- OldProps
  CanRun = {"A", "B"}
  Jobs <- OldJobs
  JobType <- OldJobType
  JobSystem <- OldJobSystem
  JobQuery <- OldJobQuery
  JobData <- OldJobData
  ChildJobs <- OldChildJobs
  JobImpact <- OldJobImpact
  CollectScores = {}
  CollectData = {}
  Rescore = FALSE
  SuppliedScore <- NoJobs
  FailErrors = TRUE
  Outcomes <- OldOutcomes
  MayFail = {"B"}
  ResultCap = 1
PROPERTIES CollectedDataImproves Termination
