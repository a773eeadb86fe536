----------------------------- MODULE AssetScan ------------------------------
(***************************************************************************)
(* The scan of one asset from RunAssetJob (policy/scan/local_scanner.go)   *)
(* to its report: WithServices (internal/datalakes/sqlite/sqlite.go) makes *)
(* the scan database, the policies are resolved and executed, the buffered *)
(* collector writes what is found into the database (policy/scandb),       *)
(* resources follow, the report is read back, the checksums are announced, *)
(* the database is sealed and uploaded, its file is removed, and the       *)
(* reporter is told what came of it.                                       *)
(*                                                                         *)
(* It is the composition of BufferedCollector, whose store is the database *)
(* here, and of ScanUpload (U), whose object is the sealed file.  NoStore- *)
(* Results keeps the collector from sending anything upstream on its own.  *)
(*                                                                         *)
(* The checksum of a row is modelled by the content it is computed from;   *)
(* whether hashing works depends on the content.  A row of scores has      *)
(* neither a completion nor times, so only type and value count.           *)
(***************************************************************************)
EXTENDS BufferedCollector

CONSTANTS
  Attempts,       \* the retry budget of the upload
  Resources,      \* the recorded resources of the asset
  Unhashable,     \* the contents of rows that cannot be hashed
  Absent,         \* no row, and no checksum
  Configurations  \* what scans are asked for: [upstream, keep, checksums]

AssetAssumption ==
  /\ CollectorAssumption
  /\ Attempts \in Nat \ {0}
  /\ Data \cap QrIds = {} /\ (Data \cup QrIds) \cap (Risks \cup Resources) = {}
  /\ Risks \cap Resources = {}
  /\ Absent \notin Values \cup Unhashable \cup {None, Removed}
  /\ Configurations \subseteq [upstream : BOOLEAN, keep : BOOLEAN, checksums : BOOLEAN]
  /\ \A c \in Configurations : c.checksums => c.upstream \/ c.keep

VARIABLES
  conf,        \* what the scan was asked for
  stage,       \* where RunAssetJob is
  err,         \* whether WithServices is about to return an error
  rows,        \* the database: the content of each row
  sums,        \* the checksum columns
  hashErrors,  \* writeChecksumCounters.errors > 0
  stamped,     \* whether checksum_algo_version is in the metadata
  readOnly,    \* SqliteScanDataStore.readOnly, set by Finalize
  file,        \* whether the file exists
  objects,     \* storage: what was PUT under each session
  report,      \* the result of GetReport
  outcome,     \* what the reporter got: "none", "report" or "error"
  upload,      \* the place of doScanUpload (pc of ScanUpload)
  flow, attempts, reports, urlSession, sessionID, last, truth, permanent,
  cancelled, sent, issued, stored, completed

U == INSTANCE ScanUpload WITH pc <- upload

collectorVars == vars
uploadVars    == <<upload, flow, attempts, reports, urlSession, sessionID, last, truth, permanent,
                   cancelled, sent, issued, stored, completed>>
databaseVars  == <<rows, sums, hashErrors>>
fileVars      == <<stamped, readOnly, file>>
assetVars     == <<collectorVars, conf, stage, err, databaseVars, fileVars, objects, report,
                   outcome, uploadVars>>

Rows == Data \cup QrIds \cup Risks \cup Resources

\* the rows of what the collector stored, the resources in S beside them; a
\* datapoint without a result has the nil of initDataValue, and no risk a row
RowsOf(st, S) ==
  [k \in Rows |->
     IF k \in Data THEN st.data[k]
     ELSE IF k \in QrIds THEN <<st.score[k].type, st.score[k].value>>
     ELSE IF k \in Risks THEN IF st.risk[k] = None THEN Absent ELSE st.risk[k]
     ELSE IF k \in S THEN k ELSE Absent]

\* rowChecksum; a failure is counted, and the row goes without
rowChecksum(content) == IF conf.checksums /\ content \notin Unhashable THEN content ELSE Absent

\* Faulty variant: the counter of errors is forgotten
WriteUncounted(new) ==
  LET changed == {k \in Rows : new[k] # rows[k]}
  IN  /\ rows' = new
      /\ sums' = [k \in Rows |-> IF k \in changed THEN rowChecksum(new[k]) ELSE sums[k]]
      /\ UNCHANGED hashErrors

\* WriteData, WriteScores, WriteRisk and WriteResource: each row is replaced
\* together with its checksum
Write(new) ==
  LET changed == {k \in Rows : new[k] # rows[k]}
  IN  /\ rows' = new
      /\ sums' = [k \in Rows |-> IF k \in changed THEN rowChecksum(new[k]) ELSE sums[k]]
      /\ hashErrors' = (hashErrors \/ \E k \in changed : conf.checksums /\ new[k] \in Unhashable)

-----------------------------------------------------------------------------
(* The stages of one asset *)
GoesOn(to) == stage' = to /\ UNCHANGED err
Fails      == stage' = "cleanup" /\ err' = TRUE

\* withSqliteDataStore and the set-up of the services
Create ==
  /\ stage = "create"
  /\ \/ GoesOn("resolve") /\ file' = TRUE
     \/ Fails /\ file' \in BOOLEAN
  /\ UNCHANGED <<collectorVars, conf, databaseVars, stamped, readOnly, objects, report, outcome, uploadVars>>

\* SetAssetResolvedPolicy puts an empty row for each datapoint and each score
EmptyRows(S) == [k \in Rows |-> IF k \in S THEN RowsOf(store, {})[k] ELSE Absent]

\* prepareAsset, and runPolicy up to the executor
Resolve ==
  /\ stage = "resolve"
  /\ \/ GoesOn("execute") /\ Write(EmptyRows(Data \cup QrIds))
     \/ Fails /\ \E S \in SUBSET (Data \cup QrIds) : Write(EmptyRows(S))
  /\ UNCHANGED <<collectorVars, conf, fileVars, objects, report, outcome, uploadVars>>

\* ExecuteResolvedPolicy runs, and with it the collector and its goroutine
Collect(step) ==
  /\ stage = "execute"
  /\ step
  /\ Write(RowsOf(store', {}))
  /\ UNCHANGED <<conf, stage, err, fileVars, objects, report, outcome, uploadVars>>

\* Faulty variant: it does not wait for the goroutine
ExecutedEarly ==
  /\ stage = "execute"
  /\ executor # "running"
  /\ GoesOn("resources") \/ Fails
  /\ UNCHANGED <<collectorVars, conf, databaseVars, fileVars, objects, report, outcome, uploadVars>>

\* ExecuteResolvedPolicy returns after its deferred FlushAndStop did, with an
\* error when the execution had one
Executed ==
  /\ stage = "execute"
  /\ executor = "returned"
  /\ GoesOn("resources") \/ Fails
  /\ UNCHANGED <<collectorVars, conf, databaseVars, fileVars, objects, report, outcome, uploadVars>>

\* run: StoreResults of the recorded resources, when that feature is active
StoreResources ==
  /\ stage = "resources"
  /\ \/ GoesOn("report") /\ UNCHANGED databaseVars
     \/ GoesOn("report") /\ Write(RowsOf(store, Resources))
     \/ Fails /\ \E S \in SUBSET Resources : Write(RowsOf(store, S))
  /\ UNCHANGED <<collectorVars, conf, fileVars, objects, report, outcome, uploadVars>>

\* getReport; what WaitUntilDone waits for is always so, since each score is
\* read back with a completion of 100 (convertScore).  A root score that cannot
\* be read makes the report empty, not an error.
GetReport ==
  /\ stage = "report"
  /\ \/ GoesOn("stamp") /\ report' \in {<<>>, [k \in Data \cup QrIds |-> rows[k]]}
     \/ Fails /\ UNCHANGED report
  /\ UNCHANGED <<collectorVars, conf, databaseVars, fileVars, objects, outcome, uploadVars>>

\* Faulty variant: a file with failures is announced as well
StampAnyway ==
  /\ stage = "stamp"
  /\ GoesOn(IF conf.upstream THEN "finalize" ELSE "cleanup")
  /\ stamped' = conf.checksums
  /\ UNCHANGED <<collectorVars, conf, databaseVars, readOnly, file, objects, report, outcome, uploadVars>>

\* StampChecksums, once f has returned; when the statement fails the file
\* stays unstamped
StampChecksums ==
  /\ stage = "stamp"
  /\ GoesOn(IF conf.upstream THEN "finalize" ELSE "cleanup")
  /\ stamped' \in {FALSE, conf.checksums /\ ~hashErrors}
  /\ UNCHANGED <<collectorVars, conf, databaseVars, readOnly, file, objects, report, outcome, uploadVars>>

\* Finalize
Finalize ==
  /\ stage = "finalize"
  /\ \/ GoesOn("upload") /\ readOnly' = TRUE
     \/ Fails /\ UNCHANGED readOnly
  /\ UNCHANGED <<collectorVars, conf, databaseVars, stamped, file, objects, report, outcome, uploadVars>>

\* the object that is PUT: the file as it is, if it is there
ContentsIf(there) ==
  [rows |-> rows, sums |-> sums, stamped |-> stamped, readOnly |-> readOnly, file |-> there]
Contents == ContentsIf(file)

\* doScanUpload
Upload ==
  /\ stage = "upload"
  /\ U!Step
  /\ objects' = [s \in stored' |-> IF s \in stored THEN objects[s] ELSE Contents]
  /\ UNCHANGED <<collectorVars, conf, stage, err, databaseVars, fileVars, report, outcome>>

\* Faulty variant: an upload that failed is only logged
UploadEndsLogged ==
  /\ stage = "upload"
  /\ U!Finished
  /\ stage' = "cleanup"
  /\ UNCHANGED <<collectorVars, conf, err, databaseVars, fileVars, objects, report, outcome, uploadVars>>

\* uploadScanDataStore returns
UploadEnds ==
  /\ stage = "upload"
  /\ U!Finished
  /\ stage' = "cleanup"
  /\ err' = (upload = "failed")
  /\ UNCHANGED <<collectorVars, conf, databaseVars, fileVars, objects, report, outcome, uploadVars>>

\* Faulty variant: a scan that failed leaves its file
CleanupOnSuccess ==
  /\ stage = "cleanup"
  /\ file' = (file /\ (conf.keep \/ err))
  /\ outcome' = IF err THEN "error" ELSE "report"
  /\ stage' = "ended"
  /\ UNCHANGED <<collectorVars, conf, err, databaseVars, stamped, readOnly, objects, report, uploadVars>>

\* the deferred calls of withSqliteDataStore remove the file unless it is to
\* be kept (a removal that fails is logged and is left out), and RunAssetJob
\* calls AddReport or AddScanError
Cleanup ==
  /\ stage = "cleanup"
  /\ file' = (file /\ conf.keep)
  /\ outcome' = IF err THEN "error" ELSE "report"
  /\ stage' = "ended"
  /\ UNCHANGED <<collectorVars, conf, err, databaseVars, stamped, readOnly, objects, report, uploadVars>>

\* the job is cancelled; before the upload this only makes calls fail
Cancel ==
  /\ stage = "upload"
  /\ U!Cancel
  /\ UNCHANGED <<collectorVars, conf, stage, err, databaseVars, fileVars, objects, report, outcome>>

-----------------------------------------------------------------------------
\* RunAssetJob is called; there is no database yet
ScanInit ==
  /\ conf \in Configurations
  /\ stage = "create"
  /\ err = FALSE
  /\ rows = [k \in Rows |-> Absent]
  /\ sums = [k \in Rows |-> Absent]
  /\ hashErrors = FALSE
  /\ stamped = FALSE
  /\ readOnly = FALSE
  /\ file = FALSE
  /\ objects = <<>>
  /\ report = <<>>
  /\ outcome = "none"

AssetInit == Init /\ U!Init /\ flow = "scan" /\ ScanInit

\* the steps of RunAssetJob
JobStep ==
  \/ Create
  \/ Resolve
  \/ Executed
  \/ StoreResources
  \/ GetReport
  \/ StampChecksums
  \/ Finalize
  \/ Upload
  \/ UploadEnds
  \/ Cleanup

AssetNext == Collect(Next) \/ JobStep \/ Cancel

\* what RunAssetJob and the goroutine of the collector do in ExecuteResolvedPolicy
Executes == Collect(FlushAndStop \/ FlushReturns)
Collects == Collect(Loop \/ TimerFires)

\* RunAssetJob and the goroutine of the collector are scheduled, the query
\* executor returns (its own liveness property), and a select that finds
\* stopChan closed takes it in the end
AssetFairness ==
  /\ WF_assetVars(JobStep \/ Executes)
  /\ WF_assetVars(Collects)
  /\ SF_assetVars(Collect(StopTaken))

AssetSpec == AssetInit /\ [][AssetNext]_assetVars /\ AssetFairness

-----------------------------------------------------------------------------
(* Properties *)

\* A file that announces its checksums has one in every row, and it is the one
\* of what the row says now, however often the row was replaced: a file with a
\* failed hash is never announced (rowChecksum, StampChecksums).
StampedIsChecksummed ==
  stamped => \A k \in Rows : rows[k] # Absent => sums[k] = rows[k]

\* What is in the bucket is the sealed file as it is at the end: nothing was
\* written after Finalize, and the file was there when it was read
\* (Finalize, uploadScanDataStore, the deferred removal).
UploadedIsSealed ==
  \A s \in stored :
    /\ objects[s] = ContentsIf(TRUE)
    /\ readOnly

\* An asset is only reported as scanned when the platform was told that the
\* session is complete, under which it has the last result of every datapoint
\* and the last score of every check the executor sank, but for those whose
\* write failed, and the report shows the same (RunAssetJob, run, WithServices).
ReportedIsDelivered ==
  outcome = "report" =>
    /\ \A k \in DOMAIN report : report[k] = rows[k]
    /\ \A d \in Keys(lastData) \ failed : rows[d] = toResult(lastData[d])
    /\ \A q \in Keys(KeptScores(lastScore)) \ failed :
         rows[q] = <<lastScore[q].type, lastScore[q].value>>
    /\ conf.upstream => sessionID \in completed /\ objects[sessionID].rows = rows

\* Whatever fails, no database stays behind that nobody asked for, and the
\* reporter hears of the asset (withSqliteDataStore, RunAssetJob).
NothingStays == stage = "ended" => outcome # "none" /\ (file => conf.keep)

\* What the scan of an asset promises, whatever fails on the way
\* (RunAssetJob, WithServices).
AssetDelivered == StampedIsChecksummed /\ UploadedIsSealed /\ ReportedIsDelivered /\ NothingStays

\* Every asset job ends, whatever fails and whenever it is cancelled
\* (RunAssetJob).
Ended     == stage = "ended"
AssetEnds == <>Ended
=============================================================================
