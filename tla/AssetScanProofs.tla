-------------------------- MODULE AssetScanProofs ---------------------------
(***************************************************************************)
(* Proofs about AssetScan, for every set of datapoints, scores, risks and  *)
(* recorded resources, every retry budget and every configuration.         *)
(*                                                                         *)
(* The scan of an asset is composed of the buffered collector and of the   *)
(* upload.  Each of its steps is a step of the collector, a step of the    *)
(* upload, or leaves both alone, so that the theorems about them hold in   *)
(* it; what is left to prove is how the database gets from one to the      *)
(* other.                                                                  *)
(***************************************************************************)
EXTENDS AssetScan, BufferedCollectorProofs

UP == INSTANCE ScanUploadProofs WITH pc <- upload

Ahead     == {"create", "resolve", "execute"}
Collected == {"resources", "report", "stamp", "finalize", "upload"}
Over      == {"cleanup", "ended"}

AssetTypes ==
  /\ conf \in [upstream : BOOLEAN, keep : BOOLEAN, checksums : BOOLEAN]
  /\ stage \in Ahead \cup Collected \cup Over
  /\ err \in BOOLEAN
  /\ rows = [k \in Rows |-> rows[k]]
  /\ sums = [k \in Rows |-> sums[k]]
  /\ hashErrors \in BOOLEAN
  /\ stamped \in BOOLEAN
  /\ readOnly \in BOOLEAN
  /\ file \in BOOLEAN
  /\ outcome \in {"none", "report", "error"}

\* what RunAssetJob has done when it comes to a stage
Stages ==
  /\ stage \notin Over => ~err
  /\ stage \in {"create", "resolve"} => \A r \in Risks : store.risk[r] = None
  /\ stage \in Collected \/ (stage \in Over /\ ~err) => executor = "returned"
  /\ stage = "ended" <=> outcome # "none"
  /\ outcome = "report" => ~err
  /\ stage = "ended" => (file => conf.keep)

\* the rows of the database are those of the data lake, and of the resources
\* when those were recorded; the report was read from them
Database ==
  /\ stage = "execute" => rows = RowsOf(store, {})
  /\ stage \in Collected \/ (stage \in Over /\ ~err) => \E S \in SUBSET Resources : rows = RowsOf(store, S)
  /\ stage \in Ahead \cup {"resources", "report"} => report = <<>>
  /\ \A k \in DOMAIN report : report[k] = rows[k]

\* a row without its checksum was counted
Checksums ==
  /\ conf.checksums /\ ~hashErrors => \A k \in Rows : rows[k] # Absent => sums[k] = rows[k]
  /\ stamped => /\ conf.checksums /\ ~hashErrors
                /\ stage \in {"finalize", "upload"} \cup Over

\* the file is sealed before the first byte of it is sent, and stays as it is
Sealed ==
  /\ stage \notin {"upload"} \cup Over => stored = {}
  /\ stage = "upload" => readOnly /\ file
  /\ stage \in {"resolve", "execute"} \cup Collected => file
  /\ \A s \in stored : objects[s] = ContentsIf(TRUE) /\ readOnly
  /\ stage \in Over /\ ~err /\ conf.upstream => upload = "ok"

AssetInv == AssetTypes /\ Stages /\ Database /\ Checksums /\ Sealed

-----------------------------------------------------------------------------
(* The parts in the composition *)

\* A step of the scan is a step of the collector or leaves it alone.
LEMMA CollectorMoves == [AssetNext]_assetVars => [Next]_vars
<1>. SUFFICES ASSUME [AssetNext]_assetVars PROVE [Next]_vars
  OBVIOUS
<1>1. CASE Collect(Next)
  BY <1>1 DEF Collect
<1>2. CASE JobStep
  BY <1>2 DEF JobStep, Create, Resolve, Executed, StoreResources, GetReport, StampChecksums, Finalize,
              Upload, UploadEnds, Cleanup, collectorVars
<1>3. CASE Cancel
  BY <1>3 DEF Cancel, collectorVars
<1>4. CASE UNCHANGED assetVars
  BY <1>4 DEF assetVars, collectorVars
<1>. QED
  BY <1>1, <1>2, <1>3, <1>4 DEF AssetNext

\* The collector of the scan is the collector of its own specification, so that
\* what was proved about it holds here.
LEMMA AssetCollects == AssetSpec => Spec
<1>1. AssetInit => Init
  BY DEF AssetInit
<1>. QED
  BY <1>1, CollectorMoves, PTL DEF AssetSpec, Spec

\* The same for the upload.
LEMMA UploadMoves == [AssetNext]_assetVars => [UP!Next]_(UP!vars)
<1>. SUFFICES ASSUME [AssetNext]_assetVars PROVE [UP!Next]_(UP!vars)
  OBVIOUS
<1>1. ASSUME UNCHANGED uploadVars PROVE UNCHANGED UP!vars
  BY <1>1 DEF uploadVars, UP!vars, UP!client, UP!platform
<1>2. CASE Upload
  <2>1. U!Step
    BY <1>2 DEF Upload
  <2>2. UP!Step
    BY <2>1 DEF U!Step, UP!Step,
      U!GetUploadURLFails, U!GetUploadURLNil, U!GetUploadURL, U!Put, U!PutBreaks, U!PutStatus, U!NextAttempt,
      U!ReportUploadCompleted, U!ReportFails, U!NextReport, U!Cancelled, U!AttemptFails, U!Again,
      U!MayTakeEffect, U!FailureReport, U!CompletionReport, U!NoFailure, U!platform,
      UP!GetUploadURLFails, UP!GetUploadURLNil, UP!GetUploadURL, UP!Put, UP!PutBreaks, UP!PutStatus, UP!NextAttempt,
      UP!ReportUploadCompleted, UP!ReportFails, UP!NextReport, UP!Cancelled, UP!AttemptFails, UP!Again,
      UP!MayTakeEffect, UP!FailureReport, UP!CompletionReport, UP!NoFailure, UP!platform
  <2>. QED
    BY <2>2 DEF UP!Next
<1>3. CASE Cancel
  <2>1. UP!Cancel
    BY <1>3 DEF Cancel, U!Cancel, UP!Cancel, U!client, UP!client, U!platform, UP!platform
  <2>. QED
    BY <2>1 DEF UP!Next
<1>4. CASE Collect(Next)
  BY <1>1, <1>4 DEF Collect
<1>5. CASE JobStep /\ ~Upload
  BY <1>1, <1>5 DEF JobStep, Create, Resolve, Executed, StoreResources, GetReport, StampChecksums, Finalize,
              UploadEnds, Cleanup
<1>6. CASE UNCHANGED assetVars
  BY <1>1, <1>6 DEF assetVars
<1>. QED
  BY <1>2, <1>3, <1>4, <1>5, <1>6 DEF AssetNext, JobStep

\* The upload of the scan is an upload of ScanUpload.
LEMMA AssetUploads == AssetSpec => UP!Spec
<1>1. AssetInit => UP!Init
  BY DEF AssetInit, U!Init, UP!Init, U!NoFailure, UP!NoFailure
<1>. QED
  BY <1>1, UploadMoves, PTL DEF AssetSpec, UP!Spec

-----------------------------------------------------------------------------
(* The database *)

\* Nothing is there when RunAssetJob is called.
LEMMA AssetStarts == AssetAssumption /\ AssetInit => AssetInv
<1>. SUFFICES ASSUME AssetAssumption, AssetInit PROVE AssetInv
  OBVIOUS
<1>1. AssetTypes
  BY DEF AssetInit, ScanInit, AssetTypes, AssetAssumption, Ahead
<1>2. Stages
  BY DEF AssetInit, ScanInit, Init, Stages, Ahead, Collected, Over
<1>3. Database /\ Checksums /\ Sealed
  BY DEF AssetInit, ScanInit, U!Init, Database, Checksums, Sealed, Ahead, Collected, Over
<1>. QED
  BY <1>1, <1>2, <1>3 DEF AssetInv

\* Writing rows writes all of them with their checksums, or counts an error.
LEMMA WriteKeeps ==
  ASSUME AssetTypes, Checksums, stage \in Ahead \cup Collected, ~stamped,
         NEW new, new = [k \in Rows |-> new[k]], Write(new), conf' = conf, stamped' = stamped
  PROVE  /\ rows' = new
         /\ rows' = [k \in Rows |-> rows'[k]]
         /\ sums' = [k \in Rows |-> sums'[k]]
         /\ hashErrors' \in BOOLEAN
         /\ Checksums'
<1>1. rows' = new /\ hashErrors' \in BOOLEAN
  BY DEF Write, AssetTypes
<1>2. \A k \in Rows : sums'[k] = IF new[k] # rows[k] THEN rowChecksum(new[k]) ELSE sums[k]
  BY DEF Write
<1>3. sums' = [k \in Rows |-> sums'[k]]
  BY DEF Write
<1>4. ASSUME conf.checksums, ~hashErrors', NEW k \in Rows, new[k] # Absent PROVE sums'[k] = new[k]
  <2>1. ~hashErrors
    BY <1>4 DEF Write
  <2>2. CASE new[k] # rows[k]
    <3>1. new[k] \notin Unhashable
      BY <1>4, <2>2 DEF Write
    <3>. QED
      BY <1>2, <1>4, <2>2, <3>1 DEF rowChecksum
  <2>3. CASE new[k] = rows[k]
    BY <1>2, <1>4, <2>1, <2>3 DEF Checksums
  <2>. QED
    BY <2>2, <2>3
<1>. QED
  BY <1>1, <1>3, <1>4 DEF Checksums

\* The rows of a data lake are rows, and so are the empty ones; before anything
\* was found the empty rows are those of the data lake.
LEMMA RowsAreRows ==
  /\ \A S : RowsOf(store, S) = [k \in Rows |-> RowsOf(store, S)[k]]
  /\ \A S : EmptyRows(S) = [k \in Rows |-> EmptyRows(S)[k]]
  /\ (\A r \in Risks : store.risk[r] = None) => EmptyRows(Data \cup QrIds) = RowsOf(store, {})
<1>1. /\ \A S : RowsOf(store, S) = [k \in Rows |-> RowsOf(store, S)[k]]
      /\ \A S : EmptyRows(S) = [k \in Rows |-> EmptyRows(S)[k]]
  BY DEF RowsOf, EmptyRows
<1>2. ASSUME \A r \in Risks : store.risk[r] = None, NEW k \in Rows
      PROVE  EmptyRows(Data \cup QrIds)[k] = RowsOf(store, {})[k]
  <2>1. CASE k \in Data \cup QrIds
    BY <2>1 DEF EmptyRows
  <2>2. CASE k \notin Data \cup QrIds
    BY <1>2, <2>2 DEF EmptyRows, RowsOf
  <2>. QED
    BY <2>1, <2>2
<1>3. ASSUME \A r \in Risks : store.risk[r] = None
      PROVE  EmptyRows(Data \cup QrIds) = RowsOf(store, {})
  <2>1. \A k \in Rows : EmptyRows(Data \cup QrIds)[k] = RowsOf(store, {})[k]
    BY <1>2, <1>3
  <2>. QED
    BY <1>1, <2>1
<1>. QED
  BY <1>1, <1>3

\* The stages that neither write to the database nor upload it.
QuietStep == Create \/ Executed \/ GetReport \/ StampChecksums \/ Finalize \/ UploadEnds \/ Cleanup

\* A step of RunAssetJob keeps the types and what its stages say.
LEMMA StepStages ==
  AssetAssumption /\ Control /\ AssetInv /\ [AssetNext]_assetVars => AssetTypes' /\ Stages' /\ Checksums'
<1>. SUFFICES ASSUME AssetAssumption, Control, AssetInv, [AssetNext]_assetVars
              PROVE  AssetTypes' /\ Stages' /\ Checksums'
  OBVIOUS
<1>. USE DEF AssetInv, Ahead, Collected, Over
<1>1. CASE Collect(Next)
  <2>1. /\ Write(RowsOf(store', {})) /\ stage = "execute"
        /\ UNCHANGED <<conf, stage, err, fileVars, objects, report, outcome, uploadVars>>
    BY <1>1 DEF Collect
  <2>2. RowsOf(store', {}) = [k \in Rows |-> RowsOf(store', {})[k]]
    BY DEF RowsOf
  <2>3. ~stamped
    BY <2>1 DEF Checksums
  <2>4. /\ rows' = [k \in Rows |-> rows'[k]] /\ sums' = [k \in Rows |-> sums'[k]]
        /\ hashErrors' \in BOOLEAN /\ Checksums'
    <3>1. PICK new : new = RowsOf(store', {})
      OBVIOUS
    <3>2. Write(new) /\ new = [k \in Rows |-> new[k]]
      BY <2>1, <2>2, <3>1
    <3>. QED
      BY <2>1, <2>3, <3>2, WriteKeeps DEF fileVars
  <2>5. AssetTypes'
    BY <2>1, <2>4 DEF AssetTypes, fileVars
  <2>6. Stages'
    BY <2>1 DEF Stages, fileVars
  <2>. QED
    BY <2>4, <2>5, <2>6
<1>2. CASE Resolve
  <2>1. /\ stage = "resolve"
        /\ \/ GoesOn("execute")
           \/ Fails
        /\ UNCHANGED <<collectorVars, conf, fileVars, objects, report, outcome, uploadVars>>
    BY <1>2 DEF Resolve
  <2>2. PICK S : Write(EmptyRows(S))
    BY <1>2 DEF Resolve
  <2>3. PICK new : new = EmptyRows(S)
    OBVIOUS
  <2>4. Write(new) /\ new = [k \in Rows |-> new[k]] /\ ~stamped
    BY <2>1, <2>2, <2>3, RowsAreRows DEF Checksums
  <2>5. /\ rows' = [k \in Rows |-> rows'[k]] /\ sums' = [k \in Rows |-> sums'[k]]
        /\ hashErrors' \in BOOLEAN /\ conf' = conf /\ stamped' = stamped
    BY <2>1, <2>4, WriteKeeps DEF fileVars
  <2>6. Checksums'
    BY <2>1, <2>4, WriteKeeps DEF fileVars
  <2>7. AssetTypes'
    BY <2>1, <2>5 DEF AssetTypes, fileVars, GoesOn, Fails
  <2>8. Stages'
    BY <2>1 DEF Stages, fileVars, GoesOn, Fails
  <2>. QED
    BY <2>6, <2>7, <2>8
<1>3. CASE StoreResources
  <2>1. /\ stage = "resources"
        /\ GoesOn("report") \/ Fails
        /\ UNCHANGED <<collectorVars, conf, fileVars, objects, report, outcome, uploadVars>>
    BY <1>3 DEF StoreResources
  <2>2. ~stamped
    BY <2>1 DEF Checksums
  <2>3. /\ rows' = [k \in Rows |-> rows'[k]] /\ sums' = [k \in Rows |-> sums'[k]]
        /\ hashErrors' \in BOOLEAN /\ Checksums'
    <3>1. CASE UNCHANGED databaseVars
      BY <2>1, <2>2, <3>1 DEF databaseVars, AssetTypes, Checksums, fileVars
    <3>2. CASE \E S : Write(RowsOf(store, S))
      <4>1. PICK S : Write(RowsOf(store, S))
        BY <3>2
      <4>2. PICK new : new = RowsOf(store, S)
        OBVIOUS
      <4>3. Write(new) /\ new = [k \in Rows |-> new[k]]
        BY <4>1, <4>2, RowsAreRows
      <4>. QED
        BY <2>1, <2>2, <4>3, WriteKeeps DEF fileVars
    <3>. QED
      BY <1>3, <3>1, <3>2 DEF StoreResources
  <2>4. AssetTypes'
    BY <2>1, <2>3 DEF AssetTypes, fileVars, GoesOn, Fails
  <2>5. Stages'
    BY <2>1 DEF Stages, fileVars, GoesOn, Fails, collectorVars, vars
  <2>. QED
    BY <2>3, <2>4, <2>5
<1>4. CASE Upload \/ Cancel
  <2>1. UNCHANGED <<collectorVars, conf, stage, err, databaseVars, fileVars, report, outcome>>
    BY <1>4 DEF Upload, Cancel
  <2>. QED
    BY <2>1 DEF AssetTypes, Stages, Checksums, collectorVars, vars, databaseVars, fileVars
<1>5. CASE QuietStep
  <2>1. UNCHANGED <<executor, store, conf, rows, sums, hashErrors>>
    BY <1>5 DEF QuietStep, Create, Executed, GetReport, StampChecksums, Finalize, UploadEnds, Cleanup,
                collectorVars, vars, databaseVars
  <2>2. CASE Create
    <3>1. AssetTypes'
      BY <2>1, <2>2 DEF Create, AssetTypes, GoesOn, Fails, databaseVars, fileVars
    <3>2. Stages'
      BY <2>1, <2>2 DEF Create, AssetTypes, Stages, GoesOn, Fails, databaseVars, fileVars
    <3>3. Checksums'
      BY <2>1, <2>2 DEF Create, AssetTypes, Checksums, GoesOn, Fails, databaseVars, fileVars
    <3>. QED
      BY <3>1, <3>2, <3>3
  <2>3. CASE Executed
    <3>1. AssetTypes'
      BY <2>1, <2>3 DEF Executed, AssetTypes, GoesOn, Fails, databaseVars, fileVars
    <3>2. Stages'
      BY <2>1, <2>3 DEF Executed, AssetTypes, Stages, GoesOn, Fails, databaseVars, fileVars
    <3>3. Checksums'
      BY <2>1, <2>3 DEF Executed, AssetTypes, Checksums, GoesOn, Fails, databaseVars, fileVars
    <3>. QED
      BY <3>1, <3>2, <3>3
  <2>4. CASE GetReport
    <3>1. AssetTypes'
      BY <2>1, <2>4 DEF GetReport, AssetTypes, GoesOn, Fails, databaseVars, fileVars
    <3>2. Stages'
      BY <2>1, <2>4 DEF GetReport, AssetTypes, Stages, GoesOn, Fails, databaseVars, fileVars
    <3>3. Checksums'
      BY <2>1, <2>4 DEF GetReport, AssetTypes, Checksums, GoesOn, Fails, databaseVars, fileVars
    <3>. QED
      BY <3>1, <3>2, <3>3
  <2>5. CASE StampChecksums
    <3>1. AssetTypes'
      BY <2>1, <2>5 DEF StampChecksums, AssetTypes, GoesOn, Fails, databaseVars, fileVars
    <3>2. Stages'
      BY <2>1, <2>5 DEF StampChecksums, AssetTypes, Stages, GoesOn, Fails, databaseVars, fileVars
    <3>3. stamped' => conf.checksums /\ ~hashErrors
      BY <2>5, Zenon DEF StampChecksums
    <3>4. stage' \in {"finalize", "cleanup"}
      BY <2>5 DEF StampChecksums, GoesOn
    <3>5. Checksums'
      BY <2>1, <3>3, <3>4 DEF Checksums
    <3>. QED
      BY <3>1, <3>2, <3>5
  <2>6. CASE Finalize
    <3>1. AssetTypes'
      BY <2>1, <2>6 DEF Finalize, AssetTypes, GoesOn, Fails, databaseVars, fileVars
    <3>2. Stages'
      BY <2>1, <2>6 DEF Finalize, AssetTypes, Stages, GoesOn, Fails, databaseVars, fileVars
    <3>3. Checksums'
      BY <2>1, <2>6 DEF Finalize, AssetTypes, Checksums, GoesOn, Fails, databaseVars, fileVars
    <3>. QED
      BY <3>1, <3>2, <3>3
  <2>7. CASE UploadEnds
    <3>1. AssetTypes'
      BY <2>1, <2>7 DEF UploadEnds, AssetTypes, GoesOn, Fails, databaseVars, fileVars
    <3>2. Stages'
      BY <2>1, <2>7 DEF UploadEnds, AssetTypes, Stages, GoesOn, Fails, databaseVars, fileVars
    <3>3. Checksums'
      BY <2>1, <2>7 DEF UploadEnds, AssetTypes, Checksums, GoesOn, Fails, databaseVars, fileVars
    <3>. QED
      BY <3>1, <3>2, <3>3
  <2>8. CASE Cleanup
    <3>1. AssetTypes'
      BY <2>1, <2>8 DEF Cleanup, AssetTypes, GoesOn, Fails, databaseVars, fileVars
    <3>2. Stages'
      BY <2>1, <2>8 DEF Cleanup, AssetTypes, Stages, GoesOn, Fails, databaseVars, fileVars
    <3>3. Checksums'
      BY <2>1, <2>8 DEF Cleanup, AssetTypes, Checksums, GoesOn, Fails, databaseVars, fileVars
    <3>. QED
      BY <3>1, <3>2, <3>3
  <2>. QED
    BY <1>5, <2>2, <2>3, <2>4, <2>5, <2>6, <2>7, <2>8 DEF QuietStep
<1>6. CASE UNCHANGED assetVars
  BY <1>6 DEF assetVars, AssetTypes, Stages, Checksums, collectorVars, vars, databaseVars, fileVars
<1>. QED
  BY <1>1, <1>2, <1>3, <1>4, <1>5, <1>6 DEF AssetNext, JobStep, QuietStep

\* The database follows the data lake while the executor runs, gets the recorded
\* resources afterwards and is not written again; the report is read from it.
LEMMA StepDatabase ==
  AssetAssumption /\ AssetInv /\ [AssetNext]_assetVars => Database'
<1>. SUFFICES ASSUME AssetAssumption, AssetInv, [AssetNext]_assetVars PROVE Database'
  OBVIOUS
<1>. USE DEF AssetInv, Ahead, Collected, Over
<1>1. CASE Collect(Next)
  <2>1. rows' = RowsOf(store', {}) /\ stage = "execute" /\ stage' = stage /\ report' = report
    BY <1>1 DEF Collect, Write
  <2>2. RowsOf(store', {}) = RowsOf(store, {})'
    BY DEF RowsOf, Rows
  <2>3. DOMAIN report = {}
    BY <2>1 DEF Database
  <2>. QED
    BY <2>1, <2>2, <2>3 DEF Database
<1>2. ASSUME store' = store PROVE \A S : RowsOf(store, S)' = RowsOf(store, S)
  BY <1>2 DEF RowsOf, Rows
<1>3. CASE Resolve
  <2>1. stage = "resolve" /\ report' = report /\ store' = store
    BY <1>3 DEF Resolve, collectorVars, vars
  <2>2. report' = <<>> /\ DOMAIN report' = {}
    BY <2>1 DEF Database
  <2>3. CASE stage' = "execute"
    <3>1. rows' = EmptyRows(Data \cup QrIds)
      BY <1>3, <2>3 DEF Resolve, Fails, Write
    <3>2. rows' = RowsOf(store, {})
      BY <2>1, <3>1, RowsAreRows DEF Stages
    <3>. QED
      BY <1>2, <2>1, <2>2, <2>3, <3>2 DEF Database
  <2>4. CASE stage' = "cleanup" /\ err'
    BY <2>2, <2>4 DEF Database
  <2>. QED
    BY <1>3, <2>3, <2>4 DEF Resolve, GoesOn, Fails
<1>4. CASE StoreResources
  <2>1. stage = "resources" /\ report' = report /\ store' = store
    BY <1>4 DEF StoreResources, collectorVars, vars
  <2>2. report' = <<>> /\ DOMAIN report' = {}
    BY <2>1 DEF Database
  <2>3. CASE stage' = "report"
    <3>1. \E S \in SUBSET Resources : rows' = RowsOf(store, S)
      <4>1. CASE rows' = rows
        BY <2>1, <4>1 DEF Database
      <4>2. CASE Write(RowsOf(store, Resources))
        BY <4>2 DEF Write
      <4>. QED
        BY <1>4, <2>3, <4>1, <4>2 DEF StoreResources, Fails, databaseVars
    <3>. QED
      BY <1>2, <2>1, <2>2, <2>3, <3>1 DEF Database
  <2>4. CASE stage' = "cleanup" /\ err'
    BY <2>2, <2>4 DEF Database
  <2>. QED
    BY <1>4, <2>3, <2>4 DEF StoreResources, GoesOn, Fails
<1>5. CASE Executed
  <2>1. stage = "execute" /\ stage' \in {"resources", "cleanup"} /\ (stage' = "cleanup" => err')
        /\ UNCHANGED <<rows, report, store>>
    BY <1>5 DEF Executed, GoesOn, Fails, collectorVars, vars, databaseVars
  <2>2. rows = RowsOf(store, {})
    BY <2>1 DEF Database
  <2>. QED
    BY <1>2, <2>1, <2>2 DEF Database
<1>6. CASE GetReport
  <2>1. stage = "report" /\ stage' \in {"stamp", "cleanup"} /\ (stage' = "cleanup" => err')
        /\ UNCHANGED <<rows, store>>
        /\ report' \in {<<>>, report, [k \in Data \cup QrIds |-> rows[k]]}
    BY <1>6 DEF GetReport, GoesOn, Fails, collectorVars, vars, databaseVars
  <2>2. \A k \in DOMAIN report' : report'[k] = rows[k]
    BY <2>1 DEF Database
  <2>. QED
    BY <1>2, <2>1, <2>2 DEF Database
<1>7. ASSUME UNCHANGED <<rows, report, store>>,
             \/ stage' = stage /\ err' = err
             \/ stage = "create" /\ (stage' = "resolve" \/ (stage' = "cleanup" /\ err'))
             \/ stage \in {"stamp", "finalize", "upload"} /\ stage' \in {"finalize", "upload", "cleanup"}
             \/ stage = "cleanup" /\ stage' = "ended" /\ err' = err
      PROVE  Database'
  <2>1. ASSUME stage \in Collected \/ (stage \in Over /\ ~err)
        PROVE  \E S \in SUBSET Resources : rows' = RowsOf(store', S)
    BY <1>2, <1>7, <2>1 DEF Database
  <2>2. stage' = "execute" => rows' = RowsOf(store', {})
    BY <1>2, <1>7 DEF Database
  <2>3. stage' \in Ahead \cup {"resources", "report"} => report' = <<>>
    BY <1>7 DEF Database
  <2>4. stage' \in Collected \/ (stage' \in Over /\ ~err') => stage \in Collected \/ (stage \in Over /\ ~err)
    BY <1>7
  <2>. QED
    BY <1>7, <2>1, <2>2, <2>3, <2>4 DEF Database
<1>8. CASE Create
  BY <1>7, <1>8 DEF Create, GoesOn, Fails, collectorVars, vars, databaseVars
<1>9. CASE StampChecksums
  BY <1>7, <1>9 DEF StampChecksums, GoesOn, collectorVars, vars, databaseVars
<1>10. CASE Finalize
  BY <1>7, <1>10 DEF Finalize, GoesOn, Fails, collectorVars, vars, databaseVars, Stages
<1>11. CASE UploadEnds
  BY <1>7, <1>11 DEF UploadEnds, collectorVars, vars, databaseVars, Stages
<1>12. CASE Cleanup
  BY <1>7, <1>12 DEF Cleanup, collectorVars, vars, databaseVars, Stages
<1>13. CASE Upload \/ Cancel \/ UNCHANGED assetVars
  BY <1>7, <1>13 DEF Upload, Cancel, assetVars, collectorVars, vars, databaseVars
<1>. QED
  BY <1>1, <1>3, <1>4, <1>5, <1>6, <1>8, <1>9, <1>10, <1>11, <1>12, <1>13 DEF AssetNext, JobStep

\* What is sent is the sealed file: no step after Finalize writes to it, and an
\* upload that ends without an error is the only way on from there.
LEMMA StepSealed ==
  AssetAssumption /\ AssetInv /\ [AssetNext]_assetVars => Sealed'
<1>. SUFFICES ASSUME AssetAssumption, AssetInv, [AssetNext]_assetVars PROVE Sealed'
  OBVIOUS
<1>. USE DEF AssetInv, Ahead, Collected, Over
<1>1. ASSUME UNCHANGED <<rows, sums, stamped, readOnly>> PROVE ContentsIf(TRUE)' = ContentsIf(TRUE)
  BY <1>1 DEF ContentsIf
<1>2. CASE Collect(Next)
  <2>1. stage = "execute" /\ UNCHANGED <<stage, file, stored, err>>
    BY <1>2 DEF Collect, fileVars, uploadVars
  <2>. QED
    BY <2>1 DEF Sealed
<1>3. CASE Create \/ Resolve \/ Executed \/ StoreResources \/ GetReport \/ StampChecksums
  <2>1. /\ stage \in Ahead \cup {"resources", "report", "stamp"}
        /\ stage' \in Ahead \cup {"resources", "report", "stamp", "finalize", "cleanup"}
        /\ stored' = stored
        /\ conf' = conf
    BY <1>3 DEF Create, Resolve, Executed, StoreResources, GetReport, StampChecksums, GoesOn, Fails, uploadVars
  <2>2. stored' = {}
    BY <2>1 DEF Sealed
  <2>3. stage' = "cleanup" => err' \/ ~conf.upstream
    BY <1>3 DEF Create, Resolve, Executed, StoreResources, GetReport, StampChecksums, GoesOn, Fails
  <2>4. stage' # "cleanup" => file'
    BY <1>3 DEF Create, Resolve, Executed, StoreResources, GetReport, StampChecksums, GoesOn, Fails, fileVars, Sealed
  <2>. QED
    BY <2>1, <2>2, <2>3, <2>4 DEF Sealed
<1>4. CASE Finalize
  <2>1. /\ stage = "finalize" /\ stored' = stored /\ file' = file
        /\ (stage' = "upload" /\ readOnly') \/ (stage' = "cleanup" /\ err')
    BY <1>4 DEF Finalize, GoesOn, Fails, uploadVars
  <2>. QED
    BY <2>1 DEF Sealed
<1>5. CASE Upload
  <2>1. /\ stage = "upload"
        /\ objects' = [s \in stored' |-> IF s \in stored THEN objects[s] ELSE Contents]
        /\ UNCHANGED <<stage, err, rows, sums, stamped, readOnly, file>>
    BY <1>5 DEF Upload, databaseVars, fileVars
  <2>2. file = TRUE /\ readOnly
    BY <2>1 DEF Sealed, AssetTypes
  <2>3. Contents = ContentsIf(TRUE)
    BY <2>2 DEF Contents
  <2>4. ContentsIf(TRUE)' = ContentsIf(TRUE)
    BY <1>1, <2>1
  <2>5. ASSUME NEW s \in stored' PROVE objects'[s] = ContentsIf(TRUE)
    BY <2>1, <2>3 DEF Sealed
  <2>. QED
    BY <2>1, <2>2, <2>4, <2>5 DEF Sealed
<1>6. CASE UploadEnds \/ Cleanup
  <2>1. /\ stage \in {"upload", "cleanup"} /\ stage' \in Over
        /\ UNCHANGED <<conf, rows, sums, stamped, readOnly, objects, stored, upload>>
    BY <1>6 DEF UploadEnds, Cleanup, databaseVars, fileVars, uploadVars
  <2>2. ContentsIf(TRUE)' = ContentsIf(TRUE)
    BY <1>1, <2>1
  <2>3. ~err' /\ conf.upstream => upload = "ok"
    BY <1>6 DEF UploadEnds, Cleanup, U!Finished, Sealed
  <2>. QED
    BY <2>1, <2>2, <2>3 DEF Sealed
<1>7. CASE Cancel \/ UNCHANGED assetVars
  <2>1. UNCHANGED <<conf, stage, err, rows, sums, stamped, readOnly, file, objects, stored, upload>>
    BY <1>7 DEF Cancel, U!Cancel, U!client, U!platform, assetVars, databaseVars, fileVars, uploadVars
  <2>2. ContentsIf(TRUE)' = ContentsIf(TRUE)
    BY <1>1, <2>1
  <2>. QED
    BY <2>1, <2>2 DEF Sealed
<1>. QED
  BY <1>2, <1>3, <1>4, <1>5, <1>6, <1>7 DEF AssetNext, JobStep

-----------------------------------------------------------------------------
(* The theorem *)

\* What the invariants of the scan, the collector and the upload say together
\* when the reporter is told.
LEMMA AssetImplies ==
  AssetAssumption /\ CollectorInv /\ UP!UploadSafe /\ AssetInv => AssetDelivered
<1>. SUFFICES ASSUME AssetAssumption, CollectorInv, UP!UploadSafe, AssetInv PROVE AssetDelivered
  OBVIOUS
<1>. USE DEF AssetInv, Collected, Over
<1>1. StampedIsChecksummed
  BY DEF StampedIsChecksummed, Checksums
<1>2. UploadedIsSealed
  BY DEF UploadedIsSealed, Sealed
<1>3. NothingStays
  BY DEF NothingStays, Stages
<1>4. ASSUME outcome = "report" PROVE stage = "ended" /\ ~err
  BY <1>4 DEF Stages
<1>5. ASSUME outcome = "report"
      PROVE  /\ \A d \in Keys(lastData) \ failed : rows[d] = toResult(lastData[d])
             /\ \A q \in Keys(KeptScores(lastScore)) \ failed :
                  rows[q] = <<lastScore[q].type, lastScore[q].value>>
  <2>1. pc = "returned"
    BY <1>4, <1>5 DEF Stages, CollectorInv, Control
  <2>2. NothingLeftBehind
    BY CollectorImplies DEF CollectorComplete, AssetAssumption
  <2>3. PICK S \in SUBSET Resources : rows = RowsOf(store, S)
    BY <1>4, <1>5 DEF Database
  <2>4. Data \cap QrIds = {}
    BY DEF AssetAssumption
  <2>5. ASSUME NEW d \in Keys(lastData) \ failed PROVE rows[d] = toResult(lastData[d])
    <3>1. d \in Data
      BY DEF Keys, CollectorInv, Types
    <3>2. rows[d] = store.data[d]
      BY <2>3, <3>1 DEF RowsOf, Rows
    <3>. QED
      BY <2>1, <2>2, <3>2 DEF NothingLeftBehind
  <2>6. ASSUME NEW q \in Keys(KeptScores(lastScore)) \ failed
        PROVE  rows[q] = <<lastScore[q].type, lastScore[q].value>>
    <3>1. q \in QrIds
      BY DEF Keys, KeptScores
    <3>2. rows[q] = <<store.score[q].type, store.score[q].value>>
      BY <2>3, <2>4, <3>1 DEF RowsOf, Rows
    <3>. QED
      BY <2>1, <2>2, <3>2 DEF NothingLeftBehind
  <2>. QED
    BY <2>5, <2>6
<1>6. ASSUME outcome = "report", conf.upstream
      PROVE  sessionID \in completed /\ objects[sessionID].rows = rows
  <2>1. upload = "ok"
    BY <1>4, <1>6 DEF Sealed
  <2>2. sessionID \in completed /\ sessionID \in stored
    BY <2>1 DEF UP!UploadSafe, UP!SuccessIsComplete, UP!CompletedHasObject
  <2>. QED
    BY <2>2 DEF Sealed, ContentsIf
<1>7. \A k \in DOMAIN report : report[k] = rows[k]
  BY DEF Database
<1>8. ReportedIsDelivered
  BY <1>5, <1>6, <1>7 DEF ReportedIsDelivered
<1>. QED
  BY <1>1, <1>2, <1>3, <1>8 DEF AssetDelivered

\* A file that announces its checksums has them all and they are right; what is
\* in the bucket is the sealed file; an asset is reported as scanned only when
\* the last results and scores are in the database, and on the platform under a
\* complete session; and nothing stays behind on disk (RunAssetJob,
\* WithServices).
THEOREM AssetIsDelivered == AssetAssumption => (AssetSpec => []AssetDelivered)
<1>. SUFFICES ASSUME AssetAssumption PROVE AssetSpec => []AssetDelivered
  OBVIOUS
<1>1. AssetSpec => []CollectorInv
  BY CollectorInvariant, AssetCollects DEF AssetAssumption
<1>2. AssetSpec => []UP!UploadSafe
  BY UP!UploadKeepsPromises, AssetUploads DEF AssetAssumption
<1>3. AssetInit => AssetInv
  BY AssetStarts
<1>4. CollectorInv /\ AssetInv /\ [AssetNext]_assetVars => AssetInv'
  <2>1. CollectorInv => Control
    BY DEF CollectorInv
  <2>. QED
    BY <2>1, StepStages, StepDatabase, StepSealed DEF AssetInv
<1>5. CollectorInv /\ UP!UploadSafe /\ AssetInv => AssetDelivered
  BY AssetImplies
<1>. QED
  BY <1>1, <1>2, <1>3, <1>4, <1>5, PTL DEF AssetSpec
=============================================================================
