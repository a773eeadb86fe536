----------------------------- MODULE MCResults ------------------------------
(***************************************************************************)
(* What goes on around the execution of a scan, for TLC: the daemon that    *)
(* starts it, the collector that hands its results to the policy service,   *)
(* the risk scores it writes beside them, the upload of the scan database   *)
(* and of findings, the list on the terminal and the resource usage that is *)
(* recorded with an asset.  They hand over data and share no state, so that *)
(* each is checked on its own: part says which of them moves in a           *)
(* behaviour.  The scan of an asset is one of the parts; in it the          *)
(* collector, the database and the upload work together.                    *)
(***************************************************************************)
EXTENDS ScanUpload, Sequences, TLC

CONSTANTS
  None, absent,
  d1, d2, v1, big, odd, removed,  \* datapoints; a plain, a large and a mistyped result
  check, risk, both, rf,          \* a check, the check of a risk factor, one that is both
  a1, a2,                         \* assets
  res                             \* a recorded resource

VARIABLES
  part,
  now, sinks, executor, results, scores, loop, done, batch, windows, risksIdx,
  store, server, lastData, lastScore, wasRisk, failed,
  conf, stage, err, rows, sums, hashErrors, stamped, readOnly, file, objects, report, outcome,
  scored, detected, used, pending, assetRisks, risks, score, adjust,
  scan, sending, tasks, state, peakInProgress, drawn,
  cpu, bytes, tracker, observer, sample, recorded, stop, stopped, first, newest, largest,
  system, timer, request, shutdown, worker, main, startup, ticked, pinger, quit, late

-----------------------------------------------------------------------------
(* The collector *)

Score(t, v, c) == [type |-> t, value |-> v, completion |-> c]
PassFail == {Score("result", 100, 100), Score("result", 0, 100)}
RisksOf(ids) == [q \in ids |-> IF q \in {risk, both} THEN {rf} ELSE {}]

\* results that are too large or have another type, and a database and a
\* server that may fail
Flush ==
  INSTANCE BufferedCollector
    WITH pc <- loop, Data <- {d1, d2}, Values <- {v1, big, odd}, Removed <- removed,
         TooLarge <- {big}, Mistyped <- {odd}, Unknown <- {}, QrIds <- {check}, Scores <- PassFail,
         RiskMRNs <- RisksOf({check}), Risks <- {rf}, keepQrIds <- {}, MaxSinks <- 2, MaxTime <- 2,
         MayFail <- TRUE

\* scores of risk factors, and a datapoint nobody collects
Detect ==
  INSTANCE BufferedCollector
    WITH pc <- loop, Data <- {d1, d2}, Values <- {v1}, Removed <- removed, TooLarge <- {},
         Mistyped <- {}, Unknown <- {d2}, QrIds <- {check, risk, both}, Scores <- PassFail,
         RiskMRNs <- RisksOf({check, risk, both}), Risks <- {rf}, keepQrIds <- {both}, MaxSinks <- 3,
         MaxTime <- 1, MayFail <- FALSE

\* the collector with a database and an upload: a result that cannot be
\* hashed and a recorded resource; every call of the scan may fail but for
\* the collector's, whose failures part "flush" has
Conf(upstream, keep, checksums) ==
  [upstream |-> upstream, keep |-> keep, checksums |-> checksums]
Asset ==
  INSTANCE AssetScan
    WITH pc <- loop, upload <- pc, Data <- {d1}, Values <- {v1, odd}, Removed <- removed,
         TooLarge <- {}, Mistyped <- {}, Unknown <- {}, QrIds <- {check}, Scores <- PassFail,
         RiskMRNs <- RisksOf({check}), Risks <- {}, keepQrIds <- {}, MaxSinks <- 2, MaxTime <- 1,
         MayFail <- FALSE, Attempts <- 2, Resources <- {res}, Unhashable <- {odd}, Absent <- absent,
         Configurations <- {Conf(TRUE, FALSE, TRUE), Conf(FALSE, TRUE, TRUE),
                            Conf(FALSE, FALSE, FALSE)}

-----------------------------------------------------------------------------
(* Risk scores *)

Risk(mrn, magnitude, toxic, scope, resources) ==
  [mrn |-> mrn, magnitude |-> magnitude, toxic |-> toxic, scope |-> scope, resources |-> resources]

\* mitigations, aggravations and toxic ones of both scopes, two of them with
\* the same magnitude, and one that is about software only
Factors ==
  {Risk(1, 4, FALSE, "asset", {}), Risk(2, -3, FALSE, "resource", {"sshd"}),
   Risk(3, 4, FALSE, "resource", {"sshd"}), Risk(4, 5, TRUE, "asset", {}),
   Risk(5, -5, TRUE, "resource", {"sshd"}), Risk(6, -8, FALSE, "asset", {}),
   Risk(7, 8, FALSE, "software", {})}

Adjust == INSTANCE RiskScores
            WITH pc <- adjust, RiskFactors <- Factors, Resources <- {"sshd", "file"},
                 Values <- {0, 50, 99, 100}

-----------------------------------------------------------------------------
(* The list, the tracker and the daemon *)

List    == INSTANCE TodoList WITH Assets <- {a1, a2}, MinVisibleSlots <- 1
Tracker == INSTANCE ResourceTracker
             WITH pc <- observer, Assets <- {a1}, MaxCPU <- 1, MaxBytes <- 1
Daemon  == INSTANCE ServeDaemon

ASSUME ResultsAssumption ==
  /\ Flush!CollectorAssumption
  /\ Detect!CollectorAssumption
  /\ Asset!AssetAssumption
  /\ Adjust!RiskAssumption
  /\ List!ListAssumption
  /\ Tracker!TrackerAssumption

-----------------------------------------------------------------------------
uploadVars    == vars
collectorVars == <<now, sinks, executor, results, scores, loop, done, batch, windows, risksIdx,
                   store, server, lastData, lastScore, wasRisk, failed>>
assetVars     == <<conf, stage, err, rows, sums, hashErrors, stamped, readOnly, file, objects,
                   report, outcome>>
riskVars      == <<scored, detected, used, pending, assetRisks, risks, score, adjust>>
listVars      == <<scan, sending, tasks, state, peakInProgress, drawn>>
trackerVars   == <<cpu, bytes, tracker, observer, sample, recorded, stop, stopped, first, newest, largest>>
daemonVars    == <<system, timer, request, shutdown, worker, main, startup, ticked, pinger, quit, late>>

\* outside of its part there is no risk factor
NoRisk == scored = {} /\ detected = {} /\ used = {} /\ pending = {} /\ assetRisks = {}
            /\ risks = {} /\ adjust = "index" /\ score = [value |-> 0, riskScore |-> 0, factors |-> <<>>]

ResultsInit ==
  /\ part \in {"flush", "detect", "asset", "adjust", "upload", "list", "tracker", "serve"}
  /\ Init
  /\ part # "upload" => flow = "scan"
  /\ CASE part = "detect" -> Detect!Init
       [] part = "asset"  -> Asset!Init
       [] OTHER           -> Flush!Init
  /\ Asset!ScanInit
  /\ part # "asset" => conf = Conf(FALSE, FALSE, FALSE)
  /\ IF part = "adjust" THEN Adjust!Init ELSE NoRisk
  /\ List!Init
  /\ Tracker!Init
  /\ part # "tracker" => bytes = 0
  /\ Daemon!Init
  /\ part # "serve" => system = "unix" /\ pinger = "none"

ResultsNext ==
  \/ /\ part = "upload" /\ Next
     /\ UNCHANGED <<part, collectorVars, assetVars, riskVars, listVars, trackerVars, daemonVars>>
  \/ /\ \/ part = "flush" /\ Flush!Next
        \/ part = "detect" /\ Detect!Next
     /\ UNCHANGED <<part, uploadVars, assetVars, riskVars, listVars, trackerVars, daemonVars>>
  \/ /\ part = "asset" /\ Asset!AssetNext
     /\ UNCHANGED <<part, riskVars, listVars, trackerVars, daemonVars>>
  \/ /\ part = "adjust" /\ Adjust!Next
     /\ UNCHANGED <<part, uploadVars, collectorVars, assetVars, listVars, trackerVars, daemonVars>>
  \/ /\ part = "list" /\ List!Next
     /\ UNCHANGED <<part, uploadVars, collectorVars, assetVars, riskVars, trackerVars, daemonVars>>
  \/ /\ part = "tracker" /\ Tracker!Next
     /\ UNCHANGED <<part, uploadVars, collectorVars, assetVars, riskVars, listVars, daemonVars>>
  \/ /\ part = "serve" /\ Daemon!Next
     /\ UNCHANGED <<part, uploadVars, collectorVars, assetVars, riskVars, listVars, trackerVars>>

resultsVars == <<part, uploadVars, collectorVars, assetVars, riskVars, listVars, trackerVars, daemonVars>>

others == <<part, riskVars, listVars, trackerVars, daemonVars>>
scanVars == <<part, uploadVars, collectorVars, assetVars, riskVars, listVars, trackerVars>>

\* The fairness of the upload, of RunAssetJob and of Serve, of the goroutines of
\* the collector and of the daemon, and of their selects, each in their parts:
\* every call has a timeout and every wait an end; the executor returns (its own
\* property Termination); a goroutine is scheduled; a select that finds stopChan
\* or quit closed takes it in the end.
ResultsFairness ==
  /\ WF_resultsVars(\/ part = "upload" /\ Step /\ UNCHANGED <<others, collectorVars, assetVars>>
                    \/ part = "asset" /\ (Asset!JobStep \/ Asset!Executes) /\ UNCHANGED others
                    \/ part = "serve" /\ Daemon!MainStep /\ UNCHANGED scanVars)
  /\ WF_resultsVars(\/ part = "flush" /\ (Flush!Loop \/ Flush!TimerFires \/ Flush!FlushReturns)
                       /\ UNCHANGED <<others, uploadVars, assetVars>>
                    \/ part = "asset" /\ Asset!Collects /\ UNCHANGED others
                    \/ part = "serve" /\ Daemon!WorkerStep /\ UNCHANGED scanVars)
  /\ SF_resultsVars(\/ part = "flush" /\ Flush!StopTaken /\ UNCHANGED <<others, uploadVars, assetVars>>
                    \/ part = "asset" /\ Asset!Collect(Asset!StopTaken) /\ UNCHANGED others
                    \/ part = "serve" /\ Daemon!TakeQuit /\ UNCHANGED scanVars)
  /\ WF_resultsVars(part = "serve" /\ Daemon!ClockStep /\ UNCHANGED scanVars)
  /\ WF_resultsVars(part = "serve" /\ Daemon!PingerStep /\ UNCHANGED scanVars)

ResultsSpec == ResultsInit /\ [][ResultsNext]_resultsVars /\ ResultsFairness

-----------------------------------------------------------------------------
(* What the modules state of their parts; outside of it nothing moves *)

\* What is started returns.  An upload: with the limit on attempts and a wait
\* that ends when the scan is cancelled nothing is tried forever (doScanUpload,
\* doUpload), and the scan of an asset ends with it (RunAssetJob).  The flush of
\* the collector, whatever fails on the way (FlushAndStop).  And the daemon when
\* it is asked to stop, whatever runs at that moment (Serve).
CallsReturn ==
  (CASE part = "flush" -> executor = "flushing"
     [] part = "serve" -> request
     [] OTHER          -> part \in {"upload", "asset"})
    ~> (CASE part = "upload" -> Finished
          [] part = "asset"  -> Asset!Ended
          [] part = "flush"  -> executor = "returned"
          [] OTHER           -> main = "returned")

\* The scan of an asset keeps its promises, whatever fails on the way: an
\* announced file is checksummed in full, what was uploaded is the sealed
\* file, a scan that is reported was delivered with the last of all results,
\* and no database stays behind (RunAssetJob, WithServices).
AssetDelivered == part = "asset" => Asset!AssetDelivered

\* When the flush returned, everything the executor sank went out, unless the
\* request that carried it failed; nothing is sent after the last batch; and a
\* risk is reported as its scores over all drains decide (collector.go run).
CollectorComplete ==
  CASE part = "detect" -> Detect!CollectorComplete
    [] part = "asset"  -> Asset!CollectorComplete
    [] OTHER           -> Flush!CollectorComplete

\* The risk score of a check is the one its risk factors give in the order of
\* the table, stays a score, and is below the value of the check only because
\* of a toxic one (updateRiskScores).
RisksApplied ==
  /\ Adjust!AppliedInTableOrder
  /\ Adjust!RiskScoreInRange
  /\ Adjust!OnlyToxicLowers

\* A task is listed once, every scan is counted with its outcome, which stays,
\* and a running task has a row whenever the list is drawn (Update, View).
ListTruthful ==
  /\ [](List!TypeOK /\ List!EveryScanCounted)
  /\ List!OutcomeStays
  /\ List!RunningIsVisible

\* The peak, the CPU usage and what an asset records are right in whatever order
\* the samples were applied, and nobody samples after Stop returned.
UsageMeasured == Tracker!UsageMeasured

\* The daemon starts at most one scan after it was asked to stop, ends no check-in
\* of the pinger and, on Unix, no scan, and until it is asked to stop goes on
\* scanning, also after a scan that failed or took longer than the interval
\* (Serve of serve_unix.go, Execute of serve_windows.go, checkinPinger).
DaemonServes == part = "serve" => []Daemon!OrderlyEnd /\ Daemon!KeepsScanning
=============================================================================
