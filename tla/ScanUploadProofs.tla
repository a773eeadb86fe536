-------------------------- MODULE ScanUploadProofs --------------------------
(***************************************************************************)
(* Proofs about ScanUpload, for every number of attempts and both clients. *)
(***************************************************************************)
EXTENDS ScanUpload, TLAPS

\* what the client knows at each point of the handshake: at most one session
\* per attempt was opened, the session in use is the newest one, and the one
\* that will be reported has its object
Handshake ==
  /\ issued <= attempts
  /\ pc = "url" => issued < attempts
  /\ pc = "backoff" => attempts < Attempts
  /\ pc = "reportBackoff" => reports < Attempts
  /\ pc = "put" => urlSession \in Sessions /\ (flow = "scan" => sessionID = urlSession)
  /\ pc \in {"report", "reportBackoff", "ok"} => sessionID \in stored
  /\ pc \in {"report", "reportBackoff"} => reports >= 1

\* what was reported, and why
Reported ==
  /\ ~Finished => sent = "none" /\ ~permanent
  /\ pc = "failed" => sent = FailureReport
  /\ pc = "ok" => sent = CompletionReport /\ sessionID \in completed /\ ~permanent
  /\ attempts > 1 \/ pc = "backoff" => truth # NoFailure /\ (flow = "scan" => last # NoFailure)

UploadInv == TypeOK /\ Handshake /\ Reported /\ CompletedHasObject

\* Records of failures and their updates are failures.
LEMMA FailureRecords ==
  /\ NoFailure \in Failures
  /\ \A k \in {"url", "transport", "report"} : [NoFailure EXCEPT !.kind = k] \in Failures
  /\ \A f \in Failures, k \in {"url", "transport", "report"} : [f EXCEPT !.kind = k] \in Failures
  BY UploadAssumption DEF NoFailure, Failures

\* A failure that is described is not the empty one.
LEMMA FailuresDiffer ==
  /\ \A k \in {"url", "transport", "report"} : [NoFailure EXCEPT !.kind = k] # NoFailure
  /\ \A f \in Failures, k \in {"url", "transport", "report"} : [f EXCEPT !.kind = k] # NoFailure
<1>1. ASSUME NEW f \in Failures, NEW k \in {"url", "transport", "report"} PROVE [f EXCEPT !.kind = k] # NoFailure
  <2>1. [f EXCEPT !.kind = k].kind = k
    BY DEF Failures
  <2>2. NoFailure.kind = "none"
    BY DEF NoFailure
  <2>. QED
    BY <2>1, <2>2
<1>. QED
  BY <1>1, FailureRecords

\* The type invariant, the handshake and the reports hold at the start.
LEMMA UploadInit == Init => UploadInv
<1>. SUFFICES ASSUME Init PROVE UploadInv
  OBVIOUS
<1>1. TypeOK
  <2>1. cancelled \in BOOLEAN /\ permanent \in BOOLEAN
    BY DEF Init
  <2>2. stored \subseteq Sessions /\ completed \subseteq Sessions
    BY DEF Init
  <2>. QED
    BY UploadAssumption, FailureRecords, <2>1, <2>2 DEF Init, TypeOK
<1>2. Handshake /\ CompletedHasObject
  BY UploadAssumption DEF Init, Handshake, CompletedHasObject
<1>3. Reported
  BY DEF Init, Reported, Finished, FailureReport, CompletionReport
<1>. QED
  BY <1>1, <1>2, <1>3 DEF UploadInv

USE UploadAssumption DEF Sessions

\* A step of the client keeps the types.
LEMMA UploadTypes == UploadInv /\ [Next]_vars => TypeOK'
<1>. SUFFICES ASSUME UploadInv, [Next]_vars PROVE TypeOK'
  OBVIOUS
<1>. USE DEF UploadInv, TypeOK, Handshake, FailureReport, CompletionReport, AttemptFails, Again, platform
<1>1. ASSUME NEW retryable \in BOOLEAN, NEW opened \in BOOLEAN, GetUploadURLFails(retryable, opened) PROVE TypeOK'
  <2>1. last' \in Failures /\ truth' \in Failures
    BY <1>1, FailureRecords DEF GetUploadURLFails
  <2>2. issued' \in 0 .. Attempts
    BY <1>1 DEF GetUploadURLFails
  <2>. QED
    BY <1>1, <2>1, <2>2 DEF GetUploadURLFails
<1>2. CASE GetUploadURLNil
  <2>1. last' \in Failures /\ truth' \in Failures
    BY <1>2, FailureRecords DEF GetUploadURLNil
  <2>2. issued' \in 0 .. Attempts
    BY <1>2 DEF GetUploadURLNil
  <2>. QED
    BY <1>2, <2>1, <2>2 DEF GetUploadURLNil
<1>3. CASE GetUploadURL
  BY <1>3 DEF GetUploadURL
<1>4. CASE Put
  BY <1>4 DEF Put
<1>5. ASSUME NEW arrived \in BOOLEAN, PutBreaks(arrived) PROVE TypeOK'
  <2>1. truth' \in Failures
    BY <1>5 DEF PutBreaks, Failures
  <2>2. last' \in Failures
    BY <1>5 DEF PutBreaks, Failures
  <2>3. stored' \subseteq Sessions
    BY <1>5 DEF PutBreaks
  <2>. QED
    BY <1>5, <2>1, <2>2, <2>3 DEF PutBreaks
<1>6. ASSUME NEW code \in {503, 403}, PutStatus(code) PROVE TypeOK'
  BY <1>6 DEF PutStatus, Failures
<1>7. CASE NextAttempt
  BY <1>7 DEF NextAttempt
<1>8. CASE ReportUploadCompleted
  BY <1>8 DEF ReportUploadCompleted
<1>9. ASSUME NEW retryable \in BOOLEAN, NEW taken \in BOOLEAN, ReportFails(retryable, taken) PROVE TypeOK'
  BY <1>9, FailureRecords DEF ReportFails
<1>10. CASE NextReport
  BY <1>10 DEF NextReport
<1>11. CASE Cancelled
  BY <1>11, FailureRecords DEF Cancelled
<1>12. CASE Cancel
  BY <1>12 DEF Cancel, client
<1>13. CASE UNCHANGED vars
  BY <1>13 DEF vars, client
<1>. QED
  BY <1>1, <1>2, <1>3, <1>4, <1>5, <1>6, <1>7, <1>8, <1>9, <1>10, <1>11, <1>12, <1>13 DEF Next, Step

\* A step of the client keeps what it knows about the handshake, and tells the
\* platform only about sessions with an object.
LEMMA UploadHandshake == UploadInv /\ [Next]_vars => Handshake' /\ CompletedHasObject'
<1>. SUFFICES ASSUME UploadInv, [Next]_vars PROVE Handshake' /\ CompletedHasObject'
  OBVIOUS
<1>. USE DEF UploadInv, TypeOK, Handshake, CompletedHasObject, AttemptFails, Again, platform
<1>1. ASSUME NEW retryable \in BOOLEAN, NEW opened \in BOOLEAN, GetUploadURLFails(retryable, opened)
      PROVE Handshake' /\ CompletedHasObject'
  BY <1>1 DEF GetUploadURLFails
<1>2. CASE GetUploadURLNil
  BY <1>2 DEF GetUploadURLNil
<1>3. CASE GetUploadURL
  BY <1>3 DEF GetUploadURL
<1>4. CASE Put
  BY <1>4 DEF Put
<1>5. ASSUME NEW arrived \in BOOLEAN, PutBreaks(arrived) PROVE Handshake' /\ CompletedHasObject'
  BY <1>5 DEF PutBreaks
<1>6. ASSUME NEW code \in {503, 403}, PutStatus(code) PROVE Handshake' /\ CompletedHasObject'
  BY <1>6 DEF PutStatus
<1>7. CASE NextAttempt
  BY <1>7 DEF NextAttempt
<1>8. CASE ReportUploadCompleted
  BY <1>8 DEF ReportUploadCompleted
<1>9. ASSUME NEW retryable \in BOOLEAN, NEW taken \in BOOLEAN, ReportFails(retryable, taken)
      PROVE Handshake' /\ CompletedHasObject'
  BY <1>9 DEF ReportFails
<1>10. CASE NextReport
  BY <1>10 DEF NextReport
<1>11. CASE Cancelled
  BY <1>11 DEF Cancelled
<1>12. CASE Cancel
  BY <1>12 DEF Cancel, client
<1>13. CASE UNCHANGED vars
  BY <1>13 DEF vars, client
<1>. QED
  BY <1>1, <1>2, <1>3, <1>4, <1>5, <1>6, <1>7, <1>8, <1>9, <1>10, <1>11, <1>12, <1>13 DEF Next, Step

\* A step of the client keeps the reports in step with the outcome.
LEMMA UploadReports == UploadInv /\ [Next]_vars => Reported'
<1>. SUFFICES ASSUME UploadInv, [Next]_vars PROVE Reported'
  OBVIOUS
<1>. USE DEF UploadInv, TypeOK, Handshake, Reported, FailureReport, CompletionReport,
             Finished, AttemptFails, Again, platform
<1>1. ASSUME NEW retryable \in BOOLEAN, NEW opened \in BOOLEAN, GetUploadURLFails(retryable, opened) PROVE Reported'
  BY <1>1, FailuresDiffer DEF GetUploadURLFails
<1>2. CASE GetUploadURLNil
  BY <1>2, FailuresDiffer DEF GetUploadURLNil
<1>3. CASE GetUploadURL
  BY <1>3 DEF GetUploadURL
<1>4. CASE Put
  BY <1>4 DEF Put
<1>5. ASSUME NEW arrived \in BOOLEAN, PutBreaks(arrived) PROVE Reported'
  <2>1. truth' # NoFailure
    BY <1>5 DEF PutBreaks, NoFailure
  <2>2. flow = "scan" => last' # NoFailure
    <3>1. flow = "scan" => last'.kind = "transport"
      BY <1>5 DEF PutBreaks, Failures
    <3>. QED
      BY <3>1 DEF NoFailure
  <2>. QED
    BY <1>5, <2>1, <2>2 DEF PutBreaks
<1>6. ASSUME NEW code \in {503, 403}, PutStatus(code) PROVE Reported'
  BY <1>6 DEF PutStatus, NoFailure
<1>7. CASE NextAttempt
  BY <1>7 DEF NextAttempt
<1>8. CASE ReportUploadCompleted
  BY <1>8 DEF ReportUploadCompleted
<1>9. ASSUME NEW retryable \in BOOLEAN, NEW taken \in BOOLEAN, ReportFails(retryable, taken) PROVE Reported'
  BY <1>9, FailuresDiffer DEF ReportFails
<1>10. CASE NextReport
  BY <1>10 DEF NextReport
<1>11. CASE Cancelled
  BY <1>11, FailuresDiffer DEF Cancelled
<1>12. CASE Cancel
  BY <1>12 DEF Cancel, client
<1>13. CASE UNCHANGED vars
  BY <1>13 DEF vars, client
<1>. QED
  BY <1>1, <1>2, <1>3, <1>4, <1>5, <1>6, <1>7, <1>8, <1>9, <1>10, <1>11, <1>12, <1>13 DEF Next, Step

\* UploadInv is an invariant of every upload.
LEMMA UploadInvariant == Spec => []UploadInv
<1>1. UploadInv /\ [Next]_vars => UploadInv'
  BY UploadTypes, UploadHandshake, UploadReports DEF UploadInv
<1>. QED
  BY UploadInit, <1>1, PTL DEF Spec

\* The types, and with them the limits on attempts and sessions, hold for every
\* upload with doScanUpload and doUpload.
THEOREM UploadTypeCorrect == Spec => []TypeOK
<1>1. UploadInv => TypeOK
  BY DEF UploadInv
<1>. QED
  BY <1>1, UploadInvariant, PTL

\* ReportUploadCompleted never names a session without an object, whatever was
\* lost or repeated.
THEOREM UploadCompletedHasObject == Spec => []CompletedHasObject
<1>1. UploadInv => CompletedHasObject
  BY DEF UploadInv
<1>. QED
  BY <1>1, UploadInvariant, PTL

\* doScanUpload and doUpload return without an error only for an upload that is
\* complete on the platform.
THEOREM UploadSuccessIsComplete == Spec => []SuccessIsComplete
<1>1. UploadInv => SuccessIsComplete
  BY DEF UploadInv, Reported, SuccessIsComplete
<1>. QED
  BY <1>1, UploadInvariant, PTL

\* uploadScanDataStore sends the one report that fits the outcome.
THEOREM UploadOutcomeReported == Spec => []OutcomeReported
<1>1. UploadInv => OutcomeReported
  BY DEF UploadInv, TypeOK, Reported, OutcomeReported, Finished, FailureReport, CompletionReport
<1>. QED
  BY <1>1, UploadInvariant, PTL

\* An upload keeps all its promises in every state.
THEOREM UploadKeepsPromises == Spec => []UploadSafe
<1>1. TypeOK /\ CompletedHasObject /\ SuccessIsComplete /\ OutcomeReported <=> UploadSafe
  BY DEF UploadSafe
<1>. QED
  BY <1>1, UploadTypeCorrect, UploadCompletedHasObject, UploadSuccessIsComplete, UploadOutcomeReported, PTL

\* Nothing is sent after a failure that is not worth repeating.
THEOREM UploadPermanentFailsFast == Spec => PermanentFailsFast
<1>1. UploadInv /\ [Next]_vars => [permanent => UNCHANGED <<attempts, reports, platform>>]_vars
  <2>. SUFFICES ASSUME UploadInv, [Next]_vars, permanent PROVE UNCHANGED <<attempts, reports, platform>>
    OBVIOUS
  <2>1. pc = "failed"
    BY DEF UploadInv, TypeOK, Reported, Finished
  <2>. QED
    BY <2>1 DEF Next, Step, vars, client, platform, GetUploadURLFails, GetUploadURLNil, GetUploadURL, Put, PutBreaks,
                PutStatus, NextAttempt, ReportUploadCompleted, ReportFails, NextReport, Cancelled, Cancel
<1>. QED
  BY <1>1, UploadInvariant, PTL DEF Spec, PermanentFailsFast
=============================================================================
