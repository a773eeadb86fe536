----------------------------- MODULE ScanUpload -----------------------------
(***************************************************************************)
(* The signed-URL upload handshake: request a URL, PUT the payload, report *)
(* completion.  Two clients run it: doScanUpload for a scan database       *)
(* (internal/datalakes/sqlite/upload_retry.go, called by                   *)
(* uploadScanDataStore in sqlite.go) and doUpload for findings             *)
(* (upload/findings.go); flow says which one.                              *)
(*                                                                         *)
(* Requests and replies can be lost: a call the client saw fail may have   *)
(* taken effect.  The retry loop (upstream.WithRetry and RetryRPC, a       *)
(* library) makes at most Attempts attempts, ends on a failure that is not *)
(* worth repeating, and ends when the context is cancelled.  The URL       *)
(* service opens a new session for each request; the URL of a session is   *)
(* only good for the attempt it was requested for.                         *)
(***************************************************************************)
EXTENDS Integers, FiniteSets

CONSTANT
  Attempts    \* upstream.DefaultRetryAttempts

ASSUME UploadAssumption == Attempts \in Nat \ {0}

VARIABLES
  flow,        \* the client: "scan" or "findings"
  pc,          \* where it is: url, put, backoff, report, reportBackoff, ok, failed
  attempts,    \* out.attempts
  reports,     \* the attempts of RetryRPC
  urlSession,  \* the session of the reply that is being used
  sessionID,   \* out.sessionID; 0 for the empty string
  last,        \* [kind, status, body, res]: the out.last* fields
  truth,       \* the same for the failure that happened last
  permanent,   \* whether a failure that is not worth repeating has happened
  cancelled,   \* the context
  sent,        \* the reportKind of the client report, or "none"
  issued,      \* platform: the sessions that were opened
  stored,      \* storage: the sessions whose object arrived
  completed    \* platform: the sessions reported as complete

client   == <<pc, attempts, reports, urlSession, sessionID, last, truth, permanent, sent>>
platform == <<issued, stored, completed>>
vars     == <<flow, client, cancelled, platform>>

NoFailure == [kind |-> "none", status |-> 0, body |-> 0, res |-> 0]
Failures  == [kind : {"none", "url", "transport", "status", "report"},
              status : {0, 503, 403}, body : {0, 503, 403}, res : 0 .. Attempts]
Sessions  == 1 .. Attempts

Init ==
  /\ flow \in {"scan", "findings"}
  /\ pc = "url"
  /\ attempts = 1
  /\ reports = 0
  /\ urlSession = 0
  /\ sessionID = 0
  /\ last = NoFailure
  /\ truth = NoFailure
  /\ permanent = FALSE
  /\ cancelled = FALSE
  /\ sent = "none"
  /\ issued = 0
  /\ stored = {}
  /\ completed = {}

\* Faulty variant: one attempt too many
AgainOneMore(retryable, made) == retryable /\ made <= Attempts

\* Faulty variant: every failure is worth another attempt
AgainAny(retryable, made) == made < Attempts

\* upstream.WithRetry: whether the attempt that failed is followed by another
Again(retryable, made) == retryable /\ made < Attempts

\* uploadScanDataStore: a failed upload of a scan is reported once
FailureReport == IF flow = "scan" THEN "upload_failure" ELSE "none"

\* WithRetry after a failed attempt: wait for the next one or give up
AttemptFails(retryable) ==
  /\ permanent' = ~retryable
  /\ IF Again(retryable, attempts)
       THEN pc' = "backoff" /\ sent' = sent
       ELSE pc' = "failed" /\ sent' = FailureReport

\* a call that failed may have taken effect when its reply was lost, or when
\* the context ended it; a refusal has none
MayTakeEffect(retryable) == retryable \/ cancelled

\* GetUploadURL fails; the platform may have opened the session all the same
GetUploadURLFails(retryable, opened) ==
  /\ pc = "url"
  /\ opened => MayTakeEffect(retryable)
  /\ issued' = IF opened THEN issued + 1 ELSE issued
  /\ truth' = [NoFailure EXCEPT !.kind = "url"]
  /\ last' = IF flow = "scan" THEN [last EXCEPT !.kind = "url"] ELSE last
  /\ AttemptFails(retryable)
  /\ UNCHANGED <<flow, attempts, reports, urlSession, sessionID, cancelled, stored, completed>>

\* GetUploadURL answers without a URL: a scan ends, for findings the PUT to
\* the empty URL fails in the client, which is worth another attempt
GetUploadURLNil ==
  /\ pc = "url"
  /\ issued' = issued + 1
  /\ IF flow = "scan"
       THEN /\ sessionID' = issued'
            /\ truth' = [NoFailure EXCEPT !.kind = "url"]
            /\ last' = [last EXCEPT !.kind = "url"]
            /\ AttemptFails(FALSE)
       ELSE /\ truth' = [NoFailure EXCEPT !.kind = "transport"]
            /\ AttemptFails(TRUE)
            /\ UNCHANGED <<sessionID, last>>
  /\ UNCHANGED <<flow, attempts, reports, urlSession, cancelled, stored, completed>>

\* Faulty variant: the session of the first reply is kept
GetUploadURLFirst ==
  /\ pc = "url"
  /\ issued' = issued + 1
  /\ urlSession' = issued'
  /\ sessionID' = IF sessionID = 0 THEN issued' ELSE sessionID
  /\ pc' = "put"
  /\ UNCHANGED <<flow, attempts, reports, last, truth, permanent, sent, cancelled, stored, completed>>

\* GetUploadURL answers; a scan remembers the session at once
GetUploadURL ==
  /\ pc = "url"
  /\ issued' = issued + 1
  /\ urlSession' = issued'
  /\ sessionID' = IF flow = "scan" THEN issued' ELSE sessionID
  /\ pc' = "put"
  /\ UNCHANGED <<flow, attempts, reports, last, truth, permanent, sent, cancelled, stored, completed>>

\* UploadFile succeeds with 200 or 201
Put ==
  /\ pc = "put"
  /\ stored' = stored \cup {urlSession}
  /\ sessionID' = IF flow = "findings" THEN urlSession ELSE sessionID
  /\ reports' = 1
  /\ pc' = "report"
  /\ UNCHANGED <<flow, attempts, urlSession, last, truth, permanent, sent, cancelled, issued, completed>>

\* the connection breaks, before or after the object was stored: retried
PutBreaks(arrived) ==
  /\ pc = "put"
  /\ stored' = IF arrived THEN stored \cup {urlSession} ELSE stored
  /\ truth' = [kind |-> "transport", status |-> 0, body |-> 0, res |-> attempts]
  /\ last' = IF flow = "scan"
               THEN [kind |-> "transport", status |-> 0, body |-> last.body, res |-> attempts]
               ELSE last
  /\ AttemptFails(TRUE)
  /\ UNCHANGED <<flow, attempts, reports, urlSession, sessionID, cancelled, issued, completed>>

\* storage answers with another status: 503 is worth another attempt, 403 not
PutStatus(code) ==
  /\ pc = "put"
  /\ truth' = [kind |-> "status", status |-> code, body |-> code, res |-> attempts]
  /\ last' = IF flow = "scan" THEN truth' ELSE last
  /\ AttemptFails(code = 503)
  /\ UNCHANGED <<flow, attempts, reports, urlSession, sessionID, cancelled, platform>>

\* WithRetry starts the next attempt: the URL is requested again
NextAttempt ==
  /\ pc = "backoff"
  /\ ~cancelled
  /\ attempts' = attempts + 1
  /\ pc' = "url"
  /\ UNCHANGED <<flow, reports, urlSession, sessionID, last, truth, permanent, sent, cancelled, platform>>

\* Faulty variant: the first attempt counts as a recovery
CompletionReportAlways == IF flow = "scan" /\ attempts >= 1 THEN "upload_recovered" ELSE "none"

\* uploadScanDataStore: recovered() of an upload that succeeded
CompletionReport == IF flow = "scan" /\ attempts > 1 THEN "upload_recovered" ELSE "none"

\* ReportUploadCompleted succeeds
ReportUploadCompleted ==
  /\ pc = "report"
  /\ completed' = completed \cup {sessionID}
  /\ pc' = "ok"
  /\ sent' = CompletionReport
  /\ UNCHANGED <<flow, attempts, reports, urlSession, sessionID, last, truth, permanent, cancelled, issued, stored>>

\* Faulty variant: the object is stored, so a failed report is good enough
ReportFailsIgnored(retryable, taken) ==
  /\ pc = "report"
  /\ completed' = IF taken THEN completed \cup {sessionID} ELSE completed
  /\ truth' = [NoFailure EXCEPT !.kind = "report"]
  /\ permanent' = ~retryable
  /\ pc' = IF Again(retryable, reports) THEN "reportBackoff" ELSE "ok"
  /\ UNCHANGED <<flow, attempts, reports, urlSession, sessionID, last, sent, cancelled, issued, stored>>

\* the report fails; the platform may have taken it all the same
ReportFails(retryable, taken) ==
  /\ pc = "report"
  /\ taken => MayTakeEffect(retryable)
  /\ completed' = IF taken THEN completed \cup {sessionID} ELSE completed
  /\ truth' = [NoFailure EXCEPT !.kind = "report"]
  /\ permanent' = ~retryable
  /\ IF Again(retryable, reports)
       THEN pc' = "reportBackoff" /\ UNCHANGED <<sent, last>>
       ELSE /\ pc' = "failed"
            /\ sent' = FailureReport
            /\ last' = IF flow = "scan" THEN [last EXCEPT !.kind = "report"] ELSE last
  /\ UNCHANGED <<flow, attempts, reports, urlSession, sessionID, cancelled, issued, stored>>

\* RetryRPC starts the next attempt
NextReport ==
  /\ pc = "reportBackoff"
  /\ ~cancelled
  /\ reports' = reports + 1
  /\ pc' = "report"
  /\ UNCHANGED <<flow, attempts, urlSession, sessionID, last, truth, permanent, sent, cancelled, platform>>

\* the scan is cancelled
Cancel ==
  /\ ~cancelled
  /\ cancelled' = TRUE
  /\ UNCHANGED <<flow, client, platform>>

\* Faulty variant: the wait goes on
CancelledNever == FALSE /\ UNCHANGED vars

\* the retry loop ends its wait with the error of the context
Cancelled ==
  /\ cancelled
  /\ pc \in {"backoff", "reportBackoff"}
  /\ pc' = "failed"
  /\ sent' = FailureReport
  /\ last' = IF flow = "scan" /\ pc = "reportBackoff" THEN [last EXCEPT !.kind = "report"] ELSE last
  /\ UNCHANGED <<flow, attempts, reports, urlSession, sessionID, truth, permanent, cancelled, platform>>

Finished == pc \in {"ok", "failed"}

Step ==
  \/ \E retryable, opened \in BOOLEAN : GetUploadURLFails(retryable, opened)
  \/ GetUploadURLNil
  \/ GetUploadURL
  \/ Put
  \/ \E arrived \in BOOLEAN : PutBreaks(arrived)
  \/ \E code \in {503, 403} : PutStatus(code)
  \/ NextAttempt
  \/ ReportUploadCompleted
  \/ \E retryable, taken \in BOOLEAN : ReportFails(retryable, taken)
  \/ NextReport
  \/ Cancelled

Next == Step \/ Cancel

Spec == Init /\ [][Next]_vars

-----------------------------------------------------------------------------
(* Properties *)

\* The counters and sessions stay within the retry budget: no attempt after
\* the last one, no session that no attempt asked for.
TypeOK ==
  /\ flow \in {"scan", "findings"}
  /\ pc \in {"url", "put", "backoff", "report", "reportBackoff", "ok", "failed"}
  /\ attempts \in 1 .. Attempts
  /\ reports \in 0 .. Attempts
  /\ urlSession \in 0 .. Attempts
  /\ sessionID \in 0 .. Attempts
  /\ last \in Failures
  /\ truth \in Failures
  /\ permanent \in BOOLEAN
  /\ cancelled \in BOOLEAN
  /\ sent \in {"none", "upload_failure", "upload_recovered"}
  /\ issued \in 0 .. Attempts
  /\ stored \subseteq Sessions
  /\ completed \subseteq Sessions

\* The platform is only ever told that a session is complete when the object
\* of that session is in the bucket, whichever replies were lost on the way.
CompletedHasObject == completed \subseteq stored

\* An upload that returns without an error is complete on the platform, under
\* the session the client names in its log.
SuccessIsComplete == pc = "ok" => sessionID \in completed

\* One client report per upload that was not clean: a failure if and only if
\* the upload returned an error, a recovery if and only if an attempt to store
\* the object failed before one succeeded.
OutcomeReported ==
  flow = "scan" /\ Finished =>
    /\ pc = "failed" <=> sent = "upload_failure"
    /\ pc = "ok" /\ attempts > 1 <=> sent = "upload_recovered"
    /\ sent = "upload_recovered" => truth # NoFailure /\ last # NoFailure

\* What an upload promises in every state, to the platform and to its caller:
\* the invariants above together (doScanUpload, doUpload, uploadScanDataStore).
UploadSafe == TypeOK /\ CompletedHasObject /\ SuccessIsComplete /\ OutcomeReported

\* After a failure that is not worth repeating the client sends nothing more:
\* no URL is requested, nothing is stored and nothing reported.
PermanentFailsFast == [][permanent => UNCHANGED <<attempts, reports, platform>>]_vars
=============================================================================
