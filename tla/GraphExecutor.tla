---------------------------- MODULE GraphExecutor ----------------------------
(***************************************************************************)
(* The concurrent query executor of policy/executor/internal.              *)
(*                                                                         *)
(* Two goroutines share two channels.  The graph loop (Execute, graph.go)  *)
(* pops nodes from a priority queue, recalculates them and hands what they *)
(* emit to the nodes behind their out edges (nodes.go).  The execution     *)
(* manager (execution_manager.go) takes the queries that became runnable   *)
(* from runQueue, runs them, and the callbacks of the query engine put the *)
(* results on resultChan, from goroutines of their own.                    *)
(*                                                                         *)
(* The query engine (mql/llx) is external: it reports every codepoint of a *)
(* running query at most once, in any order, with a result in              *)
(* Outcomes[q]; a query in MayFail may also fail, panic or time out.       *)
(***************************************************************************)
EXTENDS ExecutionGraph, Sequences, Functions

CONSTANTS
    Outcomes,       \* [Queries -> SUBSET Results] what a running query reports
    MayFail,        \* queries whose run may fail, panic or time out
    ResultCap       \* capacity of resultChan (128 in the code)

ASSUME ExecutorAssumption ==
    /\ Outcomes \in [Queries -> SUBSET (Results \ {"ph"})]
    /\ MayFail \subseteq Queries
    /\ ResultCap \in Nat \ {0}

VARIABLES
    dpRes, dpInvalidated,                  \* DatapointNodeData
    eqState, eqInvalidated, eqProps,       \* ExecutionQueryNodeData
    rqResults, rqInvalidated,              \* ReportingQueryNodeData
    rjScores, rjData, rjCompleted, rjInvalidated,   \* ReportingJobNodeData
    staticSent,                            \* StaticReportingJobNodeData.sent
    remaining, finInvalidated, doneClosed, \* CollectionFinisherNodeData
    dcUnreported, scUnreported,            \* the two collector nodes
    sunkData, sunkScores,                  \* last values the collectors got
    queue, pc, done, err,                  \* locals of Execute
    emitted,                               \* emissions per node in this round
    runQueue, resultChan, errChan, stopChan,
    emPc, emQuery, emProps, emPending,     \* the execution manager
    inflight                               \* callbacks between Done and send

dpVars  == <<dpRes, dpInvalidated>>
eqVars  == <<eqState, eqInvalidated, eqProps>>
rqVars  == <<rqResults, rqInvalidated>>
rjVars  == <<rjScores, rjData, rjCompleted, rjInvalidated>>
finVars == <<remaining, finInvalidated, doneClosed>>
colVars == <<dcUnreported, scUnreported, sunkData, sunkScores>>
nodeVars == <<dpVars, eqVars, rqVars, rjVars, staticSent, finVars, colVars>>
loopVars == <<queue, pc, done, err, emitted>>
chanVars == <<runQueue, resultChan, errChan, stopChan>>
emVars  == <<emPc, emQuery, emProps, emPending, inflight>>
vars    == <<nodeVars, loopVars, chanVars, emVars>>

(* Faulty variant: a fixed capacity *)
RunQueueCapOne == 1

(* make(chan runQueueItem, len(queries)) *)
RunQueueCap == Cardinality(Queries)

ScoreNodes == {QueryChild(q) : q \in Queries} \union {JobChild(j) : j \in Jobs}

-----------------------------------------------------------------------------
(***************************************************************************)
(* Scores                                                                  *)
(***************************************************************************)

(* ReportingQueryNodeData.score; results maps entrypoints to results *)
QueryScore(results) ==
    LET found == {results[d] : d \in DOMAIN results}
        valid == {"pass", "fail", "score"} \intersect found
        Scored(type, value) == MkScore(type, value, 100, 0, 0, 1)
    IN  CASE None \in found -> NoScore
          [] None \notin found /\ "gone" \in found -> Scored("unscored", 0)
          [] found \intersect {None, "gone"} = {}
             /\ found \intersect Erroneous # {} -> Scored("error", 0)
          [] found \intersect ({None} \union Erroneous) = {} /\ valid = {} ->
               Scored("skip", 0)
          [] OTHER ->
               Scored("result", IF "score" \in found THEN CarriedScore
                                ELSE IF "fail" \in found THEN 0 ELSE 100)

Finished(j) == {d \in JobData[j] : rjData[j][d] # None}

(* The forwarded score of a check, data query or execution query *)
ForwardedScore(j, scores) ==
    LET child == CHOOSE c \in Children(j) : TRUE
        s     == scores[child]
        imp   == ImpactOf(j, child)
        base  == IF Children(j) = {} THEN MkScore("unscored", 0, 100, 0, 0, 0)
                 ELSE IF s = NoScore THEN MkScore("result", 0, 0, 0, 0, 0)
                 ELSE IF imp.scoring = "DISABLED" THEN [s EXCEPT !.type = "disabled"]
                 ELSE IF s.type = "result"
                      THEN [s EXCEPT !.value = ImpactFloor(imp, @)] ELSE s
        total == Cardinality(JobData[j])
    IN  IF total = 0 THEN base
        ELSE [base EXCEPT !.dt = total,
                          !.dc = (100 * Cardinality(Finished(j))) \div total]

(* The score an aggregate (policy, framework, control, risk) calculates *)
AggregateScore(j, scores) ==
    LET AddChild(child, c) ==
            AddSpecdScore(JobSystem[j], FailErrors, c, scores[child],
                          ImpactOf(j, child))
        sum == FoldFunctionOnSet(AddChild, CalcInit(JobSystem[j]),
                                 [c \in Children(j) |-> c], Children(j))
    IN  CASE JobSystem[j] \notin Systems -> MkScore("error", 0, 100, 0, 0, 1)
          [] JobSystem[j] \in Systems /\ \E c \in Children(j) : scores[c] = NoScore ->
               NoScore
          [] OTHER ->
               Calculate(JobSystem[j],
                   AddDataScore(JobSystem[j], sum, Cardinality(JobData[j]),
                                Cardinality(Finished(j))))

(* ReportingJobNodeData.score *)
JobScore(j) == IF forwardScore(j) THEN ForwardedScore(j, rjScores[j])
                                  ELSE AggregateScore(j, rjScores[j])

(***************************************************************************)
(* What ReportingJobNodeData.recalculate emits: nothing before the score   *)
(* is complete, except for the error of an unknown scoring system.         *)
(***************************************************************************)
JobEmits(j) ==
    LET s == JobScore(j)
    IN  IF ~forwardScore(j) /\ JobSystem[j] \notin Systems THEN s
        ELSE IF s # NoScore /\ Completion(s) = 100 THEN s ELSE NoScore

(* A control takes errors as failed results, skipped ones as passed *)
ControlScore(j, s) ==
    CASE JobType[j] = "CONTROL" /\ s.type = "error" ->
           [s EXCEPT !.type = "result", !.value = 0]
      [] JobType[j] = "CONTROL" /\ s.type \in {"skip", "unscored"} ->
           [s EXCEPT !.type = "result", !.value = 100]
      [] OTHER -> s

-----------------------------------------------------------------------------
(***************************************************************************)
(* Initial state: the graph is built and every node initialized.           *)
(***************************************************************************)
Preset(d) == IF d \in PresetDatapoints THEN "err" ELSE None

Init ==
    /\ dpRes = [d \in GraphDatapoints |-> Preset(d)]
    /\ dpInvalidated = [d \in GraphDatapoints |-> Preset(d) # None]
    /\ eqState = [q \in RunnableQueries |->
                    IF RequiredProps[q] = {} THEN "ready" ELSE "notReady"]
    /\ eqInvalidated = [q \in RunnableQueries |-> RequiredProps[q] = {}]
    /\ eqProps = [q \in RunnableQueries |-> [d \in RequiredProps[q] |-> None]]
    /\ rqResults = [q \in GraphQueries |-> [d \in Entrypoints[q] |-> None]]
    /\ rqInvalidated = [q \in GraphQueries |-> Entrypoints[q] = {}]
    /\ rjScores = [j \in Jobs |-> [c \in Children(j) |-> NoScore]]
    /\ rjData = [j \in Jobs |-> [d \in JobData[j] |-> None]]
    /\ rjCompleted = [j \in Jobs |-> FALSE]
    /\ rjInvalidated = [j \in Jobs |-> TRUE]
    /\ staticSent = {}
    /\ remaining = GraphDatapoints
    /\ finInvalidated = (GraphDatapoints = {})
    /\ doneClosed = 0
    /\ dcUnreported = [d \in Datapoints |-> None]
    /\ scUnreported = [n \in ScoreNodes |-> NoScore]
    /\ sunkData = [d \in Datapoints |-> None]
    /\ sunkScores = [n \in ScoreNodes |-> NoScore]
    /\ queue = {<<n, maxPriority>> :
                  n \in IF Rescore THEN {JobChild(j) : j \in StaticJobs} ELSE Nodes}
    /\ pc = "process" /\ done = FALSE /\ err = FALSE
    /\ emitted = [n \in Nodes |-> 0]
    /\ runQueue = <<>> /\ resultChan = <<>> /\ errChan = FALSE /\ stopChan = FALSE
    /\ emPc = IF Rescore THEN "exited" ELSE "check"
    /\ emQuery = None /\ emProps = <<>> /\ emPending = {} /\ inflight = {}

-----------------------------------------------------------------------------
(***************************************************************************)
(* The graph loop: recalculating the node with the highest priority.       *)
(***************************************************************************)

(* Heap order: any of the items with the highest priority may be next. *)
Top(item) == item \in queue /\ \A other \in queue : other[2] <= item[2]

(* Faulty variant: the finisher is not put in the queue *)
EmitButNotToFinisher(item) ==
    /\ queue' = (queue \ {item})
                  \union {<<m, priorityMap[m]>> : m \in Edges(item[1]) \ {Finisher}}
    /\ emitted' = [emitted EXCEPT ![item[1]] = @ + 1]

(* The popped item leaves the queue; the nodes behind n's edges enter it. *)
Emit(item) ==
    /\ queue' = (queue \ {item})
                  \union {<<m, priorityMap[m]>> : m \in Edges(item[1])}
    /\ emitted' = [emitted EXCEPT ![item[1]] = @ + 1]

EmitNothing(item) == queue' = queue \ {item} /\ UNCHANGED emitted

(* DatapointNodeData.recalculate and the consume of every node behind it *)
ConsumeEntrypoint(prev, res) ==
    IF prev = None \/ resultUpgrades(prev, res) THEN res ELSE prev

(* Faulty variant: the first result of a property is final *)
ConsumePropertyOnce(prev, res) == IF prev = None THEN res ELSE prev

(* executionQueryProperty: the same upgrades, written out by hand *)
ConsumeProperty(prev, res) ==
    IF \/ prev = None
       \/ isPlaceholderResult(prev) /\ ~isPlaceholderResult(res)
       \/ isNilResult(prev) /\ hasRealData(res) /\ ~isPlaceholderResult(res)
    THEN res ELSE prev

ConsumeJobData(prev, res) ==
    IF prev # None /\ isPlaceholderResult(res) /\ ~isPlaceholderResult(prev)
    THEN prev
    ELSE IF prev # None /\ ~resultUpgrades(prev, res) THEN prev ELSE res

(* Faulty variant: stores results the query has no entrypoint for *)
ReportingQueriesConsumeAny(d, res) ==
    /\ rqResults' = [q \in GraphQueries |->
                       [e \in Entrypoints[q] \union {d} |->
                          IF e = d THEN res ELSE rqResults[q][e]]]
    /\ rqInvalidated' = [q \in GraphQueries |-> TRUE]

ReportingQueriesConsume(d, res) ==
    LET fresh == {q \in GraphQueries : d \in Entrypoints[q]}
        next  == [q \in GraphQueries |->
                    IF q \in fresh
                    THEN [rqResults[q] EXCEPT ![d] = ConsumeEntrypoint(@, res)]
                    ELSE rqResults[q]]
    IN  /\ rqResults' = next
        /\ rqInvalidated' = [q \in GraphQueries |->
                               rqInvalidated[q] \/ next[q] # rqResults[q]]

(* A first result wakes the query up, unless it is already queued. *)
ExecutionQueriesConsume(d, res) ==
    /\ eqProps' = [q \in RunnableQueries |->
                     IF d \in RequiredProps[q]
                     THEN [eqProps[q] EXCEPT ![d] = ConsumeProperty(@, res)]
                     ELSE eqProps[q]]
    /\ eqInvalidated' = [q \in RunnableQueries |->
                           \/ eqInvalidated[q]
                           \/ /\ d \in RequiredProps[q]
                              /\ eqProps[q][d] = None
                              /\ eqState[q] # "executed"]
    /\ UNCHANGED eqState

(* Faulty variant: completed jobs stay completed *)
JobsConsumeDataNoReopen(d, res) ==
    LET next == [j \in Jobs |->
                   IF d \in JobData[j]
                   THEN [rjData[j] EXCEPT ![d] = ConsumeJobData(@, res)]
                   ELSE rjData[j]]
    IN  /\ rjData' = next
        /\ rjInvalidated' = [j \in Jobs |-> rjInvalidated[j] \/ next[j] # rjData[j]]
        /\ UNCHANGED <<rjScores, rjCompleted>>

(* Accepting a datapoint reopens a completed job. *)
JobsConsumeData(d, res) ==
    LET next == [j \in Jobs |->
                   IF d \in JobData[j]
                   THEN [rjData[j] EXCEPT ![d] = ConsumeJobData(@, res)]
                   ELSE rjData[j]]
    IN  /\ rjData' = next
        /\ rjCompleted' = [j \in Jobs |-> rjCompleted[j] /\ next[j] = rjData[j]]
        /\ rjInvalidated' = [j \in Jobs |-> rjInvalidated[j] \/ next[j] # rjData[j]]
        /\ UNCHANGED rjScores

FinisherConsume(d) ==
    /\ remaining' = remaining \ {d}
    /\ finInvalidated' = (finInvalidated \/ remaining # {})
    /\ UNCHANGED doneClosed

RecalculateDatapoint(item) ==
    /\ item[1][1] = "dp"
    /\ LET d == item[1][2] IN
         \/ /\ dpInvalidated[d]
            /\ dpInvalidated' = [dpInvalidated EXCEPT ![d] = FALSE]
            /\ ReportingQueriesConsume(d, dpRes[d])
            /\ ExecutionQueriesConsume(d, dpRes[d])
            /\ JobsConsumeData(d, dpRes[d])
            /\ FinisherConsume(d)
            /\ dcUnreported' = IF d \in CollectedDatapoints
                               THEN [dcUnreported EXCEPT ![d] = dpRes[d]]
                               ELSE dcUnreported
            /\ Emit(item)
            /\ UNCHANGED <<dpRes, staticSent, scUnreported, sunkData, sunkScores>>
         \/ /\ ~dpInvalidated[d]
            /\ EmitNothing(item)
            /\ UNCHANGED nodeVars
    /\ UNCHANGED <<chanVars, emVars>>

(* updateRunState, then run: the send on runQueue blocks while it is full *)
RunState(q) ==
    IF eqState[q] # "notReady" THEN eqState[q]
    ELSE IF \A d \in RequiredProps[q] : eqProps[q][d] # None THEN "ready"
                                                            ELSE "notReady"

RecalculateExecutionQuery(item) ==
    /\ item[1][1] = "eq"
    /\ LET q == item[1][2] IN
         \/ /\ eqInvalidated[q]
            /\ eqInvalidated' = [eqInvalidated EXCEPT ![q] = FALSE]
            /\ IF RunState(q) = "ready"
               THEN /\ Len(runQueue) < RunQueueCap
                    /\ runQueue' = Append(runQueue, q)
                    /\ eqState' = [eqState EXCEPT ![q] = "executed"]
               ELSE /\ eqState' = [eqState EXCEPT ![q] = RunState(q)]
                    /\ UNCHANGED runQueue
            /\ Emit(item)
            /\ UNCHANGED eqProps
         \/ /\ ~eqInvalidated[q]
            /\ EmitNothing(item)
            /\ UNCHANGED <<eqVars, runQueue>>
    /\ UNCHANGED <<dpVars, rqVars, rjVars, staticSent, finVars, colVars,
                   resultChan, errChan, stopChan, emVars>>

(***************************************************************************)
(* ReportingJobNodeData.consume of a score: a completed job stays          *)
(* completed.  Static jobs ignore what they are sent.                      *)
(***************************************************************************)
Receivers(n) == {j \in Jobs \ StaticJobs : n \in Children(j)}

JobsConsumeScore(n, s, invalidated) ==
    /\ rjScores' = [j \in Jobs |->
                      IF j \in Receivers(n)
                      THEN [rjScores[j] EXCEPT ![n] = ControlScore(j, s)]
                      ELSE rjScores[j]]
    /\ rjInvalidated' = [j \in Jobs |-> invalidated[j] \/ j \in Receivers(n)]

ScoreCollectorConsume(n, s) ==
    /\ scUnreported' = IF CollectedScore(n)
                       THEN [scUnreported EXCEPT ![n] = s] ELSE scUnreported
    /\ UNCHANGED <<dcUnreported, sunkData, sunkScores>>

RecalculateReportingQuery(item) ==
    /\ item[1][1] = "rq"
    /\ LET q == item[1][2]
           s == QueryScore(rqResults[q])
       IN
         \/ /\ rqInvalidated[q]
            /\ rqInvalidated' = [rqInvalidated EXCEPT ![q] = FALSE]
            /\ IF s # NoScore
               THEN /\ JobsConsumeScore(item[1], s, rjInvalidated)
                    /\ ScoreCollectorConsume(item[1], s)
                    /\ Emit(item)
               ELSE /\ EmitNothing(item)
                    /\ UNCHANGED <<rjScores, rjInvalidated, colVars>>
         \/ /\ ~rqInvalidated[q]
            /\ EmitNothing(item)
            /\ UNCHANGED <<rqInvalidated, rjScores, rjInvalidated, colVars>>
    /\ UNCHANGED <<dpVars, eqVars, rqResults, rjData, rjCompleted, staticSent,
                   finVars, chanVars, emVars>>

RecalculateReportingJob(item) ==
    /\ item[1][1] = "rj" /\ item[1][2] \notin StaticJobs
    /\ LET j == item[1][2]
           s == JobEmits(j)
           cleared == [rjInvalidated EXCEPT ![j] = FALSE]
       IN
         \/ /\ rjInvalidated[j] /\ ~rjCompleted[j]
            /\ IF s # NoScore
               THEN /\ rjCompleted' = [rjCompleted EXCEPT ![j] = TRUE]
                    /\ JobsConsumeScore(item[1], s, cleared)
                    /\ ScoreCollectorConsume(item[1], s)
                    /\ Emit(item)
               ELSE /\ rjInvalidated' = cleared
                    /\ EmitNothing(item)
                    /\ UNCHANGED <<rjScores, rjCompleted, colVars>>
         \/ /\ ~rjInvalidated[j] \/ rjCompleted[j]
            /\ EmitNothing(item)
            /\ UNCHANGED <<rjScores, rjCompleted, rjInvalidated, colVars>>
    /\ UNCHANGED <<dpVars, eqVars, rqVars, rjData, staticSent, finVars,
                   chanVars, emVars>>

(* Faulty variant: the completion is what the stored score says *)
StaticScoreAsIs(j) == SuppliedScore[j]

(* A supplied score, sent once (rescore mode). *)
StaticScore(j) == [SuppliedScore[j] EXCEPT !.sc = 100, !.dc = 100]

RecalculateStatic(item) ==
    /\ item[1][1] = "rj" /\ item[1][2] \in StaticJobs
    /\ LET j == item[1][2] IN
         \/ /\ j \notin staticSent
            /\ staticSent' = staticSent \union {j}
            /\ JobsConsumeScore(item[1], StaticScore(j), rjInvalidated)
            /\ ScoreCollectorConsume(item[1], StaticScore(j))
            /\ Emit(item)
         \/ /\ j \in staticSent
            /\ EmitNothing(item)
            /\ UNCHANGED <<staticSent, rjScores, rjInvalidated, colVars>>
    /\ UNCHANGED <<dpVars, eqVars, rqVars, rjData, rjCompleted, finVars,
                   chanVars, emVars>>

(* Closes doneChan once every datapoint has reported. *)
RecalculateFinisher(item) ==
    /\ item[1] = Finisher
    /\ finInvalidated' = FALSE
    /\ doneClosed' = IF finInvalidated /\ remaining = {} THEN doneClosed + 1
                                                         ELSE doneClosed
    /\ EmitNothing(item)
    /\ UNCHANGED <<dpVars, eqVars, rqVars, rjVars, staticSent, remaining,
                   colVars, chanVars, emVars>>

(***************************************************************************)
(* The collector nodes pass on what they hold.  The collectors behind them *)
(* keep the last value per key.                                            *)
(***************************************************************************)
RecalculateDatapointCollector(item) ==
    /\ item[1] = DatapointCollector
    /\ sunkData' = [d \in Datapoints |-> IF dcUnreported[d] # None
                                         THEN dcUnreported[d] ELSE sunkData[d]]
    /\ dcUnreported' = [d \in Datapoints |-> None]
    /\ EmitNothing(item)
    /\ UNCHANGED <<dpVars, eqVars, rqVars, rjVars, staticSent, finVars,
                   scUnreported, sunkScores, chanVars, emVars>>

(* Faulty variant: a passing score is never replaced *)
RecalculateScoreCollectorLatch(item) ==
    /\ item[1] = ScoreCollector
    /\ sunkScores' = [n \in ScoreNodes |->
                        IF scUnreported[n] # NoScore /\ sunkScores[n].value # 100
                        THEN scUnreported[n] ELSE sunkScores[n]]
    /\ scUnreported' = [n \in ScoreNodes |-> NoScore]
    /\ EmitNothing(item)
    /\ UNCHANGED <<dpVars, eqVars, rqVars, rjVars, staticSent, finVars,
                   dcUnreported, sunkData, chanVars, emVars>>

RecalculateScoreCollector(item) ==
    /\ item[1] = ScoreCollector
    /\ sunkScores' = [n \in ScoreNodes |-> IF scUnreported[n] # NoScore
                                           THEN scUnreported[n] ELSE sunkScores[n]]
    /\ scUnreported' = [n \in ScoreNodes |-> NoScore]
    /\ EmitNothing(item)
    /\ UNCHANGED <<dpVars, eqVars, rqVars, rjVars, staticSent, finVars,
                   dcUnreported, sunkData, chanVars, emVars>>

Recalculate(item) ==
    \/ RecalculateDatapoint(item)
    \/ RecalculateExecutionQuery(item)
    \/ RecalculateReportingQuery(item)
    \/ RecalculateReportingJob(item)
    \/ RecalculateStatic(item)
    \/ RecalculateFinisher(item)
    \/ RecalculateDatapointCollector(item)
    \/ RecalculateScoreCollector(item)

ProcessQueue ==
    /\ pc = "process"
    /\ \E item \in queue : Top(item) /\ Recalculate(item)
    /\ UNCHANGED <<pc, done, err>>

(* filterScoreTracker.passing: the queries whose last score is a pass *)
passing == {q \in CollectScores : /\ sunkScores[QueryChild(q)].sc = 100
                                  /\ sunkScores[QueryChild(q)].value = 100}

-----------------------------------------------------------------------------
(***************************************************************************)
(* The graph loop: between two rounds.                                     *)
(***************************************************************************)

(* Faulty variant: a closed doneChan only wakes the loop up *)
RoundEndsIgnoresDone ==
    /\ pc = "process" /\ queue = {}
    /\ pc' = IF Rescore THEN "stop" ELSE "wait"
    /\ emitted' = [n \in Nodes |-> 0]
    /\ UNCHANGED <<nodeVars, queue, done, err, chanVars, emVars>>

(* The queue is empty: stop after doneChan or in rescore mode, else wait. *)
RoundEnds ==
    /\ pc = "process" /\ queue = {}
    /\ pc' = IF Rescore \/ done THEN "stop" ELSE "wait"
    /\ emitted' = [n \in Nodes |-> 0]
    /\ UNCHANGED <<nodeVars, queue, done, err, chanVars, emVars>>

(* A result reaches its datapoint node; only upgrades replace a result. *)
ReceiveResult ==
    /\ pc \in {"wait", "drain"} /\ resultChan # <<>>
    /\ LET d   == Head(resultChan).dp
           res == Head(resultChan).res
           accepted == dpRes[d] = None \/ resultUpgrades(dpRes[d], res)
       IN  /\ dpRes' = IF accepted THEN [dpRes EXCEPT ![d] = res] ELSE dpRes
           /\ dpInvalidated' = [dpInvalidated EXCEPT ![d] = @ \/ accepted]
           /\ queue' = queue \union {<<DatapointNode(d), maxPriority>>}
    /\ resultChan' = Tail(resultChan)
    /\ pc' = "drain"
    /\ UNCHANGED <<eqVars, rqVars, rjVars, staticSent, finVars, colVars, done,
                   err, emitted, runQueue, errChan, stopChan, emVars>>

ReceiveDone ==
    /\ pc = "wait" /\ doneClosed > 0
    /\ done' = TRUE /\ pc' = "drain"
    /\ UNCHANGED <<nodeVars, queue, err, emitted, chanVars, emVars>>

(* An unrecoverable error leaves the loop without draining. *)
ReceiveError ==
    /\ pc = "wait" /\ errChan
    /\ errChan' = FALSE /\ err' = TRUE /\ pc' = "stop"
    /\ UNCHANGED <<nodeVars, queue, done, emitted, runQueue, resultChan,
                   stopChan, emVars>>

(* Faulty variant: what was drained after doneChan is not processed *)
DrainEndsThenStops ==
    /\ pc = "drain" /\ resultChan = <<>>
    /\ pc' = IF done THEN "stop" ELSE "process"
    /\ UNCHANGED <<nodeVars, queue, done, err, emitted, chanVars, emVars>>

DrainEnds ==
    /\ pc = "drain" /\ resultChan = <<>>
    /\ pc' = "process"
    /\ UNCHANGED <<nodeVars, queue, done, err, emitted, chanVars, emVars>>

(* executionManager.Stop: close stopChan, then wait for the goroutine *)
Stop ==
    /\ pc = "stop"
    /\ pc' = "join" /\ stopChan' = TRUE
    /\ UNCHANGED <<nodeVars, queue, done, err, emitted, runQueue, resultChan,
                   errChan, emVars>>

Return ==
    /\ pc = "join" /\ emPc = "exited"
    /\ pc' = "returned"
    /\ UNCHANGED <<nodeVars, queue, done, err, emitted, chanVars, emVars>>

GraphLoop == ProcessQueue \/ RoundEnds \/ ReceiveResult \/ ReceiveDone
               \/ ReceiveError \/ DrainEnds \/ Stop \/ Return

-----------------------------------------------------------------------------
(***************************************************************************)
(* The execution manager's goroutine.                                      *)
(***************************************************************************)

CheckStop ==
    /\ emPc = "check"
    /\ emPc' = IF stopChan THEN "exited" ELSE "select"
    /\ UNCHANGED <<nodeVars, loopVars, chanVars, emQuery, emProps, emPending,
                   inflight>>

SelectStop ==
    /\ emPc = "select" /\ stopChan
    /\ emPc' = "exited"
    /\ UNCHANGED <<nodeVars, loopVars, chanVars, emQuery, emProps, emPending,
                   inflight>>

(***************************************************************************)
(* The properties are read when the query is dequeued (materializeProps).  *)
(* An errored property makes the manager broadcast placeholders instead.   *)
(* materializePropsDropErrors is a faulty variant: errors are left out.    *)
(***************************************************************************)
materializePropsDropErrors(q) ==
    [d \in RequiredProps[q] |->
       IF eqProps[q][d] \in Erroneous THEN None ELSE eqProps[q][d]]

materializeProps(q) == eqProps[q]

Dequeue ==
    /\ emPc = "select" /\ runQueue # <<>>
    /\ LET q     == Head(runQueue)
           props == materializeProps(q)
       IN  /\ emPc' = IF \E d \in DOMAIN props : props[d] \in Erroneous
                      THEN "broadcast" ELSE "running"
           /\ emQuery' = q
           /\ emProps' = props
           /\ emPending' = CodepointChecksums(q)
    /\ runQueue' = Tail(runQueue)
    /\ UNCHANGED <<nodeVars, loopVars, resultChan, errChan, stopChan, inflight>>

Message(d, res) == [dp |-> d, res |-> res]

(* Send on resultChan, which blocks while it is full; or give up on stop. *)
SendOrStop(msg) ==
    \/ /\ Len(resultChan) < ResultCap
       /\ resultChan' = Append(resultChan, msg)
    \/ /\ stopChan
       /\ UNCHANGED resultChan

Broadcast(d) ==
    /\ emPc = "broadcast" /\ d \in emPending
    /\ SendOrStop(Message(d, "ph"))
    /\ emPending' = emPending \ {d}
    /\ UNCHANGED <<nodeVars, loopVars, runQueue, errChan, stopChan, emPc,
                   emQuery, emProps, inflight>>

BundleDone ==
    /\ emPc \in {"broadcast", "running"} /\ emPending = {}
    /\ emPc' = "check"
    /\ UNCHANGED <<nodeVars, loopVars, chanVars, emQuery, emProps, emPending,
                   inflight>>

(* Timeout, executor error or panic: report it and leave the goroutine. *)
BundleFails ==
    /\ emPc = "running" /\ emQuery \in MayFail
    /\ errChan' = TRUE
    /\ emPc' = "exited"
    /\ UNCHANGED <<nodeVars, loopVars, runQueue, resultChan, stopChan, emQuery,
                   emProps, emPending, inflight>>

(***************************************************************************)
(* A callback of the engine: wg.Done first, the send on resultChan later.  *)
(* Callbacks may still come after the manager has given up on the query.   *)
(***************************************************************************)
Callback(d, res) ==
    /\ emPc \in {"running", "exited"} /\ d \in emPending
    /\ res \in Outcomes[emQuery]
    /\ emPending' = emPending \ {d}
    /\ inflight' = inflight \union {<<emQuery, Message(d, res)>>}
    /\ UNCHANGED <<nodeVars, loopVars, chanVars, emPc, emQuery, emProps>>

SendResult(call) ==
    /\ call \in inflight
    /\ SendOrStop(call[2])
    /\ inflight' = inflight \ {call}
    /\ UNCHANGED <<nodeVars, loopVars, runQueue, errChan, stopChan, emPc,
                   emQuery, emProps, emPending>>

ExecutionManager ==
    \/ CheckStop \/ SelectStop \/ Dequeue \/ BundleDone \/ BundleFails
    \/ \E d \in Datapoints : Broadcast(d)

Engine ==
    \/ \E d \in Datapoints, res \in Results : Callback(d, res)
    \/ \E call \in inflight : SendResult(call)

(* Execute has returned. *)
Terminated == pc = "returned" /\ UNCHANGED vars

Next == GraphLoop \/ ExecutionManager \/ Engine \/ Terminated

(***************************************************************************)
(* The goroutines are scheduled by the Go runtime; the engine calls back   *)
(* or the timer of the query fires.                                        *)
(***************************************************************************)
Fairness ==
    /\ WF_vars(GraphLoop)
    /\ WF_vars(ExecutionManager)
    /\ WF_vars(\E d \in Datapoints, res \in Results : Callback(d, res))
    /\ \A q \in Queries, d \in Datapoints, res \in Results :
         WF_vars(SendResult(<<q, Message(d, res)>>))

Spec == Init /\ [][Next]_vars /\ Fairness

-----------------------------------------------------------------------------
(***************************************************************************)
(* Properties                                                              *)
(***************************************************************************)

Optional(S) == S \union {None}

DatapointsTyped ==
    /\ dpRes \in [GraphDatapoints -> Optional(Results)]
    /\ dpInvalidated \in [GraphDatapoints -> BOOLEAN]

ExecutionQueriesTyped ==
    /\ eqState \in [RunnableQueries -> {"notReady", "ready", "executed"}]
    /\ eqInvalidated \in [RunnableQueries -> BOOLEAN]
    /\ DOMAIN eqProps = RunnableQueries
    /\ \A q \in RunnableQueries :
         eqProps[q] \in [RequiredProps[q] -> Optional(Results)]

ReportingQueriesTyped ==
    /\ DOMAIN rqResults = GraphQueries
    /\ \A q \in GraphQueries :
         rqResults[q] \in [Entrypoints[q] -> Optional(Results)]
    /\ rqInvalidated \in [GraphQueries -> BOOLEAN]

JobsTyped ==
    /\ DOMAIN rjData = Jobs
    /\ \A j \in Jobs : rjData[j] \in [JobData[j] -> Optional(Results)]
    /\ rjCompleted \in [Jobs -> BOOLEAN]
    /\ rjInvalidated \in [Jobs -> BOOLEAN]

CollectorsTyped ==
    /\ remaining \subseteq GraphDatapoints
    /\ finInvalidated \in BOOLEAN
    /\ doneClosed \in Nat
    /\ dcUnreported \in [Datapoints -> Optional(Results)]
    /\ sunkData \in [Datapoints -> Optional(Results)]

LoopTyped ==
    /\ \A item \in queue : item[1] \in Nodes
    /\ pc \in {"process", "wait", "drain", "stop", "join", "returned"}
    /\ done \in BOOLEAN
    /\ err \in BOOLEAN

ResultMessages == [dp : GraphDatapoints, res : Results]

ChannelsTyped ==
    /\ runQueue \in Seq(RunnableQueries)
    /\ resultChan \in Seq(ResultMessages)
    /\ errChan \in BOOLEAN
    /\ stopChan \in BOOLEAN

ManagerTyped ==
    /\ emPc \in {"check", "select", "broadcast", "running", "exited"}
    /\ emQuery \in Optional(RunnableQueries)
    /\ emPending \subseteq GraphDatapoints
    /\ inflight \subseteq RunnableQueries \X ResultMessages

(* The values of the variables that do not hold scores. *)
TypeOK ==
    /\ DatapointsTyped
    /\ ExecutionQueriesTyped
    /\ ReportingQueriesTyped
    /\ JobsTyped
    /\ CollectorsTyped
    /\ LoopTyped
    /\ ChannelsTyped
    /\ ManagerTyped

(***************************************************************************)
(* A datapoint's result is copied to the properties, reporting queries,    *)
(* reporting jobs and collectors that use it, by four separate pieces of   *)
(* upgrade code.  Between the emissions of a datapoint they all hold its   *)
(* result: none keeps a placeholder or a nil that another one replaced.    *)
(***************************************************************************)
PropertyCopies(d) ==
    \A q \in RunnableQueries :
        d \in RequiredProps[q] => eqProps[q][d] = dpRes[d]
EntrypointCopies(d) ==
    \A q \in GraphQueries :
        d \in Entrypoints[q] => rqResults[q][d] = dpRes[d]
JobCopies(d) ==
    \A j \in Jobs : d \in JobData[j] => rjData[j][d] = dpRes[d]
CollectedCopy(d) ==
    d \in CollectedDatapoints =>
        dpRes[d] = IF dcUnreported[d] # None THEN dcUnreported[d] ELSE sunkData[d]

CopiesAgree ==
    \A d \in GraphDatapoints :
        dpInvalidated[d] \/ (/\ PropertyCopies(d) /\ EntrypointCopies(d)
                             /\ JobCopies(d) /\ CollectedCopy(d))

(* How much a result is worth. *)
Rank(res) == CASE res = None -> 0 [] res = "ph" -> 1 [] res = "nil" -> 2
               [] OTHER -> 3

(***************************************************************************)
(* What a collector has received for a datapoint is only ever replaced by  *)
(* something better, however the results of the queries that share it are  *)
(* interleaved: a placeholder by what an execution reported, a             *)
(* short-circuit nil by real data.                                         *)
(***************************************************************************)
CollectedDataImproves ==
    [][\A d \in Datapoints :
         sunkData'[d] # sunkData[d] => Rank(sunkData'[d]) > Rank(sunkData[d])]_vars

(***************************************************************************)
(* doneChan is closed at most once (a second close would panic), and only  *)
(* after every datapoint has reported and all other nodes have finished    *)
(* with what was reported ("all other work is guaranteed to complete       *)
(* before it says things are done").                                       *)
(***************************************************************************)
Idle ==
    /\ \A d \in GraphDatapoints : ~dpInvalidated[d] /\ dcUnreported[d] = None
    /\ \A q \in RunnableQueries : ~eqInvalidated[q]
    /\ \A q \in GraphQueries : ~rqInvalidated[q]
    /\ \A j \in Jobs : ~rjInvalidated[j] \/ rjCompleted[j]
    /\ \A n \in ScoreNodes : scUnreported[n] = NoScore

DoneComesLast ==
    [][doneClosed' # doneClosed =>
         /\ doneClosed = 0
         /\ \A d \in GraphDatapoints : dpRes[d] # None
         /\ GraphDatapoints # {} => Idle]_vars

(* No wake-up is lost: the loop only waits when no node has work left. *)
NoWorkLeftBehind == pc = "wait" => Idle /\ ~finInvalidated

(***************************************************************************)
(* The graph loop never blocks on runQueue: whenever a query is about to   *)
(* be queued there is room, because no query is queued a second time.  A   *)
(* blocked loop would no longer drain resultChan, on which the execution   *)
(* manager waits in turn.                                                  *)
(***************************************************************************)
RunQueueHasRoom ==
    \A q \in RunnableQueries :
        eqInvalidated[q] /\ RunState(q) = "ready" => Len(runQueue) < RunQueueCap

(***************************************************************************)
(* A query starts with all its properties resolved, and with the value     *)
(* that is current when it is dequeued: a nil or a placeholder that was    *)
(* upgraded while the query waited in runQueue is not used.                *)
(***************************************************************************)
StartsWithCurrentProps ==
    [][emPc = "select" /\ emPc' \in {"running", "broadcast"} =>
         \A d \in RequiredProps[emQuery'] :
            /\ emProps'[d] # None
            /\ dpInvalidated[d] \/ emProps'[d] = dpRes[d]]_vars

(***************************************************************************)
(* Whenever the loop waits, the score collected last for the job of a      *)
(* query that also collects the query's entrypoints is the score of the    *)
(* results the entrypoints have now: provisional scores of an earlier      *)
(* round have been corrected.                                              *)
(***************************************************************************)
CurrentScore(q) == QueryScore([d \in Entrypoints[q] |-> dpRes[d]])

QueryScoresCurrent ==
    pc = "wait" =>
        \A j \in Jobs, q \in GraphQueries :
            /\ JobQuery[j] = {q} /\ ChildJobs[j] = {} /\ forwardScore(j)
            /\ Entrypoints[q] \subseteq JobData[j]
            /\ \A d \in JobData[j] : dpRes[d] # None
            => /\ sunkScores[JobChild(j)].type = CurrentScore(q).type
               /\ sunkScores[JobChild(j)].value = CurrentScore(q).value

(***************************************************************************)
(* ExecuteFilterQueries decides on the last score of each filter query: a  *)
(* filter matches exactly when the results its statements ended with say   *)
(* so, although a provisional score of it may have been a pass before.     *)
(***************************************************************************)
FilterDecision ==
    pc = "returned" /\ ~err =>
        passing = {q \in CollectScores : CurrentScore(q).value = 100}

(***************************************************************************)
(* However many results a round starts with, the order of the queue makes  *)
(* every node emit at most once in it: no score is sent up, and no query   *)
(* is looked at, before all results of the round have reached it.          *)
(***************************************************************************)
EmitsOncePerRound == \A n \in Nodes : emitted[n] <= 1

(***************************************************************************)
(* When Execute returns without an error, every collected datapoint and    *)
(* every reporting job has been handed to the collectors, the datapoints   *)
(* with the result their node ended with.                                  *)
(***************************************************************************)
CleanReturnIsComplete ==
    pc = "returned" /\ ~err =>
        /\ \A d \in CollectedDatapoints :
              sunkData[d] = dpRes[d] /\ sunkData[d] # None
        /\ \A j \in Jobs : sunkScores[JobChild(j)] # NoScore

(***************************************************************************)
(* In rescore mode the supplied scores are rolled up through the whole     *)
(* tree before Execute returns: the score collected for every other job is *)
(* the one the collected scores of its children give.                      *)
(***************************************************************************)
RescoreRollsUp ==
    pc = "returned" /\ Rescore =>
        \A j \in Jobs \ StaticJobs :
            /\ sunkScores[JobChild(j)] # NoScore
            /\ sunkScores[JobChild(j)] = JobEmits(j)
            /\ \A c \in ChildJobs[j] :
                 rjScores[j][JobChild(c)] = ControlScore(j, sunkScores[JobChild(c)])

(* Execute returns, whatever the queries do. *)
Termination == <>(pc = "returned")

(***************************************************************************)
(* "At the end of the round, the reporting graph will be fully             *)
(* up-to-date": when the loop waits, every job's collected score is the    *)
(* one its children's scores give.                                         *)
(***************************************************************************)
GraphUpToDate ==
    pc = "wait" =>
        \A j \in Jobs : JobEmits(j) # NoScore => sunkScores[JobChild(j)] = JobEmits(j)

(***************************************************************************)
(* "Decided only now that execution has finished, so every provisional     *)
(* score has had the chance to be corrected": when Execute returns without *)
(* an error, a query that is still waiting in runQueue does not have a     *)
(* score made of provisional results.                                      *)
(***************************************************************************)
ProvisionalScoresHadTheirChance ==
    pc = "returned" /\ ~err =>
        \A i \in 1 .. Len(runQueue) :
            \A d \in Entrypoints[runQueue[i]] : dpRes[d] \notin {"nil", "ph"}
=============================================================================
