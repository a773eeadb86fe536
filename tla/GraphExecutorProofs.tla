------------------------- MODULE GraphExecutorProofs -------------------------
(***************************************************************************)
(* What GraphExecutor guarantees for every graph of queries and reporting  *)
(* jobs, every channel capacity and every behaviour of the query engine.   *)
(***************************************************************************)
EXTENDS GraphExecutor, FiniteSetTheorems, WellFoundedInduction, TLAPS

(* The node that is recalculated exists, and so do the nodes behind it. *)
LEMMA NodeKinds ==
    ASSUME NEW n \in Nodes
    PROVE  /\ n[1] = "dp" => n[2] \in GraphDatapoints /\ n = DatapointNode(n[2])
           /\ n[1] = "eq" => n[2] \in RunnableQueries /\ n = ExecutionQuery(n[2])
           /\ n[1] = "rq" => n[2] \in GraphQueries /\ n = QueryChild(n[2])
           /\ n[1] = "rj" => n[2] \in Jobs /\ n = JobChild(n[2])
<1>1. CASE n \in {DatapointCollector, ScoreCollector, Finisher}
  BY <1>1 DEF DatapointCollector, ScoreCollector, Finisher
<1>2. CASE n \in {DatapointNode(d) : d \in GraphDatapoints}
  BY <1>2 DEF DatapointNode
<1>3. CASE n \in {ExecutionQuery(q) : q \in RunnableQueries}
  BY <1>3 DEF ExecutionQuery
<1>4. CASE n \in {QueryChild(q) : q \in GraphQueries}
  BY <1>4 DEF QueryChild
<1>5. CASE n \in {JobChild(j) : j \in Jobs}
  BY <1>5 DEF JobChild
<1> QED BY <1>1, <1>2, <1>3, <1>4, <1>5 DEF Nodes

(* The codepoints of a query that can run have datapoint nodes. *)
LEMMA CodepointsInGraph ==
    \A q \in RunnableQueries :
        q \in Queries /\ q \in GraphQueries /\ CodepointChecksums(q) \subseteq GraphDatapoints
BY GraphAssumption DEF RunnableQueries, GraphQueries, GraphDatapoints

(* Build only adds edges to nodes it has added. *)
LEMMA EdgesStayInGraph ==
    ASSUME NEW n \in Nodes
    PROVE  Edges(n) \subseteq Nodes
<1>1. CASE n[1] = "dp"
  <2>1. n[2] \in GraphDatapoints BY <1>1, NodeKinds
  <2>2. Rescore = FALSE BY <2>1, GraphAssumption DEF GraphDatapoints, GraphQueries
  <2>3. Edges(n) \subseteq
           {QueryChild(q) : q \in GraphQueries}
             \union {ExecutionQuery(q) : q \in RunnableQueries}
             \union {JobChild(j) : j \in Jobs} \union {Finisher, DatapointCollector}
    BY <1>1 DEF Edges, DatapointEdges
  <2> QED BY <2>2, <2>3 DEF Nodes
<1>2. CASE n[1] = "eq"
  <2>1. n[2] \in RunnableQueries BY <1>2, NodeKinds
  <2>2. Edges(n) = {DatapointNode(d) : d \in CodepointChecksums(n[2])}
    BY <1>2 DEF Edges
  <2> QED BY <2>1, <2>2, CodepointsInGraph DEF Nodes
<1>3. CASE n[1] \in {"rq", "rj"}
  <2>1. Edges(n) \subseteq {JobChild(j) : j \in Jobs} \union {ScoreCollector}
    BY <1>3 DEF Edges, ParentJobs
  <2> QED BY <2>1 DEF Nodes
<1>4. CASE n[1] \notin {"dp", "eq", "rq", "rj"}
  BY <1>4 DEF Edges
<1> QED BY <1>1, <1>2, <1>3, <1>4

-----------------------------------------------------------------------------
(***************************************************************************)
(* Types.  Pending callbacks belong to a query that was dequeued.          *)
(***************************************************************************)
PendingHasQuery == emPending # {} => emQuery \in RunnableQueries

TypeInv == TypeOK /\ PendingHasQuery

(* The graph that Build made is well typed. *)
LEMMA TypeInit == Init => TypeInv
<1> SUFFICES ASSUME Init PROVE TypeInv OBVIOUS
<1>1. DatapointsTyped
  BY DEF Init, DatapointsTyped, Preset, Optional, Results, Executed
<1>2. ExecutionQueriesTyped
  BY DEF Init, ExecutionQueriesTyped, Optional
<1>3. ReportingQueriesTyped
  BY DEF Init, ReportingQueriesTyped, Optional
<1>4. JobsTyped
  BY DEF Init, JobsTyped, Optional
<1>5. CollectorsTyped
  BY DEF Init, CollectorsTyped, Optional
<1>6. LoopTyped
  <2>1. {JobChild(j) : j \in StaticJobs} \subseteq Nodes
    BY GraphAssumption DEF StaticJobs, Nodes
  <2>2. \A item \in queue : item[1] \in Nodes BY <2>1, SMT DEF Init
  <2> QED BY <2>2 DEF Init, LoopTyped
<1>7. ChannelsTyped
  <2>1. runQueue = <<>> /\ resultChan = <<>> BY DEF Init
  <2>2. runQueue \in Seq(RunnableQueries) BY <2>1
  <2>3. resultChan \in Seq(ResultMessages) BY <2>1
  <2> QED BY <2>2, <2>3 DEF Init, ChannelsTyped
<1>8. ManagerTyped /\ PendingHasQuery
  BY DEF Init, ManagerTyped, PendingHasQuery, Optional
<1> QED BY <1>1, <1>2, <1>3, <1>4, <1>5, <1>6, <1>7, <1>8 DEF TypeInv, TypeOK

(* The nodes an emission puts in the queue exist. *)
LEMMA EmitTyped ==
    ASSUME NEW item \in queue, LoopTyped, Emit(item) \/ EmitNothing(item)
    PROVE  \A i \in queue' : i[1] \in Nodes
BY EdgesStayInGraph DEF LoopTyped, Emit, EmitNothing

(* Consuming a result keeps the types of the consumers. *)
LEMMA ConsumersTyped ==
    ASSUME NEW prev \in Optional(Results), NEW res \in Optional(Results)
    PROVE  /\ ConsumeProperty(prev, res) \in Optional(Results)
           /\ ConsumeEntrypoint(prev, res) \in Optional(Results)
           /\ ConsumeJobData(prev, res) \in Optional(Results)
BY DEF ConsumeProperty, ConsumeEntrypoint, ConsumeJobData

(* ExecutionQueryNodeData.consume keeps the types. *)
LEMMA PropertiesTyped ==
    ASSUME NEW d, NEW res \in Optional(Results),
           ExecutionQueriesTyped, ExecutionQueriesConsume(d, res)
    PROVE  ExecutionQueriesTyped'
<1>1. DOMAIN eqProps' = RunnableQueries BY DEF ExecutionQueriesConsume
<1>2. ASSUME NEW q \in RunnableQueries
      PROVE  eqProps'[q] \in [RequiredProps[q] -> Optional(Results)]
  <2>1. eqProps[q] \in [RequiredProps[q] -> Optional(Results)]
    BY DEF ExecutionQueriesTyped
  <2>2. CASE d \in RequiredProps[q]
    <3>1. eqProps'[q] = [eqProps[q] EXCEPT ![d] = ConsumeProperty(eqProps[q][d], res)]
      BY <2>2 DEF ExecutionQueriesConsume
    <3>2. ConsumeProperty(eqProps[q][d], res) \in Optional(Results)
      BY <2>1, <2>2, ConsumersTyped
    <3> QED BY <2>1, <3>1, <3>2
  <2>3. CASE d \notin RequiredProps[q]
    BY <2>1, <2>3 DEF ExecutionQueriesConsume
  <2> QED BY <2>2, <2>3
<1>3. eqInvalidated' \in [RunnableQueries -> BOOLEAN]
  BY Zenon DEF ExecutionQueriesConsume, ExecutionQueriesTyped
<1>4. eqState' = eqState BY DEF ExecutionQueriesConsume
<1> QED BY <1>1, <1>2, <1>3, <1>4 DEF ExecutionQueriesTyped

(* ReportingQueryNodeData.consume keeps the types. *)
LEMMA EntrypointsTyped ==
    ASSUME NEW d, NEW res \in Optional(Results),
           ReportingQueriesTyped, ReportingQueriesConsume(d, res)
    PROVE  ReportingQueriesTyped'
<1>1. DOMAIN rqResults' = GraphQueries BY DEF ReportingQueriesConsume
<1>2. ASSUME NEW q \in GraphQueries
      PROVE  rqResults'[q] \in [Entrypoints[q] -> Optional(Results)]
  <2>1. rqResults[q] \in [Entrypoints[q] -> Optional(Results)]
    BY DEF ReportingQueriesTyped
  <2>2. CASE d \in Entrypoints[q]
    <3>1. rqResults'[q] =
            [rqResults[q] EXCEPT ![d] = ConsumeEntrypoint(rqResults[q][d], res)]
      BY <2>2 DEF ReportingQueriesConsume
    <3>2. ConsumeEntrypoint(rqResults[q][d], res) \in Optional(Results)
      BY <2>1, <2>2, ConsumersTyped
    <3> QED BY <2>1, <3>1, <3>2
  <2>3. CASE d \notin Entrypoints[q]
    BY <2>1, <2>3 DEF ReportingQueriesConsume
  <2> QED BY <2>2, <2>3
<1>3. rqInvalidated' \in [GraphQueries -> BOOLEAN]
  BY Zenon DEF ReportingQueriesConsume, ReportingQueriesTyped
<1> QED BY <1>1, <1>2, <1>3 DEF ReportingQueriesTyped

(* ReportingJobNodeData.consume of a result keeps the types. *)
LEMMA JobDataTyped ==
    ASSUME NEW d, NEW res \in Optional(Results),
           JobsTyped, JobsConsumeData(d, res)
    PROVE  JobsTyped'
<1>1. DOMAIN rjData' = Jobs BY DEF JobsConsumeData
<1>2. ASSUME NEW j \in Jobs
      PROVE  rjData'[j] \in [JobData[j] -> Optional(Results)]
  <2>1. rjData[j] \in [JobData[j] -> Optional(Results)]
    BY DEF JobsTyped
  <2>2. CASE d \in JobData[j]
    <3>1. rjData'[j] = [rjData[j] EXCEPT ![d] = ConsumeJobData(rjData[j][d], res)]
      BY <2>2 DEF JobsConsumeData
    <3>2. ConsumeJobData(rjData[j][d], res) \in Optional(Results)
      BY <2>1, <2>2, ConsumersTyped
    <3> QED BY <2>1, <3>1, <3>2
  <2>3. CASE d \notin JobData[j]
    BY <2>1, <2>3 DEF JobsConsumeData
  <2> QED BY <2>2, <2>3
<1>3. /\ rjInvalidated' \in [Jobs -> BOOLEAN]
      /\ rjCompleted' \in [Jobs -> BOOLEAN]
  BY Zenon DEF JobsConsumeData, JobsTyped
<1> QED BY <1>1, <1>2, <1>3 DEF JobsTyped

(***************************************************************************)
(* Every recalculate leaves the types alone.  The parts of the state it    *)
(* does not touch are the same as before; the steps are about the others.  *)
(***************************************************************************)
LEMMA DatapointTyped ==
    ASSUME TypeInv, NEW item \in queue, RecalculateDatapoint(item),
           UNCHANGED <<pc, done, err>>
    PROVE  TypeInv'
<1> DEFINE d == item[1][2]
<1>1. d \in GraphDatapoints /\ dpRes[d] \in Optional(Results)
  BY NodeKinds DEF RecalculateDatapoint, TypeInv, TypeOK, LoopTyped, DatapointsTyped
<1>2. DatapointsTyped'
  BY <1>1 DEF RecalculateDatapoint, TypeInv, TypeOK, DatapointsTyped, nodeVars, dpVars
<1>3. LoopTyped'
  BY EmitTyped DEF RecalculateDatapoint, TypeInv, TypeOK, LoopTyped
<1>4. ChannelsTyped' /\ ManagerTyped' /\ PendingHasQuery'
  BY DEF RecalculateDatapoint, TypeInv, TypeOK, ChannelsTyped, ManagerTyped,
         PendingHasQuery, chanVars, emVars
<1>5. CASE dpInvalidated[d]
  <2>1. /\ ReportingQueriesConsume(d, dpRes[d])
        /\ ExecutionQueriesConsume(d, dpRes[d])
        /\ JobsConsumeData(d, dpRes[d])
    BY <1>5 DEF RecalculateDatapoint
  <2>2. ExecutionQueriesTyped' BY <1>1, <2>1, PropertiesTyped DEF TypeInv, TypeOK
  <2>3. ReportingQueriesTyped' BY <1>1, <2>1, EntrypointsTyped DEF TypeInv, TypeOK
  <2>4. JobsTyped' BY <1>1, <2>1, JobDataTyped DEF TypeInv, TypeOK
  <2>5. CollectorsTyped'
    BY <1>1, <1>5 DEF RecalculateDatapoint, FinisherConsume, TypeInv, TypeOK,
       CollectorsTyped
  <2> QED BY <1>2, <1>3, <1>4, <2>2, <2>3, <2>4, <2>5 DEF TypeInv, TypeOK
<1>6. CASE ~dpInvalidated[d]
  <2>1. UNCHANGED nodeVars BY <1>6 DEF RecalculateDatapoint
  <2>2. ExecutionQueriesTyped' /\ ReportingQueriesTyped'
    BY <2>1 DEF nodeVars, eqVars, rqVars, ExecutionQueriesTyped, ReportingQueriesTyped,
       TypeInv, TypeOK
  <2>3. JobsTyped' /\ CollectorsTyped'
    BY <2>1 DEF nodeVars, rjVars, finVars, colVars, JobsTyped, CollectorsTyped,
       TypeInv, TypeOK
  <2> QED BY <1>2, <1>3, <1>4, <2>2, <2>3 DEF TypeInv, TypeOK
<1> QED BY <1>5, <1>6

(* Queueing a query keeps the types. *)
LEMMA ExecutionQueryTyped ==
    ASSUME TypeInv, NEW item \in queue, RecalculateExecutionQuery(item),
           UNCHANGED <<pc, done, err>>
    PROVE  TypeInv'
<1> DEFINE q == item[1][2]
<1>1. q \in RunnableQueries
  BY NodeKinds DEF RecalculateExecutionQuery, TypeInv, TypeOK, LoopTyped
<1>2. RunState(q) \in {"notReady", "ready", "executed"}
  BY <1>1 DEF RunState, TypeInv, TypeOK, ExecutionQueriesTyped
<1>3. ExecutionQueriesTyped'
  BY <1>1, <1>2 DEF RecalculateExecutionQuery, ExecutionQueriesTyped, eqVars,
     TypeInv, TypeOK
<1>4. ChannelsTyped'
  <2>1. runQueue' = runQueue \/ runQueue' = Append(runQueue, q)
    BY DEF RecalculateExecutionQuery
  <2>2. runQueue \in Seq(RunnableQueries) BY DEF ChannelsTyped, TypeInv, TypeOK
  <2>3. runQueue' \in Seq(RunnableQueries) BY <1>1, <2>1, <2>2
  <2> QED BY <2>3 DEF RecalculateExecutionQuery, ChannelsTyped, TypeInv, TypeOK
<1>5. LoopTyped'
  BY EmitTyped DEF RecalculateExecutionQuery, TypeInv, TypeOK, LoopTyped
<1>6. DatapointsTyped' /\ ReportingQueriesTyped' /\ JobsTyped'
  BY DEF RecalculateExecutionQuery, dpVars, rqVars, rjVars, DatapointsTyped,
     ReportingQueriesTyped, JobsTyped, TypeInv, TypeOK
<1>7. CollectorsTyped' /\ ManagerTyped' /\ PendingHasQuery'
  BY DEF RecalculateExecutionQuery, finVars, colVars, emVars, CollectorsTyped,
     ManagerTyped, PendingHasQuery, TypeInv, TypeOK
<1> QED BY <1>3, <1>4, <1>5, <1>6, <1>7 DEF TypeInv, TypeOK

(* Sending the score of a query keeps the types. *)
LEMMA ReportingQueryTyped ==
    ASSUME TypeInv, NEW item \in queue, RecalculateReportingQuery(item),
           UNCHANGED <<pc, done, err>>
    PROVE  TypeInv'
<1>1. ReportingQueriesTyped'
  BY DEF RecalculateReportingQuery, ReportingQueriesTyped, TypeInv, TypeOK
<1>2. JobsTyped'
  <2>1. rjInvalidated' \in [Jobs -> BOOLEAN]
    BY DEF RecalculateReportingQuery, JobsConsumeScore, JobsTyped, TypeInv, TypeOK
  <2> QED BY <2>1 DEF RecalculateReportingQuery, JobsTyped, TypeInv, TypeOK
<1>3. CollectorsTyped'
  BY DEF RecalculateReportingQuery, ScoreCollectorConsume, finVars, colVars,
     CollectorsTyped, TypeInv, TypeOK
<1>4. LoopTyped'
  BY EmitTyped DEF RecalculateReportingQuery, TypeInv, TypeOK, LoopTyped
<1>5. DatapointsTyped' /\ ExecutionQueriesTyped'
  BY DEF RecalculateReportingQuery, dpVars, eqVars, DatapointsTyped,
     ExecutionQueriesTyped, TypeInv, TypeOK
<1>6. ChannelsTyped' /\ ManagerTyped' /\ PendingHasQuery'
  BY DEF RecalculateReportingQuery, chanVars, emVars, ChannelsTyped,
     ManagerTyped, PendingHasQuery, TypeInv, TypeOK
<1> QED BY <1>1, <1>2, <1>3, <1>4, <1>5, <1>6 DEF TypeInv, TypeOK

(* Sending the score of a job keeps the types. *)
LEMMA ReportingJobTyped ==
    ASSUME TypeInv, NEW item \in queue, RecalculateReportingJob(item),
           UNCHANGED <<pc, done, err>>
    PROVE  TypeInv'
<1>1. JobsTyped'
  <2>1. rjInvalidated' \in [Jobs -> BOOLEAN]
    BY DEF RecalculateReportingJob, JobsConsumeScore, JobsTyped, TypeInv, TypeOK
  <2>2. rjCompleted' \in [Jobs -> BOOLEAN]
    BY DEF RecalculateReportingJob, JobsTyped, TypeInv, TypeOK
  <2> QED BY <2>1, <2>2 DEF RecalculateReportingJob, JobsTyped, TypeInv, TypeOK
<1>2. CollectorsTyped'
  BY DEF RecalculateReportingJob, ScoreCollectorConsume, finVars, colVars,
     CollectorsTyped, TypeInv, TypeOK
<1>3. LoopTyped'
  BY EmitTyped DEF RecalculateReportingJob, TypeInv, TypeOK, LoopTyped
<1>4. DatapointsTyped' /\ ExecutionQueriesTyped' /\ ReportingQueriesTyped'
  BY DEF RecalculateReportingJob, dpVars, eqVars, rqVars, DatapointsTyped,
     ExecutionQueriesTyped, ReportingQueriesTyped, TypeInv, TypeOK
<1>5. ChannelsTyped' /\ ManagerTyped' /\ PendingHasQuery'
  BY DEF RecalculateReportingJob, chanVars, emVars, ChannelsTyped,
     ManagerTyped, PendingHasQuery, TypeInv, TypeOK
<1> QED BY <1>1, <1>2, <1>3, <1>4, <1>5 DEF TypeInv, TypeOK

(* Sending a supplied score keeps the types. *)
LEMMA StaticTyped ==
    ASSUME TypeInv, NEW item \in queue, RecalculateStatic(item),
           UNCHANGED <<pc, done, err>>
    PROVE  TypeInv'
<1>1. JobsTyped'
  <2>1. rjInvalidated' \in [Jobs -> BOOLEAN]
    BY DEF RecalculateStatic, JobsConsumeScore, JobsTyped, TypeInv, TypeOK
  <2> QED BY <2>1 DEF RecalculateStatic, JobsTyped, TypeInv, TypeOK
<1>2. CollectorsTyped'
  BY DEF RecalculateStatic, ScoreCollectorConsume, finVars, colVars,
     CollectorsTyped, TypeInv, TypeOK
<1>3. LoopTyped'
  BY EmitTyped DEF RecalculateStatic, TypeInv, TypeOK, LoopTyped
<1>4. DatapointsTyped' /\ ExecutionQueriesTyped' /\ ReportingQueriesTyped'
  BY DEF RecalculateStatic, dpVars, eqVars, rqVars, DatapointsTyped,
     ExecutionQueriesTyped, ReportingQueriesTyped, TypeInv, TypeOK
<1>5. ChannelsTyped' /\ ManagerTyped' /\ PendingHasQuery'
  BY DEF RecalculateStatic, chanVars, emVars, ChannelsTyped,
     ManagerTyped, PendingHasQuery, TypeInv, TypeOK
<1> QED BY <1>1, <1>2, <1>3, <1>4, <1>5 DEF TypeInv, TypeOK

(* The finisher and the two collector nodes. *)
LEMMA SinkTyped ==
    ASSUME TypeInv, NEW item \in queue, UNCHANGED <<pc, done, err>>,
           \/ RecalculateFinisher(item)
           \/ RecalculateDatapointCollector(item)
           \/ RecalculateScoreCollector(item)
    PROVE  TypeInv'
<1> USE DEF RecalculateFinisher, RecalculateDatapointCollector,
        RecalculateScoreCollector
<1>1. CollectorsTyped'
  <2>1. CASE RecalculateFinisher(item)
    <3>1. doneClosed' \in Nat
      BY <2>1 DEF CollectorsTyped, TypeInv, TypeOK
    <3>2. UNCHANGED <<remaining, dcUnreported, sunkData>> /\ finInvalidated' = FALSE
      BY <2>1 DEF colVars
    <3> QED BY <3>1, <3>2 DEF CollectorsTyped, TypeInv, TypeOK
  <2>2. CASE RecalculateDatapointCollector(item)
    BY <2>2 DEF finVars, CollectorsTyped, Optional, TypeInv, TypeOK
  <2>3. CASE RecalculateScoreCollector(item)
    BY <2>3 DEF finVars, CollectorsTyped, TypeInv, TypeOK
  <2> QED BY <2>1, <2>2, <2>3
<1>2. LoopTyped'
  BY EmitTyped DEF TypeInv, TypeOK, LoopTyped
<1>3. JobsTyped' BY DEF rjVars, JobsTyped, TypeInv, TypeOK
<1>4. DatapointsTyped' /\ ExecutionQueriesTyped' /\ ReportingQueriesTyped'
  BY DEF dpVars, eqVars, rqVars, DatapointsTyped, ExecutionQueriesTyped,
     ReportingQueriesTyped, TypeInv, TypeOK
<1>5. ChannelsTyped' /\ ManagerTyped' /\ PendingHasQuery'
  BY DEF chanVars, emVars, ChannelsTyped, ManagerTyped, PendingHasQuery,
     TypeInv, TypeOK
<1> QED BY <1>1, <1>2, <1>3, <1>4, <1>5 DEF TypeInv, TypeOK

(* What reaches resultChan is a result of a datapoint of the graph. *)
LEMMA ReceiveTyped ==
    ASSUME TypeInv, ReceiveResult
    PROVE  TypeInv'
<1> DEFINE d == Head(resultChan).dp
           res == Head(resultChan).res
<1>1. resultChan \in Seq(ResultMessages) /\ resultChan # <<>>
  BY DEF ReceiveResult, ChannelsTyped, TypeInv, TypeOK
<1>2. Head(resultChan) \in ResultMessages BY <1>1
<1>3. d \in GraphDatapoints /\ res \in Results BY <1>2 DEF ResultMessages
<1>4. DatapointsTyped'
  BY <1>3 DEF ReceiveResult, DatapointsTyped, Optional, TypeInv, TypeOK
<1>5. LoopTyped'
  <2>1. DatapointNode(d) \in Nodes BY <1>3 DEF Nodes
  <2>2. \A i \in queue' : i[1] \in Nodes
    BY <2>1 DEF ReceiveResult, LoopTyped, TypeInv, TypeOK
  <2> QED BY <2>2 DEF ReceiveResult, LoopTyped, TypeInv, TypeOK
<1>6. ChannelsTyped'
  <2>1. Tail(resultChan) \in Seq(ResultMessages) BY <1>1
  <2> QED BY <2>1 DEF ReceiveResult, ChannelsTyped, TypeInv, TypeOK
<1>7. ExecutionQueriesTyped' /\ ReportingQueriesTyped' /\ JobsTyped'
  BY DEF ReceiveResult, eqVars, rqVars, rjVars, ExecutionQueriesTyped,
     ReportingQueriesTyped, JobsTyped, TypeInv, TypeOK
<1>8. CollectorsTyped' /\ ManagerTyped' /\ PendingHasQuery'
  BY DEF ReceiveResult, finVars, colVars, emVars, CollectorsTyped,
     ManagerTyped, PendingHasQuery, TypeInv, TypeOK
<1> QED BY <1>4, <1>5, <1>6, <1>7, <1>8 DEF TypeInv, TypeOK

(* The other steps of the graph loop move its program counter. *)
LEMMA LoopStepTyped ==
    ASSUME TypeInv,
           RoundEnds \/ ReceiveDone \/ ReceiveError \/ DrainEnds \/ Stop \/ Return
    PROVE  TypeInv'
<1> USE DEF RoundEnds, ReceiveDone, ReceiveError, DrainEnds, Stop, Return
<1>1. UNCHANGED nodeVars OBVIOUS
<1>2. DatapointsTyped' /\ ExecutionQueriesTyped' /\ ReportingQueriesTyped'
  BY <1>1 DEF nodeVars, dpVars, eqVars, rqVars, DatapointsTyped,
     ExecutionQueriesTyped, ReportingQueriesTyped, TypeInv, TypeOK
<1>3. JobsTyped' /\ CollectorsTyped'
  BY <1>1 DEF nodeVars, rjVars, finVars, colVars, JobsTyped, CollectorsTyped,
     TypeInv, TypeOK
<1>4. LoopTyped' BY DEF LoopTyped, TypeInv, TypeOK
<1>5. ChannelsTyped' BY DEF chanVars, ChannelsTyped, TypeInv, TypeOK
<1>6. ManagerTyped' /\ PendingHasQuery'
  BY DEF emVars, ManagerTyped, PendingHasQuery, TypeInv, TypeOK
<1> QED BY <1>2, <1>3, <1>4, <1>5, <1>6 DEF TypeInv, TypeOK

(* Every step of Execute keeps the types. *)
LEMMA GraphLoopTyped == TypeInv /\ GraphLoop => TypeInv'
<1> SUFFICES ASSUME TypeInv, GraphLoop PROVE TypeInv' OBVIOUS
<1>1. CASE ProcessQueue
  <2>1. PICK item \in queue : Recalculate(item)
    BY <1>1 DEF ProcessQueue
  <2>2. UNCHANGED <<pc, done, err>> BY <1>1 DEF ProcessQueue
  <2> QED BY <2>1, <2>2, DatapointTyped, ExecutionQueryTyped, ReportingQueryTyped,
             ReportingJobTyped, StaticTyped, SinkTyped DEF Recalculate
<1>2. CASE ReceiveResult BY <1>2, ReceiveTyped
<1> QED BY <1>1, <1>2, LoopStepTyped DEF GraphLoop

(* Messages of a query are about its codepoints. *)
LEMMA ManagerStepTyped == TypeInv /\ (ExecutionManager \/ Engine) => TypeInv'
<1> SUFFICES ASSUME TypeInv, ExecutionManager \/ Engine PROVE TypeInv' OBVIOUS
<1>1. UNCHANGED <<nodeVars, loopVars>>
  BY DEF ExecutionManager, Engine, CheckStop, SelectStop, Dequeue, BundleDone,
     BundleFails, Broadcast, Callback, SendResult
<1>2. DatapointsTyped' /\ ExecutionQueriesTyped' /\ ReportingQueriesTyped'
  BY <1>1 DEF nodeVars, dpVars, eqVars, rqVars, DatapointsTyped,
     ExecutionQueriesTyped, ReportingQueriesTyped, TypeInv, TypeOK
<1>3. JobsTyped' /\ CollectorsTyped' /\ LoopTyped'
  BY <1>1 DEF nodeVars, loopVars, rjVars, finVars, colVars, JobsTyped,
     CollectorsTyped, LoopTyped, TypeInv, TypeOK
<1>4. SUFFICES ChannelsTyped' /\ ManagerTyped' /\ PendingHasQuery'
  BY <1>2, <1>3 DEF TypeInv, TypeOK
<1> USE DEF ChannelsTyped, ManagerTyped, PendingHasQuery, TypeInv, TypeOK
<1>5. CASE CheckStop \/ SelectStop \/ BundleDone \/ BundleFails
  BY <1>5 DEF CheckStop, SelectStop, BundleDone, BundleFails, chanVars
<1>6. CASE Dequeue
  <2>1. Head(runQueue) \in RunnableQueries /\ Tail(runQueue) \in Seq(RunnableQueries)
    BY <1>6 DEF Dequeue
  <2>2. ChannelsTyped' BY <1>6, <2>1 DEF Dequeue
  <2>3. ManagerTyped' /\ PendingHasQuery'
    BY <1>6, <2>1, CodepointsInGraph DEF Dequeue, Optional
  <2> QED BY <2>2, <2>3
<1>7. ASSUME NEW d \in Datapoints, Broadcast(d)
      PROVE  ChannelsTyped' /\ ManagerTyped' /\ PendingHasQuery'
  <2>1. Message(d, "ph") \in ResultMessages
    BY <1>7 DEF Broadcast, Message, ResultMessages, Results
  <2>2. resultChan' = resultChan \/ resultChan' = Append(resultChan, Message(d, "ph"))
    BY <1>7 DEF Broadcast, SendOrStop
  <2>3. resultChan' \in Seq(ResultMessages) BY <2>1, <2>2
  <2> QED BY <1>7, <2>3 DEF Broadcast
<1>8. ASSUME NEW d \in Datapoints, NEW res \in Results, Callback(d, res)
      PROVE  ChannelsTyped' /\ ManagerTyped' /\ PendingHasQuery'
  <2>1. Message(d, res) \in ResultMessages /\ emQuery \in RunnableQueries
    BY <1>8 DEF Callback, Message, ResultMessages
  <2>2. inflight' \subseteq RunnableQueries \X ResultMessages
    BY <1>8, <2>1 DEF Callback
  <2> QED BY <1>8, <2>2 DEF Callback, chanVars
<1>9. ASSUME NEW call \in inflight, SendResult(call)
      PROVE  ChannelsTyped' /\ ManagerTyped' /\ PendingHasQuery'
  <2>1. call[2] \in ResultMessages OBVIOUS
  <2>2. resultChan' = resultChan \/ resultChan' = Append(resultChan, call[2])
    BY <1>9 DEF SendResult, SendOrStop
  <2>3. resultChan' \in Seq(ResultMessages) BY <2>1, <2>2
  <2> QED BY <1>9, <2>3 DEF SendResult
<1> QED BY <1>5, <1>6, <1>7, <1>8, <1>9 DEF ExecutionManager, Engine

(* TypeInv is inductive. *)
LEMMA TypeStep == TypeInv /\ [Next]_vars => TypeInv'
<1>1. TypeInv /\ UNCHANGED vars => TypeInv'
  <2> SUFFICES ASSUME TypeInv, UNCHANGED vars PROVE TypeInv' OBVIOUS
  <2>1. DatapointsTyped' /\ ExecutionQueriesTyped' /\ ReportingQueriesTyped'
    BY DEF vars, nodeVars, dpVars, eqVars, rqVars, DatapointsTyped,
       ExecutionQueriesTyped, ReportingQueriesTyped, TypeInv, TypeOK
  <2>2. JobsTyped' /\ CollectorsTyped' /\ LoopTyped'
    BY DEF vars, nodeVars, loopVars, rjVars, finVars, colVars, JobsTyped,
       CollectorsTyped, LoopTyped, TypeInv, TypeOK
  <2>3. ChannelsTyped' /\ ManagerTyped' /\ PendingHasQuery'
    BY DEF vars, chanVars, emVars, ChannelsTyped, ManagerTyped, PendingHasQuery,
       TypeInv, TypeOK
  <2> QED BY <2>1, <2>2, <2>3 DEF TypeInv, TypeOK
<1> QED BY <1>1, GraphLoopTyped, ManagerStepTyped DEF Next, Terminated

(***************************************************************************)
(* Every node of the graph loop, every message of the execution manager    *)
(* and every queue item is what the code takes it for, whatever the graph. *)
(***************************************************************************)
THEOREM TypeCorrect == Spec => []TypeOK
<1>1. Spec => []TypeInv BY TypeInit, TypeStep, PTL DEF Spec
<1>2. TypeInv => TypeOK BY DEF TypeInv
<1> QED BY <1>1, <1>2, PTL

-----------------------------------------------------------------------------
(***************************************************************************)
(* The copies of a result.  CopiesAgree is not inductive: it says nothing  *)
(* of the copies of a datapoint that waits to be recalculated.  Those are  *)
(* absent, or the node's result upgrades them, so each consumer will take  *)
(* it.                                                                     *)
(***************************************************************************)
Lag(copy, res, invalidated) ==
    \/ copy = res
    \/ invalidated /\ res # None /\ (copy = None \/ resultUpgrades(copy, res))

CopiesLag(d) ==
    /\ dpInvalidated[d] => dpRes[d] # None
    /\ \A q \in RunnableQueries :
         d \in RequiredProps[q] => Lag(eqProps[q][d], dpRes[d], dpInvalidated[d])
    /\ \A q \in GraphQueries :
         d \in Entrypoints[q] => Lag(rqResults[q][d], dpRes[d], dpInvalidated[d])
    /\ \A j \in Jobs :
         d \in JobData[j] => Lag(rjData[j][d], dpRes[d], dpInvalidated[d])
    /\ dpInvalidated[d] \/ CollectedCopy(d)

CopiesInv == \A d \in GraphDatapoints : CopiesLag(d)

copyVars == <<dpRes, dpInvalidated, eqProps, rqResults, rjData, dcUnreported, sunkData>>

(* Datapoint nodes are made of checksums. *)
LEMMA GraphDatapointsTyped == GraphDatapoints \subseteq Datapoints
BY GraphAssumption DEF GraphDatapoints, GraphQueries, CodepointChecksums

(* A result that upgrades what upgraded a copy upgrades the copy. *)
LEMMA LagGrows ==
    ASSUME NEW copy \in Optional(Results), NEW prev \in Optional(Results),
           NEW res \in Results, Lag(copy, prev, TRUE),
           prev = None \/ resultUpgrades(prev, res)
    PROVE  Lag(copy, res, TRUE)
BY DEF Lag, Optional, Results, Executed, None, resultUpgrades,
   isPlaceholderResult, isNilResult, hasRealData

(* Each of the three ways to consume a result takes it when it lags behind. *)
LEMMA LagCloses ==
    ASSUME NEW copy \in Optional(Results), NEW res \in Results,
           NEW inv \in BOOLEAN, Lag(copy, res, inv)
    PROVE  /\ ConsumeProperty(copy, res) = res
           /\ ConsumeEntrypoint(copy, res) = res
           /\ ConsumeJobData(copy, res) = res
BY DEF Lag, Optional, Results, Executed, None, resultUpgrades,
   isPlaceholderResult, isNilResult, hasRealData, ConsumeProperty,
   ConsumeEntrypoint, ConsumeJobData

(* Initially all copies are missing. *)
LEMMA CopiesInit == Init => CopiesInv
<1> SUFFICES ASSUME Init, NEW d \in GraphDatapoints PROVE CopiesLag(d)
  BY DEF CopiesInv
<1>1. d \in Datapoints BY GraphDatapointsTyped
<1>2. /\ dpRes[d] = Preset(d)
      /\ dpInvalidated[d] = (Preset(d) # None)
      /\ dcUnreported[d] = None /\ sunkData[d] = None
  BY <1>1 DEF Init
<1>3. \A q \in RunnableQueries : d \in RequiredProps[q] => eqProps[q][d] = None
  BY DEF Init
<1>4. \A q \in GraphQueries : d \in Entrypoints[q] => rqResults[q][d] = None
  BY DEF Init
<1>5. \A j \in Jobs : d \in JobData[j] => rjData[j][d] = None
  BY DEF Init
<1>6. Lag(None, dpRes[d], dpInvalidated[d]) BY <1>2 DEF Lag
<1> QED BY <1>2, <1>3, <1>4, <1>5, <1>6 DEF CopiesLag, CollectedCopy

(* A step that changes no copy keeps CopiesInv. *)
LEMMA CopiesUnchanged == CopiesInv /\ UNCHANGED copyVars => CopiesInv'
BY DEF CopiesInv, CopiesLag, CollectedCopy, copyVars

(* The copies have the types of results. *)
LEMMA CopiesTyped ==
    ASSUME TypeInv, NEW d \in GraphDatapoints
    PROVE  /\ dpRes[d] \in Optional(Results) /\ dpInvalidated[d] \in BOOLEAN
           /\ \A q \in RunnableQueries :
                d \in RequiredProps[q] => eqProps[q][d] \in Optional(Results)
           /\ \A q \in GraphQueries :
                d \in Entrypoints[q] => rqResults[q][d] \in Optional(Results)
           /\ \A j \in Jobs :
                d \in JobData[j] => rjData[j][d] \in Optional(Results)
<1>1. dpRes[d] \in Optional(Results) /\ dpInvalidated[d] \in BOOLEAN
  BY DEF TypeInv, TypeOK, DatapointsTyped
<1>2. \A q \in RunnableQueries :
         d \in RequiredProps[q] => eqProps[q][d] \in Optional(Results)
  BY DEF TypeInv, TypeOK, ExecutionQueriesTyped
<1>3. \A q \in GraphQueries :
         d \in Entrypoints[q] => rqResults[q][d] \in Optional(Results)
  BY DEF TypeInv, TypeOK, ReportingQueriesTyped
<1>4. \A j \in Jobs : d \in JobData[j] => rjData[j][d] \in Optional(Results)
  BY DEF TypeInv, TypeOK, JobsTyped
<1> QED BY <1>1, <1>2, <1>3, <1>4

(* The three consumers take a result that their copies lag behind. *)
LEMMA ConsumersCatchUp ==
    ASSUME TypeInv, NEW d \in GraphDatapoints, CopiesLag(d), dpRes[d] # None,
           ReportingQueriesConsume(d, dpRes[d]),
           ExecutionQueriesConsume(d, dpRes[d]),
           JobsConsumeData(d, dpRes[d])
    PROVE  /\ \A q \in RunnableQueries :
                d \in RequiredProps[q] => eqProps'[q][d] = dpRes[d]
           /\ \A q \in GraphQueries :
                d \in Entrypoints[q] => rqResults'[q][d] = dpRes[d]
           /\ \A j \in Jobs : d \in JobData[j] => rjData'[j][d] = dpRes[d]
<1>1. dpRes[d] \in Results /\ dpInvalidated[d] \in BOOLEAN
  BY CopiesTyped DEF Optional
<1>2. ASSUME NEW q \in RunnableQueries, d \in RequiredProps[q]
      PROVE  eqProps'[q][d] = dpRes[d]
  <2>1. eqProps[q] \in [RequiredProps[q] -> Optional(Results)]
    BY DEF TypeInv, TypeOK, ExecutionQueriesTyped
  <2>2. eqProps'[q] = [eqProps[q] EXCEPT ![d] = ConsumeProperty(eqProps[q][d], dpRes[d])]
    BY <1>2 DEF ExecutionQueriesConsume
  <2>3. ConsumeProperty(eqProps[q][d], dpRes[d]) = dpRes[d]
    BY <1>1, <1>2, <2>1, LagCloses DEF CopiesLag
  <2> QED BY <1>2, <2>1, <2>2, <2>3
<1>3. ASSUME NEW q \in GraphQueries, d \in Entrypoints[q]
      PROVE  rqResults'[q][d] = dpRes[d]
  <2>1. rqResults[q] \in [Entrypoints[q] -> Optional(Results)]
    BY DEF TypeInv, TypeOK, ReportingQueriesTyped
  <2>2. rqResults'[q] =
          [rqResults[q] EXCEPT ![d] = ConsumeEntrypoint(rqResults[q][d], dpRes[d])]
    BY <1>3 DEF ReportingQueriesConsume
  <2>3. ConsumeEntrypoint(rqResults[q][d], dpRes[d]) = dpRes[d]
    BY <1>1, <1>3, <2>1, LagCloses DEF CopiesLag
  <2> QED BY <1>3, <2>1, <2>2, <2>3
<1>4. ASSUME NEW j \in Jobs, d \in JobData[j]
      PROVE  rjData'[j][d] = dpRes[d]
  <2>1. rjData[j] \in [JobData[j] -> Optional(Results)]
    BY DEF TypeInv, TypeOK, JobsTyped
  <2>2. rjData'[j] = [rjData[j] EXCEPT ![d] = ConsumeJobData(rjData[j][d], dpRes[d])]
    BY <1>4 DEF JobsConsumeData
  <2>3. ConsumeJobData(rjData[j][d], dpRes[d]) = dpRes[d]
    BY <1>1, <1>4, <2>1, LagCloses DEF CopiesLag
  <2> QED BY <1>4, <2>1, <2>2, <2>3
<1> QED BY <1>2, <1>3, <1>4

(* They leave the copies of the other datapoints alone. *)
LEMMA OthersKept ==
    ASSUME TypeInv, NEW d \in GraphDatapoints, NEW e \in GraphDatapoints, e # d,
           NEW res, ReportingQueriesConsume(d, res),
           ExecutionQueriesConsume(d, res), JobsConsumeData(d, res)
    PROVE  /\ \A q \in RunnableQueries :
                e \in RequiredProps[q] => eqProps'[q][e] = eqProps[q][e]
           /\ \A q \in GraphQueries :
                e \in Entrypoints[q] => rqResults'[q][e] = rqResults[q][e]
           /\ \A j \in Jobs : e \in JobData[j] => rjData'[j][e] = rjData[j][e]
<1>1. \A q \in RunnableQueries :
         e \in RequiredProps[q] => eqProps'[q][e] = eqProps[q][e]
  BY DEF ExecutionQueriesConsume, TypeInv, TypeOK, ExecutionQueriesTyped
<1>2. \A q \in GraphQueries :
         e \in Entrypoints[q] => rqResults'[q][e] = rqResults[q][e]
  BY DEF ReportingQueriesConsume, TypeInv, TypeOK, ReportingQueriesTyped
<1>3. \A j \in Jobs : e \in JobData[j] => rjData'[j][e] = rjData[j][e]
  BY DEF JobsConsumeData, TypeInv, TypeOK, JobsTyped
<1> QED BY <1>1, <1>2, <1>3

(* The emission of a datapoint brings its copies up to date. *)
LEMMA DatapointCopies ==
    ASSUME TypeInv, CopiesInv, NEW item \in queue, RecalculateDatapoint(item)
    PROVE  CopiesInv'
<1> DEFINE d == item[1][2]
<1>1. d \in GraphDatapoints /\ d \in Datapoints
  BY NodeKinds, GraphDatapointsTyped DEF RecalculateDatapoint, TypeInv, TypeOK, LoopTyped
<1>2. CASE ~dpInvalidated[d]
  BY <1>2, CopiesUnchanged
     DEF RecalculateDatapoint, nodeVars, dpVars, eqVars, rqVars, rjVars, colVars, copyVars
<1>3. CASE dpInvalidated[d]
  <2>1. /\ ReportingQueriesConsume(d, dpRes[d])
        /\ ExecutionQueriesConsume(d, dpRes[d])
        /\ JobsConsumeData(d, dpRes[d])
        /\ dpInvalidated' = [dpInvalidated EXCEPT ![d] = FALSE]
        /\ dcUnreported' = IF d \in CollectedDatapoints
                           THEN [dcUnreported EXCEPT ![d] = dpRes[d]]
                           ELSE dcUnreported
        /\ UNCHANGED <<dpRes, sunkData>>
    BY <1>3 DEF RecalculateDatapoint
  <2>2. CopiesLag(d) /\ dpRes[d] # None BY <1>1, <1>3 DEF CopiesInv, CopiesLag
  <2>3. /\ dpInvalidated \in [GraphDatapoints -> BOOLEAN]
        /\ dcUnreported \in [Datapoints -> Optional(Results)]
    BY DEF TypeInv, TypeOK, DatapointsTyped, CollectorsTyped
  <2>4. CopiesLag(d)'
    <3>1. dpInvalidated'[d] = FALSE /\ dpRes'[d] = dpRes[d]
      BY <1>1, <2>1, <2>3
    <3>2. CollectedCopy(d)' BY <1>1, <2>1, <2>2, <2>3 DEF CollectedCopy
    <3> QED BY <1>1, <2>1, <2>2, <3>1, <3>2, ConsumersCatchUp DEF CopiesLag, Lag
  <2>5. ASSUME NEW e \in GraphDatapoints, e # d PROVE CopiesLag(e)'
    <3>1. dpInvalidated'[e] = dpInvalidated[e] /\ dpRes'[e] = dpRes[e]
      BY <1>1, <2>1, <2>3, <2>5
    <3>2. dcUnreported'[e] = dcUnreported[e] /\ sunkData'[e] = sunkData[e]
      BY <1>1, <2>1, <2>3, <2>5, GraphDatapointsTyped
    <3>3. CopiesLag(e) BY DEF CopiesInv
    <3>4. dpInvalidated'[e] \/ CollectedCopy(e)'
      BY <3>1, <3>2, <3>3 DEF CopiesLag, CollectedCopy
    <3> QED BY <1>1, <2>1, <2>5, <3>1, <3>3, <3>4, OthersKept DEF CopiesLag
  <2> QED BY <2>4, <2>5 DEF CopiesInv
<1> QED BY <1>2, <1>3

(* A received result is at most one upgrade ahead of the copies. *)
LEMMA ReceiveCopies ==
    ASSUME TypeInv, CopiesInv, ReceiveResult
    PROVE  CopiesInv'
<1>1. PICK d \in GraphDatapoints, res \in Results :
          d = Head(resultChan).dp /\ res = Head(resultChan).res
  <2>1. resultChan \in Seq(ResultMessages) /\ resultChan # <<>>
    BY DEF ReceiveResult, ChannelsTyped, TypeInv, TypeOK
  <2>2. Head(resultChan) \in ResultMessages BY <2>1
  <2> QED BY <2>2 DEF ResultMessages
<1> DEFINE accepted == dpRes[d] = None \/ resultUpgrades(dpRes[d], res)
<1>2. UNCHANGED <<eqProps, rqResults, rjData, dcUnreported, sunkData>>
  BY DEF ReceiveResult, eqVars, rqVars, rjVars, colVars
<1>3. /\ dpRes' = IF accepted THEN [dpRes EXCEPT ![d] = res] ELSE dpRes
      /\ dpInvalidated' = [dpInvalidated EXCEPT ![d] = @ \/ accepted]
  BY <1>1 DEF ReceiveResult
<1>4. /\ dpRes \in [GraphDatapoints -> Optional(Results)]
      /\ dpInvalidated \in [GraphDatapoints -> BOOLEAN]
  BY DEF TypeInv, TypeOK, DatapointsTyped
<1>5. CASE ~accepted
  <2>1. dpRes' = dpRes BY <1>3, <1>5
  <2>2. dpInvalidated' = dpInvalidated BY <1>1, <1>3, <1>4, <1>5
  <2> QED BY <1>2, <2>1, <2>2, CopiesUnchanged DEF copyVars
<1>6. CASE accepted
  <2>1. dpRes'[d] = res /\ dpInvalidated'[d] = TRUE BY <1>1, <1>3, <1>4, <1>6
  <2>2. res # None BY <1>1 DEF Results, Executed, None
  <2>3. CopiesLag(d) BY <1>1 DEF CopiesInv
  <2>4. CopiesLag(d)'
    <3>1. ASSUME NEW copy \in Optional(Results),
                 Lag(copy, dpRes[d], dpInvalidated[d])
          PROVE  Lag(copy, dpRes'[d], dpInvalidated'[d])
      <4>1. dpRes[d] \in Optional(Results) /\ Lag(copy, dpRes[d], TRUE)
        BY <1>4, <3>1 DEF Lag
      <4>2. Lag(copy, res, TRUE) BY <1>6, <4>1, LagGrows
      <4> QED BY <2>1, <4>2
    <3>2. \A q \in RunnableQueries :
             d \in RequiredProps[q] => Lag(eqProps'[q][d], dpRes'[d], dpInvalidated'[d])
      BY <1>1, <1>2, <2>3, <3>1, CopiesTyped DEF CopiesLag
    <3>3. \A q \in GraphQueries :
             d \in Entrypoints[q] => Lag(rqResults'[q][d], dpRes'[d], dpInvalidated'[d])
      BY <1>1, <1>2, <2>3, <3>1, CopiesTyped DEF CopiesLag
    <3>4. \A j \in Jobs :
             d \in JobData[j] => Lag(rjData'[j][d], dpRes'[d], dpInvalidated'[d])
      BY <1>1, <1>2, <2>3, <3>1, CopiesTyped DEF CopiesLag
    <3> QED BY <2>1, <2>2, <3>2, <3>3, <3>4 DEF CopiesLag
  <2>5. ASSUME NEW e \in GraphDatapoints, e # d PROVE CopiesLag(e)'
    <3>1. dpInvalidated'[e] = dpInvalidated[e] /\ dpRes'[e] = dpRes[e]
      BY <1>1, <1>3, <1>4, <2>5
    <3>2. CopiesLag(e) BY DEF CopiesInv
    <3>3. dpInvalidated'[e] \/ CollectedCopy(e)'
      BY <1>2, <3>1, <3>2 DEF CopiesLag, CollectedCopy
    <3> QED BY <1>2, <3>1, <3>2, <3>3 DEF CopiesLag
  <2> QED BY <2>4, <2>5 DEF CopiesInv
<1> QED BY <1>5, <1>6

(* Handing data to the collectors loses none. *)
LEMMA CollectorCopies ==
    ASSUME CopiesInv, NEW item \in queue, RecalculateDatapointCollector(item)
    PROVE  CopiesInv'
<1> SUFFICES ASSUME NEW d \in GraphDatapoints PROVE CopiesLag(d)'
  BY DEF CopiesInv
<1>1. /\ UNCHANGED <<dpRes, dpInvalidated, eqProps, rqResults, rjData>>
      /\ CopiesLag(d) /\ d \in Datapoints
  BY GraphDatapointsTyped
     DEF RecalculateDatapointCollector, dpVars, eqVars, rqVars, rjVars, CopiesInv
<1>2. CollectedCopy(d) => CollectedCopy(d)'
  BY <1>1 DEF RecalculateDatapointCollector, CollectedCopy
<1> QED BY <1>1, <1>2 DEF CopiesLag

(* No other step touches a result or a copy of one. *)
LEMMA CopiesStep == TypeInv /\ CopiesInv /\ [Next]_vars => CopiesInv'
<1> SUFFICES ASSUME TypeInv, CopiesInv, [Next]_vars PROVE CopiesInv' OBVIOUS
<1>1. CASE ProcessQueue
  <2>1. PICK item \in queue : Recalculate(item) BY <1>1 DEF ProcessQueue
  <2>2. CASE RecalculateDatapoint(item) BY <2>2, DatapointCopies
  <2>3. CASE RecalculateDatapointCollector(item) BY <2>3, CollectorCopies
  <2>4. CASE RecalculateExecutionQuery(item)
    <3>1. eqProps' = eqProps BY <2>4 DEF RecalculateExecutionQuery, eqVars
    <3> QED BY <2>4, <3>1, CopiesUnchanged DEF RecalculateExecutionQuery, dpVars,
               rqVars, rjVars, colVars, copyVars
  <2>5. CASE RecalculateReportingQuery(item)
    BY <2>5, CopiesUnchanged DEF RecalculateReportingQuery, ScoreCollectorConsume,
       dpVars, eqVars, colVars, copyVars
  <2>6. CASE RecalculateReportingJob(item)
    BY <2>6, CopiesUnchanged DEF RecalculateReportingJob, ScoreCollectorConsume,
       dpVars, eqVars, rqVars, colVars, copyVars
  <2>7. CASE RecalculateStatic(item)
    BY <2>7, CopiesUnchanged DEF RecalculateStatic, ScoreCollectorConsume,
       dpVars, eqVars, rqVars, colVars, copyVars
  <2>8. CASE RecalculateFinisher(item) \/ RecalculateScoreCollector(item)
    BY <2>8, CopiesUnchanged DEF RecalculateFinisher, RecalculateScoreCollector,
       dpVars, eqVars, rqVars, rjVars, colVars, copyVars
  <2> QED BY <2>1, <2>2, <2>3, <2>4, <2>5, <2>6, <2>7, <2>8 DEF Recalculate
<1>2. CASE ReceiveResult BY <1>2, ReceiveCopies
<1>3. CASE UNCHANGED nodeVars
  BY <1>3, CopiesUnchanged
     DEF nodeVars, dpVars, eqVars, rqVars, rjVars, colVars, copyVars
<1>4. CASE RoundEnds \/ ReceiveDone \/ ReceiveError \/ DrainEnds \/ Stop \/ Return
  BY <1>3, <1>4 DEF RoundEnds, ReceiveDone, ReceiveError, DrainEnds, Stop, Return
<1>5. CASE ExecutionManager \/ Engine
  BY <1>3, <1>5 DEF ExecutionManager, Engine, CheckStop, SelectStop, Dequeue,
     BundleDone, BundleFails, Broadcast, Callback, SendResult
<1>6. CASE UNCHANGED vars BY <1>3, <1>6 DEF vars
<1> QED BY <1>1, <1>2, <1>4, <1>5, <1>6 DEF Next, GraphLoop, Terminated

(* Nothing lags behind a datapoint that has been emitted. *)
LEMMA CopiesInvImplies == CopiesInv => CopiesAgree
<1> SUFFICES ASSUME CopiesInv, NEW d \in GraphDatapoints, ~dpInvalidated[d]
             PROVE  /\ PropertyCopies(d) /\ EntrypointCopies(d)
                    /\ JobCopies(d) /\ CollectedCopy(d)
  BY DEF CopiesAgree
<1>1. CopiesLag(d) BY DEF CopiesInv
<1> QED BY <1>1 DEF CopiesLag, Lag, PropertyCopies, EntrypointCopies, JobCopies

(***************************************************************************)
(* In every reachable state of every graph, the properties, entrypoints,   *)
(* job data and collected data that were filled from a datapoint hold the  *)
(* result its node holds, unless the node is about to be recalculated:     *)
(* the three hand-written upgrade rules of nodes.go and the node's own     *)
(* agree on every order of results.                                        *)
(***************************************************************************)
THEOREM CopiesInStep == Spec => []CopiesAgree
<1>1. Init => TypeInv /\ CopiesInv BY TypeInit, CopiesInit
<1>2. TypeInv /\ CopiesInv /\ [Next]_vars => TypeInv' /\ CopiesInv'
  BY TypeStep, CopiesStep
<1>3. Spec => [](TypeInv /\ CopiesInv) BY <1>1, <1>2, PTL DEF Spec
<1> QED BY <1>3, CopiesInvImplies, PTL

-----------------------------------------------------------------------------
(***************************************************************************)
(* Wake-ups.  NoWorkLeftBehind is not inductive: it says nothing of the    *)
(* queue.  While a round runs, every node that has something to emit or to *)
(* hand on is in the queue, whatever its priority.  (In rescore mode the   *)
(* loop never waits, and jobs are only queued when a score reaches them.)  *)
(***************************************************************************)
Queued(n) == \E item \in queue : item[1] = n

NodeWorkQueued ==
    /\ \A d \in GraphDatapoints : dpInvalidated[d] => Queued(DatapointNode(d))
    /\ \A q \in RunnableQueries : eqInvalidated[q] => Queued(ExecutionQuery(q))
    /\ \A q \in GraphQueries : rqInvalidated[q] => Queued(QueryChild(q))
    /\ \A j \in Jobs : rjInvalidated[j] /\ ~rjCompleted[j] => Queued(JobChild(j))

SinkWorkQueued ==
    /\ finInvalidated => Queued(Finisher)
    /\ \A d \in Datapoints : dcUnreported[d] # None => Queued(DatapointCollector)
    /\ \A n \in ScoreNodes : scUnreported[n] # NoScore => Queued(ScoreCollector)

ScoresKeyed == DOMAIN scUnreported = ScoreNodes /\ DOMAIN sunkScores = ScoreNodes

WorkQueued == NodeWorkQueued /\ SinkWorkQueued

WorkInv == ScoresKeyed /\ (~Rescore => WorkQueued)

workVars == <<queue, dpInvalidated, eqInvalidated, rqInvalidated, rjInvalidated,
              rjCompleted, finInvalidated, dcUnreported, scUnreported, sunkScores>>

(* Execute queues every node before the first round. *)
LEMMA WorkInit == Init => WorkInv
<1> SUFFICES ASSUME Init PROVE WorkInv OBVIOUS
<1>1. ScoresKeyed BY DEF Init, ScoresKeyed
<1>2. ASSUME ~Rescore, NEW n \in Nodes PROVE Queued(n)
  <2>1. <<n, maxPriority>> \in queue BY <1>2 DEF Init
  <2> QED BY <2>1 DEF Queued
<1>3. ASSUME ~Rescore PROVE WorkQueued
  <2>1. NodeWorkQueued BY <1>2, <1>3 DEF NodeWorkQueued, Nodes
  <2>2. SinkWorkQueued BY <1>2, <1>3 DEF SinkWorkQueued, Nodes
  <2> QED BY <2>1, <2>2 DEF WorkQueued
<1> QED BY <1>1, <1>3 DEF WorkInv

(* Popping an item keeps the others; an emission queues its receivers. *)
LEMMA EmitQueues ==
    ASSUME NEW item \in queue, Emit(item) \/ EmitNothing(item), NEW n
    PROVE  /\ Queued(n) /\ n # item[1] => Queued(n)'
           /\ Emit(item) /\ n \in Edges(item[1]) => Queued(n)'
<1>1. ASSUME Queued(n), n # item[1] PROVE Queued(n)'
  <2>1. PICK i \in queue : i[1] = n BY <1>1 DEF Queued
  <2>2. i \in queue' BY <1>1, <2>1 DEF Emit, EmitNothing
  <2> QED BY <2>1, <2>2 DEF Queued
<1>2. ASSUME Emit(item), n \in Edges(item[1]) PROVE Queued(n)'
  <2>1. <<n, priorityMap[n]>> \in queue' BY <1>2 DEF Emit
  <2> QED BY <2>1 DEF Queued
<1> QED BY <1>1, <1>2

(* What a datapoint hands on to its consumers wakes them up. *)
LEMMA DatapointWakes ==
    ASSUME TypeInv, WorkQueued, ~Rescore, NEW item \in queue,
           RecalculateDatapoint(item)
    PROVE  WorkQueued'
<1> DEFINE d == item[1][2]
<1>1. d \in GraphDatapoints /\ item[1] = DatapointNode(d)
  BY NodeKinds DEF RecalculateDatapoint, TypeInv, TypeOK, LoopTyped
<1>2. \A n : n # item[1] /\ Queued(n) => Queued(n)'
  BY EmitQueues DEF RecalculateDatapoint
<1>3. ASSUME NEW n, n[1] # "dp", Queued(n) PROVE Queued(n)'
  BY <1>1, <1>2, <1>3 DEF DatapointNode
<1>4. CASE ~dpInvalidated[d]
  <2>1. UNCHANGED nodeVars BY <1>4 DEF RecalculateDatapoint
  <2>2. \A e \in GraphDatapoints :
          dpInvalidated[e] => DatapointNode(e) # item[1] /\ Queued(DatapointNode(e))
    BY <1>1, <1>4 DEF DatapointNode, WorkQueued, NodeWorkQueued
  <2>3. NodeWorkQueued'
    BY <1>2, <1>3, <2>1, <2>2 DEF nodeVars, dpVars, eqVars, rqVars, rjVars, WorkQueued,
       NodeWorkQueued, ExecutionQuery, QueryChild, JobChild
  <2>4. SinkWorkQueued'
    BY <1>3, <2>1 DEF nodeVars, finVars, colVars, WorkQueued, SinkWorkQueued,
       Finisher, DatapointCollector, ScoreCollector
  <2> QED BY <2>3, <2>4 DEF WorkQueued
<1>5. CASE dpInvalidated[d]
  <2>1. /\ Emit(item)
        /\ dpInvalidated' = [dpInvalidated EXCEPT ![d] = FALSE]
        /\ ReportingQueriesConsume(d, dpRes[d])
        /\ ExecutionQueriesConsume(d, dpRes[d])
        /\ JobsConsumeData(d, dpRes[d])
        /\ dcUnreported' = IF d \in CollectedDatapoints
                           THEN [dcUnreported EXCEPT ![d] = dpRes[d]]
                           ELSE dcUnreported
        /\ UNCHANGED scUnreported
    BY <1>5 DEF RecalculateDatapoint
  <2>2. \A n \in DatapointEdges(d) : Queued(n)'
    BY <1>1, <2>1, EmitQueues DEF Edges, DatapointNode
  <2>3. \A e \in GraphDatapoints : dpInvalidated'[e] => Queued(DatapointNode(e))'
    <3>1. dpInvalidated \in [GraphDatapoints -> BOOLEAN]
      BY DEF TypeInv, TypeOK, DatapointsTyped
    <3>2. ASSUME NEW e \in GraphDatapoints, dpInvalidated'[e]
          PROVE  dpInvalidated[e] /\ DatapointNode(e) # item[1]
      BY <1>1, <2>1, <3>1, <3>2 DEF DatapointNode
    <3> QED BY <1>2, <3>2 DEF WorkQueued, NodeWorkQueued
  <2>4. \A q \in RunnableQueries : eqInvalidated'[q] => Queued(ExecutionQuery(q))'
    <3>1. ASSUME NEW q \in RunnableQueries, eqInvalidated'[q]
          PROVE  eqInvalidated[q] \/ d \in RequiredProps[q]
      BY <2>1, <3>1 DEF ExecutionQueriesConsume
    <3>2. \A q \in RunnableQueries :
             d \in RequiredProps[q] => ExecutionQuery(q) \in DatapointEdges(d)
      BY DEF DatapointEdges
    <3> QED BY <1>3, <2>2, <3>1, <3>2 DEF WorkQueued, NodeWorkQueued, ExecutionQuery
  <2>5. \A q \in GraphQueries : rqInvalidated'[q] => Queued(QueryChild(q))'
    <3>1. ASSUME NEW q \in GraphQueries, rqInvalidated'[q]
          PROVE  rqInvalidated[q] \/ d \in Entrypoints[q]
      BY <2>1, <3>1 DEF ReportingQueriesConsume
    <3>2. \A q \in GraphQueries :
             d \in Entrypoints[q] => QueryChild(q) \in DatapointEdges(d)
      BY DEF DatapointEdges
    <3> QED BY <1>3, <2>2, <3>1, <3>2 DEF WorkQueued, NodeWorkQueued, QueryChild
  <2>6. \A j \in Jobs : rjInvalidated'[j] /\ ~rjCompleted'[j] => Queued(JobChild(j))'
    <3>1. ASSUME NEW j \in Jobs, d \notin JobData[j]
          PROVE  /\ rjInvalidated'[j] => rjInvalidated[j]
                 /\ rjCompleted[j] => rjCompleted'[j]
      BY <2>1, <3>1 DEF JobsConsumeData
    <3>2. \A j \in Jobs : d \in JobData[j] => JobChild(j) \in DatapointEdges(d)
      BY DEF DatapointEdges
    <3> QED BY <1>3, <2>2, <3>1, <3>2 DEF WorkQueued, NodeWorkQueued, JobChild
  <2>7. Queued(Finisher)' BY <2>2 DEF DatapointEdges
  <2>8. \A e \in Datapoints : dcUnreported'[e] # None => Queued(DatapointCollector)'
    <3>1. d \in CollectedDatapoints => DatapointCollector \in DatapointEdges(d)
      BY DEF DatapointEdges
    <3>2. CASE d \in CollectedDatapoints BY <2>2, <3>1, <3>2
    <3>3. CASE d \notin CollectedDatapoints
      BY <1>3, <2>1, <3>3 DEF WorkQueued, SinkWorkQueued, DatapointCollector
    <3> QED BY <3>2, <3>3
  <2>9. \A n \in ScoreNodes : scUnreported'[n] # NoScore => Queued(ScoreCollector)'
    BY <1>3, <2>1 DEF WorkQueued, SinkWorkQueued, ScoreCollector
  <2>10. NodeWorkQueued' BY <2>3, <2>4, <2>5, <2>6 DEF NodeWorkQueued
  <2>11. SinkWorkQueued' BY <2>7, <2>8, <2>9 DEF SinkWorkQueued
  <2> QED BY <2>10, <2>11 DEF WorkQueued
<1> QED BY <1>4, <1>5

(* A query that is recalculated wakes up its datapoints. *)
LEMMA ExecutionQueryWakes ==
    ASSUME TypeInv, WorkQueued, NEW item \in queue, RecalculateExecutionQuery(item)
    PROVE  WorkQueued'
<1> DEFINE q == item[1][2]
<1>1. q \in RunnableQueries /\ item[1] = ExecutionQuery(q)
  BY NodeKinds DEF RecalculateExecutionQuery, TypeInv, TypeOK, LoopTyped
<1>2. \A n : n # item[1] /\ Queued(n) => Queued(n)'
  BY EmitQueues DEF RecalculateExecutionQuery
<1>3. ASSUME NEW n, n[1] # "eq", Queued(n) PROVE Queued(n)'
  BY <1>1, <1>2, <1>3 DEF ExecutionQuery
<1>4. ASSUME NEW p \in RunnableQueries, eqInvalidated'[p]
      PROVE  eqInvalidated[p] /\ ExecutionQuery(p) # item[1]
  BY <1>1, <1>4 DEF RecalculateExecutionQuery, eqVars, ExecutionQuery, TypeInv, TypeOK,
     ExecutionQueriesTyped
<1>5. UNCHANGED <<dpVars, rqVars, rjVars, finVars, colVars>>
  BY DEF RecalculateExecutionQuery
<1>6. NodeWorkQueued'
  BY <1>2, <1>3, <1>4, <1>5 DEF WorkQueued, NodeWorkQueued, dpVars, rqVars, rjVars,
     DatapointNode, QueryChild, JobChild
<1>7. SinkWorkQueued'
  BY <1>3, <1>5 DEF WorkQueued, SinkWorkQueued, finVars, colVars, Finisher,
     DatapointCollector, ScoreCollector
<1> QED BY <1>6, <1>7 DEF WorkQueued

(* A score that is sent up wakes its receivers and the score collector. *)
LEMMA ScoreWakes ==
    ASSUME NEW item \in queue, NEW s, NEW invalidated, Emit(item),
           item[1][1] \in {"rq", "rj"}, item[1] \in ScoreNodes, SinkWorkQueued,
           ScoresKeyed, JobsConsumeScore(item[1], s, invalidated),
           ScoreCollectorConsume(item[1], s)
    PROVE  /\ \A j \in Jobs :
                rjInvalidated'[j] => invalidated[j] \/ Queued(JobChild(j))'
           /\ \A n \in ScoreNodes : scUnreported'[n] # NoScore => Queued(ScoreCollector)'
           /\ UNCHANGED dcUnreported
<1>1. \A n \in Edges(item[1]) : Queued(n)' BY EmitQueues
<1>2. ASSUME NEW j \in Receivers(item[1]) PROVE Queued(JobChild(j))'
  BY <1>1 DEF Receivers, Edges, ParentJobs
<1>3. \A j \in Jobs : rjInvalidated'[j] => invalidated[j] \/ Queued(JobChild(j))'
  BY <1>2 DEF JobsConsumeScore
<1>4. ASSUME NEW n \in ScoreNodes, scUnreported'[n] # NoScore
      PROVE  Queued(ScoreCollector)'
  <2>1. CASE CollectedScore(item[1]) BY <1>1, <2>1 DEF Edges
  <2>2. CASE ~CollectedScore(item[1])
    <3>1. Queued(ScoreCollector)
      BY <1>4, <2>2 DEF ScoreCollectorConsume, SinkWorkQueued
    <3> QED BY <3>1, EmitQueues DEF ScoreCollector
  <2> QED BY <2>1, <2>2
<1> QED BY <1>3, <1>4 DEF ScoreCollectorConsume

(* A query's score wakes the jobs that report it. *)
LEMMA ReportingQueryWakes ==
    ASSUME TypeInv, ScoresKeyed, WorkQueued, NEW item \in queue,
           RecalculateReportingQuery(item)
    PROVE  WorkQueued'
<1> DEFINE q == item[1][2]
           s == QueryScore(rqResults[q])
<1>1. q \in GraphQueries /\ item[1] = QueryChild(q)
  BY NodeKinds DEF RecalculateReportingQuery, TypeInv, TypeOK, LoopTyped
<1>2. \A n : n # item[1] /\ Queued(n) => Queued(n)'
  BY EmitQueues DEF RecalculateReportingQuery
<1>3. ASSUME NEW n, n[1] # "rq", Queued(n) PROVE Queued(n)'
  BY <1>1, <1>2, <1>3 DEF QueryChild
<1>4. ASSUME NEW p \in GraphQueries, rqInvalidated'[p]
      PROVE  rqInvalidated[p] /\ QueryChild(p) # item[1]
  BY <1>1, <1>4 DEF RecalculateReportingQuery, QueryChild, TypeInv, TypeOK,
     ReportingQueriesTyped
<1>5. UNCHANGED <<dpVars, eqVars, rjCompleted, finVars>>
  BY DEF RecalculateReportingQuery
<1>6. /\ \A j \in Jobs : rjInvalidated'[j] => rjInvalidated[j] \/ Queued(JobChild(j))'
      /\ \A n \in ScoreNodes : scUnreported'[n] # NoScore => Queued(ScoreCollector)'
      /\ UNCHANGED dcUnreported
  <2>1. CASE rqInvalidated[q] /\ s # NoScore
    <3>1. Emit(item) /\ JobsConsumeScore(item[1], s, rjInvalidated)
            /\ ScoreCollectorConsume(item[1], s)
      BY <2>1 DEF RecalculateReportingQuery
    <3>2. item[1] \in ScoreNodes /\ item[1][1] \in {"rq", "rj"}
      BY <1>1 DEF ScoreNodes, QueryChild, GraphQueries
    <3> QED BY <3>1, <3>2, ScoreWakes DEF WorkQueued
  <2>2. CASE ~(rqInvalidated[q] /\ s # NoScore)
    <3>1. UNCHANGED <<rjInvalidated, colVars>> BY <2>2 DEF RecalculateReportingQuery
    <3> QED BY <1>3, <3>1 DEF colVars, WorkQueued, SinkWorkQueued, ScoreCollector
  <2> QED BY <2>1, <2>2
<1>7. NodeWorkQueued'
  BY <1>2, <1>3, <1>4, <1>5, <1>6 DEF WorkQueued, NodeWorkQueued, dpVars, eqVars,
     DatapointNode, ExecutionQuery, JobChild
<1>8. SinkWorkQueued'
  BY <1>3, <1>5, <1>6 DEF WorkQueued, SinkWorkQueued, finVars, Finisher,
     DatapointCollector
<1> QED BY <1>7, <1>8 DEF WorkQueued

(* A job's score wakes the jobs above it. *)
LEMMA ReportingJobWakes ==
    ASSUME TypeInv, ScoresKeyed, WorkQueued, NEW item \in queue,
           RecalculateReportingJob(item)
    PROVE  WorkQueued'
<1> DEFINE j == item[1][2]
           s == JobEmits(j)
           cleared == [rjInvalidated EXCEPT ![j] = FALSE]
           active == rjInvalidated[j] /\ ~rjCompleted[j]
<1>1. j \in Jobs /\ item[1] = JobChild(j)
  BY NodeKinds DEF RecalculateReportingJob, TypeInv, TypeOK, LoopTyped
<1>2. \A n : n # item[1] /\ Queued(n) => Queued(n)'
  BY EmitQueues DEF RecalculateReportingJob
<1>3. ASSUME NEW n, n[1] # "rj", Queued(n) PROVE Queued(n)'
  BY <1>1, <1>2, <1>3 DEF JobChild
<1>4. UNCHANGED <<dpVars, eqVars, rqVars, finVars>> BY DEF RecalculateReportingJob
<1>5. /\ rjInvalidated \in [Jobs -> BOOLEAN]
      /\ rjCompleted \in [Jobs -> BOOLEAN]
  BY DEF TypeInv, TypeOK, JobsTyped
<1>6. /\ \A k \in Jobs : rjInvalidated'[k] /\ ~rjCompleted'[k] => Queued(JobChild(k))'
      /\ \A n \in ScoreNodes : scUnreported'[n] # NoScore => Queued(ScoreCollector)'
      /\ UNCHANGED dcUnreported
  <2>1. ASSUME NEW k \in Jobs, cleared[k], ~rjCompleted[k], active
        PROVE  Queued(JobChild(k))'
    <3>1. k # j /\ rjInvalidated[k] BY <1>1, <1>5, <2>1
    <3>2. JobChild(k) # item[1] BY <1>1, <3>1 DEF JobChild
    <3> QED BY <1>2, <2>1, <3>1, <3>2 DEF WorkQueued, NodeWorkQueued
  <2>2. CASE active /\ s # NoScore
    <3>1. /\ Emit(item) /\ JobsConsumeScore(item[1], s, cleared)
          /\ ScoreCollectorConsume(item[1], s)
          /\ rjCompleted' = [rjCompleted EXCEPT ![j] = TRUE]
      BY <2>2 DEF RecalculateReportingJob
    <3>2. item[1] \in ScoreNodes /\ item[1][1] \in {"rq", "rj"}
      BY <1>1 DEF ScoreNodes, JobChild
    <3>3. \A k \in Jobs : rjInvalidated'[k] => cleared[k] \/ Queued(JobChild(k))'
      BY <3>1, <3>2, ScoreWakes DEF WorkQueued
    <3>4. \A k \in Jobs : rjCompleted[k] => rjCompleted'[k] BY <1>1, <1>5, <3>1
    <3> QED BY <2>1, <2>2, <3>1, <3>2, <3>3, <3>4, ScoreWakes DEF WorkQueued
  <2>3. CASE active /\ s = NoScore
    <3>1. rjInvalidated' = cleared /\ UNCHANGED <<rjCompleted, colVars>>
      BY <2>3 DEF RecalculateReportingJob
    <3> QED BY <1>3, <2>1, <2>3, <3>1 DEF colVars, WorkQueued, SinkWorkQueued,
               ScoreCollector
  <2>4. CASE ~active
    <3>1. UNCHANGED <<rjInvalidated, rjCompleted, colVars>>
      BY <2>4 DEF RecalculateReportingJob
    <3>2. ASSUME NEW k \in Jobs, rjInvalidated[k], ~rjCompleted[k]
          PROVE  Queued(JobChild(k))'
      <4>1. k # j BY <2>4, <3>2
      <4>2. JobChild(k) # item[1] BY <1>1, <4>1 DEF JobChild
      <4> QED BY <1>2, <3>2, <4>2 DEF WorkQueued, NodeWorkQueued
    <3> QED BY <1>3, <3>1, <3>2 DEF colVars, WorkQueued, SinkWorkQueued, ScoreCollector
  <2> QED BY <2>2, <2>3, <2>4
<1>7. NodeWorkQueued'
  BY <1>3, <1>4, <1>6 DEF WorkQueued, NodeWorkQueued, dpVars, eqVars, rqVars,
     DatapointNode, ExecutionQuery, QueryChild
<1>8. SinkWorkQueued'
  BY <1>3, <1>4, <1>6 DEF WorkQueued, SinkWorkQueued, finVars, Finisher,
     DatapointCollector
<1> QED BY <1>7, <1>8 DEF WorkQueued

(* The finisher and the collectors have nothing left after their turn. *)
LEMMA SinkWakes ==
    ASSUME WorkQueued, NEW item \in queue,
           \/ RecalculateFinisher(item)
           \/ RecalculateDatapointCollector(item)
           \/ RecalculateScoreCollector(item)
    PROVE  WorkQueued'
<1> USE DEF RecalculateFinisher, RecalculateDatapointCollector,
        RecalculateScoreCollector
<1>1. \A n : n # item[1] /\ Queued(n) => Queued(n)' BY EmitQueues
<1>2. UNCHANGED <<dpVars, eqVars, rqVars, rjVars>> OBVIOUS
<1>3. NodeWorkQueued'
  <2>1. item[1][1] \in {"fin", "dc", "sc"}
    BY DEF Finisher, DatapointCollector, ScoreCollector
  <2>2. \A n : n[1] \in {"dp", "eq", "rq", "rj"} /\ Queued(n) => Queued(n)'
    BY <1>1, <2>1
  <2> QED BY <1>2, <2>2 DEF WorkQueued, NodeWorkQueued, dpVars, eqVars, rqVars, rjVars,
             DatapointNode, ExecutionQuery, QueryChild, JobChild
<1>4. SinkWorkQueued'
  <2>1. CASE RecalculateFinisher(item)
    <3>1. item[1] = Finisher /\ finInvalidated' = FALSE /\ UNCHANGED colVars
      BY <2>1
    <3> QED BY <1>1, <3>1 DEF WorkQueued, SinkWorkQueued, colVars, Finisher,
               DatapointCollector, ScoreCollector
  <2>2. CASE RecalculateDatapointCollector(item)
    <3>1. /\ item[1] = DatapointCollector /\ UNCHANGED <<finVars, scUnreported>>
          /\ \A d \in Datapoints : dcUnreported'[d] = None
      BY <2>2
    <3> QED BY <1>1, <3>1 DEF WorkQueued, SinkWorkQueued, finVars, Finisher,
               DatapointCollector, ScoreCollector
  <2>3. CASE RecalculateScoreCollector(item)
    <3>1. /\ item[1] = ScoreCollector /\ UNCHANGED <<finVars, dcUnreported>>
          /\ \A n \in ScoreNodes : scUnreported'[n] = NoScore
      BY <2>3
    <3> QED BY <1>1, <3>1 DEF WorkQueued, SinkWorkQueued, finVars, Finisher,
               DatapointCollector, ScoreCollector
  <2> QED BY <2>1, <2>2, <2>3
<1> QED BY <1>3, <1>4 DEF WorkQueued

(* A result that is received queues its datapoint. *)
LEMMA ReceiveWakes ==
    ASSUME TypeInv, WorkQueued, ReceiveResult
    PROVE  WorkQueued'
<1>1. PICK d \in GraphDatapoints : d = Head(resultChan).dp
  <2>1. resultChan \in Seq(ResultMessages) /\ resultChan # <<>>
    BY DEF ReceiveResult, ChannelsTyped, TypeInv, TypeOK
  <2>2. Head(resultChan) \in ResultMessages BY <2>1
  <2> QED BY <2>2 DEF ResultMessages
<1>2. /\ queue' = queue \union {<<DatapointNode(d), maxPriority>>}
      /\ UNCHANGED <<eqVars, rqVars, rjVars, finVars, colVars>>
  BY <1>1 DEF ReceiveResult
<1>3. \A n : Queued(n) => Queued(n)' BY <1>2 DEF Queued
<1>4. Queued(DatapointNode(d))'
  <2>1. <<DatapointNode(d), maxPriority>> \in queue' BY <1>2
  <2> QED BY <2>1 DEF Queued
<1>5. \A e \in GraphDatapoints : dpInvalidated'[e] => e = d \/ dpInvalidated[e]
  BY <1>1 DEF ReceiveResult, TypeInv, TypeOK, DatapointsTyped
<1>6. NodeWorkQueued'
  BY <1>2, <1>3, <1>4, <1>5 DEF WorkQueued, NodeWorkQueued, eqVars, rqVars, rjVars
<1>7. SinkWorkQueued'
  BY <1>2, <1>3 DEF WorkQueued, SinkWorkQueued, finVars, colVars
<1> QED BY <1>6, <1>7 DEF WorkQueued

(* The collectors keep one entry per score node. *)
LEMMA KeysStep == ScoresKeyed /\ [Next]_vars => ScoresKeyed'
<1> SUFFICES ASSUME ScoresKeyed, [Next]_vars PROVE ScoresKeyed' OBVIOUS
<1>1. CASE ProcessQueue
  <2>1. PICK item \in queue : Recalculate(item) BY <1>1 DEF ProcessQueue
  <2>2. \/ UNCHANGED <<scUnreported, sunkScores>>
        \/ \E n, s : scUnreported' = [scUnreported EXCEPT ![n] = s] /\ UNCHANGED sunkScores
        \/ /\ scUnreported' = [n \in ScoreNodes |-> NoScore]
           /\ DOMAIN sunkScores' = ScoreNodes
    <3>1. ASSUME NEW n, NEW s, ScoreCollectorConsume(n, s)
          PROVE  \/ UNCHANGED <<scUnreported, sunkScores>>
                 \/ /\ scUnreported' = [scUnreported EXCEPT ![n] = s]
                    /\ UNCHANGED sunkScores
      BY <3>1 DEF ScoreCollectorConsume
    <3>2. CASE RecalculateDatapoint(item) \/ RecalculateExecutionQuery(item)
      BY <3>2 DEF RecalculateDatapoint, RecalculateExecutionQuery, nodeVars, colVars
    <3>3. CASE RecalculateReportingQuery(item)
      BY <3>1, <3>3 DEF RecalculateReportingQuery, colVars
    <3>4. CASE RecalculateReportingJob(item)
      BY <3>1, <3>4 DEF RecalculateReportingJob, colVars
    <3>5. CASE RecalculateStatic(item) BY <3>1, <3>5 DEF RecalculateStatic, colVars
    <3>6. CASE RecalculateFinisher(item) \/ RecalculateDatapointCollector(item)
      BY <3>6 DEF RecalculateFinisher, RecalculateDatapointCollector, colVars
    <3>7. CASE RecalculateScoreCollector(item) BY <3>7 DEF RecalculateScoreCollector
    <3> QED BY <2>1, <3>2, <3>3, <3>4, <3>5, <3>6, <3>7 DEF Recalculate
  <2> QED BY <2>2 DEF ScoresKeyed
<1>2. CASE UNCHANGED <<scUnreported, sunkScores>> BY <1>2 DEF ScoresKeyed
<1>3. CASE GraphLoop /\ ~ProcessQueue
  BY <1>2, <1>3 DEF GraphLoop, RoundEnds, ReceiveResult, ReceiveDone, ReceiveError,
     DrainEnds, Stop, Return, nodeVars, colVars
<1>4. CASE ExecutionManager \/ Engine
  BY <1>2, <1>4 DEF ExecutionManager, Engine, CheckStop, SelectStop, Dequeue,
     BundleDone, BundleFails, Broadcast, Callback, SendResult, nodeVars, colVars
<1>5. CASE UNCHANGED vars BY <1>2, <1>5 DEF vars, nodeVars, colVars
<1> QED BY <1>1, <1>3, <1>4, <1>5 DEF Next, Terminated

(* No step of any goroutine loses a wake-up. *)
LEMMA WorkStep == TypeInv /\ WorkInv /\ [Next]_vars => WorkInv'
<1> SUFFICES ASSUME TypeInv, WorkInv, [Next]_vars PROVE WorkInv' OBVIOUS
<1>1. ScoresKeyed' BY KeysStep DEF WorkInv
<1>2. SUFFICES ASSUME ~Rescore PROVE WorkQueued' BY <1>1 DEF WorkInv
<1>3. WorkQueued /\ ScoresKeyed BY <1>2 DEF WorkInv
<1>4. CASE ProcessQueue
  <2>1. PICK item \in queue : Recalculate(item) BY <1>4 DEF ProcessQueue
  <2>2. ~RecalculateStatic(item) BY <1>2 DEF RecalculateStatic, StaticJobs
  <2> QED BY <1>2, <1>3, <2>1, <2>2, DatapointWakes, ExecutionQueryWakes,
             ReportingQueryWakes, ReportingJobWakes, SinkWakes DEF Recalculate
<1>5. CASE ReceiveResult BY <1>3, <1>5, ReceiveWakes
<1>6. CASE UNCHANGED <<nodeVars, queue>>
  BY <1>3, <1>6 DEF WorkQueued, NodeWorkQueued, SinkWorkQueued, Queued, nodeVars,
     dpVars, eqVars, rqVars, rjVars, finVars, colVars
<1>7. CASE RoundEnds \/ ReceiveDone \/ ReceiveError \/ DrainEnds \/ Stop \/ Return
  BY <1>6, <1>7 DEF RoundEnds, ReceiveDone, ReceiveError, DrainEnds, Stop, Return
<1>8. CASE ExecutionManager \/ Engine
  BY <1>6, <1>8 DEF ExecutionManager, Engine, CheckStop, SelectStop, Dequeue,
     BundleDone, BundleFails, Broadcast, Callback, SendResult, loopVars
<1>9. CASE UNCHANGED vars BY <1>6, <1>9 DEF vars, loopVars
<1> QED BY <1>4, <1>5, <1>7, <1>8, <1>9 DEF Next, GraphLoop, Terminated

-----------------------------------------------------------------------------
(***************************************************************************)
(* Rounds.  The loop only waits or stops with an empty queue (or after an  *)
(* error), and only stops on doneChan, which was closed after every        *)
(* datapoint had reported.                                                 *)
(***************************************************************************)
Leaving == pc \in {"stop", "join", "returned"}

RoundInv ==
    /\ pc = "wait" \/ (Leaving /\ ~err) => queue = {}
    /\ pc = "wait" => ~Rescore
    /\ Leaving /\ ~err => Rescore \/ done
    /\ err => Leaving
    /\ done => doneClosed > 0

ReportedInv ==
    /\ \A d \in GraphDatapoints : dpRes[d] = None => d \in remaining
    /\ doneClosed > 0 => remaining = {} /\ ~finInvalidated

reportedVars == <<dpRes, remaining, finInvalidated, doneClosed>>

(* Before the first round nothing has reported. *)
LEMMA RoundInit == Init => RoundInv /\ ReportedInv
<1> SUFFICES ASSUME Init PROVE RoundInv /\ ReportedInv OBVIOUS
<1>1. RoundInv BY DEF Init, RoundInv, Leaving
<1>2. ReportedInv BY DEF Init, ReportedInv
<1> QED BY <1>1, <1>2

(* Only the finisher closes doneChan; only datapoints report to it. *)
LEMMA RecalculateReports ==
    ASSUME TypeInv, CopiesInv, ReportedInv, NEW item \in queue, Recalculate(item)
    PROVE  ReportedInv' /\ doneClosed' >= doneClosed
<1> USE DEF TypeInv, TypeOK, CollectorsTyped
<1>1. CASE UNCHANGED reportedVars BY <1>1 DEF reportedVars, ReportedInv
<1>2. CASE RecalculateDatapoint(item)
  <2> DEFINE d == item[1][2]
  <2>1. d \in GraphDatapoints BY <1>2, NodeKinds DEF RecalculateDatapoint, LoopTyped
  <2>2. CASE ~dpInvalidated[d]
    BY <1>1, <1>2, <2>2 DEF RecalculateDatapoint, nodeVars, dpVars, finVars, reportedVars
  <2>3. CASE dpInvalidated[d]
    <3>1. dpRes[d] # None BY <2>1, <2>3 DEF CopiesInv, CopiesLag
    <3>2. /\ UNCHANGED <<dpRes, doneClosed>>
          /\ remaining' = remaining \ {d}
          /\ remaining = {} => finInvalidated' = finInvalidated
      BY <1>2, <2>3 DEF RecalculateDatapoint, FinisherConsume
    <3> QED BY <3>1, <3>2 DEF ReportedInv
  <2> QED BY <2>2, <2>3
<1>3. CASE RecalculateFinisher(item)
  <2>1. /\ UNCHANGED <<dpRes, remaining>> /\ finInvalidated' = FALSE
        /\ doneClosed' = IF finInvalidated /\ remaining = {} THEN doneClosed + 1
                                                             ELSE doneClosed
    BY <1>3 DEF RecalculateFinisher, dpVars
  <2> QED BY <2>1 DEF ReportedInv
<1>4. CASE \/ RecalculateExecutionQuery(item) \/ RecalculateReportingQuery(item)
           \/ RecalculateReportingJob(item) \/ RecalculateStatic(item)
           \/ RecalculateDatapointCollector(item) \/ RecalculateScoreCollector(item)
  BY <1>1, <1>4 DEF RecalculateExecutionQuery, RecalculateReportingQuery,
     RecalculateReportingJob, RecalculateStatic, RecalculateDatapointCollector,
     RecalculateScoreCollector, dpVars, finVars, reportedVars
<1> QED BY <1>2, <1>3, <1>4 DEF Recalculate

(* What a datapoint has reported is never forgotten. *)
LEMMA ReceiveReports ==
    ASSUME TypeInv, ReportedInv, ReceiveResult
    PROVE  ReportedInv' /\ UNCHANGED finVars
<1>1. PICK d \in GraphDatapoints, res \in Results :
          d = Head(resultChan).dp /\ res = Head(resultChan).res
  <2>1. resultChan \in Seq(ResultMessages) /\ resultChan # <<>>
    BY DEF ReceiveResult, ChannelsTyped, TypeInv, TypeOK
  <2>2. Head(resultChan) \in ResultMessages BY <2>1
  <2> QED BY <2>2 DEF ResultMessages
<1>2. dpRes' = dpRes \/ dpRes' = [dpRes EXCEPT ![d] = res]
  BY <1>1 DEF ReceiveResult
<1>3. res # None BY <1>1 DEF Results, Executed, None
<1>4. dpRes \in [GraphDatapoints -> Optional(Results)]
  BY DEF TypeInv, TypeOK, DatapointsTyped
<1>5. \A e \in GraphDatapoints : dpRes'[e] = None => dpRes[e] = None
  BY <1>1, <1>2, <1>3, <1>4
<1>6. UNCHANGED finVars BY DEF ReceiveResult
<1> QED BY <1>5, <1>6 DEF ReportedInv, finVars

(* Both invariants hold of every step of every goroutine. *)
LEMMA RoundStep ==
    TypeInv /\ CopiesInv /\ RoundInv /\ ReportedInv /\ [Next]_vars
        => RoundInv' /\ ReportedInv'
<1> SUFFICES ASSUME TypeInv, CopiesInv, RoundInv, ReportedInv, [Next]_vars
             PROVE  RoundInv' /\ ReportedInv'
  OBVIOUS
<1>1. doneClosed \in Nat BY DEF TypeInv, TypeOK, CollectorsTyped
<1>2. CASE ProcessQueue
  <2>1. PICK item \in queue : Recalculate(item) BY <1>2 DEF ProcessQueue
  <2>2. ReportedInv' /\ doneClosed' >= doneClosed BY <2>1, RecalculateReports
  <2>3. doneClosed' \in Nat BY TypeStep DEF TypeInv, TypeOK, CollectorsTyped
  <2>4. pc = "process" /\ UNCHANGED <<pc, done, err>> BY <1>2 DEF ProcessQueue
  <2>5. done' => doneClosed' > 0 BY <1>1, <2>2, <2>3, <2>4 DEF RoundInv
  <2> QED BY <2>2, <2>4, <2>5 DEF RoundInv, Leaving
<1>3. CASE ReceiveResult
  <2>1. ReportedInv' /\ UNCHANGED finVars BY <1>3, ReceiveReports
  <2> QED BY <1>3, <2>1 DEF ReceiveResult, RoundInv, Leaving, finVars
<1>4. CASE UNCHANGED nodeVars
  <2>1. ReportedInv' BY <1>4 DEF ReportedInv, nodeVars, dpVars, finVars
  <2>2. doneClosed' = doneClosed BY <1>4 DEF nodeVars, finVars
  <2>3. CASE RoundEnds BY <2>1, <2>2, <2>3 DEF RoundEnds, RoundInv, Leaving
  <2>4. CASE ReceiveDone BY <2>1, <2>2, <2>4 DEF ReceiveDone, RoundInv, Leaving
  <2>5. CASE ReceiveError BY <2>1, <2>2, <2>5 DEF ReceiveError, RoundInv, Leaving
  <2>6. CASE DrainEnds BY <2>1, <2>2, <2>6 DEF DrainEnds, RoundInv, Leaving
  <2>7. CASE Stop \/ Return BY <2>1, <2>2, <2>7 DEF Stop, Return, RoundInv, Leaving
  <2>8. CASE UNCHANGED loopVars BY <2>1, <2>2, <2>8 DEF loopVars, RoundInv, Leaving
  <2>9. CASE ExecutionManager \/ Engine
    BY <2>8, <2>9 DEF ExecutionManager, Engine, CheckStop, SelectStop, Dequeue,
       BundleDone, BundleFails, Broadcast, Callback, SendResult
  <2>10. CASE UNCHANGED vars BY <2>8, <2>10 DEF vars
  <2> QED BY <1>2, <1>3, <2>3, <2>4, <2>5, <2>6, <2>7, <2>9, <2>10
             DEF Next, GraphLoop, Terminated
<1>5. CASE RoundEnds \/ ReceiveDone \/ ReceiveError \/ DrainEnds \/ Stop \/ Return
  BY <1>4, <1>5 DEF RoundEnds, ReceiveDone, ReceiveError, DrainEnds, Stop, Return
<1>6. CASE ExecutionManager \/ Engine
  BY <1>4, <1>6 DEF ExecutionManager, Engine, CheckStop, SelectStop, Dequeue,
     BundleDone, BundleFails, Broadcast, Callback, SendResult
<1>7. CASE UNCHANGED vars BY <1>4, <1>7 DEF vars
<1> QED BY <1>2, <1>3, <1>5, <1>6, <1>7 DEF Next, GraphLoop, Terminated

(* With an empty queue no node has work left. *)
LEMMA EmptyQueueIsIdle ==
    ASSUME TypeInv, WorkQueued, \A n : Queued(n) => n = Finisher
    PROVE  Idle
<1>1. \A d \in GraphDatapoints : ~dpInvalidated[d] /\ dcUnreported[d] = None
  BY GraphDatapointsTyped DEF WorkQueued, NodeWorkQueued, SinkWorkQueued, Finisher,
     DatapointNode, DatapointCollector
<1>2. /\ \A q \in RunnableQueries : ~eqInvalidated[q]
      /\ \A q \in GraphQueries : ~rqInvalidated[q]
      /\ \A j \in Jobs : ~rjInvalidated[j] \/ rjCompleted[j]
  BY DEF WorkQueued, NodeWorkQueued, Finisher, ExecutionQuery, QueryChild, JobChild
<1>3. \A n \in ScoreNodes : scUnreported[n] = NoScore
  BY DEF WorkQueued, SinkWorkQueued, Finisher, ScoreCollector
<1> QED BY <1>1, <1>2, <1>3 DEF Idle

LoopInv == TypeInv /\ CopiesInv /\ WorkInv /\ RoundInv /\ ReportedInv

(* The invariant of the graph loop. *)
LEMMA LoopInvariant == Spec => []LoopInv
<1>1. Init => LoopInv BY TypeInit, CopiesInit, WorkInit, RoundInit DEF LoopInv
<1>2. LoopInv /\ [Next]_vars => LoopInv'
  BY TypeStep, CopiesStep, WorkStep, RoundStep DEF LoopInv
<1> QED BY <1>1, <1>2, PTL DEF Spec

(***************************************************************************)
(* No wake-up is lost, for any graph: whenever Execute waits in its select *)
(* every node has emitted what it received, so that a result, doneChan or  *)
(* an error is all that can give it work.                                  *)
(***************************************************************************)
THEOREM NoWakeUpIsLost == Spec => []NoWorkLeftBehind
<1>1. LoopInv => NoWorkLeftBehind
  <2> SUFFICES ASSUME LoopInv, pc = "wait" PROVE Idle /\ ~finInvalidated
    BY DEF NoWorkLeftBehind
  <2>1. queue = {} /\ WorkQueued BY DEF LoopInv, RoundInv, WorkInv
  <2>2. \A n : ~Queued(n) BY <2>1 DEF Queued
  <2> QED BY <2>1, <2>2, EmptyQueueIsIdle DEF LoopInv, WorkQueued, SinkWorkQueued
<1> QED BY <1>1, LoopInvariant, PTL

(* The datapoint half of CleanReturnIsComplete. *)
DataDelivered ==
    pc = "returned" /\ ~err =>
        \A d \in CollectedDatapoints : sunkData[d] = dpRes[d] /\ sunkData[d] # None

(***************************************************************************)
(* When Execute returns without an error, the datapoint collector has been *)
(* handed the final result of every datapoint that is collected, provided  *)
(* that only datapoints of the graph are.                                  *)
(***************************************************************************)
THEOREM DataIsDelivered ==
    CollectedDatapoints \subseteq GraphDatapoints => (Spec => []DataDelivered)
<1> SUFFICES ASSUME CollectedDatapoints \subseteq GraphDatapoints
             PROVE  Spec => []DataDelivered
  OBVIOUS
<1>1. LoopInv => DataDelivered
  <2> SUFFICES ASSUME LoopInv, pc = "returned", ~err, NEW d \in CollectedDatapoints
               PROVE  sunkData[d] = dpRes[d] /\ sunkData[d] # None
    BY DEF DataDelivered
  <2>1. d \in GraphDatapoints /\ ~Rescore
    BY GraphAssumption DEF GraphDatapoints, GraphQueries
  <2>2. queue = {} /\ WorkQueued /\ doneClosed > 0
    BY <2>1 DEF LoopInv, RoundInv, WorkInv, Leaving
  <2>3. \A n : ~Queued(n) BY <2>2 DEF Queued
  <2>4. ~dpInvalidated[d] /\ dcUnreported[d] = None
    BY <2>1, <2>2, <2>3, EmptyQueueIsIdle DEF LoopInv, Idle
  <2>5. dpRes[d] # None BY <2>1, <2>2 DEF LoopInv, ReportedInv
  <2>6. CollectedCopy(d) BY <2>1, <2>4 DEF LoopInv, CopiesInv, CopiesLag
  <2> QED BY <2>4, <2>5, <2>6 DEF CollectedCopy
<1> QED BY <1>1, LoopInvariant, PTL

-----------------------------------------------------------------------------
(***************************************************************************)
(* prioritizeNode.  It recurses along the edges, so it is defined when the *)
(* graph has no cycle; that it then orders the graph is shown by taking a  *)
(* least counterexample.                                                   *)
(***************************************************************************)
(***************************************************************************)
(* In an acyclic graph a leaf gets 1 and every other node more than the    *)
(* nodes behind it, and no path is longer than there are nodes.            *)
(***************************************************************************)
PrioritiesOrdered ==
    \A n \in Nodes :
        /\ priorityMap[n] \in 0 .. Cardinality(Nodes)
        /\ n # Finisher => priorityMap[n] > 0
        /\ \A m \in Edges(n) : priorityMap[m] < priorityMap[n]

(* Nodes of one kind are as many as their ids. *)
LEMMA KindIsFinite ==
    ASSUME NEW S, IsFiniteSet(S), NEW kind
    PROVE  IsFiniteSet({<<kind, x>> : x \in S})
<1> DEFINE T == {<<kind, x>> : x \in S}
           f == [x \in S |-> <<kind, x>>]
<1>1. f \in [S -> T] /\ \A t \in T : \E x \in S : f[x] = t OBVIOUS
<1>2. f \in Surjection(S, T) BY <1>1 DEF Surjection
<1> QED BY <1>2, FS_Surjection

(* The graph has finitely many nodes. *)
LEMMA NodesFinite == IsFiniteSet(Nodes)
<1>2. IsFiniteSet(GraphDatapoints)
  BY GraphDatapointsTyped, GraphAssumption, FS_Subset
<1>3. IsFiniteSet(RunnableQueries) /\ IsFiniteSet(GraphQueries)
  BY GraphAssumption, FS_Subset DEF RunnableQueries, GraphQueries
<1>4. IsFiniteSet({DatapointNode(d) : d \in GraphDatapoints})
  BY <1>2, KindIsFinite DEF DatapointNode
<1>5. IsFiniteSet({ExecutionQuery(q) : q \in RunnableQueries})
  BY <1>3, KindIsFinite DEF ExecutionQuery
<1>6. IsFiniteSet({QueryChild(q) : q \in GraphQueries})
  BY <1>3, KindIsFinite DEF QueryChild
<1>7. IsFiniteSet({JobChild(j) : j \in Jobs})
  BY GraphAssumption, KindIsFinite DEF JobChild
<1>8. /\ IsFiniteSet({DatapointCollector, ScoreCollector})
      /\ IsFiniteSet(IF Rescore THEN {} ELSE {Finisher})
  <2>1. IsFiniteSet({DatapointCollector} \union {ScoreCollector})
    BY FS_Singleton, FS_Union
  <2>2. {DatapointCollector} \union {ScoreCollector} = {DatapointCollector, ScoreCollector}
    OBVIOUS
  <2> QED BY <2>1, <2>2, FS_EmptySet, FS_Singleton
<1> QED
  BY <1>4, <1>5, <1>6, <1>7, <1>8, FS_Union DEF Nodes

(* A finite set of numbers has a largest one. *)
LEMMA LargestNumber ==
    ASSUME NEW W, IsFiniteSet(W), W \subseteq Nat, W # {}
    PROVE  \E x \in W : \A y \in W : y <= x
<1> DEFINE Above(x) == {y \in W : y > x}
           Aboves == {Above(x) : x \in W}
<1>1. \A x \in W : Above(x) \in FiniteSubsetsOf(W)
  BY FS_Subset DEF FiniteSubsetsOf
<1>2. IsWellFoundedOn(StrictSubsetOrdering(W), FiniteSubsetsOf(W))
  BY FS_StrictSubsetOrderingWellFounded
<1>3. PICK s \in Aboves : \A t \in Aboves : <<t, s>> \notin StrictSubsetOrdering(W)
  <2>1. Aboves \subseteq FiniteSubsetsOf(W) /\ Aboves # {} BY <1>1
  <2> HIDE DEF Aboves
  <2> QED BY <1>2, <2>1, WFMin
<1>4. PICK x \in W : s = Above(x) BY <1>3
<1>5. ASSUME NEW y \in Above(x) PROVE FALSE
  <2>1. Above(y) \subseteq Above(x) /\ y \notin Above(y)
    <3>1. y \in Nat /\ x \in Nat /\ y > x OBVIOUS
    <3>2. y \notin Above(y) BY <3>1
    <3>3. ASSUME NEW z \in Above(y) PROVE z \in Above(x)
      <4>1. z \in W /\ z \in Nat /\ z > y OBVIOUS
      <4>2. z > x BY <3>1, <4>1
      <4> QED BY <4>1, <4>2
    <3> QED BY <3>2, <3>3
  <2>2. <<Above(y), Above(x)>> \in StrictSubsetOrdering(W)
    BY <2>1 DEF StrictSubsetOrdering
  <2> QED BY <1>3, <1>4, <2>2
<1> QED BY <1>5

(* prioritizeNode's step: one more than the largest number behind a node. *)
OneMore(below) ==
    IF below = {} THEN 1 ELSE 1 + (CHOOSE x \in below : \A y \in below : y <= x)

Longest(f, n) == OneMore({f[m] : m \in Edges(n)})

(***************************************************************************)
(* In an acyclic graph the recursion of prioritizeNode ends: it is defined *)
(* on sets of nodes that are closed under edges, and a set that is not all *)
(* of them can be extended by a node all of whose edges lead into it.      *)
(***************************************************************************)
PrioritizedSets ==
    {S \in SUBSET Nodes : /\ \A n \in S : Edges(n) \subseteq S
                          /\ \E f : f = [n \in S |-> Longest(f, n)]}

(* The extension. *)
LEMMA PrioritizeOneMore ==
    ASSUME NEW S \in PrioritizedSets, NEW n \in Nodes \ S, Edges(n) \subseteq S
    PROVE  S \union {n} \in PrioritizedSets
<1>1. PICK f : f = [m \in S |-> Longest(f, m)] BY DEF PrioritizedSets
<1> DEFINE g == [m \in S \union {n} |-> IF m = n THEN Longest(f, n) ELSE f[m]]
<1>2. \A m \in S \union {n} : Edges(m) \subseteq S BY DEF PrioritizedSets
<1>3. ASSUME NEW m \in S \union {n} PROVE Longest(g, m) = Longest(f, m)
  <2>1. {g[k] : k \in Edges(m)} = {f[k] : k \in Edges(m)}
    <3>1. \A k \in Edges(m) : g[k] = f[k] BY <1>2
    <3> HIDE DEF g
    <3> DEFINE A == {g[k] : k \in Edges(m)}
               B == {f[k] : k \in Edges(m)}
    <3>2. \A v : v \in A <=> v \in B BY <3>1
    <3> HIDE DEF A, B
    <3>3. A = B BY <3>2
    <3> QED BY <3>3 DEF A, B
  <2> HIDE DEF g
  <2> QED BY <2>1 DEF Longest
<1>4. \A m \in S \union {n} : g[m] = Longest(g, m)
  <2> SUFFICES ASSUME NEW m \in S \union {n} PROVE g[m] = Longest(g, m) OBVIOUS
  <2>1. m # n => f[m] = Longest(f, m) BY <1>1
  <2>2. g[m] = Longest(f, m) BY <2>1
  <2> QED BY <1>3, <2>2
<1>5. g = [m \in S \union {n} |-> Longest(g, m)]
  <2>1. g = [m \in S \union {n} |-> g[m]] OBVIOUS
  <2> HIDE DEF g
  <2> QED BY <1>4, <2>1
<1>6. S \union {n} \subseteq Nodes BY DEF PrioritizedSets
<1> HIDE DEF g
<1> QED BY <1>2, <1>5, <1>6 DEF PrioritizedSets

(* The set that cannot be extended is that of all nodes. *)
LEMMA PrioritizeEnds ==
    ASSUME Acyclic
    PROVE  prioritizeNode = [n \in Nodes |-> Longest(prioritizeNode, n)]
<1> DEFINE Left == {Nodes \ S : S \in PrioritizedSets}
<1>1. {} \in PrioritizedSets
  <2> DEFINE f == [n \in {} |-> 0]
  <2>1. f = [n \in {} |-> Longest(f, n)] OBVIOUS
  <2> QED BY <2>1 DEF PrioritizedSets
<1>2. Left \subseteq FiniteSubsetsOf(Nodes) /\ Left # {}
  BY <1>1, NodesFinite, FS_FiniteSubsetsOfFinite
<1>3. IsWellFoundedOn(StrictSubsetOrdering(Nodes), FiniteSubsetsOf(Nodes))
  BY NodesFinite, FS_StrictSubsetOrderingWellFounded
<1>4. PICK rest \in Left : \A t \in Left : <<t, rest>> \notin StrictSubsetOrdering(Nodes)
  <2> HIDE DEF Left
  <2> QED BY <1>2, <1>3, WFMin
<1>5. PICK S \in PrioritizedSets : rest = Nodes \ S BY <1>4
<1>6. S \subseteq Nodes BY DEF PrioritizedSets
<1>7. CASE S = Nodes
  <2>1. \E f : f = [n \in Nodes |-> Longest(f, n)] BY <1>7 DEF PrioritizedSets
  <2>2. prioritizeNode = CHOOSE f : f = [n \in Nodes |-> Longest(f, n)]
    BY Zenon DEF prioritizeNode, Longest, OneMore
  <2> QED BY <2>1, <2>2
<1>8. CASE S # Nodes
  <2>1. PICK n \in rest : Edges(n) \intersect rest = {} BY <1>5, <1>6, <1>8 DEF Acyclic
  <2>2. n \in Nodes /\ n \notin S /\ Edges(n) \subseteq S BY <1>5, <2>1, EdgesStayInGraph
  <2>3. S \union {n} \in PrioritizedSets BY <2>2, PrioritizeOneMore
  <2>4. Nodes \ (S \union {n}) \in Left BY <2>3
  <2>5. <<Nodes \ (S \union {n}), rest>> \in StrictSubsetOrdering(Nodes)
    BY <1>5, <2>2 DEF StrictSubsetOrdering
  <2> QED BY <1>4, <2>4, <2>5
<1> QED BY <1>7, <1>8

(* One more than the largest of finitely many numbers. *)
LEMMA OneMoreIs ==
    ASSUME NEW W, IsFiniteSet(W), W \subseteq Nat \ {0}
    PROVE  /\ OneMore(W) \in Nat \ {0}
           /\ \A w \in W : w < OneMore(W)
           /\ OneMore(W) > 1 => OneMore(W) - 1 \in W
<1>1. CASE W = {}
  <2>1. OneMore(W) = 1 BY <1>1 DEF OneMore
  <2> QED BY <1>1, <2>1
<1>2. CASE W # {}
  <2> DEFINE x == CHOOSE v \in W : \A w \in W : w <= v
  <2>1. \E v \in W : \A w \in W : w <= v BY <1>2, LargestNumber
  <2>2. x \in W /\ \A w \in W : w <= x BY <2>1
  <2>3. OneMore(W) = 1 + x BY <1>2 DEF OneMore
  <2> HIDE DEF x
  <2> QED BY <2>2, <2>3
<1> QED BY <1>1, <1>2

(* The numbers behind a node are finitely many. *)
LEMMA FinitelyManyBelow ==
    ASSUME NEW n \in Nodes
    PROVE  IsFiniteSet({prioritizeNode[m] : m \in Edges(n)})
<1> DEFINE W == {prioritizeNode[m] : m \in Edges(n)}
           f == [m \in Edges(n) |-> prioritizeNode[m]]
<1>1. IsFiniteSet(Edges(n)) BY NodesFinite, EdgesStayInGraph, FS_Subset
<1>2. f \in [Edges(n) -> W] /\ \A w \in W : \E m \in Edges(n) : f[m] = w OBVIOUS
<1>3. f \in Surjection(Edges(n), W) BY <1>2 DEF Surjection
<1> QED BY <1>1, <1>3, FS_Surjection

(* prioritizeNode numbers nodes from one, each above those behind it. *)
LEMMA NodesAreNumbered ==
    ASSUME Acyclic
    PROVE  \A n \in Nodes :
              /\ prioritizeNode[n] \in Nat \ {0}
              /\ \A m \in Edges(n) : prioritizeNode[m] < prioritizeNode[n]
              /\ prioritizeNode[n] > 1 =>
                    \E m \in Edges(n) : prioritizeNode[m] = prioritizeNode[n] - 1
<1> DEFINE Below(n) == {prioritizeNode[m] : m \in Edges(n)}
           Wrong == {n \in Nodes : prioritizeNode[n] \notin Nat \ {0}}
<1>1. \A n \in Nodes : prioritizeNode[n] = OneMore(Below(n))
  BY PrioritizeEnds DEF Longest
<1>2. Wrong = {}
  <2> SUFFICES ASSUME Wrong # {} PROVE FALSE OBVIOUS
  <2>1. PICK n \in Wrong : Edges(n) \intersect Wrong = {} BY DEF Acyclic
  <2>2. \A m \in Edges(n) : prioritizeNode[m] \in Nat \ {0} BY <2>1, EdgesStayInGraph
  <2>3. Below(n) \subseteq Nat \ {0} BY <2>2
  <2>4. IsFiniteSet(Below(n)) BY FinitelyManyBelow
  <2> HIDE DEF Below
  <2> QED BY <1>1, <2>3, <2>4, OneMoreIs
<1>3. ASSUME NEW n \in Nodes
      PROVE  /\ \A w \in Below(n) : w < prioritizeNode[n]
             /\ prioritizeNode[n] > 1 => prioritizeNode[n] - 1 \in Below(n)
  <2>1. Below(n) \subseteq Nat \ {0} BY <1>2, EdgesStayInGraph
  <2>2. IsFiniteSet(Below(n)) BY FinitelyManyBelow
  <2> HIDE DEF Below
  <2> QED BY <1>1, <2>1, <2>2, OneMoreIs
<1> QED BY <1>2, <1>3

(* No number below that of a node is left out, so there are enough nodes. *)
LEMMA NumbersAreTaken ==
    ASSUME Acyclic, NEW n \in Nodes
    PROVE  prioritizeNode[n] <= Cardinality(Nodes)
<1> DEFINE Taken(v) == \A k \in 1 .. prioritizeNode[v] : \E m \in Nodes : prioritizeNode[m] = k
           Wrong == {v \in Nodes : ~Taken(v)}
<1>1. Wrong = {}
  <2> SUFFICES ASSUME Wrong # {} PROVE FALSE OBVIOUS
  <2>1. PICK v \in Wrong : Edges(v) \intersect Wrong = {} BY DEF Acyclic
  <2>2. ASSUME NEW k \in 1 .. prioritizeNode[v]
        PROVE  \E m \in Nodes : prioritizeNode[m] = k
    <3>1. CASE k = prioritizeNode[v] BY <3>1
    <3>2. CASE k # prioritizeNode[v]
      <4>1. prioritizeNode[v] \in Nat /\ prioritizeNode[v] > 1 /\ k <= prioritizeNode[v] - 1
        BY <3>2, NodesAreNumbered
      <4>2. PICK m \in Edges(v) : prioritizeNode[m] = prioritizeNode[v] - 1
        BY <4>1, NodesAreNumbered
      <4>3. m \in Nodes /\ m \notin Wrong BY <2>1, EdgesStayInGraph
      <4>4. k \in 1 .. prioritizeNode[m] BY <4>1, <4>2
      <4> QED BY <4>3, <4>4
    <3> QED BY <3>1, <3>2
  <2> QED BY <2>2
<1> DEFINE p == prioritizeNode[n]
           f == [k \in 1 .. p |-> CHOOSE m \in Nodes : prioritizeNode[m] = k]
<1>2. \A k \in 1 .. p : f[k] \in Nodes /\ prioritizeNode[f[k]] = k
  <2>1. \A k \in 1 .. p : \E m \in Nodes : prioritizeNode[m] = k BY <1>1
  <2> QED BY <2>1
<1>3. f \in [1 .. p -> Nodes]
  <2>1. f = [k \in 1 .. p |-> f[k]] OBVIOUS
  <2> HIDE DEF f
  <2> QED BY <1>2, <2>1
<1>4. p \in Nat BY NodesAreNumbered
<1> HIDE DEF f, p
<1>5. \A i, k \in 1 .. p : f[i] = f[k] => i = k BY <1>2
<1>6. f \in Injection(1 .. p, Nodes) BY <1>3, <1>5 DEF Injection, IsInjective
<1>7. Cardinality(1 .. p) <= Cardinality(Nodes) BY <1>6, NodesFinite, FS_Injection
<1>8. Cardinality(1 .. p) = p BY <1>4, FS_Interval
<1> QED BY <1>7, <1>8 DEF p

(***************************************************************************)
(* prioritizeNode orders every acyclic graph: a node comes before those    *)
(* behind it, the finisher after all others, and no priority is as high as *)
(* that of a datapoint with a new result.                                  *)
(***************************************************************************)
THEOREM PrioritiesFollowEdges == Acyclic => PrioritiesOrdered
<1> SUFFICES ASSUME Acyclic, NEW n \in Nodes
             PROVE  /\ priorityMap[n] \in 0 .. Cardinality(Nodes)
                    /\ n # Finisher => priorityMap[n] > 0
                    /\ \A m \in Edges(n) : priorityMap[m] < priorityMap[n]
  BY DEF PrioritiesOrdered
<1>1. Cardinality(Nodes) \in Nat BY NodesFinite, FS_CardinalityType
<1>2. prioritizeNode[n] \in Nat \ {0} /\ prioritizeNode[n] <= Cardinality(Nodes)
  BY NodesAreNumbered, NumbersAreTaken
<1>3. Edges(Finisher) = {} BY DEF Edges, Finisher
<1>4. ASSUME NEW m \in Edges(n) PROVE priorityMap[m] < priorityMap[n]
  <2>1. n # Finisher /\ m \in Nodes BY <1>3, EdgesStayInGraph
  <2>2. prioritizeNode[m] \in Nat \ {0} /\ prioritizeNode[m] < prioritizeNode[n]
    BY <2>1, NodesAreNumbered
  <2> QED BY <1>2, <2>1, <2>2 DEF priorityMap
<1> QED BY <1>1, <1>2, <1>4 DEF priorityMap

-----------------------------------------------------------------------------
(***************************************************************************)
(* The finisher.  Its item has the lowest priority, except in the first    *)
(* round, which Execute starts with every node at the highest; in that     *)
(* round a datapoint that a query is still to report keeps it from         *)
(* closing doneChan.  (In a graph whose datapoints are all preset it may   *)
(* close it before the others have had their turn: SomeQueryReports.)      *)
(***************************************************************************)
ReportOutstanding == \E d \in GraphDatapoints : dpRes[d] = None

FinisherInv ==
    /\ \A item \in queue : item[1] # Finisher => item[2] \in Nat \ {0}
    /\ \A item \in queue :
         item[1] = Finisher /\ GraphDatapoints # {} =>
             item[2] = 0 \/ (pc = "process" /\ ReportOutstanding)

(* The number of nodes is finite, so there is a highest priority. *)
LEMMA MaxPriorityPositive ==
    /\ maxPriority \in Nat \ {0}
    /\ Cardinality(Nodes) \in Nat /\ Cardinality(Nodes) < maxPriority
<1>1. Cardinality(Nodes) \in Nat BY NodesFinite, FS_CardinalityType
<1> QED BY <1>1 DEF maxPriority

(* The first round starts with a datapoint that has not reported. *)
LEMMA FinisherInit == PrioritiesOrdered /\ SomeQueryReports /\ Init => FinisherInv
<1> SUFFICES ASSUME SomeQueryReports, Init PROVE FinisherInv OBVIOUS
<1>1. \A item \in queue : item[2] = maxPriority BY DEF Init
<1>2. GraphDatapoints # {} => ReportOutstanding
  BY DEF Init, SomeQueryReports, PresetDatapoints, Preset, ReportOutstanding
<1>3. pc = "process" BY DEF Init
<1> QED BY <1>1, <1>2, <1>3, MaxPriorityPositive DEF FinisherInv

(* An emission queues the finisher behind every other node. *)
LEMMA FinisherStep ==
    PrioritiesOrdered /\ TypeInv /\ RoundInv /\ FinisherInv /\ [Next]_vars => FinisherInv'
<1> SUFFICES ASSUME PrioritiesOrdered, TypeInv, RoundInv, FinisherInv, [Next]_vars
             PROVE  FinisherInv'
  OBVIOUS
<1>1. CASE ProcessQueue
  <2>1. PICK item \in queue : Recalculate(item) BY <1>1 DEF ProcessQueue
  <2>2. Emit(item) \/ EmitNothing(item)
    BY <2>1 DEF Recalculate, RecalculateDatapoint, RecalculateExecutionQuery,
       RecalculateReportingQuery, RecalculateReportingJob, RecalculateStatic,
       RecalculateFinisher, RecalculateDatapointCollector, RecalculateScoreCollector
  <2>3. dpRes' = dpRes
    BY <2>1 DEF Recalculate, RecalculateDatapoint, RecalculateExecutionQuery,
       RecalculateReportingQuery, RecalculateReportingJob, RecalculateStatic,
       RecalculateFinisher, RecalculateDatapointCollector, RecalculateScoreCollector,
       nodeVars, dpVars
  <2>4. item[1] \in Nodes BY DEF TypeInv, TypeOK, LoopTyped
  <2>5. ASSUME NEW i \in queue' 
        PROVE  i \in queue \/ (i[1] \in Nodes /\ i[2] = priorityMap[i[1]])
    BY <2>2, <2>4, EdgesStayInGraph DEF Emit, EmitNothing
  <2>6. ASSUME NEW i \in queue', i \notin queue, i[1] # Finisher
        PROVE  i[2] \in Nat \ {0}
    BY <2>5, <2>6 DEF PrioritiesOrdered
  <2>7. ASSUME NEW i \in queue', i \notin queue, i[1] = Finisher
        PROVE  i[2] = 0
    BY <2>5, <2>7 DEF priorityMap
  <2>8. pc' = pc BY <1>1 DEF ProcessQueue
  <2> QED BY <2>3, <2>6, <2>7, <2>8 DEF FinisherInv, ReportOutstanding
<1>2. CASE ReceiveResult
  <2>1. PICK i : i[1] # Finisher /\ i[2] = maxPriority /\ queue' = queue \union {i}
    <3>1. DatapointNode(Head(resultChan).dp) # Finisher
      BY DEF DatapointNode, Finisher
    <3> QED BY <1>2, <3>1 DEF ReceiveResult
  <2>2. pc # "process" BY <1>2 DEF ReceiveResult
  <2> QED BY <2>1, <2>2, MaxPriorityPositive DEF FinisherInv
<1>3. CASE UNCHANGED <<nodeVars, queue>> /\ (pc = "process" => pc' = pc)
  BY <1>3 DEF FinisherInv, ReportOutstanding, nodeVars, dpVars
<1>4. CASE RoundEnds BY <1>4 DEF RoundEnds, FinisherInv
<1>5. CASE ReceiveDone \/ ReceiveError \/ DrainEnds \/ Stop \/ Return
  BY <1>3, <1>5 DEF ReceiveDone, ReceiveError, DrainEnds, Stop, Return
<1>6. CASE ExecutionManager \/ Engine
  BY <1>3, <1>6 DEF ExecutionManager, Engine, CheckStop, SelectStop, Dequeue,
     BundleDone, BundleFails, Broadcast, Callback, SendResult, loopVars
<1>7. CASE UNCHANGED vars BY <1>3, <1>7 DEF vars, loopVars
<1> QED BY <1>1, <1>2, <1>4, <1>5, <1>6, <1>7 DEF Next, GraphLoop, Terminated

(* The finisher's turn comes when no other node is queued. *)
LEMMA ClosingComesLast ==
    ASSUME LoopInv, FinisherInv, [Next]_vars, doneClosed' # doneClosed
    PROVE  /\ doneClosed = 0
           /\ \A d \in GraphDatapoints : dpRes[d] # None
           /\ GraphDatapoints # {} => Idle
<1>1. PICK item \in queue : Top(item) /\ Recalculate(item)
  <2>1. ProcessQueue \/ UNCHANGED doneClosed
    BY DEF Next, GraphLoop, Terminated, RoundEnds, ReceiveResult, ReceiveDone,
       ReceiveError, DrainEnds, Stop, Return, ExecutionManager, Engine, CheckStop,
       SelectStop, Dequeue, BundleDone, BundleFails, Broadcast, Callback, SendResult,
       vars, nodeVars, finVars
  <2> QED BY <2>1 DEF ProcessQueue
<1>2. item[1] = Finisher /\ finInvalidated /\ remaining = {}
  BY <1>1 DEF Recalculate, RecalculateDatapoint, RecalculateExecutionQuery,
     RecalculateReportingQuery, RecalculateReportingJob, RecalculateStatic,
     RecalculateFinisher, RecalculateDatapointCollector, RecalculateScoreCollector,
     FinisherConsume, nodeVars, finVars
<1>3. doneClosed = 0
  BY <1>2 DEF LoopInv, ReportedInv, TypeInv, TypeOK, CollectorsTyped
<1>4. \A d \in GraphDatapoints : dpRes[d] # None BY <1>2 DEF LoopInv, ReportedInv
<1>5. ASSUME GraphDatapoints # {} PROVE Idle
  <2>1. item[2] = 0 BY <1>2, <1>4, <1>5 DEF FinisherInv, ReportOutstanding
  <2>2. ASSUME NEW i \in queue, i[1] # Finisher PROVE FALSE
    <3>1. i[2] <= 0 BY <1>1, <2>1 DEF Top
    <3> QED BY <2>2, <3>1 DEF FinisherInv
  <2>3. \A n : Queued(n) => n = Finisher BY <2>2 DEF Queued
  <2>4. ~Rescore BY <1>5 DEF GraphDatapoints, GraphQueries
  <2> QED BY <2>3, <2>4, EmptyQueueIsIdle DEF LoopInv, WorkInv
<1> QED BY <1>3, <1>4, <1>5

(***************************************************************************)
(* doneChan is closed at most once, when every datapoint has reported and  *)
(* every other node is done with what was reported: for every graph        *)
(* without cycles in which some query reports.                             *)
(***************************************************************************)
THEOREM DoneIsLast ==
    Acyclic /\ SomeQueryReports => (Spec => DoneComesLast)
<1> SUFFICES ASSUME Acyclic, SomeQueryReports PROVE Spec => DoneComesLast
  OBVIOUS
<1>1. Init => FinisherInv BY PrioritiesFollowEdges, FinisherInit
<1>2. LoopInv /\ FinisherInv /\ [Next]_vars => FinisherInv'
  BY PrioritiesFollowEdges, FinisherStep DEF LoopInv
<1>3. LoopInv /\ FinisherInv /\ [Next]_vars =>
          [doneClosed' # doneClosed =>
             /\ doneClosed = 0
             /\ \A d \in GraphDatapoints : dpRes[d] # None
             /\ GraphDatapoints # {} => Idle]_vars
  BY ClosingComesLast
<1> QED BY <1>1, <1>2, <1>3, LoopInvariant, PTL DEF Spec, DoneComesLast

-----------------------------------------------------------------------------
(***************************************************************************)
(* The run queue.  The queries in it are different ones that have been     *)
(* marked as executed, so that none is queued again; a query is marked     *)
(* when all its properties are known, and they stay known.                 *)
(***************************************************************************)
PropsKnown(q) == \A d \in RequiredProps[q] : eqProps[q][d] # None

QueriesInv ==
    \A q \in RunnableQueries :
        /\ eqState[q] # "notReady" => PropsKnown(q)
        /\ \A d \in RequiredProps[q] : eqProps[q][d] # None => d \in GraphDatapoints

RunQueueInv ==
    /\ \A i \in 1 .. Len(runQueue) : eqState[runQueue[i]] = "executed"
    /\ \A i, j \in 1 .. Len(runQueue) : runQueue[i] = runQueue[j] => i = j

queryVars == <<eqState, eqProps>>

(* A query that needs no property is ready before the first round. *)
LEMMA QueriesInit == Init => QueriesInv /\ RunQueueInv
<1> SUFFICES ASSUME Init PROVE QueriesInv /\ RunQueueInv OBVIOUS
<1>1. QueriesInv BY DEF Init, QueriesInv, PropsKnown
<1>2. Len(runQueue) = 0 BY DEF Init
<1>3. RunQueueInv BY <1>2 DEF RunQueueInv
<1> QED BY <1>1, <1>3

(* A property that is known stays known. *)
LEMMA QueriesStep ==
    TypeInv /\ CopiesInv /\ QueriesInv /\ [Next]_vars => QueriesInv'
<1> SUFFICES ASSUME TypeInv, CopiesInv, QueriesInv, [Next]_vars PROVE QueriesInv'
  OBVIOUS
<1>1. CASE UNCHANGED queryVars BY <1>1 DEF QueriesInv, PropsKnown, queryVars
<1>2. CASE ProcessQueue
  <2>1. PICK item \in queue : Recalculate(item) BY <1>2 DEF ProcessQueue
  <2>2. CASE RecalculateDatapoint(item)
    <3> DEFINE d == item[1][2]
    <3>1. d \in GraphDatapoints
      BY <2>2, NodeKinds DEF RecalculateDatapoint, TypeInv, TypeOK, LoopTyped
    <3>2. CASE ~dpInvalidated[d]
      BY <1>1, <2>2, <3>2 DEF RecalculateDatapoint, nodeVars, eqVars, queryVars
    <3>3. CASE dpInvalidated[d]
      <4>1. /\ ReportingQueriesConsume(d, dpRes[d])
            /\ ExecutionQueriesConsume(d, dpRes[d])
            /\ JobsConsumeData(d, dpRes[d])
        BY <2>2, <3>3 DEF RecalculateDatapoint
      <4>2. CopiesLag(d) /\ dpRes[d] # None BY <3>1, <3>3 DEF CopiesInv, CopiesLag
      <4>3. ASSUME NEW q \in RunnableQueries, NEW e \in RequiredProps[q]
            PROVE  eqProps'[q][e] = IF e = d THEN dpRes[d] ELSE eqProps[q][e]
        <5>1. CASE e = d BY <3>1, <4>1, <4>2, <5>1, ConsumersCatchUp
        <5>2. CASE e # d
          BY <4>1, <5>2 DEF ExecutionQueriesConsume, TypeInv, TypeOK, ExecutionQueriesTyped
        <5> QED BY <5>1, <5>2
      <4>4. eqState' = eqState BY <4>1 DEF ExecutionQueriesConsume
      <4> QED BY <3>1, <4>2, <4>3, <4>4 DEF QueriesInv, PropsKnown
    <3> QED BY <3>2, <3>3
  <2>3. CASE RecalculateExecutionQuery(item)
    <3> DEFINE q == item[1][2]
    <3>1. q \in RunnableQueries
      BY <2>3, NodeKinds DEF RecalculateExecutionQuery, TypeInv, TypeOK, LoopTyped
    <3>2. eqProps' = eqProps BY <2>3 DEF RecalculateExecutionQuery, eqVars
    <3>3. \/ eqState' = eqState
          \/ eqState' = [eqState EXCEPT ![q] = RunState(q)]
          \/ RunState(q) = "ready" /\ eqState' = [eqState EXCEPT ![q] = "executed"]
      BY <2>3 DEF RecalculateExecutionQuery, eqVars
    <3>4. RunState(q) # "notReady" => PropsKnown(q)
      BY <3>1 DEF RunState, QueriesInv, PropsKnown
    <3>5. ASSUME NEW p \in RunnableQueries, eqState'[p] # "notReady" PROVE PropsKnown(p)
      <4>1. CASE p = q
        <5>1. eqState'[q] = eqState[q] \/ RunState(q) # "notReady"
          BY <3>1, <3>3, <3>5, <4>1 DEF TypeInv, TypeOK, ExecutionQueriesTyped
        <5> QED BY <3>1, <3>4, <3>5, <4>1, <5>1 DEF QueriesInv
      <4>2. CASE p # q
        <5>1. eqState'[p] = eqState[p]
          BY <3>3, <4>2 DEF TypeInv, TypeOK, ExecutionQueriesTyped
        <5> QED BY <3>5, <5>1 DEF QueriesInv
      <4> QED BY <4>1, <4>2
    <3> QED BY <3>2, <3>5 DEF QueriesInv, PropsKnown
  <2>4. CASE UNCHANGED eqVars BY <1>1, <2>4 DEF eqVars, queryVars
  <2> QED BY <2>1, <2>2, <2>3, <2>4 DEF Recalculate, RecalculateReportingQuery,
             RecalculateReportingJob, RecalculateStatic, RecalculateFinisher,
             RecalculateDatapointCollector, RecalculateScoreCollector
<1>3. CASE UNCHANGED eqVars BY <1>1, <1>3 DEF eqVars, queryVars
<1>4. CASE GraphLoop /\ ~ProcessQueue
  BY <1>3, <1>4 DEF GraphLoop, RoundEnds, ReceiveResult, ReceiveDone, ReceiveError,
     DrainEnds, Stop, Return, nodeVars
<1>5. CASE ExecutionManager \/ Engine
  BY <1>3, <1>5 DEF ExecutionManager, Engine, CheckStop, SelectStop, Dequeue,
     BundleDone, BundleFails, Broadcast, Callback, SendResult, nodeVars
<1>6. CASE UNCHANGED vars BY <1>3, <1>6 DEF vars, nodeVars
<1> QED BY <1>2, <1>4, <1>5, <1>6 DEF Next, Terminated

(* A query is queued when it is marked, and it is marked once. *)
LEMMA RunQueueStep == TypeInv /\ RunQueueInv /\ [Next]_vars => RunQueueInv'
<1> SUFFICES ASSUME TypeInv, RunQueueInv, [Next]_vars PROVE RunQueueInv' OBVIOUS
<1>1. runQueue \in Seq(RunnableQueries) BY DEF TypeInv, TypeOK, ChannelsTyped
<1>2. CASE UNCHANGED <<eqState, runQueue>> BY <1>2 DEF RunQueueInv
<1>3. CASE ProcessQueue
  <2>1. PICK item \in queue : Recalculate(item) BY <1>3 DEF ProcessQueue
  <2>2. CASE RecalculateExecutionQuery(item)
    <3> DEFINE q == item[1][2]
    <3>1. q \in RunnableQueries /\ eqState \in
             [RunnableQueries -> {"notReady", "ready", "executed"}]
      BY <2>2, NodeKinds DEF RecalculateExecutionQuery, TypeInv, TypeOK, LoopTyped,
         ExecutionQueriesTyped
    <3>2. CASE eqInvalidated[q] /\ RunState(q) = "ready"
      <4>1. /\ runQueue' = Append(runQueue, q)
            /\ eqState' = [eqState EXCEPT ![q] = "executed"]
        BY <2>2, <3>2 DEF RecalculateExecutionQuery
      <4>2. eqState[q] # "executed" BY <3>2 DEF RunState
      <4>3. /\ Len(runQueue') = Len(runQueue) + 1
            /\ runQueue'[Len(runQueue) + 1] = q
            /\ \A i \in 1 .. Len(runQueue) :
                 runQueue'[i] = runQueue[i] /\ runQueue[i] \in RunnableQueries
        BY <1>1, <3>1, <4>1
      <4>4. \A i \in 1 .. Len(runQueue) : runQueue[i] # q
        BY <4>2 DEF RunQueueInv
      <4>5. \A i \in 1 .. Len(runQueue') : i \in 1 .. Len(runQueue) \/ i = Len(runQueue) + 1
        BY <1>1, <4>3
      <4>6. \A i \in 1 .. Len(runQueue') : eqState'[runQueue'[i]] = "executed"
        BY <3>1, <4>1, <4>3, <4>5 DEF RunQueueInv
      <4>7. \A i, j \in 1 .. Len(runQueue') : runQueue'[i] = runQueue'[j] => i = j
        BY <4>3, <4>4, <4>5 DEF RunQueueInv
      <4> QED BY <4>6, <4>7 DEF RunQueueInv
    <3>3. CASE ~(eqInvalidated[q] /\ RunState(q) = "ready")
      <4>1. runQueue' = runQueue BY <2>2, <3>3 DEF RecalculateExecutionQuery
      <4>2. \/ eqState' = eqState
            \/ eqState' = [eqState EXCEPT ![q] = RunState(q)]
        BY <2>2, <3>3 DEF RecalculateExecutionQuery, eqVars
      <4>3. eqState[q] = "executed" => RunState(q) = "executed" BY DEF RunState
      <4>4. \A p \in RunnableQueries : eqState[p] = "executed" => eqState'[p] = "executed"
        BY <3>1, <4>2, <4>3
      <4> QED BY <1>1, <4>1, <4>4 DEF RunQueueInv
    <3> QED BY <3>2, <3>3
  <2>3. CASE RecalculateDatapoint(item)
    BY <1>2, <2>3 DEF RecalculateDatapoint, ExecutionQueriesConsume, nodeVars, eqVars,
       chanVars
  <2>4. CASE UNCHANGED <<eqVars, chanVars>> BY <1>2, <2>4 DEF eqVars, chanVars
  <2> QED BY <2>1, <2>2, <2>3, <2>4 DEF Recalculate, RecalculateReportingQuery,
             RecalculateReportingJob, RecalculateStatic, RecalculateFinisher,
             RecalculateDatapointCollector, RecalculateScoreCollector
<1>4. CASE Dequeue
  <2>1. runQueue # <<>> /\ runQueue' = Tail(runQueue) /\ eqState' = eqState
    BY <1>4 DEF Dequeue, nodeVars, eqVars
  <2>2. /\ Len(runQueue') = Len(runQueue) - 1
        /\ \A i \in 1 .. Len(runQueue') : runQueue'[i] = runQueue[i + 1]
        /\ \A i \in 1 .. Len(runQueue') : i + 1 \in 1 .. Len(runQueue)
    BY <1>1, <2>1
  <2>3. \A i \in 1 .. Len(runQueue') : eqState'[runQueue'[i]] = "executed"
    BY <2>1, <2>2 DEF RunQueueInv
  <2>4. ASSUME NEW i \in 1 .. Len(runQueue'), NEW j \in 1 .. Len(runQueue'),
               runQueue'[i] = runQueue'[j]
        PROVE  i = j
    <3>1. i + 1 = j + 1 BY <2>2, <2>4 DEF RunQueueInv
    <3> QED BY <3>1
  <2> QED BY <2>3, <2>4 DEF RunQueueInv
<1>5. CASE GraphLoop /\ ~ProcessQueue
  BY <1>2, <1>5 DEF GraphLoop, RoundEnds, ReceiveResult, ReceiveDone, ReceiveError,
     DrainEnds, Stop, Return, nodeVars, eqVars, chanVars
<1>6. CASE (ExecutionManager \/ Engine) /\ ~Dequeue
  BY <1>2, <1>6 DEF ExecutionManager, Engine, CheckStop, SelectStop,
     BundleDone, BundleFails, Broadcast, Callback, SendResult, nodeVars, eqVars, chanVars
<1>7. CASE UNCHANGED vars BY <1>2, <1>7 DEF vars, nodeVars, eqVars, chanVars
<1> QED BY <1>3, <1>4, <1>5, <1>6, <1>7 DEF Next, Terminated

QueueInv == TypeInv /\ CopiesInv /\ QueriesInv /\ RunQueueInv

(* The invariant of the run queue. *)
LEMMA QueueInvariant == Spec => []QueueInv
<1>1. Init => QueueInv BY TypeInit, CopiesInit, QueriesInit DEF QueueInv
<1>2. QueueInv /\ [Next]_vars => QueueInv'
  BY TypeStep, CopiesStep, QueriesStep, RunQueueStep DEF QueueInv
<1> QED BY <1>1, <1>2, PTL DEF Spec

(* A sequence of different members of S \ {x} is shorter than S is large. *)
LEMMA DistinctIsShort ==
    ASSUME NEW S, IsFiniteSet(S), NEW x \in S, NEW s \in Seq(S),
           \A i \in 1 .. Len(s) : s[i] # x,
           \A i, j \in 1 .. Len(s) : s[i] = s[j] => i = j
    PROVE  Len(s) < Cardinality(S)
<1> DEFINE T == S \ {x}
<1>1. IsFiniteSet(T) /\ Cardinality(T) = Cardinality(S) - 1 BY FS_RemoveElement
<1>2. Cardinality(S) \in Nat BY FS_CardinalityType
<1>3. s \in [1 .. Len(s) -> T] /\ Len(s) \in Nat OBVIOUS
<1>4. s \in Injection(1 .. Len(s), T) BY <1>3 DEF Injection, IsInjective
<1>5. Cardinality(1 .. Len(s)) <= Cardinality(T) BY <1>1, <1>4, FS_Injection
<1>6. Cardinality(1 .. Len(s)) = Len(s) BY <1>3, FS_Interval
<1> QED BY <1>1, <1>2, <1>3, <1>5, <1>6

(***************************************************************************)
(* For every graph the send on runQueue finds room: the channel is as      *)
(* large as there are queries, and no query is queued twice.               *)
(***************************************************************************)
THEOREM RunQueueNeverBlocks == Spec => []RunQueueHasRoom
<1>1. QueueInv => RunQueueHasRoom
  <2> SUFFICES ASSUME QueueInv, NEW q \in RunnableQueries, RunState(q) = "ready"
               PROVE  Len(runQueue) < RunQueueCap
    BY DEF RunQueueHasRoom
  <2>1. runQueue \in Seq(RunnableQueries)
    BY DEF QueueInv, TypeInv, TypeOK, ChannelsTyped
  <2>2. RunnableQueries \subseteq Queries /\ IsFiniteSet(Queries)
    BY GraphAssumption DEF RunnableQueries
  <2>3. runQueue \in Seq(Queries) BY <2>1, <2>2
  <2>4. \A i \in 1 .. Len(runQueue) : runQueue[i] # q
    BY DEF QueueInv, RunQueueInv, RunState
  <2>5. \A i, j \in 1 .. Len(runQueue) : runQueue[i] = runQueue[j] => i = j
    BY DEF QueueInv, RunQueueInv
  <2> QED BY <2>2, <2>3, <2>4, <2>5, DistinctIsShort DEF RunQueueCap
<1> QED BY <1>1, QueueInvariant, PTL

(***************************************************************************)
(* For every graph a query starts with all its properties, each with the   *)
(* result its datapoint has at that time.                                  *)
(***************************************************************************)
THEOREM PropsAreCurrent == Spec => StartsWithCurrentProps
<1>1. QueueInv /\ [Next]_vars =>
          [emPc = "select" /\ emPc' \in {"running", "broadcast"} =>
             \A d \in RequiredProps[emQuery'] :
                /\ emProps'[d] # None
                /\ dpInvalidated[d] \/ emProps'[d] = dpRes[d]]_vars
  <2> SUFFICES ASSUME QueueInv, [Next]_vars, emPc = "select",
                      emPc' \in {"running", "broadcast"},
                      NEW d \in RequiredProps[emQuery']
               PROVE  /\ emProps'[d] # None
                      /\ dpInvalidated[d] \/ emProps'[d] = dpRes[d]
    OBVIOUS
  <2>1. Dequeue
    BY DEF Next, GraphLoop, Terminated, ProcessQueue, Recalculate, RecalculateDatapoint,
       RecalculateExecutionQuery, RecalculateReportingQuery, RecalculateReportingJob,
       RecalculateStatic, RecalculateFinisher, RecalculateDatapointCollector,
       RecalculateScoreCollector, RoundEnds, ReceiveResult, ReceiveDone, ReceiveError,
       DrainEnds, Stop, Return, ExecutionManager, Engine, CheckStop, SelectStop,
       BundleDone, BundleFails, Broadcast, Callback, SendResult, vars, emVars
  <2> DEFINE q == emQuery'
  <2>2. q = Head(runQueue) /\ emProps' = eqProps[q] /\ runQueue # <<>>
    BY <2>1 DEF Dequeue, materializeProps
  <2>3. runQueue \in Seq(RunnableQueries)
    BY DEF QueueInv, TypeInv, TypeOK, ChannelsTyped
  <2>4. q \in RunnableQueries /\ eqState[q] = "executed"
    <3>1. q = runQueue[1] /\ 1 \in 1 .. Len(runQueue) BY <2>2, <2>3
    <3> QED BY <2>3, <3>1 DEF QueueInv, RunQueueInv
  <2>5. eqProps[q][d] # None /\ d \in GraphDatapoints
    BY <2>4 DEF QueueInv, QueriesInv, PropsKnown
  <2>6. dpInvalidated[d] \/ eqProps[q][d] = dpRes[d]
    BY <2>4, <2>5 DEF QueueInv, CopiesInv, CopiesLag, Lag
  <2> QED BY <2>2, <2>5, <2>6
<1> QED BY <1>1, QueueInvariant, PTL DEF Spec, StartsWithCurrentProps

-----------------------------------------------------------------------------
(***************************************************************************)
(* Collected data.  A datapoint that is about to be emitted has a better   *)
(* result than the last one handed on, and what the collector node holds   *)
(* is better than what the collector has.                                  *)
(***************************************************************************)
Newest(d) == IF dcUnreported[d] # None THEN dcUnreported[d] ELSE sunkData[d]

ImprovesInv ==
    \A d \in Datapoints :
        /\ dcUnreported[d] # None => Rank(dcUnreported[d]) > Rank(sunkData[d])
        /\ d \in GraphDatapoints /\ d \in CollectedDatapoints /\ dpInvalidated[d]
             => Rank(dpRes[d]) > Rank(Newest(d))

collectedVars == <<dpRes, dpInvalidated, dcUnreported, sunkData>>

(* Ranks are numbers, and an upgrade has a higher one. *)
LEMMA RankGrows ==
    ASSUME NEW prev \in Optional(Results), NEW res \in Results
    PROVE  /\ Rank(prev) \in 0 .. 3 /\ Rank(res) \in 1 .. 3
           /\ prev = None \/ resultUpgrades(prev, res) => Rank(res) > Rank(prev)
BY DEF Rank, Optional, Results, Executed, None, resultUpgrades, isPlaceholderResult,
   isNilResult, hasRealData

(* Nothing has been collected before the first round. *)
LEMMA ImprovesInit == Init => ImprovesInv
<1> SUFFICES ASSUME Init, NEW d \in Datapoints
             PROVE  /\ dcUnreported[d] = None
                    /\ d \in GraphDatapoints /\ dpInvalidated[d]
                         => Rank(dpRes[d]) > Rank(Newest(d))
  BY DEF ImprovesInv
<1>1. dcUnreported[d] = None /\ sunkData[d] = None BY DEF Init
<1>2. d \in GraphDatapoints /\ dpInvalidated[d] => dpRes[d] = "err"
  BY DEF Init, Preset
<1> QED BY <1>1, <1>2 DEF Newest, Rank, None

(* Emitting a datapoint hands on its better result. *)
LEMMA DatapointImproves ==
    ASSUME TypeInv, ImprovesInv, NEW item \in queue, RecalculateDatapoint(item)
    PROVE  ImprovesInv' /\ UNCHANGED sunkData
<1> DEFINE d == item[1][2]
<1>1. d \in GraphDatapoints /\ d \in Datapoints
  BY NodeKinds, GraphDatapointsTyped DEF RecalculateDatapoint, TypeInv, TypeOK, LoopTyped
<1>2. CASE ~dpInvalidated[d]
  BY <1>2 DEF RecalculateDatapoint, nodeVars, dpVars, colVars, ImprovesInv, Newest
<1>3. CASE dpInvalidated[d]
  <2>1. /\ dpInvalidated' = [dpInvalidated EXCEPT ![d] = FALSE]
        /\ dcUnreported' = IF d \in CollectedDatapoints
                           THEN [dcUnreported EXCEPT ![d] = dpRes[d]]
                           ELSE dcUnreported
        /\ UNCHANGED <<dpRes, sunkData>>
    BY <1>3 DEF RecalculateDatapoint
  <2>2. /\ dpInvalidated \in [GraphDatapoints -> BOOLEAN]
        /\ dpRes \in [GraphDatapoints -> Optional(Results)]
        /\ dcUnreported \in [Datapoints -> Optional(Results)]
        /\ sunkData \in [Datapoints -> Optional(Results)]
    BY DEF TypeInv, TypeOK, DatapointsTyped, CollectorsTyped
  <2>3. \A r \in Optional(Results) : Rank(r) \in 0 .. 3
    BY RankGrows DEF Results
  <2>4. d \in CollectedDatapoints => Rank(dpRes[d]) > Rank(sunkData[d])
    <3>1. ASSUME d \in CollectedDatapoints PROVE Rank(dpRes[d]) > Rank(Newest(d))
      BY <1>1, <1>3, <3>1 DEF ImprovesInv
    <3>2. dcUnreported[d] # None => Rank(dcUnreported[d]) > Rank(sunkData[d])
      BY <1>1 DEF ImprovesInv
    <3>3. /\ Rank(dpRes[d]) \in Int /\ Rank(sunkData[d]) \in Int
          /\ Rank(dcUnreported[d]) \in Int
      BY <1>1, <2>2, <2>3
    <3> QED BY <3>1, <3>2, <3>3 DEF Newest
  <2>5. ASSUME NEW e \in Datapoints, dcUnreported'[e] # None
        PROVE  Rank(dcUnreported'[e]) > Rank(sunkData'[e])
    BY <2>1, <2>2, <2>4, <2>5 DEF ImprovesInv
  <2>6. ASSUME NEW e \in GraphDatapoints, e \in CollectedDatapoints, dpInvalidated'[e]
        PROVE  Rank(dpRes'[e]) > Rank(Newest(e)')
    <3>1. e # d /\ dpInvalidated[e] /\ e \in Datapoints
      BY <1>1, <2>1, <2>2, <2>6, GraphDatapointsTyped
    <3>2. Newest(e)' = Newest(e) BY <2>1, <2>2, <3>1 DEF Newest
    <3> QED BY <2>1, <2>6, <3>1, <3>2 DEF ImprovesInv
  <2> QED BY <2>1, <2>5, <2>6 DEF ImprovesInv
<1> QED BY <1>2, <1>3

(* A result is accepted when it is better than the datapoint's. *)
LEMMA ReceiveImproves ==
    ASSUME TypeInv, CopiesInv, ImprovesInv, ReceiveResult
    PROVE  ImprovesInv' /\ UNCHANGED sunkData
<1>1. PICK d \in GraphDatapoints, res \in Results :
          d = Head(resultChan).dp /\ res = Head(resultChan).res
  <2>1. resultChan \in Seq(ResultMessages) /\ resultChan # <<>>
    BY DEF ReceiveResult, ChannelsTyped, TypeInv, TypeOK
  <2>2. Head(resultChan) \in ResultMessages BY <2>1
  <2> QED BY <2>2 DEF ResultMessages
<1> DEFINE accepted == dpRes[d] = None \/ resultUpgrades(dpRes[d], res)
<1>2. UNCHANGED <<dcUnreported, sunkData>> BY DEF ReceiveResult, colVars
<1>3. /\ dpRes' = IF accepted THEN [dpRes EXCEPT ![d] = res] ELSE dpRes
      /\ dpInvalidated' = [dpInvalidated EXCEPT ![d] = @ \/ accepted]
  BY <1>1 DEF ReceiveResult
<1>4. /\ dpRes \in [GraphDatapoints -> Optional(Results)]
      /\ dpInvalidated \in [GraphDatapoints -> BOOLEAN]
      /\ dcUnreported \in [Datapoints -> Optional(Results)]
      /\ sunkData \in [Datapoints -> Optional(Results)]
  BY DEF TypeInv, TypeOK, DatapointsTyped, CollectorsTyped
<1>5. ASSUME NEW e \in GraphDatapoints, e \in CollectedDatapoints, dpInvalidated'[e]
      PROVE  Rank(dpRes'[e]) > Rank(Newest(e)')
  <2>1. Newest(e)' = Newest(e) /\ e \in Datapoints
    BY <1>2, GraphDatapointsTyped DEF Newest
  <2>2. Newest(e) \in Optional(Results) BY <1>4, <2>1 DEF Newest
  <2>3. CASE e = d /\ accepted
    <3>1. Rank(res) > Rank(dpRes[d]) /\ dpRes[d] \in Optional(Results)
      BY <1>1, <1>4, <2>3, RankGrows
    <3>2. Rank(res) \in 0 .. 3 /\ Rank(dpRes[d]) \in 0 .. 3 /\ Rank(Newest(e)) \in 0 .. 3
      BY <1>1, <2>2, <3>1, RankGrows
    <3>3. CASE dpInvalidated[d]
      <4>1. Rank(dpRes[d]) > Rank(Newest(e))
        BY <1>5, <2>1, <2>3, <3>3 DEF ImprovesInv
      <4> QED BY <1>3, <1>4, <2>1, <2>3, <3>1, <3>2, <4>1
    <3>4. CASE ~dpInvalidated[d]
      <4>1. dpRes[d] = Newest(e)
        BY <1>5, <2>3, <3>4 DEF CopiesInv, CopiesLag, CollectedCopy, Newest
      <4> QED BY <1>3, <1>4, <2>1, <2>3, <3>1, <4>1
    <3> QED BY <3>3, <3>4
  <2>4. CASE ~(e = d /\ accepted)
    <3>1. dpInvalidated[e] /\ dpRes'[e] = dpRes[e] BY <1>1, <1>3, <1>4, <1>5, <2>4
    <3> QED BY <1>5, <2>1, <3>1 DEF ImprovesInv
  <2> QED BY <2>3, <2>4
<1> QED BY <1>2, <1>5 DEF ImprovesInv

(* The collector is handed what improves on what it has. *)
LEMMA CollectorImproves ==
    ASSUME TypeInv, ImprovesInv, NEW item \in queue, RecalculateDatapointCollector(item)
    PROVE  /\ ImprovesInv'
           /\ \A d \in Datapoints :
                sunkData'[d] # sunkData[d] => Rank(sunkData'[d]) > Rank(sunkData[d])
<1>1. ASSUME NEW d \in Datapoints
      PROVE  /\ dcUnreported'[d] = None /\ sunkData'[d] = Newest(d)
             /\ dpRes' = dpRes /\ dpInvalidated' = dpInvalidated
  BY DEF RecalculateDatapointCollector, Newest, dpVars
<1>2. \A d \in Datapoints : Newest(d)' = Newest(d) BY <1>1 DEF Newest
<1> QED BY <1>1, <1>2 DEF ImprovesInv, Newest

(* No other step touches what is collected. *)
LEMMA ImprovesStep ==
    ASSUME TypeInv, CopiesInv, ImprovesInv, [Next]_vars
    PROVE  /\ ImprovesInv'
           /\ \A d \in Datapoints :
                sunkData'[d] # sunkData[d] => Rank(sunkData'[d]) > Rank(sunkData[d])
<1>1. CASE UNCHANGED collectedVars
  BY <1>1 DEF collectedVars, ImprovesInv, Newest
<1>2. CASE ProcessQueue
  <2>1. PICK item \in queue : Recalculate(item) BY <1>2 DEF ProcessQueue
  <2>2. CASE \/ RecalculateExecutionQuery(item) \/ RecalculateFinisher(item)
             \/ RecalculateScoreCollector(item)
    BY <1>1, <2>2 DEF RecalculateExecutionQuery, RecalculateFinisher,
       RecalculateScoreCollector, dpVars, colVars, collectedVars
  <2>3. CASE \/ RecalculateReportingQuery(item) \/ RecalculateReportingJob(item)
             \/ RecalculateStatic(item)
    BY <1>1, <2>3 DEF RecalculateReportingQuery, RecalculateReportingJob,
       RecalculateStatic, ScoreCollectorConsume, dpVars, colVars, collectedVars
  <2> QED BY <2>1, <2>2, <2>3, DatapointImproves, CollectorImproves DEF Recalculate
<1>3. CASE ReceiveResult BY <1>3, ReceiveImproves
<1>4. CASE UNCHANGED nodeVars BY <1>1, <1>4 DEF nodeVars, dpVars, colVars, collectedVars
<1>5. CASE RoundEnds \/ ReceiveDone \/ ReceiveError \/ DrainEnds \/ Stop \/ Return
  BY <1>4, <1>5 DEF RoundEnds, ReceiveDone, ReceiveError, DrainEnds, Stop, Return
<1>6. CASE ExecutionManager \/ Engine
  BY <1>4, <1>6 DEF ExecutionManager, Engine, CheckStop, SelectStop, Dequeue,
     BundleDone, BundleFails, Broadcast, Callback, SendResult
<1>7. CASE UNCHANGED vars BY <1>4, <1>7 DEF vars
<1> QED BY <1>2, <1>3, <1>5, <1>6, <1>7 DEF Next, GraphLoop, Terminated

(***************************************************************************)
(* For every graph and every order of results, what a collector has of a   *)
(* datapoint is only ever replaced by something better.                    *)
(***************************************************************************)
THEOREM CollectedDataOnlyImproves == Spec => CollectedDataImproves
<1>1. Init => TypeInv /\ CopiesInv /\ ImprovesInv
  BY TypeInit, CopiesInit, ImprovesInit
<1>2. TypeInv /\ CopiesInv /\ ImprovesInv /\ [Next]_vars
        => TypeInv' /\ CopiesInv' /\ ImprovesInv'
  BY TypeStep, CopiesStep, ImprovesStep
<1>3. TypeInv /\ CopiesInv /\ ImprovesInv /\ [Next]_vars
        => [\A d \in Datapoints :
              sunkData'[d] # sunkData[d] => Rank(sunkData'[d]) > Rank(sunkData[d])]_vars
  BY ImprovesStep
<1> QED BY <1>1, <1>2, <1>3, PTL DEF Spec, CollectedDataImproves

-----------------------------------------------------------------------------
(***************************************************************************)
(* Filter scores.  The last score a collected query sent is the score of   *)
(* the results it has, unless it waits to be recalculated or has none yet. *)
(***************************************************************************)
LastScore(n) == IF scUnreported[n] # NoScore THEN scUnreported[n] ELSE sunkScores[n]

QueryScoresInv ==
    \A q \in GraphQueries \intersect CollectScores :
        \/ rqInvalidated[q]
        \/ QueryScore(rqResults[q]) = NoScore
        \/ QueryScore(rqResults[q]) = LastScore(QueryChild(q))

scoreVars == <<rqResults, rqInvalidated, scUnreported, sunkScores>>

(* With all its results a query has a score, of completion 100. *)
LEMMA ScoreOfResults ==
    ASSUME NEW r, \A d \in DOMAIN r : r[d] # None
    PROVE  QueryScore(r).sc = 100 /\ QueryScore(r) # NoScore
<1> DEFINE found == {r[d] : d \in DOMAIN r}
<1>1. None \notin found OBVIOUS
<1>2. \A type, value : MkScore(type, value, 100, 0, 0, 1).sc = 100 BY DEF MkScore
<1>3. QueryScore(r).sc = 100 BY <1>1, <1>2 DEF QueryScore
<1> QED BY <1>3 DEF NoScore, MkScore

(* Without results there is a score only of queries without entrypoints. *)
LEMMA QueryScoresInit == Init => QueryScoresInv
<1> SUFFICES ASSUME Init, NEW q \in GraphQueries, ~rqInvalidated[q]
             PROVE  QueryScore(rqResults[q]) = NoScore
  BY DEF QueryScoresInv
<1>1. Entrypoints[q] # {} BY DEF Init
<1>2. rqResults[q] = [d \in Entrypoints[q] |-> None] BY DEF Init
<1>3. None \in {rqResults[q][d] : d \in DOMAIN rqResults[q]} BY <1>1, <1>2
<1> QED BY <1>3 DEF QueryScore

(* A query whose results change is recalculated. *)
LEMMA DatapointScores ==
    ASSUME TypeInv, QueryScoresInv, NEW item \in queue, RecalculateDatapoint(item)
    PROVE  QueryScoresInv'
<1> DEFINE d == item[1][2]
<1>1. UNCHANGED <<scUnreported, sunkScores>> BY DEF RecalculateDatapoint, nodeVars, colVars
<1>2. \A q \in GraphQueries :
         rqInvalidated'[q] \/ (~rqInvalidated[q] /\ rqResults'[q] = rqResults[q])
  <2>1. CASE ~dpInvalidated[d]
    <3>1. UNCHANGED rqVars BY <2>1 DEF RecalculateDatapoint, nodeVars
    <3> QED BY <3>1 DEF rqVars
  <2>2. CASE dpInvalidated[d]
    <3>1. ReportingQueriesConsume(d, dpRes[d]) BY <2>2 DEF RecalculateDatapoint
    <3> QED BY <3>1 DEF ReportingQueriesConsume
  <2> QED BY <2>1, <2>2
<1>3. \A n : LastScore(n)' = LastScore(n) BY <1>1 DEF LastScore
<1> QED BY <1>2, <1>3 DEF QueryScoresInv

(* The score of another node does not touch a query's. *)
LEMMA OtherScores ==
    ASSUME NEW m, NEW s, NEW n \in ScoreNodes, n # m, ScoresKeyed,
           ScoreCollectorConsume(m, s) \/ UNCHANGED colVars
    PROVE  LastScore(n)' = LastScore(n)
BY DEF ScoreCollectorConsume, ScoresKeyed, LastScore, colVars

(* A query sends the score of the results it has. *)
LEMMA QuerySendsScore ==
    ASSUME TypeInv, ScoresKeyed, QueryScoresInv, NEW item \in queue,
           RecalculateReportingQuery(item)
    PROVE  QueryScoresInv'
<1> DEFINE q == item[1][2]
           s == QueryScore(rqResults[q])
<1>1. q \in GraphQueries /\ item[1] = QueryChild(q)
  BY NodeKinds DEF RecalculateReportingQuery, TypeInv, TypeOK, LoopTyped
<1>2. rqResults' = rqResults BY DEF RecalculateReportingQuery
<1>3. ASSUME NEW p \in GraphQueries, p \in CollectScores, p # q
      PROVE  rqInvalidated'[p] = rqInvalidated[p] /\ LastScore(QueryChild(p))' = LastScore(QueryChild(p))
  <2>1. rqInvalidated'[p] = rqInvalidated[p]
    BY <1>3 DEF RecalculateReportingQuery, TypeInv, TypeOK, ReportingQueriesTyped
  <2>2. QueryChild(p) \in ScoreNodes /\ QueryChild(p) # item[1]
    BY <1>1, <1>3 DEF ScoreNodes, QueryChild, GraphQueries
  <2>3. ScoreCollectorConsume(item[1], s) \/ UNCHANGED colVars
    BY DEF RecalculateReportingQuery
  <2> QED BY <2>1, <2>2, <2>3, OtherScores
<1>4. ASSUME q \in CollectScores, ~rqInvalidated'[q], s # NoScore
      PROVE  s = LastScore(QueryChild(q))'
  <2>1. CASE rqInvalidated[q]
    <3>1. ScoreCollectorConsume(item[1], s)
      BY <1>4, <2>1 DEF RecalculateReportingQuery
    <3>2. CollectedScore(item[1]) /\ item[1] \in DOMAIN scUnreported
      BY <1>1, <1>4 DEF CollectedScore, QueryChild, ScoresKeyed, ScoreNodes, GraphQueries
    <3>3. scUnreported'[item[1]] = s
      BY <3>1, <3>2 DEF ScoreCollectorConsume
    <3> QED BY <1>1, <1>4, <3>3 DEF LastScore
  <2>2. CASE ~rqInvalidated[q]
    <3>1. UNCHANGED colVars BY <2>2 DEF RecalculateReportingQuery
    <3>2. s = LastScore(QueryChild(q)) BY <1>1, <1>4, <2>2 DEF QueryScoresInv
    <3> QED BY <3>1, <3>2 DEF LastScore, colVars
  <2> QED BY <2>1, <2>2
<1> QED BY <1>1, <1>2, <1>3, <1>4 DEF QueryScoresInv

(* No other step separates a query's results from its last score. *)
LEMMA QueryScoresStep ==
    TypeInv /\ ScoresKeyed /\ QueryScoresInv /\ [Next]_vars => QueryScoresInv'
<1> SUFFICES ASSUME TypeInv, ScoresKeyed, QueryScoresInv, [Next]_vars
             PROVE  QueryScoresInv'
  OBVIOUS
<1>1. CASE UNCHANGED scoreVars
  BY <1>1 DEF scoreVars, QueryScoresInv, LastScore
<1>2. CASE ProcessQueue
  <2>1. PICK item \in queue : Recalculate(item) BY <1>2 DEF ProcessQueue
  <2>2. CASE \/ RecalculateExecutionQuery(item) \/ RecalculateFinisher(item)
             \/ RecalculateDatapointCollector(item)
    BY <1>1, <2>2 DEF RecalculateExecutionQuery, RecalculateFinisher,
       RecalculateDatapointCollector, rqVars, colVars, scoreVars
  <2>3. CASE RecalculateReportingJob(item) \/ RecalculateStatic(item)
    <3>1. item[1][1] = "rj" /\ UNCHANGED rqVars
      BY <2>3 DEF RecalculateReportingJob, RecalculateStatic
    <3>2. UNCHANGED colVars \/ \E s : ScoreCollectorConsume(item[1], s)
      BY <2>3 DEF RecalculateReportingJob, RecalculateStatic
    <3>3. ASSUME NEW q \in GraphQueries
          PROVE  LastScore(QueryChild(q))' = LastScore(QueryChild(q))
      <4>1. QueryChild(q) \in ScoreNodes /\ QueryChild(q) # item[1]
        BY <3>1 DEF ScoreNodes, QueryChild, GraphQueries
      <4> QED BY <3>2, <4>1, OtherScores
    <3> QED BY <3>1, <3>3 DEF rqVars, QueryScoresInv
  <2>4. CASE RecalculateScoreCollector(item)
    <3>1. UNCHANGED rqVars BY <2>4 DEF RecalculateScoreCollector
    <3>2. ASSUME NEW n \in ScoreNodes PROVE LastScore(n)' = LastScore(n)
      BY <2>4 DEF RecalculateScoreCollector, LastScore
    <3>3. \A q \in GraphQueries : QueryChild(q) \in ScoreNodes
      BY DEF ScoreNodes, GraphQueries
    <3> QED BY <3>1, <3>2, <3>3 DEF rqVars, QueryScoresInv
  <2> QED BY <2>1, <2>2, <2>3, <2>4, DatapointScores, QuerySendsScore DEF Recalculate
<1>3. CASE UNCHANGED <<rqVars, colVars>> BY <1>1, <1>3 DEF rqVars, colVars, scoreVars
<1>4. CASE GraphLoop /\ ~ProcessQueue
  BY <1>3, <1>4 DEF GraphLoop, RoundEnds, ReceiveResult, ReceiveDone, ReceiveError,
     DrainEnds, Stop, Return, nodeVars
<1>5. CASE ExecutionManager \/ Engine
  BY <1>3, <1>5 DEF ExecutionManager, Engine, CheckStop, SelectStop, Dequeue,
     BundleDone, BundleFails, Broadcast, Callback, SendResult, nodeVars
<1>6. CASE UNCHANGED vars BY <1>3, <1>6 DEF vars, nodeVars
<1> QED BY <1>2, <1>4, <1>5, <1>6 DEF Next, Terminated

(* After a clean return the collector has every filter's final score. *)
LEMMA FiltersDecided ==
    ASSUME LoopInv, QueryScoresInv, ~Rescore, pc = "returned", ~err,
           NEW q \in CollectScores
    PROVE  /\ sunkScores[QueryChild(q)] = CurrentScore(q)
           /\ CurrentScore(q).sc = 100
<1>1. q \in GraphQueries /\ QueryChild(q) \in ScoreNodes
  BY GraphAssumption DEF GraphQueries, ScoreNodes
<1>2. queue = {} /\ WorkQueued /\ doneClosed > 0
  BY DEF LoopInv, RoundInv, WorkInv, Leaving
<1>3. \A n : ~Queued(n) BY <1>2 DEF Queued
<1>4. Idle BY <1>2, <1>3, EmptyQueueIsIdle DEF LoopInv
<1>5. ASSUME NEW d \in Entrypoints[q]
      PROVE  rqResults[q][d] = dpRes[d] /\ dpRes[d] # None
  <2>1. d \in GraphDatapoints BY <1>1 DEF GraphDatapoints, CodepointChecksums
  <2>2. dpRes[d] # None BY <1>2, <2>1 DEF LoopInv, ReportedInv
  <2>3. ~dpInvalidated[d] BY <1>4, <2>1 DEF Idle
  <2>4. Lag(rqResults[q][d], dpRes[d], dpInvalidated[d])
    BY <1>1, <2>1 DEF LoopInv, CopiesInv, CopiesLag
  <2> QED BY <2>2, <2>3, <2>4 DEF Lag
<1>6. rqResults[q] = [d \in Entrypoints[q] |-> dpRes[d]]
  <2>1. rqResults[q] \in [Entrypoints[q] -> Optional(Results)]
    BY <1>1 DEF LoopInv, TypeInv, TypeOK, ReportingQueriesTyped
  <2> QED BY <1>5, <2>1
<1>7. QueryScore(rqResults[q]) = CurrentScore(q) BY <1>6 DEF CurrentScore
<1>8. CurrentScore(q).sc = 100 /\ CurrentScore(q) # NoScore
  BY <1>5, <1>6, <1>7, ScoreOfResults
<1>9. ~rqInvalidated[q] /\ scUnreported[QueryChild(q)] = NoScore
  BY <1>1, <1>4 DEF Idle
<1> QED BY <1>1, <1>7, <1>8, <1>9 DEF QueryScoresInv, LastScore

(***************************************************************************)
(* For every set of filter queries, ExecuteFilterQueries takes a filter    *)
(* for a match exactly when the results its statements ended with score a  *)
(* full pass, whatever its provisional scores were.                        *)
(***************************************************************************)
THEOREM FiltersDecideLast == ~Rescore => (Spec => []FilterDecision)
<1> SUFFICES ASSUME ~Rescore PROVE Spec => []FilterDecision OBVIOUS
<1>1. Init => QueryScoresInv BY QueryScoresInit
<1>2. LoopInv /\ QueryScoresInv /\ [Next]_vars => QueryScoresInv'
  BY QueryScoresStep DEF LoopInv, WorkInv
<1>3. LoopInv /\ QueryScoresInv => FilterDecision
  <2> SUFFICES ASSUME LoopInv, QueryScoresInv, pc = "returned", ~err
               PROVE  passing = {q \in CollectScores : CurrentScore(q).value = 100}
    BY DEF FilterDecision
  <2> QED BY FiltersDecided DEF passing
<1> QED BY <1>1, <1>2, <1>3, LoopInvariant, PTL DEF Spec

-----------------------------------------------------------------------------
(***************************************************************************)
(* Priorities.  An item that is not a datapoint's has the priority of its  *)
(* node, except in the first round, which starts with all nodes at the     *)
(* same priority.  In that round the only results are the preset errors,   *)
(* which nothing upgrades: a query that has sent its score will not change *)
(* it.                                                                     *)
(***************************************************************************)
HasSentScore(q) ==
    \E j \in Jobs :
        QueryChild(q) \in Children(j) /\ rjScores[j][QueryChild(q)] # NoScore

FirstRound ==
    /\ pc = "process"
    /\ \A d \in GraphDatapoints :
         dpRes[d] \in {None, "err"} /\ (dpInvalidated[d] => d \in PresetDatapoints)
    /\ \A q \in GraphQueries :
         /\ \A d \in Entrypoints[q] : rqResults[q][d] \in {None, "err"}
         /\ HasSentScore(q) =>
              ~rqInvalidated[q] /\ \A d \in Entrypoints[q] : rqResults[q][d] # None

ItemsInv ==
    /\ \A item \in queue :
         /\ item[2] \in Nat /\ item[2] >= priorityMap[item[1]]
         /\ item[1][1] = "dp" \/ item[2] = priorityMap[item[1]] \/ FirstRound
    /\ pc = "drain" => \A item \in queue : item[1][1] = "dp"

(* The first round starts with the preset errors. *)
LEMMA ItemsInit == PrioritiesOrdered /\ Init => ItemsInv
<1> SUFFICES ASSUME PrioritiesOrdered, Init PROVE ItemsInv OBVIOUS
<1>1. FirstRound
  <2>1. \A d \in GraphDatapoints :
           dpRes[d] \in {None, "err"} /\ (dpInvalidated[d] => d \in PresetDatapoints)
    BY DEF Init, Preset
  <2>2. \A q \in GraphQueries : \A d \in Entrypoints[q] : rqResults[q][d] \in {None, "err"}
    BY DEF Init
  <2>3. \A q \in GraphQueries : ~HasSentScore(q) BY DEF Init, HasSentScore
  <2> QED BY <2>1, <2>2, <2>3 DEF Init, FirstRound
<1>2. ASSUME NEW item \in queue
      PROVE  item[2] = maxPriority /\ item[1] \in Nodes
  BY TypeInit DEF Init, TypeInv, TypeOK, LoopTyped
<1>3. \A item \in queue : item[2] \in Nat /\ item[2] >= priorityMap[item[1]]
  BY <1>2, MaxPriorityPositive DEF PrioritiesOrdered
<1> QED BY <1>1, <1>3 DEF ItemsInv, Init

(* Recalculating a node does not bring results into the graph. *)
LEMMA ArrivalsEnd ==
    ASSUME TypeInv, NEW item \in queue, Recalculate(item)
    PROVE  /\ Emit(item) \/ EmitNothing(item)
           /\ dpRes' = dpRes
           /\ \A d \in GraphDatapoints : dpInvalidated'[d] => dpInvalidated[d]
<1>1. Emit(item) \/ EmitNothing(item)
  BY DEF Recalculate, RecalculateDatapoint, RecalculateExecutionQuery,
     RecalculateReportingQuery, RecalculateReportingJob, RecalculateStatic,
     RecalculateFinisher, RecalculateDatapointCollector, RecalculateScoreCollector
<1>2. CASE RecalculateDatapoint(item)
  <2> DEFINE d == item[1][2]
  <2>1. CASE ~dpInvalidated[d]
    BY <1>1, <1>2, <2>1 DEF RecalculateDatapoint, nodeVars, dpVars
  <2>2. CASE dpInvalidated[d]
    BY <1>1, <1>2, <2>2 DEF RecalculateDatapoint, TypeInv, TypeOK, DatapointsTyped
  <2> QED BY <2>1, <2>2
<1>3. CASE UNCHANGED dpVars BY <1>1, <1>3 DEF dpVars
<1> QED BY <1>2, <1>3 DEF Recalculate, RecalculateExecutionQuery,
           RecalculateReportingQuery, RecalculateReportingJob, RecalculateStatic,
           RecalculateFinisher, RecalculateDatapointCollector, RecalculateScoreCollector

(* A score that is sent up only replaces the entry of its sender. *)
LEMMA ScoreOfSender ==
    ASSUME NEW m, NEW s, NEW invalidated, JobsConsumeScore(m, s, invalidated),
           NEW j \in Jobs, NEW n, n # m \/ n \notin Children(j)
    PROVE  rjScores'[j][n] = rjScores[j][n]
BY DEF JobsConsumeScore, Receivers

(* The first round stays one until its queue is empty. *)
LEMMA FirstRoundKept ==
    ASSUME TypeInv, FirstRound, NEW item \in queue, Recalculate(item), pc' = pc
    PROVE  FirstRound'
<1>1. pc' = "process" BY DEF FirstRound
<1>2. \A d \in GraphDatapoints :
         dpRes'[d] \in {None, "err"} /\ (dpInvalidated'[d] => d \in PresetDatapoints)
  BY ArrivalsEnd DEF FirstRound
<1>3. ASSUME NEW q \in GraphQueries
      PROVE  /\ \A d \in Entrypoints[q] : rqResults'[q][d] \in {None, "err"}
             /\ HasSentScore(q)' => /\ ~rqInvalidated'[q]
                                    /\ \A d \in Entrypoints[q] : rqResults'[q][d] # None
  <2> DEFINE n == QueryChild(q)
  <2>1. CASE RecalculateDatapoint(item)
    <3> DEFINE d == item[1][2]
    <3>1. d \in GraphDatapoints
      BY <2>1, NodeKinds DEF RecalculateDatapoint, TypeInv, TypeOK, LoopTyped
    <3>2. CASE ~dpInvalidated[d]
      <4>1. UNCHANGED <<rqVars, rjScores>>
        BY <2>1, <3>2 DEF RecalculateDatapoint, nodeVars, rjVars
      <4> QED BY <4>1 DEF FirstRound, HasSentScore, rqVars
    <3>3. CASE dpInvalidated[d]
      <4>1. ReportingQueriesConsume(d, dpRes[d]) /\ rjScores' = rjScores
        BY <2>1, <3>3 DEF RecalculateDatapoint, JobsConsumeData
      <4>2. dpRes[d] \in {None, "err"} /\ \A e \in Entrypoints[q] : rqResults[q][e] \in {None, "err"}
        BY <3>1 DEF FirstRound
      <4>3. ASSUME NEW prev \in {None, "err"}, NEW res \in {None, "err"}
            PROVE  /\ ConsumeEntrypoint(prev, res) \in {None, "err"}
                   /\ prev # None => ConsumeEntrypoint(prev, res) = prev
        BY <4>3 DEF ConsumeEntrypoint, resultUpgrades, isPlaceholderResult, isNilResult,
           None
      <4>4. rqResults[q] \in [Entrypoints[q] -> Optional(Results)]
        BY DEF TypeInv, TypeOK, ReportingQueriesTyped
      <4>5. \/ d \notin Entrypoints[q] /\ rqResults'[q] = rqResults[q]
            \/ /\ d \in Entrypoints[q]
               /\ rqResults'[q] = [rqResults[q] EXCEPT ![d] =
                                     ConsumeEntrypoint(rqResults[q][d], dpRes[d])]
        BY <4>1 DEF ReportingQueriesConsume
      <4>6. rqInvalidated'[q] = (rqInvalidated[q] \/ rqResults'[q] # rqResults[q])
        BY <4>1 DEF ReportingQueriesConsume
      <4>7. \A e \in Entrypoints[q] : rqResults'[q][e] \in {None, "err"}
        BY <4>2, <4>3, <4>4, <4>5
      <4>8. ASSUME HasSentScore(q)' PROVE rqResults'[q] = rqResults[q]
        <5>1. HasSentScore(q) BY <4>1, <4>8 DEF HasSentScore
        <5>2. \A e \in Entrypoints[q] : rqResults[q][e] # None BY <5>1 DEF FirstRound
        <5>3. CASE d \in Entrypoints[q]
          <6>1. ConsumeEntrypoint(rqResults[q][d], dpRes[d]) = rqResults[q][d]
            BY <4>2, <4>3, <5>2, <5>3
          <6> QED BY <4>4, <4>5, <5>3, <6>1
        <5> QED BY <4>5, <5>3
      <4>9. HasSentScore(q)' => HasSentScore(q) BY <4>1 DEF HasSentScore
      <4> QED BY <4>6, <4>7, <4>8, <4>9 DEF FirstRound
    <3> QED BY <3>2, <3>3
  <2>2. CASE RecalculateReportingQuery(item)
    <3> DEFINE p == item[1][2]
               s == QueryScore(rqResults[p])
    <3>1. p \in GraphQueries /\ item[1] = QueryChild(p)
      BY <2>2, NodeKinds DEF RecalculateReportingQuery, TypeInv, TypeOK, LoopTyped
    <3>2. rqResults' = rqResults BY <2>2 DEF RecalculateReportingQuery
    <3>3. rqInvalidated'[q] => rqInvalidated[q] /\ q # p
      BY <2>2, <3>1 DEF RecalculateReportingQuery, TypeInv, TypeOK, ReportingQueriesTyped
    <3>4. \/ rjScores' = rjScores
          \/ JobsConsumeScore(item[1], s, rjInvalidated) /\ s # NoScore
      BY <2>2 DEF RecalculateReportingQuery
    <3>5. CASE q # p
      <4>1. QueryChild(q) # item[1] BY <3>1, <3>5 DEF QueryChild
      <4>2. \A j \in Jobs : rjScores'[j][n] = rjScores[j][n]
        BY <3>4, <4>1, ScoreOfSender
      <4>3. HasSentScore(q)' => HasSentScore(q) BY <4>2 DEF HasSentScore
      <4> QED BY <3>2, <3>3, <4>3 DEF FirstRound
    <3>6. CASE q = p
      <4>1. CASE rjScores' = rjScores
        <5>1. HasSentScore(q)' => HasSentScore(q) BY <4>1 DEF HasSentScore
        <5> QED BY <3>2, <3>3, <5>1 DEF FirstRound
      <4>2. CASE s # NoScore
        <5>1. None \notin {rqResults[q][d] : d \in DOMAIN rqResults[q]}
          BY <3>6, <4>2 DEF QueryScore
        <5>2. DOMAIN rqResults[q] = Entrypoints[q]
          BY DEF TypeInv, TypeOK, ReportingQueriesTyped
        <5>3. \A d \in Entrypoints[q] : rqResults[q][d] # None BY <5>1, <5>2
        <5> QED BY <3>2, <3>3, <3>6, <5>3 DEF FirstRound
      <4> QED BY <3>4, <4>1, <4>2
    <3> QED BY <3>5, <3>6
  <2>3. CASE RecalculateReportingJob(item) \/ RecalculateStatic(item)
    <3>1. rqVars' = rqVars BY <2>3 DEF RecalculateReportingJob, RecalculateStatic
    <3>2. item[1] # n
      BY <2>3 DEF RecalculateReportingJob, RecalculateStatic, QueryChild
    <3>3. \/ rjScores' = rjScores
          \/ \E s, invalidated : JobsConsumeScore(item[1], s, invalidated)
      BY <2>3 DEF RecalculateReportingJob, RecalculateStatic
    <3>4. \A j \in Jobs : rjScores'[j][n] = rjScores[j][n]
      BY <3>2, <3>3, ScoreOfSender
    <3>5. HasSentScore(q)' => HasSentScore(q) BY <3>4 DEF HasSentScore
    <3> QED BY <3>1, <3>5 DEF FirstRound, rqVars
  <2>4. CASE \/ RecalculateExecutionQuery(item) \/ RecalculateFinisher(item)
             \/ RecalculateDatapointCollector(item) \/ RecalculateScoreCollector(item)
    <3>1. UNCHANGED <<rqVars, rjVars>>
      BY <2>4 DEF RecalculateExecutionQuery, RecalculateFinisher,
         RecalculateDatapointCollector, RecalculateScoreCollector
    <3> QED BY <3>1 DEF FirstRound, HasSentScore, rqVars, rjVars
  <2> QED BY <2>1, <2>2, <2>3, <2>4 DEF Recalculate
<1> QED BY <1>1, <1>2, <1>3 DEF FirstRound

(* Later rounds start with datapoints only. *)
LEMMA ItemsStep ==
    PrioritiesOrdered /\ TypeInv /\ RoundInv /\ ItemsInv /\ [Next]_vars => ItemsInv'
<1> SUFFICES ASSUME PrioritiesOrdered, TypeInv, RoundInv, ItemsInv, [Next]_vars
             PROVE  ItemsInv'
  OBVIOUS
<1>1. CASE ProcessQueue
  <2>1. PICK item \in queue : Recalculate(item) BY <1>1 DEF ProcessQueue
  <2>2. Emit(item) \/ EmitNothing(item) BY <2>1, ArrivalsEnd
  <2>3. item[1] \in Nodes BY DEF TypeInv, TypeOK, LoopTyped
  <2>4. ASSUME NEW i \in queue'
        PROVE  \/ i \in queue
               \/ i[1] \in Nodes /\ i[2] = priorityMap[i[1]]
    BY <2>2, <2>3, EdgesStayInGraph DEF Emit, EmitNothing
  <2>5. pc = "process" /\ pc' = pc BY <1>1 DEF ProcessQueue
  <2>6. FirstRound => FirstRound' BY <2>1, <2>5, FirstRoundKept
  <2> QED BY <2>4, <2>5, <2>6 DEF ItemsInv, PrioritiesOrdered
<1>2. CASE ReceiveResult
  <2>1. PICK d \in GraphDatapoints :
             queue' = queue \union {<<DatapointNode(d), maxPriority>>}
    <3>1. resultChan \in Seq(ResultMessages) /\ resultChan # <<>>
      BY <1>2 DEF ReceiveResult, ChannelsTyped, TypeInv, TypeOK
    <3>2. Head(resultChan) \in ResultMessages BY <3>1
    <3> QED BY <1>2, <3>2 DEF ReceiveResult, ResultMessages
  <2>2. DatapointNode(d) \in Nodes /\ DatapointNode(d)[1] = "dp"
    BY DEF Nodes, DatapointNode
  <2>3. maxPriority >= priorityMap[DatapointNode(d)]
    BY <2>2, MaxPriorityPositive DEF PrioritiesOrdered
  <2>4. \A item \in queue : item[1][1] = "dp"
    BY <1>2 DEF ReceiveResult, ItemsInv, RoundInv
  <2> QED BY <2>1, <2>2, <2>3, <2>4, MaxPriorityPositive DEF ItemsInv
<1>3. CASE queue = {} /\ queue' = queue BY <1>3 DEF ItemsInv
<1>4. CASE DrainEnds
  <2>1. queue' = queue /\ \A item \in queue : item[1][1] = "dp"
    BY <1>4 DEF DrainEnds, ItemsInv
  <2> QED BY <2>1 DEF ItemsInv
<1>5. CASE UNCHANGED <<nodeVars, loopVars>>
  BY <1>5 DEF ItemsInv, FirstRound, HasSentScore, nodeVars, dpVars, rqVars, rjVars, loopVars
<1>6. CASE RoundEnds \/ ReceiveDone \/ ReceiveError
  BY <1>3, <1>6 DEF RoundEnds, ReceiveDone, ReceiveError, RoundInv
<1>7. CASE Stop \/ Return
  <2>1. pc # "process" /\ pc' # "drain" /\ queue' = queue BY <1>7 DEF Stop, Return
  <2> QED BY <2>1 DEF ItemsInv, FirstRound
<1>8. CASE ExecutionManager \/ Engine
  BY <1>5, <1>8 DEF ExecutionManager, Engine, CheckStop, SelectStop, Dequeue,
     BundleDone, BundleFails, Broadcast, Callback, SendResult
<1>9. CASE UNCHANGED vars BY <1>5, <1>9 DEF vars
<1> QED BY <1>1, <1>2, <1>4, <1>6, <1>7, <1>8, <1>9 DEF Next, GraphLoop, Terminated

(* At a node's turn, no node before it is queued. *)
LEMMA UpstreamDone ==
    ASSUME TypeInv, PrioritiesOrdered, ItemsInv, NEW item \in queue, Top(item),
           item[1][1] # "dp", NEW m \in Nodes, item[1] \in Edges(m), Queued(m)
    PROVE  FirstRound
<1>1. PICK other \in queue : other[1] = m BY DEF Queued
<1>2. other[2] <= item[2] BY DEF Top
<1>3. other[2] >= priorityMap[m] /\ other[2] \in Nat /\ item[2] \in Nat
  BY <1>1 DEF ItemsInv
<1>4. /\ priorityMap[item[1]] < priorityMap[m]
      /\ priorityMap[m] \in Nat /\ priorityMap[item[1]] \in Nat
  BY MaxPriorityPositive DEF PrioritiesOrdered, TypeInv, TypeOK, LoopTyped
<1>5. item[2] # priorityMap[item[1]] BY <1>2, <1>3, <1>4
<1> QED BY <1>5 DEF ItemsInv

(* At a node's turn, the datapoints and queries it depends on have emitted. *)
LEMMA InputsDone ==
    ASSUME TypeInv, WorkInv, PrioritiesOrdered, ItemsInv, NEW item \in queue, Top(item),
           item[1][1] # "dp", ~FirstRound
    PROVE  /\ \A d \in GraphDatapoints : item[1] \in DatapointEdges(d) => ~dpInvalidated[d]
           /\ \A q \in GraphQueries : item[1] \in Edges(QueryChild(q)) => ~rqInvalidated[q]
<1>1. ASSUME NEW d \in GraphDatapoints, item[1] \in DatapointEdges(d), dpInvalidated[d]
      PROVE  FALSE
  <2>1. ~Rescore BY DEF GraphDatapoints, GraphQueries
  <2>2. Queued(DatapointNode(d)) BY <1>1, <2>1 DEF WorkInv, WorkQueued, NodeWorkQueued
  <2>3. DatapointNode(d) \in Nodes /\ item[1] \in Edges(DatapointNode(d))
    BY <1>1 DEF Nodes, Edges, DatapointNode
  <2> QED BY <1>1, <2>2, <2>3, UpstreamDone
<1>2. ASSUME NEW q \in GraphQueries, item[1] \in Edges(QueryChild(q)), rqInvalidated[q]
      PROVE  FALSE
  <2>1. ~Rescore BY DEF GraphQueries
  <2>2. Queued(QueryChild(q)) BY <1>2, <2>1 DEF WorkInv, WorkQueued, NodeWorkQueued
  <2>3. QueryChild(q) \in Nodes BY DEF Nodes
  <2> QED BY <1>2, <2>2, <2>3, UpstreamDone
<1> QED BY <1>1, <1>2

-----------------------------------------------------------------------------
(***************************************************************************)
(* One emission per round.  A node that has emitted has nothing to emit    *)
(* for the rest of the round, because nothing its queue of inputs depends  *)
(* on can still change: all datapoints it listens to have emitted before.  *)
(***************************************************************************)
InputsSettled(S) == \A d \in S \intersect GraphDatapoints : ~dpInvalidated[d]

Settled(n) ==
    /\ n[1] = "dp" => ~dpInvalidated[n[2]]
    /\ n[1] = "eq" => ~eqInvalidated[n[2]] /\ InputsSettled(RequiredProps[n[2]])
    /\ n[1] = "rq" => ~rqInvalidated[n[2]] /\ InputsSettled(Entrypoints[n[2]])
    /\ n[1] = "rj" /\ n[2] \notin StaticJobs =>
         rjCompleted[n[2]] /\ InputsSettled(JobData[n[2]])
    /\ n[1] = "rj" /\ n[2] \in StaticJobs => n[2] \in staticSent

EmitInv ==
    /\ emitted \in [Nodes -> {0, 1}]
    /\ pc # "process" => \A n \in Nodes : emitted[n] = 0
    /\ \A n \in Nodes : emitted[n] = 1 => Settled(n)

(* A node that has settled stays so until the round ends. *)
LEMMA SettledKept ==
    ASSUME TypeInv, NEW item \in queue, Recalculate(item), NEW n \in Nodes, Settled(n)
    PROVE  Settled(n)'
<1>1. /\ n[1] = "dp" => n[2] \in GraphDatapoints
      /\ n[1] = "eq" => n[2] \in RunnableQueries
      /\ n[1] = "rq" => n[2] \in GraphQueries
      /\ n[1] = "rj" => n[2] \in Jobs
  BY NodeKinds
<1>2. \A d \in GraphDatapoints : dpInvalidated'[d] => dpInvalidated[d]
  BY ArrivalsEnd
<1>3. \A S : InputsSettled(S) => InputsSettled(S)' BY <1>2 DEF InputsSettled
<1>4. CASE RecalculateDatapoint(item)
  <2> DEFINE d == item[1][2]
  <2>1. d \in GraphDatapoints
    BY <1>4, NodeKinds DEF RecalculateDatapoint, TypeInv, TypeOK, LoopTyped
  <2>2. CASE ~dpInvalidated[d]
    <3>1. UNCHANGED nodeVars BY <1>4, <2>2 DEF RecalculateDatapoint
    <3> QED BY <1>3, <3>1 DEF Settled, nodeVars, dpVars, eqVars, rqVars, rjVars
  <2>3. CASE dpInvalidated[d]
    <3>1. /\ ReportingQueriesConsume(d, dpRes[d])
          /\ ExecutionQueriesConsume(d, dpRes[d])
          /\ JobsConsumeData(d, dpRes[d])
          /\ UNCHANGED staticSent
      BY <1>4, <2>3 DEF RecalculateDatapoint
    <3>2. \A S : InputsSettled(S) => d \notin S BY <2>1, <2>3 DEF InputsSettled
    <3>3. n[1] = "eq" => Settled(n)'
      BY <1>1, <1>3, <3>1, <3>2 DEF Settled, ExecutionQueriesConsume
    <3>4. n[1] = "rq" => Settled(n)'
      BY <1>1, <1>3, <3>1, <3>2 DEF Settled, ReportingQueriesConsume
    <3>5. n[1] = "rj" => Settled(n)'
      BY <1>1, <1>3, <3>1, <3>2 DEF Settled, JobsConsumeData
    <3> QED BY <1>1, <1>2, <3>3, <3>4, <3>5 DEF Settled
  <2> QED BY <2>2, <2>3
<1>5. CASE RecalculateExecutionQuery(item)
  <2>1. \A q \in RunnableQueries : eqInvalidated'[q] => eqInvalidated[q]
    BY <1>5 DEF RecalculateExecutionQuery, eqVars, TypeInv, TypeOK, ExecutionQueriesTyped
  <2>2. UNCHANGED <<dpVars, rqVars, rjVars, staticSent>>
    BY <1>5 DEF RecalculateExecutionQuery
  <2> QED BY <1>1, <1>3, <2>1, <2>2 DEF Settled, dpVars, rqVars, rjVars
<1>6. CASE RecalculateReportingQuery(item)
  <2>1. \A q \in GraphQueries : rqInvalidated'[q] => rqInvalidated[q]
    BY <1>6 DEF RecalculateReportingQuery, TypeInv, TypeOK, ReportingQueriesTyped
  <2>2. UNCHANGED <<dpVars, eqVars, rjCompleted, staticSent>>
    BY <1>6 DEF RecalculateReportingQuery
  <2> QED BY <1>1, <1>3, <2>1, <2>2 DEF Settled, dpVars, eqVars
<1>7. CASE RecalculateReportingJob(item)
  <2>1. \A j \in Jobs : rjCompleted[j] => rjCompleted'[j]
    BY <1>7 DEF RecalculateReportingJob, TypeInv, TypeOK, JobsTyped
  <2>2. UNCHANGED <<dpVars, eqVars, rqVars, staticSent>>
    BY <1>7 DEF RecalculateReportingJob
  <2> QED BY <1>1, <1>3, <2>1, <2>2 DEF Settled, dpVars, eqVars, rqVars
<1>8. CASE RecalculateStatic(item)
  <2>1. /\ UNCHANGED <<dpVars, eqVars, rqVars, rjCompleted>>
        /\ staticSent \subseteq staticSent'
    BY <1>8 DEF RecalculateStatic
  <2> QED BY <1>1, <1>3, <2>1 DEF Settled, dpVars, eqVars, rqVars
<1>9. CASE \/ RecalculateFinisher(item)
           \/ RecalculateDatapointCollector(item)
           \/ RecalculateScoreCollector(item)
  <2>1. UNCHANGED <<dpVars, eqVars, rqVars, rjVars, staticSent>>
    BY <1>9 DEF RecalculateFinisher, RecalculateDatapointCollector,
       RecalculateScoreCollector
  <2> QED BY <1>3, <2>1 DEF Settled, dpVars, eqVars, rqVars, rjVars
<1> QED BY <1>4, <1>5, <1>6, <1>7, <1>8, <1>9 DEF Recalculate

(* A node that emits had not emitted in this round, and has settled. *)
LEMMA EmissionSettles ==
    ASSUME TypeInv, WorkInv, PrioritiesOrdered, PresetDatapoints = {}, ItemsInv,
           NEW item \in queue, Top(item), Recalculate(item)
    PROVE  EmitNothing(item) \/ (Emit(item) /\ ~Settled(item[1]) /\ Settled(item[1])')
<1> DEFINE x == item[1][2]
<1>1. item[1] \in Nodes BY DEF TypeInv, TypeOK, LoopTyped
<1>2. /\ item[1][1] = "dp" => x \in GraphDatapoints
      /\ item[1][1] = "eq" => x \in RunnableQueries /\ item[1] = ExecutionQuery(x)
      /\ item[1][1] = "rq" => x \in GraphQueries /\ item[1] = QueryChild(x)
      /\ item[1][1] = "rj" => x \in Jobs /\ item[1] = JobChild(x)
  BY <1>1, NodeKinds
<1>3. item[1][1] # "dp" =>
        \A d \in GraphDatapoints : item[1] \in DatapointEdges(d) => ~dpInvalidated[d]
  BY InputsDone DEF FirstRound
<1>4. \A d \in GraphDatapoints : dpInvalidated'[d] => dpInvalidated[d]
  BY ArrivalsEnd
<1>5. CASE RecalculateDatapoint(item)
  <2>1. CASE ~dpInvalidated[x] BY <1>5, <2>1 DEF RecalculateDatapoint
  <2>2. CASE dpInvalidated[x]
    <3>1. Emit(item) /\ dpInvalidated' = [dpInvalidated EXCEPT ![x] = FALSE]
      BY <1>5, <2>2 DEF RecalculateDatapoint
    <3>2. ~dpInvalidated'[x] BY <1>2, <1>5, <3>1 DEF RecalculateDatapoint, TypeInv,
          TypeOK, DatapointsTyped
    <3> QED BY <1>5, <2>2, <3>1, <3>2 DEF Settled, RecalculateDatapoint
  <2> QED BY <2>1, <2>2
<1>6. CASE RecalculateExecutionQuery(item)
  <2>0. item[1][1] = "eq" BY <1>6 DEF RecalculateExecutionQuery
  <2>1. CASE ~eqInvalidated[x] BY <1>6, <2>1 DEF RecalculateExecutionQuery
  <2>2. CASE eqInvalidated[x]
    <3>1. Emit(item) /\ ~eqInvalidated'[x]
      BY <1>2, <1>6, <2>0, <2>2 DEF RecalculateExecutionQuery, TypeInv, TypeOK,
         ExecutionQueriesTyped
    <3>2. \A d \in RequiredProps[x] : item[1] \in DatapointEdges(d)
      BY <1>2, <2>0 DEF DatapointEdges
    <3>3. InputsSettled(RequiredProps[x])'
      BY <1>3, <1>4, <2>0, <3>2 DEF InputsSettled
    <3> QED BY <2>0, <2>2, <3>1, <3>3 DEF Settled
  <2> QED BY <2>1, <2>2
<1>7. CASE RecalculateReportingQuery(item)
  <2>0. item[1][1] = "rq" BY <1>7 DEF RecalculateReportingQuery
  <2>1. CASE ~rqInvalidated[x] BY <1>7, <2>1 DEF RecalculateReportingQuery
  <2>2. CASE rqInvalidated[x]
    <3>1. ~rqInvalidated'[x] /\ (Emit(item) \/ EmitNothing(item))
      BY <1>2, <1>7, <2>0, <2>2 DEF RecalculateReportingQuery, TypeInv, TypeOK,
         ReportingQueriesTyped
    <3>2. \A d \in Entrypoints[x] : item[1] \in DatapointEdges(d)
      BY <1>2, <2>0 DEF DatapointEdges
    <3>3. InputsSettled(Entrypoints[x])'
      BY <1>3, <1>4, <2>0, <3>2 DEF InputsSettled
    <3> QED BY <2>0, <2>2, <3>1, <3>3 DEF Settled
  <2> QED BY <2>1, <2>2
<1>8. CASE RecalculateReportingJob(item)
  <2>0. item[1][1] = "rj" /\ x \notin StaticJobs BY <1>8 DEF RecalculateReportingJob
  <2>1. EmitNothing(item) \/ (Emit(item) /\ ~rjCompleted[x] /\ rjCompleted'[x])
    BY <1>2, <1>8, <2>0 DEF RecalculateReportingJob, TypeInv, TypeOK, JobsTyped
  <2>2. \A d \in JobData[x] : item[1] \in DatapointEdges(d)
    BY <1>2, <2>0 DEF DatapointEdges
  <2>3. InputsSettled(JobData[x])' BY <1>3, <1>4, <2>0, <2>2 DEF InputsSettled
  <2> QED BY <2>0, <2>1, <2>3 DEF Settled
<1>9. CASE RecalculateStatic(item)
  <2>1. item[1][1] = "rj" /\ x \in StaticJobs BY <1>9 DEF RecalculateStatic
  <2>2. EmitNothing(item) \/ (Emit(item) /\ x \notin staticSent /\ x \in staticSent')
    BY <1>9 DEF RecalculateStatic
  <2> QED BY <2>1, <2>2 DEF Settled
<1>10. CASE \/ RecalculateFinisher(item)
            \/ RecalculateDatapointCollector(item)
            \/ RecalculateScoreCollector(item)
  BY <1>10 DEF RecalculateFinisher, RecalculateDatapointCollector,
     RecalculateScoreCollector
<1> QED BY <1>5, <1>6, <1>7, <1>8, <1>9, <1>10 DEF Recalculate

(* The count of emissions is reset with the queue empty. *)
LEMMA EmitStep ==
    PrioritiesOrdered /\ PresetDatapoints = {} /\ TypeInv /\ WorkInv /\ ItemsInv
      /\ EmitInv /\ [Next]_vars => EmitInv'
<1> SUFFICES ASSUME PrioritiesOrdered, PresetDatapoints = {}, TypeInv, WorkInv,
                    ItemsInv, EmitInv, [Next]_vars
             PROVE  EmitInv'
  OBVIOUS
<1>1. CASE ProcessQueue
  <2>1. PICK item \in queue : Top(item) /\ Recalculate(item) BY <1>1 DEF ProcessQueue
  <2>2. item[1] \in Nodes BY DEF TypeInv, TypeOK, LoopTyped
  <2>3. pc' = "process" BY <1>1 DEF ProcessQueue
  <2>4. \A n \in Nodes : Settled(n) => Settled(n)' BY <2>1, SettledKept
  <2>5. CASE EmitNothing(item)
    BY <2>3, <2>4, <2>5 DEF EmitInv, EmitNothing
  <2>6. CASE Emit(item) /\ ~Settled(item[1]) /\ Settled(item[1])'
    <3>1. emitted \in [Nodes -> {0, 1}] /\ emitted[item[1]] # 1
      BY <2>2, <2>6 DEF EmitInv
    <3>2. emitted[item[1]] = 0 BY <2>2, <3>1
    <3>3. emitted' = [emitted EXCEPT ![item[1]] = 1] BY <2>6, <3>2 DEF Emit
    <3>4. emitted' \in [Nodes -> {0, 1}] BY <3>1, <3>3
    <3>5. \A n \in Nodes : emitted'[n] = 1 => Settled(n)'
      BY <2>4, <2>6, <3>1, <3>3 DEF EmitInv
    <3> QED BY <2>3, <3>4, <3>5 DEF EmitInv
  <2> QED BY <2>1, <2>5, <2>6, EmissionSettles
<1>2. CASE pc # "process" /\ emitted' = emitted
  <2>1. \A n \in Nodes : emitted'[n] = 0 BY <1>2 DEF EmitInv
  <2> QED BY <1>2, <2>1 DEF EmitInv
<1>3. CASE RoundEnds
  <2>1. emitted' = [n \in Nodes |-> 0] BY <1>3 DEF RoundEnds
  <2> QED BY <2>1 DEF EmitInv
<1>4. CASE UNCHANGED <<nodeVars, loopVars>>
  BY <1>4 DEF EmitInv, Settled, InputsSettled, nodeVars, dpVars, eqVars, rqVars, rjVars,
     loopVars
<1>5. CASE ReceiveResult \/ ReceiveDone \/ ReceiveError \/ DrainEnds \/ Stop \/ Return
  BY <1>2, <1>5 DEF ReceiveResult, ReceiveDone, ReceiveError, DrainEnds, Stop, Return
<1>6. CASE ExecutionManager \/ Engine
  BY <1>4, <1>6 DEF ExecutionManager, Engine, CheckStop, SelectStop, Dequeue,
     BundleDone, BundleFails, Broadcast, Callback, SendResult
<1>7. CASE UNCHANGED vars BY <1>4, <1>7 DEF vars
<1> QED BY <1>1, <1>3, <1>5, <1>6, <1>7 DEF Next, GraphLoop, Terminated

(***************************************************************************)
(* For every graph without cycles whose datapoints are all reported by     *)
(* some query, each node emits at most once in a round, however many       *)
(* results the round starts with.                                          *)
(***************************************************************************)
THEOREM EmitsOnce ==
    Acyclic /\ PresetDatapoints = {} => (Spec => []EmitsOncePerRound)
<1> SUFFICES ASSUME Acyclic, PresetDatapoints = {}
             PROVE  Spec => []EmitsOncePerRound
  OBVIOUS
<1>1. Init => ItemsInv BY PrioritiesFollowEdges, ItemsInit
<1>2. Init => EmitInv BY DEF Init, EmitInv
<1>3. LoopInv /\ ItemsInv /\ [Next]_vars => ItemsInv'
  BY PrioritiesFollowEdges, ItemsStep DEF LoopInv
<1>4. LoopInv /\ ItemsInv /\ EmitInv /\ [Next]_vars => EmitInv'
  BY PrioritiesFollowEdges, EmitStep DEF LoopInv
<1>5. EmitInv => EmitsOncePerRound
  <2> SUFFICES ASSUME EmitInv, NEW n \in Nodes PROVE emitted[n] <= 1
    BY DEF EmitsOncePerRound
  <2>1. emitted[n] \in {0, 1} BY DEF EmitInv
  <2> QED BY <2>1
<1> QED BY <1>1, <1>2, <1>3, <1>4, <1>5, LoopInvariant, PTL DEF Spec

-----------------------------------------------------------------------------
(***************************************************************************)
(* The jobs of queries.  A job that reports one query, and collects what   *)
(* the query is scored by, holds the same results as the query and, when   *)
(* it is completed, has sent up the score of these results.                *)
(***************************************************************************)
QueryJob(j, q) ==
    /\ JobQuery[j] = {q} /\ ChildJobs[j] = {} /\ forwardScore(j)
    /\ Entrypoints[q] \subseteq JobData[j]

QueryScores == {MkScore(type, value, 100, 0, 0, 1) :
                  type \in {"unscored", "error", "skip", "result"},
                  value \in {0, CarriedScore, 100}}

(* The scores reporting queries send. *)
LEMMA QueryScoreIs == \A r : QueryScore(r) \in QueryScores \union {NoScore}
<1> TAKE r
<1>1. ASSUME NEW type \in {"unscored", "error", "skip", "result"},
             NEW value \in {0, CarriedScore, 100}
      PROVE  MkScore(type, value, 100, 0, 0, 1) \in QueryScores
  BY DEF QueryScores
<1> DEFINE found == {r[d] : d \in DOMAIN r}
           valid == {"pass", "fail", "score"} \intersect found
<1>2. CASE None \in found BY <1>2 DEF QueryScore
<1>3. CASE None \notin found /\ "gone" \in found
  BY <1>1, <1>3 DEF QueryScore
<1>4. CASE None \notin found /\ "gone" \notin found /\ found \intersect Erroneous # {}
  BY <1>1, <1>4 DEF QueryScore
<1>5. CASE /\ None \notin found /\ found \intersect Erroneous = {} /\ valid = {}
  <2>1. "gone" \notin found BY <1>5 DEF Erroneous
  <2>2. QueryScore(r) = MkScore("skip", 0, 100, 0, 0, 1)
    BY <1>5, <2>1 DEF QueryScore
  <2> QED BY <1>1, <2>2
<1>6. CASE /\ None \notin found /\ found \intersect Erroneous = {} /\ valid # {}
  <2>1. "gone" \notin found BY <1>6 DEF Erroneous
  <2>2. QueryScore(r) = MkScore("result", IF "score" \in found THEN CarriedScore
                                ELSE IF "fail" \in found THEN 0 ELSE 100, 100, 0, 0, 1)
    BY <1>6, <2>1 DEF QueryScore
  <2> QED BY <1>1, <2>2
<1> QED BY <1>2, <1>3, <1>4, <1>5, <1>6

(* Only a full share is a hundred percent. *)
LEMMA FullShare ==
    \A a, b \in Nat :
        b > 0 /\ a <= b => /\ (100 * a) \div b \in 0 .. 100
                           /\ (100 * a) \div b = 100 <=> a = b
<1> TAKE a \in Nat, b \in Nat
<1> HAVE b > 0 /\ a <= b
<1> DEFINE x == (100 * a) \div b
<1>1. x \in Int /\ x * b <= 100 * a /\ 100 * a < (x + 1) * b
  BY Z3
<1> QED OBVIOUS

(* A job has a finite number of datapoints, of which some have a result. *)
LEMMA JobShare ==
    ASSUME TypeInv, NEW j \in Jobs
    PROVE  /\ Cardinality(JobData[j]) \in Nat /\ Cardinality(Finished(j)) \in Nat
           /\ JobData[j] # {} => Cardinality(JobData[j]) > 0
           /\ Cardinality(Finished(j)) <= Cardinality(JobData[j])
           /\ Cardinality(Finished(j)) = Cardinality(JobData[j])
                => \A d \in JobData[j] : rjData[j][d] # None
           /\ (\A d \in JobData[j] : rjData[j][d] # None) => Finished(j) = JobData[j]
<1>1. IsFiniteSet(JobData[j]) BY GraphAssumption, FS_Subset
<1>2. Finished(j) \subseteq JobData[j] BY DEF Finished
<1>3. /\ Cardinality(JobData[j]) \in Nat
      /\ JobData[j] # {} => Cardinality(JobData[j]) # 0
  BY <1>1, FS_CardinalityType, FS_EmptySet
<1>4. /\ IsFiniteSet(Finished(j)) /\ Cardinality(Finished(j)) <= Cardinality(JobData[j])
      /\ Cardinality(Finished(j)) = Cardinality(JobData[j]) => Finished(j) = JobData[j]
  BY <1>1, <1>2, FS_Subset
<1>5. Cardinality(Finished(j)) \in Nat BY <1>4, FS_CardinalityType
<1> QED BY <1>3, <1>4, <1>5 DEF Finished

(* The score a query's job forwards. *)
LEMMA QueryJobScore ==
    ASSUME NEW j \in Jobs, NEW q \in GraphQueries, QueryJob(j, q), Entrypoints[q] # {},
           rjScores[j][QueryChild(q)] \in QueryScores \union {NoScore}
    PROVE  LET s == rjScores[j][QueryChild(q)]
               dc == (100 * Cardinality(Finished(j))) \div Cardinality(JobData[j])
           IN  /\ JobScore(j).type = (IF s = NoScore THEN "result" ELSE s.type)
               /\ JobScore(j).value = s.value
               /\ JobScore(j).sc = s.sc
               /\ Cardinality(JobData[j]) # 0 => JobScore(j).dc = dc
<1> DEFINE n == QueryChild(q)
           s == rjScores[j][n]
           total == Cardinality(JobData[j])
           dc == (100 * Cardinality(Finished(j))) \div total
<1>1. Children(j) = {n} BY DEF QueryJob, Children, GraphQueries
<1>2. (CHOOSE c \in Children(j) : TRUE) = n BY <1>1
<1>3. ImpactOf(j, n) = NoImpact BY DEF ImpactOf, QueryChild
<1>4. NoImpact.scoring # "DISABLED" /\ \A v : ImpactFloor(NoImpact, v) = v
  BY DEF NoImpact, ImpactFloor
<1> DEFINE base == IF s = NoScore THEN MkScore("result", 0, 0, 0, 0, 0)
                   ELSE IF s.type = "result" THEN [s EXCEPT !.value = s.value] ELSE s
<1>5. ForwardedScore(j, rjScores[j]) =
        IF total = 0 THEN base ELSE [base EXCEPT !.dt = total, !.dc = dc]
  BY <1>1, <1>2, <1>3, <1>4 DEF ForwardedScore
<1>6. JobScore(j) = IF total = 0 THEN base ELSE [base EXCEPT !.dt = total, !.dc = dc]
  BY <1>5 DEF JobScore, QueryJob
<1>7. /\ base.type = (IF s = NoScore THEN "result" ELSE s.type)
      /\ base.value = s.value /\ base.sc = s.sc
      /\ base = [type |-> base.type, value |-> base.value, sc |-> base.sc, dc |-> 0,
                 dt |-> 0, weight |-> base.weight]
  <2>1. CASE s = NoScore BY <2>1 DEF NoScore, MkScore
  <2>2. CASE s \in QueryScores
    <3>1. PICK type, value : s = MkScore(type, value, 100, 0, 0, 1)
      BY <2>2 DEF QueryScores
    <3>2. s # NoScore BY <3>1 DEF MkScore, NoScore
    <3> QED BY <3>1, <3>2 DEF MkScore
  <2> QED BY <2>1, <2>2
<1> QED BY <1>6, <1>7

(* It forwards the score when it has all its data, and never before. *)
LEMMA QueryJobEmits ==
    ASSUME TypeInv, NEW j \in Jobs, NEW q \in GraphQueries, QueryJob(j, q),
           Entrypoints[q] # {},
           rjScores[j][QueryChild(q)] \in QueryScores \union {NoScore}
    PROVE  LET s == rjScores[j][QueryChild(q)]
           IN  /\ JobEmits(j) # NoScore =>
                    /\ JobEmits(j).type = s.type /\ JobEmits(j).value = s.value
                    /\ s # NoScore /\ \A d \in JobData[j] : rjData[j][d] # None
               /\ s # NoScore /\ (\A d \in JobData[j] : rjData[j][d] # None)
                    => JobEmits(j) # NoScore
<1> DEFINE s == rjScores[j][QueryChild(q)]
           total == Cardinality(JobData[j])
           dc == (100 * Cardinality(Finished(j))) \div total
<1>1. JobData[j] # {} BY DEF QueryJob
<1>2. /\ total \in Nat /\ total > 0 /\ dc \in 0 .. 100
      /\ dc = 100 <=> \A d \in JobData[j] : rjData[j][d] # None
  <2>1. /\ total \in Nat /\ total > 0 /\ Cardinality(Finished(j)) \in Nat
        /\ Cardinality(Finished(j)) <= total
    BY <1>1, JobShare
  <2>2. /\ dc \in 0 .. 100
        /\ dc = 100 <=> Cardinality(Finished(j)) = total
    <3>1. PICK a \in Nat, b \in Nat : a = Cardinality(Finished(j)) /\ b = total
      BY <2>1
    <3>2. b > 0 /\ a <= b BY <2>1, <3>1
    <3>3. /\ (100 * a) \div b \in 0 .. 100
          /\ (100 * a) \div b = 100 <=> a = b
      BY <3>2, FullShare
    <3>4. dc = (100 * a) \div b BY <3>1
    <3> HIDE DEF dc
    <3> QED BY <3>1, <3>3, <3>4
  <2>3. Cardinality(Finished(j)) = total <=> \A d \in JobData[j] : rjData[j][d] # None
    BY JobShare
  <2> QED BY <2>1, <2>2, <2>3
<1>3. /\ JobScore(j).type = (IF s = NoScore THEN "result" ELSE s.type)
      /\ JobScore(j).value = s.value /\ JobScore(j).sc = s.sc /\ JobScore(j).dc = dc
  BY <1>2, QueryJobScore
<1>4. JobEmits(j) = IF JobScore(j) # NoScore /\ Completion(JobScore(j)) = 100
                    THEN JobScore(j) ELSE NoScore
  BY DEF JobEmits, QueryJob
<1>5. CASE s = NoScore
  <2>1. s.sc = 0 BY <1>5 DEF NoScore, MkScore
  <2>2. Completion(JobScore(j)) = (dc + 0) \div 2 BY <1>3, <2>1 DEF Completion
  <2>3. (dc + 0) \div 2 # 100 BY <1>2
  <2> QED BY <1>4, <1>5, <2>2, <2>3
<1>6. CASE s # NoScore
  <2>1. s \in QueryScores BY <1>6
  <2>2. PICK type, value : s = MkScore(type, value, 100, 0, 0, 1)
    BY <2>1 DEF QueryScores
  <2>3. s.sc = 100 BY <2>2 DEF MkScore
  <2>4. NoScore.sc = 0 BY DEF NoScore, MkScore
  <2>5. JobScore(j) # NoScore BY <1>3, <2>3, <2>4
  <2>6. Completion(JobScore(j)) = (dc + 100) \div 2 BY <1>3, <2>3 DEF Completion
  <2>7. (dc + 100) \div 2 = 100 <=> dc = 100 BY <1>2
  <2> QED BY <1>2, <1>3, <1>4, <1>6, <2>5, <2>6, <2>7
<1> QED BY <1>5, <1>6

(***************************************************************************)
(* The results of a query and of the job that reports it move together; a  *)
(* completed job has sent up the query's score, and one that has a score   *)
(* to send waits for its turn.                                             *)
(***************************************************************************)
JobScoresKeyed ==
    DOMAIN rjScores = Jobs /\ \A j \in Jobs : DOMAIN rjScores[j] = Children(j)

SentScore(j, q) == rjScores[j][QueryChild(q)]

UpToDate(j, q) ==
    /\ SentScore(j, q) \in QueryScores \union {NoScore}
    /\ \A d \in Entrypoints[q] : rjData[j][d] = rqResults[q][d]
    /\ \/ rqInvalidated[q] \/ QueryScore(rqResults[q]) = NoScore
       \/ SentScore(j, q) = QueryScore(rqResults[q])
    /\ rjCompleted[j] =>
         /\ SentScore(j, q) = QueryScore(rqResults[q])
         /\ LastScore(JobChild(j)).type = SentScore(j, q).type
         /\ LastScore(JobChild(j)).value = SentScore(j, q).value
    /\ rjInvalidated[j] \/ rjCompleted[j] \/ JobEmits(j) = NoScore

QueryJobsInv ==
    /\ JobScoresKeyed
    /\ \A j \in Jobs, q \in GraphQueries : QueryJob(j, q) => UpToDate(j, q)

(* A job's score depends on what it holds only. *)
LEMMA JobEmitsKept ==
    ASSUME NEW j \in Jobs, forwardScore(j), rjScores'[j] = rjScores[j],
           rjData'[j] = rjData[j]
    PROVE  JobEmits(j)' = JobEmits(j)
<1>1. Finished(j)' = Finished(j) BY DEF Finished
<1>2. ForwardedScore(j, rjScores[j])' = ForwardedScore(j, rjScores[j])
  BY <1>1 DEF ForwardedScore
<1>3. JobScore(j)' = JobScore(j) BY <1>2 DEF JobScore
<1> QED BY <1>3 DEF JobEmits

(* A step that concerns other nodes only. *)
LEMMA OtherNodes ==
    ASSUME NEW j \in Jobs, NEW q \in GraphQueries, QueryJob(j, q), UpToDate(j, q),
           rqResults'[q] = rqResults[q], rqInvalidated'[q] = rqInvalidated[q],
           rjScores'[j] = rjScores[j], rjData'[j] = rjData[j],
           rjCompleted'[j] = rjCompleted[j], rjInvalidated'[j] = rjInvalidated[j],
           LastScore(JobChild(j))' = LastScore(JobChild(j))
    PROVE  UpToDate(j, q)'
<1>1. JobEmits(j)' = JobEmits(j) BY JobEmitsKept DEF QueryJob
<1>2. QueryScore(rqResults[q])' = QueryScore(rqResults[q]) BY DEF QueryScore
<1>3. SentScore(j, q)' = SentScore(j, q) BY DEF SentScore
<1> QED BY <1>1, <1>2, <1>3 DEF UpToDate

(* Initially no query has a score. *)
LEMMA QueryJobsInit == EveryQueryHasEntrypoints /\ Init => QueryJobsInv
<1> SUFFICES ASSUME EveryQueryHasEntrypoints, Init PROVE QueryJobsInv OBVIOUS
<1>1. JobScoresKeyed BY DEF Init, JobScoresKeyed
<1>2. ASSUME NEW j \in Jobs, NEW q \in GraphQueries, QueryJob(j, q)
      PROVE  UpToDate(j, q)
  <2>1. QueryChild(q) \in Children(j) BY <1>2 DEF QueryJob, Children, GraphQueries
  <2>2. SentScore(j, q) = NoScore BY <2>1 DEF Init, SentScore
  <2>3. \A d \in Entrypoints[q] : rjData[j][d] = None /\ rqResults[q][d] = None
    BY <1>2 DEF Init, QueryJob
  <2>4. rqResults[q] = [d \in Entrypoints[q] |-> None] BY DEF Init
  <2>5. Entrypoints[q] # {} BY DEF EveryQueryHasEntrypoints, GraphQueries
  <2>6. None \in {rqResults[q][d] : d \in DOMAIN rqResults[q]} BY <2>4, <2>5
  <2>7. QueryScore(rqResults[q]) = NoScore BY <2>6 DEF QueryScore
  <2> QED BY <2>2, <2>3, <2>7 DEF Init, UpToDate
<1> QED BY <1>1, <1>2 DEF QueryJobsInv

(* A job's score map keeps its keys. *)
LEMMA ScoreKeysKept ==
    ASSUME JobScoresKeyed, NEW m, NEW s, NEW invalidated,
           rjScores' = rjScores \/ JobsConsumeScore(m, s, invalidated)
    PROVE  JobScoresKeyed'
<1>1. CASE rjScores' = rjScores BY <1>1 DEF JobScoresKeyed
<1>2. CASE JobsConsumeScore(m, s, invalidated)
  <2>1. rjScores' = [j \in Jobs |->
                       IF j \in Receivers(m)
                       THEN [rjScores[j] EXCEPT ![m] = ControlScore(j, s)]
                       ELSE rjScores[j]]
    BY <1>2 DEF JobsConsumeScore
  <2>2. \A j \in Jobs : DOMAIN rjScores'[j] = DOMAIN rjScores[j] BY <2>1
  <2> QED BY <2>1, <2>2 DEF JobScoresKeyed
<1> QED BY <1>1, <1>2

(* A query and its job take the same results. *)
LEMMA SameUpgrades ==
    \A prev \in Optional(Results), res \in Results :
        ConsumeEntrypoint(prev, res) = ConsumeJobData(prev, res)
BY DEF ConsumeEntrypoint, ConsumeJobData, resultUpgrades, isPlaceholderResult

(* A datapoint reopens the job when it changes the query's results. *)
LEMMA DatapointReachesJob ==
    ASSUME TypeInv, CopiesInv, NEW item \in queue, RecalculateDatapoint(item),
           NEW j \in Jobs, NEW q \in GraphQueries, QueryJob(j, q), UpToDate(j, q)
    PROVE  UpToDate(j, q)'
<1> DEFINE d == item[1][2]
<1>1. d \in GraphDatapoints
  BY NodeKinds DEF RecalculateDatapoint, TypeInv, TypeOK, LoopTyped
<1>2. LastScore(JobChild(j))' = LastScore(JobChild(j))
  BY DEF RecalculateDatapoint, LastScore, nodeVars, colVars
<1>3. CASE ~dpInvalidated[d]
  <2>1. UNCHANGED nodeVars BY <1>3 DEF RecalculateDatapoint
  <2> QED BY <1>2, <2>1, OtherNodes DEF nodeVars, rqVars, rjVars
<1>4. CASE dpInvalidated[d]
  <2> DEFINE res == dpRes[d]
             results == rqResults[q]
             data == rjData[j]
  <2>1. ReportingQueriesConsume(d, res) /\ JobsConsumeData(d, res)
    BY <1>4 DEF RecalculateDatapoint
  <2>2. res \in Results
    BY <1>1, <1>4 DEF CopiesInv, CopiesLag, TypeInv, TypeOK, DatapointsTyped, Optional
  <2>3. /\ results \in [Entrypoints[q] -> Optional(Results)]
        /\ data \in [JobData[j] -> Optional(Results)]
        /\ rqInvalidated[q] \in BOOLEAN /\ rjInvalidated[j] \in BOOLEAN
        /\ rjCompleted[j] \in BOOLEAN
    BY DEF TypeInv, TypeOK, ReportingQueriesTyped, JobsTyped
  <2>4. /\ rqResults'[q] = IF d \in Entrypoints[q]
                           THEN [results EXCEPT ![d] = ConsumeEntrypoint(results[d], res)]
                           ELSE results
        /\ rqInvalidated'[q] = (rqInvalidated[q] \/ rqResults'[q] # results)
    BY <2>1 DEF ReportingQueriesConsume
  <2>5. /\ rjData'[j] = IF d \in JobData[j]
                        THEN [data EXCEPT ![d] = ConsumeJobData(data[d], res)]
                        ELSE data
        /\ rjCompleted'[j] = (rjCompleted[j] /\ rjData'[j] = data)
        /\ rjInvalidated'[j] = (rjInvalidated[j] \/ rjData'[j] # data)
        /\ rjScores'[j] = rjScores[j]
    BY <2>1 DEF JobsConsumeData
  <2>6. Entrypoints[q] \subseteq JobData[j] BY DEF QueryJob
  <2>7. \A e \in Entrypoints[q] : data[e] = results[e] BY DEF UpToDate
  <2>8. \A e \in Entrypoints[q] : rjData'[j][e] = rqResults'[q][e]
    <3>1. d \in Entrypoints[q] => ConsumeEntrypoint(results[d], res) = ConsumeJobData(data[d], res)
      BY <2>2, <2>3, <2>7, SameUpgrades
    <3> HIDE DEF results, data, res
    <3> QED BY <2>3, <2>4, <2>5, <2>6, <2>7, <3>1
  <2>9. rjData'[j] = data => rqResults'[q] = results
    <3>1. rqResults'[q] \in [Entrypoints[q] -> Optional(Results) \union Results]
      <4>1. d \in Entrypoints[q] =>
               ConsumeEntrypoint(results[d], res) \in Optional(Results) \union Results
        BY <2>2, <2>3 DEF ConsumeEntrypoint
      <4> HIDE DEF results, res
      <4> QED BY <2>3, <2>4, <4>1
    <3> HIDE DEF results, data
    <3> QED BY <2>3, <2>7, <2>8, <3>1
  <2>10. SentScore(j, q)' = SentScore(j, q) BY <2>5 DEF SentScore
  <2>11. rqResults'[q] = results => QueryScore(rqResults[q])' = QueryScore(rqResults[q])
    BY DEF QueryScore
  <2>12. rjData'[j] = data => JobEmits(j)' = JobEmits(j)
    BY <2>5, JobEmitsKept DEF QueryJob
  <2>13. \/ rqInvalidated'[q] \/ QueryScore(rqResults[q])' = NoScore
         \/ SentScore(j, q)' = QueryScore(rqResults[q])'
    BY <2>4, <2>10, <2>11 DEF UpToDate
  <2>14. rjCompleted'[j] =>
           /\ SentScore(j, q)' = QueryScore(rqResults[q])'
           /\ LastScore(JobChild(j))'.type = SentScore(j, q)'.type
           /\ LastScore(JobChild(j))'.value = SentScore(j, q)'.value
    BY <1>2, <2>5, <2>9, <2>10, <2>11 DEF UpToDate
  <2>15. rjInvalidated'[j] \/ rjCompleted'[j] \/ JobEmits(j)' = NoScore
    BY <2>5, <2>12 DEF UpToDate
  <2> QED BY <2>8, <2>10, <2>13, <2>14, <2>15 DEF UpToDate
<1> QED BY <1>3, <1>4

(* The query's new score wakes its job, or is what a completed job sent. *)
LEMMA QueryReachesJob ==
    ASSUME TypeInv, ScoresKeyed, JobScoresKeyed, NEW item \in queue,
           RecalculateReportingQuery(item),
           NEW j \in Jobs, NEW q \in GraphQueries, QueryJob(j, q), UpToDate(j, q)
    PROVE  UpToDate(j, q)'
<1> DEFINE p == item[1][2]
           s == QueryScore(rqResults[p])
<1>1. p \in GraphQueries /\ item[1] = QueryChild(p)
  BY NodeKinds DEF RecalculateReportingQuery, TypeInv, TypeOK, LoopTyped
<1>2. Children(j) = {QueryChild(q)} /\ j \notin StaticJobs
  BY DEF QueryJob, Children, GraphQueries, StaticJobs
<1>3. LastScore(JobChild(j))' = LastScore(JobChild(j))
  <2>1. JobChild(j) \in ScoreNodes /\ JobChild(j) # item[1]
    BY <1>1 DEF ScoreNodes, JobChild, QueryChild
  <2>2. ScoreCollectorConsume(item[1], s) \/ UNCHANGED colVars
    BY DEF RecalculateReportingQuery
  <2> QED BY <2>1, <2>2, OtherScores
<1>4. UNCHANGED <<rqResults, rjData, rjCompleted>> BY DEF RecalculateReportingQuery
<1>5. CASE p # q
  <2>1. rqInvalidated'[q] = rqInvalidated[q]
    BY <1>1, <1>5 DEF RecalculateReportingQuery, TypeInv, TypeOK, ReportingQueriesTyped
  <2>2. j \notin Receivers(item[1]) BY <1>1, <1>2, <1>5 DEF Receivers, QueryChild
  <2>3. rjScores'[j] = rjScores[j] /\ rjInvalidated'[j] = rjInvalidated[j]
    BY <2>2 DEF RecalculateReportingQuery, JobsConsumeScore, TypeInv, TypeOK, JobsTyped
  <2> QED BY <1>3, <1>4, <2>1, <2>3, OtherNodes
<1>6. CASE p = q /\ (~rqInvalidated[q] \/ s = NoScore)
  <2>1. UNCHANGED <<rjScores, rjInvalidated>> BY <1>6 DEF RecalculateReportingQuery
  <2>2. ~rqInvalidated[q] => rqInvalidated'[q] = rqInvalidated[q]
    BY <1>6 DEF RecalculateReportingQuery
  <2>3. JobEmits(j)' = JobEmits(j) BY <1>4, <2>1, JobEmitsKept DEF QueryJob
  <2>4. QueryScore(rqResults[q])' = QueryScore(rqResults[q]) BY <1>4 DEF QueryScore
  <2>5. SentScore(j, q)' = SentScore(j, q) BY <2>1 DEF SentScore
  <2> QED BY <1>3, <1>4, <1>6, <2>1, <2>2, <2>3, <2>4, <2>5 DEF UpToDate
<1>7. CASE p = q /\ rqInvalidated[q] /\ s # NoScore
  <2>1. JobsConsumeScore(item[1], s, rjInvalidated)
    BY <1>7 DEF RecalculateReportingQuery
  <2>2. j \in Receivers(item[1]) BY <1>1, <1>2, <1>7 DEF Receivers
  <2>3. ControlScore(j, s) = s BY DEF QueryJob, forwardScore, ControlScore
  <2>4. rjInvalidated'[j] BY <2>1, <2>2 DEF JobsConsumeScore
  <2>5. rjScores'[j] = [rjScores[j] EXCEPT ![item[1]] = s]
    BY <2>1, <2>2, <2>3 DEF JobsConsumeScore
  <2>6. item[1] \in DOMAIN rjScores[j] BY <1>1, <1>2, <1>7 DEF JobScoresKeyed
  <2>7. SentScore(j, q)' = s BY <1>1, <1>7, <2>5, <2>6 DEF SentScore
  <2>8. QueryScore(rqResults[q])' = s BY <1>4, <1>7 DEF QueryScore
  <2>9. s \in QueryScores \union {NoScore} BY QueryScoreIs
  <2>10. rjCompleted[j] => SentScore(j, q) = s BY <1>7 DEF UpToDate
  <2> QED BY <1>3, <1>4, <2>4, <2>7, <2>8, <2>9, <2>10 DEF UpToDate
<1> QED BY <1>5, <1>6, <1>7

(* At its turn, a job that has something to send has the score of all the *)
(* results its query has.                                                  *)
LEMMA QueryWasFirst ==
    ASSUME TypeInv, WorkInv, PrioritiesOrdered, ItemsInv, EveryQueryHasEntrypoints,
           NEW item \in queue, Top(item), NEW j \in Jobs, item[1] = JobChild(j),
           NEW q \in GraphQueries, QueryJob(j, q), UpToDate(j, q), JobEmits(j) # NoScore
    PROVE  /\ SentScore(j, q) = QueryScore(rqResults[q])
           /\ JobEmits(j).type = SentScore(j, q).type
           /\ JobEmits(j).value = SentScore(j, q).value
<1>1. /\ JobEmits(j).type = SentScore(j, q).type
      /\ JobEmits(j).value = SentScore(j, q).value
      /\ SentScore(j, q) # NoScore /\ \A d \in JobData[j] : rjData[j][d] # None
  <2>1. Entrypoints[q] # {} BY DEF EveryQueryHasEntrypoints, GraphQueries
  <2>2. rjScores[j][QueryChild(q)] \in QueryScores \union {NoScore}
    BY DEF UpToDate, SentScore
  <2> QED BY <2>1, <2>2, QueryJobEmits DEF SentScore
<1>2. QueryScore(rqResults[q]) # NoScore
  <2>1. \A d \in Entrypoints[q] : rqResults[q][d] # None
    BY <1>1 DEF UpToDate, QueryJob
  <2>2. DOMAIN rqResults[q] = Entrypoints[q]
    BY DEF TypeInv, TypeOK, ReportingQueriesTyped
  <2> QED BY <2>1, <2>2, ScoreOfResults
<1>3. ~rqInvalidated[q]
  <2>1. QueryChild(q) \in Children(j) BY DEF QueryJob, Children, GraphQueries
  <2>2. CASE FirstRound
    <3>1. HasSentScore(q) BY <1>1, <2>1 DEF HasSentScore, SentScore
    <3> QED BY <2>2, <3>1 DEF FirstRound
  <2>3. CASE ~FirstRound
    <3>1. item[1] \in Edges(QueryChild(q)) BY <2>1 DEF Edges, ParentJobs, QueryChild
    <3>2. item[1][1] # "dp" BY DEF JobChild
    <3> QED BY <2>3, <3>1, <3>2, InputsDone
  <2> QED BY <2>2, <2>3
<1> QED BY <1>1, <1>2, <1>3 DEF UpToDate

(* A job sends the score of the query it reports. *)
LEMMA JobSendsScore ==
    ASSUME TypeInv, WorkInv, PrioritiesOrdered, ItemsInv, EveryQueryHasEntrypoints,
           NEW item \in queue, Top(item), RecalculateReportingJob(item),
           NEW j \in Jobs, NEW q \in GraphQueries, QueryJob(j, q), UpToDate(j, q)
    PROVE  UpToDate(j, q)'
<1> DEFINE k == item[1][2]
           s == JobEmits(k)
           cleared == [rjInvalidated EXCEPT ![k] = FALSE]
<1>1. k \in Jobs /\ item[1] = JobChild(k)
  BY NodeKinds DEF RecalculateReportingJob, TypeInv, TypeOK, LoopTyped
<1>2. UNCHANGED <<rqVars, rjData>> BY DEF RecalculateReportingJob
<1>3. Children(j) = {QueryChild(q)} BY DEF QueryJob, Children, GraphQueries
<1>4. j \notin Receivers(item[1]) BY <1>1, <1>3 DEF Receivers, QueryChild, JobChild
<1>5. /\ rjInvalidated \in [Jobs -> BOOLEAN] /\ rjCompleted \in [Jobs -> BOOLEAN]
  BY DEF TypeInv, TypeOK, JobsTyped
<1>6. rjScores'[j] = rjScores[j]
  BY <1>4 DEF RecalculateReportingJob, JobsConsumeScore
<1>7. SentScore(j, q)' = SentScore(j, q) BY <1>6 DEF SentScore
<1>8. JobEmits(j)' = JobEmits(j) BY <1>2, <1>6, JobEmitsKept DEF QueryJob
<1>9. QueryScore(rqResults[q])' = QueryScore(rqResults[q])
  BY <1>2 DEF QueryScore, rqVars
<1>10. CASE k # j
  <2>1. rjCompleted'[j] = rjCompleted[j]
    BY <1>1, <1>5, <1>10 DEF RecalculateReportingJob
  <2>2. rjInvalidated'[j] = rjInvalidated[j]
    BY <1>1, <1>4, <1>5, <1>10 DEF RecalculateReportingJob, JobsConsumeScore
  <2>3. LastScore(JobChild(j))' = LastScore(JobChild(j))
    <3>1. JobChild(j) \in ScoreNodes /\ JobChild(j) # item[1]
      BY <1>1, <1>10 DEF ScoreNodes, JobChild
    <3>2. ScoreCollectorConsume(item[1], s) \/ UNCHANGED colVars
      BY DEF RecalculateReportingJob
    <3> QED BY <3>1, <3>2, OtherScores DEF WorkInv
  <2> QED BY <1>2, <1>6, <2>1, <2>2, <2>3, OtherNodes DEF rqVars
<1>11. CASE k = j /\ ~(rjInvalidated[j] /\ ~rjCompleted[j])
  <2>1. UNCHANGED <<rjCompleted, rjInvalidated, colVars>>
    BY <1>11 DEF RecalculateReportingJob
  <2>2. LastScore(JobChild(j))' = LastScore(JobChild(j)) BY <2>1 DEF LastScore, colVars
  <2> QED BY <1>2, <1>6, <2>1, <2>2, OtherNodes DEF rqVars
<1>12. CASE k = j /\ rjInvalidated[j] /\ ~rjCompleted[j] /\ s = NoScore
  <2>1. UNCHANGED rjCompleted BY <1>12 DEF RecalculateReportingJob
  <2> QED BY <1>2, <1>7, <1>8, <1>9, <1>12, <2>1 DEF UpToDate, rqVars
<1>13. CASE k = j /\ rjInvalidated[j] /\ ~rjCompleted[j] /\ s # NoScore
  <2>1. rjCompleted' = [rjCompleted EXCEPT ![j] = TRUE] /\ ScoreCollectorConsume(item[1], s)
    BY <1>13 DEF RecalculateReportingJob
  <2>2. rjCompleted'[j] BY <1>5, <2>1
  <2>3. LastScore(JobChild(j))' = s
    <3>1. item[1] \in DOMAIN scUnreported /\ CollectedScore(item[1])
      BY <1>1 DEF WorkInv, ScoresKeyed, ScoreNodes, CollectedScore, JobChild
    <3>2. scUnreported'[item[1]] = s BY <2>1, <3>1 DEF ScoreCollectorConsume
    <3> QED BY <1>1, <1>13, <3>2 DEF LastScore
  <2>4. /\ SentScore(j, q) = QueryScore(rqResults[q])
        /\ s.type = SentScore(j, q).type /\ s.value = SentScore(j, q).value
    BY <1>1, <1>13, QueryWasFirst
  <2> QED BY <1>2, <1>7, <1>9, <2>2, <2>3, <2>4 DEF UpToDate, rqVars
<1> QED BY <1>10, <1>11, <1>12, <1>13

(* No step separates a query's job from its query. *)
LEMMA QueryJobsStep ==
    PrioritiesOrdered /\ EveryQueryHasEntrypoints /\ TypeInv /\ CopiesInv /\ WorkInv
      /\ ItemsInv /\ QueryJobsInv /\ [Next]_vars => QueryJobsInv'
<1> SUFFICES ASSUME PrioritiesOrdered, EveryQueryHasEntrypoints, TypeInv, CopiesInv,
                    WorkInv, ItemsInv, QueryJobsInv, [Next]_vars
             PROVE  QueryJobsInv'
  OBVIOUS
<1>1. CASE ProcessQueue
  <2>1. PICK item \in queue : Top(item) /\ Recalculate(item) BY <1>1 DEF ProcessQueue
  <2>2. JobScoresKeyed'
    <3>1. \/ rjScores' = rjScores
          \/ \E s, invalidated : JobsConsumeScore(item[1], s, invalidated)
      <4>1. CASE RecalculateDatapoint(item) \/ RecalculateExecutionQuery(item)
        BY <4>1 DEF RecalculateDatapoint, RecalculateExecutionQuery, JobsConsumeData,
           nodeVars, rjVars
      <4>2. CASE \/ RecalculateReportingQuery(item) \/ RecalculateReportingJob(item)
                 \/ RecalculateStatic(item)
        BY <4>2 DEF RecalculateReportingQuery, RecalculateReportingJob, RecalculateStatic
      <4>3. CASE \/ RecalculateFinisher(item) \/ RecalculateDatapointCollector(item)
                 \/ RecalculateScoreCollector(item)
        BY <4>3 DEF RecalculateFinisher, RecalculateDatapointCollector,
           RecalculateScoreCollector, rjVars
      <4> QED BY <2>1, <4>1, <4>2, <4>3 DEF Recalculate
    <3> QED BY <3>1, ScoreKeysKept DEF QueryJobsInv
  <2>3. ASSUME NEW j \in Jobs, NEW q \in GraphQueries, QueryJob(j, q)
        PROVE  UpToDate(j, q)'
    <3>1. UpToDate(j, q) BY <2>3 DEF QueryJobsInv
    <3>2. ~RecalculateStatic(item) BY DEF RecalculateStatic, StaticJobs, GraphQueries
    <3>3. CASE \/ RecalculateExecutionQuery(item) \/ RecalculateFinisher(item)
               \/ RecalculateDatapointCollector(item)
      <4>1. UNCHANGED <<rqVars, rjVars, scUnreported, sunkScores>>
        BY <3>3 DEF RecalculateExecutionQuery, RecalculateFinisher,
           RecalculateDatapointCollector, colVars
      <4>2. LastScore(JobChild(j))' = LastScore(JobChild(j)) BY <4>1 DEF LastScore
      <4> QED BY <2>3, <3>1, <4>1, <4>2, OtherNodes DEF rqVars, rjVars
    <3>4. CASE RecalculateScoreCollector(item)
      <4>1. UNCHANGED <<rqVars, rjVars>> BY <3>4 DEF RecalculateScoreCollector
      <4>2. JobChild(j) \in ScoreNodes BY DEF ScoreNodes
      <4>3. LastScore(JobChild(j))' = LastScore(JobChild(j))
        BY <3>4, <4>2 DEF RecalculateScoreCollector, LastScore
      <4> QED BY <2>3, <3>1, <4>1, <4>3, OtherNodes DEF rqVars, rjVars
    <3>5. CASE RecalculateDatapoint(item) BY <2>3, <3>1, <3>5, DatapointReachesJob
    <3>6. CASE RecalculateReportingQuery(item)
      BY <2>3, <3>1, <3>6, QueryReachesJob DEF WorkInv, QueryJobsInv
    <3>7. CASE RecalculateReportingJob(item)
      BY <2>1, <2>3, <3>1, <3>7, JobSendsScore
    <3> QED BY <2>1, <3>2, <3>3, <3>4, <3>5, <3>6, <3>7 DEF Recalculate
  <2> QED BY <2>2, <2>3 DEF QueryJobsInv
<1>2. CASE UNCHANGED <<rqVars, rjVars, colVars>>
  <2>1. JobScoresKeyed' BY <1>2 DEF QueryJobsInv, JobScoresKeyed, rjVars
  <2>2. ASSUME NEW j \in Jobs, NEW q \in GraphQueries, QueryJob(j, q)
        PROVE  UpToDate(j, q)'
    <3>1. LastScore(JobChild(j))' = LastScore(JobChild(j)) BY <1>2 DEF LastScore, colVars
    <3> QED BY <1>2, <2>2, <3>1, OtherNodes DEF QueryJobsInv, rqVars, rjVars
  <2> QED BY <2>1, <2>2 DEF QueryJobsInv
<1>3. CASE GraphLoop /\ ~ProcessQueue
  BY <1>2, <1>3 DEF GraphLoop, RoundEnds, ReceiveResult, ReceiveDone, ReceiveError,
     DrainEnds, Stop, Return, nodeVars
<1>4. CASE ExecutionManager \/ Engine
  BY <1>2, <1>4 DEF ExecutionManager, Engine, CheckStop, SelectStop, Dequeue,
     BundleDone, BundleFails, Broadcast, Callback, SendResult, nodeVars
<1>5. CASE UNCHANGED vars BY <1>2, <1>5 DEF vars, nodeVars
<1> QED BY <1>1, <1>3, <1>4, <1>5 DEF Next, Terminated

(* With an empty queue, the last score collected for a query's job whose   *)
(* data have all arrived is the score of the query's present results.      *)
LEMMA EmptyQueueIsCurrent ==
    ASSUME EveryQueryHasEntrypoints, CollectedDatapoints \subseteq GraphDatapoints,
           LoopInv, QueryJobsInv, queue = {},
           NEW j \in Jobs, NEW q \in GraphQueries, QueryJob(j, q),
           \A d \in JobData[j] : dpRes[d] # None
    PROVE  /\ sunkScores[JobChild(j)].type = CurrentScore(q).type
           /\ sunkScores[JobChild(j)].value = CurrentScore(q).value
           /\ CurrentScore(q) \in QueryScores
<1>1. ~Rescore /\ WorkQueued BY DEF GraphQueries, LoopInv, WorkInv
<1>2. \A n : ~Queued(n) BY DEF Queued
<1>3. Idle BY <1>1, <1>2, EmptyQueueIsIdle DEF LoopInv
<1>4. JobData[j] \subseteq GraphDatapoints BY <1>1 DEF CollectedDatapoints
<1>5. UpToDate(j, q) /\ Entrypoints[q] \subseteq JobData[j]
  BY DEF QueryJobsInv, QueryJob
<1>6. ASSUME NEW d \in JobData[j] PROVE rjData[j][d] = dpRes[d] /\ rjData[j][d] # None
  <2>1. d \in GraphDatapoints /\ ~dpInvalidated[d] BY <1>3, <1>4 DEF Idle
  <2>2. Lag(rjData[j][d], dpRes[d], dpInvalidated[d])
    BY <2>1 DEF LoopInv, CopiesInv, CopiesLag
  <2> QED BY <2>1, <2>2 DEF Lag
<1>7. rqResults[q] = [d \in Entrypoints[q] |-> dpRes[d]]
  <2>1. rqResults[q] \in [Entrypoints[q] -> Optional(Results)]
    BY DEF LoopInv, TypeInv, TypeOK, ReportingQueriesTyped
  <2>2. \A d \in Entrypoints[q] : rqResults[q][d] = dpRes[d]
    BY <1>5, <1>6 DEF UpToDate
  <2> QED BY <2>1, <2>2
<1>8. QueryScore(rqResults[q]) = CurrentScore(q) BY <1>7 DEF CurrentScore
<1>9. CurrentScore(q) # NoScore
  <2>1. \A d \in DOMAIN rqResults[q] : rqResults[q][d] # None
    BY <1>5, <1>6, <1>7
  <2> QED BY <1>8, <2>1, ScoreOfResults
<1>10. SentScore(j, q) = CurrentScore(q)
  BY <1>3, <1>5, <1>8, <1>9 DEF UpToDate, Idle
<1>11. JobEmits(j) # NoScore
  <2>1. Entrypoints[q] # {} BY DEF EveryQueryHasEntrypoints, GraphQueries
  <2>2. rjScores[j][QueryChild(q)] \in QueryScores \union {NoScore}
    BY <1>5 DEF UpToDate, SentScore
  <2>3. rjScores[j][QueryChild(q)] # NoScore BY <1>9, <1>10 DEF SentScore
  <2> QED BY <1>6, <2>1, <2>2, <2>3, QueryJobEmits DEF LoopInv
<1>12. rjCompleted[j] BY <1>3, <1>5, <1>11 DEF Idle, UpToDate
<1>13. scUnreported[JobChild(j)] = NoScore
  <2>1. JobChild(j) \in ScoreNodes BY DEF ScoreNodes
  <2> QED BY <1>3, <2>1 DEF Idle
<1>14. CurrentScore(q) \in QueryScores BY <1>8, <1>9, QueryScoreIs
<1> QED BY <1>5, <1>10, <1>12, <1>13, <1>14 DEF UpToDate, LastScore

(* The invariant behind the scores of queries' jobs. *)
LEMMA QueryJobsInvariant ==
    Acyclic /\ EveryQueryHasEntrypoints => (Spec => [](LoopInv /\ QueryJobsInv))
<1> SUFFICES ASSUME Acyclic, EveryQueryHasEntrypoints
             PROVE  Spec => [](LoopInv /\ QueryJobsInv)
  OBVIOUS
<1>1. Init => ItemsInv /\ QueryJobsInv BY PrioritiesFollowEdges, ItemsInit, QueryJobsInit
<1>2. LoopInv /\ ItemsInv /\ QueryJobsInv /\ [Next]_vars => ItemsInv' /\ QueryJobsInv'
  BY PrioritiesFollowEdges, ItemsStep, QueryJobsStep DEF LoopInv
<1> QED BY <1>1, <1>2, LoopInvariant, PTL DEF Spec

(***************************************************************************)
(* For every graph without cycles whose queries have entrypoints and whose *)
(* jobs collect datapoints of the graph: whenever Execute waits, the score *)
(* collected last for a query's job is the score of the query's present    *)
(* results.                                                                *)
(***************************************************************************)
THEOREM ScoresAreCurrent ==
    Acyclic /\ EveryQueryHasEntrypoints
      /\ CollectedDatapoints \subseteq GraphDatapoints
      => (Spec => []QueryScoresCurrent)
<1> SUFFICES ASSUME Acyclic, EveryQueryHasEntrypoints,
                    CollectedDatapoints \subseteq GraphDatapoints
             PROVE  Spec => []QueryScoresCurrent
  OBVIOUS
<1>1. LoopInv /\ QueryJobsInv => QueryScoresCurrent
  <2> SUFFICES ASSUME LoopInv, QueryJobsInv, pc = "wait",
                      NEW j \in Jobs, NEW q \in GraphQueries, QueryJob(j, q),
                      \A d \in JobData[j] : dpRes[d] # None
               PROVE  /\ sunkScores[JobChild(j)].type = CurrentScore(q).type
                      /\ sunkScores[JobChild(j)].value = CurrentScore(q).value
    BY DEF QueryScoresCurrent, QueryJob
  <2>1. queue = {} BY DEF LoopInv, RoundInv
  <2> QED BY <2>1, EmptyQueueIsCurrent
<1> QED BY <1>1, QueryJobsInvariant, PTL

(* What the job half of CleanReturnIsComplete says of queries' jobs, with the score. *)
QueryJobsDelivered ==
    pc = "returned" /\ ~err =>
        \A j \in Jobs, q \in GraphQueries :
            QueryJob(j, q) =>
                /\ sunkScores[JobChild(j)] # NoScore
                /\ sunkScores[JobChild(j)].type = CurrentScore(q).type
                /\ sunkScores[JobChild(j)].value = CurrentScore(q).value

(***************************************************************************)
(* When Execute returns without an error, the score of every query's job   *)
(* has been collected, and it is that of the results the query ended with. *)
(***************************************************************************)
THEOREM FinalScoresAreDelivered ==
    Acyclic /\ EveryQueryHasEntrypoints
      /\ CollectedDatapoints \subseteq GraphDatapoints
      => (Spec => []QueryJobsDelivered)
<1> SUFFICES ASSUME Acyclic, EveryQueryHasEntrypoints,
                    CollectedDatapoints \subseteq GraphDatapoints
             PROVE  Spec => []QueryJobsDelivered
  OBVIOUS
<1>1. LoopInv /\ QueryJobsInv => QueryJobsDelivered
  <2> SUFFICES ASSUME LoopInv, QueryJobsInv, pc = "returned", ~err,
                      NEW j \in Jobs, NEW q \in GraphQueries, QueryJob(j, q)
               PROVE  /\ sunkScores[JobChild(j)] # NoScore
                      /\ sunkScores[JobChild(j)].type = CurrentScore(q).type
                      /\ sunkScores[JobChild(j)].value = CurrentScore(q).value
    BY DEF QueryJobsDelivered
  <2>1. ~Rescore BY DEF GraphQueries
  <2>2. queue = {} /\ remaining = {}
    BY <2>1 DEF LoopInv, RoundInv, ReportedInv, Leaving
  <2>3. \A d \in JobData[j] : dpRes[d] # None
    <3>1. JobData[j] \subseteq GraphDatapoints BY <2>1 DEF CollectedDatapoints
    <3> QED BY <2>2, <3>1 DEF LoopInv, ReportedInv
  <2>4. /\ sunkScores[JobChild(j)].type = CurrentScore(q).type
        /\ sunkScores[JobChild(j)].value = CurrentScore(q).value
        /\ CurrentScore(q) \in QueryScores
    BY <2>2, <2>3, EmptyQueueIsCurrent
  <2>5. CurrentScore(q).type # NoScore.type
    <3>1. PICK type, value : /\ type \in {"unscored", "error", "skip", "result"}
                             /\ CurrentScore(q) = MkScore(type, value, 100, 0, 0, 1)
      BY <2>4 DEF QueryScores
    <3> QED BY <3>1 DEF MkScore, NoScore
  <2> QED BY <2>4, <2>5
<1> QED BY <1>1, QueryJobsInvariant, PTL

-----------------------------------------------------------------------------
(***************************************************************************)
(* Completion.  Every score that is sent is full: its own part is complete *)
(* and so is its data, unless it has none.  Sums of full scores are full,  *)
(* so that a job which has heard of all its children and has all its data  *)
(* has a score of completion 100, which is when recalculate lets it go up. *)
(***************************************************************************)
(* The fields of a score and of a calculator. *)
ScoreFields == {"type", "value", "sc", "dc", "dt", "weight"}

CalcFields == {"value", "weight", "scoreTotal", "scoreCompletion", "scoreCnt",
               "dataTotal", "dataCompletion", "hasResults", "hasErrors", "failed",
               "bandMax"}

(* A score that is complete, or has no data of its own to be incomplete in. *)
FullScore(s) ==
    /\ DOMAIN s = ScoreFields
    /\ s.sc = 100 /\ s.dt \in Nat /\ s.dc \in 0 .. 100
    /\ s.dc = 100 \/ s.dt = 0

(* A calculator that was only given such scores. *)
FullSum(c) ==
    /\ DOMAIN c = CalcFields
    /\ c.scoreTotal \in Nat /\ c.scoreCompletion = 100 * c.scoreTotal
    /\ c.dataTotal \in Nat /\ c.dataCompletion = 100 * c.dataTotal
    /\ c.hasResults => c.scoreTotal > 0

(* What a full calculator is told by. *)
Totals(c) == <<DOMAIN c, c.scoreTotal, c.scoreCompletion, c.dataTotal, c.dataCompletion,
               c.hasResults>>

(* The value of a score enters the value, the count and the bands only. *)
LEMMA ValueKeepsTotals ==
    ASSUME NEW system, system \in Systems, NEW c, DOMAIN c = CalcFields, NEW s, NEW impact
    PROVE  /\ Totals(AddValue(system, c, s, impact)) = Totals(c)
           /\ Totals(AddErrorValue(system, c, s, impact)) = Totals(c)
<1>1. Totals(LowerValue(c, s)) = Totals(c) BY DEF LowerValue, Totals, CalcFields
<1>2. Totals(AddBand(c, s, impact)) = Totals(c) BY DEF AddBand, Totals, CalcFields
<1>3. Totals(AddValue(system, c, s, impact)) = Totals(c)
  <2>1. CASE system \in Averages
    <3>1. \/ AddValue(system, c, s, impact) = c
          \/ AddValue(system, c, s, impact) =
                [c EXCEPT !.scoreCnt = @ + 1, !.value = @ + s.value]
      BY <2>1 DEF AddValue, Averages
    <3> QED BY <3>1 DEF Totals, CalcFields
  <2>2. CASE system = "WEIGHTED"
    <3>1. \/ AddValue(system, c, s, impact) = c
          \/ AddValue(system, c, s, impact) =
                [c EXCEPT !.scoreCnt = @ + s.weight, !.value = @ + s.value * s.weight]
      BY <2>2 DEF AddValue, Averages
    <3> QED BY <3>1 DEF Totals, CalcFields
  <2>3. CASE system = "WORST" BY <1>1, <2>3 DEF AddValue, Averages
  <2>4. CASE system = "BANDED" BY <1>2, <2>4 DEF AddValue, Averages
  <2> QED BY <2>1, <2>2, <2>3, <2>4 DEF Systems
<1> QED BY <1>1, <1>3 DEF AddErrorValue

(* Full scores keep a calculator full. *)
LEMMA AddKeepsFull ==
    ASSUME NEW system \in Systems, NEW c, FullSum(c), NEW s, FullScore(s), NEW impact
    PROVE  FullSum(Add(system, FailErrors, c, s, impact))
<1>1. s.dc * s.dt = 100 * s.dt
  <2>1. CASE s.dc = 100 BY <2>1
  <2>2. CASE s.dt = 0
    <3>1. s.dc * 0 = 0 BY DEF FullScore
    <3> QED BY <2>2, <3>1
  <2> QED BY <2>1, <2>2 DEF FullScore
<1>2. ASSUME NEW b, FullSum(b)
      PROVE  FullSum(AddData(b, s)) /\ FullSum(AddCompletion(b, s))
             /\ FullSum(AddResult(b, s))
  <2>1. FullSum(AddData(b, s)) /\ AddData(b, s).hasResults = b.hasResults
    BY <1>1, <1>2 DEF AddData, FullSum, FullScore, CalcFields
  <2>2. FullSum(AddCompletion(b, s)) /\ AddCompletion(b, s).scoreTotal > 0
    BY <2>1 DEF AddCompletion, FullSum, FullScore, CalcFields
  <2>3. FullSum(AddResult(b, s))
    BY <2>2 DEF AddResult, FullSum, CalcFields
  <2> QED BY <2>1, <2>2, <2>3
<1>3. ASSUME NEW b, FullSum(b)
      PROVE  /\ FullSum(AddValue(system, b, s, impact))
             /\ FullSum(AddErrorValue(system, b, s, impact))
  <2>1. DOMAIN b = CalcFields BY <1>3 DEF FullSum
  <2>2. /\ Totals(AddValue(system, b, s, impact)) = Totals(b)
        /\ Totals(AddErrorValue(system, b, s, impact)) = Totals(b)
    BY <2>1, ValueKeepsTotals
  <2> QED BY <1>3, <2>2 DEF FullSum, Totals
<1>4. FullSum([c EXCEPT !.hasErrors = TRUE]) BY DEF FullSum, CalcFields
<1>5. CASE s.type \in {"skip", "disabled", "outofscope"}
  BY <1>5 DEF Add
<1>6. CASE s.type = "unscored" BY <1>2, <1>6 DEF Add
<1>7. CASE s.type = "result" BY <1>2, <1>3, <1>7 DEF Add
<1>8. CASE s.type = "error" BY <1>2, <1>3, <1>4, <1>8 DEF Add
<1>9. CASE s.type \notin {"skip", "disabled", "outofscope", "unscored", "result", "error"}
  BY <1>2, <1>9 DEF Add
<1> QED BY <1>5, <1>6, <1>7, <1>8, <1>9

(* So do they with whatever impact they are added. *)
LEMMA AddSpecdKeepsFull ==
    ASSUME NEW system \in Systems, NEW c, FullSum(c), NEW s, FullScore(s), NEW impact
    PROVE  FullSum(AddSpecdScore(system, FailErrors, c, s, impact))
<1> DEFINE v == ImpactFloor(impact, s.value)
           w == IF impact.weight > 0 THEN impact.weight
                ELSE IF s.weight = 0 THEN 1 ELSE s.weight
<1>1. FullScore(MkScore("skip", v, s.sc, s.dc, s.dt, 0))
  BY DEF MkScore, FullScore, ScoreFields
<1>2. FullScore([s EXCEPT !.value = v, !.weight = w])
  BY DEF FullScore, ScoreFields
<1> HIDE DEF v, w
<1>3. \/ AddSpecdScore(system, FailErrors, c, s, impact) = Add(system, FailErrors, c, s, NoImpact)
      \/ AddSpecdScore(system, FailErrors, c, s, impact) =
           Add(system, FailErrors, c, MkScore("skip", v, s.sc, s.dc, s.dt, 0), NoImpact)
      \/ AddSpecdScore(system, FailErrors, c, s, impact) =
           Add(system, FailErrors, c, [s EXCEPT !.value = v, !.weight = w], impact)
  BY DEF AddSpecdScore, v, w
<1> QED BY <1>1, <1>2, <1>3, AddKeepsFull

-----------------------------------------------------------------------------
(* What the fold over the children adds up, for each set of them. *)
EachChild(j) == [c \in Children(j) |-> c]

(* The sum over S, given the sums over smaller sets in f *)
AddAll(j, scores, f, S) ==
    IF S = {} THEN CalcInit(JobSystem[j])
    ELSE LET child == CHOOSE c \in S : TRUE
         IN  AddSpecdScore(JobSystem[j], FailErrors, f[S \ {child}],
                           scores[EachChild(j)[child]], ImpactOf(j, EachChild(j)[child]))

(* The sums over all sets of children, as the fold defines them *)
ChildSum(j, scores) ==
    CHOOSE f : f = [S \in SUBSET Children(j) |-> AddAll(j, scores, f, S)]

(* The set the fold takes before S *)
Before(S) == S \ {CHOOSE c \in S : TRUE}

(* AggregateScore, without the fold *)
Aggregate(j, scores, finished) ==
    CASE JobSystem[j] \notin Systems -> MkScore("error", 0, 100, 0, 0, 1)
      [] JobSystem[j] \in Systems /\ \E c \in Children(j) : scores[c] = NoScore -> NoScore
      [] OTHER -> Calculate(JobSystem[j],
                    AddDataScore(JobSystem[j], ChildSum(j, scores)[Children(j)],
                                 Cardinality(JobData[j]), finished))

(* A job's score depends on its children's scores and its data only. *)
LEMMA AggregateDependsOn ==
    ASSUME NEW j \in Jobs
    PROVE  /\ AggregateScore(j, rjScores[j]) =
                Aggregate(j, rjScores[j], Cardinality(Finished(j)))
           /\ AggregateScore(j, rjScores[j])' =
                Aggregate(j, rjScores'[j], Cardinality(Finished(j)'))
<1>1. AggregateScore(j, rjScores[j]) =
                Aggregate(j, rjScores[j], Cardinality(Finished(j)))
  BY Zenon DEF AggregateScore, FoldFunctionOnSet, MapThenFoldSet, ChildSum, AddAll,
     EachChild, Aggregate
<1>2. AggregateScore(j, rjScores[j])' =
                Aggregate(j, rjScores'[j], Cardinality(Finished(j)'))
  BY Zenon DEF AggregateScore, FoldFunctionOnSet, MapThenFoldSet, ChildSum, AddAll,
     EachChild, Aggregate
<1> QED BY <1>1, <1>2

(* Families of sets, closed under Before, over which there are such sums *)
SummedFamilies(j, scores) ==
    {F \in SUBSET SUBSET Children(j) :
        /\ \A S \in F : S # {} => Before(S) \in F
        /\ \E f : f = [S \in F |-> AddAll(j, scores, f, S)]}

(* They grow by one set at a time. *)
LEMMA SumOneMore ==
    ASSUME NEW j, NEW scores, NEW F \in SummedFamilies(j, scores),
           NEW T \in (SUBSET Children(j)) \ F, T # {} => Before(T) \in F
    PROVE  F \union {T} \in SummedFamilies(j, scores)
<1>1. PICK f : f = [S \in F |-> AddAll(j, scores, f, S)] BY DEF SummedFamilies
<1> DEFINE g == [S \in F \union {T} |-> IF S = T THEN AddAll(j, scores, f, T) ELSE f[S]]
<1>2. \A S \in F \union {T} : S # {} => Before(S) \in F BY DEF SummedFamilies
<1>3. ASSUME NEW S \in F \union {T} PROVE AddAll(j, scores, g, S) = AddAll(j, scores, f, S)
  <2>1. S # {} => g[Before(S)] = f[Before(S)] BY <1>2
  <2> HIDE DEF g
  <2> QED BY <2>1 DEF AddAll, Before
<1>4. \A S \in F \union {T} : g[S] = AddAll(j, scores, g, S)
  <2> SUFFICES ASSUME NEW S \in F \union {T} PROVE g[S] = AddAll(j, scores, g, S) OBVIOUS
  <2>1. S # T => f[S] = AddAll(j, scores, f, S) BY <1>1
  <2>2. g[S] = AddAll(j, scores, f, S) BY <2>1
  <2> QED BY <1>3, <2>2
<1>5. g = [S \in F \union {T} |-> AddAll(j, scores, g, S)]
  <2>1. g = [S \in F \union {T} |-> g[S]] OBVIOUS
  <2> HIDE DEF g
  <2> QED BY <1>4, <2>1
<1>6. F \union {T} \in SUBSET SUBSET Children(j) BY DEF SummedFamilies
<1> HIDE DEF g
<1> QED BY <1>2, <1>5, <1>6 DEF SummedFamilies

(* A job has finitely many children. *)
LEMMA ChildrenFinite == \A j \in Jobs : IsFiniteSet(Children(j))
<1> SUFFICES ASSUME NEW j \in Jobs PROVE IsFiniteSet(Children(j)) OBVIOUS
<1>1. IsFiniteSet(IF Rescore THEN {} ELSE JobQuery[j]) /\ IsFiniteSet(ChildJobs[j])
  BY GraphAssumption, FS_Subset, FS_EmptySet
<1>2. IsFiniteSet({QueryChild(q) : q \in IF Rescore THEN {} ELSE JobQuery[j]})
  BY <1>1, KindIsFinite DEF QueryChild
<1>3. IsFiniteSet({JobChild(c) : c \in ChildJobs[j]})
  BY <1>1, KindIsFinite DEF JobChild
<1> QED BY <1>2, <1>3, FS_Union DEF Children

(* Of sets of children there is one whose Before is not among them. *)
LEMMA SmallestSet ==
    ASSUME NEW j \in Jobs, NEW W, W \subseteq SUBSET Children(j), W # {}
    PROVE  \E S \in W : S # {} => Before(S) \notin W
<1>1. W \subseteq FiniteSubsetsOf(Children(j))
  BY ChildrenFinite, FS_Subset DEF FiniteSubsetsOf
<1>2. IsWellFoundedOn(StrictSubsetOrdering(Children(j)), FiniteSubsetsOf(Children(j)))
  BY FS_StrictSubsetOrderingWellFounded
<1>3. PICK S \in W : \A T \in W : <<T, S>> \notin StrictSubsetOrdering(Children(j))
  BY <1>1, <1>2, WFMin
<1>4. ASSUME S # {}, Before(S) \in W PROVE FALSE
  <2>1. Before(S) \subseteq S /\ Before(S) # S BY <1>4 DEF Before
  <2>2. <<Before(S), S>> \in StrictSubsetOrdering(Children(j))
    BY <1>4, <2>1 DEF StrictSubsetOrdering
  <2> QED BY <1>3, <1>4, <2>2
<1> QED BY <1>4

(* So the largest of them has all sets, and the fold its defining equation. *)
LEMMA SumEnds ==
    ASSUME NEW j \in Jobs, NEW scores
    PROVE  ChildSum(j, scores) =
             [S \in SUBSET Children(j) |-> AddAll(j, scores, ChildSum(j, scores), S)]
<1> DEFINE All == SUBSET Children(j)
           Left == {All \ F : F \in SummedFamilies(j, scores)}
<1>1. {} \in SummedFamilies(j, scores)
  <2> DEFINE f == [S \in {} |-> 0]
  <2>1. f = [S \in {} |-> AddAll(j, scores, f, S)] OBVIOUS
  <2> QED BY <2>1 DEF SummedFamilies
<1>2. IsFiniteSet(All) BY ChildrenFinite, FS_SUBSET
<1>3. Left \subseteq FiniteSubsetsOf(All) /\ Left # {}
  BY <1>1, <1>2, FS_FiniteSubsetsOfFinite
<1>4. IsWellFoundedOn(StrictSubsetOrdering(All), FiniteSubsetsOf(All))
  BY FS_StrictSubsetOrderingWellFounded
<1>5. PICK rest \in Left : \A t \in Left : <<t, rest>> \notin StrictSubsetOrdering(All)
  <2> HIDE DEF Left, All
  <2> QED BY <1>3, <1>4, WFMin
<1>6. PICK F \in SummedFamilies(j, scores) : rest = All \ F BY <1>5
<1>7. F \subseteq All BY DEF SummedFamilies
<1>8. CASE F = All
  <2>1. \E f : f = [S \in All |-> AddAll(j, scores, f, S)] BY <1>8 DEF SummedFamilies
  <2> QED BY <2>1 DEF ChildSum
<1>9. CASE F # All
  <2>1. rest # {} /\ rest \subseteq All BY <1>6, <1>7, <1>9
  <2>2. PICK T \in rest : T # {} => Before(T) \notin rest BY <2>1, SmallestSet
  <2>3. T \in All /\ T \notin F /\ (T # {} => Before(T) \in F)
    <3>1. T # {} => Before(T) \in All BY <2>1 DEF Before
    <3> QED BY <1>6, <2>2, <3>1
  <2>4. F \union {T} \in SummedFamilies(j, scores) BY <2>3, SumOneMore
  <2>5. All \ (F \union {T}) \in Left BY <2>4
  <2>6. <<All \ (F \union {T}), rest>> \in StrictSubsetOrdering(All)
    BY <1>6, <2>3 DEF StrictSubsetOrdering
  <2> QED BY <1>5, <2>5, <2>6
<1> QED BY <1>8, <1>9

(* The sum of full scores is full. *)
LEMMA SumIsFull ==
    ASSUME NEW j \in Jobs, NEW scores, JobSystem[j] \in Systems,
           \A c \in Children(j) : FullScore(scores[c])
    PROVE  FullSum(ChildSum(j, scores)[Children(j)])
<1> DEFINE f == ChildSum(j, scores)
           Wrong == {S \in SUBSET Children(j) : ~FullSum(f[S])}
<1>1. \A S \in SUBSET Children(j) : f[S] = AddAll(j, scores, f, S) BY SumEnds
<1> HIDE DEF f
<1>2. Wrong = {}
  <2> SUFFICES ASSUME Wrong # {} PROVE FALSE OBVIOUS
  <2>1. PICK S \in Wrong : S # {} => Before(S) \notin Wrong BY SmallestSet
  <2>2. CASE S = {}
    <3>1. f[S] = CalcInit(JobSystem[j]) BY <1>1, <2>2 DEF AddAll
    <3>2. FullSum(CalcInit(JobSystem[j])) BY DEF CalcInit, FullSum, CalcFields
    <3> QED BY <3>1, <3>2
  <2>3. CASE S # {}
    <3> DEFINE child == CHOOSE c \in S : TRUE
    <3>1. child \in S /\ child \in Children(j) BY <2>3
    <3>2. EachChild(j)[child] = child BY <3>1 DEF EachChild
    <3>3. f[S] = AddSpecdScore(JobSystem[j], FailErrors, f[Before(S)], scores[child],
                               ImpactOf(j, child))
      BY <1>1, <2>3, <3>2 DEF AddAll, Before
    <3>4. FullSum(f[Before(S)]) BY <2>1, <2>3 DEF Before
    <3> QED BY <3>1, <3>3, <3>4, AddSpecdKeepsFull
  <2> QED BY <2>2, <2>3
<1> QED BY <1>2 DEF f

-----------------------------------------------------------------------------
(* A share of at most all is at most a hundred percent. *)
LEMMA ShareOf ==
    \A n, m \in Nat :
        m > 0 /\ n <= 100 * m => n \div m \in 0 .. 100 /\ (n = 100 * m => n \div m = 100)
<1> TAKE n \in Nat, m \in Nat
<1> HAVE m > 0 /\ n <= 100 * m
<1> DEFINE x == n \div m
<1>1. x \in Int /\ x * m <= n /\ n < (x + 1) * m BY Z3
<1> QED OBVIOUS

(* What is calculated from full scores lacks only the job's own data. *)
LEMMA CalculatedScore ==
    ASSUME NEW system \in Systems, NEW c, DOMAIN c = CalcFields,
           c.scoreTotal \in Nat, c.scoreCompletion = 100 * c.scoreTotal,
           c.hasResults => c.scoreTotal > 0,
           c.dataTotal \in Nat, c.dataCompletion \in Nat,
           c.dataCompletion <= 100 * c.dataTotal
    PROVE  LET s == Calculate(system, c)
           IN  /\ DOMAIN s = ScoreFields /\ s.sc = 100 /\ s.dt \in Nat /\ s.dc \in 0 .. 100
               /\ c.dataCompletion = 100 * c.dataTotal => s.dc = 100
<1> DEFINE dc == IF c.dataTotal = 0 THEN 100 ELSE c.dataCompletion \div c.dataTotal
           none == MkScore("unscored", 0, 100, dc, c.dataTotal, 0)
           result == MkScore("result", CalcValue(system, c),
                             c.scoreCompletion \div c.scoreTotal, dc, c.dataTotal, c.weight)
<1>1. dc \in 0 .. 100 /\ (c.dataCompletion = 100 * c.dataTotal => dc = 100)
  <2>1. CASE c.dataTotal = 0 BY <2>1
  <2>2. CASE c.dataTotal # 0
    <3>1. PICK n \in Nat, m \in Nat : n = c.dataCompletion /\ m = c.dataTotal OBVIOUS
    <3>2. m > 0 /\ n <= 100 * m BY <2>2, <3>1
    <3>3. n \div m \in 0 .. 100 /\ (n = 100 * m => n \div m = 100) BY <3>2, ShareOf
    <3>4. dc = n \div m BY <2>2, <3>1
    <3> QED BY <3>1, <3>3, <3>4
  <2> QED BY <2>1, <2>2
<1> HIDE DEF dc
<1>2. c.hasResults => c.scoreCompletion \div c.scoreTotal = 100
  <2> HAVE c.hasResults
  <2>1. PICK m \in Nat : m = c.scoreTotal OBVIOUS
  <2>2. m > 0 /\ (100 * m) \div m = 100
    <3>1. m > 0 BY <2>1
    <3>2. 100 * m \in Nat BY <2>1
    <3> QED BY <3>1, <3>2, ShareOf
  <2> QED BY <2>1, <2>2
<1>3. \/ Calculate(system, c) = none
      \/ Calculate(system, c) = [none EXCEPT !.type = "error"]
      \/ c.hasResults /\ Calculate(system, c) = result
  <2> DEFINE empty == system \in {"WORST", "BANDED"} /\ c.scoreTotal = 0
             v == Calculate(system, c)
  <2>1. v = CASE empty -> none
              [] c.hasResults -> result
              [] ~c.hasResults /\ c.hasErrors -> [none EXCEPT !.type = "error"]
              [] OTHER -> none
    BY DEF Calculate, dc
  <2>2. c.hasResults => ~empty OBVIOUS
  <2> HIDE DEF none, result, v, empty
  <2>3. v = none \/ v = [none EXCEPT !.type = "error"] \/ (c.hasResults /\ v = result)
    BY <2>1, <2>2
  <2> QED BY <2>3 DEF v
<1>4. CASE Calculate(system, c) = none
  BY <1>1, <1>4 DEF MkScore, ScoreFields
<1>5. CASE Calculate(system, c) = [none EXCEPT !.type = "error"]
  BY <1>1, <1>5 DEF MkScore, ScoreFields
<1>6. CASE Calculate(system, c) = result /\ c.hasResults
  BY <1>1, <1>2, <1>6 DEF MkScore, ScoreFields
<1> QED BY <1>3, <1>4, <1>5, <1>6

(* The score of a job that aggregates full scores. *)
LEMMA AggregateIsFull ==
    ASSUME TypeInv, NEW j \in Jobs, ~forwardScore(j), JobSystem[j] \in Systems,
           \A c \in Children(j) : FullScore(rjScores[j][c])
    PROVE  /\ DOMAIN JobScore(j) = ScoreFields
           /\ JobScore(j).sc = 100 /\ JobScore(j).dt \in Nat /\ JobScore(j).dc \in 0 .. 100
           /\ (\A d \in JobData[j] : rjData[j][d] # None) => JobScore(j).dc = 100
<1> DEFINE system == JobSystem[j]
           total == Cardinality(JobData[j])
           finished == Cardinality(Finished(j))
           c == ChildSum(j, rjScores[j])[Children(j)]
           share == (100 * finished) \div total
           a == AddDataScore(system, c, total, finished)
<1>1. JobScore(j) = Calculate(system, a)
  <2>1. \A k \in Children(j) : rjScores[j][k] # NoScore BY DEF FullScore, NoScore, MkScore
  <2>2. JobScore(j) = Aggregate(j, rjScores[j], finished)
    BY AggregateDependsOn DEF JobScore
  <2> QED BY <2>1, <2>2 DEF Aggregate
<1>2. FullSum(c) BY SumIsFull
<1>3. /\ total \in Nat /\ finished \in Nat /\ finished <= total
      /\ (\A d \in JobData[j] : rjData[j][d] # None) => finished = total
  BY JobShare
<1> HIDE DEF c
<1>4. CASE total = 0
  <2>1. a = c BY <1>4 DEF AddDataScore
  <2>2. c.dataCompletion \in Nat /\ c.dataCompletion <= 100 * c.dataTotal
    BY <1>2 DEF FullSum
  <2> HIDE DEF a
  <2> QED BY <1>1, <1>2, <2>1, <2>2, CalculatedScore DEF FullSum
<1>5. CASE total # 0
  <2> DEFINE s == MkScore("unscored", 0, 0, share, total, 0)
  <2>1. a = AddData(c, s)
    <3>1. s.type = "unscored" BY DEF MkScore
    <3>2. Add(system, FALSE, c, s, NoImpact) = AddData(c, s) BY <3>1 DEF Add
    <3> QED BY <1>5, <3>2 DEF AddDataScore
  <2>2. share \in 0 .. 100 /\ (finished = total => share = 100)
    <3>1. PICK n \in Nat, m \in Nat : n = finished /\ m = total BY <1>3
    <3>2. m > 0 /\ n <= m BY <1>3, <1>5, <3>1
    <3>3. (100 * n) \div m \in 0 .. 100 /\ ((100 * n) \div m = 100 <=> n = m)
      BY <3>2, FullShare
    <3> QED BY <3>1, <3>3
  <2> HIDE DEF share, total, finished
  <2>3. /\ DOMAIN a = CalcFields /\ a.scoreTotal = c.scoreTotal
        /\ a.scoreCompletion = c.scoreCompletion /\ a.hasResults = c.hasResults
        /\ a.dataTotal = c.dataTotal + total
        /\ a.dataCompletion = c.dataCompletion + share * total
    BY <1>2, <2>1 DEF AddData, FullSum, CalcFields, MkScore
  <2>4. /\ share * total \in Nat /\ share * total <= 100 * total
        /\ finished = total => share * total = 100 * total
    BY <1>3, <2>2
  <2> HIDE DEF a
  <2>5. /\ a.dataTotal \in Nat /\ a.dataCompletion \in Nat
        /\ a.dataCompletion <= 100 * a.dataTotal
        /\ finished = total => a.dataCompletion = 100 * a.dataTotal
    <3>1. PICK p \in Nat : p = share * total BY <2>4
    <3> QED BY <1>2, <1>3, <2>3, <2>4, <3>1 DEF FullSum
  <2> QED BY <1>1, <1>2, <1>3, <2>3, <2>5, CalculatedScore DEF FullSum
<1> QED BY <1>4, <1>5

-----------------------------------------------------------------------------
(* The jobs whose scores also have complete data. *)
Scorable(j) == j \in StaticJobs \/ forwardScore(j) \/ JobSystem[j] \in Systems

(* What a job emits depends on what it holds only. *)
LEMMA AnyJobEmitsKept ==
    ASSUME NEW j \in Jobs, rjScores'[j] = rjScores[j], rjData'[j] = rjData[j]
    PROVE  JobEmits(j)' = JobEmits(j)
<1>1. Finished(j)' = Finished(j) BY DEF Finished
<1>2. ForwardedScore(j, rjScores[j])' = ForwardedScore(j, rjScores[j])
  BY <1>1 DEF ForwardedScore
<1>3. AggregateScore(j, rjScores[j])' = AggregateScore(j, rjScores[j])
  <2>1. /\ AggregateScore(j, rjScores[j]) =
                Aggregate(j, rjScores[j], Cardinality(Finished(j)))
        /\ AggregateScore(j, rjScores[j])' =
                Aggregate(j, rjScores'[j], Cardinality(Finished(j)'))
    BY AggregateDependsOn
  <2> QED BY <1>1, <2>1
<1>4. JobScore(j)' = JobScore(j) BY <1>2, <1>3 DEF JobScore
<1> QED BY <1>4 DEF JobEmits

(* What a job holds for its child c. *)
Sendable(c, s) == FullScore(s) /\ (c[1] = "rj" /\ Scorable(c[2]) => s.dc = 100)

(* A full score is one. *)
LEMMA FullIsAScore == \A s : FullScore(s) => s # NoScore
BY DEF FullScore, NoScore, MkScore

(* A control changes type and value only. *)
LEMMA ControlKeepsFull ==
    ASSUME NEW j, NEW c, NEW s, Sendable(c, s)
    PROVE  Sendable(c, ControlScore(j, s))
BY DEF ControlScore, Sendable, FullScore, ScoreFields

(* So are the scores of queries. *)
LEMMA QueryScoreIsFull == ASSUME NEW r, QueryScore(r) # NoScore, NEW q
    PROVE  Sendable(QueryChild(q), QueryScore(r))
<1>1. PICK type, value : QueryScore(r) = MkScore(type, value, 100, 0, 0, 1)
  BY QueryScoreIs DEF QueryScores
<1> QED BY <1>1 DEF MkScore, Sendable, FullScore, ScoreFields, QueryChild

(* The scores a job holds were sent. *)
ChildrenSendable(j) ==
    \A c \in Children(j) : rjScores[j][c] = NoScore \/ Sendable(c, rjScores[j][c])

AllData(j) == \A d \in JobData[j] : rjData[j][d] # None

(* The score a check, a data query or an execution query forwards. *)
LEMMA ForwardedIs ==
    ASSUME TypeInv, NEW j \in Jobs, forwardScore(j), ChildrenSendable(j)
    PROVE  LET s == JobScore(j)
               c == CHOOSE k \in Children(j) : TRUE
               heard == Children(j) = {} \/ rjScores[j][c] # NoScore
           IN  /\ DOMAIN s = ScoreFields /\ s.dt \in Nat /\ s.dc \in 0 .. 100
               /\ s.sc = IF heard THEN 100 ELSE 0
               /\ JobData[j] # {} => (AllData(j) => s.dc = 100)
               /\ JobData[j] = {} /\ Children(j) = {} => s.dc = 0
               /\ JobData[j] = {} /\ Children(j) # {} /\ heard =>
                    s.dc = rjScores[j][c].dc
<1> DEFINE scores == rjScores[j]
           c == CHOOSE k \in Children(j) : TRUE
           s == scores[c]
           imp == ImpactOf(j, c)
           total == Cardinality(JobData[j])
           finished == Cardinality(Finished(j))
           share == (100 * finished) \div total
           base == IF Children(j) = {} THEN MkScore("unscored", 0, 100, 0, 0, 0)
                   ELSE IF s = NoScore THEN MkScore("result", 0, 0, 0, 0, 0)
                   ELSE IF imp.scoring = "DISABLED" THEN [s EXCEPT !.type = "disabled"]
                   ELSE IF s.type = "result"
                        THEN [s EXCEPT !.value = ImpactFloor(imp, @)] ELSE s
<1>1. JobScore(j) = IF total = 0 THEN base ELSE [base EXCEPT !.dt = total, !.dc = share]
  BY DEF JobScore, ForwardedScore
<1>2. /\ total \in Nat /\ finished \in Nat /\ finished <= total
      /\ AllData(j) => finished = total
      /\ JobData[j] # {} => total > 0
  BY JobShare DEF AllData
<1>3. JobData[j] = {} => total = 0 BY FS_EmptySet
<1>4. total > 0 => share \in 0 .. 100 /\ (finished = total => share = 100)
  <2>1. PICK n \in Nat, m \in Nat : n = finished /\ m = total BY <1>2
  <2>2. n <= m BY <1>2, <2>1
  <2>3. m > 0 => (100 * n) \div m \in 0 .. 100 /\ ((100 * n) \div m = 100 <=> n = m)
    BY <2>2, FullShare
  <2> QED BY <2>1, <2>3
<1>5. /\ DOMAIN base = ScoreFields /\ base.dt \in Nat /\ base.dc \in 0 .. 100
      /\ base.sc = IF Children(j) = {} \/ s # NoScore THEN 100 ELSE 0
      /\ Children(j) = {} => base.dc = 0
      /\ Children(j) # {} /\ s # NoScore => base.dc = s.dc
  <2>1. CASE Children(j) = {} BY <2>1 DEF MkScore, ScoreFields
  <2>2. CASE Children(j) # {} /\ s = NoScore BY <2>2 DEF MkScore, ScoreFields
  <2>3. CASE Children(j) # {} /\ s # NoScore
    <3>1. c \in Children(j) BY <2>3
    <3>2. FullScore(s) BY <2>3, <3>1 DEF ChildrenSendable, Sendable
    <3> HIDE DEF s, imp
    <3>3. base \in {[s EXCEPT !.type = "disabled"],
                    [s EXCEPT !.value = ImpactFloor(imp, @)], s}
      BY <2>3
    <3> QED BY <2>3, <3>2, <3>3 DEF FullScore, ScoreFields
  <2> QED BY <2>1, <2>2, <2>3
<1> HIDE DEF base, share, total, finished
<1>6. CASE total = 0 BY <1>1, <1>2, <1>5, <1>6
<1>7. CASE total # 0
  <2>1. JobScore(j) = [base EXCEPT !.dt = total, !.dc = share] BY <1>1, <1>7
  <2> HIDE DEF s, c
  <2> QED BY <1>2, <1>3, <1>4, <1>5, <1>7, <2>1 DEF ScoreFields, s, c
<1> QED BY <1>6, <1>7

(* Whatever a job sends up is full. *)
LEMMA EmitsFull ==
    ASSUME TypeInv, NEW j \in Jobs \ StaticJobs, ChildrenSendable(j), JobEmits(j) # NoScore
    PROVE  Sendable(JobChild(j), JobEmits(j))
<1> DEFINE s == JobScore(j)
<1>1. CASE ~forwardScore(j) /\ JobSystem[j] \notin Systems
  <2>1. s = MkScore("error", 0, 100, 0, 0, 1)
    BY <1>1 DEF JobScore, AggregateScore
  <2>2. JobEmits(j) = s BY <1>1 DEF JobEmits
  <2>3. ~Scorable(j) BY <1>1 DEF Scorable
  <2> QED BY <2>1, <2>2, <2>3 DEF MkScore, Sendable, FullScore, ScoreFields, JobChild
<1>2. CASE forwardScore(j) \/ JobSystem[j] \in Systems
  <2>1. JobEmits(j) = s /\ Completion(s) = 100 /\ s # NoScore
    BY <1>2 DEF JobEmits
  <2>2. /\ DOMAIN s = ScoreFields /\ s.dt \in Nat /\ s.dc \in 0 .. 100
        /\ s.sc \in {0, 100}
    <3>1. CASE forwardScore(j) BY <3>1, ForwardedIs
    <3>2. CASE ~forwardScore(j)
      <4>1. JobSystem[j] \in Systems BY <1>2, <3>2
      <4>2. s = AggregateScore(j, rjScores[j]) BY <3>2 DEF JobScore
      <4>3. \A c \in Children(j) : rjScores[j][c] # NoScore
        <5> SUFFICES ASSUME NEW c \in Children(j), rjScores[j][c] = NoScore
                     PROVE  FALSE
          OBVIOUS
        <5>1. s = Aggregate(j, rjScores[j], Cardinality(Finished(j)))
          BY <4>2, AggregateDependsOn
        <5>2. s = NoScore BY <4>1, <5>1 DEF Aggregate
        <5> QED BY <2>1, <5>2
      <4>4. \A c \in Children(j) : FullScore(rjScores[j][c])
        BY <4>3 DEF ChildrenSendable, Sendable
      <4> QED BY <3>2, <4>1, <4>4, AggregateIsFull
    <3> QED BY <3>1, <3>2
  <2>3. s.sc = 100 /\ s.dc = 100
    <3>1. (s.dc + s.sc) \div 2 = 100 BY <2>1 DEF Completion
    <3> QED BY <2>2, <3>1
  <2> HIDE DEF s
  <2> QED BY <2>1, <2>2, <2>3 DEF Sendable, FullScore
<1> QED BY <1>1, <1>2

(* A job that has heard of all its children and has all its data has a score. *)
LEMMA EmitsWhenReady ==
    ASSUME TypeInv, JobsCanFinish, NEW j \in Jobs \ StaticJobs, ChildrenSendable(j),
           AllData(j), \A c \in Children(j) : rjScores[j][c] # NoScore
    PROVE  JobEmits(j) # NoScore
<1> DEFINE s == JobScore(j)
<1>1. CASE ~forwardScore(j) /\ JobSystem[j] \notin Systems
  <2>1. s = MkScore("error", 0, 100, 0, 0, 1)
    BY <1>1 DEF JobScore, AggregateScore
  <2>2. JobEmits(j) = s BY <1>1 DEF JobEmits
  <2> QED BY <2>1, <2>2 DEF MkScore, NoScore
<1>2. ASSUME forwardScore(j) \/ JobSystem[j] \in Systems, s.sc = 100, s.dc = 100
      PROVE  JobEmits(j) # NoScore
  <2>1. s # NoScore BY <1>2 DEF NoScore, MkScore
  <2>2. Completion(s) = 100 BY <1>2 DEF Completion
  <2> QED BY <1>2, <2>1, <2>2 DEF JobEmits
<1>3. CASE ~forwardScore(j) /\ JobSystem[j] \in Systems
  <2>1. \A c \in Children(j) : FullScore(rjScores[j][c])
    BY DEF ChildrenSendable, Sendable
  <2>2. s.sc = 100 /\ s.dc = 100 BY <1>3, <2>1, AggregateIsFull DEF AllData
  <2> QED BY <1>2, <1>3, <2>2
<1>4. CASE forwardScore(j)
  <2> DEFINE c == CHOOSE k \in Children(j) : TRUE
  <2>1. Children(j) # {} => c \in Children(j) OBVIOUS
  <2>2. s.sc = 100 BY <1>4, <2>1, ForwardedIs
  <2>3. CASE JobData[j] # {} BY <1>2, <1>4, <2>2, <2>3, ForwardedIs
  <2>4. CASE JobData[j] = {}
    <3>1. c \in Children(j) /\ (Rescore \/ JobQuery[j] = {})
          /\ \A k \in ChildJobs[j] : Scorable(k)
      BY <1>4, <2>1, <2>4 DEF JobsCanFinish, Scorable
    <3>2. PICK k \in ChildJobs[j] : c = JobChild(k) BY <3>1 DEF Children
    <3>3. Sendable(c, rjScores[j][c]) BY <3>1 DEF ChildrenSendable
    <3>4. rjScores[j][c].dc = 100
      <4> HIDE DEF c
      <4>1. c[1] = "rj" /\ c[2] = k BY <3>2 DEF JobChild
      <4> QED BY <3>1, <3>3, <4>1 DEF Sendable
    <3>5. s.dc = rjScores[j][c].dc BY <1>4, <2>4, <3>1, ForwardedIs
    <3> QED BY <1>2, <1>4, <2>2, <3>4, <3>5
  <2> QED BY <2>3, <2>4
<1> QED BY <1>1, <1>3, <1>4

-----------------------------------------------------------------------------
(***************************************************************************)
(* The flow of scores.  A job holds the scores that its child jobs and its *)
(* queries have sent; it is completed or waits for its turn when these     *)
(* give it a score, and it is not completed before it has sent one.        *)
(***************************************************************************)
JobSent(j) == LastScore(JobChild(j)) # NoScore

JobFlow(j) ==
    /\ ChildrenSendable(j)
    /\ \A k \in ChildJobs[j] : JobSent(k) => rjScores[j][JobChild(k)] # NoScore
    /\ \A q \in GraphQueries : QueryChild(q) \in Children(j) =>
         rqInvalidated[q] \/ QueryScore(rqResults[q]) = NoScore
                          \/ rjScores[j][QueryChild(q)] # NoScore
    /\ rjInvalidated[j] \/ rjCompleted[j] \/ JobEmits(j) = NoScore
    /\ rjCompleted[j] => JobSent(j)

JobsInv == JobScoresKeyed /\ \A j \in Jobs \ StaticJobs : JobFlow(j)

(* Initially nothing has been sent. *)
LEMMA JobsInit == Init => JobsInv
<1> SUFFICES ASSUME Init PROVE JobsInv OBVIOUS
<1>1. JobScoresKeyed BY DEF Init, JobScoresKeyed
<1>2. ASSUME NEW j \in Jobs PROVE JobFlow(j)
  <2>1. \A c \in Children(j) : rjScores[j][c] = NoScore BY DEF Init
  <2>2. \A k \in Jobs : ~JobSent(k)
    BY DEF Init, JobSent, LastScore, ScoreNodes
  <2>3. rjInvalidated[j] /\ ~rjCompleted[j] BY DEF Init
  <2>4. \A k \in ChildJobs[j] : k \in Jobs BY GraphAssumption
  <2>5. ASSUME NEW q \in GraphQueries
        PROVE  rqInvalidated[q] \/ QueryScore(rqResults[q]) = NoScore
    <3>1. CASE Entrypoints[q] = {} BY <3>1 DEF Init
    <3>2. CASE Entrypoints[q] # {}
      <4>1. rqResults[q] = [d \in Entrypoints[q] |-> None] BY DEF Init
      <4>2. None \in {rqResults[q][d] : d \in DOMAIN rqResults[q]} BY <3>2, <4>1
      <4> QED BY <4>2 DEF QueryScore
    <3> QED BY <3>1, <3>2
  <2> QED BY <2>1, <2>2, <2>3, <2>4, <2>5 DEF JobFlow, ChildrenSendable
<1> QED BY <1>1, <1>2 DEF JobsInv

(* A step that sends no score, wakes the query or the job whose results change. *)
LEMMA FlowKept ==
    ASSUME NEW j \in Jobs, JobFlow(j), rjScores'[j] = rjScores[j],
           \A q \in GraphQueries :
               \/ rqInvalidated'[q]
               \/ /\ QueryScore(rqResults[q])' = QueryScore(rqResults[q])
                  /\ rqInvalidated[q] => QueryScore(rqResults[q]) = NoScore,
           \/ rjInvalidated'[j]
           \/ rjData'[j] = rjData[j] /\ rjInvalidated'[j] = rjInvalidated[j]
                /\ rjCompleted'[j] = rjCompleted[j]
           \/ rjData'[j] = rjData[j] /\ JobEmits(j) = NoScore,
           rjCompleted'[j] => rjCompleted[j],
           \A k \in Jobs : LastScore(JobChild(k))' = LastScore(JobChild(k))
    PROVE  JobFlow(j)'
<1>1. \A k \in Jobs : JobSent(k)' = JobSent(k) BY DEF JobSent
<1>2. ChildJobs[j] \subseteq Jobs BY GraphAssumption
<1>3. rjData'[j] = rjData[j] => JobEmits(j)' = JobEmits(j) BY AnyJobEmitsKept
<1>4. ChildrenSendable(j)' BY DEF JobFlow, ChildrenSendable
<1>5. \A q \in GraphQueries : QueryChild(q) \in Children(j) =>
         rqInvalidated'[q] \/ QueryScore(rqResults[q])' = NoScore
                           \/ rjScores'[j][QueryChild(q)] # NoScore
  BY DEF JobFlow
<1>6. rjInvalidated'[j] \/ rjCompleted'[j] \/ JobEmits(j)' = NoScore
  BY <1>3 DEF JobFlow
<1> QED BY <1>1, <1>2, <1>4, <1>5, <1>6 DEF JobFlow

(* A score that is sent reaches the jobs above and wakes them up. *)
LEMMA SentScoreFlows ==
    ASSUME ScoresKeyed, JobScoresKeyed, NEW m \in ScoreNodes, NEW s, Sendable(m, s),
           NEW invalidated, JobsConsumeScore(m, s, invalidated),
           ScoreCollectorConsume(m, s), NEW j \in Jobs \ StaticJobs, JobFlow(j),
           rjData' = rjData, rqResults' = rqResults,
           \A q \in GraphQueries : QueryChild(q) # m => rqInvalidated'[q] = rqInvalidated[q],
           rjCompleted[j] => rjCompleted'[j],
           rjCompleted'[j] => rjCompleted[j] \/ JobChild(j) = m,
           rjInvalidated[j] => invalidated[j] \/ rjCompleted'[j]
    PROVE  JobFlow(j)'
<1>1. /\ rjScores'[j] = IF m \in Children(j)
                        THEN [rjScores[j] EXCEPT ![m] = ControlScore(j, s)]
                        ELSE rjScores[j]
      /\ m \in Children(j) => rjInvalidated'[j]
      /\ invalidated[j] => rjInvalidated'[j]
  BY DEF JobsConsumeScore, Receivers
<1>2. DOMAIN rjScores[j] = Children(j) BY DEF JobScoresKeyed
<1>3. Sendable(m, ControlScore(j, s)) /\ ControlScore(j, s) # NoScore /\ s # NoScore
  <2>1. Sendable(m, ControlScore(j, s)) BY ControlKeepsFull
  <2> QED BY <2>1, FullIsAScore DEF Sendable
<1>4. ASSUME NEW c \in Children(j)
      PROVE  rjScores'[j][c] = IF c = m THEN ControlScore(j, s) ELSE rjScores[j][c]
  BY <1>1, <1>2, <1>4
<1>5. ChildrenSendable(j)' BY <1>3, <1>4 DEF JobFlow, ChildrenSendable
<1>6. ASSUME NEW n \in ScoreNodes, n # m PROVE LastScore(n)' = LastScore(n)
  BY <1>6, OtherScores
<1>7. ASSUME NEW k \in ChildJobs[j], JobSent(k)' PROVE rjScores'[j][JobChild(k)] # NoScore
  <2>1. JobChild(k) \in Children(j) /\ JobChild(k) \in ScoreNodes
    BY GraphAssumption DEF Children, ScoreNodes
  <2>2. CASE JobChild(k) = m BY <1>3, <1>4, <2>1, <2>2
  <2>3. CASE JobChild(k) # m
    <3>1. JobSent(k) BY <1>6, <1>7, <2>1, <2>3 DEF JobSent
    <3> QED BY <1>4, <2>1, <2>3, <3>1 DEF JobFlow
  <2> QED BY <2>2, <2>3
<1>8. ASSUME NEW q \in GraphQueries, QueryChild(q) \in Children(j)
      PROVE  rqInvalidated'[q] \/ QueryScore(rqResults[q])' = NoScore
                               \/ rjScores'[j][QueryChild(q)] # NoScore
  <2>1. QueryScore(rqResults[q])' = QueryScore(rqResults[q]) BY DEF QueryScore
  <2> QED BY <1>3, <1>4, <1>8, <2>1 DEF JobFlow
<1>9. rjInvalidated'[j] \/ rjCompleted'[j] \/ JobEmits(j)' = NoScore
  <2>1. m \notin Children(j) => JobEmits(j)' = JobEmits(j) BY <1>1, AnyJobEmitsKept
  <2> QED BY <1>1, <2>1 DEF JobFlow
<1>10. rjCompleted'[j] => JobSent(j)'
  <2>1. JobChild(j) \in ScoreNodes BY DEF ScoreNodes
  <2>2. CASE JobChild(j) # m BY <1>6, <2>1, <2>2 DEF JobFlow, JobSent
  <2>3. CASE JobChild(j) = m
    <3>1. CollectedScore(m) BY <2>3 DEF CollectedScore, JobChild
    <3>2. scUnreported'[m] = s BY <3>1 DEF ScoreCollectorConsume, ScoresKeyed
    <3> QED BY <1>3, <2>3, <3>2 DEF JobSent, LastScore
  <2> QED BY <2>2, <2>3
<1> QED BY <1>5, <1>7, <1>8, <1>9, <1>10 DEF JobFlow

(* A datapoint wakes the queries and reopens the jobs whose results it changes. *)
LEMMA DatapointFlows ==
    ASSUME TypeInv, NEW item \in queue, RecalculateDatapoint(item),
           NEW j \in Jobs, JobFlow(j)
    PROVE  JobFlow(j)'
<1> DEFINE d == item[1][2]
<1>1. \A k \in Jobs : LastScore(JobChild(k))' = LastScore(JobChild(k))
  BY DEF RecalculateDatapoint, LastScore, nodeVars, colVars
<1>2. rjInvalidated[j] \in BOOLEAN /\ rjCompleted[j] \in BOOLEAN
  BY DEF TypeInv, TypeOK, JobsTyped
<1>3. rjScores'[j] = rjScores[j]
  BY DEF RecalculateDatapoint, JobsConsumeData, nodeVars, rjVars
<1>4. ASSUME NEW q \in GraphQueries
      PROVE  \/ rqInvalidated'[q]
             \/ /\ QueryScore(rqResults[q])' = QueryScore(rqResults[q])
                /\ rqInvalidated[q] => QueryScore(rqResults[q]) = NoScore
  <2>1. \/ rqInvalidated'[q]
        \/ rqResults'[q] = rqResults[q] /\ rqInvalidated'[q] = rqInvalidated[q]
    <3>1. CASE dpInvalidated[d]
      <4>1. ReportingQueriesConsume(d, dpRes[d]) BY <3>1 DEF RecalculateDatapoint
      <4>2. rqInvalidated'[q] = (rqInvalidated[q] \/ rqResults'[q] # rqResults[q])
        BY <4>1 DEF ReportingQueriesConsume
      <4> QED BY <4>2, <1>4 DEF TypeInv, TypeOK, ReportingQueriesTyped
    <3>2. CASE ~dpInvalidated[d]
      BY <3>2 DEF RecalculateDatapoint, nodeVars, rqVars
    <3> QED BY <3>1, <3>2
  <2>2. rqResults'[q] = rqResults[q] =>
           QueryScore(rqResults[q])' = QueryScore(rqResults[q])
    BY DEF QueryScore
  <2> QED BY <2>1, <2>2
<1>5. /\ \/ rjInvalidated'[j]
         \/ rjData'[j] = rjData[j] /\ rjInvalidated'[j] = rjInvalidated[j]
              /\ rjCompleted'[j] = rjCompleted[j]
      /\ rjCompleted'[j] => rjCompleted[j]
  <2>1. CASE dpInvalidated[d]
    <3>1. JobsConsumeData(d, dpRes[d]) BY <2>1 DEF RecalculateDatapoint
    <3>2. /\ rjInvalidated'[j] = (rjInvalidated[j] \/ rjData'[j] # rjData[j])
          /\ rjCompleted'[j] = (rjCompleted[j] /\ rjData'[j] = rjData[j])
      BY <3>1 DEF JobsConsumeData
    <3> QED BY <1>2, <3>2
  <2>2. CASE ~dpInvalidated[d] BY <2>2 DEF RecalculateDatapoint, nodeVars, rjVars
  <2> QED BY <2>1, <2>2
<1> QED BY <1>1, <1>3, <1>4, <1>5, FlowKept

(* A step that changes neither queries nor jobs nor the last scores. *)
LEMMA NothingFlows ==
    ASSUME NEW j \in Jobs, JobFlow(j), UNCHANGED <<rqVars, rjVars>>,
           \A k \in Jobs : LastScore(JobChild(k))' = LastScore(JobChild(k))
    PROVE  JobFlow(j)'
<1>1. /\ rjScores'[j] = rjScores[j] /\ rjData'[j] = rjData[j]
      /\ rjCompleted'[j] = rjCompleted[j] /\ rjInvalidated'[j] = rjInvalidated[j]
  BY DEF rjVars
<1>2. JobEmits(j)' = JobEmits(j) BY <1>1, AnyJobEmitsKept
<1>3. \A q \in GraphQueries : QueryScore(rqResults[q])' = QueryScore(rqResults[q])
  BY DEF QueryScore, rqVars
<1>4. \A k \in Jobs : JobSent(k)' = JobSent(k) BY DEF JobSent
<1>5. ChildJobs[j] \subseteq Jobs BY GraphAssumption
<1>6. ChildrenSendable(j)' BY <1>1 DEF JobFlow, ChildrenSendable
<1>7. UNCHANGED rqInvalidated BY DEF rqVars
<1> QED BY <1>1, <1>2, <1>3, <1>4, <1>5, <1>6, <1>7 DEF JobFlow

(* A query's score reaches the jobs that report it. *)
LEMMA QueryFlows ==
    ASSUME TypeInv, ScoresKeyed, JobScoresKeyed, NEW item \in queue,
           RecalculateReportingQuery(item), NEW j \in Jobs \ StaticJobs, JobFlow(j)
    PROVE  JobFlow(j)'
<1> DEFINE p == item[1][2]
           s == QueryScore(rqResults[p])
<1>1. p \in GraphQueries /\ item[1] = QueryChild(p)
  BY NodeKinds DEF RecalculateReportingQuery, TypeInv, TypeOK, LoopTyped
<1>2. UNCHANGED <<rqResults, rjData, rjCompleted>> BY DEF RecalculateReportingQuery
<1>3. rqInvalidated \in [GraphQueries -> BOOLEAN]
  BY DEF TypeInv, TypeOK, ReportingQueriesTyped
<1>4. \A q \in GraphQueries : q # p => rqInvalidated'[q] = rqInvalidated[q]
  BY <1>1, <1>3 DEF RecalculateReportingQuery
<1>5. item[1] \in ScoreNodes /\ \A k \in Jobs : JobChild(k) # item[1]
                             /\ JobChild(k) \in ScoreNodes
  BY <1>1 DEF ScoreNodes, GraphQueries, QueryChild, JobChild
<1>6. CASE rqInvalidated[p] /\ s # NoScore
  <2>1. /\ JobsConsumeScore(item[1], s, rjInvalidated)
        /\ ScoreCollectorConsume(item[1], s)
    BY <1>6 DEF RecalculateReportingQuery
  <2>2. Sendable(item[1], s) BY <1>1, <1>6, QueryScoreIsFull
  <2>3. \A q \in GraphQueries : QueryChild(q) # item[1] =>
           rqInvalidated'[q] = rqInvalidated[q]
    BY <1>1, <1>4
  <2> HIDE DEF s
  <2> QED BY <1>2, <1>5, <2>1, <2>2, <2>3, SentScoreFlows
<1>7. CASE ~rqInvalidated[p] \/ s = NoScore
  <2>1. UNCHANGED <<rjScores, rjInvalidated, colVars>>
    BY <1>7 DEF RecalculateReportingQuery
  <2>2. \A k \in Jobs : LastScore(JobChild(k))' = LastScore(JobChild(k))
    BY <2>1 DEF LastScore, colVars
  <2>3. \A q \in GraphQueries : QueryScore(rqResults[q])' = QueryScore(rqResults[q])
    BY <1>2 DEF QueryScore
  <2>4. ~rqInvalidated[p] => UNCHANGED rqInvalidated
    BY <1>1, <1>3 DEF RecalculateReportingQuery
  <2>5. /\ rjScores'[j] = rjScores[j] /\ rjData'[j] = rjData[j]
        /\ rjCompleted'[j] = rjCompleted[j] /\ rjInvalidated'[j] = rjInvalidated[j]
    BY <1>2, <2>1
  <2>6. JobEmits(j)' = JobEmits(j) BY <2>5, AnyJobEmitsKept
  <2>7. \A k \in Jobs : JobSent(k)' = JobSent(k) BY <2>2 DEF JobSent
  <2>8. ChildJobs[j] \subseteq Jobs BY GraphAssumption
  <2>9. ChildrenSendable(j)' BY <2>5 DEF JobFlow, ChildrenSendable
  <2>10. ASSUME NEW q \in GraphQueries, QueryChild(q) \in Children(j)
         PROVE  rqInvalidated'[q] \/ QueryScore(rqResults[q])' = NoScore
                                  \/ rjScores'[j][QueryChild(q)] # NoScore
    <3>1. CASE q # p BY <1>4, <2>3, <2>5, <2>10, <3>1 DEF JobFlow
    <3>2. CASE q = p BY <1>7, <2>3, <2>4, <2>5, <2>10, <3>2 DEF JobFlow
    <3> QED BY <3>1, <3>2
  <2> QED BY <2>5, <2>6, <2>7, <2>8, <2>9, <2>10 DEF JobFlow
<1> QED BY <1>6, <1>7

(* A job's score reaches the jobs above it. *)
LEMMA JobFlows ==
    ASSUME TypeInv, ScoresKeyed, JobScoresKeyed, NEW item \in queue,
           RecalculateReportingJob(item), \A k \in Jobs \ StaticJobs : JobFlow(k),
           NEW j \in Jobs \ StaticJobs
    PROVE  JobFlow(j)'
<1> DEFINE k == item[1][2]
           s == JobEmits(k)
           cleared == [rjInvalidated EXCEPT ![k] = FALSE]
<1>1. k \in Jobs \ StaticJobs /\ item[1] = JobChild(k)
  BY NodeKinds DEF RecalculateReportingJob, TypeInv, TypeOK, LoopTyped
<1>2. UNCHANGED <<rqResults, rqInvalidated, rjData>>
  BY DEF RecalculateReportingJob, rqVars
<1>3. rjInvalidated \in [Jobs -> BOOLEAN] /\ rjCompleted \in [Jobs -> BOOLEAN]
  BY DEF TypeInv, TypeOK, JobsTyped
<1>4. item[1] \in ScoreNodes BY <1>1 DEF ScoreNodes
<1>5. CASE rjInvalidated[k] /\ ~rjCompleted[k] /\ s # NoScore
  <2>1. /\ JobsConsumeScore(item[1], s, cleared)
        /\ ScoreCollectorConsume(item[1], s)
        /\ rjCompleted' = [rjCompleted EXCEPT ![k] = TRUE]
    BY <1>5 DEF RecalculateReportingJob
  <2>2. Sendable(item[1], s) BY <1>1, <1>5, EmitsFull DEF JobFlow
  <2>3. /\ rjCompleted[j] => rjCompleted'[j]
        /\ rjCompleted'[j] => rjCompleted[j] \/ JobChild(j) = item[1]
        /\ rjInvalidated[j] => cleared[j] \/ rjCompleted'[j]
    BY <1>1, <1>3, <2>1
  <2>4. JobFlow(j) OBVIOUS
  <2> HIDE DEF s, cleared
  <2> QED BY <1>2, <1>4, <2>1, <2>2, <2>3, <2>4, SentScoreFlows
<1>6. CASE ~rjInvalidated[k] \/ rjCompleted[k] \/ s = NoScore
  <2>1. UNCHANGED <<rjScores, rjCompleted, colVars>>
    BY <1>6 DEF RecalculateReportingJob
  <2>2. \A i \in Jobs : LastScore(JobChild(i))' = LastScore(JobChild(i))
    BY <2>1 DEF LastScore, colVars
  <2>3. \/ rjInvalidated'[j] = rjInvalidated[j]
        \/ JobEmits(j) = NoScore
    <3>1. CASE j = k /\ rjInvalidated[k] /\ ~rjCompleted[k] BY <1>6, <3>1
    <3>2. CASE j # k \/ ~rjInvalidated[k] \/ rjCompleted[k]
      BY <1>1, <1>3, <1>6, <3>2 DEF RecalculateReportingJob
    <3> QED BY <3>1, <3>2
  <2>5. /\ rjScores'[j] = rjScores[j] /\ rjData'[j] = rjData[j]
        /\ rjCompleted'[j] = rjCompleted[j]
    BY <1>2, <2>1
  <2>6. JobEmits(j)' = JobEmits(j) BY <2>5, AnyJobEmitsKept
  <2>7. \A i \in Jobs : JobSent(i)' = JobSent(i) BY <2>2 DEF JobSent
  <2>8. ChildJobs[j] \subseteq Jobs BY GraphAssumption
  <2>9. ChildrenSendable(j)' BY <2>5 DEF JobFlow, ChildrenSendable
  <2>10. \A q \in GraphQueries : QueryScore(rqResults[q])' = QueryScore(rqResults[q])
    BY <1>2 DEF QueryScore
  <2>11. JobFlow(j) OBVIOUS
  <2> HIDE DEF s
  <2> QED BY <1>2, <2>3, <2>5, <2>6, <2>7, <2>8, <2>9, <2>10, <2>11 DEF JobFlow
<1> QED BY <1>5, <1>6

(* A supplied score reaches the jobs above it. *)
LEMMA StaticFlows ==
    ASSUME SuppliedScoresTyped, TypeInv, ScoresKeyed, JobScoresKeyed, NEW item \in queue,
           RecalculateStatic(item), NEW j \in Jobs \ StaticJobs, JobFlow(j)
    PROVE  JobFlow(j)'
<1> DEFINE k == item[1][2]
           s == StaticScore(k)
<1>1. k \in StaticJobs /\ item[1] = JobChild(k) /\ k \in Jobs
  BY NodeKinds DEF RecalculateStatic, TypeInv, TypeOK, LoopTyped
<1>2. UNCHANGED <<rqResults, rqInvalidated, rjData, rjCompleted>>
  BY DEF RecalculateStatic, rqVars
<1>3. item[1] \in ScoreNodes BY <1>1 DEF ScoreNodes
<1>4. CASE k \notin staticSent
  <2>1. /\ JobsConsumeScore(item[1], s, rjInvalidated)
        /\ ScoreCollectorConsume(item[1], s)
    BY <1>4 DEF RecalculateStatic
  <2>2. Sendable(item[1], s)
    <3>1. DOMAIN SuppliedScore[k] = ScoreFields /\ SuppliedScore[k].dt \in Nat
      BY <1>1 DEF SuppliedScoresTyped, NoScore, MkScore, ScoreFields
    <3> QED BY <3>1 DEF StaticScore, Sendable, FullScore, ScoreFields
  <2> HIDE DEF s
  <2> QED BY <1>2, <1>3, <2>1, <2>2, SentScoreFlows
<1>5. CASE k \in staticSent
  <2>1. UNCHANGED <<rjScores, rjInvalidated, colVars>>
    BY <1>5 DEF RecalculateStatic
  <2>2. \A i \in Jobs : LastScore(JobChild(i))' = LastScore(JobChild(i))
    BY <2>1 DEF LastScore, colVars
  <2> QED BY <1>2, <2>1, <2>2, NothingFlows DEF rqVars, rjVars
<1> QED BY <1>4, <1>5

(* No step interrupts the flow. *)
LEMMA JobsStep ==
    SuppliedScoresTyped /\ TypeInv /\ ScoresKeyed /\ JobsInv /\ [Next]_vars => JobsInv'
<1> SUFFICES ASSUME SuppliedScoresTyped, TypeInv, ScoresKeyed, JobsInv, [Next]_vars
             PROVE  JobsInv'
  OBVIOUS
<1> USE DEF JobsInv
<1>1. CASE ProcessQueue
  <2>1. PICK item \in queue : Recalculate(item) BY <1>1 DEF ProcessQueue
  <2>2. JobScoresKeyed'
    <3>1. \/ rjScores' = rjScores
          \/ \E s, invalidated : JobsConsumeScore(item[1], s, invalidated)
      <4>1. CASE RecalculateDatapoint(item) \/ RecalculateExecutionQuery(item)
        BY <4>1 DEF RecalculateDatapoint, RecalculateExecutionQuery, JobsConsumeData,
           nodeVars, rjVars
      <4>2. CASE \/ RecalculateReportingQuery(item) \/ RecalculateReportingJob(item)
                 \/ RecalculateStatic(item)
        BY <4>2 DEF RecalculateReportingQuery, RecalculateReportingJob, RecalculateStatic
      <4>3. CASE \/ RecalculateFinisher(item) \/ RecalculateDatapointCollector(item)
                 \/ RecalculateScoreCollector(item)
        BY <4>3 DEF RecalculateFinisher, RecalculateDatapointCollector,
           RecalculateScoreCollector, rjVars
      <4> QED BY <2>1, <4>1, <4>2, <4>3 DEF Recalculate
    <3> QED BY <3>1, ScoreKeysKept
  <2>3. ASSUME NEW j \in Jobs \ StaticJobs PROVE JobFlow(j)'
    <3>1. JobFlow(j) OBVIOUS
    <3>2. CASE \/ RecalculateExecutionQuery(item) \/ RecalculateFinisher(item)
               \/ RecalculateDatapointCollector(item)
      <4>1. UNCHANGED <<rqVars, rjVars, scUnreported, sunkScores>>
        BY <3>2 DEF RecalculateExecutionQuery, RecalculateFinisher,
           RecalculateDatapointCollector, colVars
      <4>2. \A k \in Jobs : LastScore(JobChild(k))' = LastScore(JobChild(k))
        BY <4>1 DEF LastScore
      <4> QED BY <3>1, <4>1, <4>2, NothingFlows
    <3>3. CASE RecalculateScoreCollector(item)
      <4>1. UNCHANGED <<rqVars, rjVars>> BY <3>3 DEF RecalculateScoreCollector
      <4>2. \A k \in Jobs : JobChild(k) \in ScoreNodes BY DEF ScoreNodes
      <4>3. \A k \in Jobs : LastScore(JobChild(k))' = LastScore(JobChild(k))
        BY <3>3, <4>2 DEF RecalculateScoreCollector, LastScore
      <4> QED BY <3>1, <4>1, <4>3, NothingFlows
    <3>4. CASE RecalculateDatapoint(item) BY <3>1, <3>4, DatapointFlows
    <3>5. CASE RecalculateReportingQuery(item) BY <3>1, <3>5, QueryFlows
    <3>6. CASE RecalculateReportingJob(item) BY <3>6, JobFlows
    <3>7. CASE RecalculateStatic(item) BY <3>1, <3>7, StaticFlows
    <3> QED BY <2>1, <3>2, <3>3, <3>4, <3>5, <3>6, <3>7 DEF Recalculate
  <2> QED BY <2>2, <2>3
<1>2. CASE UNCHANGED <<rqVars, rjVars, colVars>>
  <2>1. JobScoresKeyed' BY <1>2 DEF JobScoresKeyed, rjVars
  <2>2. \A k \in Jobs : LastScore(JobChild(k))' = LastScore(JobChild(k))
    BY <1>2 DEF LastScore, colVars
  <2> QED BY <1>2, <2>1, <2>2, NothingFlows
<1>3. CASE GraphLoop /\ ~ProcessQueue
  BY <1>2, <1>3 DEF GraphLoop, RoundEnds, ReceiveResult, ReceiveDone, ReceiveError,
     DrainEnds, Stop, Return, nodeVars
<1>4. CASE ExecutionManager \/ Engine
  BY <1>2, <1>4 DEF ExecutionManager, Engine, CheckStop, SelectStop, Dequeue,
     BundleDone, BundleFails, Broadcast, Callback, SendResult, nodeVars
<1>5. CASE UNCHANGED vars BY <1>2, <1>5 DEF vars, nodeVars
<1> QED BY <1>1, <1>3, <1>4, <1>5 DEF Next, Terminated

(***************************************************************************)
(* From the leaves up: when every query has its score and every job that   *)
(* heard of all its children had its turn, every job has sent its score.   *)
(* A job that has not would have a child further down that has not either. *)
(***************************************************************************)
LEMMA EveryJobSends ==
    ASSUME Acyclic, JobsCanFinish, TypeInv, \A j \in Jobs \ StaticJobs : JobFlow(j),
           \A j \in StaticJobs : JobSent(j),
           \A q \in GraphQueries :
               ~rqInvalidated[q] /\ QueryScore(rqResults[q]) # NoScore,
           \A j \in Jobs \ StaticJobs :
               /\ AllData(j)
               /\ (\A c \in Children(j) : rjScores[j][c] # NoScore)
                    => ~rjInvalidated[j] \/ rjCompleted[j]
    PROVE  \A j \in Jobs : JobSent(j)
<1> SUFFICES ASSUME NEW i \in Jobs, ~JobSent(i) PROVE FALSE OBVIOUS
<1> DEFINE Silent == {j \in Jobs : ~JobSent(j)}
           Num(j) == priorityMap[JobChild(j)]
           W == {Num(j) : j \in Silent}
<1>1. PrioritiesOrdered BY PrioritiesFollowEdges
<1>2. \A j \in Jobs : JobChild(j) \in Nodes BY DEF Nodes
<1>3. \A j \in Jobs : Num(j) \in 0 .. Cardinality(Nodes) BY <1>1, <1>2 DEF PrioritiesOrdered
<1>4. Cardinality(Nodes) \in Nat BY NodesFinite, FS_CardinalityType
<1>5. PICK x \in W : \A y \in W : y <= x
  <2>1. W \subseteq 0 .. Cardinality(Nodes) /\ W # {} BY <1>3
  <2>2. IsFiniteSet(0 .. Cardinality(Nodes)) BY <1>4, FS_Interval
  <2>3. IsFiniteSet(W) /\ W \subseteq Nat BY <1>4, <2>1, <2>2, FS_Subset
  <2> HIDE DEF W
  <2> QED BY <2>1, <2>3, LargestNumber
<1>6. PICK j \in Silent : x = Num(j) BY <1>5
<1>7. j \in Jobs \ StaticJobs BY <1>6
<1>8. ASSUME NEW k \in ChildJobs[j] PROVE JobSent(k)
  <2>1. k \in Jobs BY <1>7, GraphAssumption
  <2>2. JobChild(k) \in Children(j) BY DEF Children
  <2>3. JobChild(j) \in Edges(JobChild(k))
    BY <1>7, <2>2 DEF Edges, ParentJobs, JobChild
  <2>4. Num(j) < Num(k) BY <1>1, <1>2, <2>1, <2>3 DEF PrioritiesOrdered
  <2>5. Num(j) \in Int /\ Num(k) \in Int BY <1>3, <1>7, <2>1, <1>4
  <2>6. ~JobSent(k) => Num(k) <= Num(j) BY <1>5, <1>6, <2>1
  <2> HIDE DEF Num
  <2> QED BY <2>4, <2>5, <2>6
<1>9. ASSUME NEW c \in Children(j) PROVE rjScores[j][c] # NoScore
  <2>1. CASE \E k \in ChildJobs[j] : c = JobChild(k) BY <1>7, <1>8, <2>1 DEF JobFlow
  <2>2. CASE ~\E k \in ChildJobs[j] : c = JobChild(k)
    <3>1. PICK q \in IF Rescore THEN {} ELSE JobQuery[j] : c = QueryChild(q)
      BY <2>2 DEF Children
    <3>2. q \in GraphQueries BY <1>7, <3>1, GraphAssumption DEF GraphQueries
    <3> QED BY <1>7, <3>1, <3>2 DEF JobFlow
  <2> QED BY <2>1, <2>2
<1>10. JobEmits(j) # NoScore BY <1>7, <1>9, EmitsWhenReady DEF JobFlow
<1>11. rjCompleted[j] BY <1>7, <1>9, <1>10 DEF JobFlow
<1> QED BY <1>6, <1>7, <1>11 DEF JobFlow

(* The invariant behind the flow of scores. *)
LEMMA JobsInvariant ==
    SuppliedScoresTyped => (Spec => [](LoopInv /\ JobsInv))
<1> SUFFICES ASSUME SuppliedScoresTyped PROVE Spec => [](LoopInv /\ JobsInv)
  OBVIOUS
<1>1. LoopInv /\ JobsInv /\ [Next]_vars => JobsInv'
  BY JobsStep DEF LoopInv, WorkInv
<1> QED BY <1>1, JobsInit, LoopInvariant, PTL DEF Spec

(***************************************************************************)
(* When Execute returns without an error, every collected datapoint and    *)
(* every reporting job has been handed to the collectors.                  *)
(***************************************************************************)
THEOREM ReturnIsComplete ==
    ~Rescore /\ Acyclic /\ JobsCanFinish /\ CollectedDatapoints \subseteq GraphDatapoints
      => (Spec => []CleanReturnIsComplete)
<1> SUFFICES ASSUME ~Rescore, Acyclic, JobsCanFinish,
                    CollectedDatapoints \subseteq GraphDatapoints
             PROVE  Spec => []CleanReturnIsComplete
  OBVIOUS
<1>1. SuppliedScoresTyped /\ StaticJobs = {} BY DEF SuppliedScoresTyped, StaticJobs
<1>2. LoopInv /\ JobsInv /\ DataDelivered => CleanReturnIsComplete
  <2> SUFFICES ASSUME LoopInv, JobsInv, DataDelivered, pc = "returned", ~err
               PROVE  /\ \A d \in CollectedDatapoints :
                            sunkData[d] = dpRes[d] /\ sunkData[d] # None
                      /\ \A j \in Jobs : sunkScores[JobChild(j)] # NoScore
    BY DEF CleanReturnIsComplete
  <2>1. queue = {} /\ WorkQueued /\ remaining = {}
    BY DEF LoopInv, RoundInv, ReportedInv, WorkInv, Leaving
  <2>2. \A n : ~Queued(n) BY <2>1 DEF Queued
  <2>3. Idle BY <2>1, <2>2, EmptyQueueIsIdle DEF LoopInv
  <2>4. ASSUME NEW d \in GraphDatapoints PROVE dpRes[d] # None /\ ~dpInvalidated[d]
    BY <2>1, <2>3 DEF LoopInv, ReportedInv, Idle
  <2>5. ASSUME NEW q \in GraphQueries
        PROVE  ~rqInvalidated[q] /\ QueryScore(rqResults[q]) # NoScore
    <3>1. DOMAIN rqResults[q] = Entrypoints[q]
      BY DEF LoopInv, TypeInv, TypeOK, ReportingQueriesTyped
    <3>2. ASSUME NEW d \in Entrypoints[q] PROVE rqResults[q][d] # None
      <4>1. d \in GraphDatapoints BY DEF GraphDatapoints, CodepointChecksums
      <4>2. Lag(rqResults[q][d], dpRes[d], dpInvalidated[d])
        BY <4>1 DEF LoopInv, CopiesInv, CopiesLag
      <4> QED BY <2>4, <4>1, <4>2 DEF Lag
    <3>3. QueryScore(rqResults[q]) # NoScore BY <3>1, <3>2, ScoreOfResults
    <3> QED BY <2>3, <3>3 DEF Idle
  <2>6. ASSUME NEW j \in Jobs PROVE AllData(j)
    <3> SUFFICES ASSUME NEW d \in JobData[j] PROVE rjData[j][d] # None
      BY DEF AllData
    <3>1. d \in GraphDatapoints BY DEF CollectedDatapoints
    <3>2. Lag(rjData[j][d], dpRes[d], dpInvalidated[d])
      BY <3>1 DEF LoopInv, CopiesInv, CopiesLag
    <3> QED BY <2>4, <3>1, <3>2 DEF Lag
  <2>7. \A j \in Jobs : ~rjInvalidated[j] \/ rjCompleted[j] BY <2>3 DEF Idle
  <2>8. \A j \in Jobs : JobSent(j)
    BY <1>1, <2>5, <2>6, <2>7, EveryJobSends DEF LoopInv, JobsInv
  <2>9. ASSUME NEW j \in Jobs PROVE sunkScores[JobChild(j)] # NoScore
    <3>1. JobChild(j) \in ScoreNodes BY DEF ScoreNodes
    <3> QED BY <2>3, <2>8, <3>1 DEF Idle, JobSent, LastScore
  <2> QED BY <2>9 DEF DataDelivered
<1> QED BY <1>1, <1>2, JobsInvariant, DataIsDelivered, PTL

-----------------------------------------------------------------------------
(***************************************************************************)
(* Rescoring.  Nothing reopens a completed job, so each job sends one      *)
(* score, and each parent holds what its child sent.  A job that sends     *)
(* before it has heard of all its children can only report an unknown      *)
(* scoring system, and later scores do not change that.                    *)
(***************************************************************************)
(* The job has had its turn to send. *)
SentOnce(j) == IF j \in StaticJobs THEN j \in staticSent ELSE rjCompleted[j]

(* It holds what its children sent. *)
HeardChildren(j) ==
    \A c \in ChildJobs[j] :
        rjScores[j][JobChild(c)] = IF JobSent(c)
                                   THEN ControlScore(j, LastScore(JobChild(c)))
                                   ELSE NoScore

RolledUp(j) ==
    /\ HeardChildren(j)
    /\ rjCompleted[j] => LastScore(JobChild(j)) = JobEmits(j)
    /\ rjInvalidated[j] /\ ~rjCompleted[j] /\ (\E c \in ChildJobs[j] : JobSent(c))
         => Queued(JobChild(j))

RollUpInv ==
    /\ ~err
    /\ \A j \in Jobs : JobSent(j) <=> SentOnce(j)
    /\ \A j \in StaticJobs : JobSent(j) \/ Queued(JobChild(j))
    /\ \A j \in Jobs \ StaticJobs : RolledUp(j)
    /\ \A n \in ScoreNodes : scUnreported[n] # NoScore => Queued(ScoreCollector)

(* Initially only the supplied scores are queued. *)
LEMMA RollUpInit == Rescore /\ RescoredTree /\ Init => RollUpInv
<1> SUFFICES ASSUME Rescore, RescoredTree, Init PROVE RollUpInv OBVIOUS
<1>1. \A j \in Jobs : ~JobSent(j) BY DEF Init, JobSent, LastScore, ScoreNodes
<1>2. \A j \in Jobs : ~SentOnce(j) BY DEF Init, SentOnce
<1>3. ASSUME NEW j \in StaticJobs PROVE Queued(JobChild(j))
  <2>1. <<JobChild(j), maxPriority>> \in queue BY DEF Init
  <2> QED BY <2>1 DEF Queued
<1>4. ASSUME NEW j \in Jobs \ StaticJobs PROVE RolledUp(j)
  <2>1. \A c \in ChildJobs[j] : JobChild(c) \in Children(j) /\ c \in Jobs
    BY GraphAssumption DEF Children
  <2>2. \A c \in ChildJobs[j] : rjScores[j][JobChild(c)] = NoScore BY <2>1 DEF Init
  <2> QED BY <1>1, <2>1, <2>2 DEF Init, RolledUp, HeardChildren
<1>5. ~err /\ \A n \in ScoreNodes : scUnreported[n] = NoScore BY DEF Init
<1>6. StaticJobs \subseteq Jobs BY GraphAssumption DEF StaticJobs
<1> QED BY <1>1, <1>2, <1>3, <1>4, <1>5 DEF RollUpInv

(* Before it has heard of all its children a job can only send an error. *)
LEMMA UnheardEmitsError ==
    ASSUME RescoredTree, Rescore, TypeInv, NEW j \in Jobs \ StaticJobs, ChildrenSendable(j),
           JobEmits(j) # NoScore, NEW c \in Children(j), rjScores[j][c] = NoScore
    PROVE  ~forwardScore(j) /\ JobSystem[j] \notin Systems
<1> SUFFICES ASSUME forwardScore(j) \/ JobSystem[j] \in Systems PROVE FALSE OBVIOUS
<1> DEFINE s == JobScore(j)
<1>1. s # NoScore /\ Completion(s) = 100 BY DEF JobEmits
<1>2. CASE ~forwardScore(j)
  <2>1. s = Aggregate(j, rjScores[j], Cardinality(Finished(j)))
    BY <1>2, AggregateDependsOn DEF JobScore
  <2>2. s = NoScore BY <1>2, <2>1 DEF Aggregate
  <2> QED BY <1>1, <2>2
<1>3. CASE forwardScore(j)
  <2>1. Children(j) = {JobChild(k) : k \in ChildJobs[j]} BY DEF Children
  <2>2. \A a, b \in Children(j) : a = b BY <1>3, <2>1 DEF RescoredTree
  <2>3. (CHOOSE k \in Children(j) : TRUE) = c BY <2>2
  <2>4. s.sc = 0 /\ s.dc \in 0 .. 100 BY <1>3, <2>3, ForwardedIs
  <2>5. (s.dc + s.sc) \div 2 = 100 BY <1>1 DEF Completion
  <2> HIDE DEF s
  <2> QED BY <2>4, <2>5
<1> QED BY <1>2, <1>3

(* And it sends that whatever it hears of. *)
LEMMA ErrorStays ==
    ASSUME NEW j \in Jobs, ~forwardScore(j), JobSystem[j] \notin Systems
    PROVE  JobEmits(j)' = JobEmits(j)
BY DEF JobEmits, JobScore, AggregateScore

(* What a step that sends no score keeps. *)
LEMMA RollUpKept ==
    ASSUME RollUpInv, ~err',
           \A k \in Jobs : LastScore(JobChild(k))' = LastScore(JobChild(k)),
           UNCHANGED <<rjScores, rjData, rjCompleted, staticSent>>,
           \A k \in StaticJobs :
               Queued(JobChild(k)) => Queued(JobChild(k))' \/ k \in staticSent,
           \A k \in Jobs \ StaticJobs :
               Queued(JobChild(k)) =>
                   Queued(JobChild(k))' \/ ~rjInvalidated'[k] \/ rjCompleted[k],
           \A k \in Jobs \ StaticJobs : rjInvalidated'[k] => rjInvalidated[k],
           \A n \in ScoreNodes : scUnreported'[n] # NoScore =>
               Queued(ScoreCollector)'
    PROVE  RollUpInv'
<1>1. \A k \in Jobs : JobSent(k)' = JobSent(k) BY DEF JobSent
<1>2. \A k \in Jobs : SentOnce(k)' = SentOnce(k) BY DEF SentOnce
<1>3. StaticJobs \subseteq Jobs BY GraphAssumption DEF StaticJobs
<1>4. ASSUME NEW j \in StaticJobs PROVE JobSent(j)' \/ Queued(JobChild(j))'
  <2>1. JobSent(j) \/ Queued(JobChild(j)) BY DEF RollUpInv
  <2>2. j \in staticSent => JobSent(j) BY <1>3 DEF RollUpInv, SentOnce
  <2> QED BY <1>1, <1>3, <2>1, <2>2
<1>5. ASSUME NEW j \in Jobs \ StaticJobs PROVE RolledUp(j)'
  <2>1. RolledUp(j) BY DEF RollUpInv
  <2>2. ChildJobs[j] \subseteq Jobs BY GraphAssumption
  <2>3. HeardChildren(j)' BY <1>1, <2>1, <2>2 DEF RolledUp, HeardChildren
  <2>4. JobEmits(j)' = JobEmits(j) BY AnyJobEmitsKept
  <2>6. ASSUME rjInvalidated'[j], ~rjCompleted'[j], NEW c \in ChildJobs[j], JobSent(c)'
        PROVE  Queued(JobChild(j))'
    <3>1. Queued(JobChild(j)) BY <1>1, <2>1, <2>2, <2>6 DEF RolledUp
    <3> QED BY <2>6, <3>1
  <2> QED BY <2>1, <2>3, <2>4, <2>6 DEF RolledUp
<1> QED BY <1>1, <1>2, <1>4, <1>5 DEF RollUpInv

(* What sending a first score to the jobs above keeps. *)
LEMMA FirstScoreRollsUp ==
    ASSUME Rescore, RescoredTree, TypeInv, ScoresKeyed, JobsInv, RollUpInv,
           NEW item \in queue, NEW k \in Jobs, item[1] = JobChild(k), ~SentOnce(k),
           NEW s, Sendable(JobChild(k), s), NEW invalidated,
           JobsConsumeScore(JobChild(k), s, invalidated),
           ScoreCollectorConsume(JobChild(k), s), Emit(item), ~err', rjData' = rjData,
           k \notin StaticJobs => s = JobEmits(k),
           \A j \in Jobs : SentOnce(j)' <=> SentOnce(j) \/ j = k,
           \A j \in Jobs \ StaticJobs : rjCompleted'[j] <=> rjCompleted[j] \/ j = k,
           \A j \in Jobs : invalidated[j] => rjInvalidated[j]
    PROVE  RollUpInv'
<1> DEFINE m == JobChild(k)
<1>1. m \in ScoreNodes /\ CollectedScore(m) BY DEF ScoreNodes, CollectedScore, JobChild
<1>2. s # NoScore BY FullIsAScore DEF Sendable
<1>3. LastScore(m)' = s
  <2>1. scUnreported'[m] = s BY <1>1 DEF ScoreCollectorConsume, ScoresKeyed
  <2> QED BY <1>2, <2>1 DEF LastScore
<1>4. ASSUME NEW j \in Jobs, j # k PROVE LastScore(JobChild(j))' = LastScore(JobChild(j))
  <2>1. JobChild(j) \in ScoreNodes /\ JobChild(j) # m BY <1>4 DEF ScoreNodes, JobChild
  <2> QED BY <1>1, <2>1, OtherScores
<1>5. \A j \in Jobs : JobSent(j)' <=> JobSent(j) \/ j = k
  BY <1>2, <1>3, <1>4 DEF JobSent
<1>6. ~JobSent(k) BY DEF RollUpInv
<1>7. \A n : Queued(n) /\ n # m => Queued(n)' BY EmitQueues
<1>8. \A n \in Edges(m) : Queued(n)' BY EmitQueues
<1>9. StaticJobs \subseteq Jobs BY GraphAssumption DEF StaticJobs
<1>10. ASSUME NEW j \in StaticJobs PROVE JobSent(j)' \/ Queued(JobChild(j))'
  <2>1. JobSent(j) \/ Queued(JobChild(j)) BY DEF RollUpInv
  <2>2. j # k => JobChild(j) # m BY DEF JobChild
  <2> QED BY <1>5, <1>7, <1>9, <2>1, <2>2
<1>11. ASSUME NEW n \in ScoreNodes PROVE Queued(ScoreCollector)'
  <2>1. ScoreCollector \in Edges(m) BY <1>1 DEF Edges, JobChild
  <2> QED BY <1>8, <2>1
<1>12. ASSUME NEW j \in Jobs \ StaticJobs PROVE RolledUp(j)'
  <2>1. RolledUp(j) /\ JobFlow(j) BY DEF RollUpInv, JobsInv
  <2>2. ChildJobs[j] \subseteq Jobs BY GraphAssumption
  <2>3. Children(j) = {JobChild(c) : c \in ChildJobs[j]} BY DEF Children
  <2>4. m \in Children(j) <=> k \in ChildJobs[j] BY <2>3 DEF JobChild
  <2>5. /\ rjScores'[j] = IF k \in ChildJobs[j]
                          THEN [rjScores[j] EXCEPT ![m] = ControlScore(j, s)]
                          ELSE rjScores[j]
        /\ k \in ChildJobs[j] => rjInvalidated'[j]
        /\ rjInvalidated'[j] => invalidated[j] \/ k \in ChildJobs[j]
    BY <2>4 DEF JobsConsumeScore, Receivers
  <2>6. DOMAIN rjScores[j] = Children(j) BY DEF JobsInv, JobScoresKeyed
  <2>7. ASSUME NEW c \in ChildJobs[j]
        PROVE  rjScores'[j][JobChild(c)] =
                 IF c = k THEN ControlScore(j, s) ELSE rjScores[j][JobChild(c)]
    <3>1. JobChild(c) \in Children(j) /\ (c # k => JobChild(c) # m)
      BY <2>3 DEF JobChild
    <3> QED BY <2>5, <2>6, <3>1
  <2>8. HeardChildren(j)'
    <3> SUFFICES ASSUME NEW c \in ChildJobs[j]
                 PROVE  rjScores'[j][JobChild(c)] =
                          IF JobSent(c)' THEN ControlScore(j, LastScore(JobChild(c))')
                                         ELSE NoScore
      BY DEF HeardChildren
    <3>1. CASE c = k BY <1>3, <1>5, <2>2, <2>7, <3>1
    <3>2. CASE c # k
      <4>1. c \in Jobs BY <2>2
      <4>2. (JobSent(c)' <=> JobSent(c)) /\ LastScore(JobChild(c))' = LastScore(JobChild(c))
        BY <1>4, <1>5, <3>2, <4>1
      <4> QED BY <2>1, <2>7, <3>2, <4>2 DEF RolledUp, HeardChildren
    <3> QED BY <3>1, <3>2
  <2>9. ASSUME rjCompleted'[j] PROVE LastScore(JobChild(j))' = JobEmits(j)'
    <3>1. LastScore(JobChild(j))' = JobEmits(j) /\ JobEmits(j) # NoScore
      <4>1. CASE j = k BY <1>2, <1>3, <4>1
      <4>2. CASE j # k
        BY <1>4, <2>1, <2>9, <4>2 DEF RolledUp, JobFlow, JobSent
      <4> QED BY <4>1, <4>2
    <3>2. CASE k \notin ChildJobs[j] BY <2>5, <3>1, <3>2, AnyJobEmitsKept
    <3>3. CASE k \in ChildJobs[j]
      <4>1. rjScores[j][m] = NoScore BY <1>6, <2>1, <3>3 DEF RolledUp, HeardChildren
      <4>2. m \in Children(j) BY <2>4, <3>3
      <4>3. ~forwardScore(j) /\ JobSystem[j] \notin Systems
        BY <2>1, <3>1, <4>1, <4>2, UnheardEmitsError DEF JobFlow
      <4> QED BY <3>1, <4>3, ErrorStays
    <3> QED BY <3>2, <3>3
  <2>10. ASSUME rjInvalidated'[j], ~rjCompleted'[j], NEW c \in ChildJobs[j], JobSent(c)'
         PROVE  Queued(JobChild(j))'
    <3>1. CASE k \in ChildJobs[j]
      <4>1. JobChild(j) \in Edges(m)
        BY <2>4, <3>1 DEF Edges, ParentJobs, JobChild
      <4> QED BY <1>8, <4>1
    <3>2. CASE k \notin ChildJobs[j]
      <4>1. Queued(JobChild(j)) BY <1>5, <2>1, <2>2, <2>5, <2>10, <3>2 DEF RolledUp
      <4>2. j # k BY <2>10
      <4>3. JobChild(j) # m BY <4>2 DEF JobChild
      <4> QED BY <1>7, <4>1, <4>3
    <3> QED BY <3>1, <3>2
  <2> QED BY <2>8, <2>9, <2>10 DEF RolledUp
<1>13. \A j \in Jobs : JobSent(j)' <=> SentOnce(j)' BY <1>5 DEF RollUpInv
<1> QED BY <1>10, <1>11, <1>12, <1>13 DEF RollUpInv

(* A supplied score is sent once. *)
LEMMA StaticRollsUp ==
    ASSUME Rescore, RescoredTree, SuppliedScoresTyped, TypeInv, ScoresKeyed, JobsInv,
           RollUpInv, NEW item \in queue, RecalculateStatic(item), ~err'
    PROVE  RollUpInv'
<1> DEFINE k == item[1][2]
           s == StaticScore(k)
<1>1. k \in StaticJobs /\ item[1] = JobChild(k) /\ k \in Jobs
  BY NodeKinds DEF RecalculateStatic, TypeInv, TypeOK, LoopTyped
<1>2. UNCHANGED <<rjData, rjCompleted>> BY DEF RecalculateStatic
<1>3. CASE k \notin staticSent
  <2>1. /\ JobsConsumeScore(item[1], s, rjInvalidated)
        /\ ScoreCollectorConsume(item[1], s)
        /\ staticSent' = staticSent \union {k} /\ Emit(item)
    BY <1>3 DEF RecalculateStatic
  <2>2. Sendable(item[1], s)
    <3>1. DOMAIN SuppliedScore[k] = ScoreFields /\ SuppliedScore[k].dt \in Nat
      BY <1>1 DEF SuppliedScoresTyped, NoScore, MkScore, ScoreFields
    <3> QED BY <3>1 DEF StaticScore, Sendable, FullScore, ScoreFields
  <2>3. ~SentOnce(k) /\ \A j \in Jobs : SentOnce(j)' <=> SentOnce(j) \/ j = k
    BY <1>1, <1>2, <1>3, <2>1 DEF SentOnce
  <2>4. \A j \in Jobs \ StaticJobs : rjCompleted'[j] <=> rjCompleted[j] \/ j = k
    BY <1>1, <1>2
  <2> HIDE DEF s
  <2> QED BY <1>1, <1>2, <2>1, <2>2, <2>3, <2>4, FirstScoreRollsUp
<1>4. CASE k \in staticSent
  <2>1. UNCHANGED <<staticSent, rjScores, rjInvalidated, colVars>> /\ EmitNothing(item)
    BY <1>4 DEF RecalculateStatic
  <2>2. \A i \in Jobs : LastScore(JobChild(i))' = LastScore(JobChild(i))
    BY <2>1 DEF LastScore, colVars
  <2>3. \A n : Queued(n) /\ n # JobChild(k) => Queued(n)' BY <1>1, <2>1, EmitQueues
  <2>4. \A j : j # k => JobChild(j) # JobChild(k) BY DEF JobChild
  <2>5. \A j \in StaticJobs :
           Queued(JobChild(j)) => Queued(JobChild(j))' \/ j \in staticSent
    BY <1>4, <2>3, <2>4
  <2>6. \A j \in Jobs \ StaticJobs : Queued(JobChild(j)) => Queued(JobChild(j))'
    BY <1>1, <2>3, <2>4
  <2>7. ScoreCollector # JobChild(k) BY DEF ScoreCollector, JobChild
  <2>8. \A n \in ScoreNodes : scUnreported'[n] # NoScore => Queued(ScoreCollector)'
    BY <2>1, <2>3, <2>7 DEF RollUpInv, colVars
  <2> QED BY <1>2, <2>1, <2>2, <2>5, <2>6, <2>8, RollUpKept
<1> QED BY <1>3, <1>4

(* So is the score of any other job. *)
LEMMA JobRollsUp ==
    ASSUME Rescore, RescoredTree, TypeInv, ScoresKeyed, JobsInv,
           RollUpInv, NEW item \in queue, RecalculateReportingJob(item), ~err'
    PROVE  RollUpInv'
<1> DEFINE k == item[1][2]
           s == JobEmits(k)
           cleared == [rjInvalidated EXCEPT ![k] = FALSE]
<1>1. k \in Jobs \ StaticJobs /\ item[1] = JobChild(k)
  BY NodeKinds DEF RecalculateReportingJob, TypeInv, TypeOK, LoopTyped
<1>2. UNCHANGED <<rjData, staticSent>> BY DEF RecalculateReportingJob
<1>3. rjInvalidated \in [Jobs -> BOOLEAN] /\ rjCompleted \in [Jobs -> BOOLEAN]
  BY DEF TypeInv, TypeOK, JobsTyped
<1>4. CASE rjInvalidated[k] /\ ~rjCompleted[k] /\ s # NoScore
  <2>1. /\ JobsConsumeScore(item[1], s, cleared)
        /\ ScoreCollectorConsume(item[1], s)
        /\ rjCompleted' = [rjCompleted EXCEPT ![k] = TRUE] /\ Emit(item)
    BY <1>4 DEF RecalculateReportingJob
  <2>2. Sendable(item[1], s) BY <1>1, <1>4, EmitsFull DEF JobsInv, JobFlow
  <2>3. ~SentOnce(k) /\ \A j \in Jobs : SentOnce(j)' <=> SentOnce(j) \/ j = k
    BY <1>1, <1>2, <1>3, <1>4, <2>1 DEF SentOnce
  <2>4. \A j \in Jobs \ StaticJobs : rjCompleted'[j] <=> rjCompleted[j] \/ j = k
    BY <1>1, <1>3, <2>1
  <2>5. \A j \in Jobs : cleared[j] => rjInvalidated[j] BY <1>1, <1>3
  <2> HIDE DEF cleared
  <2> QED BY <1>1, <1>2, <2>1, <2>2, <2>3, <2>4, <2>5, FirstScoreRollsUp
<1>5. CASE ~rjInvalidated[k] \/ rjCompleted[k] \/ s = NoScore
  <2>1. UNCHANGED <<rjScores, rjCompleted, colVars>> /\ EmitNothing(item)
    BY <1>5 DEF RecalculateReportingJob
  <2>2. \A i \in Jobs : LastScore(JobChild(i))' = LastScore(JobChild(i))
    BY <2>1 DEF LastScore, colVars
  <2>3. \A n : Queued(n) /\ n # JobChild(k) => Queued(n)' BY <1>1, <2>1, EmitQueues
  <2>4. \A j : j # k => JobChild(j) # JobChild(k) BY DEF JobChild
  <2>5. /\ \A j \in Jobs : rjInvalidated'[j] => rjInvalidated[j]
        /\ ~rjInvalidated'[k] \/ rjCompleted[k]
    BY <1>1, <1>3, <1>5 DEF RecalculateReportingJob
  <2>6. \A j \in StaticJobs : Queued(JobChild(j)) => Queued(JobChild(j))'
    BY <1>1, <2>3, <2>4
  <2>7. \A j \in Jobs \ StaticJobs :
           Queued(JobChild(j)) =>
               Queued(JobChild(j))' \/ ~rjInvalidated'[j] \/ rjCompleted[j]
    BY <2>3, <2>4, <2>5
  <2>8. ScoreCollector # JobChild(k) BY DEF ScoreCollector, JobChild
  <2>9. \A n \in ScoreNodes : scUnreported'[n] # NoScore => Queued(ScoreCollector)'
    BY <2>1, <2>3, <2>8 DEF RollUpInv, colVars
  <2> HIDE DEF s
  <2> QED BY <1>2, <2>1, <2>2, <2>5, <2>6, <2>7, <2>9, RollUpKept
<1> QED BY <1>4, <1>5

(* No other step touches what is rolled up. *)
LEMMA RollUpStep ==
    Rescore /\ RescoredTree /\ SuppliedScoresTyped /\ LoopInv /\ JobsInv /\ RollUpInv
      /\ [Next]_vars => RollUpInv'
<1> SUFFICES ASSUME Rescore, RescoredTree, SuppliedScoresTyped, LoopInv, JobsInv,
                    RollUpInv, [Next]_vars
             PROVE  RollUpInv'
  OBVIOUS
<1> USE DEF LoopInv
<1>1. TypeInv /\ ScoresKeyed BY DEF WorkInv
<1>2. GraphDatapoints = {} /\ RunnableQueries = {} /\ GraphQueries = {}
  BY DEF GraphDatapoints, RunnableQueries, GraphQueries
<1>3. ASSUME UNCHANGED <<rjVars, staticSent>>, ~err',
             \A n : Queued(n) /\ n # ScoreCollector =>
                 Queued(n)' \/ n[1] # "rj",
             \/ UNCHANGED <<scUnreported, sunkScores>>
                   /\ (Queued(ScoreCollector) => Queued(ScoreCollector)')
             \/ \E item \in queue : RecalculateScoreCollector(item)
      PROVE  RollUpInv'
  <2>1. /\ UNCHANGED <<rjScores, rjData, rjCompleted, staticSent>>
        /\ \A k \in Jobs \ StaticJobs : rjInvalidated'[k] => rjInvalidated[k]
    BY <1>3 DEF rjVars
  <2>2. ASSUME NEW k \in Jobs PROVE LastScore(JobChild(k))' = LastScore(JobChild(k))
    <3>1. JobChild(k) \in ScoreNodes BY DEF ScoreNodes
    <3> QED BY <1>3, <3>1 DEF LastScore, RecalculateScoreCollector
  <2>3. \A k : Queued(JobChild(k)) => Queued(JobChild(k))'
    <3>1. \A k : JobChild(k)[1] = "rj" /\ JobChild(k) # ScoreCollector
      BY DEF JobChild, ScoreCollector
    <3> QED BY <1>3, <3>1
  <2>4. \A n \in ScoreNodes : scUnreported'[n] # NoScore => Queued(ScoreCollector)'
    BY <1>3 DEF RollUpInv, RecalculateScoreCollector
  <2> QED BY <1>3, <2>1, <2>2, <2>3, <2>4, RollUpKept
<1>4. CASE ProcessQueue
  <2>1. PICK item \in queue : Recalculate(item) BY <1>4 DEF ProcessQueue
  <2>2. ~err' BY <1>4 DEF ProcessQueue, RollUpInv
  <2>3. item[1] \in Nodes BY DEF TypeInv, TypeOK, LoopTyped
  <2>4. item[1][1] \notin {"dp", "eq", "rq"} BY <1>2, <2>3, NodeKinds
  <2>5. \/ RecalculateReportingJob(item) \/ RecalculateStatic(item)
        \/ RecalculateFinisher(item) \/ RecalculateDatapointCollector(item)
        \/ RecalculateScoreCollector(item)
    BY <2>1, <2>4 DEF Recalculate, RecalculateDatapoint, RecalculateExecutionQuery,
       RecalculateReportingQuery
  <2>6. CASE RecalculateReportingJob(item) BY <1>1, <2>2, <2>6, JobRollsUp
  <2>7. CASE RecalculateStatic(item) BY <1>1, <2>2, <2>7, StaticRollsUp
  <2>8. CASE RecalculateFinisher(item) \/ RecalculateDatapointCollector(item)
    <3>1. /\ UNCHANGED <<rjVars, staticSent, scUnreported, sunkScores>>
          /\ EmitNothing(item)
      BY <2>8 DEF RecalculateFinisher, RecalculateDatapointCollector, colVars
    <3>2. item[1][1] # "rj" /\ item[1] # ScoreCollector
      BY <2>8 DEF RecalculateFinisher, RecalculateDatapointCollector, Finisher,
         DatapointCollector, ScoreCollector
    <3>3. \A n : Queued(n) => Queued(n)' \/ n = item[1] BY <3>1, EmitQueues
    <3> QED BY <1>3, <2>2, <3>1, <3>2, <3>3
  <2>9. CASE RecalculateScoreCollector(item)
    <3>1. UNCHANGED <<rjVars, staticSent>> /\ EmitNothing(item) /\ item[1] = ScoreCollector
      BY <2>9 DEF RecalculateScoreCollector
    <3>2. \A n : Queued(n) /\ n # ScoreCollector => Queued(n)' BY <3>1, EmitQueues
    <3> QED BY <1>3, <2>2, <2>9, <3>1, <3>2
  <2> QED BY <2>5, <2>6, <2>7, <2>8, <2>9
<1>5. ASSUME UNCHANGED <<rjVars, staticSent, colVars>>, ~err', queue \subseteq queue'
      PROVE  RollUpInv'
  <2>1. \A n : Queued(n) => Queued(n)' BY <1>5 DEF Queued
  <2> QED BY <1>3, <1>5, <2>1 DEF colVars
<1>6. CASE GraphLoop /\ ~ProcessQueue
  <2>1. ~ReceiveError BY DEF ReceiveError, RoundInv
  <2> QED BY <1>5, <1>6, <2>1 DEF GraphLoop, RoundEnds, ReceiveResult, ReceiveDone,
     DrainEnds, Stop, Return, nodeVars, RollUpInv
<1>7. CASE ExecutionManager \/ Engine
  BY <1>5, <1>7 DEF ExecutionManager, Engine, CheckStop, SelectStop, Dequeue,
     BundleDone, BundleFails, Broadcast, Callback, SendResult, nodeVars, loopVars, RollUpInv
<1>8. CASE UNCHANGED vars BY <1>5, <1>8 DEF vars, nodeVars, loopVars, RollUpInv
<1> QED BY <1>4, <1>6, <1>7, <1>8 DEF Next, Terminated

(***************************************************************************)
(* In rescore mode every job without a supplied score has the score that   *)
(* the collected scores of its children give.                              *)
(***************************************************************************)
THEOREM RescoringRollsUp ==
    Rescore /\ Acyclic /\ JobsCanFinish /\ SuppliedScoresTyped /\ RescoredTree
      => (Spec => []RescoreRollsUp)
<1> SUFFICES ASSUME Rescore, Acyclic, JobsCanFinish, SuppliedScoresTyped, RescoredTree
             PROVE  Spec => []RescoreRollsUp
  OBVIOUS
<1>1. LoopInv /\ JobsInv /\ RollUpInv => RescoreRollsUp
  <2> SUFFICES ASSUME LoopInv, JobsInv, RollUpInv, pc = "returned"
               PROVE  \A j \in Jobs \ StaticJobs :
                        /\ sunkScores[JobChild(j)] # NoScore
                        /\ sunkScores[JobChild(j)] = JobEmits(j)
                        /\ \A c \in ChildJobs[j] :
                             rjScores[j][JobChild(c)] =
                                ControlScore(j, sunkScores[JobChild(c)])
    BY DEF RescoreRollsUp
  <2>1. queue = {} BY DEF LoopInv, RoundInv, Leaving, RollUpInv
  <2>2. \A n : ~Queued(n) BY <2>1 DEF Queued
  <2>3. \A j \in StaticJobs : JobSent(j) BY <2>2 DEF RollUpInv
  <2>4. GraphQueries = {} BY DEF GraphQueries
  <2>5. ASSUME NEW j \in Jobs \ StaticJobs
        PROVE  /\ AllData(j)
               /\ (\A c \in Children(j) : rjScores[j][c] # NoScore)
                    => ~rjInvalidated[j] \/ rjCompleted[j]
    <3>1. AllData(j) BY DEF AllData, RescoredTree
    <3>2. ASSUME \A c \in Children(j) : rjScores[j][c] # NoScore
          PROVE  ~rjInvalidated[j] \/ rjCompleted[j]
      <4>1. PICK c \in ChildJobs[j] : TRUE BY DEF RescoredTree
      <4>2. JobChild(c) \in Children(j) BY DEF Children
      <4>3. JobSent(c) BY <3>2, <4>2 DEF RollUpInv, RolledUp, HeardChildren
      <4> QED BY <2>2, <4>3 DEF RollUpInv, RolledUp
    <3> QED BY <3>1, <3>2
  <2>6. \A j \in Jobs : JobSent(j)
    BY <2>3, <2>4, <2>5, EveryJobSends DEF LoopInv, JobsInv
  <2>7. ASSUME NEW j \in Jobs
        PROVE  sunkScores[JobChild(j)] = LastScore(JobChild(j))
    <3>1. JobChild(j) \in ScoreNodes BY DEF ScoreNodes
    <3>2. scUnreported[JobChild(j)] = NoScore BY <2>2, <3>1 DEF RollUpInv
    <3> QED BY <3>2 DEF LastScore
  <2>8. ASSUME NEW j \in Jobs \ StaticJobs
        PROVE  /\ sunkScores[JobChild(j)] # NoScore
               /\ sunkScores[JobChild(j)] = JobEmits(j)
    <3>1. RolledUp(j) /\ rjCompleted[j] BY <2>6 DEF RollUpInv, SentOnce
    <3> QED BY <2>6, <2>7, <3>1 DEF RolledUp, JobSent
  <2>9. ASSUME NEW j \in Jobs \ StaticJobs, NEW c \in ChildJobs[j]
        PROVE  rjScores[j][JobChild(c)] = ControlScore(j, sunkScores[JobChild(c)])
    <3>1. c \in Jobs BY GraphAssumption
    <3>2. HeardChildren(j) BY DEF RollUpInv, RolledUp
    <3> QED BY <2>6, <2>7, <3>1, <3>2 DEF HeardChildren
  <2> QED BY <2>8, <2>9
<1>2. LoopInv /\ JobsInv /\ RollUpInv /\ [Next]_vars => RollUpInv' BY RollUpStep
<1> QED BY <1>1, <1>2, RollUpInit, JobsInvariant, PTL DEF Spec
=============================================================================
