--------------------------- MODULE ExecutionGraph ---------------------------
(***************************************************************************)
(* The node graph that GraphBuilder.Build makes of the queries and the     *)
(* reporting jobs of a resolved policy (policy/executor/internal/          *)
(* builder.go), and the results that travel along its edges (nodes.go).    *)
(***************************************************************************)
EXTENDS Naturals, FiniteSets, ScoreCalculator

CONSTANTS
    Queries,        \* code ids of the compiled queries
    Datapoints,     \* checksums of their entrypoints and datapoints
    Entrypoints,    \* [Queries -> SUBSET Datapoints] EntrypointChecksums
    DataChecksums,  \* [Queries -> SUBSET Datapoints] DatapointChecksums
    RequiredProps,  \* [Queries -> SUBSET Datapoints] checksums of properties
    CanRun,         \* the queries that pass checkVersion
    Jobs,           \* uuids of the reporting jobs
    JobType,        \* [Jobs -> JobTypes] ReportingJob.Type
    JobSystem,      \* [Jobs -> scoring system]
    JobQuery,       \* [Jobs -> SUBSET Queries] the reporting query, if any
    JobData,        \* [Jobs -> SUBSET Datapoints] ReportingJob.Datapoints
    ChildJobs,      \* [Jobs -> SUBSET Jobs]
    JobImpact,      \* JobImpact[j][c]: the impact of child job c of job j
    CollectScores,  \* queries requested with CollectScore
    CollectData,    \* datapoints requested with CollectDatapoint
    Rescore,        \* TRUE in rescore mode (WithRescore)
    SuppliedScore,  \* [subset of Jobs -> score] the scores to rescore with
    FailErrors      \* featureFlagFailErrors

ASSUME GraphAssumption ==
    /\ IsFiniteSet(Queries) /\ IsFiniteSet(Datapoints) /\ IsFiniteSet(Jobs)
    /\ Entrypoints   \in [Queries -> SUBSET Datapoints]
    /\ DataChecksums \in [Queries -> SUBSET Datapoints]
    /\ RequiredProps \in [Queries -> SUBSET Datapoints]
    /\ CanRun \subseteq Queries
    /\ JobQuery  \in [Jobs -> SUBSET Queries]
    /\ JobData   \in [Jobs -> SUBSET Datapoints]
    /\ ChildJobs \in [Jobs -> SUBSET Jobs]
    /\ CollectScores \subseteq Queries /\ CollectData \subseteq Datapoints
    /\ Rescore \in BOOLEAN /\ FailErrors \in BOOLEAN
    /\ DOMAIN SuppliedScore \subseteq Jobs
    /\ \A j \in Jobs : JobSystem[j] # "DECAYED"

(***************************************************************************)
(* Results (llx.RawResult).  "ph" is the broadcast placeholder of a query  *)
(* that could not run (queryRunError) and "nil" the value of a branch that *)
(* short-circuit evaluation skipped; the rest come from evaluating the     *)
(* statement: "pass" and "fail" have a truth value, "info" a value without *)
(* one, "score" carries a score, "err" is an error, and "gone" the error   *)
(* "could not find resource".  "none" is the absence of a result.          *)
(***************************************************************************)
Executed == {"pass", "fail", "info", "score", "err", "gone"}
Results  == {"ph", "nil"} \union Executed
None     == "none"
Erroneous == {"ph", "err", "gone"}

isNilResult(res) == res = "nil"
hasRealData(res) == res \in Results \ {"nil"}
isPlaceholderResult(res) == res = "ph"

(* Faulty variant: a placeholder replaces a nil *)
resultUpgradesAny(prev, next) ==
    isPlaceholderResult(prev) \/ (isNilResult(prev) /\ hasRealData(next))

(* next replaces prev *)
resultUpgrades(prev, next) ==
    /\ ~isPlaceholderResult(next)
    /\ isPlaceholderResult(prev) \/ (isNilResult(prev) /\ hasRealData(next))

(* The value a "score" result carries. *)
CarriedScore == 50

(* Codepoints *)
CodepointChecksums(q) == Entrypoints[q] \union DataChecksums[q]

JobTypes == {"POLICY", "FRAMEWORK", "RISK_FACTOR", "CONTROL", "CHECK",
             "DATA_QUERY", "CHECK_AND_DATA_QUERY", "EXECUTION_QUERY"}
forwardScore(j) == JobType[j] \in {"CHECK", "DATA_QUERY",
                                   "CHECK_AND_DATA_QUERY", "EXECUTION_QUERY"}

(***************************************************************************)
(* The children a job takes scores from: its reporting query (none in      *)
(* rescore mode) and its child jobs.  A job's Notify list is the inverse   *)
(* of ChildJobs (connectReportingJobNotifies).                             *)
(***************************************************************************)
QueryChild(q) == <<"rq", q>>
JobChild(j)   == <<"rj", j>>
Children(j)   == {QueryChild(q) : q \in IF Rescore THEN {} ELSE JobQuery[j]}
                   \union {JobChild(c) : c \in ChildJobs[j]}
ImpactOf(j, child) ==
    IF child[1] = "rj" THEN JobImpact[j][child[2]] ELSE NoImpact

(***************************************************************************)
(* Nodes are <<type, id>>.  In rescore mode there are only the collectors  *)
(* and the reporting jobs.  Every codepoint has a datapoint node: those of *)
(* queries that can run are added with the query, the others by            *)
(* handleUnrunnableQueries, which presets an error.                        *)
(***************************************************************************)
DatapointCollector == <<"dc", "__datapoint_collector__">>
ScoreCollector     == <<"sc", "__score_collector__">>
Finisher           == <<"fin", "__collection_finisher__">>
DatapointNode(d)   == <<"dp", d>>
ExecutionQuery(q)  == <<"eq", q>>

StaticJobs == IF Rescore THEN DOMAIN SuppliedScore ELSE {}

RunnableQueries == IF Rescore THEN {} ELSE CanRun
GraphQueries    == IF Rescore THEN {} ELSE Queries
GraphDatapoints == UNION {CodepointChecksums(q) : q \in GraphQueries}

(* The datapoints only a query that cannot run would report. *)
PresetDatapoints ==
    GraphDatapoints \ UNION {CodepointChecksums(q) : q \in RunnableQueries}

Nodes == {DatapointCollector, ScoreCollector}
           \union (IF Rescore THEN {} ELSE {Finisher})
           \union {DatapointNode(d) : d \in GraphDatapoints}
           \union {ExecutionQuery(q) : q \in RunnableQueries}
           \union {QueryChild(q) : q \in GraphQueries}
           \union {JobChild(j) : j \in Jobs}

CollectedDatapoints ==
    CollectData \union (IF Rescore THEN {} ELSE UNION {JobData[j] : j \in Jobs})

ParentJobs(child) ==
    {JobChild(j) : j \in {k \in Jobs : child \in Children(k)}}

DatapointEdges(d) ==
    {QueryChild(q) : q \in {p \in GraphQueries : d \in Entrypoints[p]}}
      \union {ExecutionQuery(q) :
                q \in {p \in RunnableQueries : d \in RequiredProps[p]}}
      \union {JobChild(j) : j \in {k \in Jobs : d \in JobData[k]}}
      \union {Finisher}
      \union (IF d \in CollectedDatapoints THEN {DatapointCollector} ELSE {})

(* Every job's score is collected, a query's only when requested. *)
CollectedScore(n) == n[1] = "rj" \/ n[2] \in CollectScores

Edges(n) ==
    IF n[1] = "dp" THEN DatapointEdges(n[2])
    ELSE IF n[1] = "eq" THEN {DatapointNode(d) : d \in CodepointChecksums(n[2])}
    ELSE IF n[1] \in {"rq", "rj"}
         THEN ParentJobs(n) \union (IF CollectedScore(n) THEN {ScoreCollector} ELSE {})
         ELSE {}

(* The longest path below a node, plus one (prioritizeNode). *)
prioritizeNode[n \in Nodes] ==
    LET below == {prioritizeNode[m] : m \in Edges(n)}
    IN  IF below = {} THEN 1
        ELSE 1 + (CHOOSE x \in below : \A y \in below : y <= x)

(* Faulty variant: the finisher is a leaf like the collectors *)
priorityMapNoFinisher == prioritizeNode

(* The finisher gets the lowest priority (math.MinInt). *)
priorityMap == [n \in Nodes |-> IF n = Finisher THEN 0 ELSE prioritizeNode[n]]

(* Faulty variant: a node that got new data is queued behind all others *)
maxPriorityLow == 1

(* The priority of a node that got new data: ahead of all others. *)
maxPriority == Cardinality(Nodes) + 1

(***************************************************************************)
(* No cycle: of any nodes, some one has no edge into them.  prioritizeNode *)
(* recurses along the edges and returns for no other graph.                *)
(***************************************************************************)
Acyclic == \A S \in SUBSET Nodes : S # {} => \E n \in S : Edges(n) \intersect S = {}

(* Some query reports a datapoint, if there are datapoints at all. *)
SomeQueryReports == GraphDatapoints # {} => PresetDatapoints # GraphDatapoints

(* A compiled query has a statement. *)
EveryQueryHasEntrypoints == \A q \in Queries : Entrypoints[q] # {}

(***************************************************************************)
(* Every job can be completed: one that only forwards a score and has no   *)
(* datapoints itself forwards that of a child job whose data is complete   *)
(* when it is sent, and not that of a query, which has none.               *)
(***************************************************************************)
JobsCanFinish ==
    \A j \in Jobs \ StaticJobs :
        forwardScore(j) /\ JobData[j] = {} =>
            /\ Children(j) # {} /\ (Rescore \/ JobQuery[j] = {})
            /\ \A c \in ChildJobs[j] : forwardScore(c) \/ JobSystem[c] \in Systems

(* A supplied score is a score. *)
SuppliedScoresTyped ==
    \A j \in StaticJobs :
        DOMAIN SuppliedScore[j] = DOMAIN NoScore /\ SuppliedScore[j].dt \in Nat

(***************************************************************************)
(* In rescore mode, a job without a supplied score has "no query or        *)
(* datapoint inputs" but child jobs, and one child if it forwards a score. *)
(***************************************************************************)
RescoredTree ==
    \A j \in Jobs \ StaticJobs :
        /\ JobData[j] = {} /\ ChildJobs[j] # {}
        /\ forwardScore(j) => \A c, d \in ChildJobs[j] : c = d
=============================================================================
