----------------------- MODULE ResolvedPolicyBuilder ------------------------
(***************************************************************************)
(* How a bundle and the filters an asset supports become a resolved policy *)
(* (policy/resolved_policy_builder.go).  The builder first gathers the     *)
(* overrides of all policies and frameworks, then the types of queries,    *)
(* then adds nodes and edges for all that applies to the asset, and then   *)
(* walks the graph from the nodes that cannot be pruned, building the      *)
(* reporting jobs, the queries to execute and the datapoints; Go's maps    *)
(* yield the nodes in any order.  At last the jobs are connected.          *)
(*                                                                         *)
(* A bundle is a record of functions; an id stands for an MRN or a code    *)
(* id.  Texts, properties, scoring systems, magnitudes and checksums are   *)
(* left out; filters are the sets of the code ids of their items.          *)
(***************************************************************************)
EXTENDS Naturals, FiniteSets, Sequences, SequencesExt, TLC

CONSTANTS
  Bundles,       \* the bundles to resolve
  FilterSets,    \* the asset filters an asset may match
  Root,          \* bundleMrn: the MRN of the asset
  Spaces,        \* the policies that are the policy of a space
  Disabled,      \* the code id of disabledQuery
  None           \* a nil impact

VARIABLES
  bundle,        \* the bundle
  assetFilters,  \* the filters of the asset
  phase,         \* "gather", "add", "walk", "connect", "done", "nomatch"
  overrides,     \* actionOverrides, impactOverrides and queryTypes
  graph,         \* nodes, reportsToEdges and reportsFromEdges
  visited,       \* the nodes the walk has built
  jobs,          \* CollectorJob.ReportingJobs: the children and the notified of a job
  datapoints     \* CollectorJob.Datapoints: the jobs a datapoint notifies

vars == <<bundle, assetFilters, phase, overrides, graph, visited, jobs, datapoints>>

\* an entry of a map, or the zero value
Get(f, k, zero) == IF k \in DOMAIN f THEN f[k] ELSE zero
Put(f, k, v)    == (k :> v) @@ f

IgnoreImpact   == [value |-> None, scoring |-> "ignore"]
DisabledImpact == [value |-> None, scoring |-> "disabled"]
ValueImpact(v) == [value |-> v, scoring |-> "unspecified"]

canRun(action) == action \notin {"deactivate", "outofscope"}

\* Filters.Supports, also anyFilterMatches
Supports(filters) == filters = {} \/ filters \cap assetFilters # {}

\* rejected groups and groups past their end are not matching
isGroupMatching(g) == ~g.expired /\ Supports(g.filters)

normalizeAction(type, action, impact) ==
  CASE type = "disable"    -> "deactivate"
    [] type = "outofscope" -> "outofscope"
    [] type = "ignored"    -> "ignore"
    [] OTHER -> IF impact # None /\ impact.scoring = "ignore" THEN "ignore" ELSE action

\* Faulty variant: the type of the group is not looked at
isOverrideAction(action, type) == action # "unspecified"

isOverride(action, type) ==
  action # "unspecified" \/ type \in {"disable", "outofscope", "ignored"}

-----------------------------------------------------------------------------
(* First pass: overrides *)

SetAction(o, mrn, action) ==
  IF action \in {"unspecified", "modify"} THEN o
                                          ELSE [o EXCEPT !.actions = Put(@, mrn, action)]

ValueOf(i) == IF i.value = None THEN 0 ELSE i.value

getWorstImpact(i, j) ==
  IF i = None THEN j
  ELSE IF j = None THEN i
  ELSE IF ValueOf(i) > ValueOf(j) THEN i ELSE j

gatherPolicyRef(o, g, ref) ==
  LET p == SetAction(o, ref.mrn, normalizeAction(g.type, ref.action, ref.impact))
  IN  IF ref.impact = None THEN p ELSE [p EXCEPT !.impacts = Put(@, ref.mrn, ref.impact)]

\* A check; its impact is the worst of its own, the query's and what was found
\* before.  (The code marks a snoozed impact in place, in the check or query of
\* the bundle.  The marked impact is also what it puts into impactOverrides, so
\* that this resolve would see no other; a later one of the same bundle is not
\* modelled.)
gatherCheck(o, g, c) ==
  LET worst  == getWorstImpact(getWorstImpact(c.impact, bundle.queries[c.mrn].impact),
                               Get(o.impacts, c.mrn, None))
      action == normalizeAction(g.type, c.action, worst)
      impact == IF action # "ignore" THEN worst
                ELSE IF worst = None THEN IgnoreImpact ELSE [worst EXCEPT !.scoring = "ignore"]
      set    == SetAction(o, c.mrn, action)
  IN  IF impact = None THEN set ELSE [set EXCEPT !.impacts = Put(@, c.mrn, impact)]

gatherQuery(o, g, q) ==
  IF q.action = "unspecified" THEN o
  ELSE SetAction(o, q.mrn, normalizeAction(g.type, q.action, q.impact))

gatherRiskFactor(o, r) == SetAction(o, r.mrn, r.action)

RECURSIVE gatherGlobalInfoFromPolicy(_, _)
gatherGlobalInfoFromPolicy(o, p) ==
  LET group(a, g) ==
        IF ~isGroupMatching(g) THEN a
        ELSE LET ref(x, r) == gatherPolicyRef(gatherGlobalInfoFromPolicy(x, r.mrn), g, r)
                 refs   == FoldLeft(ref, a, g.policies)
                 checks == FoldLeft(LAMBDA x, c : gatherCheck(x, g, c), refs, g.checks)
             IN  FoldLeft(LAMBDA x, q : gatherQuery(x, g, q), checks, g.queries)
  IN  FoldLeft(gatherRiskFactor, FoldLeft(group, o, bundle.policies[p].groups),
               bundle.policies[p].risks)

RECURSIVE gatherGlobalInfoFromFramework(_, _)
gatherGlobalInfoFromFramework(o, f) ==
  LET group(a, g) ==
        IF ~isGroupMatching(g) THEN a
        ELSE FoldLeft(LAMBDA x, c : SetAction(x, c.mrn, normalizeAction(g.type, c.action, None)),
                      a, g.controls)
  IN  FoldLeft(group, FoldLeft(gatherGlobalInfoFromFramework, o, bundle.frameworks[f].deps),
               bundle.frameworks[f].groups)

\* collectQueryTypes: a query is scoring, data or, when both are found, both;
\* the variants of a query have its types too
RECURSIVE accumulate(_, _, _)
accumulate(types, q, t) ==
  FoldLeft(LAMBDA a, v : accumulate(a, v, t), Put(types, q, Get(types, q, {}) \cup {t}),
           bundle.queries[q].variants)

RECURSIVE collectQueryTypes(_, _)
collectQueryTypes(types, p) ==
  LET scoring(a, c) == accumulate(a, c.mrn, "scoring")
      data(a, q)    == accumulate(a, q.mrn, "data")
      group(a, g)   ==
        IF ~isGroupMatching(g) THEN a
        ELSE FoldLeft(LAMBDA x, r : collectQueryTypes(x, r.mrn),
                      FoldLeft(data, FoldLeft(scoring, a, g.checks), g.queries), g.policies)
      risk(a, r)    == FoldLeft(data, FoldLeft(scoring, a, r.checks), r.queries)
  IN  FoldLeft(risk, FoldLeft(group, types, bundle.policies[p].groups), bundle.policies[p].risks)

ActionOf(mrn) == Get(overrides.actions, mrn, "unspecified")
ImpactOf(mrn) == Get(overrides.impacts, mrn, None)
TypesOf(mrn)  == Get(overrides.types, mrn, {"scoring"})

-----------------------------------------------------------------------------
(* Second pass: nodes and edges.  The operators take the graph and return   *)
(* it with ok set to the result of the function.                            *)

addNode(b, id, node) == [b EXCEPT !.nodes = Put(@, id, node)]
ExecutionNode(dps) == [kind |-> "execution", code |-> None, datapoints |-> dps]
Node(kind, code)   == [kind |-> kind, code |-> code, datapoints |-> {}]

\* the first edge between two nodes stays
addEdge(b, from, to, impact) ==
  IF <<from, to>> \in DOMAIN b.edges THEN b
                                     ELSE [b EXCEPT !.edges = Put(@, <<from, to>>, impact)]

Result(b, ok) == [b EXCEPT !.ok = ok]

\* Faulty variant: a disabled query without variants runs itself
addDisabledRuns(b, q) ==
  LET code == IF bundle.queries[q].variants = <<>> THEN bundle.queries[q].code ELSE Disabled
      n    == addNode(addNode(b, code, ExecutionNode(Get(bundle.datapoints, code, {}))), q, Node("query", code))
  IN  Result(addEdge(n, code, q, None), TRUE)

\* a query that may not run is scored by the disabled query
addDisabled(b, q) ==
  IF ~Supports(bundle.queries[q].filters) THEN Result(b, FALSE)
  ELSE LET n == addNode(addNode(b, Disabled, ExecutionNode({})), q, Node("query", Disabled))
       IN  Result(addEdge(n, Disabled, q, DisabledImpact), TRUE)

addLeaf(b, q) ==
  LET code == bundle.queries[q].code
      n    == addNode(addNode(b, code, ExecutionNode(bundle.datapoints[code])), q, Node("query", code))
  IN  IF ~Supports(bundle.queries[q].filters) THEN Result(b, FALSE)
      ELSE Result(addEdge(n, code, q, ImpactOf(q)), TRUE)

RECURSIVE addQuery(_, _)
addQuery(b, q) ==
  LET variants == bundle.queries[q].variants
      \* the loop over the variants ends at the first that was added
      try(a, v) == IF a.ok THEN a ELSE [addQuery(a, v) EXCEPT !.variant = v]
      tried     == FoldLeft(try, Result(b, FALSE), variants)
  IN  IF ~canRun(ActionOf(q)) THEN addDisabled(b, q)
      ELSE IF variants = <<>> THEN addLeaf(b, q)
      ELSE IF ~tried.ok THEN tried
      ELSE LET v == tried.variant
           IN  Result(addEdge(addNode(tried, q, Node("query", tried.nodes[v].code)), v, q, ImpactOf(q)),
                      TRUE)

\* the impact on the edge from a policy or check to the policy that has it
RefImpact(mrn)   == IF ActionOf(mrn) = "ignore" THEN IgnoreImpact ELSE ImpactOf(mrn)

\* Faulty variant: a snoozed check with an impact keeps counting
CheckImpactFirst(mrn) ==
  IF ImpactOf(mrn) # None /\ ImpactOf(mrn).value # None THEN ValueImpact(ImpactOf(mrn).value)
  ELSE IF ActionOf(mrn) = "ignore" THEN IgnoreImpact ELSE None

CheckImpact(mrn) ==
  IF ActionOf(mrn) = "ignore" THEN IgnoreImpact
  ELSE IF ImpactOf(mrn) # None /\ ImpactOf(mrn).value # None THEN ValueImpact(ImpactOf(mrn).value)
  ELSE None

\* checks and data queries of a group; an override is not connected to the
\* policy that overrides
addGroupCheck(b, p, g, c) ==
  IF isOverride(c.action, g.type) THEN b
  ELSE LET n == addQuery(b, c.mrn)
       IN  IF n.ok THEN addEdge(n, c.mrn, p, CheckImpact(c.mrn)) ELSE n

addGroupQuery(b, p, g, q) ==
  IF isOverride(q.action, g.type) THEN b
  ELSE LET n == addQuery(b, q.mrn)
       IN  IF n.ok THEN addEdge(n, q.mrn, p, IgnoreImpact) ELSE n

\* Faulty variant: the codes are not recorded
selectedCodeIdsNone(r) == {}

\* the codes of the checks of a risk factor that apply, which RiskMrns name
selectedCodeIds(r) ==
  {bundle.queries[c.mrn].code : c \in {d \in ToSet(r.checks) : Supports(bundle.queries[d.mrn].filters)}}

\* addRiskFactor: its checks are connected by their code, its data queries not
\* at all; checks and queries with variants are an error
addRiskFactor(b, r) ==
  LET applies(q)  == Supports(bundle.queries[q.mrn].filters)
      check(a, c) ==
        LET code == bundle.queries[c.mrn].code
        IN  IF ~applies(c) THEN a
            ELSE addEdge(addNode(a, code, ExecutionNode(bundle.datapoints[code])), code, r.mrn, IgnoreImpact)
      data(a, q)  ==
        LET code == bundle.queries[q.mrn].code
        IN  IF ~applies(q) THEN a ELSE addNode(a, code, ExecutionNode(bundle.datapoints[code]))
      any         == selectedCodeIds(r) # {} \/ \E k \in DOMAIN r.queries : applies(r.queries[k])
  IN  IF ~canRun(ActionOf(r.mrn)) \/ ~Supports(r.filters) \/ ~any THEN Result(b, FALSE)
      ELSE Result(addNode(FoldLeft(data, FoldLeft(check, b, r.checks), r.queries),
                          r.mrn, [kind |-> "risk", code |-> None, datapoints |-> selectedCodeIds(r)]), TRUE)

RECURSIVE addPolicy(_, _)
addPolicy(b, p) ==
  LET pol == bundle.policies[p]
      child(a, r) ==
        LET n == addPolicy(a, r.mrn)
        IN  IF n.ok THEN addEdge(n, r.mrn, p, RefImpact(r.mrn)) ELSE n
      group(a, g) ==
        IF ~isGroupMatching(g) THEN a
        ELSE LET refs   == FoldLeft(child, a, g.policies)
                 checks == FoldLeft(LAMBDA x, c : addGroupCheck(x, p, g, c), refs, g.checks)
             IN  FoldLeft(LAMBDA x, q : addGroupQuery(x, p, g, q), checks, g.queries)
      risk(a, r)  ==
        LET n == addRiskFactor(a, r)
        IN  IF r.checks = <<>> THEN a
            ELSE IF n.ok THEN [addEdge(n, r.mrn, p, IgnoreImpact) EXCEPT !.risk = TRUE] ELSE n
      groups == FoldLeft(group, addNode(b, p, Node("policy", None)), pol.groups)
      all    == FoldLeft(risk, [groups EXCEPT !.risk = FALSE], pol.risks)
  IN  IF ~canRun(ActionOf(p)) \/ ~Supports(pol.computedFilters) THEN Result(b, FALSE)
      ELSE Result(all, all.risk \/ \E i \in DOMAIN pol.groups : isGroupMatching(pol.groups[i]))

actionToImpact(mrn) == IF ActionOf(mrn) = "ignore" THEN IgnoreImpact ELSE None

\* addControl connects the codes that are executed for checks and queries, not
\* the checks, so that impacts do not count; a control in a control is
\* connected whether it is there or not
addControl(b, c) ==
  LET has(x, kinds) == x \in DOMAIN b.nodes /\ b.nodes[x].kind \in kinds
      check(a, q) == IF has(q, {"query"}) THEN addEdge(a, b.nodes[q].code, c.mrn, actionToImpact(q)) ELSE a
      query(a, q) == IF has(q, {"query"}) THEN addEdge(a, b.nodes[q].code, c.mrn, IgnoreImpact) ELSE a
      policy(a, q) == IF q \in DOMAIN b.nodes THEN addEdge(a, q, c.mrn, actionToImpact(q)) ELSE a
      control(a, q) == addEdge(a, q, c.mrn, actionToImpact(q))
      linked == FoldLeft(control, FoldLeft(policy, FoldLeft(query, FoldLeft(check, b, c.checks), c.queries),
                                           c.policies), c.controls)
  IN  IF ~canRun(ActionOf(c.mrn)) THEN Result(b, FALSE)
      ELSE Result(IF linked = b THEN b ELSE addNode(linked, c.mrn, Node("control", None)), TRUE)

RECURSIVE addFramework(_, _)
addFramework(b, f) ==
  LET fw     == bundle.frameworks[f]
      impact == IF f \in DOMAIN b.nodes THEN IgnoreImpact ELSE None
      own    == IF f \in DOMAIN b.nodes THEN b ELSE addNode(b, f, Node("framework", None))
      control(a, c) ==
        LET n == addControl(a, c)
        IN  IF n.ok THEN addEdge(n, c.mrn, c.owner, actionToImpact(c.mrn)) ELSE n
      dep(a, d) ==
        LET n == addFramework(a, d)
        IN  IF n.ok THEN addEdge(n, d, f, impact) ELSE n
  IN  IF ~canRun(ActionOf(f)) THEN Result(b, FALSE)
      ELSE Result(FoldLeft(dep, FoldLeft(control, own, fw.controls), fw.deps), TRUE)

-----------------------------------------------------------------------------
(* The steps *)

NoGraph == [nodes |-> <<>>, edges |-> <<>>, ok |-> FALSE, risk |-> FALSE, variant |-> None]
HasFramework == Root \in DOMAIN bundle.frameworks

Gather ==
  /\ phase = "gather"
  /\ LET o == gatherGlobalInfoFromPolicy([actions |-> <<>>, impacts |-> <<>>, types |-> <<>>], Root)
         f == IF HasFramework THEN gatherGlobalInfoFromFramework(o, Root) ELSE o
     IN  overrides' = [f EXCEPT !.types = collectQueryTypes(<<>>, Root)]
  /\ phase' = "add"
  /\ UNCHANGED <<bundle, assetFilters, graph, visited, jobs, datapoints>>

AddNodes ==
  /\ phase = "add"
  /\ LET b == addPolicy(NoGraph, Root)
     IN  graph' = IF HasFramework THEN addFramework(b, Root) ELSE b
  /\ phase' = "walk"
  /\ UNCHANGED <<bundle, assetFilters, overrides, visited, jobs, datapoints>>

Nodes == DOMAIN graph.nodes
Edges == DOMAIN graph.edges

\* Faulty variant: no policy is pruned
isPrunableNoPolicy(n) == graph.nodes[n].kind \notin {"execution", "policy"}

\* the root, the policies of spaces and the queries to execute are not pruned
isPrunable(n) == graph.nodes[n].kind # "execution" /\ n # Root /\ n \notin Spaces

\* what the walk may visit next: a node that is not pruned, or the parent of
\* one that was visited
Frontier ==
  {n \in Nodes \ visited : ~isPrunable(n) \/ \E c \in visited : <<c, n>> \in Edges}

\* mquery2executionQuery makes a new entry for every datapoint of the query,
\* and connectDatapointsToReportingJob adds the job to it
BuildDatapoints(n) ==
  [d \in DOMAIN datapoints \cup graph.nodes[n].datapoints |->
     IF d \in graph.nodes[n].datapoints THEN {n} ELSE datapoints[d]]

\* node.build
Build(n) ==
  /\ phase = "walk"
  /\ n \in Frontier
  /\ visited' = visited \cup {n}
  /\ jobs' = Put(jobs, n, [notify |-> {}, children |-> {}])
  /\ datapoints' = IF graph.nodes[n].kind = "execution" THEN BuildDatapoints(n) ELSE datapoints
  /\ UNCHANGED <<bundle, assetFilters, phase, overrides, graph>>

WalkEnds ==
  /\ phase = "walk"
  /\ Frontier = {}
  /\ phase' = "connect"
  /\ UNCHANGED <<bundle, assetFilters, overrides, graph, visited, jobs, datapoints>>

\* connectReportingJobNotifies for every edge between two jobs; without a job
\* for the root the asset matches nothing
Connect ==
  /\ phase = "connect"
  /\ phase' = IF Root \in DOMAIN jobs THEN "done" ELSE "nomatch"
  /\ jobs' = [n \in DOMAIN jobs |->
                [notify   |-> {p \in DOMAIN jobs : <<n, p>> \in Edges},
                 children |-> {c \in DOMAIN jobs : <<c, n>> \in Edges}]]
  /\ UNCHANGED <<bundle, assetFilters, overrides, graph, visited, datapoints>>

Init ==
  /\ bundle \in Bundles
  /\ assetFilters \in FilterSets
  /\ phase = "gather"
  /\ overrides = [actions |-> <<>>, impacts |-> <<>>, types |-> <<>>]
  /\ graph = NoGraph
  /\ visited = {}
  /\ jobs = <<>>
  /\ datapoints = <<>>

Next ==
  \/ Gather
  \/ AddNodes
  \/ \E n \in Nodes : Build(n)
  \/ WalkEnds
  \/ Connect

Spec == Init /\ [][Next]_vars

-----------------------------------------------------------------------------
(* Properties *)

Done == phase = "done"

\* The declarative reading of the bundle.  The groups of a policy that apply:
GroupsOf(p) ==
  {g \in ToSet(bundle.policies[p].groups) :
     ~g.expired /\ (g.filters = {} \/ \E f \in g.filters : f \in assetFilters)}

PolicyApplies(p) ==
  /\ ActionOf(p) \notin {"deactivate", "outofscope"}
  /\ LET cf == bundle.policies[p].computedFilters IN cf = {} \/ \E f \in cf : f \in assetFilters

\* the policies that apply, from a set of them on down
RECURSIVE ActiveFrom(_)
ActiveFrom(S) ==
  LET next == S \cup {r \in DOMAIN bundle.policies :
                        /\ PolicyApplies(r)
                        /\ \E p \in S : \E g \in GroupsOf(p) : \E e \in ToSet(g.policies) : e.mrn = r}
  IN  IF next = S THEN S ELSE ActiveFrom(next)
ActivePolicies == ActiveFrom({p \in {Root} : PolicyApplies(p)})

\* the code that is executed for a query, None if it does not apply
RECURSIVE CodeFor(_)
CodeFor(q) ==
  LET query   == bundle.queries[q]
      matches == query.filters = {} \/ \E f \in query.filters : f \in assetFilters
      usable  == {i \in DOMAIN query.variants : CodeFor(query.variants[i]) # None}
  IN  IF ActionOf(q) \in {"deactivate", "outofscope"} THEN IF matches THEN Disabled ELSE None
      ELSE IF query.variants = <<>> THEN IF matches THEN query.code ELSE None
      ELSE IF usable = {} THEN None
      ELSE CodeFor(query.variants[CHOOSE i \in usable : \A j \in usable : i <= j])

\* a group declares a query when it has it and is no override of it
Declares(g, q) ==
  /\ g.type = "chapter"
  /\ \E e \in ToSet(g.checks) \cup ToSet(g.queries) : e.mrn = q /\ e.action = "unspecified"

\* the jobs below a set of jobs
RECURSIVE Below(_)
Below(S) == LET next == S \cup UNION {jobs[n].children : n \in S}
            IN  IF next = S THEN S ELSE Below(next)

ExecutedFor(n) == {m \in Below({n}) : graph.nodes[m].kind = "execution"}

\* A check or data query reports to a policy exactly when the policy applies
\* to the asset and a matching group of it declares the query as its own, and
\* what is executed for it is the first variant that applies, the disabled
\* query when it is switched off: two recursive passes, overrides in other
\* policies and pruning agree with the bundle as it reads (addPolicy, addQuery).
ScoredWhereDeclared ==
  Done =>
    \A q \in DOMAIN bundle.queries :
      /\ \A p \in DOMAIN bundle.policies :
           (q \in DOMAIN jobs /\ p \in jobs[q].notify)
             <=> (p \in ActivePolicies /\ CodeFor(q) # None /\ \E g \in GroupsOf(p) : Declares(g, q))
      /\ q \in DOMAIN jobs => ExecutedFor(q) = {CodeFor(q)}

\* Every job but that of the asset and of a space rests on a query that is
\* executed: no policy, check, control or risk factor waits in the executor
\* for a score that nothing will produce (the walk from the non-prunable
\* nodes, disabledQuery).
EveryJobRuns ==
  Done => \A n \in DOMAIN jobs \ ({Root} \cup Spaces) : ExecutedFor(n) # {}

\* The code of a query that is switched off is executed only when a query that
\* is not switched off or a risk factor asks for it (addQuery, addControl).
DisabledNeverRuns ==
  Done =>
    \A code \in DOMAIN jobs \ {Disabled} :
      graph.nodes[code].kind = "execution" =>
        \/ \E q \in DOMAIN bundle.queries : bundle.queries[q].code = code /\ canRun(ActionOf(q))
        \/ \E p \in ActivePolicies : \E r \in ToSet(bundle.policies[p].risks) :
             \E e \in ToSet(r.checks) \cup ToSet(r.queries) : bundle.queries[e.mrn].code = code

\* A check that is snoozed, in whatever group or policy, counts in no policy,
\* and one that is not snoozed is left out of no policy that scores it
\* (gatherGlobalInfoFromPolicy against addPolicy).
SnoozedNeverCounts ==
  Done =>
    \A p \in ActivePolicies \cap DOMAIN jobs : \A c \in jobs[p].children :
      LET e == graph.edges[<<c, p>>]
      IN  graph.nodes[c].kind = "query" /\ TypesOf(c) = {"scoring"} =>
            /\ ActionOf(c) = "ignore" => e # None /\ e.scoring = "ignore"
            /\ ActionOf(c) # "ignore" => e = None \/ e.scoring # "ignore"

\* Every child job of a risk factor is one of the codes whose RiskMrns name it:
\* otherwise the collector gives up on all risk factors of the asset
\* (addRiskFactor against WithResolvedPolicy).
RiskMrnsComplete ==
  Done =>
    \A r \in DOMAIN jobs :
      graph.nodes[r].kind = "risk" => jobs[r].children \subseteq graph.nodes[r].datapoints
=============================================================================
