----------------------------- MODULE PolicyLake -----------------------------
(***************************************************************************)
(* The policy hub over the in-memory data lake: SetBundle, Assign,         *)
(* Unassign, DeletePolicy and GetValidatedBundle of one asset              *)
(* (policy/hub.go, policy/resolver.go, internal/datalakes/inmemory/        *)
(* policyhub.go, policyresolver.go, assets.go).                            *)
(*                                                                         *)
(* The lake keeps policies with their checksums and, in both directions,   *)
(* the links between a policy and the ones it is made of; bundles are      *)
(* computed on demand and cached under the checksum of the policy.  A      *)
(* checksum is modelled by what it is computed from: the local one by the  *)
(* document and the versions of its queries, the graph one by the local    *)
(* checksums of the policy and of everything below it ({} is "").          *)
(*                                                                         *)
(* The code walks the links recursively.  What such a walk visits is the   *)
(* smallest set that has where it starts and is closed under the links it  *)
(* follows (Reach), so that its result is stated at once for all of them.  *)
(*                                                                         *)
(* One call runs at a time; an upload takes a step for each policy.  The   *)
(* lake hands out pointers to its own objects, so what a call changed      *)
(* before it fails stays changed; maps are walked in any order.            *)
(***************************************************************************)
EXTENDS Naturals, FiniteSets

CONSTANTS
  Asset,       \* the MRN of the asset, which has a policy of its own
  Policies,    \* the MRNs of policies
  Queries,     \* the MRNs of shared queries
  Frameworks,  \* the MRNs of frameworks
  Bundles,     \* what is uploaded: [policies : mrn -> document,
               \*   queries : mrn -> version, frameworks : mrn -> version]
               \* with a document [version, refs, queries, filters]
  MaxAssign,   \* bound: how many MRNs one assignment names
  MaxUnassign, \* bound: how many policies one call unassigns
  None         \* "not stored"

VARIABLES
  lake,      \* the data lake
  uploading, \* the bundle that SetBundle stores, or None
  left,      \* its policies that are not stored yet
  panicked   \* whether a call ended in a panic

vars == <<lake, uploading, left, panicked>>

Mrns == Policies \cup {Asset}

\* what a walk from m along the edges visits
Reach(edges, m) ==
  LET all    == {m} \cup {e[2] : e \in edges}
      closed == {S \in SUBSET all : m \in S /\ \A e \in edges : e[1] \in S => e[2] \in S}
  IN  {n \in all : \A S \in closed : n \in S}

\* the links of the policies of a bundle
BundleEdges(b) == {e \in (DOMAIN b.policies) \X Mrns : e[2] \in b.policies[e[1]].refs}

ASSUME LakeAssumption ==
  /\ Asset \notin Policies
  /\ IsFiniteSet(Policies)
  /\ MaxAssign \in Nat /\ MaxUnassign \in Nat
  /\ None \notin Bundles
  /\ \A b \in Bundles :
       /\ DOMAIN b.policies \subseteq Policies
       /\ DOMAIN b.queries \subseteq Queries
       /\ DOMAIN b.frameworks \subseteq Frameworks
       /\ None \notin {b.frameworks[f] : f \in DOMAIN b.frameworks}
       /\ \A p \in DOMAIN b.policies :
            /\ b.policies[p].refs \subseteq Policies
            /\ b.policies[p].queries \subseteq DOMAIN b.queries
            \* no policy is made of itself
            /\ \A c \in b.policies[p].refs : p \notin Reach(BundleEdges(b), c)

\* What is stored under a policy follows an upload only when it says enough: a
\* new version of a query comes with all policies that have the query, a policy
\* keeps its dependencies and its filters, and a framework never changes.
UploadsWhole ==
  \A b, c \in Bundles :
    /\ \A p \in DOMAIN b.policies \ DOMAIN c.policies :
         \A q \in b.policies[p].queries \cap DOMAIN c.queries : b.queries[q] = c.queries[q]
    /\ \A p \in DOMAIN b.policies \cap DOMAIN c.policies :
         /\ b.policies[p].refs = c.policies[p].refs
         /\ b.policies[p].filters = c.policies[p].filters
    /\ \A f \in DOMAIN b.frameworks \cap DOMAIN c.frameworks : b.frameworks[f] = c.frameworks[f]

\* CreatePolicyObject
EmptyDocument == [version |-> 0, refs |-> {}, queries |-> {}, filters |-> {}]

\* the links of the policies in P, which are stored
Edges(l, P) == {e \in P \X Mrns : e[2] \in l.policies[e[1]].doc.refs}

Stored(l, m) == m \in DOMAIN l.policies

\* the policy and everything it is made of
Below(l, m) == Reach(Edges(l, DOMAIN l.policies), m)

\* the calls return a lake and an error
Ok(l)   == [lake |-> l, err |-> FALSE]
Fail(l) == [lake |-> l, err |-> TRUE]

-----------------------------------------------------------------------------
(* Checksums and bundles *)

\* the local checksum: the document and the queries it names, as the uploaded
\* bundle has them
LocalChecksum(m, doc, versions) == <<m, doc, [q \in doc.queries |-> versions[q]]>>

\* GetValidatedPolicy computes the graph checksum of an invalidated policy
\* from its dependencies, which it validates first; the flag is never taken
\* back, and a policy that is not stored is an error
Outdated(l)   == {n \in DOMAIN l.policies : l.policies[n].invalidated}
Visited(l, m) == Reach(Edges(l, Outdated(l)), m)
Missing(l, m) == \E n \in Visited(l, m) : ~Stored(l, n)

ValidatedGraph(l, m) ==
  UNION {IF l.policies[n].invalidated THEN {l.policies[n].local} ELSE l.policies[n].graph :
           n \in Visited(l, m) \cap DOMAIN l.policies}

\* fixInvalidatedPolicy of what is visited from S: without a dependency the
\* checksum stays ""
Validated(l, S) ==
  LET fixed == Outdated(l) \cap UNION {Visited(l, m) : m \in S}
  IN  [l EXCEPT !.policies = [n \in DOMAIN l.policies |->
         IF n \in fixed
           THEN [l.policies[n] EXCEPT !.graph = IF Missing(l, n) THEN {} ELSE ValidatedGraph(l, n)]
           ELSE l.policies[n]]]

\* EntityGraphContentChecksum: that of the policy and, for the asset, of its
\* framework
Sum(l, m) ==
  [policy |-> ValidatedGraph(l, m), framework |-> IF m = Asset THEN l.assetFramework.graph ELSE {}]

\* Faulty variant: a cached bundle is kept, whatever became of its policies
StaleMissing(l) == DOMAIN l.policies \ DOMAIN l.bundles

\* a cached bundle is kept unless it is invalidated or has another checksum
Stale(l) ==
  {n \in DOMAIN l.policies :
     \/ n \notin DOMAIN l.bundles
     \/ l.bundles[n].invalidated
     \/ l.bundles[n].sum # Sum(l, n)}

\* ComputeBundle takes the policy, its shared queries and the frameworks as
\* the lake has them now, ...
OwnContents(l, m) ==
  {<<"policy", m, l.policies[m].doc>>}
    \cup {<<"query", q, l.queries[q]>> : q \in l.policies[m].doc.queries}
    \cup {<<"framework", f, l.frameworks[f]>> :
            f \in IF m = Asset THEN l.assetFramework.refs ELSE {}}

\* ... and the bundles of its dependencies from GetValidatedBundle
Computed(l, stale, m) == Reach(Edges(l, stale), m)
Contents(l, stale, m) ==
  UNION {IF n \in stale THEN OwnContents(l, n) ELSE l.bundles[n].contents :
           n \in Computed(l, stale, m)}
Fails(l, stale, m) == \E n \in Computed(l, stale, m) : Missing(l, n)

\* GetValidatedBundle: m and what it has to compute for it is validated and
\* gets a new bundle
GetValidatedBundle(l, m) ==
  LET stale == Stale(l)
      all   == Computed(l, stale, m)
      new   == {n \in all \cap stale : ~Fails(l, stale, n)}
  IN  [lake |-> [Validated(l, all) EXCEPT !.bundles =
                   [n \in DOMAIN l.bundles \cup new |->
                      IF n \in new
                        THEN [contents |-> Contents(l, stale, n), sum |-> Sum(l, n), invalidated |-> FALSE]
                        ELSE l.bundles[n]]],
       err |-> Fails(l, stale, m)]

-----------------------------------------------------------------------------
(* Invalidation *)

\* invalidatePolicyAndBundleAncestors: the policy, its bundle, and its parents;
\* a parent that is not stored is an error
Above(l, m) ==
  Reach({e \in (DOMAIN l.policies) \X Mrns : e[2] \in l.policies[e[1]].parents}, m)

invalidateAncestors(l, m) ==
  LET above == Above(l, m)
  IN  [lake |-> [l EXCEPT
         !.policies = [n \in DOMAIN l.policies |->
            IF n \in above THEN [l.policies[n] EXCEPT !.invalidated = TRUE] ELSE l.policies[n]],
         !.bundles = [n \in DOMAIN l.bundles |->
            IF n \in above /\ Stored(l, n)
              THEN [l.bundles[n] EXCEPT !.invalidated = TRUE] ELSE l.bundles[n]]],
       err |-> ~(above \subseteq DOMAIN l.policies)]

\* checkAndInvalidatePolicyBundle of the stored policy
checkAndInvalidatePolicyBundle(l, m) ==
  IF m \in DOMAIN l.bundles /\ l.bundles[m].sum.policy = l.policies[m].graph
    THEN Ok(l) ELSE invalidateAncestors(l, m)

-----------------------------------------------------------------------------
(* SetBundle *)

\* ComputeAssetFilters: the local filters and those computed for the policies
\* it names
Filters(l, doc) == doc.filters \cup UNION {l.policies[c].filters : c \in doc.refs}

\* m made anew with the parents it had, and linked from its dependencies
WithPolicy(l, m, doc, local, graph) ==
  [l EXCEPT !.policies = [n \in DOMAIN l.policies \cup {m} |->
     IF n = m
       THEN [doc |-> doc, local |-> local, graph |-> graph, invalidated |-> FALSE,
             parents |-> IF Stored(l, m) THEN l.policies[m].parents ELSE {},
             children |-> doc.refs, filters |-> Filters(l, doc)]
     ELSE IF n \in doc.refs THEN [l.policies[n] EXCEPT !.parents = @ \cup {m}]
     ELSE l.policies[n]]]

\* setPolicy: a policy whose local checksum did not change is left alone
setPolicy(l, m, doc, local, graph) ==
  IF Stored(l, m) /\ l.policies[m].local = local
    THEN IF l.policies[m].graph = graph THEN Ok(l) ELSE checkAndInvalidatePolicyBundle(l, m)
    ELSE checkAndInvalidatePolicyBundle(WithPolicy(l, m, doc, local, graph), m)

\* UpdateChecksums finds the dependencies in the bundle
BundleGraph(b, m) ==
  {LocalChecksum(n, b.policies[n], b.queries) : n \in Reach(BundleEdges(b), m)}

\* PreparePolicy, SetPolicy, and GetValidatedBundle to refresh the bundle
Upload(l, m, b) ==
  LET doc == b.policies[m]
      set == setPolicy(l, m, doc, LocalChecksum(m, doc, b.queries), BundleGraph(b, m))
  IN  IF ~(doc.refs \subseteq DOMAIN l.policies) THEN Fail(l)
      ELSE IF set.err THEN set
      ELSE GetValidatedBundle(set.lake, m)

WithQueries(l, b) ==
  [l EXCEPT !.queries = [q \in Queries |-> IF q \in DOMAIN b.queries THEN b.queries[q] ELSE @[q]]]
WithFrameworks(l, b) ==
  [l EXCEPT !.frameworks =
     [f \in Frameworks |-> IF f \in DOMAIN b.frameworks THEN b.frameworks[f] ELSE @[f]]]

\* the policies that documents of the bundle name and the bundle does not have
Outside(b) == (UNION {b.policies[p].refs : p \in DOMAIN b.policies}) \ DOMAIN b.policies

Idle == uploading = None /\ ~panicked

\* SetBundle stores the queries first; ValidatePolicy refuses a bundle that
\* names an unknown policy
SetBundle(b) ==
  /\ Idle
  /\ Outside(b) = {}
  /\ lake' = WithQueries(lake, b)
  /\ uploading' = b
  /\ left' = DOMAIN b.policies
  /\ UNCHANGED panicked

\* SetPolicyFromBundle, in the order of PoliciesSortedByDependency; an error
\* ends the upload
SetPolicyFromBundle(m) ==
  /\ uploading # None
  /\ m \in left
  /\ uploading.policies[m].refs \cap left = {}
  /\ LET r == Upload(lake, m, uploading)
     IN  /\ lake' = r.lake
         /\ uploading' = IF r.err THEN None ELSE uploading
         /\ left' = IF r.err THEN {} ELSE left \ {m}
  /\ UNCHANGED panicked

\* the frameworks of the bundle come last
SetFrameworks ==
  /\ uploading # None
  /\ left = {}
  /\ lake' = WithFrameworks(lake, uploading)
  /\ uploading' = None
  /\ UNCHANGED <<left, panicked>>

\* A policy that only the lake has is "marked off" in the map of the bundle as
\* nil, on which PoliciesSortedByDependency panics after the queries are stored
SetBundlePanics(b) ==
  /\ Idle
  /\ Outside(b) # {}
  /\ \A p \in Outside(b) : Stored(lake, p)
  /\ lake' = WithQueries(lake, b)
  /\ panicked' = TRUE
  /\ UNCHANGED <<uploading, left>>

-----------------------------------------------------------------------------
(* Assign and Unassign *)

\* ensureAsset: the asset has an empty policy (and an empty framework)
ensureAsset(l) ==
  LET local == LocalChecksum(Asset, EmptyDocument, l.queries)
  IN  IF Stored(l, Asset) THEN l ELSE setPolicy(l, Asset, EmptyDocument, local, {local}).lake

\* mutateFramework when it assigns: a framework that is missing is an error;
\* the checksum is taken over all it is made of
mutateFramework(l, fs) ==
  LET refs == l.assetFramework.refs \cup fs
  IN  IF \E f \in fs : l.frameworks[f] = None THEN Fail(l)
      ELSE IF fs = {} THEN Ok(l)
      ELSE Ok([l EXCEPT !.assetFramework =
                 [refs |-> refs, graph |-> {<<f, l.frameworks[f]>> : f \in refs}]])

\* what the loop of mutatePolicy has to do: an assigned policy is skipped
ToMutate(l, action, S) ==
  IF action = "activate" THEN S \ l.policies[Asset].doc.refs ELSE S

\* the loop, that has come to the policies in done
Linked(l, action, done) ==
  LET Changed(set, new) == IF action = "activate" THEN set \cup new ELSE set \ new
  IN  [l EXCEPT !.policies = [n \in DOMAIN l.policies |->
         IF n = Asset THEN [l.policies[n] EXCEPT !.children = Changed(@, done)]
         ELSE IF n \in done THEN [l.policies[n] EXCEPT !.parents = Changed(@, {Asset})]
         ELSE l.policies[n]]]

WithRefs(l, refs) == [l EXCEPT !.policies[Asset].doc.refs = refs]

\* Faulty variant: the filters of a policy that was unassigned stay
refreshAssetFiltersKeep(l) ==
  [l EXCEPT !.policies[Asset].filters = @ \cup Filters(l, l.policies[Asset].doc)]

\* refreshAssetFilters of the asset
refreshAssetFilters(l) ==
  [l EXCEPT !.policies[Asset].filters = Filters(l, l.policies[Asset].doc)]

\* UpdateChecksums after InvalidateExecutionChecksums: all of them anew
updateAllChecksums(l) ==
  LET refs  == l.policies[Asset].doc.refs
      local == LocalChecksum(Asset, l.policies[Asset].doc, l.queries)
      graph == {local} \cup UNION {ValidatedGraph(l, c) : c \in refs}
  IN  IF \E c \in refs : Missing(l, c) THEN Fail(Validated(l, refs))
      ELSE Ok([Validated(l, refs) EXCEPT !.policies[Asset].local = local,
                                         !.policies[Asset].graph = graph])

\* mutatePolicy: it fails on a policy that is not stored
mutatePolicy(l, action, S, done) ==
  LET old    == l.policies[Asset].doc.refs
      linked == Linked(l, action, done)
      moved  == WithRefs(linked, IF action = "activate" THEN old \cup S ELSE old \ S)
  IN  IF ~(ToMutate(l, action, S) \subseteq DOMAIN l.policies) THEN Fail(linked)
      ELSE IF done = {} THEN Ok(l)
      ELSE IF ~(moved.policies[Asset].doc.refs \subseteq DOMAIN l.policies) THEN Fail(moved)
      ELSE updateAllChecksums(refreshAssetFilters(moved))

\* MutateAssignments: the bundle of the asset is invalidated when the checksum
\* of its policy or of its framework is another one.  The asset has no parents,
\* so that there are no dependent asset filters.
MutateAssignments(l, action, S, fs, done) ==
  LET fw  == mutateFramework(l, fs)
      pol == mutatePolicy(fw.lake, action, S, done)
      inv == checkAndInvalidatePolicyBundle(pol.lake, Asset).lake
  IN  IF fw.err THEN fw.lake
      ELSE IF pol.err \/ (fs = {} /\ done = {}) THEN pol.lake
      ELSE IF Asset \in DOMAIN inv.bundles /\ inv.bundles[Asset].sum.framework # inv.assetFramework.graph
      THEN [inv EXCEPT !.bundles[Asset].invalidated = TRUE]
      ELSE inv

\* the loop ends where a policy is missing, or else it comes to all of them
Done(l, action, S) ==
  LET todo == ToMutate(l, action, S)
  IN  IF todo \subseteq DOMAIN l.policies THEN {todo} ELSE SUBSET (todo \cap DOMAIN l.policies)

\* Assign names policies and frameworks
Assign(S, fs) ==
  /\ Idle
  /\ S \cup fs # {}
  /\ Cardinality(S) + Cardinality(fs) <= MaxAssign
  /\ LET l == ensureAsset(lake)
     IN  \E done \in Done(l, "activate", S) :
           lake' = MutateAssignments(l, "activate", S, fs, done)
  /\ UNCHANGED <<uploading, left, panicked>>

\* Unassign of policies
Unassign(S) ==
  /\ Idle
  /\ S # {}
  /\ Cardinality(S) <= MaxUnassign
  /\ LET l == ensureAsset(lake)
     IN  \E done \in Done(l, "deactivate", S) :
           lake' = MutateAssignments(l, "deactivate", S, {}, done)
  /\ UNCHANGED <<uploading, left, panicked>>

\* Unassign of a framework takes the stored framework for a policy
UnassignFramework(f) ==
  /\ Idle
  /\ lake' = ensureAsset(lake)
  /\ panicked' = (lake.frameworks[f] # None)
  /\ UNCHANGED <<uploading, left>>

-----------------------------------------------------------------------------
(* DeletePolicy and GetBundle *)

\* without m and the links to it from its dependencies
Without(l, m) ==
  [l EXCEPT !.policies = [n \in DOMAIN l.policies \ {m} |->
     IF n \in l.policies[m].children
       THEN [l.policies[n] EXCEPT !.parents = @ \ {m}] ELSE l.policies[n]]]

\* Faulty variant: a policy is removed although others are made of it
DeletePolicyAnyway(m) ==
  /\ Idle
  /\ Stored(lake, m)
  /\ lake' = Without(lake, m)
  /\ UNCHANGED <<uploading, left, panicked>>

\* DeletePolicy: refused while other policies are attached; the bundle stays
DeletePolicy(m) ==
  /\ Idle
  /\ Stored(lake, m)
  /\ lake.policies[m].parents = {}
  /\ lake' = Without(lake, m)
  /\ UNCHANGED <<uploading, left, panicked>>

\* GetBundle of a policy or of the asset; for an asset whose policy cannot be
\* validated ComputeBundle is called without a policy and panics
GetBundle(m) ==
  LET r == GetValidatedBundle(lake, m)
  IN  /\ Idle
      /\ Stored(lake, m)
      /\ lake' = r.lake
      /\ panicked' = (m = Asset /\ Missing(lake, m))
      /\ UNCHANGED <<uploading, left>>

Init ==
  /\ lake = [policies |-> <<>>, bundles |-> <<>>,
             queries |-> [q \in Queries |-> None], frameworks |-> [f \in Frameworks |-> None],
             assetFramework |-> [refs |-> {}, graph |-> {}]]
  /\ uploading = None
  /\ left = {}
  /\ panicked = FALSE

Next ==
  \/ \E b \in Bundles : SetBundle(b) \/ SetBundlePanics(b)
  \/ \E m \in Policies : SetPolicyFromBundle(m)
  \/ SetFrameworks
  \/ \E S \in SUBSET Policies, fs \in SUBSET Frameworks : Assign(S, fs)
  \/ \E S \in SUBSET Policies : Unassign(S)
  \/ \E f \in Frameworks : UnassignFramework(f)
  \/ \E m \in Policies : DeletePolicy(m)
  \/ \E m \in Mrns : GetBundle(m)

Spec == Init /\ [][Next]_vars

-----------------------------------------------------------------------------
(* Properties *)

\* what a bundle of m has to contain: everything below m as it is stored now
Current(m) == UNION {OwnContents(lake, n) : n \in Below(lake, m)}

\* Between the calls every stored policy has a bundle to ask for, and the one
\* that GetValidatedBundle answers with is made of the policies, queries and
\* frameworks as they are stored at that moment, whatever was uploaded,
\* assigned, unassigned or deleted since it was cached.
BundleFresh ==
  Idle => \A m \in DOMAIN lake.policies :
            LET r == GetValidatedBundle(lake, m)
            IN  ~r.err /\ r.lake.bundles[m].contents = Current(m)

\* The links are complete: a policy another one is made of is stored and knows
\* it as a parent, so that it cannot be deleted and its changes reach the
\* caches above it, and a parent is stored (setPolicy, mutatePolicy,
\* DeletePolicy).
RefsLinked ==
  \A m \in DOMAIN lake.policies :
    /\ \A c \in lake.policies[m].doc.refs : Stored(lake, c) /\ m \in lake.policies[c].parents
    /\ \A p \in lake.policies[m].parents : Stored(lake, p)

FiltersBelow(m) == UNION {lake.policies[n].doc.filters : n \in Below(lake, m)}

\* GetPolicyFilters answers from what was computed earlier: it is the filters
\* of all policies the policy or the asset is made of, no more and no less.
FiltersCurrent ==
  \A m \in DOMAIN lake.policies : lake.policies[m].filters = FiltersBelow(m)

\* What the policies are made of stays whole, and what was computed from them
\* stays right (setPolicy, mutatePolicy, DeletePolicy, refreshAssetFilters).
LakeConsistent == RefsLinked /\ FiltersCurrent
=============================================================================
