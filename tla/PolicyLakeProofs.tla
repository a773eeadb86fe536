-------------------------- MODULE PolicyLakeProofs --------------------------
(***************************************************************************)
(* Proofs about PolicyLake: whatever is uploaded, assigned, unassigned,    *)
(* deleted and asked for, in any order, a served bundle is made of what is *)
(* stored at that moment (BundlesFresh), and links and filters are right   *)
(* (LakeStaysConsistent), for any policies, queries, frameworks and        *)
(* uploads that are whole (UploadsWhole), with policies unassigned one at  *)
(* a time.                                                                 *)
(*                                                                         *)
(* The invariant says of each thing the lake keeps what it was computed    *)
(* from.  The code invalidates what it finds above a change and computes   *)
(* anew what it finds invalidated below; since nothing is made of itself,  *)
(* such a walk is a closed set of links, and that it finds all it has to   *)
(* is a fact about walks (section 1).                                      *)
(***************************************************************************)
EXTENDS PolicyLake, FiniteSetTheorems, TLAPS

-----------------------------------------------------------------------------
(* Walks along links *)

Links == SUBSET (Mrns \X Mrns)

\* A walk has where it starts, follows all edges, and is in every set that
\* does the same.
LEMMA ReachStart ==
  ASSUME NEW edges \in Links, NEW m \in Mrns
  PROVE  m \in Reach(edges, m) /\ Reach(edges, m) \subseteq Mrns
  <1>1. \A e \in edges : e[2] \in Mrns
    BY DEF Links
  <1> QED BY <1>1 DEF Reach

LEMMA ReachFollows ==
  ASSUME NEW edges \in Links, NEW m \in Mrns, NEW e \in edges, e[1] \in Reach(edges, m)
  PROVE  e[2] \in Reach(edges, m)
  BY DEF Reach

LEMMA ReachLeast ==
  ASSUME NEW edges \in Links, NEW m \in Mrns, NEW S \in SUBSET Mrns, m \in S,
         \A e \in edges : e[1] \in S => e[2] \in S
  PROVE  Reach(edges, m) \subseteq S
  <1> DEFINE all == {m} \cup {e[2] : e \in edges}
             T == S \cap all
  <1>1. T \in SUBSET all /\ m \in T /\ \A e \in edges : e[1] \in T => e[2] \in T
    OBVIOUS
  <1>2. Reach(edges, m) \subseteq T
    <2>1. Reach(edges, m)
            = {n \in all : \A U \in {V \in SUBSET all :
                 m \in V /\ \A e \in edges : e[1] \in V => e[2] \in V} : n \in U}
      BY DEF Reach
    <2> HIDE DEF all, T
    <2> QED BY <1>1, <2>1
  <1> QED BY <1>2

\* What a walk visits goes no further than the walk.
LEMMA ReachWithin ==
  ASSUME NEW edges \in Links, NEW m \in Mrns, NEW n \in Reach(edges, m)
  PROVE  Reach(edges, n) \subseteq Reach(edges, m)
  <1>1. n \in Mrns /\ Reach(edges, m) \in SUBSET Mrns
    BY ReachStart
  <1>2. \A e \in edges : e[1] \in Reach(edges, m) => e[2] \in Reach(edges, m)
    BY ReachFollows
  <1> QED BY <1>1, <1>2, ReachLeast

\* Two sets of edges that agree where a walk goes have the same walk.
LEMMA ReachAgree ==
  ASSUME NEW edges \in Links, NEW others \in Links, NEW m \in Mrns,
         \A e \in edges \cup others : e[1] \in Reach(edges, m) => (e \in edges <=> e \in others)
  PROVE  Reach(others, m) = Reach(edges, m)
  <1> DEFINE R == Reach(edges, m)
             O == Reach(others, m)
  <1>1. R \in SUBSET Mrns /\ O \in SUBSET Mrns /\ m \in R /\ m \in O
    BY ReachStart
  <1>2. \A e \in edges : e[1] \in R => e[2] \in R
    BY ReachFollows
  <1>3. \A e \in others : e[1] \in O => e[2] \in O
    BY ReachFollows
  <1>4. O \subseteq R
    <2>1. \A e \in others : e[1] \in R => e[2] \in R
      BY <1>2
    <2> QED BY <1>1, <2>1, ReachLeast
  <1>5. R \subseteq O
    <2>1. \A e \in edges : e[1] \in O => e[2] \in O
      BY <1>3, <1>4
    <2> QED BY <1>1, <2>1, ReachLeast
  <1> QED BY <1>4, <1>5

\* More edges, a longer walk.
LEMMA ReachMore ==
  ASSUME NEW edges \in Links, NEW others \in Links, NEW m \in Mrns, edges \subseteq others
  PROVE  Reach(edges, m) \subseteq Reach(others, m)
  <1>1. Reach(others, m) \in SUBSET Mrns /\ m \in Reach(others, m)
    BY ReachStart
  <1>2. \A e \in edges : e[1] \in Reach(others, m) => e[2] \in Reach(others, m)
    BY ReachFollows
  <1> QED BY <1>1, <1>2, ReachLeast

\* A walk that only goes on from the members of P, continued with the whole
\* walks from where it stops, is the whole walk.
LEMMA ReachParts ==
  ASSUME NEW edges \in Links, NEW P, NEW m \in Mrns,
         NEW n \in Reach(edges, m),
         n \notin Reach({e \in edges : e[1] \in P}, m) \cap P
  PROVE  \E k \in Reach({e \in edges : e[1] \in P}, m) \ P : n \in Reach(edges, k)
  <1> DEFINE part == {e \in edges : e[1] \in P}
             V == Reach(part, m)
             S == {x \in Mrns : x \in V \cap P \/ \E k \in V \ P : x \in Reach(edges, k)}
  <1>1. part \in Links /\ V \subseteq Mrns /\ m \in V
    <2>1. part \in Links
      BY DEF Links
    <2> QED BY <2>1, ReachStart
  <1>2. \A k \in V \ P : k \in Reach(edges, k)
    BY <1>1, ReachStart
  <1>3. V \subseteq S
    BY <1>1, <1>2
  <1>4. ASSUME NEW e \in edges, e[1] \in S
        PROVE  e[2] \in S
    <2>1. CASE e[1] \in V \cap P
      <3>1. e \in part
        BY <2>1
      <3>2. e[2] \in V
        BY <3>1, <2>1, <1>1, ReachFollows
      <3> QED BY <3>2, <1>3
    <2>2. CASE e[1] \notin V \cap P
      <3>1. PICK k \in V \ P : e[1] \in Reach(edges, k)
        BY <1>4, <2>2
      <3>2. e[2] \in Reach(edges, k)
        BY <3>1, <1>1, ReachFollows
      <3>3. e[2] \in Mrns
        BY DEF Links
      <3> QED BY <3>1, <3>2, <3>3
    <2> QED BY <2>1, <2>2
  <1>5. Reach(edges, m) \subseteq S
    <2>1. S \in SUBSET Mrns /\ m \in S
      BY <1>1, <1>3
    <2>2. \A e \in edges : e[1] \in S => e[2] \in S
      BY <1>4
    <2> HIDE DEF S
    <2> QED BY <2>1, <2>2, ReachLeast
  <1> QED BY <1>5

\* Where one can walk to, one can walk back from along the edges turned round.
LEMMA ReachBack ==
  ASSUME NEW edges \in Links, NEW back \in Links, NEW m \in Mrns,
         \A e \in edges : <<e[2], e[1]>> \in back,
         NEW n \in Reach(edges, m)
  PROVE  m \in Reach(back, n)
  <1> DEFINE S == {x \in Mrns : m \in Reach(back, x)}
  <1>1. m \in S
    BY ReachStart
  <1>2. ASSUME NEW e \in edges, e[1] \in S
        PROVE  e[2] \in S
    <2>1. e[1] \in Mrns /\ e[2] \in Mrns /\ <<e[2], e[1]>> \in back
      BY DEF Links
    <2>2. e[2] \in Reach(back, e[2])
      BY <2>1, ReachStart
    <2>3. e[1] \in Reach(back, e[2])
      <3> DEFINE f == <<e[2], e[1]>>
      <3>1. f \in back /\ f[1] = e[2] /\ f[2] = e[1]
        BY <2>1
      <3> HIDE DEF f
      <3> QED BY <3>1, <2>1, <2>2, ReachFollows
    <2>4. Reach(back, e[1]) \subseteq Reach(back, e[2])
      BY <2>1, <2>3, ReachWithin
    <2> QED BY <1>2, <2>1, <2>4
  <1>3. Reach(edges, m) \subseteq S
    <2>1. S \in SUBSET Mrns
      OBVIOUS
    <2>2. \A e \in edges : e[1] \in S => e[2] \in S
      BY <1>2
    <2> HIDE DEF S
    <2> QED BY <1>1, <2>1, <2>2, ReachLeast
  <1> QED BY <1>3

-----------------------------------------------------------------------------
(* The lake *)

PolicyShape(p) ==
  /\ p = [doc |-> p.doc, local |-> p.local, graph |-> p.graph, invalidated |-> p.invalidated,
          parents |-> p.parents, children |-> p.children, filters |-> p.filters]
  /\ p.invalidated \in BOOLEAN
  /\ p.doc.refs \subseteq Policies
  /\ p.doc.queries \subseteq Queries

BundleShape(b) ==
  /\ b = [contents |-> b.contents, sum |-> b.sum, invalidated |-> b.invalidated]
  /\ b.invalidated \in BOOLEAN

\* The records of the lake.
LakeShape(l) ==
  /\ l = [policies |-> l.policies, bundles |-> l.bundles, queries |-> l.queries,
          frameworks |-> l.frameworks, assetFramework |-> l.assetFramework]
  /\ DOMAIN l.policies \subseteq Mrns
  /\ \A n \in DOMAIN l.policies : PolicyShape(l.policies[n])
  /\ \A n \in DOMAIN l.bundles : BundleShape(l.bundles[n])
  /\ l.assetFramework = [refs |-> l.assetFramework.refs, graph |-> l.assetFramework.graph]

\* What a policy is made of is stored.
RefsStored(l) ==
  \A m \in DOMAIN l.policies : l.policies[m].doc.refs \subseteq DOMAIN l.policies

\* The graph checksum of a policy: the local ones of everything below it.
Full(l, m) == {l.policies[n].local : n \in Below(l, m)}

\* Unless a policy is invalidated, its graph checksum is right.
GraphsRightOf(l, P) ==
  \A m \in P : ~l.policies[m].invalidated => l.policies[m].graph = Full(l, m)
GraphsRight(l) == GraphsRightOf(l, DOMAIN l.policies)

\* The local checksums in P are those of the queries as they are stored.
LocalsRight(l, P) ==
  \A n \in P : l.policies[n].local = LocalChecksum(n, l.policies[n].doc, l.queries)

\* What a bundle with the checksum is made of.
Parts(x) == {<<"policy", x[1], x[2]>>} \cup {<<"query", q, x[3][q]>> : q \in x[2].queries}
Expand(sum) ==
  (UNION {Parts(x) : x \in sum.policy}) \cup {<<"framework", e[1], e[2]>> : e \in sum.framework}

\* Every cached bundle, fresh or not, is the one of its checksum.
ContentsRight(l) ==
  \A n \in DOMAIN l.bundles : l.bundles[n].contents = Expand(l.bundles[n].sum)

\* The checksum of the framework of the asset is that of what is stored, which
\* some bundle brought.
FrameworkRight(l) ==
  /\ l.assetFramework.graph = {<<f, l.frameworks[f]>> : f \in l.assetFramework.refs}
  /\ \A f \in l.assetFramework.refs : f \in Frameworks /\ l.frameworks[f] # None
  /\ \A f \in Frameworks : l.frameworks[f] # None =>
       \E b \in Bundles : f \in DOMAIN b.frameworks /\ l.frameworks[f] = b.frameworks[f]

\* A policy is as some bundle had it; that of the asset only names policies.
Origins(l) ==
  \A p \in DOMAIN l.policies :
    IF p = Asset
    THEN l.policies[p].doc = [version |-> 0, refs |-> l.policies[p].doc.refs, queries |-> {}, filters |-> {}]
    ELSE \E b \in Bundles :
           /\ Outside(b) = {} /\ p \in DOMAIN b.policies
           /\ l.policies[p].doc = b.policies[p]
           /\ l.policies[p].local = LocalChecksum(p, b.policies[p], b.queries)

\* The links in both directions belong together.
LinksRight(l) ==
  \A n \in DOMAIN l.policies :
    /\ \A c \in l.policies[n].doc.refs : c \in DOMAIN l.policies /\ n \in l.policies[c].parents
    /\ \A p \in l.policies[n].parents :
         p \in DOMAIN l.policies /\ (p # Asset => n \in l.policies[p].doc.refs)
    /\ n # Asset => l.policies[n].children = l.policies[n].doc.refs

\* The bundle of a policy was made for the version that is stored.
SumsRight(l) ==
  \A n \in DOMAIN l.policies \cap DOMAIN l.bundles : n # Asset =>
    \A x \in l.bundles[n].sum.policy : x[1] = n => x = l.policies[n].local

\* The filters of a policy are those of everything below it.
FiltersRight(l) ==
  \A m \in DOMAIN l.policies :
    l.policies[m].filters = UNION {l.policies[n].doc.filters : n \in Below(l, m)}

\* What is left when one field of a policy or of a bundle is replaced.
LEMMA PolicyWith ==
  ASSUME NEW p, PolicyShape(p), NEW x
  PROVE  /\ [p EXCEPT !.graph = x]
              = [doc |-> p.doc, local |-> p.local, graph |-> x, invalidated |-> p.invalidated,
                 parents |-> p.parents, children |-> p.children, filters |-> p.filters]
         /\ [p EXCEPT !.invalidated = x]
              = [doc |-> p.doc, local |-> p.local, graph |-> p.graph, invalidated |-> x,
                 parents |-> p.parents, children |-> p.children, filters |-> p.filters]
         /\ [p EXCEPT !.parents = x]
              = [doc |-> p.doc, local |-> p.local, graph |-> p.graph, invalidated |-> p.invalidated,
                 parents |-> x, children |-> p.children, filters |-> p.filters]
         /\ [p EXCEPT !.children = x]
              = [doc |-> p.doc, local |-> p.local, graph |-> p.graph, invalidated |-> p.invalidated,
                 parents |-> p.parents, children |-> x, filters |-> p.filters]
         /\ [p EXCEPT !.filters = x]
              = [doc |-> p.doc, local |-> p.local, graph |-> p.graph, invalidated |-> p.invalidated,
                 parents |-> p.parents, children |-> p.children, filters |-> x]
         /\ [p EXCEPT !.local = x]
              = [doc |-> p.doc, local |-> x, graph |-> p.graph, invalidated |-> p.invalidated,
                 parents |-> p.parents, children |-> p.children, filters |-> p.filters]
  BY DEF PolicyShape

LEMMA BundleWith ==
  ASSUME NEW b, BundleShape(b), NEW x
  PROVE  [b EXCEPT !.invalidated = x] = [contents |-> b.contents, sum |-> b.sum, invalidated |-> x]
  BY DEF BundleShape

-----------------------------------------------------------------------------
(* GetValidatedPolicy and GetValidatedBundle *)

\* Links lead from policies and the asset to policies and the asset.
LEMMA EdgesLinks ==
  ASSUME NEW l, LakeShape(l), NEW P \in SUBSET DOMAIN l.policies
  PROVE  /\ Edges(l, P) \in Links
         /\ Edges(l, P) = {e \in Edges(l, DOMAIN l.policies) : e[1] \in P}
  BY DEF Edges, Links, LakeShape

\* What is below a stored policy is stored.
LEMMA BelowStored ==
  ASSUME NEW l, LakeShape(l), RefsStored(l), NEW m \in DOMAIN l.policies
  PROVE  m \in Below(l, m) /\ Below(l, m) \subseteq DOMAIN l.policies
  <1>1. m \in Mrns /\ DOMAIN l.policies \in SUBSET Mrns
    BY DEF LakeShape
  <1>2. Edges(l, DOMAIN l.policies) \in Links
    BY EdgesLinks
  <1>3. \A e \in Edges(l, DOMAIN l.policies) : e[2] \in DOMAIN l.policies
    BY DEF Edges, RefsStored
  <1>4. Reach(Edges(l, DOMAIN l.policies), m) \subseteq DOMAIN l.policies
    BY <1>1, <1>2, <1>3, ReachLeast
  <1> QED BY <1>1, <1>2, <1>4, ReachStart DEF Below

\* What is below something below m is below m.
LEMMA BelowWithin ==
  ASSUME NEW l, LakeShape(l), RefsStored(l), NEW m \in DOMAIN l.policies, NEW n \in Below(l, m)
  PROVE  Below(l, n) \subseteq Below(l, m)
  <1>1. m \in Mrns
    BY DEF LakeShape
  <1>2. Edges(l, DOMAIN l.policies) \in Links
    BY EdgesLinks
  <1> QED BY <1>1, <1>2, ReachWithin DEF Below

\* Only the asset is made of its policy.
LEMMA AssetOnTop ==
  ASSUME LakeAssumption, NEW l, LakeShape(l), RefsStored(l), NEW m \in DOMAIN l.policies, m # Asset
  PROVE  Asset \notin Below(l, m)
  <1>1. m \in Policies /\ Policies \subseteq Mrns
    BY DEF LakeShape, Mrns
  <1>2. \A e \in Edges(l, DOMAIN l.policies) : e[2] \in Policies
    BY DEF Edges, LakeShape, PolicyShape
  <1>3. Edges(l, DOMAIN l.policies) \in Links
    BY EdgesLinks
  <1>4. Reach(Edges(l, DOMAIN l.policies), m) \subseteq Policies
    BY <1>1, <1>2, <1>3, ReachLeast
  <1> QED BY <1>4 DEF Below, LakeAssumption

\* A walk that stops at some policies.
LEMMA PartsBelow ==
  ASSUME NEW l, LakeShape(l), RefsStored(l), NEW m \in DOMAIN l.policies,
         NEW P \in SUBSET DOMAIN l.policies
  PROVE  /\ Reach(Edges(l, P), m) \subseteq Below(l, m)
         /\ \A n \in Below(l, m) :
              \/ n \in Reach(Edges(l, P), m) \cap P
              \/ \E k \in Reach(Edges(l, P), m) \ P : n \in Below(l, k)
  <1> DEFINE E == Edges(l, DOMAIN l.policies)
  <1>1. m \in Mrns
    BY DEF LakeShape
  <1>2. E \in Links /\ Edges(l, P) \in Links /\ Edges(l, P) = {e \in E : e[1] \in P}
    BY EdgesLinks
  <1>3. Reach(Edges(l, P), m) \subseteq Reach(E, m)
    BY <1>1, <1>2, ReachMore
  <1>4. \A n \in Reach(E, m) :
          n \notin Reach({e \in E : e[1] \in P}, m) \cap P =>
            \E k \in Reach({e \in E : e[1] \in P}, m) \ P : n \in Reach(E, k)
    <2> HIDE DEF E
    <2> QED BY <1>1, <1>2, ReachParts
  <1> QED BY <1>2, <1>3, <1>4 DEF Below

\* The checksum of a validated policy is right, and it can be validated.
LEMMA ValidGraphBelow ==
  ASSUME NEW l, LakeShape(l), RefsStored(l), NEW m \in DOMAIN l.policies,
         GraphsRightOf(l, Below(l, m))
  PROVE  ValidatedGraph(l, m) = Full(l, m) /\ ~Missing(l, m)
  <1> DEFINE O == Outdated(l)
             V == Visited(l, m)
  <1>1. O \in SUBSET DOMAIN l.policies
    BY DEF Outdated
  <1>2. V = Reach(Edges(l, O), m)
    BY DEF Visited
  <1>3. /\ V \subseteq Below(l, m)
        /\ \A n \in Below(l, m) : n \in V \cap O \/ \E k \in V \ O : n \in Below(l, k)
    <2> HIDE DEF O
    <2> QED BY <1>1, <1>2, PartsBelow
  <1>4. Below(l, m) \subseteq DOMAIN l.policies
    BY BelowStored
  <1>5. \A n \in V : n \in DOMAIN l.policies /\ (l.policies[n].invalidated <=> n \in O)
    BY <1>3, <1>4 DEF Outdated
  <1>6. \A n \in V \ O : l.policies[n].graph = Full(l, n)
    BY <1>3, <1>5 DEF GraphsRightOf, Outdated
  <1>7. \A n \in V : Below(l, n) \subseteq Below(l, m)
    BY <1>3, BelowWithin
  <1>8. ValidatedGraph(l, m) = UNION {IF n \in O THEN {l.policies[n].local} ELSE Full(l, n) : n \in V}
    BY <1>5, <1>6 DEF ValidatedGraph
  <1> HIDE DEF O, V
  <1>9. ASSUME NEW x, x \in ValidatedGraph(l, m)
        PROVE  x \in Full(l, m)
    BY <1>8, <1>9, <1>3, <1>7 DEF Full
  <1>10. ASSUME NEW x, x \in Full(l, m)
         PROVE  x \in ValidatedGraph(l, m)
    <2>1. PICK n \in Below(l, m) : x = l.policies[n].local
      BY <1>10 DEF Full
    <2>2. CASE n \in V \cap O
      BY <1>8, <2>1, <2>2
    <2>3. CASE \E k \in V \ O : n \in Below(l, k)
      BY <1>8, <2>1, <2>3 DEF Full
    <2> QED BY <1>3, <2>2, <2>3
  <1>11. ~Missing(l, m)
    BY <1>5 DEF Missing, Stored, V
  <1> QED BY <1>9, <1>10, <1>11

\* So it is for every stored policy.
LEMMA ValidGraph ==
  ASSUME NEW l, LakeShape(l), RefsStored(l), GraphsRight(l), NEW m \in DOMAIN l.policies
  PROVE  ValidatedGraph(l, m) = Full(l, m) /\ ~Missing(l, m)
  <1>1. GraphsRightOf(l, Below(l, m))
    BY BelowStored DEF GraphsRight, GraphsRightOf
  <1> QED BY <1>1, ValidGraphBelow

\* What the bundle of m has to be.
Fresh(l, m) == UNION {OwnContents(l, n) : n \in Below(l, m)}

\* A local checksum stands for the policy and its queries.
LEMMA PartsOfPolicy ==
  ASSUME NEW l, LakeShape(l), NEW n \in DOMAIN l.policies, LocalsRight(l, {n})
  PROVE  OwnContents(l, n) = Parts(l.policies[n].local)
           \cup {<<"framework", f, l.frameworks[f]>> :
                  f \in IF n = Asset THEN l.assetFramework.refs ELSE {}}
  <1> DEFINE doc == l.policies[n].doc
  <1>1. l.policies[n].local = <<n, doc, [q \in doc.queries |-> l.queries[q]]>>
    BY DEF LocalsRight, LocalChecksum
  <1>2. Parts(l.policies[n].local)
          = {<<"policy", n, doc>>} \cup {<<"query", q, l.queries[q]>> : q \in doc.queries}
    BY <1>1 DEF Parts
  <1> QED BY <1>2 DEF OwnContents

\* The bundle of a checksum that is right is fresh.
LEMMA ExpandFresh ==
  ASSUME LakeAssumption, NEW l, LakeShape(l), RefsStored(l), GraphsRight(l), FrameworkRight(l),
         NEW m \in DOMAIN l.policies, LocalsRight(l, Below(l, m))
  PROVE  Expand(Sum(l, m)) = Fresh(l, m)
  <1> DEFINE Fw(n) == {<<"framework", f, l.frameworks[f]>> :
                         f \in IF n = Asset THEN l.assetFramework.refs ELSE {}}
             B == Below(l, m)
  <1>1. m \in B /\ B \subseteq DOMAIN l.policies
    BY BelowStored
  <1>2. \A n \in B : OwnContents(l, n) = Parts(l.policies[n].local) \cup Fw(n)
    <2> TAKE n \in B
    <2>1. n \in DOMAIN l.policies /\ LocalsRight(l, {n})
      BY <1>1 DEF LocalsRight
    <2> QED BY <2>1, PartsOfPolicy
  <1>3. Sum(l, m).policy = {l.policies[n].local : n \in B}
    BY ValidGraph DEF Sum, Full
  <1>4. \A n \in B : Fw(n) \subseteq Fw(m)
    BY AssetOnTop
  <1>5. {<<"framework", e[1], e[2]>> : e \in Sum(l, m).framework} = Fw(m)
    <2>1. CASE m = Asset
      <3>1. Sum(l, m).framework = {<<f, l.frameworks[f]>> : f \in l.assetFramework.refs}
        BY <2>1 DEF Sum, FrameworkRight
      <3>2. Fw(m) = {<<"framework", f, l.frameworks[f]>> : f \in l.assetFramework.refs}
        BY <2>1
      <3>3. ASSUME NEW e \in Sum(l, m).framework
            PROVE  <<"framework", e[1], e[2]>> \in Fw(m)
        <4>1. PICK f \in l.assetFramework.refs : e = <<f, l.frameworks[f]>>
          BY <3>1
        <4>2. e[1] = f /\ e[2] = l.frameworks[f]
          BY <4>1
        <4> QED BY <3>2, <4>2
      <3>4. ASSUME NEW f \in l.assetFramework.refs
            PROVE  \E e \in Sum(l, m).framework : <<"framework", f, l.frameworks[f]>> = <<"framework", e[1], e[2]>>
        <4> DEFINE e == <<f, l.frameworks[f]>>
        <4>1. e \in Sum(l, m).framework /\ e[1] = f /\ e[2] = l.frameworks[f]
          BY <3>1
        <4> HIDE DEF e
        <4> QED BY <4>1
      <3> HIDE DEF Fw
      <3> QED BY <3>2, <3>3, <3>4
    <2>2. CASE m # Asset
      BY <2>2 DEF Sum
    <2> QED BY <2>1, <2>2
  <1>6. UNION {Parts(x) : x \in Sum(l, m).policy} = UNION {Parts(l.policies[n].local) : n \in B}
    BY <1>3
  <1>7. Expand(Sum(l, m)) = (UNION {Parts(l.policies[n].local) : n \in B}) \cup Fw(m)
    BY <1>5, <1>6 DEF Expand
  <1>8. Fresh(l, m) = UNION {Parts(l.policies[n].local) \cup Fw(n) : n \in B}
    BY <1>2 DEF Fresh
  <1> HIDE DEF Fw, B
  <1>9. ASSUME NEW x, x \in Expand(Sum(l, m))
        PROVE  x \in Fresh(l, m)
    BY <1>9, <1>1, <1>7, <1>8
  <1>10. ASSUME NEW x, x \in Fresh(l, m)
         PROVE  x \in Expand(Sum(l, m))
    BY <1>10, <1>4, <1>7, <1>8
  <1> QED BY <1>9, <1>10

\* What ComputeBundle collects for a policy is fresh, and nothing is missing.
LEMMA ContentsFresh ==
  ASSUME LakeAssumption, NEW l, LakeShape(l), RefsStored(l), GraphsRight(l), FrameworkRight(l),
         ContentsRight(l), NEW m \in DOMAIN l.policies, LocalsRight(l, Below(l, m))
  PROVE  /\ Contents(l, Stale(l), m) = Fresh(l, m)
         /\ ~Fails(l, Stale(l), m)
  <1> DEFINE S == Stale(l)
             C == Computed(l, S, m)
  <1>1. S \in SUBSET DOMAIN l.policies
    BY DEF Stale
  <1>2. /\ C \subseteq Below(l, m)
        /\ \A n \in Below(l, m) : n \in C \cap S \/ \E k \in C \ S : n \in Below(l, k)
    <2>1. C = Reach(Edges(l, S), m)
      BY DEF Computed
    <2> HIDE DEF S, C
    <2> QED BY <1>1, <2>1, PartsBelow
  <1>3. Below(l, m) \subseteq DOMAIN l.policies
    BY BelowStored
  <1>4. \A n \in Below(l, m) : Below(l, n) \subseteq Below(l, m)
    BY BelowWithin
  <1>5. \A n \in C \ S : l.bundles[n].contents = Fresh(l, n)
    <2> TAKE n \in C \ S
    <2>1. n \in DOMAIN l.policies /\ n \in DOMAIN l.bundles /\ l.bundles[n].sum = Sum(l, n)
      BY <1>2, <1>3 DEF Stale
    <2>2. l.bundles[n].contents = Expand(Sum(l, n))
      BY <2>1 DEF ContentsRight
    <2>3. LocalsRight(l, Below(l, n))
      BY <1>2, <1>4 DEF LocalsRight
    <2> QED BY <2>1, <2>2, <2>3, ExpandFresh
  <1>6. Contents(l, S, m) = UNION {IF n \in S THEN OwnContents(l, n) ELSE Fresh(l, n) : n \in C}
    BY <1>5 DEF Contents
  <1>7. ~Fails(l, S, m)
    BY <1>2, <1>3, ValidGraph DEF Fails
  <1> HIDE DEF S, C
  <1>8. ASSUME NEW x, x \in Contents(l, S, m)
        PROVE  x \in Fresh(l, m)
    BY <1>8, <1>6, <1>2, <1>4 DEF Fresh
  <1>9. ASSUME NEW x, x \in Fresh(l, m)
        PROVE  x \in Contents(l, S, m)
    <2>1. PICK n \in Below(l, m) : x \in OwnContents(l, n)
      BY <1>9 DEF Fresh
    <2>2. CASE n \in C \cap S
      BY <1>6, <2>1, <2>2
    <2>3. CASE \E k \in C \ S : n \in Below(l, k)
      BY <1>6, <2>1, <2>3 DEF Fresh
    <2> QED BY <1>2, <2>2, <2>3
  <1>10. Contents(l, S, m) = Fresh(l, m)
    BY <1>8, <1>9
  <1> QED BY <1>7, <1>10 DEF S

-----------------------------------------------------------------------------
(* What validation leaves alone *)

\* v is l with other graph checksums of invalidated policies.
Revalidated(l, v) ==
  /\ DOMAIN v.policies = DOMAIN l.policies
  /\ \A n \in DOMAIN l.policies :
       /\ v.policies[n].doc = l.policies[n].doc
       /\ v.policies[n].local = l.policies[n].local
       /\ v.policies[n].invalidated = l.policies[n].invalidated
       /\ v.policies[n].parents = l.policies[n].parents
       /\ v.policies[n].children = l.policies[n].children
       /\ v.policies[n].filters = l.policies[n].filters
       /\ ~l.policies[n].invalidated => v.policies[n].graph = l.policies[n].graph
  /\ v.queries = l.queries
  /\ v.frameworks = l.frameworks
  /\ v.assetFramework = l.assetFramework

\* The same documents, the same walks.
LEMMA SameBelow ==
  ASSUME NEW l, NEW v, DOMAIN v.policies = DOMAIN l.policies,
         \A n \in DOMAIN l.policies : v.policies[n].doc = l.policies[n].doc
  PROVE  \A m : Below(v, m) = Below(l, m)
  <1>1. Edges(v, DOMAIN v.policies) = Edges(l, DOMAIN l.policies)
    BY DEF Edges
  <1> QED BY <1>1 DEF Below

\* ... and with the same local checksums the same graph checksums.
LEMMA SameFull ==
  ASSUME NEW l, NEW v, LakeShape(l), RefsStored(l), DOMAIN v.policies = DOMAIN l.policies,
         \A n \in DOMAIN l.policies : /\ v.policies[n].doc = l.policies[n].doc
                                      /\ v.policies[n].local = l.policies[n].local
  PROVE  \A m \in DOMAIN l.policies : Full(v, m) = Full(l, m)
  <1> TAKE m \in DOMAIN l.policies
  <1>1. Below(v, m) = Below(l, m)
    BY SameBelow
  <1>2. Below(l, m) \subseteq DOMAIN l.policies
    BY BelowStored
  <1> QED BY <1>1, <1>2 DEF Full

\* Complete links lead to stored policies.
LEMMA LinksStored ==
  ASSUME NEW l, LakeShape(l), LinksRight(l)
  PROVE  RefsStored(l)
  BY DEF LinksRight, RefsStored

\* Such a v is right wherever l is.
LEMMA RevalidatedKeeps ==
  ASSUME NEW l, NEW v, LakeShape(l), LinksRight(l), Revalidated(l, v)
  PROVE  /\ LinksRight(v) /\ RefsStored(v)
         /\ GraphsRight(l) => GraphsRight(v)
         /\ \A P \in SUBSET DOMAIN l.policies : LocalsRight(l, P) => LocalsRight(v, P)
         /\ FrameworkRight(l) => FrameworkRight(v)
         /\ Origins(l) => Origins(v)
         /\ FiltersRight(l) => FiltersRight(v)
  <1>1. RefsStored(l)
    BY LinksStored
  <1>2. LinksRight(v)
    BY DEF LinksRight, Revalidated
  <1>3. RefsStored(v)
    BY <1>2 DEF LinksRight, RefsStored
  <1>4. \A m : Below(v, m) = Below(l, m)
    BY SameBelow DEF Revalidated
  <1>5. \A m \in DOMAIN l.policies : Full(v, m) = Full(l, m)
    BY <1>1, SameFull DEF Revalidated
  <1>6. GraphsRight(l) => GraphsRight(v)
    BY <1>5 DEF GraphsRight, GraphsRightOf, Revalidated
  <1>7. \A P \in SUBSET DOMAIN l.policies : LocalsRight(l, P) => LocalsRight(v, P)
    BY DEF LocalsRight, Revalidated
  <1>8. FrameworkRight(l) => FrameworkRight(v)
    BY DEF FrameworkRight, Revalidated
  <1>9. Origins(l) => Origins(v)
    <2> SUFFICES ASSUME Origins(l), NEW p \in DOMAIN v.policies
                 PROVE  IF p = Asset
                        THEN v.policies[p].doc = [version |-> 0, refs |-> v.policies[p].doc.refs,
                                                  queries |-> {}, filters |-> {}]
                        ELSE \E b \in Bundles :
                               /\ Outside(b) = {} /\ p \in DOMAIN b.policies
                               /\ v.policies[p].doc = b.policies[p]
                               /\ v.policies[p].local = LocalChecksum(p, b.policies[p], b.queries)
      BY DEF Origins
    <2>1. /\ p \in DOMAIN l.policies
          /\ v.policies[p].doc = l.policies[p].doc /\ v.policies[p].local = l.policies[p].local
      BY DEF Revalidated
    <2> QED BY <2>1 DEF Origins
  <1>10. FiltersRight(l) => FiltersRight(v)
    <2> SUFFICES ASSUME FiltersRight(l), NEW m \in DOMAIN l.policies
                 PROVE  v.policies[m].filters = UNION {v.policies[n].doc.filters : n \in Below(v, m)}
      BY DEF FiltersRight, Revalidated
    <2>1. Below(l, m) \subseteq DOMAIN l.policies
      BY <1>1, BelowStored
    <2> QED BY <2>1, <1>4 DEF FiltersRight, Revalidated
  <1> QED BY <1>2, <1>3, <1>6, <1>7, <1>8, <1>9, <1>10

\* GetValidatedPolicy changes nothing else.
LEMMA ValidatedOnly ==
  ASSUME NEW l, LakeShape(l), NEW S
  PROVE  /\ LakeShape(Validated(l, S))
         /\ Revalidated(l, Validated(l, S))
         /\ Validated(l, S).bundles = l.bundles
  <1> DEFINE v == Validated(l, S)
             fixed == Outdated(l) \cap UNION {Visited(l, m) : m \in S}
             ps == [n \in DOMAIN l.policies |->
                      IF n \in fixed
                        THEN [l.policies[n] EXCEPT !.graph = IF Missing(l, n) THEN {} ELSE ValidatedGraph(l, n)]
                        ELSE l.policies[n]]
  <1>1. v = [policies |-> ps, bundles |-> l.bundles, queries |-> l.queries,
             frameworks |-> l.frameworks, assetFramework |-> l.assetFramework]
    <2>1. v = [l EXCEPT !.policies = ps]
      BY DEF Validated
    <2>2. l = [policies |-> l.policies, bundles |-> l.bundles, queries |-> l.queries,
               frameworks |-> l.frameworks, assetFramework |-> l.assetFramework]
      BY DEF LakeShape
    <2> HIDE DEF ps, v
    <2> QED BY <2>1, <2>2
  <1>2. \A n \in DOMAIN l.policies :
          /\ ps[n] = [doc |-> l.policies[n].doc, local |-> l.policies[n].local, graph |-> ps[n].graph,
                      invalidated |-> l.policies[n].invalidated, parents |-> l.policies[n].parents,
                      children |-> l.policies[n].children, filters |-> l.policies[n].filters]
          /\ ~l.policies[n].invalidated => ps[n] = l.policies[n]
    <2> TAKE n \in DOMAIN l.policies
    <2> DEFINE p == l.policies[n]
    <2>1. PolicyShape(p)
      BY DEF LakeShape
    <2>3. CASE n \in fixed
      <3>1. n \in Outdated(l)
        BY <2>3
      <3>2. p.invalidated
        BY <3>1 DEF Outdated
      <3> DEFINE g == IF Missing(l, n) THEN {} ELSE ValidatedGraph(l, n)
      <3>3. ps[n] = [p EXCEPT !.graph = g]
        BY <2>3
      <3> HIDE DEF g, ps, p
      <3>4. ps[n] = [doc |-> p.doc, local |-> p.local, graph |-> g, invalidated |-> p.invalidated,
                     parents |-> p.parents, children |-> p.children, filters |-> p.filters]
        BY <3>3, <2>1, PolicyWith DEF p
      <3>5. ps[n].graph = g
        BY <3>4
      <3> QED BY <3>2, <3>4, <3>5 DEF p
    <2>4. CASE n \notin fixed
      <3>1. ps[n] = l.policies[n]
        BY <2>4
      <3> QED BY <3>1, <2>1 DEF PolicyShape
    <2> QED BY <2>3, <2>4
  <1>3. DOMAIN ps = DOMAIN l.policies
    OBVIOUS
  <1> HIDE DEF ps
  <1>8. \A n \in DOMAIN l.policies :
          /\ ps[n].doc = l.policies[n].doc /\ ps[n].local = l.policies[n].local
          /\ ps[n].invalidated = l.policies[n].invalidated /\ ps[n].parents = l.policies[n].parents
          /\ ps[n].children = l.policies[n].children /\ ps[n].filters = l.policies[n].filters
    <2> TAKE n \in DOMAIN l.policies
    <2> DEFINE g == ps[n].graph
    <2>1. ps[n] = [doc |-> l.policies[n].doc, local |-> l.policies[n].local, graph |-> g,
                   invalidated |-> l.policies[n].invalidated, parents |-> l.policies[n].parents,
                   children |-> l.policies[n].children, filters |-> l.policies[n].filters]
      BY <1>2
    <2> HIDE DEF g
    <2> QED BY <2>1
  <1>4. v.policies = ps /\ v.bundles = l.bundles /\ v.queries = l.queries
          /\ v.frameworks = l.frameworks /\ v.assetFramework = l.assetFramework
    BY <1>1
  <1>5. \A n \in DOMAIN l.policies : PolicyShape(ps[n])
    <2> TAKE n \in DOMAIN l.policies
    <2>1. PolicyShape(l.policies[n])
      BY DEF LakeShape
    <2> QED BY <2>1, <1>2, <1>8 DEF PolicyShape
  <1> HIDE DEF v
  <1>6. LakeShape(v)
    BY <1>1, <1>3, <1>4, <1>5 DEF LakeShape
  <1>7. Revalidated(l, v)
    BY <1>2, <1>3, <1>4, <1>8 DEF Revalidated
  <1> QED BY <1>4, <1>6, <1>7 DEF v

\* GetValidatedBundle of a stored policy succeeds, whatever is cached.  It leaves
\* the policies alone but for their graph checksums, and what it caches is
\* fresh, under the right checksum.
LEMMA BundleValidated ==
  ASSUME LakeAssumption, NEW l, LakeShape(l), LinksRight(l), GraphsRight(l), FrameworkRight(l),
         ContentsRight(l), NEW m \in DOMAIN l.policies, LocalsRight(l, Below(l, m))
  PROVE  LET r == GetValidatedBundle(l, m)
         IN  /\ r.err = FALSE
             /\ LakeShape(r.lake) /\ Revalidated(l, r.lake) /\ ContentsRight(r.lake)
             /\ m \in DOMAIN r.lake.bundles
             /\ r.lake.bundles[m].contents = Fresh(l, m)
             /\ \A n \in DOMAIN r.lake.bundles :
                  \/ n \in DOMAIN l.bundles /\ r.lake.bundles[n] = l.bundles[n]
                  \/ n \in DOMAIN l.policies /\ r.lake.bundles[n].sum = Sum(l, n)
             /\ r.lake.bundles[m].sum = Sum(l, m)
  <1> DEFINE r == GetValidatedBundle(l, m)
             stale == Stale(l)
             all == Computed(l, stale, m)
             new == {n \in all \cap stale : ~Fails(l, stale, n)}
             bs == [n \in DOMAIN l.bundles \cup new |->
                      IF n \in new
                        THEN [contents |-> Contents(l, stale, n), sum |-> Sum(l, n), invalidated |-> FALSE]
                        ELSE l.bundles[n]]
             v == Validated(l, all)
  <1>0. RefsStored(l)
    BY LinksStored
  <1>1. stale \in SUBSET DOMAIN l.policies
    BY DEF Stale
  <1>2. all \subseteq Below(l, m) /\ m \in all
    <2>1. all = Reach(Edges(l, stale), m)
      BY DEF Computed
    <2>2. Edges(l, stale) \in Links /\ m \in Mrns
      BY <1>1, EdgesLinks DEF LakeShape
    <2> HIDE DEF all, stale
    <2> QED BY <1>0, <1>1, <2>1, <2>2, PartsBelow, ReachStart
  <1>3. Below(l, m) \subseteq DOMAIN l.policies
    BY <1>0, BelowStored
  <1>4. \A n \in all : /\ n \in DOMAIN l.policies
                       /\ LocalsRight(l, Below(l, n))
                       /\ Contents(l, stale, n) = Fresh(l, n) /\ ~Fails(l, stale, n)
                       /\ Expand(Sum(l, n)) = Fresh(l, n)
    <2> TAKE n \in all
    <2>1. n \in Below(l, m) /\ n \in DOMAIN l.policies
      BY <1>2, <1>3
    <2>2. Below(l, n) \subseteq Below(l, m)
      BY <1>0, <2>1, BelowWithin
    <2>3. LocalsRight(l, Below(l, n))
      BY <2>2 DEF LocalsRight
    <2>4. Contents(l, stale, n) = Fresh(l, n) /\ ~Fails(l, stale, n)
      BY <1>0, <2>1, <2>3, ContentsFresh
    <2>5. Expand(Sum(l, n)) = Fresh(l, n)
      BY <1>0, <2>1, <2>3, ExpandFresh
    <2> QED BY <2>1, <2>3, <2>4, <2>5
  <1>5. r = [lake |-> [v EXCEPT !.bundles = bs], err |-> Fails(l, stale, m)]
    BY DEF GetValidatedBundle
  <1> HIDE DEF r, stale, all, v
  <1>6. new = all \cap stale
    BY <1>4
  <1>7. LakeShape(v) /\ Revalidated(l, v) /\ v.bundles = l.bundles
    BY ValidatedOnly DEF v
  <1>8. [v EXCEPT !.bundles = bs]
          = [policies |-> v.policies, bundles |-> bs, queries |-> v.queries,
             frameworks |-> v.frameworks, assetFramework |-> v.assetFramework]
    <2>1. v = [policies |-> v.policies, bundles |-> v.bundles, queries |-> v.queries,
               frameworks |-> v.frameworks, assetFramework |-> v.assetFramework]
      BY <1>7 DEF LakeShape
    <2> HIDE DEF bs
    <2> QED BY <2>1
  <1> DEFINE w == r.lake
  <1>9. /\ w = [policies |-> v.policies, bundles |-> bs, queries |-> v.queries,
                frameworks |-> v.frameworks, assetFramework |-> v.assetFramework]
        /\ r.err = FALSE
    <2>1. Fails(l, stale, m) = FALSE
      BY <1>2, <1>4 DEF Fails
    <2> HIDE DEF bs
    <2> QED BY <1>5, <1>8, <2>1
  <1>10. /\ w.policies = v.policies /\ w.bundles = bs /\ w.queries = v.queries
         /\ w.frameworks = v.frameworks /\ w.assetFramework = v.assetFramework
    <2> HIDE DEF bs, w
    <2> QED BY <1>9
  <1>11. DOMAIN bs = DOMAIN l.bundles \cup (all \cap stale)
    BY <1>6
  <1>12. \A n \in all \cap stale :
           bs[n] = [contents |-> Fresh(l, n), sum |-> Sum(l, n), invalidated |-> FALSE]
    BY <1>4, <1>6
  <1>13. \A n \in DOMAIN l.bundles : n \notin all \cap stale => bs[n] = l.bundles[n]
    BY <1>6
  <1> HIDE DEF bs, w, new
  <1>14. \A n \in DOMAIN bs : BundleShape(bs[n]) /\ bs[n].contents = Expand(bs[n].sum)
    <2> TAKE n \in DOMAIN bs
    <2>1. CASE n \in all \cap stale
      <3>1. bs[n] = [contents |-> Fresh(l, n), sum |-> Sum(l, n), invalidated |-> FALSE]
        BY <2>1, <1>12
      <3>2. bs[n].contents = Fresh(l, n) /\ bs[n].sum = Sum(l, n) /\ bs[n].invalidated = FALSE
        BY <3>1
      <3> QED BY <2>1, <3>1, <3>2, <1>4 DEF BundleShape
    <2>2. CASE n \notin all \cap stale
      <3>1. n \in DOMAIN l.bundles /\ bs[n] = l.bundles[n]
        BY <2>2, <1>11, <1>13
      <3> QED BY <3>1 DEF LakeShape, ContentsRight
    <2> QED BY <2>1, <2>2
  <1>15. LakeShape(w)
    BY <1>7, <1>9, <1>10, <1>14 DEF LakeShape
  <1>16. Revalidated(l, w)
    BY <1>7, <1>10 DEF Revalidated
  <1>17. ContentsRight(w)
    BY <1>10, <1>14 DEF ContentsRight
  <1>18. \A n \in DOMAIN bs : \/ n \in DOMAIN l.bundles /\ bs[n] = l.bundles[n]
                              \/ n \in DOMAIN l.policies /\ bs[n].sum = Sum(l, n)
    <2> TAKE n \in DOMAIN bs
    <2>1. CASE n \in all \cap stale
      <3>1. bs[n] = [contents |-> Fresh(l, n), sum |-> Sum(l, n), invalidated |-> FALSE]
        BY <2>1, <1>12
      <3> QED BY <2>1, <3>1, <1>4
    <2>2. CASE n \notin all \cap stale
      BY <2>2, <1>11, <1>13
    <2> QED BY <2>1, <2>2
  <1>19. m \in DOMAIN bs /\ bs[m].contents = Fresh(l, m) /\ bs[m].sum = Sum(l, m)
    <2>1. CASE m \in stale
      <3>1. bs[m] = [contents |-> Fresh(l, m), sum |-> Sum(l, m), invalidated |-> FALSE]
        BY <2>1, <1>2, <1>12
      <3> QED BY <2>1, <3>1, <1>2, <1>11
    <2>2. CASE m \notin stale
      <3>1. m \in DOMAIN l.bundles /\ l.bundles[m].sum = Sum(l, m)
        BY <2>2 DEF stale, Stale
      <3>2. bs[m] = l.bundles[m] /\ m \in DOMAIN bs
        BY <2>2, <3>1, <1>11, <1>13
      <3>3. l.bundles[m].contents = Expand(Sum(l, m))
        BY <3>1 DEF ContentsRight
      <3> QED BY <3>1, <3>2, <3>3, <1>2, <1>4
    <2> QED BY <2>1, <2>2
  <1> QED BY <1>9, <1>10, <1>15, <1>16, <1>17, <1>18, <1>19 DEF w, r

-----------------------------------------------------------------------------
(* Invalidation *)

\* What holds of the lake between the calls, and while they run.
Sound(l) ==
  /\ LakeShape(l) /\ LinksRight(l) /\ FiltersRight(l)
  /\ GraphsRight(l) /\ ContentsRight(l) /\ FrameworkRight(l)

\* v has the documents, the local checksums and the sums of l.
Frame(l, v) ==
  /\ DOMAIN v.policies = DOMAIN l.policies
  /\ \A n \in DOMAIN l.policies : /\ v.policies[n].doc = l.policies[n].doc
                                  /\ v.policies[n].local = l.policies[n].local
  /\ DOMAIN v.bundles = DOMAIN l.bundles
  /\ \A n \in DOMAIN l.bundles : v.bundles[n].sum = l.bundles[n].sum
  /\ v.queries = l.queries
  /\ v.frameworks = l.frameworks
  /\ v.assetFramework = l.assetFramework

\* Who is made of m is above it.
LEMMA BelowAbove ==
  ASSUME NEW l, LakeShape(l), LinksRight(l), NEW n \in DOMAIN l.policies,
         NEW m \in Below(l, n)
  PROVE  n \in Above(l, m)
  <1> DEFINE E == Edges(l, DOMAIN l.policies)
             back == {e \in (DOMAIN l.policies) \X Mrns : e[2] \in l.policies[e[1]].parents}
  <1>1. n \in Mrns
    BY DEF LakeShape
  <1>2. E \in Links
    BY EdgesLinks
  <1>3. back \in Links
    BY DEF LakeShape, Links
  <1>4. \A e \in E : <<e[2], e[1]>> \in back
    <2> TAKE e \in E
    <2>1. e[1] \in DOMAIN l.policies /\ e[1] \in Mrns /\ e[2] \in l.policies[e[1]].doc.refs
      BY DEF Edges, LakeShape
    <2>2. e[2] \in DOMAIN l.policies /\ e[1] \in l.policies[e[2]].parents
      BY <2>1 DEF LinksRight
    <2> QED BY <2>1, <2>2
  <1>5. m \in Reach(E, n)
    BY DEF Below
  <1> HIDE DEF E, back
  <1>6. n \in Reach(back, m)
    BY <1>1, <1>2, <1>3, <1>4, <1>5, ReachBack
  <1> QED BY <1>6 DEF Above, back

\* All parents are stored, so that invalidation comes to its end.
LEMMA AboveStored ==
  ASSUME NEW l, LakeShape(l), LinksRight(l), NEW m \in DOMAIN l.policies
  PROVE  Above(l, m) \subseteq DOMAIN l.policies /\ m \in Above(l, m)
  <1> DEFINE back == {e \in (DOMAIN l.policies) \X Mrns : e[2] \in l.policies[e[1]].parents}
  <1>1. m \in Mrns /\ DOMAIN l.policies \in SUBSET Mrns
    BY DEF LakeShape
  <1>2. back \in Links
    BY DEF LakeShape, Links
  <1>3. \A e \in back : e[2] \in DOMAIN l.policies
    BY DEF LinksRight
  <1> HIDE DEF back
  <1>4. Reach(back, m) \subseteq DOMAIN l.policies /\ m \in Reach(back, m)
    BY <1>1, <1>2, <1>3, ReachLeast, ReachStart
  <1> QED BY <1>4 DEF Above, back

\* After the ancestors of m are invalidated the checksums are right again, when
\* only those of m and of what is made of it were not.
LEMMA Invalidated ==
  ASSUME NEW l, LakeShape(l), LinksRight(l), FiltersRight(l), ContentsRight(l), FrameworkRight(l),
         NEW m \in DOMAIN l.policies,
         \A n \in DOMAIN l.policies :
           ~l.policies[n].invalidated => l.policies[n].graph = Full(l, n) \/ m \in Below(l, n)
  PROVE  LET r == invalidateAncestors(l, m)
         IN  r.err = FALSE /\ Sound(r.lake) /\ Frame(l, r.lake)
  <1> DEFINE above == Above(l, m)
             ps == [n \in DOMAIN l.policies |->
                      IF n \in above THEN [l.policies[n] EXCEPT !.invalidated = TRUE] ELSE l.policies[n]]
             bs == [n \in DOMAIN l.bundles |->
                      IF n \in above /\ Stored(l, n)
                        THEN [l.bundles[n] EXCEPT !.invalidated = TRUE] ELSE l.bundles[n]]
             r == invalidateAncestors(l, m)
             v == r.lake
  <1>1. above \subseteq DOMAIN l.policies
    BY AboveStored
  <1>2. r = [lake |-> [l EXCEPT !.policies = ps, !.bundles = bs],
             err |-> ~(above \subseteq DOMAIN l.policies)]
    BY DEF invalidateAncestors
  <1>3. l = [policies |-> l.policies, bundles |-> l.bundles, queries |-> l.queries,
             frameworks |-> l.frameworks, assetFramework |-> l.assetFramework]
    BY DEF LakeShape
  <1>4. \A n \in DOMAIN l.policies :
          /\ PolicyShape(ps[n])
          /\ ps[n].doc = l.policies[n].doc /\ ps[n].local = l.policies[n].local
          /\ ps[n].graph = l.policies[n].graph /\ ps[n].parents = l.policies[n].parents
          /\ ps[n].children = l.policies[n].children /\ ps[n].filters = l.policies[n].filters
          /\ ~ps[n].invalidated => n \notin above /\ ~l.policies[n].invalidated
    <2> TAKE n \in DOMAIN l.policies
    <2> DEFINE p == l.policies[n]
    <2>1. PolicyShape(p)
      BY DEF LakeShape
    <2>2. [p EXCEPT !.invalidated = TRUE]
            = [doc |-> p.doc, local |-> p.local, graph |-> p.graph, invalidated |-> TRUE,
               parents |-> p.parents, children |-> p.children, filters |-> p.filters]
      BY <2>1, PolicyWith
    <2>3. ps[n] = IF n \in above THEN [p EXCEPT !.invalidated = TRUE] ELSE p
      OBVIOUS
    <2> HIDE DEF ps, p, above
    <2>4. CASE n \in above
      BY <2>1, <2>2, <2>3, <2>4 DEF PolicyShape, p
    <2>5. CASE n \notin above
      BY <2>1, <2>3, <2>5 DEF p
    <2> QED BY <2>4, <2>5
  <1>5. \A n \in DOMAIN l.bundles :
          /\ BundleShape(bs[n])
          /\ bs[n].sum = l.bundles[n].sum /\ bs[n].contents = l.bundles[n].contents
    <2> TAKE n \in DOMAIN l.bundles
    <2> DEFINE b == l.bundles[n]
    <2>1. BundleShape(b)
      BY DEF LakeShape
    <2>2. [b EXCEPT !.invalidated = TRUE]
            = [contents |-> b.contents, sum |-> b.sum, invalidated |-> TRUE]
      BY <2>1, BundleWith
    <2>3. bs[n] = b \/ bs[n] = [b EXCEPT !.invalidated = TRUE]
      OBVIOUS
    <2> HIDE DEF bs, b
    <2> QED BY <2>1, <2>2, <2>3 DEF BundleShape, b
  <1>6. DOMAIN ps = DOMAIN l.policies /\ DOMAIN bs = DOMAIN l.bundles
    OBVIOUS
  <1> HIDE DEF ps, bs
  <1>7. /\ r.err = FALSE
        /\ v = [policies |-> ps, bundles |-> bs, queries |-> l.queries,
                frameworks |-> l.frameworks, assetFramework |-> l.assetFramework]
    <2> HIDE DEF r, above
    <2> QED BY <1>1, <1>2, <1>3
  <1> HIDE DEF r, v
  <1>8. /\ v.policies = ps /\ v.bundles = bs /\ v.queries = l.queries
        /\ v.frameworks = l.frameworks /\ v.assetFramework = l.assetFramework
    BY <1>7
  <1>9. LakeShape(v)
    BY <1>4, <1>5, <1>6, <1>7, <1>8 DEF LakeShape
  <1>10. LinksRight(v)
    BY <1>4, <1>6, <1>8 DEF LinksRight
  <1>11. RefsStored(l)
    BY LinksStored
  <1>12. (\A n : Below(v, n) = Below(l, n)) /\ \A n \in DOMAIN l.policies : Full(v, n) = Full(l, n)
    BY <1>4, <1>6, <1>8, <1>11, SameBelow, SameFull
  <1>13. FiltersRight(v)
    <2> SUFFICES ASSUME NEW n \in DOMAIN l.policies
                 PROVE  ps[n].filters = UNION {ps[k].doc.filters : k \in Below(l, n)}
      BY <1>6, <1>8, <1>12 DEF FiltersRight
    <2>1. Below(l, n) \subseteq DOMAIN l.policies
      BY <1>11, BelowStored
    <2> QED BY <2>1, <1>4 DEF FiltersRight
  <1>14. GraphsRight(v)
    <2> SUFFICES ASSUME NEW n \in DOMAIN l.policies, ~ps[n].invalidated
                 PROVE  ps[n].graph = Full(l, n)
      BY <1>6, <1>8, <1>12 DEF GraphsRight, GraphsRightOf
    <2>1. n \notin above /\ ~l.policies[n].invalidated /\ ps[n].graph = l.policies[n].graph
      BY <1>4
    <2>2. m \notin Below(l, n)
      BY <2>1, BelowAbove
    <2> QED BY <2>1, <2>2
  <1>15. ContentsRight(v)
    BY <1>5, <1>6, <1>8 DEF ContentsRight
  <1>16. FrameworkRight(v)
    BY <1>8 DEF FrameworkRight
  <1>17. Frame(l, v)
    BY <1>4, <1>5, <1>6, <1>8 DEF Frame
  <1> QED BY <1>7, <1>9, <1>10, <1>13, <1>14, <1>15, <1>16, <1>17 DEF Sound, v, r

\* A bundle that already has the new checksum of its policy is only kept when
\* the checksums are right without invalidation.
LEMMA Checked ==
  ASSUME NEW l, LakeShape(l), LinksRight(l), FiltersRight(l), ContentsRight(l), FrameworkRight(l),
         NEW m \in DOMAIN l.policies,
         \A n \in DOMAIN l.policies :
           ~l.policies[n].invalidated => l.policies[n].graph = Full(l, n) \/ m \in Below(l, n),
         GraphsRight(l) \/ ~(m \in DOMAIN l.bundles /\ l.bundles[m].sum.policy = l.policies[m].graph)
  PROVE  LET r == checkAndInvalidatePolicyBundle(l, m)
         IN  r.err = FALSE /\ Sound(r.lake) /\ Frame(l, r.lake)
  <1>1. CASE m \in DOMAIN l.bundles /\ l.bundles[m].sum.policy = l.policies[m].graph
    <2>1. checkAndInvalidatePolicyBundle(l, m) = [lake |-> l, err |-> FALSE]
      BY <1>1 DEF checkAndInvalidatePolicyBundle, Ok
    <2>2. Sound(l) /\ Frame(l, l)
      BY <1>1 DEF Sound, Frame
    <2> QED BY <2>1, <2>2
  <1>2. CASE ~(m \in DOMAIN l.bundles /\ l.bundles[m].sum.policy = l.policies[m].graph)
    <2>1. checkAndInvalidatePolicyBundle(l, m) = invalidateAncestors(l, m)
      BY <1>2 DEF checkAndInvalidatePolicyBundle
    <2> QED BY <2>1, Invalidated
  <1> QED BY <1>1, <1>2

-----------------------------------------------------------------------------
(* SetPolicy *)

\* What is below a policy: itself, and what is below what it is made of.
LEMMA BelowUnfold ==
  ASSUME NEW l, LakeShape(l), RefsStored(l), NEW m \in DOMAIN l.policies
  PROVE  Below(l, m) = {m} \cup UNION {Below(l, c) : c \in l.policies[m].doc.refs}
  <1> DEFINE refs == l.policies[m].doc.refs
             All == {m} \cup UNION {Below(l, c) : c \in refs}
             E == Edges(l, DOMAIN l.policies)
  <1>1. m \in Mrns /\ refs \subseteq DOMAIN l.policies /\ DOMAIN l.policies \subseteq Mrns
    BY DEF LakeShape, RefsStored
  <1>2. E \in Links
    BY EdgesLinks
  <1>3. \A c \in DOMAIN l.policies : c \in Below(l, c) /\ Below(l, c) \subseteq DOMAIN l.policies
    BY BelowStored
  <1>4. All \subseteq Below(l, m)
    <2> SUFFICES ASSUME NEW c \in refs
                 PROVE  Below(l, c) \subseteq Below(l, m)
      BY <1>3
    <2> DEFINE e == <<m, c>>
    <2>1. e \in E /\ e[1] = m /\ e[2] = c
      BY <1>1 DEF Edges
    <2>2. m \in Reach(E, m)
      BY <1>1, <1>2, ReachStart
    <2> HIDE DEF E, e
    <2>3. c \in Reach(E, m)
      BY <1>1, <1>2, <2>1, <2>2, ReachFollows
    <2> QED BY <2>3, BelowWithin DEF Below, E
  <1>5. Below(l, m) \subseteq All
    <2>1. All \in SUBSET Mrns /\ m \in All
      BY <1>1, <1>3
    <2>2. ASSUME NEW e \in E, e[1] \in All
          PROVE  e[2] \in All
      <3>1. e[1] \in DOMAIN l.policies /\ e[2] \in l.policies[e[1]].doc.refs
        BY DEF Edges
      <3>2. CASE e[1] = m
        BY <1>1, <1>3, <3>1, <3>2
      <3>3. CASE e[1] # m
        <4>1. PICK c \in refs : e[1] \in Below(l, c)
          BY <2>2, <3>3
        <4>2. c \in Mrns
          BY <1>1
        <4>3. e[2] \in Below(l, c)
          BY <1>2, <4>1, <4>2, ReachFollows DEF Below
        <4> QED BY <4>3
      <3> QED BY <3>2, <3>3
    <2>3. \A e \in E : e[1] \in All => e[2] \in All
      BY <2>2
    <2>4. Below(l, m) = Reach(E, m)
      BY DEF Below
    <2> HIDE DEF All, E
    <2> QED BY <1>1, <1>2, <2>1, <2>3, <2>4, ReachLeast
  <1> QED BY <1>4, <1>5

\* What setPolicy may be given for m: what the document names is stored, and a
\* policy keeps what it is made of and its filters.
Settable(l, m, doc) ==
  /\ m \in Mrns
  /\ doc.refs \subseteq Policies \cap DOMAIN l.policies
  /\ doc.queries \subseteq Queries
  /\ m \notin doc.refs
  /\ Stored(l, m) =>
       /\ m # Asset
       /\ doc.refs = l.policies[m].doc.refs
       /\ doc.filters = l.policies[m].doc.filters

\* w is l with m made anew.
Remade(l, w, m, doc, local, graph) ==
  /\ LakeShape(w)
  /\ DOMAIN w.policies = DOMAIN l.policies \cup {m}
  /\ w.policies[m].doc = doc /\ w.policies[m].local = local
  /\ w.policies[m].graph = graph /\ w.policies[m].invalidated = FALSE
  /\ w.policies[m].parents = IF Stored(l, m) THEN l.policies[m].parents ELSE {}
  /\ w.policies[m].children = doc.refs /\ w.policies[m].filters = Filters(l, doc)
  /\ \A n \in DOMAIN l.policies \ {m} :
       /\ w.policies[n].doc = l.policies[n].doc /\ w.policies[n].local = l.policies[n].local
       /\ w.policies[n].graph = l.policies[n].graph
       /\ w.policies[n].invalidated = l.policies[n].invalidated
       /\ w.policies[n].parents
            = l.policies[n].parents \cup (IF n \in doc.refs THEN {m} ELSE {})
       /\ w.policies[n].children = l.policies[n].children
       /\ w.policies[n].filters = l.policies[n].filters
  /\ w.bundles = l.bundles /\ w.queries = l.queries
  /\ w.frameworks = l.frameworks /\ w.assetFramework = l.assetFramework

\* setPolicy does that.
LEMMA WithPolicyShape ==
  ASSUME NEW l, LakeShape(l), NEW m, NEW doc, Settable(l, m, doc), NEW local, NEW graph
  PROVE  Remade(l, WithPolicy(l, m, doc, local, graph), m, doc, local, graph)
  <1> DEFINE new == [doc |-> doc, local |-> local, graph |-> graph, invalidated |-> FALSE,
                     parents |-> IF Stored(l, m) THEN l.policies[m].parents ELSE {},
                     children |-> doc.refs, filters |-> Filters(l, doc)]
             ps == [n \in DOMAIN l.policies \cup {m} |->
                      IF n = m THEN new
                      ELSE IF n \in doc.refs THEN [l.policies[n] EXCEPT !.parents = @ \cup {m}]
                      ELSE l.policies[n]]
             w == WithPolicy(l, m, doc, local, graph)
  <1>1. w = [l EXCEPT !.policies = ps]
    BY DEF WithPolicy
  <1>2. l = [policies |-> l.policies, bundles |-> l.bundles, queries |-> l.queries,
             frameworks |-> l.frameworks, assetFramework |-> l.assetFramework]
    BY DEF LakeShape
  <1>3. DOMAIN ps = DOMAIN l.policies \cup {m} /\ ps[m] = new
    OBVIOUS
  <1>4. PolicyShape(new)
    BY DEF Settable, PolicyShape
  <1>5. \A n \in DOMAIN l.policies \ {m} :
          /\ PolicyShape(ps[n])
          /\ ps[n].doc = l.policies[n].doc /\ ps[n].local = l.policies[n].local
          /\ ps[n].graph = l.policies[n].graph /\ ps[n].invalidated = l.policies[n].invalidated
          /\ ps[n].parents = l.policies[n].parents \cup (IF n \in doc.refs THEN {m} ELSE {})
          /\ ps[n].children = l.policies[n].children /\ ps[n].filters = l.policies[n].filters
    <2> TAKE n \in DOMAIN l.policies \ {m}
    <2> DEFINE p == l.policies[n]
               x == p.parents \cup {m}
    <2>1. PolicyShape(p)
      BY DEF LakeShape
    <2>2. [p EXCEPT !.parents = x]
            = [doc |-> p.doc, local |-> p.local, graph |-> p.graph, invalidated |-> p.invalidated,
               parents |-> x, children |-> p.children, filters |-> p.filters]
      BY <2>1, PolicyWith
    <2>3. ps[n] = IF n \in doc.refs THEN [p EXCEPT !.parents = x] ELSE p
      OBVIOUS
    <2> HIDE DEF ps, p
    <2>4. CASE n \in doc.refs
      BY <2>1, <2>2, <2>3, <2>4 DEF PolicyShape, p
    <2>5. CASE n \notin doc.refs
      BY <2>1, <2>3, <2>5 DEF p
    <2> QED BY <2>4, <2>5
  <1> HIDE DEF ps
  <1>6. w = [policies |-> ps, bundles |-> l.bundles, queries |-> l.queries,
             frameworks |-> l.frameworks, assetFramework |-> l.assetFramework]
    <2> HIDE DEF w
    <2> QED BY <1>1, <1>2
  <1> HIDE DEF w
  <1>7. /\ w.policies = ps /\ w.bundles = l.bundles /\ w.queries = l.queries
        /\ w.frameworks = l.frameworks /\ w.assetFramework = l.assetFramework
    BY <1>6
  <1>8. \A n \in DOMAIN ps : PolicyShape(ps[n])
    BY <1>3, <1>4, <1>5
  <1>9. DOMAIN ps \subseteq Mrns
    BY <1>3 DEF LakeShape, Settable
  <1>10. LakeShape(w)
    BY <1>6, <1>7, <1>8, <1>9 DEF LakeShape
  <1>11. /\ ps[m].doc = doc /\ ps[m].local = local /\ ps[m].graph = graph /\ ps[m].invalidated = FALSE
         /\ ps[m].parents = IF Stored(l, m) THEN l.policies[m].parents ELSE {}
         /\ ps[m].children = doc.refs /\ ps[m].filters = Filters(l, doc)
    BY <1>3
  <1> QED BY <1>3, <1>5, <1>7, <1>10, <1>11 DEF w, Remade

\* Walks from the policies that were there are what they were.
LEMMA WithPolicyBelow ==
  ASSUME NEW l, LakeShape(l), LinksRight(l), NEW m, NEW doc, Settable(l, m, doc),
         NEW local, NEW graph
  PROVE  LET w == WithPolicy(l, m, doc, local, graph)
         IN  /\ LinksRight(w)
             /\ \A n \in DOMAIN l.policies : Below(w, n) = Below(l, n)
             /\ Below(w, m) = {m} \cup UNION {Below(l, c) : c \in doc.refs}
  <1> DEFINE w == WithPolicy(l, m, doc, local, graph)
             E == Edges(l, DOMAIN l.policies)
             F == Edges(w, DOMAIN w.policies)
  <1>0. Remade(l, w, m, doc, local, graph)
    BY WithPolicyShape
  <1> HIDE DEF w
  <1>1. /\ LakeShape(w)
        /\ DOMAIN w.policies = DOMAIN l.policies \cup {m}
        /\ w.policies[m].doc = doc
        /\ w.policies[m].parents = IF Stored(l, m) THEN l.policies[m].parents ELSE {}
        /\ w.policies[m].children = doc.refs
        /\ \A n \in DOMAIN l.policies \ {m} :
             /\ w.policies[n].doc = l.policies[n].doc
             /\ w.policies[n].parents = l.policies[n].parents \cup (IF n \in doc.refs THEN {m} ELSE {})
             /\ w.policies[n].children = l.policies[n].children
    BY <1>0 DEF Remade
  <1>2. LinksRight(w)
    <2> SUFFICES ASSUME NEW n \in DOMAIN w.policies
                 PROVE  /\ \A c \in w.policies[n].doc.refs :
                             c \in DOMAIN w.policies /\ n \in w.policies[c].parents
                        /\ \A p \in w.policies[n].parents :
                             p \in DOMAIN w.policies /\ (p # Asset => n \in w.policies[p].doc.refs)
                        /\ n # Asset => w.policies[n].children = w.policies[n].doc.refs
      BY DEF LinksRight
    <2>1. CASE n = m
      <3>1. \A c \in doc.refs : c \in DOMAIN l.policies \ {m}
        BY DEF Settable
      <3>2. \A c \in doc.refs : m \in w.policies[c].parents
        BY <1>1, <3>1
      <3>3. \A p \in w.policies[m].parents :
              /\ Stored(l, m) /\ p \in DOMAIN l.policies
              /\ p # Asset => m \in l.policies[p].doc.refs
        BY <1>1 DEF LinksRight, Stored
      <3>4. \A p \in w.policies[m].parents : p # Asset => m \in w.policies[p].doc.refs
        BY <1>1, <3>3 DEF Settable
      <3> QED BY <1>1, <2>1, <3>1, <3>2, <3>3, <3>4
    <2>2. CASE n # m
      <3>1. n \in DOMAIN l.policies \ {m}
        BY <1>1, <2>2
      <3>2. \A c \in l.policies[n].doc.refs : c \in DOMAIN l.policies /\ n \in l.policies[c].parents
        BY <3>1 DEF LinksRight
      <3>3. \A c \in w.policies[n].doc.refs : c \in DOMAIN w.policies /\ n \in w.policies[c].parents
        BY <1>1, <3>1, <3>2 DEF Stored
      <3>4. \A p \in l.policies[n].parents :
              p \in DOMAIN l.policies /\ (p # Asset => n \in l.policies[p].doc.refs)
        BY <3>1 DEF LinksRight
      <3>5. ASSUME NEW p \in w.policies[n].parents
            PROVE  p \in DOMAIN w.policies /\ (p # Asset => n \in w.policies[p].doc.refs)
        <4>1. CASE p \in l.policies[n].parents
          <5>1. CASE p = m
            BY <1>1, <3>4, <4>1, <5>1 DEF Settable, Stored
          <5>2. CASE p # m
            BY <1>1, <3>4, <4>1, <5>2
          <5> QED BY <5>1, <5>2
        <4>2. CASE p \notin l.policies[n].parents
          <5>1. p = m /\ n \in doc.refs
            BY <1>1, <3>1, <3>5, <4>2
          <5> QED BY <1>1, <5>1
        <4> QED BY <4>1, <4>2
      <3>6. n # Asset => w.policies[n].children = w.policies[n].doc.refs
        BY <1>1, <3>1 DEF LinksRight
      <3> QED BY <3>3, <3>5, <3>6
    <2> QED BY <2>1, <2>2
  <1>3. RefsStored(l) /\ RefsStored(w)
    BY <1>1, <1>2, LinksStored
  <1>4. ASSUME NEW n \in DOMAIN l.policies
        PROVE  Below(w, n) = Below(l, n)
    <2>1. n \in Mrns /\ E \in Links /\ F \in Links
      BY <1>1, EdgesLinks DEF LakeShape
    <2>2. Reach(E, n) \subseteq DOMAIN l.policies
      BY <1>3, BelowStored DEF Below
    <2>3. \A e \in E \cup F : e[1] \in DOMAIN l.policies => (e \in E <=> e \in F)
      <3> SUFFICES ASSUME NEW e \in E \cup F, e[1] \in DOMAIN l.policies
                   PROVE  l.policies[e[1]].doc.refs = w.policies[e[1]].doc.refs
        BY <1>1 DEF Edges
      <3> QED BY <1>1 DEF Settable, Stored
    <2> HIDE DEF E, F
    <2>4. Reach(F, n) = Reach(E, n)
      BY <2>1, <2>2, <2>3, ReachAgree
    <2> QED BY <2>4 DEF Below, E, F
  <1>5. Below(w, m) = {m} \cup UNION {Below(w, c) : c \in doc.refs}
    BY <1>1, <1>3, BelowUnfold
  <1>6. doc.refs \subseteq DOMAIN l.policies
    BY DEF Settable
  <1> QED BY <1>2, <1>4, <1>5, <1>6 DEF w

\* The lake with m made anew, when its graph checksum is right.
LEMMA WithPolicySound ==
  ASSUME NEW l, Sound(l), NEW m, NEW doc, Settable(l, m, doc), NEW local, NEW graph
  PROVE  LET w == WithPolicy(l, m, doc, local, graph)
         IN  /\ LakeShape(w) /\ LinksRight(w) /\ FiltersRight(w)
             /\ ContentsRight(w) /\ FrameworkRight(w)
             /\ \A n \in DOMAIN w.policies :
                  ~w.policies[n].invalidated =>
                    w.policies[n].graph = Full(w, n) \/ m \in Below(w, n)
             /\ ~Stored(l, m) /\ graph = Full(w, m) => GraphsRight(w)
  <1> DEFINE w == WithPolicy(l, m, doc, local, graph)
  <1>1. LakeShape(l) /\ LinksRight(l) /\ FiltersRight(l) /\ GraphsRight(l) /\ RefsStored(l)
    BY LinksStored DEF Sound
  <1>2. Remade(l, w, m, doc, local, graph)
    BY <1>1, WithPolicyShape
  <1>3. /\ LinksRight(w)
        /\ \A n \in DOMAIN l.policies : Below(w, n) = Below(l, n)
        /\ Below(w, m) = {m} \cup UNION {Below(l, c) : c \in doc.refs}
    BY <1>1, WithPolicyBelow
  <1> HIDE DEF w
  <1>4. /\ LakeShape(w)
        /\ DOMAIN w.policies = DOMAIN l.policies \cup {m}
        /\ w.policies[m].doc = doc /\ w.policies[m].graph = graph
        /\ w.policies[m].filters = Filters(l, doc)
        /\ \A n \in DOMAIN l.policies \ {m} :
             /\ w.policies[n].doc = l.policies[n].doc /\ w.policies[n].local = l.policies[n].local
             /\ w.policies[n].graph = l.policies[n].graph
             /\ w.policies[n].invalidated = l.policies[n].invalidated
             /\ w.policies[n].filters = l.policies[n].filters
        /\ w.bundles = l.bundles /\ w.frameworks = l.frameworks
        /\ w.assetFramework = l.assetFramework
    BY <1>2 DEF Remade
  <1>5. \A n \in DOMAIN l.policies : Below(l, n) \subseteq DOMAIN l.policies
    BY <1>1, BelowStored
  <1>6. \A k \in DOMAIN l.policies : w.policies[k].doc.filters = l.policies[k].doc.filters
    BY <1>4 DEF Settable, Stored
  <1>7. FiltersRight(w)
    <2> DEFINE Fl(n) == l.policies[n].doc.filters
    <2>1. \A n \in DOMAIN l.policies : l.policies[n].filters = UNION {Fl(k) : k \in Below(l, n)}
      BY <1>1 DEF FiltersRight
    <2>2. \A n \in DOMAIN l.policies \ {m} :
            w.policies[n].filters = UNION {w.policies[k].doc.filters : k \in Below(w, n)}
      BY <1>4, <1>3, <1>5, <1>6, <2>1
    <2>3. w.policies[m].filters = UNION {w.policies[k].doc.filters : k \in Below(w, m)}
      <3>1. w.policies[m].filters
              = doc.filters \cup UNION {UNION {Fl(k) : k \in Below(l, c)} : c \in doc.refs}
        BY <1>4, <2>1 DEF Filters, Settable
      <3>2. \A c \in doc.refs : Below(l, c) \subseteq DOMAIN l.policies
        BY <1>5 DEF Settable
      <3>3. \A c \in doc.refs : \A k \in Below(l, c) : w.policies[k].doc.filters = Fl(k)
        BY <1>6, <3>2
      <3>4. UNION {w.policies[k].doc.filters : k \in Below(w, m)}
              = w.policies[m].doc.filters \cup
                UNION {UNION {w.policies[k].doc.filters : k \in Below(l, c)} : c \in doc.refs}
        BY <1>3
      <3> HIDE DEF Fl
      <3>5. UNION {UNION {w.policies[k].doc.filters : k \in Below(l, c)} : c \in doc.refs}
              = UNION {UNION {Fl(k) : k \in Below(l, c)} : c \in doc.refs}
        BY <3>3
      <3> QED BY <1>4, <3>1, <3>4, <3>5
    <2> QED BY <1>4, <2>2, <2>3 DEF FiltersRight
  <1>8. \A n \in DOMAIN l.policies \ {m} : m \notin Below(l, n) => Full(w, n) = Full(l, n)
    BY <1>4, <1>3, <1>5 DEF Full
  <1>9. \A n \in DOMAIN l.policies \ {m} :
          ~w.policies[n].invalidated /\ m \notin Below(l, n) => w.policies[n].graph = Full(w, n)
    BY <1>1, <1>4, <1>8 DEF GraphsRight, GraphsRightOf
  <1>10. \A n \in DOMAIN w.policies :
          ~w.policies[n].invalidated => w.policies[n].graph = Full(w, n) \/ m \in Below(w, n)
    BY <1>4, <1>3, <1>9
  <1>11. ASSUME ~Stored(l, m), graph = Full(w, m)
         PROVE  GraphsRight(w)
    <2>1. \A n \in DOMAIN l.policies : n # m /\ m \notin Below(l, n)
      BY <1>5, <1>11 DEF Stored
    <2> QED BY <1>4, <1>9, <1>11, <2>1 DEF GraphsRight, GraphsRightOf
  <1>12. ContentsRight(w) /\ FrameworkRight(w)
    BY <1>4 DEF Sound, ContentsRight, FrameworkRight
  <1> QED BY <1>4, <1>3, <1>7, <1>10, <1>11, <1>12 DEF w

\* The checksums of m, the stored one and that of its bundle, name its version.
Versioned(l, m, doc, local, graph) ==
  /\ local[1] = m
  /\ local \in graph
  /\ Stored(l, m) =>
       /\ l.policies[m].local = local => l.policies[m].doc = doc
       /\ m \in DOMAIN l.bundles =>
            \A x \in l.bundles[m].sum.policy : x[1] = m => x = l.policies[m].local

\* setPolicy stores the policy, and what is computed from it is right or
\* invalidated.
LEMMA PolicySet ==
  ASSUME NEW l, Sound(l), NEW m, NEW doc, Settable(l, m, doc), NEW local, NEW graph,
         Versioned(l, m, doc, local, graph),
         graph = Full(WithPolicy(l, m, doc, local, graph), m)
  PROVE  LET r == setPolicy(l, m, doc, local, graph)
         IN  /\ r.err = FALSE /\ Sound(r.lake)
             /\ Frame(WithPolicy(l, m, doc, local, graph), r.lake)
  <1> DEFINE w == WithPolicy(l, m, doc, local, graph)
             r == setPolicy(l, m, doc, local, graph)
  <1>1. LakeShape(l) /\ LinksRight(l) /\ FiltersRight(l) /\ GraphsRight(l) /\ ContentsRight(l)
          /\ FrameworkRight(l)
    BY DEF Sound
  <1>2. /\ DOMAIN w.policies = DOMAIN l.policies \cup {m}
        /\ w.policies[m].doc = doc /\ w.policies[m].local = local /\ w.policies[m].graph = graph
        /\ \A n \in DOMAIN l.policies \ {m} :
             w.policies[n].doc = l.policies[n].doc /\ w.policies[n].local = l.policies[n].local
        /\ w.bundles = l.bundles /\ w.queries = l.queries /\ w.frameworks = l.frameworks
        /\ w.assetFramework = l.assetFramework
    <2>1. Remade(l, w, m, doc, local, graph)
      BY <1>1, WithPolicyShape
    <2> HIDE DEF w
    <2> QED BY <2>1 DEF Remade
  <1>3. CASE Stored(l, m) /\ l.policies[m].local = local
    <2>1. \A v : Frame(l, v) => Frame(w, v)
      <3> HIDE DEF w
      <3> QED BY <1>2, <1>3 DEF Frame, Stored, Versioned
    <2>2. CASE l.policies[m].graph = graph
      <3>1. r = [lake |-> l, err |-> FALSE]
        BY <1>3, <2>2 DEF setPolicy, Ok
      <3>2. Frame(l, l)
        BY DEF Frame
      <3> QED BY <2>1, <3>1, <3>2
    <2>3. CASE l.policies[m].graph # graph
      <3>1. r = checkAndInvalidatePolicyBundle(l, m)
        BY <1>3, <2>3 DEF setPolicy
      <3>2. m \in DOMAIN l.policies
        BY <1>3 DEF Stored
      <3>3. r.err = FALSE /\ Sound(r.lake) /\ Frame(l, r.lake)
        BY <1>1, <3>1, <3>2, Checked DEF GraphsRight, GraphsRightOf
      <3> QED BY <2>1, <3>3
    <2> QED BY <2>2, <2>3
  <1>4. CASE ~(Stored(l, m) /\ l.policies[m].local = local)
    <2>1. r = checkAndInvalidatePolicyBundle(w, m)
      BY <1>4 DEF setPolicy
    <2>2. /\ LakeShape(w) /\ LinksRight(w) /\ FiltersRight(w)
          /\ ContentsRight(w) /\ FrameworkRight(w)
          /\ \A n \in DOMAIN w.policies :
               ~w.policies[n].invalidated => w.policies[n].graph = Full(w, n) \/ m \in Below(w, n)
          /\ ~Stored(l, m) /\ graph = Full(w, m) => GraphsRight(w)
      BY WithPolicySound
    <2>3. GraphsRight(w) \/ ~(m \in DOMAIN w.bundles /\ w.bundles[m].sum.policy = w.policies[m].graph)
      <3> HIDE DEF w
      <3>1. CASE Stored(l, m)
        BY <1>2, <1>4, <3>1 DEF Versioned
      <3>2. CASE ~Stored(l, m)
        BY <2>2, <3>2 DEF w
      <3> QED BY <3>1, <3>2
    <2>4. m \in DOMAIN w.policies
      BY <1>2
    <2> HIDE DEF w, r
    <2>5. r.err = FALSE /\ Sound(r.lake) /\ Frame(w, r.lake)
      BY <2>1, <2>2, <2>3, <2>4, Checked
    <2> QED BY <2>5 DEF w, r
  <1> QED BY <1>3, <1>4

-----------------------------------------------------------------------------
(* SetBundle *)

\* v has the documents, the local checksums, the queries and the frameworks of l.
SameStored(l, v) ==
  /\ DOMAIN v.policies = DOMAIN l.policies
  /\ \A n \in DOMAIN l.policies : /\ v.policies[n].doc = l.policies[n].doc
                                  /\ v.policies[n].local = l.policies[n].local
  /\ v.queries = l.queries
  /\ v.frameworks = l.frameworks
  /\ v.assetFramework = l.assetFramework

\* Such a v comes from the same bundles.
LEMMA OriginsKept ==
  ASSUME NEW l, NEW v, Origins(l), DOMAIN v.policies \subseteq DOMAIN l.policies,
         \A n \in DOMAIN v.policies : /\ v.policies[n].doc = l.policies[n].doc
                                      /\ v.policies[n].local = l.policies[n].local
  PROVE  Origins(v)
  <1> SUFFICES ASSUME NEW p \in DOMAIN v.policies
               PROVE  IF p = Asset
                      THEN v.policies[p].doc = [version |-> 0, refs |-> v.policies[p].doc.refs,
                                                queries |-> {}, filters |-> {}]
                      ELSE \E b \in Bundles :
                             /\ Outside(b) = {} /\ p \in DOMAIN b.policies
                             /\ v.policies[p].doc = b.policies[p]
                             /\ v.policies[p].local = LocalChecksum(p, b.policies[p], b.queries)
    BY DEF Origins
  <1>1. /\ p \in DOMAIN l.policies
        /\ v.policies[p].doc = l.policies[p].doc /\ v.policies[p].local = l.policies[p].local
    OBVIOUS
  <1> QED BY <1>1 DEF Origins

\* The asset only names policies.
LEMMA AssetNames ==
  ASSUME NEW l, Origins(l), Asset \in DOMAIN l.policies
  PROVE  LET doc == l.policies[Asset].doc
         IN  /\ doc = [version |-> 0, refs |-> doc.refs, queries |-> {}, filters |-> {}]
             /\ doc.queries = {} /\ doc.filters = {}
  <1> DEFINE doc == l.policies[Asset].doc
  <1>1. doc = [version |-> 0, refs |-> doc.refs, queries |-> {}, filters |-> {}]
    BY DEF Origins
  <1> HIDE DEF doc
  <1>2. doc.queries = {} /\ doc.filters = {}
    BY <1>1
  <1> QED BY <1>1, <1>2 DEF doc

\* A new bundle has the version of its policy in its checksum.
LEMMA SumNamed ==
  ASSUME LakeAssumption, NEW l, LakeShape(l), RefsStored(l), GraphsRight(l), Origins(l),
         NEW n \in DOMAIN l.policies, n # Asset,
         NEW x \in Sum(l, n).policy, x[1] = n
  PROVE  x = l.policies[n].local
  <1>1. x \in Full(l, n)
    BY ValidGraph DEF Sum
  <1>2. PICK k \in Below(l, n) : x = l.policies[k].local
    BY <1>1 DEF Full
  <1>3. k # Asset /\ k \in DOMAIN l.policies
    BY AssetOnTop, BelowStored
  <1>4. PICK b \in Bundles : l.policies[k].local = LocalChecksum(k, b.policies[k], b.queries)
    BY <1>3 DEF Origins
  <1>5. l.policies[k].local[1] = k
    BY <1>4 DEF LocalChecksum
  <1> QED BY <1>2, <1>5

\* GetValidatedBundle keeps what is right.
LEMMA BundleSound ==
  ASSUME LakeAssumption, NEW l, Sound(l), Origins(l), NEW m \in DOMAIN l.policies,
         LocalsRight(l, Below(l, m)),
         \A n \in (DOMAIN l.policies \cap DOMAIN l.bundles) \ {m, Asset} :
           \A x \in l.bundles[n].sum.policy : x[1] = n => x = l.policies[n].local
  PROVE  LET r == GetValidatedBundle(l, m)
         IN  /\ r.err = FALSE
             /\ Sound(r.lake) /\ Origins(r.lake) /\ SumsRight(r.lake) /\ SameStored(l, r.lake)
  <1> DEFINE r == GetValidatedBundle(l, m)
             v == r.lake
  <1>1. LakeShape(l) /\ LinksRight(l) /\ FiltersRight(l) /\ GraphsRight(l) /\ ContentsRight(l)
          /\ FrameworkRight(l) /\ RefsStored(l)
    BY LinksStored DEF Sound
  <1>2. /\ r.err = FALSE
        /\ LakeShape(v) /\ Revalidated(l, v) /\ ContentsRight(v)
        /\ \A n \in DOMAIN v.bundles :
             \/ n \in DOMAIN l.bundles /\ v.bundles[n] = l.bundles[n]
             \/ n \in DOMAIN l.policies /\ v.bundles[n].sum = Sum(l, n)
        /\ v.bundles[m].sum = Sum(l, m)
    BY <1>1, BundleValidated
  <1> HIDE DEF r, v
  <1>3. Sound(v)
    BY <1>1, <1>2, RevalidatedKeeps DEF Sound
  <1>4. SameStored(l, v)
    BY <1>2 DEF Revalidated, SameStored
  <1>5. Origins(v)
    BY <1>4, OriginsKept DEF SameStored
  <1>6. SumsRight(v)
    <2> SUFFICES ASSUME NEW n \in DOMAIN v.policies \cap DOMAIN v.bundles, n # Asset,
                        NEW x \in v.bundles[n].sum.policy, x[1] = n
                 PROVE  x = v.policies[n].local
      BY DEF SumsRight
    <2>1. n \in DOMAIN l.policies /\ v.policies[n].local = l.policies[n].local
      BY <1>4 DEF SameStored
    <2>2. CASE v.bundles[n].sum = Sum(l, n)
      BY <1>1, <2>1, <2>2, SumNamed
    <2>3. CASE v.bundles[n].sum # Sum(l, n)
      BY <1>2, <2>1, <2>3
    <2> QED BY <2>2, <2>3
  <1> QED BY <1>2, <1>3, <1>4, <1>5, <1>6 DEF r, v

\* An upload of b has come to all policies but those in rest.
UploadAt(l, b, rest) ==
  /\ b \in Bundles /\ Outside(b) = {} /\ rest \subseteq DOMAIN b.policies
  /\ \A p \in DOMAIN b.policies \ rest :
       /\ p \in DOMAIN l.policies /\ l.policies[p].doc = b.policies[p]
       /\ b.policies[p].refs \cap rest = {}
  /\ \A q \in DOMAIN b.queries : l.queries[q] = b.queries[q]

\* UpdateChecksums finds in the bundle what the lake has.
LEMMA UploadGraph ==
  ASSUME LakeAssumption, NEW l, LakeShape(l), LinksRight(l), NEW b, NEW rest, UploadAt(l, b, rest),
         LocalsRight(l, DOMAIN l.policies \ rest),
         NEW m \in rest, b.policies[m].refs \cap rest = {},
         Settable(l, m, b.policies[m]), NEW graph
  PROVE  LET w == WithPolicy(l, m, b.policies[m], LocalChecksum(m, b.policies[m], b.queries), graph)
         IN  /\ BundleGraph(b, m) = Full(w, m)
             /\ Below(w, m) \subseteq (DOMAIN b.policies \ rest) \cup {m}
             /\ LocalsRight(w, Below(w, m))
  <1> DEFINE doc == b.policies[m]
             local == LocalChecksum(m, doc, b.queries)
             w == WithPolicy(l, m, doc, local, graph)
             P == DOMAIN b.policies \ rest
             F == Edges(w, DOMAIN w.policies)
             G == BundleEdges(b)
  <1>1. Remade(l, w, m, doc, local, graph)
    BY WithPolicyShape
  <1>2. /\ b \in Bundles /\ m \in DOMAIN b.policies /\ m \notin P
        /\ DOMAIN b.policies \subseteq Policies /\ Policies \subseteq Mrns
        /\ \A p \in DOMAIN b.policies : /\ b.policies[p].refs \subseteq DOMAIN b.policies
                                        /\ b.policies[p].queries \subseteq DOMAIN b.queries
    BY DEF UploadAt, LakeAssumption, Mrns, Outside
  <1> HIDE DEF w
  <1>3. /\ LakeShape(w) /\ w.policies[m].doc = doc /\ w.policies[m].local = local
        /\ w.queries = l.queries /\ m \in DOMAIN w.policies /\ P \subseteq DOMAIN w.policies
        /\ \A n \in P : /\ w.policies[n].doc = b.policies[n]
                        /\ w.policies[n].local = l.policies[n].local
    BY <1>1, <1>2 DEF Remade, UploadAt
  <1>4. \A n \in P : b.policies[n].refs \subseteq P
    BY <1>2 DEF UploadAt
  <1>5. doc.refs \subseteq P
    BY <1>2
  <1>6. m \in Mrns /\ F \in Links
    BY <1>2, <1>3, EdgesLinks
  <1>7. G \in Links
    BY <1>2 DEF BundleEdges, Links
  <1>8. Reach(F, m) \subseteq P \cup {m}
    <2>1. P \cup {m} \in SUBSET Mrns
      BY <1>2
    <2>2. \A e \in F : e[1] \in P \cup {m} => e[2] \in P \cup {m}
      BY <1>3, <1>4, <1>5 DEF Edges
    <2> HIDE DEF F, P
    <2> QED BY <1>6, <2>1, <2>2, ReachLeast
  <1>9. Reach(G, m) = Reach(F, m)
    <2>1. \A e \in F \cup G : e[1] \in P \cup {m} => (e \in F <=> e \in G)
      BY <1>2, <1>3 DEF Edges, BundleEdges
    <2> HIDE DEF F, G, P
    <2> QED BY <1>6, <1>7, <1>8, <2>1, ReachAgree
  <1>10. \A n \in P \cup {m} : /\ w.policies[n].local = LocalChecksum(n, b.policies[n], b.queries)
                               /\ w.policies[n].local = LocalChecksum(n, w.policies[n].doc, w.queries)
    <2> TAKE n \in P \cup {m}
    <2>1. n \in DOMAIN b.policies /\ w.policies[n].doc = b.policies[n]
      BY <1>2, <1>3
    <2>2. \A q \in b.policies[n].queries : l.queries[q] = b.queries[q]
      BY <1>2, <2>1 DEF UploadAt
    <2>3. LocalChecksum(n, b.policies[n], b.queries) = LocalChecksum(n, b.policies[n], l.queries)
      BY <2>2 DEF LocalChecksum
    <2>4. CASE n = m
      BY <1>3, <2>3, <2>4
    <2>5. CASE n # m
      <3>1. n \in P
        BY <2>5
      <3>2. n \in DOMAIN l.policies \ rest /\ l.policies[n].doc = b.policies[n]
        BY <3>1 DEF UploadAt
      <3>3. l.policies[n].local = LocalChecksum(n, b.policies[n], l.queries)
        BY <3>2 DEF LocalsRight
      <3> QED BY <1>3, <2>3, <3>1, <3>3
    <2> QED BY <2>4, <2>5
  <1>11. Below(w, m) = Reach(G, m)
    BY <1>9 DEF Below
  <1>12. BundleGraph(b, m) = Full(w, m)
    <2>1. BundleGraph(b, m) = {LocalChecksum(n, b.policies[n], b.queries) : n \in Below(w, m)}
      BY <1>11 DEF BundleGraph
    <2>2. Full(w, m) = {w.policies[n].local : n \in Below(w, m)}
      BY DEF Full
    <2>3. \A n \in Below(w, m) : w.policies[n].local = LocalChecksum(n, b.policies[n], b.queries)
      BY <1>8, <1>9, <1>10, <1>11
    <2> QED BY <2>1, <2>2, <2>3
  <1>13. LocalsRight(w, Below(w, m))
    BY <1>8, <1>9, <1>10, <1>11 DEF LocalsRight
  <1> QED BY <1>8, <1>9, <1>11, <1>12, <1>13 DEF w

\* What SetBundle prepares for a policy can be stored.
LEMMA UploadSettable ==
  ASSUME LakeAssumption, UploadsWhole, NEW l, Origins(l), NEW b, NEW rest, UploadAt(l, b, rest),
         NEW m \in rest, b.policies[m].refs \cap rest = {}
  PROVE  /\ Settable(l, m, b.policies[m])
         /\ m \in Policies /\ m # Asset /\ m \in DOMAIN b.policies
  <1> DEFINE doc == b.policies[m]
  <1>1. /\ b \in Bundles /\ m \in DOMAIN b.policies
        /\ DOMAIN b.policies \subseteq Policies /\ Policies \subseteq Mrns /\ Asset \notin Policies
        /\ doc.refs \subseteq Policies /\ doc.refs \subseteq DOMAIN b.policies
        /\ doc.queries \subseteq DOMAIN b.queries /\ DOMAIN b.queries \subseteq Queries
    BY DEF UploadAt, LakeAssumption, Mrns, Outside
  <1>2. doc.refs \subseteq DOMAIN l.policies
    BY <1>1 DEF UploadAt
  <1>3. ASSUME Stored(l, m)
        PROVE  doc.refs = l.policies[m].doc.refs /\ doc.filters = l.policies[m].doc.filters
    <2>1. PICK c \in Bundles : m \in DOMAIN c.policies /\ l.policies[m].doc = c.policies[m]
      BY <1>1, <1>3 DEF Origins, Stored
    <2> QED BY <1>1, <2>1 DEF UploadsWhole
  <1> QED BY <1>1, <1>2, <1>3 DEF Settable

\* One step of SetBundle succeeds and keeps what is right.
LEMMA Uploaded ==
  ASSUME LakeAssumption, UploadsWhole, NEW l, Sound(l), Origins(l), SumsRight(l),
         NEW b, NEW rest, UploadAt(l, b, rest), LocalsRight(l, DOMAIN l.policies \ rest),
         NEW m \in rest, b.policies[m].refs \cap rest = {}
  PROVE  LET r == Upload(l, m, b)
         IN  /\ r.err = FALSE
             /\ Sound(r.lake) /\ Origins(r.lake) /\ SumsRight(r.lake)
             /\ UploadAt(r.lake, b, rest \ {m})
             /\ LocalsRight(r.lake, DOMAIN r.lake.policies \ (rest \ {m}))
  <1> DEFINE doc == b.policies[m]
             local == LocalChecksum(m, doc, b.queries)
             graph == BundleGraph(b, m)
             w == WithPolicy(l, m, doc, local, graph)
             set == setPolicy(l, m, doc, local, graph)
             s == set.lake
             r == Upload(l, m, b)
             v == r.lake
  <1>1. Settable(l, m, doc) /\ m \in Policies /\ m # Asset /\ m \in DOMAIN b.policies
    BY UploadSettable
  <1>2. LakeShape(l) /\ LinksRight(l)
    BY DEF Sound
  <1>3. /\ graph = Full(w, m)
        /\ Below(w, m) \subseteq (DOMAIN b.policies \ rest) \cup {m}
        /\ LocalsRight(w, Below(w, m))
    BY <1>1, <1>2, UploadGraph
  <1>4. Remade(l, w, m, doc, local, graph)
    BY <1>1, <1>2, WithPolicyShape
  <1>5. LinksRight(w)
    BY <1>1, <1>2, WithPolicyBelow
  <1>6. local[1] = m /\ local[2] = doc
    BY DEF LocalChecksum
  <1>7. local \in graph
    <2> HIDE DEF local, graph, w
    <2>1. LakeShape(w) /\ m \in DOMAIN w.policies /\ w.policies[m].local = local
      BY <1>4 DEF Remade
    <2>2. m \in Below(w, m)
      BY <1>5, <2>1, BelowStored, LinksStored
    <2> QED BY <1>3, <2>1, <2>2 DEF Full
  <1>8. Stored(l, m) =>
          /\ l.policies[m].local = local => l.policies[m].doc = doc
          /\ m \in DOMAIN l.bundles =>
               \A x \in l.bundles[m].sum.policy : x[1] = m => x = l.policies[m].local
    <2>1. ASSUME Stored(l, m), l.policies[m].local = local
          PROVE  l.policies[m].doc = doc
      <3>1. PICK c \in Bundles : /\ l.policies[m].doc = c.policies[m]
                                 /\ l.policies[m].local = LocalChecksum(m, c.policies[m], c.queries)
        BY <1>1, <2>1 DEF Origins, Stored
      <3>2. l.policies[m].local[2] = c.policies[m]
        BY <3>1 DEF LocalChecksum
      <3> HIDE DEF local
      <3> QED BY <1>6, <2>1, <3>1, <3>2
    <2> QED BY <1>1, <2>1 DEF SumsRight, Stored
  <1>9. set.err = FALSE /\ Sound(s) /\ Frame(w, s)
    <2>1. graph = Full(WithPolicy(l, m, doc, local, graph), m)
      BY <1>3
    <2>2. /\ setPolicy(l, m, doc, local, graph).err = FALSE
          /\ Sound(setPolicy(l, m, doc, local, graph).lake)
          /\ Frame(WithPolicy(l, m, doc, local, graph), setPolicy(l, m, doc, local, graph).lake)
      <3> HIDE DEF local, graph, doc, set, s, w
      <3>1. Settable(l, m, doc) /\ Versioned(l, m, doc, local, graph)
        BY <1>1, <1>6, <1>7, <1>8 DEF Versioned
      <3> QED BY <3>1, <2>1, PolicySet
    <2> QED BY <2>2
  <1>10. v = GetValidatedBundle(s, m).lake /\ r.err = GetValidatedBundle(s, m).err
    <2>1. doc.refs \subseteq DOMAIN l.policies
      BY <1>1 DEF Settable
    <2> QED BY <1>9, <2>1 DEF Upload
  <1> HIDE DEF set, s, w, r, v, local, graph
  <1>11. LakeShape(w) /\ LakeShape(s)
    BY <1>4, <1>9 DEF Remade, Sound
  <1>12. /\ DOMAIN s.policies = DOMAIN l.policies \cup {m}
         /\ s.policies[m].doc = doc /\ s.policies[m].local = local
         /\ \A n \in DOMAIN l.policies \ {m} :
              s.policies[n].doc = l.policies[n].doc /\ s.policies[n].local = l.policies[n].local
         /\ DOMAIN s.bundles = DOMAIN l.bundles
         /\ \A n \in DOMAIN l.bundles : s.bundles[n].sum = l.bundles[n].sum
         /\ s.queries = l.queries /\ s.frameworks = l.frameworks
    BY <1>4, <1>9 DEF Frame, Remade
  <1>13. LocalsRight(s, DOMAIN s.policies \ (rest \ {m}))
    <2> SUFFICES ASSUME NEW n \in DOMAIN s.policies \ (rest \ {m})
                 PROVE  s.policies[n].local = LocalChecksum(n, s.policies[n].doc, s.queries)
      BY DEF LocalsRight
    <2>1. CASE n = m
      <3>1. m \in Below(w, m) /\ w.policies[m].local = local /\ w.policies[m].doc = doc /\ w.queries = l.queries
        BY <1>4, <1>5, <1>11, BelowStored, LinksStored DEF Remade
      <3>2. local = LocalChecksum(m, doc, l.queries)
        BY <1>3, <3>1 DEF LocalsRight
      <3> QED BY <1>12, <2>1, <3>2
    <2>2. CASE n # m
      <3>1. n \in DOMAIN l.policies \ rest /\ n \in DOMAIN l.policies \ {m}
        BY <1>12, <2>2
      <3>2. l.policies[n].local = LocalChecksum(n, l.policies[n].doc, l.queries)
        BY <3>1 DEF LocalsRight
      <3> QED BY <1>12, <3>1, <3>2
    <2> QED BY <2>1, <2>2
  <1>14. Below(s, m) \subseteq DOMAIN s.policies \ (rest \ {m})
    <2>1. Below(s, m) = Below(w, m)
      BY <1>9, SameBelow DEF Frame
    <2>2. DOMAIN b.policies \ rest \subseteq DOMAIN l.policies
      BY DEF UploadAt
    <2> QED BY <1>3, <1>12, <2>1, <2>2
  <1>15. LocalsRight(s, Below(s, m))
    BY <1>13, <1>14 DEF LocalsRight
  <1>16. Origins(s)
    <2>1. ASSUME NEW p \in DOMAIN s.policies, p = Asset
          PROVE  s.policies[p].doc = [version |-> 0, refs |-> s.policies[p].doc.refs,
                                      queries |-> {}, filters |-> {}]
      <3>1. p \in DOMAIN l.policies \ {m} /\ s.policies[p].doc = l.policies[p].doc
        BY <1>1, <1>12, <2>1
      <3> QED BY <2>1, <3>1 DEF Origins
    <2>2. ASSUME NEW p \in DOMAIN s.policies, p # Asset
          PROVE  \E c \in Bundles :
                   /\ Outside(c) = {} /\ p \in DOMAIN c.policies
                   /\ s.policies[p].doc = c.policies[p]
                   /\ s.policies[p].local = LocalChecksum(p, c.policies[p], c.queries)
      <3>1. CASE p = m
        <4>1. b \in Bundles /\ Outside(b) = {}
          BY DEF UploadAt
        <4> QED BY <1>1, <1>12, <3>1, <4>1 DEF local
      <3>2. CASE p # m
        <4>1. p \in DOMAIN l.policies /\ s.policies[p].doc = l.policies[p].doc
                /\ s.policies[p].local = l.policies[p].local
          BY <1>12, <3>2
        <4> QED BY <2>2, <4>1 DEF Origins
      <3> QED BY <3>1, <3>2
    <2> QED BY <2>1, <2>2 DEF Origins
  <1>17. \A n \in (DOMAIN s.policies \cap DOMAIN s.bundles) \ {m, Asset} :
           \A x \in s.bundles[n].sum.policy : x[1] = n => x = s.policies[n].local
    BY <1>12 DEF SumsRight
  <1>18. /\ r.err = FALSE
         /\ Sound(v) /\ Origins(v) /\ SumsRight(v) /\ SameStored(s, v)
    BY <1>9, <1>10, <1>12, <1>15, <1>16, <1>17, BundleSound
  <1>19. LocalsRight(v, DOMAIN v.policies \ (rest \ {m}))
    BY <1>13, <1>18 DEF LocalsRight, SameStored
  <1>20. UploadAt(v, b, rest \ {m})
    <2>1. \A p \in DOMAIN b.policies \ rest :
            p \in DOMAIN v.policies /\ v.policies[p].doc = b.policies[p]
      BY <1>12, <1>18 DEF UploadAt, SameStored
    <2>2. m \in DOMAIN v.policies /\ v.policies[m].doc = b.policies[m]
      BY <1>12, <1>18 DEF SameStored
    <2>3. \A q \in DOMAIN b.queries : v.queries[q] = b.queries[q]
      BY <1>12, <1>18 DEF UploadAt, SameStored
    <2> QED BY <2>1, <2>2, <2>3 DEF UploadAt
  <1> QED BY <1>18, <1>19, <1>20 DEF r, v

\* The queries of a bundle are stored before its policies, whose checksums are
\* those of the queries before; all others keep theirs.
LEMMA QueriesStored ==
  ASSUME LakeAssumption, NEW l, Sound(l), Origins(l), SumsRight(l), NEW b \in Bundles
  PROVE  LET v == WithQueries(l, b)
         IN  /\ Sound(v) /\ Origins(v) /\ SumsRight(v)
             /\ Outside(b) = {} => UploadAt(v, b, DOMAIN b.policies)
             /\ UploadsWhole /\ LocalsRight(l, DOMAIN l.policies) =>
                  LocalsRight(v, DOMAIN v.policies \ DOMAIN b.policies)
  <1> DEFINE v == WithQueries(l, b)
             qs == [q \in Queries |-> IF q \in DOMAIN b.queries THEN b.queries[q] ELSE l.queries[q]]
  <1>1. l = [policies |-> l.policies, bundles |-> l.bundles, queries |-> l.queries,
             frameworks |-> l.frameworks, assetFramework |-> l.assetFramework]
    BY DEF Sound, LakeShape
  <1>2. v = [policies |-> l.policies, bundles |-> l.bundles, queries |-> qs,
             frameworks |-> l.frameworks, assetFramework |-> l.assetFramework]
    <2>1. v = [l EXCEPT !.queries = qs]
      BY DEF WithQueries
    <2> HIDE DEF v, qs
    <2> QED BY <1>1, <2>1
  <1>3. \A q \in Queries : qs[q] = IF q \in DOMAIN b.queries THEN b.queries[q] ELSE l.queries[q]
    OBVIOUS
  <1> HIDE DEF v, qs
  <1>4. /\ v.policies = l.policies /\ v.bundles = l.bundles /\ v.queries = qs
        /\ v.frameworks = l.frameworks /\ v.assetFramework = l.assetFramework
    BY <1>2
  <1>5. Sound(v)
    <2>1. LakeShape(v)
      BY <1>2, <1>4 DEF Sound, LakeShape
    <2>2. \A m : Below(v, m) = Below(l, m) /\ Full(v, m) = Full(l, m)
      BY <1>4 DEF Below, Full, Edges
    <2>3. LinksRight(v) /\ ContentsRight(v) /\ FrameworkRight(v)
      BY <1>4 DEF Sound, LinksRight, ContentsRight, FrameworkRight
    <2>4. FiltersRight(v) /\ GraphsRight(v)
      BY <1>4, <2>2 DEF Sound, FiltersRight, GraphsRight, GraphsRightOf
    <2> QED BY <2>1, <2>3, <2>4 DEF Sound
  <1>6. Origins(v) /\ SumsRight(v)
    <2>1. Origins(v)
      BY <1>4, OriginsKept
    <2>2. SumsRight(v)
      BY <1>4 DEF SumsRight
    <2> QED BY <2>1, <2>2
  <1>7. Outside(b) = {} => UploadAt(v, b, DOMAIN b.policies)
    BY <1>3, <1>4 DEF UploadAt, LakeAssumption
  <1>8. ASSUME UploadsWhole, LocalsRight(l, DOMAIN l.policies),
               NEW n \in DOMAIN l.policies \ DOMAIN b.policies
        PROVE  l.policies[n].local = LocalChecksum(n, l.policies[n].doc, qs)
    <2> DEFINE doc == l.policies[n].doc
    <2>1. l.policies[n].local = LocalChecksum(n, doc, l.queries)
      BY <1>8 DEF LocalsRight
    <2>2. doc.queries \subseteq Queries
      BY DEF Sound, LakeShape, PolicyShape
    <2>3. \A q \in doc.queries : qs[q] = l.queries[q]
      <3>1. CASE n = Asset
        <4>1. doc.queries = {}
          BY <3>1, AssetNames
        <4> QED BY <4>1
      <3>2. CASE n # Asset
        <4>1. PICK c \in Bundles : /\ n \in DOMAIN c.policies /\ doc = c.policies[n]
                                   /\ l.policies[n].local = LocalChecksum(n, c.policies[n], c.queries)
          BY <3>2 DEF Origins
        <4>2. \A q \in doc.queries : l.queries[q] = c.queries[q]
          <5> DEFINE f == [q \in doc.queries |-> l.queries[q]]
                     g == [q \in doc.queries |-> c.queries[q]]
          <5>1. l.policies[n].local = <<n, doc, f>>
            BY <2>1 DEF LocalChecksum
          <5>2. l.policies[n].local = <<n, doc, g>>
            BY <4>1 DEF LocalChecksum
          <5>3. f = g
            <6> HIDE DEF f, g, doc
            <6> QED BY <5>1, <5>2
          <5>4. \A q \in doc.queries : f[q] = l.queries[q] /\ g[q] = c.queries[q]
            OBVIOUS
          <5> HIDE DEF f, g
          <5> QED BY <5>3, <5>4
        <4>3. \A q \in doc.queries \cap DOMAIN b.queries : c.queries[q] = b.queries[q]
          BY <1>8, <4>1 DEF UploadsWhole
        <4> QED BY <1>3, <2>2, <4>2, <4>3
      <3> QED BY <3>1, <3>2
    <2> HIDE DEF doc
    <2>4. LocalChecksum(n, doc, qs) = LocalChecksum(n, doc, l.queries)
      BY <2>3 DEF LocalChecksum
    <2> QED BY <2>1, <2>4 DEF doc
  <1> QED BY <1>4, <1>5, <1>6, <1>7, <1>8 DEF v, LocalsRight

\* A framework that is stored again is the one that was.
LEMMA FrameworksStored ==
  ASSUME LakeAssumption, UploadsWhole, NEW l, Sound(l), Origins(l), SumsRight(l), NEW b \in Bundles
  PROVE  LET v == WithFrameworks(l, b)
         IN  /\ Sound(v) /\ Origins(v) /\ SumsRight(v)
             /\ DOMAIN v.policies = DOMAIN l.policies
             /\ \A P : LocalsRight(l, P) => LocalsRight(v, P)
  <1> DEFINE v == WithFrameworks(l, b)
             fs == [f \in Frameworks |->
                      IF f \in DOMAIN b.frameworks THEN b.frameworks[f] ELSE l.frameworks[f]]
  <1>1. l = [policies |-> l.policies, bundles |-> l.bundles, queries |-> l.queries,
             frameworks |-> l.frameworks, assetFramework |-> l.assetFramework]
    BY DEF Sound, LakeShape
  <1>2. v = [policies |-> l.policies, bundles |-> l.bundles, queries |-> l.queries,
             frameworks |-> fs, assetFramework |-> l.assetFramework]
    <2>1. v = [l EXCEPT !.frameworks = fs]
      BY DEF WithFrameworks
    <2> HIDE DEF v, fs
    <2> QED BY <1>1, <2>1
  <1>3. \A f \in Frameworks :
          fs[f] = IF f \in DOMAIN b.frameworks THEN b.frameworks[f] ELSE l.frameworks[f]
    OBVIOUS
  <1> HIDE DEF v, fs
  <1>4. /\ v.policies = l.policies /\ v.bundles = l.bundles /\ v.queries = l.queries
        /\ v.frameworks = fs /\ v.assetFramework = l.assetFramework
    BY <1>2
  <1>5. \A f \in Frameworks : l.frameworks[f] # None => fs[f] = l.frameworks[f]
    <2> TAKE f \in Frameworks
    <2> HAVE l.frameworks[f] # None
    <2>1. PICK c \in Bundles : f \in DOMAIN c.frameworks /\ l.frameworks[f] = c.frameworks[f]
      BY DEF Sound, FrameworkRight
    <2> QED BY <1>3, <2>1 DEF UploadsWhole
  <1>6. FrameworkRight(v)
    <2>1. \A f \in l.assetFramework.refs : f \in Frameworks /\ fs[f] = l.frameworks[f] /\ fs[f] # None
      BY <1>5 DEF Sound, FrameworkRight
    <2>2. l.assetFramework.graph = {<<f, l.frameworks[f]>> : f \in l.assetFramework.refs}
      BY DEF Sound, FrameworkRight
    <2>3. l.assetFramework.graph = {<<f, fs[f]>> : f \in l.assetFramework.refs}
      BY <2>1, <2>2
    <2>4. \A f \in Frameworks : fs[f] # None =>
            \E c \in Bundles : f \in DOMAIN c.frameworks /\ fs[f] = c.frameworks[f]
      BY <1>3 DEF Sound, FrameworkRight
    <2> QED BY <1>4, <2>1, <2>3, <2>4 DEF FrameworkRight
  <1>7. Sound(v)
    <2>1. LakeShape(v)
      BY <1>2, <1>4 DEF Sound, LakeShape
    <2>2. \A m : Below(v, m) = Below(l, m) /\ Full(v, m) = Full(l, m)
      BY <1>4 DEF Below, Full, Edges
    <2>3. LinksRight(v) /\ ContentsRight(v)
      BY <1>4 DEF Sound, LinksRight, ContentsRight
    <2>4. FiltersRight(v) /\ GraphsRight(v)
      BY <1>4, <2>2 DEF Sound, FiltersRight, GraphsRight, GraphsRightOf
    <2> QED BY <1>6, <2>1, <2>3, <2>4 DEF Sound
  <1>8. Origins(v) /\ SumsRight(v)
    <2>1. Origins(v)
      BY <1>4, OriginsKept
    <2>2. SumsRight(v)
      BY <1>4 DEF SumsRight
    <2> QED BY <2>1, <2>2
  <1>9. \A P : LocalsRight(l, P) => LocalsRight(v, P)
    BY <1>4 DEF LocalsRight
  <1> QED BY <1>4, <1>7, <1>8, <1>9 DEF v

-----------------------------------------------------------------------------
(* DeletePolicy *)

\* Nothing is made of a policy without parents.
LEMMA Deleted ==
  ASSUME NEW l, Sound(l), Origins(l), SumsRight(l),
         NEW m \in DOMAIN l.policies, m # Asset, l.policies[m].parents = {}
  PROVE  LET v == Without(l, m)
         IN  /\ Sound(v) /\ Origins(v) /\ SumsRight(v)
             /\ DOMAIN v.policies \subseteq DOMAIN l.policies
             /\ LocalsRight(l, DOMAIN l.policies) => LocalsRight(v, DOMAIN v.policies)
  <1> DEFINE v == Without(l, m)
             D == DOMAIN l.policies \ {m}
             refs == l.policies[m].doc.refs
             ps == [n \in DOMAIN l.policies \ {m} |->
                      IF n \in l.policies[m].children
                        THEN [l.policies[n] EXCEPT !.parents = @ \ {m}] ELSE l.policies[n]]
             E == Edges(l, DOMAIN l.policies)
             F == Edges(v, DOMAIN v.policies)
  <1>1. LakeShape(l) /\ LinksRight(l) /\ RefsStored(l)
    BY LinksStored DEF Sound
  <1>2. \A n \in DOMAIN l.policies : m \notin l.policies[n].doc.refs
    BY <1>1 DEF LinksRight
  <1>3. l.policies[m].children = refs
    BY <1>1 DEF LinksRight
  <1>4. v = [policies |-> ps, bundles |-> l.bundles, queries |-> l.queries,
             frameworks |-> l.frameworks, assetFramework |-> l.assetFramework]
    <2>1. v = [l EXCEPT !.policies = ps]
      BY DEF Without
    <2>2. l = [policies |-> l.policies, bundles |-> l.bundles, queries |-> l.queries,
               frameworks |-> l.frameworks, assetFramework |-> l.assetFramework]
      BY <1>1 DEF LakeShape
    <2> HIDE DEF v, ps
    <2> QED BY <2>1, <2>2
  <1>5. DOMAIN ps = D
    OBVIOUS
  <1>6. \A n \in D :
          /\ PolicyShape(ps[n])
          /\ ps[n].doc = l.policies[n].doc /\ ps[n].local = l.policies[n].local
          /\ ps[n].graph = l.policies[n].graph /\ ps[n].invalidated = l.policies[n].invalidated
          /\ ps[n].parents = IF n \in refs THEN l.policies[n].parents \ {m} ELSE l.policies[n].parents
          /\ ps[n].children = l.policies[n].children /\ ps[n].filters = l.policies[n].filters
    <2> TAKE n \in D
    <2> DEFINE p == l.policies[n]
               x == p.parents \ {m}
    <2>1. PolicyShape(p)
      BY <1>1 DEF LakeShape
    <2>2. [p EXCEPT !.parents = x]
            = [doc |-> p.doc, local |-> p.local, graph |-> p.graph, invalidated |-> p.invalidated,
               parents |-> x, children |-> p.children, filters |-> p.filters]
      BY <2>1, PolicyWith
    <2>3. ps[n] = IF n \in refs THEN [p EXCEPT !.parents = x] ELSE p
      BY <1>3
    <2> HIDE DEF ps, p
    <2>4. CASE n \in refs
      BY <2>1, <2>2, <2>3, <2>4 DEF PolicyShape, p
    <2>5. CASE n \notin refs
      BY <2>1, <2>3, <2>5 DEF p
    <2> QED BY <2>4, <2>5
  <1> HIDE DEF ps, v
  <1>7. /\ v.policies = ps /\ v.bundles = l.bundles /\ v.queries = l.queries
        /\ v.frameworks = l.frameworks /\ v.assetFramework = l.assetFramework
    BY <1>4
  <1>8. LakeShape(v)
    BY <1>1, <1>4, <1>5, <1>6, <1>7 DEF LakeShape
  <1>9. LinksRight(v)
    <2> SUFFICES ASSUME NEW n \in D
                 PROVE  /\ \A c \in ps[n].doc.refs : c \in D /\ n \in ps[c].parents
                        /\ \A p \in ps[n].parents : p \in D /\ (p # Asset => n \in ps[p].doc.refs)
                        /\ n # Asset => ps[n].children = ps[n].doc.refs
      BY <1>5, <1>7 DEF LinksRight
    <2>1. ASSUME NEW c \in ps[n].doc.refs
          PROVE  c \in D /\ n \in ps[c].parents
      <3>1. c \in DOMAIN l.policies /\ n \in l.policies[c].parents
        BY <1>1, <1>6 DEF LinksRight
      <3>2. c # m /\ n # m
        BY <1>2, <1>6
      <3> QED BY <1>6, <3>1, <3>2
    <2>2. \A p \in ps[n].parents : p \in DOMAIN l.policies /\ (p # Asset => n \in l.policies[p].doc.refs)
      BY <1>1, <1>6 DEF LinksRight
    <2>3. m \notin ps[n].parents
      BY <1>6, <2>2
    <2>4. \A p \in ps[n].parents : p \in D /\ (p # Asset => n \in ps[p].doc.refs)
      BY <1>6, <2>2, <2>3
    <2>5. n # Asset => ps[n].children = ps[n].doc.refs
      BY <1>1, <1>6 DEF LinksRight
    <2> QED BY <2>1, <2>4, <2>5
  <1>10. ASSUME NEW n \in D
         PROVE  Below(v, n) = Below(l, n) /\ Below(l, n) \subseteq D
    <2>1. n \in Mrns /\ E \in Links /\ F \in Links /\ D \in SUBSET Mrns
      BY <1>1, <1>8, EdgesLinks DEF LakeShape
    <2>2. \A e \in E : e[2] \in D
      BY <1>1, <1>2 DEF Edges, RefsStored
    <2>3. \A e \in E \cup F : e[1] \in D => (e \in E <=> e \in F)
      BY <1>5, <1>6, <1>7 DEF Edges
    <2> HIDE DEF E, F, D
    <2>4. Reach(E, n) \subseteq D
      BY <2>1, <2>2, ReachLeast
    <2>5. Reach(F, n) = Reach(E, n)
      BY <2>1, <2>3, <2>4, ReachAgree
    <2> QED BY <2>4, <2>5 DEF Below, E, F
  <1>11. ASSUME NEW n \in D
         PROVE  Full(v, n) = Full(l, n)
    <2>1. \A k \in Below(l, n) : v.policies[k].local = l.policies[k].local
      BY <1>6, <1>7, <1>10
    <2> QED BY <1>10, <2>1 DEF Full
  <1>12. GraphsRight(v)
    <2> SUFFICES ASSUME NEW n \in D, ~ps[n].invalidated
                 PROVE  ps[n].graph = Full(v, n)
      BY <1>5, <1>7 DEF GraphsRight, GraphsRightOf
    <2>1. ps[n].graph = l.policies[n].graph /\ ~l.policies[n].invalidated /\ n \in DOMAIN l.policies
      BY <1>6
    <2>2. l.policies[n].graph = Full(l, n)
      BY <2>1 DEF Sound, GraphsRight, GraphsRightOf
    <2> QED BY <1>11, <2>1, <2>2
  <1>13. FiltersRight(v)
    <2> SUFFICES ASSUME NEW n \in D
                 PROVE  ps[n].filters = UNION {ps[k].doc.filters : k \in Below(l, n)}
      BY <1>5, <1>7, <1>10 DEF FiltersRight
    <2>1. \A k \in Below(l, n) : ps[k].doc.filters = l.policies[k].doc.filters
      BY <1>6, <1>10
    <2>2. ps[n].filters = UNION {l.policies[k].doc.filters : k \in Below(l, n)}
      BY <1>6 DEF Sound, FiltersRight
    <2> QED BY <2>1, <2>2
  <1>14. ContentsRight(v) /\ FrameworkRight(v)
    BY <1>7 DEF Sound, ContentsRight, FrameworkRight
  <1>15. Sound(v)
    BY <1>8, <1>9, <1>12, <1>13, <1>14 DEF Sound
  <1>16. SumsRight(v)
    BY <1>5, <1>6, <1>7 DEF SumsRight
  <1>17. Origins(v)
    BY <1>5, <1>6, <1>7, OriginsKept
  <1>18. LocalsRight(l, DOMAIN l.policies) => LocalsRight(v, DOMAIN v.policies)
    BY <1>5, <1>6, <1>7 DEF LocalsRight
  <1> QED BY <1>5, <1>7, <1>15, <1>16, <1>17, <1>18 DEF v

-----------------------------------------------------------------------------
(* Assign and Unassign *)

\* The asset gets its policy, which is made of nothing yet.
LEMMA AssetEnsured ==
  ASSUME LakeAssumption, NEW l, Sound(l), Origins(l), SumsRight(l)
  PROVE  LET v == ensureAsset(l)
         IN  /\ Sound(v) /\ Origins(v) /\ SumsRight(v)
             /\ Asset \in DOMAIN v.policies
             /\ LocalsRight(l, DOMAIN l.policies) => LocalsRight(v, DOMAIN v.policies)
             /\ v.frameworks = l.frameworks /\ v.assetFramework = l.assetFramework
  <1> DEFINE doc == EmptyDocument
             local == LocalChecksum(Asset, doc, l.queries)
             graph == {local}
             w == WithPolicy(l, Asset, doc, local, graph)
             v == ensureAsset(l)
  <1>1. CASE Stored(l, Asset)
    BY <1>1 DEF ensureAsset, Stored
  <1>2. CASE ~Stored(l, Asset)
    <2>1. Asset \in Mrns /\ Asset \notin DOMAIN l.policies
      BY <1>2 DEF Mrns, Stored
    <2>2. doc.refs = {} /\ doc.queries = {} /\ doc.filters = {}
      BY DEF EmptyDocument
    <2>3. Settable(l, Asset, doc)
      BY <1>2, <2>1, <2>2 DEF Settable
    <2>4. LakeShape(l) /\ LinksRight(l)
      BY DEF Sound
    <2>5. Remade(l, w, Asset, doc, local, graph)
      BY <2>3, <2>4, WithPolicyShape
    <2>6. Below(w, Asset) = {Asset}
      BY <2>2, <2>3, <2>4, WithPolicyBelow
    <2>7. graph = Full(w, Asset)
      <3>1. w.policies[Asset].local = local
        BY <2>5 DEF Remade
      <3> HIDE DEF w, local
      <3>2. Full(w, Asset) = {w.policies[n].local : n \in {Asset}}
        BY <2>6 DEF Full
      <3> QED BY <3>1, <3>2
    <2>8. Versioned(l, Asset, doc, local, graph)
      BY <1>2 DEF Versioned, LocalChecksum
    <2>9. /\ Sound(setPolicy(l, Asset, doc, local, graph).lake)
          /\ Frame(w, setPolicy(l, Asset, doc, local, graph).lake)
      <3> HIDE DEF local, graph, doc
      <3> QED BY <2>3, <2>7, <2>8, PolicySet
    <2>10. v = setPolicy(l, Asset, doc, local, graph).lake
      BY <1>2 DEF ensureAsset
    <2> HIDE DEF v, w, graph
    <2>11. Sound(v) /\ Frame(w, v)
      BY <2>9, <2>10
    <2>12. /\ DOMAIN v.policies = DOMAIN l.policies \cup {Asset}
           /\ v.policies[Asset].doc = doc /\ v.policies[Asset].local = local
           /\ \A n \in DOMAIN l.policies :
                v.policies[n].doc = l.policies[n].doc /\ v.policies[n].local = l.policies[n].local
           /\ DOMAIN v.bundles = DOMAIN l.bundles
           /\ \A n \in DOMAIN l.bundles : v.bundles[n].sum = l.bundles[n].sum
           /\ v.queries = l.queries /\ v.frameworks = l.frameworks
           /\ v.assetFramework = l.assetFramework
      BY <2>1, <2>5, <2>11 DEF Frame, Remade
    <2>13. Origins(v)
      <3>1. v.policies[Asset].doc
              = [version |-> 0, refs |-> v.policies[Asset].doc.refs, queries |-> {}, filters |-> {}]
        BY <2>2, <2>12 DEF EmptyDocument
      <3>2. ASSUME NEW p \in DOMAIN v.policies, p # Asset
            PROVE  \E b \in Bundles :
                     /\ Outside(b) = {} /\ p \in DOMAIN b.policies
                     /\ v.policies[p].doc = b.policies[p]
                     /\ v.policies[p].local = LocalChecksum(p, b.policies[p], b.queries)
        <4>1. /\ p \in DOMAIN l.policies
              /\ v.policies[p].doc = l.policies[p].doc /\ v.policies[p].local = l.policies[p].local
          BY <2>12, <3>2
        <4> QED BY <3>2, <4>1 DEF Origins
      <3> QED BY <3>1, <3>2 DEF Origins
    <2>14. SumsRight(v)
      BY <2>12 DEF SumsRight
    <2>15. LocalsRight(l, DOMAIN l.policies) => LocalsRight(v, DOMAIN v.policies)
      BY <2>12 DEF LocalsRight, local
    <2> QED BY <2>11, <2>12, <2>13, <2>14, <2>15 DEF v
  <1> QED BY <1>1, <1>2

\* Frameworks are only assigned when they are stored.
LEMMA FrameworkMutated ==
  ASSUME NEW l, Sound(l), Origins(l), SumsRight(l), NEW fs \in SUBSET Frameworks
  PROVE  LET r == mutateFramework(l, fs)
             v == r.lake
         IN  /\ Sound(v) /\ Origins(v) /\ SumsRight(v)
             /\ DOMAIN v.policies = DOMAIN l.policies
             /\ \A P : LocalsRight(l, P) => LocalsRight(v, P)
  <1> DEFINE refs == l.assetFramework.refs \cup fs
             new == [refs |-> refs, graph |-> {<<f, l.frameworks[f]>> : f \in refs}]
             r == mutateFramework(l, fs)
             v == r.lake
  <1>1. CASE (\E f \in fs : l.frameworks[f] = None) \/ fs = {}
    <2>1. v = l
      BY <1>1 DEF mutateFramework, Ok, Fail
    <2> QED BY <2>1
  <1>2. CASE (\A f \in fs : l.frameworks[f] # None) /\ fs # {}
    <2>1. v = [l EXCEPT !.assetFramework = new]
      BY <1>2 DEF mutateFramework, Ok
    <2>2. l = [policies |-> l.policies, bundles |-> l.bundles, queries |-> l.queries,
               frameworks |-> l.frameworks, assetFramework |-> l.assetFramework]
      BY DEF Sound, LakeShape
    <2>3. new = [refs |-> refs, graph |-> new.graph]
            /\ new.refs = refs /\ new.graph = {<<f, l.frameworks[f]>> : f \in refs}
      OBVIOUS
    <2> HIDE DEF v, new
    <2>4. v = [policies |-> l.policies, bundles |-> l.bundles, queries |-> l.queries,
               frameworks |-> l.frameworks, assetFramework |-> new]
      BY <2>1, <2>2
    <2>5. /\ v.policies = l.policies /\ v.bundles = l.bundles /\ v.queries = l.queries
          /\ v.frameworks = l.frameworks /\ v.assetFramework = new
      BY <2>4
    <2>6. FrameworkRight(v)
      BY <1>2, <2>3, <2>5 DEF Sound, FrameworkRight
    <2>7. LakeShape(v)
      BY <2>3, <2>4, <2>5 DEF Sound, LakeShape
    <2>8. \A m : Below(v, m) = Below(l, m) /\ Full(v, m) = Full(l, m)
      BY <2>5 DEF Below, Full, Edges
    <2>9. LinksRight(v) /\ ContentsRight(v)
      BY <2>5 DEF Sound, LinksRight, ContentsRight
    <2>10. FiltersRight(v) /\ GraphsRight(v)
      BY <2>5, <2>8 DEF Sound, FiltersRight, GraphsRight, GraphsRightOf
    <2>11. Sound(v)
      BY <2>6, <2>7, <2>9, <2>10 DEF Sound
    <2>12. Origins(v)
      BY <2>5, OriginsKept
    <2>13. SumsRight(v)
      BY <2>5 DEF SumsRight
    <2>14. \A P : LocalsRight(l, P) => LocalsRight(v, P)
      BY <2>5 DEF LocalsRight
    <2> QED BY <2>5, <2>11, <2>12, <2>13, <2>14 DEF v
  <1> QED BY <1>1, <1>2

\* k is l with the links between the asset and the policies in done made or
\* taken away.
LinkedTo(l, k, action, done) ==
  /\ LakeShape(k)
  /\ DOMAIN k.policies = DOMAIN l.policies
  /\ \A n \in DOMAIN l.policies :
       /\ k.policies[n].doc = l.policies[n].doc /\ k.policies[n].local = l.policies[n].local
       /\ k.policies[n].graph = l.policies[n].graph
       /\ k.policies[n].invalidated = l.policies[n].invalidated
       /\ k.policies[n].filters = l.policies[n].filters
       /\ n # Asset => k.policies[n].children = l.policies[n].children
       /\ k.policies[n].parents = IF n \notin done THEN l.policies[n].parents
                                  ELSE IF action = "activate" THEN l.policies[n].parents \cup {Asset}
                                  ELSE l.policies[n].parents \ {Asset}
  /\ k.bundles = l.bundles /\ k.queries = l.queries
  /\ k.frameworks = l.frameworks /\ k.assetFramework = l.assetFramework

\* The loop of mutatePolicy does that.
LEMMA LinkedShape ==
  ASSUME NEW l, LakeShape(l), NEW action, NEW done \in SUBSET (DOMAIN l.policies \ {Asset})
  PROVE  LinkedTo(l, Linked(l, action, done), action, done)
  <1> DEFINE Changed(set, new) == IF action = "activate" THEN set \cup new ELSE set \ new
             ps == [n \in DOMAIN l.policies |->
                      IF n = Asset THEN [l.policies[n] EXCEPT !.children = Changed(@, done)]
                      ELSE IF n \in done THEN [l.policies[n] EXCEPT !.parents = Changed(@, {Asset})]
                      ELSE l.policies[n]]
             k == Linked(l, action, done)
  <1>1. k = [policies |-> ps, bundles |-> l.bundles, queries |-> l.queries,
             frameworks |-> l.frameworks, assetFramework |-> l.assetFramework]
    <2>1. k = [l EXCEPT !.policies = ps]
      BY DEF Linked
    <2>2. l = [policies |-> l.policies, bundles |-> l.bundles, queries |-> l.queries,
               frameworks |-> l.frameworks, assetFramework |-> l.assetFramework]
      BY DEF LakeShape
    <2> HIDE DEF k, ps
    <2> QED BY <2>1, <2>2
  <1>2. DOMAIN ps = DOMAIN l.policies
    OBVIOUS
  <1>3. \A n \in DOMAIN l.policies :
          /\ PolicyShape(ps[n])
          /\ ps[n].doc = l.policies[n].doc /\ ps[n].local = l.policies[n].local
          /\ ps[n].graph = l.policies[n].graph /\ ps[n].invalidated = l.policies[n].invalidated
          /\ ps[n].filters = l.policies[n].filters
          /\ n # Asset => ps[n].children = l.policies[n].children
          /\ ps[n].parents = IF n \notin done THEN l.policies[n].parents
                             ELSE IF action = "activate" THEN l.policies[n].parents \cup {Asset}
                             ELSE l.policies[n].parents \ {Asset}
    <2> TAKE n \in DOMAIN l.policies
    <2> DEFINE p == l.policies[n]
               x == Changed(p.children, done)
               y == Changed(p.parents, {Asset})
    <2>1. PolicyShape(p)
      BY DEF LakeShape
    <2>2. /\ [p EXCEPT !.children = x]
               = [doc |-> p.doc, local |-> p.local, graph |-> p.graph, invalidated |-> p.invalidated,
                  parents |-> p.parents, children |-> x, filters |-> p.filters]
          /\ [p EXCEPT !.parents = y]
               = [doc |-> p.doc, local |-> p.local, graph |-> p.graph, invalidated |-> p.invalidated,
                  parents |-> y, children |-> p.children, filters |-> p.filters]
      <3> HIDE DEF p, x, y
      <3> QED BY <2>1, PolicyWith
    <2>3. ps[n] = IF n = Asset THEN [p EXCEPT !.children = x]
                  ELSE IF n \in done THEN [p EXCEPT !.parents = y] ELSE p
      OBVIOUS
    <2>4. y = IF action = "activate" THEN p.parents \cup {Asset} ELSE p.parents \ {Asset}
      OBVIOUS
    <2> HIDE DEF ps, p, x, y
    <2>5. CASE n = Asset
      BY <2>1, <2>2, <2>3, <2>5 DEF PolicyShape, p
    <2>6. CASE n # Asset /\ n \in done
      BY <2>1, <2>2, <2>3, <2>4, <2>6 DEF PolicyShape, p
    <2>7. CASE n # Asset /\ n \notin done
      BY <2>1, <2>3, <2>7 DEF p
    <2> QED BY <2>5, <2>6, <2>7
  <1> HIDE DEF ps, k
  <1>4. /\ k.policies = ps /\ k.bundles = l.bundles /\ k.queries = l.queries
        /\ k.frameworks = l.frameworks /\ k.assetFramework = l.assetFramework
    BY <1>1
  <1>5. LakeShape(k)
    BY <1>1, <1>2, <1>3, <1>4 DEF LakeShape
  <1> QED BY <1>2, <1>3, <1>4, <1>5 DEF LinkedTo, k

\* Links from the asset that go nowhere yet do not matter.
LEMMA LinkedSound ==
  ASSUME NEW l, Sound(l), Origins(l), SumsRight(l), Asset \in DOMAIN l.policies, NEW k, NEW action,
         NEW done, LinkedTo(l, k, action, done), action = "activate" \/ done = {}
  PROVE  /\ Sound(k) /\ Origins(k) /\ SumsRight(k)
         /\ LocalsRight(l, DOMAIN l.policies) => LocalsRight(k, DOMAIN k.policies)
  <1>1. /\ LakeShape(k) /\ DOMAIN k.policies = DOMAIN l.policies
        /\ \A n \in DOMAIN l.policies :
             /\ k.policies[n].doc = l.policies[n].doc /\ k.policies[n].local = l.policies[n].local
             /\ k.policies[n].graph = l.policies[n].graph
             /\ k.policies[n].invalidated = l.policies[n].invalidated
             /\ k.policies[n].filters = l.policies[n].filters
             /\ n # Asset => k.policies[n].children = l.policies[n].children
             /\ l.policies[n].parents \subseteq k.policies[n].parents
             /\ k.policies[n].parents \subseteq l.policies[n].parents \cup {Asset}
        /\ k.bundles = l.bundles /\ k.queries = l.queries
        /\ k.frameworks = l.frameworks /\ k.assetFramework = l.assetFramework
    BY DEF LinkedTo
  <1>2. LakeShape(l) /\ LinksRight(l) /\ RefsStored(l)
    BY LinksStored DEF Sound
  <1>3. LinksRight(k)
    <2> SUFFICES ASSUME NEW n \in DOMAIN l.policies
                 PROVE  /\ \A c \in k.policies[n].doc.refs :
                             c \in DOMAIN l.policies /\ n \in k.policies[c].parents
                        /\ \A p \in k.policies[n].parents :
                             p \in DOMAIN l.policies /\ (p # Asset => n \in k.policies[p].doc.refs)
                        /\ n # Asset => k.policies[n].children = k.policies[n].doc.refs
      BY <1>1 DEF LinksRight
    <2>1. \A c \in k.policies[n].doc.refs : c \in DOMAIN l.policies /\ n \in k.policies[c].parents
      BY <1>1, <1>2 DEF LinksRight
    <2>2. ASSUME NEW p \in k.policies[n].parents
          PROVE  p \in DOMAIN l.policies /\ (p # Asset => n \in k.policies[p].doc.refs)
      <3>1. CASE p = Asset
        BY <3>1
      <3>2. CASE p # Asset
        <4>1. p \in l.policies[n].parents
          BY <1>1, <3>2
        <4>2. p \in DOMAIN l.policies /\ n \in l.policies[p].doc.refs
          BY <1>2, <3>2, <4>1 DEF LinksRight
        <4> QED BY <1>1, <4>2
      <3> QED BY <3>1, <3>2
    <2>3. n # Asset => k.policies[n].children = k.policies[n].doc.refs
      BY <1>1, <1>2 DEF LinksRight
    <2> QED BY <2>1, <2>2, <2>3
  <1>4. \A n \in DOMAIN l.policies : Below(k, n) = Below(l, n) /\ Full(k, n) = Full(l, n)
    <2>1. \A n : Below(k, n) = Below(l, n)
      BY <1>1, SameBelow
    <2>2. \A n \in DOMAIN l.policies : Full(k, n) = Full(l, n)
      BY <1>1, <1>2, SameFull
    <2> QED BY <2>1, <2>2
  <1>5. GraphsRight(k)
    <2> SUFFICES ASSUME NEW n \in DOMAIN l.policies, ~k.policies[n].invalidated
                 PROVE  k.policies[n].graph = Full(l, n)
      BY <1>1, <1>4 DEF GraphsRight, GraphsRightOf
    <2> QED BY <1>1 DEF Sound, GraphsRight, GraphsRightOf
  <1>6. FiltersRight(k)
    <2> SUFFICES ASSUME NEW n \in DOMAIN l.policies
                 PROVE  l.policies[n].filters = UNION {k.policies[c].doc.filters : c \in Below(l, n)}
      BY <1>1, <1>4 DEF FiltersRight
    <2>1. \A c \in Below(l, n) : k.policies[c].doc.filters = l.policies[c].doc.filters
      BY <1>1, <1>2, BelowStored
    <2> QED BY <2>1 DEF Sound, FiltersRight
  <1>7. ContentsRight(k) /\ FrameworkRight(k)
    BY <1>1 DEF Sound, ContentsRight, FrameworkRight
  <1>8. Sound(k)
    BY <1>1, <1>3, <1>5, <1>6, <1>7 DEF Sound
  <1>9. Origins(k)
    BY <1>1, OriginsKept
  <1>10. SumsRight(k)
    BY <1>1 DEF SumsRight
  <1>11. LocalsRight(l, DOMAIN l.policies) => LocalsRight(k, DOMAIN k.policies)
    BY <1>1 DEF LocalsRight
  <1> QED BY <1>8, <1>9, <1>10, <1>11

\* What replacing the references of the asset changes.
LEMMA RefsReplaced ==
  ASSUME NEW d, NEW old, NEW refs,
         d = [version |-> 0, refs |-> old, queries |-> {}, filters |-> {}]
  PROVE  [d EXCEPT !.refs = refs] = [version |-> 0, refs |-> refs, queries |-> {}, filters |-> {}]
  <1>1. d.version = 0 /\ d.queries = {} /\ d.filters = {}
    OBVIOUS
  <1>2. d = [version |-> d.version, refs |-> d.refs, queries |-> d.queries, filters |-> d.filters]
    OBVIOUS
  <1>3. [d EXCEPT !.refs = refs]
          = [version |-> d.version, refs |-> refs, queries |-> d.queries, filters |-> d.filters]
    BY <1>2
  <1> QED BY <1>1, <1>3

\* u is l with the asset made of refs; its checksums are not computed yet.
Reassigned(l, u, refs) ==
  /\ LakeShape(u)
  /\ DOMAIN u.policies = DOMAIN l.policies
  /\ \A n \in DOMAIN l.policies \ {Asset} :
       /\ u.policies[n].doc = l.policies[n].doc /\ u.policies[n].local = l.policies[n].local
       /\ u.policies[n].graph = l.policies[n].graph
       /\ u.policies[n].invalidated = l.policies[n].invalidated
       /\ u.policies[n].children = l.policies[n].children
       /\ u.policies[n].filters = l.policies[n].filters
  /\ \A n \in DOMAIN l.policies : u.policies[n].parents \ {Asset} = l.policies[n].parents \ {Asset}
  /\ \A c \in refs : Asset \in u.policies[c].parents
  /\ u.policies[Asset].doc = [version |-> 0, refs |-> refs, queries |-> {}, filters |-> {}]
  /\ u.policies[Asset].filters = UNION {l.policies[c].filters : c \in refs}
  /\ u.bundles = l.bundles /\ u.queries = l.queries
  /\ u.frameworks = l.frameworks /\ u.assetFramework = l.assetFramework

\* What the loop of mutatePolicy and refreshAssetFilters lead to.
LEMMA ReassignedShape ==
  ASSUME LakeAssumption, NEW l, LakeShape(l), LinksRight(l), Origins(l), Asset \in DOMAIN l.policies,
         NEW action, NEW S \in SUBSET Policies, NEW done, done \subseteq S,
         IF action = "activate" THEN done = S \ l.policies[Asset].doc.refs ELSE done = S,
         done \subseteq DOMAIN l.policies
  PROVE  LET old  == l.policies[Asset].doc.refs
             refs == IF action = "activate" THEN old \cup S ELSE old \ S
             w    == WithRefs(Linked(l, action, done), refs)
         IN  /\ Reassigned(l, refreshAssetFilters(w), refs)
             /\ w.policies[Asset].doc.refs = refs
             /\ refs \subseteq Policies \cap DOMAIN l.policies
  <1> DEFINE old == l.policies[Asset].doc.refs
             refs == IF action = "activate" THEN old \cup S ELSE old \ S
             k == Linked(l, action, done)
             w == WithRefs(k, refs)
             u == refreshAssetFilters(w)
             a == k.policies[Asset]
             doc == [version |-> 0, refs |-> refs, queries |-> {}, filters |-> {}]
             new == [a EXCEPT !.doc = doc]
             all == Filters(w, doc)
  <1>1. Asset \notin S /\ Asset \notin done
    BY DEF LakeAssumption
  <1>2. LinkedTo(l, k, action, done)
    BY <1>1, LinkedShape
  <1>3. old \subseteq Policies \cap DOMAIN l.policies
    BY DEF LakeShape, PolicyShape, LinksRight
  <1>4. refs \subseteq Policies \cap DOMAIN l.policies
    BY <1>3
  <1> HIDE DEF k
  <1>5. Asset \in DOMAIN k.policies /\ LakeShape(k) /\ PolicyShape(a) /\ a.doc = l.policies[Asset].doc
    BY <1>2 DEF LinkedTo, LakeShape
  <1>6. a.doc = [version |-> 0, refs |-> old, queries |-> {}, filters |-> {}]
    BY <1>5, AssetNames
  <1>7. [a.doc EXCEPT !.refs = refs] = doc
    <2> HIDE DEF refs, old, a
    <2> QED BY <1>6, RefsReplaced
  <1>8. new = [doc |-> doc, local |-> a.local, graph |-> a.graph, invalidated |-> a.invalidated,
               parents |-> a.parents, children |-> a.children, filters |-> a.filters]
    <2> HIDE DEF a, doc
    <2> QED BY <1>5 DEF PolicyShape
  <1>9. k = [policies |-> k.policies, bundles |-> k.bundles, queries |-> k.queries,
             frameworks |-> k.frameworks, assetFramework |-> k.assetFramework]
    BY <1>5 DEF LakeShape
  <1>10. w = [policies |-> [k.policies EXCEPT ![Asset] = new], bundles |-> k.bundles,
              queries |-> k.queries, frameworks |-> k.frameworks,
              assetFramework |-> k.assetFramework]
    <2>1. w = [k EXCEPT !.policies = [k.policies EXCEPT ![Asset] = [a EXCEPT !.doc = [a.doc EXCEPT !.refs = refs]]]]
      BY DEF WithRefs
    <2> HIDE DEF w, new, refs, a, doc
    <2>2. w = [k EXCEPT !.policies = [k.policies EXCEPT ![Asset] = new]]
      BY <2>1, <1>7 DEF new
    <2> QED BY <2>2, <1>9
  <1> HIDE DEF w, new, a, doc, refs, old
  <1>11. /\ w.policies = [k.policies EXCEPT ![Asset] = new] /\ w.bundles = k.bundles
         /\ w.queries = k.queries /\ w.frameworks = k.frameworks
         /\ w.assetFramework = k.assetFramework
    BY <1>10
  <1>12. /\ DOMAIN w.policies = DOMAIN k.policies /\ w.policies[Asset] = new
         /\ \A n \in DOMAIN k.policies \ {Asset} : w.policies[n] = k.policies[n]
    BY <1>5, <1>11
  <1>13. new.doc = doc /\ new.parents = a.parents
    BY <1>8
  <1>14. [new EXCEPT !.filters = all]
           = [doc |-> doc, local |-> a.local, graph |-> a.graph, invalidated |-> a.invalidated,
              parents |-> a.parents, children |-> a.children, filters |-> all]
    <2> HIDE DEF all
    <2> QED BY <1>8
  <1>15. u = [policies |-> [w.policies EXCEPT ![Asset] = [new EXCEPT !.filters = all]],
              bundles |-> k.bundles, queries |-> k.queries, frameworks |-> k.frameworks,
              assetFramework |-> k.assetFramework]
    <2>1. u = [w EXCEPT !.policies = [w.policies EXCEPT ![Asset] =
                 [w.policies[Asset] EXCEPT !.filters = Filters(w, w.policies[Asset].doc)]]]
      BY DEF refreshAssetFilters
    <2>2. u = [w EXCEPT !.policies = [w.policies EXCEPT ![Asset] = [new EXCEPT !.filters = all]]]
      BY <1>12, <1>13, <2>1
    <2> HIDE DEF u, all
    <2> QED BY <2>2, <1>10, <1>11
  <1>16. all = UNION {l.policies[c].filters : c \in refs}
    <2>1. doc.filters = {} /\ doc.refs = refs
      BY DEF doc
    <2>2. \A c \in refs : w.policies[c].filters = l.policies[c].filters
      BY <1>1, <1>2, <1>4, <1>12 DEF LinkedTo, LakeAssumption
    <2> QED BY <2>1, <2>2 DEF Filters
  <1> DEFINE last == [new EXCEPT !.filters = all]
  <1> HIDE DEF u, all, last
  <1>17. /\ DOMAIN u.policies = DOMAIN k.policies /\ u.policies[Asset] = last
         /\ \A n \in DOMAIN k.policies \ {Asset} : u.policies[n] = k.policies[n]
         /\ u.bundles = k.bundles /\ u.queries = k.queries
         /\ u.frameworks = k.frameworks /\ u.assetFramework = k.assetFramework
    <2>1. u.policies = [w.policies EXCEPT ![Asset] = last]
            /\ u.bundles = k.bundles /\ u.queries = k.queries
            /\ u.frameworks = k.frameworks /\ u.assetFramework = k.assetFramework
      BY <1>15 DEF last
    <2> QED BY <1>5, <1>12, <2>1
  <1>18. /\ last.doc = doc /\ last.filters = all /\ last.parents = a.parents
         /\ last.invalidated = a.invalidated
         /\ last = [doc |-> last.doc, local |-> last.local, graph |-> last.graph,
                    invalidated |-> last.invalidated, parents |-> last.parents,
                    children |-> last.children, filters |-> last.filters]
    BY <1>14 DEF last
  <1>19. PolicyShape(last)
    <2>1. doc.refs \subseteq Policies /\ doc.queries \subseteq Queries
      BY <1>4 DEF doc
    <2> QED BY <1>5, <1>18, <2>1 DEF PolicyShape
  <1>20. LakeShape(u)
    <2>1. u = [policies |-> u.policies, bundles |-> u.bundles, queries |-> u.queries,
               frameworks |-> u.frameworks, assetFramework |-> u.assetFramework]
      BY <1>15
    <2>2. \A n \in DOMAIN u.policies : PolicyShape(u.policies[n])
      BY <1>5, <1>17, <1>19 DEF LakeShape
    <2> QED BY <1>5, <1>17, <2>1, <2>2 DEF LakeShape
  <1>21. \A n \in DOMAIN l.policies : u.policies[n].parents = k.policies[n].parents
    <2>1. DOMAIN k.policies = DOMAIN l.policies
      BY <1>2 DEF LinkedTo
    <2>2. u.policies[Asset].parents = k.policies[Asset].parents
      BY <1>17, <1>18 DEF a
    <2> QED BY <1>17, <2>1, <2>2
  <1>22. \A c \in refs : Asset \in u.policies[c].parents
    <2> SUFFICES ASSUME NEW c \in refs
                 PROVE  Asset \in k.policies[c].parents
      BY <1>4, <1>21
    <2>1. c \in DOMAIN l.policies
      BY <1>4
    <2>2. c \in old => Asset \in l.policies[c].parents
      BY DEF LinksRight, old
    <2> QED BY <1>2, <2>1, <2>2 DEF LinkedTo, refs, old
  <1>23. \A n \in DOMAIN l.policies : u.policies[n].parents \ {Asset} = l.policies[n].parents \ {Asset}
    BY <1>2, <1>21 DEF LinkedTo
  <1>24. Reassigned(l, u, refs)
    <2>1. \A n \in DOMAIN l.policies \ {Asset} :
            /\ u.policies[n].doc = l.policies[n].doc /\ u.policies[n].local = l.policies[n].local
            /\ u.policies[n].graph = l.policies[n].graph
            /\ u.policies[n].invalidated = l.policies[n].invalidated
            /\ u.policies[n].children = l.policies[n].children
            /\ u.policies[n].filters = l.policies[n].filters
      <3>1. \A n \in DOMAIN l.policies \ {Asset} : u.policies[n] = k.policies[n]
        BY <1>2, <1>17 DEF LinkedTo
      <3>2. ASSUME NEW n \in DOMAIN l.policies \ {Asset}
            PROVE  /\ k.policies[n].doc = l.policies[n].doc /\ k.policies[n].local = l.policies[n].local
                   /\ k.policies[n].graph = l.policies[n].graph
                   /\ k.policies[n].invalidated = l.policies[n].invalidated
                   /\ k.policies[n].children = l.policies[n].children
                   /\ k.policies[n].filters = l.policies[n].filters
        BY <1>2, <3>2 DEF LinkedTo
      <3> QED BY <3>1, <3>2
    <2>2. /\ DOMAIN u.policies = DOMAIN l.policies /\ u.bundles = l.bundles /\ u.queries = l.queries
          /\ u.frameworks = l.frameworks /\ u.assetFramework = l.assetFramework
      BY <1>2, <1>17 DEF LinkedTo
    <2>3. u.policies[Asset].doc = [version |-> 0, refs |-> refs, queries |-> {}, filters |-> {}]
            /\ u.policies[Asset].filters = UNION {l.policies[c].filters : c \in refs}
      BY <1>16, <1>17, <1>18 DEF doc
    <2> QED BY <1>20, <1>22, <1>23, <2>1, <2>2, <2>3 DEF Reassigned
  <1>25. w.policies[Asset].doc.refs = refs
    <2>1. doc.refs = refs
      BY DEF doc
    <2> QED BY <1>12, <1>13, <2>1
  <1> QED BY <1>4, <1>24, <1>25 DEF u, w, k, refs, old

\* Apart from the checksum of the asset all is right.
LEMMA ReassignedRight ==
  ASSUME LakeAssumption, NEW l, Sound(l), Asset \in DOMAIN l.policies, NEW u,
         NEW refs \in SUBSET (Policies \cap DOMAIN l.policies), Reassigned(l, u, refs)
  PROVE  /\ LinksRight(u) /\ FiltersRight(u) /\ ContentsRight(u) /\ FrameworkRight(u)
         /\ GraphsRightOf(u, DOMAIN u.policies \ {Asset})
         /\ \A n \in DOMAIN u.policies \ {Asset} : Below(u, n) \subseteq DOMAIN u.policies \ {Asset}
  <1> DEFINE D == DOMAIN l.policies \ {Asset}
             E == Edges(l, DOMAIN l.policies)
             F == Edges(u, DOMAIN u.policies)
  <1>1. LakeShape(l) /\ LinksRight(l) /\ RefsStored(l)
    BY LinksStored DEF Sound
  <1>2. /\ LakeShape(u) /\ DOMAIN u.policies = DOMAIN l.policies
        /\ \A n \in D :
             /\ u.policies[n].doc = l.policies[n].doc /\ u.policies[n].local = l.policies[n].local
             /\ u.policies[n].graph = l.policies[n].graph
             /\ u.policies[n].invalidated = l.policies[n].invalidated
             /\ u.policies[n].children = l.policies[n].children
             /\ u.policies[n].filters = l.policies[n].filters
    BY DEF Reassigned
  <1>3. u.policies[Asset].doc.refs = refs /\ u.policies[Asset].doc.filters = {}
    <2> DEFINE doc == u.policies[Asset].doc
    <2>1. doc = [version |-> 0, refs |-> refs, queries |-> {}, filters |-> {}]
      BY DEF Reassigned
    <2> HIDE DEF doc
    <2>2. doc.refs = refs /\ doc.filters = {}
      BY <2>1
    <2> QED BY <2>2 DEF doc
  <1>4. refs \subseteq D
    BY DEF LakeAssumption
  <1>5. LinksRight(u)
    <2> SUFFICES ASSUME NEW n \in DOMAIN l.policies
                 PROVE  /\ \A c \in u.policies[n].doc.refs :
                             c \in DOMAIN l.policies /\ n \in u.policies[c].parents
                        /\ \A p \in u.policies[n].parents :
                             p \in DOMAIN l.policies /\ (p # Asset => n \in u.policies[p].doc.refs)
                        /\ n # Asset => u.policies[n].children = u.policies[n].doc.refs
      BY <1>2 DEF LinksRight
    <2>0. \A c \in DOMAIN l.policies :
            u.policies[c].parents \ {Asset} = l.policies[c].parents \ {Asset}
      BY DEF Reassigned
    <2>1. ASSUME NEW c \in u.policies[n].doc.refs
          PROVE  c \in DOMAIN l.policies /\ n \in u.policies[c].parents
      <3>1. CASE n = Asset
        BY <1>3, <3>1 DEF Reassigned
      <3>2. CASE n # Asset
        <4>1. c \in DOMAIN l.policies /\ n \in l.policies[c].parents
          BY <1>1, <1>2, <3>2 DEF LinksRight
        <4> QED BY <2>0, <3>2, <4>1
      <3> QED BY <3>1, <3>2
    <2>2. ASSUME NEW p \in u.policies[n].parents
          PROVE  p \in DOMAIN l.policies /\ (p # Asset => n \in u.policies[p].doc.refs)
      <3>1. CASE p = Asset
        BY <3>1
      <3>2. CASE p # Asset
        <4>1. p \in l.policies[n].parents
          BY <2>0, <3>2
        <4>2. p \in DOMAIN l.policies /\ n \in l.policies[p].doc.refs
          BY <1>1, <3>2, <4>1 DEF LinksRight
        <4> QED BY <1>2, <3>2, <4>2
      <3> QED BY <3>1, <3>2
    <2>3. n # Asset => u.policies[n].children = u.policies[n].doc.refs
      BY <1>1, <1>2 DEF LinksRight
    <2> QED BY <2>1, <2>2, <2>3
  <1>6. ASSUME NEW n \in D
        PROVE  Below(u, n) = Below(l, n) /\ Below(l, n) \subseteq D
    <2>1. n \in Mrns /\ E \in Links /\ F \in Links
      BY <1>1, <1>2, EdgesLinks DEF LakeShape
    <2>2. Reach(E, n) \subseteq D
      BY <1>1, AssetOnTop, BelowStored DEF Below
    <2>3. \A e \in E \cup F : e[1] \in D => (e \in E <=> e \in F)
      BY <1>2 DEF Edges
    <2> HIDE DEF E, F, D
    <2>4. Reach(F, n) = Reach(E, n)
      BY <2>1, <2>2, <2>3, ReachAgree
    <2> QED BY <2>2, <2>4 DEF Below, E, F
  <1>7. GraphsRightOf(u, D)
    <2> SUFFICES ASSUME NEW n \in D, ~u.policies[n].invalidated
                 PROVE  u.policies[n].graph = Full(u, n)
      BY DEF GraphsRightOf
    <2>1. \A k \in Below(l, n) : u.policies[k].local = l.policies[k].local
      BY <1>2, <1>6
    <2>2. Full(u, n) = Full(l, n)
      BY <1>6, <2>1 DEF Full
    <2>3. l.policies[n].graph = Full(l, n)
      BY <1>2 DEF Sound, GraphsRight, GraphsRightOf
    <2> QED BY <1>2, <2>2, <2>3
  <1>8. FiltersRight(u)
    <2> DEFINE Fl(n) == l.policies[n].doc.filters
    <2>1. \A n \in DOMAIN l.policies : l.policies[n].filters = UNION {Fl(k) : k \in Below(l, n)}
      BY DEF Sound, FiltersRight
    <2>2. \A k \in D : u.policies[k].doc.filters = Fl(k)
      BY <1>2
    <2>3. ASSUME NEW n \in D
          PROVE  u.policies[n].filters = UNION {u.policies[k].doc.filters : k \in Below(u, n)}
      <3>1. u.policies[n].filters = UNION {Fl(k) : k \in Below(l, n)}
        BY <1>2, <2>1
      <3>2. \A k \in Below(l, n) : u.policies[k].doc.filters = Fl(k)
        BY <1>6, <2>2
      <3> HIDE DEF Fl
      <3> QED BY <1>6, <3>1, <3>2
    <2>4. u.policies[Asset].filters = UNION {u.policies[k].doc.filters : k \in Below(u, Asset)}
      <3>1. u.policies[Asset].filters = UNION {UNION {Fl(k) : k \in Below(l, c)} : c \in refs}
        BY <1>4, <2>1 DEF Reassigned
      <3>2. Below(u, Asset) = {Asset} \cup UNION {Below(u, c) : c \in refs}
        BY <1>2, <1>3, <1>5, BelowUnfold, LinksStored
      <3>3. \A c \in refs : Below(u, c) = Below(l, c)
        BY <1>4, <1>6
      <3>4. \A c \in refs : \A k \in Below(l, c) : u.policies[k].doc.filters = Fl(k)
        BY <1>4, <1>6, <2>2
      <3>5. UNION {u.policies[k].doc.filters : k \in Below(u, Asset)}
              = UNION {UNION {u.policies[k].doc.filters : k \in Below(l, c)} : c \in refs}
        BY <1>3, <3>2, <3>3
      <3> HIDE DEF Fl
      <3>6. UNION {UNION {u.policies[k].doc.filters : k \in Below(l, c)} : c \in refs}
              = UNION {UNION {Fl(k) : k \in Below(l, c)} : c \in refs}
        BY <3>4
      <3> QED BY <3>1, <3>5, <3>6
    <2> QED BY <1>2, <2>3, <2>4 DEF FiltersRight
  <1>9. ContentsRight(u) /\ FrameworkRight(u)
    BY DEF Sound, ContentsRight, FrameworkRight, Reassigned
  <1> QED BY <1>2, <1>5, <1>6, <1>7, <1>8, <1>9

\* v has the same documents and links as l.
LEMMA SameDocs ==
  ASSUME NEW l, NEW v, LakeShape(l), LinksRight(l), FiltersRight(l),
         DOMAIN v.policies = DOMAIN l.policies,
         \A n \in DOMAIN l.policies :
           /\ v.policies[n].doc = l.policies[n].doc /\ v.policies[n].parents = l.policies[n].parents
           /\ v.policies[n].children = l.policies[n].children
           /\ v.policies[n].filters = l.policies[n].filters
  PROVE  LinksRight(v) /\ FiltersRight(v) /\ \A m : Below(v, m) = Below(l, m)
  <1>1. LinksRight(v)
    BY DEF LinksRight
  <1>2. \A m : Below(v, m) = Below(l, m)
    BY SameBelow
  <1>3. FiltersRight(v)
    <2> SUFFICES ASSUME NEW n \in DOMAIN l.policies
                 PROVE  l.policies[n].filters = UNION {v.policies[k].doc.filters : k \in Below(l, n)}
      BY <1>2 DEF FiltersRight
    <2>1. \A k \in Below(l, n) : v.policies[k].doc.filters = l.policies[k].doc.filters
      BY BelowStored, LinksStored
    <2> QED BY <2>1 DEF FiltersRight
  <1> QED BY <1>1, <1>2, <1>3

\* UpdateChecksums of the asset makes its checksums right.
LEMMA ChecksumsUpdated ==
  ASSUME LakeAssumption, NEW u, LakeShape(u), LinksRight(u), FiltersRight(u), ContentsRight(u),
         FrameworkRight(u), Asset \in DOMAIN u.policies,
         GraphsRightOf(u, DOMAIN u.policies \ {Asset}),
         \A n \in DOMAIN u.policies \ {Asset} : Below(u, n) \subseteq DOMAIN u.policies \ {Asset}
  PROVE  LET r == updateAllChecksums(u)
             x == r.lake
         IN  /\ r.err = FALSE /\ Sound(x)
             /\ DOMAIN x.policies = DOMAIN u.policies
             /\ \A n \in DOMAIN u.policies : x.policies[n].doc = u.policies[n].doc
             /\ \A n \in DOMAIN u.policies \ {Asset} : x.policies[n].local = u.policies[n].local
             /\ x.policies[Asset].local = LocalChecksum(Asset, u.policies[Asset].doc, u.queries)
             /\ x.bundles = u.bundles /\ x.queries = u.queries
  <1> DEFINE refs == u.policies[Asset].doc.refs
             local == LocalChecksum(Asset, u.policies[Asset].doc, u.queries)
             graph == {local} \cup UNION {ValidatedGraph(u, c) : c \in refs}
             v == Validated(u, refs)
             a == v.policies[Asset]
             new == [[a EXCEPT !.local = local] EXCEPT !.graph = graph]
             r == updateAllChecksums(u)
             x == r.lake
  <1>1. RefsStored(u) /\ refs \subseteq DOMAIN u.policies \ {Asset}
    BY LinksStored DEF LakeShape, PolicyShape, LakeAssumption, LinksRight
  <1>2. \A c \in refs : ValidatedGraph(u, c) = Full(u, c) /\ ~Missing(u, c)
    <2> TAKE c \in refs
    <2>1. c \in DOMAIN u.policies /\ GraphsRightOf(u, Below(u, c))
      BY <1>1 DEF GraphsRightOf
    <2> QED BY <1>1, <2>1, ValidGraphBelow
  <1>3. LakeShape(v) /\ Revalidated(u, v) /\ v.bundles = u.bundles
    BY ValidatedOnly
  <1>4. r = [lake |-> [[v EXCEPT !.policies = [v.policies EXCEPT ![Asset] = [a EXCEPT !.local = local]]]
                         EXCEPT !.policies[Asset].graph = graph],
             err |-> FALSE]
    BY <1>2 DEF updateAllChecksums, Ok
  <1> HIDE DEF r, v, graph, local
  <1>5. PolicyShape(a) /\ Asset \in DOMAIN v.policies
    BY <1>3 DEF LakeShape, Revalidated
  <1>6. new = [doc |-> a.doc, local |-> local, graph |-> graph, invalidated |-> a.invalidated,
               parents |-> a.parents, children |-> a.children, filters |-> a.filters]
    <2> DEFINE b == [a EXCEPT !.local = local]
    <2>1. b = [doc |-> a.doc, local |-> local, graph |-> a.graph, invalidated |-> a.invalidated,
               parents |-> a.parents, children |-> a.children, filters |-> a.filters]
      BY <1>5, PolicyWith
    <2> HIDE DEF b, a
    <2>2. /\ b.doc = a.doc /\ b.local = local /\ b.graph = a.graph /\ b.invalidated = a.invalidated
          /\ b.parents = a.parents /\ b.children = a.children /\ b.filters = a.filters
      BY <2>1
    <2>3. PolicyShape(b)
      BY <1>5, <2>1, <2>2 DEF PolicyShape
    <2>4. [b EXCEPT !.graph = graph]
            = [doc |-> b.doc, local |-> b.local, graph |-> graph, invalidated |-> b.invalidated,
               parents |-> b.parents, children |-> b.children, filters |-> b.filters]
      BY <2>3, PolicyWith
    <2> QED BY <2>2, <2>4 DEF b
  <1> DEFINE ps == [v.policies EXCEPT ![Asset] = new]
  <1>7. x = [policies |-> ps, bundles |-> v.bundles, queries |-> v.queries,
             frameworks |-> v.frameworks, assetFramework |-> v.assetFramework]
    <2> DEFINE qs == [v.policies EXCEPT ![Asset] = [a EXCEPT !.local = local]]
               y == [v EXCEPT !.policies = qs]
    <2>1. v = [policies |-> v.policies, bundles |-> v.bundles, queries |-> v.queries,
               frameworks |-> v.frameworks, assetFramework |-> v.assetFramework]
      BY <1>3 DEF LakeShape
    <2>2. qs[Asset] = [a EXCEPT !.local = local]
      BY <1>5
    <2>3. [qs EXCEPT ![Asset] = new] = ps
      BY <1>5
    <2>4. x = [y EXCEPT !.policies = [y.policies EXCEPT ![Asset] = [y.policies[Asset] EXCEPT !.graph = graph]]]
      BY <1>4
    <2> HIDE DEF qs, a, ps, x
    <2>5. y = [policies |-> qs, bundles |-> v.bundles, queries |-> v.queries,
               frameworks |-> v.frameworks, assetFramework |-> v.assetFramework]
      BY <2>1
    <2> HIDE DEF y
    <2>6. y.policies = qs
      BY <2>5
    <2>7. [y.policies EXCEPT ![Asset] = [y.policies[Asset] EXCEPT !.graph = graph]] = ps
      BY <2>2, <2>3, <2>6
    <2>8. x = [y EXCEPT !.policies = ps]
      BY <2>4, <2>7
    <2> QED BY <2>5, <2>8
  <1>8. r.err = FALSE
    BY <1>4
  <1>9. /\ DOMAIN ps = DOMAIN v.policies /\ ps[Asset] = new
        /\ \A n \in DOMAIN v.policies \ {Asset} : ps[n] = v.policies[n]
    BY <1>5
  <1> HIDE DEF x, ps, new, a
  <1>10. /\ x.policies = ps /\ x.bundles = u.bundles /\ x.queries = u.queries
         /\ x.frameworks = u.frameworks /\ x.assetFramework = u.assetFramework
    BY <1>3, <1>7 DEF Revalidated
  <1>11. /\ new.doc = a.doc /\ new.local = local /\ new.graph = graph
         /\ new.invalidated = a.invalidated /\ new.parents = a.parents
         /\ new.children = a.children /\ new.filters = a.filters
    BY <1>6
  <1>12. PolicyShape(new)
    BY <1>5, <1>6, <1>11 DEF PolicyShape
  <1>13. LakeShape(x)
    <2>1. \A n \in DOMAIN ps : PolicyShape(ps[n])
      BY <1>3, <1>9, <1>12 DEF LakeShape
    <2>2. x = [policies |-> x.policies, bundles |-> x.bundles, queries |-> x.queries,
               frameworks |-> x.frameworks, assetFramework |-> x.assetFramework]
      BY <1>7
    <2>3. x.bundles = v.bundles /\ x.assetFramework = v.assetFramework
      BY <1>7
    <2> QED BY <1>3, <1>9, <1>10, <2>1, <2>2, <2>3 DEF LakeShape
  <1>14. /\ DOMAIN ps = DOMAIN u.policies
         /\ \A n \in DOMAIN u.policies :
              /\ ps[n].doc = u.policies[n].doc
              /\ ps[n].parents = u.policies[n].parents
              /\ ps[n].children = u.policies[n].children
              /\ ps[n].filters = u.policies[n].filters
    <2>1. DOMAIN ps = DOMAIN u.policies
      BY <1>3, <1>9 DEF Revalidated
    <2>2. /\ ps[Asset].doc = u.policies[Asset].doc /\ ps[Asset].parents = u.policies[Asset].parents
          /\ ps[Asset].children = u.policies[Asset].children
          /\ ps[Asset].filters = u.policies[Asset].filters
      BY <1>3, <1>9, <1>11 DEF Revalidated, a
    <2>3. ASSUME NEW n \in DOMAIN u.policies \ {Asset}
          PROVE  /\ ps[n].doc = u.policies[n].doc
                 /\ ps[n].parents = u.policies[n].parents
                 /\ ps[n].children = u.policies[n].children
                 /\ ps[n].filters = u.policies[n].filters
      <3>1. ps[n] = v.policies[n]
        BY <1>9, <2>1
      <3> QED BY <1>3, <3>1 DEF Revalidated
    <2> QED BY <2>1, <2>2, <2>3
  <1>15. \A n \in DOMAIN u.policies \ {Asset} :
           /\ ps[n].local = u.policies[n].local
           /\ ps[n].invalidated = u.policies[n].invalidated
           /\ ~u.policies[n].invalidated => ps[n].graph = u.policies[n].graph
    <2> TAKE n \in DOMAIN u.policies \ {Asset}
    <2>1. ps[n] = v.policies[n]
      BY <1>9, <1>14
    <2> QED BY <1>3, <2>1 DEF Revalidated
  <1>16. LinksRight(x) /\ FiltersRight(x) /\ \A m : Below(x, m) = Below(u, m)
    <2>1. /\ DOMAIN x.policies = DOMAIN u.policies
          /\ \A n \in DOMAIN u.policies :
               /\ x.policies[n].doc = u.policies[n].doc
               /\ x.policies[n].parents = u.policies[n].parents
               /\ x.policies[n].children = u.policies[n].children
               /\ x.policies[n].filters = u.policies[n].filters
      BY <1>10, <1>14
    <2>2. /\ LakeShape(u) /\ LinksRight(u) /\ FiltersRight(u)
      OBVIOUS
    <2> QED BY <2>1, <2>2, SameDocs
  <1>17. \A n \in DOMAIN u.policies \ {Asset} : Full(x, n) = Full(u, n)
    <2> TAKE n \in DOMAIN u.policies \ {Asset}
    <2>1. \A k \in Below(u, n) : x.policies[k].local = u.policies[k].local
      BY <1>10, <1>15
    <2>2. Below(x, n) = Below(u, n)
      BY <1>16
    <2> QED BY <2>1, <2>2 DEF Full
  <1>18. GraphsRight(x)
    <2>1. ASSUME NEW n \in DOMAIN u.policies \ {Asset}, ~ps[n].invalidated
          PROVE  ps[n].graph = Full(x, n)
      BY <1>15, <1>17, <2>1 DEF GraphsRightOf
    <2>2. ps[Asset].graph = Full(x, Asset)
      <3>1. Below(x, Asset) = {Asset} \cup UNION {Below(x, c) : c \in refs}
        <4>1. RefsStored(x) /\ x.policies[Asset].doc.refs = refs /\ Asset \in DOMAIN x.policies
          BY <1>10, <1>13, <1>14, <1>16, LinksStored
        <4> QED BY <1>13, <4>1, BelowUnfold
      <3>2. x.policies[Asset].local = local
        BY <1>9, <1>10, <1>11
      <3>3. Full(x, Asset) = {local} \cup UNION {Full(x, c) : c \in refs}
        BY <3>1, <3>2 DEF Full
      <3>4. \A c \in refs : Full(x, c) = ValidatedGraph(u, c)
        BY <1>1, <1>2, <1>17
      <3>5. graph = {local} \cup UNION {ValidatedGraph(u, c) : c \in refs}
        BY DEF graph
      <3> HIDE DEF refs
      <3> QED BY <1>9, <1>11, <3>3, <3>4, <3>5
    <2> QED BY <1>10, <1>14, <2>1, <2>2 DEF GraphsRight, GraphsRightOf
  <1>19. ContentsRight(x) /\ FrameworkRight(x)
    BY <1>10 DEF ContentsRight, FrameworkRight
  <1>20. Sound(x)
    BY <1>13, <1>16, <1>18, <1>19 DEF Sound
  <1>21. x.policies[Asset].local = local
    BY <1>9, <1>10, <1>11
  <1> QED BY <1>8, <1>10, <1>14, <1>15, <1>20, <1>21 DEF x, r, local

\* mutatePolicy, whether it fails or not.  A failed unassignment of one policy
\* has changed nothing.
LEMMA PolicyMutated ==
  ASSUME LakeAssumption, NEW l, Sound(l), Origins(l), SumsRight(l), Asset \in DOMAIN l.policies,
         NEW action \in {"activate", "deactivate"}, NEW S \in SUBSET Policies,
         NEW done \in Done(l, action, S),
         action = "activate" \/ S \subseteq DOMAIN l.policies \/ done = {}
  PROVE  LET v == mutatePolicy(l, action, S, done).lake
         IN  /\ Sound(v) /\ Origins(v) /\ SumsRight(v) /\ Asset \in DOMAIN v.policies
             /\ LocalsRight(l, DOMAIN l.policies) => LocalsRight(v, DOMAIN v.policies)
  <1> DEFINE todo == ToMutate(l, action, S)
             old == l.policies[Asset].doc.refs
             refs == IF action = "activate" THEN old \cup S ELSE old \ S
             k == Linked(l, action, done)
             w == WithRefs(k, refs)
             u == refreshAssetFilters(w)
             r == mutatePolicy(l, action, S, done)
             v == r.lake
  <1>1. todo = IF action = "activate" THEN S \ old ELSE S
    BY DEF ToMutate
  <1>2. /\ done \subseteq todo \cap DOMAIN l.policies
        /\ todo \subseteq DOMAIN l.policies => done = todo
    BY DEF Done
  <1>3. Asset \notin S
    BY DEF LakeAssumption
  <1>4. LakeShape(l) /\ LinksRight(l)
    BY DEF Sound
  <1>5. CASE ~(todo \subseteq DOMAIN l.policies)
    <2>1. v = k
      BY <1>5 DEF mutatePolicy, Fail
    <2>2. done \in SUBSET (DOMAIN l.policies \ {Asset})
      BY <1>1, <1>2, <1>3
    <2>3. LinkedTo(l, k, action, done)
      BY <1>4, <2>2, LinkedShape
    <2>4. action = "activate" \/ done = {}
      BY <1>1, <1>5
    <2>5. DOMAIN k.policies = DOMAIN l.policies
      BY <2>3 DEF LinkedTo
    <2> HIDE DEF k, v
    <2>6. Sound(k) /\ Origins(k) /\ SumsRight(k)
            /\ (LocalsRight(l, DOMAIN l.policies) => LocalsRight(k, DOMAIN k.policies))
      BY <2>3, <2>4, LinkedSound
    <2> QED BY <2>1, <2>5, <2>6 DEF v
  <1>6. CASE todo \subseteq DOMAIN l.policies /\ done = {}
    <2>1. v = l
      BY <1>6 DEF mutatePolicy, Ok
    <2> QED BY <2>1
  <1>7. CASE todo \subseteq DOMAIN l.policies /\ done # {}
    <2>1. /\ Reassigned(l, u, refs)
          /\ w.policies[Asset].doc.refs = refs
          /\ refs \subseteq Policies \cap DOMAIN l.policies
      <3>1. done \subseteq S /\ done \subseteq DOMAIN l.policies
              /\ IF action = "activate" THEN done = S \ old ELSE done = S
        BY <1>1, <1>2, <1>7
      <3> QED BY <1>4, <3>1, ReassignedShape
    <2>2. r = updateAllChecksums(u)
      <3>1. r = IF ~(w.policies[Asset].doc.refs \subseteq DOMAIN l.policies) THEN Fail(w)
                ELSE updateAllChecksums(u)
        BY <1>7 DEF mutatePolicy
      <3> QED BY <2>1, <3>1
    <2> HIDE DEF u, w, k, refs, r
    <2>3. refs \in SUBSET (Policies \cap DOMAIN l.policies)
      BY <2>1
    <2>4. /\ LinksRight(u) /\ FiltersRight(u) /\ ContentsRight(u) /\ FrameworkRight(u)
          /\ GraphsRightOf(u, DOMAIN u.policies \ {Asset})
          /\ \A n \in DOMAIN u.policies \ {Asset} : Below(u, n) \subseteq DOMAIN u.policies \ {Asset}
      BY <2>1, <2>3, ReassignedRight
    <2>5. /\ LakeShape(u) /\ DOMAIN u.policies = DOMAIN l.policies
          /\ \A n \in DOMAIN l.policies \ {Asset} :
               u.policies[n].doc = l.policies[n].doc /\ u.policies[n].local = l.policies[n].local
          /\ u.policies[Asset].doc = [version |-> 0, refs |-> refs, queries |-> {}, filters |-> {}]
          /\ u.bundles = l.bundles /\ u.queries = l.queries
      BY <2>1 DEF Reassigned
    <2>6. /\ Sound(v)
          /\ DOMAIN v.policies = DOMAIN u.policies
          /\ \A n \in DOMAIN u.policies : v.policies[n].doc = u.policies[n].doc
          /\ \A n \in DOMAIN u.policies \ {Asset} : v.policies[n].local = u.policies[n].local
          /\ v.policies[Asset].local = LocalChecksum(Asset, u.policies[Asset].doc, u.queries)
          /\ v.bundles = u.bundles /\ v.queries = u.queries
      BY <2>2, <2>4, <2>5, ChecksumsUpdated
    <2> HIDE DEF v
    <2>7. /\ DOMAIN v.policies = DOMAIN l.policies
          /\ \A n \in DOMAIN l.policies \ {Asset} :
               v.policies[n].doc = l.policies[n].doc /\ v.policies[n].local = l.policies[n].local
          /\ v.policies[Asset].doc = [version |-> 0, refs |-> refs, queries |-> {}, filters |-> {}]
          /\ v.policies[Asset].local = LocalChecksum(Asset, v.policies[Asset].doc, l.queries)
          /\ v.bundles = l.bundles /\ v.queries = l.queries
      BY <2>5, <2>6
    <2>8. Origins(v)
      <3>1. v.policies[Asset].doc
              = [version |-> 0, refs |-> v.policies[Asset].doc.refs, queries |-> {}, filters |-> {}]
        <4> DEFINE d == v.policies[Asset].doc
        <4>1. d = [version |-> 0, refs |-> refs, queries |-> {}, filters |-> {}]
          BY <2>7
        <4> HIDE DEF d
        <4>2. d.refs = refs
          BY <4>1
        <4> QED BY <4>1, <4>2 DEF d
      <3>2. ASSUME NEW p \in DOMAIN v.policies, p # Asset
            PROVE  \E b \in Bundles :
                     /\ Outside(b) = {} /\ p \in DOMAIN b.policies
                     /\ v.policies[p].doc = b.policies[p]
                     /\ v.policies[p].local = LocalChecksum(p, b.policies[p], b.queries)
        <4>1. /\ p \in DOMAIN l.policies
              /\ v.policies[p].doc = l.policies[p].doc /\ v.policies[p].local = l.policies[p].local
          BY <2>7, <3>2
        <4> QED BY <3>2, <4>1 DEF Origins
      <3> QED BY <3>1, <3>2 DEF Origins
    <2>9. SumsRight(v)
      BY <2>7 DEF SumsRight
    <2>10. LocalsRight(l, DOMAIN l.policies) => LocalsRight(v, DOMAIN v.policies)
      BY <2>7 DEF LocalsRight
    <2> QED BY <2>6, <2>7, <2>8, <2>9, <2>10 DEF v, r
  <1> QED BY <1>5, <1>6, <1>7

\* Invalidating one more bundle changes nothing that has to be right.
LEMMA BundleInvalidated ==
  ASSUME NEW l, Sound(l), Origins(l), SumsRight(l), NEW m \in DOMAIN l.bundles
  PROVE  LET v == [l EXCEPT !.bundles[m].invalidated = TRUE]
         IN  /\ Sound(v) /\ Origins(v) /\ SumsRight(v)
             /\ v.policies = l.policies /\ v.queries = l.queries
  <1> DEFINE b == l.bundles[m]
             new == [b EXCEPT !.invalidated = TRUE]
             bs == [l.bundles EXCEPT ![m] = new]
             v == [l EXCEPT !.bundles[m].invalidated = TRUE]
  <1>1. l = [policies |-> l.policies, bundles |-> l.bundles, queries |-> l.queries,
             frameworks |-> l.frameworks, assetFramework |-> l.assetFramework]
    BY DEF Sound, LakeShape
  <1>2. v = [l EXCEPT !.bundles = bs]
    OBVIOUS
  <1>3. BundleShape(b)
    BY DEF Sound, LakeShape
  <1>4. new = [contents |-> b.contents, sum |-> b.sum, invalidated |-> TRUE]
    BY <1>3, BundleWith
  <1>5. DOMAIN bs = DOMAIN l.bundles /\ bs[m] = new /\ \A n \in DOMAIN l.bundles \ {m} : bs[n] = l.bundles[n]
    OBVIOUS
  <1> HIDE DEF v, bs, new, b
  <1>6. v = [policies |-> l.policies, bundles |-> bs, queries |-> l.queries,
             frameworks |-> l.frameworks, assetFramework |-> l.assetFramework]
    BY <1>1, <1>2
  <1>7. /\ v.policies = l.policies /\ v.bundles = bs /\ v.queries = l.queries
        /\ v.frameworks = l.frameworks /\ v.assetFramework = l.assetFramework
    BY <1>6
  <1>8. BundleShape(new) /\ new.contents = b.contents /\ new.sum = b.sum
    BY <1>4 DEF BundleShape
  <1>9. \A n \in DOMAIN l.bundles : /\ BundleShape(bs[n])
                                    /\ bs[n].contents = l.bundles[n].contents
                                    /\ bs[n].sum = l.bundles[n].sum
    <2> TAKE n \in DOMAIN l.bundles
    <2>1. CASE n = m
      BY <1>5, <1>8, <2>1 DEF b
    <2>2. CASE n # m
      BY <1>5, <2>2 DEF Sound, LakeShape
    <2> QED BY <2>1, <2>2
  <1>10. LakeShape(v)
    BY <1>5, <1>6, <1>7, <1>9 DEF Sound, LakeShape
  <1>11. \A n : Below(v, n) = Below(l, n) /\ Full(v, n) = Full(l, n)
    BY <1>7 DEF Below, Full, Edges
  <1>12. LinksRight(v) /\ FrameworkRight(v)
    BY <1>7 DEF Sound, LinksRight, FrameworkRight
  <1>13. FiltersRight(v) /\ GraphsRight(v)
    BY <1>7, <1>11 DEF Sound, FiltersRight, GraphsRight, GraphsRightOf
  <1>14. ContentsRight(v)
    BY <1>5, <1>7, <1>9 DEF Sound, ContentsRight
  <1>15. Origins(v)
    BY <1>7, OriginsKept
  <1>16. SumsRight(v)
    BY <1>5, <1>7, <1>9 DEF SumsRight
  <1> QED BY <1>7, <1>10, <1>12, <1>13, <1>14, <1>15, <1>16 DEF Sound, v

\* MutateAssignments keeps what is right, whichever of its steps fails.
LEMMA AssignmentsMutated ==
  ASSUME LakeAssumption, NEW l, Sound(l), Origins(l), SumsRight(l), Asset \in DOMAIN l.policies,
         NEW action \in {"activate", "deactivate"}, NEW S \in SUBSET Policies,
         NEW fs \in SUBSET Frameworks, NEW done \in Done(l, action, S),
         action = "activate" \/ S \subseteq DOMAIN l.policies \/ done = {}
  PROVE  LET v == MutateAssignments(l, action, S, fs, done)
         IN  /\ Sound(v) /\ Origins(v) /\ SumsRight(v)
             /\ LocalsRight(l, DOMAIN l.policies) => LocalsRight(v, DOMAIN v.policies)
  <1> DEFINE fw == mutateFramework(l, fs)
             f == fw.lake
             pol == mutatePolicy(f, action, S, done)
             p == pol.lake
             inv == checkAndInvalidatePolicyBundle(p, Asset).lake
             flagged == [inv EXCEPT !.bundles[Asset].invalidated = TRUE]
             v == MutateAssignments(l, action, S, fs, done)
             Right(x) == /\ Sound(x) /\ Origins(x) /\ SumsRight(x)
                         /\ LocalsRight(l, DOMAIN l.policies) => LocalsRight(x, DOMAIN x.policies)
  <1>1. v \in {f, p, inv} \/ (Asset \in DOMAIN inv.bundles /\ v = flagged)
    BY DEF MutateAssignments
  <1>2. Right(f) /\ f.policies = l.policies
    <2>1. f.policies = l.policies
      BY DEF mutateFramework, Ok, Fail, Sound, LakeShape
    <2> QED BY <2>1, FrameworkMutated
  <1>3. Right(p) /\ Asset \in DOMAIN p.policies
    <2>1. done \in Done(f, action, S)
      BY <1>2 DEF Done, ToMutate
    <2> HIDE DEF f
    <2> QED BY <1>2, <2>1, PolicyMutated
  <1> HIDE DEF p, f
  <1>4. Right(inv)
    <2>1. Sound(inv) /\ Frame(p, inv)
      <3>1. /\ LakeShape(p) /\ LinksRight(p) /\ FiltersRight(p) /\ ContentsRight(p)
            /\ FrameworkRight(p) /\ GraphsRight(p)
        BY <1>3 DEF Sound
      <3>2. \A n \in DOMAIN p.policies :
              ~p.policies[n].invalidated => p.policies[n].graph = Full(p, n) \/ Asset \in Below(p, n)
        BY <3>1 DEF GraphsRight, GraphsRightOf
      <3> QED BY <1>3, <3>1, <3>2, Checked
    <2> HIDE DEF inv
    <2>2. Origins(inv)
      BY <1>3, <2>1, OriginsKept DEF Frame
    <2>3. SumsRight(inv)
      BY <1>3, <2>1 DEF SumsRight, Frame
    <2>4. LocalsRight(p, DOMAIN p.policies) => LocalsRight(inv, DOMAIN inv.policies)
      BY <2>1 DEF LocalsRight, Frame
    <2> QED BY <1>3, <2>1, <2>2, <2>3, <2>4
  <1>5. ASSUME Asset \in DOMAIN inv.bundles
        PROVE  Right(flagged)
    <2> HIDE DEF inv
    <2>1. Sound(flagged) /\ Origins(flagged) /\ SumsRight(flagged)
            /\ flagged.policies = inv.policies /\ flagged.queries = inv.queries
      BY <1>4, <1>5, BundleInvalidated
    <2> HIDE DEF flagged
    <2> QED BY <1>4, <2>1 DEF LocalsRight
  <1> HIDE DEF flagged, inv, v
  <1> QED BY <1>1, <1>2, <1>3, <1>4, <1>5 DEF v

-----------------------------------------------------------------------------
(* The invariant *)

\* Where the upload that runs has come to.
UploadRight ==
  IF uploading = None THEN left = {} ELSE ~panicked /\ UploadAt(lake, uploading, left)

\* Links, filters and checksums are right in every state, and so are the local
\* checksums of what the upload has stored.  After a panic they are not: the
\* queries of the bundle are stored, its policies are not.
IInv ==
  /\ Sound(lake) /\ Origins(lake) /\ SumsRight(lake)
  /\ ~panicked => LocalsRight(lake, DOMAIN lake.policies \ left)
  /\ UploadRight
  /\ panicked \in BOOLEAN

\* Between the calls.
LEMMA IdleRight ==
  ASSUME IInv, Idle
  PROVE  /\ Sound(lake) /\ Origins(lake) /\ SumsRight(lake)
         /\ LocalsRight(lake, DOMAIN lake.policies) /\ left = {}
  <1>1. left = {}
    BY DEF IInv, Idle, UploadRight
  <1>2. DOMAIN lake.policies \ left = DOMAIN lake.policies
    BY <1>1
  <1> QED BY <1>1, <1>2 DEF IInv, Idle

\* After a call.
LEMMA IdleAgain ==
  ASSUME Sound(lake'), Origins(lake'), SumsRight(lake'), panicked' \in BOOLEAN,
         ~panicked' => LocalsRight(lake', DOMAIN lake'.policies),
         uploading' = None, left' = {}
  PROVE  IInv'
  <1>1. DOMAIN lake'.policies \ left' = DOMAIN lake'.policies
    OBVIOUS
  <1> QED BY <1>1 DEF IInv, UploadRight

\* NewServices: an empty lake.
LEMMA InitRight ==
  ASSUME Init
  PROVE  IInv
  <1>1. /\ DOMAIN lake.policies = {} /\ DOMAIN lake.bundles = {}
        /\ \A f \in Frameworks : lake.frameworks[f] = None
        /\ lake.assetFramework = [refs |-> {}, graph |-> {}]
        /\ lake = [policies |-> lake.policies, bundles |-> lake.bundles, queries |-> lake.queries,
                   frameworks |-> lake.frameworks, assetFramework |-> lake.assetFramework]
    BY DEF Init
  <1>2. lake.assetFramework.refs = {} /\ lake.assetFramework.graph = {}
          /\ lake.assetFramework
               = [refs |-> lake.assetFramework.refs, graph |-> lake.assetFramework.graph]
    <2> DEFINE a == lake.assetFramework
    <2>1. a = [refs |-> {}, graph |-> {}]
      BY <1>1
    <2> HIDE DEF a
    <2>2. a.refs = {} /\ a.graph = {} /\ a = [refs |-> a.refs, graph |-> a.graph]
      BY <2>1
    <2> QED BY <2>2 DEF a
  <1>3. LakeShape(lake)
    BY <1>1, <1>2 DEF LakeShape
  <1>4. LinksRight(lake) /\ FiltersRight(lake) /\ ContentsRight(lake) /\ Origins(lake) /\ SumsRight(lake)
    BY <1>1 DEF LinksRight, FiltersRight, ContentsRight, Origins, SumsRight
  <1>5. GraphsRight(lake) /\ LocalsRight(lake, DOMAIN lake.policies)
    BY <1>1 DEF GraphsRight, GraphsRightOf, LocalsRight
  <1>6. FrameworkRight(lake)
    BY <1>1, <1>2 DEF FrameworkRight
  <1> QED BY <1>3, <1>4, <1>5, <1>6 DEF Init, IInv, Sound, UploadRight

\* SetBundle stores the queries, and the upload begins.
LEMMA SetBundleRight ==
  ASSUME LakeAssumption, UploadsWhole, IInv, NEW b \in Bundles, SetBundle(b)
  PROVE  IInv'
  <1>1. /\ Sound(lake) /\ Origins(lake) /\ SumsRight(lake)
        /\ LocalsRight(lake, DOMAIN lake.policies)
    BY IdleRight DEF SetBundle
  <1>2. /\ lake' = WithQueries(lake, b) /\ uploading' = b /\ left' = DOMAIN b.policies
        /\ panicked' = FALSE /\ Outside(b) = {}
    BY DEF SetBundle, Idle, IInv
  <1>3. /\ Sound(lake') /\ Origins(lake') /\ SumsRight(lake')
        /\ UploadAt(lake', b, DOMAIN b.policies)
        /\ LocalsRight(lake', DOMAIN lake'.policies \ DOMAIN b.policies)
    BY <1>1, <1>2, QueriesStored
  <1>4. b # None
    BY DEF LakeAssumption
  <1> QED BY <1>2, <1>3, <1>4 DEF IInv, UploadRight

\* Nothing but queries is stored before the panic.
LEMMA SetBundlePanicsRight ==
  ASSUME LakeAssumption, IInv, NEW b \in Bundles, SetBundlePanics(b)
  PROVE  IInv'
  <1>1. Sound(lake) /\ Origins(lake) /\ SumsRight(lake) /\ left = {} /\ uploading = None
    BY IdleRight DEF SetBundlePanics, Idle
  <1>2. lake' = WithQueries(lake, b) /\ panicked' = TRUE /\ uploading' = None /\ left' = {}
    BY <1>1 DEF SetBundlePanics
  <1>3. Sound(lake') /\ Origins(lake') /\ SumsRight(lake')
    BY <1>1, <1>2, QueriesStored
  <1> QED BY <1>2, <1>3, IdleAgain

\* Every policy of the upload is stored.
LEMMA SetPolicyFromBundleRight ==
  ASSUME LakeAssumption, UploadsWhole, IInv, NEW m \in Policies, SetPolicyFromBundle(m)
  PROVE  IInv'
  <1> DEFINE r == Upload(lake, m, uploading)
  <1>1. /\ Sound(lake) /\ Origins(lake) /\ SumsRight(lake) /\ panicked = FALSE
        /\ LocalsRight(lake, DOMAIN lake.policies \ left) /\ UploadAt(lake, uploading, left)
        /\ uploading # None /\ m \in left /\ uploading.policies[m].refs \cap left = {}
    BY DEF SetPolicyFromBundle, IInv, UploadRight
  <1>2. /\ r.err = FALSE
        /\ Sound(r.lake) /\ Origins(r.lake) /\ SumsRight(r.lake)
        /\ UploadAt(r.lake, uploading, left \ {m})
        /\ LocalsRight(r.lake, DOMAIN r.lake.policies \ (left \ {m}))
    BY <1>1, Uploaded
  <1>3. /\ lake' = r.lake /\ panicked' = panicked
        /\ uploading' = IF r.err THEN None ELSE uploading
        /\ left' = IF r.err THEN {} ELSE left \ {m}
    BY DEF SetPolicyFromBundle
  <1> HIDE DEF r
  <1>4. uploading' = uploading /\ left' = left \ {m}
    BY <1>2, <1>3
  <1> QED BY <1>1, <1>2, <1>3, <1>4 DEF IInv, UploadRight

\* SetBundle ends with the frameworks.
LEMMA SetFrameworksRight ==
  ASSUME LakeAssumption, UploadsWhole, IInv, SetFrameworks
  PROVE  IInv'
  <1>1. /\ Sound(lake) /\ Origins(lake) /\ SumsRight(lake) /\ panicked = FALSE
        /\ LocalsRight(lake, DOMAIN lake.policies \ left) /\ left = {} /\ uploading \in Bundles
    BY DEF SetFrameworks, IInv, UploadRight, UploadAt
  <1>2. lake' = WithFrameworks(lake, uploading) /\ uploading' = None /\ left' = {} /\ panicked' = FALSE
    BY <1>1 DEF SetFrameworks
  <1>3. DOMAIN lake.policies \ left = DOMAIN lake.policies
    BY <1>1
  <1>4. /\ Sound(lake') /\ Origins(lake') /\ SumsRight(lake')
        /\ LocalsRight(lake', DOMAIN lake'.policies)
    BY <1>1, <1>2, <1>3, FrameworksStored
  <1> QED BY <1>2, <1>4, IdleAgain

\* Assign, whichever policy or framework is missing.
LEMMA AssignRight ==
  ASSUME LakeAssumption, IInv, NEW S \in SUBSET Policies, NEW fs \in SUBSET Frameworks, Assign(S, fs)
  PROVE  IInv'
  <1> DEFINE l == ensureAsset(lake)
  <1>1. /\ Sound(lake) /\ Origins(lake) /\ SumsRight(lake)
        /\ LocalsRight(lake, DOMAIN lake.policies) /\ left = {} /\ uploading = None /\ panicked = FALSE
    BY IdleRight DEF Assign, Idle, IInv
  <1>2. /\ Sound(l) /\ Origins(l) /\ SumsRight(l) /\ Asset \in DOMAIN l.policies
        /\ LocalsRight(l, DOMAIN l.policies)
    BY <1>1, AssetEnsured
  <1>3. PICK done \in Done(l, "activate", S) : lake' = MutateAssignments(l, "activate", S, fs, done)
    BY DEF Assign
  <1>4. uploading' = None /\ left' = {} /\ panicked' = FALSE
    BY <1>1 DEF Assign
  <1> HIDE DEF l
  <1>5. /\ Sound(lake') /\ Origins(lake') /\ SumsRight(lake')
        /\ LocalsRight(lake', DOMAIN lake'.policies)
    BY <1>2, <1>3, AssignmentsMutated
  <1> QED BY <1>4, <1>5, IdleAgain

\* One policy at a time: the loop over several stops at one that is missing,
\* when the links of those before it are gone already.
LEMMA OneOrNone ==
  ASSUME LakeAssumption, NEW S \in SUBSET Policies, Cardinality(S) <= 1, NEW x \in S
  PROVE  S = {x}
  <1>1. IsFiniteSet(S)
    BY FS_Subset DEF LakeAssumption
  <1>2. IsFiniteSet(S \ {x}) /\ Cardinality(S \ {x}) = Cardinality(S) - 1
    BY <1>1, FS_RemoveElement
  <1>3. Cardinality(S) \in Nat /\ Cardinality(S \ {x}) \in Nat
    BY <1>1, <1>2, FS_CardinalityType
  <1>4. S \ {x} = {}
    BY <1>2, <1>3, FS_EmptySet
  <1> QED BY <1>4

\* Unassign of one policy.
LEMMA UnassignRight ==
  ASSUME LakeAssumption, MaxUnassign <= 1, IInv, NEW S \in SUBSET Policies, Unassign(S)
  PROVE  IInv'
  <1> DEFINE l == ensureAsset(lake)
  <1>1. /\ Sound(lake) /\ Origins(lake) /\ SumsRight(lake)
        /\ LocalsRight(lake, DOMAIN lake.policies) /\ left = {} /\ uploading = None /\ panicked = FALSE
    BY IdleRight DEF Unassign, Idle, IInv
  <1>2. /\ Sound(l) /\ Origins(l) /\ SumsRight(l) /\ Asset \in DOMAIN l.policies
        /\ LocalsRight(l, DOMAIN l.policies)
    BY <1>1, AssetEnsured
  <1>3. PICK done \in Done(l, "deactivate", S) : lake' = MutateAssignments(l, "deactivate", S, {}, done)
    BY DEF Unassign
  <1>4. uploading' = None /\ left' = {} /\ panicked' = FALSE
    BY <1>1 DEF Unassign
  <1> HIDE DEF l
  <1>5. S \subseteq DOMAIN l.policies \/ done = {}
    <2> SUFFICES ASSUME NEW x \in S, x \notin DOMAIN l.policies
                 PROVE  done = {}
      OBVIOUS
    <2>1. IsFiniteSet(S)
      BY FS_Subset DEF LakeAssumption
    <2>2. Cardinality(S) \in Nat /\ MaxUnassign \in Nat
      BY <2>1, FS_CardinalityType DEF LakeAssumption
    <2>3. Cardinality(S) <= 1
      BY <2>2 DEF Unassign
    <2>4. S = {x}
      BY <2>3, OneOrNone
    <2>5. done \subseteq S \cap DOMAIN l.policies
      BY <1>3 DEF Done, ToMutate
    <2> QED BY <2>4, <2>5
  <1>6. /\ Sound(lake') /\ Origins(lake') /\ SumsRight(lake')
        /\ LocalsRight(lake', DOMAIN lake'.policies)
    BY <1>2, <1>3, <1>5, AssignmentsMutated
  <1> QED BY <1>4, <1>6, IdleAgain

\* Unassign of a framework only makes sure that the asset is there.
LEMMA UnassignFrameworkRight ==
  ASSUME LakeAssumption, IInv, NEW f \in Frameworks, UnassignFramework(f)
  PROVE  IInv'
  <1>1. /\ Sound(lake) /\ Origins(lake) /\ SumsRight(lake)
        /\ LocalsRight(lake, DOMAIN lake.policies) /\ left = {} /\ uploading = None
    BY IdleRight DEF UnassignFramework, Idle
  <1>2. /\ lake' = ensureAsset(lake) /\ uploading' = None /\ left' = {} /\ panicked' \in BOOLEAN
    BY <1>1 DEF UnassignFramework
  <1>3. /\ Sound(lake') /\ Origins(lake') /\ SumsRight(lake')
        /\ LocalsRight(lake', DOMAIN lake'.policies)
    BY <1>1, <1>2, AssetEnsured
  <1> QED BY <1>2, <1>3, IdleAgain

\* DeletePolicy removes what nothing is made of.
LEMMA DeletePolicyRight ==
  ASSUME LakeAssumption, IInv, NEW m \in Policies, DeletePolicy(m)
  PROVE  IInv'
  <1>1. /\ Sound(lake) /\ Origins(lake) /\ SumsRight(lake)
        /\ LocalsRight(lake, DOMAIN lake.policies) /\ left = {} /\ uploading = None /\ panicked = FALSE
    BY IdleRight DEF DeletePolicy, Idle, IInv
  <1>2. /\ m \in DOMAIN lake.policies /\ lake.policies[m].parents = {} /\ lake' = Without(lake, m)
        /\ uploading' = None /\ left' = {} /\ panicked' = FALSE
    BY <1>1 DEF DeletePolicy, Stored
  <1>3. m # Asset
    BY DEF LakeAssumption
  <1>4. /\ Sound(lake') /\ Origins(lake') /\ SumsRight(lake')
        /\ LocalsRight(lake', DOMAIN lake'.policies)
    BY <1>1, <1>2, <1>3, Deleted
  <1> QED BY <1>2, <1>4, IdleAgain

\* GetValidatedBundle, asked for any policy.
LEMMA GetBundleRight ==
  ASSUME LakeAssumption, IInv, NEW m \in Mrns, GetBundle(m)
  PROVE  IInv'
  <1>1. /\ Sound(lake) /\ Origins(lake) /\ SumsRight(lake)
        /\ LocalsRight(lake, DOMAIN lake.policies) /\ left = {} /\ uploading = None
    BY IdleRight DEF GetBundle, Idle
  <1>2. /\ m \in DOMAIN lake.policies /\ lake' = GetValidatedBundle(lake, m).lake
        /\ uploading' = None /\ left' = {} /\ panicked' \in BOOLEAN
    BY <1>1 DEF GetBundle, Stored
  <1>3. LocalsRight(lake, Below(lake, m))
    <2>1. Below(lake, m) \subseteq DOMAIN lake.policies
      BY <1>1, <1>2, BelowStored, LinksStored DEF Sound
    <2> QED BY <1>1, <2>1 DEF LocalsRight
  <1>4. /\ Sound(lake') /\ Origins(lake') /\ SumsRight(lake') /\ SameStored(lake, lake')
    <2>1. \A n \in (DOMAIN lake.policies \cap DOMAIN lake.bundles) \ {m, Asset} :
            \A x \in lake.bundles[n].sum.policy : x[1] = n => x = lake.policies[n].local
      BY <1>1 DEF SumsRight
    <2> DEFINE v == GetValidatedBundle(lake, m).lake
    <2>2. Sound(v) /\ Origins(v) /\ SumsRight(v) /\ SameStored(lake, v)
      BY <1>1, <1>2, <1>3, <2>1, BundleSound
    <2> HIDE DEF v
    <2>3. lake' = v
      BY <1>2 DEF v
    <2> QED BY <2>2, <2>3
  <1>5. LocalsRight(lake', DOMAIN lake'.policies)
    BY <1>1, <1>4 DEF LocalsRight, SameStored
  <1> QED BY <1>2, <1>4, <1>5, IdleAgain

-----------------------------------------------------------------------------
(* Theorems *)

\* Whatever is uploaded (SetBundle), assigned and unassigned (mutatePolicy),
\* deleted (DeletePolicy) and asked for (GetValidatedBundle), every checksum, link
\* and filter that is stored is right, or invalidated.
THEOREM LakeInvariant ==
  ASSUME UploadsWhole, MaxUnassign <= 1
  PROVE  Spec => []IInv
  <1>1. Init => IInv
    BY InitRight
  <1>2. IInv /\ [Next]_vars => IInv'
    <2> SUFFICES ASSUME IInv, [Next]_vars
                 PROVE  IInv'
      OBVIOUS
    <2>1. CASE UNCHANGED vars
      BY <2>1 DEF vars, IInv, UploadRight
    <2>2. ASSUME NEW b \in Bundles, SetBundle(b) \/ SetBundlePanics(b)
          PROVE  IInv'
      BY <2>2, LakeAssumption, SetBundleRight, SetBundlePanicsRight
    <2>3. ASSUME NEW m \in Policies, SetPolicyFromBundle(m)
          PROVE  IInv'
      BY <2>3, LakeAssumption, SetPolicyFromBundleRight
    <2>4. CASE SetFrameworks
      BY <2>4, LakeAssumption, SetFrameworksRight
    <2>5. ASSUME NEW S \in SUBSET Policies, NEW fs \in SUBSET Frameworks, Assign(S, fs)
          PROVE  IInv'
      BY <2>5, LakeAssumption, AssignRight
    <2>6. ASSUME NEW S \in SUBSET Policies, Unassign(S)
          PROVE  IInv'
      BY <2>6, LakeAssumption, UnassignRight
    <2>7. ASSUME NEW f \in Frameworks, UnassignFramework(f)
          PROVE  IInv'
      BY <2>7, LakeAssumption, UnassignFrameworkRight
    <2>8. ASSUME NEW m \in Policies, DeletePolicy(m)
          PROVE  IInv'
      BY <2>8, LakeAssumption, DeletePolicyRight
    <2>9. ASSUME NEW m \in Mrns, GetBundle(m)
          PROVE  IInv'
      BY <2>9, LakeAssumption, GetBundleRight
    <2> QED BY <2>1, <2>2, <2>3, <2>4, <2>5, <2>6, <2>7, <2>8, <2>9 DEF Next
  <1> QED BY <1>1, <1>2, PTL DEF Spec

\* When no call runs all local checksums are right, so bundles are computed from
\* what is stored.
LEMMA FreshBetweenCalls ==
  ASSUME IInv
  PROVE  BundleFresh
  <1> SUFFICES ASSUME Idle, NEW m \in DOMAIN lake.policies
               PROVE  LET r == GetValidatedBundle(lake, m)
                      IN  ~r.err /\ r.lake.bundles[m].contents = Current(m)
    BY DEF BundleFresh
  <1>1. LakeShape(lake) /\ LinksRight(lake) /\ GraphsRight(lake) /\ FrameworkRight(lake)
          /\ ContentsRight(lake) /\ LocalsRight(lake, DOMAIN lake.policies)
    BY IdleRight DEF Sound
  <1>2. LocalsRight(lake, Below(lake, m))
    <2>1. Below(lake, m) \subseteq DOMAIN lake.policies
      BY <1>1, BelowStored, LinksStored
    <2> QED BY <1>1, <2>1 DEF LocalsRight
  <1>3. Current(m) = Fresh(lake, m)
    BY DEF Current, Fresh
  <1> QED BY <1>1, <1>2, <1>3, LakeAssumption, BundleValidated

\* Links and filters are parts of the invariant.
LEMMA ConsistentAlways ==
  ASSUME IInv
  PROVE  LakeConsistent
  <1>1. RefsLinked
    BY DEF IInv, Sound, LinksRight, RefsLinked, Stored
  <1>2. FiltersCurrent
    BY DEF IInv, Sound, FiltersRight, FiltersCurrent, FiltersBelow
  <1> QED BY <1>1, <1>2 DEF LakeConsistent

\* Between the calls GetValidatedBundle succeeds for every stored policy and
\* answers with what is stored at that moment, for any policies and bundles.
THEOREM BundlesFresh ==
  ASSUME UploadsWhole, MaxUnassign <= 1
  PROVE  Spec => []BundleFresh
  <1>1. IInv => BundleFresh
    BY FreshBetweenCalls
  <1> QED BY <1>1, LakeInvariant, PTL

\* The links that setPolicy, mutatePolicy and DeletePolicy keep in both directions
\* and the filters that GetPolicyFilters answers with are right in every state,
\* also in the middle of an upload.
THEOREM LakeStaysConsistent ==
  ASSUME UploadsWhole, MaxUnassign <= 1
  PROVE  Spec => []LakeConsistent
  <1>1. IInv => LakeConsistent
    BY ConsistentAlways
  <1> QED BY <1>1, LakeInvariant, PTL
=============================================================================
