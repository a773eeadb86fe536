----------------------------- MODULE MCPolicies -----------------------------
(***************************************************************************)
(* From uploaded policies to resolved ones, for TLC: the policy lake, the   *)
(* builder of resolved policies and the cache that keeps them.  What one    *)
(* hands to the next is data the instances enumerate (a bundle, a resolved  *)
(* policy of some size), and they share no state, so that each is checked   *)
(* on its own: part says which of them moves in a behaviour.                *)
(***************************************************************************)
EXTENDS PolicyLake, Sequences, TLC

CONSTANTS
  base, app, other,   \* policies; app and other are made of base
  q1, q2,             \* shared queries
  cis,                \* a framework
  c1, c2, k1, k2,
  Callers, Keys, Sizes, SizeLimit, TTL, MaxTime   \* ResolvedPolicyCache

-----------------------------------------------------------------------------
(* Uploads *)

Doc(v, refs, qs, filters) == [version |-> v, refs |-> refs, queries |-> qs, filters |-> filters]
Base(v)  == base :> Doc(v, {}, {q1}, {"linux"})
App(v)   == app :> Doc(v, {base}, {q2}, {"web"})
Other(v) == other :> Doc(v, {base}, {}, {"db"})
Bundle(ps, qs) == [policies |-> ps, queries |-> qs, frameworks |-> <<>>]

\* a policy below two others that changes under them, and a bundle that is not
\* complete
MCDiamond ==
  {Bundle(Base(2), q1 :> 1), Bundle(Base(1) @@ App(1) @@ Other(1), (q1 :> 1) @@ (q2 :> 1)),
   Bundle(Other(1), <<>>)}

\* two policies in new versions, alone and together, with new versions of their
\* queries; and a framework
MCUploads ==
  {Bundle(Base(1), q1 :> 2)}
    \cup {Bundle(Base(v) @@ App(v), (q1 :> 1) @@ (q2 :> 1)) : v \in 1 .. 2}
    \cup {[policies |-> <<>>, queries |-> <<>>, frameworks |-> cis :> 1]}

-----------------------------------------------------------------------------
(* Bundles to resolve.  An asset has a space, the space has two policies and *)
(* overrides one or two of their checks; one check has variants and may      *)
(* share its code with another check; a framework has a control over         *)
(* checks, a data query and a policy.                                        *)

Ref(m, a, i)     == [mrn |-> m, action |-> a, impact |-> i]
Own(m)           == Ref(m, "unspecified", None)
Group(t, f, e, ps, cs, qs) ==
  [type |-> t, filters |-> f, expired |-> e, policies |-> ps, checks |-> cs, queries |-> qs]
Chapter(ps, cs, qs) == Group("chapter", {}, FALSE, ps, cs, qs)
Policy(cf, gs, rs)  == [computedFilters |-> cf, groups |-> gs, risks |-> rs]
Query(c, f, vs, i)  == [code |-> c, filters |-> f, variants |-> vs, impact |-> i]

Risk == [mrn |-> "r", action |-> "unspecified", filters |-> {}, checks |-> <<Own("k")>>,
         queries |-> <<Own("kd")>>]

Control(m, cs, qs, ps, ks) ==
  [mrn |-> m, owner |-> "F", checks |-> cs, queries |-> qs, policies |-> ps, controls |-> ks]

\* what varies between the bundles, at most two things at a time
Usual == [ref |-> "unspecified", type |-> "chapter", override |-> "unspecified", filters |-> {},
          shared |-> FALSE, other |-> "none"]
Variations ==
  {x \in [ref      : {"unspecified", "deactivate", "ignore"},
          type     : {"chapter", "disable", "ignored"},
          override : {"unspecified", "ignore"},
          filters  : {{}, {"f1"}},
          shared   : BOOLEAN,
          other    : {"none", "expired", "nocontrol"}] :
     Cardinality({k \in DOMAIN x : x[k] # Usual[k]}) <= 2}

Resolvable(x) ==
  [policies |->
     [A  |-> Policy({"f1", "f2"}, <<Chapter(<<Own("S")>>, <<>>, <<>>)>>, <<>>),
      S  |-> Policy({"f1", "f2"},
                    <<Chapter(<<Own("P1"), Ref("P2", x.ref, None)>>, <<>>, <<>>),
                      Group(x.type, x.filters, x.other = "expired", <<>>,
                            <<Ref("c1", x.override, None)>> \o
                              (IF x.shared THEN <<>> ELSE <<Ref("c2", x.override, None)>>), <<>>)>>, <<>>),
      P1 |-> Policy({"f1", "f2"},
                    <<Group("chapter", x.filters, FALSE, <<>>, <<Own("c1"), Own("c2")>>, <<>>)>>,
                    <<Risk>>),
      P2 |-> Policy({"f2"}, <<Chapter(<<>>, <<Own("c2")>>, <<Own("d")>>)>>, <<>>)],
   queries |->
     [c1 |-> Query(None, {}, <<"v1", "v2">>, [value |-> 70, scoring |-> "unspecified"]),
      v1 |-> Query("q1", {"f1"}, <<>>, None),
      v2 |-> Query("q2", {"f2"}, <<>>, None),
      c2 |-> Query(IF x.shared THEN "q1" ELSE "q3", {"f1"}, <<>>, None),
      d  |-> Query("q4", {}, <<>>, None),
      k  |-> Query("q5", {"f1"}, <<>>, None),
      kd |-> Query("q4", {}, <<>>, None)],
   datapoints |-> [q1 |-> {"x", "y"}, q2 |-> {"y"}, q3 |-> {"z"}, q4 |-> {"w"}, q5 |-> {"u"}],
   frameworks |->
     [A |-> [deps |-> <<"F">>, groups |-> <<>>, controls |-> <<>>],
      F |-> [deps |-> <<>>,
             groups |-> <<[type |-> "chapter", filters |-> {}, expired |-> FALSE,
                           controls |-> <<Ref("ctl", IF x.other = "nocontrol" THEN "deactivate" ELSE "unspecified", None)>>]>>,
             controls |-> <<Control("ctl", <<"c1", "c2">>, <<"d">>, <<"P1">>, <<"ctl2">>),
                            Control("ctl2", <<"k">>, <<>>, <<>>, <<>>)>>]]]

-----------------------------------------------------------------------------

VARIABLES
  part,
  bundle, assetFilters, phase, overrides, graph, visited, jobs, datapoints,
  now, data, totalSize, holder, call

Uploads  == INSTANCE PolicyLake WITH Bundles <- MCUploads, Policies <- {base, app}
Resolver == INSTANCE ResolvedPolicyBuilder
              WITH Bundles <- {Resolvable(x) : x \in Variations},
                   FilterSets <- {{"f1"}, {"f2"}, {"f1", "f2"}},
                   Root <- "A", Spaces <- {"S"}, Disabled <- "off"
Cache    == INSTANCE ResolvedPolicyCache

ASSUME UploadsAssumption == Uploads!LakeAssumption /\ Uploads!UploadsWhole /\ UploadsWhole
ASSUME CacheAssumption   == Cache!CacheAssumption

resolverVars == <<bundle, assetFilters, phase, overrides, graph, visited, jobs, datapoints>>
cacheVars    == <<now, data, totalSize, holder, call>>

\* outside of its part the builder has nothing to build
NoBundle == bundle = <<>> /\ assetFilters = {} /\ phase = "gather" /\ overrides = <<>> /\ graph = <<>>
              /\ visited = {} /\ jobs = <<>> /\ datapoints = <<>>

PoliciesInit ==
  /\ part \in {"diamond", "uploads", "resolver", "cache"}
  /\ Init
  /\ IF part = "resolver" THEN Resolver!Init ELSE NoBundle
  /\ Cache!Init

PoliciesNext ==
  \/ part = "diamond" /\ Next /\ UNCHANGED <<part, resolverVars, cacheVars>>
  \/ part = "uploads" /\ Uploads!Next /\ UNCHANGED <<part, resolverVars, cacheVars>>
  \/ part = "resolver" /\ Resolver!Next /\ UNCHANGED <<part, vars, cacheVars>>
  \/ part = "cache" /\ Cache!Next /\ UNCHANGED <<part, vars, resolverVars>>

PoliciesSpec == PoliciesInit /\ [][PoliciesNext]_<<part, vars, resolverVars, cacheVars>>

-----------------------------------------------------------------------------
(* What the modules state of their parts; outside of it nothing moves *)

\* A check is scored where it is declared and only there (buildResolvedPolicy).
ScoredWhereDeclared == Resolver!ScoredWhereDeclared

\* Every job of a resolved policy rests on a query that runs, what is disabled
\* does not run, what is snoozed does not count, and no risk job has a child
\* that the collector does not know (buildResolvedPolicy).
ResolvedRuns ==
  /\ Resolver!EveryJobRuns
  /\ Resolver!DisabledNeverRuns
  /\ Resolver!SnoozedNeverCounts
  /\ Resolver!RiskMrnsComplete

\* The total of the cache is the sum of its entries, what is served has not
\* expired, an entry is refused only when it can never fit, and each round of
\* freeSpace frees something (ResolvedPolicyCache.Set and Get).
CacheInOrder ==
  /\ Cache!TypeOK
  /\ Cache!TotalSizeExact
  /\ Cache!NeverExpired
  /\ Cache!FailsOnlyWhenTooLarge
  /\ Cache!FreeSpaceMoves
=============================================================================
