--------------------------- MODULE MCGraphExecutor ---------------------------
(* Small graphs for GraphExecutor. *)
EXTENDS GraphExecutor

Check(impact) == [eA |-> MkImpact(impact, 0, "SCORING_UNSPECIFIED", "UNSPECIFIED")]
NoJobs == <<>>

(***************************************************************************)
(* Shared statement: query "P" computes the property "p" that "A" needs;   *)
(* "A" and "B" share the statement "x", "P" and "B" the statement "p".  The *)
(* job "eA" of query "A" feeds the check "cA".                             *)
(***************************************************************************)
SharedQueries == {"P", "A", "B"}
SharedEntrypoints == [P |-> {"p"}, A |-> {"x"}, B |-> {"x"}]
SharedData == [P |-> {}, A |-> {}, B |-> {"p"}]
SharedProps == [P |-> {}, A |-> {"p"}, B |-> {}]
SharedJobs == {"eA", "cA"}
SharedJobType == [eA |-> "EXECUTION_QUERY", cA |-> "CHECK"]
SharedJobSystem == [j \in SharedJobs |-> "SCORING_UNSPECIFIED"]
SharedJobQuery == [eA |-> {"A"}, cA |-> {}]
SharedJobData == [eA |-> {"x"}, cA |-> {}]
SharedChildJobs == [eA |-> {}, cA |-> {"eA"}]
SharedJobImpact == [eA |-> <<>>, cA |-> Check(70)]
SharedOutcomes == [P |-> {"err", "info"}, A |-> {"pass"}, B |-> {"nil", "pass"}]

(***************************************************************************)
(* Filter queries: no jobs and no properties, the scores of the queries    *)
(* are collected.  "F" has the statements "a" and "b"; "G" shares "b" and  *)
(* may short-circuit it.                                                   *)
(***************************************************************************)
FilterQueries == {"F", "G"}
FilterEntrypoints == [F |-> {"a", "b"}, G |-> {"b"}]
FilterData == [F |-> {}, G |-> {"a"}]
FilterProps == [q \in FilterQueries |-> {}]
FilterOutcomes == [F |-> {"pass", "fail"}, G |-> {"nil", "pass"}]

(***************************************************************************)
(* A query that cannot run on this version ("P") computes a property of    *)
(* "A", so "A" can only broadcast; "B" shares "x" and may fail.  The score *)
(* of "A" goes into a policy.                                              *)
(***************************************************************************)
OldQueries == {"P", "A", "B"}
OldEntrypoints == [P |-> {"p"}, A |-> {"x"}, B |-> {"x"}]
OldProps == [P |-> {}, A |-> {"p"}, B |-> {}]
OldData == [q \in OldQueries |-> {}]
OldJobs == {"eA", "pol"}
OldJobType == [eA |-> "EXECUTION_QUERY", pol |-> "POLICY"]
OldJobSystem == [eA |-> "SCORING_UNSPECIFIED", pol |-> "WORST"]
OldJobQuery == [eA |-> {"A"}, pol |-> {}]
OldJobData == [eA |-> {"x"}, pol |-> {}]
OldChildJobs == [eA |-> {}, pol |-> {"eA"}]
OldJobImpact == [eA |-> <<>>, pol |-> Check(100)]
OldOutcomes == [P |-> {}, A |-> {}, B |-> {"nil", "gone"}]

(***************************************************************************)
(* Rescoring: checks with supplied scores, a policy, a control and a root. *)
(***************************************************************************)
TreeChecks == {"c1", "c2", "c3", "c4", "c5", "c6", "c7"}
TreeJobs == TreeChecks \union {"p1", "p2", "root"}
TreeChildJobs ==
    [j \in TreeJobs |-> CASE j = "p1" -> {"c1", "c2", "c5", "c6"}
                          [] j = "p2" -> {"c2", "c3", "c4", "c7"}
                          [] j = "root" -> {"p1", "p2"}
                          [] OTHER -> {}]
TreeJobType == [j \in TreeJobs |-> IF j \in {"p1", "root"} THEN "POLICY"
                                   ELSE IF j = "p2" THEN "CONTROL" ELSE "CHECK"]
TreeJobSystem == [j \in TreeJobs |-> CASE j = "p1" -> "WEIGHTED"
                                       [] j = "p2" -> "BANDED"
                                       [] OTHER -> "SCORING_UNSPECIFIED"]
TreeJobQuery == [j \in TreeJobs |-> {}]
TreeJobImpact ==
    [j \in TreeJobs |->
        [c \in TreeChildJobs[j] |->
            IF c = "c2" THEN MkImpact(60, 3, "SCORING_UNSPECIFIED", "UNSPECIFIED")
                        ELSE NoImpact]]
TreeScores ==
    [c \in TreeChecks |->
        CASE c = "c2" -> MkScore("result", 0, 100, 100, 2, 1)
          [] c = "c3" -> MkScore("error", 0, 100, 100, 1, 1)
          [] c = "c5" -> MkScore("result", 100, 50, 0, 1, 1)
          [] c = "c4" -> MkScore("skip", 0, 100, 0, 0, 1)
          [] OTHER -> MkScore("result", 100, 100, 100, 1, 1)]

(* Every graph above is one the theorems of GraphExecutorProofs speak of. *)
ASSUME GraphsAreAcyclic ==
    /\ Acyclic /\ SomeQueryReports /\ EveryQueryHasEntrypoints
    /\ CollectedDatapoints \subseteq GraphDatapoints
    /\ JobsCanFinish /\ SuppliedScoresTyped /\ (Rescore => RescoredTree)
=============================================================================
