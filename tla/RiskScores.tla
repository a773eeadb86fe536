----------------------------- MODULE RiskScores -----------------------------
(***************************************************************************)
(* How the detected risk factors of an asset change the risk score of one  *)
(* check (updateRiskScores in policy/executor/internal/collector.go over   *)
(* AdjustRiskScore, mergeSorted and cmpRiskFactors in                      *)
(* policy/risk_factor.go).                                                 *)
(*                                                                         *)
(* The risk factors are a constant table; which of them were scored and    *)
(* detected, the resources the query of the check uses and the value of    *)
(* the check are chosen at the start.  Magnitudes are numbers of eighths,  *)
(* on which the float32 arithmetic of the code is exact, and the MRNs are  *)
(* numbers so that they have an order.                                     *)
(***************************************************************************)
EXTENDS Integers, Sequences, FiniteSets, SequencesExt

CONSTANTS
  RiskFactors,   \* [mrn, magnitude, toxic, scope, resources]
  Resources,     \* the names of resources
  Values         \* the values of the check

RiskAssumption ==
  /\ \A r \in RiskFactors :
       /\ r.mrn \in Nat
       /\ r.magnitude \in -8 .. 8
       /\ r.toxic \in BOOLEAN
       /\ r.scope \in {"asset", "resource", "software"}
       /\ r.resources \subseteq Resources
  /\ \A r, s \in RiskFactors : r.mrn = s.mrn => r = s
  /\ Values \subseteq 0 .. 100

VARIABLES
  scored,      \* the risk factors that were scored
  detected,    \* those of them that were detected
  used,        \* the resources the query of the check uses
  pending,     \* the names of resourceRisks that were not yet visited
  assetRisks,  \* the risk factors of the asset that were not yet merged
  risks,       \* csumsIdx of the check, likewise
  score,       \* [value, riskScore, factors]
  pc

vars == <<scored, detected, used, pending, assetRisks, risks, score, pc>>
inputs == <<scored, detected, used>>

\* cmpRiskFactors: relative before toxic ones, by magnitude, by MRN
Less(r, s) ==
  IF r.toxic # s.toxic THEN s.toxic
  ELSE IF r.magnitude # s.magnitude THEN r.magnitude < s.magnitude
  ELSE r.mrn < s.mrn

\* SortScoredRiskInfo: a sorted list starts with the least of its risk factors,
\* which is all that is read of the order.  A list is the set of its elements,
\* and its start a set of at most one.
First(list) == {r \in list : \A s \in list \ {r} : Less(r, s)}

AssetScope    == {r \in scored : r.scope = "asset"}
ResourceScope == {r \in scored : r.scope = "resource"}

Init ==
  /\ scored \in SUBSET RiskFactors
  /\ detected \in SUBSET scored
  /\ used \in SUBSET Resources
  /\ \E v \in Values : score = [value |-> v, riskScore |-> 0, factors |-> <<>>]
  /\ pending = UNION {r.resources : r \in ResourceScope}
  /\ assetRisks = AssetScope
  /\ risks = {}
  /\ pc = "index"

\* one entry of resourceRisks, a map: a name the query uses sets the list
Index(name) ==
  /\ pc = "index"
  /\ name \in pending
  /\ pending' = pending \ {name}
  /\ risks' = IF name \in used THEN {r \in ResourceScope : name \in r.resources} ELSE risks
  /\ UNCHANGED <<inputs, assetRisks, score, pc>>

\* AdjustRiskScore starts with the value of the check, and ends there for a
\* check that passes
StartAdjust ==
  /\ pc = "index"
  /\ pending = {}
  /\ score' = [score EXCEPT !.riskScore = score.value]
  /\ pc' = IF score.value = 100 THEN "done" ELSE "merge"
  /\ UNCHANGED <<inputs, pending, assetRisks, risks>>

\* Faulty variant: the score is scaled, not its distance from 100
RelativeToZero(s, eighths) == (s * eighths) \div 8

\* uint32 of a float: towards zero
Relative(s, eighths) == (800 - (100 - s) * eighths) \div 8

\* Faulty variant: only the lower end is checked
ClampBelow(n) == IF n < 0 THEN 0 ELSE n

\* the points of a magnitude: int of a float, towards zero
Points(eighths) == IF eighths < 0 THEN -((-eighths * 100) \div 8) ELSE (eighths * 100) \div 8

\* a toxic risk factor keeps the score in its range
Clamp(n) == IF n < 0 THEN 0 ELSE IF n > 100 THEN 100 ELSE n

Flagged(r, found) == [mrn |-> r.mrn, detected |-> found]

\* RiskFactor.AdjustRiskScore
AdjustedBy(s, r) ==
  LET found   == r \in detected
      flag(n) == [value |-> s.value, riskScore |-> n, factors |-> Append(s.factors, Flagged(r, found))]
  IN  IF r.toxic
        THEN IF found THEN flag(Clamp(s.riskScore - Points(r.magnitude))) ELSE s
      ELSE IF r.magnitude < 0
        THEN IF found THEN flag(Relative(s.riskScore, 8 + r.magnitude)) ELSE s
      ELSE IF found THEN flag(s.riskScore)
        ELSE flag(Relative(s.riskScore, 8 - r.magnitude))

\* Faulty variant: the second list is walked after the first
FirstListFirst == assetRisks # {}

\* minF: the start of the first list, unless the one of the second is smaller
FirstList == \E r \in First(assetRisks) : \A s \in First(risks) : ~Less(s, r)

\* mergeSorted yields from the first list
YieldAsset ==
  /\ pc = "merge"
  /\ FirstList
  /\ \E r \in First(assetRisks) :
       /\ score' = AdjustedBy(score, r)
       /\ assetRisks' = assetRisks \ {r}
  /\ UNCHANGED <<inputs, pending, risks, pc>>

\* mergeSorted yields from the second list
YieldResource ==
  /\ pc = "merge"
  /\ ~FirstList
  /\ \E r \in First(risks) :
       /\ score' = AdjustedBy(score, r)
       /\ risks' = risks \ {r}
  /\ UNCHANGED <<inputs, pending, assetRisks, pc>>

\* both lists are used up
MergeEnds ==
  /\ pc = "merge"
  /\ assetRisks = {}
  /\ risks = {}
  /\ pc' = "done"
  /\ UNCHANGED <<inputs, pending, assetRisks, risks, score>>

Next ==
  \/ \E name \in Resources : Index(name)
  \/ StartAdjust
  \/ YieldAsset
  \/ YieldResource
  \/ MergeEnds

Spec == Init /\ [][Next]_vars

-----------------------------------------------------------------------------
(* Properties *)

\* the risk factors that apply to the check
Applicable == AssetScope \cup {r \in ResourceScope : r.resources \cap used # {}}

Sorted(S) == SetToSortSeq(S, Less)

\* The risk score is the one that the applicable risk factors give when they
\* are applied one after the other in the order of the whole table, however
\* they are spread over the two lists that mergeSorted walks.
AppliedInTableOrder ==
  pc = "done" /\ score.value < 100 =>
    LET all == FoldLeft(AdjustedBy, [score EXCEPT !.riskScore = score.value, !.factors = <<>>],
                        Sorted(Applicable))
    IN  score = all

\* Risk scores stay between 0 and 100 and a check that passes keeps its 100.
RiskScoreInRange ==
  pc # "index" =>
    /\ score.riskScore \in 0 .. 100
    /\ score.value = 100 => score.riskScore = 100 /\ score.factors = <<>>

\* Detecting mitigations and not detecting aggravations never makes a check
\* look riskier than its value; only a toxic risk factor can.
OnlyToxicLowers ==
  pc # "index" /\ score.riskScore < score.value =>
    \E r \in detected : r.toxic /\ \E i \in DOMAIN score.factors : score.factors[i].mrn = r.mrn
=============================================================================
