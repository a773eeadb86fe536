--------------------------- MODULE ScoreCalculator ---------------------------
(***************************************************************************)
(* The score calculators of policy/score_calculator.go: how the scores of  *)
(* the children of a policy, framework or control are combined into one.   *)
(*                                                                         *)
(* The average, weighted, worst and banded calculators are modelled with   *)
(* exact arithmetic.  The decayed calculator needs the exponential         *)
(* function and is left out.  The counters are uint32 in the code; the sum *)
(* of 100 * DataTotal stays far below 2^32 for any graph that fits in      *)
(* memory, so their width is not modelled here.                            *)
(***************************************************************************)
EXTENDS Integers

ScoreTypes == {"none", "unknown", "result", "error", "skip", "unscored",
               "outofscope", "disabled"}

(* A policy.Score: sc, dc, dt are ScoreCompletion, DataCompletion, DataTotal *)
MkScore(type, value, sc, dc, dt, weight) ==
    [type |-> type, value |-> value, sc |-> sc, dc |-> dc, dt |-> dt,
     weight |-> weight]

(* The nil score. *)
NoScore == MkScore("none", 0, 0, 0, 0, 0)

(* Score.Completion *)
Completion(s) == (s.dc + s.sc) \div 2

(***************************************************************************)
(* A policy.Impact.  value is NoValue when impact.Value is nil.            *)
(***************************************************************************)
NoValue == -1

MkImpact(value, weight, scoring, action) ==
    [present |-> TRUE, value |-> value, weight |-> weight,
     scoring |-> scoring, action |-> action]

NoImpact == [present |-> FALSE, value |-> NoValue, weight |-> 0,
             scoring |-> "SCORING_UNSPECIFIED", action |-> "UNSPECIFIED"]

(* Impact values are validated to lie between 0 and 100 when parsed. *)
ImpactFloor(impact, value) ==
    LET floor == 100 - impact.value
    IN  IF impact.value # NoValue /\ floor > value THEN floor ELSE value

Averages == {"AVERAGE", "SCORING_UNSPECIFIED", "DATA_ONLY"}

(* The systems NewScoreCalculator knows (DECAYED too, which is not modelled) *)
Systems == Averages \union {"WEIGHTED", "WORST", "BANDED"}

Bands == {"crit", "high", "mid", "low"}

(* The fields of the four calculators after Init. *)
CalcInit(system) ==
    [value           |-> IF system \in {"WORST", "BANDED"} THEN 100 ELSE 0,
     weight          |-> 0,
     scoreTotal      |-> 0,
     scoreCompletion |-> 0,
     scoreCnt        |-> 0,
     dataTotal       |-> 0,
     dataCompletion  |-> 0,
     hasResults      |-> FALSE,
     hasErrors       |-> FALSE,
     failed          |-> [b \in Bands |-> 0],
     bandMax         |-> [b \in Bands |-> 0]]

AddData(c, s) ==
    [c EXCEPT !.dataCompletion = @ + s.dc * s.dt, !.dataTotal = @ + s.dt]

(* Counted as scored, without a value: errors (by default) and unknown types *)
AddCompletion(c, s) ==
    [AddData(c, s) EXCEPT !.scoreCompletion = @ + s.sc, !.scoreTotal = @ + 1]

(* What every calculator does with a result before it looks at its value. *)
AddResult(c, s) ==
    [AddCompletion(c, s) EXCEPT !.weight = @ + s.weight, !.hasResults = TRUE]

(* The band an impact puts a result in; no impact means critical. *)
BandOf(impact) ==
    LET category == IF impact.value = NoValue THEN 0 ELSE 100 - impact.value
    IN  CASE category <= 10 -> "crit"
          [] category > 10 /\ category <= 30 -> "high"
          [] category > 30 /\ category <= 60 -> "mid"
          [] OTHER -> "low"

LowerValue(c, s) ==
    IF s.sc # 0 /\ s.weight # 0 /\ s.value < c.value
    THEN [c EXCEPT !.value = s.value] ELSE c

AddBand(c, s, impact) ==
    LET b == BandOf(impact)
    IN  IF s.sc = 0 \/ s.weight = 0 THEN c
        ELSE [c EXCEPT !.bandMax[b] = @ + s.weight,
                       !.failed[b] = @ + (IF s.value < 100 THEN s.weight ELSE 0)]

(* How a result's value enters the calculator of a system. *)
AddValue(system, c, s, impact) ==
    CASE system \in Averages ->
           IF s.sc = 0 THEN c
           ELSE [c EXCEPT !.scoreCnt = @ + 1, !.value = @ + s.value]
      [] system = "WEIGHTED" ->
           IF s.sc = 0 THEN c
           ELSE [c EXCEPT !.scoreCnt = @ + s.weight,
                          !.value = @ + s.value * s.weight]
      [] system = "WORST" -> LowerValue(c, s)
      [] system = "BANDED" -> AddBand(c, s, impact)

(***************************************************************************)
(* With the fail-errors feature flag an error is added like a result; the  *)
(* banded calculator then lowers its value field instead of counting the   *)
(* error in a band.                                                        *)
(***************************************************************************)
AddErrorValue(system, c, s, impact) ==
    IF system = "BANDED" THEN LowerValue(c, s)
                         ELSE AddValue(system, c, s, impact)

(* ScoreCalculator.Add *)
Add(system, failErrors, c, s, impact) ==
    CASE s.type \in {"skip", "disabled", "outofscope"} -> c
      [] s.type = "unscored" -> AddData(c, s)
      [] s.type = "result" ->
           IF impact.present /\ impact.action \in {"IGNORE", "DEACTIVATE"} THEN c
           ELSE AddValue(system, AddResult(c, s), s, impact)
      [] s.type = "error" ->
           LET e == [c EXCEPT !.hasErrors = TRUE]
           IN  IF failErrors
               THEN AddErrorValue(system, AddResult(e, s), s, impact)
               ELSE AddCompletion(e, s)
      [] OTHER -> AddCompletion(c, s)

(* AddSpecdScore, for a child that has reported (found is always true). *)
AddSpecdScore(system, failErrors, c, s, impact) ==
    LET v == ImpactFloor(impact, s.value)
        w == IF impact.weight > 0 THEN impact.weight
             ELSE IF s.weight = 0 THEN 1 ELSE s.weight
    IN  CASE ~impact.present -> Add(system, failErrors, c, s, NoImpact)
          [] impact.present /\ impact.scoring = "IGNORE_SCORE" ->
               Add(system, failErrors, c,
                   MkScore("skip", v, s.sc, s.dc, s.dt, 0), NoImpact)
          [] OTHER -> Add(system, failErrors, c,
                          [s EXCEPT !.value = v, !.weight = w], impact)

(* AddDataScore *)
AddDataScore(system, c, totalDeps, finishedDeps) ==
    IF totalDeps = 0 THEN c
    ELSE Add(system, FALSE, c,
             MkScore("unscored", 0, 0, (100 * finishedDeps) \div totalDeps,
                     totalDeps, 0),
             NoImpact)

(***************************************************************************)
(* Fractions n/d for the banded value, which the code computes in float64. *)
(***************************************************************************)
Passed(c, b) ==
    IF c.bandMax[b] = 0 THEN <<1, 1>>
    ELSE <<c.bandMax[b] - c.failed[b], c.bandMax[b]>>

Times(p, q) == <<p[1] * q[1], p[2] * q[2]>>

(* (a + m * p) / k as a fraction *)
Blend(a, m, p, k) == <<a * p[2] + m * p[1], k * p[2]>>

FloorOf(n, p) == (n * p[1]) \div p[2]

BandedValue(c) ==
    LET pcrLow  == Passed(c, "low")
        pcrMid  == Times(Blend(3, 1, pcrLow, 4), Passed(c, "mid"))
        pcrHigh == Times(Blend(1, 1, pcrMid, 2), Passed(c, "high"))
        pcrCrit == Times(Blend(1, 4, pcrHigh, 5), Passed(c, "crit"))
    IN  CASE c.failed["crit"] # 0 -> FloorOf(50, pcrCrit)
          [] c.failed["crit"] = 0 /\ c.failed["high"] # 0 -> FloorOf(50, pcrHigh) + 10
          [] c.failed["crit"] = 0 /\ c.failed["high"] = 0 /\ c.failed["mid"] # 0 ->
               FloorOf(50, pcrMid) + 30
          [] c.failed["crit"] = 0 /\ c.failed["high"] = 0 /\ c.failed["mid"] = 0
             /\ c.failed["low"] # 0 -> FloorOf(40, pcrLow) + 60
          [] OTHER -> 100

CalcValue(system, c) ==
    CASE system = "WORST" -> c.value
      [] system = "BANDED" -> BandedValue(c)
      [] OTHER -> IF c.scoreCnt = 0 THEN 0 ELSE c.value \div c.scoreCnt

(* ScoreCalculator.Calculate *)
Calculate(system, c) ==
    LET dc   == IF c.dataTotal = 0 THEN 100
                ELSE c.dataCompletion \div c.dataTotal
        none == MkScore("unscored", 0, 100, dc, c.dataTotal, 0)
    IN  CASE system \in {"WORST", "BANDED"} /\ c.scoreTotal = 0 -> none
          [] c.hasResults ->
               MkScore("result", CalcValue(system, c),
                       c.scoreCompletion \div c.scoreTotal, dc,
                       c.dataTotal, c.weight)
          [] ~c.hasResults /\ c.hasErrors -> [none EXCEPT !.type = "error"]
          [] OTHER -> none
=============================================================================
