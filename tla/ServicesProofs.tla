--------------------------- MODULE ServicesProofs ---------------------------
(***************************************************************************)
(* Proofs about the parts around a scan: the resource usage that is        *)
(* recorded (ResourceTracker), the cache of resolved policies              *)
(* (ResolvedPolicyCache), the risk scores (RiskScores), the daemon that    *)
(* starts scans (ServeDaemon) and the list on the terminal (TodoList).     *)
(* They share no state, so each theorem is about the specification of one  *)
(* of them; ResourceTracker is the module extended, the others are         *)
(* instances over the variables below.                                     *)
(***************************************************************************)
EXTENDS ResourceTracker, Sequences, FiniteSetTheorems, WellFoundedInduction, TLAPS

CONSTANTS
  Callers, Keys, Sizes, SizeLimit, TTL, MaxTime,   \* ResolvedPolicyCache
  RiskFactors, Resources, Values,                  \* RiskScores
  MinVisibleSlots                                  \* TodoList

VARIABLES
  now, data, totalSize, holder, call,
  scored, detected, used, pending, assetRisks, risks, score,
  system, timer, request, shutdown, worker, main, startup, ticked, pinger, quit, late,
  scan, sending, tasks, state, peakInProgress, drawn

Cache  == INSTANCE ResolvedPolicyCache
Adjust == INSTANCE RiskScores
Daemon == INSTANCE ServeDaemon
List   == INSTANCE TodoList

-----------------------------------------------------------------------------
(* The resource usage of a scan run *)

\* the fields of the tracker
Fields == [peak : 0 .. MaxBytes, last : 0 .. MaxBytes, hasSample : BOOLEAN,
           baseline : 0 .. MaxCPU, lastCPU : 0 .. MaxCPU, hasCPU : BOOLEAN]

\* a sample
Taken == [taken : {TRUE}, bytes : 0 .. MaxBytes, cpu : 0 .. MaxCPU, valid : BOOLEAN]

\* The counters of the tracker are between the first reading that was applied,
\* which is the baseline, and the largest one.
Readings ==
  /\ tracker.hasCPU <=> first # -1
  /\ tracker.hasCPU => first = tracker.baseline
  /\ ~tracker.hasCPU => tracker.baseline = 0 /\ tracker.lastCPU = 0
  /\ tracker.lastCPU <= newest /\ tracker.baseline <= newest

\* Who waits for the lock has a sample, and what was applied counts in the peak.
Applied ==
  /\ \A o \in Observers : pc[o] = "lock" => sample[o] \in Taken
  /\ \A a \in Assets :
       /\ pc[a] \in {"read", "done"} => sample[a] \in Taken /\ sample[a].bytes <= tracker.peak
       /\ recorded[a].written => pc[a] = "done"
       /\ pc[a] \in {"scan", "lock", "read", "done"}

\* What was written was right when it was written, and stays so.
Recorded ==
  \A a \in Assets : recorded[a].written =>
    /\ recorded[a].peak >= sample[a].bytes
    /\ recorded[a].hasCPU => first # -1 /\ recorded[a].busy + first <= newest

IInv == TypeOK /\ PeakIsLargest /\ Readings /\ Applied /\ Recorded /\ NoSamplerAfterStop

-----------------------------------------------------------------------------
(* One observation *)

\* Observe keeps the types of the tracker and takes the sample into account.
LEMMA FoldType ==
  ASSUME TrackerAssumption, NEW t \in Fields, NEW s \in Taken
  PROVE  /\ Fold(t, s) \in Fields
         /\ Fold(t, s).peak = (IF s.bytes > t.peak THEN s.bytes ELSE t.peak)
         /\ Fold(t, s).hasSample <=> (t.hasSample \/ s.bytes > 0)
         /\ Fold(t, s).baseline = (IF s.valid /\ ~t.hasCPU THEN s.cpu ELSE t.baseline)
         /\ Fold(t, s).lastCPU = (IF s.valid THEN s.cpu ELSE t.lastCPU)
         /\ Fold(t, s).hasCPU <=> (t.hasCPU \/ s.valid)
  BY DEF Fold, Fields, Taken, TrackerAssumption

\* The process as it is sampled.
LEMMA SampleType ==
  ASSUME TypeOK, NEW valid \in BOOLEAN
  PROVE  Sample(valid) \in Taken /\ Sample(valid).bytes = bytes /\ Sample(valid).cpu = cpu
  BY DEF Sample, Taken, TypeOK

\* An observation keeps what the invariant says of the tracker and its history.
LEMMA ObservedStep ==
  ASSUME TrackerAssumption, IInv, NEW s \in Taken, Observed(s)
  PROVE  /\ tracker' \in Fields
         /\ first' \in -1 .. MaxCPU /\ newest' \in 0 .. MaxCPU /\ largest' \in 0 .. MaxBytes
         /\ PeakIsLargest' /\ Readings'
         /\ tracker'.peak >= tracker.peak /\ tracker'.peak >= s.bytes
         /\ newest' >= newest /\ (first # -1 => first' = first)
<1>1. /\ tracker \in Fields /\ tracker.peak \in 0 .. MaxBytes /\ tracker.hasSample \in BOOLEAN
      /\ tracker.baseline \in 0 .. MaxCPU /\ tracker.lastCPU \in 0 .. MaxCPU /\ tracker.hasCPU \in BOOLEAN
  BY DEF IInv, TypeOK, Fields
<1>2. first \in -1 .. MaxCPU /\ newest \in 0 .. MaxCPU /\ largest \in 0 .. MaxBytes
  BY DEF IInv, TypeOK
<1>3. s.bytes \in 0 .. MaxBytes /\ s.cpu \in 0 .. MaxCPU /\ s.valid \in BOOLEAN
  BY DEF Taken
<1>4. MaxCPU \in Nat /\ MaxBytes \in Nat
  BY DEF TrackerAssumption
<1>5. /\ tracker' = Fold(tracker, s)
      /\ first' = IF s.valid /\ first = -1 THEN s.cpu ELSE first
      /\ newest' = IF s.valid /\ s.cpu > newest THEN s.cpu ELSE newest
      /\ largest' = IF s.bytes > largest THEN s.bytes ELSE largest
  BY DEF Observed
<1>6. /\ tracker' \in Fields
      /\ tracker'.peak = (IF s.bytes > tracker.peak THEN s.bytes ELSE tracker.peak)
      /\ tracker'.hasSample <=> (tracker.hasSample \/ s.bytes > 0)
      /\ tracker'.baseline = (IF s.valid /\ ~tracker.hasCPU THEN s.cpu ELSE tracker.baseline)
      /\ tracker'.lastCPU = (IF s.valid THEN s.cpu ELSE tracker.lastCPU)
      /\ tracker'.hasCPU <=> (tracker.hasCPU \/ s.valid)
  BY <1>1, <1>5, FoldType
<1>7. PeakIsLargest'
  <2>1. tracker.peak = largest /\ (tracker.hasSample <=> largest > 0)
    BY DEF IInv, PeakIsLargest
  <2>2. tracker'.peak = largest'
    BY <1>5, <1>6, <2>1
  <2>3. tracker'.hasSample <=> largest' > 0
    BY <1>1, <1>2, <1>3, <1>5, <1>6, <2>1
  <2>. QED
    BY <2>2, <2>3 DEF PeakIsLargest
<1>8. /\ first' \in -1 .. MaxCPU /\ newest' \in 0 .. MaxCPU /\ largest' \in 0 .. MaxBytes
      /\ newest' >= newest /\ (first # -1 => first' = first)
  BY <1>2, <1>3, <1>4, <1>5
<1>9. Readings'
  <2>1. Readings
    BY DEF IInv
  <2>2. CASE ~s.valid
    <3>1. /\ first' = first /\ newest' = newest /\ tracker'.baseline = tracker.baseline
          /\ tracker'.lastCPU = tracker.lastCPU /\ (tracker'.hasCPU <=> tracker.hasCPU)
      BY <1>1, <1>3, <1>5, <1>6, <2>2
    <3>. QED
      BY <2>1, <3>1 DEF Readings
  <2>3. CASE s.valid
    <3>1. tracker'.hasCPU /\ tracker'.lastCPU = s.cpu
      BY <1>6, <2>3
    <3>4. first' # -1 /\ newest' >= s.cpu
      BY <1>2, <1>3, <1>5, <2>3
    <3>2. CASE tracker.hasCPU
      <4>1. tracker'.baseline = tracker.baseline /\ first # -1 /\ first' = first
        BY <1>5, <1>6, <2>1, <3>2 DEF Readings
      <4>2. tracker'.baseline <= newest'
        BY <1>1, <1>2, <1>8, <2>1, <4>1 DEF Readings
      <4>. QED
        BY <2>1, <3>1, <3>2, <3>4, <4>1, <4>2 DEF Readings
    <3>3. CASE ~tracker.hasCPU
      <4>1. tracker'.baseline = s.cpu /\ first' = s.cpu
        BY <1>5, <1>6, <2>1, <2>3, <3>3 DEF Readings
      <4>. QED
        BY <3>1, <3>4, <4>1 DEF Readings
    <3>. QED
      BY <3>2, <3>3
  <2>. QED
    BY <2>2, <2>3
<1>10. tracker'.peak >= tracker.peak /\ tracker'.peak >= s.bytes
  BY <1>1, <1>3, <1>4, <1>6
<1>. QED
  BY <1>6, <1>7, <1>8, <1>9, <1>10

\* The invariant but for what an observation changes of the tracker.
LEMMA Rest ==
  ASSUME TrackerAssumption, IInv
  PROVE  /\ MaxCPU \in Nat /\ MaxBytes \in Nat /\ "sampler" \notin Assets
         /\ "sampler" \in Observers /\ Assets \subseteq Observers
         /\ pc \in [Observers -> {"start", "idle", "ended", "scan", "lock", "read", "done"}]
         /\ sample \in [Observers -> Samples] /\ recorded \in [Assets -> Records]
         /\ stop \in BOOLEAN /\ stopped \in BOOLEAN
         /\ tracker.peak \in 0 .. MaxBytes /\ newest \in 0 .. MaxCPU
  BY DEF TrackerAssumption, Observers, IInv, TypeOK

-----------------------------------------------------------------------------
(* The steps *)

\* Every step keeps the types.
LEMMA TypeStep == TrackerAssumption /\ IInv /\ [Next]_vars => TypeOK'
<1>. SUFFICES ASSUME TrackerAssumption, IInv, [Next]_vars PROVE TypeOK'
  OBVIOUS
<1>1. TypeOK /\ Applied
  BY DEF IInv
<1>. USE <1>1, Rest
<1>2. Taken \subseteq Samples
  BY DEF Taken, Samples
<1>3. ASSUME NEW s \in Taken, Observed(s)
      PROVE  /\ tracker' \in Fields
             /\ first' \in -1 .. MaxCPU /\ newest' \in 0 .. MaxCPU /\ largest' \in 0 .. MaxBytes
  BY <1>3, ObservedStep
<1>4. CASE Work
  <2>1. cpu' \in 0 .. MaxCPU /\ bytes' \in 0 .. MaxBytes
    BY <1>4 DEF Work, TypeOK
  <2>. QED
    BY <1>4, <2>1 DEF Work, TypeOK, history
<1>5. ASSUME NEW valid \in BOOLEAN, Start(valid) PROVE TypeOK'
  BY <1>3, <1>5, SampleType DEF Start, TypeOK, Fields, process
<1>6. ASSUME NEW valid \in BOOLEAN, Tick(valid) PROVE TypeOK'
  BY <1>2, <1>6, SampleType DEF Tick, TypeOK, process, history
<1>7. CASE TickApply
  <2>1. sample["sampler"] \in Taken
    BY <1>7 DEF TickApply, Applied
  <2>. QED
    BY <1>3, <1>7, <2>1 DEF TickApply, TypeOK, Fields, process
<1>8. CASE SamplerEnds
  BY <1>8 DEF SamplerEnds, TypeOK, process, history
<1>9. ASSUME NEW a \in Assets, NEW valid \in BOOLEAN, Record(a, valid) PROVE TypeOK'
  BY <1>2, <1>9, SampleType DEF Record, TypeOK, process, history
<1>10. ASSUME NEW a \in Assets, RecordApply(a) PROVE TypeOK'
  <2>1. sample[a] \in Taken
    BY <1>10 DEF RecordApply, Applied
  <2>. QED
    BY <1>3, <1>10, <2>1 DEF RecordApply, TypeOK, Fields, process
<1>11. ASSUME NEW a \in Assets, RecordWrite(a) PROVE TypeOK'
  <2>1. tracker.lastCPU \in 0 .. MaxCPU /\ tracker.baseline \in 0 .. MaxCPU
    BY DEF TypeOK
  <2>2. cpuUsage(tracker) \in 0 .. MaxCPU
    BY <2>1 DEF cpuUsage
  <2>3. [written |-> TRUE, hasMem |-> tracker.hasSample, peak |-> tracker.peak, last |-> tracker.last,
         hasCPU |-> tracker.hasCPU, busy |-> cpuUsage(tracker)] \in Records
    BY <2>2 DEF TypeOK, Records
  <2>4. recorded' \in [Assets -> Records]
    BY <1>11, <2>3 DEF RecordWrite
  <2>. QED
    BY <1>11, <2>4 DEF RecordWrite, TypeOK, process, history
<1>12. CASE Stop \/ StopReturns
  BY <1>12 DEF Stop, StopReturns, TypeOK, process, history
<1>13. CASE UNCHANGED vars
  BY <1>13 DEF vars, TypeOK, history
<1>. QED
  BY <1>4, <1>5, <1>6, <1>7, <1>8, <1>9, <1>10, <1>11, <1>12, <1>13 DEF Next, Sampler

\* Every step keeps what the history says of the tracker: only an observation
\* changes either of them.
LEMMA HistoryStep == TrackerAssumption /\ IInv /\ [Next]_vars =>
  /\ PeakIsLargest' /\ Readings'
  /\ tracker'.peak >= tracker.peak /\ newest' >= newest /\ (first # -1 => first' = first)
<1>. SUFFICES ASSUME TrackerAssumption, IInv, [Next]_vars
              PROVE  /\ PeakIsLargest' /\ Readings'
                     /\ tracker'.peak >= tracker.peak /\ newest' >= newest
                     /\ (first # -1 => first' = first)
  OBVIOUS
<1>1. TypeOK /\ Applied /\ PeakIsLargest /\ Readings
  BY DEF IInv
<1>2. CASE \E s \in Taken : Observed(s)
  BY <1>2, ObservedStep
<1>3. CASE UNCHANGED <<tracker, history>>
  BY <1>1, <1>3, Rest DEF history, PeakIsLargest, Readings
<1>4. (\E valid \in BOOLEAN : Start(valid)) => \E s \in Taken : Observed(s)
  BY <1>1, SampleType DEF Start
<1>5. TickApply => \E s \in Taken : Observed(s)
  BY <1>1, Rest DEF TickApply, Applied
<1>6. (\E a \in Assets : RecordApply(a)) => \E s \in Taken : Observed(s)
  BY <1>1, Rest DEF RecordApply, Applied
<1>. QED
  BY <1>2, <1>3, <1>4, <1>5, <1>6
     DEF Next, Sampler, Work, Tick, SamplerEnds, Record, RecordWrite, Stop, StopReturns, vars, history

\* Every step keeps what is known of the samples.
LEMMA AppliedStep == TrackerAssumption /\ IInv /\ [Next]_vars => Applied'
<1>. SUFFICES ASSUME TrackerAssumption, IInv, [Next]_vars PROVE Applied'
  OBVIOUS
<1>1. TypeOK /\ Applied
  BY DEF IInv
<1>2. tracker'.peak >= tracker.peak /\ tracker'.peak \in 0 .. MaxBytes
  BY HistoryStep, TypeStep DEF TypeOK
<1>3. ASSUME NEW s \in Taken, s.bytes <= tracker.peak PROVE s.bytes <= tracker'.peak
  BY <1>2, <1>3, Rest DEF Taken
<1>. USE <1>1, Rest
<1>4. CASE UNCHANGED <<pc, sample, recorded>>
  BY <1>3, <1>4 DEF Applied
<1>5. ASSUME NEW valid \in BOOLEAN, Start(valid) \/ Tick(valid) PROVE Applied'
  BY <1>3, <1>5, SampleType DEF Start, Tick, Applied
<1>6. CASE TickApply \/ SamplerEnds
  BY <1>3, <1>6 DEF TickApply, SamplerEnds, Applied
<1>7. ASSUME NEW a \in Assets, NEW valid \in BOOLEAN, Record(a, valid) PROVE Applied'
  BY <1>3, <1>7, SampleType DEF Record, Applied
<1>8. ASSUME NEW a \in Assets, RecordApply(a) PROVE Applied'
  <2>1. sample[a] \in Taken /\ Observed(sample[a])
    BY <1>8 DEF RecordApply, Applied
  <2>2. sample[a].bytes <= tracker'.peak
    BY <1>2, <2>1, ObservedStep DEF Taken
  <2>. QED
    BY <1>3, <1>8, <2>1, <2>2 DEF RecordApply, Applied
<1>9. ASSUME NEW a \in Assets, RecordWrite(a) PROVE Applied'
  BY <1>9 DEF RecordWrite, Applied
<1>. QED
  BY <1>4, <1>5, <1>6, <1>7, <1>8, <1>9
     DEF Next, Sampler, Work, Stop, StopReturns, vars

\* Every step keeps what was recorded right.
LEMMA RecordedStep == TrackerAssumption /\ IInv /\ [Next]_vars => Recorded'
<1>. SUFFICES ASSUME TrackerAssumption, IInv, [Next]_vars, NEW a \in Assets, recorded'[a].written
              PROVE  /\ recorded'[a].peak >= sample'[a].bytes
                     /\ recorded'[a].hasCPU => first' # -1 /\ recorded'[a].busy + first' <= newest'
  BY DEF Recorded
<1>1. TypeOK /\ Applied /\ Recorded /\ Readings
  BY DEF IInv
<1>2. /\ newest' >= newest /\ (first # -1 => first' = first)
      /\ newest' \in 0 .. MaxCPU /\ first' \in -1 .. MaxCPU
  BY HistoryStep, TypeStep DEF TypeOK
<1>3. CASE RecordWrite(a)
  <2>1. /\ recorded'[a].peak = tracker.peak /\ recorded'[a].busy = cpuUsage(tracker)
        /\ recorded'[a].hasCPU = tracker.hasCPU /\ UNCHANGED <<sample, first, newest>>
    BY <1>3, Rest DEF RecordWrite, history
  <2>2. sample[a] \in Taken /\ sample[a].bytes <= tracker.peak
    BY <1>1, <1>3, Rest DEF RecordWrite, Applied
  <2>3. tracker.peak >= sample[a].bytes
    BY <2>2, Rest DEF Taken
  <2>4. ASSUME tracker.hasCPU PROVE first # -1 /\ cpuUsage(tracker) + first <= newest
    <3>1. /\ first # -1 /\ first = tracker.baseline
          /\ tracker.lastCPU <= newest /\ tracker.baseline <= newest
      BY <1>1, <2>4 DEF Readings
    <3>2. tracker.lastCPU \in 0 .. MaxCPU /\ tracker.baseline \in 0 .. MaxCPU
      BY <1>1 DEF TypeOK
    <3>. QED
      BY <3>1, <3>2, Rest DEF cpuUsage
  <2>. QED
    BY <2>1, <2>3, <2>4
<1>4. CASE ~RecordWrite(a)
  <2>1. recorded'[a] = recorded[a]
    BY <1>4, Rest DEF Next, Sampler, Work, Start, Tick, TickApply, SamplerEnds, Record, RecordApply,
       RecordWrite, Stop, StopReturns, vars
  <2>2. recorded[a].written /\ pc[a] = "done"
    BY <1>1, <2>1 DEF Applied
  <2>3. sample'[a] = sample[a]
    BY <2>2, Rest DEF Next, Sampler, Work, Start, Tick, TickApply, SamplerEnds, Record, RecordApply,
       RecordWrite, Stop, StopReturns, vars
  <2>4. /\ recorded[a].peak >= sample[a].bytes
        /\ recorded[a].hasCPU => first # -1 /\ recorded[a].busy + first <= newest
    BY <1>1, <2>2 DEF Recorded
  <2>5. recorded[a] # Nothing
    BY <2>2 DEF Nothing
  <2>6. recorded[a].busy \in 0 .. MaxCPU
    BY <2>5, Rest DEF Records
  <2>7. ASSUME recorded[a].hasCPU PROVE first' # -1 /\ recorded[a].busy + first' <= newest'
    BY <1>2, <2>4, <2>6, <2>7, Rest
  <2>. QED
    BY <2>1, <2>3, <2>4, <2>7
<1>. QED
  BY <1>3, <1>4

\* Once Stop returned, the sampler stays gone.
LEMMA StoppedStep == TrackerAssumption /\ IInv /\ [Next]_vars => NoSamplerAfterStop'
<1>. SUFFICES ASSUME TrackerAssumption, IInv, [Next]_vars, stopped' PROVE pc'["sampler"] = "ended"
  BY DEF NoSamplerAfterStop
<1>1. CASE StopReturns
  BY <1>1 DEF StopReturns
<1>2. CASE ~StopReturns
  <2>1. stopped
    BY <1>2 DEF Next, Sampler, Work, Start, Tick, TickApply, SamplerEnds, Record, RecordApply,
       RecordWrite, Stop, vars
  <2>2. pc["sampler"] = "ended"
    BY <2>1 DEF IInv, NoSamplerAfterStop
  <2>. QED
    BY <1>2, <2>2, Rest DEF Next, Sampler, Work, Start, Tick, TickApply, SamplerEnds, Record,
       RecordApply, RecordWrite, Stop, vars
<1>. QED
  BY <1>1, <1>2

\* The invariant holds when the tracker is made.
LEMMA InitInv == TrackerAssumption /\ Init => IInv
<1>. SUFFICES ASSUME TrackerAssumption, Init PROVE IInv
  OBVIOUS
<1>1. MaxCPU \in Nat /\ MaxBytes \in Nat /\ "sampler" \notin Assets
  BY DEF TrackerAssumption
<1>2. TypeOK
  <2>1. tracker = New /\ New \in Fields
    BY <1>1 DEF Init, New, Fields
  <2>2. sample \in [Observers -> Samples] /\ recorded \in [Assets -> Records]
    BY DEF Init, Samples, Records
  <2>3. pc \in [Observers -> {"start", "idle", "ended", "scan", "lock", "read", "done"}]
    BY DEF Init
  <2>4. /\ cpu \in 0 .. MaxCPU /\ bytes \in 0 .. MaxBytes /\ stop \in BOOLEAN /\ stopped \in BOOLEAN
        /\ first \in -1 .. MaxCPU /\ newest \in 0 .. MaxCPU /\ largest \in 0 .. MaxBytes
    <3>1. stop \in BOOLEAN /\ stopped \in BOOLEAN
      BY DEF Init
    <3>2. cpu = 0 /\ bytes \in 0 .. MaxBytes /\ first = -1 /\ newest = 0 /\ largest = 0
      BY DEF Init
    <3>. QED
      BY <1>1, <3>1, <3>2
  <2>. QED
    BY <2>1, <2>2, <2>3, <2>4 DEF TypeOK, Fields
<1>. QED
  BY <1>1, <1>2 DEF Init, IInv, PeakIsLargest, Readings, Applied, Recorded, NoSamplerAfterStop, New,
     NoSample, Nothing, Observers

-----------------------------------------------------------------------------
\* Whatever the order in which the sampler and the assets apply their samples
\* (Observe), the peak is the largest footprint, no record claims more CPU than was
\* used, none is older than its own sample, and nobody samples after Stop returned.
THEOREM UsageIsMeasured == TrackerAssumption => (Spec => []UsageMeasured)
<1>. SUFFICES ASSUME TrackerAssumption PROVE Spec => []UsageMeasured
  OBVIOUS
<1>1. IInv /\ [Next]_vars => IInv'
  BY TypeStep, HistoryStep, AppliedStep, RecordedStep, StoppedStep DEF IInv
<1>2. IInv => UsageMeasured
  <2>. SUFFICES ASSUME IInv PROVE UsageMeasured
    OBVIOUS
  <2>1. TypeOK /\ PeakIsLargest /\ NoSamplerAfterStop /\ Recorded /\ Applied
    BY DEF IInv
  <2>2. RecordIsFresh
    BY <2>1 DEF Recorded, RecordIsFresh
  <2>3. ASSUME NEW a \in Assets, recorded[a].written, recorded[a].hasCPU
        PROVE  recorded[a].busy \in 0 .. newest - first
    <3>1. recorded[a] # Nothing
      BY <2>3 DEF Nothing
    <3>2. recorded[a].busy \in 0 .. MaxCPU
      BY <3>1, Rest DEF Records
    <3>3. recorded[a].busy + first <= newest
      BY <2>1, <2>3 DEF Recorded
    <3>4. first \in -1 .. MaxCPU
      BY <2>1 DEF TypeOK
    <3>. QED
      BY <3>2, <3>3, <3>4, Rest
  <2>. QED
    BY <2>1, <2>2, <2>3 DEF UsageMeasured, UsageInRange
<1>. QED
  BY <1>1, <1>2, InitInv, PTL DEF Spec

-----------------------------------------------------------------------------
(* The sum over a set of keys, as the fold in SizeOf computes it *)

\* the set the fold takes before S
Before(S) == S \ {CHOOSE k \in S : TRUE}

\* the sum over S, given the sums over smaller sets in f
SumStep(d, f, S) ==
  IF S = {} THEN 0 ELSE LET k == CHOOSE k \in S : TRUE IN d[k].size + f[S \ {k}]

\* the sums over all subsets of S
Sums(d, S) == CHOOSE f : f = [s \in SUBSET S |-> SumStep(d, f, s)]

Sum(d, S) == Sums(d, S)[S]

\* SizeOf is that sum.
LEMMA SizeOfIsSum ==
  ASSUME NEW S
  PROVE  Cache!SizeOf(S) = Sum(data, S)
  BY DEF Cache!SizeOf, Cache!MapThenSumSet, Cache!MapThenFoldSet, Sum, Sums, SumStep

\* The same of the next state.
LEMMA SizeOfIsSumNext ==
  Cache!SizeOf(DOMAIN data)' = Sum(data', DOMAIN data')
  BY DEF Cache!SizeOf, Cache!MapThenSumSet, Cache!MapThenFoldSet, Sum, Sums, SumStep

\* Of some subsets of a finite set one has no smaller one among them.
LEMMA SmallestSet ==
  ASSUME NEW K, IsFiniteSet(K), NEW W \in SUBSET SUBSET K, W # {}
  PROVE  \E S \in W : \A T \in W : T \subseteq S => T = S
  <1>1. W \subseteq FiniteSubsetsOf(K)
    BY FS_Subset DEF FiniteSubsetsOf
  <1>2. IsWellFoundedOn(StrictSubsetOrdering(K), FiniteSubsetsOf(K))
    BY FS_StrictSubsetOrderingWellFounded
  <1>3. PICK S \in W : \A T \in W : <<T, S>> \notin StrictSubsetOrdering(K)
    BY <1>1, <1>2, WFMin
  <1> QED BY <1>3 DEF StrictSubsetOrdering

\* families of sets, closed under Before, over which there are such sums
Families(d, K) ==
  {F \in SUBSET SUBSET K : /\ \A S \in F : S # {} => Before(S) \in F
                           /\ \E f : f = [S \in F |-> SumStep(d, f, S)]}

\* They grow by one set at a time.
LEMMA FamilyGrows ==
  ASSUME NEW d, NEW K, NEW F \in Families(d, K),
         NEW T \in (SUBSET K) \ F, T # {} => Before(T) \in F
  PROVE  F \cup {T} \in Families(d, K)
  <1>1. PICK f : f = [S \in F |-> SumStep(d, f, S)]
    BY DEF Families
  <1> DEFINE g == [S \in F \cup {T} |-> IF S = T THEN SumStep(d, f, T) ELSE f[S]]
  <1>2. \A S \in F \cup {T} : S # {} => Before(S) \in F
    BY DEF Families
  <1>3. ASSUME NEW S \in F \cup {T}
        PROVE  SumStep(d, g, S) = SumStep(d, f, S)
    <2>1. S # {} => g[Before(S)] = f[Before(S)]
      BY <1>2
    <2> HIDE DEF g
    <2> QED BY <2>1 DEF SumStep, Before
  <1>4. ASSUME NEW S \in F \cup {T}
        PROVE  g[S] = SumStep(d, g, S)
    <2>1. S # T => f[S] = SumStep(d, f, S)
      BY <1>1
    <2>2. g[S] = SumStep(d, f, S)
      BY <2>1
    <2> QED BY <1>3, <2>2
  <1>5. g = [S \in F \cup {T} |-> SumStep(d, g, S)]
    <2>1. g = [S \in F \cup {T} |-> g[S]]
      OBVIOUS
    <2> HIDE DEF g
    <2> QED BY <1>4, <2>1
  <1>6. F \cup {T} \in SUBSET SUBSET K
    BY DEF Families
  <1> HIDE DEF g
  <1> QED BY <1>2, <1>5, <1>6 DEF Families

\* The largest of them has all sets, and the fold is what its equation says.
LEMMA SumsEnd ==
  ASSUME NEW d, NEW K, IsFiniteSet(K)
  PROVE  \A S \in SUBSET K : Sums(d, K)[S] = SumStep(d, Sums(d, K), S)
  <1> DEFINE Left == {(SUBSET K) \ F : F \in Families(d, K)}
  <1>1. {} \in Families(d, K)
    <2> DEFINE f == [S \in {} |-> 0]
    <2>1. f = [S \in {} |-> SumStep(d, f, S)]
      OBVIOUS
    <2> QED BY <2>1 DEF Families
  <1>2. IsFiniteSet(SUBSET K)
    BY FS_SUBSET
  <1>3. Left \in SUBSET SUBSET SUBSET K /\ Left # {}
    BY <1>1
  <1>4. PICK rest \in Left : \A T \in Left : T \subseteq rest => T = rest
    <2> HIDE DEF Left
    <2> QED BY <1>2, <1>3, SmallestSet
  <1>5. PICK F \in Families(d, K) : rest = (SUBSET K) \ F
    BY <1>4
  <1>6. F \subseteq SUBSET K
    BY DEF Families
  <1>7. CASE F = SUBSET K
    <2>1. \E f : f = [S \in SUBSET K |-> SumStep(d, f, S)]
      BY <1>7 DEF Families
    <2> DEFINE f == Sums(d, K)
    <2>2. f = [S \in SUBSET K |-> SumStep(d, f, S)]
      BY <2>1 DEF Sums
    <2> HIDE DEF f
    <2>3. \A S \in SUBSET K : f[S] = SumStep(d, f, S)
      BY <2>2
    <2> QED BY <2>3 DEF f
  <1>8. CASE F # SUBSET K
    <2>1. rest # {} /\ rest \in SUBSET SUBSET K
      BY <1>5, <1>6, <1>8
    <2>2. PICK T \in rest : \A S \in rest : S \subseteq T => S = T
      BY <2>1, SmallestSet
    <2>3. T \in (SUBSET K) \ F /\ (T # {} => Before(T) \in F)
      <3>1. T # {} => Before(T) \subseteq T /\ Before(T) # T
        BY DEF Before
      <3> QED BY <1>5, <2>1, <2>2, <3>1
    <2>4. F \cup {T} \in Families(d, K)
      BY <2>3, FamilyGrows
    <2>5. (SUBSET K) \ (F \cup {T}) \in Left
      BY <2>4
    <2> QED BY <1>4, <1>5, <2>3, <2>5
  <1> QED BY <1>7, <1>8

\* The sum over a set depends on the sizes in it only.
LEMMA SumsAgree ==
  ASSUME NEW d, NEW e, NEW K, NEW L, IsFiniteSet(K), IsFiniteSet(L),
         NEW S, S \subseteq K \cap L, \A k \in S : d[k].size = e[k].size
  PROVE  Sums(d, K)[S] = Sums(e, L)[S]
  <1> DEFINE f == Sums(d, K)
             g == Sums(e, L)
             Wrong == {T \in SUBSET S : f[T] # g[T]}
  <1>1. /\ \A T \in SUBSET K : f[T] = SumStep(d, f, T)
        /\ \A T \in SUBSET L : g[T] = SumStep(e, g, T)
    BY SumsEnd
  <1> HIDE DEF f, g
  <1>2. Wrong = {}
    <2> SUFFICES ASSUME Wrong # {}
                 PROVE  FALSE
      OBVIOUS
    <2>9. IsFiniteSet(S) /\ Wrong \in SUBSET SUBSET S
      BY FS_Subset
    <2>1. PICK T \in Wrong : \A U \in Wrong : U \subseteq T => U = T
      <3> HIDE DEF Wrong
      <3> QED BY <2>9, SmallestSet
    <2>2. f[T] = SumStep(d, f, T) /\ g[T] = SumStep(e, g, T) /\ T # {}
      <3>1. f[T] = SumStep(d, f, T) /\ g[T] = SumStep(e, g, T)
        BY <1>1, <2>1
      <3> QED BY <2>1, <3>1 DEF SumStep
    <2> DEFINE x == CHOOSE k \in T : TRUE
    <2>3. x \in T /\ x \in S
      BY <2>1, <2>2
    <2>4. f[T \ {x}] = g[T \ {x}]
      BY <2>1, <2>3
    <2> QED BY <2>1, <2>2, <2>3, <2>4 DEF SumStep
  <1> QED BY <1>2 DEF f, g

\* The same for the sum over all keys of a set.
LEMMA SumAgrees ==
  ASSUME NEW d, NEW e, NEW K, IsFiniteSet(K), \A k \in K : d[k].size = e[k].size
  PROVE  Sum(d, K) = Sum(e, K)
  BY SumsAgree DEF Sum

\* The sum adds up the sizes in the order in which the fold takes them ...
LEMMA SumUnfolds ==
  ASSUME NEW d, NEW K, IsFiniteSet(K), K # {}
  PROVE  \E x \in K : Sum(d, K) = d[x].size + Sum(d, K \ {x})
  <1> DEFINE x == CHOOSE k \in K : TRUE
  <1>1. x \in K /\ IsFiniteSet(K \ {x})
    BY FS_Subset
  <1>2. Sums(d, K)[K \ {x}] = Sums(d, K \ {x})[K \ {x}]
    BY <1>1, SumsAgree
  <1>3. Sums(d, K)[K] = SumStep(d, Sums(d, K), K)
    BY SumsEnd
  <1>4. SumStep(d, Sums(d, K), K) = d[x].size + Sums(d, K)[K \ {x}]
    BY DEF SumStep
  <1> QED BY <1>1, <1>2, <1>3, <1>4 DEF Sum

\* There is nothing to add up in no keys.
LEMMA SumEmpty ==
  ASSUME NEW d
  PROVE  Sum(d, {}) = 0
  <1>1. Sums(d, {})[{}] = SumStep(d, Sums(d, {}), {})
    BY FS_EmptySet, SumsEnd
  <1> QED BY <1>1 DEF Sum, SumStep

\* ... and is a number.
LEMMA SumIsNat ==
  ASSUME NEW d, NEW K, IsFiniteSet(K), \A k \in K : d[k].size \in Nat
  PROVE  Sum(d, K) \in Nat
  <1> DEFINE Wrong == {T \in SUBSET K : Sum(d, T) \notin Nat}
  <1>1. Wrong = {}
    <2> SUFFICES ASSUME Wrong # {}
                 PROVE  FALSE
      OBVIOUS
    <2>1. PICK T \in Wrong : \A U \in Wrong : U \subseteq T => U = T
      <3>1. Wrong \in SUBSET SUBSET K
        OBVIOUS
      <3> HIDE DEF Wrong
      <3> QED BY <3>1, SmallestSet
    <2>2. IsFiniteSet(T) /\ T \subseteq K /\ Sum(d, T) \notin Nat
      BY <2>1, FS_Subset
    <2>3. T # {}
      BY <2>2, SumEmpty
    <2>4. PICK x \in T : Sum(d, T) = d[x].size + Sum(d, T \ {x})
      BY <2>2, <2>3, SumUnfolds
    <2>5. Sum(d, T \ {x}) \in Nat /\ d[x].size \in Nat
      BY <2>1, <2>2
    <2>6. Sum(d, T) \in Nat
      BY <2>4, <2>5
    <2> QED BY <2>2, <2>6
  <1> QED BY <1>1

\* The order does not matter: any key can be taken first.
LEMMA SumWithout ==
  ASSUME NEW d, NEW K, IsFiniteSet(K), \A k \in K : d[k].size \in Nat, NEW k \in K
  PROVE  Sum(d, K) = d[k].size + Sum(d, K \ {k})
  <1> DEFINE Wrong == {T \in SUBSET K : \E y \in T : Sum(d, T) # d[y].size + Sum(d, T \ {y})}
  <1>1. Wrong = {}
    <2> SUFFICES ASSUME Wrong # {}
                 PROVE  FALSE
      OBVIOUS
    <2>1. PICK T \in Wrong : \A U \in Wrong : U \subseteq T => U = T
      <3>1. Wrong \in SUBSET SUBSET K
        OBVIOUS
      <3> HIDE DEF Wrong
      <3> QED BY <3>1, SmallestSet
    <2>2. PICK y \in T : Sum(d, T) # d[y].size + Sum(d, T \ {y})
      BY <2>1
    <2>3. IsFiniteSet(T) /\ T \subseteq K
      BY FS_Subset
    <2>4. PICK x \in T : Sum(d, T) = d[x].size + Sum(d, T \ {x})
      BY <2>2, <2>3, SumUnfolds
    <2>5. x # y
      BY <2>2, <2>4
    <2>6. Sum(d, T \ {x}) = d[y].size + Sum(d, (T \ {x}) \ {y})
      <3>1. T \ {x} \in SUBSET K /\ T \ {x} \notin Wrong /\ y \in T \ {x}
        BY <2>1, <2>3, <2>5
      <3> QED BY <3>1
    <2>7. Sum(d, T \ {y}) = d[x].size + Sum(d, (T \ {y}) \ {x})
      <3>1. T \ {y} \in SUBSET K /\ T \ {y} \notin Wrong /\ x \in T \ {y}
        BY <2>1, <2>3, <2>5
      <3> QED BY <3>1
    <2>8. (T \ {x}) \ {y} = (T \ {y}) \ {x}
      OBVIOUS
    <2>9. Sum(d, (T \ {y}) \ {x}) \in Nat /\ d[x].size \in Nat /\ d[y].size \in Nat
      <3>1. IsFiniteSet((T \ {y}) \ {x}) /\ (T \ {y}) \ {x} \subseteq K
        BY <2>3, FS_Subset
      <3> QED BY <2>3, <3>1, SumIsNat
    <2> HIDE DEF Wrong
    <2>10. d[y].size + Sum(d, T \ {y}) = d[x].size + Sum(d, T \ {x})
      <3> DEFINE rest == Sum(d, (T \ {y}) \ {x})
      <3>1. Sum(d, T \ {x}) = d[y].size + rest /\ Sum(d, T \ {y}) = d[x].size + rest
        BY <2>6, <2>7, <2>8
      <3>2. rest \in Nat
        BY <2>9
      <3> HIDE DEF rest
      <3>3. d[y].size + (d[x].size + rest) = d[x].size + (d[y].size + rest)
        BY <2>9, <3>2
      <3> QED BY <3>1, <3>3
    <2> QED BY <2>2, <2>4, <2>10
  <1>2. K \in SUBSET K /\ K \notin Wrong
    BY <1>1
  <1> QED BY <1>2

\* The sum over a set is the sum over its parts.
LEMMA SumParts ==
  ASSUME NEW d, NEW K, IsFiniteSet(K), \A k \in K : d[k].size \in Nat, NEW A \in SUBSET K
  PROVE  Sum(d, K \ A) = Sum(d, K) - Sum(d, A)
  <1> DEFINE Wrong == {T \in SUBSET K : Sum(d, K \ T) # Sum(d, K) - Sum(d, T)}
  <1>1. \A T \in SUBSET K : IsFiniteSet(T) /\ Sum(d, T) \in Nat
    BY FS_Subset, SumIsNat
  <1>2. Wrong = {}
    <2> SUFFICES ASSUME Wrong # {}
                 PROVE  FALSE
      OBVIOUS
    <2>1. PICK T \in Wrong : \A U \in Wrong : U \subseteq T => U = T
      <3>1. Wrong \in SUBSET SUBSET K
        OBVIOUS
      <3> HIDE DEF Wrong
      <3> QED BY <3>1, SmallestSet
    <2>8. T \subseteq K /\ Sum(d, K \ T) # Sum(d, K) - Sum(d, T)
      BY <2>1
    <2>2. T # {}
      <3> SUFFICES ASSUME T = {} PROVE FALSE
        OBVIOUS
      <3>1. Sum(d, T) = 0
        BY SumEmpty
      <3>2. K \ T = K
        OBVIOUS
      <3>3. Sum(d, K) \in Nat
        BY <1>1
      <3> HIDE DEF Wrong
      <3> QED BY <2>8, <3>1, <3>2, <3>3
    <2>3. PICK x \in T : TRUE
      BY <2>2
    <2>4. Sum(d, T) = d[x].size + Sum(d, T \ {x})
      <3>1. IsFiniteSet(T) /\ \A y \in T : d[y].size \in Nat
        BY <1>1, <2>8
      <3> QED BY <2>3, <3>1, SumWithout
    <2>5. Sum(d, K \ (T \ {x})) = d[x].size + Sum(d, K \ T)
      <3>1. x \in K \ (T \ {x}) /\ (K \ (T \ {x})) \ {x} = K \ T
        BY <2>3
      <3>2. \A y \in K \ (T \ {x}) : d[y].size \in Nat
        OBVIOUS
      <3>3. IsFiniteSet(K \ (T \ {x}))
        BY <1>1
      <3> QED BY <3>1, <3>2, <3>3, SumWithout
    <2>6. Sum(d, K \ (T \ {x})) = Sum(d, K) - Sum(d, T \ {x})
      BY <2>1, <2>3
    <2>7. /\ d[x].size \in Nat /\ Sum(d, T \ {x}) \in Nat
          /\ Sum(d, K \ T) \in Nat /\ Sum(d, K) \in Nat
      BY <1>1, <2>3
    <2> HIDE DEF Wrong
    <2> QED BY <2>4, <2>5, <2>6, <2>7, <2>8
  <1> QED BY <1>2

-----------------------------------------------------------------------------
(* The cache of resolved policies *)

\* entries made and used until now
Entries == [createdOn : 0 .. now, lastAccessedOn : 0 .. now, size : Sizes]

\* what Get and Set return
Replies ==
  [op : {"get"}, ok : {FALSE}]
    \cup [op : {"get"}, ok : {TRUE}, age : 0 .. TTL]
    \cup {r \in [op : {"set"}, ok : BOOLEAN, size : Sizes] : ~r.ok => r.size > SizeLimit}

\* a call, by where it is
Calls ==
  {Cache!Idle}
    \cup [pc : {"lock", "free", "store"}, key : Keys,
          entry : {e \in Entries : e.createdOn = e.lastAccessedOn}]
    \cup [pc : {"done"}, reply : Replies]

\* Who is about to store has room for its entry, or nothing is left to evict.
MadeRoom ==
  \A c \in Callers :
    call[c].pc = "store" => DOMAIN data = {} \/ ~Cache!hasSpace(call[c].entry.size)

\* The types of the entries and calls.
CacheShapes ==
  /\ IsFiniteSet(DOMAIN data)
  /\ data \in [DOMAIN data -> Entries]
  /\ call \in [Callers -> Calls]

\* The inductive invariant of the cache.
CacheInv == CacheShapes /\ Cache!TypeOK /\ Cache!TotalSizeExact /\ MadeRoom

\* The total is the sum over the entries.
LEMMA TotalIsSum ==
  ASSUME Cache!CacheAssumption, CacheInv
  PROVE  /\ totalSize = Sum(data, DOMAIN data)
         /\ \A k \in DOMAIN data : data[k].size \in Nat
  BY SizeOfIsSum DEF CacheInv, CacheShapes, Entries, Cache!TotalSizeExact, Cache!CacheAssumption

\* Taking entries out takes their sizes out of the total.
LEMMA Evicted ==
  ASSUME Cache!CacheAssumption, CacheInv, NEW A \in SUBSET DOMAIN data,
         data' = Cache!Without(data, A), totalSize' = totalSize - Sum(data, A), now' = now
  PROVE  /\ DOMAIN data' = DOMAIN data \ A
         /\ IsFiniteSet(DOMAIN data') /\ data' \in [DOMAIN data' -> Entries']
         /\ \A k \in DOMAIN data' : data'[k] = data[k]
         /\ Cache!TotalSizeExact' /\ totalSize' \in Nat /\ totalSize' <= totalSize
  <1>1. /\ data' = [k \in DOMAIN data \ A |-> data[k]]
        /\ DOMAIN data' = DOMAIN data \ A
        /\ \A k \in DOMAIN data' : data'[k] = data[k]
    BY DEF Cache!Without, Cache!Restrict
  <1>2. IsFiniteSet(DOMAIN data) /\ IsFiniteSet(DOMAIN data') /\ IsFiniteSet(A)
    BY <1>1, FS_Subset DEF CacheInv, CacheShapes
  <1>3. data' \in [DOMAIN data' -> Entries']
    BY <1>1 DEF CacheInv, CacheShapes, Entries
  <1>4. Sum(data', DOMAIN data') = Sum(data, DOMAIN data')
    BY <1>1, <1>2, SumAgrees
  <1>5. Sum(data, DOMAIN data \ A) = Sum(data, DOMAIN data) - Sum(data, A)
    BY <1>2, TotalIsSum, SumParts
  <1>6. totalSize' = Sum(data', DOMAIN data')
    BY <1>1, <1>4, <1>5, TotalIsSum
  <1>7. Sum(data, A) \in Nat /\ totalSize' \in Nat
    <2>1. \A k \in A : data[k].size \in Nat
      BY TotalIsSum
    <2>2. \A k \in DOMAIN data' : data'[k].size \in Nat
      BY <1>1, TotalIsSum
    <2> QED BY <1>2, <1>6, <2>1, <2>2, SumIsNat
  <1>8. totalSize' <= totalSize
    BY <1>7 DEF CacheInv, Cache!TypeOK
  <1>9. SizeLimit > 0 => totalSize' <= SizeLimit
    BY <1>7, <1>8 DEF CacheInv, Cache!TypeOK, Cache!TotalSizeExact, Cache!CacheAssumption
  <1>10. Cache!TotalSizeExact'
    BY <1>6, <1>9, SizeOfIsSumNext DEF Cache!TotalSizeExact
  <1> QED BY <1>1, <1>2, <1>3, <1>7, <1>8, <1>10

\* The sum over one key.
LEMMA SumOfOne ==
  ASSUME NEW d, NEW k, d[k].size \in Nat
  PROVE  Sum(d, {k}) = d[k].size
  <1>1. IsFiniteSet({k}) /\ {k} \ {k} = {}
    BY FS_Singleton
  <1>2. Sum(d, {k}) = d[k].size + Sum(d, {k} \ {k})
    BY <1>1, SumWithout
  <1> QED BY <1>1, <1>2, SumEmpty

\* The invariant holds in the empty cache.
LEMMA CacheInitial ==
  ASSUME Cache!CacheAssumption, Cache!Init
  PROVE  CacheInv
  <1>1. DOMAIN data = {} /\ IsFiniteSet(DOMAIN data)
    BY FS_EmptySet DEF Cache!Init
  <1>2. CacheShapes
    BY <1>1 DEF CacheShapes, Cache!Init, Calls
  <1>3. Cache!TypeOK
    BY <1>1 DEF Cache!TypeOK, Cache!Init, Cache!CacheAssumption, Cache!Idle
  <1>4. Cache!TotalSizeExact
    BY <1>1, SumEmpty, SizeOfIsSum DEF Cache!TotalSizeExact, Cache!Init, Cache!CacheAssumption
  <1>5. MadeRoom
    BY DEF MadeRoom, Cache!Init, Cache!Idle
  <1> QED BY <1>2, <1>3, <1>4, <1>5 DEF CacheInv

\* A step that leaves the entries alone leaves their sum alone.
LEMMA SameEntries ==
  ASSUME CacheInv, UNCHANGED <<data, totalSize>>
  PROVE  Cache!TotalSizeExact'
  BY SizeOfIsSum, SizeOfIsSumNext DEF CacheInv, Cache!TotalSizeExact

\* A step that changes one call and neither the lock nor the clock.
LEMMA OneCall ==
  ASSUME CacheInv, NEW c \in Callers, NEW x \in Calls,
         call' = [call EXCEPT ![c] = x], now' = now,
         holder = holder',
         call[c].pc \in {"free", "store"} <=> x.pc \in {"free", "store"}
  PROVE  /\ call' \in [Callers -> Calls']
         /\ \A o \in Callers : holder' = o <=> call'[o].pc \in {"free", "store"}
         /\ call'[c] = x /\ \A o \in Callers \ {c} : call'[o] = call[o]
  BY DEF CacheInv, CacheShapes, Calls, Entries, Cache!TypeOK

\* What a call gives back is a call.
LEMMA ReplyIsCall ==
  ASSUME NEW r \in Replies
  PROVE  [pc |-> "done", reply |-> r] \in Calls
  BY DEF Calls

\* Get takes an expired entry out and gives back one that is not.
LEMMA GetStep ==
  ASSUME Cache!CacheAssumption, CacheInv, NEW c \in Callers, NEW key \in Keys, Cache!Get(c, key)
  PROVE  CacheInv'
  <1>1. /\ call[c].pc = "idle" /\ holder = "free" /\ now' = now /\ holder' = holder
    BY DEF Cache!Get
  <1>2. \A o \in Callers : call[o].pc \notin {"free", "store"}
    BY <1>1 DEF CacheInv, Cache!TypeOK, Cache!CacheAssumption
  <1>3. ASSUME NEW r \in Replies, Cache!Returns(c, r)
        PROVE  /\ call' \in [Callers -> Calls']
               /\ \A o \in Callers : holder' = o <=> call'[o].pc \in {"free", "store"}
               /\ MadeRoom'
    <2> DEFINE x == [pc |-> "done", reply |-> r]
    <2>1. x \in Calls /\ x.pc = "done"
      BY ReplyIsCall
    <2>2. call' = [call EXCEPT ![c] = x]
      BY <1>3 DEF Cache!Returns
    <2> HIDE DEF x
    <2>3. /\ call' \in [Callers -> Calls']
          /\ \A o \in Callers : holder' = o <=> call'[o].pc \in {"free", "store"}
          /\ call'[c] = x /\ \A o \in Callers \ {c} : call'[o] = call[o]
      BY <1>1, <2>1, <2>2, OneCall
    <2>4. \A o \in Callers : call'[o].pc # "store"
      BY <1>2, <2>1, <2>3
    <2> QED BY <2>3, <2>4 DEF MadeRoom
  <1>4. CASE key \notin DOMAIN data
    <2>1. Cache!Returns(c, [op |-> "get", ok |-> FALSE]) /\ UNCHANGED <<data, totalSize>>
      BY <1>4 DEF Cache!Get
    <2>2. [op |-> "get", ok |-> FALSE] \in Replies
      BY DEF Replies
    <2> QED BY <1>1, <1>3, <2>1, <2>2, SameEntries DEF CacheInv, CacheShapes, Cache!TypeOK, Entries
  <1>5. CASE key \in DOMAIN data /\ Cache!Expired(data[key])
    <2>1. /\ data' = Cache!Without(data, {key})
          /\ totalSize' = totalSize - data[key].size
          /\ Cache!Returns(c, [op |-> "get", ok |-> FALSE])
      BY <1>5 DEF Cache!Get
    <2>2. [op |-> "get", ok |-> FALSE] \in Replies
      BY DEF Replies
    <2>3. totalSize' = totalSize - Sum(data, {key})
      BY <1>5, <2>1, TotalIsSum, SumOfOne
    <2>4. /\ DOMAIN data' = DOMAIN data \ {key}
          /\ IsFiniteSet(DOMAIN data') /\ data' \in [DOMAIN data' -> Entries']
          /\ \A k \in DOMAIN data' : data'[k] = data[k]
          /\ Cache!TotalSizeExact' /\ totalSize' \in Nat
      BY <1>1, <1>5, <2>1, <2>3, Evicted
    <2> QED BY <1>1, <1>3, <2>1, <2>2, <2>4 DEF CacheInv, CacheShapes, Cache!TypeOK
  <1>6. CASE key \in DOMAIN data /\ ~Cache!Expired(data[key])
    <2> DEFINE r == [op |-> "get", ok |-> TRUE, age |-> now - data[key].createdOn]
    <2>1. /\ data' = [data EXCEPT ![key].lastAccessedOn = now]
          /\ Cache!Returns(c, r)
          /\ totalSize' = totalSize
      BY <1>6 DEF Cache!Get
    <2>2. r \in Replies
      <3>1. now - data[key].createdOn \in 0 .. TTL
        BY <1>6 DEF Cache!Expired, CacheInv, Cache!TypeOK, Cache!CacheAssumption
      <3> QED BY <3>1 DEF Replies
    <2>3. /\ DOMAIN data' = DOMAIN data
          /\ \A k \in DOMAIN data : data'[k].size = data[k].size /\ data'[k].createdOn = data[k].createdOn
          /\ \A k \in DOMAIN data : data'[k].lastAccessedOn \in {now, data[k].lastAccessedOn}
          /\ data' \in [DOMAIN data' -> Entries']
      <3> DEFINE e == [data[key] EXCEPT !.lastAccessedOn = now]
      <3>1. data \in [DOMAIN data -> Entries] /\ now \in 0 .. now /\ Entries' = Entries
        BY <1>1 DEF CacheInv, CacheShapes, Cache!TypeOK, Cache!CacheAssumption, Entries
      <3>2. e \in Entries /\ e.size = data[key].size /\ e.createdOn = data[key].createdOn
            /\ e.lastAccessedOn = now
        BY <1>6, <3>1 DEF Entries
      <3>3. data' = [data EXCEPT ![key] = e]
        BY <2>1
      <3> HIDE DEF e
      <3> QED BY <1>6, <3>1, <3>2, <3>3
    <2>4. Cache!TotalSizeExact'
      <3>1. Sum(data', DOMAIN data') = Sum(data, DOMAIN data)
        BY <2>3, SumAgrees DEF CacheInv, CacheShapes
      <3> QED BY <2>1, <3>1, TotalIsSum, SizeOfIsSumNext DEF CacheInv, Cache!TotalSizeExact
    <2>5. Cache!Returns(c, r)
      BY <2>1
    <2> HIDE DEF r
    <2>6. \A k \in DOMAIN data' : data'[k].lastAccessedOn \in data'[k].createdOn .. now
      BY <2>3 DEF CacheInv, Cache!TypeOK, Cache!CacheAssumption
    <2> QED BY <1>1, <1>3, <2>1, <2>2, <2>3, <2>4, <2>5, <2>6 DEF CacheInv, CacheShapes, Cache!TypeOK
  <1> QED BY <1>4, <1>5, <1>6

\* A step that changes one call and perhaps the lock.
LEMMA QuietStep ==
  ASSUME CacheInv, NEW c \in Callers, NEW x \in Calls,
         call' = [call EXCEPT ![c] = x], UNCHANGED <<now, data, totalSize>>,
         holder' \in Callers \cup {"free"},
         \A o \in Callers \ {c} : holder' = o <=> call[o].pc \in {"free", "store"},
         holder' = c <=> x.pc \in {"free", "store"},
         x.pc = "store" => DOMAIN data = {} \/ ~Cache!hasSpace(x.entry.size)
  PROVE  CacheInv'
  <1>1. call'[c] = x /\ \A o \in Callers \ {c} : call'[o] = call[o]
    BY DEF CacheInv, CacheShapes
  <1>2. CacheShapes'
    BY DEF CacheInv, CacheShapes, Calls, Entries
  <1>3. Cache!TypeOK'
    BY <1>1 DEF CacheInv, Cache!TypeOK
  <1>4. Cache!TotalSizeExact'
    BY SameEntries
  <1>5. MadeRoom'
    <2> SUFFICES ASSUME NEW o \in Callers, call'[o].pc = "store"
                 PROVE  DOMAIN data' = {} \/ (~Cache!hasSpace(call[o].entry.size))'
      BY DEF MadeRoom
    <2>1. DOMAIN data = {} \/ ~Cache!hasSpace(call'[o].entry.size)
      BY <1>1 DEF CacheInv, MadeRoom
    <2> QED BY <2>1 DEF Cache!hasSpace
  <1> QED BY <1>2, <1>3, <1>4, <1>5 DEF CacheInv

\* What a call looks like, by where it is.
LEMMA CallKinds ==
  ASSUME CacheInv, NEW c \in Callers
  PROVE  /\ call[c].pc \in {"idle", "lock", "free", "store", "done"}
         /\ call[c].pc = "idle" => call[c] = Cache!Idle
         /\ call[c].pc \in {"lock", "free", "store"} =>
              call[c] \in [pc : {"lock", "free", "store"}, key : Keys,
                           entry : {e \in Entries : e.createdOn = e.lastAccessedOn}]
  <1>1. call[c] \in Calls
    BY DEF CacheInv, CacheShapes
  <1> QED BY <1>1 DEF Calls, Cache!Idle

\* Set makes an entry of the present.
LEMMA SetStep ==
  ASSUME Cache!CacheAssumption, CacheInv, NEW c \in Callers, NEW key \in Keys,
         NEW size \in Sizes, Cache!Set(c, key, size)
  PROVE  CacheInv'
  <1> DEFINE x == [pc |-> "lock", key |-> key, entry |-> Cache!Entry(now, size)]
  <1>1. x \in Calls /\ x.pc = "lock"
    <2>1. now \in 0 .. now
      BY DEF CacheInv, Cache!TypeOK, Cache!CacheAssumption
    <2>2. Cache!Entry(now, size) \in Entries
          /\ Cache!Entry(now, size).createdOn = Cache!Entry(now, size).lastAccessedOn
      BY <2>1 DEF Cache!Entry, Entries
    <2> QED BY <2>2 DEF Calls
  <1>2. call' = [call EXCEPT ![c] = x] /\ UNCHANGED <<now, data, totalSize, holder>> /\ call[c].pc = "idle"
    BY DEF Cache!Set
  <1> HIDE DEF x
  <1>3. /\ holder' \in Callers \cup {"free"}
        /\ \A o \in Callers \ {c} : holder' = o <=> call[o].pc \in {"free", "store"}
        /\ holder' = c <=> x.pc \in {"free", "store"}
    BY <1>1, <1>2 DEF CacheInv, Cache!TypeOK
  <1> QED BY <1>1, <1>2, <1>3, QuietStep

\* With the lock an empty cache needs no room to be made.
LEMMA LockStep ==
  ASSUME Cache!CacheAssumption, CacheInv, NEW c \in Callers, Cache!Lock(c)
  PROVE  CacheInv'
  <1> DEFINE x == [call[c] EXCEPT !.pc = IF DOMAIN data = {} THEN "store" ELSE "free"]
  <1>1. x \in Calls /\ x.pc \in {"store", "free"} /\ (x.pc = "store" => DOMAIN data = {})
    BY CallKinds DEF Cache!Lock, Calls
  <1>2. /\ call' = [call EXCEPT ![c] = x] /\ UNCHANGED <<now, data, totalSize>>
        /\ holder = "free" /\ holder' = c
    BY DEF Cache!Lock
  <1> HIDE DEF x
  <1>3. \A o \in Callers \ {c} : holder' = o <=> call[o].pc \in {"free", "store"}
    BY <1>2 DEF CacheInv, Cache!TypeOK, Cache!CacheAssumption
  <1> QED BY <1>1, <1>2, <1>3, QuietStep

\* The loop of freeSpace ends when there is room.
LEMMA SpaceFreedStep ==
  ASSUME Cache!CacheAssumption, CacheInv, NEW c \in Callers, Cache!SpaceFreed(c)
  PROVE  CacheInv'
  <1> DEFINE x == [call[c] EXCEPT !.pc = "store"]
  <1>1. x \in Calls /\ x.pc = "store" /\ ~Cache!hasSpace(x.entry.size)
    BY CallKinds DEF Cache!SpaceFreed, Calls
  <1>2. /\ call' = [call EXCEPT ![c] = x] /\ UNCHANGED <<now, data, totalSize, holder>>
        /\ call[c].pc = "free"
    BY DEF Cache!SpaceFreed
  <1> HIDE DEF x
  <1>3. /\ holder' = c /\ holder' \in Callers \cup {"free"}
        /\ \A o \in Callers \ {c} : holder' = o <=> call[o].pc \in {"free", "store"}
    BY <1>2 DEF CacheInv, Cache!TypeOK
  <1> QED BY <1>1, <1>2, <1>3, QuietStep

\* An entry that does not fit into an empty cache is larger than the limit.
LEMMA NoSpaceStep ==
  ASSUME Cache!CacheAssumption, CacheInv, NEW c \in Callers, Cache!NoSpace(c)
  PROVE  CacheInv'
  <1> DEFINE r == [op |-> "set", ok |-> FALSE, size |-> call[c].entry.size]
             x == [pc |-> "done", reply |-> r]
  <1>1. call[c].entry.size \in Sizes /\ call[c].entry.size \in Nat
    BY CallKinds DEF Cache!NoSpace, Entries, Cache!CacheAssumption
  <1>2. DOMAIN data = {} /\ Cache!hasSpace(call[c].entry.size)
    BY DEF CacheInv, MadeRoom, Cache!NoSpace
  <1>3. totalSize = 0
    BY <1>2, TotalIsSum, SumEmpty
  <1>4. r \in Replies
    <2>1. call[c].entry.size > SizeLimit
      BY <1>1, <1>2, <1>3 DEF Cache!hasSpace, Cache!CacheAssumption
    <2>2. r.op = "set" /\ r.ok = FALSE /\ r.size > SizeLimit
      BY <2>1
    <2>3. r \in [op : {"set"}, ok : BOOLEAN, size : Sizes]
      BY <1>1
    <2> QED BY <2>2, <2>3 DEF Replies
  <1>5. x \in Calls /\ x.pc = "done"
    BY <1>4, ReplyIsCall
  <1>6. /\ call' = [call EXCEPT ![c] = x] /\ UNCHANGED <<now, data, totalSize>>
        /\ call[c].pc = "store" /\ holder' = "free"
    BY DEF Cache!NoSpace, Cache!Returns
  <1> HIDE DEF x
  <1>7. \A o \in Callers \ {c} : holder' = o <=> call[o].pc \in {"free", "store"}
    BY <1>6 DEF CacheInv, Cache!TypeOK, Cache!CacheAssumption
  <1>8. holder' # c
    BY <1>6 DEF Cache!CacheAssumption
  <1> QED BY <1>5, <1>6, <1>7, <1>8, QuietStep

\* The next call starts anew.
LEMMA AgainStep ==
  ASSUME Cache!CacheAssumption, CacheInv, NEW c \in Callers, Cache!Again(c)
  PROVE  CacheInv'
  <1> DEFINE x == Cache!Idle
  <1>1. x \in Calls /\ x.pc = "idle"
    BY DEF Calls, Cache!Idle
  <1>2. /\ call' = [call EXCEPT ![c] = x] /\ UNCHANGED <<now, data, totalSize, holder>>
        /\ call[c].pc = "done"
    BY DEF Cache!Again
  <1> HIDE DEF x
  <1>3. /\ holder' \in Callers \cup {"free"}
        /\ \A o \in Callers \ {c} : holder' = o <=> call[o].pc \in {"free", "store"}
        /\ holder' # c
    BY <1>2 DEF CacheInv, Cache!TypeOK
  <1> QED BY <1>1, <1>2, <1>3, QuietStep

\* A round of freeSpace: what goes is taken off the total, and a round that
\* leaves no room leaves nothing.
LEMMA FreeSpaceStep ==
  ASSUME Cache!CacheAssumption, CacheInv, NEW c \in Callers, Cache!FreeSpace(c)
  PROVE  CacheInv'
  <1> DEFINE expired == {k \in DOMAIN data : Cache!Expired(data[k])}
             kept    == DOMAIN data \ expired
             enough  == ~(totalSize - Cache!SizeOf(expired) + call[c].entry.size > SizeLimit)
  <1>1. call[c].pc = "free" /\ now' = now /\ holder' = holder
    BY DEF Cache!FreeSpace
  <1>2. holder = c /\ \A o \in Callers \ {c} : call[o].pc \notin {"free", "store"}
    BY <1>1 DEF CacheInv, Cache!TypeOK
  <1>3. ASSUME NEW A \in SUBSET DOMAIN data,
               data' = Cache!Without(data, A), totalSize' = totalSize - Cache!SizeOf(A),
               NEW p \in {"free", "store"}, call' = [call EXCEPT ![c].pc = p],
               p = "store" => A = DOMAIN data
        PROVE  CacheInv'
    <2>1. totalSize' = totalSize - Sum(data, A)
      BY <1>3, SizeOfIsSum
    <2>2. /\ DOMAIN data' = DOMAIN data \ A
          /\ IsFiniteSet(DOMAIN data') /\ data' \in [DOMAIN data' -> Entries']
          /\ \A k \in DOMAIN data' : data'[k] = data[k]
          /\ Cache!TotalSizeExact' /\ totalSize' \in Nat
      BY <1>1, <1>3, <2>1, Evicted
    <2> DEFINE x == [call[c] EXCEPT !.pc = p]
    <2>3. x \in Calls /\ x.pc = p
      BY <1>1, CallKinds DEF Calls
    <2>4. call' = [call EXCEPT ![c] = x]
      BY <1>3
    <2> HIDE DEF x
    <2>5. /\ call' \in [Callers -> Calls']
          /\ \A o \in Callers : holder' = o <=> call'[o].pc \in {"free", "store"}
          /\ call'[c] = x /\ \A o \in Callers \ {c} : call'[o] = call[o]
      BY <1>1, <1>3, <2>3, <2>4, OneCall
    <2>6. MadeRoom'
      <3>1. \A o \in Callers : call'[o].pc = "store" => DOMAIN data' = {}
        BY <1>2, <1>3, <2>2, <2>3, <2>5
      <3> QED BY <3>1 DEF MadeRoom
    <2>7. Cache!TypeOK'
      BY <1>1, <2>2, <2>5 DEF CacheInv, Cache!TypeOK
    <2> QED BY <2>2, <2>5, <2>6, <2>7 DEF CacheInv, CacheShapes
  <1>4. CASE /\ enough \/ kept = {}
             /\ data' = Cache!Without(data, expired)
             /\ totalSize' = totalSize - Cache!SizeOf(expired)
             /\ call' = [call EXCEPT ![c].pc = IF enough THEN "free" ELSE "store"]
    <2>1. expired \in SUBSET DOMAIN data /\ (kept = {} => expired = DOMAIN data)
      OBVIOUS
    <2> DEFINE p == IF enough THEN "free" ELSE "store"
    <2>2. p \in {"free", "store"} /\ (p = "store" => ~enough) /\ call' = [call EXCEPT ![c].pc = p]
      BY <1>4
    <2>3. (enough \/ kept = {}) /\ data' = Cache!Without(data, expired)
          /\ totalSize' = totalSize - Cache!SizeOf(expired)
      BY <1>4
    <2> HIDE DEF p, enough, kept, expired
    <2> QED BY <1>3, <2>1, <2>2, <2>3
  <1>5. CASE /\ ~enough
             /\ \E k \in Cache!Oldest(kept) :
                  /\ data' = Cache!Without(data, expired \cup {k})
                  /\ totalSize' = totalSize - Cache!SizeOf(expired \cup {k})
             /\ UNCHANGED call
    <2>1. PICK k \in Cache!Oldest(kept) :
            /\ data' = Cache!Without(data, expired \cup {k})
            /\ totalSize' = totalSize - Cache!SizeOf(expired \cup {k})
      BY <1>5
    <2>2. expired \cup {k} \in SUBSET DOMAIN data
      BY DEF Cache!Oldest
    <2>3. call' = [call EXCEPT ![c].pc = "free"]
      BY <1>1, <1>5, CallKinds DEF CacheInv, CacheShapes
    <2> HIDE DEF expired, kept, enough
    <2> QED BY <1>3, <2>1, <2>2, <2>3
  <1>6. \/ /\ enough \/ kept = {}
           /\ data' = Cache!Without(data, expired)
           /\ totalSize' = totalSize - Cache!SizeOf(expired)
           /\ call' = [call EXCEPT ![c].pc = IF enough THEN "free" ELSE "store"]
        \/ /\ ~enough
           /\ \E k \in Cache!Oldest(kept) :
                /\ data' = Cache!Without(data, expired \cup {k})
                /\ totalSize' = totalSize - Cache!SizeOf(expired \cup {k})
           /\ UNCHANGED call
    BY DEF Cache!FreeSpace
  <1> QED BY <1>4, <1>5, <1>6

\* The entry takes the place of the one with the same key, in the total too,
\* and there was room for it.
LEMMA StoreStep ==
  ASSUME Cache!CacheAssumption, CacheInv, NEW c \in Callers, Cache!Store(c)
  PROVE  CacheInv'
  <1> DEFINE key == call[c].key
             e   == call[c].entry
             old == {key} \cap DOMAIN data
             r   == [op |-> "set", ok |-> TRUE, size |-> e.size]
             x   == [pc |-> "done", reply |-> r]
  <1>1. /\ call[c].pc = "store" /\ ~Cache!hasSpace(e.size) /\ now' = now /\ holder' = "free"
        /\ data' = [k \in DOMAIN data \cup {key} |-> IF k = key THEN e ELSE data[k]]
        /\ totalSize' = totalSize - Sum(data, old) + e.size
        /\ call' = [call EXCEPT ![c] = x]
    BY SizeOfIsSum DEF Cache!Store, Cache!Returns
  <1>2. key \in Keys /\ e \in Entries /\ e.createdOn = e.lastAccessedOn /\ e.size \in Sizes
    BY <1>1, CallKinds DEF Entries
  <1>3. e.size \in Nat /\ r \in Replies /\ x \in Calls /\ x.pc = "done"
    <2>1. r \in Replies
      BY <1>2 DEF Replies
    <2> QED BY <1>2, <2>1, ReplyIsCall DEF Cache!CacheAssumption
  <1> HIDE DEF key, e, x
  <1>4. /\ DOMAIN data' = DOMAIN data \cup {key} /\ data'[key] = e
        /\ \A k \in DOMAIN data' \ {key} : k \in DOMAIN data /\ data'[k] = data[k]
    BY <1>1
  <1>5. IsFiniteSet(DOMAIN data) /\ IsFiniteSet(DOMAIN data')
    BY <1>4, FS_AddElement DEF CacheInv, CacheShapes
  <1>6. data' \in [DOMAIN data' -> Entries']
    BY <1>1, <1>2 DEF CacheInv, CacheShapes, Entries
  <1>7. \A k \in DOMAIN data' : data'[k].size \in Nat
    BY <1>3, <1>4, TotalIsSum
  <1>8. totalSize' = Sum(data', DOMAIN data')
    <2>1. Sum(data', DOMAIN data') = e.size + Sum(data', DOMAIN data' \ {key})
      BY <1>4, <1>5, <1>7, SumWithout
    <2>2. DOMAIN data' \ {key} = DOMAIN data \ old /\ IsFiniteSet(DOMAIN data \ old)
      BY <1>4, <1>5, FS_Subset
    <2>3. Sum(data', DOMAIN data' \ {key}) = Sum(data, DOMAIN data \ old)
      BY <1>4, <2>2, SumAgrees
    <2>4. Sum(data, DOMAIN data \ old) = totalSize - Sum(data, old)
      BY <1>5, TotalIsSum, SumParts
    <2>5. Sum(data, old) \in Nat /\ totalSize \in Nat
      <3>1. IsFiniteSet(old) /\ \A k \in old : data[k].size \in Nat
        BY <1>5, FS_Subset, TotalIsSum
      <3> QED BY <3>1, SumIsNat DEF CacheInv, Cache!TypeOK
    <2> HIDE DEF old
    <2> QED BY <1>1, <1>3, <2>1, <2>3, <2>4, <2>5
  <1>9. totalSize' \in Nat
    BY <1>5, <1>7, <1>8, SumIsNat
  <1>10. SizeLimit > 0 => totalSize' <= SizeLimit
    <2>1. IsFiniteSet(old) /\ \A k \in old : data[k].size \in Nat
      BY <1>5, FS_Subset, TotalIsSum
    <2>2. Sum(data, old) \in Nat /\ totalSize \in Nat
      BY <2>1, SumIsNat DEF CacheInv, Cache!TypeOK
    <2> HIDE DEF old
    <2> QED BY <1>1, <1>3, <2>2 DEF Cache!hasSpace, Cache!CacheAssumption
  <1>11. Cache!TotalSizeExact'
    BY <1>8, <1>10, SizeOfIsSumNext DEF Cache!TotalSizeExact
  <1>12. /\ call'[c] = x /\ \A o \in Callers \ {c} : call'[o] = call[o]
         /\ call' \in [Callers -> Calls']
    BY <1>1, <1>3 DEF CacheInv, CacheShapes, Calls, Entries
  <1>13. \A o \in Callers : call'[o].pc \notin {"free", "store"}
    BY <1>1, <1>3, <1>12 DEF CacheInv, Cache!TypeOK
  <1>14. Cache!TypeOK'
    <2>1. \A k \in DOMAIN data' : /\ data'[k].createdOn \in 0 .. now
                                  /\ data'[k].lastAccessedOn \in data'[k].createdOn .. now
                                  /\ data'[k].size \in Sizes
      BY <1>2, <1>4 DEF CacheInv, Cache!TypeOK, Entries
    <2> QED BY <1>1, <1>2, <1>4, <1>9, <1>13, <2>1 DEF CacheInv, Cache!TypeOK, Cache!CacheAssumption
  <1>15. MadeRoom'
    BY <1>13 DEF MadeRoom
  <1> QED BY <1>5, <1>6, <1>11, <1>12, <1>14, <1>15 DEF CacheInv, CacheShapes

\* Time passes: entries become older, and stay entries.
LEMMA ClockStep ==
  ASSUME Cache!CacheAssumption, CacheInv, Cache!Tick
  PROVE  CacheInv'
  <1>1. /\ now \in 0 .. MaxTime /\ now' = now + 1 /\ now' <= MaxTime
        /\ UNCHANGED <<data, totalSize, holder, call>>
    BY DEF Cache!Tick, CacheInv, Cache!TypeOK, Cache!CacheAssumption
  <1>2. Entries \subseteq Entries'
    BY <1>1 DEF Entries, Cache!CacheAssumption
  <1>3. Calls \subseteq Calls'
    BY <1>2 DEF Calls
  <1>4. CacheShapes'
    BY <1>1, <1>2, <1>3 DEF CacheInv, CacheShapes
  <1>5. Cache!TypeOK'
    BY <1>1 DEF CacheInv, Cache!TypeOK, Cache!CacheAssumption
  <1>6. Cache!TotalSizeExact'
    BY <1>1, SameEntries
  <1>7. MadeRoom'
    BY <1>1 DEF CacheInv, MadeRoom, Cache!hasSpace
  <1> QED BY <1>4, <1>5, <1>6, <1>7 DEF CacheInv

\* For any number of callers and keys, any sizes and any limit, the running total
\* of the cache is the sum of its entries and within the limit, no expired entry
\* is returned, and Set fails only for an entry that is larger than the limit
\* (Get, Set, freeSpace of resolved_policy_cache.go).
THEOREM CacheKeepsItsLimit ==
  ASSUME Cache!CacheAssumption
  PROVE  Cache!Spec => [](/\ Cache!TypeOK /\ Cache!TotalSizeExact
                         /\ Cache!NeverExpired /\ Cache!FailsOnlyWhenTooLarge)
  <1>1. Cache!Init => CacheInv
    BY CacheInitial
  <1>2. CacheInv /\ [Cache!Next]_Cache!vars => CacheInv'
    <2> SUFFICES ASSUME CacheInv, [Cache!Next]_Cache!vars
                 PROVE  CacheInv'
      OBVIOUS
    <2>1. ASSUME NEW c \in Callers, NEW key \in Keys, Cache!Get(c, key)
          PROVE  CacheInv'
      BY <2>1, GetStep
    <2>2. ASSUME NEW c \in Callers, NEW key \in Keys, NEW size \in Sizes, Cache!Set(c, key, size)
          PROVE  CacheInv'
      BY <2>2, SetStep
    <2>3. ASSUME NEW c \in Callers, Cache!Locked(c)
          PROVE  CacheInv'
      BY <2>3, LockStep, FreeSpaceStep, SpaceFreedStep, StoreStep, NoSpaceStep DEF Cache!Locked
    <2>4. ASSUME NEW c \in Callers, Cache!Again(c)
          PROVE  CacheInv'
      BY <2>4, AgainStep
    <2>5. CASE Cache!Tick
      BY <2>5, ClockStep
    <2>6. CASE UNCHANGED Cache!vars
      <3>1. UNCHANGED <<now, data, totalSize, holder, call>>
        BY <2>6 DEF Cache!vars
      <3>2. CacheShapes' /\ Cache!TypeOK' /\ MadeRoom'
        BY <3>1 DEF CacheInv, CacheShapes, Cache!TypeOK, MadeRoom, Cache!hasSpace, Calls, Entries
      <3> QED BY <3>1, <3>2, SameEntries DEF CacheInv
    <2> QED BY <2>1, <2>2, <2>3, <2>4, <2>5, <2>6 DEF Cache!Next
  <1>3. CacheInv => Cache!NeverExpired /\ Cache!FailsOnlyWhenTooLarge
    <2> SUFFICES ASSUME CacheInv, NEW c \in Callers, call[c].pc = "done"
                 PROVE  LET r == call[c].reply
                        IN  /\ r.op = "get" /\ r.ok => r.age <= TTL
                            /\ r.op = "set" /\ ~r.ok => r.size > SizeLimit
      BY DEF Cache!NeverExpired, Cache!FailsOnlyWhenTooLarge
    <2>1. call[c].reply \in Replies
      <3>1. call[c] \in Calls
        BY DEF CacheInv, CacheShapes
      <3> QED BY <3>1 DEF Calls, Cache!Idle
    <2> DEFINE r == call[c].reply
    <2>2. r.op = "get" /\ r.ok => r.age \in 0 .. TTL
      BY <2>1 DEF Replies
    <2>3. r.op = "set" /\ ~r.ok => r.size > SizeLimit
      BY <2>1 DEF Replies
    <2> HIDE DEF r
    <2>4. r.op = "get" /\ r.ok => r.age <= TTL
      BY <2>2 DEF Cache!CacheAssumption
    <2> QED BY <2>3, <2>4 DEF r
  <1>4. CacheInv => Cache!TypeOK /\ Cache!TotalSizeExact
    BY DEF CacheInv
  <1> QED BY <1>1, <1>2, <1>3, <1>4, PTL DEF Cache!Spec

-----------------------------------------------------------------------------
(* Risk scores *)

\* the risk factors that are named with a score
Flags == [mrn : Nat, detected : BOOLEAN]
Lists == Seq(Flags)
Scores == [value : Values, riskScore : 0 .. 100, factors : Lists]

\* A toxic risk factor that was detected is among those of the score.
Poisoned ==
  \E r \in detected : r.toxic /\ \E i \in DOMAIN score.factors : score.factors[i].mrn = r.mrn

\* The inductive invariant of the risk scores.
RiskInv ==
  /\ scored \subseteq RiskFactors /\ detected \subseteq scored
  /\ assetRisks \subseteq scored /\ risks \subseteq scored
  /\ score \in Scores
  /\ pc \in {"index", "merge", "done"}
  /\ pc = "index" => score.factors = << >>
  /\ pc = "merge" => score.value # 100
  /\ pc # "index" =>
       /\ score.value = 100 => score.riskScore = 100 /\ score.factors = << >>
       /\ score.riskScore < score.value => Poisoned

\* A distance from 100 that is scaled down stays one, and does not grow.
LEMMA Scaled ==
  ASSUME NEW s \in 0 .. 100, NEW e \in 0 .. 8
  PROVE  Adjust!Relative(s, e) \in s .. 100
  <1>1. CASE e = 0 BY <1>1 DEF Adjust!Relative
  <1>2. CASE e = 1 BY <1>2 DEF Adjust!Relative
  <1>3. CASE e = 2 BY <1>3 DEF Adjust!Relative
  <1>4. CASE e = 3 BY <1>4 DEF Adjust!Relative
  <1>5. CASE e = 4 BY <1>5 DEF Adjust!Relative
  <1>6. CASE e = 5 BY <1>6 DEF Adjust!Relative
  <1>7. CASE e = 6 BY <1>7 DEF Adjust!Relative
  <1>8. CASE e = 7 BY <1>8 DEF Adjust!Relative
  <1>9. CASE e = 8 BY <1>9 DEF Adjust!Relative
  <1> QED BY <1>1, <1>2, <1>3, <1>4, <1>5, <1>6, <1>7, <1>8, <1>9

\* the score s with another value and one more risk factor
WithFlag(s, n, f) == [value |-> s.value, riskScore |-> n, factors |-> Append(s.factors, f)]

\* the score t has every risk factor of s, in its place
KeepsFactors(s, t) ==
  \A i \in DOMAIN s.factors : i \in DOMAIN t.factors /\ t.factors[i] = s.factors[i]

\* the score t has the risk factor f
HasFactor(t, f) == \E i \in DOMAIN t.factors : t.factors[i] = f

\* Such a score has what s had, and the risk factor.
LEMMA FlaggedScore ==
  ASSUME NEW s, s \in Scores, NEW n, n \in 0 .. 100, NEW f, f \in Flags
  PROVE  /\ WithFlag(s, n, f) \in Scores
         /\ KeepsFactors(s, WithFlag(s, n, f))
         /\ HasFactor(WithFlag(s, n, f), f)
  <1> DEFINE t == WithFlag(s, n, f)
  <1>2. s.factors \in Seq(Flags)
    BY DEF Scores, Lists
  <1>5. Append(s.factors, f) \in Lists
    BY <1>2 DEF Lists
  <1>1. t \in Scores /\ t.value = s.value /\ t.riskScore = n /\ t.factors = Append(s.factors, f)
    BY <1>5 DEF Scores, WithFlag
  <1>3. /\ DOMAIN t.factors = 1 .. (Len(s.factors) + 1) /\ DOMAIN s.factors = 1 .. Len(s.factors)
        /\ Len(s.factors) \in Nat
        /\ t.factors[Len(s.factors) + 1] = f
        /\ \A i \in 1 .. Len(s.factors) : t.factors[i] = s.factors[i]
    BY <1>1, <1>2
  <1>4. Len(s.factors) + 1 \in DOMAIN t.factors /\ \A i \in DOMAIN s.factors : i \in DOMAIN t.factors
    BY <1>3
  <1> HIDE DEF t
  <1>6. KeepsFactors(s, t)
    BY <1>3, <1>4 DEF KeepsFactors
  <1>7. HasFactor(t, f)
    BY <1>3, <1>4 DEF HasFactor
  <1> QED BY <1>1, <1>6, <1>7 DEF t

\* Values and risk scores are scores.
LEMMA ScoreTypes ==
  ASSUME Adjust!RiskAssumption, NEW s \in Scores
  PROVE  s.value \in 0 .. 100 /\ s.riskScore \in 0 .. 100 /\ s.value \in Int /\ s.riskScore \in Int
  <1>1. s.value \in Values /\ s.riskScore \in 0 .. 100
    BY DEF Scores
  <1>2. Values \subseteq 0 .. 100
    BY DEF Adjust!RiskAssumption
  <1>3. s.value \in 0 .. 100
    BY <1>1, <1>2
  <1>4. \A n \in 0 .. 100 : n \in Int
    OBVIOUS
  <1> QED BY <1>1, <1>3, <1>4

\* One risk factor keeps the score in its range, lowers it only when it is
\* toxic and detected, and then is named.
LEMMA OneFactor ==
  ASSUME Adjust!RiskAssumption, NEW s \in Scores, NEW r \in RiskFactors
  PROVE  LET t == Adjust!AdjustedBy(s, r)
         IN  /\ t \in Scores /\ t.value = s.value
             /\ \A i \in DOMAIN s.factors : i \in DOMAIN t.factors /\ t.factors[i] = s.factors[i]
             /\ \/ t.riskScore >= s.riskScore
                \/ r \in detected /\ r.toxic /\ \E i \in DOMAIN t.factors : t.factors[i].mrn = r.mrn
  <1> DEFINE f == Adjust!Flagged(r, r \in detected)
             flag(n) == WithFlag(s, n, f)
             t == Adjust!AdjustedBy(s, r)
             P == /\ t \in Scores /\ t.value = s.value
                  /\ \A i \in DOMAIN s.factors : i \in DOMAIN t.factors /\ t.factors[i] = s.factors[i]
                  /\ \/ t.riskScore >= s.riskScore
                     \/ r \in detected /\ r.toxic /\ \E i \in DOMAIN t.factors : t.factors[i].mrn = r.mrn
  <1> SUFFICES P
    OBVIOUS
  <1>1. /\ r.mrn \in Nat /\ r.magnitude \in -8 .. 8 /\ r.toxic \in BOOLEAN
        /\ f \in Flags /\ f.mrn = r.mrn
    BY DEF Adjust!RiskAssumption, Adjust!Flagged, Flags
  <1>2. s.riskScore \in 0 .. 100 /\ s.riskScore >= s.riskScore /\ s.value = s.value
    BY DEF Scores
  <1>3. t = IF r.toxic
              THEN IF r \in detected THEN flag(Adjust!Clamp(s.riskScore - Adjust!Points(r.magnitude))) ELSE s
            ELSE IF r.magnitude < 0
              THEN IF r \in detected THEN flag(Adjust!Relative(s.riskScore, 8 + r.magnitude)) ELSE s
            ELSE IF r \in detected THEN flag(s.riskScore)
              ELSE flag(Adjust!Relative(s.riskScore, 8 - r.magnitude))
    BY DEF Adjust!AdjustedBy, WithFlag
  <1> HIDE DEF t, f
  <1>4. ASSUME NEW n \in 0 .. 100, t = flag(n), n >= s.riskScore \/ (r \in detected /\ r.toxic)
        PROVE  P
    <2>1. /\ t \in Scores /\ t.value = s.value /\ t.riskScore = n
          /\ \A i \in DOMAIN s.factors : i \in DOMAIN t.factors /\ t.factors[i] = s.factors[i]
          /\ \E i \in DOMAIN t.factors : t.factors[i] = f
      <3>1. t = WithFlag(s, n, f) /\ f \in Flags /\ s \in Scores /\ n \in 0 .. 100
        BY <1>1, <1>4
      <3> HIDE DEF P
      <3>2. WithFlag(s, n, f) \in Scores
        BY <3>1, FlaggedScore
      <3>3. WithFlag(s, n, f).value = s.value /\ WithFlag(s, n, f).riskScore = n
        BY DEF WithFlag
      <3>4. KeepsFactors(s, t) /\ HasFactor(t, f)
        BY <3>1, FlaggedScore
      <3> QED BY <3>1, <3>2, <3>3, <3>4 DEF KeepsFactors, HasFactor
    <2> QED BY <1>1, <1>4, <2>1
  <1>5. CASE t = s
    BY <1>2, <1>5
  <1> HIDE DEF flag, P
  <1>6. Adjust!Clamp(s.riskScore - Adjust!Points(r.magnitude)) \in 0 .. 100
    <2>1. Adjust!Points(r.magnitude) \in Int
      BY <1>1 DEF Adjust!Points
    <2>2. ASSUME NEW n \in Int
          PROVE  Adjust!Clamp(n) \in 0 .. 100
      BY DEF Adjust!Clamp
    <2>3. s.riskScore - Adjust!Points(r.magnitude) \in Int
      BY <1>2, <2>1
    <2> QED BY <2>2, <2>3
  <1>7. CASE r.toxic
    BY <1>3, <1>4, <1>5, <1>6, <1>7
  <1>8. CASE ~r.toxic /\ r.magnitude < 0
    <2>1. 8 + r.magnitude \in 0 .. 8
      BY <1>1, <1>8
    <2>2. Adjust!Relative(s.riskScore, 8 + r.magnitude) \in s.riskScore .. 100
      BY <1>2, <2>1, Scaled
    <2>3. /\ Adjust!Relative(s.riskScore, 8 + r.magnitude) \in 0 .. 100
          /\ Adjust!Relative(s.riskScore, 8 + r.magnitude) >= s.riskScore
      BY <1>2, <2>2
    <2> QED BY <1>3, <1>4, <1>5, <1>8, <2>3
  <1>9. CASE ~r.toxic /\ ~(r.magnitude < 0)
    <2>1. 8 - r.magnitude \in 0 .. 8
      BY <1>1, <1>9
    <2>2. Adjust!Relative(s.riskScore, 8 - r.magnitude) \in s.riskScore .. 100
      BY <1>2, <2>1, Scaled
    <2>3. /\ Adjust!Relative(s.riskScore, 8 - r.magnitude) \in 0 .. 100
          /\ Adjust!Relative(s.riskScore, 8 - r.magnitude) >= s.riskScore
      BY <1>2, <2>2
    <2> QED BY <1>2, <1>3, <1>4, <1>9, <2>3
  <1> QED BY <1>1, <1>7, <1>8, <1>9

\* Risk scores stay scores, and only a toxic risk factor that was detected makes
\* a check look riskier than its value, for any table of risk factors
\* (AdjustRiskScore).
THEOREM RiskScoresStayScores ==
  ASSUME Adjust!RiskAssumption
  PROVE  Adjust!Spec => [](Adjust!RiskScoreInRange /\ Adjust!OnlyToxicLowers)
  <1>1. Adjust!Init => RiskInv
    <2> SUFFICES ASSUME Adjust!Init
                 PROVE  RiskInv
      OBVIOUS
    <2>1. score \in Scores /\ score.factors = << >>
      BY DEF Adjust!Init, Scores, Lists
    <2>2. assetRisks \subseteq scored /\ risks \subseteq scored
      BY DEF Adjust!Init, Adjust!AssetScope
    <2> QED BY <2>1, <2>2 DEF Adjust!Init, RiskInv
  <1>2. RiskInv /\ [Adjust!Next]_Adjust!vars => RiskInv'
    <2> SUFFICES ASSUME RiskInv, [Adjust!Next]_Adjust!vars
                 PROVE  RiskInv'
      OBVIOUS
    <2>1. ASSUME NEW name \in Resources, Adjust!Index(name)
          PROVE  RiskInv'
      <3>1. risks' \subseteq scored
        BY <2>1 DEF Adjust!Index, Adjust!ResourceScope, RiskInv
      <3> QED BY <2>1, <3>1 DEF Adjust!Index, Adjust!inputs, RiskInv, Scores, Poisoned
    <2>2. CASE Adjust!StartAdjust
      <3>1. /\ score' = [score EXCEPT !.riskScore = score.value] /\ pc = "index"
            /\ pc' = IF score.value = 100 THEN "done" ELSE "merge"
            /\ UNCHANGED <<scored, detected, assetRisks, risks>>
        BY <2>2 DEF Adjust!StartAdjust, Adjust!inputs
      <3>2. score.value \in 0 .. 100 /\ score.value \in Int
        BY ScoreTypes DEF RiskInv
      <3>3. /\ score' \in Scores /\ score'.value = score.value /\ score'.riskScore = score.value
            /\ score'.factors = << >>
        BY <3>1, <3>2 DEF RiskInv, Scores
      <3>4. /\ score'.value = 100 => score'.riskScore = 100
            /\ ~(score'.riskScore < score'.value)
            /\ pc' \in {"done", "merge"} /\ (pc' = "merge" => score'.value # 100)
        BY <3>1, <3>2, <3>3
      <3> QED BY <3>1, <3>3, <3>4 DEF RiskInv
    <2>3. ASSUME NEW r \in RiskFactors, pc = "merge", score' = Adjust!AdjustedBy(score, r),
                 assetRisks' \subseteq assetRisks, risks' \subseteq risks,
                 UNCHANGED <<scored, detected, pc>>
          PROVE  RiskInv'
      <3>1. /\ score' \in Scores /\ score'.value = score.value
            /\ \A i \in DOMAIN score.factors :
                 i \in DOMAIN score'.factors /\ score'.factors[i] = score.factors[i]
            /\ \/ score'.riskScore >= score.riskScore
               \/ r \in detected /\ r.toxic /\ \E i \in DOMAIN score'.factors : score'.factors[i].mrn = r.mrn
        BY <2>3, OneFactor DEF RiskInv
      <3>2. /\ score.value \in Int /\ score.riskScore \in Int /\ score'.riskScore \in Int
            /\ score.value # 100
        BY <2>3, <3>1, ScoreTypes DEF RiskInv
      <3>3. score'.riskScore < score'.value => Poisoned'
        <4>1. CASE score'.riskScore >= score.riskScore
          BY <2>3, <3>1, <3>2, <4>1 DEF RiskInv, Poisoned
        <4>2. CASE r \in detected /\ r.toxic /\ \E i \in DOMAIN score'.factors : score'.factors[i].mrn = r.mrn
          BY <2>3, <4>2 DEF Poisoned
        <4> QED BY <3>1, <4>1, <4>2
      <3> QED BY <2>3, <3>1, <3>2, <3>3 DEF RiskInv
    <2>4. CASE Adjust!YieldAsset \/ Adjust!YieldResource
      <3>1. PICK r \in assetRisks \cup risks :
              /\ pc = "merge" /\ score' = Adjust!AdjustedBy(score, r)
              /\ assetRisks' \subseteq assetRisks /\ risks' \subseteq risks
              /\ UNCHANGED <<scored, detected, pc>>
        BY <2>4 DEF Adjust!YieldAsset, Adjust!YieldResource, Adjust!First, Adjust!inputs
      <3> QED BY <2>3, <3>1 DEF RiskInv
    <2>5. CASE Adjust!MergeEnds
      BY <2>5 DEF Adjust!MergeEnds, Adjust!inputs, RiskInv, Scores, Poisoned
    <2>6. CASE UNCHANGED Adjust!vars
      BY <2>6 DEF Adjust!vars, RiskInv, Scores, Poisoned
    <2> QED BY <2>1, <2>2, <2>4, <2>5, <2>6 DEF Adjust!Next
  <1>3. RiskInv => Adjust!RiskScoreInRange /\ Adjust!OnlyToxicLowers
    BY DEF RiskInv, Scores, Poisoned, Adjust!RiskScoreInRange, Adjust!OnlyToxicLowers
  <1> QED BY <1>1, <1>2, <1>3, PTL DEF Adjust!Spec

-----------------------------------------------------------------------------
(* The daemon *)

\* After the scan that a timer beat the shutdown to, the goroutine does not
\* come back to its select.
OneLateScan ==
  \/ late = 0
  \/ late = 1 /\ system = "unix" /\ shutdown /\ worker \in {"scan", "loop", "stopped"}

\* What Serve waited for has stopped.
Joined ==
  /\ shutdown <=> main # "serving"
  /\ system = "unix" /\ main \in {"stopping", "waiting", "returned"} => worker = "stopped"
  /\ main = "returned" => pinger \in {"none", "stopped"}

\* The types of the daemon's state.
DaemonTypes ==
  /\ system \in {"unix", "windows"}
  /\ timer \in {"set", "fired", "read"}
  /\ worker \in {"loop", "select", "scan", "stopped"}
  /\ main \in {"serving", "joining", "stopping", "waiting", "returned"}
  /\ startup \in {"running", "done"}
  /\ pinger \in {"none", "select", "checkin", "stopped"}
  /\ request \in BOOLEAN /\ shutdown \in BOOLEAN /\ ticked \in BOOLEAN /\ quit \in BOOLEAN

\* The inductive invariant of the daemon.
DaemonInv == DaemonTypes /\ OneLateScan /\ Joined

\* After a request at most one more scan begins, and nothing is cut off when
\* the daemon ends (Serve, checkinPinger.Stop).
THEOREM DaemonEndsInOrder == Daemon!Spec => []Daemon!OrderlyEnd
  <1>1. Daemon!Init => DaemonInv
    BY DEF Daemon!Init, DaemonInv, DaemonTypes, OneLateScan, Joined
  <1>2. DaemonInv /\ [Daemon!Next]_Daemon!vars => DaemonInv'
    <2> SUFFICES ASSUME DaemonInv, [Daemon!Next]_Daemon!vars
                 PROVE  DaemonInv'
      OBVIOUS
    <2> USE DEF DaemonInv, DaemonTypes, OneLateScan, Joined, Daemon!Alive, Daemon!pingerVars
    <2>1. CASE Daemon!Request
      BY <2>1 DEF Daemon!Request
    <2>11. CASE Daemon!Tick
      BY <2>11 DEF Daemon!Tick
    <2>12. CASE Daemon!StartupEnds
      BY <2>12 DEF Daemon!StartupEnds
    <2>2. CASE Daemon!MainStep
      BY <2>2 DEF Daemon!MainStep, Daemon!StopServing, Daemon!Join, Daemon!StopPinger, Daemon!Return
    <2>3. CASE Daemon!Loop
      BY <2>3 DEF Daemon!Loop
    <2>4. CASE Daemon!TakeTimer
      BY <2>4 DEF Daemon!TakeTimer
    <2>5. CASE Daemon!TakeShutdown
      BY <2>5 DEF Daemon!TakeShutdown
    <2>6. CASE Daemon!ScanEnds
      BY <2>6 DEF Daemon!ScanEnds
    <2>7. CASE Daemon!TimerFires
      BY <2>7 DEF Daemon!TimerFires
    <2>8. CASE Daemon!Hand
      BY <2>8 DEF Daemon!Hand
    <2>9. CASE Daemon!TakeTick
      BY <2>9 DEF Daemon!TakeTick
    <2>14. CASE Daemon!CheckInEnds
      BY <2>14 DEF Daemon!CheckInEnds
    <2>13. CASE Daemon!TakeQuit
      BY <2>13 DEF Daemon!TakeQuit
    <2>10. CASE UNCHANGED Daemon!vars
      BY <2>10 DEF Daemon!vars
    <2> HIDE DEF DaemonInv, DaemonTypes, OneLateScan, Joined, Daemon!Alive, Daemon!pingerVars
    <2> QED BY <2>1, <2>2, <2>3, <2>4, <2>5, <2>6, <2>7, <2>8, <2>9, <2>10, <2>11, <2>12, <2>13, <2>14
            DEF Daemon!Next, Daemon!PingerStep, Daemon!WorkerStep, Daemon!ClockStep
  <1>3. DaemonInv => Daemon!OrderlyEnd
    BY DEF DaemonInv, DaemonTypes, Daemon!TypeOK, OneLateScan, Joined, Daemon!OrderlyEnd
  <1> QED BY <1>1, <1>2, <1>3, PTL DEF Daemon!Spec

-----------------------------------------------------------------------------
(* The list on the terminal *)

\* What the messages that were sent make of the tasks, whatever other messages
\* of the asset were taken in between.
Announced ==
  \A a \in Assets :
    /\ scan[a] \in {"listed", "running"} => a \in DOMAIN state \/ sending[a] = "add"
    /\ scan[a] = "ended" =>
         a \in DOMAIN state /\ (state[a] \in List!Terminal \/ sending[a] \in List!Terminal)
    /\ sending[a] \in List!Terminal =>
         scan[a] = "ended" /\ a \in DOMAIN state /\ state[a] \notin List!Terminal
    /\ a \in DOMAIN state /\ state[a] \in List!Terminal => scan[a] = "ended"

\* The types of the scans, messages and states.
ListShapes ==
  /\ scan \in [Assets -> {"none", "listed", "discovering", "running", "ended"}]
  /\ sending \in [Assets -> {"none", "add", "progress"} \cup List!Terminal]
  /\ DOMAIN state \subseteq Assets
  /\ state \in [DOMAIN state -> List!States]

\* A key is in tasks once, when it has a state.
ListedOnce ==
  /\ tasks \in Seq(Assets)
  /\ \A i, j \in 1 .. Len(tasks) : tasks[i] = tasks[j] => i = j
  /\ \A a \in Assets : a \in DOMAIN state <=> \E i \in 1 .. Len(tasks) : tasks[i] = a

\* The inductive invariant of the list.
ListInv == ListShapes /\ Announced /\ ListedOnce

\* What Update does to the state of the task, in one of four ways.
LEMMA UpdateCases ==
  ASSUME ListInv, NEW a \in Assets, List!Update(a)
  PROVE  /\ sending' = [sending EXCEPT ![a] = "none"] /\ UNCHANGED scan
         /\ \/ /\ sending[a] = "add" /\ a \notin DOMAIN state
               /\ tasks' = Append(tasks, a) /\ state' = List!With(a, "pending")
            \/ /\ sending[a] = "progress" /\ a \in DOMAIN state /\ state[a] = "pending"
               /\ state' = List!With(a, "inProgress") /\ UNCHANGED tasks
            \/ /\ sending[a] \in List!Terminal /\ a \in DOMAIN state
               /\ state' = List!With(a, sending[a]) /\ UNCHANGED tasks
            \/ /\ sending[a] \in List!Terminal => a \notin DOMAIN state
               /\ sending[a] = "add" => a \in DOMAIN state
               /\ UNCHANGED <<tasks, state>>
  BY DEF List!Update, List!Terminal

\* The state with one key set.
LEMMA WithKey ==
  ASSUME ListInv, NEW a \in Assets, NEW s \in List!States, state' = List!With(a, s)
  PROVE  /\ DOMAIN state' = DOMAIN state \cup {a} /\ state'[a] = s
         /\ \A k \in DOMAIN state \ {a} : state'[k] = state[k]
         /\ DOMAIN state' \subseteq Assets /\ state' \in [DOMAIN state' -> List!States]
  BY DEF List!With, ListInv, ListShapes

\* Update keeps the invariant and the outcomes.
LEMMA UpdateStep ==
  ASSUME ListInv, NEW a \in Assets, List!Update(a)
  PROVE  /\ ListInv'
         /\ \A k \in DOMAIN state : state[k] \in List!Terminal => state'[k] = state[k]
  <1>1. /\ sending' = [sending EXCEPT ![a] = "none"] /\ UNCHANGED scan
        /\ sending'[a] = "none" /\ \A o \in Assets \ {a} : sending'[o] = sending[o]
        /\ sending' \in [Assets -> {"none", "add", "progress"} \cup List!Terminal]
    BY UpdateCases DEF ListInv, ListShapes
  <1> DEFINE Kept == \A k \in DOMAIN state : state[k] \in List!Terminal => state'[k] = state[k]
  <1>2. ASSUME NEW s \in List!States, state' = List!With(a, s),
               a \in DOMAIN state => state[a] \notin List!Terminal,
               sending[a] \in List!Terminal <=> s \in List!Terminal,
               s \in List!Terminal => s = sending[a],
               sending[a] = "add" \/ a \in DOMAIN state
        PROVE  ListShapes' /\ Announced' /\ Kept
    <2>1. /\ DOMAIN state' = DOMAIN state \cup {a} /\ state'[a] = s
          /\ \A k \in DOMAIN state \ {a} : state'[k] = state[k]
          /\ DOMAIN state' \subseteq Assets /\ state' \in [DOMAIN state' -> List!States]
      BY <1>2, WithKey
    <2>2. ListShapes'
      BY <1>1, <2>1 DEF ListInv, ListShapes
    <2>3. Announced'
      <3> SUFFICES ASSUME NEW o \in Assets
                   PROVE  /\ scan'[o] \in {"listed", "running"} => o \in DOMAIN state' \/ sending'[o] = "add"
                          /\ scan'[o] = "ended" =>
                               o \in DOMAIN state' /\ (state'[o] \in List!Terminal \/ sending'[o] \in List!Terminal)
                          /\ sending'[o] \in List!Terminal =>
                               scan'[o] = "ended" /\ o \in DOMAIN state' /\ state'[o] \notin List!Terminal
                          /\ o \in DOMAIN state' /\ state'[o] \in List!Terminal => scan'[o] = "ended"
        BY DEF Announced, List!Terminal
      <3>1. CASE o = a
        BY <1>1, <1>2, <2>1, <3>1 DEF ListInv, ListShapes, Announced, List!Terminal
      <3>2. CASE o # a
        BY <1>1, <2>1, <3>2 DEF ListInv, ListShapes, Announced
      <3> QED BY <3>1, <3>2
    <2>4. Kept
      BY <1>2, <2>1
    <2> QED BY <2>2, <2>3, <2>4
  <1>3. \A o \in Assets : sending[o] \in List!Terminal => o \in DOMAIN state /\ state[o] \notin List!Terminal
    BY DEF ListInv, Announced
  <1>4. a \in DOMAIN state /\ state[a] \in List!Terminal => scan[a] = "ended"
    BY DEF ListInv, Announced
  <1>5. CASE /\ sending[a] = "add" /\ a \notin DOMAIN state
             /\ tasks' = Append(tasks, a) /\ state' = List!With(a, "pending")
    <2>1. ListShapes' /\ Announced' /\ Kept
      BY <1>2, <1>5 DEF List!States, List!Terminal
    <2>2. ListedOnce'
      <3>1. DOMAIN state' = DOMAIN state \cup {a}
        BY <1>5, WithKey DEF List!States
      <3>2. /\ tasks' \in Seq(Assets) /\ Len(tasks') = Len(tasks) + 1 /\ Len(tasks) \in Nat
            /\ tasks'[Len(tasks) + 1] = a
            /\ \A i \in 1 .. Len(tasks) : tasks'[i] = tasks[i]
        BY <1>5 DEF ListInv, ListedOnce
      <3>3. \A i \in 1 .. Len(tasks) : tasks[i] # a
        BY <1>5 DEF ListInv, ListedOnce
      <3>4. \A i \in 1 .. Len(tasks') : i \in 1 .. Len(tasks) \/ i = Len(tasks) + 1
        BY <3>2
      <3>5. \A i, j \in 1 .. Len(tasks') : tasks'[i] = tasks'[j] => i = j
        BY <3>2, <3>3, <3>4 DEF ListInv, ListedOnce
      <3>6. ASSUME NEW o \in Assets
            PROVE  o \in DOMAIN state' <=> \E i \in 1 .. Len(tasks') : tasks'[i] = o
        <4>1. 1 .. Len(tasks') = (1 .. Len(tasks)) \cup {Len(tasks) + 1}
          BY <3>2
        <4> QED BY <3>1, <3>2, <4>1 DEF ListInv, ListedOnce
      <3> QED BY <3>2, <3>5, <3>6 DEF ListedOnce
    <2> QED BY <2>1, <2>2 DEF ListInv
  <1>6. CASE /\ sending[a] = "progress" /\ a \in DOMAIN state /\ state[a] = "pending"
             /\ state' = List!With(a, "inProgress") /\ UNCHANGED tasks
    <2>1. ListShapes' /\ Announced' /\ Kept
      BY <1>2, <1>6 DEF List!States, List!Terminal
    <2>2. DOMAIN state' = DOMAIN state
      BY <1>6, WithKey DEF List!States
    <2> QED BY <1>6, <2>1, <2>2 DEF ListInv, ListedOnce
  <1>7. CASE /\ sending[a] \in List!Terminal /\ a \in DOMAIN state
             /\ state' = List!With(a, sending[a]) /\ UNCHANGED tasks
    <2>1. ListShapes' /\ Announced' /\ Kept
      BY <1>2, <1>3, <1>7 DEF List!States
    <2>2. DOMAIN state' = DOMAIN state
      BY <1>7, WithKey DEF List!States
    <2> QED BY <1>7, <2>1, <2>2 DEF ListInv, ListedOnce
  <1>8. CASE /\ sending[a] \in List!Terminal => a \notin DOMAIN state
             /\ sending[a] = "add" => a \in DOMAIN state
             /\ UNCHANGED <<tasks, state>>
    <2>1. ListShapes' /\ ListedOnce' /\ Kept
      BY <1>1, <1>8 DEF ListInv, ListShapes, ListedOnce
    <2>2. sending[a] \notin List!Terminal
      BY <1>3, <1>8
    <2>3. Announced'
      BY <1>1, <1>8, <2>2 DEF ListInv, ListShapes, Announced, List!Terminal
    <2> QED BY <2>1, <2>3 DEF ListInv
  <1>9. \/ /\ sending[a] = "add" /\ a \notin DOMAIN state
           /\ tasks' = Append(tasks, a) /\ state' = List!With(a, "pending")
        \/ /\ sending[a] = "progress" /\ a \in DOMAIN state /\ state[a] = "pending"
           /\ state' = List!With(a, "inProgress") /\ UNCHANGED tasks
        \/ /\ sending[a] \in List!Terminal /\ a \in DOMAIN state
           /\ state' = List!With(a, sending[a]) /\ UNCHANGED tasks
        \/ /\ sending[a] \in List!Terminal => a \notin DOMAIN state
           /\ sending[a] = "add" => a \in DOMAIN state
           /\ UNCHANGED <<tasks, state>>
    BY UpdateCases
  <1> QED BY <1>5, <1>6, <1>7, <1>8, <1>9

\* Sending leaves the list alone.
LEMMA SendStep ==
  ASSUME ListInv, NEW a \in Assets, NEW message \in {"add", "progress"} \cup List!Terminal,
         NEW next \in {"none", "listed", "discovering", "running", "ended"},
         List!Send(a, message, next),
         next \in {"listed", "running"} => a \in DOMAIN state \/ message = "add",
         next = "ended" => a \in DOMAIN state /\ (state[a] \in List!Terminal \/ message \in List!Terminal),
         message \in List!Terminal => next = "ended" /\ a \in DOMAIN state /\ state[a] \notin List!Terminal,
         scan[a] = "ended" => next = "ended"
  PROVE  ListInv' /\ UNCHANGED state
  <1>1. /\ sending' = [sending EXCEPT ![a] = message] /\ scan' = [scan EXCEPT ![a] = next]
        /\ UNCHANGED <<tasks, state>>
    BY DEF List!Send, List!list
  <1>2. /\ sending'[a] = message /\ scan'[a] = next
        /\ \A o \in Assets \ {a} : sending'[o] = sending[o] /\ scan'[o] = scan[o]
        /\ ListShapes'
    BY <1>1 DEF ListInv, ListShapes
  <1>3. Announced'
    <2> SUFFICES ASSUME NEW o \in Assets
                 PROVE  /\ scan'[o] \in {"listed", "running"} => o \in DOMAIN state' \/ sending'[o] = "add"
                        /\ scan'[o] = "ended" =>
                             o \in DOMAIN state' /\ (state'[o] \in List!Terminal \/ sending'[o] \in List!Terminal)
                        /\ sending'[o] \in List!Terminal =>
                             scan'[o] = "ended" /\ o \in DOMAIN state' /\ state'[o] \notin List!Terminal
                        /\ o \in DOMAIN state' /\ state'[o] \in List!Terminal => scan'[o] = "ended"
      BY DEF Announced, List!Terminal
    <2>1. CASE o = a
      BY <1>1, <1>2, <2>1 DEF ListInv, Announced
    <2>2. CASE o # a
      BY <1>1, <1>2, <2>2 DEF ListInv, Announced
    <2> QED BY <2>1, <2>2
  <1>4. ListedOnce'
    BY <1>1 DEF ListInv, ListedOnce
  <1> QED BY <1>1, <1>2, <1>3, <1>4 DEF ListInv

\* Every step of the list keeps its invariant and the outcomes.
LEMMA ListSteps ==
  ASSUME ListInv, [List!Next]_List!vars
  PROVE  /\ ListInv'
         /\ \A k \in DOMAIN state : state[k] \in List!Terminal => state'[k] = state[k]
  <1>1. ASSUME NEW a \in Assets, List!AddTask(a)
        PROVE  ListInv' /\ UNCHANGED state
    <2> DEFINE next == IF scan[a] = "none" THEN "listed" ELSE scan[a]
    <2>1. List!Send(a, "add", next) /\ scan[a] # "discovering" /\ sending[a] = "none"
      BY <1>1 DEF List!AddTask, List!Send
    <2>2. next \in {"none", "listed", "discovering", "running", "ended"}
      BY DEF ListInv, ListShapes
    <2>3. next = "ended" => a \in DOMAIN state /\ state[a] \in List!Terminal
      BY <2>1 DEF ListInv, Announced, List!Terminal
    <2>4. scan[a] = "ended" => next = "ended"
      OBVIOUS
    <2> HIDE DEF next
    <2>5. "add" \notin List!Terminal
      BY DEF List!Terminal
    <2> QED BY <2>1, <2>2, <2>3, <2>4, <2>5, SendStep
  <1>2. ASSUME NEW a \in Assets, List!Start(a) \/ List!OnProgress(a)
        PROVE  ListInv' /\ UNCHANGED state
    <2>1. /\ List!Send(a, "progress", "running") /\ scan[a] \in {"listed", "running"}
          /\ sending[a] = "none"
      BY <1>2 DEF List!Start, List!OnProgress, List!Send
    <2>2. a \in DOMAIN state /\ "progress" \notin List!Terminal
      BY <2>1 DEF ListInv, Announced, List!Terminal
    <2> QED BY <2>1, <2>2, SendStep
  <1>3. ASSUME NEW a \in Assets, List!StartDelayed(a)
        PROVE  ListInv' /\ UNCHANGED state
    <2>1. List!Send(a, "progress", "discovering") /\ scan[a] = "none" /\ "progress" \notin List!Terminal
      BY <1>3 DEF List!StartDelayed, List!Terminal
    <2> QED BY <2>1, SendStep
  <1>4. ASSUME NEW a \in Assets, List!AddTaskDelayed(a)
        PROVE  ListInv' /\ UNCHANGED state
    <2>1. List!Send(a, "add", "running") /\ scan[a] = "discovering" /\ "add" \notin List!Terminal
      BY <1>4 DEF List!AddTaskDelayed, List!Terminal
    <2> QED BY <2>1, SendStep
  <1>5. ASSUME NEW a \in Assets, List!Outcome(a)
        PROVE  ListInv' /\ UNCHANGED state
    <2>1. PICK outcome \in List!Terminal : List!Ends(a, outcome)
      BY <1>5 DEF List!Outcome
    <2>2. List!Send(a, outcome, "ended") /\ scan[a] = "running" /\ sending[a] = "none"
      BY <2>1 DEF List!Ends, List!Send
    <2>3. a \in DOMAIN state /\ state[a] \notin List!Terminal
      BY <2>2 DEF ListInv, Announced
    <2> QED BY <2>2, <2>3, SendStep
  <1>6. ASSUME NEW a \in Assets, List!Update(a)
        PROVE  /\ ListInv'
               /\ \A k \in DOMAIN state : state[k] \in List!Terminal => state'[k] = state[k]
    BY <1>6, UpdateStep
  <1>7. CASE List!View \/ UNCHANGED List!vars
    <2>1. UNCHANGED <<scan, sending, tasks, state>>
      BY <1>7 DEF List!View, List!vars
    <2> QED BY <2>1 DEF ListInv, ListShapes, Announced, ListedOnce
  <1> QED BY <1>1, <1>2, <1>3, <1>4, <1>5, <1>6, <1>7 DEF List!Next

\* Every scan that ended is counted with its outcome, which it keeps, and an
\* asset has one task, for any number of assets and messages in any order
\* (Update).
THEOREM ScansAreCounted ==
  List!Spec => /\ [](/\ List!EveryScanCounted
                     /\ List!IsInjective(tasks) /\ List!ToSet(tasks) = DOMAIN state)
               /\ List!OutcomeStays
  <1>1. List!Init => ListInv
    <2> SUFFICES ASSUME List!Init
                 PROVE  ListInv
      OBVIOUS
    <2>1. DOMAIN state = {} /\ tasks = << >> /\ Len(tasks) = 0
      BY DEF List!Init
    <2>2. ListShapes /\ Announced
      BY <2>1 DEF List!Init, ListShapes, Announced, List!Terminal
    <2>3. ListedOnce
      BY <2>1 DEF ListedOnce
    <2> QED BY <2>2, <2>3 DEF ListInv
  <1>2. ListInv /\ [List!Next]_List!vars => ListInv'
    BY ListSteps
  <1>3. ListInv => List!EveryScanCounted
    BY DEF ListInv, Announced, List!EveryScanCounted, List!Terminal
  <1>5. ListInv => List!IsInjective(tasks) /\ List!ToSet(tasks) = DOMAIN state
    <2> SUFFICES ASSUME ListInv
                 PROVE  List!IsInjective(tasks) /\ List!ToSet(tasks) = DOMAIN state
      OBVIOUS
    <2>1. DOMAIN tasks = 1 .. Len(tasks)
      BY DEF ListInv, ListedOnce
    <2>2. List!IsInjective(tasks)
      BY <2>1 DEF ListInv, ListedOnce, List!IsInjective
    <2>3. List!ToSet(tasks) = DOMAIN state
      <3>1. \A i \in 1 .. Len(tasks) : tasks[i] \in Assets
        BY DEF ListInv, ListedOnce
      <3>2. \A a : a \in List!ToSet(tasks) <=> \E i \in 1 .. Len(tasks) : tasks[i] = a
        BY <2>1 DEF List!ToSet
      <3>3. \A a : a \in DOMAIN state => a \in Assets
        BY DEF ListInv, ListShapes
      <3>4. \A a \in Assets : a \in DOMAIN state <=> \E i \in 1 .. Len(tasks) : tasks[i] = a
        BY DEF ListInv, ListedOnce
      <3>5. ASSUME NEW a
            PROVE  a \in List!ToSet(tasks) <=> a \in DOMAIN state
        BY <3>1, <3>2, <3>3, <3>4
      <3> QED BY <3>5
    <2> QED BY <2>2, <2>3
  <1>4. ListInv /\ [List!Next]_List!vars =>
          [\A k \in DOMAIN state : state[k] \in List!Terminal => state'[k] = state[k]]_List!vars
    BY ListSteps
  <1> QED BY <1>1, <1>2, <1>3, <1>4, <1>5, PTL DEF List!Spec, List!OutcomeStays
=============================================================================
