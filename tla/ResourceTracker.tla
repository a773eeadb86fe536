--------------------------- MODULE ResourceTracker --------------------------
(***************************************************************************)
(* The resource usage of a scan run (policy/scanstats/tracker.go).         *)
(*                                                                         *)
(* A sampler goroutine and the goroutines of the assets (Record) observe   *)
(* the process at the same time.  An observation takes its sample before   *)
(* it locks the tracker, so samples can be applied in another order than   *)
(* they were taken.  The CPU counters only grow; the memory footprint goes *)
(* up and down; a sample may lack the CPU counters.                        *)
(***************************************************************************)
EXTENDS Integers, FiniteSets

CONSTANTS
  Assets,     \* the assets whose goroutines call Record
  MaxCPU,     \* bound: CPU-seconds the process can use
  MaxBytes    \* bound: the runtime footprint

TrackerAssumption == MaxCPU \in Nat /\ MaxBytes \in Nat /\ "sampler" \notin Assets

Observers == Assets \cup {"sampler"}

VARIABLES
  cpu, bytes,      \* the process: CPU-seconds used, footprint
  tracker,         \* the fields of ResourceTracker
  pc,              \* observer -> where it is
  sample,          \* observer -> the sample it has taken
  recorded,        \* asset -> what Record wrote
  stop,            \* whether the stop channel is closed
  stopped,         \* whether Stop has returned
  first,           \* history: the first CPU reading that was applied, -1 before
  newest, largest  \* history: the largest CPU reading and the largest footprint applied

history == <<first, newest, largest>>
vars == <<cpu, bytes, tracker, pc, sample, recorded, stop, stopped, history>>
process == <<cpu, bytes>>

NoSample == [taken |-> FALSE]
Nothing  == [written |-> FALSE]

\* NewResourceTracker
New == [peak |-> 0, last |-> 0, hasSample |-> FALSE, baseline |-> 0, lastCPU |-> 0, hasCPU |-> FALSE]

Init ==
  /\ cpu = 0 /\ bytes \in 0 .. MaxBytes
  /\ tracker = New
  /\ pc = [o \in Observers |-> IF o = "sampler" THEN "start" ELSE "scan"]
  /\ sample = [o \in Observers |-> NoSample]
  /\ recorded = [a \in Assets |-> Nothing]
  /\ stop = FALSE /\ stopped = FALSE
  /\ first = -1 /\ newest = 0 /\ largest = 0

Started == pc["sampler"] # "start"

\* cfg.Sample
Sample(valid) == [taken |-> TRUE, bytes |-> bytes, cpu |-> cpu, valid |-> valid]

\* Faulty variant: the first sample is not the baseline
FoldNoBaseline(t, s) ==
  [peak |-> IF s.bytes > t.peak THEN s.bytes ELSE t.peak, last |-> s.bytes,
   hasSample |-> t.hasSample \/ s.bytes > 0,
   baseline |-> t.baseline, lastCPU |-> IF s.valid THEN s.cpu ELSE t.lastCPU, hasCPU |-> t.hasCPU \/ s.valid]

\* Faulty variant: the last footprint counts as the peak
FoldLast(t, s) ==
  [peak |-> s.bytes, last |-> s.bytes, hasSample |-> t.hasSample \/ s.bytes > 0,
   baseline |-> IF s.valid /\ ~t.hasCPU THEN s.cpu ELSE t.baseline,
   lastCPU |-> IF s.valid THEN s.cpu ELSE t.lastCPU, hasCPU |-> t.hasCPU \/ s.valid]

\* Observe under the lock
Fold(t, s) ==
  [peak |-> IF s.bytes > t.peak THEN s.bytes ELSE t.peak, last |-> s.bytes,
   hasSample |-> t.hasSample \/ s.bytes > 0,
   baseline |-> IF s.valid /\ ~t.hasCPU THEN s.cpu ELSE t.baseline,
   lastCPU |-> IF s.valid THEN s.cpu ELSE t.lastCPU, hasCPU |-> t.hasCPU \/ s.valid]

Observed(s) ==
  /\ tracker' = Fold(tracker, s)
  /\ first' = IF s.valid /\ first = -1 THEN s.cpu ELSE first
  /\ newest' = IF s.valid /\ s.cpu > newest THEN s.cpu ELSE newest
  /\ largest' = IF s.bytes > largest THEN s.bytes ELSE largest

\* the process works
Work ==
  /\ cpu' \in cpu .. MaxCPU
  /\ bytes' \in 0 .. MaxBytes
  /\ UNCHANGED <<tracker, pc, sample, recorded, stop, stopped, history>>

\* Start observes once and starts the sampler
Start(valid) ==
  /\ pc["sampler"] = "start"
  /\ Observed(Sample(valid))
  /\ pc' = [pc EXCEPT !["sampler"] = "idle"]
  /\ UNCHANGED <<process, sample, recorded, stop, stopped>>

\* the ticker fires: the sampler takes a sample; with the stop channel closed
\* as well the select picks either
Tick(valid) ==
  /\ pc["sampler"] = "idle"
  /\ sample' = [sample EXCEPT !["sampler"] = Sample(valid)]
  /\ pc' = [pc EXCEPT !["sampler"] = "lock"]
  /\ UNCHANGED <<process, tracker, recorded, stop, stopped, history>>

\* the sampler applies it
TickApply ==
  /\ pc["sampler"] = "lock"
  /\ Observed(sample["sampler"])
  /\ pc' = [pc EXCEPT !["sampler"] = "idle"]
  /\ UNCHANGED <<process, sample, recorded, stop, stopped>>

\* the sampler sees the stop channel
SamplerEnds ==
  /\ pc["sampler"] = "idle"
  /\ stop
  /\ pc' = [pc EXCEPT !["sampler"] = "ended"]
  /\ UNCHANGED <<process, tracker, sample, recorded, stop, stopped, history>>

\* Record observes: the sample is taken
Record(a, valid) ==
  /\ Started
  /\ pc[a] = "scan"
  /\ sample' = [sample EXCEPT ![a] = Sample(valid)]
  /\ pc' = [pc EXCEPT ![a] = "lock"]
  /\ UNCHANGED <<process, tracker, recorded, stop, stopped, history>>

\* Faulty variant: Record reads what the last tick left
RecordApplySkipped(a) ==
  /\ pc[a] = "lock"
  /\ pc' = [pc EXCEPT ![a] = "read"]
  /\ UNCHANGED <<process, tracker, sample, recorded, stop, stopped, history>>

\* and applied
RecordApply(a) ==
  /\ pc[a] = "lock"
  /\ Observed(sample[a])
  /\ pc' = [pc EXCEPT ![a] = "read"]
  /\ UNCHANGED <<process, sample, recorded, stop, stopped>>

\* Faulty variant: the difference is not checked
cpuUsageRaw(t) == t.lastCPU - t.baseline

\* cpuUsageLocked
cpuUsage(t) == IF t.lastCPU > t.baseline THEN t.lastCPU - t.baseline ELSE 0

\* Record reads the fields and writes what was measured
RecordWrite(a) ==
  /\ pc[a] = "read"
  /\ recorded' = [recorded EXCEPT ![a] =
       [written |-> TRUE, hasMem |-> tracker.hasSample, peak |-> tracker.peak, last |-> tracker.last,
        hasCPU |-> tracker.hasCPU, busy |-> cpuUsage(tracker)]]
  /\ pc' = [pc EXCEPT ![a] = "done"]
  /\ UNCHANGED <<process, tracker, sample, stop, stopped, history>>

\* Stop closes the channel, once
Stop ==
  /\ Started
  /\ stop' = TRUE
  /\ UNCHANGED <<process, tracker, pc, sample, recorded, stopped, history>>

\* Faulty variant: Stop does not wait for the sampler
StopReturnsAtOnce ==
  /\ stop
  /\ stopped' = TRUE
  /\ UNCHANGED <<process, tracker, pc, sample, recorded, stop, history>>

\* Stop returns when the sampler has ended
StopReturns ==
  /\ stop
  /\ pc["sampler"] = "ended"
  /\ stopped' = TRUE
  /\ UNCHANGED <<process, tracker, pc, sample, recorded, stop, history>>

Sampler == (\E valid \in BOOLEAN : Tick(valid)) \/ TickApply \/ SamplerEnds

Next ==
  \/ Work
  \/ \E valid \in BOOLEAN : Start(valid)
  \/ Sampler
  \/ \E a \in Assets : (\E valid \in BOOLEAN : Record(a, valid)) \/ RecordApply(a) \/ RecordWrite(a)
  \/ Stop
  \/ StopReturns

Spec == Init /\ [][Next]_vars

-----------------------------------------------------------------------------
(* Properties *)

Samples == {NoSample} \cup [taken : {TRUE}, bytes : 0 .. MaxBytes, cpu : 0 .. MaxCPU, valid : BOOLEAN]

Records == {Nothing} \cup [written : {TRUE}, hasMem : BOOLEAN, peak : 0 .. MaxBytes, last : 0 .. MaxBytes,
                          hasCPU : BOOLEAN, busy : 0 .. MaxCPU]

\* The fields, the samples and what Record writes have their types; a
\* CPU figure is never negative ("reporting a negative CPU-seconds figure
\* would be worse than reporting none", tracker.go:205-206).
TypeOK ==
  /\ cpu \in 0 .. MaxCPU /\ bytes \in 0 .. MaxBytes
  /\ tracker \in [peak : 0 .. MaxBytes, last : 0 .. MaxBytes, hasSample : BOOLEAN,
                  baseline : 0 .. MaxCPU, lastCPU : 0 .. MaxCPU, hasCPU : BOOLEAN]
  /\ pc \in [Observers -> {"start", "idle", "ended", "scan", "lock", "read", "done"}]
  /\ sample \in [Observers -> Samples]
  /\ recorded \in [Assets -> Records]
  /\ stop \in BOOLEAN /\ stopped \in BOOLEAN
  /\ first \in -1 .. MaxCPU /\ newest \in 0 .. MaxCPU /\ largest \in 0 .. MaxBytes

\* The peak is the largest footprint that was observed, in whatever order the
\* observations were applied, and it is reported only when one was not zero.
PeakIsLargest ==
  /\ tracker.peak = largest
  /\ tracker.hasSample <=> largest > 0

\* A record never claims more CPU than was used between the first reading that
\* was applied and the largest one, in whatever order they were applied.
UsageInRange ==
  \A a \in Assets : recorded[a].written /\ recorded[a].hasCPU => recorded[a].busy \in 0 .. newest - first

\* What an asset records is not older than its own observation: the peak is at
\* least the footprint that Record sampled itself.
RecordIsFresh ==
  \A a \in Assets : recorded[a].written => recorded[a].peak >= sample[a].bytes

\* "once it returns no further observations can occur" (tracker.go Stop): the
\* sampler is gone when Stop has returned.
NoSamplerAfterStop == stopped => pc["sampler"] = "ended"

\* The peak, the CPU usage and what an asset records are right in whatever order
\* the samples were applied, and nobody samples after Stop returned.
UsageMeasured ==
  /\ TypeOK
  /\ PeakIsLargest
  /\ UsageInRange
  /\ RecordIsFresh
  /\ NoSamplerAfterStop
=============================================================================
