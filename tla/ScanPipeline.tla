---------------------------- MODULE ScanPipeline ----------------------------
(***************************************************************************)
(* The scan pipeline of policy/scan: the tree walker (scanSubtree in       *)
(* local_scanner.go) connects the assets below a root depth first, the     *)
(* syncBatcher synchronizes leaves with the platform in batches, and the   *)
(* scanDispatcher scans them in goroutines of their own                    *)
(* (scan_pipeline.go).                                                     *)
(*                                                                         *)
(* Two semaphores bound the work: connSem the assets that hold a           *)
(* connection slot, scanSem the scans that run.  A slot is acquired by the *)
(* walker, travels with the asset through the batch and is released by the *)
(* asset's goroutine.                                                      *)
(*                                                                         *)
(* The asset explorer (mql/discovery), the platform and RunAssetJob are    *)
(* external: connecting, synchronizing and delayed discovery may fail, a   *)
(* scan always ends.                                                       *)
(***************************************************************************)
EXTENDS Naturals, Sequences, FiniteSets, Functions

CONSTANTS
    Assets,         \* the assets of the inventory and below
    Roots,          \* sequence of the roots, already connected
    Kids,           \* [Assets -> Seq(Assets)] TrackedAsset.Children
    Scannable,      \* assets with platform ids
    Excluded,       \* assets with a platform id in platformids-exclude
    Delayed,        \* assets whose discovery is delayed until the scan
    MayNotConnect,  \* assets whose Connect may fail
    Upstream,       \* FALSE in incognito mode: nothing is synchronized
    CanCancel,      \* the context of the job may be cancelled
    MaxConn,        \* capacity of connSem (getMaxConnections)
    Parallelism,    \* capacity of scanSem
    BatchSize       \* syncBatchSize

ASSUME PipelineAssumption ==
    /\ IsFiniteSet(Assets)
    /\ Roots \in Seq(Assets) /\ Roots # <<>>
    /\ Kids \in [Assets -> Seq(Assets)]
    /\ Scannable \subseteq Assets /\ Excluded \subseteq Assets
    /\ Delayed \subseteq Assets /\ MayNotConnect \subseteq Assets
    /\ Upstream \in BOOLEAN /\ CanCancel \in BOOLEAN
    /\ MaxConn \in Nat \ {0} /\ Parallelism \in Nat \ {0} /\ BatchSize \in Nat \ {0}

(***************************************************************************)
(* The explorer makes a TrackedAsset for each root and for each child it   *)
(* finds: an asset is the child of one asset, at one place, and a root of  *)
(* none.                                                                   *)
(***************************************************************************)
ASSUME ForestAssumption ==
    /\ \A i, j \in 1 .. Len(Roots) : Roots[i] = Roots[j] => i = j
    /\ \A p, q \in Assets : \A i \in 1 .. Len(Kids[p]), j \in 1 .. Len(Kids[q]) :
          Kids[p][i] = Kids[q][j] => p = q /\ i = j
    /\ \A p \in Assets : Range(Kids[p]) \intersect Range(Roots) = {}

VARIABLES
    stack,      \* the activations of scanSubtree: node and next child
    rootIdx,    \* the root distributeJob is at
    wpc,        \* where the walker is
    buf,        \* syncBatcher.buf
    connSem,    \* slots taken in connSem
    stage,      \* the goroutine of each submitted asset
    opened,     \* assets that have been connected
    closes,     \* CloseAsset calls per asset
    scanned,    \* assets RunAssetJob was called for
    reported,   \* assets an error was reported for
    cancelled   \* ctx.Done() is closed

walkVars == <<stack, rootIdx>>
vars == <<walkVars, wpc, buf, connSem, stage, opened, closes, scanned, reported,
          cancelled>>

node     == stack[Len(stack)].node
next     == stack[Len(stack)].next
child    == Kids[node][next]
Frame(a) == [node |-> a, next |-> 1]

(* The asset's child loop moves on. *)
Advanced(s) == [s EXCEPT ![Len(s)].next = @ + 1]

inFlight == {a \in Assets : stage[a] \in {"submitted", "scanning", "closing"}}
workers  == Cardinality({a \in Assets : stage[a] = "scanning"})

Init ==
    /\ stack = <<Frame(Roots[1])>>
    /\ rootIdx = 1
    /\ wpc = "loop"
    /\ buf = {}
    /\ connSem = 0
    /\ stage = [a \in Assets |-> "idle"]
    /\ opened = Range(Roots)
    /\ closes = [a \in Assets |-> 0]
    /\ scanned = {} /\ reported = {}
    /\ cancelled = FALSE

CloseAsset(a) == closes' = [closes EXCEPT ![a] = @ + 1]

-----------------------------------------------------------------------------
(***************************************************************************)
(* The walker.                                                             *)
(***************************************************************************)

NextChild ==
    /\ wpc = "loop" /\ next <= Len(Kids[node])
    /\ wpc' = IF cancelled THEN "failed" ELSE "acquire"
    /\ UNCHANGED <<walkVars, buf, connSem, stage, opened, closes, scanned,
                   reported, cancelled>>

(* Faulty variant: the slot is taken whether there is one or not *)
AcquireAnyway ==
    /\ wpc = "acquire"
    /\ connSem' = connSem + 1
    /\ wpc' = "connect"
    /\ UNCHANGED <<walkVars, buf, stage, opened, closes, scanned, reported,
                   cancelled>>

Acquire ==
    /\ wpc = "acquire" /\ connSem < MaxConn
    /\ connSem' = connSem + 1
    /\ wpc' = "connect"
    /\ UNCHANGED <<walkVars, buf, stage, opened, closes, scanned, reported,
                   cancelled>>

(* A select between connSem and ctx.Done(): the context wins. *)
GiveUp ==
    /\ \/ wpc = "acquire"
       \/ wpc = "self" /\ node \in Scannable
    /\ cancelled
    /\ wpc' = "failed"
    /\ UNCHANGED <<walkVars, buf, connSem, stage, opened, closes, scanned,
                   reported, cancelled>>

(* Faulty variant: a failed connect keeps its slot *)
ConnectFailsKeepsSlot ==
    /\ wpc = "connect" /\ child \in MayNotConnect
    /\ reported' = reported \union {child}
    /\ stack' = Advanced(stack)
    /\ wpc' = "loop"
    /\ UNCHANGED <<rootIdx, buf, connSem, stage, opened, closes, scanned, cancelled>>

(* Faulty variant: the connection is tried again *)
ConnectFailsRetries ==
    /\ wpc = "connect" /\ child \in MayNotConnect
    /\ connSem' = connSem - 1
    /\ reported' = reported \union {child}
    /\ wpc' = "loop"
    /\ UNCHANGED <<walkVars, buf, stage, opened, closes, scanned, cancelled>>

(* The slot is released; the error is reported unless it is a duplicate. *)
ConnectFails ==
    /\ wpc = "connect" /\ child \in MayNotConnect
    /\ connSem' = connSem - 1
    /\ reported' \in {reported, reported \union {child}}
    /\ stack' = Advanced(stack)
    /\ wpc' = "loop"
    /\ UNCHANGED <<rootIdx, buf, stage, opened, closes, scanned, cancelled>>

(* Faulty variant: the branch is closed with its slot *)
ConnectBranchCloses ==
    /\ wpc = "connect" /\ Kids[child] # <<>>
    /\ opened' = opened \union {child}
    /\ CloseAsset(child)
    /\ connSem' = connSem - 1
    /\ wpc' = "flushBranch"
    /\ UNCHANGED <<walkVars, buf, stage, scanned, reported, cancelled>>

(* A branch gives its slot back; its children acquire their own. *)
ConnectBranch ==
    /\ wpc = "connect" /\ Kids[child] # <<>>
    /\ opened' = opened \union {child}
    /\ connSem' = connSem - 1
    /\ wpc' = "flushBranch"
    /\ UNCHANGED <<walkVars, buf, stage, closes, scanned, reported, cancelled>>

(* Faulty variant: an exclude list excludes everything *)
SkippedAll(a) == a \notin Scannable \/ Excluded # {}

Skipped(a) == a \notin Scannable \/ a \in Excluded

(* Faulty variant: a skipped asset is not closed *)
ConnectSkippedLeaks ==
    /\ wpc = "connect" /\ Kids[child] = <<>> /\ Skipped(child)
    /\ opened' = opened \union {child}
    /\ connSem' = connSem - 1
    /\ stack' = Advanced(stack)
    /\ wpc' = "loop"
    /\ UNCHANGED <<rootIdx, buf, stage, closes, scanned, reported, cancelled>>

(* skipAsset *)
ConnectSkipped ==
    /\ wpc = "connect" /\ Kids[child] = <<>> /\ Skipped(child)
    /\ opened' = opened \union {child}
    /\ CloseAsset(child)
    /\ connSem' = connSem - 1
    /\ stack' = Advanced(stack)
    /\ wpc' = "loop"
    /\ UNCHANGED <<rootIdx, buf, stage, scanned, reported, cancelled>>

(* Faulty variant: a batch is full one asset late *)
FullLate(batch) == Cardinality(batch) > BatchSize

Full(batch) == Cardinality(batch) >= BatchSize

(* syncBatcher.Add: a full batch is flushed *)
ConnectLeaf ==
    /\ wpc = "connect" /\ Kids[child] = <<>> /\ ~Skipped(child)
    /\ opened' = opened \union {child}
    /\ buf' = buf \union {child}
    /\ wpc' = IF Full(buf') THEN "flushFull" ELSE "loop"
    /\ stack' = Advanced(stack)
    /\ UNCHANGED <<rootIdx, connSem, stage, closes, scanned, reported, cancelled>>

LoopEnds ==
    /\ wpc = "loop" /\ next > Len(Kids[node])
    /\ wpc' = "flushRest"
    /\ UNCHANGED <<walkVars, buf, connSem, stage, opened, closes, scanned,
                   reported, cancelled>>

(* Where the walker goes after each Flush. *)
After == [flushFull |-> "loop", flushBranch |-> "drain",
          flushRest |-> "self", flushNode |-> "wait"]

(* scanDispatcher.Submit starts a goroutine per asset. *)
Flush ==
    /\ wpc \in DOMAIN After
    /\ stage' = [a \in Assets |-> IF a \in buf THEN "submitted" ELSE stage[a]]
    /\ buf' = {}
    /\ wpc' = After[wpc]
    /\ UNCHANGED <<walkVars, connSem, opened, closes, scanned, reported, cancelled>>

(***************************************************************************)
(* All retries of SynchronizeAssets failed, or the context was cancelled   *)
(* between two of them: the batch is closed and its slots released.        *)
(***************************************************************************)
FlushFails ==
    /\ wpc \in DOMAIN After /\ Upstream /\ buf \ Delayed # {}
    /\ closes' = [a \in Assets |-> closes[a] + (IF a \in buf THEN 1 ELSE 0)]
    /\ connSem' = connSem - Cardinality(buf)
    /\ buf' = {}
    /\ wpc' = "failed"
    /\ UNCHANGED <<walkVars, stage, opened, scanned, reported, cancelled>>

(* Faulty variant: the walker recurses while scans are running *)
RecurseWithoutDrain ==
    /\ wpc = "drain"
    /\ stack' = Append(stack, Frame(child))
    /\ wpc' = "loop"
    /\ UNCHANGED <<rootIdx, buf, connSem, stage, opened, closes, scanned,
                   reported, cancelled>>

(* dispatcher.Wait, then scanSubtree of the branch *)
Recurse ==
    /\ wpc = "drain" /\ inFlight = {}
    /\ stack' = Append(stack, Frame(child))
    /\ wpc' = "loop"
    /\ UNCHANGED <<rootIdx, buf, connSem, stage, opened, closes, scanned,
                   reported, cancelled>>

(* The node itself is added to the batch, which is then flushed. *)
AddNode ==
    /\ wpc = "self" /\ node \in Scannable /\ connSem < MaxConn
    /\ connSem' = connSem + 1
    /\ buf' = buf \union {node}
    /\ wpc' = "flushNode"
    /\ UNCHANGED <<walkVars, stage, opened, closes, scanned, reported, cancelled>>

CloseNode ==
    /\ wpc = "self" /\ node \notin Scannable
    /\ CloseAsset(node)
    /\ wpc' = "wait"
    /\ UNCHANGED <<walkVars, buf, connSem, stage, opened, scanned, reported,
                   cancelled>>

(***************************************************************************)
(* scanSubtree returns to its parent, or distributeJob goes on; the job    *)
(* fails at the end when nothing was scanned and nothing was excluded.     *)
(***************************************************************************)
SubtreeReturns ==
    /\ wpc = "wait" /\ inFlight = {}
    /\ \/ /\ Len(stack) > 1
          /\ stack' = Advanced(SubSeq(stack, 1, Len(stack) - 1))
          /\ wpc' = "loop" /\ UNCHANGED rootIdx
       \/ /\ Len(stack) = 1 /\ rootIdx < Len(Roots)
          /\ stack' = <<Frame(Roots[rootIdx + 1])>>
          /\ rootIdx' = rootIdx + 1 /\ wpc' = "loop"
       \/ /\ Len(stack) = 1 /\ rootIdx = Len(Roots)
          /\ wpc' = IF scanned = {} /\ Excluded = {} THEN "failed" ELSE "finished"
          /\ UNCHANGED walkVars
    /\ UNCHANGED <<buf, connSem, stage, opened, closes, scanned, reported, cancelled>>

Walker ==
    \/ NextChild \/ Acquire \/ GiveUp \/ ConnectFails \/ ConnectBranch
    \/ ConnectSkipped \/ ConnectLeaf \/ LoopEnds \/ Flush \/ FlushFails
    \/ Recurse \/ AddNode \/ CloseNode \/ SubtreeReturns

-----------------------------------------------------------------------------
(***************************************************************************)
(* The goroutine of a submitted asset.                                     *)
(***************************************************************************)

PickUp(a) ==
    /\ stage[a] = "submitted" /\ workers < Parallelism
    /\ stage' = [stage EXCEPT ![a] = "scanning"]
    /\ UNCHANGED <<walkVars, wpc, buf, connSem, opened, closes, scanned,
                   reported, cancelled>>

(* The context is cancelled before there is a worker slot. *)
Abandon(a) ==
    /\ stage[a] = "submitted" /\ cancelled
    /\ stage' = [stage EXCEPT ![a] = "closing"]
    /\ CloseAsset(a)
    /\ UNCHANGED <<walkVars, wpc, buf, connSem, opened, scanned, reported, cancelled>>

(* Faulty variant: the asset is closed by a defer as well *)
ScanEndsClosesTwice(a) ==
    /\ stage[a] = "scanning"
    /\ scanned' = scanned \union {a}
    /\ closes' = [closes EXCEPT ![a] = @ + 2]
    /\ stage' = [stage EXCEPT ![a] = "closing"]
    /\ UNCHANGED <<walkVars, wpc, buf, connSem, opened, reported, cancelled>>

(***************************************************************************)
(* scanSingleAsset: delayed discovery or its synchronization may fail, or  *)
(* leave the asset without platform ids.                                   *)
(***************************************************************************)
ScanEnds(a) ==
    /\ stage[a] = "scanning"
    /\ \/ scanned' = scanned \union {a} /\ UNCHANGED reported
       \/ a \in Delayed /\ reported' = reported \union {a} /\ UNCHANGED scanned
       \/ a \in Delayed /\ UNCHANGED <<scanned, reported>>
    /\ CloseAsset(a)
    /\ stage' = [stage EXCEPT ![a] = "closing"]
    /\ UNCHANGED <<walkVars, wpc, buf, connSem, opened, cancelled>>

(* The deferred release of connSem, and wg.Done *)
ReleaseSlot(a) ==
    /\ stage[a] = "closing"
    /\ stage' = [stage EXCEPT ![a] = "done"]
    /\ connSem' = connSem - 1
    /\ UNCHANGED <<walkVars, wpc, buf, opened, closes, scanned, reported, cancelled>>

Goroutine(a) == PickUp(a) \/ Abandon(a) \/ ScanEnds(a) \/ ReleaseSlot(a)

Returned == wpc \in {"finished", "failed"}

Cancel ==
    /\ CanCancel /\ ~cancelled /\ ~Returned
    /\ cancelled' = TRUE
    /\ UNCHANGED <<walkVars, wpc, buf, connSem, stage, opened, closes, scanned,
                   reported>>

Terminated == Returned /\ inFlight = {} /\ UNCHANGED vars

Next == Walker \/ (\E a \in Assets : Goroutine(a)) \/ Cancel \/ Terminated

(* Goroutines are scheduled by the Go runtime and scans end. *)
Fairness == WF_vars(Walker) /\ \A a \in Assets : WF_vars(Goroutine(a))

Spec == Init /\ [][Next]_vars /\ Fairness

-----------------------------------------------------------------------------
(***************************************************************************)
(* Properties                                                              *)
(***************************************************************************)

(* The values of the variables. *)
TypeOK ==
    /\ Len(stack) > 0
    /\ \A i \in 1 .. Len(stack) : /\ stack[i].node \in Assets
                                  /\ stack[i].next \in 1 .. Len(Kids[stack[i].node]) + 1
    /\ rootIdx \in 1 .. Len(Roots)
    /\ wpc \in {"loop", "acquire", "connect", "drain", "self", "wait", "finished",
                "failed"} \union DOMAIN After
    /\ buf \subseteq Assets
    /\ connSem \in 0 .. MaxConn
    /\ stage \in [Assets -> {"idle", "submitted", "scanning", "closing", "done"}]
    /\ opened \subseteq Assets
    /\ closes \in [Assets -> Nat]
    /\ scanned \subseteq Assets /\ reported \subseteq Assets
    /\ cancelled \in BOOLEAN

(***************************************************************************)
(* Every taken slot belongs to an asset in the batch, to an asset with a   *)
(* goroutine, or to the child being connected: no error, skip or           *)
(* cancellation path leaks a slot or releases one twice, and with the      *)
(* types of TypeOK there are never more than MaxConn.                      *)
(***************************************************************************)
SlotsAccounted ==
    TypeOK /\ connSem = Cardinality(buf) + Cardinality(inFlight)
              + (IF wpc = "connect" THEN 1 ELSE 0)

(***************************************************************************)
(* At most MaxConn leaves are connected at a time.  (Roots and branches    *)
(* stay connected without a slot until they are scanned themselves.)       *)
(***************************************************************************)
OpenNow == {a \in opened : closes[a] = 0}
LeavesBounded ==
    Cardinality({a \in OpenNow : Kids[a] = <<>> /\ a \notin Range(Roots)}) <= MaxConn

(* An asset is closed once, and not while it is buffered or scanned. *)
ClosedOnce ==
    \A a \in Assets :
        /\ closes[a] <= 1
        /\ a \in buf \/ stage[a] \in {"submitted", "scanning"} => a \in OpenNow

(***************************************************************************)
(* Only one branch's children are in memory at a time: what is buffered or *)
(* in flight is the walker's node or one of its children.                  *)
(***************************************************************************)
OneSubtree ==
    \A a \in buf \union inFlight : a = node \/ a \in Range(Kids[node])

(***************************************************************************)
(* A child is connected through the runtime of its parent, which has not   *)
(* been closed by then.                                                    *)
(***************************************************************************)
ParentStillOpen ==
    [][opened' # opened => node \in OpenNow]_vars

(***************************************************************************)
(* When the job returns without an error, every connected asset has been   *)
(* closed, every slot is free and nothing runs; unless the context was     *)
(* cancelled, every asset that was connected, not skipped and not subject  *)
(* to delayed discovery has been scanned or reported.                      *)
(***************************************************************************)
CleanFinish ==
    wpc = "finished" =>
        /\ OpenNow = {} /\ connSem = 0 /\ inFlight = {}
        /\ ~cancelled => \A a \in opened \intersect Scannable :
                            \/ a \in scanned \union reported \union Delayed
                            \/ a \in Excluded /\ Kids[a] = <<>>

(***************************************************************************)
(* When the walker waits for a slot, some goroutine will release one.      *)
(***************************************************************************)
NoStall ==
    connSem = MaxConn /\ (wpc = "acquire" \/ (wpc = "self" /\ node \in Scannable))
        => inFlight # {}

(* The job returns, whatever fails and whenever it is cancelled. *)
Returns == <>Returned

(***************************************************************************)
(* scanSubtree returns after dispatcher.Wait ("drain all before            *)
(* returning"): no scan is running when the job has returned.              *)
(***************************************************************************)
DrainedBeforeReturn == Returned => inFlight = {}
=============================================================================
