------------------------- MODULE ScanPipelineProofs -------------------------
(***************************************************************************)
(* Proofs about ScanPipeline, for every forest of assets, every set of     *)
(* assets that fail, are skipped or delayed, and every size of the         *)
(* semaphores and of the batch.                                            *)
(***************************************************************************)
EXTENDS ScanPipeline, FiniteSetTheorems, SequenceTheorems, TLAPS

Frames == [node : Assets, next : Nat \ {0}]

Running == wpc \notin {"finished", "failed"}

\* the branch that was connected, until the walker goes down into it
Pending == wpc \in {"flushBranch", "drain"}

Untouched(a)    == a \notin buf /\ stage[a] = "idle" /\ closes[a] = 0
Active(a)       == a \in buf \/ stage[a] \in {"submitted", "scanning"}
KidsUnopened(a) == \A k \in 1 .. Len(Kids[a]) : Kids[a][k] \notin opened

-----------------------------------------------------------------------------
(* The inductive invariant, in parts *)

Types == TypeOK /\ stack \in Seq(Frames)

\* where the slots are, and what the batch holds where the walker is
Slots ==
  /\ connSem = Cardinality(buf) + Cardinality(inFlight) + (IF wpc = "connect" THEN 1 ELSE 0)
  /\ wpc \in {"loop", "acquire", "connect"} => Cardinality(buf) < BatchSize
  /\ wpc \in {"drain", "self", "wait", "finished"} => buf = {}

\* an asset is closed by its goroutine or by whoever took it from the batch
Ledger ==
  \A a \in Assets :
    /\ closes[a] <= 1
    /\ Active(a) => a \in OpenNow
    /\ stage[a] \in {"closing", "done"} => closes[a] = 1
    /\ a \in buf => stage[a] = "idle"

\* an open leaf is in the batch or has a goroutine
LeafAtHand ==
  \A a \in OpenNow : Kids[a] = <<>> /\ a \notin Range(Roots) => Active(a)

\* the stack is a path of connected assets
Path ==
  /\ \A i, j \in 1 .. Len(stack) : stack[i].node = stack[j].node => i = j
  /\ \A i \in 1 .. Len(stack) : stack[i].node \in opened
  /\ \A i \in 1 .. Len(stack) - 1 : stack[i].next <= Len(Kids[stack[i].node])
  /\ wpc \in {"acquire", "connect"} \/ Pending => next <= Len(Kids[node])

\* what the walker has not come to is not connected
Fresh ==
  /\ \A a \in Assets \ opened : Untouched(a) /\ KidsUnopened(a)
  /\ \A i \in 1 .. Len(stack) : \A k \in 1 .. Len(Kids[stack[i].node]) :
       k > stack[i].next \/ (k = stack[i].next /\ i = Len(stack) /\ ~Pending)
         => Kids[stack[i].node][k] \notin opened

BranchFresh ==
  Pending => /\ child \in opened /\ Untouched(child) /\ KidsUnopened(child)
             /\ \A i \in 1 .. Len(stack) : stack[i].node # child

RootsFresh ==
  /\ Range(Roots) \subseteq opened
  /\ \A j \in rootIdx + 1 .. Len(Roots) :
       /\ Untouched(Roots[j]) /\ KidsUnopened(Roots[j])
       /\ \A i \in 1 .. Len(stack) : stack[i].node # Roots[j]

\* the assets on the stack wait until their children are done
StackUntouched ==
  \A i \in 1 .. Len(stack) :
    i < Len(stack) \/ wpc \notin {"flushNode", "wait"} => Untouched(stack[i].node)

NodeDone ==
  /\ wpc = "flushNode" => node \in buf
  /\ wpc = "wait" => closes[node] = 1 \/ stage[node] \in {"submitted", "scanning"}

\* whatever is open will be closed by somebody
AtHand(a) ==
  \/ Active(a)
  \/ \E i \in 1 .. Len(stack) :
       a = stack[i].node /\ (i < Len(stack) \/ wpc \notin {"flushNode", "wait"})
  \/ Pending /\ a = child
  \/ \E j \in rootIdx + 1 .. Len(Roots) : a = Roots[j]

OpenAtHand == \A a \in OpenNow : AtHand(a)

Accounted ==
  wpc # "failed" /\ ~cancelled =>
    \A a \in opened \intersect Scannable :
      closes[a] = 1 => \/ a \in scanned \union reported \union Delayed
                       \/ a \in Excluded /\ Kids[a] = <<>>

Finished == wpc = "finished" => OpenNow = {} /\ inFlight = {}

Walk == Running => /\ Path /\ Fresh /\ BranchFresh /\ RootsFresh
                   /\ StackUntouched /\ NodeDone /\ OpenAtHand

IInv == /\ Types /\ Slots /\ Ledger /\ LeafAtHand /\ OneSubtree
        /\ Accounted /\ Finished /\ Walk

USE PipelineAssumption DEF PipelineAssumption

-----------------------------------------------------------------------------
(* The stack *)

\* What a frame of the stack is.
LEMMA FrameTypes ==
  ASSUME NEW s \in Seq(Frames), NEW i \in 1 .. Len(s)
  PROVE  s[i].node \in Assets /\ s[i].next \in Nat \ {0} /\ Len(Kids[s[i].node]) \in Nat
<1>1. s[i] \in Frames
  OBVIOUS
<1>2. s[i].node \in Assets /\ s[i].next \in Nat \ {0}
  BY <1>1 DEF Frames
<1>. QED
  BY <1>2

\* Advancing the child counter of an activation keeps it an activation of its node.
LEMMA AdvancedFrame ==
  ASSUME NEW r \in Frames, NEW g, g = [r EXCEPT !.next = r.next + 1]
  PROVE  g \in Frames /\ g.node = r.node /\ g.next = r.next + 1
<1>1. g = [node |-> r.node, next |-> r.next + 1]
  BY DEF Frames
<1>2. r.node \in Assets /\ r.next + 1 \in Nat \ {0}
  BY DEF Frames
<1>. QED
  BY <1>1, <1>2 DEF Frames

\* Advancing the child loop of the top moves on its next child and nothing else.
LEMMA AdvancedStack ==
  ASSUME NEW s \in Seq(Frames), Len(s) > 0
  PROVE  /\ Advanced(s) \in Seq(Frames)
         /\ Len(Advanced(s)) = Len(s)
         /\ \A i \in 1 .. Len(s) :
              /\ Advanced(s)[i].node = s[i].node
              /\ Advanced(s)[i].next = IF i = Len(s) THEN s[i].next + 1 ELSE s[i].next
<1>1. s[Len(s)] \in Frames /\ Len(s) \in 1 .. Len(s)
  OBVIOUS
<1>2. PICK f : f = [s[Len(s)] EXCEPT !.next = s[Len(s)].next + 1]
  OBVIOUS
<1>3. f \in Frames /\ f.node = s[Len(s)].node /\ f.next = s[Len(s)].next + 1
  BY <1>1, <1>2, AdvancedFrame
<1>4. Advanced(s) = [s EXCEPT ![Len(s)] = f]
  BY <1>2, Zenon DEF Advanced
<1>5. Advanced(s) \in Seq(Frames) /\ Len(Advanced(s)) = Len(s)
  BY <1>1, <1>3, <1>4
<1>6. \A i \in 1 .. Len(s) : Advanced(s)[i] = IF i = Len(s) THEN f ELSE s[i]
  BY <1>1, <1>4
<1>. QED
  BY <1>3, <1>5, <1>6

\* Going down pushes a frame onto the others.
LEMMA PushedStack ==
  ASSUME NEW s \in Seq(Frames), NEW a \in Assets
  PROVE  /\ Append(s, Frame(a)) \in Seq(Frames)
         /\ Len(Append(s, Frame(a))) = Len(s) + 1
         /\ Append(s, Frame(a))[Len(s) + 1] = [node |-> a, next |-> 1]
         /\ \A i \in 1 .. Len(s) : Append(s, Frame(a))[i] = s[i]
<1>1. Frame(a) \in Frames
  BY DEF Frame, Frames
<1>. QED
  BY <1>1 DEF Frame

\* Coming back leaves the frames below as they were.
LEMMA PoppedStack ==
  ASSUME NEW s \in Seq(Frames), Len(s) > 1
  PROVE  /\ SubSeq(s, 1, Len(s) - 1) \in Seq(Frames)
         /\ Len(SubSeq(s, 1, Len(s) - 1)) = Len(s) - 1
         /\ \A i \in 1 .. Len(s) - 1 : SubSeq(s, 1, Len(s) - 1)[i] = s[i]
  OBVIOUS

\* A root starts with a single activation, before its first child.
LEMMA RootStack ==
  ASSUME NEW a \in Assets
  PROVE  /\ <<Frame(a)>> \in Seq(Frames)
         /\ Len(<<Frame(a)>>) = 1
         /\ <<Frame(a)>>[1].node = a /\ <<Frame(a)>>[1].next = 1
  BY DEF Frame, Frames

\* The walker's node, and its child while it is at one.
LEMMA WalkerAt ==
  ASSUME Types
  PROVE  /\ Len(stack) \in 1 .. Len(stack)
         /\ node \in Assets /\ next \in Nat \ {0} /\ Len(Kids[node]) \in Nat
         /\ next <= Len(Kids[node]) => child \in Assets /\ child \in Range(Kids[node])
<1>1. Len(stack) \in 1 .. Len(stack) /\ stack[Len(stack)] \in Frames
  BY DEF Types, TypeOK
<1>2. node \in Assets /\ next \in Nat \ {0}
  BY <1>1 DEF Frames, node, next
<1>3. Kids[node] \in Seq(Assets)
  BY <1>2
<1>4. ASSUME next <= Len(Kids[node]) PROVE child \in Assets /\ child \in Range(Kids[node])
  BY <1>2, <1>3, <1>4 DEF child, Range
<1>. QED
  BY <1>1, <1>2, <1>3, <1>4

\* The children, the roots and what is in flight are finite sets of assets.
LEMMA FiniteSlots ==
  ASSUME Types
  PROVE  /\ buf \subseteq Assets /\ IsFiniteSet(buf) /\ Cardinality(buf) \in Nat
         /\ inFlight \subseteq Assets /\ IsFiniteSet(inFlight) /\ Cardinality(inFlight) \in Nat
<1>1. buf \in SUBSET Assets /\ inFlight \in SUBSET Assets
  BY DEF Types, TypeOK, inFlight
<1>2. IsFiniteSet(buf) /\ IsFiniteSet(inFlight)
  BY <1>1, FS_Subset
<1>. QED
  BY <1>1, <1>2, FS_CardinalityType

-----------------------------------------------------------------------------
(* What the invariant says at the moment of a step *)

\* While the walker connects a child, nobody has seen the child before.
LEMMA AtConnect ==
  ASSUME IInv, wpc \in {"acquire", "connect"}
  PROVE  /\ child \in Assets \ opened /\ child \in Range(Kids[node]) /\ child \notin Range(Roots)
         /\ Untouched(child) /\ KidsUnopened(child)
         /\ \A i \in 1 .. Len(stack) : stack[i].node # child
         /\ \A p \in Assets : child \in Range(Kids[p]) => p = node
         /\ next <= Len(Kids[node])
<1>1. Types /\ Path /\ Fresh /\ RootsFresh /\ next <= Len(Kids[node]) /\ ~Pending
  BY DEF IInv, Walk, Running, Pending, Path
<1>2. child \in Assets /\ child \in Range(Kids[node]) /\ node \in Assets /\ next \in 1 .. Len(Kids[node])
  BY <1>1, WalkerAt
<1>3. child \notin opened
  BY <1>1, <1>2, WalkerAt DEF Fresh, child, node, next
<1>4. \A i \in 1 .. Len(stack) : stack[i].node # child
  BY <1>1, <1>3 DEF Path
<1>5. \A p \in Assets : child \in Range(Kids[p]) => p = node
  BY <1>2, ForestAssumption DEF Range, child
<1>. QED
  BY <1>1, <1>2, <1>3, <1>4, <1>5 DEF Fresh, RootsFresh

\* The walker's node is connected and not yet touched until it is flushed itself.
LEMMA AtNode ==
  ASSUME IInv, Running
  PROVE  /\ node \in Assets /\ node \in opened
         /\ wpc \notin {"flushNode", "wait"} => Untouched(node)
<1>1. Types /\ Path /\ StackUntouched
  BY DEF IInv, Walk
<1>. QED
  BY <1>1, WalkerAt DEF Path, StackUntouched, node

-----------------------------------------------------------------------------
(* Slots *)

\* An asset whose goroutine goes on is still in flight.
LEMMA StageMoves ==
  ASSUME NEW a \in Assets, Types, stage[a] \in {"submitted", "scanning", "closing"},
         NEW s \in {"submitted", "scanning", "closing"}, stage' = [stage EXCEPT ![a] = s]
  PROVE  inFlight' = inFlight
  BY DEF Types, TypeOK, inFlight

\* The slots stay accounted for in every step.
LEMMA SlotsStep == IInv /\ [Next]_vars => Slots'
<1>. SUFFICES ASSUME IInv, [Next]_vars PROVE Slots'
  OBVIOUS
<1>1. Types /\ Slots /\ Ledger
  BY DEF IInv
<1>2. /\ buf \subseteq Assets /\ IsFiniteSet(buf) /\ Cardinality(buf) \in Nat
      /\ inFlight \subseteq Assets /\ IsFiniteSet(inFlight) /\ Cardinality(inFlight) \in Nat
  BY <1>1, FiniteSlots
<1>3. connSem \in Nat
  BY <1>1 DEF Types, TypeOK
<1>4. Cardinality({}) = 0
  BY FS_EmptySet
<1>. USE <1>1, <1>2, <1>3, <1>4 DEF Slots
<1>5. CASE NextChild
  BY <1>5 DEF NextChild, inFlight
<1>6. CASE Acquire
  BY <1>6 DEF Acquire, inFlight
<1>7. CASE GiveUp
  BY <1>7 DEF GiveUp, inFlight
<1>8. CASE ConnectFails
  BY <1>8 DEF ConnectFails, inFlight
<1>9. CASE ConnectBranch
  BY <1>9 DEF ConnectBranch, inFlight
<1>10. CASE ConnectSkipped
  BY <1>10 DEF ConnectSkipped, inFlight
<1>11. CASE ConnectLeaf
  <2>1. child \notin buf
    BY <1>11, AtConnect DEF ConnectLeaf, Untouched
  <2>2. Cardinality(buf') = Cardinality(buf) + 1
    BY <1>11, <2>1, FS_AddElement DEF ConnectLeaf
  <2>3. wpc' = IF Cardinality(buf') >= BatchSize THEN "flushFull" ELSE "loop"
    BY <1>11 DEF ConnectLeaf, Full
  <2>4. inFlight' = inFlight /\ connSem' = connSem /\ wpc = "connect"
    BY <1>11 DEF ConnectLeaf, inFlight
  <2>. QED
    BY <2>2, <2>3, <2>4
<1>12. CASE LoopEnds
  BY <1>12 DEF LoopEnds, inFlight
<1>13. CASE Flush
  <2>1. inFlight' = inFlight \cup buf
    BY <1>13 DEF Flush, inFlight
  <2>2. inFlight \cap buf = {}
    BY DEF Ledger, inFlight
  <2>3. Cardinality(inFlight \cup buf) = Cardinality(inFlight) + Cardinality(buf)
    <3>1. Cardinality(inFlight \cup buf) = Cardinality(inFlight) + Cardinality(buf) - Cardinality(inFlight \cap buf)
      BY FS_Union
    <3>2. Cardinality(inFlight \cap buf) = 0
      BY <2>2
    <3>. QED
      BY <3>1, <3>2
  <2>. QED
    BY <1>13, <2>1, <2>3 DEF Flush, After
<1>14. CASE FlushFails
  BY <1>14 DEF FlushFails, inFlight, After
<1>15. CASE Recurse
  <2>1. Cardinality(buf') = 0
    BY <1>15 DEF Recurse
  <2>. QED
    BY <1>15, <2>1 DEF Recurse, inFlight
<1>16. CASE AddNode
  <2>1. buf = {} /\ buf' = {node}
    BY <1>16 DEF AddNode
  <2>2. Cardinality(buf) = 0 /\ Cardinality(buf') = 1
    BY <2>1, FS_Singleton
  <2>3. inFlight' = inFlight /\ connSem' = connSem + 1 /\ wpc = "self" /\ wpc' = "flushNode"
    BY <1>16 DEF AddNode, inFlight
  <2>. QED
    BY <2>2, <2>3
<1>17. CASE CloseNode
  BY <1>17 DEF CloseNode, inFlight
<1>18. CASE SubtreeReturns
  <2>1. buf' = buf /\ Cardinality(buf') = 0 /\ inFlight' = inFlight /\ connSem' = connSem
    BY <1>18 DEF SubtreeReturns, inFlight
  <2>2. wpc = "wait" /\ wpc' \in {"loop", "failed", "finished"}
    BY <1>18 DEF SubtreeReturns
  <2>. QED
    BY <2>1, <2>2
<1>19. ASSUME NEW a \in Assets, PickUp(a) PROVE Slots'
  BY <1>19, StageMoves DEF PickUp
<1>20. ASSUME NEW a \in Assets, Abandon(a) PROVE Slots'
  BY <1>20, StageMoves DEF Abandon
<1>21. ASSUME NEW a \in Assets, ScanEnds(a) PROVE Slots'
  BY <1>21, StageMoves DEF ScanEnds
<1>22. ASSUME NEW a \in Assets, ReleaseSlot(a) PROVE Slots'
  <2>1. a \in inFlight /\ inFlight' = inFlight \ {a}
    BY <1>22 DEF ReleaseSlot, inFlight, Types, TypeOK
  <2>2. Cardinality(inFlight') = Cardinality(inFlight) - 1
    BY <2>1, FS_RemoveElement
  <2>. QED
    BY <1>22, <2>2 DEF ReleaseSlot
<1>23. CASE Cancel
  BY <1>23 DEF Cancel, inFlight
<1>24. CASE UNCHANGED vars
  BY <1>24 DEF vars, walkVars, inFlight
<1>. QED
  BY <1>5, <1>6, <1>7, <1>8, <1>9, <1>10, <1>11, <1>12, <1>13, <1>14, <1>15, <1>16, <1>17,
     <1>18, <1>19, <1>20, <1>21, <1>22, <1>23, <1>24 DEF Next, Walker, Goroutine, Terminated

-----------------------------------------------------------------------------
(* Types *)

\* The types of the stack, as a predicate on a sequence of frames.
StackType(s) ==
  /\ s \in Seq(Frames) /\ Len(s) > 0
  /\ \A i \in 1 .. Len(s) : s[i].next <= Len(Kids[s[i].node]) + 1

\* The types of the other variables.
Values == /\ rootIdx \in 1 .. Len(Roots)
          /\ wpc \in {"loop", "acquire", "connect", "drain", "self", "wait", "finished",
                      "failed"} \union DOMAIN After
          /\ buf \subseteq Assets
          /\ connSem \in 0 .. MaxConn
          /\ stage \in [Assets -> {"idle", "submitted", "scanning", "closing", "done"}]
          /\ opened \subseteq Assets
          /\ closes \in [Assets -> Nat]
          /\ scanned \subseteq Assets /\ reported \subseteq Assets
          /\ cancelled \in BOOLEAN

\* The stack keeps its type.
LEMMA StackStep == IInv /\ [Next]_vars => StackType(stack')
<1>. SUFFICES ASSUME IInv, [Next]_vars PROVE StackType(stack')
  OBVIOUS
<1>1. StackType(stack)
  <2>1. stack \in Seq(Frames) /\ Len(stack) > 0
    BY DEF IInv, Types, TypeOK
  <2>2. \A i \in 1 .. Len(stack) : stack[i].next \in 1 .. Len(Kids[stack[i].node]) + 1
    BY DEF IInv, Types, TypeOK
  <2>3. \A i \in 1 .. Len(stack) : Len(Kids[stack[i].node]) \in Nat /\ stack[i].next \in Nat
    BY <2>1, FrameTypes
  <2>. QED
    BY <2>1, <2>2, <2>3 DEF StackType
<1>2. CASE stack' = stack
  BY <1>1, <1>2
<1>3. CASE wpc = "connect" /\ stack' = Advanced(stack)
  <2>. DEFINE t == Advanced(stack)
  <2>1. stack[Len(stack)].next <= Len(Kids[stack[Len(stack)].node])
    BY <1>3, AtConnect DEF node, next
  <2>2. \A i \in 1 .. Len(stack) : Len(Kids[stack[i].node]) \in Nat /\ stack[i].next \in Nat
    BY <1>1, FrameTypes DEF StackType
  <2>3. /\ t \in Seq(Frames) /\ Len(t) = Len(stack)
        /\ \A i \in 1 .. Len(stack) :
             /\ t[i].node = stack[i].node
             /\ t[i].next = IF i = Len(stack) THEN stack[i].next + 1 ELSE stack[i].next
    BY <1>1, AdvancedStack DEF StackType
  <2>. HIDE DEF t
  <2>4. ASSUME NEW i \in 1 .. Len(t) PROVE t[i].next <= Len(Kids[t[i].node]) + 1
    <3>1. i \in 1 .. Len(stack) /\ Kids[t[i].node] = Kids[stack[i].node]
      BY <2>3
    <3>2. stack[i].next <= Len(Kids[stack[i].node]) + 1
      BY <1>1, <3>1 DEF StackType
    <3>3. t[i].next <= Len(Kids[stack[i].node]) + 1
      <4>1. /\ Len(Kids[stack[i].node]) \in Nat /\ stack[i].next \in Nat
            /\ t[i].next = IF i = Len(stack) THEN stack[i].next + 1 ELSE stack[i].next
        BY <2>2, <2>3, <3>1
      <4>2. i = Len(stack) => stack[i].next <= Len(Kids[stack[i].node])
        BY <2>1
      <4>. QED
        BY <3>2, <4>1, <4>2
    <3>. QED
      BY <3>1, <3>3
  <2>5. StackType(t)
    BY <1>1, <2>3, <2>4 DEF StackType
  <2>. QED
    BY <1>3, <2>5 DEF t
<1>4. CASE Recurse
  <2>1. Types /\ child \in Assets
    <3>1. Types /\ Path /\ Pending
      BY <1>4 DEF IInv, Walk, Running, Pending, Recurse
    <3>. QED
      BY <3>1, WalkerAt DEF Path
  <2>2. /\ stack' \in Seq(Frames) /\ Len(stack') = Len(stack) + 1
        /\ stack'[Len(stack) + 1].node = child /\ stack'[Len(stack) + 1].next = 1
        /\ \A i \in 1 .. Len(stack) : stack'[i] = stack[i]
    <3>1. stack' = Append(stack, Frame(child)) /\ stack \in Seq(Frames)
      BY <1>1, <1>4 DEF Recurse, StackType
    <3>2. /\ stack' \in Seq(Frames) /\ Len(stack') = Len(stack) + 1
          /\ stack'[Len(stack) + 1] = [node |-> child, next |-> 1]
          /\ \A i \in 1 .. Len(stack) : stack'[i] = stack[i]
      BY <2>1, <3>1, PushedStack, Zenon
    <3>. QED
      BY <3>2
  <2>3. Len(Kids[child]) \in Nat
    BY <2>1
  <2>4. \A i \in 1 .. Len(stack') : i \in 1 .. Len(stack) \/ i = Len(stack) + 1
    BY <1>1, <2>2 DEF StackType
  <2>5. ASSUME NEW i \in 1 .. Len(stack') PROVE stack'[i].next <= Len(Kids[stack'[i].node]) + 1
    <3>1. CASE i \in 1 .. Len(stack)
      <4>1. stack'[i] = stack[i] /\ stack[i].next <= Len(Kids[stack[i].node]) + 1
        BY <1>1, <2>2, <3>1 DEF StackType
      <4>. QED
        BY <4>1
    <3>2. CASE i = Len(stack) + 1
      <4>1. Kids[stack'[i].node] = Kids[child] /\ stack'[i].next = 1
        BY <2>2, <3>2
      <4>. QED
        BY <2>3, <4>1
    <3>. QED
      BY <2>4, <3>1, <3>2
  <2>. QED
    BY <1>1, <2>2, <2>5 DEF StackType
<1>5. CASE SubtreeReturns
  <2>1. Path /\ Len(stack) \in Nat
    BY <1>1, <1>5 DEF IInv, Walk, Running, SubtreeReturns, StackType
  <2>2. CASE Len(stack) > 1 /\ stack' = Advanced(SubSeq(stack, 1, Len(stack) - 1))
    <3>. DEFINE s == SubSeq(stack, 1, Len(stack) - 1)
    <3>1. /\ s \in Seq(Frames) /\ Len(s) = Len(stack) - 1 /\ Len(s) > 0
          /\ \A i \in 1 .. Len(s) : s[i] = stack[i]
      BY <1>1, <2>2, PoppedStack DEF StackType
    <3>2. \A i \in 1 .. Len(s) : s[i].next <= Len(Kids[s[i].node])
      BY <2>1, <3>1 DEF Path
    <3>3. stack' = Advanced(s)
      BY <2>2
    <3>. HIDE DEF s
    <3>4. \A i \in 1 .. Len(s) : s[i].next \in Nat /\ Len(Kids[s[i].node]) \in Nat
      BY <3>1, FrameTypes
    <3>5. /\ stack' \in Seq(Frames) /\ Len(stack') = Len(s)
          /\ \A i \in 1 .. Len(s) :
               /\ stack'[i].node = s[i].node
               /\ stack'[i].next = IF i = Len(s) THEN s[i].next + 1 ELSE s[i].next
      BY <3>1, <3>3, AdvancedStack
    <3>6. ASSUME NEW i \in 1 .. Len(stack') PROVE stack'[i].next <= Len(Kids[stack'[i].node]) + 1
      <4>1. i \in 1 .. Len(s) /\ Kids[stack'[i].node] = Kids[s[i].node]
        BY <3>5
      <4>2. stack'[i].next <= Len(Kids[s[i].node]) + 1
        <5>1. /\ Len(Kids[s[i].node]) \in Nat /\ s[i].next \in Nat
              /\ stack'[i].next = IF i = Len(s) THEN s[i].next + 1 ELSE s[i].next
              /\ s[i].next <= Len(Kids[s[i].node])
          BY <3>2, <3>4, <3>5, <4>1
        <5>. QED
          BY <5>1
      <4>. QED
        BY <4>1, <4>2
    <3>. QED
      BY <3>1, <3>5, <3>6 DEF StackType
  <2>3. CASE rootIdx < Len(Roots) /\ stack' = <<Frame(Roots[rootIdx + 1])>>
    <3>1. Roots[rootIdx + 1] \in Assets
      BY <2>3 DEF IInv, Types, TypeOK
    <3>2. Len(Kids[Roots[rootIdx + 1]]) \in Nat
      BY <3>1
    <3>3. StackType(<<Frame(Roots[rootIdx + 1])>>)
      BY <3>1, <3>2, RootStack DEF StackType
    <3>. QED
      BY <2>3, <3>3
  <2>. QED
    BY <1>2, <1>5, <2>2, <2>3 DEF SubtreeReturns, walkVars
<1>. QED
  BY <1>2, <1>3, <1>4, <1>5
     DEF Next, Walker, Goroutine, Terminated, vars, walkVars, NextChild, Acquire, GiveUp,
         ConnectFails, ConnectBranch, ConnectSkipped, ConnectLeaf, LoopEnds, Flush, FlushFails,
         AddNode, CloseNode, PickUp, Abandon, ScanEnds, ReleaseSlot, Cancel

\* The other variables keep their types.
LEMMA ValuesStep == IInv /\ [Next]_vars => Values'
<1>. SUFFICES ASSUME IInv, [Next]_vars PROVE Values'
  OBVIOUS
<1>1. Types /\ Slots
  BY DEF IInv
<1>2. Values
  BY <1>1 DEF Types, TypeOK, Values
<1>3. /\ Cardinality(buf) \in Nat /\ Cardinality(inFlight) \in Nat
      /\ \A a \in inFlight : Cardinality(inFlight) > 0
  BY <1>1, FiniteSlots, FS_EmptySet
<1>4. wpc \in {"acquire", "connect"} => child \in Assets
  BY AtConnect
<1>. DEFINE freed == IF wpc = "connect" THEN 1 ELSE 0
<1>30. connSem \in 0 .. MaxConn /\ connSem = Cardinality(buf) + Cardinality(inFlight) + freed /\ freed \in {0, 1}
  BY <1>1, <1>2 DEF Slots, Values
<1>. HIDE DEF freed
<1>31. /\ connSem - Cardinality(buf) \in 0 .. MaxConn
       /\ \A a \in inFlight : connSem - 1 \in 0 .. MaxConn
       /\ freed = 1 => connSem - 1 \in 0 .. MaxConn
  <2>1. MaxConn \in Nat
    OBVIOUS
  <2>2. connSem - Cardinality(buf) \in 0 .. MaxConn
    BY <1>3, <1>30, <2>1
  <2>3. ASSUME NEW a \in inFlight PROVE connSem - 1 \in 0 .. MaxConn
    <3>1. Cardinality(inFlight) > 0
      BY <1>3
    <3>. QED
      BY <1>3, <1>30, <2>1, <3>1
  <2>4. freed = 1 => connSem - 1 \in 0 .. MaxConn
    BY <1>3, <1>30, <2>1
  <2>. QED
    BY <2>2, <2>3, <2>4
<1>32. wpc = "connect" => connSem - 1 \in 0 .. MaxConn
  BY <1>31 DEF freed
<1>5. node \in Assets
  BY <1>1, WalkerAt
<1>. USE <1>2 DEF walkVars, Values
<1>6. CASE NextChild \/ LoopEnds \/ Recurse \/ GiveUp \/ Cancel
  BY <1>6 DEF NextChild, LoopEnds, Recurse, GiveUp, Cancel, After
<1>7. CASE Acquire
  BY <1>7 DEF Acquire
<1>8. CASE ConnectFails
  BY <1>4, <1>32, <1>8 DEF ConnectFails
<1>9. CASE ConnectBranch
  BY <1>4, <1>32, <1>9 DEF ConnectBranch, After
<1>10. CASE ConnectSkipped
  BY <1>4, <1>32, <1>10 DEF ConnectSkipped, CloseAsset
<1>11. CASE ConnectLeaf
  BY <1>4, <1>11 DEF ConnectLeaf, After
<1>12. CASE Flush
  BY <1>12 DEF Flush, After
<1>13. CASE FlushFails
  <2>1. connSem' \in 0 .. MaxConn
    BY <1>31, <1>13 DEF FlushFails
  <2>2. closes' \in [Assets -> Nat]
    BY <1>13 DEF FlushFails
  <2>. QED
    BY <1>13, <2>1, <2>2 DEF FlushFails
<1>14. CASE AddNode
  BY <1>5, <1>14 DEF AddNode, After
<1>15. CASE CloseNode
  BY <1>5, <1>15 DEF CloseNode, CloseAsset
<1>16. CASE SubtreeReturns
  BY <1>16 DEF SubtreeReturns
<1>17. ASSUME NEW a \in Assets, PickUp(a) PROVE Values'
  BY <1>17 DEF PickUp
<1>18. ASSUME NEW a \in Assets, Abandon(a) PROVE Values'
  BY <1>18 DEF Abandon, CloseAsset
<1>19. ASSUME NEW a \in Assets, ScanEnds(a) PROVE Values'
  BY <1>19 DEF ScanEnds, CloseAsset
<1>20. ASSUME NEW a \in Assets, ReleaseSlot(a) PROVE Values'
  <2>1. a \in inFlight
    BY <1>20 DEF ReleaseSlot, inFlight
  <2>. QED
    BY <1>31, <1>20, <2>1 DEF ReleaseSlot
<1>21. CASE UNCHANGED vars
  BY <1>21 DEF vars
<1>. QED
  BY <1>6, <1>7, <1>8, <1>9, <1>10, <1>11, <1>12, <1>13, <1>14, <1>15, <1>16, <1>17, <1>18,
     <1>19, <1>20, <1>21 DEF Next, Walker, Goroutine, Terminated

\* All types are kept.
LEMMA TypesStep == IInv /\ [Next]_vars => Types'
<1>. SUFFICES ASSUME IInv, [Next]_vars PROVE Types'
  OBVIOUS
<1>1. Values' /\ StackType(stack')
  BY ValuesStep, StackStep
<1>2. \A i \in 1 .. Len(stack') : /\ stack'[i].node \in Assets /\ stack'[i].next \in Nat \ {0}
                                 /\ Len(Kids[stack'[i].node]) \in Nat
  BY <1>1, FrameTypes DEF StackType
<1>3. \A i \in 1 .. Len(stack') : stack'[i].next \in 1 .. Len(Kids[stack'[i].node]) + 1
  BY <1>1, <1>2 DEF StackType
<1>. QED
  BY <1>1, <1>2, <1>3 DEF Types, TypeOK, StackType, Values

-----------------------------------------------------------------------------
(* Who closes an asset *)

\* The ledger of closed assets is kept.
LEMMA LedgerStep == IInv /\ [Next]_vars => Ledger'
<1>. SUFFICES ASSUME IInv, [Next]_vars PROVE Ledger'
  OBVIOUS
<1>1. Types /\ Slots /\ Ledger
  BY DEF IInv
<1>2. /\ stage \in [Assets -> {"idle", "submitted", "scanning", "closing", "done"}]
      /\ closes \in [Assets -> Nat] /\ buf \subseteq Assets /\ opened \subseteq Assets
  BY <1>1 DEF Types, TypeOK
<1>3. wpc \in {"acquire", "connect"} => child \in Assets \ opened /\ Untouched(child)
  BY AtConnect
<1>4. Running => node \in Assets /\ node \in opened
  BY AtNode
<1>5. Running /\ wpc \notin {"flushNode", "wait"} => Untouched(node)
  BY AtNode
<1>. USE <1>1, <1>2 DEF Ledger, Active, OpenNow, Untouched, walkVars
<1>6. CASE NextChild \/ Acquire \/ GiveUp \/ LoopEnds \/ Recurse \/ SubtreeReturns \/ Cancel
  BY <1>6 DEF NextChild, Acquire, GiveUp, LoopEnds, Recurse, SubtreeReturns, Cancel
<1>7. CASE ConnectFails
  BY <1>7 DEF ConnectFails
<1>8. CASE ConnectBranch
  BY <1>8 DEF ConnectBranch
<1>9. CASE ConnectSkipped
  BY <1>3, <1>9 DEF ConnectSkipped, CloseAsset
<1>10. CASE ConnectLeaf
  BY <1>3, <1>10 DEF ConnectLeaf
<1>11. CASE Flush
  BY <1>11 DEF Flush
<1>12. CASE FlushFails
  BY <1>12 DEF FlushFails
<1>13. CASE AddNode
  BY <1>4, <1>5, <1>13 DEF AddNode, Running
<1>14. CASE CloseNode
  BY <1>4, <1>5, <1>14 DEF CloseNode, CloseAsset, Running
<1>15. ASSUME NEW a \in Assets, PickUp(a) PROVE Ledger'
  BY <1>15 DEF PickUp
<1>16. ASSUME NEW a \in Assets, Abandon(a) PROVE Ledger'
  BY <1>16 DEF Abandon, CloseAsset
<1>17. ASSUME NEW a \in Assets, ScanEnds(a) PROVE Ledger'
  BY <1>17 DEF ScanEnds, CloseAsset
<1>18. ASSUME NEW a \in Assets, ReleaseSlot(a) PROVE Ledger'
  BY <1>18 DEF ReleaseSlot
<1>19. CASE UNCHANGED vars
  BY <1>19 DEF vars
<1>. QED
  BY <1>6, <1>7, <1>8, <1>9, <1>10, <1>11, <1>12, <1>13, <1>14, <1>15, <1>16, <1>17, <1>18,
     <1>19 DEF Next, Walker, Goroutine, Terminated

\* An open leaf never gets lost.
LEMMA LeafStep == IInv /\ [Next]_vars => LeafAtHand'
<1>. SUFFICES ASSUME IInv, [Next]_vars PROVE LeafAtHand'
  OBVIOUS
<1>1. Types /\ Slots /\ Ledger /\ LeafAtHand
  BY DEF IInv
<1>2. /\ stage \in [Assets -> {"idle", "submitted", "scanning", "closing", "done"}]
      /\ closes \in [Assets -> Nat] /\ buf \subseteq Assets /\ opened \subseteq Assets
  BY <1>1 DEF Types, TypeOK
<1>3. wpc \in {"acquire", "connect"} => child \in Assets \ opened /\ Untouched(child)
  BY AtConnect
<1>. USE <1>1, <1>2 DEF LeafAtHand, Ledger, Active, OpenNow, Untouched, walkVars
<1>6. CASE NextChild \/ Acquire \/ GiveUp \/ LoopEnds \/ Recurse \/ SubtreeReturns \/ Cancel
  BY <1>6 DEF NextChild, Acquire, GiveUp, LoopEnds, Recurse, SubtreeReturns, Cancel
<1>7. CASE ConnectFails
  BY <1>7 DEF ConnectFails
<1>8. CASE ConnectBranch
  BY <1>8 DEF ConnectBranch
<1>9. CASE ConnectSkipped
  BY <1>3, <1>9 DEF ConnectSkipped, CloseAsset
<1>10. CASE ConnectLeaf
  BY <1>3, <1>10 DEF ConnectLeaf
<1>11. CASE Flush
  BY <1>11 DEF Flush
<1>12. CASE FlushFails
  BY <1>12 DEF FlushFails
<1>13. CASE AddNode
  BY <1>13 DEF AddNode
<1>14. CASE CloseNode
  BY <1>14 DEF CloseNode, CloseAsset
<1>15. ASSUME NEW a \in Assets, PickUp(a) PROVE LeafAtHand'
  BY <1>15 DEF PickUp
<1>16. ASSUME NEW a \in Assets, Abandon(a) PROVE LeafAtHand'
  BY <1>16 DEF Abandon, CloseAsset
<1>17. ASSUME NEW a \in Assets, ScanEnds(a) PROVE LeafAtHand'
  BY <1>17 DEF ScanEnds, CloseAsset
<1>18. ASSUME NEW a \in Assets, ReleaseSlot(a) PROVE LeafAtHand'
  BY <1>18 DEF ReleaseSlot
<1>19. CASE UNCHANGED vars
  BY <1>19 DEF vars
<1>. QED
  BY <1>6, <1>7, <1>8, <1>9, <1>10, <1>11, <1>12, <1>13, <1>14, <1>15, <1>16, <1>17, <1>18,
     <1>19 DEF Next, Walker, Goroutine, Terminated

-----------------------------------------------------------------------------
(* The path of the walker *)

\* Only going down and coming back change the assets on the stack.
LEMMA PathStays ==
  ASSUME IInv, [Next]_vars, ~Recurse, ~SubtreeReturns
  PROVE  /\ rootIdx' = rootIdx /\ Len(stack') = Len(stack) /\ Len(stack) \in Nat \ {0}
         /\ \A i \in 1 .. Len(stack) :
              /\ stack'[i].node = stack[i].node
              /\ stack'[i].next = IF stack' # stack /\ i = Len(stack) THEN stack[i].next + 1
                                                                     ELSE stack[i].next
         /\ node' = node
         /\ next' = IF stack' = stack THEN next ELSE next + 1
         /\ stack' # stack => wpc = "connect" /\ stack' = Advanced(stack) /\ wpc' \in {"loop", "flushFull"}
<1>1. stack \in Seq(Frames) /\ Len(stack) > 0 /\ Len(stack) \in Nat \ {0}
  BY DEF IInv, Types, TypeOK
<1>2. rootIdx' = rootIdx
  BY DEF Next, Walker, Goroutine, Terminated, vars, walkVars, NextChild, Acquire, GiveUp,
         ConnectFails, ConnectBranch, ConnectSkipped, ConnectLeaf, LoopEnds, Flush, FlushFails,
         AddNode, CloseNode, PickUp, Abandon, ScanEnds, ReleaseSlot, Cancel
<1>3. stack' # stack => wpc = "connect" /\ stack' = Advanced(stack) /\ wpc' \in {"loop", "flushFull"}
  BY DEF Next, Walker, Goroutine, Terminated, vars, walkVars, NextChild, Acquire, GiveUp,
         ConnectFails, ConnectBranch, ConnectSkipped, ConnectLeaf, LoopEnds, Flush, FlushFails,
         AddNode, CloseNode, PickUp, Abandon, ScanEnds, ReleaseSlot, Cancel
<1>4. CASE stack' = stack
  BY <1>1, <1>2, <1>4 DEF node, next
<1>5. CASE stack' # stack
  <2>1. /\ Len(stack') = Len(stack)
        /\ \A i \in 1 .. Len(stack) :
              /\ stack'[i].node = stack[i].node
              /\ stack'[i].next = IF i = Len(stack) THEN stack[i].next + 1 ELSE stack[i].next
    BY <1>1, <1>3, <1>5, AdvancedStack
  <2>2. Len(stack) \in 1 .. Len(stack)
    BY <1>1
  <2>. QED
    BY <1>1, <1>2, <1>3, <1>5, <2>1, <2>2 DEF node, next
<1>. QED
  BY <1>4, <1>5

\* What is in the batch or in flight belongs to the node of the walker.
LEMMA SubtreeStep == IInv /\ [Next]_vars => OneSubtree'
<1>. SUFFICES ASSUME IInv, [Next]_vars PROVE OneSubtree'
  OBVIOUS
<1>1. OneSubtree /\ Slots
  BY DEF IInv
<1>2. CASE Recurse \/ SubtreeReturns
  <2>1. buf' = {} /\ inFlight' = {}
    BY <1>1, <1>2 DEF Recurse, SubtreeReturns, Slots, inFlight
  <2>. QED
    BY <2>1 DEF OneSubtree
<1>3. CASE ~Recurse /\ ~SubtreeReturns
  <2>1. node' = node
    BY <1>3, PathStays
  <2>2. CASE ConnectLeaf
    BY <1>1, <2>1, <2>2, AtConnect DEF ConnectLeaf, OneSubtree, inFlight
  <2>3. CASE AddNode
    BY <1>1, <2>1, <2>3 DEF AddNode, OneSubtree, inFlight
  <2>4. ASSUME ~ConnectLeaf, ~AddNode
        PROVE buf' \union inFlight' \subseteq buf \union inFlight
    <3>1. Types
      BY DEF IInv
    <3>2. CASE Flush
      BY <3>2 DEF Flush, inFlight
    <3>3. ASSUME NEW a \in Assets, Goroutine(a) PROVE buf' = buf /\ inFlight' \subseteq inFlight
      <4>1. CASE PickUp(a) \/ Abandon(a) \/ ScanEnds(a)
        BY <3>1, <4>1, StageMoves DEF PickUp, Abandon, ScanEnds
      <4>2. CASE ReleaseSlot(a)
        BY <3>1, <4>2 DEF ReleaseSlot, inFlight, Types, TypeOK
      <4>. QED
        BY <3>3, <4>1, <4>2 DEF Goroutine
    <3>4. CASE buf' \subseteq buf /\ stage' = stage
      BY <3>4 DEF inFlight
    <3>. QED
      BY <1>3, <2>4, <3>2, <3>3, <3>4
         DEF Next, Walker, Terminated, vars, NextChild, Acquire, GiveUp, ConnectFails, ConnectBranch,
             ConnectSkipped, LoopEnds, FlushFails, CloseNode, Cancel
  <2>. QED
    BY <1>1, <2>1, <2>2, <2>3, <2>4 DEF OneSubtree
<1>. QED
  BY <1>2, <1>3

-----------------------------------------------------------------------------
(* What became of an asset *)

\* What was closed without a cancellation was scanned, reported or skipped.
LEMMA AccountedStep == IInv /\ [Next]_vars => Accounted'
<1>. SUFFICES ASSUME IInv, [Next]_vars PROVE Accounted'
  OBVIOUS
<1>1. Types /\ Ledger /\ Accounted
  BY DEF IInv
<1>2. /\ stage \in [Assets -> {"idle", "submitted", "scanning", "closing", "done"}]
      /\ closes \in [Assets -> Nat] /\ opened \subseteq Assets
  BY <1>1 DEF Types, TypeOK
<1>3. wpc \in {"acquire", "connect"} => child \in Assets /\ closes[child] = 0
  BY AtConnect DEF Untouched
<1>4. Running => node \in Assets
  BY AtNode
<1>. USE <1>1, <1>2 DEF Accounted, walkVars
<1>5. CASE NextChild \/ Acquire \/ GiveUp \/ LoopEnds \/ Recurse \/ SubtreeReturns \/ Cancel
  BY <1>5 DEF NextChild, Acquire, GiveUp, LoopEnds, Recurse, SubtreeReturns, Cancel
<1>6. CASE ConnectFails
  BY <1>6 DEF ConnectFails
<1>7. CASE ConnectBranch
  BY <1>3, <1>7 DEF ConnectBranch
<1>8. CASE ConnectSkipped
  BY <1>3, <1>8 DEF ConnectSkipped, CloseAsset, Skipped
<1>9. CASE ConnectLeaf
  BY <1>3, <1>9 DEF ConnectLeaf
<1>10. CASE Flush
  BY <1>10 DEF Flush, After
<1>11. CASE FlushFails
  BY <1>11 DEF FlushFails
<1>12. CASE AddNode
  BY <1>12 DEF AddNode
<1>13. CASE CloseNode
  BY <1>4, <1>13 DEF CloseNode, CloseAsset, Running
<1>14. ASSUME NEW a \in Assets, PickUp(a) PROVE Accounted'
  BY <1>14 DEF PickUp
<1>15. ASSUME NEW a \in Assets, Abandon(a) PROVE Accounted'
  BY <1>15 DEF Abandon, CloseAsset
<1>16. ASSUME NEW a \in Assets, ScanEnds(a) PROVE Accounted'
  BY <1>16 DEF ScanEnds, CloseAsset
<1>17. ASSUME NEW a \in Assets, ReleaseSlot(a) PROVE Accounted'
  BY <1>17 DEF ReleaseSlot
<1>18. CASE UNCHANGED vars
  BY <1>18 DEF vars
<1>. QED
  BY <1>5, <1>6, <1>7, <1>8, <1>9, <1>10, <1>11, <1>12, <1>13, <1>14, <1>15, <1>16, <1>17, <1>18
     DEF Next, Walker, Goroutine, Terminated

\* When the last subtree returned, nothing is open.
LEMMA FinishedStep == IInv /\ [Next]_vars => Finished'
<1>. SUFFICES ASSUME IInv, [Next]_vars, wpc' = "finished" PROVE OpenNow' = {} /\ inFlight' = {}
  BY DEF Finished
<1>1. Types /\ Ledger /\ Slots /\ Finished
  BY DEF IInv
<1>2. CASE wpc = "finished"
  <2>1. OpenNow = {} /\ inFlight = {}
    BY <1>1, <1>2 DEF Finished
  <2>2. UNCHANGED vars
    BY <1>2, <2>1
       DEF inFlight, Next, Walker, Goroutine, Terminated, vars, NextChild, Acquire, GiveUp, ConnectFails,
           ConnectBranch, ConnectSkipped, ConnectLeaf, LoopEnds, Flush, FlushFails, Recurse, AddNode,
           CloseNode, SubtreeReturns, PickUp, Abandon, ScanEnds, ReleaseSlot, Cancel, Returned, After
  <2>. QED
    BY <2>1, <2>2 DEF vars, OpenNow, inFlight
<1>3. CASE wpc # "finished"
  <2>1. SubtreeReturns /\ Len(stack) = 1 /\ rootIdx = Len(Roots)
    BY <1>3 DEF Next, Walker, Goroutine, Terminated, vars, NextChild, Acquire, GiveUp, ConnectFails,
           ConnectBranch, ConnectSkipped, ConnectLeaf, LoopEnds, Flush, FlushFails, Recurse, AddNode,
           CloseNode, SubtreeReturns, PickUp, Abandon, ScanEnds, ReleaseSlot, Cancel, Returned, After
  <2>2. wpc = "wait" /\ inFlight = {} /\ UNCHANGED <<buf, stage, opened, closes>>
    BY <2>1 DEF SubtreeReturns
  <2>3. OpenAtHand /\ buf = {}
    BY <1>1, <2>2 DEF IInv, Walk, Running, Slots
  <2>4. ASSUME NEW a \in OpenNow PROVE FALSE
    <3>1. AtHand(a) /\ a \in Assets
      BY <1>1, <2>3 DEF OpenAtHand, OpenNow, Types, TypeOK
    <3>2. ~Active(a)
      BY <2>2, <2>3, <3>1 DEF Active, inFlight
    <3>3. ~ \E i \in 1 .. Len(stack) : i < Len(stack) \/ wpc \notin {"flushNode", "wait"}
      BY <2>1, <2>2
    <3>4. ~ \E j \in rootIdx + 1 .. Len(Roots) : TRUE
      BY <2>1
    <3>. QED
      BY <2>2, <3>1, <3>2, <3>3, <3>4 DEF AtHand, Pending
  <2>. QED
    BY <2>2, <2>4 DEF OpenNow, inFlight
<1>. QED
  BY <1>2, <1>3

-----------------------------------------------------------------------------
(* The walk *)

\* A step that leaves the job running began in a running one.
LEMMA StillRunning ==
  ASSUME IInv, [Next]_vars, Running'
  PROVE  Running /\ Path /\ Fresh /\ BranchFresh /\ RootsFresh /\ StackUntouched /\ NodeDone /\ OpenAtHand
<1>1. Running
  BY DEF Running, Next, Walker, Goroutine, Terminated, vars, NextChild, Acquire, GiveUp, ConnectFails,
         ConnectBranch, ConnectSkipped, ConnectLeaf, LoopEnds, Flush, FlushFails, Recurse, AddNode,
         CloseNode, SubtreeReturns, PickUp, Abandon, ScanEnds, ReleaseSlot, Cancel, Returned, After
<1>. QED
  BY <1>1 DEF IInv, Walk

\* What nobody has touched stays so, but for the child that is connected and the
\* node that is added to the batch or closed.
LEMMA UntouchedStays ==
  ASSUME IInv, [Next]_vars, NEW a \in Assets, Untouched(a),
         wpc = "connect" /\ a = child => a \notin opened',
         wpc = "self" /\ a = node => wpc' \notin {"flushNode", "wait"}
  PROVE  Untouched(a)'
<1>1. Types /\ Ledger
  BY DEF IInv
<1>2. /\ stage \in [Assets -> {"idle", "submitted", "scanning", "closing", "done"}]
      /\ closes \in [Assets -> Nat]
  BY <1>1 DEF Types, TypeOK
<1>. USE <1>1, <1>2 DEF Untouched, walkVars
<1>3. CASE NextChild \/ Acquire \/ GiveUp \/ LoopEnds \/ Recurse \/ SubtreeReturns \/ Cancel
  BY <1>3 DEF NextChild, Acquire, GiveUp, LoopEnds, Recurse, SubtreeReturns, Cancel
<1>4. CASE ConnectFails \/ ConnectBranch
  BY <1>4 DEF ConnectFails, ConnectBranch
<1>5. CASE ConnectSkipped
  BY <1>5, AtConnect DEF ConnectSkipped, CloseAsset
<1>6. CASE ConnectLeaf
  BY <1>6 DEF ConnectLeaf
<1>7. CASE Flush
  BY <1>7 DEF Flush
<1>8. CASE FlushFails
  BY <1>8 DEF FlushFails
<1>9. CASE AddNode
  BY <1>9 DEF AddNode
<1>10. CASE CloseNode
  BY <1>10, AtNode DEF CloseNode, CloseAsset, Running
<1>11. ASSUME NEW b \in Assets, Goroutine(b) PROVE Untouched(a)'
  BY <1>11 DEF Goroutine, PickUp, Abandon, ScanEnds, ReleaseSlot, CloseAsset
<1>12. CASE UNCHANGED vars
  BY <1>12 DEF vars
<1>. QED
  BY <1>3, <1>4, <1>5, <1>6, <1>7, <1>8, <1>9, <1>10, <1>11, <1>12 DEF Next, Walker, Terminated

\* An asset becomes connected as the child of the walker's node only.
LEMMA OpenedStep ==
  ASSUME IInv, [Next]_vars
  PROVE  \/ opened' = opened
         \/ wpc = "connect" /\ opened' = opened \union {child} /\ child \notin opened
<1>1. \/ opened' = opened
      \/ wpc = "connect" /\ opened' = opened \union {child}
  BY DEF Next, Walker, Goroutine, Terminated, vars, NextChild, Acquire, GiveUp,
         ConnectFails, ConnectBranch, ConnectSkipped, ConnectLeaf, LoopEnds, Flush, FlushFails, Recurse,
         AddNode, CloseNode, SubtreeReturns, PickUp, Abandon, ScanEnds, ReleaseSlot, Cancel
<1>. QED
  BY <1>1, AtConnect

\* The children of any other node stay unconnected.
LEMMA KidsStay ==
  ASSUME IInv, [Next]_vars, NEW a \in Assets, KidsUnopened(a),
         wpc = "connect" => a # node
  PROVE  KidsUnopened(a)'
<1>1. ASSUME wpc = "connect" PROVE child \notin Range(Kids[a])
  BY <1>1, AtConnect
<1>2. ASSUME NEW k \in 1 .. Len(Kids[a]) PROVE Kids[a][k] \notin opened'
  <2>1. Kids[a][k] \in Range(Kids[a]) /\ Kids[a][k] \notin opened
    BY DEF KidsUnopened, Range
  <2>. QED
    BY <1>1, <2>1, OpenedStep
<1>. QED
  BY <1>2 DEF KidsUnopened

\* Where the walker is while it neither goes down nor comes back.
LEMMA PendingStep ==
  ASSUME IInv, [Next]_vars, ~Recurse, ~SubtreeReturns, Running'
  PROVE  /\ Pending => Pending' /\ child' = child /\ opened' = opened
         /\ Pending' => Pending \/ ConnectBranch
         /\ wpc' \in {"acquire", "connect"} => wpc = wpc' \/ NextChild \/ Acquire
         /\ wpc \in {"flushNode", "wait"} => wpc' \in {"flushNode", "wait"}
<1>1. stack' = stack => child' = child
  BY DEF child, node, next
<1>2. Pending => stack' = stack /\ opened' = opened
  BY PathStays, OpenedStep DEF Pending
<1>3. Pending => Pending'
  BY DEF Pending, Running, Next, Walker, Goroutine, Terminated, vars, NextChild, Acquire, GiveUp,
         ConnectFails, ConnectBranch, ConnectSkipped, ConnectLeaf, LoopEnds, Flush, FlushFails,
         AddNode, CloseNode, PickUp, Abandon, ScanEnds, ReleaseSlot, Cancel, After
<1>4. Pending' => Pending \/ ConnectBranch
  BY DEF Pending, Running, Next, Walker, Goroutine, Terminated, vars, NextChild, Acquire, GiveUp,
         ConnectFails, ConnectSkipped, ConnectLeaf, LoopEnds, Flush, FlushFails,
         AddNode, CloseNode, PickUp, Abandon, ScanEnds, ReleaseSlot, Cancel, After
<1>5. wpc' \in {"acquire", "connect"} => wpc = wpc' \/ NextChild \/ Acquire
  BY DEF Running, Next, Walker, Goroutine, Terminated, vars, GiveUp,
         ConnectFails, ConnectBranch, ConnectSkipped, ConnectLeaf, LoopEnds, Flush, FlushFails,
         AddNode, CloseNode, PickUp, Abandon, ScanEnds, ReleaseSlot, Cancel, After
<1>6. wpc \in {"flushNode", "wait"} => wpc' \in {"flushNode", "wait"}
  BY DEF Running, Next, Walker, Goroutine, Terminated, vars, NextChild, Acquire, GiveUp,
         ConnectFails, ConnectBranch, ConnectSkipped, ConnectLeaf, LoopEnds, Flush, FlushFails,
         AddNode, CloseNode, PickUp, Abandon, ScanEnds, ReleaseSlot, Cancel, After
<1>. QED
  BY <1>1, <1>2, <1>3, <1>4, <1>5, <1>6

\* Going down: the branch becomes the walker's node, nothing else changes.
LEMMA Descent ==
  ASSUME IInv, Recurse
  PROVE  /\ Running /\ Pending /\ wpc = "drain" /\ wpc' = "loop" /\ buf = {} /\ inFlight = {}
         /\ child \in Assets /\ child \in Range(Kids[node]) /\ next <= Len(Kids[node])
         /\ UNCHANGED <<rootIdx, buf, stage, opened, closes>>
         /\ Len(stack) \in Nat \ {0} /\ Len(stack') = Len(stack) + 1
         /\ \A i \in 1 .. Len(stack) : stack'[i] = stack[i]
         /\ stack'[Len(stack) + 1].node = child /\ stack'[Len(stack) + 1].next = 1
<1>1. wpc = "drain" /\ wpc' = "loop" /\ inFlight = {} /\ stack' = Append(stack, Frame(child))
  BY DEF Recurse
<1>2. Running /\ Pending /\ buf = {} /\ Types /\ Path
  BY <1>1 DEF Running, Pending, IInv, Slots, Walk
<1>3. next <= Len(Kids[node]) /\ child \in Assets /\ child \in Range(Kids[node])
  BY <1>2, WalkerAt DEF Path
<1>4. stack \in Seq(Frames) /\ Len(stack) > 0 /\ Len(stack) \in Nat \ {0}
  BY <1>2 DEF Types, TypeOK
<1>5. UNCHANGED <<rootIdx, buf, stage, opened, closes>>
  BY DEF Recurse, walkVars
<1>6. /\ Len(stack') = Len(stack) + 1
      /\ stack'[Len(stack) + 1] = [node |-> child, next |-> 1]
      /\ \A i \in 1 .. Len(stack) : stack'[i] = stack[i]
  BY <1>1, <1>3, <1>4, PushedStack
<1>. QED
  BY <1>1, <1>2, <1>3, <1>4, <1>5, <1>6

\* The depths the walker tells apart: below a parent, or at the root.
LEMMA NaturalOne == \A n \in Nat : (n > 1 => n # 1) /\ (n > 0 /\ ~(n > 1) => n = 1)
  OBVIOUS

\* Coming back to the parent: its child loop moves on, nothing else changes.
LEMMA Ascent ==
  ASSUME IInv, SubtreeReturns, Len(stack) > 1
  PROVE  /\ wpc = "wait" /\ wpc' = "loop" /\ buf = {} /\ inFlight = {}
         /\ UNCHANGED <<rootIdx, buf, stage, opened, closes>>
         /\ Len(stack) \in Nat \ {0} /\ Len(stack') = Len(stack) - 1
         /\ \A i \in 1 .. Len(stack') :
              /\ stack'[i].node = stack[i].node
              /\ stack'[i].next = IF i = Len(stack') THEN stack[i].next + 1 ELSE stack[i].next
<1>. DEFINE t == SubSeq(stack, 1, Len(stack) - 1)
<1>1. stack \in Seq(Frames) /\ Len(stack) \in Nat \ {0}
  BY DEF IInv, Types, TypeOK
<1>2. /\ wpc = "wait" /\ wpc' = "loop" /\ inFlight = {} /\ stack' = Advanced(t)
      /\ UNCHANGED <<rootIdx, buf, stage, opened, closes>>
  <2>1. ~(Len(stack) = 1)
    BY <1>1, NaturalOne
  <2>. QED
    BY <2>1 DEF SubtreeReturns
<1>3. buf = {}
  BY <1>2 DEF IInv, Slots
<1>4. t \in Seq(Frames) /\ Len(t) = Len(stack) - 1 /\ \A i \in 1 .. Len(stack) - 1 : t[i] = stack[i]
  BY <1>1, PoppedStack
<1>. HIDE DEF t
<1>5. Len(t) > 0
  BY <1>1, <1>4
<1>6. /\ Len(stack') = Len(t)
      /\ \A i \in 1 .. Len(t) :
           /\ stack'[i].node = t[i].node
           /\ stack'[i].next = IF i = Len(t) THEN t[i].next + 1 ELSE t[i].next
  BY <1>2, <1>4, <1>5, AdvancedStack
<1>. QED
  BY <1>1, <1>2, <1>3, <1>4, <1>6

\* The next root: the stack holds only it.
LEMMA NextRoot ==
  ASSUME IInv, SubtreeReturns, Running', ~(Len(stack) > 1)
  PROVE  /\ wpc = "wait" /\ wpc' = "loop" /\ buf = {} /\ inFlight = {}
         /\ UNCHANGED <<buf, stage, opened, closes>>
         /\ Len(stack) = 1 /\ rootIdx \in 1 .. Len(Roots) /\ rootIdx < Len(Roots)
         /\ rootIdx' = rootIdx + 1 /\ rootIdx + 1 \in 1 .. Len(Roots)
         /\ Len(stack') = 1 /\ Roots[rootIdx + 1] \in Assets
         /\ stack'[1].node = Roots[rootIdx + 1] /\ stack'[1].next = 1
<1>1. Len(stack) = 1 /\ rootIdx \in 1 .. Len(Roots)
  <2>1. stack \in Seq(Frames) /\ Len(stack) > 0 /\ rootIdx \in 1 .. Len(Roots)
    BY DEF IInv, Types, TypeOK
  <2>2. Len(stack) \in Nat
    BY <2>1
  <2>. QED
    BY <2>1, <2>2, NaturalOne
<1>2. wpc = "wait" /\ wpc' = "loop" /\ inFlight = {} /\ rootIdx < Len(Roots)
      /\ rootIdx' = rootIdx + 1 /\ stack' = <<Frame(Roots[rootIdx + 1])>>
      /\ UNCHANGED <<buf, stage, opened, closes>>
  BY DEF SubtreeReturns, Running
<1>3. buf = {}
  BY <1>2 DEF IInv, Slots
<1>4. rootIdx + 1 \in 1 .. Len(Roots) /\ Roots[rootIdx + 1] \in Assets
  BY <1>1, <1>2
<1>. QED
  BY <1>1, <1>2, <1>3, <1>4, RootStack

\* The activations below the innermost one are not the innermost one.
LEMMA BelowLast == \A n \in Nat : \A i \in 1 .. n - 1 : i \in 1 .. n /\ i # n
  OBVIOUS

\* The stack stays a path.
LEMMA PathStep == IInv /\ [Next]_vars /\ Running' => Path'
<1>. SUFFICES ASSUME IInv, [Next]_vars, Running' PROVE Path'
  OBVIOUS
<1>1. Path /\ BranchFresh /\ RootsFresh /\ Types
  BY StillRunning DEF IInv
<1>2. CASE ~Recurse /\ ~SubtreeReturns
  <2>1. /\ Len(stack') = Len(stack) /\ Len(stack) \in Nat \ {0}
        /\ \A i \in 1 .. Len(stack) : stack'[i].node = stack[i].node
    BY <1>2, PathStays
  <2>2. \A i, j \in 1 .. Len(stack') : stack'[i].node = stack'[j].node => i = j
    BY <1>1, <2>1 DEF Path
  <2>3. \A i \in 1 .. Len(stack') : stack'[i].node \in opened'
    BY <1>1, <2>1, OpenedStep DEF Path
  <2>4. ASSUME NEW i \in 1 .. Len(stack) - 1
        PROVE  stack'[i].node = stack[i].node /\ stack'[i].next = stack[i].next
    BY <1>2, <2>1, PathStays
  <2>5. \A i \in 1 .. Len(stack') - 1 : stack'[i].next <= Len(Kids[stack'[i].node])
    BY <1>1, <2>1, <2>4 DEF Path
  <2>6. ASSUME wpc' \in {"acquire", "connect"} \/ Pending' PROVE next' <= Len(Kids[node'])
    <3>1. stack' = stack /\ node' = node /\ next' = next
      BY <1>2, <2>6, PathStays DEF Pending
    <3>2. wpc \in {"acquire", "connect"} \/ Pending \/ NextChild
      BY <1>2, <2>6, PendingStep DEF Acquire, ConnectBranch
    <3>. QED
      BY <1>1, <3>1, <3>2 DEF Path, NextChild
  <2>. QED
    BY <2>2, <2>3, <2>5, <2>6 DEF Path, Pending
<1>3. CASE Recurse
  <2>. DEFINE n == Len(stack)
  <2>1. /\ n \in Nat \ {0} /\ Len(stack') = n + 1 /\ wpc' = "loop" /\ opened' = opened
        /\ \A i \in 1 .. n : stack'[i] = stack[i]
        /\ stack'[n + 1].node = child /\ stack'[n + 1].next = 1
        /\ next <= Len(Kids[node]) /\ Pending
    BY <1>3, Descent
  <2>2. \A i \in 1 .. n : stack[i].node # child
    BY <1>1, <2>1 DEF BranchFresh
  <2>3. child \in opened
    BY <1>1, <2>1 DEF BranchFresh
  <2>4. \A i \in 1 .. n : stack[i].next <= Len(Kids[stack[i].node])
    BY <1>1, <2>1 DEF Path, node, next
  <2>5. ~(wpc' \in {"acquire", "connect"} \/ Pending')
    BY <2>1 DEF Pending
  <2>. HIDE DEF n
  <2>6. \A i \in 1 .. n + 1 : i \in 1 .. n \/ i = n + 1
    BY <2>1
  <2>7. \A i, j \in 1 .. n + 1 : stack'[i].node = stack'[j].node => i = j
    BY <1>1, <2>1, <2>2, <2>6 DEF Path, n
  <2>8. \A i \in 1 .. n + 1 : stack'[i].node \in opened'
    BY <1>1, <2>1, <2>3, <2>6 DEF Path, n
  <2>9. \A i \in 1 .. (n + 1) - 1 : stack'[i].next <= Len(Kids[stack'[i].node])
    <3>1. \A i \in 1 .. (n + 1) - 1 : i \in 1 .. n
      BY <2>1
    <3>. QED
      BY <2>1, <2>4, <3>1
  <2>. QED
    BY <2>1, <2>5, <2>7, <2>8, <2>9 DEF Path
<1>4. CASE SubtreeReturns /\ Len(stack) > 1
  <2>1. /\ wpc' = "loop" /\ opened' = opened
        /\ Len(stack) \in Nat \ {0} /\ Len(stack') = Len(stack) - 1
        /\ \A i \in 1 .. Len(stack') : stack'[i].node = stack[i].node
    BY <1>4, Ascent
  <2>2. ASSUME NEW i \in 1 .. Len(stack') - 1 PROVE stack'[i].next = stack[i].next
    <3>1. Len(stack') \in Nat
      BY <2>1
    <3>2. i \in 1 .. Len(stack') /\ i # Len(stack')
      BY <3>1, BelowLast
    <3>. QED
      BY <1>4, <3>2, Ascent
  <2>3. \A i \in 1 .. Len(stack') : i \in 1 .. Len(stack) /\ i \in 1 .. Len(stack) - 1
    BY <2>1
  <2>4. \A i \in 1 .. Len(stack') - 1 : i \in 1 .. Len(stack')
    BY <2>1
  <2>5. ~(wpc' \in {"acquire", "connect"} \/ Pending')
    BY <2>1 DEF Pending
  <2>. QED
    BY <1>1, <2>1, <2>2, <2>3, <2>4, <2>5 DEF Path
<1>5. CASE SubtreeReturns /\ ~(Len(stack) > 1)
  <2>1. /\ wpc' = "loop" /\ opened' = opened /\ Len(stack') = 1 /\ rootIdx + 1 \in 1 .. Len(Roots)
        /\ stack'[1].node = Roots[rootIdx + 1]
    BY <1>5, NextRoot
  <2>2. Roots[rootIdx + 1] \in opened
    BY <1>1, <2>1 DEF RootsFresh, Range
  <2>3. ~(wpc' \in {"acquire", "connect"} \/ Pending')
    BY <2>1 DEF Pending
  <2>. QED
    BY <2>1, <2>2, <2>3 DEF Path
<1>. QED
  BY <1>2, <1>3, <1>4, <1>5

\* The branch that was connected keeps until the walker goes down into it.
LEMMA BranchFreshStep == IInv /\ [Next]_vars /\ Running' => BranchFresh'
<1>. SUFFICES ASSUME IInv, [Next]_vars, Running', Pending' PROVE BranchFresh'
  BY DEF BranchFresh
<1>1. Path /\ BranchFresh /\ Types /\ Running
  BY StillRunning DEF IInv
<1>2. ~Recurse /\ ~SubtreeReturns
  BY DEF Pending, Recurse, SubtreeReturns
<1>3. CASE Pending
  <2>1. child' = child /\ opened' = opened /\ wpc \notin {"connect", "self"}
    BY <1>2, <1>3, PendingStep DEF Pending
  <2>2. child \in Assets
    BY <1>1, <1>3, WalkerAt DEF Path
  <2>3. Untouched(child) /\ KidsUnopened(child) /\ child \in opened
    BY <1>1, <1>3 DEF BranchFresh
  <2>4. Untouched(child)' /\ KidsUnopened(child)'
    <3>1. PICK c \in Assets : c = child
      BY <2>2
    <3>2. Untouched(c) /\ KidsUnopened(c)
      BY <2>3, <3>1 DEF Untouched, KidsUnopened
    <3>3. Untouched(c)' /\ KidsUnopened(c)'
      BY <2>1, <3>2, UntouchedStays, KidsStay
    <3>. QED
      BY <2>1, <3>1, <3>3 DEF Untouched, KidsUnopened
  <2>5. \A i \in 1 .. Len(stack') : stack'[i].node # child
    BY <1>1, <1>2, <1>3, PathStays DEF BranchFresh
  <2>. QED
    BY <2>1, <2>3, <2>4, <2>5 DEF BranchFresh
<1>4. CASE ConnectBranch
  <2>1. stack' = stack /\ opened' = opened \union {child} /\ UNCHANGED <<buf, stage, closes>>
    BY <1>4 DEF ConnectBranch, walkVars
  <2>2. child' = child
    BY <2>1 DEF child, node, next
  <2>3. child \in Assets /\ Untouched(child) /\ KidsUnopened(child)
        /\ \A i \in 1 .. Len(stack) : stack[i].node # child
    BY <1>4, AtConnect DEF ConnectBranch
  <2>4. child \notin Range(Kids[child])
    <3>1. \A p \in Assets : child \in Range(Kids[p]) => p = node
      BY <1>4, AtConnect DEF ConnectBranch
    <3>2. node # child
      BY <1>1, <2>3, WalkerAt DEF node
    <3>. QED
      BY <2>3, <3>1, <3>2
  <2>5. \A k \in 1 .. Len(Kids[child]) : Kids[child][k] \in Range(Kids[child])
    BY DEF Range
  <2>6. KidsUnopened(child)'
    BY <2>1, <2>2, <2>3, <2>4, <2>5 DEF KidsUnopened
  <2>. QED
    BY <2>1, <2>2, <2>3, <2>6 DEF BranchFresh, Untouched
<1>. QED
  BY <1>2, <1>3, <1>4, PendingStep

\* What is not connected is untouched, and so are all assets below it.
LEMMA UnopenedStep ==
  IInv /\ [Next]_vars /\ Running' => \A a \in Assets \ opened' : Untouched(a)' /\ KidsUnopened(a)'
<1>. SUFFICES ASSUME IInv, [Next]_vars, Running', NEW a \in Assets, a \notin opened'
              PROVE  Untouched(a)' /\ KidsUnopened(a)'
  OBVIOUS
<1>1. a \notin opened
  BY OpenedStep
<1>2. node \in opened
  BY StillRunning, AtNode
<1>3. Untouched(a) /\ KidsUnopened(a)
  BY <1>1, StillRunning DEF Fresh
<1>. QED
  BY <1>1, <1>2, <1>3, UntouchedStays, KidsStay

\* A connect that leaves the child loop where it is has found a branch.
LEMMA ConnectMoves ==
  ASSUME IInv, [Next]_vars, wpc = "connect", opened' # opened, stack' = stack
  PROVE  ConnectBranch
<1>1. stack' # Advanced(stack)
  <2>1. stack \in Seq(Frames) /\ Len(stack) > 0
    BY DEF IInv, Types, TypeOK
  <2>2. Len(stack) \in 1 .. Len(stack) /\ stack[Len(stack)].next \in Nat
    BY <2>1, FrameTypes
  <2>3. Advanced(stack)[Len(stack)].next = stack[Len(stack)].next + 1
    BY <2>1, <2>2, AdvancedStack
  <2>. QED
    BY <2>2, <2>3
<1>. QED
  BY <1>1 DEF Next, Walker, Goroutine, Terminated, vars, NextChild, Acquire, GiveUp,
     ConnectFails, ConnectSkipped, ConnectLeaf, LoopEnds, Flush, FlushFails, Recurse,
     AddNode, CloseNode, SubtreeReturns, PickUp, Abandon, ScanEnds, ReleaseSlot, Cancel, After

\* The child that is connected is the one the walker is at.
LEMMA OnlyNextChild ==
  ASSUME IInv, wpc = "connect", NEW i \in 1 .. Len(stack),
         NEW k \in 1 .. Len(Kids[stack[i].node]), Kids[stack[i].node][k] = child
  PROVE  i = Len(stack) /\ k = stack[i].next
<1>1. Types /\ Path /\ next <= Len(Kids[node])
  BY DEF IInv, Walk, Running, Path
<1>2. Len(stack) \in 1 .. Len(stack) /\ node \in Assets /\ next \in 1 .. Len(Kids[node])
  BY <1>1, WalkerAt
<1>3. stack[i].node \in Assets
  BY <1>1, FrameTypes DEF Types
<1>4. stack[i].node = node /\ k = next
  BY <1>2, <1>3, ForestAssumption DEF child
<1>5. i = Len(stack)
  BY <1>1, <1>2, <1>4 DEF Path, node
<1>. QED
  BY <1>4, <1>5 DEF next

\* What the walker has not come to stays unconnected.
LEMMA FreshStep == IInv /\ [Next]_vars /\ Running' => Fresh'
<1>. SUFFICES ASSUME IInv, [Next]_vars, Running',
                     NEW i \in 1 .. Len(stack'), NEW k \in 1 .. Len(Kids[stack'[i].node]),
                     k > stack'[i].next \/ (k = stack'[i].next /\ i = Len(stack') /\ ~Pending')
              PROVE  Kids[stack'[i].node][k] \notin opened'
  BY UnopenedStep DEF Fresh
<1>1. Types /\ Path /\ Fresh /\ BranchFresh /\ RootsFresh
  BY StillRunning DEF IInv
<1>2. \A m \in 1 .. Len(stack) : stack[m].node \in Assets /\ stack[m].next \in Nat \ {0}
                                 /\ Len(Kids[stack[m].node]) \in Nat
  BY <1>1, FrameTypes DEF Types
<1>3. CASE ~Recurse /\ ~SubtreeReturns
  <2>1. /\ Len(stack') = Len(stack) /\ Len(stack) \in Nat \ {0}
        /\ stack'[i].node = stack[i].node
        /\ stack'[i].next = IF stack' # stack /\ i = Len(stack) THEN stack[i].next + 1
                                                               ELSE stack[i].next
        /\ stack' # stack => wpc = "connect"
    BY <1>3, PathStays
  <2>2. Pending => Pending' /\ opened' = opened
    BY <1>3, PendingStep
  <2>3. i \in 1 .. Len(stack) /\ k \in 1 .. Len(Kids[stack[i].node])
    BY <2>1
  <2>4. k > stack[i].next \/ (k = stack[i].next /\ i = Len(stack) /\ ~Pending)
    BY <1>2, <2>1, <2>2, <2>3
  <2>5. Kids[stack[i].node][k] \notin opened
    BY <1>1, <2>3, <2>4 DEF Fresh
  <2>6. ASSUME opened' # opened, Kids[stack[i].node][k] = child PROVE FALSE
    <3>1. wpc = "connect" /\ i = Len(stack) /\ k = stack[i].next
      BY <2>3, <2>6, OpenedStep, OnlyNextChild
    <3>2. stack' = stack /\ ~Pending'
      BY <1>2, <2>1, <2>3, <3>1
    <3>3. ConnectBranch
      BY <1>3, <2>6, <3>1, <3>2, ConnectMoves
    <3>. QED
      BY <3>2, <3>3 DEF ConnectBranch, Pending
  <2>. QED
    BY <2>1, <2>5, <2>6, OpenedStep
<1>4. CASE Recurse
  <2>1. /\ Len(stack) \in Nat \ {0} /\ Len(stack') = Len(stack) + 1 /\ opened' = opened
        /\ \A m \in 1 .. Len(stack) : stack'[m] = stack[m]
        /\ stack'[Len(stack) + 1].node = child /\ Pending
    BY <1>4, Descent
  <2>2. CASE i = Len(stack) + 1
    BY <1>1, <2>1, <2>2 DEF BranchFresh, KidsUnopened
  <2>3. CASE i \in 1 .. Len(stack)
    <3>1. i # Len(stack') /\ stack'[i] = stack[i]
      BY <2>1, <2>3, BelowLast
    <3>2. k > stack[i].next /\ k \in 1 .. Len(Kids[stack[i].node])
      BY <3>1
    <3>. QED
      BY <1>1, <2>1, <2>3, <3>1, <3>2 DEF Fresh
  <2>. QED
    BY <2>1, <2>2, <2>3
<1>5. CASE SubtreeReturns /\ Len(stack) > 1
  <2>1. /\ Len(stack) \in Nat \ {0} /\ Len(stack') = Len(stack) - 1 /\ opened' = opened
        /\ stack'[i].node = stack[i].node
        /\ stack'[i].next = IF i = Len(stack') THEN stack[i].next + 1 ELSE stack[i].next
    BY <1>5, Ascent
  <2>2. i \in 1 .. Len(stack)
    BY <2>1
  <2>3. k \in 1 .. Len(Kids[stack[i].node]) /\ k > stack[i].next
    BY <1>2, <2>1, <2>2
  <2>. QED
    BY <1>1, <2>1, <2>2, <2>3 DEF Fresh
<1>6. CASE SubtreeReturns /\ ~(Len(stack) > 1)
  <2>1. /\ opened' = opened /\ Len(stack') = 1 /\ rootIdx \in 1 .. Len(Roots) /\ rootIdx + 1 \in 1 .. Len(Roots)
        /\ stack'[1].node = Roots[rootIdx + 1]
    BY <1>6, NextRoot
  <2>2. rootIdx + 1 \in rootIdx + 1 .. Len(Roots) /\ i = 1
    BY <2>1
  <2>. QED
    BY <1>1, <2>1, <2>2 DEF RootsFresh, KidsUnopened
<1>. QED
  BY <1>3, <1>4, <1>5, <1>6

\* The roots to come are connected and wait.
LEMMA RootsFreshStep == IInv /\ [Next]_vars /\ Running' => RootsFresh'
<1>. SUFFICES ASSUME IInv, [Next]_vars, Running' PROVE RootsFresh'
  OBVIOUS
<1>1. Types /\ Path /\ RootsFresh
  BY StillRunning DEF IInv
<1>2. Len(stack) \in 1 .. Len(stack) /\ rootIdx \in 1 .. Len(Roots)
  BY <1>1, WalkerAt DEF Types, TypeOK
<1>3. Range(Roots) \subseteq opened'
  BY <1>1, OpenedStep DEF RootsFresh
<1>4. ASSUME NEW j \in rootIdx + 1 .. Len(Roots) PROVE Untouched(Roots[j])' /\ KidsUnopened(Roots[j])'
  <2>1. Roots[j] \in Assets /\ Roots[j] \in Range(Roots)
    BY <1>2, <1>4 DEF Range
  <2>2. PICK a \in Assets : a = Roots[j]
    BY <2>1
  <2>3. Untouched(a) /\ KidsUnopened(a) /\ a # node
    BY <1>1, <1>2, <1>4, <2>2 DEF RootsFresh, node
  <2>4. wpc = "connect" => a # child
    BY <2>1, <2>2, AtConnect
  <2>5. Untouched(a)' /\ KidsUnopened(a)'
    BY <2>3, <2>4, UntouchedStays, KidsStay
  <2>. QED
    BY <2>2, <2>5
<1>5. CASE ~Recurse /\ ~SubtreeReturns
  <2>1. rootIdx' = rootIdx /\ Len(stack') = Len(stack)
        /\ \A i \in 1 .. Len(stack) : stack'[i].node = stack[i].node
    BY <1>5, PathStays
  <2>. QED
    BY <1>1, <1>3, <1>4, <2>1 DEF RootsFresh
<1>6. CASE Recurse
  <2>1. /\ rootIdx' = rootIdx /\ Len(stack) \in Nat \ {0} /\ Len(stack') = Len(stack) + 1
        /\ \A m \in 1 .. Len(stack) : stack'[m] = stack[m]
        /\ stack'[Len(stack) + 1].node = child /\ child \in Range(Kids[node])
    BY <1>6, Descent
  <2>2. \A j \in rootIdx + 1 .. Len(Roots) : Roots[j] # child
    <3>1. node \in Assets
      BY <1>1, WalkerAt
    <3>2. \A j \in rootIdx + 1 .. Len(Roots) : Roots[j] \in Range(Roots)
      BY <1>2 DEF Range
    <3>. QED
      BY <2>1, <3>1, <3>2, ForestAssumption
  <2>3. \A i \in 1 .. Len(stack') : i \in 1 .. Len(stack) \/ i = Len(stack) + 1
    BY <2>1
  <2>. QED
    BY <1>1, <1>3, <1>4, <2>1, <2>2, <2>3 DEF RootsFresh
<1>7. CASE SubtreeReturns /\ Len(stack) > 1
  <2>1. /\ rootIdx' = rootIdx /\ Len(stack) \in Nat \ {0} /\ Len(stack') = Len(stack) - 1
        /\ \A i \in 1 .. Len(stack') : stack'[i].node = stack[i].node
    BY <1>7, Ascent
  <2>2. \A i \in 1 .. Len(stack') : i \in 1 .. Len(stack)
    BY <2>1
  <2>. QED
    BY <1>1, <1>3, <1>4, <2>1, <2>2 DEF RootsFresh
<1>8. CASE SubtreeReturns /\ ~(Len(stack) > 1)
  <2>1. /\ rootIdx' = rootIdx + 1 /\ Len(stack') = 1 /\ rootIdx + 1 \in 1 .. Len(Roots)
        /\ stack'[1].node = Roots[rootIdx + 1]
    BY <1>8, NextRoot
  <2>2. ASSUME NEW j \in rootIdx' + 1 .. Len(Roots) PROVE j \in rootIdx + 1 .. Len(Roots) /\ Roots[j] # Roots[rootIdx + 1]
    <3>1. j \in rootIdx + 1 .. Len(Roots) /\ j \in 1 .. Len(Roots) /\ j # rootIdx + 1
      BY <1>2, <2>1
    <3>. QED
      BY <2>1, <3>1, ForestAssumption
  <2>. QED
    BY <1>3, <1>4, <2>1, <2>2 DEF RootsFresh
<1>. QED
  BY <1>5, <1>6, <1>7, <1>8

\* The assets on the stack wait for the walker to come back.
LEMMA StackUntouchedStep == IInv /\ [Next]_vars /\ Running' => StackUntouched'
<1>. SUFFICES ASSUME IInv, [Next]_vars, Running',
                     NEW i \in 1 .. Len(stack'), i < Len(stack') \/ wpc' \notin {"flushNode", "wait"}
              PROVE  Untouched(stack[i].node)'
  BY DEF StackUntouched
<1>1. Types /\ Path /\ BranchFresh /\ RootsFresh /\ StackUntouched
  BY StillRunning DEF IInv
<1>2. \A m \in 1 .. Len(stack) : stack[m].node \in Assets
  BY <1>1, FrameTypes DEF Types
<1>3. CASE ~Recurse /\ ~SubtreeReturns
  <2>1. Len(stack') = Len(stack) /\ Len(stack) \in Nat \ {0} /\ stack'[i].node = stack[i].node
    BY <1>3, PathStays
  <2>2. wpc' \notin {"flushNode", "wait"} => wpc \notin {"flushNode", "wait"}
    BY <1>3, PendingStep
  <2>3. PICK a \in Assets : a = stack[i].node
    BY <1>2, <2>1
  <2>4. Untouched(a)
    BY <1>1, <2>1, <2>2, <2>3 DEF StackUntouched
  <2>5. wpc = "connect" => a # child
    BY <2>1, <2>3, AtConnect
  <2>6. a = node => wpc' \notin {"flushNode", "wait"}
    <3>1. i \in 1 .. Len(stack) /\ Len(stack) \in 1 .. Len(stack)
      BY <2>1
    <3>2. a = node => i = Len(stack)
      BY <1>1, <2>3, <3>1 DEF Path, node
    <3>3. ~(Len(stack) < Len(stack))
      BY <2>1
    <3>. QED
      BY <2>1, <3>2, <3>3
  <2>7. Untouched(a)'
    BY <2>4, <2>5, <2>6, UntouchedStays
  <2>. QED
    BY <2>1, <2>3, <2>7
<1>4. CASE Recurse
  <2>1. /\ Len(stack) \in Nat \ {0} /\ Len(stack') = Len(stack) + 1 /\ wpc = "drain" /\ Pending
        /\ \A m \in 1 .. Len(stack) : stack'[m] = stack[m]
        /\ stack'[Len(stack) + 1].node = child /\ UNCHANGED <<buf, stage, closes>>
    BY <1>4, Descent
  <2>2. i \in 1 .. Len(stack) \/ i = Len(stack) + 1
    BY <2>1
  <2>. QED
    BY <1>1, <2>1, <2>2 DEF StackUntouched, BranchFresh, Untouched
<1>5. CASE SubtreeReturns /\ Len(stack) > 1
  <2>1. /\ Len(stack) \in Nat \ {0} /\ Len(stack') = Len(stack) - 1 /\ UNCHANGED <<buf, stage, closes>>
        /\ stack'[i].node = stack[i].node
    BY <1>5, Ascent
  <2>2. i \in 1 .. Len(stack) /\ i < Len(stack)
    BY <2>1
  <2>. QED
    BY <1>1, <2>1, <2>2 DEF StackUntouched, Untouched
<1>6. CASE SubtreeReturns /\ ~(Len(stack) > 1)
  <2>1. /\ Len(stack') = 1 /\ rootIdx + 1 \in 1 .. Len(Roots) /\ UNCHANGED <<buf, stage, closes>>
        /\ stack'[1].node = Roots[rootIdx + 1] /\ rootIdx \in 1 .. Len(Roots)
    BY <1>6, NextRoot
  <2>2. rootIdx + 1 \in rootIdx + 1 .. Len(Roots) /\ i = 1
    BY <2>1
  <2>. QED
    BY <1>1, <2>1, <2>2 DEF RootsFresh, Untouched
<1>. QED
  BY <1>3, <1>4, <1>5, <1>6

\* Active assets stay so until they are closed.
LEMMA ActiveStep ==
  ASSUME IInv, [Next]_vars, Running', NEW a \in Assets, Active(a)
  PROVE  Active(a)' \/ closes'[a] = 1
<1>1. Types /\ Ledger
  BY DEF IInv
<1>2. /\ stage \in [Assets -> {"idle", "submitted", "scanning", "closing", "done"}]
      /\ closes \in [Assets -> Nat]
  BY <1>1 DEF Types, TypeOK
<1>3. closes[a] = 0
  BY <1>1 DEF Ledger, OpenNow
<1>. USE <1>1, <1>2, <1>3 DEF Active, walkVars, Running
<1>4. CASE NextChild \/ Acquire \/ GiveUp \/ LoopEnds \/ Recurse \/ SubtreeReturns \/ Cancel
  BY <1>4 DEF NextChild, Acquire, GiveUp, LoopEnds, Recurse, SubtreeReturns, Cancel
<1>5. CASE ConnectFails \/ ConnectBranch \/ ConnectSkipped \/ ConnectLeaf
  BY <1>5 DEF ConnectFails, ConnectBranch, ConnectSkipped, ConnectLeaf
<1>6. CASE Flush
  BY <1>6 DEF Flush
<1>7. CASE FlushFails
  BY <1>7 DEF FlushFails
<1>8. CASE AddNode \/ CloseNode
  BY <1>8 DEF AddNode, CloseNode
<1>9. ASSUME NEW b \in Assets, Goroutine(b) PROVE Active(a)' \/ closes'[a] = 1
  BY <1>9 DEF Goroutine, PickUp, Abandon, ScanEnds, ReleaseSlot, CloseAsset
<1>10. CASE UNCHANGED vars
  BY <1>10 DEF vars
<1>. QED
  BY <1>4, <1>5, <1>6, <1>7, <1>8, <1>9, <1>10 DEF Next, Walker, Terminated

\* The node is in the batch, scanned or closed before the walker leaves it.
LEMMA NodeDoneStep == IInv /\ [Next]_vars /\ Running' => NodeDone'
<1>. SUFFICES ASSUME IInv, [Next]_vars, Running' PROVE NodeDone'
  OBVIOUS
<1>1. Types /\ Ledger /\ NodeDone
  BY StillRunning DEF IInv
<1>2. CASE Recurse \/ SubtreeReturns
  BY <1>2 DEF Recurse, SubtreeReturns, NodeDone, Running
<1>3. CASE ~Recurse /\ ~SubtreeReturns
  <2>1. node' = node
    BY <1>3, PathStays
  <2>2. PICK n \in Assets : n = node
    BY StillRunning, AtNode
  <2>3. /\ stage \in [Assets -> {"idle", "submitted", "scanning", "closing", "done"}]
        /\ closes \in [Assets -> Nat]
    BY <1>1 DEF Types, TypeOK
  <2>4. wpc = "flushNode" => n \in buf
    BY <1>1, <2>2 DEF NodeDone
  <2>5. wpc = "wait" => closes[n] = 1 \/ stage[n] \in {"submitted", "scanning"}
    BY <1>1, <2>2 DEF NodeDone
  <2>6. Running /\ (wpc = "self" => closes[n] = 0)
    BY <2>2, StillRunning, AtNode DEF Untouched
  <2>7. stage[n] \in {"submitted", "scanning"} => closes[n] = 0
    BY <1>1 DEF Ledger, Active, OpenNow
  <2>8. /\ wpc' = "flushNode" => n \in buf'
        /\ wpc' = "wait" => closes'[n] = 1 \/ stage'[n] \in {"submitted", "scanning"}
    <3>. USE <2>3, <2>4, <2>5, <2>6, <2>7 DEF walkVars, Running
    <3>1. CASE NextChild \/ Acquire \/ GiveUp \/ LoopEnds \/ ConnectFails \/ ConnectBranch
               \/ ConnectSkipped \/ ConnectLeaf \/ FlushFails
      BY <3>1 DEF NextChild, Acquire, GiveUp, LoopEnds, ConnectFails, ConnectBranch, ConnectSkipped,
                  ConnectLeaf, FlushFails
    <3>2. CASE Flush
      BY <3>2 DEF Flush, After
    <3>3. CASE AddNode
      BY <2>2, <3>3 DEF AddNode
    <3>4. CASE CloseNode
      BY <2>2, <3>4 DEF CloseNode, CloseAsset
    <3>5. ASSUME NEW b \in Assets, Goroutine(b)
          PROVE  /\ wpc' = "flushNode" => n \in buf'
                 /\ wpc' = "wait" => closes'[n] = 1 \/ stage'[n] \in {"submitted", "scanning"}
      BY <3>5 DEF Goroutine, PickUp, Abandon, ScanEnds, ReleaseSlot, CloseAsset
    <3>6. CASE Cancel \/ UNCHANGED vars
      BY <3>6 DEF Cancel, vars
    <3>. QED
      BY <1>3, <3>1, <3>2, <3>3, <3>4, <3>5, <3>6 DEF Next, Walker, Terminated
  <2>. QED
    BY <2>1, <2>2, <2>8 DEF NodeDone
<1>. QED
  BY <1>2, <1>3

\* Nothing is closed less often than before.
LEMMA CountsUp ==
  ASSUME IInv, [Next]_vars, NEW a \in Assets
  PROVE  closes'[a] >= closes[a]
<1>1. closes \in [Assets -> Nat] /\ Types
  BY DEF IInv, Types, TypeOK
<1>2. closes' = closes \/ \E b : closes' = [closes EXCEPT ![b] = @ + 1]
      \/ closes' = [c \in Assets |-> closes[c] + (IF c \in buf THEN 1 ELSE 0)]
  BY DEF Next, Walker, Goroutine, Terminated, vars, NextChild, Acquire, GiveUp,
     ConnectFails, ConnectBranch, ConnectSkipped, ConnectLeaf, LoopEnds, Flush, FlushFails, Recurse,
     AddNode, CloseNode, SubtreeReturns, PickUp, Abandon, ScanEnds, ReleaseSlot, Cancel, CloseAsset
<1>3. ASSUME NEW b, closes' = [closes EXCEPT ![b] = @ + 1] PROVE closes'[a] >= closes[a]
  BY <1>1, <1>3
<1>4. CASE closes' = [b \in Assets |-> closes[b] + (IF b \in buf THEN 1 ELSE 0)]
  BY <1>1, <1>4
<1>5. CASE closes' = closes
  BY <1>1, <1>5
<1>. QED
  BY <1>2, <1>3, <1>4, <1>5

\* Somebody will close whatever is open.
LEMMA OpenAtHandStep == IInv /\ [Next]_vars /\ Running' => OpenAtHand'
<1>. SUFFICES ASSUME IInv, [Next]_vars, Running', NEW a \in opened', closes'[a] = 0
              PROVE  AtHand(a)'
  BY DEF OpenAtHand, OpenNow
<1>1. Types /\ Path /\ Ledger /\ OpenAtHand /\ NodeDone /\ Slots
  BY StillRunning DEF IInv
<1>2. /\ opened \subseteq Assets
      /\ stage \in [Assets -> {"idle", "submitted", "scanning", "closing", "done"}]
      /\ closes \in [Assets -> Nat]
  BY <1>1 DEF Types, TypeOK
<1>3. CASE a \notin opened
  <2>1. wpc = "connect" /\ a = child /\ a \in Assets /\ opened' # opened
    BY <1>3, OpenedStep, AtConnect
  <2>2. ConnectBranch \/ ConnectSkipped \/ ConnectLeaf
    BY <2>1 DEF Next, Walker, Goroutine, Terminated, vars, NextChild, Acquire, GiveUp,
       ConnectFails, LoopEnds, Flush, FlushFails, Recurse, AddNode, CloseNode, SubtreeReturns,
       PickUp, Abandon, ScanEnds, ReleaseSlot, Cancel
  <2>3. CASE ConnectBranch
    <3>1. child' = child /\ Pending'
      BY <2>3 DEF ConnectBranch, walkVars, child, node, next, Pending
    <3>. QED
      BY <2>1, <3>1 DEF AtHand
  <2>4. CASE ConnectSkipped
    <3>1. closes'[a] = closes[a] + 1
      BY <1>2, <2>1, <2>4 DEF ConnectSkipped, CloseAsset
    <3>. QED
      BY <1>2, <2>1, <3>1
  <2>5. CASE ConnectLeaf
    BY <2>1, <2>5 DEF ConnectLeaf, AtHand, Active
  <2>. QED
    BY <2>2, <2>3, <2>4, <2>5
<1>4. CASE a \in opened
  <2>1. a \in Assets
    BY <1>2, <1>4
  <2>2. closes[a] = 0
    BY <1>2, <2>1, CountsUp
  <2>3. AtHand(a)
    BY <1>1, <1>4, <2>2 DEF OpenAtHand, OpenNow
  <2>4. Active(a) => Active(a)'
    BY <2>1, ActiveStep
  <2>5. CASE ~Recurse /\ ~SubtreeReturns
    <3>1. /\ rootIdx' = rootIdx /\ Len(stack') = Len(stack) /\ Len(stack) \in Nat \ {0}
          /\ \A i \in 1 .. Len(stack) : stack'[i].node = stack[i].node
          /\ node' = node
      BY <2>5, PathStays
    <3>2. CASE Active(a)
      BY <2>4, <3>2 DEF AtHand
    <3>3. CASE Pending /\ a = child
      BY <2>5, <3>3, PendingStep DEF AtHand
    <3>4. CASE \E j \in rootIdx + 1 .. Len(Roots) : a = Roots[j]
      BY <3>1, <3>4 DEF AtHand
    <3>5. CASE \E i \in 1 .. Len(stack) : a = stack[i].node /\ (i < Len(stack) \/ wpc' \notin {"flushNode", "wait"})
      BY <3>1, <3>5 DEF AtHand
    <3>6. CASE a = node /\ wpc \notin {"flushNode", "wait"} /\ wpc' \in {"flushNode", "wait"}
      <4>1. AddNode \/ CloseNode
        BY <2>5, <3>6 DEF Next, Walker, Goroutine, Terminated, vars, NextChild, Acquire, GiveUp,
           ConnectFails, ConnectBranch, ConnectSkipped, ConnectLeaf, LoopEnds, Flush, FlushFails,
           PickUp, Abandon, ScanEnds, ReleaseSlot, Cancel, After
      <4>2. CASE AddNode
        BY <3>6, <4>2 DEF AddNode, AtHand, Active
      <4>3. CASE CloseNode
        <5>1. closes'[a] = closes[a] + 1
          BY <1>2, <2>1, <3>6, <4>3 DEF CloseNode, CloseAsset
        <5>. QED
          BY <1>2, <2>1, <5>1
      <4>. QED
        BY <4>1, <4>2, <4>3
    <3>7. ASSUME NEW i \in 1 .. Len(stack), a = stack[i].node, i = Len(stack) PROVE a = node
      BY <3>7 DEF node
    <3>8. \A i \in 1 .. Len(stack) : i < Len(stack) \/ i = Len(stack)
      BY <3>1
    <3>. QED
      BY <2>3, <3>2, <3>3, <3>4, <3>5, <3>6, <3>7, <3>8 DEF AtHand
  <2>6. ASSUME Recurse \/ SubtreeReturns PROVE ~Active(a)
    BY <1>1, <2>1, <2>6 DEF Recurse, SubtreeReturns, Active, inFlight, Slots
  <2>7. CASE Recurse
    <3>1. /\ rootIdx' = rootIdx /\ Len(stack) \in Nat \ {0} /\ Len(stack') = Len(stack) + 1 /\ wpc' = "loop"
          /\ \A m \in 1 .. Len(stack) : stack'[m] = stack[m]
          /\ stack'[Len(stack) + 1].node = child
      BY <2>7, Descent
    <3>2. Len(stack) + 1 \in 1 .. Len(stack') /\ \A i \in 1 .. Len(stack) : i \in 1 .. Len(stack')
      BY <3>1
    <3>. QED
      BY <2>3, <2>6, <2>7, <3>1, <3>2 DEF AtHand
  <2>8. CASE SubtreeReturns /\ Len(stack) > 1
    <3>1. /\ rootIdx' = rootIdx /\ Len(stack) \in Nat \ {0} /\ Len(stack') = Len(stack) - 1
          /\ \A i \in 1 .. Len(stack') : stack'[i].node = stack[i].node
          /\ wpc = "wait" /\ wpc' = "loop"
      BY <2>8, Ascent
    <3>2. \A i \in 1 .. Len(stack) : i < Len(stack) => i \in 1 .. Len(stack')
      BY <3>1
    <3>. QED
      BY <2>3, <2>6, <2>8, <3>1, <3>2 DEF AtHand, Pending
  <2>9. CASE SubtreeReturns /\ ~(Len(stack) > 1)
    <3>1. /\ Len(stack) = 1 /\ rootIdx \in 1 .. Len(Roots) /\ rootIdx' = rootIdx + 1 /\ Len(stack') = 1
          /\ stack'[1].node = Roots[rootIdx + 1] /\ wpc = "wait" /\ wpc' = "loop"
      BY <2>9, NextRoot
    <3>2. PICK j \in rootIdx + 1 .. Len(Roots) : a = Roots[j]
      BY <2>3, <2>6, <2>9, <3>1 DEF AtHand, Pending
    <3>3. j = rootIdx + 1 \/ j \in rootIdx' + 1 .. Len(Roots)
      BY <3>1
    <3>. QED
      BY <3>1, <3>2, <3>3 DEF AtHand
  <2>. QED
    BY <2>5, <2>7, <2>8, <2>9
<1>. QED
  BY <1>3, <1>4

\* The walk stays well formed: no asset is reached twice, parents stay open.
LEMMA WalkStep == IInv /\ [Next]_vars => Walk'
<1>. SUFFICES ASSUME IInv, [Next]_vars, Running' PROVE Walk'
  BY DEF Walk
<1>. QED
  BY PathStep, FreshStep, BranchFreshStep, RootsFreshStep, StackUntouchedStep, NodeDoneStep,
     OpenAtHandStep DEF Walk

-----------------------------------------------------------------------------
(* The invariant *)

\* The invariant holds when the job starts.
LEMMA InitInv == Init => IInv
<1>. SUFFICES ASSUME Init PROVE IInv
  OBVIOUS
<1>1. /\ rootIdx = 1 /\ wpc = "loop" /\ buf = {} /\ connSem = 0
      /\ stage = [a \in Assets |-> "idle"] /\ opened = Range(Roots)
      /\ closes = [a \in Assets |-> 0] /\ scanned = {} /\ reported = {} /\ cancelled = FALSE
  BY DEF Init
<1>2. Len(Roots) \in Nat \ {0} /\ Roots[1] \in Assets /\ Roots[1] \in Range(Roots)
  BY DEF Range
<1>3. /\ stack \in Seq(Frames) /\ Len(stack) = 1
      /\ stack[1].node = Roots[1] /\ stack[1].next = 1 /\ Len(Kids[Roots[1]]) \in Nat
  BY <1>2, RootStack DEF Init
<1>4. inFlight = {} /\ ~Pending /\ Running
  BY <1>1 DEF inFlight, Pending, Running
<1>5. Cardinality({}) = 0
  BY FS_EmptySet
<1>6. Range(Roots) \subseteq Assets
  BY DEF Range
<1>7. \A a \in Assets : Untouched(a) /\ ~Active(a)
  BY <1>1 DEF Untouched, Active
<1>8. ASSUME NEW a \in Assets PROVE KidsUnopened(a)
  <2>1. \A k \in 1 .. Len(Kids[a]) : Kids[a][k] \in Range(Kids[a])
    BY DEF Range
  <2>. QED
    BY <1>1, <2>1, ForestAssumption DEF KidsUnopened
<1>9. Types
  <2>1. StackType(stack)
    BY <1>2, <1>3 DEF StackType
  <2>2. \A i \in 1 .. Len(stack) : /\ stack[i].node \in Assets
                                  /\ stack[i].next \in 1 .. Len(Kids[stack[i].node]) + 1
    <3>1. \A i \in 1 .. Len(stack) : i = 1
      BY <1>3
    <3>2. 1 \in 1 .. Len(Kids[Roots[1]]) + 1
      BY <1>3
    <3>. QED
      BY <1>2, <1>3, <3>1, <3>2
  <2>3. Values
    <3>1. 1 \in 1 .. Len(Roots) /\ 0 \in 0 .. MaxConn
      BY <1>2
    <3>2. stage \in [Assets -> {"idle", "submitted", "scanning", "closing", "done"}] /\ closes \in [Assets -> Nat]
      BY <1>1
    <3>3. cancelled \in BOOLEAN
      BY <1>1
    <3>. QED
      BY <1>1, <1>6, <3>1, <3>2, <3>3 DEF Values
  <2>. QED
    BY <2>1, <2>2, <2>3 DEF Types, TypeOK, StackType, Values
<1>10. Slots
  BY <1>1, <1>4, <1>5 DEF Slots
<1>11. Ledger
  BY <1>1, <1>7 DEF Ledger
<1>12. LeafAtHand /\ OneSubtree /\ Accounted /\ Finished
  BY <1>1, <1>4, <1>6 DEF LeafAtHand, OneSubtree, Accounted, Finished, OpenNow
<1>13. Path
  BY <1>1, <1>2, <1>3, <1>4 DEF Path
<1>14. Fresh
  BY <1>2, <1>3, <1>7, <1>8 DEF Fresh, KidsUnopened
<1>15. BranchFresh /\ NodeDone
  BY <1>1, <1>4 DEF BranchFresh, NodeDone
<1>16. RootsFresh
  <2>1. ASSUME NEW j \in 2 .. Len(Roots) PROVE Roots[j] \in Assets /\ Roots[j] # Roots[1]
    <3>1. j \in 1 .. Len(Roots) /\ 1 \in 1 .. Len(Roots) /\ j # 1
      BY <1>2
    <3>. QED
      BY <3>1, ForestAssumption
  <2>2. rootIdx + 1 = 2
    BY <1>1
  <2>. QED
    BY <1>1, <1>3, <1>7, <1>8, <2>1, <2>2 DEF RootsFresh
<1>17. StackUntouched
  BY <1>2, <1>3, <1>7 DEF StackUntouched
<1>18. OpenAtHand
  <2>1. ASSUME NEW a \in Range(Roots) PROVE AtHand(a)
    <3>1. PICK j \in 1 .. Len(Roots) : a = Roots[j]
      BY <2>1 DEF Range
    <3>2. CASE j = 1
      BY <1>1, <1>3, <3>1, <3>2 DEF AtHand
    <3>3. CASE j # 1
      BY <1>1, <1>2, <3>1, <3>3 DEF AtHand
    <3>. QED
      BY <3>2, <3>3
  <2>. QED
    BY <1>1, <2>1 DEF OpenAtHand, OpenNow
<1>. QED
  BY <1>9, <1>10, <1>11, <1>12, <1>13, <1>14, <1>15, <1>16, <1>17, <1>18 DEF IInv, Walk

\* The inductive invariant holds throughout a job.
THEOREM PipelineInvariant == Spec => []IInv
<1>1. IInv /\ [Next]_vars => IInv'
  BY TypesStep, SlotsStep, LedgerStep, LeafStep, SubtreeStep, AccountedStep, FinishedStep, WalkStep
     DEF IInv
<1>. QED
  BY <1>1, InitInv, PTL DEF Spec

-----------------------------------------------------------------------------
(* The properties of the runs *)

\* Every taken slot belongs to an asset in the batch, in flight or being connected:
\* no error, skip or cancellation path of scanSubtree and the dispatcher leaks one
\* or releases one twice.
THEOREM SlotsAreAccounted == Spec => []SlotsAccounted
<1>1. IInv => SlotsAccounted
  BY DEF IInv, Types, Slots, SlotsAccounted
<1>. QED
  BY <1>1, PipelineInvariant, PTL

\* At most MaxConn leaves are connected at a time.
THEOREM LeavesAreBounded == Spec => []LeavesBounded
<1>1. IInv => LeavesBounded
  <2>. SUFFICES ASSUME IInv PROVE LeavesBounded
    OBVIOUS
  <2>. DEFINE leaves == {a \in OpenNow : Kids[a] = <<>> /\ a \notin Range(Roots)}
  <2>1. Types /\ Slots /\ LeafAtHand
    BY DEF IInv
  <2>2. /\ IsFiniteSet(buf) /\ Cardinality(buf) \in Nat
        /\ IsFiniteSet(inFlight) /\ Cardinality(inFlight) \in Nat
    BY <2>1, FiniteSlots
  <2>3. leaves \subseteq buf \union inFlight
    BY <2>1 DEF LeafAtHand, Active, inFlight, OpenNow, Types, TypeOK
  <2>. HIDE DEF leaves
  <2>4. IsFiniteSet(buf \union inFlight) /\ IsFiniteSet(buf \cap inFlight)
    BY <2>2, FS_Union, FS_Intersection
  <2>5. Cardinality(buf \union inFlight) = Cardinality(buf) + Cardinality(inFlight) - Cardinality(buf \cap inFlight)
        /\ Cardinality(buf \cap inFlight) \in Nat
    BY <2>2, <2>4, FS_Union, FS_CardinalityType
  <2>6. Cardinality(leaves) <= Cardinality(buf \union inFlight) /\ Cardinality(leaves) \in Nat
    BY <2>3, <2>4, FS_Subset, FS_CardinalityType
  <2>7. connSem \in 0 .. MaxConn /\ Cardinality(buf) + Cardinality(inFlight) <= connSem
    BY <2>1, <2>2 DEF Slots, Types, TypeOK
  <2>8. Cardinality(leaves) <= MaxConn
    BY <2>2, <2>5, <2>6, <2>7
  <2>. QED
    BY <2>8 DEF LeavesBounded, leaves
<1>. QED
  BY <1>1, PipelineInvariant, PTL

\* CloseAsset is called at most once per asset, and never while the asset is in
\* the batch or has a scan.
THEOREM AssetsCloseOnce == Spec => []ClosedOnce
<1>1. IInv => ClosedOnce
  BY DEF IInv, Ledger, Active, ClosedOnce
<1>. QED
  BY <1>1, PipelineInvariant, PTL

\* Only one branch's children are in memory at a time, because the walker drains
\* before it goes down and before it returns.
THEOREM OneSubtreeAtATime == Spec => []OneSubtree
<1>1. IInv => OneSubtree
  BY DEF IInv
<1>. QED
  BY <1>1, PipelineInvariant, PTL

\* A job that returns without an error has closed every connected asset, freed
\* every slot and, unless it was cancelled, scanned or reported every asset.
THEOREM JobFinishesClean == Spec => []CleanFinish
<1>1. IInv => CleanFinish
  <2>. SUFFICES ASSUME IInv, wpc = "finished" PROVE CleanFinish
    BY DEF CleanFinish
  <2>1. Types /\ Ledger /\ Slots /\ Accounted /\ Finished
    BY DEF IInv
  <2>2. OpenNow = {} /\ inFlight = {} /\ buf = {}
    BY <2>1 DEF Finished, Slots
  <2>3. connSem = 0
    BY <2>1, <2>2, FS_EmptySet DEF Slots
  <2>4. \A a \in opened : a \in Assets /\ closes[a] = 1
    <3>1. closes \in [Assets -> Nat] /\ opened \subseteq Assets
      BY <2>1 DEF Types, TypeOK
    <3>2. \A a \in opened : closes[a] # 0 /\ closes[a] <= 1
      BY <2>1, <2>2, <3>1 DEF Ledger, OpenNow
    <3>. QED
      BY <3>1, <3>2
  <2>. QED
    BY <2>1, <2>2, <2>3, <2>4 DEF CleanFinish, Accounted
<1>. QED
  BY <1>1, PipelineInvariant, PTL

\* When a batch fits into the connection slots, a walker that waits for a slot
\* waits for a goroutine that will release one.
THEOREM WalkerNeverStalls == MaxConn >= BatchSize => (Spec => []NoStall)
<1>. SUFFICES ASSUME MaxConn >= BatchSize PROVE Spec => []NoStall
  OBVIOUS
<1>1. IInv => NoStall
  <2>. SUFFICES ASSUME IInv, connSem = MaxConn, wpc = "acquire" \/ wpc = "self", inFlight = {}
                PROVE  FALSE
    BY DEF NoStall
  <2>1. Types /\ Slots
    BY DEF IInv
  <2>2. Cardinality(inFlight) = 0 /\ Cardinality(buf) \in Nat
    BY <2>1, FiniteSlots, FS_EmptySet
  <2>3. connSem = Cardinality(buf)
    BY <2>1, <2>2 DEF Slots
  <2>4. CASE wpc = "acquire"
    BY <2>1, <2>2, <2>3, <2>4 DEF Slots
  <2>5. CASE wpc = "self"
    BY <2>1, <2>3, <2>5, FS_EmptySet DEF Slots
  <2>. QED
    BY <2>4, <2>5
<1>. QED
  BY <1>1, PipelineInvariant, PTL

\* A child is connected through its parent's runtime, and the parent has not been
\* closed by then.
THEOREM ParentIsOpen == Spec => ParentStillOpen
<1>1. IInv /\ [Next]_vars => (opened' # opened => node \in OpenNow)
  <2>. SUFFICES ASSUME IInv, [Next]_vars, opened' # opened PROVE node \in OpenNow
    OBVIOUS
  <2>1. wpc = "connect"
    BY OpenedStep
  <2>. QED
    BY <2>1, AtNode DEF Running, Untouched, OpenNow
<1>2. IInv /\ [Next]_vars => [opened' # opened => node \in OpenNow]_vars
  BY <1>1
<1>. QED
  BY <1>2, PipelineInvariant, PTL DEF Spec, ParentStillOpen
=============================================================================
