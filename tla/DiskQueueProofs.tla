-------------------------- MODULE DiskQueueProofs ---------------------------
(***************************************************************************)
(* Proofs about DiskQueue, for any set of jobs and of file names, any      *)
(* maximal size and any number of crashes and restarts.                    *)
(***************************************************************************)
EXTENDS DiskQueue, FiniteSetTheorems, SequenceTheorems, TLAPS

\* the goroutines hold a job exactly at the places where they work on one,
\* the file the pusher is about to make is not there, and they do not run
\* while the process is down
HandsFull ==
  /\ ~up => pusher.pc = "done" /\ popper.pc = "done"
  /\ pusher.job # NoJob <=> pusher.pc \in {"have", "temp"}
  /\ popper.job # NoJob <=> popper.pc \in {"popped", "handling"}
  /\ pusher.pc = "temp" => pusher.stamp \in Stamps /\ disk[pusher.stamp] = NoJob

Filed(j)   == \E s \in Stamps : disk[s] = j
Done(j)    == j \in finished \/ j \in logged \/ j \in lost
Present(j) == Filed(j) \/ pusher.job = j \/ popper.job = j \/ Done(j)

\* no two of the places of a job are taken at a time
Apart(j) ==
  /\ \A r, s \in Stamps : disk[r] = j /\ disk[s] = j => r = s
  /\ Filed(j) => pusher.job # j /\ popper.job # j /\ ~Done(j)
  /\ pusher.job = j => popper.job # j /\ ~Done(j)
  /\ popper.job = j => ~Done(j)
  /\ j \in finished => j \notin logged \cup lost
  /\ j \in logged => j \notin lost

\* where the jobs that were popped are
PoppedJobs ==
  \A j \in Jobs :
    /\ WasTaken(j) => popper.job = j \/ j \in finished \cup logged \cup lost
    /\ popper.job = j => WasTaken(j)

PlaceInv ==
  /\ TypeOK
  /\ HandsFull
  /\ \A j \in Jobs : Apart(j) /\ (client[j] = "returned" <=> Present(j))

USE ConstantsAssumption DEF ConstantsAssumption

\* Removing an element of a sequence of stamps gives a sequence of stamps.
LEMMA WithoutType ==
  ASSUME NEW q \in Seq(Stamps), NEW i \in DOMAIN q
  PROVE  /\ Without(q, i) \in Seq(Stamps)
         /\ Len(Without(q, i)) = Len(q) - 1
         /\ \A k \in 1 .. Len(q) - 1 : Without(q, i)[k] = IF k < i THEN q[k] ELSE q[k + 1]
<1>1. Len(q) \in Nat \ {0} /\ i \in 1 .. Len(q)
  OBVIOUS
<1>2. \A k \in 1 .. Len(q) - 1 : (IF k < i THEN q[k] ELSE q[k + 1]) \in Stamps
  BY <1>1
<1>3. Without(q, i) \in [1 .. Len(q) - 1 -> Stamps]
  BY <1>1, <1>2 DEF Without
<1>. QED
  BY <1>1, <1>3 DEF Without

\* The types hold at the start.
LEMMA QueueInit == Init => PlaceInv
<1>. SUFFICES ASSUME Init PROVE PlaceInv
  OBVIOUS
<1>1. TypeOK
  <2>1. up \in BOOLEAN /\ closed \in BOOLEAN /\ entries \in BOOLEAN
    BY DEF Init
  <2>2. order \in Seq(Stamps) /\ taken \in Seq(Jobs)
    BY DEF Init
  <2>3. PusherIdle \in [pc : {"range", "have", "temp", "done"}, job : Jobs \cup {NoJob}, stamp : Nat]
    BY DEF PusherIdle
  <2>4. PopperIdle \in [pc : PopperStates, job : Jobs \cup {NoJob}]
    BY DEF PopperIdle, PopperStates
  <2>. QED
    BY <2>1, <2>2, <2>3, <2>4 DEF Init, TypeOK
<1>2. HandsFull
  BY DEF Init, HandsFull, PusherIdle, PopperIdle
<1>3. \A j \in Jobs : Apart(j) /\ (client[j] = "returned" <=> Present(j))
  BY DEF Init, Apart, Present, Filed, Done, PusherIdle, PopperIdle
<1>. QED
  BY <1>1, <1>2, <1>3 DEF PlaceInv

\* Every step keeps the types and what the goroutines hold.
LEMMA QueueTypes == PlaceInv /\ [Next]_vars => TypeOK' /\ HandsFull'
<1>. SUFFICES ASSUME PlaceInv, [Next]_vars PROVE TypeOK' /\ HandsFull'
  OBVIOUS
<1>. USE DEF PlaceInv, TypeOK, HandsFull, queueVars, historyVars, PusherIdle, PopperIdle, PopperStates
<1>1. ASSUME NEW j \in Jobs, ClientStep(j) PROVE TypeOK' /\ HandsFull'
  <2>1. CASE Schedule(j)
    BY <2>1 DEF Schedule
  <2>2. CASE Handover(j)
    BY <2>2 DEF Handover
  <2>3. CASE SendPanics(j)
    BY <2>3 DEF SendPanics
  <2>. QED
    BY <1>1, <2>1, <2>2, <2>3 DEF ClientStep
<1>2. CASE PusherDone
  BY <1>2 DEF PusherDone
<1>3. CASE PushFails
  BY <1>3 DEF PushFails
<1>4. ASSUME NEW s \in Stamps, EnqueueTemp(s) PROVE TypeOK' /\ HandsFull'
  <2>1. s \in Nat /\ now' \in Nat /\ disk[s] = NoJob
    BY <1>4 DEF EnqueueTemp, nextAvailableFilename, OnDisk
  <2>2. pusher' = [pusher EXCEPT !.pc = "temp", !.stamp = s] /\ pusher.pc = "have"
    BY <1>4 DEF EnqueueTemp
  <2>3. /\ pusher' \in [pc : {"range", "have", "temp", "done"}, job : Jobs \cup {NoJob}, stamp : Nat]
        /\ pusher'.job = pusher.job /\ pusher'.pc = "temp" /\ pusher'.stamp = s
    BY <2>1, <2>2
  <2>4. temps' \subseteq Stamps
    BY <1>4 DEF EnqueueTemp
  <2>5. UNCHANGED <<disk, closed, order, starts, up, entries, client, popper, stop, historyVars>>
    BY <1>4 DEF EnqueueTemp
  <2>. HIDE DEF PusherIdle, PopperIdle
  <2>6. TypeOK'
    BY <2>1, <2>3, <2>4, <2>5
  <2>7. HandsFull'
    BY <2>1, <2>2, <2>3, <2>5
  <2>. QED
    BY <2>6, <2>7
<1>5. CASE EnqueueRename
  <2>1. pusher.stamp \in Stamps
    BY <1>5 DEF EnqueueRename
  <2>2. disk' \in [Stamps -> Jobs \cup {NoJob}] /\ order' \in Seq(Stamps)
    BY <1>5, <2>1 DEF EnqueueRename
  <2>3. /\ popper' \in [pc : PopperStates, job : Jobs \cup {NoJob}]
        /\ popper'.job # NoJob <=> popper'.pc \in {"popped", "handling"}
    BY <1>5 DEF EnqueueRename, Wake
  <2>4. up /\ up'
    BY <1>5 DEF EnqueueRename
  <2>. QED
    BY <1>5, <2>2, <2>3, <2>4 DEF EnqueueRename
<1>6. CASE PopperDone
  BY <1>6 DEF PopperDone
<1>7. CASE PopperWaits
  BY <1>7 DEF PopperWaits
<1>8. ASSUME NEW s \in Stamps, Dequeue(s) PROVE TypeOK' /\ HandsFull'
  <2>1. disk[s] \in Jobs /\ disk[s] # NoJob
    BY <1>8 DEF Dequeue, Oldest, OnDisk
  <2>2. order' \in Seq(Stamps)
    BY <1>8, WithoutType DEF Dequeue
  <2>3. disk' \in [Stamps -> Jobs \cup {NoJob}] /\ taken' \in Seq(Jobs)
    BY <1>8, <2>1 DEF Dequeue, RemoveFile
  <2>4. /\ popper' \in [pc : PopperStates, job : Jobs \cup {NoJob}]
        /\ popper'.job # NoJob /\ popper'.pc = "popped"
    BY <1>8, <2>1 DEF Dequeue
  <2>. QED
    BY <1>8, <2>2, <2>3, <2>4 DEF Dequeue, LockFree
<1>9. CASE DequeueFails \/ PopAgain \/ EntryDropped \/ HandlerStarts \/ HandlerReturns
  BY <1>9 DEF DequeueFails, PopAgain, TryAgain, EntryDropped, HandlerStarts, HandlerReturns
<1>10. CASE StopEntries
  BY <1>10 DEF StopEntries
<1>11. CASE Close
  BY <1>11 DEF Close, Wake
<1>12. CASE StopReturns
  BY <1>12 DEF StopReturns
<1>13. CASE Crash
  BY <1>13 DEF Crash, InMemory
<1>14. CASE Start
  <2>1. up' \in BOOLEAN /\ closed' \in BOOLEAN /\ entries' \in BOOLEAN
    BY <1>14 DEF Start
  <2>. QED
    BY <1>14, <2>1 DEF Start
<1>15. CASE UNCHANGED vars
  BY <1>15 DEF vars
<1>. QED
  BY <1>1, <1>2, <1>3, <1>4, <1>5, <1>6, <1>7, <1>8, <1>9, <1>10, <1>11, <1>12, <1>13,
     <1>14, <1>15 DEF Next, PusherStep, PopperStep, StopStep

\* A job stays in at most one place, and is in one exactly when its Schedule
\* call returned.
LEMMA QueuePlaces ==
  ASSUME PlaceInv, [Next]_vars, NEW j \in Jobs
  PROVE  Apart(j)' /\ (client[j] = "returned" <=> Present(j))'
<1>. USE DEF PlaceInv, TypeOK, HandsFull, queueVars, historyVars, PusherIdle, PopperIdle,
             Apart, Present, Filed, Done
<1>0. Apart(j) /\ (client[j] = "returned" <=> Present(j))
  OBVIOUS
<1>. DEFINE Goal == Apart(j)' /\ (client[j] = "returned" <=> Present(j))'
<1>1. ASSUME NEW i \in Jobs, ClientStep(i) PROVE Goal
  <2>1. CASE Schedule(i)
    BY <1>0, <2>1 DEF Schedule
  <2>2. CASE Handover(i)
    BY <1>0, <2>2 DEF Handover
  <2>3. CASE SendPanics(i)
    BY <1>0, <2>3 DEF SendPanics
  <2>. QED
    BY <1>1, <2>1, <2>2, <2>3 DEF ClientStep
<1>2. CASE PusherDone
  BY <1>0, <1>2 DEF PusherDone
<1>3. CASE PushFails
  BY <1>0, <1>3 DEF PushFails
<1>4. ASSUME NEW s \in Stamps, EnqueueTemp(s) PROVE Goal
  BY <1>0, <1>4 DEF EnqueueTemp
<1>5. CASE EnqueueRename
  BY <1>0, <1>5 DEF EnqueueRename, Wake
<1>6. CASE PopperDone
  BY <1>0, <1>6 DEF PopperDone
<1>7. CASE PopperWaits
  BY <1>0, <1>7 DEF PopperWaits
<1>8. ASSUME NEW s \in Stamps, Dequeue(s) PROVE Goal
  BY <1>0, <1>8 DEF Dequeue, Oldest, OnDisk, RemoveFile
<1>9. CASE DequeueFails \/ PopAgain \/ EntryDropped \/ HandlerStarts \/ HandlerReturns
  BY <1>0, <1>9 DEF DequeueFails, PopAgain, TryAgain, EntryDropped, HandlerStarts, HandlerReturns
<1>10. CASE StopEntries
  BY <1>0, <1>10 DEF StopEntries
<1>11. CASE Close
  BY <1>0, <1>11 DEF Close, Wake
<1>12. CASE StopReturns
  BY <1>0, <1>12 DEF StopReturns
<1>13. CASE Crash
  BY <1>0, <1>13 DEF Crash, InMemory
<1>14. CASE Start
  BY <1>0, <1>14 DEF Start
<1>15. CASE UNCHANGED vars
  BY <1>0, <1>15 DEF vars
<1>. QED
  BY <1>1, <1>2, <1>3, <1>4, <1>5, <1>6, <1>7, <1>8, <1>9, <1>10, <1>11, <1>12, <1>13,
     <1>14, <1>15 DEF Next, PusherStep, PopperStep, StopStep

\* The four facts about a job amount to one place.
LEMMA OnePlaceFollows == PlaceInv => OnePlace
<1>. SUFFICES ASSUME PlaceInv, NEW j \in Jobs
              PROVE IF client[j] = "returned" THEN \E p \in Places(j) : Places(j) = {p}
                                              ELSE Places(j) = {}
  BY DEF PlaceInv, OnePlace
<1>1. Apart(j) /\ (client[j] = "returned" <=> Present(j))
  BY DEF PlaceInv
<1>2. ASSUME ~Present(j) PROVE Places(j) = {}
  BY <1>2 DEF Places, Present, Filed, Done
<1>3. ASSUME Present(j) PROVE \E p \in Places(j) : Places(j) = {p}
  <2>. USE <1>1 DEF Apart, Places, Filed, Done
  <2>1. ASSUME NEW s \in Stamps, disk[s] = j PROVE Places(j) = {<<"disk", s>>}
    BY <2>1
  <2>2. CASE pusher.job = j
    <3>. Places(j) = {<<"pusher", 0>>}
      BY <2>2
    <3>. QED
      OBVIOUS
  <2>3. CASE popper.job = j
    <3>. Places(j) = {<<"handler", 0>>}
      BY <2>3
    <3>. QED
      OBVIOUS
  <2>4. CASE j \in finished
    <3>. Places(j) = {<<"finished", 0>>}
      BY <2>4
    <3>. QED
      OBVIOUS
  <2>5. CASE j \in logged
    <3>. Places(j) = {<<"logged", 0>>}
      BY <2>5
    <3>. QED
      OBVIOUS
  <2>6. CASE j \in lost
    <3>. Places(j) = {<<"lost", 0>>}
      BY <2>6
    <3>. QED
      OBVIOUS
  <2>. QED
    BY <1>3, <2>1, <2>2, <2>3, <2>4, <2>5, <2>6 DEF Present
<1>. QED
  BY <1>1, <1>2, <1>3

\* The inductive invariant of the places.
LEMMA QueuePlaceInv == Spec => []PlaceInv
<1>1. PlaceInv /\ [Next]_vars => PlaceInv'
  <2>. SUFFICES ASSUME PlaceInv, [Next]_vars PROVE PlaceInv'
    OBVIOUS
  <2>1. TypeOK' /\ HandsFull'
    BY QueueTypes
  <2>2. \A j \in Jobs : Apart(j)' /\ (client[j] = "returned" <=> Present(j))'
    BY QueuePlaces
  <2>. QED
    BY <2>1, <2>2 DEF PlaceInv
<1>. QED
  BY <1>1, QueueInit, PTL DEF Spec

\* A job whose Schedule call returned is in exactly one place, for any number
\* of jobs, files, crashes and restarts (pusher, popper, Enqueue, dequeueJob).
THEOREM QueueKeepsJobs == Spec => []OnePlace
  BY QueuePlaceInv, OnePlaceFollows, PTL

-----------------------------------------------------------------------------
(* What a crash can lose *)

LostRunning == {j \in lost : WasTaken(j)}
LostWaiting == {j \in lost : ~WasTaken(j)}

LossInv ==
  /\ PlaceInv
  /\ PoppedJobs
  /\ IsFiniteSet(lost)
  /\ LossBound

\* Appending to the popped jobs pops one job.
LEMMA TakenGrows ==
  ASSUME TypeOK, NEW d \in Jobs, taken' = Append(taken, d), NEW j \in Jobs
  PROVE  WasTaken(j)' <=> WasTaken(j) \/ j = d
<1>1. /\ Len(taken) \in Nat
      /\ DOMAIN taken = 1 .. Len(taken)
      /\ DOMAIN taken' = 1 .. Len(taken) + 1
      /\ \A i \in 1 .. Len(taken) : taken'[i] = taken[i]
      /\ taken'[Len(taken) + 1] = d
  BY DEF TypeOK
<1>. QED
  BY <1>1 DEF WasTaken

\* Every step keeps what is known about the popped jobs.
LEMMA TakenStep == PlaceInv /\ PoppedJobs /\ [Next]_vars => PoppedJobs'
<1>. SUFFICES ASSUME PlaceInv, PoppedJobs, [Next]_vars, NEW j \in Jobs
              PROVE  (/\ WasTaken(j) => popper.job = j \/ j \in finished \cup logged \cup lost
                      /\ popper.job = j => WasTaken(j))'
  BY DEF PoppedJobs
<1>0. /\ WasTaken(j) => popper.job = j \/ j \in finished \cup logged \cup lost
      /\ popper.job = j => WasTaken(j)
  BY DEF PoppedJobs
<1>1. ASSUME NEW s \in Stamps, Dequeue(s)
      PROVE  (/\ WasTaken(j) => popper.job = j \/ j \in finished \cup logged \cup lost
              /\ popper.job = j => WasTaken(j))'
  <2>1. disk[s] \in Jobs /\ popper.job = NoJob
    BY <1>1 DEF Dequeue, Oldest, OnDisk, PlaceInv, TypeOK, HandsFull
  <2>2. /\ taken' = Append(taken, disk[s]) /\ popper'.job = disk[s]
        /\ UNCHANGED <<finished, logged, lost>>
    BY <1>1 DEF Dequeue
  <2>3. WasTaken(j)' <=> WasTaken(j) \/ j = disk[s]
    BY <2>1, <2>2, TakenGrows DEF PlaceInv
  <2>. QED
    BY <1>0, <2>1, <2>2, <2>3
<1>2. ASSUME taken' = taken, finished \subseteq finished', logged \subseteq logged', lost \subseteq lost',
             \/ popper'.job = popper.job
             \/ popper'.job = NoJob /\ (popper.job = j => j \in finished' \cup logged' \cup lost')
      PROVE  (/\ WasTaken(j) => popper.job = j \/ j \in finished \cup logged \cup lost
              /\ popper.job = j => WasTaken(j))'
  <2>1. WasTaken(j)' <=> WasTaken(j)
    BY <1>2 DEF WasTaken
  <2>. QED
    BY <1>0, <1>2, <2>1
<1>. DEFINE Kept == UNCHANGED <<taken, finished, lost>> /\ logged \subseteq logged' /\ popper'.job = popper.job
<1>3. ASSUME NEW i \in Jobs, ClientStep(i) PROVE Kept
  BY <1>3 DEF ClientStep, Schedule, Handover, SendPanics, historyVars
<1>4. ASSUME PusherStep PROVE Kept
  <2>1. Wake(popper).job = popper.job
    BY DEF Wake, PlaceInv, TypeOK
  <2>. QED
    BY <1>4, <2>1 DEF PusherStep, PusherDone, PushFails, EnqueueTemp, EnqueueRename, historyVars
<1>5. ASSUME PopperDone \/ PopperWaits \/ DequeueFails \/ PopAgain \/ HandlerStarts PROVE Kept
  BY <1>5 DEF PopperDone, PopperWaits, DequeueFails, PopAgain, TryAgain, HandlerStarts, PopperIdle,
     historyVars, PlaceInv, TypeOK, HandsFull
<1>6. ASSUME StopEntries \/ StopStep PROVE Kept
  <2>1. Wake(popper).job = popper.job
    BY DEF Wake, PlaceInv, TypeOK
  <2>. QED
    BY <1>6, <2>1 DEF StopEntries, StopStep, Close, StopReturns, historyVars
<1>7. ASSUME Start PROVE Kept
  BY <1>7 DEF Start, historyVars, PlaceInv, HandsFull, PopperIdle
<1>8. CASE HandlerReturns \/ EntryDropped
  BY <1>2, <1>8 DEF HandlerReturns, EntryDropped, PopperIdle
<1>9. CASE Crash
  <2>1. popper.job = j => j \in lost'
    BY <1>9 DEF Crash, InMemory
  <2>2. popper'.job = NoJob
    BY <1>9 DEF Crash, PopperIdle
  <2>. QED
    BY <1>2, <1>9, <2>1, <2>2 DEF Crash
<1>10. CASE UNCHANGED vars
  BY <1>2, <1>10 DEF vars, historyVars
<1>. QED
  BY <1>1, <1>2, <1>3, <1>4, <1>5, <1>6, <1>7, <1>8, <1>9, <1>10 DEF Next, PopperStep

\* A step that leaves the history of starts and losses alone keeps the bound.
LEMMA LossKept ==
  ASSUME LossInv, lost' = lost, Deaths' = Deaths, \A j \in lost : WasTaken(j)' <=> WasTaken(j)
  PROVE  IsFiniteSet(lost)' /\ LossBound'
<1>1. LostRunning' = LostRunning /\ LostWaiting' = LostWaiting
  BY DEF LostRunning, LostWaiting
<1>. QED
  BY <1>1 DEF LossInv, LossBound, LostRunning, LostWaiting

\* A crash loses at most one popped job and one that was not.
LEMMA CrashLoses == LossInv /\ Crash => IsFiniteSet(lost)' /\ LossBound'
<1>. SUFFICES ASSUME LossInv, Crash PROVE IsFiniteSet(lost)' /\ LossBound'
  OBVIOUS
<1>1. lost' = lost \cup InMemory
  BY DEF Crash
<1>2. IsFiniteSet(lost \cup {pusher.job})
  BY FS_AddElement DEF LossInv
<1>3. IsFiniteSet((lost \cup {pusher.job}) \cup {popper.job})
  BY <1>2, FS_AddElement
<1>4. lost' \subseteq (lost \cup {pusher.job}) \cup {popper.job}
  BY <1>1 DEF InMemory
<1>5. IsFiniteSet(lost')
  BY <1>3, <1>4, FS_Subset
<1>6. \A j : WasTaken(j)' <=> WasTaken(j)
  BY DEF Crash, WasTaken
<1>7. LostRunning' \subseteq LostRunning \cup {popper.job}
  <2>1. \A j \in Jobs : pusher.job = j => ~WasTaken(j)
    BY DEF LossInv, PoppedJobs, PlaceInv, Apart, Done
  <2>2. pusher.job \in Jobs \cup {NoJob}
    BY DEF LossInv, PlaceInv, TypeOK
  <2>. QED
    BY <1>1, <1>6, <2>1, <2>2 DEF LostRunning, InMemory
<1>8. LostWaiting' \subseteq LostWaiting \cup {pusher.job}
  <2>1. \A j \in Jobs : popper.job = j => WasTaken(j)
    BY DEF LossInv, PoppedJobs
  <2>2. popper.job \in Jobs \cup {NoJob}
    BY DEF LossInv, PlaceInv, TypeOK
  <2>. QED
    BY <1>1, <1>6, <2>1, <2>2 DEF LostWaiting, InMemory
<1>9. IsFiniteSet(LostRunning) /\ IsFiniteSet(LostWaiting)
  <2>. LostRunning \subseteq lost /\ LostWaiting \subseteq lost
    BY DEF LostRunning, LostWaiting
  <2>. QED
    BY FS_Subset DEF LossInv
<1>10. /\ Cardinality(LostRunning') <= Cardinality(LostRunning) + 1
       /\ Cardinality(LostWaiting') <= Cardinality(LostWaiting) + 1
  <2>1. ASSUME NEW S, NEW T, NEW x, IsFiniteSet(S), T \subseteq S \cup {x}
        PROVE  Cardinality(T) <= Cardinality(S) + 1
    <3>0. Cardinality(S) \in Nat
      BY <2>1, FS_CardinalityType
    <3>1. IsFiniteSet(S \cup {x}) /\ Cardinality(S \cup {x}) <= Cardinality(S) + 1
      <4>1. /\ IsFiniteSet(S \cup {x})
            /\ Cardinality(S \cup {x}) = IF x \in S THEN Cardinality(S) ELSE Cardinality(S) + 1
        BY <2>1, FS_AddElement
      <4>. QED
        BY <3>0, <4>1
    <3>2. IsFiniteSet(T) /\ Cardinality(T) <= Cardinality(S \cup {x})
      BY <2>1, <3>1, FS_Subset
    <3>. QED
      BY <3>0, <3>1, <3>2, FS_CardinalityType
  <2>. QED
    BY <1>7, <1>8, <1>9, <2>1
<1>11. Deaths' = Deaths + 1 /\ Deaths \in Nat
  BY DEF Crash, Deaths, LossInv, PlaceInv, TypeOK
<1>12. IsFiniteSet(LostRunning') /\ IsFiniteSet(LostWaiting')
  <2>. LostRunning' \subseteq lost' /\ LostWaiting' \subseteq lost'
    BY DEF LostRunning, LostWaiting
  <2>. QED
    BY <1>5, FS_Subset
<1>13. /\ Cardinality(LostRunning) \in Nat /\ Cardinality(LostWaiting) \in Nat
       /\ Cardinality(LostRunning') \in Nat /\ Cardinality(LostWaiting') \in Nat
  BY <1>9, <1>12, FS_CardinalityType
<1>14. Cardinality(LostRunning) <= Deaths /\ Cardinality(LostWaiting) <= Deaths
  BY DEF LossInv, LossBound, LostRunning, LostWaiting
<1>15. Cardinality(LostRunning') <= Deaths' /\ Cardinality(LostWaiting') <= Deaths'
  BY <1>10, <1>11, <1>13, <1>14
<1>. QED
  BY <1>5, <1>15 DEF LossBound, LostRunning, LostWaiting

\* Every step keeps the bound.
LEMMA LossStep == LossInv /\ [Next]_vars => IsFiniteSet(lost)' /\ LossBound'
<1>. SUFFICES ASSUME LossInv, [Next]_vars PROVE IsFiniteSet(lost)' /\ LossBound'
  OBVIOUS
<1>1. CASE Crash
  BY <1>1, CrashLoses
<1>2. ASSUME NEW s \in Stamps, Dequeue(s) PROVE IsFiniteSet(lost)' /\ LossBound'
  <2>1. disk[s] \in Jobs /\ disk[s] \notin lost
    BY <1>2 DEF Dequeue, Oldest, OnDisk, LossInv, PlaceInv, TypeOK, Apart, Filed, Done
  <2>2. taken' = Append(taken, disk[s])
    BY <1>2 DEF Dequeue
  <2>3. \A j \in lost : WasTaken(j)' <=> WasTaken(j)
    BY <2>1, <2>2, TakenGrows DEF LossInv, PlaceInv, TypeOK
  <2>4. lost' = lost /\ Deaths' = Deaths
    BY <1>2 DEF Dequeue, Deaths
  <2>. QED
    BY <2>3, <2>4, LossKept
<1>3. ASSUME lost' = lost, taken' = taken, Deaths' = Deaths
      PROVE  IsFiniteSet(lost)' /\ LossBound'
  <2>1. \A j \in lost : WasTaken(j)' <=> WasTaken(j)
    BY <1>3 DEF WasTaken
  <2>. QED
    BY <1>3, <2>1, LossKept
<1>4. CASE Start
  <2>1. Deaths' = Deaths
    BY <1>4 DEF Start, Deaths, LossInv, PlaceInv, TypeOK
  <2>. QED
    BY <1>3, <1>4, <2>1 DEF Start, historyVars
<1>5. CASE \/ \E j \in Jobs : ClientStep(j)
           \/ PusherStep \/ PopperDone \/ PopperWaits \/ DequeueFails \/ PopAgain
           \/ EntryDropped \/ HandlerStarts \/ HandlerReturns
           \/ StopEntries \/ StopStep \/ UNCHANGED vars
  <2>1. lost' = lost /\ taken' = taken /\ starts' = starts /\ up' = up
    BY <1>5 DEF ClientStep, Schedule, Handover, SendPanics, PusherStep, PusherDone, PushFails,
       EnqueueTemp, EnqueueRename, PopperDone, PopperWaits, DequeueFails, PopAgain, EntryDropped,
       HandlerStarts, HandlerReturns, StopEntries, StopStep, Close, StopReturns, vars, historyVars
  <2>2. Deaths' = Deaths
    BY <2>1 DEF Deaths
  <2>. QED
    BY <1>3, <2>1, <2>2
<1>. QED
  BY <1>1, <1>2, <1>4, <1>5 DEF Next, PopperStep

\* Nothing is lost at the start.
LEMMA LossInit == Init => LossInv
<1>. SUFFICES ASSUME Init PROVE LossInv
  OBVIOUS
<1>1. PlaceInv
  BY QueueInit
<1>2. lost = {} /\ taken = <<>> /\ popper.job = NoJob
  BY DEF Init, PopperIdle
<1>3. PoppedJobs
  BY <1>2 DEF PoppedJobs, WasTaken
<1>4. LostRunning = {} /\ LostWaiting = {}
  BY <1>2 DEF LostRunning, LostWaiting
<1>5. Deaths = 0
  BY DEF Init, Deaths
<1>6. IsFiniteSet(lost) /\ Cardinality({}) = 0
  BY <1>2, FS_EmptySet
<1>7. LossBound
  BY <1>4, <1>5, <1>6 DEF LossBound, LostRunning, LostWaiting
<1>. QED
  BY <1>1, <1>3, <1>6, <1>7 DEF LossInv

\* A process that dies loses at most the job it was scanning and the one
\* accepted job that was not yet in a file, whatever the number of jobs and of
\* crashes (Schedule returns before there is a file, dequeueJob removes the
\* file before the handler runs).
THEOREM CrashLosesLittle == Spec => []LossBound
<1>1. LossInv /\ [Next]_vars => LossInv'
  <2>. SUFFICES ASSUME LossInv, [Next]_vars PROVE LossInv'
    OBVIOUS
  <2>1. TypeOK' /\ HandsFull' /\ \A j \in Jobs : Apart(j)' /\ (client[j] = "returned" <=> Present(j))'
    BY QueueTypes, QueuePlaces DEF LossInv
  <2>2. PoppedJobs' /\ IsFiniteSet(lost)' /\ LossBound'
    BY TakenStep, LossStep DEF LossInv
  <2>. QED
    BY <2>1, <2>2 DEF LossInv, PlaceInv
<1>2. LossInv => LossBound
  BY DEF LossInv
<1>. QED
  BY <1>1, <1>2, LossInit, PTL DEF Spec

-----------------------------------------------------------------------------
(* First in, first out, as long as the clock advances *)

\* the files in the order they were written are the files in the order of
\* their names, and none is newer than the clock
OrderInv ==
  /\ \A i, k \in DOMAIN order : i < k => order[i] < order[k]
  /\ \A i \in DOMAIN order : order[i] <= now /\ disk[order[i]] # NoJob
  /\ \A s \in OnDisk : \E i \in DOMAIN order : order[i] = s
  /\ pusher.pc = "temp" => pusher.stamp = now /\ \A i \in DOMAIN order : order[i] < now

\* there are as many files as entries, and room for the one being written
SizeInv ==
  /\ IsFiniteSet(OnDisk)
  /\ Cardinality(OnDisk) = Len(order)
  /\ pusher.pc = "temp" => Len(order) < MaxSize

FifoInv == PlaceInv /\ PoppedJobs /\ OrderInv /\ SizeInv

Waiting == [i \in DOMAIN order |-> disk[order[i]]]

\* The history of the files is a sequence of names, which are numbers.
LEMMA OrderType ==
  ASSUME TypeOK
  PROVE  /\ Len(order) \in Nat /\ DOMAIN order = 1 .. Len(order)
         /\ \A i \in 1 .. Len(order) : order[i] \in Stamps /\ order[i] \in Nat
<1>1. order \in Seq(Stamps)
  BY DEF TypeOK
<1>2. Len(order) \in Nat /\ DOMAIN order = 1 .. Len(order)
  BY <1>1
<1>3. ASSUME NEW i \in 1 .. Len(order) PROVE order[i] \in Stamps
  BY <1>1
<1>. QED
  BY <1>2, <1>3

\* A function on an initial segment of the numbers is a sequence.
LEMMA FunctionIsSeq ==
  ASSUME NEW S, NEW n \in Nat, NEW f \in [1 .. n -> S]
  PROVE  f \in Seq(S) /\ Len(f) = n
  OBVIOUS

\* The tail of a sequence, by its elements.
LEMMA TailElements ==
  ASSUME NEW S, NEW q \in Seq(S), q # <<>>
  PROVE  Tail(q) = [k \in 1 .. Len(q) - 1 |-> q[k + 1]] /\ Head(q) = q[1]
<1>1. /\ Tail(q) \in Seq(S) /\ Len(Tail(q)) = Len(q) - 1
      /\ \A k \in 1 .. Len(Tail(q)) : Tail(q)[k] = q[k + 1]
  BY HeadTailProperties
<1>2. Tail(q) \in [1 .. Len(Tail(q)) -> S]
  BY <1>1, LenProperties
<1>3. Tail(q) = [k \in 1 .. Len(Tail(q)) |-> Tail(q)[k]]
  BY <1>2
<1>4. Head(q) = q[1]
  OBVIOUS
<1>. QED
  BY <1>1, <1>3, <1>4

\* The jobs that wait are a sequence of jobs.
LEMMA WaitingType ==
  ASSUME TypeOK, OrderInv
  PROVE  /\ Waiting \in Seq(Jobs) /\ Len(Waiting) = Len(order) /\ DOMAIN Waiting = 1 .. Len(order)
         /\ \A i \in 1 .. Len(order) : Waiting[i] = disk[order[i]] /\ disk[order[i]] \in Jobs
<1>1. Len(order) \in Nat /\ DOMAIN order = 1 .. Len(order) /\ \A i \in 1 .. Len(order) : order[i] \in Stamps
  BY OrderType
<1>2. ASSUME NEW i \in 1 .. Len(order) PROVE disk[order[i]] \in Jobs
  <2>1. disk[order[i]] # NoJob
    BY <1>1 DEF OrderInv
  <2>2. disk[order[i]] \in Jobs \cup {NoJob}
    BY <1>1 DEF TypeOK
  <2>. QED
    BY <2>1, <2>2
<1>3. Waiting \in [1 .. Len(order) -> Jobs]
  BY <1>1, <1>2 DEF Waiting
<1>4. Waiting \in Seq(Jobs) /\ Len(Waiting) = Len(order)
  BY <1>1, <1>3, FunctionIsSeq
<1>. QED
  BY <1>1, <1>2, <1>3, <1>4 DEF Waiting

\* The steps that touch neither the files nor the pusher's stamp.
LEMMA FifoKept ==
  ASSUME FifoInv, UNCHANGED <<disk, order, now>>,
         pusher'.pc = "temp" => pusher.pc = "temp" /\ pusher'.stamp = pusher.stamp
  PROVE  OrderInv' /\ SizeInv' /\ Waiting' = Waiting
<1>1. OnDisk' = OnDisk
  BY DEF OnDisk
<1>2. OrderInv'
  BY <1>1 DEF FifoInv, OrderInv
<1>3. SizeInv'
  BY <1>1 DEF FifoInv, SizeInv
<1>4. Waiting' = Waiting
  BY DEF Waiting
<1>. QED
  BY <1>2, <1>3, <1>4

\* Enqueue finds a name after all others.
LEMMA EnqueueTempFifo ==
  ASSUME FifoInv, MinAdvance >= 1, NEW s \in Stamps, EnqueueTemp(s)
  PROVE  OrderInv' /\ SizeInv' /\ Waiting' = Waiting
<1>. USE DEF FifoInv, PlaceInv, TypeOK
<1>1. /\ now' \in Stamps /\ now' >= now + MinAdvance
      /\ s >= now' /\ s \notin OnDisk
      /\ \A r \in Stamps : r >= now' /\ r < s => r \in OnDisk
  BY DEF EnqueueTemp, nextAvailableFilename
<1>2. \A r \in OnDisk : r <= now
  BY DEF OrderInv
<1>3. now < now' /\ now \in Nat /\ now' \in Nat /\ s \in Nat
  BY <1>1
<1>4. now' \notin OnDisk
  BY <1>2, <1>3 DEF OnDisk
<1>5. s = now'
  BY <1>1, <1>3, <1>4
<1>6. /\ pusher' = [pusher EXCEPT !.pc = "temp", !.stamp = s]
      /\ UNCHANGED <<disk, order>>
  BY DEF EnqueueTemp
<1>7. pusher'.stamp = s
  BY <1>6
<1>8. \A i \in DOMAIN order : order[i] \in Nat /\ order[i] <= now
  BY OrderType DEF OrderInv
<1>9. OnDisk' = OnDisk
  BY <1>6 DEF OnDisk
<1>10. OrderInv'
  BY <1>3, <1>5, <1>6, <1>7, <1>8, <1>9 DEF OrderInv
<1>11. Len(order) < MaxSize
  <2>1. ~(currentSize >= MaxSize) /\ currentSize = Len(order) /\ Len(order) \in Nat
    BY DEF EnqueueTemp, EnqueueRefused, currentSize, SizeInv
  <2>. QED
    BY <2>1
<1>12. SizeInv'
  BY <1>6, <1>9, <1>11 DEF SizeInv
<1>13. Waiting' = Waiting
  BY <1>6 DEF Waiting
<1>. QED
  BY <1>10, <1>12, <1>13

\* An index of an extended sequence is an old one or the last.
LEMMA LastOrOld ==
  ASSUME NEW n \in Nat
  PROVE  n + 1 \in 1 .. n + 1 /\ \A i \in 1 .. n + 1 : i = n + 1 \/ i \in 1 .. n
  OBVIOUS

\* Renaming the file puts the job at the end of the queue.
LEMMA EnqueueRenameFifo ==
  ASSUME FifoInv, EnqueueRename, NEW j \in Jobs, j = pusher.job
  PROVE  OrderInv' /\ SizeInv' /\ Promise!Put(j)
<1>. USE DEF FifoInv, PlaceInv, TypeOK, HandsFull
<1>. DEFINE n == Len(order)
            s == pusher.stamp
<1>1. /\ s \in Stamps /\ s = now /\ disk[s] = NoJob /\ j \in Jobs
      /\ \A i \in DOMAIN order : order[i] < s
  BY DEF EnqueueRename, OrderInv
<1>2. /\ disk' = [disk EXCEPT ![s] = j] /\ order' = Append(order, s)
      /\ now' = now /\ pusher'.pc = "range" /\ taken' = taken
  BY DEF EnqueueRename, PusherIdle, historyVars
<1>3. /\ n \in Nat /\ DOMAIN order = 1 .. n /\ DOMAIN order' = 1 .. n + 1 /\ Len(order') = n + 1
      /\ order'[n + 1] = s
      /\ \A i \in 1 .. n : order'[i] = order[i] /\ order[i] \in Stamps
  BY <1>1, <1>2
<1>4. disk'[s] = j /\ \A r \in Stamps : r # s => disk'[r] = disk[r]
  BY <1>1, <1>2
<1>5. OnDisk' = OnDisk \cup {s}
  BY <1>1, <1>4 DEF OnDisk
<1>6. OrderInv'
  <2>1. ASSUME NEW i \in 1 .. n + 1, NEW k \in 1 .. n + 1, i < k PROVE order'[i] < order'[k]
    <3>1. i \in 1 .. n /\ order'[i] = order[i]
      BY <1>3, <2>1
    <3>2. CASE k = n + 1
      BY <1>1, <1>3, <3>1, <3>2
    <3>3. CASE k \in 1 .. n
      BY <1>3, <2>1, <3>1, <3>3 DEF OrderInv
    <3>4. k = n + 1 \/ k \in 1 .. n
      BY <1>3, LastOrOld
    <3>. QED
      BY <3>2, <3>3, <3>4
  <2>2. \A i \in 1 .. n + 1 : order'[i] <= now' /\ disk'[order'[i]] # NoJob
    BY <1>1, <1>2, <1>3, <1>4 DEF OrderInv
  <2>3. ASSUME NEW r \in OnDisk' PROVE \E i \in 1 .. n + 1 : order'[i] = r
    <3>1. CASE r = s
      <4>1. n + 1 \in 1 .. n + 1 /\ order'[n + 1] = r
        BY <1>3, <3>1, LastOrOld
      <4>. QED
        BY <4>1
    <3>2. ASSUME NEW i \in 1 .. n, order[i] = r PROVE i \in 1 .. n + 1 /\ order'[i] = r
      BY <1>3, <3>2
    <3>3. CASE r \in OnDisk
      BY <1>3, <3>2, <3>3 DEF OrderInv
    <3>. QED
      BY <1>5, <3>1, <3>3
  <2>. QED
    BY <1>2, <1>3, <2>1, <2>2, <2>3 DEF OrderInv
<1>7. SizeInv'
  <2>1. s \notin OnDisk
    BY <1>1 DEF OnDisk
  <2>2. IsFiniteSet(OnDisk \cup {s}) /\ Cardinality(OnDisk \cup {s}) = Cardinality(OnDisk) + 1
    BY <2>1, FS_AddElement DEF SizeInv
  <2>. QED
    BY <1>2, <1>3, <1>5, <2>2 DEF SizeInv
<1>8. Promise!Put(j)
  <2>1. Waiting \in Seq(Jobs) /\ Len(Waiting) = n
    BY WaitingType
  <2>2. Waiting' = Append(Waiting, j)
    <3>1. Waiting' = [i \in 1 .. n + 1 |-> disk'[order'[i]]]
      BY <1>3 DEF Waiting
    <3>2. \A i \in 1 .. n : disk'[order'[i]] = Waiting[i]
      <4>. SUFFICES ASSUME NEW i \in 1 .. n PROVE disk'[order'[i]] = Waiting[i]
        OBVIOUS
      <4>1. order[i] # s /\ order[i] \in Stamps /\ order'[i] = order[i]
        BY <1>1, <1>3, OrderType
      <4>. QED
        BY <1>4, <4>1, WaitingType
    <3>3. disk'[order'[n + 1]] = j
      BY <1>3, <1>4
    <3>4. Append(Waiting, j) = [i \in 1 .. n + 1 |-> IF i = n + 1 THEN j ELSE Waiting[i]]
      BY <1>1, <2>1
    <3>5. \A i \in 1 .. n + 1 : disk'[order'[i]] = IF i = n + 1 THEN j ELSE Waiting[i]
      <4>1. \A i \in 1 .. n + 1 : i = n + 1 \/ i \in 1 .. n
        BY <1>3, LastOrOld
      <4>. QED
        BY <3>2, <3>3, <4>1
    <3>. QED
      BY <3>1, <3>4, <3>5
  <2>3. n < MaxSize
    BY DEF EnqueueRename, SizeInv
  <2>4. ~\E i \in DOMAIN Waiting : Waiting[i] = j
    <3>1. ~Filed(j)
      BY <1>1 DEF Apart
    <3>. QED
      BY <1>3, <3>1 DEF Waiting, Filed
  <2>5. ~WasTaken(j)
    BY <1>1 DEF Apart, Done, PoppedJobs
  <2>. QED
    BY <1>2, <2>1, <2>2, <2>3, <2>4, <2>5 DEF Promise!Put, Promise!InSeq, Waiting, WasTaken
<1>. QED
  BY <1>6, <1>7, <1>8

\* The file with the smallest name is the one that was written first.
LEMMA DequeueFifo ==
  ASSUME FifoInv, NEW s \in Stamps, Dequeue(s)
  PROVE  OrderInv' /\ SizeInv' /\ Promise!Take
<1>. USE DEF FifoInv, PlaceInv, TypeOK
<1>. DEFINE n == Len(order)
<1>0. PICK i \in DOMAIN order : order[i] = s /\ order' = Without(order, i)
  BY DEF Dequeue
<1>1. n \in Nat \ {0} /\ DOMAIN order = 1 .. n /\ \A k \in 1 .. n : order[k] \in Stamps /\ order[k] \in Nat
  BY <1>0, OrderType
<1>2. i = 1
  <2>1. s <= order[1]
    BY <1>1 DEF Dequeue, Oldest, OnDisk, OrderInv
  <2>0. i \in 1 .. n /\ 1 \in 1 .. n /\ s \in Nat
    BY <1>0, <1>1
  <2>2. i # 1 => order[1] < order[i]
    BY <1>1, <2>0 DEF OrderInv
  <2>. QED
    BY <1>0, <1>1, <2>0, <2>1, <2>2
<1>3. /\ Len(order') = n - 1 /\ DOMAIN order' = 1 .. n - 1
      /\ \A k \in 1 .. n - 1 : order'[k] = order[k + 1]
  <2>1. /\ order' \in Seq(Stamps) /\ Len(order') = n - 1
        /\ \A k \in 1 .. n - 1 : order'[k] = IF k < i THEN order[k] ELSE order[k + 1]
    BY <1>0, WithoutType
  <2>. QED
    BY <1>1, <1>2, <2>1
<1>4. /\ disk' = [disk EXCEPT ![s] = NoJob] /\ now' = now /\ pusher' = pusher
      /\ taken' = Append(taken, disk[s]) /\ pusher.pc # "temp"
  BY DEF Dequeue, RemoveFile, LockFree
<1>5. disk'[s] = NoJob /\ \A r \in Stamps : r # s => disk'[r] = disk[r]
  BY <1>4
<1>6. \A k \in 1 .. n - 1 : order'[k] # s /\ disk'[order'[k]] = disk[order[k + 1]]
  <2>. SUFFICES ASSUME NEW k \in 1 .. n - 1 PROVE order'[k] # s /\ disk'[order'[k]] = disk[order[k + 1]]
    OBVIOUS
  <2>1. k + 1 \in 1 .. n /\ 1 \in 1 .. n /\ 1 < k + 1
    BY <1>1
  <2>2. order[1] < order[k + 1] /\ order[k + 1] \in Nat /\ order[k + 1] \in Stamps /\ s \in Nat
    BY <1>0, <1>1, <1>2, <2>1 DEF OrderInv
  <2>3. order[1] = s /\ order'[k] = order[k + 1]
    BY <1>0, <1>2, <1>3
  <2>. QED
    BY <1>5, <2>2, <2>3
<1>7. s \in OnDisk /\ OnDisk' = OnDisk \ {s}
  BY <1>5 DEF OnDisk, Dequeue, Oldest
<1>8. OrderInv'
  <2>1. ASSUME NEW k \in 1 .. n - 1, NEW l \in 1 .. n - 1, k < l PROVE order'[k] < order'[l]
    <3>1. k + 1 \in 1 .. n /\ l + 1 \in 1 .. n /\ k + 1 < l + 1
      BY <1>1, <2>1
    <3>2. order[k + 1] < order[l + 1]
      BY <1>1, <3>1 DEF OrderInv
    <3>. QED
      BY <1>3, <3>2
  <2>2. \A k \in 1 .. n - 1 : order'[k] <= now' /\ disk'[order'[k]] # NoJob
    BY <1>1, <1>3, <1>4, <1>6 DEF OrderInv
  <2>3. \A r \in OnDisk' : \E k \in 1 .. n - 1 : order'[k] = r
    <3>. SUFFICES ASSUME NEW r \in OnDisk, r # s PROVE \E k \in 1 .. n - 1 : order'[k] = r
      BY <1>7
    <3>1. PICK l \in 1 .. n : order[l] = r
      BY <1>1 DEF OrderInv
    <3>2. l # 1
      BY <1>0, <1>2, <3>1
    <3>3. l - 1 \in 1 .. n - 1 /\ order'[l - 1] = r
      BY <1>1, <1>3, <3>1, <3>2
    <3>. QED
      BY <3>3
  <2>. QED
    BY <1>3, <1>4, <2>1, <2>2, <2>3 DEF OrderInv
<1>9. SizeInv'
  <2>1. IsFiniteSet(OnDisk \ {s}) /\ Cardinality(OnDisk \ {s}) = Cardinality(OnDisk) - 1
    BY <1>7, FS_RemoveElement DEF SizeInv
  <2>. QED
    BY <1>3, <1>4, <1>7, <2>1 DEF SizeInv
<1>10. Promise!Take
  <2>1. Waiting \in Seq(Jobs) /\ Len(Waiting) = n /\ Waiting # <<>> /\ Waiting[1] = disk[s]
    <3>1. Waiting \in Seq(Jobs) /\ Len(Waiting) = n /\ 1 \in 1 .. n
      BY <1>1, WaitingType
    <3>2. Waiting[1] = disk[s]
      BY <1>0, <1>2, <3>1, WaitingType
    <3>. QED
      BY <1>1, <3>1, <3>2
  <2>2. Waiting' = Tail(Waiting)
    <3>1. Waiting' = [k \in 1 .. n - 1 |-> disk'[order'[k]]]
      BY <1>3 DEF Waiting
    <3>2. \A k \in 1 .. n - 1 : disk'[order'[k]] = Waiting[k + 1]
      BY <1>1, <1>6 DEF Waiting
    <3>3. Tail(Waiting) = [k \in 1 .. n - 1 |-> Waiting[k + 1]]
      BY <2>1, TailElements
    <3>. HIDE DEF n, FifoInv, PlaceInv, TypeOK
    <3>4. [k \in 1 .. n - 1 |-> disk'[order'[k]]] = [k \in 1 .. n - 1 |-> Waiting[k + 1]]
      BY <3>2
    <3>. QED
      BY <3>1, <3>3, <3>4
  <2>3. Head(Waiting) = disk[s]
    BY <2>1, TailElements
  <2>. QED
    BY <1>4, <2>1, <2>2, <2>3 DEF Promise!Take, Waiting
<1>. QED
  BY <1>8, <1>9, <1>10

\* Every step of the disk queue is a step of the promised queue or a stutter.
LEMMA QueueRefines ==
  ASSUME FifoInv, MinAdvance >= 1, [Next]_vars
  PROVE  OrderInv' /\ SizeInv' /\ [Promise!Next]_(Promise!vars)
<1>. USE DEF historyVars, queueVars
<1>1. CASE EnqueueRename
  <2>1. pusher.job \in Jobs
    BY <1>1 DEF EnqueueRename, FifoInv, PlaceInv, TypeOK, HandsFull
  <2>2. PICK j \in Jobs : j = pusher.job
    BY <2>1
  <2>3. OrderInv' /\ SizeInv' /\ Promise!Put(j)
    BY <1>1, <2>2, EnqueueRenameFifo
  <2>. QED
    BY <2>3 DEF Promise!Next
<1>2. ASSUME NEW s \in Stamps, Dequeue(s) PROVE OrderInv' /\ SizeInv' /\ [Promise!Next]_(Promise!vars)
  BY <1>2, DequeueFifo DEF Promise!Next
<1>3. ASSUME NEW s \in Stamps, EnqueueTemp(s) PROVE OrderInv' /\ SizeInv' /\ [Promise!Next]_(Promise!vars)
  <2>1. taken' = taken
    BY <1>3 DEF EnqueueTemp
  <2>. QED
    BY <1>3, <2>1, EnqueueTempFifo DEF Promise!vars, Waiting
<1>. DEFINE Quiet ==
       /\ UNCHANGED <<disk, order, now, taken>>
       /\ pusher'.pc = "temp" => pusher.pc = "temp" /\ pusher'.stamp = pusher.stamp
<1>4. ASSUME Quiet PROVE OrderInv' /\ SizeInv' /\ [Promise!Next]_(Promise!vars)
  BY <1>4, FifoKept DEF Promise!vars, Waiting
<1>5. ASSUME NEW j \in Jobs, ClientStep(j) PROVE Quiet
  BY <1>5 DEF ClientStep, Schedule, Handover, SendPanics, FifoInv, PlaceInv, TypeOK
<1>6. ASSUME PusherDone \/ PushFails PROVE Quiet
  BY <1>6 DEF PusherDone, PushFails, PusherIdle, FifoInv, PlaceInv, TypeOK
<1>7. ASSUME \/ PopperDone \/ PopperWaits \/ DequeueFails \/ PopAgain \/ EntryDropped \/ HandlerStarts
             \/ HandlerReturns \/ StopEntries \/ StopStep
      PROVE  Quiet
  BY <1>7 DEF PopperDone, PopperWaits, DequeueFails, PopAgain, EntryDropped, HandlerStarts,
     HandlerReturns, StopEntries, StopStep, Close, StopReturns
<1>8. ASSUME Crash \/ Start PROVE Quiet
  BY <1>8 DEF Crash, Start, PusherIdle
<1>9. ASSUME UNCHANGED vars PROVE Quiet
  BY <1>9 DEF vars
<1>. QED
  BY <1>1, <1>2, <1>3, <1>4, <1>5, <1>6, <1>7, <1>8, <1>9 DEF Next, PusherStep, PopperStep

\* The queue is empty at the start.
LEMMA FifoInit == Init => FifoInv /\ Promise!Init
<1>. SUFFICES ASSUME Init PROVE FifoInv /\ Promise!Init
  OBVIOUS
<1>1. PlaceInv /\ PoppedJobs
  BY QueueInit, LossInit DEF LossInv
<1>2. order = <<>> /\ taken = <<>> /\ OnDisk = {} /\ pusher.pc = "range"
  BY DEF Init, OnDisk, PusherIdle
<1>3. OrderInv
  BY <1>2 DEF OrderInv
<1>4. SizeInv
  BY <1>2, FS_EmptySet DEF SizeInv
<1>5. Waiting = <<>>
  BY <1>2 DEF Waiting
<1>. QED
  BY <1>1, <1>2, <1>3, <1>4, <1>5 DEF FifoInv, Promise!Init, Waiting

\* As long as the clock advances between two jobs, the disk queue implements
\* the promised queue across crashes and restarts: jobs are popped
\* first in, first out, at most once, and no more than maxSize of them wait
\* (nextAvailableFilename, Enqueue, dequeueJob).
THEOREM QueueIsFifo ==
  ASSUME MinAdvance >= 1
  PROVE  Spec => ImplementsJobQueue
<1>1. FifoInv /\ [Next]_vars => FifoInv'
  <2>. SUFFICES ASSUME FifoInv, [Next]_vars PROVE FifoInv'
    OBVIOUS
  <2>1. TypeOK' /\ HandsFull' /\ \A j \in Jobs : Apart(j)' /\ (client[j] = "returned" <=> Present(j))'
    BY QueueTypes, QueuePlaces DEF FifoInv
  <2>2. PoppedJobs' /\ OrderInv' /\ SizeInv'
    BY TakenStep, QueueRefines DEF FifoInv
  <2>. QED
    BY <2>1, <2>2 DEF FifoInv, PlaceInv
<1>2. FifoInv /\ [Next]_vars => [Promise!Next]_(Promise!vars)
  BY QueueRefines
<1>3. Init => FifoInv /\ Promise!Init
  BY FifoInit
<1>. QED
  BY <1>1, <1>2, <1>3, PTL DEF Spec, ImplementsJobQueue, Promise!Spec
=============================================================================
