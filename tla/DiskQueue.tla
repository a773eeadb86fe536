----------------------------- MODULE DiskQueue ------------------------------
(***************************************************************************)
(* The queue of scan jobs behind `cnspec serve-api` (policy/scan/          *)
(* disk_queue.go over policy/scan/pdque/queue.go).  Schedule sends a job   *)
(* on an unbuffered channel; the pusher goroutine receives it and writes   *)
(* it to a file named by the clock; the popper goroutine removes the file  *)
(* with the smallest name and runs the handler.  The process may exit or   *)
(* be killed at any step and is started again over the same directory.     *)
(*                                                                         *)
(* Atomicity.  Enqueue, DequeueBlock and Close run under Queue.mu.  The    *)
(* pusher holds it from the size check to the rename, which is two steps   *)
(* here because the process may die in between; pusher.pc = "temp" is the  *)
(* state in which it holds the lock.  A file is named by its nanosecond    *)
(* stamp; all names have the same number of digits, so the order of the    *)
(* names is the order of the stamps.                                       *)
(***************************************************************************)
EXTENDS Integers, FiniteSets, Sequences

CONSTANTS
  Jobs,           \* the jobs clients schedule
  NoJob,          \* "no job" in a slot
  Stamps,         \* the file names (nanosecond stamps)
  MaxSize,        \* diskQueueConfig.maxSize
  MinAdvance,     \* how far the clock moves at least between two Enqueues
  MaxAdvance,     \* bound: how far it moves at most
  Unmarshalable,  \* the jobs proto.Marshal refuses
  CloseMayFail,   \* whether ReadDir may fail in Close
  MaxStarts       \* bound: how often the process is started again

ASSUME ConstantsAssumption ==
  /\ NoJob \notin Jobs
  /\ Stamps \subseteq Nat
  /\ MaxSize \in Nat \ {0}
  /\ MinAdvance \in Int
  /\ MaxAdvance \in Int
  /\ Unmarshalable \subseteq Jobs
  /\ CloseMayFail \in BOOLEAN
  /\ MaxStarts \in Nat

VARIABLES
  now,       \* the latest reading of the clock
  disk,      \* the job files: stamp -> job, or NoJob when there is none
  temps,     \* the stamps of the temporary files
  starts,    \* how often the process was started again
  up,        \* whether the process runs
  closed,    \* Queue.closed
  entries,   \* whether the channel diskQueueClient.entries is open
  client,    \* the Schedule call of each job
  pusher,    \* the pusher goroutine
  popper,    \* the popper goroutine
  stop,      \* the call of diskQueueClient.Stop
  order,     \* history: the stamps on disk in the order they were enqueued
  taken,     \* history: the jobs taken from the queue, in that order
  finished,  \* history: the jobs whose handler returned
  logged,    \* history: the jobs given up with a log line
  lost       \* history: the jobs that were in memory when the process died

queueVars   == <<now, disk, temps, closed, order>>
historyVars == <<taken, finished, logged, lost>>
vars == <<queueVars, starts, up, entries, client, pusher, popper, stop, historyVars>>

PusherIdle == [pc |-> "range", job |-> NoJob, stamp |-> 0]
PopperIdle == [pc |-> "loop", job |-> NoJob]

OnDisk == {s \in Stamps : disk[s] # NoJob}

\* Enqueue, DequeueBlock and Close start with q.mu.Lock()
LockFree == pusher.pc # "temp"

\* currentSize counts the files with the extension of a job
currentSize == Cardinality(OnDisk)

\* nextAvailableFilename: the first stamp from the reading t on that is free
nextAvailableFilename(t, s) ==
  /\ s >= t
  /\ s \notin OnDisk
  /\ \A r \in Stamps : r >= t /\ r < s => r \in OnDisk

-----------------------------------------------------------------------------
(* The client of Schedule *)

\* LocalScanner.Schedule blocks in the send on the channel
Schedule(j) ==
  /\ up
  /\ client[j] = "idle"
  /\ client' = [client EXCEPT ![j] = "sending"]
  /\ UNCHANGED <<queueVars, starts, up, entries, pusher, popper, stop, historyVars>>

\* the channel has no buffer: the send completes when the pusher receives
Handover(j) ==
  /\ up
  /\ client[j] = "sending"
  /\ entries
  /\ pusher.pc = "range"
  /\ client' = [client EXCEPT ![j] = "returned"]
  /\ pusher' = [pusher EXCEPT !.pc = "have", !.job = j]
  /\ UNCHANGED <<queueVars, starts, up, entries, popper, stop, historyVars>>

\* a send on the closed channel panics; the caller gets no reply
SendPanics(j) ==
  /\ up
  /\ client[j] = "sending"
  /\ ~entries
  /\ client' = [client EXCEPT ![j] = "panicked"]
  /\ UNCHANGED <<queueVars, starts, up, entries, pusher, popper, stop, historyVars>>

-----------------------------------------------------------------------------
(* The pusher *)

\* the loop over the closed channel ends
PusherDone ==
  /\ up
  /\ pusher.pc = "range"
  /\ ~entries
  /\ pusher' = [pusher EXCEPT !.pc = "done"]
  /\ UNCHANGED <<queueVars, starts, up, entries, client, popper, stop, historyVars>>

\* The reasons for which Enqueue returns before it writes anything
EnqueueRefused == closed \/ currentSize >= MaxSize

\* Faulty variant: the warning is given although no job was received
PushFailsEmpty ==
  /\ up
  /\ logged' = logged \cup {pusher.job}
  /\ pusher' = PusherIdle
  /\ UNCHANGED <<queueVars, starts, up, entries, client, popper, stop, taken, finished, lost>>

\* a job that cannot be marshalled, or that Enqueue refuses, or whose file
\* cannot be written (an I/O error may end Enqueue at any point), is given up
\* with a warning; what was written stays under its temporary name
PushFails ==
  /\ up
  /\ pusher.pc \in {"have", "temp"}
  /\ logged' = logged \cup {pusher.job}
  /\ pusher' = PusherIdle
  /\ UNCHANGED <<queueVars, starts, up, entries, client, popper, stop, taken, finished, lost>>

\* Enqueue up to os.WriteFile of the temporary file
EnqueueTemp(s) ==
  /\ up
  /\ pusher.pc = "have"
  /\ pusher.job \notin Unmarshalable
  /\ ~EnqueueRefused
  /\ \E t \in Stamps :
       /\ t >= now + MinAdvance
       /\ t <= now + MaxAdvance
       /\ nextAvailableFilename(t, s)
       /\ now' = t
  /\ temps' = temps \cup {s}
  /\ pusher' = [pusher EXCEPT !.pc = "temp", !.stamp = s]
  /\ UNCHANGED <<disk, closed, order, starts, up, entries, client, popper, stop, historyVars>>

\* Faulty variant: the popper is not woken
WakeNever(p) == p

\* cond.Broadcast: a waiting popper looks at the directory again
Wake(p) == IF p.pc = "waiting" THEN [p EXCEPT !.pc = "loop"] ELSE p

\* Enqueue from os.Rename on
EnqueueRename ==
  /\ up
  /\ pusher.pc = "temp"
  /\ disk' = [disk EXCEPT ![pusher.stamp] = pusher.job]
  /\ temps' = temps \ {pusher.stamp}
  /\ order' = Append(order, pusher.stamp)
  /\ pusher' = PusherIdle
  /\ popper' = Wake(popper)
  /\ UNCHANGED <<now, closed, starts, up, entries, client, stop, historyVars>>

-----------------------------------------------------------------------------
(* The popper.  An error of DequeueBlock is logged and DequeueBlock called   *)
(* again, on the same file; only ErrQueueClosed ends the goroutine.          *)

\* DequeueBlock returns ErrQueueClosed and the goroutine ends
PopperDone ==
  /\ up
  /\ popper.pc = "loop"
  /\ LockFree
  /\ closed
  /\ popper' = [popper EXCEPT !.pc = "done"]
  /\ UNCHANGED <<queueVars, starts, up, entries, client, pusher, stop, historyVars>>

\* there is no job file: cond.Wait
PopperWaits ==
  /\ up
  /\ popper.pc = "loop"
  /\ LockFree
  /\ ~closed
  /\ OnDisk = {}
  /\ popper' = [popper EXCEPT !.pc = "waiting"]
  /\ UNCHANGED <<queueVars, starts, up, entries, client, pusher, stop, historyVars>>

\* Faulty variant: ReadDir's entries are taken in any order
OldestAny(s) == s \in OnDisk

\* dequeueJob takes the file with the smallest name
Oldest(s) == s \in OnDisk /\ \A r \in OnDisk : s <= r

\* the sequence without its i-th element
Without(seq, i) == [k \in 1 .. Len(seq) - 1 |-> IF k < i THEN seq[k] ELSE seq[k + 1]]

\* Faulty variant: the file is left behind
RemoveFileNot(s) == disk' = disk

\* os.Remove of the file of the job
RemoveFile(s) == disk' = [disk EXCEPT ![s] = NoJob]

\* ReadDir fails, or the oldest file cannot be read, decoded or removed: it
\* stays where it is and DequeueBlock returns the error
DequeueFails ==
  /\ up
  /\ popper.pc = "loop"
  /\ LockFree
  /\ ~closed
  /\ popper' = [popper EXCEPT !.pc = "failed"]
  /\ UNCHANGED <<queueVars, starts, up, entries, client, pusher, stop, historyVars>>

\* Faulty variant: an error of DequeueBlock ends the popper
EndOnError == popper' = [popper EXCEPT !.pc = "done"]

\* the popper continues whatever the error was
TryAgain == popper' = PopperIdle

\* the popper logs the error and pops again
PopAgain ==
  /\ up
  /\ popper.pc = "failed"
  /\ TryAgain
  /\ UNCHANGED <<queueVars, starts, up, entries, client, pusher, stop, historyVars>>

\* dequeueJob removes the file of the job and only then returns the job
Dequeue(s) ==
  /\ up
  /\ popper.pc = "loop"
  /\ LockFree
  /\ ~closed
  /\ Oldest(s)
  /\ RemoveFile(s)
  /\ \E i \in DOMAIN order : order[i] = s /\ order' = Without(order, i)
  /\ popper' = [pc |-> "popped", job |-> disk[s]]
  /\ taken' = Append(taken, disk[s])
  /\ UNCHANGED <<now, temps, closed, starts, up, entries, client, pusher, stop, finished, logged, lost>>

\* an entry that cannot be unmarshalled is given up; its file is gone (it has
\* the type of the entries, because the builder of the queue makes no other)
EntryDropped ==
  /\ up
  /\ popper.pc = "popped"
  /\ logged' = logged \cup {popper.job}
  /\ popper' = PopperIdle
  /\ UNCHANGED <<queueVars, starts, up, entries, client, pusher, stop, taken, finished, lost>>

\* the handler is called with the job
HandlerStarts ==
  /\ up
  /\ popper.pc = "popped"
  /\ popper' = [popper EXCEPT !.pc = "handling"]
  /\ UNCHANGED <<queueVars, starts, up, entries, client, pusher, stop, historyVars>>

\* the handler (LocalScanner.Run of the job) returns
HandlerReturns ==
  /\ up
  /\ popper.pc = "handling"
  /\ finished' = finished \cup {popper.job}
  /\ popper' = PopperIdle
  /\ UNCHANGED <<queueVars, starts, up, entries, client, pusher, stop, taken, logged, lost>>

-----------------------------------------------------------------------------
(* Stop *)

\* close(c.entries)
StopEntries ==
  /\ up
  /\ stop = "no"
  /\ stop' = "entries"
  /\ entries' = FALSE
  /\ UNCHANGED <<queueVars, starts, up, client, pusher, popper, historyVars>>

\* Queue.Close removes the temporary files, sets closed and wakes the popper;
\* it gives up before that when the directory cannot be read, and Stop does
\* not look at the error
Close ==
  /\ up
  /\ stop = "entries"
  /\ LockFree
  /\ stop' = "waiting"
  /\ \/ closed' = TRUE /\ temps' = {} /\ popper' = Wake(popper)
     \/ CloseMayFail /\ UNCHANGED <<closed, temps, popper>>
  /\ UNCHANGED <<now, disk, order, starts, up, entries, client, pusher, historyVars>>

\* wg.Wait returns
StopReturns ==
  /\ up
  /\ stop = "waiting"
  /\ pusher.pc = "done"
  /\ popper.pc = "done"
  /\ stop' = "stopped"
  /\ UNCHANGED <<queueVars, starts, up, entries, client, pusher, popper, historyVars>>

-----------------------------------------------------------------------------
(* The process *)

\* The jobs that are only in memory
InMemory == {pusher.job, popper.job} \ {NoJob}

\* the process ends: the files stay, all else is gone
Crash ==
  /\ up
  /\ starts < MaxStarts
  /\ up' = FALSE
  /\ lost' = lost \cup InMemory
  /\ pusher' = [PusherIdle EXCEPT !.pc = "done"]
  /\ popper' = [PopperIdle EXCEPT !.pc = "done"]
  /\ client' = [j \in Jobs |-> IF client[j] = "sending" THEN "idle" ELSE client[j]]
  /\ UNCHANGED <<queueVars, starts, entries, stop, taken, finished, logged>>

\* Faulty variant: the directory is always made anew
StartNew ==
  /\ ~up
  /\ up' = TRUE
  /\ starts' = starts + 1
  /\ closed' = FALSE
  /\ entries' = TRUE
  /\ stop' = "no"
  /\ pusher' = PusherIdle
  /\ popper' = PopperIdle
  /\ lost' = lost \cup {disk[s] : s \in OnDisk}
  /\ disk' = [s \in Stamps |-> NoJob]
  /\ temps' = {}
  /\ order' = <<>>
  /\ UNCHANGED <<now, client, taken, finished, logged>>

\* newDqueClient over the directory that is there (NewOrOpen)
Start ==
  /\ ~up
  /\ up' = TRUE
  /\ starts' = starts + 1
  /\ closed' = FALSE
  /\ entries' = TRUE
  /\ stop' = "no"
  /\ pusher' = PusherIdle
  /\ popper' = PopperIdle
  /\ UNCHANGED <<now, disk, temps, order, client, historyVars>>

Init ==
  /\ now = 0
  /\ disk = [s \in Stamps |-> NoJob]
  /\ temps = {}
  /\ starts = 0
  /\ up = TRUE
  /\ closed = FALSE
  /\ entries = TRUE
  /\ client = [j \in Jobs |-> "idle"]
  /\ pusher = PusherIdle
  /\ popper = PopperIdle
  /\ stop = "no"
  /\ order = <<>>
  /\ taken = <<>>
  /\ finished = {}
  /\ logged = {}
  /\ lost = {}

PusherStep == PusherDone \/ PushFails \/ EnqueueRename \/ \E s \in Stamps : EnqueueTemp(s)
PopperStep ==
  \/ PopperDone \/ PopperWaits \/ DequeueFails \/ PopAgain
  \/ EntryDropped \/ HandlerStarts \/ HandlerReturns
  \/ \E s \in Stamps : Dequeue(s)
ClientStep(j) == Schedule(j) \/ Handover(j) \/ SendPanics(j)
StopStep == Close \/ StopReturns

Next ==
  \/ \E j \in Jobs : ClientStep(j)
  \/ PusherStep
  \/ PopperStep
  \/ StopEntries
  \/ StopStep
  \/ Crash
  \/ Start

Spec == Init /\ [][Next]_vars

\* The goroutines and a running Stop are scheduled; a process that ended is
\* started again; whether a client schedules, Stop is called or the process
\* ends is up to the environment.
Fairness ==
  /\ WF_vars(PusherStep)
  /\ WF_vars(PopperStep)
  /\ WF_vars(StopStep)
  /\ WF_vars(Start)
  /\ \A j \in Jobs : WF_vars(Handover(j) \/ SendPanics(j))

FairSpec == Spec /\ Fairness

-----------------------------------------------------------------------------
(* Properties *)

PopperStates == {"loop", "waiting", "failed", "popped", "handling", "done"}

\* The types of the state.
TypeOK ==
  /\ now \in Nat
  /\ disk \in [Stamps -> Jobs \cup {NoJob}]
  /\ temps \subseteq Stamps
  /\ starts \in Nat
  /\ up \in BOOLEAN
  /\ closed \in BOOLEAN
  /\ entries \in BOOLEAN
  /\ client \in [Jobs -> {"idle", "sending", "returned", "panicked"}]
  /\ pusher \in [pc : {"range", "have", "temp", "done"}, job : Jobs \cup {NoJob}, stamp : Nat]
  /\ popper \in [pc : PopperStates, job : Jobs \cup {NoJob}]
  /\ stop \in {"no", "entries", "waiting", "stopped"}
  /\ order \in Seq(Stamps)
  /\ taken \in Seq(Jobs)
  /\ finished \subseteq Jobs
  /\ logged \subseteq Jobs
  /\ lost \subseteq Jobs

Places(j) ==
  {<<"disk", s>> : s \in {r \in Stamps : disk[r] = j}}
  \cup {p \in {<<"pusher", 0>>} : pusher.job = j}
  \cup {p \in {<<"handler", 0>>} : popper.job = j}
  \cup {p \in {<<"finished", 0>>} : j \in finished}
  \cup {p \in {<<"logged", 0>>} : j \in logged}
  \cup {p \in {<<"lost", 0>>} : j \in lost}

\* A job whose Schedule call returned is at every moment in exactly one place:
\* held by the pusher, in one file, in the handler, handled, given up with a
\* log line, or lost with the process; a job that was not accepted is in none.
\* No order of pusher, popper, Stop, crash and restart duplicates a job or
\* makes it disappear unnoticed (pusher, popper, Enqueue, dequeueJob), and the
\* variables have their types.
OnePlace ==
  TypeOK /\ \A j \in Jobs :
    IF client[j] = "returned" THEN \E p \in Places(j) : Places(j) = {p}
                              ELSE Places(j) = {}

Deaths == starts + (IF up THEN 0 ELSE 1)
WasTaken(j) == \E i \in DOMAIN taken : taken[i] = j

\* dequeueJob removes the file before the handler runs and Schedule returns
\* before there is a file: a process that dies loses at most the one job it
\* had popped or was scanning and the one accepted job that was not yet in a file.
LossBound ==
  /\ Cardinality({j \in lost : WasTaken(j)}) <= Deaths
  /\ Cardinality({j \in lost : ~WasTaken(j)}) <= Deaths

\* Jobs are popped first in, first out, at most once, whatever fails, and no
\* more than maxSize of them are on disk, across crashes and restarts: the
\* queue implements JobQueue.
Promise == INSTANCE JobQueue
             WITH Capacity <- MaxSize,
                  queue <- [i \in DOMAIN order |-> disk[order[i]]],
                  taken <- taken
ImplementsJobQueue == Promise!Spec

\* Stop comes back: the popper that waits on the condition variable, the
\* pusher that waits for a job and the pusher with a job in hand all end,
\* unless the process ends first or Close could not read the directory, whose
\* error Stop ignores: then nobody ends the popper.
StopTerminates ==
  (stop = "entries") ~> (stop = "stopped" \/ ~up \/ (stop = "waiting" /\ ~closed))

Settled(j) == j \in finished \cup logged \cup lost

\* A job that Schedule accepted is handled, given up with a log line or lost
\* with the process, unless the queue was stopped, and then it is in a file, or
\* DequeueBlock fails again and again: no job waits for a wake-up that does not
\* come, and no finite number of errors is enough to keep a job back.  (As
\* "returned" is for good, the last case is "infinitely often": a file that can
\* never be read stays the oldest, and all that is behind it waits for ever.)
EveryJobSettles ==
  \A j \in Jobs :
    client[j] = "returned"
      ~> (Settled(j) \/ (stop = "stopped" /\ \E s \in Stamps : disk[s] = j) \/ popper.pc = "failed")
=============================================================================
