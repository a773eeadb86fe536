------------------------------ MODULE TodoList ------------------------------
(***************************************************************************)
(* The list of assets on the terminal during a scan                        *)
(* (cli/progress/todolist.go): the model of a bubbletea program.           *)
(*                                                                         *)
(* The scanner tells the list about an asset that it found, that a scan    *)
(* has started, and how it ended (policy/scan/scan_pipeline.go and         *)
(* RunAssetJob in local_scanner.go).  The goroutines of several assets do  *)
(* so at the same time; bubbletea handles one message after the other.     *)
(* Between messages the list is drawn: View picks the rows.  Names, icons, *)
(* colours, scores and times are left out.                                 *)
(***************************************************************************)
EXTENDS Integers, Sequences, FiniteSets, SequencesExt

CONSTANTS
  Assets,            \* the keys of tasks
  MinVisibleSlots    \* minVisibleSlots of View, 5 in the code

ListAssumption == MinVisibleSlots \in Nat \ {0}

VARIABLES
  scan,            \* the scan of an asset: none, listed, discovering, running, ended
  sending,         \* the message a goroutine of the asset is sending, or "none"
  tasks,           \* tasks: the keys in the order they were added
  state,           \* key -> state, for the keys of tasks
  peakInProgress,  \* peakInProgress
  drawn            \* the rows of the last View, its "more" and "scanned" counts

vars == <<scan, sending, tasks, state, peakInProgress, drawn>>
list == <<tasks, state, peakInProgress, drawn>>

Terminal == {"completed", "errored", "notApplicable"}
States == {"pending", "inProgress"} \cup Terminal

Init ==
  /\ scan = [a \in Assets |-> "none"]
  /\ sending = [a \in Assets |-> "none"]
  /\ tasks = << >>
  /\ state = << >>
  /\ peakInProgress = 0
  /\ drawn = [rows |-> << >>, remaining |-> 0, done |-> 0]

\* program.Send returns when the program takes the message
Send(a, message, next) ==
  /\ sending[a] = "none"
  /\ sending' = [sending EXCEPT ![a] = message]
  /\ scan' = [scan EXCEPT ![a] = next]
  /\ UNCHANGED list

\* flush lists an asset; a later batch may have one with the same platform id
AddTask(a) == scan[a] # "discovering" /\ Send(a, "add", IF scan[a] = "none" THEN "listed" ELSE scan[a])

\* Submit: the goroutine of the asset starts
Start(a) == scan[a] = "listed" /\ Send(a, "progress", "running")

\* Submit: the goroutine of an asset with delayed discovery starts
StartDelayed(a) == scan[a] = "none" /\ Send(a, "progress", "discovering")

\* scanSingleAsset lists the asset that was discovered late
AddTaskDelayed(a) == scan[a] = "discovering" /\ Send(a, "add", "running")

\* results of queries
OnProgress(a) == scan[a] = "running" /\ Send(a, "progress", "running")

\* the end of RunAssetJob, or of scanSingleAsset when the asset cannot be synced
Ends(a, outcome) == scan[a] = "running" /\ Send(a, outcome, "ended")

With(key, s) == [k \in DOMAIN state \cup {key} |-> IF k = key THEN s ELSE state[k]]

\* Faulty variant: an asset that is listed again is a new task
UpdateAddsAgain(key) ==
  /\ sending[key] # "none"
  /\ sending' = [sending EXCEPT ![key] = "none"]
  /\ IF sending[key] = "add"
       THEN tasks' = Append(tasks, key) /\ state' = With(key, "pending")
       ELSE UNCHANGED <<tasks, state>>
  /\ UNCHANGED <<scan, peakInProgress, drawn>>

\* Faulty variant: an asset that is listed again starts again
UpdateRestarts(key) ==
  LET known == key \in DOMAIN state
  IN  /\ sending[key] # "none"
      /\ sending' = [sending EXCEPT ![key] = "none"]
      /\ CASE sending[key] = "add" -> tasks' = (IF known THEN tasks ELSE Append(tasks, key)) /\ state' = With(key, "pending")
           [] sending[key] = "progress" /\ known /\ state[key] = "pending" ->
                state' = With(key, "inProgress") /\ UNCHANGED tasks
           [] sending[key] \in Terminal /\ known -> state' = With(key, sending[key]) /\ UNCHANGED tasks
           [] OTHER -> UNCHANGED <<tasks, state>>
      /\ UNCHANGED <<scan, peakInProgress, drawn>>

\* Faulty variant: only a task that is running can end
UpdateRunningOnly(key) ==
  LET known == key \in DOMAIN state
  IN  /\ sending[key] # "none"
      /\ sending' = [sending EXCEPT ![key] = "none"]
      /\ CASE sending[key] = "add" /\ ~known -> tasks' = Append(tasks, key) /\ state' = With(key, "pending")
           [] sending[key] = "progress" /\ known /\ state[key] = "pending" ->
                state' = With(key, "inProgress") /\ UNCHANGED tasks
           [] sending[key] \in Terminal /\ known /\ state[key] = "inProgress" ->
                state' = With(key, sending[key]) /\ UNCHANGED tasks
           [] OTHER -> UNCHANGED <<tasks, state>>
      /\ UNCHANGED <<scan, peakInProgress, drawn>>

\* Update: a message about a key that is not listed, and progress of a task
\* that is not pending, change no state
Update(key) ==
  LET known == key \in DOMAIN state
  IN  /\ sending[key] # "none"
      /\ sending' = [sending EXCEPT ![key] = "none"]
      /\ CASE sending[key] = "add" /\ ~known -> tasks' = Append(tasks, key) /\ state' = With(key, "pending")
           [] sending[key] = "progress" /\ known /\ state[key] = "pending" ->
                state' = With(key, "inProgress") /\ UNCHANGED tasks
           [] sending[key] \in Terminal /\ known -> state' = With(key, sending[key]) /\ UNCHANGED tasks
           [] OTHER -> UNCHANGED <<tasks, state>>
      /\ UNCHANGED <<scan, peakInProgress, drawn>>

In(states) == SelectSeq(tasks, LAMBDA k : state[k] \in states)

Least(a, b) == IF a < b THEN a ELSE b
Most(a, b)  == IF a > b THEN a ELSE b

\* the numbers of finished and pending rows
Slots(finished, inProgress, pending, visible) ==
  IF inProgress >= visible THEN [finished |-> 0, pending |-> 0]
  ELSE LET base        == Least(finished, 2)
           showPending == Least(pending, visible - base - inProgress)
       IN  [finished |-> Least(finished, visible - showPending - inProgress), pending |-> showPending]

\* Faulty variant: the running tasks are cut off at the slots as well
RowsCut(finished, inProgress, pending, slots) ==
  LET all == finished \o inProgress \o pending
  IN  SubSeq(all, 1, IF Len(all) < MinVisibleSlots THEN Len(all) ELSE MinVisibleSlots)

\* the rows: the last finished tasks, all that are running, the next pending
\* ones; a loop over a negative number has no rounds
Rows(finished, inProgress, pending, slots) ==
  SubSeq(finished, Len(finished) - slots.finished + 1, Len(finished))
    \o inProgress
    \o SubSeq(pending, 1, slots.pending)

\* View
View ==
  LET finished   == In(Terminal)
      inProgress == In({"inProgress"})
      pending    == In({"pending"})
      slots      == Slots(Len(finished), Len(inProgress), Len(pending), Most(MinVisibleSlots, peakInProgress'))
  IN  /\ peakInProgress' = Most(peakInProgress, Len(inProgress))
      /\ drawn' = [rows |-> Rows(finished, inProgress, pending, slots),
                   remaining |-> Len(pending) - slots.pending,
                   done |-> Len(finished)]
      /\ UNCHANGED <<scan, sending, tasks, state>>

Outcome(a) == \E outcome \in Terminal : Ends(a, outcome)

Next ==
  \/ \E a \in Assets : \/ AddTask(a)
                       \/ Start(a)
                       \/ StartDelayed(a)
                       \/ AddTaskDelayed(a)
                       \/ OnProgress(a)
                       \/ Outcome(a)
                       \/ Update(a)
  \/ View

Spec == Init /\ [][Next]_vars

-----------------------------------------------------------------------------
(* Properties *)

\* The types of the state; a task is listed once.
TypeOK ==
  /\ scan \in [Assets -> {"none", "listed", "discovering", "running", "ended"}]
  /\ sending \in [Assets -> {"none", "add", "progress"} \cup Terminal]
  /\ IsInjective(tasks)
  /\ ToSet(tasks) = DOMAIN state
  /\ state \in [DOMAIN state -> States]
  /\ peakInProgress \in 0 .. Cardinality(Assets)
  /\ IsInjective(drawn.rows)

\* A task that ended stays ended, with the outcome of its scan, although its
\* key can be listed again and progress can come in any number.
OutcomeStays ==
  [][\A k \in DOMAIN state : state[k] \in Terminal => state'[k] = state[k]]_vars

\* A task that is running when the list is drawn has a row, even when there
\* are more of them than slots.
RunningIsVisible ==
  [][drawn' # drawn =>
       \A k \in DOMAIN state : state[k] = "inProgress" => k \in ToSet(drawn'.rows)]_vars

\* A scan that ended and whose messages are all taken is counted as scanned,
\* with its outcome, although its key may have been listed after its first
\* message or again in between, and no progress of it was ever taken.
EveryScanCounted ==
  \A a \in Assets : scan[a] = "ended" /\ sending[a] = "none" => a \in DOMAIN state /\ state[a] \in Terminal
=============================================================================
