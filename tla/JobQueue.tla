------------------------------ MODULE JobQueue ------------------------------
(***************************************************************************)
(* What the disk queue of scan jobs promises to the popper, which hands    *)
(* the jobs to the handler of LocalScanner.EnableQueue: jobs are taken     *)
(* first in, first out, each at most once, and no more than a fixed number *)
(* wait.                                                                   *)
(* DiskQueue is shown to implement this specification.                     *)
(***************************************************************************)
EXTENDS Naturals, Sequences

CONSTANTS Jobs,      \* the jobs a client may schedule
          Capacity   \* the largest number of jobs that wait

VARIABLES queue,     \* the jobs that wait, oldest first
          taken      \* the jobs that were taken, in that order

vars == <<queue, taken>>

InSeq(j, s) == \E i \in DOMAIN s : s[i] = j

Init == queue = <<>> /\ taken = <<>>

Put(j) ==
  /\ ~InSeq(j, queue)
  /\ ~InSeq(j, taken)
  /\ Len(queue) < Capacity
  /\ queue' = Append(queue, j)
  /\ UNCHANGED taken

Take ==
  /\ queue # <<>>
  /\ taken' = Append(taken, Head(queue))
  /\ queue' = Tail(queue)

Next == Take \/ \E j \in Jobs : Put(j)

Spec == Init /\ [][Next]_vars
=============================================================================
