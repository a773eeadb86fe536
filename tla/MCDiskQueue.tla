---------------------------- MODULE MCDiskQueue ----------------------------
(***************************************************************************)
(* Small instances of DiskQueue for TLC.                                   *)
(***************************************************************************)
EXTENDS DiskQueue

CONSTANTS j1, j2, j3, LastStamp

\* names 0..LastStamp: enough for every job to be written with the largest
\* step of the clock
MCStamps == 0 .. LastStamp
=============================================================================
