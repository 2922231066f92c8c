------------------------------ MODULE DurableLog ------------------------------
(***************************************************************************)
(* What the rollout of a thread promises: an append-only log whose entries *)
(* reach the disk one by one and in the order they were accepted.  What is *)
(* on disk stays there; a crash, or a writer that gives up, loses the      *)
(* accepted entries that have not reached it, and no others.               *)
(***************************************************************************)
EXTENDS Naturals, Sequences

VARIABLES log,      \* the entries accepted so far
          disk      \* those that have been written

vars == <<log, disk>>

Init == log = <<>> /\ disk = <<>>

Accept == /\ Len(log') = Len(log) + 1
          /\ SubSeq(log', 1, Len(log)) = log
          /\ UNCHANGED disk

Write == /\ Len(disk) < Len(log)
         /\ disk' = Append(disk, log[Len(disk) + 1])
         /\ UNCHANGED log

Lose == log' = disk /\ UNCHANGED disk

Next == Accept \/ Write \/ Lose

Spec == Init /\ [][Next]_vars
=============================================================================
