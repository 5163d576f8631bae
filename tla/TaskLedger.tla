----------------------------- MODULE TaskLedger -----------------------------
(***************************************************************************)
(* What either work queue of cli.py promises to the benchmark phase that   *)
(* called it: every queued task/temperature pair is recorded at most once, *)
(* the queue returns only when all of them are recorded, and once it has   *)
(* given up with an exception nothing more is recorded.  How pairs travel  *)
(* through thread pools, containers and retries is left out.               *)
(***************************************************************************)
CONSTANT Pairs          \* the task/temperature pairs handed to the queue

VARIABLES
  recorded,             \* pairs whose score has been stored
  run                   \* "running", "complete" or "aborted"

vars == <<recorded, run>>

TypeOK ==
  /\ recorded \subseteq Pairs
  /\ run \in {"running", "complete", "aborted"}

Init ==
  /\ recorded = {}
  /\ run = "running"

Record(p) ==
  /\ run = "running"
  /\ p \notin recorded
  /\ recorded' = recorded \cup {p}
  /\ UNCHANGED run

Complete ==
  /\ run = "running"
  /\ recorded = Pairs
  /\ run' = "complete"
  /\ UNCHANGED recorded

Abort ==
  /\ run = "running"
  /\ run' = "aborted"
  /\ UNCHANGED recorded

Next == (\E p \in Pairs : Record(p)) \/ Complete \/ Abort

(* Nothing is said of when a queue ends: an evaluation may never do so. *)
Spec == Init /\ [][Next]_vars
=============================================================================
