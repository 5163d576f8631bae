----------------------------- MODULE MCBackfill -----------------------------
(* Instances of Backfill, in the order of the walk: a run of server s1, one  *)
(* whose benchmark is still running, one of a cloud provider, one of s2.     *)
EXTENDS Backfill

CONSTANTS s1, s2

MCServer == <<s1, s1, Public, s2>>
MCLive == {2}

(* A library that knows every model with its size, and one where the model   *)
(* of the first run is a grouped entry and that of the last, as on a server  *)
(* that is down, is not to be found.                                         *)
MCLibraries ==
  {[r \in Run |-> [size |-> 1, grouped |-> FALSE]],
   [r \in Run |-> [size |-> IF r = 4 THEN 0 ELSE 2, grouped |-> r = 1]]}

MCOptions ==
  {[dryRun |-> FALSE, overlap |-> o, baseUrl |-> "own"] : o \in BOOLEAN}
  \cup {[dryRun |-> TRUE, overlap |-> FALSE, baseUrl |-> "own"],
        [dryRun |-> FALSE, overlap |-> FALSE, baseUrl |-> s1]}

OneServer == {[dryRun |-> FALSE, overlap |-> FALSE, baseUrl |-> s1]}
=============================================================================
