--------------------------- MODULE MCBenchmarkRun ---------------------------
(* Instances of BenchmarkRun: which configurations attempts start with.     *)
EXTENDS BenchmarkRun

MCScores == {0, 1}

(* The YAML of a run with discovery over two temperatures. *)
Discovering ==
  [calibrate |-> TRUE, discover |-> TRUE, temps |-> {1, 2}, probe |-> {}]

OneConfig == {Discovering}

(* One llm temperature; discovery.temperatures lists the candidates. *)
ProbingConfig == {[Discovering EXCEPT !.temps = {2}, !.probe = {1, 2}]}

(* The same run resumed after its YAML was edited: one temperature only,    *)
(* discovery or calibration switched off.  A probe list that shrinks to one *)
(* temperature is left out: its flat discovery layout can then coexist with *)
(* stale files of the other layout, which the copy prefers (cli.py 1022).   *)
DriftingConfigs ==
  {Discovering,
   [Discovering EXCEPT !.temps = {2}],
   [Discovering EXCEPT !.discover = FALSE],
   [Discovering EXCEPT !.discover = FALSE, !.temps = {1}, !.calibrate = FALSE]}
=============================================================================
