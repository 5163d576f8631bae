----------------------------- MODULE BenchmarkRun -----------------------------
(***************************************************************************)
(* One benchmark run directory over several attempts (cli.py,              *)
(* _execute_benchmark): calibrate, probe the temperatures on the discovery *)
(* tasks, select a winner, run every scored task at it and write the       *)
(* summary.  The process may be killed between any two writes; what the    *)
(* next attempt knows is what it finds on disk.                            *)
(*                                                                         *)
(* The generation queue inside a phase (AgenticPipeline, GenerationQueue)  *)
(* appears here as TaskLedger allows it: queued pairs are recorded one by  *)
(* one in any order, and the queue may give up at any moment.              *)
(*                                                                         *)
(* Temperatures are numbered from 1 in increasing order; 0 stands for no   *)
(* temperature, no calibration and, as a path, the flat layout.            *)
(***************************************************************************)
EXTENDS Integers, FiniteSets, Functions

CONSTANTS
  ScoredTasks,     \* positions of the scored tasks in the suite: 1..n
  Suites,          \* of BOOLEAN: may a run be of the evolution suite or not
  GreenfieldDiscovery, EvolutionDiscovery,  \* discovery tasks of each suite
  Temperatures,    \* every temperature some configuration names
  Scores,          \* points a result can earn
  Configs,         \* configurations an attempt may be started with
  Calibrations,    \* what a speed calibration can measure
  MaxAttempts      \* bound: process starts

ASSUME RunAssumption ==
  /\ \A ps \in {ScoredTasks, GreenfieldDiscovery, EvolutionDiscovery} :
       ps \subseteq Nat \ {0} /\ IsFiniteSet(ps) /\ ps # {}
  /\ Suites \subseteq BOOLEAN /\ Suites # {}
  /\ Temperatures \subseteq Nat \ {0} /\ IsFiniteSet(Temperatures)
  /\ Scores \subseteq Nat /\ Scores # {}
  /\ Calibrations \subseteq Nat \ {0} /\ Calibrations # {}
  /\ Configs # {}
  /\ Configs \subseteq [calibrate : BOOLEAN, discover : BOOLEAN,
                        temps : (SUBSET Temperatures) \ {{}},
                        probe : SUBSET Temperatures]
  /\ MaxAttempts \in Nat

VARIABLES
  \* on disk
  file,            \* result.json by path
  discoveryJson,   \* winner named by discovery.json, 0 if there is none
  selected,        \* selected_temperature.json, 0 if there is none
  calibration,     \* calibration.json, 0 if there is none
  summary,         \* summary.json
  \* in the memory of the attempt
  pc, config, resuming, from, phase, temps, measured, scores, reused, queued,
  writing,
  \* history, bound and the suite of the run
  used,            \* calibrations under which some result was produced
  attempts,
  evolution        \* suite "evolution": discovery scores are not reused

disk == <<file, discoveryJson, selected, calibration, summary>>
memory == <<config, resuming, from, phase, temps, measured, scores, reused,
            queued, writing>>
vars == <<disk, pc, memory, used, attempts, evolution>>

-----------------------------------------------------------------------------
(* Paths, results and the selection rule.                                  *)

None == -1
Flat == 0
DiscoveryTasks == IF evolution THEN EvolutionDiscovery ELSE GreenfieldDiscovery
Task == ScoredTasks \cup GreenfieldDiscovery \cup EvolutionDiscovery
Work == Task \X Temperatures
Path == {"discovery", "full"} \X Task \X (Temperatures \cup {Flat})

Absent == [kind |-> "absent", temp |-> 0, earned |-> 0]
Partial == [kind |-> "partial", temp |-> 0, earned |-> 0]
Whole(t, e) == [kind |-> "whole", temp |-> t, earned |-> e]
Content == {Absent, Partial} \cup {Whole(t, e) : t \in Temperatures, e \in Scores}

NoScores == [x \in Work |-> None]
NoReuse == [p \in Task |-> None]
NoSummary == [kind |-> "absent", temp |-> 0, scores |-> [p \in ScoredTasks |-> None]]

(* temperatures/temperature-X/tasks/p with several temperatures, else tasks/p *)
PathOf(ph, ts, x) == <<ph, x[1], IF Cardinality(ts) > 1 THEN x[2] ELSE Flat>>

Earned(sc, ps, t) == SumFunction([p \in ps |-> sc[<<p, t>>]])

Best_FaultyHighest(sc, ps, ts) ==
  CHOOSE t \in ts : \A u \in ts :
    \/ Earned(sc, ps, t) > Earned(sc, ps, u)
    \/ Earned(sc, ps, t) = Earned(sc, ps, u) /\ t >= u

(* Most points; of the temperatures that tie, the lowest. *)
Best(sc, ps, ts) ==
  CHOOSE t \in ts : \A u \in ts :
    \/ Earned(sc, ps, t) > Earned(sc, ps, u)
    \/ Earned(sc, ps, t) = Earned(sc, ps, u) /\ t <= u

(* The rule that fills discovery.json is written anew in report.py: a run  *)
(* replaces the best one when its pair (points, -temperature) is greater.  *)
Replaces(sc, ps, u, t) ==
  \/ Earned(sc, ps, u) > Earned(sc, ps, t)
  \/ Earned(sc, ps, u) = Earned(sc, ps, t) /\ u < t

Reported(sc, ps, ts) ==
  CHOOSE t \in ts : ~\E u \in ts : Replaces(sc, ps, u, t)

ProbedBy(c) == IF c.probe # {} THEN c.probe ELSE c.temps

PhaseTasks == IF phase = "discovery" THEN DiscoveryTasks ELSE ScoredTasks
PhaseWork == PhaseTasks \X temps
Winner == Best(scores, PhaseTasks, temps)

-----------------------------------------------------------------------------
Blank ==
  /\ config' = CHOOSE c \in Configs : TRUE
  /\ resuming' = FALSE /\ from' = 0 /\ phase' = "none" /\ temps' = {}
  /\ measured' = 0 /\ scores' = NoScores /\ reused' = NoReuse
  /\ queued' = {} /\ writing' = {}

Init ==
  /\ file = [x \in Path |-> Absent]
  /\ discoveryJson = 0 /\ selected = 0 /\ calibration = 0
  /\ summary = NoSummary
  /\ pc = "new"
  /\ config = CHOOSE c \in Configs : TRUE
  /\ resuming = FALSE /\ from = 0 /\ phase = "none" /\ temps = {}
  /\ measured = 0 /\ scores = NoScores /\ reused = NoReuse
  /\ queued = {} /\ writing = {}
  /\ used = {}
  /\ attempts = 0
  /\ evolution \in Suites

Stopped == {"new", "killed", "failed", "done"}

(* The process is over: its memory is gone. *)
Exit(how) ==
  /\ pc' = how
  /\ Blank

-----------------------------------------------------------------------------
(* Starting and resuming.                                                  *)

Start(c) ==
  /\ pc = "new" /\ attempts < MaxAttempts
  /\ pc' = "calibrate"
  /\ config' = c
  /\ attempts' = attempts + 1
  /\ UNCHANGED <<disk, resuming, from, phase, temps, measured, scores, reused,
                 queued, writing, used, evolution>>

(* --resume p, or --resume-campaign, which resumes from the first task. *)
Resume(c, p) ==
  /\ pc \in Stopped \ {"new"} /\ attempts < MaxAttempts
  /\ pc' = "calibrate"
  /\ config' = c
  /\ resuming' = TRUE
  /\ from' = p
  /\ attempts' = attempts + 1
  /\ UNCHANGED <<disk, phase, temps, measured, scores, reused, queued, writing,
                 used, evolution>>

Calibrate_FaultyRemeasures ==
  /\ pc = "calibrate" /\ config.calibrate
  /\ pc' = "decide"
  /\ \E m \in Calibrations : measured' = m
  /\ calibration' = measured'
  /\ UNCHANGED <<file, discoveryJson, selected, summary, config, resuming,
                 from, phase, temps, scores, reused, queued, writing, used,
                 attempts, evolution>>

(* Measure once, save at once; a resumed run loads what was saved. *)
Calibrate ==
  /\ pc = "calibrate" /\ config.calibrate
  /\ pc' = "decide"
  /\ IF resuming /\ calibration # 0
     THEN measured' = calibration
     ELSE \E m \in Calibrations : measured' = m
  /\ calibration' = measured'
  /\ UNCHANGED <<file, discoveryJson, selected, summary, config, resuming,
                 from, phase, temps, scores, reused, queued, writing, used,
                 attempts, evolution>>

SkipCalibration ==
  /\ pc = "calibrate" /\ ~config.calibrate
  /\ IF resuming /\ calibration # 0
     THEN Exit("failed")
     ELSE pc' = "decide" /\ UNCHANGED memory
  /\ UNCHANGED <<disk, used, attempts, evolution>>

-----------------------------------------------------------------------------
(* Which phase comes next, and at which temperatures.                      *)

IsDiscovery_FaultyAlways ==
  config.discover /\ Cardinality(ProbedBy(config)) > 1

IsDiscovery ==
  /\ config.discover
  /\ ~resuming \/ selected = 0
  /\ Cardinality(ProbedBy(config)) > 1 \/ config.probe # {}

DecideDiscovery ==
  /\ pc = "decide" /\ IsDiscovery
  /\ pc' = "scan"
  /\ phase' = "discovery"
  /\ temps' = ProbedBy(config)
  /\ UNCHANGED <<disk, config, resuming, from, measured, scores, reused,
                 queued, writing, used, attempts, evolution>>

(* _infer_selected_temperature re-scores saved discovery results. *)
SavedProbe(p, t) == file[<<"discovery", p, t>>]

InferredTemperature ==
  LET sc == [x \in Work |-> SavedProbe(x[1], x[2]).earned]
  IN IF \A p \in DiscoveryTasks, t \in ProbedBy(config) :
           SavedProbe(p, t).kind = "whole"
     THEN Best(sc, DiscoveryTasks, ProbedBy(config))
     ELSE 0

(* Straight to the full phase, at the temperature selected earlier if any. *)
DecideFull ==
  /\ pc = "decide" /\ ~IsDiscovery
  /\ LET known == IF ~(resuming /\ config.discover) THEN 0
                  ELSE IF selected # 0 THEN selected
                  ELSE InferredTemperature
     IN IF known # 0
        THEN /\ selected' = known
             /\ IF known \in ProbedBy(config)
                THEN /\ pc' = "scan" /\ phase' = "full" /\ temps' = {known}
                     /\ UNCHANGED <<config, resuming, from, measured, scores,
                                    reused, queued, writing>>
                ELSE Exit("failed")
        ELSE /\ pc' = "scan" /\ phase' = "full" /\ temps' = config.temps
             /\ UNCHANGED <<selected, config, resuming, from, measured, scores,
                            reused, queued, writing>>
  /\ UNCHANGED <<file, discoveryJson, calibration, summary, used, attempts,
                 evolution>>

-----------------------------------------------------------------------------
(* Scanning the run directory for results of earlier attempts.             *)

ReusedWork == {x \in PhaseWork : phase = "full" /\ reused[x[1]] # None}
Found_FaultyDiscoveryOnly ==
  {x \in PhaseWork \ ReusedWork :
     resuming /\ phase = "discovery" /\ file[PathOf(phase, temps, x)].kind # "absent"}
Found == {x \in PhaseWork \ ReusedWork :
            resuming /\ file[PathOf(phase, temps, x)].kind # "absent"}
Missing == PhaseWork \ (ReusedWork \cup Found)

(* A truncated result.json is no JSON, and a result of another temperature *)
(* is refused.                                                             *)
Loadable_FaultyAnyTemperature(x) == file[PathOf(phase, temps, x)].kind = "whole"

Loadable(x) ==
  LET r == file[PathOf(phase, temps, x)]
  IN r.kind = "whole" /\ r.temp = x[2]

TooEarly == {x \in Missing : resuming /\ phase = "full" /\ x[1] < from}

ScanFails_FaultyRetries ==
  /\ pc = "scan"
  /\ TooEarly # {} \/ \E x \in Found : ~Loadable(x)
  /\ pc' = "decide"
  /\ UNCHANGED <<disk, memory, used, attempts, evolution>>

ScanFails ==
  /\ pc = "scan"
  /\ TooEarly # {} \/ \E x \in Found : ~Loadable(x)
  /\ Exit("failed")
  /\ UNCHANGED <<disk, used, attempts, evolution>>

Scan ==
  /\ pc = "scan"
  /\ TooEarly = {} /\ \A x \in Found : Loadable(x)
  /\ scores' = [x \in Work |->
       IF x \in ReusedWork THEN reused[x[1]]
       ELSE IF x \in Found THEN file[PathOf(phase, temps, x)].earned
       ELSE None]
  /\ queued' = Missing
  /\ pc' = "work"
  /\ UNCHANGED <<disk, config, resuming, from, phase, temps, measured, reused,
                 writing, used, attempts, evolution>>

-----------------------------------------------------------------------------
(* The generation queue: write_result_json truncates, then writes.         *)

BeginResult(x) ==
  /\ pc = "work" /\ writing = {} /\ x \in queued
  /\ file' = [file EXCEPT ![PathOf(phase, temps, x)] = Partial]
  /\ writing' = {x}
  /\ UNCHANGED <<discoveryJson, selected, calibration, summary, pc, config,
                 resuming, from, phase, temps, measured, scores, reused,
                 queued, used, attempts, evolution>>

EndResult(x) ==
  /\ pc = "work" /\ x \in writing
  /\ \E e \in Scores :
       /\ file' = [file EXCEPT ![PathOf(phase, temps, x)] = Whole(x[2], e)]
       /\ scores' = [scores EXCEPT ![x] = e]
  /\ writing' = {}
  /\ queued' = queued \ {x}
  /\ used' = used \cup {measured}
  /\ UNCHANGED <<discoveryJson, selected, calibration, summary, pc, config,
                 resuming, from, phase, temps, measured, reused, attempts,
                 evolution>>

(* The queue raised after a failed preparation, session or evaluation. *)
QueueFails ==
  /\ pc = "work" /\ writing = {} /\ queued # {}
  /\ Exit("failed")
  /\ UNCHANGED <<disk, used, attempts, evolution>>

PhaseDone ==
  /\ pc = "work" /\ queued = {}
  /\ pc' = IF phase = "discovery" THEN "discovery_json" ELSE "summary"
  /\ UNCHANGED <<disk, memory, used, attempts, evolution>>

-----------------------------------------------------------------------------
(* Between the phases: three writes, in this order.                        *)

WriteDiscoveryJson ==
  /\ pc = "discovery_json"
  /\ discoveryJson' = Reported(scores, PhaseTasks, temps)
  /\ pc' = "persist"
  /\ UNCHANGED <<file, selected, calibration, summary, memory, used, attempts,
                 evolution>>

PersistSelection_FaultySkipped ==
  /\ pc = "persist"
  /\ pc' = "copy"
  /\ reused' = [p \in Task |->
       IF ~evolution /\ p \in DiscoveryTasks \cap ScoredTasks
       THEN scores[<<p, Winner>>] ELSE None]
  /\ queued' = IF evolution THEN {} ELSE DiscoveryTasks \X {Winner}
  /\ UNCHANGED <<disk, config, resuming, from, phase, temps, measured, scores,
                 writing, used, attempts, evolution>>

(* _persist_selected_temperature, then the scores the full phase reuses. *)
PersistSelection ==
  /\ pc = "persist"
  /\ selected' = Winner
  /\ pc' = "copy"
  /\ reused' = [p \in Task |->
       IF ~evolution /\ p \in DiscoveryTasks \cap ScoredTasks
       THEN scores[<<p, Winner>>] ELSE None]
  /\ queued' = IF evolution THEN {} ELSE DiscoveryTasks \X {Winner}
  /\ UNCHANGED <<file, discoveryJson, calibration, summary, config, resuming,
                 from, phase, temps, measured, scores, writing, used, attempts,
                 evolution>>

BeginCopy_FaultySkips(x) ==
  /\ pc = "copy" /\ writing = {} /\ x \in queued
  /\ queued' = queued \ {x}
  /\ UNCHANGED <<disk, pc, config, resuming, from, phase, temps, measured,
                 scores, reused, writing, used, attempts, evolution>>

(* shutil.copy2 of one discovery result to tasks/p, lowest task first. *)
BeginCopy(x) ==
  /\ pc = "copy" /\ writing = {} /\ x \in queued
  /\ \A y \in queued : x[1] <= y[1]
  /\ file' = [file EXCEPT ![<<"full", x[1], Flat>>] = Partial]
  /\ writing' = {x}
  /\ UNCHANGED <<discoveryJson, selected, calibration, summary, pc, config,
                 resuming, from, phase, temps, measured, scores, reused,
                 queued, used, attempts, evolution>>

EndCopy(x) ==
  /\ pc = "copy" /\ x \in writing
  /\ LET several == file[<<"discovery", x[1], x[2]>>]
         flat == file[<<"discovery", x[1], Flat>>]
     IN file' = [file EXCEPT ![<<"full", x[1], Flat>>] =
                   IF several.kind # "absent" THEN several ELSE flat]
  /\ writing' = {}
  /\ queued' = queued \ {x}
  /\ UNCHANGED <<discoveryJson, selected, calibration, summary, pc, config,
                 resuming, from, phase, temps, measured, scores, reused, used,
                 attempts, evolution>>

CopyDone ==
  /\ pc = "copy" /\ queued = {}
  /\ pc' = "scan"
  /\ phase' = "full"
  /\ temps' = {Winner}
  /\ scores' = NoScores
  /\ UNCHANGED <<disk, config, resuming, from, measured, reused, queued,
                 writing, used, attempts, evolution>>

-----------------------------------------------------------------------------
BeginSummary ==
  /\ pc = "summary" /\ writing = {}
  /\ summary' = [NoSummary EXCEPT !.kind = "partial"]
  /\ writing' = PhaseWork
  /\ UNCHANGED <<file, discoveryJson, selected, calibration, pc, config,
                 resuming, from, phase, temps, measured, scores, reused,
                 queued, used, attempts, evolution>>

EndSummary ==
  /\ pc = "summary" /\ writing # {}
  /\ summary' = [kind |-> "whole", temp |-> Winner,
                 scores |-> [p \in ScoredTasks |-> scores[<<p, Winner>>]]]
  /\ Exit("done")
  /\ UNCHANGED <<file, discoveryJson, selected, calibration, used, attempts,
                 evolution>>

(* The process is killed, or the machine goes down. *)
Kill ==
  /\ pc \notin Stopped
  /\ Exit("killed")
  /\ UNCHANGED <<disk, used, attempts, evolution>>

Step ==
  \/ Calibrate \/ SkipCalibration
  \/ DecideDiscovery \/ DecideFull
  \/ ScanFails \/ Scan
  \/ \E x \in Work : BeginResult(x) \/ EndResult(x)
  \/ PhaseDone
  \/ WriteDiscoveryJson \/ PersistSelection
  \/ \E x \in Work : BeginCopy(x) \/ EndCopy(x)
  \/ CopyDone
  \/ BeginSummary \/ EndSummary

Next ==
  \/ \E c \in Configs : Start(c)
  \/ \E c \in Configs, p \in ScoredTasks : Resume(c, p)
  \/ Step \/ QueueFails \/ Kill

SafeSpec == Init /\ [][Next]_vars

(* A running attempt makes progress; nobody has to resume a stopped one.   *)
Spec == SafeSpec /\ WF_vars(Step)

-----------------------------------------------------------------------------
(* Properties.                                                             *)

(* Types of the files on disk and of the memory of an attempt. *)
TypeOK ==
  /\ file \in [Path -> Content]
  /\ discoveryJson \in Temperatures \cup {0}
  /\ selected \in Temperatures \cup {0}
  /\ calibration \in Calibrations \cup {0}
  /\ summary.kind \in {"absent", "partial", "whole"}
  /\ pc \in Stopped \cup {"calibrate", "decide", "scan", "work",
                          "discovery_json", "persist", "copy", "summary"}
  /\ config \in Configs
  /\ resuming \in BOOLEAN
  /\ from \in ScoredTasks \cup {0}
  /\ phase \in {"none", "discovery", "full"}
  /\ temps \subseteq Temperatures
  /\ measured \in Calibrations \cup {0}
  /\ scores \in [Work -> Scores \cup {None}]
  /\ reused \in [Task -> Scores \cup {None}]
  /\ queued \subseteq Work
  /\ writing \subseteq Work
  /\ used \subseteq Calibrations \cup {0}
  /\ attempts \in 0..MaxAttempts
  /\ evolution \in Suites

(* "Completed discovery keeps its selected temperature": whatever is       *)
(* killed and resumed, a persisted selection is never replaced or lost.    *)
SelectionFinal == [][selected # 0 => selected' = selected]_selected

(* A persisted selection is the winner of complete discovery results that  *)
(* are still on disk, however many attempts it took to gather them, and    *)
(* discovery.json, whose winner report.py determines by a rule of its own, *)
(* names the same one: a campaign requires that of the summary             *)
(* (campaign.py 131-137).  Not so for an attempt whose list of candidates  *)
(* has shrunk to one: it may infer a winner among them.                    *)
SelectionJustified ==
  selected # 0 =>
    \E c \in Configs :
      LET ts == ProbedBy(c)
          probe(x) == file[PathOf("discovery", ts, x)]
          points(t) ==
            SumFunction([p \in DiscoveryTasks |-> probe(<<p, t>>).earned])
      IN /\ \A x \in DiscoveryTasks \X ts : probe(x).kind = "whole"
         /\ \A t \in ts : points(t) <= points(selected)
         /\ \A t \in ts : points(t) = points(selected) => selected <= t
         /\ discoveryJson = selected

(* Nothing of the full phase reaches the disk before the selection does:   *)
(* otherwise a resume could select another temperature and mix the two.    *)
FullNeedsSelection ==
  (\E x \in Path : x[1] = "full" /\ file[x].kind # "absent") => selected # 0

(* A result that was written completely is never overwritten: no resume    *)
(* replaces a verdict by a later sample of the model.                      *)
SavedResultsFinal ==
  [][\A x \in Path : file[x].kind = "whole" => file'[x] = file[x]]_file

(* Every line of the summary is backed by a result.json of that task, at   *)
(* the summary's temperature and with the same points, where a campaign    *)
(* that reuses the pair will look for it (cli.py 974-987): also for scores *)
(* that were carried over from discovery in memory.                        *)
Backs(p, t, layout) ==
  file[<<"full", p, layout>>] = Whole(t, summary.scores[p])

SummaryBacked ==
  summary.kind = "whole" =>
    \E layout \in {summary.temp, Flat} :
      \A p \in ScoredTasks : Backs(p, summary.temp, layout)

(* The same when attempts use different configurations, for the summary    *)
(* that an attempt has just written: results of another temperature are    *)
(* refused, never mixed in.  Later attempts may replace such results.      *)
DoneBacked == pc = "done" => SummaryBacked

(* All results of a run were produced under one calibration, the one its   *)
(* calibration.json records: timeouts and concurrency are comparable.      *)
CalibrationKept == used \subseteq {calibration}

(* An attempt ends: no set of saved files makes it scan or wait for ever.  *)
AttemptEnds == pc \notin Stopped ~> pc \in Stopped

(* Claimed at README.md:467: "partial discovery continues from saved       *)
(* results ... and only missing scored tasks run again".  A resume with    *)
(* the original settings can load every result.json it finds.              *)
SavedResultsLoad == pc = "scan" => \A x \in Found : Loadable(x)
=============================================================================
