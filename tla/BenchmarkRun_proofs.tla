------------------------- MODULE BenchmarkRun_proofs -------------------------
(***************************************************************************)
(* Theorems about the files of a run directory, for any tasks,             *)
(* temperatures and configurations and any number of attempts.  Each       *)
(* theorem assumes of the configurations only what its proof needs:        *)
(* SameCalibration, EveryoneDiscovers, UniformDiscovery, SameLayout and    *)
(* NobodyInfers are defined where they are first used.                     *)
(***************************************************************************)
EXTENDS BenchmarkRun, Collections, TLAPS

(* Who may select: a first attempt finds nothing selected, and a discovery *)
(* only runs while nothing is, up to the write that ends it.               *)
SelectionOpen ==
  /\ pc = "new" => ~resuming
  /\ pc = "new" \/ (pc \in {"calibrate", "decide"} /\ ~resuming) => selected = 0
  /\ pc \in {"discovery_json", "persist"} => phase = "discovery"
  /\ pc \in {"scan", "work", "discovery_json", "persist"} /\ phase = "discovery"
       => selected = 0
  /\ pc \in Stopped => phase = "none"

LEMMA SelectionOpenStep ==
  ASSUME SelectionOpen, [Next]_vars PROVE SelectionOpen'
<1> USE DEF SelectionOpen, Stopped, disk, memory
<1>1. ASSUME NEW c \in Configs, Start(c) PROVE SelectionOpen'
  BY <1>1 DEF Start
<1>2. ASSUME NEW c \in Configs, NEW p \in ScoredTasks, Resume(c, p)
      PROVE  SelectionOpen'
  BY <1>2 DEF Resume
<1>3. CASE Calibrate
  BY <1>3 DEF Calibrate
<1>4. CASE SkipCalibration
  BY <1>4 DEF SkipCalibration, Exit, Blank
<1>5. CASE DecideDiscovery
  BY <1>5 DEF DecideDiscovery, IsDiscovery
<1>6. CASE DecideFull
  BY <1>6 DEF DecideFull, Exit, Blank
<1>7. CASE ScanFails \/ QueueFails \/ Kill \/ EndSummary
  BY <1>7 DEF ScanFails, QueueFails, Kill, EndSummary, Exit, Blank
<1>8. CASE Scan \/ PhaseDone \/ WriteDiscoveryJson
  BY <1>8 DEF Scan, PhaseDone, WriteDiscoveryJson
<1>9. ASSUME NEW x \in Work,
             BeginResult(x) \/ EndResult(x) \/ BeginCopy(x) \/ EndCopy(x)
      PROVE  SelectionOpen'
  BY <1>9 DEF BeginResult, EndResult, BeginCopy, EndCopy
<1>10. CASE PersistSelection \/ CopyDone \/ BeginSummary
  BY <1>10 DEF PersistSelection, CopyDone, BeginSummary
<1>11. CASE UNCHANGED vars
  BY <1>11 DEF vars
<1> QED
  BY <1>1, <1>2, <1>3, <1>4, <1>5, <1>6, <1>7, <1>8, <1>9, <1>10, <1>11
  DEF Next, Step

(* Only two steps write selected_temperature.json: the end of a discovery, *)
(* when there is none, and the start of a full phase, which writes back    *)
(* what it has read (cli.py 620, 640-647).                                 *)
LEMMA SelectionStep ==
  ASSUME SelectionOpen, [Next]_vars, selected # 0 PROVE selected' = selected
<1>1. ~PersistSelection
  BY DEF PersistSelection, SelectionOpen
<1>2. CASE DecideFull
  <2>1. CASE resuming /\ config.discover
    BY <1>2, <2>1 DEF DecideFull
  <2>2. CASE ~(resuming /\ config.discover)
    BY <1>2, <2>2 DEF DecideFull
  <2> QED
    BY <2>1, <2>2
<1>3. CASE ~DecideFull
  BY <1>1, <1>3 DEF Next, Step, Start, Resume, Calibrate, SkipCalibration,
     DecideDiscovery, ScanFails, Scan, BeginResult, EndResult, QueueFails,
     PhaseDone, WriteDiscoveryJson, BeginCopy, EndCopy, CopyDone, BeginSummary,
     EndSummary, Kill, vars, disk
<1> QED
  BY <1>2, <1>3

(* A persisted selection is never replaced or lost, however often the run  *)
(* is killed and resumed, and whatever each attempt's settings are (cli.py *)
(* 555-647, 1772-1792).                                                    *)
THEOREM SelectionNeverChanges == SafeSpec => SelectionFinal
<1>1. Init => SelectionOpen
  BY DEF Init, SelectionOpen, Stopped
<1>2. SelectionOpen /\ [Next]_vars => SelectionOpen'
  BY SelectionOpenStep
<1>3. SelectionOpen /\ [Next]_vars
      => [selected # 0 => selected' = selected]_selected
  BY SelectionStep
<1> QED
  BY <1>1, <1>2, <1>3, PTL DEF SafeSpec, SelectionFinal

-----------------------------------------------------------------------------
(* No attempt switches the speed calibration on or off.                    *)
SameCalibration == \A c, d \in Configs : c.calibrate = d.calibrate

(* What an attempt works with is what is on disk; as long as nothing has   *)
(* been measured no result of a calibrated run exists.                     *)
Measured ==
  /\ CalibrationKept
  /\ pc \notin Stopped => config \in Configs
  /\ pc \in Stopped \cup {"calibrate"} => measured = 0
  /\ pc \notin Stopped \cup {"calibrate"} =>
       measured = calibration /\ (config.calibrate => calibration # 0)
  /\ pc = "new" => ~resuming
  /\ pc = "new" \/ (pc = "calibrate" /\ ~resuming) => calibration = 0 /\ used = {}
  /\ (\E c \in Configs : c.calibrate) /\ calibration = 0 => used = {}

LEMMA MeasuredStep ==
  ASSUME SameCalibration, Measured, [Next]_vars PROVE Measured'
<1> USE DEF Measured, CalibrationKept, Stopped, disk, memory
<1>1. ASSUME NEW c \in Configs, Start(c) PROVE Measured'
  BY <1>1 DEF Start
<1>2. ASSUME NEW c \in Configs, NEW p \in ScoredTasks, Resume(c, p)
      PROVE  Measured'
  BY <1>2 DEF Resume
<1>3. CASE Calibrate
  <2>1. config \in Configs /\ config.calibrate /\ config' = config /\ used' = used
        /\ pc' = "decide" /\ measured' = calibration'
    BY <1>3 DEF Calibrate
  <2>2. CASE resuming /\ calibration # 0
    BY <1>3, <2>1, <2>2 DEF Calibrate
  <2>3. CASE ~(resuming /\ calibration # 0)
    <3>1. used = {} /\ calibration' # 0
      BY <1>3, <2>1, <2>3, RunAssumption DEF Calibrate
    <3> QED
      BY <2>1, <3>1
  <2> QED
    BY <2>2, <2>3
<1>4. CASE SkipCalibration
  <2>1. pc = "calibrate" /\ ~config.calibrate /\ UNCHANGED <<calibration, used>>
    BY <1>4 DEF SkipCalibration
  <2>2. CASE resuming /\ calibration # 0
    BY <1>4, <2>1, <2>2 DEF SkipCalibration, Exit, Blank
  <2>3. CASE ~(resuming /\ calibration # 0)
    <3>1. pc' = "decide" /\ config' = config /\ measured' = measured
      BY <1>4, <2>3 DEF SkipCalibration
    <3> QED
      BY <2>1, <2>3, <3>1
  <2> QED
    BY <2>2, <2>3
<1>5. CASE DecideDiscovery
  BY <1>5 DEF DecideDiscovery
<1>6. CASE DecideFull
  <2>1. /\ pc = "decide" /\ UNCHANGED <<calibration, used>>
        /\ \/ Exit("failed")
           \/ pc' = "scan" /\ UNCHANGED <<config, measured>>
    BY <1>6 DEF DecideFull
  <2> QED
    BY <2>1 DEF Exit, Blank
<1>7. CASE ScanFails \/ QueueFails \/ Kill \/ EndSummary
  BY <1>7 DEF ScanFails, QueueFails, Kill, EndSummary, Exit, Blank
<1>8. CASE Scan \/ PhaseDone \/ WriteDiscoveryJson
  BY <1>8 DEF Scan, PhaseDone, WriteDiscoveryJson
<1>9. ASSUME NEW x \in Work, BeginResult(x) \/ BeginCopy(x) \/ EndCopy(x)
      PROVE  Measured'
  BY <1>9 DEF BeginResult, BeginCopy, EndCopy
<1>10. ASSUME NEW x \in Work, EndResult(x) PROVE Measured'
  <2>1. /\ pc = "work" /\ pc' = "work" /\ used' = used \cup {measured}
        /\ UNCHANGED <<config, measured, calibration>>
    BY <1>10 DEF EndResult
  <2>2. (\E c \in Configs : c.calibrate) => calibration # 0
    BY <2>1 DEF SameCalibration
  <2> QED
    BY <2>1, <2>2
<1>11. CASE PersistSelection \/ CopyDone \/ BeginSummary
  BY <1>11 DEF PersistSelection, CopyDone, BeginSummary
<1>12. CASE UNCHANGED vars
  BY <1>12 DEF vars
<1> QED
  BY <1>1, <1>2, <1>3, <1>4, <1>5, <1>6, <1>7, <1>8, <1>9, <1>10, <1>11, <1>12
  DEF Next, Step

(* All results of a run were produced under the calibration on disk, if no *)
(* attempt switches calibration on or off; temperatures, discovery and the *)
(* task resumed from may change (cli.py 539-551).                          *)
THEOREM OneCalibration ==
  ASSUME SameCalibration PROVE SafeSpec => []CalibrationKept
<1>1. Init => Measured
  BY DEF Init, Measured, CalibrationKept, Stopped
<1>2. Measured /\ [Next]_vars => Measured'
  BY MeasuredStep
<1>3. Measured => CalibrationKept
  BY DEF Measured
<1> QED
  BY <1>1, <1>2, <1>3, PTL DEF SafeSpec

-----------------------------------------------------------------------------
(* An attempt with configuration c discovers if nothing is selected yet.   *)
Discovers(c) == c.discover /\ (Cardinality(ProbedBy(c)) > 1 \/ c.probe # {})

(* What the winner rule returns is one of the candidates and beats every   *)
(* other one, as long as every candidate has its points.                   *)
LEMMA BestWins ==
  ASSUME NEW ps, IsFiniteSet(ps), NEW ts \in SUBSET Temperatures, ts # {},
         NEW sc, \A x \in ps \X ts : sc[x] \in Nat
  PROVE  /\ Best(sc, ps, ts) \in ts
         /\ \A u \in ts :
              LET t == Best(sc, ps, ts)
              IN /\ Earned(sc, ps, u) \in Nat
                 /\ \/ Earned(sc, ps, t) > Earned(sc, ps, u)
                    \/ Earned(sc, ps, t) = Earned(sc, ps, u) /\ t <= u
<1> DEFINE e == [t \in ts |-> Earned(sc, ps, t)]
           o == [t \in ts |-> t]
           Wins(t) == \A u \in ts :
             \/ Earned(sc, ps, t) > Earned(sc, ps, u)
             \/ Earned(sc, ps, t) = Earned(sc, ps, u) /\ t <= u
<1>1. ASSUME NEW t \in ts PROVE Earned(sc, ps, t) \in Nat
  <2> DEFINE f == [p \in ps |-> sc[<<p, t>>]]
  <2>1. f \in [ps -> Nat]
    OBVIOUS
  <2>2. SumFunction(f) \in Nat
    <3> HIDE DEF f
    <3> QED
      BY <2>1, SumNat
  <2> QED
    BY <2>2 DEF Earned
<1>2. IsFiniteSet(ts) /\ e \in [ts -> Nat] /\ o \in [ts -> Nat]
  BY <1>1, FS_Subset, RunAssumption
<1>3. \E t \in ts : \A u \in ts : e[t] > e[u] \/ (e[t] = e[u] /\ o[t] <= o[u])
  <2> HIDE DEF e, o
  <2> QED
    BY <1>2, BestExists
<1>4. \E t \in ts : Wins(t)
  BY <1>3
<1>5. Best(sc, ps, ts) = CHOOSE t \in ts : Wins(t)
  BY DEF Best
<1>6. Best(sc, ps, ts) \in ts /\ Wins(Best(sc, ps, ts))
  <2> HIDE DEF Wins
  <2> QED
    BY <1>4, <1>5
<1> QED
  BY <1>1, <1>6

LEMMA Probed ==
  ASSUME NEW c \in Configs
  PROVE  /\ ProbedBy(c) \in SUBSET Temperatures /\ ProbedBy(c) # {}
         /\ c.temps \in SUBSET Temperatures /\ c.temps # {}
  BY RunAssumption DEF ProbedBy

LEMMA Tasks ==
  /\ IsFiniteSet(DiscoveryTasks) /\ DiscoveryTasks # {} /\ DiscoveryTasks \subseteq Task
  /\ IsFiniteSet(PhaseTasks) /\ PhaseTasks \subseteq Task
  /\ ScoredTasks \subseteq Task
  BY RunAssumption DEF DiscoveryTasks, PhaseTasks, Task

BetweenPhases == {"discovery_json", "persist", "copy"}
InPhase == {"scan", "work", "summary"} \cup BetweenPhases

(* The memory of an attempt at each place: which phase it is in and at     *)
(* which temperatures, what is queued, and that a pair that is no longer   *)
(* queued has its points.                                                  *)
Shape ==
  /\ pc = "new" => ~resuming
  /\ pc \notin InPhase => phase = "none" /\ writing = {} /\ reused = NoReuse
  /\ pc \in InPhase => phase \in {"discovery", "full"} /\ temps # {}
  /\ phase = "discovery" => temps = ProbedBy(config) /\ Discovers(config)
  /\ pc \in BetweenPhases => phase = "discovery"
  /\ pc = "summary" => phase = "full"
  /\ phase = "discovery" /\ pc # "copy" => reused = NoReuse
  /\ pc \in {"scan", "discovery_json", "persist"} => writing = {}
  /\ pc \in {"work", "copy"} =>
       writing \subseteq queued /\ \A x, y \in writing : x = y
  /\ pc = "work" =>
       queued \subseteq PhaseWork /\ \A x \in PhaseWork \ queued : scores[x] \in Scores
  /\ pc \in BetweenPhases \cup {"summary"} => \A x \in PhaseWork : scores[x] \in Scores
  /\ pc = "copy" => queued \subseteq DiscoveryTasks \X {Winner}

(* When a phase is over its winner is one of its temperatures.             *)
LEMMA WinnerWins ==
  ASSUME TypeOK, Shape, pc \in BetweenPhases \cup {"summary"}
  PROVE  /\ Winner \in temps /\ Winner \in Temperatures /\ Winner # 0
         /\ \A u \in temps :
              LET points(t) == Earned(scores, PhaseTasks, t)
              IN /\ points(u) <= points(Winner)
                 /\ points(u) = points(Winner) => Winner <= u
<1>1. temps \in SUBSET Temperatures /\ temps # {} /\ IsFiniteSet(PhaseTasks)
  BY Tasks DEF TypeOK, Shape, InPhase
<1>2. \A x \in PhaseTasks \X temps : scores[x] \in Nat
  BY RunAssumption DEF Shape, PhaseWork
<1>3. /\ Winner \in temps
      /\ \A u \in temps :
           /\ Earned(scores, PhaseTasks, u) \in Nat
           /\ \/ Earned(scores, PhaseTasks, Winner) > Earned(scores, PhaseTasks, u)
              \/ /\ Earned(scores, PhaseTasks, Winner) = Earned(scores, PhaseTasks, u)
                 /\ Winner <= u
  BY <1>1, <1>2, BestWins DEF Winner
<1>4. Winner \in Temperatures /\ Winner # 0
  BY <1>1, <1>3, RunAssumption
<1> QED
  BY <1>3, <1>4

(* The rule of discovery.json and the rule of the selection agree.         *)
LEMMA ReportedIsWinner ==
  ASSUME TypeOK, Shape, pc \in BetweenPhases
  PROVE  Reported(scores, PhaseTasks, temps) = Winner
<1> DEFINE e(t) == Earned(scores, PhaseTasks, t)
           Last(t) == ~\E u \in temps : Replaces(scores, PhaseTasks, u, t)
           r == Reported(scores, PhaseTasks, temps)
<1>1. temps \in SUBSET Temperatures /\ temps # {} /\ IsFiniteSet(PhaseTasks)
  BY Tasks DEF TypeOK, Shape, InPhase
<1>2. \A x \in PhaseTasks \X temps : scores[x] \in Nat
  BY RunAssumption DEF Shape, PhaseWork
<1>3. /\ Winner \in temps
      /\ \A u \in temps :
           /\ e(u) \in Nat
           /\ e(Winner) > e(u) \/ (e(Winner) = e(u) /\ Winner <= u)
  BY <1>1, <1>2, BestWins DEF Winner
<1>4. temps \subseteq Nat
  BY <1>1, RunAssumption
<1>5. Last(Winner)
  <2> SUFFICES ASSUME NEW u \in temps, Replaces(scores, PhaseTasks, u, Winner)
               PROVE  FALSE
    OBVIOUS
  <2>1. e(u) > e(Winner) \/ (e(u) = e(Winner) /\ u < Winner)
    BY DEF Replaces
  <2>2. e(u) \in Nat /\ e(Winner) \in Nat /\ u \in Nat /\ Winner \in Nat
    BY <1>3, <1>4
  <2>3. e(Winner) > e(u) \/ (e(Winner) = e(u) /\ Winner <= u)
    BY <1>3
  <2> HIDE DEF e
  <2> QED
    BY <2>1, <2>2, <2>3
<1>6. r = CHOOSE t \in temps : Last(t)
  BY DEF Reported
<1>7. r \in temps /\ Last(r)
  <2> HIDE DEF Last, r
  <2> QED
    BY <1>3, <1>5, <1>6
<1>8. ~(e(Winner) > e(r)) /\ ~(e(Winner) = e(r) /\ Winner < r)
  BY <1>3, <1>7 DEF Replaces
<1>9. /\ e(r) \in Nat /\ e(Winner) \in Nat /\ r \in Nat /\ Winner \in Nat
      /\ e(Winner) > e(r) \/ (e(Winner) = e(r) /\ Winner <= r)
  BY <1>3, <1>4, <1>7
<1> HIDE DEF e, r
<1>10. r = Winner
  BY <1>8, <1>9
<1> QED
  BY <1>10 DEF r

(* A result that scores has a temperature and a place of its own.          *)
LEMMA WorkHasPath ==
  ASSUME TypeOK, Shape, pc \in InPhase, NEW x \in PhaseWork
  PROVE  /\ x \in Work /\ x[1] \in Task /\ x[2] \in Temperatures /\ x[2] \in temps
         /\ PathOf(phase, temps, x) \in Path
         /\ x = <<x[1], x[2]>>
  BY Tasks DEF TypeOK, Shape, PhaseWork, PathOf, Path, Work, Flat

(* Two results of a phase never share a path: the flat layout is used for  *)
(* one temperature only (_temperature_task_root, cli.py 1761-1769).        *)
LEMMA PathsDiffer ==
  ASSUME TypeOK, NEW x \in PhaseWork, NEW y \in PhaseWork,
         PathOf(phase, temps, x) = PathOf(phase, temps, y)
  PROVE  x = y
<1>1. x[1] = y[1]
  BY DEF PathOf
<1>2. ASSUME x[2] # y[2] PROVE Cardinality(temps) > 1
  <2>1. IsFiniteSet(temps)
    BY FS_Subset, RunAssumption DEF TypeOK
  <2>2. Cardinality({x[2]}) = 1 /\ IsFiniteSet({x[2]})
    BY FS_Singleton
  <2>3. /\ Cardinality({x[2]} \cup {y[2]}) = Cardinality({x[2]}) + 1
        /\ IsFiniteSet({x[2]} \cup {y[2]})
    <3>1. y[2] \notin {x[2]}
      BY <1>2
    <3> QED
      BY <2>2, <3>1, FS_AddElement
  <2>4. {x[2]} \cup {y[2]} \subseteq temps
    BY DEF PhaseWork
  <2>5. Cardinality({x[2]} \cup {y[2]}) <= Cardinality(temps) /\ Cardinality(temps) \in Nat
    BY <2>1, <2>4, FS_Subset, FS_CardinalityType
  <2> QED
    BY <2>2, <2>3, <2>5
<1>3. x[2] = y[2]
  BY <1>2 DEF PathOf
<1> QED
  BY <1>1, <1>3 DEF PhaseWork

(* What a later attempt infers from saved discovery results is one of the  *)
(* temperatures it names.                                                  *)
LEMMA Inferred ==
  ASSUME TypeOK PROVE InferredTemperature \in Temperatures \cup {0}
<1> DEFINE sc == [x \in Work |-> SavedProbe(x[1], x[2]).earned]
           ts == ProbedBy(config)
<1>1. ts \in SUBSET Temperatures /\ ts # {}
  BY Probed DEF TypeOK
<1>2. CASE \A p \in DiscoveryTasks, t \in ts : SavedProbe(p, t).kind = "whole"
  <2>1. ASSUME NEW x \in DiscoveryTasks \X ts PROVE sc[x] \in Nat
    <3>1. /\ x \in Work /\ <<"discovery", x[1], x[2]>> \in Path
          /\ SavedProbe(x[1], x[2]).kind = "whole"
      BY <1>1, <1>2, Tasks DEF Work, Path
    <3>2. SavedProbe(x[1], x[2]) \in Content
      BY <3>1 DEF TypeOK, SavedProbe
    <3> QED
      BY <3>1, <3>2, RunAssumption DEF Content, Absent, Partial, Whole
  <2>2. Best(sc, DiscoveryTasks, ts) \in ts
    <3> HIDE DEF sc, ts
    <3> QED
      BY <1>1, <2>1, Tasks, BestWins
  <2> QED
    BY <1>1, <1>2, <2>2 DEF InferredTemperature
<1>3. CASE ~ \A p \in DiscoveryTasks, t \in ts : SavedProbe(p, t).kind = "whole"
  BY <1>3 DEF InferredTemperature
<1> QED
  BY <1>2, <1>3

(* What an attempt leaves behind in memory is nothing.                     *)
LEMMA ExitShape ==
  ASSUME TypeOK, NEW how \in Stopped \ {"new"}, Exit(how),
         file' \in [Path -> Content], selected' \in Temperatures \cup {0},
         summary'.kind \in {"absent", "partial", "whole"},
         UNCHANGED <<discoveryJson, calibration, used, attempts, evolution>>
  PROVE  TypeOK' /\ Shape'
<1>1. config' \in Configs
  BY RunAssumption DEF Exit, Blank
<1>2. reused' \in [Task -> Scores \cup {None}] /\ scores' \in [Work -> Scores \cup {None}]
  BY DEF Exit, Blank, NoReuse, NoScores
<1> QED
  BY <1>1, <1>2 DEF TypeOK, Shape, Exit, Blank, Stopped, InPhase, BetweenPhases

(* The scan of a phase takes over what is saved and queues the rest.       *)
LEMMA ScanShape ==
  ASSUME TypeOK, Shape, Scan PROVE TypeOK' /\ Shape'
<1>1. /\ pc = "scan" /\ pc' = "work" /\ queued' = Missing
      /\ UNCHANGED <<file, discoveryJson, selected, calibration, summary, config,
                     resuming, from, phase, temps, measured, reused, writing,
                     used, attempts, evolution>>
      /\ \A x \in Found : Loadable(x)
      /\ scores' = [x \in Work |->
           IF x \in ReusedWork THEN reused[x[1]]
           ELSE IF x \in Found THEN file[PathOf(phase, temps, x)].earned
           ELSE None]
  BY DEF Scan, disk
<1>2. pc \in InPhase
  BY <1>1 DEF InPhase
<1>3. PhaseWork' = PhaseWork
  BY <1>1 DEF PhaseWork, PhaseTasks, DiscoveryTasks
<1>4. ASSUME NEW x \in ReusedWork PROVE reused[x[1]] \in Scores
  <2>1. x[1] \in Task
    BY <1>2, WorkHasPath DEF ReusedWork
  <2> QED
    BY <2>1 DEF ReusedWork, TypeOK
<1>5. ASSUME NEW x \in Found PROVE file[PathOf(phase, temps, x)].earned \in Scores
  <2>1. PathOf(phase, temps, x) \in Path
    BY <1>2, WorkHasPath DEF Found
  <2>2. file[PathOf(phase, temps, x)] \in Content
    BY <2>1 DEF TypeOK
  <2>3. file[PathOf(phase, temps, x)].kind = "whole"
    BY <1>1 DEF Loadable
  <2> QED
    BY <2>2, <2>3 DEF Content, Absent, Partial, Whole
<1>6. scores' \in [Work -> Scores \cup {None}]
  BY <1>1, <1>4, <1>5
<1>7. ASSUME NEW x \in PhaseWork' \ queued' PROVE scores'[x] \in Scores
  <2>1. x \in Work /\ (x \in ReusedWork \/ x \in Found)
    BY <1>1, <1>2, <1>3, <1>7, WorkHasPath DEF Missing
  <2> QED
    BY <1>1, <1>4, <1>5, <2>1
<1>8. queued' \subseteq PhaseWork' /\ queued' \subseteq Work
  BY <1>1, <1>2, <1>3, WorkHasPath DEF Missing
<1>9. TypeOK'
  BY <1>1, <1>6, <1>8 DEF TypeOK
<1> QED
  BY <1>1, <1>7, <1>8, <1>9 DEF Shape, InPhase, BetweenPhases

LEMMA WriteShape ==
  ASSUME TypeOK, Shape, NEW x \in Work, BeginResult(x) \/ EndResult(x)
  PROVE  TypeOK' /\ Shape'
<1>1. /\ pc = "work" /\ x \in queued /\ pc' = pc
      /\ UNCHANGED <<discoveryJson, selected, calibration, summary, config,
                     resuming, from, phase, temps, measured, reused, attempts,
                     evolution>>
  BY DEF BeginResult, EndResult, Shape
<1>2. PhaseWork' = PhaseWork
  BY <1>1 DEF PhaseWork, PhaseTasks, DiscoveryTasks
<1>3. x \in PhaseWork /\ PathOf(phase, temps, x) \in Path /\ x[2] \in Temperatures
  BY <1>1, WorkHasPath DEF Shape, InPhase
<1>4. CASE BeginResult(x)
  <2>1. /\ file' = [file EXCEPT ![PathOf(phase, temps, x)] = Partial]
        /\ writing' = {x} /\ UNCHANGED <<queued, scores, used>>
    BY <1>4 DEF BeginResult
  <2>2. file' \in [Path -> Content]
    BY <1>3, <2>1 DEF TypeOK, Content
  <2>3. TypeOK'
    BY <1>1, <2>1, <2>2 DEF TypeOK
  <2> QED
    BY <1>1, <1>2, <2>1, <2>3 DEF Shape, InPhase, BetweenPhases
<1>5. CASE EndResult(x)
  <2>1. PICK e \in Scores :
          /\ file' = [file EXCEPT ![PathOf(phase, temps, x)] = Whole(x[2], e)]
          /\ scores' = [scores EXCEPT ![x] = e]
    BY <1>5 DEF EndResult
  <2>2. writing' = {} /\ queued' = queued \ {x} /\ used' = used \cup {measured}
    BY <1>5 DEF EndResult
  <2>3. file' \in [Path -> Content]
    BY <1>3, <2>1 DEF TypeOK, Content
  <2>4. scores' \in [Work -> Scores \cup {None}]
    BY <2>1 DEF TypeOK
  <2>5. TypeOK'
    BY <1>1, <2>2, <2>3, <2>4 DEF TypeOK
  <2>6. \A y \in PhaseWork \ queued' : scores'[y] \in Scores
    <3>1. PhaseWork \subseteq Work
      BY <1>1, WorkHasPath DEF InPhase
    <3> QED
      BY <1>1, <2>1, <2>2, <3>1 DEF Shape, TypeOK
  <2> QED
    BY <1>1, <1>2, <2>2, <2>5, <2>6 DEF Shape, InPhase, BetweenPhases
<1> QED
  BY <1>4, <1>5

(* Between the phases, and in the copies of the results that are reused.   *)
LEMMA BetweenShape ==
  ASSUME TypeOK, Shape,
         \/ WriteDiscoveryJson \/ PersistSelection \/ CopyDone
         \/ \E x \in Work : BeginCopy(x) \/ EndCopy(x)
  PROVE  TypeOK' /\ Shape'
<1>1. /\ pc \in BetweenPhases /\ pc \in InPhase
      /\ UNCHANGED <<calibration, summary, config, resuming, from, measured,
                     used, attempts, evolution>>
  BY DEF WriteDiscoveryJson, PersistSelection, CopyDone, BeginCopy, EndCopy,
     BetweenPhases, InPhase, disk, memory
<1>2. Winner \in temps /\ Winner \in Temperatures
  BY <1>1, WinnerWins
<1>3. /\ UNCHANGED <<phase, temps, scores>> => PhaseWork' = PhaseWork /\ Winner' = Winner
      /\ phase = "discovery" /\ PhaseTasks = DiscoveryTasks /\ DiscoveryTasks' = DiscoveryTasks
  BY <1>1 DEF PhaseWork, Winner, PhaseTasks, DiscoveryTasks, Shape
<1>4. CASE WriteDiscoveryJson
  <2>1. /\ discoveryJson' = Winner /\ pc = "discovery_json" /\ pc' = "persist"
        /\ UNCHANGED <<file, selected, phase, temps, scores, reused, queued, writing>>
    BY <1>4, ReportedIsWinner DEF WriteDiscoveryJson, memory, BetweenPhases
  <2>2. TypeOK'
    BY <1>1, <1>2, <2>1 DEF TypeOK
  <2> QED
    BY <1>1, <1>3, <2>1, <2>2 DEF Shape, InPhase, BetweenPhases
<1>5. CASE PersistSelection
  <2>1. /\ selected' = Winner /\ pc = "persist" /\ pc' = "copy"
        /\ reused' = [p \in Task |->
             IF ~evolution /\ p \in DiscoveryTasks \cap ScoredTasks
             THEN scores[<<p, Winner>>] ELSE None]
        /\ queued' = IF evolution THEN {} ELSE DiscoveryTasks \X {Winner}
        /\ UNCHANGED <<file, discoveryJson, phase, temps, scores, writing>>
    BY <1>5 DEF PersistSelection
  <2>2. reused' \in [Task -> Scores \cup {None}]
    <3>1. ASSUME NEW p \in Task, p \in DiscoveryTasks
          PROVE  scores[<<p, Winner>>] \in Scores \cup {None}
      <4>1. <<p, Winner>> \in Work
        BY <1>2 DEF Work
      <4> QED
        BY <4>1 DEF TypeOK
    <3> QED
      BY <2>1, <3>1
  <2>3. queued' \subseteq Work
    BY <1>2, <2>1, Tasks DEF Work
  <2>4. TypeOK'
    BY <1>1, <1>2, <2>1, <2>2, <2>3 DEF TypeOK
  <2>5. writing = {}
    BY <2>1 DEF Shape
  <2> QED
    BY <1>1, <1>3, <2>1, <2>4, <2>5 DEF Shape, InPhase, BetweenPhases
<1>6. ASSUME NEW x \in Work, BeginCopy(x) \/ EndCopy(x)
      PROVE  TypeOK' /\ Shape'
  <2>1. /\ pc = "copy" /\ pc' = "copy" /\ x \in queued
        /\ UNCHANGED <<discoveryJson, selected, phase, temps, scores, reused>>
        /\ x[1] \in Task /\ x[2] \in Temperatures
    BY <1>6 DEF BeginCopy, EndCopy, Shape, Work
  <2>2. <<"full", x[1], Flat>> \in Path
    BY <2>1 DEF Path
  <2>3. CASE BeginCopy(x)
    <3>1. /\ file' = [file EXCEPT ![<<"full", x[1], Flat>>] = Partial]
          /\ writing' = {x} /\ queued' = queued
      BY <2>3 DEF BeginCopy
    <3>2. file' \in [Path -> Content]
      BY <2>2, <3>1 DEF TypeOK, Content
    <3>3. TypeOK'
      BY <1>1, <2>1, <3>1, <3>2 DEF TypeOK
    <3> QED
      BY <1>1, <1>3, <2>1, <3>1, <3>3 DEF Shape, InPhase, BetweenPhases
  <2>4. CASE EndCopy(x)
    <3>1. PICK r \in Content : file' = [file EXCEPT ![<<"full", x[1], Flat>>] = r]
      <4>1. /\ <<"discovery", x[1], x[2]>> \in Path
            /\ <<"discovery", x[1], Flat>> \in Path
        BY <2>1 DEF Path
      <4> QED
        BY <2>4, <4>1 DEF EndCopy, TypeOK
    <3>2. writing' = {} /\ queued' = queued \ {x}
      BY <2>4 DEF EndCopy
    <3>3. file' \in [Path -> Content]
      BY <2>2, <3>1 DEF TypeOK
    <3>4. TypeOK'
      BY <1>1, <2>1, <3>2, <3>3 DEF TypeOK
    <3> QED
      BY <1>1, <1>3, <2>1, <3>2, <3>4 DEF Shape, InPhase, BetweenPhases
  <2> QED
    BY <1>6, <2>3, <2>4
<1>7. CASE CopyDone
  <2>1. /\ pc = "copy" /\ pc' = "scan" /\ phase' = "full" /\ temps' = {Winner}
        /\ scores' = NoScores /\ queued = {}
        /\ UNCHANGED <<file, discoveryJson, selected, reused, queued, writing>>
    BY <1>7 DEF CopyDone, disk
  <2>2. scores' \in [Work -> Scores \cup {None}]
    BY <2>1 DEF NoScores
  <2>3. TypeOK'
    BY <1>1, <1>2, <2>1, <2>2 DEF TypeOK
  <2> QED
    BY <1>1, <2>1, <2>3 DEF Shape, InPhase, BetweenPhases
<1> QED
  BY <1>4, <1>5, <1>6, <1>7

LEMMA ShapeStep ==
  ASSUME TypeOK, Shape, [Next]_vars PROVE TypeOK' /\ Shape'
<1>1. ASSUME NEW c \in Configs,
             Start(c) \/ \E p \in ScoredTasks : Resume(c, p)
      PROVE  TypeOK' /\ Shape'
  <2>1. /\ pc \in Stopped /\ pc' = "calibrate" /\ config' = c
        /\ UNCHANGED <<disk, phase, temps, measured, scores, reused, queued,
                       writing, used, evolution>>
        /\ attempts < MaxAttempts /\ attempts' = attempts + 1
        /\ resuming' \in BOOLEAN /\ from' \in ScoredTasks \cup {0}
    BY <1>1 DEF Start, Resume, TypeOK, Stopped
  <2>2. attempts' \in 0..MaxAttempts
    BY <2>1, RunAssumption DEF TypeOK
  <2>3. TypeOK'
    BY <2>1, <2>2 DEF TypeOK, disk
  <2> QED
    BY <2>1, <2>3 DEF Shape, Stopped, InPhase, BetweenPhases
<1>2. CASE Calibrate
  <2>1. /\ pc = "calibrate" /\ pc' = "decide"
        /\ measured' \in Calibrations /\ calibration' \in Calibrations
        /\ UNCHANGED <<file, discoveryJson, selected, summary, config, resuming,
                       from, phase, temps, scores, reused, queued, writing, used,
                       attempts, evolution>>
    BY <1>2 DEF Calibrate, TypeOK
  <2>2. TypeOK'
    BY <2>1 DEF TypeOK
  <2> QED
    BY <2>1, <2>2 DEF Shape, InPhase, BetweenPhases
<1>3. CASE SkipCalibration
  <2>1. /\ pc = "calibrate" /\ UNCHANGED <<disk, used, attempts, evolution>>
        /\ Exit("failed") \/ (pc' = "decide" /\ UNCHANGED memory)
    BY <1>3 DEF SkipCalibration
  <2>2. CASE Exit("failed")
    BY <2>1, <2>2, ExitShape DEF TypeOK, Stopped, disk
  <2>3. CASE pc' = "decide" /\ UNCHANGED memory
    <3>1. TypeOK'
      BY <2>1, <2>3 DEF TypeOK, disk, memory
    <3> QED
      BY <2>1, <2>3, <3>1 DEF Shape, InPhase, BetweenPhases, disk, memory
  <2> QED
    BY <2>1, <2>2, <2>3
<1>4. CASE DecideDiscovery
  <2>1. /\ pc = "decide" /\ pc' = "scan" /\ phase' = "discovery"
        /\ temps' = ProbedBy(config) /\ Discovers(config)
        /\ UNCHANGED <<disk, config, resuming, from, measured, scores, reused,
                       queued, writing, used, attempts, evolution>>
    BY <1>4 DEF DecideDiscovery, IsDiscovery, Discovers
  <2>2. temps' \subseteq Temperatures /\ temps' # {}
    BY <2>1, Probed DEF TypeOK
  <2>3. TypeOK'
    BY <2>1, <2>2 DEF TypeOK, disk
  <2> QED
    BY <2>1, <2>2, <2>3 DEF Shape, InPhase, BetweenPhases
<1>5. CASE DecideFull
  <2>1. /\ pc = "decide" /\ selected' \in Temperatures \cup {0}
        /\ UNCHANGED <<file, discoveryJson, calibration, summary, used, attempts,
                       evolution>>
        /\ \/ Exit("failed")
           \/ /\ pc' = "scan" /\ phase' = "full"
              /\ temps' \subseteq Temperatures /\ temps' # {}
              /\ UNCHANGED <<config, resuming, from, measured, scores, reused,
                             queued, writing>>
    <3>1. config.temps \subseteq Temperatures /\ config.temps # {}
      BY Probed DEF TypeOK
    <3> HIDE DEF InferredTemperature
    <3> QED
      BY <1>5, <3>1, Inferred DEF DecideFull, TypeOK
  <2>2. CASE Exit("failed")
    BY <2>1, <2>2, ExitShape DEF TypeOK, Stopped
  <2>3. CASE ~Exit("failed")
    <3>1. TypeOK'
      BY <2>1, <2>3 DEF TypeOK
    <3> QED
      BY <2>1, <2>3, <3>1 DEF Shape, InPhase, BetweenPhases
  <2> QED
    BY <2>2, <2>3
<1>6. CASE ScanFails \/ QueueFails \/ Kill \/ EndSummary
  <2>1. /\ \E how \in Stopped \ {"new"} : Exit(how)
        /\ UNCHANGED <<file, discoveryJson, selected, calibration, used, attempts,
                       evolution>>
        /\ summary' = summary \/ summary'.kind = "whole"
    BY <1>6 DEF ScanFails, QueueFails, Kill, EndSummary, Stopped, disk
  <2> QED
    BY <2>1, ExitShape DEF TypeOK
<1>7. CASE Scan
  BY <1>7, ScanShape
<1>8. CASE \E x \in Work : BeginResult(x) \/ EndResult(x)
  BY <1>8, WriteShape
<1>9. CASE PhaseDone
  <2>1. /\ pc = "work" /\ queued = {}
        /\ pc' = IF phase = "discovery" THEN "discovery_json" ELSE "summary"
        /\ UNCHANGED <<disk, memory, used, attempts, evolution>>
    BY <1>9 DEF PhaseDone
  <2>2. PhaseWork' = PhaseWork
    BY <2>1 DEF PhaseWork, PhaseTasks, DiscoveryTasks, memory
  <2>3. TypeOK'
    BY <2>1 DEF TypeOK, disk, memory, Stopped
  <2> QED
    BY <2>1, <2>2, <2>3 DEF Shape, InPhase, BetweenPhases, memory
<1>10. CASE \/ WriteDiscoveryJson \/ PersistSelection \/ CopyDone
            \/ \E x \in Work : BeginCopy(x) \/ EndCopy(x)
  BY <1>10, BetweenShape
<1>11. CASE BeginSummary
  <2>1. /\ pc = "summary" /\ pc' = pc /\ summary'.kind = "partial"
        /\ writing' = PhaseWork
        /\ UNCHANGED <<file, discoveryJson, selected, calibration, config, resuming,
                       from, phase, temps, measured, scores, reused, queued, used,
                       attempts, evolution>>
    BY <1>11 DEF BeginSummary, NoSummary
  <2>2. PhaseWork' = PhaseWork /\ PhaseWork \subseteq Work
    BY <2>1, WorkHasPath DEF PhaseWork, PhaseTasks, DiscoveryTasks, InPhase
  <2>3. TypeOK'
    BY <2>1, <2>2 DEF TypeOK
  <2> QED
    BY <2>1, <2>2, <2>3 DEF Shape, InPhase, BetweenPhases
<1>12. CASE UNCHANGED vars
  <2>1. PhaseWork' = PhaseWork /\ DiscoveryTasks' = DiscoveryTasks /\ Winner' = Winner
    BY <1>12 DEF vars, memory, PhaseWork, Winner, PhaseTasks, DiscoveryTasks
  <2>2. TypeOK'
    BY <1>12 DEF TypeOK, vars, disk, memory
  <2> QED
    BY <1>12, <2>1, <2>2 DEF Shape, InPhase, BetweenPhases, vars, memory
<1> QED
  BY <1>1, <1>2, <1>3, <1>4, <1>5, <1>6, <1>7, <1>8, <1>9, <1>10, <1>11, <1>12
  DEF Next, Step

LEMMA InShape == SafeSpec => []TypeOK /\ []Shape
<1>1. ASSUME Init PROVE TypeOK /\ Shape
  <2>1. config \in Configs
    BY <1>1, RunAssumption DEF Init
  <2>2. file \in [Path -> Content]
    BY <1>1 DEF Init, Content
  <2>3. scores \in [Work -> Scores \cup {None}] /\ reused \in [Task -> Scores \cup {None}]
    BY <1>1 DEF Init, NoScores, NoReuse
  <2>4. attempts \in 0..MaxAttempts
    BY <1>1, RunAssumption DEF Init
  <2>5. TypeOK
    BY <1>1, <2>1, <2>2, <2>3, <2>4 DEF Init, TypeOK, NoSummary, Stopped
  <2> QED
    BY <1>1, <2>5 DEF Init, Shape, InPhase, BetweenPhases
<1>2. (TypeOK /\ Shape) /\ [Next]_vars => (TypeOK /\ Shape)'
  BY ShapeStep
<1> QED
  BY <1>1, <1>2, PTL DEF SafeSpec

(* Types of the files and of the memory, for every run: in particular that *)
(* a winner, also one that a later attempt infers, is one of the           *)
(* temperatures that were tried (cli.py 599-600, 1795-1854).               *)
THEOREM TypeCorrect == SafeSpec => []TypeOK
  BY InShape, PTL

-----------------------------------------------------------------------------
(* The only steps that write results: the queue's and the copy's.          *)
LEMMA FileStep ==
  ASSUME [Next]_vars,
         ~ \E x \in Work : BeginResult(x) \/ EndResult(x) \/ BeginCopy(x) \/ EndCopy(x)
  PROVE  file' = file
  BY DEF Next, Step, Start, Resume, Calibrate, SkipCalibration, DecideDiscovery,
     DecideFull, ScanFails, Scan, QueueFails, PhaseDone, WriteDiscoveryJson,
     PersistSelection, CopyDone, BeginSummary, EndSummary, Kill, vars, disk

(* What such a step writes, and that nothing else changes with it.         *)
LEMMA ResultStep ==
  ASSUME TypeOK, Shape, NEW x \in Work, BeginResult(x) \/ EndResult(x)
  PROVE  /\ pc = "work" /\ pc' = pc /\ x \in queued /\ x \in PhaseWork
         /\ PathOf(phase, temps, x) \in Path
         /\ \E r \in Content : file' = [file EXCEPT ![PathOf(phase, temps, x)] = r]
         /\ UNCHANGED <<discoveryJson, selected, summary, config, resuming, phase,
                        temps, reused, evolution>>
<1>1. pc = "work" /\ x \in queued /\ x \in PhaseWork
  BY DEF BeginResult, EndResult, Shape
<1>2. PathOf(phase, temps, x) \in Path /\ x[2] \in Temperatures
  BY <1>1, WorkHasPath DEF InPhase
<1>3. \E r \in Content : file' = [file EXCEPT ![PathOf(phase, temps, x)] = r]
  BY <1>2 DEF BeginResult, EndResult, Content
<1> QED
  BY <1>1, <1>2, <1>3 DEF BeginResult, EndResult

LEMMA CopyStep ==
  ASSUME TypeOK, Shape, NEW x \in Work, BeginCopy(x) \/ EndCopy(x)
  PROVE  /\ pc = "copy" /\ pc' = pc /\ x \in queued
         /\ x[1] \in DiscoveryTasks /\ x = <<x[1], Winner>>
         /\ <<"full", x[1], Flat>> \in Path
         /\ \E r : file' = [file EXCEPT ![<<"full", x[1], Flat>>] = r]
         /\ UNCHANGED <<discoveryJson, selected, summary, config, resuming, phase,
                        temps, scores, reused, evolution>>
<1>1. pc = "copy" /\ x \in queued /\ x \in DiscoveryTasks \X {Winner}
  BY DEF BeginCopy, EndCopy, Shape
<1>2. <<"full", x[1], Flat>> \in Path
  BY <1>1, Tasks DEF Path
<1> QED
  BY <1>1, <1>2 DEF BeginCopy, EndCopy

(* Every attempt asks for a discovery and names candidates for it.         *)
EveryoneDiscovers == \A c \in Configs : Discovers(c)

SelectedFirst ==
  /\ FullNeedsSelection
  /\ pc = "copy" \/ phase = "full" => selected # 0

LEMMA SelectedFirstStep ==
  ASSUME EveryoneDiscovers, TypeOK, Shape, SelectedFirst, [Next]_vars
  PROVE  SelectedFirst'
<1> USE DEF SelectedFirst, FullNeedsSelection
<1>1. ASSUME NEW x \in Work, BeginResult(x) \/ EndResult(x)
      PROVE  SelectedFirst'
  <2>1. PICK r : file' = [file EXCEPT ![PathOf(phase, temps, x)] = r]
    BY <1>1, ResultStep
  <2>2. /\ pc = "work" /\ pc' = pc /\ UNCHANGED <<selected, phase>>
        /\ phase \in {"discovery", "full"} /\ file \in [Path -> Content]
    BY <1>1, ResultStep DEF Shape, InPhase, TypeOK
  <2>3. CASE phase = "full"
    BY <2>2, <2>3
  <2>4. CASE phase = "discovery"
    <3>1. \A f \in Path : f[1] = "full" => f # PathOf(phase, temps, x)
      BY <2>4 DEF PathOf
    <3> QED
      BY <2>1, <2>2, <2>4, <3>1
  <2> QED
    BY <2>2, <2>3, <2>4
<1>2. ASSUME NEW x \in Work, BeginCopy(x) \/ EndCopy(x)
      PROVE  SelectedFirst'
  BY <1>2, CopyStep
<1>3. CASE DecideFull
  <2>1. resuming /\ selected # 0 /\ config.discover
    BY <1>3 DEF DecideFull, IsDiscovery, EveryoneDiscovers, Discovers, TypeOK
  <2>2. selected' = selected /\ file' = file
    BY <1>3, <2>1 DEF DecideFull
  <2> QED
    BY <2>1, <2>2
<1>4. CASE PersistSelection
  <2>1. Winner # 0
    BY <1>4, WinnerWins DEF PersistSelection, BetweenPhases
  <2> QED
    BY <1>4, <2>1 DEF PersistSelection
<1>5. CASE DecideDiscovery \/ CopyDone
  BY <1>5 DEF DecideDiscovery, CopyDone, disk
<1>6. CASE /\ ~DecideFull /\ ~PersistSelection /\ ~DecideDiscovery /\ ~CopyDone
           /\ ~ \E x \in Work :
                  BeginResult(x) \/ EndResult(x) \/ BeginCopy(x) \/ EndCopy(x)
  <2>1. UNCHANGED <<file, selected>> /\ (pc' = "copy" => pc = "copy")
        /\ (phase' = "full" => phase = "full")
    BY <1>6 DEF Next, Step, Start, Resume, Calibrate, SkipCalibration, ScanFails,
       Scan, QueueFails, PhaseDone, WriteDiscoveryJson, BeginSummary, EndSummary,
       Kill, Exit, Blank, vars, disk, memory
  <2> QED
    BY <2>1
<1> QED
  BY <1>1, <1>2, <1>3, <1>4, <1>5, <1>6

(* If every attempt asks for a discovery, nothing of the full phase is on  *)
(* disk before the selection is, whatever temperatures the attempts name:  *)
(* the full phase follows the write of the selection or finds it (cli.py   *)
(* 555-564, 620, 640-647).                                                 *)
THEOREM SelectionPrecedes ==
  ASSUME EveryoneDiscovers PROVE SafeSpec => []FullNeedsSelection
<1>1. Init => SelectedFirst
  BY DEF Init, SelectedFirst, FullNeedsSelection, Absent
<1>2. TypeOK /\ Shape /\ SelectedFirst /\ [Next]_vars => SelectedFirst'
  BY SelectedFirstStep
<1>3. SelectedFirst => FullNeedsSelection
  BY DEF SelectedFirst
<1> QED
  BY <1>1, <1>2, <1>3, InShape, PTL DEF SafeSpec

-----------------------------------------------------------------------------
(* Either every attempt may discover or none does.                         *)
UniformDiscovery == \A c, d \in Configs : Discovers(c) = Discovers(d)

NoFile(ph, p) == \A t \in Temperatures \cup {Flat} : file[<<ph, p, t>>].kind = "absent"

(* A first attempt starts in an empty directory, and what is about to be   *)
(* written has no result.json yet, or the one being written.               *)
QueueFresh ==
  /\ pc \in {"new", "calibrate", "decide"} /\ ~resuming =>
       \A p \in Task : NoFile("discovery", p) /\ NoFile("full", p)
  /\ pc = "scan" /\ ~resuming =>
       \A p \in PhaseTasks : reused[p] = None => NoFile(phase, p)
  /\ pc = "copy" /\ ~resuming =>
       \A p \in ScoredTasks : reused[p] = None => NoFile("full", p)
  /\ pc = "work" => \A x \in queued :
       file[PathOf(phase, temps, x)].kind = IF x \in writing THEN "partial" ELSE "absent"
  /\ pc = "copy" => \A x \in queued :
       /\ file[<<"full", x[1], Flat>>].kind = IF x \in writing THEN "partial" ELSE "absent"
       /\ x[1] \in ScoredTasks => reused[x[1]] # None

(* A scan queues exactly what has no file (cli.py 1083-1125).              *)
LEMMA ScanFresh ==
  ASSUME TypeOK, Shape, QueueFresh, Scan PROVE QueueFresh'
<1>1. /\ pc = "scan" /\ pc' = "work" /\ queued' = Missing /\ writing = {}
      /\ UNCHANGED <<file, resuming, phase, temps, reused, writing>>
  BY DEF Scan, disk, Shape
<1>2. ASSUME NEW x \in Missing PROVE file[PathOf(phase, temps, x)].kind = "absent"
  <2>1. /\ x \in PhaseWork /\ x \notin ReusedWork /\ x \notin Found
        /\ x[1] \in PhaseTasks /\ x[1] \in Task /\ x[2] \in Temperatures
    BY <1>1, WorkHasPath DEF Missing, InPhase, PhaseWork
  <2>2. CASE resuming
    BY <2>1, <2>2 DEF Found
  <2>3. CASE ~resuming
    <3>1. reused[x[1]] = None
      <4>1. CASE phase = "full"
        BY <2>1, <4>1 DEF ReusedWork
      <4>2. CASE phase = "discovery"
        BY <1>1, <2>1, <4>2 DEF Shape, NoReuse
      <4> QED
        BY <1>1, <4>1, <4>2 DEF Shape, InPhase
    <3>2. NoFile(phase, x[1])
      BY <1>1, <2>1, <2>3, <3>1 DEF QueueFresh
    <3> QED
      BY <2>1, <3>2 DEF NoFile, PathOf
  <2> QED
    BY <2>2, <2>3
<1> QED
  BY <1>1, <1>2 DEF QueueFresh

LEMMA WriteFresh ==
  ASSUME TypeOK, Shape, QueueFresh, NEW x \in Work, BeginResult(x) \/ EndResult(x)
  PROVE  QueueFresh'
<1>1. /\ pc = "work" /\ pc' = "work" /\ x \in queued /\ x \in PhaseWork
      /\ PathOf(phase, temps, x) \in Path /\ UNCHANGED <<phase, temps>>
      /\ file \in [Path -> Content]
  BY ResultStep DEF TypeOK
<1>2. \A y \in queued : /\ PathOf(phase, temps, y) \in Path
                        /\ PathOf(phase, temps, y) = PathOf(phase, temps, x) => y = x
  BY <1>1, WorkHasPath, PathsDiffer DEF Shape, InPhase
<1>3. CASE BeginResult(x)
  <2>1. /\ file' = [file EXCEPT ![PathOf(phase, temps, x)] = Partial]
        /\ writing = {} /\ writing' = {x} /\ queued' = queued
    BY <1>3 DEF BeginResult
  <2>2. \A y \in queued : file'[PathOf(phase, temps, y)].kind =
                            IF y = x THEN "partial" ELSE "absent"
    BY <1>1, <1>2, <2>1 DEF QueueFresh, Partial
  <2> QED
    BY <1>1, <2>1, <2>2 DEF QueueFresh
<1>4. CASE EndResult(x)
  <2>1. /\ \E r : file' = [file EXCEPT ![PathOf(phase, temps, x)] = r]
        /\ x \in writing /\ writing' = {} /\ queued' = queued \ {x}
    BY <1>4 DEF EndResult
  <2>2. \A y \in queued' : file'[PathOf(phase, temps, y)].kind = "absent"
    BY <1>1, <1>2, <2>1 DEF QueueFresh, Shape
  <2> QED
    BY <1>1, <2>1, <2>2 DEF QueueFresh
<1> QED
  BY <1>3, <1>4

(* The copies never meet a result: the directory of the full phase is      *)
(* still empty, except for what was copied before.                         *)
LEMMA CopyFresh ==
  ASSUME TypeOK, Shape, QueueFresh, NEW x \in Work, BeginCopy(x) \/ EndCopy(x)
  PROVE  QueueFresh'
<1>1. /\ pc = "copy" /\ pc' = "copy" /\ x \in queued
      /\ x[1] \in DiscoveryTasks /\ x = <<x[1], Winner>>
      /\ <<"full", x[1], Flat>> \in Path
      /\ UNCHANGED <<resuming, reused>>
      /\ file \in [Path -> Content]
  BY CopyStep DEF TypeOK, BeginCopy, EndCopy
<1>2. PICK r : file' = [file EXCEPT ![<<"full", x[1], Flat>>] = r]
  BY CopyStep
<1>3. \A y \in queued : <<"full", y[1], Flat>> \in Path /\ (y[1] = x[1] => y = x)
  <2>1. queued \subseteq DiscoveryTasks \X {Winner}
    BY <1>1 DEF Shape
  <2> QED
    BY <1>1, <2>1, Tasks DEF Path
<1>4. ASSUME ~resuming, NEW p \in ScoredTasks, reused[p] = None
      PROVE  NoFile("full", p)'
  <2>1. NoFile("full", p) /\ p # x[1]
    BY <1>1, <1>4 DEF QueueFresh
  <2>2. \A t \in Temperatures \cup {Flat} : <<"full", p, t>> \in Path
    BY Tasks DEF Path
  <2> QED
    BY <1>1, <1>2, <2>1, <2>2 DEF NoFile
<1>5. CASE BeginCopy(x)
  <2>1. /\ file' = [file EXCEPT ![<<"full", x[1], Flat>>] = Partial]
        /\ writing = {} /\ writing' = {x} /\ queued' = queued
    BY <1>5 DEF BeginCopy
  <2>2. \A y \in queued : file'[<<"full", y[1], Flat>>].kind =
                            IF y = x THEN "partial" ELSE "absent"
    BY <1>1, <1>3, <2>1 DEF QueueFresh, Partial
  <2> QED
    BY <1>1, <1>4, <2>1, <2>2 DEF QueueFresh
<1>6. CASE EndCopy(x)
  <2>1. x \in writing /\ writing' = {} /\ queued' = queued \ {x}
    BY <1>6 DEF EndCopy
  <2>2. \A y \in queued' : file'[<<"full", y[1], Flat>>].kind = "absent"
    BY <1>1, <1>2, <1>3, <2>1 DEF QueueFresh, Shape
  <2> QED
    BY <1>1, <1>4, <2>1, <2>2 DEF QueueFresh
<1> QED
  BY <1>5, <1>6

LEMMA FreshStep ==
  ASSUME TypeOK, Shape, SelectionOpen, QueueFresh, [Next]_vars,
         EveryoneDiscovers => SelectedFirst, UniformDiscovery
  PROVE  QueueFresh'
<1> USE DEF Stopped, disk, memory
<1>1. ASSUME NEW c \in Configs, Start(c) PROVE QueueFresh'
  BY <1>1 DEF Start, QueueFresh, Shape, NoFile
<1>2. ASSUME NEW c \in Configs, NEW p \in ScoredTasks, Resume(c, p)
      PROVE  QueueFresh'
  BY <1>2 DEF Resume, QueueFresh
<1>3. CASE Calibrate
  BY <1>3 DEF Calibrate, QueueFresh, NoFile
<1>4. CASE SkipCalibration
  BY <1>4 DEF SkipCalibration, Exit, Blank, QueueFresh, NoFile
<1>5. CASE DecideDiscovery \/ DecideFull
  <2>1. /\ pc = "decide" /\ file' = file
        /\ \/ Exit("failed")
           \/ /\ pc' = "scan" /\ phase' \in {"discovery", "full"}
              /\ UNCHANGED <<resuming, reused, evolution>>
    BY <1>5 DEF DecideDiscovery, DecideFull
  <2>2. CASE Exit("failed")
    BY <2>2 DEF Exit, Blank, QueueFresh
  <2>3. CASE ~Exit("failed")
    <3>1. PhaseTasks' \subseteq Task
      BY <2>1, <2>3, Tasks DEF PhaseTasks, DiscoveryTasks
    <3> QED
      BY <2>1, <2>3, <3>1 DEF QueueFresh, NoFile
  <2> QED
    BY <2>2, <2>3
<1>6. CASE ScanFails \/ QueueFails \/ Kill \/ EndSummary
  BY <1>6 DEF ScanFails, QueueFails, Kill, EndSummary, Exit, Blank, QueueFresh
<1>7. CASE Scan
  BY <1>7, ScanFresh
<1>8. CASE \E x \in Work : BeginResult(x) \/ EndResult(x)
  BY <1>8, WriteFresh
<1>9. CASE PhaseDone \/ WriteDiscoveryJson \/ BeginSummary
  BY <1>9 DEF PhaseDone, WriteDiscoveryJson, BeginSummary, QueueFresh
<1>10. CASE PersistSelection
  <2>1. /\ pc = "persist" /\ pc' = "copy" /\ file' = file /\ writing' = writing
        /\ queued' = IF evolution THEN {} ELSE DiscoveryTasks \X {Winner}
        /\ reused' = [p \in Task |->
             IF ~evolution /\ p \in DiscoveryTasks \cap ScoredTasks
             THEN scores[<<p, Winner>>] ELSE None]
    BY <1>10 DEF PersistSelection
  <2>2. FullNeedsSelection /\ selected = 0
    <3>1. phase = "discovery" /\ Discovers(config) /\ config \in Configs
      BY <2>1 DEF Shape, BetweenPhases, TypeOK
    <3>2. EveryoneDiscovers
      BY <3>1 DEF UniformDiscovery, EveryoneDiscovers
    <3> QED
      BY <2>1, <3>1, <3>2 DEF SelectedFirst, SelectionOpen
  <2>3. \A p \in Task : NoFile("full", p)
    BY <2>2 DEF FullNeedsSelection, NoFile, Path
  <2>4. \A p \in DiscoveryTasks : p \in Task /\ <<p, Winner>> \in PhaseWork
    BY <2>1, Tasks, WinnerWins DEF Shape, BetweenPhases, PhaseWork, PhaseTasks
  <2>5. \A x \in queued' : /\ x[1] \in Task
                           /\ x[1] \in ScoredTasks => reused'[x[1]] # None
    <3>1. \A x \in PhaseWork : scores[x] # None
      BY <2>1, RunAssumption DEF Shape, BetweenPhases, None
    <3> QED
      BY <2>1, <2>4, <3>1
  <2>6. \A x \in queued' : file'[<<"full", x[1], Flat>>].kind = "absent"
    BY <2>1, <2>3, <2>5 DEF NoFile
  <2>7. \A p \in ScoredTasks : NoFile("full", p)'
    BY <2>1, <2>3, Tasks DEF NoFile
  <2>8. writing' = {}
    BY <2>1 DEF Shape
  <2> QED
    BY <2>1, <2>5, <2>6, <2>7, <2>8 DEF QueueFresh
<1>11. CASE \E x \in Work : BeginCopy(x) \/ EndCopy(x)
  BY <1>11, CopyFresh
<1>12. CASE CopyDone
  <2>1. /\ pc = "copy" /\ pc' = "scan" /\ phase' = "full"
        /\ UNCHANGED <<file, resuming, reused>>
    BY <1>12 DEF CopyDone
  <2> QED
    BY <2>1 DEF QueueFresh, NoFile, PhaseTasks
<1>13. CASE UNCHANGED vars
  BY <1>13 DEF vars, QueueFresh, NoFile, PhaseTasks, DiscoveryTasks
<1> QED
  BY <1>1, <1>2, <1>3, <1>4, <1>5, <1>6, <1>7, <1>8, <1>9, <1>10, <1>11, <1>12,
     <1>13
  DEF Next, Step

(* Only what has no complete result is written.                            *)
LEMMA ResultKept ==
  ASSUME TypeOK, Shape, QueueFresh, [Next]_vars,
         NEW f \in Path, file[f].kind = "whole"
  PROVE  file'[f] = file[f]
<1>1. ASSUME NEW x \in Work, BeginResult(x) \/ EndResult(x)
      PROVE  file'[f] = file[f]
  <2>1. PICK r : file' = [file EXCEPT ![PathOf(phase, temps, x)] = r]
    BY <1>1, ResultStep
  <2>2. f # PathOf(phase, temps, x)
    BY <1>1, ResultStep DEF QueueFresh
  <2> QED
    BY <2>1, <2>2 DEF TypeOK
<1>2. ASSUME NEW x \in Work, BeginCopy(x) \/ EndCopy(x)
      PROVE  file'[f] = file[f]
  <2>1. PICK r : file' = [file EXCEPT ![<<"full", x[1], Flat>>] = r]
    BY <1>2, CopyStep
  <2>2. f # <<"full", x[1], Flat>>
    BY <1>2, CopyStep DEF QueueFresh
  <2> QED
    BY <2>1, <2>2 DEF TypeOK
<1> QED
  BY <1>1, <1>2, FileStep

LEMMA AlwaysFresh ==
  ASSUME UniformDiscovery PROVE SafeSpec => []QueueFresh
<1>1. Init => QueueFresh /\ SelectionOpen /\ SelectedFirst
  BY Tasks DEF Init, QueueFresh, NoFile, Absent, Path, SelectionOpen, Stopped,
     SelectedFirst, FullNeedsSelection
<1>2. SelectionOpen /\ [Next]_vars => SelectionOpen'
  BY SelectionOpenStep
<1>3. CASE EveryoneDiscovers
  <2>1. TypeOK /\ Shape /\ SelectedFirst /\ [Next]_vars => SelectedFirst'
    BY <1>3, SelectedFirstStep
  <2>2. TypeOK /\ Shape /\ SelectionOpen /\ QueueFresh /\ SelectedFirst /\ [Next]_vars
        => QueueFresh'
    BY <1>3, FreshStep
  <2> QED
    BY <1>1, <1>2, <2>1, <2>2, InShape, PTL DEF SafeSpec
<1>4. CASE ~EveryoneDiscovers
  <2>1. TypeOK /\ Shape /\ SelectionOpen /\ QueueFresh /\ [Next]_vars => QueueFresh'
    BY <1>4, FreshStep
  <2> QED
    BY <1>1, <1>2, <2>1, InShape, PTL DEF SafeSpec
<1> QED
  BY <1>3, <1>4

(* No attempt replaces a result that was written completely, whatever      *)
(* temperatures each attempt names, as long as either all attempts ask for *)
(* a discovery or none does: what is there when an attempt scans the       *)
(* directory is loaded or refused (cli.py 1083-1125), and the copy of the  *)
(* discovery results comes before any other result of the full phase       *)
(* (cli.py 1006-1034).                                                     *)
THEOREM ResultsStay ==
  ASSUME UniformDiscovery PROVE SafeSpec => SavedResultsFinal
<1>1. TypeOK /\ Shape /\ QueueFresh /\ [Next]_vars =>
        [\A x \in Path : file[x].kind = "whole" => file'[x] = file[x]]_file
  BY ResultKept
<1>2. SafeSpec => []TypeOK /\ []Shape /\ []QueueFresh
  BY InShape, AlwaysFresh, PTL
<1>3. []TypeOK /\ []Shape /\ []QueueFresh /\ [][Next]_vars => SavedResultsFinal
  BY <1>1, PTL DEF SavedResultsFinal
<1> QED
  BY <1>2, <1>3, PTL DEF SafeSpec

-----------------------------------------------------------------------------
(* All discoveries have the same layout: the flat one is used by all of    *)
(* them or by none.                                                        *)
SameLayout ==
  \A c, d \in Configs : Discovers(c) /\ Discovers(d) =>
    (Cardinality(ProbedBy(c)) > 1) = (Cardinality(ProbedBy(d)) > 1)

(* The pairs of a phase that are no longer queued are saved with the       *)
(* points that the attempt has in memory.                                  *)
Written(x) == file[PathOf(phase, temps, x)] = Whole(x[2], scores[x])

PhaseWritten ==
  /\ pc = "work" => \A x \in PhaseWork \ queued : Written(x)
  /\ pc \in BetweenPhases \cup {"summary"} => \A x \in PhaseWork : Written(x)

(* So are those that the full phase is about to take over from memory.     *)
ReusedWritten ==
  phase = "full" /\ pc = "scan" =>
    \A p \in Task : reused[p] # None =>
      \A t \in temps : /\ temps = {t}
                       /\ file[<<"full", p, Flat>>] = Whole(t, reused[p])

LEMMA ScanWritten ==
  ASSUME TypeOK, Shape, ReusedWritten, Scan PROVE PhaseWritten'
<1>1. /\ pc = "scan" /\ pc' = "work" /\ queued' = Missing
      /\ UNCHANGED <<file, phase, temps, evolution>>
      /\ \A x \in Found : Loadable(x)
      /\ scores' = [x \in Work |->
           IF x \in ReusedWork THEN reused[x[1]]
           ELSE IF x \in Found THEN file[PathOf(phase, temps, x)].earned
           ELSE None]
  BY DEF Scan, disk
<1>2. PhaseWork' = PhaseWork
  BY <1>1 DEF PhaseWork, PhaseTasks, DiscoveryTasks
<1>3. ASSUME NEW x \in PhaseWork \ queued' PROVE Written(x)'
  <2>1. /\ x \in Work /\ x[1] \in Task /\ x[2] \in temps
        /\ PathOf(phase, temps, x) \in Path /\ (x \in ReusedWork \/ x \in Found)
    BY <1>1, WorkHasPath DEF Missing, InPhase
  <2>2. CASE x \in ReusedWork
    <3>1. /\ temps = {x[2]} /\ phase = "full"
          /\ file[<<"full", x[1], Flat>>] = Whole(x[2], reused[x[1]])
      BY <1>1, <2>1, <2>2 DEF ReusedWork, ReusedWritten
    <3>2. PathOf(phase, temps, x) = <<"full", x[1], Flat>>
      <4>1. Cardinality(temps) = 1
        BY <3>1, FS_Singleton
      <4> QED
        BY <3>1, <4>1 DEF PathOf
    <3>3. scores'[x] = reused[x[1]]
      BY <1>1, <2>1, <2>2
    <3> QED
      BY <1>1, <3>1, <3>2, <3>3 DEF Written
  <2>3. CASE x \in Found /\ x \notin ReusedWork
    <3> DEFINE r == file[PathOf(phase, temps, x)]
    <3>1. r \in Content /\ r.kind = "whole" /\ r.temp = x[2]
      BY <1>1, <2>1, <2>3 DEF Loadable, TypeOK
    <3>2. r = Whole(x[2], r.earned)
      BY <3>1 DEF Content, Absent, Partial, Whole
    <3>3. scores'[x] = r.earned
      BY <1>1, <2>1, <2>3
    <3> QED
      BY <1>1, <3>2, <3>3 DEF Written
  <2> QED
    BY <2>1, <2>2, <2>3
<1> QED
  BY <1>1, <1>2, <1>3 DEF PhaseWritten, BetweenPhases

LEMMA WriteWritten ==
  ASSUME TypeOK, Shape, PhaseWritten, NEW x \in Work, BeginResult(x) \/ EndResult(x)
  PROVE  PhaseWritten'
<1>1. /\ pc = "work" /\ pc' = "work" /\ x \in queued /\ x \in PhaseWork
      /\ PathOf(phase, temps, x) \in Path /\ UNCHANGED <<phase, temps, evolution>>
      /\ file \in [Path -> Content] /\ scores \in [Work -> Scores \cup {None}]
  BY ResultStep DEF TypeOK
<1>2. PhaseWork' = PhaseWork
  BY <1>1 DEF PhaseWork, PhaseTasks, DiscoveryTasks
<1>3. \A y \in PhaseWork : y # x => PathOf(phase, temps, y) # PathOf(phase, temps, x)
  BY <1>1, PathsDiffer
<1>4. \A y \in PhaseWork : y \in Work /\ PathOf(phase, temps, y) \in Path
  BY <1>1, WorkHasPath DEF InPhase
<1>5. CASE BeginResult(x)
  <2>1. /\ file' = [file EXCEPT ![PathOf(phase, temps, x)] = Partial]
        /\ UNCHANGED <<queued, scores>>
    BY <1>5 DEF BeginResult
  <2>2. \A y \in PhaseWork \ queued : Written(y)'
    BY <1>1, <1>3, <1>4, <2>1 DEF PhaseWritten, Written
  <2> QED
    BY <1>1, <1>2, <2>1, <2>2 DEF PhaseWritten, BetweenPhases
<1>6. CASE EndResult(x)
  <2>1. PICK e \in Scores :
          /\ file' = [file EXCEPT ![PathOf(phase, temps, x)] = Whole(x[2], e)]
          /\ scores' = [scores EXCEPT ![x] = e]
    BY <1>6 DEF EndResult
  <2>2. queued' = queued \ {x}
    BY <1>6 DEF EndResult
  <2>3. Written(x)'
    BY <1>1, <2>1 DEF Written
  <2>4. \A y \in PhaseWork \ queued : Written(y)'
    BY <1>1, <1>3, <1>4, <2>1 DEF PhaseWritten, Written
  <2> QED
    BY <1>1, <1>2, <2>2, <2>3, <2>4 DEF PhaseWritten, BetweenPhases
<1> QED
  BY <1>5, <1>6

LEMMA CopyWritesFull ==
  ASSUME TypeOK, Shape, NEW x \in Work, BeginCopy(x) \/ EndCopy(x)
  PROVE  \A f \in Path : f[1] = "discovery" => file'[f] = file[f]
<1>1. PICK r : file' = [file EXCEPT ![<<"full", x[1], Flat>>] = r]
  BY CopyStep
<1> QED
  BY <1>1, CopyStep DEF TypeOK

LEMMA PhaseWrittenStep ==
  ASSUME TypeOK, Shape, PhaseWritten, ReusedWritten, [Next]_vars
  PROVE  PhaseWritten'
<1> USE DEF BetweenPhases
<1>1. CASE \E x \in Work : BeginResult(x) \/ EndResult(x)
  BY <1>1, WriteWritten
<1>2. ASSUME NEW x \in Work, BeginCopy(x) \/ EndCopy(x) PROVE PhaseWritten'
  <2>1. /\ pc = "copy" /\ pc' = "copy" /\ phase = "discovery"
        /\ UNCHANGED <<phase, temps, scores, evolution>>
    BY <1>2, CopyStep DEF Shape
  <2>2. PhaseWork' = PhaseWork
    BY <2>1 DEF PhaseWork, PhaseTasks, DiscoveryTasks
  <2>3. ASSUME NEW y \in PhaseWork PROVE Written(y)'
    <3>1. PathOf(phase, temps, y) \in Path /\ PathOf(phase, temps, y)[1] = "discovery"
      BY <2>1, WorkHasPath DEF InPhase, PathOf
    <3> QED
      BY <1>2, <2>1, <3>1, CopyWritesFull DEF PhaseWritten, Written
  <2> QED
    BY <2>1, <2>2, <2>3 DEF PhaseWritten
<1>3. CASE Scan
  BY <1>3, ScanWritten
<1>4. CASE PhaseDone \/ WriteDiscoveryJson \/ PersistSelection \/ BeginSummary
  <2>1. /\ pc \in {"work", "discovery_json", "persist", "summary"}
        /\ pc' \in {"discovery_json", "persist", "copy", "summary"}
        /\ UNCHANGED <<file, phase, temps, scores, evolution>>
        /\ pc = "work" => queued = {}
    BY <1>4 DEF PhaseDone, WriteDiscoveryJson, PersistSelection, BeginSummary, disk, memory
  <2>2. PhaseWork' = PhaseWork
    BY <2>1 DEF PhaseWork, PhaseTasks, DiscoveryTasks
  <2> QED
    BY <2>1, <2>2 DEF PhaseWritten, Written
<1>5. CASE \/ Calibrate \/ SkipCalibration \/ DecideDiscovery \/ DecideFull
           \/ ScanFails \/ QueueFails \/ CopyDone \/ Kill \/ EndSummary
           \/ \E c \in Configs : Start(c)
           \/ \E c \in Configs, p \in ScoredTasks : Resume(c, p)
  <2>1. pc' \in Stopped \cup {"calibrate", "decide", "scan"}
    BY <1>5 DEF Calibrate, SkipCalibration, DecideDiscovery, DecideFull, ScanFails,
       QueueFails, CopyDone, Kill, EndSummary, Start, Resume, Exit, Stopped
  <2> QED
    BY <2>1 DEF PhaseWritten, Stopped
<1>6. CASE UNCHANGED vars
  <2>1. PhaseWork' = PhaseWork
    BY <1>6 DEF vars, memory, PhaseWork, PhaseTasks, DiscoveryTasks
  <2> QED
    BY <1>6, <2>1 DEF PhaseWritten, Written, vars, disk, memory
<1> QED
  BY <1>1, <1>2, <1>3, <1>4, <1>5, <1>6 DEF Next, Step

(* As long as no attempt probes several temperatures, no discovery result  *)
(* lies in the layout for several: the one that the copy prefers and that  *)
(* a winner is inferred from (cli.py 1022, 1817-1826).                     *)
NothingStale ==
  (\A c \in Configs : Discovers(c) => ~(Cardinality(ProbedBy(c)) > 1)) =>
    \A p \in Task, t \in Temperatures : file[<<"discovery", p, t>>].kind = "absent"

LEMMA NothingStaleStep ==
  ASSUME TypeOK, Shape, NothingStale, [Next]_vars
  PROVE  NothingStale'
<1>1. \A p \in Task, t \in Temperatures : <<"discovery", p, t>> \in Path
  BY DEF Path
<1>2. ASSUME NEW x \in Work, BeginResult(x) \/ EndResult(x) PROVE NothingStale'
  <2>1. PICK r : file' = [file EXCEPT ![PathOf(phase, temps, x)] = r]
    BY <1>2, ResultStep
  <2>2. ASSUME NEW p \in Task, NEW t \in Temperatures,
               \A c \in Configs : Discovers(c) => ~(Cardinality(ProbedBy(c)) > 1)
        PROVE  <<"discovery", p, t>> # PathOf(phase, temps, x)
    <3>1. CASE phase = "full"
      BY <3>1 DEF PathOf
    <3>2. CASE phase = "discovery"
      <4>1. ~(Cardinality(temps) > 1) /\ t # Flat
        BY <2>2, <3>2, RunAssumption DEF Shape, TypeOK, Flat
      <4> QED
        BY <4>1 DEF PathOf
    <3> QED
      BY <1>2, <3>1, <3>2, ResultStep DEF Shape, InPhase
  <2> QED
    BY <1>1, <2>1, <2>2 DEF NothingStale, TypeOK
<1>3. CASE \E x \in Work : BeginCopy(x) \/ EndCopy(x)
  BY <1>1, <1>3, CopyWritesFull DEF NothingStale
<1> QED
  BY <1>2, <1>3, FileStep DEF NothingStale

(* What holds of the discovery results whatever the settings of the        *)
(* attempts are.                                                           *)
ProbesSaved == NothingStale /\ (phase = "discovery" => PhaseWritten)

LEMMA AlwaysSaved == SafeSpec => []ProbesSaved
<1>1. Init => ProbesSaved
  BY DEF Init, ProbesSaved, NothingStale, Absent, Path
<1>2. ASSUME TypeOK, Shape, ProbesSaved, [Next]_vars, phase' = "discovery"
      PROVE  PhaseWritten'
  <2>1. CASE phase = "discovery"
    BY <1>2, <2>1, PhaseWrittenStep DEF ProbesSaved, ReusedWritten
  <2>2. CASE phase # "discovery"
    <3>1. DecideDiscovery
      BY <1>2, <2>2 DEF Next, Step, Start, Resume, Calibrate, SkipCalibration,
         DecideFull, ScanFails, Scan, BeginResult, EndResult, QueueFails, PhaseDone,
         WriteDiscoveryJson, PersistSelection, BeginCopy, EndCopy, CopyDone,
         BeginSummary, EndSummary, Kill, Exit, Blank, vars, memory
    <3> QED
      BY <3>1 DEF DecideDiscovery, PhaseWritten, BetweenPhases
  <2> QED
    BY <2>1, <2>2
<1>3. TypeOK /\ Shape /\ ProbesSaved /\ [Next]_vars => ProbesSaved'
  BY <1>2, NothingStaleStep DEF ProbesSaved
<1> QED
  BY <1>1, <1>3, InShape, PTL DEF SafeSpec

(* A reused score is that of the winner, and once its file is copied it is *)
(* what the copy holds.                                                    *)
CopyWritten ==
  pc = "copy" =>
    \A p \in Task : reused[p] # None =>
      /\ p \in DiscoveryTasks /\ reused[p] = scores[<<p, Winner>>]
      /\ <<p, Winner>> \notin queued =>
           file[<<"full", p, Flat>>] = Whole(Winner, reused[p])

Kept == PhaseWritten /\ ReusedWritten /\ CopyWritten

LEMMA CopyKept ==
  ASSUME SameLayout, TypeOK, Shape, NothingStale, PhaseWritten, CopyWritten,
         NEW x \in Work, BeginCopy(x) \/ EndCopy(x)
  PROVE  CopyWritten'
<1>1. /\ pc = "copy" /\ pc' = "copy" /\ x \in queued
      /\ x[1] \in DiscoveryTasks /\ x[1] \in Task /\ x = <<x[1], Winner>>
      /\ <<"full", x[1], Flat>> \in Path
      /\ UNCHANGED <<phase, temps, scores, reused, evolution>>
      /\ file \in [Path -> Content]
      /\ phase = "discovery" /\ temps = ProbedBy(config)
      /\ Discovers(config) /\ config \in Configs
  BY CopyStep, Tasks DEF TypeOK, Shape, BetweenPhases
<1>2. PICK r : file' = [file EXCEPT ![<<"full", x[1], Flat>>] = r]
  BY CopyStep
<1>3. Winner' = Winner /\ DiscoveryTasks' = DiscoveryTasks
  BY <1>1 DEF Winner, PhaseTasks, DiscoveryTasks
<1>4. CASE BeginCopy(x)
  <2>1. queued' = queued
    BY <1>4 DEF BeginCopy
  <2>2. ASSUME NEW p \in Task, reused[p] # None, <<p, Winner>> \notin queued
        PROVE  file'[<<"full", p, Flat>>] = file[<<"full", p, Flat>>]
    <3>1. p # x[1] /\ <<"full", p, Flat>> \in Path
      BY <1>1, <2>2 DEF Path
    <3> QED
      BY <1>2, <3>1 DEF TypeOK
  <2> QED
    BY <1>1, <1>3, <2>1, <2>2 DEF CopyWritten
<1>5. CASE EndCopy(x)
  <2>1. queued' = queued \ {x}
    BY <1>5 DEF EndCopy
  <2>2. file'[<<"full", x[1], Flat>>] = Whole(Winner, scores[<<x[1], Winner>>])
    <3> DEFINE several == file[<<"discovery", x[1], Winner>>]
               flat == file[<<"discovery", x[1], Flat>>]
    <3>1. file'[<<"full", x[1], Flat>>] = IF several.kind # "absent" THEN several ELSE flat
      BY <1>1, <1>5 DEF EndCopy
    <3>2. Winner \in Temperatures /\ x \in PhaseWork
      BY <1>1, WinnerWins DEF BetweenPhases, PhaseWork, PhaseTasks
    <3>3. file[PathOf(phase, temps, x)] = Whole(Winner, scores[x])
      BY <1>1, <3>2 DEF PhaseWritten, Written, BetweenPhases
    <3>4. CASE Cardinality(temps) > 1
      BY <1>1, <3>1, <3>3, <3>4 DEF PathOf, Whole
    <3>5. CASE ~(Cardinality(temps) > 1)
      <4>1. several.kind = "absent"
        BY <1>1, <3>2, <3>5 DEF SameLayout, NothingStale
      <4> QED
        BY <1>1, <3>1, <3>3, <3>5, <4>1 DEF PathOf
    <3> QED
      BY <3>4, <3>5
  <2>3. ASSUME NEW p \in Task, reused[p] # None, <<p, Winner>> \notin queued'
        PROVE  file'[<<"full", p, Flat>>] = Whole(Winner, reused[p])
    <3>1. CASE p = x[1]
      BY <1>1, <2>2, <2>3, <3>1 DEF CopyWritten
    <3>2. CASE p # x[1]
      <4>1. <<"full", p, Flat>> \in Path /\ <<p, Winner>> \notin queued
        BY <1>1, <2>1, <2>3, <3>2 DEF Path
      <4>2. file'[<<"full", p, Flat>>] = file[<<"full", p, Flat>>]
        BY <1>2, <3>2, <4>1 DEF TypeOK
      <4> QED
        BY <1>1, <2>3, <4>1, <4>2 DEF CopyWritten
    <3> QED
      BY <3>1, <3>2
  <2> QED
    BY <1>1, <1>3, <2>3 DEF CopyWritten
<1> QED
  BY <1>4, <1>5

LEMMA KeptStep ==
  ASSUME SameLayout, TypeOK, Shape, NothingStale, Kept, [Next]_vars
  PROVE  Kept'
<1>0. PhaseWritten'
  BY PhaseWrittenStep DEF Kept
<1>1. CASE \E x \in Work : BeginResult(x) \/ EndResult(x)
  <2>1. pc' = "work"
    BY <1>1, ResultStep
  <2> QED
    BY <1>0, <2>1 DEF Kept, ReusedWritten, CopyWritten
<1>2. ASSUME NEW x \in Work, BeginCopy(x) \/ EndCopy(x) PROVE Kept'
  <2>1. pc' = "copy"
    BY <1>2, CopyStep
  <2>2. CopyWritten'
    BY <1>2, CopyKept DEF Kept
  <2> QED
    BY <1>0, <2>1, <2>2 DEF Kept, ReusedWritten
<1>3. CASE PersistSelection
  <2>1. /\ pc = "persist" /\ pc' = "copy"
        /\ queued' = IF evolution THEN {} ELSE DiscoveryTasks \X {Winner}
        /\ reused' = [p \in Task |->
             IF ~evolution /\ p \in DiscoveryTasks \cap ScoredTasks
             THEN scores[<<p, Winner>>] ELSE None]
        /\ UNCHANGED <<phase, temps, scores, evolution>>
    BY <1>3 DEF PersistSelection
  <2>2. Winner' = Winner /\ DiscoveryTasks' = DiscoveryTasks
    BY <2>1 DEF Winner, PhaseTasks, DiscoveryTasks
  <2> QED
    BY <1>0, <2>1, <2>2 DEF Kept, ReusedWritten, CopyWritten
<1>4. CASE CopyDone
  <2>1. /\ pc = "copy" /\ pc' = "scan" /\ temps' = {Winner} /\ queued = {}
        /\ UNCHANGED <<file, reused>>
    BY <1>4 DEF CopyDone, disk
  <2> QED
    BY <1>0, <2>1 DEF Kept, ReusedWritten, CopyWritten
<1>5. CASE DecideDiscovery \/ DecideFull
  <2>1. /\ pc = "decide" /\ reused = NoReuse
        /\ \/ Exit("failed")
           \/ pc' = "scan" /\ reused' = reused
    BY <1>5 DEF DecideDiscovery, DecideFull, Shape, InPhase, BetweenPhases
  <2>2. pc' \in {"failed", "scan"} /\ reused' = NoReuse
    BY <2>1 DEF Exit, Blank
  <2> QED
    BY <1>0, <2>2 DEF Kept, ReusedWritten, CopyWritten, NoReuse
<1>6. CASE \/ Calibrate \/ SkipCalibration \/ ScanFails \/ Scan \/ QueueFails
           \/ PhaseDone \/ WriteDiscoveryJson \/ BeginSummary \/ Kill \/ EndSummary
           \/ \E c \in Configs : Start(c)
           \/ \E c \in Configs, p \in ScoredTasks : Resume(c, p)
  <2>1. pc' \notin {"scan", "copy"}
    BY <1>6 DEF Calibrate, SkipCalibration, ScanFails, Scan, QueueFails, PhaseDone,
       WriteDiscoveryJson, BeginSummary, Kill, EndSummary, Start, Resume, Exit
  <2> QED
    BY <1>0, <2>1 DEF Kept, ReusedWritten, CopyWritten
<1>7. CASE UNCHANGED vars
  <2>1. Winner' = Winner /\ DiscoveryTasks' = DiscoveryTasks
    BY <1>7 DEF vars, memory, Winner, PhaseTasks, DiscoveryTasks
  <2> QED
    BY <1>0, <1>7, <2>1 DEF Kept, ReusedWritten, CopyWritten, vars, disk, memory
<1> QED
  BY <1>1, <1>2, <1>3, <1>4, <1>5, <1>6, <1>7 DEF Next, Step

LEMMA AlwaysKept ==
  ASSUME SameLayout PROVE SafeSpec => []Kept
<1>1. Init => Kept
  BY DEF Init, Kept, PhaseWritten, ReusedWritten, CopyWritten, BetweenPhases
<1>2. TypeOK /\ Shape /\ NothingStale /\ Kept /\ [Next]_vars => Kept'
  BY KeptStep
<1>3. SafeSpec => []NothingStale
  BY AlwaysSaved, PTL DEF ProbesSaved
<1> QED
  BY <1>1, <1>2, <1>3, InShape, PTL DEF SafeSpec

(* The summary that an attempt writes is backed by files.                  *)
LEMMA SummaryWritten ==
  ASSUME TypeOK, Shape, Kept, EndSummary
  PROVE  SummaryBacked' /\ summary'.temp \in Temperatures
<1>1. PICK t, layout : /\ t = Winner
                       /\ layout = IF Cardinality(temps) > 1 THEN t ELSE Flat
  OBVIOUS
<1>2. /\ pc = "summary" /\ file' = file
      /\ summary' = [kind |-> "whole", temp |-> t,
                     scores |-> [p \in ScoredTasks |-> scores[<<p, t>>]]]
  BY <1>1 DEF EndSummary
<1>3. t \in temps /\ t \in Temperatures /\ phase = "full" /\ PhaseTasks = ScoredTasks
  BY <1>1, <1>2, WinnerWins DEF Shape, PhaseTasks, BetweenPhases
<1>4. ASSUME NEW p \in ScoredTasks
      PROVE  file'[<<"full", p, layout>>] = Whole(t, summary'.scores[p])
  <2>1. <<p, t>> \in PhaseWork
    BY <1>3 DEF PhaseWork
  <2>2. file[PathOf(phase, temps, <<p, t>>)] = Whole(t, scores[<<p, t>>])
    BY <1>2, <2>1 DEF Kept, PhaseWritten, Written
  <2>3. PathOf(phase, temps, <<p, t>>) = <<"full", p, layout>>
    BY <1>1, <1>3 DEF PathOf
  <2> QED
    BY <1>2, <2>2, <2>3
<1>5. layout \in {summary'.temp, Flat} /\ summary'.temp = t
  BY <1>1, <1>2
<1>6. \E l \in {summary'.temp, Flat} : \A p \in ScoredTasks :
        file'[<<"full", p, l>>] = Whole(summary'.temp, summary'.scores[p])
  BY <1>4, <1>5
<1> QED
  BY <1>3, <1>5, <1>6 DEF SummaryBacked, Backs

(* An attempt that ends successfully has written a summary whose every     *)
(* line is backed by a result of the summary's temperature, also if every  *)
(* attempt had other settings: a change of the probed temperatures may not *)
(* change the layout of the discovery results, as the copy prefers one of  *)
(* the two (cli.py 677-730, 1006-1034, 1857-1893).                         *)
THEOREM DoneIsBacked ==
  ASSUME SameLayout PROVE SafeSpec => []DoneBacked
<1>1. Init => DoneBacked
  BY DEF Init, DoneBacked
<1>2. ASSUME TypeOK, Shape, Kept, DoneBacked, [Next]_vars PROVE DoneBacked'
  <2>1. CASE EndSummary
    BY <1>2, <2>1, SummaryWritten DEF DoneBacked
  <2>2. CASE UNCHANGED vars
    BY <1>2, <2>2 DEF DoneBacked, SummaryBacked, Backs, vars, disk
  <2>3. CASE Next /\ ~EndSummary
    <3>1. pc' # "done"
      BY <1>2, <2>3 DEF Next, Step, Start, Resume, Calibrate, SkipCalibration,
         DecideDiscovery, DecideFull, ScanFails, Scan, BeginResult, EndResult,
         QueueFails, PhaseDone, WriteDiscoveryJson, PersistSelection, BeginCopy,
         EndCopy, CopyDone, BeginSummary, Kill, Exit
    <3> QED
      BY <3>1 DEF DoneBacked
  <2> QED
    BY <1>2, <2>1, <2>2, <2>3
<1> QED
  BY <1>1, <1>2, InShape, AlwaysKept, PTL DEF SafeSpec

SummaryKept ==
  SummaryBacked /\ (summary.kind = "whole" => summary.temp \in Temperatures)

LEMMA SummaryKeptStep ==
  ASSUME TypeOK, Shape, Kept, QueueFresh, SummaryKept, [Next]_vars
  PROVE  SummaryKept'
<1>1. CASE EndSummary
  BY <1>1, SummaryWritten DEF SummaryKept
<1>2. CASE ~EndSummary
  <2>1. summary' = summary \/ summary'.kind = "partial"
    BY <1>2 DEF Next, Step, Start, Resume, Calibrate, SkipCalibration,
       DecideDiscovery, DecideFull, ScanFails, Scan, BeginResult, EndResult,
       QueueFails, PhaseDone, WriteDiscoveryJson, PersistSelection, BeginCopy,
       EndCopy, CopyDone, BeginSummary, NoSummary, Kill, vars, disk
  <2>2. CASE summary' = summary /\ summary.kind = "whole"
    <3>1. PICK layout \in {summary.temp, Flat} :
            \A p \in ScoredTasks : Backs(p, summary.temp, layout)
      BY <2>2 DEF SummaryKept, SummaryBacked
    <3>2. ASSUME NEW p \in ScoredTasks PROVE Backs(p, summary.temp, layout)'
      <4>1. <<"full", p, layout>> \in Path
        BY <2>2, <3>1, Tasks DEF SummaryKept, Path
      <4>2. file[<<"full", p, layout>>] = Whole(summary.temp, summary.scores[p])
        BY <3>1 DEF Backs
      <4>3. file'[<<"full", p, layout>>] = file[<<"full", p, layout>>]
        BY <4>1, <4>2, ResultKept DEF Whole
      <4> QED
        BY <2>2, <4>2, <4>3 DEF Backs
    <3> QED
      BY <2>2, <3>1, <3>2 DEF SummaryKept, SummaryBacked
  <2>3. CASE summary'.kind # "whole"
    BY <2>3 DEF SummaryKept, SummaryBacked
  <2> QED
    BY <2>1, <2>2, <2>3
<1> QED
  BY <1>1, <1>2

(* Once a summary is complete, every one of its lines stays backed by a    *)
(* result.json of its temperature and points, through all later attempts,  *)
(* until one of them begins a new summary: a campaign that reuses the pair *)
(* finds it (cli.py 677-730, 974-987).                                     *)
THEOREM SummaryStaysBacked ==
  ASSUME UniformDiscovery, SameLayout PROVE SafeSpec => []SummaryBacked
<1>1. Init => SummaryKept
  BY DEF Init, SummaryKept, SummaryBacked, NoSummary
<1>2. TypeOK /\ Shape /\ Kept /\ QueueFresh /\ SummaryKept /\ [Next]_vars => SummaryKept'
  BY SummaryKeptStep
<1>3. SummaryKept => SummaryBacked
  BY DEF SummaryKept
<1> QED
  BY <1>1, <1>2, <1>3, InShape, AlwaysKept, AlwaysFresh, PTL DEF SafeSpec

-----------------------------------------------------------------------------
(* No attempt that asks for a discovery, but names a single candidate,     *)
(* finds results of a discovery over several: it would infer a winner from *)
(* them that it has not probed (cli.py 640-647, 1795-1854).                *)
NobodyInfers ==
  \A c, d \in Configs :
    c.discover /\ ~Discovers(c) /\ Discovers(d) => ~(Cardinality(ProbedBy(d)) > 1)

(* The points that the saved discovery results give to a temperature.      *)
Probe(ts, x) == file[PathOf("discovery", ts, x)]
ProbePoints(ts, t) == SumFunction([p \in DiscoveryTasks |-> Probe(ts, <<p, t>>).earned])

(* A temperature is the winner of complete saved discovery results.        *)
WinnerOf(ts, t) ==
  /\ \A x \in DiscoveryTasks \X ts : Probe(ts, x).kind = "whole"
  /\ \A u \in ts : /\ ProbePoints(ts, u) <= ProbePoints(ts, t)
                   /\ ProbePoints(ts, u) = ProbePoints(ts, t) => t <= u

Justified ==
  /\ selected # 0 =>
       discoveryJson = selected /\ \E c \in Configs : WinnerOf(ProbedBy(c), selected)
  /\ pc = "persist" => discoveryJson = Winner

(* Once a temperature is selected no step touches what it rests on.        *)
LEMMA ProbesKept ==
  ASSUME TypeOK, Shape, SelectionOpen, [Next]_vars, selected # 0
  PROVE  /\ \A f \in Path : f[1] = "discovery" => file'[f] = file[f]
         /\ discoveryJson' = discoveryJson
<1>1. ASSUME NEW x \in Work, BeginResult(x) \/ EndResult(x)
      PROVE  /\ \A f \in Path : f[1] = "discovery" => file'[f] = file[f]
             /\ discoveryJson' = discoveryJson
  <2>1. PICK r : file' = [file EXCEPT ![PathOf(phase, temps, x)] = r]
    BY <1>1, ResultStep
  <2>2. PathOf(phase, temps, x)[1] # "discovery" /\ discoveryJson' = discoveryJson
    BY <1>1, ResultStep DEF SelectionOpen, PathOf
  <2> QED
    BY <2>1, <2>2 DEF TypeOK
<1>2. ASSUME NEW x \in Work, BeginCopy(x) \/ EndCopy(x)
      PROVE  /\ \A f \in Path : f[1] = "discovery" => file'[f] = file[f]
             /\ discoveryJson' = discoveryJson
  <2>1. PICK r : file' = [file EXCEPT ![<<"full", x[1], Flat>>] = r]
    BY <1>2, CopyStep
  <2> QED
    BY <1>2, <2>1, CopyStep DEF TypeOK
<1>3. CASE ~ \E x \in Work :
              BeginResult(x) \/ EndResult(x) \/ BeginCopy(x) \/ EndCopy(x)
  <2>1. file' = file
    BY <1>3, FileStep
  <2>2. ~WriteDiscoveryJson
    BY DEF WriteDiscoveryJson, SelectionOpen
  <2>3. discoveryJson' = discoveryJson
    BY <1>3, <2>2 DEF Next, Step, Start, Resume, Calibrate, SkipCalibration,
       DecideDiscovery, DecideFull, ScanFails, Scan, QueueFails, PhaseDone,
       PersistSelection, CopyDone, BeginSummary, EndSummary, Kill, vars, disk
  <2> QED
    BY <2>1, <2>3
<1> QED
  BY <1>1, <1>2, <1>3

LEMMA SuiteKept ==
  ASSUME [Next]_vars PROVE evolution' = evolution
  BY DEF Next, Step, Start, Resume, Calibrate, SkipCalibration, DecideDiscovery,
     DecideFull, ScanFails, Scan, BeginResult, EndResult, QueueFails, PhaseDone,
     WriteDiscoveryJson, PersistSelection, BeginCopy, EndCopy, CopyDone,
     BeginSummary, EndSummary, Kill, vars

(* So the winner stays the winner.                                         *)
LEMMA WinnerStays ==
  ASSUME TypeOK, evolution' = evolution,
         \A f \in Path : f[1] = "discovery" => file'[f] = file[f],
         NEW ts \in SUBSET Temperatures, NEW t \in Temperatures, WinnerOf(ts, t)
  PROVE  WinnerOf(ts, t)'
<1>1. DiscoveryTasks' = DiscoveryTasks
  BY DEF DiscoveryTasks
<1>2. ASSUME NEW p \in DiscoveryTasks, NEW u \in Temperatures
      PROVE  Probe(ts, <<p, u>>)' = Probe(ts, <<p, u>>)
  <2>1. PathOf("discovery", ts, <<p, u>>) \in Path
        /\ PathOf("discovery", ts, <<p, u>>)[1] = "discovery"
    BY Tasks DEF PathOf, Path
  <2> QED
    BY <2>1 DEF Probe
<1>3. ASSUME NEW u \in Temperatures PROVE ProbePoints(ts, u)' = ProbePoints(ts, u)
  <2>1. [p \in DiscoveryTasks' |-> Probe(ts, <<p, u>>)'.earned]
          = [p \in DiscoveryTasks |-> Probe(ts, <<p, u>>).earned]
    BY <1>1, <1>2
  <2> QED
    BY <2>1 DEF ProbePoints
<1>4. \A u \in ts : u \in Temperatures
  OBVIOUS
<1> QED
  BY <1>1, <1>2, <1>3, <1>4 DEF WinnerOf

(* What an attempt persists is the winner of what it has saved.            *)
LEMMA WinnerSaved ==
  ASSUME TypeOK, Shape, ProbesSaved, pc = "persist"
  PROVE  config \in Configs /\ WinnerOf(ProbedBy(config), Winner)
<1>1. /\ phase = "discovery" /\ PhaseTasks = DiscoveryTasks
      /\ temps = ProbedBy(config) /\ config \in Configs
  BY DEF Shape, BetweenPhases, PhaseTasks, TypeOK
<1>2. ASSUME NEW x \in DiscoveryTasks \X temps
      PROVE  Probe(temps, x) = Whole(x[2], scores[x])
  BY <1>1, <1>2 DEF ProbesSaved, PhaseWritten, BetweenPhases, Written, Probe, PhaseWork
<1>3. ASSUME NEW t \in temps
      PROVE  ProbePoints(temps, t) = Earned(scores, PhaseTasks, t)
  <2>1. ASSUME NEW p \in DiscoveryTasks
        PROVE  Probe(temps, <<p, t>>).earned = scores[<<p, t>>]
    BY <1>2 DEF Whole
  <2>2. [p \in DiscoveryTasks |-> Probe(temps, <<p, t>>).earned]
          = [p \in DiscoveryTasks |-> scores[<<p, t>>]]
    BY <2>1
  <2> QED
    BY <1>1, <2>2 DEF ProbePoints, Earned
<1>4. /\ Winner \in temps
      /\ \A u \in temps :
           /\ Earned(scores, PhaseTasks, u) <= Earned(scores, PhaseTasks, Winner)
           /\ Earned(scores, PhaseTasks, u) = Earned(scores, PhaseTasks, Winner)
                => Winner <= u
  BY WinnerWins DEF BetweenPhases
<1>5. \A x \in DiscoveryTasks \X temps : Probe(temps, x).kind = "whole"
  BY <1>2 DEF Whole
<1> QED
  BY <1>1, <1>3, <1>4, <1>5 DEF WinnerOf

(* An attempt that asks for a discovery but has a single candidate finds   *)
(* nothing to infer a winner from.                                         *)
LEMMA NothingInferred ==
  ASSUME NobodyInfers, TypeOK, NothingStale, DecideFull, selected = 0
  PROVE  selected' = 0
<1>1. CASE resuming /\ config.discover
  <2>1. config \in Configs /\ ~Discovers(config)
    BY <1>1 DEF TypeOK, DecideFull, IsDiscovery, Discovers
  <2>2. \A c \in Configs : Discovers(c) => ~(Cardinality(ProbedBy(c)) > 1)
    BY <1>1, <2>1 DEF NobodyInfers
  <2>3. \A p \in Task, t \in Temperatures : file[<<"discovery", p, t>>].kind = "absent"
    BY <2>2 DEF NothingStale
  <2>4. PICK p \in DiscoveryTasks, t \in ProbedBy(config) : TRUE
    BY <2>1, Tasks, Probed
  <2>5. SavedProbe(p, t).kind # "whole"
    BY <2>1, <2>3, <2>4, Tasks, Probed DEF SavedProbe
  <2>6. InferredTemperature = 0
    BY <2>4, <2>5 DEF InferredTemperature
  <2> QED
    BY <1>1, <2>6 DEF DecideFull
<1>2. CASE ~(resuming /\ config.discover)
  BY <1>2 DEF DecideFull
<1> QED
  BY <1>1, <1>2

LEMMA JustifiedStep ==
  ASSUME NobodyInfers, TypeOK, Shape, SelectionOpen, ProbesSaved, Justified,
         [Next]_vars
  PROVE  Justified'
<1>1. (pc = "persist" => discoveryJson = Winner)'
  <2>1. CASE WriteDiscoveryJson
    <3>1. discoveryJson' = Winner /\ Winner' = Winner
      BY <2>1, ReportedIsWinner
      DEF WriteDiscoveryJson, memory, Winner, PhaseTasks, DiscoveryTasks, BetweenPhases
    <3> QED
      BY <3>1
  <2>2. CASE UNCHANGED vars
    BY <2>2 DEF Justified, vars, disk, memory, Winner, PhaseTasks, DiscoveryTasks
  <2>3. CASE Next /\ ~WriteDiscoveryJson
    <3>1. pc' # "persist"
      BY <2>3, ResultStep, CopyStep DEF Next, Step, Start, Resume, Calibrate,
         SkipCalibration, DecideDiscovery, DecideFull, ScanFails, Scan, QueueFails,
         PhaseDone, PersistSelection, CopyDone, BeginSummary, EndSummary, Kill, Exit
    <3> QED
      BY <3>1
  <2> QED
    BY <2>1, <2>2, <2>3
<1>2. CASE selected # 0
  <2>1. /\ selected' = selected /\ evolution' = evolution
        /\ discoveryJson' = discoveryJson
        /\ \A f \in Path : f[1] = "discovery" => file'[f] = file[f]
    BY <1>2, SelectionStep, SuiteKept, ProbesKept
  <2>2. PICK c \in Configs : WinnerOf(ProbedBy(c), selected)
    BY <1>2 DEF Justified
  <2>3. PICK t : t = selected
    OBVIOUS
  <2>4. PICK ts : ts = ProbedBy(c)
    OBVIOUS
  <2>5. t \in Temperatures /\ ts \in SUBSET Temperatures
    BY <1>2, <2>3, <2>4, Probed DEF TypeOK
  <2>6. WinnerOf(ts, t)
    BY <2>2, <2>3, <2>4
  <2>7. WinnerOf(ts, t)'
    BY <2>1, <2>5, <2>6, WinnerStays
  <2> QED
    BY <1>1, <1>2, <2>1, <2>2, <2>3, <2>4, <2>7 DEF Justified
<1>3. CASE selected = 0 /\ PersistSelection
  <2>1. config \in Configs /\ WinnerOf(ProbedBy(config), Winner)
    BY <1>3, WinnerSaved DEF PersistSelection
  <2>2. PICK c, t : c = config /\ t = Winner
    OBVIOUS
  <2>3. /\ selected' = t /\ discoveryJson' = t
        /\ UNCHANGED <<file, evolution>>
    BY <1>3, <2>2 DEF PersistSelection, Justified
  <2>4. WinnerOf(ProbedBy(c), t)'
    BY <2>1, <2>2, <2>3 DEF WinnerOf, ProbePoints, Probe, DiscoveryTasks
  <2> QED
    BY <1>1, <2>1, <2>2, <2>3, <2>4 DEF Justified
<1>4. CASE selected = 0 /\ ~PersistSelection
  <2>1. ASSUME DecideFull PROVE selected' = 0
    BY <1>4, <2>1, NothingInferred DEF ProbesSaved
  <2>2. ASSUME ~DecideFull PROVE selected' = 0
    BY <1>4, <2>2 DEF Next, Step, Start, Resume, Calibrate, SkipCalibration,
       DecideDiscovery, ScanFails, Scan, BeginResult, EndResult, QueueFails,
       PhaseDone, WriteDiscoveryJson, BeginCopy, EndCopy, CopyDone, BeginSummary,
       EndSummary, Kill, vars, disk
  <2>3. selected' = 0
    BY <1>4, <2>1, <2>2
  <2> QED
    BY <1>1, <2>3 DEF Justified
<1> QED
  BY <1>2, <1>3, <1>4

(* A persisted selection is, at every moment and after any number of       *)
(* attempts with any settings, the temperature with the most points in     *)
(* complete saved results of a discovery, the lowest of those that tie,    *)
(* and discovery.json names it too; unless an attempt with one candidate   *)
(* infers a winner from a discovery over several (cli.py 555-620,          *)
(* campaign.py 131-137).                                                   *)
THEOREM SelectionIsJustified ==
  ASSUME NobodyInfers PROVE SafeSpec => []SelectionJustified
<1>1. Init => Justified /\ SelectionOpen
  BY DEF Init, Justified, SelectionOpen, Stopped
<1>2. SelectionOpen /\ [Next]_vars => SelectionOpen'
  BY SelectionOpenStep
<1>3. TypeOK /\ Shape /\ SelectionOpen /\ ProbesSaved /\ Justified /\ [Next]_vars
        => Justified'
  BY JustifiedStep
<1>4. Justified => SelectionJustified
  BY DEF Justified, SelectionJustified, WinnerOf, ProbePoints, Probe
<1> QED
  BY <1>1, <1>2, <1>3, <1>4, InShape, AlwaysSaved, PTL DEF SafeSpec

=============================================================================
