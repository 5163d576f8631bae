------------------------------- MODULE Campaign -------------------------------
(***************************************************************************)
(* A campaign (campaign.py, and _run of cli.py): suite/generator pairs     *)
(* that are executed one after the other under one protocol and one speed  *)
(* calibration, with a manifest from which a killed or failed campaign is  *)
(* resumed.                                                                *)
(*                                                                         *)
(* The execution of one pair (BenchmarkRun) appears here only with what it *)
(* leaves in the pair's directory: calibration.json and summary.json.  The *)
(* manifest and the calibrations are replaced atomically (write_json,      *)
(* save_calibration); summary.json is written in place, so a crash may     *)
(* leave part of it.                                                       *)
(***************************************************************************)
EXTENDS Naturals, Sequences, Functions

CONSTANTS
  Pair,                \* the suite/generator pairs there are
  Orders,              \* selections of pairs to execute, in execution order
  Protocols,           \* campaign_protocol of the configurations in use
  Calibrated,          \* those with benchmark.calibration.enabled
  Measurements,        \* what a speed calibration can measure
  MaxAttempts          \* bound: process starts

ASSUME CampaignAssumption ==
  /\ Orders # {}
  /\ \A o \in Orders : o \in Seq(Pair) /\ o # <<>> /\ IsInjective(o)
  /\ Protocols # {}
  /\ Calibrated \subseteq Protocols
  /\ Measurements \subseteq Nat \ {0} /\ Measurements # {}
  /\ MaxAttempts \in Nat

VARIABLES
  \* on disk
  manifest,         \* campaign.json
  calibration,      \* calibration.json of the campaign, 0 if there is none
  pairCalibration,  \* calibration.json of each pair
  summary,          \* summary.json of each pair
  damaged,          \* pairs with a result.json that cannot be used any more
  \* in the memory of the attempt
  pc,
  data,             \* Campaign.data["pairs"]: the statuses
  protocol,
  order,            \* the pairs of this attempt
  resumed,
  measured,         \* calibration_result
  position,         \* of the loop over the pairs
  results,          \* score or failure of each pair
  \* bound
  attempts

disk == <<manifest, calibration, pairCalibration, summary, damaged>>
memory == <<data, protocol, order, resumed, measured, position, results>>
vars == <<disk, pc, memory, attempts>>

-----------------------------------------------------------------------------
Current == order[position]
Single == Len(order) = 1

Status == {"pending", "running", "completed", "failed"}
Untouched == [p \in Pair |-> "pending"]
NoManifest == [exists |-> FALSE, protocol |-> CHOOSE c \in Protocols : TRUE,
               scope |-> {}, pairs |-> Untouched, status |-> "incomplete"]
NoSummary == [kind |-> "absent", protocol |-> CHOOSE c \in Protocols : TRUE,
              calibration |-> 0]

(* validate_pair_summary: whole, and made under the campaign's protocol. *)
Valid(p) == summary[p].kind = "whole" /\ summary[p].protocol = protocol

Stopped == {"new", "killed", "refused", "raised", "some_failed", "ok"}

(* Campaign.save: the status of the campaign follows those of its pairs. *)
Save(c, scope, pairs) ==
  manifest' = [exists |-> TRUE, protocol |-> c, scope |-> scope, pairs |-> pairs,
               status |-> IF \A p \in scope : pairs[p] = "completed"
                          THEN "completed" ELSE "incomplete"]

(* update_pair: the status changes in memory, then in the manifest. *)
UpdatePair(p, status) ==
  /\ data' = [data EXCEPT ![p] = status]
  /\ Save(protocol, Range(order), data')

Init ==
  /\ manifest = NoManifest
  /\ calibration = 0
  /\ pairCalibration = [p \in Pair |-> 0]
  /\ summary = [p \in Pair |-> NoSummary]
  /\ damaged = {}
  /\ pc = "new"
  /\ data = Untouched
  /\ protocol = NoManifest.protocol
  /\ order \in Orders
  /\ resumed = FALSE
  /\ measured = 0
  /\ position = 1
  /\ results = [p \in Pair |-> "none"]
  /\ attempts = 0

-----------------------------------------------------------------------------
(* Starting.                                                               *)

Create(c, o) ==
  /\ pc = "new"
  /\ attempts < MaxAttempts
  /\ attempts' = attempts + 1
  /\ protocol' = c
  /\ order' = o
  /\ data' = Untouched
  /\ Save(c, Range(o), data')
  /\ pc' = "calibrate"
  /\ UNCHANGED <<calibration, pairCalibration, summary, damaged, resumed,
                 measured, position, results>>

(* --resume-campaign: refused, with nothing written, unless the protocol   *)
(* and the pairs are those of the manifest.                                *)
Resume(c, o) ==
  /\ pc \in Stopped \ {"new"}
  /\ attempts < MaxAttempts
  /\ attempts' = attempts + 1
  /\ \/ /\ c = manifest.protocol /\ Range(o) = manifest.scope
        /\ protocol' = c
        /\ order' = o
        /\ data' = manifest.pairs
        /\ resumed' = TRUE
        /\ position' = 1
        /\ measured' = 0
        /\ results' = [p \in Pair |-> "none"]
        /\ pc' = "calibrate"
     \/ /\ c # manifest.protocol \/ Range(o) # manifest.scope
        /\ pc' = "refused"
        /\ UNCHANGED memory
  /\ UNCHANGED disk

Calibrate_FaultyAnew ==
  /\ pc = "calibrate"
  /\ UNCHANGED <<disk, data, protocol, order, resumed, position, results, attempts>>
  /\ \/ /\ protocol \in Calibrated
        /\ measured' \in Measurements
        /\ pc' = "save_calibration"
     \/ protocol \notin Calibrated /\ pc' = "next" /\ UNCHANGED measured
     \/ protocol \in Calibrated /\ pc' = "refused" /\ UNCHANGED measured

(* One calibration for every pair; a resumed campaign keeps the saved one. *)
Calibrate ==
  /\ pc = "calibrate"
  /\ UNCHANGED <<disk, data, protocol, order, resumed, position, results, attempts>>
  /\ \/ /\ protocol \in Calibrated /\ resumed /\ calibration # 0
        /\ measured' = calibration
        /\ pc' = "save_calibration"
     \/ /\ protocol \in Calibrated /\ ~(resumed /\ calibration # 0)
        /\ \/ measured' \in Measurements /\ pc' = "save_calibration"
           \/ pc' = "refused" /\ UNCHANGED measured
     \/ protocol \notin Calibrated /\ pc' = "next" /\ UNCHANGED measured

SaveCalibration ==
  /\ pc = "save_calibration"
  /\ calibration' = measured
  /\ pc' = "next"
  /\ UNCHANGED <<manifest, pairCalibration, summary, damaged, memory, attempts>>

-----------------------------------------------------------------------------
(* The loop over the pairs.                                                *)

ReuseCompleted_FaultyTrusts ==
  /\ pc = "next" /\ position <= Len(order)
  /\ data[Current] = "completed"
  /\ results' = [results EXCEPT ![Current] = "scored"]
  /\ position' = position + 1
  /\ UNCHANGED <<disk, pc, data, protocol, order, resumed, measured, attempts>>

(* Campaign.completed and _load_completed_pair.  With several pairs an     *)
(* unusable summary or result fails the pair; with one it ends the process. *)
ReuseCompleted ==
  /\ pc = "next" /\ position <= Len(order)
  /\ data[Current] = "completed"
  /\ \/ /\ Valid(Current) /\ Current \notin damaged
        /\ results' = [results EXCEPT ![Current] = "scored"]
        /\ position' = position + 1
        /\ UNCHANGED pc
     \/ /\ ~Valid(Current) \/ Current \in damaged
        /\ pc' = IF Single THEN "raised" ELSE "failing"
        /\ UNCHANGED <<position, results>>
  /\ UNCHANGED <<disk, data, protocol, order, resumed, measured, attempts>>

BeginPair_FaultyAlways ==
  /\ pc = "next" /\ position <= Len(order)
  /\ UpdatePair(Current, "running")
  /\ pc' = "execute"
  /\ UNCHANGED <<calibration, pairCalibration, summary, damaged, protocol, order,
                 resumed, measured, position, results, attempts>>

BeginPair ==
  /\ pc = "next" /\ position <= Len(order)
  /\ data[Current] # "completed"
  /\ UpdatePair(Current, "running")
  /\ pc' = "execute"
  /\ UNCHANGED <<calibration, pairCalibration, summary, damaged, protocol, order,
                 resumed, measured, position, results, attempts>>

(* _execute_benchmark begins: a pair that was resumed keeps the speed it   *)
(* has measured its results with.                                          *)
CalibratePair ==
  /\ pc = "execute"
  /\ pairCalibration' = [pairCalibration EXCEPT ![Current] =
                            IF resumed /\ @ # 0 THEN @ ELSE measured]
  /\ pc' = "run"
  /\ UNCHANGED <<manifest, calibration, summary, damaged, memory, attempts>>

(* The tasks are done, so every result has been written anew or read and    *)
(* found usable: write_summary truncates the file and writes it.           *)
BeginSummary ==
  /\ pc = "run"
  /\ summary' =
       [summary EXCEPT ![Current] = [NoSummary EXCEPT !.kind = "partial"]]
  /\ damaged' = damaged \ {Current}
  /\ pc' = "summary"
  /\ UNCHANGED <<manifest, calibration, pairCalibration, memory, attempts>>

WriteSummary ==
  /\ pc = "summary"
  /\ summary' = [summary EXCEPT ![Current] =
       [kind |-> "whole", protocol |-> protocol,
        calibration |-> pairCalibration[Current]]]
  /\ pc' = "commit"
  /\ UNCHANGED <<manifest, calibration, pairCalibration, damaged, memory,
                 attempts>>

CompletePair_FaultyEarly ==
  /\ pc \in {"summary", "commit"}
  /\ UpdatePair(Current, "completed")
  /\ results' = [results EXCEPT ![Current] = "scored"]
  /\ position' = position + 1
  /\ pc' = "next"
  /\ UNCHANGED <<calibration, pairCalibration, summary, damaged, protocol, order,
                 resumed, measured, attempts>>

(* update_pair(..., "completed") reads the summary back and validates it. *)
CompletePair ==
  /\ pc = "commit"
  /\ Valid(Current)
  /\ UpdatePair(Current, "completed")
  /\ results' = [results EXCEPT ![Current] = "scored"]
  /\ position' = position + 1
  /\ pc' = "next"
  /\ UNCHANGED <<calibration, pairCalibration, summary, damaged, protocol, order,
                 resumed, measured, attempts>>

(* When the summary cannot be read back, the status has already changed in *)
(* memory, but it is not saved.                                            *)
CompletionFails ==
  /\ pc = "commit"
  /\ data' = [data EXCEPT ![Current] = "completed"]
  /\ pc' = "failing"
  /\ UNCHANGED <<disk, protocol, order, resumed, measured, position, results,
                 attempts>>

(* Anything in the pair's execution raises: a failed task, an unusable     *)
(* result file, a full disk; with one pair Ctrl-C ends here as well.       *)
PairRaises ==
  /\ pc \in {"execute", "run", "summary", "commit"}
  /\ pc' = "failing"
  /\ UNCHANGED <<disk, memory, attempts>>

FailPair_FaultyUnsaved ==
  /\ pc = "failing"
  /\ results' = [results EXCEPT ![Current] = "failed"]
  /\ position' = position + 1
  /\ pc' = IF Single THEN "raised" ELSE "next"
  /\ UNCHANGED <<disk, data, protocol, order, resumed, measured, attempts>>

(* The failure is recorded; several pairs go on with the next one, a       *)
(* single one raises again.                                                *)
FailPair ==
  /\ pc = "failing"
  /\ UpdatePair(Current, "failed")
  /\ results' = [results EXCEPT ![Current] = "failed"]
  /\ position' = position + 1
  /\ pc' = IF Single THEN "raised" ELSE "next"
  /\ UNCHANGED <<calibration, pairCalibration, summary, damaged, protocol, order,
                 resumed, measured, attempts>>

(* The exit code. *)
Return ==
  /\ pc = "next" /\ position > Len(order)
  /\ pc' = IF \E p \in Pair : results[p] = "failed"
            THEN "some_failed" ELSE "ok"
  /\ UNCHANGED <<disk, memory, attempts>>

-----------------------------------------------------------------------------
(* The environment.                                                        *)

(* The process is killed; with several pairs Ctrl-C does the same, because *)
(* the loop catches Exception only.                                        *)
Kill ==
  /\ pc \notin Stopped
  /\ pc' = "killed"
  /\ UNCHANGED <<disk, memory, attempts>>

(* Between two attempts somebody removes a summary, or removes, truncates  *)
(* or exchanges a result.json of a finished pair.                          *)
LoseSummary(p) ==
  /\ pc \in Stopped
  /\ summary[p].kind = "whole"
  /\ summary' = [summary EXCEPT ![p] = [NoSummary EXCEPT !.kind = "lost"]]
  /\ UNCHANGED <<manifest, calibration, pairCalibration, damaged, pc, memory,
                 attempts>>

DamageResults(p) ==
  /\ pc \in Stopped
  /\ summary[p].kind = "whole"
  /\ damaged' = damaged \cup {p}
  /\ UNCHANGED <<manifest, calibration, pairCalibration, summary, pc, memory,
                 attempts>>

Program ==
  \/ Calibrate \/ SaveCalibration
  \/ ReuseCompleted \/ BeginPair \/ CalibratePair
  \/ BeginSummary \/ WriteSummary \/ CompletePair
  \/ CompletionFails \/ PairRaises \/ FailPair \/ Return

Next ==
  \/ \E c \in Protocols, o \in Orders : Create(c, o) \/ Resume(c, o)
  \/ Program
  \/ Kill
  \/ \E p \in Pair : LoseSummary(p) \/ DamageResults(p)

Spec == Init /\ [][Next]_vars

-----------------------------------------------------------------------------
(* Properties.                                                             *)

(* The types; the loop never leaves the list of pairs (cli.py 914-952). *)
TypeOK ==
  /\ manifest \in [exists : BOOLEAN, protocol : Protocols,
                   scope : SUBSET Pair, pairs : [Pair -> Status],
                   status : {"incomplete", "completed"}]
  /\ calibration \in Measurements \cup {0}
  /\ pairCalibration \in [Pair -> Measurements \cup {0}]
  /\ summary \in [Pair -> [kind : {"absent", "partial", "whole", "lost"},
                           protocol : Protocols,
                           calibration : Measurements \cup {0}]]
  /\ damaged \in SUBSET Pair
  /\ pc \in Stopped \cup {"calibrate", "save_calibration", "next", "execute",
                          "run", "summary", "commit", "failing"}
  /\ data \in [Pair -> Status]
  /\ protocol \in Protocols
  /\ order \in Orders
  /\ resumed \in BOOLEAN
  /\ measured \in Measurements \cup {0}
  /\ position \in 1..(Len(order) + 1)
  /\ results \in [Pair -> {"none", "scored", "failed"}]
  /\ attempts \in 0..MaxAttempts

(* Whenever the process dies, a pair the manifest calls completed has a    *)
(* whole summary made under the manifest's protocol, unless somebody       *)
(* removed it: a report may trust the manifest (campaign.py 97-110).       *)
CompletedIsBacked ==
  \A p \in Pair : manifest.pairs[p] = "completed" =>
    \/ summary[p].kind = "lost"
    \/ summary[p].kind = "whole" /\ summary[p].protocol = manifest.protocol

(* "The root and pairs save the single shared calibration" (ADR-0008): over *)
(* any number of resumes, every pair and every summary has that of the root *)
(* (cli.py 905-912, 539-551).                                               *)
OneCalibration ==
  \A p \in Pair :
    /\ pairCalibration[p] # 0 => pairCalibration[p] = calibration
    /\ summary[p].kind = "whole" => summary[p].calibration = calibration

(* A campaign has one protocol from its creation on (campaign.py 73-80).   *)
ProtocolIsFixed ==
  [][manifest.exists => manifest'.protocol = manifest.protocol]_vars

(* A completed pair is never executed again, however often the campaign is *)
(* resumed, as long as its files are there: it only stops being completed  *)
(* when its summary is gone or one of its results cannot be used.          *)
CompletedIsFinal ==
  [][\A p \in Pair :
       manifest.pairs[p] = "completed" /\ summary[p].kind = "whole" /\ p \notin damaged
         => /\ manifest'.pairs[p] = "completed"
            /\ pairCalibration'[p] = pairCalibration[p]
            /\ summary'[p] # summary[p] => summary'[p].kind = "lost"]_vars

(* Exit code 0 is only returned for a campaign that is complete on disk.   *)
ZeroMeansComplete ==
  [][pc # "ok" /\ pc' = "ok" =>
       /\ manifest'.status = "completed"
       /\ \A p \in manifest'.scope : Valid(p)']_vars

(* An attempt that ends by itself has recorded what became of its pairs:   *)
(* none is marked as running, and none that failed as completed, although  *)
(* update_pair sets that status before it validates the summary            *)
(* (campaign.py 97-103, cli.py 935-940, 967-970).                          *)
OutcomesRecorded ==
  pc \in {"raised", "some_failed", "ok"} =>
    \A p \in Pair :
      /\ manifest.pairs[p] # "running"
      /\ results[p] = "failed" => manifest.pairs[p] = "failed"
=============================================================================
