--------------------------- MODULE Campaign_proofs ----------------------------
(***************************************************************************)
(* Proofs about Campaign, for every list of pairs and every number of      *)
(* resumes: the types, the agreement of the manifest with the directories  *)
(* of the pairs, and the single calibration.                               *)
(***************************************************************************)
EXTENDS Campaign, TLAPS

Looping == {"next", "execute", "run", "summary", "commit", "failing"}
AtPair == Looping \ {"next"}
Executing == {"execute", "run", "summary", "commit"}

(* A position of the loop stands for a pair. *)
LEMMA CurrentIsPair ==
  ASSUME TypeOK, position <= Len(order)
  PROVE  Current \in Pair
BY CampaignAssumption DEF TypeOK, Current

(* The loop is at a pair whenever one is executed, fails or is reused. *)
InLoop ==
  /\ pc \in AtPair => position <= Len(order)
  /\ pc = "new" => position = 1

TypeInv == TypeOK /\ InLoop

(* The statuses that update_pair assigns are statuses of the manifest. *)
LEMMA UpdatePairType ==
  ASSUME TypeOK, NEW p \in Pair, NEW s \in Status, UpdatePair(p, s)
  PROVE  /\ data' = [data EXCEPT ![p] = s] /\ data' \in [Pair -> Status]
         /\ manifest'.exists = TRUE
         /\ manifest'.protocol = protocol /\ manifest'.pairs = data'
         /\ manifest'.scope = Range(order)
         /\ manifest'.status =
              IF \A q \in Range(order) : data'[q] = "completed"
              THEN "completed" ELSE "incomplete"
         /\ manifest' \in [exists : BOOLEAN, protocol : Protocols,
                           scope : SUBSET Pair, pairs : [Pair -> Status],
                           status : {"incomplete", "completed"}]
<1>1. data' = [data EXCEPT ![p] = s] /\ data' \in [Pair -> Status]
  BY DEF TypeOK, UpdatePair
<1>2. Range(order) \subseteq Pair
  BY CampaignAssumption DEF TypeOK, Range
<1> QED
  BY <1>1, <1>2 DEF TypeOK, UpdatePair, Save

(* The states before the first process and the statuses are well typed. *)
LEMMA TypeInit == Init => TypeInv
<1> SUFFICES ASSUME Init PROVE TypeInv
  OBVIOUS
<1>1. (CHOOSE c \in Protocols : TRUE) \in Protocols
  BY CampaignAssumption
<1>2. NoSummary \in [kind : {"absent", "partial", "whole", "lost"},
                    protocol : Protocols, calibration : Measurements \cup {0}]
  BY <1>1 DEF NoSummary
<1>3. /\ NoManifest \in [exists : BOOLEAN, protocol : Protocols,
                         scope : SUBSET Pair, pairs : [Pair -> Status],
                         status : {"incomplete", "completed"}]
      /\ NoManifest.protocol \in Protocols
      /\ Untouched \in [Pair -> Status]
  BY <1>1 DEF NoManifest, Untouched, Status
<1>4. position \in 1..(Len(order) + 1) /\ attempts \in 0..MaxAttempts
  BY CampaignAssumption DEF Init
<1>5. TypeOK
  BY <1>2, <1>3, <1>4 DEF Init, TypeOK, Stopped
<1> QED
  BY <1>5 DEF Init, TypeInv, InLoop, AtPair, Looping

(* Every handler keeps the types, and the loop inside the list of pairs. *)
LEMMA TypeStep == TypeInv /\ [Next]_vars => TypeInv'
<1> SUFFICES ASSUME TypeInv, [Next]_vars PROVE TypeInv'
  OBVIOUS
<1> USE DEF TypeInv
<1>len. Len(order) \in Nat /\ position \in Nat /\ order \in Orders
  BY CampaignAssumption DEF TypeOK
<1>0. position <= Len(order) => Current \in Pair
  BY CurrentIsPair
<1>1. ASSUME NEW c \in Protocols, NEW o \in Orders, Create(c, o) PROVE TypeInv'
  <2>0. /\ Range(o) \subseteq Pair
        /\ position' = 1 /\ position' \in 1..(Len(order') + 1)
    BY <1>1, CampaignAssumption DEF Create, InLoop, Range
  <2>1. manifest' \in [exists : BOOLEAN, protocol : Protocols,
                      scope : SUBSET Pair, pairs : [Pair -> Status],
                      status : {"incomplete", "completed"}]
    BY <1>1, <2>0 DEF Create, Save, Untouched, Status
  <2>2. data' \in [Pair -> Status]
    BY <1>1 DEF Create, Untouched, Status
  <2>3. attempts' \in 0..MaxAttempts
    BY <1>1, CampaignAssumption DEF Create, TypeOK
  <2> QED
    BY <1>1, <2>0, <2>1, <2>2, <2>3 DEF Create, TypeOK, InLoop, AtPair, Looping
<1>2. ASSUME NEW c \in Protocols, NEW o \in Orders, Resume(c, o) PROVE TypeInv'
  <2>1. attempts' \in 0..MaxAttempts
    BY <1>2, CampaignAssumption DEF Resume, TypeOK
  <2>2. CASE c = manifest.protocol /\ Range(o) = manifest.scope
    <3>1. 1 \in 1..(Len(o) + 1) /\ manifest.pairs \in [Pair -> Status]
      BY CampaignAssumption DEF TypeOK
    <3>2. results' \in [Pair -> {"none", "scored", "failed"}]
      BY <1>2, <2>2 DEF Resume
    <3> QED
      BY <1>2, <2>1, <2>2, <3>1, <3>2
      DEF Resume, TypeOK, InLoop, AtPair, Looping, disk
  <2>3. CASE c # manifest.protocol \/ Range(o) # manifest.scope
    BY <1>2, <2>1, <2>3
    DEF Resume, TypeOK, InLoop, AtPair, Looping, disk, memory, Stopped
  <2> QED
    BY <2>2, <2>3
<1>3. CASE Calibrate
  <2>1. measured' \in Measurements \cup {0}
    BY <1>3 DEF Calibrate, TypeOK
  <2>2. pc' \in {"save_calibration", "refused", "next"}
    BY <1>3 DEF Calibrate
  <2> QED
    BY <1>3, <2>1, <2>2
    DEF Calibrate, TypeOK, InLoop, AtPair, Looping, disk, Stopped
<1>4. CASE SaveCalibration
  BY <1>4 DEF SaveCalibration, TypeOK, InLoop, AtPair, Looping, memory
<1>5. CASE ReuseCompleted
  <2>1. /\ results' \in [Pair -> {"none", "scored", "failed"}]
        /\ position' \in 1..(Len(order) + 1)
    BY <1>5, <1>0, <1>len DEF ReuseCompleted, TypeOK
  <2>2. pc' \in {"next", "raised", "failing"} /\ (pc' = "failing" => position' = position)
    BY <1>5 DEF ReuseCompleted
  <2>3. UNCHANGED <<disk, data, protocol, order, resumed, measured, attempts>>
        /\ position <= Len(order)
    BY <1>5 DEF ReuseCompleted
  <2> QED
    BY <2>1, <2>2, <2>3 DEF TypeOK, InLoop, AtPair, Looping, disk, Stopped
<1>6. CASE BeginPair
  <2>1. "running" \in Status /\ Current \in Pair
    BY <1>6, <1>0 DEF BeginPair, Status
  <2>2. data' \in [Pair -> Status]
        /\ manifest' \in [exists : BOOLEAN, protocol : Protocols,
                          scope : SUBSET Pair, pairs : [Pair -> Status],
                          status : {"incomplete", "completed"}]
    BY <1>6, <2>1, UpdatePairType DEF BeginPair
  <2> QED
    BY <1>6, <2>2 DEF BeginPair, TypeOK, InLoop, AtPair, Looping
<1>7. CASE CalibratePair
  <2>1. pairCalibration' \in [Pair -> Measurements \cup {0}]
    BY <1>7 DEF CalibratePair, TypeOK
  <2> QED
    BY <1>7, <2>1 DEF CalibratePair, TypeOK, InLoop, AtPair, Looping, memory
<1>8. CASE BeginSummary \/ WriteSummary
  <2>1. NoSummary \in [kind : {"absent", "partial", "whole", "lost"},
                      protocol : Protocols, calibration : Measurements \cup {0}]
    BY CampaignAssumption DEF NoSummary
  <2>2. Current \in Pair
    BY <1>8, <1>0 DEF BeginSummary, WriteSummary, InLoop, AtPair, Looping
  <2>3. summary' \in [Pair -> [kind : {"absent", "partial", "whole", "lost"},
                              protocol : Protocols,
                              calibration : Measurements \cup {0}]]
    BY <1>8, <2>1, <2>2 DEF BeginSummary, WriteSummary, TypeOK
  <2> QED
    BY <1>8, <2>3
    DEF BeginSummary, WriteSummary, TypeOK, InLoop, AtPair, Looping, memory
<1>9. CASE CompletePair
  <2>1. "completed" \in Status /\ Current \in Pair /\ position <= Len(order)
    BY <1>9, <1>0 DEF CompletePair, Status, InLoop, AtPair, Looping
  <2>2. data' \in [Pair -> Status]
        /\ manifest' \in [exists : BOOLEAN, protocol : Protocols,
                          scope : SUBSET Pair, pairs : [Pair -> Status],
                          status : {"incomplete", "completed"}]
    BY <1>9, <2>1, UpdatePairType DEF CompletePair
  <2>3. /\ results' \in [Pair -> {"none", "scored", "failed"}]
        /\ position' \in 1..(Len(order) + 1)
    BY <1>9, <2>1, <1>len DEF CompletePair, TypeOK
  <2> QED
    BY <1>9, <2>2, <2>3 DEF CompletePair, TypeOK, InLoop, AtPair, Looping
<1>10. CASE PairRaises
  BY <1>10 DEF PairRaises, TypeOK, InLoop, AtPair, Looping, disk, memory
<1>11. CASE FailPair
  <2>1. "failed" \in Status /\ Current \in Pair /\ position <= Len(order)
    BY <1>11, <1>0 DEF FailPair, Status, InLoop, AtPair, Looping
  <2>2. data' \in [Pair -> Status]
        /\ manifest' \in [exists : BOOLEAN, protocol : Protocols,
                          scope : SUBSET Pair, pairs : [Pair -> Status],
                          status : {"incomplete", "completed"}]
    BY <1>11, <2>1, UpdatePairType DEF FailPair
  <2>3. /\ results' \in [Pair -> {"none", "scored", "failed"}]
        /\ position' \in 1..(Len(order) + 1)
        /\ pc' \in {"raised", "next"}
    BY <1>11, <2>1, <1>len DEF FailPair, TypeOK
  <2> QED
    BY <1>11, <2>2, <2>3 DEF FailPair, TypeOK, InLoop, AtPair, Looping, Stopped
<1>12. CASE Return
  <2>1. pc' \in {"some_failed", "ok"}
    BY <1>12 DEF Return
  <2> QED
    BY <1>12, <2>1
    DEF Return, TypeOK, InLoop, AtPair, Looping, disk, memory, Stopped
<1>13. CASE Kill
  BY <1>13 DEF Kill, TypeOK, InLoop, AtPair, Looping, disk, memory, Stopped
<1>14. ASSUME NEW p \in Pair, LoseSummary(p) PROVE TypeInv'
  <2>1. NoSummary \in [kind : {"absent", "partial", "whole", "lost"},
                      protocol : Protocols, calibration : Measurements \cup {0}]
    BY CampaignAssumption DEF NoSummary
  <2>2. summary' \in [Pair -> [kind : {"absent", "partial", "whole", "lost"},
                              protocol : Protocols,
                              calibration : Measurements \cup {0}]]
    BY <1>14, <2>1 DEF LoseSummary, TypeOK
  <2> QED
    BY <1>14, <2>2 DEF LoseSummary, TypeOK, InLoop, memory
<1>15. ASSUME NEW p \in Pair, DamageResults(p) PROVE TypeInv'
  BY <1>15 DEF DamageResults, TypeOK, InLoop, memory
<1>16. CASE CompletionFails
  <2>1. Current \in Pair /\ "completed" \in Status
    BY <1>16, <1>0 DEF CompletionFails, InLoop, AtPair, Looping, Status
  <2>2. data' \in [Pair -> Status]
    BY <1>16, <2>1 DEF CompletionFails, TypeOK
  <2> QED
    BY <1>16, <2>2 DEF CompletionFails, TypeOK, InLoop, AtPair, Looping, disk
<1>17. CASE UNCHANGED vars
  BY <1>17 DEF vars, disk, memory, TypeOK, InLoop
<1> QED
  BY <1>1, <1>2, <1>3, <1>4, <1>5, <1>6, <1>7, <1>8, <1>9, <1>10, <1>11,
     <1>12, <1>13, <1>14, <1>15, <1>16, <1>17
  DEF Next, Program

(* Types and loop position hold in every reachable state. *)
LEMMA TypeInvCorrect == Spec => []TypeInv
  BY TypeInit, TypeStep, PTL DEF Spec

(* Every reachable state has the types of TypeOK, for any list of pairs    *)
(* and any number of attempts (cli.py 914-952).                            *)
THEOREM TypeCorrect == Spec => []TypeOK
  BY TypeInvCorrect, PTL DEF TypeInv

-----------------------------------------------------------------------------
(* The manifest against memory and the directories of the pairs.           *)

(* The process works on what the manifest says, but for the status of a    *)
(* pair that is failing; what a dead process remembered does not matter.   *)
InMemory ==
  /\ pc \notin {"failing", "killed", "refused"} => data = manifest.pairs
  /\ pc = "failing" =>
       \A p \in Pair \ {Current} : data[p] = manifest.pairs[p]
  /\ protocol = manifest.protocol
  /\ pc # "new" => Range(order) = manifest.scope
  /\ pc # "new" /\ (\A p \in manifest.scope : manifest.pairs[p] = "completed")
       => manifest.status = "completed"
  /\ \A p \in Pair \ manifest.scope : manifest.pairs[p] = "pending"

(* A pair that is executed is marked as running; one that fails and was    *)
(* completed has lost its summary or a result.                             *)
MarkedRunning ==
  /\ pc \in Executing => manifest.pairs[Current] = "running"
  /\ pc = "failing" /\ manifest.pairs[Current] = "completed" =>
       summary[Current].kind # "whole" \/ Current \in damaged
  /\ pc = "new" => ~manifest.exists /\ \A p \in Pair : data[p] = "pending"
  /\ pc = "commit" => Valid(Current)

Agreement == TypeInv /\ InMemory /\ MarkedRunning /\ CompletedIsBacked

(* Before the first process nothing is completed. *)
LEMMA AgreementInit == Init => Agreement
<1> SUFFICES ASSUME Init PROVE Agreement
  OBVIOUS
<1>1. TypeInv
  BY TypeInit
<1>3. \A p \in Pair : data[p] = "pending"
  BY DEF Init, Untouched
<1>2. InMemory
  BY <1>3 DEF Init, InMemory, NoManifest
<1>4. MarkedRunning
  BY <1>3 DEF Init, MarkedRunning, Executing, NoManifest
<1>5. CompletedIsBacked
  BY <1>2, <1>3 DEF Init, CompletedIsBacked, InMemory
<1> QED
  BY <1>1, <1>2, <1>4, <1>5 DEF Agreement

(* A completed pair stays backed: only the pair being executed has its     *)
(* summary rewritten, and it is completed only after that.                 *)
LEMMA AgreementStep == Agreement /\ [Next]_vars => Agreement'
<1> SUFFICES ASSUME Agreement, [Next]_vars PROVE Agreement'
  OBVIOUS
<1> USE DEF Agreement
<1>t. TypeInv'
  BY TypeStep
<1>0. /\ position <= Len(order) => Current \in Pair
      /\ pc \in AtPair => position <= Len(order)
      /\ TypeOK
      /\ Range(order) \subseteq Pair
      /\ position \in 1..(Len(order) + 1)
  BY CurrentIsPair, CampaignAssumption DEF TypeInv, InLoop, TypeOK, Range
<1>r. pc \in AtPair => Current \in Range(order)
  BY <1>0, CampaignAssumption DEF TypeOK, Current, Range
<1>d. data \in [Pair -> Status]
  BY <1>0 DEF TypeOK
<1> SUFFICES InMemory' /\ MarkedRunning' /\ CompletedIsBacked'
  BY <1>t
<1>1. ASSUME NEW c \in Protocols, NEW o \in Orders, Create(c, o)
      PROVE  InMemory' /\ MarkedRunning' /\ CompletedIsBacked'
  <2>1. /\ data' = Untouched /\ pc' = "calibrate" /\ protocol' = c
        /\ order' = o
        /\ manifest'.pairs = data' /\ manifest'.protocol = protocol'
        /\ manifest'.scope = Range(o)
        /\ manifest'.status =
             IF \A p \in Range(o) : data'[p] = "completed"
             THEN "completed" ELSE "incomplete"
    BY <1>1 DEF Create, Save
  <2>2. \A p \in Pair : data'[p] = "pending"
    BY <2>1 DEF Untouched
  <2> QED
    BY <2>1, <2>2 DEF InMemory, MarkedRunning, CompletedIsBacked, Executing
<1>2. ASSUME NEW c \in Protocols, NEW o \in Orders, Resume(c, o)
      PROVE  InMemory' /\ MarkedRunning' /\ CompletedIsBacked'
  <2>1. /\ UNCHANGED disk /\ pc' \in {"calibrate", "refused"} /\ pc # "new"
        /\ \/ /\ data' = manifest.pairs /\ protocol' = manifest.protocol
              /\ Range(order') = manifest.scope
           \/ pc' = "refused" /\ UNCHANGED <<data, protocol, order>>
    BY <1>2 DEF Resume, memory
  <2> QED
    BY <2>1 DEF InMemory, MarkedRunning, CompletedIsBacked, Executing, disk
<1>3. CASE Calibrate \/ SaveCalibration \/ Return \/ Kill
  <2>1. /\ UNCHANGED <<manifest, summary, data, protocol, order>>
        /\ pc' \in {"save_calibration", "refused", "next", "some_failed",
                    "ok", "killed"}
        /\ pc # "new"
        /\ pc' = "killed" \/ data = manifest.pairs
    BY <1>3
    DEF Calibrate, SaveCalibration, Return, Kill, disk, memory, Stopped, InMemory
  <2> QED
    BY <2>1 DEF InMemory, MarkedRunning, CompletedIsBacked, Executing
<1>4. CASE ReuseCompleted
  <2>1. /\ UNCHANGED <<manifest, summary, damaged, data, protocol, order>>
        /\ pc' \in {"next", "raised", "failing"}
        /\ pc' = "failing" =>
             (~Valid(Current) \/ Current \in damaged) /\ position' = position
        /\ data[Current] = "completed" /\ position <= Len(order)
        /\ data = manifest.pairs /\ pc # "new"
    BY <1>4 DEF ReuseCompleted, disk, InMemory
  <2>2. pc' = "failing" =>
          /\ summary[Current].kind # "whole" \/ Current \in damaged
          /\ Current' = Current
    BY <2>1, <1>0 DEF Valid, CompletedIsBacked, InMemory, Current
  <2> QED
    BY <2>1, <2>2 DEF InMemory, MarkedRunning, CompletedIsBacked, Executing
<1>5. CASE BeginPair
  <2>1. Current \in Pair /\ Current \in Range(order) /\ pc # "new" /\ "running" \in Status
    BY <1>5, <1>0, CampaignAssumption DEF BeginPair, Status, TypeOK, Current, Range
  <2>2. /\ data' = [data EXCEPT ![Current] = "running"]
        /\ data \in [Pair -> Status]
        /\ manifest'.pairs = data' /\ manifest'.protocol = protocol
        /\ manifest'.scope = Range(order)
        /\ manifest'.status =
             IF \A p \in Range(order) : data'[p] = "completed"
             THEN "completed" ELSE "incomplete"
    BY <1>5, <1>0, <1>d, <2>1, UpdatePairType DEF BeginPair
  <2>3. UNCHANGED <<summary, protocol, order, position>> /\ pc' = "execute"
    BY <1>5 DEF BeginPair
  <2>4. /\ \A p \in Pair \ {Current} : manifest'.pairs[p] = manifest.pairs[p]
        /\ manifest'.pairs[Current] = "running"
        /\ Range(order) = manifest.scope /\ pc \notin {"new", "killed", "refused"}
    BY <1>5, <2>1, <2>2 DEF BeginPair, InMemory, Executing
  <2>5. InMemory'
    BY <2>1, <2>2, <2>3, <2>4 DEF InMemory
  <2>6. MarkedRunning'
    BY <2>2, <2>3, <2>4 DEF MarkedRunning, Executing, Current
  <2>7. CompletedIsBacked'
    BY <2>1, <2>2, <2>3, <2>4 DEF CompletedIsBacked, InMemory, Valid
  <2> QED
    BY <2>5, <2>6, <2>7
<1>6. CASE CalibratePair \/ PairRaises
  <2>1. /\ UNCHANGED <<manifest, summary, data, protocol, order, position>>
        /\ pc \in Executing /\ pc' \in {"run", "failing"}
        /\ data = manifest.pairs
    BY <1>6 DEF CalibratePair, PairRaises, disk, memory, Executing, InMemory
  <2> QED
    BY <2>1
    DEF InMemory, MarkedRunning, CompletedIsBacked, Executing, Current
<1>7. CASE BeginSummary \/ WriteSummary
  <2>1. pc \in Executing /\ Current \in Pair
    BY <1>7, <1>0 DEF BeginSummary, WriteSummary, Executing, AtPair, Looping
  <2>2. /\ UNCHANGED <<manifest, data, protocol, order, position>>
        /\ pc' \in {"summary", "commit"}
        /\ \A p \in Pair \ {Current} : summary'[p] = summary[p]
    BY <1>7, <2>1, <1>0 DEF BeginSummary, WriteSummary, memory, TypeOK
  <2>3. pc' = "commit" => Valid(Current)'
    BY <1>7, <2>1, <1>0
    DEF BeginSummary, WriteSummary, memory, TypeOK, Valid, Current
  <2>4. manifest.pairs[Current] = "running" /\ data = manifest.pairs
    BY <2>1 DEF MarkedRunning, InMemory, Executing
  <2> QED
    BY <2>1, <2>2, <2>3, <2>4
    DEF InMemory, MarkedRunning, CompletedIsBacked, Executing, Current
<1>8. CASE CompletePair
  <2>1. Current \in Pair /\ Current \in Range(order) /\ pc # "new" /\ "completed" \in Status
    BY <1>8, <1>0, <1>r DEF CompletePair, Status, AtPair, Looping
  <2>2. /\ data' = [data EXCEPT ![Current] = "completed"]
        /\ data \in [Pair -> Status]
        /\ manifest'.pairs = data' /\ manifest'.protocol = protocol
        /\ manifest'.scope = Range(order)
        /\ manifest'.status =
             IF \A p \in Range(order) : data'[p] = "completed"
             THEN "completed" ELSE "incomplete"
    BY <1>8, <1>0, <1>d, <2>1, UpdatePairType DEF CompletePair
  <2>3. UNCHANGED <<summary, protocol, order>> /\ pc' = "next" /\ Valid(Current)
    BY <1>8 DEF CompletePair
  <2>4. /\ \A p \in Pair \ {Current} : manifest'.pairs[p] = manifest.pairs[p]
        /\ manifest'.pairs[Current] = "completed"
        /\ Range(order) = manifest.scope /\ pc \notin {"new", "killed", "refused"}
    BY <1>8, <2>1, <2>2 DEF CompletePair, InMemory, Executing
  <2>5. InMemory'
    BY <2>1, <2>2, <2>3, <2>4 DEF InMemory
  <2>6. MarkedRunning'
    BY <2>2, <2>3, <2>4 DEF MarkedRunning, Executing
  <2>7. CompletedIsBacked'
    BY <2>1, <2>2, <2>3, <2>4 DEF CompletedIsBacked, InMemory, Valid
  <2> QED
    BY <2>5, <2>6, <2>7
<1>9. CASE FailPair
  <2>1. Current \in Pair /\ Current \in Range(order) /\ pc # "new" /\ "failed" \in Status
    BY <1>9, <1>0, <1>r DEF FailPair, Status, AtPair, Looping
  <2>2. /\ data' = [data EXCEPT ![Current] = "failed"]
        /\ data \in [Pair -> Status]
        /\ manifest'.pairs = data' /\ manifest'.protocol = protocol
        /\ manifest'.scope = Range(order)
        /\ manifest'.status =
             IF \A p \in Range(order) : data'[p] = "completed"
             THEN "completed" ELSE "incomplete"
    BY <1>9, <1>0, <1>d, <2>1, UpdatePairType DEF FailPair
  <2>3. UNCHANGED <<summary, protocol, order>> /\ pc' \in {"next", "raised"}
    BY <1>9 DEF FailPair
  <2>4. /\ \A p \in Pair \ {Current} : manifest'.pairs[p] = manifest.pairs[p]
        /\ manifest'.pairs[Current] = "failed"
        /\ Range(order) = manifest.scope /\ pc \notin {"new", "killed", "refused"}
    BY <1>9, <2>1, <2>2 DEF FailPair, InMemory, Executing
  <2>5. InMemory'
    BY <2>1, <2>2, <2>3, <2>4 DEF InMemory
  <2>6. MarkedRunning'
    BY <2>2, <2>3, <2>4 DEF MarkedRunning, Executing
  <2>7. CompletedIsBacked'
    BY <2>1, <2>2, <2>3, <2>4 DEF CompletedIsBacked, InMemory, Valid
  <2> QED
    BY <2>5, <2>6, <2>7
<1>10. ASSUME NEW p \in Pair, LoseSummary(p)
       PROVE  InMemory' /\ MarkedRunning' /\ CompletedIsBacked'
  <2>1. /\ UNCHANGED <<manifest, data, protocol, order, pc>> /\ pc \in Stopped
        /\ \A q \in Pair \ {p} : summary'[q] = summary[q]
        /\ summary'[p].kind = "lost"
    BY <1>10, <1>0 DEF LoseSummary, memory, TypeOK, NoSummary
  <2> QED
    BY <2>1
    DEF InMemory, MarkedRunning, CompletedIsBacked, Executing, Stopped
<1>11. ASSUME NEW p \in Pair, DamageResults(p)
       PROVE  InMemory' /\ MarkedRunning' /\ CompletedIsBacked'
  <2>1. /\ UNCHANGED <<manifest, summary, data, protocol, order, pc>>
        /\ pc \in Stopped
    BY <1>11 DEF DamageResults, memory
  <2> QED
    BY <2>1
    DEF InMemory, MarkedRunning, CompletedIsBacked, Executing, Stopped
<1>12. CASE CompletionFails
  <2>1. /\ UNCHANGED <<manifest, summary, protocol, order, position>>
        /\ pc = "commit" /\ pc' = "failing" /\ Current' = Current
        /\ data' = [data EXCEPT ![Current] = "completed"]
        /\ data = manifest.pairs /\ manifest.pairs[Current] = "running"
    BY <1>12
    DEF CompletionFails, disk, InMemory, MarkedRunning, Executing, Current
  <2> QED
    BY <2>1, <1>d DEF InMemory, MarkedRunning, CompletedIsBacked, Executing
<1>13. CASE UNCHANGED vars
  BY <1>13 DEF vars, disk, memory, InMemory, MarkedRunning,
               CompletedIsBacked, Current, Valid
<1> QED
  BY <1>1, <1>2, <1>3, <1>4, <1>5, <1>6, <1>7, <1>8, <1>9, <1>10, <1>11,
     <1>12, <1>13
  DEF Next, Program

(* The agreement is an invariant. *)
LEMMA AgreementCorrect == Spec => []Agreement
  BY AgreementInit, AgreementStep, PTL DEF Spec

(* At every moment, whatever was killed before, a pair the manifest calls  *)
(* completed has a whole summary of this campaign or lost it to its user.  *)
THEOREM ManifestIsBacked == Spec => []CompletedIsBacked
  BY AgreementCorrect, PTL DEF Agreement

-----------------------------------------------------------------------------
(* The calibration.                                                        *)

(* Nothing is calibrated, executed or summarised before the measurement of *)
(* the campaign is saved; from then on the process works with the saved    *)
(* one.  Without calibration there is no measurement at all.               *)
Measured ==
  /\ pc = "new" => calibration = 0 /\ ~resumed
  /\ pc \in {"new", "calibrate"} => measured = 0
  /\ pc = "calibrate" /\ ~resumed => calibration = 0
  /\ pc = "save_calibration" =>
       measured # 0 /\ (calibration # 0 => measured = calibration)
  /\ pc \in Looping =>
       measured = calibration /\ (protocol \in Calibrated => calibration # 0)
  /\ pc \in {"run", "summary", "commit"} =>
       pairCalibration[Current] = calibration
  /\ pc = "save_calibration" \/ calibration # 0 => protocol \in Calibrated
  /\ calibration = 0 => \A p \in Pair :
       /\ pairCalibration[p] = 0
       /\ summary[p].kind = "whole" =>
            /\ pc # "new" /\ protocol \notin Calibrated
            /\ summary[p].calibration = 0

CalibrationInv == Measured /\ OneCalibration

(* At first there is no calibration at all. *)
LEMMA CalibrationInit == Init => CalibrationInv
  BY DEF Init, CalibrationInv, Measured, OneCalibration, Looping, NoSummary

(* A new measurement is only taken while there is none, and a pair takes   *)
(* over that of the process or keeps its own, which is the same.           *)
LEMMA CalibrationStep ==
  Agreement /\ CalibrationInv /\ [Next]_vars => CalibrationInv'
<1> SUFFICES ASSUME Agreement, CalibrationInv, [Next]_vars
             PROVE  Measured' /\ OneCalibration'
  BY DEF CalibrationInv
<1> USE DEF CalibrationInv
<1>0. /\ position <= Len(order) => Current \in Pair
      /\ pc \in AtPair => position <= Len(order)
      /\ pairCalibration \in [Pair -> Measurements \cup {0}]
      /\ summary \in [Pair -> [kind : {"absent", "partial", "whole", "lost"},
                               protocol : Protocols,
                               calibration : Measurements \cup {0}]]
      /\ 0 \notin Measurements
      /\ protocol = manifest.protocol
  BY CurrentIsPair, CampaignAssumption
  DEF Agreement, InMemory, TypeInv, InLoop, TypeOK
<1>1. ASSUME NEW c \in Protocols, NEW o \in Orders, Create(c, o) \/ Resume(c, o)
      PROVE  Measured' /\ OneCalibration'
  <2>1. /\ UNCHANGED <<calibration, pairCalibration, summary>>
        /\ pc' \in {"calibrate", "refused"}
        /\ pc = "new" => ~resumed' /\ pc' = "calibrate"
        /\ pc' = "calibrate" /\ pc # "new" => resumed'
        /\ pc' = "calibrate" => measured' = 0
        /\ pc # "new" => protocol' = protocol
    BY <1>1, <1>0 DEF Create, Resume, disk, memory, Stopped, Measured
  <2> QED
    BY <2>1 DEF Measured, OneCalibration, Looping
<1>2. CASE Calibrate
  <2>1. /\ UNCHANGED <<calibration, pairCalibration, summary, resumed, protocol>>
        /\ pc = "calibrate"
        /\ \/ pc' = "refused"
           \/ /\ pc' = "save_calibration" /\ protocol \in Calibrated
              /\ \/ calibration # 0 /\ measured' = calibration
                 \/ calibration = 0 /\ measured' \in Measurements
           \/ /\ pc' = "next" /\ protocol \notin Calibrated
              /\ measured' = 0
    BY <1>2 DEF Calibrate, disk, Measured
  <2> QED
    BY <2>1, <1>0 DEF Measured, OneCalibration, Looping
<1>3. CASE SaveCalibration
  <2>1. /\ calibration' = measured /\ measured' = measured /\ pc' = "next"
        /\ measured # 0 /\ (calibration # 0 => measured = calibration)
        /\ protocol \in Calibrated /\ pc = "save_calibration"
        /\ UNCHANGED <<pairCalibration, summary, resumed, protocol>>
    BY <1>3 DEF SaveCalibration, memory, Measured
  <2> QED
    BY <2>1 DEF Measured, OneCalibration, Looping
<1>4. CASE ReuseCompleted \/ BeginPair \/ CompletePair \/ PairRaises
           \/ CompletionFails \/ FailPair \/ Return \/ Kill
  <2>1. /\ UNCHANGED <<calibration, pairCalibration, summary, measured, resumed,
                       protocol>>
        /\ pc' \in {"next", "raised", "failing", "execute", "some_failed",
                    "ok", "killed"}
        /\ pc' \in Looping => pc \in Looping
        /\ pc # "new"
    BY <1>4
    DEF ReuseCompleted, BeginPair, CompletePair, PairRaises, CompletionFails,
        FailPair, Return, Kill, disk, memory, Looping, Stopped
  <2> QED
    BY <2>1 DEF Measured, OneCalibration, Looping
<1>5. CASE CalibratePair
  <2>1. /\ Current \in Pair /\ measured = calibration /\ pc = "execute"
        /\ protocol \in Calibrated => calibration # 0
    BY <1>5, <1>0 DEF CalibratePair, Measured, AtPair, Looping
  <2>2. /\ UNCHANGED <<calibration, summary, measured, resumed, position,
                       protocol, order>>
        /\ pc' = "run"
        /\ pairCalibration' = [pairCalibration EXCEPT ![Current] = calibration]
    BY <1>5, <2>1, <1>0 DEF CalibratePair, memory, OneCalibration
  <2> QED
    BY <2>1, <2>2, <1>0 DEF Measured, OneCalibration, Looping, Current
<1>6. CASE BeginSummary \/ WriteSummary
  <2>1. /\ Current \in Pair /\ measured = calibration
        /\ protocol \in Calibrated => calibration # 0
        /\ pairCalibration[Current] = calibration
        /\ pc \in {"run", "summary"}
    BY <1>6, <1>0
    DEF BeginSummary, WriteSummary, Measured, AtPair, Looping
  <2>2. /\ UNCHANGED <<calibration, pairCalibration, measured, resumed, position,
                       protocol, order>>
        /\ pc' \in {"summary", "commit"}
        /\ \A p \in Pair \ {Current} : summary'[p] = summary[p]
        /\ summary'[Current].kind = "whole" =>
             summary'[Current].calibration = calibration
    BY <1>6, <2>1, <1>0 DEF BeginSummary, WriteSummary, memory, NoSummary
  <2> QED
    BY <2>1, <2>2, <1>0 DEF Measured, OneCalibration, Looping, Current
<1>7. ASSUME NEW p \in Pair, LoseSummary(p)
      PROVE  Measured' /\ OneCalibration'
  <2>1. /\ UNCHANGED <<calibration, pairCalibration, measured, resumed, pc,
                       protocol>>
        /\ pc \in Stopped
        /\ \A q \in Pair \ {p} : summary'[q] = summary[q]
        /\ summary'[p].kind = "lost"
    BY <1>7, <1>0 DEF LoseSummary, memory, NoSummary
  <2> QED
    BY <2>1 DEF Measured, OneCalibration, Looping, Stopped
<1>8. ASSUME NEW p \in Pair, DamageResults(p)
      PROVE  Measured' /\ OneCalibration'
  BY <1>8 DEF DamageResults, memory, Measured, OneCalibration, Looping, Current
<1>9. CASE UNCHANGED vars
  BY <1>9 DEF vars, disk, memory, Measured, OneCalibration, Current
<1> QED
  BY <1>1, <1>2, <1>3, <1>4, <1>5, <1>6, <1>7, <1>8, <1>9 DEF Next, Program

(* Over any number of kills and resumes the root, the pairs and their      *)
(* summaries share one calibration (cli.py 905-912, 539-551).              *)
THEOREM CalibrationIsShared == Spec => []OneCalibration
<1>1. CalibrationInv => OneCalibration
  BY DEF CalibrationInv
<1> QED
  BY <1>1, CalibrationInit, CalibrationStep, AgreementCorrect, PTL DEF Spec

-----------------------------------------------------------------------------
(* What no step does.                                                      *)

(* A campaign keeps the protocol it was created with: it is only created   *)
(* once, and every process that saves it works under the same protocol     *)
(* (campaign.py 73-80).                                                    *)
THEOREM ProtocolKept == Spec => ProtocolIsFixed
<1>1. Agreement /\ Next /\ manifest.exists
        => manifest'.protocol = manifest.protocol
  <2> SUFFICES ASSUME Agreement, Next, manifest.exists
               PROVE  manifest'.protocol = manifest.protocol
    OBVIOUS
  <2>1. protocol = manifest.protocol /\ pc # "new"
    BY DEF Agreement, InMemory, MarkedRunning
  <2>2. CASE BeginPair \/ CompletePair \/ FailPair
    BY <2>1, <2>2 DEF BeginPair, CompletePair, FailPair, UpdatePair, Save
  <2>3. CASE ~(BeginPair \/ CompletePair \/ FailPair)
    <3>1. manifest' = manifest
      BY <2>1, <2>3
      DEF Next, Program, Create, Resume, Calibrate, SaveCalibration,
          ReuseCompleted, CalibratePair, BeginSummary, WriteSummary,
          CompletionFails, PairRaises, Return, Kill, LoseSummary,
          DamageResults, disk
    <3> QED
      BY <3>1
  <2> QED
    BY <2>2, <2>3
<1> QED
  BY <1>1, AgreementCorrect, PTL DEF Spec, ProtocolIsFixed

(* A completed pair is final: the loop executes only pairs that are not    *)
(* completed, and fails a completed one only when its summary is gone or   *)
(* one of its results cannot be used (cli.py 922-924, 974-987).            *)
THEOREM CompletedStays == Spec => CompletedIsFinal
<1> DEFINE Final(p) ==
      manifest.pairs[p] = "completed" /\ summary[p].kind = "whole" /\ p \notin damaged
        => /\ manifest'.pairs[p] = "completed"
           /\ pairCalibration'[p] = pairCalibration[p]
           /\ summary'[p] # summary[p] => summary'[p].kind = "lost"
<1>1. Agreement /\ Next => \A p \in Pair : Final(p)
  <2> SUFFICES ASSUME Agreement, Next, NEW p \in Pair,
                      manifest.pairs[p] = "completed",
                      summary[p].kind = "whole", p \notin damaged
               PROVE  /\ manifest'.pairs[p] = "completed"
                      /\ pairCalibration'[p] = pairCalibration[p]
                      /\ summary'[p] # summary[p] => summary'[p].kind = "lost"
    OBVIOUS
  <2>0. /\ TypeOK /\ pc # "new"
        /\ pc \in {"next", "commit"} => data[p] = "completed"
        /\ pc = "failing" /\ p # Current => data[p] = "completed"
        /\ data \in [Pair -> Status]
        /\ pairCalibration \in [Pair -> Measurements \cup {0}]
        /\ DOMAIN summary = Pair
    BY DEF Agreement, TypeInv, TypeOK, InMemory, MarkedRunning
  <2>1. pc \in AtPair => Current \in Pair
    BY <2>0, CurrentIsPair DEF Agreement, TypeInv, InLoop
  <2>2. pc \in Executing \cup {"failing"} => p # Current
    BY <2>0 DEF Agreement, MarkedRunning
  <2>3. CASE BeginPair
    <3>1. Current \in Pair /\ Current # p /\ "running" \in Status
      BY <2>3, <2>0, CurrentIsPair DEF BeginPair, Status
    <3>2. manifest'.pairs = [data EXCEPT ![Current] = "running"]
      BY <2>3, <2>0, <3>1, UpdatePairType DEF BeginPair
    <3> QED
      BY <2>0, <2>3, <3>1, <3>2 DEF BeginPair
  <2>4. CASE CalibratePair \/ BeginSummary \/ WriteSummary
    BY <2>0, <2>1, <2>2, <2>4
    DEF CalibratePair, BeginSummary, WriteSummary, Executing, AtPair, Looping
  <2>5. CASE CompletePair
    <3>1. Current \in Pair /\ "completed" \in Status
      BY <2>5, <2>1 DEF CompletePair, AtPair, Looping, Status
    <3>2. manifest'.pairs = [data EXCEPT ![Current] = "completed"]
      BY <2>5, <2>0, <3>1, UpdatePairType DEF CompletePair
    <3> QED
      BY <2>0, <2>5, <3>1, <3>2 DEF CompletePair
  <2>6. CASE FailPair
    <3>1. Current \in Pair /\ Current # p /\ "failed" \in Status
      BY <2>6, <2>1, <2>2 DEF FailPair, AtPair, Looping, Status
    <3>2. manifest'.pairs = [data EXCEPT ![Current] = "failed"]
      BY <2>6, <2>0, <3>1, UpdatePairType DEF FailPair
    <3> QED
      BY <2>0, <2>6, <3>1, <3>2 DEF FailPair
  <2>7. ASSUME NEW q \in Pair, LoseSummary(q)
        PROVE  /\ UNCHANGED <<manifest, pairCalibration>>
               /\ summary'[p] # summary[p] => summary'[p].kind = "lost"
    BY <2>0, <2>7 DEF LoseSummary, NoSummary
  <2>8. CASE \/ \E c \in Protocols, o \in Orders : Create(c, o) \/ Resume(c, o)
             \/ Calibrate \/ SaveCalibration \/ ReuseCompleted
             \/ CompletionFails \/ PairRaises \/ Return \/ Kill
             \/ \E q \in Pair : DamageResults(q)
    <3>1. UNCHANGED <<manifest, pairCalibration, summary>>
      BY <2>0, <2>8
      DEF Create, Resume, Calibrate, SaveCalibration, ReuseCompleted,
          CompletionFails, PairRaises, Return, Kill, DamageResults, disk
    <3> QED
      BY <3>1
  <2> QED
    BY <2>3, <2>4, <2>5, <2>6, <2>7, <2>8 DEF Next, Program
<1>2. Agreement /\ [Next]_vars => [\A p \in Pair : Final(p)]_vars
  BY <1>1
<1> QED
  BY <1>2, AgreementCorrect, PTL DEF Spec, CompletedIsFinal

-----------------------------------------------------------------------------
(* What the process has done when it returns.                              *)

(* A pair the loop has passed was completed, with a valid summary, or has  *)
(* failed.                                                                 *)
Settled(p) ==
  \/ results[p] = "scored" /\ manifest.pairs[p] = "completed" /\ Valid(p)
  \/ results[p] = "failed" /\ manifest.pairs[p] = "failed"

Passed ==
  /\ pc \in {"new", "calibrate", "save_calibration"} =>
       position = 1 /\ \A p \in Pair : results[p] = "none"
  /\ pc \in Looping =>
       /\ \A i \in 1..(position - 1) : Settled(order[i])
       /\ \A i \in position..Len(order) : results[order[i]] = "none"

FailuresKept ==
  \A p \in Pair : results[p] = "failed" => manifest.pairs[p] = "failed"

Outcome == Passed /\ FailuresKept /\ OutcomesRecorded

(* Nothing has been passed before the loop. *)
LEMMA OutcomeInit == Init => Outcome
  BY DEF Init, Outcome, Passed, FailuresKept, OutcomesRecorded, Looping

(* A step of the loop that settles the current pair c and goes on, or ends *)
(* the process when there is no other pair.                                *)
Settles(c) ==
  /\ pc \in Looping /\ position <= Len(order) /\ c = Current
  /\ position' = position + 1
  /\ pc' = "next" \/ (pc' = "raised" /\ Single)
  /\ UNCHANGED <<summary, protocol, order>>
  /\ \E s \in {"scored", "failed"} : results' = [results EXCEPT ![c] = s]
  /\ \A p \in Pair \ {c} : manifest'.pairs[p] = manifest.pairs[p]
  /\ Settled(c)'

(* What is settled stays settled. *)
LEMMA OutcomeSettles ==
  ASSUME Agreement, Outcome, NEW c \in Pair, Settles(c) PROVE Outcome'
<1> USE DEF Outcome
<1>0. /\ order \in Orders /\ position \in Nat \ {0} /\ Len(order) \in Nat
      /\ results \in [Pair -> {"none", "scored", "failed"}]
      /\ Range(order) = manifest.scope
      /\ \A p \in Pair \ manifest.scope : manifest.pairs[p] = "pending"
      /\ position <= Len(order) /\ c = order[position]
  BY CampaignAssumption
  DEF Agreement, TypeInv, TypeOK, InMemory, Settles, Looping, Current
<1>1. PICK s \in {"scored", "failed"} : results' = [results EXCEPT ![c] = s]
  BY DEF Settles
<1>2. ASSUME NEW i \in 1..Len(order), i # position
      PROVE  /\ order[i] \in Pair /\ order[i] # c
             /\ results'[order[i]] = results[order[i]]
             /\ manifest'.pairs[order[i]] = manifest.pairs[order[i]]
  <2>1. order[i] \in Pair /\ order[i] # c
    BY <1>0, <1>2, CampaignAssumption DEF IsInjective
  <2> QED
    BY <2>1, <1>0, <1>1 DEF Settles
<1>3. ASSUME NEW i \in 1..(position' - 1) PROVE Settled(order[i])'
  <2>1. CASE i = position
    <3>1. order' = order /\ order[i] = c /\ Settled(c)'
      BY <2>1, <1>0 DEF Settles
    <3> QED
      BY <3>1 DEF Settled, Valid
  <2>2. CASE i # position
    <3>1. i \in 1..(position - 1) /\ i \in 1..Len(order)
      BY <1>0, <2>2 DEF Settles
    <3>2. Settled(order[i])
      BY <3>1 DEF Settles, Passed
    <3> QED
      BY <3>1, <3>2, <2>2, <1>2 DEF Settles, Settled, Valid
  <2> QED
    BY <2>1, <2>2
<1>4. ASSUME NEW i \in position'..Len(order) PROVE results'[order[i]] = "none"
  <2>1. i \in position..Len(order) /\ i \in 1..Len(order) /\ i # position
    BY <1>0 DEF Settles
  <2> QED
    BY <2>1, <1>2 DEF Settles, Passed
<1>5. FailuresKept'
  <2>1. /\ results'[c] = "failed" => manifest'.pairs[c] = "failed"
        /\ manifest'.pairs[c] # "running"
    BY DEF Settles, Settled
  <2> QED
    BY <2>1, <1>0, <1>1 DEF FailuresKept, Settles
<1>6. OutcomesRecorded'
  <2>1. pc' = "raised" => \A p \in Range(order) : p = c
    <3>1. \A p \in Range(order) : \E i \in 1..Len(order) : p = order[i]
      BY <1>0, CampaignAssumption DEF Range
    <3>2. pc' = "raised" => Len(order) = 1
      BY DEF Settles, Single
    <3>3. Len(order) = 1 => position = 1 /\ \A i \in 1..Len(order) : i = 1
      BY <1>0
    <3> QED
      BY <3>1, <3>2, <3>3, <1>0
  <2>2. manifest'.pairs[c] # "running"
    BY DEF Settles, Settled
  <2> QED
    BY <2>1, <2>2, <1>0, <1>5 DEF OutcomesRecorded, FailuresKept, Settles
<1>7. Passed'
  BY <1>3, <1>4 DEF Settles, Passed, Looping
<1> QED
  BY <1>5, <1>6, <1>7

(* The loop settles one pair before it takes the next. *)
LEMMA OutcomeStep == Agreement /\ Outcome /\ [Next]_vars => Outcome'
<1> SUFFICES ASSUME Agreement, Outcome, [Next]_vars PROVE Outcome'
  OBVIOUS
<1> USE DEF Outcome
<1>0. /\ TypeOK
      /\ data \in [Pair -> Status]
      /\ results \in [Pair -> {"none", "scored", "failed"}]
      /\ DOMAIN summary = Pair
      /\ position \in Nat \ {0} /\ Len(order) \in Nat
      /\ pc \in AtPair => position <= Len(order)
      /\ position <= Len(order) => Current \in Pair
      /\ position <= Len(order) + 1
      /\ order \in Orders
      /\ pc # "new" => Range(order) = manifest.scope
      /\ pc \in Executing \cup {"next"} => data = manifest.pairs
      /\ pc = "failing" =>
           \A p \in Pair \ {Current} : data[p] = manifest.pairs[p]
      /\ \A p \in Pair \ manifest.scope : manifest.pairs[p] = "pending"
  BY CampaignAssumption, CurrentIsPair
  DEF Agreement, TypeInv, TypeOK, InLoop, InMemory, Executing
(* The pairs of the loop are pairwise different. *)
<1>o. ASSUME NEW i \in 1..Len(order), i # position, position <= Len(order)
      PROVE  order[i] \in Pair /\ order[i] # Current
  BY <1>0, <1>o, CampaignAssumption DEF Current, IsInjective
<1>s. ASSUME NEW p \in Range(order)
      PROVE  \E i \in 1..Len(order) : p = order[i]
  BY <1>0, CampaignAssumption DEF Range
<1>1. ASSUME NEW c \in Protocols, NEW o \in Orders, Create(c, o) \/ Resume(c, o)
      PROVE  Outcome'
  <2>1. /\ pc' \in {"calibrate", "refused"}
        /\ pc' = "calibrate" =>
             position' = 1 /\ \A p \in Pair : results'[p] = "none"
        /\ pc' = "refused" => UNCHANGED <<results, manifest>>
    BY <1>1 DEF Create, Resume, Passed, memory, disk
  <2> QED
    BY <2>1 DEF Passed, FailuresKept, OutcomesRecorded, Looping
<1>2. CASE Calibrate \/ SaveCalibration
  <2>1. /\ pc' \in {"save_calibration", "refused", "next"}
        /\ position' = position /\ position = 1
        /\ \A p \in Pair : results[p] = "none"
        /\ UNCHANGED <<manifest, results, order>>
    BY <1>2 DEF Calibrate, SaveCalibration, disk, memory, Passed
  <2>2. \A i \in 1..Len(order) : order[i] \in Pair
    BY <1>0, CampaignAssumption
  <2>3. \A i \in 1..(position - 1) : FALSE
    BY <2>1
  <2> QED
    BY <2>1, <2>2, <2>3 DEF Passed, FailuresKept, OutcomesRecorded, Looping
<1>3. CASE ReuseCompleted
  <2>1. /\ UNCHANGED <<manifest, data, summary, protocol, order>>
        /\ manifest.pairs[Current] = "completed" /\ position <= Len(order)
        /\ pc = "next" /\ Current \in Pair
    BY <1>3, <1>0 DEF ReuseCompleted, disk
  <2>2. CASE Valid(Current) /\ Current \notin damaged
    <3>1. /\ results' = [results EXCEPT ![Current] = "scored"]
          /\ position' = position + 1 /\ pc' = "next"
      BY <1>3, <2>2 DEF ReuseCompleted
    <3>2. PICK c \in Pair : c = Current
      BY <2>1
    <3>3. Settled(c)'
      BY <1>0, <2>1, <2>2, <3>1, <3>2 DEF Settled, Valid
    <3>4. Settles(c)
      <4>1. \E s \in {"scored", "failed"} : results' = [results EXCEPT ![c] = s]
        BY <3>1, <3>2
      <4> QED
        BY <2>1, <3>1, <3>2, <3>3, <4>1 DEF Settles, Looping
    <3> QED
      BY <3>4, OutcomeSettles
  <2>3. CASE ~(Valid(Current) /\ Current \notin damaged)
    <3>1. UNCHANGED <<position, results>>
          /\ pc' = IF Single THEN "raised" ELSE "failing"
      BY <1>3, <2>3 DEF ReuseCompleted
    <3>2. pc' = "raised" => \A p \in Range(order) : p = Current
      BY <3>1, <1>s, <2>1, <1>0 DEF Single, Current
    <3> QED
      BY <1>0, <2>1, <3>1, <3>2
      DEF Passed, FailuresKept, OutcomesRecorded, Looping, Settled, Valid
  <2> QED
    BY <2>2, <2>3
<1>4. CASE BeginPair
  <2>1. position <= Len(order) /\ Current \in Pair /\ "running" \in Status
    BY <1>4, <1>0 DEF BeginPair, Status
  <2>2. /\ data' = [data EXCEPT ![Current] = "running"] /\ manifest'.pairs = data'
        /\ UNCHANGED <<summary, protocol, order, position, results>>
        /\ pc = "next" /\ pc' = "execute" /\ data = manifest.pairs
    BY <1>4, <1>0, <2>1, UpdatePairType DEF BeginPair
  <2>3. ASSUME NEW i \in 1..(position - 1) PROVE Settled(order[i])'
    <3>1. Settled(order[i]) /\ order[i] \in Pair /\ order[i] # Current
      BY <1>0, <1>o, <2>1, <2>2 DEF Passed, Looping
    <3> QED
      BY <3>1, <1>0, <2>2 DEF Settled, Valid
  <2>4. results[Current] = "none"
    BY <1>0, <2>1, <2>2 DEF Passed, Looping, Current
  <2>5. FailuresKept'
    BY <1>0, <2>2, <2>4 DEF FailuresKept
  <2> QED
    BY <2>2, <2>3, <2>5 DEF Passed, OutcomesRecorded, Looping
<1>5. CASE CalibratePair \/ BeginSummary \/ WriteSummary \/ PairRaises
           \/ CompletionFails
  <2>1. /\ UNCHANGED <<manifest, protocol, order, position, results>>
        /\ pc \in AtPair /\ position <= Len(order) /\ Current \in Pair
        /\ pc' \in {"run", "summary", "commit", "failing"}
    BY <1>5, <1>0
    DEF CalibratePair, BeginSummary, WriteSummary, PairRaises, CompletionFails,
        disk, memory, AtPair, Looping
  <2>2. \A p \in Pair \ {Current} : summary'[p] = summary[p]
    BY <1>5, <2>1, <1>0
    DEF CalibratePair, BeginSummary, WriteSummary, PairRaises, CompletionFails,
        disk
  <2>3. ASSUME NEW i \in 1..(position - 1) PROVE Settled(order[i])'
    <3>1. Settled(order[i]) /\ order[i] \in Pair /\ order[i] # Current
      BY <1>0, <1>o, <2>1 DEF Passed, AtPair
    <3> QED
      BY <3>1, <2>1, <2>2 DEF Settled, Valid
  <2> QED
    BY <2>1, <2>3 DEF Passed, FailuresKept, OutcomesRecorded, AtPair, Looping
<1>6. CASE CompletePair \/ FailPair
  <2>1. /\ pc \in AtPair /\ position <= Len(order) /\ Current \in Pair
        /\ "completed" \in Status /\ "failed" \in Status
        /\ \A p \in Pair \ {Current} : data[p] = manifest.pairs[p]
    BY <1>6, <1>0 DEF CompletePair, FailPair, AtPair, Looping, Status, Executing
  <2>2. /\ \/ /\ data' = [data EXCEPT ![Current] = "completed"]
              /\ results' = [results EXCEPT ![Current] = "scored"]
              /\ Valid(Current)
              /\ pc' = "next"
           \/ /\ data' = [data EXCEPT ![Current] = "failed"]
              /\ results' = [results EXCEPT ![Current] = "failed"]
              /\ pc' = IF Single THEN "raised" ELSE "next"
        /\ UNCHANGED <<summary, protocol, order>> /\ position' = position + 1
        /\ manifest'.pairs = data' /\ manifest'.scope = Range(order)
    BY <1>6, <1>0, <2>1, UpdatePairType DEF CompletePair, FailPair
  <2>3. PICK c \in Pair : c = Current
    BY <2>1
  <2>4. Settled(c)'
    BY <1>0, <2>1, <2>2, <2>3 DEF Settled, Valid
  <2>5. \A p \in Pair \ {c} : manifest'.pairs[p] = manifest.pairs[p]
    BY <1>0, <2>1, <2>2, <2>3
  <2>6. Settles(c)
    <3>1. \E s \in {"scored", "failed"} : results' = [results EXCEPT ![c] = s]
      BY <2>2, <2>3
    <3> QED
      BY <2>1, <2>2, <2>3, <2>4, <2>5, <3>1 DEF Settles, AtPair
  <2> QED
    BY <2>6, OutcomeSettles
<1>7. CASE Return
  <2>1. /\ UNCHANGED <<manifest, results>>
        /\ pc = "next" /\ position = Len(order) + 1
        /\ pc' \in {"some_failed", "ok"}
    BY <1>7, <1>0 DEF Return, disk, memory
  <2>2. \A p \in Pair : manifest.pairs[p] # "running"
    BY <2>1, <1>0, <1>s DEF Passed, Looping, Settled
  <2> QED
    BY <2>1, <2>2 DEF Passed, FailuresKept, OutcomesRecorded, Looping
<1>8. CASE Kill
  BY <1>8
  DEF Kill, disk, memory, Passed, FailuresKept, OutcomesRecorded, Looping
<1>9. ASSUME NEW p \in Pair, LoseSummary(p) \/ DamageResults(p) PROVE Outcome'
  BY <1>9
  DEF LoseSummary, DamageResults, memory, Passed, FailuresKept,
      OutcomesRecorded, Looping, Stopped
<1>10. CASE UNCHANGED vars
  BY <1>10
  DEF vars, disk, memory, Passed, FailuresKept, OutcomesRecorded, Settled, Valid
<1> QED
  BY <1>1, <1>2, <1>3, <1>4, <1>5, <1>6, <1>7, <1>8, <1>9, <1>10
  DEF Next, Program

(* No attempt that came to its end leaves a pair running in the manifest,  *)
(* or a failed one completed (campaign.py 97-103, cli.py 935-940, 967-970).*)
THEOREM OutcomesAreRecorded == Spec => []OutcomesRecorded
  BY OutcomeInit, OutcomeStep, AgreementCorrect, PTL DEF Spec, Outcome

(* Exit code 0 means that the whole campaign is on disk (cli.py 942-971).  *)
THEOREM ZeroIsComplete == Spec => ZeroMeansComplete
<1>1. Agreement /\ Outcome /\ Next /\ pc # "ok" /\ pc' = "ok"
        => manifest'.status = "completed" /\ \A p \in manifest'.scope : Valid(p)'
  <2> SUFFICES ASSUME Agreement, Outcome, Next, pc # "ok", pc' = "ok"
               PROVE  /\ manifest'.status = "completed"
                      /\ \A p \in manifest'.scope : Valid(p)'
    OBVIOUS
  <2>1. Return
    BY DEF Next, Program, Create, Resume, Calibrate, SaveCalibration,
           ReuseCompleted, BeginPair, CalibratePair, BeginSummary,
           WriteSummary, CompletePair, CompletionFails, PairRaises, FailPair,
           Kill, LoseSummary, DamageResults
  <2>2. /\ UNCHANGED <<manifest, summary, protocol>>
        /\ pc = "next" /\ position > Len(order)
        /\ \A p \in Pair : results[p] # "failed"
    BY <2>1 DEF Return, disk, memory
  <2>3. ASSUME NEW p \in manifest.scope PROVE manifest.pairs[p] = "completed" /\ Valid(p)
    <3>0. /\ order \in Seq(Pair) /\ manifest.scope = Range(order)
          /\ position \in Nat /\ DOMAIN order = 1..Len(order)
      BY <2>2, CampaignAssumption DEF Agreement, InMemory, TypeInv, TypeOK
    <3>1. PICK i \in 1..Len(order) : p = order[i]
      BY <3>0 DEF Range
    <3>p. p \in Pair
      BY <3>0, <3>1
    <3>2. i \in 1..(position - 1)
      BY <2>2, <3>0
    <3> QED
      BY <2>2, <3>p, <3>1, <3>2 DEF Outcome, Passed, Looping, Settled
  <2> QED
    BY <2>2, <2>3 DEF Agreement, InMemory, Valid
<1>2. Agreement /\ Outcome /\ [Next]_vars
        => [pc # "ok" /\ pc' = "ok" =>
              /\ manifest'.status = "completed"
              /\ \A p \in manifest'.scope : Valid(p)']_vars
  BY <1>1
<1> QED
  BY <1>2, OutcomeInit, OutcomeStep, AgreementCorrect, PTL
  DEF Spec, ZeroMeansComplete
=============================================================================
