--------------------------- MODULE Backfill_proofs ----------------------------
(***************************************************************************)
(* Proofs about Backfill, for any number of run directories, any servers,  *)
(* libraries and options, and any number of kills: the types, that only    *)
(* kills and overlapping calls damage a summary, that sizes are genuine,   *)
(* and that a call reports what it did.                                    *)
(***************************************************************************)
EXTENDS Backfill, TLAPS

Kinds == {"absent", "broken", "whole"}
Summaries == [kind : Kinds, keys : SUBSET Scripts, size : Sizes \cup {0}]

(* A script that holds a summary is at a run whose benchmark was over when *)
(* the scripts were first called; the size script asks local servers only. *)
Holding == {"lookup", "open", "fill"}

Places ==
  /\ \A p \in Scripts : pc[p] \in Holding =>
       at[p] \in Run \ Live /\ held[p].kind = "whole"
  /\ pc["kv"] # "lookup"
  /\ pc["size"] \in Holding => Root(at["size"]) \in Servers
  /\ \A r \in Run : bench[r] # "over" => r \in Live
  /\ \A r \in Live : summary[r].kind = "whole" => summary[r].keys = Scripts

TypeInv == TypeOK /\ Places

(* Truncated, absent and written summaries are summaries. *)
LEMMA SummaryTypes ==
  /\ Absent \in Summaries /\ Broken \in Summaries
  /\ Absent.kind = "absent" /\ Absent.size = 0 /\ Absent.keys = {}
  /\ Broken.kind = "broken" /\ Broken.size = 0 /\ Broken.keys = {}
  /\ \A k \in SUBSET Scripts, z \in Sizes \cup {0} :
       /\ Whole(k, z) \in Summaries
       /\ Whole(k, z).kind = "whole" /\ Whole(k, z).keys = k /\ Whole(k, z).size = z
BY DEF Summaries, Kinds, Absent, Broken, Whole

(* A library offers sizes in use, and never 0. *)
LEMMA ParsedType ==
  ASSUME NEW lib \in Libraries, NEW r \in Run
  PROVE  Parsed(lib[r]) \in Sizes \cup {0}
BY BackfillAssumption DEF Parsed, Entry

(* What a library offers for good is a size of that server for a run. *)
LEMMA OffersType ==
  ASSUME NEW s \in Servers, NEW lib \in Libraries
  PROVE  /\ Offers(s, lib) \subseteq Servers \X Run \X Sizes
         /\ \A r \in Run : Parsed(lib[r]) # 0 =>
              <<s, r, Parsed(lib[r])>> \in Offers(s, lib)
BY ParsedType DEF Offers

(* The files and the servers before the first call are well typed. *)
LEMMA TypeInit == Init => TypeInv
<1> SUFFICES ASSUME Init PROVE TypeInv
  OBVIOUS
<1>1. summary \in [Run -> Summaries]
  BY SummaryTypes, BackfillAssumption DEF Init
<1>2. held \in [Scripts -> Summaries]
  BY SummaryTypes DEF Init
<1>3. offered \subseteq Servers \X Run \X Sizes
  <2>1. \A s \in Servers : library[s] \in Libraries
    BY DEF Init
  <2> QED
    BY <2>1, OffersType DEF Init
<1>4. faults \in 0..MaxFaults
  BY BackfillAssumption DEF Init
<1>5. TypeOK
  BY <1>1, <1>2, <1>3, <1>4 DEF Init, TypeOK, NotRunning, Summaries, Kinds
<1>6. Places
  BY <1>1, SummaryTypes, BackfillAssumption
  DEF Init, Places, Holding, Scripts
<1> QED
  BY <1>5, <1>6 DEF TypeInv

(* Every step of a script, of a benchmark and of the world keeps the types, *)
(* and leads a script only to runs that are over.                          *)
LEMMA TypeStep == TypeInv /\ [Next]_vars => TypeInv'
<1> SUFFICES ASSUME TypeInv, [Next]_vars PROVE TypeInv'
  OBVIOUS
<1> USE SummaryTypes DEF TypeInv
<1>0. /\ summary \in [Run -> Summaries] /\ held \in [Scripts -> Summaries]
      /\ pc \in [Scripts -> NotRunning \cup {"scan", "lookup", "open", "fill"}]
      /\ at \in [Scripts -> Nat \ {0}]
      /\ cache \in [Servers -> SUBSET Libraries] /\ migrated \subseteq Run
      /\ "size" \in Scripts /\ "kv" \in Scripts
      /\ faults \in Nat /\ MaxFaults \in Nat /\ Live \subseteq Run
  BY BackfillAssumption DEF TypeOK, Summaries, Kinds, Scripts
<1>1. ASSUME NEW p \in Scripts, Launch(p) PROVE TypeInv'
  BY <1>1, <1>0
  DEF Launch, GoTo, TypeOK, Places, Holding, disk, servers, NotRunning, Root
<1>2. ASSUME NEW p \in Scripts, Finish(p) \/ RaiseUnreadable(p) \/ Kill(p)
      PROVE  TypeInv'
  <2>1. /\ at' = [at EXCEPT ![p] = 1] /\ held' = [held EXCEPT ![p] = Absent]
        /\ cache' = IF p = "size" THEN [s \in Servers |-> {}] ELSE cache
        /\ \E how \in {"done", "raised", "idle"} : pc' = [pc EXCEPT ![p] = how]
        /\ UNCHANGED <<options, summary, bench, servers, migrated>>
    BY <1>2 DEF Finish, RaiseUnreadable, Kill, Ends, GoTo, disk
  <2>2. hurt' \subseteq Run
    BY <1>2, <1>0 DEF Finish, RaiseUnreadable, Kill, disk, TypeOK, Places, Holding
  <2>3. faults' \in 0..MaxFaults
    BY <1>2, <1>0 DEF Finish, RaiseUnreadable, Kill, TypeOK
  <2> QED
    BY <2>1, <2>2, <2>3, <1>0
    DEF TypeOK, Places, Holding, servers, NotRunning, Root, Summaries, Kinds
<1>3. ASSUME NEW p \in Scripts, Skip(p) PROVE TypeInv'
  BY <1>3, <1>0
  DEF Skip, NextRun, GoTo, TypeOK, Places, Holding, disk, servers, Root,
      Summaries, Kinds
<1>4. ASSUME NEW p \in Scripts, Read(p) PROVE TypeInv'
  <2>1. /\ at[p] \in Run /\ summary[at[p]].kind = "whole"
        /\ p \notin summary[at[p]].keys
        /\ p = "size" => Root(at[p]) \in Servers
        /\ pc' = [pc EXCEPT ![p] = IF p = "kv" THEN "open" ELSE "lookup"]
        /\ UNCHANGED <<options, disk, bench, servers, at, cache, migrated, faults>>
    BY <1>4 DEF Read, Skipped, GoTo
  <2>2. held' \in [Scripts -> Summaries] /\ held'[p].kind = "whole"
        /\ \A q \in Scripts \ {p} : held'[q] = held[q]
    BY <1>4, <1>0, <2>1 DEF Read, Summaries
  <2>3. at[p] \notin Live
    BY <2>1 DEF Places
  <2> QED
    BY <2>1, <2>2, <2>3, <1>0
    DEF TypeOK, Places, Holding, disk, servers, Root, Summaries, Kinds, Scripts
<1>5. CASE Fetch
  <2>1. cache' \in [Servers -> SUBSET Libraries]
    BY <1>5, <1>0 DEF Fetch, LookedUp, TypeOK, Places, Holding
  <2> QED
    BY <1>5, <2>1 DEF Fetch, TypeOK, Places, disk, servers, Root
<1>6. CASE Match
  <2>0. at["size"] \in Run \ Live /\ held["size"].kind = "whole"
        /\ Root(at["size"]) \in Servers
    BY <1>6, <1>0 DEF Match, Places, Holding
  <2>1. PICK lib \in cache[LookedUp] :
          LET size == Parsed(lib[at["size"]])
          IN /\ migrated' = IF size = 0 THEN migrated ELSE migrated \cup {at["size"]}
             /\ IF size = 0 \/ options.dryRun
                THEN NextRun("size")
                ELSE /\ held' = [held EXCEPT !["size"] = Whole(@.keys \cup {"size"}, size)]
                     /\ GoTo("size", "open") /\ UNCHANGED at
    BY <1>6 DEF Match
  <2>2. Parsed(lib[at["size"]]) \in Sizes \cup {0}
    BY <2>0, <1>0, ParsedType DEF LookedUp
  <2>3. UNCHANGED <<options, disk, bench, servers, cache, faults>>
    BY <1>6 DEF Match
  <2>4. migrated' \subseteq Run
    BY <2>1, <2>0, <1>0
  <2>5. CASE Parsed(lib[at["size"]]) = 0 \/ options.dryRun
    <3>1. /\ pc' = [pc EXCEPT !["size"] = "scan"]
          /\ at' = [at EXCEPT !["size"] = @ + 1]
          /\ held' = [held EXCEPT !["size"] = Absent]
      BY <2>1, <2>5 DEF NextRun, GoTo
    <3> QED
      BY <3>1, <2>3, <2>4, <1>0
      DEF TypeOK, Places, Holding, disk, servers, Root, Summaries, Kinds
  <2>6. CASE ~(Parsed(lib[at["size"]]) = 0 \/ options.dryRun)
    <3>1. /\ held' = [held EXCEPT !["size"] =
                        Whole(@.keys \cup {"size"}, Parsed(lib[at["size"]]))]
          /\ pc' = [pc EXCEPT !["size"] = "open"] /\ at' = at
      BY <2>1, <2>6 DEF GoTo
    <3>2. held["size"].keys \cup {"size"} \in SUBSET Scripts
      BY <1>0 DEF Summaries
    <3>3. held' \in [Scripts -> Summaries] /\ held'["size"].kind = "whole"
      BY <3>1, <3>2, <2>2, <1>0
    <3>4. TypeOK'
      BY <3>1, <3>3, <2>3, <2>4 DEF TypeOK, disk, servers, Summaries, Kinds
    <3>5. /\ \A q \in Scripts \ {"size"} :
               pc'[q] = pc[q] /\ at'[q] = at[q] /\ held'[q] = held[q]
          /\ UNCHANGED <<options, summary, bench, at>>
      BY <3>1, <2>3 DEF disk
    <3> QED
      BY <3>3, <3>4, <3>5, <2>0, <1>0 DEF Places, Holding, Root
  <2> QED
    BY <2>5, <2>6
<1>7. ASSUME NEW p \in Scripts, Open(p) \/ Fill(p) PROVE TypeInv'
  <2>1. at[p] \in Run \ Live /\ held[p].kind = "whole"
    BY <1>7, <1>0 DEF Open, Fill, Places, Holding
  <2>2. /\ summary' \in [Run -> Summaries]
        /\ \A r \in Live : summary'[r] = summary[r]
    BY <1>7, <1>0, <2>1 DEF Open, Fill
  <2>3. /\ UNCHANGED <<options, hurt, bench, servers, cache, migrated, faults>>
        /\ \/ /\ pc[p] = "open" /\ pc' = [pc EXCEPT ![p] = "fill"]
              /\ UNCHANGED <<at, held>>
           \/ /\ pc' = [pc EXCEPT ![p] = "scan"] /\ at' = [at EXCEPT ![p] = @ + 1]
              /\ held' = [held EXCEPT ![p] = Absent]
    BY <1>7 DEF Open, Fill, NextRun, GoTo
  <2>4. TypeOK'
    <3>1. at' \in [Scripts -> Nat \ {0}]
      BY <2>3, <1>0
    <3>2. held' \in [Scripts -> Summaries]
      BY <2>3, <1>0
    <3>3. pc' \in [Scripts -> NotRunning \cup {"scan", "lookup", "open", "fill"}]
      BY <2>3, <1>0
    <3> QED
      BY <2>2, <2>3, <3>1, <3>2, <3>3 DEF TypeOK, servers, Summaries, Kinds
  <2>s. ASSUME NEW q \in Scripts
        PROVE  /\ pc'[q] \in Holding =>
                    pc[q] \in Holding /\ at'[q] = at[q] /\ held'[q] = held[q]
               /\ pc'[q] = "lookup" => pc[q] = "lookup"
    BY <2>3, <1>0 DEF Holding
  <2>5. Places'
    <3>1. \A r \in Live : summary'[r].kind = "whole" => summary'[r].keys = Scripts
      BY <2>2 DEF Places
    <3>2. pc'["size"] \in Holding => Root(at["size"])' \in Servers
      BY <2>s, <2>3, <1>0 DEF Places, Root
    <3>3. \A q \in Scripts : pc'[q] \in Holding =>
            at'[q] \in Run \ Live /\ held'[q].kind = "whole"
      BY <2>s DEF Places
    <3>4. pc'["size"] \in Holding => at'["size"] = at["size"]
      BY <2>s, <1>0
    <3> QED
      BY <3>1, <3>2, <3>3, <3>4, <2>s, <2>3, <1>0 DEF Places
  <2> QED
    BY <2>4, <2>5
<1>8. ASSUME NEW r \in Run, BeginSummary(r) \/ EndSummary(r) \/ KillBenchmark(r)
      PROVE  TypeInv'
  <2>1. /\ r \in Live
        /\ bench' \in [Run -> {"running", "writing", "over"}]
        /\ \A q \in Run : bench'[q] # "over" => q \in Live
        /\ UNCHANGED <<options, servers, memory>>
    BY <1>8, <1>0
    DEF BeginSummary, EndSummary, KillBenchmark, TypeOK, Places
  <2>2. /\ summary' \in [Run -> Summaries]
        /\ \A q \in Live : summary'[q].kind = "whole" => summary'[q].keys = Scripts
    BY <1>8, <1>0, <2>1
    DEF BeginSummary, EndSummary, KillBenchmark, Places
  <2>3. hurt' \subseteq Run /\ faults' \in 0..MaxFaults
    BY <1>8, <1>0 DEF BeginSummary, EndSummary, KillBenchmark, TypeOK
  <2> QED
    BY <2>1, <2>2, <2>3, <1>0
    DEF TypeOK, Places, Holding, servers, memory, Root, Summaries, Kinds
<1>9. ASSUME NEW s \in Servers, NEW lib \in Libraries, ChangeLibrary(s, lib)
      PROVE  TypeInv'
  <2>1. offered' \subseteq Servers \X Run \X Sizes
    BY <1>9, OffersType DEF ChangeLibrary, TypeOK
  <2> QED
    BY <1>9, <2>1, <1>0
    DEF ChangeLibrary, TypeOK, Places, disk, memory, Root
<1>10. CASE UNCHANGED vars
  BY <1>10 DEF vars, disk, servers, memory, TypeOK, Places, Root
<1> QED
  BY <1>1, <1>2, <1>3, <1>4, <1>5, <1>6, <1>7, <1>8, <1>9, <1>10
  DEF Next, Step, Benchmark

(* Types and places hold in every reachable state. *)
LEMMA TypeInvCorrect == Spec => []TypeInv
  BY TypeInit, TypeStep, PTL DEF Spec, SafeSpec

(* Every reachable state has the types of TypeOK, for any number of run    *)
(* directories, servers, kills and changes.                                *)
THEOREM TypeCorrect == Spec => []TypeOK
  BY TypeInvCorrect, PTL DEF TypeInv

-----------------------------------------------------------------------------
(* What damages a summary.                                                 *)

(* Called in turn, the scripts exclude each other, and the file that one   *)
(* is filling has been truncated by itself.                                *)
Exclusive ==
  ~options.overlap =>
    /\ \A p, q \in Scripts : p # q => pc[p] \in NotRunning \/ pc[q] \in NotRunning
    /\ \A p \in Scripts : pc[p] = "fill" => summary[at[p]].kind = "broken"

Damage == Exclusive /\ OnlyKillsDamage

(* No file is damaged at first. *)
LEMMA DamageInit == Init => Damage
BY SummaryTypes
DEF Init, Damage, Exclusive, OnlyKillsDamage, NotRunning

(* Only opening a file damages it, filling it repairs it, and who is killed *)
(* in between leaves a mark.                                               *)
LEMMA DamageStep == TypeInv /\ Damage /\ [Next]_vars => Damage'
<1> SUFFICES ASSUME TypeInv, Damage, [Next]_vars PROVE Damage'
  OBVIOUS
<1> USE SummaryTypes
<1>o. UNCHANGED options
  BY DEF Next, Launch, Step, Finish, Skip, RaiseUnreadable, Read, Open, Fill,
         Fetch, Match, Kill, Benchmark, BeginSummary, EndSummary, KillBenchmark,
         ChangeLibrary, vars
<1> SUFFICES ASSUME ~options.overlap PROVE Damage'
  BY <1>o DEF Damage, Exclusive, OnlyKillsDamage
<1>0. /\ summary \in [Run -> Summaries] /\ held \in [Scripts -> Summaries]
      /\ pc \in [Scripts -> NotRunning \cup {"scan", "lookup", "open", "fill"}]
      /\ at \in [Scripts -> Nat \ {0}]
      /\ "size" \in Scripts /\ "kv" \in Scripts
      /\ bench \in [Run -> {"running", "writing", "over"}]
  BY DEF TypeInv, TypeOK, Summaries, Kinds, Scripts
<1>e. /\ \A p, q \in Scripts : p # q => pc[p] \in NotRunning \/ pc[q] \in NotRunning
      /\ \A p \in Scripts : pc[p] = "fill" => summary[at[p]].kind = "broken"
      /\ \A r \in Run : summary[r].kind = "broken" => BeingWritten(r) \/ r \in hurt
  BY DEF Damage, Exclusive, OnlyKillsDamage
(* A step of one script that leaves the files alone and is not at fill. *)
<1>q. ASSUME NEW p \in Scripts, UNCHANGED <<summary, bench>>, hurt \subseteq hurt',
             pc[p] # "fill", pc'[p] # "fill",
             \A q \in Scripts \ {p} : pc'[q] = pc[q] /\ at'[q] = at[q],
             pc'[p] \in NotRunning \/ \A q \in Scripts \ {p} : pc[q] \in NotRunning
      PROVE  Damage'
  BY <1>q, <1>e, <1>o DEF Damage, Exclusive, OnlyKillsDamage, BeingWritten
<1>x. ASSUME NEW p \in Scripts, pc[p] \notin NotRunning
      PROVE  \A q \in Scripts \ {p} : pc[q] \in NotRunning /\ pc[q] # "fill"
  BY <1>x, <1>e DEF NotRunning
<1>1. ASSUME NEW p \in Scripts,
             \/ Launch(p) \/ Finish(p) \/ RaiseUnreadable(p) \/ Skip(p) \/ Read(p)
             \/ Kill(p) /\ pc[p] # "fill"
      PROVE  Damage'
  <2>1. /\ UNCHANGED <<summary, bench>> /\ hurt \subseteq hurt'
        /\ pc[p] # "fill"
        /\ \E where \in {"scan", "done", "raised", "lookup", "open", "idle"} :
             pc' = [pc EXCEPT ![p] = where]
        /\ \A q \in Scripts \ {p} : at'[q] = at[q]
    BY <1>1, <1>0
    DEF Launch, Finish, RaiseUnreadable, Skip, Read, Kill, Ends, NextRun, GoTo,
        disk, NotRunning
  <2>2. pc'[p] \in NotRunning \/ \A q \in Scripts \ {p} : pc[q] \in NotRunning
    <3>1. CASE Launch(p)
      BY <3>1 DEF Launch
    <3>2. CASE ~Launch(p)
      <4>1. pc[p] \notin NotRunning
        BY <1>1, <3>2 DEF Finish, RaiseUnreadable, Skip, Read, Kill, NotRunning
      <4> QED
        BY <4>1, <1>x
    <3> QED
      BY <3>1, <3>2
  <2> QED
    BY <2>1, <2>2, <1>0, <1>q
<1>2. CASE Fetch \/ Match
  <2>1. /\ UNCHANGED <<summary, bench, hurt>>
        /\ pc["size"] = "lookup"
        /\ \E where \in {"scan", "lookup", "open"} :
             pc' = [pc EXCEPT !["size"] = where]
        /\ \A q \in Scripts \ {"size"} : at'[q] = at[q]
    <3>1. CASE Fetch
      BY <3>1, <1>0 DEF Fetch, disk
    <3>2. CASE Match
      BY <3>2, <1>0 DEF Match, NextRun, GoTo, disk
    <3> QED
      BY <1>2, <3>1, <3>2
  <2>2. \A q \in Scripts \ {"size"} : pc[q] \in NotRunning
    BY <2>1, <1>x, <1>0 DEF NotRunning
  <2>3. /\ pc["size"] # "fill" /\ pc'["size"] # "fill"
        /\ \A q \in Scripts \ {"size"} : pc'[q] = pc[q]
    BY <2>1, <1>0
  <2> QED
    BY <2>1, <2>2, <2>3, <1>0, <1>q
<1>3. ASSUME NEW p \in Scripts, Kill(p), pc[p] = "fill" PROVE Damage'
  <2>1. /\ UNCHANGED <<summary, bench>> /\ hurt' = hurt \cup {at[p]}
        /\ pc' = [pc EXCEPT ![p] = "idle"]
        /\ \A q \in Scripts \ {p} : at'[q] = at[q]
    BY <1>3, <1>0 DEF Kill, Ends, GoTo
  <2> QED
    BY <2>1, <1>0, <1>e, <1>o
    DEF Damage, Exclusive, OnlyKillsDamage, BeingWritten, NotRunning
<1>4. ASSUME NEW p \in Scripts, Open(p) PROVE Damage'
  <2>1. /\ summary' = [summary EXCEPT ![at[p]] = Broken] /\ at[p] \in Run
        /\ pc' = [pc EXCEPT ![p] = "fill"] /\ UNCHANGED <<at, bench, hurt>>
        /\ pc[p] = "open"
    BY <1>4 DEF Open, GoTo, TypeInv, Places, Holding
  <2>2. \A q \in Scripts \ {p} : pc[q] \in NotRunning /\ pc[q] # "fill"
    BY <2>1, <1>x DEF NotRunning
  <2> QED
    BY <2>1, <2>2, <1>0, <1>e, <1>o
    DEF Damage, Exclusive, OnlyKillsDamage, BeingWritten
<1>5. ASSUME NEW p \in Scripts, Fill(p) PROVE Damage'
  <2>0. pc[p] = "fill" /\ at[p] \in Run /\ held[p].kind = "whole"
    BY <1>5 DEF Fill, TypeInv, Places, Holding
  <2>1. /\ summary' = [summary EXCEPT ![at[p]] = held[p]]
        /\ pc' = [pc EXCEPT ![p] = "scan"] /\ UNCHANGED <<bench, hurt>>
        /\ \A q \in Scripts \ {p} : at'[q] = at[q]
    BY <1>5, <2>0, <1>e, <1>0 DEF Fill, NextRun, GoTo
  <2>2. \A q \in Scripts \ {p} : pc[q] \in NotRunning /\ pc[q] # "fill"
    BY <2>0, <1>x DEF NotRunning
  <2> QED
    BY <2>0, <2>1, <2>2, <1>0, <1>e, <1>o
    DEF Damage, Exclusive, OnlyKillsDamage, BeingWritten
<1>6. ASSUME NEW r \in Run, BeginSummary(r) \/ EndSummary(r) \/ KillBenchmark(r)
      PROVE  Damage'
  <2>1. r \in Live /\ UNCHANGED <<pc, at>>
    BY <1>6, <1>0
    DEF BeginSummary, EndSummary, KillBenchmark, memory, TypeInv, Places
  <2>2. /\ \A q \in Run \ {r} : summary'[q] = summary[q] /\ bench'[q] = bench[q]
        /\ hurt \subseteq hurt'
        /\ summary'[r].kind = "broken" => bench'[r] = "writing" \/ r \in hurt'
    BY <1>6, <1>0 DEF BeginSummary, EndSummary, KillBenchmark
  <2>3. \A p \in Scripts : pc[p] = "fill" => at[p] \in Run /\ at[p] # r
    BY <2>1 DEF TypeInv, Places, Holding
  <2> QED
    BY <2>1, <2>2, <2>3, <1>e, <1>o
    DEF Damage, Exclusive, OnlyKillsDamage, BeingWritten
<1>7. ASSUME NEW s \in Servers, NEW lib \in Libraries, ChangeLibrary(s, lib)
      PROVE  Damage'
  BY <1>7, <1>e, <1>o
  DEF ChangeLibrary, disk, memory, Damage, Exclusive, OnlyKillsDamage, BeingWritten
<1>8. CASE UNCHANGED vars
  BY <1>8, <1>e, <1>o
  DEF vars, disk, memory, Damage, Exclusive, OnlyKillsDamage, BeingWritten
<1> QED
  BY <1>1, <1>2, <1>3, <1>4, <1>5, <1>6, <1>7, <1>8 DEF Next, Step, Benchmark

(* Types and damage hold in every reachable state. *)
LEMMA DamageCorrect == Spec => [](TypeInv /\ Damage)
  BY DamageInit, DamageStep, TypeInvCorrect, PTL DEF Spec, SafeSpec

(* A summary that nobody is writing is readable unless its writer was      *)
(* killed or both scripts were called at once                              *)
(* (backfill_model_size.py 138, backfill_kv_cache_quantization.py 40).     *)
THEOREM OnlyKillsDamageFiles == Spec => []OnlyKillsDamage
  BY DamageCorrect, PTL DEF Damage

-----------------------------------------------------------------------------
(* Where sizes come from.                                                  *)

(* The size in hand, the answers kept and the answers to come were offered. *)
Genuine ==
  /\ SizesGenuine
  /\ \A p \in Scripts : pc[p] \in Holding /\ held[p].size # 0 =>
       <<Root(at[p]), at[p], held[p].size>> \in offered
  /\ \A s \in Servers : \A lib \in cache[s] : Offers(s, lib) \subseteq offered
  /\ \A s \in Servers : Offers(s, library[s]) \subseteq offered

(* No run has a size at first. *)
LEMMA GenuineInit == Init => Genuine
<1> SUFFICES ASSUME Init PROVE Genuine
  OBVIOUS
<1>1. \A r \in Run \ Live : summary[r].size = 0
  BY SummaryTypes DEF Init
<1> QED
  BY <1>1, SummaryTypes DEF Init, Genuine, SizesGenuine, Holding

(* A size goes from an answer into the cache of its server, from there into *)
(* the hand and from the hand into the file of the same run.               *)
LEMMA GenuineStep == TypeInv /\ Genuine /\ [Next]_vars => Genuine'
<1> SUFFICES ASSUME TypeInv, Genuine, [Next]_vars PROVE Genuine'
  OBVIOUS
<1> USE SummaryTypes
<1>o. UNCHANGED options
  BY DEF Next, Launch, Step, Finish, Skip, RaiseUnreadable, Read, Open, Fill,
         Fetch, Match, Kill, Benchmark, BeginSummary, EndSummary, KillBenchmark,
         ChangeLibrary, vars
<1>r. \A r : Root(r)' = Root(r)
  BY <1>o DEF Root
<1>0. /\ summary \in [Run -> Summaries] /\ held \in [Scripts -> Summaries]
      /\ pc \in [Scripts -> NotRunning \cup {"scan", "lookup", "open", "fill"}]
      /\ at \in [Scripts -> Nat \ {0}] /\ Live \subseteq Run
      /\ cache \in [Servers -> SUBSET Libraries] /\ library \in [Servers -> Libraries]
      /\ "size" \in Scripts /\ "kv" \in Scripts
  BY BackfillAssumption DEF TypeInv, TypeOK, Summaries, Kinds, Scripts
<1>p. \A p \in Scripts : pc[p] \in Holding => at[p] \in Run \ Live
  BY DEF TypeInv, Places
(* A step that takes no size anywhere. *)
<1>q. ASSUME offered \subseteq offered',
             \A r \in Run \ Live : summary'[r].size \in {0, summary[r].size},
             \A p \in Scripts : pc'[p] \in Holding =>
               pc[p] \in Holding /\ at'[p] = at[p] /\ held'[p] = held[p],
             \A s \in Servers : cache'[s] \in {{}, cache[s]},
             \A s \in Servers : Offers(s, library'[s]) \subseteq offered'
      PROVE  Genuine'
  <2>1. SizesGenuine'
    BY <1>q, <1>r DEF Genuine, SizesGenuine
  <2>2. \A p \in Scripts : pc'[p] \in Holding /\ held'[p].size # 0 =>
          <<Root(at'[p]), at'[p], held'[p].size>> \in offered'
    BY <1>q DEF Genuine
  <2>3. \A s \in Servers : \A lib \in cache'[s] : Offers(s, lib) \subseteq offered'
    BY <1>q DEF Genuine
  <2>4. \A x : Root(x)' = Root(x)
    BY <1>r
  <2>5. \A p \in Scripts : Root(at[p])' = Root(at'[p])
    BY <1>o DEF Root
  <2> QED
    BY <1>q, <2>1, <2>2, <2>3, <2>5 DEF Genuine, Offers
<1>1. ASSUME NEW p \in Scripts,
             \/ Launch(p) \/ Finish(p) \/ RaiseUnreadable(p) \/ Skip(p) \/ Kill(p)
      PROVE  Genuine'
  <2>1. /\ UNCHANGED <<summary, servers>>
        /\ \E where \in NotRunning \cup {"scan"} : pc' = [pc EXCEPT ![p] = where]
        /\ \A q \in Scripts \ {p} : at'[q] = at[q] /\ held'[q] = held[q]
        /\ \A s \in Servers : cache'[s] \in {{}, cache[s]}
    BY <1>1, <1>0
    DEF Launch, Finish, RaiseUnreadable, Skip, Kill, Ends, NextRun, GoTo, disk,
        NotRunning
  <2>2. \A q \in Scripts : pc'[q] \in Holding =>
          pc[q] \in Holding /\ at'[q] = at[q] /\ held'[q] = held[q]
    BY <2>1, <1>0 DEF Holding, NotRunning
  <2> QED
    BY <2>1, <2>2, <1>q DEF servers, Genuine
<1>2. ASSUME NEW p \in Scripts, Read(p) PROVE Genuine'
  <2>1. /\ at[p] \in Run /\ p \notin summary[at[p]].keys
        /\ summary[at[p]].kind = "whole"
        /\ UNCHANGED <<options, summary, servers, at, cache>>
        /\ held'[p].size = summary[at[p]].size
        /\ \A q \in Scripts \ {p} : held'[q] = held[q] /\ pc'[q] = pc[q]
    BY <1>2, <1>0 DEF Read, Skipped, GoTo, disk, Summaries
  <2>2. at[p] \notin Live
    BY <2>1 DEF TypeInv, Places
  <2>3. held'[p].size # 0 => <<Root(at[p]), at[p], held'[p].size>> \in offered
    BY <2>1, <2>2 DEF Genuine, SizesGenuine
  <2> QED
    BY <2>1, <2>3, <1>0 DEF Genuine, SizesGenuine, servers, Offers, Root
<1>3. CASE Fetch
  <2>1. /\ LookedUp \in Servers
        /\ cache' = [cache EXCEPT ![LookedUp] = {library[LookedUp]}]
        /\ UNCHANGED <<options, summary, servers, pc, at, held>>
    BY <1>3, <1>0 DEF Fetch, disk, LookedUp, TypeInv, Places, Holding
  <2>2. \A s \in Servers : \A lib \in cache'[s] : Offers(s, lib) \subseteq offered
    BY <2>1, <1>0 DEF Genuine
  <2> QED
    BY <2>1, <2>2 DEF Genuine, SizesGenuine, servers, Offers, Root
<1>4. CASE Match
  <2>0. at["size"] \in Run \ Live /\ Root(at["size"]) \in Servers
    BY <1>4, <1>0 DEF Match, Holding, TypeInv, Places
  <2>1. PICK lib \in cache[LookedUp] :
          \/ NextRun("size")
          \/ /\ Parsed(lib[at["size"]]) # 0
             /\ held' = [held EXCEPT !["size"] =
                           Whole(@.keys \cup {"size"}, Parsed(lib[at["size"]]))]
             /\ GoTo("size", "open") /\ UNCHANGED at
    BY <1>4 DEF Match
  <2>2. UNCHANGED <<options, summary, servers, cache>>
    BY <1>4 DEF Match, disk
  <2>3. CASE NextRun("size")
    <3>1. \A q \in Scripts : pc'[q] \in Holding =>
            pc[q] \in Holding /\ at'[q] = at[q] /\ held'[q] = held[q]
      BY <2>3, <1>0 DEF NextRun, GoTo, Holding
    <3> QED
      BY <3>1, <2>2, <1>q DEF servers, Genuine
  <2>4. CASE ~NextRun("size")
    <3>1. lib \in Libraries /\ Offers(LookedUp, lib) \subseteq offered
      BY <2>0, <1>0 DEF LookedUp, Genuine
    <3>2. <<Root(at["size"]), at["size"], Parsed(lib[at["size"]])>> \in offered
      BY <2>0, <2>1, <2>4, <3>1, OffersType DEF LookedUp
    <3>3. held["size"].keys \cup {"size"} \in SUBSET Scripts
      BY <1>0 DEF Summaries
    <3>4. held'["size"].size = Parsed(lib[at["size"]])
      BY <2>1, <2>4, <2>0, <3>1, <3>3, <1>0, ParsedType
    <3>5. /\ at' = at
          /\ \A q \in Scripts \ {"size"} : pc'[q] = pc[q] /\ held'[q] = held[q]
      BY <2>1, <2>4, <1>0 DEF GoTo
    <3>6. \A q \in Scripts : pc'[q] \in Holding /\ held'[q].size # 0 =>
            <<Root(at[q]), at[q], held'[q].size>> \in offered
      BY <3>2, <3>4, <3>5 DEF Genuine
    <3> QED
      BY <2>2, <3>5, <3>6 DEF Genuine, SizesGenuine, servers, Offers, Root
  <2> QED
    BY <2>3, <2>4
<1>5. ASSUME NEW p \in Scripts, Open(p) PROVE Genuine'
  <2>1. /\ at[p] \in Run /\ pc[p] \in Holding
        /\ summary' = [summary EXCEPT ![at[p]] = Broken]
        /\ pc' = [pc EXCEPT ![p] = "fill"]
        /\ UNCHANGED <<servers, at, held, cache>>
    BY <1>5, <1>p DEF Open, GoTo, Holding
  <2> QED
    BY <2>1, <1>0, <1>q DEF servers, Genuine
<1>6. ASSUME NEW p \in Scripts, Fill(p) PROVE Genuine'
  <2>0. at[p] \in Run \ Live /\ pc[p] \in Holding
    BY <1>6, <1>p DEF Fill, Holding
  <2>1. /\ summary' \in {[summary EXCEPT ![at[p]] = held[p]],
                         [summary EXCEPT ![at[p]] = Broken]}
        /\ pc' = [pc EXCEPT ![p] = "scan"]
        /\ \A q \in Scripts \ {p} : at'[q] = at[q] /\ held'[q] = held[q]
        /\ UNCHANGED <<options, servers, cache>>
    BY <1>6, <2>0, <1>0 DEF Fill, NextRun, GoTo
  <2>2. \A r \in Run \ Live : summary'[r].size # 0 =>
          <<Root(r), r, summary'[r].size>> \in offered
    <3> SUFFICES ASSUME NEW r \in Run \ Live, summary'[r].size # 0
                 PROVE  <<Root(r), r, summary'[r].size>> \in offered
      OBVIOUS
    <3>1. CASE r = at[p]
      <4>1. summary'[r] = held[p]
        BY <2>1, <1>0, <3>1
      <4> QED
        BY <4>1, <2>0, <3>1 DEF Genuine
    <3>2. CASE r # at[p]
      BY <2>1, <1>0, <3>2 DEF Genuine, SizesGenuine
    <3> QED
      BY <3>1, <3>2
  <2>3. \A q \in Scripts : pc'[q] \in Holding =>
          pc[q] \in Holding /\ at'[q] = at[q] /\ held'[q] = held[q]
    BY <2>1, <1>0 DEF Holding
  <2>4. \A q \in Scripts : pc'[q] \in Holding /\ held'[q].size # 0 =>
          <<Root(at'[q]), at'[q], held'[q].size>> \in offered
    BY <2>3 DEF Genuine
  <2> QED
    BY <2>1, <2>2, <2>4 DEF Genuine, SizesGenuine, servers, Offers, Root
<1>7. ASSUME NEW r \in Run, BeginSummary(r) \/ EndSummary(r) \/ KillBenchmark(r)
      PROVE  Genuine'
  <2>1. r \in Live /\ UNCHANGED <<pc, at, held, cache, servers>>
    BY <1>7, <1>0
    DEF BeginSummary, EndSummary, KillBenchmark, memory, TypeInv, Places
  <2>2. \A q \in Run \ {r} : summary'[q] = summary[q]
    BY <1>7, <1>0 DEF BeginSummary, EndSummary, KillBenchmark
  <2> QED
    BY <2>1, <2>2, <1>q DEF servers, Genuine
<1>8. ASSUME NEW s \in Servers, NEW lib \in Libraries, ChangeLibrary(s, lib)
      PROVE  Genuine'
  <2>1. /\ library' = [library EXCEPT ![s] = lib]
        /\ offered' = offered \cup Offers(s, lib)
        /\ UNCHANGED <<summary, pc, at, held, cache>>
    BY <1>8 DEF ChangeLibrary, disk, memory
  <2>2. \A t \in Servers : Offers(t, library'[t]) \subseteq offered'
    BY <2>1, <1>0 DEF Genuine
  <2> QED
    BY <2>1, <2>2, <1>q
<1>9. CASE UNCHANGED vars
  BY <1>9, <1>q DEF vars, disk, memory, servers, Genuine
<1> QED
  BY <1>1, <1>2, <1>3, <1>4, <1>5, <1>6, <1>7, <1>8, <1>9 DEF Next, Step, Benchmark

(* Every backfilled size was offered, unambiguously, for that run by the    *)
(* server the call asks for it (backfill_model_size.py 56-68 and 123-133):  *)
(* the cache of one server's answer is never taken for another's.          *)
THEOREM SizesAreGenuine == Spec => []SizesGenuine
<1>1. Spec => [](TypeInv /\ Genuine)
  BY GenuineInit, GenuineStep, TypeInvCorrect, PTL DEF Spec, SafeSpec
<1> QED
  BY <1>1, PTL DEF Genuine

-----------------------------------------------------------------------------
(* What a call reports.                                                    *)

(* A run counted as migrated lies behind the loop, with its size in the     *)
(* file, or is the one that is being written; a dry run writes no size.    *)
Counted ==
  /\ pc["size"] \notin NotRunning => \A r \in migrated :
       /\ r \notin Live /\ r <= at["size"]
       /\ ~options.dryRun =>
            IF r = at["size"] THEN pc["size"] \in {"open", "fill"}
            ELSE "size" \in summary[r].keys
  /\ pc["size"] \in {"open", "fill"} => "size" \in held["size"].keys /\ ~options.dryRun

DryRunsAreDry ==
  options.dryRun =>
    /\ \A r \in Run \ Live : "size" \notin summary[r].keys
    /\ \A p \in Scripts : "size" \notin held[p].keys

Report == ~options.overlap => Counted /\ DryRunsAreDry

(* Nothing is counted at first, and no run has a size. *)
LEMMA ReportInit == Init => Report
<1> SUFFICES ASSUME Init PROVE Report
  OBVIOUS
<1>1. \A r \in Run \ Live : summary[r].keys = {}
  BY SummaryTypes DEF Init
<1> QED
  BY <1>1, SummaryTypes DEF Init, Report, Counted, DryRunsAreDry, NotRunning, Scripts

(* The loop counts a run when its size is in hand and leaves it when the    *)
(* file has it; nobody else writes the files of old runs meanwhile.        *)
LEMMA ReportStep ==
  TypeInv /\ TypeInv' /\ Damage /\ Report /\ [Next]_vars => Report'
<1> SUFFICES ASSUME TypeInv, TypeInv', Damage, Report, [Next]_vars PROVE Report'
  OBVIOUS
<1> USE SummaryTypes
<1>o. UNCHANGED options
  BY DEF Next, Launch, Step, Finish, Skip, RaiseUnreadable, Read, Open, Fill,
         Fetch, Match, Kill, Benchmark, BeginSummary, EndSummary, KillBenchmark,
         ChangeLibrary, vars
<1> SUFFICES ASSUME ~options.overlap PROVE (Counted /\ DryRunsAreDry)'
  BY <1>o DEF Report
<1>0. /\ summary \in [Run -> Summaries] /\ held \in [Scripts -> Summaries]
      /\ pc \in [Scripts -> NotRunning \cup {"scan", "lookup", "open", "fill"}]
      /\ at \in [Scripts -> Nat \ {0}] /\ Live \subseteq Run
      /\ migrated \subseteq Run /\ Run \subseteq Nat
      /\ "size" \in Scripts /\ "kv" \in Scripts
  BY BackfillAssumption DEF TypeInv, TypeOK, Summaries, Kinds, Scripts, Run
<1>p. \A p \in Scripts : pc[p] \in Holding =>
        at[p] \in Run \ Live /\ held[p].kind = "whole"
  BY DEF TypeInv, Places
<1>x. \A p \in Scripts : pc[p] \notin NotRunning =>
        \A q \in Scripts \ {p} : pc[q] \in NotRunning
  BY DEF Damage, Exclusive
<1>c. Counted /\ DryRunsAreDry
  BY DEF Report
(* A step that neither the size script nor the files of old runs notice. *)
<1>q. ASSUME pc'["size"] = pc["size"], at'["size"] = at["size"],
             held'["size"] = held["size"], migrated' = migrated,
             \A r \in Run \ Live : summary'[r] = summary[r],
             \A p \in Scripts : held'[p].keys \subseteq held[p].keys
      PROVE  (Counted /\ DryRunsAreDry)'
  <2>1. Counted'
    <3>1. ASSUME pc["size"] \notin NotRunning, NEW r \in migrated
          PROVE  r \notin Live /\ summary'[r] = summary[r]
      BY <3>1, <1>q, <1>c, <1>0 DEF Counted
    <3> QED
      BY <3>1, <1>q, <1>c, <1>o DEF Counted
  <2>2. DryRunsAreDry'
    BY <1>q, <1>c, <1>o DEF DryRunsAreDry
  <2> QED
    BY <2>1, <2>2
(* A step after which the size script does not run. *)
<1>n. ASSUME pc'["size"] \in NotRunning, DryRunsAreDry'
      PROVE  (Counted /\ DryRunsAreDry)'
  BY <1>n DEF Counted, NotRunning
<1>1. ASSUME NEW p \in Scripts, Launch(p) PROVE (Counted /\ DryRunsAreDry)'
  <2>1. /\ pc' = [pc EXCEPT ![p] = "scan"] /\ UNCHANGED <<summary, at, held>>
        /\ migrated' = IF p = "size" THEN {} ELSE migrated
    BY <1>1 DEF Launch, GoTo, disk
  <2>2. DryRunsAreDry'
    BY <2>1, <1>c, <1>o DEF DryRunsAreDry
  <2>3. CASE p = "size"
    BY <2>1, <2>2, <2>3, <1>0 DEF Counted
  <2>4. CASE p # "size"
    <3>1. pc'["size"] = pc["size"]
      BY <2>1, <2>4, <1>0
    <3>2. pc["size"] \in NotRunning
      BY <1>1, <1>0 DEF Launch
    <3> QED
      BY <3>1, <3>2, <2>2, <1>n
  <2> QED
    BY <2>3, <2>4
<1>2. ASSUME NEW p \in Scripts, Finish(p) \/ RaiseUnreadable(p) \/ Kill(p)
      PROVE  (Counted /\ DryRunsAreDry)'
  <2>1. /\ held' = [held EXCEPT ![p] = Absent] /\ at' = [at EXCEPT ![p] = 1]
        /\ UNCHANGED <<summary, migrated>>
        /\ \E how \in NotRunning : pc' = [pc EXCEPT ![p] = how]
    BY <1>2 DEF Finish, RaiseUnreadable, Kill, Ends, GoTo, disk, NotRunning
  <2>2. \A q \in Scripts : held'[q].keys \subseteq held[q].keys
    BY <2>1, <1>0
  <2>3. CASE p = "size"
    <3>1. DryRunsAreDry'
      BY <2>1, <2>2, <1>c, <1>o DEF DryRunsAreDry
    <3> QED
      BY <2>1, <2>3, <3>1, <1>0, <1>n
  <2>4. CASE p # "size"
    BY <2>1, <2>2, <2>4, <1>0, <1>q
  <2> QED
    BY <2>3, <2>4
<1>3. ASSUME NEW p \in Scripts, Skip(p) PROVE (Counted /\ DryRunsAreDry)'
  <2>1. /\ pc[p] = "scan" /\ pc' = [pc EXCEPT ![p] = "scan"]
        /\ at' = [at EXCEPT ![p] = @ + 1] /\ held' = [held EXCEPT ![p] = Absent]
        /\ UNCHANGED <<summary, migrated>>
    BY <1>3 DEF Skip, NextRun, GoTo, disk
  <2>2. \A q \in Scripts : held'[q].keys \subseteq held[q].keys
    BY <2>1, <1>0
  <2>3. CASE p = "size"
    <3>1. DryRunsAreDry'
      BY <2>1, <2>2, <1>c, <1>o DEF DryRunsAreDry
    <3>2. pc["size"] = "scan" /\ pc'["size"] = "scan" /\ at'["size"] = at["size"] + 1
      BY <2>1, <2>3, <1>0
    <3>3. \A r \in migrated : r <= at["size"] /\ r \in Nat /\ at["size"] \in Nat
      BY <1>0, <1>c, <3>2 DEF Counted, NotRunning
    <3>4. \A r \in migrated : r <= at'["size"] /\ r # at'["size"]
      BY <3>2, <3>3
    <3>5. \A r \in migrated :
            r \notin Live /\ (~options.dryRun => "size" \in summary[r].keys)
      BY <3>2, <1>c DEF Counted, NotRunning
    <3> QED
      BY <2>1, <3>1, <3>2, <3>4, <3>5, <1>o DEF Counted
  <2>4. CASE p # "size"
    BY <2>1, <2>2, <2>4, <1>0, <1>q
  <2> QED
    BY <2>3, <2>4
<1>4. ASSUME NEW p \in Scripts, Read(p) PROVE (Counted /\ DryRunsAreDry)'
  <2>1. /\ pc[p] = "scan" /\ at[p] \in Run
        /\ pc' = [pc EXCEPT ![p] = IF p = "kv" THEN "open" ELSE "lookup"]
        /\ UNCHANGED <<summary, at, migrated>>
        /\ summary[at[p]].kind = "whole" /\ p \notin summary[at[p]].keys
        /\ held' = [held EXCEPT ![p] =
                      IF p = "kv" THEN [summary[at[p]] EXCEPT !.keys = @ \cup {"kv"}]
                                  ELSE summary[at[p]]]
    BY <1>4 DEF Read, GoTo, disk, Skipped
  <2>2. at[p] \notin Live
    BY <2>1 DEF TypeInv, Places
  <2>3. "size" \in held'[p].keys => "size" \in summary[at[p]].keys
    BY <2>1, <1>0 DEF Summaries
  <2>4. \A q \in Scripts \ {p} : held'[q] = held[q]
    BY <2>1, <1>0
  <2>5. DryRunsAreDry'
    BY <2>1, <2>2, <2>3, <2>4, <1>c, <1>o DEF DryRunsAreDry
  <2>6. CASE p = "size"
    <3>1. pc["size"] = "scan" /\ pc'["size"] = "lookup"
      BY <2>1, <2>6, <1>0
    <3> QED
      BY <2>1, <2>5, <3>1, <1>c, <1>o DEF Counted, NotRunning
  <2>7. CASE p # "size"
    <3>1. pc'["size"] = pc["size"]
      BY <2>1, <2>7, <1>0
    <3>2. pc["size"] \in NotRunning
      BY <2>1, <2>7, <1>x, <1>0 DEF NotRunning
    <3> QED
      BY <3>1, <3>2, <2>5, <1>n
  <2> QED
    BY <2>6, <2>7
<1>5. CASE Fetch
  BY <1>5, <1>q DEF Fetch, disk
<1>6. CASE Match
  <2>0. pc["size"] = "lookup" /\ at["size"] \in Run \ Live
    BY <1>6, <1>p, <1>0 DEF Match, Holding
  <2>1. PICK lib \in cache[LookedUp] :
          LET size == Parsed(lib[at["size"]])
          IN /\ migrated' = IF size = 0 THEN migrated ELSE migrated \cup {at["size"]}
             /\ IF size = 0 \/ options.dryRun
                THEN NextRun("size")
                ELSE /\ held' = [held EXCEPT !["size"] = Whole(@.keys \cup {"size"}, size)]
                     /\ GoTo("size", "open") /\ UNCHANGED at
    BY <1>6 DEF Match
  <2>2. UNCHANGED <<options, summary>>
    BY <1>6 DEF Match, disk
  <2>3. \A r \in migrated : /\ r \notin Live /\ r <= at["size"] /\ r \in Nat
                            /\ ~options.dryRun => /\ "size" \in summary[r].keys
                                                  /\ r # at["size"]
    BY <2>0, <1>c, <1>0 DEF Counted, NotRunning
  <2>4. CASE Parsed(lib[at["size"]]) = 0 \/ options.dryRun
    <3>1. /\ pc'["size"] = "scan" /\ at'["size"] = at["size"] + 1
          /\ held' = [held EXCEPT !["size"] = Absent]
      BY <2>1, <2>4, <1>0 DEF NextRun, GoTo
    <3>2. DryRunsAreDry'
      <4>1. \A q \in Scripts : held'[q].keys \subseteq held[q].keys
        BY <3>1, <1>0
      <4> QED
        BY <4>1, <2>2, <1>c DEF DryRunsAreDry
    <3>3. \A r \in migrated' : /\ r \notin Live /\ r <= at["size"] /\ r \in Nat
                               /\ ~options.dryRun => "size" \in summary[r].keys
      BY <2>0, <2>1, <2>3, <2>4, <1>0
    <3>4. at["size"] \in Nat
      BY <1>0
    <3>5. \A r \in migrated' : r <= at'["size"] /\ r # at'["size"]
      BY <3>1, <3>3, <3>4
    <3> QED
      BY <2>2, <3>1, <3>2, <3>3, <3>5 DEF Counted
  <2>5. CASE ~(Parsed(lib[at["size"]]) = 0 \/ options.dryRun)
    <3>1. /\ pc'["size"] = "open" /\ at' = at /\ migrated' = migrated \cup {at["size"]}
          /\ held'["size"] = Whole(held["size"].keys \cup {"size"},
                                   Parsed(lib[at["size"]]))
      BY <2>1, <2>5, <1>0 DEF GoTo
    <3>2. "size" \in held'["size"].keys
      BY <3>1 DEF Whole
    <3>3. \A r \in migrated' : r \notin Live /\ r <= at["size"]
      BY <3>1, <2>3, <2>0, <1>0
    <3> QED
      BY <2>2, <2>3, <2>5, <3>1, <3>2, <3>3 DEF Counted, DryRunsAreDry
  <2> QED
    BY <2>4, <2>5
<1>7. ASSUME NEW p \in Scripts, Open(p) PROVE (Counted /\ DryRunsAreDry)'
  <2>1. /\ pc[p] = "open" /\ pc' = [pc EXCEPT ![p] = "fill"]
        /\ summary' = [summary EXCEPT ![at[p]] = Broken]
        /\ UNCHANGED <<at, held, migrated>>
    BY <1>7 DEF Open, GoTo
  <2>2. DryRunsAreDry'
    BY <2>1, <1>0, <1>c, <1>o DEF DryRunsAreDry
  <2>3. CASE p = "size"
    <3>1. pc["size"] = "open" /\ pc'["size"] = "fill"
      BY <2>1, <2>3, <1>0
    <3>2. \A r \in migrated : r # at["size"] => summary'[r] = summary[r]
      BY <2>1, <2>3, <1>0
    <3> QED
      BY <2>1, <2>2, <3>1, <3>2, <1>c, <1>o DEF Counted, NotRunning
  <2>4. CASE p # "size"
    <3>1. pc'["size"] = pc["size"]
      BY <2>1, <2>4, <1>0
    <3>2. pc["size"] \in NotRunning
      BY <2>1, <2>4, <1>x, <1>0 DEF NotRunning
    <3> QED
      BY <3>1, <3>2, <2>2, <1>n
  <2> QED
    BY <2>3, <2>4
<1>8. ASSUME NEW p \in Scripts, Fill(p) PROVE (Counted /\ DryRunsAreDry)'
  <2>1. /\ pc[p] = "fill" /\ pc' = [pc EXCEPT ![p] = "scan"]
        /\ at' = [at EXCEPT ![p] = @ + 1] /\ held' = [held EXCEPT ![p] = Absent]
        /\ summary' = [summary EXCEPT ![at[p]] =
                         IF @.kind = "whole" /\ p = "kv" THEN Broken ELSE held[p]]
        /\ UNCHANGED migrated
    BY <1>8 DEF Fill, NextRun, GoTo
  <2>2. at[p] \in Run \ Live
    BY <2>1, <1>p DEF Holding
  <2>3. \A q \in Scripts : held'[q].keys \subseteq held[q].keys
    BY <2>1, <1>0
  <2>4. DryRunsAreDry'
    BY <2>1, <2>2, <2>3, <1>0, <1>c, <1>o DEF DryRunsAreDry
  <2>5. CASE p = "size"
    <3>1. /\ pc["size"] = "fill" /\ pc'["size"] = "scan"
          /\ at'["size"] = at["size"] + 1 /\ at["size"] \in Nat
          /\ summary' = [summary EXCEPT ![at["size"]] = held["size"]]
      BY <2>1, <2>5, <1>0
    <3>2. "size" \in held["size"].keys
      BY <3>1, <1>c DEF Counted
    <3>3. \A r \in migrated : /\ r \notin Live /\ r <= at["size"] /\ r \in Nat
                              /\ ~options.dryRun =>
                                   r = at["size"] \/ "size" \in summary[r].keys
      BY <3>1, <1>c, <1>0 DEF Counted, NotRunning
    <3>4. \A r \in migrated : ~options.dryRun => "size" \in summary'[r].keys
      BY <3>1, <3>2, <3>3, <1>0
    <3>5. \A r \in migrated : r <= at'["size"] /\ r # at'["size"]
      BY <3>1, <3>3
    <3> QED
      BY <2>1, <2>4, <3>1, <3>3, <3>4, <3>5, <1>o DEF Counted
  <2>6. CASE p # "size"
    <3>1. pc'["size"] = pc["size"]
      BY <2>1, <2>6, <1>0
    <3>2. pc["size"] \in NotRunning
      BY <2>1, <2>6, <1>x, <1>0 DEF NotRunning
    <3> QED
      BY <3>1, <3>2, <2>4, <1>n
  <2> QED
    BY <2>5, <2>6
<1>9. ASSUME NEW r \in Run, BeginSummary(r) \/ EndSummary(r) \/ KillBenchmark(r)
      PROVE  (Counted /\ DryRunsAreDry)'
  <2>1. r \in Live /\ UNCHANGED <<pc, at, held, migrated>>
    BY <1>9, <1>0
    DEF BeginSummary, EndSummary, KillBenchmark, memory, TypeInv, Places
  <2>2. \A q \in Run \ Live : summary'[q] = summary[q]
    BY <1>9, <2>1, <1>0 DEF BeginSummary, EndSummary, KillBenchmark
  <2> QED
    BY <2>1, <2>2, <1>q
<1>10. ASSUME NEW s \in Servers, NEW lib \in Libraries, ChangeLibrary(s, lib)
       PROVE  (Counted /\ DryRunsAreDry)'
  BY <1>10, <1>q DEF ChangeLibrary, disk, memory
<1>11. CASE UNCHANGED vars
  BY <1>11, <1>q DEF vars, disk, memory
<1> QED
  BY <1>1, <1>2, <1>3, <1>4, <1>5, <1>6, <1>7, <1>8, <1>9, <1>10, <1>11
  DEF Next, Step, Benchmark

(* A call that ends has passed every run, so its counts are final. *)
LEMMA ReportEnds ==
  TypeInv /\ Report /\ [Next]_vars =>
    (pc["size"] = "scan" /\ pc'["size"] = "done" /\ ~options.overlap =>
       \A r \in migrated : "size" \in summary[r].keys <=> ~options.dryRun)
<1> SUFFICES ASSUME TypeInv, Report, [Next]_vars, pc["size"] = "scan",
                    pc'["size"] = "done", ~options.overlap,
                    NEW r \in migrated
             PROVE  "size" \in summary[r].keys <=> ~options.dryRun
  OBVIOUS
<1>0. /\ pc \in [Scripts -> NotRunning \cup {"scan", "lookup", "open", "fill"}]
      /\ "size" \in Scripts /\ r \in Run
  BY DEF TypeInv, TypeOK, Scripts
<1>1. Finish("size")
  <2>1. \A p \in Scripts : ~Launch(p) /\ ~Skip(p) /\ ~RaiseUnreadable(p)
                           /\ ~Read(p) /\ ~Open(p) /\ ~Fill(p) /\ ~Kill(p)
    BY <1>0 DEF Launch, Skip, RaiseUnreadable, Read, Open, Fill, Kill, Ends,
                NextRun, GoTo, NotRunning
  <2>2. ~Fetch /\ ~Match
    BY DEF Fetch, Match
  <2>3. pc' # pc
    OBVIOUS
  <2>4. PICK p \in Scripts : Finish(p)
    BY <2>1, <2>2, <2>3
    DEF Next, Step, Benchmark, BeginSummary, EndSummary, KillBenchmark,
        ChangeLibrary, vars, memory
  <2> QED
    BY <2>4, <1>0 DEF Finish, Ends, GoTo
<1>2. at["size"] > N
  BY <1>1 DEF Finish
<1>3. r \in 1..N /\ N \in Nat /\ at["size"] \in Nat
  BY <1>0, BackfillAssumption DEF Run, TypeInv, TypeOK
<1>4. r # at["size"]
  BY <1>2, <1>3
<1> QED
  BY <1>0, <1>4 DEF Report, Counted, DryRunsAreDry, NotRunning

(* The messages of a call that ends are true: the runs it counted have their *)
(* size, and after a dry run none has (backfill_model_size.py 135-149).    *)
THEOREM ReportsAreTrue == Spec => ReportTruthful
<1>1. Spec => [](TypeInv /\ Damage /\ Report)
  BY ReportInit, ReportStep, DamageCorrect, PTL DEF Spec, SafeSpec
<1> QED
  BY <1>1, ReportEnds, PTL DEF ReportTruthful, Spec, SafeSpec

=============================================================================
