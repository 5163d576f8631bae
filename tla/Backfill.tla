------------------------------- MODULE Backfill -------------------------------
(***************************************************************************)
(* scripts/backfill_kv_cache_quantization.py and backfill_model_size.py:   *)
(* each walks over the run directories in the order of their names and     *)
(* adds one kind of metadata to the summaries that lack its key.  A script *)
(* reads a summary, decides, truncates the file and writes it; it may be   *)
(* killed, or run beside the other script or a benchmark whose summary is  *)
(* not written yet.                                                        *)
(*                                                                         *)
(* A script is named after the key it adds.  Of the contents of a summary  *)
(* the model keeps the keys that are present and the size, 0 for null; of  *)
(* the messages only the runs counted as migrated.                         *)
(***************************************************************************)
EXTENDS Naturals, FiniteSets

CONSTANTS
  N,               \* run directories, numbered in the order of their names
  Servers,         \* LM Studio servers that are local for is_local_server
  Server,          \* server of each run, "public" if it is not a local one
  Live,            \* runs whose benchmark has not written its summary yet
  Sizes,           \* model sizes in use
  Libraries,       \* what GET /api/v1/models can say about the models of the runs
  Options,         \* how the scripts may be called
  MaxFaults        \* bound: kills and changes of a library

Run == 1..N
Scripts == {"kv", "size"}
Public == "public"

(* What a library says about a model: its size, 0 if none, and whether the  *)
(* entry groups several variants.  A model that is not found is unsized.   *)
Entry == [size : Sizes \cup {0}, grouped : BOOLEAN]

ASSUME BackfillAssumption ==
  /\ N \in Nat
  /\ Public \notin Servers
  /\ Server \in [Run -> Servers \cup {Public}]
  /\ Live \subseteq Run
  /\ Sizes \subseteq Nat \ {0}
  /\ Libraries \subseteq [Run -> Entry]
  /\ Options \subseteq [dryRun : BOOLEAN, overlap : BOOLEAN,
                        baseUrl : Servers \cup {Public, "own"}]
  /\ MaxFaults \in Nat

VARIABLES
  options,         \* of every call; overlap: the user runs both scripts at once
  summary,         \* summary.json of each run
  bench,           \* the benchmark of each run
  library,         \* current answer of each server
  \* per script
  pc, at,          \* at: run directory of the loop
  held,            \* data: the summary it will write
  \* of the size script
  cache,           \* models_by_root: the answer kept for a server, if any
  migrated,
  \* bound and history
  faults,
  hurt,            \* runs whose summary was being written at a kill
  offered          \* <<server, run, size>> of every unambiguous entry so far

disk == <<summary, hurt>>
memory == <<pc, at, held, cache, migrated>>
servers == <<library, offered>>
vars == <<options, disk, bench, servers, memory, faults>>

Absent == [kind |-> "absent", keys |-> {}, size |-> 0]
Broken == [Absent EXCEPT !.kind = "broken"]
Whole(keys, size) == [kind |-> "whole", keys |-> keys, size |-> size]

NotRunning == {"idle", "raised", "done"}

(* parse_model_meta withholds the size of a grouped entry. *)
Parsed(entry) == IF entry.grouped THEN 0 ELSE entry.size

(* Sizes that a library offers for good. *)
Offers(s, lib) == {<<s, r, Parsed(lib[r])>> : r \in {q \in Run : Parsed(lib[q]) # 0}}

(* derive_base_root(args.base_url or base_url) *)
Root(r) == IF options.baseUrl = "own" THEN Server[r] ELSE options.baseUrl

Init ==
  /\ options \in Options
  /\ summary = [r \in Run |-> IF r \in Live THEN Absent ELSE Whole({}, 0)]
  /\ bench = [r \in Run |-> IF r \in Live THEN "running" ELSE "over"]
  /\ library \in [Servers -> Libraries]
  /\ pc = [p \in Scripts |-> "idle"]
  /\ at = [p \in Scripts |-> 1]
  /\ held = [p \in Scripts |-> Absent]
  /\ cache = [s \in Servers |-> {}]
  /\ migrated = {}
  /\ faults = 0
  /\ hurt = {}
  /\ offered = UNION {Offers(s, library[s]) : s \in Servers}

-----------------------------------------------------------------------------
(* One call of a script.                                                   *)

GoTo(p, where) == pc' = [pc EXCEPT ![p] = where]

(* The next turn of the loop, with nothing in hand. *)
NextRun(p) ==
  /\ GoTo(p, "scan")
  /\ at' = [at EXCEPT ![p] = @ + 1]
  /\ held' = [held EXCEPT ![p] = Absent]

Ends_FaultyKeepsCache(p, how) ==
  /\ GoTo(p, how)
  /\ at' = [at EXCEPT ![p] = 1]
  /\ held' = [held EXCEPT ![p] = Absent]
  /\ UNCHANGED cache

(* The process ends and its memory is gone. *)
Ends(p, how) ==
  /\ GoTo(p, how)
  /\ at' = [at EXCEPT ![p] = 1]
  /\ held' = [held EXCEPT ![p] = Absent]
  /\ cache' = IF p = "size" THEN [s \in Servers |-> {}] ELSE cache

(* main(): the listing of the directories, an empty models_by_root. *)
Launch(p) ==
  /\ pc[p] \in NotRunning
  /\ options.overlap \/ \A q \in Scripts : pc[q] \in NotRunning
  /\ GoTo(p, "scan")
  /\ migrated' = IF p = "size" THEN {} ELSE migrated
  /\ UNCHANGED <<options, disk, bench, servers, at, held, cache, faults>>

Finish(p) ==
  /\ pc[p] = "scan" /\ at[p] > N
  /\ Ends(p, "done")
  /\ UNCHANGED <<options, disk, bench, servers, migrated, faults>>

(* No summary yet, the key is there ("even if null"), or a remote server.  *)
Skipped(p, r) ==
  \/ summary[r].kind = "absent"
  \/ summary[r].kind = "whole" /\ p \in summary[r].keys
  \/ summary[r].kind = "whole" /\ p = "size" /\ Root(r) \notin Servers

Skip(p) ==
  /\ pc[p] = "scan" /\ at[p] \in Run
  /\ Skipped(p, at[p])
  /\ NextRun(p)
  /\ UNCHANGED <<options, disk, bench, servers, cache, migrated, faults>>

(* json.loads raises out of main(). *)
RaiseUnreadable(p) ==
  /\ pc[p] = "scan" /\ at[p] \in Run
  /\ summary[at[p]].kind = "broken"
  /\ Ends(p, "raised")
  /\ UNCHANGED <<options, disk, bench, servers, migrated, faults>>

Read_FaultyOpensEarly(p) ==
  /\ pc[p] = "scan" /\ at[p] \in Run
  /\ LET data == summary[at[p]]
     IN /\ data.kind = "whole"
        /\ ~Skipped(p, at[p])
        /\ held' = [held EXCEPT ![p] =
                      IF p = "kv" THEN [data EXCEPT !.keys = @ \cup {"kv"}] ELSE data]
  /\ summary' = [summary EXCEPT ![at[p]] = Broken]
  /\ GoTo(p, IF p = "kv" THEN "open" ELSE "lookup")
  /\ UNCHANGED <<options, hurt, bench, servers, at, cache, migrated, faults>>

(* The kv script knows its value at once, the size script looks it up. *)
Read(p) ==
  /\ pc[p] = "scan" /\ at[p] \in Run
  /\ LET data == summary[at[p]]
     IN /\ data.kind = "whole"
        /\ ~Skipped(p, at[p])
        /\ held' = [held EXCEPT ![p] =
                      IF p = "kv" THEN [data EXCEPT !.keys = @ \cup {"kv"}] ELSE data]
  /\ GoTo(p, IF p = "kv" THEN "open" ELSE "lookup")
  /\ UNCHANGED <<options, disk, bench, servers, at, cache, migrated, faults>>

LookedUp == Root(at["size"])

Fetch_FaultyOneCache ==
  /\ pc["size"] = "lookup"
  /\ cache[LookedUp] = {}
  /\ cache' = [s \in Servers |-> {library[LookedUp]}]
  /\ UNCHANGED <<options, disk, bench, servers, pc, at, held, migrated, faults>>

(* Each server root is asked once in a call, however it answers. *)
Fetch ==
  /\ pc["size"] = "lookup"
  /\ cache[LookedUp] = {}
  /\ cache' = [cache EXCEPT ![LookedUp] = {library[LookedUp]}]
  /\ UNCHANGED <<options, disk, bench, servers, pc, at, held, migrated, faults>>

Match_FaultyCountsUnsized ==
  /\ pc["size"] = "lookup"
  /\ \E lib \in cache[LookedUp] :
       LET size == Parsed(lib[at["size"]])
       IN /\ migrated' = migrated \cup {at["size"]}
          /\ IF size = 0 \/ options.dryRun
             THEN NextRun("size")
             ELSE /\ held' = [held EXCEPT !["size"] = Whole(@.keys \cup {"size"}, size)]
                  /\ GoTo("size", "open") /\ UNCHANGED at
  /\ UNCHANGED <<options, disk, bench, servers, cache, faults>>

(* Without a size the run is left alone; a dry run only counts it. *)
Match ==
  /\ pc["size"] = "lookup"
  /\ \E lib \in cache[LookedUp] :
       LET size == Parsed(lib[at["size"]])
       IN /\ migrated' = IF size = 0 THEN migrated ELSE migrated \cup {at["size"]}
          /\ IF size = 0 \/ options.dryRun
             THEN NextRun("size")
             ELSE /\ held' = [held EXCEPT !["size"] = Whole(@.keys \cup {"size"}, size)]
                  /\ GoTo("size", "open") /\ UNCHANGED at
  /\ UNCHANGED <<options, disk, bench, servers, cache, faults>>

(* write_text: the file is opened for writing, which truncates it ... *)
Open(p) ==
  /\ pc[p] = "open"
  /\ summary' = [summary EXCEPT ![at[p]] = Broken]
  /\ GoTo(p, "fill")
  /\ UNCHANGED <<options, hurt, bench, servers, at, held, cache, migrated, faults>>

(* ... and written from its start.  If the other script has filled it since, *)
(* the longer text wins or, written first, sticks out behind the shorter    *)
(* one: that with the size is the longer.                                   *)
Fill(p) ==
  /\ pc[p] = "fill"
  /\ summary' = [summary EXCEPT ![at[p]] =
                   IF @.kind = "whole" /\ p = "kv" THEN Broken ELSE held[p]]
  /\ NextRun(p)
  /\ UNCHANGED <<options, hurt, bench, servers, cache, migrated, faults>>

-----------------------------------------------------------------------------
(* The benchmark, the servers, and kills.                                  *)

(* write_summary() of a benchmark that is still running: all keys are there. *)
BeginSummary(r) ==
  /\ bench[r] = "running"
  /\ bench' = [bench EXCEPT ![r] = "writing"]
  /\ summary' = [summary EXCEPT ![r] = Broken]
  /\ UNCHANGED <<options, hurt, servers, memory, faults>>

EndSummary(r) ==
  /\ bench[r] = "writing"
  /\ bench' = [bench EXCEPT ![r] = "over"]
  /\ \E size \in Sizes \cup {0} :
       summary' = [summary EXCEPT ![r] = Whole(Scripts, size)]
  /\ UNCHANGED <<options, hurt, servers, memory, faults>>

Kill(p) ==
  /\ faults < MaxFaults
  /\ pc[p] \notin NotRunning
  /\ Ends(p, "idle")
  /\ hurt' = IF pc[p] = "fill" THEN hurt \cup {at[p]} ELSE hurt
  /\ faults' = faults + 1
  /\ UNCHANGED <<options, summary, bench, servers, migrated>>

KillBenchmark(r) ==
  /\ faults < MaxFaults
  /\ bench[r] = "writing"
  /\ bench' = [bench EXCEPT ![r] = "over"]
  /\ hurt' = hurt \cup {r}
  /\ faults' = faults + 1
  /\ UNCHANGED <<options, summary, servers, memory>>

(* Models come and go; a server that is down has nothing to say. *)
ChangeLibrary(s, lib) ==
  /\ faults < MaxFaults
  /\ library' = [library EXCEPT ![s] = lib]
  /\ offered' = offered \cup Offers(s, lib)
  /\ faults' = faults + 1
  /\ UNCHANGED <<options, disk, bench, memory>>

-----------------------------------------------------------------------------
Step(p) ==
  \/ Finish(p) \/ Skip(p) \/ RaiseUnreadable(p) \/ Read(p) \/ Open(p) \/ Fill(p)
  \/ p = "size" /\ (Fetch \/ Match)

Benchmark(r) == BeginSummary(r) \/ EndSummary(r)

Next ==
  \/ \E p \in Scripts : Launch(p) \/ Step(p) \/ Kill(p)
  \/ \E r \in Run : Benchmark(r) \/ KillBenchmark(r)
  \/ \E s \in Servers, lib \in Libraries : ChangeLibrary(s, lib)

SafeSpec == Init /\ [][Next]_vars

(* A script and a benchmark that run go on.  That the user calls each       *)
(* script again and again is the assumption of Converges.                  *)
Spec ==
  /\ SafeSpec
  /\ \A p \in Scripts : WF_vars(Step(p)) /\ SF_vars(Launch(p))
  /\ \A r \in Run : WF_vars(Benchmark(r))

-----------------------------------------------------------------------------
(* Properties.                                                             *)

(* Types of the files, of the servers and of the scripts' memory. *)
TypeOK ==
  /\ options \in Options
  /\ summary \in [Run -> [kind : {"absent", "broken", "whole"}, keys : SUBSET Scripts,
                          size : Sizes \cup {0}]]
  /\ bench \in [Run -> {"running", "writing", "over"}]
  /\ library \in [Servers -> Libraries]
  /\ pc \in [Scripts -> NotRunning \cup {"scan", "lookup", "open", "fill"}]
  /\ at \in [Scripts -> Nat \ {0}]
  /\ held \in [Scripts -> [kind : {"absent", "broken", "whole"}, keys : SUBSET Scripts,
                           size : Sizes \cup {0}]]
  /\ cache \in [Servers -> SUBSET Libraries]
  /\ migrated \subseteq Run
  /\ faults \in 0..MaxFaults
  /\ hurt \subseteq Run
  /\ offered \subseteq Servers \X Run \X Sizes

BeingWritten(r) ==
  \/ bench[r] = "writing"
  \/ \E p \in Scripts : pc[p] = "fill" /\ at[p] = r

(* A summary that nobody is writing can be read, unless a kill hit its      *)
(* writer or the user runs both scripts at once: whatever a script finds    *)
(* out about a run, it never gives up a file that it has truncated.        *)
OnlyKillsDamage ==
  \A r \in Run :
    summary[r].kind = "broken" =>
      BeingWritten(r) \/ r \in hurt \/ options.overlap

(* Every backfilled size was offered for that run's model, without doubt    *)
(* about the variant, by the server the call asks for that run: its own     *)
(* unless --base-url names another one.  Answers of one server are never    *)
(* taken for another's, and without --base-url no run of a remote server    *)
(* has a size.                                                              *)
SizesGenuine ==
  \A r \in Run \ Live :
    summary[r].size # 0 => <<Root(r), r, summary[r].size>> \in offered

(* What a call reports when it ends is what the files say: the runs counted *)
(* as migrated have their size, after a dry run none of them has.           *)
ReportTruthful ==
  [][pc["size"] = "scan" /\ pc'["size"] = "done" /\ ~options.overlap =>
       \A r \in migrated : "size" \in summary[r].keys <=> ~options.dryRun]_vars

(* If the user keeps calling both scripts, together or in turn, every old   *)
(* run gets its kv key, and its size if a server offers one: an update that *)
(* the other script overwrites, an answer that came too early or a summary  *)
(* that was not complete yet is made up for by a later call.  Only an       *)
(* unreadable summary prevents it, for its own run and those after it.     *)
Backfilled(r) ==
  /\ "kv" \in summary[r].keys
  /\ ~options.dryRun /\ Root(r) \in Servers =>
       Parsed(library[Root(r)][r]) = 0 \/ "size" \in summary[r].keys

Converges ==
  <>[](\A r \in Run \ Live :
         Backfilled(r) \/ \E q \in 1..r : summary[q].kind = "broken")

(* Claimed at scripts/backfill_model_size.py 9: "Cloud/remote runs          *)
(* (non-loopback base_url) are never touched".                              *)
CloudRunsUntouched ==
  \A r \in Run \ Live : Server[r] = Public => "size" \notin summary[r].keys
=============================================================================
