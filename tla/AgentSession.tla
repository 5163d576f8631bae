----------------------------- MODULE AgentSession -----------------------------
(***************************************************************************)
(* generation.py: the agent sessions of OpenCodeGenerator and PiGenerator. *)
(* A session is prepared (preflight, workspace and home, perhaps docker    *)
(* create), then either run, with retries and a timeout, or cleaned up.    *)
(* Sessions run on pool threads and share the preflight cache and its      *)
(* lock, the rate limiter of their generator, and the Docker daemon.       *)
(*                                                                         *)
(* <<s, k>> is the container of attempt k of session s; a precreated       *)
(* container is that of the first attempt.  An agent nobody waits for any  *)
(* more is taken to run on: the properties must hold without its help.     *)
(***************************************************************************)
EXTENDS Naturals, FiniteSets

CONSTANTS
  Sessions,        \* pairs whose sessions overlap
  Configs,         \* generator configurations and suites to choose from
  Interval         \* minimum interval of the rate limiter, in clock ticks

ASSUME SessionAssumption ==
  /\ IsFiniteSet(Sessions)
  /\ Interval \in Nat
  /\ Configs \subseteq [kind : {"opencode", "pi"}, precreate : BOOLEAN,
                        keep : BOOLEAN, retries : Nat, evolution : BOOLEAN]

VARIABLES
  config,
  cached,          \* the preflight cache holds an installation
  installer,       \* holders of _preflight_lock
  now, nextAt,     \* monotonic clock and _next_request_at
  \* per session
  stage, attempt, slot,
  homes,           \* opencode-home or pi-home exists
  undeleted,       \* homes whose removal failed
  exit,            \* how the last docker command of the session ended
  found,           \* what it left in the workspace and the event log
  solution,        \* what run_prepared is about to return
  \* the daemon
  containers, running,
  lost             \* containers that docker rm or a killed client left behind

preflightVars == <<cached, installer>>
limiter == <<now, nextAt, slot>>
homeDirs == <<homes, undeleted>>
outcome == <<exit, found>>
docker == <<containers, running, lost>>
vars == <<config, preflightVars, limiter, stage, attempt, homeDirs, outcome,
          solution, docker>>

Over == {"failed", "cleaned", "returned", "raised"}
Resting == Over \cup {"idle", "prepared"}

OpenCode == config.kind = "opencode"
MaxAttempts == IF OpenCode THEN 1 + config.retries ELSE 1
Current(s) == <<s, attempt[s]>>
AtPrecreated(s) == config.precreate /\ attempt[s] = 1
Kept(s) == config.keep /\ exit[s] = "timeout"

Init ==
  /\ config \in Configs
  /\ cached = FALSE /\ installer = {}
  /\ now = 0 /\ nextAt = 0
  /\ stage = [s \in Sessions |-> "idle"]
  /\ attempt = [s \in Sessions |-> 0]
  /\ slot = [s \in Sessions |-> 0]
  /\ exit = [s \in Sessions |-> "none"]
  /\ found = [s \in Sessions |-> "nothing"]
  /\ solution = [s \in Sessions |-> "none"]
  /\ homes = {} /\ undeleted = {} /\ containers = {} /\ running = {} /\ lost = {}

GoTo(s, where) == stage' = [stage EXCEPT ![s] = where]

(* docker rm -f: when it times out the container stays as it is. *)
Remove(c) ==
  \/ /\ containers' = containers \ {c}
     /\ running' = running \ {c}
     /\ UNCHANGED lost
  \/ /\ c \in containers
     /\ lost' = lost \cup {c}
     /\ UNCHANGED <<containers, running>>

(* rmtree with ignore_errors: what cannot be deleted stays. *)
RemoveHome(s) ==
  \/ homes' = homes \ {s} /\ UNCHANGED undeleted
  \/ /\ s \in homes
     /\ undeleted' = undeleted \cup {s} /\ UNCHANGED homes

-----------------------------------------------------------------------------
(* prepare().                                                              *)

Prepare(s) ==
  /\ stage[s] = "idle"
  /\ GoTo(s, "preflight")
  /\ UNCHANGED <<config, preflightVars, limiter, attempt, homeDirs, outcome,
                 solution, docker>>

EnterPreflight_FaultyUnlocked(s) ==
  /\ stage[s] = "preflight"
  /\ IF cached
     THEN GoTo(s, "layout") /\ UNCHANGED installer
     ELSE GoTo(s, "install") /\ installer' = installer \cup {s}
  /\ UNCHANGED <<config, cached, limiter, attempt, homeDirs, outcome, solution,
                 docker>>

(* Take the lock and look into the cache. *)
EnterPreflight(s) ==
  /\ stage[s] = "preflight"
  /\ installer = {}
  /\ IF cached
     THEN GoTo(s, "layout") /\ UNCHANGED installer
     ELSE GoTo(s, "install") /\ installer' = {s}
  /\ UNCHANGED <<config, cached, limiter, attempt, homeDirs, outcome, solution,
                 docker>>

(* Only an installation that succeeded is cached. *)
Install(s) ==
  /\ stage[s] = "install"
  /\ installer' = installer \ {s}
  /\ \/ cached' = TRUE /\ GoTo(s, "layout")
     \/ UNCHANGED cached /\ GoTo(s, "failed")
  /\ UNCHANGED <<config, limiter, attempt, homeDirs, outcome, solution, docker>>

(* Workspace, configuration and home; an I/O error can come at any point. *)
LayOut(s) ==
  /\ stage[s] = "layout"
  /\ \/ /\ homes' = homes \cup {s}
        /\ GoTo(s, IF config.precreate THEN "create" ELSE "prepared")
     \/ homes' \in {homes, homes \cup {s}} /\ GoTo(s, "failed")
  /\ UNCHANGED <<config, preflightVars, limiter, attempt, undeleted, outcome,
                 solution, docker>>

(* docker create.  After a failure or timeout the container is removed,    *)
(* the home is not.  PiGenerator passes the arguments without "docker      *)
(* create", which no process can be started from: it always fails.         *)
Create(s) ==
  /\ stage[s] = "create"
  /\ \/ /\ OpenCode
        /\ containers' = containers \cup {<<s, 1>>}
        /\ GoTo(s, "prepared") /\ UNCHANGED lost
     \/ GoTo(s, "failed") /\ UNCHANGED <<containers, lost>>
     \/ /\ OpenCode
        /\ containers' = containers \cup {<<s, 1>>}
        /\ lost' = lost \cup {<<s, 1>>}
        /\ GoTo(s, "failed")
  /\ UNCHANGED <<config, preflightVars, limiter, attempt, homeDirs, outcome,
                 solution, running>>

(* cleanup_prepared(), when the queue gives up before the session ran. *)
CleanupPrepared(s) ==
  /\ stage[s] = "prepared"
  /\ RemoveHome(s)
  /\ IF config.precreate THEN Remove(<<s, 1>>) ELSE UNCHANGED docker
  /\ GoTo(s, "cleaned")
  /\ UNCHANGED <<config, preflightVars, limiter, attempt, outcome, solution>>

-----------------------------------------------------------------------------
(* run_prepared(): the rate limiter (OpenCode only), then the attempts.    *)

RunPrepared(s) ==
  /\ stage[s] = "prepared"
  /\ attempt' = [attempt EXCEPT ![s] = 1]
  /\ GoTo(s, IF OpenCode THEN "throttle" ELSE "start")
  /\ UNCHANGED <<config, preflightVars, limiter, homeDirs, outcome, solution,
                 docker>>

Throttle_FaultyUnreserved(s) ==
  /\ stage[s] = "throttle"
  /\ LET at == IF nextAt > now THEN nextAt ELSE now
     IN /\ slot' = [slot EXCEPT ![s] = at]
        /\ nextAt' = IF at > now THEN at + Interval ELSE nextAt
  /\ GoTo(s, "sleep")
  /\ UNCHANGED <<config, preflightVars, now, attempt, homeDirs, outcome, solution,
                 docker>>

(* Reserve the next slot under the lock; sleep outside it. *)
Throttle(s) ==
  /\ stage[s] = "throttle"
  /\ LET at == IF nextAt > now THEN nextAt ELSE now
     IN /\ slot' = [slot EXCEPT ![s] = at]
        /\ nextAt' = at + Interval
  /\ GoTo(s, "sleep")
  /\ UNCHANGED <<config, preflightVars, now, attempt, homeDirs, outcome, solution,
                 docker>>

Wake(s) ==
  /\ stage[s] = "sleep"
  /\ now >= slot[s]
  /\ GoTo(s, "start")
  /\ UNCHANGED <<config, preflightVars, limiter, attempt, homeDirs, outcome,
                 solution, docker>>

(* Beyond _next_request_at the limiter cannot tell times apart. *)
Tick ==
  /\ now < nextAt
  /\ now' = now + 1
  /\ UNCHANGED <<config, preflightVars, nextAt, slot, stage, attempt, homeDirs,
                 outcome, solution, docker>>

(* container_name of the CommandResult.  "docker start" has no --name: the *)
(* callers put the name in, Pi only that of a container it keeps.          *)
Named(s) ==
  \/ AtPrecreated(s) /\ OpenCode
  \/ ~AtPrecreated(s) /\ exit[s] \in {"ok", "nonzero"}
  \/ Kept(s)

CommandEnds(s, how, what) ==
  /\ exit' = [exit EXCEPT ![s] = how]
  /\ found' = [found EXCEPT ![s] = what]

(* docker start --attach, or docker run --rm of a new container; the       *)
(* docker client may not even start.                                       *)
StartSession(s) ==
  /\ stage[s] = "start"
  /\ \/ /\ containers' = containers \cup {Current(s)}
        /\ running' = running \cup {Current(s)}
        /\ GoTo(s, "session")
        /\ UNCHANGED outcome
     \/ /\ CommandEnds(s, "not_started", "nothing")
        /\ GoTo(s, IF AtPrecreated(s) THEN "remove" ELSE "interpret")
        /\ UNCHANGED <<containers, running>>
  /\ UNCHANGED <<config, preflightVars, limiter, attempt, homeDirs, solution, lost>>

(* "nothing": no generated file, no event that shows a model result;       *)
(* "garbled": the file is no UTF-8 and no error is reported; "evidence":    *)
(* any other file or event, an error reported by the agent included.       *)
Findings == {"nothing", "garbled", "evidence"}

EndSession(s) ==
  /\ stage[s] = "session"
  /\ \E how \in {"ok", "nonzero"}, what \in Findings : CommandEnds(s, how, what)
  /\ running' = running \ {Current(s)}
  /\ containers' = IF AtPrecreated(s) THEN containers ELSE containers \ {Current(s)}
  /\ GoTo(s, IF AtPrecreated(s) THEN "remove" ELSE "interpret")
  /\ UNCHANGED <<config, preflightVars, limiter, attempt, homeDirs, solution, lost>>

(* Only the docker client is killed by the timeout. *)
TimeOut(s) ==
  /\ stage[s] = "session"
  /\ \E what \in Findings : CommandEnds(s, "timeout", what)
  /\ GoTo(s, IF config.keep THEN "interpret" ELSE "remove")
  /\ UNCHANGED <<config, preflightVars, limiter, attempt, homeDirs, solution, docker>>

(* Pi's event log cannot be written: the client is killed and the call     *)
(* raises; only a precreated container is removed on that way.             *)
LogFails(s) ==
  /\ stage[s] = "session"
  /\ ~OpenCode
  /\ solution' = [solution EXCEPT ![s] = "raised"]
  /\ GoTo(s, IF AtPrecreated(s) THEN "remove" ELSE "cleanup")
  /\ lost' = IF AtPrecreated(s) THEN lost ELSE lost \cup {Current(s)}
  /\ UNCHANGED <<config, preflightVars, limiter, attempt, homeDirs, outcome,
                 containers, running>>

RemoveContainer_FaultySkips(s) ==
  /\ stage[s] = "remove"
  /\ IF exit[s] = "timeout" THEN Remove(Current(s)) ELSE UNCHANGED docker
  /\ GoTo(s, IF solution[s] = "raised" THEN "cleanup" ELSE "interpret")
  /\ UNCHANGED <<config, preflightVars, limiter, attempt, homeDirs, outcome, solution>>

RemoveContainer(s) ==
  /\ stage[s] = "remove"
  /\ Remove(Current(s))
  /\ GoTo(s, IF solution[s] = "raised" THEN "cleanup" ELSE "interpret")
  /\ UNCHANGED <<config, preflightVars, limiter, attempt, homeDirs, outcome, solution>>

-----------------------------------------------------------------------------
(* _build_solution().  "answer" is anything that says something about the  *)
(* model: code, a delivery, or the lack of them.                           *)

NoModelResult(s) == OpenCode /\ ~config.evolution /\ found[s] = "nothing"

(* Reading the generated file raises; for an evolution task that is caught. *)
Unreadable(s) == ~config.evolution /\ found[s] = "garbled"

Retriable_FaultyTimeoutToo(s) ==
  /\ NoModelResult(s)
  /\ attempt[s] < MaxAttempts

Retriable(s) ==
  /\ NoModelResult(s)
  /\ exit[s] # "timeout"
  /\ attempt[s] < MaxAttempts

Retry_FaultyUncounted(s) ==
  /\ stage[s] = "interpret"
  /\ Retriable(s)
  /\ GoTo(s, "start")
  /\ UNCHANGED <<config, preflightVars, limiter, attempt, homeDirs, outcome, solution,
                 docker>>

(* The next attempt starts at once, in the same workspace and home. *)
Retry(s) ==
  /\ stage[s] = "interpret"
  /\ Retriable(s)
  /\ attempt' = [attempt EXCEPT ![s] = @ + 1]
  /\ GoTo(s, "start")
  /\ UNCHANGED <<config, preflightVars, limiter, homeDirs, outcome, solution, docker>>

Conclude(s) ==
  /\ stage[s] = "interpret"
  /\ ~Retriable(s)
  /\ solution' = [solution EXCEPT ![s] =
       IF NoModelResult(s) THEN "infrastructure_error"
       ELSE IF Unreadable(s) THEN "raised" ELSE "answer"]
  /\ GoTo(s, "cleanup")
  /\ UNCHANGED <<config, preflightVars, limiter, attempt, homeDirs, outcome, docker>>

CleanUp_FaultyAlways(s) ==
  /\ stage[s] = "cleanup"
  /\ RemoveHome(s)
  /\ GoTo(s, IF solution[s] = "raised" THEN "raised" ELSE "returned")
  /\ UNCHANGED <<config, preflightVars, limiter, attempt, outcome, solution, docker>>

(* The finally clause of run_prepared. *)
CleanUp(s) ==
  /\ stage[s] = "cleanup"
  /\ IF Kept(s) THEN UNCHANGED homeDirs ELSE RemoveHome(s)
  /\ GoTo(s, IF solution[s] = "raised" THEN "raised" ELSE "returned")
  /\ UNCHANGED <<config, preflightVars, limiter, attempt, outcome, solution, docker>>

-----------------------------------------------------------------------------
Thread(s) ==
  \/ EnterPreflight(s) \/ Install(s) \/ LayOut(s) \/ Create(s)
  \/ Throttle(s) \/ Wake(s)
  \/ StartSession(s) \/ EndSession(s) \/ TimeOut(s) \/ LogFails(s)
  \/ RemoveContainer(s) \/ Retry(s) \/ Conclude(s) \/ CleanUp(s)

Queue(s) == Prepare(s) \/ RunPrepared(s) \/ CleanupPrepared(s)

Next == Tick \/ \E s \in Sessions : Thread(s) \/ Queue(s)

SafeSpec == Init /\ [][Next]_vars

(* Time passes and a thread that can take a step takes it: every docker    *)
(* command of generation.py has a timeout.  The queue need not run what it *)
(* has prepared.                                                           *)
Spec ==
  /\ SafeSpec
  /\ WF_vars(Tick)
  /\ \A s \in Sessions : WF_vars(Thread(s))

-----------------------------------------------------------------------------
(* Properties.                                                             *)

(* Types of the shared state, of the sessions and of the daemon. *)
TypeOK ==
  /\ config \in Configs
  /\ cached \in BOOLEAN /\ installer \subseteq Sessions
  /\ now \in Nat /\ nextAt \in Nat /\ slot \in [Sessions -> Nat]
  /\ stage \in [Sessions -> Resting \cup
       {"preflight", "install", "layout", "create", "throttle", "sleep", "start",
        "session", "remove", "interpret", "cleanup"}]
  /\ attempt \in [Sessions -> Nat]
  /\ homes \subseteq Sessions /\ undeleted \subseteq homes
  /\ exit \in [Sessions -> {"none", "ok", "nonzero", "timeout", "not_started"}]
  /\ found \in [Sessions -> Findings]
  /\ solution \in [Sessions -> {"none", "answer", "infrastructure_error", "raised"}]
  /\ containers \subseteq Sessions \X Nat
  /\ running \subseteq containers
  /\ lost \subseteq containers

(* However an attempt ended, the next one never shares the workspace with  *)
(* an agent that is still running in it (generation.py 231-257, 389).      *)
AloneInWorkspace ==
  \A s \in Sessions :
    /\ Cardinality({c \in running : c[1] = s}) <= 1
    /\ stage[s] = "start" => \A c \in running : c[1] # s

(* The home of an agent is not removed under it: only a docker rm that     *)
(* failed or a killed client leaves an agent without its home.  A kept     *)
(* container keeps its home (README.md 333-336).                           *)
HomeOutlivesContainer == \A c \in running \ lost : c[1] \in homes \ undeleted

(* A session that is over has no container, whatever failed, but those     *)
(* docker could not remove and a timed-out one that is kept on request,    *)
(* whose name is reported.  The home of one that was prepared is there     *)
(* exactly when it was kept with its container or could not be deleted; of *)
(* one whose prepare failed nobody removes the home.                       *)
NothingLeft ==
  \A s \in Sessions :
    /\ stage[s] \in Over =>
         \A c \in containers \ lost :
           c[1] = s => Kept(s) /\ (stage[s] = "returned" => Named(s))
    /\ stage[s] \in Over \ {"failed"} => (s \in homes \ undeleted <=> Kept(s))

(* One thread at a time installs the agent, and none once an installation  *)
(* has succeeded: threads that waited for the lock look into the cache.    *)
InstalledOnce ==
  /\ Cardinality(installer) <= 1
  /\ cached => installer = {}

(* The slots reserved for first attempts lie at least one interval apart   *)
(* and no first attempt starts before its slot, in whatever order threads  *)
(* reach the limiter and wake up.  The starts themselves may come closer:  *)
(* a thread that wakes late can start together with the next one.          *)
HasSlot(s) == attempt[s] > 0 /\ stage[s] # "throttle"

Spaced ==
  OpenCode =>
    /\ \A s, u \in Sessions :
         s # u /\ HasSlot(s) /\ HasSlot(u) =>
           slot[s] >= slot[u] + Interval \/ slot[u] >= slot[s] + Interval
    /\ \A s \in Sessions : HasSlot(s) /\ stage[s] # "sleep" => slot[s] <= now

(* Every session start has waited for a slot of the limiter, which throttles *)
(* "the start of OpenCode sessions" (README.md 592): a retry starts a       *)
(* session of its own, without waiting.                                     *)
StartsThrottled ==
  [][\A s \in Sessions :
       OpenCode /\ stage[s] # "start" /\ stage'[s] = "start" => stage[s] = "sleep"]_vars

(* A session that has begun is prepared or comes to an end: retries are    *)
(* bounded, and no session waits for ever for the lock or for its slot.    *)
SessionsEnd ==
  \A s \in Sessions : stage[s] \notin Resting ~> stage[s] \in Resting
=============================================================================
