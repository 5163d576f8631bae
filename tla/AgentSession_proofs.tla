-------------------------- MODULE AgentSession_proofs --------------------------
(***************************************************************************)
(* Proofs about AgentSession, for any number of sessions, retries and       *)
(* ticks: the types, the lock around the preflight, the spacing of slots,  *)
(* and the fate of containers, agents and homes.                           *)
(***************************************************************************)
EXTENDS AgentSession, FiniteSetTheorems, TLAPS

SessionStage ==
  Resting \cup {"preflight", "install", "layout", "create", "throttle", "sleep",
                "start", "session", "remove", "interpret", "cleanup"}
ExitKind == {"none", "ok", "nonzero", "timeout", "not_started"}

(* Stages before run_prepared(), in the limiter, and from the first start. *)
Before == {"idle", "preflight", "install", "layout", "create", "prepared",
           "failed", "cleaned"}
Waiting == {"throttle", "sleep"}
Working == {"start", "session", "remove", "interpret", "cleanup", "returned", "raised"}

Types ==
  /\ config \in Configs
  /\ cached \in BOOLEAN /\ installer \subseteq Sessions
  /\ now \in Nat /\ nextAt \in Nat /\ slot \in [Sessions -> Nat]
  /\ stage \in [Sessions -> SessionStage]
  /\ attempt \in [Sessions -> Nat]
  /\ homes \subseteq Sessions /\ undeleted \subseteq Sessions
  /\ exit \in [Sessions -> ExitKind]
  /\ found \in [Sessions -> Findings]
  /\ solution \in [Sessions -> {"none", "answer", "infrastructure_error", "raised"}]
  /\ containers \subseteq Sessions \X Nat
  /\ running \subseteq containers
  /\ lost \subseteq Sessions \X Nat

LEMMA TypesInit == Init => Types
<1> SUFFICES ASSUME Init PROVE Types
  OBVIOUS
<1>1. /\ config \in Configs /\ cached \in BOOLEAN
      /\ now \in Nat /\ nextAt \in Nat /\ slot \in [Sessions -> Nat]
      /\ attempt \in [Sessions -> Nat]
  BY DEF Init
<1>2. /\ stage \in [Sessions -> SessionStage] /\ exit \in [Sessions -> ExitKind]
      /\ found \in [Sessions -> Findings]
      /\ solution \in [Sessions -> {"none", "answer", "infrastructure_error", "raised"}]
  BY DEF Init, SessionStage, Resting, ExitKind, Findings
<1>3. /\ installer \subseteq Sessions
      /\ homes \subseteq Sessions /\ undeleted \subseteq Sessions
      /\ containers \subseteq Sessions \X Nat /\ running \subseteq containers
      /\ lost \subseteq Sessions \X Nat
  BY DEF Init
<1> QED
  BY <1>1, <1>2, <1>3 DEF Types

(* Every action keeps the types. *)
LEMMA TypesStep == Types /\ [Next]_vars => Types'
<1> SUFFICES ASSUME Types, [Next]_vars PROVE Types'
  OBVIOUS
<1> USE DEF Types, homeDirs
<1>1. CASE Tick
  BY <1>1 DEF Tick, preflightVars, outcome, docker
<1>2. ASSUME NEW s \in Sessions, Prepare(s) \/ EnterPreflight(s) \/ Install(s)
      PROVE  Types'
  BY <1>2
  DEF Prepare, EnterPreflight, Install, GoTo, preflightVars, limiter, outcome, docker,
      SessionStage, Resting, Over
<1>3. ASSUME NEW s \in Sessions, LayOut(s) PROVE Types'
  BY <1>3
  DEF LayOut, GoTo, preflightVars, limiter, outcome, docker, SessionStage, Resting, Over
<1>4. ASSUME NEW s \in Sessions, Create(s) PROVE Types'
  BY <1>4
  DEF Create, GoTo, preflightVars, limiter, outcome, SessionStage, Resting, Over
<1>5. ASSUME NEW s \in Sessions, CleanupPrepared(s) PROVE Types'
  BY <1>5
  DEF CleanupPrepared, Remove, RemoveHome, GoTo, preflightVars, limiter, outcome,
      docker, SessionStage, Resting, Over
<1>6. ASSUME NEW s \in Sessions, RunPrepared(s) \/ Wake(s) PROVE Types'
  BY <1>6
  DEF RunPrepared, Wake, GoTo, preflightVars, limiter, outcome, docker,
      SessionStage
<1>7. ASSUME NEW s \in Sessions, Throttle(s) PROVE Types'
  BY <1>7, SessionAssumption
  DEF Throttle, GoTo, preflightVars, outcome, docker, SessionStage
<1>8. ASSUME NEW s \in Sessions, StartSession(s) PROVE Types'
  BY <1>8
  DEF StartSession, CommandEnds, GoTo, preflightVars, limiter, outcome, Current,
      SessionStage, ExitKind, Findings
<1>9. ASSUME NEW s \in Sessions, EndSession(s) \/ TimeOut(s) PROVE Types'
  BY <1>9
  DEF EndSession, TimeOut, CommandEnds, GoTo, preflightVars, limiter, docker,
      SessionStage, ExitKind, Findings
<1>10. ASSUME NEW s \in Sessions, LogFails(s) PROVE Types'
  BY <1>10
  DEF LogFails, GoTo, preflightVars, limiter, outcome, Current, SessionStage
<1>11. ASSUME NEW s \in Sessions, RemoveContainer(s) PROVE Types'
  BY <1>11
  DEF RemoveContainer, Remove, GoTo, preflightVars, limiter, outcome, Current,
      SessionStage
<1>12. ASSUME NEW s \in Sessions, Retry(s) \/ Conclude(s) PROVE Types'
  BY <1>12
  DEF Retry, Conclude, GoTo, preflightVars, limiter, outcome, docker, SessionStage
<1>13. ASSUME NEW s \in Sessions, CleanUp(s) PROVE Types'
  BY <1>13
  DEF CleanUp, RemoveHome, GoTo, preflightVars, limiter, outcome, docker,
      SessionStage, Resting, Over
<1>14. CASE UNCHANGED vars
  BY <1>14 DEF vars, preflightVars, limiter, outcome, docker
<1> QED
  BY <1>1, <1>2, <1>3, <1>4, <1>5, <1>6, <1>7, <1>8, <1>9, <1>10, <1>11, <1>12,
     <1>13, <1>14 DEF Next, Thread, Queue

LEMMA TypesCorrect == Spec => []Types
  BY TypesInit, TypesStep, PTL DEF Spec, SafeSpec

-----------------------------------------------------------------------------
(* The preflight lock.                                                     *)

(* Whoever installs holds the lock, alone, and before the cache is filled. *)
Locked ==
  /\ \A s \in Sessions : s \in installer <=> stage[s] = "install"
  /\ \A s, u \in installer : s = u
  /\ cached => installer = {}

LEMMA LockedInit == Init => Locked
BY DEF Init, Locked

LEMMA LockedStep == Types /\ Locked /\ [Next]_vars => Locked'
<1> SUFFICES ASSUME Types, Locked, [Next]_vars PROVE Locked'
  OBVIOUS
<1>0. stage \in [Sessions -> SessionStage] /\ installer \subseteq Sessions
  BY DEF Types
<1>q. ASSUME NEW s \in Sessions, UNCHANGED preflightVars, NEW where,
             stage' = [stage EXCEPT ![s] = where],
             stage[s] # "install", where # "install"
      PROVE  Locked'
  BY <1>q, <1>0 DEF Locked, preflightVars
<1>1. ASSUME NEW s \in Sessions, EnterPreflight(s) \/ Install(s) PROVE Locked'
  BY <1>1, <1>0 DEF EnterPreflight, Install, GoTo, Locked
<1>2. ASSUME NEW s \in Sessions,
             \/ Prepare(s) \/ LayOut(s) \/ Create(s) \/ CleanupPrepared(s)
             \/ RunPrepared(s) \/ Throttle(s) \/ Wake(s)
      PROVE  Locked'
  <2>1. UNCHANGED preflightVars /\ stage[s] # "install"
    BY <1>2
    DEF Prepare, LayOut, Create, CleanupPrepared, RunPrepared, Throttle, Wake
  <2>2. \E where : where # "install" /\ stage' = [stage EXCEPT ![s] = where]
    BY <1>2
    DEF Prepare, LayOut, Create, CleanupPrepared, RunPrepared, Throttle, Wake, GoTo
  <2> QED
    BY <2>1, <2>2, <1>q
<1>3. ASSUME NEW s \in Sessions,
             \/ StartSession(s) \/ EndSession(s) \/ TimeOut(s) \/ LogFails(s)
             \/ RemoveContainer(s) \/ Retry(s) \/ Conclude(s) \/ CleanUp(s)
      PROVE  Locked'
  <2>1. UNCHANGED preflightVars /\ stage[s] # "install"
    BY <1>3
    DEF StartSession, EndSession, TimeOut, LogFails, RemoveContainer, Retry, Conclude,
        CleanUp
  <2>2. \E where : where # "install" /\ stage' = [stage EXCEPT ![s] = where]
    BY <1>3
    DEF StartSession, EndSession, TimeOut, LogFails, RemoveContainer, Retry, Conclude,
        CleanUp, GoTo
  <2> QED
    BY <2>1, <2>2, <1>q
<1>4. CASE Tick \/ UNCHANGED vars
  BY <1>4 DEF Tick, vars, preflightVars, Locked
<1> QED
  BY <1>1, <1>2, <1>3, <1>4 DEF Next, Thread, Queue

(* At most one thread installs the agent, and none after an installation    *)
(* that succeeded (generation.py 147-166).                                 *)
THEOREM OnceInstalled == Spec => []InstalledOnce
<1>1. Locked => InstalledOnce
  <2> SUFFICES ASSUME Locked PROVE InstalledOnce
    OBVIOUS
  <2>1. CASE installer = {}
    BY <2>1, FS_EmptySet DEF InstalledOnce
  <2>2. CASE installer # {}
    <3>1. PICK s : installer = {s}
      BY <2>2 DEF Locked
    <3>2. Cardinality({s}) = 1
      BY FS_Singleton
    <3> QED
      BY <3>1, <3>2 DEF Locked, InstalledOnce
  <2> QED
    BY <2>1, <2>2
<1>2. Spec => [](Types /\ Locked)
  BY LockedInit, LockedStep, TypesCorrect, PTL DEF Spec, SafeSpec
<1> QED
  BY <1>1, <1>2, PTL

-----------------------------------------------------------------------------
(* The rate limiter.                                                       *)

(* Attempts are counted from the first start, before which no command of    *)
(* the session has ended.                                                  *)
Counted ==
  \A s \in Sessions :
    /\ stage[s] \in Before => attempt[s] = 0 /\ exit[s] = "none"
    /\ stage[s] \in Waiting => attempt[s] = 1 /\ exit[s] = "none"
    /\ stage[s] \in Working => attempt[s] >= 1

LEMMA CountedInit == Init => Counted
BY DEF Init, Counted, Before, Waiting, Working

LEMMA CountedStep == Types /\ Counted /\ [Next]_vars => Counted'
<1> SUFFICES ASSUME Types, Counted, [Next]_vars PROVE Counted'
  OBVIOUS
<1>0. /\ stage \in [Sessions -> SessionStage] /\ attempt \in [Sessions -> Nat]
      /\ exit \in [Sessions -> ExitKind]
  BY DEF Types
<1> USE DEF Before, Waiting, Working
<1>1. ASSUME NEW s \in Sessions,
             \/ Prepare(s) \/ EnterPreflight(s) \/ Install(s) \/ LayOut(s) \/ Create(s)
             \/ CleanupPrepared(s)
      PROVE  Counted'
  <2>1. /\ stage[s] \in Before /\ UNCHANGED <<attempt, outcome>>
        /\ \E where \in Before : stage' = [stage EXCEPT ![s] = where]
    BY <1>1
    DEF Prepare, EnterPreflight, Install, LayOut, Create, CleanupPrepared, GoTo
  <2> QED
    BY <2>1, <1>0 DEF Counted, outcome
<1>2. ASSUME NEW s \in Sessions, RunPrepared(s) PROVE Counted'
  BY <1>2, <1>0 DEF RunPrepared, GoTo, Counted, outcome
<1>3. ASSUME NEW s \in Sessions, Throttle(s) \/ Wake(s) PROVE Counted'
  BY <1>3, <1>0 DEF Throttle, Wake, GoTo, Counted, outcome, limiter
<1>4. ASSUME NEW s \in Sessions,
             \/ StartSession(s) \/ EndSession(s) \/ TimeOut(s) \/ LogFails(s)
             \/ RemoveContainer(s) \/ Retry(s) \/ Conclude(s) \/ CleanUp(s)
      PROVE  Counted'
  <2>1. /\ stage[s] \in Working
        /\ \E where \in Working : stage' = [stage EXCEPT ![s] = where]
    BY <1>4
    DEF StartSession, EndSession, TimeOut, LogFails, RemoveContainer, Retry, Conclude,
        CleanUp, GoTo
  <2>2. /\ attempt' \in {attempt, [attempt EXCEPT ![s] = @ + 1]}
        /\ \A u \in Sessions \ {s} : exit'[u] = exit[u]
    BY <1>4, <1>0
    DEF StartSession, EndSession, TimeOut, LogFails, RemoveContainer, Retry, Conclude,
        CleanUp, CommandEnds, outcome
  <2> QED
    BY <2>1, <2>2, <1>0 DEF Counted
<1>5. CASE Tick \/ UNCHANGED vars
  BY <1>5 DEF Tick, vars, outcome, Counted
<1> QED
  BY <1>1, <1>2, <1>3, <1>4, <1>5 DEF Next, Thread, Queue

LEMMA CountedCorrect == Spec => [](Types /\ Counted)
  BY CountedInit, CountedStep, TypesCorrect, PTL DEF Spec, SafeSpec

(* The slot that is free next lies an interval behind every slot given out. *)
Reserved ==
  OpenCode => \A s \in Sessions : HasSlot(s) => slot[s] + Interval <= nextAt

Throttled == Spaced /\ Reserved

LEMMA ThrottledInit == Init => Throttled
BY DEF Init, Throttled, Spaced, Reserved, HasSlot

LEMMA ThrottledStep == Types /\ Counted /\ Throttled /\ [Next]_vars => Throttled'
<1> SUFFICES ASSUME Types, Counted, Throttled, [Next]_vars PROVE Throttled'
  OBVIOUS
<1>o. UNCHANGED config
  BY DEF Next, Tick, Thread, Queue, Prepare, EnterPreflight, Install, LayOut, Create,
         CleanupPrepared, RunPrepared, Throttle, Wake, StartSession, EndSession, TimeOut,
         LogFails, RemoveContainer, Retry, Conclude, CleanUp, vars
<1> SUFFICES ASSUME OpenCode PROVE Throttled'
  BY <1>o DEF Throttled, Spaced, Reserved, OpenCode
<1>0. /\ stage \in [Sessions -> SessionStage] /\ attempt \in [Sessions -> Nat]
      /\ slot \in [Sessions -> Nat] /\ now \in Nat /\ nextAt \in Nat /\ Interval \in Nat
  BY SessionAssumption DEF Types
<1>i. /\ \A s, u \in Sessions :
           s # u /\ HasSlot(s) /\ HasSlot(u) =>
             slot[s] >= slot[u] + Interval \/ slot[u] >= slot[s] + Interval
      /\ \A s \in Sessions : HasSlot(s) /\ stage[s] # "sleep" => slot[s] <= now
      /\ \A s \in Sessions : HasSlot(s) => slot[s] + Interval <= nextAt
  BY DEF Throttled, Spaced, Reserved
(* A step beside the limiter: nobody gets a slot or leaves "sleep" early. *)
<1>q. ASSUME UNCHANGED <<slot, nextAt>>, now' \in Nat, now <= now',
             \A s \in Sessions :
               HasSlot(s)' => /\ HasSlot(s)
                              /\ stage'[s] # "sleep" =>
                                   stage[s] # "sleep" \/ slot[s] <= now
      PROVE  Throttled'
  <2>1. \A s \in Sessions : HasSlot(s)' /\ stage'[s] # "sleep" => slot[s] <= now'
    BY <1>q, <1>i, <1>0
  <2> QED
    BY <1>q, <1>i, <2>1, <1>o DEF Throttled, Spaced, Reserved, OpenCode
<1>1. ASSUME NEW s \in Sessions,
             \/ Prepare(s) \/ EnterPreflight(s) \/ Install(s) \/ LayOut(s) \/ Create(s)
             \/ CleanupPrepared(s)
      PROVE  Throttled'
  <2>1. stage[s] \in Before /\ UNCHANGED <<attempt, limiter>>
        /\ \E where : stage' = [stage EXCEPT ![s] = where]
    BY <1>1
    DEF Prepare, EnterPreflight, Install, LayOut, Create, CleanupPrepared, GoTo, Before
  <2>2. attempt[s] = 0 /\ \A u \in Sessions \ {s} : stage'[u] = stage[u]
    BY <2>1, <1>0 DEF Counted
  <2> QED
    BY <2>1, <2>2, <1>q, <1>0 DEF HasSlot, limiter
<1>2. ASSUME NEW s \in Sessions, RunPrepared(s) PROVE Throttled'
  <2>1. /\ stage'[s] = "throttle" /\ UNCHANGED limiter
        /\ \A u \in Sessions \ {s} : stage'[u] = stage[u] /\ attempt'[u] = attempt[u]
    BY <1>2, <1>0 DEF RunPrepared, GoTo
  <2> QED
    BY <2>1, <1>q, <1>0 DEF HasSlot, limiter
<1>3. ASSUME NEW s \in Sessions, Throttle(s) PROVE Throttled'
  <2>1. PICK t \in Nat : /\ t >= nextAt /\ t >= now
                         /\ slot' = [slot EXCEPT ![s] = t] /\ nextAt' = t + Interval
    <3> DEFINE at == IF nextAt > now THEN nextAt ELSE now
    <3>1. slot' = [slot EXCEPT ![s] = at] /\ nextAt' = at + Interval
      BY <1>3 DEF Throttle
    <3>2. at \in Nat /\ at >= nextAt /\ at >= now
      BY <1>0
    <3> QED
      BY <3>1, <3>2
  <2>2. /\ stage[s] = "throttle" /\ stage' = [stage EXCEPT ![s] = "sleep"]
        /\ UNCHANGED <<now, attempt>>
    BY <1>3 DEF Throttle, GoTo
  <2>3. /\ slot'[s] = t /\ stage'[s] = "sleep"
        /\ \A u \in Sessions \ {s} :
             slot'[u] = slot[u] /\ stage'[u] = stage[u] /\ (HasSlot(u)' <=> HasSlot(u))
    BY <2>1, <2>2, <1>0 DEF HasSlot
  <2>4. \A u \in Sessions \ {s} : HasSlot(u)' => slot'[u] + Interval <= t
    <3> SUFFICES ASSUME NEW u \in Sessions \ {s}, HasSlot(u)'
                 PROVE  slot'[u] + Interval <= t
      OBVIOUS
    <3>1. slot[u] + Interval <= nextAt /\ slot'[u] = slot[u] /\ slot[u] \in Nat
      BY <2>3, <1>i, <1>0
    <3> QED
      BY <3>1, <2>1, <1>0
  <2>5. /\ nextAt' = t + Interval /\ now' = now
    BY <2>1, <2>2
  <2>6. \A u, v \in Sessions :
          u # v /\ HasSlot(u)' /\ HasSlot(v)' =>
            slot'[u] >= slot'[v] + Interval \/ slot'[v] >= slot'[u] + Interval
    <3> SUFFICES ASSUME NEW u \in Sessions, NEW v \in Sessions,
                        u # v, HasSlot(u)', HasSlot(v)'
                 PROVE  slot'[u] >= slot'[v] + Interval \/ slot'[v] >= slot'[u] + Interval
      OBVIOUS
    <3>0. slot' \in [Sessions -> Nat]
      BY <2>1, <1>0
    <3>1. CASE u = s
      <4>1. slot'[v] + Interval <= t /\ slot'[u] = t /\ slot'[v] \in Nat
        BY <3>0, <3>1, <2>3, <2>4
      <4> QED
        BY <4>1, <1>0
    <3>2. CASE v = s
      <4>1. slot'[u] + Interval <= t /\ slot'[v] = t /\ slot'[u] \in Nat
        BY <3>0, <3>2, <2>3, <2>4
      <4> QED
        BY <4>1, <1>0
    <3>3. CASE u # s /\ v # s
      BY <3>3, <2>3, <1>i
    <3> QED
      BY <3>1, <3>2, <3>3
  <2>7. \A u \in Sessions : HasSlot(u)' /\ stage'[u] # "sleep" => slot'[u] <= now'
    BY <2>3, <2>5, <1>i
  <2>8. \A u \in Sessions : HasSlot(u)' => slot'[u] + Interval <= nextAt'
    <3> SUFFICES ASSUME NEW u \in Sessions, HasSlot(u)'
                 PROVE  slot'[u] + Interval <= nextAt'
      OBVIOUS
    <3>1. CASE u = s
      BY <3>1, <2>3, <2>5, <2>1, <1>0
    <3>2. CASE u # s
      <4>1. slot'[u] + Interval <= t /\ slot'[u] \in Nat
        BY <3>2, <2>3, <2>4, <1>0
      <4> QED
        BY <4>1, <2>5, <2>1, <1>0
    <3> QED
      BY <3>1, <3>2
  <2> QED
    BY <2>6, <2>7, <2>8 DEF Throttled, Spaced, Reserved
<1>4. ASSUME NEW s \in Sessions, Wake(s) PROVE Throttled'
  <2>1. /\ stage[s] = "sleep" /\ slot[s] <= now /\ stage' = [stage EXCEPT ![s] = "start"]
        /\ UNCHANGED <<attempt, limiter>>
    BY <1>4, <1>0 DEF Wake, GoTo
  <2> QED
    BY <2>1, <1>q, <1>0 DEF HasSlot, limiter
<1>5. ASSUME NEW s \in Sessions,
             \/ StartSession(s) \/ EndSession(s) \/ TimeOut(s) \/ LogFails(s)
             \/ RemoveContainer(s) \/ Retry(s) \/ Conclude(s) \/ CleanUp(s)
      PROVE  Throttled'
  <2>1. /\ stage[s] \in Working /\ UNCHANGED limiter
        /\ \E where \in Working : stage' = [stage EXCEPT ![s] = where]
        /\ attempt' \in {attempt, [attempt EXCEPT ![s] = @ + 1]}
    BY <1>5
    DEF StartSession, EndSession, TimeOut, LogFails, RemoveContainer, Retry, Conclude,
        CleanUp, GoTo, Working
  <2>2. attempt[s] >= 1 /\ stage[s] # "throttle" /\ stage[s] # "sleep"
    BY <2>1 DEF Counted, Working
  <2>3. HasSlot(s)
    BY <2>2, <1>0 DEF HasSlot
  <2> QED
    BY <2>1, <2>2, <2>3, <1>q, <1>0 DEF HasSlot, limiter
<1>6. CASE Tick
  BY <1>6, <1>q, <1>0 DEF Tick, HasSlot
<1>7. CASE UNCHANGED vars
  BY <1>7, <1>q, <1>0 DEF vars, limiter, HasSlot
<1> QED
  BY <1>1, <1>2, <1>3, <1>4, <1>5, <1>6, <1>7 DEF Next, Thread, Queue

(* First attempts get slots an interval apart and do not start before them, *)
(* whatever the order in which threads reach the limiter and however long   *)
(* they sleep (generation.py 120-131): waiting outside the lock loses no    *)
(* slot.                                                                   *)
THEOREM StartsSpaced == Spec => []Spaced
<1>1. Spec => [](Types /\ Counted /\ Throttled)
  BY ThrottledInit, ThrottledStep, CountedCorrect, PTL DEF Spec, SafeSpec
<1> QED
  BY <1>1, PTL DEF Throttled

-----------------------------------------------------------------------------
(* Containers, agents and homes.                                           *)

(* A container that docker could remove belongs to a prepared session, to   *)
(* the attempt in progress, or to a timed-out attempt that is kept.        *)
OwnedBy(s, c) ==
  \/ /\ stage[s] \in {"prepared", "throttle", "sleep", "start"}
     /\ config.precreate /\ c = <<s, 1>> /\ attempt[s] <= 1
  \/ /\ stage[s] \in {"session", "remove"}
     /\ c = Current(s)
  \/ /\ stage[s] \in {"interpret", "cleanup", "returned", "raised"}
     /\ Kept(s) /\ c = Current(s)

(* An agent runs in the container of the current attempt only; outside of   *)
(* its session it is one that timed out or whose log failed.               *)
AgentOf(s, c) ==
  /\ c = Current(s)
  /\ stage[s] \in {"session", "remove", "interpret", "cleanup", "returned", "raised"}
  /\ stage[s] = "interpret" => exit[s] = "timeout"
  /\ stage[s] = "remove" => exit[s] = "timeout" \/ solution[s] = "raised"

(* What docker could not remove is never the container of a coming attempt. *)
LostBy(s, c) ==
  \/ stage[s] \in {"failed", "cleaned"}
  \/ /\ stage[s] \in {"interpret", "cleanup", "returned", "raised"}
     /\ c[2] <= attempt[s]
  \/ /\ stage[s] \in {"start", "session", "remove"}
     /\ c[2] < attempt[s]

(* The home is there from its layout to the end of the session, and the     *)
(* container of a session while its command runs.                          *)
AtHome == {"create", "prepared", "throttle", "sleep", "start", "session", "remove",
           "interpret", "cleanup"}

Intact(s) == s \in homes \ undeleted

HomeOf(s) ==
  /\ s \in undeleted => s \in homes /\ stage[s] \in {"cleaned", "returned", "raised"}
  /\ stage[s] \in AtHome => Intact(s)
  /\ stage[s] \in {"cleaned", "returned", "raised"} => (Intact(s) <=> Kept(s))
  /\ stage[s] = "create" => config.precreate
  /\ stage[s] = "session" => Current(s) \in containers

Custody ==
  /\ lost \subseteq containers
  /\ \A c \in containers \ lost : OwnedBy(c[1], c)
  /\ \A c \in running : AgentOf(c[1], c)
  /\ \A c \in lost : LostBy(c[1], c)
  /\ \A s \in Sessions : HomeOf(s)

LEMMA CustodyInit == Init => Custody
BY DEF Init, Custody, HomeOf, AtHome, Intact

(* A step of one session moves only its own containers and its own home. *)
LEMMA CustodyStep == Types /\ Counted /\ Custody /\ [Next]_vars => Custody'
<1> SUFFICES ASSUME Types, Counted, Custody, [Next]_vars PROVE Custody'
  OBVIOUS
<1> USE DEF homeDirs, Intact
<1>0. /\ stage \in [Sessions -> SessionStage] /\ attempt \in [Sessions -> Nat]
      /\ exit \in [Sessions -> ExitKind]
      /\ solution \in [Sessions -> {"none", "answer", "infrastructure_error", "raised"}]
      /\ containers \subseteq Sessions \X Nat /\ running \subseteq containers
      /\ lost \subseteq containers /\ config \in Configs
      /\ homes \subseteq Sessions
  BY DEF Types, Custody
<1>c. /\ \A c \in containers \ lost : OwnedBy(c[1], c)
      /\ \A c \in running : AgentOf(c[1], c)
      /\ \A c \in lost : LostBy(c[1], c)
      /\ \A s \in Sessions : HomeOf(s)
  BY DEF Custody
<1>f. ASSUME NEW s \in Sessions, config' = config,
             \A u \in Sessions \ {s} :
               /\ stage'[u] = stage[u] /\ attempt'[u] = attempt[u] /\ exit'[u] = exit[u]
               /\ solution'[u] = solution[u]
               /\ (u \in homes' <=> u \in homes) /\ (u \in undeleted' <=> u \in undeleted),
             \A c \in Sessions \X Nat : c[1] # s =>
               /\ c \in containers' <=> c \in containers
               /\ c \in running' <=> c \in running
               /\ c \in lost' <=> c \in lost,
             containers' \subseteq Sessions \X Nat, running' \subseteq containers',
             lost' \subseteq containers',
             \A c \in containers' \ lost' : c[1] = s => OwnedBy(s, c)',
             \A c \in running' : c[1] = s => AgentOf(s, c)',
             \A c \in lost' : c[1] = s => LostBy(s, c)',
             HomeOf(s)'
      PROVE  Custody'
  <2>1. \A c \in containers' \ lost' : OwnedBy(c[1], c)'
    BY <1>f, <1>c, <1>0 DEF OwnedBy, Current, Kept
  <2>2. \A c \in running' : AgentOf(c[1], c)'
    BY <1>f, <1>c, <1>0 DEF AgentOf, Current
  <2>3. \A c \in lost' : LostBy(c[1], c)'
    BY <1>f, <1>c, <1>0 DEF LostBy
  <2>4. \A u \in Sessions : HomeOf(u)'
    <3>1. ASSUME NEW u \in Sessions \ {s} PROVE HomeOf(u)'
      <4>1. /\ stage'[u] = stage[u] /\ exit'[u] = exit[u] /\ (Intact(u)' <=> Intact(u))
            /\ (u \in homes' <=> u \in homes) /\ (u \in undeleted' <=> u \in undeleted)
            /\ Kept(u)' <=> Kept(u)
        BY <1>f DEF Kept
      <4>2. Current(u)' = Current(u) /\ Current(u) \in Sessions \X Nat /\ Current(u)[1] # s
        BY <1>f, <1>0 DEF Current
      <4>3. Current(u) \in containers' <=> Current(u) \in containers
        BY <1>f, <4>2
      <4> QED
        BY <1>f, <1>c, <4>1, <4>2, <4>3 DEF HomeOf
    <3> QED
      BY <1>f, <3>1
  <2> QED
    BY <1>f, <2>1, <2>2, <2>3, <2>4 DEF Custody
(* What is known of the containers of one session. *)
<1>s. ASSUME NEW s \in Sessions
      PROVE  /\ \A c \in containers \ lost : c[1] = s => OwnedBy(s, c)
             /\ \A c \in running : c[1] = s => AgentOf(s, c)
             /\ \A c \in lost : c[1] = s => LostBy(s, c)
             /\ HomeOf(s)
  BY <1>c
<1>1. ASSUME NEW s \in Sessions,
             Prepare(s) \/ EnterPreflight(s) \/ Install(s) \/ LayOut(s)
      PROVE  Custody'
  <2>1. /\ UNCHANGED <<config, attempt, outcome, solution, docker>>
        /\ stage[s] \in {"idle", "preflight", "install", "layout"}
        /\ undeleted' = undeleted /\ s \notin undeleted
        /\ \A u \in Sessions \ {s} : u \in homes' <=> u \in homes
        /\ \E where \in {"preflight", "install", "layout", "failed", "create", "prepared"} :
             /\ stage' = [stage EXCEPT ![s] = where]
             /\ where \in AtHome => Intact(s)'
             /\ where = "create" => config.precreate
    BY <1>1, <1>0, <1>s
    DEF Prepare, EnterPreflight, Install, LayOut, GoTo, AtHome, HomeOf
  <2>2. \A c \in containers : c[1] # s
    BY <2>1, <1>s, <1>0 DEF OwnedBy, LostBy
  <2>3. /\ stage'[s] \notin {"cleaned", "returned", "raised"}
        /\ stage'[s] \in AtHome => Intact(s)'
        /\ stage'[s] = "create" => config.precreate
        /\ stage'[s] # "session"
        /\ \A u \in Sessions \ {s} : stage'[u] = stage[u]
    BY <2>1, <1>0
  <2>4. HomeOf(s)'
    BY <2>1, <2>3 DEF HomeOf
  <2> QED
    BY <2>1, <2>2, <2>3, <2>4, <1>f, <1>0 DEF outcome, docker
<1>2. ASSUME NEW s \in Sessions, Create(s) PROVE Custody'
  <2>1. /\ UNCHANGED <<config, attempt, homeDirs, outcome, solution, running>>
        /\ stage[s] = "create"
        /\ \/ /\ containers' = containers \cup {<<s, 1>>} /\ lost' = lost
              /\ stage' = [stage EXCEPT ![s] = "prepared"]
           \/ /\ containers' = containers /\ lost' = lost
              /\ stage' = [stage EXCEPT ![s] = "failed"]
           \/ /\ containers' = containers \cup {<<s, 1>>}
              /\ lost' = lost \cup {<<s, 1>>}
              /\ stage' = [stage EXCEPT ![s] = "failed"]
    BY <1>2 DEF Create, GoTo
  <2>2. \A c \in containers : c[1] # s
    BY <2>1, <1>s, <1>0 DEF OwnedBy, LostBy
  <2>3. /\ stage'[s] \in {"prepared", "failed"}
        /\ \A u \in Sessions \ {s} : stage'[u] = stage[u]
        /\ attempt'[s] = 0 /\ config.precreate /\ Intact(s)
    BY <2>1, <1>0, <1>s DEF Counted, Before, HomeOf, AtHome
  <2>4. HomeOf(s)'
    BY <2>1, <2>3 DEF HomeOf
  <2>5. \A c \in containers' : c[1] = s => c = <<s, 1>>
    BY <2>1, <2>2
  <2>6. \A c \in containers' \ lost' : c[1] = s => OwnedBy(s, c)'
    BY <2>1, <2>2, <2>3, <1>0 DEF OwnedBy
  <2>7. \A c \in lost' : c[1] = s => LostBy(s, c)'
    BY <2>1, <2>2, <1>0 DEF LostBy
  <2>8. <<s, 1>> \in Sessions \X Nat /\ <<s, 1>>[1] = s
    OBVIOUS
  <2>9. /\ \A c \in Sessions \X Nat : c[1] # s =>
             (c \in containers' <=> c \in containers) /\ (c \in lost' <=> c \in lost)
        /\ containers' \subseteq Sessions \X Nat /\ lost' \subseteq containers'
        /\ containers \subseteq containers'
    BY <2>1, <2>8, <1>0
  <2> QED
    BY <2>1, <2>2, <2>3, <2>4, <2>6, <2>7, <2>9, <1>f, <1>0 DEF outcome
<1>3. ASSUME NEW s \in Sessions, CleanupPrepared(s) PROVE Custody'
  <2>1. /\ UNCHANGED <<config, attempt, outcome, solution>>
        /\ stage[s] = "prepared" /\ stage' = [stage EXCEPT ![s] = "cleaned"]
        /\ \/ homes' = homes \ {s} /\ undeleted' = undeleted
           \/ homes' = homes /\ undeleted' = undeleted \cup {s}
    BY <1>3 DEF CleanupPrepared, RemoveHome, GoTo
  <2>2. /\ \A c \in containers \ lost : c[1] = s => config.precreate /\ c = <<s, 1>>
        /\ \A c \in lost : c[1] # s
        /\ \A c \in running : c[1] # s
    BY <2>1, <1>s, <1>0 DEF OwnedBy, LostBy, AgentOf
  <2>3. /\ stage'[s] = "cleaned" /\ \A u \in Sessions \ {s} : stage'[u] = stage[u]
        /\ exit[s] = "none"
    BY <2>1, <1>0 DEF Counted, Before
  <2>4. HomeOf(s)'
    BY <2>1, <2>3, <1>s DEF HomeOf, AtHome, Kept, outcome
  <2>5. <<s, 1>> \in Sessions \X Nat /\ <<s, 1>>[1] = s
    OBVIOUS
  <2>6. /\ containers' \subseteq Sessions \X Nat /\ running' \subseteq containers'
        /\ lost' \subseteq containers'
        /\ \A c \in Sessions \X Nat : c[1] # s =>
             /\ c \in containers' <=> c \in containers
             /\ c \in running' <=> c \in running
             /\ c \in lost' <=> c \in lost
        /\ \A c \in containers' \ lost' : c[1] # s
        /\ running' \subseteq running
    BY <1>3, <2>2, <2>5, <1>0 DEF CleanupPrepared, Remove, docker
  <2>7. \A c \in lost' : c[1] = s => LostBy(s, c)'
    BY <2>3 DEF LostBy
  <2> QED
    BY <2>1, <2>2, <2>3, <2>4, <2>6, <2>7, <1>f DEF outcome
<1>4. ASSUME NEW s \in Sessions, RunPrepared(s) \/ Throttle(s) \/ Wake(s)
      PROVE  Custody'
  <2>1. /\ UNCHANGED <<config, homeDirs, outcome, solution, docker>>
        /\ stage[s] \in {"prepared", "throttle", "sleep"}
        /\ \E where \in {"throttle", "sleep", "start"} : stage' = [stage EXCEPT ![s] = where]
        /\ \/ attempt' = [attempt EXCEPT ![s] = 1]
           \/ attempt' = attempt /\ stage[s] \in Waiting
    BY <1>4 DEF RunPrepared, Throttle, Wake, GoTo, Waiting
  <2>2. /\ stage'[s] \in {"throttle", "sleep", "start"} /\ attempt'[s] = 1
        /\ \A u \in Sessions \ {s} : stage'[u] = stage[u] /\ attempt'[u] = attempt[u]
    BY <2>1, <1>0 DEF Counted
  <2>3. /\ \A c \in containers \ lost : c[1] = s => config.precreate /\ c = <<s, 1>>
        /\ \A c \in lost : c[1] # s
        /\ \A c \in running : c[1] # s
        /\ Intact(s)
    BY <2>1, <1>s, <1>0 DEF OwnedBy, LostBy, AgentOf, HomeOf, AtHome
  <2>4. HomeOf(s)'
    BY <2>1, <2>2, <2>3 DEF HomeOf
  <2>5. \A c \in containers' \ lost' : c[1] = s => OwnedBy(s, c)'
    BY <2>1, <2>2, <2>3 DEF OwnedBy, docker
  <2> QED
    BY <2>1, <2>2, <2>3, <2>4, <2>5, <1>f, <1>0 DEF outcome, docker
<1>5. ASSUME NEW s \in Sessions, StartSession(s) PROVE Custody'
  <2>1. /\ UNCHANGED <<config, attempt, homeDirs, solution, lost>> /\ stage[s] = "start"
    BY <1>5 DEF StartSession, limiter
  <2>2. /\ \A c \in containers \ lost : c[1] = s => AtPrecreated(s) /\ c = Current(s)
        /\ \A c \in lost : c[1] = s => c[2] < attempt[s]
        /\ \A c \in running : c[1] # s
        /\ Intact(s)
        /\ Current(s) \in Sessions \X Nat /\ Current(s)[1] = s
    BY <2>1, <1>s, <1>0
    DEF OwnedBy, LostBy, AgentOf, HomeOf, AtHome, Counted, Working, AtPrecreated, Current
  <2>3. \A c \in lost' : c[1] = s /\ stage'[s] \in {"session", "remove", "interpret"} =>
          LostBy(s, c)'
    <3>1. \A c \in lost : c[1] = s => c[2] \in Nat /\ attempt[s] \in Nat
      BY <1>0
    <3> QED
      BY <3>1, <2>1, <2>2 DEF LostBy
  <2>4. CASE stage' = [stage EXCEPT ![s] = "session"]
    <3>1. stage'[s] = "session" /\ \A u \in Sessions \ {s} : stage'[u] = stage[u]
      BY <2>4, <1>0
    <3>2. /\ containers' = containers \cup {Current(s)}
          /\ running' = running \cup {Current(s)} /\ UNCHANGED outcome
      BY <1>5, <3>1, <1>0 DEF StartSession, GoTo
    <3>3. /\ \A c \in containers' \ lost' : c[1] = s => c = Current(s)
          /\ \A c \in running' : c[1] = s => c = Current(s)
      BY <3>2, <2>1, <2>2
    <3>4. /\ \A c \in containers' \ lost' : c[1] = s => OwnedBy(s, c)'
          /\ \A c \in running' : c[1] = s => AgentOf(s, c)'
          /\ HomeOf(s)'
      BY <3>1, <3>2, <3>3, <2>1, <2>2 DEF OwnedBy, AgentOf, HomeOf, Current
    <3>5. \A c \in Sessions \X Nat : c[1] # s =>
            (c \in containers' <=> c \in containers) /\ (c \in running' <=> c \in running)
      BY <3>2, <2>2
    <3>6. containers' \subseteq Sessions \X Nat /\ running' \subseteq containers'
          /\ lost' \subseteq containers'
      BY <3>2, <2>1, <2>2, <1>0
    <3> QED
      BY <2>1, <2>3, <3>1, <3>2, <3>4, <3>5, <3>6, <1>f DEF outcome
  <2>5. CASE stage' # [stage EXCEPT ![s] = "session"]
    <3>1. /\ exit' = [exit EXCEPT ![s] = "not_started"] /\ UNCHANGED <<containers, running>>
          /\ stage' = [stage EXCEPT ![s] = IF AtPrecreated(s) THEN "remove" ELSE "interpret"]
      BY <1>5, <2>5 DEF StartSession, CommandEnds, GoTo
    <3>2. /\ stage'[s] = IF AtPrecreated(s) THEN "remove" ELSE "interpret"
          /\ \A u \in Sessions \ {s} : stage'[u] = stage[u] /\ exit'[u] = exit[u]
      BY <3>1, <1>0
    <3>3. /\ \A c \in containers' \ lost' : c[1] = s => OwnedBy(s, c)'
          /\ HomeOf(s)'
      BY <3>1, <3>2, <2>1, <2>2 DEF OwnedBy, HomeOf, Current
    <3> QED
      BY <2>1, <2>2, <2>3, <3>1, <3>2, <3>3, <1>f, <1>0
  <2> QED
    BY <2>4, <2>5
<1>6. ASSUME NEW s \in Sessions, EndSession(s) PROVE Custody'
  <2>1. /\ UNCHANGED <<config, attempt, homeDirs, solution, lost>> /\ stage[s] = "session"
        /\ stage' = [stage EXCEPT ![s] = IF AtPrecreated(s) THEN "remove" ELSE "interpret"]
        /\ running' = running \ {Current(s)}
        /\ containers' = IF AtPrecreated(s) THEN containers ELSE containers \ {Current(s)}
        /\ \E how : exit' = [exit EXCEPT ![s] = how]
    BY <1>6 DEF EndSession, CommandEnds, GoTo, limiter
  <2>2. /\ \A c \in containers \ lost : c[1] = s => c = Current(s)
        /\ \A c \in lost : c[1] = s => c[2] < attempt[s]
        /\ \A c \in running : c[1] = s => c = Current(s)
        /\ Intact(s)
        /\ Current(s) \in Sessions \X Nat /\ Current(s)[1] = s /\ Current(s)[2] = attempt[s]
    BY <2>1, <1>s, <1>0 DEF OwnedBy, LostBy, AgentOf, HomeOf, AtHome, Current
  <2>3. Current(s) \notin lost
    BY <2>2, <1>0
  <2>4. /\ stage'[s] = IF AtPrecreated(s) THEN "remove" ELSE "interpret"
        /\ \A u \in Sessions \ {s} : stage'[u] = stage[u] /\ exit'[u] = exit[u]
    BY <2>1, <1>0
  <2>5. \A c \in lost' : c[1] = s => LostBy(s, c)'
    <3>1. \A c \in lost : c[1] = s => c[2] \in Nat /\ attempt[s] \in Nat
      BY <1>0
    <3> QED
      BY <3>1, <2>1, <2>2, <2>4 DEF LostBy
  <2>6. \A c \in running' : c[1] # s
    BY <2>1, <2>2
  <2>7. \A c \in containers' \ lost' : c[1] = s => OwnedBy(s, c)'
    BY <2>1, <2>2, <2>4 DEF OwnedBy, Current
  <2>8. HomeOf(s)'
    BY <2>1, <2>2, <2>4 DEF HomeOf
  <2>9. /\ containers' \subseteq Sessions \X Nat /\ running' \subseteq containers'
        /\ lost' \subseteq containers'
        /\ \A c \in Sessions \X Nat : c[1] # s =>
             (c \in containers' <=> c \in containers) /\ (c \in running' <=> c \in running)
    BY <2>1, <2>2, <2>3, <1>0
  <2> QED
    BY <2>1, <2>4, <2>5, <2>6, <2>7, <2>8, <2>9, <1>f
<1>7. ASSUME NEW s \in Sessions, TimeOut(s) PROVE Custody'
  <2>1. /\ UNCHANGED <<config, attempt, homeDirs, solution, docker>> /\ stage[s] = "session"
        /\ stage' = [stage EXCEPT ![s] = IF config.keep THEN "interpret" ELSE "remove"]
        /\ exit' = [exit EXCEPT ![s] = "timeout"]
    BY <1>7 DEF TimeOut, CommandEnds, GoTo
  <2>2. /\ \A c \in containers \ lost : c[1] = s => c = Current(s)
        /\ \A c \in lost : c[1] = s => c[2] < attempt[s]
        /\ \A c \in running : c[1] = s => c = Current(s)
        /\ Intact(s)
    BY <2>1, <1>s, <1>0 DEF OwnedBy, LostBy, AgentOf, HomeOf, AtHome
  <2>3. /\ stage'[s] = IF config.keep THEN "interpret" ELSE "remove"
        /\ exit'[s] = "timeout"
        /\ \A u \in Sessions \ {s} : stage'[u] = stage[u] /\ exit'[u] = exit[u]
    BY <2>1, <1>0
  <2>4. \A c \in lost' : c[1] = s => LostBy(s, c)'
    <3>1. \A c \in lost : c[1] = s => c[2] \in Nat /\ attempt[s] \in Nat
      BY <1>0
    <3> QED
      BY <3>1, <2>1, <2>2, <2>3 DEF LostBy, docker
  <2>5. /\ \A c \in containers' \ lost' : c[1] = s => OwnedBy(s, c)'
        /\ \A c \in running' : c[1] = s => AgentOf(s, c)'
        /\ HomeOf(s)'
    BY <2>1, <2>2, <2>3 DEF OwnedBy, AgentOf, HomeOf, Current, Kept, docker
  <2> QED
    BY <2>1, <2>3, <2>4, <2>5, <1>f, <1>0 DEF docker
<1>8. ASSUME NEW s \in Sessions, LogFails(s) PROVE Custody'
  <2>1. /\ UNCHANGED <<config, attempt, homeDirs, outcome, containers, running>>
        /\ stage[s] = "session" /\ solution' = [solution EXCEPT ![s] = "raised"]
        /\ stage' = [stage EXCEPT ![s] = IF AtPrecreated(s) THEN "remove" ELSE "cleanup"]
        /\ lost' = IF AtPrecreated(s) THEN lost ELSE lost \cup {Current(s)}
    BY <1>8 DEF LogFails, GoTo
  <2>2. /\ \A c \in containers \ lost : c[1] = s => c = Current(s)
        /\ \A c \in lost : c[1] = s => c[2] < attempt[s]
        /\ \A c \in running : c[1] = s => c = Current(s)
        /\ Intact(s) /\ Current(s) \in containers
        /\ Current(s)[1] = s /\ Current(s)[2] = attempt[s]
    BY <2>1, <1>s, <1>0 DEF OwnedBy, LostBy, AgentOf, HomeOf, AtHome, Current
  <2>3. /\ stage'[s] = IF AtPrecreated(s) THEN "remove" ELSE "cleanup"
        /\ solution'[s] = "raised"
        /\ \A u \in Sessions \ {s} : stage'[u] = stage[u] /\ solution'[u] = solution[u]
    BY <2>1, <1>0
  <2>4. \A c \in lost' : c[1] = s => LostBy(s, c)'
    <3>1. \A c \in lost : c[1] = s => c[2] \in Nat /\ attempt[s] \in Nat
      BY <1>0
    <3>2. attempt[s] <= attempt[s]
      BY <1>0
    <3> QED
      BY <3>1, <3>2, <2>1, <2>2, <2>3 DEF LostBy
  <2>5. /\ \A c \in containers' \ lost' : c[1] = s => OwnedBy(s, c)'
        /\ \A c \in running' : c[1] = s => AgentOf(s, c)'
        /\ HomeOf(s)'
    BY <2>1, <2>2, <2>3 DEF OwnedBy, AgentOf, HomeOf, Current
  <2>6. /\ lost' \subseteq containers'
        /\ \A c \in Sessions \X Nat : c[1] # s => (c \in lost' <=> c \in lost)
    BY <2>1, <2>2, <1>0
  <2> QED
    BY <2>1, <2>3, <2>4, <2>5, <2>6, <1>f, <1>0 DEF outcome
<1>9. ASSUME NEW s \in Sessions, RemoveContainer(s) PROVE Custody'
  <2>1. /\ UNCHANGED <<config, attempt, homeDirs, outcome, solution>>
        /\ stage[s] = "remove"
        /\ stage' = [stage EXCEPT ![s] =
                       IF solution[s] = "raised" THEN "cleanup" ELSE "interpret"]
        /\ \/ /\ containers' = containers \ {Current(s)}
              /\ running' = running \ {Current(s)} /\ lost' = lost
           \/ /\ Current(s) \in containers /\ lost' = lost \cup {Current(s)}
              /\ UNCHANGED <<containers, running>>
    BY <1>9 DEF RemoveContainer, Remove, GoTo
  <2>2. /\ \A c \in containers \ lost : c[1] = s => c = Current(s)
        /\ \A c \in lost : c[1] = s => c[2] < attempt[s]
        /\ \A c \in running : c[1] = s =>
             c = Current(s) /\ (exit[s] = "timeout" \/ solution[s] = "raised")
        /\ Intact(s)
        /\ Current(s) \in Sessions \X Nat /\ Current(s)[1] = s /\ Current(s)[2] = attempt[s]
    BY <2>1, <1>s, <1>0 DEF OwnedBy, LostBy, AgentOf, HomeOf, AtHome, Current
  <2>3. Current(s) \notin lost
    BY <2>2, <1>0
  <2>4. /\ stage'[s] = IF solution[s] = "raised" THEN "cleanup" ELSE "interpret"
        /\ \A u \in Sessions \ {s} : stage'[u] = stage[u]
    BY <2>1, <1>0
  <2>5. \A c \in lost' : c[1] = s => LostBy(s, c)'
    <3>1. \A c \in lost : c[1] = s => c[2] \in Nat /\ attempt[s] \in Nat
      BY <1>0
    <3>2. attempt[s] <= attempt[s]
      BY <1>0
    <3> QED
      BY <3>1, <3>2, <2>1, <2>2, <2>4 DEF LostBy
  <2>6. \A c \in containers' \ lost' : c[1] # s
    BY <2>1, <2>2
  <2>7. /\ \A c \in running' : c[1] = s => AgentOf(s, c)'
        /\ HomeOf(s)'
    BY <2>1, <2>2, <2>4 DEF AgentOf, HomeOf, Current, outcome
  <2>8. /\ containers' \subseteq Sessions \X Nat /\ running' \subseteq containers'
        /\ lost' \subseteq containers'
        /\ \A c \in Sessions \X Nat : c[1] # s =>
             /\ c \in containers' <=> c \in containers
             /\ c \in running' <=> c \in running
             /\ c \in lost' <=> c \in lost
    BY <2>1, <2>2, <2>3, <1>0
  <2> QED
    BY <2>1, <2>4, <2>5, <2>6, <2>7, <2>8, <1>f DEF outcome
<1>10. ASSUME NEW s \in Sessions, Retry(s) PROVE Custody'
  <2>1. /\ UNCHANGED <<config, homeDirs, outcome, solution, docker>>
        /\ stage[s] = "interpret" /\ stage' = [stage EXCEPT ![s] = "start"]
        /\ attempt' = [attempt EXCEPT ![s] = @ + 1] /\ exit[s] # "timeout"
    BY <1>10 DEF Retry, Retriable, GoTo
  <2>2. /\ \A c \in containers \ lost : c[1] # s
        /\ \A c \in lost : c[1] = s => c[2] <= attempt[s]
        /\ \A c \in running : c[1] # s
        /\ Intact(s)
    BY <2>1, <1>s, <1>0 DEF OwnedBy, LostBy, AgentOf, HomeOf, AtHome, Kept
  <2>3. /\ stage'[s] = "start" /\ attempt'[s] = attempt[s] + 1
        /\ \A u \in Sessions \ {s} : stage'[u] = stage[u] /\ attempt'[u] = attempt[u]
    BY <2>1, <1>0
  <2>4. \A c \in lost' : c[1] = s => LostBy(s, c)'
    <3>1. \A c \in lost : c[1] = s => c[2] \in Nat /\ attempt[s] \in Nat
      BY <1>0
    <3> QED
      BY <3>1, <2>1, <2>2, <2>3 DEF LostBy, docker
  <2>5. HomeOf(s)'
    BY <2>1, <2>2, <2>3 DEF HomeOf
  <2> QED
    BY <2>1, <2>2, <2>3, <2>4, <2>5, <1>f, <1>0 DEF outcome, docker
<1>11. ASSUME NEW s \in Sessions, Conclude(s) PROVE Custody'
  <2>1. /\ UNCHANGED <<config, attempt, homeDirs, outcome, docker>>
        /\ stage[s] = "interpret" /\ stage' = [stage EXCEPT ![s] = "cleanup"]
        /\ \E v : solution' = [solution EXCEPT ![s] = v]
    BY <1>11 DEF Conclude, GoTo
  <2>2. /\ stage'[s] = "cleanup"
        /\ \A u \in Sessions \ {s} : stage'[u] = stage[u] /\ solution'[u] = solution[u]
    BY <2>1, <1>0
  <2>3. /\ \A c \in containers \ lost : c[1] = s => OwnedBy(s, c)'
        /\ \A c \in running : c[1] = s => AgentOf(s, c)'
        /\ \A c \in lost : c[1] = s => LostBy(s, c)'
        /\ HomeOf(s)'
    BY <2>1, <2>2, <1>s
    DEF OwnedBy, AgentOf, LostBy, HomeOf, AtHome, Current, Kept, outcome
  <2> QED
    BY <2>1, <2>2, <2>3, <1>f, <1>0 DEF outcome, docker
<1>12. ASSUME NEW s \in Sessions, CleanUp(s) PROVE Custody'
  <2>1. /\ UNCHANGED <<config, attempt, outcome, solution, docker>>
        /\ stage[s] = "cleanup"
        /\ \E where \in {"raised", "returned"} : stage' = [stage EXCEPT ![s] = where]
        /\ \/ Kept(s) /\ homes' = homes /\ undeleted' = undeleted
           \/ ~Kept(s) /\ homes' = homes \ {s} /\ undeleted' = undeleted
           \/ ~Kept(s) /\ homes' = homes /\ undeleted' = undeleted \cup {s}
    BY <1>12 DEF CleanUp, RemoveHome, GoTo
  <2>2. /\ stage'[s] \in {"raised", "returned"}
        /\ \A u \in Sessions \ {s} : stage'[u] = stage[u]
    BY <2>1, <1>0
  <2>3. Intact(s)
    BY <2>1, <1>s DEF HomeOf, AtHome
  <2>4. /\ \A c \in containers \ lost : c[1] = s => OwnedBy(s, c)'
        /\ \A c \in running : c[1] = s => AgentOf(s, c)'
        /\ \A c \in lost : c[1] = s => LostBy(s, c)'
        /\ HomeOf(s)'
    BY <2>1, <2>2, <2>3, <1>s
    DEF OwnedBy, AgentOf, LostBy, HomeOf, AtHome, Current, Kept, outcome
  <2> QED
    BY <2>1, <2>2, <2>4, <1>f, <1>0 DEF outcome, docker
<1>13. CASE Tick \/ UNCHANGED vars
  <2>1. UNCHANGED <<config, stage, attempt, homeDirs, outcome, solution, docker>>
    BY <1>13 DEF Tick, vars
  <2> QED
    BY <2>1
    DEF Custody, OwnedBy, AgentOf, LostBy, HomeOf, Current, Kept, outcome, docker
<1> QED
  BY <1>1, <1>2, <1>3, <1>4, <1>5, <1>6, <1>7, <1>8, <1>9, <1>10, <1>11, <1>12, <1>13
  DEF Next, Thread, Queue

(* Types, counts and custody hold in every reachable state. *)
LEMMA CustodyCorrect == Spec => [](Types /\ Counted /\ Custody)
  BY CustodyInit, CustodyStep, CountedCorrect, PTL DEF Spec, SafeSpec

(* Every reachable state has the types of TypeOK, for any number of         *)
(* sessions and retries: what is lost is a container that exists.          *)
THEOREM TypeCorrect == Spec => []TypeOK
<1>1. Types /\ Custody => TypeOK
  BY DEF Types, Custody, HomeOf, TypeOK, SessionStage, ExitKind
<1> QED
  BY <1>1, CustodyCorrect, PTL

(* An attempt never shares its workspace with an agent of an earlier one,   *)
(* which a timeout or a failed docker rm left running                      *)
(* (generation.py 231-257).                                                *)
THEOREM AgentsAlone == Spec => []AloneInWorkspace
<1>1. Types /\ Custody => AloneInWorkspace
  <2> SUFFICES ASSUME Types, Custody, NEW s \in Sessions
               PROVE  /\ Cardinality({c \in running : c[1] = s}) <= 1
                      /\ stage[s] = "start" => \A c \in running : c[1] # s
    BY DEF AloneInWorkspace
  <2>1. {c \in running : c[1] = s} \subseteq {Current(s)}
    BY DEF Custody, AgentOf
  <2>2. IsFiniteSet({Current(s)}) /\ Cardinality({Current(s)}) = 1
    BY FS_Singleton
  <2>3. Cardinality({c \in running : c[1] = s}) <= Cardinality({Current(s)})
    BY <2>1, <2>2, FS_Subset
  <2>4. stage[s] = "start" => \A c \in running : c[1] # s
    BY DEF Custody, AgentOf
  <2> QED
    BY <2>2, <2>3, <2>4
<1> QED
  BY <1>1, CustodyCorrect, PTL

(* No home is removed under a running agent, unless docker rm failed or the *)
(* client was killed (generation.py 258-264).                              *)
THEOREM HomesOutlive == Spec => []HomeOutlivesContainer
<1>1. Types /\ Custody => HomeOutlivesContainer
  <2> SUFFICES ASSUME Types, Custody, NEW c \in running \ lost
               PROVE  c[1] \in homes \ undeleted
    BY DEF HomeOutlivesContainer
  <2>1. c \in containers \ lost /\ c[1] \in Sessions
    BY DEF Types
  <2>2. AgentOf(c[1], c) /\ OwnedBy(c[1], c) /\ HomeOf(c[1])
    BY <2>1 DEF Custody
  <2> QED
    BY <2>2 DEF AgentOf, OwnedBy, HomeOf, AtHome, Intact
<1> QED
  BY <1>1, CustodyCorrect, PTL

(* A session that is over has left no container but a lost or a kept one,   *)
(* and once it was prepared no home but a kept one and one that could not   *)
(* be deleted, whatever failed on the way (generation.py 258-264, 503-518,  *)
(* 730-732).                                                               *)
THEOREM NothingIsLeft == Spec => []NothingLeft
<1>1. Types /\ Custody => NothingLeft
  BY DEF Types, Custody, OwnedBy, HomeOf, Intact, NothingLeft, Named, Over
<1> QED
  BY <1>1, CustodyCorrect, PTL

=============================================================================
