--------------------------- MODULE EvaluationRunner ---------------------------
(***************************************************************************)
(* runner.py, DockerRunner: evaluations on the threads of the evaluation   *)
(* pool, each in a container of its own, against cancel() called by the    *)
(* main thread.  They share _active_containers and _cancelled, both under  *)
(* _lock, and the Docker daemon.                                           *)
(*                                                                         *)
(* A docker command is one step, taken when it returns: its exit status is *)
(* abstracted to "ok" (0), "missing" (125, 126, 127), "timeout" and        *)
(* "nonzero".  In a container that is gone it can only be "nonzero".       *)
(***************************************************************************)
EXTENDS Naturals, FiniteSets

CONSTANTS
  Evaluations,     \* calls of evaluate()
  Evolution,       \* those whose task has test groups
  Groups           \* how many test groups such a task has

ASSUME RunnerAssumption ==
  /\ Evolution \subseteq Evaluations
  /\ Groups \in Nat \ {0}

VARIABLES
  stage,           \* where evaluate() is
  verdict,         \* status of the TaskRunResult it is about to return
  tests,           \* what the test commands showed so far
  active,          \* _active_containers
  cancelled,       \* _cancelled
  canceller,       \* where cancel() is
  doomed,          \* its snapshot: containers it has yet to remove
  containers,      \* containers that exist
  unremoved        \* containers whose docker rm timed out

thread == <<stage, verdict, tests>>
registry == <<active, cancelled, canceller, doomed>>
docker == <<containers, unremoved>>
vars == <<thread, registry, docker>>

Stage == {"idle", "register", "create", "check", "copy_in", "build", "test",
          "group_build", "group_test", "copy_out", "remove", "unregister", "over",
          "abandoned"}
Verdict == {"none", "extraction_error", "infrastructure_error", "build_failed",
            "tests_failed", "passed", "raised"}
Judged == {"build_failed", "tests_failed", "passed"}

InContainer == {"copy_in", "build", "test", "group_build", "group_test", "copy_out"}
Ended == {"over", "abandoned"}

(* Test groups still to run, groups whose tests ran, whether a command      *)
(* timed out or could not start, whether some tests did not pass.           *)
NoTests == [left |-> Groups, ran |-> 0, broken |-> FALSE, failing |-> FALSE]

Init ==
  /\ stage = [e \in Evaluations |-> "idle"]
  /\ verdict = [e \in Evaluations |-> "none"]
  /\ tests = [e \in Evaluations |-> NoTests]
  /\ active = {} /\ cancelled = FALSE
  /\ canceller = "idle" /\ doomed = {}
  /\ containers = {} /\ unremoved = {}

ExitStatus(e) ==
  IF e \in containers THEN {"ok", "nonzero", "missing", "timeout"} ELSE {"nonzero"}

GoTo(e, s) ==
  /\ stage' = [stage EXCEPT ![e] = s]
  /\ UNCHANGED verdict

(* Leave the try block with a result: the finally clause comes next. *)
Conclude(e, v) ==
  /\ stage' = [stage EXCEPT ![e] = "remove"]
  /\ verdict' = [verdict EXCEPT ![e] = v]

(* docker rm -f, whose result nobody looks at. *)
Remove(e) ==
  \/ containers' = containers \ {e} /\ UNCHANGED unremoved
  \/ /\ e \in containers
     /\ unremoved' = unremoved \cup {e} /\ UNCHANGED containers

-----------------------------------------------------------------------------
(* evaluate().                                                             *)

(* A failed generation or extraction is reported without any container. *)
NothingToEvaluate(e) ==
  /\ stage[e] = "idle"
  /\ stage' = [stage EXCEPT ![e] = "over"]
  /\ \E v \in {"infrastructure_error", "extraction_error"} :
       verdict' = [verdict EXCEPT ![e] = v]
  /\ UNCHANGED <<tests, registry, docker>>

(* Laying out and snapshotting the workspace; an I/O error leaves evaluate() *)
(* before there is anything to clean up.                                   *)
PrepareWorkspace(e) ==
  /\ stage[e] = "idle"
  /\ \/ GoTo(e, "register")
     \/ /\ stage' = [stage EXCEPT ![e] = "over"]
        /\ verdict' = [verdict EXCEPT ![e] = "raised"]
  /\ UNCHANGED <<tests, registry, docker>>

Register_FaultyForgets(e) ==
  /\ stage[e] = "register"
  /\ GoTo(e, "create")
  /\ UNCHANGED <<tests, registry, docker>>

Register(e) ==
  /\ stage[e] = "register"
  /\ active' = active \cup {e}
  /\ GoTo(e, "create")
  /\ UNCHANGED <<tests, cancelled, canceller, doomed, docker>>

(* docker create and docker start; a container that did not start exists.  *)
(* A failure is written to build.log before the try block: when that       *)
(* raises, nobody removes the container or takes it off the registry.      *)
CreateContainer(e) ==
  /\ stage[e] = "create"
  /\ \/ containers' = containers \cup {e} /\ GoTo(e, "check")
     \/ /\ containers' \in {containers, containers \cup {e}}
        /\ \/ Conclude(e, "infrastructure_error")
           \/ /\ stage' = [stage EXCEPT ![e] = "abandoned"]
              /\ verdict' = [verdict EXCEPT ![e] = "raised"]
  /\ UNCHANGED <<tests, registry, unremoved>>

CheckCancelled_FaultyNever(e) ==
  /\ stage[e] = "check"
  /\ GoTo(e, "copy_in")
  /\ UNCHANGED <<tests, registry, docker>>

CheckCancelled(e) ==
  /\ stage[e] = "check"
  /\ IF cancelled THEN Conclude(e, "infrastructure_error") ELSE GoTo(e, "copy_in")
  /\ UNCHANGED <<tests, registry, docker>>

(* tar and chmod through docker exec, neither of them with a timeout. *)
CopyWorkspace(e) ==
  /\ stage[e] = "copy_in"
  /\ \E x \in ExitStatus(e) \ {"timeout"} :
       IF x = "ok" THEN GoTo(e, "build") ELSE Conclude(e, "infrastructure_error")
  /\ UNCHANGED <<tests, registry, docker>>

Build_FaultyIgnoresStatus(e) ==
  /\ stage[e] = "build"
  /\ \E x \in ExitStatus(e) :
       IF x \in {"missing", "timeout"} THEN Conclude(e, "infrastructure_error")
       ELSE GoTo(e, IF e \in Evolution THEN "group_build" ELSE "test")
  /\ UNCHANGED <<tests, registry, docker>>

Build(e) ==
  /\ stage[e] = "build"
  /\ \E x \in ExitStatus(e) :
       \/ x \in {"missing", "timeout"} /\ Conclude(e, "infrastructure_error")
       \/ x = "nonzero" /\ Conclude(e, "build_failed")
       \/ x = "ok" /\ GoTo(e, IF e \in Evolution THEN "group_build" ELSE "test")
  /\ UNCHANGED <<tests, registry, docker>>

(* The tests of a greenfield task; failing keeps their exit status. *)
Test(e) ==
  /\ stage[e] = "test"
  /\ \E x \in ExitStatus(e) :
       \/ /\ x \in {"missing", "timeout"}
          /\ Conclude(e, "infrastructure_error") /\ UNCHANGED tests
       \/ /\ x \in {"nonzero", "ok"}
          /\ tests' = [tests EXCEPT ![e].failing = x = "nonzero"]
          /\ GoTo(e, "copy_out")
  /\ UNCHANGED <<registry, docker>>

AfterGroup(e) == IF tests[e].left > 1 THEN "group_build" ELSE "copy_out"

(* A group whose tests do not build is failed; the next group still runs. *)
GroupBuild(e) ==
  /\ stage[e] = "group_build"
  /\ \E x \in ExitStatus(e) :
       IF x = "ok" THEN GoTo(e, "group_test") /\ UNCHANGED tests
       ELSE /\ GoTo(e, AfterGroup(e))
            /\ tests' = [tests EXCEPT ![e].left = @ - 1, ![e].failing = TRUE,
                            ![e].broken = @ \/ x \in {"missing", "timeout"}]
  /\ UNCHANGED <<registry, docker>>

GroupTest(e) ==
  /\ stage[e] = "group_test"
  /\ \E x \in ExitStatus(e) :
       tests' = [tests EXCEPT ![e].left = @ - 1, ![e].ran = @ + 1,
                    ![e].failing = @ \/ x # "ok",
                    ![e].broken = @ \/ x \in {"missing", "timeout"}]
  /\ GoTo(e, AfterGroup(e))
  /\ UNCHANGED <<registry, docker>>

(* What the outcome of a completed run is.  Of an evolution task that runs *)
(* clean, results that miss an expected test still fail it.                *)
Tested(e) ==
  IF e \in Evolution /\ tests[e].broken THEN {"infrastructure_error"}
  ELSE IF tests[e].failing THEN {"tests_failed"}
  ELSE {"passed"} \cup {v \in {"tests_failed"} : e \in Evolution}

CopyResults_FaultyIgnoresStatus(e) ==
  /\ stage[e] = "copy_out"
  /\ \E v \in Tested(e) : Conclude(e, v)
  /\ UNCHANGED <<tests, registry, docker>>

CopyResults_FaultyRetries(e) ==
  /\ stage[e] = "copy_out"
  /\ \E x \in ExitStatus(e) :
       IF x = "ok" THEN \E v \in Tested(e) : Conclude(e, v) ELSE UNCHANGED <<stage, verdict>>
  /\ UNCHANGED <<tests, registry, docker>>

(* tar through docker exec.  This command alone is not wrapped: its        *)
(* TimeoutExpired leaves evaluate() as an exception.                       *)
CopyResults(e) ==
  /\ stage[e] = "copy_out"
  /\ \E x \in ExitStatus(e) :
       \/ x = "timeout" /\ Conclude(e, "raised")
       \/ x = "ok" /\ \E v \in Tested(e) : Conclude(e, v)
       \/ /\ x \in {"nonzero", "missing"}
          /\ IF e \in Evolution /\ tests[e].ran = 0
             THEN \E v \in Tested(e) : Conclude(e, v)
             ELSE Conclude(e, "infrastructure_error")
  /\ UNCHANGED <<tests, registry, docker>>

(* Anything else that raises inside the try block: archiving the workspace, *)
(* writing a build or test log, unpacking or parsing the test results.     *)
HostFails(e) ==
  /\ stage[e] \in InContainer
  /\ Conclude(e, "raised")
  /\ UNCHANGED <<tests, registry, docker>>

RemoveContainer_FaultySkips(e) ==
  /\ stage[e] = "remove"
  /\ IF verdict[e] = "raised" THEN UNCHANGED docker ELSE Remove(e)
  /\ GoTo(e, "unregister")
  /\ UNCHANGED <<tests, registry>>

RemoveContainer(e) ==
  /\ stage[e] = "remove"
  /\ Remove(e)
  /\ GoTo(e, "unregister")
  /\ UNCHANGED <<tests, registry>>

Unregister(e) ==
  /\ stage[e] = "unregister"
  /\ active' = active \ {e}
  /\ GoTo(e, "over")
  /\ UNCHANGED <<tests, cancelled, canceller, doomed, docker>>

-----------------------------------------------------------------------------
(* cancel(): flag and snapshot under the lock, removals outside of it.     *)

SetCancelled ==
  /\ canceller = "idle"
  /\ cancelled' = TRUE
  /\ doomed' = active
  /\ canceller' = "removing"
  /\ UNCHANGED <<thread, active, docker>>

RemoveDoomed(e) ==
  /\ canceller = "removing" /\ e \in doomed
  /\ Remove(e)
  /\ doomed' = doomed \ {e}
  /\ UNCHANGED <<thread, active, cancelled, canceller>>

CancelReturns ==
  /\ canceller = "removing" /\ doomed = {}
  /\ canceller' = "done"
  /\ UNCHANGED <<thread, active, cancelled, doomed, docker>>

-----------------------------------------------------------------------------
(* Steps that wait for nothing or for a docker command with a timeout. *)
Timed(e) ==
  \/ NothingToEvaluate(e) \/ PrepareWorkspace(e) \/ Register(e)
  \/ CheckCancelled(e)
  \/ Build(e) \/ Test(e) \/ GroupBuild(e) \/ GroupTest(e) \/ CopyResults(e)
  \/ RemoveContainer(e) \/ Unregister(e)

(* Steps whose docker commands run without one. *)
Untimed(e) == CreateContainer(e) \/ CopyWorkspace(e)

Evaluate(e) == Timed(e) \/ Untimed(e) \/ HostFails(e)

Next ==
  \/ \E e \in Evaluations : Evaluate(e)
  \/ SetCancelled
  \/ \E e \in Evaluations : RemoveDoomed(e)
  \/ CancelReturns

SafeSpec == Init /\ [][Next]_vars

(* Threads keep running, and build, test, copy-out and removal have a       *)
(* timeout.  docker create, start and the copy-in have none (timeout=None   *)
(* at runner.py 472, 475, 486, 507): nothing says that they ever return.    *)
Spec == SafeSpec /\ \A e \in Evaluations : WF_vars(Timed(e))

-----------------------------------------------------------------------------
(* Properties.                                                             *)

(* Types of the threads, the shared registry and the daemon. *)
TypeOK ==
  /\ stage \in [Evaluations -> Stage]
  /\ verdict \in [Evaluations -> Verdict]
  /\ tests \in [Evaluations -> [left : 0..Groups, ran : 0..Groups,
                                 broken : BOOLEAN, failing : BOOLEAN]]
  /\ active \in SUBSET Evaluations
  /\ cancelled \in BOOLEAN
  /\ canceller \in {"idle", "removing", "done"}
  /\ doomed \in SUBSET Evaluations
  /\ containers \in SUBSET Evaluations
  /\ unremoved \in SUBSET Evaluations

(* cancel() can find every container: none exists that is not registered,  *)
(* except where docker rm itself failed.                                   *)
ContainersRegistered == containers \subseteq active \cup unremoved

(* Once cancel() has returned no evaluation works in a live container: one *)
(* registered too late for its snapshot, or created after the removal, is  *)
(* caught by the check after docker create (runner.py 160-173).            *)
CancelIsEffective ==
  canceller = "done" =>
    \A e \in Evaluations :
      stage[e] \in InContainer => e \notin containers \ unremoved

(* A verdict about the candidate comes from commands that ran in its       *)
(* container.  Only cancel() can make one up, and then never "passed":     *)
(* that is why the queue must not record what it collects afterwards.      *)
VerdictFromContainer ==
  [][\A e \in Evaluations :
       verdict[e] # verdict'[e] /\ verdict'[e] \in Judged =>
         e \in containers \/ (cancelled /\ verdict'[e] # "passed")]_verdict

(* When all evaluations have ended the registry is empty and no container  *)
(* is left but those docker rm failed on, whatever was cancelled, raised or *)
(* timed out on the way.  Only an evaluation that could not write down why  *)
(* docker create failed stays registered, perhaps with its container.      *)
NothingLeft ==
  LET abandoned == {e \in Evaluations : stage[e] = "abandoned"}
  IN (\A e \in Evaluations : stage[e] \in Ended) =>
       active = abandoned /\ containers \subseteq unremoved \cup abandoned

(* Every call of evaluate() returns or raises, unless docker never answers  *)
(* while it creates or starts the container or while the workspace is       *)
(* copied: a candidate cannot keep it from ending.                         *)
EvaluationsEnd ==
  \A e \in Evaluations :
    <>(stage[e] \in Ended) \/ <>[](stage[e] \in {"create", "copy_in"})
=============================================================================
