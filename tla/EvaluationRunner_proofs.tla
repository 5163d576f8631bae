------------------------ MODULE EvaluationRunner_proofs ------------------------
(***************************************************************************)
(* Proofs about EvaluationRunner, for any set of evaluations and any number *)
(* of test groups: the types, that cancel() reaches every container, that   *)
(* verdicts come from containers and that nothing is left behind.          *)
(***************************************************************************)
EXTENDS EvaluationRunner, TLAPS

Tests == [left : 0..Groups, ran : 0..Groups, broken : BOOLEAN, failing : BOOLEAN]

(* Stages before the last test group, stages in which the container is in   *)
(* the registry, stages that may have a container.                         *)
Early == {"idle", "register", "create", "check", "copy_in", "build",
          "group_build", "group_test"}
Registered == {"create", "check", "remove", "unregister", "abandoned"} \cup InContainer
Holds == {"check", "remove", "abandoned"} \cup InContainer

(* The groups still to run and those that ran; an evolution task none of    *)
(* whose groups ran its tests has failed.                                  *)
Counts ==
  \A e \in Evaluations :
    /\ tests[e].ran + tests[e].left <= Groups
    /\ stage[e] \in Early => tests[e].left >= 1
    /\ stage[e] = "test" => e \notin Evolution
    /\ e \in Evolution =>
         /\ tests[e].ran = 0 /\ tests[e].left < Groups => tests[e].failing
         /\ stage[e] = "copy_out" => tests[e].left = 0

TypeInv == TypeOK /\ Counts

LEMMA TypeInit == Init => TypeInv
<1> SUFFICES ASSUME Init PROVE TypeInv
  OBVIOUS
<1>1. /\ NoTests \in Tests /\ NoTests.ran = 0 /\ NoTests.left = Groups
      /\ Groups \in Nat \ {0}
  BY RunnerAssumption DEF NoTests, Tests
<1>2. /\ \A e \in Evaluations : tests[e] = NoTests /\ stage[e] = "idle"
      /\ tests \in [Evaluations -> Tests]
  BY <1>1 DEF Init
<1>3. Counts
  BY <1>1, <1>2 DEF Counts
<1>4. TypeOK
  BY <1>2 DEF Init, TypeOK, Stage, Verdict, Tests
<1> QED
  BY <1>3, <1>4 DEF TypeInv

(* Each stage follows the one before it, and every group is counted once. *)
LEMMA TypeStep == TypeInv /\ [Next]_vars => TypeInv'
<1> SUFFICES ASSUME TypeInv, [Next]_vars PROVE TypeInv'
  OBVIOUS
<1>0. /\ stage \in [Evaluations -> Stage] /\ verdict \in [Evaluations -> Verdict]
      /\ tests \in [Evaluations -> Tests] /\ Groups \in Nat \ {0}
      /\ active \subseteq Evaluations /\ doomed \subseteq Evaluations
      /\ containers \subseteq Evaluations /\ unremoved \subseteq Evaluations
  BY RunnerAssumption DEF TypeInv, TypeOK, Tests
(* A step of one evaluation that leaves its tests alone. *)
<1>q. ASSUME NEW e \in Evaluations, UNCHANGED tests,
             NEW s \in Stage, stage' = [stage EXCEPT ![e] = s],
             s \in Early => stage[e] \in Early,
             s = "test" => e \notin Evolution, s # "copy_out"
      PROVE  stage' \in [Evaluations -> Stage] /\ Counts'
  <2>1. \A f \in Evaluations \ {e} : stage'[f] = stage[f]
    BY <1>q, <1>0
  <2>2. stage'[e] = s
    BY <1>q, <1>0
  <2> QED
    BY <1>q, <1>0, <2>1, <2>2 DEF TypeInv, Counts
(* A step of one evaluation that concludes. *)
<1>c. ASSUME NEW e \in Evaluations, NEW v \in Verdict, Conclude(e, v), UNCHANGED tests
      PROVE  /\ stage' \in [Evaluations -> Stage] /\ Counts'
             /\ verdict' \in [Evaluations -> Verdict]
  <2>1. "remove" \in Stage /\ "remove" \notin Early
    BY DEF Stage, Early
  <2>2. stage' = [stage EXCEPT ![e] = "remove"]
    BY <1>c DEF Conclude
  <2>3. stage' \in [Evaluations -> Stage] /\ Counts'
    BY <1>c, <2>1, <2>2, <1>q
  <2> QED
    BY <1>c, <1>0, <2>3 DEF Conclude
<1>g. ASSUME NEW e \in Evaluations, NEW s \in Stage, GoTo(e, s), UNCHANGED tests,
             s \in Early => stage[e] \in Early,
             s = "test" => e \notin Evolution, s # "copy_out"
      PROVE  /\ stage' \in [Evaluations -> Stage] /\ Counts'
             /\ verdict' \in [Evaluations -> Verdict]
  <2>1. stage' = [stage EXCEPT ![e] = s] /\ verdict' = verdict
    BY <1>g DEF GoTo
  <2>2. stage' \in [Evaluations -> Stage] /\ Counts'
    BY <1>g, <2>1, <1>q
  <2> QED
    BY <2>1, <2>2, <1>0
(* A step of one evaluation that ends it with an exception. *)
<1>x. ASSUME NEW e \in Evaluations, NEW s \in Ended, UNCHANGED tests,
             stage' = [stage EXCEPT ![e] = s],
             verdict' = [verdict EXCEPT ![e] = "raised"]
      PROVE  /\ stage' \in [Evaluations -> Stage] /\ Counts'
             /\ verdict' \in [Evaluations -> Verdict]
  <2>1. s \in Stage /\ s \notin Early /\ s # "test" /\ s # "copy_out"
    BY <1>x DEF Ended, Stage, Early
  <2>2. stage' \in [Evaluations -> Stage] /\ Counts'
    BY <1>x, <2>1, <1>q
  <2>3. "raised" \in Verdict
    BY DEF Verdict
  <2> QED
    BY <1>x, <1>0, <2>2, <2>3
(* The thread's part of a step. *)
<1>t. ASSUME NEW e \in Evaluations, Evaluate(e)
      PROVE  /\ stage' \in [Evaluations -> Stage] /\ Counts'
             /\ verdict' \in [Evaluations -> Verdict] /\ tests' \in [Evaluations -> Tests]
  <2> USE DEF Stage, Early, Verdict
  <2>1. CASE NothingToEvaluate(e)
    <3>1. /\ UNCHANGED tests /\ stage' = [stage EXCEPT ![e] = "over"]
          /\ verdict' \in [Evaluations -> Verdict]
      BY <2>1, <1>0 DEF NothingToEvaluate
    <3>2. stage' \in [Evaluations -> Stage] /\ Counts'
      BY <3>1, <1>q
    <3> QED
      BY <3>1, <3>2, <1>0
  <2>2. CASE PrepareWorkspace(e) \/ Register(e) \/ RemoveContainer(e) \/ Unregister(e)
    <3>1. UNCHANGED tests
      BY <2>2 DEF PrepareWorkspace, Register, RemoveContainer, Unregister
    <3>2. \/ \E s \in {"register", "create", "unregister", "over"} :
               GoTo(e, s) /\ (s \in Early => stage[e] \in Early)
          \/ /\ stage' = [stage EXCEPT ![e] = "over"]
             /\ verdict' = [verdict EXCEPT ![e] = "raised"]
      BY <2>2 DEF PrepareWorkspace, Register, RemoveContainer, Unregister
    <3>3. "over" \in Ended
      BY DEF Ended
    <3> QED
      BY <3>1, <3>2, <3>3, <1>g, <1>x, <1>0
  <2>3. CASE CreateContainer(e) \/ CheckCancelled(e) \/ CopyWorkspace(e) \/ Build(e)
    <3>1. UNCHANGED tests
      BY <2>3 DEF CreateContainer, CheckCancelled, CopyWorkspace, Build
    <3>2. stage[e] \in Early
      BY <2>3 DEF CreateContainer, CheckCancelled, CopyWorkspace, Build
    <3>3. \/ \E v \in {"infrastructure_error", "build_failed"} : Conclude(e, v)
          \/ \E s \in {"check", "copy_in", "build", "group_build"} : GoTo(e, s)
          \/ e \notin Evolution /\ GoTo(e, "test")
          \/ /\ stage' = [stage EXCEPT ![e] = "abandoned"]
             /\ verdict' = [verdict EXCEPT ![e] = "raised"]
      BY <2>3 DEF CreateContainer, CheckCancelled, CopyWorkspace, Build
    <3>4. "abandoned" \in Ended
      BY DEF Ended
    <3> QED
      BY <3>1, <3>2, <3>3, <3>4, <1>c, <1>g, <1>x, <1>0
  <2>4. CASE Test(e)
    <3>1. CASE Conclude(e, "infrastructure_error") /\ UNCHANGED tests
      BY <3>1, <1>c, <1>0
    <3>2. CASE ~(Conclude(e, "infrastructure_error") /\ UNCHANGED tests)
      <4>1. PICK b \in BOOLEAN : tests' = [tests EXCEPT ![e].failing = b]
        BY <2>4, <3>2 DEF Test
      <4>2. GoTo(e, "copy_out") /\ e \notin Evolution
        BY <2>4, <3>2 DEF Test, TypeInv, Counts
      <4>3. /\ tests' \in [Evaluations -> Tests]
            /\ tests'[e].left = tests[e].left /\ tests'[e].ran = tests[e].ran
            /\ \A f \in Evaluations \ {e} : tests'[f] = tests[f]
        BY <4>1, <1>0 DEF Tests
      <4>4. /\ stage' = [stage EXCEPT ![e] = "copy_out"] /\ verdict' = verdict
        BY <4>2 DEF GoTo
      <4>5. stage'[e] = "copy_out" /\ \A f \in Evaluations \ {e} : stage'[f] = stage[f]
        BY <4>4, <1>0
      <4>6. Counts'
        BY <4>2, <4>3, <4>5 DEF TypeInv, Counts
      <4> QED
        BY <4>3, <4>4, <4>6, <1>0
    <3> QED
      BY <3>1, <3>2
  <2>5. CASE GroupBuild(e) \/ GroupTest(e)
    <3>a. /\ tests[e] \in Tests /\ stage[e] \in Early
          /\ tests[e].ran + tests[e].left <= Groups /\ tests[e].left >= 1
      BY <2>5, <1>0 DEF GroupBuild, GroupTest, TypeInv, Counts
    <3>0. /\ tests[e].left \in Nat /\ tests[e].ran \in Nat /\ Groups \in Nat
          /\ tests[e].left >= 1 /\ tests[e].ran + tests[e].left <= Groups
          /\ tests[e].broken \in BOOLEAN /\ tests[e].failing \in BOOLEAN
          /\ stage[e] \in Early
      BY <3>a, <1>0 DEF Tests
    <3>1. CASE GoTo(e, "group_test") /\ UNCHANGED tests
      BY <3>0, <3>1, <1>g, <1>0
    <3>2. CASE ~(GoTo(e, "group_test") /\ UNCHANGED tests)
      <4>1. GoTo(e, AfterGroup(e))
        BY <2>5, <3>2 DEF GroupBuild, GroupTest
      <4>2. /\ \A g \in Evaluations \ {e} : tests'[g] = tests[g]
            /\ tests' = [tests EXCEPT ![e] = tests'[e]]
            /\ tests'[e].left = tests[e].left - 1
            /\ tests'[e].ran \in {tests[e].ran, tests[e].ran + 1}
            /\ tests'[e].ran = tests[e].ran => tests'[e].failing = TRUE
            /\ tests'[e] = [left |-> tests'[e].left, ran |-> tests'[e].ran,
                            broken |-> tests'[e].broken, failing |-> tests'[e].failing]
            /\ tests'[e].broken \in BOOLEAN /\ tests'[e].failing \in BOOLEAN
        <5>1. CASE GroupBuild(e)
          <6>1. PICK x : tests' = [tests EXCEPT ![e].left = @ - 1, ![e].failing = TRUE,
                                     ![e].broken = @ \/ x \in {"missing", "timeout"}]
            BY <5>1, <3>2 DEF GroupBuild
          <6> QED
            BY <6>1, <3>0, <3>a, <1>0 DEF Tests
        <5>2. CASE GroupTest(e)
          <6>1. PICK x : tests' = [tests EXCEPT ![e].left = @ - 1, ![e].ran = @ + 1,
                                     ![e].failing = @ \/ x # "ok",
                                     ![e].broken = @ \/ x \in {"missing", "timeout"}]
            BY <5>2 DEF GroupTest
          <6> QED
            BY <6>1, <3>0, <3>a, <1>0 DEF Tests
        <5> QED
          BY <2>5, <5>1, <5>2
      <4>3. tests' \in [Evaluations -> Tests]
        <5>1. tests'[e] \in Tests
          BY <4>2, <3>0 DEF Tests
        <5> QED
          BY <4>2, <5>1, <1>0
      <4>4. /\ stage' = [stage EXCEPT ![e] = AfterGroup(e)] /\ verdict' = verdict
        BY <4>1 DEF GoTo
      <4>5. /\ stage'[e] = AfterGroup(e) /\ AfterGroup(e) \in Stage
            /\ \A g \in Evaluations \ {e} : stage'[g] = stage[g]
        BY <4>4, <1>0 DEF AfterGroup
      <4>6. /\ tests'[e].ran + tests'[e].left <= Groups
            /\ tests'[e].ran = 0 => tests'[e].failing
        BY <4>2, <3>0
      <4>7. /\ stage'[e] = "copy_out" => tests'[e].left = 0
            /\ stage'[e] \in Early => tests'[e].left >= 1
            /\ stage'[e] # "test"
        BY <4>2, <4>5, <3>0 DEF AfterGroup
      <4>8. Counts'
        BY <4>2, <4>5, <4>6, <4>7 DEF TypeInv, Counts
      <4> QED
        BY <4>3, <4>4, <4>5, <4>8, <1>0
    <3> QED
      BY <3>1, <3>2
  <2>6. CASE CopyResults(e)
    <3>1. UNCHANGED tests /\ \E v \in Verdict : Conclude(e, v)
      BY <2>6 DEF CopyResults, Tested
    <3> QED
      BY <3>1, <1>c, <1>0
  <2>7. CASE HostFails(e)
    <3>1. UNCHANGED tests /\ Conclude(e, "raised")
      BY <2>7 DEF HostFails
    <3> QED
      BY <3>1, <1>c, <1>0
  <2> QED
    BY <1>t, <2>1, <2>2, <2>3, <2>4, <2>5, <2>6, <2>7 DEF Evaluate, Timed, Untimed
(* The shared part of a step. *)
<1>s. ASSUME NEW e \in Evaluations, Evaluate(e)
      PROVE  /\ active' \subseteq Evaluations /\ UNCHANGED <<cancelled, canceller, doomed>>
             /\ containers' \subseteq Evaluations /\ unremoved' \subseteq Evaluations
  BY <1>s, <1>0
  DEF Evaluate, Timed, Untimed, NothingToEvaluate, PrepareWorkspace, Register,
      CreateContainer, CheckCancelled, CopyWorkspace, Build, Test, GroupBuild, GroupTest,
      CopyResults, HostFails, RemoveContainer, Unregister, Remove, registry, docker
<1>1. ASSUME NEW e \in Evaluations, Evaluate(e) PROVE TypeInv'
  BY <1>1, <1>s, <1>t DEF TypeInv, TypeOK, Tests
<1>2. ASSUME SetCancelled \/ CancelReturns \/ \E e \in Evaluations : RemoveDoomed(e)
      PROVE  TypeInv'
  <2>1. /\ UNCHANGED thread /\ active' = active
        /\ cancelled' \in BOOLEAN /\ canceller' \in {"idle", "removing", "done"}
        /\ doomed' \subseteq Evaluations /\ containers' \subseteq Evaluations
        /\ unremoved' \subseteq Evaluations
    BY <1>2, <1>0
    DEF SetCancelled, CancelReturns, RemoveDoomed, Remove, docker, TypeInv, TypeOK
  <2> QED
    BY <2>1, <1>0 DEF thread, TypeInv, TypeOK, Counts
<1>3. CASE UNCHANGED vars
  BY <1>3 DEF vars, thread, registry, docker, TypeInv, TypeOK, Counts
<1> QED
  BY <1>1, <1>2, <1>3 DEF Next

(* Types and counts hold in every reachable state. *)
LEMMA TypeInvCorrect == Spec => []TypeInv
  BY TypeInit, TypeStep, PTL DEF Spec, SafeSpec

(* Every reachable state has the types of TypeOK, for any evaluations and   *)
(* test groups: no group is run twice or left out (runner.py 380-405).     *)
THEOREM TypeCorrect == Spec => []TypeOK
  BY TypeInvCorrect, PTL DEF TypeInv

-----------------------------------------------------------------------------
(* cancel() against the evaluations.                                       *)

(* Who is registered; who may have a container; a container vanishes under  *)
(* its evaluation only after cancel() has begun; and cancel() has on its    *)
(* list every container that an evaluation still works in.                 *)
Book ==
  /\ \A e \in Evaluations : e \in active <=> stage[e] \in Registered
  /\ \A e \in containers : e \in unremoved \/ stage[e] \in Holds
  /\ cancelled <=> canceller # "idle"
  /\ canceller = "done" => doomed = {}
  /\ \A e \in Evaluations :
       stage[e] \in InContainer \cup {"check"} => e \in containers \/ cancelled
  /\ cancelled => \A e \in Evaluations :
       stage[e] \in InContainer /\ e \in containers \ unremoved => e \in doomed

LEMMA BookInit == Init => Book
BY DEF Init, Book, Registered, InContainer

(* The place of an evaluation in the registry follows its stage; the check *)
(* after docker create turns away whoever comes after the snapshot.        *)
LEMMA BookStep == TypeInv /\ Book /\ [Next]_vars => Book'
<1> SUFFICES ASSUME TypeInv, Book, [Next]_vars PROVE Book'
  OBVIOUS
<1>0. /\ stage \in [Evaluations -> Stage] /\ active \subseteq Evaluations
      /\ containers \subseteq Evaluations /\ doomed \subseteq Evaluations
  BY DEF TypeInv, TypeOK
(* An evaluation goes from one stage to the next beside the registry. *)
<1>q. ASSUME NEW e \in Evaluations, NEW s \in Stage, stage' = [stage EXCEPT ![e] = s],
             UNCHANGED <<registry, docker>>,
             s \in Registered <=> stage[e] \in Registered,
             stage[e] \in Holds => s \in Holds,
             s \in InContainer =>
               stage[e] \in InContainer \/ (stage[e] = "check" /\ ~cancelled),
             s # "check"
      PROVE  Book'
  <2>1. stage'[e] = s /\ \A f \in Evaluations \ {e} : stage'[f] = stage[f]
    BY <1>q, <1>0
  <2> QED
    BY <1>q, <2>1, <1>0 DEF Book, registry, docker
<1>1. ASSUME NEW e \in Evaluations, NothingToEvaluate(e) \/ PrepareWorkspace(e)
      PROVE  Book'
  <2>1. \E s \in {"over", "register"} : stage' = [stage EXCEPT ![e] = s]
    BY <1>1 DEF NothingToEvaluate, PrepareWorkspace, GoTo
  <2>2. stage[e] = "idle" /\ UNCHANGED <<registry, docker>>
    BY <1>1 DEF NothingToEvaluate, PrepareWorkspace
  <2> QED
    BY <2>1, <2>2, <1>q DEF Registered, Holds, InContainer, Stage
<1>2. ASSUME NEW e \in Evaluations, Register(e) PROVE Book'
  <2>1. /\ stage[e] = "register" /\ stage' = [stage EXCEPT ![e] = "create"]
        /\ active' = active \cup {e}
        /\ UNCHANGED <<cancelled, canceller, doomed, containers, unremoved>>
    BY <1>2 DEF Register, GoTo, docker
  <2>2. /\ stage'[e] = "create" /\ \A f \in Evaluations \ {e} : stage'[f] = stage[f]
        /\ e \notin containers \ unremoved
    BY <2>1, <1>0 DEF Book, Holds, InContainer
  <2> QED
    BY <2>1, <2>2, <1>0 DEF Book, Registered, Holds, InContainer
<1>3. ASSUME NEW e \in Evaluations, CreateContainer(e) PROVE Book'
  <2>1. /\ stage[e] = "create" /\ UNCHANGED registry /\ UNCHANGED unremoved
        /\ containers' \in {containers, containers \cup {e}}
        /\ \/ stage' = [stage EXCEPT ![e] = "check"] /\ e \in containers'
           \/ stage' = [stage EXCEPT ![e] = "remove"]
           \/ stage' = [stage EXCEPT ![e] = "abandoned"]
    BY <1>3 DEF CreateContainer, GoTo, Conclude
  <2>2. /\ \A f \in Evaluations \ {e} : stage'[f] = stage[f]
        /\ stage'[e] \in {"check", "remove", "abandoned"}
        /\ stage'[e] = "check" => e \in containers'
    BY <2>1, <1>0
  <2> QED
    BY <2>1, <2>2, <1>0 DEF Book, Registered, Holds, InContainer, registry
<1>4. ASSUME NEW e \in Evaluations,
             \/ CheckCancelled(e) \/ CopyWorkspace(e) \/ Build(e) \/ Test(e)
             \/ GroupBuild(e) \/ GroupTest(e) \/ CopyResults(e) \/ HostFails(e)
      PROVE  Book'
  <2>1. UNCHANGED <<registry, docker>>
    BY <1>4
    DEF CheckCancelled, CopyWorkspace, Build, Test, GroupBuild, GroupTest, CopyResults,
        HostFails
  <2>2. \/ stage[e] \in InContainer
        \/ stage[e] = "check" /\ (GoTo(e, "copy_in") => ~cancelled)
    <3>1. CASE CheckCancelled(e)
      <4>1. "remove" # "copy_in"
        OBVIOUS
      <4> QED
        BY <3>1, <1>0, <4>1 DEF CheckCancelled, GoTo, Conclude
    <3>2. CASE ~CheckCancelled(e)
      BY <1>4, <3>2
      DEF CopyWorkspace, Build, Test, GroupBuild, GroupTest, CopyResults, HostFails,
          InContainer
    <3> QED
      BY <3>1, <3>2
  <2>3. \/ GoTo(e, "copy_in") /\ stage[e] = "check"
        \/ stage[e] \in InContainer /\ \E s \in InContainer : GoTo(e, s)
        \/ \E v : Conclude(e, v)
    BY <1>4
    DEF CheckCancelled, CopyWorkspace, Build, Test, GroupBuild, GroupTest, CopyResults,
        HostFails, AfterGroup, InContainer
  <2>4. \E s \in InContainer \cup {"remove"} :
          /\ stage' = [stage EXCEPT ![e] = s]
          /\ s # "remove" => stage[e] \in InContainer \/ (stage[e] = "check" /\ ~cancelled)
    <3>1. CASE \E v : Conclude(e, v)
      <4>1. stage' = [stage EXCEPT ![e] = "remove"]
        BY <3>1 DEF Conclude
      <4> QED
        BY <4>1
    <3>2. CASE GoTo(e, "copy_in") /\ stage[e] = "check"
      <4>1. ~cancelled
        BY <2>2, <3>2 DEF InContainer
      <4>2. stage' = [stage EXCEPT ![e] = "copy_in"] /\ "copy_in" \in InContainer
        BY <3>2 DEF GoTo, InContainer
      <4> QED
        BY <3>2, <4>1, <4>2
    <3>3. CASE stage[e] \in InContainer /\ \E s \in InContainer : GoTo(e, s)
      <4>1. PICK s \in InContainer : stage' = [stage EXCEPT ![e] = s]
        BY <3>3 DEF GoTo
      <4> QED
        BY <3>3, <4>1
    <3> QED
      BY <2>3, <3>1, <3>2, <3>3
  <2>5. InContainer \cup {"remove"} \subseteq Stage
    BY DEF InContainer, Stage
  <2>6. stage[e] \in InContainer \cup {"check"}
    BY <2>2
  <2> QED
    BY <2>1, <2>4, <2>5, <2>6, <1>q DEF Registered, Holds, InContainer
<1>5. ASSUME NEW e \in Evaluations, RemoveContainer(e) PROVE Book'
  <2>1. /\ stage[e] = "remove" /\ stage' = [stage EXCEPT ![e] = "unregister"]
        /\ UNCHANGED registry
        /\ \/ containers' = containers \ {e} /\ unremoved' = unremoved
           \/ containers' = containers /\ unremoved' = unremoved \cup {e}
    BY <1>5 DEF RemoveContainer, Remove, GoTo
  <2>2. /\ stage'[e] = "unregister" /\ \A f \in Evaluations \ {e} : stage'[f] = stage[f]
    BY <2>1, <1>0
  <2> QED
    BY <2>1, <2>2, <1>0 DEF Book, Registered, Holds, InContainer, registry
<1>6. ASSUME NEW e \in Evaluations, Unregister(e) PROVE Book'
  <2>1. /\ stage[e] = "unregister" /\ stage' = [stage EXCEPT ![e] = "over"]
        /\ active' = active \ {e}
        /\ UNCHANGED <<cancelled, canceller, doomed, containers, unremoved>>
    BY <1>6 DEF Unregister, GoTo, docker
  <2>2. /\ stage'[e] = "over" /\ \A f \in Evaluations \ {e} : stage'[f] = stage[f]
    BY <2>1, <1>0
  <2> QED
    BY <2>1, <2>2, <1>0 DEF Book, Registered, Holds, InContainer
<1>7. CASE SetCancelled
  <2>1. /\ canceller' = "removing" /\ cancelled' = TRUE /\ doomed' = active
        /\ UNCHANGED <<stage, active, containers, unremoved>>
    BY <1>7 DEF SetCancelled, thread, docker
  <2> QED
    BY <2>1 DEF Book, Registered
<1>8. ASSUME NEW e \in Evaluations, RemoveDoomed(e) PROVE Book'
  <2>1. /\ canceller = "removing" /\ doomed' = doomed \ {e}
        /\ UNCHANGED <<stage, active, cancelled, canceller>>
        /\ \/ containers' = containers \ {e} /\ unremoved' = unremoved
           \/ containers' = containers /\ unremoved' = unremoved \cup {e}
    BY <1>8 DEF RemoveDoomed, Remove, thread
  <2>2. cancelled
    BY <2>1 DEF Book
  <2> QED
    BY <2>1, <2>2 DEF Book
<1>9. CASE CancelReturns
  BY <1>9 DEF CancelReturns, Book, thread, docker
<1>10. CASE UNCHANGED vars
  BY <1>10 DEF vars, thread, registry, docker, Book
<1> QED
  BY <1>1, <1>2, <1>3, <1>4, <1>5, <1>6, <1>7, <1>8, <1>9, <1>10
  DEF Next, Evaluate, Timed, Untimed

(* Types, counts and the registry's book hold in every reachable state. *)
LEMMA BookCorrect == Spec => [](TypeInv /\ Book)
  BY BookInit, BookStep, TypeInvCorrect, PTL DEF Spec, SafeSpec

(* Every container is in the registry, where cancel() finds it, unless      *)
(* docker rm failed (runner.py 139-173).                                   *)
THEOREM AllRegistered == Spec => []ContainersRegistered
<1>1. TypeInv /\ Book => ContainersRegistered
  BY DEF TypeInv, TypeOK, Book, ContainersRegistered, Registered, Holds
<1> QED
  BY <1>1, BookCorrect, PTL

(* When cancel() has returned no evaluation works in a container that could *)
(* be removed, however its snapshot fell between registration, creation and *)
(* check (runner.py 67-78, 160-173).                                       *)
THEOREM CancelEffective == Spec => []CancelIsEffective
<1>1. TypeInv /\ Book => CancelIsEffective
  BY DEF Book, CancelIsEffective
<1> QED
  BY <1>1, BookCorrect, PTL

(* When all evaluations have ended, only one that could not write down why  *)
(* docker create failed is still registered, and any other container left   *)
(* is one docker rm failed on (runner.py 139-158, 325-327).                *)
THEOREM NothingIsLeft == Spec => []NothingLeft
<1>1. TypeInv /\ Book => NothingLeft
  BY DEF TypeInv, TypeOK, Book, NothingLeft, Registered, Holds, InContainer, Ended
<1> QED
  BY <1>1, BookCorrect, PTL

(* A verdict about the candidate is given while its container exists, or it *)
(* is an adverse one after cancel() (runner.py 290-323, 380-428): a pass    *)
(* always comes from a container.                                          *)
LEMMA VerdictStep ==
  TypeInv /\ Book /\ [Next]_vars =>
    [\A e \in Evaluations :
       verdict[e] # verdict'[e] /\ verdict'[e] \in Judged =>
         e \in containers \/ (cancelled /\ verdict'[e] # "passed")]_verdict
<1> SUFFICES ASSUME TypeInv, Book, [Next]_vars, NEW e \in Evaluations,
                    verdict[e] # verdict'[e], verdict'[e] \in Judged,
                    e \notin containers
             PROVE  cancelled /\ verdict'[e] # "passed"
  OBVIOUS
<1>0. verdict \in [Evaluations -> Verdict] /\ stage \in [Evaluations -> Stage]
  BY DEF TypeInv, TypeOK
<1>1. ExitStatus(e) = {"nonzero"}
  BY DEF ExitStatus
<1>2. PICK f \in Evaluations : Evaluate(f)
  BY DEF Next, SetCancelled, RemoveDoomed, CancelReturns, vars, thread
<1>3. \A v : Conclude(f, v) => f = e /\ verdict'[e] = v
  BY <1>0 DEF Conclude
<1>4. \A s : ~GoTo(f, s)
  BY DEF GoTo
<1>5. ~NothingToEvaluate(f)
  BY <1>0 DEF NothingToEvaluate, Judged
<1>6. ~CreateContainer(f) /\ ~CheckCancelled(f) /\ ~CopyWorkspace(f) /\ ~HostFails(f)
  BY <1>0, <1>3, <1>4
  DEF CreateContainer, CheckCancelled, CopyWorkspace, HostFails, Judged
<1>7. CASE Build(f)
  <2>1. f = e /\ stage[e] = "build" /\ verdict'[e] = "build_failed"
    BY <1>7, <1>1, <1>3, <1>4 DEF Build, Judged
  <2> QED
    BY <2>1 DEF Book, InContainer
<1>8. CASE CopyResults(f)
  <2>1. f = e /\ stage[e] = "copy_out"
    BY <1>8, <1>3 DEF CopyResults
  <2>2. e \in Evolution /\ tests[e].ran = 0 /\ verdict'[e] \in Tested(e)
    BY <1>8, <2>1, <1>1, <1>3 DEF CopyResults, Judged
  <2>3. tests[e].failing
    BY <2>1, <2>2, RunnerAssumption DEF TypeInv, Counts
  <2>4. Tested(e) \subseteq {"infrastructure_error", "tests_failed"}
    BY <2>3 DEF Tested
  <2> QED
    BY <2>1, <2>2, <2>4 DEF Book, InContainer
<1>9. ~Test(f)
  BY <1>3, <1>4 DEF Test, Judged
<1>10. /\ ~PrepareWorkspace(f) /\ ~Register(f) /\ ~RemoveContainer(f) /\ ~Unregister(f)
       /\ ~GroupBuild(f) /\ ~GroupTest(f)
  BY <1>0, <1>4
  DEF PrepareWorkspace, Register, RemoveContainer, Unregister, GroupBuild, GroupTest,
      Judged
<1> QED
  BY <1>2, <1>5, <1>6, <1>7, <1>8, <1>9, <1>10 DEF Evaluate, Timed, Untimed

THEOREM VerdictsFromContainers == Spec => VerdictFromContainer
  BY VerdictStep, BookCorrect, PTL DEF VerdictFromContainer, Spec, SafeSpec

=============================================================================
