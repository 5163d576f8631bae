------------------------ MODULE AgenticPipeline_proofs ------------------------
(***************************************************************************)
(* Theorems about the prepare-ahead queue for every number of pairs and    *)
(* workers.  The invariant is built in layers: types, the books of the     *)
(* main loop, the resources the workers own, and the limits.               *)
(***************************************************************************)
EXTENDS AgenticPipeline, Collections, FiniteSetTheorems, TLAPS

-----------------------------------------------------------------------------
(* Every reachable state has the types declared in TypeOK. *)
THEOREM TypeCorrect == SafeSpec => []TypeOK
<1> USE PipelineAssumption DEF Pair
<1>1. Init => TypeOK
  <2> SUFFICES ASSUME Init PROVE TypeOK
    OBVIOUS
  <2>1. nextPrepare \in 1..(N + 1) /\ pc \in PcState
    BY DEF Init, PcState
  <2>2. readyQueue \in Seq(Pair) /\ evalQueue \in Seq(Pair)
    BY DEF Init
  <2> QED
    BY <2>1, <2>2 DEF Init, TypeOK, FutureState
<1>2. TypeOK /\ [Next]_vars => TypeOK'
  <2> SUFFICES ASSUME TypeOK, [Next]_vars PROVE TypeOK'
    OBVIOUS
  <2> USE DEF TypeOK, PcState, FutureState, books, resources
  <2>1. CASE Preflight
    BY <2>1 DEF Preflight
  <2>2. CASE LoopTop
    BY <2>2 DEF LoopTop
  <2>3. CASE StartGeneration
    <3>1. Head(readyQueue) \in Pair /\ Tail(readyQueue) \in Seq(Pair)
      BY <2>3, TailElements DEF StartGeneration, CanStartGeneration
    <3> QED
      BY <2>3, <3>1 DEF StartGeneration
  <2>4. CASE NoMoreToStart
    BY <2>4 DEF NoMoreToStart
  <2>5. CASE QueuePrepare
    BY <2>5 DEF QueuePrepare, CanQueuePrepare
  <2>6. CASE NoMoreToQueue
    BY <2>6 DEF NoMoreToQueue
  <2>7. CASE WaitReturns
    BY <2>7 DEF WaitReturns, Finished, Active
  <2>8. CASE Interrupt
    BY <2>8 DEF Interrupt
  <2>9. ASSUME NEW p \in Pair, ProcessPrepare(p)
        PROVE  TypeOK'
    <3>1. Append(readyQueue, p) \in Seq(Pair)
      BY <2>9
    <3> QED
      BY <2>9, <3>1 DEF ProcessPrepare, Raise
  <2>10. ASSUME NEW p \in Pair, ProcessGeneration(p)
         PROVE  TypeOK'
    <3>1. Append(evalQueue, p) \in Seq(Pair)
      BY <2>10
    <3> QED
      BY <2>10, <3>1 DEF ProcessGeneration, Raise
  <2>11. ASSUME NEW p \in Pair, CompleteEvaluation(p)
         PROVE  TypeOK'
    BY <2>11 DEF CompleteEvaluation, Raise
  <2>12. CASE BatchProcessed
    BY <2>12 DEF BatchProcessed
  <2>13. CASE CleanReady
    BY <2>13 DEF CleanReady, Discard
  <2>14. CASE CancelFutures
    BY <2>14 DEF CancelFutures
  <2>15. CASE CancelRunner
    BY <2>15 DEF CancelRunner
  <2>16. CASE Unwind
    BY <2>16 DEF Unwind
  <2>17. ASSUME NEW p \in Pair, Worker(p)
         PROVE  TypeOK'
    <3>1. CASE PrepareStarts(p)
      BY <3>1 DEF PrepareStarts
    <3>2. CASE PrepareSucceeds(p)
      BY <3>2 DEF PrepareSucceeds
    <3>3. CASE PrepareFails(p)
      <4>1. /\ future' = [future EXCEPT ![p] = "failed"]
            /\ homes' \in SUBSET Pair /\ containers' \in SUBSET Pair
            /\ left' \in SUBSET Pair
            /\ UNCHANGED <<pc, books, evalQueue, result, cancelled>>
        BY <3>3 DEF PrepareFails
      <4> QED
        BY <4>1
    <3>4. CASE GenerationStarts(p)
      BY <3>4 DEF GenerationStarts
    <3>5. CASE GenerationEnds(p)
      BY <3>5 DEF GenerationEnds, Discard
    <3>6. CASE EvaluationEnds(p)
      <4>1. /\ future' \in [Pair -> FutureState]
            /\ UNCHANGED <<pc, books, evalQueue, resources, cancelled>>
        BY <3>6 DEF EvaluationEnds
      <4>2. result' \in [Pair -> {"none", "genuine", "tainted"}]
        BY <3>6 DEF EvaluationEnds
      <4> QED
        BY <4>1, <4>2
    <3> QED
      BY <2>17, <3>1, <3>2, <3>3, <3>4, <3>5, <3>6 DEF Worker, Timed
  <2>18. CASE EvaluationStarts
    <3>1. Head(evalQueue) \in Pair /\ Tail(evalQueue) \in Seq(Pair)
      BY <2>18, TailElements DEF EvaluationStarts
    <3> QED
      BY <2>18, <3>1 DEF EvaluationStarts
  <2>19. CASE UNCHANGED vars
    BY <2>19 DEF vars
  <2> QED
    BY <2>1, <2>2, <2>3, <2>4, <2>5, <2>6, <2>7, <2>8, <2>9, <2>10, <2>11,
       <2>12, <2>13, <2>14, <2>15, <2>16, <2>17, <2>18, <2>19
    DEF Next, Main, Terminated
<1> QED
  BY <1>1, <1>2, PTL DEF SafeSpec
-----------------------------------------------------------------------------
(* The books of the main loop: an action that moves a pair takes it out of *)
(* one collection and puts it into the next, and the rest only moves pc.   *)
LEMMA BooksInit == Init => Books
<1> SUFFICES ASSUME Init PROVE Books
  OBVIOUS
<1> USE PipelineAssumption DEF Init, Pair
<1>a. Range(<<>>) = {} /\ IsInjective(<<>>)
  BY EmptyElements
<1>1. Ready = {} /\ Recorded = {} /\ Active = {}
  BY <1>a DEF Ready, Recorded, Active
<1>2. NoPairLostOrDuplicated
  BY <1>1, <1>a DEF NoPairLostOrDuplicated, Disjoint
<1>3. QueuesAgree
  BY <1>1, <1>a DEF QueuesAgree
<1>4. VerdictsAgree
  BY DEF VerdictsAgree, RecordedGenuine
<1> QED
  BY <1>2, <1>3, <1>4 DEF Books

(* Steps of the main thread that leave the books alone. *)
PcOnly ==
  \/ Preflight \/ LoopTop \/ NoMoreToStart \/ NoMoreToQueue \/ Interrupt
  \/ BatchProcessed \/ Unwind

(* Steps that only move the program counter keep the books (loop tests of  *)
(* cli.py 1427-1443).                                                      *)
LEMMA BooksPcOnly ==
  ASSUME TypeOK, Books, PcOnly PROVE Books'
<1> USE DEF Books
<1>1. UNCHANGED <<books, future, evalQueue, result, resources, cancelled>>
  BY DEF PcOnly, Preflight, LoopTop, NoMoreToStart, NoMoreToQueue, Interrupt,
         BatchProcessed, Unwind
<1>2. /\ Aborting => Aborting'
      /\ batch' = {}
      /\ cancelled => pc' \in {"unwind", "raised"}
  BY <1>1 DEF PcOnly, Preflight, LoopTop, NoMoreToStart, NoMoreToQueue,
     Interrupt, BatchProcessed, Unwind, Aborting, QueuesAgree, VerdictsAgree,
     books
<1>3. /\ Ready' = Ready /\ Recorded' = Recorded /\ Active' = Active
      /\ Disjoint' = Disjoint
  BY <1>1 DEF Ready, Recorded, Active, Disjoint, books
<1>4. NoPairLostOrDuplicated'
  BY <1>1, <1>2, <1>3 DEF NoPairLostOrDuplicated, books
<1>5. QueuesAgree'
  BY <1>1, <1>2, <1>3 DEF QueuesAgree, books
<1>6. VerdictsAgree'
  BY <1>1, <1>2 DEF VerdictsAgree, RecordedGenuine, books
<1> QED
  BY <1>4, <1>5, <1>6

(* A started session moves from the ready queue to the sessions (cli.py    *)
(* 1387-1399).                                                             *)
LEMMA BooksStartGeneration ==
  ASSUME TypeOK, Books, StartGeneration PROVE Books'
<1> DEFINE h == Head(readyQueue)
<1>1. /\ readyQueue \in Seq(Pair) /\ readyQueue # <<>> /\ IsInjective(readyQueue)
      /\ readyQueue' = Tail(readyQueue) /\ Disjoint
  BY DEF TypeOK, StartGeneration, CanStartGeneration, Books,
         NoPairLostOrDuplicated, Disjoint
<1>2. /\ h \in Pair /\ Ready = {h} \cup Ready' /\ h \notin Ready'
      /\ IsInjective(readyQueue')
  BY <1>1, TailElements DEF Ready
<1> HIDE DEF h
<1>3. /\ activeGenerations' = activeGenerations \cup {h}
      /\ future' = [future EXCEPT ![h] = "submitted"]
      /\ UNCHANGED <<pc, nextPrepare, activePrepares, pending, batch, scores,
                     evalQueue, result, resources, cancelled>>
  BY DEF StartGeneration, h
<1>4. Recorded' = Recorded /\ (Aborting' <=> Aborting) /\ Active' = Active \cup {h}
  BY <1>3 DEF Recorded, Aborting, Active
<1>5. Disjoint'
  BY <1>1, <1>2, <1>3, <1>4 DEF Disjoint
<1>6. NoPairLostOrDuplicated'
  BY <1>2, <1>3, <1>4, <1>5 DEF Books, NoPairLostOrDuplicated
<1>7. h \notin pending
  BY <1>1, <1>2 DEF Disjoint
<1>8. QueuesAgree'
  BY <1>3, <1>4, <1>7 DEF Books, QueuesAgree, TypeOK
<1>9. VerdictsAgree'
  BY <1>3, <1>7 DEF Books, VerdictsAgree, RecordedGenuine, TypeOK
<1> QED
  BY <1>6, <1>8, <1>9 DEF Books

(* A queued prepare takes the next unqueued pair (cli.py 1370-1385). *)
LEMMA BooksQueuePrepare ==
  ASSUME TypeOK, Books, QueuePrepare PROVE Books'
<1> USE PipelineAssumption DEF Books, TypeOK, Pair, QueuePrepare,
        CanQueuePrepare
<1> DEFINE n == nextPrepare
<1>1. n \in Pair /\ n' = n + 1 /\ 1..(n' - 1) = 1..(n - 1) \cup {n}
  OBVIOUS
<1>2. /\ Recorded' = Recorded /\ Ready' = Ready /\ Active' = Active \cup {n}
      /\ (Aborting' <=> Aborting)
  BY DEF Recorded, Ready, Active, Aborting
<1>3. n \notin Active \cup Ready \cup Recorded
  BY DEF NoPairLostOrDuplicated, Disjoint
<1>4. Disjoint'
  BY <1>1, <1>2, <1>3 DEF NoPairLostOrDuplicated, Disjoint, Active
<1>5. NoPairLostOrDuplicated'
  BY <1>1, <1>2, <1>4 DEF NoPairLostOrDuplicated
<1>6. QueuesAgree'
  BY <1>2, <1>3 DEF QueuesAgree, Active
<1>7. VerdictsAgree'
  BY <1>3 DEF VerdictsAgree, RecordedGenuine, Active
<1> QED
  BY <1>5, <1>6, <1>7

(* The batch holds only pairs that are in the books (cli.py 1440-1443). *)
LEMMA BooksWaitReturns ==
  ASSUME TypeOK, Books, WaitReturns PROVE Books'
<1> USE DEF Books, WaitReturns
<1>1. /\ Recorded' = Recorded /\ Ready' = Ready /\ Active' = Active
      /\ (Aborting' <=> Aborting) /\ Disjoint' = Disjoint
  BY DEF Recorded, Ready, Active, Aborting, Disjoint
<1>2. NoPairLostOrDuplicated'
  BY <1>1 DEF NoPairLostOrDuplicated
<1>3. QueuesAgree'
  BY <1>1 DEF QueuesAgree, Finished
<1>4. VerdictsAgree'
  BY DEF VerdictsAgree, RecordedGenuine
<1> QED
  BY <1>2, <1>3, <1>4

(* A collected prepare moves its pair to the ready queue, or aborts        *)
(* (cli.py 1445-1472).                                                     *)
LEMMA BooksProcessPrepare ==
  ASSUME TypeOK, Books, NEW p \in Pair, ProcessPrepare(p) PROVE Books'
<1> USE PipelineAssumption DEF Books, TypeOK, Pair
<1>1. /\ pc = "batch" /\ p \in activePrepares /\ activePrepares' = activePrepares \ {p}
      /\ UNCHANGED <<activeGenerations, pending, nextPrepare, scores, evalQueue,
                     result, cancelled>>
  BY DEF ProcessPrepare, Raise
<1>2. Disjoint /\ p \notin Ready \cup activeGenerations \cup pending \cup Recorded
  BY <1>1 DEF NoPairLostOrDuplicated, Disjoint
<1>3. Recorded' = Recorded /\ ~Aborting
  BY <1>1 DEF Recorded, Aborting
<1>4. VerdictsAgree'
  BY <1>1, <1>2 DEF VerdictsAgree, RecordedGenuine, ProcessPrepare, Raise
<1>5. CASE future[p] = "done"
  <2>1. /\ readyQueue' = Append(readyQueue, p) /\ pc' = pc
        /\ future' = [future EXCEPT ![p] = "none"] /\ batch' = batch \ {p}
    BY <1>5 DEF ProcessPrepare
  <2>2. /\ Ready' = Ready \cup {p} /\ Active' = Active \ {p}
        /\ IsInjective(readyQueue')
    BY <1>1, <1>2, <2>1, AppendElements DEF Ready, Active, Disjoint
  <2>4. Disjoint'
    <3>1. (Active \cup Ready \cup Recorded)' = Active \cup Ready \cup Recorded
      BY <1>1, <1>3, <2>2 DEF Active
    <3> QED
      BY <1>1, <1>2, <1>3, <2>2, <3>1 DEF Disjoint
  <2>5. NoPairLostOrDuplicated'
    BY <1>1, <1>3, <2>2, <2>4 DEF NoPairLostOrDuplicated, Active
  <2>6. QueuesAgree'
    BY <1>1, <1>2, <2>1, <2>2 DEF QueuesAgree
  <2> QED
    BY <1>4, <2>5, <2>6
<1>6. CASE future[p] = "failed"
  <2>1. Raise
    BY <1>6 DEF ProcessPrepare
  <2>2. Ready' = Ready /\ Active' \subseteq Active /\ Aborting'
    BY <1>1, <2>1 DEF Raise, Ready, Active, Aborting
  <2>3. Disjoint'
    BY <1>1, <1>2, <1>3, <2>1, <2>2 DEF Disjoint, Raise
  <2>4. QueuesAgree'
    BY <1>1, <2>1 DEF QueuesAgree, Raise
  <2> QED
    BY <1>4, <2>2, <2>3, <2>4 DEF NoPairLostOrDuplicated
<1> QED
  BY <1>5, <1>6 DEF ProcessPrepare

(* A collected session moves its pair to the evaluations, or aborts        *)
(* (cli.py 1474-1501).                                                     *)
LEMMA BooksProcessGeneration ==
  ASSUME TypeOK, Books, NEW p \in Pair, ProcessGeneration(p) PROVE Books'
<1> USE PipelineAssumption DEF Books, TypeOK, Pair
<1>1. /\ pc = "batch" /\ p \in activeGenerations
      /\ activeGenerations' = activeGenerations \ {p}
      /\ UNCHANGED <<activePrepares, readyQueue, nextPrepare, scores, result,
                     cancelled>>
  BY DEF ProcessGeneration, Raise
<1>2. Disjoint /\ p \notin Ready \cup activePrepares \cup pending \cup Recorded
  BY <1>1 DEF NoPairLostOrDuplicated, Disjoint
<1>3. Recorded' = Recorded /\ Ready' = Ready /\ ~Aborting
  BY <1>1 DEF Recorded, Ready, Aborting
<1>4. CASE future[p] = "done"
  <2>1. /\ pending' = pending \cup {p} /\ evalQueue' = Append(evalQueue, p)
        /\ pc' = pc /\ batch' = batch \ {p}
        /\ future' = [future EXCEPT ![p] = "submitted"]
    BY <1>4 DEF ProcessGeneration
  <2>2. Active' = Active
    BY <1>1, <2>1 DEF Active
  <2>3. Disjoint'
    BY <1>1, <1>2, <1>3, <2>1, <2>2 DEF Disjoint
  <2>4. NoPairLostOrDuplicated'
    BY <1>1, <1>3, <2>2, <2>3 DEF NoPairLostOrDuplicated
  <2>5. p \notin Range(evalQueue)
    BY <1>2 DEF QueuesAgree
  <2>6. Range(evalQueue') = Range(evalQueue) \cup {p} /\ IsInjective(evalQueue')
    BY <2>1, <2>5, AppendElements DEF QueuesAgree
  <2>7. QueuesAgree'
    BY <1>1, <2>1, <2>2, <2>5, <2>6 DEF QueuesAgree
  <2>8. VerdictsAgree'
    BY <1>1, <2>1 DEF VerdictsAgree, RecordedGenuine
  <2> QED
    BY <2>4, <2>7, <2>8
<1>5. CASE future[p] = "failed"
  <2>1. Raise /\ pending' = pending
    BY <1>5 DEF ProcessGeneration
  <2>2. Active' \subseteq Active /\ Aborting'
    BY <1>1, <2>1 DEF Raise, Active, Aborting
  <2>3. Disjoint'
    BY <1>1, <1>2, <1>3, <2>1, <2>2 DEF Disjoint, Raise
  <2>4. QueuesAgree' /\ VerdictsAgree'
    BY <1>1, <2>1 DEF QueuesAgree, VerdictsAgree, RecordedGenuine, Raise
  <2> QED
    BY <2>2, <2>3, <2>4 DEF NoPairLostOrDuplicated
<1> QED
  BY <1>4, <1>5 DEF ProcessGeneration

(* A collected evaluation moves its pair to the scores, or aborts (cli.py  *)
(* 1695-1751).                                                             *)
LEMMA BooksCompleteEvaluation ==
  ASSUME TypeOK, Books, NEW p \in Pair, CompleteEvaluation(p) PROVE Books'
<1> USE PipelineAssumption DEF Books, TypeOK, Pair
<1>1. /\ pc = "batch" /\ p \in pending /\ pending' = pending \ {p}
      /\ UNCHANGED <<activePrepares, activeGenerations, readyQueue, nextPrepare,
                     future, evalQueue, result, cancelled>>
      /\ future[p] \in {"done", "failed"}
  BY DEF CompleteEvaluation, Raise
<1>2. Disjoint /\ p \notin Ready \cup activePrepares \cup activeGenerations \cup Recorded
  BY <1>1 DEF NoPairLostOrDuplicated, Disjoint
<1>3. Ready' = Ready /\ ~Aborting /\ p \notin Range(evalQueue) /\ p \in Active
  BY <1>1 DEF Ready, Aborting, QueuesAgree, Active
<1>4. CASE future[p] = "done"
  <2>1. /\ scores' = [scores EXCEPT ![p] = result[p]]
        /\ batch' = batch \ {p} /\ pc' = pc
    BY <1>4 DEF CompleteEvaluation
  <2>2. result[p] = "genuine"
    BY <1>1, <1>4 DEF VerdictsAgree
  <2>3. Recorded' = Recorded \cup {p} /\ Active' = Active \ {p}
    BY <1>1, <1>2, <2>1, <2>2 DEF Recorded, Active
  <2>4. Disjoint'
    BY <1>1, <1>2, <1>3, <2>1, <2>3 DEF Disjoint
  <2>5. NoPairLostOrDuplicated'
    BY <1>1, <1>3, <2>3, <2>4 DEF NoPairLostOrDuplicated
  <2>6. QueuesAgree'
    BY <1>1, <1>3, <2>1, <2>3 DEF QueuesAgree
  <2>7. VerdictsAgree'
    BY <1>1, <2>1, <2>2 DEF VerdictsAgree, RecordedGenuine
  <2> QED
    BY <2>5, <2>6, <2>7
<1>5. CASE future[p] = "failed"
  <2>1. Raise
    BY <1>5 DEF CompleteEvaluation
  <2>2. Active' \subseteq Active /\ Aborting' /\ Recorded' = Recorded
    BY <1>1, <2>1 DEF Raise, Active, Aborting, Recorded
  <2>3. Disjoint'
    BY <1>1, <1>2, <1>3, <2>1, <2>2 DEF Disjoint, Raise
  <2>4. QueuesAgree' /\ VerdictsAgree'
    BY <1>1, <1>3, <2>1 DEF QueuesAgree, VerdictsAgree, RecordedGenuine, Raise
  <2> QED
    BY <2>2, <2>3, <2>4 DEF NoPairLostOrDuplicated
<1> QED
  BY <1>4, <1>5, <1>1

(* Tearing down: the books stand still, futures can only become cancelled. *)
LEMMA BooksTeardown ==
  ASSUME TypeOK, Books, CleanReady \/ CancelFutures \/ CancelRunner
  PROVE  Books'
<1> USE DEF Books
<1>1. /\ UNCHANGED <<books, evalQueue, result>>
      /\ Aborting /\ Aborting' /\ batch = {}
      /\ pc \notin {"unwind", "raised"}
      /\ cancelled' => pc' \in {"unwind", "raised"}
      /\ cancelled => cancelled'
  BY DEF CleanReady, CancelFutures, CancelRunner, Aborting, QueuesAgree,
         VerdictsAgree
<1>2. \A p \in pending : future'[p] = future[p]
  BY DEF CleanReady, CancelFutures, CancelRunner, TypeOK, Pair,
         NoPairLostOrDuplicated, Disjoint
<1>3. /\ Ready' = Ready /\ Recorded' = Recorded /\ Active' = Active
      /\ Disjoint' = Disjoint
  BY <1>1 DEF Ready, Recorded, Active, Disjoint, books
<1>4. NoPairLostOrDuplicated'
  BY <1>1, <1>3 DEF NoPairLostOrDuplicated
<1>5. QueuesAgree'
  BY <1>1, <1>2, <1>3 DEF QueuesAgree, books
<1>6. VerdictsAgree'
  BY <1>1, <1>2 DEF VerdictsAgree, RecordedGenuine, books
<1> QED
  BY <1>4, <1>5, <1>6

(* A worker only changes the state of its own future, and the verdict of   *)
(* an evaluation it finishes.                                              *)
LEMMA BooksWorker ==
  ASSUME TypeOK, Books, NEW p \in Pair, Worker(p) PROVE Books'
<1> USE DEF Books
<1>1. UNCHANGED <<pc, books, evalQueue, cancelled>>
  BY DEF Worker, Timed, PrepareStarts, PrepareSucceeds, PrepareFails,
         GenerationStarts, GenerationEnds, EvaluationEnds
<1>2. /\ p \in Active /\ p \notin Range(evalQueue)
      /\ \A q \in Pair \ {p} : future'[q] = future[q] /\ result'[q] = result[q]
      /\ p \in pending => p \in Evaluating
      /\ p \notin Evaluating => result' = result
  <2>1. CASE EvaluationEnds(p)
    BY <2>1 DEF EvaluationEnds, Evaluating, QueuesAgree, Active, TypeOK
  <2>2. CASE ~EvaluationEnds(p)
    <3>1. p \in activePrepares \cup activeGenerations /\ result' = result
      BY <2>2 DEF Worker, Timed, PrepareStarts, PrepareSucceeds, PrepareFails,
                  GenerationStarts, GenerationEnds
    <3>2. \A q \in Pair \ {p} : future'[q] = future[q]
      BY <2>2 DEF Worker, Timed, PrepareStarts, PrepareSucceeds, PrepareFails,
                  GenerationStarts, GenerationEnds, TypeOK
    <3>3. p \notin pending
      BY <3>1 DEF NoPairLostOrDuplicated, Disjoint
    <3> QED
      BY <3>1, <3>2, <3>3 DEF Active, QueuesAgree, Evaluating
  <2> QED
    BY <2>1, <2>2
<1>3. /\ Ready' = Ready /\ Recorded' = Recorded /\ Active' = Active
      /\ Disjoint' = Disjoint /\ Aborting' = Aborting
  BY <1>1 DEF Ready, Recorded, Active, Disjoint, Aborting, books
<1>4. NoPairLostOrDuplicated'
  BY <1>1, <1>3 DEF NoPairLostOrDuplicated, books
<1>5. QueuesAgree'
  BY <1>1, <1>2, <1>3 DEF QueuesAgree, books, TypeOK
<1>6. VerdictsAgree'
  <2>1. CASE p \in Evaluating
    <3>1. EvaluationEnds(p)
      BY <2>1 DEF Worker, Timed, PrepareStarts, PrepareSucceeds, PrepareFails,
         GenerationStarts, GenerationEnds, Evaluating, NoPairLostOrDuplicated,
         Disjoint
    <3>2. /\ future'[p] = "done" => result'[p] \in {"genuine", "tainted"}
          /\ result'[p] = "tainted" => cancelled
      BY <3>1 DEF EvaluationEnds, TypeOK, VerdictsAgree
    <3> QED
      BY <1>1, <1>2, <3>2 DEF VerdictsAgree, RecordedGenuine, books, TypeOK
  <2>2. CASE p \notin Evaluating
    BY <1>1, <1>2, <2>2 DEF VerdictsAgree, RecordedGenuine, books, TypeOK
  <2> QED
    BY <2>1, <2>2
<1> QED
  BY <1>4, <1>5, <1>6

(* An evaluation that starts leaves the FIFO and stays pending (cli.py     *)
(* 1647-1692).                                                             *)
LEMMA BooksEvaluationStarts ==
  ASSUME TypeOK, Books, EvaluationStarts PROVE Books'
<1> USE DEF Books
<1> DEFINE h == Head(evalQueue)
<1>1. /\ evalQueue \in Seq(Pair) /\ evalQueue # <<>> /\ IsInjective(evalQueue)
      /\ evalQueue' = Tail(evalQueue)
      /\ future' = [future EXCEPT ![h] = "running"]
      /\ UNCHANGED <<pc, books, result, cancelled>>
  BY DEF TypeOK, EvaluationStarts, QueuesAgree
<1>2. /\ h \in Pair /\ Range(evalQueue) = {h} \cup Range(evalQueue')
      /\ h \notin Range(evalQueue') /\ IsInjective(evalQueue')
  BY <1>1, TailElements
<1> HIDE DEF h
<1>3. /\ Ready' = Ready /\ Recorded' = Recorded /\ Active' = Active
      /\ Disjoint' = Disjoint /\ Aborting' = Aborting
  BY <1>1 DEF Ready, Recorded, Active, Disjoint, Aborting, books
<1>4. NoPairLostOrDuplicated'
  BY <1>1, <1>3 DEF NoPairLostOrDuplicated, books
<1>5. QueuesAgree'
  BY <1>1, <1>2, <1>3 DEF QueuesAgree, books, TypeOK
<1>6. VerdictsAgree'
  BY <1>1, <1>2 DEF VerdictsAgree, RecordedGenuine, books, TypeOK
<1> QED
  BY <1>4, <1>5, <1>6

(* The books of the main loop agree with each other in every reachable     *)
(* state.                                                                  *)
THEOREM BooksCorrect == SafeSpec => []Books
<1>1. TypeOK /\ Books /\ [Next]_vars => Books'
  <2> SUFFICES ASSUME TypeOK, Books, [Next]_vars PROVE Books'
    OBVIOUS
  <2>1. CASE UNCHANGED vars
    BY <2>1 DEF vars, books, resources, Books, NoPairLostOrDuplicated,
       Disjoint, QueuesAgree, VerdictsAgree, RecordedGenuine, Ready, Recorded,
       Active, Aborting
  <2>2. CASE PcOnly
    BY <2>2, BooksPcOnly
  <2>3. CASE StartGeneration \/ QueuePrepare \/ WaitReturns
    BY <2>3, BooksStartGeneration, BooksQueuePrepare, BooksWaitReturns
  <2>4. CASE \E p \in Pair : \/ ProcessPrepare(p) \/ ProcessGeneration(p)
                             \/ CompleteEvaluation(p)
    BY <2>4, BooksProcessPrepare, BooksProcessGeneration,
       BooksCompleteEvaluation
  <2>5. CASE CleanReady \/ CancelFutures \/ CancelRunner
    BY <2>5, BooksTeardown
  <2>6. CASE \E p \in Pair : Worker(p)
    BY <2>6, BooksWorker
  <2>7. CASE EvaluationStarts
    BY <2>7, BooksEvaluationStarts
  <2> QED
    BY <2>1, <2>2, <2>3, <2>4, <2>5, <2>6, <2>7 DEF Next, Main, Terminated, PcOnly
<1> QED
  BY <1>1, BooksInit, TypeCorrect, PTL DEF SafeSpec

(* No pair is lost or duplicated, for any number of pairs and workers. *)
THEOREM NoPairLost == SafeSpec => []NoPairLostOrDuplicated
<1>1. Books => NoPairLostOrDuplicated
  BY DEF Books
<1> QED
  BY <1>1, BooksCorrect, PTL

(* No verdict spoiled by the cancellation of the runner is ever recorded. *)
THEOREM OnlyGenuineRecorded == SafeSpec => []RecordedGenuine
<1>1. Books => RecordedGenuine
  BY DEF Books, VerdictsAgree
<1> QED
  BY <1>1, BooksCorrect, PTL

-----------------------------------------------------------------------------
(* Containers and homes: a prepared pair owns them from the moment its     *)
(* prepare ends until its session ends.                                    *)
LEMMA ResourcesStep ==
  ASSUME TypeOK, Books, Books', ResourcesOwned, [Next]_vars
  PROVE  ResourcesOwned'
<1>0. /\ Disjoint /\ Disjoint'
      /\ Active \cup Ready \cup Recorded \subseteq 1..(nextPrepare - 1)
  BY DEF Books, NoPairLostOrDuplicated, Disjoint
<1>1. CASE PcOnly \/ WaitReturns \/ CancelRunner \/ EvaluationStarts
  <2>1. /\ UNCHANGED <<activePrepares, activeGenerations, readyQueue, resources>>
        /\ Aborting => Aborting'
    BY <1>1 DEF PcOnly, Preflight, LoopTop, NoMoreToStart, NoMoreToQueue,
       Interrupt, BatchProcessed, Unwind, WaitReturns, CancelRunner,
       EvaluationStarts, Aborting, books
  <2>2. \A q \in activePrepares \cup activeGenerations : future'[q] = future[q]
    <3>1. CASE EvaluationStarts
      <4>1. Head(evalQueue) \in pending
        <5>1. Head(evalQueue) \in Range(evalQueue)
          BY <3>1, TailElements DEF EvaluationStarts, TypeOK
        <5> QED
          BY <5>1 DEF Books, QueuesAgree
      <4> QED
        BY <3>1, <4>1, <1>0 DEF EvaluationStarts, TypeOK, Disjoint
    <3>2. CASE ~EvaluationStarts
      BY <1>1, <3>2 DEF PcOnly, Preflight, LoopTop, NoMoreToStart, NoMoreToQueue,
         Interrupt, BatchProcessed, Unwind, WaitReturns, CancelRunner
    <3> QED
      BY <3>1, <3>2
  <2> QED
    BY <2>1, <2>2 DEF ResourcesOwned, Ready, resources
<1>2. CASE StartGeneration
  <2> DEFINE h == Head(readyQueue)
  <2>1. h \in Pair /\ Ready = {h} \cup Ready'
    BY <1>2, TailElements DEF StartGeneration, CanStartGeneration, TypeOK, Ready
  <2> HIDE DEF h
  <2>2. /\ activeGenerations' = activeGenerations \cup {h}
        /\ future' = [future EXCEPT ![h] = "submitted"]
        /\ UNCHANGED <<pc, activePrepares, homes, containers, left>>
    BY <1>2 DEF StartGeneration, h, resources
  <2>3. h \notin activePrepares
    BY <2>1, <1>0 DEF Disjoint
  <2> QED
    BY <2>1, <2>2, <2>3 DEF ResourcesOwned, Aborting, TypeOK
<1>3. CASE QueuePrepare
  <2>1. nextPrepare \in Pair /\ nextPrepare \notin Active \cup Ready \cup Recorded
    BY <1>0, <1>3, PipelineAssumption DEF QueuePrepare, CanQueuePrepare, TypeOK, Pair
  <2> QED
    BY <1>3, <2>1 DEF QueuePrepare, ResourcesOwned, Aborting, TypeOK, Ready,
       Active, resources
<1>4. ASSUME NEW p \in Pair, ProcessPrepare(p)
      PROVE  ResourcesOwned'
  <2>1. /\ p \in activePrepares /\ p \notin activeGenerations /\ p \notin Ready
        /\ activePrepares' = activePrepares \ {p}
        /\ UNCHANGED <<activeGenerations, homes, containers, left>>
        /\ \A q \in Pair \ {p} : future'[q] = future[q]
    BY <1>4, <1>0 DEF ProcessPrepare, Raise, resources, TypeOK, Disjoint
  <2>2. CASE future[p] = "done"
    <3>1. Ready' = Ready \cup {p} /\ pc' = pc
      <4>1. readyQueue' = Append(readyQueue, p) /\ pc' = pc
        BY <1>4, <2>2 DEF ProcessPrepare
      <4>2. readyQueue \in Seq(Pair)
        BY DEF TypeOK
      <4> QED
        BY <4>1, <4>2, AppendElements DEF Ready
    <3> QED
      BY <2>1, <3>1 DEF ResourcesOwned, Aborting, TypeOK
  <2>3. CASE future[p] = "failed"
    <3>1. Ready' = Ready /\ Aborting' /\ p \notin containers \ left
      BY <1>4, <2>1, <2>3 DEF ProcessPrepare, Raise, Ready, Aborting,
         ResourcesOwned
    <3> QED
      BY <2>1, <3>1 DEF ResourcesOwned, TypeOK
  <2> QED
    BY <1>4, <2>2, <2>3 DEF ProcessPrepare
<1>5. ASSUME NEW p \in Pair, ProcessGeneration(p)
      PROVE  ResourcesOwned'
  <2>1. /\ p \in activeGenerations /\ p \notin activePrepares
        /\ activeGenerations' = activeGenerations \ {p}
        /\ UNCHANGED <<activePrepares, readyQueue, homes, containers, left>>
        /\ \A q \in Pair \ {p} : future'[q] = future[q]
        /\ future[p] \in {"done", "failed"}
        /\ ~Aborting
    BY <1>5, <1>0 DEF ProcessGeneration, Raise, resources, TypeOK, Disjoint,
       Aborting
  <2>2. p \notin (containers \cup homes) \ left
    BY <2>1 DEF ResourcesOwned
  <2> QED
    BY <2>1, <2>2 DEF ResourcesOwned, TypeOK, Ready
<1>6. ASSUME NEW p \in Pair, CompleteEvaluation(p)
      PROVE  ResourcesOwned'
  <2>1. /\ UNCHANGED <<activePrepares, activeGenerations, readyQueue, homes,
                       containers, left, future>>
        /\ ~Aborting
    BY <1>6 DEF CompleteEvaluation, Raise, resources, Aborting
  <2> QED
    BY <2>1 DEF ResourcesOwned, Ready
<1>7. CASE CleanReady
  BY <1>7 DEF CleanReady, Discard, ResourcesOwned, Aborting, Ready, books
<1>8. CASE CancelFutures
  BY <1>8 DEF CancelFutures, ResourcesOwned, Aborting, Ready, books, resources, TypeOK
<1>9. ASSUME NEW p \in Pair, Worker(p)
      PROVE  ResourcesOwned'
  <2>1. /\ UNCHANGED <<activePrepares, activeGenerations, readyQueue, pc>>
        /\ Ready' = Ready /\ Aborting' = Aborting
        /\ activePrepares \cap activeGenerations = {}
        /\ pending \cap (activePrepares \cup activeGenerations) = {}
    BY <1>9, <1>0 DEF Worker, Timed, PrepareStarts, PrepareSucceeds, PrepareFails,
       GenerationStarts, GenerationEnds, EvaluationEnds, books, Ready, Aborting,
       Disjoint
  <2>2. CASE PrepareStarts(p)
    BY <2>1, <2>2 DEF PrepareStarts, ResourcesOwned, TypeOK, resources
  <2>3. CASE PrepareSucceeds(p)
    BY <2>1, <2>3 DEF PrepareSucceeds, ResourcesOwned, TypeOK
  <2>4. CASE PrepareFails(p)
    BY <2>1, <2>4 DEF PrepareFails, ResourcesOwned, TypeOK
  <2>5. CASE GenerationStarts(p)
    BY <2>1, <2>5 DEF GenerationStarts, ResourcesOwned, TypeOK
  <2>6. CASE GenerationEnds(p)
    BY <2>1, <2>6 DEF GenerationEnds, Discard, ResourcesOwned, TypeOK
  <2>7. CASE EvaluationEnds(p)
    BY <2>1, <2>7 DEF EvaluationEnds, Evaluating, ResourcesOwned, TypeOK, resources
  <2> QED
    BY <1>9, <2>2, <2>3, <2>4, <2>5, <2>6, <2>7 DEF Worker, Timed
<1>10. CASE UNCHANGED vars
  BY <1>10 DEF vars, books, resources, ResourcesOwned, Ready, Aborting
<1> QED
  BY <1>1, <1>2, <1>3, <1>4, <1>5, <1>6, <1>7, <1>8, <1>9, <1>10
  DEF Next, Main, Terminated, PcOnly

(* Containers and homes belong to the pairs the main loop or a thread      *)
(* holds (cli.py 1402-1411, 1558-1571).                                    *)
THEOREM ResourcesCorrect == SafeSpec => []ResourcesOwned
<1>1. Init => ResourcesOwned
  BY DEF Init, ResourcesOwned
<1>2. TypeOK /\ Books /\ Books' /\ ResourcesOwned /\ [Next]_vars => ResourcesOwned'
  BY ResourcesStep
<1> QED
  BY <1>1, <1>2, TypeCorrect, BooksCorrect, PTL DEF SafeSpec

-----------------------------------------------------------------------------
(* Limits: the two while conditions count what is outstanding before they  *)
(* add to it, and everything else only takes away or moves.                *)
Limits == SlotsBounded /\ LookaheadFull

(* Every set of pairs is finite. *)
LEMMA PairsFinite ==
  ASSUME NEW S \in SUBSET Pair
  PROVE  IsFiniteSet(S) /\ Cardinality(S) \in Nat
<1>1. IsFiniteSet(Pair)
  BY PipelineAssumption, FS_Interval DEF Pair
<1> QED
  BY <1>1, FS_Subset, FS_CardinalityType

(* A union has at most as many elements as its parts together. *)
LEMMA UnionBound ==
  ASSUME NEW A, NEW B, IsFiniteSet(A), IsFiniteSet(B)
  PROVE  /\ IsFiniteSet(A \cup B) /\ Cardinality(A \cup B) \in Nat
         /\ Cardinality(A \cup B) <= Cardinality(A) + Cardinality(B)
<1>1. IsFiniteSet(A \cap B)
  <2>1. A \cap B \in SUBSET A
    OBVIOUS
  <2> QED
    BY <2>1, FS_Subset
<1>2. /\ IsFiniteSet(A \cup B)
      /\ Cardinality(A \cup B) = Cardinality(A) + Cardinality(B) - Cardinality(A \cap B)
  BY FS_Union
<1>3. /\ Cardinality(A) \in Nat /\ Cardinality(B) \in Nat
      /\ Cardinality(A \cap B) \in Nat /\ Cardinality(A \cup B) \in Nat
  BY <1>1, <1>2, FS_CardinalityType
<1> QED
  BY <1>2, <1>3

(* No step takes the queue over the limits tested in cli.py 1372-1375 and  *)
(* 1391.                                                                   *)
LEMMA LimitsStep ==
  ASSUME TypeOK, TypeOK', Books, Limits, [Next]_vars
  PROVE  Limits'
<1> USE DEF Limits
<1> DEFINE ahead == Cardinality(activePrepares) + Len(readyQueue)
           slots == Cardinality(activeGenerations)
<1>1. /\ IsFiniteSet(activePrepares) /\ Cardinality(activePrepares) \in Nat
      /\ IsFiniteSet(activeGenerations) /\ slots \in Nat
      /\ Len(readyQueue) \in Nat /\ readyQueue \in Seq(Pair)
      /\ N \in Nat /\ GenerationWorkers \in Nat \ {0} /\ nextPrepare \in Nat
  BY PairsFinite, PipelineAssumption DEF TypeOK
<1>2. CASE StartGeneration
  <2>1. /\ Len(readyQueue') = Len(readyQueue) - 1
        /\ activeGenerations' = activeGenerations \cup {Head(readyQueue)}
        /\ slots < GenerationWorkers /\ pc' = "start"
        /\ activePrepares' = activePrepares
    BY <1>2, <1>1, TailElements DEF StartGeneration, CanStartGeneration
  <2>2. slots' \in {slots, slots + 1}
    BY <1>1, <2>1, FS_AddElement
  <2> QED
    BY <1>1, <2>1, <2>2 DEF SlotsBounded, LookaheadFull
<1>3. CASE QueuePrepare
  <2>1. /\ ahead < GenerationWorkers /\ readyQueue' = readyQueue
        /\ activePrepares' = activePrepares \cup {nextPrepare}
        /\ activeGenerations' = activeGenerations /\ pc' = "fill"
    BY <1>3 DEF QueuePrepare, CanQueuePrepare
  <2>2. Cardinality(activePrepares')
          \in {Cardinality(activePrepares), Cardinality(activePrepares) + 1}
    BY <1>1, <2>1, FS_AddElement
  <2>3. Cardinality(activePrepares') \in Nat
    BY PairsFinite DEF TypeOK
  <2> QED
    BY <1>1, <2>1, <2>2, <2>3 DEF SlotsBounded, LookaheadFull
<1>4. ASSUME NEW p \in Pair, ProcessPrepare(p)
      PROVE  Limits'
  <2>1. /\ p \in activePrepares /\ activePrepares' = activePrepares \ {p}
        /\ UNCHANGED <<activeGenerations, nextPrepare>> /\ pc = "batch"
    BY <1>4 DEF ProcessPrepare, Raise
  <2>2. Cardinality(activePrepares') = Cardinality(activePrepares) - 1
    BY <1>1, <2>1, FS_RemoveElement
  <2>3. CASE future[p] = "done"
    <3>1. readyQueue' = Append(readyQueue, p)
      BY <1>4, <2>3 DEF ProcessPrepare
    <3>2. Len(readyQueue') = Len(readyQueue) + 1
      BY <1>1, <3>1, AppendElements
    <3> QED
      BY <1>1, <2>1, <2>2, <3>2 DEF SlotsBounded, LookaheadFull
  <2>4. CASE future[p] = "failed"
    <3>1. readyQueue' = readyQueue /\ pc' = "clean_ready"
      BY <1>4, <2>4 DEF ProcessPrepare, Raise
    <3> QED
      BY <1>1, <2>1, <2>2, <3>1 DEF SlotsBounded, LookaheadFull
  <2> QED
    BY <1>4, <2>3, <2>4 DEF ProcessPrepare
<1>5. ASSUME NEW p \in Pair, ProcessGeneration(p)
      PROVE  Limits'
  <2>1. /\ activeGenerations' = activeGenerations \ {p}
        /\ UNCHANGED <<activePrepares, readyQueue, nextPrepare>>
        /\ pc = "batch" /\ pc' \in {"batch", "clean_ready"}
    BY <1>5 DEF ProcessGeneration, Raise
  <2>2. slots' \in {slots, slots - 1} /\ slots' \in Nat
    BY <1>1, <2>1, FS_RemoveElement, PairsFinite DEF TypeOK
  <2> QED
    BY <1>1, <2>1, <2>2 DEF SlotsBounded, LookaheadFull
<1>6. ASSUME NEW p \in Pair, CompleteEvaluation(p)
      PROVE  Limits'
  BY <1>6 DEF CompleteEvaluation, Raise, SlotsBounded, LookaheadFull
<1>7. CASE NoMoreToQueue
  <2>1. /\ UNCHANGED <<activePrepares, activeGenerations, readyQueue, nextPrepare>>
        /\ nextPrepare <= N => ~(ahead < GenerationWorkers)
    BY <1>7 DEF NoMoreToQueue, CanQueuePrepare, books
  <2> QED
    BY <1>1, <2>1 DEF SlotsBounded, LookaheadFull
<1>8. CASE \/ Preflight \/ LoopTop \/ NoMoreToStart \/ Interrupt \/ WaitReturns
           \/ BatchProcessed \/ Unwind \/ CleanReady \/ CancelFutures
           \/ CancelRunner \/ EvaluationStarts \/ UNCHANGED vars
           \/ \E p \in Pair : Worker(p)
  <2>1. /\ UNCHANGED <<activePrepares, activeGenerations, readyQueue, nextPrepare>>
        /\ pc' \in {"loop", "wait", "batch"} => pc \in {"loop", "wait", "batch"}
    BY <1>8 DEF Preflight, LoopTop, NoMoreToStart, Interrupt, WaitReturns,
       BatchProcessed, Unwind, CleanReady, CancelFutures, CancelRunner,
       EvaluationStarts, Worker, Timed, PrepareStarts, PrepareSucceeds, PrepareFails,
       GenerationStarts, GenerationEnds, EvaluationEnds, vars, books
  <2> QED
    BY <2>1 DEF SlotsBounded, LookaheadFull
<1> QED
  BY <1>2, <1>3, <1>4, <1>5, <1>6, <1>7, <1>8 DEF Next, Main, Terminated

(* Sessions, look-ahead and submitted work stay within the configured      *)
(* workers.                                                                *)
THEOREM LimitsCorrect == SafeSpec => []Limits
<1>1. Init => Limits
  <2> SUFFICES ASSUME Init PROVE Limits
    OBVIOUS
  <2>1. Cardinality({}) = 0 /\ Len(<<>>) = 0
    BY FS_EmptySet
  <2> QED
    BY <2>1, PipelineAssumption DEF Init, Limits, SlotsBounded, LookaheadFull
<1>2. TypeOK /\ TypeOK' /\ Books /\ Limits /\ [Next]_vars => Limits'
  BY LimitsStep
<1> QED
  BY <1>1, <1>2, TypeCorrect, BooksCorrect, PTL DEF SafeSpec

(* At most generation_workers sessions, as many pairs ahead of them, and   *)
(* so at most twice as many task containers besides those left behind, for *)
(* any number of workers.                                                  *)
THEOREM LimitsHold == SafeSpec => []WithinLimits
<1>1. TypeOK /\ ResourcesOwned /\ Limits => WithinLimits
  <2> SUFFICES ASSUME TypeOK, ResourcesOwned, Limits PROVE WithinLimits
    OBVIOUS
  <2>1. /\ IsFiniteSet(activePrepares) /\ Cardinality(activePrepares) \in Nat
        /\ IsFiniteSet(activeGenerations) /\ Cardinality(activeGenerations) \in Nat
        /\ readyQueue \in Seq(Pair) /\ Len(readyQueue) \in Nat
        /\ GenerationWorkers \in Nat
        /\ Cardinality(containers \ left) \in Nat
    BY PairsFinite, PipelineAssumption DEF TypeOK
  <2>2. IsFiniteSet(Ready) /\ Cardinality(Ready) <= Len(readyQueue)
        /\ Cardinality(Ready) \in Nat
    <3>1. ASSUME NEW n \in Nat
          PROVE  IsFiniteSet(1..n) /\ Cardinality(1..n) = n
      <4>1. IsFiniteSet(1..n) /\ Cardinality(1..n) = IF 1 > n THEN 0 ELSE n - 1 + 1
        BY FS_Interval
      <4> QED
        BY <4>1
    <3>2. readyQueue \in Surjection(1..Len(readyQueue), Ready)
      BY <2>1 DEF Surjection, Ready, Range
    <3> QED
      BY <2>1, <3>1, <3>2, FS_Surjection, FS_CardinalityType
  <2> DEFINE held == activePrepares \cup Ready
  <2>3. IsFiniteSet(held) /\ Cardinality(held) \in Nat
        /\ Cardinality(held) <= Cardinality(activePrepares) + Cardinality(Ready)
    BY <2>1, <2>2, UnionBound
  <2> HIDE DEF held
  <2>4. IsFiniteSet(held \cup activeGenerations)
        /\ Cardinality(held \cup activeGenerations) \in Nat
        /\ Cardinality(held \cup activeGenerations)
             <= Cardinality(held) + Cardinality(activeGenerations)
    BY <2>1, <2>3, UnionBound
  <2>5. Cardinality(containers \ left) <= Cardinality(held \cup activeGenerations)
    <3>1. containers \ left \in SUBSET (held \cup activeGenerations)
      BY DEF ResourcesOwned, held
    <3> QED
      BY <2>4, <3>1, FS_Subset
  <2> QED
    BY <2>1, <2>2, <2>3, <2>4, <2>5 DEF Limits, SlotsBounded, WithinLimits
<1> QED
  BY <1>1, TypeCorrect, ResourcesCorrect, LimitsCorrect, PTL

(* The loop ends normally only with every pair recorded and no resource    *)
(* forgotten: the look-ahead is full as long as unprepared pairs remain,   *)
(* so empty books mean that all pairs have been taken and scored.          *)
LEMMA NothingForgotten ==
  ASSUME TypeOK, Books, ResourcesOwned, Limits, ~Aborting,
         Active = {}, readyQueue = <<>>,
         nextPrepare <= N =>
           Cardinality(activePrepares) + Len(readyQueue) = GenerationWorkers
  PROVE  Recorded = Pair /\ evalQueue = <<>> /\ containers \cup homes \subseteq left
<1>1. /\ activePrepares = {} /\ activeGenerations = {} /\ pending = {}
      /\ Ready = {}
  BY EmptyElements DEF Active, Ready
<1>2. nextPrepare = N + 1
  <2>1. Cardinality({}) = 0 /\ Len(<<>>) = 0
    BY FS_EmptySet
  <2> QED
    BY <1>1, <2>1, PipelineAssumption DEF TypeOK
<1>3. Recorded = Pair
  BY <1>1, <1>2, PipelineAssumption DEF Books, NoPairLostOrDuplicated, Pair, Active
<1>4. evalQueue = <<>>
  <2>1. Range(evalQueue) = {}
    BY <1>1 DEF Books, QueuesAgree
  <2>2. ASSUME evalQueue # <<>> PROVE Head(evalQueue) \in Range(evalQueue)
    BY <2>2, TailElements DEF TypeOK
  <2> QED
    BY <2>1, <2>2
<1>5. containers \cup homes \subseteq left
  BY <1>1 DEF ResourcesOwned
<1> QED
  BY <1>3, <1>4, <1>5

(* A successful return leaves every pair scored, and no container or home  *)
(* but those a removal was asked for and left (cli.py 1427-1514).          *)
THEOREM FinishIsClean == SafeSpec => []CleanFinish
<1>1. Init => CleanFinish
  BY DEF Init, CleanFinish
<1>2. /\ TypeOK /\ TypeOK' /\ Books /\ Books' /\ ResourcesOwned /\ ResourcesOwned'
      /\ Limits /\ CleanFinish /\ [Next]_vars
      => CleanFinish'
  <2> SUFFICES ASSUME TypeOK, TypeOK', Books, Books', ResourcesOwned,
                      ResourcesOwned', Limits, CleanFinish, [Next]_vars,
                      pc' = "done"
               PROVE  (Recorded = Pair /\ evalQueue = <<>>
                       /\ containers \cup homes \subseteq left)'
    BY DEF CleanFinish
  <2>1. CASE pc = "done"
    <3>1. Active = {}
      BY <2>1 DEF CleanFinish, Books, NoPairLostOrDuplicated, Disjoint, Active, TypeOK
    <3>2. ASSUME NEW p \in Pair, Worker(p) PROVE FALSE
      BY <3>1, <3>2 DEF Worker, Timed, PrepareStarts, PrepareSucceeds, PrepareFails,
         GenerationStarts, GenerationEnds, EvaluationEnds, Evaluating, Active
    <3>3. ~EvaluationStarts
      BY <2>1 DEF EvaluationStarts, CleanFinish
    <3>4. UNCHANGED vars
      BY <2>1, <3>2, <3>3 DEF Next, Main, Preflight, LoopTop, StartGeneration,
         NoMoreToStart, QueuePrepare, NoMoreToQueue, WaitReturns,
         ProcessPrepare, ProcessGeneration, CompleteEvaluation, BatchProcessed,
         CleanReady, CancelFutures, CancelRunner, Unwind, Interrupt, Terminated
    <3> QED
      BY <2>1, <3>4 DEF CleanFinish, Recorded, vars, books, resources
  <2>2. CASE pc # "done"
    <3>1. \/ LoopTop /\ Active = {} /\ readyQueue = <<>> /\ pc = "loop"
          \/ Preflight /\ N = 0 /\ pc = "preflight"
      BY <2>2 DEF vars, Next, Main, Preflight, LoopTop, StartGeneration,
         NoMoreToStart, QueuePrepare, NoMoreToQueue, WaitReturns, Raise,
         ProcessPrepare, ProcessGeneration, CompleteEvaluation, BatchProcessed,
         CleanReady, CancelFutures, CancelRunner, Unwind, Interrupt, Terminated,
         Worker, Timed, PrepareStarts, PrepareSucceeds, PrepareFails, GenerationStarts,
         GenerationEnds, EvaluationEnds, EvaluationStarts
    <3>2. Active = {} /\ readyQueue = <<>>
      <4>1. CASE N = 0
        <5>1. Pair = {}
          BY <4>1 DEF Pair
        <5>2. readyQueue # <<>> => Head(readyQueue) \in Pair
          BY TailElements DEF TypeOK
        <5> QED
          BY <5>1, <5>2 DEF TypeOK, Active
      <4> QED
        BY <3>1, <4>1
    <3>3. nextPrepare <= N =>
            Cardinality(activePrepares) + Len(readyQueue) = GenerationWorkers
      BY <3>1 DEF Limits, LookaheadFull, TypeOK
    <3>4. Recorded = Pair /\ evalQueue = <<>> /\ containers \cup homes \subseteq left
      BY <3>1, <3>2, <3>3, NothingForgotten DEF Aborting
    <3> QED
      BY <3>1, <3>4 DEF LoopTop, Preflight, Recorded, books, resources
  <2> QED
    BY <2>1, <2>2
<1> QED
  BY <1>1, <1>2, TypeCorrect, BooksCorrect, ResourcesCorrect, LimitsCorrect, PTL
  DEF SafeSpec

-----------------------------------------------------------------------------
(* Sessions are started before prepares are queued, and nothing else than  *)
(* a session's end frees a slot: from then to the end of the wait either   *)
(* all slots are taken or no pair is ready (cli.py 1387-1443).             *)
ReadyServed ==
  /\ pc = "preflight" => readyQueue = <<>>
  /\ pc \in {"fill", "wait"} /\ readyQueue # <<>> =>
       Cardinality(activeGenerations) = GenerationWorkers

LEMMA ReadyServedStep ==
  ASSUME TypeOK, SlotsBounded, ReadyServed, [Next]_vars PROVE ReadyServed'
<1>1. CASE NoMoreToStart
  <2>1. Cardinality(activeGenerations) \in Nat /\ GenerationWorkers \in Nat
    BY PairsFinite, PipelineAssumption DEF TypeOK
  <2> QED
    BY <1>1, <2>1
    DEF NoMoreToStart, CanStartGeneration, SlotsBounded, ReadyServed, books
<1>2. CASE Preflight \/ QueuePrepare \/ NoMoreToQueue
  BY <1>2 DEF Preflight, QueuePrepare, NoMoreToQueue, ReadyServed, books
<1>3. CASE LoopTop \/ StartGeneration \/ WaitReturns \/ BatchProcessed
  BY <1>3 DEF LoopTop, StartGeneration, WaitReturns, BatchProcessed, ReadyServed
<1>4. ASSUME NEW p \in Pair,
             ProcessPrepare(p) \/ ProcessGeneration(p) \/ CompleteEvaluation(p)
      PROVE  ReadyServed'
  BY <1>4 DEF ProcessPrepare, ProcessGeneration, CompleteEvaluation, Raise,
     ReadyServed
<1>5. CASE CleanReady \/ CancelFutures \/ CancelRunner \/ Unwind \/ Interrupt
  BY <1>5 DEF CleanReady, CancelFutures, CancelRunner, Unwind, Interrupt,
     ReadyServed
<1>6. CASE EvaluationStarts \/ UNCHANGED vars \/ \E p \in Pair : Worker(p)
  BY <1>6 DEF EvaluationStarts, vars, books, Worker, Timed, PrepareStarts,
     PrepareSucceeds, PrepareFails, GenerationStarts, GenerationEnds,
     EvaluationEnds, ReadyServed
<1> QED
  BY <1>1, <1>2, <1>3, <1>4, <1>5, <1>6 DEF Next, Main, Terminated

(* The loop never sleeps in wait() on work it could have handed out, for   *)
(* any number of pairs and workers (cli.py 1370-1443).                     *)
THEOREM WorkIsConserved == SafeSpec => []WorkConserving
<1>1. Init => ReadyServed
  BY DEF Init, ReadyServed
<1>2. TypeOK /\ Limits /\ ReadyServed /\ [Next]_vars => ReadyServed'
  BY ReadyServedStep DEF Limits
<1>3. Limits /\ ReadyServed => WorkConserving
  BY DEF Limits, LookaheadFull, ReadyServed, WorkConserving
<1> QED
  BY <1>1, <1>2, <1>3, TypeCorrect, LimitsCorrect, PTL DEF SafeSpec

-----------------------------------------------------------------------------
(* Two steps remove containers: the end of a session, which removes its    *)
(* own, and the clean-up, which only takes those of ready pairs.           *)
LEMMA SessionKeepsContainer ==
  ASSUME TypeOK, Books, [Next]_vars, NEW p \in activeGenerations,
         future[p] = "running", future'[p] = "running", p \in containers
  PROVE  p \in containers'
<1>1. p \in Pair /\ p \notin Ready
  BY DEF TypeOK, Books, NoPairLostOrDuplicated, Disjoint
<1>2. CASE CleanReady
  BY <1>1, <1>2 DEF CleanReady, Discard
<1>3. ASSUME NEW q \in Pair, GenerationEnds(q) PROVE p \in containers'
  <2>1. future'[q] # "running" /\ containers \ {q} \subseteq containers'
    BY <1>3 DEF GenerationEnds, Discard, TypeOK
  <2> QED
    BY <2>1
<1>4. ASSUME ~CleanReady, ~ \E q \in Pair : GenerationEnds(q)
      PROVE  containers \subseteq containers'
  BY <1>4 DEF vars, resources, Next, Main, Preflight, LoopTop, StartGeneration,
     NoMoreToStart, QueuePrepare, NoMoreToQueue, WaitReturns, Raise,
     ProcessPrepare, ProcessGeneration, CompleteEvaluation, BatchProcessed,
     CancelFutures, CancelRunner, Unwind, Interrupt, Terminated, Worker, Timed,
     PrepareStarts, PrepareSucceeds, PrepareFails, GenerationStarts,
     EvaluationEnds, EvaluationStarts
<1> QED
  BY <1>2, <1>3, <1>4

(* The clean-up after an error never pulls a container from under a live   *)
(* session (cli.py 1558-1560).                                             *)
THEOREM CleanUpSparesSessions == SafeSpec => LiveSessionKeepsContainer
<1>1. TypeOK /\ Books /\ [Next]_vars =>
        [\A p \in activeGenerations :
           future[p] = "running" /\ future'[p] = "running" /\ p \in containers
             => p \in containers']_vars
  BY SessionKeepsContainer
<1> QED
  BY <1>1, TypeCorrect, BooksCorrect, PTL DEF SafeSpec, LiveSessionKeepsContainer

-----------------------------------------------------------------------------
(* Every step of the queue is a step of the ledger or leaves it unchanged: *)
(* scores are written once per pair, only while the run is on, and the run *)
(* is complete only when all of them are there.                            *)
LEMMA LedgerStep ==
  ASSUME TypeOK, TypeOK', Books, Books', CleanFinish', [Next]_vars
  PROVE  [Ledger!Next]_<<Recorded, LedgerRun>>
<1> USE DEF LedgerRun
<1>1. ASSUME NEW p \in Pair, CompleteEvaluation(p), future[p] = "done"
      PROVE  Ledger!Record(p)
  <2>1. /\ p \in pending /\ scores' = [scores EXCEPT ![p] = result[p]]
        /\ pc = "batch" /\ pc' = "batch"
    BY <1>1 DEF CompleteEvaluation
  <2>2. p \notin Recorded
    BY <2>1 DEF Books, NoPairLostOrDuplicated, Disjoint
  <2>3. result[p] = "genuine"
    BY <1>1, <2>1 DEF Books, VerdictsAgree, TypeOK
  <2>4. Recorded' = Recorded \cup {p}
    BY <2>1, <2>3 DEF Recorded, TypeOK
  <2> QED
    BY <2>1, <2>2, <2>4 DEF Ledger!Record, Aborting
<1>2. ASSUME ~ \E p \in Pair : CompleteEvaluation(p) /\ future[p] = "done"
      PROVE  scores' = scores
  BY <1>2 DEF vars, books, Next, Main, Preflight, LoopTop, StartGeneration,
     NoMoreToStart, QueuePrepare, NoMoreToQueue, WaitReturns, Raise,
     ProcessPrepare, ProcessGeneration, CompleteEvaluation, BatchProcessed,
     CleanReady, CancelFutures, CancelRunner, Unwind, Interrupt, Terminated,
     Worker, Timed, PrepareStarts, PrepareSucceeds, PrepareFails, GenerationStarts,
     GenerationEnds, EvaluationEnds, EvaluationStarts
<1>3. /\ pc = "done" => pc' = "done"
      /\ Aborting => Aborting' /\ pc' # "done"
  BY DEF vars, books, Next, Main, Preflight, LoopTop, StartGeneration,
     NoMoreToStart, QueuePrepare, NoMoreToQueue, WaitReturns, Raise,
     ProcessPrepare, ProcessGeneration, CompleteEvaluation, BatchProcessed,
     CleanReady, CancelFutures, CancelRunner, Unwind, Interrupt, Terminated,
     Worker, Timed, PrepareStarts, PrepareSucceeds, PrepareFails, GenerationStarts,
     GenerationEnds, EvaluationEnds, EvaluationStarts, Aborting
<1>4. ASSUME scores' = scores
      PROVE  Ledger!Complete \/ Ledger!Abort \/ UNCHANGED <<Recorded, LedgerRun>>
  <2>1. Recorded' = Recorded
    BY <1>4 DEF Recorded
  <2>2. pc' = "done" => Recorded' = Pair
    BY DEF CleanFinish
  <2> QED
    BY <1>3, <2>1, <2>2 DEF Ledger!Complete, Ledger!Abort, Aborting
<1> QED
  BY <1>1, <1>2, <1>4 DEF Ledger!Next

(* Every step of the queue is a step of the task ledger or leaves it alone. *)
THEOREM LedgerImplemented == SafeSpec => ImplementsLedger
<1>1. Init => Ledger!Init
  BY DEF Init, Ledger!Init, Recorded, LedgerRun, Aborting
<1>2. TypeOK /\ TypeOK' /\ Books /\ Books' /\ CleanFinish' /\ [Next]_vars
      => [Ledger!Next]_<<Recorded, LedgerRun>>
  BY LedgerStep
<1> QED
  BY <1>1, <1>2, TypeCorrect, BooksCorrect, FinishIsClean, PTL
  DEF SafeSpec, ImplementsLedger, Ledger!Spec, Ledger!vars
=============================================================================
