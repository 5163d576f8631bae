------------------------ MODULE GenerationQueue_proofs ------------------------
(***************************************************************************)
(* Theorems about the plain queue for every number of pairs and workers.   *)
(* The invariant is built in layers: types, the slots of the LLM pool, the *)
(* books of the main loop, and what a cancellation leaves submitted.       *)
(***************************************************************************)
EXTENDS GenerationQueue, Collections, FiniteSetTheorems, TLAPS

(* The main thread takes a future out of its dict exactly when it          *)
(* processes it, and every queue holds what the dicts hold.                *)
QueuesAgree ==
  /\ Active \cup Recorded \subseteq 1..(nextGeneration - 1)
  /\ batch \subseteq Finished
  /\ pc \notin {"refill", "batch"} => batch = {}
  /\ Range(evalQueue) \subseteq {p \in pending : future[p] = "submitted"}
  /\ IsInjective(evalQueue)

(* A finished evaluation has a verdict; work in a pool is in a dict.       *)
FuturesAgree ==
  /\ \A p \in pending : future[p] = "done" => result[p] # "none"
  /\ \A p \in Pair : future[p] \in {"submitted", "running"} => p \in Active

Books == NoPairLostOrDuplicated /\ QueuesAgree /\ FuturesAgree

(* After the queues have been cancelled nothing waits for a thread.        *)
NothingSubmitted ==
  /\ cancelled => pc \in {"unwind", "raised"}
  /\ pc = "cancel_runner" \/ cancelled =>
       \A p \in Pair : future[p] # "submitted"

(* Whenever the main loop is not refilling, no LLM slot is free for a      *)
(* queued pair.                                                            *)
SlotsFull ==
  /\ Cardinality(activeGenerations) <= GenerationWorkers
  /\ pc \in {"wait", "batch"} /\ nextGeneration <= N =>
       Cardinality(activeGenerations) = GenerationWorkers

-----------------------------------------------------------------------------
(* Every reachable state has the types declared in TypeOK; the index never *)
(* leaves queued_generations (cli.py 1263-1275).                           *)
THEOREM TypeCorrect == SafeSpec => []TypeOK
<1> USE QueueAssumption DEF Pair
<1>1. Init => TypeOK
  <2> SUFFICES ASSUME Init PROVE TypeOK
    OBVIOUS
  <2>1. nextGeneration \in 1..(N + 1) /\ evalQueue \in Seq(Pair)
    BY DEF Init
  <2> QED
    BY <2>1 DEF Init, TypeOK
<1>2. TypeOK /\ [Next]_vars => TypeOK'
  <2> SUFFICES ASSUME TypeOK, [Next]_vars PROVE TypeOK'
    OBVIOUS
  <2> USE DEF TypeOK, books
  <2>1. CASE QueueGeneration
    BY <2>1 DEF QueueGeneration, CanQueueGeneration
  <2>2. CASE Refilled
    BY <2>2 DEF Refilled
  <2>3. CASE WaitReturns
    BY <2>3 DEF WaitReturns, Finished, Active
  <2>4. ASSUME NEW p \in Pair, ProcessGeneration(p) PROVE TypeOK'
    <3>1. Append(evalQueue, p) \in Seq(Pair)
      BY <2>4
    <3> QED
      BY <2>4, <3>1 DEF ProcessGeneration, Raise
  <2>5. ASSUME NEW p \in Pair, CompleteEvaluation(p) PROVE TypeOK'
    BY <2>5 DEF CompleteEvaluation, Raise
  <2>6. CASE BatchProcessed \/ CancelRunner \/ Unwind \/ Interrupt
    BY <2>6 DEF BatchProcessed, CancelRunner, Unwind, Interrupt
  <2>7. CASE CancelWork
    BY <2>7 DEF CancelWork
  <2>8. ASSUME NEW p \in Pair, Worker(p) PROVE TypeOK'
    BY <2>8 DEF Worker, Timed, GenerationStarts, GenerationEnds, EvaluationEnds
  <2>9. CASE EvaluationStarts
    <3>1. Head(evalQueue) \in Pair /\ Tail(evalQueue) \in Seq(Pair)
      BY <2>9, TailElements DEF EvaluationStarts
    <3> QED
      BY <2>9, <3>1 DEF EvaluationStarts
  <2>10. CASE UNCHANGED vars
    BY <2>10 DEF vars
  <2> QED
    BY <2>1, <2>2, <2>3, <2>4, <2>5, <2>6, <2>7, <2>8, <2>9, <2>10
    DEF Next, Main, Terminated
<1> QED
  BY <1>1, <1>2, PTL DEF SafeSpec

-----------------------------------------------------------------------------
(* Sets of pairs are finite, so their cardinality is a number.             *)
LEMMA PairsFinite ==
  ASSUME NEW S \in SUBSET Pair PROVE IsFiniteSet(S) /\ Cardinality(S) \in Nat
<1>1. IsFiniteSet(Pair)
  BY FS_Interval, QueueAssumption DEF Pair
<1> QED
  BY <1>1, FS_Subset, FS_CardinalityType

(* A submitted generation takes one slot, a collected one gives it back,   *)
(* and the loop refills before it looks at the next future.                *)
LEMMA SlotsStep ==
  ASSUME TypeOK, Books, SlotsFull, [Next]_vars PROVE SlotsFull'
<1> DEFINE active == Cardinality(activeGenerations)
<1>1. active \in Nat /\ IsFiniteSet(activeGenerations) /\ GenerationWorkers \in Nat
  BY PairsFinite, QueueAssumption DEF TypeOK
<1>2. CASE QueueGeneration
  <2>1. /\ nextGeneration \notin activeGenerations
        /\ activeGenerations' = activeGenerations \cup {nextGeneration}
        /\ active < GenerationWorkers /\ pc' = "refill"
    BY <1>2, QueueAssumption
    DEF QueueGeneration, CanQueueGeneration, Books, QueuesAgree, Active, TypeOK
  <2>2. active' = active + 1
    BY <1>1, <2>1, FS_AddElement
  <2> QED
    BY <1>1, <2>1, <2>2 DEF SlotsFull
<1>3. CASE Refilled
  BY <1>1, <1>3 DEF Refilled, CanQueueGeneration, SlotsFull, books
<1>4. ASSUME NEW p \in Pair, ProcessGeneration(p) PROVE SlotsFull'
  <2>1. /\ p \in activeGenerations /\ activeGenerations' = activeGenerations \ {p}
        /\ pc' \in {"refill", "cancel_work"}
    BY <1>4 DEF ProcessGeneration, Raise
  <2>2. active' = active - 1
    BY <1>1, <2>1, FS_RemoveElement
  <2> QED
    BY <1>1, <2>1, <2>2 DEF SlotsFull
<1>5. ASSUME NEW p \in Pair, CompleteEvaluation(p) PROVE SlotsFull'
  BY <1>5 DEF CompleteEvaluation, Raise, SlotsFull
<1>6. CASE \/ WaitReturns \/ BatchProcessed \/ CancelWork \/ CancelRunner \/ Unwind
           \/ Interrupt \/ EvaluationStarts \/ UNCHANGED vars
           \/ \E p \in Pair : Worker(p)
  <2>1. /\ UNCHANGED <<activeGenerations, nextGeneration>>
        /\ pc' \in {"wait", "batch"} => pc \in {"wait", "batch"}
    BY <1>6 DEF WaitReturns, BatchProcessed, CancelWork, CancelRunner, Unwind,
       Interrupt, EvaluationStarts, vars, books, Worker, Timed, GenerationStarts,
       GenerationEnds, EvaluationEnds
  <2> QED
    BY <2>1 DEF SlotsFull
<1> QED
  BY <1>2, <1>3, <1>4, <1>5, <1>6 DEF Next, Main, Terminated

-----------------------------------------------------------------------------
(* The books of the main loop.                                             *)
LEMMA BooksInit == Init => Books
<1> SUFFICES ASSUME Init PROVE Books
  OBVIOUS
<1>1. Active = {} /\ Recorded = {} /\ Range(evalQueue) = {} /\ IsInjective(evalQueue)
  BY EmptyElements DEF Init, Active, Recorded
<1> QED
  BY <1>1 DEF Init, Books, NoPairLostOrDuplicated, QueuesAgree, FuturesAgree,
     Aborting

(* Steps that only move the program counter.                               *)
PcOnly == \/ Refilled \/ BatchProcessed \/ Interrupt \/ Unwind \/ CancelRunner

(* They keep the books (cli.py 1284-1296, 1331-1342).                      *)
LEMMA BooksPcOnly ==
  ASSUME TypeOK, Books, PcOnly PROVE Books'
<1>1. /\ UNCHANGED <<books, future, evalQueue, result>>
      /\ Aborting => Aborting'
      /\ pc' \notin {"refill", "batch"} => batch = {}
  BY DEF PcOnly, Refilled, BatchProcessed, Interrupt, Unwind, CancelRunner,
     Aborting, Books, QueuesAgree, books
<1>2. Active' = Active /\ Recorded' = Recorded /\ Finished' = Finished
  BY <1>1 DEF Active, Recorded, Finished, books
<1> QED
  BY <1>1, <1>2 DEF Books, NoPairLostOrDuplicated, QueuesAgree, FuturesAgree, books

(* A submitted generation is the next queued pair (cli.py 1260-1275).      *)
LEMMA BooksQueueGeneration ==
  ASSUME TypeOK, Books, QueueGeneration PROVE Books'
<1> DEFINE n == nextGeneration
<1> USE QueueAssumption DEF Pair, TypeOK, QueueGeneration
<1>1. n \in Pair /\ n' = n + 1 /\ 1..(n' - 1) = 1..(n - 1) \cup {n}
  BY DEF CanQueueGeneration
<1>2. n \notin Active \cup Recorded /\ n \notin batch /\ n \notin pending
  BY DEF Books, QueuesAgree, Finished, Active
<1>3. Recorded' = Recorded /\ Active' = Active \cup {n} /\ ~Aborting
  BY DEF Recorded, Active, Aborting
<1>4. NoPairLostOrDuplicated'
  BY <1>1, <1>2, <1>3 DEF Books, NoPairLostOrDuplicated, Active
<1>5. Finished \subseteq Finished'
  BY <1>2, <1>3 DEF Finished
<1>6. QueuesAgree'
  BY <1>1, <1>2, <1>3, <1>5 DEF Books, QueuesAgree
<1>7. FuturesAgree'
  BY <1>1, <1>2, <1>3 DEF Books, FuturesAgree
<1> QED
  BY <1>4, <1>6, <1>7 DEF Books

(* The batch holds futures that ended (cli.py 1293-1296).                  *)
LEMMA BooksWaitReturns ==
  ASSUME TypeOK, Books, WaitReturns PROVE Books'
<1>1. /\ UNCHANGED <<nextGeneration, activeGenerations, pending, scores, future,
                     evalQueue, result>>
      /\ batch' = Finished /\ ~Aborting' /\ ~Aborting /\ pc' = "batch"
  BY DEF WaitReturns, Aborting
<1>2. Active' = Active /\ Recorded' = Recorded /\ Finished' = Finished
  BY <1>1 DEF Active, Recorded, Finished
<1> QED
  BY <1>1, <1>2 DEF Books, NoPairLostOrDuplicated, QueuesAgree, FuturesAgree

(* A collected generation moves its pair to the evaluations, or aborts     *)
(* (cli.py 1298-1329).                                                     *)
LEMMA BooksProcessGeneration ==
  ASSUME TypeOK, Books, NEW p \in Pair, ProcessGeneration(p) PROVE Books'
<1>1. /\ pc = "batch" /\ p \in batch /\ p \in activeGenerations
      /\ activeGenerations' = activeGenerations \ {p}
      /\ UNCHANGED <<nextGeneration, scores, result>>
  BY DEF ProcessGeneration, Raise
<1>2. p \notin pending /\ p \notin Recorded /\ Recorded' = Recorded /\ ~Aborting
  BY <1>1 DEF Books, NoPairLostOrDuplicated, Active, Recorded, Aborting
<1>3. p \notin Range(evalQueue)
  BY <1>2 DEF Books, QueuesAgree
<1>4. CASE future[p] = "done"
  <2>1. /\ pending' = pending \cup {p} /\ evalQueue' = Append(evalQueue, p)
        /\ future' = [future EXCEPT ![p] = "submitted"]
        /\ batch' = batch \ {p} /\ pc' = "refill"
    BY <1>4 DEF ProcessGeneration
  <2>2. Range(evalQueue') = Range(evalQueue) \cup {p} /\ IsInjective(evalQueue')
    BY <1>3, <2>1, AppendElements DEF TypeOK, Books, QueuesAgree
  <2>3. Active' = Active /\ p \in Active
    BY <1>1, <2>1 DEF Active
  <2>4. Finished \ {p} \subseteq Finished'
    BY <2>1, <2>3 DEF Finished, TypeOK
  <2>5. NoPairLostOrDuplicated'
    BY <1>1, <1>2, <2>1, <2>3 DEF Books, NoPairLostOrDuplicated
  <2>6. QueuesAgree'
    BY <1>1, <1>2, <2>1, <2>2, <2>3, <2>4 DEF Books, QueuesAgree, TypeOK
  <2>7. FuturesAgree'
    BY <1>1, <2>1, <2>3 DEF Books, FuturesAgree, TypeOK
  <2> QED
    BY <2>5, <2>6, <2>7 DEF Books
<1>5. CASE future[p] = "failed"
  <2>1. /\ UNCHANGED <<pending, future, evalQueue>>
        /\ batch' = {} /\ pc' = "cancel_work"
    BY <1>5 DEF ProcessGeneration, Raise
  <2>2. Active' = Active \ {p} /\ Aborting'
    BY <1>1, <1>2, <2>1 DEF Active, Aborting
  <2>3. NoPairLostOrDuplicated'
    BY <1>1, <1>2, <2>1, <2>2 DEF Books, NoPairLostOrDuplicated
  <2>4. QueuesAgree'
    BY <1>1, <1>2, <2>1, <2>2 DEF Books, QueuesAgree
  <2>5. FuturesAgree'
    BY <1>1, <1>5, <2>1, <2>2 DEF Books, FuturesAgree
  <2> QED
    BY <2>3, <2>4, <2>5 DEF Books
<1> QED
  BY <1>4, <1>5 DEF ProcessGeneration

(* A collected evaluation is scored, or aborts (cli.py 1695-1751).         *)
LEMMA BooksCompleteEvaluation ==
  ASSUME TypeOK, Books, NEW p \in Pair, CompleteEvaluation(p) PROVE Books'
<1>1. /\ pc = "batch" /\ p \in batch /\ p \in pending
      /\ pending' = pending \ {p}
      /\ UNCHANGED <<activeGenerations, nextGeneration, future, evalQueue, result>>
  BY DEF CompleteEvaluation, Raise
<1>2. p \notin activeGenerations /\ p \notin Recorded /\ ~Aborting
  BY <1>1 DEF Books, NoPairLostOrDuplicated, Active, Aborting
<1>3. future[p] \in {"done", "failed"} /\ p \notin Range(evalQueue)
  BY <1>1 DEF Books, QueuesAgree, Finished
<1>4. Active' = Active \ {p}
  BY <1>1, <1>2 DEF Active
<1>5. FuturesAgree'
  BY <1>1, <1>3, <1>4 DEF Books, FuturesAgree
<1>6. CASE future[p] = "done"
  <2>1. /\ scores' = [scores EXCEPT ![p] = result[p]] /\ batch' = batch \ {p}
        /\ pc' = "batch" /\ result[p] # "none"
    BY <1>1, <1>6 DEF CompleteEvaluation, Books, FuturesAgree
  <2>2. Recorded' = Recorded \cup {p}
    BY <2>1 DEF Recorded, TypeOK
  <2>3. NoPairLostOrDuplicated'
    BY <1>1, <1>2, <1>4, <2>1, <2>2
    DEF Books, NoPairLostOrDuplicated, Active
  <2>4. batch' \subseteq Finished'
    BY <1>1, <1>4, <2>1 DEF Books, QueuesAgree, Finished
  <2>5. QueuesAgree'
    BY <1>1, <1>3, <1>4, <2>1, <2>2, <2>4 DEF Books, QueuesAgree, Active
  <2> QED
    BY <1>5, <2>3, <2>5 DEF Books
<1>7. CASE future[p] = "failed"
  <2>1. scores' = scores /\ batch' = {} /\ pc' = "cancel_work"
    BY <1>7 DEF CompleteEvaluation, Raise
  <2>2. Recorded' = Recorded /\ Aborting'
    BY <2>1 DEF Recorded, Aborting
  <2>3. NoPairLostOrDuplicated'
    BY <1>1, <1>4, <2>2 DEF Books, NoPairLostOrDuplicated
  <2>4. QueuesAgree'
    BY <1>1, <1>3, <1>4, <2>1, <2>2 DEF Books, QueuesAgree
  <2> QED
    BY <1>5, <2>3, <2>4 DEF Books
<1> QED
  BY <1>6, <1>7 DEF CompleteEvaluation

(* Cancelling takes the waiting evaluations out of their queue; the dicts  *)
(* keep the cancelled futures (cli.py 1538-1544).                          *)
LEMMA BooksCancelWork ==
  ASSUME TypeOK, Books, CancelWork PROVE Books'
<1>1. /\ UNCHANGED <<nextGeneration, activeGenerations, pending, batch, scores, result>>
      /\ pc = "cancel_work" /\ pc' = "cancel_runner" /\ batch = {}
      /\ future' = [p \in Pair |->
           IF p \in Active /\ future[p] = "submitted" THEN "cancelled" ELSE future[p]]
      /\ evalQueue' = <<>>
  BY DEF CancelWork, Books, QueuesAgree, books
<1>2. Active' = Active /\ Recorded' = Recorded /\ Aborting'
  BY <1>1 DEF Active, Recorded, Aborting
<1>3. NoPairLostOrDuplicated'
  BY <1>1, <1>2 DEF Books, NoPairLostOrDuplicated
<1>4. Range(evalQueue') = {} /\ IsInjective(evalQueue')
  BY <1>1, EmptyElements
<1>5. QueuesAgree'
  BY <1>1, <1>2, <1>4 DEF Books, QueuesAgree
<1>6. FuturesAgree'
  BY <1>1, <1>2 DEF Books, FuturesAgree, TypeOK
<1> QED
  BY <1>3, <1>5, <1>6 DEF Books

(* A pool thread changes the state of a future that no batch holds.        *)
LEMMA BooksWorker ==
  ASSUME TypeOK, Books, NEW p \in Pair, Worker(p) PROVE Books'
<1>1. /\ UNCHANGED <<pc, books, evalQueue>>
      /\ p \in Active /\ future[p] \in {"submitted", "running"}
      /\ \E s \in {"running", "done", "failed"} : future' = [future EXCEPT ![p] = s]
  BY DEF Worker, Timed, GenerationStarts, GenerationEnds, EvaluationEnds, Evaluating, Active
<1>2. p \notin batch /\ p \notin Range(evalQueue)
  <2>1. p \in activeGenerations \/ (p \in pending /\ future[p] = "running")
    BY DEF Worker, Timed, GenerationStarts, GenerationEnds, EvaluationEnds, Evaluating
  <2> QED
    BY <1>1, <2>1 DEF Books, QueuesAgree, Finished, NoPairLostOrDuplicated
<1>3. Active' = Active /\ Recorded' = Recorded /\ Aborting' = Aborting
  BY <1>1 DEF Active, Recorded, Aborting, books
<1>4. NoPairLostOrDuplicated'
  BY <1>1, <1>3 DEF Books, NoPairLostOrDuplicated, books
<1>5. Finished \ {p} \subseteq Finished'
  BY <1>1, <1>3 DEF Finished, TypeOK
<1>6. QueuesAgree'
  BY <1>1, <1>2, <1>3, <1>5 DEF Books, QueuesAgree, TypeOK, books
<1>7. FuturesAgree'
  <2>1. \A q \in Pair : future'[q] \in {"submitted", "running"} => q \in Active'
    BY <1>1, <1>3 DEF Books, FuturesAgree, TypeOK
  <2>2. ASSUME p \in pending PROVE future'[p] = "done" => result'[p] # "none"
    <3>1. p \notin activeGenerations
      BY <2>2 DEF Books, NoPairLostOrDuplicated
    <3> QED
      BY <3>1 DEF Worker, Timed, GenerationStarts, GenerationEnds, EvaluationEnds, TypeOK
  <2>3. ASSUME NEW q \in pending, q # p
        PROVE  future'[q] = "done" => result'[q] # "none"
    <3>1. future'[q] = future[q] /\ result'[q] = result[q]
      BY <2>3 DEF Worker, Timed, GenerationStarts, GenerationEnds, EvaluationEnds, TypeOK
    <3> QED
      BY <3>1, <2>3 DEF Books, FuturesAgree
  <2> QED
    BY <1>1, <2>1, <2>2, <2>3 DEF FuturesAgree, books
<1> QED
  BY <1>4, <1>6, <1>7 DEF Books

(* A thread of the evaluation pool takes the head of its queue.            *)
LEMMA BooksEvaluationStarts ==
  ASSUME TypeOK, Books, EvaluationStarts PROVE Books'
<1> DEFINE h == Head(evalQueue)
<1>1. /\ evalQueue \in Seq(Pair) /\ evalQueue # <<>> /\ evalQueue' = Tail(evalQueue)
      /\ future' = [future EXCEPT ![h] = "running"]
      /\ UNCHANGED <<pc, books, result>>
  BY DEF EvaluationStarts, TypeOK
<1>2. /\ Range(evalQueue) = {h} \cup Range(evalQueue') /\ h \in Pair
      /\ h \notin Range(evalQueue') /\ IsInjective(evalQueue')
  BY <1>1, TailElements DEF Books, QueuesAgree
<1>3. h \in pending /\ future[h] = "submitted"
  BY <1>2 DEF Books, QueuesAgree
<1> HIDE DEF h
<1>4. Active' = Active /\ Recorded' = Recorded /\ Aborting' = Aborting
  BY <1>1 DEF Active, Recorded, Aborting, books
<1>5. NoPairLostOrDuplicated'
  BY <1>1, <1>4 DEF Books, NoPairLostOrDuplicated, books
<1>6. Finished' = Finished
  BY <1>1, <1>2, <1>3, <1>4 DEF Finished, TypeOK, Active
<1>7. QueuesAgree'
  BY <1>1, <1>2, <1>3, <1>4, <1>6 DEF Books, QueuesAgree, TypeOK, books
<1>8. FuturesAgree'
  BY <1>1, <1>2, <1>3, <1>4 DEF Books, FuturesAgree, TypeOK, Active, books
<1> QED
  BY <1>5, <1>7, <1>8 DEF Books

(* In every reachable state the collections, the batch, the pools and the  *)
(* verdicts agree.                                                         *)
THEOREM BooksCorrect == SafeSpec => []Books
<1>1. Init => Books
  BY BooksInit
<1>2. TypeOK /\ Books /\ [Next]_vars => Books'
  <2> SUFFICES ASSUME TypeOK, Books, [Next]_vars PROVE Books'
    OBVIOUS
  <2>1. CASE UNCHANGED vars
    <3>1. /\ Active' = Active /\ Recorded' = Recorded /\ Finished' = Finished
          /\ Aborting' = Aborting
      BY <2>1 DEF vars, books, Active, Recorded, Finished, Aborting
    <3> QED
      BY <2>1, <3>1 DEF vars, books, Books, NoPairLostOrDuplicated, QueuesAgree,
         FuturesAgree
  <2> QED
    BY <2>1, BooksPcOnly, BooksQueueGeneration, BooksWaitReturns,
       BooksProcessGeneration, BooksCompleteEvaluation, BooksCancelWork,
       BooksWorker, BooksEvaluationStarts
    DEF Next, Main, Terminated, PcOnly
<1> QED
  BY <1>1, <1>2, TypeCorrect, PTL DEF SafeSpec

(* A pair taken off queued_generations is generating, awaiting its verdict *)
(* or scored, never two of these (cli.py 1288-1342).                       *)
THEOREM NothingIsLost == SafeSpec => []NoPairLostOrDuplicated
<1>1. Books => NoPairLostOrDuplicated
  BY DEF Books
<1> QED
  BY <1>1, BooksCorrect, PTL

LEMMA SlotsFullCorrect == SafeSpec => []SlotsFull
<1>1. Init => SlotsFull
  BY FS_EmptySet, QueueAssumption DEF Init, SlotsFull
<1>2. TypeOK /\ Books /\ SlotsFull /\ [Next]_vars => SlotsFull'
  BY SlotsStep
<1> QED
  BY <1>1, <1>2, TypeCorrect, BooksCorrect, PTL DEF SafeSpec

(* The main thread never sleeps on a free LLM slot while pairs are queued, *)
(* for any number of workers (cli.py 1260-1275, 1329).                     *)
THEOREM SlotsStayBusy == SafeSpec => []SlotsBusy
<1>1. SlotsFull => SlotsBusy
  BY DEF SlotsFull, SlotsBusy
<1> QED
  BY <1>1, SlotsFullCorrect, PTL

-----------------------------------------------------------------------------
(* The cancellation empties both pools' queues before the flag is set, and *)
(* the main thread submits nothing afterwards (cli.py 1532-1545).          *)
LEMMA NothingSubmittedCorrect == SafeSpec => []NothingSubmitted
<1>1. Init => NothingSubmitted
  BY DEF Init, NothingSubmitted
<1>2. TypeOK /\ Books /\ NothingSubmitted /\ [Next]_vars => NothingSubmitted'
  <2> SUFFICES ASSUME TypeOK, Books, NothingSubmitted, [Next]_vars
               PROVE  NothingSubmitted'
    OBVIOUS
  <2>1. CASE CancelWork
    <3>1. pc' = "cancel_runner" /\ ~cancelled'
      BY <2>1 DEF CancelWork, NothingSubmitted
    <3>2. \A p \in Pair : future'[p] # "submitted"
      BY <2>1 DEF CancelWork, Books, FuturesAgree
    <3> QED
      BY <3>1, <3>2 DEF NothingSubmitted
  <2>2. CASE CancelRunner
    BY <2>2 DEF CancelRunner, NothingSubmitted
  <2>3. CASE QueueGeneration \/ Refilled \/ WaitReturns \/ BatchProcessed
    BY <2>3 DEF QueueGeneration, Refilled, WaitReturns, BatchProcessed,
       NothingSubmitted
  <2>4. ASSUME NEW p \in Pair, ProcessGeneration(p) \/ CompleteEvaluation(p)
        PROVE  NothingSubmitted'
    BY <2>4 DEF ProcessGeneration, CompleteEvaluation, Raise, NothingSubmitted
  <2>5. CASE \/ Unwind \/ Interrupt \/ UNCHANGED vars
    BY <2>5 DEF Unwind, Interrupt, vars, NothingSubmitted
  <2>6. ASSUME NEW p \in Pair, Worker(p) PROVE NothingSubmitted'
    BY <2>6 DEF Worker, Timed, GenerationStarts, GenerationEnds, EvaluationEnds,
       NothingSubmitted, TypeOK
  <2>7. CASE EvaluationStarts
    BY <2>7 DEF EvaluationStarts, NothingSubmitted, TypeOK
  <2> QED
    BY <2>1, <2>2, <2>3, <2>4, <2>5, <2>6, <2>7 DEF Next, Main, Terminated
<1> QED
  BY <1>1, <1>2, TypeCorrect, BooksCorrect, PTL DEF SafeSpec

(* No queued work starts once the runner has been cancelled.               *)
THEOREM CancelStopsTheQueues == SafeSpec => NothingStartsAfterCancel
<1>1. NothingSubmitted => (cancelled => \A p \in Pair :
        ~(future[p] = "submitted" /\ future'[p] = "running"))
  BY DEF NothingSubmitted
<1> QED
  BY <1>1, NothingSubmittedCorrect, PTL DEF NothingStartsAfterCancel

-----------------------------------------------------------------------------
(* The loop ends only with empty dicts; the slots were full as long as     *)
(* pairs were queued, so by then all have been taken and scored.           *)
LEMMA DoneIsComplete ==
  ASSUME TypeOK, Books, SlotsFull, Refilled \/ BatchProcessed, pc' = "done"
  PROVE  Recorded = Pair
<1>1. Active = {} /\ ~Aborting
  BY DEF Refilled, BatchProcessed, Books, QueuesAgree, Finished, Aborting, Active
<1>2. Cardinality(activeGenerations) = 0
  BY <1>1, FS_EmptySet DEF Active
<1>3. nextGeneration = N + 1
  BY <1>2, QueueAssumption
  DEF Refilled, BatchProcessed, CanQueueGeneration, SlotsFull, TypeOK
<1> QED
  BY <1>1, <1>3, QueueAssumption DEF Books, NoPairLostOrDuplicated, Pair

(* Every step of the queue is a step of the ledger or leaves it unchanged. *)
LEMMA LedgerStep ==
  ASSUME TypeOK, Books, SlotsFull, [Next]_vars
  PROVE  [Ledger!Next]_<<Recorded, LedgerRun>>
<1>1. ASSUME NEW p \in Pair, CompleteEvaluation(p), future[p] = "done"
      PROVE  Ledger!Record(p)
  <2>1. /\ p \in pending /\ scores' = [scores EXCEPT ![p] = result[p]]
        /\ pc = "batch" /\ pc' = "batch" /\ result[p] # "none"
    BY <1>1 DEF CompleteEvaluation, Books, FuturesAgree
  <2>2. p \notin Recorded /\ Recorded' = Recorded \cup {p}
    BY <2>1 DEF Books, NoPairLostOrDuplicated, Active, Recorded, TypeOK
  <2> QED
    BY <2>1, <2>2 DEF Ledger!Record, LedgerRun, Aborting
<1>2. CASE Refilled \/ BatchProcessed
  <2>1. Recorded' = Recorded /\ LedgerRun = "running" /\ ~Aborting'
    BY <1>2 DEF Refilled, BatchProcessed, Recorded, LedgerRun, Aborting, books
  <2>2. pc' = "done" => Recorded = Pair
    BY <1>2, DoneIsComplete
  <2> QED
    BY <2>1, <2>2 DEF Ledger!Next, Ledger!Complete, LedgerRun
<1>3. ASSUME ~ (Refilled \/ BatchProcessed),
             ~ \E p \in Pair : CompleteEvaluation(p) /\ future[p] = "done"
      PROVE  Ledger!Abort \/ UNCHANGED <<Recorded, LedgerRun>>
  <2>1. /\ scores' = scores
        /\ pc' = "done" <=> pc = "done"
        /\ Aborting => Aborting'
    BY <1>3 DEF vars, books, Next, Main, QueueGeneration, WaitReturns, Raise,
       ProcessGeneration, CompleteEvaluation, CancelWork, CancelRunner, Unwind,
       Interrupt, Terminated, Worker, Timed, GenerationStarts, GenerationEnds,
       EvaluationEnds, EvaluationStarts, Aborting
  <2> QED
    BY <2>1 DEF Recorded, LedgerRun, Ledger!Abort, Aborting
<1> QED
  BY <1>1, <1>2, <1>3 DEF Ledger!Next

(* Scores are written once, all of them before the queue returns, none     *)
(* after an error (cli.py 1247-1342).                                      *)
THEOREM LedgerImplemented == SafeSpec => ImplementsLedger
<1>1. Init => Ledger!Init
  BY DEF Init, Ledger!Init, Recorded, LedgerRun, Aborting
<1>2. TypeOK /\ Books /\ SlotsFull /\ [Next]_vars
      => [Ledger!Next]_<<Recorded, LedgerRun>>
  BY LedgerStep
<1> QED
  BY <1>1, <1>2, TypeCorrect, BooksCorrect, SlotsFullCorrect, PTL
  DEF SafeSpec, ImplementsLedger, Ledger!Spec, Ledger!vars
=============================================================================
