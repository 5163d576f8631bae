--------------------------- MODULE GenerationQueue ---------------------------
(***************************************************************************)
(* The queue of cli.py for runs without prepare-ahead                      *)
(* (_run_generation_queue): the main loop submits whole generations to one *)
(* pool and evaluations to another, refills the first as generations       *)
(* complete, and cancels what is pending when a future raises.             *)
(*                                                                         *)
(* A pair is its position in queued_generations.  As in AgenticPipeline,   *)
(* the main thread is a program counter and a pool thread the state of the *)
(* future it runs; definitions named X_Faulty... are broken variants of X. *)
(***************************************************************************)
EXTENDS Naturals, Sequences, FiniteSets, Functions

CONSTANTS
  N,                  \* len(queued_generations)
  GenerationWorkers,  \* benchmark.generation_workers
  EvaluationWorkers   \* benchmark.evaluation_workers

ASSUME QueueAssumption ==
  /\ N \in Nat
  /\ GenerationWorkers \in Nat \ {0}
  /\ EvaluationWorkers \in Nat \ {0}

Pair == 1..N

VARIABLES
  pc,
  nextGeneration,     \* next_generation_index, counted from 1
  activeGenerations,
  pending,            \* evaluations submitted and not yet collected
  batch,              \* completed_futures still to be processed
  scores,             \* task_scores_by_temperature
  future,             \* state of the pair's current future
  evalQueue,          \* FIFO work queue of the evaluation executor
  result,             \* value of a finished evaluation
  cancelled           \* DockerRunner._cancelled

books == <<nextGeneration, activeGenerations, pending, batch, scores>>
vars == <<pc, books, future, evalQueue, result, cancelled>>

Active == activeGenerations \cup pending
Recorded == {p \in Pair : scores[p] # "none"}
Finished == {p \in Active : future[p] \in {"done", "failed"}}
Evaluating == {p \in pending : future[p] = "running"}

Init ==
  /\ pc = "refill"
  /\ nextGeneration = 1
  /\ activeGenerations = {} /\ pending = {} /\ batch = {}
  /\ scores = [p \in Pair |-> "none"]
  /\ future = [p \in Pair |-> "none"]
  /\ result = [p \in Pair |-> "none"]
  /\ evalQueue = <<>>
  /\ cancelled = FALSE

-----------------------------------------------------------------------------
(* Main thread.                                                            *)

CanQueueGeneration_FaultyOffByOne ==
  /\ Cardinality(activeGenerations) <= GenerationWorkers
  /\ nextGeneration <= N

CanQueueGeneration ==
  /\ Cardinality(activeGenerations) < GenerationWorkers
  /\ nextGeneration <= N

(* One round of the while loop of queue_more_generations. *)
QueueGeneration ==
  /\ pc = "refill"
  /\ CanQueueGeneration
  /\ activeGenerations' = activeGenerations \cup {nextGeneration}
  /\ future' = [future EXCEPT ![nextGeneration] = "submitted"]
  /\ nextGeneration' = nextGeneration + 1
  /\ UNCHANGED <<pc, pending, batch, scores, evalQueue, result, cancelled>>

(* Back to the batch in hand, or to the head of the while loop. *)
Refilled ==
  /\ pc = "refill"
  /\ ~CanQueueGeneration
  /\ pc' = IF batch # {} THEN "batch" ELSE IF Active = {} THEN "done" ELSE "wait"
  /\ UNCHANGED <<books, future, evalQueue, result, cancelled>>

WaitReturns ==
  /\ pc = "wait"
  /\ Finished # {}
  /\ batch' = Finished
  /\ pc' = "batch"
  /\ UNCHANGED <<nextGeneration, activeGenerations, pending, scores, future,
                 evalQueue, result, cancelled>>

(* KeyboardInterrupt in wait(): the with block is left without cancelling. *)
Interrupt ==
  /\ pc = "wait"
  /\ pc' = "unwind"
  /\ UNCHANGED <<books, future, evalQueue, result, cancelled>>

(* A future of the batch raised: the rest of the batch is abandoned. *)
Raise ==
  /\ pc' = "cancel_work"
  /\ batch' = {}
  /\ UNCHANGED <<nextGeneration, scores, future, evalQueue, result, cancelled>>

ProcessGeneration_FaultyNoRefill(p) ==
  /\ pc = "batch"
  /\ p \in batch \cap activeGenerations
  /\ activeGenerations' = activeGenerations \ {p}
  /\ \/ /\ future[p] = "done"
        /\ pending' = pending \cup {p}
        /\ evalQueue' = Append(evalQueue, p)
        /\ future' = [future EXCEPT ![p] = "submitted"]
        /\ batch' = batch \ {p}
        /\ UNCHANGED <<pc, nextGeneration, scores, result, cancelled>>
     \/ future[p] = "failed" /\ UNCHANGED pending /\ Raise

(* Every collected generation queues its evaluation and refills the pool. *)
ProcessGeneration(p) ==
  /\ pc = "batch"
  /\ p \in batch \cap activeGenerations
  /\ activeGenerations' = activeGenerations \ {p}
  /\ \/ /\ future[p] = "done"
        /\ pending' = pending \cup {p}
        /\ evalQueue' = Append(evalQueue, p)
        /\ future' = [future EXCEPT ![p] = "submitted"]
        /\ batch' = batch \ {p}
        /\ pc' = "refill"
        /\ UNCHANGED <<nextGeneration, scores, result, cancelled>>
     \/ future[p] = "failed" /\ UNCHANGED pending /\ Raise

(* Evaluations come last: result.json is written and the score stored. *)
CompleteEvaluation(p) ==
  /\ pc = "batch"
  /\ batch \cap activeGenerations = {}
  /\ p \in batch \cap pending
  /\ pending' = pending \ {p}
  /\ UNCHANGED activeGenerations
  /\ \/ /\ future[p] = "done"
        /\ scores' = [scores EXCEPT ![p] = result[p]]
        /\ batch' = batch \ {p}
        /\ UNCHANGED <<pc, nextGeneration, future, evalQueue, result, cancelled>>
     \/ future[p] = "failed" /\ Raise

BatchProcessed_FaultyWaitsAgain ==
  /\ pc = "batch"
  /\ batch = {}
  /\ pc' = "wait"
  /\ UNCHANGED <<books, future, evalQueue, result, cancelled>>

BatchProcessed ==
  /\ pc = "batch"
  /\ batch = {}
  /\ pc' = IF Active = {} THEN "done" ELSE "wait"
  /\ UNCHANGED <<books, future, evalQueue, result, cancelled>>

CancelWork_FaultyKeepsEvaluations ==
  /\ pc = "cancel_work"
  /\ future' = [p \in Pair |->
       IF p \in activeGenerations /\ future[p] = "submitted" THEN "cancelled"
       ELSE future[p]]
  /\ pc' = "cancel_runner"
  /\ UNCHANGED <<books, evalQueue, result, cancelled>>

(* _cancel_all_pending_work: Future.cancel() takes generations and         *)
(* evaluations that no thread has picked up yet out of their queues.       *)
CancelWork ==
  /\ pc = "cancel_work"
  /\ future' = [p \in Pair |->
       IF p \in Active /\ future[p] = "submitted" THEN "cancelled" ELSE future[p]]
  /\ evalQueue' = <<>>
  /\ pc' = "cancel_runner"
  /\ UNCHANGED <<books, result, cancelled>>

CancelRunner ==
  /\ pc = "cancel_runner"
  /\ cancelled' = TRUE
  /\ pc' = "unwind"
  /\ UNCHANGED <<books, future, evalQueue, result>>

(* shutdown(wait=True) of both executors, then the exception leaves. *)
Unwind ==
  /\ pc = "unwind"
  /\ \A p \in Pair : future[p] \notin {"submitted", "running"}
  /\ pc' = "raised"
  /\ UNCHANGED <<books, future, evalQueue, result, cancelled>>

-----------------------------------------------------------------------------
(* Pool threads.                                                           *)

GenerationStarts(p) ==
  /\ p \in activeGenerations
  /\ future[p] = "submitted"
  /\ future' = [future EXCEPT ![p] = "running"]
  /\ UNCHANGED <<pc, books, evalQueue, result, cancelled>>

GenerationEnds(p) ==
  /\ p \in activeGenerations
  /\ future[p] = "running"
  /\ \E outcome \in {"done", "failed"} :
       future' = [future EXCEPT ![p] = outcome]
  /\ UNCHANGED <<pc, books, evalQueue, result, cancelled>>

EvaluationStarts ==
  /\ evalQueue # <<>>
  /\ Cardinality(Evaluating) < EvaluationWorkers
  /\ future' = [future EXCEPT ![Head(evalQueue)] = "running"]
  /\ evalQueue' = Tail(evalQueue)
  /\ UNCHANGED <<pc, books, result, cancelled>>

(* After cancel() a verdict may say nothing about the candidate; see       *)
(* VerdictFromContainer of EvaluationRunner.                               *)
EvaluationEnds(p) ==
  /\ p \in Evaluating
  /\ \/ /\ future' = [future EXCEPT ![p] = "done"]
        /\ \E r \in IF cancelled THEN {"genuine", "tainted"} ELSE {"genuine"} :
             result' = [result EXCEPT ![p] = r]
     \/ future' = [future EXCEPT ![p] = "failed"] /\ UNCHANGED result
  /\ UNCHANGED <<pc, books, evalQueue, cancelled>>

-----------------------------------------------------------------------------
Main ==
  \/ QueueGeneration \/ Refilled \/ WaitReturns
  \/ \E p \in Pair : ProcessGeneration(p) \/ CompleteEvaluation(p)
  \/ BatchProcessed
  \/ CancelWork \/ CancelRunner \/ Unwind

(* What an LLM thread does.  Its docker commands have timeouts. *)
Timed(p) == GenerationStarts(p) \/ GenerationEnds(p)

Worker(p) == Timed(p) \/ EvaluationEnds(p)

Terminated == pc \in {"done", "raised"} /\ UNCHANGED vars

Next ==
  \/ Main \/ Interrupt
  \/ \E p \in Pair : Worker(p)
  \/ EvaluationStarts
  \/ Terminated

(* As in AgenticPipeline: all threads keep running and a session ends, but *)
(* an evaluation need not (runner.py 472, 475, 486, 507).                  *)
Fairness ==
  /\ WF_vars(Main)
  /\ WF_vars(EvaluationStarts)
  /\ \A p \in Pair : WF_vars(Timed(p))

SafeSpec == Init /\ [][Next]_vars
Spec == SafeSpec /\ Fairness

-----------------------------------------------------------------------------
(* Properties.                                                             *)

(* The types; the index never leaves queued_generations (cli.py 1263-1275). *)
TypeOK ==
  /\ pc \in {"refill", "wait", "batch", "done",
             "cancel_work", "cancel_runner", "unwind", "raised"}
  /\ nextGeneration \in 1..(N + 1)
  /\ activeGenerations \in SUBSET Pair
  /\ pending \in SUBSET Pair
  /\ batch \in SUBSET Pair
  /\ scores \in [Pair -> {"none", "genuine", "tainted"}]
  /\ result \in [Pair -> {"none", "genuine", "tainted"}]
  /\ future \in
       [Pair -> {"none", "submitted", "running", "done", "failed", "cancelled"}]
  /\ evalQueue \in Seq(Pair)
  /\ cancelled \in BOOLEAN

Aborting == pc \in {"cancel_work", "cancel_runner", "unwind", "raised"}

(* A pair taken off queued_generations is generating, awaiting its verdict *)
(* or scored, never two of these; until an exception pops a failing pair   *)
(* none of them disappears (cli.py 1288-1342).                             *)
NoPairLostOrDuplicated ==
  /\ activeGenerations \cap pending = {}
  /\ Recorded \cap Active = {}
  /\ ~Aborting => 1..(nextGeneration - 1) = Active \cup Recorded

(* The main thread never sleeps on a free LLM slot while pairs are queued, *)
(* and never has more sessions submitted than there are slots.             *)
SlotsBusy ==
  /\ Cardinality(activeGenerations) <= GenerationWorkers
  /\ pc = "wait" /\ nextGeneration <= N =>
       Cardinality(activeGenerations) = GenerationWorkers

(* After an error no queued work starts: unlike the prepare-ahead queue    *)
(* this one cancels pending evaluations too (cli.py 1541-1544).            *)
NothingStartsAfterCancel ==
  [][cancelled => \A p \in Pair :
       ~(future[p] = "submitted" /\ future'[p] = "running")]_vars

(* The queue implements the same ledger as the prepare-ahead queue: scores *)
(* are written once, all of them before it returns, none after an error.   *)
LedgerRun ==
  IF pc = "done" THEN "complete" ELSE IF Aborting THEN "aborted" ELSE "running"

Ledger == INSTANCE TaskLedger WITH
  Pairs <- Pair,
  recorded <- Recorded,
  run <- LedgerRun

ImplementsLedger == Ledger!Spec

(* Whatever fails, the call returns or raises, unless one evaluation never *)
(* ends.                                                                   *)
Terminates ==
  <>(pc \in {"done", "raised"}) \/ \E p \in Pair : <>[](p \in Evaluating)
=============================================================================
