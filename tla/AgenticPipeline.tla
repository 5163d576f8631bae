--------------------------- MODULE AgenticPipeline ---------------------------
(***************************************************************************)
(* The prepare-ahead queue of cli.py (_run_prepared_agentic_queue): a main *)
(* loop that moves task/temperature pairs through three thread pools       *)
(*                                                                         *)
(*    prepare  ->  readyQueue  ->  generate  ->  evaluate  ->  scores      *)
(*                                                                         *)
(* and that tears the pipeline down when one future raises.  A pair is its *)
(* position in queued_generations.  The main thread is a program counter   *)
(* pc; every pool thread is the state of the future it runs.  At any time  *)
(* a pair has at most one live future, so future is a function of pairs.   *)
(*                                                                         *)
(* Definitions named X_Faulty... are broken variants of X: each run is     *)
(* repeated with one of them in place of X to see the property fail.       *)
(***************************************************************************)
EXTENDS Naturals, Sequences, FiniteSets, Functions

CONSTANTS
  N,                  \* len(queued_generations)
  GenerationWorkers,  \* benchmark.generation_workers: prepare and LLM pools
  EvaluationWorkers,  \* benchmark.evaluation_workers
  Precreate,          \* opencode.precreate_container
  MaxLeft             \* bound: pairs that may leave a container or home behind

ASSUME PipelineAssumption ==
  /\ N \in Nat
  /\ GenerationWorkers \in Nat \ {0}
  /\ EvaluationWorkers \in Nat \ {0}
  /\ Precreate \in BOOLEAN
  /\ MaxLeft \in Nat

Pair == 1..N

VARIABLES
  \* the main thread's books
  pc, nextPrepare, activePrepares, readyQueue, activeGenerations, pending,
  batch,              \* completed_futures still to be processed
  scores,             \* task_scores_by_temperature: what was recorded
  \* shared with the pool threads
  future,             \* state of the pair's current future
  evalQueue,          \* FIFO work queue of the evaluation executor
  result,             \* value of a finished evaluation
  homes,              \* pairs whose opencode-home directory exists
  containers,         \* pairs whose task container exists
  left,               \* pairs that left one of them behind: see Discard
  cancelled           \* DockerRunner._cancelled

books == <<nextPrepare, activePrepares, readyQueue, activeGenerations,
           pending, batch, scores>>
resources == <<homes, containers, left>>
vars == <<pc, books, future, evalQueue, result, resources, cancelled>>

FutureState ==
  {"none", "submitted", "running", "done", "failed", "cancelled"}

(* preflight, then the loop: loop -> start -> fill -> wait -> batch.  An   *)
(* exception goes clean_ready -> cancel_futures -> cancel_runner and then, *)
(* like Ctrl-C, to unwind, the executors' shutdown(wait=True).             *)
PcState ==
  {"preflight", "loop", "start", "fill", "wait", "batch", "clean_ready",
   "cancel_futures", "cancel_runner", "unwind", "done", "raised"}

Aborting ==
  pc \in {"clean_ready", "cancel_futures", "cancel_runner", "unwind", "raised"}

Ready == Range(readyQueue)
Recorded == {p \in Pair : scores[p] # "none"}
Active == activePrepares \cup activeGenerations \cup pending
Finished == {p \in Active : future[p] \in {"done", "failed"}}
Evaluating == {p \in pending : future[p] = "running"}

Init ==
  /\ pc = "preflight"
  /\ nextPrepare = 1
  /\ activePrepares = {} /\ activeGenerations = {} /\ pending = {}
  /\ readyQueue = <<>> /\ evalQueue = <<>>
  /\ batch = {}
  /\ scores = [p \in Pair |-> "none"]
  /\ result = [p \in Pair |-> "none"]
  /\ future = [p \in Pair |-> "none"]
  /\ homes = {} /\ containers = {} /\ left = {}
  /\ cancelled = FALSE

(* Remove the containers and homes of the pairs S.  Either may stay: both   *)
(* are kept after a timeout when keep_timed_out_containers asks for it,    *)
(* nobody looks whether docker rm succeeded, and rmtree ignores errors.    *)
Discard(S) ==
  \E c \in SUBSET (S \cap containers), h \in SUBSET (S \cap homes) :
    /\ Cardinality(left \cup c \cup h) <= MaxLeft
    /\ containers' = containers \ (S \ c)
    /\ homes' = homes \ (S \ h)
    /\ left' = left \cup c \cup h

-----------------------------------------------------------------------------
(* Main thread: filling the pools.                                         *)

(* Nothing queued, nothing to do.  Otherwise generator.preflight() for     *)
(* every generator; a failed installation raises before any executor       *)
(* exists.                                                                 *)
Preflight ==
  /\ pc = "preflight"
  /\ pc' \in IF N = 0 THEN {"done"} ELSE {"fill", "raised"}
  /\ UNCHANGED <<books, future, evalQueue, result, resources, cancelled>>

LoopTop ==
  /\ pc = "loop"
  /\ pc' = IF Active = {} /\ readyQueue = <<>> THEN "done" ELSE "start"
  /\ UNCHANGED <<books, future, evalQueue, result, resources, cancelled>>

CanStartGeneration ==
  /\ Cardinality(activeGenerations) < GenerationWorkers
  /\ readyQueue # <<>>

StartGeneration_FaultyPeek ==
  /\ pc = "start"
  /\ CanStartGeneration
  /\ activeGenerations' = activeGenerations \cup {Head(readyQueue)}
  /\ future' = [future EXCEPT ![Head(readyQueue)] = "submitted"]
  /\ UNCHANGED <<pc, nextPrepare, activePrepares, readyQueue, pending, batch,
                 scores, evalQueue, result, resources, cancelled>>

StartGeneration_FaultyOnce ==
  /\ pc = "start"
  /\ CanStartGeneration
  /\ pc' = "fill"
  /\ readyQueue' = Tail(readyQueue)
  /\ activeGenerations' = activeGenerations \cup {Head(readyQueue)}
  /\ future' = [future EXCEPT ![Head(readyQueue)] = "submitted"]
  /\ UNCHANGED <<nextPrepare, activePrepares, pending, batch, scores,
                 evalQueue, result, resources, cancelled>>

(* One round of the while loop of start_ready_generations. *)
StartGeneration ==
  /\ pc = "start"
  /\ CanStartGeneration
  /\ readyQueue' = Tail(readyQueue)
  /\ activeGenerations' = activeGenerations \cup {Head(readyQueue)}
  /\ future' = [future EXCEPT ![Head(readyQueue)] = "submitted"]
  /\ UNCHANGED <<pc, nextPrepare, activePrepares, pending, batch, scores,
                 evalQueue, result, resources, cancelled>>

NoMoreToStart ==
  /\ pc = "start"
  /\ ~CanStartGeneration
  /\ pc' = "fill"
  /\ UNCHANGED <<books, future, evalQueue, result, resources, cancelled>>

CanQueuePrepare_FaultyOffByOne ==
  /\ Cardinality(activePrepares) + Len(readyQueue) <= GenerationWorkers
  /\ nextPrepare <= N

CanQueuePrepare ==
  /\ Cardinality(activePrepares) + Len(readyQueue) < GenerationWorkers
  /\ nextPrepare <= N

(* One round of the while loop of queue_prepare. *)
QueuePrepare ==
  /\ pc = "fill"
  /\ CanQueuePrepare
  /\ activePrepares' = activePrepares \cup {nextPrepare}
  /\ future' = [future EXCEPT ![nextPrepare] = "submitted"]
  /\ nextPrepare' = nextPrepare + 1
  /\ UNCHANGED <<pc, readyQueue, activeGenerations, pending, batch, scores,
                 evalQueue, result, resources, cancelled>>

NoMoreToQueue ==
  /\ pc = "fill"
  /\ ~CanQueuePrepare
  /\ pc' = IF Active = {} THEN "loop" ELSE "wait"
  /\ UNCHANGED <<books, future, evalQueue, result, resources, cancelled>>

-----------------------------------------------------------------------------
(* Main thread: waiting, and processing what has completed.                *)

(* wait(..., FIRST_COMPLETED) returns every future finished by then. *)
WaitReturns ==
  /\ pc = "wait"
  /\ Finished # {}
  /\ batch' = Finished
  /\ pc' = "batch"
  /\ UNCHANGED <<nextPrepare, activePrepares, readyQueue, activeGenerations,
                 pending, scores, future, evalQueue, result, resources,
                 cancelled>>

(* KeyboardInterrupt in wait(): the with block is left without cleanup. *)
Interrupt ==
  /\ pc = "wait"
  /\ pc' = "unwind"
  /\ UNCHANGED <<books, future, evalQueue, result, resources, cancelled>>

(* A future of the batch raised: the rest of the batch is abandoned. *)
Raise ==
  /\ pc' = "clean_ready"
  /\ batch' = {}
  /\ UNCHANGED <<nextPrepare, readyQueue, scores, future, evalQueue, result,
                 resources, cancelled>>

ProcessPrepare(p) ==
  /\ pc = "batch"
  /\ p \in batch \cap activePrepares
  /\ activePrepares' = activePrepares \ {p}
  /\ UNCHANGED <<activeGenerations, pending>>
  /\ \/ /\ future[p] = "done"
        /\ readyQueue' = Append(readyQueue, p)
        /\ future' = [future EXCEPT ![p] = "none"]
        /\ batch' = batch \ {p}
        /\ UNCHANGED <<pc, nextPrepare, scores, evalQueue, result, resources,
                       cancelled>>
     \/ future[p] = "failed" /\ Raise

(* Prepares of the batch are processed before its generations. *)
ProcessGeneration(p) ==
  /\ pc = "batch"
  /\ batch \cap activePrepares = {}
  /\ p \in batch \cap activeGenerations
  /\ activeGenerations' = activeGenerations \ {p}
  /\ UNCHANGED activePrepares
  /\ \/ /\ future[p] = "done"
        /\ pending' = pending \cup {p}
        /\ evalQueue' = Append(evalQueue, p)
        /\ future' = [future EXCEPT ![p] = "submitted"]
        /\ batch' = batch \ {p}
        /\ UNCHANGED <<pc, nextPrepare, readyQueue, scores, result, resources,
                       cancelled>>
     \/ future[p] = "failed" /\ UNCHANGED pending /\ Raise

CompleteEvaluation_FaultySwallows(p) ==
  /\ pc = "batch"
  /\ p \in batch \cap pending
  /\ pending' = pending \ {p}
  /\ batch' = batch \ {p}
  /\ scores' = IF future[p] = "done" THEN [scores EXCEPT ![p] = result[p]] ELSE scores
  /\ UNCHANGED <<pc, nextPrepare, activePrepares, readyQueue, activeGenerations,
                 future, evalQueue, result, resources, cancelled>>

(* Evaluations come last: result.json is written and the score stored. *)
CompleteEvaluation(p) ==
  /\ pc = "batch"
  /\ batch \cap (activePrepares \cup activeGenerations) = {}
  /\ p \in batch \cap pending
  /\ pending' = pending \ {p}
  /\ UNCHANGED <<activePrepares, activeGenerations>>
  /\ \/ /\ future[p] = "done"
        /\ scores' = [scores EXCEPT ![p] = result[p]]
        /\ batch' = batch \ {p}
        /\ UNCHANGED <<pc, nextPrepare, readyQueue, future, evalQueue, result,
                       resources, cancelled>>
     \/ future[p] = "failed" /\ Raise

BatchProcessed ==
  /\ pc = "batch"
  /\ batch = {}
  /\ pc' = "loop"
  /\ UNCHANGED <<books, future, evalQueue, result, resources, cancelled>>

-----------------------------------------------------------------------------
(* Main thread: _cancel_batched_agentic_work, then leaving the with block. *)

CleanReady_FaultyTooMuch ==
  /\ pc = "clean_ready"
  /\ Discard(Ready \cup activeGenerations)
  /\ pc' = "cancel_futures"
  /\ UNCHANGED <<books, future, evalQueue, result, cancelled>>

(* cleanup_prepared for every item of the ready queue. *)
CleanReady ==
  /\ pc = "clean_ready"
  /\ Discard(Ready)
  /\ pc' = "cancel_futures"
  /\ UNCHANGED <<books, future, evalQueue, result, cancelled>>

(* Future.cancel() succeeds only on a future no thread has picked up yet; *)
(* evaluation futures are not among those cancelled.                      *)
CancelFutures ==
  /\ pc = "cancel_futures"
  /\ future' = [p \in Pair |->
       IF p \in activePrepares \cup activeGenerations /\ future[p] = "submitted"
       THEN "cancelled" ELSE future[p]]
  /\ pc' = "cancel_runner"
  /\ UNCHANGED <<books, evalQueue, result, resources, cancelled>>

CancelRunner_FaultyContinues ==
  /\ pc = "cancel_runner"
  /\ cancelled' = TRUE
  /\ pc' = "loop"
  /\ UNCHANGED <<books, future, evalQueue, result, resources>>

CancelRunner ==
  /\ pc = "cancel_runner"
  /\ cancelled' = TRUE
  /\ pc' = "unwind"
  /\ UNCHANGED <<books, future, evalQueue, result, resources>>

(* shutdown(wait=True) of the three executors, then the exception leaves. *)
Unwind ==
  /\ pc = "unwind"
  /\ \A p \in Pair : future[p] \notin {"submitted", "running"}
  /\ pc' = "raised"
  /\ UNCHANGED <<books, future, evalQueue, result, resources, cancelled>>

-----------------------------------------------------------------------------
(* Pool threads.  A prepare or LLM pool never has more futures than        *)
(* threads, so a submitted one may start at once; evaluations queue up.    *)

PrepareStarts(p) ==
  /\ p \in activePrepares
  /\ future[p] = "submitted"
  /\ future' = [future EXCEPT ![p] = "running"]
  /\ UNCHANGED <<pc, books, evalQueue, result, resources, cancelled>>

(* The workspace and home are laid out, then docker create when asked. *)
PrepareSucceeds(p) ==
  /\ p \in activePrepares
  /\ future[p] = "running"
  /\ future' = [future EXCEPT ![p] = "done"]
  /\ homes' = homes \cup {p}
  /\ containers' = IF Precreate THEN containers \cup {p} ELSE containers
  /\ UNCHANGED <<pc, books, evalQueue, result, left, cancelled>>

(* A failed docker create removes its container, unless docker rm fails as *)
(* well, but leaves the home.                                              *)
PrepareFails(p) ==
  /\ p \in activePrepares
  /\ future[p] = "running"
  /\ future' = [future EXCEPT ![p] = "failed"]
  /\ homes' \in {homes, homes \cup {p}}
  /\ \/ UNCHANGED <<containers, left>>
     \/ /\ Precreate
        /\ Cardinality(left \cup {p}) <= MaxLeft
        /\ containers' = containers \cup {p}
        /\ left' = left \cup {p}
  /\ UNCHANGED <<pc, books, evalQueue, result, cancelled>>

(* docker start of the precreated container, or docker run of a new one. *)
GenerationStarts(p) ==
  /\ p \in activeGenerations
  /\ future[p] = "submitted"
  /\ future' = [future EXCEPT ![p] = "running"]
  /\ containers' = containers \cup {p}
  /\ UNCHANGED <<pc, books, evalQueue, result, homes, left, cancelled>>

GenerationEnds_FaultyKeepsHome(p) ==
  /\ p \in activeGenerations
  /\ future[p] = "running"
  /\ future' \in {[future EXCEPT ![p] = outcome] : outcome \in {"done", "failed"}}
  /\ containers' = containers \ {p}
  /\ UNCHANGED <<pc, books, evalQueue, result, homes, left, cancelled>>

(* The finally blocks discard container and home whatever the outcome. *)
GenerationEnds(p) ==
  /\ p \in activeGenerations
  /\ future[p] = "running"
  /\ \E outcome \in {"done", "failed"} :
       future' = [future EXCEPT ![p] = outcome]
  /\ Discard({p})
  /\ UNCHANGED <<pc, books, evalQueue, result, cancelled>>

EvaluationStarts_FaultyStops ==
  /\ evalQueue # <<>> /\ ~cancelled
  /\ Cardinality(Evaluating) < EvaluationWorkers
  /\ future' = [future EXCEPT ![Head(evalQueue)] = "running"]
  /\ evalQueue' = Tail(evalQueue)
  /\ UNCHANGED <<pc, books, result, resources, cancelled>>

EvaluationStarts ==
  /\ evalQueue # <<>>
  /\ Cardinality(Evaluating) < EvaluationWorkers
  /\ future' = [future EXCEPT ![Head(evalQueue)] = "running"]
  /\ evalQueue' = Tail(evalQueue)
  /\ UNCHANGED <<pc, books, result, resources, cancelled>>

(* Once the runner is cancelled its containers are gone: whatever the      *)
(* evaluation returns then may say nothing about the candidate.            *)
EvaluationEnds(p) ==
  /\ p \in Evaluating
  /\ \/ /\ future' = [future EXCEPT ![p] = "done"]
        /\ \E r \in IF cancelled THEN {"genuine", "tainted"} ELSE {"genuine"} :
             result' = [result EXCEPT ![p] = r]
     \/ /\ future' = [future EXCEPT ![p] = "failed"]
        /\ UNCHANGED result
  /\ UNCHANGED <<pc, books, evalQueue, resources, cancelled>>

-----------------------------------------------------------------------------
Main ==
  \/ Preflight \/ LoopTop
  \/ StartGeneration \/ NoMoreToStart
  \/ QueuePrepare \/ NoMoreToQueue
  \/ WaitReturns
  \/ \E p \in Pair : ProcessPrepare(p)
  \/ \E p \in Pair : ProcessGeneration(p)
  \/ \E p \in Pair : CompleteEvaluation(p)
  \/ BatchProcessed
  \/ CleanReady \/ CancelFutures \/ CancelRunner \/ Unwind

(* What a prepare or LLM thread does.  Its docker commands have timeouts. *)
Timed(p) ==
  \/ PrepareStarts(p) \/ PrepareSucceeds(p) \/ PrepareFails(p)
  \/ GenerationStarts(p) \/ GenerationEnds(p)

Worker(p) == Timed(p) \/ EvaluationEnds(p)

Terminated ==
  /\ pc \in {"done", "raised"}
  /\ UNCHANGED vars

Next ==
  \/ Main \/ Interrupt
  \/ \E p \in Pair : Worker(p)
  \/ EvaluationStarts
  \/ Terminated

(* All threads keep running, and a prepare or session ends.  An evaluation *)
(* need not: docker create, docker start and the copy of the workspace     *)
(* into the container have no timeout (runner.py 472, 475, 486, 507).      *)
Fairness ==
  /\ WF_vars(Main)
  /\ WF_vars(EvaluationStarts)
  /\ \A p \in Pair : WF_vars(Timed(p))

SafeSpec == Init /\ [][Next]_vars
Spec == SafeSpec /\ Fairness

-----------------------------------------------------------------------------
(* Properties.                                                             *)

(* Types of the main thread's books, the futures and the resources. *)
TypeOK ==
  /\ pc \in PcState
  /\ nextPrepare \in 1..(N + 1)
  /\ activePrepares \in SUBSET Pair
  /\ activeGenerations \in SUBSET Pair
  /\ pending \in SUBSET Pair
  /\ batch \in SUBSET Pair
  /\ readyQueue \in Seq(Pair)
  /\ evalQueue \in Seq(Pair)
  /\ scores \in [Pair -> {"none", "genuine", "tainted"}]
  /\ result \in [Pair -> {"none", "genuine", "tainted"}]
  /\ future \in [Pair -> FutureState]
  /\ homes \in SUBSET Pair
  /\ containers \in SUBSET Pair
  /\ left \in SUBSET Pair
  /\ cancelled \in BOOLEAN

(* A pair taken off queued_generations is in exactly one place (one of the *)
(* three dicts, the deque or the scores), so none is run twice; and until  *)
(* an exception pops the failing pair, every such pair is somewhere, so    *)
(* none is dropped (cli.py 1427-1514).                                     *)
Disjoint ==
  /\ Active \cup Ready \cup Recorded \subseteq 1..(nextPrepare - 1)
  /\ activePrepares \cap (Ready \cup activeGenerations \cup pending \cup Recorded) = {}
  /\ Ready \cap (activeGenerations \cup pending \cup Recorded) = {}
  /\ activeGenerations \cap (pending \cup Recorded) = {}
  /\ pending \cap Recorded = {}
  /\ IsInjective(readyQueue)

NoPairLostOrDuplicated ==
  /\ Disjoint
  /\ ~Aborting => 1..(nextPrepare - 1) = Active \cup Ready \cup Recorded

(* Look-ahead and concurrency are bounded by the configured workers: never *)
(* more LLM sessions submitted than generation_workers, never more prepared*)
(* or preparing pairs than that, so at most twice as many task containers  *)
(* besides those left behind.                                              *)
WithinLimits ==
  /\ Cardinality(activeGenerations) <= GenerationWorkers
  /\ Cardinality(activePrepares) + Len(readyQueue) <= GenerationWorkers
  /\ Cardinality(containers \ left) <= 2 * GenerationWorkers

(* The loop never sleeps in wait() on work it could have handed out: no    *)
(* prepared pair waits while an LLM slot is free, and no unprepared pair   *)
(* while the look-ahead has room.                                          *)
WorkConserving ==
  pc = "wait" =>
    /\ readyQueue # <<>> => Cardinality(activeGenerations) = GenerationWorkers
    /\ nextPrepare <= N =>
         Cardinality(activePrepares) + Len(readyQueue) = GenerationWorkers

(* A verdict produced while DockerRunner.cancel was removing containers is *)
(* never written to result.json or scored.                                 *)
RecordedGenuine == \A p \in Pair : scores[p] # "tainted"

(* A successful return has seen every pair to its end: all are scored, no  *)
(* evaluation is outstanding, and a container or home that still exists is *)
(* one its own session kept or failed to remove: the queue itself forgets  *)
(* none on the way from prepare to session.                                *)
CleanFinish ==
  pc = "done" =>
    /\ Recorded = Pair
    /\ evalQueue = <<>>
    /\ containers \cup homes \subseteq left

(* Only the thread that runs a session removes its container: the clean-up *)
(* after an error never pulls a container from under a live session.       *)
LiveSessionKeepsContainer ==
  [][\A p \in activeGenerations :
       future[p] = "running" /\ future'[p] = "running" /\ p \in containers
         => p \in containers']_vars

(* The queue implements the ledger: an abort is final, scores are written  *)
(* once each, and all of them before it returns.                           *)
LedgerRun ==
  IF pc = "done" THEN "complete" ELSE IF Aborting THEN "aborted" ELSE "running"

Ledger == INSTANCE TaskLedger WITH
  Pairs <- Pair,
  recorded <- Recorded,
  run <- LedgerRun

ImplementsLedger == Ledger!Spec

(* Whatever fails, the call returns or raises, unless one evaluation never *)
(* ends: neither the loop nor shutdown(wait=True) waits for anything that  *)
(* nobody runs.                                                            *)
Terminates ==
  <>(pc \in {"done", "raised"}) \/ \E p \in Pair : <>[](p \in Evaluating)

(* Claimed at cli.py:1562: "Cancel active prepares and clean up any that   *)
(* already finished".  Once the loop under the comment has run, no prepare *)
(* that had finished before it has a container any more.                   *)
FinishedPreparesCleanedUp ==
  [][pc = "cancel_futures" /\ pc' = "cancel_runner" =>
       \A p \in activePrepares :
         future[p] = "done" => p \notin containers' \ left']_vars

-----------------------------------------------------------------------------
(* The inductive strengthening behind the theorems about this module.      *)

(* The batch and the evaluation queue point at work the books still hold,  *)
(* and a queued evaluation is queued once and has not started.             *)
QueuesAgree ==
  /\ batch \subseteq Active
  /\ batch # {} => pc = "batch"
  /\ \A p \in Range(evalQueue) : p \in pending /\ future[p] = "submitted"
  /\ IsInjective(evalQueue)

(* Where a verdict comes from and when it can be tainted. *)
VerdictsAgree ==
  /\ \A p \in pending : future[p] = "done" => result[p] # "none"
  /\ \A p \in Pair : result[p] = "tainted" => cancelled
  /\ cancelled => pc \in {"unwind", "raised"}
  /\ RecordedGenuine

(* Who may own a container or a home that nobody has tried to remove. *)
ResourcesOwned ==
  /\ containers \ left \subseteq activePrepares \cup Ready \cup activeGenerations
  /\ \A p \in activePrepares : p \in containers \ left => future[p] = "done"
  /\ \A p \in activeGenerations :
       future[p] \in {"done", "failed"} => p \notin (containers \cup homes) \ left
  /\ ~Aborting =>
       homes \ left \subseteq activePrepares \cup Ready \cup activeGenerations

(* The look-ahead is full whenever unprepared pairs remain. *)
LookaheadFull ==
  pc \in {"loop", "wait", "batch"} /\ nextPrepare <= N =>
    Cardinality(activePrepares) + Len(readyQueue) = GenerationWorkers

SlotsBounded ==
  /\ Cardinality(activeGenerations) <= GenerationWorkers
  /\ Cardinality(activePrepares) + Len(readyQueue) <= GenerationWorkers

Books == NoPairLostOrDuplicated /\ QueuesAgree /\ VerdictsAgree

IInv == TypeOK /\ Books /\ ResourcesOwned /\ LookaheadFull /\ SlotsBounded
=============================================================================
