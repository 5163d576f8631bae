-------------------------- MODULE MCEvaluationRunner --------------------------
(* Two evaluations: of a greenfield task and of an evolution task.           *)
EXTENDS EvaluationRunner

CONSTANTS g1, e1

MCEvaluations == {g1, e1}
MCEvolution == {e1}
=============================================================================
