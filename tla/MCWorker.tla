------------------------------ MODULE MCWorker ------------------------------
(* Instances of IngestionWorker for TLC. *)
EXTENDS IngestionWorker, TLC

\* Workers are interchangeable: sound where no liveness is checked.
WorkerSymmetry == Permutations(Workers)
=============================================================================
