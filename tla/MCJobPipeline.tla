--------------------------- MODULE MCJobPipeline ---------------------------
(* JobPipeline on small instances. *)
EXTENDS JobPipeline, TLC

\* Broker connections are interchangeable.
WorkerSymmetry == Permutations(Workers)
=============================================================================
