------------------------------ MODULE MCBroker ------------------------------
(* Broker on small instances. *)
EXTENDS Broker, TLC

\* Workers are interchangeable.
WorkerSymmetry == Permutations(Workers)
=============================================================================
