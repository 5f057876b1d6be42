------------------------------ MODULE MCSessionUse ------------------------------
(* Two workers and two or three sessions; workers are interchangeable in the  *)
(* runs that check no liveness.                                              *)
EXTENDS SessionUse, TLC

WorkerSymmetry == Permutations(Worker)

(* No action's guard reads raced or uncounted, nor does a liveness property. *)
Seen == <<registryVars, inuse, age, stuck, known, workerVars, sweepVars, due, leaks>>
=============================================================================
