---------------------------- MODULE MCWorkerLoop ----------------------------
(* Instance of WorkerLoop for model checking.                              *)
EXTENDS WorkerLoop, TLC

\* Goroutine ids are interchangeable: no property orders them.
GoroutineSymmetry == Permutations(Goroutines)
=============================================================================
