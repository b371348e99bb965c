---------------------------- MODULE MCFilaRazao ----------------------------
(* Instances of FilaRazao for TLC. *)
EXTENDS FilaRazao, TLC

CONSTANTS w1, w2, p1, p2

(* Both consumers in one process (RAZAO_WORKER_CONCURRENCY = 2), or one    *)
(* consumer in each of two containers.                                     *)
SameProcess == w1 :> p1 @@ w2 :> p1
TwoProcesses == w1 :> p1 @@ w2 :> p2
OneConsumer == w1 :> p1

(* The threads are interchangeable, and so are the requests.               *)
Interchangeable == Permutations({w1, w2}) \cup Permutations(Requests)
=============================================================================
