------------------------------ MODULE MCMLJobs ------------------------------
(* Instances of MLJobs for TLC. *)
EXTENDS MLJobs, TLC

CONSTANTS c1, c2

(* A training and a classification of one company.                         *)
SameCompany == 1 :> c1 @@ 2 :> c1
(* The jobs of one company with a job of another between them.             *)
TwoCompanies == 1 :> c1 @@ 2 :> c2 @@ 3 :> c1
OneJob == 1 :> c1

(* The threads are interchangeable, and so are the requests.               *)
Interchangeable == Permutations(Workers) \cup Permutations(Requests)
=============================================================================
