---------------------------- MODULE MCMovimentos ----------------------------
(* Instances of Movimentos for TLC. *)
EXTENDS Movimentos, TLC

CONSTANTS m1, m2, a1, a2

(* One movement, imported without a counterpart.                           *)
Pendente == m1 :> NoAccount
(* A movement to classify and one that came with its counterpart.          *)
Misto == m1 :> NoAccount @@ m2 :> a1

(* Users and consumers are interchangeable.                                *)
Interchangeable == Permutations(Users) \cup Permutations(Workers)
=============================================================================
