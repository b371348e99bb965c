---------------------------- MODULE MCAgentRunner ----------------------------
(* Instances of AgentRunner for TLC. *)
EXTENDS AgentRunner, TLC

CONSTANTS e1, e2, i1, c1, d1, d2

(* One event that implements and is delivered twice; another that resumes, *)
(* cancels or asks for the status of the first execution; a comment that   *)
(* approves, approves another commit or rejects another commit.            *)
Conteudo == e1 :> {Implement(i1)} @@ e2 :> {Resume(1, 1), Cancel(1), Status(1)}
Vezes == e1 :> 2 @@ e2 :> 2 @@ c1 :> 1
Veredito(r) == [exec |-> 1, fits |-> TRUE, result |-> r, commit |-> TRUE, tested |-> d1]
OutroCommit(r) == [Veredito(r) EXCEPT !.commit = FALSE]
Ambos == c1 :> {Veredito("APROVADO"), OutroCommit("APROVADO"), OutroCommit("REPROVADO")}

(* An approval that is reconciled three times while the tree changes.      *)
Implementa == e1 :> {Implement(i1)}
TresVezes == e1 :> 1 @@ c1 :> 3
Aprova == c1 :> {Veredito("APROVADO")}

(* The threads are interchangeable.                                        *)
Interchangeable == Permutations(Threads)
==============================================================================
