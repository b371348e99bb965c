--------------------------- MODULE MCModelVersions ---------------------------
(* An instance for TLC of ModelVersions and of DatasetTreino, which share   *)
(* no state: a behaviour is about one of them, and the variables of the     *)
(* other keep one initial value.                                            *)
EXTENDS ModelVersions, DatasetTreino, TLC

CONSTANTS classA, classB

VARIABLE part

(* Evaluations: better in both classes, worse in a critical one, and one   *)
(* that is not valid.                                                      *)
Better == [valid |-> TRUE, critical |-> {}, f1 |-> (classA :> 2 @@ classB :> 1),
           baseline |-> (classA :> 1 @@ classB :> 1)]
Worse == [valid |-> TRUE, critical |-> {classB}, f1 |-> (classA :> 2 @@ classB :> 0),
          baseline |-> (classA :> 1 @@ classB :> 1)]
Useless == [valid |-> FALSE, critical |-> {}, f1 |-> << >>, baseline |-> << >>]
Kinds == {Better, Worse, Useless}

(* Requests that switch are interchangeable, and so are trainings.         *)
Interchangeable == Permutations(Switchers) \cup Permutations(Trainers)

(* The dataset: two charts of which the second adds an account, an old     *)
(* batch and a new one, with a line that is older than the charts.         *)
Line(id, b, d) == [id |-> id, lote |-> b, date |-> d, origin |-> 1, other |-> 2]
ThreeLines == {Line(1, "old", 1), Line(2, "new", 1), Line(3, "new", 0)}
OneMovement == {[id |-> 1, date |-> 1, conta |-> 1]}
TwoCharts == [sa |-> {1, 2}, sb |-> {1, 2, 3}]

ModelosInit ==
  /\ part \in {"versions", "dataset"}
  /\ Init
  /\ DatasetInit /\ (part = "versions" => \A b \in Batches : item[b] = NoItem)
ModelosNext ==
  \/ part = "versions" /\ Next /\ UNCHANGED <<part, dvars>>
  \/ part = "dataset" /\ DatasetNext /\ UNCHANGED <<part, mvars>>
ModelosSpec == ModelosInit /\ [][ModelosNext]_<<part, mvars, dvars>>
=============================================================================
