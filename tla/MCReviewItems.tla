---------------------------- MODULE MCReviewItems ---------------------------
(* Instances of ReviewItems for TLC. *)
EXTENDS ReviewItems, TLC

CONSTANTS g1, g2, g3

(* An unknown account, whose chain can grow, an item that a decision on a  *)
(* movement concludes, and one that the choice of a snapshot concludes.    *)
Origins == g1 :> "alias" @@ g2 :> "ml" @@ g3 :> "snapshot"
(* An item any reviewer concludes.                                         *)
Manual == g1 :> "manual"

(* Items of different groups share nothing but the requests about them:    *)
(* the behaviours of each group are explored alone.                        *)
OneGroup == \A i, j \in Items : item[i] # Absent /\ item[j] # Absent => i[1] = j[1]

(* Six events of the item of an unknown account, without a second item:    *)
(* claim, resolution, reopening and a second claim and attempt to conclude.*)
(* Four of every other item.                                               *)
LongerAlone ==
  \A i \in Items : Len(log[i]) > 4 =>
    KindOf(i) = "alias" /\ \A j \in Items : item[j] # Absent => j = i
Explored == OneGroup /\ LongerAlone
=============================================================================
