----------------------------- MODULE Pendencia -----------------------------
(***************************************************************************)
(* The row of a review item (table review_items) as the transitions of     *)
(* core/review_items.py leave it: the status and the person it is assigned *)
(* to.  The transitions are operators on rows; the modules that use them   *)
(* say when, and by whose transaction, a row changes.                      *)
(***************************************************************************)

CONSTANT Users          \* people with access to the company

NoUser == "nobody"      \* assignee_id is null

Absent      == [status |-> "absent", assignee |-> NoUser]
New         == [status |-> "pending", assignee |-> NoUser]
Claimed(u)  == [status |-> "in_review", assignee |-> u]
FinishedKept(s) == [status |-> s, assignee |-> CHOOSE u \in Users : TRUE]
                                        \* mutant: the assignee stays
Finished(s) == [status |-> s, assignee |-> NoUser]

Conclusions == {"resolved", "dismissed"}
Rows == [status : {"absent", "pending"} \cup Conclusions, assignee : {NoUser}]
          \cup [status : {"in_review"}, assignee : Users]

Open(row)   == row.status \in {"pending", "in_review"}
Closed(row) == row.status \in Conclusions

(* The WHERE clauses of the conditional updates.                           *)
ClaimableOpen(row)  == Open(row)                  \* mutant: claims a claimed item
Claimable(row)      == row.status = "pending" /\ row.assignee = NoUser
InReview(row, u)    == row.status = "in_review"   \* mutant: no assignee in the WHERE
HeldBy(row, u)      == row.status = "in_review" /\ row.assignee = u
Reassignable(row)   == row.status = "in_review" /\ row.assignee # NoUser
=============================================================================
