---------------------------- MODULE ReviewItems ----------------------------
(***************************************************************************)
(* The review centre: items that ask for a human decision, their claims,   *)
(* their conclusions and the history of their transitions.                 *)
(*                                                                         *)
(* Every transition is one transaction that locks the row, but three       *)
(* handlers of the API (resolve, dismiss, reopen) first read the item      *)
(* without a lock.  The session keeps the object of that read, and a later *)
(* SELECT ... FOR UPDATE does not refresh an object the session already    *)
(* holds: what those handlers know of the item can be out of date when     *)
(* their conditional UPDATE runs.  They are two steps here.                *)
(*                                                                         *)
(* The ledger importer never reuses a concluded item: it walks the chain   *)
(* key, key:after:<id>, ... to the first item that is not concluded.       *)
(***************************************************************************)
EXTENDS Naturals, Sequences, FiniteSets, Pendencia

CONSTANTS
  Groups,         \* explicit grouping keys of the originating domains
  Kind,           \* the source_type of each group
  Admins,         \* users with admin_empresa; all users have operacao
  MaxChain,       \* bound: items in the chain of one group
  MaxEvents       \* bound: transitions recorded for one item

RazaoKinds == {"alias", "razao_conflict", "razao_missing", "semantic"}
Kinds == RazaoKinds \cup {"manual", "ml", "snapshot"}

ASSUME ReviewAssumption ==
  /\ Kind \in [Groups -> Kinds]
  /\ Admins \subseteq Users
  /\ NoUser \notin Users
  /\ MaxChain \in Nat \ {0}
  /\ MaxEvents \in Nat

(* An item is its group and its place in the chain.                        *)
Items == {i \in Groups \X (1..MaxChain) : Kind[i[1]] \in RazaoKinds \/ i[2] = 1}
KindOf(i) == Kind[i[1]]

Ops == {"resolve", "dismiss", "reopen"}
Idle == [op |-> "none"]
Statuses == {"pending", "in_review"} \cup Conclusions
Events == [type : {"claimed", "released", "reassigned", "resolved", "dismissed", "reopened"},
           from : Statuses, to : Statuses, by : Users, holder : Users \cup {NoUser}]

VARIABLES
  item,           \* the row of each item
  log,            \* review_item_events, in order; "holder" is not in the table
  alias,          \* the item whose confirmation wrote the alias of a group, or {}
  lacking,        \* unknown accounts that an import in progress looked up in vain
  req             \* what each user's request read of an item before locking it

vars == <<item, log, alias, lacking, req>>

TypeOK ==
  /\ item \in [Items -> Rows]
  /\ log \in [Items -> Seq(Events)]
  /\ alias \in [Groups -> SUBSET Items]
  /\ lacking \subseteq Groups
  /\ req \in [Users -> {Idle} \cup [op : Ops, item : Items, seen : Statuses]]

Init ==
  /\ item = [i \in Items |-> Absent]
  /\ log = [i \in Items |-> <<>>]
  /\ alias = [g \in Groups |-> {}]
  /\ lacking = {}
  /\ req = [u \in Users |-> Idle]

-----------------------------------------------------------------------------
(* Transitions *)

EventOfRead(type, from, row, u) ==              \* mutant: to_status before the update
  [type |-> type, from |-> from, to |-> from, by |-> u, holder |-> row.assignee]
Event(type, from, row, u) ==
  [type |-> type, from |-> from, to |-> row.status, by |-> u, holder |-> row.assignee]

(* The row of i becomes row; the transition is recorded with it.           *)
RoomFor(i, n) == Len(log[i]) + n <= MaxEvents
Moves(i, row, type, from, u) ==
  /\ RoomFor(i, 1)
  /\ item' = [item EXCEPT ![i] = row]
  /\ log' = [log EXCEPT ![i] = Append(@, Event(type, from, row, u))]

(* The first item of the chain that is not concluded, which is where the   *)
(* evidence of a new import goes.                                          *)
NextFree(i) ==                                  \* mutant: passes over pending items
  \A k \in 1..(i[2] - 1) : item[<<i[1], k>>].status \notin {"absent", "in_review"}
Current(i) ==
  ~Closed(item[i]) /\ \A k \in 1..(i[2] - 1) : Closed(item[<<i[1], k>>])

(* An import loads the aliases of a snapshot once and asks for those that  *)
(* are missing later; its own transaction may see an older state of them.  *)
LookUpAlias(g) ==
  /\ Kind[g] = "alias"
  /\ alias[g] = {}
  /\ g \notin lacking
  /\ lacking' = lacking \cup {g}
  /\ UNCHANGED <<item, log, alias, req>>

(* With an item that is open already only evidence is added to it.         *)
Create(i) ==
  /\ KindOf(i) = "alias" => i[1] \in lacking
  /\ Current(i)
  /\ item' = [item EXCEPT ![i] = IF @ = Absent THEN New ELSE @]
  /\ lacking' = lacking \ {i[1]}
  /\ UNCHANGED <<log, alias, req>>

Claim(u, i) ==
  /\ req[u] = Idle
  /\ Claimable(item[i])
  /\ Moves(i, Claimed(u), "claimed", "pending", u)
  /\ UNCHANGED <<alias, lacking, req>>

Release(u, i) ==
  /\ req[u] = Idle
  /\ HeldBy(item[i], u)
  /\ Moves(i, New, "released", "in_review", u)
  /\ UNCHANGED <<alias, lacking, req>>

Reassign(u, i, v) ==
  /\ req[u] = Idle
  /\ u \in Admins
  /\ Reassignable(item[i])
  /\ Moves(i, Claimed(v), "reassigned", "in_review", u)
  /\ UNCHANGED <<alias, lacking, req>>

(* The unlocked read of the resolve, dismiss and reopen handlers, and what *)
(* they refuse by the origin of the item; the requests name items that     *)
(* exist.  For razao_conflict and razao_missing the resolve handler also   *)
(* asks whether a snapshot applies now; the answer is data here, so such a *)
(* request may or may not go on.                                           *)
Elsewhere == [resolve |-> {"snapshot", "alias", "ml"},
              dismiss |-> {"snapshot", "razao_conflict"},
              reopen  |-> {"snapshot", "razao_conflict"}]
AllowedAlias(op, i) == KindOf(i) \notin Elsewhere["dismiss"]      \* mutant: one list for all
AllowedFor(op, i) == KindOf(i) \notin Elsewhere[op]

ReadItem(u, i, op) ==
  /\ req[u] = Idle
  /\ op = "reopen" => u \in Admins
  /\ item[i] # Absent
  /\ AllowedFor(op, i)
  /\ req' = [req EXCEPT ![u] = [op |-> op, item |-> i, seen |-> item[i].status]]
  /\ UNCHANGED <<item, log, alias, lacking>>

Conclude(u, op, status) ==
  /\ req[u] # Idle
  /\ req[u].op = op
  /\ HeldBy(item[req[u].item], u)
  /\ Moves(req[u].item, Finished(status), status, "in_review", u)
  /\ req' = [req EXCEPT ![u] = Idle]
  /\ UNCHANGED <<alias, lacking>>

(* from_status of a reopening is the status of the session's object.       *)
Reopen(u) ==
  /\ req[u] # Idle
  /\ req[u].op = "reopen"
  /\ Closed(item[req[u].item])
  /\ Moves(req[u].item, New, "reopened", req[u].seen, u)
  /\ req' = [req EXCEPT ![u] = Idle]
  /\ UNCHANGED <<alias, lacking>>

(* 404 and 409: the conditional update matched no row; or the request died.*)
Refused(u) ==
  /\ req[u] # Idle
  /\ req' = [req EXCEPT ![u] = Idle]
  /\ UNCHANGED <<item, log, alias, lacking>>

-----------------------------------------------------------------------------
(* Conclusions that belong to the origin of the item *)

(* A decision on a movement claims its item, unless the user holds it      *)
(* already, and resolves it in the same transaction.                       *)
ClaimAndResolve(history, u) ==
  Append(Append(history, Event("claimed", "pending", Claimed(u), u)),
         Event("resolved", "in_review", Finished("resolved"), u))

ReviewMovement(u, i) ==
  /\ req[u] = Idle
  /\ KindOf(i) = "ml"
  /\ \/ /\ Claimable(item[i])
        /\ RoomFor(i, 2)
        /\ log' = [log EXCEPT ![i] = ClaimAndResolve(@, u)]
        /\ item' = [item EXCEPT ![i] = Finished("resolved")]
     \/ /\ HeldBy(item[i], u)
        /\ Moves(i, Finished("resolved"), "resolved", "in_review", u)
  /\ UNCHANGED <<alias, lacking, req>>

(* The choice between conflicting chart-of-accounts snapshots.             *)
ResolveSnapshotConflict(u, i) ==
  /\ req[u] = Idle
  /\ KindOf(i) = "snapshot"
  /\ HeldBy(item[i], u)
  /\ Moves(i, Finished("resolved"), "resolved", "in_review", u)
  /\ UNCHANGED <<alias, lacking, req>>

(* The alias of an unknown ledger account: one per group, by a unique key. *)
NoAliasOfClosed(g) == \A i \in alias[g] : Open(item[i])  \* mutant: forgets reopened ones
NoAlias(g) == alias[g] = {}

ConfirmAlias(u, i) ==
  /\ req[u] = Idle
  /\ KindOf(i) = "alias"
  /\ HeldBy(item[i], u)
  /\ NoAlias(i[1])
  /\ alias' = [alias EXCEPT ![i[1]] = @ \cup {i}]
  /\ Moves(i, Finished("resolved"), "resolved", "in_review", u)
  /\ UNCHANGED <<lacking, req>>

Next ==
  \/ \E g \in Groups : LookUpAlias(g)
  \/ \E i \in Items : Create(i)
  \/ \E u \in Users :
       \/ Conclude(u, "resolve", "resolved")
       \/ Conclude(u, "dismiss", "dismissed")
       \/ Reopen(u)
       \/ Refused(u)
       \/ \E i \in Items :
            \/ Claim(u, i)
            \/ Release(u, i)
            \/ \E v \in Users : Reassign(u, i, v)
            \/ \E op \in Ops : ReadItem(u, i, op)
            \/ ReviewMovement(u, i)
            \/ ResolveSnapshotConflict(u, i)
            \/ ConfirmAlias(u, i)

Spec == Init /\ [][Next]_vars

-----------------------------------------------------------------------------
(* Properties *)

Last(i) == log[i][Len(log[i])]

(* The history explains the row: the last transition recorded for an item  *)
(* ends in the item's status, with the item's assignee; an item without    *)
(* history is new.  The row and the event are written by different         *)
(* statements, by handlers that read the item at different times.          *)
HistoryExplainsRow ==
  \A i \in Items :
    IF log[i] = <<>> THEN item[i] \in {Absent, New}
    ELSE item[i].status = Last(i).to /\ item[i].assignee = Last(i).holder

(* The history is a chain: a transition starts where the one before ended. *)
(* A reopening, whose from_status comes from a read that may be old, at    *)
(* least follows a conclusion.                                             *)
HistoryIsAChain ==
  \A i \in Items : \A k \in 1..Len(log[i]) :
    LET before == IF k = 1 THEN "pending" ELSE log[i][k - 1].to IN
    IF log[i][k].type = "reopened" THEN before \in Conclusions
    ELSE log[i][k].from = before

(* A claim keeps others from concluding: whoever concluded an item was the *)
(* person the transition before had left it with, however long ago the     *)
(* request that concludes it had read the item.                            *)
ConcludedByHolder ==
  \A i \in Items : \A k \in 1..Len(log[i]) :
    log[i][k].to \in Conclusions => k > 1 /\ log[i][k].by = log[i][k - 1].holder

(* An unknown ledger account is settled once and for all by its alias: the *)
(* items of a group are resolved at most once between them, and by the     *)
(* confirmation that wrote the alias, whatever was reopened since.         *)
ResolvedByAlias ==
  \A g \in Groups : Kind[g] = "alias" =>
    \A i \in Items : i[1] = g =>
      \A k \in 1..Len(log[i]) : log[i][k].type = "resolved" =>
        /\ alias[g] = {i}
        /\ \A n \in 1..Len(log[i]) : log[i][n].type = "resolved" => n = k

(* A group asks one question at a time: two of its items are open together *)
(* only if one of them was reopened.                                       *)
Reopened(i) == \E k \in 1..Len(log[i]) : log[i][k].type = "reopened"
OneOpenItemPerGroup ==
  \A i, j \in Items :
    i[1] = j[1] /\ i # j /\ Open(item[i]) /\ Open(item[j]) => Reopened(i) \/ Reopened(j)

(* Every recorded transition names the state the item was in, as the       *)
(* script of docs/homologacao/central-revisoes-roteiro.md says of the      *)
(* audited metadata.  It does not hold: a reopening names the state its    *)
(* handler read before the lock.                                           *)
ReopeningNamesConclusion ==
  \A i \in Items : \A k \in 1..Len(log[i]) :
    log[i][k].type = "reopened" => log[i][k].from \in Conclusions
=============================================================================
