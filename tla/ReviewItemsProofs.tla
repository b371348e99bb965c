------------------------- MODULE ReviewItemsProofs -------------------------
(***************************************************************************)
(* Theorems about ReviewItems, for any number of people, groups, items in  *)
(* a chain and transitions.                                                *)
(***************************************************************************)
EXTENDS ReviewItems, TLAPS

(* A chain is filled from its first item on.                               *)
ChainFilled ==
  \A g \in Groups : \A k, n \in 1..MaxChain :
    /\ <<g, k>> \in Items
    /\ <<g, n>> \in Items
    /\ k < n
    /\ item[<<g, n>>] # Absent
    => item[<<g, k>>] # Absent

(* A request that is going to resolve was allowed to by the item's origin. *)
RequestsAllowed ==
  \A u \in Users : req[u] # Idle => AllowedFor(req[u].op, req[u].item)

IInv ==
  /\ TypeOK
  /\ HistoryExplainsRow
  /\ HistoryIsAChain
  /\ ConcludedByHolder
  /\ ResolvedByAlias
  /\ OneOpenItemPerGroup
  /\ ChainFilled
  /\ RequestsAllowed

(* What holds of the history of one item, beside its row.                  *)
StateAfter(l) == IF l = <<>> THEN "pending" ELSE l[Len(l)].to

Chained(l) ==
  \A k \in 1..Len(l) :
    LET before == IF k = 1 THEN "pending" ELSE l[k - 1].to IN
    IF l[k].type = "reopened" THEN before \in Conclusions ELSE l[k].from = before

Holders(l) ==
  \A k \in 1..Len(l) :
    l[k].to \in Conclusions => k > 1 /\ l[k].by = l[k - 1].holder

Explains(l, row) ==
  IF l = <<>> THEN row \in {Absent, New}
  ELSE row.status = l[Len(l)].to /\ row.assignee = l[Len(l)].holder

(* Transition e may follow history l and leaves the row row.               *)
Follows(l, e, row) ==
  /\ e.to = row.status
  /\ e.holder = row.assignee
  /\ IF e.type = "reopened" THEN StateAfter(l) \in Conclusions ELSE e.from = StateAfter(l)
  /\ e.to \in Conclusions => l # <<>> /\ e.by = l[Len(l)].holder

-----------------------------------------------------------------------------
(* Appending a transition that may follow keeps a history in order.        *)
LEMMA AppendKeeps ==
  ASSUME NEW l \in Seq(Events), NEW e \in Events, NEW row,
         Chained(l), Holders(l), Follows(l, e, row)
  PROVE  /\ Append(l, e) \in Seq(Events)
         /\ Chained(Append(l, e))
         /\ Holders(Append(l, e))
         /\ Explains(Append(l, e), row)
<1> DEFINE L == Append(l, e)
<1>1. L \in Seq(Events) /\ Len(L) = Len(l) + 1 /\ L[Len(L)] = e /\ L # <<>>
  OBVIOUS
<1>2. \A k \in 1..Len(l) : L[k] = l[k]
  OBVIOUS
<1>3. Len(l) \in Nat /\ (l = <<>> <=> Len(l) = 0)
  OBVIOUS
<1> HIDE DEF L
<1>4. Chained(L)
  <2> SUFFICES ASSUME NEW k \in 1..Len(L)
               PROVE  LET before == IF k = 1 THEN "pending" ELSE L[k - 1].to IN
                      IF L[k].type = "reopened" THEN before \in Conclusions
                      ELSE L[k].from = before
    BY DEF Chained
  <2>1. CASE k = Len(L)
    BY <2>1, <1>1, <1>2, <1>3 DEF Follows, StateAfter
  <2>2. CASE k # Len(L)
    BY <2>2, <1>1, <1>2, <1>3 DEF Chained
  <2>3. QED BY <2>1, <2>2
<1>5. Holders(L)
  <2> SUFFICES ASSUME NEW k \in 1..Len(L), L[k].to \in Conclusions
               PROVE  k > 1 /\ L[k].by = L[k - 1].holder
    BY DEF Holders
  <2>1. CASE k = Len(L)
    BY <2>1, <1>1, <1>2, <1>3 DEF Follows
  <2>2. CASE k # Len(L)
    BY <2>2, <1>1, <1>2, <1>3 DEF Holders
  <2>3. QED BY <2>1, <2>2
<1>6. Explains(L, row)
  BY <1>1 DEF Explains, Follows
<1>7. QED BY <1>1, <1>4, <1>5, <1>6 DEF L

(* The three invariants on histories are those of every item's history.    *)
LEMMA HistoriesOfItems ==
  /\ HistoryExplainsRow <=> \A i \in Items : Explains(log[i], item[i])
  /\ HistoryIsAChain <=> \A i \in Items : Chained(log[i])
  /\ ConcludedByHolder <=> \A i \in Items : Holders(log[i])
  BY DEF HistoryExplainsRow, HistoryIsAChain, ConcludedByHolder, Explains,
     Chained, Holders, Last

-----------------------------------------------------------------------------
(* A step that gives item i the row row and the history l.                 *)
Rewrites(i, row, l) ==
  /\ item' = [item EXCEPT ![i] = row]
  /\ log' = [log EXCEPT ![i] = l]

(* Histories stay in order when the new history of the one item is.        *)
LEMMA HistoriesKept ==
  ASSUME IInv, NEW i \in Items, item[i] # Absent, NEW row \in Rows, row # Absent,
         NEW l \in Seq(Events), Chained(l), Holders(l), Explains(l, row),
         Rewrites(i, row, l)
  PROVE  /\ item' \in [Items -> Rows] /\ log' \in [Items -> Seq(Events)]
         /\ HistoryExplainsRow' /\ HistoryIsAChain' /\ ConcludedByHolder'
         /\ ChainFilled'
<1>1. item \in [Items -> Rows] /\ log \in [Items -> Seq(Events)]
  BY DEF IInv, TypeOK
<1>2. item' \in [Items -> Rows] /\ log' \in [Items -> Seq(Events)]
  BY <1>1 DEF Rewrites
<1>3. \A j \in Items : /\ item'[j] = IF j = i THEN row ELSE item[j]
                       /\ log'[j] = IF j = i THEN l ELSE log[j]
  BY <1>1 DEF Rewrites
<1>4. \A j \in Items : Explains(log'[j], item'[j]) /\ Chained(log'[j]) /\ Holders(log'[j])
  BY <1>3, HistoriesOfItems DEF IInv
<1>5. HistoryExplainsRow'
  BY <1>4 DEF HistoryExplainsRow, Explains, Last
<1>6. HistoryIsAChain'
  BY <1>4 DEF HistoryIsAChain, Chained
<1>7. ConcludedByHolder'
  BY <1>4 DEF ConcludedByHolder, Holders
<1>8. ChainFilled'
  BY <1>3 DEF IInv, ChainFilled
<1>9. QED BY <1>2, <1>5, <1>6, <1>7, <1>8

(* A step that resolves no unknown account leaves the aliases explained.   *)
LEMMA AliasesKept ==
  ASSUME IInv, NEW i \in Items, NEW row, NEW l, Rewrites(i, row, l), alias' = alias,
         \/ KindOf(i) # "alias"
         \/ \E e \in Events : e.type # "resolved" /\ l = Append(log[i], e)
  PROVE  ResolvedByAlias'
<1>1. log \in [Items -> Seq(Events)]
  BY DEF IInv, TypeOK
<1> SUFFICES ASSUME NEW g \in Groups, Kind[g] = "alias",
                    NEW j \in Items, j[1] = g,
                    NEW k \in 1..Len(log'[j]), log'[j][k].type = "resolved"
             PROVE  /\ alias'[g] = {j}
                    /\ \A n \in 1..Len(log'[j]) : log'[j][n].type = "resolved" => n = k
  BY DEF ResolvedByAlias
<1>2. CASE j # i
  BY <1>1, <1>2 DEF Rewrites, IInv, ResolvedByAlias
<1>3. CASE j = i
  <2>1. PICK e \in Events : e.type # "resolved" /\ l = Append(log[i], e)
    BY <1>3 DEF KindOf
  <2>2. log'[i] = Append(log[i], e) /\ log[i] \in Seq(Events)
    BY <1>1, <2>1 DEF Rewrites
  <2>3. \A n \in 1..Len(log'[i]) :
          log'[i][n].type = "resolved" => n \in 1..Len(log[i]) /\ log'[i][n] = log[i][n]
    BY <2>1, <2>2
  <2>4. QED BY <1>3, <2>3 DEF IInv, ResolvedByAlias
<1>4. QED BY <1>2, <1>3

(* A step that opens no closed item, or records a reopening, leaves at     *)
(* most one item of a group open that was never reopened.                  *)
LEMMA OneOpenKept ==
  ASSUME IInv, NEW i \in Items, NEW row, NEW l, Rewrites(i, row, l),
         \A k \in 1..Len(log[i]) : k \in 1..Len(l) /\ l[k] = log[i][k],
         \/ ~Open(row)
         \/ Open(item[i])
         \/ \E k \in 1..Len(l) : l[k].type = "reopened"
  PROVE  OneOpenItemPerGroup'
<1>1. item \in [Items -> Rows] /\ log \in [Items -> Seq(Events)]
  BY DEF IInv, TypeOK
<1>2. \A j \in Items : /\ item'[j] = IF j = i THEN row ELSE item[j]
                       /\ log'[j] = IF j = i THEN l ELSE log[j]
  BY <1>1 DEF Rewrites
<1>3. \A j \in Items : Reopened(j) => Reopened(j)'
  BY <1>2 DEF Reopened
<1>4. \A j \in Items : Open(item'[j]) => Open(item[j]) \/ Reopened(j)'
  BY <1>2 DEF Reopened
<1>5. QED BY <1>3, <1>4 DEF IInv, OneOpenItemPerGroup

-----------------------------------------------------------------------------
LEMMA Initially == Init => IInv
<1> SUFFICES ASSUME Init PROVE IInv
  OBVIOUS
<1>1. TypeOK
  BY DEF Init, TypeOK, Rows, Absent
<1>2. HistoryExplainsRow /\ HistoryIsAChain /\ ConcludedByHolder /\ ResolvedByAlias
  BY DEF Init, HistoryExplainsRow, HistoryIsAChain, ConcludedByHolder, ResolvedByAlias
<1>3. OneOpenItemPerGroup /\ ChainFilled /\ RequestsAllowed
  BY DEF Init, OneOpenItemPerGroup, ChainFilled, RequestsAllowed, Open, Absent
<1>4. QED BY <1>1, <1>2, <1>3 DEF IInv

(* A step that changes neither items nor histories nor aliases.            *)
LEMMA ItemsUntouched ==
  ASSUME IInv, UNCHANGED <<item, log, alias>>, TypeOK', RequestsAllowed'
  PROVE  IInv'
<1>1. HistoryExplainsRow' /\ HistoryIsAChain' /\ ConcludedByHolder'
  BY DEF IInv, HistoryExplainsRow, HistoryIsAChain, ConcludedByHolder, Last
<1>2. ResolvedByAlias' /\ OneOpenItemPerGroup' /\ ChainFilled'
  BY DEF IInv, ResolvedByAlias, OneOpenItemPerGroup, Reopened, ChainFilled
<1>3. QED BY <1>1, <1>2 DEF IInv

(* One transition of an item that concludes no unknown account.            *)
LEMMA TransitionKeeps ==
  ASSUME IInv, NEW i \in Items, NEW e \in Events, NEW row \in Rows,
         item[i] # Absent, row # Absent, Rewrites(i, row, Append(log[i], e)),
         Follows(log[i], e, row),
         e.type = "reopened" \/ Open(item[i]),
         TypeOK', RequestsAllowed',
         ResolvedByAlias' \/ (alias' = alias /\ (KindOf(i) # "alias" \/ e.type # "resolved"))
  PROVE  IInv'
<1> DEFINE l == Append(log[i], e)
<1>1. log[i] \in Seq(Events) /\ Chained(log[i]) /\ Holders(log[i])
  BY HistoriesOfItems DEF IInv, TypeOK
<1>2. l \in Seq(Events) /\ Chained(l) /\ Holders(l) /\ Explains(l, row)
  BY <1>1, AppendKeeps
<1>3. /\ \A k \in 1..Len(log[i]) : k \in 1..Len(l) /\ l[k] = log[i][k]
      /\ Len(l) \in 1..Len(l) /\ l[Len(l)] = e
  BY <1>1
<1> HIDE DEF l
<1>4. Rewrites(i, row, l)
  BY DEF l
<1>5. HistoryExplainsRow' /\ HistoryIsAChain' /\ ConcludedByHolder' /\ ChainFilled'
  BY <1>2, <1>4, HistoriesKept
<1>6. OneOpenItemPerGroup'
  BY <1>3, <1>4, OneOpenKept
<1>7. ResolvedByAlias'
  BY <1>4, AliasesKept DEF l
<1>8. QED BY <1>5, <1>6, <1>7 DEF IInv

(* The events and rows the transitions make, and what precedes them.       *)
LEMMA EventOf ==
  ASSUME NEW row \in Rows, row # Absent, NEW u \in Users, NEW from \in Statuses,
         NEW type \in {"claimed", "released", "reassigned", "resolved", "dismissed", "reopened"}
  PROVE  /\ Event(type, from, row, u) \in Events
         /\ Event(type, from, row, u).type = type
         /\ Event(type, from, row, u).from = from
         /\ Event(type, from, row, u).to = row.status
         /\ Event(type, from, row, u).holder = row.assignee
         /\ Event(type, from, row, u).by = u
  BY DEF Rows, Absent, Statuses, Conclusions, Event, Events

LEMMA RowsOf ==
  /\ New \in Rows /\ New # Absent /\ New.status = "pending" /\ New.assignee = NoUser
  /\ \A u \in Users : /\ Claimed(u) \in Rows /\ Claimed(u) # Absent
                       /\ Claimed(u).status = "in_review" /\ Claimed(u).assignee = u
  /\ \A s \in Conclusions : /\ Finished(s) \in Rows /\ Finished(s) # Absent
                             /\ Finished(s).status = s /\ Finished(s).assignee = NoUser
  BY DEF New, Claimed, Finished, Rows, Absent, Conclusions

(* The row of an item says how its history ends.                           *)
LEMMA RowsSay ==
  ASSUME IInv, NEW i \in Items
  PROVE  /\ Claimable(item[i]) => Open(item[i]) /\ item[i] # Absent /\ StateAfter(log[i]) = "pending"
         /\ Reassignable(item[i]) => Open(item[i]) /\ item[i] # Absent /\ StateAfter(log[i]) = "in_review"
         /\ \A u \in Users : HeldBy(item[i], u) =>
              /\ Open(item[i]) /\ item[i] # Absent /\ StateAfter(log[i]) = "in_review"
              /\ log[i] # <<>> /\ u = log[i][Len(log[i])].holder
         /\ Closed(item[i]) => item[i] # Absent /\ StateAfter(log[i]) \in Conclusions
<1>1. Explains(log[i], item[i])
  BY HistoriesOfItems DEF IInv
<1>2. QED
  BY <1>1 DEF Explains, StateAfter, Claimable, Reassignable, HeldBy, Closed, Open,
     Absent, New, Conclusions

-----------------------------------------------------------------------------
(* The actions *)

EventTypes == {"claimed", "released", "reassigned", "resolved", "dismissed", "reopened"}
Requests   == {Idle} \cup [op : Ops, item : Items, seen : Statuses]

LEMMA MovesKeeps ==
  ASSUME IInv, NEW i \in Items, NEW u \in Users, NEW row \in Rows, row # Absent,
         NEW type \in EventTypes, NEW from \in Statuses,
         Moves(i, row, type, from, u), item[i] # Absent,
         IF type = "reopened" THEN StateAfter(log[i]) \in Conclusions
         ELSE Open(item[i]) /\ from = StateAfter(log[i]),
         row.status \in Conclusions => log[i] # <<>> /\ u = log[i][Len(log[i])].holder,
         alias' \in [Groups -> SUBSET Items], lacking' = lacking,
         req' \in [Users -> Requests], RequestsAllowed',
         ResolvedByAlias' \/ (alias' = alias /\ (KindOf(i) # "alias" \/ type # "resolved"))
  PROVE  IInv'
<1> DEFINE e == Event(type, from, row, u)
<1>1. /\ e \in Events /\ e.type = type /\ e.from = from /\ e.to = row.status
      /\ e.holder = row.assignee /\ e.by = u
  BY EventOf DEF EventTypes
<1>2. Rewrites(i, row, Append(log[i], e))
  BY DEF Moves, Rewrites, IInv, TypeOK
<1> HIDE DEF e
<1>3. Follows(log[i], e, row)
  BY <1>1 DEF Follows
<1>4. TypeOK'
  BY <1>1, <1>2 DEF IInv, TypeOK, Rewrites, Requests
<1>5. QED BY <1>1, <1>2, <1>3, <1>4, TransitionKeeps

LEMMA LookUpAliasKeeps ==
  ASSUME IInv, NEW g \in Groups, LookUpAlias(g)
  PROVE  IInv'
<1>1. TypeOK' /\ RequestsAllowed'
  BY DEF LookUpAlias, IInv, TypeOK, RequestsAllowed
<1>2. QED BY <1>1, ItemsUntouched DEF LookUpAlias

(* The only step that makes an item: all before it in the chain are        *)
(* concluded, and all after it are still absent.                           *)
LEMMA CreateKeeps ==
  ASSUME IInv, NEW i \in Items, Create(i)
  PROVE  IInv'
<1>1. item \in [Items -> Rows] /\ log' = log /\ alias' = alias /\ req' = req
  BY DEF IInv, TypeOK, Create
<1>2. TypeOK' /\ RequestsAllowed'
  BY RowsOf DEF IInv, TypeOK, RequestsAllowed, Create
<1>3. CASE item[i] # Absent
  <2>1. item' = item
    BY <1>1, <1>3 DEF Create
  <2>2. QED BY <1>1, <1>2, <2>1, ItemsUntouched
<1>4. CASE item[i] = Absent
  <2>1. \A j \in Items : item'[j] = IF j = i THEN New ELSE item[j]
    BY <1>1, <1>4 DEF Create
  <2>2. log[i] = <<>>
    <3>1. log[i] \in Seq(Events) /\ Explains(log[i], item[i])
      BY HistoriesOfItems DEF IInv, TypeOK
    <3>2. log[i] # <<>> => log[i][Len(log[i])] \in Events
      BY <3>1
    <3>3. QED
      BY <1>4, <3>1, <3>2 DEF Explains, Absent, Events, Statuses, Conclusions
  <2>3. HistoryExplainsRow'
    BY <1>1, <2>1, <2>2 DEF IInv, HistoryExplainsRow, Last
  <2>4. HistoryIsAChain' /\ ConcludedByHolder' /\ ResolvedByAlias'
    <3>1. HistoryIsAChain'
      BY <1>1 DEF IInv, HistoryIsAChain
    <3>2. ConcludedByHolder'
      BY <1>1 DEF IInv, ConcludedByHolder
    <3>3. ResolvedByAlias'
      BY <1>1 DEF IInv, ResolvedByAlias
    <3>4. QED BY <3>1, <3>2, <3>3
  <2>5. PICK g \in Groups, n \in 1..MaxChain : i = <<g, n>>
    BY DEF Items
  <2>6. \A k \in 1..(n - 1) : Closed(item[<<g, k>>])
    BY <2>5 DEF Create, Current
  <2>7. \A j \in Items : \E k \in 1..MaxChain : j[1] = g => j = <<g, k>>
    BY ReviewAssumption DEF Items
  <2>8. \A k \in (n + 1)..MaxChain : <<g, k>> \in Items => item[<<g, k>>] = Absent
    <3> SUFFICES ASSUME NEW k \in (n + 1)..MaxChain, <<g, k>> \in Items,
                        item[<<g, k>>] # Absent
                 PROVE  FALSE
      OBVIOUS
    <3>1. k \in 1..MaxChain /\ n < k
      BY <2>5, ReviewAssumption
    <3>2. QED BY <1>4, <2>5, <3>1 DEF IInv, ChainFilled
  <2>9. \A j \in Items : j[1] = g /\ j # i => ~Open(item[j])
    <3> SUFFICES ASSUME NEW j \in Items, j[1] = g, j # i
                 PROVE  ~Open(item[j])
      OBVIOUS
    <3>1. PICK k \in 1..MaxChain : j = <<g, k>>
      BY <2>7
    <3>2. k < n \/ k > n
      BY <2>5, <3>1, ReviewAssumption
    <3>3. CASE k < n
      BY <2>6, <3>1, <3>3 DEF Closed, Open, Conclusions
    <3>4. CASE k > n
      BY <2>8, <3>1, <3>4 DEF Open, Absent
    <3>5. QED BY <3>2, <3>3, <3>4
  <2>10. \A j \in Items : Reopened(j)' <=> Reopened(j)
    BY <1>1 DEF Reopened
  <2>11. OneOpenItemPerGroup'
    BY <2>1, <2>5, <2>9, <2>10 DEF IInv, OneOpenItemPerGroup
  <2>12. ChainFilled'
    <3> SUFFICES ASSUME NEW h \in Groups, NEW k \in 1..MaxChain, NEW m \in 1..MaxChain,
                        <<h, k>> \in Items, <<h, m>> \in Items, k < m,
                        item'[<<h, m>>] # Absent
                 PROVE  item'[<<h, k>>] # Absent
      BY DEF ChainFilled
    <3>1. CASE <<h, m>> = i
      <4>1. k \in 1..(n - 1) /\ h = g
        BY <2>5, <3>1
      <4>2. QED BY <2>1, <2>6, <4>1, RowsOf DEF Closed, Conclusions, Absent
    <3>2. CASE <<h, m>> # i
      BY <2>1, <3>2, RowsOf DEF IInv, ChainFilled
    <3>3. QED BY <3>1, <3>2
  <2>13. QED BY <1>2, <2>3, <2>4, <2>11, <2>12 DEF IInv
<1>5. QED BY <1>3, <1>4

LEMMA ClaimKeeps ==
  ASSUME IInv, NEW u \in Users, NEW i \in Items, Claim(u, i)
  PROVE  IInv'
<1>1. Moves(i, Claimed(u), "claimed", "pending", u) /\ UNCHANGED <<alias, lacking, req>>
  BY DEF Claim
<1>2. Open(item[i]) /\ item[i] # Absent /\ StateAfter(log[i]) = "pending"
  BY RowsSay DEF Claim
<1>3. req' \in [Users -> Requests] /\ RequestsAllowed' /\ alias' \in [Groups -> SUBSET Items]
  BY <1>1 DEF IInv, TypeOK, RequestsAllowed, Requests
<1>4. Claimed(u).status \notin Conclusions /\ "claimed" \in EventTypes /\ "pending" \in Statuses
  BY RowsOf DEF Conclusions, EventTypes, Statuses
<1>5. QED BY <1>1, <1>2, <1>3, <1>4, RowsOf, MovesKeeps

LEMMA ReleaseKeeps ==
  ASSUME IInv, NEW u \in Users, NEW i \in Items, Release(u, i)
  PROVE  IInv'
<1>1. Moves(i, New, "released", "in_review", u) /\ UNCHANGED <<alias, lacking, req>>
  BY DEF Release
<1>2. Open(item[i]) /\ item[i] # Absent /\ StateAfter(log[i]) = "in_review"
  BY RowsSay DEF Release
<1>3. req' \in [Users -> Requests] /\ RequestsAllowed' /\ alias' \in [Groups -> SUBSET Items]
  BY <1>1 DEF IInv, TypeOK, RequestsAllowed, Requests
<1>4. New.status \notin Conclusions /\ "released" \in EventTypes /\ "in_review" \in Statuses
  BY RowsOf DEF Conclusions, EventTypes, Statuses
<1>5. QED BY <1>1, <1>2, <1>3, <1>4, RowsOf, MovesKeeps

LEMMA ReassignKeeps ==
  ASSUME IInv, NEW u \in Users, NEW v \in Users, NEW i \in Items, Reassign(u, i, v)
  PROVE  IInv'
<1>1. Moves(i, Claimed(v), "reassigned", "in_review", u) /\ UNCHANGED <<alias, lacking, req>>
  BY DEF Reassign
<1>2. Open(item[i]) /\ item[i] # Absent /\ StateAfter(log[i]) = "in_review"
  BY RowsSay DEF Reassign
<1>3. req' \in [Users -> Requests] /\ RequestsAllowed' /\ alias' \in [Groups -> SUBSET Items]
  BY <1>1 DEF IInv, TypeOK, RequestsAllowed, Requests
<1>4. Claimed(v).status \notin Conclusions /\ "reassigned" \in EventTypes /\ "in_review" \in Statuses
  BY RowsOf DEF Conclusions, EventTypes, Statuses
<1>5. QED BY <1>1, <1>2, <1>3, <1>4, RowsOf, MovesKeeps

LEMMA ReadItemKeeps ==
  ASSUME IInv, NEW u \in Users, NEW i \in Items, NEW op \in Ops, ReadItem(u, i, op)
  PROVE  IInv'
<1>1. item[i].status \in Statuses
  BY DEF IInv, TypeOK, ReadItem, Rows, Absent, Statuses
<1>2. TypeOK'
  BY <1>1 DEF ReadItem, IInv, TypeOK
<1>3. RequestsAllowed'
  BY DEF ReadItem, IInv, TypeOK, RequestsAllowed, AllowedFor, KindOf
<1>4. QED BY <1>2, <1>3, ItemsUntouched DEF ReadItem

LEMMA RefusedKeeps ==
  ASSUME IInv, NEW u \in Users, Refused(u)
  PROVE  IInv'
<1>1. TypeOK'
  BY DEF Refused, IInv, TypeOK
<1>2. RequestsAllowed'
  BY DEF Refused, IInv, TypeOK, RequestsAllowed, AllowedFor, KindOf
<1>3. QED BY <1>1, <1>2, ItemsUntouched DEF Refused

(* The request of u ends; the others stay as they were.                    *)
LEMMA RequestEnds ==
  ASSUME IInv, NEW u \in Users, req' = [req EXCEPT ![u] = Idle]
  PROVE  req' \in [Users -> Requests] /\ RequestsAllowed'
  BY DEF IInv, TypeOK, RequestsAllowed, Requests, AllowedFor, KindOf

(* Only items the review centre may resolve are resolved there, and alias  *)
(* items are not among them.                                               *)
LEMMA ConcludeKeeps ==
  ASSUME IInv, NEW u \in Users, NEW op, NEW s,
         (op = "resolve" /\ s = "resolved") \/ (op = "dismiss" /\ s = "dismissed"),
         Conclude(u, op, s)
  PROVE  IInv'
<1> DEFINE i == req[u].item
<1>1. i \in Items /\ req[u] # Idle /\ req[u].op = op
  BY DEF Conclude, IInv, TypeOK, Idle
<1>2. Moves(i, Finished(s), s, "in_review", u) /\ UNCHANGED <<alias, lacking>>
  BY DEF Conclude
<1>3. /\ Open(item[i]) /\ item[i] # Absent /\ StateAfter(log[i]) = "in_review"
      /\ log[i] # <<>> /\ u = log[i][Len(log[i])].holder
  BY <1>1, RowsSay DEF Conclude
<1>4. KindOf(i) # "alias" \/ s # "resolved"
  BY <1>1 DEF IInv, RequestsAllowed, AllowedFor, Elsewhere
<1> HIDE DEF i
<1>5. req' \in [Users -> Requests] /\ RequestsAllowed' /\ alias' \in [Groups -> SUBSET Items]
  BY <1>2, RequestEnds DEF Conclude, IInv, TypeOK
<1>6. s \in Conclusions /\ s \in EventTypes /\ s # "reopened" /\ "in_review" \in Statuses
  BY DEF Conclusions, EventTypes, Statuses
<1>7. QED BY <1>1, <1>2, <1>3, <1>4, <1>5, <1>6, RowsOf, MovesKeeps

LEMMA ReopenKeeps ==
  ASSUME IInv, NEW u \in Users, Reopen(u)
  PROVE  IInv'
<1> DEFINE i == req[u].item
<1>1. i \in Items /\ req[u].seen \in Statuses
  BY DEF Reopen, IInv, TypeOK, Idle
<1>2. Moves(i, New, "reopened", req[u].seen, u) /\ UNCHANGED <<alias, lacking>>
  BY DEF Reopen
<1>3. item[i] # Absent /\ StateAfter(log[i]) \in Conclusions
  BY <1>1, RowsSay DEF Reopen
<1> HIDE DEF i
<1>4. req' \in [Users -> Requests] /\ RequestsAllowed' /\ alias' \in [Groups -> SUBSET Items]
  BY <1>2, RequestEnds DEF Reopen, IInv, TypeOK
<1>5. New.status \notin Conclusions /\ "reopened" \in EventTypes
  BY RowsOf DEF Conclusions, EventTypes
<1>6. QED BY <1>1, <1>2, <1>3, <1>4, <1>5, RowsOf, MovesKeeps

LEMMA ResolveSnapshotConflictKeeps ==
  ASSUME IInv, NEW u \in Users, NEW i \in Items, ResolveSnapshotConflict(u, i)
  PROVE  IInv'
<1>1. Moves(i, Finished("resolved"), "resolved", "in_review", u) /\ UNCHANGED <<alias, lacking, req>>
  BY DEF ResolveSnapshotConflict
<1>2. /\ Open(item[i]) /\ item[i] # Absent /\ StateAfter(log[i]) = "in_review"
      /\ log[i] # <<>> /\ u = log[i][Len(log[i])].holder
  BY RowsSay DEF ResolveSnapshotConflict
<1>3. req' \in [Users -> Requests] /\ RequestsAllowed' /\ alias' \in [Groups -> SUBSET Items]
  BY <1>1 DEF IInv, TypeOK, RequestsAllowed, Requests
<1>4. "resolved" \in Conclusions /\ "resolved" \in EventTypes /\ "in_review" \in Statuses
  BY DEF Conclusions, EventTypes, Statuses
<1>5. KindOf(i) # "alias"
  BY DEF ResolveSnapshotConflict
<1>6. QED BY <1>1, <1>2, <1>3, <1>4, <1>5, RowsOf, MovesKeeps

(* A decision on a movement either concludes the item its author holds, or *)
(* claims and concludes it: two transitions in one step.                   *)
LEMMA ReviewMovementKeeps ==
  ASSUME IInv, NEW u \in Users, NEW i \in Items, ReviewMovement(u, i)
  PROVE  IInv'
<1> DEFINE resolved == Finished("resolved")
<1>1. UNCHANGED <<alias, lacking, req>> /\ KindOf(i) # "alias"
  BY DEF ReviewMovement
<1>2. req' \in [Users -> Requests] /\ RequestsAllowed' /\ alias' \in [Groups -> SUBSET Items]
  BY <1>1 DEF IInv, TypeOK, RequestsAllowed, Requests
<1>3. resolved \in Rows /\ resolved # Absent /\ resolved.status = "resolved" /\ resolved.assignee = NoUser
  BY RowsOf DEF Conclusions
<1>4. "resolved" \in Conclusions /\ "resolved" \in EventTypes /\ "in_review" \in Statuses
  BY DEF Conclusions, EventTypes, Statuses
<1> HIDE DEF resolved
<1>5. CASE HeldBy(item[i], u) /\ Moves(i, Finished("resolved"), "resolved", "in_review", u)
  <2>1. /\ Open(item[i]) /\ item[i] # Absent /\ StateAfter(log[i]) = "in_review"
        /\ log[i] # <<>> /\ u = log[i][Len(log[i])].holder
    BY <1>5, RowsSay
  <2>2. Moves(i, resolved, "resolved", "in_review", u)
    BY <1>5 DEF resolved
  <2>3. QED BY <1>1, <1>2, <1>3, <1>4, <2>1, <2>2, MovesKeeps
<1>6. CASE /\ Claimable(item[i])
           /\ log' = [log EXCEPT ![i] = ClaimAndResolve(@, u)]
           /\ item' = [item EXCEPT ![i] = Finished("resolved")]
  <2> DEFINE e == Event("claimed", "pending", Claimed(u), u)
             f == Event("resolved", "in_review", Finished("resolved"), u)
             h == Append(log[i], e)
             l == Append(h, f)
  <2>1. Open(item[i]) /\ item[i] # Absent /\ StateAfter(log[i]) = "pending"
    BY <1>6, RowsSay
  <2>2. Claimed(u) \in Rows /\ Claimed(u) # Absent /\ Claimed(u).status = "in_review" /\ Claimed(u).assignee = u
    BY RowsOf
  <2>3. /\ e \in Events /\ e.type = "claimed" /\ e.from = "pending"
        /\ e.to = "in_review" /\ e.holder = u
    BY <2>2, EventOf DEF Statuses
  <2>4. /\ f \in Events /\ f.type = "resolved" /\ f.from = "in_review"
        /\ f.to = "resolved" /\ f.holder = NoUser /\ f.by = u
    BY <1>3, <1>4, EventOf DEF resolved
  <2>5. log[i] \in Seq(Events) /\ Chained(log[i]) /\ Holders(log[i])
    BY HistoriesOfItems DEF IInv, TypeOK
  <2>6. Rewrites(i, resolved, l)
    BY <1>6 DEF Rewrites, ClaimAndResolve, resolved, IInv, TypeOK
  <2> HIDE DEF e, f
  <2>7. h # <<>> /\ h[Len(h)] = e
    BY <2>3, <2>5
  <2>8. Follows(log[i], e, Claimed(u))
    BY <2>1, <2>2, <2>3 DEF Follows, Conclusions
  <2>9. h \in Seq(Events) /\ Chained(h) /\ Holders(h)
    BY <2>3, <2>5, <2>8, AppendKeeps
  <2>10. \A k \in 1..Len(log[i]) : k \in 1..Len(l) /\ l[k] = log[i][k]
    BY <2>3, <2>4, <2>5
  <2> HIDE DEF h
  <2>11. Follows(h, f, resolved)
    BY <1>3, <2>3, <2>4, <2>7 DEF Follows, StateAfter
  <2>12. l \in Seq(Events) /\ Chained(l) /\ Holders(l) /\ Explains(l, resolved)
    BY <2>4, <2>9, <2>11, AppendKeeps
  <2> HIDE DEF l
  <2>13. /\ item' \in [Items -> Rows] /\ log' \in [Items -> Seq(Events)]
         /\ HistoryExplainsRow' /\ HistoryIsAChain' /\ ConcludedByHolder' /\ ChainFilled'
    BY <1>3, <2>1, <2>6, <2>12, HistoriesKept
  <2>14. OneOpenItemPerGroup'
    BY <2>1, <2>6, <2>10, OneOpenKept
  <2>15. ResolvedByAlias'
    BY <1>1, <2>6, AliasesKept
  <2>16. TypeOK'
    BY <1>1, <1>2, <2>13 DEF IInv, TypeOK, Requests
  <2>17. QED BY <1>2, <2>13, <2>14, <2>15, <2>16 DEF IInv
<1>7. QED BY <1>5, <1>6 DEF ReviewMovement

(* Without an alias no item of the group was ever resolved, so this is the *)
(* first resolution among them.                                            *)
LEMMA ConfirmAliasKeeps ==
  ASSUME IInv, NEW u \in Users, NEW i \in Items, ConfirmAlias(u, i)
  PROVE  IInv'
<1> DEFINE e == Event("resolved", "in_review", Finished("resolved"), u)
<1>1. Moves(i, Finished("resolved"), "resolved", "in_review", u) /\ UNCHANGED <<lacking, req>>
  BY DEF ConfirmAlias
<1>2. /\ Open(item[i]) /\ item[i] # Absent /\ StateAfter(log[i]) = "in_review"
      /\ log[i] # <<>> /\ u = log[i][Len(log[i])].holder
  BY RowsSay DEF ConfirmAlias
<1>3. i[1] \in Groups /\ alias \in [Groups -> SUBSET Items] /\ log \in [Items -> Seq(Events)]
  BY DEF Items, IInv, TypeOK
<1>4. /\ alias' \in [Groups -> SUBSET Items]
      /\ alias[i[1]] = {} /\ alias'[i[1]] = {i}
      /\ \A g \in Groups : g # i[1] => alias'[g] = alias[g]
  BY <1>3 DEF ConfirmAlias, NoAlias
<1>5. req' \in [Users -> Requests] /\ RequestsAllowed'
  BY <1>1 DEF IInv, TypeOK, RequestsAllowed, Requests
<1>6. "resolved" \in Conclusions /\ "resolved" \in EventTypes /\ "in_review" \in Statuses
  BY DEF Conclusions, EventTypes, Statuses
<1>7. ResolvedByAlias'
  <2>1. e \in Events /\ \A j \in Items : log'[j] = IF j = i THEN Append(log[i], e) ELSE log[j]
    BY <1>1, <1>3, <1>6, RowsOf, EventOf DEF Moves
  <2>2. Kind[i[1]] = "alias"
    BY DEF ConfirmAlias, KindOf
  <2>3. \A j \in Items : j[1] = i[1] =>
          \A k \in 1..Len(log[j]) : log[j][k].type # "resolved"
    BY <1>3, <1>4, <2>2 DEF IInv, ResolvedByAlias
  <2> HIDE DEF e
  <2> SUFFICES ASSUME NEW g \in Groups, Kind[g] = "alias",
                      NEW j \in Items, j[1] = g,
                      NEW k \in 1..Len(log'[j]), log'[j][k].type = "resolved"
               PROVE  /\ alias'[g] = {j}
                      /\ \A n \in 1..Len(log'[j]) : log'[j][n].type = "resolved" => n = k
    BY DEF ResolvedByAlias
  <2>4. CASE g # i[1]
    BY <1>4, <2>1, <2>4 DEF IInv, ResolvedByAlias
  <2>5. CASE g = i[1]
    <3>1. j = i
      BY <2>1, <2>3, <2>5
    <3>2. log[i] \in Seq(Events) /\ log'[i] = Append(log[i], e)
      BY <1>3, <2>1
    <3>3. \A n \in 1..Len(log'[i]) : log'[i][n].type = "resolved" => n = Len(log'[i])
      <4> SUFFICES ASSUME NEW n \in 1..Len(log'[i]), log'[i][n].type = "resolved",
                          n # Len(log'[i])
                   PROVE  FALSE
        OBVIOUS
      <4>1. n \in 1..Len(log[i]) /\ log'[i][n] = log[i][n]
        BY <2>1, <3>2
      <4>2. QED BY <2>3, <4>1
    <3>4. QED BY <1>4, <2>5, <3>1, <3>3
  <2>6. QED BY <2>4, <2>5
<1>8. QED BY <1>1, <1>2, <1>4, <1>5, <1>6, <1>7, RowsOf, MovesKeeps

-----------------------------------------------------------------------------
(* Every reachable state satisfies the inductive invariant.                *)
THEOREM Invariance == Spec => []IInv
<1>1. IInv /\ [Next]_vars => IInv'
  <2> SUFFICES ASSUME IInv, [Next]_vars PROVE IInv'
    OBVIOUS
  <2>1. CASE UNCHANGED vars
    <3>1. TypeOK' /\ RequestsAllowed'
      BY <2>1 DEF vars, IInv, TypeOK, RequestsAllowed
    <3>2. QED BY <2>1, <3>1, ItemsUntouched DEF vars
  <2>2. ASSUME NEW u \in Users, NEW i \in Items,
               \/ Claim(u, i) \/ Release(u, i)
               \/ \E v \in Users : Reassign(u, i, v)
               \/ \E op \in Ops : ReadItem(u, i, op)
               \/ ReviewMovement(u, i) \/ ResolveSnapshotConflict(u, i)
               \/ ConfirmAlias(u, i)
        PROVE  IInv'
    BY <2>2, ClaimKeeps, ReleaseKeeps, ReassignKeeps, ReadItemKeeps,
       ReviewMovementKeeps, ResolveSnapshotConflictKeeps, ConfirmAliasKeeps
  <2>3. ASSUME NEW u \in Users,
               \/ Conclude(u, "resolve", "resolved")
               \/ Conclude(u, "dismiss", "dismissed")
               \/ Reopen(u) \/ Refused(u)
        PROVE  IInv'
    BY <2>3, ConcludeKeeps, ReopenKeeps, RefusedKeeps
  <2>4. QED
    BY <2>1, <2>2, <2>3, LookUpAliasKeeps, CreateKeeps DEF Next
<1>2. QED BY <1>1, Initially, PTL DEF Spec

(* Rows, histories, aliases and requests keep their types.                 *)
THEOREM TypeCorrect == Spec => []TypeOK
<1>1. IInv => TypeOK
  BY DEF IInv
<1>2. QED BY <1>1, Invariance, PTL

(* The history of every item explains its row.                             *)
THEOREM HistoriesExplain == Spec => []HistoryExplainsRow
<1>1. IInv => HistoryExplainsRow
  BY DEF IInv
<1>2. QED BY <1>1, Invariance, PTL

(* Every recorded transition starts where the one before it ended.         *)
THEOREM HistoriesChain == Spec => []HistoryIsAChain
<1>1. IInv => HistoryIsAChain
  BY DEF IInv
<1>2. QED BY <1>1, Invariance, PTL

(* Whoever concludes an item is the person it was left with.               *)
THEOREM HoldersConclude == Spec => []ConcludedByHolder
<1>1. IInv => ConcludedByHolder
  BY DEF IInv
<1>2. QED BY <1>1, Invariance, PTL

(* The items of an unknown account are resolved once, by its alias.        *)
THEOREM AliasSettles == Spec => []ResolvedByAlias
<1>1. IInv => ResolvedByAlias
  BY DEF IInv
<1>2. QED BY <1>1, Invariance, PTL

(* A group has one open question, unless an item was reopened.             *)
THEOREM OneQuestionAtATime == Spec => []OneOpenItemPerGroup
<1>1. IInv => OneOpenItemPerGroup
  BY DEF IInv
<1>2. QED BY <1>1, Invariance, PTL
=============================================================================
