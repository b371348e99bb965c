-------------------------- MODULE MovimentosProofs --------------------------
(***************************************************************************)
(* Theorems about Movimentos, for any number of movements, accounts, users *)
(* and runs, and for sheets and bulk approvals of any length.              *)
(***************************************************************************)
EXTENDS Movimentos, TLAPS

(* A row nobody has decided.                                               *)
Clean(row) == row.status \in Undecided /\ row.final = NoAccount /\ ~row.elig /\ row.ver = 1

(* What a request has made of a row it loaded: a reviewed decision, or a   *)
(* bulk approval of a row without warnings.                                *)
DecidedFrom(row, loaded) ==
  \/ \E d \in Decisions : row = Reviewed(loaded, d)
  \/ \E acc \in Accounts : row = BulkApproved(loaded, acc)

Loaded(a, m) == work[a][m] # NotLoaded

(* An item is the trace of an abstention, which left a warning.            *)
ItemInv == \A m \in Movs :
  item[m] # Absent => mov[m].status # "pendente" /\ mov[m].msgs

(* A movement in the session of a was reviewable when it was loaded, and   *)
(* was not decided when the request began.  It is the one in process, or   *)
(* it is decided; then its item is settled in the same transaction.        *)
LoadedAt(a, m) == Loaded(a, m) =>
  /\ base[a][m] \in Movements
  /\ Clean(base[a][m]) /\ Reviewable(base[a][m])
  /\ mov[m].status # "pendente"
  /\ mov[m].sug = base[a][m].sug
  /\ mov[m].msgs = base[a][m].msgs
  /\ m \notin late[a]
  /\ at[a] = m => work[a][m] = base[a][m]
  /\ at[a] # m => /\ DecidedFrom(work[a][m], base[a][m])
                  /\ ~Open(ItemOf(a, m))
                  /\ item[m] # Absent => lock[m] = a

(* An item in the session of a was open, and a has locked its row.         *)
TouchedAt(a, m) == touched[a][m] # Untouched =>
  /\ a \in Users
  /\ lock[m] = a
  /\ Open(item[m])
  /\ touched[a][m] \in {Claimed(a), Finished("resolved")}
  /\ touched[a][m] = Finished("resolved") => Loaded(a, m) /\ at[a] # m

RequestAt(a) ==
  /\ kind[a] = "idle" => late[a] = {} /\ \A m \in Movs : ~Loaded(a, m)
  /\ at[a] # NoMov => todo[a] # <<>> /\ Loaded(a, at[a])
  /\ \A m \in late[a] : mov[m].status \in Decided

SessionInv == \A a \in Actors : RequestAt(a) /\ \A m \in Movs : LoadedAt(a, m) /\ TouchedAt(a, m)

(* A run has loaded pending movements; while it owns the job nobody else   *)
(* has written them.                                                       *)
RunInv == \A w \in Workers, m \in Movs : jobs[w][m] # NotLoaded =>
  /\ Clean(jobs[w][m]) /\ jobs[w][m].status = "pendente"
  /\ owner = w => mov[m] = jobs[w][m]

IInv ==
  /\ TypeOK
  /\ UndecidedIsClean
  /\ AcceptedIsComplete
  /\ ItemFollowsDecision
  /\ ItemInv
  /\ SessionInv
  /\ RunInv

(* What no step undoes: a decision, the suggestion and the warnings of a   *)
(* movement that left the classification, and the absence of its item.     *)
RowsAdvance == \A m \in Movs :
  /\ mov[m].status \in Decided => mov'[m].status \in Decided
  /\ mov[m].status # "pendente" => /\ mov'[m].status # "pendente"
                                   /\ mov'[m].sug = mov[m].sug
                                   /\ mov'[m].msgs = mov[m].msgs
                                   /\ item[m] = Absent => item'[m] = Absent
-----------------------------------------------------------------------------
(* What the operators on rows return.                                      *)

(* A movement in memory is never mistaken for one that is not loaded.      *)
LEMMA LoadedRows ==
  /\ \A row \in Movements : row # NotLoaded
  /\ \A row \in Rows : row # Untouched
<1>1. DOMAIN NotLoaded = {} /\ DOMAIN Untouched = {}
  BY DEF NotLoaded, Untouched
<1>2. \A row \in Movements : "status" \in DOMAIN row
  BY DEF Movements
<1>3. \A row \in Rows : "status" \in DOMAIN row
  BY DEF Rows
<1>4. QED BY <1>1, <1>2, <1>3

(* People and integrations are nobody's name, and no run is.               *)
LEMMA ActorsAreNamed ==
  /\ Users \subseteq Actors
  /\ NoUser \notin Actors
  /\ NoUser \notin Workers
  /\ NoMov \notin Movs
  /\ NoAccount \notin Accounts
BY MovimentosAssumption DEF Actors, NoUser, Service

(* The rows the transitions of an item write, and which of them are open.  *)
LEMMA ItemRows ==
  /\ Absent \in Rows /\ ~Open(Absent)
  /\ New \in Rows /\ Open(New)
  /\ \A u \in Users : Claimed(u) \in Rows /\ Open(Claimed(u)) /\ Claimed(u).status # "resolved"
  /\ \A s \in Conclusions : Finished(s) \in Rows /\ ~Open(Finished(s)) /\ Finished(s).status = s
  /\ Finished("resolved") \in Rows
  /\ \A u \in Users : Claimed(u) # Finished("resolved")
  /\ \A row \in Rows : Open(row) => row # Absent /\ row.status # "resolved"
BY DEF Rows, Absent, New, Claimed, Finished, Conclusions, Open, NoUser

(* A decision settles status, account and eligibility, and leaves what it  *)
(* was made on: the suggestion and the warnings.                           *)
LEMMA DecisionsDecide ==
  ASSUME NEW loaded \in Movements, NEW row, Clean(loaded), DecidedFrom(row, loaded)
  PROVE  /\ row \in Movements
         /\ row.status \in Decided
         /\ row.sug = loaded.sug /\ row.msgs = loaded.msgs
         /\ row.status \in Accepted => row.final \in Accounts /\ row.elig
<1>1. loaded.ver = 1
  BY DEF Clean
<1>2. ASSUME NEW d \in Decisions, row = Reviewed(loaded, d)
      PROVE  /\ row \in Movements
             /\ row.status \in Decided
             /\ row.sug = loaded.sug /\ row.msgs = loaded.msgs
             /\ row.status \in Accepted => row.final \in Accounts /\ row.elig
  <2> DEFINE s == CASE d.act = "approve" -> "aprovado"
                    [] d.act = "correct" -> "corrigido"
                    [] d.act = "reject"  -> "rejeitado"
  <2>1. /\ d.act \in {"approve", "correct", "reject"}
        /\ d.acc \in Accounts \cup {NoAccount}
        /\ d.act # "reject" => d.acc \in Accounts
    BY DEF Decisions
  <2>2. s \in Decided /\ (s \in Accepted => d.act # "reject")
    BY <2>1 DEF Decided, Accepted
  <2>3. row = [loaded EXCEPT !.ver = 2, !.final = d.acc, !.elig = d.act # "reject", !.status = s]
    BY <1>1, <1>2 DEF Reviewed
  <2> HIDE DEF s
  <2>4. /\ row.status = s /\ row.sug = loaded.sug /\ row.final = d.acc
        /\ row.elig = (d.act # "reject") /\ row.ver = 2 /\ row.msgs = loaded.msgs
        /\ row = [status |-> row.status, sug |-> row.sug, final |-> row.final,
                  elig |-> row.elig, ver |-> row.ver, msgs |-> row.msgs]
    BY <2>3 DEF Movements
  <2>5. row.elig \in BOOLEAN
    BY <2>4
  <2>6. /\ row.status \in Undecided \cup Decided
        /\ row.sug \in Accounts \cup {NoAccount}
        /\ row.final \in Accounts \cup {NoAccount}
        /\ row.ver \in {1, 2}
        /\ row.msgs \in BOOLEAN
    BY <2>1, <2>2, <2>4 DEF Movements
  <2>7. row \in Movements
    BY <2>4, <2>5, <2>6 DEF Movements
  <2>8. QED BY <2>1, <2>2, <2>4, <2>7
<1>3. ASSUME NEW acc \in Accounts, row = BulkApproved(loaded, acc)
      PROVE  /\ row \in Movements
             /\ row.status \in Decided
             /\ row.sug = loaded.sug /\ row.msgs = loaded.msgs
             /\ row.status \in Accepted => row.final \in Accounts /\ row.elig
  BY <1>3 DEF BulkApproved, Movements, Decided, Accepted
<1>4. QED BY <1>2, <1>3 DEF DecidedFrom

(* The columns of a merged row.                                            *)
LEMMA MergeIsByColumn ==
  ASSUME NEW row \in Movements, NEW loaded \in Movements, NEW made \in Movements
  PROVE  LET merged == Merge(row, loaded, made) IN
         /\ merged \in Movements
         /\ merged.status = IF made.status # loaded.status THEN made.status ELSE row.status
         /\ merged.sug = IF made.sug # loaded.sug THEN made.sug ELSE row.sug
         /\ merged.final = IF made.final # loaded.final THEN made.final ELSE row.final
         /\ merged.elig = IF made.elig # loaded.elig THEN made.elig ELSE row.elig
         /\ merged.ver = IF made.ver # loaded.ver THEN made.ver ELSE row.ver
         /\ merged.msgs = IF made.msgs # loaded.msgs THEN made.msgs ELSE row.msgs
<1> DEFINE merged == Merge(row, loaded, made)
           cols == {"status", "sug", "final", "elig", "ver", "msgs"}
<1>1. DOMAIN row = cols
  BY DEF Movements
<1>2. merged = [c \in cols |-> IF made[c] # loaded[c] THEN made[c] ELSE row[c]]
  BY <1>1 DEF Merge
<1>3. merged = [status |-> merged.status, sug |-> merged.sug, final |-> merged.final,
                elig |-> merged.elig, ver |-> merged.ver, msgs |-> merged.msgs]
  BY <1>2
<1>4. /\ merged.status = IF made.status # loaded.status THEN made.status ELSE row.status
      /\ merged.sug = IF made.sug # loaded.sug THEN made.sug ELSE row.sug
      /\ merged.final = IF made.final # loaded.final THEN made.final ELSE row.final
      /\ merged.elig = IF made.elig # loaded.elig THEN made.elig ELSE row.elig
      /\ merged.ver = IF made.ver # loaded.ver THEN made.ver ELSE row.ver
      /\ merged.msgs = IF made.msgs # loaded.msgs THEN made.msgs ELSE row.msgs
  BY <1>2
<1>5. /\ merged.status \in Undecided \cup Decided
      /\ merged.sug \in Accounts \cup {NoAccount}
      /\ merged.final \in Accounts \cup {NoAccount}
      /\ merged.elig \in BOOLEAN
      /\ merged.ver \in {1, 2}
      /\ merged.msgs \in BOOLEAN
  BY <1>4 DEF Movements
<1> HIDE DEF merged
<1>6. merged \in Movements
  BY <1>3, <1>5 DEF Movements
<1>7. QED BY <1>4, <1>6 DEF merged

-----------------------------------------------------------------------------
(* What a step leaves alone.                                               *)

SessionUntouched(a) ==
  /\ kind'[a] = kind[a] /\ todo'[a] = todo[a] /\ at'[a] = at[a] /\ late'[a] = late[a]
  /\ base'[a] = base[a] /\ work'[a] = work[a] /\ touched'[a] = touched[a]

(* The session of an actor survives the steps of the others: they change   *)
(* no item it has locked, and the movements only go forward.               *)
LEMMA SessionsOfOthers ==
  ASSUME IInv, RowsAdvance, NEW a \in Actors, SessionUntouched(a),
         \A m \in Movs : lock[m] = a =>
           lock'[m] = a /\ (item[m] # Absent => item'[m] = item[m])
  PROVE  RequestAt(a)' /\ \A m \in Movs : LoadedAt(a, m)' /\ TouchedAt(a, m)'
<1> USE DEF SessionUntouched
<1>1. RequestAt(a)'
  <2>1. late[a] \subseteq Movs /\ at[a] \in Movs \cup {NoMov}
    BY DEF IInv, TypeOK
  <2>2. QED BY <2>1 DEF IInv, SessionInv, RequestAt, RowsAdvance, Loaded
<1>2. ASSUME NEW m \in Movs PROVE TouchedAt(a, m)'
  BY ItemRows DEF IInv, SessionInv, TouchedAt, Loaded
<1>3. ASSUME NEW m \in Movs PROVE LoadedAt(a, m)'
  <2>1. CASE ~Loaded(a, m)
    BY <2>1 DEF LoadedAt, Loaded
  <2>2. CASE Loaded(a, m)
    <3>1. LoadedAt(a, m) /\ TouchedAt(a, m)
      BY DEF IInv, SessionInv
    <3>2. /\ mov'[m].status # "pendente"
          /\ mov'[m].sug = mov[m].sug
          /\ mov'[m].msgs = mov[m].msgs
          /\ item[m] = Absent => item'[m] = Absent
      BY <2>2, <3>1 DEF LoadedAt, RowsAdvance
    <3>3. ASSUME at[a] # m
          PROVE  ~Open(ItemOf(a, m)') /\ (item'[m] # Absent => lock'[m] = a)
      <4>1. CASE item[m] = Absent
        <5>1. item'[m] = item[m]
          BY <4>1, <3>2
        <5>2. QED BY <2>2, <3>1, <3>2, <3>3, <4>1, <5>1 DEF LoadedAt, ItemOf
      <4>2. CASE item[m] # Absent
        <5>1. lock[m] = a
          BY <2>2, <3>1, <3>3, <4>2 DEF LoadedAt
        <5>2. lock'[m] = a /\ item'[m] = item[m]
          BY <4>2, <5>1
        <5>3. QED BY <2>2, <3>1, <3>3, <5>2 DEF LoadedAt, ItemOf
      <4>3. QED BY <4>1, <4>2
    <3>4. QED BY <2>2, <3>1, <3>2, <3>3 DEF LoadedAt, Loaded, ItemOf
  <2>3. QED BY <2>1, <2>2
<1>4. QED BY <1>1, <1>2, <1>3

(* A step that writes no movement and no item keeps what is said of them.  *)
LEMMA RowsUntouched ==
  ASSUME IInv, UNCHANGED <<mov, item, reopened>>
  PROVE  /\ UndecidedIsClean' /\ AcceptedIsComplete' /\ ItemFollowsDecision' /\ ItemInv'
         /\ RowsAdvance
BY DEF IInv, UndecidedIsClean, AcceptedIsComplete, ItemFollowsDecision, ItemInv, RowsAdvance

LEMMA RunsUntouched ==
  ASSUME IInv, UNCHANGED <<mov, jobs, owner>>
  PROVE  RunInv'
BY DEF IInv, RunInv

LEMMA Initially == Init => IInv
<1> SUFFICES ASSUME Init PROVE IInv
  OBVIOUS
<1> USE DEF Init
<1>1. PICK warned \in [Movs -> BOOLEAN] : mov = [m \in Movs |-> Imported(m, warned[m])]
  OBVIOUS
<1>2. \A m \in Movs : /\ mov[m] \in Movements
                      /\ Clean(mov[m])
  BY <1>1 DEF Imported, Movements, Undecided, Clean
<1>3. mov \in [Movs -> Movements]
  BY <1>1, <1>2
<1>4. TypeOK
  BY <1>3, ItemRows DEF TypeOK
<1>5. UndecidedIsClean /\ AcceptedIsComplete
  BY <1>2 DEF UndecidedIsClean, AcceptedIsComplete, Clean, Undecided, Accepted
<1>6. ItemFollowsDecision /\ ItemInv
  BY ItemRows DEF ItemFollowsDecision, ItemInv, Absent
<1>7. SessionInv
  BY DEF SessionInv, RequestAt, LoadedAt, TouchedAt, Loaded
<1>8. RunInv
  BY DEF RunInv
<1>9. QED BY <1>4, <1>5, <1>6, <1>7, <1>8 DEF IInv

(* The steps of the review centre.                                         *)
LEMMA MovesKeeps ==
  ASSUME IInv, NEW u \in Users, NEW m \in Movs, NEW row \in Rows, Moves(u, m, row),
         item[m] # Absent, row.status # "resolved",
         \/ UNCHANGED reopened /\ (Open(row) => Open(item[m]))
         \/ reopened' = reopened \cup {m}
  PROVE  IInv' /\ RowsAdvance
<1> USE DEF Moves, requests, runs
<1>1. TypeOK'
  BY DEF IInv, TypeOK
<1>2. RowsAdvance
  BY DEF IInv, TypeOK, RowsAdvance
<1>3. UndecidedIsClean' /\ AcceptedIsComplete' /\ RunInv'
  BY DEF IInv, UndecidedIsClean, AcceptedIsComplete, RunInv
<1>4. ItemFollowsDecision' /\ ItemInv'
  BY DEF IInv, TypeOK, ItemFollowsDecision, ItemInv
<1>5. ASSUME NEW a \in Actors
      PROVE  RequestAt(a)' /\ \A n \in Movs : LoadedAt(a, n)' /\ TouchedAt(a, n)'
  <2>1. \A n \in Movs : lock[n] = a => lock'[n] = a /\ item'[n] = item[n]
    BY ActorsAreNamed DEF IInv, TypeOK
  <2>2. SessionUntouched(a)
    BY DEF SessionUntouched
  <2>3. QED BY <1>2, <2>1, <2>2, SessionsOfOthers
<1>6. QED BY <1>1, <1>2, <1>3, <1>4, <1>5 DEF IInv, SessionInv

LEMMA CentreKeeps ==
  ASSUME IInv, NEW u \in Users, NEW m \in Movs,
         \/ ClaimItem(u, m) \/ ReleaseItem(u, m) \/ \E v \in Users : ReassignItem(u, m, v)
         \/ DismissItem(u, m) \/ ReopenItem(u, m)
  PROVE  IInv' /\ RowsAdvance
<1>0. item[m] \in Rows
  BY DEF IInv, TypeOK
<1>1. CASE ClaimItem(u, m)
  <2>1. Open(item[m]) /\ item[m] # Absent
    BY <1>1, <1>0, ItemRows DEF ClaimItem, Claimable, Open
  <2>2. Moves(u, m, Claimed(u)) /\ UNCHANGED reopened
    BY <1>1 DEF ClaimItem
  <2>3. QED BY <2>1, <2>2, ItemRows, MovesKeeps
<1>2. CASE ReleaseItem(u, m)
  <2>1. Open(item[m]) /\ item[m] # Absent
    BY <1>2, <1>0, ItemRows DEF ReleaseItem, HeldBy, Open
  <2>2. Moves(u, m, New) /\ UNCHANGED reopened /\ New.status # "resolved"
    BY <1>2 DEF ReleaseItem, New
  <2>3. QED BY <2>1, <2>2, ItemRows, MovesKeeps
<1>3. ASSUME NEW v \in Users, ReassignItem(u, m, v)
      PROVE  IInv' /\ RowsAdvance
  <2>1. Open(item[m]) /\ item[m] # Absent
    BY <1>3, <1>0, ItemRows DEF ReassignItem, Reassignable, Open
  <2>2. Moves(u, m, Claimed(v)) /\ UNCHANGED reopened
    BY <1>3 DEF ReassignItem
  <2>3. QED BY <2>1, <2>2, ItemRows, MovesKeeps
<1>4. CASE DismissItem(u, m)
  <2>1. Open(item[m]) /\ item[m] # Absent
    BY <1>4, <1>0, ItemRows DEF DismissItem, HeldBy, Open
  <2>2. Moves(u, m, Finished("dismissed")) /\ UNCHANGED reopened
    BY <1>4 DEF DismissItem
  <2>3. Finished("dismissed") \in Rows /\ Finished("dismissed").status # "resolved"
    BY ItemRows DEF Conclusions
  <2>4. QED BY <2>1, <2>2, <2>3, MovesKeeps
<1>5. CASE ReopenItem(u, m)
  <2>1. item[m] # Absent
    BY <1>5 DEF ReopenItem, Closed, Conclusions, Absent
  <2>2. Moves(u, m, New) /\ reopened' = reopened \cup {m} /\ New.status # "resolved"
    BY <1>5 DEF ReopenItem, New
  <2>3. QED BY <2>1, <2>2, ItemRows, MovesKeeps
<1>6. QED BY <1>1, <1>2, <1>3, <1>4, <1>5

-----------------------------------------------------------------------------
(* The steps of a request.                                                 *)

(* A step of one request that only works in memory.                        *)
LEMMA OneSessionMoves ==
  ASSUME IInv, NEW a \in Actors, UNCHANGED <<mov, item, runs, reopened>>, TypeOK',
         \A m \in Movs : lock'[m] # lock[m] => {lock[m], lock'[m]} \subseteq {NoUser, a},
         \A b \in Actors : b # a => SessionUntouched(b),
         RequestAt(a)', \A m \in Movs : LoadedAt(a, m)' /\ TouchedAt(a, m)'
  PROVE  IInv' /\ RowsAdvance
<1>1. /\ UndecidedIsClean' /\ AcceptedIsComplete' /\ ItemFollowsDecision' /\ ItemInv'
      /\ RowsAdvance /\ RunInv'
  BY RowsUntouched, RunsUntouched DEF runs
<1>2. ASSUME NEW b \in Actors, b # a
      PROVE  RequestAt(b)' /\ \A m \in Movs : LoadedAt(b, m)' /\ TouchedAt(b, m)'
  <2>1. \A m \in Movs : lock[m] = b => lock'[m] = b /\ item'[m] = item[m]
    BY <1>2, ActorsAreNamed
  <2>2. QED BY <1>1, <1>2, <2>1, SessionsOfOthers
<1>3. SessionInv'
  BY <1>2 DEF SessionInv
<1>4. QED BY <1>1, <1>3 DEF IInv

LEMMA ListsAreTyped ==
  /\ \A list \in Lists : list \in Seq(TodoRows)
  /\ \A list \in BulkLists : list \in Seq(TodoRows)
<1>1. Movs \X {[act |-> "reject", acc |-> NoAccount]} \subseteq TodoRows
  BY DEF TodoRows, Decisions
<1>2. \A n \in 1..MaxRows : [1..n -> TodoRows] \subseteq Seq(TodoRows)
  BY MovimentosAssumption
<1>3. \A n \in 1..MaxRows :
        [1..n -> Movs \X {[act |-> "reject", acc |-> NoAccount]}] \subseteq Seq(TodoRows)
  BY <1>1, MovimentosAssumption
<1>4. QED BY <1>2, <1>3 DEF Lists, BulkLists

LEMMA StartKeeps ==
  ASSUME IInv, NEW a \in Actors, NEW k, NEW list \in Seq(TodoRows), Start(a, k, list)
  PROVE  IInv' /\ RowsAdvance
<1> USE DEF Start, rows
<1>0. kind[a] = "idle" /\ (\A m \in Movs : ~Loaded(a, m)) /\ at[a] = NoMov
  BY DEF IInv, TypeOK, SessionInv, RequestAt
<1>1. TypeOK'
  BY DEF IInv, TypeOK, DecidedNow, runs
<1>2. \A b \in Actors : b # a => SessionUntouched(b)
  BY DEF IInv, TypeOK, SessionUntouched
<1>3. RequestAt(a)'
  BY <1>0, MovimentosAssumption DEF IInv, TypeOK, RequestAt, Loaded, DecidedNow
<1>4. ASSUME NEW m \in Movs PROVE LoadedAt(a, m)' /\ TouchedAt(a, m)'
  BY <1>0 DEF IInv, SessionInv, LoadedAt, TouchedAt, Loaded
<1>5. UNCHANGED <<mov, item, lock, runs, reopened>>
  OBVIOUS
<1> HIDE DEF Start
<1>6. QED BY <1>1, <1>2, <1>3, <1>4, <1>5, OneSessionMoves

(* A movement of the queue of a that is loaded and undecided is the one in *)
(* process.                                                                *)
LEMMA LoadedIsDecided ==
  ASSUME IInv, NEW a \in Actors, NEW m \in Movs, Loaded(a, m), at[a] # m
  PROVE  work[a][m].status \in Decided
<1>1. LoadedAt(a, m)
  BY DEF IInv, SessionInv
<1>2. base[a][m] \in Movements /\ Clean(base[a][m]) /\ DecidedFrom(work[a][m], base[a][m])
  BY <1>1 DEF LoadedAt
<1>3. QED BY <1>2, DecisionsDecide

(* The row in process, when there is one.                                  *)
LEMMA RowInProcess ==
  ASSUME IInv, NEW a \in Actors, todo[a] # <<>>
  PROVE  /\ Mov(a) \in Movs /\ Dec(a) \in Decisions
         /\ Tail(todo[a]) \in Seq(TodoRows)
<1>1. todo[a] \in Seq(TodoRows)
  BY DEF IInv, TypeOK
<1>2. Head(todo[a]) \in TodoRows /\ Tail(todo[a]) \in Seq(TodoRows)
  BY <1>1
<1>3. QED BY <1>2 DEF Mov, Dec, TodoRows

LEMMA StartReviewKeeps ==
  ASSUME IInv, NEW u \in Users, NEW m \in Movs, NEW d \in Decisions, StartReview(u, m, d)
  PROVE  IInv' /\ RowsAdvance
<1> USE DEF StartReview, rows
<1>0. /\ u \in Actors /\ m # NoMov
      /\ mov[m] \in Movements /\ mov[m] # NotLoaded
  BY ActorsAreNamed, LoadedRows DEF IInv, TypeOK
<1>1. /\ kind[u] = "idle" /\ (\A n \in Movs : ~Loaded(u, n)) /\ at[u] = NoMov
      /\ kind'[u] = "review" /\ todo'[u] # <<>> /\ at'[u] = m /\ late'[u] = DecidedNow
      /\ base'[u] = [base[u] EXCEPT ![m] = mov[m]]
      /\ work'[u] = [work[u] EXCEPT ![m] = mov[m]]
      /\ touched'[u] = touched[u]
  BY <1>0 DEF IInv, TypeOK, SessionInv, RequestAt
<1>2. work'[u][m] = mov[m] /\ base'[u][m] = mov[m]
      /\ \A n \in Movs \ {m} : work'[u][n] = work[u][n]
  BY <1>0, <1>1 DEF IInv, TypeOK
<1>3. TypeOK'
  <2>1. <<<<m, d>>>> \in Seq(TodoRows)
    BY DEF TodoRows
  <2>2. QED BY <1>0, <2>1 DEF IInv, TypeOK, DecidedNow, runs
<1>4. \A b \in Actors : b # u => SessionUntouched(b)
  BY DEF IInv, TypeOK, SessionUntouched
<1>11. UNCHANGED <<mov, item, lock, runs, reopened>> /\ Reviewable(mov[m])
  OBVIOUS
<1> HIDE DEF StartReview
<1>5. RequestAt(u)'
  BY <1>0, <1>1, <1>2, <1>11 DEF RequestAt, Loaded, DecidedNow
<1>6. TouchedAt(u, m)'
  BY <1>0, <1>1, <1>2, <1>11 DEF IInv, SessionInv, TouchedAt, Loaded
<1>7. mov[m].status \in Undecided /\ mov[m].status # "pendente" /\ m \notin DecidedNow
  BY <1>11 DEF Reviewable, Undecided, DecidedNow, Decided, Accepted
<1>8. Clean(mov[m])
  BY <1>7 DEF IInv, UndecidedIsClean, Clean
<1>9. LoadedAt(u, m)'
  BY <1>0, <1>1, <1>2, <1>7, <1>8, <1>11 DEF LoadedAt, Loaded
<1>10. ASSUME NEW n \in Movs, n # m
       PROVE  LoadedAt(u, n)' /\ TouchedAt(u, n)'
  <2>1. TouchedAt(u, n) /\ ~Loaded(u, n)
    BY <1>0, <1>1 DEF IInv, SessionInv
  <2>2. ~Loaded(u, n)' /\ touched'[u][n] = touched[u][n]
    BY <1>1, <1>2, <1>10, <2>1 DEF Loaded
  <2>3. QED BY <1>11, <2>1, <2>2 DEF LoadedAt, TouchedAt
<1>12. QED BY <1>0, <1>3, <1>4, <1>5, <1>6, <1>9, <1>10, <1>11, OneSessionMoves

LEMMA RollbackKeeps ==
  ASSUME IInv, NEW a \in Actors, Rollback(a)
  PROVE  IInv' /\ RowsAdvance
<1> USE DEF Rollback, Ends
<1>1. /\ kind'[a] = "idle" /\ todo'[a] = <<>> /\ at'[a] = NoMov /\ late'[a] = {}
      /\ \A m \in Movs : work'[a][m] = NotLoaded /\ touched'[a][m] = Untouched
  BY DEF IInv, TypeOK
<1>2. TypeOK'
  BY DEF IInv, TypeOK, runs
<1>3. \A b \in Actors : b # a => SessionUntouched(b)
  BY DEF IInv, TypeOK, SessionUntouched
<1>4. RequestAt(a)' /\ \A m \in Movs : LoadedAt(a, m)' /\ TouchedAt(a, m)'
  BY <1>1 DEF RequestAt, LoadedAt, TouchedAt, Loaded
<1>5. \A m \in Movs : lock'[m] # lock[m] => {lock[m], lock'[m]} \subseteq {NoUser, a}
  OBVIOUS
<1>6. UNCHANGED <<mov, item, runs, reopened>>
  OBVIOUS
<1> HIDE DEF Rollback
<1>7. QED BY <1>2, <1>3, <1>4, <1>5, <1>6, OneSessionMoves

LEMMA PassChecksKeeps ==
  ASSUME IInv, NEW a \in Actors, PassChecks(a)
  PROVE  IInv' /\ RowsAdvance
<1> USE DEF PassChecks, AtRow, rows
<1> PICK m \in Movs : m = Mov(a)
  BY RowInProcess
<1>0. mov[m] \in Movements /\ mov[m] # NotLoaded /\ m # NoMov
  BY ActorsAreNamed, LoadedRows DEF IInv, TypeOK
<1>1. ~Loaded(a, m) /\ Reviewable(mov[m])
  <2>1. Reviewable(InSession(a)) /\ at[a] # m
    BY <1>0 DEF MayPass
  <2>2. ~Loaded(a, m)
    BY <1>0, <2>1, LoadedIsDecided DEF InSession, Loaded, Reviewable, Decided, Accepted
  <2>3. QED BY <2>1, <2>2 DEF InSession, Loaded
<1>2. /\ kind[a] = "sheet" /\ kind'[a] = "sheet" /\ todo'[a] = todo[a] /\ todo[a] # <<>>
      /\ at[a] = NoMov /\ at'[a] = m /\ late'[a] = late[a] /\ touched'[a] = touched[a]
      /\ work'[a][m] = mov[m] /\ base'[a][m] = mov[m]
      /\ \A n \in Movs \ {m} : work'[a][n] = work[a][n] /\ base'[a][n] = base[a][n]
  BY <1>0 DEF IInv, TypeOK
<1>3. TypeOK'
  BY <1>0 DEF IInv, TypeOK, runs
<1>4. \A b \in Actors : b # a => SessionUntouched(b)
  BY DEF IInv, TypeOK, SessionUntouched
<1>12. UNCHANGED <<mov, item, lock, runs, reopened>>
  OBVIOUS
<1> HIDE DEF PassChecks
<1>5. RequestAt(a) /\ TouchedAt(a, m)
  BY <1>0 DEF IInv, SessionInv
<1>6. RequestAt(a)'
  BY <1>0, <1>2, <1>5, <1>12 DEF RequestAt, Loaded
<1>7. TouchedAt(a, m)'
  BY <1>1, <1>2, <1>5, <1>12 DEF TouchedAt, Loaded
<1>8. mov[m].status \in Undecided /\ mov[m].status # "pendente" /\ m \notin late[a]
  BY <1>1, <1>5 DEF Reviewable, Undecided, RequestAt, Decided, Accepted
<1>9. Clean(mov[m])
  BY <1>0, <1>8 DEF IInv, UndecidedIsClean, Clean
<1>10. LoadedAt(a, m)'
  BY <1>0, <1>1, <1>2, <1>8, <1>9, <1>12 DEF LoadedAt, Loaded
<1>11. ASSUME NEW n \in Movs, n # m
       PROVE  LoadedAt(a, n)' /\ TouchedAt(a, n)'
  <2>1. LoadedAt(a, n) /\ TouchedAt(a, n)
    BY DEF IInv, SessionInv
  <2>2. /\ work'[a][n] = work[a][n] /\ base'[a][n] = base[a][n]
        /\ late'[a] = late[a] /\ touched'[a][n] = touched[a][n]
        /\ at[a] # n /\ at'[a] # n
    BY <1>0, <1>2, <1>11, ActorsAreNamed
  <2>3. LoadedAt(a, n)'
    BY <1>12, <2>1, <2>2 DEF LoadedAt, Loaded, ItemOf
  <2>4. TouchedAt(a, n)'
    BY <1>12, <2>1, <2>2 DEF TouchedAt, Loaded
  <2>5. QED BY <2>3, <2>4
<1>13. QED BY <1>3, <1>4, <1>6, <1>7, <1>10, <1>11, <1>12, OneSessionMoves

(* A row that is passed over.                                              *)
LEMMA PassedOverKeeps ==
  ASSUME IInv, NEW a \in Actors, SkipRow(a) \/ BulkPasses(a)
  PROVE  IInv' /\ RowsAdvance
<1> USE DEF SkipRow, BulkPasses, AtRow, NextRow, rows
<1>1. /\ kind'[a] = kind[a] /\ at[a] = NoMov /\ at'[a] = NoMov /\ late'[a] = late[a]
      /\ work'[a] = work[a] /\ base'[a] = base[a] /\ touched'[a] = touched[a]
      /\ Tail(todo[a]) \in Seq(TodoRows)
  BY RowInProcess DEF IInv, TypeOK
<1>2. TypeOK'
  BY <1>1 DEF IInv, TypeOK, runs
<1>3. \A b \in Actors : b # a => SessionUntouched(b)
  BY DEF IInv, TypeOK, SessionUntouched
<1>4. RequestAt(a)'
  BY <1>1 DEF IInv, SessionInv, RequestAt, Loaded
<1>5. \A m \in Movs : LoadedAt(a, m)' /\ TouchedAt(a, m)'
  BY <1>1 DEF IInv, SessionInv, LoadedAt, TouchedAt, Loaded, ItemOf
<1>6. UNCHANGED <<mov, item, lock, runs, reopened>>
  OBVIOUS
<1> HIDE DEF SkipRow, BulkPasses
<1>7. QED BY <1>2, <1>3, <1>4, <1>5, <1>6, OneSessionMoves

LEMMA DecideKeeps ==
  ASSUME IInv, NEW a \in Actors, Decide(a)
  PROVE  IInv' /\ RowsAdvance
<1> USE DEF Decide, NextRow
<1> PICK m \in Movs : m = at[a]
  BY DEF IInv, TypeOK
<1>1. /\ m # NoMov /\ lock[m] \in {NoUser, a}
      /\ item[m] # Absent => lock'[m] = a
      /\ item[m] = Absent => lock'[m] = lock[m]
      /\ \A n \in Movs \ {m} : lock'[n] = lock[n]
      /\ lock' \in [Movs -> Actors \cup {NoUser}]
  BY DEF Locks, IInv, TypeOK
<1>2. LoadedAt(a, m) /\ TouchedAt(a, m) /\ Loaded(a, m) /\ RequestAt(a) /\ todo[a] # <<>>
  BY <1>1 DEF IInv, SessionInv, RequestAt
<1>3. /\ work[a][m] = base[a][m] /\ base[a][m] \in Movements /\ Clean(base[a][m])
      /\ Dec(a) \in Decisions /\ Tail(todo[a]) \in Seq(TodoRows)
  BY <1>2, RowInProcess DEF LoadedAt
<1> DEFINE made == Reviewed(work[a][m], Dec(a))
<1>4. DecidedFrom(made, base[a][m]) /\ made \in Movements /\ made # NotLoaded
  <2>1. DecidedFrom(made, base[a][m])
    BY <1>3 DEF DecidedFrom
  <2>2. QED BY <1>3, <2>1, DecisionsDecide, LoadedRows
<1> HIDE DEF made
<1>5. /\ kind'[a] = kind[a] /\ at[a] = m /\ at'[a] = NoMov /\ late'[a] = late[a]
      /\ base'[a] = base[a] /\ work'[a][m] = made
      /\ \A n \in Movs \ {m} : work'[a][n] = work[a][n]
      /\ UNCHANGED <<mov, item, runs, reopened>>
  BY DEF IInv, TypeOK, made
<1>6. /\ IF NeedsClaim(a, m) THEN touched'[a] = [touched[a] EXCEPT ![m] = Finished("resolved")]
         ELSE touched'[a] = touched[a]
      /\ NeedsClaim(a, m) => a \in Users
  BY DEF IInv, TypeOK, ItemLeft, CanClaim
<1>7. TypeOK'
  <2>1. touched' \in [Actors -> [Movs -> Rows \cup {Untouched}]]
    BY ItemRows DEF IInv, TypeOK, ItemLeft
  <2>2. work' \in [Actors -> [Movs -> Movements \cup {NotLoaded}]]
    BY <1>4 DEF IInv, TypeOK, made
  <2>3. QED BY <1>1, <1>3, <2>1, <2>2 DEF IInv, TypeOK, runs
<1>8. \A b \in Actors : b # a => SessionUntouched(b)
  BY DEF IInv, TypeOK, SessionUntouched
<1>9. \A n \in Movs : lock'[n] # lock[n] => {lock[n], lock'[n]} \subseteq {NoUser, a}
  BY <1>1
<1> HIDE DEF Decide, NextRow
<1>10. RequestAt(a)'
  BY <1>2, <1>5 DEF RequestAt, Loaded
<1>11. item[m] \in Rows /\ touched[a] \in [Movs -> Rows \cup {Untouched}]
  BY DEF IInv, TypeOK
<1>12. \A n \in Movs \ {m} : touched'[a][n] = touched[a][n]
  BY <1>6, <1>11
<1>13. LoadedAt(a, m)' /\ TouchedAt(a, m)'
  <2>1. CASE NeedsClaim(a, m)
    <3>1. touched'[a][m] = Finished("resolved") /\ touched'[a][m] # Untouched
      BY <1>6, <1>11, <2>1, ItemRows, LoadedRows
    <3>2. Open(item[m]) /\ item[m] # Absent
      BY <1>2, <1>11, <2>1, ItemRows DEF NeedsClaim, ItemOf, TouchedAt
    <3>3. TouchedAt(a, m)'
      BY <1>1, <1>4, <1>5, <1>6, <2>1, <3>1, <3>2 DEF TouchedAt, Loaded
    <3>4. ~Open(ItemOf(a, m)')
      BY <3>1, ItemRows DEF ItemOf, Conclusions
    <3>5. LoadedAt(a, m)'
      BY <1>1, <1>2, <1>4, <1>5, <3>4 DEF LoadedAt, Loaded
    <3>6. QED BY <3>3, <3>5
  <2>2. CASE ~NeedsClaim(a, m)
    <3>1. touched'[a][m] = touched[a][m]
      BY <1>6, <2>2
    <3>2. ~Open(ItemOf(a, m)')
      BY <1>5, <2>2, <3>1 DEF NeedsClaim, ItemOf
    <3>3. TouchedAt(a, m)'
      BY <1>1, <1>2, <1>4, <1>5, <1>11, <3>1, ItemRows DEF TouchedAt, Loaded
    <3>4. LoadedAt(a, m)'
      BY <1>1, <1>2, <1>4, <1>5, <3>2 DEF LoadedAt, Loaded
    <3>5. QED BY <3>3, <3>4
  <2>3. QED BY <2>1, <2>2
<1>14. ASSUME NEW n \in Movs, n # m
       PROVE  LoadedAt(a, n)' /\ TouchedAt(a, n)'
  <2>1. LoadedAt(a, n) /\ TouchedAt(a, n)
    BY DEF IInv, SessionInv
  <2>2. /\ work'[a][n] = work[a][n] /\ base'[a][n] = base[a][n]
        /\ touched'[a][n] = touched[a][n] /\ lock'[n] = lock[n]
        /\ at[a] # n /\ at'[a] # n
    BY <1>1, <1>5, <1>12, <1>14, ActorsAreNamed
  <2>3. LoadedAt(a, n)'
    BY <1>5, <2>1, <2>2 DEF LoadedAt, Loaded, ItemOf
  <2>4. TouchedAt(a, n)'
    BY <1>5, <2>1, <2>2 DEF TouchedAt, Loaded
  <2>5. QED BY <2>3, <2>4
<1>15. QED BY <1>5, <1>7, <1>8, <1>9, <1>10, <1>13, <1>14, OneSessionMoves

LEMMA RowInvalidKeeps ==
  ASSUME IInv, NEW a \in Actors, RowInvalid(a)
  PROVE  IInv' /\ RowsAdvance
<1> USE DEF RowInvalid, NextRow
<1> PICK m \in Movs : m = at[a]
  BY DEF IInv, TypeOK
<1>1. /\ m # NoMov /\ lock[m] \in {NoUser, a}
      /\ item[m] # Absent => lock'[m] = a
      /\ item[m] = Absent => lock'[m] = lock[m]
      /\ \A n \in Movs \ {m} : lock'[n] = lock[n]
      /\ lock' \in [Movs -> Actors \cup {NoUser}]
  BY DEF Locks, IInv, TypeOK
<1>2. LoadedAt(a, m) /\ TouchedAt(a, m) /\ Loaded(a, m) /\ RequestAt(a) /\ todo[a] # <<>>
  BY <1>1 DEF IInv, SessionInv, RequestAt
<1>3. Tail(todo[a]) \in Seq(TodoRows)
  BY <1>2, RowInProcess
<1>4. item[m] \in Rows /\ touched[a] \in [Movs -> Rows \cup {Untouched}]
  BY DEF IInv, TypeOK
<1>5. /\ kind'[a] = kind[a] /\ at[a] = m /\ at'[a] = NoMov /\ late'[a] = late[a]
      /\ work'[a][m] = NotLoaded /\ base'[a][m] = NotLoaded
      /\ \A n \in Movs \ {m} : work'[a][n] = work[a][n] /\ base'[a][n] = base[a][n]
      /\ UNCHANGED <<mov, item, runs, reopened>>
  BY DEF IInv, TypeOK
<1>6. \/ touched' = touched
      \/ /\ touched' = [touched EXCEPT ![a][m] = Claimed(a)]
         /\ NeedsClaim(a, m) /\ a \in Users
  BY DEF ItemRefused, CanClaim, ItemLeft
<1>7. /\ \A n \in Movs \ {m} : touched'[a][n] = touched[a][n]
      /\ \/ touched'[a][m] = touched[a][m]
         \/ touched'[a][m] = Claimed(a) /\ NeedsClaim(a, m) /\ a \in Users
  BY <1>6 DEF IInv, TypeOK
<1>8. TypeOK'
  <2>1. touched' \in [Actors -> [Movs -> Rows \cup {Untouched}]]
    <3>1. touched \in [Actors -> [Movs -> Rows \cup {Untouched}]]
      BY DEF IInv, TypeOK
    <3>2. a \in Users => Claimed(a) \in Rows
      BY ItemRows
    <3> HIDE DEF RowInvalid
    <3>3. QED BY <1>6, <3>1, <3>2
  <2>2. QED BY <1>1, <1>3, <2>1 DEF IInv, TypeOK, runs
<1>9. \A b \in Actors : b # a => SessionUntouched(b)
  BY <1>6 DEF IInv, TypeOK, SessionUntouched
<1>10. \A n \in Movs : lock'[n] # lock[n] => {lock[n], lock'[n]} \subseteq {NoUser, a}
  BY <1>1
<1> HIDE DEF RowInvalid, NextRow
<1>11. RequestAt(a)'
  BY <1>2, <1>5 DEF RequestAt, Loaded
<1>12. LoadedAt(a, m)'
  BY <1>5 DEF LoadedAt, Loaded
<1>13. TouchedAt(a, m)'
  <2>1. touched[a][m] # Finished("resolved")
    BY <1>2, <1>4, <1>5, ItemRows, LoadedRows DEF TouchedAt
  <2>2. CASE touched'[a][m] = touched[a][m]
    BY <1>1, <1>2, <1>4, <1>5, <2>1, <2>2, ItemRows DEF TouchedAt
  <2>3. CASE touched'[a][m] = Claimed(a) /\ NeedsClaim(a, m) /\ a \in Users
    <3>1. Open(item[m]) /\ item[m] # Absent
      BY <1>2, <1>4, <2>3, ItemRows DEF NeedsClaim, ItemOf, TouchedAt
    <3>2. QED BY <1>1, <1>5, <2>3, <3>1, ItemRows DEF TouchedAt
  <2>4. QED BY <1>7, <2>2, <2>3
<1>14. ASSUME NEW n \in Movs, n # m
       PROVE  LoadedAt(a, n)' /\ TouchedAt(a, n)'
  <2>1. LoadedAt(a, n) /\ TouchedAt(a, n)
    BY DEF IInv, SessionInv
  <2>2. /\ work'[a][n] = work[a][n] /\ base'[a][n] = base[a][n]
        /\ touched'[a][n] = touched[a][n] /\ lock'[n] = lock[n]
        /\ at[a] # n /\ at'[a] # n
    BY <1>1, <1>5, <1>7, <1>14, ActorsAreNamed
  <2>3. LoadedAt(a, n)'
    BY <1>5, <2>1, <2>2 DEF LoadedAt, Loaded, ItemOf
  <2>4. TouchedAt(a, n)'
    BY <1>5, <2>1, <2>2 DEF TouchedAt, Loaded
  <2>5. QED BY <2>3, <2>4
<1>15. QED BY <1>5, <1>8, <1>9, <1>10, <1>11, <1>12, <1>13, <1>14, OneSessionMoves

LEMMA BulkApprovesKeeps ==
  ASSUME IInv, NEW a \in Actors, BulkApproves(a)
  PROVE  IInv' /\ RowsAdvance
<1> USE DEF BulkApproves, AtRow, NextRow, rows
<1> PICK m \in Movs : m = Mov(a)
  BY RowInProcess
<1>1. mov[m] \in Movements /\ m # NoMov /\ at[a] = NoMov /\ Tail(todo[a]) \in Seq(TodoRows)
  BY ActorsAreNamed, RowInProcess DEF IInv, TypeOK
<1>2. PICK acc : /\ acc = BulkAccount(m, InSession(a)) /\ acc # NoAccount
                 /\ ~InSession(a).msgs
                 /\ base' = [base EXCEPT ![a][m] = InSession(a)]
                 /\ work' = [work EXCEPT ![a][m] = BulkApproved(InSession(a), acc)]
  OBVIOUS
<1>3. InSession(a).status \in {"pre_classificado", "sugerido"}
  BY <1>2 DEF BulkAccount
<1>4. ~Loaded(a, m) /\ InSession(a) = mov[m]
  BY <1>1, <1>3, LoadedIsDecided DEF InSession, Loaded, Decided, Accepted
<1>5. acc \in Accounts
  BY <1>1, <1>2, <1>3, <1>4, MovimentosAssumption DEF BulkAccount, Movements
<1> DEFINE made == BulkApproved(mov[m], acc)
<1>6. mov[m].status \in Undecided /\ mov[m].status # "pendente" /\ Reviewable(mov[m])
  BY <1>3, <1>4 DEF Undecided, Reviewable
<1>7. Clean(mov[m])
  BY <1>6 DEF IInv, UndecidedIsClean, Clean
<1>8. DecidedFrom(made, mov[m]) /\ made \in Movements /\ made # NotLoaded
  <2>1. DecidedFrom(made, mov[m])
    BY <1>5 DEF DecidedFrom
  <2>2. QED BY <1>1, <1>7, <2>1, DecisionsDecide, LoadedRows
<1>9. item[m] = Absent
  BY <1>2, <1>4 DEF IInv, ItemInv
<1> HIDE DEF made
<1>10. /\ kind'[a] = kind[a] /\ at'[a] = NoMov /\ late'[a] = late[a]
       /\ touched'[a] = touched[a] /\ base'[a][m] = mov[m] /\ work'[a][m] = made
       /\ \A n \in Movs \ {m} : work'[a][n] = work[a][n] /\ base'[a][n] = base[a][n]
       /\ kind[a] = "bulk" /\ UNCHANGED <<mov, item, lock, runs, reopened>>
  BY <1>1, <1>2, <1>4 DEF IInv, TypeOK, made
<1>11. TypeOK'
  <2>1. base' \in [Actors -> [Movs -> Movements \cup {NotLoaded}]]
    BY <1>1, <1>2, <1>4 DEF IInv, TypeOK
  <2>2. work' \in [Actors -> [Movs -> Movements \cup {NotLoaded}]]
    BY <1>2, <1>4, <1>8 DEF IInv, TypeOK, made
  <2>3. QED BY <1>1, <2>1, <2>2 DEF IInv, TypeOK, runs
<1>12. \A b \in Actors : b # a => SessionUntouched(b)
  BY <1>2 DEF IInv, TypeOK, SessionUntouched
<1> HIDE DEF BulkApproves
<1>13. RequestAt(a)'
  BY <1>1, <1>10 DEF IInv, SessionInv, RequestAt, Loaded
<1>14. TouchedAt(a, m) /\ RequestAt(a)
  BY DEF IInv, SessionInv
<1>15. touched[a][m] = Untouched
  BY <1>9, <1>14, ItemRows DEF TouchedAt
<1>16. LoadedAt(a, m)' /\ TouchedAt(a, m)'
  <2>1. m \notin late[a]
    BY <1>6, <1>14 DEF RequestAt, Undecided, Decided, Accepted
  <2>2. ~Open(ItemOf(a, m)') /\ item'[m] = Absent
    BY <1>9, <1>10, <1>15, ItemRows DEF ItemOf
  <2>3. LoadedAt(a, m)'
    BY <1>1, <1>6, <1>7, <1>8, <1>10, <2>1, <2>2 DEF LoadedAt, Loaded
  <2>4. QED BY <1>10, <1>15, <2>3 DEF TouchedAt
<1>17. ASSUME NEW n \in Movs, n # m
       PROVE  LoadedAt(a, n)' /\ TouchedAt(a, n)'
  <2>1. LoadedAt(a, n) /\ TouchedAt(a, n)
    BY DEF IInv, SessionInv
  <2>2. /\ work'[a][n] = work[a][n] /\ base'[a][n] = base[a][n]
        /\ touched'[a][n] = touched[a][n]
        /\ at[a] # n /\ at'[a] # n
    BY <1>1, <1>10, <1>17, ActorsAreNamed
  <2>3. LoadedAt(a, n)'
    BY <1>10, <2>1, <2>2 DEF LoadedAt, Loaded, ItemOf
  <2>4. TouchedAt(a, n)'
    BY <1>10, <2>1, <2>2 DEF TouchedAt, Loaded
  <2>5. QED BY <2>3, <2>4
<1>18. QED BY <1>10, <1>11, <1>12, <1>13, <1>16, <1>17, OneSessionMoves

(* A commit writes the movements the request decided, column by column,    *)
(* with their items.                                                       *)
CommittedRow(a, m) == IF ~Loaded(a, m) THEN mov[m] ELSE Merge(mov[m], base[a][m], work[a][m])

LEMMA CommittedRows ==
  ASSUME IInv, NEW a \in Actors, at[a] = NoMov, NEW m \in Movs
  PROVE  /\ CommittedRow(a, m) \in Movements
         /\ Loaded(a, m) => CommittedRow(a, m).status \in Decided
         /\ CommittedRow(a, m).status \in Accepted =>
              CommittedRow(a, m).final # NoAccount /\ CommittedRow(a, m).elig
         /\ CommittedRow(a, m).sug = mov[m].sug
         /\ CommittedRow(a, m).msgs = mov[m].msgs
<1>0. mov[m] \in Movements
  BY DEF IInv, TypeOK
<1>1. CASE ~Loaded(a, m)
  BY <1>0, <1>1 DEF CommittedRow, IInv, AcceptedIsComplete
<1>2. CASE Loaded(a, m)
  <2> DEFINE loaded == base[a][m]
             made == work[a][m]
             row == CommittedRow(a, m)
  <2>1. LoadedAt(a, m) /\ at[a] # m
    BY ActorsAreNamed DEF IInv, SessionInv
  <2>2. loaded \in Movements /\ Clean(loaded) /\ DecidedFrom(made, loaded)
        /\ mov[m].sug = loaded.sug /\ mov[m].msgs = loaded.msgs
    BY <1>2, <2>1 DEF LoadedAt
  <2>3. /\ made \in Movements /\ made.status \in Decided
        /\ made.sug = loaded.sug /\ made.msgs = loaded.msgs
        /\ made.status \in Accepted => made.final \in Accounts /\ made.elig
    BY <2>2, DecisionsDecide
  <2>4. row = Merge(mov[m], loaded, made)
    BY <1>2 DEF CommittedRow
  <2>5. made.status # loaded.status
    BY <2>2, <2>3 DEF Clean, Undecided, Decided, Accepted
  <2>6. loaded.final = NoAccount /\ ~loaded.elig
    BY <2>2 DEF Clean
  <2> HIDE DEF loaded, made, row
  <2>7. /\ row \in Movements /\ row.status = made.status
        /\ row.sug = mov[m].sug /\ row.msgs = mov[m].msgs
        /\ row.final = IF made.final # loaded.final THEN made.final ELSE mov[m].final
        /\ row.elig = IF made.elig # loaded.elig THEN made.elig ELSE mov[m].elig
    BY <1>0, <2>2, <2>3, <2>4, <2>5, MergeIsByColumn
  <2>8. made.status \in Accepted => row.final # NoAccount /\ row.elig
    BY <2>3, <2>6, <2>7, ActorsAreNamed
  <2>9. QED BY <2>3, <2>7, <2>8 DEF row
<1>3. QED BY <1>1, <1>2

LEMMA CommitKeeps ==
  ASSUME IInv, NEW a \in Actors, Commit(a)
  PROVE  IInv' /\ RowsAdvance
<1>0. at[a] = NoMov
  BY DEF IInv, TypeOK, SessionInv, RequestAt, Commit
<1>1. /\ \A m \in Movs : mov'[m] = CommittedRow(a, m) /\ item'[m] = ItemOf(a, m)
                         /\ lock'[m] = IF lock[m] = a THEN NoUser ELSE lock[m]
      /\ mov' = [m \in Movs |-> CommittedRow(a, m)] /\ item' = [m \in Movs |-> ItemOf(a, m)]
      /\ UNCHANGED <<sheet, runs, reopened>>
  BY DEF Commit, Ends, CommittedRow, ItemOf, Loaded
<1>2. /\ kind'[a] = "idle" /\ todo'[a] = <<>> /\ at'[a] = NoMov /\ late'[a] = {}
      /\ \A m \in Movs : work'[a][m] = NotLoaded /\ touched'[a][m] = Untouched
  BY DEF IInv, TypeOK, Commit, Ends
<1>3. ASSUME NEW m \in Movs
      PROVE  /\ mov[m] \in Movements /\ item[m] \in Rows /\ ItemOf(a, m) \in Rows
             /\ LoadedAt(a, m) /\ TouchedAt(a, m) /\ at[a] # m
  BY <1>0, ActorsAreNamed DEF IInv, TypeOK, SessionInv, ItemOf
<1>4. TypeOK'
  <2>1. mov' \in [Movs -> Movements] /\ item' \in [Movs -> Rows]
    BY <1>0, <1>1, <1>3, CommittedRows
  <2>2. QED BY <1>1, <2>1 DEF IInv, TypeOK, Commit, Ends, runs
<1>5. \A m \in Movs : Loaded(a, m) => mov[m].status # "pendente"
  BY <1>3 DEF LoadedAt
<1>6. RowsAdvance
  <2>1. ASSUME NEW m \in Movs, mov[m].status \in Decided
        PROVE  mov'[m].status \in Decided
    BY <1>0, <1>1, <2>1, CommittedRows DEF CommittedRow
  <2>2. ASSUME NEW m \in Movs, mov[m].status # "pendente"
        PROVE  /\ mov'[m].status # "pendente"
               /\ mov'[m].sug = mov[m].sug
               /\ mov'[m].msgs = mov[m].msgs
    <3>1. mov'[m].sug = mov[m].sug /\ mov'[m].msgs = mov[m].msgs
      BY <1>0, <1>1, CommittedRows
    <3>2. CASE Loaded(a, m)
      <4>1. mov'[m].status \in Decided
        BY <1>0, <1>1, <3>2, CommittedRows
      <4>2. QED BY <3>1, <4>1 DEF Decided, Accepted
    <3>3. CASE ~Loaded(a, m)
      BY <1>1, <2>2, <3>1, <3>3 DEF CommittedRow
    <3>4. QED BY <3>2, <3>3
  <2>3. ASSUME NEW m \in Movs, item[m] = Absent
        PROVE  item'[m] = Absent
    <3>1. touched[a][m] = Untouched
      BY <1>3, <2>3, ItemRows DEF TouchedAt
    <3>2. QED BY <1>1, <2>3, <3>1 DEF ItemOf
  <2>4. QED BY <2>1, <2>2, <2>3 DEF RowsAdvance
<1>7. UndecidedIsClean'
  <2>1. ASSUME NEW m \in Movs, mov'[m].status \in Undecided
        PROVE  mov'[m].final = NoAccount /\ ~mov'[m].elig /\ mov'[m].ver = 1
    <3>1. ~Loaded(a, m)
      BY <1>0, <1>1, <2>1, CommittedRows DEF Undecided, Decided, Accepted
    <3>2. QED BY <1>1, <2>1, <3>1 DEF CommittedRow, IInv, UndecidedIsClean
  <2>2. QED BY <2>1 DEF UndecidedIsClean
<1>8. AcceptedIsComplete'
  BY <1>0, <1>1, CommittedRows DEF AcceptedIsComplete
<1>9. ItemFollowsDecision'
  <2>1. ASSUME NEW m \in Movs, item'[m].status = "resolved"
        PROVE  mov'[m].status \in Decided
    <3>1. CASE touched[a][m] = Untouched
      BY <1>1, <1>6, <2>1, <3>1 DEF ItemOf, IInv, ItemFollowsDecision, RowsAdvance
    <3>2. CASE touched[a][m] # Untouched
      <4>1. touched[a][m] = Finished("resolved")
        BY <1>1, <1>3, <2>1, <3>2, ItemRows DEF TouchedAt, ItemOf
      <4>2. Loaded(a, m)
        BY <1>3, <3>2, <4>1 DEF TouchedAt
      <4>3. QED BY <1>0, <1>1, <4>2, CommittedRows
    <3>3. QED BY <3>1, <3>2
  <2>2. ASSUME NEW m \in Movs, mov'[m].status \in Decided, Open(item'[m])
        PROVE  m \in reopened'
    <3>1. ~Loaded(a, m)
      BY <1>1, <1>3, <2>2 DEF LoadedAt
    <3>2. mov[m].status \in Decided
      BY <1>1, <2>2, <3>1 DEF CommittedRow
    <3>3. Open(item[m])
      BY <1>1, <1>3, <2>2 DEF TouchedAt, ItemOf
    <3>4. QED BY <1>1, <3>2, <3>3 DEF IInv, ItemFollowsDecision
  <2>3. QED BY <2>1, <2>2 DEF ItemFollowsDecision
<1>10. ItemInv'
  <2>1. ASSUME NEW m \in Movs, item'[m] # Absent
        PROVE  mov'[m].status # "pendente" /\ mov'[m].msgs
    <3>1. item[m] # Absent
      BY <1>1, <1>3, <2>1, ItemRows DEF TouchedAt, ItemOf
    <3>2. mov[m].status # "pendente" /\ mov[m].msgs
      BY <3>1 DEF IInv, ItemInv
    <3>3. QED BY <1>6, <3>2 DEF RowsAdvance
  <2>2. QED BY <2>1 DEF ItemInv
<1>11. RunInv'
  <2>1. ASSUME NEW w \in Workers, NEW m \in Movs, jobs[w][m] # NotLoaded
        PROVE  /\ Clean(jobs[w][m]) /\ jobs[w][m].status = "pendente"
               /\ owner = w => mov'[m] = jobs[w][m]
    <3>1. /\ Clean(jobs[w][m]) /\ jobs[w][m].status = "pendente"
          /\ owner = w => mov[m] = jobs[w][m]
      BY <2>1 DEF IInv, RunInv
    <3>2. ASSUME owner = w PROVE mov'[m] = jobs[w][m]
      <4>1. ~Loaded(a, m)
        BY <1>5, <3>1, <3>2
      <4>2. QED BY <1>1, <3>1, <3>2, <4>1 DEF CommittedRow
    <3>3. QED BY <3>1, <3>2
  <2>2. QED BY <1>1, <2>1 DEF RunInv, runs
<1>12. SessionInv'
  <2>1. RequestAt(a)' /\ \A m \in Movs : LoadedAt(a, m)' /\ TouchedAt(a, m)'
    BY <1>2 DEF RequestAt, LoadedAt, TouchedAt, Loaded
  <2>2. ASSUME NEW b \in Actors, b # a
        PROVE  RequestAt(b)' /\ \A m \in Movs : LoadedAt(b, m)' /\ TouchedAt(b, m)'
    <3>1. SessionUntouched(b)
      BY <2>2 DEF IInv, TypeOK, SessionUntouched, Commit, Ends
    <3>2. ASSUME NEW m \in Movs, lock[m] = b
          PROVE  lock'[m] = b /\ item'[m] = item[m]
      <4>1. touched[a][m] = Untouched
        BY <1>3, <2>2, <3>2 DEF TouchedAt
      <4>2. QED BY <1>1, <2>2, <3>2, <4>1 DEF ItemOf
    <3>3. QED BY <1>6, <3>1, <3>2, SessionsOfOthers
  <2>3. QED BY <2>1, <2>2 DEF SessionInv
<1>13. QED BY <1>4, <1>6, <1>7, <1>8, <1>9, <1>10, <1>11, <1>12 DEF IInv

(* A request that began after a decision writes nothing of that movement.  *)
LEMMA LateCommitsWriteNothing ==
  ASSUME IInv, NEW a \in Actors, NEW m \in late[a], Commit(a)
  PROVE  mov'[m] = mov[m]
<1>1. m \in Movs
  BY DEF IInv, TypeOK
<1>2. ~Loaded(a, m)
  BY <1>1 DEF IInv, SessionInv, LoadedAt
<1>3. QED BY <1>1, <1>2 DEF Commit, Loaded

-----------------------------------------------------------------------------
(* The steps of the classification job.                                    *)

(* A step that writes no movement, no item and no session.                 *)
LEMMA SessionsUntouched ==
  ASSUME IInv, RowsAdvance, UNCHANGED <<lock, requests>>,
         \A m \in Movs : item[m] # Absent => item'[m] = item[m]
  PROVE  SessionInv'
<1>1. ASSUME NEW a \in Actors
      PROVE  RequestAt(a)' /\ \A m \in Movs : LoadedAt(a, m)' /\ TouchedAt(a, m)'
  <2>1. SessionUntouched(a)
    BY DEF SessionUntouched, requests
  <2>2. \A m \in Movs : lock[m] = a =>
          lock'[m] = a /\ (item[m] # Absent => item'[m] = item[m])
    OBVIOUS
  <2>3. QED BY <2>1, <2>2, SessionsOfOthers
<1>2. QED BY <1>1 DEF SessionInv

LEMMA ExportKeeps ==
  ASSUME IInv, Export
  PROVE  IInv' /\ RowsAdvance
<1>1. UNCHANGED <<mov, item, lock, requests, runs, reopened>>
  BY DEF Export
<1>2. TypeOK'
  BY DEF IInv, TypeOK, Export, requests, runs
<1>3. QED
  BY <1>1, <1>2, RowsUntouched, RunsUntouched, SessionsUntouched DEF IInv, runs

LEMMA BeginRunKeeps ==
  ASSUME IInv, NEW w \in Workers, BeginRun(w)
  PROVE  IInv' /\ RowsAdvance
<1>1. PICK some \in SUBSET Movs :
        /\ \A m \in some : Pending(m)
        /\ jobs' = [jobs EXCEPT ![w] = [m \in Movs |-> IF m \in some THEN mov[m] ELSE NotLoaded]]
  BY DEF BeginRun
<1>2. UNCHANGED <<rows, requests, reopened>> /\ owner' = w
  BY DEF BeginRun
<1>3. TypeOK'
  BY <1>1, <1>2 DEF IInv, TypeOK, rows, requests
<1>4. RunInv'
  <2>1. ASSUME NEW v \in Workers, NEW m \in Movs, jobs'[v][m] # NotLoaded
        PROVE  /\ Clean(jobs'[v][m]) /\ jobs'[v][m].status = "pendente"
               /\ owner' = v => mov[m] = jobs'[v][m]
    <3>1. CASE v = w
      <4>1. Pending(m) /\ jobs'[v][m] = mov[m]
        BY <1>1, <2>1, <3>1 DEF IInv, TypeOK
      <4>2. Clean(mov[m])
        BY <4>1 DEF IInv, UndecidedIsClean, Clean, Pending, Undecided
      <4>3. QED BY <4>1, <4>2 DEF Pending
    <3>2. CASE v # w
      <4>1. jobs'[v] = jobs[v]
        BY <1>1, <3>2 DEF IInv, TypeOK
      <4>2. QED BY <1>2, <2>1, <3>2, <4>1 DEF IInv, RunInv
    <3>3. QED BY <3>1, <3>2
  <2>2. QED BY <1>2, <2>1 DEF RunInv, rows
<1>5. UNCHANGED <<mov, item, lock, requests, reopened>>
  BY <1>2 DEF rows
<1>6. QED
  BY <1>3, <1>4, <1>5, RowsUntouched, SessionsUntouched DEF IInv

LEMMA LoseRunKeeps ==
  ASSUME IInv, NEW w \in Workers, LoseRun(w)
  PROVE  IInv' /\ RowsAdvance
<1>1. /\ jobs' = [jobs EXCEPT ![w] = [m \in Movs |-> NotLoaded]]
      /\ owner' \in {owner, NoUser}
      /\ UNCHANGED <<mov, item, lock, requests, reopened>>
  BY DEF LoseRun, rows
<1>2. TypeOK'
  BY <1>1 DEF IInv, TypeOK, LoseRun, rows, requests
<1>3. RunInv'
  BY <1>1, ActorsAreNamed DEF IInv, TypeOK, RunInv
<1>4. QED
  BY <1>1, <1>2, <1>3, RowsUntouched, SessionsUntouched DEF IInv

(* The rows a run writes were pending when they are written.               *)
LEMMA PublishedRows ==
  ASSUME IInv, NEW w \in Workers, NEW m \in Movs, Owns(w), jobs[w][m] # NotLoaded,
         NEW row \in Movements, row.status \in {"sugerido", "revisao"},
         row.final = jobs[w][m].final, row.elig = jobs[w][m].elig, row.ver = jobs[w][m].ver
  PROVE  LET merged == Merge(mov[m], jobs[w][m], row) IN
         /\ mov[m].status = "pendente"
         /\ merged = row /\ Clean(merged)
<1>1. mov[m] = jobs[w][m] /\ mov[m].status = "pendente" /\ Clean(mov[m]) /\ mov[m] \in Movements
  BY DEF IInv, TypeOK, RunInv, Owns
<1> DEFINE cols == {"status", "sug", "final", "elig", "ver", "msgs"}
<1>2. DOMAIN mov[m] = cols /\ row = [c \in cols |-> row[c]]
  BY <1>1 DEF Movements
<1>3. Merge(mov[m], jobs[w][m], row) = row
  BY <1>1, <1>2 DEF Merge
<1>4. Clean(row)
  BY <1>1 DEF Clean, Undecided
<1>5. QED BY <1>1, <1>3, <1>4

LEMMA PublishRunKeeps ==
  ASSUME IInv, NEW w \in Workers, PublishRun(w)
  PROVE  IInv' /\ RowsAdvance
<1>0. Owns(w)
  BY DEF PublishRun
<1>1. PICK outcome \in [{m \in Movs : jobs[w][m] # NotLoaded} -> Accounts \cup {"ml", "temporal"}] :
       /\ mov' = [m \in Movs |->
            IF m \notin DOMAIN outcome THEN mov[m]
            ELSE Merge(mov[m], jobs[w][m],
                       IF outcome[m] \in Accounts THEN Suggested(jobs[w][m], outcome[m])
                       ELSE Abstained(jobs[w][m]))]
       /\ item' = [m \in Movs |->
            IF m \in DOMAIN outcome /\ outcome[m] = "ml" /\ item[m] = Absent
            THEN New ELSE item[m]]
  BY DEF PublishRun
<1>2. /\ jobs' = [jobs EXCEPT ![w] = [m \in Movs |-> NotLoaded]] /\ owner' = NoUser
      /\ UNCHANGED <<lock, sheet, requests, reopened>>
  BY DEF PublishRun
<1>3. ASSUME NEW m \in Movs, jobs[w][m] = NotLoaded
      PROVE  mov'[m] = mov[m] /\ item'[m] = item[m]
  BY <1>1, <1>3
<1>4. ASSUME NEW m \in Movs, jobs[w][m] # NotLoaded
      PROVE  /\ mov[m].status = "pendente"
             /\ mov'[m] \in Movements /\ mov'[m].status # "pendente" /\ Clean(mov'[m])
             /\ item[m] = Absent
             /\ item'[m] \in {Absent, New}
             /\ item'[m] # Absent => mov'[m].msgs
  <2> DEFINE row == IF outcome[m] \in Accounts THEN Suggested(jobs[w][m], outcome[m])
                    ELSE Abstained(jobs[w][m])
  <2>1. jobs[w][m] \in Movements
    BY <1>4 DEF IInv, TypeOK
  <2>2. /\ row \in Movements /\ row.status \in {"sugerido", "revisao"}
        /\ row.final = jobs[w][m].final /\ row.elig = jobs[w][m].elig
        /\ row.ver = jobs[w][m].ver
        /\ outcome[m] \notin Accounts => row.msgs
    BY <2>1 DEF Suggested, Abstained, Movements, Undecided
  <2>3. mov'[m] = Merge(mov[m], jobs[w][m], row)
    BY <1>1, <1>4
  <2>4. m \in DOMAIN outcome /\ (item[m] = Absent =>
          item'[m] = IF outcome[m] = "ml" THEN New ELSE Absent)
    BY <1>1, <1>4
  <2> HIDE DEF row
  <2>5. mov[m].status = "pendente" /\ mov'[m] = row /\ Clean(mov'[m])
    BY <1>0, <1>4, <2>2, <2>3, PublishedRows
  <2>6. item[m] = Absent
    BY <2>5 DEF IInv, ItemInv
  <2>7. item'[m] # Absent => mov'[m].msgs
    BY <2>2, <2>4, <2>5, <2>6, MovimentosAssumption
  <2>8. QED BY <2>2, <2>4, <2>5, <2>6, <2>7
<1>5. TypeOK'
  <2>1. mov' \in [Movs -> Movements]
    <3>1. \A m \in Movs : mov'[m] \in Movements
      BY <1>3, <1>4 DEF IInv, TypeOK
    <3>2. QED BY <1>1, <3>1
  <2>2. item' \in [Movs -> Rows]
    BY <1>1, ItemRows DEF IInv, TypeOK
  <2>3. QED BY <1>2, <2>1, <2>2 DEF IInv, TypeOK, requests
<1>6. RowsAdvance
  <2>1. ASSUME NEW m \in Movs, mov[m].status # "pendente"
        PROVE  mov'[m] = mov[m] /\ item'[m] = item[m]
    BY <1>3, <1>4, <2>1
  <2>2. QED BY <2>1 DEF RowsAdvance, Decided, Accepted
<1>7. UndecidedIsClean' /\ AcceptedIsComplete'
  <2>1. ASSUME NEW m \in Movs
        PROVE  \/ mov'[m] = mov[m]
               \/ Clean(mov'[m])
    BY <1>3, <1>4
  <2>2. QED BY <2>1 DEF IInv, UndecidedIsClean, AcceptedIsComplete, Clean, Undecided, Accepted
<1>8. ItemFollowsDecision'
  <2>1. ASSUME NEW m \in Movs, jobs[w][m] # NotLoaded
        PROVE  mov'[m].status \notin Decided /\ item'[m].status # "resolved"
    BY <1>4, <2>1 DEF Clean, Undecided, Decided, Accepted, Absent, New
  <2>2. QED BY <1>2, <1>3, <2>1 DEF IInv, ItemFollowsDecision
<1>9. ItemInv'
  BY <1>3, <1>4 DEF IInv, ItemInv
<1>10. RunInv'
  <2>1. ASSUME NEW v \in Workers, NEW m \in Movs, jobs'[v][m] # NotLoaded
        PROVE  jobs'[v][m] = jobs[v][m]
    BY <1>2, <2>1 DEF IInv, TypeOK
  <2>2. QED BY <1>2, <2>1, ActorsAreNamed DEF IInv, RunInv
<1>11. \A m \in Movs : item[m] # Absent => item'[m] = item[m]
  BY <1>3, <1>4
<1>12. QED
  BY <1>2, <1>5, <1>6, <1>7, <1>8, <1>9, <1>10, <1>11, SessionsUntouched DEF IInv

-----------------------------------------------------------------------------
(* Every step: the invariant is kept, the rows only advance, and requests  *)
(* that came late end without a trace.                                     *)

LEMMA RequestKeeps ==
  ASSUME IInv, NEW a \in Actors,
         \/ \E list \in Lists : StartSheet(a, list)
         \/ PassChecks(a) \/ SkipRow(a) \/ Decide(a) \/ RowInvalid(a)
         \/ BulkPasses(a) \/ BulkApproves(a) \/ Commit(a) \/ Abort(a)
  PROVE  IInv' /\ RowsAdvance
<1>1. ASSUME NEW list \in Lists, StartSheet(a, list)
      PROVE  IInv' /\ RowsAdvance
  <2>1. Start(a, "sheet", list)
    BY <1>1 DEF StartSheet
  <2>2. QED BY <2>1, ListsAreTyped, StartKeeps
<1>2. CASE Abort(a)
  <2>1. Rollback(a)
    BY <1>2 DEF Abort
  <2>2. QED BY <2>1, RollbackKeeps
<1>3. QED
  BY <1>1, <1>2, PassChecksKeeps, PassedOverKeeps, DecideKeeps, RowInvalidKeeps,
     BulkApprovesKeeps, CommitKeeps

LEMMA UserKeeps ==
  ASSUME IInv, NEW u \in Users,
         \/ \E m \in Movs : \/ \E d \in Decisions : StartReview(u, m, d)
                            \/ ClaimItem(u, m)
                            \/ ReleaseItem(u, m)
                            \/ \E v \in Users : ReassignItem(u, m, v)
                            \/ DismissItem(u, m)
                            \/ ReopenItem(u, m)
         \/ \E list \in BulkLists : StartBulk(u, list)
  PROVE  IInv' /\ RowsAdvance
<1>1. ASSUME NEW list \in BulkLists, StartBulk(u, list)
      PROVE  IInv' /\ RowsAdvance
  <2>1. Start(u, "bulk", list) /\ u \in Actors
    BY <1>1, ActorsAreNamed DEF StartBulk
  <2>2. QED BY <2>1, ListsAreTyped, StartKeeps
<1>2. QED BY <1>1, StartReviewKeeps, CentreKeeps

LEMMA StepKeeps ==
  ASSUME IInv, Next
  PROVE  IInv' /\ RowsAdvance
<1>1. ASSUME NEW w \in Workers, BeginRun(w) \/ PublishRun(w) \/ LoseRun(w)
      PROVE  IInv' /\ RowsAdvance
  BY <1>1, BeginRunKeeps, PublishRunKeeps, LoseRunKeeps
<1>2. QED BY <1>1, ExportKeeps, UserKeeps, RequestKeeps DEF Next

LEMMA StutterKeeps ==
  ASSUME IInv, UNCHANGED vars
  PROVE  IInv' /\ RowsAdvance
<1> USE DEF vars, rows, requests, runs
<1>1. TypeOK'
  BY DEF IInv, TypeOK
<1>2. QED
  BY <1>1, RowsUntouched, RunsUntouched, SessionsUntouched DEF IInv

(* The only step that ends a request with anything written is its commit.  *)
LEMMA RequestsEnd ==
  ASSUME IInv, [Next]_vars, NEW a \in Actors, kind'[a] = "idle", NEW m \in late[a]
  PROVE  mov'[m] = mov[m]
<1>1. kind[a] # "idle" /\ m \in Movs
  BY DEF IInv, TypeOK, SessionInv, RequestAt
<1>2. CASE UNCHANGED mov
  BY <1>2
<1>3. CASE mov' # mov
  <2>1. \/ \E b \in Actors : Commit(b)
        \/ \E w \in Workers : PublishRun(w)
    BY ZenonT(40), <1>3 DEF Next, vars, rows, Export, StartReview, ClaimItem, ReleaseItem, ReassignItem,
       DismissItem, ReopenItem, Moves, StartBulk, StartSheet, Start, PassChecks, SkipRow,
       Decide, RowInvalid, BulkPasses, BulkApproves, Abort, Rollback, BeginRun, LoseRun
  <2>2. ASSUME NEW b \in Actors, Commit(b)
        PROVE  b = a
    BY <1>1, <2>2 DEF Commit, Ends, IInv, TypeOK
  <2>3. ASSUME NEW w \in Workers, PublishRun(w)
        PROVE  FALSE
    BY <1>1, <2>3 DEF PublishRun, requests
  <2>4. QED BY <2>1, <2>2, <2>3, LateCommitsWriteNothing
<1>4. QED BY <1>2, <1>3

THEOREM Invariance == Spec => []IInv
<1>1. IInv /\ [Next]_vars => IInv'
  BY StepKeeps, StutterKeeps
<1>2. QED BY <1>1, Initially, PTL DEF Spec

(* Undecided movements carry no decision and accepted ones are complete,   *)
(* however many requests overlap and whatever a sheet repeats.             *)
THEOREM DecisionsAreWhole == Spec => []DecisionIsWhole
<1>1. IInv => DecisionIsWhole
  BY DEF IInv, DecisionIsWhole
<1>2. QED BY <1>1, Invariance, PTL

(* The item of an abstention is resolved by a committed decision, and no   *)
(* decision leaves it open unless it was reopened.                         *)
THEOREM ItemsFollowDecisions == Spec => []ItemFollowsDecision
<1>1. IInv => ItemFollowsDecision
  BY DEF IInv
<1>2. QED BY <1>1, Invariance, PTL

(* No run of the job and no request takes a decision back, or the          *)
(* suggestion it was made on.                                              *)
THEOREM DecisionsStand == Spec => DecisionStands
<1>1. IInv /\ [Next]_vars => RowsAdvance
  BY StepKeeps, StutterKeeps
<1>2. RowsAdvance => DecidedStaysDecided /\ SuggestionIsKept
  BY DEF RowsAdvance, DecidedStaysDecided, SuggestionIsKept
<1>3. IInv /\ [Next]_vars => [DecidedStaysDecided /\ SuggestionIsKept]_vars
  BY <1>1, <1>2
<1>4. QED BY <1>3, Invariance, PTL DEF Spec, DecisionStands

(* A request that began after a decision was committed leaves no trace of  *)
(* itself on the movement.                                                 *)
THEOREM LateRequestsAreHarmless == Spec => LateRequestsChangeNothing
<1>1. IInv /\ [Next]_vars => [LateEndsUnchanged]_vars
  BY RequestsEnd DEF LateEndsUnchanged
<1>2. QED BY <1>1, Invariance, PTL DEF Spec, LateRequestsChangeNothing

(* After every step, with sheets of any length, decisions are whole, their *)
(* items follow them and late requests have changed nothing.               *)
THEOREM SheetsFollow == Spec => SheetsFollowDecisions
<1>1. IInv /\ [Next]_vars => LateEndsUnchanged
  BY RequestsEnd DEF LateEndsUnchanged
<1>2. IInv => DecisionIsWhole /\ ItemFollowsDecision
  BY DEF IInv, DecisionIsWhole
<1>3. IInv' => DecisionIsWhole' /\ ItemFollowsDecision'
  BY <1>2, PTL
<1>4. IInv /\ IInv' /\ [Next]_vars =>
        [DecisionIsWhole' /\ ItemFollowsDecision' /\ LateEndsUnchanged]_vars
  BY <1>1, <1>3
<1>5. QED BY <1>4, Invariance, PTL DEF Spec, SheetsFollowDecisions
=============================================================================
