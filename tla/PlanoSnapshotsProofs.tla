------------------------ MODULE PlanoSnapshotsProofs ------------------------
(***************************************************************************)
(* Theorems about PlanoSnapshots, for any number of charts, effective      *)
(* dates, imports, people and batches, and about SugestoesMovimentos, for  *)
(* any movements, charts and accounts.                                     *)
(***************************************************************************)
EXTENDS PlanoSnapshots, SugestoesMovimentos, FiniteSetTheorems, WellFoundedInduction, TLAPS

IsConflict(i) == items[i].source = "snapshot_conflict"
ItemRecords ==
  [source : {"snapshot_conflict", Source.conflict, Source.missing},
   date : Dates \cup Vigencias, key : (SUBSET Snapshots) \cup Nat,
   status : {"open", "resolved", "dismissed"}, evidence : SUBSET (Snapshots \cup Batches)]
Imports == [pc : {"locked"}, event : Snapshots \X Vigencias, seen : SUBSET Snapshots]
Requests == [pc : {"deciding"}, item : Nat, selected : Snapshots]
              \cup [pc : {"resolving"}, item : Nat]
Batch(l) == [pc : {"reading"}, plan : BOOLEAN,
             seen : UNION {[D -> {"missing", "conflict", "defined"}] : D \in SUBSET DatesOf[l]}]

(* Every part of the state has its values; an effective date has finitely  *)
(* many candidates, a batch has read finitely many dates.                  *)
ShapeOK ==
  /\ events \subseteq Snapshots \X Vigencias
  /\ \A v \in Vigencias : IsFiniteSet(Candidates(v))
  /\ items \in Seq(ItemRecords)
  /\ importer \in [Importers -> {Idle} \cup Imports]
  /\ user \in [Users -> {Idle} \cup Requests]
  /\ batch = [l \in Batches |-> batch[l]]
  /\ \A l \in Batches :
       /\ batch[l] \in {Idle, [pc |-> "done"]} \cup Batch(l)
       /\ batch[l].pc = "reading" => IsFiniteSet(DOMAIN batch[l].seen)

(* A conflict has one item, with all its candidates as evidence, which is  *)
(* open until it is decided; the key of an item of a batch follows items   *)
(* that are older.                                                         *)
ItemInv ==
  /\ \A i \in DOMAIN items : IsConflict(i) =>
       /\ items[i].key \subseteq items[i].evidence
       /\ items[i].status # "open" => DecidedFor(items[i].date, items[i].key) # {}
  /\ \A i, j \in DOMAIN items :
       IsConflict(i) /\ IsConflict(j) /\ SameKey(items[i], items[j]) => i = j
  /\ \A i \in DOMAIN items : IsRazao(i) => items[i].key \in 0..(i - 1)

(* A decision is of an item, and for the candidates of the item.           *)
DecisionInv ==
  \A x \in decisions :
    /\ x.item \in DOMAIN items /\ IsConflict(x.item)
    /\ items[x.item].date = x.vigencia /\ items[x.item].key = x.candidates

(* One import holds the company; the candidates it read are those there    *)
(* are when it commits.                                                    *)
ImportInv ==
  /\ \A i, j \in Importers : importer[i].pc = "locked" /\ importer[j].pc = "locked" => i = j
  /\ \A i \in Importers : importer[i].pc = "locked" =>
       importer[i].seen = CandidatesIn(events \cup {importer[i].event}, importer[i].event[2])

(* One decision holds an item, which is of a conflict nobody has decided.  *)
UserInv ==
  /\ \A u \in Users : user[u].pc = "deciding" =>
       /\ user[u].item \in DOMAIN items /\ IsConflict(user[u].item)
       /\ items[user[u].item].status = "open"
       /\ DecidedFor(items[user[u].item].date, items[user[u].item].key) = {}
  /\ \A u, w \in Users :
       /\ user[u].pc = "deciding" /\ user[w].pc = "deciding"
       /\ user[u].item = user[w].item
       => u = w
  /\ \A u \in Users : user[u].pc = "resolving" =>
       user[u].item \in DOMAIN items /\ IsRazao(user[u].item)

IInv == ShapeOK /\ ItemInv /\ DecisionInv /\ ImportInv /\ UserInv
          /\ DecidedOnce /\ ConflictCanBeDecided

-----------------------------------------------------------------------------
(* The keys of a batch's items *)

(* A set of natural numbers that is not empty has a least element.         *)
LEMMA LeastExists ==
  ASSUME NEW T \in SUBSET Nat, T # {}
  PROVE  Min(T) \in T /\ \A y \in T : Min(T) <= y
<1> DEFINE upTo == {S \in SUBSET Nat : \E x \in T : S = 0..x}
<1>1. upTo \subseteq FiniteSubsetsOf(Nat) /\ upTo # {}
  <2>1. PICK x \in T : TRUE
    OBVIOUS
  <2>2. 0..x \in upTo
    OBVIOUS
  <2>3. ASSUME NEW y \in T PROVE IsFiniteSet(0..y)
    BY FS_Interval
  <2> QED BY <2>2, <2>3 DEF FiniteSubsetsOf
<1>2. PICK S \in upTo : \A R \in upTo : ~(<<R, S>> \in StrictSubsetOrdering(Nat))
  <2> HIDE DEF upTo
  <2> QED BY <1>1, FS_StrictSubsetOrderingWellFounded, WFMin
<1>3. PICK x \in T : S = 0..x
  OBVIOUS
<1>4. ASSUME NEW y \in T PROVE x <= y
  <2>1. 0..y \in upTo
    OBVIOUS
  <2>2. ~(<<0..y, 0..x>> \in StrictSubsetOrdering(Nat))
    BY <2>1, <1>2, <1>3
  <2> SUFFICES ASSUME y < x PROVE FALSE
    OBVIOUS
  <2>3. 0..y \subseteq 0..x /\ x \in 0..x /\ x \notin 0..y
    OBVIOUS
  <2>4. 0..y # 0..x /\ 0..y \in SUBSET Nat /\ 0..x \in SUBSET Nat
    BY <2>3
  <2> QED BY <2>2, <2>3, <2>4 DEF StrictSubsetOrdering
<1> QED BY <1>4 DEF Min

(* A set of natural numbers up to a bound has a greatest element.          *)
LEMMA GreatestExists ==
  ASSUME NEW N \in Nat, NEW T \in SUBSET (0..N), T # {}
  PROVE  \E x \in T : \A y \in T : y <= x
<1> DEFINE R == {n \in 0..N : N - n \in T}
<1>1. R \in SUBSET Nat
  OBVIOUS
<1>2. PICK t \in T : TRUE
  OBVIOUS
<1>3. N - t \in R
  BY <1>2
<1> HIDE DEF R
<1>4. Min(R) \in R /\ \A y \in R : Min(R) <= y
  BY <1>1, <1>3, LeastExists
<1> USE DEF R
<1>5. N - Min(R) \in T
  BY <1>4
<1>6. ASSUME NEW y \in T PROVE y <= N - Min(R)
  <2>1. N - y \in R
    OBVIOUS
  <2>2. Min(R) <= N - y
    BY <2>1, <1>4
  <2> QED BY <2>2, <1>4
<1> QED BY <1>5, <1>6

(* The key a batch uses for a date follows older items only, and no item   *)
(* with this key is closed: the chain always has a free end.               *)
LEMMA ChainKeyIsFree ==
  ASSUME items \in Seq(ItemRecords), ItemInv,
         NEW source \in {Source.conflict, Source.missing}, NEW d
  PROVE  /\ ChainKey(source, d) \in 0..Len(items)
         /\ ~ClosedKey(source, d, ChainKey(source, d))
<1> DEFINE keys == ChainKeys(source, d)
           free == {k \in keys : ~ClosedKey(source, d, k)}
<1>1. keys \in SUBSET (0..Len(items)) /\ 0 \in keys
  BY DEF ChainKeys
<1>2. PICK m \in keys : \A k \in keys : k <= m
  <2> DEFINE N == Len(items)
  <2>1. N \in Nat
    OBVIOUS
  <2>2. keys \in SUBSET (0..N) /\ keys # {}
    BY <1>1
  <2> HIDE DEF keys, N
  <2> QED BY <2>1, <2>2, GreatestExists
<1>3. ~ClosedKey(source, d, m)
  <2> SUFFICES ASSUME NEW i \in DOMAIN items, InChain(source, d, i), items[i].key = m
               PROVE  FALSE
    BY DEF ClosedKey
  <2>1. i \in keys
    BY DEF ChainKeys
  <2>2. items[i].key \in 0..(i - 1)
    BY DEF ItemInv, IsRazao, InChain
  <2>3. i <= m
    BY <2>1, <1>2
  <2> QED BY <2>2, <2>3, <1>1
<1>4. free # {} /\ free \in SUBSET Nat /\ free \subseteq keys
  BY <1>1, <1>2, <1>3
<1> HIDE DEF free
<1>5. Min(free) \in free
  BY <1>4, LeastExists
<1>6. ChainKey(source, d) = Min(free)
  BY DEF ChainKey, free
<1> QED BY <1>1, <1>5, <1>6 DEF free

-----------------------------------------------------------------------------
(* Steps *)

(* Items may gain evidence, an item of a batch may change its status, and  *)
(* new items are of batches; a request may end: nothing else changes for   *)
(* conflicts and their decisions.                                          *)
LEMMA ItemsGrow ==
  ASSUME IInv, UNCHANGED <<events, decisions, importer>>,
         items' \in Seq(ItemRecords), DOMAIN items \subseteq DOMAIN items',
         \A i \in DOMAIN items :
           /\ items'[i].source = items[i].source /\ items'[i].date = items[i].date
           /\ items'[i].key = items[i].key /\ items[i].evidence \subseteq items'[i].evidence
           /\ IsConflict(i) => items'[i].status = items[i].status,
         \A i \in (DOMAIN items') \ (DOMAIN items) :
           items'[i].source \in {Source.conflict, Source.missing} /\ items'[i].key \in 0..(i - 1),
         \A u \in Users : user'[u] \in {user[u], Idle}
  PROVE  ItemInv' /\ DecisionInv' /\ ImportInv' /\ UserInv' /\ DecidedOnce' /\ ConflictCanBeDecided'
<1> USE DEF IInv
<1>1. ASSUME NEW i \in DOMAIN items', IsConflict(i)' PROVE i \in DOMAIN items /\ IsConflict(i)
  BY <1>1 DEF IsConflict, Source
<1>2. \A v, C : DecidedFor(v, C)' = DecidedFor(v, C)
  BY DEF DecidedFor
<1>3. ItemInv'
  <2>1. ASSUME NEW i \in DOMAIN items', IsConflict(i)'
        PROVE  /\ items'[i].key \subseteq items'[i].evidence
               /\ items'[i].status # "open" => DecidedFor(items[i].date, items[i].key)' # {}
    BY <1>1, <1>2, <2>1 DEF ItemInv
  <2>2. ASSUME NEW i \in DOMAIN items', NEW j \in DOMAIN items', IsConflict(i)', IsConflict(j)',
               SameKey(items'[i], items'[j])
        PROVE  i = j
    BY <1>1, <2>2 DEF ItemInv, SameKey
  <2>3. ASSUME NEW i \in DOMAIN items', IsRazao(i)' PROVE items'[i].key \in 0..(i - 1)
    BY <2>3 DEF ItemInv, IsRazao
  <2> QED BY <2>1, <2>2, <2>3 DEF ItemInv
<1>4. DecisionInv'
  BY DEF DecisionInv, IsConflict
<1>5. ImportInv'
  BY DEF ImportInv
<1>6. UserInv'
  <2>1. \A u \in Users : user'[u].pc \in {"deciding", "resolving"} => user'[u] = user[u]
    BY DEF Idle
  <2>2. ASSUME NEW u \in Users, user'[u].pc = "deciding"
        PROVE  /\ user'[u].item \in DOMAIN items' /\ IsConflict(user[u].item)'
               /\ items'[user'[u].item].status = "open"
               /\ DecidedFor(items[user[u].item].date, items[user[u].item].key)' = {}
    BY SMTT(30), <1>2, <2>1, <2>2 DEF UserInv, IsConflict
  <2>3. ASSUME NEW u \in Users, user'[u].pc = "resolving"
        PROVE  user'[u].item \in DOMAIN items' /\ IsRazao(user[u].item)'
    BY <2>1, <2>3 DEF UserInv, IsRazao
  <2>4. ASSUME NEW u \in Users, NEW w \in Users, user'[u].pc = "deciding",
               user'[w].pc = "deciding", user'[u].item = user'[w].item
        PROVE  u = w
    BY <2>1, <2>4 DEF UserInv
  <2> QED BY <2>2, <2>3, <2>4 DEF UserInv
<1>7. DecidedOnce'
  BY DEF DecidedOnce
<1>8. ConflictCanBeDecided'
  <2>1. \A v : Choice(v)' = Choice(v) /\ Candidates(v)' = Candidates(v)
    BY <1>2 DEF Choice, Candidates
  <2> QED BY <2>1 DEF ConflictCanBeDecided, IsConflict
<1> QED BY <1>3, <1>4, <1>5, <1>6, <1>7, <1>8

(* The steps that write only importer.                                     *)
LEMMA StartImportStep ==
  ASSUME IInv, NEW i \in Importers, NEW s \in Snapshots, NEW v \in Vigencias,
         StartImport(i, s, v)
  PROVE  IInv'
<1> USE DEF IInv, StartImport, BeginImport
<1>1. CandidatesIn(events \cup {<<s, v>>}, v) \subseteq Snapshots
  BY DEF ShapeOK, CandidatesIn
<1>2. importer' \in [Importers -> {Idle} \cup Imports]
  BY <1>1 DEF ShapeOK, Imports
<1>3. ShapeOK'
  BY <1>2 DEF ShapeOK, Candidates
<1>4. ImportInv'
  <2>1. \A j \in Importers \ {i} : importer'[j] = importer[j] /\ importer[j].pc # "locked"
    BY DEF CompanyFree, ShapeOK
  <2>2. importer'[i] = [pc |-> "locked", event |-> <<s, v>>,
                        seen |-> CandidatesIn(events \cup {<<s, v>>}, v)]
    BY DEF ShapeOK
  <2>3. importer'[i].seen = CandidatesIn(events' \cup {importer'[i].event}, importer'[i].event[2])
    BY SMTT(30), <2>2
  <2> QED BY <2>1, <2>3 DEF ImportInv
<1> QED
  BY <1>3, <1>4 DEF ItemInv, IsConflict, IsRazao, DecidedFor, DecisionInv, UserInv, DecidedOnce,
     ConflictCanBeDecided, Choice, Candidates

LEMMA AbortImportStep ==
  ASSUME IInv, NEW i \in Importers, AbortImport(i)
  PROVE  IInv'
<1> USE DEF IInv, AbortImport
<1>1. ShapeOK'
  BY DEF ShapeOK, Candidates
<1>2. ImportInv'
  BY DEF ImportInv, ShapeOK, Idle
<1>3. ItemInv' /\ DecidedOnce'
  BY DEF ItemInv, IsConflict, IsRazao, DecidedFor, DecidedOnce
<1>4. DecisionInv'
  BY DEF DecisionInv, IsConflict, DecidedFor, Candidates
<1>5. UserInv'
  BY DEF UserInv, IsConflict, IsRazao, DecidedFor, Candidates
<1>6. ConflictCanBeDecided'
  BY DEF ConflictCanBeDecided, Choice, DecidedFor, Candidates
<1> QED BY <1>1, <1>2, <1>3, <1>4, <1>5, <1>6

(* The steps that write only batch.                                        *)
LEMMA BatchWritten ==
  ASSUME ShapeOK, UNCHANGED <<events, decisions, items, importer, user>>, NEW l \in Batches, NEW new,
         batch' = [batch EXCEPT ![l] = new], new \in {Idle, [pc |-> "done"]} \cup Batch(l),
         new.pc = "reading" => IsFiniteSet(DOMAIN new.seen)
  PROVE  ShapeOK'
<1>1. batch' = [k \in Batches |-> batch'[k]]
  BY DEF ShapeOK
<1>2. batch'[l] = new /\ \A k \in Batches \ {l} : batch'[k] = batch[k]
  BY DEF ShapeOK
<1>3. ASSUME NEW k \in Batches
      PROVE  /\ batch'[k] \in {Idle, [pc |-> "done"]} \cup Batch(k)
             /\ batch'[k].pc = "reading" => IsFiniteSet(DOMAIN batch'[k].seen)
  BY <1>2 DEF ShapeOK
<1>4. \A v \in Vigencias : Candidates(v)' = Candidates(v)
  BY DEF Candidates
<1> QED BY <1>1, <1>3, <1>4 DEF ShapeOK

LEMMA LoteOnly ==
  ASSUME IInv, UNCHANGED <<events, decisions, items, importer, user>>, ShapeOK'
  PROVE  IInv'
<1>1. /\ \A i \in DOMAIN items :
           /\ items'[i].source = items[i].source /\ items'[i].date = items[i].date
           /\ items'[i].key = items[i].key /\ items[i].evidence \subseteq items'[i].evidence
           /\ IsConflict(i) => items'[i].status = items[i].status
      /\ DOMAIN items \subseteq DOMAIN items' /\ (DOMAIN items') \ (DOMAIN items) = {}
      /\ items' \in Seq(ItemRecords) /\ \A u \in Users : user'[u] \in {user[u], Idle}
  BY DEF IInv, ShapeOK
<1>2. ItemInv' /\ DecisionInv' /\ ImportInv' /\ UserInv' /\ DecidedOnce' /\ ConflictCanBeDecided'
  BY <1>1, ItemsGrow
<1> QED BY <1>2 DEF IInv

LEMMA StartLoteStep ==
  ASSUME IInv, NEW l \in Batches, StartLote(l)
  PROVE  IInv'
<1> USE DEF IInv, StartLote
<1> DEFINE seen == [d \in {} |-> "missing"]
<1>1. seen \in [{} -> {"missing", "conflict", "defined"}] /\ DOMAIN seen = {}
  OBVIOUS
<1>2. [pc |-> "reading", plan |-> events # {}, seen |-> seen] \in Batch(l)
  <2>1. {} \in SUBSET DatesOf[l]
    OBVIOUS
  <2>2. seen \in UNION {[D -> {"missing", "conflict", "defined"}] : D \in SUBSET DatesOf[l]}
    BY <1>1, <2>1, Zenon
  <2> QED BY <2>2 DEF Batch
<1>3. IsFiniteSet(DOMAIN seen)
  BY <1>1, FS_EmptySet
<1>4. ShapeOK'
  <2> DEFINE new == [pc |-> "reading", plan |-> events # {}, seen |-> seen]
  <2>1. new \in Batch(l) /\ IsFiniteSet(DOMAIN new.seen)
    BY <1>2, <1>3
  <2>2. batch' = [batch EXCEPT ![l] = new]
    OBVIOUS
  <2> HIDE DEF new
  <2> QED BY <2>1, <2>2, BatchWritten
<1> QED BY <1>4, LoteOnly

LEMMA ReadDateStep ==
  ASSUME IInv, NEW l \in Batches, NEW d \in Dates, ReadDate(l, d)
  PROVE  IInv'
<1> DEFINE old == batch[l].seen
           D == DOMAIN old \cup {d}
           seen == [x \in D |-> IF x = d THEN Outcome(d) ELSE old[x]]
           new == [batch[l] EXCEPT !.seen = seen]
           Outcomes == {"missing", "conflict", "defined"}
<1>1. batch[l] \in Batch(l) /\ IsFiniteSet(DOMAIN old)
  BY DEF IInv, ShapeOK, ReadDate, Idle
<1>2. PICK E \in SUBSET DatesOf[l] : old \in [E -> Outcomes]
  BY <1>1, Zenon DEF Batch
<1>3. D \in SUBSET DatesOf[l]
  BY <1>2 DEF ReadDate
<1>4. seen \in [D -> Outcomes]
  BY <1>2 DEF Outcome
<1>5. seen \in UNION {[F -> Outcomes] : F \in SUBSET DatesOf[l]}
  <2> HIDE DEF seen, D, Outcomes
  <2> QED BY <1>3, <1>4, Zenon
<1>6. IsFiniteSet(DOMAIN seen)
  BY <1>1, FS_AddElement
<1>7. new \in Batch(l) /\ new.seen = seen
  <2> HIDE DEF seen
  <2> QED BY <1>1, <1>5 DEF Batch
<1>8. batch' = [batch EXCEPT ![l] = new]
  BY DEF ReadDate, IInv, ShapeOK
<1> HIDE DEF new, seen
<1>9. UNCHANGED <<events, decisions, items, importer, user>>
  BY DEF ReadDate
<1>10. ShapeOK'
  BY <1>6, <1>7, <1>8, <1>9, BatchWritten DEF IInv
<1> QED BY <1>9, <1>10, LoteOnly

-----------------------------------------------------------------------------
(* The end of a batch *)

LEMMA Joined ==
  ASSUME NEW S, NEW a \in Seq(S), NEW b \in Seq(S)
  PROVE  /\ a \o b \in Seq(S) /\ DOMAIN (a \o b) = 1..(Len(a) + Len(b))
         /\ \A i \in 1..Len(a) : (a \o b)[i] = a[i]
         /\ \A k \in 1..Len(b) : (a \o b)[Len(a) + k] = b[k]
  OBVIOUS

(* More evidence changes nothing else of an item.                          *)
LEMMA MoreEvidence ==
  ASSUME NEW r \in ItemRecords, NEW e \in SUBSET (Snapshots \cup Batches),
         NEW q, q = [r EXCEPT !.evidence = @ \cup e]
  PROVE  /\ q \in ItemRecords /\ q.evidence = r.evidence \cup e
         /\ q.source = r.source /\ q.date = r.date /\ q.key = r.key /\ q.status = r.status
BY DEF ItemRecords

LEMMA GainedItems ==
  ASSUME IInv, NEW l \in Batches, NEW i \in DOMAIN items
  PROVE  LET q == Gained(l)[i] IN
         /\ q \in ItemRecords /\ items[i].evidence \subseteq q.evidence
         /\ q.source = items[i].source /\ q.date = items[i].date
         /\ q.key = items[i].key /\ q.status = items[i].status
         /\ (\E d \in Reported(l) : SameKey(items[i], ItemOf(l, d))) => l \in q.evidence
<1> DEFINE r == items[i]
           p == [r EXCEPT !.evidence = @ \cup {l}]
           again == \E d \in Reported(l) : SameKey(items[i], ItemOf(l, d))
<1>1. r \in ItemRecords
  BY DEF IInv, ShapeOK
<1>2. Gained(l)[i] = IF again THEN p ELSE r
  BY DEF Gained
<1>3. /\ p \in ItemRecords /\ p.evidence = r.evidence \cup {l}
      /\ p.source = r.source /\ p.date = r.date /\ p.key = r.key /\ p.status = r.status
  <2> HIDE DEF r
  <2> QED BY ZenonT(40), <1>1, MoreEvidence
<1> HIDE DEF p, again
<1> QED BY <1>1, <1>2, <1>3 DEF again

Listed(l, s) == [k \in DOMAIN s |-> ItemOf(l, s[k])]

LEMMA ItemOfBatch ==
  ASSUME IInv, NEW l \in Batches, batch[l].pc = "reading", NEW d \in Reported(l)
  PROVE  /\ d \in Dates
         /\ ItemOf(l, d) \in ItemRecords
         /\ ItemOf(l, d).source = Source[batch[l].seen[d]] /\ ItemOf(l, d).date = d
         /\ ItemOf(l, d).source \in {Source.conflict, Source.missing}
         /\ ItemOf(l, d).key \in 0..Len(items) /\ ItemOf(l, d).status = "open"
         /\ ItemOf(l, d).evidence = {l}
         /\ ~ClosedKey(ItemOf(l, d).source, d, ItemOf(l, d).key)
<1>1. batch[l] \in Batch(l)
  BY DEF IInv, ShapeOK, Idle
<1>2. DOMAIN batch[l].seen \subseteq DatesOf[l]
  BY <1>1 DEF Batch
<1>3. d \in Dates
  BY <1>2 DEF Reported, Dates
<1>4. Source[batch[l].seen[d]] \in {Source.conflict, Source.missing}
  BY DEF Reported, Source
<1> DEFINE source == Source[batch[l].seen[d]]
<1> HIDE DEF source
<1>5. ChainKey(source, d) \in 0..Len(items) /\ ~ClosedKey(source, d, ChainKey(source, d))
  BY <1>4, ChainKeyIsFree DEF IInv, ShapeOK, source
<1>6. ItemOf(l, d) = [source |-> source, date |-> d, key |-> ChainKey(source, d),
                      status |-> "open", evidence |-> {l}]
  BY DEF ItemOf, Item, source
<1>7. Len(items) \in Nat
  BY DEF IInv, ShapeOK
<1>8. ItemOf(l, d) \in ItemRecords
  BY <1>3, <1>4, <1>5, <1>6, <1>7 DEF ItemRecords, source
<1> QED BY <1>3, <1>4, <1>5, <1>6, <1>8 DEF source

(* What the end of a batch makes of the items: the old ones in place, then *)
(* one for every date that had none.                                       *)
LEMMA FinishLoteItems ==
  ASSUME IInv, NEW l \in Batches, FinishLote(l)
  PROVE  \E s \in Surjection(1..Cardinality(Unseen(l)), Unseen(l)) :
           /\ Cardinality(Unseen(l)) \in Nat
           /\ items' \in Seq(ItemRecords)
           /\ DOMAIN items' = 1..(Len(items) + Cardinality(Unseen(l)))
           /\ \A i \in DOMAIN items : items'[i] = Gained(l)[i]
           /\ \A k \in DOMAIN s : items'[Len(items) + k] = ItemOf(l, s[k])
<1> DEFINE n == Cardinality(Unseen(l))
<1>1. batch[l] \in Batch(l) /\ IsFiniteSet(DOMAIN batch[l].seen)
  BY DEF IInv, ShapeOK, FinishLote, Idle
<1>2. Unseen(l) \in SUBSET (DOMAIN batch[l].seen) /\ Unseen(l) \subseteq Reported(l)
  BY DEF Unseen, Reported
<1>3. n \in Nat
  BY <1>1, <1>2, FS_Subset, FS_CardinalityType
<1>4. PICK s \in Surjection(1..n, Unseen(l)) : items' = Gained(l) \o Listed(l, s)
  BY DEF FinishLote, InOrder, Listed
<1>5. s \in [1..n -> Unseen(l)] /\ DOMAIN s = 1..n
  BY <1>4 DEF Surjection
<1>6. Listed(l, s) \in Seq(ItemRecords) /\ Len(Listed(l, s)) = n
  <2>1. Listed(l, s) \in [1..n -> ItemRecords]
    BY <1>2, <1>5, ItemOfBatch DEF Listed, FinishLote
  <2> QED BY <2>1, <1>3
<1>7. Gained(l) \in Seq(ItemRecords) /\ Len(Gained(l)) = Len(items)
  <2>1. items \in Seq(ItemRecords) /\ DOMAIN items = 1..Len(items) /\ Len(items) \in Nat
    BY DEF IInv, ShapeOK
  <2>2. \A i \in 1..Len(items) : Gained(l)[i] \in ItemRecords
    BY <2>1, GainedItems
  <2>3. Gained(l) \in [1..Len(items) -> ItemRecords]
    BY <2>1, <2>2 DEF Gained
  <2> QED BY <2>1, <2>3
<1> HIDE DEF n
<1>8. /\ items' \in Seq(ItemRecords) /\ DOMAIN items' = 1..(Len(items) + n)
      /\ \A i \in 1..Len(items) : items'[i] = Gained(l)[i]
      /\ \A k \in 1..n : items'[Len(items) + k] = Listed(l, s)[k]
  <2>1. PICK old, new : old = Gained(l) /\ new = Listed(l, s)
    OBVIOUS
  <2>2. old \in Seq(ItemRecords) /\ new \in Seq(ItemRecords)
    BY <1>6, <1>7, <2>1
  <2>3. Len(old) = Len(items) /\ Len(new) = n
    BY <1>6, <1>7, <2>1
  <2>4. items' = old \o new
    BY <1>4, <2>1
  <2>5. /\ items' \in Seq(ItemRecords) /\ DOMAIN items' = 1..(Len(old) + Len(new))
        /\ \A i \in 1..Len(old) : items'[i] = old[i]
        /\ \A k \in 1..Len(new) : items'[Len(old) + k] = new[k]
    BY ONLY <2>2, <2>4, Joined
  <2> QED BY <2>1, <2>3, <2>5
<1>9. DOMAIN items = 1..Len(items)
  BY DEF IInv, ShapeOK
<1> QED BY <1>3, <1>5, <1>8, <1>9 DEF Listed, n

LEMMA FinishLoteShape ==
  ASSUME ShapeOK, NEW l \in Batches, FinishLote(l), items' \in Seq(ItemRecords)
  PROVE  ShapeOK'
<1>1. batch' = [k \in Batches |-> batch'[k]]
  BY DEF ShapeOK, FinishLote
<1>2. \A k \in Batches : batch'[k] = batch[k] \/ batch'[k] = [pc |-> "done"]
  BY DEF ShapeOK, FinishLote
<1>3. \A k \in Batches : /\ batch'[k] \in {Idle, [pc |-> "done"]} \cup Batch(k)
                         /\ batch'[k].pc = "reading" => IsFiniteSet(DOMAIN batch'[k].seen)
  BY <1>2 DEF ShapeOK
<1>4. UNCHANGED <<events, importer, user>>
  BY DEF FinishLote
<1>5. \A v \in Vigencias : Candidates(v)' = Candidates(v)
  BY <1>4 DEF Candidates
<1> QED BY <1>1, <1>3, <1>4, <1>5 DEF ShapeOK

LEMMA FinishLoteStep ==
  ASSUME IInv, NEW l \in Batches, FinishLote(l)
  PROVE  IInv'
<1> DEFINE n == Cardinality(Unseen(l))
<1>1. PICK s \in Surjection(1..n, Unseen(l)) :
        /\ n \in Nat
        /\ items' \in Seq(ItemRecords)
        /\ DOMAIN items' = 1..(Len(items) + n)
        /\ \A i \in DOMAIN items : items'[i] = Gained(l)[i]
        /\ \A k \in DOMAIN s : items'[Len(items) + k] = ItemOf(l, s[k])
  BY FinishLoteItems
<1>2. DOMAIN s = 1..n /\ \A k \in 1..n : s[k] \in Reported(l)
  BY <1>1 DEF Surjection, Unseen
<1>3. items \in Seq(ItemRecords) /\ DOMAIN items = 1..Len(items) /\ Len(items) \in Nat
  BY DEF IInv, ShapeOK
<1> HIDE DEF n
<1>4. ASSUME NEW i \in DOMAIN items
      PROVE  /\ items'[i].source = items[i].source /\ items'[i].date = items[i].date
             /\ items'[i].key = items[i].key /\ items[i].evidence \subseteq items'[i].evidence
             /\ items'[i].status = items[i].status
  BY <1>1, GainedItems
<1>5. ASSUME NEW i \in (DOMAIN items') \ (DOMAIN items)
      PROVE  items'[i].source \in {Source.conflict, Source.missing} /\ items'[i].key \in 0..(i - 1)
  <2>1. i - Len(items) \in 1..n /\ i = Len(items) + (i - Len(items))
    BY <1>1, <1>3
  <2>2. items'[i] = ItemOf(l, s[i - Len(items)]) /\ s[i - Len(items)] \in Reported(l)
    BY <2>1, <1>1, <1>2
  <2>3. items'[i].source \in {Source.conflict, Source.missing} /\ items'[i].key \in 0..Len(items)
    BY <2>2, ItemOfBatch DEF FinishLote
  <2> QED BY <2>1, <2>3, <1>3
<1>6. UNCHANGED <<events, decisions, importer, user>>
  BY DEF FinishLote
<1>7. DOMAIN items \subseteq DOMAIN items' /\ \A u \in Users : user'[u] \in {user[u], Idle}
  BY <1>1, <1>3, <1>6
<1>8. ItemInv' /\ DecisionInv' /\ ImportInv' /\ UserInv' /\ DecidedOnce' /\ ConflictCanBeDecided'
  BY <1>1, <1>4, <1>5, <1>6, <1>7, ItemsGrow
<1>9. ShapeOK'
  BY <1>1, FinishLoteShape DEF IInv
<1> QED BY <1>8, <1>9 DEF IInv

-----------------------------------------------------------------------------
(* The requests of users *)

LEMMA StatusWritten ==
  ASSUME IInv, NEW i \in DOMAIN items, NEW st \in {"open", "resolved", "dismissed"},
         items' = [items EXCEPT ![i].status = st]
  PROVE  /\ items' \in Seq(ItemRecords) /\ DOMAIN items' = DOMAIN items
         /\ \A j \in (DOMAIN items) \ {i} : items'[j] = items[j]
         /\ items'[i].source = items[i].source /\ items'[i].date = items[i].date
         /\ items'[i].key = items[i].key /\ items'[i].evidence = items[i].evidence
         /\ items'[i].status = st
<1> DEFINE r == [items[i] EXCEPT !.status = st]
<1>1. items \in Seq(ItemRecords) /\ items[i] \in ItemRecords
  BY DEF IInv, ShapeOK
<1>2. /\ r \in ItemRecords /\ r.source = items[i].source /\ r.date = items[i].date
      /\ r.key = items[i].key /\ r.evidence = items[i].evidence /\ r.status = st
  BY <1>1 DEF ItemRecords
<1>3. items' = [items EXCEPT ![i] = r]
  OBVIOUS
<1> HIDE DEF r
<1> QED BY <1>1, <1>2, <1>3

(* An item of a batch changes its status.                                  *)
LEMMA StatusStep ==
  ASSUME IInv, NEW i \in DOMAIN items, IsRazao(i), NEW st \in {"open", "resolved", "dismissed"},
         items' = [items EXCEPT ![i].status = st],
         UNCHANGED <<events, decisions, importer, batch>>,
         user' \in [Users -> {Idle} \cup Requests],
         \A u \in Users : user'[u] \in {user[u], Idle}
  PROVE  IInv'
<1>1. /\ items' \in Seq(ItemRecords) /\ DOMAIN items' = DOMAIN items
      /\ \A j \in (DOMAIN items) \ {i} : items'[j] = items[j]
      /\ items'[i].source = items[i].source /\ items'[i].date = items[i].date
      /\ items'[i].key = items[i].key /\ items'[i].evidence = items[i].evidence
  BY StatusWritten
<1>2. ASSUME NEW j \in DOMAIN items
      PROVE  /\ items'[j].source = items[j].source /\ items'[j].date = items[j].date
             /\ items'[j].key = items[j].key /\ items[j].evidence \subseteq items'[j].evidence
             /\ IsConflict(j) => items'[j].status = items[j].status
  BY <1>1 DEF IsConflict, IsRazao, Source
<1>3. ItemInv' /\ DecisionInv' /\ ImportInv' /\ UserInv' /\ DecidedOnce' /\ ConflictCanBeDecided'
  BY <1>1, <1>2, ItemsGrow
<1>4. ShapeOK'
  BY <1>1 DEF IInv, ShapeOK, Candidates
<1> QED BY <1>3, <1>4 DEF IInv

LEMMA ResolveItemStep ==
  ASSUME IInv, NEW u \in Users, ResolveItem(u)
  PROVE  IInv'
<1>1. user[u].item \in DOMAIN items /\ IsRazao(user[u].item)
  BY DEF IInv, UserInv, ResolveItem
<1>2. user' \in [Users -> {Idle} \cup Requests] /\ \A w \in Users : user'[w] \in {user[w], Idle}
  BY DEF IInv, ShapeOK, ResolveItem
<1> QED BY <1>1, <1>2, StatusStep DEF ResolveItem

LEMMA DismissOrReopenStep ==
  ASSUME IInv, NEW i \in DOMAIN items, Dismiss(i) \/ Reopen(i)
  PROVE  IInv'
<1>1. IsRazao(i) /\ UNCHANGED <<events, decisions, importer, batch, user>>
  BY DEF Dismiss, Reopen, IsRazao
<1>2. user' \in [Users -> {Idle} \cup Requests] /\ \A w \in Users : user'[w] \in {user[w], Idle}
  BY <1>1 DEF IInv, ShapeOK
<1>3. \E st \in {"open", "dismissed"} : items' = [items EXCEPT ![i].status = st]
  BY DEF Dismiss, Reopen
<1> QED BY <1>1, <1>2, <1>3, StatusStep

(* A request of a user begins or ends without a change of the database.    *)
LEMMA RequestStep ==
  ASSUME IInv, NEW u \in Users, NEW new \in {Idle} \cup Requests,
         user' = [user EXCEPT ![u] = new],
         UNCHANGED <<events, decisions, items, importer, batch>>,
         new.pc = "deciding" =>
           /\ new.item \in DOMAIN items /\ IsConflict(new.item)
           /\ items[new.item].status = "open" /\ ~Locked(new.item)
           /\ DecidedFor(items[new.item].date, items[new.item].key) = {},
         new.pc = "resolving" => new.item \in DOMAIN items /\ IsRazao(new.item)
  PROVE  IInv'
<1> USE DEF IInv
<1>1. user'[u] = new /\ \A w \in Users \ {u} : user'[w] = user[w]
  BY DEF ShapeOK
<1>2. \A v, C : DecidedFor(v, C)' = DecidedFor(v, C)
  BY DEF DecidedFor
<1>3. \A i : IsConflict(i)' = IsConflict(i) /\ IsRazao(i)' = IsRazao(i)
  BY DEF IsConflict, IsRazao
<1>4. UserInv'
  <2>1. ASSUME NEW w \in Users, user'[w].pc = "deciding"
        PROVE  /\ user'[w].item \in DOMAIN items' /\ IsConflict(user'[w].item)
               /\ items'[user'[w].item].status = "open"
               /\ DecidedFor(items[user'[w].item].date, items[user'[w].item].key) = {}
    BY <1>1, <2>1 DEF UserInv
  <2>2. ASSUME NEW w \in Users, user'[w].pc = "resolving"
        PROVE  user'[w].item \in DOMAIN items' /\ IsRazao(user'[w].item)
    BY <1>1, <2>2 DEF UserInv
  <2>3. ASSUME NEW w \in Users, NEW x \in Users, user'[w].pc = "deciding",
               user'[x].pc = "deciding", user'[w].item = user'[x].item
        PROVE  w = x
    BY <1>1, <2>3 DEF UserInv, Locked
  <2> QED BY <2>1, <2>2, <2>3 DEF UserInv, IsConflict, IsRazao, DecidedFor
<1>5. ShapeOK'
  BY DEF ShapeOK, Candidates
<1>6. ItemInv'
  BY DEF ItemInv, IsConflict, IsRazao, DecidedFor
<1>7. DecisionInv' /\ DecidedOnce'
  BY DEF DecisionInv, DecidedOnce, IsConflict
<1>8. ImportInv'
  BY DEF ImportInv
<1>9. ConflictCanBeDecided'
  BY DEF ConflictCanBeDecided, Choice, DecidedFor, Candidates
<1> QED BY <1>4, <1>5, <1>6, <1>7, <1>8, <1>9

LEMMA UserSteps ==
  ASSUME IInv, NEW u \in Users,
         \/ \E i \in DOMAIN items, s \in Snapshots : StartDecision(u, i, s)
         \/ \E i \in DOMAIN items : CheckItem(u, i)
         \/ AbortUser(u)
  PROVE  IInv'
<1>0. items \in Seq(ItemRecords) /\ DOMAIN items \subseteq Nat
  BY DEF IInv, ShapeOK
<1>1. ASSUME NEW i \in DOMAIN items, NEW s \in Snapshots, StartDecision(u, i, s) PROVE IInv'
  <2> DEFINE new == [pc |-> "deciding", item |-> i, selected |-> s]
  <2>1. new \in Requests /\ new.pc = "deciding" /\ new.item = i
    BY <1>0 DEF Requests
  <2>2. /\ user' = [user EXCEPT ![u] = new] /\ UNCHANGED <<events, decisions, items, importer, batch>>
        /\ IsConflict(i) /\ items[i].status = "open" /\ ~Locked(i)
        /\ DecidedFor(items[i].date, items[i].key) = {}
    BY <1>1 DEF StartDecision, IsConflict
  <2> HIDE DEF new
  <2> QED BY <2>1, <2>2, RequestStep
<1>2. ASSUME NEW i \in DOMAIN items, CheckItem(u, i) PROVE IInv'
  <2> DEFINE new == [pc |-> "resolving", item |-> i]
  <2>1. new \in Requests /\ new.pc = "resolving" /\ new.item = i
    BY <1>0 DEF Requests
  <2>2. /\ user' = [user EXCEPT ![u] = new] /\ UNCHANGED <<events, decisions, items, importer, batch>>
        /\ IsRazao(i)
    BY <1>2 DEF CheckItem
  <2> HIDE DEF new
  <2> QED BY <2>1, <2>2, RequestStep
<1>3. ASSUME AbortUser(u) PROVE IInv'
  BY <1>3, RequestStep DEF AbortUser, Idle
<1> QED BY <1>1, <1>2, <1>3

(* A decision.                                                             *)
LEMMA FinishDecisionStep ==
  ASSUME IInv, NEW u \in Users, FinishDecision(u)
  PROVE  IInv'
<1> DEFINE i == user[u].item
           new == [vigencia |-> items[i].date, candidates |-> items[i].key,
                   selected |-> user[u].selected, item |-> i]
           After(v, C) == {x \in decisions' : x.vigencia = v /\ x.candidates = C}
<1> USE DEF IInv
<1>1. /\ i \in DOMAIN items /\ IsConflict(i) /\ items[i].status = "open"
      /\ DecidedFor(items[i].date, items[i].key) = {}
      /\ decisions' = decisions \cup {new}
      /\ items' = [items EXCEPT ![i].status = "resolved"]
      /\ user' = [user EXCEPT ![u] = Idle]
      /\ UNCHANGED <<events, importer, batch>> /\ user[u].pc = "deciding"
  BY DEF UserInv, FinishDecision
<1>2. /\ new.vigencia = items[i].date /\ new.candidates = items[i].key
      /\ new.selected = user[u].selected /\ new.item = i
  OBVIOUS
<1> HIDE DEF new, i
<1>3. /\ items' \in Seq(ItemRecords) /\ DOMAIN items' = DOMAIN items
      /\ \A j \in (DOMAIN items) \ {i} : items'[j] = items[j]
      /\ items'[i].source = items[i].source /\ items'[i].date = items[i].date
      /\ items'[i].key = items[i].key /\ items'[i].evidence = items[i].evidence
      /\ items'[i].status = "resolved"
  BY <1>1, StatusWritten
<1>4. \A j \in DOMAIN items :
        /\ items'[j].source = items[j].source /\ items'[j].date = items[j].date
        /\ items'[j].key = items[j].key /\ items'[j].evidence = items[j].evidence
        /\ IsConflict(j)' = IsConflict(j) /\ IsRazao(j)' = IsRazao(j)
  BY <1>3 DEF IsConflict, IsRazao
<1>5. \A v, C : /\ DecidedFor(v, C) \subseteq After(v, C)
                /\ new \notin After(v, C) => After(v, C) = DecidedFor(v, C)
                /\ new \in After(v, C) <=> (v = items[i].date /\ C = items[i].key)
  BY <1>1, <1>2 DEF DecidedFor
<1> HIDE DEF After
<1>6. ItemInv'
  <2>1. ASSUME NEW j \in DOMAIN items, IsConflict(j)
        PROVE  /\ items'[j].key \subseteq items'[j].evidence
               /\ items'[j].status # "open" => After(items[j].date, items[j].key) # {}
    BY <1>3, <1>4, <1>5, <2>1 DEF ItemInv
  <2>2. ASSUME NEW j \in DOMAIN items', IsConflict(j)'
        PROVE  /\ items'[j].key \subseteq items'[j].evidence
               /\ items'[j].status # "open" => After(items'[j].date, items'[j].key) # {}
    BY <1>3, <1>4, <2>1, <2>2
  <2>3. ASSUME NEW j \in DOMAIN items', NEW k \in DOMAIN items', IsConflict(j)', IsConflict(k)',
               SameKey(items'[j], items'[k])
        PROVE  j = k
    BY <1>3, <1>4, <2>3 DEF ItemInv, SameKey
  <2>4. ASSUME NEW j \in DOMAIN items', IsRazao(j)' PROVE items'[j].key \in 0..(j - 1)
    BY <1>3, <1>4, <2>4 DEF ItemInv
  <2> QED BY <2>2, <2>3, <2>4 DEF ItemInv, DecidedFor, After
<1>7. DecisionInv'
  BY <1>1, <1>2, <1>3, <1>4 DEF DecisionInv
<1>8. ImportInv'
  BY <1>1 DEF ImportInv
<1>9. UserInv'
  <2>1. user'[u] = Idle /\ \A w \in Users \ {u} : user'[w] = user[w]
    BY <1>1 DEF ShapeOK
  <2>2. ASSUME NEW w \in Users, user'[w].pc = "deciding"
        PROVE  /\ user'[w].item \in DOMAIN items'
               /\ items'[user'[w].item].source = "snapshot_conflict"
               /\ items'[user'[w].item].status = "open"
               /\ After(items'[user'[w].item].date, items'[user'[w].item].key) = {}
    <3> DEFINE k == user[w].item
    <3>1. w # u /\ user'[w] = user[w]
      BY <2>1, <2>2 DEF Idle
    <3>2. /\ k \in DOMAIN items /\ k # i /\ IsConflict(k) /\ items[k].status = "open"
          /\ DecidedFor(items[k].date, items[k].key) = {}
      BY <1>1, <2>2, <3>1 DEF UserInv, i
    <3>3. ~SameKey(items[i], items[k])
      BY <1>1, <3>2 DEF ItemInv
    <3>4. new \notin After(items[k].date, items[k].key)
      BY <1>1, <1>5, <3>2, <3>3 DEF SameKey, IsConflict
    <3>5. After(items[k].date, items[k].key) = {}
      BY <1>5, <3>2, <3>4
    <3> HIDE DEF k
    <3>6. user'[w].item = k
      BY <3>1 DEF k
    <3>7. k \in DOMAIN items' /\ items'[k] = items[k]
      BY <1>3, <3>2
    <3> QED BY <3>2, <3>5, <3>6, <3>7 DEF IsConflict
  <2>3. ASSUME NEW w \in Users, user'[w].pc = "resolving"
        PROVE  /\ user'[w].item \in DOMAIN items'
               /\ items'[user'[w].item].source \in {Source.conflict, Source.missing}
    <3>1. user'[w] = user[w] /\ user[w].pc = "resolving"
      BY <2>1, <2>3 DEF Idle
    <3>2. user[w].item \in DOMAIN items /\ IsRazao(user[w].item)
      BY <3>1 DEF UserInv
    <3> QED BY <1>3, <1>4, <3>1, <3>2 DEF IsRazao
  <2>4. ASSUME NEW w \in Users, NEW x \in Users, user'[w].pc = "deciding",
               user'[x].pc = "deciding", user'[w].item = user'[x].item
        PROVE  w = x
    BY <2>1, <2>4 DEF UserInv, Idle
  <2> QED BY <2>2, <2>3, <2>4 DEF UserInv, DecidedFor, After, IsConflict, IsRazao
<1>10. DecidedOnce'
  <2> SUFFICES ASSUME NEW x \in decisions, x.vigencia = new.vigencia, x.candidates = new.candidates
               PROVE  FALSE
    BY <1>1 DEF DecidedOnce
  <2> QED BY <1>1, <1>2 DEF DecidedFor
<1>11. ConflictCanBeDecided'
  <2> SUFFICES ASSUME NEW v \in Vigencias, Choice(v)' = {}, Candidates(v)' # {}
               PROVE  \E j \in DOMAIN items' :
                        /\ items'[j].source = "snapshot_conflict" /\ items'[j].status = "open"
                        /\ items'[j].date = v /\ items'[j].key = Candidates(v)'
    BY DEF ConflictCanBeDecided
  <2>1. Candidates(v)' = Candidates(v)
    BY <1>1 DEF Candidates
  <2>2. Cardinality(Candidates(v)) # 1 /\ {x.selected : x \in After(v, Candidates(v))} = {}
    BY <2>1 DEF Choice, DecidedFor, After
  <2>3. After(v, Candidates(v)) = {}
    BY <2>2
  <2>4. Choice(v) = {}
    BY <1>5, <2>2, <2>3 DEF Choice
  <2>5. PICK j \in DOMAIN items :
          /\ items[j].source = "snapshot_conflict" /\ items[j].status = "open"
          /\ items[j].date = v /\ items[j].key = Candidates(v)
    BY <2>1, <2>4 DEF ConflictCanBeDecided
  <2>6. j # i
    BY <1>5, <2>3, <2>5
  <2> QED BY <1>3, <2>1, <2>5, <2>6
<1>12. ShapeOK'
  BY <1>1, <1>3 DEF ShapeOK, Candidates
<1> QED BY <1>6, <1>7, <1>8, <1>9, <1>10, <1>11, <1>12

-----------------------------------------------------------------------------
(* The end of an import *)

(* The item of a conflict is there afterwards: it is new and open, or one  *)
(* that gains evidence.                                                    *)
LEMMA GroupedItems ==
  ASSUME IInv, NEW c \in ItemRecords, items' = Grouped(items, c)
  PROVE  /\ items' \in Seq(ItemRecords) /\ DOMAIN items \subseteq DOMAIN items'
         /\ \A j \in DOMAIN items :
              /\ items'[j].source = items[j].source /\ items'[j].date = items[j].date
              /\ items'[j].key = items[j].key /\ items'[j].status = items[j].status
              /\ items[j].evidence \subseteq items'[j].evidence
         /\ \A j \in (DOMAIN items') \ (DOMAIN items) :
              items'[j] = c /\ j = Len(items) + 1 /\ Find(items, c) = {}
         /\ \E k \in DOMAIN items' :
              SameKey(items'[k], c) /\ (k \in DOMAIN items \/ items'[k] = c)
<1>1. items \in Seq(ItemRecords) /\ DOMAIN items = 1..Len(items) /\ Len(items) \in Nat
  BY DEF IInv, ShapeOK
<1>2. CASE Find(items, c) = {}
  <2>1. items' = Append(items, c)
    BY <1>2 DEF Grouped
  <2>2. /\ items' \in Seq(ItemRecords) /\ DOMAIN items' = 1..(Len(items) + 1)
        /\ items'[Len(items) + 1] = c /\ \A j \in 1..Len(items) : items'[j] = items[j]
    BY <2>1, <1>1
  <2>3. SameKey(items'[Len(items) + 1], c)
    BY <2>2 DEF SameKey
  <2> QED BY <1>1, <1>2, <2>2, <2>3
<1>3. CASE Find(items, c) # {}
  <2>1. \A j \in DOMAIN items :
          items'[j] = IF j \in Find(items, c)
                      THEN [items[j] EXCEPT !.evidence = @ \cup c.evidence] ELSE items[j]
    BY <1>3 DEF Grouped
  <2>2. c.evidence \in SUBSET (Snapshots \cup Batches)
    BY DEF ItemRecords
  <2>3. ASSUME NEW j \in DOMAIN items
        PROVE  /\ items'[j] \in ItemRecords
               /\ items'[j].source = items[j].source /\ items'[j].date = items[j].date
               /\ items'[j].key = items[j].key /\ items'[j].status = items[j].status
               /\ items[j].evidence \subseteq items'[j].evidence
    <3> DEFINE r == items[j]
               q == [r EXCEPT !.evidence = @ \cup c.evidence]
    <3>1. r \in ItemRecords
      BY <1>1
    <3>2. /\ q \in ItemRecords /\ q.evidence = r.evidence \cup c.evidence
          /\ q.source = r.source /\ q.date = r.date /\ q.key = r.key /\ q.status = r.status
      <4> HIDE DEF r
      <4> QED BY <3>1, <2>2, MoreEvidence
    <3> HIDE DEF q
    <3>3. items'[j] = q \/ items'[j] = items[j]
      BY <2>1 DEF q
    <3> QED BY <3>1, <3>2, <3>3
  <2>4. items' \in [1..Len(items) -> ItemRecords]
    <3>1. items' = [j \in 1..Len(items) |-> items'[j]]
      BY <1>1, <1>3 DEF Grouped
    <3>2. \A j \in 1..Len(items) : items'[j] \in ItemRecords
      BY <1>1, <2>3
    <3> HIDE DEF Grouped
    <3> QED BY <3>1, <3>2, Zenon
  <2>5. items' \in Seq(ItemRecords) /\ DOMAIN items' = DOMAIN items
    BY <1>1, <2>4
  <2>6. PICK k \in DOMAIN items : SameKey(items[k], c)
    BY <1>3 DEF Find
  <2>7. SameKey(items'[k], c)
    BY <2>3, <2>6 DEF SameKey
  <2> QED BY <2>3, <2>5, <2>6, <2>7
<1> QED BY <1>2, <1>3

LEMMA FinishImportStep ==
  ASSUME IInv, NEW i \in Importers, FinishImport(i)
  PROVE  IInv'
<1> DEFINE v == importer[i].event[2]
           C == importer[i].seen
           c == Conflict(v, C)
           opens == Cardinality(C) > 1 /\ DecidedFor(v, C) = {}
<1> USE DEF IInv
<1>1. PICK s \in Snapshots, w \in Vigencias : importer[i].event = <<s, w>>
  <2>1. importer[i] \in Imports
    BY DEF ShapeOK, FinishImport, Idle
  <2> QED BY <2>1 DEF Imports
<1>2. v = w /\ v \in Vigencias /\ C \subseteq Snapshots
  <2>1. importer[i] \in Imports
    BY DEF ShapeOK, FinishImport, Idle
  <2> QED BY <1>1, <2>1 DEF Imports
<1>3. events' = events \cup {<<s, w>>} /\ UNCHANGED <<decisions, user, batch>>
  BY <1>1, <1>2 DEF FinishImport
<1>4. C = CandidatesIn(events', v)
  BY <1>1, <1>2, <1>3 DEF ImportInv, FinishImport
<1>5. /\ \A x \in Vigencias \ {w} : CandidatesIn(events', x) = CandidatesIn(events, x)
      /\ CandidatesIn(events', w) = CandidatesIn(events, w) \cup {s}
  <2> DEFINE At(E, x) == {y \in E : y[2] = x}
  <2>1. \A x \in Vigencias \ {w} : At(events', x) = At(events, x)
    BY <1>3
  <2>2. At(events', w) = At(events, w) \cup {<<s, w>>}
    BY <1>3
  <2>3. \A E, x : CandidatesIn(E, x) = {y[1] : y \in At(E, x)}
    BY DEF CandidatesIn
  <2> HIDE DEF At
  <2>4. {y[1] : y \in (At(events, w) \cup {<<s, w>>})} = {y[1] : y \in At(events, w)} \cup {s}
    <3> DEFINE e == <<s, w>>
               A == At(events, w)
    <3>1. e[1] = s
      OBVIOUS
    <3> HIDE DEF e, A
    <3>2. {y[1] : y \in (A \cup {e})} = {y[1] : y \in A} \cup {e[1]}
      BY Zenon
    <3> QED BY <3>1, <3>2 DEF e, A
  <2> QED BY <2>1, <2>2, <2>3, <2>4
<1>6. items' = IF opens THEN Grouped(items, c) ELSE items
  BY DEF FinishImport
<1>7. /\ c.source = "snapshot_conflict" /\ c.date = v /\ c.key = C /\ c.status = "open"
      /\ c.evidence = C /\ c \in ItemRecords
  BY <1>2 DEF Conflict, Item, ItemRecords
<1> HIDE DEF v, C, c, opens
<1>8. /\ items' \in Seq(ItemRecords) /\ DOMAIN items \subseteq DOMAIN items'
      /\ \A j \in DOMAIN items :
           /\ items'[j].source = items[j].source /\ items'[j].date = items[j].date
           /\ items'[j].key = items[j].key /\ items'[j].status = items[j].status
           /\ items[j].evidence \subseteq items'[j].evidence
      /\ \A j \in (DOMAIN items') \ (DOMAIN items) :
           items'[j] = c /\ j = Len(items) + 1 /\ Find(items, c) = {}
      /\ opens => \E k \in DOMAIN items' :
           SameKey(items'[k], c) /\ (k \in DOMAIN items \/ items'[k] = c)
  <2>1. CASE opens
    BY <1>6, <1>7, <2>1, GroupedItems
  <2>2. CASE ~opens
    BY <1>6, <2>2 DEF ShapeOK
  <2> QED BY <2>1, <2>2
<1>9. ItemInv'
  <2>1. ASSUME NEW j \in DOMAIN items', items'[j].source = "snapshot_conflict"
        PROVE  /\ items'[j].key \subseteq items'[j].evidence
               /\ items'[j].status # "open" => DecidedFor(items'[j].date, items'[j].key) # {}
    <3>1. CASE j \in DOMAIN items
      BY <1>8, <2>1, <3>1 DEF ItemInv, IsConflict
    <3>2. CASE j \notin DOMAIN items
      BY <1>7, <1>8, <3>2
    <3> QED BY <3>1, <3>2
  <2>2. ASSUME NEW j \in DOMAIN items', NEW k \in DOMAIN items',
               items'[j].source = "snapshot_conflict", items'[k].source = "snapshot_conflict",
               SameKey(items'[j], items'[k])
        PROVE  j = k
    <3>1. CASE j \in DOMAIN items /\ k \in DOMAIN items
      BY <1>8, <2>2, <3>1 DEF ItemInv, IsConflict, SameKey
    <3>2. CASE j \notin DOMAIN items /\ k \notin DOMAIN items
      BY <1>8, <3>2
    <3>3. CASE j \in DOMAIN items /\ k \notin DOMAIN items
      BY <1>8, <2>2, <3>3 DEF Find, SameKey
    <3>4. CASE j \notin DOMAIN items /\ k \in DOMAIN items
      BY <1>8, <2>2, <3>4 DEF Find, SameKey
    <3> QED BY <3>1, <3>2, <3>3, <3>4
  <2>3. ASSUME NEW j \in DOMAIN items', items'[j].source \in {Source.conflict, Source.missing}
        PROVE  items'[j].key \in 0..(j - 1)
    <3>1. j \in DOMAIN items
      BY <1>7, <1>8, <2>3 DEF Source
    <3> QED BY <1>8, <2>3, <3>1 DEF ItemInv, IsRazao
  <2> QED BY <1>3, <2>1, <2>2, <2>3 DEF ItemInv, IsConflict, IsRazao, DecidedFor
<1>10. DecisionInv' /\ DecidedOnce'
  BY <1>3, <1>8 DEF DecisionInv, DecidedOnce, IsConflict
<1>11. ImportInv'
  BY DEF ImportInv, ShapeOK, FinishImport, Idle
<1>12. UserInv'
  <2>1. ASSUME NEW u \in Users, user[u].pc = "deciding"
        PROVE  /\ user[u].item \in DOMAIN items'
               /\ items'[user[u].item].source = "snapshot_conflict"
               /\ items'[user[u].item].status = "open"
               /\ DecidedFor(items'[user[u].item].date, items'[user[u].item].key) = {}
    BY <1>8, <2>1 DEF UserInv, IsConflict
  <2>2. ASSUME NEW u \in Users, user[u].pc = "resolving"
        PROVE  /\ user[u].item \in DOMAIN items'
               /\ items'[user[u].item].source \in {Source.conflict, Source.missing}
    BY <1>8, <2>2 DEF UserInv, IsRazao
  <2>3. \A u, x \in Users : /\ user[u].pc = "deciding" /\ user[x].pc = "deciding"
                            /\ user[u].item = user[x].item
                            => u = x
    BY DEF UserInv
  <2> QED BY <1>3, <2>1, <2>2, <2>3 DEF UserInv, IsConflict, IsRazao, DecidedFor
<1>13. \A x \in Vigencias : IsFiniteSet(CandidatesIn(events', x))
  <2>1. \A x \in Vigencias : IsFiniteSet(CandidatesIn(events, x))
    BY DEF ShapeOK, Candidates
  <2>2. IsFiniteSet(CandidatesIn(events, w) \cup {s})
    BY <1>2, <2>1, FS_AddElement
  <2> QED BY <1>5, <2>1, <2>2
<1>14. ConflictCanBeDecided'
  <2> DEFINE Cands(x) == CandidatesIn(events', x)
             Opened(x) == \E j \in DOMAIN items' :
               /\ items'[j].source = "snapshot_conflict" /\ items'[j].status = "open"
               /\ items'[j].date = x /\ items'[j].key = Cands(x)
  <2>1. ASSUME NEW x \in Vigencias, x # w, Choice(x)' = {}, Cands(x) # {}
        PROVE  Opened(x)
    <3>1. Candidates(x)' = Candidates(x) /\ Cands(x) = Candidates(x)
      BY <1>5, <2>1 DEF Candidates
    <3>2. Choice(x) = {}
      BY <1>3, <2>1, <3>1 DEF Choice, DecidedFor
    <3>3. PICK j \in DOMAIN items :
            /\ items[j].source = "snapshot_conflict" /\ items[j].status = "open"
            /\ items[j].date = x /\ items[j].key = Candidates(x)
      BY <2>1, <3>1, <3>2 DEF ConflictCanBeDecided
    <3> QED BY <1>8, <3>1, <3>3
  <2>2. ASSUME Choice(w)' = {}, Cands(w) # {} PROVE Opened(w)
    <3>1. Cardinality(C) # 1 /\ {x.selected : x \in DecidedFor(v, C)} = {}
      <4>1. Choice(w)' = IF Cardinality(C) = 1 THEN C ELSE {x.selected : x \in DecidedFor(v, C)}
        BY <1>2, <1>3, <1>4 DEF Choice, Candidates, DecidedFor
      <4>2. C # {}
        BY <1>2, <1>4, <2>2
      <4> QED BY <2>2, <4>1, <4>2
    <3>2. DecidedFor(v, C) = {}
      BY <3>1
    <3>3. Cardinality(C) > 1
      <4>1. IsFiniteSet(C) /\ C # {}
        BY <1>2, <1>4, <1>13, <2>2
      <4>2. Cardinality(C) \in Nat /\ Cardinality(C) # 0
        BY <4>1, FS_CardinalityType, FS_EmptySet
      <4> QED BY <3>1, <4>2
    <3>4. PICK k \in DOMAIN items' :
            SameKey(items'[k], c) /\ (k \in DOMAIN items \/ items'[k] = c)
      BY <1>8, <3>2, <3>3 DEF opens
    <3>5. items'[k].source = "snapshot_conflict" /\ items'[k].date = v /\ items'[k].key = C
      BY <1>7, <3>4 DEF SameKey
    <3>6. items'[k].status = "open"
      <4>1. CASE items'[k] = c
        BY <1>7, <4>1
      <4>2. CASE k \in DOMAIN items
        BY <1>8, <3>2, <3>5, <4>2 DEF ItemInv, IsConflict
      <4> QED BY <3>4, <4>1, <4>2
    <3> QED BY <1>2, <1>4, <3>5, <3>6
  <2> HIDE DEF Opened, Cands
  <2>3. \A x \in Vigencias : Choice(x)' = {} /\ Cands(x) # {} => Opened(x)
    BY <2>1, <2>2
  <2> QED BY <2>3 DEF ConflictCanBeDecided, Candidates, Opened, Cands
<1>15. ShapeOK'
  <2>1. events' \subseteq Snapshots \X Vigencias
    BY <1>2, <1>3 DEF ShapeOK
  <2>2. importer' \in [Importers -> {Idle} \cup Imports]
    BY DEF ShapeOK, FinishImport
  <2> QED BY <1>3, <1>8, <1>13, <2>1, <2>2 DEF ShapeOK, Candidates
<1> QED BY <1>9, <1>10, <1>11, <1>12, <1>14, <1>15

-----------------------------------------------------------------------------
(* The invariant *)

LEMMA InitOK == PlanoInit => IInv
<1> SUFFICES ASSUME PlanoInit PROVE IInv
  OBVIOUS
<1> USE DEF PlanoInit
<1>1. ShapeOK
  <2>1. \A v \in Vigencias : IsFiniteSet(Candidates(v))
    <3>1. \A v \in Vigencias : Candidates(v) = {}
      BY DEF Candidates, CandidatesIn
    <3> QED BY <3>1, FS_EmptySet
  <2>2. items \in Seq(ItemRecords) /\ Idle.pc = "idle"
    BY DEF Idle
  <2> QED BY <2>1, <2>2 DEF ShapeOK
<1>2. DOMAIN items = {}
  OBVIOUS
<1>3. ItemInv /\ DecisionInv /\ DecidedOnce
  BY <1>2 DEF ItemInv, DecisionInv, DecidedOnce
<1>4. ImportInv /\ UserInv
  BY DEF ImportInv, UserInv, Idle
<1>5. ConflictCanBeDecided
  BY DEF ConflictCanBeDecided, Candidates, CandidatesIn
<1> QED BY <1>1, <1>3, <1>4, <1>5 DEF IInv

LEMMA NextOK == IInv /\ [PlanoNext]_pvars => IInv'
<1> SUFFICES ASSUME IInv, [PlanoNext]_pvars PROVE IInv'
  OBVIOUS
<1>1. CASE PlanoNext
  <2>1. ASSUME NEW i \in Importers,
               \/ \E s \in Snapshots, v \in Vigencias : StartImport(i, s, v)
               \/ FinishImport(i) \/ AbortImport(i)
        PROVE  IInv'
    BY <2>1, StartImportStep, FinishImportStep, AbortImportStep
  <2>2. ASSUME NEW u \in Users,
               \/ \E i \in DOMAIN items, s \in Snapshots : StartDecision(u, i, s)
               \/ \E i \in DOMAIN items : CheckItem(u, i)
               \/ FinishDecision(u) \/ ResolveItem(u) \/ AbortUser(u)
        PROVE  IInv'
    BY <2>2, UserSteps, FinishDecisionStep, ResolveItemStep
  <2>3. ASSUME NEW l \in Batches,
               StartLote(l) \/ FinishLote(l) \/ \E d \in Dates : ReadDate(l, d)
        PROVE  IInv'
    BY <2>3, StartLoteStep, FinishLoteStep, ReadDateStep
  <2>4. ASSUME NEW i \in DOMAIN items, Dismiss(i) \/ Reopen(i) PROVE IInv'
    BY <2>4, DismissOrReopenStep
  <2> QED BY <1>1, <2>1, <2>2, <2>3, <2>4 DEF PlanoNext
<1>2. CASE UNCHANGED pvars
  <2>1. UNCHANGED <<events, decisions, items, importer, user>> /\ UNCHANGED batch
    BY <1>2 DEF pvars
  <2>2. ShapeOK'
    BY <2>1 DEF IInv, ShapeOK, Candidates
  <2> QED BY <2>1, <2>2, LoteOnly
<1> QED BY <1>1, <1>2

(* However imports, decisions, batches and review items overlap, a conflict*)
(* has one item with all its candidates as evidence, a decision is of the  *)
(* item whose candidates it names, and what an import read under the lock  *)
(* of the company is what is there when it commits.                        *)
THEOREM Invariance == PlanoSpec => []IInv
<1>1. PlanoInit => IInv
  BY InitOK
<1>2. IInv /\ [PlanoNext]_pvars => IInv'
  BY NextOK
<1> QED BY <1>1, <1>2, PTL DEF PlanoSpec

(* selecionar_snapshot: a chart that applies to a date was the only one of *)
(* its effective date, or was chosen with all that apply now before the    *)
(* person who chose; an import that adds a candidate undoes the choice.    *)
THEOREM ChoicesSeeAll == PlanoSpec => []ChosenAmongAll
<1>1. IInv => ChosenAmongAll
  <2> SUFFICES ASSUME IInv, NEW d \in Dates, Outcome(d) = "defined"
               PROVE  LET v == Max(Effective(d)) IN
                      \/ Cardinality(Candidates(v)) = 1
                      \/ \E x \in decisions : /\ x.selected \in Choice(v)
                                              /\ Candidates(v) \subseteq items[x.item].evidence
    BY DEF ChosenAmongAll
  <2> DEFINE v == Max(Effective(d))
  <2>1. Choice(v) # {}
    BY DEF Outcome
  <2> HIDE DEF v
  <2>2. ASSUME Cardinality(Candidates(v)) # 1
        PROVE  \E x \in decisions : /\ x.selected \in Choice(v)
                                    /\ Candidates(v) \subseteq items[x.item].evidence
    <3>1. PICK x \in DecidedFor(v, Candidates(v)) : x.selected \in Choice(v)
      BY <2>1, <2>2 DEF Choice
    <3>2. /\ x \in decisions /\ x.item \in DOMAIN items /\ IsConflict(x.item)
          /\ items[x.item].key = Candidates(v)
      BY <3>1 DEF DecidedFor, IInv, DecisionInv
    <3>3. Candidates(v) \subseteq items[x.item].evidence
      BY <3>2 DEF IInv, ItemInv
    <3> QED BY <3>1, <3>2, <3>3
  <2> QED BY <2>2 DEF v
<1> QED BY <1>1, Invariance, PTL

(* What is in conflict can be decided: an open item has exactly the        *)
(* candidates of now as its key, also when a decision and an import met.   *)
THEOREM ConflictsAreOpen == PlanoSpec => []ConflictCanBeDecided
<1>1. IInv => ConflictCanBeDecided
  BY DEF IInv
<1> QED BY <1>1, Invariance, PTL

(* resolver_conflito never meets the unique key of decisions: the lock of  *)
(* the item, and its end, are enough.                                      *)
THEOREM DecisionsAreUnique == PlanoSpec => []DecidedOnce
<1>1. IInv => DecidedOnce
  BY DEF IInv
<1> QED BY <1>1, Invariance, PTL

(* import_razao: whatever was closed or reopened before, every date of a   *)
(* batch that found no chart ends up in an open item that names the batch. *)
THEOREM BatchesAreReported == PlanoSpec => [][LinesAreReported]_pvars
<1>1. IInv /\ [PlanoNext]_pvars => LinesAreReported
  <2> SUFFICES ASSUME IInv, [PlanoNext]_pvars, NEW l \in Batches, batch[l].pc = "reading",
                      batch'[l].pc = "done", NEW d \in Reported(l)
               PROVE  \E i \in DOMAIN items' :
                        /\ items'[i].date = d /\ items'[i].source = Source[batch[l].seen[d]]
                        /\ items'[i].status = "open" /\ l \in items'[i].evidence
    BY DEF LinesAreReported
  <2>1. FinishLote(l)
    <3>1. batch'[l] # batch[l]
      OBVIOUS
    <3>2. PICK k \in Batches : StartLote(k) \/ FinishLote(k) \/ \E e \in Dates : ReadDate(k, e)
      BY <3>1 DEF PlanoNext, pvars, StartImport, FinishImport, AbortImport, StartDecision, CheckItem,
         FinishDecision, ResolveItem, AbortUser, Dismiss, Reopen
    <3>3. k = l
      BY <3>1, <3>2 DEF StartLote, FinishLote, ReadDate, IInv, ShapeOK
    <3>4. ~StartLote(l)
      BY DEF StartLote, Idle
    <3>5. ASSUME NEW e \in Dates, ReadDate(l, e) PROVE FALSE
      <4> DEFINE seen == [x \in DOMAIN batch[l].seen \cup {e} |->
                            IF x = e THEN Outcome(e) ELSE batch[l].seen[x]]
      <4>1. batch'[l] = [batch[l] EXCEPT !.seen = seen]
        BY <3>5 DEF ReadDate, IInv, ShapeOK
      <4>2. batch[l] \in Batch(l)
        BY DEF IInv, ShapeOK, Idle
      <4> HIDE DEF seen
      <4>3. batch'[l].pc = "reading"
        BY <4>1, <4>2 DEF Batch
      <4> QED BY <4>3
    <3> QED BY <3>2, <3>3, <3>4, <3>5
  <2> DEFINE c == ItemOf(l, d)
             n == Cardinality(Unseen(l))
  <2>2. /\ c.source = Source[batch[l].seen[d]] /\ c.date = d
        /\ c.status = "open" /\ c.evidence = {l} /\ ~ClosedKey(c.source, d, c.key)
    BY ItemOfBatch
  <2>3. PICK s \in Surjection(1..n, Unseen(l)) :
          /\ n \in Nat
          /\ items' \in Seq(ItemRecords)
          /\ DOMAIN items' = 1..(Len(items) + n)
          /\ \A i \in DOMAIN items : items'[i] = Gained(l)[i]
          /\ \A k \in DOMAIN s : items'[Len(items) + k] = ItemOf(l, s[k])
    BY <2>1, FinishLoteItems
  <2>4. DOMAIN items = 1..Len(items) /\ Len(items) \in Nat
    BY DEF IInv, ShapeOK
  <2> HIDE DEF c, n
  <2>5. CASE Find(items, c) # {}
    <3>1. PICK i \in DOMAIN items : SameKey(items[i], c)
      BY <2>5 DEF Find
    <3>2. items[i].source = c.source /\ items[i].date = d /\ items[i].key = c.key
      BY <2>2, <3>1 DEF SameKey
    <3>3. items[i].status = "open"
      BY <2>2, <3>2 DEF ClosedKey, InChain
    <3>4. /\ items'[i].source = items[i].source /\ items'[i].date = items[i].date
          /\ items'[i].status = items[i].status /\ l \in items'[i].evidence
      BY <2>3, <3>1, GainedItems DEF c
    <3>5. i \in DOMAIN items'
      BY <2>3, <2>4
    <3> QED BY <2>2, <3>2, <3>3, <3>4, <3>5
  <2>6. CASE Find(items, c) = {}
    <3>1. d \in Unseen(l)
      BY <2>6 DEF Unseen, c
    <3>2. PICK k \in 1..n : s[k] = d
      BY <3>1 DEF Surjection
    <3>3. DOMAIN s = 1..n
      BY DEF Surjection
    <3>4. items'[Len(items) + k] = c /\ Len(items) + k \in DOMAIN items'
      BY <2>3, <2>4, <3>2, <3>3 DEF c
    <3> QED BY <2>2, <3>4
  <2> QED BY <2>5, <2>6
<1> QED BY <1>1, Invariance, PTL DEF PlanoSpec

(* However imports of charts, decisions on conflicts, batches and the work *)
(* on items overlap: every choice was made with all the candidates before  *)
(* the person who chose, once; what is not chosen can be; and the lines it *)
(* concerns are the evidence of an open item.                              *)
THEOREM ConflictsSettled == PlanoSpec => ConflictsAreSettled
<1> QED
  BY ChoicesSeeAll, ConflictsAreOpen, DecisionsAreUnique, BatchesAreReported, PTL
     DEF ConflictsAreSettled

-----------------------------------------------------------------------------
(* The charts of SugestoesMovimentos.                                      *)

Classified == [status : {"pendente", "revisao", "sugerido"}, sug : {NoCode} \cup Predictable,
               chart : {"none"} \cup Charts, item : {"none", "temporal", "ml"}]
RunShape(r) ==
  /\ {"pc", "left", "made", "chart"} \subseteq DOMAIN r
  /\ r.left \subseteq Movs /\ r.made \in [Movs -> Classified]
  /\ DOMAIN r.chart \subseteq Movs
  /\ r.pc \in {"list", "dates"} => "first" \in DOMAIN r /\ r.first \in Charts
  /\ r.pc = "dates" => "dates" \in DOMAIN r /\ r.dates \subseteq ChartDates

(* Imports of one effective date are finitely many, and a conflict is      *)
(* decided once.                                                           *)
EventsInv ==
  /\ chartEvents \subseteq Charts \X ChartDates
  /\ \A v \in ChartDates : IsFiniteSet(CandidateCharts(v))
  /\ chosen \subseteq ChartDates \X (SUBSET Charts) \X Charts
  /\ \A x, y \in chosen : x[1] = y[1] /\ x[2] = y[2] => x = y

InChart(r) ==
  \A m \in Movs : r[m].sug # NoCode =>
    r[m].chart \in Charts /\ {m.conta, r[m].sug} \subseteq Entries[r[m].chart]

(* The charts a run holds have the accounts of their movements, and, while *)
(* no chart changes, apply to the whole period of those without a date.    *)
ChartsHold(c) ==
  \A m \in DOMAIN c :
    /\ c[m] \in Charts /\ m.conta \in Entries[c[m]]
    /\ same /\ m.date = NoDate => \A d \in m.inicio..m.fim : ChartAt(d) = {c[m]}

(* Where a run is with a movement without a date: the first day has the    *)
(* chart, and so has every later date that is not among those to ask for.  *)
AtMovement(r) ==
  r.pc \in {"list", "dates"} =>
    /\ r.left # {} /\ Head1.date = NoDate
    /\ same => ChartAt(Head1.inicio) = {r.first}
    /\ r.pc = "dates" /\ same =>
         \A v \in LaterDates(Head1) \ r.dates : ChartAt(v) = {r.first}

SugestoesInv ==
  /\ EventsInv
  /\ mov \in [Movs -> Classified] /\ InChart(mov)
  /\ same \in BOOLEAN
  /\ classifier # NotRunning =>
       /\ RunShape(classifier) /\ InChart(classifier.made)
       /\ ChartsHold(classifier.chart) /\ AtMovement(classifier)

-----------------------------------------------------------------------------
LEMMA OneChosen ==
  ASSUME EventsInv, NEW v \in ChartDates
  PROVE  /\ ChosenChart(v) \subseteq Charts
         /\ \A s, t \in ChosenChart(v) : s = t
<1>1. CandidateCharts(v) \subseteq Charts
  BY DEF EventsInv, CandidateCharts
<1>2. CASE Cardinality(CandidateCharts(v)) = 1
  <2>1. PICK s : CandidateCharts(v) = {s}
    BY <1>2, FS_Singleton DEF EventsInv
  <2> QED BY <2>1, <1>1, <1>2 DEF ChosenChart
<1>3. CASE Cardinality(CandidateCharts(v)) # 1
  <2> DEFINE C == CandidateCharts(v)
  <2>1. ChosenChart(v) = {x[3] : x \in {y \in chosen : y[1] = v /\ y[2] = C}}
    BY <1>3 DEF ChosenChart
  <2> HIDE DEF C
  <2> QED BY <2>1 DEF EventsInv
<1> QED BY <1>2, <1>3

LEMMA LatestDate ==
  ASSUME NEW d \in Nat, DatesUntil(d) # {}
  PROVE  /\ Max(DatesUntil(d)) \in DatesUntil(d)
         /\ \A v \in DatesUntil(d) : Max(DatesUntil(d)) >= v
<1> DEFINE V == DatesUntil(d)
<1>1. V \in SUBSET (0..d)
  <2>1. \A v \in V : v \in ChartDates /\ v <= d
    BY DEF DatesUntil
  <2>2. ChartDates \subseteq Nat
    BY SugestoesAssumption
  <2> HIDE DEF V
  <2>3. ASSUME NEW v \in V PROVE v \in 0..d
    <3>1. v \in Nat /\ v <= d
      BY <2>1, <2>2
    <3> QED BY <3>1
  <2> QED BY <2>3
<1> HIDE DEF V
<1>2. PICK x \in V : \A y \in V : y <= x
  BY <1>1, GreatestExists DEF V
<1>3. \A y \in V : x >= y
  BY <1>1, <1>2
<1>4. Max(V) \in V /\ \A y \in V : Max(V) >= y
  BY <1>2, <1>3 DEF Max
<1> QED BY <1>4 DEF V

(* A date has at most one chart.                                           *)
LEMMA OneChart ==
  ASSUME EventsInv, NEW d \in Nat
  PROVE  ChartAt(d) \subseteq Charts /\ \A s, t \in ChartAt(d) : s = t
<1>1. CASE DatesUntil(d) = {}
  BY <1>1 DEF ChartAt
<1>2. CASE DatesUntil(d) # {}
  <2>1. Max(DatesUntil(d)) \in ChartDates
    BY <1>2, LatestDate DEF DatesUntil
  <2> DEFINE v == Max(DatesUntil(d))
  <2>2. ChartAt(d) = ChosenChart(v)
    BY <1>2 DEF ChartAt
  <2> HIDE DEF v
  <2> QED BY <2>1, <2>2, OneChosen DEF v
<1> QED BY <1>1, <1>2

LEMMA OneChartIsIt ==
  ASSUME EventsInv, NEW d \in Nat, ChartAt(d) # {}
  PROVE  /\ (CHOOSE s \in ChartAt(d) : TRUE) \in Charts
         /\ ChartAt(d) = {CHOOSE s \in ChartAt(d) : TRUE}
<1> DEFINE C == ChartAt(d)
<1>1. C # {} /\ C \subseteq Charts /\ \A s, t \in C : s = t
  BY OneChart
<1> HIDE DEF C
<1>2. (CHOOSE s \in C : TRUE) \in C
  BY <1>1
<1> QED BY <1>1, <1>2 DEF C

(* One chart on the first day and on every later effective date: it is the *)
(* chart of the whole period.                                              *)
LEMMA WholePeriod ==
  ASSUME NEW m \in Movs, NEW s, ChartAt(m.inicio) = {s},
         \A v \in LaterDates(m) : ChartAt(v) = {s},
         NEW d \in m.inicio..m.fim
  PROVE  ChartAt(d) = {s}
<1>1. m.inicio \in Nat /\ m.fim \in Nat /\ d \in Nat /\ m.inicio <= d /\ d <= m.fim
  BY SugestoesAssumption
<1> DEFINE V == DatesUntil(d)
           W == DatesUntil(m.inicio)
           v == Max(V)
           w == Max(W)
<1>2. W # {} /\ W \subseteq V
  <2>1. ChartDates \subseteq Nat
    BY SugestoesAssumption
  <2>2. W # {}
    BY DEF ChartAt
  <2>3. ASSUME NEW x \in W PROVE x \in V
    BY <1>1, <2>1 DEF DatesUntil
  <2> QED BY <2>2, <2>3
<1>3. v \in V /\ \A x \in V : v >= x
  BY <1>1, <1>2, LatestDate
<1>4. w \in W /\ \A x \in W : w >= x
  BY <1>1, <1>2, LatestDate
<1>5. v \in Nat /\ w \in Nat /\ v <= d /\ w <= m.inicio /\ v \in ChartDates /\ CandidateCharts(v) # {}
  BY <1>3, <1>4, SugestoesAssumption DEF DatesUntil
<1>6. ChartAt(d) = ChosenChart(v) /\ ChartAt(m.inicio) = ChosenChart(w)
  BY <1>2 DEF ChartAt
<1>7. CASE v <= m.inicio
  <2>1. v \in W
    BY <1>5, <1>7 DEF DatesUntil
  <2> HIDE DEF v, w, V, W
  <2>2. v = w
    BY <2>1, <1>2, <1>3, <1>4, <1>5
  <2> QED BY <2>2, <1>6
<1>8. CASE v > m.inicio
  <2>1. v \in LaterDates(m)
    BY <1>1, <1>5, <1>8 DEF LaterDates
  <2>2. v \in DatesUntil(v)
    BY <1>5 DEF DatesUntil
  <2>3. \A x \in DatesUntil(v) : x \in V
    BY <1>1, <1>5, SugestoesAssumption DEF DatesUntil
  <2> DEFINE u == Max(DatesUntil(v))
  <2> HIDE DEF v
  <2>4. u \in DatesUntil(v) /\ u >= v
    BY <2>2, <1>5, LatestDate
  <2>5. u \in Nat /\ v >= u
    BY <2>3, <2>4, <1>3, SugestoesAssumption DEF DatesUntil
  <2>6. u = v
    BY <2>4, <2>5, <1>5
  <2>7. ChartAt(v) = ChosenChart(u)
    BY <2>2 DEF ChartAt
  <2> QED BY <2>1, <2>6, <2>7, <1>6
<1> QED BY <1>1, <1>5, <1>7, <1>8

(* The movement at hand.                                                   *)
LEMMA HeadIsLeft ==
  ASSUME classifier.left \subseteq Movs, classifier.left # {}
  PROVE  Head1 \in classifier.left /\ Head1 \in Movs
<1> DEFINE T == {m.id : m \in classifier.left}
<1>1. T \in SUBSET Nat /\ T # {}
  BY SugestoesAssumption
<1> HIDE DEF T
<1>2. Min(T) \in T /\ \A y \in T : Min(T) <= y
  BY <1>1, LeastExists
<1> USE DEF T
<1>3. PICK m \in classifier.left : m.id = Min(T)
  BY <1>2
<1>4. \A k \in classifier.left : m.id <= k.id
  BY <1>2, <1>3
<1> QED BY <1>3, <1>4 DEF Head1

-----------------------------------------------------------------------------
(* Steps of a run *)

(* The charts stay, and with them what they answer.                        *)
LEMMA ChartsStay ==
  ASSUME UNCHANGED <<chartEvents, chosen>>
  PROVE  /\ \A d : ChartAt(d)' = ChartAt(d)
         /\ \A m : LaterDates(m)' = LaterDates(m)
         /\ \A v : CandidateCharts(v)' = CandidateCharts(v)
         /\ EventsInv => EventsInv'
<1>1. \A v : CandidateCharts(v)' = CandidateCharts(v)
  BY DEF CandidateCharts
<1>2. \A v : ChosenChart(v)' = ChosenChart(v)
  BY <1>1 DEF ChosenChart
<1>3. \A d : DatesUntil(d)' = DatesUntil(d)
  BY <1>1 DEF DatesUntil
<1>4. \A d : ChartAt(d)' = ChartAt(d)
  BY <1>2, <1>3 DEF ChartAt
<1>5. \A m : LaterDates(m)' = LaterDates(m)
  BY <1>1 DEF LaterDates
<1> QED BY <1>1, <1>4, <1>5 DEF EventsInv

LEMMA RunTurns ==
  ASSUME SugestoesInv, NEW r, Turns(r), r = NotRunning \/
           /\ RunShape(r) /\ InChart(r.made) /\ ChartsHold(r.chart)
           /\ r.pc \in {"list", "dates"} => r.left = classifier.left /\ AtMovement(r)
  PROVE  SugestoesInv'
<1>1. /\ classifier' = r /\ UNCHANGED <<chartEvents, chosen, model, mov, same, changes>>
  BY DEF Turns
<1>2. /\ \A d : ChartAt(d)' = ChartAt(d)
      /\ \A m : LaterDates(m)' = LaterDates(m)
      /\ EventsInv'
  BY <1>1, ChartsStay DEF SugestoesInv
<1>3. ASSUME r # NotRunning
      PROVE  /\ RunShape(classifier)' /\ InChart(classifier.made)'
             /\ ChartsHold(classifier.chart)' /\ AtMovement(classifier)'
  <2>1. RunShape(classifier)' /\ InChart(classifier.made)'
    BY <1>1, <1>3 DEF RunShape, InChart
  <2>2. ChartsHold(classifier.chart)'
    BY <1>1, <1>2, <1>3 DEF ChartsHold
  <2>3. AtMovement(classifier)'
    <3> SUFFICES ASSUME r.pc \in {"list", "dates"} PROVE AtMovement(classifier)'
      BY <1>1 DEF AtMovement
    <3>1. r.left = classifier.left /\ AtMovement(r)
      BY <1>3
    <3>2. Head1' = Head1
      BY <1>1, <3>1 DEF Head1
    <3> QED BY <1>1, <1>2, <3>1, <3>2 DEF AtMovement
  <2> QED BY <2>1, <2>2, <2>3
<1>4. mov' \in [Movs -> Classified] /\ InChart(mov)' /\ same' \in BOOLEAN
  BY <1>1 DEF SugestoesInv, InChart
<1> QED BY <1>1, <1>2, <1>3, <1>4 DEF SugestoesInv

(* A movement goes to review: its run goes on without it.                  *)
LEMMA ReviewedStep ==
  ASSUME SugestoesInv, classifier # NotRunning, classifier.left # {}, NEW r,
         r = Reviewed(Head1) \/
           ("dates" \in DOMAIN classifier /\ r = [Reviewed(Head1) EXCEPT !.dates = {}])
  PROVE  /\ RunShape(r) /\ InChart(r.made) /\ ChartsHold(r.chart) /\ r.pc = "context"
<1>1. RunShape(classifier) /\ InChart(classifier.made) /\ ChartsHold(classifier.chart)
  BY DEF SugestoesInv
<1>2. Head1 \in Movs
  BY <1>1, HeadIsLeft DEF RunShape
<1> DEFINE made == [classifier.made EXCEPT ![Head1] = TemporalReview]
<1>3. /\ r.pc = "context" /\ r.left = classifier.left \ {Head1}
      /\ r.made = made /\ r.chart = classifier.chart
      /\ {"pc", "left", "made", "chart"} \subseteq DOMAIN r
  BY <1>1 DEF Reviewed, RunShape
<1>4. TemporalReview \in Classified /\ TemporalReview.sug = NoCode
  BY DEF TemporalReview, Pending, Classified
<1>5. made \in [Movs -> Classified]
  BY <1>1, <1>4 DEF RunShape
<1>6. InChart(made)
  BY <1>1, <1>2, <1>4 DEF InChart, RunShape
<1> HIDE DEF made
<1>7. RunShape(r)
  BY <1>1, <1>3, <1>5 DEF RunShape
<1> QED BY <1>1, <1>3, <1>6, <1>7

LEMMA WithChartStep ==
  ASSUME SugestoesInv, classifier # NotRunning, classifier.left # {}, NEW s \in Charts,
         same /\ Head1.date = NoDate =>
           \A d \in Head1.inicio..Head1.fim : ChartAt(d) = {s},
         Turns(WithChart(Head1, s))
  PROVE  SugestoesInv'
<1>1. RunShape(classifier) /\ InChart(classifier.made) /\ ChartsHold(classifier.chart)
  BY DEF SugestoesInv
<1>2. Head1 \in Movs
  BY <1>1, HeadIsLeft DEF RunShape
<1>3. CASE Head1.conta \notin Entries[s]
  <2>1. Turns(Reviewed(Head1))
    BY <1>3 DEF WithChart
  <2> QED BY <2>1, ReviewedStep, RunTurns
<1>4. CASE Head1.conta \in Entries[s]
  <2> DEFINE c == [x \in DOMAIN classifier.chart \cup {Head1} |->
                     IF x = Head1 THEN s ELSE classifier.chart[x]]
             r == [pc |-> "context", left |-> classifier.left \ {Head1},
                   made |-> classifier.made, chart |-> c]
  <2>1. Turns(r)
    BY <1>4 DEF WithChart
  <2>2. ChartsHold(c)
    <3>1. ASSUME NEW m \in DOMAIN c
          PROVE  /\ c[m] \in Charts /\ m.conta \in Entries[c[m]]
                 /\ same /\ m.date = NoDate => \A d \in m.inicio..m.fim : ChartAt(d) = {c[m]}
      <4>1. CASE m = Head1
        BY <4>1, <1>4
      <4>2. CASE m # Head1
        <5>1. m \in DOMAIN classifier.chart /\ c[m] = classifier.chart[m]
          BY <4>2
        <5> HIDE DEF c
        <5> QED BY <5>1, <1>1 DEF ChartsHold
      <4> QED BY <4>1, <4>2
    <3> HIDE DEF c
    <3> QED BY <3>1 DEF ChartsHold
  <2>3. DOMAIN c \subseteq Movs
    BY <1>1, <1>2 DEF RunShape
  <2> HIDE DEF c
  <2>4. RunShape(r) /\ InChart(r.made) /\ ChartsHold(r.chart) /\ r.pc = "context"
    BY <1>1, <2>2, <2>3 DEF RunShape
  <2> HIDE DEF r
  <2> QED BY <2>1, <2>4, RunTurns
<1> QED BY <1>3, <1>4

LEMMA DatedStep ==
  ASSUME SugestoesInv, DatedMovement
  PROVE  SugestoesInv'
<1>1. classifier # NotRunning /\ classifier.left # {} /\ Head1.date # NoDate
  BY DEF DatedMovement, NotRunning
<1>2. CASE ChartAt(Head1.date) = {}
  <2>1. Turns(Reviewed(Head1))
    BY <1>2 DEF DatedMovement
  <2> QED BY <2>1, <1>1, ReviewedStep, RunTurns
<1>3. CASE ChartAt(Head1.date) # {}
  <2> DEFINE s == CHOOSE s \in ChartAt(Head1.date) : TRUE
  <2>1. Turns(WithChart(Head1, s))
    BY <1>3 DEF DatedMovement
  <2>2. Head1.date \in Nat
    BY <1>1, HeadIsLeft, SugestoesAssumption DEF SugestoesInv, RunShape
  <2>3. s \in Charts
    BY <1>3, <2>2, OneChartIsIt DEF SugestoesInv
  <2> HIDE DEF s
  <2> QED BY <2>1, <2>3, <1>1, WithChartStep
<1> QED BY <1>2, <1>3

LEMMA FirstDayStep ==
  ASSUME SugestoesInv, FirstDay
  PROVE  SugestoesInv'
<1>1. classifier # NotRunning /\ classifier.left # {} /\ Head1.date = NoDate
  BY DEF FirstDay, NotRunning
<1>2. CASE ChartAt(Head1.inicio) = {}
  <2>1. Turns(Reviewed(Head1))
    BY <1>2 DEF FirstDay
  <2> QED BY <2>1, <1>1, ReviewedStep, RunTurns
<1>3. CASE ChartAt(Head1.inicio) # {}
  <2> DEFINE s == CHOOSE s \in ChartAt(Head1.inicio) : TRUE
             r == [pc |-> "list", left |-> classifier.left, made |-> classifier.made,
                   chart |-> classifier.chart, first |-> s]
  <2>1. Turns(r)
    BY <1>3 DEF FirstDay
  <2>2. Head1.inicio \in Nat
    BY <1>1, HeadIsLeft, SugestoesAssumption DEF SugestoesInv, RunShape
  <2>3. s \in Charts /\ ChartAt(Head1.inicio) = {s}
    BY <1>3, <2>2, OneChartIsIt DEF SugestoesInv
  <2> HIDE DEF s
  <2>4. RunShape(r) /\ InChart(r.made) /\ ChartsHold(r.chart)
    BY <1>1, <2>3 DEF SugestoesInv, RunShape
  <2>5. r.left = classifier.left /\ AtMovement(r)
    BY <1>1, <2>3 DEF AtMovement
  <2> HIDE DEF r
  <2> QED BY <2>1, <2>4, <2>5, RunTurns
<1> QED BY <1>2, <1>3

LEMMA ListStep ==
  ASSUME SugestoesInv, ListDates
  PROVE  SugestoesInv'
<1> DEFINE r == [pc |-> "dates", left |-> classifier.left, made |-> classifier.made,
                 chart |-> classifier.chart, first |-> classifier.first,
                 dates |-> LaterDates(Head1)]
<1>1. Turns(r) /\ classifier # NotRunning /\ classifier.pc = "list"
  BY DEF ListDates, NotRunning
<1>2. LaterDates(Head1) \subseteq ChartDates
  BY DEF LaterDates
<1>3. RunShape(r) /\ InChart(r.made) /\ ChartsHold(r.chart)
  BY <1>1, <1>2 DEF SugestoesInv, RunShape
<1>4. r.left = classifier.left /\ AtMovement(r)
  BY <1>1 DEF SugestoesInv, AtMovement
<1> HIDE DEF r
<1> QED BY <1>1, <1>3, <1>4, RunTurns

LEMMA NextDateStep ==
  ASSUME SugestoesInv, NextDate
  PROVE  SugestoesInv'
<1>1. /\ classifier # NotRunning /\ classifier.pc = "dates"
      /\ RunShape(classifier) /\ InChart(classifier.made) /\ ChartsHold(classifier.chart)
      /\ AtMovement(classifier)
  BY DEF SugestoesInv, NextDate, NotRunning
<1>2. /\ classifier.left # {} /\ Head1.date = NoDate
      /\ same => ChartAt(Head1.inicio) = {classifier.first}
      /\ same => \A v \in LaterDates(Head1) \ classifier.dates : ChartAt(v) = {classifier.first}
  BY <1>1 DEF AtMovement
<1>3. /\ classifier.first \in Charts /\ classifier.dates \subseteq ChartDates
      /\ {"first", "dates"} \subseteq DOMAIN classifier /\ Head1 \in Movs
  BY <1>1, <1>2, HeadIsLeft DEF RunShape
<1>4. CASE classifier.dates = {}
  <2>1. Turns(WithChart(Head1, classifier.first))
    BY <1>4 DEF NextDate
  <2>2. same => \A d \in Head1.inicio..Head1.fim : ChartAt(d) = {classifier.first}
    BY <1>2, <1>3, <1>4, WholePeriod
  <2> QED BY <2>1, <2>2, <1>1, <1>2, <1>3, WithChartStep
<1> DEFINE v == Min(classifier.dates)
<1>5. CASE classifier.dates # {} /\ ChartAt(v) = {classifier.first}
  <2> DEFINE r == [classifier EXCEPT !.dates = @ \ {v}]
  <2>1. Turns(r)
    BY <1>5 DEF NextDate
  <2> HIDE DEF v
  <2>2. /\ r.dates = classifier.dates \ {v} /\ DOMAIN r = DOMAIN classifier
        /\ r.pc = "dates" /\ r.left = classifier.left /\ r.made = classifier.made
        /\ r.chart = classifier.chart /\ r.first = classifier.first
    BY <1>1, <1>3 DEF RunShape
  <2> HIDE DEF r
  <2>3. RunShape(r) /\ InChart(r.made) /\ ChartsHold(r.chart)
    BY <1>1, <2>2 DEF RunShape
  <2>4. AtMovement(r)
    BY <1>2, <1>5, <2>2 DEF AtMovement
  <2> QED BY <2>1, <2>2, <2>3, <2>4, RunTurns
<1>6. CASE classifier.dates # {} /\ ChartAt(v) # {classifier.first}
  <2>1. Turns([Reviewed(Head1) EXCEPT !.dates = {}])
    BY <1>6 DEF NextDate
  <2> QED BY <2>1, <1>1, <1>2, <1>3, ReviewedStep, RunTurns
<1> QED BY <1>4, <1>5, <1>6

(* What a version decides is in the chart that the run holds.              *)
LEMMA MadeStep ==
  ASSUME SugestoesInv, classifier # NotRunning, NEW r, NEW w,
         \A m \in DOMAIN classifier.chart :
           w[m] \in Classified /\ (w[m].sug # NoCode =>
             /\ w[m].chart = classifier.chart[m]
             /\ w[m].sug \in Entries[classifier.chart[m]]),
         r = [classifier EXCEPT !.pc = "publish",
                !.made = [m \in Movs |-> IF m \in DOMAIN classifier.chart THEN w[m] ELSE @[m]]]
  PROVE  /\ RunShape(r) /\ InChart(r.made) /\ ChartsHold(r.chart) /\ r.pc = "publish"
<1> DEFINE made == [m \in Movs |-> IF m \in DOMAIN classifier.chart
                                  THEN w[m] ELSE classifier.made[m]]
<1>1. /\ RunShape(classifier) /\ InChart(classifier.made) /\ ChartsHold(classifier.chart)
  BY DEF SugestoesInv
<1>2. /\ r.pc = "publish" /\ r.made = made /\ r.left = classifier.left
      /\ r.chart = classifier.chart /\ DOMAIN r = DOMAIN classifier
  BY <1>1 DEF RunShape
<1>3. made \in [Movs -> Classified]
  BY <1>1 DEF RunShape
<1>4. InChart(made)
  BY <1>1 DEF InChart, ChartsHold
<1> HIDE DEF made
<1> QED BY <1>1, <1>2, <1>3, <1>4 DEF RunShape

LEMMA ReadVersionStep ==
  ASSUME SugestoesInv, ReadVersion
  PROVE  SugestoesInv'
<1>1. /\ classifier # NotRunning /\ classifier.pc = "context"
      /\ RunShape(classifier) /\ InChart(classifier.made) /\ ChartsHold(classifier.chart)
  BY DEF SugestoesInv, ReadVersion, NotRunning
<1>2. CASE model
  <2> DEFINE r == [classifier EXCEPT !.pc = "predict"]
  <2>1. Turns(r)
    BY <1>2 DEF ReadVersion
  <2>2. /\ DOMAIN r = DOMAIN classifier /\ r.pc = "predict" /\ r.left = classifier.left
        /\ r.made = classifier.made /\ r.chart = classifier.chart
    BY <1>1 DEF RunShape
  <2> HIDE DEF r
  <2>3. RunShape(r)
    BY <1>1, <2>2 DEF RunShape
  <2> QED BY <1>1, <2>1, <2>2, <2>3, RunTurns
<1>3. CASE ~model
  <2> DEFINE w == [m \in DOMAIN classifier.chart |-> MlReview(classifier.chart[m])]
             r == [classifier EXCEPT !.pc = "publish",
                     !.made = [m \in Movs |-> IF m \in DOMAIN classifier.chart
                                 THEN w[m] ELSE @[m]]]
  <2>1. Turns(r)
    BY <1>3 DEF ReadVersion
  <2>2. \A m \in DOMAIN classifier.chart : w[m] \in Classified /\ w[m].sug = NoCode
    BY <1>1 DEF ChartsHold, MlReview, Pending, Classified
  <2> HIDE DEF w
  <2>3. RunShape(r) /\ InChart(r.made) /\ ChartsHold(r.chart) /\ r.pc = "publish"
    BY <1>1, <2>2, MadeStep
  <2> HIDE DEF r
  <2> QED BY <2>1, <2>3, RunTurns
<1> QED BY <1>2, <1>3

LEMMA PredictStep ==
  ASSUME SugestoesInv, Predict
  PROVE  SugestoesInv'
<1>1. /\ classifier # NotRunning
      /\ RunShape(classifier) /\ InChart(classifier.made) /\ ChartsHold(classifier.chart)
  BY DEF SugestoesInv, Predict, NotRunning
<1>2. PICK best \in [DOMAIN classifier.chart -> Predictable],
           sure \in [DOMAIN classifier.chart -> BOOLEAN] :
        Turns([classifier EXCEPT !.pc = "publish",
                !.made = [m \in Movs |-> IF m \in DOMAIN classifier.chart
                            THEN Predicted(classifier.chart[m], best[m], sure[m]) ELSE @[m]]])
  BY DEF Predict
<1> DEFINE w == [m \in DOMAIN classifier.chart |->
                   Predicted(classifier.chart[m], best[m], sure[m])]
           r == [classifier EXCEPT !.pc = "publish",
                   !.made = [m \in Movs |-> IF m \in DOMAIN classifier.chart
                               THEN w[m] ELSE @[m]]]
<1>3. Turns(r)
  BY <1>2
<1>4. ASSUME NEW m \in DOMAIN classifier.chart
      PROVE  w[m] \in Classified /\ (w[m].sug # NoCode =>
               /\ w[m].chart = classifier.chart[m]
               /\ w[m].sug \in Entries[classifier.chart[m]])
  <2>1. classifier.chart[m] \in Charts /\ best[m] \in Predictable
    BY <1>1 DEF ChartsHold
  <2> QED BY <2>1 DEF Predicted, MlReview, Pending, Classified
<1> HIDE DEF w
<1>5. RunShape(r) /\ InChart(r.made) /\ ChartsHold(r.chart) /\ r.pc = "publish"
  BY <1>1, <1>4, MadeStep
<1> HIDE DEF r
<1> QED BY <1>3, <1>5, RunTurns

-----------------------------------------------------------------------------
(* The other steps *)

LEMMA BeginRunStep ==
  ASSUME SugestoesInv, BeginRun
  PROVE  SugestoesInv'
<1> DEFINE r == [pc |-> "context", left |-> {m \in Movs : mov[m] = Pending},
                 made |-> mov, chart |-> << >>]
<1>1. classifier' = r /\ same' = TRUE /\ UNCHANGED <<chartEvents, chosen, mov>>
  BY DEF BeginRun
<1>2. EventsInv'
  BY <1>1, ChartsStay DEF SugestoesInv
<1>3. RunShape(r) /\ InChart(r.made)
  BY DEF SugestoesInv, RunShape
<1>4. DOMAIN r.chart = {} /\ r.pc = "context"
  OBVIOUS
<1> HIDE DEF r
<1>5. /\ RunShape(classifier)' /\ InChart(classifier.made)'
      /\ ChartsHold(classifier.chart)' /\ AtMovement(classifier)'
  BY <1>1, <1>3, <1>4 DEF RunShape, InChart, ChartsHold, AtMovement
<1> QED BY <1>1, <1>2, <1>5 DEF SugestoesInv, InChart

LEMMA PublishStep ==
  ASSUME SugestoesInv, Publish
  PROVE  SugestoesInv'
<1>1. /\ classifier # NotRunning /\ mov' = classifier.made /\ classifier' = NotRunning
      /\ UNCHANGED <<chartEvents, chosen, same>>
  BY DEF Publish, NotRunning
<1>2. EventsInv'
  BY <1>1, ChartsStay DEF SugestoesInv
<1>3. classifier.made \in [Movs -> Classified] /\ InChart(classifier.made)
  BY <1>1 DEF SugestoesInv, RunShape
<1> QED BY <1>1, <1>2, <1>3 DEF SugestoesInv, InChart

(* An import or a decision: what a run holds may not apply any more, and   *)
(* same says so.                                                           *)
LEMMA ChangeStep ==
  ASSUME SugestoesInv, Change, EventsInv'
  PROVE  SugestoesInv'
<1>1. same' = FALSE /\ UNCHANGED <<mov, classifier>>
  BY DEF Change
<1>2. ASSUME classifier # NotRunning
      PROVE  /\ RunShape(classifier)' /\ InChart(classifier.made)'
             /\ ChartsHold(classifier.chart)' /\ AtMovement(classifier)'
  <2>1. /\ RunShape(classifier) /\ InChart(classifier.made)
        /\ ChartsHold(classifier.chart) /\ AtMovement(classifier)
    BY <1>2 DEF SugestoesInv
  <2>2. Head1' = Head1
    BY <1>1 DEF Head1
  <2>3. RunShape(classifier)' /\ InChart(classifier.made)'
    BY <1>1, <2>1 DEF RunShape, InChart
  <2>4. ChartsHold(classifier.chart)'
    BY <1>1, <2>1 DEF ChartsHold
  <2>5. AtMovement(classifier)'
    BY <1>1, <2>1, <2>2 DEF AtMovement
  <2> QED BY <2>3, <2>4, <2>5
<1> QED BY <1>1, <1>2 DEF SugestoesInv, InChart

LEMMA ImportChartStep ==
  ASSUME SugestoesInv, NEW s \in Charts, NEW v \in ChartDates, ImportChart(s, v)
  PROVE  SugestoesInv'
<1>1. chartEvents' = chartEvents \cup {<<s, v>>} /\ chosen' = chosen
  BY DEF ImportChart
<1>2. ASSUME NEW u \in ChartDates
      PROVE  IsFiniteSet(CandidateCharts(u)')
  <2>1. IsFiniteSet(CandidateCharts(u))
    BY DEF SugestoesInv, EventsInv
  <2>2. CandidateCharts(u)' \subseteq CandidateCharts(u) \cup {s}
    BY <1>1 DEF CandidateCharts
  <2>3. IsFiniteSet(CandidateCharts(u) \cup {s})
    BY <2>1, FS_AddElement
  <2> QED BY <2>2, <2>3, FS_Subset
<1>3. EventsInv'
  BY <1>1, <1>2 DEF SugestoesInv, EventsInv
<1> QED BY <1>3, ChangeStep DEF ImportChart

LEMMA DecideConflictStep ==
  ASSUME SugestoesInv, NEW s \in Charts, NEW v \in ChartDates, DecideConflict(v, s)
  PROVE  SugestoesInv'
<1> DEFINE C == CandidateCharts(v)
<1>1. /\ chosen' = chosen \cup {<<v, C, s>>} /\ chartEvents' = chartEvents
      /\ Cardinality(C) > 1 /\ ChosenChart(v) = {}
  BY DEF DecideConflict
<1>2. C \subseteq Charts
  BY DEF SugestoesInv, EventsInv, CandidateCharts
<1>3. \A u : CandidateCharts(u)' = CandidateCharts(u)
  BY <1>1 DEF CandidateCharts
<1>4. \A x \in chosen : ~(x[1] = v /\ x[2] = C)
  <2>1. Cardinality(C) # 1
    BY <1>1
  <2>2. ChosenChart(v) = {x[3] : x \in {y \in chosen : y[1] = v /\ y[2] = C}}
    BY <2>1 DEF ChosenChart
  <2> HIDE DEF C
  <2> QED BY <1>1, <2>2
<1> HIDE DEF C
<1>5. chosen' \subseteq ChartDates \X (SUBSET Charts) \X Charts
  BY <1>1, <1>2 DEF SugestoesInv, EventsInv
<1>6. \A x, y \in chosen' : x[1] = y[1] /\ x[2] = y[2] => x = y
  BY <1>1, <1>4 DEF SugestoesInv, EventsInv
<1>7. EventsInv'
  BY <1>1, <1>3, <1>5, <1>6 DEF SugestoesInv, EventsInv
<1> QED BY <1>7, ChangeStep DEF DecideConflict

LEMMA SugestoesStarts == SugestoesInit => SugestoesInv
<1> SUFFICES ASSUME SugestoesInit PROVE SugestoesInv
  OBVIOUS
<1>1. \A v : CandidateCharts(v) = {}
  BY DEF SugestoesInit, CandidateCharts
<1>2. EventsInv
  BY <1>1, FS_EmptySet DEF SugestoesInit, EventsInv
<1>3. Pending \in Classified /\ Pending.sug = NoCode
  BY DEF Pending, Classified
<1>4. mov \in [Movs -> Classified] /\ InChart(mov) /\ same \in BOOLEAN
  BY <1>3 DEF SugestoesInit, InChart
<1> QED BY <1>2, <1>4 DEF SugestoesInit, SugestoesInv

LEMMA SugestoesKeeps == SugestoesInv /\ [SugestoesNext]_smvars => SugestoesInv'
<1> SUFFICES ASSUME SugestoesInv, [SugestoesNext]_smvars PROVE SugestoesInv'
  OBVIOUS
<1>1. CASE Fail
  BY <1>1, RunTurns DEF Fail
<1>2. CASE UNCHANGED smvars
  <2>1. UNCHANGED <<chartEvents, chosen, model, mov, classifier, same, changes>>
    BY <1>2 DEF smvars
  <2>2. Turns(classifier)
    BY <2>1 DEF Turns
  <2> QED BY <2>2, RunTurns DEF SugestoesInv
<1>3. CASE \E s \in Charts, v \in ChartDates : ImportChart(s, v) \/ DecideConflict(v, s)
  BY <1>3, ImportChartStep, DecideConflictStep
<1> QED
  BY <1>1, <1>2, <1>3, BeginRunStep, DatedStep, FirstDayStep, ListStep, NextDateStep,
     ReadVersionStep, PredictStep, PublishStep DEF SugestoesNext

(* classificar_movimentos_operacionais_pendentes: a movement is classified *)
(* only with a chart that holds both its accounts and, when it has no      *)
(* date, applies on every day of its batch's period, although the code     *)
(* asks for the first day and the effective dates that follow it.          *)
THEOREM ChartsAreCertain == SugestoesSpec => []ChartIsCertain
<1>1. SugestoesInv => ChartIsCertain
  <2> SUFFICES ASSUME SugestoesInv PROVE UndatedHasOneChart /\ SuggestionInChart
    BY DEF ChartIsCertain
  <2>1. UndatedHasOneChart
    BY DEF SugestoesInv, UndatedHasOneChart, ChartsHold, NotRunning
  <2>2. SuggestionInChart
    BY DEF SugestoesInv, SuggestionInChart, InChart
  <2> QED BY <2>1, <2>2
<1> QED BY <1>1, SugestoesStarts, SugestoesKeeps, PTL DEF SugestoesSpec
=============================================================================
