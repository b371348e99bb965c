--------------------------- MODULE PlanoSnapshots ---------------------------
(***************************************************************************)
(* The dated charts of accounts of one company: imports, the snapshot that *)
(* applies to a date, conflicts between snapshots of one effective date    *)
(* and the user's decision, and the review items that a razao import opens *)
(* for the dates it finds in conflict or without a chart.                  *)
(*                                                                         *)
(* An import holds the company FOR UPDATE; whoever inserts a row of the    *)
(* company has to wait for it.  A decision holds its review item.          *)
(***************************************************************************)
EXTENDS Integers, FiniteSets, SequencesExt

CONSTANTS
  Snapshots,      \* the contents that are imported
  Vigencias,      \* effective dates of imports
  Importers,      \* import requests
  Users,          \* people who decide and resolve
  Batches,        \* razao batches, each imported once
  DatesOf         \* the dates of their lines

Dates == UNION {DatesOf[l] : l \in Batches}

VARIABLES
  events,         \* PlanoContasImportEvent: pairs snapshot, effective date
  decisions,      \* PlanoContasConflictDecision
  items,          \* ReviewItem, in the order of their ids
  importer,       \* import requests
  user,           \* requests that decide a conflict or resolve an item
  batch           \* razao imports: whether there was a plan, and what each date gave

pvars == <<events, decisions, items, importer, user, batch>>

Idle == [pc |-> "idle"]

PlanoInit ==
  /\ events = {}
  /\ decisions = {}
  /\ items = <<>>
  /\ importer = [i \in Importers |-> Idle]
  /\ user = [u \in Users |-> Idle]
  /\ batch = [l \in Batches |-> Idle]

-----------------------------------------------------------------------------
(* selecionar_snapshot *)

CandidatesIn(E, v) == {e[1] : e \in {x \in E : x[2] = v}}
Candidates(v) == CandidatesIn(events, v)
Effective(d) == {v \in Vigencias : v <= d /\ Candidates(v) # {}}

DecidedFor(v, C) == {x \in decisions : x.vigencia = v /\ x.candidates = C}

ChoiceByDate(v) ==              \* mutant: a decision stands for its effective date
  IF Cardinality(Candidates(v)) = 1 THEN Candidates(v)
  ELSE {x.selected : x \in {y \in decisions : y.vigencia = v}}
(* One candidate, or the decision for exactly these candidates.            *)
Choice(v) ==
  IF Cardinality(Candidates(v)) = 1 THEN Candidates(v)
  ELSE {x.selected : x \in DecidedFor(v, Candidates(v))}

Outcome(d) ==
  IF Effective(d) = {} THEN "missing"
  ELSE IF Choice(Max(Effective(d))) = {} THEN "conflict" ELSE "defined"

-----------------------------------------------------------------------------
(* Review items: claims, which change nothing here, are left to the module *)
(* ReviewItems; open stands for pending and in_review.                     *)

Item(source, date, key, evidence) ==
  [source |-> source, date |-> date, key |-> key, status |-> "open", evidence |-> evidence]
SameKey(a, b) == a.source = b.source /\ a.date = b.date /\ a.key = b.key
Find(list, item) == {i \in DOMAIN list : SameKey(list[i], item)}
(* create_review_item: one item per key, whatever its status; a repeated   *)
(* one gains the evidence.                                                 *)
Grouped(list, item) ==
  IF Find(list, item) = {} THEN Append(list, item)
  ELSE [i \in DOMAIN list |-> IF i \in Find(list, item)
          THEN [list[i] EXCEPT !.evidence = @ \cup item.evidence] ELSE list[i]]

NeverLocked(i) == FALSE         \* mutant: the item is read without a lock
Locked(i) == \E u \in Users : user[u].pc = "deciding" /\ user[u].item = i

-----------------------------------------------------------------------------
(* importar_snapshot *)

CompanyFree == \A i \in Importers : importer[i].pc # "locked"

(* The lock, the import event and the read of the candidates, its own      *)
(* among them.                                                             *)
BeginImport(i, s, v) ==
  importer' = [importer EXCEPT ![i] =
    [pc |-> "locked", event |-> <<s, v>>,
     seen |-> CandidatesIn(events \cup {<<s, v>>}, v)]]
StartImport(i, s, v) ==
  /\ importer[i] = Idle
  /\ CompanyFree
  /\ BeginImport(i, s, v)
  /\ UNCHANGED <<events, decisions, items, user, batch>>

ConflictByDate(v, C) ==         \* mutant: grouped by effective date alone
  Item("snapshot_conflict", v, {}, C)
Conflict(v, C) == Item("snapshot_conflict", v, C, C)

(* A conflict that nobody has decided opens an item; it waits for a user   *)
(* who is deciding the very same one.                                      *)
FinishImport(i) ==
  LET v == importer[i].event[2]
      C == importer[i].seen
      opens == Cardinality(C) > 1 /\ DecidedFor(v, C) = {}
  IN
  /\ importer[i].pc = "locked"
  /\ opens => \A k \in Find(items, Conflict(v, C)) : ~Locked(k)
  /\ events' = events \cup {importer[i].event}
  /\ items' = IF opens THEN Grouped(items, Conflict(v, C)) ELSE items
  /\ importer' = [importer EXCEPT ![i] = Idle]
  /\ UNCHANGED <<decisions, user, batch>>

(* The request dies, or the database breaks a deadlock with a decision.    *)
AbortImport(i) ==
  /\ importer[i].pc = "locked"
  /\ importer' = [importer EXCEPT ![i] = Idle]
  /\ UNCHANGED <<events, decisions, items, user, batch>>

-----------------------------------------------------------------------------
(* resolver_conflito *)

StartDecision(u, i, s) ==
  /\ user[u] = Idle
  /\ items[i].source = "snapshot_conflict" /\ items[i].status = "open" /\ ~Locked(i)
  /\ items[i].key = Candidates(items[i].date)
  /\ s \in Candidates(items[i].date)
  /\ DecidedFor(items[i].date, items[i].key) = {}
  /\ user' = [user EXCEPT ![u] = [pc |-> "deciding", item |-> i, selected |-> s]]
  /\ UNCHANGED <<events, decisions, items, importer, batch>>

(* The decision refers to the company, and waits for an import of it; the  *)
(* candidates are not read again.                                          *)
FinishDecision(u) ==
  LET i == user[u].item IN
  /\ user[u].pc = "deciding"
  /\ CompanyFree
  /\ decisions' = decisions \cup
       {[vigencia |-> items[i].date, candidates |-> items[i].key,
         selected |-> user[u].selected, item |-> i]}
  /\ items' = [items EXCEPT ![i].status = "resolved"]
  /\ user' = [user EXCEPT ![u] = Idle]
  /\ UNCHANGED <<events, importer, batch>>

AbortUser(u) ==
  /\ user[u] # Idle
  /\ user' = [user EXCEPT ![u] = Idle]
  /\ UNCHANGED <<events, decisions, items, importer, batch>>

-----------------------------------------------------------------------------
(* A razao import; its rows wait for an import of the chart to end.        *)

StartLote(l) ==
  /\ batch[l] = Idle
  /\ batch' = [batch EXCEPT ![l] = [pc |-> "reading", plan |-> events # {},
                                  seen |-> [d \in {} |-> "missing"]]]
  /\ UNCHANGED <<events, decisions, items, importer, user>>

(* The first line of a date selects its snapshot, for all its lines.       *)
ReadDate(l, d) ==
  /\ batch[l].pc = "reading"
  /\ d \in DatesOf[l] \ DOMAIN batch[l].seen
  /\ batch' = [batch EXCEPT ![l].seen = [x \in DOMAIN @ \cup {d} |->
                IF x = d THEN Outcome(d) ELSE batch[l].seen[x]]]
  /\ UNCHANGED <<events, decisions, items, importer, user>>

(* _create_razao_review_item: the key of the date, or the key that follows *)
(* the last item of its chain that was closed; 0 is the bare date. The     *)
(* keys of a chain are in the order of the items they follow.              *)
RootKey(source, d) == 0         \* mutant: a closed item gets the evidence
InChain(source, d, i) == items[i].source = source /\ items[i].date = d
ChainKeys(source, d) == {0} \cup {i \in DOMAIN items : InChain(source, d, i)}
ClosedKey(source, d, k) ==
  \E i \in DOMAIN items :
    InChain(source, d, i) /\ items[i].key = k /\ items[i].status # "open"
ChainKey(source, d) == Min({k \in ChainKeys(source, d) : ~ClosedKey(source, d, k)})

Source == [conflict |-> "razao_snapshot_conflict", missing |-> "razao_snapshot_missing"]
Reported(l) ==
  {d \in DOMAIN batch[l].seen :
     batch[l].seen[d] = "conflict" \/ (batch[l].seen[d] = "missing" /\ batch[l].plan)}
ItemOf(l, d) ==
  LET source == Source[batch[l].seen[d]] IN Item(source, d, ChainKey(source, d), {l})

(* Items that exist gain the batch as evidence; the others are new, in the *)
(* order of their dates.                                                   *)
Gained(l) ==
  [i \in DOMAIN items |->
     IF \E d \in Reported(l) : SameKey(items[i], ItemOf(l, d))
     THEN [items[i] EXCEPT !.evidence = @ \cup {l}] ELSE items[i]]
Unseen(l) == {d \in Reported(l) : Find(items, ItemOf(l, d)) = {}}
InOrder(D) ==
  {s \in Surjection(1..Cardinality(D), D) : \A a, b \in DOMAIN s : a < b => s[a] < s[b]}

(* The rows, their items and the end of the batch are one transaction.     *)
FinishLote(l) ==
  /\ batch[l].pc = "reading"
  /\ CompanyFree
  /\ DOMAIN batch[l].seen = DatesOf[l]
  /\ \E s \in InOrder(Unseen(l)) :
       items' = Gained(l) \o [k \in DOMAIN s |-> ItemOf(l, s[k])]
  /\ batch' = [batch EXCEPT ![l] = [pc |-> "done"]]
  /\ UNCHANGED <<events, decisions, importer, user>>

-----------------------------------------------------------------------------
(* The routes of the review items *)

(* date.fromisoformat of the whole key: a key that follows another is no   *)
(* date, and the answer is that the snapshot is still undefined.           *)
KeyIsDate(i) == items[i].key = 0
CanResolve(i) == KeyIsDate(i) /\ Outcome(items[i].date) = "defined"

IsRazao(i) == items[i].source \in {Source.conflict, Source.missing}

(* resolve_item selects the snapshot before it locks the item.             *)
CheckItem(u, i) ==
  /\ user[u] = Idle
  /\ IsRazao(i) /\ items[i].status = "open" /\ CanResolve(i)
  /\ user' = [user EXCEPT ![u] = [pc |-> "resolving", item |-> i]]
  /\ UNCHANGED <<events, decisions, items, importer, batch>>
ResolveItem(u) ==
  /\ user[u].pc = "resolving"
  /\ items[user[u].item].status = "open"
  /\ items' = [items EXCEPT ![user[u].item].status = "resolved"]
  /\ user' = [user EXCEPT ![u] = Idle]
  /\ UNCHANGED <<events, decisions, importer, batch>>

(* dismiss_item and reopen_item refuse conflicts.                          *)
Dismiss(i) ==
  /\ items[i].source = Source.missing /\ items[i].status = "open"
  /\ items' = [items EXCEPT ![i].status = "dismissed"]
  /\ UNCHANGED <<events, decisions, importer, user, batch>>
Reopen(i) ==
  /\ items[i].source = Source.missing /\ items[i].status # "open"
  /\ items' = [items EXCEPT ![i].status = "open"]
  /\ UNCHANGED <<events, decisions, importer, user, batch>>

PlanoNext ==
  \/ \E i \in Importers :
       \/ \E s \in Snapshots, v \in Vigencias : StartImport(i, s, v)
       \/ FinishImport(i) \/ AbortImport(i)
  \/ \E u \in Users :
       \/ \E i \in DOMAIN items, s \in Snapshots : StartDecision(u, i, s)
       \/ \E i \in DOMAIN items : CheckItem(u, i)
       \/ FinishDecision(u) \/ ResolveItem(u) \/ AbortUser(u)
  \/ \E l \in Batches : StartLote(l) \/ FinishLote(l) \/ \E d \in Dates : ReadDate(l, d)
  \/ \E i \in DOMAIN items : Dismiss(i) \/ Reopen(i)

PlanoSpec == PlanoInit /\ [][PlanoNext]_pvars

-----------------------------------------------------------------------------
(* Properties *)

(* A chart that applies to a date was the only one, or somebody chose it   *)
(* with every one that applies now before them as evidence: a decision     *)
(* taken while an import added a candidate does not count.                 *)
ChosenAmongAll ==
  \A d \in Dates : Outcome(d) = "defined" =>
    LET v == Max(Effective(d)) IN
    \/ Cardinality(Candidates(v)) = 1
    \/ \E x \in decisions :
         /\ x.selected \in Choice(v)
         /\ Candidates(v) \subseteq items[x.item].evidence

(* A conflict can be decided: there is an open item for exactly the        *)
(* candidates it has now, however its imports and decisions overlapped.    *)
ConflictCanBeDecided ==
  \A v \in Vigencias :
    Choice(v) = {} /\ Candidates(v) # {} =>
      \E i \in DOMAIN items :
        /\ items[i].source = "snapshot_conflict" /\ items[i].status = "open"
        /\ items[i].date = v /\ items[i].key = Candidates(v)

(* The same candidates are decided once, by the lock of their item alone:  *)
(* the unique key, whose violation the route does not translate, never has *)
(* to refuse.                                                              *)
DecidedOnce ==
  \A x, y \in decisions : x.vigencia = y.vigencia /\ x.candidates = y.candidates => x = y

(* The lines of a batch that found no chart are the evidence of an item    *)
(* somebody will see: open when the batch ends, whatever was closed before.*)
LinesAreReported ==
  \A l \in Batches : batch[l].pc = "reading" /\ batch'[l].pc = "done" =>
     \A d \in Reported(l) : \E i \in DOMAIN items' :
       /\ items'[i].date = d /\ items'[i].source = Source[batch[l].seen[d]]
       /\ items'[i].status = "open" /\ l \in items'[i].evidence

(* Imports of charts, decisions on conflicts and batches of ledgers that   *)
(* overlap: every choice was made among all the candidates, once, what is  *)
(* not chosen can be, and the lines it concerns are reported.              *)
ConflictsAreSettled ==
  [][ChosenAmongAll' /\ ConflictCanBeDecided' /\ DecidedOnce' /\ LinesAreReported]_pvars

(* docs/homologacao/razao-snapshot-aliases.md: an item of the razao takes a *)
(* decision on the snapshot before it can be resolved; with it, it can.    *)
DecidedCanBeResolved ==
  \A i \in DOMAIN items :
    IsRazao(i) /\ items[i].status = "open" /\ Outcome(items[i].date) = "defined" => CanResolve(i)
=============================================================================
