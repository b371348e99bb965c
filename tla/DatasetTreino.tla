---------------------------- MODULE DatasetTreino ----------------------------
(***************************************************************************)
(* The training dataset of one company: which ledger lines and movements   *)
(* become examples, and the manifest that says why.  The builder runs in   *)
(* one transaction, but each of its queries sees what is committed by      *)
(* then, so lines, decisions, accounts, charts and reviews are read at     *)
(* different moments while people and imports go on.                       *)
(*                                                                         *)
(* A line is fixed once it is imported.  Its debit and credit accounts are *)
(* its own account and its counterpart.  The rows of a batch imported      *)
(* before lines had numbers are matched with reviews by their batch.       *)
(***************************************************************************)
EXTENDS Integers, Sequences, FiniteSets, FiniteSetsExt

CONSTANTS
  Batches,        \* ledger batches
  Old,            \* those imported before lines had numbers, and before any chart
  Lines,          \* lines: records of id, batch, date, origin and other account
  Movs,           \* movements: records of id, date and account
  Codes,          \* account codes
  Entries,        \* the charts: for each snapshot its analytic accounts
  First,          \* the snapshot imported first
  MaxChanges,     \* bound: changes other transactions commit
  MaxBuilds       \* bound: datasets

Snapshots == DOMAIN Entries
(* A source is a line or a movement; no batch is empty.                    *)
ASSUME DatasetAssumption ==
  /\ IsFiniteSet(Lines) /\ IsFiniteSet(Movs) /\ Lines \cap Movs = {}
  /\ \A x \in Lines \cup Movs : x.id \in Nat
  /\ \A b \in Old : \E l \in Lines : l.lote = b
  /\ First \in Snapshots

Vigencia  == 1                  \* the effective date of the imports
NoCode    == 0

VARIABLES
  imported,       \* the batches whose lines are there
  feedback,       \* the latest correction of a line
  mov,            \* movements
  catalog, own,   \* what an account is: in the office's catalogue, to the company
  events,         \* the charts imported for the effective date
  chosen,         \* decisions of conflicts: for sets of charts
  aliases,        \* confirmed aliases: pairs of snapshot and observed code
  item,           \* the critical review items about lines of a batch, as one
  changes,        \* how many changes there were
  since,          \* the batches imported or reviewed since the builder began
  build,          \* the builder
  manifests       \* DatasetManifest

world == <<imported, feedback, mov, catalog, own, events, chosen, aliases, item>>
dvars == <<world, changes, since, build, manifests>>

NoBuild == [pc |-> "idle"]
NoFeedback == [id |-> 0, conta |-> NoCode]
NoItem == [status |-> "absent", about |-> {}]
LinesOf(B) == {l \in Lines : l.lote \in B}

-----------------------------------------------------------------------------
(* What the queries return *)

(* selecionar_snapshot for a date: the effective date, its candidates and  *)
(* the decision for exactly these.                                         *)
SnapshotAt(d) ==
  IF d < Vigencia \/ events = {} THEN "snapshot_missing"
  ELSE IF Cardinality(events) = 1 THEN CHOOSE s \in events : TRUE
  ELSE IF \E x \in chosen : x[1] = events THEN (CHOOSE x \in chosen : x[1] = events)[2]
  ELSE "snapshot_conflict"

Account(c) == IF own[c] # "none" THEN own[c] ELSE catalog[c]
Valid(C) == {c \in C : Account(c) # "inactive"}
(* The builder holds on to the accounts of origin it has read: the session *)
(* shows it what they were then, not what they are.                        *)
Seen(b, c) == IF own[c] = "none" /\ c \in DOMAIN b.held THEN b.held[c] ELSE Account(c)
SeenValid(b, C) == {c \in C : Seen(b, c) # "inactive"}
SeenFinancial(b, C) == {c \in C : Seen(b, c) = "financial"}

(* Accounts of the line in a chart; an alias stands for one it lacks.      *)
HasAccounts(s, C) == \A c \in C : c \in Entries[s] \/ <<s, c>> \in aliases

Evidence(b) == {l \in item[b].about : l.lote \in imported}
BlockedUntilClosed ==                   \* mutant: a dismissed item no longer blocks
  UNION {Evidence(b) : b \in {x \in Batches : item[x].status = "open"}}
Blocked == UNION {Evidence(b) : b \in {x \in Batches : item[x].status # "resolved"}}

(* An item names numbered lines; a line without a number is held up by any *)
(* of its batch.                                                           *)
Covers(blocked, l) ==
  IF l.lote \in Old THEN \E k \in blocked : k.lote = l.lote ELSE l \in blocked

-----------------------------------------------------------------------------
(* The rules *)

Target(l, fb) == IF fb[l] = NoFeedback THEN l.other ELSE fb[l].conta

LineReason(l, b, snap) ==
  LET target == Target(l, b.feedback) IN
  IF snap \notin Snapshots THEN snap
  ELSE IF l.origin \notin b.origins THEN "origin_invalid"
  ELSE IF target \notin b.targets THEN "target_invalid"
  ELSE IF ~HasAccounts(snap, {l.origin, l.other, target}) THEN "account_not_in_snapshot"
  ELSE IF Covers(b.blocked, l) THEN "critical_review_unresolved" ELSE "none"

Accepted(row) == row.status \in {"aprovado", "corrigido"}
Trainable(row) == Accepted(row) /\ row.elig /\ row.final # NoCode

(* No item about a movement is critical.                                   *)
MovReason(m, b, snap) ==
  LET row == b.movs[m]
      required == {m.conta, row.final} IN
  IF row.status = "rejeitado" THEN "rejected"
  ELSE IF ~Accepted(row) THEN "no_final_decision"
  ELSE IF ~Trainable(row) THEN "incomplete_or_not_trainable"
  ELSE IF snap \notin Snapshots THEN snap
  ELSE IF ~(required \subseteq b.accounts) THEN "account_invalid"
  ELSE IF m.conta \notin b.financial THEN "origin_invalid"
  ELSE IF ~(required \subseteq Entries[snap]) THEN "account_not_in_snapshot" ELSE "none"

(* An example, or an exclusion with its reason.                            *)
Judged(b, source, target, reason) ==
  IF reason = "none" THEN [b EXCEPT !.rows = @ \cup {[source |-> source, target |-> target]}]
  ELSE [b EXCEPT !.exclusions = @ \cup {<<source, reason>>}]

LineHashOfRow(l, fb) == <<l>>           \* mutant: the correction is not hashed
LineHash(l, fb) == <<l, fb[l]>>
MovHash(m, row) == <<m, row>>

-----------------------------------------------------------------------------
(* The builder, query by query *)

Begins(lines) == [pc |-> "movements", lines |-> lines, rows |-> {}, exclusions |-> {}]
With(b, field, value, pc) ==
  [f \in DOMAIN b \cup {field} |->
     CASE f = field -> value [] f = "pc" -> pc [] OTHER -> b[f]]
Turns(b) == build' = b /\ UNCHANGED <<world, changes, since, manifests>>

ReadLines ==
  /\ build = NoBuild /\ Len(manifests) < MaxBuilds
  /\ build' = Begins(LinesOf(imported))
  /\ since' = {}
  /\ UNCHANGED <<world, changes, manifests>>

ReadMovements == build.pc = "movements" /\ Turns(With(build, "movs", mov, "origins"))
ReadOrigins ==
  /\ build.pc = "origins"
  /\ LET C == {l.origin : l \in build.lines}
         b == With(build, "held", [c \in {x \in C : own[x] = "none"} |-> catalog[c]], "feedback") IN
     Turns(With(b, "origins", SeenFinancial(b, C), "feedback"))
ReadFeedback ==
  /\ build.pc = "feedback"
  /\ Turns(With(build, "feedback", feedback, "targets"))
ReadTargets ==
  /\ build.pc = "targets"
  /\ LET C == {Target(l, build.feedback) : l \in build.lines} IN
     Turns(With(build, "targets", SeenValid(build, C), "reviews"))
ReadReviews ==
  /\ build.pc = "reviews"
  /\ Turns(With(With(build, "blocked", Blocked \cap build.lines, "lines"), "left", build.lines, "lines"))

(* For each line its chart; then its reason, with the aliases of the chart.*)
Next1(b) == CHOOSE l \in b.left : \A k \in b.left : l.id <= k.id
ReadChart ==
  /\ build.pc = "lines" /\ build.left # {}
  /\ Turns(With(build, "chart", SnapshotAt(Next1(build).date), "judge"))
JudgeLine ==
  /\ build.pc = "judge"
  /\ LET l == Next1(build) IN
     Turns([Judged(build, l, Target(l, build.feedback), LineReason(l, build, build.chart))
              EXCEPT !.pc = "lines", !.left = @ \ {l}])

MovCodes == {m.conta : m \in Movs} \cup ({build.movs[m].final : m \in Movs} \ {NoCode})
ReadAccounts ==
  /\ build.pc = "lines" /\ build.left = {}
  /\ Turns(With(build, "accounts", SeenValid(build, MovCodes), "financial"))
ReadFinancial ==
  /\ build.pc = "financial"
  /\ Turns(With([build EXCEPT !.left = Movs], "financial",
                SeenFinancial(build, {m.conta : m \in Movs}), "judging"))
JudgeMovementSilently ==                \* mutant: its exclusion is not recorded
  /\ build.pc = "judging" /\ build.left # {}
  /\ LET m == Next1(build) IN
     Turns([Judged(build, m, build.movs[m].final, MovReason(m, build, SnapshotAt(m.date)))
              EXCEPT !.left = @ \ {m}, !.exclusions = build.exclusions])
JudgeMovement ==
  /\ build.pc = "judging" /\ build.left # {}
  /\ LET m == Next1(build) IN
     Turns([Judged(build, m, build.movs[m].final, MovReason(m, build, SnapshotAt(m.date)))
              EXCEPT !.left = @ \ {m}])

(* The totals count the tables again.                                      *)
Count ==
  /\ build.pc = "judging" /\ build.left = {}
  /\ Turns(With(build, "discards",
                Cardinality(LinesOf(imported)) + Cardinality(Movs) - Cardinality(build.rows), "commit"))

Manifest(b) ==
  [rows |-> b.rows, exclusions |-> b.exclusions, discards |-> b.discards,
   hashes |-> {LineHash(l, b.feedback) : l \in b.lines} \cup {MovHash(m, b.movs[m]) : m \in Movs}]
Commit ==
  /\ build.pc = "commit"
  /\ manifests' = Append(manifests, Manifest(build))
  /\ build' = NoBuild
  /\ UNCHANGED <<world, changes, since>>

(* Not enough examples to train with, an error, a lost lease.              *)
Abort ==
  /\ build # NoBuild
  /\ build' = NoBuild
  /\ UNCHANGED <<world, changes, since, manifests>>

-----------------------------------------------------------------------------
(* Other transactions *)

Changes(touched) ==
  /\ changes < MaxChanges
  /\ changes' = changes + 1
  /\ since' = since \cup touched
  /\ UNCHANGED <<build, manifests>>

(* A ledger is imported: lines whose chart is in doubt get a critical item.*)
ImportLedger(b) ==
  LET doubtful == {l \in LinesOf({b}) : SnapshotAt(l.date) \notin Snapshots} IN
  /\ b \notin imported
  /\ imported' = imported \cup {b}
  /\ item' = IF doubtful = {} THEN item
             ELSE [item EXCEPT ![b] = [status |-> "open", about |-> doubtful]]
  /\ Changes({b})
  /\ UNCHANGED <<feedback, mov, catalog, own, events, chosen, aliases>>

(* submit_feedback_classificacao makes the account one of the company.     *)
GiveFeedback(l, c) ==
  /\ l.lote \in imported
  /\ c \in Valid(Codes)
  /\ feedback' = [feedback EXCEPT ![l] = [id |-> changes + 1, conta |-> c]]
  /\ own' = [own EXCEPT ![c] = Account(c)]
  /\ Changes({})
  /\ UNCHANGED <<imported, mov, catalog, events, chosen, aliases, item>>

(* A review, or two that overlap: the second rejects and leaves the final  *)
(* account of the first (module Movimentos).                               *)
DecideMovement(m, status, c) ==
  /\ mov[m].status # "rejeitado"
  /\ status = "rejeitado" \/ (mov[m].status = "sugerido" /\ c \in Valid(Codes))
  /\ mov' = [mov EXCEPT ![m] =
       IF status # "rejeitado" THEN [status |-> status, final |-> c, elig |-> TRUE]
       ELSE [@ EXCEPT !.status = "rejeitado"]]
  /\ Changes({})
  /\ UNCHANGED <<imported, feedback, catalog, own, events, chosen, aliases, item>>

EditAccount(c, kind) ==
  /\ catalog[c] # kind
  /\ catalog' = [catalog EXCEPT ![c] = kind]
  /\ Changes({})
  /\ UNCHANGED <<imported, feedback, mov, own, events, chosen, aliases, item>>

(* A chart is imported; accounts new to the company are no financial ones. *)
ImportChart(s) ==
  /\ s \notin events
  /\ events' = events \cup {s}
  /\ own' = [c \in Codes |-> IF c \in Entries[s] /\ own[c] = "none" THEN "plain" ELSE own[c]]
  /\ Changes({})
  /\ UNCHANGED <<imported, feedback, mov, catalog, chosen, aliases, item>>

DecideConflict(s) ==
  /\ SnapshotAt(Vigencia) = "snapshot_conflict" /\ s \in events
  /\ chosen' = chosen \cup {<<events, s>>}
  /\ Changes({})
  /\ UNCHANGED <<imported, feedback, mov, catalog, own, events, aliases, item>>

ConfirmAlias(s, c) ==
  /\ s \in events /\ c \notin Entries[s] /\ <<s, c>> \notin aliases
  /\ aliases' = aliases \cup {<<s, c>>}
  /\ Changes({})
  /\ UNCHANGED <<imported, feedback, mov, catalog, own, events, chosen, item>>

(* Transitions of an item: open stands for pending and in review.          *)
Review(b, status) ==
  /\ \/ item[b].status = "open" /\ status \in {"resolved", "dismissed"}
     \/ item[b].status \in {"resolved", "dismissed"} /\ status = "open"
  /\ item' = [item EXCEPT ![b].status = status]
  /\ Changes({b})
  /\ UNCHANGED <<imported, feedback, mov, catalog, own, events, chosen, aliases>>

-----------------------------------------------------------------------------
(* The old batches were posted against the catalogue, or with a doubt that *)
(* a person may have settled since; then the first chart came.             *)
DatasetInit ==
  /\ imported = Old
  /\ feedback = [l \in Lines |-> NoFeedback]
  /\ mov = [m \in Movs |-> [status |-> "sugerido", final |-> NoCode, elig |-> FALSE]]
  /\ catalog = [c \in Codes |-> IF c = Min(Codes) THEN "financial" ELSE "plain"]
  /\ own = [c \in Codes |-> IF c \in Entries[First] THEN catalog[c] ELSE "none"]
  /\ events = {First} /\ chosen = {} /\ aliases = {}
  /\ \E doubted \in SUBSET Old :
       item = [b \in Batches |-> IF b \in doubted
                 THEN [status |-> "open", about |-> {CHOOSE l \in LinesOf({b}) : TRUE}] ELSE NoItem]
  /\ changes = 0 /\ since = {}
  /\ build = NoBuild
  /\ manifests = <<>>

DatasetNext ==
  \/ ReadLines \/ ReadMovements \/ ReadOrigins \/ ReadFeedback \/ ReadTargets \/ ReadReviews
  \/ ReadChart \/ JudgeLine \/ ReadAccounts \/ ReadFinancial \/ JudgeMovement \/ Count
  \/ Commit \/ Abort
  \/ \E b \in Batches : ImportLedger(b) \/ (\E s \in {"open", "resolved", "dismissed"} : Review(b, s))
  \/ \E l \in Lines, c \in Codes : GiveFeedback(l, c)
  \/ \E m \in Movs, s \in {"aprovado", "rejeitado"}, c \in Codes : DecideMovement(m, s, c)
  \/ \E c \in Codes, k \in {"financial", "plain", "inactive"} : EditAccount(c, k)
  \/ \E s \in Snapshots : ImportChart(s) \/ DecideConflict(s) \/ (\E c \in Codes : ConfirmAlias(s, c))

DatasetSpec == DatasetInit /\ [][DatasetNext]_dvars

-----------------------------------------------------------------------------
(* Properties *)

(* The dataset can be built again from what its manifest records of the    *)
(* sources and of the exclusions, as spec 17 asks: two datasets that agree *)
(* in these have the same examples, whatever was corrected in between.     *)
EvidenceDeterminesRows ==
  \A i, j \in DOMAIN manifests :
    /\ manifests[i].hashes = manifests[j].hashes
    /\ manifests[i].exclusions = manifests[j].exclusions
    => manifests[i].rows = manifests[j].rows

(* No example comes from a line whose critical item was unresolved all the *)
(* time the builder ran, dismissed items and lines without a number        *)
(* included.                                                               *)
UnderReviewIsLeftOut ==
  build.pc = "commit" =>
    \A r \in build.rows, b \in Batches \ since :
      r.source \in Lines /\ item[b].status \in {"open", "dismissed"}
        => ~Covers(item[b].about, r.source)

(* Every discard that is counted has its reason in the manifest, unless a  *)
(* ledger was imported while the builder ran.                              *)
DiscardsAreExplained ==
  build.pc = "commit" /\ LinesOf(imported) = build.lines =>
    build.discards = Cardinality(build.exclusions)

(* A dataset is what its manifest says, although the builder asks for      *)
(* ledgers, charts, items and movements one after the other while they     *)
(* change.                                                                 *)
ManifestExplains == EvidenceDeterminesRows /\ UnderReviewIsLeftOut /\ DiscardsAreExplained
=============================================================================
