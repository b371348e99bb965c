----------------------------- MODULE Movimentos -----------------------------
(***************************************************************************)
(* Operational movements between the classification job and the people who *)
(* decide on them: individual review, spreadsheet feedback, bulk approval, *)
(* and the review item ("ml") of a movement the model abstained from.      *)
(*                                                                         *)
(* A request reads a movement without a lock, decides in memory and writes *)
(* at commit.  The ORM writes the columns whose value differs from the one *)
(* it loaded, so two requests that overlap are merged column by column.    *)
(* The only lock taken before the decision is on the "ml" item, when there *)
(* is one; it is held to the end of the transaction.                       *)
(*                                                                         *)
(* The debit and credit columns are written with contrapartida_final and   *)
(* cleared with it; they are left out.                                     *)
(***************************************************************************)
EXTENDS Naturals, Sequences, FiniteSets, Pendencia

CONSTANTS
  Movs,           \* movements
  Accounts,       \* accounts of the company
  Informed,       \* the counterpart each imported row came with, or NoAccount
  Workers,        \* consumers of the job queue
  Kinds,          \* bound: the requests there are: "review", "sheet", "bulk"
  MaxRows         \* bound: rows with a decision in one sheet or bulk approval

NoAccount == "none"
NoMov     == "no movement"
Service   == "service"          \* an integration: sheets without a user
Actors    == Users \cup {Service}

ASSUME MovimentosAssumption ==
  /\ Informed \in [Movs -> Accounts \cup {NoAccount}]
  /\ {NoAccount, "ml", "temporal"} \cap Accounts = {}
  /\ {NoUser, Service} \cap Users = {}
  /\ NoUser \notin Workers
  /\ NoMov \notin Movs
  /\ Kinds \subseteq {"review", "sheet", "bulk"}
  /\ MaxRows \in Nat

VARIABLES
  mov,            \* the row of each movement
  item,           \* the row of its "ml" review item
  lock,           \* the transaction that holds the item's row
  sheet,          \* the movements as the last classified sheet shows them
  (* the requests *)
  kind,           \* what each actor's request does
  todo,           \* its rows not yet processed: pairs of movement and decision
  at,             \* the movement that passed the checks of the row in process
  base, work,     \* the movements it has loaded, and what it made of them
  touched,        \* the items it has changed, as it left them
  late,           \* the movements already decided when the request began
  (* the classification job *)
  jobs,           \* the pending movements each run has loaded
  owner,          \* the run whose token the job row holds
  reopened        \* movements whose item was reopened

rows     == <<mov, item, lock, sheet>>
requests == <<kind, todo, at, base, work, touched, late>>
runs     == <<jobs, owner>>
vars     == <<rows, requests, runs, reopened>>

Undecided  == {"pendente", "pre_classificado", "sugerido", "revisao"}
Accepted   == {"aprovado", "corrigido"}
Decided    == Accepted \cup {"rejeitado"}
Movements  == [status : Undecided \cup Decided, sug : Accounts \cup {NoAccount},
               final : Accounts \cup {NoAccount}, elig : BOOLEAN,
               ver : {1, 2}, msgs : BOOLEAN]
NotLoaded  == <<>>
Untouched  == <<>>
NoSheet    == <<>>
Decisions  == [act : {"approve", "correct"}, acc : Accounts]
                \cup [act : {"reject"}, acc : {NoAccount}]
TodoRows   == Movs \X Decisions

(* The type of every row. No movement is ever reviewed a second time by a  *)
(* request that saw the first review, so a version never passes 2.         *)
TypeOK ==
  /\ mov \in [Movs -> Movements]
  /\ item \in [Movs -> Rows]
  /\ lock \in [Movs -> Actors \cup {NoUser}]
  /\ sheet \in [Movs -> Movements] \cup {NoSheet}
  /\ kind \in [Actors -> {"idle"} \cup Kinds]
  /\ todo \in [Actors -> Seq(TodoRows)]
  /\ at \in [Actors -> Movs \cup {NoMov}]
  /\ base \in [Actors -> [Movs -> Movements \cup {NotLoaded}]]
  /\ work \in [Actors -> [Movs -> Movements \cup {NotLoaded}]]
  /\ touched \in [Actors -> [Movs -> Rows \cup {Untouched}]]
  /\ late \in [Actors -> SUBSET Movs]
  /\ jobs \in [Workers -> [Movs -> Movements \cup {NotLoaded}]]
  /\ owner \in Workers \cup {NoUser}
  /\ reopened \subseteq Movs

(* A row as the import leaves it: without warnings its status says whether *)
(* it came with a counterpart, with warnings it waits for a review.        *)
Imported(m, warned) ==
  [status |-> IF warned THEN "revisao"
              ELSE IF Informed[m] = NoAccount THEN "pendente" ELSE "pre_classificado",
   sug |-> NoAccount, final |-> NoAccount, elig |-> FALSE, ver |-> 1, msgs |-> warned]

Init ==
  /\ \E warned \in [Movs -> BOOLEAN] : mov = [m \in Movs |-> Imported(m, warned[m])]
  /\ item = [m \in Movs |-> Absent]
  /\ lock = [m \in Movs |-> NoUser]
  /\ sheet = NoSheet
  /\ kind = [a \in Actors |-> "idle"]
  /\ todo = [a \in Actors |-> <<>>]
  /\ at = [a \in Actors |-> NoMov]
  /\ base = [a \in Actors |-> [m \in Movs |-> NotLoaded]]
  /\ work = [a \in Actors |-> [m \in Movs |-> NotLoaded]]
  /\ touched = [a \in Actors |-> [m \in Movs |-> Untouched]]
  /\ late = [a \in Actors |-> {}]
  /\ jobs = [w \in Workers |-> [m \in Movs |-> NotLoaded]]
  /\ owner = NoUser
  /\ reopened = {}

-----------------------------------------------------------------------------
(* Rows *)

(* UPDATE of the columns that differ from what was loaded.                 *)
Merge(row, loaded, made) ==
  [c \in DOMAIN row |-> IF made[c] # loaded[c] THEN made[c] ELSE row[c]]

ReviewableAny(row) == row.status # "pendente"       \* mutant: reviews a decision again
Reviewable(row) == row.status \in {"pre_classificado", "sugerido", "revisao"}

(* What a decision makes of the row it has in memory.                      *)
ReviewedIneligible(row, d) ==                       \* mutant: forgets the training flag
  [row EXCEPT !.ver = @ + 1, !.final = d.acc,
              !.status = CASE d.act = "approve" -> "aprovado"
                           [] d.act = "correct" -> "corrigido"
                           [] d.act = "reject"  -> "rejeitado"]
Reviewed(row, d) ==
  [row EXCEPT !.ver = @ + 1, !.final = d.acc, !.elig = d.act # "reject",
              !.status = CASE d.act = "approve" -> "aprovado"
                           [] d.act = "correct" -> "corrigido"
                           [] d.act = "reject"  -> "rejeitado"]

(* The counterpart a bulk approval would accept.                           *)
BulkAccount(m, row) ==
  CASE row.status = "pre_classificado" -> Informed[m]
    [] row.status = "sugerido" -> row.sug
    [] OTHER -> NoAccount
BulkApproved(row, acc) == [row EXCEPT !.final = acc, !.status = "aprovado", !.elig = TRUE]

-----------------------------------------------------------------------------
(* Requests *)

DecidedNow == {m \in Movs : mov[m].status \in Decided}

Start(a, k, list) ==
  /\ k \in Kinds
  /\ kind[a] = "idle"
  /\ kind' = [kind EXCEPT ![a] = k]
  /\ todo' = [todo EXCEPT ![a] = list]
  /\ late' = [late EXCEPT ![a] = DecidedNow]
  /\ UNCHANGED <<rows, at, base, work, touched, runs, reopened>>

StartSheet(a, list)  == sheet # NoSheet /\ Start(a, "sheet", list)
StartBulk(u, list)   == u \in Users /\ Start(u, "bulk", list)

(* A review reads its movement at once; it is refused, without a trace, if *)
(* the movement is not for review.                                         *)
StartReview(u, m, d) ==
  /\ "review" \in Kinds
  /\ kind[u] = "idle"
  /\ Reviewable(mov[m])
  /\ kind' = [kind EXCEPT ![u] = "review"]
  /\ todo' = [todo EXCEPT ![u] = <<<<m, d>>>>]
  /\ at' = [at EXCEPT ![u] = m]
  /\ base' = [base EXCEPT ![u][m] = mov[m]]
  /\ work' = [work EXCEPT ![u][m] = mov[m]]
  /\ late' = [late EXCEPT ![u] = DecidedNow]
  /\ UNCHANGED <<rows, touched, runs, reopened>>

(* The end of the transaction of a, which leaves the session empty.        *)
Ends(a) ==
  /\ kind' = [kind EXCEPT ![a] = "idle"]
  /\ todo' = [todo EXCEPT ![a] = <<>>]
  /\ at' = [at EXCEPT ![a] = NoMov]
  /\ base' = [base EXCEPT ![a] = [m \in Movs |-> NotLoaded]]
  /\ work' = [work EXCEPT ![a] = [m \in Movs |-> NotLoaded]]
  /\ touched' = [touched EXCEPT ![a] = [m \in Movs |-> Untouched]]
  /\ late' = [late EXCEPT ![a] = {}]
  /\ lock' = [m \in Movs |-> IF lock[m] = a THEN NoUser ELSE lock[m]]

Rollback(a) == Ends(a) /\ UNCHANGED <<mov, item, sheet, runs, reopened>>

Mov(a) == Head(todo[a])[1]
Dec(a) == Head(todo[a])[2]
NextRow(a) == todo' = [todo EXCEPT ![a] = Tail(@)] /\ at' = [at EXCEPT ![a] = NoMov]

(* db.get: the row, unless the session has changed the movement already.   *)
(* What it only read is not kept: the identity map is weak.                *)
InSession(a) == IF work[a][Mov(a)] = NotLoaded THEN mov[Mov(a)] ELSE work[a][Mov(a)]

AtRow(a, k) == kind[a] = k /\ todo[a] # <<>> /\ at[a] = NoMov

(* The checks of a row that need no lock: passed, or not.  A blank         *)
(* read-only column of a sheet is not compared, so a row whose read-only   *)
(* values are old may pass.                                                *)
ReadOnly(row) == [row EXCEPT !.ver = 1, !.final = NoAccount, !.elig = FALSE]
MayPass(a) ==
  /\ Reviewable(InSession(a))
  /\ sheet[Mov(a)].ver = InSession(a).ver
MayFail(a) ==
  \/ ~Reviewable(InSession(a))
  \/ sheet[Mov(a)].ver # InSession(a).ver
  \/ ReadOnly(sheet[Mov(a)]) # ReadOnly(InSession(a))

PassChecks(a) ==
  /\ AtRow(a, "sheet")
  /\ MayPass(a)
  /\ base' = [base EXCEPT ![a][Mov(a)] = mov[Mov(a)]]
  /\ work' = [work EXCEPT ![a][Mov(a)] = mov[Mov(a)]]
  /\ at' = [at EXCEPT ![a] = Mov(a)]
  /\ UNCHANGED <<rows, kind, todo, touched, late, runs, reopened>>

(* An error is the result of one row: what the rows before it changed      *)
(* stays in the session.                                                   *)
SkipRow(a) ==
  /\ AtRow(a, "sheet")
  /\ MayFail(a)
  /\ NextRow(a)
  /\ UNCHANGED <<rows, kind, base, work, touched, late, runs, reopened>>

(* The "ml" item of the movement, locked; as this session last left it.    *)
Locks(a, m) ==
  /\ lock[m] \in {NoUser, a}
  /\ lock' = IF item[m] = Absent THEN lock ELSE [lock EXCEPT ![m] = a]
ItemOf(a, m) == IF touched[a][m] = Untouched THEN item[m] ELSE touched[a][m]
NeedsClaim(a, m) == Open(ItemOf(a, m))
CanClaim(a, m) == a \in Users /\ (Claimable(ItemOf(a, m)) \/ HeldBy(ItemOf(a, m), a))

(* The item is claimed before the account is checked and resolved after.   *)
ItemKept(a, ok) == Claimed(a)                       \* mutant: does not resolve
ItemLeft(a, ok) == IF ok THEN Finished("resolved") ELSE Claimed(a)

Decide(a) ==
  LET m == at[a] IN
  /\ m # NoMov
  /\ Locks(a, m)
  /\ NeedsClaim(a, m) => CanClaim(a, m)
  /\ touched' = IF NeedsClaim(a, m) THEN [touched EXCEPT ![a][m] = ItemLeft(a, TRUE)]
                ELSE touched
  /\ work' = [work EXCEPT ![a][m] = Reviewed(@, Dec(a))]
  /\ NextRow(a)
  /\ UNCHANGED <<mov, item, sheet, kind, base, late, runs, reopened>>

(* The item is somebody else's, or the actor is no user; or the account is *)
(* missing, unknown or not classifiable, after the item was claimed.       *)
ItemRefused(a, m) == NeedsClaim(a, m) /\ ~CanClaim(a, m)
AccountRefused(a) == Dec(a).act # "reject"

RowInvalid(a) ==
  LET m == at[a] IN
  /\ m # NoMov
  /\ kind[a] = "sheet"
  /\ Locks(a, m)
  /\ \/ ItemRefused(a, m) /\ UNCHANGED touched
     \/ /\ AccountRefused(a)
        /\ ~ItemRefused(a, m)
        /\ touched' = IF NeedsClaim(a, m) THEN [touched EXCEPT ![a][m] = ItemLeft(a, FALSE)]
                      ELSE touched
  /\ base' = [base EXCEPT ![a][m] = NotLoaded]
  /\ work' = [work EXCEPT ![a][m] = NotLoaded]
  /\ NextRow(a)
  /\ UNCHANGED <<mov, item, sheet, kind, late, runs, reopened>>

(* Bulk approval of one movement; links of accounts to the company, the    *)
(* confidence and the existence of the movement are data, so it may always *)
(* be passed over.                                                         *)
BulkPasses(a) ==
  /\ AtRow(a, "bulk")
  /\ NextRow(a)
  /\ UNCHANGED <<rows, kind, base, work, touched, late, runs, reopened>>

BulkApproves(a) ==
  /\ AtRow(a, "bulk")
  /\ LET m   == Mov(a)
         row == InSession(a)
         acc == BulkAccount(m, row) IN
     /\ acc # NoAccount
     /\ ~row.msgs
     /\ base' = [base EXCEPT ![a][m] = row]
     /\ work' = [work EXCEPT ![a][m] = BulkApproved(row, acc)]
  /\ NextRow(a)
  /\ UNCHANGED <<rows, kind, touched, late, runs, reopened>>

Commit(a) ==
  /\ kind[a] # "idle"
  /\ todo[a] = <<>>
  /\ mov' = [m \in Movs |-> IF work[a][m] = NotLoaded THEN mov[m]
                            ELSE Merge(mov[m], base[a][m], work[a][m])]
  /\ item' = [m \in Movs |-> IF touched[a][m] = Untouched THEN item[m] ELSE touched[a][m]]
  /\ Ends(a)
  /\ UNCHANGED <<sheet, runs, reopened>>

(* A MovimentoReviewError of a review, a lost connection, a crash, a       *)
(* deadlock of two sheets: the transaction is rolled back.                 *)
Abort(a) == kind[a] # "idle" /\ Rollback(a)

(* The classified sheet of the batch is downloaded.                        *)
Export ==
  /\ "sheet" \in Kinds
  /\ sheet' = mov
  /\ UNCHANGED <<mov, item, lock, requests, runs, reopened>>

-----------------------------------------------------------------------------
(* The classification job *)

PendingOrReview(m) == mov[m].status \in {"pendente", "revisao"}
                                                    \* mutant: classifies again
Pending(m) == mov[m].status = "pendente"

(* A run loads the movements that were pending when the job was enqueued   *)
(* and still are.  A new run takes the job over when the lease ran out.    *)
BeginRun(w) ==
  /\ jobs[w] = [m \in Movs |-> NotLoaded]
  /\ \E some \in (SUBSET Movs) \ {{}} :
       /\ \A m \in some : Pending(m)
       /\ jobs' = [jobs EXCEPT ![w] = [m \in Movs |-> IF m \in some THEN mov[m] ELSE NotLoaded]]
  /\ owner' = w
  /\ UNCHANGED <<rows, requests, reopened>>

SuggestedAndFinal(row, acc) ==                      \* mutant: a suggestion decides
  [row EXCEPT !.status = "sugerido", !.sug = acc, !.final = acc]
Suggested(row, acc) == [row EXCEPT !.status = "sugerido", !.sug = acc]
Abstained(row)      == [row EXCEPT !.status = "revisao", !.sug = NoAccount, !.msgs = TRUE]

(* The last check of the run, under the lock of the job row.               *)
OwnsAnyway(w) == TRUE                               \* mutant: no token
Owns(w) == owner = w

(* For each movement a suggestion, an abstention of the model with its     *)
(* item, or a review for lack of an applicable snapshot.                   *)
PublishRun(w) ==
  /\ jobs[w] # [m \in Movs |-> NotLoaded]
  /\ Owns(w)
  /\ \E outcome \in [{m \in Movs : jobs[w][m] # NotLoaded} -> Accounts \cup {"ml", "temporal"}] :
       /\ mov' = [m \in Movs |->
            IF m \notin DOMAIN outcome THEN mov[m]
            ELSE Merge(mov[m], jobs[w][m],
                       IF outcome[m] \in Accounts THEN Suggested(jobs[w][m], outcome[m])
                       ELSE Abstained(jobs[w][m]))]
       /\ item' = [m \in Movs |->
            IF m \in DOMAIN outcome /\ outcome[m] = "ml" /\ item[m] = Absent
            THEN New ELSE item[m]]
  /\ jobs' = [jobs EXCEPT ![w] = [m \in Movs |-> NotLoaded]]
  /\ owner' = NoUser
  /\ UNCHANGED <<lock, sheet, requests, reopened>>

(* A failure, a cancellation or the lost lease: nothing is written.        *)
LoseRun(w) ==
  /\ jobs[w] # [m \in Movs |-> NotLoaded]
  /\ jobs' = [jobs EXCEPT ![w] = [m \in Movs |-> NotLoaded]]
  /\ owner' = IF owner = w THEN NoUser ELSE owner
  /\ UNCHANGED <<rows, requests, reopened>>

-----------------------------------------------------------------------------
(* The review centre: transitions of the item outside a decision.  The     *)
(* conditional updates wait for the row.                                   *)
Moves(u, m, row) ==
  /\ kind[u] = "idle"
  /\ lock[m] = NoUser
  /\ item' = [item EXCEPT ![m] = row]
  /\ UNCHANGED <<mov, lock, sheet, requests, runs>>

ClaimItem(u, m)    == Claimable(item[m]) /\ Moves(u, m, Claimed(u)) /\ UNCHANGED reopened
ReleaseItem(u, m)  == HeldBy(item[m], u) /\ Moves(u, m, New) /\ UNCHANGED reopened
ReassignItem(u, m, v) == Reassignable(item[m]) /\ Moves(u, m, Claimed(v)) /\ UNCHANGED reopened
DismissItem(u, m)  == HeldBy(item[m], u) /\ Moves(u, m, Finished("dismissed")) /\ UNCHANGED reopened
ReopenItem(u, m)   == Closed(item[m]) /\ Moves(u, m, New) /\ reopened' = reopened \cup {m}

-----------------------------------------------------------------------------
Lists == UNION {[1..n -> TodoRows] : n \in 1..MaxRows}
(* A bulk approval has no decisions of its own.                            *)
BulkLists == UNION {[1..n -> Movs \X {[act |-> "reject", acc |-> NoAccount]}] : n \in 1..MaxRows}

Next ==
  \/ Export
  \/ \E u \in Users :
       \/ \E m \in Movs : \/ \E d \in Decisions : StartReview(u, m, d)
                          \/ ClaimItem(u, m)
                          \/ ReleaseItem(u, m)
                          \/ \E v \in Users : ReassignItem(u, m, v)
                          \/ DismissItem(u, m)
                          \/ ReopenItem(u, m)
       \/ \E list \in BulkLists : StartBulk(u, list)
  \/ \E a \in Actors :
       \/ \E list \in Lists : StartSheet(a, list)
       \/ PassChecks(a)
       \/ SkipRow(a)
       \/ Decide(a)
       \/ RowInvalid(a)
       \/ BulkPasses(a)
       \/ BulkApproves(a)
       \/ Commit(a)
       \/ Abort(a)
  \/ \E w \in Workers : BeginRun(w) \/ PublishRun(w) \/ LoseRun(w)

Spec == Init /\ [][Next]_vars

-----------------------------------------------------------------------------
(* Properties *)

(* A movement nobody has decided carries no decision: no final account, no *)
(* eligibility for training and its first version, whatever the job, the   *)
(* sheets and the aborted requests did to it.                              *)
UndecidedIsClean ==
  \A m \in Movs : mov[m].status \in Undecided =>
    mov[m].final = NoAccount /\ ~mov[m].elig /\ mov[m].ver = 1

(* A movement that counts as a training example is complete: requests that *)
(* overlap and are merged by columns never leave an accepted movement      *)
(* without its account or its eligibility.                                 *)
AcceptedIsComplete ==
  \A m \in Movs : mov[m].status \in Accepted => mov[m].final # NoAccount /\ mov[m].elig

(* A decision is whole in every well-formed row: status, final account,    *)
(* eligibility and version are those of a movement nobody has decided, or  *)
(* of one that was accepted with its account, although they are written by *)
(* requests that overlap.                                                  *)
DecisionIsWhole == TypeOK /\ UndecidedIsClean /\ AcceptedIsComplete

(* The classification never undoes a decision: a run that read the         *)
(* movement while it was pending has lost its lease before somebody could  *)
(* decide on the suggestion of the run after it.                           *)
DecidedStaysDecided ==
  \A m \in Movs : mov[m].status \in Decided => mov'[m].status \in Decided

(* The suggestion a reviewer decides on is the one that stays on record:   *)
(* it changes only while the movement is pending.                          *)
SuggestionIsKept ==
  \A m \in Movs : mov[m].status # "pendente" => mov'[m].sug = mov[m].sug

(* A decision stands: neither a run of the job that read the movement      *)
(* earlier nor a later one takes back what was decided, or the suggestion  *)
(* it was decided on.                                                      *)
DecisionStands == [][DecidedStaysDecided /\ SuggestionIsKept]_vars

(* A request that began after a decision was committed changes nothing of  *)
(* that movement, from whichever sheet, list or screen its data came.      *)
LateEndsUnchanged ==
  \A a \in Actors : \A m \in late[a] : kind'[a] = "idle" => mov'[m] = mov[m]
LateRequestsChangeNothing == [][LateEndsUnchanged]_vars

(* The "ml" item follows the movement: it is resolved only by a decision   *)
(* committed with it, and a decision leaves it open only if an             *)
(* administrator has reopened it.                                          *)
ItemFollowsDecision ==
  \A m \in Movs :
    /\ item[m].status = "resolved" => mov[m].status \in Decided
    /\ mov[m].status \in Decided /\ Open(item[m]) => m \in reopened

(* Sheets follow decisions: after every step, with a movement that is twice *)
(* in a sheet, a row that fails or a sheet older than the decision, the    *)
(* decisions are whole, their items follow them, and a request that came   *)
(* late has changed nothing.                                               *)
SheetsFollowDecisions ==
  [][DecisionIsWhole' /\ ItemFollowsDecision' /\ LateEndsUnchanged]_vars

(* A rejection removes the final pair and the eligibility, as the          *)
(* docstring of _reject_movimento says.  It does not hold: a rejection     *)
(* that overlaps an approval has nothing to write in those columns.        *)
RejectedIsClean ==
  \A m \in Movs : mov[m].status = "rejeitado" =>
    mov[m].final = NoAccount /\ ~mov[m].elig

(* A sheet never overwrites a more recent review, as spec 16 says.  It     *)
(* does not hold: the version is compared without a lock.                  *)
SheetNeverOverwrites ==
  [][\A a \in Actors : kind[a] = "sheet" /\ kind'[a] = "idle" =>
       \A m \in Movs : mov[m].status \in Decided => mov'[m] = mov[m]]_vars

(* row_version advances with every change of status, suggestion or final   *)
(* account, as spec 16 says.  It does not hold: the classification and the *)
(* bulk approval leave it alone.                                           *)
VersionTracksState ==
  [][\A m \in Movs : mov'[m] # mov[m] => mov'[m].ver > mov[m].ver]_vars
=============================================================================
