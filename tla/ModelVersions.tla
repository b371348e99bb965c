--------------------------- MODULE ModelVersions ---------------------------
(***************************************************************************)
(* The versions of the model of one company: training transactions that    *)
(* add a candidate, promotions and rollbacks that change the active        *)
(* version, the artifact files, and the jobs that predict with the active  *)
(* version and report its number.                                          *)
(*                                                                         *)
(* One lock matters.  A switch takes the row of the company FOR UPDATE; a  *)
(* training transaction refers to that row from its manifest on, and so    *)
(* holds it FOR KEY SHARE until it ends.                                   *)
(***************************************************************************)
EXTENDS Integers, Sequences, FiniteSets, FiniteSetsExt

CONSTANTS
  MaxVersions,    \* bound: numbers that the sequence hands out
  MaxSwitches,    \* bound: changes of the active version
  Trainers,       \* training transactions
  Switchers,      \* requests that promote or roll back
  Readers,        \* classification jobs
  Evaluations     \* what an evaluation may find; see NoEvaluation

Versions == 1..MaxVersions
NoVersion == 0          \* comparison_version_id, previous_version_id is null

VARIABLES
  version,        \* rows: status, comparison_version_id and evaluation
  next,           \* the number the sequence hands out next
  files,          \* versions whose artifact is on the volume, unaltered
  trail,          \* the switches, as the audit events record them
  training,       \* per trainer: where it is, what it compared and evaluated
  switch,         \* per request: what it read under its lock
  reader          \* per job: the version it predicted with and the one it reports

mvars == <<version, next, files, trail, training, switch, reader>>

(* An evaluation: whether it is valid, the F1 of each class measured, that *)
(* of the active version on the same rows, and the critical classes of the *)
(* company.  The macro F1 is the mean over the same classes for both.      *)
NoEvaluation == [valid |-> FALSE, critical |-> {}, f1 |-> <<>>, baseline |-> <<>>]
Total(scores) == MapThenSumSet(LAMBDA c : scores[c], DOMAIN scores)

Absent == [status |-> "absent", compared |-> NoVersion, evaluation |-> NoEvaluation]
Idle == [pc |-> "idle"]

Init ==
  /\ version = [v \in Versions |-> Absent]
  /\ next = 1
  /\ files = {}
  /\ trail = <<>>
  /\ training = [t \in Trainers |-> Idle]
  /\ switch = [s \in Switchers |-> Idle]
  /\ reader = [r \in Readers |-> Idle]

ActiveOnes == {v \in Versions : version[v].status = "active"}
Active == IF ActiveOnes = {} THEN NoVersion ELSE CHOOSE v \in ActiveOnes : TRUE

SharesCompany(t) == training[t].pc \in {"built", "evaluated", "written"}
LocksCompany(s) == switch[s].pc = "locked"

-----------------------------------------------------------------------------
(* Training *)

TrainerGoes(t, state) == training' = [training EXCEPT ![t] = state]
TrainerEnds(t) == TrainerGoes(t, Idle)

(* The manifest is the first row of the transaction that refers to the     *)
(* company.                                                                *)
Build(t) ==
  /\ training[t] = Idle
  /\ \A s \in Switchers : ~LocksCompany(s)
  /\ TrainerGoes(t, [pc |-> "built"])
  /\ UNCHANGED <<version, next, files, trail, switch, reader>>

(* The pipeline is evaluated, and the active version on the same rows; a   *)
(* missing artifact of the active version fails the training.              *)
EvaluateCandidate(t) ==
  /\ training[t].pc = "built"
  /\ \E e \in Evaluations :
       IF Active # NoVersion /\ e.valid /\ Active \notin files THEN TrainerEnds(t)
       ELSE TrainerGoes(t, [pc |-> "evaluated", compared |-> Active, evaluation |-> e])
  /\ UNCHANGED <<version, next, files, trail, switch, reader>>

(* The row is inserted, which gives the number; the pipeline is fitted,    *)
(* dumped aside and moved into place.                                      *)
WriteArtifact(t) ==
  /\ training[t].pc = "evaluated"
  /\ next \in Versions
  /\ next' = next + 1
  /\ files' = files \cup {next}
  /\ TrainerGoes(t, [pc |-> "written", id |-> next, compared |-> training[t].compared,
                     evaluation |-> training[t].evaluation])
  /\ UNCHANGED <<version, trail, switch, reader>>

Candidate(t) == [status |-> "candidate", compared |-> training[t].compared,
                 evaluation |-> training[t].evaluation]

(* The worker's transaction, with the end of its job.  A commit that       *)
(* succeeds and is reported as failed is left out: see the README.         *)
CommitCandidate(t) ==
  /\ training[t].pc = "written"
  /\ version' = [version EXCEPT ![training[t].id] = Candidate(t)]
  /\ TrainerEnds(t)
  /\ UNCHANGED <<next, files, trail, switch, reader>>

(* An exception, a lost lease or a cancelled job: the transaction is       *)
(* rolled back and the file removed, once it has its final name.           *)
FailTraining(t) ==
  /\ training[t] # Idle
  /\ files' = IF training[t].pc = "written" THEN files \ {training[t].id} ELSE files
  /\ TrainerEnds(t)
  /\ UNCHANGED <<version, next, trail, switch, reader>>

(* The worker dies: the file stays, without a row.                         *)
CrashTraining(t) ==
  /\ training[t] # Idle
  /\ TrainerEnds(t)
  /\ UNCHANGED <<version, next, files, trail, switch, reader>>

-----------------------------------------------------------------------------
(* Promotion and rollback *)

Checked(e) == IF e.critical = {} THEN DOMAIN e.f1 ELSE e.critical

GuardrailsOfEvaluation(v, current) ==       \* mutant: any comparison will do
  LET e == version[v].evaluation IN
  /\ e.valid /\ DOMAIN e.f1 # {}
  /\ Checked(e) \subseteq DOMAIN e.f1
  /\ version[v].compared # NoVersion =>
       /\ Total(e.f1) >= Total(e.baseline)
       /\ \A c \in Checked(e) \cap DOMAIN e.baseline : e.f1[c] >= e.baseline[c]
Guardrails(v, current) ==
  LET e == version[v].evaluation IN
  /\ e.valid /\ DOMAIN e.f1 # {}
  /\ Checked(e) \subseteq DOMAIN e.f1
  /\ version[v].compared = current
  /\ current # NoVersion =>
       /\ Total(e.f1) >= Total(e.baseline)
       /\ \A c \in Checked(e) \cap DOMAIN e.baseline : e.f1[c] >= e.baseline[c]

AnyFile(v) == TRUE                          \* mutant: the artifact is not verified
HasArtifact(v) == v \in files

Allows(v, op, current) ==
  /\ HasArtifact(v)
  /\ IF op = "promote" THEN version[v].status = "candidate" /\ Guardrails(v, current)
     ELSE version[v].status = "retired" /\ version[v].evaluation.valid

FreeOfSwitches(s) ==                        \* mutant: training does not hold the company
  \A o \in Switchers : ~LocksCompany(o)
FreeOfTrainings(s) ==                       \* mutant: switches do not lock it
  \A t \in Trainers : ~SharesCompany(t)
CompanyFree(s) ==
  /\ \A o \in Switchers : ~LocksCompany(o)
  /\ \A t \in Trainers : ~SharesCompany(t)

(* The request locks the company and reads; a refusal is audited by the    *)
(* route in a transaction of its own and changes nothing.                  *)
LockCompany(s, v, op) ==
  /\ switch[s] = Idle
  /\ Len(trail) + Cardinality({o \in Switchers : LocksCompany(o)}) < MaxSwitches
  /\ CompanyFree(s)
  /\ Allows(v, op, Active)
  /\ switch' = [switch EXCEPT ![s] = [pc |-> "locked", to |-> v, op |-> op,
                                      previous |-> Active]]
  /\ UNCHANGED <<version, next, files, trail, training, reader>>

SwitchKeeping(s) ==                         \* mutant: the previous version stays active
  /\ LocksCompany(s)
  /\ version' = [version EXCEPT ![switch[s].to].status = "active"]
  /\ trail' = Append(trail, [op |-> switch[s].op, from |-> switch[s].previous,
                             to |-> switch[s].to])
  /\ switch' = [switch EXCEPT ![s] = Idle]
  /\ UNCHANGED <<next, files, training, reader>>
Switch(s) ==
  /\ LocksCompany(s)
  /\ version' = [v \in Versions |->
       IF v = switch[s].to THEN [version[v] EXCEPT !.status = "active"]
       ELSE IF v = switch[s].previous THEN [version[v] EXCEPT !.status = "retired"]
       ELSE version[v]]
  /\ trail' = Append(trail, [op |-> switch[s].op, from |-> switch[s].previous,
                             to |-> switch[s].to])
  /\ switch' = [switch EXCEPT ![s] = Idle]
  /\ UNCHANGED <<next, files, training, reader>>

(* The request dies before its commit.                                     *)
AbandonSwitch(s) ==
  /\ LocksCompany(s)
  /\ switch' = [switch EXCEPT ![s] = Idle]
  /\ UNCHANGED <<version, next, files, trail, training, reader>>

-----------------------------------------------------------------------------
(* Classification *)

(* Without an active version the legacy artifact of the company is used;   *)
(* an active version without its file ends the job.                        *)
LoadModel(r) ==
  /\ reader[r] = Idle
  /\ Active # NoVersion => Active \in files
  /\ reader' = [reader EXCEPT ![r] = [pc |-> "loaded", used |-> Active, since |-> Len(trail)]]
  /\ UNCHANGED <<version, next, files, trail, training, switch>>

(* The number in the result is read again, after the predictions.          *)
ReportNewest(r) ==                          \* mutant: the newest version
  /\ reader[r].pc = "loaded"
  /\ reader' = [reader EXCEPT ![r] = [pc |-> "done", used |-> @.used, since |-> @.since,
                  reported |-> Max({NoVersion} \cup {v \in Versions : version[v] # Absent})]]
  /\ UNCHANGED <<version, next, files, trail, training, switch>>
Report(r) ==
  /\ reader[r].pc = "loaded"
  /\ reader' = [reader EXCEPT ![r] = [pc |-> "done", used |-> @.used, since |-> @.since,
                                      reported |-> Active]]
  /\ UNCHANGED <<version, next, files, trail, training, switch>>

(* Someone clears old artifacts from the volume.                           *)
LoseFile(v) ==
  /\ v \in files
  /\ version[v].status \in {"candidate", "retired"}
  /\ \A s \in Switchers : LocksCompany(s) => switch[s].to # v
  /\ files' = files \ {v}
  /\ UNCHANGED <<version, next, trail, training, switch, reader>>

Next ==
  \/ \E t \in Trainers :
       \/ Build(t) \/ EvaluateCandidate(t) \/ WriteArtifact(t)
       \/ CommitCandidate(t) \/ FailTraining(t) \/ CrashTraining(t)
  \/ \E s \in Switchers :
       \/ \E v \in Versions, op \in {"promote", "rollback"} : LockCompany(s, v, op)
       \/ Switch(s) \/ AbandonSwitch(s)
  \/ \E r \in Readers : LoadModel(r) \/ Report(r)
  \/ \E v \in Versions : LoseFile(v)

Spec == Init /\ [][Next]_mvars

-----------------------------------------------------------------------------
(* Properties *)

(* A company has one active version, by the lock alone: the partial unique *)
(* index, whose violation no route translates, never has to refuse.        *)
OneActive == Cardinality(ActiveOnes) <= 1

(* The audit of the switches is a chain: each names the version the one    *)
(* before had made active as the previous one, and the last one made is    *)
(* active.                                                                 *)
SwitchesChain ==
  /\ \A k \in 1..Len(trail) :
       trail[k].from = IF k = 1 THEN NoVersion ELSE trail[k - 1].to
  /\ Active = IF trail = <<>> THEN NoVersion ELSE trail[Len(trail)].to

(* What is promoted was measured against the very version it replaces, and *)
(* is no worse: not in the macro F1, not in a class that is checked.  An   *)
(* evaluation gets old when another candidate is promoted first, and is    *)
(* good again after a rollback.                                            *)
PromotedBeatsReplaced ==
  \A k \in 1..Len(trail) : trail[k].op = "promote" =>
    LET row == version[trail[k].to] IN
    /\ row.compared = trail[k].from
    /\ trail[k].from # NoVersion =>
         \A c \in Checked(row.evaluation) \cap DOMAIN row.evaluation.baseline :
           row.evaluation.f1[c] >= row.evaluation.baseline[c]

(* A candidate is published with a comparison that is not out of date yet: *)
(* no switch comes between the evaluation and the end of the transaction.  *)
CandidateIsFresh ==
  \A v \in Versions :
    version[v] = Absent /\ version'[v] # Absent => version'[v].compared = Active

(* The active version can be loaded, although files of other versions come *)
(* and go.                                                                 *)
ActiveHasArtifact == ActiveOnes \subseteq files

(* A job reports the version it predicted with, or one made active since:  *)
(* the error of reading the number last is bounded by what was switched    *)
(* while the job ran.                                                      *)
ReportIsUsedOrLater ==
  \A r \in Readers : reader[r].pc = "done" =>
    \/ reader[r].reported = reader[r].used
    \/ \E k \in (reader[r].since + 1)..Len(trail) : trail[k].to = reader[r].reported

(* Promotions and rollbacks that overlap leave one active version, which   *)
(* can be loaded, and an audit that tells how it became so.                *)
SwitchesAreWhole == OneActive /\ SwitchesChain /\ ActiveHasArtifact

(* Comparisons are used while they hold: a candidate is published and      *)
(* promoted on a comparison with the version active at that moment, and a  *)
(* job names a version no older than the one it used.                      *)
ComparisonsAreCurrent ==
  [][PromotedBeatsReplaced' /\ ReportIsUsedOrLater' /\ CandidateIsFresh]_mvars
=============================================================================
