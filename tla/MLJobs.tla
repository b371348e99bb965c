------------------------------- MODULE MLJobs -------------------------------
(***************************************************************************)
(* The durable queue of machine-learning jobs: rows of ml_jobs, the        *)
(* consumer threads with their heartbeats, the artifact files of trained   *)
(* candidates, and the API requests that cancel or retry a job.            *)
(*                                                                         *)
(* One action is one database transaction, or the part of a handler up to  *)
(* its next row lock, file operation or commit.  Two row locks outlive one *)
(* statement: FOR UPDATE on the job, from the last check of a run to its   *)
(* commit, and FOR KEY SHARE on the company, from the first row a training *)
(* transaction inserts to its end.                                         *)
(***************************************************************************)
EXTENDS Naturals, FiniteSets

CONSTANTS
  NJobs,          \* jobs enqueued in a behaviour, numbered by creation
  Company,        \* the company of each job
  Trains,         \* the jobs of kind "train"; the others classify
  Workers,        \* consumer threads, all in one process
  Requests        \* cancel and retry requests made in a behaviour

Jobs == 1..NJobs

ASSUME JobsAssumption ==
  /\ NJobs \in Nat
  /\ DOMAIN Company = Jobs
  /\ Trains \subseteq Jobs
  /\ IsFiniteSet(Requests)

VARIABLES
  (* the row of each job *)
  status, attempts, token, lease, flag,     \* flag is cancel_requested
  runs,           \* claims made of the job so far; a token is the run's number
  published,      \* runs whose business transaction was committed
  artifacts,      \* training runs whose model file is on the volume
  (* consumer threads *)
  pc, job, run, hb, cause,
  (* API requests *)
  rpc, rjob, rflag

rows     == <<status, attempts, token, lease, flag, runs>>
results  == <<published, artifacts>>
threads  == <<pc, job, run, hb, cause>>
requests == <<rpc, rjob, rflag>>
vars     == <<rows, results, threads, requests>>

MaxAttempts == 2
Runs     == 1..(MaxAttempts * (Cardinality(Requests) + 1))
Pending  == {"queued", "running"}
Settled  == {"completed", "failed", "cancelled"}
Causes   == {"cancelled", "transient", "deterministic"}

(* Threads whose business transaction is open; with an inserted row that   *)
(* refers to the company; at the last check.                               *)
Executing == {"executing", "training", "written", "locked"}

TypeOK ==
  /\ status \in [Jobs -> Pending \cup Settled \cup {"none"}]
  /\ attempts \in [Jobs -> 0..MaxAttempts]
  /\ token \in [Jobs -> Runs \cup {0}]
  /\ lease \in [Jobs -> {"none", "live", "expired"}]
  /\ flag \in [Jobs -> BOOLEAN]
  /\ runs \in [Jobs -> Runs \cup {0}]
  /\ published \in [Jobs -> SUBSET Runs]
  /\ artifacts \in [Jobs -> SUBSET Runs]
  /\ pc \in [Workers -> {"idle", "claimed", "failing", "dead"} \cup Executing]
  /\ job \in [Workers -> Jobs \cup {0}]
  /\ run \in [Workers -> Runs \cup {0}]
  /\ hb \in [Workers -> BOOLEAN]
  /\ cause \in [Workers -> Causes \cup {"none"}]
  /\ rpc \in [Requests -> {"new", "cancelQueued", "cancelRunning", "retrying",
                           "cancelled", "retried", "refused"}]
  /\ rjob \in [Requests -> Jobs \cup {0}]
  /\ rflag \in [Requests -> BOOLEAN]
  (* ck_ml_jobs_lease_state *)
  /\ \A j \in Jobs : /\ status[j] = "running" <=> token[j] # 0
                     /\ status[j] = "running" <=> lease[j] # "none"

Init ==
  /\ status = [j \in Jobs |-> "none"]
  /\ attempts = [j \in Jobs |-> 0]
  /\ token = [j \in Jobs |-> 0]
  /\ lease = [j \in Jobs |-> "none"]
  /\ flag = [j \in Jobs |-> FALSE]
  /\ runs = [j \in Jobs |-> 0]
  /\ published = [j \in Jobs |-> {}]
  /\ artifacts = [j \in Jobs |-> {}]
  /\ pc = [w \in Workers |-> "idle"]
  /\ job = [w \in Workers |-> 0]
  /\ run = [w \in Workers |-> 0]
  /\ hb = [w \in Workers |-> FALSE]
  /\ cause = [w \in Workers |-> "none"]
  /\ rpc = [r \in Requests |-> "new"]
  /\ rjob = [r \in Requests |-> 0]
  /\ rflag = [r \in Requests |-> FALSE]

-----------------------------------------------------------------------------
(* Locks, leases, constraints of the table *)

NeverLocked(j) == FALSE                                 \* mutant: a plain refresh
RowLocked(j) == \E w \in Workers : pc[w] = "locked" /\ job[w] = j

CompanyShared(c) ==
  \E w \in Workers : /\ pc[w] \in {"training", "written", "locked"}
                     /\ job[w] \in Trains /\ Company[job[w]] = c

RunningWhoever(w) == status[job[w]] = "running"         \* mutant: no token
OwnedByRun(w) == runs[job[w]] = run[w]                  \* mutant: no status
Owned(w) == status[job[w]] = "running" /\ token[job[w]] = run[w]

(* uq_ml_jobs_one_running_per_company *)
NoIndex(j) == TRUE                                      \* mutant: no index
IndexAllows(j) ==
  \A k \in Jobs \ {j} : Company[k] = Company[j] => status[k] # "running"

-----------------------------------------------------------------------------
(* API.  A job stands for one (company, idempotency key): sending the same *)
(* request again finds the row, before the insert or after its conflict.   *)
Enqueue(j) ==
  /\ status[j] = "none"
  /\ \A k \in Jobs : k < j => status[k] # "none"
  /\ status' = [status EXCEPT ![j] = "queued"]
  /\ UNCHANGED <<attempts, token, lease, flag, runs, results, threads, requests>>

(* cancel and retry read the row without a lock, decide, and send only the *)
(* columns they changed when they commit.                                  *)
CancelReads(r, j) ==
  /\ rpc[r] = "new"
  /\ \/ status[j] = "queued"  /\ rpc' = [rpc EXCEPT ![r] = "cancelQueued"]
     \/ status[j] = "running" /\ rpc' = [rpc EXCEPT ![r] = "cancelRunning"]
  /\ rjob' = [rjob EXCEPT ![r] = j]
  /\ UNCHANGED <<rows, results, threads, rflag>>

RetryReads(r, j) ==
  /\ rpc[r] = "new"
  /\ status[j] = "failed"
  /\ rpc' = [rpc EXCEPT ![r] = "retrying"]
  /\ rjob' = [rjob EXCEPT ![r] = j]
  /\ rflag' = [rflag EXCEPT ![r] = flag[j]]
  /\ UNCHANGED <<rows, results, threads>>

(* The check constraint refuses another status for a row with a lease.     *)
Refused(r) ==
  /\ rpc[r] \in {"cancelQueued", "retrying"}
  /\ status[rjob[r]] = "running" /\ ~RowLocked(rjob[r])
  /\ rpc' = [rpc EXCEPT ![r] = "refused"]
  /\ UNCHANGED <<rows, results, threads, rjob, rflag>>

CancelQueuedCommits(r) ==
  /\ rpc[r] = "cancelQueued"
  /\ status[rjob[r]] # "running"
  /\ status' = [status EXCEPT ![rjob[r]] = "cancelled"]
  /\ rpc' = [rpc EXCEPT ![r] = "cancelled"]
  /\ UNCHANGED <<attempts, token, lease, flag, runs, results, threads, rjob, rflag>>

CancelRunningCommits(r) ==
  /\ rpc[r] = "cancelRunning"
  /\ ~RowLocked(rjob[r])
  /\ flag' = [flag EXCEPT ![rjob[r]] = TRUE]
  /\ rpc' = [rpc EXCEPT ![r] = "cancelled"]
  /\ UNCHANGED <<status, attempts, token, lease, runs, results, threads, rjob, rflag>>

(* cancel_requested = False is sent only when the row was read with True.  *)
RetryCommits(r) ==
  LET j == rjob[r] IN
  /\ rpc[r] = "retrying"
  /\ status[j] # "running"
  /\ status' = [status EXCEPT ![j] = "queued"]
  /\ attempts' = [attempts EXCEPT ![j] = 0]
  /\ flag' = [flag EXCEPT ![j] = @ /\ ~rflag[r]]
  /\ rpc' = [rpc EXCEPT ![r] = "retried"]
  /\ UNCHANGED <<token, lease, runs, results, threads, rjob, rflag>>

-----------------------------------------------------------------------------
(* claim_next_ml_job: one transaction that looks at one job per company,   *)
(* recovered ones first, settles those that may not run again, and stops   *)
(* at the first it starts.                                                 *)

CandidateQueued(j) == status[j] = "queued"              \* mutant: no recovery

Candidate(j) ==
  /\ status[j] = "queued" \/ (status[j] = "running" /\ lease[j] = "expired")
  /\ ~RowLocked(j)

Before(j, k) ==
  \/ status[j] = "running" /\ status[k] # "running"
  \/ (status[j] = "running" <=> status[k] = "running") /\ j < k

(* The first candidate of a company that is not locked and runs nothing.   *)
Head(j) ==
  /\ Candidate(j)
  /\ \A k \in Jobs \ {j} :
       Company[k] = Company[j] /\ Candidate(k) => Before(j, k)
  /\ ~CompanyShared(Company[j])
  /\ \A k \in Jobs \ {j} : Company[k] = Company[j] => lease[k] # "live"

StartsWhenever(j) == Head(j) /\ ~flag[j]                \* mutant: no limit
Starts(j) == Head(j) /\ ~flag[j] /\ attempts[j] < MaxAttempts

KeepLease(S, f, v) == f                                 \* mutant: lease kept
Reset(S, f, v) == [j \in Jobs |-> IF j \in S THEN v ELSE f[j]]

SettledStatus(S) ==
  [j \in Jobs |-> IF j \notin S THEN status[j]
                  ELSE IF flag[j] THEN "cancelled" ELSE "failed"]

(* The loop finds nothing to start.                                        *)
ClaimSettles(w) ==
  LET S == {j \in Jobs : Head(j)} IN
  /\ pc[w] = "idle"
  /\ S # {} /\ \A j \in S : ~Starts(j)
  /\ status' = SettledStatus(S)
  /\ token' = Reset(S, token, 0)
  /\ lease' = Reset(S, lease, "none")
  /\ UNCHANGED <<attempts, flag, runs, results, threads, requests>>

(* It starts j, after settling the heads before it.  When the index        *)
(* refuses j (the row of an expired run of the company is locked right     *)
(* now) the transaction is rolled back and the thread dies: ThreadDies.    *)
ClaimStarts(w, j) ==
  LET S == {k \in Jobs : Head(k) /\ Before(k, j)}
      n == runs[j] + 1
  IN
  /\ pc[w] = "idle"
  /\ Starts(j) /\ IndexAllows(j)
  /\ \A k \in S : ~Starts(k)
  /\ status' = [SettledStatus(S) EXCEPT ![j] = "running"]
  /\ token' = [Reset(S, token, 0) EXCEPT ![j] = n]
  /\ lease' = [Reset(S, lease, "none") EXCEPT ![j] = "live"]
  /\ attempts' = [attempts EXCEPT ![j] = @ + 1]
  /\ runs' = [runs EXCEPT ![j] = n]
  /\ pc' = [pc EXCEPT ![w] = "claimed"]
  /\ job' = [job EXCEPT ![w] = j]
  /\ run' = [run EXCEPT ![w] = n]
  /\ UNCHANGED <<flag, results, hb, cause, requests>>

-----------------------------------------------------------------------------
(* run_once and _execute *)

(* The thread has nothing in hand any more.                                *)
Leave(w, p) ==
  /\ pc' = [pc EXCEPT ![w] = p]
  /\ job' = [job EXCEPT ![w] = 0]
  /\ run' = [run EXCEPT ![w] = 0]
  /\ hb' = [hb EXCEPT ![w] = FALSE]
  /\ cause' = [cause EXCEPT ![w] = "none"]

(* Any exception in _execute: rollback, and the artifact of this run is    *)
(* unlinked.  The heartbeat goes on until run_once ends.                   *)
Unlink(w) == artifacts' = [artifacts EXCEPT ![job[w]] = @ \ {run[w]}]

ToFail(w, c) ==
  /\ pc' = [pc EXCEPT ![w] = "failing"]
  /\ cause' = [cause EXCEPT ![w] = c]
  /\ UNCHANGED <<job, run>>

(* The heartbeat starts; the transaction reads the row, without a lock.    *)
BeginRun(w) ==
  /\ pc[w] = "claimed"
  /\ Owned(w)
  /\ hb' = [hb EXCEPT ![w] = TRUE]
  /\ \/ /\ ~flag[job[w]]
        /\ pc' = [pc EXCEPT ![w] = "executing"]
        /\ UNCHANGED <<job, run, cause>>
     \/ flag[job[w]] /\ ToFail(w, "cancelled")
  /\ UNCHANGED <<rows, results, requests>>

BeginLost(w) ==
  /\ pc[w] = "claimed" /\ ~Owned(w)
  /\ Leave(w, "idle")
  /\ UNCHANGED <<rows, results, requests>>

(* build_dataset_treino_contrapartida flushes the manifest, whose foreign  *)
(* key locks the company; create_candidate flushes the version and writes  *)
(* the file.                                                               *)
FlushManifest(w) ==
  /\ pc[w] = "executing" /\ job[w] \in Trains
  /\ pc' = [pc EXCEPT ![w] = "training"]
  /\ UNCHANGED <<rows, results, job, run, hb, cause, requests>>

WriteArtifact(w) ==
  /\ pc[w] = "training"
  /\ artifacts' = [artifacts EXCEPT ![job[w]] = @ \cup {run[w]}]
  /\ pc' = [pc EXCEPT ![w] = "written"]
  /\ UNCHANGED <<rows, published, job, run, hb, cause, requests>>

(* An exception; the deterministic ones come before the artifact.          *)
RunFails(w) ==
  /\ pc[w] \in Executing
  /\ \/ ToFail(w, "transient")
     \/ pc[w] \in {"executing", "training"} /\ ToFail(w, "deterministic")
  /\ Unlink(w)
  /\ UNCHANGED <<rows, published, hb, requests>>

(* session.refresh(job, with_for_update=True) and the checks on that row.  *)
ReadyToPublish(w) ==
  /\ \/ pc[w] = "written"
     \/ pc[w] = "executing" /\ job[w] \notin Trains
  /\ ~RowLocked(job[w])

CheckPasses(w) ==
  /\ ReadyToPublish(w)
  /\ Owned(w) /\ ~flag[job[w]]
  /\ pc' = [pc EXCEPT ![w] = "locked"]
  /\ UNCHANGED <<rows, results, job, run, hb, cause, requests>>

CheckCancelled(w) ==
  /\ ReadyToPublish(w)
  /\ Owned(w) /\ flag[job[w]]
  /\ ToFail(w, "cancelled") /\ Unlink(w)
  /\ UNCHANGED <<rows, published, hb, requests>>

CheckLost(w) ==
  /\ ReadyToPublish(w) /\ ~Owned(w)
  /\ Leave(w, "idle") /\ Unlink(w)
  /\ UNCHANGED <<rows, published, requests>>

(* The commit: candidate, suggestions or predictions with the verdict.      *)
Commit(w) ==
  LET j == job[w] IN
  /\ status' = [status EXCEPT ![j] = "completed"]
  /\ token' = [token EXCEPT ![j] = 0]
  /\ lease' = [lease EXCEPT ![j] = "none"]
  /\ published' = [published EXCEPT ![j] = @ \cup {run[w]}]
  /\ UNCHANGED <<attempts, flag, runs>>

Publish(w) ==
  /\ pc[w] = "locked"
  /\ Commit(w)
  /\ Leave(w, "idle")
  /\ UNCHANGED <<artifacts, requests>>

(* The commit is done but not acknowledged: taken for a failure.           *)
PublishUnacknowledged(w) ==
  /\ pc[w] = "locked"
  /\ Commit(w)
  /\ ToFail(w, "transient") /\ Unlink(w)
  /\ UNCHANGED <<hb, requests>>

(* _finish_failure, guarded by the lease of this run.                      *)
ForgetCancel(w) == cause[w] = "cancelled"               \* mutant: no flag
Cancels(w) == cause[w] = "cancelled" \/ flag[job[w]]

Finish(w) ==
  LET j == job[w] IN
  /\ pc[w] = "failing"
  /\ Owned(w) /\ ~RowLocked(j)
  /\ status' = [status EXCEPT ![j] =
                  IF Cancels(w) THEN "cancelled"
                  ELSE IF cause[w] = "transient" /\ attempts[j] < MaxAttempts
                       THEN "queued" ELSE "failed"]
  /\ token' = [token EXCEPT ![j] = 0]
  /\ lease' = [lease EXCEPT ![j] = "none"]
  /\ Leave(w, "idle")
  /\ UNCHANGED <<attempts, flag, runs, results, requests>>

FinishLate(w) ==
  /\ pc[w] = "failing" /\ ~Owned(w)
  /\ Leave(w, "idle")
  /\ UNCHANGED <<rows, results, requests>>

(* A database error outside the handled part of run_once, the audit        *)
(* transaction of a classification included, ends the thread.              *)
ThreadDies(w) ==
  /\ pc[w] \in {"idle", "claimed", "failing"}
  /\ Leave(w, "dead")
  /\ UNCHANGED <<rows, results, requests>>

-----------------------------------------------------------------------------
(* Heartbeat, clock, process *)

(* renew_lease waits for the row lock, the one of its own thread too; the  *)
(* heartbeat of a lost lease ends without telling its thread.              *)
Renew(w) ==
  /\ hb[w] /\ ~RowLocked(job[w])
  /\ IF Owned(w)
     THEN lease' = [lease EXCEPT ![job[w]] = "live"] /\ UNCHANGED hb
     ELSE hb' = [hb EXCEPT ![w] = FALSE] /\ UNCHANGED lease
  /\ UNCHANGED <<status, attempts, token, flag, runs, results,
                 pc, job, run, cause, requests>>

(* So does one that meets a database error.                                *)
HeartbeatFails(w) ==
  /\ hb[w]
  /\ hb' = [hb EXCEPT ![w] = FALSE]
  /\ UNCHANGED <<rows, results, pc, job, run, cause, requests>>

(* ML_JOB_LEASE_SECONDS pass without a renewal.                            *)
LeaseRunsOut(j) ==
  /\ lease[j] = "live"
  /\ lease' = [lease EXCEPT ![j] = "expired"]
  /\ UNCHANGED <<status, attempts, token, flag, runs, results, threads, requests>>

(* The process is killed: rollback, and files stay where they are.         *)
Crash ==
  /\ \E w \in Workers : pc[w] # "dead"
  /\ pc' = [w \in Workers |-> "dead"]
  /\ job' = [w \in Workers |-> 0]
  /\ run' = [w \in Workers |-> 0]
  /\ hb' = [w \in Workers |-> FALSE]
  /\ cause' = [w \in Workers |-> "none"]
  /\ UNCHANGED <<rows, results, requests>>

(* main() joins its threads; the container restarts when all have ended.   *)
Restart ==
  /\ \A w \in Workers : pc[w] = "dead"
  /\ pc' = [w \in Workers |-> "idle"]
  /\ UNCHANGED <<rows, results, job, run, hb, cause, requests>>

-----------------------------------------------------------------------------
Request(r) ==
  \/ \E j \in Jobs : CancelReads(r, j) \/ RetryReads(r, j)
  \/ CancelQueuedCommits(r) \/ CancelRunningCommits(r)
  \/ RetryCommits(r) \/ Refused(r)

Claims(w) == ClaimSettles(w) \/ \E j \in Jobs : ClaimStarts(w, j)

Work(w) ==
  \/ BeginRun(w) \/ BeginLost(w) \/ FlushManifest(w) \/ WriteArtifact(w)
  \/ RunFails(w) \/ CheckPasses(w) \/ CheckCancelled(w) \/ CheckLost(w)
  \/ Publish(w) \/ PublishUnacknowledged(w) \/ Finish(w) \/ FinishLate(w)

Next ==
  \/ \E r \in Requests : Request(r)
  \/ \E w \in Workers : \/ Claims(w) \/ Work(w) \/ ThreadDies(w)
                        \/ Renew(w) \/ HeartbeatFails(w)
  \/ \E j \in Jobs : Enqueue(j) \/ LeaseRunsOut(j)
  \/ Crash \/ Restart

Spec == Init /\ [][Next]_vars

(* A thread that has claimed goes on, time passes, the container restarts  *)
(* its process; a claim is the first thing a (re)started thread does, so   *)
(* crashes do not put it off for ever.                                     *)
Fairness ==
  /\ \A w \in Workers : WF_vars(Work(w))
  /\ \A j \in Jobs : WF_vars(LeaseRunsOut(j))
  /\ WF_vars(Restart)
  /\ SF_vars(\E w \in Workers : Claims(w))

FairSpec == Spec /\ Fairness

-----------------------------------------------------------------------------
(* Properties *)

(* A company never has two threads that may both still publish, not even   *)
(* when a run outlived its lease and its row was locked while the next job *)
(* was claimed (claim_next_ml_job with the partial unique index).          *)
OneOwnerPerCompany ==
  \A v, w \in Workers :
    v # w /\ job[v] # 0 /\ job[w] # 0 /\ Owned(v) /\ Owned(w) =>
      Company[job[v]] # Company[job[w]]

(* A run that lost its job to a later claim never publishes: what a commit *)
(* adds to a job is its last run (the check after the refresh FOR UPDATE). *)
LastRunPublishes ==
  \A j \in Jobs : published'[j] \subseteq published[j] \cup {runs[j]}
OnlyLastRunPublishes == [][LastRunPublishes]_vars

(* A cancel committed while the job runs is obeyed: that run neither       *)
(* completes, fails nor goes back to the queue, whatever the worker was    *)
(* about to do (the flag is read under the lock held until the commit).    *)
FlaggedEndsCancelled ==
  \A j \in Jobs :
    flag[j] /\ status[j] = "running" /\ status'[j] # "running" =>
      status'[j] = "cancelled"
CancelIsObeyed == [][FlaggedEndsCancelled]_vars

(* Crashes, lost leases and transient failures together make the queue run *)
(* a job at most twice for each time somebody asked for it.                *)
RunsBounded ==
  \A j \in Jobs :
    runs[j] <= MaxAttempts
               * (1 + Cardinality({r \in Requests : rpc[r] = "retried" /\ rjob[r] = j}))

(* A job publishes at most once for each time somebody asked for it, even  *)
(* when a commit is taken for a failure (_finish_failure is fenced).       *)
PublishedOncePerRequest ==
  \A j \in Jobs :
    Cardinality(published[j])
      <= 1 + Cardinality({r \in Requests : rpc[r] = "retried" /\ rjob[r] = j})

(* Rows are well formed, and whatever fails, crashes or is taken for lost, *)
(* the queue neither runs nor publishes a job more often than it was asked *)
(* to.                                                                     *)
QueueIsBounded == TypeOK /\ RunsBounded /\ PublishedOncePerRequest

(* Every job that waits or runs is eventually settled.                     *)
JobsSettle == \A j \in Jobs : status[j] \in Pending ~> status[j] \in Settled

(* Stated by docs/ml-jobs-operacao.md, and not so: a job that is shown as  *)
(* cancelled has published no candidate and no suggestion.                 *)
CancelledPublishedNothing ==
  \A j \in Jobs : status[j] = "cancelled" => published[j] = {}

(* Stated by docs/ml-jobs-operacao.md, and not so: a settled job goes back *)
(* to the queue only if it had failed.                                     *)
RequeuedHadFailed ==
  \A j \in Jobs :
    status[j] \in Settled /\ status'[j] = "queued" => status[j] = "failed"
OnlyFailedRequeued == [][RequeuedHadFailed]_vars

(* Stated by docs/ml-jobs-operacao.md, and not so: the candidate of a      *)
(* completed training has its artifact on the volume.                      *)
CandidateHasArtifact ==
  \A j \in Trains : status[j] = "completed" => runs[j] \in artifacts[j]
=============================================================================
