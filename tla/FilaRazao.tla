----------------------------- MODULE FilaRazao -----------------------------
(***************************************************************************)
(* The durable queue of ledger imports: lotes_importacao_razao and its     *)
(* attempt rows in PostgreSQL, the private files under their flocks, the   *)
(* consumer threads with their heartbeat threads, the API requests that    *)
(* admit or retry a batch, the cleaner, and the clock seen through the     *)
(* two deadlines that matter (a lease and a retention period elapse).      *)
(*                                                                         *)
(* Every action is one database transaction, one flock operation, or the   *)
(* part of a handler between two of them.  Row locks that outlive one      *)
(* transaction step are kept: FOR KEY SHARE taken by the foreign keys of   *)
(* the business transaction, FOR UPDATE taken by a manual retry.           *)
(***************************************************************************)
EXTENDS Naturals

CONSTANTS
  NLotes,         \* batches the sequence hands out in a behaviour
  Workers,        \* consumer threads
  Procs,          \* worker processes
  ProcOf,         \* the process each thread runs in
  Requests,       \* API requests being served at once
  MaxAttempts,    \* bound: manual retries stop being made at this attempt
  Free            \* "nobody holds the flock"

ASSUME ConstantsAssumption ==
  /\ NLotes \in Nat
  /\ MaxAttempts \in Nat /\ MaxAttempts >= 2
  /\ ProcOf \in [Workers -> Procs]
  /\ Workers \cap Requests = {}
  /\ Free \notin Workers \cup Requests

VARIABLES
  (* the row of each batch *)
  status, attempt, token, lease, error, aged,
  hist,           \* result of each attempt row; "none": no such row
  entries,        \* attempts whose ledger entries were committed
  warns,          \* attempts whose warning rows were committed
  (* the private volume *)
  file,           \* the directory bound to the batch still has its file
  flock,          \* who holds the flock of that file
  (* consumer threads *)
  pc, job, claim, hb, cause,
  (* API requests *)
  rpc, rjob

lote     == <<status, attempt, token, lease, error, aged, hist>>
results  == <<entries, warns>>
volume   == <<file, flock>>
workers  == <<pc, job, claim, hb, cause>>
requests == <<rpc, rjob>>
vars     == <<lote, results, volume, workers, requests>>

Lotes    == 1..NLotes
Tries    == 1..MaxAttempts
Visible  == {"queued", "processing", "completed", "failed"}
Active   == {"queued", "processing"}
Causes   == {"processing_failed", "invalid_ledger",
             "temporary_file_unavailable", "temporary_file_busy"}
Errors   == Causes \cup {"none", "lease_expired"}
Outcomes == {"none", "open", "completed", "failed", "interrupted"}

(* Threads inside open_for_job; threads whose business transaction is open *)
Holding == {"parsing", "writing", "committed"}
InTx    == {"parsing", "writing"}

TypeOK ==
  /\ status \in [Lotes -> Visible \cup {"none", "inserted", "gone"}]
  /\ attempt \in [Lotes -> 0..MaxAttempts]
  /\ token \in [Lotes -> 0..MaxAttempts]
  /\ lease \in [Lotes -> {"none", "live", "expired"}]
  /\ error \in [Lotes -> Errors]
  /\ aged \in [Lotes -> BOOLEAN]
  /\ hist \in [Lotes -> [Tries -> Outcomes]]
  /\ entries \in [Lotes -> SUBSET Tries]
  /\ warns \in [Lotes -> SUBSET Tries]
  /\ file \in [Lotes -> BOOLEAN]
  /\ flock \in [Lotes -> Workers \cup Requests \cup {Free}]
  /\ pc \in [Workers -> {"idle", "claimed", "failing", "cleaning", "dead"}
                          \cup Holding]
  /\ job \in [Workers -> Lotes \cup {0}]
  /\ claim \in [Workers -> 0..MaxAttempts]
  /\ hb \in [Workers -> {"off", "on", "lost"}]
  /\ cause \in [Workers -> Causes \cup {"none"}]
  /\ rpc \in [Requests -> {"idle", "binding", "retrying", "leaving"}]
  /\ rjob \in [Requests -> Lotes \cup {0}]

Init ==
  /\ status = [l \in Lotes |-> "none"]
  /\ attempt = [l \in Lotes |-> 0]
  /\ token = [l \in Lotes |-> 0]
  /\ lease = [l \in Lotes |-> "none"]
  /\ error = [l \in Lotes |-> "none"]
  /\ aged = [l \in Lotes |-> FALSE]
  /\ hist = [l \in Lotes |-> [n \in Tries |-> "none"]]
  /\ entries = [l \in Lotes |-> {}]
  /\ warns = [l \in Lotes |-> {}]
  /\ file = [l \in Lotes |-> FALSE]
  /\ flock = [l \in Lotes |-> Free]
  /\ pc = [w \in Workers |-> "idle"]
  /\ job = [w \in Workers |-> 0]
  /\ claim = [w \in Workers |-> 0]
  /\ hb = [w \in Workers |-> "off"]
  /\ cause = [w \in Workers |-> "none"]
  /\ rpc = [r \in Requests |-> "idle"]
  /\ rjob = [r \in Requests |-> 0]

-----------------------------------------------------------------------------
(* Row locks and ownership *)

(* Inserted children hold FOR KEY SHARE on their batch until the end of    *)
(* the business transaction.                                               *)
KeyShared(l) == \E w \in Workers : pc[w] = "writing" /\ job[w] = l

RowLocked(l) ==
  KeyShared(l) \/ \E r \in Requests : rpc[r] = "retrying" /\ rjob[r] = l

(* _locked_owned_lote, renew_lease and update_progress share this WHERE.   *)
(* A lease token is a uuid drawn per claim; the attempt number of a batch  *)
(* identifies the claim just as well.                                      *)
OwnedIfProcessing(w) == status[job[w]] = "processing"    \* mutant: no token
OwnedByAttempt(w) == attempt[job[w]] = claim[w]          \* mutant: no status
Owned(w) == status[job[w]] = "processing" /\ token[job[w]] = claim[w]

(* A flock is only ever tried, never waited for.                           *)
FileThere(l) == file[l]                                  \* mutant: no flock
FileFree(l) == file[l] /\ flock[l] = Free

DropFlocks(h) == [l \in Lotes |-> IF flock[l] = h THEN Free ELSE flock[l]]

(* Mutant: the attempt row is left open.                                   *)
SettleLoteOnly(l, n, s, outcome, code) ==
  /\ status' = [status EXCEPT ![l] = s]
  /\ token' = [token EXCEPT ![l] = 0]
  /\ lease' = [lease EXCEPT ![l] = "none"]
  /\ error' = [error EXCEPT ![l] = code]
  /\ aged' = [aged EXCEPT ![l] = FALSE]
  /\ UNCHANGED <<attempt, hist>>

(* What closing an attempt writes to the batch and to its attempt row.     *)
Settle(l, n, s, outcome, code) ==
  /\ status' = [status EXCEPT ![l] = s]
  /\ token' = [token EXCEPT ![l] = 0]
  /\ lease' = [lease EXCEPT ![l] = "none"]
  /\ hist' = [hist EXCEPT ![l][n] = outcome]
  /\ error' = [error EXCEPT ![l] = code]
  /\ aged' = [aged EXCEPT ![l] = FALSE]
  /\ UNCHANGED attempt

(* The thread goes to p with nothing in hand; leaving open_for_job closes  *)
(* the stream, which drops the flock.                                      *)
Leave(w, p) ==
  /\ pc' = [pc EXCEPT ![w] = p]
  /\ job' = [job EXCEPT ![w] = 0]
  /\ claim' = [claim EXCEPT ![w] = 0]
  /\ hb' = [hb EXCEPT ![w] = "off"]
  /\ cause' = [cause EXCEPT ![w] = "none"]
  /\ flock' = DropFlocks(w)
  /\ UNCHANGED file

-----------------------------------------------------------------------------
(* API: admission of an upload and manual retry.  Both commit while they   *)
(* still hold the flock of the file, and drop it afterwards.               *)

(* The row is flushed and the binding file written; nobody else sees the   *)
(* row yet.  Ids come from a sequence, in order.                           *)
UploadBind(r, l) ==
  /\ rpc[r] = "idle"
  /\ status[l] = "none"
  /\ \A k \in Lotes : k < l => status[k] # "none"
  /\ status' = [status EXCEPT ![l] = "inserted"]
  /\ file' = [file EXCEPT ![l] = TRUE]
  /\ flock' = [flock EXCEPT ![l] = r]
  /\ rpc' = [rpc EXCEPT ![r] = "binding"]
  /\ rjob' = [rjob EXCEPT ![r] = l]
  /\ UNCHANGED <<attempt, token, lease, error, aged, hist, results, workers>>

UploadCommit(r) ==
  /\ rpc[r] = "binding"
  /\ status' = [status EXCEPT ![rjob[r]] = "queued"]
  /\ rpc' = [rpc EXCEPT ![r] = "leaving"]
  /\ UNCHANGED <<attempt, token, lease, error, aged, hist, results, volume,
                 workers, rjob>>

(* retry_guard: the flock without waiting, then the row FOR UPDATE SKIP    *)
(* LOCKED, then the conditions on the locked row.                          *)
RetryOpen(r, l) ==
  /\ rpc[r] = "idle"
  /\ attempt[l] < MaxAttempts
  /\ FileFree(l)
  /\ status[l] = "failed" /\ ~RowLocked(l) /\ ~aged[l] /\ lease[l] # "live"
  /\ flock' = [flock EXCEPT ![l] = r]
  /\ rpc' = [rpc EXCEPT ![r] = "retrying"]
  /\ rjob' = [rjob EXCEPT ![r] = l]
  /\ UNCHANGED <<lote, results, file, workers>>

(* The retry keeps attempt_count and every row the batch already produced. *)
RetryCommit(r) ==
  LET l == rjob[r] IN
  /\ rpc[r] = "retrying"
  /\ status' = [status EXCEPT ![l] = "queued"]
  /\ token' = [token EXCEPT ![l] = 0]
  /\ lease' = [lease EXCEPT ![l] = "none"]
  /\ error' = [error EXCEPT ![l] = "none"]
  /\ aged' = [aged EXCEPT ![l] = FALSE]
  /\ rpc' = [rpc EXCEPT ![r] = "leaving"]
  /\ UNCHANGED <<attempt, hist, results, volume, workers, rjob>>

(* The context manager closes the stream after the commit.                 *)
Release(r) ==
  /\ rpc[r] = "leaving"
  /\ flock' = DropFlocks(r)
  /\ rpc' = [rpc EXCEPT ![r] = "idle"]
  /\ rjob' = [rjob EXCEPT ![r] = 0]
  /\ UNCHANGED <<lote, results, file, workers>>

(* An error after the binding, or the death of the API process: rollback   *)
(* and no more flock.  A bound directory stays behind as an orphan.        *)
RequestAborts(r) ==
  /\ rpc[r] \in {"binding", "retrying"}
  /\ status' = [status EXCEPT ![rjob[r]] = IF rpc[r] = "binding" THEN "gone"
                                                               ELSE @]
  /\ flock' = DropFlocks(r)
  /\ rpc' = [rpc EXCEPT ![r] = "idle"]
  /\ rjob' = [rjob EXCEPT ![r] = 0]
  /\ UNCHANGED <<attempt, token, lease, error, aged, hist, results, file,
                 workers>>

(* delete_ledger_import_batch: any state, as soon as the row lock is free; *)
(* the children go with the row, the file stays for the cleaner.           *)
AdminDelete(l) ==
  /\ status[l] \in Visible
  /\ ~RowLocked(l)
  /\ status' = [status EXCEPT ![l] = "gone"]
  /\ attempt' = [attempt EXCEPT ![l] = 0]
  /\ token' = [token EXCEPT ![l] = 0]
  /\ lease' = [lease EXCEPT ![l] = "none"]
  /\ error' = [error EXCEPT ![l] = "none"]
  /\ aged' = [aged EXCEPT ![l] = FALSE]
  /\ hist' = [hist EXCEPT ![l] = [n \in Tries |-> "none"]]
  /\ entries' = [entries EXCEPT ![l] = {}]
  /\ warns' = [warns EXCEPT ![l] = {}]
  /\ UNCHANGED <<volume, workers, requests>>

-----------------------------------------------------------------------------
(* Consumer thread: run_once *)

ExhaustedAfterThird(l) ==                        \* mutant: off by one
  status[l] = "processing" /\ lease[l] = "expired" /\ attempt[l] > 2

Exhausted(l) ==
  status[l] = "processing" /\ lease[l] = "expired" /\ attempt[l] >= 2

(* _fail_exhausted_expired: the lease of a last attempt ran out.           *)
FailExhausted(w, l) ==
  /\ pc[w] = "idle"
  /\ Exhausted(l) /\ ~RowLocked(l)
  /\ \A k \in Lotes : k < l => ~(Exhausted(k) /\ ~RowLocked(k))
  /\ Settle(l, attempt[l], "failed", "failed", "lease_expired")
  /\ UNCHANGED <<results, volume, workers, requests>>

ClaimableForever(l) ==                           \* mutant: no limit
  /\ \/ status[l] = "queued"
     \/ status[l] = "processing" /\ lease[l] = "expired"
  /\ ~RowLocked(l)

ClaimableAlive(l) ==                             \* mutant: no deadline
  /\ \/ status[l] = "queued"
     \/ status[l] = "processing" /\ attempt[l] < 2
  /\ ~RowLocked(l)

Claimable(l) ==
  /\ \/ status[l] = "queued"
     \/ status[l] = "processing" /\ lease[l] = "expired" /\ attempt[l] < 2
  /\ ~RowLocked(l)

(* claim_next: the oldest claimable batch; an attempt whose lease ran out  *)
(* is closed as interrupted and a new one is opened under a new token.     *)
Claim(w, l) ==
  LET n == attempt[l] + 1 IN
  /\ pc[w] = "idle"
  /\ Claimable(l)
  /\ \A k \in Lotes : k < l => ~Claimable(k)
  /\ status' = [status EXCEPT ![l] = "processing"]
  /\ attempt' = [attempt EXCEPT ![l] = n]
  /\ token' = [token EXCEPT ![l] = n]
  /\ lease' = [lease EXCEPT ![l] = "live"]
  /\ error' = [error EXCEPT ![l] = "none"]
  /\ aged' = [aged EXCEPT ![l] = FALSE]
  /\ hist' = [hist EXCEPT ![l] = [m \in Tries |->
                IF m = n THEN "open"
                ELSE IF status[l] = "processing" /\ m = attempt[l] /\ @[m] = "open"
                     THEN "interrupted" ELSE @[m]]]
  /\ pc' = [pc EXCEPT ![w] = "claimed"]
  /\ job' = [job EXCEPT ![w] = l]
  /\ claim' = [claim EXCEPT ![w] = n]
  /\ UNCHANGED <<hb, cause, results, volume, requests>>

(* open_for_job found the file and took the flock; the heartbeat starts.   *)
OpenFile(w) ==
  /\ pc[w] = "claimed"
  /\ FileFree(job[w])
  /\ flock' = [flock EXCEPT ![job[w]] = w]
  /\ pc' = [pc EXCEPT ![w] = "parsing"]
  /\ hb' = [hb EXCEPT ![w] = "on"]
  /\ UNCHANGED <<lote, results, file, job, claim, cause, requests>>

(* An exception on its way to _fail: the transaction is rolled back, the   *)
(* stream closed, the heartbeat stopped.                                   *)
ToFail(w, c) ==
  /\ pc' = [pc EXCEPT ![w] = "failing"]
  /\ cause' = [cause EXCEPT ![w] = c]
  /\ hb' = [hb EXCEPT ![w] = "off"]
  /\ flock' = DropFlocks(w)
  /\ UNCHANGED <<lote, results, file, job, claim, requests>>

OpenMissing(w) ==
  /\ pc[w] = "claimed" /\ ~file[job[w]]
  /\ ToFail(w, "temporary_file_unavailable")

OpenBusy(w) ==
  /\ pc[w] = "claimed" /\ file[job[w]] /\ flock[job[w]] # Free
  /\ ToFail(w, "temporary_file_busy")

(* The first block is flushed: the foreign keys need the batch row and     *)
(* lock it FOR KEY SHARE.                                                  *)
WriteBlock(w) ==
  /\ pc[w] = "parsing"
  /\ status[job[w]] \in Visible
  /\ pc' = [pc EXCEPT ![w] = "writing"]
  /\ UNCHANGED <<lote, results, volume, job, claim, hb, cause, requests>>

(* The processor raises: invalid file, or any other exception (which is    *)
(* also what a missing batch row or a failed commit comes to).             *)
ProcessorFails(w) ==
  /\ pc[w] \in InTx
  /\ \E c \in {"processing_failed", "invalid_ledger"} : ToFail(w, c)

(* LeaseLost, raised by a progress update or by the final check: rollback, *)
(* and the exception leaves run_once and ends the thread.                  *)
LoseLease(w) ==
  /\ pc[w] \in InTx
  /\ hb[w] = "lost" \/ ~Owned(w)
  /\ Leave(w, "dead")
  /\ UNCHANGED <<lote, results, requests>>

(* _complete and the commit of the business transaction: entries, warnings *)
(* and verdict together.  "failed" is the verdict when no line was valid;  *)
(* its warnings are stored all the same.  The row lock waits for foreign   *)
(* keys of other transactions.                                             *)
Complete(w) ==
  LET l == job[w] IN
  /\ pc[w] \in InTx
  /\ hb[w] = "on" /\ Owned(w)
  /\ ~\E v \in Workers \ {w} : pc[v] = "writing" /\ job[v] = l
  /\ \/ /\ Settle(l, claim[w], "completed", "completed", "none")
        /\ entries' = [entries EXCEPT ![l] = @ \cup {claim[w]}]
        /\ \/ UNCHANGED warns
           \/ /\ pc[w] = "writing"
              /\ warns' = [warns EXCEPT ![l] = @ \cup {claim[w]}]
     \/ /\ pc[w] = "writing"
        /\ Settle(l, claim[w], "failed", "failed", "invalid_ledger")
        /\ warns' = [warns EXCEPT ![l] = @ \cup {claim[w]}]
        /\ UNCHANGED entries
  /\ pc' = [pc EXCEPT ![w] = "committed"]
  /\ hb' = [hb EXCEPT ![w] = "off"]
  /\ UNCHANGED <<volume, job, claim, cause, requests>>

(* The context managers exit; run_once goes on to cleanup().               *)
CloseFile(w) ==
  /\ pc[w] = "committed"
  /\ Leave(w, "cleaning")
  /\ UNCHANGED <<lote, results, requests>>

(* The commit went through but its acknowledgement did not arrive: taken   *)
(* for a transient failure.                                                *)
CommitUnacknowledged(w) ==
  /\ pc[w] = "committed"
  /\ ToFail(w, "processing_failed")

(* _fail: a transient failure of the first attempt puts the batch back.    *)
Fail(w) ==
  LET l == job[w]
      retry == cause[w] = "processing_failed" /\ claim[w] < 2
  IN
  /\ pc[w] = "failing" /\ Owned(w) /\ ~KeyShared(l)
  /\ IF retry THEN Settle(l, claim[w], "queued", "interrupted", cause[w])
              ELSE Settle(l, claim[w], "failed", "failed", cause[w])
  /\ Leave(w, "idle")
  /\ UNCHANGED <<results, requests>>

(* _fail found the batch taken or gone: LeaseLost ends the thread.         *)
FailTooLate(w) ==
  /\ pc[w] = "failing" /\ ~Owned(w)
  /\ Leave(w, "dead")
  /\ UNCHANGED <<lote, results, requests>>

-----------------------------------------------------------------------------
(* Heartbeat thread *)

(* renew_lease does not look at the deadline: a lease that ran out and was *)
(* not taken is live again.                                                *)
Renew(w) ==
  /\ hb[w] = "on"
  /\ IF Owned(w)
     THEN lease' = [lease EXCEPT ![job[w]] = "live"] /\ UNCHANGED hb
     ELSE hb' = [hb EXCEPT ![w] = "lost"] /\ UNCHANGED lease
  /\ UNCHANGED <<status, attempt, token, error, aged, hist, results, volume,
                 pc, job, claim, cause, requests>>

(* Any exception while renewing ends the heartbeat for good.               *)
HeartbeatFails(w) ==
  /\ hb[w] = "on"
  /\ hb' = [hb EXCEPT ![w] = "lost"]
  /\ UNCHANGED <<lote, results, volume, pc, job, claim, cause, requests>>

-----------------------------------------------------------------------------
(* Cleaner, clock, crashes *)

CanRemoveFailed(l) ==                            \* mutant: no retention
  lease[l] # "live" /\ status[l] \in {"completed", "failed"}

(* _can_remove on the row, or no visible row at all ("exists is None").    *)
CanRemove(l) ==
  /\ lease[l] # "live"
  /\ \/ status[l] = "completed"
     \/ status[l] = "failed" /\ aged[l]

CollectableByRow(l) == CanRemove(l) /\ ~RowLocked(l)  \* mutant: no orphans
Collectable(l) == status[l] \notin Visible \/ (CanRemove(l) /\ ~RowLocked(l))

(* One directory of a cleanup() pass, under the volume lock, the flock and *)
(* the row lock.                                                           *)
CleanFile(w, l) ==
  /\ pc[w] \in {"idle", "cleaning"}
  /\ FileFree(l)
  /\ Collectable(l)
  /\ file' = [file EXCEPT ![l] = FALSE]
  /\ UNCHANGED <<lote, results, flock, workers, requests>>

CleanDone(w) ==
  /\ pc[w] = "cleaning"
  /\ pc' = [pc EXCEPT ![w] = "idle"]
  /\ UNCHANGED <<lote, results, volume, job, claim, hb, cause, requests>>

(* RAZAO_LEASE_SECONDS pass without a renewal.                             *)
LeaseRunsOut(l) ==
  /\ lease[l] = "live"
  /\ lease' = [lease EXCEPT ![l] = "expired"]
  /\ UNCHANGED <<status, attempt, token, error, aged, hist, results, volume,
                 workers, requests>>

(* RAZAO_FAILED_RETENTION_SECONDS pass since failed_at.                    *)
RetentionRunsOut(l) ==
  /\ status[l] = "failed" /\ ~aged[l]
  /\ aged' = [aged EXCEPT ![l] = TRUE]
  /\ UNCHANGED <<status, attempt, token, lease, error, hist, results, volume,
                 workers, requests>>

(* A database error outside the handled part of run_once ends the thread.  *)
ThreadDies(w) ==
  /\ pc[w] \in {"idle", "claimed", "failing", "cleaning"}
  /\ Leave(w, "dead")
  /\ UNCHANGED <<lote, results, requests>>

(* The process is killed: every thread stops, the kernel drops the flocks, *)
(* the server rolls back.                                                  *)
Crash(p) ==
  LET S == {w \in Workers : ProcOf[w] = p} IN
  /\ \E w \in S : pc[w] # "dead"
  /\ pc' = [w \in Workers |-> IF w \in S THEN "dead" ELSE pc[w]]
  /\ job' = [w \in Workers |-> IF w \in S THEN 0 ELSE job[w]]
  /\ claim' = [w \in Workers |-> IF w \in S THEN 0 ELSE claim[w]]
  /\ hb' = [w \in Workers |-> IF w \in S THEN "off" ELSE hb[w]]
  /\ cause' = [w \in Workers |-> IF w \in S THEN "none" ELSE cause[w]]
  /\ flock' = [l \in Lotes |-> IF flock[l] \in S THEN Free ELSE flock[l]]
  /\ UNCHANGED <<lote, results, file, requests>>

(* main() returns when the last thread has ended; the container restarts.  *)
Restart(p) ==
  /\ \E w \in Workers : ProcOf[w] = p
  /\ \A w \in Workers : ProcOf[w] = p => pc[w] = "dead"
  /\ pc' = [w \in Workers |-> IF ProcOf[w] = p THEN "idle" ELSE pc[w]]
  /\ UNCHANGED <<lote, results, volume, job, claim, hb, cause, requests>>

-----------------------------------------------------------------------------
Request(r) ==
  \/ \E l \in Lotes : UploadBind(r, l) \/ RetryOpen(r, l)
  \/ UploadCommit(r) \/ RetryCommit(r) \/ Release(r) \/ RequestAborts(r)

RunOnce(w) ==
  \/ \E l \in Lotes : FailExhausted(w, l) \/ Claim(w, l)
  \/ OpenFile(w) \/ OpenMissing(w) \/ OpenBusy(w)
  \/ WriteBlock(w) \/ ProcessorFails(w) \/ LoseLease(w) \/ Complete(w)
  \/ CloseFile(w) \/ CommitUnacknowledged(w) \/ Fail(w) \/ FailTooLate(w)
  \/ (\E l \in Lotes : CleanFile(w, l)) \/ CleanDone(w)

Thread(w) == RunOnce(w) \/ Renew(w) \/ HeartbeatFails(w) \/ ThreadDies(w)

Next ==
  \/ \E r \in Requests : Request(r)
  \/ \E w \in Workers : Thread(w)
  \/ \E l \in Lotes : AdminDelete(l) \/ LeaseRunsOut(l) \/ RetentionRunsOut(l)
  \/ \E p \in Procs : Crash(p) \/ Restart(p)

Spec == Init /\ [][Next]_vars

(* Fairness.  A thread that has claimed goes on; an API request ends; time *)
(* passes; the container restarts a process that ended.  Claims, closing   *)
(* of exhausted batches and cleaning are the first things a (re)started    *)
(* thread does, so they are not put off for ever by crashes (SF).          *)
Work(w) ==
  \/ OpenFile(w) \/ OpenMissing(w) \/ OpenBusy(w)
  \/ WriteBlock(w) \/ ProcessorFails(w) \/ LoseLease(w) \/ Complete(w)
  \/ CloseFile(w) \/ Fail(w) \/ FailTooLate(w) \/ CleanDone(w)

Fairness ==
  /\ \A w \in Workers : WF_vars(Work(w))
  /\ \A r \in Requests :
       WF_vars(UploadCommit(r) \/ RetryCommit(r) \/ Release(r) \/ RequestAborts(r))
  /\ \A p \in Procs : WF_vars(Restart(p))
  /\ \A l \in Lotes :
       /\ WF_vars(LeaseRunsOut(l))
       /\ SF_vars(\E w \in Workers : Claim(w, l))
       /\ SF_vars(\E w \in Workers : FailExhausted(w, l))
       /\ SF_vars(\E w \in Workers : CleanFile(w, l))

FairSpec == Spec /\ Fairness

-----------------------------------------------------------------------------
(* Properties *)

(* Ledger entries are stored for a batch only when it is completed, and    *)
(* then by exactly one attempt, the last one: a repeated, interrupted or   *)
(* superseded attempt leaves none behind (process_razao_upload runs inside *)
(* the transaction that _complete closes under the claim's token).         *)
EntriesOfLastAttempt ==
  \A l \in Lotes :
    entries[l] # {} => status[l] = "completed" /\ entries[l] = {attempt[l]}

(* The attempt rows tell the story of the batch: as many as attempt_count, *)
(* open exactly while the batch is processing and only the last one, and   *)
(* the last result agrees with the status.                                 *)
HistoryAgrees ==
  \A l \in Lotes :
    /\ \A n \in Tries :
         /\ hist[l][n] = "none" <=> n > attempt[l]
         /\ hist[l][n] = "open" <=> status[l] = "processing" /\ n = attempt[l]
         /\ hist[l][n] = "completed" <=> status[l] = "completed" /\ n = attempt[l]
    /\ status[l] = "failed" => hist[l][attempt[l]] = "failed"

(* The queue repeats a batch on its own once: whatever crashes, leases or  *)
(* transient failures do, only a first attempt is ever interrupted, every  *)
(* later one is settled until somebody asks for a retry (the limit of two  *)
(* attempts in _fail, claim_next and _fail_exhausted_expired).             *)
OnlyFirstAttemptRepeats ==
  \A l \in Lotes, n \in Tries : hist[l][n] = "interrupted" => n = 1

(* Two threads never have business transactions open for one batch, even   *)
(* when the first outlived its lease and the second claimed the batch: the *)
(* flock held by open_for_job keeps them apart.                            *)
OneProcessorPerBatch ==
  \A v, w \in Workers :
    v # w /\ pc[v] \in InTx /\ pc[w] \in InTx => job[v] # job[w]

(* The file of a batch that waits, is being processed, or failed less than *)
(* the retention period ago is never removed, whatever uploads, retries,   *)
(* deletions and cleaning passes overlap (cleanup, retry_guard).           *)
FileKeptWhileNeeded ==
  \A l \in Lotes :
    status[l] \in Active \/ (status[l] = "failed" /\ ~aged[l]) => file[l]

(* While the lease of a batch is live nobody but its own worker (or a      *)
(* deletion) ends or takes over the attempt in course.                     *)
OwnerEndsLiveLease ==
  \A l \in Lotes :
    lease[l] = "live" /\ token'[l] # token[l] /\ status'[l] # "gone" =>
      \E w \in Workers : job[w] = l /\ claim[w] = token[l] /\ pc[w] # pc'[w]
LiveLeaseIsExclusive == [][OwnerEndsLiveLease]_vars

(* The detailed queue implements the life cycle of LoteRazao.  The row of  *)
(* an uncommitted upload does not exist yet for anybody else.              *)
Seen == [l \in Lotes |-> IF status[l] = "inserted" THEN "none" ELSE status[l]]
Life == INSTANCE LoteRazao WITH status <- Seen
ImplementsLife == Life!Spec

(* Every batch that waits or is being processed leaves those states: it is *)
(* completed, failed or deleted, in spite of crashes and lost leases.      *)
ActiveBatchesSettle ==
  \A l \in Lotes : status[l] \in Active ~> status[l] \notin Active

(* The file of a completed batch, of a deleted one and of a rolled back    *)
(* admission is eventually removed by some cleaning pass.                  *)
LeftoverFilesCollected ==
  \A l \in Lotes :
    (file[l] /\ status[l] \in {"completed", "gone"}) ~> ~file[l]

(* Stated by Spec 04, and not so: a first attempt ends the batch only for  *)
(* a deterministic cause (a bad file, a missing file).                     *)
FirstAttemptFailsForCause ==
  \A l \in Lotes :
    status[l] = "failed" /\ attempt[l] = 1 =>
      error[l] \in {"invalid_ledger", "temporary_file_unavailable"}

(* Stated by Spec 04, and not so: the warning rows of a completed batch    *)
(* are the ones its own totals count, those of the completing attempt.     *)
WarningsOfLastAttempt ==
  \A l \in Lotes : status[l] = "completed" => warns[l] \subseteq {attempt[l]}

(* Stated by run_worker_loop's docstring, and not so: a consumer runs until*)
(* its process is told to stop.                                            *)
ConsumersRunUntilShutdown ==
  \A v, w \in Workers :
    ProcOf[v] = ProcOf[w] /\ pc[v] = "dead" => pc[w] = "dead"
=============================================================================
