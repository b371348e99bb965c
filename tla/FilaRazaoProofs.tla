-------------------------- MODULE FilaRazaoProofs --------------------------
(***************************************************************************)
(* Theorems about FilaRazao, for any number of batches, consumer threads,  *)
(* processes and requests.  The safety properties are not inductive: they  *)
(* rest on what the row, the flock, the threads and the requests know of   *)
(* each other, which IInv collects.                                        *)
(***************************************************************************)
EXTENDS FilaRazao, TLAPS

(* The lease fields go with the status, as the CHECK constraints of        *)
(* lotes_importacao_razao want them; the token is the attempt in course.   *)
RowInv == \A l \in Lotes :
  /\ IF status[l] = "processing"
     THEN token[l] = attempt[l] /\ attempt[l] # 0 /\ lease[l] # "none"
     ELSE token[l] = 0 /\ lease[l] = "none"
  /\ status[l] \in {"none", "inserted", "gone"} => attempt[l] = 0
  /\ status[l] = "queued" => attempt[l] < MaxAttempts
  /\ status[l] \in {"completed", "failed"} => attempt[l] # 0

(* A thread with a claim names a batch and an attempt; while it holds the  *)
(* stream it has the flock of that batch's file.                           *)
ThreadInv == \A w \in Workers :
  /\ IF pc[w] \in {"idle", "cleaning", "dead"}
     THEN job[w] = 0
     ELSE job[w] \in Lotes /\ claim[w] \in Tries /\ status[job[w]] # "none"
  /\ hb[w] # "off" => pc[w] \in InTx
  /\ pc[w] \in Holding => flock[job[w]] = w

(* A request at work holds the flock of its batch, whose file is there     *)
(* until the commit; the row is still what the request saw.                *)
RequestInv == \A r \in Requests :
  /\ rpc[r] # "idle" =>
       rjob[r] \in Lotes /\ flock[rjob[r]] = r /\ status[rjob[r]] # "none"
  /\ rpc[r] = "binding" => status[rjob[r]] = "inserted" /\ file[rjob[r]]
  /\ rpc[r] = "retrying" =>
       /\ status[rjob[r]] = "failed" /\ file[rjob[r]]
       /\ attempt[rjob[r]] < MaxAttempts

IInv ==
  /\ TypeOK /\ RowInv /\ ThreadInv /\ RequestInv
  /\ EntriesOfLastAttempt /\ HistoryAgrees /\ OnlyFirstAttemptRepeats
  /\ FileKeptWhileNeeded

(* What a batch row, its attempts and its results are to each other.       *)
RowsInv ==
  /\ RowInv
  /\ EntriesOfLastAttempt /\ HistoryAgrees /\ OnlyFirstAttemptRepeats

(* The attempt in course of batch l is closed with status s.               *)
Closes(l, s, outcome) ==
  /\ status[l] = "processing"
  /\ \/ s = "queued" /\ outcome = "interrupted" /\ attempt[l] = 1
     \/ s = outcome /\ s \in {"completed", "failed"}

-----------------------------------------------------------------------------
LEMMA Initially == Init => IInv
  BY ConstantsAssumption DEF Init, IInv, TypeOK, RowInv, ThreadInv,
     RequestInv, EntriesOfLastAttempt, HistoryAgrees, OnlyFirstAttemptRepeats,
     FileKeptWhileNeeded, Tries, Active, Holding, Errors, Outcomes

LEMMA RowsUntouched ==
  ASSUME RowsInv, UNCHANGED <<lote, results>>
  PROVE  RowsInv'
  BY DEF RowsInv, RowInv, EntriesOfLastAttempt, HistoryAgrees,
     OnlyFirstAttemptRepeats, lote, results

(* Settle keeps the types of the row and says what a row says.             *)
LEMMA SettleTypes ==
  ASSUME TypeOK, NEW l \in Lotes, NEW n \in Tries, NEW s \in Visible,
         NEW outcome \in Outcomes, NEW code \in Errors,
         Settle(l, n, s, outcome, code)
  PROVE  /\ status' \in [Lotes -> Visible \cup {"none", "inserted", "gone"}]
         /\ attempt' \in [Lotes -> 0..MaxAttempts]
         /\ token' \in [Lotes -> 0..MaxAttempts]
         /\ lease' \in [Lotes -> {"none", "live", "expired"}]
         /\ error' \in [Lotes -> Errors]
         /\ aged' \in [Lotes -> BOOLEAN]
         /\ hist' \in [Lotes -> [Tries -> Outcomes]]
  BY ConstantsAssumption DEF TypeOK, Settle

LEMMA SettleRows ==
  ASSUME TypeOK, RowsInv, NEW l \in Lotes, NEW s, NEW outcome, NEW code,
         Closes(l, s, outcome), Settle(l, attempt[l], s, outcome, code)
  PROVE  RowInv' /\ HistoryAgrees' /\ OnlyFirstAttemptRepeats'
<1>1. attempt[l] \in Tries
  BY DEF TypeOK, RowsInv, RowInv, Closes, Tries
<1>2. RowInv'
  BY <1>1, ConstantsAssumption DEF TypeOK, RowsInv, RowInv, Closes, Settle
<1>3. ASSUME NEW k \in Lotes
      PROVE  /\ status'[k] = IF k = l THEN s ELSE status[k]
             /\ \A n \in Tries : hist'[k][n] = IF k = l /\ n = attempt[l]
                                               THEN outcome ELSE hist[k][n]
             /\ attempt'[k] = attempt[k]
  BY <1>1, <1>3 DEF TypeOK, Settle
<1>4. HistoryAgrees'
  <2>1. ASSUME NEW k \in Lotes
        PROVE  /\ \A n \in Tries :
                    /\ hist'[k][n] = "none" <=> n > attempt'[k]
                    /\ hist'[k][n] = "open" <=>
                         status'[k] = "processing" /\ n = attempt'[k]
                    /\ hist'[k][n] = "completed" <=>
                         status'[k] = "completed" /\ n = attempt'[k]
               /\ status'[k] = "failed" => hist'[k][attempt'[k]] = "failed"
    <3>1. CASE k = l
      BY <1>1, <1>3, <2>1, <3>1 DEF RowsInv, HistoryAgrees, Closes
    <3>2. CASE k # l
      <4>1. status[k] = "failed" => attempt[k] \in Tries
        BY <2>1 DEF TypeOK, RowsInv, RowInv, Tries
      <4>2. QED BY <1>3, <2>1, <3>2, <4>1 DEF RowsInv, HistoryAgrees
    <3>3. QED BY <3>1, <3>2
  <2>2. QED BY <2>1 DEF HistoryAgrees
<1>5. OnlyFirstAttemptRepeats'
  BY <1>1, <1>3 DEF RowsInv, OnlyFirstAttemptRepeats, Closes
<1>6. QED BY <1>2, <1>4, <1>5

LEMMA UploadBindKeeps ==
  ASSUME IInv, NEW r \in Requests, NEW l \in Lotes, UploadBind(r, l)
  PROVE  IInv'
<1>1. TypeOK'
  BY DEF IInv, TypeOK, UploadBind, results, workers
<1>2. ThreadInv'
  BY DEF IInv, ThreadInv, UploadBind, workers, Lotes
<1>3. RequestInv'
  BY DEF IInv, TypeOK, RequestInv, UploadBind
<1>4. RowsInv'
  <2>1. RowInv'
    BY DEF IInv, RowInv, UploadBind
  <2>2. EntriesOfLastAttempt'
    BY DEF IInv, EntriesOfLastAttempt, UploadBind, results
  <2>3. HistoryAgrees'
    BY DEF IInv, HistoryAgrees, UploadBind
  <2>4. OnlyFirstAttemptRepeats'
    BY DEF IInv, OnlyFirstAttemptRepeats, UploadBind
  <2>q. QED BY <2>1, <2>2, <2>3, <2>4 DEF RowsInv
<1>5. FileKeptWhileNeeded'
  BY DEF IInv, TypeOK, FileKeptWhileNeeded, UploadBind
<1>q. QED BY <1>1, <1>2, <1>3, <1>4, <1>5 DEF IInv, RowsInv

LEMMA UploadCommitKeeps ==
  ASSUME IInv, NEW r \in Requests, UploadCommit(r)
  PROVE  IInv'
<1>0. rjob[r] \in Lotes
  BY DEF IInv, RequestInv, UploadCommit
<1>1. TypeOK'
  BY <1>0 DEF IInv, TypeOK, UploadCommit, results, volume, workers, Visible
<1>2. ThreadInv'
  BY DEF IInv, ThreadInv, UploadCommit, volume, workers
<1>3. RequestInv'
  BY DEF IInv, TypeOK, RequestInv, UploadCommit, volume
<1>4. RowsInv'
  <2>1. RowInv'
    BY ConstantsAssumption DEF IInv, RowInv, RequestInv, UploadCommit
  <2>2. EntriesOfLastAttempt'
    BY DEF IInv, EntriesOfLastAttempt, RequestInv, UploadCommit, results
  <2>3. HistoryAgrees'
    BY DEF IInv, HistoryAgrees, RequestInv, UploadCommit
  <2>4. OnlyFirstAttemptRepeats'
    BY DEF IInv, OnlyFirstAttemptRepeats, UploadCommit
  <2>q. QED BY <2>1, <2>2, <2>3, <2>4 DEF RowsInv
<1>5. FileKeptWhileNeeded'
  BY DEF IInv, RequestInv, FileKeptWhileNeeded, UploadCommit, volume
<1>q. QED BY <1>1, <1>2, <1>3, <1>4, <1>5 DEF IInv, RowsInv

LEMMA RetryOpenKeeps ==
  ASSUME IInv, NEW r \in Requests, NEW l \in Lotes, RetryOpen(r, l)
  PROVE  IInv'
<1>1. TypeOK'
  BY DEF IInv, TypeOK, RetryOpen, lote, results, workers
<1>2. ThreadInv'
  BY ConstantsAssumption DEF IInv, ThreadInv, RetryOpen, FileFree, lote,
     workers
<1>3. RequestInv'
  BY ConstantsAssumption DEF IInv, TypeOK, RequestInv, RetryOpen, FileFree,
     lote
<1>4. RowsInv'
  BY RowsUntouched DEF IInv, RowsInv, RetryOpen
<1>5. FileKeptWhileNeeded'
  BY DEF IInv, FileKeptWhileNeeded, RetryOpen, lote
<1>q. QED BY <1>1, <1>2, <1>3, <1>4, <1>5 DEF IInv, RowsInv

LEMMA RetryCommitKeeps ==
  ASSUME IInv, NEW r \in Requests, RetryCommit(r)
  PROVE  IInv'
<1>0. rjob[r] \in Lotes
  BY DEF IInv, RequestInv, RetryCommit
<1>1. TypeOK'
  BY ConstantsAssumption, <1>0 DEF IInv, TypeOK, RetryCommit, results, volume,
     workers, Tries, Visible, Causes, Errors, Outcomes, Holding
<1>2. ThreadInv'
  BY DEF IInv, ThreadInv, RetryCommit, volume, workers
<1>3. RequestInv'
  BY DEF IInv, TypeOK, RequestInv, RetryCommit, volume
<1>4. RowsInv'
  <2>1. RowInv'
    BY DEF IInv, RowInv, RequestInv, RetryCommit
  <2>2. EntriesOfLastAttempt'
    BY DEF IInv, EntriesOfLastAttempt, RequestInv, RetryCommit, results
  <2>3. HistoryAgrees'
    BY DEF IInv, HistoryAgrees, RequestInv, RetryCommit, Visible
  <2>4. OnlyFirstAttemptRepeats'
    BY DEF IInv, OnlyFirstAttemptRepeats, RetryCommit
  <2>q. QED BY <2>1, <2>2, <2>3, <2>4 DEF RowsInv
<1>5. FileKeptWhileNeeded'
  BY DEF IInv, RequestInv, FileKeptWhileNeeded, RetryCommit, volume
<1>q. QED BY <1>1, <1>2, <1>3, <1>4, <1>5 DEF IInv, RowsInv

LEMMA ReleaseKeeps ==
  ASSUME IInv, NEW r \in Requests, Release(r)
  PROVE  IInv'
<1>1. TypeOK'
  BY DEF IInv, TypeOK, Release, DropFlocks, lote, results, workers
<1>2. ThreadInv'
  BY ConstantsAssumption DEF IInv, ThreadInv, Release, DropFlocks, lote,
     workers, Holding
<1>3. RequestInv'
  BY DEF IInv, TypeOK, RequestInv, Release, DropFlocks, lote
<1>4. RowsInv'
  BY RowsUntouched DEF IInv, RowsInv, Release
<1>5. FileKeptWhileNeeded'
  BY DEF IInv, FileKeptWhileNeeded, Release, lote
<1>q. QED BY <1>1, <1>2, <1>3, <1>4, <1>5 DEF IInv, RowsInv

LEMMA RequestAbortsKeeps ==
  ASSUME IInv, NEW r \in Requests, RequestAborts(r)
  PROVE  IInv'
<1>1. TypeOK'
  BY ConstantsAssumption DEF IInv, TypeOK, RequestAborts, DropFlocks, results,
     workers, Tries, Visible, Causes, Errors, Outcomes, Holding
<1>2. ThreadInv'
  BY ConstantsAssumption DEF IInv, ThreadInv, RequestAborts, DropFlocks,
     workers, Holding
<1>3. RequestInv'
  BY DEF IInv, TypeOK, RequestInv, RequestAborts, DropFlocks, InTx
<1>4. RowsInv'
  <2>1. RowInv'
    BY DEF IInv, RowInv, RequestInv, RequestAborts
  <2>2. EntriesOfLastAttempt'
    BY DEF IInv, EntriesOfLastAttempt, RequestInv, RequestAborts, results
  <2>3. HistoryAgrees'
    BY DEF IInv, HistoryAgrees, RequestInv, RequestAborts, Visible, InTx
  <2>4. OnlyFirstAttemptRepeats'
    BY DEF IInv, OnlyFirstAttemptRepeats, RequestAborts
  <2>q. QED BY <2>1, <2>2, <2>3, <2>4 DEF RowsInv
<1>5. FileKeptWhileNeeded'
  BY DEF IInv, RequestInv, FileKeptWhileNeeded, RequestAborts
<1>q. QED BY <1>1, <1>2, <1>3, <1>4, <1>5 DEF IInv, RowsInv

LEMMA AdminDeleteKeeps ==
  ASSUME IInv, NEW l \in Lotes, AdminDelete(l)
  PROVE  IInv'
<1>1. TypeOK'
  BY ConstantsAssumption DEF IInv, TypeOK, AdminDelete, volume, workers,
     requests, Errors, Outcomes
<1>2. ThreadInv'
  BY DEF IInv, ThreadInv, AdminDelete, volume, workers
<1>3. RequestInv'
  BY DEF IInv, RequestInv, AdminDelete, RowLocked, volume, requests, Visible
<1>4. RowsInv'
  <2>1. RowInv'
    BY DEF IInv, TypeOK, RowInv, AdminDelete
  <2>2. EntriesOfLastAttempt'
    BY DEF IInv, TypeOK, EntriesOfLastAttempt, AdminDelete, InTx
  <2>3. HistoryAgrees'
    BY DEF IInv, TypeOK, HistoryAgrees, AdminDelete, Tries
  <2>4. OnlyFirstAttemptRepeats'
    BY DEF IInv, OnlyFirstAttemptRepeats, AdminDelete
  <2>q. QED BY <2>1, <2>2, <2>3, <2>4 DEF RowsInv
<1>5. FileKeptWhileNeeded'
  BY DEF IInv, TypeOK, FileKeptWhileNeeded, AdminDelete, volume, Active
<1>q. QED BY <1>1, <1>2, <1>3, <1>4, <1>5 DEF IInv, RowsInv

LEMMA FailExhaustedKeeps ==
  ASSUME IInv, NEW w \in Workers, NEW l \in Lotes, FailExhausted(w, l)
  PROVE  IInv'
<1>1. /\ Settle(l, attempt[l], "failed", "failed", "lease_expired")
      /\ UNCHANGED <<results, volume, workers, requests>>
      /\ Closes(l, "failed", "failed")
      /\ attempt[l] \in Tries
  BY DEF IInv, TypeOK, FailExhausted, Exhausted, Closes, Tries
<1>2. TypeOK'
  BY <1>1, SettleTypes DEF IInv, TypeOK, Visible, Errors, Outcomes, results,
     volume, workers, requests
<1>3. ThreadInv'
  BY <1>1 DEF IInv, ThreadInv, Settle, volume, workers
<1>4. RequestInv'
  BY <1>1 DEF IInv, RequestInv, FailExhausted, Exhausted, Settle, volume,
     requests
<1>5. RowsInv'
  <2>1. RowInv' /\ HistoryAgrees' /\ OnlyFirstAttemptRepeats'
    BY <1>1, SettleRows DEF IInv, RowsInv
  <2>2. EntriesOfLastAttempt'
    BY <1>1 DEF IInv, EntriesOfLastAttempt, Settle, Closes, results
  <2>3. QED BY <2>1, <2>2 DEF RowsInv
<1>6. FileKeptWhileNeeded'
  BY <1>1 DEF IInv, FileKeptWhileNeeded, Settle, Closes, Active, volume
<1>7. QED BY <1>2, <1>3, <1>4, <1>5, <1>6 DEF IInv, RowsInv

LEMMA ClaimKeeps ==
  ASSUME IInv, NEW w \in Workers, NEW l \in Lotes, Claim(w, l)
  PROVE  IInv'
<1> DEFINE n == attempt[l] + 1
<1>1. /\ status[l] \in Active
      /\ n \in Tries
      /\ status[l] = "processing" => attempt[l] = 1
  BY ConstantsAssumption DEF IInv, TypeOK, RowInv, Claim, Claimable, Active,
     Tries
<1>2. TypeOK'
  <2>1. hist' \in [Lotes -> [Tries -> Outcomes]]
    BY <1>1 DEF IInv, TypeOK, Claim, Outcomes
  <2>2. QED
    BY <1>1, <2>1 DEF IInv, TypeOK, Claim, Visible, Errors, Tries, results,
       volume, requests
<1>3. ThreadInv'
  BY <1>1 DEF IInv, TypeOK, ThreadInv, Claim, InTx, Holding, volume
<1>4. RequestInv'
  BY <1>1 DEF IInv, RequestInv, Claim, Claimable, volume, requests
<1>5. RowsInv'
  <2>1. RowInv'
    BY <1>1 DEF IInv, TypeOK, RowInv, Claim
  <2>2. EntriesOfLastAttempt'
    BY <1>1 DEF IInv, EntriesOfLastAttempt, Claim, Active, results
  <2>3. ASSUME NEW k \in Lotes, NEW m \in Tries
        PROVE  hist'[k][m] =
                 IF k # l THEN hist[k][m]
                 ELSE IF m = n THEN "open"
                 ELSE IF status[l] = "processing" /\ m = attempt[l]
                         /\ hist[k][m] = "open" THEN "interrupted"
                 ELSE hist[k][m]
    BY <2>3 DEF IInv, TypeOK, Claim
  <2>4. ASSUME NEW k \in Lotes
        PROVE  /\ status'[k] = IF k = l THEN "processing" ELSE status[k]
               /\ attempt'[k] = IF k = l THEN n ELSE attempt[k]
               /\ attempt[k] \in 0..MaxAttempts
               /\ status[k] = "failed" => attempt[k] \in Tries
    BY DEF IInv, TypeOK, RowInv, Claim, Tries
  <2>5. HistoryAgrees'
    BY <1>1, <2>3, <2>4 DEF IInv, HistoryAgrees, Tries, Active
  <2>6. OnlyFirstAttemptRepeats'
    BY <1>1, <2>3 DEF IInv, OnlyFirstAttemptRepeats
  <2>7. QED BY <2>1, <2>2, <2>5, <2>6 DEF RowsInv
<1>6. FileKeptWhileNeeded'
  BY <1>1 DEF IInv, FileKeptWhileNeeded, Claim, volume
<1>7. QED BY <1>2, <1>3, <1>4, <1>5, <1>6 DEF IInv, RowsInv

LEMMA OpenFileKeeps ==
  ASSUME IInv, NEW w \in Workers, OpenFile(w)
  PROVE  IInv'
<1>1. TypeOK'
  BY DEF IInv, TypeOK, OpenFile, lote, results, requests, Holding
<1>2. ThreadInv'
  BY ConstantsAssumption DEF IInv, TypeOK, ThreadInv, OpenFile, FileFree,
     lote, InTx
<1>3. RequestInv'
  BY ConstantsAssumption DEF IInv, RequestInv, OpenFile, FileFree, lote,
     requests
<1>4. RowsInv'
  BY RowsUntouched DEF IInv, RowsInv, OpenFile
<1>5. FileKeptWhileNeeded'
  BY DEF IInv, FileKeptWhileNeeded, OpenFile, lote
<1>q. QED BY <1>1, <1>2, <1>3, <1>4, <1>5 DEF IInv, RowsInv

LEMMA OpenMissingKeeps ==
  ASSUME IInv, NEW w \in Workers, OpenMissing(w)
  PROVE  IInv'
<1>1. TypeOK'
  BY DEF IInv, TypeOK, OpenMissing, ToFail, DropFlocks, lote, results,
     requests, Causes
<1>2. ThreadInv'
  BY DEF IInv, ThreadInv, OpenMissing, ToFail, DropFlocks, lote, Holding, InTx
<1>3. RequestInv'
  BY ConstantsAssumption DEF IInv, RequestInv, OpenMissing, ToFail,
     DropFlocks, lote, requests
<1>4. RowsInv'
  BY RowsUntouched DEF IInv, RowsInv, OpenMissing, ToFail
<1>5. FileKeptWhileNeeded'
  BY DEF IInv, FileKeptWhileNeeded, OpenMissing, ToFail, lote
<1>q. QED BY <1>1, <1>2, <1>3, <1>4, <1>5 DEF IInv, RowsInv

LEMMA OpenBusyKeeps ==
  ASSUME IInv, NEW w \in Workers, OpenBusy(w)
  PROVE  IInv'
<1>1. TypeOK'
  BY DEF IInv, TypeOK, OpenBusy, ToFail, DropFlocks, lote, results, requests,
     Causes
<1>2. ThreadInv'
  BY DEF IInv, TypeOK, ThreadInv, OpenBusy, ToFail, DropFlocks, lote, Holding
<1>3. RequestInv'
  BY ConstantsAssumption DEF IInv, RequestInv, OpenBusy, ToFail, DropFlocks,
     lote, requests
<1>4. RowsInv'
  BY RowsUntouched DEF IInv, RowsInv, OpenBusy, ToFail
<1>5. FileKeptWhileNeeded'
  BY DEF IInv, FileKeptWhileNeeded, OpenBusy, ToFail, lote
<1>q. QED BY <1>1, <1>2, <1>3, <1>4, <1>5 DEF IInv, RowsInv

LEMMA WriteBlockKeeps ==
  ASSUME IInv, NEW w \in Workers, WriteBlock(w)
  PROVE  IInv'
<1>1. TypeOK'
  BY DEF IInv, TypeOK, WriteBlock, lote, results, volume, requests, Holding
<1>2. ThreadInv'
  BY DEF IInv, ThreadInv, WriteBlock, lote, volume, Holding, InTx
<1>3. RequestInv'
  BY DEF IInv, RequestInv, WriteBlock, lote, volume, requests
<1>4. RowsInv'
  BY RowsUntouched DEF IInv, RowsInv, WriteBlock
<1>5. FileKeptWhileNeeded'
  BY DEF IInv, FileKeptWhileNeeded, WriteBlock, lote, volume
<1>q. QED BY <1>1, <1>2, <1>3, <1>4, <1>5 DEF IInv, RowsInv

LEMMA ProcessorFailsKeeps ==
  ASSUME IInv, NEW w \in Workers, ProcessorFails(w)
  PROVE  IInv'
<1>1. TypeOK'
  BY DEF IInv, TypeOK, ProcessorFails, ToFail, DropFlocks, lote, results,
     requests, Tries, Visible, Causes, Holding, InTx
<1>2. ThreadInv'
  BY DEF IInv, TypeOK, ThreadInv, ProcessorFails, ToFail, DropFlocks, lote,
     Holding, InTx
<1>3. RequestInv'
  BY ConstantsAssumption DEF IInv, RequestInv, ProcessorFails, ToFail,
     DropFlocks, lote, requests
<1>4. RowsInv'
  BY RowsUntouched DEF IInv, RowsInv, ProcessorFails, ToFail
<1>5. FileKeptWhileNeeded'
  BY DEF IInv, FileKeptWhileNeeded, ProcessorFails, ToFail, lote
<1>q. QED BY <1>1, <1>2, <1>3, <1>4, <1>5 DEF IInv, RowsInv

LEMMA LoseLeaseKeeps ==
  ASSUME IInv, NEW w \in Workers, LoseLease(w)
  PROVE  IInv'
<1>1. TypeOK'
  BY ConstantsAssumption DEF IInv, TypeOK, LoseLease, Leave, DropFlocks, lote,
     results, requests, Causes, Errors, InTx
<1>2. ThreadInv'
  BY DEF IInv, TypeOK, ThreadInv, LoseLease, Leave, DropFlocks, lote, Holding
<1>3. RequestInv'
  BY ConstantsAssumption DEF IInv, RequestInv, LoseLease, Leave, DropFlocks,
     lote, requests
<1>4. RowsInv'
  BY RowsUntouched DEF IInv, RowsInv, LoseLease
<1>5. FileKeptWhileNeeded'
  BY DEF IInv, FileKeptWhileNeeded, LoseLease, Leave, lote
<1>q. QED BY <1>1, <1>2, <1>3, <1>4, <1>5 DEF IInv, RowsInv

LEMMA CompleteKeeps ==
  ASSUME IInv, NEW w \in Workers, Complete(w)
  PROVE  IInv'
<1> DEFINE l == job[w]
<1>1. /\ l \in Lotes /\ claim[w] \in Tries
      /\ status[l] = "processing" /\ attempt[l] = claim[w]
      /\ pc[w] \in InTx
  BY DEF IInv, RowInv, ThreadInv, Complete, Owned, InTx
<1>2. PICK s \in {"completed", "failed"}, code \in Errors :
        /\ Settle(l, attempt[l], s, s, code)
        /\ s = "completed" => entries' = [entries EXCEPT ![l] = @ \cup {claim[w]}]
        /\ s = "failed" => entries' = entries
        /\ \/ warns' = warns
           \/ warns' = [warns EXCEPT ![l] = @ \cup {claim[w]}]
  BY <1>1 DEF Complete, Errors, Causes
<1>3. Closes(l, s, s)
  BY <1>1 DEF Closes
<1>4. TypeOK'
  <2>1. s \in Visible /\ s \in Outcomes
    BY DEF Visible, Outcomes
  <2>2. /\ entries' \in [Lotes -> SUBSET Tries]
        /\ warns' \in [Lotes -> SUBSET Tries]
    <3>1. entries \in [Lotes -> SUBSET Tries] /\ warns \in [Lotes -> SUBSET Tries]
      BY DEF IInv, TypeOK
    <3>2. [entries EXCEPT ![l] = @ \cup {claim[w]}] \in [Lotes -> SUBSET Tries]
      BY <1>1, <3>1
    <3>3. [warns EXCEPT ![l] = @ \cup {claim[w]}] \in [Lotes -> SUBSET Tries]
      BY <1>1, <3>1
    <3>4. QED BY <1>2, <3>1, <3>2, <3>3
  <2>3. /\ pc' \in [Workers -> {"idle", "claimed", "failing", "cleaning", "dead"}
                               \cup Holding]
        /\ hb' \in [Workers -> {"off", "on", "lost"}]
        /\ UNCHANGED <<volume, job, claim, cause, requests>>
    BY DEF IInv, TypeOK, Complete, Holding
  <2>4. QED
    BY <1>1, <1>2, <2>1, <2>2, <2>3, SettleTypes DEF IInv, TypeOK, volume,
       requests
<1>5. ThreadInv'
  BY <1>1, <1>2 DEF IInv, TypeOK, ThreadInv, Complete, Settle, InTx, Holding,
     volume
<1>6. RequestInv'
  BY <1>1, <1>2 DEF IInv, RequestInv, Complete, Settle, volume, requests
<1>7. RowsInv'
  <2>1. RowInv' /\ HistoryAgrees' /\ OnlyFirstAttemptRepeats'
    BY <1>1, <1>2, <1>3, SettleRows DEF IInv, RowsInv
  <2>2. EntriesOfLastAttempt'
    BY <1>1, <1>2 DEF IInv, TypeOK, EntriesOfLastAttempt, Settle
  <2>3. QED BY <2>1, <2>2 DEF RowsInv
<1>8. FileKeptWhileNeeded'
  BY <1>1, <1>2 DEF IInv, FileKeptWhileNeeded, Complete, Settle, Active, volume
<1>9. QED BY <1>4, <1>5, <1>6, <1>7, <1>8 DEF IInv, RowsInv

LEMMA CloseFileKeeps ==
  ASSUME IInv, NEW w \in Workers, CloseFile(w)
  PROVE  IInv'
<1>1. TypeOK'
  BY ConstantsAssumption DEF IInv, TypeOK, CloseFile, Leave, DropFlocks, lote,
     results, requests, Visible, Errors, Outcomes
<1>2. ThreadInv'
  BY DEF IInv, TypeOK, ThreadInv, CloseFile, Leave, DropFlocks, lote, Holding
<1>3. RequestInv'
  BY ConstantsAssumption DEF IInv, RequestInv, CloseFile, Leave, DropFlocks,
     lote, requests
<1>4. RowsInv'
  BY RowsUntouched DEF IInv, RowsInv, CloseFile
<1>5. FileKeptWhileNeeded'
  BY DEF IInv, FileKeptWhileNeeded, CloseFile, Leave, lote
<1>q. QED BY <1>1, <1>2, <1>3, <1>4, <1>5 DEF IInv, RowsInv

LEMMA CommitUnacknowledgedKeeps ==
  ASSUME IInv, NEW w \in Workers, CommitUnacknowledged(w)
  PROVE  IInv'
<1>1. TypeOK'
  BY DEF IInv, TypeOK, CommitUnacknowledged, ToFail, DropFlocks, lote,
     results, requests, Causes
<1>2. ThreadInv'
  BY DEF IInv, TypeOK, ThreadInv, CommitUnacknowledged, ToFail, DropFlocks,
     lote, Holding
<1>3. RequestInv'
  BY ConstantsAssumption DEF IInv, RequestInv, CommitUnacknowledged, ToFail,
     DropFlocks, lote, requests
<1>4. RowsInv'
  BY RowsUntouched DEF IInv, RowsInv, CommitUnacknowledged, ToFail
<1>5. FileKeptWhileNeeded'
  BY DEF IInv, FileKeptWhileNeeded, CommitUnacknowledged, ToFail, lote
<1>q. QED BY <1>1, <1>2, <1>3, <1>4, <1>5 DEF IInv, RowsInv

LEMMA FailKeeps ==
  ASSUME IInv, NEW w \in Workers, Fail(w)
  PROVE  IInv'
<1> DEFINE l == job[w]
<1>1. /\ l \in Lotes /\ claim[w] \in Tries
      /\ status[l] = "processing" /\ attempt[l] = claim[w]
      /\ pc[w] = "failing" /\ cause[w] \in Errors
  BY DEF IInv, TypeOK, RowInv, ThreadInv, Fail, Owned, Errors
<1>2. PICK s \in {"queued", "failed"}, outcome \in {"interrupted", "failed"} :
        /\ Settle(l, attempt[l], s, outcome, cause[w])
        /\ Closes(l, s, outcome)
  <2>1. CASE cause[w] = "processing_failed" /\ claim[w] < 2
    BY <1>1, <2>1 DEF Fail, Closes, Tries
  <2>2. CASE ~(cause[w] = "processing_failed" /\ claim[w] < 2)
    BY <1>1, <2>2 DEF Fail, Closes
  <2>3. QED BY <2>1, <2>2
<1>3. Leave(w, "idle") /\ UNCHANGED <<results, requests>>
  BY DEF Fail
<1>4. TypeOK'
  <2>1. s \in Visible /\ outcome \in Outcomes
    BY DEF Visible, Outcomes
  <2>2. /\ flock' \in [Lotes -> Workers \cup Requests \cup {Free}]
        /\ UNCHANGED file
    BY <1>3 DEF IInv, TypeOK, Leave, DropFlocks
  <2>3. /\ pc' \in [Workers -> {"idle", "claimed", "failing", "cleaning", "dead"}
                               \cup Holding]
        /\ job' \in [Workers -> Lotes \cup {0}]
        /\ claim' \in [Workers -> 0..MaxAttempts]
        /\ hb' \in [Workers -> {"off", "on", "lost"}]
        /\ cause' \in [Workers -> Causes \cup {"none"}]
    BY <1>3, ConstantsAssumption DEF IInv, TypeOK, Leave
  <2>4. QED
    BY <1>1, <1>2, <1>3, <2>1, <2>2, <2>3, SettleTypes DEF IInv, TypeOK,
       results, requests
<1>5. ThreadInv'
  BY <1>1, <1>2, <1>3 DEF IInv, TypeOK, ThreadInv, Settle, Leave, DropFlocks,
     Holding
<1>6. RequestInv'
  BY <1>1, <1>2, <1>3, ConstantsAssumption DEF IInv, RequestInv, Settle,
     Leave, DropFlocks, requests
<1>7. RowsInv'
  <2>1. RowInv' /\ HistoryAgrees' /\ OnlyFirstAttemptRepeats'
    BY <1>1, <1>2, SettleRows DEF IInv, RowsInv
  <2>2. EntriesOfLastAttempt'
    BY <1>1, <1>2, <1>3 DEF IInv, EntriesOfLastAttempt, Settle, results
  <2>3. QED BY <2>1, <2>2 DEF RowsInv
<1>8. FileKeptWhileNeeded'
  BY <1>1, <1>2, <1>3 DEF IInv, FileKeptWhileNeeded, Settle, Leave, Active
<1>9. QED BY <1>4, <1>5, <1>6, <1>7, <1>8 DEF IInv, RowsInv

LEMMA FailTooLateKeeps ==
  ASSUME IInv, NEW w \in Workers, FailTooLate(w)
  PROVE  IInv'
<1>1. TypeOK'
  BY ConstantsAssumption DEF IInv, TypeOK, FailTooLate, Leave, DropFlocks,
     lote, results, requests, Visible, Causes, Errors, Outcomes
<1>2. ThreadInv'
  BY DEF IInv, TypeOK, ThreadInv, FailTooLate, Leave, DropFlocks, lote, Holding
<1>3. RequestInv'
  BY ConstantsAssumption DEF IInv, RequestInv, FailTooLate, Leave, DropFlocks,
     lote, requests
<1>4. RowsInv'
  BY RowsUntouched DEF IInv, RowsInv, FailTooLate
<1>5. FileKeptWhileNeeded'
  BY DEF IInv, FileKeptWhileNeeded, FailTooLate, Leave, lote
<1>q. QED BY <1>1, <1>2, <1>3, <1>4, <1>5 DEF IInv, RowsInv

LEMMA RenewKeeps ==
  ASSUME IInv, NEW w \in Workers, Renew(w)
  PROVE  IInv'
<1>0. job[w] \in Lotes
  BY DEF IInv, ThreadInv, Renew, InTx
<1>1. TypeOK'
  <2>1. /\ lease' \in [Lotes -> {"none", "live", "expired"}]
        /\ hb' \in [Workers -> {"off", "on", "lost"}]
    BY <1>0 DEF IInv, TypeOK, Renew
  <2>2. QED
    BY <2>1 DEF IInv, TypeOK, Renew, results, volume, requests
<1>2. ThreadInv'
  BY DEF IInv, TypeOK, ThreadInv, Renew, volume, Tries, InTx
<1>3. RequestInv'
  BY DEF IInv, RequestInv, Renew, volume, requests
<1>4. RowsInv'
  <2>1. RowInv'
    BY DEF IInv, TypeOK, RowInv, Renew, Owned, Holding
  <2>2. EntriesOfLastAttempt'
    BY DEF IInv, EntriesOfLastAttempt, Renew, results
  <2>3. HistoryAgrees'
    BY DEF IInv, HistoryAgrees, Renew
  <2>4. OnlyFirstAttemptRepeats'
    BY DEF IInv, OnlyFirstAttemptRepeats, Renew
  <2>q. QED BY <2>1, <2>2, <2>3, <2>4 DEF RowsInv
<1>5. FileKeptWhileNeeded'
  BY DEF IInv, FileKeptWhileNeeded, Renew, volume
<1>q. QED BY <1>1, <1>2, <1>3, <1>4, <1>5 DEF IInv, RowsInv

LEMMA HeartbeatFailsKeeps ==
  ASSUME IInv, NEW w \in Workers, HeartbeatFails(w)
  PROVE  IInv'
<1>1. TypeOK'
  BY DEF IInv, TypeOK, HeartbeatFails, lote, results, volume, requests
<1>2. ThreadInv'
  BY DEF IInv, ThreadInv, HeartbeatFails, lote, volume
<1>3. RequestInv'
  BY DEF IInv, RequestInv, HeartbeatFails, lote, volume, requests
<1>4. RowsInv'
  BY RowsUntouched DEF IInv, RowsInv, HeartbeatFails
<1>5. FileKeptWhileNeeded'
  BY DEF IInv, FileKeptWhileNeeded, HeartbeatFails, lote, volume
<1>q. QED BY <1>1, <1>2, <1>3, <1>4, <1>5 DEF IInv, RowsInv

LEMMA CleanFileKeeps ==
  ASSUME IInv, NEW w \in Workers, NEW l \in Lotes, CleanFile(w, l)
  PROVE  IInv'
<1>1. TypeOK'
  BY DEF IInv, TypeOK, CleanFile, lote, results, workers, requests
<1>2. ThreadInv'
  BY DEF IInv, ThreadInv, CleanFile, lote, workers
<1>3. RequestInv'
  BY ConstantsAssumption DEF IInv, RequestInv, CleanFile, FileFree, lote,
     requests
<1>4. RowsInv'
  BY RowsUntouched DEF IInv, RowsInv, CleanFile
<1>5. FileKeptWhileNeeded'
  BY DEF IInv, FileKeptWhileNeeded, CleanFile, Collectable, CanRemove, lote,
     Active, Visible
<1>q. QED BY <1>1, <1>2, <1>3, <1>4, <1>5 DEF IInv, RowsInv

LEMMA CleanDoneKeeps ==
  ASSUME IInv, NEW w \in Workers, CleanDone(w)
  PROVE  IInv'
<1>1. TypeOK'
  BY DEF IInv, TypeOK, CleanDone, lote, results, volume, requests
<1>2. ThreadInv'
  BY DEF IInv, ThreadInv, CleanDone, lote, volume, Holding, InTx
<1>3. RequestInv'
  BY DEF IInv, RequestInv, CleanDone, lote, volume, requests
<1>4. RowsInv'
  BY RowsUntouched DEF IInv, RowsInv, CleanDone
<1>5. FileKeptWhileNeeded'
  BY DEF IInv, FileKeptWhileNeeded, CleanDone, lote, volume
<1>q. QED BY <1>1, <1>2, <1>3, <1>4, <1>5 DEF IInv, RowsInv

LEMMA LeaseRunsOutKeeps ==
  ASSUME IInv, NEW l \in Lotes, LeaseRunsOut(l)
  PROVE  IInv'
<1>1. TypeOK'
  BY DEF IInv, TypeOK, LeaseRunsOut, results, volume, workers, requests
<1>2. ThreadInv'
  BY DEF IInv, ThreadInv, LeaseRunsOut, volume, workers
<1>3. RequestInv'
  BY DEF IInv, RequestInv, LeaseRunsOut, volume, requests
<1>4. RowsInv'
  <2>1. RowInv'
    BY DEF IInv, RowInv, LeaseRunsOut
  <2>2. EntriesOfLastAttempt'
    BY DEF IInv, EntriesOfLastAttempt, LeaseRunsOut, results
  <2>3. HistoryAgrees'
    BY DEF IInv, HistoryAgrees, LeaseRunsOut
  <2>4. OnlyFirstAttemptRepeats'
    BY DEF IInv, OnlyFirstAttemptRepeats, LeaseRunsOut
  <2>q. QED BY <2>1, <2>2, <2>3, <2>4 DEF RowsInv
<1>5. FileKeptWhileNeeded'
  BY DEF IInv, FileKeptWhileNeeded, LeaseRunsOut, volume
<1>q. QED BY <1>1, <1>2, <1>3, <1>4, <1>5 DEF IInv, RowsInv

LEMMA RetentionRunsOutKeeps ==
  ASSUME IInv, NEW l \in Lotes, RetentionRunsOut(l)
  PROVE  IInv'
<1>1. TypeOK'
  BY DEF IInv, TypeOK, RetentionRunsOut, results, volume, workers, requests
<1>2. ThreadInv'
  BY DEF IInv, ThreadInv, RetentionRunsOut, volume, workers
<1>3. RequestInv'
  BY DEF IInv, RequestInv, RetentionRunsOut, volume, requests
<1>4. RowsInv'
  <2>1. RowInv'
    BY DEF IInv, RowInv, RetentionRunsOut
  <2>2. EntriesOfLastAttempt'
    BY DEF IInv, EntriesOfLastAttempt, RetentionRunsOut, results
  <2>3. HistoryAgrees'
    BY DEF IInv, HistoryAgrees, RetentionRunsOut
  <2>4. OnlyFirstAttemptRepeats'
    BY DEF IInv, OnlyFirstAttemptRepeats, RetentionRunsOut
  <2>q. QED BY <2>1, <2>2, <2>3, <2>4 DEF RowsInv
<1>5. FileKeptWhileNeeded'
  BY DEF IInv, FileKeptWhileNeeded, RetentionRunsOut, volume
<1>q. QED BY <1>1, <1>2, <1>3, <1>4, <1>5 DEF IInv, RowsInv

LEMMA ThreadDiesKeeps ==
  ASSUME IInv, NEW w \in Workers, ThreadDies(w)
  PROVE  IInv'
<1>1. TypeOK'
  BY ConstantsAssumption DEF IInv, TypeOK, ThreadDies, Leave, DropFlocks,
     lote, results, requests, Causes, Outcomes, Holding
<1>2. ThreadInv'
  BY DEF IInv, TypeOK, ThreadInv, ThreadDies, Leave, DropFlocks, lote, Holding
<1>3. RequestInv'
  BY ConstantsAssumption DEF IInv, RequestInv, ThreadDies, Leave, DropFlocks,
     lote, requests
<1>4. RowsInv'
  BY RowsUntouched DEF IInv, RowsInv, ThreadDies
<1>5. FileKeptWhileNeeded'
  BY DEF IInv, FileKeptWhileNeeded, ThreadDies, Leave, lote
<1>q. QED BY <1>1, <1>2, <1>3, <1>4, <1>5 DEF IInv, RowsInv

LEMMA CrashKeeps ==
  ASSUME IInv, NEW p \in Procs, Crash(p)
  PROVE  IInv'
<1>1. TypeOK'
  BY ConstantsAssumption DEF IInv, TypeOK, Crash, lote, results, requests,
     Visible, Errors, Outcomes, Holding
<1>2. ThreadInv'
  BY DEF IInv, ThreadInv, Crash, lote, Holding
<1>3. RequestInv'
  BY ConstantsAssumption DEF IInv, RequestInv, Crash, lote, requests
<1>4. RowsInv'
  BY RowsUntouched DEF IInv, RowsInv, Crash
<1>5. FileKeptWhileNeeded'
  BY DEF IInv, FileKeptWhileNeeded, Crash, lote
<1>q. QED BY <1>1, <1>2, <1>3, <1>4, <1>5 DEF IInv, RowsInv

LEMMA RestartKeeps ==
  ASSUME IInv, NEW p \in Procs, Restart(p)
  PROVE  IInv'
<1>1. TypeOK'
  BY DEF IInv, TypeOK, Restart, lote, results, volume, requests
<1>2. ThreadInv'
  BY DEF IInv, ThreadInv, Restart, lote, volume, Holding, InTx
<1>3. RequestInv'
  BY DEF IInv, RequestInv, Restart, lote, volume, requests
<1>4. RowsInv'
  BY RowsUntouched DEF IInv, RowsInv, Restart
<1>5. FileKeptWhileNeeded'
  BY DEF IInv, FileKeptWhileNeeded, Restart, lote, volume
<1>q. QED BY <1>1, <1>2, <1>3, <1>4, <1>5 DEF IInv, RowsInv

(* Nothing disturbs the invariant.                                         *)
LEMMA NextKeeps == IInv /\ [Next]_vars => IInv'
<1> SUFFICES ASSUME IInv, [Next]_vars PROVE IInv'
  OBVIOUS
<1>1. CASE UNCHANGED vars
  BY <1>1 DEF vars, lote, results, volume, workers, requests, IInv, TypeOK,
     RowInv, ThreadInv, RequestInv, EntriesOfLastAttempt, HistoryAgrees,
     OnlyFirstAttemptRepeats, FileKeptWhileNeeded
<1>2. ASSUME NEW r \in Requests, Request(r) PROVE IInv'
  BY <1>2, UploadBindKeeps, UploadCommitKeeps, RetryOpenKeeps,
     RetryCommitKeeps, ReleaseKeeps, RequestAbortsKeeps DEF Request
<1>3. ASSUME NEW w \in Workers, Thread(w) PROVE IInv'
  <2>1. CASE \E l \in Lotes : FailExhausted(w, l) \/ Claim(w, l) \/ CleanFile(w, l)
    BY <2>1, FailExhaustedKeeps, ClaimKeeps, CleanFileKeeps
  <2>2. CASE OpenFile(w) \/ OpenMissing(w) \/ OpenBusy(w) \/ WriteBlock(w)
             \/ ProcessorFails(w) \/ LoseLease(w) \/ Complete(w)
    BY <2>2, OpenFileKeeps, OpenMissingKeeps, OpenBusyKeeps, WriteBlockKeeps,
       ProcessorFailsKeeps, LoseLeaseKeeps, CompleteKeeps
  <2>3. CASE CloseFile(w) \/ CommitUnacknowledged(w) \/ Fail(w)
             \/ FailTooLate(w) \/ CleanDone(w)
    BY <2>3, CloseFileKeeps, CommitUnacknowledgedKeeps, FailKeeps,
       FailTooLateKeeps, CleanDoneKeeps
  <2>4. CASE Renew(w) \/ HeartbeatFails(w) \/ ThreadDies(w)
    BY <2>4, RenewKeeps, HeartbeatFailsKeeps, ThreadDiesKeeps
  <2>5. QED BY <1>3, <2>1, <2>2, <2>3, <2>4 DEF Thread, RunOnce
<1>4. ASSUME NEW l \in Lotes,
             AdminDelete(l) \/ LeaseRunsOut(l) \/ RetentionRunsOut(l)
      PROVE  IInv'
  BY <1>4, AdminDeleteKeeps, LeaseRunsOutKeeps, RetentionRunsOutKeeps
<1>5. ASSUME NEW p \in Procs, Crash(p) \/ Restart(p) PROVE IInv'
  BY <1>5, CrashKeeps, RestartKeeps
<1>6. QED BY <1>1, <1>2, <1>3, <1>4, <1>5 DEF Next

(* The inductive invariant of the queue: rows, flocks, threads and requests*)
(* of razao_worker, razao_storage and routes/razao always fit together.    *)
THEOREM Invariance == Spec => []IInv
<1>1. Init => IInv
  BY Initially
<1>2. IInv /\ [Next]_vars => IInv'
  BY NextKeeps
<1>3. QED BY <1>1, <1>2, PTL DEF Spec

-----------------------------------------------------------------------------
(* Every variable keeps its type: no attempt number past the bound, no     *)
(* claim, job or attempt row outside what claim_next hands out.            *)
THEOREM TypeCorrect == Spec => []TypeOK
<1>1. IInv => TypeOK
  BY DEF IInv
<1>2. QED BY <1>1, Invariance, PTL

(* Ledger entries are stored for completed batches only, each by its last  *)
(* attempt alone (_complete, the claim's token, the business transaction). *)
THEOREM OnceOnlyEntries == Spec => []EntriesOfLastAttempt
<1>1. IInv => EntriesOfLastAttempt
  BY DEF IInv
<1>2. QED BY <1>1, Invariance, PTL

(* tentativas_importacao_razao agrees with lotes_importacao_razao.         *)
THEOREM AttemptsAgree == Spec => []HistoryAgrees
<1>1. IInv => HistoryAgrees
  BY DEF IInv
<1>2. QED BY <1>1, Invariance, PTL

(* The queue interrupts and repeats first attempts only.                   *)
THEOREM OneAutomaticRetry == Spec => []OnlyFirstAttemptRepeats
<1>1. IInv => OnlyFirstAttemptRepeats
  BY DEF IInv
<1>2. QED BY <1>1, Invariance, PTL

(* Two threads never process one batch at a time, leases aside: the flock  *)
(* of open_for_job is held for the whole business transaction.             *)
THEOREM ProcessorsExclude == Spec => []OneProcessorPerBatch
<1>1. IInv => OneProcessorPerBatch
  BY DEF IInv, ThreadInv, OneProcessorPerBatch, InTx, Holding
<1>2. QED BY <1>1, Invariance, PTL

(* cleanup() never takes the file of a batch that still needs it.          *)
THEOREM FilesAreKept == Spec => []FileKeptWhileNeeded
<1>1. IInv => FileKeptWhileNeeded
  BY DEF IInv
<1>2. QED BY <1>1, Invariance, PTL

-----------------------------------------------------------------------------
(* Live leases *)

LEMMA OwnerOnly == IInv /\ [Next]_vars => [OwnerEndsLiveLease]_vars
<1> SUFFICES ASSUME IInv, Next PROVE OwnerEndsLiveLease
  OBVIOUS
<1>1. ASSUME NEW r \in Requests, Request(r) PROVE OwnerEndsLiveLease
  <2>1. CASE RetryCommit(r)
    BY <2>1 DEF IInv, RowInv, RequestInv, RetryCommit, OwnerEndsLiveLease
  <2>2. CASE ~RetryCommit(r)
    BY <1>1, <2>2 DEF Request, UploadBind, UploadCommit, RetryOpen, Release,
       RequestAborts, OwnerEndsLiveLease, lote
  <2>3. QED BY <2>1, <2>2
<1>2. ASSUME NEW w \in Workers, Thread(w) PROVE OwnerEndsLiveLease
  <2>1. CASE \E l \in Lotes : FailExhausted(w, l)
    BY <2>1 DEF FailExhausted, Exhausted, Settle, OwnerEndsLiveLease
  <2>2. CASE \E l \in Lotes : Claim(w, l)
    BY <2>2 DEF IInv, RowInv, Claim, Claimable, OwnerEndsLiveLease
  <2>3. CASE Complete(w)
    BY <2>3 DEF IInv, TypeOK, Complete, Owned, Settle, InTx, OwnerEndsLiveLease
  <2>4. CASE Fail(w)
    BY <2>4 DEF IInv, TypeOK, Fail, Owned, Settle, Leave, OwnerEndsLiveLease
  <2>5. CASE UNCHANGED token
    BY <2>5 DEF OwnerEndsLiveLease
  <2>6. QED
    BY <1>2, <2>1, <2>2, <2>3, <2>4, <2>5 DEF Thread, RunOnce, OpenFile,
       OpenMissing, OpenBusy, ToFail, WriteBlock, ProcessorFails, LoseLease,
       CloseFile, CommitUnacknowledged, FailTooLate, Renew, HeartbeatFails,
       CleanFile, CleanDone, ThreadDies, lote
<1>3. ASSUME NEW l \in Lotes,
             AdminDelete(l) \/ LeaseRunsOut(l) \/ RetentionRunsOut(l)
      PROVE  OwnerEndsLiveLease
  BY <1>3 DEF IInv, TypeOK, AdminDelete, LeaseRunsOut, RetentionRunsOut,
     OwnerEndsLiveLease
<1>4. ASSUME NEW p \in Procs, Crash(p) \/ Restart(p) PROVE OwnerEndsLiveLease
  BY <1>4 DEF Crash, Restart, OwnerEndsLiveLease, lote
<1>5. QED BY <1>1, <1>2, <1>3, <1>4 DEF Next

(* While a lease is live only its own worker, or a deletion, ends the      *)
(* attempt (the WHERE of claim_next, the token test of _locked_owned_lote).*)
THEOREM LeaseExclusion == Spec => LiveLeaseIsExclusive
<1>1. IInv /\ [Next]_vars => [OwnerEndsLiveLease]_vars
  BY OwnerOnly
<1>2. QED BY <1>1, Invariance, PTL DEF Spec, LiveLeaseIsExclusive

-----------------------------------------------------------------------------
(* Refinement *)

LEMMA SeenChange ==
  ASSUME TypeOK, NEW l \in Lotes, NEW s \in Visible \cup {"gone"},
         status' = [status EXCEPT ![l] = s]
  PROVE  Life!Become(l, s)
  BY DEF TypeOK, Seen, Visible, Life!Become

LEMMA SeenAs ==
  ASSUME TypeOK, NEW l \in Lotes
  PROVE  Seen[l] = IF status[l] = "inserted" THEN "none" ELSE status[l]
  BY DEF Seen

(* Whatever closes an attempt is Publish, or GiveUp when no entries came.  *)
LEMMA SettleIsPublishOrGiveUp ==
  ASSUME IInv, NEW l \in Lotes, NEW s \in Visible, NEW outcome, NEW code,
         Closes(l, s, outcome), Settle(l, attempt[l], s, outcome, code),
         entries' = IF s = "completed"
                    THEN [entries EXCEPT ![l] = @ \cup {attempt[l]}] ELSE entries
  PROVE  Life!Publish(l) \/ Life!GiveUp(l)
<1>1. Life!Become(l, s) /\ Seen[l] = "processing" /\ UNCHANGED attempt
  BY SeenChange, SeenAs DEF IInv, Closes, Settle
<1>2. CASE s = "completed"
  <2>1. entries[l] = {}
    BY DEF IInv, EntriesOfLastAttempt, Closes
  <2>2. entries' = [entries EXCEPT ![l] = {attempt[l]}]
    BY <1>2, <2>1
  <2>3. QED BY <1>1, <1>2, <2>2 DEF Life!Publish
<1>3. CASE s # "completed"
  BY <1>1, <1>3 DEF Closes, Life!GiveUp
<1>4. QED BY <1>2, <1>3

LEMMA RequestRefines ==
  ASSUME IInv, NEW r \in Requests, Request(r)
  PROVE  [Life!Next]_(Life!vars)
<1>1. CASE \E l \in Lotes : UploadBind(r, l)
  BY <1>1 DEF UploadBind, Seen, Life!vars, results
<1>2. CASE UploadCommit(r) \/ (RequestAborts(r) /\ rpc[r] = "binding")
  <2>1. /\ rjob[r] \in Lotes /\ status[rjob[r]] = "inserted"
        /\ \E s \in {"queued", "gone"} : status' = [status EXCEPT ![rjob[r]] = s]
        /\ UNCHANGED <<attempt, entries>>
    BY <1>2 DEF IInv, RequestInv, UploadCommit, RequestAborts, results
  <2>2. Life!Create(rjob[r])
    BY <2>1, SeenChange, SeenAs DEF IInv, Visible, Life!Create
  <2>3. QED BY <2>1, <2>2 DEF Life!Next
<1>3. CASE RetryCommit(r)
  <2>1. /\ rjob[r] \in Lotes /\ status[rjob[r]] = "failed"
        /\ status' = [status EXCEPT ![rjob[r]] = "queued"]
        /\ UNCHANGED <<attempt, entries>>
    BY <1>3 DEF IInv, RequestInv, RetryCommit, results
  <2>2. Life!Retry(rjob[r])
    BY <2>1, SeenChange, SeenAs DEF IInv, Visible, Life!Retry
  <2>3. QED BY <2>1, <2>2 DEF Life!Next
<1>4. CASE Release(r) \/ (\E l \in Lotes : RetryOpen(r, l))
  BY <1>4 DEF RetryOpen, Release, Seen, Life!vars, lote, results
<1>5. CASE RequestAborts(r) /\ rpc[r] = "retrying"
  BY <1>5 DEF RequestAborts, Seen, Life!vars, results
<1>6. RequestAborts(r) => rpc[r] \in {"binding", "retrying"}
  BY DEF RequestAborts
<1>7. QED BY <1>1, <1>2, <1>3, <1>4, <1>5, <1>6 DEF Request

LEMMA ThreadRefines ==
  ASSUME IInv, NEW w \in Workers, Thread(w)
  PROVE  [Life!Next]_(Life!vars)
<1>1. ASSUME NEW l \in Lotes, FailExhausted(w, l) PROVE Life!Next
  <2>1. /\ Closes(l, "failed", "failed") /\ "failed" \in Visible
        /\ Settle(l, attempt[l], "failed", "failed", "lease_expired")
        /\ entries' = entries
    BY <1>1 DEF FailExhausted, Exhausted, Closes, Visible, results
  <2>2. QED BY <2>1, SettleIsPublishOrGiveUp DEF Life!Next
<1>2. ASSUME NEW l \in Lotes, Claim(w, l) PROVE Life!Next
  <2>1. /\ status[l] = "queued" \/ (status[l] = "processing" /\ attempt[l] < 2)
        /\ attempt' = [attempt EXCEPT ![l] = @ + 1]
        /\ status' = [status EXCEPT ![l] = "processing"]
        /\ UNCHANGED entries
    <3>1. Claimable(l)
      BY <1>2 DEF Claim
    <3>2. QED BY <1>2, <3>1 DEF Claim, Claimable, results
  <2>2. Life!Start(l)
    BY <2>1, SeenChange, SeenAs DEF IInv, Visible, Life!Start
  <2>3. QED BY <2>2 DEF Life!Next
<1>3. CASE Complete(w)
  <2>1. job[w] \in Lotes /\ attempt[job[w]] = claim[w]
    BY <1>3 DEF IInv, RowInv, ThreadInv, Complete, Owned, InTx
  <2>2. PICK s \in {"completed", "failed"}, code \in Errors :
          /\ Settle(job[w], attempt[job[w]], s, s, code)
          /\ entries' = IF s = "completed"
                        THEN [entries EXCEPT ![job[w]] = @ \cup {attempt[job[w]]}]
                        ELSE entries
    BY <1>3, <2>1 DEF Complete, Errors, Causes
  <2>3. Closes(job[w], s, s) /\ s \in Visible
    BY <1>3 DEF Complete, Owned, Closes, Visible
  <2>4. QED BY <2>1, <2>2, <2>3, SettleIsPublishOrGiveUp DEF Life!Next
<1>4. CASE Fail(w)
  <2>1. job[w] \in Lotes /\ attempt[job[w]] = claim[w] /\ claim[w] \in Tries
    BY <1>4 DEF IInv, RowInv, ThreadInv, Fail, Owned
  <2>2. PICK s \in {"queued", "failed"}, outcome \in {"interrupted", "failed"} :
          /\ Settle(job[w], attempt[job[w]], s, outcome, cause[w])
          /\ Closes(job[w], s, outcome)
    <3>1. CASE cause[w] = "processing_failed" /\ claim[w] < 2
      BY <1>4, <2>1, <3>1 DEF Fail, Owned, Closes, Tries
    <3>2. CASE ~(cause[w] = "processing_failed" /\ claim[w] < 2)
      BY <1>4, <2>1, <3>2 DEF Fail, Owned, Closes
    <3>3. QED BY <3>1, <3>2
  <2>3. s \in Visible /\ s # "completed" /\ entries' = entries
    BY <1>4 DEF Fail, Visible, results
  <2>4. QED BY <2>1, <2>2, <2>3, SettleIsPublishOrGiveUp DEF Life!Next
<1>5. CASE UNCHANGED <<status, attempt, entries>>
  BY <1>5 DEF Seen, Life!vars
<1>6. QED
  BY <1>1, <1>2, <1>3, <1>4, <1>5 DEF Thread, RunOnce, OpenFile, OpenMissing,
     OpenBusy, ToFail, WriteBlock, ProcessorFails, LoseLease, CloseFile,
     CommitUnacknowledged, FailTooLate, Renew, HeartbeatFails, CleanFile,
     CleanDone, ThreadDies, lote, results

(* The queue of razao_worker, razao_storage and routes/razao implements    *)
(* the life cycle of LoteRazao, step by step.                              *)
THEOREM QueueImplementsLife == Spec => ImplementsLife
<1>1. Init => Life!Init
  BY DEF Init, Seen, Life!Init
<1>2. IInv /\ [Next]_vars => [Life!Next]_(Life!vars)
  <2> SUFFICES ASSUME IInv, [Next]_vars PROVE [Life!Next]_(Life!vars)
    OBVIOUS
  <2>1. CASE UNCHANGED vars
    BY <2>1 DEF vars, lote, results, Seen, Life!vars
  <2>2. ASSUME NEW l \in Lotes, AdminDelete(l) PROVE Life!Next
    <3>1. status[l] \notin {"none", "inserted", "gone"}
      BY <2>2 DEF AdminDelete, Visible
    <3>2. Life!Delete(l)
      BY <2>2, <3>1, SeenChange, SeenAs DEF IInv, AdminDelete, Life!Delete
    <3>3. QED BY <3>2 DEF Life!Next
  <2>3. ASSUME NEW l \in Lotes, LeaseRunsOut(l) \/ RetentionRunsOut(l)
        PROVE  UNCHANGED Life!vars
    BY <2>3 DEF LeaseRunsOut, RetentionRunsOut, results, Seen, Life!vars
  <2>4. ASSUME NEW p \in Procs, Crash(p) \/ Restart(p)
        PROVE  UNCHANGED Life!vars
    BY <2>4 DEF Crash, Restart, lote, results, Seen, Life!vars
  <2>5. QED
    BY <2>1, <2>2, <2>3, <2>4, RequestRefines, ThreadRefines DEF Next
<1>3. QED
  BY <1>1, <1>2, Invariance, PTL DEF Spec, ImplementsLife, Life!Spec
=============================================================================
