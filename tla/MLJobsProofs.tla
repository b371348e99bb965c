---------------------------- MODULE MLJobsProofs ----------------------------
(***************************************************************************)
(* Theorems about MLJobs, for any number of jobs, companies, threads and   *)
(* requests.                                                               *)
(***************************************************************************)
EXTENDS MLJobs, FiniteSetTheorems, TLAPS

(* The requests that have put job j back in the queue.                     *)
RetriesOf(j) == {r \in Requests : rpc[r] = "retried" /\ rjob[r] = j}
Retried(j) == Cardinality(RetriesOf(j))

(* The lease is that of the last claim; the index allows one running job   *)
(* of a company.                                                           *)
RowInv ==
  /\ \A j \in Jobs : token[j] \in {0, runs[j]}
  /\ \A j, k \in Jobs :
       j # k /\ Company[j] = Company[k] => status[j] # "running" \/ status[k] # "running"

(* A thread with a claim names a job and one of its runs, its own.  From   *)
(* its last check to its commit it owns the job, and nobody can cancel it. *)
ThreadInv ==
  /\ \A w \in Workers :
       /\ IF pc[w] \in {"idle", "dead"} THEN job[w] = 0
          ELSE job[w] \in Jobs /\ run[w] \in 1..runs[job[w]]
       /\ hb[w] => pc[w] \notin {"idle", "dead"}
       /\ pc[w] = "locked" => Owned(w) /\ ~flag[job[w]]
  /\ \A v, w \in Workers : v # w /\ job[v] = job[w] /\ job[v] # 0 => run[v] # run[w]

RequestInv == \A r \in Requests : rpc[r] # "new" => rjob[r] \in Jobs

(* Claims are paid for by attempts, attempts are given by retries; a       *)
(* publication settles the job, and a settled job waits for a retry.       *)
CountInv == \A j \in Jobs :
  /\ runs[j] <= attempts[j] + MaxAttempts * Retried(j)
  /\ Cardinality(published[j]) <= Retried(j) + (IF status[j] \in Settled THEN 1 ELSE 0)

IInv == TypeOK /\ RowInv /\ ThreadInv /\ RequestInv /\ CountInv

-----------------------------------------------------------------------------
LEMMA RetriesAreFinite ==
  /\ Cardinality(Requests) \in Nat
  /\ \A j \in Jobs : /\ IsFiniteSet(RetriesOf(j))
                     /\ Retried(j) \in 0..Cardinality(Requests)
<1>1. Cardinality(Requests) \in Nat
  BY JobsAssumption, FS_CardinalityType
<1>2. ASSUME NEW j \in Jobs
      PROVE  IsFiniteSet(RetriesOf(j)) /\ Retried(j) \in 0..Cardinality(Requests)
  <2>1. RetriesOf(j) \in SUBSET Requests
    BY DEF RetriesOf
  <2>2. IsFiniteSet(RetriesOf(j)) /\ Retried(j) <= Cardinality(Requests)
    BY <2>1, JobsAssumption, FS_Subset DEF Retried
  <2>3. Retried(j) \in Nat
    BY <2>2, FS_CardinalityType DEF Retried
  <2>4. QED BY <1>1, <2>2, <2>3
<1>3. QED BY <1>1, <1>2

LEMMA RetriesUntouched ==
  ASSUME UNCHANGED <<rpc, rjob>>
  PROVE  \A j : RetriesOf(j)' = RetriesOf(j) /\ Retried(j)' = Retried(j)
<1>1. \A j : RetriesOf(j)' = RetriesOf(j)
  BY DEF RetriesOf
<1>2. QED BY <1>1 DEF Retried

(* A request that neither was nor becomes "retried" changes no count.      *)
LEMMA RetriesOfOthers ==
  ASSUME TypeOK, NEW r \in Requests, NEW p, NEW j,
         rpc[r] # "retried", p # "retried",
         rpc' = [rpc EXCEPT ![r] = p],
         rjob' \in {rjob, [rjob EXCEPT ![r] = j]}
  PROVE  \A k : RetriesOf(k)' = RetriesOf(k) /\ Retried(k)' = Retried(k)
<1>1. ASSUME NEW k, NEW q \in Requests
      PROVE  rpc'[q] = "retried" /\ rjob'[q] = k <=> rpc[q] = "retried" /\ rjob[q] = k
  BY <1>1 DEF TypeOK
<1>2. \A k : RetriesOf(k)' = RetriesOf(k)
  BY <1>1 DEF RetriesOf
<1>3. QED BY <1>2 DEF Retried

LEMMA PublishedIsFinite ==
  ASSUME TypeOK
  PROVE  \A j \in Jobs : /\ IsFiniteSet(published[j])
                         /\ Cardinality(published[j]) \in Nat
<1>1. IsFiniteSet(Runs)
  BY RetriesAreFinite, FS_Interval DEF Runs, MaxAttempts
<1>2. QED BY <1>1, FS_Subset, FS_CardinalityType DEF TypeOK

(* A job with an attempt left has a number for its next run.               *)
LEMMA NextRun ==
  ASSUME IInv, NEW j \in Jobs, attempts[j] < MaxAttempts
  PROVE  runs[j] \in Nat /\ runs[j] + 1 \in Runs
BY RetriesAreFinite DEF IInv, TypeOK, CountInv, Runs, MaxAttempts

LEMMA RunsAreNumbers ==
  ASSUME TypeOK
  PROVE  /\ Runs \subseteq Nat \ {0}
         /\ \A j \in Jobs : runs[j] \in Nat
         /\ \A w \in Workers : run[w] \in Nat
BY RetriesAreFinite DEF TypeOK, Runs, MaxAttempts

-----------------------------------------------------------------------------
LEMMA Initially == Init => IInv
<1> SUFFICES ASSUME Init PROVE IInv
  OBVIOUS
<1>1. TypeOK
  BY DEF Init, TypeOK, Pending, Settled, Causes, Executing, MaxAttempts
<1>2. RowInv /\ ThreadInv /\ RequestInv
  BY DEF Init, RowInv, ThreadInv, RequestInv
<1>3. CountInv
  BY RetriesAreFinite, FS_EmptySet DEF Init, CountInv, MaxAttempts, Settled
<1>4. QED BY <1>1, <1>2, <1>3 DEF IInv

(* Steps of threads that leave the rows and the requests alone.            *)
LEMMA RowsUntouched ==
  ASSUME RowInv, RequestInv, CountInv, UNCHANGED <<rows, published, rpc, rjob>>
  PROVE  RowInv' /\ RequestInv' /\ CountInv'
<1>1. RowInv' /\ RequestInv'
  BY DEF RowInv, RequestInv, rows
<1>2. CountInv'
  BY RetriesUntouched DEF CountInv, rows
<1>3. QED BY <1>1, <1>2

LEMMA EnqueueKeeps ==
  ASSUME IInv, NEW j \in Jobs, Enqueue(j)
  PROVE  IInv'
<1>1. TypeOK'
  BY DEF IInv, TypeOK, Enqueue, results, threads, requests, Pending, Settled
<1>2. RowInv'
  BY DEF IInv, TypeOK, RowInv, Enqueue
<1>3. ThreadInv'
  BY DEF IInv, TypeOK, ThreadInv, Enqueue, threads, Owned
<1>4. RequestInv'
  BY DEF IInv, RequestInv, Enqueue, requests
<1>5. CountInv'
  <2>1. \A k \in Jobs : status'[k] \in Settled => status[k] \in Settled
    BY DEF IInv, TypeOK, Enqueue, Settled
  <2>2. \A k \in Jobs : status[k] \in Settled => status'[k] \in Settled
    BY DEF IInv, TypeOK, Enqueue, Settled
  <2>3. QED
    BY <2>1, <2>2, RetriesUntouched DEF IInv, CountInv, Enqueue, results, requests
<1>q. QED BY <1>1, <1>2, <1>3, <1>4, <1>5 DEF IInv

-----------------------------------------------------------------------------
(* Requests *)

LEMMA ReadsKeep ==
  ASSUME IInv, NEW r \in Requests, NEW j \in Jobs, CancelReads(r, j) \/ RetryReads(r, j)
  PROVE  IInv'
<1>0. /\ UNCHANGED <<rows, results, threads>>
      /\ rpc[r] = "new"
      /\ \E p \in {"cancelQueued", "cancelRunning", "retrying"} : rpc' = [rpc EXCEPT ![r] = p]
      /\ rjob' = [rjob EXCEPT ![r] = j]
      /\ rflag' \in [Requests -> BOOLEAN]
  BY DEF CancelReads, RetryReads, IInv, TypeOK
<1>1. TypeOK'
  BY <1>0 DEF IInv, TypeOK, rows, results, threads
<1>2. RowInv' /\ ThreadInv'
  BY <1>0 DEF IInv, RowInv, ThreadInv, rows, results, threads, Owned
<1>4. RequestInv'
  BY <1>0 DEF IInv, TypeOK, RequestInv
<1>5. CountInv'
  <2>1. \A k : Retried(k)' = Retried(k)
    BY <1>0, RetriesOfOthers DEF IInv
  <2>2. QED BY <1>0, <2>1 DEF IInv, CountInv, rows, results
<1>q. QED BY <1>1, <1>2, <1>4, <1>5 DEF IInv

LEMMA RefusedKeeps ==
  ASSUME IInv, NEW r \in Requests, Refused(r)
  PROVE  IInv'
<1>1. TypeOK'
  BY DEF IInv, TypeOK, Refused, rows, results, threads
<1>2. RowInv' /\ ThreadInv' /\ RequestInv'
  BY DEF IInv, TypeOK, RowInv, ThreadInv, RequestInv, Refused, rows, results, threads, Owned
<1>5. CountInv'
  <2>1. \A k : Retried(k)' = Retried(k)
    BY RetriesOfOthers DEF IInv, Refused
  <2>2. QED BY <2>1 DEF IInv, CountInv, Refused, rows, results
<1>q. QED BY <1>1, <1>2, <1>5 DEF IInv

LEMMA CancelQueuedCommitsKeeps ==
  ASSUME IInv, NEW r \in Requests, CancelQueuedCommits(r)
  PROVE  IInv'
<1>0. rjob[r] \in Jobs
  BY DEF IInv, RequestInv, CancelQueuedCommits
<1>1. TypeOK'
  BY <1>0 DEF IInv, TypeOK, CancelQueuedCommits, results, threads, Settled
<1>2. RowInv'
  BY <1>0 DEF IInv, TypeOK, RowInv, CancelQueuedCommits
<1>3. ThreadInv'
  BY <1>0 DEF IInv, TypeOK, ThreadInv, CancelQueuedCommits, threads, Owned
<1>4. RequestInv'
  BY DEF IInv, TypeOK, RequestInv, CancelQueuedCommits
<1>5. CountInv'
  <2>1. \A k : Retried(k)' = Retried(k)
    BY RetriesOfOthers DEF IInv, CancelQueuedCommits
  <2>2. QED
    BY <1>0, <2>1, PublishedIsFinite, RetriesAreFinite
    DEF IInv, TypeOK, CountInv, CancelQueuedCommits, results, Settled
<1>q. QED BY <1>1, <1>2, <1>3, <1>4, <1>5 DEF IInv

LEMMA CancelRunningCommitsKeeps ==
  ASSUME IInv, NEW r \in Requests, CancelRunningCommits(r)
  PROVE  IInv'
<1>0. rjob[r] \in Jobs
  BY DEF IInv, RequestInv, CancelRunningCommits
<1>1. TypeOK'
  BY <1>0 DEF IInv, TypeOK, CancelRunningCommits, results, threads
<1>2. RowInv'
  BY DEF IInv, RowInv, CancelRunningCommits
<1>3. ThreadInv'
  BY <1>0 DEF IInv, TypeOK, ThreadInv, CancelRunningCommits, RowLocked, threads, Owned
<1>4. RequestInv'
  BY DEF IInv, TypeOK, RequestInv, CancelRunningCommits
<1>5. CountInv'
  <2>1. \A k : Retried(k)' = Retried(k)
    BY RetriesOfOthers DEF IInv, CancelRunningCommits
  <2>2. QED BY <2>1 DEF IInv, CountInv, CancelRunningCommits, results
<1>q. QED BY <1>1, <1>2, <1>3, <1>4, <1>5 DEF IInv

LEMMA RetryCommitsKeeps ==
  ASSUME IInv, NEW r \in Requests, RetryCommits(r)
  PROVE  IInv'
<1>0. rjob[r] \in Jobs
  BY DEF IInv, RequestInv, RetryCommits
<1>1. TypeOK'
  BY <1>0 DEF IInv, TypeOK, RetryCommits, results, threads, Pending, MaxAttempts
<1>2. RowInv'
  BY <1>0 DEF IInv, TypeOK, RowInv, RetryCommits
<1>3. ThreadInv'
  BY <1>0 DEF IInv, TypeOK, ThreadInv, RetryCommits, threads, Owned
<1>4. RequestInv'
  BY DEF IInv, TypeOK, RequestInv, RetryCommits
<1>5. CountInv'
  <2>1. ASSUME NEW k \in Jobs
        PROVE  Retried(k)' = IF k = rjob[r] THEN Retried(k) + 1 ELSE Retried(k)
    <3>1. RetriesOf(k)' = IF k = rjob[r] THEN RetriesOf(k) \cup {r} ELSE RetriesOf(k)
      BY DEF IInv, TypeOK, RetryCommits, RetriesOf
    <3>2. r \notin RetriesOf(k)
      BY DEF RetryCommits, RetriesOf
    <3>3. IsFiniteSet(RetriesOf(k))
      BY RetriesAreFinite
    <3>4. QED BY <3>1, <3>2, <3>3, FS_AddElement DEF Retried
  <2>2. /\ UNCHANGED <<runs, published>>
        /\ \A k \in Jobs : /\ attempts'[k] = IF k = rjob[r] THEN 0 ELSE attempts[k]
                           /\ k # rjob[r] => status'[k] = status[k]
        /\ \A k \in Jobs : attempts[k] \in 0..MaxAttempts /\ runs[k] \in Nat
    BY <1>0, RunsAreNumbers DEF IInv, TypeOK, RetryCommits, results
  <2>3. ASSUME NEW k \in Jobs
        PROVE  runs'[k] <= attempts'[k] + MaxAttempts * Retried(k)'
    BY <2>1, <2>2, RetriesAreFinite DEF IInv, CountInv, MaxAttempts
  <2>4. ASSUME NEW k \in Jobs
        PROVE  Cardinality(published'[k])
                 <= Retried(k)' + (IF status'[k] \in Settled THEN 1 ELSE 0)
    BY <2>1, <2>2, RetriesAreFinite, PublishedIsFinite DEF IInv, CountInv
  <2>5. QED BY <2>3, <2>4 DEF CountInv
<1>q. QED BY <1>1, <1>2, <1>3, <1>4, <1>5 DEF IInv

-----------------------------------------------------------------------------
(* Claims *)

(* What a claim leaves alone: jobs that are not heads of their company     *)
(* keep their rows, and nobody's last check is undone.                     *)
LEMMA SettlesWell ==
  ASSUME IInv, NEW S \in SUBSET Jobs, \A j \in S : Head(j)
  PROVE  /\ SettledStatus(S) \in [Jobs -> Pending \cup Settled \cup {"none"}]
         /\ Reset(S, token, 0) \in [Jobs -> Runs \cup {0}]
         /\ Reset(S, lease, "none") \in [Jobs -> {"none", "live", "expired"}]
         /\ \A j \in Jobs :
              /\ SettledStatus(S)[j] = "running" <=> Reset(S, token, 0)[j] # 0
              /\ SettledStatus(S)[j] = "running" <=> Reset(S, lease, "none")[j] # "none"
              /\ SettledStatus(S)[j] = "running" => status[j] = "running"
              /\ Reset(S, token, 0)[j] \in {0, token[j]}
              /\ status[j] \in Settled => SettledStatus(S)[j] \in Settled
         /\ \A w \in Workers :
              pc[w] = "locked" => /\ SettledStatus(S)[job[w]] = status[job[w]]
                                  /\ Reset(S, token, 0)[job[w]] = token[job[w]]
<1>1. \A j \in S : status[j] \in Pending
  BY DEF Head, Candidate, Pending
<1>2. \A w \in Workers : pc[w] = "locked" => job[w] \in Jobs /\ job[w] \notin S
  BY DEF IInv, ThreadInv, Head, Candidate, RowLocked
<1>3. QED
  BY <1>1, <1>2, RunsAreNumbers DEF IInv, TypeOK, SettledStatus, Reset, Pending, Settled

LEMMA ClaimSettlesKeeps ==
  ASSUME IInv, NEW w \in Workers, ClaimSettles(w)
  PROVE  IInv'
<1> DEFINE S == {j \in Jobs : Head(j)}
<1>0. /\ status' = SettledStatus(S)
      /\ token' = Reset(S, token, 0)
      /\ lease' = Reset(S, lease, "none")
      /\ UNCHANGED <<attempts, flag, runs, results, threads, requests>>
  BY DEF ClaimSettles
<1> HIDE DEF S
<1>s. /\ status' \in [Jobs -> Pending \cup Settled \cup {"none"}]
      /\ token' \in [Jobs -> Runs \cup {0}]
      /\ lease' \in [Jobs -> {"none", "live", "expired"}]
      /\ \A j \in Jobs :
           /\ status'[j] = "running" <=> token'[j] # 0
           /\ status'[j] = "running" <=> lease'[j] # "none"
           /\ status'[j] = "running" => status[j] = "running"
           /\ token'[j] \in {0, token[j]}
           /\ status[j] \in Settled => status'[j] \in Settled
      /\ \A v \in Workers :
           pc[v] = "locked" => status'[job[v]] = status[job[v]] /\ token'[job[v]] = token[job[v]]
  BY <1>0, SettlesWell DEF S
<1>1. TypeOK'
  BY <1>0, <1>s DEF IInv, TypeOK, results, threads, requests
<1>2. RowInv'
  BY <1>0, <1>s DEF IInv, RowInv
<1>3. ThreadInv'
  BY <1>0, <1>s DEF IInv, ThreadInv, threads, Owned
<1>4. RequestInv'
  BY <1>0 DEF IInv, RequestInv, requests
<1>5. CountInv'
  <2>1. \A k : Retried(k)' = Retried(k)
    BY <1>0, RetriesUntouched DEF requests
  <2>2. QED
    BY <1>0, <1>s, <2>1, PublishedIsFinite, RetriesAreFinite DEF IInv, CountInv, results
<1>q. QED BY <1>1, <1>2, <1>3, <1>4, <1>5 DEF IInv

LEMMA ClaimStartsKeeps ==
  ASSUME IInv, NEW w \in Workers, NEW j \in Jobs, ClaimStarts(w, j)
  PROVE  IInv'
<1> DEFINE S == {k \in Jobs : Head(k) /\ Before(k, j)}
           n == runs[j] + 1
<1>0. /\ pc[w] = "idle"
      /\ Head(j) /\ ~flag[j] /\ attempts[j] < MaxAttempts /\ IndexAllows(j)
      /\ status' = [SettledStatus(S) EXCEPT ![j] = "running"]
      /\ token' = [Reset(S, token, 0) EXCEPT ![j] = n]
      /\ lease' = [Reset(S, lease, "none") EXCEPT ![j] = "live"]
      /\ attempts' = [attempts EXCEPT ![j] = @ + 1]
      /\ runs' = [runs EXCEPT ![j] = n]
      /\ pc' = [pc EXCEPT ![w] = "claimed"]
      /\ job' = [job EXCEPT ![w] = j]
      /\ run' = [run EXCEPT ![w] = n]
      /\ UNCHANGED <<flag, results, hb, cause, requests>>
  BY DEF ClaimStarts, Starts
<1>n. n \in Runs /\ runs[j] \in Nat
  BY <1>0, NextRun
<1> HIDE DEF S, n
<1>s. /\ status' \in [Jobs -> Pending \cup Settled \cup {"none"}]
      /\ token' \in [Jobs -> Runs \cup {0}]
      /\ lease' \in [Jobs -> {"none", "live", "expired"}]
      /\ status'[j] = "running" /\ token'[j] = n /\ lease'[j] = "live"
      /\ \A k \in Jobs \ {j} :
           /\ status'[k] = "running" <=> token'[k] # 0
           /\ status'[k] = "running" <=> lease'[k] # "none"
           /\ status'[k] = "running" => status[k] = "running"
           /\ token'[k] \in {0, token[k]}
           /\ status[k] \in Settled => status'[k] \in Settled
      /\ \A v \in Workers :
           pc[v] = "locked" => /\ job[v] # j
                               /\ status'[job[v]] = status[job[v]]
                               /\ token'[job[v]] = token[job[v]]
  <2>1. S \in SUBSET Jobs /\ \A k \in S : Head(k)
    BY DEF S
  <2>2. \A v \in Workers : pc[v] = "locked" => job[v] \in Jobs /\ job[v] # j
    BY <1>0 DEF IInv, ThreadInv, Head, Candidate, RowLocked
  <2>3. QED
    BY <1>0, <1>n, <2>1, <2>2, SettlesWell DEF Pending
<1>1. TypeOK'
  BY <1>0, <1>n, <1>s, RunsAreNumbers DEF IInv, TypeOK, results, requests, MaxAttempts
<1>2. RowInv'
  <2>1. \A k \in Jobs : token'[k] \in {0, runs'[k]}
    BY <1>0, <1>s DEF IInv, TypeOK, RowInv
  <2>2. \A k \in Jobs \ {j} : Company[k] = Company[j] => status'[k] # "running"
    BY <1>0, <1>s DEF IndexAllows
  <2>3. QED BY <1>s, <2>1, <2>2 DEF IInv, RowInv
<1>3. ThreadInv'
  <2>1. ASSUME NEW v \in Workers
        PROVE  /\ IF pc'[v] \in {"idle", "dead"} THEN job'[v] = 0
                  ELSE job'[v] \in Jobs /\ run'[v] \in 1..runs'[job'[v]]
               /\ hb'[v] => pc'[v] \notin {"idle", "dead"}
               /\ pc'[v] = "locked" => Owned(v)' /\ ~flag'[job'[v]]
    BY <1>0, <1>n, <1>s, RunsAreNumbers DEF IInv, TypeOK, ThreadInv, Owned, n
  <2>2. ASSUME NEW v \in Workers, NEW u \in Workers, v # u, job'[v] = job'[u], job'[v] # 0
        PROVE  run'[v] # run'[u]
    BY <1>0, <1>n, <2>2, RunsAreNumbers DEF IInv, TypeOK, ThreadInv, n
  <2>3. QED BY <2>1, <2>2 DEF ThreadInv
<1>4. RequestInv'
  BY <1>0 DEF IInv, RequestInv, requests
<1>5. CountInv'
  <2>1. \A k : Retried(k)' = Retried(k)
    BY <1>0, RetriesUntouched DEF requests
  <2>2. status[j] \notin Settled
    BY <1>0 DEF Head, Candidate, Settled
  <2>3. QED
    BY <1>0, <1>n, <1>s, <2>1, <2>2, PublishedIsFinite, RetriesAreFinite
    DEF IInv, TypeOK, CountInv, results, n, MaxAttempts
<1>q. QED BY <1>1, <1>2, <1>3, <1>4, <1>5 DEF IInv

-----------------------------------------------------------------------------
(* Runs *)

(* Steps of one thread w that change neither rows nor requests: it goes on *)
(* with its run, or it gives up what it had.                               *)
LEMMA ThreadKeeps ==
  ASSUME IInv, NEW w \in Workers, NEW p,
         UNCHANGED <<rows, published, requests>>,
         artifacts' \in [Jobs -> SUBSET Runs],
         pc' = [pc EXCEPT ![w] = p],
         hb' \in [Workers -> BOOLEAN],
         \A v \in Workers : hb'[v] => hb[v] \/ v = w,
         cause' \in [Workers -> Causes \cup {"none"}],
         \/ /\ p \in {"idle", "dead"}
            /\ job' = [job EXCEPT ![w] = 0]
            /\ run' = [run EXCEPT ![w] = 0]
            /\ hb' = [hb EXCEPT ![w] = FALSE]
         \/ /\ p \in {"failing"} \cup Executing
            /\ pc[w] \notin {"idle", "dead"}
            /\ p = "locked" => Owned(w) /\ ~flag[job[w]]
            /\ UNCHANGED <<job, run>>
  PROVE  IInv'
<1>1. TypeOK'
  BY ZenonT(40) DEF IInv, TypeOK, rows, requests, Executing
<1>2. RowInv' /\ RequestInv' /\ CountInv'
  BY RowsUntouched DEF IInv, requests
<1>3. ThreadInv'
  <2>1. ASSUME NEW v \in Workers
        PROVE  /\ IF pc'[v] \in {"idle", "dead"} THEN job'[v] = 0
                  ELSE job'[v] \in Jobs /\ run'[v] \in 1..runs'[job'[v]]
               /\ hb'[v] => pc'[v] \notin {"idle", "dead"}
               /\ pc'[v] = "locked" => Owned(v)' /\ ~flag'[job'[v]]
    BY DEF IInv, TypeOK, ThreadInv, Owned, rows, Executing
  <2>2. ASSUME NEW v \in Workers, NEW u \in Workers, v # u, job'[v] = job'[u], job'[v] # 0
        PROVE  run'[v] # run'[u]
    BY <2>2 DEF IInv, TypeOK, ThreadInv
  <2>3. QED BY <2>1, <2>2 DEF ThreadInv
<1>4. QED BY <1>1, <1>2, <1>3 DEF IInv

LEMMA UnlinkTypes ==
  ASSUME IInv, NEW w \in Workers, job[w] \in Jobs
  PROVE  /\ Unlink(w) => artifacts' \in [Jobs -> SUBSET Runs]
         /\ [artifacts EXCEPT ![job[w]] = @ \cup {run[w]}] \in [Jobs -> SUBSET (Runs \cup {0})]
BY DEF IInv, TypeOK, Unlink

(* A run that goes on, fails, is cancelled, is lost or dies.               *)
LEMMA RunKeeps ==
  ASSUME IInv, NEW w \in Workers,
         \/ BeginRun(w) \/ BeginLost(w) \/ FlushManifest(w) \/ WriteArtifact(w)
         \/ RunFails(w) \/ CheckPasses(w) \/ CheckCancelled(w) \/ CheckLost(w)
         \/ FinishLate(w) \/ ThreadDies(w)
  PROVE  IInv'
<1>0. pc[w] \notin {"idle", "dead"} => job[w] \in Jobs /\ run[w] \in Runs
  <2>1. pc[w] \notin {"idle", "dead"} => job[w] \in Jobs /\ run[w] # 0
    BY RunsAreNumbers DEF IInv, ThreadInv, TypeOK
  <2>2. QED BY <2>1 DEF IInv, TypeOK
<1>1. CASE BeginRun(w)
  <2>1. PICK p \in {"executing", "failing"} : pc' = [pc EXCEPT ![w] = p]
    BY <1>1 DEF BeginRun, ToFail
  <2>2. /\ hb' = [hb EXCEPT ![w] = TRUE]
        /\ cause' \in [Workers -> Causes \cup {"none"}]
        /\ pc[w] = "claimed"
        /\ UNCHANGED <<rows, published, artifacts, requests, job, run>>
    BY <1>1 DEF BeginRun, IInv, TypeOK, results, ToFail, Causes
  <2>3. QED BY <2>1, <2>2, ThreadKeeps DEF IInv, TypeOK, Executing
<1>2. CASE BeginLost(w) \/ FinishLate(w)
  <2>1. /\ pc' = [pc EXCEPT ![w] = "idle"]
        /\ job' = [job EXCEPT ![w] = 0] /\ run' = [run EXCEPT ![w] = 0]
        /\ hb' = [hb EXCEPT ![w] = FALSE]
        /\ cause' = [cause EXCEPT ![w] = "none"]
        /\ UNCHANGED <<rows, published, artifacts, requests>>
    BY <1>2 DEF BeginLost, FinishLate, Leave, results
  <2>2. QED BY <2>1, ThreadKeeps DEF IInv, TypeOK
<1>3. CASE FlushManifest(w)
  BY <1>3, ThreadKeeps DEF FlushManifest, IInv, TypeOK, results, Executing
<1>4. CASE WriteArtifact(w)
  <2>1. artifacts' \in [Jobs -> SUBSET Runs]
    BY <1>0, <1>4 DEF WriteArtifact, IInv, TypeOK
  <2>2. QED BY <1>4, <2>1, ThreadKeeps DEF WriteArtifact, IInv, TypeOK, Executing
<1>5. CASE RunFails(w)
  <2>1. artifacts' \in [Jobs -> SUBSET Runs]
    BY <1>0, <1>5, UnlinkTypes DEF RunFails, Executing
  <2>2. PICK c \in Causes : ToFail(w, c)
    BY <1>5 DEF RunFails, Causes
  <2>3. cause' \in [Workers -> Causes \cup {"none"}]
    BY <2>2 DEF ToFail, IInv, TypeOK
  <2>4. QED
    BY <1>5, <2>1, <2>2, <2>3, ThreadKeeps DEF RunFails, ToFail, IInv, TypeOK, Executing
<1>6. CASE CheckPasses(w)
  BY <1>6, ThreadKeeps DEF CheckPasses, ReadyToPublish, IInv, TypeOK, results, Executing
<1>7. CASE CheckCancelled(w)
  <2>1. artifacts' \in [Jobs -> SUBSET Runs]
    BY <1>0, <1>7, UnlinkTypes DEF CheckCancelled, ReadyToPublish
  <2>2. cause' \in [Workers -> Causes \cup {"none"}]
    BY <1>7 DEF CheckCancelled, ToFail, IInv, TypeOK, Causes
  <2>3. QED
    BY <1>7, <2>1, <2>2, ThreadKeeps DEF CheckCancelled, ReadyToPublish, ToFail, IInv, TypeOK
<1>8. CASE CheckLost(w)
  <2>1. artifacts' \in [Jobs -> SUBSET Runs]
    BY <1>0, <1>8, UnlinkTypes DEF CheckLost, ReadyToPublish
  <2>2. QED BY <1>8, <2>1, ThreadKeeps DEF CheckLost, Leave, IInv, TypeOK
<1>9. CASE ThreadDies(w)
  BY <1>9, ThreadKeeps DEF ThreadDies, Leave, IInv, TypeOK, results
<1>q. QED
  BY <1>1, <1>2, <1>3, <1>4, <1>5, <1>6, <1>7, <1>8, <1>9

(* The row of the job of w is settled or queued again: no other thread was *)
(* between its check and its commit on it.                                 *)
LEMMA RowLeftKeeps ==
  ASSUME IInv, NEW w \in Workers, NEW s \in {"queued"} \cup Settled, NEW p,
         pc[w] \notin {"idle", "dead"}, Owned(w),
         pc[w] = "locked" \/ ~RowLocked(job[w]),
         status' = [status EXCEPT ![job[w]] = s],
         token' = [token EXCEPT ![job[w]] = 0],
         lease' = [lease EXCEPT ![job[w]] = "none"],
         UNCHANGED <<attempts, flag, runs, requests>>,
         pc' = [pc EXCEPT ![w] = p],
         \/ p = "idle" /\ job' = [job EXCEPT ![w] = 0] /\ run' = [run EXCEPT ![w] = 0]
                       /\ hb' = [hb EXCEPT ![w] = FALSE]
         \/ p = "failing" /\ UNCHANGED <<job, run, hb>>
  PROVE  RowInv' /\ ThreadInv' /\ RequestInv'
<1>0. job[w] \in Jobs
  BY DEF IInv, ThreadInv
<1>1. RowInv'
  BY <1>0 DEF IInv, TypeOK, RowInv, Settled
<1>2. ThreadInv'
  <2>1. ASSUME NEW v \in Workers, v # w, pc[v] = "locked"
        PROVE  job[v] # job[w]
    BY <1>0, <2>1 DEF IInv, ThreadInv, Owned, RowLocked, Jobs
  <2>2. ASSUME NEW v \in Workers
        PROVE  /\ IF pc'[v] \in {"idle", "dead"} THEN job'[v] = 0
                  ELSE job'[v] \in Jobs /\ run'[v] \in 1..runs'[job'[v]]
               /\ hb'[v] => pc'[v] \notin {"idle", "dead"}
               /\ pc'[v] = "locked" => Owned(v)' /\ ~flag'[job'[v]]
    BY <1>0, <2>1 DEF IInv, TypeOK, ThreadInv, Owned
  <2>3. ASSUME NEW v \in Workers, NEW u \in Workers, v # u, job'[v] = job'[u], job'[v] # 0
        PROVE  run'[v] # run'[u]
    BY <2>3 DEF IInv, TypeOK, ThreadInv
  <2>4. QED BY <2>2, <2>3 DEF ThreadInv
<1>3. RequestInv'
  BY DEF IInv, RequestInv, requests
<1>4. QED BY <1>1, <1>2, <1>3

LEMMA CommitKeeps ==
  ASSUME IInv, NEW w \in Workers, Publish(w) \/ PublishUnacknowledged(w)
  PROVE  IInv'
<1>0. /\ pc[w] = "locked" /\ Owned(w) /\ job[w] \in Jobs /\ run[w] \in Runs
      /\ Commit(w) /\ UNCHANGED requests
  <2>1. run[w] \in Nat \ {0} /\ run[w] \in Runs \cup {0}
    BY RunsAreNumbers DEF IInv, ThreadInv, TypeOK, Publish, PublishUnacknowledged
  <2>2. QED
    BY <2>1, RunsAreNumbers DEF IInv, ThreadInv, Publish, PublishUnacknowledged
<1>1. TypeOK'
  <2>1. artifacts' \in [Jobs -> SUBSET Runs]
    BY <1>0, UnlinkTypes DEF IInv, TypeOK, Publish, PublishUnacknowledged
  <2>2. published' \in [Jobs -> SUBSET Runs]
    BY <1>0 DEF IInv, TypeOK, Commit
  <2>3. /\ pc' \in [Workers -> {"idle", "claimed", "failing", "dead"} \cup Executing]
        /\ job' \in [Workers -> Jobs \cup {0}]
        /\ run' \in [Workers -> Runs \cup {0}]
        /\ hb' \in [Workers -> BOOLEAN]
        /\ cause' \in [Workers -> Causes \cup {"none"}]
    BY ZenonT(40) DEF IInv, TypeOK, Publish, PublishUnacknowledged, Leave, ToFail, Causes
  <2>4. QED
    BY <1>0, <2>1, <2>2, <2>3 DEF IInv, TypeOK, Commit, Settled, requests
<1>2. RowInv' /\ ThreadInv' /\ RequestInv'
  BY <1>0, RowLeftKeeps DEF Publish, PublishUnacknowledged, Commit, Leave, ToFail, Settled
<1>3. CountInv'
  <2>1. \A k : Retried(k)' = Retried(k)
    BY <1>0, RetriesUntouched DEF requests
  <2>2. ASSUME NEW k \in Jobs
        PROVE  Cardinality(published'[k])
                 <= Retried(k)' + (IF status'[k] \in Settled THEN 1 ELSE 0)
    <3>1. CASE k = job[w]
      <4>1. status[k] \notin Settled /\ status'[k] \in Settled
        BY <1>0, <3>1 DEF IInv, TypeOK, Commit, Owned, Settled
      <4>2. published'[k] = published[k] \cup {run[w]}
        BY <1>0, <3>1 DEF IInv, TypeOK, Commit
      <4>3. Cardinality(published'[k]) <= Cardinality(published[k]) + 1
        <5>1. IsFiniteSet(published[k]) /\ Cardinality(published[k]) \in Nat
          BY PublishedIsFinite DEF IInv
        <5>2. Cardinality(published[k] \cup {run[w]}) \in
                {Cardinality(published[k]), Cardinality(published[k]) + 1}
          BY <5>1, FS_AddElement
        <5>3. QED BY <4>2, <5>1, <5>2
      <4>4. Cardinality(published'[k]) \in Nat
        <5>1. IsFiniteSet(published[k])
          BY PublishedIsFinite DEF IInv
        <5>2. QED BY <4>2, <5>1, FS_AddElement, FS_CardinalityType
      <4>5. QED
        BY <2>1, <4>1, <4>3, <4>4, PublishedIsFinite, RetriesAreFinite DEF IInv, CountInv
    <3>2. CASE k # job[w]
      BY <1>0, <2>1, <3>2 DEF IInv, TypeOK, CountInv, Commit
    <3>3. QED BY <3>1, <3>2
  <2>3. QED BY <1>0, <2>1, <2>2 DEF IInv, CountInv, Commit
<1>q. QED BY <1>1, <1>2, <1>3 DEF IInv

LEMMA FinishKeeps ==
  ASSUME IInv, NEW w \in Workers, Finish(w)
  PROVE  IInv'
<1>0. job[w] \in Jobs
  BY DEF IInv, ThreadInv, Finish
<1>1. PICK s \in {"queued"} \cup Settled : status' = [status EXCEPT ![job[w]] = s]
  BY DEF Finish, Settled
<1>2. TypeOK'
  BY <1>0, <1>1 DEF IInv, TypeOK, Finish, Leave, Pending, Settled, results, requests
<1>3. RowInv' /\ ThreadInv' /\ RequestInv'
  BY <1>1, RowLeftKeeps DEF Finish, Leave
<1>4. CountInv'
  <2>1. \A k : Retried(k)' = Retried(k)
    BY RetriesUntouched DEF Finish, requests
  <2>2. status[job[w]] \notin Settled /\ \A k \in Jobs \ {job[w]} : status'[k] = status[k]
    BY <1>0, <1>1 DEF IInv, TypeOK, Finish, Owned, Settled
  <2>3. QED
    BY <2>1, <2>2, PublishedIsFinite, RetriesAreFinite DEF IInv, CountInv, Finish, results
<1>q. QED BY <1>2, <1>3, <1>4 DEF IInv

-----------------------------------------------------------------------------
(* Heartbeat, clock, process *)

LEMMA HeartbeatKeeps ==
  ASSUME IInv, NEW w \in Workers, Renew(w) \/ HeartbeatFails(w)
  PROVE  IInv'
<1>0. /\ job[w] \in Jobs
      /\ UNCHANGED <<status, attempts, token, flag, runs, results, pc, job, run, cause, requests>>
      /\ hb' \in [Workers -> BOOLEAN] /\ \A v \in Workers : hb'[v] => hb[v]
      /\ \/ lease' = lease
         \/ status[job[w]] = "running" /\ lease' = [lease EXCEPT ![job[w]] = "live"]
  <2>1. job[w] \in Jobs
    BY DEF IInv, ThreadInv, Renew, HeartbeatFails
  <2>2. QED
    BY ZenonT(40), <2>1 DEF IInv, TypeOK, Renew, HeartbeatFails, Owned, rows
<1>1. TypeOK'
  BY <1>0 DEF IInv, TypeOK, results, requests
<1>2. RowInv' /\ ThreadInv' /\ RequestInv'
  BY <1>0 DEF IInv, RowInv, ThreadInv, RequestInv, Owned, requests
<1>3. CountInv'
  BY <1>0, RetriesUntouched DEF IInv, CountInv, results, requests
<1>q. QED BY <1>1, <1>2, <1>3 DEF IInv

LEMMA LeaseRunsOutKeeps ==
  ASSUME IInv, NEW j \in Jobs, LeaseRunsOut(j)
  PROVE  IInv'
<1>1. TypeOK'
  BY DEF IInv, TypeOK, LeaseRunsOut, results, threads, requests
<1>2. RowInv' /\ ThreadInv' /\ RequestInv'
  BY DEF IInv, RowInv, ThreadInv, RequestInv, LeaseRunsOut, Owned, threads, requests
<1>3. CountInv'
  BY RetriesUntouched DEF IInv, CountInv, LeaseRunsOut, results, requests
<1>q. QED BY <1>1, <1>2, <1>3 DEF IInv

LEMMA ProcessKeeps ==
  ASSUME IInv, Crash \/ Restart
  PROVE  IInv'
<1>1. TypeOK'
  <2>1. /\ pc' \in [Workers -> {"idle", "dead"}]
        /\ job' \in [Workers -> Jobs \cup {0}]
        /\ run' \in [Workers -> Runs \cup {0}]
        /\ hb' \in [Workers -> BOOLEAN]
        /\ cause' \in [Workers -> Causes \cup {"none"}]
        /\ UNCHANGED <<rows, results, requests>>
    <3>1. CASE Crash
      BY <3>1 DEF Crash
    <3>2. CASE Restart
      BY <3>2 DEF IInv, TypeOK, Restart
    <3>3. QED BY <3>1, <3>2
  <2>2. QED BY <2>1 DEF IInv, TypeOK, rows, results, requests
<1>2. ThreadInv'
  BY DEF IInv, TypeOK, ThreadInv, Crash, Restart, Owned, rows
<1>3. RowInv' /\ RequestInv' /\ CountInv'
  BY RowsUntouched DEF IInv, Crash, Restart, results, requests
<1>q. QED BY <1>1, <1>2, <1>3 DEF IInv

-----------------------------------------------------------------------------
(* The queue's invariant: rows, threads and requests agree, and every run  *)
(* and publication of a job is accounted for (ml_jobs, ml_worker and the   *)
(* job endpoints of the API).                                              *)
THEOREM Invariance == Spec => []IInv
<1>1. IInv /\ [Next]_vars => IInv'
  <2> SUFFICES ASSUME IInv, [Next]_vars PROVE IInv'
    OBVIOUS
  <2>1. ASSUME NEW r \in Requests, Request(r) PROVE IInv'
    BY <2>1, ReadsKeep, CancelQueuedCommitsKeeps, CancelRunningCommitsKeeps,
       RetryCommitsKeeps, RefusedKeeps DEF Request
  <2>2. ASSUME NEW w \in Workers, Claims(w) PROVE IInv'
    BY <2>2, ClaimSettlesKeeps, ClaimStartsKeeps DEF Claims
  <2>3. ASSUME NEW w \in Workers, Work(w) \/ ThreadDies(w) PROVE IInv'
    BY <2>3, RunKeeps, CommitKeeps, FinishKeeps DEF Work
  <2>4. ASSUME NEW w \in Workers, Renew(w) \/ HeartbeatFails(w) PROVE IInv'
    BY <2>4, HeartbeatKeeps
  <2>5. ASSUME NEW j \in Jobs, Enqueue(j) \/ LeaseRunsOut(j) PROVE IInv'
    BY <2>5, EnqueueKeeps, LeaseRunsOutKeeps
  <2>6. CASE UNCHANGED vars
    <3>1. TypeOK' /\ ThreadInv'
      BY <2>6 DEF IInv, TypeOK, ThreadInv, Owned, vars, rows, results, threads, requests
    <3>2. QED
      BY <2>6, <3>1, RowsUntouched DEF IInv, vars, results, requests
  <2>7. QED
    BY <2>1, <2>2, <2>3, <2>4, <2>5, <2>6, ProcessKeeps DEF Next
<1>2. QED BY <1>1, Initially, PTL DEF Spec

(* Rows are well formed, a job runs at most twice and is published at most *)
(* once for each time somebody asked for it, whatever crashes or is lost   *)
(* (claim_next_ml_job, _finish_failure, retry_company_ml_job).             *)
THEOREM QueueBounded == Spec => []QueueIsBounded
<1>1. IInv => QueueIsBounded
  <2> SUFFICES ASSUME IInv PROVE QueueIsBounded
    OBVIOUS
  <2>1. RunsBounded
    <3>1. ASSUME NEW j \in Jobs PROVE runs[j] <= MaxAttempts * (1 + Retried(j))
      BY RunsAreNumbers, RetriesAreFinite DEF IInv, TypeOK, CountInv, MaxAttempts
    <3>2. QED BY <3>1 DEF RunsBounded, Retried, RetriesOf
  <2>2. PublishedOncePerRequest
    <3>1. ASSUME NEW j \in Jobs PROVE Cardinality(published[j]) <= 1 + Retried(j)
      BY PublishedIsFinite, RetriesAreFinite DEF IInv, CountInv
    <3>2. QED BY <3>1 DEF PublishedOncePerRequest, Retried, RetriesOf
  <2>3. QED BY <2>1, <2>2 DEF IInv, QueueIsBounded
<1>2. QED BY <1>1, Invariance, PTL

(* A company never has two threads that may both still publish, although a *)
(* run may outlive its lease (the token, and the partial unique index that *)
(* claim_next_ml_job meets).                                               *)
THEOREM CompanyHasOneOwner == Spec => []OneOwnerPerCompany
<1>1. IInv => OneOwnerPerCompany
  <2> SUFFICES ASSUME IInv, NEW v \in Workers, NEW w \in Workers,
                      v # w, job[v] # 0, job[w] # 0, Owned(v), Owned(w),
                      Company[job[v]] = Company[job[w]]
               PROVE  FALSE
    BY DEF OneOwnerPerCompany
  <2>1. job[v] \in Jobs /\ job[w] \in Jobs
    BY DEF IInv, TypeOK
  <2>2. job[v] = job[w]
    BY <2>1 DEF IInv, RowInv, Owned
  <2>3. QED BY <2>2 DEF IInv, ThreadInv, Owned
<1>2. QED BY <1>1, Invariance, PTL

(* What a commit adds to a job is its last run: a thread that lost its job *)
(* to a later claim never publishes (the refresh FOR UPDATE of _execute).  *)
THEOREM LastRunAlone == Spec => OnlyLastRunPublishes
<1>1. IInv /\ [Next]_vars => [LastRunPublishes]_vars
  <2> SUFFICES ASSUME IInv, Next PROVE LastRunPublishes
    OBVIOUS
  <2>1. CASE UNCHANGED published
    BY <2>1 DEF LastRunPublishes
  <2>2. ASSUME NEW w \in Workers, Commit(w), pc[w] = "locked" PROVE LastRunPublishes
    <3>1. job[w] \in Jobs /\ run[w] = runs[job[w]]
      BY <2>2, RunsAreNumbers DEF IInv, TypeOK, RowInv, ThreadInv, Owned
    <3>2. QED BY <2>2, <3>1 DEF IInv, TypeOK, Commit, LastRunPublishes
  <2>3. QED
    BY ZenonT(40), <2>1, <2>2 DEF Next, Request, CancelReads, RetryReads, CancelQueuedCommits,
       CancelRunningCommits, RetryCommits, Refused, Claims, ClaimSettles, ClaimStarts,
       Work, BeginRun, BeginLost, FlushManifest, WriteArtifact, RunFails, CheckPasses,
       CheckCancelled, CheckLost, Publish, PublishUnacknowledged, Finish, FinishLate,
       ThreadDies, Renew, HeartbeatFails, Enqueue, LeaseRunsOut, Crash, Restart, results
<1>2. QED BY <1>1, Invariance, PTL DEF Spec, OnlyLastRunPublishes

(* A cancel committed while the job runs is obeyed, by the run, by its     *)
(* failure and by the claim that finds it (cancel_company_ml_job, the last *)
(* check of _execute, _finish_failure, claim_next_ml_job).                 *)
THEOREM CancelObeyed == Spec => CancelIsObeyed
<1>1. IInv /\ [Next]_vars => [FlaggedEndsCancelled]_vars
  <2> SUFFICES ASSUME IInv, Next PROVE FlaggedEndsCancelled
    OBVIOUS
  <2>1. CASE UNCHANGED status
    BY <2>1 DEF FlaggedEndsCancelled
  <2>2. ASSUME NEW r \in Requests, CancelQueuedCommits(r) \/ RetryCommits(r)
        PROVE  FlaggedEndsCancelled
    <3>1. rjob[r] \in Jobs
      BY <2>2 DEF IInv, RequestInv, CancelQueuedCommits, RetryCommits
    <3>2. QED
      BY <2>2, <3>1 DEF IInv, TypeOK, CancelQueuedCommits, RetryCommits, FlaggedEndsCancelled
  <2>3. ASSUME NEW w \in Workers, ClaimSettles(w) PROVE FlaggedEndsCancelled
    BY <2>3 DEF ClaimSettles, SettledStatus, FlaggedEndsCancelled
  <2>4. ASSUME NEW w \in Workers, NEW j \in Jobs, ClaimStarts(w, j)
        PROVE  FlaggedEndsCancelled
    BY <2>4 DEF ClaimStarts, SettledStatus, FlaggedEndsCancelled
  <2>5. ASSUME NEW w \in Workers, Publish(w) \/ PublishUnacknowledged(w)
        PROVE  FlaggedEndsCancelled
    BY <2>5 DEF IInv, TypeOK, ThreadInv, Publish, PublishUnacknowledged, Commit,
       FlaggedEndsCancelled
  <2>6. ASSUME NEW w \in Workers, Finish(w) PROVE FlaggedEndsCancelled
    BY <2>6 DEF IInv, TypeOK, ThreadInv, Finish, Cancels, FlaggedEndsCancelled
  <2>7. ASSUME NEW j \in Jobs, Enqueue(j) PROVE FlaggedEndsCancelled
    BY <2>7 DEF IInv, TypeOK, Enqueue, FlaggedEndsCancelled
  <2>8. QED
    BY <2>1, <2>2, <2>3, <2>4, <2>5, <2>6, <2>7 DEF Next, Request, CancelReads,
       RetryReads, CancelRunningCommits, Refused, Claims, Work, BeginRun, BeginLost,
       FlushManifest, WriteArtifact, RunFails, CheckPasses, CheckCancelled, CheckLost,
       FinishLate, ThreadDies, Renew, HeartbeatFails, LeaseRunsOut, Crash, Restart, rows
<1>2. QED BY <1>1, Invariance, PTL DEF Spec, CancelIsObeyed
=============================================================================
