---------------------------- MODULE AgentRunner ----------------------------
(***************************************************************************)
(* The supervised agent runner: deliveries of signed events, executions    *)
(* with their two locks, checkpoints, and the manual homologation.         *)
(*                                                                         *)
(* Every method of RunnerStore opens a connection of its own, so a handler *)
(* is a sequence of transactions with the calls of the executor between    *)
(* them.  A thread serves one delivery, or one reconciliation of a comment *)
(* of the maintainer, and may die at any point: an exception or the end of *)
(* the process.                                                            *)
(***************************************************************************)
EXTENDS Naturals, Sequences, FiniteSets

CONSTANTS
  Threads,        \* requests served at the same time
  Events,         \* event ids
  Content,        \* the requests that are signed under each event id
  Issues,
  Calls,          \* bound: signed copies of an event, each with a nonce of its
                  \* own, and reconciliations of a comment
  MaxExecs,       \* bound: executions
  MaxCheckpoints, \* bound: checkpoints
  Comments,       \* ids of the homologation comments
  Texts,          \* what each may say: [exec, fits, result, commit, tested]
  Trees           \* contents of the relevant paths

Execs == 1..MaxExecs
NoExec == 0
Refs == 0..MaxCheckpoints

Implement(i) == [action |-> "implement", issue |-> i]
Resume(x, k) == [action |-> "resume", exec |-> x, ref |-> k]
Cancel(x) == [action |-> "cancel", exec |-> x]
Status(x) == [action |-> "status", exec |-> x]
Requests == {Implement(i) : i \in Issues} \cup {Resume(x, k) : x \in Execs, k \in Refs}
            \cup {Cancel(x) : x \in Execs} \cup {Status(x) : x \in Execs}

NoEvent == "none"
Statuses == {"running", "blocked", "cancelled", "awaiting_manual_test", "validated"}
Results == {"APROVADO", "REPROVADO", "BLOQUEADO", "NAO APLICAVEL"}

(* A comment that was parsed: the execution it is about, whether its issue, *)
(* pull request, author and place are the expected ones, the result,       *)
(* whether it names the commit that was tested, and the relevant tree of   *)
(* that commit.  An edited comment is not parsed.                          *)
Text == [exec : Execs, fits : BOOLEAN, result : Results, commit : BOOLEAN, tested : Trees]

ASSUME RunnerAssumption ==
  /\ Calls \in [Events \cup Comments -> Nat]
  /\ MaxExecs \in Nat /\ MaxCheckpoints \in Nat
  /\ Content \in [Events -> SUBSET Requests]
  /\ Texts \in [Comments -> SUBSET Text]
  /\ NoEvent \notin Events \cup Comments

VARIABLES
  answer,         \* table events: the request each event id was answered for
  calls,          \* nonces registered for the copies of each event, and the
                  \* reconciliations of each comment that began
  execs,          \* table executions, in order of creation
  checkpoints,    \* table checkpoints, in order of id: the execution of each
  locks,          \* table locks: the execution that holds each lock
  decided,        \* table manual_homologation_events
  th,             \* the threads
  freed,          \* history: executions whose locks were deleted under a worker
  died            \* history: executions on which a thread died at work

store == <<answer, calls, execs, checkpoints, locks, decided>>
vars == <<store, th, freed, died>>

-----------------------------------------------------------------------------
(* Rows *)

NoRequest == [action |-> "none"]
LockNames == {"global"} \cup Issues
Exists(x) == x \in DOMAIN execs
CheckpointsOf(x) == {k \in DOMAIN checkpoints : checkpoints[k] = x}
LatestCheckpoint(x) ==          \* its id, 0 when there is none
  IF CheckpointsOf(x) = {} THEN 0
  ELSE CHOOSE k \in CheckpointsOf(x) : \A j \in CheckpointsOf(x) : j <= k

Codes == {"none", "DELIVERED", "EXECUTION_BLOCKED", "HOMOLOGATION_CONTEXT_MISMATCH", "MANUAL_HOMOLOGATION_NOT_APPROVED",
          "COMMIT_MISMATCH", "RELEVANT_TREE_CHANGED", "MANUAL_HOMOLOGATION_ACCEPTED"}

(* What a thread holds in memory: its delivery (ev, rq) or its comment, what *)
(* it says and the tree it was given (cm, text, tr), the execution, the outcome, and the     *)
(* checkpoint it read or wrote.                                            *)
Idle == [pc |-> "idle", ev |-> NoEvent, rq |-> NoRequest, cm |-> NoEvent, text |-> {}, tr |-> NoEvent,
         x |-> NoExec, code |-> "none", ck |-> 0]
Working == {"run", "resuming", "failed", "repairing", "finish"}
WorksOn(t, x) == th[t].pc \in Working /\ th[t].x = x

Init ==
  /\ answer = [e \in Events |-> NoRequest]
  /\ calls = [e \in Events \cup Comments |-> 0]
  /\ execs = <<>>
  /\ checkpoints = <<>>
  /\ locks = [l \in LockNames |-> NoExec]
  /\ decided = [c \in Comments |-> [d \in Trees |-> "none"]]
  /\ th = [t \in Threads |-> Idle]
  /\ freed = {}
  /\ died = {}

-----------------------------------------------------------------------------
(* Transactions *)

Goes(t, pc) == th' = [th EXCEPT ![t].pc = pc]
Stops(t) == th' = [th EXCEPT ![t] = Idle]
Answers(t) == Goes(t, "answer")

(* update_execution: the status, whatever it was, and with release_locks   *)
(* the locks of the execution.                                             *)
SetsStatus(x, s) == execs' = [execs EXCEPT ![x].status = s]
DeletesGlobal(x) ==             \* mutant: the lock of the issue stays
  locks' = [locks EXCEPT !["global"] = IF @ = x THEN NoExec ELSE @]
DeletesLocks(x) ==
  locks' = [l \in LockNames |-> IF locks[l] = x THEN NoExec ELSE locks[l]]
ReleasesLocks(t, x) ==
  /\ DeletesLocks(x)
  /\ freed' = IF \E s \in Threads \ {t} : WorksOn(s, x) THEN freed \cup {x} ELSE freed

(* The locks are free for x, which may hold them itself.                   *)
FreeFor(x, i) == locks["global"] \in {NoExec, x} /\ locks[i] \in {NoExec, x}
TakesLocks(x, i) == locks' = [locks EXCEPT !["global"] = x, ![i] = x]

-----------------------------------------------------------------------------
(* A delivery *)

(* The private interface lets a signed copy through when its nonce is new; *)
(* a second use of the nonce is refused and changes nothing.               *)
Deliver(t, e, rq) ==
  /\ th[t] = Idle
  /\ calls[e] < Calls[e]
  /\ calls' = [calls EXCEPT ![e] = @ + 1]
  /\ th' = [th EXCEPT ![t] = [Idle EXCEPT !.pc = "lookup", !.ev = e, !.rq = rq]]
  /\ UNCHANGED <<answer, execs, checkpoints, locks, decided, freed, died>>

(* get_event_response: a stored response is returned, and the same id with *)
(* another payload is a conflict; neither changes anything.                *)
LookupByPayload(t) ==           \* mutant: a conflicting payload is handled
  /\ th[t].pc = "lookup"
  /\ IF answer[th[t].ev] = th[t].rq THEN Stops(t) ELSE Goes(t, th[t].rq.action)
  /\ UNCHANGED <<store, freed, died>>
Lookup(t) ==
  /\ th[t].pc = "lookup"
  /\ IF answer[th[t].ev] # NoRequest THEN Stops(t) ELSE Goes(t, th[t].rq.action)
  /\ UNCHANGED <<store, freed, died>>

(* persist_event_response: an INSERT, which fails for the second of two    *)
(* deliveries.                                                             *)
Persist(t) ==
  /\ th[t].pc = "answer"
  /\ answer' = IF answer[th[t].ev] = NoRequest
               THEN [answer EXCEPT ![th[t].ev] = th[t].rq]
               ELSE answer
  /\ Stops(t)
  /\ UNCHANGED <<calls, execs, checkpoints, locks, decided, freed, died>>

-----------------------------------------------------------------------------
(* implement *)

(* The context is validated against GitHub; then one transaction looks at  *)
(* both locks, inserts the execution and takes them.                       *)
CreateLocksFirst(t) ==          \* mutant: the row is left to a later transaction
  LET i == th[t].rq.issue
      x == Len(execs) + 1
  IN /\ th[t].pc = "implement"
     /\ FreeFor(NoExec, i)
     /\ x <= MaxExecs
     /\ TakesLocks(x, i)
     /\ th' = [th EXCEPT ![t].pc = "run"]
     /\ UNCHANGED <<answer, calls, execs, checkpoints, decided, freed, died>>
Create(t) ==
  LET i == th[t].rq.issue
      x == Len(execs) + 1
  IN /\ th[t].pc = "implement"
     /\ \/ /\ Answers(t)
           /\ UNCHANGED <<execs, locks>>
        \/ /\ ~FreeFor(NoExec, i)
           /\ Answers(t)
           /\ UNCHANGED <<execs, locks>>
        \/ /\ FreeFor(NoExec, i)
           /\ Len(execs) < MaxExecs
           /\ execs' = Append(execs, [issue |-> i, status |-> "running", ev |-> th[t].ev])
           /\ TakesLocks(x, i)
           /\ th' = [th EXCEPT ![t].pc = "run", ![t].x = x]
     /\ UNCHANGED <<answer, calls, checkpoints, decided, freed, died>>

(* The executor answers: delivered, blocked (a late answer counts as       *)
(* blocked), or a mechanical failure, which an implement repairs once.     *)
Run(t) ==
  /\ th[t].pc = "run"
  /\ \/ th' = [th EXCEPT ![t].pc = "finish", ![t].code = "DELIVERED"]
     \/ th' = [th EXCEPT ![t].pc = "finish", ![t].code = "EXECUTION_BLOCKED"]
     \/ /\ th[t].rq.action = "implement"
        /\ Goes(t, "failed")
  /\ UNCHANGED <<store, freed, died>>

StartRepair(t) ==
  /\ th[t].pc = "failed"
  /\ SetsStatus(th[t].x, "running")
  /\ Goes(t, "repairing")
  /\ UNCHANGED <<answer, calls, checkpoints, locks, decided, freed, died>>

Repair(t) ==
  /\ th[t].pc = "repairing"
  /\ \E code \in {"DELIVERED", "EXECUTION_BLOCKED"} :
       th' = [th EXCEPT ![t].pc = "finish", ![t].code = code]
  /\ UNCHANGED <<store, freed, died>>

(* The final status and the release of the locks, one transaction.         *)
FinishKeepingLocks(t) ==        \* mutant: a blocked execution keeps its locks
  LET x == th[t].x IN
  /\ th[t].pc = "finish"
  /\ SetsStatus(x, IF th[t].code = "DELIVERED" THEN "awaiting_manual_test" ELSE "blocked")
  /\ IF th[t].code = "DELIVERED" THEN ReleasesLocks(t, x) ELSE UNCHANGED <<locks, freed>>
  /\ th' = [th EXCEPT ![t].pc = "insert", ![t].code = "none"]
  /\ UNCHANGED <<answer, calls, checkpoints, decided, died>>
Finish(t) ==
  LET x == th[t].x IN
  /\ th[t].pc = "finish"
  /\ SetsStatus(x, IF th[t].code = "DELIVERED" THEN "awaiting_manual_test" ELSE "blocked")
  /\ ReleasesLocks(t, x)
  /\ th' = [th EXCEPT ![t].pc = "insert", ![t].code = "none"]
  /\ UNCHANGED <<answer, calls, checkpoints, decided, died>>

-----------------------------------------------------------------------------
(* add_checkpoint: insert, then read the latest again *)

Insert(t) ==
  /\ th[t].pc = "insert"
  /\ Len(checkpoints) < MaxCheckpoints
  /\ checkpoints' = Append(checkpoints, th[t].x)
  /\ th' = [th EXCEPT ![t].pc = "check", ![t].ck = Len(checkpoints) + 1]
  /\ UNCHANGED <<answer, calls, execs, locks, decided, freed, died>>

(* The assertion that the row just written is the latest.                  *)
AssertionHolds(t) == LatestCheckpoint(th[t].x) = th[t].ck
Check(t) ==
  /\ th[t].pc = "check"
  /\ \/ /\ AssertionHolds(t)
        /\ Goes(t, IF th[t].cm = NoEvent THEN "answer" ELSE "decide")
     \/ /\ ~AssertionHolds(t)
        /\ Stops(t)
  /\ UNCHANGED <<store, freed, died>>

-----------------------------------------------------------------------------
(* resume, cancel, status *)

(* The execution must be blocked and the reference its latest checkpoint.  *)
ReadExecution(t) ==
  LET x == th[t].rq.exec IN
  /\ th[t].pc = "resume"
  /\ IF Exists(x) /\ execs[x].status = "blocked"
     THEN th' = [th EXCEPT ![t].pc = "reference", ![t].x = x]
     ELSE Answers(t)
  /\ UNCHANGED <<store, freed, died>>

ReadReference(t) ==
  /\ th[t].pc = "reference"
  /\ IF LatestCheckpoint(th[t].x) \in {0} \cup (DOMAIN checkpoints \ {th[t].rq.ref})
     THEN Answers(t)
     ELSE \/ Answers(t)
          \/ Goes(t, "acquire")
  /\ UNCHANGED <<store, freed, died>>

(* _acquire_existing_locks: the locks may be those of the execution itself.*)
AcquireAlways(t) ==             \* mutant: INSERT OR REPLACE without the look
  LET x == th[t].x IN
  /\ th[t].pc = "acquire"
  /\ TakesLocks(x, execs[x].issue)
  /\ Goes(t, "resuming")
  /\ UNCHANGED <<answer, calls, execs, checkpoints, decided, freed, died>>
Acquire(t) ==
  LET x == th[t].x
      i == execs[x].issue
  IN /\ th[t].pc = "acquire"
     /\ \/ /\ ~FreeFor(x, i)
           /\ Answers(t)
           /\ UNCHANGED locks
        \/ /\ FreeFor(x, i)
           /\ TakesLocks(x, i)
           /\ Goes(t, "resuming")
     /\ UNCHANGED <<answer, calls, execs, checkpoints, decided, freed, died>>

StartResumed(t) ==
  /\ th[t].pc = "resuming"
  /\ SetsStatus(th[t].x, "running")
  /\ Goes(t, "run")
  /\ UNCHANGED <<answer, calls, checkpoints, locks, decided, freed, died>>

(* _cancel: any execution, in any status.                                  *)
CancelExecution(t) ==
  LET x == th[t].rq.exec IN
  /\ th[t].pc = "cancel"
  /\ \/ /\ ~Exists(x)
        /\ Answers(t)
        /\ UNCHANGED <<execs, locks, freed>>
     \/ /\ Exists(x)
        /\ SetsStatus(x, "cancelled")
        /\ ReleasesLocks(t, x)
        /\ th' = [th EXCEPT ![t].pc = "insert", ![t].x = x]
  /\ UNCHANGED <<answer, calls, checkpoints, decided, died>>

ReadStatus(t) ==
  /\ th[t].pc = "status"
  /\ Answers(t)
  /\ UNCHANGED <<store, freed, died>>

-----------------------------------------------------------------------------
(* The manual homologation *)

(* evaluate_homologation of a comment, with the tree of the pull request:  *)
(* the commit is looked at only when the result is an approval.            *)
Evaluate(m, now) ==
  IF ~m.fits THEN "HOMOLOGATION_CONTEXT_MISMATCH"
  ELSE IF m.result # "APROVADO" THEN "MANUAL_HOMOLOGATION_NOT_APPROVED"
  ELSE IF ~m.commit THEN "COMMIT_MISMATCH"
  ELSE IF m.tested # now THEN "RELEVANT_TREE_CHANGED"
  ELSE "MANUAL_HOMOLOGATION_ACCEPTED"

(* The status a decision asks for, "none" when it leaves the execution.    *)
Target(m, code, status) ==
  CASE code = "MANUAL_HOMOLOGATION_ACCEPTED" /\ status # "validated" -> "validated"
    [] code = "RELEVANT_TREE_CHANGED" /\ status = "validated" -> "awaiting_manual_test"
    [] /\ code = "MANUAL_HOMOLOGATION_NOT_APPROVED"
       /\ m.result \in {"REPROVADO", "BLOQUEADO"}
       /\ status # "blocked" -> "blocked"
    [] OTHER -> "none"

(* The reconciliation reads the row of the execution and looks for a       *)
(* decision of the same comment and tree; the tree is the caller's.        *)
Reconcile(t, c, m, d) ==
  LET x == m.exec IN
  /\ th[t] = Idle
  /\ Exists(x)
  /\ calls[c] < Calls[c]
  /\ calls' = [calls EXCEPT ![c] = @ + 1]
  /\ th' = [th EXCEPT ![t] = [Idle EXCEPT !.pc = "decided", !.cm = c, !.text = {m}, !.tr = d, !.x = x,
                                          !.code = execs[x].status]]
  /\ UNCHANGED <<answer, execs, checkpoints, locks, decided, freed, died>>

ReadDecision(t) ==
  /\ th[t].pc = "decided"
  /\ IF decided[th[t].cm][th[t].tr] # "none" THEN Stops(t) ELSE Goes(t, "evaluate")
  /\ UNCHANGED <<store, freed, died>>

(* The decision is taken on the status that was read.                      *)
EvaluateComment(t) ==
  LET m == CHOOSE m \in th[t].text : TRUE
      code == Evaluate(m, th[t].tr)
      target == Target(m, code, th[t].code)
  IN /\ th[t].pc = "evaluate"
     /\ \/ /\ target = "none"
           /\ th' = [th EXCEPT ![t].pc = "decide", ![t].code = code]
           /\ UNCHANGED <<execs, locks, freed>>
        \/ /\ target # "none"
           /\ SetsStatus(th[t].x, target)
           /\ IF target = "blocked" THEN ReleasesLocks(t, th[t].x) ELSE UNCHANGED <<locks, freed>>
           /\ th' = [th EXCEPT ![t].pc = "insert", ![t].code = code]
     /\ UNCHANGED <<answer, calls, checkpoints, decided, died>>

(* persist_manual_homologation_decision: the second INSERT fails.          *)
Decide(t) ==
  LET c == th[t].cm IN
  /\ th[t].pc = "decide"
  /\ decided' = IF decided[c][th[t].tr] = "none"
                THEN [decided EXCEPT ![c][th[t].tr] = th[t].code] ELSE decided
  /\ Stops(t)
  /\ UNCHANGED <<answer, calls, execs, checkpoints, locks, freed, died>>

-----------------------------------------------------------------------------
(* The environment *)

(* The thread ends with an exception, or with its process.                 *)
Die(t) ==
  /\ th[t].pc # "idle"
  /\ died' = IF th[t].pc \in Working THEN died \cup {th[t].x} ELSE died
  /\ Stops(t)
  /\ UNCHANGED <<store, freed>>

Step(t) ==
  \/ Lookup(t) \/ Persist(t) \/ Create(t) \/ Run(t) \/ StartRepair(t) \/ Repair(t)
  \/ Finish(t) \/ Insert(t) \/ Check(t)
  \/ ReadExecution(t) \/ ReadReference(t) \/ Acquire(t) \/ StartResumed(t)
  \/ CancelExecution(t) \/ ReadStatus(t)
  \/ ReadDecision(t) \/ EvaluateComment(t) \/ Decide(t)

Next ==
  \/ \E t \in Threads :
       \/ \E e \in Events : \E rq \in Content[e] : Deliver(t, e, rq)
       \/ \E c \in Comments, d \in Trees : \E m \in Texts[c] : Reconcile(t, c, m, d)
       \/ Step(t)
       \/ Die(t)

Spec == Init /\ [][Next]_vars

-----------------------------------------------------------------------------
(* Properties *)

(* Every row and every thread is well formed, and rows refer to rows that  *)
(* exist.                                                                  *)
Pcs == {"idle", "lookup", "answer", "implement", "resume", "reference", "acquire", "cancel",
        "status", "insert", "check", "decided", "evaluate", "decide"} \cup Working
TypeOK ==
  /\ answer \in [Events -> Requests \cup {NoRequest}]
  /\ calls \in [Events \cup Comments -> Nat]
  /\ execs \in Seq([issue : Issues, status : Statuses, ev : Events])
  /\ Len(execs) <= MaxExecs
  /\ checkpoints \in Seq(DOMAIN execs)
  /\ Len(checkpoints) <= MaxCheckpoints
  /\ locks \in [LockNames -> {NoExec} \cup DOMAIN execs]
  /\ decided \in [Comments -> [Trees -> Codes]]
  /\ th \in [Threads -> [pc : Pcs, ev : Events \cup {NoEvent}, rq : Requests \cup {NoRequest},
                         cm : Comments \cup {NoEvent}, text : SUBSET Text, tr : Trees \cup {NoEvent},
                         x : {NoExec} \cup DOMAIN execs, code : Codes \cup Statuses, ck : Refs]]
  /\ freed \subseteq DOMAIN execs
  /\ died \subseteq DOMAIN execs

(* The two locks go together: they are free, or one execution holds the    *)
(* global lock and the lock of its issue, and no other lock is held.       *)
OneHolder ==
  \/ \A l \in LockNames : locks[l] = NoExec
  \/ \E x \in DOMAIN execs :
       \A l \in LockNames : locks[l] = IF l \in {"global", execs[x].issue} THEN x ELSE NoExec

(* Two executions are at work at the same time only when the locks of one  *)
(* of them were deleted under its worker, by a cancel, by a homologation   *)
(* that failed, or by a second resume of it: the locks of a working        *)
(* execution cannot be taken, only given away.                             *)
OnePilotAtATime ==
  \A t, s \in Threads :
    /\ th[t].pc \in Working
    /\ th[s].pc \in Working
    /\ th[t].x # th[s].x
    => freed \cap {th[t].x, th[s].x} # {}

(* The locks of the pilot exclude: they are held together, of well-formed  *)
(* rows, by one execution, and two executions work at once only where the  *)
(* code deletes the locks of a working one.                                *)
LocksExclude == TypeOK /\ OneHolder /\ OnePilotAtATime

(* An execution that is marked running, or that holds a lock, has a worker *)
(* that will settle it, unless one died on it: no order of resumes,        *)
(* cancels and homologations leaves the pilot occupied by nobody.          *)
Attended ==
  \A x \in DOMAIN execs \ died :
    \/ execs[x].status = "running"
    \/ \E l \in LockNames : locks[l] = x
    => \E t \in Threads : WorksOn(t, x)

(* A response is stored once, and a delivery that looks its event up after *)
(* that starts nothing: the executions an event made do not become more    *)
(* once it was answered and its other deliveries have ended.               *)
Made(e) == {x \in DOMAIN execs : execs[x].ev = e}
AnsweredEventIsDone ==
  [][\A e \in Events :
       answer[e] # NoRequest =>
         /\ answer'[e] = answer[e]
         /\ (\A t \in Threads : th[t].ev = e => th[t].pc = "lookup") =>
              \A t \in Threads : th'[t].ev = e => th'[t].pc = "lookup"]_vars

(* The specification asks for one execution per event even when the event  *)
(* is delivered twice (docs/specs/14, sections on idempotency); the code   *)
(* stores the event after the work.                                        *)
EventExecutedOnce == \A e \in Events : Cardinality(Made(e)) <= 1

(* A change of the relevant tree takes the validation back                 *)
(* (docs/agent-protocol.md): a reconciliation that finds the tree changed, *)
(* while nothing else happens, leaves the execution not validated.         *)
ChangeInvalidates ==
  [][\A t \in Threads :
       /\ ReadDecision(t) \/ Decide(t)
       /\ \E m \in th[t].text : Evaluate(m, th[t].tr) = "RELEVANT_TREE_CHANGED"
       /\ \A s \in Threads \ {t} : th[s] = Idle
       /\ th'[t] = Idle
       => execs'[th[t].x].status # "validated"]_vars
=============================================================================
