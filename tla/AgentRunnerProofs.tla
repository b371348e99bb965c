------------------------- MODULE AgentRunnerProofs -------------------------
(***************************************************************************)
(* Theorems about AgentRunner, for any number of threads, events, issues,  *)
(* executions and comments; about AgentWorkspace, for any number of runs,  *)
(* branches, worktrees and files; and about AgentTelemetry.                *)
(***************************************************************************)
EXTENDS AgentRunner, AgentWorkspace, AgentTelemetry, SequenceTheorems, TLAPS

(* What the program counter says of the rest of a thread's memory: whether *)
(* it serves a delivery or a comment, and that its execution exists.       *)
Delivery == {"lookup", "answer", "implement", "resume", "reference", "acquire",
             "cancel", "status"} \cup Working
Reconciliation == {"decided", "evaluate", "decide"}
Handled == {"reference", "acquire", "insert", "check"} \cup Reconciliation \cup Working

WellFormed(r, dom) ==
  /\ r \in [pc : Pcs, ev : Events \cup {NoEvent}, rq : Requests \cup {NoRequest},
            cm : Comments \cup {NoEvent}, text : SUBSET Text, tr : Trees \cup {NoEvent},
            x : {NoExec} \cup dom, code : Codes \cup Statuses, ck : Refs]
  /\ r.pc \in Delivery => r.ev \in Events /\ r.rq \in Requests /\ r.cm = NoEvent
  /\ r.pc \in {"implement", "resume", "cancel"} => r.rq.action = r.pc
  /\ r.pc \in Reconciliation => r.cm \in Comments /\ r.tr \in Trees /\ r.text # {}
  /\ r.pc \in {"insert", "check"} =>
       IF r.cm = NoEvent THEN r.ev \in Events /\ r.rq \in Requests
       ELSE r.cm \in Comments /\ r.tr \in Trees /\ r.text # {}
  /\ r.pc \in Delivery \cup {"insert", "check", "decide"} => r.code \in Codes
  /\ r.pc \in Handled => r.x \in dom

ThreadInv == \A t \in Threads : WellFormed(th[t], DOMAIN execs)

(* A thread at work on an execution has its locks, unless they were        *)
(* deleted under it.                                                       *)
PilotInv == \A t \in Threads :
  th[t].pc \in Working => th[t].x \in freed \/ locks["global"] = th[t].x

IInv == TypeOK /\ OneHolder /\ Attended /\ ThreadInv /\ PilotInv
-----------------------------------------------------------------------------
(* Types.                                                                  *)

(* The tables alone.                                                       *)
StoreOK ==
  /\ answer \in [Events -> Requests \cup {NoRequest}]
  /\ calls \in [Events \cup Comments -> Nat]
  /\ execs \in Seq([issue : Issues, status : Statuses, ev : Events])
  /\ Len(execs) <= MaxExecs
  /\ checkpoints \in Seq(DOMAIN execs)
  /\ Len(checkpoints) <= MaxCheckpoints
  /\ locks \in [LockNames -> {NoExec} \cup DOMAIN execs]
  /\ decided \in [Comments -> [Trees -> Codes]]
  /\ freed \subseteq DOMAIN execs
  /\ died \subseteq DOMAIN execs

LEMMA TypesOfTheStore == TypeOK => StoreOK
BY DEF TypeOK, StoreOK

LEMMA IdleIsWellFormed == \A dom : WellFormed(Idle, dom)
BY RunnerAssumption
   DEF WellFormed, Idle, Pcs, Codes, Delivery, Reconciliation, Handled, Working, Refs, NoExec

(* Executions are never deleted, so a well-formed thread remains so.       *)
LEMMA MoreExecutions ==
  ASSUME NEW r, NEW small, NEW large, small \subseteq large, WellFormed(r, small)
  PROVE  WellFormed(r, large)
BY DEF WellFormed

(* A delivery asks for one of four things.                                 *)
LEMMA RequestsAsk ==
  ASSUME NEW rq \in Requests
  PROVE  /\ rq.action \in {"implement", "resume", "cancel", "status"}
         /\ rq.action = "implement" => rq.issue \in Issues
         /\ rq.action \in {"resume", "cancel"} => rq.exec \in Execs
BY DEF Requests, Implement, Resume, Cancel, Status

(* A step of one thread.                                                   *)
LEMMA OneThreadMoves ==
  ASSUME IInv, NEW t \in Threads, NEW r, th' = [th EXCEPT ![t] = r],
         StoreOK', DOMAIN execs \subseteq DOMAIN execs', WellFormed(r, DOMAIN execs')
  PROVE  /\ TypeOK' /\ ThreadInv'
         /\ th'[t] = r
         /\ \A s \in Threads \ {t} : th'[s] = th[s]
<1>1. th'[t] = r /\ \A s \in Threads \ {t} : th'[s] = th[s]
  BY DEF IInv, TypeOK
<1>2. ASSUME NEW s \in Threads PROVE WellFormed(th'[s], DOMAIN execs')
  <2>1. CASE s = t
    BY <1>1, <2>1
  <2>2. CASE s # t
    <3>1. WellFormed(th[s], DOMAIN execs)
      BY DEF IInv, ThreadInv
    <3>2. QED BY <1>1, <2>2, <3>1, MoreExecutions
  <2>3. QED BY <2>1, <2>2
<1>3. ThreadInv'
  BY <1>2 DEF ThreadInv
<1>4. th' \in [Threads -> [pc : Pcs, ev : Events \cup {NoEvent}, rq : Requests \cup {NoRequest},
                           cm : Comments \cup {NoEvent}, text : SUBSET Text,
                           tr : Trees \cup {NoEvent}, x : {NoExec} \cup DOMAIN execs',
                           code : Codes \cup Statuses, ck : Refs]]
  <2>1. DOMAIN th' = Threads /\ th' = [s \in Threads |-> th'[s]]
    BY DEF IInv, TypeOK
  <2>2. QED BY <1>2, <2>1 DEF WellFormed
<1>5. TypeOK'
  BY <1>4 DEF TypeOK, StoreOK
<1>6. QED BY <1>1, <1>3, <1>5

(* A thread stays at what it worked on, or was not at work and is not.     *)
SameWork(t, r) ==
  /\ th[t].pc \in Working <=> r.pc \in Working
  /\ r.pc \in Working => r.x = th[t].x

(* A step that writes neither executions nor locks.                        *)
LEMMA QuietStep ==
  ASSUME IInv, NEW t \in Threads, NEW r, th' = [th EXCEPT ![t] = r],
         UNCHANGED <<execs, locks, freed, died>>, StoreOK',
         WellFormed(r, DOMAIN execs), SameWork(t, r)
  PROVE  IInv'
<1>1. /\ TypeOK' /\ ThreadInv'
      /\ th'[t] = r
      /\ \A s \in Threads \ {t} : th'[s] = th[s]
  BY OneThreadMoves
<1>2. OneHolder'
  BY DEF IInv, OneHolder
<1>3. \A s \in Threads : /\ th'[s].pc \in Working <=> th[s].pc \in Working
                         /\ th'[s].pc \in Working => th'[s].x = th[s].x
  BY <1>1 DEF SameWork
<1>4. PilotInv'
  BY <1>3 DEF IInv, PilotInv
<1>5. Attended'
  BY <1>3 DEF IInv, Attended, WorksOn
<1>6. QED BY <1>1, <1>2, <1>4, <1>5 DEF IInv

(* update_execution writes the status of one row.                          *)
LEMMA StatusIsSet ==
  ASSUME StoreOK, NEW x \in DOMAIN execs, NEW s \in Statuses, SetsStatus(x, s)
  PROVE  /\ execs' \in Seq([issue : Issues, status : Statuses, ev : Events])
         /\ Len(execs') = Len(execs) /\ DOMAIN execs' = DOMAIN execs
         /\ \A y \in DOMAIN execs : execs'[y].issue = execs[y].issue
         /\ \A y \in DOMAIN execs \ {x} : execs'[y] = execs[y]
         /\ execs'[x].status = s
<1>1. execs \in Seq([issue : Issues, status : Statuses, ev : Events])
  BY DEF StoreOK
<1>2. execs' = [execs EXCEPT ![x] = [execs[x] EXCEPT !.status = s]]
  BY DEF SetsStatus
<1>5. execs[x] \in [issue : Issues, status : Statuses, ev : Events]
  BY ZenonT(40), <1>1, LenProperties
<1>3. [execs[x] EXCEPT !.status = s] \in [issue : Issues, status : Statuses, ev : Events]
      /\ [execs[x] EXCEPT !.status = s].issue = execs[x].issue
      /\ [execs[x] EXCEPT !.status = s].status = s
  BY <1>5
<1>4. QED BY <1>1, <1>2, <1>3

(* A status that is written by a thread at work on the execution, or that  *)
(* does not say running.                                                   *)
LEMMA StatusKeeps ==
  ASSUME IInv, NEW t \in Threads, NEW r, th' = [th EXCEPT ![t] = r],
         NEW x \in DOMAIN execs, NEW s \in Statuses, SetsStatus(x, s),
         UNCHANGED <<answer, calls, checkpoints, locks, decided, freed, died>>,
         WellFormed(r, DOMAIN execs), SameWork(t, r), s = "running" => WorksOn(t, x)
  PROVE  IInv'
<1>1. StoreOK
  BY TypesOfTheStore DEF IInv
<1>2. /\ execs' \in Seq([issue : Issues, status : Statuses, ev : Events])
      /\ Len(execs') = Len(execs) /\ DOMAIN execs' = DOMAIN execs
      /\ \A y \in DOMAIN execs : execs'[y].issue = execs[y].issue
      /\ \A y \in DOMAIN execs \ {x} : execs'[y] = execs[y]
      /\ execs'[x].status = s
  BY <1>1, StatusIsSet
<1>3. StoreOK'
  BY <1>1, <1>2 DEF StoreOK
<1>4. /\ TypeOK' /\ ThreadInv'
      /\ th'[t] = r
      /\ \A q \in Threads \ {t} : th'[q] = th[q]
  BY <1>2, <1>3, OneThreadMoves
<1>5. \A q \in Threads : /\ th'[q].pc \in Working <=> th[q].pc \in Working
                         /\ th'[q].pc \in Working => th'[q].x = th[q].x
  BY <1>4 DEF SameWork
<1>6. OneHolder'
  BY <1>2 DEF IInv, OneHolder
<1>7. PilotInv'
  BY <1>5 DEF IInv, PilotInv
<1>8. Attended'
  <2>1. ASSUME NEW y \in DOMAIN execs' \ died',
               execs'[y].status = "running" \/ \E l \in LockNames : locks'[l] = y
        PROVE  \E q \in Threads : WorksOn(q, y)
    <3>1. CASE y = x /\ s = "running"
      BY <3>1
    <3>2. CASE ~(y = x /\ s = "running")
      BY <1>2, <2>1, <3>2 DEF IInv, Attended
    <3>3. QED BY <3>1, <3>2
  <2>2. \A q \in Threads, y \in DOMAIN execs : WorksOn(q, y) => WorksOn(q, y)'
    BY <1>5 DEF WorksOn
  <2>3. QED BY <1>2, <2>1, <2>2 DEF Attended
<1>9. QED BY <1>4, <1>6, <1>7, <1>8 DEF IInv

(* The release of the locks of an execution with a status that is final    *)
(* for its workers.                                                        *)
LEMMA ReleaseKeeps ==
  ASSUME IInv, NEW t \in Threads, NEW r, th' = [th EXCEPT ![t] = r],
         NEW x \in DOMAIN execs, NEW s \in Statuses \ {"running"}, SetsStatus(x, s),
         ReleasesLocks(t, x),
         UNCHANGED <<answer, calls, checkpoints, decided, died>>,
         WellFormed(r, DOMAIN execs), r.pc \notin Working,
         th[t].pc \in Working => th[t].x = x
  PROVE  IInv'
<1>1. StoreOK
  BY TypesOfTheStore DEF IInv
<1>2. /\ execs' \in Seq([issue : Issues, status : Statuses, ev : Events])
      /\ Len(execs') = Len(execs) /\ DOMAIN execs' = DOMAIN execs
      /\ \A y \in DOMAIN execs : execs'[y].issue = execs[y].issue
      /\ \A y \in DOMAIN execs \ {x} : execs'[y] = execs[y]
      /\ execs'[x].status = s
  BY <1>1, StatusIsSet
<1>3. /\ locks' = [l \in LockNames |-> IF locks[l] = x THEN NoExec ELSE locks[l]]
      /\ freed' = IF \E q \in Threads \ {t} : WorksOn(q, x) THEN freed \cup {x} ELSE freed
  BY DEF ReleasesLocks, DeletesLocks
<1>4. StoreOK'
  BY <1>1, <1>2, <1>3 DEF StoreOK
<1>5. /\ TypeOK' /\ ThreadInv'
      /\ th'[t] = r
      /\ \A q \in Threads \ {t} : th'[q] = th[q]
  BY <1>2, <1>4, OneThreadMoves
<1>6. x # NoExec /\ "global" \in LockNames
  BY <1>1 DEF StoreOK, NoExec, LockNames
<1>7. OneHolder'
  <2>1. CASE \A l \in LockNames : locks[l] = NoExec
    BY <1>3, <2>1 DEF OneHolder
  <2>2. ASSUME NEW y \in DOMAIN execs,
               \A l \in LockNames : locks[l] = IF l \in {"global", execs[y].issue} THEN y ELSE NoExec
        PROVE  OneHolder'
    <3>1. CASE y = x
      BY <1>3, <2>2, <3>1 DEF OneHolder
    <3>2. CASE y # x
      <4>1. \A l \in LockNames : locks'[l] = IF l \in {"global", execs'[y].issue} THEN y ELSE NoExec
        BY <1>2, <1>3, <1>6, <2>2, <3>2
      <4>2. QED BY <1>2, <4>1 DEF OneHolder
    <3>3. QED BY <3>1, <3>2
  <2>3. QED BY <2>1, <2>2 DEF IInv, OneHolder
<1>8. PilotInv'
  <2>1. ASSUME NEW q \in Threads, th'[q].pc \in Working
        PROVE  th'[q].x \in freed' \/ locks'["global"] = th'[q].x
    <3>1. q # t /\ th'[q] = th[q]
      BY <1>5, <2>1
    <3>2. CASE th[q].x = x
      BY <1>3, <2>1, <3>1, <3>2 DEF WorksOn
    <3>3. CASE th[q].x # x
      BY <1>3, <1>6, <2>1, <3>1, <3>3 DEF IInv, PilotInv
    <3>4. QED BY <3>2, <3>3
  <2>2. QED BY <2>1 DEF PilotInv
<1>9. Attended'
  <2>1. ASSUME NEW y \in DOMAIN execs' \ died',
               execs'[y].status = "running" \/ \E l \in LockNames : locks'[l] = y
        PROVE  \E q \in Threads : WorksOn(q, y)'
    <3>1. y # x /\ y # NoExec
      BY <1>1, <1>2, <1>3, <1>6, <2>1 DEF StoreOK, NoExec
    <3>2. execs[y].status = "running" \/ \E l \in LockNames : locks[l] = y
      BY <1>2, <1>3, <2>1, <3>1
    <3>3. PICK q \in Threads : WorksOn(q, y)
      BY <1>2, <2>1, <3>2 DEF IInv, Attended
    <3>4. q # t
      BY <3>1, <3>3 DEF WorksOn
    <3>5. QED BY <1>5, <3>3, <3>4 DEF WorksOn
  <2>2. QED BY <2>1 DEF Attended
<1>10. QED BY <1>5, <1>7, <1>8, <1>9 DEF IInv

-----------------------------------------------------------------------------
(* Steps that write neither executions nor locks.                          *)

(* The memory of a thread that only moves on.                              *)
LEMMA GoesOn ==
  ASSUME IInv, NEW t \in Threads, NEW pc \in Pcs, NEW dom, WellFormed(th[t], dom),
         pc \in Delivery => th[t].pc \in Delivery \/
                            (th[t].pc \in {"insert", "check"} /\ th[t].cm = NoEvent),
         pc \in {"implement", "resume", "cancel"} => th[t].rq.action = pc,
         pc \in Reconciliation => th[t].pc \in Reconciliation \/
                                  (th[t].pc \in {"insert", "check"} /\ th[t].cm # NoEvent),
         pc \notin {"insert", "check"},
         pc = "decide" => th[t].code \in Codes,
         pc \in Handled => th[t].x \in dom
  PROVE  WellFormed([th[t] EXCEPT !.pc = pc], dom)
BY DEF WellFormed, Delivery, Reconciliation, Handled, Working

LEMMA Begins ==
  ASSUME IInv, NEW t \in Threads, th[t] = Idle
  PROVE  th[t].pc \notin Working
BY DEF Idle, Working

LEMMA DeliverKeeps ==
  ASSUME IInv, NEW t \in Threads, NEW e \in Events, NEW rq \in Content[e], Deliver(t, e, rq)
  PROVE  IInv'
<1> DEFINE r == [Idle EXCEPT !.pc = "lookup", !.ev = e, !.rq = rq]
<1>1. rq \in Requests
  BY RunnerAssumption
<1>2. WellFormed(r, DOMAIN execs)
  <2>1. WellFormed(Idle, DOMAIN execs) /\ Idle.cm = NoEvent /\ Idle.code \in Codes
    BY IdleIsWellFormed DEF Idle, Codes
  <2>2. QED BY ZenonT(40), <1>1, <2>1 DEF WellFormed, Pcs, Delivery, Reconciliation, Handled, Working
<1>3. SameWork(t, r)
  BY DEF Deliver, SameWork, Idle, Working
<1>4. StoreOK'
  BY TypesOfTheStore DEF IInv, StoreOK, Deliver
<1>5. UNCHANGED <<execs, locks, freed, died>> /\ th' = [th EXCEPT ![t] = r]
  BY DEF Deliver
<1> HIDE DEF r
<1>6. QED BY <1>2, <1>3, <1>4, <1>5, QuietStep

LEMMA ReconcileKeeps ==
  ASSUME IInv, NEW t \in Threads, NEW c \in Comments, NEW m \in Texts[c], NEW d \in Trees,
         Reconcile(t, c, m, d)
  PROVE  IInv'
<1> DEFINE r == [Idle EXCEPT !.pc = "decided", !.cm = c, !.text = {m}, !.tr = d,
                             !.x = m.exec, !.code = execs[m.exec].status]
<1>1. m \in Text /\ m.exec \in DOMAIN execs /\ execs[m.exec].status \in Statuses
  <2>1. m \in Text /\ m.exec \in DOMAIN execs
    BY RunnerAssumption DEF Reconcile, Exists
  <2>2. execs \in Seq([issue : Issues, status : Statuses, ev : Events])
    BY DEF IInv, TypeOK
  <2>3. execs[m.exec] \in [issue : Issues, status : Statuses, ev : Events]
    BY <2>1, <2>2, LenProperties
  <2>4. QED BY <2>1, <2>3
<1>2. WellFormed(r, DOMAIN execs)
  <2>1. WellFormed(Idle, DOMAIN execs)
    BY IdleIsWellFormed
  <2>2. QED BY ZenonT(40), <1>1, <2>1 DEF WellFormed, Pcs, Delivery, Reconciliation, Handled, Working
<1>3. SameWork(t, r)
  BY DEF Reconcile, SameWork, Idle, Working
<1>4. StoreOK'
  BY TypesOfTheStore DEF IInv, StoreOK, Reconcile
<1>5. UNCHANGED <<execs, locks, freed, died>> /\ th' = [th EXCEPT ![t] = r]
  BY DEF Reconcile
<1> HIDE DEF r
<1>6. QED BY <1>2, <1>3, <1>4, <1>5, QuietStep

(* A thread that is not at work ends.                                      *)
LEMMA EndKeeps ==
  ASSUME IInv, NEW t \in Threads, Stops(t), th[t].pc \notin Working,
         UNCHANGED <<execs, locks, freed, died>>, StoreOK'
  PROVE  IInv'
<1>1. SameWork(t, Idle)
  BY DEF SameWork, Idle, Working
<1>2. QED BY <1>1, IdleIsWellFormed, QuietStep DEF Stops

(* A thread that is not at work moves on to a point where it is not.       *)
LEMMA MoveKeeps ==
  ASSUME IInv, NEW t \in Threads, NEW pc \in Pcs, Goes(t, pc), UNCHANGED <<store, freed, died>>,
         WellFormed([th[t] EXCEPT !.pc = pc], DOMAIN execs),
         th[t].pc \notin Working, pc \notin Working
  PROVE  IInv'
<1> DEFINE r == [th[t] EXCEPT !.pc = pc]
<1>1. r.pc = pc
  BY DEF IInv, TypeOK
<1>2. SameWork(t, r)
  BY <1>1 DEF SameWork
<1>3. StoreOK'
  BY TypesOfTheStore DEF IInv, StoreOK, store
<1>4. th' = [th EXCEPT ![t] = r]
  BY DEF Goes
<1> HIDE DEF r
<1>5. QED BY <1>2, <1>3, <1>4, QuietStep DEF store, r

LEMMA AnswerKeeps ==
  ASSUME IInv, NEW t \in Threads, Answers(t), UNCHANGED <<store, freed, died>>,
         th[t].pc \in Delivery \ Working
  PROVE  IInv'
<1>1. WellFormed(th[t], DOMAIN execs)
  BY DEF IInv, ThreadInv
<1>2. "answer" \in Pcs /\ "answer" \notin Working
  BY DEF Pcs, Working
<1>3. WellFormed([th[t] EXCEPT !.pc = "answer"], DOMAIN execs)
  BY <1>1, <1>2, GoesOn DEF Reconciliation, Handled, Working
<1>4. QED BY <1>2, <1>3, MoveKeeps DEF Answers

LEMMA LookupKeeps ==
  ASSUME IInv, NEW t \in Threads, Lookup(t)
  PROVE  IInv'
<1>1. WellFormed(th[t], DOMAIN execs) /\ th[t].pc = "lookup" /\ th[t].pc \notin Working
  BY DEF IInv, ThreadInv, Lookup, Working
<1>2. StoreOK' /\ UNCHANGED <<store, execs, locks, freed, died>>
  BY TypesOfTheStore DEF IInv, StoreOK, store, Lookup
<1>3. CASE Stops(t)
  BY <1>1, <1>2, <1>3, EndKeeps
<1>4. CASE Goes(t, th[t].rq.action)
  <2>1. th[t].rq \in Requests
    BY <1>1 DEF WellFormed, Delivery
  <2>2. PICK pc \in {"implement", "resume", "cancel", "status"} : th[t].rq.action = pc
    BY <2>1, RequestsAsk
  <2>3. pc \in Pcs /\ pc \notin Working
    BY DEF Pcs, Working
  <2>4. WellFormed([th[t] EXCEPT !.pc = pc], DOMAIN execs)
    BY <1>1, <2>2, <2>3, GoesOn DEF Delivery, Reconciliation, Handled, Working
  <2>5. QED BY <1>1, <1>2, <1>4, <2>2, <2>3, <2>4, MoveKeeps
<1>5. QED BY <1>3, <1>4 DEF Lookup

LEMMA PersistKeeps ==
  ASSUME IInv, NEW t \in Threads, Persist(t)
  PROVE  IInv'
<1>1. WellFormed(th[t], DOMAIN execs) /\ th[t].pc = "answer" /\ th[t].pc \notin Working
  BY DEF IInv, ThreadInv, Persist, Working
<1>2. th[t].ev \in Events /\ th[t].rq \in Requests
  BY <1>1 DEF WellFormed, Delivery
<1>3. StoreOK'
  BY <1>2, TypesOfTheStore DEF IInv, StoreOK, Persist
<1>4. QED BY <1>1, <1>3, EndKeeps DEF Persist

LEMMA RunKeeps ==
  ASSUME IInv, NEW t \in Threads, Run(t) \/ Repair(t)
  PROVE  IInv'
<1>1. WellFormed(th[t], DOMAIN execs) /\ th[t].pc \in {"run", "repairing"} /\ th[t].x \in DOMAIN execs
  BY DEF IInv, ThreadInv, Run, Repair, WellFormed, Handled, Working
<1>2. StoreOK' /\ UNCHANGED <<execs, locks, freed, died>>
  BY TypesOfTheStore DEF IInv, StoreOK, store, Run, Repair
<1>3. PICK pc \in {"finish", "failed"}, code \in {"DELIVERED", "EXECUTION_BLOCKED", th[t].code} :
        th' = [th EXCEPT ![t] = [th[t] EXCEPT !.pc = pc, !.code = code]]
  <2>1. th[t] = [th[t] EXCEPT !.code = th[t].code]
    BY <1>1 DEF WellFormed
  <2>2. [th[t] EXCEPT !.pc = "failed"] = [th[t] EXCEPT !.pc = "failed", !.code = th[t].code]
    BY <1>1 DEF WellFormed
  <2>3. QED BY ZenonT(40), <2>1, <2>2 DEF Run, Repair, Goes
<1> DEFINE r == [th[t] EXCEPT !.pc = pc, !.code = code]
<1>4. code \in Codes
  BY <1>1 DEF WellFormed, Codes, Delivery, Working
<1>5. WellFormed(r, DOMAIN execs)
  BY <1>1, <1>4 DEF WellFormed, Pcs, Delivery, Reconciliation, Handled, Working
<1>6. SameWork(t, r)
  BY <1>1 DEF SameWork, WellFormed, Working
<1> HIDE DEF r
<1>7. QED BY <1>2, <1>3, <1>5, <1>6, QuietStep DEF r

LEMMA InsertKeeps ==
  ASSUME IInv, NEW t \in Threads, Insert(t)
  PROVE  IInv'
<1>1. WellFormed(th[t], DOMAIN execs) /\ th[t].pc = "insert" /\ th[t].x \in DOMAIN execs
  BY DEF IInv, ThreadInv, Insert, WellFormed, Handled
<1> DEFINE r == [th[t] EXCEPT !.pc = "check", !.ck = Len(checkpoints) + 1]
<1>2. checkpoints \in Seq(DOMAIN execs) /\ Len(checkpoints) < MaxCheckpoints /\ MaxCheckpoints \in Nat
  BY RunnerAssumption DEF IInv, TypeOK, Insert
<1>3. Len(checkpoints) + 1 \in Refs
  BY <1>2 DEF Refs
<1>4. WellFormed(r, DOMAIN execs)
  BY <1>1, <1>3 DEF WellFormed, Pcs, Delivery, Reconciliation, Handled, Working
<1>5. SameWork(t, r)
  BY <1>1 DEF SameWork, WellFormed, Working
<1>6. StoreOK'
  <2>1. /\ Append(checkpoints, th[t].x) \in Seq(DOMAIN execs)
        /\ Len(Append(checkpoints, th[t].x)) <= MaxCheckpoints
    BY <1>1, <1>2
  <2>2. QED BY <2>1, TypesOfTheStore DEF IInv, StoreOK, Insert
<1>7. UNCHANGED <<execs, locks, freed, died>> /\ th' = [th EXCEPT ![t] = r]
  BY DEF Insert
<1> HIDE DEF r
<1>8. QED BY <1>4, <1>5, <1>6, <1>7, QuietStep

LEMMA CheckKeeps ==
  ASSUME IInv, NEW t \in Threads, Check(t)
  PROVE  IInv'
<1>1. WellFormed(th[t], DOMAIN execs) /\ th[t].pc = "check" /\ th[t].pc \notin Working
  BY DEF IInv, ThreadInv, Check, Working
<1>2. StoreOK' /\ UNCHANGED <<store, execs, locks, freed, died>>
  BY TypesOfTheStore DEF IInv, StoreOK, store, Check
<1>3. CASE Stops(t)
  BY <1>1, <1>2, <1>3, EndKeeps
<1>4. CASE Goes(t, IF th[t].cm = NoEvent THEN "answer" ELSE "decide")
  <2>1. PICK pc \in {"answer", "decide"} :
          Goes(t, pc) /\ pc = IF th[t].cm = NoEvent THEN "answer" ELSE "decide"
    BY <1>4
  <2>2. pc \in Pcs /\ pc \notin Working
    BY DEF Pcs, Working
  <2>3. th[t].code \in Codes /\ th[t].x \in DOMAIN execs
    BY <1>1 DEF WellFormed, Handled
  <2>4. WellFormed([th[t] EXCEPT !.pc = pc], DOMAIN execs)
    BY <1>1, <2>1, <2>2, <2>3, GoesOn DEF Delivery, Reconciliation, Handled, Working
  <2>5. QED BY <1>1, <1>2, <2>1, <2>2, <2>4, MoveKeeps
<1>5. QED BY <1>3, <1>4 DEF Check

LEMMA ReadExecutionKeeps ==
  ASSUME IInv, NEW t \in Threads, ReadExecution(t)
  PROVE  IInv'
<1>1. WellFormed(th[t], DOMAIN execs) /\ th[t].pc = "resume" /\ th[t].pc \notin Working
  BY DEF IInv, ThreadInv, ReadExecution, Working
<1>2. StoreOK' /\ UNCHANGED <<store, execs, locks, freed, died>>
  BY TypesOfTheStore DEF IInv, StoreOK, store, ReadExecution
<1>3. CASE Answers(t)
  BY <1>1, <1>2, <1>3, AnswerKeeps DEF Delivery
<1>4. CASE ~Answers(t)
  <2> DEFINE r == [th[t] EXCEPT !.pc = "reference", !.x = th[t].rq.exec]
  <2>1. th' = [th EXCEPT ![t] = r] /\ th[t].rq.exec \in DOMAIN execs
    BY <1>4 DEF ReadExecution, Exists
  <2>2. WellFormed(r, DOMAIN execs)
    BY <1>1, <2>1 DEF WellFormed, Pcs, Delivery, Reconciliation, Handled, Working
  <2>3. SameWork(t, r)
    BY <1>1 DEF SameWork, WellFormed, Working
  <2> HIDE DEF r
  <2>4. QED BY <1>2, <2>1, <2>2, <2>3, QuietStep
<1>5. QED BY <1>3, <1>4

LEMMA ReadReferenceKeeps ==
  ASSUME IInv, NEW t \in Threads, ReadReference(t)
  PROVE  IInv'
<1>1. /\ WellFormed(th[t], DOMAIN execs) /\ th[t].pc = "reference" /\ th[t].pc \notin Working
      /\ th[t].x \in DOMAIN execs
  BY DEF IInv, ThreadInv, ReadReference, Working, WellFormed, Handled
<1>2. UNCHANGED <<store, freed, died>>
  BY DEF ReadReference
<1>3. CASE Answers(t)
  BY <1>1, <1>2, <1>3, AnswerKeeps DEF Delivery
<1>4. CASE Goes(t, "acquire")
  <2>1. "acquire" \in Pcs /\ "acquire" \notin Working
    BY DEF Pcs, Working
  <2>2. WellFormed([th[t] EXCEPT !.pc = "acquire"], DOMAIN execs)
    BY <1>1, <2>1, GoesOn DEF Delivery, Reconciliation, Working
  <2>3. QED BY <1>1, <1>2, <1>4, <2>1, <2>2, MoveKeeps
<1>5. QED BY <1>3, <1>4 DEF ReadReference

LEMMA ReadStatusKeeps ==
  ASSUME IInv, NEW t \in Threads, ReadStatus(t)
  PROVE  IInv'
<1>1. th[t].pc \in Delivery \ Working
  BY DEF ReadStatus, Delivery, Working
<1>2. QED BY <1>1, AnswerKeeps DEF ReadStatus

LEMMA ReadDecisionKeeps ==
  ASSUME IInv, NEW t \in Threads, ReadDecision(t)
  PROVE  IInv'
<1>1. /\ WellFormed(th[t], DOMAIN execs) /\ th[t].pc = "decided" /\ th[t].pc \notin Working
      /\ th[t].x \in DOMAIN execs
  BY DEF IInv, ThreadInv, ReadDecision, Working, WellFormed, Handled, Reconciliation
<1>2. StoreOK' /\ UNCHANGED <<store, execs, locks, freed, died>>
  BY TypesOfTheStore DEF IInv, StoreOK, store, ReadDecision
<1>3. CASE Stops(t)
  BY <1>1, <1>2, <1>3, EndKeeps
<1>4. CASE Goes(t, "evaluate")
  <2>1. "evaluate" \in Pcs /\ "evaluate" \notin Working
    BY DEF Pcs, Working
  <2>2. WellFormed([th[t] EXCEPT !.pc = "evaluate"], DOMAIN execs)
    BY <1>1, <2>1, GoesOn DEF Delivery, Reconciliation, Working
  <2>3. QED BY <1>1, <1>2, <1>4, <2>1, <2>2, MoveKeeps
<1>5. QED BY <1>3, <1>4 DEF ReadDecision

LEMMA DecideKeeps ==
  ASSUME IInv, NEW t \in Threads, Decide(t)
  PROVE  IInv'
<1>1. WellFormed(th[t], DOMAIN execs) /\ th[t].pc = "decide" /\ th[t].pc \notin Working
  BY DEF IInv, ThreadInv, Decide, Working
<1>2. th[t].cm \in Comments /\ th[t].tr \in Trees /\ th[t].code \in Codes
  BY <1>1 DEF WellFormed, Reconciliation
<1>3. StoreOK'
  <2>1. decided' \in [Comments -> [Trees -> Codes]]
    BY <1>2 DEF IInv, TypeOK, Decide
  <2>2. QED BY <2>1, TypesOfTheStore DEF IInv, StoreOK, Decide
<1>4. QED BY <1>1, <1>3, EndKeeps DEF Decide

-----------------------------------------------------------------------------
(* Steps that write executions or locks.                                   *)

(* The lock of a free pilot, or of one that is occupied by x alone.        *)
LEMMA LocksOfOne ==
  ASSUME IInv, NEW x, x # NoExec, NEW i \in Issues, FreeFor(x, i) \/ FreeFor(NoExec, i),
         x \in DOMAIN execs => execs[x].issue = i
  PROVE  /\ \A l \in LockNames : locks[l] \in {NoExec, x}
         /\ \A l \in LockNames : l \notin {"global", i} => locks[l] = NoExec
<1>1. "global" \in LockNames /\ i \in LockNames
  BY DEF LockNames
<1>2. CASE \A l \in LockNames : locks[l] = NoExec
  BY <1>2
<1>3. ASSUME NEW y \in DOMAIN execs,
             \A l \in LockNames : locks[l] = IF l \in {"global", execs[y].issue} THEN y ELSE NoExec
      PROVE  /\ \A l \in LockNames : locks[l] \in {NoExec, x}
             /\ \A l \in LockNames : l \notin {"global", i} => locks[l] = NoExec
  <2>1. locks["global"] = y /\ locks["global"] \in {NoExec, x}
    BY <1>1, <1>3 DEF FreeFor
  <2>2. y # NoExec
    BY LenProperties DEF IInv, TypeOK, NoExec
  <2>3. y = x
    BY <2>1, <2>2
  <2>4. QED BY <1>3, <2>3
<1>4. QED BY <1>2, <1>3 DEF IInv, OneHolder

LEMMA CreateKeeps ==
  ASSUME IInv, NEW t \in Threads, Create(t)
  PROVE  IInv'
<1>1. /\ WellFormed(th[t], DOMAIN execs) /\ th[t].pc = "implement" /\ th[t].pc \notin Working
      /\ StoreOK
  BY TypesOfTheStore DEF IInv, ThreadInv, Create, Working
<1>2. CASE Answers(t) /\ UNCHANGED <<execs, locks>>
  <2>1. UNCHANGED <<store, freed, died>>
    BY <1>2 DEF Create, store
  <2>2. QED BY <1>1, <1>2, <2>1, AnswerKeeps DEF Delivery
<1>3. CASE ~(Answers(t) /\ UNCHANGED <<execs, locks>>)
  <2> PICK i, x : i = th[t].rq.issue /\ x = Len(execs) + 1
    OBVIOUS
  <2> DEFINE row == [issue |-> i, status |-> "running", ev |-> th[t].ev]
             r == [th[t] EXCEPT !.pc = "run", !.x = x]
  <2>1. /\ FreeFor(NoExec, i) /\ Len(execs) < MaxExecs
        /\ execs' = Append(execs, row)
        /\ locks' = [locks EXCEPT !["global"] = x, ![i] = x]
        /\ th' = [th EXCEPT ![t] = r]
        /\ UNCHANGED <<answer, calls, checkpoints, decided, freed, died>>
    BY <1>3 DEF Create, TakesLocks
  <2>2. i \in Issues /\ th[t].ev \in Events /\ row \in [issue : Issues, status : Statuses, ev : Events]
    BY <1>1, RequestsAsk DEF WellFormed, Delivery, Statuses
  <2>3. /\ execs \in Seq([issue : Issues, status : Statuses, ev : Events])
        /\ Len(execs) \in Nat /\ DOMAIN execs = 1..Len(execs) /\ MaxExecs \in Nat
    BY <1>1, LenProperties, RunnerAssumption DEF StoreOK
  <2>4. /\ execs' \in Seq([issue : Issues, status : Statuses, ev : Events])
        /\ Len(execs') = x /\ DOMAIN execs' = 1..x
        /\ execs'[x] = row /\ \A y \in DOMAIN execs : execs'[y] = execs[y]
    <3> HIDE DEF row
    <3>1. QED BY <2>1, <2>2, <2>3
  <2>5. x \notin DOMAIN execs /\ DOMAIN execs' = DOMAIN execs \cup {x} /\ x # NoExec
    BY <2>3, <2>4 DEF NoExec
  <2> HIDE DEF row
  <2>6. StoreOK'
    <3>1. checkpoints \in Seq(DOMAIN execs')
      BY <1>1, <2>5 DEF StoreOK
    <3>2. locks' \in [LockNames -> {NoExec} \cup DOMAIN execs']
      BY <1>1, <2>1, <2>5 DEF StoreOK
    <3>3. Len(execs') <= MaxExecs
      BY <2>1, <2>3, <2>4
    <3>4. QED BY <1>1, <2>1, <2>4, <2>5, <3>1, <3>2, <3>3 DEF StoreOK
  <2>7. WellFormed(r, DOMAIN execs')
    BY <1>1, <2>5 DEF WellFormed, Pcs, Delivery, Reconciliation, Handled, Working
  <2>8. r.pc = "run" /\ r.x = x
    BY <1>1 DEF WellFormed
  <2> HIDE DEF r
  <2>9. /\ TypeOK' /\ ThreadInv'
        /\ th'[t] = r
        /\ \A s \in Threads \ {t} : th'[s] = th[s]
    BY <2>1, <2>5, <2>6, <2>7, OneThreadMoves
  <2>10. \A l \in LockNames : locks[l] = NoExec
    <3>1. \A l \in LockNames : locks[l] \in {NoExec, x} /\ locks[l] \in {NoExec} \cup DOMAIN execs
      BY <1>1, <2>1, <2>2, <2>5, LocksOfOne DEF StoreOK
    <3>2. QED BY <2>5, <3>1
  <2>11. /\ "global" \in LockNames /\ i \in LockNames
         /\ \A l \in LockNames : locks'[l] = IF l \in {"global", i} THEN x ELSE NoExec
    BY <1>1, <2>1, <2>2, <2>10 DEF StoreOK, LockNames
  <2>12. OneHolder'
    BY <2>4, <2>5, <2>11 DEF OneHolder, row
  <2>13. PilotInv'
    <3>1. ASSUME NEW s \in Threads, s # t, th[s].pc \in Working
          PROVE  th[s].x \in freed
      <4>1. th[s].x \in DOMAIN execs
        BY <3>1 DEF IInv, ThreadInv, WellFormed, Handled
      <4>2. locks["global"] # th[s].x
        BY <2>3, <2>10, <2>11, <4>1 DEF NoExec
      <4>3. QED BY <3>1, <4>2 DEF IInv, PilotInv
    <3>2. ASSUME NEW s \in Threads, s # t, th'[s].pc \in Working
          PROVE  th'[s].x \in freed'
      BY <2>1, <2>9, <3>1, <3>2
    <3>3. th'[t].x = x /\ locks'["global"] = x
      BY <2>8, <2>9, <2>11
    <3>4. QED BY <3>2, <3>3 DEF PilotInv
  <2>14. Attended'
    <3>1. WorksOn(t, x)'
      BY <2>8, <2>9 DEF WorksOn, Working
    <3>2. ASSUME NEW y \in DOMAIN execs \ died, execs[y].status = "running"
          PROVE  \E s \in Threads : WorksOn(s, y)'
      <4>1. PICK s \in Threads : WorksOn(s, y)
        BY <3>2 DEF IInv, Attended
      <4>2. s # t
        BY <1>1, <4>1 DEF WorksOn
      <4>3. QED BY <2>9, <4>1, <4>2 DEF WorksOn
    <3>3. ASSUME NEW y \in DOMAIN execs' \ died', y # x,
                 execs'[y].status = "running" \/ \E l \in LockNames : locks'[l] = y
          PROVE  y \in DOMAIN execs \ died /\ execs[y].status = "running"
      <4>1. y \in DOMAIN execs \ died /\ y # NoExec /\ execs'[y] = execs[y]
        BY <2>1, <2>3, <2>4, <2>5, <3>3 DEF NoExec
      <4>2. QED BY <2>11, <3>3, <4>1
    <3>4. QED BY <3>1, <3>2, <3>3 DEF Attended
  <2>15. QED BY <2>9, <2>12, <2>13, <2>14 DEF IInv
<1>4. QED BY <1>2, <1>3

LEMMA AcquireKeeps ==
  ASSUME IInv, NEW t \in Threads, Acquire(t)
  PROVE  IInv'
<1> PICK x, i : x = th[t].x /\ i = execs[x].issue
  OBVIOUS
<1> DEFINE r == [th[t] EXCEPT !.pc = "resuming"]
<1>1. /\ WellFormed(th[t], DOMAIN execs) /\ th[t].pc = "acquire" /\ th[t].pc \notin Working
      /\ x \in DOMAIN execs /\ StoreOK
  BY TypesOfTheStore DEF IInv, ThreadInv, Acquire, WellFormed, Handled, Working
<1>2. CASE Answers(t) /\ UNCHANGED locks
  <2>1. UNCHANGED <<store, freed, died>>
    BY <1>2 DEF Acquire, store
  <2>2. QED BY <1>1, <1>2, <2>1, AnswerKeeps DEF Delivery
<1>3. CASE ~(Answers(t) /\ UNCHANGED locks)
  <2>1. /\ FreeFor(x, i)
        /\ locks' = [locks EXCEPT !["global"] = x, ![i] = x]
        /\ th' = [th EXCEPT ![t] = r]
        /\ UNCHANGED <<answer, calls, execs, checkpoints, decided, freed, died>>
    BY <1>3 DEF Acquire, TakesLocks, Goes
  <2>2. x # NoExec /\ i \in Issues
    <3>1. execs \in Seq([issue : Issues, status : Statuses, ev : Events])
      BY <1>1 DEF StoreOK
    <3>2. /\ Len(execs) \in Nat /\ DOMAIN execs = 1..Len(execs)
          /\ execs \in [1..Len(execs) -> [issue : Issues, status : Statuses, ev : Events]]
      BY <3>1, LenProperties
    <3>3. execs[x] \in [issue : Issues, status : Statuses, ev : Events]
      BY <1>1, <3>1, <3>2
    <3>4. QED BY <1>1, <3>2, <3>3 DEF NoExec
  <2>3. StoreOK'
    BY <1>1, <2>1 DEF StoreOK
  <2>4. WellFormed(r, DOMAIN execs) /\ r.pc = "resuming" /\ r.x = x
    BY <1>1 DEF WellFormed, Pcs, Delivery, Reconciliation, Handled, Working
  <2> HIDE DEF r
  <2>5. /\ TypeOK' /\ ThreadInv'
        /\ th'[t] = r
        /\ \A s \in Threads \ {t} : th'[s] = th[s]
    BY <2>1, <2>3, <2>4, OneThreadMoves
  <2>6. /\ "global" \in LockNames /\ i \in LockNames
        /\ \A l \in LockNames : locks'[l] = IF l \in {"global", i} THEN x ELSE NoExec
        /\ \A l \in LockNames : locks[l] \in {NoExec, x}
    <3>1. /\ \A l \in LockNames : locks[l] \in {NoExec, x}
          /\ \A l \in LockNames : l \notin {"global", i} => locks[l] = NoExec
      BY <2>1, <2>2, LocksOfOne
    <3>2. QED BY <1>1, <2>1, <2>2, <3>1 DEF StoreOK, LockNames
  <2>7. OneHolder'
    <3>1. x \in DOMAIN execs' /\ i = execs'[x].issue
      BY <1>1, <2>1
    <3>2. \A l \in LockNames : locks'[l] = IF l \in {"global", execs'[x].issue} THEN x ELSE NoExec
      BY <2>6, <3>1
    <3>3. QED BY <3>1, <3>2 DEF OneHolder
  <2>8. PilotInv'
    <3>1. ASSUME NEW s \in Threads, s # t, th[s].pc \in Working
          PROVE  th[s].x \in freed \/ locks'["global"] = th[s].x
      <4>1. th[s].x \in DOMAIN execs /\ th[s].x # NoExec
        BY <1>1, <3>1, LenProperties DEF IInv, ThreadInv, WellFormed, Handled, StoreOK, NoExec
      <4>2. QED BY <2>6, <3>1, <4>1 DEF IInv, PilotInv
    <3>2. ASSUME NEW s \in Threads, s # t, th'[s].pc \in Working
          PROVE  th'[s].x \in freed' \/ locks'["global"] = th'[s].x
      <4>1. th'[s] = th[s] /\ freed' = freed
        BY <2>1, <2>5, <3>2
      <4>2. QED BY <3>1, <3>2, <4>1
    <3>3. th'[t].x = x /\ locks'["global"] = x
      BY <2>4, <2>5, <2>6
    <3>4. QED BY <3>2, <3>3 DEF PilotInv
  <2>9. Attended'
    <3>1. WorksOn(t, x)'
      BY <2>4, <2>5 DEF WorksOn, Working
    <3>2. ASSUME NEW y \in DOMAIN execs \ died, execs[y].status = "running"
          PROVE  \E s \in Threads : WorksOn(s, y)'
      <4>1. PICK s \in Threads : WorksOn(s, y)
        BY <3>2 DEF IInv, Attended
      <4>2. s # t
        BY <1>1, <4>1 DEF WorksOn
      <4>3. QED BY <2>5, <4>1, <4>2 DEF WorksOn
    <3>3. ASSUME NEW y \in DOMAIN execs', y # x, \E l \in LockNames : locks'[l] = y
          PROVE  FALSE
      <4>1. y # NoExec
        BY <1>1, <2>1, LenProperties, <3>3 DEF StoreOK, NoExec
      <4>2. QED BY <2>6, <3>3, <4>1
    <3>4. QED BY <2>1, <3>1, <3>2, <3>3 DEF Attended
  <2>10. QED BY <2>5, <2>7, <2>8, <2>9 DEF IInv
<1>4. QED BY <1>2, <1>3

LEMMA RunningKeeps ==
  ASSUME IInv, NEW t \in Threads, StartRepair(t) \/ StartResumed(t)
  PROVE  IInv'
<1> DEFINE x == th[t].x
<1>1. /\ WellFormed(th[t], DOMAIN execs) /\ th[t].pc \in {"failed", "resuming"}
      /\ x \in DOMAIN execs
  BY DEF IInv, ThreadInv, StartRepair, StartResumed, WellFormed, Handled, Working
<1>2. PICK pc \in {"repairing", "run"} : th' = [th EXCEPT ![t] = [th[t] EXCEPT !.pc = pc]]
  BY DEF StartRepair, StartResumed, Goes
<1> DEFINE r == [th[t] EXCEPT !.pc = pc]
<1>3. WellFormed(r, DOMAIN execs) /\ SameWork(t, r) /\ WorksOn(t, x)
  BY <1>1 DEF WellFormed, SameWork, WorksOn, Pcs, Delivery, Reconciliation, Handled, Working
<1>4. /\ SetsStatus(x, "running") /\ "running" \in Statuses
      /\ UNCHANGED <<answer, calls, checkpoints, locks, decided, freed, died>>
  BY DEF StartRepair, StartResumed, Statuses
<1> HIDE DEF r, x
<1>5. QED BY <1>1, <1>2, <1>3, <1>4, StatusKeeps DEF r

LEMMA FinishKeeps ==
  ASSUME IInv, NEW t \in Threads, Finish(t)
  PROVE  IInv'
<1> DEFINE x == th[t].x
           r == [th[t] EXCEPT !.pc = "insert", !.code = "none"]
<1>1. /\ WellFormed(th[t], DOMAIN execs) /\ th[t].pc = "finish" /\ x \in DOMAIN execs
  BY DEF IInv, ThreadInv, Finish, WellFormed, Handled, Working
<1>2. WellFormed(r, DOMAIN execs) /\ r.pc \notin Working
  BY <1>1 DEF WellFormed, Pcs, Codes, Delivery, Reconciliation, Handled, Working
<1>3. PICK s \in Statuses \ {"running"} : SetsStatus(x, s)
  BY DEF Finish, Statuses
<1>4. /\ ReleasesLocks(t, x) /\ th' = [th EXCEPT ![t] = r]
      /\ UNCHANGED <<answer, calls, checkpoints, decided, died>>
  BY DEF Finish
<1>5. th[t].pc \in Working => th[t].x = x
  OBVIOUS
<1> HIDE DEF r, x
<1>6. QED BY <1>1, <1>2, <1>3, <1>4, <1>5, ReleaseKeeps

LEMMA CancelExecutionKeeps ==
  ASSUME IInv, NEW t \in Threads, CancelExecution(t)
  PROVE  IInv'
<1>1. WellFormed(th[t], DOMAIN execs) /\ th[t].pc = "cancel" /\ th[t].pc \notin Working
  BY DEF IInv, ThreadInv, CancelExecution, Working
<1>2. CASE Answers(t) /\ UNCHANGED <<execs, locks, freed>>
  <2>1. UNCHANGED <<store, freed, died>>
    BY <1>2 DEF CancelExecution, store
  <2>2. QED BY <1>1, <1>2, <2>1, AnswerKeeps DEF Delivery
<1>3. CASE ~(Answers(t) /\ UNCHANGED <<execs, locks, freed>>)
  <2> DEFINE x == th[t].rq.exec
             r == [th[t] EXCEPT !.pc = "insert", !.x = x]
  <2>1. /\ x \in DOMAIN execs /\ SetsStatus(x, "cancelled") /\ ReleasesLocks(t, x)
        /\ th' = [th EXCEPT ![t] = r]
        /\ UNCHANGED <<answer, calls, checkpoints, decided, died>>
    BY <1>3 DEF CancelExecution, Exists
  <2>2. th[t].code \in Codes
    BY <1>1 DEF WellFormed, Delivery
  <2>3. WellFormed(r, DOMAIN execs) /\ r.pc \notin Working
    BY <1>1, <2>1, <2>2 DEF WellFormed, Pcs, Delivery, Reconciliation, Handled, Working
  <2>4. "cancelled" \in Statuses \ {"running"}
    BY DEF Statuses
  <2> HIDE DEF r, x
  <2>5. QED BY <1>1, <2>1, <2>3, <2>4, ReleaseKeeps
<1>4. QED BY <1>2, <1>3

(* What the evaluation of a comment may write.                             *)
LEMMA Evaluations ==
  ASSUME NEW m \in Text, NEW tree, NEW status
  PROVE  /\ Evaluate(m, tree) \in Codes
         /\ \A code : Target(m, code, status) \in {"none"} \cup (Statuses \ {"running", "cancelled"})
<1>1. Evaluate(m, tree) \in Codes
  BY DEF Evaluate, Codes, Text
<1>2. ASSUME NEW code
      PROVE  Target(m, code, status) \in {"none"} \cup (Statuses \ {"running", "cancelled"})
  BY DEF Target, Statuses
<1>3. QED BY <1>1, <1>2

LEMMA EvaluateCommentKeeps ==
  ASSUME IInv, NEW t \in Threads, EvaluateComment(t)
  PROVE  IInv'
<1> DEFINE m == CHOOSE m \in th[t].text : TRUE
           code == Evaluate(m, th[t].tr)
           target == Target(m, code, th[t].code)
           x == th[t].x
<1>1. /\ WellFormed(th[t], DOMAIN execs) /\ th[t].pc = "evaluate" /\ th[t].pc \notin Working
      /\ x \in DOMAIN execs
  BY DEF IInv, ThreadInv, EvaluateComment, WellFormed, Handled, Reconciliation, Working
<1>2. m \in Text
  BY <1>1 DEF WellFormed, Reconciliation
<1>3. code \in Codes /\ target \in {"none"} \cup (Statuses \ {"running", "cancelled"})
  <2> HIDE DEF m
  <2>1. QED BY <1>2, Evaluations
<1>4. \/ /\ target = "none"
         /\ th' = [th EXCEPT ![t].pc = "decide", ![t].code = code]
         /\ UNCHANGED <<execs, locks, freed>>
      \/ /\ target # "none"
         /\ SetsStatus(x, target)
         /\ IF target = "blocked" THEN ReleasesLocks(t, x) ELSE UNCHANGED <<locks, freed>>
         /\ th' = [th EXCEPT ![t].pc = "insert", ![t].code = code]
  BY DEF EvaluateComment
<1>5. UNCHANGED <<answer, calls, checkpoints, decided, died>>
  BY DEF EvaluateComment
<1> HIDE DEF m, code, target, x
<1>6. ASSUME NEW pc \in {"decide", "insert"}
      PROVE  LET r == [th[t] EXCEPT !.pc = pc, !.code = code] IN
             WellFormed(r, DOMAIN execs) /\ r.pc \notin Working /\ SameWork(t, r)
  BY <1>1, <1>3, RunnerAssumption
     DEF WellFormed, SameWork, Pcs, Delivery, Reconciliation, Handled, Working, x
<1>7. CASE target = "none"
  <2> DEFINE r == [th[t] EXCEPT !.pc = "decide", !.code = code]
  <2>1. th' = [th EXCEPT ![t] = r] /\ UNCHANGED <<execs, locks, freed, died>>
    BY <1>4, <1>5, <1>7
  <2>2. StoreOK'
    BY <1>5, <2>1, TypesOfTheStore DEF IInv, StoreOK
  <2>3. WellFormed(r, DOMAIN execs) /\ SameWork(t, r)
    BY <1>6
  <2> HIDE DEF r
  <2>4. QED BY <2>1, <2>2, <2>3, QuietStep
<1>8. CASE target # "none"
  <2> DEFINE r == [th[t] EXCEPT !.pc = "insert", !.code = code]
  <2>1. th' = [th EXCEPT ![t] = r] /\ SetsStatus(x, target) /\ target \in Statuses \ {"running"}
    BY <1>3, <1>4, <1>8
  <2>2. WellFormed(r, DOMAIN execs) /\ SameWork(t, r) /\ r.pc \notin Working
    BY <1>6
  <2> HIDE DEF r
  <2>3. CASE target = "blocked"
    <3>1. ReleasesLocks(t, x)
      BY <1>4, <1>8, <2>3
    <3>2. QED BY <1>1, <1>5, <2>1, <2>2, <3>1, ReleaseKeeps
  <2>4. CASE target # "blocked"
    <3>1. UNCHANGED <<locks, freed>>
      BY <1>4, <1>8, <2>4
    <3>2. QED BY <1>1, <1>5, <2>1, <2>2, <3>1, StatusKeeps
  <2>5. QED BY <2>3, <2>4
<1>9. QED BY <1>7, <1>8

LEMMA DieKeeps ==
  ASSUME IInv, NEW t \in Threads, Die(t)
  PROVE  IInv'
<1>1. /\ WellFormed(th[t], DOMAIN execs) /\ StoreOK
      /\ th' = [th EXCEPT ![t] = Idle] /\ UNCHANGED <<store, freed>>
  BY TypesOfTheStore DEF IInv, ThreadInv, Die, Stops
<1>2. CASE th[t].pc \notin Working
  <2>1. UNCHANGED <<execs, locks, freed, died>>
    BY <1>2 DEF Die, store
  <2>2. StoreOK'
    BY <1>1, <2>1 DEF StoreOK, store
  <2>3. QED BY <1>1, <1>2, <2>1, <2>2, EndKeeps DEF Stops
<1>3. CASE th[t].pc \in Working
  <2>1. died' = died \cup {th[t].x} /\ th[t].x \in DOMAIN execs
    BY <1>1, <1>3 DEF Die, WellFormed, Handled
  <2>2. StoreOK' /\ UNCHANGED <<execs, locks, freed>>
    BY <1>1, <2>1 DEF StoreOK, store
  <2>3. /\ TypeOK' /\ ThreadInv'
        /\ th'[t] = Idle
        /\ \A s \in Threads \ {t} : th'[s] = th[s]
    BY <1>1, <2>2, IdleIsWellFormed, OneThreadMoves
  <2>4. Idle.pc \notin Working
    BY DEF Idle, Working
  <2>5. OneHolder'
    BY <2>2 DEF IInv, OneHolder
  <2>6. PilotInv'
    BY <2>2, <2>3, <2>4 DEF IInv, PilotInv
  <2>7. Attended'
    <3>1. ASSUME NEW y \in DOMAIN execs \ died', NEW s \in Threads, WorksOn(s, y)
          PROVE  WorksOn(s, y)'
      <4>1. s # t
        BY <2>1, <3>1 DEF WorksOn
      <4>2. QED BY <2>3, <3>1, <4>1 DEF WorksOn
    <3>2. QED BY <2>1, <2>2, <3>1 DEF IInv, Attended
  <2>8. QED BY <2>3, <2>5, <2>6, <2>7 DEF IInv
<1>4. QED BY <1>2, <1>3

-----------------------------------------------------------------------------
(* The invariant.                                                          *)

LEMMA Initially == Init => IInv
<1> SUFFICES ASSUME Init PROVE IInv
  OBVIOUS
<1> USE DEF Init
<1>1. DOMAIN execs = {} /\ DOMAIN checkpoints = {}
  OBVIOUS
<1>2. \A t \in Threads : th[t] = Idle /\ WellFormed(th[t], DOMAIN execs)
  BY IdleIsWellFormed
<1>3. ThreadInv
  BY <1>2 DEF ThreadInv
<1>4. TypeOK
  <2>1. th \in [Threads -> [pc : Pcs, ev : Events \cup {NoEvent}, rq : Requests \cup {NoRequest},
                           cm : Comments \cup {NoEvent}, text : SUBSET Text,
                           tr : Trees \cup {NoEvent}, x : {NoExec} \cup DOMAIN execs,
                           code : Codes \cup Statuses, ck : Refs]]
    BY <1>2 DEF WellFormed
  <2>2. answer \in [Events -> Requests \cup {NoRequest}] /\ calls \in [Events \cup Comments -> Nat]
    OBVIOUS
  <2>3. /\ execs \in Seq([issue : Issues, status : Statuses, ev : Events]) /\ Len(execs) <= MaxExecs
        /\ checkpoints \in Seq(DOMAIN execs) /\ Len(checkpoints) <= MaxCheckpoints
    BY RunnerAssumption
  <2>4. /\ locks \in [LockNames -> {NoExec} \cup DOMAIN execs]
        /\ decided \in [Comments -> [Trees -> Codes]]
        /\ freed \subseteq DOMAIN execs /\ died \subseteq DOMAIN execs
    BY DEF Codes
  <2>5. QED BY <2>1, <2>2, <2>3, <2>4 DEF TypeOK
<1>5. OneHolder
  BY DEF OneHolder
<1>6. Attended
  BY <1>1 DEF Attended
<1>7. PilotInv
  BY <1>2 DEF PilotInv, Idle, Working
<1>8. QED BY <1>3, <1>4, <1>5, <1>6, <1>7 DEF IInv

LEMMA StepKeeps ==
  ASSUME IInv, NEW t \in Threads, Step(t)
  PROVE  IInv'
BY LookupKeeps, PersistKeeps, CreateKeeps, RunKeeps, RunningKeeps, FinishKeeps, InsertKeeps,
   CheckKeeps, ReadExecutionKeeps, ReadReferenceKeeps, AcquireKeeps, CancelExecutionKeeps,
   ReadStatusKeeps, ReadDecisionKeeps, EvaluateCommentKeeps, DecideKeeps
   DEF Step

THEOREM Invariance == Spec => []IInv
<1>1. ASSUME IInv, [Next]_vars
      PROVE  IInv'
  <2>1. CASE UNCHANGED vars
    BY <1>1, <2>1 DEF vars, store, IInv, TypeOK, OneHolder, Attended, WorksOn, ThreadInv, PilotInv
  <2>2. ASSUME NEW t \in Threads, Step(t) \/ Die(t)
        PROVE  IInv'
    BY <1>1, <2>2, StepKeeps, DieKeeps
  <2>3. QED BY <1>1, <2>1, <2>2, DeliverKeeps, ReconcileKeeps DEF Next
<1>2. QED BY <1>1, Initially, PTL DEF Spec

(* One execution at most holds the locks, both of them, and two executions *)
(* work at once only where the locks of one were deleted under its worker. *)
THEOREM PilotsExclude == Spec => []LocksExclude
<1>1. ASSUME IInv PROVE OnePilotAtATime
  <2>1. ASSUME NEW t \in Threads, NEW s \in Threads,
               th[t].pc \in Working, th[s].pc \in Working, th[t].x # th[s].x
        PROVE  freed \cap {th[t].x, th[s].x} # {}
    BY <1>1, <2>1 DEF IInv, PilotInv
  <2>2. QED BY <2>1 DEF OnePilotAtATime
<1>2. IInv => LocksExclude
  BY <1>1 DEF IInv, LocksExclude
<1>3. QED BY <1>2, Invariance, PTL

(* Whatever is marked running or locked is being worked on, unless its     *)
(* worker died.                                                            *)
THEOREM PilotsAreAttended == Spec => []Attended
<1>1. IInv => Attended
  BY DEF IInv
<1>2. QED BY <1>1, Invariance, PTL

(* A step leaves a thread with the event of its delivery, or with none;    *)
(* from the lookup of a stored response it leaves nothing.                 *)
LEMMA DeliveriesEnd ==
  ASSUME IInv, NEW t \in Threads, NEW e \in Events,
         Step(t) \/ Die(t) \/ (\E c \in Comments, d \in Trees : \E m \in Texts[c] : Reconcile(t, c, m, d)),
         answer[e] # NoRequest, th[t].ev = e => th[t].pc = "lookup"
  PROVE  th'[t].ev # e
<1>1. Idle.ev # e
  BY RunnerAssumption DEF Idle
<1>2. t \in DOMAIN th /\ WellFormed(th[t], DOMAIN execs)
  BY DEF IInv, TypeOK, ThreadInv
<1>3. CASE Stops(t)
  BY <1>1, <1>2, <1>3 DEF Stops
<1>4. CASE \E c \in Comments, d \in Trees : \E m \in Texts[c] : Reconcile(t, c, m, d)
  <2>1. PICK c \in Comments, d \in Trees : \E m \in Texts[c] : Reconcile(t, c, m, d)
    BY <1>4
  <2>2. PICK m \in Texts[c] : Reconcile(t, c, m, d)
    BY <2>1
  <2>3. th'[t].ev = NoEvent
    BY <1>2, <2>2 DEF Reconcile, Idle
  <2>4. QED BY <2>3, RunnerAssumption
<1>5. CASE Step(t) /\ ~Stops(t)
  <2>1. th[t].ev # e
    BY <1>5 DEF Step, Lookup, Persist, Create, Run, StartRepair, Repair, Finish, Insert, Check,
       ReadExecution, ReadReference, Acquire, StartResumed, CancelExecution, ReadStatus,
       ReadDecision, EvaluateComment, Decide
  <2>2. th'[t].ev = th[t].ev
    BY SMTT(30), <1>2, <1>5 DEF Step, Lookup, Persist, Create, Run, StartRepair, Repair, Finish, Insert, Check,
       ReadExecution, ReadReference, Acquire, StartResumed, CancelExecution, ReadStatus,
       ReadDecision, EvaluateComment, Decide, Goes, Answers, WellFormed
  <2>3. QED BY <2>1, <2>2
<1>6. QED BY <1>3, <1>4, <1>5 DEF Die

(* Only the thread that moves changes.                                     *)
LEMMA OthersWait ==
  ASSUME IInv, NEW t \in Threads,
         \/ Step(t) \/ Die(t)
         \/ \E e \in Events : \E rq \in Content[e] : Deliver(t, e, rq)
         \/ \E c \in Comments, d \in Trees : \E m \in Texts[c] : Reconcile(t, c, m, d)
  PROVE  \A s \in Threads \ {t} : th'[s] = th[s]
BY DEF IInv, TypeOK, Step, Die, Deliver, Reconcile, Lookup, Persist, Create, Run, StartRepair,
   Repair, Finish, Insert, Check, ReadExecution, ReadReference, Acquire, StartResumed,
   CancelExecution, ReadStatus, ReadDecision, EvaluateComment, Decide, Goes, Answers, Stops

(* Responses are only added.                                               *)
LEMMA ResponsesStay ==
  ASSUME IInv, [Next]_vars, NEW e \in Events, answer[e] # NoRequest
  PROVE  answer'[e] = answer[e]
<1>1. CASE UNCHANGED answer
  BY <1>1
<1>2. CASE \E t \in Threads : Persist(t)
  BY <1>2 DEF IInv, TypeOK, Persist
<1>3. ASSUME NEW t \in Threads, Step(t), ~Persist(t)
      PROVE  UNCHANGED answer
  <2>1. CASE Lookup(t) \/ Create(t) \/ Run(t) \/ StartRepair(t) \/ Repair(t) \/ Finish(t)
    BY <2>1 DEF store, Lookup, Create, Run, StartRepair, Repair, Finish
  <2>2. CASE Insert(t) \/ Check(t) \/ ReadExecution(t) \/ ReadReference(t) \/ Acquire(t)
    BY <2>2 DEF store, Insert, Check, ReadExecution, ReadReference, Acquire
  <2>3. CASE StartResumed(t) \/ CancelExecution(t) \/ ReadStatus(t)
    BY <2>3 DEF store, StartResumed, CancelExecution, ReadStatus
  <2>4. CASE ReadDecision(t) \/ EvaluateComment(t) \/ Decide(t)
    BY <2>4 DEF store, ReadDecision, EvaluateComment, Decide
  <2>5. QED BY <1>3, <2>1, <2>2, <2>3, <2>4 DEF Step
<1>4. ASSUME NEW t \in Threads, NEW c \in Events, NEW rq \in Content[c], Deliver(t, c, rq)
      PROVE  UNCHANGED answer
  BY <1>4 DEF Deliver, store
<1>5. ASSUME NEW t \in Threads, NEW c \in Comments, NEW d \in Trees, NEW m \in Texts[c],
             Reconcile(t, c, m, d)
      PROVE  UNCHANGED answer
  BY <1>5 DEF Reconcile
<1>6. ASSUME NEW t \in Threads, Die(t) PROVE UNCHANGED answer
  BY <1>6 DEF Die, store
<1>7. CASE UNCHANGED vars
  BY <1>7 DEF vars, store
<1>8. ASSUME Next
      PROVE  UNCHANGED answer \/ \E t \in Threads : Persist(t)
  <2>1. PICK t \in Threads :
          \/ \E c \in Events : \E rq \in Content[c] : Deliver(t, c, rq)
          \/ \E c \in Comments, d \in Trees : \E m \in Texts[c] : Reconcile(t, c, m, d)
          \/ Step(t) \/ Die(t)
    BY <1>8 DEF Next
  <2>2. CASE \E c \in Events : \E rq \in Content[c] : Deliver(t, c, rq)
    BY <1>4, <2>2
  <2>3. CASE \E c \in Comments, d \in Trees : \E m \in Texts[c] : Reconcile(t, c, m, d)
    BY <1>5, <2>3
  <2>4. CASE Step(t) \/ Die(t)
    BY <1>3, <1>6, <2>4
  <2>5. QED BY <2>1, <2>2, <2>3, <2>4
<1>9. QED BY <1>1, <1>2, <1>7, <1>8

(* A response never changes, and once it is stored the deliveries of its   *)
(* event that have not looked it up start nothing.                         *)
THEOREM AnsweredEventsAreDone == Spec => AnsweredEventIsDone
<1>1. ASSUME IInv, Next, NEW e \in Events, answer[e] # NoRequest
      PROVE  /\ answer'[e] = answer[e]
             /\ (\A t \in Threads : th[t].ev = e => th[t].pc = "lookup") =>
                  \A t \in Threads : th'[t].ev = e => th'[t].pc = "lookup"
  <2>1. answer'[e] = answer[e]
    BY <1>1, ResponsesStay
  <2>2. ASSUME \A t \in Threads : th[t].ev = e => th[t].pc = "lookup",
               NEW t \in Threads, th'[t].ev = e
        PROVE  th'[t].pc = "lookup"
    <3>1. PICK s \in Threads :
            \/ Step(s) \/ Die(s)
            \/ \E f \in Events : \E rq \in Content[f] : Deliver(s, f, rq)
            \/ \E c \in Comments, d \in Trees : \E m \in Texts[c] : Reconcile(s, c, m, d)
      BY <1>1 DEF Next
    <3>2. CASE s # t
      <4>1. th'[t] = th[t]
        BY <1>1, <3>1, <3>2, OthersWait
      <4>2. QED BY <2>2, <4>1
    <3>3. CASE s = t /\ \E f \in Events : \E rq \in Content[f] : Deliver(s, f, rq)
      <4>1. t \in DOMAIN th
        BY <1>1 DEF IInv, TypeOK
      <4>2. QED BY ZenonT(40), <3>3, <4>1 DEF Deliver, Idle
    <3>4. CASE s = t /\ ~\E f \in Events : \E rq \in Content[f] : Deliver(s, f, rq)
      BY <1>1, <2>2, <3>1, <3>4, DeliveriesEnd
    <3>5. QED BY <3>2, <3>3, <3>4
  <2>3. QED BY <2>1, <2>2
<1>2. IInv /\ [Next]_vars =>
        [\A e \in Events :
           answer[e] # NoRequest =>
             /\ answer'[e] = answer[e]
             /\ (\A t \in Threads : th[t].ev = e => th[t].pc = "lookup") =>
                  \A t \in Threads : th'[t].ev = e => th'[t].pc = "lookup"]_vars
  BY <1>1
<1>3. QED BY <1>2, Invariance, PTL DEF Spec, AnsweredEventIsDone
-----------------------------------------------------------------------------
(* The worktrees of AgentWorkspace.                                        *)

WorkSteps == {"rest", "branch", "worktree", "mutate", "status", "add", "commit", "head", "push",
              "draft"}
ChangeSet == { c \in [files : SUBSET Files, old : SUBSET Files] :
                 c.old \subseteq c.files /\ (c.files # {} => c.old # c.files) }
TreeSet == [branch : Branches, dirty : SUBSET Files, index : ChangeSet]
Trees1(w) == \A u, v \in worktree[w] : u = v
InScope(b) == Allowed \cup slipped[b]

WorkspaceShape ==
  /\ branch \in [Branches -> SUBSET ChangeSet]
  /\ remote \in [Branches -> SUBSET Files]
  /\ worktree \in [Worktrees -> SUBSET TreeSet]
  /\ draft \in [Branches -> SUBSET Files]
  /\ publisher \in [Publishers -> [pc : WorkSteps, files : SUBSET Files]]
  /\ slipped \in [Branches -> SUBSET Files]

(* A worktree is of the branch of its runs, and a status hides nothing of  *)
(* it but what slipped; the remote has what was committed, drafts what was *)
(* pushed.  Between the status and the commit of a run all of the index is *)
(* allowed or slipped.                                                     *)
TreeInv(r) == \A v \in worktree[RefOf[r]] :
  v.branch = BranchOf[r] /\ v.index.old \subseteq InScope(BranchOf[r])
BranchInv(b) ==
  Commits(b) \subseteq InScope(b) /\ remote[b] \subseteq Commits(b) /\ draft[b] \subseteq remote[b]
RunInv(r) ==
  /\ publisher[r].pc \in {"add", "commit"} =>
       \A v \in worktree[RefOf[r]] : v.index.files \subseteq InScope(BranchOf[r])
  /\ publisher[r].pc = "add" => publisher[r].files \subseteq Allowed
  /\ publisher[r].pc = "push" => publisher[r].files \subseteq Commits(BranchOf[r])
  /\ publisher[r].pc = "draft" => publisher[r].files \subseteq remote[BranchOf[r]]
WorkspaceInv ==
  /\ WorkspaceShape
  /\ \A w \in Worktrees : Trees1(w)
  /\ \A b \in Branches : BranchInv(b)
  /\ \A r \in Publishers : TreeInv(r) /\ RunInv(r)

LEMMA OfRuns == \A r \in Publishers : RefOf[r] \in Worktrees /\ BranchOf[r] \in Branches
BY DEF Worktrees, Branches

(* Not every file of a change is hidden: a hidden one has a shown one of   *)
(* its own beside it.                                                      *)
LEMMA ChangesAre ==
  ASSUME NEW F \in SUBSET Files, NEW c \in Changes(F)
  PROVE  c \in ChangeSet /\ c.files = F
<1>1. PICK old \in SUBSET F : /\ c = [files |-> F, old |-> old]
                              /\ \E new \in [old -> F \ old] : TRUE
  BY DEF Changes
<1>2. ASSUME F # {}, old = F PROVE FALSE
  <2>1. PICK new \in [old -> F \ old] : TRUE
    BY <1>1
  <2>2. PICK f \in F : TRUE
    BY <1>2
  <2>3. new[f] \in F \ old
    BY <1>2, <2>1, <2>2
  <2> QED BY <1>2, <2>3
<1> QED BY <1>1, <1>2 DEF ChangeSet

LEMMA UnchangedIs == Unchanged \in ChangeSet /\ Unchanged.files = {} /\ Unchanged.old = {}
BY DEF Unchanged, ChangeSet

LEMMA WorkspaceStarts == WorkspaceInit => WorkspaceInv
<1> SUFFICES ASSUME WorkspaceInit PROVE WorkspaceInv
  OBVIOUS
<1>1. /\ \A b \in Branches : branch[b] = {} /\ remote[b] = {} /\ draft[b] = {}
      /\ \A w \in Worktrees : worktree[w] = {}
      /\ \A r \in Publishers : publisher[r] = NotPublishing
  BY DEF WorkspaceInit, None
<1>2. WorkspaceShape
  BY DEF WorkspaceInit, WorkspaceShape, WorkSteps, None, NotPublishing
<1>3. \A b \in Branches : BranchInv(b)
  BY <1>1 DEF BranchInv, Commits, Touched
<1>4. \A r \in Publishers : TreeInv(r) /\ RunInv(r)
  BY <1>1, OfRuns DEF TreeInv, RunInv, NotPublishing
<1> QED BY <1>1, <1>2, <1>3, <1>4 DEF WorkspaceInv, Trees1

(* A worktree that is there is the one of its execution's branch.          *)
LEMMA OneTree ==
  ASSUME WorkspaceInv, NEW r \in Publishers, HasTree(r)
  PROVE  /\ worktree[RefOf[r]] = {Tree(r)}
         /\ Tree(r) \in TreeSet
         /\ Tree(r).branch = BranchOf[r]
         /\ Tree(r).index.old \subseteq InScope(BranchOf[r])
         /\ publisher[r].pc \in {"add", "commit"} => Index(r) \subseteq InScope(BranchOf[r])
<1>1. Tree(r) \in worktree[RefOf[r]]
  BY DEF HasTree, Tree, None
<1>2. worktree[RefOf[r]] = {Tree(r)}
  BY <1>1, OfRuns DEF WorkspaceInv, Trees1
<1>3. Tree(r) \in TreeSet
  BY <1>1, OfRuns DEF WorkspaceInv, WorkspaceShape
<1> QED BY <1>1, <1>2, <1>3 DEF WorkspaceInv, TreeInv, RunInv, Index

(* A step that leaves the repositories alone.                              *)
LEMMA QuietRun ==
  ASSUME WorkspaceInv, UNCHANGED <<branch, remote, worktree, draft, slipped>>,
         NEW r \in Publishers, NEW p \in [pc : WorkSteps, files : SUBSET Files],
         publisher' = [publisher EXCEPT ![r] = p],
         p.pc \in {"add", "commit"} =>
           \A v \in worktree[RefOf[r]] : v.index.files \subseteq InScope(BranchOf[r]),
         p.pc = "add" => p.files \subseteq Allowed,
         p.pc = "push" => p.files \subseteq Commits(BranchOf[r]),
         p.pc = "draft" => p.files \subseteq remote[BranchOf[r]]
  PROVE  WorkspaceInv' /\ WorkIsKept
<1>1. WorkspaceShape'
  BY DEF WorkspaceInv, WorkspaceShape
<1>2. \A w \in Worktrees : Trees1(w)'
  BY DEF WorkspaceInv, Trees1
<1>3. \A b \in Branches : InScope(b)' = InScope(b) /\ Commits(b)' = Commits(b)
  BY DEF InScope, Commits
<1>4. \A b \in Branches : BranchInv(b)'
  BY <1>3 DEF WorkspaceInv, BranchInv
<1>5. ASSUME NEW s \in Publishers PROVE TreeInv(s)' /\ RunInv(s)'
  <2>1. TreeInv(s)'
    BY <1>3, OfRuns DEF WorkspaceInv, TreeInv
  <2>2. publisher'[s] = IF s = r THEN p ELSE publisher[s]
    BY DEF WorkspaceInv, WorkspaceShape
  <2> QED BY <1>3, <2>1, <2>2, OfRuns DEF WorkspaceInv, RunInv
<1> QED BY <1>1, <1>2, <1>4, <1>5 DEF WorkspaceInv, WorkIsKept

LEMMA QuietGitStep ==
  ASSUME WorkspaceInv, UNCHANGED <<branch, remote, worktree, draft, slipped>>,
         NEW r \in Publishers,
         Returns(r) \/ \E pc \in {"branch", "worktree", "mutate", "status"} : Proceeds(r, pc)
  PROVE  WorkspaceInv' /\ WorkIsKept
<1>1. CASE Returns(r)
  BY <1>1, QuietRun DEF Returns, NotPublishing, WorkSteps
<1>2. CASE \E pc \in {"branch", "worktree", "mutate", "status"} : Proceeds(r, pc)
  <2>1. PICK pc \in {"branch", "worktree", "mutate", "status"} : Proceeds(r, pc)
    BY <1>2
  <2> DEFINE p == [publisher[r] EXCEPT !.pc = pc]
  <2>2. p \in [pc : WorkSteps, files : SUBSET Files] /\ p.pc = pc
    BY DEF WorkspaceInv, WorkspaceShape, WorkSteps
  <2>3. publisher' = [publisher EXCEPT ![r] = p]
    BY <2>1 DEF Proceeds
  <2> HIDE DEF p
  <2> QED BY <2>2, <2>3, QuietRun
<1> QED BY <1>1, <1>2

(* A step on the worktree of a run, which then is v: its branch and what   *)
(* slipped only grow, what it loses is committed, and a run that is past   *)
(* its status finds nothing in the index that is neither allowed nor       *)
(* slipped.                                                                *)
LEMMA TreeMoves ==
  ASSUME WorkspaceInv, NEW r \in Publishers, NEW v \in TreeSet,
         UNCHANGED <<remote, draft>>,
         worktree' = [worktree EXCEPT ![RefOf[r]] = {v}],
         branch' \in [Branches -> SUBSET ChangeSet],
         slipped' \in [Branches -> SUBSET Files],
         publisher' \in [Publishers -> [pc : WorkSteps, files : SUBSET Files]],
         v.branch = BranchOf[r],
         v.index.old \subseteq InScope(BranchOf[r])',
         PastStatus(RefOf[r]) => v.index.files \subseteq InScope(BranchOf[r])',
         \A b \in Branches : /\ Commits(b) \subseteq Commits(b)' /\ slipped[b] \subseteq slipped'[b]
                             /\ Commits(b)' \subseteq InScope(b)',
         \A s \in Publishers :
           \/ publisher'[s] = publisher[s]
           \/ publisher'[s].pc \notin {"add", "commit", "push", "draft"}
           \/ s = r /\ publisher[r].pc = "add" /\ publisher'[s].pc = "commit",
         HasTree(r) => Work(Tree(r)) \subseteq Work(v) \cup Commits(BranchOf[r])'
  PROVE  WorkspaceInv' /\ WorkIsKept
<1>1. WorkspaceShape'
  BY OfRuns DEF WorkspaceInv, WorkspaceShape
<1>2. /\ worktree'[RefOf[r]] = {v}
      /\ \A w \in Worktrees \ {RefOf[r]} : worktree'[w] = worktree[w]
  BY OfRuns DEF WorkspaceInv, WorkspaceShape
<1>3. \A w \in Worktrees : Trees1(w)'
  BY <1>2, OfRuns DEF WorkspaceInv, Trees1
<1>4. \A b \in Branches : InScope(b) \subseteq InScope(b)'
  BY DEF InScope
<1>5. \A b \in Branches : BranchInv(b)'
  BY DEF WorkspaceInv, BranchInv
<1>6. ASSUME NEW s \in Publishers PROVE TreeInv(s)' /\ RunInv(s)'
  <2>1. BranchOf[s] \in Branches /\ RefOf[s] \in Worktrees
    BY OfRuns
  <2>2. TreeInv(s)'
    <3>1. CASE RefOf[s] = RefOf[r]
      BY <1>2, <3>1, WorkspaceAssumption DEF TreeInv
    <3>2. CASE RefOf[s] # RefOf[r]
      BY <1>2, <1>4, <2>1, <3>2 DEF WorkspaceInv, TreeInv
    <3> QED BY <3>1, <3>2
  <2>3. CASE publisher'[s] = publisher[s]
    <3>1. publisher[s].pc \in {"add", "commit"} =>
            \A u \in worktree'[RefOf[s]] : u.index.files \subseteq InScope(BranchOf[s])'
      <4>1. CASE RefOf[s] = RefOf[r]
        BY <1>2, <4>1, WorkspaceAssumption DEF PastStatus
      <4>2. CASE RefOf[s] # RefOf[r]
        BY <1>2, <1>4, <2>1, <4>2 DEF WorkspaceInv, RunInv
      <4> QED BY <4>1, <4>2
    <3> QED BY <2>1, <2>2, <2>3, <3>1 DEF WorkspaceInv, RunInv
  <2>4. CASE publisher'[s].pc \notin {"add", "commit", "push", "draft"}
    BY <2>2, <2>4 DEF RunInv
  <2>5. CASE s = r /\ publisher[r].pc = "add" /\ publisher'[s].pc = "commit"
    <3>1. PastStatus(RefOf[r])
      BY <2>5 DEF PastStatus
    <3> QED BY <1>2, <2>2, <2>5, <3>1 DEF RunInv
  <2> QED BY <2>3, <2>4, <2>5
<1>7. WorkIsKept
  <2> SUFFICES ASSUME NEW w \in Worktrees, NEW x \in worktree[w], NEW f \in Work(x)
               PROVE  \/ \E u \in worktree'[w] : f \in Work(u)
                      \/ f \in Touched(branch'[x.branch])
    BY DEF WorkIsKept
  <2>1. CASE w # RefOf[r]
    BY <1>2, <2>1
  <2>2. CASE w = RefOf[r]
    <3>1. HasTree(r)
      BY <2>2 DEF HasTree, None
    <3>2. x = Tree(r) /\ x.branch = BranchOf[r]
      BY <2>2, <3>1, OneTree
    <3>3. f \in Work(v) \/ f \in Touched(branch'[BranchOf[r]])
      BY <3>1, <3>2 DEF Commits
    <3> QED BY <1>2, <2>2, <3>2, <3>3
  <2> QED BY <2>1, <2>2
<1> QED BY <1>1, <1>3, <1>5, <1>6, <1>7 DEF WorkspaceInv

LEMMA EnsureWorktreeKeeps ==
  ASSUME WorkspaceInv, NEW r \in Publishers, EnsureWorktree(r)
  PROVE  WorkspaceInv' /\ WorkIsKept
<1> DEFINE b == BranchOf[r]
           v == [branch |-> b, dirty |-> {}, index |-> Unchanged]
<1>1. CASE UNCHANGED <<branch, worktree>>
  BY <1>1, QuietGitStep DEF EnsureWorktree
<1>2. CASE ~UNCHANGED <<branch, worktree>>
  <2>1. /\ ~HasTree(r) /\ branch[b] = {} /\ UNCHANGED <<remote, draft, slipped>>
        /\ branch' = [branch EXCEPT ![b] = {Unchanged}]
        /\ worktree' = [worktree EXCEPT ![RefOf[r]] = {v}]
        /\ publisher' = [publisher EXCEPT ![r].pc = "mutate"]
    BY <1>2 DEF EnsureWorktree, Proceeds, None
  <2>2. v \in TreeSet /\ v.branch = b /\ v.index = Unchanged
    BY OfRuns, UnchangedIs DEF TreeSet
  <2>3. branch' \in [Branches -> SUBSET ChangeSet]
    BY <2>1, UnchangedIs DEF WorkspaceInv, WorkspaceShape
  <2>4. \A c \in Branches : Commits(c)' = Commits(c) /\ InScope(c)' = InScope(c)
    BY <2>1, UnchangedIs DEF WorkspaceInv, WorkspaceShape, Commits, Touched, InScope
  <2>5. \A s \in Publishers : publisher'[s] = publisher[s] \/ publisher'[s].pc = "mutate"
    BY <2>1 DEF WorkspaceInv, WorkspaceShape
  <2>6. publisher' \in [Publishers -> [pc : WorkSteps, files : SUBSET Files]]
    BY <2>1 DEF WorkspaceInv, WorkspaceShape, WorkSteps
  <2>7. slipped' \in [Branches -> SUBSET Files]
    BY <2>1 DEF WorkspaceInv, WorkspaceShape
  <2> HIDE DEF v
  <2>8. \A c \in Branches : /\ Commits(c) \subseteq Commits(c)' /\ slipped[c] \subseteq slipped'[c]
                            /\ Commits(c)' \subseteq InScope(c)'
    BY <2>1, <2>4 DEF WorkspaceInv, BranchInv
  <2>9. v.index.old \subseteq InScope(b)' /\ v.index.files \subseteq InScope(b)'
    BY <2>2, UnchangedIs
  <2>10. UNCHANGED <<remote, draft>>
    BY <2>1
  <2> QED BY <2>1, <2>2, <2>3, <2>5, <2>6, <2>7, <2>8, <2>9, <2>10, TreeMoves
<1> QED BY <1>1, <1>2

(* Past the status of a run all of the index is allowed or slipped.        *)
LEMMA IndexPastStatus ==
  ASSUME WorkspaceInv, NEW r \in Publishers, HasTree(r), PastStatus(RefOf[r])
  PROVE  Index(r) \subseteq InScope(BranchOf[r])
<1>1. PICK s \in Publishers : RefOf[s] = RefOf[r] /\ publisher[s].pc \in {"add", "commit"}
  BY DEF PastStatus
<1>2. HasTree(s) /\ BranchOf[s] = BranchOf[r] /\ Index(s) = Index(r)
  BY <1>1, WorkspaceAssumption DEF HasTree, Index, Tree
<1> QED BY <1>1, <1>2, OneTree

LEMMA EditKeeps ==
  ASSUME WorkspaceInv, NEW r \in Publishers, Edit(r)
  PROVE  WorkspaceInv' /\ WorkIsKept
<1>1. PICK f \in Files :
        worktree' = [worktree EXCEPT ![RefOf[r]] = {[Tree(r) EXCEPT !.dirty = @ \cup {f}]}]
  BY DEF Edit
<1> DEFINE v == [Tree(r) EXCEPT !.dirty = @ \cup {f}]
<1>2. /\ HasTree(r) /\ UNCHANGED <<branch, remote, draft, publisher, slipped>>
      /\ worktree' = [worktree EXCEPT ![RefOf[r]] = {v}]
  BY <1>1 DEF Edit
<1>3. /\ v \in TreeSet /\ v.branch = BranchOf[r] /\ v.index = Tree(r).index
      /\ Work(Tree(r)) \subseteq Work(v)
  BY <1>2, OneTree DEF TreeSet, Work
<1> HIDE DEF v
<1>4. \A b \in Branches : Commits(b)' = Commits(b) /\ InScope(b)' = InScope(b)
  BY <1>2 DEF Commits, InScope
<1>5. /\ v.index.old \subseteq InScope(BranchOf[r])'
      /\ PastStatus(RefOf[r]) => v.index.files \subseteq InScope(BranchOf[r])'
  BY <1>2, <1>3, <1>4, OneTree, IndexPastStatus, OfRuns DEF Index
<1>6. \A b \in Branches : /\ Commits(b) \subseteq Commits(b)' /\ slipped[b] \subseteq slipped'[b]
                          /\ Commits(b)' \subseteq InScope(b)'
  BY <1>2, <1>4 DEF WorkspaceInv, BranchInv
<1>7. /\ branch' \in [Branches -> SUBSET ChangeSet] /\ slipped' \in [Branches -> SUBSET Files]
      /\ publisher' \in [Publishers -> [pc : WorkSteps, files : SUBSET Files]]
  BY <1>2 DEF WorkspaceInv, WorkspaceShape
<1>8. UNCHANGED <<remote, draft>> /\ \A s \in Publishers : publisher'[s] = publisher[s]
  BY <1>2
<1>9. HasTree(r) => Work(Tree(r)) \subseteq Work(v) \cup Commits(BranchOf[r])'
  BY <1>3
<1> QED BY <1>2, <1>3, <1>5, <1>6, <1>7, <1>8, <1>9, TreeMoves

(* Edited files of which all, or none past a status, are allowed or        *)
(* slipped enter the index.                                                *)
LEMMA IndexGrows ==
  ASSUME WorkspaceInv, NEW r \in Publishers, HasTree(r), UNCHANGED <<branch, remote, draft>>,
         NEW F \in SUBSET Tree(r).dirty, NEW c \in Changes(Index(r) \cup F), ToIndex(r, F, c),
         slipped' \in [Branches -> SUBSET Files],
         \A b \in Branches : slipped[b] \subseteq slipped'[b],
         c.old \subseteq InScope(BranchOf[r])',
         PastStatus(RefOf[r]) => F \subseteq InScope(BranchOf[r])',
         publisher' \in [Publishers -> [pc : WorkSteps, files : SUBSET Files]],
         \A s \in Publishers :
           \/ publisher'[s] = publisher[s]
           \/ s = r /\ publisher[r].pc = "add" /\ publisher'[s].pc = "commit"
  PROVE  WorkspaceInv' /\ WorkIsKept
<1> DEFINE v == [Tree(r) EXCEPT !.dirty = @ \ F, !.index = c]
<1>1. Tree(r) \in TreeSet /\ Tree(r).branch = BranchOf[r]
  BY OneTree
<1>2. c \in ChangeSet /\ c.files = Index(r) \cup F
  <2>1. Index(r) \cup F \in SUBSET Files
    BY <1>1 DEF TreeSet, ChangeSet, Index
  <2> QED BY <2>1, ChangesAre
<1>3. /\ v \in TreeSet /\ v.branch = BranchOf[r] /\ v.index = c
      /\ Work(Tree(r)) \subseteq Work(v)
  BY <1>1, <1>2 DEF TreeSet, Work, Index
<1>4. worktree' = [worktree EXCEPT ![RefOf[r]] = {v}]
  BY DEF ToIndex
<1> HIDE DEF v
<1>5. \A b \in Branches : Commits(b)' = Commits(b) /\ InScope(b) \subseteq InScope(b)'
  BY DEF Commits, InScope
<1>6. PastStatus(RefOf[r]) => v.index.files \subseteq InScope(BranchOf[r])'
  BY <1>2, <1>3, <1>5, IndexPastStatus, OfRuns
<1>7. \A b \in Branches : Commits(b) \subseteq InScope(b)
  BY DEF WorkspaceInv, BranchInv
<1>8. branch' \in [Branches -> SUBSET ChangeSet]
  BY DEF WorkspaceInv, WorkspaceShape
<1> QED BY <1>3, <1>4, <1>5, <1>6, <1>7, <1>8, TreeMoves

LEMMA StageKeeps ==
  ASSUME WorkspaceInv, NEW r \in Publishers, Stage(r)
  PROVE  WorkspaceInv' /\ WorkIsKept
<1> DEFINE b == BranchOf[r]
<1>1. PICK F \in SUBSET Tree(r).dirty : \E c \in Changes(Index(r) \cup F) :
        ToIndex(r, F, c) /\ Slip(r, c.old \cup IF PastStatus(RefOf[r]) THEN F ELSE {})
  BY DEF Stage
<1>2. PICK c \in Changes(Index(r) \cup F) :
        ToIndex(r, F, c) /\ Slip(r, c.old \cup IF PastStatus(RefOf[r]) THEN F ELSE {})
  BY <1>1
<1> DEFINE G == c.old \cup IF PastStatus(RefOf[r]) THEN F ELSE {}
<1>3. HasTree(r) /\ UNCHANGED <<branch, remote, draft, publisher>>
  BY DEF Stage
<1>4. F \subseteq Files /\ c.old \subseteq Files
  <2>1. Tree(r) \in TreeSet
    BY <1>3, OneTree
  <2>2. Index(r) \cup F \in SUBSET Files /\ F \subseteq Files
    BY <2>1 DEF TreeSet, ChangeSet, Index
  <2> QED BY <2>2, ChangesAre DEF ChangeSet
<1>5. G \subseteq Files /\ c.old \subseteq G /\ (PastStatus(RefOf[r]) => F \subseteq G)
  BY <1>4
<1>6. slipped' = [slipped EXCEPT ![b] = @ \cup (G \ Allowed)]
  BY <1>2 DEF Slip
<1> HIDE DEF G
<1>7. slipped' \in [Branches -> SUBSET Files] /\ \A a \in Branches : slipped[a] \subseteq slipped'[a]
  BY <1>5, <1>6, OfRuns DEF WorkspaceInv, WorkspaceShape
<1>8. G \subseteq InScope(b)'
  BY <1>6, OfRuns DEF WorkspaceInv, WorkspaceShape, InScope
<1>9. publisher' \in [Publishers -> [pc : WorkSteps, files : SUBSET Files]]
  BY <1>3 DEF WorkspaceInv, WorkspaceShape
<1> QED BY <1>2, <1>3, <1>5, <1>7, <1>8, <1>9, IndexGrows

LEMMA AddKeeps ==
  ASSUME WorkspaceInv, NEW r \in Publishers, Add(r)
  PROVE  WorkspaceInv' /\ WorkIsKept
<1> DEFINE F == publisher[r].files \cap Tree(r).dirty
<1>1. PICK c \in Changes(Index(r) \cup F) : ToIndex(r, F, c)
  BY DEF Add
<1>2. /\ HasTree(r) /\ publisher[r].pc = "add" /\ UNCHANGED <<branch, remote, draft, slipped>>
      /\ publisher' = [publisher EXCEPT ![r].pc = "commit"]
  BY DEF Add, Proceeds
<1>3. F \subseteq Tree(r).dirty /\ F \subseteq Allowed
  BY <1>2 DEF WorkspaceInv, RunInv
<1> HIDE DEF F
<1>4. InScope(BranchOf[r])' = InScope(BranchOf[r])
  BY <1>2 DEF InScope
<1>5. Index(r) \subseteq InScope(BranchOf[r]) /\ Tree(r) \in TreeSet
  BY <1>2, OneTree
<1>6. Index(r) \cup F \in SUBSET Files
  BY <1>3, <1>5 DEF TreeSet, ChangeSet, Index
<1>7. c.old \subseteq InScope(BranchOf[r])' /\ F \subseteq InScope(BranchOf[r])'
  <2>1. c.old \subseteq Index(r) \cup F
    BY <1>6, ChangesAre DEF ChangeSet
  <2> QED BY <2>1, <1>3, <1>4, <1>5 DEF InScope
<1>8. /\ slipped' \in [Branches -> SUBSET Files]
      /\ publisher' \in [Publishers -> [pc : WorkSteps, files : SUBSET Files]]
      /\ \A s \in Publishers : publisher'[s] = publisher[s] \/ (s = r /\ publisher'[s].pc = "commit")
  BY <1>2 DEF WorkspaceInv, WorkspaceShape, WorkSteps
<1> QED BY <1>1, <1>2, <1>3, <1>7, <1>8, IndexGrows

(* The index of a run, allowed or slipped, becomes a commit.               *)
LEMMA BranchGrows ==
  ASSUME WorkspaceInv, NEW r \in Publishers, HasTree(r), ToBranch(r), UNCHANGED <<remote, draft>>,
         slipped' \in [Branches -> SUBSET Files],
         \A b \in Branches : slipped[b] \subseteq slipped'[b],
         Index(r) \subseteq InScope(BranchOf[r])',
         publisher' \in [Publishers -> [pc : WorkSteps, files : SUBSET Files]],
         \A s \in Publishers :
           publisher'[s] = publisher[s] \/ publisher'[s].pc \notin {"add", "commit", "push", "draft"}
  PROVE  WorkspaceInv' /\ WorkIsKept
<1> DEFINE b == BranchOf[r]
           v == [Tree(r) EXCEPT !.dirty = @ \ {}, !.index = Unchanged]
<1>1. Tree(r) \in TreeSet /\ Tree(r).branch = b /\ b \in Branches
  BY OneTree, OfRuns
<1>2. PICK c \in Changes(Commits(b) \cup Index(r)) : branch' = [branch EXCEPT ![b] = {c}]
  BY <1>1 DEF ToBranch
<1>3. c \in ChangeSet /\ c.files = Commits(b) \cup Index(r)
  <2>1. Commits(b) \cup Index(r) \in SUBSET Files
    BY <1>1 DEF WorkspaceInv, WorkspaceShape, TreeSet, ChangeSet, Index, Commits, Touched
  <2> QED BY <2>1, ChangesAre
<1>4. branch' \in [Branches -> SUBSET ChangeSet]
  BY <1>2, <1>3 DEF WorkspaceInv, WorkspaceShape
<1>5. branch'[b] = {c} /\ \A a \in Branches \ {b} : branch'[a] = branch[a]
  BY <1>1, <1>2 DEF WorkspaceInv, WorkspaceShape
<1>6. Commits(b)' = Commits(b) \cup Index(r) /\ \A a \in Branches \ {b} : Commits(a)' = Commits(a)
  <2>1. Touched({c}) = c.files
    BY DEF Touched
  <2>2. Commits(b)' = Touched({c})
    BY <1>5 DEF Commits, Touched
  <2> QED BY <1>3, <1>5, <2>1, <2>2 DEF Commits, Touched
<1>7. \A a \in Branches : InScope(a) \subseteq InScope(a)' /\ Commits(a) \subseteq InScope(a)
  BY DEF InScope, WorkspaceInv, BranchInv
<1>8. worktree' = [worktree EXCEPT ![RefOf[r]] = {v}]
  BY DEF ToBranch, ToIndex
<1>9. /\ v \in TreeSet /\ v.branch = b /\ v.index = Unchanged
      /\ Work(Tree(r)) \subseteq Work(v) \cup Index(r)
  BY <1>1, UnchangedIs DEF TreeSet, Work, Index
<1> HIDE DEF v
<1>10. \A a \in Branches : /\ Commits(a) \subseteq Commits(a)' /\ slipped[a] \subseteq slipped'[a]
                           /\ Commits(a)' \subseteq InScope(a)'
  BY <1>6, <1>7
<1>11. v.index.old \subseteq InScope(b)' /\ v.index.files \subseteq InScope(b)'
  BY <1>9, UnchangedIs
<1>12. Work(Tree(r)) \subseteq Work(v) \cup Commits(b)'
  BY <1>6, <1>9
<1> QED BY <1>4, <1>8, <1>9, <1>10, <1>11, <1>12, TreeMoves

LEMMA AgentCommitsKeeps ==
  ASSUME WorkspaceInv, NEW r \in Publishers, AgentCommits(r)
  PROVE  WorkspaceInv' /\ WorkIsKept
<1>1. /\ HasTree(r) /\ ToBranch(r) /\ UNCHANGED <<remote, draft, publisher>>
      /\ slipped' = [slipped EXCEPT ![BranchOf[r]] = @ \cup (Index(r) \ Allowed)]
  BY DEF AgentCommits, Slip
<1>2. Index(r) \subseteq Files
  BY <1>1, OneTree DEF TreeSet, ChangeSet, Index
<1> DEFINE I == Index(r)
<1> HIDE DEF I
<1>3. slipped' = [slipped EXCEPT ![BranchOf[r]] = @ \cup (I \ Allowed)] /\ I \subseteq Files
  BY <1>1, <1>2 DEF I
<1>4. /\ slipped' \in [Branches -> SUBSET Files]
      /\ \A b \in Branches : slipped[b] \subseteq slipped'[b]
      /\ I \subseteq InScope(BranchOf[r])'
  BY <1>3, OfRuns DEF WorkspaceInv, WorkspaceShape, InScope
<1>5. publisher' \in [Publishers -> [pc : WorkSteps, files : SUBSET Files]]
  BY <1>1 DEF WorkspaceInv, WorkspaceShape
<1> QED BY <1>1, <1>4, <1>5, BranchGrows DEF I

LEMMA CommitKeeps ==
  ASSUME WorkspaceInv, NEW r \in Publishers, Commit(r)
  PROVE  WorkspaceInv' /\ WorkIsKept
<1>1. CASE Index(r) = {}
  BY <1>1, QuietGitStep DEF Commit
<1>2. CASE Index(r) # {}
  <2>1. /\ HasTree(r) /\ publisher[r].pc = "commit" /\ ToBranch(r)
        /\ UNCHANGED <<remote, draft, slipped>>
        /\ publisher' = [publisher EXCEPT ![r].pc = "head"]
    BY <1>2 DEF Commit, Proceeds
  <2>2. Index(r) \subseteq InScope(BranchOf[r])'
    BY <2>1, OneTree DEF InScope
  <2>3. /\ slipped' \in [Branches -> SUBSET Files]
        /\ publisher' \in [Publishers -> [pc : WorkSteps, files : SUBSET Files]]
        /\ \A s \in Publishers : publisher'[s] = publisher[s] \/ publisher'[s].pc = "head"
    BY <2>1 DEF WorkspaceInv, WorkspaceShape, WorkSteps
  <2> QED BY <2>1, <2>2, <2>3, BranchGrows
<1> QED BY <1>1, <1>2

(* What a run has seen by its status is allowed, and so is all of the      *)
(* index that has not slipped, for the status hides only what slipped.     *)
LEMMA CheckScopeKeeps ==
  ASSUME WorkspaceInv, NEW r \in Publishers, CheckScope(r)
  PROVE  WorkspaceInv' /\ WorkIsKept
<1> DEFINE p == [pc |-> "add", files |-> ChangedFiles(Tree(r))]
<1>1. CASE Returns(r)
  BY <1>1, QuietGitStep DEF CheckScope
<1>2. CASE ~Returns(r)
  <2>1. /\ HasTree(r) /\ publisher' = [publisher EXCEPT ![r] = p]
        /\ UNCHANGED <<branch, remote, worktree, draft, slipped>>
        /\ ChangedFiles(Tree(r)) \subseteq Allowed
    BY <1>2 DEF CheckScope, Knows
  <2>2. /\ Tree(r) \in TreeSet /\ Tree(r).index.old \subseteq InScope(BranchOf[r])
        /\ worktree[RefOf[r]] = {Tree(r)}
    BY <2>1, OneTree
  <2>3. Index(r) \ Tree(r).index.old \subseteq ChangedFiles(Tree(r)) /\ ChangedFiles(Tree(r)) \subseteq Files
    BY <2>2 DEF ChangedFiles, ShownIn, Index, TreeSet, ChangeSet
  <2>4. \A v \in worktree[RefOf[r]] : v.index.files \subseteq InScope(BranchOf[r])
    BY <2>1, <2>2, <2>3 DEF Index, InScope
  <2>5. /\ p \in [pc : WorkSteps, files : SUBSET Files]
        /\ p.pc = "add" /\ p.files \subseteq Allowed
    BY <2>1, <2>3 DEF WorkSteps
  <2> HIDE DEF p
  <2> QED BY <2>1, <2>4, <2>5, QuietRun
<1> QED BY <1>1, <1>2

LEMMA ReadHeadKeeps ==
  ASSUME WorkspaceInv, NEW r \in Publishers, ReadHead(r)
  PROVE  WorkspaceInv' /\ WorkIsKept
<1> DEFINE p == [pc |-> "push", files |-> Commits(BranchOf[r])]
<1>1. Commits(BranchOf[r]) \subseteq Files
  BY OfRuns DEF WorkspaceInv, WorkspaceShape, ChangeSet, Commits, Touched
<1>2. /\ p \in [pc : WorkSteps, files : SUBSET Files]
      /\ p.pc = "push" /\ p.files \subseteq Commits(BranchOf[r])
  BY <1>1 DEF WorkSteps
<1>3. /\ publisher' = [publisher EXCEPT ![r] = p]
      /\ UNCHANGED <<branch, remote, worktree, draft, slipped>>
  BY DEF ReadHead, Knows
<1> HIDE DEF p
<1> QED BY <1>2, <1>3, QuietRun

(* Remote and drafts grow to what is committed and pushed.                 *)
LEMMA RemoteMoves ==
  ASSUME WorkspaceInv, UNCHANGED <<branch, worktree, slipped>>,
         remote' \in [Branches -> SUBSET Files], draft' \in [Branches -> SUBSET Files],
         publisher' \in [Publishers -> [pc : WorkSteps, files : SUBSET Files]],
         \A b \in Branches : /\ remote[b] \subseteq remote'[b] /\ remote'[b] \subseteq Commits(b)
                             /\ draft'[b] \subseteq remote'[b],
         \A s \in Publishers :
           \/ publisher'[s] = publisher[s]
           \/ publisher'[s].pc = "rest"
           \/ publisher'[s].pc = "draft" /\ publisher'[s].files \subseteq remote'[BranchOf[s]]
  PROVE  WorkspaceInv' /\ WorkIsKept
<1>1. WorkspaceShape'
  BY DEF WorkspaceInv, WorkspaceShape
<1>2. \A w \in Worktrees : Trees1(w)'
  BY DEF WorkspaceInv, Trees1
<1>3. \A b \in Branches : InScope(b)' = InScope(b) /\ Commits(b)' = Commits(b)
  BY DEF InScope, Commits
<1>4. \A b \in Branches : BranchInv(b)'
  BY <1>3 DEF WorkspaceInv, BranchInv
<1>5. ASSUME NEW s \in Publishers PROVE TreeInv(s)' /\ RunInv(s)'
  <2>1. TreeInv(s)'
    BY <1>3, OfRuns DEF WorkspaceInv, TreeInv
  <2> QED BY <1>3, <2>1, OfRuns DEF WorkspaceInv, RunInv
<1> QED BY <1>1, <1>2, <1>4, <1>5 DEF WorkspaceInv, WorkIsKept

LEMMA PushKeeps ==
  ASSUME WorkspaceInv, NEW r \in Publishers, Push(r)
  PROVE  WorkspaceInv' /\ WorkIsKept
<1> DEFINE b == BranchOf[r]
<1>1. CASE Returns(r) /\ UNCHANGED remote
  BY <1>1, QuietGitStep DEF Push
<1>2. CASE ~(Returns(r) /\ UNCHANGED remote)
  <2>1. /\ remote' = [remote EXCEPT ![b] = Commits(b)] /\ publisher[r].pc = "push"
        /\ publisher' = [publisher EXCEPT ![r].pc = "draft"]
        /\ UNCHANGED <<branch, worktree, draft, slipped>>
    BY <1>2 DEF Push, Proceeds
  <2>2. b \in Branches /\ Commits(b) \subseteq Files
    BY OfRuns DEF WorkspaceInv, WorkspaceShape, ChangeSet, Commits, Touched
  <2>3. remote'[b] = Commits(b) /\ \A a \in Branches \ {b} : remote'[a] = remote[a]
    BY <2>1, <2>2 DEF WorkspaceInv, WorkspaceShape
  <2>4. remote' \in [Branches -> SUBSET Files] /\ draft' \in [Branches -> SUBSET Files]
    BY <2>1, <2>2 DEF WorkspaceInv, WorkspaceShape
  <2>5. /\ publisher' \in [Publishers -> [pc : WorkSteps, files : SUBSET Files]]
        /\ \A s \in Publishers : s # r => publisher'[s] = publisher[s]
        /\ publisher'[r].pc = "draft" /\ publisher'[r].files = publisher[r].files
    BY <2>1 DEF WorkspaceInv, WorkspaceShape, WorkSteps
  <2>6. publisher[r].files \subseteq Commits(b)
    BY <2>1 DEF WorkspaceInv, RunInv
  <2>7. \A a \in Branches : /\ remote[a] \subseteq remote'[a] /\ remote'[a] \subseteq Commits(a)
                            /\ draft'[a] \subseteq remote'[a]
    BY <2>1, <2>3 DEF WorkspaceInv, BranchInv
  <2> QED BY <2>1, <2>3, <2>4, <2>5, <2>6, <2>7, RemoteMoves
<1> QED BY <1>1, <1>2

LEMMA CreateDraftKeeps ==
  ASSUME WorkspaceInv, NEW r \in Publishers, CreateDraft(r)
  PROVE  WorkspaceInv' /\ WorkIsKept
<1> DEFINE b == BranchOf[r]
<1>1. /\ publisher[r].pc = "draft" /\ draft' = [draft EXCEPT ![b] = publisher[r].files]
      /\ publisher' = [publisher EXCEPT ![r] = NotPublishing]
      /\ UNCHANGED <<branch, remote, worktree, slipped>>
  BY DEF CreateDraft, Returns
<1>2. publisher[r].files \subseteq Files /\ publisher[r].files \subseteq remote[b]
  BY <1>1 DEF WorkspaceInv, WorkspaceShape, RunInv
<1>3. /\ remote' \in [Branches -> SUBSET Files] /\ draft' \in [Branches -> SUBSET Files]
      /\ \A a \in Branches : draft'[a] \in {draft[a]} \cup (IF a = b THEN {publisher[r].files} ELSE {})
  BY <1>1, <1>2, OfRuns DEF WorkspaceInv, WorkspaceShape
<1>4. /\ publisher' \in [Publishers -> [pc : WorkSteps, files : SUBSET Files]]
      /\ \A s \in Publishers : publisher'[s] = publisher[s] \/ publisher'[s].pc = "rest"
  BY <1>1 DEF WorkspaceInv, WorkspaceShape, WorkSteps, NotPublishing
<1>5. \A a \in Branches : /\ remote[a] \subseteq remote'[a] /\ remote'[a] \subseteq Commits(a)
                          /\ draft'[a] \subseteq remote'[a]
  BY <1>1, <1>2, <1>3 DEF WorkspaceInv, BranchInv
<1> QED BY <1>1, <1>3, <1>4, <1>5, RemoteMoves

(* A status that shows nothing hides nothing.                              *)
LEMMA CleanupKeeps ==
  ASSUME WorkspaceInv, NEW w \in Worktrees, Cleanup(w)
  PROVE  WorkspaceInv' /\ WorkIsKept
<1>1. /\ \A v \in worktree[w] : ChangedFiles(v) = {}
      /\ worktree' = [worktree EXCEPT ![w] = {}]
      /\ UNCHANGED <<branch, remote, draft, publisher, slipped>>
  BY DEF Cleanup, None
<1>2. /\ worktree'[w] = {} /\ \A x \in Worktrees \ {w} : worktree'[x] = worktree[x]
      /\ WorkspaceShape'
  BY <1>1 DEF WorkspaceInv, WorkspaceShape
<1>3. ASSUME NEW v \in worktree[w] PROVE Work(v) = {}
  <2>1. v.index \in ChangeSet
    BY DEF WorkspaceInv, WorkspaceShape, TreeSet
  <2>2. v.dirty = {} /\ ShownIn({v.index}) = {}
    BY <1>1 DEF ChangedFiles
  <2>3. ShownIn({v.index}) = v.index.files \ v.index.old
    BY DEF ShownIn
  <2>4. v.index.files = {}
    BY <2>1, <2>2, <2>3 DEF ChangeSet
  <2> QED BY <2>2, <2>4 DEF Work
<1>4. WorkIsKept
  <2> SUFFICES ASSUME NEW x \in Worktrees, NEW v \in worktree[x], NEW f \in Work(v)
               PROVE  \E u \in worktree'[x] : f \in Work(u)
    BY DEF WorkIsKept
  <2>1. x # w
    BY <1>3
  <2> QED BY <1>2, <2>1
<1>5. \A x \in Worktrees : Trees1(x)'
  BY <1>2 DEF WorkspaceInv, Trees1
<1>6. \A b \in Branches : InScope(b)' = InScope(b) /\ Commits(b)' = Commits(b) /\ BranchInv(b)'
  BY <1>1 DEF InScope, Commits, WorkspaceInv, BranchInv
<1>7. ASSUME NEW s \in Publishers PROVE TreeInv(s)' /\ RunInv(s)'
  <2>1. \A v \in worktree'[RefOf[s]] : v \in worktree[RefOf[s]]
    BY <1>2, OfRuns
  <2> QED BY <1>1, <1>6, <2>1, OfRuns DEF WorkspaceInv, TreeInv, RunInv
<1> QED BY <1>2, <1>4, <1>5, <1>6, <1>7 DEF WorkspaceInv

(* One lemma for each action.                                              *)
LEMMA WorkspaceKeeps == WorkspaceInv /\ [WorkspaceNext]_wvars => WorkspaceInv' /\ (WorkIsKept \/ UNCHANGED wvars)
<1> SUFFICES ASSUME WorkspaceInv, [WorkspaceNext]_wvars
             PROVE  WorkspaceInv' /\ (WorkIsKept \/ UNCHANGED wvars)
  OBVIOUS
<1>1. CASE UNCHANGED wvars
  BY <1>1 DEF wvars, WorkspaceInv, WorkspaceShape, Trees1, TreeInv, BranchInv, RunInv, InScope, Commits
<1>2. CASE WorkspaceNext
  <2>1. CASE \E w \in Worktrees : Cleanup(w)
    BY <2>1, CleanupKeeps
  <2>2. CASE ~\E w \in Worktrees : Cleanup(w)
    <3>1. PICK r \in Publishers :
            \/ Prepare(r) \/ CheckBranch(r) \/ EnsureWorktree(r)
            \/ Edit(r) \/ Stage(r) \/ AgentCommits(r) \/ AgentReturns(r)
            \/ CheckScope(r) \/ Add(r) \/ Commit(r) \/ ReadHead(r) \/ Push(r) \/ CreateDraft(r)
            \/ PublisherDies(r)
      BY <1>2, <2>2 DEF WorkspaceNext
    <3>2. CASE Prepare(r) \/ CheckBranch(r) \/ AgentReturns(r) \/ PublisherDies(r)
      BY <3>2, QuietGitStep DEF Prepare, CheckBranch, AgentReturns, PublisherDies
    <3> QED BY <3>1, <3>2, EnsureWorktreeKeeps, EditKeeps, StageKeeps, AgentCommitsKeeps,
               CheckScopeKeeps, AddKeeps, CommitKeeps, ReadHeadKeeps, PushKeeps, CreateDraftKeeps
  <2> QED BY <2>1, <2>2
<1> QED BY <1>1, <1>2

(* What an agent wrote is published past the scope only where no status    *)
(* sees it, is pushed before its draft is asked for, and leaves a worktree *)
(* only as a commit.                                                       *)
THEOREM AgentsWorkIsSafe == WorkspaceSpec => WorkIsSafe
<1>1. WorkspaceInv' => OnlySlippedLeavesScope' /\ DraftIsPushed'
  BY DEF WorkspaceInv, BranchInv, InScope, OnlySlippedLeavesScope, DraftIsPushed
<1>2. WorkspaceInv /\ WorkspaceInv' /\ [WorkspaceNext]_wvars =>
        [OnlySlippedLeavesScope' /\ DraftIsPushed' /\ WorkIsKept]_wvars
  BY <1>1, WorkspaceKeeps
<1>3. WorkspaceSpec => []WorkspaceInv
  BY WorkspaceStarts, WorkspaceKeeps, PTL DEF WorkspaceSpec
<1> QED BY <1>2, <1>3, PTL DEF WorkspaceSpec, WorkIsSafe

-----------------------------------------------------------------------------
(* The telemetry.                                                          *)

(* A detail in the table is in no sum; what a job has read is what the     *)
(* deletion will take away, for what is recorded meanwhile is younger than *)
(* the cutoff.                                                             *)
TelemetryInv ==
  /\ now \in Nat
  /\ Live \subseteq Details /\ created \in [Live -> Nat]
  /\ summed \in [Details -> Nat]
  /\ \A d \in Live : created[d] <= now /\ summed[d] = 0
  /\ job \in [Pruners -> [on : BOOLEAN, cutoff : Int, rows : SUBSET Details]]
  /\ \A p \in Pruners : job[p].on =>
       job[p].cutoff <= now /\ job[p].rows = ExpiredAt(job[p].cutoff)

LEMMA TelemetryStarts == TelemetryInit => TelemetryInv
BY DEF TelemetryInit, TelemetryInv, Live, Stopped

OneJob == \A p, q \in Pruners : p = q

LEMMA PruneKeeps ==
  ASSUME OneJob, TelemetryInv, NEW p \in Pruners, Prune(p)
  PROVE  /\ TelemetryInv'
         /\ \A d \in Live : IF d \in DOMAIN created' THEN summed'[d] = 0 ELSE summed'[d] = 1
<1> DEFINE R == ExpiredAt(job[p].cutoff)
<1>1. /\ job[p].rows = R /\ R \subseteq Live /\ Live \subseteq Details
      /\ summed' = [d \in Details |-> IF d \in job[p].rows THEN summed[d] + 1 ELSE summed[d]]
      /\ created' = [d \in Live \ R |-> created[d]]
      /\ job' = [job EXCEPT ![p] = Stopped] /\ now' = now
  BY DEF Prune, WriteAndDelete, TelemetryInv, ExpiredAt
<1>2. Live' = Live \ R
  BY <1>1 DEF Live
<1>3. \A d \in Live : summed'[d] = IF d \in R THEN 1 ELSE 0
  BY <1>1 DEF TelemetryInv
<1>4. \A q \in Pruners : ~job'[q].on
  BY <1>1 DEF OneJob, Stopped, TelemetryInv
<1>5. job' \in [Pruners -> [on : BOOLEAN, cutoff : Int, rows : SUBSET Details]]
  BY <1>1 DEF TelemetryInv, Stopped
<1> HIDE DEF R
<1>6. summed' \in [Details -> Nat]
  BY <1>1 DEF TelemetryInv
<1>7. Live' \subseteq Details /\ created' \in [Live' -> Nat]
      /\ \A d \in Live' : created'[d] <= now' /\ summed'[d] = 0
  BY <1>1, <1>2, <1>3 DEF TelemetryInv
<1>8. TelemetryInv'
  BY <1>1, <1>4, <1>5, <1>6, <1>7 DEF TelemetryInv
<1>9. DOMAIN created' = Live \ R
  BY <1>1
<1> QED BY <1>3, <1>8, <1>9

LEMMA TelemetryKeeps ==
  ASSUME OneJob, TelemetryInv, [TelemetryNext]_tvars
  PROVE  /\ TelemetryInv'
         /\ \/ \A d \in Live : IF d \in DOMAIN created' THEN summed'[d] = 0 ELSE summed'[d] = 1
            \/ UNCHANGED tvars
<1> USE DEF Live
<1>1. CASE UNCHANGED tvars
  BY <1>1 DEF tvars, TelemetryInv, ExpiredAt
<1>2. CASE Tick
  BY <1>2 DEF Tick, TelemetryInv, ExpiredAt
<1>3. ASSUME NEW d \in Details, Record(d)
      PROVE  /\ TelemetryInv'
             /\ \A x \in Live : IF x \in DOMAIN created' THEN summed'[x] = 0 ELSE summed'[x] = 1
  <2>1. /\ d \notin Live /\ summed[d] = 0
        /\ created' = [x \in Live \cup {d} |-> IF x = d THEN now ELSE created[x]]
        /\ UNCHANGED <<now, summed, job>>
    BY <1>3 DEF Record
  <2>2. DOMAIN created' = Live \cup {d} /\ created'[d] = now /\ \A x \in Live : created'[x] = created[x]
    BY <2>1
  <2>3. ASSUME NEW p \in Pruners, job[p].on
        PROVE  ExpiredAt(job[p].cutoff)' = ExpiredAt(job[p].cutoff)
    <3>1. ~(created'[d] < job[p].cutoff)
      BY <2>2, <2>3 DEF TelemetryInv
    <3> QED BY <2>1, <2>2, <3>1 DEF ExpiredAt
  <2>4. TelemetryInv'
    BY <2>1, <2>2, <2>3 DEF TelemetryInv
  <2> QED BY <2>1, <2>2, <2>4 DEF TelemetryInv
<1>4. ASSUME NEW p \in Pruners, Sum(p)
      PROVE  /\ TelemetryInv'
             /\ \A x \in Live : IF x \in DOMAIN created' THEN summed'[x] = 0 ELSE summed'[x] = 1
  <2>1. /\ job' = [job EXCEPT ![p] = [on |-> TRUE, cutoff |-> now - Keep,
                                      rows |-> ExpiredAt(now - Keep)]]
        /\ UNCHANGED <<now, created, summed>>
    BY <1>4 DEF Sum
  <2>2. now - Keep \in Int /\ now - Keep <= now /\ ExpiredAt(now - Keep) \in SUBSET Details
    BY TelemetryAssumption DEF TelemetryInv, ExpiredAt
  <2>3. \A c : ExpiredAt(c)' = ExpiredAt(c)
    BY <2>1 DEF ExpiredAt
  <2>4. \A q \in Pruners : job'[q].on =>
          job'[q].cutoff <= now /\ job'[q].rows = ExpiredAt(job'[q].cutoff)
    BY <2>1, <2>2 DEF TelemetryInv
  <2>5. job' \in [Pruners -> [on : BOOLEAN, cutoff : Int, rows : SUBSET Details]]
    BY <2>1, <2>2 DEF TelemetryInv
  <2> QED BY <2>1, <2>3, <2>4, <2>5 DEF TelemetryInv
<1>5. ASSUME NEW p \in Pruners, JobDies(p)
      PROVE  /\ TelemetryInv'
             /\ \A x \in Live : IF x \in DOMAIN created' THEN summed'[x] = 0 ELSE summed'[x] = 1
  <2>1. job' = [job EXCEPT ![p] = Stopped] /\ UNCHANGED <<now, created, summed>>
    BY <1>5 DEF JobDies
  <2>2. \A c : ExpiredAt(c)' = ExpiredAt(c)
    BY <2>1 DEF ExpiredAt
  <2> QED BY <2>1, <2>2 DEF TelemetryInv, Stopped
<1> HIDE DEF Live
<1>6. CASE TelemetryNext
  <2>1. CASE Tick
    <3>1. UNCHANGED <<created, summed>>
      BY <2>1 DEF Tick
    <3> QED BY <1>2, <2>1, <3>1 DEF TelemetryInv, Live
  <2>2. CASE \E d \in Details : Record(d)
    BY <1>3, <2>2
  <2>3. CASE \E p \in Pruners : Sum(p) \/ Prune(p) \/ JobDies(p)
    BY <1>4, <1>5, <2>3, PruneKeeps
  <2> QED BY <1>6, <2>1, <2>2, <2>3 DEF TelemetryNext
<1> QED BY <1>1, <1>6

(* With one maintenance job no event is lost or counted twice: it is in    *)
(* the table or in the sum of its month, whatever is recorded between the  *)
(* sum and the deletion.                                                   *)
THEOREM EventsCountOnce ==
  ASSUME OneJob
  PROVE  TelemetrySpec => CountedOnce
<1>1. TelemetryInv /\ [TelemetryNext]_tvars => TelemetryInv'
  BY TelemetryKeeps
<1>2. TelemetryInv /\ [TelemetryNext]_tvars =>
        [\A d \in Live : IF d \in DOMAIN created' THEN summed'[d] = 0 ELSE summed'[d] = 1]_tvars
  BY TelemetryKeeps
<1> QED BY <1>1, <1>2, TelemetryStarts, PTL DEF TelemetrySpec, CountedOnce
=============================================================================
