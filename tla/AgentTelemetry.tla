--------------------------- MODULE AgentTelemetry ---------------------------
(***************************************************************************)
(* The private telemetry of the runner: details that are kept for some     *)
(* days, then summed by month and deleted.  The sums are read before the   *)
(* transaction that writes begins (sqlite3 opens it with the first write). *)
(***************************************************************************)
EXTENDS Integers, FiniteSets

CONSTANTS
  Details,        \* the events that may be recorded
  Pruners,        \* maintenance jobs that run aggregate_and_prune
  Keep,           \* age of a detail that is summed, in units of the clock
  MaxTime         \* bound: the clock

ASSUME TelemetryAssumption == Keep \in Nat

VARIABLES
  now,
  created,        \* created_at of the recorded details that are still there
  summed,         \* in how many sums each detail was counted
  job             \* the maintenance jobs: their cutoff and the rows they summed

tvars == <<now, created, summed, job>>

Stopped == [on |-> FALSE, cutoff |-> 0, rows |-> {}]
Live == DOMAIN created
ExpiredAt(cutoff) == {d \in Live : created[d] < cutoff}

TelemetryInit ==
  /\ now = 0
  /\ created = [d \in {} |-> 0]
  /\ summed = [d \in Details |-> 0]
  /\ job = [p \in Pruners |-> Stopped]

Tick ==
  /\ now < MaxTime
  /\ now' = now + 1
  /\ UNCHANGED <<created, summed, job>>

(* record_event: an event with a forbidden or an unknown field is refused  *)
(* and changes nothing.                                                    *)
Record(d) ==
  /\ d \notin Live /\ summed[d] = 0
  /\ created' = [x \in Live \cup {d} |-> IF x = d THEN now ELSE created[x]]
  /\ UNCHANGED <<now, summed, job>>

(* aggregate_and_prune computes its cutoff once and reads the sums.        *)
Sum(p) ==
  /\ ~job[p].on
  /\ job' = [job EXCEPT ![p] = [on |-> TRUE, cutoff |-> now - Keep,
                                rows |-> ExpiredAt(now - Keep)]]
  /\ UNCHANGED <<now, created, summed>>

(* One transaction adds the sums to the months and deletes the details.    *)
WriteAndDelete(p, cutoff) ==
  /\ job[p].on
  /\ summed' = [d \in Details |-> IF d \in job[p].rows THEN summed[d] + 1 ELSE summed[d]]
  /\ created' = [d \in Live \ ExpiredAt(cutoff) |-> created[d]]
  /\ job' = [job EXCEPT ![p] = Stopped]
  /\ UNCHANGED now
PruneNow(p) == WriteAndDelete(p, now - Keep)   \* mutant: the cutoff is taken again
Prune(p) == WriteAndDelete(p, job[p].cutoff)

(* The job dies; its transaction is rolled back.                           *)
JobDies(p) ==
  /\ job[p].on
  /\ job' = [job EXCEPT ![p] = Stopped]
  /\ UNCHANGED <<now, created, summed>>

TelemetryNext ==
  \/ Tick
  \/ \E d \in Details : Record(d)
  \/ \E p \in Pruners : Sum(p) \/ Prune(p) \/ JobDies(p)

TelemetrySpec == TelemetryInit /\ [][TelemetryNext]_tvars

(* Nothing is lost and nothing is counted twice: a detail is in the table  *)
(* or in the sum of its month, whatever is recorded between the sum and    *)
(* the deletion.  It takes a single maintenance job: two that overlap      *)
(* count the same rows twice.                                              *)
CountedOnce ==
  [][\A d \in Live : IF d \in DOMAIN created' THEN summed'[d] = 0 ELSE summed'[d] = 1]_tvars
=============================================================================
