----------------------------- MODULE LoteRazao -----------------------------
(***************************************************************************)
(* What the asynchronous import of the ledger ("Razao") promises about one *)
(* import batch ("lote"), whatever the workers, leases, files and crashes  *)
(* behind it: the status life cycle, how often the queue may repeat a      *)
(* batch on its own, and when ledger entries become visible.  FilaRazao    *)
(* is shown to implement this module.                                      *)
(***************************************************************************)
EXTENDS Naturals

CONSTANT Lotes      \* the batch identities the database sequence hands out

VARIABLES
  status,           \* status of each batch; "none" before, "gone" after its row
  attempt,          \* attempt_count: attempts started so far
  entries           \* attempts whose ledger entries are stored for the batch

vars == <<status, attempt, entries>>

Init ==
  /\ status = [l \in Lotes |-> "none"]
  /\ attempt = [l \in Lotes |-> 0]
  /\ entries = [l \in Lotes |-> {}]

Become(l, s) == status' = [status EXCEPT ![l] = s]

(* An accepted upload creates the batch; a rolled back one burns its id.   *)
Create(l) ==
  /\ status[l] = "none"
  /\ \E s \in {"queued", "gone"} : Become(l, s)
  /\ UNCHANGED <<attempt, entries>>

(* A worker starts an attempt: the batch was waiting, or its first attempt *)
(* lost its lease.                                                         *)
Start(l) ==
  /\ \/ status[l] = "queued"
     \/ status[l] = "processing" /\ attempt[l] < 2
  /\ Become(l, "processing")
  /\ attempt' = [attempt EXCEPT ![l] = @ + 1]
  /\ UNCHANGED entries

(* The attempt in course publishes its entries and its verdict at once.    *)
Publish(l) ==
  /\ status[l] = "processing"
  /\ Become(l, "completed")
  /\ entries' = [entries EXCEPT ![l] = {attempt[l]}]
  /\ UNCHANGED attempt

(* The attempt ends without entries; only a first attempt is repeated by   *)
(* the queue itself.                                                       *)
GiveUp(l) ==
  /\ status[l] = "processing"
  /\ \/ Become(l, "failed")
     \/ attempt[l] < 2 /\ Become(l, "queued")
  /\ UNCHANGED <<attempt, entries>>

(* An operator asks for a failed batch to be tried again.                  *)
Retry(l) ==
  /\ status[l] = "failed"
  /\ Become(l, "queued")
  /\ UNCHANGED <<attempt, entries>>

(* A global administrator deletes the batch with everything it produced.   *)
Delete(l) ==
  /\ status[l] \notin {"none", "gone"}
  /\ Become(l, "gone")
  /\ attempt' = [attempt EXCEPT ![l] = 0]
  /\ entries' = [entries EXCEPT ![l] = {}]

Next == \E l \in Lotes :
  Create(l) \/ Start(l) \/ Publish(l) \/ GiveUp(l) \/ Retry(l) \/ Delete(l)

Spec == Init /\ [][Next]_vars
=============================================================================
