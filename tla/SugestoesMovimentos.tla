------------------------- MODULE SugestoesMovimentos -------------------------
(***************************************************************************)
(* The classification of pending movements: for each movement the chart of *)
(* accounts that applies to its date, then a suggestion of the active      *)
(* model or a review item.  A movement without a date gets a chart only if *)
(* one and the same applies to the whole period of its batch.              *)
(*                                                                         *)
(* The run is one transaction of a job whose lease is the subject of       *)
(* MLJobs and Movimentos; charts are imported and conflicts decided        *)
(* between any two selections of a chart.  A selection is three queries,   *)
(* of the latest date, its candidates and their decision: here they are    *)
(* one step.  Reviews of a movement are never critical, so the question    *)
(* whether one is open is always answered no.                              *)
(***************************************************************************)
EXTENDS Integers, FiniteSets, FiniteSetsExt

CONSTANTS
  Movs,           \* movements: records of id, date, account and period of the batch
  Entries,        \* the charts: for each snapshot its analytic accounts
  ChartDates,     \* effective dates of imports
  Predictable,    \* accounts the model may predict
  MaxChanges      \* bound: imports and decisions

(* Dates are natural numbers; a movement has the period of its batch.      *)
ASSUME SugestoesAssumption ==
  /\ ChartDates \subseteq Nat
  /\ \A m \in Movs : {m.id, m.date, m.inicio, m.fim} \subseteq Nat

Charts == DOMAIN Entries
NoDate == 0
NoCode == 0

VARIABLES
  chartEvents,    \* PlanoContasImportEvent: pairs of snapshot and effective date
  chosen,         \* decisions: effective date, candidates, selected snapshot
  model,          \* there is an active version
  mov,            \* movements: status, suggestion and the chart it was made with
  classifier,     \* the run of the job
  same,           \* no import and no decision since the run began
  changes

smvars == <<chartEvents, chosen, model, mov, classifier, same, changes>>

NotRunning == [pc |-> "idle"]
Pending == [status |-> "pendente", sug |-> NoCode, chart |-> "none", item |-> "none"]
(* Abstentions leave an item of one of two origins.                        *)
TemporalReview == [Pending EXCEPT !.status = "revisao", !.item = "temporal"]
MlReview(s) == [Pending EXCEPT !.status = "revisao", !.chart = s, !.item = "ml"]

SugestoesInit ==
  /\ chartEvents = {} /\ chosen = {}
  /\ model \in BOOLEAN
  /\ mov = [m \in Movs |-> Pending]
  /\ classifier = NotRunning /\ same = TRUE /\ changes = 0

-----------------------------------------------------------------------------
(* selecionar_snapshot *)

CandidateCharts(v) == {e[1] : e \in {x \in chartEvents : x[2] = v}}
DatesUntil(d) == {v \in ChartDates : v <= d /\ CandidateCharts(v) # {}}
ChosenChart(v) ==
  IF Cardinality(CandidateCharts(v)) = 1 THEN CandidateCharts(v)
  ELSE {x[3] : x \in {y \in chosen : y[1] = v /\ y[2] = CandidateCharts(v)}}
(* The snapshot of a date, if there is one and no conflict, as the three   *)
(* queries find it when nothing changes between them.                      *)
ChartAt(d) == IF DatesUntil(d) = {} THEN {} ELSE ChosenChart(Max(DatesUntil(d)))

-----------------------------------------------------------------------------
(* The run *)

Turns(r) == classifier' = r /\ UNCHANGED <<chartEvents, chosen, model, mov, same, changes>>

(* made: what the run will write; chart: the charts of those to classify.  *)
BeginRun ==
  /\ classifier = NotRunning
  /\ {m \in Movs : mov[m] = Pending} # {}
  /\ classifier' = [pc |-> "context", left |-> {m \in Movs : mov[m] = Pending},
             made |-> mov, chart |-> << >>]
  /\ same' = TRUE
  /\ UNCHANGED <<chartEvents, chosen, model, mov, changes>>

Head1 == CHOOSE m \in classifier.left : \A k \in classifier.left : m.id <= k.id
Reviewed(m) ==
  [classifier EXCEPT !.pc = "context", !.left = @ \ {m}, !.made = [@ EXCEPT ![m] = TemporalReview]]

(* With its chart a movement is classified, or reviewed because its own    *)
(* account is not in it.                                                   *)
WithChart(m, s) ==
  IF m.conta \notin Entries[s] THEN Reviewed(m)
  ELSE [pc |-> "context", left |-> classifier.left \ {m}, made |-> classifier.made,
        chart |-> [x \in DOMAIN classifier.chart \cup {m} |-> IF x = m THEN s ELSE classifier.chart[x]]]

DatedMovement ==
  /\ classifier.pc = "context" /\ classifier.left # {} /\ Head1.date # NoDate
  /\ Turns(IF ChartAt(Head1.date) = {} THEN Reviewed(Head1)
           ELSE WithChart(Head1, CHOOSE s \in ChartAt(Head1.date) : TRUE))

(* _snapshot_for_undated_movement: the chart of the first day, then that   *)
(* of every effective date in the rest of the period.                      *)
FirstDay ==
  /\ classifier.pc = "context" /\ classifier.left # {} /\ Head1.date = NoDate
  /\ LET found == ChartAt(Head1.inicio) IN
     Turns(IF found = {} THEN Reviewed(Head1)
           ELSE [pc |-> "list", left |-> classifier.left, made |-> classifier.made, chart |-> classifier.chart,
                 first |-> CHOOSE s \in found : TRUE])
LaterDatesBefore(m) ==                  \* mutant: the last day is left out
  {v \in ChartDates : m.inicio < v /\ v < m.fim /\ CandidateCharts(v) # {}}
LaterDates(m) == {v \in ChartDates : m.inicio < v /\ v <= m.fim /\ CandidateCharts(v) # {}}
ListDates ==
  /\ classifier.pc = "list"
  /\ Turns([pc |-> "dates", left |-> classifier.left, made |-> classifier.made, chart |-> classifier.chart,
            first |-> classifier.first, dates |-> LaterDates(Head1)])
NextDate ==
  /\ classifier.pc = "dates"
  /\ Turns(IF classifier.dates = {} THEN WithChart(Head1, classifier.first)
           ELSE IF ChartAt(Min(classifier.dates)) = {classifier.first}
           THEN [classifier EXCEPT !.dates = @ \ {Min(@)}]
           ELSE [Reviewed(Head1) EXCEPT !.dates = {}])

(* Without an active version all that is left is reviewed.                 *)
ReadVersion ==
  /\ classifier.pc = "context" /\ classifier.left = {}
  /\ Turns(IF model THEN [classifier EXCEPT !.pc = "predict"]
           ELSE [classifier EXCEPT !.pc = "publish",
                   !.made = [m \in Movs |-> IF m \in DOMAIN classifier.chart
                               THEN MlReview(classifier.chart[m]) ELSE @[m]]])

(* A prediction outside the chart, or below the threshold, is abstained    *)
(* from.                                                                   *)
PredictedAnyway(s, c, sure) ==          \* mutant: the chart is not asked
  IF ~sure THEN MlReview(s)
  ELSE [Pending EXCEPT !.status = "sugerido", !.sug = c, !.chart = s]
Predicted(s, c, sure) ==
  IF c \notin Entries[s] \/ ~sure THEN MlReview(s)
  ELSE [Pending EXCEPT !.status = "sugerido", !.sug = c, !.chart = s]
Predict ==
  /\ classifier.pc = "predict"
  /\ \E best \in [DOMAIN classifier.chart -> Predictable], sure \in [DOMAIN classifier.chart -> BOOLEAN] :
       Turns([classifier EXCEPT !.pc = "publish",
                !.made = [m \in Movs |-> IF m \in DOMAIN classifier.chart
                            THEN Predicted(classifier.chart[m], best[m], sure[m]) ELSE @[m]]])

Publish ==
  /\ classifier.pc = "publish"
  /\ mov' = classifier.made
  /\ classifier' = NotRunning
  /\ UNCHANGED <<chartEvents, chosen, model, same, changes>>

(* A missing artifact, a cancellation, a lost lease: all is rolled back.   *)
Fail == classifier # NotRunning /\ Turns(NotRunning)

-----------------------------------------------------------------------------
(* Other transactions *)

Change ==
  /\ changes < MaxChanges
  /\ changes' = changes + 1
  /\ same' = FALSE
  /\ UNCHANGED <<model, mov, classifier>>
ImportChart(s, v) ==
  /\ <<s, v>> \notin chartEvents
  /\ chartEvents' = chartEvents \cup {<<s, v>>}
  /\ Change /\ UNCHANGED chosen
DecideConflict(v, s) ==
  /\ Cardinality(CandidateCharts(v)) > 1 /\ ChosenChart(v) = {} /\ s \in CandidateCharts(v)
  /\ chosen' = chosen \cup {<<v, CandidateCharts(v), s>>}
  /\ Change /\ UNCHANGED chartEvents

SugestoesNext ==
  \/ BeginRun \/ DatedMovement \/ FirstDay \/ ListDates \/ NextDate
  \/ ReadVersion \/ Predict \/ Publish \/ Fail
  \/ \E s \in Charts, v \in ChartDates : ImportChart(s, v) \/ DecideConflict(v, s)

SugestoesSpec == SugestoesInit /\ [][SugestoesNext]_smvars

-----------------------------------------------------------------------------
(* Properties *)

(* An interval that crosses two charts chooses neither (spec 17): when a   *)
(* movement without a date is published with a chart, and no chart changed *)
(* while the run was at work, that chart applies on every day of the       *)
(* period, although the code asks for few of them.                         *)
UndatedHasOneChart ==
  classifier.pc = "publish" /\ same =>
    \A m \in DOMAIN classifier.chart : m.date = NoDate =>
      \A d \in m.inicio..m.fim : ChartAt(d) = {classifier.chart[m]}

(* A suggestion that reviewers see names two accounts of the chart it was  *)
(* made with: a pending movement whose chart is in doubt gets none, in     *)
(* this run or in a later one.                                             *)
SuggestionInChart ==
  \A m \in Movs : mov[m].sug # NoCode =>
    mov[m].chart \in Charts /\ {m.conta, mov[m].sug} \subseteq Entries[mov[m].chart]

(* A movement is classified with a chart only where one is certain: of all *)
(* the days of its period, and holding both accounts of the suggestion.    *)
ChartIsCertain == UndatedHasOneChart /\ SuggestionInChart
=============================================================================
