------------------------- MODULE ModelVersionsProofs -------------------------
(***************************************************************************)
(* Theorems about ModelVersions, for any number of versions, switches,     *)
(* trainings, requests and jobs, and any evaluations, and about            *)
(* DatasetTreino, for any ledgers, movements and charts.                   *)
(***************************************************************************)
EXTENDS ModelVersions, DatasetTreino, FiniteSetTheorems, SequenceTheorems,
        WellFoundedInduction, TLAPS

VersionOrNone == Versions \cup {NoVersion}
Found == Evaluations \cup {NoEvaluation}
Ops == {"promote", "rollback"}

Row == [status : {"absent", "candidate", "active", "retired"},
        compared : VersionOrNone, evaluation : Found]
Trail == [op : Ops, from : VersionOrNone, to : Versions]

TypeOK ==
  /\ version \in [Versions -> Row]
  /\ next \in Nat
  /\ files \subseteq Versions
  /\ trail \in Seq(Trail)
  /\ training \in [Trainers -> {Idle} \cup [pc : {"built"}]
       \cup [pc : {"evaluated"}, compared : VersionOrNone, evaluation : Found]
       \cup [pc : {"written"}, id : Versions, compared : VersionOrNone, evaluation : Found]]
  /\ switch \in [Switchers -> {Idle}
       \cup [pc : {"locked"}, to : Versions, op : Ops, previous : VersionOrNone]]
  /\ reader \in [Readers -> {Idle}
       \cup [pc : {"loaded"}, used : VersionOrNone, since : Nat]
       \cup [pc : {"done"}, used : VersionOrNone, since : Nat, reported : VersionOrNone]]

AtMostOne == \A v, w \in ActiveOnes : v = w

(* The version that the first n switches leave active.                     *)
After(n) == IF n = 0 THEN NoVersion ELSE trail[n].to

(* Numbers are handed out once: those to come have no row.                 *)
NumberInv == \A v \in Versions : v >= next => version[v] = Absent

(* A training that has compared holds the company: what it compared with   *)
(* is still active.  One that has written has a number of its own, without *)
(* a row yet.                                                              *)
ComparedInv ==
  \A t \in Trainers :
    training[t].pc \in {"evaluated", "written"} => training[t].compared = Active
WrittenInv ==
  \A t \in Trainers : training[t].pc = "written" =>
    /\ training[t].id < next
    /\ version[training[t].id] = Absent
    /\ \A u \in Trainers :
         training[u].pc = "written" /\ u # t => training[u].id # training[t].id

(* What a request read under its lock is so until it lets go of it, and it *)
(* has the company to itself.                                              *)
Stands(s) ==
  /\ switch[s].previous = Active
  /\ switch[s].to \in files
  /\ IF switch[s].op = "promote"
     THEN /\ version[switch[s].to].status = "candidate"
          /\ Guardrails(switch[s].to, switch[s].previous)
     ELSE version[switch[s].to].status = "retired"
SwitchInv ==
  \A s \in Switchers : LocksCompany(s) =>
    /\ Stands(s)
    /\ \A o \in Switchers : LocksCompany(o) => o = s
    /\ \A t \in Trainers : ~SharesCompany(t)

TrailInv ==
  /\ SwitchesChain
  /\ PromotedBeatsReplaced
  /\ \A k \in 1..Len(trail) : version[trail[k].to].status \in {"active", "retired"}

ReaderInv ==
  /\ \A r \in Readers : reader[r].pc = "loaded" =>
       reader[r].since <= Len(trail) /\ reader[r].used = After(reader[r].since)
  /\ ReportIsUsedOrLater

IInv ==
  /\ TypeOK /\ AtMostOne /\ ActiveHasArtifact /\ NumberInv /\ ComparedInv
  /\ WrittenInv /\ SwitchInv /\ TrailInv /\ ReaderInv
-----------------------------------------------------------------------------
LEMMA NoneIsNoVersion == NoVersion \notin Versions
BY DEF NoVersion, Versions

LEMMA TrailRows ==
  ASSUME TypeOK
  PROVE  Len(trail) \in Nat /\ \A k \in 1..Len(trail) : trail[k] \in Trail
BY LenProperties DEF TypeOK

(* At most one active version is what Active names.                        *)
LEMMA ActiveIsActive ==
  ASSUME AtMostOne
  PROVE  /\ \A v \in ActiveOnes : Active = v
         /\ Active \in ActiveOnes \/ (ActiveOnes = {} /\ Active = NoVersion)
         /\ Active \in VersionOrNone
         /\ \A v \in Versions : version[v].status = "active" <=> v = Active
<1>1. Active \in ActiveOnes \/ (ActiveOnes = {} /\ Active = NoVersion)
  <2>1. CASE ActiveOnes = {}
    BY <2>1 DEF Active
  <2>2. ASSUME NEW v \in ActiveOnes PROVE Active \in ActiveOnes
    BY <2>2 DEF Active
  <2>3. QED BY <2>1, <2>2
<1>2. \A v \in ActiveOnes : Active = v
  BY <1>1 DEF AtMostOne
<1>3. ActiveOnes \subseteq Versions
  BY DEF ActiveOnes
<1>4. \A v \in Versions : version[v].status = "active" <=> v = Active
  BY <1>1, <1>2, NoneIsNoVersion DEF ActiveOnes
<1>5. QED BY <1>1, <1>2, <1>3, <1>4 DEF VersionOrNone

LEMMA ActiveUntouched ==
  ASSUME version' = version
  PROVE  ActiveOnes' = ActiveOnes /\ Active' = Active
<1>1. ActiveOnes' = ActiveOnes
  BY DEF ActiveOnes
<1>2. QED BY <1>1 DEF Active

LEMMA TrailUntouched ==
  ASSUME TrailInv, AtMostOne, UNCHANGED <<version, trail>>
  PROVE  TrailInv' /\ AtMostOne'
BY ZenonT(40), ActiveUntouched DEF TrailInv, AtMostOne, SwitchesChain, PromotedBeatsReplaced, Checked

LEMMA ReaderUntouched ==
  ASSUME ReaderInv, UNCHANGED <<reader, trail>>
  PROVE  ReaderInv'
BY DEF ReaderInv, ReportIsUsedOrLater, After

LEMMA StandsUntouched ==
  ASSUME NEW s, Stands(s), switch'[s] = switch[s], Active' = Active,
         version'[switch[s].to] = version[switch[s].to], switch[s].to \in files'
  PROVE  Stands(s)'
BY DEF Stands, Guardrails, Checked

LEMMA RowsAndSwitchesUntouched ==
  ASSUME UNCHANGED <<version, next, files, trail, training, switch>>, SwitchInv,
         ActiveHasArtifact, NumberInv, ComparedInv, WrittenInv
  PROVE  SwitchInv' /\ ActiveHasArtifact' /\ NumberInv' /\ ComparedInv' /\ WrittenInv'
<1>1. Active' = Active /\ ActiveOnes' = ActiveOnes
  BY ActiveUntouched
<1>2. ActiveHasArtifact' /\ NumberInv' /\ ComparedInv' /\ WrittenInv'
  BY <1>1 DEF ActiveHasArtifact, NumberInv, ComparedInv, WrittenInv
<1>3. SwitchInv'
  <2>1. \A s \in Switchers : LocksCompany(s)' <=> LocksCompany(s)
    BY DEF LocksCompany
  <2>2. \A t \in Trainers : SharesCompany(t)' <=> SharesCompany(t)
    BY DEF SharesCompany
  <2>3. ASSUME NEW s \in Switchers, Stands(s) PROVE Stands(s)'
    <3>1. switch[s].to \in files'
      BY <2>3 DEF Stands
    <3> QED BY <1>1, <2>3, <3>1, StandsUntouched
  <2> QED BY <2>1, <2>2, <2>3 DEF SwitchInv
<1>4. QED BY <1>2, <1>3

-----------------------------------------------------------------------------
LEMMA Initially == Init => IInv
<1> SUFFICES ASSUME Init PROVE IInv
  OBVIOUS
<1>1. ActiveOnes = {}
  BY DEF Init, ActiveOnes, Absent
<1>2. TypeOK
  BY DEF Init, TypeOK, Row, Absent, Found, VersionOrNone, Idle
<1>3. AtMostOne /\ ActiveHasArtifact
  BY <1>1 DEF AtMostOne, ActiveHasArtifact
<1>4. NumberInv
  BY DEF Init, NumberInv
<1>5. ComparedInv /\ WrittenInv
  BY DEF Init, ComparedInv, WrittenInv, Idle
<1>6. SwitchInv
  BY DEF Init, SwitchInv, LocksCompany, Idle
<1>7. trail = << >> /\ Len(trail) = 0
  BY DEF Init
<1>8. TrailInv
  BY <1>1, <1>7 DEF TrailInv, SwitchesChain, PromotedBeatsReplaced, Active
<1>9. ReaderInv
  BY DEF Init, ReaderInv, ReportIsUsedOrLater, Idle
<1>q. QED BY <1>2, <1>3, <1>4, <1>5, <1>6, <1>8, <1>9 DEF IInv

(* Steps of a training that leave the rows and the files alone.            *)
LEMMA TrainingKeeps ==
  ASSUME IInv, NEW t \in Trainers, NEW state,
         UNCHANGED <<version, next, files, trail, switch, reader>>,
         training' = [training EXCEPT ![t] = state],
         state \in {Idle} \cup [pc : {"built"}]
           \cup [pc : {"evaluated"}, compared : VersionOrNone, evaluation : Found],
         state.pc = "evaluated" => state.compared = Active,
         state = Idle \/ SharesCompany(t) \/ \A s \in Switchers : ~LocksCompany(s)
  PROVE  IInv'
<1>1. TypeOK'
  BY DEF IInv, TypeOK
<1>2. Active' = Active /\ ActiveHasArtifact'
  BY ActiveUntouched DEF IInv, ActiveHasArtifact
<1>3. TrailInv' /\ AtMostOne' /\ ReaderInv'
  BY TrailUntouched, ReaderUntouched DEF IInv
<1>4. NumberInv'
  BY DEF IInv, NumberInv
<1>5. state.pc \in {"idle", "built", "evaluated"}
  BY DEF Idle
<1>6. \A u \in Trainers : training'[u] = IF u = t THEN state ELSE training[u]
  BY DEF IInv, TypeOK
<1>7. ComparedInv'
  BY <1>2, <1>5, <1>6 DEF IInv, ComparedInv
<1>8. WrittenInv'
  BY <1>5, <1>6 DEF IInv, WrittenInv
<1>9. SwitchInv'
  <2> SUFFICES ASSUME NEW s \in Switchers, LocksCompany(s)'
               PROVE  /\ Stands(s)'
                      /\ \A o \in Switchers : LocksCompany(o)' => o = s
                      /\ \A u \in Trainers : ~SharesCompany(u)'
    BY DEF SwitchInv
  <2>1. \A o : LocksCompany(o)' <=> LocksCompany(o)
    BY DEF LocksCompany
  <2>2. Stands(s) /\ switch[s].to \in files /\ \A u \in Trainers : ~SharesCompany(u)
    BY <2>1 DEF IInv, SwitchInv, Stands
  <2>3. Stands(s)'
    BY <1>2, <2>2, StandsUntouched
  <2>4. state = Idle
    BY <2>1, <2>2
  <2>5. \A u \in Trainers : ~SharesCompany(u)'
    BY <1>6, <2>2, <2>4 DEF SharesCompany, Idle
  <2>6. QED BY <2>1, <2>3, <2>5 DEF IInv, SwitchInv
<1>q. QED BY <1>1, <1>2, <1>3, <1>4, <1>7, <1>8, <1>9 DEF IInv

LEMMA BuildKeeps ==
  ASSUME IInv, NEW t \in Trainers, Build(t)
  PROVE  IInv'
<1>1. [pc |-> "built"] \in [pc : {"built"}]
  OBVIOUS
<1>2. QED BY <1>1, TrainingKeeps DEF Build, TrainerGoes

LEMMA EvaluateKeeps ==
  ASSUME IInv, NEW t \in Trainers, EvaluateCandidate(t)
  PROVE  IInv'
<1>1. SharesCompany(t)
  BY DEF EvaluateCandidate, SharesCompany
<1>2. Active \in VersionOrNone
  BY ActiveIsActive DEF IInv
<1>3. CASE TrainerEnds(t)
  BY <1>3, TrainingKeeps DEF EvaluateCandidate, TrainerEnds, TrainerGoes, Idle
<1>4. ASSUME NEW e \in Evaluations,
             TrainerGoes(t, [pc |-> "evaluated", compared |-> Active, evaluation |-> e])
      PROVE  IInv'
  <2> DEFINE state == [pc |-> "evaluated", compared |-> Active, evaluation |-> e]
  <2>1. /\ state \in [pc : {"evaluated"}, compared : VersionOrNone, evaluation : Found]
        /\ state.compared = Active
    BY <1>2 DEF Found
  <2>2. training' = [training EXCEPT ![t] = state]
    BY <1>4 DEF TrainerGoes
  <2> HIDE DEF state
  <2>3. QED BY <1>1, <2>1, <2>2, TrainingKeeps DEF EvaluateCandidate
<1>5. QED BY <1>3, <1>4 DEF EvaluateCandidate

LEMMA CrashKeeps ==
  ASSUME IInv, NEW t \in Trainers, CrashTraining(t)
  PROVE  IInv'
BY TrainingKeeps DEF CrashTraining, TrainerEnds, TrainerGoes, Idle

-----------------------------------------------------------------------------
(* A number that has been handed out but has no row yet is not active, nor *)
(* was it ever.                                                            *)
LEMMA WithoutRow ==
  ASSUME IInv, NEW v \in Versions, version[v] = Absent
  PROVE  /\ v \notin ActiveOnes
         /\ \A k \in 1..Len(trail) : trail[k].to # v
<1>1. version[v].status = "absent"
  BY DEF Absent
<1>2. QED BY <1>1 DEF IInv, TrailInv, ActiveOnes

LEMMA WrittenStep ==
  ASSUME TypeOK, NEW t \in Trainers, training[t].pc = "written"
  PROVE  /\ training[t].id \in Versions
         /\ training[t].compared \in VersionOrNone
         /\ training[t].evaluation \in Found
         /\ training[t] # Idle
BY DEF TypeOK, Idle

LEMMA WriteKeeps ==
  ASSUME IInv, NEW t \in Trainers, WriteArtifact(t)
  PROVE  IInv'
<1> DEFINE state == [pc |-> "written", id |-> next, compared |-> training[t].compared,
                     evaluation |-> training[t].evaluation]
<1>1. /\ training[t].pc = "evaluated" /\ training[t].compared = Active
      /\ training[t].compared \in VersionOrNone /\ training[t].evaluation \in Found
  BY DEF IInv, TypeOK, WriteArtifact, ComparedInv, Idle
<1>2. /\ next \in Versions /\ next \in Nat /\ next' = next + 1
      /\ files' = files \cup {next}
      /\ UNCHANGED <<version, trail, switch, reader>>
  BY DEF IInv, TypeOK, WriteArtifact
<1>3. /\ training' = [training EXCEPT ![t] = state]
      /\ \A u \in Trainers : training'[u] = IF u = t THEN state ELSE training[u]
  BY DEF IInv, TypeOK, WriteArtifact, TrainerGoes
<1>4. /\ state.pc = "written" /\ state.id = next /\ state.compared = Active
      /\ state \in [pc : {"written"}, id : Versions, compared : VersionOrNone,
                    evaluation : Found]
  BY <1>1, <1>2
<1>5. version[next] = Absent
  BY <1>2 DEF IInv, NumberInv
<1> HIDE DEF state
<1>6. TypeOK'
  <2>1. /\ next' \in Nat /\ files' \subseteq Versions
    BY <1>2 DEF IInv, TypeOK
  <2>2. training' \in [Trainers -> {Idle} \cup [pc : {"built"}]
         \cup [pc : {"evaluated"}, compared : VersionOrNone, evaluation : Found]
         \cup [pc : {"written"}, id : Versions, compared : VersionOrNone, evaluation : Found]]
    BY <1>3, <1>4 DEF IInv, TypeOK
  <2>3. QED BY <1>2, <2>1, <2>2 DEF IInv, TypeOK
<1>7. Active' = Active /\ ActiveHasArtifact'
  BY <1>2, ActiveUntouched DEF IInv, ActiveHasArtifact
<1>8. TrailInv' /\ AtMostOne' /\ ReaderInv'
  BY <1>2, TrailUntouched, ReaderUntouched DEF IInv
<1>9. NumberInv'
  BY <1>2 DEF IInv, NumberInv, Versions
<1>10. ComparedInv'
  BY <1>3, <1>4, <1>7 DEF IInv, ComparedInv
<1>11. WrittenInv'
  <2>1. \A u \in Trainers : training[u].pc = "written" =>
          training[u].id < next /\ training[u].id # next /\ training[u].id < next + 1
    <3>1. ASSUME NEW u \in Trainers, training[u].pc = "written"
          PROVE  training[u].id < next /\ training[u].id \in Int
      BY <3>1, WrittenStep DEF IInv, WrittenInv, Versions
    <3>2. QED BY <1>2, <3>1
  <2>2. next < next + 1
    BY <1>2
  <2>3. QED
    BY <1>2, <1>3, <1>4, <1>5, <2>1, <2>2 DEF IInv, WrittenInv
<1>12. SwitchInv'
  <2>1. SharesCompany(t)
    BY <1>1 DEF SharesCompany
  <2>2. \A s \in Switchers : ~LocksCompany(s)'
    BY <1>2, <2>1 DEF IInv, SwitchInv, LocksCompany
  <2>3. QED BY <2>2 DEF SwitchInv
<1>q. QED BY <1>6, <1>7, <1>8, <1>9, <1>10, <1>11, <1>12 DEF IInv

LEMMA CommitKeeps ==
  ASSUME IInv, NEW t \in Trainers, CommitCandidate(t)
  PROVE  IInv'
<1> DEFINE id == training[t].id
           row == Candidate(t)
<1>1. /\ training[t].pc = "written" /\ id \in Versions
      /\ version[id] = Absent /\ id < next
  BY WrittenStep DEF IInv, CommitCandidate, WrittenInv
<1>2. /\ row \in Row /\ row.status = "candidate" /\ row # Absent
  BY <1>1, WrittenStep DEF IInv, Candidate, Row, Absent
<1>3. /\ version' = [version EXCEPT ![id] = row]
      /\ training' = [training EXCEPT ![t] = Idle]
      /\ UNCHANGED <<next, files, trail, switch, reader>>
  BY DEF CommitCandidate, TrainerEnds, TrainerGoes
<1>4. PICK i \in Versions : i = id
  BY <1>1
<1>5. PICK c \in Row : c = row
  BY <1>2
<1>6. /\ version' = [version EXCEPT ![i] = c]
      /\ c.status = "candidate" /\ version[i] = Absent /\ i < next
      /\ \A u \in Trainers : training'[u] = IF u = t THEN Idle ELSE training[u]
      /\ \A v \in Versions : version'[v] = IF v = i THEN c ELSE version[v]
  BY <1>1, <1>2, <1>3, <1>4, <1>5 DEF IInv, TypeOK
<1> HIDE DEF id, row
<1>7. TypeOK'
  <2>1. version' \in [Versions -> Row]
    BY <1>6 DEF IInv, TypeOK
  <2>2. training' \in [Trainers -> {Idle} \cup [pc : {"built"}]
         \cup [pc : {"evaluated"}, compared : VersionOrNone, evaluation : Found]
         \cup [pc : {"written"}, id : Versions, compared : VersionOrNone, evaluation : Found]]
    BY <1>3 DEF IInv, TypeOK
  <2>3. QED BY <1>3, <2>1, <2>2 DEF IInv, TypeOK
<1>8. ActiveOnes' = ActiveOnes /\ Active' = Active
  <2>1. ActiveOnes' = ActiveOnes
    BY <1>6, WithoutRow DEF ActiveOnes
  <2>2. QED BY <2>1 DEF Active
<1>9. AtMostOne' /\ ActiveHasArtifact'
  BY <1>3, <1>8 DEF IInv, AtMostOne, ActiveHasArtifact
<1>10. NumberInv'
  <2>1. \A v \in Versions : v >= next => v # i
    BY <1>6 DEF IInv, TypeOK, Versions
  <2>2. QED BY <1>3, <1>6, <2>1 DEF IInv, NumberInv
<1>11. ComparedInv'
  BY <1>6, <1>8 DEF IInv, ComparedInv, Idle
<1>12. WrittenInv'
  <2>1. ASSUME NEW u \in Trainers, training'[u].pc = "written"
        PROVE  u # t /\ training[u].pc = "written" /\ training'[u] = training[u]
    BY <1>6, <2>1 DEF Idle
  <2>2. ASSUME NEW u \in Trainers, training'[u].pc = "written"
        PROVE  /\ training'[u].id < next' /\ version'[training'[u].id] = Absent
    <3>1. training[u].id # i /\ training[u].id \in Versions
      BY <1>1, <1>4, <2>1, <2>2, WrittenStep DEF IInv, WrittenInv, id
    <3>2. QED BY <1>3, <1>6, <2>1, <2>2, <3>1 DEF IInv, WrittenInv
  <2>3. QED BY <2>1, <2>2 DEF IInv, WrittenInv
<1>13. SwitchInv'
  <2>1. SharesCompany(t)
    BY <1>1 DEF SharesCompany
  <2>2. \A s \in Switchers : ~LocksCompany(s)'
    BY <1>3, <2>1 DEF IInv, SwitchInv, LocksCompany
  <2>3. QED BY <2>2 DEF SwitchInv
<1>14. TrailInv'
  <2>1. \A k \in 1..Len(trail) : trail[k].to \in Versions /\ trail[k].to # i
    BY <1>6, WithoutRow, TrailRows DEF IInv, Trail
  <2>2. \A k \in 1..Len(trail) : version'[trail[k].to] = version[trail[k].to]
    BY <1>6, <2>1
  <2>3. SwitchesChain'
    BY <1>3, <1>8 DEF IInv, TrailInv, SwitchesChain
  <2>4. PromotedBeatsReplaced'
    <3>1. Len(trail') = Len(trail) /\ \A k \in 1..Len(trail) : trail'[k] = trail[k]
      BY <1>3
    <3>2. PromotedBeatsReplaced
      BY DEF IInv, TrailInv
    <3>3. ASSUME NEW k \in 1..Len(trail), trail[k].op = "promote", NEW kept, kept = version[trail[k].to]
          PROVE  /\ kept.compared = trail[k].from
                 /\ trail[k].from # NoVersion =>
                      \A class \in Checked(kept.evaluation) \cap DOMAIN kept.evaluation.baseline :
                        kept.evaluation.f1[class] >= kept.evaluation.baseline[class]
      BY ONLY <3>2, <3>3 DEF PromotedBeatsReplaced
    <3> HIDE DEF id
    <3>4. ASSUME NEW k \in 1..Len(trail), trail'[k].op = "promote", NEW kept, kept = version'[trail'[k].to]
          PROVE  /\ kept.compared = trail'[k].from
                 /\ trail'[k].from # NoVersion =>
                      \A class \in Checked(kept.evaluation) \cap DOMAIN kept.evaluation.baseline :
                        kept.evaluation.f1[class] >= kept.evaluation.baseline[class]
      <4>1. trail'[k] = trail[k] /\ kept = version[trail[k].to]
        BY <2>2, <3>1, <3>4
      <4> QED BY ONLY <3>3, <3>4, <4>1
    <3> QED BY ONLY <3>1, <3>4 DEF PromotedBeatsReplaced, Checked
  <2>5. QED BY <1>3, <2>2, <2>3, <2>4 DEF IInv, TrailInv
<1>15. ReaderInv'
  BY <1>3, ReaderUntouched DEF IInv
<1>q. QED BY <1>7, <1>9, <1>10, <1>11, <1>12, <1>13, <1>14, <1>15 DEF IInv

LEMMA FailKeeps ==
  ASSUME IInv, NEW t \in Trainers, FailTraining(t)
  PROVE  IInv'
<1>1. /\ training' = [training EXCEPT ![t] = Idle]
      /\ \A u \in Trainers : training'[u] = IF u = t THEN Idle ELSE training[u]
      /\ UNCHANGED <<version, next, trail, switch, reader>>
  BY DEF IInv, TypeOK, FailTraining, TrainerEnds, TrainerGoes
<1>2. /\ files' \subseteq files
      /\ \A v \in files : version[v] # Absent => v \in files'
  BY DEF IInv, FailTraining, WrittenInv
<1>3. TypeOK'
  <2>1. training' \in [Trainers -> {Idle} \cup [pc : {"built"}]
         \cup [pc : {"evaluated"}, compared : VersionOrNone, evaluation : Found]
         \cup [pc : {"written"}, id : Versions, compared : VersionOrNone, evaluation : Found]]
    BY <1>1 DEF IInv, TypeOK
  <2>2. QED BY <1>1, <1>2, <2>1 DEF IInv, TypeOK
<1>4. Active' = Active /\ ActiveHasArtifact'
  BY <1>1, <1>2, ActiveUntouched DEF IInv, ActiveHasArtifact, ActiveOnes, Absent
<1>5. TrailInv' /\ AtMostOne' /\ ReaderInv'
  BY <1>1, TrailUntouched, ReaderUntouched DEF IInv
<1>6. NumberInv'
  BY <1>1 DEF IInv, NumberInv
<1>7. ComparedInv' /\ WrittenInv'
  BY <1>1, <1>4 DEF IInv, ComparedInv, WrittenInv, Idle
<1>8. SwitchInv'
  <2> SUFFICES ASSUME NEW s \in Switchers, LocksCompany(s)'
               PROVE  /\ Stands(s)'
                      /\ \A o \in Switchers : LocksCompany(o)' => o = s
                      /\ \A u \in Trainers : ~SharesCompany(u)'
    BY DEF SwitchInv
  <2>1. \A o : LocksCompany(o)' <=> LocksCompany(o)
    BY <1>1 DEF LocksCompany
  <2>2. Stands(s) /\ switch[s].to \in files /\ \A u \in Trainers : ~SharesCompany(u)
    BY <2>1 DEF IInv, SwitchInv, Stands
  <2>3. files' = files
    BY <2>2 DEF FailTraining, SharesCompany
  <2>4. Stands(s)'
    BY <1>1, <1>4, <2>2, <2>3, StandsUntouched
  <2>5. \A u \in Trainers : ~SharesCompany(u)'
    BY <1>1, <2>2 DEF SharesCompany, Idle
  <2>6. QED BY <2>1, <2>4, <2>5 DEF IInv, SwitchInv
<1>q. QED BY <1>3, <1>4, <1>5, <1>6, <1>7, <1>8 DEF IInv

-----------------------------------------------------------------------------
LEMMA LockKeeps ==
  ASSUME IInv, NEW s \in Switchers, NEW v \in Versions, NEW op \in Ops,
         LockCompany(s, v, op)
  PROVE  IInv'
<1>1. PICK current \in VersionOrNone : current = Active
  BY ActiveIsActive DEF IInv
<1> DEFINE state == [pc |-> "locked", to |-> v, op |-> op, previous |-> current]
<1>2. /\ switch' = [switch EXCEPT ![s] = state]
      /\ \A o \in Switchers : switch'[o] = IF o = s THEN state ELSE switch[o]
      /\ UNCHANGED <<version, next, files, trail, training, reader>>
  BY <1>1 DEF IInv, TypeOK, LockCompany
<1>3. /\ state.pc = "locked" /\ state.to = v /\ state.op = op /\ state.previous = current
      /\ state \in [pc : {"locked"}, to : Versions, op : Ops, previous : VersionOrNone]
  OBVIOUS
<1>4. CompanyFree(s) /\ Allows(v, op, current)
  BY <1>1 DEF LockCompany
<1> HIDE DEF state
<1>5. TypeOK'
  BY <1>2, <1>3 DEF IInv, TypeOK
<1>6. Active' = Active /\ ActiveOnes' = ActiveOnes
  BY <1>2, ActiveUntouched
<1>7. TrailInv' /\ AtMostOne' /\ ReaderInv'
  BY <1>2, TrailUntouched, ReaderUntouched DEF IInv
<1>8. ActiveHasArtifact' /\ NumberInv' /\ ComparedInv' /\ WrittenInv'
  BY <1>2, <1>6 DEF IInv, ActiveHasArtifact, NumberInv, ComparedInv, WrittenInv
<1>9. SwitchInv'
  <2>1. \A o \in Switchers : LocksCompany(o)' => o = s
    BY <1>2, <1>4 DEF CompanyFree, LocksCompany
  <2>2. \A t \in Trainers : ~SharesCompany(t)'
    BY <1>2, <1>4 DEF CompanyFree, SharesCompany
  <2>3. Stands(s)'
    <3>1. switch'[s] = state /\ version' = version /\ files' = files
      BY <1>2
    <3>2. v \in files
      BY <1>4 DEF Allows, HasArtifact
    <3>3. CASE op = "promote"
      <4>1. version[v].status = "candidate" /\ Guardrails(v, current)
        BY <1>4, <3>3 DEF Allows
      <4>2. Guardrails(v, current)'
        BY <3>1, <4>1 DEF Guardrails, Checked
      <4>3. QED BY <1>1, <1>3, <1>6, <3>1, <3>2, <3>3, <4>1, <4>2 DEF Stands
    <3>4. CASE op # "promote"
      BY <1>1, <1>3, <1>4, <1>6, <3>1, <3>2, <3>4 DEF Stands, Allows
    <3>5. QED BY <3>3, <3>4
  <2>4. QED BY <2>1, <2>2, <2>3 DEF SwitchInv
<1>q. QED BY <1>5, <1>7, <1>8, <1>9 DEF IInv

LEMMA AbandonKeeps ==
  ASSUME IInv, NEW s \in Switchers, AbandonSwitch(s)
  PROVE  IInv'
<1>1. /\ switch' = [switch EXCEPT ![s] = Idle]
      /\ \A o \in Switchers : switch'[o] = IF o = s THEN Idle ELSE switch[o]
      /\ UNCHANGED <<version, next, files, trail, training, reader>>
      /\ LocksCompany(s)
  BY DEF IInv, TypeOK, AbandonSwitch
<1>2. TypeOK'
  BY <1>1 DEF IInv, TypeOK
<1>3. Active' = Active /\ ActiveOnes' = ActiveOnes
  BY <1>1, ActiveUntouched
<1>4. TrailInv' /\ AtMostOne' /\ ReaderInv'
  BY <1>1, TrailUntouched, ReaderUntouched DEF IInv
<1>5. ActiveHasArtifact' /\ NumberInv' /\ ComparedInv' /\ WrittenInv'
  BY <1>1, <1>3 DEF IInv, ActiveHasArtifact, NumberInv, ComparedInv, WrittenInv
<1>6. SwitchInv'
  <2>1. \A o \in Switchers : ~LocksCompany(o)'
    BY <1>1 DEF IInv, SwitchInv, LocksCompany, Idle
  <2>2. QED BY <2>1 DEF SwitchInv
<1>q. QED BY <1>2, <1>4, <1>5, <1>6 DEF IInv

(* The switch retires the version that was active and no other, puts the   *)
(* new one at the end of the chain and takes from the candidate only its   *)
(* status.                                                                 *)
LEMMA SwitchKeeps ==
  ASSUME IInv, NEW s \in Switchers, Switch(s)
  PROVE  IInv'
<1>1. /\ LocksCompany(s) /\ Stands(s)
      /\ \A o \in Switchers : LocksCompany(o) => o = s
      /\ \A t \in Trainers : ~SharesCompany(t)
  BY DEF IInv, SwitchInv, Switch
<1>2. switch[s] \in [pc : {"locked"}, to : Versions, op : Ops, previous : VersionOrNone]
  BY <1>1 DEF IInv, TypeOK, LocksCompany, Idle
<1>3. PICK to \in Versions, op \in Ops, from \in VersionOrNone :
        to = switch[s].to /\ op = switch[s].op /\ from = switch[s].previous
  BY <1>2
<1>4. /\ version' = [v \in Versions |->
           IF v = to THEN [version[v] EXCEPT !.status = "active"]
           ELSE IF v = from THEN [version[v] EXCEPT !.status = "retired"]
           ELSE version[v]]
      /\ trail' = Append(trail, [op |-> op, from |-> from, to |-> to])
      /\ switch' = [switch EXCEPT ![s] = Idle]
      /\ UNCHANGED <<next, files, training, reader>>
  BY <1>3 DEF Switch
<1>5. /\ from = Active /\ to \in files
      /\ op = "promote" => version[to].status = "candidate" /\ Guardrails(to, from)
      /\ op # "promote" => version[to].status = "retired"
  BY <1>1, <1>3 DEF Stands
<1>6. ASSUME NEW v \in Versions
      PROVE  /\ version'[v] \in Row
             /\ version'[v].compared = version[v].compared
             /\ version'[v].evaluation = version[v].evaluation
             /\ version'[v].status = IF v = to THEN "active"
                                     ELSE IF v = from THEN "retired" ELSE version[v].status
  BY <1>4 DEF IInv, TypeOK, Row
<1>7. ASSUME NEW v \in Versions, version[v] = Absent
      PROVE  version'[v] = Absent
  <2>1. v # to /\ v # from
    BY <1>5, <1>7, ActiveIsActive DEF IInv, Absent
  <2>2. QED BY <1>4, <1>7, <2>1
<1>8. /\ ActiveOnes' = {to} /\ Active' = to
      /\ to # from
  <2>1. to # from
    BY <1>5, ActiveIsActive DEF IInv
  <2>2. ActiveOnes' = {to}
    BY <1>5, <1>6, ActiveIsActive DEF IInv, ActiveOnes
  <2>3. Active' \in ActiveOnes'
    <3>1. ASSUME NEW w \in ActiveOnes' PROVE Active' \in ActiveOnes'
      BY <3>1 DEF Active
    <3>2. QED BY <2>2, <3>1
  <2>4. QED BY <2>1, <2>2, <2>3
<1>9. /\ [op |-> op, from |-> from, to |-> to] \in Trail
      /\ Len(trail) \in Nat /\ Len(trail') = Len(trail) + 1
      /\ \A k \in 1..Len(trail) : trail'[k] = trail[k] /\ trail[k] \in Trail
      /\ trail'[Len(trail) + 1] = [op |-> op, from |-> from, to |-> to]
      /\ trail' \in Seq(Trail)
  BY <1>4, TrailRows, AppendProperties DEF IInv, TypeOK, Trail
<1>10. TypeOK'
  <2>1. version' \in [Versions -> Row]
    BY <1>4, <1>6
  <2>2. switch' \in [Switchers -> {Idle}
          \cup [pc : {"locked"}, to : Versions, op : Ops, previous : VersionOrNone]]
    BY <1>4 DEF IInv, TypeOK
  <2>3. QED BY <1>4, <1>9, <2>1, <2>2 DEF IInv, TypeOK
<1>11. AtMostOne' /\ ActiveHasArtifact'
  BY <1>4, <1>5, <1>8 DEF AtMostOne, ActiveHasArtifact
<1>12. NumberInv'
  BY <1>4, <1>7 DEF IInv, NumberInv
<1>13. ComparedInv' /\ WrittenInv'
  BY <1>1, <1>4 DEF ComparedInv, WrittenInv, SharesCompany
<1>14. SwitchInv'
  <2>1. \A o \in Switchers : ~LocksCompany(o)'
    BY <1>1, <1>4 DEF IInv, TypeOK, LocksCompany, Idle
  <2>2. QED BY <2>1 DEF SwitchInv
<1>15. ASSUME NEW k \in 1..Len(trail')
       PROVE  \/ /\ k \in 1..Len(trail) /\ trail'[k] = trail[k] /\ trail[k].to \in Versions
              \/ /\ k = Len(trail) + 1 /\ k \notin 1..Len(trail)
                 /\ trail'[k].op = op /\ trail'[k].from = from /\ trail'[k].to = to
  BY <1>9 DEF Trail
<1>16. SwitchesChain'
  <2>1. from = IF trail = << >> THEN NoVersion ELSE trail[Len(trail)].to
    BY <1>5 DEF IInv, TrailInv, SwitchesChain
  <2>2. trail = << >> <=> Len(trail) = 0
    BY EmptySeq DEF IInv, TypeOK
  <2>3. \A k \in 1..Len(trail') :
          trail'[k].from = IF k = 1 THEN NoVersion ELSE trail'[k - 1].to
    <3> TAKE k \in 1..Len(trail')
    <3>1. CASE k \in 1..Len(trail)
      BY SMTT(30), <1>9, <1>15, <3>1 DEF IInv, TrailInv, SwitchesChain
    <3>2. CASE k = Len(trail) + 1
      BY <1>9, <2>1, <2>2, <3>2
    <3>3. QED BY <1>9, <3>1, <3>2
  <2>4. trail' # << >>
    BY <1>9
  <2>5. Active' = trail'[Len(trail')].to
    BY <1>8, <1>9
  <2>6. QED BY <2>3, <2>4, <2>5 DEF SwitchesChain
<1>17. PromotedBeatsReplaced'
  <2> SUFFICES ASSUME NEW k \in 1..Len(trail'), trail'[k].op = "promote"
               PROVE  LET row == version'[trail'[k].to] IN
                      /\ row.compared = trail'[k].from
                      /\ trail'[k].from # NoVersion =>
                           \A c \in Checked(row.evaluation) \cap DOMAIN row.evaluation.baseline :
                             row.evaluation.f1[c] >= row.evaluation.baseline[c]
    BY DEF PromotedBeatsReplaced, Checked
  <2>1. CASE k \in 1..Len(trail) /\ trail'[k] = trail[k] /\ trail[k].to \in Versions
    <3>1. /\ version'[trail[k].to].compared = version[trail[k].to].compared
          /\ version'[trail[k].to].evaluation = version[trail[k].to].evaluation
      BY <1>6, <2>1
    <3>2. QED BY <2>1, <3>1 DEF IInv, TrailInv, PromotedBeatsReplaced
  <2>2. CASE trail'[k].op = op /\ trail'[k].from = from /\ trail'[k].to = to
    <3>1. Guardrails(to, from)
      BY <1>5, <2>2
    <3>2. /\ version'[to].compared = version[to].compared
          /\ version'[to].evaluation = version[to].evaluation
      BY <1>6
    <3>3. QED BY <2>2, <3>1, <3>2 DEF Guardrails
  <2>3. QED BY <1>15, <2>1, <2>2
<1>18. \A k \in 1..Len(trail') : version'[trail'[k].to].status \in {"active", "retired"}
  <2> TAKE k \in 1..Len(trail')
  <2>1. CASE k \in 1..Len(trail) /\ trail'[k] = trail[k] /\ trail[k].to \in Versions
    BY <1>6, <2>1 DEF IInv, TrailInv
  <2>2. CASE trail'[k].to = to
    BY <1>6, <2>2
  <2>3. QED BY <1>15, <2>1, <2>2
<1>19. ReaderInv'
  <2> SUFFICES ASSUME NEW r \in Readers
               PROVE  /\ reader[r].pc = "loaded" =>
                           /\ reader[r].since <= Len(trail')
                           /\ reader[r].used = After(reader[r].since)'
                      /\ reader[r].pc = "done" =>
                           \/ reader[r].reported = reader[r].used
                           \/ \E k \in (reader[r].since + 1)..Len(trail') :
                                trail'[k].to = reader[r].reported
    BY <1>4 DEF ReaderInv, ReportIsUsedOrLater
  <2>1. reader[r].pc \in {"loaded", "done"} => reader[r].since \in Nat
    BY DEF IInv, TypeOK, Idle
  <2>2. CASE reader[r].pc = "loaded"
    <3>1. /\ reader[r].since \in Nat /\ reader[r].since <= Len(trail)
          /\ reader[r].used = After(reader[r].since)
      BY <2>1, <2>2 DEF IInv, ReaderInv
    <3>2. QED BY <1>4, <1>9, <2>2, <3>1 DEF After
  <2>3. CASE reader[r].pc = "done"
    <3>1. CASE reader[r].reported = reader[r].used
      BY <2>3, <3>1
    <3>2. ASSUME NEW k \in (reader[r].since + 1)..Len(trail),
                 trail[k].to = reader[r].reported
          PROVE  /\ k \in (reader[r].since + 1)..Len(trail')
                 /\ trail'[k].to = reader[r].reported
      BY <1>9, <2>1, <2>3, <3>2
    <3>3. QED BY <2>3, <3>1, <3>2 DEF IInv, ReaderInv, ReportIsUsedOrLater
  <2>4. QED BY <2>2, <2>3
<1>q. QED BY <1>10, <1>11, <1>12, <1>13, <1>14, <1>16, <1>17, <1>18, <1>19 DEF IInv, TrailInv

-----------------------------------------------------------------------------
LEMMA LoadKeeps ==
  ASSUME IInv, NEW r \in Readers, LoadModel(r)
  PROVE  IInv'
<1>1. PICK used \in VersionOrNone : used = Active
  BY ActiveIsActive DEF IInv
<1>2. PICK from \in Nat : from = Len(trail)
  BY TrailRows DEF IInv
<1> DEFINE state == [pc |-> "loaded", used |-> used, since |-> from]
<1>3. /\ reader' = [reader EXCEPT ![r] = state]
      /\ \A q \in Readers : reader'[q] = IF q = r THEN state ELSE reader[q]
      /\ UNCHANGED <<version, next, files, trail, training, switch>>
  BY <1>1, <1>2 DEF IInv, TypeOK, LoadModel
<1>4. /\ state.pc = "loaded" /\ state.used = used /\ state.since = from
      /\ state \in [pc : {"loaded"}, used : VersionOrNone, since : Nat]
  OBVIOUS
<1> HIDE DEF state
<1>5. TypeOK'
  BY <1>3, <1>4 DEF IInv, TypeOK
<1>6. used = After(from)
  <2>1. trail = << >> <=> Len(trail) = 0
    BY EmptySeq DEF IInv, TypeOK
  <2>2. QED
    BY <1>1, <1>2, <2>1 DEF IInv, TrailInv, SwitchesChain, After
<1>7. ReaderInv'
  BY <1>2, <1>3, <1>4, <1>6 DEF IInv, ReaderInv, ReportIsUsedOrLater, After
<1>8. TrailInv' /\ AtMostOne'
  BY <1>3, TrailUntouched DEF IInv
<1>9. SwitchInv' /\ ActiveHasArtifact' /\ NumberInv' /\ ComparedInv' /\ WrittenInv'
  BY <1>3, RowsAndSwitchesUntouched DEF IInv
<1>q. QED BY <1>5, <1>7, <1>8, <1>9 DEF IInv

(* What is active now is what was used, or the end of a chain that got     *)
(* longer since.                                                           *)
LEMMA ReportKeeps ==
  ASSUME IInv, NEW r \in Readers, Report(r)
  PROVE  IInv'
<1>1. PICK reported \in VersionOrNone : reported = Active
  BY ActiveIsActive DEF IInv
<1>2. /\ reader[r].pc = "loaded"
      /\ reader[r].used \in VersionOrNone /\ reader[r].since \in Nat
  BY DEF IInv, TypeOK, Report, Idle
<1> DEFINE state == [pc |-> "done", used |-> reader[r].used, since |-> reader[r].since,
                     reported |-> reported]
<1>3. /\ reader' = [reader EXCEPT ![r] = state]
      /\ \A q \in Readers : reader'[q] = IF q = r THEN state ELSE reader[q]
      /\ UNCHANGED <<version, next, files, trail, training, switch>>
  BY <1>1 DEF IInv, TypeOK, Report
<1>4. /\ state.pc = "done" /\ state.used = reader[r].used
      /\ state.since = reader[r].since /\ state.reported = reported
      /\ state \in [pc : {"done"}, used : VersionOrNone, since : Nat,
                    reported : VersionOrNone]
  BY <1>2
<1> HIDE DEF state
<1>5. TypeOK'
  BY <1>3, <1>4 DEF IInv, TypeOK
<1>6. /\ reader[r].since <= Len(trail) /\ reader[r].used = After(reader[r].since)
      /\ Len(trail) \in Nat
  BY <1>2, TrailRows DEF IInv, ReaderInv
<1>7. reported = After(Len(trail))
  <2>1. trail = << >> <=> Len(trail) = 0
    BY EmptySeq DEF IInv, TypeOK
  <2>2. QED BY <1>1, <2>1 DEF IInv, TrailInv, SwitchesChain, After
<1>8. \/ reported = reader[r].used
      \/ \E k \in (reader[r].since + 1)..Len(trail) : trail[k].to = reported
  <2>1. CASE reader[r].since = Len(trail)
    BY <1>6, <1>7, <2>1
  <2>2. CASE reader[r].since < Len(trail)
    <3>1. Len(trail) \in (reader[r].since + 1)..Len(trail)
      BY <1>2, <1>6, <2>2
    <3>2. trail[Len(trail)].to = reported
      BY <1>2, <1>6, <1>7, <2>2 DEF After
    <3>3. QED BY <3>1, <3>2
  <2>3. QED BY <1>2, <1>6, <2>1, <2>2
<1>9. ReaderInv'
  BY <1>3, <1>4, <1>8 DEF IInv, ReaderInv, ReportIsUsedOrLater, After
<1>10. TrailInv' /\ AtMostOne'
  BY <1>3, TrailUntouched DEF IInv
<1>11. SwitchInv' /\ ActiveHasArtifact' /\ NumberInv' /\ ComparedInv' /\ WrittenInv'
  BY <1>3, RowsAndSwitchesUntouched DEF IInv
<1>q. QED BY <1>5, <1>9, <1>10, <1>11 DEF IInv

LEMMA LoseKeeps ==
  ASSUME IInv, NEW v \in Versions, LoseFile(v)
  PROVE  IInv'
<1>1. /\ version[v].status \in {"candidate", "retired"}
      /\ \A s \in Switchers : LocksCompany(s) => switch[s].to # v
      /\ files' = files \ {v}
      /\ UNCHANGED <<version, next, trail, training, switch, reader>>
  BY DEF LoseFile
<1>2. TypeOK'
  BY <1>1 DEF IInv, TypeOK
<1>3. Active' = Active /\ ActiveOnes' = ActiveOnes
  BY <1>1, ActiveUntouched
<1>4. TrailInv' /\ AtMostOne' /\ ReaderInv'
  BY <1>1, TrailUntouched, ReaderUntouched DEF IInv
<1>5. ActiveHasArtifact'
  BY <1>1, <1>3 DEF IInv, ActiveHasArtifact, ActiveOnes
<1>6. NumberInv' /\ ComparedInv' /\ WrittenInv'
  BY <1>1, <1>3 DEF IInv, NumberInv, ComparedInv, WrittenInv
<1>7. SwitchInv'
  <2> SUFFICES ASSUME NEW s \in Switchers, LocksCompany(s)
               PROVE  Stands(s)'
    BY <1>1 DEF IInv, SwitchInv, LocksCompany, SharesCompany
  <2>1. Stands(s) /\ switch[s].to \in files'
    BY <1>1 DEF IInv, SwitchInv, Stands
  <2>2. QED BY <1>1, <1>3, <2>1, StandsUntouched
<1>q. QED BY <1>2, <1>4, <1>5, <1>6, <1>7 DEF IInv

-----------------------------------------------------------------------------
(* The inductive invariant.                                                *)
LEMMA StepKeeps == IInv /\ [Next]_mvars => IInv'
<1> SUFFICES ASSUME IInv, [Next]_mvars PROVE IInv'
  OBVIOUS
<1>1. ASSUME NEW t \in Trainers,
             \/ Build(t) \/ EvaluateCandidate(t) \/ WriteArtifact(t)
             \/ CommitCandidate(t) \/ FailTraining(t) \/ CrashTraining(t)
      PROVE  IInv'
  BY <1>1, BuildKeeps, EvaluateKeeps, WriteKeeps, CommitKeeps, FailKeeps, CrashKeeps
<1>2. ASSUME NEW s \in Switchers, NEW v \in Versions, NEW op \in {"promote", "rollback"},
             LockCompany(s, v, op)
      PROVE  IInv'
  BY <1>2, LockKeeps DEF Ops
<1>3. ASSUME NEW s \in Switchers, Switch(s) \/ AbandonSwitch(s)
      PROVE  IInv'
  BY <1>3, SwitchKeeps, AbandonKeeps
<1>4. ASSUME NEW r \in Readers, LoadModel(r) \/ Report(r)
      PROVE  IInv'
  BY <1>4, LoadKeeps, ReportKeeps
<1>5. ASSUME NEW v \in Versions, LoseFile(v)
      PROVE  IInv'
  BY <1>5, LoseKeeps
<1>6. CASE UNCHANGED mvars
  <2>1. UNCHANGED <<version, next, files, trail, training, switch, reader>>
    BY <1>6 DEF mvars
  <2>2. TypeOK'
    BY <2>1 DEF IInv, TypeOK
  <2>3. TrailInv' /\ AtMostOne' /\ ReaderInv'
    BY <2>1, TrailUntouched, ReaderUntouched DEF IInv
  <2>4. QED BY <2>1, <2>2, <2>3, RowsAndSwitchesUntouched DEF IInv
<1>q. QED BY <1>1, <1>2, <1>3, <1>4, <1>5, <1>6 DEF Next

(* The invariant the theorems below rest on: what a request read under its *)
(* lock and what a training compared with stay so, the chain of switches   *)
(* ends in the active version, and a job remembers where it joined it.     *)
THEOREM Invariance == Spec => []IInv
<1>1. Init => IInv
  BY Initially
<1>2. IInv /\ [Next]_mvars => IInv'
  BY StepKeeps
<1>q. QED BY <1>1, <1>2, PTL DEF Spec

(* Promotions and rollbacks that overlap leave one active version, whose   *)
(* artifact is there, at the end of a chain without gaps: the lock of the  *)
(* company is enough, and the unique index never has to refuse             *)
(* (change_active_version).                                                *)
THEOREM OneVersionIsActive == Spec => []SwitchesAreWhole
<1>1. ASSUME IInv PROVE OneActive
  <2>1. CASE ActiveOnes = {}
    BY <2>1, FS_EmptySet DEF OneActive
  <2>2. ASSUME NEW v \in ActiveOnes PROVE OneActive
    <3>1. ActiveOnes = {v}
      BY <1>1, <2>2 DEF IInv, AtMostOne
    <3>2. Cardinality(ActiveOnes) = 1
      BY <3>1, FS_Singleton
    <3>3. QED BY <3>2 DEF OneActive
  <2>3. QED BY <2>1, <2>2
<1>2. IInv => SwitchesAreWhole
  BY <1>1 DEF IInv, TrailInv, SwitchesAreWhole
<1>q. QED BY <1>2, Invariance, PTL

(* A candidate is published and promoted on a comparison with the version  *)
(* that is active at that moment, and a job names the version it predicted *)
(* with or one made active since (create_candidate, _check_guardrails,     *)
(* MLWorker._classify).                                                    *)
THEOREM ComparisonsHold == Spec => ComparisonsAreCurrent
<1>1. IInv => PromotedBeatsReplaced /\ ReportIsUsedOrLater
  BY DEF IInv, TrailInv, ReaderInv
<1>2. ASSUME IInv, Next PROVE CandidateIsFresh
  <2> SUFFICES ASSUME NEW v \in Versions, version[v] = Absent, version'[v] # Absent
               PROVE  version'[v].compared = Active
    BY DEF CandidateIsFresh
  <2>1. ASSUME NEW t \in Trainers, CommitCandidate(t)
        PROVE  version'[v].compared = Active
    <3>1. /\ training[t].pc = "written" /\ training[t].compared = Active
          /\ version' = [version EXCEPT ![training[t].id] = Candidate(t)]
      BY <1>2, <2>1 DEF CommitCandidate, IInv, ComparedInv
    <3>2. v = training[t].id /\ version'[v] = Candidate(t)
      BY <1>2, <3>1 DEF IInv, TypeOK
    <3>3. QED BY <3>1, <3>2 DEF Candidate
  <2>2. ASSUME NEW s \in Switchers, Switch(s)
        PROVE  FALSE
    <3>1. v # switch[s].to /\ v # switch[s].previous
      BY <1>2, <2>2, ActiveIsActive
        DEF IInv, SwitchInv, Switch, Stands, Absent
    <3>2. QED BY <2>2, <3>1 DEF Switch
  <2>3. version' # version
    OBVIOUS
  <2>4. QED
    BY <1>2, <2>1, <2>2, <2>3
       DEF Next, Build, EvaluateCandidate, WriteArtifact, FailTraining, CrashTraining,
           LockCompany, AbandonSwitch, LoadModel, Report, LoseFile
<1>3. IInv /\ IInv' /\ [Next]_mvars =>
        [PromotedBeatsReplaced' /\ ReportIsUsedOrLater' /\ CandidateIsFresh]_mvars
  <2>1. IInv' => PromotedBeatsReplaced' /\ ReportIsUsedOrLater'
    BY <1>1, PTL
  <2>2. QED BY <1>2, <2>1
<1>q. QED BY <1>3, Invariance, PTL DEF Spec, ComparisonsAreCurrent

-----------------------------------------------------------------------------
(* The dataset.                                                            *)

(* An example, from what the manifest records of its source.               *)
RowOf(h) ==
  [source |-> h[1],
   target |-> IF h[1] \notin Lines THEN h[2].final
              ELSE IF h[2] = NoFeedback THEN h[1].other ELSE h[2].conta]
HashOf(b, x) == IF x \in Lines THEN LineHash(x, b.feedback) ELSE MovHash(x, b.movs[x])
Excluded(exclusions, x) == \E e \in exclusions : e[1] = x

Doubts == {"snapshot_missing", "snapshot_conflict"}
Early == {"movements", "origins", "feedback", "targets", "reviews"}
Late == {"lines", "judge", "financial", "judging", "commit"}

BuildShape(b) ==
  /\ b.pc \in Early \cup Late
  /\ {"pc", "lines", "rows", "exclusions"} \subseteq DOMAIN b
  /\ b.pc \in Early => b.rows = {} /\ b.exclusions = {}
  /\ b.pc # "movements" => "movs" \in DOMAIN b
  /\ b.pc \in {"targets", "reviews"} \cup Late => "feedback" \in DOMAIN b
  /\ b.pc \in Late => {"blocked", "left"} \subseteq DOMAIN b
  /\ b.pc \in {"lines", "judge"} => b.left \subseteq b.lines
  /\ b.pc = "judge" => b.left # {} /\ "chart" \in DOMAIN b /\ b.chart \in Snapshots \cup Doubts
  /\ b.pc = "judging" => b.left \subseteq Movs

(* The lines were read whole batches at a time; an item that nobody has    *)
(* touched since the beginning is among what holds them up.                *)
LinesRead(b) ==
  /\ b.lines \subseteq LinesOf(imported)
  /\ \A l \in b.lines, k \in Lines : k.lote = l.lote => k \in b.lines
  /\ b.pc \in Late => \A x \in Batches \ since :
       item[x].status \in {"open", "dismissed"} => item[x].about \cap b.lines \subseteq b.blocked

(* What the builder has judged: an example of each, or its exclusion.      *)
Done(b) ==
  IF b.pc \in {"lines", "judge"} THEN b.lines \ b.left
  ELSE IF b.pc = "financial" THEN b.lines
  ELSE IF b.pc = "judging" THEN b.lines \cup (Movs \ b.left) ELSE b.lines \cup Movs
JudgedSoFar(b) ==
  b.pc \in Late =>
    /\ IsFiniteSet(b.rows) /\ IsFiniteSet(b.exclusions)
    /\ \A e \in b.exclusions : e[1] \in Done(b)
    /\ b.rows = {RowOf(HashOf(b, x)) : x \in {y \in Done(b) : ~Excluded(b.exclusions, y)}}
    /\ Cardinality(b.rows) + Cardinality(b.exclusions) = Cardinality(Done(b))
    /\ \A x \in Done(b) \cap Lines : Excluded(b.exclusions, x) \/ ~Covers(b.blocked, x)

Explained(m) ==
  m.rows = {RowOf(h) : h \in {x \in m.hashes : ~Excluded(m.exclusions, x[1])}}

WorldOK ==
  /\ events \subseteq Snapshots /\ \A x \in chosen : x[2] \in Snapshots
  /\ item \in [Batches -> [status : {"absent", "open", "resolved", "dismissed"},
                           about : SUBSET Lines]]
Discards(b) ==
  b.pc = "commit" /\ LinesOf(imported) = b.lines => b.discards = Cardinality(b.exclusions)

DatasetInv ==
  /\ WorldOK
  /\ build # NoBuild =>
       BuildShape(build) /\ LinesRead(build) /\ JudgedSoFar(build) /\ Discards(build)
  /\ \E S : manifests \in Seq(S)
  /\ \A i \in DOMAIN manifests : Explained(manifests[i])

-----------------------------------------------------------------------------
(* A set of natural numbers that is not empty has a least element.         *)
LEMMA LeastNumber ==
  ASSUME NEW T \in SUBSET Nat, T # {}
  PROVE  \E x \in T : \A y \in T : x <= y
<1> DEFINE upTo == {S \in SUBSET Nat : \E x \in T : S = 0..x}
<1>1. upTo \subseteq FiniteSubsetsOf(Nat) /\ upTo # {}
  <2>1. PICK x \in T : TRUE
    OBVIOUS
  <2>2. 0..x \in upTo
    OBVIOUS
  <2>3. ASSUME NEW y \in T PROVE IsFiniteSet(0..y)
    BY FS_Interval
  <2> QED BY <2>2, <2>3 DEF FiniteSubsetsOf
<1>2. PICK S \in upTo : \A R \in upTo : ~(<<R, S>> \in StrictSubsetOrdering(Nat))
  <2> HIDE DEF upTo
  <2> QED BY <1>1, FS_StrictSubsetOrderingWellFounded, WFMin
<1>3. PICK x \in T : S = 0..x
  OBVIOUS
<1>4. ASSUME NEW y \in T PROVE x <= y
  <2>1. 0..y \in upTo
    OBVIOUS
  <2>2. ~(<<0..y, 0..x>> \in StrictSubsetOrdering(Nat))
    BY <2>1, <1>2, <1>3
  <2> SUFFICES ASSUME y < x PROVE FALSE
    OBVIOUS
  <2>3. 0..y \subseteq 0..x /\ x \in 0..x /\ x \notin 0..y
    OBVIOUS
  <2>4. 0..y # 0..x /\ 0..y \in SUBSET Nat /\ 0..x \in SUBSET Nat
    BY <2>3
  <2> QED BY <2>2, <2>3, <2>4 DEF StrictSubsetOrdering
<1> QED BY <1>4

LEMMA SnapshotKnown ==
  ASSUME WorldOK, NEW d
  PROVE  SnapshotAt(d) \in Snapshots \cup Doubts
BY DEF WorldOK, SnapshotAt, Doubts

(* The next source is one of those that are left.                          *)
LEMMA NextIsLeft ==
  ASSUME NEW b, b.left \subseteq Lines \cup Movs, b.left # {}
  PROVE  Next1(b) \in b.left
<1> DEFINE T == {l.id : l \in b.left}
<1>1. T \in SUBSET Nat /\ T # {}
  BY DatasetAssumption
<1> HIDE DEF T
<1>2. PICK t \in T : \A y \in T : t <= y
  BY <1>1, LeastNumber
<1> USE DEF T
<1>3. PICK l \in b.left : l.id = t
  BY <1>2
<1>4. \A k \in b.left : l.id <= k.id
  BY <1>2, <1>3
<1> QED BY <1>3, <1>4 DEF Next1

LEMMA LineIsNoMovement ==
  /\ \A x \in Movs : x \notin Lines
  /\ \A B : LinesOf(B) \subseteq Lines
BY DatasetAssumption DEF LinesOf

(* A source that was not judged is judged.                                 *)
LEMMA JudgedOne ==
  ASSUME NEW b, NEW c, b.pc \in Late, c.pc \in Late, JudgedSoFar(b),
         NEW x, x \notin Done(b), Done(c) = Done(b) \cup {x}, IsFiniteSet(Done(b)),
         c.feedback = b.feedback, c.movs = b.movs, c.blocked = b.blocked,
         NEW reason, reason = "none" /\ x \in Lines => ~Covers(b.blocked, x),
         IF reason = "none"
         THEN c.rows = b.rows \cup {RowOf(HashOf(b, x))} /\ c.exclusions = b.exclusions
         ELSE c.rows = b.rows /\ c.exclusions = b.exclusions \cup {<<x, reason>>}
  PROVE  JudgedSoFar(c)
<1> DEFINE D == Done(b)
           R(y) == RowOf(HashOf(b, y))
           E == b.exclusions
<1>1. /\ IsFiniteSet(b.rows) /\ IsFiniteSet(E)
      /\ \A e \in E : e[1] \in D
      /\ b.rows = {R(y) : y \in {z \in D : ~Excluded(E, z)}}
      /\ Cardinality(b.rows) + Cardinality(E) = Cardinality(D)
      /\ \A y \in D \cap Lines : Excluded(E, y) \/ ~Covers(b.blocked, y)
  BY DEF JudgedSoFar
<1>2. Cardinality(D \cup {x}) = Cardinality(D) + 1
  BY FS_AddElement
<1>3. /\ Cardinality(b.rows) \in Nat /\ Cardinality(E) \in Nat /\ Cardinality(D) \in Nat
  BY <1>1, FS_CardinalityType
<1>4. \A y : R(y).source = y
  BY DEF RowOf, HashOf, LineHash, MovHash
<1>5. \A y : RowOf(HashOf(c, y)) = R(y)
  BY DEF HashOf
<1>6. ~Excluded(E, x)
  BY <1>1 DEF Excluded
<1> HIDE DEF D, R
<1>7. CASE reason = "none"
  <2>1. R(x) \notin b.rows
    BY <1>1, <1>4 DEF D
  <2>2. /\ IsFiniteSet(b.rows \cup {R(x)})
        /\ Cardinality(b.rows \cup {R(x)}) = Cardinality(b.rows) + 1
    BY <1>1, <2>1, FS_AddElement
  <2>3. c.rows = b.rows \cup {R(x)} /\ c.exclusions = E
    BY <1>7 DEF R
  <2>4. b.rows \cup {R(x)} = {R(y) : y \in {z \in D \cup {x} : ~Excluded(E, z)}}
    BY <1>1, <1>6
  <2>5. c.rows = {RowOf(HashOf(c, y)) : y \in {z \in D \cup {x} : ~Excluded(E, z)}}
    BY <2>3, <2>4, <1>5
  <2>6. Cardinality(c.rows) + Cardinality(c.exclusions) = Cardinality(D \cup {x})
    BY <2>2, <2>3, <1>1, <1>2, <1>3
  <2>7. \A y \in (D \cup {x}) \cap Lines : Excluded(E, y) \/ ~Covers(b.blocked, y)
    BY <1>1, <1>7
  <2> QED BY <2>2, <2>3, <2>5, <2>6, <2>7, <1>1 DEF JudgedSoFar, D
<1>8. CASE reason # "none"
  <2> DEFINE F == E \cup {<<x, reason>>}
  <2>1. <<x, reason>> \notin E
    BY <1>1 DEF D
  <2>2. IsFiniteSet(F) /\ Cardinality(F) = Cardinality(E) + 1
    BY <1>1, <2>1, FS_AddElement
  <2>3. c.rows = b.rows /\ c.exclusions = F
    BY <1>8
  <2>4. ASSUME NEW y PROVE Excluded(F, y) <=> Excluded(E, y) \/ y = x
    <3>1. <<x, reason>> \in F /\ <<x, reason>>[1] = x /\ E \subseteq F
      OBVIOUS
    <3>2. \A e \in F : e \in E \/ e[1] = x
      OBVIOUS
    <3> HIDE DEF F, E
    <3> QED BY <3>1, <3>2 DEF Excluded
  <2>5. \A e \in F : e[1] \in D \cup {x}
    BY <1>1
  <2> HIDE DEF F
  <2>6. {z \in D \cup {x} : ~Excluded(F, z)} = {z \in D : ~Excluded(E, z)}
    BY <2>4 DEF D
  <2>7. c.rows = {RowOf(HashOf(c, y)) : y \in {z \in D \cup {x} : ~Excluded(F, z)}}
    BY <2>3, <2>6, <1>1, <1>5
  <2>8. Cardinality(c.rows) + Cardinality(c.exclusions) = Cardinality(D \cup {x})
    BY <2>2, <2>3, <1>1, <1>2, <1>3
  <2>9. \A y \in (D \cup {x}) \cap Lines : Excluded(F, y) \/ ~Covers(b.blocked, y)
    BY <1>1, <2>4
  <2> QED BY <2>2, <2>3, <2>5, <2>7, <2>8, <2>9, <1>1 DEF JudgedSoFar, D
<1> QED BY <1>7, <1>8

-----------------------------------------------------------------------------
(* Steps of the builder *)

LEMMA BuilderTurns ==
  ASSUME DatasetInv, NEW b, Turns(b), BuildShape(b), LinesRead(b), JudgedSoFar(b), Discards(b)
  PROVE  DatasetInv'
<1>1. build' = b /\ UNCHANGED <<world, since, manifests>>
  BY DEF Turns
<1>2. UNCHANGED <<imported, events, chosen, item>>
  BY <1>1 DEF world
<1>3. WorldOK'
  BY <1>2 DEF DatasetInv, WorldOK
<1>4. BuildShape(build)' /\ JudgedSoFar(build)'
  <2>1. Done(build)' = Done(b) /\ \A x : HashOf(build, x)' = HashOf(b, x)
    BY <1>1 DEF Done, HashOf
  <2>2. JudgedSoFar(build)'
    BY <1>1, <2>1 DEF JudgedSoFar
  <2>3. BuildShape(build)'
    BY <1>1 DEF BuildShape
  <2> QED BY <2>2, <2>3
<1>5. LinesRead(build)' /\ Discards(build)'
  BY <1>1, <1>2 DEF LinesRead, Discards, LinesOf
<1>6. (\E S : manifests' \in Seq(S)) /\ \A i \in DOMAIN manifests' : Explained(manifests'[i])
  BY <1>1 DEF DatasetInv
<1> QED BY <1>1, <1>3, <1>4, <1>5, <1>6 DEF DatasetInv

(* Before the lines are judged.                                            *)
LEMMA EarlyStep ==
  ASSUME DatasetInv, build # NoBuild, NEW b, Turns(b), b.pc \in Early, BuildShape(b),
         b.lines = build.lines
  PROVE  DatasetInv'
<1>1. b.pc \notin Late /\ b.pc # "commit"
  BY DEF Early, Late
<1>2. LinesRead(b) /\ JudgedSoFar(b) /\ Discards(b)
  BY <1>1 DEF DatasetInv, LinesRead, JudgedSoFar, Discards
<1> QED BY <1>2, BuilderTurns

LEMMA ReadMovementsStep ==
  ASSUME DatasetInv, ReadMovements
  PROVE  DatasetInv'
<1> DEFINE b == With(build, "movs", mov, "origins")
<1>1. Turns(b) /\ build # NoBuild /\ build.pc = "movements" /\ BuildShape(build)
  BY DEF ReadMovements, NoBuild, DatasetInv
<1>2. {"pc", "lines", "rows", "exclusions"} \subseteq DOMAIN build
      /\ build.rows = {} /\ build.exclusions = {}
  BY <1>1 DEF BuildShape, Early
<1>3. /\ DOMAIN b = DOMAIN build \cup {"movs"} /\ b.pc = "origins"
      /\ \A g \in DOMAIN build \ {"movs", "pc"} : b[g] = build[g]
  BY <1>2 DEF With
<1> HIDE DEF b
<1>4. b.lines = build.lines /\ b.rows = {} /\ b.exclusions = {}
  BY <1>2, <1>3
<1>5. BuildShape(b) /\ b.pc \in Early
  BY <1>2, <1>3, <1>4 DEF BuildShape, Early, Late
<1> QED BY <1>1, <1>4, <1>5, EarlyStep

LEMMA ReadOriginsStep ==
  ASSUME DatasetInv, ReadOrigins
  PROVE  DatasetInv'
<1>1. PICK h, o : Turns(With(With(build, "held", h, "feedback"), "origins", o, "feedback"))
  BY DEF ReadOrigins
<1> DEFINE c == With(build, "held", h, "feedback")
           b == With(c, "origins", o, "feedback")
<1>2. Turns(b) /\ build # NoBuild /\ build.pc = "origins" /\ BuildShape(build)
  BY <1>1 DEF ReadOrigins, NoBuild, DatasetInv
<1>3. {"pc", "lines", "rows", "exclusions", "movs"} \subseteq DOMAIN build
      /\ build.rows = {} /\ build.exclusions = {}
  BY <1>2 DEF BuildShape, Early
<1>4. /\ DOMAIN c = DOMAIN build \cup {"held"} /\ c.pc = "feedback"
      /\ \A g \in DOMAIN build \ {"held", "pc"} : c[g] = build[g]
  BY <1>3 DEF With
<1> HIDE DEF c
<1>5. /\ DOMAIN b = DOMAIN c \cup {"origins"} /\ b.pc = "feedback"
      /\ \A g \in DOMAIN c \ {"origins", "pc"} : b[g] = c[g]
  BY <1>3, <1>4 DEF With
<1> HIDE DEF b
<1>6. b.lines = build.lines /\ b.rows = {} /\ b.exclusions = {}
  BY <1>3, <1>4, <1>5
<1>7. BuildShape(b) /\ b.pc \in Early
  BY <1>3, <1>4, <1>5, <1>6 DEF BuildShape, Early, Late
<1> QED BY <1>2, <1>6, <1>7, EarlyStep

LEMMA ReadFeedbackStep ==
  ASSUME DatasetInv, ReadFeedback
  PROVE  DatasetInv'
<1> DEFINE b == With(build, "feedback", feedback, "targets")
<1>1. Turns(b) /\ build # NoBuild /\ build.pc = "feedback" /\ BuildShape(build)
  BY DEF ReadFeedback, NoBuild, DatasetInv
<1>2. {"pc", "lines", "rows", "exclusions", "movs"} \subseteq DOMAIN build
      /\ build.rows = {} /\ build.exclusions = {}
  BY <1>1 DEF BuildShape, Early
<1>3. /\ DOMAIN b = DOMAIN build \cup {"feedback"} /\ b.pc = "targets"
      /\ \A g \in DOMAIN build \ {"feedback", "pc"} : b[g] = build[g]
  BY <1>2 DEF With
<1> HIDE DEF b
<1>4. b.lines = build.lines /\ b.rows = {} /\ b.exclusions = {}
  BY <1>2, <1>3
<1>5. BuildShape(b) /\ b.pc \in Early
  BY <1>2, <1>3, <1>4 DEF BuildShape, Early, Late
<1> QED BY <1>1, <1>4, <1>5, EarlyStep

LEMMA ReadTargetsStep ==
  ASSUME DatasetInv, ReadTargets
  PROVE  DatasetInv'
<1>1. PICK v : Turns(With(build, "targets", v, "reviews"))
  BY DEF ReadTargets
<1> DEFINE b == With(build, "targets", v, "reviews")
<1>2. Turns(b) /\ build # NoBuild /\ build.pc = "targets" /\ BuildShape(build)
  BY <1>1 DEF ReadTargets, NoBuild, DatasetInv
<1>3. {"pc", "lines", "rows", "exclusions", "movs", "feedback"} \subseteq DOMAIN build
      /\ build.rows = {} /\ build.exclusions = {}
  BY <1>2 DEF BuildShape, Early
<1>4. /\ DOMAIN b = DOMAIN build \cup {"targets"} /\ b.pc = "reviews"
      /\ \A g \in DOMAIN build \ {"targets", "pc"} : b[g] = build[g]
  BY <1>3 DEF With
<1> HIDE DEF b
<1>5. b.lines = build.lines /\ b.rows = {} /\ b.exclusions = {}
  BY <1>3, <1>4
<1>6. BuildShape(b) /\ b.pc \in Early
  BY <1>3, <1>4, <1>5 DEF BuildShape, Early, Late
<1> QED BY <1>2, <1>5, <1>6, EarlyStep

(* The items that hold lines up are read while build has all the lines of  *)
(* their batches.                                                          *)
LEMMA ReadReviewsStep ==
  ASSUME DatasetInv, ReadReviews
  PROVE  DatasetInv'
<1> DEFINE c == With(build, "blocked", Blocked \cap build.lines, "lines")
           b == With(c, "left", build.lines, "lines")
<1>1. Turns(b) /\ build # NoBuild /\ build.pc = "reviews" /\ BuildShape(build) /\ LinesRead(build)
  BY DEF ReadReviews, NoBuild, DatasetInv
<1>2. {"pc", "lines", "rows", "exclusions", "movs", "feedback"} \subseteq DOMAIN build
      /\ build.rows = {} /\ build.exclusions = {}
  BY <1>1 DEF BuildShape, Early
<1>3. /\ DOMAIN c = DOMAIN build \cup {"blocked"} /\ c.pc = "lines"
      /\ c.blocked = Blocked \cap build.lines
      /\ \A g \in DOMAIN build \ {"blocked", "pc"} : c[g] = build[g]
  BY <1>2 DEF With
<1> HIDE DEF c
<1>4. /\ DOMAIN b = DOMAIN c \cup {"left"} /\ b.pc = "lines" /\ b.left = build.lines
      /\ \A g \in DOMAIN c \ {"left", "pc"} : b[g] = c[g]
  BY <1>2, <1>3 DEF With
<1> HIDE DEF b
<1>5. /\ b.lines = build.lines /\ b.rows = {} /\ b.exclusions = {}
      /\ b.blocked = Blocked \cap build.lines
  BY <1>2, <1>3, <1>4
<1>6. BuildShape(b)
  BY <1>2, <1>3, <1>4, <1>5 DEF BuildShape, Early, Late
<1>7. LinesRead(b)
  <2>1. ASSUME NEW x \in Batches, item[x].status \in {"open", "dismissed"},
               NEW l \in item[x].about \cap b.lines
        PROVE  l \in b.blocked
    <3>1. l.lote \in imported
      BY <1>1, <1>5 DEF LinesRead, LinesOf
    <3>2. l \in Evidence(x)
      BY <3>1, <2>1 DEF Evidence
    <3>3. l \in Blocked
      BY <2>1, <3>2 DEF Blocked
    <3> QED BY <3>3, <1>5
  <2> QED BY <1>1, <1>5, <2>1 DEF LinesRead
<1>8. JudgedSoFar(b)
  <2>1. Done(b) = {}
    BY <1>4, <1>5 DEF Done
  <2> QED BY <1>5, <2>1, FS_EmptySet DEF JudgedSoFar
<1>9. Discards(b)
  BY <1>4 DEF Discards
<1> QED BY <1>1, <1>6, <1>7, <1>8, <1>9, BuilderTurns

(* A query between two judgements: nothing it reads changes what is judged.*)
LEMMA LateQuery ==
  ASSUME DatasetInv, build # NoBuild, build.pc \in Late, NEW b, Turns(b), b.pc \in Late,
         b.pc # "commit", BuildShape(b), Done(b) = Done(build),
         b.lines = build.lines, b.rows = build.rows, b.exclusions = build.exclusions,
         b.blocked = build.blocked, b.feedback = build.feedback, b.movs = build.movs
  PROVE  DatasetInv'
<1>1. LinesRead(build) /\ JudgedSoFar(build)
  BY DEF DatasetInv
<1>2. \A x : HashOf(b, x) = HashOf(build, x)
  BY DEF HashOf
<1>3. LinesRead(b)
  BY <1>1 DEF LinesRead
<1>4. JudgedSoFar(b)
  BY <1>1, <1>2 DEF JudgedSoFar
<1>5. Discards(b)
  BY DEF Discards
<1> QED BY <1>3, <1>4, <1>5, BuilderTurns

LEMMA LateFields ==
  ASSUME NEW b, BuildShape(b), b.pc \in Late
  PROVE  {"pc", "lines", "rows", "exclusions", "movs", "feedback", "blocked", "left"} \subseteq DOMAIN b
BY DEF BuildShape, Late

LEMMA ReadChartStep ==
  ASSUME DatasetInv, ReadChart
  PROVE  DatasetInv'
<1> DEFINE s == SnapshotAt(Next1(build).date)
           b == With(build, "chart", s, "judge")
<1>1. /\ Turns(b) /\ build # NoBuild /\ build.pc = "lines" /\ build.left # {}
      /\ BuildShape(build) /\ s \in Snapshots \cup Doubts
  BY SnapshotKnown DEF ReadChart, NoBuild, DatasetInv
<1> HIDE DEF s
<1>2. {"pc", "lines", "rows", "exclusions", "movs", "feedback", "blocked", "left"} \subseteq DOMAIN build
  BY <1>1, LateFields DEF Late
<1>3. /\ DOMAIN b = DOMAIN build \cup {"chart"} /\ b.pc = "judge" /\ b.chart = s
      /\ \A g \in DOMAIN build \ {"chart", "pc"} : b[g] = build[g]
  BY <1>2 DEF With
<1> HIDE DEF b
<1>4. /\ b.lines = build.lines /\ b.rows = build.rows /\ b.exclusions = build.exclusions
      /\ b.blocked = build.blocked /\ b.feedback = build.feedback /\ b.movs = build.movs
      /\ b.left = build.left
  BY <1>2, <1>3
<1>5. BuildShape(b) /\ Done(b) = Done(build)
  BY <1>1, <1>2, <1>3, <1>4 DEF BuildShape, Early, Late, Done
<1> QED BY <1>1, <1>3, <1>4, <1>5, LateQuery DEF Late

LEMMA ReadAccountsStep ==
  ASSUME DatasetInv, ReadAccounts
  PROVE  DatasetInv'
<1>1. PICK v : Turns(With(build, "accounts", v, "financial"))
  BY DEF ReadAccounts
<1> DEFINE b == With(build, "accounts", v, "financial")
<1>2. /\ Turns(b) /\ build # NoBuild /\ build.pc = "lines" /\ build.left = {} /\ BuildShape(build)
  BY <1>1 DEF ReadAccounts, NoBuild, DatasetInv
<1>3. {"pc", "lines", "rows", "exclusions", "movs", "feedback", "blocked", "left"} \subseteq DOMAIN build
  BY <1>2, LateFields DEF Late
<1>4. /\ DOMAIN b = DOMAIN build \cup {"accounts"} /\ b.pc = "financial"
      /\ \A g \in DOMAIN build \ {"accounts", "pc"} : b[g] = build[g]
  BY <1>3 DEF With
<1> HIDE DEF b
<1>5. /\ b.lines = build.lines /\ b.rows = build.rows /\ b.exclusions = build.exclusions
      /\ b.blocked = build.blocked /\ b.feedback = build.feedback /\ b.movs = build.movs
  BY <1>3, <1>4
<1>6. BuildShape(b) /\ Done(b) = Done(build)
  BY <1>2, <1>3, <1>4, <1>5 DEF BuildShape, Early, Late, Done
<1> QED BY <1>2, <1>4, <1>5, <1>6, LateQuery DEF Late

LEMMA ReadFinancialStep ==
  ASSUME DatasetInv, ReadFinancial
  PROVE  DatasetInv'
<1>1. PICK v : Turns(With([build EXCEPT !.left = Movs], "financial", v, "judging"))
  BY DEF ReadFinancial
<1> DEFINE c == [build EXCEPT !.left = Movs]
           b == With(c, "financial", v, "judging")
<1>2. /\ Turns(b) /\ build # NoBuild /\ build.pc = "financial" /\ BuildShape(build)
  BY <1>1 DEF ReadFinancial, NoBuild, DatasetInv
<1>3. {"pc", "lines", "rows", "exclusions", "movs", "feedback", "blocked", "left"} \subseteq DOMAIN build
  BY <1>2, LateFields DEF Late
<1>4. /\ DOMAIN c = DOMAIN build /\ c.left = Movs
      /\ \A g \in DOMAIN build \ {"left"} : c[g] = build[g]
  BY <1>3
<1> HIDE DEF c
<1>5. /\ DOMAIN b = DOMAIN c \cup {"financial"} /\ b.pc = "judging"
      /\ \A g \in DOMAIN c \ {"financial", "pc"} : b[g] = c[g]
  BY <1>3, <1>4 DEF With
<1> HIDE DEF b
<1>6. /\ b.lines = build.lines /\ b.rows = build.rows /\ b.exclusions = build.exclusions
      /\ b.blocked = build.blocked /\ b.feedback = build.feedback /\ b.movs = build.movs
      /\ b.left = Movs
  BY <1>3, <1>4, <1>5
<1>7. BuildShape(b) /\ Done(b) = Done(build)
  BY <1>2, <1>3, <1>4, <1>5, <1>6 DEF BuildShape, Early, Late, Done
<1> QED BY <1>2, <1>5, <1>6, <1>7, LateQuery DEF Late

LEMMA JudgedFields ==
  ASSUME NEW b, {"pc", "lines", "rows", "exclusions"} \subseteq DOMAIN b,
         NEW x, NEW target, NEW reason
  PROVE  LET c == Judged(b, x, target, reason) IN
         /\ DOMAIN c = DOMAIN b
         /\ \A g \in DOMAIN b \ {"rows", "exclusions"} : c[g] = b[g]
         /\ IF reason = "none"
            THEN /\ c.rows = b.rows \cup {[source |-> x, target |-> target]}
                 /\ c.exclusions = b.exclusions
            ELSE c.rows = b.rows /\ c.exclusions = b.exclusions \cup {<<x, reason>>}
<1>1. CASE reason = "none"
  BY <1>1 DEF Judged
<1>2. CASE reason # "none"
  BY <1>2 DEF Judged
<1> QED BY <1>1, <1>2

(* A line becomes an example only if no item holds it up.                  *)
LEMMA LineReasonCovers ==
  ASSUME NEW l, NEW b, NEW snap \in Snapshots \cup Doubts, LineReason(l, b, snap) = "none"
  PROVE  ~Covers(b.blocked, l)
BY DEF LineReason, Doubts

LEMMA FiniteDone ==
  ASSUME DatasetInv, build # NoBuild
  PROVE  IsFiniteSet(Done(build)) /\ IsFiniteSet(build.lines) /\ build.lines \subseteq Lines
<1>1. build.lines \subseteq Lines
  BY DEF DatasetInv, LinesRead, LinesOf
<1>2. IsFiniteSet(Lines) /\ IsFiniteSet(Movs)
  BY DatasetAssumption
<1>3. Done(build) \subseteq Lines \cup Movs
  BY <1>1 DEF Done
<1>4. IsFiniteSet(Lines \cup Movs)
  BY <1>2, FS_Union
<1> QED BY <1>1, <1>2, <1>3, <1>4, FS_Subset

LEMMA JudgeLineStep ==
  ASSUME DatasetInv, JudgeLine
  PROVE  DatasetInv'
<1> DEFINE x == Next1(build)
           t == Target(x, build.feedback)
           reason == LineReason(x, build, build.chart)
           c == Judged(build, x, t, reason)
           b == [c EXCEPT !.pc = "lines", !.left = @ \ {x}]
<1>1. /\ Turns(b) /\ build # NoBuild /\ build.pc = "judge"
      /\ BuildShape(build) /\ LinesRead(build) /\ JudgedSoFar(build)
  BY DEF JudgeLine, NoBuild, DatasetInv
<1>2. {"pc", "lines", "rows", "exclusions", "movs", "feedback", "blocked", "left"} \subseteq DOMAIN build
  BY <1>1, LateFields DEF Late
<1>3. build.left # {} /\ build.left \subseteq build.lines /\ build.chart \in Snapshots \cup Doubts
  BY <1>1 DEF BuildShape
<1>4. x \in build.left /\ x \in Lines
  BY <1>1, <1>3, FiniteDone, NextIsLeft
<1>5. reason = "none" => ~Covers(build.blocked, x)
  BY <1>3, LineReasonCovers
<1>6. RowOf(HashOf(build, x)) = [source |-> x, target |-> t]
  BY <1>4 DEF RowOf, HashOf, LineHash, Target
<1> HIDE DEF x, t, reason
<1>7. /\ DOMAIN c = DOMAIN build
      /\ \A g \in DOMAIN build \ {"rows", "exclusions"} : c[g] = build[g]
      /\ IF reason = "none"
         THEN /\ c.rows = build.rows \cup {[source |-> x, target |-> t]}
              /\ c.exclusions = build.exclusions
         ELSE c.rows = build.rows /\ c.exclusions = build.exclusions \cup {<<x, reason>>}
  BY <1>2, JudgedFields
<1> HIDE DEF c
<1>8. /\ DOMAIN b = DOMAIN c /\ b.pc = "lines" /\ b.left = c.left \ {x}
      /\ \A g \in DOMAIN c \ {"pc", "left"} : b[g] = c[g]
  BY <1>2, <1>7
<1> HIDE DEF b
<1>9. /\ b.lines = build.lines /\ b.blocked = build.blocked /\ b.feedback = build.feedback
      /\ b.movs = build.movs /\ b.left = build.left \ {x}
      /\ b.rows = c.rows /\ b.exclusions = c.exclusions
  BY <1>2, <1>7, <1>8
<1>10. BuildShape(b)
  BY <1>1, <1>2, <1>3, <1>7, <1>8, <1>9 DEF BuildShape, Early, Late
<1>11. Done(b) = Done(build) \cup {x} /\ x \notin Done(build)
  BY <1>1, <1>3, <1>4, <1>8, <1>9 DEF Done
<1>12. JudgedSoFar(b)
  <2>1. build.pc \in Late /\ b.pc \in Late
    BY <1>1, <1>8 DEF Late
  <2> QED BY <2>1, <1>1, <1>5, <1>6, <1>7, <1>9, <1>11, FiniteDone, JudgedOne
<1>13. LinesRead(b) /\ Discards(b)
  BY <1>1, <1>8, <1>9 DEF LinesRead, Discards, Late
<1> QED BY <1>1, <1>10, <1>12, <1>13, BuilderTurns

LEMMA JudgeMovementStep ==
  ASSUME DatasetInv, JudgeMovement
  PROVE  DatasetInv'
<1> DEFINE x == Next1(build)
           t == build.movs[x].final
           reason == MovReason(x, build, SnapshotAt(x.date))
           c == Judged(build, x, t, reason)
           b == [c EXCEPT !.left = @ \ {x}]
<1>1. /\ Turns(b) /\ build # NoBuild /\ build.pc = "judging" /\ build.left # {}
      /\ BuildShape(build) /\ LinesRead(build) /\ JudgedSoFar(build)
  BY DEF JudgeMovement, NoBuild, DatasetInv
<1>2. {"pc", "lines", "rows", "exclusions", "movs", "feedback", "blocked", "left"} \subseteq DOMAIN build
  BY <1>1, LateFields DEF Late
<1>3. build.left \subseteq Movs
  BY <1>1 DEF BuildShape
<1>4. x \in build.left /\ x \in Movs /\ x \notin Lines
  BY <1>1, <1>3, NextIsLeft, LineIsNoMovement
<1>5. RowOf(HashOf(build, x)) = [source |-> x, target |-> t]
  BY <1>4 DEF RowOf, HashOf, MovHash
<1> HIDE DEF x, t, reason
<1>6. /\ DOMAIN c = DOMAIN build
      /\ \A g \in DOMAIN build \ {"rows", "exclusions"} : c[g] = build[g]
      /\ IF reason = "none"
         THEN /\ c.rows = build.rows \cup {[source |-> x, target |-> t]}
              /\ c.exclusions = build.exclusions
         ELSE c.rows = build.rows /\ c.exclusions = build.exclusions \cup {<<x, reason>>}
  BY <1>2, JudgedFields
<1> HIDE DEF c
<1>7. /\ DOMAIN b = DOMAIN c /\ b.left = c.left \ {x}
      /\ \A g \in DOMAIN c \ {"left"} : b[g] = c[g]
  BY <1>2, <1>6
<1> HIDE DEF b
<1>8. /\ b.lines = build.lines /\ b.blocked = build.blocked /\ b.feedback = build.feedback
      /\ b.movs = build.movs /\ b.left = build.left \ {x} /\ b.pc = "judging"
      /\ b.rows = c.rows /\ b.exclusions = c.exclusions
  BY <1>1, <1>2, <1>6, <1>7
<1>9. BuildShape(b)
  BY <1>1, <1>2, <1>3, <1>6, <1>7, <1>8 DEF BuildShape, Early, Late
<1>10. Done(b) = Done(build) \cup {x} /\ x \notin Done(build)
  <2>1. build.lines \subseteq Lines
    BY <1>1, FiniteDone
  <2> QED BY <2>1, <1>1, <1>3, <1>4, <1>8 DEF Done
<1>11. JudgedSoFar(b)
  <2>1. build.pc \in Late /\ b.pc \in Late
    BY <1>1, <1>8 DEF Late
  <2> QED BY SMTT(30), <2>1, <1>1, <1>4, <1>5, <1>6, <1>8, <1>10, FiniteDone, JudgedOne
<1>12. LinesRead(b) /\ Discards(b)
  BY <1>1, <1>8 DEF LinesRead, Discards, Late
<1> QED BY <1>1, <1>9, <1>11, <1>12, BuilderTurns

(* The discards are counted again: of the same lines, they are what was    *)
(* excluded.                                                               *)
LEMMA CountStep ==
  ASSUME DatasetInv, Count
  PROVE  DatasetInv'
<1> DEFINE n == Cardinality(LinesOf(imported)) + Cardinality(Movs) - Cardinality(build.rows)
           b == With(build, "discards", n, "commit")
<1>1. /\ Turns(b) /\ build # NoBuild /\ build.pc = "judging" /\ build.left = {}
      /\ BuildShape(build) /\ LinesRead(build) /\ JudgedSoFar(build)
  BY DEF Count, NoBuild, DatasetInv
<1>2. {"pc", "lines", "rows", "exclusions", "movs", "feedback", "blocked", "left"} \subseteq DOMAIN build
  BY <1>1, LateFields DEF Late
<1>3. LinesOf(imported) = build.lines => n = Cardinality(build.exclusions)
  <2> SUFFICES ASSUME LinesOf(imported) = build.lines PROVE n = Cardinality(build.exclusions)
    OBVIOUS
  <2>1. Done(build) = build.lines \cup Movs
    BY <1>1 DEF Done
  <2>2. /\ IsFiniteSet(build.lines) /\ IsFiniteSet(Movs) /\ build.lines \cap Movs = {}
    BY <1>1, FiniteDone, DatasetAssumption
  <2>3. Cardinality(Done(build)) =
          Cardinality(build.lines) + Cardinality(Movs) - Cardinality(build.lines \cap Movs)
    BY <2>1, <2>2, FS_Union
  <2>4. Cardinality(build.lines \cap Movs) = 0
    BY <2>2, FS_EmptySet
  <2>5. /\ IsFiniteSet(build.rows) /\ IsFiniteSet(build.exclusions)
        /\ Cardinality(build.rows) + Cardinality(build.exclusions) = Cardinality(Done(build))
    BY <1>1 DEF JudgedSoFar, Late
  <2>6. /\ Cardinality(build.rows) \in Nat /\ Cardinality(build.exclusions) \in Nat
        /\ Cardinality(build.lines) \in Nat /\ Cardinality(Movs) \in Nat
    BY <2>2, <2>5, FS_CardinalityType
  <2> QED BY <2>3, <2>4, <2>5, <2>6
<1> HIDE DEF n
<1>4. /\ DOMAIN b = DOMAIN build \cup {"discards"} /\ b.pc = "commit" /\ b.discards = n
      /\ \A g \in DOMAIN build \ {"discards", "pc"} : b[g] = build[g]
  BY <1>2 DEF With
<1> HIDE DEF b
<1>5. /\ b.lines = build.lines /\ b.rows = build.rows /\ b.exclusions = build.exclusions
      /\ b.blocked = build.blocked /\ b.feedback = build.feedback /\ b.movs = build.movs
  BY <1>2, <1>4
<1>6. BuildShape(b) /\ Done(b) = Done(build)
  BY <1>1, <1>2, <1>4, <1>5 DEF BuildShape, Early, Late, Done
<1>7. LinesRead(b) /\ Discards(b)
  BY <1>1, <1>3, <1>4, <1>5 DEF LinesRead, Discards, Late
<1>8. JudgedSoFar(b)
  <2>1. \A x : HashOf(b, x) = HashOf(build, x)
    BY <1>5 DEF HashOf
  <2> QED BY <2>1, <1>1, <1>5, <1>6 DEF JudgedSoFar, Late
<1> QED BY <1>1, <1>6, <1>7, <1>8, BuilderTurns

(* The builder takes the lines of whole batches.                           *)
LEMMA ReadLinesStep ==
  ASSUME DatasetInv, ReadLines
  PROVE  DatasetInv'
<1> DEFINE b == Begins(LinesOf(imported))
<1>1. build' = b /\ since' = {} /\ UNCHANGED <<imported, events, chosen, item, manifests>>
  BY DEF ReadLines, world
<1>2. /\ b.pc = "movements" /\ b.lines = LinesOf(imported) /\ b.rows = {} /\ b.exclusions = {}
      /\ {"pc", "lines", "rows", "exclusions"} \subseteq DOMAIN b
  BY DEF Begins
<1> HIDE DEF b
<1>3. \A l \in LinesOf(imported), k \in Lines : k.lote = l.lote => k \in LinesOf(imported)
  BY DEF LinesOf
<1>4. BuildShape(build)'
  BY <1>1, <1>2 DEF BuildShape, Early, Late
<1>5. LinesRead(build)'
  <2>1. LinesOf(imported)' = LinesOf(imported)
    BY <1>1
  <2> QED BY <1>1, <1>2, <1>3, <2>1 DEF LinesRead, Late
<1>6. JudgedSoFar(build)' /\ Discards(build)'
  BY <1>1, <1>2 DEF JudgedSoFar, Discards, Late
<1>7. WorldOK'
  BY <1>1 DEF DatasetInv, WorldOK
<1> QED BY <1>1, <1>4, <1>5, <1>6, <1>7 DEF DatasetInv

LEMMA AbortStep ==
  ASSUME DatasetInv, build' = NoBuild, UNCHANGED <<events, chosen, item, manifests>>
  PROVE  DatasetInv'
BY DEF DatasetInv, WorldOK

LEMMA CommitStep ==
  ASSUME DatasetInv, Commit
  PROVE  DatasetInv'
<1> DEFINE m == Manifest(build)
<1>1. /\ manifests' = Append(manifests, m) /\ build' = NoBuild /\ build.pc = "commit"
      /\ build # NoBuild /\ UNCHANGED <<events, chosen, item>>
  BY DEF Commit, world, NoBuild
<1>2. /\ m.rows = build.rows /\ m.exclusions = build.exclusions
      /\ m.hashes = {HashOf(build, x) : x \in build.lines \cup Movs}
  <2>1. \A x \in build.lines : HashOf(build, x) = LineHash(x, build.feedback)
    BY <1>1, FiniteDone DEF HashOf
  <2>2. \A x \in Movs : HashOf(build, x) = MovHash(x, build.movs[x])
    BY LineIsNoMovement DEF HashOf
  <2> QED BY <2>1, <2>2 DEF Manifest
<1>3. /\ build.rows = {RowOf(HashOf(build, x)) :
                      x \in {y \in build.lines \cup Movs : ~Excluded(build.exclusions, y)}}
  BY <1>1 DEF DatasetInv, JudgedSoFar, Done, Late
<1>4. \A x : HashOf(build, x)[1] = x
  BY DEF HashOf, LineHash, MovHash
<1>5. Explained(m)
  <2> HIDE DEF m
  <2> QED BY <1>2, <1>3, <1>4 DEF Explained
<1> HIDE DEF m
<1>6. PICK S : manifests \in Seq(S)
  BY DEF DatasetInv
<1>7. manifests \in Seq(S \cup {m}) /\ m \in S \cup {m}
  BY <1>6
<1>8. manifests' \in Seq(S \cup {m})
  BY <1>1, <1>7
<1>9. \A i \in DOMAIN manifests' : Explained(manifests'[i])
  <2>1. \A i \in DOMAIN manifests' : manifests'[i] = m \/ (i \in DOMAIN manifests /\ manifests'[i] = manifests[i])
    BY <1>1, <1>7
  <2> QED BY <2>1, <1>5 DEF DatasetInv
<1>10. WorldOK'
  BY <1>1 DEF DatasetInv, WorldOK
<1> QED BY <1>1, <1>8, <1>9, <1>10 DEF DatasetInv

-----------------------------------------------------------------------------
(* Other transactions: ledgers come, and what is touched is in since.      *)
LEMMA WorldStep ==
  ASSUME DatasetInv, UNCHANGED <<build, manifests>>, WorldOK',
         imported \subseteq imported', since \subseteq since',
         \A b \in Batches \ since' : item'[b] = item[b]
  PROVE  DatasetInv'
<1>1. ASSUME build # NoBuild
      PROVE  BuildShape(build)' /\ LinesRead(build)' /\ JudgedSoFar(build)' /\ Discards(build)'
  <2>1. BuildShape(build) /\ LinesRead(build) /\ JudgedSoFar(build) /\ Discards(build)
    BY <1>1 DEF DatasetInv
  <2>2. LinesOf(imported) \subseteq LinesOf(imported')
    BY DEF LinesOf
  <2>3. BuildShape(build)'
    BY <2>1 DEF BuildShape
  <2>4. LinesRead(build)'
    <3>1. LinesOf(imported)' = LinesOf(imported')
      BY DEF LinesOf
    <3> QED BY <2>1, <2>2, <3>1 DEF LinesRead
  <2>5. JudgedSoFar(build)'
    <3>1. Done(build)' = Done(build) /\ \A x : HashOf(build, x)' = HashOf(build, x)
      BY DEF Done, HashOf
    <3> QED BY <2>1, <3>1 DEF JudgedSoFar
  <2>6. Discards(build)'
    <3> SUFFICES ASSUME build.pc = "commit", LinesOf(imported') = build.lines
                 PROVE  build.discards = Cardinality(build.exclusions)
      BY DEF Discards, LinesOf
    <3>1. LinesOf(imported) = build.lines
      BY <2>1, <2>2 DEF LinesRead
    <3> QED BY <3>1, <2>1 DEF Discards
  <2> QED BY <2>3, <2>4, <2>5, <2>6
<1> QED BY <1>1 DEF DatasetInv

LEMMA ImportLedgerStep ==
  ASSUME DatasetInv, NEW b \in Batches, ImportLedger(b)
  PROVE  DatasetInv'
<1>1. /\ UNCHANGED <<build, manifests, events, chosen>>
      /\ imported \subseteq imported' /\ since' = since \cup {b}
  BY DEF ImportLedger, Changes
<1>2. PICK D \in SUBSET Lines : item' = item \/ item' = [item EXCEPT ![b] = [status |-> "open", about |-> D]]
  BY DEF ImportLedger, LinesOf
<1>3. WorldOK' /\ \A x \in Batches \ {b} : item'[x] = item[x]
  BY <1>1, <1>2 DEF DatasetInv, WorldOK
<1> QED BY <1>1, <1>3, WorldStep

LEMMA ReviewStep ==
  ASSUME DatasetInv, NEW b \in Batches, NEW s \in {"open", "resolved", "dismissed"}, Review(b, s)
  PROVE  DatasetInv'
<1>1. /\ UNCHANGED <<build, manifests, events, chosen, imported>>
      /\ since' = since \cup {b} /\ item' = [item EXCEPT ![b].status = s]
  BY DEF Review, Changes
<1>2. item[b] \in [status : {"absent", "open", "resolved", "dismissed"}, about : SUBSET Lines]
  BY DEF DatasetInv, WorldOK
<1>3. [item[b] EXCEPT !.status = s]
        \in [status : {"absent", "open", "resolved", "dismissed"}, about : SUBSET Lines]
  BY <1>2
<1>4. item' = [item EXCEPT ![b] = [item[b] EXCEPT !.status = s]]
  BY <1>1, Zenon
<1>5. WorldOK' /\ \A x \in Batches \ {b} : item'[x] = item[x]
  BY <1>1, <1>3, <1>4 DEF DatasetInv, WorldOK
<1> QED BY <1>1, <1>5, WorldStep

LEMMA OtherStep ==
  ASSUME DatasetInv, UNCHANGED <<build, manifests, imported, item, since>>,
         events' \subseteq Snapshots, \A x \in chosen' : x[2] \in Snapshots
  PROVE  DatasetInv'
BY WorldStep DEF DatasetInv, WorldOK

LEMMA DatasetStarts == DatasetInit => DatasetInv
<1> SUFFICES ASSUME DatasetInit PROVE DatasetInv
  OBVIOUS
<1>1. /\ events = {First} /\ chosen = {} /\ build = NoBuild /\ manifests = <<>>
      /\ \E doubted \in SUBSET Old :
           item = [b \in Batches |-> IF b \in doubted
             THEN [status |-> "open", about |-> {CHOOSE l \in LinesOf({b}) : TRUE}] ELSE NoItem]
  BY DEF DatasetInit
<1>2. ASSUME NEW b \in Old PROVE {CHOOSE l \in LinesOf({b}) : TRUE} \subseteq Lines
  <2>1. \E l \in LinesOf({b}) : TRUE
    BY DatasetAssumption DEF LinesOf
  <2>2. (CHOOSE l \in LinesOf({b}) : TRUE) \in LinesOf({b})
    BY <2>1
  <2> QED BY <2>2 DEF LinesOf
<1>3. item \in [Batches -> [status : {"absent", "open", "resolved", "dismissed"}, about : SUBSET Lines]]
  BY <1>1, <1>2 DEF NoItem
<1>4. WorldOK
  BY <1>1, <1>3, DatasetAssumption DEF WorldOK
<1>5. manifests \in Seq({}) /\ DOMAIN manifests = {}
  BY <1>1
<1> QED BY <1>1, <1>4, <1>5 DEF DatasetInv

LEMMA DatasetKeeps == DatasetInv /\ [DatasetNext]_dvars => DatasetInv'
<1> SUFFICES ASSUME DatasetInv, [DatasetNext]_dvars PROVE DatasetInv'
  OBVIOUS
<1> USE DEF Changes
<1>1. /\ events \subseteq Snapshots /\ \A x \in chosen : x[2] \in Snapshots
  BY DEF DatasetInv, WorldOK
<1>2. CASE UNCHANGED dvars
  BY <1>1, <1>2, OtherStep DEF dvars, world
<1>3. CASE Abort
  BY <1>3, AbortStep DEF Abort, world
<1>4. ASSUME NEW l \in Lines, NEW c \in Codes, GiveFeedback(l, c) PROVE DatasetInv'
  BY <1>1, <1>4, OtherStep DEF GiveFeedback
<1>5. ASSUME NEW m \in Movs, NEW s, NEW c \in Codes, DecideMovement(m, s, c) PROVE DatasetInv'
  BY <1>1, <1>5, OtherStep DEF DecideMovement
<1>6. ASSUME NEW c \in Codes, NEW k, EditAccount(c, k) PROVE DatasetInv'
  BY <1>1, <1>6, OtherStep DEF EditAccount
<1>7. ASSUME NEW s \in Snapshots, ImportChart(s) PROVE DatasetInv'
  BY <1>1, <1>7, OtherStep DEF ImportChart
<1>8. ASSUME NEW s \in Snapshots, DecideConflict(s) PROVE DatasetInv'
  BY <1>1, <1>8, OtherStep DEF DecideConflict
<1>9. ASSUME NEW s \in Snapshots, NEW c \in Codes, ConfirmAlias(s, c) PROVE DatasetInv'
  BY <1>1, <1>9, OtherStep DEF ConfirmAlias
<1>10. CASE \E b \in Batches : ImportLedger(b) \/ (\E s \in {"open", "resolved", "dismissed"} : Review(b, s))
  BY <1>10, ImportLedgerStep, ReviewStep
<1>11. CASE \/ ReadLines \/ ReadMovements \/ ReadOrigins \/ ReadFeedback \/ ReadTargets \/ ReadReviews
            \/ ReadChart \/ JudgeLine \/ ReadAccounts \/ ReadFinancial \/ JudgeMovement \/ Count \/ Commit
  BY <1>11, ReadLinesStep, ReadMovementsStep, ReadOriginsStep, ReadFeedbackStep, ReadTargetsStep,
     ReadReviewsStep, ReadChartStep, JudgeLineStep, ReadAccountsStep, ReadFinancialStep,
     JudgeMovementStep, CountStep, CommitStep
<1> QED
  BY <1>2, <1>3, <1>4, <1>5, <1>6, <1>7, <1>8, <1>9, <1>10, <1>11 DEF DatasetNext

(* build_training_dataset: the examples can be told from the hashes and    *)
(* the exclusions of the manifest alone; none is of a line whose item was  *)
(* unresolved all along; and every discard counted has its reason, whatever*)
(* is imported, corrected or reviewed between the queries.                 *)
THEOREM ManifestsExplain == DatasetSpec => []ManifestExplains
<1>1. DatasetInv => ManifestExplains
  <2> SUFFICES ASSUME DatasetInv
               PROVE  EvidenceDeterminesRows /\ UnderReviewIsLeftOut /\ DiscardsAreExplained
    BY DEF ManifestExplains
  <2>1. EvidenceDeterminesRows
    BY DEF DatasetInv, Explained, EvidenceDeterminesRows
  <2>2. UnderReviewIsLeftOut
    <3> SUFFICES ASSUME build.pc = "commit", NEW r \in build.rows, NEW b \in Batches \ since,
                        r.source \in Lines, item[b].status \in {"open", "dismissed"},
                        Covers(item[b].about, r.source)
                 PROVE  FALSE
      BY DEF UnderReviewIsLeftOut
    <3>1. build # NoBuild /\ LinesRead(build) /\ JudgedSoFar(build) /\ item[b].about \subseteq Lines
      BY DEF NoBuild, DatasetInv, WorldOK
    <3>2. PICK x \in Done(build) : ~Excluded(build.exclusions, x) /\ r = RowOf(HashOf(build, x))
      BY <3>1 DEF JudgedSoFar, Late
    <3>3. r.source = x
      BY <3>2 DEF RowOf, HashOf, LineHash, MovHash
    <3>4. ~Covers(build.blocked, x)
      BY <3>1, <3>2, <3>3 DEF JudgedSoFar, Late
    <3>5. x \in build.lines
      BY <3>2, <3>3, LineIsNoMovement DEF Done
    <3>6. item[b].about \cap build.lines \subseteq build.blocked
      BY <3>1 DEF LinesRead, Late
    <3>7. CASE x.lote \in Old
      <4>1. PICK k \in item[b].about : k.lote = x.lote
        BY <3>3, <3>7 DEF Covers
      <4>2. k \in build.lines
        BY <4>1, <3>1, <3>5 DEF LinesRead
      <4> QED BY <4>1, <4>2, <3>4, <3>6, <3>7 DEF Covers
    <3>8. CASE x.lote \notin Old
      BY <3>3, <3>4, <3>5, <3>6, <3>8 DEF Covers
    <3> QED BY <3>7, <3>8
  <2>3. DiscardsAreExplained
    BY DEF DatasetInv, Discards, DiscardsAreExplained, NoBuild
  <2> QED BY <2>1, <2>2, <2>3
<1> QED BY <1>1, DatasetStarts, DatasetKeeps, PTL DEF DatasetSpec
=============================================================================
