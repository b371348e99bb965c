------------------------- MODULE ImportacoesProofs -------------------------
(***************************************************************************)
(* Theorems about what is imported for a company: ContasEmpresa, for any   *)
(* number of codes, batches and commands of the backfill;                  *)
(* ImportacaoMovimentos, for any sheets of movements, uploads and states   *)
(* of the accounts; LivroRazao, for any ledgers, plans and block size.     *)
(* What the attributes of an account are and how the numbers of identities *)
(* are handed out plays no part in the first.                              *)
(***************************************************************************)
EXTENDS ContasEmpresa, ImportacaoMovimentos, LivroRazao, FiniteSetTheorems,
        WellFoundedInduction, TLAPS

-----------------------------------------------------------------------------
(* The accounts of the company.                                            *)

Fields == {"run", "code", "result", "ids", "attrs", "undone"}

(* Every code, batch and command has its value; an item of the journal is  *)
(* a record.                                                               *)
ShapeOK ==
  /\ identity = [c \in Codes |-> identity[c]]
  /\ link = [c \in Codes |-> link[c]]
  /\ \A c \in Codes : \A k \in link[c] : DOMAIN k = {"id", "count"}
  /\ lote = [l \in Lotes |-> lote[l]]
  /\ run = [r \in Runs |-> run[r]]
  /\ \A j \in journal : DOMAIN j = Fields

(* The unique key: a code has one identity.                                *)
OneIdentity == \A c \in Codes : \A a, b \in identity[c] : a = b

Creating(l) == IF lote[l].pc = "loaded" THEN DOMAIN lote[l].creates ELSE {}

(* What a batch inserts and has not committed is new to its code, no other *)
(* batch inserts it, and it is what the batch will refer to.               *)
LoteInv ==
  /\ \A l \in Lotes : \A c \in Creating(l) :
       /\ c \in Codes /\ identity[c] = {}
       /\ c \in DOMAIN lote[l].ids /\ lote[l].ids[c] = {lote[l].creates[c].id}
  /\ \A l, m \in Lotes : l # m => Creating(l) \cap Creating(m) = {}
  /\ \A l \in Lotes : lote[l].pc = "loaded" => DOMAIN lote[l].ids \subseteq Codes

(* An execution creates one identity at a time.                            *)
JournalInv ==
  \A j \in journal : j.result = "created" => \E n \in j.ids : j.ids = {n}

(* A command works on a code; what it is about to delete was created by an *)
(* execution, even if somebody else has marked the item in the meantime.   *)
RunInv ==
  \A r \in Runs :
    /\ run[r].pc = "insert" => run[r].code \in Codes
    /\ run[r].pc = "delete" =>
         /\ DOMAIN run[r].item = Fields
         /\ \E j \in journal : j.result = "created" /\ j.ids = run[r].item.ids

IInv == ShapeOK /\ OneIdentity /\ LoteInv /\ JournalInv /\ RunInv /\ LinksAreCurrent
-----------------------------------------------------------------------------
LEMMA ShapeDomains ==
  ASSUME ShapeOK
  PROVE  /\ DOMAIN identity = Codes /\ DOMAIN link = Codes
         /\ DOMAIN lote = Lotes /\ DOMAIN run = Runs
BY DEF ShapeOK

LEMMA Initially == Init => IInv
<1> SUFFICES ASSUME Init PROVE IInv
  OBVIOUS
<1>1. ShapeOK
  BY DEF Init, ShapeOK
<1>2. OneIdentity /\ JournalInv /\ RunInv
  BY DEF Init, OneIdentity, JournalInv, RunInv, Resting
<1>3. \A l \in Lotes : lote[l].pc = "new"
  BY DEF Init, Waiting
<1>4. LoteInv
  BY <1>3 DEF LoteInv, Creating
<1>5. LinksAreCurrent
  <2> SUFFICES ASSUME NEW c \in Codes PROVE LinkIds(c) \subseteq {0}
    BY DEF LinksAreCurrent
  <2>1. link[c] \in {{}, {[id |-> 0, count |-> 0]}}
    BY DEF Init
  <2>2. QED BY <2>1 DEF LinkIds
<1>q. QED BY <1>1, <1>2, <1>4, <1>5 DEF IInv

(* A code without an identity gets one, of which no batch knows.           *)
LEMMA NewIdentityKeeps ==
  ASSUME IInv, NEW c \in Codes, NEW a, identity[c] = {}, NewIdentity(c, a),
         UNCHANGED <<link, lote>>
  PROVE  /\ identity' = [d \in Codes |-> identity'[d]]
         /\ OneIdentity' /\ LoteInv' /\ LinksAreCurrent' /\ IdentityIsKept
<1>1. identity' = [identity EXCEPT ![c] = {[id |-> nextId, attrs |-> a]}]
  BY DEF NewIdentity
<1>2. /\ identity' = [d \in Codes |-> identity'[d]]
      /\ \A d \in Codes : identity'[d] = IF d = c THEN {[id |-> nextId, attrs |-> a]}
                                         ELSE identity[d]
  BY <1>1 DEF IInv, ShapeOK
<1>3. \A d \in Codes : identity[d] # {} => identity'[d] = identity[d]
  BY <1>2
<1>4. OneIdentity'
  BY <1>2 DEF IInv, OneIdentity
<1>5. \A l \in Lotes : Creating(l)' = Creating(l) /\ c \notin Creating(l)
  BY DEF NewIdentity, Reserved, Creating
<1>6. LoteInv'
  BY <1>2, <1>5 DEF IInv, LoteInv
<1>7. LinksAreCurrent'
  <2> SUFFICES ASSUME NEW d \in Codes
               PROVE  (LinkIds(d) \ {0})' \subseteq Ids(d)'
    BY DEF LinksAreCurrent
  <2>1. LinkIds(d)' = LinkIds(d) /\ LinkIds(d) \ {0} \subseteq Ids(d)
    BY DEF LinkIds, IInv, LinksAreCurrent
  <2>2. Ids(d) \subseteq Ids(d)'
    <3>1. CASE identity[d] = {}
      BY <3>1 DEF Ids
    <3>2. CASE identity[d] # {}
      BY <1>3, <3>2 DEF Ids
    <3>3. QED BY <3>1, <3>2
  <2>3. QED BY <2>1, <2>2
<1>8. IdentityIsKept
  BY <1>3 DEF IdentityIsKept
<1>q. QED BY <1>2, <1>4, <1>6, <1>7, <1>8

(* Steps that leave identities, links and batches alone.                   *)
LEMMA IdentitiesUntouched ==
  ASSUME IInv, UNCHANGED <<identity, link, lote>>
  PROVE  OneIdentity' /\ LoteInv' /\ LinksAreCurrent' /\ IdentityIsKept
<1>1. OneIdentity' /\ LoteInv'
  BY DEF IInv, OneIdentity, LoteInv, Creating
<1>2. LinksAreCurrent'
  BY DEF IInv, LinksAreCurrent, LinkIds, Ids
<1>3. IdentityIsKept
  BY DEF IdentityIsKept
<1>q. QED BY <1>1, <1>2, <1>3

LEMMA JournalUntouched ==
  ASSUME IInv, UNCHANGED <<journal, run>>
  PROVE  JournalInv' /\ RunInv'
BY DEF IInv, JournalInv, RunInv

-----------------------------------------------------------------------------
LEMMA EditKeeps ==
  ASSUME IInv, NEW c \in Codes, NEW a \in Attrs, EditCatalog(c, a)
  PROVE  IInv' /\ IdentityIsKept
<1>1. UNCHANGED <<identity, link, lote, journal, run>>
  BY DEF EditCatalog
<1>2. ShapeOK'
  BY <1>1 DEF IInv, ShapeOK
<1>3. QED BY <1>1, <1>2, IdentitiesUntouched, JournalUntouched DEF IInv

LEMMA EnsureKeeps ==
  ASSUME IInv, NEW c \in Codes, Ensure(c)
  PROVE  IInv' /\ IdentityIsKept
<1>1. PICK a : identity[c] = {} /\ NewIdentity(c, a) /\ UNCHANGED <<link, lote, journal, run>>
  BY DEF Ensure
<1>2. ShapeOK'
  BY <1>1, NewIdentityKeeps DEF IInv, ShapeOK
<1>3. QED BY <1>1, <1>2, NewIdentityKeeps, JournalUntouched DEF IInv

LEMMA ImportEntryKeeps ==
  ASSUME IInv, NEW c \in Codes, NEW a \in Attrs, ImportEntry(c, a)
  PROVE  IInv' /\ IdentityIsKept
<1>1. UNCHANGED <<link, lote, journal, run>>
  BY DEF ImportEntry
<1>2. CASE identity[c] = {}
  <2>1. NewIdentity(c, a)
    BY <1>2 DEF ImportEntry
  <2>2. ShapeOK'
    BY <1>1, <1>2, <2>1, NewIdentityKeeps DEF IInv, ShapeOK
  <2>3. QED BY <1>1, <1>2, <2>1, <2>2, NewIdentityKeeps, JournalUntouched DEF IInv
<1>3. CASE identity[c] # {}
  <2>1. UNCHANGED identity
    BY <1>3 DEF ImportEntry
  <2>2. ShapeOK'
    BY <1>1, <2>1 DEF IInv, ShapeOK
  <2>3. QED BY <1>1, <2>1, <2>2, IdentitiesUntouched, JournalUntouched DEF IInv
<1>4. QED BY <1>2, <1>3

LEMMA RefreshKeeps ==
  ASSUME IInv, RefreshLinks
  PROVE  IInv' /\ IdentityIsKept
<1> DEFINE current(c) == IF c \in Missing THEN {Created(Missing)[c]} ELSE identity[c]
<1>1. /\ \A c \in Missing : ~Reserved(c)
      /\ identity' = [c \in Codes |-> current(c)]
      /\ link' = [c \in Codes |->
           IF current(c) = {} THEN link[c]
           ELSE {[k EXCEPT !.id = (CHOOSE i \in current(c) : TRUE).id] : k \in link[c]}]
      /\ UNCHANGED <<lote, journal, run>>
  BY DEF RefreshLinks
<1>2. \A c \in Codes : identity[c] # {} => current(c) = identity[c]
  BY DEF Missing
<1>3. \A c \in Codes : \A a, b \in current(c) : a = b
  BY DEF IInv, OneIdentity
<1> HIDE DEF current
<1>4. ShapeOK' /\ OneIdentity' /\ IdentityIsKept
  <2>1. ShapeOK'
    <3>1. \A c \in Codes : \A k \in link'[c] : DOMAIN k = {"id", "count"}
      BY <1>1 DEF IInv, ShapeOK
    <3>2. QED BY <1>1, <3>1 DEF IInv, ShapeOK
  <2>2. OneIdentity' /\ IdentityIsKept
    BY <1>1, <1>2, <1>3 DEF OneIdentity, IdentityIsKept
  <2>3. QED BY <2>1, <2>2
<1>5. \A l \in Lotes : Creating(l)' = Creating(l)
  BY <1>1 DEF Creating
<1>6. LoteInv'
  <2>1. ASSUME NEW l \in Lotes, NEW c \in Creating(l) PROVE identity'[c] = {}
    <3>1. c \in Codes /\ identity[c] = {} /\ Reserved(c)
      BY DEF IInv, LoteInv, Creating, Reserved
    <3>2. QED BY <1>1, <3>1 DEF current
  <2>2. QED BY <1>1, <1>5, <2>1 DEF IInv, LoteInv
<1>7. LinksAreCurrent'
  <2> SUFFICES ASSUME NEW c \in Codes, NEW k \in link'[c], k.id # 0
               PROVE  k.id \in {i.id : i \in identity'[c]}
    BY DEF LinksAreCurrent, LinkIds, Ids
  <2>1. CASE current(c) = {}
    <3>1. k.id \in Ids(c)
      BY <1>1, <2>1 DEF IInv, LinksAreCurrent, LinkIds
    <3>2. QED BY <1>2, <2>1, <3>1 DEF Ids
  <2>2. CASE current(c) # {}
    <3>1. PICK j \in link[c] : k = [j EXCEPT !.id = (CHOOSE i \in current(c) : TRUE).id]
      BY <1>1, <2>2
    <3>2. DOMAIN j = {"id", "count"}
      BY DEF IInv, ShapeOK
    <3>3. k.id = (CHOOSE i \in current(c) : TRUE).id
      BY <3>1, <3>2
    <3>4. QED BY <1>1, <2>2, <3>3
  <2>3. QED BY <2>1, <2>2
<1>q. QED BY <1>1, <1>4, <1>6, <1>7, JournalUntouched DEF IInv

-----------------------------------------------------------------------------
LEMMA LoadKeeps ==
  ASSUME IInv, NEW l \in Lotes, LoadLote(l)
  PROVE  IInv' /\ IdentityIsKept
<1> DEFINE known == {c \in Codes : catalog[c] # {}}
           missing == IF HasPlan THEN {} ELSE Missing
           created == Created(missing)
           state == [pc |-> "loaded", plan |-> HasPlan, creates |-> created, links |-> link,
                     ids |-> [c \in known |-> IF c \in missing THEN {created[c].id} ELSE Ids(c)]]
<1>1. /\ lote' = [lote EXCEPT ![l] = state]
      /\ \A c \in missing : ~Reserved(c)
      /\ UNCHANGED <<identity, link, journal, run>>
  BY DEF LoadLote
<1>2. /\ missing \subseteq known /\ known \subseteq Codes
      /\ \A c \in missing : identity[c] = {}
  BY DEF Missing
<1>3. PICK made : made = created
  OBVIOUS
<1>4. DOMAIN made = missing
  BY <1>3 DEF Created
<1>5. PICK loaded : loaded = state
  OBVIOUS
<1>6. /\ loaded.pc = "loaded" /\ DOMAIN loaded.creates = missing
      /\ DOMAIN loaded.ids = known
      /\ \A c \in missing : loaded.ids[c] = {loaded.creates[c].id}
  <2>1. loaded.pc = "loaded" /\ loaded.creates = created
        /\ loaded.ids = [c \in known |-> IF c \in missing THEN {created[c].id} ELSE Ids(c)]
    BY <1>5
  <2> HIDE DEF created
  <2>2. DOMAIN loaded.creates = missing
    BY <1>3, <1>4, <2>1
  <2> HIDE DEF missing, known
  <2>3. QED BY <1>2, <2>1, <2>2
<1>7. lote' = [lote EXCEPT ![l] = loaded]
  BY <1>1, <1>5
<1>8. \A c \in missing : ~Reserved(c)
  BY <1>1
<1> HIDE DEF state, created, missing, known
<1>9. /\ \A m \in Lotes : lote'[m] = IF m = l THEN loaded ELSE lote[m]
      /\ lote' = [m \in Lotes |-> lote'[m]]
  BY <1>7 DEF IInv, ShapeOK
<1>10. ShapeOK'
  BY <1>1, <1>9 DEF IInv, ShapeOK
<1>11. \A m \in Lotes : Creating(m)' = IF m = l THEN missing ELSE Creating(m)
  BY <1>6, <1>9 DEF Creating
<1>12. \A m \in Lotes : Creating(m) \cap missing = {}
  BY <1>8 DEF Reserved, Creating
<1>13. LoteInv'
  <2>1. ASSUME NEW m \in Lotes, NEW c \in Creating(m)'
        PROVE  /\ c \in Codes /\ identity'[c] = {}
               /\ c \in DOMAIN lote'[m].ids /\ lote'[m].ids[c] = {lote'[m].creates[c].id}
    <3>1. CASE m = l
      BY <1>1, <1>2, <1>6, <1>9, <1>11, <2>1, <3>1
    <3>2. CASE m # l
      BY <1>1, <1>9, <1>11, <2>1, <3>2 DEF IInv, LoteInv
    <3>3. QED BY <3>1, <3>2
  <2>2. \A m, n \in Lotes : m # n => (Creating(m) \cap Creating(n))' = {}
    BY <1>11, <1>12 DEF IInv, LoteInv
  <2>3. \A m \in Lotes : lote'[m].pc = "loaded" => DOMAIN lote'[m].ids \subseteq Codes
    BY <1>2, <1>6, <1>9 DEF IInv, LoteInv
  <2>4. QED BY <2>1, <2>2, <2>3 DEF LoteInv
<1>14. OneIdentity' /\ IdentityIsKept
  BY <1>1 DEF IInv, OneIdentity, IdentityIsKept
<1>15. LinksAreCurrent'
  BY <1>1 DEF IInv, LinksAreCurrent, LinkIds, Ids
<1>q. QED BY <1>1, <1>10, <1>13, <1>14, <1>15, JournalUntouched DEF IInv

LEMMA CommitKeeps ==
  ASSUME IInv, NEW l \in Lotes, CommitLote(l)
  PROVE  IInv' /\ IdentityIsKept
<1> DEFINE creates == lote[l].creates
           ids == lote[l].ids
<1>1. /\ lote[l].pc = "loaded" /\ CanCommit(l)
      /\ identity' = [c \in Codes |-> IF c \in DOMAIN creates THEN {creates[c]}
                                      ELSE identity[c]]
      /\ link' = [c \in Codes |-> IF c \in Counted(l) THEN {NewLink(l, c)} ELSE link[c]]
      /\ lote' = [lote EXCEPT ![l] = [pc |-> "done", counted |-> Counted(l)]]
      /\ UNCHANGED <<journal, run>>
  BY DEF CommitLote
<1>2. Creating(l) = DOMAIN creates
  BY <1>1 DEF Creating
<1>3. \A c \in DOMAIN creates : c \in Codes /\ identity[c] = {} /\ ids[c] = {creates[c].id}
  BY <1>2 DEF IInv, LoteInv
<1>4. \A c \in Codes : identity[c] # {} => identity'[c] = identity[c]
  BY <1>1, <1>3
<1>5. /\ \A m \in Lotes : m # l => lote'[m] = lote[m]
      /\ lote'[l].pc = "done"
      /\ lote' = [m \in Lotes |-> lote'[m]]
  BY <1>1 DEF IInv, ShapeOK
<1>6. ShapeOK'
  <2>1. identity' = [c \in Codes |-> identity'[c]] /\ link' = [c \in Codes |-> link'[c]]
    BY <1>1
  <2>2. \A c \in Codes : \A k \in link'[c] : DOMAIN k = {"id", "count"}
    BY <1>1 DEF IInv, ShapeOK, NewLink
  <2>3. QED BY <1>1, <1>5, <2>1, <2>2 DEF IInv, ShapeOK
<1>7. OneIdentity'
  BY <1>1 DEF IInv, OneIdentity
<1>8. \A m \in Lotes : Creating(m)' = IF m = l THEN {} ELSE Creating(m)
  BY <1>5 DEF Creating
<1>9. LoteInv'
  <2>1. ASSUME NEW m \in Lotes, NEW c \in Creating(m)'
        PROVE  /\ c \in Codes /\ identity'[c] = {}
               /\ c \in DOMAIN lote'[m].ids /\ lote'[m].ids[c] = {lote'[m].creates[c].id}
    <3>1. m # l /\ c \in Creating(m) /\ c \notin DOMAIN creates
      BY <1>2, <1>8, <2>1 DEF IInv, LoteInv
    <3>2. lote'[m] = lote[m] /\ identity'[c] = identity[c]
      BY <1>1, <1>5, <3>1 DEF IInv, LoteInv
    <3>3. QED BY <3>1, <3>2 DEF IInv, LoteInv
  <2>2. \A m, n \in Lotes : m # n => (Creating(m) \cap Creating(n))' = {}
    BY <1>8 DEF IInv, LoteInv
  <2>3. \A m \in Lotes : lote'[m].pc = "loaded" => DOMAIN lote'[m].ids \subseteq Codes
    BY <1>5 DEF IInv, LoteInv
  <2>4. QED BY <2>1, <2>2, <2>3 DEF LoteInv
<1>10. LinksAreCurrent'
  <2> SUFFICES ASSUME NEW c \in Codes, NEW k \in link'[c], k.id # 0
               PROVE  k.id \in {i.id : i \in identity'[c]}
    BY DEF LinksAreCurrent, LinkIds, Ids
  <2>1. CASE c \in Counted(l)
    <3>1. /\ c \in DOMAIN ids /\ ids[c] # {}
          /\ c \in DOMAIN creates \/ ids[c] = Ids(c)
      BY <1>1, <2>1 DEF Counted, CanCommit
    <3>2. k.id \in ids[c]
      BY <1>1, <2>1, <3>1 DEF NewLink
    <3>3. CASE c \in DOMAIN creates
      BY <1>1, <1>3, <3>2, <3>3
    <3>4. CASE c \notin DOMAIN creates
      BY <1>1, <3>1, <3>2, <3>4 DEF Ids
    <3>5. QED BY <3>3, <3>4
  <2>2. CASE c \notin Counted(l)
    <3>1. k \in link[c]
      BY <1>1, <2>2
    <3>2. k.id \in Ids(c)
      BY <3>1 DEF IInv, LinksAreCurrent, LinkIds
    <3>3. identity[c] # {}
      BY <3>2 DEF Ids
    <3>4. QED BY <1>4, <3>2, <3>3 DEF Ids
  <2>3. QED BY <2>1, <2>2
<1>11. IdentityIsKept
  BY <1>4 DEF IdentityIsKept
<1>q. QED BY <1>1, <1>6, <1>7, <1>9, <1>10, <1>11, JournalUntouched DEF IInv

LEMMA FailKeeps ==
  ASSUME IInv, NEW l \in Lotes, FailLote(l)
  PROVE  IInv' /\ IdentityIsKept
<1>1. /\ lote' = [lote EXCEPT ![l] = Waiting]
      /\ UNCHANGED <<identity, link, journal, run>>
  BY DEF FailLote
<1>2. /\ \A m \in Lotes : m # l => lote'[m] = lote[m]
      /\ lote'[l].pc = "new"
      /\ lote' = [m \in Lotes |-> lote'[m]]
  BY <1>1 DEF IInv, ShapeOK, Waiting
<1>3. ShapeOK'
  BY <1>1, <1>2 DEF IInv, ShapeOK
<1>4. \A m \in Lotes : Creating(m)' = IF m = l THEN {} ELSE Creating(m)
  BY <1>2 DEF Creating
<1>5. LoteInv'
  <2>1. ASSUME NEW m \in Lotes, NEW c \in Creating(m)'
        PROVE  m # l /\ lote'[m] = lote[m] /\ c \in Creating(m)
    BY <1>2, <1>4, <2>1
  <2>2. \A m, n \in Lotes : m # n => (Creating(m) \cap Creating(n))' = {}
    BY <1>4 DEF IInv, LoteInv
  <2>3. \A m \in Lotes : lote'[m].pc = "loaded" => DOMAIN lote'[m].ids \subseteq Codes
    BY <1>2 DEF IInv, LoteInv
  <2>4. QED BY <1>1, <2>1, <2>2, <2>3 DEF IInv, LoteInv
<1>6. OneIdentity' /\ LinksAreCurrent' /\ IdentityIsKept
  BY <1>1 DEF IInv, OneIdentity, LinksAreCurrent, LinkIds, Ids, IdentityIsKept
<1>q. QED BY <1>1, <1>3, <1>5, <1>6, JournalUntouched DEF IInv

-----------------------------------------------------------------------------
(* A new item of the journal: of what is there already, or of the one      *)
(* identity just created.                                                  *)
LEMMA AddItem ==
  ASSUME IInv, NEW r, NEW c, NEW result, NEW ids, NEW attrs,
         result = "created" => \E n \in ids : ids = {n},
         journal' = journal \cup {Entry(r, c, result, ids, attrs)}
  PROVE  /\ JournalInv'
         /\ \A j \in journal' : DOMAIN j = Fields
         /\ \A j \in journal : j \in journal'
<1>1. PICK e : e = Entry(r, c, result, ids, attrs)
  OBVIOUS
<1>2. /\ DOMAIN e = Fields
      /\ e.result = result /\ e.ids = ids
  BY <1>1 DEF Entry, Fields
<1>3. journal' = journal \cup {e}
  BY <1>1
<1>4. QED BY <1>2, <1>3 DEF IInv, JournalInv, ShapeOK

(* A mark changes nothing but whether the item was undone, even when the   *)
(* command read it before somebody else marked it.                         *)
LEMMA MarkItem ==
  ASSUME IInv, NEW j, NEW how, Mark(j, how), DOMAIN j = Fields,
         \E x \in journal : x.result = "created" /\ x.ids = j.ids
  PROVE  /\ JournalInv'
         /\ \A x \in journal' : DOMAIN x = Fields
         /\ \A x \in journal : \E y \in journal' : y.result = x.result /\ y.ids = x.ids
<1>1. PICK y : y = [j EXCEPT !.undone = how]
  OBVIOUS
<1>2. /\ DOMAIN y = Fields
      /\ y.result = j.result /\ y.ids = j.ids
  BY <1>1 DEF Fields
<1>3. journal' = (journal \ {j}) \cup {y}
  BY <1>1 DEF Mark
<1>4. \E n \in y.ids : y.ids = {n}
  BY <1>2 DEF IInv, JournalInv
<1>5. QED BY <1>2, <1>3, <1>4 DEF IInv, JournalInv, ShapeOK

(* The other commands still find what they are about to delete.            *)
LEMMA RunsKeep ==
  ASSUME IInv, NEW r \in Runs, NEW state,
         run' = [run EXCEPT ![r] = state],
         state.pc = "insert" => state.code \in Codes,
         state.pc = "delete" =>
           /\ DOMAIN state.item = Fields
           /\ \E j \in journal : j.result = "created" /\ j.ids = state.item.ids,
         \A x \in journal : \E y \in journal' : y.result = x.result /\ y.ids = x.ids
  PROVE  RunInv' /\ run' = [q \in Runs |-> run'[q]]
<1>1. /\ \A q \in Runs : run'[q] = IF q = r THEN state ELSE run[q]
      /\ run' = [q \in Runs |-> run'[q]]
  BY DEF IInv, ShapeOK
<1>2. \A q \in Runs :
        /\ run'[q].pc = "insert" => run'[q].code \in Codes
        /\ run'[q].pc = "delete" =>
             /\ DOMAIN run'[q].item = Fields
             /\ \E j \in journal : j.result = "created" /\ j.ids = run'[q].item.ids
  BY <1>1 DEF IInv, RunInv
<1>3. QED BY <1>1, <1>2 DEF RunInv

LEMMA RestingRests == Resting.pc = "rest"
BY DEF Resting

LEMMA PresentIsNotCreated ==
  ASSUME NEW r, NEW c
  PROVE  \E result, ids, attrs :
           /\ result # "created"
           /\ Present(r, c) = Entry(r, c, result, ids, attrs)
BY DEF Present

LEMMA AddPresent ==
  ASSUME IInv, NEW r, NEW c, journal' = journal \cup {Present(r, c)}
  PROVE  /\ JournalInv'
         /\ \A j \in journal' : DOMAIN j = Fields
         /\ \A j \in journal : j \in journal'
<1>1. PICK result, ids, attrs :
        result # "created" /\ Present(r, c) = Entry(r, c, result, ids, attrs)
  BY PresentIsNotCreated
<1>2. QED BY <1>1, AddItem

LEMMA LookKeeps ==
  ASSUME IInv, NEW r \in Runs, NEW c \in Codes, Look(r, c)
  PROVE  IInv' /\ IdentityIsKept
<1>1. UNCHANGED <<identity, link, lote>>
  BY DEF Look
<1>2. CASE identity[c] # {}
  <2>1. journal' = journal \cup {Present(r, c)} /\ UNCHANGED run
    BY <1>2 DEF Look
  <2>2. RunInv'
    BY <2>1, AddPresent DEF IInv, RunInv
  <2>3. ShapeOK'
    BY <1>1, <2>1, AddPresent DEF IInv, ShapeOK
  <2>4. QED BY <1>1, <2>1, <2>2, <2>3, AddPresent, IdentitiesUntouched DEF IInv
<1>3. CASE identity[c] = {}
  <2>1. PICK state : /\ state = [pc |-> "insert", code |-> c, attrs |-> catalog[c]]
                     /\ run' = [run EXCEPT ![r] = state] /\ UNCHANGED journal
    BY <1>3 DEF Look
  <2>2. state.pc = "insert" /\ state.code \in Codes
    BY <2>1
  <2>3. RunInv' /\ run' = [q \in Runs |-> run'[q]]
    BY <2>1, <2>2, RunsKeep
  <2>4. ShapeOK'
    BY <1>1, <2>1, <2>3 DEF IInv, ShapeOK
  <2>5. JournalInv'
    BY <2>1 DEF IInv, JournalInv
  <2>6. QED BY <1>1, <2>3, <2>4, <2>5, IdentitiesUntouched DEF IInv
<1>4. QED BY <1>2, <1>3

LEMMA InsertKeeps ==
  ASSUME IInv, NEW r \in Runs, Insert(r)
  PROVE  IInv' /\ IdentityIsKept
<1>1. PICK c : c = run[r].code
  OBVIOUS
<1>2. PICK state : state = Resting /\ state.pc = "rest"
  BY RestingRests
<1>3. UNCHANGED <<link, lote>> /\ run' = [run EXCEPT ![r] = state]
  BY <1>2 DEF Insert
<1>4. CASE identity[c] # {}
  <2>1. journal' = journal \cup {Present(r, c)} /\ UNCHANGED identity
    BY <1>1, <1>4 DEF Insert
  <2>2. RunInv' /\ run' = [q \in Runs |-> run'[q]]
    BY <1>2, <1>3, <2>1, AddPresent, RunsKeep
  <2>3. ShapeOK'
    BY <1>3, <2>1, <2>2, AddPresent DEF IInv, ShapeOK
  <2>4. QED BY <1>3, <2>1, <2>2, <2>3, AddPresent, IdentitiesUntouched DEF IInv
<1>5. CASE identity[c] = {}
  <2>1. PICK a : NewIdentity(c, a) /\ journal' = journal \cup
                                     {Entry(r, c, "created", {nextId}, {a})}
    BY <1>1, <1>5 DEF Insert
  <2>2. /\ JournalInv'
        /\ \A j \in journal' : DOMAIN j = Fields
        /\ \A j \in journal : j \in journal'
    <3>1. \E n \in {nextId} : {nextId} = {n}
      OBVIOUS
    <3>2. QED BY <2>1, <3>1, AddItem
  <2>3. RunInv' /\ run' = [q \in Runs |-> run'[q]]
    BY <1>2, <1>3, <2>2, RunsKeep
  <2>4. c \in Codes
    BY <1>1 DEF Insert, IInv, RunInv
  <2>5. ShapeOK'
    BY <1>3, <1>5, <2>1, <2>2, <2>3, <2>4, NewIdentityKeeps DEF IInv, ShapeOK
  <2>6. QED BY <1>3, <1>5, <2>1, <2>2, <2>3, <2>4, <2>5, NewIdentityKeeps DEF IInv
<1>6. QED BY <1>4, <1>5

-----------------------------------------------------------------------------
LEMMA StartUndoKeeps ==
  ASSUME IInv, NEW r \in Runs, NEW j \in journal, StartUndo(r, j)
  PROVE  IInv' /\ IdentityIsKept
<1>1. j.result = "created" /\ UNCHANGED <<identity, link, lote>>
  BY DEF StartUndo
<1>2. ASSUME NEW how, Mark(j, how), UNCHANGED run
      PROVE  IInv'
  <2>1. RunInv'
    <3>1. \A x \in journal : \E y \in journal' : y.result = x.result /\ y.ids = x.ids
      BY <1>1, <1>2, MarkItem DEF IInv, ShapeOK
    <3>2. QED BY <1>2, <3>1 DEF IInv, RunInv
  <2>2. JournalInv' /\ \A x \in journal' : DOMAIN x = Fields
    BY <1>1, <1>2, MarkItem DEF IInv, ShapeOK
  <2>3. ShapeOK'
    BY <1>1, <1>2, <2>2 DEF IInv, ShapeOK
  <2>4. QED BY <1>1, <2>1, <2>2, <2>3, IdentitiesUntouched DEF IInv
<1>3. ASSUME NEW state, state = [pc |-> "delete", item |-> j],
             run' = [run EXCEPT ![r] = state], UNCHANGED journal
      PROVE  IInv'
  <2>1. state.pc = "delete" /\ state.item = j /\ DOMAIN j = Fields
    BY <1>3 DEF IInv, ShapeOK
  <2>2. RunInv' /\ run' = [q \in Runs |-> run'[q]]
    BY <1>1, <1>3, <2>1, RunsKeep
  <2>3. ShapeOK'
    BY <1>1, <1>3, <2>2 DEF IInv, ShapeOK
  <2>4. JournalInv'
    BY <1>3 DEF IInv, JournalInv
  <2>5. QED BY <1>1, <2>2, <2>3, <2>4, IdentitiesUntouched DEF IInv
<1>4. IInv'
  BY <1>2, <1>3 DEF StartUndo
<1>5. QED BY <1>1, <1>4, IdentitiesUntouched

(* What is deleted is the identity the execution created, all its code     *)
(* has, and nothing refers to it.                                          *)
LEMMA FinishUndoKeeps ==
  ASSUME IInv, NEW r \in Runs, FinishUndo(r)
  PROVE  IInv' /\ IdentityIsKept
<1>1. PICK j : j = run[r].item
  OBVIOUS
<1>2. PICK state : state = Resting /\ state.pc = "rest"
  BY RestingRests
<1>3. /\ UNCHANGED <<link, lote>> /\ run' = [run EXCEPT ![r] = state]
      /\ run[r].pc = "delete"
  BY <1>2 DEF FinishUndo
<1>4. PICK x \in journal : x.result = "created" /\ x.ids = j.ids /\ DOMAIN j = Fields
  BY <1>1, <1>3 DEF IInv, RunInv
<1>5. CASE \E i \in Found(j) : i.id \in Referenced
  <2>1. UNCHANGED <<identity, journal>>
    BY <1>1, <1>5 DEF FinishUndo
  <2>2. RunInv' /\ run' = [q \in Runs |-> run'[q]]
    BY <1>2, <1>3, <2>1, RunsKeep
  <2>3. ShapeOK'
    BY <1>3, <2>1, <2>2 DEF IInv, ShapeOK
  <2>4. JournalInv'
    BY <2>1 DEF IInv, JournalInv
  <2>5. QED BY <1>3, <2>1, <2>2, <2>3, <2>4, IdentitiesUntouched DEF IInv
<1>6. CASE ~ \E i \in Found(j) : i.id \in Referenced
  <2>1. identity' = [identity EXCEPT ![j.code] = @ \ Found(j)] /\ Mark(j, "rolled_back")
    BY <1>1, <1>6 DEF FinishUndo
  <2>2. /\ \A c \in Codes : identity'[c] = IF c = j.code THEN identity[c] \ Found(j)
                                           ELSE identity[c]
        /\ identity' = [c \in Codes |-> identity'[c]]
    BY <2>1 DEF IInv, ShapeOK
  <2>3. \A c \in Codes : identity'[c] \subseteq identity[c]
    BY <2>2
  <2>4. OneIdentity' /\ LoteInv'
    <3>1. OneIdentity'
      BY <2>3 DEF IInv, OneIdentity
    <3>2. \A l \in Lotes : Creating(l)' = Creating(l)
      BY <1>3 DEF Creating
    <3>3. LoteInv'
      BY <1>3, <2>3, <3>2 DEF IInv, LoteInv
    <3>4. QED BY <3>1, <3>3
  <2>5. LinksAreCurrent'
    <3> SUFFICES ASSUME NEW c \in Codes, NEW k \in link[c], k.id # 0
                 PROVE  \E i \in identity'[c] : i.id = k.id
      BY <1>3 DEF LinksAreCurrent, LinkIds, Ids
    <3>1. PICK i \in identity[c] : i.id = k.id
      BY DEF IInv, LinksAreCurrent, LinkIds, Ids
    <3>2. k.id \in Referenced
      <4>1. k.id \in LinkIds(c)
        BY DEF LinkIds
      <4>2. k.id \in UNION {LinkIds(d) : d \in Codes}
        BY <4>1
      <4>3. QED BY <4>2 DEF Referenced
    <3>3. i \notin Found(j)
      BY <1>6, <3>1, <3>2
    <3>4. QED BY <2>2, <3>1, <3>3
  <2>6. IdentityIsKept
    <3> SUFFICES ASSUME NEW c \in Codes, identity[c] # {}, identity'[c] # identity[c]
                 PROVE  /\ identity'[c] = {} /\ Ids(c) \cap Referenced = {}
                        /\ Ids(c) = x.ids
      BY <1>4 DEF IdentityIsKept
    <3>1. c = j.code /\ identity'[c] = identity[c] \ Found(j)
      BY <2>2
    <3>2. PICK i \in identity[c] : i \in Found(j)
      BY <3>1
    <3>3. identity[c] = {i}
      BY <3>2 DEF IInv, OneIdentity
    <3>4. Ids(c) = {i.id} /\ i.id \in x.ids /\ i.id \notin Referenced
      BY <1>4, <1>6, <3>2, <3>3 DEF Ids, Found
    <3>5. x.ids = {i.id}
      BY <1>4, <3>4 DEF IInv, JournalInv
    <3>6. QED BY <3>1, <3>2, <3>3, <3>4, <3>5
  <2>7. /\ JournalInv'
        /\ \A y \in journal' : DOMAIN y = Fields
        /\ \A y \in journal : \E z \in journal' : z.result = y.result /\ z.ids = y.ids
    BY <1>4, <2>1, MarkItem
  <2>8. RunInv' /\ run' = [q \in Runs |-> run'[q]]
    BY <1>2, <1>3, <2>7, RunsKeep
  <2>9. ShapeOK'
    BY <1>3, <2>2, <2>7, <2>8 DEF IInv, ShapeOK
  <2>10. QED BY <2>4, <2>5, <2>6, <2>7, <2>8, <2>9 DEF IInv
<1>7. QED BY <1>5, <1>6

LEMMA DieKeeps ==
  ASSUME IInv, NEW r \in Runs, Die(r)
  PROVE  IInv' /\ IdentityIsKept
<1>1. PICK state : state = Resting /\ state.pc = "rest"
  BY RestingRests
<1>2. run' = [run EXCEPT ![r] = state] /\ UNCHANGED <<identity, link, lote, journal>>
  BY <1>1 DEF Die
<1>3. RunInv' /\ run' = [q \in Runs |-> run'[q]]
  BY <1>1, <1>2, RunsKeep
<1>4. ShapeOK'
  BY <1>2, <1>3 DEF IInv, ShapeOK
<1>5. JournalInv'
  BY <1>2 DEF IInv, JournalInv
<1>q. QED BY <1>2, <1>3, <1>4, <1>5, IdentitiesUntouched DEF IInv

-----------------------------------------------------------------------------
(* Every step keeps the invariant and takes no identity it may not take.   *)
LEMMA StepKeeps == IInv /\ [Next]_cvars => IInv' /\ IdentityIsKept
<1> SUFFICES ASSUME IInv, [Next]_cvars PROVE IInv' /\ IdentityIsKept
  OBVIOUS
<1>1. ASSUME NEW c \in Codes, NEW a \in Attrs, EditCatalog(c, a) \/ ImportEntry(c, a)
      PROVE  IInv' /\ IdentityIsKept
  BY <1>1, EditKeeps, ImportEntryKeeps
<1>2. ASSUME NEW c \in Codes, Ensure(c)
      PROVE  IInv' /\ IdentityIsKept
  BY <1>2, EnsureKeeps
<1>3. ASSUME NEW l \in Lotes, LoadLote(l) \/ CommitLote(l) \/ FailLote(l)
      PROVE  IInv' /\ IdentityIsKept
  BY <1>3, LoadKeeps, CommitKeeps, FailKeeps
<1>4. ASSUME NEW r \in Runs, NEW c \in Codes, Look(r, c)
      PROVE  IInv' /\ IdentityIsKept
  BY <1>4, LookKeeps
<1>5. ASSUME NEW r \in Runs, NEW j \in journal, StartUndo(r, j)
      PROVE  IInv' /\ IdentityIsKept
  BY <1>5, StartUndoKeeps
<1>6. ASSUME NEW r \in Runs, Insert(r) \/ FinishUndo(r) \/ Die(r)
      PROVE  IInv' /\ IdentityIsKept
  BY <1>6, InsertKeeps, FinishUndoKeeps, DieKeeps
<1>7. CASE UNCHANGED cvars
  <2>1. UNCHANGED <<identity, link, lote, journal, run>>
    BY <1>7 DEF cvars
  <2>2. ShapeOK'
    BY <2>1 DEF IInv, ShapeOK
  <2>3. QED BY <2>1, <2>2, IdentitiesUntouched, JournalUntouched DEF IInv
<1>8. CASE RefreshLinks
  BY <1>8, RefreshKeeps
<1>q. QED BY <1>1, <1>2, <1>3, <1>4, <1>5, <1>6, <1>7, <1>8 DEF Next

(* The invariant the theorem below rests on: what a batch is about to      *)
(* insert is new, and what a rollback is about to delete is all its code   *)
(* has of the execution that created it.                                   *)
THEOREM Invariance == Spec => []IInv
<1>1. Init => IInv
  BY Initially
<1>2. IInv /\ [Next]_cvars => IInv'
  BY StepKeeps
<1>q. QED BY <1>1, <1>2, PTL DEF Spec

(* Whatever backfills, rollbacks, chart importers and ledger batches       *)
(* overlap, a link with an identity has the one its code has, and an       *)
(* identity goes only as its execution created it and with nothing that    *)
(* refers to it (rollback_backfill, _update_account_links).                *)
THEOREM AccountsAreStable == Spec => IdentitiesAreStable
<1>1. IInv => LinksAreCurrent
  BY DEF IInv
<1>2. IInv /\ IInv' /\ [Next]_cvars => [LinksAreCurrent' /\ IdentityIsKept]_cvars
  <2>1. IInv' => LinksAreCurrent'
    BY <1>1, PTL
  <2>2. QED BY <2>1, StepKeeps
<1>q. QED BY <1>2, Invariance, PTL DEF Spec, IdentitiesAreStable

-----------------------------------------------------------------------------
(* What the proofs about sheets rest on: functions defined by recursion.   *)

(* A set of natural numbers that is not empty has a least element.         *)
LEMMA LeastNumber ==
  ASSUME NEW T \in SUBSET Nat, T # {}
  PROVE  \E x \in T : \A y \in T : x <= y
<1> DEFINE upTo == {S \in SUBSET Nat : \E x \in T : S = 0..x}
<1>1. upTo \subseteq FiniteSubsetsOf(Nat) /\ upTo # {}
  <2>1. PICK x \in T : TRUE
    OBVIOUS
  <2>2. 0..x \in upTo
    OBVIOUS
  <2>3. ASSUME NEW y \in T PROVE IsFiniteSet(0..y)
    BY FS_Interval
  <2> QED BY <2>2, <2>3 DEF FiniteSubsetsOf
<1>2. PICK S \in upTo : \A R \in upTo : ~(<<R, S>> \in StrictSubsetOrdering(Nat))
  <2> HIDE DEF upTo
  <2> QED BY <1>1, FS_StrictSubsetOrderingWellFounded, WFMin
<1>3. PICK x \in T : S = 0..x
  OBVIOUS
<1>4. ASSUME NEW y \in T PROVE x <= y
  <2>1. 0..y \in upTo
    OBVIOUS
  <2>2. ~(<<0..y, 0..x>> \in StrictSubsetOrdering(Nat))
    BY <2>1, <1>2, <1>3
  <2> SUFFICES ASSUME y < x PROVE FALSE
    OBVIOUS
  <2>3. 0..y \subseteq 0..x /\ x \in 0..x /\ x \notin 0..y
    OBVIOUS
  <2> QED BY <2>2, <2>3 DEF StrictSubsetOrdering
<1> QED BY <1>4

(* What holds of zero and passes from each number to the next holds of all *)
(* up to a bound.                                                          *)
LEMMA Climb ==
  ASSUME NEW N \in Nat, NEW T, 0 \in T, \A k \in 0..(N - 1) : k \in T => k + 1 \in T
  PROVE  0..N \subseteq T
<1> DEFINE Left == {k \in 0..N : k \notin T}
<1> SUFFICES ASSUME Left # {} PROVE FALSE
  OBVIOUS
<1>1. Left \in SUBSET Nat
  OBVIOUS
<1>2. PICK x \in Left : \A y \in Left : x <= y
  <2> HIDE DEF Left
  <2> QED BY <1>1, LeastNumber
<1>3. x \in 1..N /\ x - 1 \in 0..(N - 1) /\ x - 1 \notin Left
  BY <1>2
<1> QED BY <1>3

(* A sheet of movements is read row by row.                                *)
LEMMA ReadingMovementsStep ==
  ASSUME NEW s, Len(s) \in Nat
  PROVE  /\ ReadingMovements(s)[0] = EmptySheet
         /\ \A k \in 1..Len(s) :
              ReadingMovements(s)[k] = ReadMovementRow(ReadingMovements(s)[k - 1], s[k])
<1> DEFINE Is(f, n) == f = [k \in 0..n |-> IF k = 0 THEN EmptySheet
                                            ELSE ReadMovementRow(f[k - 1], s[k])]
           T == {n \in Nat : \E f : Is(f, n)}
<1>1. 0 \in T
  <2> Is([k \in 0..0 |-> EmptySheet], 0)
    OBVIOUS
  <2> QED OBVIOUS
<1>2. ASSUME NEW n \in 0..(Len(s) - 1), n \in T PROVE n + 1 \in T
  <2>1. PICK f : Is(f, n)
    BY <1>2
  <2> DEFINE g == [k \in 0..(n + 1) |-> IF k <= n THEN f[k]
                                        ELSE ReadMovementRow(f[n], s[n + 1])]
  <2>2. Is(g, n + 1)
    BY <2>1
  <2>3. n + 1 \in Nat
    OBVIOUS
  <2>4. \E h : Is(h, n + 1)
    <3> HIDE DEF Is, g
    <3> QED BY <2>2
  <2> QED BY <2>3, <2>4
<1>3. 0..Len(s) \subseteq T
  <2> HIDE DEF T
  <2> QED BY <1>1, <1>2, Climb
<1>4. \E f : Is(f, Len(s))
  BY <1>3
<1>5. Is(ReadingMovements(s), Len(s))
  BY <1>4 DEF ReadingMovements
<1> QED BY <1>5

(* Its lines are imported one after the other.                              *)
LEMMA ImportingStep ==
  ASSUME NEW p, NEW a, Len(p.entries) \in Nat
  PROVE  /\ ImportingMovements(p, a)[0] = Nothing
         /\ \A k \in 1..Len(p.entries) :
              ImportingMovements(p, a)[k] = ImportMovement(ImportingMovements(p, a)[k - 1], p.entries[k], k, a, p)
<1> DEFINE Is(f, n) == f = [k \in 0..n |-> IF k = 0 THEN Nothing
                                            ELSE ImportMovement(f[k - 1], p.entries[k], k, a, p)]
           T == {n \in Nat : \E f : Is(f, n)}
<1>1. 0 \in T
  <2> Is([k \in 0..0 |-> Nothing], 0)
    OBVIOUS
  <2> QED OBVIOUS
<1>2. ASSUME NEW n \in 0..(Len(p.entries) - 1), n \in T PROVE n + 1 \in T
  <2>1. PICK f : Is(f, n)
    BY <1>2
  <2> DEFINE g == [k \in 0..(n + 1) |-> IF k <= n THEN f[k]
                                        ELSE ImportMovement(f[n], p.entries[n + 1], n + 1, a, p)]
  <2>2. Is(g, n + 1)
    BY <2>1
  <2>3. n + 1 \in Nat
    OBVIOUS
  <2>4. \E h : Is(h, n + 1)
    <3> HIDE DEF Is, g
    <3> QED BY <2>2
  <2> QED BY <2>3, <2>4
<1>3. 0..Len(p.entries) \subseteq T
  <2> HIDE DEF T
  <2> QED BY <1>1, <1>2, Climb
<1>4. \E f : Is(f, Len(p.entries))
  BY <1>3
<1>5. Is(ImportingMovements(p, a), Len(p.entries))
  BY <1>4 DEF ImportingMovements
<1>6. ASSUME NEW f, NEW N \in Nat, Is(f, N)
      PROVE  f[0] = Nothing /\ \A k \in 1..N : f[k] = ImportMovement(f[k - 1], p.entries[k], k, a, p)
  BY <1>6
<1> HIDE DEF Is
<1> QED BY <1>5, <1>6

(* What the reference definition of a balance computes.                    *)
BalanceAfter(before, l, conta) ==
  IF l.conta # conta THEN before
  ELSE IF before = << >> THEN <<Shown(l)>>
  ELSE <<before[1] + l.valor>>

(* The reference balance of an account passes from line to line.           *)
LEMMA BalancingStep ==
  ASSUME NEW of, NEW conta, Len(of) \in Nat
  PROVE  /\ Balancing(of, conta)[0] = << >>
         /\ \A k \in 1..Len(of) :
              Balancing(of, conta)[k] = BalanceAfter(Balancing(of, conta)[k - 1], of[k], conta)
<1> DEFINE Is(f, n) == f = [k \in 0..n |-> IF k = 0 THEN << >>
                                            ELSE BalanceAfter(f[k - 1], of[k], conta)]
           T == {n \in Nat : \E f : Is(f, n)}
<1>1. 0 \in T
  <2> Is([k \in 0..0 |-> << >>], 0)
    OBVIOUS
  <2> QED OBVIOUS
<1>2. ASSUME NEW n \in 0..(Len(of) - 1), n \in T PROVE n + 1 \in T
  <2>1. PICK f : Is(f, n)
    BY <1>2
  <2> DEFINE g == [k \in 0..(n + 1) |-> IF k <= n THEN f[k]
                                        ELSE BalanceAfter(f[n], of[n + 1], conta)]
  <2>2. Is(g, n + 1)
    BY <2>1
  <2>3. n + 1 \in Nat
    OBVIOUS
  <2>4. \E h : Is(h, n + 1)
    <3> HIDE DEF Is, g
    <3> QED BY <2>2
  <2> QED BY <2>3, <2>4
<1>3. 0..Len(of) \subseteq T
  <2> HIDE DEF T
  <2> QED BY <1>1, <1>2, Climb
<1>4. \E f : Is(f, Len(of))
  BY <1>3
<1>5. Is(Balancing(of, conta), Len(of))
  BY <1>4 DEF Balancing, BalanceAfter
<1> QED BY <1>5


-----------------------------------------------------------------------------
(* The import of movements.                                                *)

IsSeq(x) == \E S : x \in Seq(S)

(* Appending adds one element and changes no earlier one.                  *)
LEMMA AppendOne ==
  ASSUME NEW x, IsSeq(x), NEW e
  PROVE  /\ IsSeq(Append(x, e))
         /\ Len(x) \in Nat /\ Len(Append(x, e)) = Len(x) + 1
         /\ \A k \in 1..Len(x) : Append(x, e)[k] = x[k]
         /\ Append(x, e)[Len(x) + 1] = e
<1>1. PICK S : x \in Seq(S)
  BY DEF IsSeq
<1>2. x \in Seq(S \cup {e}) /\ e \in S \cup {e}
  BY <1>1
<1>3. Append(x, e) \in Seq(S \cup {e})
  BY <1>2
<1>4. IsSeq(Append(x, e))
  BY <1>3 DEF IsSeq
<1> QED BY <1>2, <1>4

(* A value that is there differs from one that is not.                     *)
LEMMA OneIsNotNone ==
  ASSUME NEW v
  PROVE  <<v>> # << >> /\ <<v>>[1] = v
<1>1. Len(<<v>>) = 1 /\ Len(<< >>) = 0
  OBVIOUS
<1>2. <<v>> # << >>
  BY <1>1
<1> QED BY <1>2

LEMMA EmptyIsSeq == IsSeq(<< >>) /\ Len(<< >>) = 0
<1>1. << >> \in Seq({})
  OBVIOUS
<1> QED BY <1>1 DEF IsSeq

(* What has been read of a sheet: a sequence of lines, each with a date.   *)
ReadSoFar(s) ==
  /\ {"meta", "header", "ambiguous", "entries"} \subseteq DOMAIN s
  /\ IsSeq(s.entries)
  /\ \A n \in 1..Len(s.entries) : s.entries[n].data \notin {Blank, Bad}

(* A row read adds at most one entry.                                      *)
LEMMA ReadRowKeeps ==
  ASSUME NEW s, NEW row, ReadSoFar(s)
  PROVE  ReadSoFar(ReadMovementRow(s, row))
<1>1. PICK t : t = [s EXCEPT !.meta = [l \in MovementLabels |-> IF l \in DOMAIN row.meta
                                                   THEN row.meta[l] ELSE s.meta[l]]]
  OBVIOUS
<1>2. ReadSoFar(t) /\ t.entries = s.entries
  BY <1>1 DEF ReadSoFar
<1>3. /\ ReadSoFar([t EXCEPT !.ambiguous = TRUE])
      /\ ReadSoFar([t EXCEPT !.header = row.columns])
  BY <1>2 DEF ReadSoFar
<1>4. ASSUME Cell(row, t.header, "data") \notin {Blank, Bad}
      PROVE  ReadSoFar([t EXCEPT !.entries = Append(@, MovementEntry(row, t.header))])
  <2>1. PICK e : e = MovementEntry(row, t.header) /\ e.data \notin {Blank, Bad}
    <3>1. MovementEntry(row, t.header).data = Cell(row, t.header, "data")
      BY DEF MovementEntry
    <3> QED BY <1>4, <3>1
  <2>2. PICK x : x = Append(t.entries, e)
    OBVIOUS
  <2>3. /\ IsSeq(x) /\ \A n \in 1..Len(x) : x[n].data \notin {Blank, Bad}
    BY <1>2, <2>1, <2>2, AppendOne DEF ReadSoFar
  <2>4. PICK v : v = [t EXCEPT !.entries = Append(@, MovementEntry(row, t.header))]
    OBVIOUS
  <2>5. v.entries = x /\ DOMAIN v = DOMAIN t
    BY <1>2, <2>1, <2>2, <2>4 DEF ReadSoFar
  <2> QED BY <1>2, <2>3, <2>4, <2>5 DEF ReadSoFar
<1>5. ReadMovementRow(s, row) \in
        { s, t, [t EXCEPT !.ambiguous = TRUE], [t EXCEPT !.header = row.columns] }
      \/ /\ Cell(row, t.header, "data") \notin {Blank, Bad}
         /\ ReadMovementRow(s, row) = [t EXCEPT !.entries = Append(@, MovementEntry(row, t.header))]
  BY <1>1 DEF ReadMovementRow
<1> QED BY <1>2, <1>3, <1>4, <1>5

(* The parser makes a sequence of entries of every sheet.                  *)
LEMMA SheetIsRead ==
  ASSUME NEW s, Len(s) \in Nat
  PROVE  ReadSoFar(ParsedMovements(s))
<1> DEFINE T == {k \in 0..Len(s) : ReadSoFar(ReadingMovements(s)[k])}
<1>1. 0 \in T
  <2>1. ReadSoFar(EmptySheet)
    BY EmptyIsSeq DEF ReadSoFar, EmptySheet
  <2> QED BY <2>1, ReadingMovementsStep
<1>2. ASSUME NEW k \in 0..(Len(s) - 1), k \in T PROVE k + 1 \in T
  <2>1. ReadingMovements(s)[k + 1] = ReadMovementRow(ReadingMovements(s)[k], s[k + 1])
    BY ReadingMovementsStep
  <2> QED BY <1>2, <2>1, ReadRowKeeps
<1>3. 0..Len(s) \subseteq T
  <2> HIDE DEF T
  <2> QED BY <1>1, <1>2, Climb
<1> QED BY <1>3 DEF ParsedMovements

(* The balance of the lines up to one depends on no later line.            *)
LEMMA BalancingPrefix ==
  ASSUME NEW of, NEW og, NEW N \in Nat, Len(of) \in Nat, Len(og) \in Nat,
         N <= Len(of), N <= Len(og), \A i \in 1..N : of[i] = og[i], NEW conta
  PROVE  \A i \in 0..N : Balancing(of, conta)[i] = Balancing(og, conta)[i]
<1> DEFINE T == {i \in 0..N : Balancing(of, conta)[i] = Balancing(og, conta)[i]}
<1>1. 0 \in T
  BY BalancingStep
<1>2. ASSUME NEW i \in 0..(N - 1), i \in T PROVE i + 1 \in T
  <2>1. i + 1 \in 1..Len(of) /\ i + 1 \in 1..Len(og) /\ of[i + 1] = og[i + 1]
        /\ i + 1 \in 0..N /\ (i + 1) - 1 = i
    OBVIOUS
  <2>2. Balancing(of, conta)[i] = Balancing(og, conta)[i]
    BY <1>2
  <2>3. Balancing(of, conta)[i + 1] = Balancing(og, conta)[i + 1]
    <3>1. PICK k : k = i + 1 /\ k \in 1..Len(of) /\ k \in 1..Len(og) /\ k - 1 = i /\ of[k] = og[k]
      BY <2>1
    <3>2. /\ Balancing(of, conta)[k] = BalanceAfter(Balancing(of, conta)[k - 1], of[k], conta)
          /\ Balancing(og, conta)[k] = BalanceAfter(Balancing(og, conta)[k - 1], og[k], conta)
      BY <3>1, BalancingStep
    <3> QED BY <2>2, <3>1, <3>2
  <2> QED BY <2>1, <2>3
<1>3. 0..N \subseteq T
  <2> HIDE DEF T
  <2> QED BY <1>1, <1>2, Climb
<1> QED BY <1>3

-----------------------------------------------------------------------------
(* What the import has made of the first n lines: each is stored, with the *)
(* status of its kind, or warned of; the balances are those of what is     *)
(* stored.                                                                 *)
StoredLines(r, p) == Lines(r.movements, p.entries)
MovementsKept(r, n, p, a) ==
  /\ IsSeq(r.movements)
  /\ \A i \in 1..Len(r.movements) :
       LET m == r.movements[i] IN
       /\ m.linha \in 1..n /\ IsValid(p.entries[m.linha], a)
       /\ m.status = StatusOfLine(p.entries[m.linha], a, p)
  /\ \A k \in 1..n :
       IF IsValid(p.entries[k], a) THEN \E i \in 1..Len(r.movements) : r.movements[i].linha = k
       ELSE k \in r.warned
BalancesKept(r, p) ==
  /\ \A conta :
       Balancing(StoredLines(r, p), conta)[Len(r.movements)] =
         IF conta \in DOMAIN r.balance THEN <<r.balance[conta]>> ELSE << >>
  /\ \A i \in 1..Len(r.movements) :
       Balancing(StoredLines(r, p), StoredLines(r, p)[i].conta)[i] = <<r.movements[i].calculado>>
ImportKept(r, n, p, a) ==
  {"movements", "warned", "balance"} \subseteq DOMAIN r /\ MovementsKept(r, n, p, a)
    /\ BalancesKept(r, p)

LEMMA StoredLinesAre ==
  ASSUME NEW r, NEW p, IsSeq(r.movements)
  PROVE  /\ Len(r.movements) \in Nat /\ Len(StoredLines(r, p)) = Len(r.movements)
         /\ \A i \in 1..Len(r.movements) : StoredLines(r, p)[i] = p.entries[r.movements[i].linha]
<1>1. Len(r.movements) \in Nat
  BY AppendOne
<1>2. PICK n \in Nat : n = Len(r.movements)
  BY <1>1
<1>3. StoredLines(r, p) = [i \in 1..n |-> p.entries[r.movements[i].linha]]
  BY <1>2 DEF StoredLines, Lines
<1>4. Len(StoredLines(r, p)) = n
  BY <1>3
<1> QED BY <1>2, <1>3, <1>4

(* A rejected line leaves a warning and nothing else.                      *)
LEMMA RejectedLine ==
  ASSUME NEW p, NEW a, NEW n \in Nat \ {0}, NEW r, ImportKept(r, n - 1, p, a),
         ~IsValid(p.entries[n], a)
  PROVE  ImportKept([r EXCEPT !.warned = @ \cup {n}], n, p, a)
<1>1. PICK q : q = [r EXCEPT !.warned = @ \cup {n}]
  OBVIOUS
<1>2. /\ q.movements = r.movements /\ q.balance = r.balance /\ q.warned = r.warned \cup {n}
      /\ DOMAIN q = DOMAIN r
  BY <1>1 DEF ImportKept
<1>3. MovementsKept(q, n, p, a)
  <2>1. \A k \in 1..n : k # n => k \in 1..(n - 1)
    OBVIOUS
  <2>2. ASSUME NEW k \in 1..n
        PROVE  IF IsValid(p.entries[k], a) THEN \E i \in 1..Len(q.movements) : q.movements[i].linha = k
               ELSE k \in q.warned
    BY <1>2, <2>1 DEF ImportKept, MovementsKept
  <2>3. 1..(n - 1) \subseteq 1..n
    OBVIOUS
  <2> QED BY <1>2, <2>2, <2>3 DEF ImportKept, MovementsKept
<1>4. BalancesKept(q, p)
  BY <1>2 DEF ImportKept, BalancesKept, StoredLines
<1> QED BY <1>1, <1>2, <1>3, <1>4 DEF ImportKept

(* A valid line is stored, after what was imported before it.              *)
LEMMA StoredLine ==
  ASSUME NEW p, NEW a, NEW n \in Nat \ {0}, NEW r, ImportKept(r, n - 1, p, a),
         IsValid(p.entries[n], a),
         NEW q, {"movements", "warned", "balance"} \subseteq DOMAIN q,
         q.movements = Append(r.movements, Movement(r, p.entries[n], n, a, p)),
         r.warned \subseteq q.warned, q.balance = WithBalance(r.balance, p.entries[n])
  PROVE  ImportKept(q, n, p, a)
<1> DEFINE l == p.entries[n]
           m == Movement(r, l, n, a, p)
           N == Len(r.movements)
<1>1. m.linha = n /\ m.status = StatusOfLine(l, a, p) /\ m.calculado = Calculated(r.balance, l)
  BY DEF Movement
<1>2. /\ N \in Nat /\ IsSeq(r.movements) /\ IsSeq(q.movements) /\ Len(q.movements) = N + 1
      /\ \A i \in 1..N : q.movements[i] = r.movements[i]
      /\ q.movements[N + 1] = m
  <2> HIDE DEF m
  <2> QED BY AppendOne DEF m, ImportKept, MovementsKept
<1> HIDE DEF m
<1>3. MovementsKept(q, n, p, a)
  <2>1. \A k \in 1..n : k # n => k \in 1..(n - 1)
    OBVIOUS
  <2>2. 1..(n - 1) \subseteq 1..n /\ n \in 1..n
    OBVIOUS
  <2>3. \A i \in 1..(N + 1) : i \in 1..N \/ i = N + 1
    BY <1>2
  <2>4. N + 1 \in 1..(N + 1) /\ 1..N \subseteq 1..(N + 1)
    BY <1>2
  <2>5. ASSUME NEW i \in 1..(N + 1)
        PROVE  /\ q.movements[i].linha \in 1..n /\ IsValid(p.entries[q.movements[i].linha], a)
               /\ q.movements[i].status = StatusOfLine(p.entries[q.movements[i].linha], a, p)
    BY <1>1, <1>2, <2>2, <2>3 DEF ImportKept, MovementsKept
  <2>6. ASSUME NEW k \in 1..n
        PROVE  IF IsValid(p.entries[k], a) THEN \E i \in 1..(N + 1) : q.movements[i].linha = k
               ELSE k \in q.warned
    <3>1. CASE k = n
      BY <1>1, <1>2, <2>4, <3>1
    <3>2. CASE k \in 1..(n - 1)
      BY <1>2, <2>4, <3>2 DEF ImportKept, MovementsKept
    <3> QED BY <2>1, <3>1, <3>2
  <2> HIDE DEF N
  <2> QED BY <1>2, <2>5, <2>6 DEF MovementsKept
<1>4. BalancesKept(q, p)
  <2> DEFINE of == StoredLines(r, p)
             og == StoredLines(q, p)
  <2>1. /\ Len(of) = N /\ Len(og) = N + 1
        /\ \A i \in 1..N : of[i] = p.entries[r.movements[i].linha]
        /\ \A i \in 1..(N + 1) : og[i] = p.entries[q.movements[i].linha]
    <3>1. /\ Len(of) = N
          /\ \A i \in 1..N : of[i] = p.entries[r.movements[i].linha]
      BY <1>2, StoredLinesAre
    <3>2. /\ Len(og) = Len(q.movements)
          /\ \A i \in 1..Len(q.movements) : og[i] = p.entries[q.movements[i].linha]
      BY ZenonT(60), <1>2, StoredLinesAre
    <3> HIDE DEF of, og, N
    <3> QED BY <1>2, <3>1, <3>2
  <2>2. \A i \in 1..N : of[i] = og[i]
    BY SMTT(30), <1>2, <2>1
  <2>3. og[N + 1] = l
    BY SMTT(30), <1>1, <1>2, <2>1
  <2> HIDE DEF of, og, l, N
  <2>4. ASSUME NEW conta
        PROVE  \A i \in 0..N : Balancing(of, conta)[i] = Balancing(og, conta)[i]
    <3>1. N \in Nat /\ Len(of) \in Nat /\ Len(og) \in Nat /\ N <= Len(of) /\ N <= Len(og)
      BY <1>2, <2>1
    <3> QED BY <2>2, <3>1, BalancingPrefix
  <2>5. ASSUME NEW conta
        PROVE  Balancing(og, conta)[N + 1] = BalanceAfter(Balancing(of, conta)[N], l, conta)
    <3>1. PICK k : k = N + 1 /\ k \in 1..Len(og) /\ k - 1 = N /\ N \in 0..N /\ Len(og) \in Nat
      BY <1>2, <2>1
    <3>2. Balancing(og, conta)[k] = BalanceAfter(Balancing(og, conta)[k - 1], og[k], conta)
      BY <3>1, BalancingStep
    <3> QED BY <2>3, <2>4, <3>1, <3>2
  <2>6. ASSUME NEW conta
        PROVE  /\ Balancing(of, conta)[N] =
                     IF conta \in DOMAIN r.balance THEN <<r.balance[conta]>> ELSE << >>
    BY DEF ImportKept, BalancesKept, of, N
  <2>7. Balancing(og, l.conta)[N + 1] = <<Calculated(r.balance, l)>>
    <3>1. CASE l.conta \in DOMAIN r.balance
      <4>1. PICK x : x = Balancing(of, l.conta)[N] /\ x = <<r.balance[l.conta]>>
        BY <2>6, <3>1
      <4>2. x # << >> /\ x[1] = r.balance[l.conta]
        BY <4>1, OneIsNotNone
      <4> QED BY <2>5, <3>1, <4>1, <4>2 DEF Calculated, BalanceAfter
    <3>2. CASE l.conta \notin DOMAIN r.balance
      BY <2>5, <2>6, <3>2 DEF Calculated, Shown, BalanceAfter
    <3> QED BY <3>1, <3>2
  <2>8. ASSUME NEW conta
        PROVE  Balancing(og, conta)[N + 1] =
                 IF conta \in DOMAIN q.balance THEN <<q.balance[conta]>> ELSE << >>
    <3>1. q.balance = WithBalance(r.balance, l)
      BY DEF l
    <3>2. CASE conta = l.conta
      BY <2>7, <3>1, <3>2 DEF WithBalance
    <3>3. CASE conta # l.conta
      BY ZenonT(60), <2>5, <2>6, <3>1, <3>3 DEF WithBalance, BalanceAfter
    <3> QED BY <3>2, <3>3
  <2>9. ASSUME NEW i \in 1..(N + 1)
        PROVE  Balancing(og, og[i].conta)[i] = <<q.movements[i].calculado>>
    <3>1. CASE i = N + 1
      BY <1>1, <1>2, <2>3, <2>7, <3>1 DEF l
    <3>2. CASE i \in 1..N
      <4>1. Balancing(of, of[i].conta)[i] = <<r.movements[i].calculado>>
        BY <3>2 DEF ImportKept, BalancesKept, of, N
      <4>2. i \in 0..N
        BY <3>2, <1>2
      <4> QED BY <4>1, <4>2, <1>2, <2>2, <2>4, <3>2
    <3> QED BY <3>1, <3>2, <1>2
  <2> QED BY <1>2, <2>8, <2>9 DEF BalancesKept, og
<1> QED BY <1>3, <1>4 DEF ImportKept

LEMMA ImportMovementKeeps ==
  ASSUME NEW p, NEW a, NEW n \in Nat \ {0}, NEW r, ImportKept(r, n - 1, p, a)
  PROVE  ImportKept(ImportMovement(r, p.entries[n], n, a, p), n, p, a)
<1>1. CASE ~IsValid(p.entries[n], a)
  <2>1. ImportMovement(r, p.entries[n], n, a, p) = [r EXCEPT !.warned = @ \cup {n}]
    BY <1>1 DEF ImportMovement
  <2> QED BY <1>1, <2>1, RejectedLine
<1>2. CASE IsValid(p.entries[n], a)
  <2>1. PICK m : m = Append(r.movements, Movement(r, p.entries[n], n, a, p))
    OBVIOUS
  <2>2. PICK w : /\ w = IF HasWarnings(p.entries[n], a, p) \/ BalanceDoubt(r.balance, p.entries[n])
                        THEN r.warned \cup {n} ELSE r.warned
                 /\ r.warned \subseteq w
    OBVIOUS
  <2>3. PICK b : b = WithBalance(r.balance, p.entries[n])
    OBVIOUS
  <2>4. PICK q : q = [movements |-> m, warned |-> w, balance |-> b]
    OBVIOUS
  <2>5. ImportMovement(r, p.entries[n], n, a, p) = q
    BY <1>2, <2>1, <2>2, <2>3, <2>4 DEF ImportMovement
  <2>6. q.movements = m /\ q.warned = w /\ q.balance = b
        /\ {"movements", "warned", "balance"} \subseteq DOMAIN q
    BY <2>4
  <2>7. ImportKept(q, n, p, a)
    BY <1>2, <2>1, <2>2, <2>3, <2>6, StoredLine
  <2> QED BY <2>5, <2>7
<1> QED BY <1>1, <1>2

LEMMA ImportedIsKept ==
  ASSUME NEW p, NEW a, IsSeq(p.entries)
  PROVE  ImportKept(Imported(p, a), Len(p.entries), p, a)
<1>1. PICK N \in Nat : N = Len(p.entries)
  BY AppendOne
<1> DEFINE T == {n \in 0..N : ImportKept(ImportingMovements(p, a)[n], n, p, a)}
<1>2. 0 \in T
  <2>1. /\ Nothing.movements = << >> /\ Nothing.balance = << >>
        /\ {"movements", "warned", "balance"} \subseteq DOMAIN Nothing
    BY DEF Nothing
  <2>2. MovementsKept(Nothing, 0, p, a)
    BY <2>1, EmptyIsSeq DEF MovementsKept
  <2>3. /\ Len(Nothing.movements) = 0 /\ DOMAIN Nothing.balance = {}
        /\ Len(StoredLines(Nothing, p)) = 0
    BY <2>1, EmptyIsSeq, StoredLinesAre
  <2>4. \A conta : Balancing(StoredLines(Nothing, p), conta)[0] = << >>
    BY <2>3, BalancingStep
  <2>5. BalancesKept(Nothing, p)
    BY <2>3, <2>4 DEF BalancesKept
  <2>6. ImportKept(Nothing, 0, p, a)
    BY <2>1, <2>2, <2>5 DEF ImportKept
  <2> QED BY <1>1, <2>6, ImportingStep
<1>3. ASSUME NEW n \in 0..(N - 1), n \in T PROVE n + 1 \in T
  <2>1. n + 1 \in 1..N /\ (n + 1) - 1 = n /\ n + 1 \in 0..N /\ n + 1 \in Nat \ {0}
    OBVIOUS
  <2>2. PICK r : r = ImportingMovements(p, a)[n] /\ ImportKept(r, n, p, a)
    BY <1>3
  <2>3. ImportingMovements(p, a)[n + 1] = ImportMovement(r, p.entries[n + 1], n + 1, a, p)
    BY <1>1, <2>1, <2>2, ImportingStep
  <2> QED BY <2>1, <2>2, <2>3, ImportMovementKeeps
<1>4. 0..N \subseteq T
  <2> HIDE DEF T
  <2> QED BY <1>2, <1>3, Climb
<1> QED BY <1>1, <1>4 DEF Imported

-----------------------------------------------------------------------------
(* Whatever is imported of a sheet that could be read, with the accounts   *)
(* of some moment: its lot is accounted for, and the validator agrees.     *)
LotIsAccounted(lot) ==
  LET stored == {lot.movements[i].linha : i \in 1..Len(lot.movements)} IN
  /\ \A n \in 1..lot.total : n \in stored \cup lot.warned
  /\ lot.status = "failed" => stored = {}
  /\ lot.status = "completed" => stored = 1..lot.total
LotIsBalanced(lot) ==
  LET of == Lines(lot.movements, EntriesOf(lot)) IN
  \A i \in 1..Len(of) : Balancing(of, of[i].conta)[i] = <<lot.movements[i].calculado>>

(* A batch made of any sheet, whatever the accounts, is accounted for.     *)
LEMMA LotIsGood ==
  ASSUME NEW s \in MovementSheets, NEW a
  PROVE  /\ LotIsAccounted(Lot(s, ParsedMovements(s), a))
         /\ LotIsBalanced(Lot(s, ParsedMovements(s), a))
<1>1. PICK p : p = ParsedMovements(s) /\ IsSeq(p.entries)
  BY SheetIsRead, ImportacaoAssumption DEF ReadSoFar
<1>2. PICK r : r = Imported(p, a) /\ ImportKept(r, Len(p.entries), p, a)
  BY <1>1, ImportedIsKept
<1>3. PICK lot : lot = Lot(s, p, a)
  OBVIOUS
<1>4. /\ lot.sheet = s /\ lot.total = Len(p.entries) /\ lot.movements = r.movements
      /\ lot.warned = r.warned
      /\ lot.status = IF ~IsWarned(p, r) THEN "completed"
                      ELSE IF r.movements # << >> THEN "completed_with_warnings" ELSE "failed"
  BY <1>2, <1>3 DEF Lot
<1>5. PICK N \in Nat : N = Len(p.entries)
  BY <1>1, AppendOne
<1>6. LotIsAccounted(lot)
  <2> DEFINE stored == {lot.movements[i].linha : i \in 1..Len(lot.movements)}
  <2>1. /\ \A i \in 1..Len(r.movements) : r.movements[i].linha \in 1..N
        /\ \A k \in 1..N : (\E i \in 1..Len(r.movements) : r.movements[i].linha = k) \/ k \in r.warned
    BY <1>2, <1>5 DEF ImportKept, MovementsKept
  <2>2. stored \subseteq 1..N /\ \A n \in 1..N : n \in stored \/ n \in lot.warned
    BY <1>4, <2>1
  <2>3. lot.status = "failed" => stored = {}
    BY <1>4, EmptyIsSeq
  <2>4. lot.status = "completed" => stored = 1..N
    BY <1>4, <2>2 DEF IsWarned
  <2> QED BY <1>4, <1>5, <2>2, <2>3, <2>4 DEF LotIsAccounted
<1>7. LotIsBalanced(lot)
  <2>1. Lines(lot.movements, EntriesOf(lot)) = StoredLines(r, p)
    BY <1>1, <1>4 DEF EntriesOf, StoredLines
  <2>2. Len(StoredLines(r, p)) = Len(r.movements)
    BY <1>2, StoredLinesAre DEF ImportKept, MovementsKept
  <2> QED BY <1>2, <1>4, <2>1, <2>2 DEF LotIsBalanced, ImportKept, BalancesKept
<1> QED BY <1>1, <1>3, <1>6, <1>7

(* The two ways in which the rules are written decide alike.               *)
LEMMA LineIsJudgedAlike ==
  ASSUME NEW l, NEW a \in Readings, NEW p, l.data \notin {Blank, Bad}, ~Unreadable(p)
  PROVE  Revalidated(l, a, p.meta["inicio"], p.meta["fim"]) =
           IF IsValid(l, a) THEN StatusOfLine(l, a, p) ELSE "invalida"
<1>1. p.meta["inicio"] # Blank /\ p.meta["fim"] # Blank
  BY DEF Unreadable
<1>2. Blank \notin a.usable
  BY ImportacaoAssumption
<1>3. IsValid(l, a) <=>
        /\ l.data # Blank /\ Code(l.conta) # Blank /\ l.historico # Blank
        /\ Value(l.valor) \notin {Blank, 0} /\ Code(l.conta) \in a.usable
        /\ Code(l.contrapartida) # Blank => Code(l.contrapartida) \in a.usable
  BY <1>2 DEF IsValid
<1>4. CASE ~IsValid(l, a)
  BY <1>3, <1>4 DEF Revalidated
<1>5. CASE IsValid(l, a)
  <2>1. PICK c, o : c = Code(l.conta) /\ o = Code(l.contrapartida)
    OBVIOUS
  <2>2. ({c, o} \ (a.linked \cup {Blank}) # {}) <=>
          c \notin a.linked \/ (o # Blank /\ o \notin a.linked)
    BY <1>3, <1>5, <2>1
  <2>3. PICK early, late : /\ early = (l.data < p.meta["inicio"]) /\ late = (l.data > p.meta["fim"])
    OBVIOUS
  <2>4. HasWarnings(l, a, p) <=>
          \/ /\ p.meta["inicio"] # Blank /\ l.data < p.meta["inicio"]
          \/ /\ p.meta["fim"] # Blank /\ ~(p.meta["inicio"] # Blank /\ l.data < p.meta["inicio"])
             /\ l.data > p.meta["fim"]
          \/ {Code(l.conta), Code(l.contrapartida)} \ (a.linked \cup {Blank}) # {}
          \/ SignDisagrees(l)
          \/ NeedsOther(l) /\ Code(l.contrapartida) = Blank
    BY <1>1, <2>1, <2>2 DEF HasWarnings
  <2> QED BY <1>3, <1>5, <2>4 DEF Revalidated, StatusOfLine
<1> QED BY <1>4, <1>5

StatusIn(r, n) ==
  IF \E i \in 1..Len(r.movements) : r.movements[i].linha = n
  THEN r.movements[CHOOSE i \in 1..Len(r.movements) : r.movements[i].linha = n].status
  ELSE "invalida"

(* The validation endpoint finds of a line what the import found.          *)
LEMMA ValidatorFindsTheSame ==
  ASSUME NEW s \in MovementSheets, NEW a \in Readings, ~Unreadable(ParsedMovements(s)),
         NEW p, p = ParsedMovements(s), NEW r, r = Imported(p, a), NEW n \in 1..Len(p.entries)
  PROVE  StatusIn(r, n) = Revalidated(p.entries[n], a, p.meta["inicio"], p.meta["fim"])
<1>1. ReadSoFar(p)
  BY SheetIsRead, ImportacaoAssumption
<1>2. ImportKept(r, Len(p.entries), p, a)
  BY <1>1, ImportedIsKept DEF ReadSoFar
<1>3. Revalidated(p.entries[n], a, p.meta["inicio"], p.meta["fim"]) =
        IF IsValid(p.entries[n], a) THEN StatusOfLine(p.entries[n], a, p) ELSE "invalida"
  BY <1>1, LineIsJudgedAlike DEF ReadSoFar
<1>4. /\ \A i \in 1..Len(r.movements) : r.movements[i].linha = n =>
           IsValid(p.entries[n], a) /\ r.movements[i].status = StatusOfLine(p.entries[n], a, p)
      /\ IsValid(p.entries[n], a) => \E i \in 1..Len(r.movements) : r.movements[i].linha = n
  BY <1>2 DEF ImportKept, MovementsKept
<1> QED BY <1>3, <1>4 DEF StatusIn

-----------------------------------------------------------------------------
(* The lots are imports of sheets; an upload past its check knows of no    *)
(* lot that its sheet had completed before it began.                       *)
LotsAreImports ==
  /\ IsSeq(lots)
  /\ \A k \in 1..Len(lots) :
       \E s \in MovementSheets, a \in Readings : lots[k] = Lot(s, ParsedMovements(s), a)
UploadFits(v) ==
  /\ v.pc \in {"read", "store"} =>
       /\ v.sheet \in MovementSheets /\ v.since \in 0..Len(lots)
       /\ \A k \in Completed(v.sheet) : k > v.since
  /\ v.pc = "store" => v.accounts \in Readings /\ ~Unreadable(ParsedMovements(v.sheet))
ImportacaoInv ==
  /\ accounts \in Readings
  /\ LotsAreImports
  /\ upload = [u \in Uploads |-> upload[u]]
  /\ \A u \in Uploads : UploadFits(upload[u])

LEMMA UploadsKeep ==
  ASSUME ImportacaoInv, NEW u \in Uploads, NEW v, Goes(u, v), UploadFits(v), UNCHANGED lots
  PROVE  /\ upload' = [o \in Uploads |-> upload'[o]]
         /\ \A o \in Uploads : UploadFits(upload[o])'
<1>1. /\ upload' = [o \in Uploads |-> upload'[o]]
      /\ \A o \in Uploads : upload'[o] = IF o = u THEN v ELSE upload[o]
  BY DEF ImportacaoInv, Goes
<1>2. ASSUME NEW o \in Uploads PROVE UploadFits(upload[o])'
  BY <1>1 DEF ImportacaoInv, UploadFits, Completed
<1> QED BY <1>1, <1>2

LEMMA ImportacaoStarts == ImportacaoInit => ImportacaoInv
BY EmptyIsSeq DEF ImportacaoInit, ImportacaoInv, LotsAreImports, UploadFits, NoUpload

LEMMA CheckKeeps ==
  ASSUME ImportacaoInv, NEW u \in Uploads, Check(u)
  PROVE  ImportacaoInv'
<1>1. UNCHANGED <<accounts, lots>>
  BY DEF Check
<1>2. Len(lots) \in Nat
  BY AppendOne DEF ImportacaoInv, LotsAreImports
<1>3. PICK s \in MovementSheets :
        Goes(u, CASE Blocking(s) = {} -> [pc |-> "read", sheet |-> s, since |-> Len(lots)]
                  [] Cardinality(Blocking(s)) = 1 -> [pc |-> "refused"]
                  [] OTHER -> [pc |-> "broken"])
  BY DEF Check
<1>4. PICK v : /\ Goes(u, v)
               /\ v = CASE Blocking(s) = {} -> [pc |-> "read", sheet |-> s, since |-> Len(lots)]
                         [] Cardinality(Blocking(s)) = 1 -> [pc |-> "refused"]
                         [] OTHER -> [pc |-> "broken"]
  BY <1>3
<1>5. UploadFits(v)
  BY <1>2, <1>4 DEF UploadFits, Blocking
<1> QED BY <1>1, <1>4, <1>5, UploadsKeep DEF ImportacaoInv, LotsAreImports

LEMMA ReadKeeps ==
  ASSUME ImportacaoInv, NEW u \in Uploads, Read(u)
  PROVE  ImportacaoInv'
<1>1. UNCHANGED <<accounts, lots>> /\ upload[u].pc = "read"
  BY DEF Read
<1>2. PICK v : /\ Goes(u, v)
               /\ v = IF ~Unreadable(ParsedMovements(upload[u].sheet)) /\ active
                      THEN [pc |-> "store", sheet |-> upload[u].sheet, since |-> upload[u].since,
                            accounts |-> accounts]
                      ELSE [pc |-> "refused"]
  BY DEF Read
<1>3. UploadFits(v)
  BY <1>1, <1>2 DEF UploadFits, ImportacaoInv
<1> QED BY <1>1, <1>2, <1>3, UploadsKeep DEF ImportacaoInv, LotsAreImports

LEMMA StoreKeeps ==
  ASSUME ImportacaoInv, NEW u \in Uploads, Store(u)
  PROVE  ImportacaoInv'
<1>1. PICK lot : /\ lot = Lot(upload[u].sheet, ParsedMovements(upload[u].sheet), upload[u].accounts)
                 /\ lots' = Append(lots, lot)
  BY DEF Store
<1>2. upload[u].sheet \in MovementSheets /\ upload[u].accounts \in Readings
  BY DEF Store, ImportacaoInv, UploadFits
<1>3. PICK N \in Nat : N = Len(lots)
  BY AppendOne DEF ImportacaoInv, LotsAreImports
<1>4. /\ IsSeq(lots') /\ Len(lots') = N + 1
      /\ \A k \in 1..N : lots'[k] = lots[k]
      /\ lots'[N + 1] = lot
  BY <1>1, <1>3, AppendOne DEF ImportacaoInv, LotsAreImports
<1>5. LotsAreImports'
  <2>1. ASSUME NEW k \in 1..(N + 1)
        PROVE  \E s \in MovementSheets, a \in Readings : lots'[k] = Lot(s, ParsedMovements(s), a)
    <3>1. CASE k = N + 1
      BY <1>1, <1>2, <1>4, <3>1
    <3>2. CASE k \in 1..N
      BY <1>3, <1>4, <3>2 DEF ImportacaoInv, LotsAreImports
    <3> QED BY <3>1, <3>2
  <2> QED BY <1>4, <2>1 DEF LotsAreImports
<1>6. /\ upload' = [o \in Uploads |-> upload'[o]]
      /\ \A o \in Uploads : upload'[o] = IF o = u THEN NoUpload ELSE upload[o]
  BY DEF Store, Goes, ImportacaoInv
<1>7. ASSUME NEW o \in Uploads PROVE UploadFits(upload[o])'
  <2>1. CASE o = u
    BY <1>6, <2>1 DEF UploadFits, NoUpload
  <2>2. CASE o # u
    <3>1. upload'[o] = upload[o] /\ UploadFits(upload[o])
      BY <1>6, <2>2 DEF ImportacaoInv
    <3>2. ASSUME NEW s, NEW k \in Completed(s)' PROVE k \in Completed(s) \/ k = N + 1
      BY <1>3, <1>4 DEF Completed
    <3> QED BY <1>3, <1>4, <3>1, <3>2 DEF UploadFits
  <2> QED BY <2>1, <2>2
<1> QED BY <1>5, <1>6, <1>7 DEF ImportacaoInv, Store

LEMMA ImportacaoStep == ImportacaoInv /\ [ImportacaoNext]_ivars => ImportacaoInv'
<1> SUFFICES ASSUME ImportacaoInv, [ImportacaoNext]_ivars PROVE ImportacaoInv'
  OBVIOUS
<1>1. ASSUME NEW u \in Uploads, End(u) PROVE ImportacaoInv'
  <2>1. Goes(u, NoUpload) /\ UNCHANGED <<accounts, lots>>
    BY <1>1 DEF End
  <2>2. UploadFits(NoUpload)
    BY DEF UploadFits, NoUpload
  <2> QED BY <2>1, <2>2, UploadsKeep DEF ImportacaoInv, LotsAreImports
<1>2. CASE UNCHANGED <<lots, upload>> /\ accounts' \in Readings
  BY <1>2 DEF ImportacaoInv, LotsAreImports, UploadFits, Completed
<1>3. CASE Administer
  <2>1. UNCHANGED <<lots, upload>> /\ accounts' \in Readings
    BY <1>3 DEF Administer, ImportacaoInv
  <2> QED BY <1>2, <2>1
<1>4. CASE UNCHANGED ivars
  <2>1. UNCHANGED <<lots, upload>> /\ accounts' \in Readings
    BY <1>4 DEF ivars, ImportacaoInv
  <2> QED BY <1>2, <2>1
<1> QED BY <1>1, <1>3, <1>4, CheckKeeps, ReadKeeps, StoreKeeps DEF ImportacaoNext

LEMMA ImportacaoInvariance == ImportacaoSpec => []ImportacaoInv
<1> QED BY ImportacaoStarts, ImportacaoStep, PTL DEF ImportacaoSpec

LEMMA AccountedNow == ImportacaoInv => MovementsAreAccounted
<1> SUFFICES ASSUME ImportacaoInv PROVE MovementsAreAccounted
  OBVIOUS
<1>1. ASSUME NEW k \in 1..Len(lots) PROVE LotIsAccounted(lots[k]) /\ LotIsBalanced(lots[k])
  BY LotIsGood DEF ImportacaoInv, LotsAreImports
<1>2. EveryMovementIsAccounted
  BY <1>1 DEF EveryMovementIsAccounted, LotIsAccounted
<1>3. BalanceIsOfStored
  BY <1>1 DEF BalanceIsOfStored, LotIsBalanced
<1>4. ValidatorAgrees
  <2>1. ASSUME NEW u \in Uploads, upload[u].pc = "store",
               NEW s, s = upload[u].sheet, NEW a, a = upload[u].accounts,
               NEW p, p = ParsedMovements(s), NEW r, r = Imported(p, a),
               NEW n \in 1..Len(p.entries)
        PROVE  StatusIn(r, n) = Revalidated(p.entries[n], a, p.meta["inicio"], p.meta["fim"])
    <3>1. s \in MovementSheets /\ a \in Readings /\ ~Unreadable(ParsedMovements(s))
      BY <2>1 DEF ImportacaoInv, UploadFits
    <3> QED BY <2>1, <3>1, ValidatorFindsTheSame
  <2> QED BY SMTT(30), <2>1 DEF ValidatorAgrees, StatusIn
<1> QED BY <1>2, <1>3, <1>4 DEF MovementsAreAccounted

(* Every movement of a sheet is stored or warned of, its balance is that   *)
(* of what is stored, and the validator of returned sheets judges it       *)
(* alike, for any sheets and accounts (_build_movimento, _saldo_info and   *)
(* movimentos_operacionais_validator).                                     *)
THEOREM MovementsAccounted == ImportacaoSpec => []MovementsAreAccounted
BY ImportacaoInvariance, AccountedNow, PTL

(* Of any number of uploads at once, none stores a batch of a sheet that   *)
(* had been completed when it looked (import_movimentos_operacionais).     *)
THEOREM LaterUploadsAreBlocked == ImportacaoSpec => LaterUploadIsBlocked
<1>1. ImportacaoInv => \A u \in Uploads : upload[u].pc = "store" =>
                         \A k \in Completed(upload[u].sheet) : k > upload[u].since
  BY DEF ImportacaoInv, UploadFits
<1>2. ImportacaoInv /\ [ImportacaoNext]_ivars =>
        [\A u \in Uploads :
           upload[u].pc = "store" /\ Len(lots') > Len(lots) /\ upload'[u] = NoUpload =>
             \A k \in Completed(upload[u].sheet) : k > upload[u].since]_ivars
  BY <1>1
<1> QED BY <1>2, ImportacaoInvariance, PTL DEF ImportacaoSpec, LaterUploadIsBlocked

-----------------------------------------------------------------------------
(* The import of a ledger.                                                 *)

(* The rows of a ledger are read one after the other.                      *)
LEMMA ReadingStep ==
  ASSUME NEW s, Len(s) \in Nat
  PROVE  /\ Reading(s)[0] = Beginning
         /\ \A k \in 1..Len(s) : Reading(s)[k] = ReadRow(Reading(s)[k - 1], s[k])
<1> DEFINE Is(f, n) == f = [k \in 0..n |-> IF k = 0 THEN Beginning ELSE ReadRow(f[k - 1], s[k])]
           T == {n \in Nat : \E f : Is(f, n)}
<1>1. 0 \in T
  <2> Is([k \in 0..0 |-> Beginning], 0)
    OBVIOUS
  <2> QED OBVIOUS
<1>2. ASSUME NEW n \in 0..(Len(s) - 1), n \in T PROVE n + 1 \in T
  <2>1. PICK f : Is(f, n)
    BY <1>2
  <2> DEFINE g == [k \in 0..(n + 1) |-> IF k <= n THEN f[k] ELSE ReadRow(f[n], s[n + 1])]
  <2>2. Is(g, n + 1)
    BY <2>1
  <2>3. n + 1 \in Nat
    OBVIOUS
  <2>4. \E h : Is(h, n + 1)
    <3> HIDE DEF Is, g
    <3> QED BY <2>2
  <2> QED BY <2>3, <2>4
<1>3. 0..Len(s) \subseteq T
  <2> HIDE DEF T
  <2> QED BY <1>1, <1>2, Climb
<1>4. \E f : Is(f, Len(s))
  BY <1>3
<1>5. Is(Reading(s), Len(s))
  BY <1>4 DEF Reading
<1> QED BY <1>5

(* The lines of a block are imported one after the other.                  *)
LEMMA BlockStep ==
  ASSUME pos \in Nat, NEW last \in Nat, pos <= last
  PROVE  /\ Importing(last)[pos] = acc
         /\ \A n \in (pos + 1)..last :
              Importing(last)[n] = ImportLine(Importing(last)[n - 1], lines[n], n)
<1> DEFINE Is(f, m) == f = [n \in pos..m |-> IF n = pos THEN acc
                                            ELSE ImportLine(f[n - 1], lines[n], n)]
           T == {m \in Nat : m < pos \/ \E f : Is(f, m)}
<1>0. Is([n \in pos..pos |-> acc], pos)
  OBVIOUS
<1>1. \E f : Is(f, pos)
  <2> HIDE DEF Is
  <2> QED BY <1>0
<1>2. 0 \in T
  BY <1>1
<1>3. ASSUME NEW m \in 0..(last - 1), m \in T PROVE m + 1 \in T
  <2>1. CASE m + 1 <= pos
    <3>1. m + 1 < pos \/ m + 1 = pos
      BY <2>1
    <3>2. m + 1 \in Nat
      OBVIOUS
    <3> HIDE DEF Is
    <3> QED BY <1>1, <3>1, <3>2
  <2>2. CASE pos <= m
    <3>1. PICK f : Is(f, m)
      BY <1>3, <2>2
    <3> DEFINE g == [n \in pos..(m + 1) |-> IF n <= m THEN f[n] ELSE ImportLine(f[m], lines[m + 1], m + 1)]
    <3>2. Is(g, m + 1)
      BY SMTT(30), <2>2, <3>1
    <3>3. m + 1 \in Nat
      OBVIOUS
    <3>4. \E h : Is(h, m + 1)
      <4> HIDE DEF Is, g
      <4> QED BY <3>2
    <3> QED BY <3>3, <3>4
  <2> QED BY <2>1, <2>2
<1>4. 0..last \subseteq T
  <2> HIDE DEF T
  <2> QED BY <1>2, <1>3, Climb
<1>5. \E f : Is(f, last)
  BY <1>4
<1>6. Is(Importing(last), last)
  BY <1>5 DEF Importing
<1>7. ASSUME NEW f, Is(f, last)
      PROVE  /\ f[pos] = acc
             /\ \A n \in (pos + 1)..last : f[n] = ImportLine(f[n - 1], lines[n], n)
  BY <1>7
<1> HIDE DEF Is
<1> QED BY <1>6, <1>7

(* The reference definition adds the lines of a set, in their order.       *)
LEMMA AddingStep ==
  ASSUME NEW of, NEW S, Len(of) \in Nat
  PROVE  /\ Adding(of, S)[0] = 0
         /\ \A k \in 1..Len(of) :
              Adding(of, S)[k] = IF k \in S THEN Adding(of, S)[k - 1] + Signed(of[k])
                                 ELSE Adding(of, S)[k - 1]
<1> DEFINE Is(f, n) == f = [k \in 0..n |-> IF k = 0 THEN 0
                                            ELSE IF k \in S THEN f[k - 1] + Signed(of[k]) ELSE f[k - 1]]
           T == {n \in Nat : \E f : Is(f, n)}
<1>1. 0 \in T
  <2> Is([k \in 0..0 |-> 0], 0)
    OBVIOUS
  <2> QED OBVIOUS
<1>2. ASSUME NEW n \in 0..(Len(of) - 1), n \in T PROVE n + 1 \in T
  <2>1. PICK f : Is(f, n)
    BY <1>2
  <2> DEFINE g == [k \in 0..(n + 1) |-> IF k <= n THEN f[k]
                                        ELSE IF n + 1 \in S THEN f[n] + Signed(of[n + 1]) ELSE f[n]]
  <2>2. Is(g, n + 1)
    BY <2>1
  <2>3. n + 1 \in Nat
    OBVIOUS
  <2>4. \E h : Is(h, n + 1)
    <3> HIDE DEF Is, g
    <3> QED BY <2>2
  <2> QED BY <2>3, <2>4
<1>3. 0..Len(of) \subseteq T
  <2> HIDE DEF T
  <2> QED BY <1>1, <1>2, Climb
<1>4. \E f : Is(f, Len(of))
  BY <1>3
<1>5. Is(Adding(of, S), Len(of))
  BY <1>4 DEF Adding
<1> QED BY SMTT(30), <1>5

-----------------------------------------------------------------------------
(* Lines of a ledger: amounts are numbers, or nothing, or Bad.             *)
LineShape(l) == IsAmount(l.debito) /\ IsAmount(l.credito) /\ IsBalance(l.anterior)
Ledger(L) == Len(L) \in Nat /\ \A n \in 1..Len(L) : LineShape(L[n])
Posted(L, S) == \A m \in S : m \in 1..Len(L) /\ Signed(L[m]) \in Int

(* Partial sums are numbers when the lines of the set have amounts.        *)
LEMMA SumsAreNumbers ==
  ASSUME NEW L, NEW S, Len(L) \in Nat, Posted(L, S)
  PROVE  \A k \in 0..Len(L) : Adding(L, S)[k] \in Int
<1> DEFINE T == {k \in 0..Len(L) : Adding(L, S)[k] \in Int}
<1>1. 0 \in T
  BY AddingStep
<1>2. ASSUME NEW n \in 0..(Len(L) - 1), n \in T PROVE n + 1 \in T
  <2>1. PICK k : k = n + 1 /\ k \in 1..Len(L) /\ k - 1 = n
    OBVIOUS
  <2>2. Adding(L, S)[k] = IF k \in S THEN Adding(L, S)[k - 1] + Signed(L[k])
                          ELSE Adding(L, S)[k - 1]
    BY <2>1, AddingStep
  <2>3. Adding(L, S)[k] \in Int
    BY <1>2, <2>1, <2>2 DEF Posted
  <2> QED BY <2>1, <2>3
<1>3. 0..Len(L) \subseteq T
  <2> HIDE DEF T
  <2> QED BY <1>1, <1>2, Climb
<1> QED BY <1>3

(* Sets that agree up to a line add up to the same there.                  *)
LEMMA SumPrefix ==
  ASSUME NEW L, Len(L) \in Nat, NEW S, NEW R, NEW N \in 0..Len(L),
         \A m \in 1..N : m \in S <=> m \in R
  PROVE  \A k \in 0..N : Adding(L, S)[k] = Adding(L, R)[k]
<1> DEFINE T == {k \in 0..N : Adding(L, S)[k] = Adding(L, R)[k]}
<1>1. 0 \in T
  BY AddingStep
<1>2. ASSUME NEW n \in 0..(N - 1), n \in T PROVE n + 1 \in T
  <2>1. PICK k : k = n + 1 /\ k \in 1..Len(L) /\ k \in 1..N /\ k - 1 = n
    OBVIOUS
  <2>2. /\ Adding(L, S)[k] = IF k \in S THEN Adding(L, S)[k - 1] + Signed(L[k])
                             ELSE Adding(L, S)[k - 1]
        /\ Adding(L, R)[k] = IF k \in R THEN Adding(L, R)[k - 1] + Signed(L[k])
                             ELSE Adding(L, R)[k - 1]
    BY <2>1, AddingStep
  <2>3. Adding(L, S)[k] = Adding(L, R)[k]
    BY <1>2, <2>1, <2>2
  <2> QED BY <2>1, <2>3
<1>3. 0..N \subseteq T
  <2> HIDE DEF T
  <2> QED BY <1>1, <1>2, Climb
<1> QED BY <1>3

(* Nothing is added after the last line of a set.                          *)
LEMMA SumStays ==
  ASSUME NEW L, Len(L) \in Nat, NEW S, NEW n \in 0..Len(L), \A m \in S : m <= n
  PROVE  SumOf(L, S) = Adding(L, S)[n]
<1> DEFINE T == {k \in 0..Len(L) : n <= k => Adding(L, S)[k] = Adding(L, S)[n]}
<1>1. 0 \in T
  OBVIOUS
<1>2. ASSUME NEW j \in 0..(Len(L) - 1), j \in T PROVE j + 1 \in T
  <2>1. PICK k : k = j + 1 /\ k \in 1..Len(L) /\ k \in 0..Len(L) /\ k - 1 = j
    OBVIOUS
  <2>2. Adding(L, S)[k] = IF k \in S THEN Adding(L, S)[k - 1] + Signed(L[k])
                          ELSE Adding(L, S)[k - 1]
    BY <2>1, AddingStep
  <2>3. CASE n <= j
    <3>1. k \notin S
      BY <2>1, <2>3
    <3>2. Adding(L, S)[j] = Adding(L, S)[n]
      BY <1>2, <2>3
    <3>3. Adding(L, S)[k] = Adding(L, S)[n]
      BY <2>1, <2>2, <3>1, <3>2
    <3> QED BY <2>1, <3>3
  <2>4. CASE ~(n <= j)
    <3>1. n <= k => k = n
      BY <2>1, <2>4
    <3> QED BY <2>1, <3>1
  <2> QED BY <2>3, <2>4
<1>3. 0..Len(L) \subseteq T
  <2> HIDE DEF T
  <2> QED BY <1>1, <1>2, Climb
<1>4. Len(L) \in 0..Len(L) /\ n <= Len(L)
  OBVIOUS
<1> QED BY <1>3, <1>4 DEF SumOf

(* No lines add up to nothing.                                             *)
LEMMA SumOfNone ==
  ASSUME NEW L, Len(L) \in Nat
  PROVE  SumOf(L, {}) = 0
<1>1. SumOf(L, {}) = Adding(L, {})[0]
  BY SumStays
<1> QED BY <1>1, AddingStep

LEMMA SumIsNumber ==
  ASSUME NEW L, NEW S, Len(L) \in Nat, Posted(L, S)
  PROVE  SumOf(L, S) \in Int
BY SumsAreNumbers DEF SumOf

(* A later line adds its value.                                            *)
Joins(R, S, n) == R = S \cup {n}

(* A set that a later line joins adds up to that much more.                *)
LEMMA SumExtends ==
  ASSUME NEW L, Len(L) \in Nat, NEW n \in 1..Len(L), NEW S, S \subseteq 1..(n - 1),
         NEW R, Joins(R, S, n)
  PROVE  SumOf(L, R) = SumOf(L, S) + Signed(L[n])
<1>1. n - 1 \in 0..Len(L) /\ n \in 0..Len(L) /\ n - 1 \in 0..(n - 1)
  OBVIOUS
<1>2. \A m \in 1..(n - 1) : m \in S <=> m \in R
  BY DEF Joins
<1>3. (\A m \in S : m <= n - 1) /\ (\A m \in R : m <= n) /\ n \in R
  BY DEF Joins
<1>4. Adding(L, R)[n - 1] = Adding(L, S)[n - 1]
  BY <1>1, <1>2, SumPrefix
<1>5. SumOf(L, S) = Adding(L, S)[n - 1] /\ SumOf(L, R) = Adding(L, R)[n]
  BY <1>1, <1>3, SumStays
<1>6. Adding(L, R)[n] = Adding(L, R)[n - 1] + Signed(L[n])
  BY <1>3, AddingStep
<1> QED BY <1>4, <1>5, <1>6

-----------------------------------------------------------------------------
(* What the import has accumulated after the first n lines of L: each is   *)
(* stored or rejected with a warning.                                      *)
StoredIn(a) == {a.stored[k] : k \in 1..Len(a.stored)}
LinesTold(L, a, n) ==
  /\ IsSeq(a.stored) /\ StoredIn(a) \subseteq 1..n /\ Posted(L, StoredIn(a))
  /\ \A w \in a.warnings : w[1] \in 1..n /\ (w[2] # "linha" => w[1] \in StoredIn(a))
  /\ \A m \in 1..n : (m \in StoredIn(a)) # (<<m, "linha">> \in a.warnings)

(* What is stored and the plan P does not explain has an item.             *)
Explained(P, l) == P[l.data].kind \in {"catalog", "snapshot"}
Unexplained(P, l) ==
  IF P[l.data].kind = "snapshot" THEN CodesOf(l) \ P[l.data].codes ELSE {}
ItemsTold(L, P, a) ==
  \A m \in StoredIn(a) :
    /\ ~Explained(P, L[m]) => \E i \in a.items : i.line = m
    /\ \A c \in Unexplained(P, L[m]) :
         \E i \in a.items : i.line = m /\ i.type = "unknown" /\ i.key = c

(* The stored lines of a sequence, and those up to one of them.            *)
InPeriod(L, S, q) == {m \in S : SequenceOf(L[m]) = q}
InBlock(L, S, b) == {m \in S : L[m].bloco = b}
PeriodUpTo(L, S, n) == {m \in S : m <= n /\ SequenceOf(L[m]) = SequenceOf(L[n])}
BlockUpTo(L, S, n) == {m \in S : m <= n /\ L[m].bloco = L[n].bloco}
YearIs(L, v, S) ==
  \E f \in S : (\A m \in S : f <= m) /\ v = Opening(L[f]) + SumOf(L, S)

(* The sequences are the sums of their stored lines.                       *)
SumsKept(L, a) ==
  /\ \A q : At(a.period, q, 0) = SumOf(L, InPeriod(L, StoredIn(a), q))
  /\ \A b : IF b \in DOMAIN a.year THEN YearIs(L, a.year[b], InBlock(L, StoredIn(a), b))
            ELSE InBlock(L, StoredIn(a), b) = {}
Reconciled(L, a) ==
  \A m \in StoredIn(a) :
    L[m].saldo # Blank /\ (\A w \in a.warnings : w[1] # m) =>
      HasValue(L[m].saldo) /\ Balance(L[m].saldo) = SumOf(L, PeriodUpTo(L, StoredIn(a), m))

(* The closings are of the last lines with a balance, and carry all the    *)
(* warnings of their account and month.                                    *)
Observes(l) == HasValue(l.exercicio) \/ HasValue(l.saldo)
About(L, W, q) == {w \in W : w[2] # "linha" /\ ClosingOf(L[w[1]]) = q}
AboutKept(L, a) == \A q : At(a.about, q, {}) = About(L, a.warnings, q)
ClosingFits(L, S, c, q) ==
  /\ {"linha", "calculado", "warnings"} \subseteq DOMAIN c
  /\ c.linha \in S /\ Observes(L[c.linha]) /\ ClosingOf(L[c.linha]) = q
  /\ \A m \in S : Observes(L[m]) /\ ClosingOf(L[m]) = q => m <= c.linha
  /\ IF HasValue(L[c.linha].exercicio)
     THEN \E v : c.calculado = Magnitude(v) /\ YearIs(L, v, BlockUpTo(L, S, c.linha))
     ELSE c.calculado = Magnitude(SumOf(L, PeriodUpTo(L, S, c.linha)))
ClosingsKept(L, a) ==
  /\ \A m \in StoredIn(a) : Observes(L[m]) => ClosingOf(L[m]) \in DOMAIN a.closings
  /\ \A q \in DOMAIN a.closings :
       /\ ClosingFits(L, StoredIn(a), a.closings[q], q)
       /\ a.closings[q].warnings = About(L, a.warnings, q)

Parts == {"stored", "warnings", "items", "period", "year", "absent", "about", "closings"}
Accumulated(L, P, a, n) ==
  /\ Parts \subseteq DOMAIN a
  /\ LinesTold(L, a, n) /\ ItemsTold(L, P, a) /\ SumsKept(L, a) /\ Reconciled(L, a)
  /\ AboutKept(L, a) /\ ClosingsKept(L, a)

-----------------------------------------------------------------------------
(* What closing a line does to the parts.                                  *)
PeriodWith(a, l) == At(a.period, SequenceOf(l), 0) + Signed(l)
YearWith(a, l) == At(a.year, l.bloco, Opening(l)) + Signed(l)
WarningsOf(a, l, n) == {<<n, w>> : w \in BalanceWarning(l, PeriodWith(a, l), a.absent)}
AboutWith(a, l, n) == At(a.about, ClosingOf(l), {}) \cup WarningsOf(a, l, n)
ClosingsWith(a, l, n, closings) ==
  LET key == ClosingOf(l) IN
  \/ /\ Observes(l)
     /\ \E c : /\ {"linha", "calculado", "warnings"} \subseteq DOMAIN c
               /\ c.linha = n /\ c.warnings = AboutWith(a, l, n)
               /\ c.calculado = Magnitude(IF HasValue(l.exercicio) THEN YearWith(a, l)
                                          ELSE PeriodWith(a, l))
               /\ closings = With(a.closings, key, c)
  \/ /\ ~Observes(l) /\ key \in DOMAIN a.closings
     /\ closings = [a.closings EXCEPT ![key].warnings = AboutWith(a, l, n)]
  \/ /\ ~Observes(l) /\ key \notin DOMAIN a.closings
     /\ closings = a.closings

(* Closing a line writes its own period and year only.                     *)
LEMMA ClosePeriods ==
  ASSUME NEW a, Parts \subseteq DOMAIN a, NEW l, NEW n
  PROVE  /\ DOMAIN Close(a, l, n) = DOMAIN a
         /\ Close(a, l, n).stored = a.stored /\ Close(a, l, n).items = a.items
         /\ Close(a, l, n).period = With(a.period, SequenceOf(l), PeriodWith(a, l))
         /\ Close(a, l, n).year = With(a.year, l.bloco, YearWith(a, l))
BY DEF Close, CloseWith, PeriodWith, YearWith, Parts

LEMMA CloseWarnings ==
  ASSUME NEW a, Parts \subseteq DOMAIN a, NEW l, NEW n
  PROVE  /\ Close(a, l, n).warnings = a.warnings \cup WarningsOf(a, l, n)
         /\ Close(a, l, n).about = IF WarningsOf(a, l, n) = {} THEN a.about
                                   ELSE With(a.about, ClosingOf(l), AboutWith(a, l, n))
<1>1. WarningsOf(a, l, n) = {} <=> BalanceWarning(l, PeriodWith(a, l), a.absent) = {}
  BY DEF WarningsOf
<1> QED BY <1>1 DEF Close, CloseWith, PeriodWith, WarningsOf, AboutWith, Parts

LEMMA CloseClosings ==
  ASSUME NEW a, Parts \subseteq DOMAIN a, NEW l, NEW n
  PROVE  ClosingsWith(a, l, n, Close(a, l, n).closings)
<1> DEFINE observed == IF HasValue(l.exercicio) THEN {<<"saldo_exercicio", l.exercicio>>}
                       ELSE IF HasValue(l.saldo) THEN {<<"saldo", l.saldo>>} ELSE {}
           Row2(o) == [fonte |-> o[1], observado |-> o[2], linha |-> n,
                       warnings |-> AboutWith(a, l, n),
                       calculado |-> Magnitude(IF o[1] = "saldo_exercicio" THEN YearWith(a, l)
                                               ELSE PeriodWith(a, l))]
           key == ClosingOf(l)
           after == IF observed # {} THEN With(a.closings, key, Row2(CHOOSE o \in observed : TRUE))
                    ELSE IF key \in DOMAIN a.closings
                    THEN [a.closings EXCEPT ![key].warnings = AboutWith(a, l, n)]
                    ELSE a.closings
<1>1. Close(a, l, n).closings = after
  BY DEF Close, CloseWith, PeriodWith, YearWith, WarningsOf, AboutWith, Parts
<1>2. CASE ~Observes(l)
  BY <1>1, <1>2 DEF Observes, ClosingsWith
<1>3. CASE Observes(l)
  <2>1. PICK s, v : observed = {<<s, v>>} /\ (s = "saldo_exercicio" <=> HasValue(l.exercicio))
    BY <1>3 DEF Observes
  <2>2. (CHOOSE o \in observed : TRUE) = <<s, v>> /\ observed # {}
    BY <2>1
  <2>3. PICK c : c = Row2(<<s, v>>)
    OBVIOUS
  <2>4. /\ {"linha", "calculado", "warnings"} \subseteq DOMAIN c
        /\ c.linha = n /\ c.warnings = AboutWith(a, l, n)
        /\ c.calculado = Magnitude(IF HasValue(l.exercicio) THEN YearWith(a, l)
                                   ELSE PeriodWith(a, l))
    BY <2>1, <2>3
  <2>5. after = With(a.closings, key, c)
    BY <2>2, <2>3
  <2> QED BY <1>1, <1>3, <2>4, <2>5 DEF ClosingsWith
<1> QED BY <1>2, <1>3

-----------------------------------------------------------------------------
(* The next line joins the sequences of its block and month, no other.     *)
LEMMA PeriodGrows ==
  ASSUME NEW L, Len(L) \in Nat, NEW n \in 1..Len(L), NEW S, S \subseteq 1..(n - 1),
         NEW R, Joins(R, S, n), NEW q
  PROVE  /\ q = SequenceOf(L[n]) =>
              SumOf(L, InPeriod(L, R, q)) = SumOf(L, InPeriod(L, S, q)) + Signed(L[n])
         /\ q # SequenceOf(L[n]) => SumOf(L, InPeriod(L, R, q)) = SumOf(L, InPeriod(L, S, q))
<1>1. CASE q = SequenceOf(L[n])
  <2>1. Joins(InPeriod(L, R, q), InPeriod(L, S, q), n)
    BY <1>1 DEF InPeriod, Joins
  <2>2. InPeriod(L, S, q) \subseteq 1..(n - 1)
    BY DEF InPeriod
  <2> QED BY <1>1, <2>1, <2>2, SumExtends
<1>2. CASE q # SequenceOf(L[n])
  <2>1. InPeriod(L, R, q) = InPeriod(L, S, q)
    BY <1>2 DEF InPeriod, Joins
  <2> QED BY <1>2, <2>1
<1> QED BY <1>1, <1>2

LEMMA UpToLast ==
  ASSUME NEW L, NEW n \in Nat, NEW S, S \subseteq 1..(n - 1), NEW R, Joins(R, S, n)
  PROVE  /\ PeriodUpTo(L, R, n) = InPeriod(L, R, SequenceOf(L[n]))
         /\ BlockUpTo(L, R, n) = InBlock(L, R, L[n].bloco)
<1>1. \A m \in R : m <= n
  BY DEF Joins
<1> QED BY <1>1, Zenon DEF PeriodUpTo, InPeriod, BlockUpTo, InBlock

LEMMA UpToEarlier ==
  ASSUME NEW L, NEW n \in Nat, NEW S, NEW R, Joins(R, S, n), NEW k \in 1..(n - 1)
  PROVE  /\ PeriodUpTo(L, R, k) = PeriodUpTo(L, S, k)
         /\ BlockUpTo(L, R, k) = BlockUpTo(L, S, k)
BY DEF PeriodUpTo, BlockUpTo, Joins

LEMMA BlockGrows ==
  ASSUME NEW L, NEW n, NEW S, NEW R, Joins(R, S, n), NEW b
  PROVE  /\ b = L[n].bloco => Joins(InBlock(L, R, b), InBlock(L, S, b), n)
         /\ b # L[n].bloco => InBlock(L, R, b) = InBlock(L, S, b)
BY DEF InBlock, Joins

(* A balance carried over is a number.                                     *)
LEMMA OpeningIsNumber ==
  ASSUME NEW l, LineShape(l)
  PROVE  Opening(l) \in Int
<1>1. CASE HasValue(l.anterior)
  <2>1. l.anterior.valor \in Int
    BY <1>1 DEF LineShape, IsBalance, HasValue
  <2> QED BY <2>1 DEF Opening, Balance
<1>2. CASE ~HasValue(l.anterior)
  BY <1>2 DEF Opening
<1> QED BY <1>1, <1>2

LEMMA YearGrows ==
  ASSUME NEW L, Ledger(L), NEW n \in 1..Len(L), NEW S, S \subseteq 1..(n - 1), Posted(L, S),
         Signed(L[n]) \in Int, NEW v, NEW R, Joins(R, S, n)
  PROVE  /\ YearIs(L, v, S) => YearIs(L, v + Signed(L[n]), R)
         /\ S = {} => YearIs(L, Opening(L[n]) + Signed(L[n]), R)
<1>1. Len(L) \in Nat
  BY DEF Ledger
<1>2. ASSUME YearIs(L, v, S) PROVE YearIs(L, v + Signed(L[n]), R)
  <2>1. PICK f \in S : (\A m \in S : f <= m) /\ v = Opening(L[f]) + SumOf(L, S)
    BY <1>2 DEF YearIs
  <2>2. Opening(L[f]) \in Int /\ SumOf(L, S) \in Int
    BY <1>1, OpeningIsNumber, SumIsNumber DEF Ledger
  <2>3. SumOf(L, R) = SumOf(L, S) + Signed(L[n])
    BY <1>1, SumExtends
  <2>4. v + Signed(L[n]) = Opening(L[f]) + SumOf(L, R)
    BY <2>1, <2>2, <2>3
  <2>5. f \in R /\ \A m \in R : f <= m
    BY <2>1 DEF Joins
  <2> QED BY <2>4, <2>5 DEF YearIs
<1>3. ASSUME S = {} PROVE YearIs(L, Opening(L[n]) + Signed(L[n]), R)
  <2>1. SumOf(L, R) = SumOf(L, S) + Signed(L[n])
    BY <1>1, SumExtends
  <2>2. SumOf(L, R) = Signed(L[n])
    BY <1>1, <1>3, <2>1, SumOfNone
  <2>3. n \in R /\ \A m \in R : n <= m
    BY <1>3 DEF Joins
  <2> QED BY <2>2, <2>3 DEF YearIs
<1> QED BY <1>2, <1>3

-----------------------------------------------------------------------------
(* One line, stored: a is what there was, c what there is.                 *)
LEMMA SequencesAdvance ==
  ASSUME NEW L, Ledger(L), NEW n \in 1..Len(L), NEW a, NEW c,
         StoredIn(a) \subseteq 1..(n - 1), Posted(L, StoredIn(a)), SumsKept(L, a),
         Signed(L[n]) \in Int, Joins(StoredIn(c), StoredIn(a), n),
         c.period = With(a.period, SequenceOf(L[n]), PeriodWith(a, L[n])),
         c.year = With(a.year, L[n].bloco, YearWith(a, L[n]))
  PROVE  /\ SumsKept(L, c)
         /\ PeriodWith(a, L[n]) = SumOf(L, PeriodUpTo(L, StoredIn(c), n))
         /\ YearIs(L, YearWith(a, L[n]), BlockUpTo(L, StoredIn(c), n))
<1> DEFINE R == StoredIn(c)
           q0 == SequenceOf(L[n])
           b0 == L[n].bloco
<1>1. PICK S : S = StoredIn(a)
  OBVIOUS
<1>h. Len(L) \in Nat /\ n \in Nat /\ S \subseteq 1..(n - 1) /\ Joins(R, S, n) /\ Posted(L, S)
  BY <1>1 DEF Ledger
<1> HIDE DEF R
<1>2. ASSUME NEW q
      PROVE  /\ q = q0 => SumOf(L, InPeriod(L, R, q)) = SumOf(L, InPeriod(L, S, q)) + Signed(L[n])
             /\ q # q0 => SumOf(L, InPeriod(L, R, q)) = SumOf(L, InPeriod(L, S, q))
  BY <1>h, PeriodGrows
<1>3. \A q : At(a.period, q, 0) = SumOf(L, InPeriod(L, S, q))
  BY <1>1 DEF SumsKept
<1>4. PeriodWith(a, L[n]) = SumOf(L, InPeriod(L, R, q0))
  BY <1>2, <1>3 DEF PeriodWith
<1>5. \A q : At(c.period, q, 0) = IF q = q0 THEN PeriodWith(a, L[n]) ELSE At(a.period, q, 0)
  BY DEF At, With
<1>6. \A q : At(c.period, q, 0) = SumOf(L, InPeriod(L, R, q))
  BY <1>2, <1>3, <1>4, <1>5
<1>7. PeriodWith(a, L[n]) = SumOf(L, PeriodUpTo(L, R, n))
  BY <1>h, <1>4, UpToLast
<1>8. ASSUME NEW b
      PROVE  /\ b = b0 => Joins(InBlock(L, R, b), InBlock(L, S, b), n)
             /\ b # b0 => InBlock(L, R, b) = InBlock(L, S, b)
  BY <1>h, BlockGrows
<1>9. YearIs(L, YearWith(a, L[n]), InBlock(L, R, b0))
  <2>1. InBlock(L, S, b0) \subseteq 1..(n - 1) /\ Posted(L, InBlock(L, S, b0))
    BY <1>h DEF InBlock, Posted
  <2>2. CASE b0 \in DOMAIN a.year
    <3>1. YearIs(L, a.year[b0], InBlock(L, S, b0)) /\ YearWith(a, L[n]) = a.year[b0] + Signed(L[n])
      BY <1>1, <2>2 DEF SumsKept, YearWith, At
    <3> QED BY <1>8, <2>1, <3>1, YearGrows
  <2>3. CASE b0 \notin DOMAIN a.year
    <3>1. InBlock(L, S, b0) = {} /\ YearWith(a, L[n]) = Opening(L[n]) + Signed(L[n])
      BY <1>1, <2>3 DEF SumsKept, YearWith, At
    <3> QED BY ZenonT(60), <1>8, <2>1, <3>1, YearGrows
  <2> QED BY <2>2, <2>3
<1>10. YearIs(L, YearWith(a, L[n]), BlockUpTo(L, R, n))
  BY <1>h, <1>9, UpToLast
<1>11. ASSUME NEW b
       PROVE  IF b \in DOMAIN c.year THEN YearIs(L, c.year[b], InBlock(L, R, b))
              ELSE InBlock(L, R, b) = {}
  <2>1. CASE b = b0
    <3>1. b \in DOMAIN c.year /\ c.year[b] = YearWith(a, L[n])
      BY <2>1 DEF With
    <3> QED BY <1>9, <2>1, <3>1
  <2>2. CASE b # b0
    <3>1. /\ b \in DOMAIN c.year <=> b \in DOMAIN a.year
          /\ b \in DOMAIN a.year => c.year[b] = a.year[b]
          /\ InBlock(L, R, b) = InBlock(L, S, b)
      BY <1>8, <2>2 DEF With
    <3> QED BY <1>1, <3>1 DEF SumsKept
  <2> QED BY <2>1, <2>2
<1> QED BY <1>6, <1>7, <1>10, <1>11 DEF SumsKept, R

(* The import of a line that is stored, but for the items.                 *)
StoresLine(L, a, c, n) ==
  /\ Signed(L[n]) \in Int
  /\ c.stored = Append(a.stored, n)
  /\ c.period = With(a.period, SequenceOf(L[n]), PeriodWith(a, L[n]))
  /\ c.year = With(a.year, L[n].bloco, YearWith(a, L[n]))
  /\ c.warnings = a.warnings \cup WarningsOf(a, L[n], n)
  /\ c.about = IF WarningsOf(a, L[n], n) = {} THEN a.about
               ELSE With(a.about, ClosingOf(L[n]), AboutWith(a, L[n], n))
  /\ ClosingsWith(a, L[n], n, c.closings)

(* A line without warnings has no balance, or the calculated one.          *)
LEMMA WarningsAre ==
  ASSUME NEW a, NEW l, NEW n
  PROVE  /\ \A w \in WarningsOf(a, l, n) : w[1] = n /\ w[2] # "linha"
         /\ WarningsOf(a, l, n) = {} /\ l.saldo # Blank =>
              HasValue(l.saldo) /\ Balance(l.saldo) = PeriodWith(a, l)
<1> DEFINE W == BalanceWarning(l, PeriodWith(a, l), a.absent)
<1>1. \A w \in W : w # "linha"
  BY DEF BalanceWarning
<1>2. W = {} /\ l.saldo # Blank => HasValue(l.saldo) /\ Balance(l.saldo) = PeriodWith(a, l)
  BY DEF BalanceWarning
<1>3. WarningsOf(a, l, n) = {<<n, w>> : w \in W}
  BY DEF WarningsOf
<1> HIDE DEF W
<1>4. ASSUME NEW w \in WarningsOf(a, l, n) PROVE w[1] = n /\ w[2] # "linha"
  <2>1. PICK v \in W : w = <<n, v>>
    BY <1>3
  <2> QED BY <1>1, <2>1
<1>5. WarningsOf(a, l, n) = {} => W = {}
  BY <1>3
<1> QED BY <1>2, <1>4, <1>5

LEMMA StoredJoins ==
  ASSUME NEW a, NEW c, NEW n, IsSeq(a.stored), c.stored = Append(a.stored, n)
  PROVE  IsSeq(c.stored) /\ Joins(StoredIn(c), StoredIn(a), n)
<1>1. /\ IsSeq(c.stored) /\ Len(a.stored) \in Nat /\ Len(c.stored) = Len(a.stored) + 1
      /\ \A k \in 1..Len(a.stored) : c.stored[k] = a.stored[k]
      /\ c.stored[Len(a.stored) + 1] = n
  BY AppendOne
<1>2. PICK N \in Nat : N = Len(a.stored)
  BY <1>1
<1>3. StoredIn(c) = {c.stored[k] : k \in 1..(N + 1)} /\ StoredIn(a) = {a.stored[k] : k \in 1..N}
  BY <1>1, <1>2 DEF StoredIn
<1>4. ASSUME NEW x PROVE x \in StoredIn(c) <=> x \in StoredIn(a) \/ x = n
  <2>1. ASSUME x \in StoredIn(c) PROVE x \in StoredIn(a) \/ x = n
    <3>1. PICK k \in 1..(N + 1) : x = c.stored[k]
      BY <1>3, <2>1
    <3>2. CASE k = N + 1
      BY <1>1, <1>2, <3>1, <3>2
    <3>3. CASE k \in 1..N
      BY <1>1, <1>2, <1>3, <3>1, <3>3
    <3> QED BY <3>2, <3>3
  <2>2. ASSUME x \in StoredIn(a) PROVE x \in StoredIn(c)
    <3>1. PICK k \in 1..N : x = a.stored[k]
      BY <1>3, <2>2
    <3>2. k \in 1..(N + 1) /\ x = c.stored[k]
      BY <1>1, <1>2, <3>1
    <3> QED BY <1>3, <3>2
  <2>3. n \in StoredIn(c)
    <3>1. N + 1 \in 1..(N + 1) /\ n = c.stored[N + 1]
      BY <1>1, <1>2
    <3> QED BY <1>3, <3>1
  <2> QED BY <2>1, <2>2, <2>3
<1> QED BY <1>1, <1>4 DEF Joins

LEMMA LinesToldStored ==
  ASSUME NEW L, NEW n \in 1..Len(L), Len(L) \in Nat, NEW a, NEW c, LinesTold(L, a, n - 1),
         StoresLine(L, a, c, n)
  PROVE  LinesTold(L, c, n)
<1>1. /\ IsSeq(c.stored) /\ Joins(StoredIn(c), StoredIn(a), n)
      /\ c.warnings = a.warnings \cup WarningsOf(a, L[n], n)
  BY StoredJoins DEF StoresLine, LinesTold
<1>2. \A x : x \in StoredIn(c) <=> x \in StoredIn(a) \/ x = n
  BY <1>1 DEF Joins
<1>3. \A m \in 1..n : m \in 1..(n - 1) \/ m = n
  OBVIOUS
<1>4. \A m \in 1..(n - 1) : m \in 1..n /\ m # n
  OBVIOUS
<1>5. StoredIn(c) \subseteq 1..n /\ Posted(L, StoredIn(c))
  BY <1>2 DEF LinesTold, Posted, StoresLine
<1>6. ASSUME NEW w \in c.warnings
      PROVE  w[1] \in 1..n /\ (w[2] # "linha" => w[1] \in StoredIn(c))
  <2>1. CASE w \in a.warnings
    BY <1>2, <1>4, <2>1 DEF LinesTold
  <2>2. CASE w \in WarningsOf(a, L[n], n)
    BY <1>2, <2>2, WarningsAre
  <2> QED BY <1>1, <2>1, <2>2
<1>7. ASSUME NEW m \in 1..n
      PROVE  (m \in StoredIn(c)) # (<<m, "linha">> \in c.warnings)
  <2>1. <<m, "linha">> \notin WarningsOf(a, L[n], n)
    BY WarningsAre
  <2>2. CASE m = n
    <3>1. <<n, "linha">> \notin a.warnings
      <4>1. n \notin 1..(n - 1)
        OBVIOUS
      <4> QED BY <4>1 DEF LinesTold
    <3> QED BY <1>1, <1>2, <2>1, <2>2, <3>1
  <2>3. CASE m \in 1..(n - 1)
    <3>1. (m \in StoredIn(a)) # (<<m, "linha">> \in a.warnings)
      BY <2>3 DEF LinesTold
    <3> QED BY <1>1, <1>2, <1>4, <2>1, <2>3, <3>1
  <2> QED BY <1>3, <2>2, <2>3
<1> QED BY <1>1, <1>5, <1>6, <1>7 DEF LinesTold

(* A stored line keeps the sums and what was reconciled.                   *)
LEMMA ReconciledStored ==
  ASSUME NEW L, NEW n \in 1..Len(L), Ledger(L), NEW a, NEW c, LinesTold(L, a, n - 1),
         SumsKept(L, a), Reconciled(L, a), StoresLine(L, a, c, n)
  PROVE  SumsKept(L, c) /\ Reconciled(L, c)
<1>1. Joins(StoredIn(c), StoredIn(a), n) /\ StoredIn(a) \subseteq 1..(n - 1) /\ n \in Nat
  BY StoredJoins DEF StoresLine, LinesTold, Ledger
<1>2. /\ SumsKept(L, c)
      /\ PeriodWith(a, L[n]) = SumOf(L, PeriodUpTo(L, StoredIn(c), n))
  BY <1>1, SequencesAdvance DEF StoresLine, LinesTold
<1>3. ASSUME NEW m \in StoredIn(c), L[m].saldo # Blank, \A w \in c.warnings : w[1] # m
      PROVE  HasValue(L[m].saldo) /\ Balance(L[m].saldo) = SumOf(L, PeriodUpTo(L, StoredIn(c), m))
  <2>1. c.warnings = a.warnings \cup WarningsOf(a, L[n], n)
    BY DEF StoresLine
  <2>2. CASE m = n
    <3>1. WarningsOf(a, L[n], n) = {}
      BY <1>3, <2>1, <2>2, WarningsAre
    <3>2. L[n].saldo # Blank
      BY <1>3, <2>2
    <3>3. HasValue(L[n].saldo) /\ Balance(L[n].saldo) = PeriodWith(a, L[n])
      BY <3>1, <3>2, WarningsAre
    <3> QED BY <1>2, <2>2, <3>3
  <2>3. CASE m \in StoredIn(a)
    <3>1. HasValue(L[m].saldo) /\ Balance(L[m].saldo) = SumOf(L, PeriodUpTo(L, StoredIn(a), m))
      BY <1>3, <2>1, <2>3 DEF Reconciled
    <3>2. m \in 1..(n - 1)
      BY <1>1, <2>3
    <3>3. PeriodUpTo(L, StoredIn(c), m) = PeriodUpTo(L, StoredIn(a), m)
      BY <1>1, <3>2, UpToEarlier
    <3> QED BY <3>1, <3>3
  <2> QED BY <1>1, <2>2, <2>3 DEF Joins
<1> QED BY <1>2, <1>3 DEF Reconciled

LEMMA AboutStored ==
  ASSUME NEW L, NEW n, NEW a, NEW c, AboutKept(L, a), StoresLine(L, a, c, n)
  PROVE  /\ AboutKept(L, c)
         /\ AboutWith(a, L[n], n) = About(L, c.warnings, ClosingOf(L[n]))
         /\ \A q : q # ClosingOf(L[n]) => About(L, c.warnings, q) = About(L, a.warnings, q)
<1> DEFINE W == WarningsOf(a, L[n], n)
           key == ClosingOf(L[n])
<1>1. /\ c.warnings = a.warnings \cup W
      /\ c.about = IF W = {} THEN a.about ELSE With(a.about, key, AboutWith(a, L[n], n))
      /\ AboutWith(a, L[n], n) = At(a.about, key, {}) \cup W
      /\ \A w \in W : w[1] = n /\ w[2] # "linha"
  BY WarningsAre DEF StoresLine, AboutWith
<1> HIDE DEF W
<1>2. About(L, c.warnings, key) = About(L, a.warnings, key) \cup W
  BY <1>1 DEF About
<1>3. ASSUME NEW q, q # key PROVE About(L, c.warnings, q) = About(L, a.warnings, q)
  BY <1>1, <1>3 DEF About
<1>4. At(a.about, key, {}) = About(L, a.warnings, key)
  BY DEF AboutKept
<1>5. AboutWith(a, L[n], n) = About(L, c.warnings, key)
  BY <1>1, <1>2, <1>4
<1>6. ASSUME NEW q PROVE At(c.about, q, {}) = About(L, c.warnings, q)
  <2>1. At(a.about, q, {}) = About(L, a.warnings, q)
    BY DEF AboutKept
  <2>2. CASE q # key
    BY <1>1, <1>3, <2>1, <2>2 DEF At, With
  <2>3. CASE q = key /\ W # {}
    BY <1>1, <1>5, <2>3 DEF At, With
  <2>4. CASE q = key /\ W = {}
    BY <1>1, <1>2, <2>1, <2>4
  <2> QED BY <2>2, <2>3, <2>4
<1> QED BY <1>3, <1>5, <1>6 DEF AboutKept

LEMMA ClosingStays ==
  ASSUME NEW L, NEW n \in Nat, NEW S, S \subseteq 1..(n - 1), NEW R, Joins(R, S, n),
         NEW x, NEW q, ClosingFits(L, S, x, q), ~(Observes(L[n]) /\ ClosingOf(L[n]) = q)
  PROVE  ClosingFits(L, R, x, q)
<1>1. x.linha \in R /\ x.linha \in 1..(n - 1)
  BY DEF ClosingFits, Joins
<1>2. /\ PeriodUpTo(L, R, x.linha) = PeriodUpTo(L, S, x.linha)
      /\ BlockUpTo(L, R, x.linha) = BlockUpTo(L, S, x.linha)
  BY <1>1, UpToEarlier
<1>3. \A m \in R : Observes(L[m]) /\ ClosingOf(L[m]) = q => m <= x.linha
  BY DEF ClosingFits, Joins
<1> QED BY <1>1, <1>2, <1>3 DEF ClosingFits

LEMMA ClosingsStored ==
  ASSUME NEW L, NEW n \in 1..Len(L), Ledger(L), NEW a, NEW c, LinesTold(L, a, n - 1),
         SumsKept(L, a), AboutKept(L, a), ClosingsKept(L, a), StoresLine(L, a, c, n)
  PROVE  ClosingsKept(L, c)
<1> DEFINE key == ClosingOf(L[n])
<1>1. PICK S, R : S = StoredIn(a) /\ R = StoredIn(c)
  OBVIOUS
<1>2. Joins(R, S, n) /\ S \subseteq 1..(n - 1) /\ n \in Nat
  BY <1>1, StoredJoins DEF StoresLine, LinesTold, Ledger
<1>3. /\ PeriodWith(a, L[n]) = SumOf(L, PeriodUpTo(L, R, n))
      /\ YearIs(L, YearWith(a, L[n]), BlockUpTo(L, R, n))
  BY <1>1, <1>2, SequencesAdvance DEF StoresLine, LinesTold
<1>4. /\ AboutWith(a, L[n], n) = About(L, c.warnings, key)
      /\ \A q : q # key => About(L, c.warnings, q) = About(L, a.warnings, q)
  BY AboutStored
<1>5. \A m \in R : m <= n
  BY <1>2 DEF Joins
<1>6. ClosingsWith(a, L[n], n, c.closings)
  BY DEF StoresLine
<1>7. /\ \A m \in S : Observes(L[m]) => ClosingOf(L[m]) \in DOMAIN a.closings
      /\ \A q \in DOMAIN a.closings :
           /\ ClosingFits(L, S, a.closings[q], q)
           /\ a.closings[q].warnings = About(L, a.warnings, q)
  BY <1>1 DEF ClosingsKept
<1>8. CASE Observes(L[n])
  <2>1. PICK x : /\ {"linha", "calculado", "warnings"} \subseteq DOMAIN x
                 /\ x.linha = n /\ x.warnings = AboutWith(a, L[n], n)
                 /\ x.calculado = Magnitude(IF HasValue(L[n].exercicio) THEN YearWith(a, L[n])
                                            ELSE PeriodWith(a, L[n]))
                 /\ c.closings = With(a.closings, key, x)
    BY <1>6, <1>8 DEF ClosingsWith
  <2>2. ClosingFits(L, R, x, key)
    BY <1>2, <1>3, <1>5, <1>8, <2>1 DEF ClosingFits, Joins
  <2>3. /\ DOMAIN c.closings = DOMAIN a.closings \cup {key}
        /\ c.closings[key] = x
        /\ \A q \in DOMAIN a.closings : q # key => c.closings[q] = a.closings[q]
    BY <2>1 DEF With
  <2>4. \A m \in R : Observes(L[m]) => ClosingOf(L[m]) \in DOMAIN c.closings
    BY <1>2, <1>7, <2>3 DEF Joins
  <2>5. ASSUME NEW q \in DOMAIN c.closings
        PROVE  /\ ClosingFits(L, R, c.closings[q], q)
               /\ c.closings[q].warnings = About(L, c.warnings, q)
    <3>1. CASE q = key
      BY <1>4, <2>1, <2>2, <2>3, <3>1
    <3>2. CASE q # key
      <4>1. q \in DOMAIN a.closings /\ c.closings[q] = a.closings[q]
        BY <2>3, <3>2
      <4>2. ClosingFits(L, R, a.closings[q], q)
        BY <1>2, <1>7, <3>2, <4>1, ClosingStays
      <4> QED BY <1>4, <1>7, <3>2, <4>1, <4>2
    <3> QED BY <3>1, <3>2
  <2> QED BY <1>1, <2>4, <2>5 DEF ClosingsKept
<1>9. CASE ~Observes(L[n])
  <2>1. /\ DOMAIN c.closings = DOMAIN a.closings
        /\ \A q \in DOMAIN a.closings : q # key => c.closings[q] = a.closings[q]
        /\ key \in DOMAIN a.closings =>
             c.closings[key] = [a.closings[key] EXCEPT !.warnings = AboutWith(a, L[n], n)]
    BY <1>6, <1>9 DEF ClosingsWith
  <2>2. \A m \in R : Observes(L[m]) => ClosingOf(L[m]) \in DOMAIN c.closings
    BY <1>2, <1>7, <1>9, <2>1 DEF Joins
  <2>3. ASSUME NEW q \in DOMAIN c.closings
        PROVE  /\ ClosingFits(L, R, c.closings[q], q)
               /\ c.closings[q].warnings = About(L, c.warnings, q)
    <3>1. ClosingFits(L, R, a.closings[q], q)
      BY <1>2, <1>7, <1>9, <2>1, ClosingStays
    <3>2. CASE q = key
      <4>1. PICK x, y : /\ x = a.closings[q] /\ y = c.closings[q]
                        /\ y = [x EXCEPT !.warnings = AboutWith(a, L[n], n)]
        BY <2>1, <2>3, <3>2
      <4>2. /\ DOMAIN y = DOMAIN x /\ y.linha = x.linha /\ y.calculado = x.calculado
            /\ y.warnings = AboutWith(a, L[n], n)
        BY <3>1, <4>1 DEF ClosingFits
      <4>3. ClosingFits(L, R, y, q)
        BY <3>1, <4>1, <4>2 DEF ClosingFits
      <4> QED BY <1>4, <3>2, <4>1, <4>2, <4>3
    <3>3. CASE q # key
      BY <1>4, <1>7, <2>1, <3>1, <3>3
    <3> QED BY <3>2, <3>3
  <2> QED BY <1>1, <2>2, <2>3 DEF ClosingsKept
<1> QED BY <1>8, <1>9

LEMMA ItemsToldStored ==
  ASSUME NEW L, NEW P, NEW n, NEW a, NEW c, Joins(StoredIn(c), StoredIn(a), n),
         ItemsTold(L, P, a), a.items \subseteq c.items,
         ~Explained(P, L[n]) => \E i \in c.items : i.line = n,
         \A k \in Unexplained(P, L[n]) :
           \E i \in c.items : i.line = n /\ i.type = "unknown" /\ i.key = k
  PROVE  ItemsTold(L, P, c)
BY DEF ItemsTold, Joins

-----------------------------------------------------------------------------
(* One line, rejected: it leaves a warning of its own and nothing else.    *)
LEMMA LineRejected ==
  ASSUME NEW L, NEW P, NEW n \in 1..Len(L), Len(L) \in Nat, NEW a, NEW c,
         Accumulated(L, P, a, n - 1), DOMAIN c = DOMAIN a,
         c.stored = a.stored, c.period = a.period, c.year = a.year, c.about = a.about,
         c.closings = a.closings, a.items \subseteq c.items,
         c.warnings = a.warnings \cup {<<n, "linha">>}
  PROVE  Accumulated(L, P, c, n)
<1>1. StoredIn(c) = StoredIn(a)
  BY DEF StoredIn
<1>2. \A q : About(L, c.warnings, q) = About(L, a.warnings, q)
  BY DEF About
<1>3. LinesTold(L, c, n)
  <2>1. \A m \in 1..n : m \in 1..(n - 1) \/ m = n
    OBVIOUS
  <2>2. (\A m \in 1..(n - 1) : m \in 1..n /\ m # n) /\ n \in 1..n /\ n \notin 1..(n - 1)
    OBVIOUS
  <2>3. ASSUME NEW m \in 1..n
        PROVE  (m \in StoredIn(c)) # (<<m, "linha">> \in c.warnings)
    BY <1>1, <2>1, <2>2 DEF Accumulated, LinesTold
  <2>4. ASSUME NEW w \in c.warnings
        PROVE  w[1] \in 1..n /\ (w[2] # "linha" => w[1] \in StoredIn(c))
    BY <1>1, <2>2 DEF Accumulated, LinesTold
  <2>5. IsSeq(c.stored) /\ StoredIn(c) \subseteq 1..n /\ Posted(L, StoredIn(c))
    BY <1>1, <2>2 DEF Accumulated, LinesTold
  <2> QED BY <2>3, <2>4, <2>5 DEF LinesTold
<1>4. ItemsTold(L, P, c)
  BY <1>1 DEF Accumulated, ItemsTold
<1>5. SumsKept(L, c) /\ Reconciled(L, c)
  BY <1>1 DEF Accumulated, SumsKept, Reconciled
<1>6. AboutKept(L, c) /\ ClosingsKept(L, c)
  BY <1>1, <1>2 DEF Accumulated, AboutKept, ClosingsKept
<1> QED BY <1>3, <1>4, <1>5, <1>6 DEF Accumulated

-----------------------------------------------------------------------------

(* A valid line has a value.                                               *)
LEMMA ValidIsNumber ==
  ASSUME NEW l, LineShape(l), Valid(l)
  PROVE  Signed(l) \in Int
<1>1. OneSided(l) /\ Valor(l) # Bad
  BY DEF Valid, Readable, Postable
<1>2. CASE l.debito # Blank
  BY <1>1, <1>2 DEF Valor, Signed, LineShape, IsAmount
<1>3. CASE l.debito = Blank
  <2>1. l.credito \in Int
    BY <1>1, <1>3 DEF Valor, OneSided, LineShape, IsAmount
  <2> QED BY <1>3, <2>1 DEF Signed
<1> QED BY <1>2, <1>3

(* The items of a valid line tell every code of it that the plan lacks.    *)
LEMMA ItemsExplain ==
  ASSUME NEW l, NEW n, Valid(l)
  PROVE  /\ ~Explained(plan, l) => \E i \in Items(l, n) : i.line = n
         /\ \A k \in Unexplained(plan, l) :
              \E i \in Items(l, n) : i.line = n /\ i.type = "unknown" /\ i.key = k
<1>1. Readable(l) /\ Bad \notin CodesOf(l)
  BY DEF Valid, Postable
<1>2. Certain(l) <=> Explained(plan, l)
  BY DEF Certain, Explained
<1>3. CASE ~Certain(l)
  <2>1. Items(l, n) = {[type |-> plan[l.data].kind, key |-> l.data, line |-> n]}
    BY <1>1, <1>3 DEF Items
  <2>2. Unexplained(plan, l) = {}
    BY <1>2, <1>3 DEF Unexplained, Explained
  <2> QED BY <2>1, <2>2
<1>4. CASE Certain(l)
  <2>1. {[type |-> "unknown", key |-> k, line |-> n] : k \in UnknownCodes(l)} \subseteq Items(l, n)
    BY <1>1, <1>4 DEF Items
  <2>2. UnknownCodes(l) = Unexplained(plan, l)
    BY DEF UnknownCodes, Unexplained
  <2>3. ASSUME NEW k \in Unexplained(plan, l)
        PROVE  \E i \in Items(l, n) : i.line = n /\ i.type = "unknown" /\ i.key = k
    <3>1. PICK i : i = [type |-> "unknown", key |-> k, line |-> n]
      OBVIOUS
    <3>2. i \in Items(l, n)
      BY <2>1, <2>2, <3>1
    <3> QED BY <3>1, <3>2
  <2> QED BY <1>2, <1>4, <2>3
<1> QED BY <1>3, <1>4

(* Importing a valid line keeps the invariant.                             *)
LEMMA LineStored ==
  ASSUME NEW L, Ledger(L), NEW n \in 1..Len(L), NEW a, Accumulated(L, plan, a, n - 1), Valid(L[n])
  PROVE  Accumulated(L, plan, ImportLine(a, L[n], n), n)
<1>1. PICK b : b = [a EXCEPT !.stored = Append(@, n), !.items = @ \cup Items(L[n], n)]
  OBVIOUS
<1>2. /\ DOMAIN b = DOMAIN a /\ Parts \subseteq DOMAIN b
      /\ b.stored = Append(a.stored, n) /\ b.items = a.items \cup Items(L[n], n)
      /\ b.period = a.period /\ b.year = a.year /\ b.absent = a.absent /\ b.about = a.about
      /\ b.warnings = a.warnings /\ b.closings = a.closings
  BY <1>1 DEF Accumulated, Parts
<1>3. PICK c : c = Close(b, L[n], n)
  OBVIOUS
<1>4. ImportLine(a, L[n], n) = c
  BY <1>1, <1>3 DEF ImportLine
<1>5. /\ PeriodWith(b, L[n]) = PeriodWith(a, L[n]) /\ YearWith(b, L[n]) = YearWith(a, L[n])
      /\ WarningsOf(b, L[n], n) = WarningsOf(a, L[n], n)
      /\ AboutWith(b, L[n], n) = AboutWith(a, L[n], n)
  BY <1>2 DEF PeriodWith, YearWith, WarningsOf, AboutWith
<1>6. /\ DOMAIN c = DOMAIN a /\ c.stored = Append(a.stored, n)
      /\ c.items = a.items \cup Items(L[n], n)
      /\ c.period = With(a.period, SequenceOf(L[n]), PeriodWith(a, L[n]))
      /\ c.year = With(a.year, L[n].bloco, YearWith(a, L[n]))
  BY <1>2, <1>3, <1>5, ClosePeriods
<1>7. /\ c.warnings = a.warnings \cup WarningsOf(a, L[n], n)
      /\ c.about = IF WarningsOf(a, L[n], n) = {} THEN a.about
                   ELSE With(a.about, ClosingOf(L[n]), AboutWith(a, L[n], n))
  BY <1>2, <1>3, <1>5, CloseWarnings
<1>8. ClosingsWith(a, L[n], n, c.closings)
  <2>1. ClosingsWith(b, L[n], n, c.closings)
    BY <1>2, <1>3, CloseClosings
  <2> QED BY <1>2, <1>5, <2>1 DEF ClosingsWith
<1>9. Signed(L[n]) \in Int
  BY ValidIsNumber DEF Ledger
<1>10. StoresLine(L, a, c, n)
  BY <1>6, <1>7, <1>8, <1>9 DEF StoresLine
<1>11. Len(L) \in Nat /\ Joins(StoredIn(c), StoredIn(a), n)
  BY <1>6, StoredJoins DEF Accumulated, LinesTold, Ledger
<1>12. LinesTold(L, c, n)
  BY <1>10, <1>11, LinesToldStored DEF Accumulated
<1>13. ItemsTold(L, plan, c)
  <2>1. ItemsTold(L, plan, a) /\ a.items \subseteq c.items /\ Items(L[n], n) \subseteq c.items
    BY <1>6 DEF Accumulated
  <2>l. PICK l, I : l = L[n] /\ I = Items(l, n) /\ Valid(l) /\ I \subseteq c.items
    BY <2>1
  <2>i. /\ ~Explained(plan, l) => \E i \in I : i.line = n
        /\ \A k \in Unexplained(plan, l) :
             \E i \in I : i.line = n /\ i.type = "unknown" /\ i.key = k
    BY <2>l, ItemsExplain
  <2>2. ~Explained(plan, L[n]) => \E i \in c.items : i.line = n
    BY <2>l, <2>i
  <2>3. ASSUME NEW k \in Unexplained(plan, L[n])
        PROVE  \E i \in c.items : i.line = n /\ i.type = "unknown" /\ i.key = k
    BY <2>l, <2>i
  <2> QED BY <1>11, <2>1, <2>2, <2>3, ItemsToldStored
<1>14. SumsKept(L, c) /\ Reconciled(L, c)
  BY <1>10, ReconciledStored DEF Accumulated
<1>15. AboutKept(L, c)
  BY <1>10, AboutStored DEF Accumulated
<1>16. ClosingsKept(L, c)
  BY <1>10, ClosingsStored DEF Accumulated
<1>17. Parts \subseteq DOMAIN c
  BY <1>2, <1>6
<1> QED BY <1>4, <1>12, <1>13, <1>14, <1>15, <1>16, <1>17 DEF Accumulated

(* Importing any line keeps the invariant.                                 *)
LEMMA LineImported ==
  ASSUME NEW L, Ledger(L), NEW n \in 1..Len(L), NEW a, Accumulated(L, plan, a, n - 1)
  PROVE  Accumulated(L, plan, ImportLine(a, L[n], n), n)
<1>1. CASE ~Valid(L[n])
  <2>1. PICK c : c = [a EXCEPT !.items = @ \cup Items(L[n], n), !.warnings = @ \cup {<<n, "linha">>}]
    OBVIOUS
  <2>2. ImportLine(a, L[n], n) = c
    BY <1>1, <2>1 DEF ImportLine
  <2>3. /\ DOMAIN c = DOMAIN a /\ c.stored = a.stored /\ c.period = a.period /\ c.year = a.year
        /\ c.about = a.about /\ c.closings = a.closings /\ a.items \subseteq c.items
        /\ c.warnings = a.warnings \cup {<<n, "linha">>}
    BY <2>1 DEF Accumulated, Parts
  <2> QED BY <2>2, <2>3, LineRejected DEF Ledger
<1> QED BY <1>1, LineStored

(* A whole block of lines.                                                 *)
LEMMA BlockImported ==
  ASSUME Ledger(lines), pos \in Nat, NEW last \in Nat, pos <= last, last <= Len(lines),
         Accumulated(lines, plan, acc, pos)
  PROVE  Accumulated(lines, plan, Importing(last)[last], last)
<1> DEFINE T == {n \in 0..last : n < pos \/ Accumulated(lines, plan, Importing(last)[n], n)}
<1>1. 0 \in T
  BY BlockStep
<1>2. ASSUME NEW m \in 0..(last - 1), m \in T PROVE m + 1 \in T
  <2>1. PICK n : n = m + 1 /\ n \in 0..last /\ n - 1 = m /\ n \in 1..Len(lines)
    BY DEF Ledger
  <2>2. CASE n = pos
    BY <2>1, <2>2, BlockStep
  <2>3. CASE n < pos
    BY <2>1, <2>3
  <2>4. CASE pos < n
    <3>1. Accumulated(lines, plan, Importing(last)[m], m)
      BY <1>2, <2>1, <2>4
    <3>2. Importing(last)[n] = ImportLine(Importing(last)[n - 1], lines[n], n)
      BY <2>1, <2>4, BlockStep
    <3>3. Accumulated(lines, plan, Importing(last)[n], n)
      BY <2>1, <3>1, <3>2, LineImported
    <3> QED BY <2>1, <3>3
  <2> QED BY <2>1, <2>2, <2>3, <2>4
<1>3. 0..last \subseteq T
  <2> HIDE DEF T
  <2> QED BY <1>1, <1>2, Climb
<1> QED BY <1>3

-----------------------------------------------------------------------------
(* What the parser has read: lines of a ledger, and an opening balance.    *)
RowShape(row) ==
  /\ \A k \in {"debito", "credito"} \cap DOMAIN row.cells : IsAmount(row.cells[k])
  /\ \A k \in {"saldo_anterior"} \cap DOMAIN row.cells : IsBalance(row.cells[k])
  /\ IsBalance(row.anterior)
LedgerRead(s) ==
  /\ {"meta", "conta", "nome", "header", "opening", "bloco", "entries"} \subseteq DOMAIN s
  /\ IsBalance(s.opening)
  /\ IsSeq(s.entries) /\ \A n \in 1..Len(s.entries) : LineShape(s.entries[n])

(* A line made of a row has amounts for its values.                        *)
LEMMA LedgerLineShape ==
  ASSUME NEW s, NEW row, RowShape(row), IsBalance(s.opening)
  PROVE  LineShape(LedgerLine(s, row))
<1>1. PICK l : l = LedgerLine(s, row)
  OBVIOUS
<1>2. PICK own : own = Cell(row, s.header, "saldo_anterior")
  OBVIOUS
<1>3. /\ l.debito = Cell(row, s.header, "debito") /\ l.credito = Cell(row, s.header, "credito")
      /\ l.anterior = IF own # Blank THEN own ELSE s.opening
  BY <1>1, <1>2 DEF LedgerLine
<1>4. IsAmount(Blank) /\ IsBalance(Blank)
  BY DEF IsAmount, IsBalance
<1>5. IsAmount(Cell(row, s.header, "debito")) /\ IsAmount(Cell(row, s.header, "credito"))
  BY <1>4 DEF Cell, RowShape
<1>6. IsBalance(own)
  BY <1>2, <1>4 DEF Cell, RowShape
<1> QED BY <1>1, <1>3, <1>5, <1>6 DEF LineShape

(* A row read leaves a well-formed ledger well-formed.                     *)
LEMMA ReadRowShape ==
  ASSUME NEW s, NEW row, RowShape(row), LedgerRead(s)
  PROVE  LedgerRead(ReadRow(s, row))
<1>1. PICK t : t = [s EXCEPT !.meta = Known(@, row.meta)]
  OBVIOUS
<1>2. /\ DOMAIN t = DOMAIN s /\ t.entries = s.entries /\ t.opening = s.opening
      /\ LedgerRead(t)
  BY <1>1 DEF LedgerRead
<1>3. PICK u : u = [t EXCEPT !.conta = row.conta, !.nome = row.nome, !.bloco = @ + 1,
                             !.opening = Blank]
  OBVIOUS
<1>4. LedgerRead(u)
  BY <1>2, <1>3 DEF LedgerRead, IsBalance
<1>5. LedgerRead([t EXCEPT !.header = row.columns])
  BY <1>2 DEF LedgerRead
<1>6. LedgerRead([t EXCEPT !.opening = row.anterior])
  BY <1>2 DEF LedgerRead, RowShape
<1>7. LedgerRead([t EXCEPT !.entries = Append(@, LedgerLine(t, row))])
  <2>1. PICK e : e = LedgerLine(t, row) /\ LineShape(e)
    BY <1>2, LedgerLineShape DEF LedgerRead
  <2>2. PICK x : x = Append(t.entries, e)
    OBVIOUS
  <2>3. IsSeq(x) /\ \A n \in 1..Len(x) : LineShape(x[n])
    BY <1>2, <2>1, <2>2, AppendOne DEF LedgerRead
  <2>4. PICK v : v = [t EXCEPT !.entries = Append(@, LedgerLine(t, row))]
    OBVIOUS
  <2>5. v.entries = x /\ DOMAIN v = DOMAIN t /\ v.opening = t.opening
    BY <1>2, <2>1, <2>2, <2>4 DEF LedgerRead
  <2> QED BY <1>2, <2>3, <2>4, <2>5 DEF LedgerRead
<1>8. ReadRow(s, row) \in
        { t, u, [t EXCEPT !.header = row.columns], [t EXCEPT !.opening = row.anterior],
          [t EXCEPT !.entries = Append(@, LedgerLine(t, row))] }
  BY <1>1, <1>3 DEF ReadRow
<1> QED BY <1>2, <1>4, <1>5, <1>6, <1>7, <1>8

(* So the parser makes a well-formed ledger of every sheet.                *)
LEMMA SheetIsLedger ==
  ASSUME NEW s \in Sheets
  PROVE  Ledger(Parsed(s).entries)
<1>1. Len(s) \in Nat /\ \A k \in 1..Len(s) : RowShape(s[k])
  BY LivroAssumption DEF RowShape
<1> DEFINE T == {k \in 0..Len(s) : LedgerRead(Reading(s)[k])}
<1>2. 0 \in T
  <2>1. LedgerRead(Beginning)
    BY EmptyIsSeq DEF LedgerRead, Beginning, IsBalance
  <2> QED BY <1>1, <2>1, ReadingStep
<1>3. ASSUME NEW k \in 0..(Len(s) - 1), k \in T PROVE k + 1 \in T
  <2>1. PICK n : n = k + 1 /\ n \in 1..Len(s) /\ n \in 0..Len(s) /\ n - 1 = k
    BY <1>1
  <2>2. Reading(s)[n] = ReadRow(Reading(s)[n - 1], s[n])
    BY <1>1, <2>1, ReadingStep
  <2>3. LedgerRead(Reading(s)[n])
    BY <1>1, <1>3, <2>1, <2>2, ReadRowShape
  <2> QED BY <2>1, <2>3
<1>4. 0..Len(s) \subseteq T
  <2> HIDE DEF T
  <2> QED BY <1>1, <1>2, <1>3, Climb
<1>5. LedgerRead(Parsed(s))
  BY <1>1, <1>4 DEF Parsed
<1>6. Len(Parsed(s).entries) \in Nat
  BY <1>5, AppendOne DEF LedgerRead
<1> QED BY <1>5, <1>6 DEF LedgerRead, Ledger

-----------------------------------------------------------------------------
(* The invariant of an import.                                             *)
LivroInv ==
  /\ sheet \in Sheets
  /\ Ledger(lines) /\ pos \in 0..Len(lines)
  /\ pc = "parse" => pos = 0 /\ acc = Empty
  /\ Accumulated(lines, plan, acc, pos)
  /\ status = "completed" => pos = Len(lines) /\ acc.warnings = {} /\ pc = "finished"

LEMMA NothingAccumulated ==
  ASSUME NEW L, NEW P, Ledger(L)
  PROVE  Accumulated(L, P, Empty, 0)
<1>1. /\ Empty.stored = << >> /\ Empty.warnings = {} /\ Empty.items = {}
      /\ Empty.period = << >> /\ Empty.year = << >> /\ Empty.about = << >>
      /\ Empty.closings = << >> /\ Parts \subseteq DOMAIN Empty
  BY DEF Empty, Parts
<1>2. DOMAIN << >> = {} /\ StoredIn(Empty) = {}
  BY <1>1, EmptyIsSeq DEF StoredIn
<1>3. LinesTold(L, Empty, 0)
  BY <1>1, <1>2, EmptyIsSeq DEF LinesTold, Posted
<1>4. ItemsTold(L, P, Empty) /\ Reconciled(L, Empty) /\ ClosingsKept(L, Empty)
  BY <1>1, <1>2 DEF ItemsTold, Reconciled, ClosingsKept
<1>5. SumsKept(L, Empty)
  <2>1. \A q : InPeriod(L, {}, q) = {} /\ InBlock(L, {}, q) = {}
    BY DEF InPeriod, InBlock
  <2>2. SumOf(L, {}) = 0
    BY SumOfNone DEF Ledger
  <2> QED BY <1>1, <1>2, <2>1, <2>2 DEF SumsKept, At
<1>6. AboutKept(L, Empty)
  BY <1>1, <1>2 DEF AboutKept, About, At
<1> QED BY <1>1, <1>3, <1>4, <1>5, <1>6 DEF Accumulated

LEMMA LivroStarts == LivroInit => LivroInv
<1> SUFFICES ASSUME LivroInit PROVE LivroInv
  OBVIOUS
<1>1. /\ sheet \in Sheets /\ lines = << >> /\ pos = 0 /\ acc = Empty /\ status = "processing"
  BY DEF LivroInit
<1>2. Ledger(lines) /\ pos \in 0..Len(lines)
  BY <1>1, EmptyIsSeq DEF Ledger
<1>3. Accumulated(lines, plan, acc, pos)
  BY <1>1, <1>2, NothingAccumulated
<1> QED BY <1>1, <1>2, <1>3 DEF LivroInv

LEMMA LivroStep == LivroInv /\ [LivroNext]_rvars => LivroInv'
<1> SUFFICES ASSUME LivroInv, [LivroNext]_rvars PROVE LivroInv'
  OBVIOUS
<1>1. CASE Parse /\ UNCHANGED lines
  <2>1. UNCHANGED <<sheet, plan, pos, acc, status, lines>> /\ pc = "parse" /\ pc' # "parse"
    BY <1>1 DEF Parse
  <2> QED BY <2>1 DEF LivroInv
<1>2. CASE Parse /\ lines' = Parsed(sheet).entries
  <2>1. UNCHANGED <<sheet, plan, pos, acc, status>> /\ pc = "parse" /\ pc' # "parse"
    BY <1>2 DEF Parse
  <2>2. Ledger(lines') /\ pos = 0 /\ acc = Empty /\ status # "completed"
    BY <1>2, <2>1, SheetIsLedger DEF LivroInv
  <2>3. Accumulated(lines', plan', acc', pos')
    BY <2>1, <2>2, NothingAccumulated
  <2>4. pos' \in 0..Len(lines')
    BY <2>1, <2>2 DEF Ledger
  <2> QED BY <2>1, <2>2, <2>3, <2>4 DEF LivroInv
<1>3. CASE ImportBlock
  <2>1. PICK last : /\ last = Least(pos + BlockSize, Len(lines))
                    /\ pos' = last /\ acc' = Importing(last)[last]
                    /\ UNCHANGED <<sheet, plan, pc, lines, status>>
                    /\ pc = "import" /\ pos < Len(lines)
    BY <1>3 DEF ImportBlock
  <2>2. last \in Nat /\ pos <= last /\ last <= Len(lines) /\ pos \in Nat /\ Len(lines) \in Nat
    BY <2>1, LivroAssumption DEF Least, LivroInv, Ledger
  <2>3. Accumulated(lines, plan, Importing(last)[last], last)
    BY <2>2, BlockImported DEF LivroInv
  <2>4. Accumulated(lines', plan', acc', pos')
    BY <2>1, <2>3
  <2>5. status # "completed"
    BY <2>1 DEF LivroInv
  <2> QED BY <2>1, <2>2, <2>4, <2>5 DEF LivroInv
<1>4. CASE Finish
  <2>1. /\ UNCHANGED <<sheet, plan, lines, pos, acc>> /\ pos = Len(lines)
        /\ pc' = "finished" /\ status' = StatusOf(acc, Len(lines))
    BY <1>4 DEF Finish
  <2>2. status' = "completed" => acc.warnings = {}
    BY <2>1 DEF StatusOf
  <2> QED BY <2>1, <2>2 DEF LivroInv
<1>5. CASE UNCHANGED rvars
  BY <1>5 DEF rvars, LivroInv
<1> QED BY <1>1, <1>2, <1>3, <1>4, <1>5 DEF LivroNext, Parse

LEMMA LivroInvariance == LivroSpec => []LivroInv
<1> QED BY LivroStarts, LivroStep, PTL DEF LivroSpec

-----------------------------------------------------------------------------

(* The reference sum of a month is a sum over stored lines.                *)
LEMMA PeriodIsReference ==
  ASSUME NEW n
  PROVE  PeriodAt(n) = SumOf(lines, PeriodUpTo(lines, Stored, n))
<1>1. \A m : SequenceOf(lines[m]) = SequenceOf(lines[n]) <=>
             lines[m].bloco = lines[n].bloco /\ lines[m].data = lines[n].data
  BY DEF SequenceOf
<1>2. PeriodUpTo(lines, Stored, n) = {m \in Stored : /\ m <= n
                                            /\ lines[m].bloco = lines[n].bloco
                                            /\ lines[m].data = lines[n].data}
  BY <1>1 DEF PeriodUpTo
<1> QED BY <1>2 DEF PeriodAt

(* The reference balance of a year is one over stored lines.               *)
LEMMA YearIsReference ==
  ASSUME Stored \subseteq Nat, NEW n \in Stored, NEW v,
         YearIs(lines, v, BlockUpTo(lines, Stored, n))
  PROVE  YearAt(n) = v
<1>1. PICK f \in BlockUpTo(lines, Stored, n) :
        /\ \A m \in BlockUpTo(lines, Stored, n) : f <= m
        /\ v = Opening(lines[f]) + SumOf(lines, BlockUpTo(lines, Stored, n))
  BY DEF YearIs
<1> DEFINE First(x) == /\ x \in Stored /\ lines[x].bloco = lines[n].bloco
                       /\ \A m \in Stored : lines[m].bloco = lines[n].bloco => x <= m
<1>2. First(f)
  <2>1. f \in Stored /\ f <= n /\ lines[f].bloco = lines[n].bloco
    BY <1>1 DEF BlockUpTo
  <2>2. ASSUME NEW m \in Stored, lines[m].bloco = lines[n].bloco PROVE f <= m
    <3>1. CASE m <= n
      BY <1>1, <2>2, <3>1 DEF BlockUpTo
    <3>2. CASE ~(m <= n)
      <4>1. m \in Nat /\ n \in Nat /\ f \in Nat
        BY <2>1
      <4> QED BY <2>1, <3>2, <4>1
    <3> QED BY <3>1, <3>2
  <2> QED BY <2>1, <2>2
<1>3. \A x : First(x) => x = f
  <2> SUFFICES ASSUME NEW x, First(x) PROVE x = f
    OBVIOUS
  <2>1. x <= f /\ f <= x /\ x \in Nat /\ f \in Nat
    BY <1>2
  <2> QED BY <2>1
<1>4. FirstOf(lines[n].bloco) = f
  <2>1. FirstOf(lines[n].bloco) = CHOOSE x \in Stored : /\ lines[x].bloco = lines[n].bloco
                       /\ \A m \in Stored : lines[m].bloco = lines[n].bloco => x <= m
    BY DEF FirstOf
  <2> QED BY <1>2, <1>3, <2>1
<1>5. BlockUpTo(lines, Stored, n) = {m \in Stored : m <= n /\ lines[m].bloco = lines[n].bloco}
  BY DEF BlockUpTo
<1> QED BY <1>1, <1>4, <1>5 DEF YearAt

LEMMA StoredNow ==
  ASSUME LivroInv
  PROVE  Stored = StoredIn(acc) /\ Stored \subseteq 1..pos /\ Stored \subseteq Nat
<1>1. Stored = StoredIn(acc)
  BY DEF Stored, StoredIn
<1>2. StoredIn(acc) \subseteq 1..pos /\ pos \in Nat
  BY DEF LivroInv, Accumulated, LinesTold
<1> QED BY <1>1, <1>2

LEMMA ClosingsAgreeNow ==
  ASSUME LivroInv
  PROVE  ClosingsAgree
<1>1. Stored = StoredIn(acc) /\ Stored \subseteq Nat
  BY StoredNow
<1>2. ClosingsKept(lines, acc)
  BY DEF LivroInv, Accumulated
<1>3. \A n : Observes(lines[n]) <=> HasValue(lines[n].exercicio) \/ HasValue(lines[n].saldo)
  BY DEF Observes
<1>4. ASSUME NEW n \in Stored, Observes(lines[n]) PROVE ClosingOf(lines[n]) \in DOMAIN acc.closings
  BY <1>1, <1>2, <1>4 DEF ClosingsKept
<1>5. ASSUME NEW k \in DOMAIN acc.closings, NEW c, c = acc.closings[k]
      PROVE  /\ c.linha \in Stored /\ Observes(lines[c.linha]) /\ ClosingOf(lines[c.linha]) = k
             /\ \A n \in Stored : Observes(lines[n]) /\ ClosingOf(lines[n]) = k => n <= c.linha
             /\ c.calculado = Magnitude(IF HasValue(lines[c.linha].exercicio) THEN YearAt(c.linha)
                                        ELSE PeriodAt(c.linha))
             /\ c.warnings = About(lines, acc.warnings, k)
  <2>1. ClosingFits(lines, Stored, c, k) /\ c.warnings = About(lines, acc.warnings, k)
    BY <1>1, <1>2, <1>5 DEF ClosingsKept
  <2>2. CASE HasValue(lines[c.linha].exercicio)
    <3>1. PICK v : /\ c.linha \in Stored /\ c.calculado = Magnitude(v)
                   /\ YearIs(lines, v, BlockUpTo(lines, Stored, c.linha))
      BY <2>1, <2>2 DEF ClosingFits
    <3>2. YearAt(c.linha) = v
      BY <1>1, <3>1, YearIsReference
    <3> QED BY <2>1, <2>2, <3>1, <3>2 DEF ClosingFits
  <2>3. CASE ~HasValue(lines[c.linha].exercicio)
    BY <2>1, <2>3, PeriodIsReference DEF ClosingFits
  <2> QED BY <2>2, <2>3
<1>6. ClosingIsOfLastObserved
  BY <1>3, <1>4, <1>5 DEF ClosingIsOfLastObserved
<1>7. ClosingCarriesWarnings
  BY <1>5 DEF ClosingCarriesWarnings, About
<1> QED BY <1>6, <1>7 DEF ClosingsAgree

LEMMA DoubtsAreToldNow ==
  ASSUME LivroInv
  PROVE  DoubtsAreTold
<1>1. Stored = StoredIn(acc) /\ Stored \subseteq 1..pos /\ Stored \subseteq Nat
  BY StoredNow
<1>2. /\ LinesTold(lines, acc, pos) /\ ItemsTold(lines, plan, acc) /\ Reconciled(lines, acc)
      /\ ClosingsKept(lines, acc)
  BY DEF LivroInv, Accumulated
<1>3. EveryLineIsAccounted
  <2> SUFFICES ASSUME NEW n \in 1..pos
               PROVE  /\ (n \in Stored) # (<<n, "linha">> \in acc.warnings)
                      /\ n \notin Stored =>
                           /\ \A w \in acc.warnings : w[1] = n => w[2] = "linha"
                           /\ \A k \in DOMAIN acc.closings : acc.closings[k].linha # n
    BY DEF EveryLineIsAccounted
  <2>1. \A k \in DOMAIN acc.closings : acc.closings[k].linha \in Stored
    BY <1>1, <1>2 DEF ClosingsKept, ClosingFits
  <2>2. \A w \in acc.warnings : w[2] # "linha" => w[1] \in Stored
    BY <1>1, <1>2 DEF LinesTold
  <2>3. (n \in Stored) # (<<n, "linha">> \in acc.warnings)
    BY <1>1, <1>2 DEF LinesTold
  <2> QED BY <2>1, <2>2, <2>3
<1>4. DoubtsAreReported
  <2>1. ASSUME NEW n
        PROVE  /\ Certain(lines[n]) <=> Explained(plan, lines[n])
               /\ UnknownCodes(lines[n]) = Unexplained(plan, lines[n])
    BY DEF Certain, Explained, UnknownCodes, Unexplained
  <2> QED BY <1>1, <1>2, <2>1 DEF DoubtsAreReported, ItemsTold
<1>5. CompletedIsReconciled
  <2> SUFFICES ASSUME status = "completed", NEW n \in 1..Len(lines)
               PROVE  /\ n \in Stored
                      /\ lines[n].saldo # Blank =>
                           HasValue(lines[n].saldo) /\ Balance(lines[n].saldo) = PeriodAt(n)
    BY DEF CompletedIsReconciled
  <2>1. pos = Len(lines) /\ acc.warnings = {}
    BY DEF LivroInv
  <2>2. n \in Stored
    BY <1>1, <1>2, <2>1 DEF LinesTold
  <2>3. lines[n].saldo # Blank =>
          HasValue(lines[n].saldo) /\ Balance(lines[n].saldo) = SumOf(lines, PeriodUpTo(lines, Stored, n))
    BY <1>1, <1>2, <2>1, <2>2 DEF Reconciled
  <2> QED BY <2>2, <2>3, PeriodIsReference
<1> QED BY <1>3, <1>4, <1>5 DEF DoubtsAreTold

(* The monthly closings agree with their ledger: of the last line with a   *)
(* balance, with the sums up to that line and all warnings of the month,   *)
(* for any sheet, plan and size of the blocks (_update_fechamento_mensal). *)
THEOREM ClosingsAgreeWithLedger == LivroSpec => []ClosingsAgree
BY LivroInvariance, ClosingsAgreeNow, PTL

(* Every line of a ledger is stored or reported, what the chart does not   *)
(* explain has an item, and a batch completed without warnings is          *)
(* reconciled line by line (import_razao).                                 *)
THEOREM LedgersTellDoubts == LivroSpec => []DoubtsAreTold
BY LivroInvariance, DoubtsAreToldNow, PTL

=============================================================================
