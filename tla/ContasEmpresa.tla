--------------------------- MODULE ContasEmpresa ---------------------------
(***************************************************************************)
(* The accounts of one company: the global catalogue, the identities the   *)
(* company has of its own, the links that razao imports keep, and the      *)
(* backfill that gives linked codes an identity and can be undone.         *)
(*                                                                         *)
(* Every action is one transaction, or the part of one between a read and  *)
(* the write that relies on it.  The foreign keys of the database and the  *)
(* unique key of company and code are kept.                                *)
(***************************************************************************)
EXTENDS Integers, FiniteSets

CONSTANTS
  Codes,          \* account codes, numbers
  Attrs,          \* what the attributes of an account may be
  Lotes,          \* razao batches, one line for each code
  Runs,           \* commands of the backfill, each with an execution of its own
  MaxId           \* bound: identities that are ever created

VARIABLES
  catalog,        \* ContaContabil: attributes by code, {} of an unknown one
  identity,       \* ContaContabilEmpresa: {} or one [id, attrs] by code
  nextId,
  entries,        \* identities that entries of snapshots refer to
  link,           \* EmpresaContaContabil: {} or one [id, count] by code; 0 is no id
  lote,           \* batches: what they loaded
  journal,        \* BackfillContasContabeisItem
  run             \* commands: the item of an apply or a rollback under way

cvars == <<catalog, identity, nextId, entries, link, lote, journal, run>>

Ids(c) == {i.id : i \in identity[c]}
LinkIds(c) == {k.id : k \in link[c]}
Referenced == entries \cup ((UNION {LinkIds(c) : c \in Codes}) \ {0})
HasPlan == entries # {}

Waiting == [pc |-> "new"]
Resting == [pc |-> "rest"]

Init ==
  /\ catalog \in [Codes -> {{a} : a \in Attrs} \cup {{}}]
  /\ identity = [c \in Codes |-> {}]
  /\ nextId = 1
  /\ entries = {}
  /\ link \in [Codes -> {{}, {[id |-> 0, count |-> 0]}}]  \* from before the identities
  /\ \A c \in Codes : link[c] # {} => catalog[c] # {}
  /\ lote = [l \in Lotes |-> Waiting]
  /\ journal = {}
  /\ run = [r \in Runs |-> Resting]

(* Identities a batch has inserted and not committed: another insert of    *)
(* the same code waits for it.                                             *)
Reserved(c) == \E l \in Lotes : lote[l].pc = "loaded" /\ c \in DOMAIN lote[l].creates

(* Codes of the catalogue that the company has no identity for, and the    *)
(* identities they get.                                                    *)
Missing == {c \in Codes : catalog[c] # {} /\ identity[c] = {}}
Created(missing) ==
  [c \in missing |-> [id |-> nextId + Cardinality({d \in missing : d < c}),
                      attrs |-> CHOOSE a \in catalog[c] : TRUE]]

NewIdentity(c, a) ==
  /\ nextId <= MaxId
  /\ ~Reserved(c)
  /\ identity' = [identity EXCEPT ![c] = {[id |-> nextId, attrs |-> a]}]
  /\ nextId' = nextId + 1

-----------------------------------------------------------------------------
(* import_plano_contas and the routes that edit the catalogue: an account  *)
(* is created or changed, never removed.                                   *)
EditCatalog(c, a) ==
  /\ catalog' = [catalog EXCEPT ![c] = {a}]
  /\ UNCHANGED <<identity, nextId, entries, link, lote, journal, run>>

(* garantir_identidade_contabil: an identity prevails; a known code gets   *)
(* one; ON CONFLICT DO NOTHING waits for whoever is inserting it.          *)
Ensure(c) ==
  /\ identity[c] = {}
  /\ \E a \in catalog[c] : NewIdentity(c, a)
  /\ UNCHANGED <<catalog, entries, link, lote, journal, run>>

(* An entry of an imported snapshot refers to the identity, which keeps    *)
(* the attributes it had.                                                  *)
ImportEntry(c, a) ==
  /\ \A l \in Lotes : lote[l].pc = "loaded" => DOMAIN lote[l].creates = {}
  /\ IF identity[c] = {}
     THEN NewIdentity(c, a) /\ entries' = entries \cup {nextId}
     ELSE entries' = entries \cup Ids(c) /\ UNCHANGED <<identity, nextId>>
  /\ UNCHANGED <<catalog, link, lote, journal, run>>

(* An import of movements gives every code of the catalogue an identity    *)
(* and refers the links of the company to them; the counters stay.  The    *)
(* identities were read before, but the commit needs them to be there, and *)
(* a code has one at a time: it is as if they had been read at the commit. *)
RefreshLinks ==
  LET current(c) == IF c \in Missing THEN {Created(Missing)[c]} ELSE identity[c]
  IN
  /\ \A c \in Missing : ~Reserved(c)
  /\ nextId + Cardinality(Missing) <= MaxId + 1
  /\ nextId' = nextId + Cardinality(Missing)
  /\ identity' = [c \in Codes |-> current(c)]
  /\ link' = [c \in Codes |->
       IF current(c) = {} THEN link[c]
       ELSE {[k EXCEPT !.id = (CHOOSE i \in current(c) : TRUE).id] : k \in link[c]}]
  /\ UNCHANGED <<catalog, entries, lote, journal, run>>

-----------------------------------------------------------------------------
(* A razao import *)

(* The codes of the file are preloaded, with their identities and links;   *)
(* without a plan of its own the company gets the missing identities.      *)
LoadLote(l) ==
  LET known == {c \in Codes : catalog[c] # {}}
      missing == IF HasPlan THEN {} ELSE Missing
      created == Created(missing)
  IN
  /\ lote[l] = Waiting
  /\ \A c \in missing : ~Reserved(c)
  /\ nextId + Cardinality(missing) <= MaxId + 1
  /\ nextId' = nextId + Cardinality(missing)
  /\ lote' = [lote EXCEPT ![l] =
       [pc |-> "loaded", plan |-> HasPlan, creates |-> created, links |-> link,
        ids |-> [c \in known |-> IF c \in missing THEN {created[c].id} ELSE Ids(c)]]]
  /\ UNCHANGED <<catalog, identity, entries, link, journal, run>>

(* _update_account_links counts the codes of the snapshot, or those of the *)
(* catalogue, that have an identity.                                       *)
Counted(l) ==
  {c \in DOMAIN lote[l].ids :
     lote[l].ids[c] # {} /\ (lote[l].plan => lote[l].ids[c] \subseteq entries)}
LinkFree(l) == \A c \in Counted(l) : lote[l].links[c] = {} => link[c] = {}
                                \* mutant: without the foreign key
(* The identities the links refer to must still be there, and a link that  *)
(* was missing must still be missing.                                      *)
CanCommit(l) ==
  \A c \in Counted(l) :
    /\ lote[l].links[c] = {} => link[c] = {}
    /\ c \in DOMAIN lote[l].creates \/ lote[l].ids[c] = Ids(c)

(* The counter is the one that was loaded, plus the lines of the file.     *)
NewLink(l, c) ==
  [id |-> CHOOSE i \in lote[l].ids[c] : TRUE,
   count |-> 1 + (IF lote[l].links[c] = {} THEN 0
                  ELSE (CHOOSE k \in lote[l].links[c] : TRUE).count)]

CommitLote(l) ==
  /\ lote[l].pc = "loaded"
  /\ CanCommit(l)
  /\ identity' = [c \in Codes |-> IF c \in DOMAIN lote[l].creates THEN {lote[l].creates[c]}
                                                               ELSE identity[c]]
  /\ link' = [c \in Codes |-> IF c \in Counted(l) THEN {NewLink(l, c)} ELSE link[c]]
  /\ lote' = [lote EXCEPT ![l] = [pc |-> "done", counted |-> Counted(l)]]
  /\ UNCHANGED <<catalog, nextId, entries, journal, run>>

(* A broken key, a crash or an invalid file: everything is rolled back and *)
(* the batch may be tried again.                                           *)
FailLote(l) ==
  /\ lote[l].pc = "loaded"
  /\ lote' = [lote EXCEPT ![l] = Waiting]
  /\ UNCHANGED <<catalog, identity, nextId, entries, link, journal, run>>

-----------------------------------------------------------------------------
(* apply_backfill: one transaction for each link.                          *)

Entry(r, c, result, ids, attrs) ==
  [run |-> r, code |-> c, result |-> result, ids |-> ids, attrs |-> attrs, undone |-> "no"]
Seen(r) == {j.code : j \in {x \in journal : x.run = r}}
Present(r, c) ==
  Entry(r, c, IF \E i \in identity[c] : {i.attrs} = catalog[c] THEN "already_present" ELSE "conflict",
        Ids(c), {})

Look(r, c) ==
  /\ run[r] = Resting
  /\ link[c] # {} /\ c \notin Seen(r)
  /\ IF identity[c] # {}
     THEN journal' = journal \cup {Present(r, c)} /\ UNCHANGED run
     ELSE /\ run' = [run EXCEPT ![r] = [pc |-> "insert", code |-> c, attrs |-> catalog[c]]]
          /\ UNCHANGED journal
  /\ UNCHANGED <<catalog, identity, nextId, entries, link, lote>>

(* The unique key refuses an identity that came in between; what is there  *)
(* is recorded instead.                                                    *)
Insert(r) ==
  LET c == run[r].code IN
  /\ run[r].pc = "insert"
  /\ IF identity[c] # {}
     THEN journal' = journal \cup {Present(r, c)} /\ UNCHANGED <<identity, nextId>>
     ELSE \E a \in run[r].attrs :
            NewIdentity(c, a) /\ journal' = journal \cup {Entry(r, c, "created", {nextId}, {a})}
  /\ run' = [run EXCEPT ![r] = Resting]
  /\ UNCHANGED <<catalog, entries, link, lote>>

-----------------------------------------------------------------------------
(* rollback_backfill *)

Mark(j, how) == journal' = (journal \ {j}) \cup {[j EXCEPT !.undone = how]}
FoundByCode(j) == identity[j.code]      \* mutant: looked up by its code
Found(j) == {i \in identity[j.code] : i.id \in j.ids}

(* What an execution created: gone already, changed or referred to, or to  *)
(* be removed.                                                             *)
StartUndo(r, j) ==
  /\ run[r] = Resting
  /\ j.result = "created" /\ j.undone = "no"
  /\ IF Found(j) = {} THEN Mark(j, "rolled_back") /\ UNCHANGED run
     ELSE IF \E i \in Found(j) : i.id \in Referenced \/ i.attrs \notin j.attrs
     THEN Mark(j, "blocked") /\ UNCHANGED run
     ELSE run' = [run EXCEPT ![r] = [pc |-> "delete", item |-> j]] /\ UNCHANGED journal
  /\ UNCHANGED <<catalog, identity, nextId, entries, link, lote>>

(* The foreign keys refuse to delete what has been referred to since; the  *)
(* command ends with an error and the item can be tried again.             *)
FinishUndo(r) ==
  LET j == run[r].item IN
  /\ run[r].pc = "delete"
  /\ IF \E i \in Found(j) : i.id \in Referenced THEN UNCHANGED <<identity, journal>>
     ELSE identity' = [identity EXCEPT ![j.code] = @ \ Found(j)] /\ Mark(j, "rolled_back")
  /\ run' = [run EXCEPT ![r] = Resting]
  /\ UNCHANGED <<catalog, nextId, entries, link, lote>>

(* The command dies, in either direction.                                  *)
Die(r) ==
  /\ run[r] # Resting
  /\ run' = [run EXCEPT ![r] = Resting]
  /\ UNCHANGED <<catalog, identity, nextId, entries, link, lote, journal>>

Next ==
  \/ \E c \in Codes :
       \/ \E a \in Attrs : EditCatalog(c, a) \/ ImportEntry(c, a)
       \/ Ensure(c)
  \/ RefreshLinks
  \/ \E l \in Lotes : LoadLote(l) \/ CommitLote(l) \/ FailLote(l)
  \/ \E r \in Runs :
       \/ \E c \in Codes : Look(r, c)
       \/ Insert(r) \/ (\E j \in journal : StartUndo(r, j)) \/ FinishUndo(r) \/ Die(r)

Spec == Init /\ [][Next]_cvars

-----------------------------------------------------------------------------
(* listar_contas_contabeis and resolver_conta_contabil *)

Company(c) == {[code |-> c, attrs |-> i.attrs, origin |-> "company"] : i \in identity[c]}
Legacy(c) == IF link[c] = {} THEN {}
             ELSE {[code |-> c, attrs |-> a, origin |-> "legacy"] : a \in catalog[c]}

Resolved(c) == IF identity[c] # {} THEN Company(c) ELSE Legacy(c)

(* The filter F is applied to the identities first; the links fill in for  *)
(* every code that is not among those left.                                *)
Listed(F) ==
  LET own == {x \in UNION {Company(c) : c \in Codes} : x.attrs \in F}
      rest == Codes \ {x.code : x \in own}
  IN own \cup {x \in UNION {Legacy(c) : c \in rest} : x.attrs \in F}

-----------------------------------------------------------------------------
(* Properties *)

(* An identity keeps its number and attributes; what goes is what an       *)
(* execution of the backfill created itself, as it created it, with nothing *)
(* that refers to it.  Two rollbacks may overlap, and the code may have    *)
(* got another identity between the check and the deletion.                *)
IdentityIsKept ==
  \A c \in Codes : identity[c] # {} /\ identity'[c] # identity[c] =>
    /\ identity'[c] = {}
    /\ Ids(c) \cap Referenced = {}
    /\ \E j \in journal : j.result = "created" /\ Ids(c) = j.ids

(* A link with an identity has the one its code has now, although batches  *)
(* load the identities long before they write the links.                   *)
LinksAreCurrent == \A c \in Codes : LinkIds(c) \ {0} \subseteq Ids(c)

(* Identities and links stay together: the backfill and its rollbacks, the *)
(* importers of charts and the batches of ledgers, at once, neither take   *)
(* an identity away under its links nor leave a link to one that is gone.  *)
IdentitiesAreStable == [][LinksAreCurrent' /\ IdentityIsKept]_cvars

(* tests/test_razao_importer.py: the link of an account counts the lines   *)
(* of every batch that was imported.                                       *)
LinkCountsLines ==
  \A c \in Codes : \A x \in link[c] :
    x.count = Cardinality({l \in Lotes : lote[l].pc = "done" /\ c \in lote[l].counted})

(* "Lista identidades da empresa e completa lacunas com vinculos legados": *)
(* a filtered list holds what the company's accounts are, filtered.        *)
FilterSelects ==
  \A F \in SUBSET Attrs :
    Listed(F) = {x \in UNION {Resolved(c) : c \in Codes} : x.attrs \in F}
=============================================================================
