----------------------------- MODULE LivroRazao -----------------------------
(***************************************************************************)
(* From the sheet of a ledger (razão) to its lines, warnings and monthly   *)
(* closings: the row machine of razao_parser and the block loop of         *)
(* import_razao.  One import is one transaction, and the plan of accounts  *)
(* it sees for a day is read once and kept, so nothing runs beside it here *)
(* (PlanoSnapshots and FilaRazao model what does).                         *)
(*                                                                         *)
(* Cells are numbers, Blank or Bad (what no conversion accepts).  A date   *)
(* is its month, a balance a record of its value and its nature D or C.    *)
(* Account links are in ContasEmpresa.                                     *)
(***************************************************************************)
EXTENDS Planilha, Sequences, FiniteSets

CONSTANTS
  Sheets,         \* the sheets: sequences of rows, see Row
  Plans,          \* what the company's plan says of each month
  Catalog,        \* accounts of the shared catalogue
  BlockSize       \* RAZAO_IMPORT_BLOCK_SIZE, positive

(* A conversion gives a number, nothing or Bad.                            *)
IsAmount(x) == x \in Int \cup {Blank, Bad}
IsBalance(b) == b = Blank \/ b.valor \in Int \cup {Bad}
ASSUME LivroAssumption ==
  /\ \A s \in Sheets : Len(s) \in Nat /\ \A k \in 1..Len(s) :
       /\ \A c \in {"debito", "credito"} \cap DOMAIN s[k].cells : IsAmount(s[k].cells[c])
       /\ \A c \in {"saldo_anterior"} \cap DOMAIN s[k].cells : IsBalance(s[k].cells[c])
       /\ IsBalance(s[k].anterior)
  /\ BlockSize \in Nat \ {0}

Labels == {"empresa", "cnpj", "inicio", "fim"}
Required == {"data", "historico", "contrapartida", "debito", "credito"}

VARIABLES
  sheet, plan,    \* the input
  pc,             \* "parse", "import", "finished" or "refused"
  lines,          \* the parsed entries
  pos,            \* lines whose block is done
  acc,            \* what the import has accumulated
  status          \* of the batch

rvars == <<sheet, plan, pc, lines, pos, acc, status>>

-----------------------------------------------------------------------------
(* The parser *)

(* A row may hold metadata, start the block of an account, be a header, a  *)
(* row "saldo anterior" (with a Bad value when none can be read), an       *)
(* entry, or nothing the parser knows.                                     *)
Row == [meta |-> << >>, conta |-> Blank, nome |-> Blank, columns |-> {},
        anterior |-> Blank, cells |-> << >>]

Beginning == [meta |-> [l \in Labels |-> Blank], conta |-> Blank, nome |-> Blank,
              header |-> {}, opening |-> Blank, bloco |-> 0, entries |-> << >>]

IsHeader(row) == Required \subseteq row.columns

(* _extract_metadata: a label whose value cannot be read changes nothing,  *)
(* but a CNPJ without a digit takes away the one that was read before.     *)
Known(meta, found) ==
  [l \in Labels |->
     IF l \notin DOMAIN found \/ found[l] = Blank THEN meta[l]
     ELSE IF found[l] # Bad THEN found[l]
     ELSE IF l = "cnpj" THEN Blank ELSE meta[l]]

(* _parse_entry_row: a row without date, history or account is no entry.   *)
IsEntry(s, row) ==
  /\ Cell(row, s.header, "data") # Blank
  /\ Cell(row, s.header, "historico") # Blank
  /\ s.conta # Blank \/ Cell(row, s.header, "conta_origem") # Blank

LedgerLine(s, row) ==
  LET conta == IF s.conta # Blank THEN s.conta ELSE Cell(row, s.header, "conta_origem")
      own == Cell(row, s.header, "saldo_anterior")
  IN [bloco |-> IF s.bloco > 0 THEN <<"bloco", s.bloco>> ELSE <<"conta", conta>>,
      conta |-> conta, nome |-> s.nome,
      data |-> Cell(row, s.header, "data"),
      contrapartida |-> Cell(row, s.header, "contrapartida"),
      debito |-> Cell(row, s.header, "debito"),
      credito |-> Cell(row, s.header, "credito"),
      anterior |-> IF own # Blank THEN own ELSE s.opening,
      saldo |-> Cell(row, s.header, "saldo"),
      exercicio |-> Cell(row, s.header, "saldo_exercicio")]

ReadRow(s, row) ==
  LET t == [s EXCEPT !.meta = Known(@, row.meta)] IN
  CASE row.conta # Blank ->
         [t EXCEPT !.conta = row.conta, !.nome = row.nome, !.bloco = @ + 1, !.opening = Blank]
    [] row.conta = Blank /\ IsHeader(row) -> [t EXCEPT !.header = row.columns]
    [] row.conta = Blank /\ ~IsHeader(row) /\ t.header # {}
         /\ (t.conta # Blank \/ "conta_origem" \in t.header) ->
         IF row.anterior # Blank THEN [t EXCEPT !.opening = row.anterior]
         ELSE IF IsEntry(t, row) THEN [t EXCEPT !.entries = Append(@, LedgerLine(t, row))]
         ELSE t
    [] OTHER -> t

(* What is known after each row of the sheet.                              *)
Reading(s) ==
  LET read[k \in 0..Len(s)] == IF k = 0 THEN Beginning ELSE ReadRow(read[k - 1], s[k])
  IN read
Parsed(s) == Reading(s)[Len(s)]

(* _parse_lancamentos_and_validate_company: a sheet without all metadata   *)
(* is read again without them, and then its company is not checked.  The   *)
(* company of the batch stands for an active one.                          *)
Refused(p) ==
  /\ \A l \in Labels : p.meta[l] # Blank
  /\ \/ p.header = {} /\ p.entries = << >>
     \/ p.meta["cnpj"] # OfCompany

-----------------------------------------------------------------------------
(* One line *)

(* normalize_lancamento_razao: exactly one side.                           *)
OneSided(l) == (l.debito = Blank) # (l.credito = Blank)
Valor(l) == IF l.debito # Blank THEN l.debito ELSE l.credito
Signed(l) == IF l.debito # Blank THEN l.debito ELSE -l.credito

CodesOf(l) == {l.conta, l.contrapartida}
Certain(l) == plan[l.data].kind \in {"catalog", "snapshot"}
UnknownCodes(l) ==
  IF plan[l.data].kind = "snapshot" THEN CodesOf(l) \ plan[l.data].codes ELSE {}

(* What is checked before a review item may be created, and what rejects   *)
(* the line afterwards (a value that is no number is seen last).           *)
Readable(l) ==
  /\ OneSided(l)
  /\ l.contrapartida # Blank
  /\ l.data # Bad
Postable(l) ==
  /\ Bad \notin CodesOf(l)
  /\ plan[l.data].kind = "catalog" => CodesOf(l) \subseteq Catalog
  /\ Valor(l) # Bad
Valid(l) == Readable(l) /\ Postable(l)

(* _create_razao_review_item: days without a certain plan, accounts the    *)
(* snapshot of the day does not have, names that differ from it.           *)
ItemsOfOrigin(l, n) ==           \* mutant: only the account of the block is looked up
  IF ~Readable(l) THEN {}
  ELSE IF ~Certain(l) THEN {[type |-> plan[l.data].kind, key |-> l.data, line |-> n]}
  ELSE IF Bad \in CodesOf(l) THEN {}
  ELSE {[type |-> "unknown", key |-> c, line |-> n] : c \in UnknownCodes(l) \cap {l.conta}}
Items(l, n) ==
  IF ~Readable(l) THEN {}
  ELSE IF ~Certain(l) THEN {[type |-> plan[l.data].kind, key |-> l.data, line |-> n]}
  ELSE IF Bad \in CodesOf(l) THEN {}
  ELSE {[type |-> "unknown", key |-> c, line |-> n] : c \in UnknownCodes(l)}
       \cup IF plan[l.data].kind = "snapshot" /\ l.conta \in plan[l.data].codes
               /\ l.nome = "other"
            THEN {[type |-> "divergence", key |-> l.conta, line |-> n]} ELSE {}

-----------------------------------------------------------------------------
(* Balances and closings *)

Balance(b) == IF b.natureza = "C" THEN -b.valor ELSE b.valor
HasValue(b) == b # Blank /\ b.valor # Bad
Opening(l) ==
  IF HasValue(l.anterior) /\ l.anterior.natureza \in {"D", "C"} THEN Balance(l.anterior) ELSE 0

SequenceOfAccount(l) == <<l.conta, l.data>>     \* mutant: blocks of an account are one
SequenceOf(l) == <<l.bloco, l.data>>
ClosingOf(l) == <<l.conta, l.data>>

At(f, k, start) == IF k \in DOMAIN f THEN f[k] ELSE start
With(f, k, v) == [x \in DOMAIN f \cup {k} |-> IF x = k THEN v ELSE f[x]]

(* A closing stores the size of what was calculated, without its side.     *)
Magnitude(n) == IF n < 0 THEN -n ELSE n

(* The warning of a line about its balance, given the period's sequence.   *)
BalanceWarning(l, period, warned) ==
  CASE l.saldo = Blank ->
         IF l.exercicio = Blank /\ l.bloco \notin warned THEN {"saldo_ausente"} ELSE {}
    [] l.saldo # Blank /\ (~HasValue(l.saldo)
                           \/ (l.saldo.valor # 0 /\ l.saldo.natureza \notin {"D", "C"})) ->
         {"saldo_invalido"}
    [] OTHER -> IF Balance(l.saldo) # period THEN {"saldo_divergente"} ELSE {}

(* _update_fechamento_mensal: the sequences advance, the warning joins the *)
(* closing of its month, and an observed balance becomes the closing.      *)
CloseWith(a, l, n, keep) ==
  LET key == ClosingOf(l)
      period == At(a.period, SequenceOf(l), 0) + Signed(l)
      year == At(a.year, l.bloco, Opening(l)) + Signed(l)
      warning == BalanceWarning(l, period, a.absent)
      about == At(a.about, key, {}) \cup {<<n, w>> : w \in warning}
      observed == IF HasValue(l.exercicio) THEN {<<"saldo_exercicio", l.exercicio>>}
                  ELSE IF HasValue(l.saldo) THEN {<<"saldo", l.saldo>>} ELSE {}
      before == IF key \in DOMAIN a.closings /\ keep THEN a.closings[key].warnings ELSE about
      Row2(o) == [fonte |-> o[1], observado |-> o[2], linha |-> n, warnings |-> before,
                  calculado |-> Magnitude(IF o[1] = "saldo_exercicio" THEN year ELSE period)]
  IN [a EXCEPT
        !.period = With(@, SequenceOf(l), period),
        !.year = With(@, l.bloco, year),
        !.absent = @ \cup (IF "saldo_ausente" \in warning THEN {l.bloco} ELSE {}),
        !.warnings = @ \cup {<<n, w>> : w \in warning},
        !.about = IF warning = {} THEN @ ELSE With(@, key, about),
        !.closings =
          IF observed # {} THEN With(@, key, Row2(CHOOSE o \in observed : TRUE))
          ELSE IF key \in DOMAIN @ /\ ~keep THEN [@ EXCEPT ![key].warnings = about]
          ELSE @]
CloseOnce(a, l, n) == CloseWith(a, l, n, TRUE)  \* mutant: a closing keeps its first warnings
Close(a, l, n) == CloseWith(a, l, n, FALSE)

(* The body of the loop: a line is stored, or rejected with one warning.   *)
ImportLineSilently(a, l, n) ==  \* mutant: a line without the other account is skipped
  IF Valid(l) THEN Close([a EXCEPT !.stored = Append(@, n), !.items = @ \cup Items(l, n)], l, n)
  ELSE [a EXCEPT !.items = @ \cup Items(l, n),
                 !.warnings = IF l.contrapartida = Blank THEN @ ELSE @ \cup {<<n, "linha">>}]
ImportLine(a, l, n) ==
  IF Valid(l) THEN Close([a EXCEPT !.stored = Append(@, n), !.items = @ \cup Items(l, n)], l, n)
  ELSE [a EXCEPT !.items = @ \cup Items(l, n), !.warnings = @ \cup {<<n, "linha">>}]

Empty == [stored |-> << >>, warnings |-> {}, items |-> {}, period |-> << >>, year |-> << >>,
          absent |-> {}, about |-> << >>, closings |-> << >>]

-----------------------------------------------------------------------------
(* The import *)

LivroInit ==
  /\ sheet \in Sheets /\ plan \in Plans
  /\ pc = "parse" /\ lines = << >> /\ pos = 0 /\ acc = Empty /\ status = "processing"

Parse ==
  LET p == Parsed(sheet) IN
  /\ pc = "parse"
  /\ \/ /\ Refused(p) /\ pc' = "refused" /\ UNCHANGED lines
     \/ /\ ~Refused(p) /\ pc' = "import" /\ lines' = p.entries
  /\ UNCHANGED <<sheet, plan, pos, acc, status>>

Least(a, b) == IF a < b THEN a ELSE b

(* What has been accumulated after each line of a block.                   *)
Importing(last) ==
  LET after[n \in pos..last] ==
        IF n = pos THEN acc ELSE ImportLine(after[n - 1], lines[n], n)
  IN after

(* One block: its lines, then the counts that progress reports.            *)
ImportBlock ==
  /\ pc = "import" /\ pos < Len(lines)
  /\ LET last == Least(pos + BlockSize, Len(lines)) IN
     /\ pos' = last
     /\ acc' = Importing(last)[last]
  /\ UNCHANGED <<sheet, plan, pc, lines, status>>

StatusByLines(a, total) ==      \* mutant: warnings of balances do not count
  IF Len(a.stored) = total THEN "completed"
  ELSE IF Len(a.stored) > 0 THEN "completed_with_warnings" ELSE "failed"
StatusOf(a, total) ==
  IF Len(a.stored) = total /\ a.warnings = {} THEN "completed"
  ELSE IF Len(a.stored) > 0 THEN "completed_with_warnings" ELSE "failed"

Finish ==
  /\ pc = "import" /\ pos = Len(lines)
  /\ pc' = "finished"
  /\ status' = StatusOf(acc, Len(lines))
  /\ UNCHANGED <<sheet, plan, lines, pos, acc>>

LivroNext == Parse \/ ImportBlock \/ Finish

LivroSpec == LivroInit /\ [][LivroNext]_rvars

-----------------------------------------------------------------------------
(* Properties *)

Stored == {acc.stored[k] : k \in 1..Len(acc.stored)}

(* Every line of a finished block is stored or reported, not both, and a   *)
(* rejected line leaves neither a balance warning nor a closing.           *)
EveryLineIsAccounted ==
  \A n \in 1..pos :
    /\ (n \in Stored) # (<<n, "linha">> \in acc.warnings)
    /\ n \notin Stored =>
         /\ \A w \in acc.warnings : w[1] = n => w[2] = "linha"
         /\ \A k \in DOMAIN acc.closings : acc.closings[k].linha # n

(* The reference definition of a sequence: what its stored lines add up    *)
(* to, from the first to the given one.                                    *)
Adding(of, S) ==
  LET sum[n \in 0..Len(of)] ==
        IF n = 0 THEN 0 ELSE IF n \in S THEN sum[n - 1] + Signed(of[n]) ELSE sum[n - 1]
  IN sum
SumOf(of, S) == Adding(of, S)[Len(of)]
PeriodAt(n) == SumOf(lines, {m \in Stored : /\ m <= n
                                            /\ lines[m].bloco = lines[n].bloco
                                            /\ lines[m].data = lines[n].data})
FirstOf(bloco) == CHOOSE n \in Stored : /\ lines[n].bloco = bloco
                                        /\ \A m \in Stored : lines[m].bloco = bloco => n <= m
YearAt(n) == Opening(lines[FirstOf(lines[n].bloco)])
               + SumOf(lines, {m \in Stored : m <= n /\ lines[m].bloco = lines[n].bloco})

(* The closing of an account and month is that of the last stored line     *)
(* with a balance, in the order of the sheet; what was observed and what   *)
(* was calculated are of the same line, and a block never takes its        *)
(* balance from another block, another month or a rejected line.           *)
ClosingIsOfLastObserved ==
  LET Observes(n) == HasValue(lines[n].exercicio) \/ HasValue(lines[n].saldo) IN
  /\ \A n \in Stored : Observes(n) => ClosingOf(lines[n]) \in DOMAIN acc.closings
  /\ \A k \in DOMAIN acc.closings :
       LET c == acc.closings[k] IN
       /\ c.linha \in Stored /\ Observes(c.linha) /\ ClosingOf(lines[c.linha]) = k
       /\ \A n \in Stored : Observes(n) /\ ClosingOf(lines[n]) = k => n <= c.linha
       /\ c.calculado = Magnitude(IF HasValue(lines[c.linha].exercicio) THEN YearAt(c.linha)
                                  ELSE PeriodAt(c.linha))

(* A closing carries the balance warnings of all the lines of its account  *)
(* and month, those before it existed and those after its last update.     *)
ClosingCarriesWarnings ==
  \A k \in DOMAIN acc.closings :
    acc.closings[k].warnings =
      {w \in acc.warnings : w[2] # "linha" /\ ClosingOf(lines[w[1]]) = k}

(* A batch is completed without warnings only when every line of the sheet *)
(* was stored and every balance the sheet shows is the sum of its lines.   *)
CompletedIsReconciled ==
  pc = "finished" /\ status = "completed" =>
    \A n \in 1..Len(lines) :
      /\ n \in Stored
      /\ lines[n].saldo # Blank =>
           HasValue(lines[n].saldo) /\ Balance(lines[n].saldo) = PeriodAt(n)

(* A stored line that was not posted against a certain plan, or that uses  *)
(* an account the plan does not have (on either side), left an item.       *)
DoubtsAreReported ==
  \A n \in Stored :
    /\ ~Certain(lines[n]) => \E i \in acc.items : i.line = n
    /\ \A c \in UnknownCodes(lines[n]) :
         \E i \in acc.items : i.line = n /\ i.type = "unknown" /\ i.key = c

(* A closing is that of its account and month: of its last line with a     *)
(* balance, with the sums up to that line and all the warnings of the      *)
(* month.                                                                  *)
ClosingsAgree == ClosingIsOfLastObserved /\ ClosingCarriesWarnings

(* A batch tells what it does not know: every line is stored or reported,  *)
(* stored lines that the chart does not explain have an item, and only a   *)
(* batch in which every line and balance agree is completed without        *)
(* warnings.                                                               *)
DoubtsAreTold == EveryLineIsAccounted /\ DoubtsAreReported /\ CompletedIsReconciled
=============================================================================
