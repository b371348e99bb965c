------------------------ MODULE ImportacaoMovimentos ------------------------
(***************************************************************************)
(* The import of operational movements: uploads of sheets by several       *)
(* users, the row machine of the parser, the validation of each line and   *)
(* the running balance of each account.  An upload looks for an earlier    *)
(* import of the same bytes, reads the accounts of the company, and stores *)
(* batch and movements in one transaction; no lock and no unique key joins *)
(* the first step to the last.                                             *)
(*                                                                         *)
(* Cells are numbers or names, Blank or Bad (what no conversion accepts).  *)
(* The bytes of a sheet, and so its hash, are the sheet itself.            *)
(***************************************************************************)
EXTENDS Planilha, Sequences, FiniteSets

CONSTANTS
  MovementSheets, \* the sheets: sequences of rows, see MovementRow
  Uploads,        \* requests to import
  Accounts,       \* codes of accounts
  Readings,       \* states of the accounts: usable and linked, sets of codes
  MaxLots         \* bound: batches stored or under way

MovementLabels == {"cnpj", "inicio", "fim", "dominio"}

(* A sheet ends, and no account has an empty code.                         *)
ASSUME ImportacaoAssumption ==
  /\ \A s \in MovementSheets : Len(s) \in Nat
  /\ \A a \in Readings : Blank \notin a.usable

VARIABLES
  active,         \* the company is active
  accounts,       \* its accounts: usable and linked
  lots,           \* the batches, in the order of their commits
  upload          \* the requests: step, sheet, what they have read

ivars == <<active, accounts, lots, upload>>

-----------------------------------------------------------------------------
(* The parser *)

MovementRow == [meta |-> << >>, columns |-> {}, cells |-> << >>]
Base == {"data", "conta_financeira", "historico"}

(* _detectable_layout, and what _detect_layout_version then refuses.       *)
IsMovementHeader(row) ==
  /\ Base \subseteq row.columns
  /\ "valor" \in row.columns \/ {"debito", "credito", "saldo"} \subseteq row.columns
IsAmbiguous(row) ==
  "valor" \in row.columns /\ row.columns \cap {"debito", "credito"} # {}

Negated(x) == IF x \in {Blank, Bad} \/ x < 0 THEN Blank ELSE -x
Amount(x) == IF x \in {Blank, Bad} \/ x < 0 THEN Blank ELSE x

(* _normalized_value: the two layouts converge to one signed value.        *)
SignedValue(row, header) ==
  LET d == Cell(row, header, "debito")
      c == Cell(row, header, "credito")
  IN IF "valor" \in header THEN Cell(row, header, "valor")
     ELSE IF (d = Blank) = (c = Blank) THEN Blank
     ELSE IF c # Blank THEN Amount(c) ELSE Negated(d)

MovementEntry(row, header) ==
  [data |-> Cell(row, header, "data"),
   conta |-> Cell(row, header, "conta_financeira"),
   historico |-> Cell(row, header, "historico"),
   valor |-> SignedValue(row, header),
   saldo |-> Cell(row, header, "saldo"),
   contrapartida |-> Cell(row, header, "contrapartida"),
   tipo |-> Cell(row, header, "tipo_movimento")]

EmptySheet == [meta |-> [l \in MovementLabels |-> Blank], header |-> {}, ambiguous |-> FALSE,
              entries |-> << >>]

(* Every row may hold metadata, a data row too, and the last value wins; a *)
(* row whose date cannot be read is no movement.                           *)
ReadMovementRow(s, row) ==
  LET t == [s EXCEPT !.meta = [l \in MovementLabels |-> IF l \in DOMAIN row.meta THEN row.meta[l]
                                                ELSE s.meta[l]]] IN
  CASE s.ambiguous -> s
    [] ~s.ambiguous /\ IsMovementHeader(row) ->
         IF IsAmbiguous(row) THEN [t EXCEPT !.ambiguous = TRUE] ELSE [t EXCEPT !.header = row.columns]
    [] ~s.ambiguous /\ ~IsMovementHeader(row) /\ Cell(row, t.header, "data") \notin {Blank, Bad} ->
         [t EXCEPT !.entries = Append(@, MovementEntry(row, t.header))]
    [] OTHER -> t

(* What is known after each row of the sheet.                              *)
ReadingMovements(sheet) ==
  LET read[k \in 0..Len(sheet)] ==
        IF k = 0 THEN EmptySheet ELSE ReadMovementRow(read[k - 1], sheet[k])
  IN read
ParsedMovements(sheet) == ReadingMovements(sheet)[Len(sheet)]

(* Ambiguous layout, missing metadata (a period that is no date is one),   *)
(* no header, or another company.                                          *)
Unreadable(p) ==
  \/ p.ambiguous
  \/ \E l \in {"cnpj", "inicio", "fim"} : p.meta[l] \in {Blank, Bad}
  \/ p.header = {}
  \/ p.meta["cnpj"] # OfCompany

-----------------------------------------------------------------------------
(* One line *)

Code(x) == IF x = Bad THEN Blank ELSE x         \* _parse_account_code
Value(x) == IF x = Bad THEN Blank ELSE x        \* _parse_decimal

(* _invalid_warnings: what rejects a line.                                 *)
IsValid(l, a) ==
  /\ l.historico # Blank
  /\ Value(l.valor) \notin {Blank, 0}
  /\ Code(l.conta) \in a.usable
  /\ Code(l.contrapartida) \in a.usable \cup {Blank}

SignDisagrees(l) ==
  \/ l.tipo = "entrada" /\ l.valor < 0
  \/ l.tipo = "saida" /\ l.valor > 0
NeedsOther(l) == l.tipo \in {"transferencia", "aplicacao", "resgate"}

(* _line_warnings: what sends a valid line to review.                      *)
HasWarningsOfOrigin(l, a, p) ==       \* mutant: the link of the other account is not read
  \/ l.data < p.meta["inicio"] \/ l.data > p.meta["fim"]
  \/ Code(l.conta) \notin a.linked
  \/ SignDisagrees(l)
  \/ NeedsOther(l) /\ Code(l.contrapartida) = Blank
HasWarnings(l, a, p) ==
  \/ l.data < p.meta["inicio"] \/ l.data > p.meta["fim"]
  \/ Code(l.conta) \notin a.linked
  \/ Code(l.contrapartida) # Blank /\ Code(l.contrapartida) \notin a.linked
  \/ SignDisagrees(l)
  \/ NeedsOther(l) /\ Code(l.contrapartida) = Blank

StatusOfLine(l, a, p) ==
  IF HasWarnings(l, a, p) THEN "revisao"
  ELSE IF Code(l.contrapartida) = Blank THEN "pendente" ELSE "pre_classificado"

(* _saldo_info: the first balance of an account is the observed one, or    *)
(* the value of the line; afterwards values are added.                     *)
Calculated(known, l) ==
  IF l.conta \in DOMAIN known THEN known[l.conta] + l.valor
  ELSE IF Value(l.saldo) # Blank THEN l.saldo ELSE l.valor
BalanceDoubt(known, l) ==
  Value(l.saldo) = Blank \/ l.saldo # Calculated(known, l)

Nothing == [movements |-> << >>, warned |-> {}, balance |-> << >>]
WithBalance(known, l) ==
  [c \in DOMAIN known \cup {l.conta} |-> IF c = l.conta THEN Calculated(known, l) ELSE known[c]]
Movement(r, l, n, a, p) ==
  [linha |-> n, status |-> StatusOfLine(l, a, p), calculado |-> Calculated(r.balance, l)]

ImportBalanceFirst(r, l, n, a, p) ==  \* mutant: rejected lines move the balance
  IF ~IsValid(l, a) THEN
    [r EXCEPT !.warned = @ \cup {n},
              !.balance = IF l.valor \notin {Blank, Bad} THEN WithBalance(@, l) ELSE @]
  ELSE [movements |-> Append(r.movements, Movement(r, l, n, a, p)),
        warned |-> IF HasWarnings(l, a, p) \/ BalanceDoubt(r.balance, l) THEN r.warned \cup {n}
                   ELSE r.warned,
        balance |-> WithBalance(r.balance, l)]
ImportSilently(r, l, n, a, p) ==      \* mutant: a line the plan rejects is skipped
  IF ~IsValid(l, a) THEN r
  ELSE [movements |-> Append(r.movements, Movement(r, l, n, a, p)),
        warned |-> IF HasWarnings(l, a, p) \/ BalanceDoubt(r.balance, l) THEN r.warned \cup {n}
                   ELSE r.warned,
        balance |-> WithBalance(r.balance, l)]
ImportMovement(r, l, n, a, p) ==
  IF ~IsValid(l, a) THEN [r EXCEPT !.warned = @ \cup {n}]
  ELSE [movements |-> Append(r.movements, Movement(r, l, n, a, p)),
        warned |-> IF HasWarnings(l, a, p) \/ BalanceDoubt(r.balance, l) THEN r.warned \cup {n}
                   ELSE r.warned,
        balance |-> WithBalance(r.balance, l)]

(* What has been accumulated after each line.                              *)
ImportingMovements(p, a) ==
  LET after[n \in 0..Len(p.entries)] ==
        IF n = 0 THEN Nothing ELSE ImportMovement(after[n - 1], p.entries[n], n, a, p)
  IN after
Imported(p, a) == ImportingMovements(p, a)[Len(p.entries)]

(* A code of the company in the sheet that is not the registered one warns *)
(* about the whole batch.                                                  *)
IsWarned(p, r) == r.warned # {} \/ p.meta["dominio"] \notin {Blank, OfCompany}
Lot(sheet, p, a) ==
  LET r == Imported(p, a) IN
  [sheet |-> sheet, total |-> Len(p.entries), movements |-> r.movements, warned |-> r.warned,
   status |-> IF ~IsWarned(p, r) THEN "completed"
              ELSE IF r.movements # << >> THEN "completed_with_warnings" ELSE "failed"]

(* The validation of movimentos_operacionais_validator, written a second   *)
(* time for the sheets that come back; the period may be open.             *)
Revalidated(l, a, inicio, fim) ==
  IF ~(l.data # Blank /\ Code(l.conta) # Blank /\ l.historico # Blank
       /\ Value(l.valor) \notin {Blank, 0}
       /\ Code(l.conta) \in a.usable
       /\ (Code(l.contrapartida) # Blank => Code(l.contrapartida) \in a.usable))
  THEN "invalida"
  ELSE IF \/ inicio # Blank /\ l.data < inicio
          \/ fim # Blank /\ ~(inicio # Blank /\ l.data < inicio) /\ l.data > fim
          \/ {Code(l.conta), Code(l.contrapartida)} \ (a.linked \cup {Blank}) # {}
          \/ SignDisagrees(l)
          \/ NeedsOther(l) /\ Code(l.contrapartida) = Blank
       THEN "revisao"
  ELSE IF Code(l.contrapartida) = Blank THEN "pendente" ELSE "pre_classificado"

-----------------------------------------------------------------------------
(* Uploads *)

NoUpload == [pc |-> "idle"]
Goes(u, state) == upload' = [upload EXCEPT ![u] = state]

ImportacaoInit ==
  /\ active = TRUE
  /\ accounts \in Readings
  /\ lots = << >>
  /\ upload = [u \in Uploads |-> NoUpload]

Completed(sheet) ==
  {k \in 1..Len(lots) : lots[k].sheet = sheet
                        /\ lots[k].status \in {"completed", "completed_with_warnings"}}
CompletedClean(sheet) ==        \* mutant: an import with warnings may be repeated
  {k \in 1..Len(lots) : lots[k].sheet = sheet /\ lots[k].status = "completed"}
Blocking(sheet) == Completed(sheet)

(* The hash is looked up: one earlier import refuses the upload, two of    *)
(* them break the request (scalar_one_or_none).                            *)
Check(u) ==
  /\ upload[u] = NoUpload
  /\ Len(lots) + Cardinality({o \in Uploads : upload[o] # NoUpload}) < MaxLots
  /\ \E s \in MovementSheets :
       Goes(u, CASE Blocking(s) = {} -> [pc |-> "read", sheet |-> s, since |-> Len(lots)]
                 [] Cardinality(Blocking(s)) = 1 -> [pc |-> "refused"]
                 [] OTHER -> [pc |-> "broken"])
  /\ UNCHANGED <<active, accounts, lots>>

(* The sheet is parsed, the company checked and its accounts are read.     *)
Read(u) ==
  LET p == ParsedMovements(upload[u].sheet) IN
  /\ upload[u].pc = "read"
  /\ Goes(u, IF ~Unreadable(p) /\ active
             THEN [pc |-> "store", sheet |-> upload[u].sheet, since |-> upload[u].since,
                   accounts |-> accounts]
             ELSE [pc |-> "refused"])
  /\ UNCHANGED <<active, accounts, lots>>

(* Batch, movements and audit event commit together.                       *)
Store(u) ==
  LET s == upload[u].sheet IN
  /\ upload[u].pc = "store"
  /\ lots' = Append(lots, Lot(s, ParsedMovements(s), upload[u].accounts))
  /\ Goes(u, NoUpload)
  /\ UNCHANGED <<active, accounts>>

(* A request answers, fails or dies; its transaction is rolled back.       *)
End(u) ==
  /\ upload[u] # NoUpload
  /\ Goes(u, NoUpload)
  /\ UNCHANGED <<active, accounts, lots>>

Administer ==
  \/ active' = ~active /\ UNCHANGED <<accounts, lots, upload>>
  \/ accounts' \in Readings \ {accounts} /\ UNCHANGED <<active, lots, upload>>

ImportacaoNext ==
  \/ \E u \in Uploads : Check(u) \/ Read(u) \/ Store(u) \/ End(u)
  \/ Administer

ImportacaoSpec == ImportacaoInit /\ [][ImportacaoNext]_ivars

-----------------------------------------------------------------------------
(* Properties *)

(* "mesmo `file_hash` para a mesma empresa com status `completed` ou       *)
(* `completed_with_warnings` deve ser bloqueado"                           *)
SheetCompletedOnce == \A k \in 1..Len(lots) : Cardinality(Completed(lots[k].sheet)) <= 1

(* What does hold: a batch is never stored when the same sheet had already *)
(* been completed, with or without warnings, before its upload began; what *)
(* comes in twice came in at the same time.                                *)
LaterUploadIsBlocked ==
  [][\A u \in Uploads :
       upload[u].pc = "store" /\ Len(lots') > Len(lots) /\ upload'[u] = NoUpload =>
         \A k \in Completed(upload[u].sheet) : k > upload[u].since]_ivars

EntriesOf(lot) == ParsedMovements(lot.sheet).entries

(* Every movement of the sheet is stored, or is one of the lines of which  *)
(* the batch warns; only a batch that stored nothing is failed, and so may *)
(* be sent again.                                                          *)
EveryMovementIsAccounted ==
  \A k \in 1..Len(lots) :
    LET lot == lots[k]
        stored == {lot.movements[i].linha : i \in 1..Len(lot.movements)} IN
    /\ \A n \in 1..lot.total : n \in stored \cup lot.warned
    /\ lot.status = "failed" => stored = {}
    /\ lot.status = "completed" => stored = 1..lot.total

(* The reference definition of a balance: what the account showed first,   *)
(* plus the values of its movements since, of the lines e of the sheet.    *)
Lines(m, e) == [i \in 1..Len(m) |-> e[m[i].linha]]
Shown(l) == IF Value(l.saldo) # Blank THEN l.saldo ELSE l.valor
Balancing(of, conta) ==
  LET sum[i \in 0..Len(of)] ==
        IF i = 0 THEN << >>
        ELSE IF of[i].conta # conta THEN sum[i - 1]
        ELSE IF sum[i - 1] = << >> THEN <<Shown(of[i])>>
        ELSE <<sum[i - 1][1] + of[i].valor>>
  IN sum

(* The balance of a movement is what its account showed first plus the     *)
(* values stored since, whatever stands between them in the sheet.         *)
BalanceIsOfStored ==
  \A k \in 1..Len(lots) :
    LET of == Lines(lots[k].movements, EntriesOf(lots[k])) IN
    \A i \in 1..Len(of) :
      Balancing(of, of[i].conta)[i] = <<lots[k].movements[i].calculado>>

(* The importer and the validator decide alike about every line, although  *)
(* the rules are written twice.                                            *)
ValidatorAgrees ==
  \A u \in Uploads : upload[u].pc = "store" =>
    LET p == ParsedMovements(upload[u].sheet)
        r == Imported(p, upload[u].accounts)
        StatusAt(n) == IF \E i \in 1..Len(r.movements) : r.movements[i].linha = n
                       THEN r.movements[CHOOSE i \in 1..Len(r.movements) :
                                          r.movements[i].linha = n].status
                       ELSE "invalida"
    IN \A n \in 1..Len(p.entries) :
         StatusAt(n) = Revalidated(p.entries[n], upload[u].accounts,
                                   p.meta["inicio"], p.meta["fim"])

(* The importer accounts for what it reads: every line is stored or warned *)
(* of, the balances add up what is stored, and the validator of returned   *)
(* sheets finds the same of every line.                                    *)
MovementsAreAccounted == EveryMovementIsAccounted /\ BalanceIsOfStored /\ ValidatorAgrees
=============================================================================
