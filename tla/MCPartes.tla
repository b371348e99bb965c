------------------------------ MODULE MCPartes ------------------------------
(***************************************************************************)
(* An instance for TLC of the modules that are small enough to be checked  *)
(* together.  They share no state: part says which of them a behaviour is  *)
(* about, and the variables of the others keep one initial value, so the   *)
(* reachable states are the sum and not the product of those of the parts. *)
(* Two parts have several scopes: values of the constants that meet in     *)
(* different ways, of which a behaviour uses one choice.                   *)
(***************************************************************************)
EXTENDS ContasEmpresa, PlanoSnapshots, SugestoesMovimentos, LivroRazao, ImportacaoMovimentos,
        AgentWorkspace, AgentTelemetry, TLC

CONSTANTS
  r1, r2, r3,                   \* calls of the agent runner
  sa, sb, sc, l1, l2, l3,       \* snapshots and batches
  q1, q2                        \* uploads

VARIABLE part

-----------------------------------------------------------------------------
(* The worktrees of the agent runner: two calls of one execution, and a    *)
(* third of another execution on the same branch.                          *)
WorktreeOf == r1 :> "w1" @@ r2 :> "w1" @@ r3 :> "w2"
OneBranch == r1 :> "b1" @@ r2 :> "b1" @@ r3 :> "b1"

(* Charts and the batches that ask for dates before, between and after     *)
(* their effective dates.                                                  *)
DatesOfBatches == l1 :> {1, 2} @@ l2 :> {1} @@ l3 :> {1, 3}

(* Two charts, and movements with and without a date.                      *)
TwoCharts == [sa |-> {1, 2}, sb |-> {1, 3}]
TwoMovements ==
  { [id |-> 1, date |-> 0, conta |-> 1, inicio |-> 2, fim |-> 4],
    [id |-> 2, date |-> 3, conta |-> 2, inicio |-> 2, fim |-> 4] }

-----------------------------------------------------------------------------
(* Ledgers: metadata, header and block of an account in both orders, then  *)
(* all sequences of three rows of fifteen kinds or of four of five.        *)
LRow == [meta |-> << >>, conta |-> Blank, nome |-> Blank, columns |-> {},
         anterior |-> Blank, cells |-> << >>]
LMeta(cnpj) == [LRow EXCEPT !.meta = [empresa |-> "e", cnpj |-> cnpj, inicio |-> 1, fim |-> 2]]
LColumns == {"data", "historico", "contrapartida", "debito", "credito", "saldo"}
LHeader == [LRow EXCEPT !.columns = LColumns \cup {"saldo_exercicio"}]
LWide == [LRow EXCEPT !.columns = LColumns \cup {"saldo_anterior", "conta_origem"}]
LBlock(c, n) == [LRow EXCEPT !.conta = c, !.nome = n]
Deb(n) == [valor |-> n, natureza |-> "D"]
C3 == [valor |-> 3, natureza |-> "C"]
LOpening == [LRow EXCEPT !.anterior = [valor |-> 5, natureza |-> "C"]]
LLine(d, cp, deb, cre, s, e) ==
  [LRow EXCEPT !.cells = [data |-> d, historico |-> "h", contrapartida |-> cp, debito |-> deb,
                          credito |-> cre, saldo |-> s, saldo_exercicio |-> e, conta_origem |-> 2]]
LLines ==
  { LLine(1, 2, 3, Blank, Blank, Blank), LLine(1, 2, 3, Blank, Deb(3), Blank),
    LLine(2, 2, 3, Blank, Deb(3), Deb(8)), LLine(1, 2, Blank, 3, Deb(0), Blank),
    LLine(1, 2, Blank, 3, C3, C3), LLine(1, 3, 3, Blank, Deb(3), Blank),
    LLine(1, Blank, 3, Blank, Deb(3), Blank), LLine(Bad, 2, 3, Blank, Deb(3), Blank),
    LLine(1, 2, Bad, Blank, Deb(3), Blank), LLine(1, 2, 3, 3, Deb(3), Blank),
    LLine(1, 2, 3, Blank, Deb(Bad), Blank),
    LLine(1, 2, 3, Blank, [valor |-> 3, natureza |-> Blank], Blank) }
LMany == LLines \cup {LBlock(1, "same"), LBlock(2, "other"), LOpening}
LFew == { LLine(1, 2, 3, Blank, Deb(3), Blank), LLine(1, 2, Blank, 3, Blank, Blank),
          LLine(2, 2, 3, Blank, Blank, Blank), LBlock(1, "same"), LOpening }
LSheets ==
  {<<LMeta("own"), LHeader, LBlock(1, "other")>> \o s : s \in [1..3 -> LMany]}
    \cup {<<LMeta("own"), LBlock(1, "same"), LHeader>> \o s : s \in [1..4 -> LFew]}
    \cup {<<LMeta("own"), LWide>> \o s : s \in [1..3 -> LFew]}
    \cup {<<LMeta("own")>>, <<LMeta("other"), LHeader>>, <<LHeader>>}
    \cup {<<LMeta("other"), LMeta(Bad), LHeader, LBlock(1, "same"), l>> : l \in LFew}
LPlans ==
  { [m \in 1..2 |-> [kind |-> "catalog"]],
    [m \in 1..2 |-> IF m = 1 THEN [kind |-> "snapshot", codes |-> {1, 2}] ELSE [kind |-> "missing"]],
    [m \in 1..2 |-> [kind |-> "conflict"]] }

-----------------------------------------------------------------------------
(* Sheets of movements: both layouts with two lines of many kinds, and the *)
(* sheets that are refused.                                                *)
IRow == [meta |-> << >>, columns |-> {}, cells |-> << >>]
IMeta == [IRow EXCEPT !.meta = [cnpj |-> "own", inicio |-> 1, fim |-> 2]]
IBase == {"data", "conta_financeira", "historico"}
IRest == {"saldo", "contrapartida", "tipo_movimento"}
IHeadA == [IRow EXCEPT !.columns = IBase \cup IRest \cup {"valor"}]
IHeadB == [IRow EXCEPT !.columns = IBase \cup IRest \cup {"debito", "credito"}]
IHeadAB == [IRow EXCEPT !.columns = IBase \cup {"debito", "valor"}]
ILine(d, c, cp, v, deb, cre, s, t) ==
  [IRow EXCEPT !.cells = [data |-> d, conta_financeira |-> c, historico |-> "h",
     contrapartida |-> cp, valor |-> v, debito |-> deb, credito |-> cre, saldo |-> s,
     tipo_movimento |-> t]]
ILinesA ==
  { ILine(1, c, cp, v, Blank, Blank, s, "saida") :
      c \in {1, 2}, cp \in {Blank, 2}, v \in {3, -2}, s \in {Blank, 3} }
    \cup { ILine(3, 1, 2, 3, Blank, Blank, Bad, Blank), ILine(Bad, 1, 2, 3, Blank, Blank, 3, Blank),
           ILine(1, 1, Bad, 3, Blank, Blank, 6, "resgate"), ILine(1, 3, 2, 3, Blank, Blank, 3, Blank),
           ILine(1, 1, 3, 5, Blank, Blank, 3, Blank), ILine(1, 1, 2, 0, Blank, Blank, 3, Blank),
           ILine(1, 1, 2, Bad, Blank, Blank, 3, Blank) }
ILinesB == { ILine(1, 1, 2, Blank, deb, cre, s, Blank) :
               deb \in {Blank, 3}, cre \in {Blank, 3, -1, Bad}, s \in {Blank, 3} }
ISheets ==
  {<<IMeta, IHeadA>> \o s : s \in [1..2 -> ILinesA]}
    \cup {<<IMeta, IHeadB>> \o s : s \in [1..2 -> ILinesB]}
    \cup {<<IMeta, IHeadA>>, <<IHeadA>>, <<IMeta>>, <<IMeta, IHeadAB>>,
          <<IMeta, [IRow EXCEPT !.meta = [dominio |-> "else"]], IHeadA>>,
          <<IMeta, [IRow EXCEPT !.meta = [fim |-> Bad]], IHeadA>>}
AllUsable == [usable |-> {1, 2}, linked |-> {1, 2}]
OneLinked == [usable |-> {1, 2}, linked |-> {1}]
OneUsable == [usable |-> {1}, linked |-> {1, 2}]
(* Two users and few sheets: one that completes, one that completes with   *)
(* warnings, one that fails and one that cannot be read.                   *)
JSheets ==
  { <<IMeta, IHeadA, ILine(1, 1, 2, 3, Blank, Blank, 3, Blank)>>,
    <<IMeta, IHeadA, ILine(1, 1, 2, 3, Blank, Blank, Blank, Blank)>>,
    <<IMeta, IHeadA, ILine(1, 3, 2, 3, Blank, Blank, 3, Blank)>>,
    <<IMeta>> }
AllSheets == ISheets \cup JSheets
AllReadings == {AllUsable, OneLinked, OneUsable}

-----------------------------------------------------------------------------
(* The scopes of PlanoSnapshots: conflicts of up to three charts with one  *)
(* batch; two batches that meet on a date without a chart; two effective   *)
(* dates.                                                                  *)
Imports(S, v) ==
  \A i \in Importers : importer[i] # Idle =>
    importer[i].event[1] \in S /\ importer[i].event[2] \in v
OnlyBatches(B) == \A l \in Batches \ B : batch[l] = Idle
PlanoInScope ==
  /\ part = "sa" => Imports(Snapshots, {2}) /\ OnlyBatches({l1})
  /\ part = "sb" => Imports({sa, sb}, {2}) /\ OnlyBatches({l1, l2})
  /\ part = "sc" => Imports({sa, sb}, {2, 3}) /\ OnlyBatches({l3})

(* The scopes of ImportacaoMovimentos: every sheet in one upload; a few    *)
(* sheets in several uploads of two users.                                 *)
OneUploadNext ==
  \/ lots = << >> /\ Check(q1)
  \/ Read(q1) \/ Store(q1) \/ End(q1) \/ Administer
UploadsInScope ==
  /\ accounts # OneUsable
  /\ \A u \in Uploads : upload[u].pc = "read" => upload[u].sheet \in JSheets

-----------------------------------------------------------------------------
(* The variables of the other parts keep one initial value.                *)
PartsInit ==
  /\ part \in {"w", "t", "sa", "sb", "sc", "c", "l", "i", "j", "k"}
  /\ WorkspaceInit /\ TelemetryInit /\ PlanoInit
  /\ SugestoesInit /\ (part # "k" => model)
  /\ Init /\ (part # "c" => catalog = [c \in Codes |-> {}])
  /\ ImportacaoInit /\ (part = "j" => UploadsInScope)
  /\ (part \notin {"i", "j"} => accounts = AllUsable)
  /\ IF part = "l" THEN LivroInit
     ELSE sheet = <<LHeader>> /\ plan = [m \in 1..2 |-> [kind |-> "catalog"]] /\ LivroInit

PartsNext ==
  \/ /\ part = "w" /\ WorkspaceNext
     /\ UNCHANGED <<part, tvars, pvars, cvars, rvars, ivars, smvars>>
  \/ /\ part = "t" /\ TelemetryNext
     /\ UNCHANGED <<part, wvars, pvars, cvars, rvars, ivars, smvars>>
  \/ /\ part \in {"sa", "sb", "sc"} /\ PlanoNext /\ UNCHANGED part /\ PlanoInScope'
     /\ UNCHANGED <<wvars, tvars, cvars, rvars, ivars, smvars>>
  \/ /\ part = "c" /\ Next
     /\ UNCHANGED <<part, wvars, tvars, pvars, rvars, ivars, smvars>>
  \/ /\ part = "l" /\ LivroNext
     /\ UNCHANGED <<part, wvars, tvars, pvars, cvars, ivars, smvars>>
  \/ /\ \/ part = "i" /\ OneUploadNext
        \/ part = "j" /\ ImportacaoNext /\ UploadsInScope'
     /\ UNCHANGED <<part, wvars, tvars, pvars, cvars, rvars, smvars>>
  \/ /\ part = "k" /\ SugestoesNext
     /\ UNCHANGED <<part, wvars, tvars, pvars, cvars, rvars, ivars>>

vars == <<part, wvars, tvars, pvars, cvars, rvars, ivars, smvars>>
PartsSpec == PartsInit /\ [][PartsNext]_vars
=============================================================================
