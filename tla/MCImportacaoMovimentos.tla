----------------------- MODULE MCImportacaoMovimentos -----------------------
(* An instance of ImportacaoMovimentos for TLC: one sheet with a movement. *)
EXTENDS ImportacaoMovimentos

Columns == Base \cup {"valor", "saldo", "contrapartida"}
OneLine ==
  << [MovementRow EXCEPT !.meta = [cnpj |-> "own", inicio |-> 1, fim |-> 2]],
     [MovementRow EXCEPT !.columns = Columns],
     [MovementRow EXCEPT !.cells = [data |-> 1, conta_financeira |-> 1, historico |-> "h",
        contrapartida |-> 2, valor |-> 3, debito |-> Blank, credito |-> Blank, saldo |-> 3,
        tipo_movimento |-> Blank]] >>
OneSheet == {OneLine}
AllUsable == {[usable |-> {1, 2}, linked |-> {1, 2}]}
=============================================================================
