------------------------------ MODULE Planilha ------------------------------
(***************************************************************************)
(* The cells of the sheets that are imported: ledgers and movements.       *)
(***************************************************************************)
EXTENDS Integers

CONSTANTS
  Blank,          \* an empty cell
  Bad             \* what no conversion accepts

(* Neither is a number: what is converted is told from what is not.        *)
ASSUME CellsAssumption == Blank \notin Int /\ Bad \notin Int /\ Blank # Bad

(* The CNPJ of the company of the batch, and its code in the register.     *)
OfCompany == "own"

(* A column that the header does not name is empty.                        *)
Cell(row, header, column) ==
  IF column \in header /\ column \in DOMAIN row.cells THEN row.cells[column] ELSE Blank
=============================================================================
