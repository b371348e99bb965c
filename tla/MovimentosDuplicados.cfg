SPECIFICATION ImportacaoSpec
CONSTANTS
  MovementSheets <- OneSheet
  Uploads = {u1, u2}
  Accounts = {1, 2}
  Readings <- AllUsable
  MaxLots = 3
  Blank = Blank
  Bad = Bad
INVARIANTS
  SheetCompletedOnce
CHECK_DEADLOCK FALSE
