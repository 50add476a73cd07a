SPECIFICATION SerialSpec
CONSTANTS
  MaxFolios = 1
  MaxTrx = 2
  Requests = {r1}
  Cashiers = {c1, c2}
  SYSTEM = SYSTEM
  MaxShifts = 2
  Shifts <- MCShifts
  NoShift = NoShift
  Desks = {d1}
  CashCounts = {0, 1}
  Approvers = {c1, c2}
  SuperAdmins = {c2}
  NoUser = NoUser
  Accounts = {}
  NoAccount = NoAccount
  NoLimit = NoLimit
  DefaultLimit = NoLimit
  LimitChoices = {}
  PostWindows = {1}
  PostingLines <- MCCash
  AccountRows = {}
INVARIANTS BalancedIsJustified RowsOnOwnShift SnapshotIsDrawer HandoverConservesCash
CHECK_DEADLOCK FALSE
