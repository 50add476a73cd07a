SPECIFICATION SettleSpec
CONSTANTS
  MaxFolios = 1
  MaxTrx = 3
  Requests = {r1, r2}
  Cashiers = {}
  SYSTEM = SYSTEM
  Shifts = {}
  NoShift = NoShift
  Accounts = {a1}
  NoAccount = NoAccount
  NoLimit = NoLimit
  DefaultLimit = NoLimit
  LimitChoices = {}
  PostWindows = {1}
  PostingLines <- MCLines
  AccountRows = {}
  Holds = {h1}
  NoHold = NoHold
  Reservations = {"res1", "res2"}
  ReservationOf <- MCReservationOf
  Sources = {"MANUAL"}
  GLAccounts <- MCGLAccounts
  GLCode <- MCGLCode
  CodeType <- MCCodeType
  Amounts = {1, 2}
  Limits = {3}
  MaxInvoices = 1
  MaxPayments = 2
  MaxTaxInvoices = 2
  Scenes <- CallsAndRaces
SYMMETRY SettleSymmetry
INVARIANTS InvoicesAgree AccountIsInvoicedLessPaid InvoicesAreSane TrialBalanceIsZero
PROPERTIES HoldChargedOnce TransferSettles BooksFollowFolios
CHECK_DEADLOCK FALSE
