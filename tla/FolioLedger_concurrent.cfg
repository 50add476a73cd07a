SPECIFICATION Spec
CONSTANTS
  MaxFolios = 2
  MaxTrx = 4
  Requests = {r1, r2}
  Cashiers = {}
  SYSTEM = SYSTEM
  Shifts = {}
  NoShift = NoShift
  Accounts = {}
  NoAccount = NoAccount
  NoLimit = NoLimit
  DefaultLimit = 1
  LimitChoices = {}
  PostWindows = {1, 2}
  PostingLines <- MCPackage
  AccountRows <- MCAccountRows
SYMMETRY RequestSymmetry
INVARIANTS TypeOK FolioIsSumOfWindows WindowIsSumOfRows VoidsArePaired
PROPERTY ImplementsContract
CHECK_DEADLOCK FALSE
