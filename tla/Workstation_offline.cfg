SPECIFICATION DeskSpec
CONSTANTS
  Screens <- CashScreens
  Rows = {r1}
  NoRow = NoRow
  MaxCalls = 1
  MaxWrites = 2
  Busy = {}
  Flaky <- CashScreens
INVARIANT MutationsBlockedOffline
