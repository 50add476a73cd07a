SPECIFICATION DeskSpec
CONSTANTS
  Screens <- EveryScreen
  Rows = {r1}
  NoRow = NoRow
  MaxCalls = 2
  MaxWrites = 2
  Busy <- BusyScreens
  Flaky <- FlakyScreens
INVARIANTS RefusalsAreExplained OwnChangesShow
