SPECIFICATION FairSpec
CONSTANTS
  Devices = {"phone", "kiosk"}
  Bookings = {n1}
  Null = Null
  MaxCalls = 2
INVARIANT SuccessIsReal
PROPERTY ControlsComeBack
CHECK_DEADLOCK FALSE
