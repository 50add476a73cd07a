SPECIFICATION Spec
CONSTANTS
  Requests = {r1}
  Rooms = {"A", "B"}
  TypeOf <- MCTypeOf
  LastDay = 3
  MaxReservations = 2
  Scenes <- DeskOnly
  DeskStatuses = {"VACANT_CLEAN", "VACANT_DIRTY"}
  EditStatuses = {"OUT_OF_ORDER"}
  GuestRequests = {"DND"}
  Blocks = {b1}
  NoBlock = NoBlock
  BlockChanges <- MCBlockChanges
INVARIANTS ChosenRoomIsAssigned
CHECK_DEADLOCK FALSE
