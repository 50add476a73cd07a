SPECIFICATION Spec
CONSTANTS
  Requests = {r1}
  Rooms = {"A", "B"}
  TypeOf <- MCTypeOf
  LastDay = 3
  MaxReservations = 2
  Scenes <- DeskAndHouse
  DeskStatuses = {"VACANT_CLEAN", "VACANT_DIRTY"}
  EditStatuses = {"OUT_OF_ORDER", "VACANT_DIRTY"}
  GuestRequests = {"DND"}
  Blocks = {b1}
  NoBlock = NoBlock
  BlockChanges <- MCBlockChanges
INVARIANTS RoomBookedOnce StaysTileTheBooking OffersAreBookable AllotmentHeld
PROPERTIES RoomsAreReadied
CHECK_DEADLOCK FALSE
