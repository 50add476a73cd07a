---------------------------- MODULE FrontOffice ----------------------------
(***************************************************************************)
(* Reservations, the rooms they hold, housekeeping, and group blocks.      *)
(* ReservationsService writes the status of rooms that RoomsService and    *)
(* housekeeping write too, and blocks count reservations. As everywhere in *)
(* the API, a handler checks what it has read and writes later: req[r]     *)
(* carries what a call has read. The queries one call makes in a row with  *)
(* nothing written between them are one step.                              *)
(***************************************************************************)
EXTENDS Integers, Sequences, FiniteSets

CONSTANTS
    Requests,            \* concurrent API calls
    Rooms,
    TypeOf,              \* Room.roomTypeId
    LastDay,             \* bound: calendar days 1..LastDay
    MaxReservations,     \* bound: rows of Reservation
    Scenes,              \* the inputs and bounds of a behaviour:
                         \*   rooms     the rooms there are to begin with
                         \*   kept      those the desk and housekeeping work on
                         \*   last      how far the business date goes
                         \*   bookings  what reservations are created with
                         \*   changes   what updates carry: the fields given
                         \*   terms     what blocks are created with
    DeskStatuses,        \* what updateStatus is called with
    EditStatuses,        \* the status a room is created or edited with
    GuestRequests,       \* NONE, DND, MUR
    Blocks, NoBlock,
    BlockChanges         \* what block updates carry

VARIABLES
    today,               \* Property.businessDate
    reservation,         \* Reservation rows, with their stays
    room,                \* Room rows
    block,               \* RoomBlock rows
    req,                 \* handlers in flight
    scene                \* one of Scenes, for good

vars == <<today, reservation, room, block, req>>

-----------------------------------------------------------------------------
Days == 1..LastDay
INACTIVE_STATUSES == {"CANCELLED", "NO_SHOW"}
BLOCK_INACTIVE_STATUSES == {"CANCELLED", "NO_SHOW", "WALKED", "TENTATIVE"}

DIRTY_STATUSES == {"VACANT_DIRTY", "OCCUPIED_DIRTY"}
CLEAN_STATUSES == {"VACANT_CLEAN", "OCCUPIED_CLEAN"}
OCCUPIED_STATUSES == {"OCCUPIED_CLEAN", "OCCUPIED_DIRTY"}
CLOSED_STATUSES == {"OUT_OF_ORDER", "OUT_OF_SERVICE"}
RoomStatus == DIRTY_STATUSES \cup CLEAN_STATUSES \cup CLOSED_STATUSES

ReservationStatus == {"TENTATIVE", "CONFIRMED", "CHECKED_IN", "CHECKED_OUT", "CANCELLED",
                      "NO_SHOW", "WALKED"}

\* The fields of a reservation that a call may give. A split stay is a
\* sequence of segments.
Segment == [room : Rooms, from : Int, to : Int]
Fields == [status |-> ReservationStatus, roomId |-> Rooms, checkIn |-> Int, checkOut |-> Int,
           isDayUse |-> BOOLEAN, isRoomLocked |-> BOOLEAN, stays |-> Seq(Segment)]
GivesFields(dto) == \A f \in DOMAIN dto : f \in DOMAIN Fields /\ dto[f] \in Fields[f]

ASSUME FrontOfficeAssumption ==
    /\ LastDay \in Nat /\ MaxReservations \in Nat
    /\ \A s \in Scenes :
        /\ s.last \in 1..LastDay /\ s.kept \cup s.rooms \subseteq Rooms
        /\ \A dto \in s.bookings : GivesFields(dto) /\ DOMAIN dto = DOMAIN Fields
        /\ \A c \in s.changes : GivesFields(c)
        /\ \A t \in s.terms : /\ DOMAIN t = {"type", "from", "to", "cutoff", "allotted"}
                              /\ t.allotted \in Nat
    /\ \A c \in BlockChanges : /\ DOMAIN c \subseteq {"status", "cutoff", "allotted"}
                               /\ "allotted" \in DOMAIN c => c.allotted \in Nat
    /\ DOMAIN TypeOf = Rooms
    /\ NoBlock \notin Blocks
    /\ DeskStatuses \subseteq RoomStatus /\ EditStatuses \subseteq RoomStatus

Idle == [op |-> "idle"]
NoRoom == [status |-> "NONE", hkStage |-> "READY", guestRequest |-> "NONE"]
Unsold == [status |-> "NONE", type |-> "", from |-> 0, to |-> 0, cutoff |-> 0,
           allotted |-> 0, released |-> 0]

Listed == {m \in Rooms : room[m].status # "NONE"}
Booked == DOMAIN reservation

Init ==
    /\ today = 1
    /\ reservation = <<>>
    /\ scene \in Scenes
    /\ room = [m \in Rooms |-> IF m \in scene.rooms
                              THEN [NoRoom EXCEPT !.status = "VACANT_CLEAN"] ELSE NoRoom]
    /\ block = [b \in Blocks |-> Unsold]
    /\ req = [r \in Requests |-> Idle]

-----------------------------------------------------------------------------
(* reservation-stay.util.ts *)

IsActive(status) == status \notin INACTIVE_STATUSES

OccupancyEnd(from, to, dayUse) == IF dayUse /\ from = to THEN from + 1 ELSE to

StayDatesOk(from, to, dayUse) == IF dayUse THEN from = to ELSE from < to

SplitStayOk(from, to, dayUse, header, stays) ==
    stays # <<>> =>
        /\ ~dayUse
        /\ Len(stays) >= 2
        /\ Cardinality({TypeOf[stays[n].room] : n \in DOMAIN stays}) >= 2
        /\ stays[1].room = header /\ stays[1].from = from /\ stays[Len(stays)].to = to
        /\ \A n \in DOMAIN stays : stays[n].from < stays[n].to
        /\ \A n \in 2..Len(stays) : /\ stays[n-1].to = stays[n].from
                                    /\ stays[n-1].room # stays[n].room

\* What a stay asks for: its segments, or the header's room and dates.
Windows(header, from, to, dayUse, stays) ==
    IF stays = <<>> THEN {[room |-> header, from |-> from, to |-> to, dayUse |-> dayUse]}
    ELSE {[room |-> stays[n].room, from |-> stays[n].from, to |-> stays[n].to,
           dayUse |-> FALSE] : n \in DOMAIN stays}

WindowsOf(i) == LET s == reservation[i] IN
    Windows(s.roomId, s.checkIn, s.checkOut, s.isDayUse, s.stays)

HeaderConflict(w, i) ==
    LET s == reservation[i]
        end == OccupancyEnd(w.from, w.to, w.dayUse)
    IN  /\ s.roomId = w.room /\ s.stays = <<>> /\ IsActive(s.status)
        /\ IF s.isDayUse THEN w.from <= s.checkIn /\ s.checkIn < end
                         ELSE s.checkIn < end /\ s.checkOut > w.from

\* The segment query takes the dates as given, a day use's too.
SegmentConflict(w, i) ==
    /\ IsActive(reservation[i].status)
    /\ \E n \in DOMAIN reservation[i].stays :
        LET stay == reservation[i].stays[n] IN
            stay.room = w.room /\ stay.from < w.to /\ stay.to > w.from

\* assertRoomsAvailable: `except` is the reservation being changed, or 0.
RoomsAvailable(windows, except) ==
    \A w \in windows : \A i \in Booked \ {except} :
        ~HeaderConflict(w, i) /\ ~SegmentConflict(w, i)

\* Mutant: the segments of split stays are not asked for.
AvailableByHeader(from, to) ==
    {m \in Listed : \A i \in Booked : LET s == reservation[i] IN
        ~(/\ IsActive(s.status) /\ s.stays = <<>> /\ s.roomId = m
          /\ s.checkIn < to /\ s.checkOut > from)}

\* RoomsService.getAvailability, by room: it does not ask about day use.
Available(from, to) ==
    {m \in Listed : \A i \in Booked : LET s == reservation[i] IN
        IsActive(s.status) =>
            /\ ~(s.stays = <<>> /\ s.roomId = m /\ s.checkIn < to /\ s.checkOut > from)
            /\ \A n \in DOMAIN s.stays :
                ~(s.stays[n].room = m /\ s.stays[n].from < to /\ s.stays[n].to > from)}

-----------------------------------------------------------------------------
Begin(r, h) == req[r] = Idle /\ req' = [req EXCEPT ![r] = h]
Continue(r, h) == req' = [req EXCEPT ![r] = h]
End(r) == req' = [req EXCEPT ![r] = Idle]

\* A write gives some columns of a row and leaves the others.
Over(given, row) ==
    [f \in DOMAIN given \cup DOMAIN row |-> IF f \in DOMAIN given THEN given[f] ELSE row[f]]

\* The foreign keys of Reservation and ReservationStay.
RoomsExist(header, stays) == header \cup {stays[n].room : n \in DOMAIN stays} \subseteq Listed

SetStatus(i, s) == reservation' = [reservation EXCEPT ![i].status = s]

\* An await throws or the process dies: what was written stays written, and
\* nothing takes the call up again.
Fail(r) ==
    /\ req[r] # Idle
    /\ End(r)
    /\ UNCHANGED <<today, reservation, room, block>>

\* The night audit moves the date on.
NextDay ==
    /\ today < scene.last
    /\ today' = today + 1
    /\ UNCHANGED <<reservation, room, block, req>>

-----------------------------------------------------------------------------
(* create: the guest's totals, which are written after the row and outside *)
(* any transaction, are left out; no handler reads them. The clock's date, *)
(* which create and moveRoom look at, and the business date are one here.  *)

BookCheck(r, dto) ==
    /\ dto.isRoomLocked => dto.stays = <<>>
    /\ StayDatesOk(dto.checkIn, dto.checkOut, dto.isDayUse)
    /\ dto.checkIn >= today
    /\ RoomsExist({dto.roomId}, dto.stays)
    /\ SplitStayOk(dto.checkIn, dto.checkOut, dto.isDayUse, dto.roomId, dto.stays)
    /\ RoomsAvailable(Windows(dto.roomId, dto.checkIn, dto.checkOut, dto.isDayUse, dto.stays), 0)
    /\ Begin(r, [op |-> "book", dto |-> dto])
    /\ UNCHANGED <<today, reservation, room, block>>

BookInsert(r) ==
    /\ req[r].op = "book"
    /\ Len(reservation) < MaxReservations
    /\ RoomsExist({req[r].dto.roomId}, req[r].dto.stays)
    /\ reservation' = Append(reservation, Over(req[r].dto, [block |-> NoBlock]))
    /\ End(r)
    /\ UNCHANGED <<today, room, block>>

-----------------------------------------------------------------------------
(* update: `c` holds the fields the caller gives. Everything else of the   *)
(* row is taken from the row read, for the checks and for isDayUse.        *)

StayDatesChanged(c) == DOMAIN c \cap {"checkIn", "checkOut", "isDayUse", "roomId"} # {}
Given(c, field, row) == IF field \in DOMAIN c THEN c[field] ELSE row[field]

RoomChanging(row, c) ==
    \/ "roomId" \in DOMAIN c /\ c.roomId # row.roomId
    \/ /\ "stays" \in DOMAIN c /\ c.stays # <<>>
       /\ \/ Len(c.stays) # Len(row.stays)
          \/ \E n \in DOMAIN c.stays : c.stays[n].room # row.stays[n].room

\* What is written. The room given is left out of the scalar fields and put
\* back only with segments, so a room alone is checked and not written.
UpdateData(row, c) ==
    LET scalar == [f \in DOMAIN c \ {"roomId"} |-> c[f]]
        dayUse == IF StayDatesChanged(c) THEN [isDayUse |-> Given(c, "isDayUse", row)] ELSE <<>>
        header == IF "stays" \in DOMAIN c /\ c.stays # <<>>
                  THEN [roomId |-> c.stays[1].room] ELSE <<>>
    IN  Over(dayUse, Over(header, scalar))

\* Mutant: a split stay's dates are changed without its segments.
StaysGoWithDates(row, c) == TRUE

\* SPLIT_DATE_PATCH_ERROR
SegmentsFollow(row, c) == "stays" \in DOMAIN c \/ row.stays = <<>> \/ ~StayDatesChanged(c)

ChangeAllowed(i, c) ==
    LET row == reservation[i]
        from == Given(c, "checkIn", row)
        to == Given(c, "checkOut", row)
        dayUse == Given(c, "isDayUse", row)
        locked == Given(c, "isRoomLocked", row)
        stays == Given(c, "stays", row)
        drafts == IF "stays" \in DOMAIN c THEN c.stays ELSE <<>>
        header == IF drafts # <<>> THEN drafts[1].room ELSE Given(c, "roomId", row)
    IN  /\ SegmentsFollow(row, c)
        /\ RoomsExist({}, drafts)
        /\ SplitStayOk(from, to, dayUse, header, drafts)
        /\ locked => stays = <<>>
        /\ StayDatesChanged(c) => StayDatesOk(from, to, dayUse)
        /\ locked => ~RoomChanging(row, c)
        /\ (StayDatesChanged(c) \/ "stays" \in DOMAIN c)
            => RoomsAvailable(Windows(header, from, to, dayUse, drafts), i)

UpdateRead(r, i, c) ==
    /\ ChangeAllowed(i, c)
    /\ Begin(r, [op |-> "update", id |-> i, data |-> UpdateData(reservation[i], c)])
    /\ UNCHANGED <<today, reservation, room, block>>

UpdateWrite(r) ==
    /\ req[r].op = "update"
    /\ "stays" \in DOMAIN req[r].data => RoomsExist({}, req[r].data.stays)
    /\ reservation' = [reservation EXCEPT ![req[r].id] = Over(req[r].data, @)]
    /\ End(r)
    /\ UNCHANGED <<today, room, block>>

\* MobileCheckInService.selectRoom: looks the reservation up, delegates to
\* update, and shows the guest the row it gets back.
SelectRead(r, i, m) ==
    /\ reservation[i].status = "CONFIRMED"
    /\ Begin(r, [op |-> "select", id |-> i, roomId |-> m])
    /\ UNCHANGED <<today, reservation, room, block>>

SelectUpdate(r) ==
    /\ req[r].op = "select"
    /\ LET i == req[r].id
           c == [roomId |-> req[r].roomId]
       IN  /\ ChangeAllowed(i, c)
           /\ Continue(r, [op |-> "selectWrite", id |-> i, roomId |-> req[r].roomId,
                           data |-> UpdateData(reservation[i], c)])
    /\ UNCHANGED <<today, reservation, room, block>>

SelectWrite(r) ==
    /\ req[r].op = "selectWrite"
    /\ reservation' = [reservation EXCEPT ![req[r].id] = Over(req[r].data, @)]
    /\ Continue(r, [op |-> "selected", id |-> req[r].id, roomId |-> req[r].roomId])
    /\ UNCHANGED <<today, room, block>>

SelectAnswer(r) ==
    /\ req[r].op = "selected"
    /\ End(r)
    /\ UNCHANGED <<today, reservation, room, block>>

-----------------------------------------------------------------------------
(* cancel, markNoShow, walk *)

CancelRead(r, i) ==
    /\ reservation[i].status \notin {"CANCELLED", "CHECKED_OUT"}
    /\ Begin(r, [op |-> "cancel", id |-> i])
    /\ UNCHANGED <<today, reservation, room, block>>

CancelWrite(r) ==
    /\ req[r].op = "cancel"
    /\ SetStatus(req[r].id, "CANCELLED")
    /\ End(r)
    /\ UNCHANGED <<today, room, block>>

\* The date asked about is the caller's or the property's. Between the two
\* steps the folio is created and charged, which NightAudit models.
NoShowRead(r, i, asOf) ==
    /\ reservation[i].status = "CONFIRMED"
    /\ reservation[i].checkIn <= asOf
    /\ Begin(r, [op |-> "noShow", id |-> i])
    /\ UNCHANGED <<today, reservation, room, block>>

NoShowWrite(r) ==
    /\ req[r].op = "noShow"
    /\ SetStatus(req[r].id, "NO_SHOW")
    /\ End(r)
    /\ UNCHANGED <<today, room, block>>

WalkRead(r, i) ==
    /\ reservation[i].status = "CONFIRMED"
    /\ Begin(r, [op |-> "walk", id |-> i])
    /\ UNCHANGED <<today, reservation, room, block>>

WalkWrite(r) ==
    /\ req[r].op = "walk"
    /\ SetStatus(req[r].id, "WALKED")
    /\ End(r)
    /\ UNCHANGED <<today, room, block>>

-----------------------------------------------------------------------------
(* hk-rules.ts *)

\* Mutant: the stage is left to housekeeping.
StageKept(next, stage) == stage

HkStageForStatusChange(next, stage) ==
    IF next \in DIRTY_STATUSES THEN "DIRTY"
    ELSE IF next \in CLEAN_STATUSES /\ stage = "DIRTY" THEN "CLEAN"
    ELSE stage

ToCleanRoomStatus(status) ==
    IF status \in OCCUPIED_STATUSES THEN "OCCUPIED_CLEAN" ELSE "VACANT_CLEAN"
ToDirtyRoomStatus(status) ==
    IF status \in OCCUPIED_STATUSES THEN "OCCUPIED_DIRTY" ELSE "VACANT_DIRTY"

SetRoom(m, status, stage) ==
    room' = [room EXCEPT ![m].status = status, ![m].hkStage = stage]

-----------------------------------------------------------------------------
(* checkIn, checkOut: the status and the room are two writes outside any   *)
(* transaction; the room is the one of the row read first. The folio that  *)
(* checkIn then creates is in NightAudit.                                  *)

CheckInRead(r, i) ==
    /\ reservation[i].status = "CONFIRMED"
    /\ Begin(r, [op |-> "checkIn", id |-> i, roomId |-> reservation[i].roomId,
                 stage |-> room[reservation[i].roomId].hkStage])
    /\ UNCHANGED <<today, reservation, room, block>>

CheckInWrite(r) ==
    /\ req[r].op = "checkIn"
    /\ SetStatus(req[r].id, "CHECKED_IN")
    /\ req' = [req EXCEPT ![r].op = "checkInRoom"]
    /\ UNCHANGED <<today, room, block>>

CheckInRoom(r) ==
    /\ req[r].op = "checkInRoom"
    /\ SetRoom(req[r].roomId, "OCCUPIED_CLEAN",
               HkStageForStatusChange("OCCUPIED_CLEAN", req[r].stage))
    /\ End(r)
    /\ UNCHANGED <<today, reservation, block>>

CheckOutRead(r, i) ==
    /\ reservation[i].status = "CHECKED_IN"
    /\ Begin(r, [op |-> "checkOut", id |-> i, roomId |-> reservation[i].roomId])
    /\ UNCHANGED <<today, reservation, room, block>>

CheckOutWrite(r) ==
    /\ req[r].op = "checkOut"
    /\ SetStatus(req[r].id, "CHECKED_OUT")
    /\ req' = [req EXCEPT ![r].op = "checkOutRoom"]
    /\ UNCHANGED <<today, room, block>>

CheckOutRoom(r) ==
    /\ req[r].op = "checkOutRoom"
    /\ room' = [room EXCEPT ![req[r].roomId] =
                    [status |-> "VACANT_DIRTY", hkStage |-> "DIRTY", guestRequest |-> "NONE"]]
    /\ End(r)
    /\ UNCHANGED <<today, reservation, block>>

-----------------------------------------------------------------------------
(* moveRoom: a split stay moves in the segment of today, else the first in *)
(* the header's room, else the first.                                      *)

SegmentToMove(s) ==
    LET first(ns) == CHOOSE n \in ns : \A k \in ns : n <= k
        covering == {n \in DOMAIN s.stays : s.stays[n].from <= today /\ today < s.stays[n].to}
        matching == {n \in DOMAIN s.stays : s.stays[n].room = s.roomId}
    IN  CASE s.stays = <<>> -> 0
          [] covering # {} -> first(covering)
          [] covering = {} /\ matching # {} -> first(matching)
          [] OTHER -> 1

MoveWindow(s, to) ==
    LET n == SegmentToMove(s) IN
        IF n = 0 THEN [room |-> to, from |-> s.checkIn, to |-> s.checkOut, dayUse |-> s.isDayUse]
        ELSE [room |-> to, from |-> s.stays[n].from, to |-> s.stays[n].to, dayUse |-> FALSE]

\* Mutant: the target only has to be vacant, whoever has booked it.
MoveReadVacant(r, i, to) ==
    /\ ~reservation[i].isRoomLocked
    /\ reservation[i].status = "CHECKED_IN"
    /\ to \in Listed \ {reservation[i].roomId}
    /\ room[to].status \notin OCCUPIED_STATUSES \cup CLOSED_STATUSES
    /\ Begin(r, [op |-> "move", id |-> i, from |-> reservation[i].roomId, to |-> to,
                 segment |-> SegmentToMove(reservation[i]),
                 status |-> room[to].status, stage |-> room[to].hkStage])
    /\ UNCHANGED <<today, reservation, room, block>>

MoveRead(r, i, to) ==
    /\ ~reservation[i].isRoomLocked
    /\ reservation[i].status = "CHECKED_IN"
    /\ to \in Listed \ {reservation[i].roomId}
    /\ room[to].status \notin OCCUPIED_STATUSES \cup CLOSED_STATUSES
    /\ RoomsAvailable({MoveWindow(reservation[i], to)}, i)
    /\ Begin(r, [op |-> "move", id |-> i, from |-> reservation[i].roomId, to |-> to,
                 segment |-> SegmentToMove(reservation[i]),
                 status |-> room[to].status, stage |-> room[to].hkStage])
    /\ UNCHANGED <<today, reservation, room, block>>

OccupiedStatusForVacant(status) ==
    IF status = "VACANT_DIRTY" THEN "OCCUPIED_DIRTY" ELSE "OCCUPIED_CLEAN"

MoveWrite(r) ==
    /\ req[r].op = "move"
    /\ LET q == req[r]
           status == OccupiedStatusForVacant(q.status)
       IN  /\ room' = [room EXCEPT
                ![q.from].status = "VACANT_DIRTY", ![q.from].hkStage = "DIRTY",
                ![q.to].status = status, ![q.to].hkStage = HkStageForStatusChange(status, q.stage)]
           /\ reservation' = [reservation EXCEPT
                ![q.id].roomId = q.to,
                ![q.id].stays = [n \in DOMAIN @ |->
                    IF n = q.segment THEN [@[n] EXCEPT !.room = q.to] ELSE @[n]]]
    /\ End(r)
    /\ UNCHANGED <<today, block>>

-----------------------------------------------------------------------------
(* RoomsService *)

CreateRoom(r, m, status) ==
    /\ req[r] = Idle
    /\ m \notin Listed
    /\ room' = [room EXCEPT ![m] = [NoRoom EXCEPT !.status = status]]
    /\ UNCHANGED <<today, reservation, block, req>>

\* The whole dto, and the stage is not touched.
EditRoom(r, m, status) ==
    /\ req[r] = Idle
    /\ m \in Listed
    /\ room' = [room EXCEPT ![m].status = status]
    /\ UNCHANGED <<today, reservation, block, req>>

UpdateStatusRead(r, m, status) ==
    /\ m \in Listed
    /\ Begin(r, [op |-> "updateStatus", room |-> m, status |-> status, stage |-> room[m].hkStage])
    /\ UNCHANGED <<today, reservation, room, block>>

UpdateStatusWrite(r) ==
    /\ req[r].op = "updateStatus"
    /\ req[r].room \in Listed
    /\ SetRoom(req[r].room, req[r].status, HkStageForStatusChange(req[r].status, req[r].stage))
    /\ End(r)
    /\ UNCHANGED <<today, reservation, block>>

\* The counts look at CONFIRMED and CHECKED_IN only; the foreign keys of
\* Reservation and ReservationStay refuse a room that any row still names.
References(s, m) == s.roomId = m \/ \E n \in DOMAIN s.stays : s.stays[n].room = m
RemoveRoom(r, m) ==
    /\ req[r] = Idle
    /\ m \in Listed
    /\ \A i \in Booked : ~References(reservation[i], m)
    /\ room' = [room EXCEPT ![m] = NoRoom]
    /\ UNCHANGED <<today, reservation, block, req>>

-----------------------------------------------------------------------------
(* hk-ops.ts *)

MarkCleanRead(r, m) ==
    /\ m \in Listed
    /\ room[m].status \notin CLOSED_STATUSES
    /\ room[m].guestRequest # "DND"
    /\ room[m].hkStage = "DIRTY"
    /\ Begin(r, [op |-> "markClean", room |-> m, status |-> room[m].status])
    /\ UNCHANGED <<today, reservation, room, block>>

MarkCleanWrite(r) ==
    /\ req[r].op = "markClean"
    /\ req[r].room \in Listed
    /\ SetRoom(req[r].room, ToCleanRoomStatus(req[r].status), "CLEAN")
    /\ End(r)
    /\ UNCHANGED <<today, reservation, block>>

SetGuestRequest(r, m, request) ==
    /\ req[r] = Idle
    /\ m \in Listed
    /\ room[m].status \in CLOSED_STATUSES => request = "NONE"
    /\ room' = [room EXCEPT ![m].guestRequest = request]
    /\ UNCHANGED <<today, reservation, block, req>>

InspectRead(r, m, passed) ==
    /\ m \in Listed
    /\ room[m].status \notin CLOSED_STATUSES
    /\ room[m].hkStage = "CLEAN"
    /\ Begin(r, [op |-> "inspect", room |-> m, passed |-> passed, status |-> room[m].status])
    /\ UNCHANGED <<today, reservation, room, block>>

InspectWrite(r) ==
    /\ req[r].op = "inspect"
    /\ req[r].room \in Listed
    /\ IF req[r].passed
       THEN room' = [room EXCEPT ![req[r].room].hkStage = "READY"]
       ELSE SetRoom(req[r].room, ToDirtyRoomStatus(req[r].status), "DIRTY")
    /\ End(r)
    /\ UNCHANGED <<today, reservation, block>>

-----------------------------------------------------------------------------
(* Blocks *)

OnBlock(b) == {i \in Booked : reservation[i].block = b}
Pickup(b) == {i \in OnBlock(b) : reservation[i].status \notin BLOCK_INACTIVE_STATUSES}
RemainingRooms(b, count) ==
    LET n == block[b].allotted - block[b].released - count IN IF n > 0 THEN n ELSE 0

BlockDatesOk(from, to, cutoff) == from < to /\ cutoff <= to

CreateBlock(r, b, terms) ==
    /\ req[r] = Idle
    /\ block[b] = Unsold
    /\ BlockDatesOk(terms.from, terms.to, terms.cutoff)
    /\ block' = [block EXCEPT ![b] = Over([status |-> "OPEN", released |-> 0], terms)]
    /\ UNCHANGED <<today, reservation, room, req>>

IsDue(b) == block[b].status = "OPEN" /\ block[b].cutoff <= today

\* findBlock: a block read after its cutoff is released by reading it. Every
\* call on a block starts with it, so the calls below see no due block.
FindBlock(r, b) ==
    /\ req[r] = Idle
    /\ IsDue(b)
    /\ block' = [block EXCEPT ![b].status = "RELEASED",
                    ![b].released = @ + RemainingRooms(b, Cardinality(Pickup(b)))]
    /\ UNCHANGED <<today, reservation, room, req>>

UpdateBlock(r, b, c) ==
    /\ req[r] = Idle
    /\ block[b] # Unsold /\ ~IsDue(b)
    /\ "cutoff" \in DOMAIN c => BlockDatesOk(block[b].from, block[b].to, c.cutoff)
    /\ block' = [block EXCEPT ![b] = Over(c, @)]
    /\ UNCHANGED <<today, reservation, room, req>>

\* Mutant: what the block's reservations have picked up is not counted.
AttachAnyway(r, b, i) ==
    /\ block[b].status = "OPEN" /\ ~IsDue(b)
    /\ reservation[i].block \in {NoBlock, b}
    /\ TypeOf[reservation[i].roomId] = block[b].type
    /\ LET end == OccupancyEnd(reservation[i].checkIn, reservation[i].checkOut,
                               reservation[i].isDayUse)
       IN  reservation[i].checkIn < block[b].to /\ block[b].from < end
    /\ RemainingRooms(b, 0) >= 1
    /\ Begin(r, [op |-> "attach", id |-> i, block |-> b])
    /\ UNCHANGED <<today, reservation, room, block>>

AttachRead(r, b, i) ==
    /\ block[b].status = "OPEN" /\ ~IsDue(b)
    /\ reservation[i].block \in {NoBlock, b}
    /\ TypeOf[reservation[i].roomId] = block[b].type
    /\ LET end == OccupancyEnd(reservation[i].checkIn, reservation[i].checkOut,
                               reservation[i].isDayUse)
       IN  reservation[i].checkIn < block[b].to /\ block[b].from < end
    /\ \/ reservation[i].block = b
       \/ RemainingRooms(b, Cardinality(Pickup(b) \ {i})) >= 1
    /\ Begin(r, [op |-> "attach", id |-> i, block |-> b])
    /\ UNCHANGED <<today, reservation, room, block>>

AttachWrite(r) ==
    /\ req[r].op = "attach"
    /\ reservation' = [reservation EXCEPT ![req[r].id].block = req[r].block]
    /\ End(r)
    /\ UNCHANGED <<today, room, block>>

DetachRead(r, b, i) ==
    /\ block[b] # Unsold /\ ~IsDue(b)
    /\ reservation[i].block = b
    /\ Begin(r, [op |-> "detach", id |-> i])
    /\ UNCHANGED <<today, reservation, room, block>>

DetachWrite(r) ==
    /\ req[r].op = "detach"
    /\ reservation' = [reservation EXCEPT ![req[r].id].block = NoBlock]
    /\ End(r)
    /\ UNCHANGED <<today, room, block>>

ReleaseRead(r, b) ==
    /\ block[b].status = "OPEN" /\ ~IsDue(b)
    /\ Begin(r, [op |-> "release", block |-> b, released |->
                 block[b].released + RemainingRooms(b, Cardinality(Pickup(b)))])
    /\ UNCHANGED <<today, reservation, room, block>>

ReleaseWrite(r) ==
    /\ req[r].op = "release"
    /\ block' = [block EXCEPT ![req[r].block].status = "RELEASED",
                              ![req[r].block].released = req[r].released]
    /\ End(r)
    /\ UNCHANGED <<today, reservation, room>>

-----------------------------------------------------------------------------
ReservationNext(r) ==
    \/ \E dto \in scene.bookings : BookCheck(r, dto)
    \/ BookInsert(r)
    \/ \E i \in Booked :
        \/ \E c \in scene.changes : UpdateRead(r, i, c)
        \/ \E m \in Rooms : SelectRead(r, i, m)
        \/ CancelRead(r, i) \/ WalkRead(r, i)
        \/ \E asOf \in Days : NoShowRead(r, i, asOf)
        \/ CheckInRead(r, i) \/ CheckOutRead(r, i)
        \/ \E to \in Rooms : MoveRead(r, i, to)
    \/ UpdateWrite(r) \/ SelectUpdate(r) \/ SelectWrite(r) \/ SelectAnswer(r)
    \/ CancelWrite(r) \/ WalkWrite(r)
    \/ NoShowWrite(r) \/ CheckInWrite(r) \/ CheckInRoom(r)
    \/ CheckOutWrite(r) \/ CheckOutRoom(r) \/ MoveWrite(r)

RoomNext(r) ==
    \/ \E m \in scene.kept :
        \/ \E s \in DeskStatuses : UpdateStatusRead(r, m, s)
        \/ \E s \in EditStatuses : CreateRoom(r, m, s) \/ EditRoom(r, m, s)
        \/ RemoveRoom(r, m)
        \/ MarkCleanRead(r, m)
        \/ \E q \in GuestRequests : SetGuestRequest(r, m, q)
        \/ \E passed \in BOOLEAN : InspectRead(r, m, passed)
    \/ UpdateStatusWrite(r) \/ MarkCleanWrite(r) \/ InspectWrite(r)

BlockNext(r) ==
    \/ \E b \in Blocks :
        \/ \E terms \in scene.terms : CreateBlock(r, b, terms)
        \/ \E c \in BlockChanges : UpdateBlock(r, b, c)
        \/ FindBlock(r, b) \/ ReleaseRead(r, b)
        \/ \E i \in Booked : AttachRead(r, b, i) \/ DetachRead(r, b, i)
    \/ AttachWrite(r) \/ DetachWrite(r) \/ ReleaseWrite(r)

Next ==
    \/ NextDay
    \/ \E r \in Requests : ReservationNext(r) \/ RoomNext(r) \/ BlockNext(r) \/ Fail(r)

Spec == Init /\ [][Next /\ UNCHANGED scene]_<<vars, scene>>

-----------------------------------------------------------------------------
(* What the properties ask of the callers *)

OneAtATime == \A p, q \in Requests : p = q

\* An update that gives another room gives the segments with it, or no dates:
\* the room is asked for with the dates given and not written (UpdateData), so
\* that the dates would go to the room the reservation has.
RoomFits(c) == "roomId" \in DOMAIN c =>
    \/ "stays" \in DOMAIN c /\ c.stays # <<>>
    \/ DOMAIN c \cap {"checkIn", "checkOut", "isDayUse", "stays"} = {}
RoomGoesWithSegments == \A s \in Scenes : \A c \in s.changes : RoomFits(c)

-----------------------------------------------------------------------------
Nights(w) == w.from .. OccupancyEnd(w.from, w.to, w.dayUse) - 1
Share(v, w) == v.room = w.room /\ Nights(v) \cap Nights(w) # {}
Clash(i, j) == \E v \in WindowsOf(i), w \in WindowsOf(j) : Share(v, w)
Active == {i \in Booked : IsActive(reservation[i].status)}

\* reservations.service.spec.ts:558 'should reject a header-only create that
\* overlaps a stay segment': no room is ever booked twice for a night.
RoomNeverShared == \A i, j \in Active : i # j => ~Clash(i, j)

\* One call at a time, and day use apart from split stays (whose segments a
\* day use is not compared with): no room is booked twice for a night, while
\* RoomGoesWithSegments and no update brings a cancelled booking back.
RoomBookedOnce ==
    \A i, j \in Active :
        (i # j /\ Clash(i, j)) =>
            \E k \in {i, j} : reservation[k].isDayUse /\ reservation[i + j - k].stays # <<>>

\* One call at a time: the segments of a split stay follow one another from
\* arrival to departure whatever was updated or moved, so that each night is
\* charged in one of them.
StaysTileTheBooking ==
    \A i \in Booked : LET s == reservation[i] IN s.stays # <<>> =>
        /\ ~s.isDayUse /\ ~s.isRoomLocked
        /\ s.stays[1].from = s.checkIn /\ s.stays[Len(s.stays)].to = s.checkOut
        /\ \A n \in 2..Len(s.stays) : s.stays[n].from = s.stays[n-1].to

\* One call at a time: a room that getAvailability lists can be booked for
\* these nights, unless a day use of it is on the first (which it overlooks).
OffersAreBookable ==
    \A from, to \in Days : from < to =>
        \A m \in Available(from, to) :
            \/ RoomsAvailable(Windows(m, from, to, FALSE, <<>>), 0)
            \/ \E i \in Active : /\ reservation[i].isDayUse /\ reservation[i].roomId = m
                                 /\ reservation[i].checkIn = from

\* The order of housekeeping's stages, and what each presupposes of the room.
HousekeepingOrder(old, new) ==
    new.hkStage # old.hkStage =>
        \/ new.hkStage = "DIRTY" /\ new.status \in DIRTY_STATUSES
        \/ old.hkStage = "DIRTY" /\ new.hkStage = "CLEAN" /\ new.status \in CLEAN_STATUSES
        \/ old.hkStage = "CLEAN" /\ new.hkStage = "READY" /\ new.status \notin CLOSED_STATUSES
Dirtied(old, new) == new.status \in DIRTY_STATUSES \ {old.status}

\* One call at a time: a room becomes CLEAN only from DIRTY and READY only from
\* CLEAN, and whatever makes its status dirty (a desk's change, a check-out, a
\* move, a failed inspection) sends it back to the start of housekeeping. The
\* room form alone does not: its edit leaves the stage.
RoomsAreReadied ==
    [][\A m \in Listed : room'[m].status # "NONE" =>
        /\ HousekeepingOrder(room[m], room'[m])
        /\ Dirtied(room[m], room'[m]) /\ room'[m].hkStage # "DIRTY" =>
            \E r \in Requests : EditRoom(r, m, room'[m].status)]_vars

\* docs/adr/005: "pickup cannot exceed remaining rooms", one call at a time, while
\* no allotment is cut below what is sold and no update revives a reservation.
AllotmentHeld ==
    \A b \in Blocks : Cardinality(Pickup(b)) <= block[b].allotted - block[b].released

\* docs/adr/022:53 "Room change delegates to ReservationsService.update(id,
\* { roomId })": after the guest has chosen a room, the reservation has it.
ChosenRoomIsAssigned ==
    \A r \in Requests : req[r].op = "selected" => reservation[req[r].id].roomId = req[r].roomId
=============================================================================
