---------------------------- MODULE BookingWizard ----------------------------
(***************************************************************************)
(* The four steps in which a clerk makes a reservation. The options of the *)
(* stay exclude one another; nothing checks them when the reservation is   *)
(* sent, so each control must leave the others right whatever was pressed  *)
(* before, going back included, while the answer about free rooms may come *)
(* at any step. What is sent is held against the checks of the API.        *)
(***************************************************************************)
EXTENDS Integers, FiniteSets

CONSTANTS
    Properties, NoProperty,
    Rooms, NoRoom,
    PropertyOf,         \* Room.propertyId
    TypeOf,             \* Room.roomTypeId
    RateOf,             \* Room.roomType.baseRate
    Purposes,           \* StayPurpose
    CycleDays,          \* nights in a WEEKLY or MONTHLY cycle, the same in both copies
    Lists,              \* sets of rooms that an answer may hold
    LastDay,            \* bound: days a guest arrives
    MaxLoads            \* bound: answers about rooms on their way

VARIABLES
    step,               \* currentStep
    form,               \* the fields of the first step
    offered,            \* availableRooms
    room, second,       \* selectedRoom, secondRoom
    loads,              \* how many lists of rooms were asked for, by property
    submitting          \* a reservation is on its way

wizardVars == <<step, form, offered, room, second, loads, submitting>>

-----------------------------------------------------------------------------
Blank == 0              \* an empty date field
Days == 1..LastDay
Dates == 0..(LastDay + 1)
Cycles == {"NIGHTLY", "EXTENDED"}

ASSUME WizardAssumption ==
    /\ LastDay \in Nat /\ CycleDays \in Nat \ {0} /\ MaxLoads \in Nat
    /\ NoProperty \notin Properties /\ NoRoom \notin Rooms
    /\ PropertyOf \in [Rooms -> Properties]
    /\ RateOf \in [Rooms -> Nat]
    /\ Lists \subseteq SUBSET Rooms
    /\ "STANDARD" \in Purposes

Forms == [property : Properties \cup {NoProperty}, checkIn : {Blank} \cup Days,
          checkOut : Dates,
          dayUse : BOOLEAN, cycle : Cycles, purpose : Purposes, locked : BOOLEAN,
          split : BOOLEAN, splitDate : Dates]

EmptyForm == [property |-> NoProperty, checkIn |-> Blank, checkOut |-> Blank,
              dayUse |-> FALSE, cycle |-> "NIGHTLY", purpose |-> "STANDARD",
              locked |-> FALSE, split |-> FALSE, splitDate |-> Blank]

Extended == form.cycle = "EXTENDED"
NonRevenue(purpose) == purpose # "STANDARD"

-----------------------------------------------------------------------------
(* What is sent, and what it costs *)

Segment(m, from, to) == [room |-> m, from |-> from, to |-> to, rate |-> RateOf[m]]

SplitStayPayload(f, m, s) ==
    <<Segment(m, f.checkIn, f.splitDate), Segment(s, f.splitDate, f.checkOut)>>

CalendarNights(from, to) == IF to > from THEN to - from ELSE 0

Ceil(n, d) == (n + d - 1) \div d

\* countBillingCycles, the web's copy: of an extended stay; the form counts a
\* day use's nights itself and does not pass it on.
CountBillingCycles(nights) == IF nights <= 0 THEN 0 ELSE Ceil(nights, CycleDays)

\* Mutant: a day use is billed by its nights.
RackTotalByNights(f, m, s) ==
    LET nights == f.checkOut - f.checkIn IN
    IF f.split
    THEN CalendarNights(f.checkIn, f.splitDate) * RateOf[m]
         + CalendarNights(f.splitDate, f.checkOut) * RateOf[s]
    ELSE IF f.cycle = "EXTENDED" THEN CountBillingCycles(nights) * RateOf[m]
    ELSE nights * RateOf[m]

\* A day use is billed as one night; a split stay by the rates of its rooms.
RackTotal(f, m, s) ==
    LET billed == IF f.dayUse THEN 1 ELSE f.checkOut - f.checkIn IN
    IF f.split
    THEN CalendarNights(f.checkIn, f.splitDate) * RateOf[m]
         + CalendarNights(f.splitDate, f.checkOut) * RateOf[s]
    ELSE IF f.cycle = "EXTENDED" THEN CountBillingCycles(billed) * RateOf[m]
    ELSE billed * RateOf[m]

TotalAmount(f, m, s) == IF NonRevenue(f.purpose) THEN 0 ELSE RackTotal(f, m, s)

Payload(f, m, s) ==
    [room |-> m, checkIn |-> f.checkIn, checkOut |-> f.checkOut, dayUse |-> f.dayUse,
     cycle |-> IF f.dayUse THEN "NIGHTLY" ELSE f.cycle,
     purpose |-> f.purpose, locked |-> f.locked,
     rate |-> IF NonRevenue(f.purpose) THEN 0 ELSE RateOf[m],
     total |-> TotalAmount(f, m, s),
     stays |-> IF f.split THEN SplitStayPayload(f, m, s) ELSE <<>>]

WizardInit ==
    /\ step = 1 /\ form = EmptyForm
    /\ offered = {} /\ room = NoRoom /\ second = NoRoom
    /\ loads = [p \in Properties |-> 0]
    /\ submitting = FALSE

-----------------------------------------------------------------------------
(* Step 1: the controls. A disabled control is a guard. *)

Fill(f) ==
    /\ step = 1
    /\ form' = f
    /\ UNCHANGED <<step, offered, room, loads, submitting>>

ClearSecondRoom == second' = NoRoom
KeepSecondRoom == second' = second

SelectProperty(p) == Fill([form EXCEPT !.property = p]) /\ KeepSecondRoom

\* A day use leaves the day it comes; another stay not before the next.
ChangeCheckIn(d) ==
    /\ Fill([form EXCEPT !.checkIn = d,
                         !.checkOut = IF form.dayUse THEN d
                                      ELSE IF @ # Blank /\ d >= @ THEN d + 1
                                      ELSE @])
    /\ KeepSecondRoom

ChangeCheckOut(d) ==
    /\ ~form.dayUse
    /\ Fill([form EXCEPT !.checkOut = d])
    /\ KeepSecondRoom

TickDayUse ==
    /\ ~form.dayUse
    /\ Fill([form EXCEPT !.dayUse = TRUE, !.split = FALSE, !.cycle = "NIGHTLY",
                         !.checkOut = IF form.checkIn # Blank THEN form.checkIn ELSE @])
    /\ ClearSecondRoom

UntickDayUse ==
    /\ form.dayUse
    /\ Fill([form EXCEPT !.dayUse = FALSE,
                         !.checkOut = IF form.checkIn # Blank /\ @ = form.checkIn
                                      THEN @ + 1 ELSE @])
    /\ KeepSecondRoom

SplitDisabled == form.dayUse \/ Extended \/ form.locked

TickSplitStay ==
    /\ ~form.split /\ ~SplitDisabled
    /\ Fill([form EXCEPT !.split = TRUE, !.dayUse = FALSE,
                         !.splitDate = IF /\ form.checkIn # Blank /\ form.checkOut # Blank
                                          /\ @ = Blank
                                          /\ form.checkIn + 1 < form.checkOut
                                       THEN form.checkIn + 1 ELSE @])
    /\ KeepSecondRoom

UntickSplitStay ==
    /\ form.split /\ ~SplitDisabled
    /\ Fill([form EXCEPT !.split = FALSE])
    /\ ClearSecondRoom

ChangeSplitDate(d) ==
    /\ form.split
    /\ Fill([form EXCEPT !.splitDate = d])
    /\ KeepSecondRoom

TickRoomLock ==
    /\ ~form.locked /\ ~form.split
    /\ Fill([form EXCEPT !.locked = TRUE, !.split = FALSE])
    /\ ClearSecondRoom

UntickRoomLock ==
    /\ form.locked /\ ~form.split
    /\ Fill([form EXCEPT !.locked = FALSE])
    /\ KeepSecondRoom

ChangeBillingCycle(c) ==
    /\ ~form.dayUse /\ ~form.split
    /\ IF c = "EXTENDED"
       THEN Fill([form EXCEPT !.cycle = c, !.dayUse = FALSE, !.split = FALSE]) /\ ClearSecondRoom
       ELSE Fill([form EXCEPT !.cycle = c]) /\ KeepSecondRoom

ChangeStayPurpose(p) == Fill([form EXCEPT !.purpose = p]) /\ KeepSecondRoom

-----------------------------------------------------------------------------
(* The steps. Next stays enabled while a list of rooms is loading. *)

Step1Next ==
    /\ step = 1
    /\ form.property # NoProperty /\ form.checkIn # Blank /\ form.checkOut # Blank
    /\ loads[form.property] < MaxLoads
    /\ loads' = [loads EXCEPT ![form.property] = @ + 1]
    /\ UNCHANGED <<step, form, offered, room, second, submitting>>

\* The answer is for the property of the call, whatever the form says now.
RoomsLoaded(p, rooms) ==
    /\ loads[p] > 0
    /\ \A m \in rooms : PropertyOf[m] = p
    /\ loads' = [loads EXCEPT ![p] = @ - 1]
    /\ offered' = rooms
    /\ step' = 2
    /\ UNCHANGED <<form, room, second, submitting>>

RoomsFailed(p) ==
    /\ loads[p] > 0
    /\ loads' = [loads EXCEPT ![p] = @ - 1]
    /\ UNCHANGED <<step, form, offered, room, second, submitting>>

SelectRoom(m) ==
    /\ step = 2
    /\ m \in offered
    /\ room' = m
    /\ UNCHANGED <<step, form, offered, second, loads, submitting>>

SelectSecondRoom(m) ==
    /\ step = 2 /\ form.split
    /\ m \in offered \ {room}
    /\ second' = m
    /\ UNCHANGED <<step, form, offered, room, loads, submitting>>

SplitDateInside(f) == f.splitDate # Blank /\ f.splitDate > f.checkIn /\ f.splitDate < f.checkOut

SplitReady ==
    /\ SplitDateInside(form)
    /\ second # NoRoom /\ second # room /\ TypeOf[second] # TypeOf[room]

\* Mutant: the split stay was checked on the first step only.
Step2NextUnchecked ==
    /\ step = 2
    /\ room # NoRoom
    /\ form.split => second # NoRoom
    /\ step' = 3
    /\ UNCHANGED <<form, offered, room, second, loads, submitting>>

Step2Next ==
    /\ step = 2
    /\ room # NoRoom
    /\ form.split => SplitReady
    /\ step' = 3
    /\ UNCHANGED <<form, offered, room, second, loads, submitting>>

\* With a guest selected, from a search or new.
Step3Next ==
    /\ step = 3
    /\ step' = 4
    /\ UNCHANGED <<form, offered, room, second, loads, submitting>>

Back ==
    /\ step > 1
    /\ step = 4 => ~submitting
    /\ step' = step - 1
    /\ UNCHANGED <<form, offered, room, second, loads, submitting>>

\* handleSubmit, with the required texts of the last step filled in: request is
\* sent.
Submit ==
    /\ step = 4
    /\ ~submitting
    /\ submitting' = TRUE
    /\ UNCHANGED <<step, form, offered, room, second, loads>>

SubmitFailed ==
    /\ submitting
    /\ submitting' = FALSE
    /\ UNCHANGED <<step, form, offered, room, second, loads>>

\* The reservation is made and its page is opened, or the clerk goes elsewhere.
Leave ==
    /\ step' = 1 /\ form' = EmptyForm
    /\ offered' = {} /\ room' = NoRoom /\ second' = NoRoom
    /\ loads' = [p \in Properties |-> 0]
    /\ submitting' = FALSE

FillIn ==
    \/ \E p \in Properties \cup {NoProperty} : SelectProperty(p)
    \/ \E d \in {Blank} \cup Days : ChangeCheckIn(d)
    \/ \E d \in Dates : ChangeCheckOut(d) \/ ChangeSplitDate(d)
    \/ TickDayUse \/ UntickDayUse
    \/ TickSplitStay \/ UntickSplitStay
    \/ TickRoomLock \/ UntickRoomLock
    \/ \E c \in Cycles : ChangeBillingCycle(c)
    \/ \E p \in Purposes : ChangeStayPurpose(p)

Proceed ==
    \/ Step1Next \/ Step2Next \/ Step3Next
    \/ \E p \in Properties : \/ \E rooms \in Lists : RoomsLoaded(p, rooms)
                             \/ RoomsFailed(p)
    \/ \E m \in Rooms : SelectRoom(m) \/ SelectSecondRoom(m)
    \/ Back \/ Submit \/ SubmitFailed

WizardNext == FillIn \/ Proceed \/ Leave

WizardSpec == WizardInit /\ [][WizardNext]_wizardVars

-----------------------------------------------------------------------------
(* What the API checks of a reservation before it looks at any row *)

BillingCycleCompatible(q) == q.cycle = "EXTENDED" => ~q.dayUse /\ q.stays = <<>>

RoomLockCompatible(q) == q.locked => q.stays = <<>>

StayDatesOK(q) == IF q.dayUse THEN q.checkIn = q.checkOut ELSE q.checkIn < q.checkOut

SplitStayOK(q) == q.stays # <<>> =>
    /\ ~q.dayUse
    /\ TypeOf[q.stays[1].room] # TypeOf[q.stays[2].room]
    /\ q.stays[1].room = q.room /\ q.stays[1].room # q.stays[2].room
    /\ q.stays[1].from = q.checkIn /\ q.stays[2].to = q.checkOut
    /\ q.stays[1].to = q.stays[2].from
    /\ \A i \in {1, 2} : q.stays[i].from < q.stays[i].to

\* countBillingCycles, the API's copy, which is told of a day use.
ApiCountBillingCycles(nights, dayUse) ==
    IF dayUse THEN 1 ELSE IF nights <= 0 THEN 0 ELSE Ceil(nights, CycleDays)

\* What the API charges when no total is sent with the reservation.
StayTotal(q) ==
    IF NonRevenue(q.purpose) THEN 0
    ELSE IF q.stays # <<>>
    THEN (q.stays[1].to - q.stays[1].from) * q.stays[1].rate
         + (q.stays[2].to - q.stays[2].from) * q.stays[2].rate
    ELSE IF q.cycle = "EXTENDED" THEN ApiCountBillingCycles(q.checkOut - q.checkIn, q.dayUse) * q.rate
    ELSE IF q.dayUse THEN q.rate
    ELSE (q.checkOut - q.checkIn) * q.rate

-----------------------------------------------------------------------------
(* Properties *)

CanSubmit == step = 4 /\ ~submitting
request == Payload(form, room, second)

\* Whatever was ticked and unticked, in whichever order, and whenever the list
\* of rooms arrived: what is sent passes the API's checks of day use, billing
\* cycle, room lock and split stay against one another, and the segments of a
\* split stay tile it.
SentIsCoherent == CanSubmit =>
    /\ BillingCycleCompatible(request)
    /\ RoomLockCompatible(request)
    /\ SplitStayOK(request)
    /\ request.dayUse /\ request.checkIn # Blank => request.checkIn = request.checkOut

\* The total the clerk reads out, and the API stores as it is sent, is the one
\* the API would compute for the stay.
TotalAgrees ==
    CanSubmit /\ request.checkIn # Blank /\ request.checkOut # Blank /\ StayDatesOK(request)
        => request.total = StayTotal(request)

\* Not so: the room chosen belongs to the property of the form. Going back and
\* choosing another property keeps the room.
RoomIsWhereAsked == step = 4 => PropertyOf[room] = form.property

\* Not so: an answer never takes the clerk back to the rooms. Next can be
\* pressed twice, and the second answer comes when it comes.
AnswersDoNotInterrupt ==
    [][step' = 2 /\ loads' # loads => step \in {1, 2}]_wizardVars
=============================================================================
