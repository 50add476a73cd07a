----------------------------- MODULE SelfService -----------------------------
(***************************************************************************)
(* Guests check themselves in: the page on their phone (mobile check-in)   *)
(* or on the tablet in the lobby (kiosk), with the API behind it. The page *)
(* keeps what it shows in React state; its calls answer in any order, also *)
(* after the guest has gone on to something else. Enter starts a lookup    *)
(* whether or not one is on its way; the buttons wait for their own call.  *)
(* Other devices and the desk work on the same reservations.               *)
(***************************************************************************)
EXTENDS Integers

CONSTANTS
    Devices,            \* of "phone" and "kiosk", which the page may run on
    Bookings,           \* confirmation numbers that exist
    Null,
    MaxCalls            \* bound: calls on their way at once

VARIABLES
    status,             \* Reservation.status
    folios,             \* guest folios of each reservation
    device,             \* what the page runs on
    page,               \* its state
    call,               \* calls on their way, by slot
    told                \* history: reservations the page announced as checked in

selfVars == <<status, folios, page, call, told>>

Statuses == {"CONFIRMED", "CHECKED_IN", "CHECKED_OUT", "CANCELLED"}

\* A reservation as the API answers it.
Views == [number : Bookings, status : Statuses]

ASSUME SelfServiceAssumption ==
    /\ Devices \subseteq {"phone", "kiosk"}
    /\ Null \notin Bookings \cup Views
    /\ MaxCalls \in Nat \ {0}

Slots == 1..MaxCalls
Free == [kind |-> "none"]
View(n) == [number |-> n, status |-> status[n]]

Blank == [typed |-> Null, shown |-> Null, step |-> "lookup", rooms |-> FALSE,
          lookupLoading |-> FALSE, roomsLoading |-> FALSE, actionLoading |-> FALSE]

SelfInit ==
    /\ status = [n \in Bookings |-> "CONFIRMED"]
    /\ folios = [n \in Bookings |-> 0]
    /\ device \in Devices
    /\ page = Blank
    /\ call = [k \in Slots |-> Free]
    /\ told = {}

-----------------------------------------------------------------------------
(* What the guest can reach on the page *)

\* A new call takes the first free slot; it is lost when no page waits for it.
Send(kind, n, unheard) ==
    \E k \in Slots :
        /\ call[k] = Free
        /\ \A j \in 1..k-1 : call[j] # Free
        /\ call' = [call EXCEPT ![k] =
                [kind |-> kind, number |-> n, at |-> "sent", lost |-> unheard]]

Shows(step) == page.step = step /\ page.shown # Null
CanCheckIn == Shows("lookup") /\ page.shown.status = "CONFIRMED"

Type(n) ==
    /\ page.step = "lookup"
    /\ page' = [page EXCEPT !.typed = n]
    /\ UNCHANGED <<status, folios, call, told>>

Lookup ==
    /\ page.step = "lookup" /\ page.typed # Null
    /\ page' = [page EXCEPT !.lookupLoading = TRUE, !.shown = Null]
    /\ Send("lookup", page.typed, FALSE)
    /\ UNCHANGED <<status, folios, told>>

ShowRoomOptions ==
    /\ device = "phone" /\ CanCheckIn /\ ~page.roomsLoading
    /\ page' = [page EXCEPT !.roomsLoading = TRUE]
    /\ Send("rooms", page.shown.number, FALSE)
    /\ UNCHANGED <<status, folios, told>>

SelectRoom ==
    /\ Shows("room-select") /\ page.rooms /\ ~page.actionLoading
    /\ page' = [page EXCEPT !.actionLoading = TRUE]
    /\ Send("select", page.shown.number, FALSE)
    /\ UNCHANGED <<status, folios, told>>

CancelSelection ==
    /\ Shows("room-select")
    /\ page' = [page EXCEPT !.step = "lookup"]
    /\ UNCHANGED <<status, folios, call, told>>

CheckIn ==
    /\ CanCheckIn /\ ~page.actionLoading
    /\ page' = [page EXCEPT !.actionLoading = TRUE]
    /\ Send("checkIn", page.shown.number, FALSE)
    /\ UNCHANGED <<status, folios, told>>

\* handleReset leaves the flags to the calls that set them.
Reset ==
    /\ Shows("lookup") \/ Shows("success")
    /\ page' = [page EXCEPT !.typed = Null, !.shown = Null, !.rooms = FALSE,
                            !.step = "lookup"]
    /\ UNCHANGED <<status, folios, call, told>>

-----------------------------------------------------------------------------
(* MobileCheckInService, KioskService, ReservationsService *)

At(k, kinds, at) == call[k] # Free /\ call[k].kind \in kinds /\ call[k].at = at
Move(k, at) == call' = [call EXCEPT ![k].at = at]

\* The row as answered travels with the call.
Answer(k, view) ==
    call' = [call EXCEPT ![k] = [kind |-> @.kind, number |-> @.number, at |-> "answered",
                                 lost |-> @.lost, view |-> view]]

\* findVerifiedReservation; rooms and a choice are for the confirmed only.
Find(k) ==
    /\ call[k] # Free /\ call[k].at = "sent"
    /\ LET n == call[k].number
           kind == call[k].kind
           refused == kind \in {"rooms", "select"} /\ status[n] # "CONFIRMED"
       IN  IF refused THEN Move(k, "failed")
           ELSE IF kind \in {"lookup", "rooms"} THEN Answer(k, View(n))
           ELSE Move(k, "found")
    /\ UNCHANGED <<status, folios, page, told>>

\* update(id, { roomId }) checks the room, and writes none of it.
Choose(k) ==
    /\ At(k, {"select"}, "found")
    /\ \/ Answer(k, View(call[k].number))
       \/ Move(k, "failed")
    /\ UNCHANGED <<status, folios, page, told>>

ArriveRead(k) ==
    /\ At(k, {"checkIn"}, "found")
    /\ Move(k, IF status[call[k].number] = "CONFIRMED" THEN "arriving" ELSE "failed")
    /\ UNCHANGED <<status, folios, page, told>>

\* The row that the update returns is answered at the end.
ArriveWrite(k) ==
    /\ At(k, {"checkIn"}, "arriving")
    /\ status' = [status EXCEPT ![call[k].number] = "CHECKED_IN"]
    /\ Move(k, "arrived")
    /\ UNCHANGED <<folios, page, told>>

Arrived(k) == Answer(k, [number |-> call[k].number, status |-> "CHECKED_IN"])

\* Mutant: the answer goes out with the update, the folio comes later.
ArriveFolioLater(k) ==
    /\ At(k, {"checkIn"}, "arrived")
    /\ Arrived(k)
    /\ UNCHANGED <<status, folios, page, told>>

ArriveFolioFind(k) ==
    /\ At(k, {"checkIn"}, "arrived")
    /\ IF folios[call[k].number] = 0 THEN Move(k, "folio") ELSE Arrived(k)
    /\ UNCHANGED <<status, folios, page, told>>

ArriveFolioCreate(k) ==
    /\ At(k, {"checkIn"}, "folio")
    /\ folios' = [folios EXCEPT ![call[k].number] = @ + 1]
    /\ Arrived(k)
    /\ UNCHANGED <<status, page, told>>

\* Another device checks the same guest in.
Elsewhere ==
    /\ \E n \in Bookings : Send("checkIn", n, TRUE)
    /\ UNCHANGED <<status, folios, page, told>>

\* The desk: FrontOffice has the inside of these.
Desk ==
    /\ \E n \in Bookings :
        \/ status[n] = "CONFIRMED" /\ status' = [status EXCEPT ![n] = "CANCELLED"]
        \/ status[n] = "CHECKED_IN" /\ status' = [status EXCEPT ![n] = "CHECKED_OUT"]
    /\ UNCHANGED <<folios, page, call, told>>

\* A number nobody has, a name or a property that does not match, or an error
\* anywhere in the handler; what it wrote stays.
Throw(k) ==
    /\ call[k] # Free /\ call[k].at \notin {"answered", "failed"}
    /\ Move(k, "failed")
    /\ UNCHANGED <<status, folios, page, told>>

-----------------------------------------------------------------------------
(* The answers *)

Flag(kind) == CASE kind = "lookup" -> "lookupLoading" [] kind = "rooms" -> "roomsLoading"
                [] kind \in {"select", "checkIn"} -> "actionLoading"

\* What `try` does with an answer, on the phone and in the lobby.
PhoneReceives(c) ==
    CASE c.kind = "rooms" -> [page EXCEPT !.rooms = TRUE, !.step = "room-select"]
      [] c.kind = "checkIn" -> [page EXCEPT !.shown = c.view, !.step = "success"]
      [] OTHER -> [page EXCEPT !.shown = c.view, !.step = "lookup"]

\* The lobby's page is the one step.
KioskReceives(c) == [page EXCEPT !.shown = c.view, !.step = "lookup"]

Received(c) == IF device = "phone" THEN PhoneReceives(c) ELSE KioskReceives(c)

Hear(k) ==
    LET c == call[k] IN
    /\ c # Free /\ c.at = "answered" /\ ~c.lost
    /\ page' = [Received(c) EXCEPT ![Flag(c.kind)] = FALSE]
    /\ told' = IF c.kind = "checkIn" THEN told \cup {c.number} ELSE told
    /\ call' = [call EXCEPT ![k] = Free]
    /\ UNCHANGED <<status, folios>>

\* Mutant: the flag is cleared where the answer is used, not in `finally`.
HearFailureForgets(k) ==
    LET c == call[k] IN
    /\ c # Free /\ c.at = "failed" /\ ~c.lost
    /\ call' = [call EXCEPT ![k] = Free]
    /\ UNCHANGED <<status, folios, page, told>>

HearFailure(k) ==
    LET c == call[k] IN
    /\ c # Free /\ c.at = "failed" /\ ~c.lost
    /\ page' = [page EXCEPT ![Flag(c.kind)] = FALSE]
    /\ call' = [call EXCEPT ![k] = Free]
    /\ UNCHANGED <<status, folios, told>>

\* The connection is lost: the page gives the call up, the handler goes on.
Lose(k) ==
    LET c == call[k] IN
    /\ c # Free /\ ~c.lost
    /\ page' = [page EXCEPT ![Flag(c.kind)] = FALSE]
    /\ call' = [call EXCEPT ![k].lost = TRUE]
    /\ UNCHANGED <<status, folios, told>>

Unheard(k) ==
    /\ call[k] # Free /\ call[k].at \in {"answered", "failed"} /\ call[k].lost
    /\ call' = [call EXCEPT ![k] = Free]
    /\ UNCHANGED <<status, folios, page, told>>

-----------------------------------------------------------------------------
Guest ==
    \/ \E n \in Bookings : Type(n)
    \/ Lookup \/ ShowRoomOptions \/ SelectRoom \/ CancelSelection
    \/ CheckIn \/ Reset

Proceed(k) ==
    \/ Find(k) \/ Choose(k)
    \/ ArriveRead(k) \/ ArriveWrite(k) \/ ArriveFolioFind(k) \/ ArriveFolioCreate(k)
    \/ Hear(k) \/ HearFailure(k) \/ Unheard(k)

SelfNext ==
    \/ Guest \/ Elsewhere \/ Desk
    \/ \E k \in Slots : Proceed(k) \/ Throw(k) \/ Lose(k)

\* The server and the browser run what is ready; the guest need do nothing.
FairSpec ==
    /\ SelfInit /\ [][SelfNext /\ UNCHANGED device]_<<selfVars, device>>
    /\ \A k \in Slots : WF_selfVars(Proceed(k))

-----------------------------------------------------------------------------
\* Whoever is told that the check-in is done has a folio to be charged on, also
\* when two devices check the same guest in or the desk cancels meanwhile; and
\* the phone's last screen always has a checked-in reservation to show, whatever
\* answers come in late.
SuccessIsReal ==
    /\ \A n \in told : folios[n] > 0
    /\ page.step = "success" =>
            /\ page.shown # Null
            /\ page.shown.status = "CHECKED_IN" /\ page.shown.number \in told

\* A control that shows "loading" comes back, through refusals, errors, lost
\* connections and lookups that overtake one another.
ControlsComeBack ==
    \A flag \in {"lookupLoading", "roomsLoading", "actionLoading"} :
        page[flag] ~> ~page[flag]
=============================================================================
