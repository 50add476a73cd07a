---------------------------- MODULE MCFrontOffice ----------------------------
(* FrontOffice with two rooms of two types, two reservations, three days, a block. *)
EXTENDS FrontOffice

MCTypeOf == [m \in Rooms |-> IF m = "A" THEN "T1" ELSE "T2"]

Stay(m, from, to) == [status |-> "CONFIRMED", roomId |-> m, checkIn |-> from, checkOut |-> to,
                      isDayUse |-> from = to, isRoomLocked |-> FALSE, stays |-> <<>>]
Segments == <<[room |-> "A", from |-> 1, to |-> 2], [room |-> "B", from |-> 2, to |-> 3]>>
Split == [Stay("A", 1, 3) EXCEPT !.stays = Segments]
DayUse == Stay("B", 2, 2)

MCBookings == {Stay("A", 1, 2), Split, DayUse}
RoomBookings == {Stay("A", 1, 2), Stay("A", 2, 3)}
DayUseBookings == {Split, DayUse}
MCChanges == {[checkOut |-> 2], [checkOut |-> 3], [stays |-> <<>>], [stays |-> Segments, checkOut |-> 3],
              [isRoomLocked |-> TRUE]}
MCBlockChanges == {[status |-> "OPEN", cutoff |-> 3, allotted |-> 2]}
BlockTerms == {[type |-> "T1", from |-> 1, to |-> 3, cutoff |-> 2, allotted |-> 1]}

\* Stays of all kinds in two rooms that nobody else touches; and a room that is
\* kept, sold in a block, added and removed while the date moves.
Desk(bookings) == [rooms |-> Rooms, kept |-> {}, last |-> 1, bookings |-> bookings,
                   changes |-> MCChanges, terms |-> {}]
House == [rooms |-> {"A"}, kept |-> {"A"}, last |-> 2, bookings |-> RoomBookings,
          changes |-> {}, terms |-> BlockTerms]
DeskAndHouse == {Desk(MCBookings), House}
DeskOnly == {Desk(MCBookings)}
DeskWithDayUse == {Desk(DayUseBookings)}

\* What the properties ask of the callers.
ASSUME CallsAreOrdinary == OneAtATime /\ RoomGoesWithSegments
=============================================================================
