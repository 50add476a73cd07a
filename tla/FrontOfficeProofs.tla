-------------------------- MODULE FrontOfficeProofs --------------------------
(***************************************************************************)
(* What the front office keeps, one call at a time, for any number of      *)
(* rooms, reservations and blocks, any dates and any updates.              *)
(*                                                                         *)
(* Rows: every reservation is a sound row (its dates in order, its         *)
(* segments tiling the stay), and a call in flight is going to write one.  *)
(* Two invariants are built on it. Held: reservations that hold rooms hold *)
(* them for different nights (Distinct), and what a call in flight is      *)
(* going to write was found free and still is (Claims). Allotted: a block  *)
(* has sold no more than is left of its allotment (Sold), also when the    *)
(* call in flight will have written (Grants). Kept is about the rooms: the *)
(* stage a call in flight is going to write is worked out from what it has *)
(* read of its room, and the room is still as read.                        *)
(*                                                                         *)
(* What the code does not check is asked of the callers: OneAtATime and    *)
(* RoomGoesWithSegments of the constants, NothingRevived and               *)
(* NothingCounted of the updates.                                          *)
(***************************************************************************)
EXTENDS FrontOffice, FiniteSetTheorems, SequenceTheorems, TLAPS

\* The rows of Reservation, and those among them whose dates are in order and
\* whose segments tile the stay.
Row == [status : ReservationStatus, roomId : Rooms, checkIn : Int, checkOut : Int,
        isDayUse : BOOLEAN, isRoomLocked : BOOLEAN, stays : Seq(Segment),
        block : Blocks \cup {NoBlock}]

Tiles(s) == s.stays # <<>> =>
    /\ ~s.isDayUse /\ ~s.isRoomLocked
    /\ s.stays[1].from = s.checkIn /\ s.stays[Len(s.stays)].to = s.checkOut
    /\ \A n \in 2..Len(s.stays) : s.stays[n].from = s.stays[n-1].to

Sound(s) == StayDatesOk(s.checkIn, s.checkOut, s.isDayUse) /\ Tiles(s)
SoundRows == {s \in Row : Sound(s)}

-----------------------------------------------------------------------------
(* What a write gives goes over the row *)

\* Field by field.
LEMMA OverAt ==
    ASSUME NEW g, NEW w
    PROVE  /\ DOMAIN Over(g, w) = DOMAIN g \cup DOMAIN w
           /\ \A f \in DOMAIN g : Over(g, w)[f] = g[f]
           /\ \A f \in DOMAIN w \ DOMAIN g : Over(g, w)[f] = w[f]
  BY DEF Over

LEMMA RowIs ==
    ASSUME NEW g, NEW w,
           DOMAIN Over(g, w) = {"status", "roomId", "checkIn", "checkOut", "isDayUse",
                                "isRoomLocked", "stays", "block"},
           Over(g, w).status \in ReservationStatus, Over(g, w).roomId \in Rooms,
           Over(g, w).checkIn \in Int, Over(g, w).checkOut \in Int,
           Over(g, w).isDayUse \in BOOLEAN, Over(g, w).isRoomLocked \in BOOLEAN,
           Over(g, w).stays \in Seq(Segment), Over(g, w).block \in Blocks \cup {NoBlock}
    PROVE  Over(g, w) \in Row
  <1> DEFINE s == Over(g, w)
  <1>1. s = [f \in {"status", "roomId", "checkIn", "checkOut", "isDayUse",
                    "isRoomLocked", "stays", "block"} |-> s[f]]
    BY DEF Over
  <1> HIDE DEF s
  <1>2. s \in Row
    BY <1>1 DEF s, Row
  <1> QED
    BY <1>2 DEF s

\* What is given of a row's fields is of the fields' types.
LEMMA FieldsGiven ==
    ASSUME NEW c, GivesFields(c)
    PROVE  /\ DOMAIN c \subseteq {"status", "roomId", "checkIn", "checkOut", "isDayUse",
                                 "isRoomLocked", "stays"}
           /\ "status" \in DOMAIN c => c.status \in ReservationStatus
           /\ "roomId" \in DOMAIN c => c.roomId \in Rooms
           /\ "checkIn" \in DOMAIN c => c.checkIn \in Int
           /\ "checkOut" \in DOMAIN c => c.checkOut \in Int
           /\ "isDayUse" \in DOMAIN c => c.isDayUse \in BOOLEAN
           /\ "isRoomLocked" \in DOMAIN c => c.isRoomLocked \in BOOLEAN
           /\ "stays" \in DOMAIN c => c.stays \in Seq(Segment)
  BY DEF GivesFields, Fields

\* A new row.
LEMMA NewRow ==
    ASSUME NEW dto, GivesFields(dto), DOMAIN dto = DOMAIN Fields
    PROVE  /\ Over(dto, [block |-> NoBlock]) \in Row
           /\ \A f \in DOMAIN Fields : Over(dto, [block |-> NoBlock])[f] = dto[f]
           /\ Over(dto, [block |-> NoBlock]).block = NoBlock
  <1>1. DOMAIN dto = {"status", "roomId", "checkIn", "checkOut", "isDayUse",
                      "isRoomLocked", "stays"}
    BY DEF Fields
  <1>2. DOMAIN [block |-> NoBlock] = {"block"} /\ [block |-> NoBlock].block = NoBlock
    OBVIOUS
  <1> DEFINE w == [block |-> NoBlock]
  <1> HIDE DEF w
  <1>3. /\ \A f \in DOMAIN Fields : Over(dto, w)[f] = dto[f]
        /\ Over(dto, w).block = NoBlock
        /\ DOMAIN Over(dto, w) = {"status", "roomId", "checkIn", "checkOut", "isDayUse",
                                  "isRoomLocked", "stays", "block"}
    <2>1. DOMAIN w = {"block"} /\ w["block"] = NoBlock
      BY <1>2 DEF w
    <2>2. "block" \in DOMAIN w \ DOMAIN dto
      BY <1>1, <2>1
    <2>3. Over(dto, w)["block"] = w["block"]
      <3>1. \A f \in DOMAIN w \ DOMAIN dto : Over(dto, w)[f] = w[f]
        BY OverAt
      <3> QED
        BY <2>2, <3>1
    <2>4. DOMAIN Over(dto, w) = DOMAIN dto \cup DOMAIN w
      BY OverAt
    <2>5. \A f \in DOMAIN dto : Over(dto, w)[f] = dto[f]
      BY OverAt
    <2> QED
      BY <1>1, <2>1, <2>3, <2>4, <2>5
  <1>4. \A f \in {"status", "roomId", "checkIn", "checkOut", "isDayUse", "isRoomLocked", "stays"} :
            Over(dto, w)[f] = dto[f]
    BY <1>1, <1>3
  <1>5. Over(dto, w) \in Row
    BY <1>1, <1>3, <1>4, FieldsGiven, RowIs
  <1> QED
    BY <1>3, <1>5 DEF w

\* A row updated.
LEMMA UpdatedRow ==
    ASSUME NEW row \in Row, NEW c, GivesFields(c)
    PROVE  LET s == Over(UpdateData(row, c), row)
           IN  /\ s \in Row
               /\ s.checkIn = Given(c, "checkIn", row) /\ s.checkOut = Given(c, "checkOut", row)
               /\ s.isDayUse = Given(c, "isDayUse", row)
               /\ s.isRoomLocked = Given(c, "isRoomLocked", row)
               /\ s.stays = Given(c, "stays", row)
               /\ s.roomId = IF "stays" \in DOMAIN c /\ c.stays # <<>>
                             THEN c.stays[1].room ELSE row.roomId
               /\ s.status = Given(c, "status", row) /\ s.block = row.block
  <1> DEFINE scalar == [f \in DOMAIN c \ {"roomId"} |-> c[f]]
             dayUse == IF StayDatesChanged(c) THEN [isDayUse |-> Given(c, "isDayUse", row)] ELSE <<>>
             header == IF "stays" \in DOMAIN c /\ c.stays # <<>>
                       THEN [roomId |-> c.stays[1].room] ELSE <<>>
             inner == Over(header, scalar)
             data == Over(dayUse, inner)
             s == Over(data, row)
  <1>1. UpdateData(row, c) = data
    BY DEF UpdateData
  <1>2. DOMAIN scalar = DOMAIN c \ {"roomId"} /\ \A f \in DOMAIN scalar : scalar[f] = c[f]
    OBVIOUS
  <1>3. /\ DOMAIN dayUse = IF StayDatesChanged(c) THEN {"isDayUse"} ELSE {}
        /\ StayDatesChanged(c) => dayUse["isDayUse"] = Given(c, "isDayUse", row)
    OBVIOUS
  <1>4. /\ DOMAIN header = IF "stays" \in DOMAIN c /\ c.stays # <<>> THEN {"roomId"} ELSE {}
        /\ "stays" \in DOMAIN c /\ c.stays # <<>> => header["roomId"] = c.stays[1].room
    OBVIOUS
  <1> HIDE DEF scalar, dayUse, header
  <1>5. /\ DOMAIN inner = DOMAIN header \cup DOMAIN scalar
        /\ \A f \in DOMAIN header : inner[f] = header[f]
        /\ \A f \in DOMAIN scalar \ DOMAIN header : inner[f] = scalar[f]
    BY OverAt
  <1> HIDE DEF inner
  <1>6. /\ DOMAIN data = DOMAIN dayUse \cup DOMAIN inner
        /\ \A f \in DOMAIN dayUse : data[f] = dayUse[f]
        /\ \A f \in DOMAIN inner \ DOMAIN dayUse : data[f] = inner[f]
    BY OverAt
  <1> HIDE DEF data
  <1>7. /\ DOMAIN s = DOMAIN data \cup DOMAIN row
        /\ \A f \in DOMAIN data : s[f] = data[f]
        /\ \A f \in DOMAIN row \ DOMAIN data : s[f] = row[f]
    BY OverAt
  <1>8. DOMAIN row = {"status", "roomId", "checkIn", "checkOut", "isDayUse",
                      "isRoomLocked", "stays", "block"}
    BY DEF Row
  <1> DEFINE D == DOMAIN c
  <1>9. D \subseteq {"status", "roomId", "checkIn", "checkOut", "isDayUse",
                     "isRoomLocked", "stays"}
    BY FieldsGiven
  <1> HIDE DEF s
  <1>10. /\ s.checkIn = Given(c, "checkIn", row) /\ s.checkOut = Given(c, "checkOut", row)
         /\ s.isRoomLocked = Given(c, "isRoomLocked", row)
         /\ s.stays = Given(c, "stays", row)
         /\ s.status = Given(c, "status", row) /\ s.block = row.block
    BY <1>2, <1>3, <1>4, <1>5, <1>6, <1>7, <1>8, <1>9 DEF Given
  <1>11. s.isDayUse = Given(c, "isDayUse", row)
    BY <1>2, <1>3, <1>4, <1>5, <1>6, <1>7, <1>8, <1>9 DEF Given, StayDatesChanged
  <1>12. s.roomId = IF "stays" \in DOMAIN c /\ c.stays # <<>>
                    THEN c.stays[1].room ELSE row.roomId
    BY <1>2, <1>3, <1>4, <1>5, <1>6, <1>7, <1>8, <1>9
  <1>13. DOMAIN s = {"status", "roomId", "checkIn", "checkOut", "isDayUse",
                     "isRoomLocked", "stays", "block"}
    BY <1>2, <1>3, <1>4, <1>5, <1>6, <1>7, <1>8, <1>9
  <1>14. "stays" \in DOMAIN c /\ c.stays # <<>> => c.stays[1].room \in Rooms
    <2> SUFFICES ASSUME "stays" \in DOMAIN c, c.stays # <<>> PROVE c.stays[1].room \in Rooms
      OBVIOUS
    <2>1. c.stays \in Seq(Segment)
      BY FieldsGiven
    <2>2. Len(c.stays) > 0
      BY <2>1, EmptySeq
    <2>3. c.stays[1] \in Segment
      BY <2>1, <2>2
    <2> QED
      BY <2>3 DEF Segment
  <1>15. s \in Row
    <2>1. /\ s.status \in ReservationStatus /\ s.checkIn \in Int /\ s.checkOut \in Int
          /\ s.isDayUse \in BOOLEAN /\ s.isRoomLocked \in BOOLEAN /\ s.stays \in Seq(Segment)
          /\ s.block \in Blocks \cup {NoBlock}
      BY <1>10, <1>11, FieldsGiven DEF Given, Row
    <2>2. s.roomId \in Rooms
      BY <1>12, <1>14 DEF Row
    <2> QED
      BY <1>13, <2>1, <2>2, RowIs DEF s
  <1> QED
    BY <1>1, <1>10, <1>11, <1>12, <1>15 DEF s

-----------------------------------------------------------------------------
(* Rows stay sound *)

\* An update that is allowed leaves a sound row sound.
LEMMA ChangeKeepsSound ==
    ASSUME NEW i \in Booked, reservation[i] \in SoundRows,
           NEW c, GivesFields(c), ChangeAllowed(i, c)
    PROVE  Over(UpdateData(reservation[i], c), reservation[i]) \in SoundRows
  <1> DEFINE row == reservation[i]
             s == Over(UpdateData(row, c), row)
  <1>1. /\ row \in Row /\ s \in Row
        /\ s.checkIn = Given(c, "checkIn", row) /\ s.checkOut = Given(c, "checkOut", row)
        /\ s.isDayUse = Given(c, "isDayUse", row)
        /\ s.isRoomLocked = Given(c, "isRoomLocked", row)
        /\ s.stays = Given(c, "stays", row)
    BY UpdatedRow DEF SoundRows
  <1>2. StayDatesOk(row.checkIn, row.checkOut, row.isDayUse) /\ Tiles(row)
    BY DEF SoundRows, Sound
  <1>3. /\ SegmentsFollow(row, c)
        /\ "stays" \in DOMAIN c /\ c.stays # <<>> =>
             SplitStayOk(Given(c, "checkIn", row), Given(c, "checkOut", row),
                         Given(c, "isDayUse", row), c.stays[1].room, c.stays)
        /\ Given(c, "isRoomLocked", row) => Given(c, "stays", row) = <<>>
        /\ StayDatesChanged(c) => StayDatesOk(Given(c, "checkIn", row),
                Given(c, "checkOut", row), Given(c, "isDayUse", row))
    BY DEF ChangeAllowed
  <1> HIDE DEF s, row
  <1>4. ~StayDatesChanged(c) => /\ Given(c, "checkIn", row) = row.checkIn
                                /\ Given(c, "checkOut", row) = row.checkOut
                                /\ Given(c, "isDayUse", row) = row.isDayUse
    BY DEF StayDatesChanged, Given
  <1>5. StayDatesOk(s.checkIn, s.checkOut, s.isDayUse)
    BY <1>1, <1>2, <1>3, <1>4
  <1>6. Tiles(s)
    <2>1. CASE "stays" \in DOMAIN c
      <3>1. s.stays = c.stays
        BY <1>1, <2>1 DEF Given
      <3>2. CASE c.stays = <<>>
        BY <3>1, <3>2 DEF Tiles
      <3>3. CASE c.stays # <<>>
        <4>1. SplitStayOk(s.checkIn, s.checkOut, s.isDayUse, c.stays[1].room, c.stays)
          BY <1>1, <1>3, <2>1, <3>3
        <4>2. ~s.isRoomLocked
          BY <1>1, <1>3, <3>1, <3>3
        <4> QED
          BY <3>1, <3>3, <4>1, <4>2 DEF SplitStayOk, Tiles
      <3> QED
        BY <3>2, <3>3
    <2>2. CASE "stays" \notin DOMAIN c
      <3>1. s.stays = row.stays
        BY <1>1, <2>2 DEF Given
      <3>2. row.stays = <<>> \/ ~StayDatesChanged(c)
        BY <1>3, <2>2 DEF SegmentsFollow
      <3>3. CASE row.stays = <<>>
        BY <3>1, <3>3 DEF Tiles
      <3>4. CASE row.stays # <<>>
        BY <1>1, <1>2, <1>3, <1>4, <3>1, <3>2, <3>4 DEF Tiles
      <3> QED
        BY <3>3, <3>4
    <2> QED
      BY <2>1, <2>2
  <1> QED
    BY <1>1, <1>5, <1>6 DEF SoundRows, Sound, s, row

\* The row of a stay that moves: its room, and that of one segment.
Moved(s, segment, to) ==
    [s EXCEPT !.roomId = to,
              !.stays = [n \in DOMAIN s.stays |->
                            IF n = segment THEN [s.stays[n] EXCEPT !.room = to] ELSE s.stays[n]]]

LEMMA MoveKeepsSound ==
    ASSUME NEW s \in SoundRows, NEW segment, NEW to \in Rooms
    PROVE  /\ Moved(s, segment, to) \in SoundRows
           /\ Moved(s, segment, to).status = s.status /\ Moved(s, segment, to).block = s.block
           /\ Moved(s, segment, to).checkIn = s.checkIn
           /\ Moved(s, segment, to).checkOut = s.checkOut
           /\ Moved(s, segment, to).isDayUse = s.isDayUse
           /\ Moved(s, segment, to).roomId = to
           /\ DOMAIN Moved(s, segment, to).stays = DOMAIN s.stays
           /\ \A n \in DOMAIN s.stays :
                /\ Moved(s, segment, to).stays[n].room = IF n = segment THEN to ELSE s.stays[n].room
                /\ Moved(s, segment, to).stays[n].from = s.stays[n].from
                /\ Moved(s, segment, to).stays[n].to = s.stays[n].to
  <1> DEFINE t == Moved(s, segment, to)
             segs == [n \in DOMAIN s.stays |->
                        IF n = segment THEN [s.stays[n] EXCEPT !.room = to] ELSE s.stays[n]]
  <1>1. s \in Row /\ Sound(s)
    BY DEF SoundRows
  <1>2. /\ s.stays \in Seq(Segment) /\ DOMAIN s.stays = 1..Len(s.stays)
        /\ Len(s.stays) \in Nat
    BY <1>1 DEF Row
  <1>3. \A n \in DOMAIN s.stays : s.stays[n] \in Segment
    BY <1>2
  <1>4. \A n \in DOMAIN s.stays :
            /\ segs[n] \in Segment
            /\ segs[n].from = s.stays[n].from /\ segs[n].to = s.stays[n].to
            /\ segs[n].room = IF n = segment THEN to ELSE s.stays[n].room
    BY <1>3 DEF Segment
  <1>5. DOMAIN segs = 1..Len(s.stays)
    BY <1>2
  <1> HIDE DEF segs
  <1>6. segs \in Seq(Segment) /\ Len(segs) = Len(s.stays)
    <2>1. segs = [n \in 1..Len(s.stays) |-> segs[n]]
      BY <1>5 DEF segs
    <2>2. segs \in [1..Len(s.stays) -> Segment]
      BY <2>1, <1>2, <1>4
    <2> QED
      BY <2>2, <1>2, <1>5
  <1>7. t = [s EXCEPT !.roomId = to, !.stays = segs]
    BY DEF Moved, segs
  <1>8. /\ t \in Row /\ t.stays = segs /\ t.roomId = to
        /\ t.status = s.status /\ t.block = s.block /\ t.checkIn = s.checkIn
        /\ t.checkOut = s.checkOut /\ t.isDayUse = s.isDayUse /\ t.isRoomLocked = s.isRoomLocked
    BY <1>1, <1>6, <1>7 DEF Row
  <1> HIDE DEF t
  <1>9. Tiles(t)
    <2> SUFFICES ASSUME t.stays # <<>>
                 PROVE  /\ ~t.isDayUse /\ ~t.isRoomLocked
                        /\ t.stays[1].from = t.checkIn /\ t.stays[Len(t.stays)].to = t.checkOut
                        /\ \A n \in 2..Len(t.stays) : t.stays[n].from = t.stays[n-1].to
      BY DEF Tiles
    <2>1. Len(s.stays) > 0 /\ s.stays # <<>>
      BY <1>2, <1>6, <1>8, EmptySeq
    <2>2. /\ ~s.isDayUse /\ ~s.isRoomLocked
          /\ s.stays[1].from = s.checkIn /\ s.stays[Len(s.stays)].to = s.checkOut
          /\ \A n \in 2..Len(s.stays) : s.stays[n].from = s.stays[n-1].to
      BY <1>1, <2>1 DEF Sound, Tiles
    <2>3. t.stays[1].from = t.checkIn /\ t.stays[Len(t.stays)].to = t.checkOut
      BY <1>2, <1>4, <1>6, <1>8, <2>1, <2>2
    <2>4. \A n \in 2..Len(t.stays) : t.stays[n].from = t.stays[n-1].to
      BY <1>2, <1>4, <1>6, <1>8, <2>2
    <2> QED
      BY <1>8, <2>2, <2>3, <2>4
  <1>10. StayDatesOk(t.checkIn, t.checkOut, t.isDayUse)
    BY <1>1, <1>8 DEF Sound
  <1> QED
    BY <1>2, <1>4, <1>5, <1>8, <1>9, <1>10 DEF SoundRows, Sound, t

\* Status, block and guest's lock apart, a row is what it was.
LEMMA StatusKeepsSound ==
    ASSUME NEW s \in SoundRows, NEW status \in ReservationStatus
    PROVE  /\ [s EXCEPT !.status = status] \in SoundRows
           /\ [s EXCEPT !.status = status].status = status
  BY DEF SoundRows, Row, Sound, Tiles

LEMMA BlockKeepsSound ==
    ASSUME NEW s \in SoundRows, NEW b \in Blocks \cup {NoBlock}
    PROVE  /\ [s EXCEPT !.block = b] \in SoundRows
           /\ [s EXCEPT !.block = b].block = b
  BY DEF SoundRows, Row, Sound, Tiles

-----------------------------------------------------------------------------
(* The rows of all reservations, and what calls in flight will write *)

\* What a call carries is true of the rows it has read: nobody else writes.
Calls(h, rows) ==
    /\ h.op = "book" => Over(h.dto, [block |-> NoBlock]) \in SoundRows
    /\ h.op \in {"update", "selectWrite"} =>
            h.id \in DOMAIN rows /\ Over(h.data, rows[h.id]) \in SoundRows
    /\ h.op = "select" => h.id \in DOMAIN rows /\ h.roomId \in Rooms
    /\ h.op = "move" => h.id \in DOMAIN rows /\ h.to \in Rooms
    /\ h.op = "attach" => h.id \in DOMAIN rows /\ h.block \in Blocks
    /\ h.op \in {"checkIn", "walk"} => h.id \in DOMAIN rows /\ rows[h.id].status = "CONFIRMED"
    /\ h.op = "checkOut" => h.id \in DOMAIN rows /\ rows[h.id].status = "CHECKED_IN"

Carrying == {"book", "update", "selectWrite", "select", "move", "attach", "checkIn", "walk",
             "checkOut"}

Rows ==
    /\ scene \in Scenes
    /\ DOMAIN req = Requests /\ \A r \in Requests : "op" \in DOMAIN req[r]
    /\ reservation \in Seq(SoundRows)
    /\ \A r \in Requests : Calls(req[r], reservation)

LEMMA OneCall ==
    ASSUME OneAtATime, Rows, NEW r \in Requests, NEW h, "op" \in DOMAIN h,
           req' = [req EXCEPT ![r] = h], scene' = scene, reservation' \in Seq(SoundRows),
           Calls(h, reservation')
    PROVE  Rows'
  BY DEF OneAtATime, Rows

\* Most calls carry nothing that the rows of reservations must bear out.
LEMMA OtherCall ==
    ASSUME OneAtATime, Rows, NEW r \in Requests, NEW h, "op" \in DOMAIN h, h.op \notin Carrying,
           req' = [req EXCEPT ![r] = h], scene' = scene, reservation' \in Seq(SoundRows)
    PROVE  Rows'
  <1>1. Calls(h, reservation')
    BY DEF Calls, Carrying
  <1> QED
    BY <1>1, OneCall

LEMMA Ended ==
    ASSUME OneAtATime, Rows, NEW r \in Requests, End(r), scene' = scene,
           reservation' \in Seq(SoundRows)
    PROVE  Rows'
  <1>1. "op" \in DOMAIN Idle /\ Idle.op \notin Carrying
    BY DEF Idle, Carrying
  <1> QED
    BY <1>1, OtherCall DEF End

LEMMA Booked1 ==
    ASSUME Rows
    PROVE  /\ Booked = 1..Len(reservation) /\ Len(reservation) \in Nat
           /\ \A i \in Booked : reservation[i] \in SoundRows /\ reservation[i] \in Row
  BY DEF Rows, Booked, SoundRows

LEMMA RowWritten ==
    ASSUME Rows, NEW i, NEW t, i \in Booked => t \in SoundRows
    PROVE  /\ [reservation EXCEPT ![i] = t] \in Seq(SoundRows)
           /\ DOMAIN [reservation EXCEPT ![i] = t] = Booked
           /\ \A j \in Booked \ {i} : [reservation EXCEPT ![i] = t][j] = reservation[j]
           /\ i \in Booked => [reservation EXCEPT ![i] = t][i] = t
  <1> DEFINE new == [reservation EXCEPT ![i] = t]
  <1>1. new = [j \in Booked |-> IF j = i THEN t ELSE reservation[j]]
    BY DEF Booked
  <1>2. Booked = 1..Len(reservation) /\ Len(reservation) \in Nat
    BY Booked1
  <1>3. new \in [1..Len(reservation) -> SoundRows]
    BY <1>1, <1>2, Booked1
  <1> HIDE DEF new
  <1>4. new \in Seq(SoundRows)
    BY <1>2, <1>3
  <1>5. /\ DOMAIN new = Booked
        /\ i \in Booked => new[i] = t
        /\ \A j \in Booked \ {i} : new[j] = reservation[j]
    BY <1>1
  <1> QED
    BY <1>4, <1>5 DEF new

LEMMA StatusWritten ==
    ASSUME Rows, NEW i, NEW status \in ReservationStatus, SetStatus(i, status)
    PROVE  /\ reservation' \in Seq(SoundRows)
           /\ reservation' = [reservation EXCEPT ![i] = [reservation[i] EXCEPT !.status = status]]
  <1>1. reservation' = [reservation EXCEPT ![i] = [reservation[i] EXCEPT !.status = status]]
    BY DEF SetStatus
  <1>2. i \in Booked => [reservation[i] EXCEPT !.status = status] \in SoundRows
    BY Booked1, StatusKeepsSound
  <1> QED
    BY <1>1, <1>2, RowWritten

\* What the calls of a reservation read bears out what they carry on.
LEMMA BookReads ==
    ASSUME OneAtATime, Rows, NEW r \in Requests, scene' = scene,
           NEW dto \in scene.bookings, BookCheck(r, dto)
    PROVE  /\ Rows'
           /\ Over(dto, [block |-> NoBlock]) \in SoundRows
  <1> DEFINE s == Over(dto, [block |-> NoBlock])
  <1>1. GivesFields(dto) /\ DOMAIN dto = DOMAIN Fields
    BY FrontOfficeAssumption DEF Rows
  <1>2. s \in Row /\ \A f \in DOMAIN Fields : s[f] = dto[f]
    BY <1>1, NewRow
  <1>3. /\ s.checkIn = dto.checkIn /\ s.checkOut = dto.checkOut /\ s.isDayUse = dto.isDayUse
        /\ s.isRoomLocked = dto.isRoomLocked /\ s.stays = dto.stays
    BY <1>2 DEF Fields
  <1> HIDE DEF s
  <1>4. Sound(s)
    BY <1>2, <1>3 DEF BookCheck, Sound, Tiles, SplitStayOk
  <1>5. s \in SoundRows
    BY <1>2, <1>4 DEF SoundRows
  <1> DEFINE h == [op |-> "book", dto |-> dto]
  <1>6. "op" \in DOMAIN h /\ h.op = "book" /\ h.dto = dto
    OBVIOUS
  <1>7. req' = [req EXCEPT ![r] = h] /\ reservation' = reservation
    BY DEF BookCheck, Begin
  <1> HIDE DEF h
  <1>8. Calls(h, reservation')
    BY <1>5, <1>6 DEF Calls, s
  <1>9. reservation' \in Seq(SoundRows)
    BY <1>7 DEF Rows
  <1> QED
    BY <1>5, <1>6, <1>7, <1>8, <1>9, OneCall DEF s

LEMMA ChangeReads ==
    ASSUME OneAtATime, Rows, NEW r \in Requests, scene' = scene,
           NEW i \in Booked, NEW c, GivesFields(c), ChangeAllowed(i, c),
           NEW h, "op" \in DOMAIN h, h.op \in {"update", "selectWrite"}, h.id = i,
           h.data = UpdateData(reservation[i], c),
           req' = [req EXCEPT ![r] = h], reservation' = reservation
    PROVE  Rows'
  <1>1. Over(h.data, reservation[i]) \in SoundRows
    BY ChangeKeepsSound, Booked1
  <1>2. Calls(h, reservation')
    BY <1>1 DEF Calls, Booked
  <1>3. reservation' \in Seq(SoundRows)
    BY DEF Rows
  <1> QED
    BY <1>2, <1>3, OneCall

LEMMA GuestReads ==
    ASSUME OneAtATime, Rows, NEW r \in Requests, scene' = scene, NEW i \in Booked,
           \/ CancelRead(r, i) \/ WalkRead(r, i) \/ \E asOf \in Days : NoShowRead(r, i, asOf)
           \/ CheckInRead(r, i) \/ CheckOutRead(r, i)
           \/ \E m \in Rooms : SelectRead(r, i, m) \/ MoveRead(r, i, m)
    PROVE  Rows'
  <1>1. reservation' = reservation /\ reservation' \in Seq(SoundRows)
    BY DEF Rows, CancelRead, WalkRead, NoShowRead, CheckInRead, CheckOutRead, SelectRead, MoveRead
  <1>2. CASE CancelRead(r, i)
    <2> DEFINE h == [op |-> "cancel", id |-> i]
    <2>1. req' = [req EXCEPT ![r] = h]
      BY <1>2 DEF CancelRead, Begin
    <2>2. "op" \in DOMAIN h /\ h.op \notin Carrying
      BY DEF Carrying
    <2> QED
      BY <1>1, <2>1, <2>2, OtherCall
  <1>3. CASE \E asOf \in Days : NoShowRead(r, i, asOf)
    <2> DEFINE h == [op |-> "noShow", id |-> i]
    <2>1. req' = [req EXCEPT ![r] = h]
      BY <1>3 DEF NoShowRead, Begin
    <2>2. "op" \in DOMAIN h /\ h.op \notin Carrying
      BY DEF Carrying
    <2> QED
      BY <1>1, <2>1, <2>2, OtherCall
  <1>4. CASE WalkRead(r, i)
    <2> DEFINE h == [op |-> "walk", id |-> i]
    <2>1. req' = [req EXCEPT ![r] = h] /\ "op" \in DOMAIN h
      BY <1>4 DEF WalkRead, Begin
    <2>2. Calls(h, reservation')
      BY <1>1, <1>4 DEF Calls, WalkRead, Booked
    <2> QED
      BY <1>1, <2>1, <2>2, OneCall
  <1>5. CASE CheckInRead(r, i)
    <2> PICK h : h = [op |-> "checkIn", id |-> i, roomId |-> reservation[i].roomId,
                      stage |-> room[reservation[i].roomId].hkStage]
      OBVIOUS
    <2>1. req' = [req EXCEPT ![r] = h] /\ "op" \in DOMAIN h /\ h.op = "checkIn" /\ h.id = i
      BY <1>5 DEF CheckInRead, Begin
    <2>2. Calls(h, reservation')
      BY <1>1, <1>5, <2>1 DEF Calls, CheckInRead, Booked
    <2> QED
      BY <1>1, <2>1, <2>2, OneCall
  <1>6. CASE CheckOutRead(r, i)
    <2> PICK h : h = [op |-> "checkOut", id |-> i, roomId |-> reservation[i].roomId]
      OBVIOUS
    <2>1. req' = [req EXCEPT ![r] = h] /\ "op" \in DOMAIN h /\ h.op = "checkOut" /\ h.id = i
      BY <1>6 DEF CheckOutRead, Begin
    <2>2. Calls(h, reservation')
      BY <1>1, <1>6, <2>1 DEF Calls, CheckOutRead, Booked
    <2> QED
      BY <1>1, <2>1, <2>2, OneCall
  <1>7. ASSUME NEW m \in Rooms, SelectRead(r, i, m) PROVE Rows'
    <2> DEFINE h == [op |-> "select", id |-> i, roomId |-> m]
    <2>1. req' = [req EXCEPT ![r] = h] /\ "op" \in DOMAIN h
      BY <1>7 DEF SelectRead, Begin
    <2>2. Calls(h, reservation')
      BY <1>1, <1>7 DEF Calls, Booked
    <2> QED
      BY <1>1, <2>1, <2>2, OneCall
  <1>8. ASSUME NEW m \in Rooms, MoveRead(r, i, m) PROVE Rows'
    <2> PICK h : h = [op |-> "move", id |-> i, from |-> reservation[i].roomId, to |-> m,
                      segment |-> SegmentToMove(reservation[i]),
                      status |-> room[m].status, stage |-> room[m].hkStage]
      OBVIOUS
    <2>1. /\ req' = [req EXCEPT ![r] = h] /\ "op" \in DOMAIN h
          /\ h.op = "move" /\ h.id = i /\ h.to = m
      BY <1>8 DEF MoveRead, Begin
    <2>2. Calls(h, reservation')
      BY <1>1, <2>1 DEF Calls, Booked
    <2> QED
      BY <1>1, <2>1, <2>2, OneCall
  <1> QED
    BY <1>2, <1>3, <1>4, <1>5, <1>6, <1>7, <1>8

\* What is written are sound rows.
LEMMA BookWrites ==
    ASSUME OneAtATime, Rows, NEW r \in Requests, scene' = scene, BookInsert(r)
    PROVE  /\ Rows'
           /\ Over(req[r].dto, [block |-> NoBlock]) \in SoundRows
           /\ reservation' = Append(reservation, Over(req[r].dto, [block |-> NoBlock]))
  <1>1. Over(req[r].dto, [block |-> NoBlock]) \in SoundRows
    BY DEF BookInsert, Rows, Calls
  <1>2. reservation' = Append(reservation, Over(req[r].dto, [block |-> NoBlock])) /\ End(r)
    BY DEF BookInsert
  <1>3. reservation' \in Seq(SoundRows)
    BY <1>1, <1>2, AppendProperties DEF Rows
  <1> QED
    BY <1>1, <1>2, <1>3, Ended

LEMMA ChangeWrites ==
    ASSUME Rows, NEW r \in Requests, req[r].op \in {"update", "selectWrite"},
           reservation' = [reservation EXCEPT ![req[r].id] = Over(req[r].data, @)]
    PROVE  /\ req[r].id \in Booked
           /\ Over(req[r].data, reservation[req[r].id]) \in SoundRows
           /\ reservation' \in Seq(SoundRows)
           /\ reservation' = [reservation EXCEPT ![req[r].id] =
                                    Over(req[r].data, reservation[req[r].id])]
  <1>1. req[r].id \in Booked /\ Over(req[r].data, reservation[req[r].id]) \in SoundRows
    BY DEF Rows, Calls, Booked
  <1>2. reservation' = [reservation EXCEPT ![req[r].id] =
                            Over(req[r].data, reservation[req[r].id])]
    OBVIOUS
  <1> QED
    BY <1>1, <1>2, RowWritten

LEMMA MoveWrites ==
    ASSUME OneAtATime, Rows, NEW r \in Requests, scene' = scene, MoveWrite(r)
    PROVE  /\ Rows'
           /\ req[r].id \in Booked /\ req[r].to \in Rooms
           /\ Moved(reservation[req[r].id], req[r].segment, req[r].to) \in SoundRows
           /\ reservation' = [reservation EXCEPT ![req[r].id] =
                                Moved(reservation[req[r].id], req[r].segment, req[r].to)]
  <1> DEFINE q == req[r]
             t == Moved(reservation[q.id], q.segment, q.to)
  <1>1. q.id \in Booked /\ q.to \in Rooms
    BY DEF MoveWrite, Rows, Calls, Booked
  <1>2. t \in SoundRows
    BY <1>1, Booked1, MoveKeepsSound
  <1>3. reservation' = [reservation EXCEPT
                ![q.id].roomId = q.to,
                ![q.id].stays = [n \in DOMAIN @ |->
                    IF n = q.segment THEN [@[n] EXCEPT !.room = q.to] ELSE @[n]]]
    BY DEF MoveWrite
  <1>4. reservation[q.id] \in Row
    BY <1>1, Booked1
  <1>5. reservation' = [reservation EXCEPT ![q.id] = t]
    BY <1>3, <1>4 DEF Moved, Row
  <1>6. reservation' \in Seq(SoundRows)
    <2> HIDE DEF t, q
    <2>1. [reservation EXCEPT ![q.id] = t] \in Seq(SoundRows)
      BY <1>2, RowWritten
    <2> QED
      BY <1>5, <2>1
  <1>7. End(r)
    BY DEF MoveWrite
  <1> QED
    BY <1>1, <1>2, <1>5, <1>6, <1>7, Ended

LEMMA ReservationStep ==
    ASSUME OneAtATime, Rows, NEW r \in Requests, scene' = scene, ReservationNext(r)
    PROVE  Rows'
  <1>0. reservation \in Seq(SoundRows)
    BY DEF Rows
  <1>1. ASSUME NEW dto \in scene.bookings, BookCheck(r, dto) PROVE Rows'
    BY <1>1, BookReads
  <1>2. CASE BookInsert(r)
    BY <1>2, BookWrites
  <1>3. ASSUME NEW i \in Booked, NEW c \in scene.changes, UpdateRead(r, i, c) PROVE Rows'
    <2>1. GivesFields(c)
      BY FrontOfficeAssumption DEF Rows
    <2> PICK h : h = [op |-> "update", id |-> i, data |-> UpdateData(reservation[i], c)]
      OBVIOUS
    <2>2. /\ req' = [req EXCEPT ![r] = h] /\ "op" \in DOMAIN h /\ h.op = "update" /\ h.id = i
          /\ h.data = UpdateData(reservation[i], c)
          /\ ChangeAllowed(i, c) /\ reservation' = reservation
      BY <1>3 DEF UpdateRead, Begin
    <2> QED
      BY <2>1, <2>2, ChangeReads
  <1>4. ASSUME NEW i \in Booked,
               \/ CancelRead(r, i) \/ WalkRead(r, i) \/ \E asOf \in Days : NoShowRead(r, i, asOf)
               \/ CheckInRead(r, i) \/ CheckOutRead(r, i)
               \/ \E m \in Rooms : SelectRead(r, i, m) \/ MoveRead(r, i, m)
        PROVE  Rows'
    BY <1>4, GuestReads
  <1>5. CASE UpdateWrite(r)
    <2>1. /\ req[r].op \in {"update", "selectWrite"}
          /\ reservation' = [reservation EXCEPT ![req[r].id] = Over(req[r].data, @)]
          /\ End(r)
      BY <1>5 DEF UpdateWrite
    <2>2. reservation' \in Seq(SoundRows)
      BY <2>1, ChangeWrites
    <2> QED
      BY <2>1, <2>2, Ended
  <1>6. CASE SelectUpdate(r)
    <2> DEFINE c == [roomId |-> req[r].roomId]
    <2>1. req[r].id \in Booked /\ req[r].roomId \in Rooms
      BY <1>6 DEF SelectUpdate, Rows, Calls, Booked
    <2>2. GivesFields(c)
      BY <2>1 DEF GivesFields, Fields
    <2> PICK i, d : i = req[r].id /\ d = c
      OBVIOUS
    <2> PICK h : h = [op |-> "selectWrite", id |-> i, roomId |-> req[r].roomId,
                      data |-> UpdateData(reservation[i], d)]
      OBVIOUS
    <2>3. /\ req' = [req EXCEPT ![r] = h] /\ "op" \in DOMAIN h /\ h.op = "selectWrite" /\ h.id = i
          /\ h.data = UpdateData(reservation[i], d)
          /\ ChangeAllowed(i, d) /\ reservation' = reservation
      BY <1>6 DEF SelectUpdate, Continue
    <2> QED
      BY <2>1, <2>2, <2>3, ChangeReads
  <1>7. CASE SelectWrite(r)
    <2>1. reservation' \in Seq(SoundRows)
      BY <1>7, ChangeWrites DEF SelectWrite
    <2> PICK h : h = [op |-> "selected", id |-> req[r].id, roomId |-> req[r].roomId]
      OBVIOUS
    <2>2. req' = [req EXCEPT ![r] = h] /\ "op" \in DOMAIN h /\ h.op \notin Carrying
      BY <1>7 DEF SelectWrite, Continue, Carrying
    <2> QED
      BY <2>1, <2>2, OtherCall
  <1>8. CASE SelectAnswer(r) \/ CheckInRoom(r) \/ CheckOutRoom(r)
    BY <1>0, <1>8, Ended DEF SelectAnswer, CheckInRoom, CheckOutRoom
  <1>9. CASE CancelWrite(r) \/ WalkWrite(r) \/ NoShowWrite(r)
    <2>1. "CANCELLED" \in ReservationStatus /\ "WALKED" \in ReservationStatus
          /\ "NO_SHOW" \in ReservationStatus
      BY DEF ReservationStatus
    <2>2. reservation' \in Seq(SoundRows) /\ End(r)
      BY <1>9, <2>1, StatusWritten DEF CancelWrite, WalkWrite, NoShowWrite
    <2> QED
      BY <2>2, Ended
  <1>10. CASE CheckInWrite(r) \/ CheckOutWrite(r)
    <2>1. "CHECKED_IN" \in ReservationStatus /\ "CHECKED_OUT" \in ReservationStatus
      BY DEF ReservationStatus
    <2>2. reservation' \in Seq(SoundRows)
      BY <1>10, <2>1, StatusWritten DEF CheckInWrite, CheckOutWrite
    <2> PICK h : \/ h = [req[r] EXCEPT !.op = "checkInRoom"] /\ CheckInWrite(r)
                 \/ h = [req[r] EXCEPT !.op = "checkOutRoom"] /\ CheckOutWrite(r)
      BY <1>10
    <2>3. req' = [req EXCEPT ![r] = h]
      BY DEF CheckInWrite, CheckOutWrite
    <2>4. "op" \in DOMAIN req[r]
      BY DEF Rows
    <2>5. "op" \in DOMAIN h /\ h.op \notin Carrying
      BY <2>4 DEF Carrying
    <2> QED
      BY <2>2, <2>3, <2>5, OtherCall
  <1>11. CASE MoveWrite(r)
    BY <1>11, MoveWrites
  <1> QED
    BY <1>1, <1>2, <1>3, <1>4, <1>5, <1>6, <1>7, <1>8, <1>9, <1>10, <1>11 DEF ReservationNext

LEMMA RoomStep ==
    ASSUME OneAtATime, Rows, NEW r \in Requests, scene' = scene, RoomNext(r)
    PROVE  Rows' /\ reservation' = reservation
  <1>1. reservation' = reservation /\ reservation' \in Seq(SoundRows)
    BY DEF Rows, RoomNext, UpdateStatusRead, CreateRoom, EditRoom, RemoveRoom, MarkCleanRead,
        SetGuestRequest, InspectRead, UpdateStatusWrite, MarkCleanWrite, InspectWrite
  <1>2. CASE UNCHANGED req
    BY <1>1, <1>2 DEF Rows
  <1>3. CASE End(r)
    BY <1>1, <1>3, Ended
  <1>4. CASE \E h : "op" \in DOMAIN h /\ h.op \notin Carrying /\ req' = [req EXCEPT ![r] = h]
    BY <1>1, <1>4, OtherCall
  <1>5. ASSUME NEW m \in scene.kept, NEW s \in DeskStatuses, UpdateStatusRead(r, m, s)
        PROVE  \E h : "op" \in DOMAIN h /\ h.op \notin Carrying /\ req' = [req EXCEPT ![r] = h]
    <2> WITNESS [op |-> "updateStatus", room |-> m, status |-> s, stage |-> room[m].hkStage]
    <2> QED
      BY <1>5 DEF UpdateStatusRead, Begin, Carrying
  <1>6. ASSUME NEW m \in scene.kept, MarkCleanRead(r, m)
        PROVE  \E h : "op" \in DOMAIN h /\ h.op \notin Carrying /\ req' = [req EXCEPT ![r] = h]
    <2> WITNESS [op |-> "markClean", room |-> m, status |-> room[m].status]
    <2> QED
      BY <1>6 DEF MarkCleanRead, Begin, Carrying
  <1>7. ASSUME NEW m \in scene.kept, NEW passed \in BOOLEAN, InspectRead(r, m, passed)
        PROVE  \E h : "op" \in DOMAIN h /\ h.op \notin Carrying /\ req' = [req EXCEPT ![r] = h]
    <2> WITNESS [op |-> "inspect", room |-> m, passed |-> passed, status |-> room[m].status]
    <2> QED
      BY <1>7 DEF InspectRead, Begin, Carrying
  <1>8. ASSUME NEW m \in scene.kept,
               \/ \E s \in EditStatuses : CreateRoom(r, m, s) \/ EditRoom(r, m, s)
               \/ RemoveRoom(r, m) \/ \E q \in GuestRequests : SetGuestRequest(r, m, q)
        PROVE  UNCHANGED req
    BY <1>8 DEF CreateRoom, EditRoom, RemoveRoom, SetGuestRequest
  <1>9. UpdateStatusWrite(r) \/ MarkCleanWrite(r) \/ InspectWrite(r) => End(r)
    BY DEF UpdateStatusWrite, MarkCleanWrite, InspectWrite
  <1> QED
    BY <1>1, <1>2, <1>3, <1>4, <1>5, <1>6, <1>7, <1>8, <1>9 DEF RoomNext

LEMMA BlockStep ==
    ASSUME OneAtATime, Rows, NEW r \in Requests, scene' = scene, BlockNext(r)
    PROVE  Rows'
  <1>0. reservation \in Seq(SoundRows)
    BY DEF Rows
  <1>1. ASSUME NEW b \in Blocks,
               \/ \E terms \in scene.terms : CreateBlock(r, b, terms)
               \/ \E c \in BlockChanges : UpdateBlock(r, b, c)
               \/ FindBlock(r, b)
        PROVE  Rows'
    BY <1>1 DEF CreateBlock, UpdateBlock, FindBlock, Rows
  <1>2. ASSUME NEW b \in Blocks, ReleaseRead(r, b) PROVE Rows'
    <2> PICK h : h = [op |-> "release", block |-> b, released |->
                      block[b].released + RemainingRooms(b, Cardinality(Pickup(b)))]
      OBVIOUS
    <2>1. /\ req' = [req EXCEPT ![r] = h] /\ "op" \in DOMAIN h /\ h.op \notin Carrying
          /\ reservation' = reservation
      BY <1>2 DEF ReleaseRead, Begin, Carrying
    <2> QED
      BY <1>0, <2>1, OtherCall
  <1>3. ASSUME NEW b \in Blocks, NEW i \in Booked, AttachRead(r, b, i) PROVE Rows'
    <2> DEFINE h == [op |-> "attach", id |-> i, block |-> b]
    <2>1. req' = [req EXCEPT ![r] = h] /\ "op" \in DOMAIN h /\ reservation' = reservation
      BY <1>3 DEF AttachRead, Begin
    <2>2. Calls(h, reservation')
      BY <2>1 DEF Calls, Booked
    <2> QED
      BY <1>0, <2>1, <2>2, OneCall
  <1>4. ASSUME NEW b \in Blocks, NEW i \in Booked, DetachRead(r, b, i) PROVE Rows'
    <2> DEFINE h == [op |-> "detach", id |-> i]
    <2>1. /\ req' = [req EXCEPT ![r] = h] /\ "op" \in DOMAIN h /\ h.op \notin Carrying
          /\ reservation' = reservation
      BY <1>4 DEF DetachRead, Begin, Carrying
    <2> QED
      BY <1>0, <2>1, OtherCall
  <1>5. ASSUME NEW i, NEW b, i \in Booked => b \in Blocks \cup {NoBlock},
               reservation' = [reservation EXCEPT ![i].block = b], End(r)
        PROVE  Rows'
    <2>1. reservation' = [reservation EXCEPT ![i] = [reservation[i] EXCEPT !.block = b]]
      BY <1>5
    <2>2. i \in Booked => [reservation[i] EXCEPT !.block = b] \in SoundRows
      BY <1>5, Booked1, BlockKeepsSound
    <2>3. reservation' \in Seq(SoundRows)
      BY <2>1, <2>2, RowWritten
    <2> QED
      BY <1>5, <2>3, Ended
  <1>6. CASE AttachWrite(r)
    <2>1. req[r].block \in Blocks
      BY <1>6 DEF AttachWrite, Rows, Calls
    <2> QED
      BY <1>5, <1>6, <2>1 DEF AttachWrite
  <1>7. CASE DetachWrite(r)
    BY <1>5, <1>7 DEF DetachWrite
  <1>8. CASE ReleaseWrite(r)
    BY <1>0, <1>8, Ended DEF ReleaseWrite
  <1> QED
    BY <1>1, <1>2, <1>3, <1>4, <1>6, <1>7, <1>8 DEF BlockNext

LEMMA RowsInit == Init => Rows
  BY DEF Init, Rows, Calls, Idle

LEMMA RowsNext == ASSUME OneAtATime, Rows, [Next /\ UNCHANGED scene]_<<vars, scene>> PROVE Rows'
  <1>1. CASE UNCHANGED <<vars, scene>>
    BY <1>1 DEF Rows, vars
  <1>2. CASE NextDay /\ scene' = scene
    BY <1>2 DEF Rows, NextDay
  <1>3. ASSUME NEW r \in Requests, Fail(r), scene' = scene PROVE Rows'
    <2>1. reservation' \in Seq(SoundRows) /\ End(r)
      BY <1>3 DEF Rows, Fail
    <2> QED
      BY <1>3, <2>1, Ended
  <1> QED
    BY <1>1, <1>2, <1>3, ReservationStep, RoomStep, BlockStep DEF Next

LEMMA AlwaysRows == ASSUME OneAtATime PROVE Spec => []Rows
  <1>1. Rows /\ [Next /\ UNCHANGED scene]_<<vars, scene>> => Rows'
    BY RowsNext
  <1> QED
    BY <1>1, RowsInit, PTL DEF Spec

-----------------------------------------------------------------------------
\* Whatever is updated or moved, the segments of every split stay follow one
\* another from arrival to departure.
THEOREM StaysAreTiled == ASSUME OneAtATime PROVE Spec => []StaysTileTheBooking
  <1>1. Rows => StaysTileTheBooking
    BY Booked1 DEF SoundRows, Sound, Tiles, StaysTileTheBooking
  <1> QED
    BY <1>1, AlwaysRows, PTL

\* A room that is offered for some nights can be booked for them.
THEOREM OffersHold == ASSUME OneAtATime PROVE Spec => []OffersAreBookable
  <1>1. ASSUME Rows, NEW from \in Days, NEW to \in Days, from < to, NEW m \in Available(from, to),
               ~ \E i \in Active : /\ reservation[i].isDayUse /\ reservation[i].roomId = m
                                  /\ reservation[i].checkIn = from
        PROVE  RoomsAvailable(Windows(m, from, to, FALSE, <<>>), 0)
    <2> DEFINE w == [room |-> m, from |-> from, to |-> to, dayUse |-> FALSE]
    <2>1. Windows(m, from, to, FALSE, <<>>) = {w}
      BY DEF Windows
    <2>2. OccupancyEnd(w.from, w.to, w.dayUse) = to
      BY DEF OccupancyEnd
    <2>3. ASSUME NEW i \in Booked PROVE ~HeaderConflict(w, i) /\ ~SegmentConflict(w, i)
      <3> DEFINE s == reservation[i]
      <3>0. s \in SoundRows
        BY <1>1, Booked1
      <3>1. s \in Row /\ StayDatesOk(s.checkIn, s.checkOut, s.isDayUse)
        BY <3>0 DEF SoundRows, Sound
      <3>2. IsActive(s.status) =>
                /\ ~(s.stays = <<>> /\ s.roomId = m /\ s.checkIn < to /\ s.checkOut > from)
                /\ \A n \in DOMAIN s.stays :
                    ~(s.stays[n].room = m /\ s.stays[n].from < to /\ s.stays[n].to > from)
        BY <1>1 DEF Available
      <3>3. IsActive(s.status) /\ s.isDayUse /\ s.roomId = m => s.checkIn # from
        BY <1>1 DEF Active
      <3>4. ~SegmentConflict(w, i)
        BY <3>2 DEF SegmentConflict
      <3>5. s.checkIn \in Int /\ s.checkOut \in Int /\ from \in Int /\ to \in Int
        BY <3>1, FrontOfficeAssumption DEF Row, Days
      <3>6. ~HeaderConflict(w, i)
        <4>1. w.room = m /\ w.from = from
          OBVIOUS
        <4>2. HeaderConflict(w, i) =>
                /\ s.roomId = m /\ s.stays = <<>> /\ IsActive(s.status)
                /\ IF s.isDayUse THEN from <= s.checkIn /\ s.checkIn < to
                                 ELSE s.checkIn < to /\ s.checkOut > from
          BY <2>2, <4>1 DEF HeaderConflict
        <4> HIDE DEF w, s
        <4> QED
          BY <3>1, <3>2, <3>3, <3>5, <4>2 DEF StayDatesOk
      <3> QED
        BY <3>4, <3>6
    <2> QED
      BY <2>1, <2>3 DEF RoomsAvailable
  <1>2. Rows => OffersAreBookable
    BY <1>1 DEF OffersAreBookable
  <1> QED
    BY <1>2, AlwaysRows, PTL

-----------------------------------------------------------------------------
(* Rooms and housekeeping *)

RoomRow(x) == "status" \in DOMAIN x /\ "hkStage" \in DOMAIN x
RoomRows == DOMAIN room = Rooms /\ \A m \in Rooms : RoomRow(room[m])

\* What a call in flight has read of the room it is going to write.
AsRead(h, rooms) ==
    /\ h.op \in {"checkIn", "checkInRoom"} =>
        /\ {"roomId", "stage"} \subseteq DOMAIN h
        /\ h.roomId \in Rooms => h.stage = rooms[h.roomId].hkStage
    /\ h.op = "move" => h.from # h.to /\ h.stage = rooms[h.to].hkStage
    /\ h.op = "updateStatus" => h.stage = rooms[h.room].hkStage
    /\ h.op = "markClean" => rooms[h.room].hkStage = "DIRTY"
    /\ h.op = "inspect" => /\ rooms[h.room].hkStage = "CLEAN"
                           /\ rooms[h.room].status \notin CLOSED_STATUSES
ReadingRooms == {"checkIn", "checkInRoom", "move", "updateStatus", "markClean", "inspect"}

Kept ==
    /\ DOMAIN req = Requests /\ \A r \in Requests : "op" \in DOMAIN req[r]
    /\ RoomRows
    /\ \A r \in Requests : AsRead(req[r], room)

\* What RoomsAreReadied says of a step.
Readied ==
    \A m \in Listed : room'[m].status # "NONE" =>
        /\ HousekeepingOrder(room[m], room'[m])
        /\ Dirtied(room[m], room'[m]) /\ room'[m].hkStage # "DIRTY" =>
            \E r \in Requests : EditRoom(r, m, room'[m].status)

LEMMA OthersRead ==
    ASSUME NEW h, h.op \notin ReadingRooms, NEW rooms
    PROVE  AsRead(h, rooms)
  BY DEF AsRead, ReadingRooms

LEMMA CallKept ==
    ASSUME OneAtATime, Kept, NEW r \in Requests, NEW h, "op" \in DOMAIN h,
           req' = [req EXCEPT ![r] = h], RoomRows', AsRead(h, room')
    PROVE  Kept'
  <1>1. DOMAIN req' = Requests /\ req'[r] = h /\ \A q \in Requests : q = r
    BY DEF Kept, OneAtATime
  <1> QED
    BY <1>1 DEF Kept

LEMMA EndedKept ==
    ASSUME OneAtATime, Kept, NEW r \in Requests, End(r), RoomRows'
    PROVE  Kept'
  <1>1. "op" \in DOMAIN Idle /\ Idle.op \notin ReadingRooms
    BY DEF Idle, ReadingRooms
  <1> QED
    BY <1>1, CallKept, OthersRead DEF End

\* A room that is not written is as it was.
LEMMA RoomsLeft == ASSUME Kept, UNCHANGED room PROVE RoomRows' /\ Readied
  <1>1. \A m : HousekeepingOrder(room[m], room[m]) /\ ~Dirtied(room[m], room[m])
    BY DEF HousekeepingOrder, Dirtied
  <1> QED
    BY <1>1 DEF Kept, RoomRows, Readied

\* A room that is written is the only one.
LEMMA RoomWritten ==
    ASSUME Kept, NEW m, NEW status, NEW stage, SetRoom(m, status, stage),
           m \in Rooms => HousekeepingOrder(room[m], [status |-> status, hkStage |-> stage]),
           status \in DIRTY_STATUSES => stage = "DIRTY"
    PROVE  RoomRows' /\ Readied
  <1>1. RoomRows'
    BY DEF Kept, RoomRows, SetRoom, RoomRow
  <1>2. ASSUME NEW k \in Listed
        PROVE  /\ HousekeepingOrder(room[k], room'[k])
               /\ Dirtied(room[k], room'[k]) => room'[k].hkStage = "DIRTY"
    <2>1. CASE k = m
      <3>1. room'[k].status = status /\ room'[k].hkStage = stage
        BY <2>1 DEF Kept, RoomRows, SetRoom, RoomRow, Listed
      <3> QED
        BY <2>1, <3>1 DEF HousekeepingOrder, Dirtied, Listed
    <2>2. CASE k # m
      <3>1. room'[k] = room[k]
        BY <2>2 DEF Kept, RoomRows, SetRoom, Listed
      <3> QED
        BY <3>1 DEF HousekeepingOrder, Dirtied
    <2> QED
      BY <2>1, <2>2
  <1> QED
    BY <1>1, <1>2 DEF Readied

\* What a status change does to the stage it has read.
LEMMA StageFollows ==
    ASSUME NEW status, NEW old
    PROVE  LET stage == HkStageForStatusChange(status, old.hkStage)
           IN  /\ HousekeepingOrder(old, [status |-> status, hkStage |-> stage])
               /\ status \in DIRTY_STATUSES => stage = "DIRTY"
  BY DEF HkStageForStatusChange, HousekeepingOrder

\* The steps of a reservation, of a block: rooms change when a guest comes,
\* goes or moves.
LEMMA ReservationKeepsRooms ==
    ASSUME OneAtATime, Kept, NEW r \in Requests, ReservationNext(r)
    PROVE  Kept' /\ Readied
  <1> DEFINE Clean == RoomRows' /\ Readied
             Goal == Kept' /\ Readied
             Other == \E h : /\ "op" \in DOMAIN h /\ h.op \notin ReadingRooms
                              /\ req' = [req EXCEPT ![r] = h]
  <1>0. UNCHANGED room => Clean
    BY RoomsLeft
  <1>a. Clean /\ Other => Goal
    BY CallKept, OthersRead
  <1>b. Clean /\ End(r) => Goal
    BY EndedKept
  <1>c. ASSUME NEW h, "op" \in DOMAIN h, AsRead(h, room), req' = [req EXCEPT ![r] = h],
               UNCHANGED room
        PROVE  Goal
    BY <1>0, <1>c, CallKept
  <1> HIDE DEF Clean
  <1>1. CASE \E dto \in scene.bookings : BookCheck(r, dto)
    <2> PICK dto \in scene.bookings : BookCheck(r, dto)
      BY <1>1
    <2>1. Other
      <3> WITNESS [op |-> "book", dto |-> dto]
      <3> QED
        BY DEF BookCheck, Begin, ReadingRooms
    <2> QED
      BY <1>0, <1>a, <2>1 DEF BookCheck
  <1>2. CASE BookInsert(r) \/ UpdateWrite(r) \/ SelectAnswer(r) \/ CancelWrite(r)
             \/ WalkWrite(r) \/ NoShowWrite(r)
    BY <1>0, <1>b, <1>2 DEF BookInsert, UpdateWrite, SelectAnswer, CancelWrite, WalkWrite,
        NoShowWrite
  <1>3. ASSUME NEW i \in Booked, NEW c \in scene.changes, UpdateRead(r, i, c) PROVE Goal
    <2>1. Other
      <3> WITNESS [op |-> "update", id |-> i, data |-> UpdateData(reservation[i], c)]
      <3> QED
        BY <1>3 DEF UpdateRead, Begin, ReadingRooms
    <2> QED
      BY <1>0, <1>3, <1>a, <2>1 DEF UpdateRead
  <1>4. ASSUME NEW i \in Booked, NEW m \in Rooms, SelectRead(r, i, m) PROVE Goal
    <2>1. Other
      <3> WITNESS [op |-> "select", id |-> i, roomId |-> m]
      <3> QED
        BY <1>4 DEF SelectRead, Begin, ReadingRooms
    <2> QED
      BY <1>0, <1>4, <1>a, <2>1 DEF SelectRead
  <1>5. ASSUME NEW i \in Booked, CancelRead(r, i) PROVE Goal
    <2>1. Other
      <3> WITNESS [op |-> "cancel", id |-> i]
      <3> QED
        BY <1>5 DEF CancelRead, Begin, ReadingRooms
    <2> QED
      BY <1>0, <1>5, <1>a, <2>1 DEF CancelRead
  <1>6. ASSUME NEW i \in Booked, WalkRead(r, i) PROVE Goal
    <2>1. Other
      <3> WITNESS [op |-> "walk", id |-> i]
      <3> QED
        BY <1>6 DEF WalkRead, Begin, ReadingRooms
    <2> QED
      BY <1>0, <1>6, <1>a, <2>1 DEF WalkRead
  <1>7. ASSUME NEW i \in Booked, NEW asOf \in Days, NoShowRead(r, i, asOf) PROVE Goal
    <2>1. Other
      <3> WITNESS [op |-> "noShow", id |-> i]
      <3> QED
        BY <1>7 DEF NoShowRead, Begin, ReadingRooms
    <2> QED
      BY <1>0, <1>7, <1>a, <2>1 DEF NoShowRead
  <1>8. ASSUME NEW i \in Booked, CheckInRead(r, i) PROVE Goal
    <2> PICK h : h = [op |-> "checkIn", id |-> i, roomId |-> reservation[i].roomId,
                      stage |-> room[reservation[i].roomId].hkStage]
      OBVIOUS
    <2>1. /\ req' = [req EXCEPT ![r] = h] /\ UNCHANGED room
          /\ "op" \in DOMAIN h /\ AsRead(h, room)
      BY <1>8 DEF CheckInRead, Begin, AsRead
    <2> QED
      BY <1>c, <2>1
  <1>9. ASSUME NEW i \in Booked, CheckOutRead(r, i) PROVE Goal
    <2>1. Other
      <3> WITNESS [op |-> "checkOut", id |-> i, roomId |-> reservation[i].roomId]
      <3> QED
        BY <1>9 DEF CheckOutRead, Begin, ReadingRooms
    <2> QED
      BY <1>0, <1>9, <1>a, <2>1 DEF CheckOutRead
  <1>10. ASSUME NEW i \in Booked, NEW to \in Rooms, MoveRead(r, i, to) PROVE Goal
    <2> PICK h : h = [op |-> "move", id |-> i, from |-> reservation[i].roomId, to |-> to,
                      segment |-> SegmentToMove(reservation[i]),
                      status |-> room[to].status, stage |-> room[to].hkStage]
      OBVIOUS
    <2>1. /\ req' = [req EXCEPT ![r] = h] /\ UNCHANGED room /\ to # reservation[i].roomId
      BY <1>10 DEF MoveRead, Begin
    <2>2. "op" \in DOMAIN h /\ h.op = "move" /\ h.from # h.to /\ h.stage = room[h.to].hkStage
      BY <2>1
    <2>3. AsRead(h, room)
      BY <2>2 DEF AsRead
    <2> QED
      BY <1>c, <2>1, <2>2, <2>3
  <1>11. CASE SelectUpdate(r)
    <2>1. Other
      <3> WITNESS [op |-> "selectWrite", id |-> req[r].id, roomId |-> req[r].roomId,
                   data |-> UpdateData(reservation[req[r].id], [roomId |-> req[r].roomId])]
      <3> QED
        BY <1>11 DEF SelectUpdate, Continue, ReadingRooms
    <2> QED
      BY <1>0, <1>11, <1>a, <2>1 DEF SelectUpdate
  <1>12. CASE SelectWrite(r)
    <2>1. Other
      <3> WITNESS [op |-> "selected", id |-> req[r].id, roomId |-> req[r].roomId]
      <3> QED
        BY <1>12 DEF SelectWrite, Continue, ReadingRooms
    <2> QED
      BY <1>0, <1>12, <1>a, <2>1 DEF SelectWrite
  <1>13. CASE CheckInWrite(r)
    <2> PICK h : h = [req[r] EXCEPT !.op = "checkInRoom"]
      OBVIOUS
    <2>1. /\ req[r].op = "checkIn" /\ "op" \in DOMAIN req[r] /\ AsRead(req[r], room)
          /\ req' = [req EXCEPT ![r] = h] /\ UNCHANGED room
      BY <1>13 DEF CheckInWrite, Kept
    <2>2. {"roomId", "stage"} \subseteq DOMAIN req[r]
      BY <2>1 DEF AsRead
    <2>3. /\ "op" \in DOMAIN h /\ h.op = "checkInRoom" /\ h.roomId = req[r].roomId
          /\ h.stage = req[r].stage /\ DOMAIN h = DOMAIN req[r]
      BY <2>1, <2>2
    <2>4. AsRead(h, room)
      BY <2>1, <2>2, <2>3 DEF AsRead
    <2> QED
      BY <1>c, <2>1, <2>3, <2>4
  <1>14. CASE CheckOutWrite(r)
    <2>1. Other
      <3> WITNESS [req[r] EXCEPT !.op = "checkOutRoom"]
      <3> QED
        BY <1>14 DEF CheckOutWrite, Kept, ReadingRooms
    <2> QED
      BY <1>0, <1>14, <1>a, <2>1 DEF CheckOutWrite
  <1>15. CASE CheckInRoom(r)
    <2>1. req[r].roomId \in Rooms => req[r].stage = room[req[r].roomId].hkStage
      BY <1>15 DEF CheckInRoom, Kept, AsRead
    <2>2. req[r].roomId \in Rooms =>
              HousekeepingOrder(room[req[r].roomId], [status |-> "OCCUPIED_CLEAN",
                  hkStage |-> HkStageForStatusChange("OCCUPIED_CLEAN", req[r].stage)])
      BY <2>1, StageFollows
    <2>3. "OCCUPIED_CLEAN" \notin DIRTY_STATUSES
      BY DEF DIRTY_STATUSES
    <2>4. Clean
      BY <1>15, <2>2, <2>3, RoomWritten DEF CheckInRoom, Clean
    <2> QED
      BY <1>15, <1>b, <2>4 DEF CheckInRoom
  <1>16. CASE CheckOutRoom(r)
    <2> DEFINE new == [status |-> "VACANT_DIRTY", hkStage |-> "DIRTY", guestRequest |-> "NONE"]
    <2>1. room' = [room EXCEPT ![req[r].roomId] = new]
      BY <1>16 DEF CheckOutRoom
    <2>2. RoomRow(new) /\ new.hkStage = "DIRTY" /\ new.status \in DIRTY_STATUSES
      BY DEF RoomRow, DIRTY_STATUSES
    <2> HIDE DEF new
    <2>3. \A m \in Rooms : room'[m] = room[m] \/ room'[m] = new
      BY <2>1 DEF Kept, RoomRows
    <2>4. RoomRows'
      BY <2>1, <2>2, <2>3 DEF Kept, RoomRows
    <2>5. Readied
      BY <2>2, <2>3 DEF Readied, HousekeepingOrder, Dirtied, Listed
    <2> QED
      BY <1>16, <1>b, <2>4, <2>5 DEF CheckOutRoom, Clean
  <1>17. CASE MoveWrite(r)
    <2> DEFINE q == req[r]
               status == OccupiedStatusForVacant(q.status)
               stage == HkStageForStatusChange(status, q.stage)
    <2>1. room' = [room EXCEPT ![q.from].status = "VACANT_DIRTY", ![q.from].hkStage = "DIRTY",
                               ![q.to].status = status, ![q.to].hkStage = stage]
      BY <1>17 DEF MoveWrite
    <2>2. q.from # q.to /\ q.stage = room[q.to].hkStage
      BY <1>17 DEF MoveWrite, Kept, AsRead
    <2>3. /\ HousekeepingOrder(room[q.to], [status |-> status, hkStage |-> stage])
          /\ status \in DIRTY_STATUSES => stage = "DIRTY"
      BY <2>2, StageFollows
    <2> HIDE DEF q, status, stage
    <2>4. RoomRows'
      BY <2>1 DEF Kept, RoomRows, RoomRow
    <2>5. ASSUME NEW m \in Listed
          PROVE  /\ HousekeepingOrder(room[m], room'[m])
                 /\ Dirtied(room[m], room'[m]) => room'[m].hkStage = "DIRTY"
      <3>0. m \in Rooms /\ RoomRow(room[m])
        BY DEF Listed, Kept, RoomRows
      <3>1. CASE m = q.to
        <4>1. room'[m].status = status /\ room'[m].hkStage = stage
          BY <2>1, <2>2, <3>0, <3>1 DEF Kept, RoomRows, RoomRow
        <4> QED
          BY <2>3, <3>1, <4>1 DEF HousekeepingOrder, Dirtied
      <3>2. CASE m = q.from
        <4>1. room'[m].status = "VACANT_DIRTY" /\ room'[m].hkStage = "DIRTY"
          BY <2>1, <2>2, <3>0, <3>2 DEF Kept, RoomRows, RoomRow
        <4> QED
          BY <4>1 DEF HousekeepingOrder, Dirtied, DIRTY_STATUSES
      <3>3. CASE m # q.to /\ m # q.from
        <4>1. room'[m] = room[m]
          BY <2>1, <3>0, <3>3 DEF Kept, RoomRows
        <4> QED
          BY <4>1 DEF HousekeepingOrder, Dirtied
      <3> QED
        BY <3>1, <3>2, <3>3
    <2>6. Clean
      BY <2>4, <2>5 DEF Readied, Clean
    <2> QED
      BY <1>17, <1>b, <2>6 DEF MoveWrite
  <1> QED
    BY <1>1, <1>2, <1>3, <1>4, <1>5, <1>6, <1>7, <1>8, <1>9, <1>10, <1>11, <1>12, <1>13, <1>14,
       <1>15, <1>16, <1>17 DEF ReservationNext

LEMMA HousekeepingKeepsRooms ==
    ASSUME OneAtATime, Kept, NEW r \in Requests, RoomNext(r)
    PROVE  Kept' /\ Readied
  <1> DEFINE Clean == RoomRows' /\ Readied
             Goal == Kept' /\ Readied
             Other == \E h : /\ "op" \in DOMAIN h /\ h.op \notin ReadingRooms
                              /\ req' = [req EXCEPT ![r] = h]
  <1>0. UNCHANGED room => Clean
    BY RoomsLeft
  <1>a. Clean /\ Other => Goal
    BY CallKept, OthersRead
  <1>b. Clean /\ End(r) => Goal
    BY EndedKept
  <1>c. ASSUME NEW h, "op" \in DOMAIN h, AsRead(h, room), req' = [req EXCEPT ![r] = h],
               UNCHANGED room
        PROVE  Goal
    BY <1>0, <1>c, CallKept
  <1>d. req[r] = Idle /\ UNCHANGED req /\ Clean => Goal
    <2> SUFFICES ASSUME req[r] = Idle, UNCHANGED req, Clean PROVE Goal
      OBVIOUS
    <2>1. \A q \in Requests : AsRead(req'[q], room')
      <3>1. \A q \in Requests : req'[q].op \notin ReadingRooms
        BY DEF OneAtATime, Idle, ReadingRooms
      <3> QED
        BY <3>1, OthersRead
    <2> QED
      BY <2>1 DEF Kept
  <1> HIDE DEF Clean
  <1>1. ASSUME NEW m \in scene.kept, NEW s \in DeskStatuses, UpdateStatusRead(r, m, s) PROVE Goal
    <2> PICK h : h = [op |-> "updateStatus", room |-> m, status |-> s, stage |-> room[m].hkStage]
      OBVIOUS
    <2>1. /\ req' = [req EXCEPT ![r] = h] /\ UNCHANGED room
          /\ "op" \in DOMAIN h /\ AsRead(h, room)
      BY <1>1 DEF UpdateStatusRead, Begin, AsRead
    <2> QED
      BY <1>c, <2>1
  <1>2. ASSUME NEW m \in scene.kept, MarkCleanRead(r, m) PROVE Goal
    <2> PICK h : h = [op |-> "markClean", room |-> m, status |-> room[m].status]
      OBVIOUS
    <2>1. /\ req' = [req EXCEPT ![r] = h] /\ UNCHANGED room
          /\ "op" \in DOMAIN h /\ AsRead(h, room)
      BY <1>2 DEF MarkCleanRead, Begin, AsRead
    <2> QED
      BY <1>c, <2>1
  <1>3. ASSUME NEW m \in scene.kept, NEW passed \in BOOLEAN, InspectRead(r, m, passed) PROVE Goal
    <2> PICK h : h = [op |-> "inspect", room |-> m, passed |-> passed,
                      status |-> room[m].status]
      OBVIOUS
    <2>1. /\ req' = [req EXCEPT ![r] = h] /\ UNCHANGED room
          /\ "op" \in DOMAIN h /\ AsRead(h, room)
      BY <1>3 DEF InspectRead, Begin, AsRead
    <2> QED
      BY <1>c, <2>1
  <1>4. ASSUME NEW m \in scene.kept, NEW s \in EditStatuses, CreateRoom(r, m, s) PROVE Goal
    <2> PICK new : new = [NoRoom EXCEPT !.status = s]
      OBVIOUS
    <2>1. room' = [room EXCEPT ![m] = new] /\ m \notin Listed /\ RoomRow(new)
      BY <1>4 DEF CreateRoom, RoomRow, NoRoom
    <2>2. RoomRows' /\ \A k \in Listed : room'[k] = room[k]
      BY <2>1 DEF Kept, RoomRows, Listed
    <2>3. Readied
      BY <2>2 DEF Readied, HousekeepingOrder, Dirtied
    <2> QED
      BY <1>4, <1>d, <2>2, <2>3 DEF CreateRoom, Clean
  <1>5. ASSUME NEW m \in scene.kept, NEW s \in EditStatuses, EditRoom(r, m, s) PROVE Goal
    <2>1. room' = [room EXCEPT ![m].status = s]
      BY <1>5 DEF EditRoom
    <2>2. RoomRows'
      BY <2>1 DEF Kept, RoomRows, RoomRow
    <2>3. ASSUME NEW k \in Listed
          PROVE  /\ HousekeepingOrder(room[k], room'[k])
                 /\ Dirtied(room[k], room'[k]) => EditRoom(r, k, room'[k].status)
      <3>0. k \in Rooms /\ RoomRow(room[k])
        BY DEF Listed, Kept, RoomRows
      <3>1. room'[k].hkStage = room[k].hkStage
        BY <2>1, <3>0 DEF Kept, RoomRows, RoomRow
      <3>2. CASE k = m
        <4>1. room'[k].status = s
          BY <2>1, <3>0, <3>2 DEF Kept, RoomRows, RoomRow
        <4> QED
          BY <1>5, <3>1, <3>2, <4>1 DEF HousekeepingOrder
      <3>3. CASE k # m
        <4>1. room'[k] = room[k]
          BY <2>1, <3>0, <3>3 DEF Kept, RoomRows
        <4> QED
          BY <4>1 DEF HousekeepingOrder, Dirtied
      <3> QED
        BY <3>2, <3>3
    <2>4. Readied
      BY <2>3 DEF Readied
    <2> QED
      BY <1>5, <1>d, <2>2, <2>4 DEF EditRoom, Clean
  <1>6. ASSUME NEW m \in scene.kept, RemoveRoom(r, m) PROVE Goal
    <2>1. room' = [room EXCEPT ![m] = NoRoom] /\ RoomRow(NoRoom) /\ NoRoom.status = "NONE"
      BY <1>6 DEF RemoveRoom, RoomRow, NoRoom
    <2>2. RoomRows' /\ \A k \in Listed : room'[k] = room[k] \/ room'[k] = NoRoom
      BY <2>1 DEF Kept, RoomRows, Listed
    <2>3. Readied
      BY <2>1, <2>2 DEF Readied, HousekeepingOrder, Dirtied
    <2> QED
      BY <1>6, <1>d, <2>2, <2>3 DEF RemoveRoom, Clean
  <1>7. ASSUME NEW m \in scene.kept, NEW q \in GuestRequests, SetGuestRequest(r, m, q) PROVE Goal
    <2>1. room' = [room EXCEPT ![m].guestRequest = q]
      BY <1>7 DEF SetGuestRequest
    <2>2. /\ RoomRows'
          /\ \A k \in Rooms : /\ room'[k].status = room[k].status
                              /\ room'[k].hkStage = room[k].hkStage
      BY <2>1 DEF Kept, RoomRows, RoomRow
    <2>3. Readied
      BY <2>2 DEF Readied, HousekeepingOrder, Dirtied, Listed
    <2> QED
      BY <1>7, <1>d, <2>2, <2>3 DEF SetGuestRequest, Clean
  <1>8. CASE UpdateStatusWrite(r)
    <2>1. req[r].stage = room[req[r].room].hkStage
      BY <1>8 DEF UpdateStatusWrite, Kept, AsRead
    <2>2. Clean
      BY <1>8, <2>1, RoomWritten, StageFollows DEF UpdateStatusWrite, Clean
    <2> QED
      BY <1>8, <1>b, <2>2 DEF UpdateStatusWrite
  <1>9. CASE MarkCleanWrite(r)
    <2> PICK status : status = ToCleanRoomStatus(req[r].status)
      OBVIOUS
    <2>1. status \in CLEAN_STATUSES /\ status \notin DIRTY_STATUSES
      BY DEF ToCleanRoomStatus, CLEAN_STATUSES, DIRTY_STATUSES
    <2>2. HousekeepingOrder(room[req[r].room], [status |-> status, hkStage |-> "CLEAN"])
      BY <1>9, <2>1 DEF MarkCleanWrite, Kept, AsRead, HousekeepingOrder
    <2>3. Clean
      BY <1>9, <2>1, <2>2, RoomWritten DEF MarkCleanWrite, Clean
    <2> QED
      BY <1>9, <1>b, <2>3 DEF MarkCleanWrite
  <1>10. CASE InspectWrite(r) /\ req[r].passed
    <2>1. room' = [room EXCEPT ![req[r].room].hkStage = "READY"]
      BY <1>10 DEF InspectWrite
    <2>2. /\ room[req[r].room].hkStage = "CLEAN"
          /\ room[req[r].room].status \notin CLOSED_STATUSES
      BY <1>10 DEF InspectWrite, Kept, AsRead
    <2>3. RoomRows'
      BY <2>1 DEF Kept, RoomRows, RoomRow
    <2>4. ASSUME NEW k \in Listed
          PROVE  HousekeepingOrder(room[k], room'[k]) /\ ~Dirtied(room[k], room'[k])
      <3>0. k \in Rooms /\ RoomRow(room[k])
        BY DEF Listed, Kept, RoomRows
      <3>1. room'[k].status = room[k].status
        BY <2>1, <3>0 DEF Kept, RoomRows, RoomRow
      <3>2. room'[k].hkStage = IF k = req[r].room THEN "READY" ELSE room[k].hkStage
        BY <2>1, <3>0 DEF Kept, RoomRows, RoomRow
      <3> QED
        BY <2>2, <3>1, <3>2 DEF HousekeepingOrder, Dirtied
    <2>5. Readied
      BY <2>4 DEF Readied
    <2> QED
      BY <1>10, <1>b, <2>3, <2>5 DEF InspectWrite, Clean
  <1>11. CASE InspectWrite(r) /\ ~req[r].passed
    <2> PICK status : status = ToDirtyRoomStatus(req[r].status)
      OBVIOUS
    <2>1. \A old : HousekeepingOrder(old, [status |-> status, hkStage |-> "DIRTY"])
      BY DEF HousekeepingOrder, ToDirtyRoomStatus, DIRTY_STATUSES
    <2>2. Clean
      BY <1>11, <2>1, RoomWritten DEF InspectWrite, Clean
    <2> QED
      BY <1>11, <1>b, <2>2 DEF InspectWrite
  <1> QED
    BY <1>1, <1>2, <1>3, <1>4, <1>5, <1>6, <1>7, <1>8, <1>9, <1>10, <1>11 DEF RoomNext

LEMMA BlocksKeepRooms ==
    ASSUME OneAtATime, Kept, NEW r \in Requests, BlockNext(r)
    PROVE  Kept' /\ Readied
  <1> DEFINE Clean == RoomRows' /\ Readied
             Goal == Kept' /\ Readied
  <1>0. UNCHANGED room
    BY DEF BlockNext, CreateBlock, UpdateBlock, FindBlock, ReleaseRead, AttachRead,
        DetachRead, AttachWrite, DetachWrite, ReleaseWrite
  <1>c. Clean
    BY <1>0, RoomsLeft
  <1>a. ASSUME NEW h, "op" \in DOMAIN h, h.op \notin ReadingRooms, req' = [req EXCEPT ![r] = h]
        PROVE  Goal
    BY <1>a, <1>c, CallKept, OthersRead
  <1>b. End(r) => Goal
    BY <1>c, EndedKept
  <1>1. ASSUME NEW b \in Blocks,
               \/ \E terms \in scene.terms : CreateBlock(r, b, terms)
               \/ \E c \in BlockChanges : UpdateBlock(r, b, c)
               \/ FindBlock(r, b)
        PROVE  Goal
    BY <1>0, <1>1, <1>c DEF CreateBlock, UpdateBlock, FindBlock, Kept
  <1>2. ASSUME NEW b \in Blocks, ReleaseRead(r, b) PROVE Goal
    <2> PICK h : h = [op |-> "release", block |-> b, released |->
                      block[b].released + RemainingRooms(b, Cardinality(Pickup(b)))]
      OBVIOUS
    <2>1. req' = [req EXCEPT ![r] = h] /\ "op" \in DOMAIN h /\ h.op \notin ReadingRooms
      BY <1>2 DEF ReleaseRead, Begin, ReadingRooms
    <2> QED
      BY <1>a, <2>1
  <1>3. ASSUME NEW b \in Blocks, NEW i \in Booked, AttachRead(r, b, i) PROVE Goal
    <2> DEFINE h == [op |-> "attach", id |-> i, block |-> b]
    <2>1. req' = [req EXCEPT ![r] = h] /\ "op" \in DOMAIN h /\ h.op \notin ReadingRooms
      BY <1>3 DEF AttachRead, Begin, ReadingRooms
    <2> QED
      BY <1>a, <2>1
  <1>4. ASSUME NEW b \in Blocks, NEW i \in Booked, DetachRead(r, b, i) PROVE Goal
    <2> DEFINE h == [op |-> "detach", id |-> i]
    <2>1. req' = [req EXCEPT ![r] = h] /\ "op" \in DOMAIN h /\ h.op \notin ReadingRooms
      BY <1>4 DEF DetachRead, Begin, ReadingRooms
    <2> QED
      BY <1>a, <2>1
  <1>5. CASE AttachWrite(r) \/ DetachWrite(r) \/ ReleaseWrite(r)
    BY <1>5, <1>b DEF AttachWrite, DetachWrite, ReleaseWrite
  <1> QED
    BY <1>1, <1>2, <1>3, <1>4, <1>5 DEF BlockNext

\* A room is READY only by inspection of a clean one, CLEAN only from DIRTY, and
\* whatever dirties it, the room form apart, sends it back to DIRTY.
THEOREM RoomsReadied == ASSUME OneAtATime PROVE Spec => RoomsAreReadied
  <1>1. Init => Kept
    <2> SUFFICES ASSUME Init PROVE Kept
      OBVIOUS
    <2>1. /\ DOMAIN req = Requests /\ \A r \in Requests : req[r] = Idle
          /\ "op" \in DOMAIN Idle /\ Idle.op \notin ReadingRooms
      BY DEF Init, Idle, ReadingRooms
    <2>2. RoomRows
      BY DEF Init, RoomRows, RoomRow, NoRoom
    <2> QED
      BY <2>1, <2>2, OthersRead DEF Kept
  <1>2. Kept /\ [Next /\ UNCHANGED scene]_<<vars, scene>> => Kept' /\ Readied
    <2> SUFFICES ASSUME Kept, [Next /\ UNCHANGED scene]_<<vars, scene>> PROVE Kept' /\ Readied
      OBVIOUS
    <2>1. CASE UNCHANGED vars
      BY <2>1, RoomsLeft DEF Kept, vars
    <2>2. CASE NextDay
      BY <2>2, RoomsLeft DEF Kept, NextDay
    <2>3. ASSUME NEW r \in Requests, Fail(r) PROVE Kept' /\ Readied
      BY <2>3, RoomsLeft, EndedKept DEF Fail
    <2> QED
      BY <2>1, <2>2, <2>3, ReservationKeepsRooms, HousekeepingKeepsRooms, BlocksKeepRooms
      DEF Next, vars
  <1>3. Readied => [\A m \in Listed : room'[m].status # "NONE" =>
            /\ HousekeepingOrder(room[m], room'[m])
            /\ Dirtied(room[m], room'[m]) /\ room'[m].hkStage # "DIRTY" =>
                \E r \in Requests : EditRoom(r, m, room'[m].status)]_vars
    BY DEF Readied
  <1> QED
    BY <1>1, <1>2, <1>3, PTL DEF Spec, RoomsAreReadied

-----------------------------------------------------------------------------
(* Which call a step leaves in flight *)

\* Of the calls whose reads matter to another's rows, each begins in one step.
LEMMA OpsAfter ==
    ASSUME OneAtATime, Rows, NEW r \in Requests,
           ReservationNext(r) \/ RoomNext(r) \/ BlockNext(r) \/ Fail(r)
    PROVE  \/ UNCHANGED req /\ req[r] = Idle
           \/ \E dto \in scene.bookings : BookCheck(r, dto)
           \/ \E i \in Booked, c \in scene.changes : UpdateRead(r, i, c)
           \/ SelectUpdate(r)
           \/ \E i \in Booked, to \in Rooms : MoveRead(r, i, to)
           \/ \E b \in Blocks, i \in Booked : AttachRead(r, b, i)
           \/ \E b \in Blocks : ReleaseRead(r, b)
           \/ /\ DOMAIN req' = Requests
              /\ req'[r].op \notin {"book", "update", "selectWrite", "move", "attach", "release"}
  <1>0. DOMAIN req = Requests /\ \A q \in Requests : "op" \in DOMAIN req[q]
    BY DEF Rows
  <1> DEFINE Rest == /\ DOMAIN req' = Requests
                     /\ req'[r].op \notin {"book", "update", "selectWrite", "move", "attach", "release"}
  <1>a. ASSUME NEW h, req' = [req EXCEPT ![r] = h],
               h.op \notin {"book", "update", "selectWrite", "move", "attach", "release"}
        PROVE  Rest
    BY <1>0, <1>a
  <1>b. End(r) => Rest
    BY <1>a DEF End, Idle
  <1>1. ASSUME NEW i \in Booked,
               \/ CancelRead(r, i) \/ WalkRead(r, i) \/ \E asOf \in Days : NoShowRead(r, i, asOf)
               \/ CheckInRead(r, i) \/ CheckOutRead(r, i)
               \/ \E m \in Rooms : SelectRead(r, i, m)
        PROVE  Rest
    BY <1>0, <1>1 DEF CancelRead, WalkRead, NoShowRead, CheckInRead, CheckOutRead, SelectRead, Begin
  <1>2. ASSUME
        \/ BookInsert(r) \/ UpdateWrite(r) \/ SelectAnswer(r) \/ CancelWrite(r)
        \/ WalkWrite(r) \/ NoShowWrite(r) \/ CheckInRoom(r) \/ CheckOutRoom(r) \/ MoveWrite(r)
        \/ UpdateStatusWrite(r) \/ MarkCleanWrite(r) \/ InspectWrite(r)
        \/ AttachWrite(r) \/ DetachWrite(r) \/ ReleaseWrite(r) \/ Fail(r)
        PROVE Rest
    BY <1>b, <1>2 DEF BookInsert, UpdateWrite, SelectAnswer, CancelWrite, WalkWrite, NoShowWrite,
        CheckInRoom, CheckOutRoom, MoveWrite, UpdateStatusWrite, MarkCleanWrite, InspectWrite,
        AttachWrite, DetachWrite, ReleaseWrite, Fail
  <1>3. SelectWrite(r) \/ CheckInWrite(r) \/ CheckOutWrite(r) => Rest
    BY <1>0 DEF SelectWrite, CheckInWrite, CheckOutWrite, Continue
  <1>4. ASSUME NEW m \in scene.kept,
               \/ \E s \in DeskStatuses : UpdateStatusRead(r, m, s)
               \/ MarkCleanRead(r, m)
               \/ \E passed \in BOOLEAN : InspectRead(r, m, passed)
        PROVE  Rest
    BY <1>0, <1>4 DEF UpdateStatusRead, MarkCleanRead, InspectRead, Begin
  <1>5. ASSUME NEW m \in scene.kept,
               \/ \E s \in EditStatuses : CreateRoom(r, m, s) \/ EditRoom(r, m, s)
               \/ RemoveRoom(r, m)
               \/ \E q \in GuestRequests : SetGuestRequest(r, m, q)
        PROVE  UNCHANGED req /\ req[r] = Idle
    BY <1>5 DEF CreateRoom, EditRoom, RemoveRoom, SetGuestRequest
  <1>6. ASSUME NEW b \in Blocks,
               \/ \E terms \in scene.terms : CreateBlock(r, b, terms)
               \/ \E c \in BlockChanges : UpdateBlock(r, b, c)
               \/ FindBlock(r, b)
        PROVE  UNCHANGED req /\ req[r] = Idle
    BY <1>6 DEF CreateBlock, UpdateBlock, FindBlock
  <1>7. ASSUME NEW b \in Blocks, NEW i \in Booked, DetachRead(r, b, i) PROVE Rest
    BY <1>0, <1>7 DEF DetachRead, Begin
  <1> DEFINE Goal ==
         \/ UNCHANGED req /\ req[r] = Idle
         \/ \E dto \in scene.bookings : BookCheck(r, dto)
         \/ \E i \in Booked, c \in scene.changes : UpdateRead(r, i, c)
         \/ SelectUpdate(r)
         \/ \E i \in Booked, to \in Rooms : MoveRead(r, i, to)
         \/ \E b \in Blocks, i \in Booked : AttachRead(r, b, i)
         \/ \E b \in Blocks : ReleaseRead(r, b)
         \/ Rest
  <1>8. /\ \A dto \in scene.bookings : BookCheck(r, dto) => Goal
        /\ \A i \in Booked, c \in scene.changes : UpdateRead(r, i, c) => Goal
        /\ SelectUpdate(r) => Goal
        /\ \A i \in Booked, to \in Rooms : MoveRead(r, i, to) => Goal
        /\ \A b \in Blocks, i \in Booked : AttachRead(r, b, i) => Goal
        /\ \A b \in Blocks : ReleaseRead(r, b) => Goal
        /\ UNCHANGED req /\ req[r] = Idle => Goal
        /\ Rest => Goal
    OBVIOUS
  <1>g. Goal => \/ UNCHANGED req /\ req[r] = Idle
                \/ \E dto \in scene.bookings : BookCheck(r, dto)
                \/ \E i \in Booked, c \in scene.changes : UpdateRead(r, i, c)
                \/ SelectUpdate(r)
                \/ \E i \in Booked, to \in Rooms : MoveRead(r, i, to)
                \/ \E b \in Blocks, i \in Booked : AttachRead(r, b, i)
                \/ \E b \in Blocks : ReleaseRead(r, b)
                \/ /\ DOMAIN req' = Requests
                   /\ req'[r].op \notin {"book", "update", "selectWrite", "move", "attach", "release"}
    OBVIOUS
  <1> SUFFICES Goal
    BY <1>g
  <1> HIDE DEF Goal, Rest
  <1>9. CASE ReservationNext(r)
    BY <1>8, <1>9, <1>1, <1>2, <1>3 DEF ReservationNext
  <1>10. CASE RoomNext(r)
    BY <1>8, <1>10, <1>2, <1>4, <1>5 DEF RoomNext
  <1>11. CASE BlockNext(r)
    BY <1>8, <1>11, <1>2, <1>6, <1>7 DEF BlockNext
  <1> QED
    BY <1>2, <1>8, <1>9, <1>10, <1>11

-----------------------------------------------------------------------------
(* Which rooms the rows hold *)

WindowsIn(s) == Windows(s.roomId, s.checkIn, s.checkOut, s.isDayUse, s.stays)

\* Two stays have no night in a room in common, or one is a day use and the
\* other split.
Apart(s, t) ==
    \A v \in WindowsIn(s), w \in WindowsIn(t) : Share(v, w) =>
        \/ s.isDayUse /\ t.stays # <<>>
        \/ t.isDayUse /\ s.stays # <<>>

Free(s, i, rows) == \A j \in DOMAIN rows \ {i} : IsActive(rows[j].status) => Apart(s, rows[j])
Distinct(rows) == \A i \in DOMAIN rows : IsActive(rows[i].status) => Free(rows[i], i, rows)

LEMMA ApartBothWays == ASSUME NEW s, NEW t, Apart(s, t) PROVE Apart(t, s)
  <1>1. \A v, w : Share(v, w) => Share(w, v)
    BY DEF Share
  <1> QED
    BY <1>1 DEF Apart

\* A row that is free where it goes leaves the rows distinct.
LEMMA RowGoesIn ==
    ASSUME NEW rows, Distinct(rows), NEW i, NEW t, IsActive(t.status) => Free(t, i, rows),
           NEW new, DOMAIN new = DOMAIN rows \cup {i}, new[i] = t,
           \A j \in DOMAIN rows \ {i} : new[j] = rows[j]
    PROVE  Distinct(new)
  <1> SUFFICES ASSUME NEW a \in DOMAIN new, IsActive(new[a].status),
                      NEW b \in DOMAIN new \ {a}, IsActive(new[b].status)
               PROVE  Apart(new[a], new[b])
    BY DEF Distinct, Free
  <1>1. CASE a = i
    BY <1>1 DEF Free
  <1>2. CASE b = i
    <2>1. Apart(t, rows[a])
      BY <1>2 DEF Free
    <2> QED
      BY <1>2, <2>1, ApartBothWays
  <1>3. CASE a # i /\ b # i
    BY <1>3 DEF Distinct, Free
  <1> QED
    BY <1>1, <1>2, <1>3

LEMMA OccupancyEndIs ==
    ASSUME NEW from \in Int, NEW to \in Int, NEW dayUse
    PROVE  /\ OccupancyEnd(from, to, dayUse) \in Int
           /\ dayUse /\ from = to => OccupancyEnd(from, to, dayUse) = from + 1
           /\ ~(dayUse /\ from = to) => OccupancyEnd(from, to, dayUse) = to
  <1>1. CASE dayUse /\ from = to
    BY <1>1 DEF OccupancyEnd
  <1>2. CASE ~(dayUse /\ from = to)
    BY <1>2 DEF OccupancyEnd
  <1> QED
    BY <1>1, <1>2

\* What a stay asks for.
LEMMA WindowIs ==
    ASSUME NEW s \in SoundRows, NEW v \in WindowsIn(s)
    PROVE  /\ v.from \in Int /\ v.to \in Int
           /\ s.stays = <<>> => /\ v.room = s.roomId /\ v.from = s.checkIn /\ v.to = s.checkOut
                                /\ v.dayUse = s.isDayUse
           /\ s.stays # <<>> => /\ v.dayUse = FALSE
                                /\ \E n \in DOMAIN s.stays :
                                      /\ v.room = s.stays[n].room /\ v.from = s.stays[n].from
                                      /\ v.to = s.stays[n].to
  <1>1. s.checkIn \in Int /\ s.checkOut \in Int /\ s.stays \in Seq(Segment)
    BY DEF SoundRows, Row
  <1>2. CASE s.stays = <<>>
    BY <1>1, <1>2 DEF WindowsIn, Windows
  <1>3. CASE s.stays # <<>>
    <2> PICK n \in DOMAIN s.stays :
            v = [room |-> s.stays[n].room, from |-> s.stays[n].from, to |-> s.stays[n].to,
                 dayUse |-> FALSE]
      BY <1>3 DEF WindowsIn, Windows
    <2>1. s.stays[n] \in Segment
      BY <1>1
    <2> QED
      BY <1>3, <2>1 DEF Segment
  <1> QED
    BY <1>2, <1>3

\* A window that conflicts with neither the header nor the segments of a stay
\* shares a night with it only when a day use meets a split stay.
LEMMA WindowFree ==
    ASSUME Rows, NEW j \in Booked, IsActive(reservation[j].status),
           NEW v, v.from \in Int, v.to \in Int, ~HeaderConflict(v, j), ~SegmentConflict(v, j),
           NEW w \in WindowsIn(reservation[j]), Share(v, w)
    PROVE  v.dayUse /\ reservation[j].stays # <<>>
  <1> DEFINE t == reservation[j]
             end == OccupancyEnd(v.from, v.to, v.dayUse)
  <1>0. t \in SoundRows /\ StayDatesOk(t.checkIn, t.checkOut, t.isDayUse)
    BY Booked1 DEF SoundRows, Sound
  <1>1. w.from \in Int /\ w.to \in Int /\ end \in Int
    BY <1>0, WindowIs, OccupancyEndIs
  <1>2. OccupancyEnd(w.from, w.to, w.dayUse) \in Int
    BY <1>1, OccupancyEndIs
  <1>3. PICK n \in Int : /\ v.from <= n /\ n < end
                         /\ w.from <= n /\ n < OccupancyEnd(w.from, w.to, w.dayUse)
    BY <1>1, <1>2 DEF Share, Nights
  <1>4. v.room = w.room
    BY DEF Share
  <1>5. CASE t.stays = <<>>
    <2>1. /\ w.room = t.roomId /\ w.from = t.checkIn /\ w.to = t.checkOut
          /\ w.dayUse = t.isDayUse
      BY <1>0, <1>5, WindowIs
    <2>2. ~(IF t.isDayUse THEN v.from <= t.checkIn /\ t.checkIn < end
                          ELSE t.checkIn < end /\ t.checkOut > v.from)
      BY <1>4, <1>5, <2>1 DEF HeaderConflict
    <2>3. CASE t.isDayUse
      <3>1. w.from = t.checkIn /\ w.to = t.checkIn /\ w.dayUse
        BY <1>0, <2>1, <2>3 DEF StayDatesOk
      <3>2. OccupancyEnd(w.from, w.to, w.dayUse) = w.from + 1
        <4>1. w.from \in Int /\ w.to \in Int /\ w.dayUse /\ w.from = w.to
          BY <1>1, <3>1
        <4> QED
          BY <4>1, OccupancyEndIs
      <3>3. n = w.from
        BY <1>1, <1>3, <3>2
      <3>4. ~(v.from <= w.from /\ w.from < end)
        BY <2>2, <2>3, <3>1
      <3> QED
        BY <1>3, <3>3, <3>4
    <2>4. CASE ~t.isDayUse
      <3>1. OccupancyEnd(w.from, w.to, w.dayUse) = w.to
        BY <1>1, <2>1, <2>4, OccupancyEndIs
      <3>2. ~(w.from < end /\ w.to > v.from)
        BY <2>1, <2>2, <2>4
      <3> HIDE DEF end
      <3> QED
        BY <1>1, <1>3, <3>1, <3>2
    <2> QED
      BY <2>3, <2>4
  <1>6. CASE t.stays # <<>>
    <2>1. w.dayUse = FALSE
      BY <1>0, <1>6, WindowIs
    <2>2. PICK k \in DOMAIN t.stays :
              w.room = t.stays[k].room /\ w.from = t.stays[k].from /\ w.to = t.stays[k].to
      BY <1>0, <1>6, WindowIs
    <2>3. ~(w.from < v.to /\ w.to > v.from)
      BY <1>4, <2>2 DEF SegmentConflict
    <2>4. OccupancyEnd(w.from, w.to, w.dayUse) = w.to
      BY <1>1, <2>1, OccupancyEndIs
    <2>5. end > v.to
      <3> HIDE DEF end
      <3>1. w.to > v.from
        BY <1>1, <1>3, <2>4
      <3>2. ~(w.from < v.to)
        BY <2>3, <3>1
      <3> QED
        BY <1>1, <1>3, <3>2
    <2>6. v.dayUse
      BY <2>5, OccupancyEndIs
    <2> QED
      BY <1>6, <2>6
  <1> QED
    BY <1>5, <1>6

\* What assertRoomsAvailable lets through is free.
LEMMA AvailableIsFree ==
    ASSUME Rows, NEW s \in SoundRows, NEW i, RoomsAvailable(WindowsIn(s), i)
    PROVE  Free(s, i, reservation)
  <1> SUFFICES ASSUME NEW j \in Booked \ {i}, IsActive(reservation[j].status),
                      NEW v \in WindowsIn(s), NEW w \in WindowsIn(reservation[j]), Share(v, w)
               PROVE  s.isDayUse /\ reservation[j].stays # <<>>
    BY DEF Free, Apart, Booked
  <1>1. ~HeaderConflict(v, j) /\ ~SegmentConflict(v, j)
    BY DEF RoomsAvailable
  <1>2. v.from \in Int /\ v.to \in Int /\ (v.dayUse => s.isDayUse)
    BY WindowIs
  <1>3. v.dayUse /\ reservation[j].stays # <<>>
    BY <1>1, <1>2, WindowFree
  <1> QED
    BY <1>2, <1>3

-----------------------------------------------------------------------------
(* What calls in flight may claim *)

LEMMA SameWindows ==
    ASSUME NEW s, NEW t, t.roomId = s.roomId \/ s.stays # <<>>, t.checkIn = s.checkIn,
           t.checkOut = s.checkOut, t.isDayUse = s.isDayUse, t.stays = s.stays,
           NEW x, Apart(s, x)
    PROVE  Apart(t, x)
  <1>1. WindowsIn(t) = WindowsIn(s)
    BY DEF WindowsIn, Windows
  <1> QED
    BY <1>1 DEF Apart

\* An update that is allowed asks for the rooms it will hold.
LEMMA ChangeIsFree ==
    ASSUME Rows, Distinct(reservation), NEW i \in Booked, IsActive(reservation[i].status),
           NEW c, GivesFields(c), RoomFits(c), ChangeAllowed(i, c)
    PROVE  Free(Over(UpdateData(reservation[i], c), reservation[i]), i, reservation)
  <1> DEFINE row == reservation[i]
             s == Over(UpdateData(row, c), row)
             drafts == IF "stays" \in DOMAIN c THEN c.stays ELSE <<>>
             header == IF drafts # <<>> THEN drafts[1].room ELSE Given(c, "roomId", row)
  <1>1. /\ row \in Row
        /\ s.checkIn = Given(c, "checkIn", row) /\ s.checkOut = Given(c, "checkOut", row)
        /\ s.isDayUse = Given(c, "isDayUse", row)
        /\ s.stays = Given(c, "stays", row)
        /\ s.roomId = IF "stays" \in DOMAIN c /\ c.stays # <<>>
                      THEN c.stays[1].room ELSE row.roomId
    BY Booked1, UpdatedRow
  <1>2. s \in SoundRows
    BY Booked1, ChangeKeepsSound
  <1>3. /\ SegmentsFollow(row, c)
        /\ (StayDatesChanged(c) \/ "stays" \in DOMAIN c)
            => RoomsAvailable(Windows(header, Given(c, "checkIn", row), Given(c, "checkOut", row),
                                      Given(c, "isDayUse", row), drafts), i)
    BY DEF ChangeAllowed
  <1>4. Free(row, i, reservation)
    BY DEF Distinct, Booked
  <1> HIDE DEF row, s
  <1>5. CASE Windows(header, Given(c, "checkIn", row), Given(c, "checkOut", row),
                     Given(c, "isDayUse", row), drafts) = WindowsIn(s)
             /\ (StayDatesChanged(c) \/ "stays" \in DOMAIN c)
    <2>1. RoomsAvailable(WindowsIn(s), i)
      BY <1>3, <1>5
    <2> QED
      BY <1>2, <2>1, AvailableIsFree DEF s, row
  <1>6. CASE /\ s.roomId = row.roomId /\ s.checkIn = row.checkIn /\ s.checkOut = row.checkOut
             /\ s.isDayUse = row.isDayUse /\ s.stays = row.stays
    <2>1. \A x : Apart(row, x) => Apart(s, x)
      BY <1>6, SameWindows
    <2>2. Free(s, i, reservation)
      BY <1>4, <2>1 DEF Free
    <2> QED
      BY <2>2 DEF s, row
  <1>7. CASE "stays" \in DOMAIN c
    <2>1. s.stays = drafts
      BY <1>1, <1>7 DEF Given
    <2>2. CASE drafts # <<>>
      <3>1. Windows(header, s.checkIn, s.checkOut, s.isDayUse, drafts) = WindowsIn(s)
        BY <2>1, <2>2 DEF WindowsIn, Windows
      <3> QED
        BY <1>1, <1>5, <1>7, <3>1
    <2>3. CASE drafts = <<>>
      <3>1. "roomId" \notin DOMAIN c
        BY <1>7, <2>3 DEF RoomFits
      <3>2. header = s.roomId
        BY <1>1, <1>7, <2>3, <3>1 DEF Given
      <3>3. Windows(header, s.checkIn, s.checkOut, s.isDayUse, drafts) = WindowsIn(s)
        BY <2>1, <3>2 DEF WindowsIn
      <3> QED
        BY <1>1, <1>5, <1>7, <3>3
    <2> QED
      BY <2>2, <2>3
  <1>8. CASE "stays" \notin DOMAIN c
    <2>1. s.stays = row.stays /\ s.roomId = row.roomId /\ drafts = <<>>
      BY <1>1, <1>8 DEF Given
    <2>2. CASE "roomId" \in DOMAIN c \/ ~StayDatesChanged(c)
      <3>1. DOMAIN c \cap {"checkIn", "checkOut", "isDayUse"} = {}
        BY <1>8, <2>2 DEF RoomFits, StayDatesChanged
      <3> QED
        BY <1>1, <1>6, <2>1, <3>1 DEF Given
    <2>3. CASE "roomId" \notin DOMAIN c /\ StayDatesChanged(c)
      <3>1. row.stays = <<>>
        BY <1>3, <1>8, <2>3 DEF SegmentsFollow
      <3>2. header = s.roomId
        BY <2>1, <2>3 DEF Given
      <3>3. Windows(header, s.checkIn, s.checkOut, s.isDayUse, drafts) = WindowsIn(s)
        BY <2>1, <3>1, <3>2 DEF WindowsIn
      <3> QED
        BY <1>1, <1>5, <2>3, <3>3
    <2> QED
      BY <2>2, <2>3
  <1> QED
    BY <1>7, <1>8

\* A move asks for the room of the one window that it changes.
LEMMA MoveIsFree ==
    ASSUME Rows, Distinct(reservation), NEW i \in Booked, IsActive(reservation[i].status),
           NEW to \in Rooms, RoomsAvailable({MoveWindow(reservation[i], to)}, i)
    PROVE  Free(Moved(reservation[i], SegmentToMove(reservation[i]), to), i, reservation)
  <1> DEFINE s == reservation[i]
             n == SegmentToMove(s)
             t == Moved(s, n, to)
             v == MoveWindow(s, to)
  <1>1. s \in SoundRows /\ s.stays \in Seq(Segment) /\ s.checkIn \in Int /\ s.checkOut \in Int
    BY Booked1 DEF Row
  <1>2. /\ t \in SoundRows
        /\ t.checkIn = s.checkIn /\ t.checkOut = s.checkOut /\ t.isDayUse = s.isDayUse
        /\ t.roomId = to /\ DOMAIN t.stays = DOMAIN s.stays
        /\ \A k \in DOMAIN s.stays :
                /\ t.stays[k].room = IF k = n THEN to ELSE s.stays[k].room
                /\ t.stays[k].from = s.stays[k].from /\ t.stays[k].to = s.stays[k].to
    BY <1>1, MoveKeepsSound
  <1>3. s.stays = <<>> => n = 0
    BY DEF SegmentToMove
  <1>4. v = IF n = 0 THEN [room |-> to, from |-> s.checkIn, to |-> s.checkOut, dayUse |-> s.isDayUse]
            ELSE [room |-> to, from |-> s.stays[n].from, to |-> s.stays[n].to, dayUse |-> FALSE]
    BY DEF MoveWindow
  <1>5. Free(s, i, reservation)
    BY DEF Distinct, Booked
  <1> HIDE DEF s, t, v, n
  <1>6. t.stays = <<>> <=> s.stays = <<>>
    <2>1. t.stays \in Seq(Segment)
      BY <1>2 DEF SoundRows, Row
    <2> QED
      BY <1>1, <1>2, <2>1, EmptySeq
  <1>7. ASSUME NEW x \in WindowsIn(t) PROVE x \in WindowsIn(s) \/ x = v
    <2>1. CASE s.stays = <<>>
      BY <1>2, <1>3, <1>4, <1>6, <1>7, <2>1 DEF WindowsIn, Windows
    <2>2. CASE s.stays # <<>>
      <3> PICK k \in DOMAIN t.stays :
              x = [room |-> t.stays[k].room, from |-> t.stays[k].from, to |-> t.stays[k].to,
                   dayUse |-> FALSE]
        BY <1>6, <1>7, <2>2 DEF WindowsIn, Windows
      <3>1. k # 0
        BY <1>1, <1>2
      <3>2. CASE k = n
        BY <1>2, <1>4, <3>1, <3>2
      <3>3. CASE k # n
        <4>1. x = [room |-> s.stays[k].room, from |-> s.stays[k].from, to |-> s.stays[k].to,
                   dayUse |-> FALSE]
          BY <1>2, <3>3
        <4> QED
          BY <1>2, <2>2, <4>1 DEF WindowsIn, Windows
      <3> QED
        BY <3>2, <3>3
    <2> QED
      BY <2>1, <2>2
  <1>8. SUFFICES ASSUME NEW j \in Booked \ {i}, IsActive(reservation[j].status),
                        NEW x \in WindowsIn(t), NEW w \in WindowsIn(reservation[j]), Share(x, w)
                 PROVE  \/ t.isDayUse /\ reservation[j].stays # <<>>
                        \/ reservation[j].isDayUse /\ t.stays # <<>>
    BY DEF Free, Apart, Booked, s, t, n
  <1>9. CASE x \in WindowsIn(s)
    <2>1. Apart(s, reservation[j])
      BY <1>5, <1>8 DEF Free, Booked
    <2> QED
      BY <1>2, <1>6, <1>8, <1>9, <2>1 DEF Apart
  <1>10. CASE x = v
    <2>1. ~HeaderConflict(v, j) /\ ~SegmentConflict(v, j)
      BY <1>8 DEF RoomsAvailable, v, s
    <2>2. x.from \in Int /\ x.to \in Int /\ (x.dayUse => t.isDayUse)
      BY <1>2, <1>8, WindowIs
    <2>3. x.dayUse /\ reservation[j].stays # <<>>
      BY <1>8, <1>10, <2>1, <2>2, WindowFree
    <2> QED
      BY <2>2, <2>3
  <1> QED
    BY <1>7, <1>8, <1>9, <1>10

-----------------------------------------------------------------------------
(* How a step changes the rows *)

\* A row's status goes on from CONFIRMED or CHECKED_IN, or ends for good.
LEMMA StatusGoesOn ==
    ASSUME Rows, NEW r \in Requests,
           CancelWrite(r) \/ WalkWrite(r) \/ NoShowWrite(r) \/ CheckInWrite(r) \/ CheckOutWrite(r)
    PROVE  \E i, status : /\ status \in ReservationStatus /\ SetStatus(i, status)
                          /\ i \in Booked => \/ IsActive(reservation[i].status)
                                             \/ ~IsActive(status)
                          /\ i \in Booked => \/ reservation[i].status \notin BLOCK_INACTIVE_STATUSES
                                             \/ status \in BLOCK_INACTIVE_STATUSES
  <1>1. /\ req[r].op \in {"checkIn", "walk"} => reservation[req[r].id].status = "CONFIRMED"
        /\ req[r].op = "checkOut" => reservation[req[r].id].status = "CHECKED_IN"
    BY DEF Rows, Calls
  <1>2. PICK status : /\ SetStatus(req[r].id, status)
                      /\ \/ status \in {"CANCELLED", "NO_SHOW"}
                         \/ status = "WALKED" /\ req[r].op = "walk"
                         \/ status = "CHECKED_IN" /\ req[r].op = "checkIn"
                         \/ status = "CHECKED_OUT" /\ req[r].op = "checkOut"
    BY DEF CancelWrite, WalkWrite, NoShowWrite, CheckInWrite, CheckOutWrite
  <1>3. status \in ReservationStatus
    BY <1>2 DEF ReservationStatus
  <1>4. /\ IsActive(reservation[req[r].id].status) \/ ~IsActive(status)
        /\ \/ reservation[req[r].id].status \notin BLOCK_INACTIVE_STATUSES
           \/ status \in BLOCK_INACTIVE_STATUSES
    BY <1>1, <1>2 DEF IsActive, INACTIVE_STATUSES, BLOCK_INACTIVE_STATUSES
  <1> QED
    BY <1>2, <1>3, <1>4

\* Few steps write rows.
LEMMA RowsAfter ==
    ASSUME NEW r \in Requests,
           ReservationNext(r) \/ RoomNext(r) \/ BlockNext(r) \/ Fail(r)
    PROVE  \/ UNCHANGED reservation
           \/ BookInsert(r) \/ UpdateWrite(r) \/ SelectWrite(r) \/ MoveWrite(r)
           \/ CancelWrite(r) \/ WalkWrite(r) \/ NoShowWrite(r) \/ CheckInWrite(r) \/ CheckOutWrite(r)
           \/ AttachWrite(r) \/ DetachWrite(r)
  <1>1. ASSUME NEW i \in Booked,
               \/ \E c \in scene.changes : UpdateRead(r, i, c)
               \/ CancelRead(r, i) \/ WalkRead(r, i) \/ \E asOf \in Days : NoShowRead(r, i, asOf)
               \/ CheckInRead(r, i) \/ CheckOutRead(r, i)
               \/ \E m \in Rooms : SelectRead(r, i, m)
               \/ \E to \in Rooms : MoveRead(r, i, to)
        PROVE  UNCHANGED reservation
    BY <1>1 DEF UpdateRead, CancelRead, WalkRead, NoShowRead, CheckInRead, CheckOutRead, SelectRead,
        MoveRead
  <1>2. ASSUME \/ \E dto \in scene.bookings : BookCheck(r, dto)
               \/ SelectUpdate(r) \/ SelectAnswer(r) \/ CheckInRoom(r) \/ CheckOutRoom(r) \/ Fail(r)
        PROVE  UNCHANGED reservation
    BY <1>2 DEF BookCheck, SelectUpdate, SelectAnswer, CheckInRoom, CheckOutRoom, Fail
  <1>3. CASE ReservationNext(r)
    BY <1>1, <1>2, <1>3 DEF ReservationNext
  <1>4. CASE RoomNext(r)
    <2>1. UNCHANGED reservation
      BY <1>4 DEF RoomNext, UpdateStatusRead, CreateRoom, EditRoom, RemoveRoom, MarkCleanRead,
          SetGuestRequest, InspectRead, UpdateStatusWrite, MarkCleanWrite, InspectWrite
    <2> QED
      BY <2>1
  <1>5. ASSUME \/ ReleaseWrite(r)
               \/ \E b \in Blocks :
                    \/ \E terms \in scene.terms : CreateBlock(r, b, terms)
                    \/ \E c \in BlockChanges : UpdateBlock(r, b, c)
                    \/ FindBlock(r, b) \/ ReleaseRead(r, b)
                    \/ \E i \in Booked : AttachRead(r, b, i) \/ DetachRead(r, b, i)
        PROVE  UNCHANGED reservation
    BY <1>5 DEF ReleaseWrite, CreateBlock, UpdateBlock, FindBlock, ReleaseRead, AttachRead, DetachRead
  <1>6. CASE BlockNext(r)
    BY <1>5, <1>6 DEF BlockNext
  <1> QED
    BY <1>2, <1>3, <1>4, <1>6

-----------------------------------------------------------------------------
(* No room is booked twice for a night *)

\* What a call in flight will write is free in the rows it has read.
Claims(h, rows) ==
    /\ h.op = "book" => Free(Over(h.dto, [block |-> NoBlock]), 0, rows)
    /\ h.op \in {"update", "selectWrite"} /\ IsActive(rows[h.id].status) =>
            Free(Over(h.data, rows[h.id]), h.id, rows)
    /\ h.op = "selectWrite" /\ IsActive(Over(h.data, rows[h.id]).status) =>
            IsActive(rows[h.id].status)
    /\ h.op = "move" => Free(Moved(rows[h.id], h.segment, h.to), h.id, rows)

\* An update may give a reservation any status, and asks for no room when it
\* gives nothing else: one that brings a cancelled booking back is not checked.
NothingRevived == \A i \in Booked :
    IsActive(reservation'[i].status) => IsActive(reservation[i].status)

Held ==
    /\ Rows
    /\ Distinct(reservation)
    /\ \A r \in Requests : Claims(req[r], reservation)

\* Every write goes where it is free.
LEMMA WritesGoIn ==
    ASSUME OneAtATime, Held, NEW r \in Requests, scene' = scene,
           ReservationNext(r) \/ RoomNext(r) \/ BlockNext(r) \/ Fail(r),
           UpdateWrite(r) => NothingRevived
    PROVE  Distinct(reservation')
  <1>0. Rows /\ Distinct(reservation) /\ Claims(req[r], reservation)
    BY DEF Held
  <1>1. CASE BookInsert(r)
    <2> DEFINE n == Len(reservation) + 1
               s == Over(req[r].dto, [block |-> NoBlock])
    <2>1. reservation' = Append(reservation, s) /\ s \in SoundRows
      BY <1>0, <1>1, BookWrites
    <2>2. Free(s, 0, reservation)
      BY <1>0, <1>1 DEF BookInsert, Claims
    <2>3. /\ DOMAIN reservation' = Booked \cup {n} /\ reservation'[n] = s
          /\ \A j \in Booked : reservation'[j] = reservation[j]
          /\ 0 \notin Booked /\ n \notin Booked
      <3> HIDE DEF s
      <3>1. reservation \in Seq(SoundRows) /\ Booked = 1..Len(reservation) /\ Len(reservation) \in Nat
        BY <1>0, Booked1 DEF Rows
      <3> QED
        BY <2>1, <3>1, AppendProperties
    <2> HIDE DEF s, n
    <2>4. Free(s, n, reservation)
      BY <2>2, <2>3 DEF Free, Booked
    <2> QED
      BY <1>0, <2>3, <2>4, RowGoesIn DEF Booked
  <1>2. ASSUME NEW i \in Booked, NEW t, reservation' = [reservation EXCEPT ![i] = t],
               IsActive(t.status) => Free(t, i, reservation)
        PROVE  Distinct(reservation')
    <2>1. /\ DOMAIN reservation' = Booked \cup {i} /\ reservation'[i] = t
          /\ \A j \in Booked \ {i} : reservation'[j] = reservation[j]
      BY <1>2 DEF Booked
    <2> QED
      BY <1>0, <1>2, <2>1, RowGoesIn DEF Booked
  <1>3. CASE UpdateWrite(r) \/ SelectWrite(r)
    <2> DEFINE i == req[r].id
               t == Over(req[r].data, reservation[i])
    <2>1. req[r].op \in {"update", "selectWrite"}
          /\ reservation' = [reservation EXCEPT ![req[r].id] = Over(req[r].data, @)]
      BY <1>3 DEF UpdateWrite, SelectWrite
    <2>2. i \in Booked /\ reservation' = [reservation EXCEPT ![i] = t]
      BY <1>0, <2>1, ChangeWrites
    <2>3. IsActive(reservation[i].status) => Free(t, i, reservation)
      BY <1>0, <2>1 DEF Claims
    <2>4. reservation'[i] = t
      BY <2>2 DEF Booked
    <2>5. IsActive(t.status) => IsActive(reservation[i].status)
      <3>1. CASE UpdateWrite(r)
        BY <2>2, <2>4, <3>1 DEF NothingRevived
      <3>2. CASE SelectWrite(r)
        BY <1>0, <3>2 DEF SelectWrite, Claims
      <3> QED
        BY <1>3, <3>1, <3>2
    <2> HIDE DEF i, t
    <2> QED
      BY <1>2, <2>2, <2>3, <2>5
  <1>4. CASE MoveWrite(r)
    <2> DEFINE i == req[r].id
               t == Moved(reservation[i], req[r].segment, req[r].to)
    <2>1. i \in Booked /\ reservation' = [reservation EXCEPT ![i] = t]
      BY <1>0, <1>4, MoveWrites
    <2>2. Free(t, i, reservation)
      BY <1>0, <1>4 DEF Claims, MoveWrite
    <2> HIDE DEF i, t
    <2> QED
      BY <1>2, <2>1, <2>2
  \* Other writes leave the rooms and the dates.
  <1>5. ASSUME NEW i, NEW t, reservation' = [reservation EXCEPT ![i] = t],
               i \in Booked => /\ IsActive(t.status) => IsActive(reservation[i].status)
                               /\ t.roomId = reservation[i].roomId
                               /\ t.checkIn = reservation[i].checkIn
                               /\ t.checkOut = reservation[i].checkOut
                               /\ t.isDayUse = reservation[i].isDayUse
                               /\ t.stays = reservation[i].stays
        PROVE  Distinct(reservation')
    <2>1. CASE i \notin Booked
      <3>1. /\ DOMAIN reservation' = DOMAIN reservation
            /\ \A j \in DOMAIN reservation : reservation'[j] = reservation[j]
        BY <1>5, <2>1 DEF Booked
      <3> QED
        BY <1>0, <3>1 DEF Distinct, Free
    <2>2. CASE i \in Booked
      <3>1. \A x : Apart(reservation[i], x) => Apart(t, x)
        BY <1>5, <2>2, SameWindows
      <3>2. IsActive(t.status) => Free(t, i, reservation)
        BY <1>0, <1>5, <2>2, <3>1 DEF Distinct, Free, Booked
      <3> QED
        BY <1>2, <1>5, <2>2, <3>2
    <2> QED
      BY <2>1, <2>2
  <1>6. CASE CancelWrite(r) \/ WalkWrite(r) \/ NoShowWrite(r) \/ CheckInWrite(r) \/ CheckOutWrite(r)
    <2> PICK i, status : /\ status \in ReservationStatus /\ SetStatus(i, status)
                         /\ i \in Booked => \/ IsActive(reservation[i].status)
                                            \/ ~IsActive(status)
      BY <1>0, <1>6, StatusGoesOn
    <2>1. reservation' = [reservation EXCEPT ![i] = [reservation[i] EXCEPT !.status = status]]
      BY <1>0, StatusWritten
    <2>2. i \in Booked => reservation[i] \in Row
      BY <1>0, Booked1
    <2>3. i \in Booked => /\ [reservation[i] EXCEPT !.status = status].status = status
                          /\ [reservation[i] EXCEPT !.status = status].roomId = reservation[i].roomId
                          /\ [reservation[i] EXCEPT !.status = status].checkIn = reservation[i].checkIn
                          /\ [reservation[i] EXCEPT !.status = status].checkOut = reservation[i].checkOut
                          /\ [reservation[i] EXCEPT !.status = status].isDayUse = reservation[i].isDayUse
                          /\ [reservation[i] EXCEPT !.status = status].stays = reservation[i].stays
      BY <2>2 DEF Row
    <2> PICK t : t = [reservation[i] EXCEPT !.status = status]
      OBVIOUS
    <2> QED
      BY <1>5, <2>1, <2>3
  <1>7. CASE AttachWrite(r) \/ DetachWrite(r)
    <2> PICK i, b : reservation' = [reservation EXCEPT ![i].block = b]
      BY <1>7 DEF AttachWrite, DetachWrite
    <2>1. reservation' = [reservation EXCEPT ![i] = [reservation[i] EXCEPT !.block = b]]
      OBVIOUS
    <2>2. i \in Booked => reservation[i] \in Row
      BY <1>0, Booked1
    <2> PICK t : t = [reservation[i] EXCEPT !.block = b]
      OBVIOUS
    <2>3. i \in Booked => /\ t.status = reservation[i].status
                          /\ t.roomId = reservation[i].roomId
                          /\ t.checkIn = reservation[i].checkIn
                          /\ t.checkOut = reservation[i].checkOut
                          /\ t.isDayUse = reservation[i].isDayUse
                          /\ t.stays = reservation[i].stays
      BY <2>2 DEF Row
    <2> QED
      BY <1>5, <2>1, <2>3
  <1>8. CASE UNCHANGED reservation
    BY <1>0, <1>8
  <1> QED
    BY <1>1, <1>3, <1>4, <1>6, <1>7, <1>8, RowsAfter

\* Every read claims only what is free.
LEMMA ReadsClaim ==
    ASSUME OneAtATime, RoomGoesWithSegments, Held, NEW r \in Requests, scene' = scene,
           ReservationNext(r) \/ RoomNext(r) \/ BlockNext(r) \/ Fail(r)
    PROVE  \A q \in Requests : Claims(req'[q], reservation')
  <1>0. /\ Rows /\ Distinct(reservation)
        /\ DOMAIN req = Requests /\ \A q \in Requests : q = r
    BY DEF Held, Rows, OneAtATime
  <1> SUFFICES Claims(req'[r], reservation')
    BY <1>0
  <1>1. ASSUME req'[r].op \notin {"book", "update", "selectWrite", "move", "attach", "release"}
        PROVE  Claims(req'[r], reservation')
    BY <1>1 DEF Claims
  <1>2. CASE UNCHANGED req /\ req[r] = Idle
    <2>1. req'[r].op = "idle"
      BY <1>2 DEF Idle
    <2> QED
      BY <1>1, <2>1
  <1>3. ASSUME NEW dto \in scene.bookings, BookCheck(r, dto) PROVE Claims(req'[r], reservation')
    <2> DEFINE s == Over(dto, [block |-> NoBlock])
    <2>1. GivesFields(dto) /\ DOMAIN dto = DOMAIN Fields
      BY <1>0, FrontOfficeAssumption DEF Rows
    <2>2. s \in SoundRows
      BY <1>0, <1>3, BookReads
    <2>3. \A f \in DOMAIN Fields : s[f] = dto[f]
      BY <2>1, NewRow
    <2>4. WindowsIn(s) = Windows(dto.roomId, dto.checkIn, dto.checkOut, dto.isDayUse, dto.stays)
      <3> HIDE DEF s
      <3> QED
        BY <2>3 DEF WindowsIn, Fields
    <2>5. RoomsAvailable(WindowsIn(s), 0)
      BY <1>3, <2>4 DEF BookCheck
    <2>6. Free(s, 0, reservation)
      <3> HIDE DEF s
      <3> QED
        BY <1>0, <2>2, <2>5, AvailableIsFree
    <2> PICK h : h = [op |-> "book", dto |-> dto]
      OBVIOUS
    <2>7. req'[r] = h /\ h.op = "book" /\ h.dto = dto /\ reservation' = reservation
      BY <1>0, <1>3 DEF BookCheck, Begin
    <2> QED
      BY <2>6, <2>7 DEF Claims
  <1>4. ASSUME NEW i \in Booked, NEW c, GivesFields(c), RoomFits(c), ChangeAllowed(i, c),
               NEW h, h.id = i, h.data = UpdateData(reservation[i], c),
               \/ h.op = "update"
               \/ h.op = "selectWrite" /\ "status" \notin DOMAIN c,
               req'[r] = h, reservation' = reservation
        PROVE  Claims(req'[r], reservation')
    <2>1. IsActive(reservation[i].status) =>
                Free(Over(h.data, reservation[i]), i, reservation)
      BY <1>0, <1>4, ChangeIsFree
    <2>2. reservation[i] \in Row
      BY <1>0, Booked1
    <2>3. Over(h.data, reservation[i]).status = Given(c, "status", reservation[i])
      BY <1>4, <2>2, UpdatedRow
    <2>4. h.op = "selectWrite" =>
            Over(h.data, reservation[i]).status = reservation[i].status
      BY <1>4, <2>3 DEF Given
    <2> QED
      BY <1>4, <2>1, <2>4 DEF Claims
  <1>5. ASSUME NEW i \in Booked, NEW c \in scene.changes, UpdateRead(r, i, c)
        PROVE  Claims(req'[r], reservation')
    <2>1. GivesFields(c) /\ RoomFits(c)
      BY <1>0, FrontOfficeAssumption DEF Rows, RoomGoesWithSegments
    <2> PICK h : h = [op |-> "update", id |-> i, data |-> UpdateData(reservation[i], c)]
      OBVIOUS
    <2>2. /\ req'[r] = h /\ h.op = "update" /\ h.id = i /\ h.data = UpdateData(reservation[i], c)
          /\ ChangeAllowed(i, c) /\ reservation' = reservation
      BY <1>0, <1>5 DEF UpdateRead, Begin
    <2> QED
      BY <1>4, <2>1, <2>2
  <1>6. CASE SelectUpdate(r)
    <2> PICK i, c : i = req[r].id /\ c = [roomId |-> req[r].roomId]
      OBVIOUS
    <2>1. i \in Booked /\ req[r].roomId \in Rooms
      BY <1>0, <1>6 DEF SelectUpdate, Rows, Calls, Booked
    <2>2. DOMAIN c = {"roomId"} /\ c.roomId \in Rooms
      BY <2>1
    <2>3. GivesFields(c) /\ RoomFits(c) /\ "status" \notin DOMAIN c
      BY <2>2 DEF GivesFields, Fields, RoomFits
    <2> PICK h : h = [op |-> "selectWrite", id |-> i, roomId |-> req[r].roomId,
                      data |-> UpdateData(reservation[i], c)]
      OBVIOUS
    <2>4. /\ req'[r] = h /\ h.op = "selectWrite" /\ h.id = i
          /\ h.data = UpdateData(reservation[i], c)
          /\ ChangeAllowed(i, c) /\ reservation' = reservation
      BY <1>0, <1>6 DEF SelectUpdate, Continue
    <2> QED
      BY <1>4, <2>1, <2>3, <2>4
  <1>7. ASSUME NEW i \in Booked, NEW to \in Rooms, MoveRead(r, i, to)
        PROVE  Claims(req'[r], reservation')
    <2>1. /\ reservation[i].status = "CHECKED_IN" /\ reservation' = reservation
          /\ RoomsAvailable({MoveWindow(reservation[i], to)}, i)
      BY <1>7 DEF MoveRead
    <2>2. IsActive(reservation[i].status)
      BY <2>1 DEF IsActive, INACTIVE_STATUSES
    <2>3. Free(Moved(reservation[i], SegmentToMove(reservation[i]), to), i, reservation)
      BY <1>0, <2>1, <2>2, MoveIsFree
    <2> PICK h : h = [op |-> "move", id |-> i, from |-> reservation[i].roomId, to |-> to,
                      segment |-> SegmentToMove(reservation[i]),
                      status |-> room[to].status, stage |-> room[to].hkStage]
      OBVIOUS
    <2>4. /\ req'[r] = h /\ h.op = "move" /\ h.id = i /\ h.to = to
          /\ h.segment = SegmentToMove(reservation[i])
      BY <1>0, <1>7 DEF MoveRead, Begin
    <2> QED
      BY <2>1, <2>3, <2>4 DEF Claims
  <1>8. ASSUME NEW b \in Blocks, NEW i \in Booked, AttachRead(r, b, i)
        PROVE  Claims(req'[r], reservation')
    <2>1. req'[r] = [op |-> "attach", id |-> i, block |-> b]
      BY <1>0, <1>8 DEF AttachRead, Begin
    <2> QED
      BY <2>1 DEF Claims
  <1>9. ASSUME NEW b \in Blocks, ReleaseRead(r, b) PROVE Claims(req'[r], reservation')
    <2>1. req'[r].op = "release"
      BY <1>0, <1>9 DEF ReleaseRead, Begin
    <2> QED
      BY <2>1 DEF Claims
  <1> QED
    BY <1>0, <1>1, <1>2, <1>3, <1>5, <1>6, <1>7, <1>8, <1>9, OpsAfter

\* As long as no update brings a cancelled booking back, no room is booked
\* twice for a night, a day use in a split stay's room apart.
THEOREM RoomsBookedOnce ==
    ASSUME OneAtATime, RoomGoesWithSegments
    PROVE  Spec /\ [][(\E r \in Requests : UpdateWrite(r)) => NothingRevived]_vars
              => []RoomBookedOnce
  <1>1. Init => Held
    BY RowsInit DEF Init, Held, Distinct, Claims, Idle
  <1>2. ASSUME Held, [Next /\ UNCHANGED scene]_<<vars, scene>>,
               [(\E r \in Requests : UpdateWrite(r)) => NothingRevived]_vars
        PROVE  Held'
    <2>1. Rows'
      BY <1>2, RowsNext DEF Held
    <2>2. CASE UNCHANGED vars
      BY <1>2, <2>1, <2>2 DEF Held, vars
    <2>3. CASE NextDay
      BY <1>2, <2>1, <2>3 DEF Held, NextDay
    <2>4. ASSUME ~UNCHANGED vars,
                 NEW r \in Requests, ReservationNext(r) \/ RoomNext(r) \/ BlockNext(r) \/ Fail(r)
          PROVE  Held'
      <3>1. UpdateWrite(r) => NothingRevived
        BY <1>2, <2>4
      <3>2. scene' = scene
        BY <1>2
      <3>3. Distinct(reservation')
        BY <1>2, <2>4, <3>1, <3>2, WritesGoIn
      <3>4. \A q \in Requests : Claims(req'[q], reservation')
        BY <1>2, <2>4, <3>2, ReadsClaim
      <3> QED
        BY <2>1, <3>3, <3>4 DEF Held
    <2> QED
      BY <1>2, <2>2, <2>3, <2>4 DEF Next, vars
  <1>3. Held => RoomBookedOnce
    <2> SUFFICES ASSUME Held, NEW i \in Active, NEW j \in Active, i # j, Clash(i, j)
                 PROVE  \E k \in {i, j} :
                            reservation[k].isDayUse /\ reservation[i + j - k].stays # <<>>
      BY DEF RoomBookedOnce
    <2>1. i \in Booked /\ j \in Booked /\ i + j - i = j /\ i + j - j = i
      BY Booked1 DEF Held, Active
    <2>2. Apart(reservation[i], reservation[j])
      BY <2>1 DEF Held, Distinct, Free, Active, Booked
    <2>3. \/ reservation[i].isDayUse /\ reservation[j].stays # <<>>
          \/ reservation[j].isDayUse /\ reservation[i].stays # <<>>
      BY <2>2 DEF Apart, Clash, WindowsOf, WindowsIn
    <2> QED
      BY <2>1, <2>3
  <1> QED
    BY <1>1, <1>2, <1>3, PTL DEF Spec

-----------------------------------------------------------------------------
(* No block gives out more rooms than it has been allotted *)

PickupIn(b, rows) ==
    {i \in DOMAIN rows : rows[i].block = b /\ rows[i].status \notin BLOCK_INACTIVE_STATUSES}

\* A block's row, of which n rooms are picked up.
Sold(x, n) == /\ {"allotted", "released"} \subseteq DOMAIN x
              /\ x.allotted \in Int /\ x.released \in Int
              /\ n <= x.allotted - x.released

\* What a call in flight will give out is left in the block it has read; the
\* other calls leave the block of a row.
Grants(h, rows, blocks) ==
    /\ h.op = "book" => Over(h.dto, [block |-> NoBlock]).block = NoBlock
    /\ h.op = "attach" =>
            \/ rows[h.id].block = h.block
            \/ Sold(blocks[h.block], Cardinality(PickupIn(h.block, rows) \ {h.id}) + 1)
    /\ h.op = "release" =>
            /\ h.block \in Blocks /\ h.released \in Int
            /\ Cardinality(PickupIn(h.block, rows)) <= blocks[h.block].allotted - h.released
    /\ h.op \in {"update", "selectWrite"} => Over(h.data, rows[h.id]).block = rows[h.id].block
    /\ h.op = "selectWrite" => Over(h.data, rows[h.id]).status = rows[h.id].status

Allotted ==
    /\ Rows
    /\ DOMAIN block = Blocks
    /\ \A b \in Blocks : Sold(block[b], Cardinality(PickupIn(b, reservation)))
    /\ \A r \in Requests : Grants(req[r], reservation, block)

\* An allotment is not cut below what was picked up and released, which
\* nothing asks when a block is edited, and no update makes a reservation count.
AllotmentsSuffice == \A b \in Blocks :
    \/ block'[b].allotted >= block[b].allotted
    \/ Cardinality(Pickup(b)) <= block'[b].allotted - block[b].released
NothingCounted == \A i \in Booked :
    \/ reservation'[i].status \in BLOCK_INACTIVE_STATUSES
    \/ reservation[i].status \notin BLOCK_INACTIVE_STATUSES

LEMMA PickupFinite ==
    ASSUME NEW rows \in Seq(SoundRows), NEW b
    PROVE  /\ IsFiniteSet(PickupIn(b, rows)) /\ Cardinality(PickupIn(b, rows)) \in Nat
           /\ \A P \in SUBSET PickupIn(b, rows) : Cardinality(P) <= Cardinality(PickupIn(b, rows))
  <1>1. IsFiniteSet(1..Len(rows))
    BY FS_Interval
  <1>2. PickupIn(b, rows) \subseteq 1..Len(rows)
    BY DEF PickupIn
  <1>3. IsFiniteSet(PickupIn(b, rows))
    BY <1>1, <1>2, FS_Subset
  <1> QED
    BY <1>3, FS_Subset, FS_CardinalityType

\* A row written that keeps its block or leaves it, and does not come to count.
LEMMA PickupShrinks ==
    ASSUME Rows, NEW i, NEW t, reservation' = [reservation EXCEPT ![i] = t],
           i \in Booked => t.block = reservation[i].block \/ t.block \notin Blocks,
           i \in Booked => \/ t.status \in BLOCK_INACTIVE_STATUSES
                           \/ reservation[i].status \notin BLOCK_INACTIVE_STATUSES,
           NEW b \in Blocks
    PROVE  PickupIn(b, reservation') \subseteq PickupIn(b, reservation)
  <1>1. /\ DOMAIN reservation' = DOMAIN reservation
        /\ \A j \in DOMAIN reservation : reservation'[j] = IF j = i THEN t ELSE reservation[j]
    OBVIOUS
  <1> QED
    BY <1>1 DEF PickupIn, Booked

\* Only attaching makes a block's pickup grow, and by one at most.
LEMMA PickupAfter ==
    ASSUME OneAtATime, Allotted, NEW r \in Requests, scene' = scene,
           ReservationNext(r) \/ RoomNext(r) \/ BlockNext(r) \/ Fail(r),
           UpdateWrite(r) => NothingCounted, NEW b \in Blocks
    PROVE  \/ PickupIn(b, reservation') \subseteq PickupIn(b, reservation)
           \/ /\ AttachWrite(r) /\ req[r].block = b /\ reservation[req[r].id].block # b
              /\ PickupIn(b, reservation') \subseteq
                    (PickupIn(b, reservation) \ {req[r].id}) \cup {req[r].id}
  <1>0. Rows /\ Grants(req[r], reservation, block)
    BY DEF Allotted
  <1>1. CASE BookInsert(r)
    <2> PICK s : s = Over(req[r].dto, [block |-> NoBlock])
      OBVIOUS
    <2>1. reservation' = Append(reservation, s)
      BY <1>1 DEF BookInsert
    <2>2. s.block \notin Blocks
      BY <1>0, <1>1, FrontOfficeAssumption DEF BookInsert, Grants
    <2>3. /\ DOMAIN reservation' = Booked \cup {Len(reservation) + 1}
          /\ reservation'[Len(reservation) + 1] = s
          /\ \A j \in Booked : reservation'[j] = reservation[j]
      BY <1>0, <2>1, Booked1, AppendProperties DEF Rows
    <2> QED
      BY <2>2, <2>3 DEF PickupIn, Booked
  <1>2. CASE UpdateWrite(r) \/ SelectWrite(r)
    <2> DEFINE i == req[r].id
               t == Over(req[r].data, reservation[i])
    <2>1. req[r].op \in {"update", "selectWrite"}
          /\ reservation' = [reservation EXCEPT ![req[r].id] = Over(req[r].data, @)]
      BY <1>2 DEF UpdateWrite, SelectWrite
    <2>2. i \in Booked /\ reservation' = [reservation EXCEPT ![i] = t]
      BY <1>0, <2>1, ChangeWrites
    <2>3. t.block = reservation[i].block
      BY <1>0, <2>1 DEF Grants
    <2>4. reservation'[i] = t
      BY <2>2 DEF Booked
    <2>5. \/ t.status \in BLOCK_INACTIVE_STATUSES
          \/ reservation[i].status \notin BLOCK_INACTIVE_STATUSES
      <3>1. CASE UpdateWrite(r)
        BY <2>2, <2>4, <3>1 DEF NothingCounted
      <3>2. CASE SelectWrite(r)
        BY <1>0, <3>2 DEF SelectWrite, Grants
      <3> QED
        BY <1>2, <3>1, <3>2
    <2> HIDE DEF i, t
    <2> QED
      BY <1>0, <2>2, <2>3, <2>5, PickupShrinks
  <1>3. CASE MoveWrite(r)
    <2> DEFINE i == req[r].id
               t == Moved(reservation[i], req[r].segment, req[r].to)
    <2>1. i \in Booked /\ req[r].to \in Rooms /\ reservation' = [reservation EXCEPT ![i] = t]
      BY <1>0, <1>3, MoveWrites
    <2>2. t.status = reservation[i].status /\ t.block = reservation[i].block
      BY <1>0, <2>1, Booked1, MoveKeepsSound
    <2> HIDE DEF i, t
    <2> QED
      BY <1>0, <2>1, <2>2, PickupShrinks
  <1>4. CASE CancelWrite(r) \/ WalkWrite(r) \/ NoShowWrite(r) \/ CheckInWrite(r) \/ CheckOutWrite(r)
    <2> PICK i, status : /\ status \in ReservationStatus /\ SetStatus(i, status)
                         /\ i \in Booked => \/ reservation[i].status \notin BLOCK_INACTIVE_STATUSES
                                            \/ status \in BLOCK_INACTIVE_STATUSES
      BY <1>0, <1>4, StatusGoesOn
    <2> PICK t : t = [reservation[i] EXCEPT !.status = status]
      OBVIOUS
    <2>1. reservation' = [reservation EXCEPT ![i] = t]
      BY <1>0, StatusWritten
    <2>2. i \in Booked => reservation[i] \in Row
      BY <1>0, Booked1
    <2>3. i \in Booked => t.status = status /\ t.block = reservation[i].block
      BY <2>2 DEF Row
    <2> QED
      BY <1>0, <2>1, <2>3, PickupShrinks
  <1>5. CASE DetachWrite(r)
    <2> PICK i, t : i = req[r].id /\ t = [reservation[i] EXCEPT !.block = NoBlock]
      OBVIOUS
    <2>1. reservation' = [reservation EXCEPT ![i] = t]
      BY <1>5 DEF DetachWrite
    <2>2. i \in Booked => reservation[i] \in Row
      BY <1>0, Booked1
    <2>3. i \in Booked => t.status = reservation[i].status /\ t.block \notin Blocks
      BY <2>2, FrontOfficeAssumption DEF Row
    <2> QED
      BY <1>0, <2>1, <2>3, PickupShrinks
  <1>6. CASE AttachWrite(r)
    <2> PICK i, t : i = req[r].id /\ t = [reservation[i] EXCEPT !.block = req[r].block]
      OBVIOUS
    <2>1. reservation' = [reservation EXCEPT ![i] = t]
      BY <1>6 DEF AttachWrite
    <2>2. i \in Booked
      BY <1>0, <1>6 DEF AttachWrite, Rows, Calls, Booked
    <2>3. reservation[i] \in Row
      BY <1>0, <2>2, Booked1
    <2>4. t.status = reservation[i].status /\ t.block = req[r].block
      BY <2>3 DEF Row
    <2>5. /\ DOMAIN reservation' = Booked /\ reservation'[i] = t
          /\ \A j \in Booked \ {i} : reservation'[j] = reservation[j]
      BY <2>1, <2>2 DEF Booked
    <2>6. CASE req[r].block = b /\ reservation[i].block # b
      BY <1>6, <2>5, <2>6 DEF PickupIn, Booked
    <2>7. CASE ~(req[r].block = b /\ reservation[i].block # b)
      BY <2>4, <2>5, <2>7 DEF PickupIn, Booked
    <2> QED
      BY <2>6, <2>7
  <1>7. CASE UNCHANGED reservation
    BY <1>7
  <1> QED
    BY <1>1, <1>2, <1>3, <1>4, <1>5, <1>6, <1>7, RowsAfter

\* What is written of a block leaves it what it has given out.
LEMMA BlocksAfter ==
    ASSUME OneAtATime, Allotted, NEW r \in Requests, scene' = scene,
           ReservationNext(r) \/ RoomNext(r) \/ BlockNext(r) \/ Fail(r), AllotmentsSuffice
    PROVE  \/ UNCHANGED block
           \/ /\ UNCHANGED reservation /\ DOMAIN block' = Blocks
              /\ \A b \in Blocks : Sold(block'[b], Cardinality(PickupIn(b, reservation)))
  <1>0. /\ Rows /\ Grants(req[r], reservation, block) /\ DOMAIN block = Blocks
        /\ \A b \in Blocks : Sold(block[b], Cardinality(PickupIn(b, reservation)))
        /\ \A b \in Blocks : Cardinality(PickupIn(b, reservation)) \in Nat
    BY PickupFinite DEF Allotted, Rows
  <1> DEFINE Written == /\ UNCHANGED reservation /\ DOMAIN block' = Blocks
                        /\ \A b \in Blocks : Sold(block'[b], Cardinality(PickupIn(b, reservation)))
  <1>1. ASSUME NEW b \in Blocks, NEW y, block' = [block EXCEPT ![b] = y], UNCHANGED reservation,
               Sold(y, Cardinality(PickupIn(b, reservation)))
        PROVE  Written
    <2>1. DOMAIN block' = Blocks /\ block'[b] = y /\ \A k \in Blocks \ {b} : block'[k] = block[k]
      BY <1>0, <1>1
    <2> QED
      BY <1>0, <1>1, <2>1
  <1>2. ASSUME NEW b \in Blocks
        PROVE  /\ {"allotted", "released"} \subseteq DOMAIN block[b]
               /\ block[b].allotted \in Int /\ block[b].released \in Int
               /\ Cardinality(PickupIn(b, reservation)) \in Nat
               /\ Cardinality(PickupIn(b, reservation)) <= block[b].allotted - block[b].released
               /\ Pickup(b) = PickupIn(b, reservation)
    BY <1>0 DEF Sold, Pickup, PickupIn, OnBlock, Booked
  <1> HIDE DEF Written
  <1>3. ASSUME NEW b \in Blocks, NEW terms \in scene.terms, CreateBlock(r, b, terms) PROVE Written
    <2> PICK y, z : y = Over(z, terms) /\ z = [status |-> "OPEN", released |-> 0]
      OBVIOUS
    <2>1. /\ DOMAIN terms = {"type", "from", "to", "cutoff", "allotted"} /\ terms.allotted \in Nat
          /\ DOMAIN z = {"status", "released"} /\ z.released = 0
      BY <1>0, FrontOfficeAssumption DEF Rows
    <2>2. {"allotted", "released"} \subseteq DOMAIN y /\ y.allotted = terms.allotted /\ y.released = 0
      BY <2>1 DEF Over
    <2>3. /\ block' = [block EXCEPT ![b] = y] /\ UNCHANGED reservation
          /\ block[b] = Unsold
      BY <1>3 DEF CreateBlock
    <2>4. block[b].allotted = 0 /\ block[b].released = 0
      <3>1. Unsold.allotted = 0 /\ Unsold.released = 0
        BY DEF Unsold
      <3> QED
        BY <2>3, <3>1
    <2>5. Sold(y, Cardinality(PickupIn(b, reservation)))
      BY <1>2, <2>1, <2>2, <2>4 DEF Sold
    <2> QED
      BY <1>1, <2>3, <2>5
  <1>4. ASSUME NEW b \in Blocks, NEW c \in BlockChanges, UpdateBlock(r, b, c) PROVE Written
    <2> PICK y : y = Over(c, block[b])
      OBVIOUS
    <2>1. block' = [block EXCEPT ![b] = y] /\ UNCHANGED reservation
      BY <1>4 DEF UpdateBlock
    <2>2. /\ DOMAIN c \subseteq {"status", "cutoff", "allotted"}
          /\ "allotted" \in DOMAIN c => c.allotted \in Nat
      BY FrontOfficeAssumption
    <2>3. /\ {"allotted", "released"} \subseteq DOMAIN y /\ y.released = block[b].released
          /\ y.allotted \in Int
      BY <1>2, <2>2 DEF Over
    <2>4. \/ y.allotted >= block[b].allotted
          \/ Cardinality(PickupIn(b, reservation)) <= y.allotted - block[b].released
      BY <1>0, <1>2, <2>1 DEF AllotmentsSuffice
    <2>5. Sold(y, Cardinality(PickupIn(b, reservation)))
      BY <1>2, <2>3, <2>4 DEF Sold
    <2> QED
      BY <1>1, <2>1, <2>5
  <1>5. ASSUME NEW b \in Blocks, FindBlock(r, b) PROVE Written
    <2> PICK n : n = RemainingRooms(b, Cardinality(Pickup(b)))
      OBVIOUS
    <2> PICK y : y = [block[b] EXCEPT !.status = "RELEASED", !.released = @ + n]
      OBVIOUS
    <2>1. block' = [block EXCEPT ![b] = y] /\ UNCHANGED reservation
      BY <1>5 DEF FindBlock
    <2>2. n = block[b].allotted - block[b].released - Cardinality(PickupIn(b, reservation))
      BY <1>2 DEF RemainingRooms
    <2>3. /\ {"allotted", "released"} \subseteq DOMAIN y /\ y.allotted = block[b].allotted
          /\ y.released = block[b].released + n
      BY <1>2
    <2>4. Sold(y, Cardinality(PickupIn(b, reservation)))
      BY <1>2, <2>2, <2>3 DEF Sold
    <2> QED
      BY <1>1, <2>1, <2>4
  <1>6. ASSUME ReleaseWrite(r) PROVE Written
    <2> PICK b, y : /\ b = req[r].block
                    /\ y = [block[b] EXCEPT !.status = "RELEASED", !.released = req[r].released]
      OBVIOUS
    <2>1. block' = [block EXCEPT ![b] = y] /\ UNCHANGED reservation
      BY <1>6 DEF ReleaseWrite
    <2>2. /\ b \in Blocks /\ req[r].released \in Int
          /\ Cardinality(PickupIn(b, reservation)) <= block[b].allotted - req[r].released
      BY <1>0, <1>6 DEF ReleaseWrite, Grants
    <2>3. /\ {"allotted", "released"} \subseteq DOMAIN y /\ y.allotted = block[b].allotted
          /\ y.released = req[r].released
      BY <1>2, <2>2
    <2>4. Sold(y, Cardinality(PickupIn(b, reservation)))
      BY <1>2, <2>2, <2>3 DEF Sold
    <2> QED
      BY <1>1, <2>1, <2>2, <2>4
  <1>7. ASSUME \/ \E b \in Blocks :
                    \/ ReleaseRead(r, b)
                    \/ \E i \in Booked : AttachRead(r, b, i) \/ DetachRead(r, b, i)
               \/ AttachWrite(r) \/ DetachWrite(r) \/ Fail(r)
        PROVE  UNCHANGED block
    BY <1>7 DEF ReleaseRead, AttachRead, DetachRead, AttachWrite, DetachWrite, Fail
  <1>8. CASE ReservationNext(r) \/ RoomNext(r)
    <2>1. ASSUME NEW i \in Booked,
                 \/ \E c \in scene.changes : UpdateRead(r, i, c)
                 \/ CancelRead(r, i) \/ WalkRead(r, i) \/ \E asOf \in Days : NoShowRead(r, i, asOf)
                 \/ CheckInRead(r, i) \/ CheckOutRead(r, i)
                 \/ \E m \in Rooms : SelectRead(r, i, m) \/ MoveRead(r, i, m)
          PROVE  UNCHANGED block
      BY <2>1 DEF UpdateRead, CancelRead, WalkRead, NoShowRead, CheckInRead, CheckOutRead,
          SelectRead, MoveRead
    <2>2. ASSUME \/ \E dto \in scene.bookings : BookCheck(r, dto)
                 \/ BookInsert(r) \/ UpdateWrite(r) \/ SelectUpdate(r) \/ SelectWrite(r)
                 \/ SelectAnswer(r) \/ CancelWrite(r) \/ WalkWrite(r) \/ NoShowWrite(r)
                 \/ CheckInWrite(r) \/ CheckInRoom(r) \/ CheckOutWrite(r) \/ CheckOutRoom(r)
                 \/ MoveWrite(r)
          PROVE  UNCHANGED block
      BY <2>2 DEF BookCheck, BookInsert, UpdateWrite, SelectUpdate, SelectWrite, SelectAnswer,
          CancelWrite, WalkWrite, NoShowWrite, CheckInWrite, CheckInRoom, CheckOutWrite,
          CheckOutRoom, MoveWrite
    <2>3. CASE ReservationNext(r)
      BY <2>1, <2>2, <2>3 DEF ReservationNext
    <2>4. CASE RoomNext(r)
      <3>1. UNCHANGED block
        BY <2>4 DEF RoomNext, UpdateStatusRead, CreateRoom, EditRoom, RemoveRoom, MarkCleanRead,
            SetGuestRequest, InspectRead, UpdateStatusWrite, MarkCleanWrite, InspectWrite
      <3> QED
        BY <3>1
    <2> QED
      BY <1>8, <2>3, <2>4
  <1>9. CASE BlockNext(r)
    <2>1. Written \/ UNCHANGED block
      BY <1>3, <1>4, <1>5, <1>6, <1>7, <1>9 DEF BlockNext
    <2> QED
      BY <2>1 DEF Written
  <1> QED
    BY <1>7, <1>8, <1>9

\* What a call reads of a block bears out what it gives out.
LEMMA ReadsGrant ==
    ASSUME OneAtATime, Allotted, NEW r \in Requests, scene' = scene,
           ReservationNext(r) \/ RoomNext(r) \/ BlockNext(r) \/ Fail(r)
    PROVE  \A q \in Requests : Grants(req'[q], reservation', block')
  <1>0. /\ Rows /\ DOMAIN req = Requests /\ \A q \in Requests : q = r
        /\ \A b \in Blocks : Sold(block[b], Cardinality(PickupIn(b, reservation)))
        /\ \A b \in Blocks : Pickup(b) = PickupIn(b, reservation)
        /\ reservation \in Seq(SoundRows)
    BY DEF Allotted, Rows, OneAtATime, Pickup, PickupIn, OnBlock, Booked
  <1> SUFFICES Grants(req'[r], reservation', block')
    BY <1>0
  <1>1. ASSUME req'[r].op \notin {"book", "update", "selectWrite", "move", "attach", "release"}
        PROVE  Grants(req'[r], reservation', block')
    BY <1>1 DEF Grants
  <1>2. CASE UNCHANGED req /\ req[r] = Idle
    <2>1. req'[r].op = "idle"
      BY <1>2 DEF Idle
    <2> QED
      BY <1>1, <2>1
  <1>3. ASSUME NEW dto \in scene.bookings, BookCheck(r, dto)
        PROVE  Grants(req'[r], reservation', block')
    <2>1. GivesFields(dto) /\ DOMAIN dto = DOMAIN Fields
      BY <1>0, FrontOfficeAssumption DEF Rows
    <2>2. Over(dto, [block |-> NoBlock]).block = NoBlock
      BY <2>1, NewRow
    <2> PICK h : h = [op |-> "book", dto |-> dto]
      OBVIOUS
    <2>3. req'[r] = h /\ h.op = "book" /\ h.dto = dto
      BY <1>0, <1>3 DEF BookCheck, Begin
    <2> QED
      BY <2>2, <2>3 DEF Grants
  <1>4. ASSUME NEW i \in Booked, NEW c, GivesFields(c),
               NEW h, h.id = i, h.data = UpdateData(reservation[i], c),
               \/ h.op = "update"
               \/ h.op = "selectWrite" /\ "status" \notin DOMAIN c,
               req'[r] = h, reservation' = reservation
        PROVE  Grants(req'[r], reservation', block')
    <2>1. reservation[i] \in Row
      BY <1>0, Booked1
    <2>2. /\ Over(h.data, reservation[i]).status = Given(c, "status", reservation[i])
          /\ Over(h.data, reservation[i]).block = reservation[i].block
      BY <1>4, <2>1, UpdatedRow
    <2>3. h.op = "selectWrite" =>
            Over(h.data, reservation[i]).status = reservation[i].status
      BY <1>4, <2>2 DEF Given
    <2> QED
      BY <1>4, <2>2, <2>3 DEF Grants
  <1>5. ASSUME NEW i \in Booked, NEW c \in scene.changes, UpdateRead(r, i, c)
        PROVE  Grants(req'[r], reservation', block')
    <2>1. GivesFields(c)
      BY <1>0, FrontOfficeAssumption DEF Rows
    <2> PICK h : h = [op |-> "update", id |-> i, data |-> UpdateData(reservation[i], c)]
      OBVIOUS
    <2>2. /\ req'[r] = h /\ h.op = "update" /\ h.id = i /\ h.data = UpdateData(reservation[i], c)
          /\ reservation' = reservation
      BY <1>0, <1>5 DEF UpdateRead, Begin
    <2> QED
      BY <1>4, <2>1, <2>2
  <1>6. CASE SelectUpdate(r)
    <2> PICK i, c : i = req[r].id /\ c = [roomId |-> req[r].roomId]
      OBVIOUS
    <2>1. i \in Booked /\ req[r].roomId \in Rooms
      BY <1>0, <1>6 DEF SelectUpdate, Rows, Calls, Booked
    <2>2. DOMAIN c = {"roomId"} /\ c.roomId \in Rooms
      BY <2>1
    <2>3. GivesFields(c) /\ "status" \notin DOMAIN c
      BY <2>2 DEF GivesFields, Fields
    <2> PICK h : h = [op |-> "selectWrite", id |-> i, roomId |-> req[r].roomId,
                      data |-> UpdateData(reservation[i], c)]
      OBVIOUS
    <2>4. /\ req'[r] = h /\ h.op = "selectWrite" /\ h.id = i
          /\ h.data = UpdateData(reservation[i], c) /\ reservation' = reservation
      BY <1>0, <1>6 DEF SelectUpdate, Continue
    <2> QED
      BY <1>4, <2>1, <2>3, <2>4
  <1>7. ASSUME NEW i \in Booked, NEW to \in Rooms, MoveRead(r, i, to)
        PROVE  Grants(req'[r], reservation', block')
    <2>1. req'[r].op = "move"
      BY <1>0, <1>7 DEF MoveRead, Begin
    <2> QED
      BY <2>1 DEF Grants
  <1>8. ASSUME NEW b \in Blocks, NEW i \in Booked, AttachRead(r, b, i)
        PROVE  Grants(req'[r], reservation', block')
    <2> PICK h, n : /\ h = [op |-> "attach", id |-> i, block |-> b]
                    /\ n = Cardinality(PickupIn(b, reservation) \ {i})
      OBVIOUS
    <2>1. /\ req'[r] = h /\ h.op = "attach" /\ h.id = i /\ h.block = b
          /\ reservation' = reservation /\ block' = block
      BY <1>0, <1>8 DEF AttachRead, Begin
    <2>2. reservation[i].block = b \/ RemainingRooms(b, n) >= 1
      BY <1>0, <1>8, <2>1 DEF AttachRead
    <2>3. n \in Nat
      BY <1>0, PickupFinite, FS_Subset, FS_CardinalityType
    <2>4. RemainingRooms(b, n) >= 1 => Sold(block[b], n + 1)
      BY <1>0, <2>3 DEF RemainingRooms, Sold
    <2> QED
      BY <2>1, <2>2, <2>4 DEF Grants
  <1>9. ASSUME NEW b \in Blocks, ReleaseRead(r, b)
        PROVE  Grants(req'[r], reservation', block')
    <2> PICK n : n = Cardinality(PickupIn(b, reservation))
      OBVIOUS
    <2> PICK h : h = [op |-> "release", block |-> b, released |->
                      block[b].released + RemainingRooms(b, n)]
      OBVIOUS
    <2>1. /\ req'[r] = h /\ h.op = "release" /\ h.block = b
          /\ h.released = block[b].released + RemainingRooms(b, n)
          /\ reservation' = reservation /\ block' = block
      BY <1>0, <1>9 DEF ReleaseRead, Begin
    <2>2. n \in Nat
      BY <1>0, PickupFinite
    <2>3. h.released \in Int /\ n <= block[b].allotted - h.released
      BY <1>0, <2>1, <2>2 DEF RemainingRooms, Sold
    <2> QED
      BY <2>1, <2>3 DEF Grants
  <1> QED
    BY <1>0, <1>1, <1>2, <1>3, <1>5, <1>6, <1>7, <1>8, <1>9, OpsAfter

\* As long as no allotment is cut below what is sold and no update makes a
\* reservation count, a block's pickup stays within its allotment.
THEOREM AllotmentsHold ==
    ASSUME OneAtATime
    PROVE  Spec /\ [][AllotmentsSuffice /\ ((\E r \in Requests : UpdateWrite(r)) => NothingCounted)]_vars
              => []AllotmentHeld
  <1>1. Init => Allotted
    <2> SUFFICES ASSUME Init PROVE Allotted
      OBVIOUS
    <2>1. \A b : PickupIn(b, reservation) = {}
      BY DEF Init, PickupIn
    <2>2. DOMAIN block = Blocks /\ \A b \in Blocks : block[b] = Unsold
      BY DEF Init
    <2>3. Sold(Unsold, 0)
      BY DEF Unsold, Sold
    <2>4. \A r \in Requests : Grants(req[r], reservation, block)
      BY DEF Init, Idle, Grants
    <2> QED
      BY <2>1, <2>2, <2>3, <2>4, RowsInit, FS_EmptySet DEF Allotted
  <1>2. ASSUME Allotted, [Next /\ UNCHANGED scene]_<<vars, scene>>,
               [AllotmentsSuffice /\ ((\E r \in Requests : UpdateWrite(r)) => NothingCounted)]_vars
        PROVE  Allotted'
    <2>1. Rows'
      BY <1>2, RowsNext DEF Allotted
    <2>2. CASE UNCHANGED vars
      BY <1>2, <2>1, <2>2 DEF Allotted, vars
    <2>3. CASE NextDay
      BY <1>2, <2>1, <2>3 DEF Allotted, NextDay
    <2>4. ASSUME ~UNCHANGED vars,
                 NEW r \in Requests, ReservationNext(r) \/ RoomNext(r) \/ BlockNext(r) \/ Fail(r)
          PROVE  Allotted'
      <3>1. (UpdateWrite(r) => NothingCounted) /\ AllotmentsSuffice /\ scene' = scene
        BY <1>2, <2>4
      <3>2. \A q \in Requests : Grants(req'[q], reservation', block')
        BY <1>2, <2>4, <3>1, ReadsGrant
      <3>3. CASE /\ UNCHANGED reservation /\ DOMAIN block' = Blocks
                 /\ \A b \in Blocks : Sold(block'[b], Cardinality(PickupIn(b, reservation)))
        BY <2>1, <3>2, <3>3 DEF Allotted
      <3>4. CASE UNCHANGED block
        <4>1. /\ DOMAIN block = Blocks
              /\ \A b \in Blocks : Sold(block[b], Cardinality(PickupIn(b, reservation)))
              /\ Grants(req[r], reservation, block)
              /\ reservation \in Seq(SoundRows) /\ reservation' \in Seq(SoundRows)
          BY <1>2, <2>1 DEF Allotted, Rows
        <4>2. ASSUME NEW b \in Blocks
              PROVE  Sold(block[b], Cardinality(PickupIn(b, reservation')))
          <5> PICK P, Q : P = PickupIn(b, reservation) /\ Q = PickupIn(b, reservation')
            OBVIOUS
          <5>1. IsFiniteSet(P) /\ Cardinality(P) \in Nat /\ Cardinality(Q) \in Nat
            BY <4>1, PickupFinite
          <5>2. CASE Q \subseteq P
            <6>1. Cardinality(Q) <= Cardinality(P)
              BY <4>1, <5>2, PickupFinite
            <6> QED
              BY <4>1, <5>1, <6>1 DEF Sold
          <5>3. CASE /\ AttachWrite(r) /\ req[r].block = b /\ reservation[req[r].id].block # b
                     /\ Q \subseteq (P \ {req[r].id}) \cup {req[r].id}
            <6> PICK i : i = req[r].id
              OBVIOUS
            <6>1. Sold(block[b], Cardinality(P \ {i}) + 1)
              BY <4>1, <5>3 DEF AttachWrite, Grants
            <6>2. IsFiniteSet(P \ {i}) /\ Cardinality(P \ {i}) \in Nat
              BY <5>1, FS_Subset, FS_CardinalityType
            <6>3. IsFiniteSet((P \ {i}) \cup {i})
                  /\ Cardinality((P \ {i}) \cup {i}) = Cardinality(P \ {i}) + 1
              BY <6>2, FS_AddElement
            <6>4. Cardinality(Q) <= Cardinality(P \ {i}) + 1
              BY <5>3, <6>3, FS_Subset
            <6> QED
              BY <5>1, <6>1, <6>2, <6>4 DEF Sold
          <5> QED
            BY <1>2, <2>4, <3>1, <5>2, <5>3, PickupAfter
        <4> QED
          BY <2>1, <3>2, <3>4, <4>1, <4>2 DEF Allotted
      <3> QED
        BY <1>2, <2>4, <3>1, <3>3, <3>4, BlocksAfter
    <2> QED
      BY <1>2, <2>2, <2>3, <2>4 DEF Next, vars
  <1>3. Allotted => AllotmentHeld
    BY DEF Allotted, Sold, AllotmentHeld, Pickup, PickupIn, OnBlock, Booked
  <1> QED
    BY <1>1, <1>2, <1>3, PTL DEF Spec

=============================================================================
