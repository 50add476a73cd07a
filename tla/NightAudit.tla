----------------------------- MODULE NightAudit ----------------------------
(***************************************************************************)
(* The night audit of one property: startAudit on the API, a BullMQ queue, *)
(* and the workers that mark no-shows, post the night, close interim       *)
(* folios, archive a report, book the journal and roll the date. Every     *)
(* write is a transaction of its own, so a worker may stop after any of    *)
(* them, and the front desk goes on meanwhile. A posting on a folio is one *)
(* step here (FolioLedger has its inside).                                 *)
(***************************************************************************)
EXTENDS Integers, FiniteSets, FiniteSetsExt, Functions

CONSTANTS
    Dates,           \* business dates 1..n
    Calls,           \* concurrent calls of POST /night-audit/run
    Workers,         \* API processes, each with one BullMQ worker
    Nobody,          \* no worker
    Guests,          \* reservations
    InHouse,         \* those checked in to begin with; the others are CONFIRMED
    Extended,        \* those billed by the week or month
    CycleEnds,       \* dates on which such a cycle ends
    MaxFolios,       \* bound: folios of one reservation
    Scenes           \* what a behaviour has:
                     \*   dates    those audits are asked for
                     \*   guests   the reservations there are
                     \*   workers  the processes that run
                     \*   mishaps  bounds: worker deaths, lost locks, errors of
                     \*            database or Redis, folios settled, shifts

VARIABLES
    today,           \* Property.businessDate
    audit,           \* NightAudit.status per date
    posted,          \* NightAudit.roomsPosted per date
    job,             \* BullMQ's job with the date's id: state, lock and stalls
    wk,              \* the worker of each process
    guest,           \* Reservation rows with their folios
    room,            \* room charge rows per reservation, folio and date
    noShow,          \* no-show charge rows per reservation and date
    reports,         \* NIGHT_AUDIT_SUMMARY rows per date
    journal,         \* rows booked by the date's NIGHT_AUDIT journal entry
    openShift,       \* dates with an open cashier shift
    call,            \* startAudit calls in flight
    mishaps,         \* what the scene's mishaps have left
    scene            \* one of Scenes, for good

vars == <<today, audit, posted, job, wk, guest, room, noShow, reports, journal,
          openShift, call, mishaps>>
stays == <<guest, room, noShow>>
books == <<today, audit, posted, reports, journal>>

Kinds == {"crashes", "locks", "faults", "settled", "shifts"}

ASSUME AuditAssumption ==
    /\ Dates \subseteq Nat \ {0} /\ IsFiniteSet(Dates) /\ CycleEnds \subseteq Dates
    /\ IsFiniteSet(Guests) /\ InHouse \subseteq Guests /\ Extended \subseteq Guests
    /\ Nobody \notin Workers
    /\ MaxFolios \in Nat \ {0}
    /\ Scenes \subseteq [dates : SUBSET Dates, guests : SUBSET Guests,
                          workers : SUBSET Workers, mishaps : [Kinds -> Nat]]

Folios == 1..MaxFolios
Resting == [pc |-> "idle"]
NotBooked == -1

Happens(kind) ==
    /\ mishaps[kind] > 0
    /\ mishaps' = [mishaps EXCEPT ![kind] = @ - 1]

\* desk is the check-in handler: it has seen the status, or owes a folio.
Init ==
    /\ scene \in Scenes
    /\ today = 1
    /\ audit = [d \in Dates |-> "NONE"]
    /\ posted = [d \in Dates |-> 0]
    /\ job = [d \in Dates |-> [state |-> "none", lock |-> Nobody, stalls |-> 0]]
    /\ wk = [w \in Workers |-> Resting]
    /\ guest = [g \in Guests |->
            [status |-> IF g \notin scene.guests THEN "CANCELLED"
                        ELSE IF g \in InHouse THEN "CHECKED_IN" ELSE "CONFIRMED",
             folios |-> IF g \in InHouse \cap scene.guests THEN 1 ELSE 0,
             open |-> IF g \in InHouse \cap scene.guests THEN {1} ELSE {},
             interim |-> 0, desk |-> "none"]]
    /\ room = [g \in Guests |-> [k \in Folios |-> [d \in Dates |-> 0]]]
    /\ noShow = [g \in Guests |-> [d \in Dates |-> 0]]
    /\ reports = [d \in Dates |-> 0]
    /\ journal = [d \in Dates |-> NotBooked]
    /\ openShift = {}
    /\ call = [c \in Calls |-> Resting]
    /\ mishaps = scene.mishaps

-----------------------------------------------------------------------------
(* startAudit *)

CallStep(c, from, to) == call[c].pc = from /\ call' = [call EXCEPT ![c].pc = to]

\* COMPLETED and IN_PROGRESS are answered without a further step.
StartRead(c, d) ==
    /\ call[c] = Resting
    /\ d \in scene.dates
    /\ audit[d] \notin {"COMPLETED", "IN_PROGRESS"}
    /\ call' = [call EXCEPT ![c] = [pc |-> "count", date |-> d]]
    /\ UNCHANGED <<stays, books, job, wk, openShift, mishaps>>

StartCount(c) ==
    /\ CallStep(c, "count", "upsert")
    /\ call[c].date \notin openShift
    /\ UNCHANGED <<stays, books, job, wk, openShift, mishaps>>

\* An open shift refuses the call.
StartRefused(c) ==
    /\ call[c].pc = "count" /\ call[c].date \in openShift
    /\ call' = [call EXCEPT ![c] = Resting]
    /\ UNCHANGED <<stays, books, job, wk, openShift, mishaps>>

StartUpsert(c) ==
    /\ CallStep(c, "upsert", "add")
    /\ audit' = [audit EXCEPT ![call[c].date] = "IN_PROGRESS"]
    /\ UNCHANGED <<stays, today, posted, reports, journal, job, wk, openShift, mishaps>>

\* The queue ignores an id it still holds, the ids of finished jobs included.
StartAdd(c) ==
    /\ call[c].pc = "add"
    /\ LET d == call[c].date IN
        job' = [job EXCEPT ![d].state = IF @ = "none" THEN "waiting" ELSE @]
    /\ call' = [call EXCEPT ![c] = Resting]
    /\ UNCHANGED <<stays, books, wk, openShift, mishaps>>

\* An error, or the death of the API process, ends the call where it is.
StartFails(c) ==
    /\ call[c] # Resting /\ Happens("faults")
    /\ call' = [call EXCEPT ![c] = Resting]
    /\ UNCHANGED <<stays, books, job, wk, openShift>>

-----------------------------------------------------------------------------
(* The queue: no retries (attempts is left at its default); a job whose    *)
(* lock ran out is handed out once more (maxStalledCount is 1).            *)

TakeJob(w, d) ==
    /\ w \in scene.workers
    /\ wk[w] = Resting
    /\ job[d].state = "waiting"
    /\ job' = [job EXCEPT ![d].state = "active", ![d].lock = w]
    /\ wk' = [wk EXCEPT ![w] =
            [pc |-> "noShows", date |-> d, guest |-> Nobody, folio |-> 0, count |-> 0,
             listed |-> <<>>, todo |-> {g \in Guests : guest[g].status = "CONFIRMED"}]]
    /\ UNCHANGED <<stays, books, openShift, call, mishaps>>

\* A job ends as its worker says only while that worker holds the lock.
JobEnds(w, how) ==
    LET d == wk[w].date IN
    job' = [job EXCEPT ![d] = IF @.lock = w /\ @.state = "active"
                              THEN [@ EXCEPT !.state = how, !.lock = Nobody] ELSE @]

FinishJob(w) ==
    /\ wk[w].pc = "done"
    /\ JobEnds(w, "completed")
    /\ wk' = [wk EXCEPT ![w] = Resting]
    /\ UNCHANGED <<stays, books, openShift, call, mishaps>>

Unlock(w) == [d \in Dates |-> IF job[d].lock = w THEN [job[d] EXCEPT !.lock = Nobody]
                              ELSE job[d]]

Crash(w) ==
    /\ wk[w] # Resting /\ Happens("crashes")
    /\ wk' = [wk EXCEPT ![w] = Resting]
    /\ job' = Unlock(w)
    /\ UNCHANGED <<stays, books, openShift, call>>

\* The worker lives on but did not renew its lock in time.
LoseLock(w) ==
    /\ wk[w] # Resting /\ Happens("locks")
    /\ job' = Unlock(w)
    /\ UNCHANGED <<stays, books, wk, openShift, call>>

Stalled(d) ==
    /\ job[d].state = "active" /\ job[d].lock = Nobody
    /\ job' = [job EXCEPT ![d].state = IF job[d].stalls = 0 THEN "waiting" ELSE "failed",
                          ![d].stalls = 1]
    /\ UNCHANGED <<stays, books, wk, openShift, call, mishaps>>

Turn(w, pc) == wk' = [wk EXCEPT ![w].pc = pc]
NextGuest(w, pc, g) == wk' = [wk EXCEPT ![w].pc = pc, ![w].todo = @ \ {g}]

\* The awaits outside markNoShow, whose errors processNoShows catches itself.
Fault(w) ==
    /\ wk[w].pc \notin {"idle", "record", "done", "nsFolio", "nsLook", "nsPost", "nsMark"}
    /\ Happens("faults")
    /\ Turn(w, "record")
    /\ UNCHANGED <<stays, books, job, openShift, call>>

RecordError(w) ==
    /\ wk[w].pc = "record"
    /\ audit' = [audit EXCEPT ![wk[w].date] = "FAILED"]
    /\ JobEnds(w, "failed")
    /\ wk' = [wk EXCEPT ![w] = Resting]
    /\ UNCHANGED <<stays, today, posted, reports, journal, openShift, call, mishaps>>

RecordFails(w) ==
    /\ wk[w].pc = "record" /\ Happens("faults")
    /\ JobEnds(w, "failed")
    /\ wk' = [wk EXCEPT ![w] = Resting]
    /\ UNCHANGED <<stays, books, openShift, call>>

-----------------------------------------------------------------------------
(* processNoShows and markNoShow: read the reservation, make sure it has a *)
(* folio and one charge, then set its status whatever that is by then.     *)

NoShowRead(w, g) ==
    /\ wk[w].pc = "noShows" /\ g \in wk[w].todo
    /\ guest[g].status = "CONFIRMED"
    /\ wk' = [wk EXCEPT ![w].pc = "nsFolio", ![w].guest = g]
    /\ UNCHANGED <<stays, books, job, openShift, call, mishaps>>

WithFolio(g) ==
    IF guest[g].folios > 0 THEN guest
    ELSE [guest EXCEPT ![g].folios = 1, ![g].open = {1}]

NoShowFolio(w) ==
    /\ wk[w].pc = "nsFolio"
    /\ guest' = WithFolio(wk[w].guest)
    /\ Turn(w, "nsLook")
    /\ UNCHANGED <<room, noShow, books, job, openShift, call, mishaps>>

\* Mutant: an earlier charge is not looked up.
AlreadyPostedNever(g) == FALSE

AlreadyPosted(g) == \E e \in Dates : noShow[g][e] > 0

\* The charge that is looked up and the one that is posted are two round trips.
NoShowLook(w) ==
    /\ wk[w].pc = "nsLook"
    /\ Turn(w, IF AlreadyPosted(wk[w].guest) THEN "nsMark" ELSE "nsPost")
    /\ UNCHANGED <<stays, books, job, openShift, call, mishaps>>

NoShowCharge(w) ==
    /\ wk[w].pc = "nsPost"
    /\ guest[wk[w].guest].open # {}
    /\ noShow' = [noShow EXCEPT ![wk[w].guest][wk[w].date] = @ + 1]
    /\ Turn(w, "nsMark")
    /\ UNCHANGED <<guest, room, books, job, openShift, call, mishaps>>

NoShowMark(w) ==
    /\ wk[w].pc = "nsMark"
    /\ guest' = [guest EXCEPT ![wk[w].guest].status = "NO_SHOW"]
    /\ NextGuest(w, "noShows", wk[w].guest)
    /\ UNCHANGED <<room, noShow, books, job, openShift, call, mishaps>>

\* The error of one reservation fails the audit; the loop goes on.
NoShowError(w, g) ==
    /\ audit' = [audit EXCEPT ![wk[w].date] = "FAILED"]
    /\ NextGuest(w, "noShows", g)
    /\ UNCHANGED <<stays, today, posted, reports, journal, job, openShift, call>>

\* The guest turned up meanwhile, or settled the folio.
NoShowRefused(w, g) ==
    /\ \/ wk[w].pc = "noShows" /\ g \in wk[w].todo /\ guest[g].status # "CONFIRMED"
       \/ wk[w].pc = "nsPost" /\ g = wk[w].guest /\ guest[g].open = {}
    /\ NoShowError(w, g)
    /\ UNCHANGED mishaps

NoShowFault(w, g) ==
    /\ \/ wk[w].pc = "noShows" /\ g \in wk[w].todo
       \/ wk[w].pc \in {"nsFolio", "nsLook", "nsPost", "nsMark"} /\ g = wk[w].guest
    /\ Happens("faults")
    /\ NoShowError(w, g)

-----------------------------------------------------------------------------
(* processRoomPosting: folios[0] of an unordered list, checked for a       *)
(* charge of this date, then posted on if it is still open.                *)

Due(g, d) == guest[g].status = "CHECKED_IN" /\ (g \in Extended => d \in CycleEnds)

ListRooms(w) ==
    LET due == {g \in Guests : Due(g, wk[w].date) /\ guest[g].folios > 0} IN
    /\ wk[w].pc = "noShows" /\ wk[w].todo = {}
    /\ wk' = [wk EXCEPT ![w].pc = "rooms", ![w].todo = due,
                        ![w].listed = [g \in due |-> guest[g].folios]]
    /\ UNCHANGED <<stays, books, job, openShift, call, mishaps>>

\* Mutant: the charge is not looked up.
ChargedUnknown(g, k, d) == FALSE

Charged(g, k, d) == room[g][k][d] > 0

RoomCheck(w, g, k) ==
    /\ wk[w].pc = "rooms" /\ g \in wk[w].todo
    /\ k \in 1..wk[w].listed[g]
    /\ IF Charged(g, k, wk[w].date) THEN NextGuest(w, "rooms", g)
       ELSE wk' = [wk EXCEPT ![w].pc = "postRoom", ![w].guest = g, ![w].folio = k]
    /\ UNCHANGED <<stays, books, job, openShift, call, mishaps>>

RoomPost(w) ==
    LET g == wk[w].guest
        k == wk[w].folio IN
    /\ wk[w].pc = "postRoom"
    /\ k \in guest[g].open
    /\ room' = [room EXCEPT ![g][k][wk[w].date] = @ + 1]
    /\ wk' = [wk EXCEPT ![w].pc = "rooms", ![w].todo = @ \ {g}, ![w].count = @ + 1]
    /\ UNCHANGED <<guest, noShow, books, job, openShift, call, mishaps>>

\* Mutant: the stay whose folio is closed is skipped and the audit goes on.
RoomConflictSkips(w) ==
    /\ wk[w].pc = "postRoom"
    /\ wk[w].folio \notin guest[wk[w].guest].open
    /\ NextGuest(w, "rooms", wk[w].guest)
    /\ UNCHANGED <<stays, books, job, openShift, call, mishaps>>

\* Mutant: a charge that is refused is tried again.
RoomConflictRetries(w) ==
    /\ wk[w].pc = "postRoom"
    /\ wk[w].folio \notin guest[wk[w].guest].open
    /\ Turn(w, "rooms")
    /\ UNCHANGED <<stays, books, job, openShift, call, mishaps>>

\* postTransaction refuses a settled or interim folio: the audit fails.
RoomConflict(w) ==
    /\ wk[w].pc = "postRoom"
    /\ wk[w].folio \notin guest[wk[w].guest].open
    /\ Turn(w, "record")
    /\ UNCHANGED <<stays, books, job, openShift, call, mishaps>>

RoomTally(w) ==
    /\ wk[w].pc = "rooms" /\ wk[w].todo = {}
    /\ posted' = [posted EXCEPT ![wk[w].date] = @ + wk[w].count]
    /\ Turn(w, "cycles")
    /\ UNCHANGED <<stays, today, audit, reports, journal, job, openShift, call, mishaps>>

-----------------------------------------------------------------------------
(* processInterimFolios: close the open folio, create its successor, note  *)
(* the date; three writes and nothing that undoes the first.               *)

ListInterim(w) ==
    /\ wk[w].pc = "cycles"
    /\ wk' = [wk EXCEPT ![w].pc = "interim",
                ![w].todo = {g \in Extended : /\ Due(g, wk[w].date)
                                              /\ guest[g].interim # wk[w].date
                                              /\ guest[g].open # {}}]
    /\ UNCHANGED <<stays, books, job, openShift, call, mishaps>>

InterimClose(w, g) ==
    /\ wk[w].pc = "interim" /\ g \in wk[w].todo
    /\ guest[g].open # {}
    /\ guest' = [guest EXCEPT ![g].open = @ \ {Min(@)}]
    /\ wk' = [wk EXCEPT ![w].pc = "successor", ![w].guest = g]
    /\ UNCHANGED <<room, noShow, books, job, openShift, call, mishaps>>

\* Settled by the front desk since the list was read.
InterimConflict(w, g) ==
    /\ wk[w].pc = "interim" /\ g \in wk[w].todo
    /\ guest[g].open = {}
    /\ Turn(w, "record")
    /\ UNCHANGED <<stays, books, job, openShift, call, mishaps>>

InterimOpen(w) ==
    LET g == wk[w].guest IN
    /\ wk[w].pc = "successor"
    /\ guest[g].folios < MaxFolios
    /\ guest' = [guest EXCEPT ![g].folios = @ + 1,
                              ![g].open = @ \cup {guest[g].folios + 1}]
    /\ Turn(w, "noteDate")
    /\ UNCHANGED <<room, noShow, books, job, openShift, call, mishaps>>

InterimNote(w) ==
    /\ wk[w].pc = "noteDate"
    /\ guest' = [guest EXCEPT ![wk[w].guest].interim = wk[w].date]
    /\ NextGuest(w, "interim", wk[w].guest)
    /\ UNCHANGED <<room, noShow, books, job, openShift, call, mishaps>>

-----------------------------------------------------------------------------
(* generateNightAuditReport, completeAudit, rollBusinessDate *)

\* Mutant: the audit is completed before the journal is booked.
ReportCompletes(w) ==
    /\ wk[w].pc = "interim" /\ wk[w].todo = {}
    /\ reports' = [reports EXCEPT ![wk[w].date] = @ + 1]
    /\ audit' = [audit EXCEPT ![wk[w].date] = "COMPLETED"]
    /\ Turn(w, "journal")
    /\ UNCHANGED <<stays, today, posted, journal, job, openShift, call, mishaps>>

Report(w) ==
    /\ wk[w].pc = "interim" /\ wk[w].todo = {}
    /\ reports' = [reports EXCEPT ![wk[w].date] = @ + 1]
    /\ Turn(w, "journal")
    /\ UNCHANGED <<stays, today, audit, posted, journal, job, openShift, call, mishaps>>

RoomRows(d) == SumFunction([i \in Guests \X Folios |-> room[i[1]][i[2]][d]])
NoShowRows(d) == SumFunction([g \in Guests |-> noShow[g][d]])

\* Mutant: only room charges are booked.
RowsOfTheNight(d) == RoomRows(d)

RowsOf(d) == RoomRows(d) + NoShowRows(d)

\* One entry per property, date and source; a second booking finds the first.
BookJournal(w) ==
    LET d == wk[w].date IN
    /\ wk[w].pc = "journal"
    /\ journal' = [journal EXCEPT ![d] = IF @ = NotBooked THEN RowsOf(d) ELSE @]
    /\ Turn(w, "complete")
    /\ UNCHANGED <<stays, today, audit, posted, reports, job, openShift, call, mishaps>>

Complete(w) ==
    /\ wk[w].pc = "complete"
    /\ audit' = [audit EXCEPT ![wk[w].date] = "COMPLETED"]
    /\ Turn(w, "roll")
    /\ UNCHANGED <<stays, today, posted, reports, journal, job, openShift, call, mishaps>>

\* Mutant: the date moves to the one after the audited date.
RollFromAudited(w) ==
    /\ wk[w].pc = "roll"
    /\ today' = wk[w].date + 1
    /\ Turn(w, "done")
    /\ UNCHANGED <<stays, audit, posted, reports, journal, job, openShift, call, mishaps>>

\* The property's date moves on from whatever it is, not from the audited date.
Roll(w) ==
    /\ wk[w].pc = "roll"
    /\ today' = today + 1
    /\ Turn(w, "done")
    /\ UNCHANGED <<stays, audit, posted, reports, journal, job, openShift, call, mishaps>>

-----------------------------------------------------------------------------
(* The front desk *)

Desk(g, from, to) == guest[g].desk = from /\ guest' = [guest EXCEPT ![g].desk = to]

\* checkIn: read, write the status, and only then look for a folio.
CheckInRead(g) ==
    /\ Desk(g, "none", "seen")
    /\ guest[g].status = "CONFIRMED"
    /\ UNCHANGED <<room, noShow, books, job, wk, openShift, call, mishaps>>

CheckInWrite(g) ==
    /\ guest[g].desk = "seen"
    /\ guest' = [guest EXCEPT ![g].desk = "folio", ![g].status = "CHECKED_IN"]
    /\ UNCHANGED <<room, noShow, books, job, wk, openShift, call, mishaps>>

CheckInFolio(g) ==
    /\ guest[g].desk = "folio"
    /\ guest' = [WithFolio(g) EXCEPT ![g].desk = "none"]
    /\ UNCHANGED <<room, noShow, books, job, wk, openShift, call, mishaps>>

\* checkOut looks at the status only: the folios stay as they are.
CheckOut(g) ==
    /\ guest[g].status = "CHECKED_IN" /\ guest[g].desk = "none"
    /\ guest' = [guest EXCEPT ![g].status = "CHECKED_OUT"]
    /\ UNCHANGED <<room, noShow, books, job, wk, openShift, call, mishaps>>

\* FoliosService.checkout of one folio, without the credit check.
Settle(g, k) ==
    /\ k \in guest[g].open /\ Happens("settled")
    /\ guest' = [guest EXCEPT ![g].open = @ \ {k}]
    /\ UNCHANGED <<room, noShow, books, job, wk, openShift, call>>

OpenShift ==
    /\ today \in Dates \ openShift /\ Happens("shifts")
    /\ openShift' = openShift \cup {today}
    /\ UNCHANGED <<stays, books, job, wk, call>>

CloseShift(d) ==
    /\ d \in openShift
    /\ openShift' = openShift \ {d}
    /\ UNCHANGED <<stays, books, job, wk, call, mishaps>>

-----------------------------------------------------------------------------
CallNext(c) ==
    StartCount(c) \/ StartRefused(c) \/ StartUpsert(c) \/ StartAdd(c)

WorkerNext(w) ==
    \/ FinishJob(w) \/ RecordError(w)
    \/ NoShowFolio(w) \/ NoShowLook(w) \/ NoShowCharge(w) \/ NoShowMark(w)
    \/ ListRooms(w) \/ RoomPost(w) \/ RoomConflict(w) \/ RoomTally(w)
    \/ ListInterim(w) \/ InterimOpen(w) \/ InterimNote(w)
    \/ Report(w) \/ BookJournal(w) \/ Complete(w) \/ Roll(w)
    \/ \E g \in Guests :
        \/ NoShowRead(w, g) \/ NoShowRefused(w, g)
        \/ \E k \in Folios : RoomCheck(w, g, k)
        \/ InterimClose(w, g) \/ InterimConflict(w, g)

QueueNext(d) == Stalled(d) \/ \E w \in Workers : TakeJob(w, d)

Mishap ==
    \/ \E c \in Calls : StartFails(c)
    \/ \E w \in Workers :
        \/ Crash(w) \/ LoseLock(w) \/ Fault(w) \/ RecordFails(w)
        \/ \E g \in Guests : NoShowFault(w, g)

FrontDesk ==
    \/ \E g \in Guests :
        \/ CheckInRead(g) \/ CheckInWrite(g) \/ CheckInFolio(g) \/ CheckOut(g)
        \/ \E k \in Folios : Settle(g, k)
    \/ OpenShift
    \/ \E d \in Dates : CloseShift(d)

Next ==
    \/ \E c \in Calls, d \in Dates : StartRead(c, d)
    \/ \E c \in Calls : CallNext(c)
    \/ \E w \in Workers : WorkerNext(w)
    \/ \E d \in Dates : QueueNext(d)
    \/ Mishap
    \/ FrontDesk

Spec == Init /\ [][Next /\ UNCHANGED scene]_<<vars, scene>>

\* A call in flight is carried on, a worker runs the job it took, and the
\* queue's polling hands out waiting and stalled jobs. Nobody has to call.
FairSpec ==
    /\ Spec
    /\ \A c \in Calls : WF_vars(CallNext(c))
    /\ \A w \in Workers : WF_vars(WorkerNext(w))
    /\ \A d \in Dates : WF_vars(QueueNext(d))

-----------------------------------------------------------------------------
\* A stay with some room charge for a date.
Billed(g, d) == \E k \in Folios : room[g][k][d] > 0

\* No worker has been taken for dead that was not.
LocksWereKept == mishaps["locks"] = scene.mishaps["locks"]

\* No folio carries two room charges for one date, whatever dies, throws or
\* is handed out again to another worker, as long as locks are renewed in time:
\* the check of processRoomPosting is per window and date.
FolioChargedOnce == LocksWereKept => \A g \in Guests, k \in Folios, d \in Dates : room[g][k][d] <= 1

\* Two audits of different dates never run side by side.
OneAuditAtATime ==
    (\A d, e \in scene.dates : d = e) \/ (\A v, w \in scene.workers : v = w)

\* A reservation pays for not turning up at most once, over all dates, if audits
\* besides run one at a time: markNoShow looks and posts in two round trips.
NoShowOnce == LocksWereKept /\ OneAuditAtATime =>
    \A g \in Guests, d, e \in Dates :
        noShow[g][d] <= 1 /\ (noShow[g][d] > 0 /\ noShow[g][e] > 0 => d = e)

\* An audit becomes COMPLETED only when every stay its worker listed has a
\* room charge for the date, from this attempt or an earlier one.
CompletedMeansCharged ==
    [][\A w \in Workers :
        (wk[w].pc = "complete" /\ wk'[w].pc = "roll")
            => \A g \in DOMAIN wk[w].listed : Billed(g, wk[w].date)]_vars

\* A COMPLETED date is in the general ledger and has its summary archived.
CompletedIsBooked ==
    \A d \in Dates : audit[d] = "COMPLETED" => journal[d] # NotBooked /\ reports[d] > 0

\* Nothing has died, thrown or been settled behind the audit's back.
Undisturbed == mishaps = scene.mishaps

\* As long as nothing went wrong: the journal entry of a COMPLETED date holds
\* every charge of that date.
LedgerIsComplete ==
    Undisturbed => \A d \in Dates : audit[d] = "COMPLETED" => journal[d] = RoomRows(d) + NoShowRows(d)

\* As long as no worker died and no lock was lost: the hotel's date has moved
\* once for each date that was audited, however often audits failed and were
\* asked for again.
RollsOncePerAudit ==
    (\A kind \in {"crashes", "locks"} : mishaps[kind] = scene.mishaps[kind]) =>
        today - 1 <= Cardinality({d \in Dates : journal[d] # NotBooked})

\* Neither a check-in nor a check-out is undone by the audit.
SeatedGuestStays ==
    [][\A g \in Guests : guest[g].status = "CHECKED_IN" => guest'[g].status # "NO_SHOW"]_vars

\* Every job the queue accepted ends, completed or failed.
JobConcludes ==
    \A d \in Dates : job[d].state = "waiting" ~> job[d].state \in {"completed", "failed"}

\* An audit that is in progress comes to an end.
AuditConcludes ==
    \A d \in Dates : audit[d] = "IN_PROGRESS" ~> audit[d] # "IN_PROGRESS"
=============================================================================
