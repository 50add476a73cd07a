-------------------------- MODULE NightAuditProofs --------------------------
(***************************************************************************)
(* What holds of the night audit for any number of dates, reservations,    *)
(* folios, API processes and racing calls of startAudit, wherever workers  *)
(* die, lose locks or throw.                                               *)
(***************************************************************************)
EXTENDS NightAudit, SumLaws, SequenceTheorems, TLAPS

-----------------------------------------------------------------------------
(* Types *)

\* The rows of the tables.
AuditStatus == {"NONE", "IN_PROGRESS", "FAILED", "COMPLETED"}
JobRow == [state : {"none", "waiting", "active", "completed", "failed"},
           lock : Workers \cup {Nobody}, stalls : {0, 1}]
GuestRow == [status : {"CANCELLED", "CONFIRMED", "CHECKED_IN", "CHECKED_OUT", "NO_SHOW"},
             folios : 0..MaxFolios, open : SUBSET Folios, interim : Nat,
             desk : {"none", "seen", "folio"}]
CallRow == [pc : {"count", "upsert", "add"}, date : Dates]

\* Where a worker may be: in markNoShow, with a reservation in hand, before and
\* after the rooms are posted.
Marking == {"nsFolio", "nsLook", "nsPost", "nsMark"}
InHand == Marking \cup {"postRoom", "successor", "noteDate"}
Posting == {"rooms", "postRoom"}
Cycles == {"cycles", "interim", "successor", "noteDate"}
Closing == {"journal", "complete", "roll", "done"}
Pcs == {"noShows", "record"} \cup Marking \cup Posting \cup Cycles \cup Closing

\* The folios counted when the rooms were listed.
Listing == UNION {[S -> Folios] : S \in SUBSET Guests}
WorkerRow == [pc : Pcs, date : Dates, guest : Guests \cup {Nobody}, folio : Nat,
              count : Nat, listed : Listing, todo : SUBSET Guests]

TypeOK ==
    /\ today \in Nat
    /\ audit \in [Dates -> AuditStatus]
    /\ posted \in [Dates -> Nat]
    /\ job \in [Dates -> JobRow]
    /\ wk \in [Workers -> {Resting} \cup WorkerRow]
    /\ guest \in [Guests -> GuestRow]
    /\ room \in [Guests -> [Folios -> [Dates -> Nat]]]
    /\ noShow \in [Guests -> [Dates -> Nat]]
    /\ reports \in [Dates -> Nat]
    /\ journal \in [Dates -> Int]
    /\ openShift \subseteq Dates
    /\ call \in [Calls -> {Resting} \cup CallRow]
    /\ mishaps \in [Kinds -> Nat]
    /\ scene \in Scenes
    /\ \A w \in Workers :
        /\ wk[w].pc \in InHand => wk[w].guest \in Guests
        /\ wk[w].pc = "postRoom" => wk[w].folio \in Folios

\* Nothing listed yet.
LEMMA EmptyListing == <<>> \in Listing
  <1>1. <<>> \in Seq(Folios) /\ Len(<<>>) = 0
    BY EmptySeq
  <1>2. <<>> \in [1..0 -> Folios]
    BY <1>1, LenProperties
  <1>3. 1..0 = {}
    OBVIOUS
  <1> QED
    BY <1>2, <1>3 DEF Listing

\* A worker rests, or it has a row and is somewhere.
LEMMA AtWork ==
    ASSUME TypeOK, NEW w \in Workers
    PROVE  /\ wk[w] = Resting <=> wk[w].pc = "idle"
           /\ wk[w] # Resting => wk[w] \in WorkerRow
  <1>1. Resting.pc = "idle" /\ "idle" \notin Pcs
    BY DEF Resting, Pcs, Marking, Posting, Cycles, Closing
  <1>2. wk[w] \in WorkerRow => wk[w].pc \in Pcs
    BY DEF WorkerRow
  <1> QED
    BY <1>1, <1>2 DEF TypeOK

\* The beginning is well typed.
LEMMA InitTyped == Init => TypeOK
  <1> SUFFICES ASSUME Init PROVE TypeOK
    OBVIOUS
  <1>1. scene \in [dates : SUBSET Dates, guests : SUBSET Guests,
                   workers : SUBSET Workers, mishaps : [Kinds -> Nat]]
    BY AuditAssumption DEF Init
  <1>2. guest \in [Guests -> GuestRow]
    BY AuditAssumption DEF Init, GuestRow, Folios
  <1>3. room \in [Guests -> [Folios -> [Dates -> Nat]]] /\ noShow \in [Guests -> [Dates -> Nat]]
    BY DEF Init
  <1>4. job \in [Dates -> JobRow]
    BY DEF Init, JobRow
  <1>5. wk \in [Workers -> {Resting} \cup WorkerRow] /\ call \in [Calls -> {Resting} \cup CallRow]
    BY DEF Init
  <1>6. \A w \in Workers : wk[w].pc \notin InHand
    BY DEF Init, Resting, InHand, Marking
  <1>7. /\ today \in Nat /\ audit \in [Dates -> AuditStatus] /\ posted \in [Dates -> Nat]
        /\ reports \in [Dates -> Nat] /\ journal \in [Dates -> Int]
        /\ openShift \subseteq Dates /\ mishaps \in [Kinds -> Nat] /\ scene \in Scenes
    BY <1>1 DEF Init, AuditStatus, NotBooked
  <1> QED
    BY <1>2, <1>3, <1>4, <1>5, <1>6, <1>7 DEF TypeOK, InHand

-----------------------------------------------------------------------------
(* The steps, by what they change *)

\* What the callers and the front desk leave alone.
Shown == <<wk, job, room, noShow, today, posted, reports, journal>>

\* The callers of startAudit and the front desk.
Outside ==
    \/ \E c \in Calls, d \in Dates : StartRead(c, d)
    \/ \E c \in Calls : StartCount(c) \/ StartRefused(c) \/ StartUpsert(c) \/ StartFails(c)
    \/ FrontDesk

\* The queue without its handing out of jobs.
Queue ==
    \/ \E c \in Calls : StartAdd(c)
    \/ \E w \in Workers : LoseLock(w)
    \/ \E d \in Dates : Stalled(d)

\* A worker comes to rest.
Ends(w) == FinishJob(w) \/ RecordError(w) \/ RecordFails(w) \/ Crash(w)

\* A worker goes on with its job.
GoesOn(w) ==
    \/ NoShowFolio(w) \/ NoShowLook(w) \/ NoShowCharge(w) \/ NoShowMark(w)
    \/ ListRooms(w) \/ RoomPost(w) \/ RoomConflict(w) \/ RoomTally(w)
    \/ ListInterim(w) \/ InterimOpen(w) \/ InterimNote(w)
    \/ Report(w) \/ BookJournal(w) \/ Complete(w) \/ Roll(w) \/ Fault(w)
    \/ \E g \in Guests :
        \/ NoShowRead(w, g) \/ NoShowRefused(w, g) \/ NoShowFault(w, g)
        \/ \E k \in Folios : RoomCheck(w, g, k)
        \/ InterimClose(w, g) \/ InterimConflict(w, g)

\* The steps of the program, by what they change.
Step ==
    \/ Outside \/ Queue
    \/ \E w \in Workers, d \in Dates : TakeJob(w, d)
    \/ \E w \in Workers : Ends(w) \/ GoesOn(w)

\* Every step is one of these.
LEMMA StepKinds == Next => Step
  BY Zenon DEF Next, CallNext, WorkerNext, QueueNext, Mishap, Step, Outside, Queue, Ends, GoesOn

\* Mishaps are used up.
UsesUp ==
    /\ mishaps' \in [Kinds -> Nat]
    /\ \A k \in Kinds : mishaps'[k] <= mishaps[k]

\* A mishap uses one of its kind up.
LEMMA HappensUsesUp ==
    ASSUME TypeOK, NEW k \in Kinds, Happens(k)
    PROVE  UsesUp /\ mishaps'[k] < mishaps[k]
  BY DEF TypeOK, Happens, UsesUp

\* Any other step uses up none.
LEMMA NothingHappens ==
    ASSUME TypeOK, UNCHANGED mishaps PROVE UsesUp
  BY DEF TypeOK, UsesUp

\* A caller moves on or comes to rest.
LEMMA CallTyped ==
    ASSUME TypeOK, NEW c \in Calls
    PROVE  /\ [call EXCEPT ![c] = Resting] \in [Calls -> {Resting} \cup CallRow]
           /\ call[c] # Resting =>
                /\ call[c] \in CallRow /\ call[c].date \in Dates
                /\ \A pc \in {"upsert", "add"} :
                    [call EXCEPT ![c].pc = pc] \in [Calls -> {Resting} \cup CallRow]
           /\ call[c].pc \in {"count", "upsert", "add"} => call[c] # Resting
  BY DEF TypeOK, CallRow, Resting

\* A step of the handler keeps the date that was asked for.
LEMMA CallMoves ==
    ASSUME TypeOK, NEW c \in Calls, NEW from \in {"count", "upsert"},
           NEW to \in {"upsert", "add"}, CallStep(c, from, to)
    PROVE  /\ call[c].date \in Dates
           /\ call' \in [Calls -> {Resting} \cup CallRow]
           /\ \A b \in Calls : call'[b] # Resting =>
                call[b] # Resting /\ call'[b].date = call[b].date
  <1>1. call[c] \in CallRow /\ call[c] # Resting /\ call' = [call EXCEPT ![c].pc = to]
    BY CallTyped DEF CallStep
  <1>2. call' \in [Calls -> {Resting} \cup CallRow] /\ call[c].date \in Dates
    BY <1>1, CallTyped
  <1>3. call'[c].date = call[c].date /\ \A b \in Calls \ {c} : call'[b] = call[b]
    BY <1>1 DEF TypeOK, CallRow
  <1> QED
    BY <1>1, <1>2, <1>3

\* A guest's row with other values of its columns.
LEMMA GuestTyped ==
    ASSUME NEW t \in [Guests -> GuestRow], NEW g \in Guests
    PROVE  /\ t[g] \in GuestRow /\ t[g].open \subseteq Folios /\ t[g].folios \in 0..MaxFolios
           /\ \A x \in GuestRow : [t EXCEPT ![g] = x] \in [Guests -> GuestRow]
           /\ \A s \in {"CHECKED_IN", "CHECKED_OUT", "NO_SHOW"} :
                [t EXCEPT ![g].status = s] \in [Guests -> GuestRow]
           /\ \A open \in SUBSET Folios : [t EXCEPT ![g].open = open] \in [Guests -> GuestRow]
           /\ \A desk \in {"none", "seen", "folio"} :
                [t EXCEPT ![g].desk = desk] \in [Guests -> GuestRow]
           /\ \A n \in Nat : [t EXCEPT ![g].interim = n] \in [Guests -> GuestRow]
  BY DEF GuestRow

\* Whoever has no folio is given one.
LEMMA WithFolioTyped ==
    ASSUME TypeOK, NEW g \in Guests
    PROVE  WithFolio(g) \in [Guests -> GuestRow]
  <1>1. 1 \in Folios /\ 1 \in 0..MaxFolios
    BY AuditAssumption DEF Folios
  <1> DEFINE x == [guest[g] EXCEPT !.folios = 1, !.open = {1}]
  <1>a. guest[g] \in GuestRow
    BY DEF TypeOK
  <1>2. x \in GuestRow
    BY <1>1, <1>a DEF GuestRow, Folios
  <1>3. [guest EXCEPT ![g] = x] \in [Guests -> GuestRow] /\ guest \in [Guests -> GuestRow]
    BY <1>2 DEF TypeOK
  <1>4. [guest EXCEPT ![g].folios = 1, ![g].open = {1}] = [guest EXCEPT ![g] = x]
    BY <1>3
  <1> QED
    BY <1>3, <1>4 DEF WithFolio

\* Callers and the front desk leave the shown tables alone, complete no audit,
\* and call for the scene's dates only.
OutsideEffect ==
    /\ UNCHANGED Shown /\ UsesUp
    /\ guest' \in [Guests -> GuestRow] /\ openShift' \subseteq Dates
    /\ audit' \in [Dates -> AuditStatus]
    /\ \A d \in Dates : audit'[d] # audit[d] => audit'[d] = "IN_PROGRESS"
    /\ call' \in [Calls -> {Resting} \cup CallRow]
    /\ \A c \in Calls : call'[c] # Resting =>
            \/ call[c] # Resting /\ call'[c].date = call[c].date
            \/ call'[c].date \in scene.dates

\* The handler of POST /night-audit/run, up to the queue.
LEMMA CallerSteps ==
    ASSUME TypeOK, NEW c \in Calls,
           \/ \E d \in Dates : StartRead(c, d)
           \/ StartCount(c) \/ StartRefused(c) \/ StartUpsert(c) \/ StartFails(c)
    PROVE  OutsideEffect
  <1>1. /\ guest \in [Guests -> GuestRow] /\ openShift \subseteq Dates
        /\ audit \in [Dates -> AuditStatus] /\ call \in [Calls -> {Resting} \cup CallRow]
    BY DEF TypeOK
  <1>2. CASE \E d \in Dates : StartRead(c, d)
    <2>1. PICK d \in Dates : StartRead(c, d)
      BY <1>2
    <2>2. [pc |-> "count", date |-> d] \in CallRow
      BY DEF CallRow
    <2>3. d \in scene.dates /\ call' = [call EXCEPT ![c] = [pc |-> "count", date |-> d]]
      BY <2>1 DEF StartRead
    <2>4. \A b \in Calls : call'[b] = IF b = c THEN [pc |-> "count", date |-> d] ELSE call[b]
      BY <1>1, <2>3
    <2>5. call' \in [Calls -> {Resting} \cup CallRow]
      BY <1>1, <2>2, <2>3
    <2>6. \A b \in Calls : call'[b] # Resting =>
            \/ call[b] # Resting /\ call'[b].date = call[b].date
            \/ call'[b].date \in scene.dates
      BY <2>3, <2>4
    <2>7. UNCHANGED <<stays, books, job, wk, openShift, mishaps>>
      BY <2>1 DEF StartRead
    <2> QED
      BY <1>1, <2>5, <2>6, <2>7, NothingHappens DEF OutsideEffect, Shown, stays, books
  <1>3. CASE StartCount(c)
    <2>1. CallStep(c, "count", "upsert") /\ UNCHANGED <<stays, books, job, wk, openShift, mishaps>>
      BY <1>3 DEF StartCount
    <2> QED
      BY <1>1, <2>1, CallMoves, NothingHappens DEF OutsideEffect, Shown, stays, books
  <1>4. CASE StartRefused(c)
    BY <1>1, <1>4, CallTyped, NothingHappens
    DEF StartRefused, OutsideEffect, Shown, stays, books
  <1>5. CASE StartUpsert(c)
    <2>1. /\ CallStep(c, "upsert", "add")
          /\ audit' = [audit EXCEPT ![call[c].date] = "IN_PROGRESS"]
          /\ UNCHANGED <<stays, today, posted, reports, journal, job, wk, openShift, mishaps>>
      BY <1>5 DEF StartUpsert
    <2>2. /\ audit' \in [Dates -> AuditStatus]
          /\ \A d \in Dates : audit'[d] # audit[d] => audit'[d] = "IN_PROGRESS"
      BY <1>1, <2>1 DEF AuditStatus
    <2> QED
      BY <1>1, <2>1, <2>2, CallMoves, NothingHappens DEF OutsideEffect, Shown, stays
  <1>6. CASE StartFails(c)
    BY <1>1, <1>6, CallTyped, HappensUsesUp
    DEF StartFails, OutsideEffect, Shown, stays, books, Kinds
  <1> QED
    BY <1>2, <1>3, <1>4, <1>5, <1>6

\* Check-in, check-out, settlement and shifts.
LEMMA FrontDeskSteps ==
    ASSUME TypeOK, FrontDesk PROVE OutsideEffect
  <1>1. /\ guest \in [Guests -> GuestRow] /\ openShift \subseteq Dates
        /\ audit \in [Dates -> AuditStatus] /\ call \in [Calls -> {Resting} \cup CallRow]
    BY DEF TypeOK
  <1>2. ASSUME UNCHANGED <<room, noShow, books, job, wk, call>>, UsesUp,
               guest' \in [Guests -> GuestRow], openShift' \subseteq Dates
        PROVE  OutsideEffect
    BY <1>1, <1>2 DEF OutsideEffect, Shown, books
  <1>3. ASSUME NEW g \in Guests, CheckInRead(g) PROVE OutsideEffect
    <2>1. guest' \in [Guests -> GuestRow]
      BY <1>1, <1>3, GuestTyped DEF CheckInRead, Desk
    <2> QED
      BY <1>1, <1>2, <1>3, <2>1, NothingHappens DEF CheckInRead, stays
  <1>4. ASSUME NEW g \in Guests, CheckInWrite(g) PROVE OutsideEffect
    <2>1. guest' \in [Guests -> GuestRow]
      <3> DEFINE x == [guest[g] EXCEPT !.desk = "folio", !.status = "CHECKED_IN"]
      <3>1. guest[g] \in GuestRow /\ x \in GuestRow
        BY <1>1 DEF GuestRow
      <3>2. guest' = [guest EXCEPT ![g] = x]
        BY <1>1, <1>4 DEF CheckInWrite
      <3> QED
        BY <1>1, <3>1, <3>2
    <2> QED
      BY <1>1, <1>2, <1>4, <2>1, NothingHappens DEF CheckInWrite
  <1>5. ASSUME NEW g \in Guests, CheckInFolio(g) PROVE OutsideEffect
    <2>1. guest' \in [Guests -> GuestRow]
      BY <1>5, WithFolioTyped, GuestTyped DEF CheckInFolio
    <2> QED
      BY <1>1, <1>2, <1>5, <2>1, NothingHappens DEF CheckInFolio
  <1>6. ASSUME NEW g \in Guests, CheckOut(g) PROVE OutsideEffect
    <2>1. guest' \in [Guests -> GuestRow]
      BY <1>1, <1>6, GuestTyped DEF CheckOut
    <2> QED
      BY <1>1, <1>2, <1>6, <2>1, NothingHappens DEF CheckOut
  <1>7. ASSUME NEW g \in Guests, NEW k \in Folios, Settle(g, k) PROVE OutsideEffect
    <2>1. guest' \in [Guests -> GuestRow]
      <3>1. guest[g].open \ {k} \in SUBSET Folios
        BY <1>1, GuestTyped
      <3> QED
        BY <1>1, <1>7, <3>1, GuestTyped DEF Settle
    <2> QED
      BY <1>1, <1>2, <1>7, <2>1, HappensUsesUp DEF Settle, Kinds
  <1>8. CASE OpenShift
    BY <1>1, <1>2, <1>8, HappensUsesUp DEF OpenShift, Kinds, stays
  <1>9. ASSUME NEW d \in Dates, CloseShift(d) PROVE OutsideEffect
    BY <1>1, <1>2, <1>9, NothingHappens DEF CloseShift, stays
  <1> QED
    BY <1>3, <1>4, <1>5, <1>6, <1>7, <1>8, <1>9 DEF FrontDesk

\* Nothing outside the queue and the workers does more.
LEMMA OutsideSteps == ASSUME TypeOK, Outside PROVE OutsideEffect
  BY CallerSteps, FrontDeskSteps, Zenon DEF Outside

-----------------------------------------------------------------------------
(* The queue's steps and the ends of jobs *)

\* The calls in flight keep their dates.
CallsKept ==
    /\ call' \in [Calls -> {Resting} \cup CallRow]
    /\ \A b \in Calls : call'[b] # Resting =>
            call[b] # Resting /\ call'[b].date = call[b].date

\* The queue accepts a job a caller asks for, loses a lock, or takes a job for
\* stalled; nothing else changes.
QueueEffect ==
    /\ UNCHANGED <<wk, stays, books, openShift>> /\ UsesUp /\ CallsKept
    /\ job' \in [Dates -> JobRow]
    /\ \A d \in Dates : job'[d].state = "completed" <=> job[d].state = "completed"
    /\ \A d \in Dates :
        \/ job'[d] = job[d]
        \/ /\ job[d].state = "none" /\ job'[d].state = "waiting"
           /\ \E c \in Calls : call[c] # Resting /\ call[c].date = d
        \/ job'[d].state = job[d].state /\ mishaps'["locks"] < mishaps["locks"]
        \/ job[d].state = "active" /\ job[d].lock = Nobody

\* The queue does no more than that.
LEMMA QueueSteps ==
    ASSUME TypeOK, Queue PROVE QueueEffect
  <1>1. /\ job \in [Dates -> JobRow] /\ call \in [Calls -> {Resting} \cup CallRow]
        /\ UNCHANGED call => CallsKept
    BY DEF TypeOK, CallsKept
  <1>2. ASSUME NEW c \in Calls, StartAdd(c) PROVE QueueEffect
    <2> DEFINE d == call[c].date
    <2>1. /\ call[c] # Resting /\ d \in Dates
          /\ job' = [job EXCEPT ![d].state = IF @ = "none" THEN "waiting" ELSE @]
          /\ call' = [call EXCEPT ![c] = Resting]
          /\ UNCHANGED <<stays, books, wk, openShift, mishaps>>
      BY <1>2, CallTyped DEF StartAdd
    <2>2. CallsKept
      BY <1>1, <2>1, CallTyped DEF CallsKept
    <2> HIDE DEF d
    <2>3. job' \in [Dates -> JobRow]
      BY <1>1, <2>1 DEF JobRow
    <2>4. \A e \in Dates : job'[e] = IF e = d /\ job[d].state = "none"
                                     THEN [job[e] EXCEPT !.state = "waiting"] ELSE job[e]
      BY <1>1, <2>1 DEF JobRow
    <2>5. \A e \in Dates :
            \/ job'[e] = job[e]
            \/ job[e].state = "none" /\ job'[e].state = "waiting" /\ e = d
      BY <1>1, <2>1, <2>4 DEF JobRow
    <2> QED
      BY <2>1, <2>2, <2>3, <2>5, NothingHappens DEF QueueEffect, d
  <1>3. ASSUME NEW w \in Workers, LoseLock(w) PROVE QueueEffect
    <2>1. /\ job' = Unlock(w) /\ UNCHANGED <<stays, books, wk, openShift, call>>
          /\ UsesUp /\ mishaps'["locks"] < mishaps["locks"]
      BY <1>3, HappensUsesUp DEF LoseLock, Kinds
    <2>2. job' \in [Dates -> JobRow] /\ \A d \in Dates : job'[d].state = job[d].state
      BY <1>1, <2>1 DEF Unlock, JobRow
    <2> QED
      BY <1>1, <2>1, <2>2 DEF QueueEffect
  <1>4. ASSUME NEW d \in Dates, Stalled(d) PROVE QueueEffect
    <2>1. /\ job[d].state = "active" /\ job[d].lock = Nobody
          /\ job' = [job EXCEPT ![d].state = IF job[d].stalls = 0 THEN "waiting" ELSE "failed",
                                ![d].stalls = 1]
          /\ UNCHANGED <<stays, books, wk, openShift, call, mishaps>>
      BY <1>4 DEF Stalled
    <2> DEFINE x == [job[d] EXCEPT !.state = IF job[d].stalls = 0 THEN "waiting" ELSE "failed",
                                   !.stalls = 1]
    <2>2. x \in JobRow /\ x.state # "completed" /\ job' = [job EXCEPT ![d] = x]
      BY <1>1, <2>1 DEF JobRow
    <2> HIDE DEF x
    <2>3. /\ job' \in [Dates -> JobRow]
          /\ \A e \in Dates : job'[e] = IF e = d THEN x ELSE job[e]
      BY <1>1, <2>2
    <2> QED
      BY <1>1, <2>1, <2>2, <2>3, NothingHappens DEF QueueEffect
  <1> QED
    BY <1>2, <1>3, <1>4 DEF Queue

\* A worker takes a waiting job and lists the arrivals.
TakesJob(w, d) ==
    /\ wk[w] = Resting /\ w \in scene.workers /\ job[d].state = "waiting"
    /\ job' \in [Dates -> JobRow]
    /\ job'[d].state = "active" /\ job'[d].lock = w
    /\ \A e \in Dates \ {d} : job'[e] = job[e]
    /\ wk' \in [Workers -> {Resting} \cup WorkerRow]
    /\ wk'[w] # Resting /\ wk'[w].pc = "noShows" /\ wk'[w].date = d
    /\ \A v \in Workers \ {w} : wk'[v] = wk[v]
    /\ UNCHANGED <<stays, books, openShift, call>> /\ UsesUp

\* Taking a job does that.
LEMMA TakeSteps ==
    ASSUME TypeOK, NEW w \in Workers, NEW d \in Dates, TakeJob(w, d)
    PROVE  TakesJob(w, d)
  <1> DEFINE x == [pc |-> "noShows", date |-> d, guest |-> Nobody, folio |-> 0, count |-> 0,
                   listed |-> <<>>, todo |-> {g \in Guests : guest[g].status = "CONFIRMED"}]
  <1>1. /\ wk[w] = Resting /\ w \in scene.workers /\ job[d].state = "waiting"
        /\ job' = [job EXCEPT ![d].state = "active", ![d].lock = w]
        /\ wk' = [wk EXCEPT ![w] = x]
        /\ UNCHANGED <<stays, books, openShift, call, mishaps>>
    BY DEF TakeJob
  <1>2. x \in WorkerRow /\ x # Resting
    <2>1. x \in WorkerRow
      BY EmptyListing DEF WorkerRow, Pcs
    <2>2. x.pc # Resting.pc
      BY DEF Resting
    <2> QED
      BY <2>1, <2>2
  <1>3. x.pc = "noShows" /\ x.date = d
    OBVIOUS
  <1> HIDE DEF x
  <1>4. /\ wk' \in [Workers -> {Resting} \cup WorkerRow] /\ wk'[w] = x
        /\ \A v \in Workers \ {w} : wk'[v] = wk[v]
    BY <1>1, <1>2 DEF TypeOK
  <1> DEFINE y == [job[d] EXCEPT !.state = "active", !.lock = w]
  <1>5. y \in JobRow /\ y.state = "active" /\ y.lock = w /\ job' = [job EXCEPT ![d] = y]
    BY <1>1 DEF TypeOK, JobRow
  <1> HIDE DEF y
  <1>6. job' \in [Dates -> JobRow] /\ job'[d] = y /\ \A e \in Dates \ {d} : job'[e] = job[e]
    BY <1>5 DEF TypeOK
  <1> QED
    BY <1>1, <1>2, <1>3, <1>4, <1>5, <1>6, NothingHappens DEF TakesJob

\* A worker comes to rest: it died, or its job ends if it still holds the lock,
\* as completed when its work is done.
ComesToRest(w) ==
    /\ wk[w] # Resting
    /\ wk' \in [Workers -> {Resting} \cup WorkerRow]
    /\ \A v \in Workers : wk'[v] = IF v = w THEN Resting ELSE wk[v]
    /\ UNCHANGED <<stays, today, posted, reports, journal, openShift, call>> /\ UsesUp
    /\ audit' \in [Dates -> AuditStatus]
    /\ \A d \in Dates : audit'[d] # audit[d] => audit'[d] = "FAILED"
    /\ job' \in [Dates -> JobRow]
    /\ \/ /\ mishaps'["crashes"] < mishaps["crashes"]
          /\ \A d \in Dates : /\ job'[d].state = job[d].state
                              /\ job[d].lock # w => job'[d] = job[d]
       \/ /\ \A d \in Dates \ {wk[w].date} : job'[d] = job[d]
          /\ IF job[wk[w].date].lock = w /\ job[wk[w].date].state = "active"
             THEN job'[wk[w].date].state = IF wk[w].pc = "done" THEN "completed" ELSE "failed"
             ELSE job'[wk[w].date] = job[wk[w].date]

\* A job ends as its worker says if the worker holds its lock, and no other does.
LEMMA JobEndsEffect ==
    ASSUME TypeOK, NEW w \in Workers, wk[w] \in WorkerRow,
           NEW how \in {"completed", "failed"}, JobEnds(w, how)
    PROVE  /\ job' \in [Dates -> JobRow]
           /\ \A d \in Dates \ {wk[w].date} : job'[d] = job[d]
           /\ IF job[wk[w].date].lock = w /\ job[wk[w].date].state = "active"
              THEN job'[wk[w].date].state = how
              ELSE job'[wk[w].date] = job[wk[w].date]
  <1> DEFINE d == wk[w].date
             x == IF job[d].lock = w /\ job[d].state = "active"
                  THEN [job[d] EXCEPT !.state = how, !.lock = Nobody] ELSE job[d]
  <1>1. d \in Dates /\ job \in [Dates -> JobRow]
    BY DEF WorkerRow, TypeOK
  <1>2. x \in JobRow /\ (job[d].lock = w /\ job[d].state = "active" => x.state = how)
    BY <1>1 DEF JobRow
  <1>3. job' = [job EXCEPT ![d] = x]
    BY DEF JobEnds
  <1>4. ~(job[d].lock = w /\ job[d].state = "active") => x = job[d]
    OBVIOUS
  <1> HIDE DEF x, d
  <1>5. job' \in [Dates -> JobRow] /\ job'[d] = x /\ \A e \in Dates \ {d} : job'[e] = job[e]
    BY <1>1, <1>2, <1>3
  <1> QED
    BY <1>2, <1>4, <1>5 DEF d

\* However a worker comes to rest, it is in one of those ways.
LEMMA EndSteps ==
    ASSUME TypeOK, NEW w \in Workers, Ends(w)
    PROVE  ComesToRest(w)
  <1>1. wk[w] # Resting /\ wk[w] \in WorkerRow
    <2>1. wk[w].pc \in {"done", "record"} \/ Crash(w)
      BY DEF Ends, FinishJob, RecordError, RecordFails
    <2> QED
      BY <2>1, AtWork DEF Crash
  <1>2. wk' = [wk EXCEPT ![w] = Resting]
    BY DEF Ends, FinishJob, RecordError, RecordFails, Crash
  <1>3. /\ wk' \in [Workers -> {Resting} \cup WorkerRow]
        /\ \A v \in Workers : wk'[v] = IF v = w THEN Resting ELSE wk[v]
    BY <1>2 DEF TypeOK
  <1>4. /\ UNCHANGED <<stays, today, posted, reports, journal, openShift, call>>
        /\ audit' \in [Dates -> AuditStatus]
        /\ \A d \in Dates : audit'[d] # audit[d] => audit'[d] = "FAILED"
    BY DEF Ends, FinishJob, RecordError, RecordFails, Crash, TypeOK, books, AuditStatus
  <1>5. UsesUp
    BY NothingHappens, HappensUsesUp
    DEF Ends, FinishJob, RecordError, RecordFails, Crash, Kinds
  <1>6. CASE FinishJob(w)
    <2>1. JobEnds(w, "completed") /\ wk[w].pc = "done"
      BY <1>6 DEF FinishJob
    <2> QED
      BY <1>1, <1>3, <1>4, <1>5, <2>1, JobEndsEffect DEF ComesToRest
  <1>7. CASE RecordError(w) \/ RecordFails(w)
    <2>1. JobEnds(w, "failed") /\ wk[w].pc = "record"
      BY <1>7 DEF RecordError, RecordFails
    <2> QED
      BY <1>1, <1>3, <1>4, <1>5, <2>1, JobEndsEffect DEF ComesToRest
  <1>8. CASE Crash(w)
    <2>1. job' = Unlock(w) /\ mishaps'["crashes"] < mishaps["crashes"]
      BY <1>8, HappensUsesUp DEF Crash, Kinds
    <2>2. /\ job' \in [Dates -> JobRow]
          /\ \A d \in Dates : /\ job'[d].state = job[d].state
                              /\ job[d].lock # w => job'[d] = job[d]
      BY <2>1 DEF Unlock, JobRow, TypeOK
    <2> QED
      BY <1>1, <1>3, <1>4, <1>5, <2>1, <2>2 DEF ComesToRest
  <1> QED
    BY <1>6, <1>7, <1>8 DEF Ends

-----------------------------------------------------------------------------
(* A worker goes on: its row moves, and one table with it. *)

\* The worker goes on with the date it is at.
RowMoves(w) ==
    /\ wk[w] # Resting /\ wk[w] \in WorkerRow
    /\ wk' \in [Workers -> {Resting} \cup WorkerRow]
    /\ wk'[w] # Resting /\ wk'[w] \in WorkerRow /\ wk'[w].date = wk[w].date
    /\ \A v \in Workers \ {w} : wk'[v] = wk[v]

\* A worker is given another row of the same date.
LEMMA RowSet ==
    ASSUME TypeOK, NEW w \in Workers, wk[w] \in WorkerRow, NEW y \in WorkerRow,
           y.date = wk[w].date, wk' = [wk EXCEPT ![w] = y]
    PROVE  RowMoves(w) /\ wk'[w] = y
  <1>1. wk[w] # Resting /\ y # Resting
    <2>1. \A x \in WorkerRow : x.pc \in Pcs
      BY DEF WorkerRow
    <2>2. Resting.pc \notin Pcs
      BY DEF Resting, Pcs, Marking, Posting, Cycles, Closing
    <2> QED
      BY <2>1, <2>2
  <1>2. wk' \in [Workers -> {Resting} \cup WorkerRow] /\ wk'[w] = y
        /\ \A v \in Workers \ {w} : wk'[v] = wk[v]
    BY DEF TypeOK
  <1> QED
    BY <1>1, <1>2 DEF RowMoves

\* Only the place of the worker changes.
LEMMA TurnMoves ==
    ASSUME TypeOK, NEW w \in Workers, wk[w] \in WorkerRow, NEW pc \in Pcs, Turn(w, pc)
    PROVE  /\ RowMoves(w) /\ wk'[w].pc = pc
           /\ wk'[w].guest = wk[w].guest /\ wk'[w].folio = wk[w].folio
           /\ wk'[w].listed = wk[w].listed /\ wk'[w].todo = wk[w].todo
  <1> DEFINE y == [wk[w] EXCEPT !.pc = pc]
  <1>1. /\ y \in WorkerRow /\ y.date = wk[w].date /\ y.pc = pc /\ y.guest = wk[w].guest
        /\ y.folio = wk[w].folio /\ y.listed = wk[w].listed /\ y.todo = wk[w].todo
    BY DEF WorkerRow
  <1>2. wk' = [wk EXCEPT ![w] = y]
    BY DEF Turn, TypeOK
  <1> HIDE DEF y
  <1> QED
    BY <1>1, <1>2, RowSet

\* The worker is done with a guest.
LEMMA NextGuestMoves ==
    ASSUME TypeOK, NEW w \in Workers, wk[w] \in WorkerRow, NEW pc \in Pcs, NEW g,
           NextGuest(w, pc, g)
    PROVE  /\ RowMoves(w) /\ wk'[w].pc = pc
           /\ wk'[w].listed = wk[w].listed /\ wk'[w].todo = wk[w].todo \ {g}
  <1> DEFINE y == [wk[w] EXCEPT !.pc = pc, !.todo = wk[w].todo \ {g}]
  <1>1. /\ y \in WorkerRow /\ y.date = wk[w].date /\ y.pc = pc
        /\ y.listed = wk[w].listed /\ y.todo = wk[w].todo \ {g}
    BY DEF WorkerRow
  <1>2. wk' = [wk EXCEPT ![w] = y]
    BY DEF NextGuest, TypeOK
  <1> HIDE DEF y
  <1> QED
    BY <1>1, <1>2, RowSet

\* The worker takes a guest in hand.
LEMMA TakesGuest ==
    ASSUME TypeOK, NEW w \in Workers, wk[w] \in WorkerRow, NEW pc \in Pcs, NEW g \in Guests,
           wk' = [wk EXCEPT ![w].pc = pc, ![w].guest = g]
    PROVE  /\ RowMoves(w) /\ wk'[w].pc = pc /\ wk'[w].guest = g
           /\ wk'[w].listed = wk[w].listed /\ wk'[w].todo = wk[w].todo
  <1> DEFINE y == [wk[w] EXCEPT !.pc = pc, !.guest = g]
  <1>1. /\ y \in WorkerRow /\ y.date = wk[w].date /\ y.pc = pc /\ y.guest = g
        /\ y.listed = wk[w].listed /\ y.todo = wk[w].todo
    BY DEF WorkerRow
  <1>2. wk' = [wk EXCEPT ![w] = y]
    BY DEF TypeOK
  <1> HIDE DEF y
  <1> QED
    BY <1>1, <1>2, RowSet

\* The worker takes a guest and a folio in hand.
LEMMA TakesFolio ==
    ASSUME TypeOK, NEW w \in Workers, wk[w] \in WorkerRow, NEW pc \in Pcs, NEW g \in Guests,
           NEW k \in Nat, wk' = [wk EXCEPT ![w].pc = pc, ![w].guest = g, ![w].folio = k]
    PROVE  /\ RowMoves(w) /\ wk'[w].pc = pc /\ wk'[w].guest = g /\ wk'[w].folio = k
           /\ wk'[w].listed = wk[w].listed /\ wk'[w].todo = wk[w].todo
  <1> DEFINE y == [wk[w] EXCEPT !.pc = pc, !.guest = g, !.folio = k]
  <1>1. /\ y \in WorkerRow /\ y.date = wk[w].date /\ y.pc = pc /\ y.guest = g /\ y.folio = k
        /\ y.listed = wk[w].listed /\ y.todo = wk[w].todo
    BY DEF WorkerRow
  <1>2. wk' = [wk EXCEPT ![w] = y]
    BY DEF TypeOK
  <1> HIDE DEF y
  <1> QED
    BY <1>1, <1>2, RowSet

\* What most of a worker's steps leave alone.
SameCharges == UNCHANGED <<room, noShow>>
SameBooks == UNCHANGED <<today, reports, journal>>
CompletesNone == \A d \in Dates : audit'[d] # audit[d] => audit'[d] = "FAILED"

\* In markNoShow a charge is posted only after none was found.
Marks(x, y) ==
    /\ x.pc \in {"noShows"} \cup Marking /\ y.pc \in {"noShows"} \cup Marking
    /\ y.pc = "nsPost" => ~AlreadyPosted(y.guest)
    /\ SameCharges /\ SameBooks /\ CompletesNone

\* The charge for not turning up.
ChargesNoShow(x, y) ==
    /\ x.pc = "nsPost" /\ y.pc = "nsMark" /\ x.guest \in Guests
    /\ noShow' = [noShow EXCEPT ![x.guest][x.date] = @ + 1]
    /\ UNCHANGED room /\ SameBooks /\ CompletesNone

\* Posting rooms, a listed stay is left once it is billed.
PostsRooms(x, y) ==
    /\ \/ /\ x.pc = "noShows" /\ y.pc = "rooms" /\ DOMAIN y.listed = y.todo
       \/ /\ x.pc = "rooms" /\ y.pc = "rooms" /\ y.listed = x.listed
          /\ \E g \in Guests : y.todo = x.todo \ {g} /\ Billed(g, x.date)
       \/ /\ x.pc = "rooms" /\ y.pc = "postRoom" /\ y.listed = x.listed /\ y.todo = x.todo
          /\ y.guest \in Guests /\ y.folio \in Folios /\ ~Charged(y.guest, y.folio, x.date)
       \/ /\ x.pc = "rooms" /\ x.todo = {} /\ y.pc = "cycles" /\ y.listed = x.listed
    /\ SameCharges /\ SameBooks /\ CompletesNone

\* The charge for the night; the stay has been looked at.
ChargesRoom(x, y) ==
    /\ x.pc = "postRoom" /\ y.pc = "rooms" /\ x.guest \in Guests /\ x.folio \in Folios
    /\ y.listed = x.listed /\ y.todo = x.todo \ {x.guest}
    /\ room' = [room EXCEPT ![x.guest][x.folio][x.date] = @ + 1]
    /\ UNCHANGED noShow /\ SameBooks /\ CompletesNone

\* Interim folios are closed and followed by new ones.
ClosesFolios(x, y) ==
    /\ x.pc \in Cycles /\ y.pc \in Cycles /\ y.listed = x.listed
    /\ SameCharges /\ SameBooks /\ CompletesNone

\* The summary is archived.
Archives(x, y) ==
    /\ x.pc = "interim" /\ y.pc = "journal" /\ y.listed = x.listed
    /\ reports' = [reports EXCEPT ![x.date] = @ + 1]
    /\ UNCHANGED <<today, journal>> /\ SameCharges /\ CompletesNone

\* The journal entry is booked, unless the date has one.
BooksNight(x, y) ==
    /\ x.pc = "journal" /\ y.pc = "complete" /\ y.listed = x.listed
    /\ journal' = [journal EXCEPT ![x.date] = IF @ = NotBooked THEN RowsOf(x.date) ELSE @]
    /\ UNCHANGED <<today, reports>> /\ SameCharges /\ CompletesNone

\* completeAudit.
Completes(x, y) ==
    /\ x.pc = "complete" /\ y.pc = "roll"
    /\ audit' = [audit EXCEPT ![x.date] = "COMPLETED"]
    /\ SameCharges /\ SameBooks

\* rollBusinessDate.
RollsDate(x, y) ==
    /\ x.pc = "roll" /\ y.pc = "done" /\ today' = today + 1
    /\ UNCHANGED <<reports, journal>> /\ SameCharges /\ CompletesNone

\* An audit breaks off at a folio that was settled, or where an await fails.
Breaks(x, y) ==
    /\ x.pc \notin {"done", "record"} /\ y.pc = "record"
    /\ x.pc \in {"postRoom", "interim"} \/ mishaps'["faults"] < mishaps["faults"]
    /\ SameCharges /\ SameBooks /\ CompletesNone

\* What a worker does from one row to the next.
Works(x, y) ==
    \/ Marks(x, y) \/ ChargesNoShow(x, y)
    \/ PostsRooms(x, y) \/ ChargesRoom(x, y) \/ ClosesFolios(x, y)
    \/ Archives(x, y) \/ BooksNight(x, y) \/ Completes(x, y) \/ RollsDate(x, y)
    \/ Breaks(x, y)

\* A worker goes on, and the rest stays typed.
WorksOn(w) ==
    /\ RowMoves(w) /\ Works(wk[w], wk'[w])
    /\ wk'[w].pc \in InHand => wk'[w].guest \in Guests
    /\ UNCHANGED <<job, openShift, call>> /\ UsesUp
    /\ guest' \in [Guests -> GuestRow]
    /\ audit' \in [Dates -> AuditStatus] /\ posted' \in [Dates -> Nat]

\* A worker that is somewhere has a row.
LEMMA Working ==
    ASSUME TypeOK, NEW w \in Workers, wk[w].pc \in Pcs
    PROVE  /\ wk[w] \in WorkerRow /\ wk[w] # Resting /\ wk[w].date \in Dates
           /\ wk[w].todo \subseteq Guests
           /\ wk[w].pc \in InHand => wk[w].guest \in Guests
           /\ wk[w].pc = "postRoom" => wk[w].folio \in Folios
  <1>1. Resting.pc \notin Pcs
    BY DEF Resting, Pcs, Marking, Posting, Cycles, Closing
  <1> QED
    BY <1>1 DEF TypeOK, WorkerRow

\* markNoShow for one arrival after the other.
LEMMA MarkingSteps ==
    ASSUME TypeOK, NEW w \in Workers,
           \/ NoShowFolio(w) \/ NoShowLook(w) \/ NoShowCharge(w) \/ NoShowMark(w)
           \/ \E g \in Guests : NoShowRead(w, g) \/ NoShowRefused(w, g) \/ NoShowFault(w, g)
    PROVE  WorksOn(w)
  <1> USE DEF Pcs, Marking, InHand
  <1>1. wk[w] \in WorkerRow /\ wk[w] # Resting /\ wk[w].pc \in {"noShows"} \cup Marking
    <2>1. wk[w].pc \in {"noShows"} \cup Marking
      BY DEF NoShowFolio, NoShowLook, NoShowCharge, NoShowMark, NoShowRead, NoShowRefused,
             NoShowFault
    <2> QED
      BY <2>1, Working
  <1>2. /\ guest \in [Guests -> GuestRow] /\ audit \in [Dates -> AuditStatus]
        /\ posted \in [Dates -> Nat] /\ wk[w].date \in Dates
        /\ wk[w].pc \in Marking => wk[w].guest \in Guests
    BY <1>1 DEF TypeOK, WorkerRow
  <1>3. CASE NoShowFolio(w)
    <2>1. /\ wk[w].pc = "nsFolio" /\ guest' = WithFolio(wk[w].guest) /\ Turn(w, "nsLook")
          /\ UNCHANGED <<room, noShow, books, job, openShift, call, mishaps>>
      BY <1>3 DEF NoShowFolio
    <2>2. guest' \in [Guests -> GuestRow]
      BY <1>2, <2>1, WithFolioTyped
    <2>3. Marks(wk[w], wk'[w])
      BY <1>1, <2>1, TurnMoves DEF Marks, SameCharges, SameBooks, CompletesNone, books
    <2> QED
      BY <1>1, <1>2, <2>1, <2>2, <2>3, TurnMoves, NothingHappens DEF WorksOn, Works, books
  <1>4. CASE NoShowLook(w)
    <2> DEFINE pc == IF AlreadyPosted(wk[w].guest) THEN "nsMark" ELSE "nsPost"
    <2>1. /\ wk[w].pc = "nsLook" /\ Turn(w, pc) /\ pc \in {"nsMark", "nsPost"}
          /\ UNCHANGED <<stays, books, job, openShift, call, mishaps>>
      BY <1>4 DEF NoShowLook
    <2>2. pc = "nsPost" => ~AlreadyPosted(wk[w].guest)
      OBVIOUS
    <2> HIDE DEF pc
    <2>3. RowMoves(w) /\ wk'[w].pc = pc /\ wk'[w].guest = wk[w].guest
      BY <1>1, <2>1, TurnMoves
    <2>4. Marks(wk[w], wk'[w])
      BY <1>1, <2>1, <2>2, <2>3 DEF Marks, SameCharges, SameBooks, CompletesNone, books, stays
    <2> QED
      BY <1>1, <1>2, <2>1, <2>3, <2>4, NothingHappens DEF WorksOn, Works, books, stays
  <1>5. CASE NoShowCharge(w)
    <2>1. /\ wk[w].pc = "nsPost" /\ Turn(w, "nsMark")
          /\ noShow' = [noShow EXCEPT ![wk[w].guest][wk[w].date] = @ + 1]
          /\ UNCHANGED <<guest, room, books, job, openShift, call, mishaps>>
      BY <1>5 DEF NoShowCharge
    <2>2. RowMoves(w) /\ wk'[w].pc = "nsMark" /\ wk'[w].guest = wk[w].guest
      BY <1>1, <2>1, TurnMoves
    <2>3. ChargesNoShow(wk[w], wk'[w])
      BY <1>1, <1>2, <2>1, <2>2 DEF ChargesNoShow, SameBooks, CompletesNone, books
    <2> QED
      BY <1>1, <1>2, <2>1, <2>2, <2>3, NothingHappens DEF WorksOn, Works, books
  <1>6. CASE NoShowMark(w)
    <2>1. /\ wk[w].pc = "nsMark" /\ NextGuest(w, "noShows", wk[w].guest)
          /\ guest' = [guest EXCEPT ![wk[w].guest].status = "NO_SHOW"]
          /\ UNCHANGED <<room, noShow, books, job, openShift, call, mishaps>>
      BY <1>6 DEF NoShowMark
    <2>2. RowMoves(w) /\ wk'[w].pc = "noShows"
      BY <1>1, <2>1, NextGuestMoves
    <2>3. Marks(wk[w], wk'[w])
      BY <1>1, <2>1, <2>2 DEF Marks, SameCharges, SameBooks, CompletesNone, books
    <2>4. guest' \in [Guests -> GuestRow]
      BY <1>2, <2>1, GuestTyped
    <2> QED
      BY <1>1, <1>2, <2>1, <2>2, <2>3, <2>4, NothingHappens DEF WorksOn, Works, books
  <1>7. ASSUME NEW g \in Guests, NoShowRead(w, g) PROVE WorksOn(w)
    <2>1. /\ wk[w].pc = "noShows" /\ wk' = [wk EXCEPT ![w].pc = "nsFolio", ![w].guest = g]
          /\ UNCHANGED <<stays, books, job, openShift, call, mishaps>>
      BY <1>7 DEF NoShowRead
    <2>2. RowMoves(w) /\ wk'[w].pc = "nsFolio" /\ wk'[w].guest = g
      BY <1>1, <2>1, TakesGuest
    <2>3. Marks(wk[w], wk'[w])
      BY <1>1, <2>1, <2>2 DEF Marks, SameCharges, SameBooks, CompletesNone, books, stays
    <2> QED
      BY <1>1, <1>2, <2>1, <2>2, <2>3, NothingHappens DEF WorksOn, Works, books, stays
  <1>8. ASSUME NEW g \in Guests, NoShowRefused(w, g) \/ NoShowFault(w, g) PROVE WorksOn(w)
    <2>1. /\ NoShowError(w, g) /\ UsesUp
      BY <1>8, NothingHappens, HappensUsesUp DEF NoShowRefused, NoShowFault, Kinds
    <2>2. /\ audit' = [audit EXCEPT ![wk[w].date] = "FAILED"] /\ NextGuest(w, "noShows", g)
          /\ UNCHANGED <<stays, today, posted, reports, journal, job, openShift, call>>
      BY <2>1 DEF NoShowError
    <2>3. RowMoves(w) /\ wk'[w].pc = "noShows"
      BY <1>1, <2>2, NextGuestMoves
    <2>4. audit' \in [Dates -> AuditStatus] /\ CompletesNone
      BY <1>2, <2>2 DEF CompletesNone, AuditStatus
    <2>5. Marks(wk[w], wk'[w])
      BY <1>1, <2>2, <2>3, <2>4 DEF Marks, SameCharges, SameBooks, stays
    <2> QED
      BY <1>1, <1>2, <2>1, <2>2, <2>3, <2>4, <2>5 DEF WorksOn, Works, stays
  <1> QED
    BY <1>3, <1>4, <1>5, <1>6, <1>7, <1>8

\* The rooms are listed, and each stay is found billed or charged.
LEMMA PostingSteps ==
    ASSUME TypeOK, NEW w \in Workers,
           \/ ListRooms(w) \/ RoomPost(w) \/ RoomConflict(w) \/ RoomTally(w)
           \/ \E g \in Guests, k \in Folios : RoomCheck(w, g, k)
    PROVE  WorksOn(w)
  <1> USE DEF Pcs, Posting, Marking, Cycles, InHand
  <1>1. wk[w] \in WorkerRow /\ wk[w] # Resting /\ wk[w].pc \in {"noShows"} \cup Posting
    <2>1. wk[w].pc \in {"noShows"} \cup Posting
      BY DEF ListRooms, RoomPost, RoomConflict, RoomTally, RoomCheck
    <2> QED
      BY <2>1, Working
  <1>2. /\ guest \in [Guests -> GuestRow] /\ audit \in [Dates -> AuditStatus]
        /\ posted \in [Dates -> Nat] /\ wk[w].date \in Dates
        /\ wk[w].pc = "postRoom" => wk[w].guest \in Guests /\ wk[w].folio \in Folios
        /\ wk[w].count \in Nat
    BY <1>1 DEF TypeOK, WorkerRow
  <1>3. CASE ListRooms(w)
    <2> DEFINE due == {g \in Guests : Due(g, wk[w].date) /\ guest[g].folios > 0}
               listed == [g \in due |-> guest[g].folios]
    <2>1. /\ wk[w].pc = "noShows"
          /\ wk' = [wk EXCEPT ![w].pc = "rooms", ![w].todo = due, ![w].listed = listed]
          /\ UNCHANGED <<stays, books, job, openShift, call, mishaps>>
      BY <1>3 DEF ListRooms
    <2>2. due \in SUBSET Guests /\ listed \in Listing /\ DOMAIN listed = due
      <3>1. \A g \in due : guest[g].folios \in Folios
        BY <1>2, AuditAssumption DEF GuestRow, Folios
      <3>2. due \in SUBSET Guests /\ DOMAIN listed = due
        OBVIOUS
      <3>3. listed \in [due -> Folios]
        BY <3>1
      <3> HIDE DEF due, listed
      <3> QED
        BY <3>2, <3>3 DEF Listing
    <2> HIDE DEF due, listed
    <2> DEFINE y == [wk[w] EXCEPT !.pc = "rooms", !.todo = due, !.listed = listed]
    <2>3. /\ y \in WorkerRow /\ y.date = wk[w].date /\ y.pc = "rooms"
          /\ y.listed = listed /\ y.todo = due
      BY <1>1, <2>2 DEF WorkerRow
    <2>4. wk' = [wk EXCEPT ![w] = y]
      BY <2>1 DEF TypeOK
    <2> HIDE DEF y
    <2>5. RowMoves(w) /\ wk'[w] = y
      BY <1>1, <2>3, <2>4, RowSet
    <2>6. PostsRooms(wk[w], wk'[w])
      BY <2>1, <2>2, <2>3, <2>5 DEF PostsRooms, SameCharges, SameBooks, CompletesNone, books, stays
    <2> QED
      BY <1>2, <2>1, <2>3, <2>5, <2>6, NothingHappens DEF WorksOn, Works, books, stays
  <1>4. ASSUME NEW g \in Guests, NEW k \in Folios, RoomCheck(w, g, k) PROVE WorksOn(w)
    <2>a. k \in Nat
      BY AuditAssumption DEF Folios
    <2>1. /\ wk[w].pc = "rooms"
          /\ UNCHANGED <<stays, books, job, openShift, call, mishaps>>
      BY <1>4 DEF RoomCheck
    <2>2. CASE Charged(g, k, wk[w].date)
      <3>1. NextGuest(w, "rooms", g)
        BY <1>4, <2>2 DEF RoomCheck
      <3>2. RowMoves(w) /\ wk'[w].pc = "rooms" /\ wk'[w].listed = wk[w].listed
            /\ wk'[w].todo = wk[w].todo \ {g}
        BY <1>1, <3>1, NextGuestMoves
      <3>3. Billed(g, wk[w].date)
        BY <2>2 DEF Charged, Billed
      <3>4. PostsRooms(wk[w], wk'[w])
        BY <2>1, <3>2, <3>3 DEF PostsRooms, SameCharges, SameBooks, CompletesNone, books, stays
      <3> QED
        BY <1>2, <2>1, <3>2, <3>4, NothingHappens DEF WorksOn, Works, books, stays
    <2>3. CASE ~Charged(g, k, wk[w].date)
      <3>1. wk' = [wk EXCEPT ![w].pc = "postRoom", ![w].guest = g, ![w].folio = k]
        BY <1>4, <2>3 DEF RoomCheck
      <3>2. /\ RowMoves(w) /\ wk'[w].pc = "postRoom" /\ wk'[w].guest = g /\ wk'[w].folio = k
            /\ wk'[w].listed = wk[w].listed /\ wk'[w].todo = wk[w].todo
        BY <1>1, <2>a, <3>1, TakesFolio
      <3>3. PostsRooms(wk[w], wk'[w])
        BY <2>1, <2>3, <3>2 DEF PostsRooms, SameCharges, SameBooks, CompletesNone, books, stays
      <3> QED
        BY <1>2, <2>1, <3>2, <3>3, NothingHappens DEF WorksOn, Works, books, stays
    <2> QED
      BY <2>2, <2>3
  <1>5. CASE RoomPost(w)
    <2> DEFINE todo == wk[w].todo \ {wk[w].guest}
    <2>1. /\ wk[w].pc = "postRoom"
          /\ room' = [room EXCEPT ![wk[w].guest][wk[w].folio][wk[w].date] = @ + 1]
          /\ wk' = [wk EXCEPT ![w].pc = "rooms", ![w].todo = todo,
                              ![w].count = wk[w].count + 1]
          /\ UNCHANGED <<guest, noShow, books, job, openShift, call, mishaps>>
      BY <1>5 DEF RoomPost, TypeOK
    <2> DEFINE count == wk[w].count + 1
               y == [wk[w] EXCEPT !.pc = "rooms", !.todo = todo, !.count = count]
    <2>2. todo \in SUBSET Guests /\ count \in Nat
      BY <1>1, <1>2 DEF WorkerRow
    <2> HIDE DEF todo
    <2>3. /\ y \in WorkerRow /\ y.date = wk[w].date /\ y.pc = "rooms"
          /\ y.listed = wk[w].listed /\ y.todo = todo
      BY <1>1, <1>2, <2>2 DEF WorkerRow
    <2>4. wk' = [wk EXCEPT ![w] = y]
      BY <2>1 DEF TypeOK
    <2> HIDE DEF y
    <2>5. RowMoves(w) /\ wk'[w] = y
      BY <1>1, <2>3, <2>4, RowSet
    <2>6. ChargesRoom(wk[w], wk'[w])
      BY <1>2, <2>1, <2>3, <2>5 DEF todo, ChargesRoom, SameBooks, CompletesNone, books
    <2> QED
      BY <1>2, <2>1, <2>3, <2>5, <2>6, NothingHappens DEF WorksOn, Works, books
  <1>6. CASE RoomConflict(w)
    <2>1. /\ wk[w].pc = "postRoom" /\ Turn(w, "record")
          /\ UNCHANGED <<stays, books, job, openShift, call, mishaps>>
      BY <1>6 DEF RoomConflict
    <2>2. RowMoves(w) /\ wk'[w].pc = "record"
      BY <1>1, <2>1, TurnMoves
    <2>3. Breaks(wk[w], wk'[w])
      BY <2>1, <2>2 DEF Breaks, SameCharges, SameBooks, CompletesNone, books, stays
    <2> QED
      BY <1>2, <2>1, <2>2, <2>3, NothingHappens DEF WorksOn, Works, books, stays
  <1>7. CASE RoomTally(w)
    <2>1. /\ wk[w].pc = "rooms" /\ wk[w].todo = {} /\ Turn(w, "cycles")
          /\ posted' = [posted EXCEPT ![wk[w].date] = @ + wk[w].count]
          /\ UNCHANGED <<stays, today, audit, reports, journal, job, openShift, call, mishaps>>
      BY <1>7 DEF RoomTally
    <2>2. RowMoves(w) /\ wk'[w].pc = "cycles" /\ wk'[w].listed = wk[w].listed
      BY <1>1, <2>1, TurnMoves
    <2>3. PostsRooms(wk[w], wk'[w])
      BY <2>1, <2>2 DEF PostsRooms, SameCharges, SameBooks, CompletesNone, stays
    <2>4. posted' \in [Dates -> Nat]
      BY <1>2, <2>1
    <2> QED
      BY <1>2, <2>1, <2>2, <2>3, <2>4, NothingHappens DEF WorksOn, Works, stays
  <1> QED
    BY <1>3, <1>4, <1>5, <1>6, <1>7

\* Interim folios are closed and reopened; one that is settled meanwhile breaks
\* the audit off.
LEMMA CycleSteps ==
    ASSUME TypeOK, NEW w \in Workers,
           \/ ListInterim(w) \/ InterimOpen(w) \/ InterimNote(w)
           \/ \E g \in Guests : InterimClose(w, g) \/ InterimConflict(w, g)
    PROVE  WorksOn(w)
  <1> USE DEF Pcs, Posting, Marking, Cycles, InHand
  <1>1. wk[w] \in WorkerRow /\ wk[w] # Resting /\ wk[w].pc \in Cycles
    <2>1. wk[w].pc \in Cycles
      BY DEF ListInterim, InterimOpen, InterimNote, InterimClose, InterimConflict
    <2> QED
      BY <2>1, Working
  <1>2. /\ guest \in [Guests -> GuestRow] /\ audit \in [Dates -> AuditStatus]
        /\ posted \in [Dates -> Nat] /\ wk[w].date \in Dates /\ wk[w].date \in Nat
        /\ wk[w].pc \in {"successor", "noteDate"} => wk[w].guest \in Guests
    BY <1>1, AuditAssumption DEF TypeOK, WorkerRow
  <1>3. CASE ListInterim(w)
    <2> DEFINE todo == {g \in Extended : /\ Due(g, wk[w].date)
                                         /\ guest[g].interim # wk[w].date
                                         /\ guest[g].open # {}}
               y == [wk[w] EXCEPT !.pc = "interim", !.todo = todo]
    <2>1. /\ wk[w].pc = "cycles" /\ wk' = [wk EXCEPT ![w].pc = "interim", ![w].todo = todo]
          /\ UNCHANGED <<stays, books, job, openShift, call, mishaps>>
      BY <1>3 DEF ListInterim
    <2>2. todo \in SUBSET Guests
      BY AuditAssumption
    <2> HIDE DEF todo
    <2>3. /\ y \in WorkerRow /\ y.date = wk[w].date /\ y.pc = "interim" /\ y.listed = wk[w].listed
      BY <1>1, <2>2 DEF WorkerRow
    <2>4. wk' = [wk EXCEPT ![w] = y]
      BY <2>1 DEF TypeOK
    <2> HIDE DEF y
    <2>5. RowMoves(w) /\ wk'[w] = y
      BY <1>1, <2>3, <2>4, RowSet
    <2>6. ClosesFolios(wk[w], wk'[w])
      BY <2>1, <2>3, <2>5 DEF ClosesFolios, SameCharges, SameBooks, CompletesNone, books, stays
    <2> QED
      BY <1>2, <2>1, <2>3, <2>5, <2>6, NothingHappens DEF WorksOn, Works, books, stays
  <1>4. ASSUME NEW g \in Guests, InterimClose(w, g) PROVE WorksOn(w)
    <2> DEFINE open == guest[g].open \ {Min(guest[g].open)}
    <2>1. /\ wk[w].pc = "interim" /\ guest' = [guest EXCEPT ![g].open = open]
          /\ wk' = [wk EXCEPT ![w].pc = "successor", ![w].guest = g]
          /\ UNCHANGED <<room, noShow, books, job, openShift, call, mishaps>>
      BY <1>2, <1>4 DEF InterimClose
    <2>2. open \in SUBSET Folios
      BY <1>2, GuestTyped
    <2> HIDE DEF open
    <2>3. guest' \in [Guests -> GuestRow]
      BY <1>2, <2>1, <2>2, GuestTyped
    <2>4. /\ RowMoves(w) /\ wk'[w].pc = "successor" /\ wk'[w].guest = g
          /\ wk'[w].listed = wk[w].listed
      BY <1>1, <2>1, TakesGuest
    <2>5. ClosesFolios(wk[w], wk'[w])
      BY <2>1, <2>4 DEF ClosesFolios, SameCharges, SameBooks, CompletesNone, books
    <2> QED
      BY <1>2, <2>1, <2>3, <2>4, <2>5, NothingHappens DEF WorksOn, Works, books
  <1>5. ASSUME NEW g \in Guests, InterimConflict(w, g) PROVE WorksOn(w)
    <2>1. /\ wk[w].pc = "interim" /\ Turn(w, "record")
          /\ UNCHANGED <<stays, books, job, openShift, call, mishaps>>
      BY <1>5 DEF InterimConflict
    <2>2. RowMoves(w) /\ wk'[w].pc = "record"
      BY <1>1, <2>1, TurnMoves
    <2>3. Breaks(wk[w], wk'[w])
      BY <2>1, <2>2 DEF Breaks, SameCharges, SameBooks, CompletesNone, books, stays
    <2> QED
      BY <1>2, <2>1, <2>2, <2>3, NothingHappens DEF WorksOn, Works, books, stays
  <1>6. CASE InterimOpen(w)
    <2> DEFINE g == wk[w].guest
               x == [guest[g] EXCEPT !.folios = @ + 1, !.open = @ \cup {guest[g].folios + 1}]
    <2>1. /\ wk[w].pc = "successor" /\ guest[g].folios < MaxFolios /\ Turn(w, "noteDate")
          /\ guest' = [guest EXCEPT ![g].folios = @ + 1, ![g].open = @ \cup {guest[g].folios + 1}]
          /\ UNCHANGED <<room, noShow, books, job, openShift, call, mishaps>>
      BY <1>6 DEF InterimOpen
    <2>2. g \in Guests
      BY <1>2, <2>1
    <2> HIDE DEF g
    <2>3. guest[g].folios + 1 \in Folios /\ guest[g].folios + 1 \in 0..MaxFolios
      BY <1>2, <2>1, <2>2, AuditAssumption DEF GuestRow, Folios
    <2>4. x \in GuestRow
      BY <1>2, <2>2, <2>3 DEF GuestRow
    <2>5. guest' = [guest EXCEPT ![g] = x]
      BY <1>2, <2>1, <2>2
    <2> HIDE DEF x
    <2>6. guest' \in [Guests -> GuestRow]
      BY <1>2, <2>2, <2>4, <2>5
    <2>7. /\ RowMoves(w) /\ wk'[w].pc = "noteDate" /\ wk'[w].guest = wk[w].guest
          /\ wk'[w].listed = wk[w].listed
      BY <1>1, <2>1, TurnMoves
    <2>8. ClosesFolios(wk[w], wk'[w])
      BY <2>1, <2>7 DEF ClosesFolios, SameCharges, SameBooks, CompletesNone, books
    <2> QED
      BY <1>2, <2>1, <2>6, <2>7, <2>8, NothingHappens DEF WorksOn, Works, books
  <1>7. CASE InterimNote(w)
    <2>1. /\ wk[w].pc = "noteDate" /\ NextGuest(w, "interim", wk[w].guest)
          /\ guest' = [guest EXCEPT ![wk[w].guest].interim = wk[w].date]
          /\ UNCHANGED <<room, noShow, books, job, openShift, call, mishaps>>
      BY <1>7 DEF InterimNote
    <2>2. guest' \in [Guests -> GuestRow]
      BY <1>2, <2>1, GuestTyped
    <2>3. RowMoves(w) /\ wk'[w].pc = "interim" /\ wk'[w].listed = wk[w].listed
      BY <1>1, <2>1, NextGuestMoves
    <2>4. ClosesFolios(wk[w], wk'[w])
      BY <2>1, <2>3 DEF ClosesFolios, SameCharges, SameBooks, CompletesNone, books
    <2> QED
      BY <1>2, <2>1, <2>2, <2>3, <2>4, NothingHappens DEF WorksOn, Works, books
  <1> QED
    BY <1>3, <1>4, <1>5, <1>6, <1>7

\* The end of the audit, and an error in any of its awaits.
LEMMA ClosingSteps ==
    ASSUME TypeOK, NEW w \in Workers,
           Report(w) \/ BookJournal(w) \/ Complete(w) \/ Roll(w) \/ Fault(w)
    PROVE  WorksOn(w)
  <1> USE DEF Pcs, Posting, Marking, Cycles, Closing, InHand
  <1>1. wk[w] \in WorkerRow /\ wk[w] # Resting
    <2>1. wk[w].pc \in Pcs
      BY AtWork DEF Report, BookJournal, Complete, Roll, Fault, WorkerRow
    <2> QED
      BY <2>1, Working
  <1>2. /\ guest \in [Guests -> GuestRow] /\ audit \in [Dates -> AuditStatus]
        /\ posted \in [Dates -> Nat] /\ wk[w].date \in Dates
    BY <1>1 DEF TypeOK, WorkerRow
  <1>3. CASE Report(w)
    <2>1. /\ wk[w].pc = "interim" /\ Turn(w, "journal")
          /\ reports' = [reports EXCEPT ![wk[w].date] = @ + 1]
          /\ UNCHANGED <<stays, today, audit, posted, journal, job, openShift, call, mishaps>>
      BY <1>3 DEF Report
    <2>2. RowMoves(w) /\ wk'[w].pc = "journal" /\ wk'[w].listed = wk[w].listed
      BY <1>1, <2>1, TurnMoves
    <2>3. Archives(wk[w], wk'[w])
      BY <2>1, <2>2 DEF Archives, SameCharges, CompletesNone, stays
    <2> QED
      BY <1>2, <2>1, <2>2, <2>3, NothingHappens DEF WorksOn, Works, stays
  <1>4. CASE BookJournal(w)
    <2>1. /\ wk[w].pc = "journal" /\ Turn(w, "complete")
          /\ journal' = [journal EXCEPT ![wk[w].date] =
                                IF @ = NotBooked THEN RowsOf(wk[w].date) ELSE @]
          /\ UNCHANGED <<stays, today, audit, posted, reports, job, openShift, call, mishaps>>
      BY <1>4 DEF BookJournal
    <2>2. RowMoves(w) /\ wk'[w].pc = "complete" /\ wk'[w].listed = wk[w].listed
      BY <1>1, <2>1, TurnMoves
    <2>3. BooksNight(wk[w], wk'[w])
      BY <2>1, <2>2 DEF BooksNight, SameCharges, CompletesNone, stays
    <2> QED
      BY <1>2, <2>1, <2>2, <2>3, NothingHappens DEF WorksOn, Works, stays
  <1>5. CASE Complete(w)
    <2>1. /\ wk[w].pc = "complete" /\ Turn(w, "roll")
          /\ audit' = [audit EXCEPT ![wk[w].date] = "COMPLETED"]
          /\ UNCHANGED <<stays, today, posted, reports, journal, job, openShift, call, mishaps>>
      BY <1>5 DEF Complete
    <2>2. RowMoves(w) /\ wk'[w].pc = "roll" /\ wk'[w].listed = wk[w].listed
      BY <1>1, <2>1, TurnMoves
    <2>3. Completes(wk[w], wk'[w])
      BY <2>1, <2>2 DEF Completes, SameCharges, SameBooks, stays
    <2>4. audit' \in [Dates -> AuditStatus]
      BY <1>2, <2>1 DEF AuditStatus
    <2> QED
      BY <1>2, <2>1, <2>2, <2>3, <2>4, NothingHappens DEF WorksOn, Works, stays
  <1>6. CASE Roll(w)
    <2>1. /\ wk[w].pc = "roll" /\ Turn(w, "done") /\ today' = today + 1
          /\ UNCHANGED <<stays, audit, posted, reports, journal, job, openShift, call, mishaps>>
      BY <1>6 DEF Roll
    <2>2. RowMoves(w) /\ wk'[w].pc = "done"
      BY <1>1, <2>1, TurnMoves
    <2>3. RollsDate(wk[w], wk'[w])
      BY <2>1, <2>2 DEF RollsDate, SameCharges, CompletesNone, stays
    <2> QED
      BY <1>2, <2>1, <2>2, <2>3, NothingHappens DEF WorksOn, Works, stays
  <1>7. CASE Fault(w)
    <2>1. /\ wk[w].pc \notin {"record", "done"} /\ Turn(w, "record")
          /\ UNCHANGED <<stays, books, job, openShift, call>>
          /\ UsesUp /\ mishaps'["faults"] < mishaps["faults"]
      BY <1>7, HappensUsesUp DEF Fault, Kinds
    <2>2. RowMoves(w) /\ wk'[w].pc = "record"
      BY <1>1, <2>1, TurnMoves
    <2>3. Breaks(wk[w], wk'[w])
      BY <2>1, <2>2 DEF Breaks, SameCharges, SameBooks, CompletesNone, books, stays
    <2> QED
      BY <1>2, <2>1, <2>2, <2>3 DEF WorksOn, Works, books, stays
  <1> QED
    BY <1>3, <1>4, <1>5, <1>6, <1>7

\* Every step of a worker with its job is one of these.
LEMMA GoingSteps ==
    ASSUME TypeOK, NEW w \in Workers, GoesOn(w) PROVE WorksOn(w)
  BY MarkingSteps, PostingSteps, CycleSteps, ClosingSteps, Zenon DEF GoesOn

\* What any step of the program does.
Effect ==
    \/ OutsideEffect \/ QueueEffect
    \/ \E w \in Workers, d \in Dates : TakesJob(w, d)
    \/ \E w \in Workers : ComesToRest(w) \/ WorksOn(w)

\* Every step of the program has one of these effects.
LEMMA StepEffects ==
    ASSUME TypeOK, Next PROVE Effect
  BY StepKinds, OutsideSteps, QueueSteps, TakeSteps, EndSteps, GoingSteps, Zenon DEF Step, Effect

\* The rows of a night are counted, so that a booked date is never taken for
\* one that is not.
LEMMA RowsAreCounted ==
    ASSUME TypeOK, NEW d \in Dates
    PROVE  RowsOf(d) \in Nat /\ RowsOf(d) # NotBooked
  <1>1. IsFiniteSet(Guests) /\ IsFiniteSet(Folios)
    BY AuditAssumption, FS_Interval DEF Folios
  <1>2. IsFiniteSet(Guests \X Folios)
    BY <1>1, FS_Product
  <1> DEFINE f == [i \in Guests \X Folios |-> room[i[1]][i[2]][d]]
             g == [x \in Guests |-> noShow[x][d]]
  <1>3. DOMAIN f = Guests \X Folios /\ \A i \in Guests \X Folios : f[i] \in Nat
    BY DEF TypeOK
  <1>4. DOMAIN g = Guests /\ \A x \in Guests : g[x] \in Nat
    BY DEF TypeOK
  <1>5. RoomRows(d) = SumFunctionOnSet(f, DOMAIN f) /\ NoShowRows(d) = SumFunctionOnSet(g, DOMAIN g)
    BY DEF RoomRows, NoShowRows, SumFunction
  <1> HIDE DEF f, g
  <1>6. RoomRows(d) \in Nat
    BY <1>2, <1>3, <1>5, SumOfNaturals
  <1>7. NoShowRows(d) \in Nat
    BY <1>1, <1>4, <1>5, SumOfNaturals
  <1> QED
    BY <1>6, <1>7 DEF RowsOf, NotBooked

\* The charges and the books stay numbers.
Counted ==
    /\ today' \in Nat
    /\ room' \in [Guests -> [Folios -> [Dates -> Nat]]]
    /\ noShow' \in [Guests -> [Dates -> Nat]]
    /\ reports' \in [Dates -> Nat]
    /\ journal' \in [Dates -> Int]

\* A worker leaves numbers behind.
LEMMA WorkCounts ==
    ASSUME TypeOK, NEW w \in Workers, WorksOn(w)
    PROVE  Counted
  <1> DEFINE x == wk[w]
             y == wk'[w]
  <1>1. x.date \in Dates /\ Works(x, y)
    BY DEF WorksOn, RowMoves, WorkerRow
  <1>2. /\ today \in Nat /\ room \in [Guests -> [Folios -> [Dates -> Nat]]]
        /\ noShow \in [Guests -> [Dates -> Nat]] /\ reports \in [Dates -> Nat]
        /\ journal \in [Dates -> Int]
    BY DEF TypeOK
  <1> HIDE DEF x, y
  <1>3. SameCharges /\ SameBooks => Counted
    BY <1>2 DEF SameCharges, SameBooks, Counted
  <1>4. CASE ChargesNoShow(x, y)
    <2>1. noShow' \in [Guests -> [Dates -> Nat]]
      BY <1>1, <1>2, <1>4 DEF ChargesNoShow
    <2> QED
      BY <1>2, <1>4, <2>1 DEF ChargesNoShow, SameBooks, Counted
  <1>5. CASE ChargesRoom(x, y)
    <2>1. room' \in [Guests -> [Folios -> [Dates -> Nat]]]
      BY <1>1, <1>2, <1>5 DEF ChargesRoom
    <2> QED
      BY <1>2, <1>5, <2>1 DEF ChargesRoom, SameBooks, Counted
  <1>6. CASE Archives(x, y)
    BY <1>1, <1>2, <1>6 DEF Archives, SameCharges, Counted
  <1>7. CASE BooksNight(x, y)
    <2>1. journal' \in [Dates -> Int]
      BY <1>1, <1>2, <1>7, RowsAreCounted DEF BooksNight
    <2> QED
      BY <1>2, <1>7, <2>1 DEF BooksNight, SameCharges, Counted
  <1>8. CASE RollsDate(x, y)
    BY <1>2, <1>8 DEF RollsDate, SameCharges, Counted
  <1> QED
    BY <1>1, <1>3, <1>4, <1>5, <1>6, <1>7, <1>8
    DEF Works, Marks, PostsRooms, ClosesFolios, Completes, Breaks

\* A worker that posts a room has a folio of the reservation in hand.
LEMMA FolioInHand ==
    ASSUME NEW w \in Workers, WorksOn(w), wk'[w].pc = "postRoom"
    PROVE  wk'[w].folio \in Folios
  BY DEF WorksOn, Works, Marks, ChargesNoShow, PostsRooms, ChargesRoom, ClosesFolios, Archives,
         BooksNight, Completes, RollsDate, Breaks, Marking, Cycles

\* Every step keeps the types.
LEMMA StepTyped ==
    ASSUME TypeOK, Next, UNCHANGED scene
    PROVE  TypeOK'
  <1>1. CASE OutsideEffect
    BY <1>1 DEF OutsideEffect, Shown, UsesUp, TypeOK
  <1>2. CASE QueueEffect
    BY <1>2 DEF QueueEffect, CallsKept, stays, books, UsesUp, TypeOK
  <1>3. ASSUME NEW w \in Workers, NEW d \in Dates, TakesJob(w, d) PROVE TypeOK'
    <2>1. \A v \in Workers : wk'[v] = wk[v] \/ wk'[v].pc = "noShows"
      BY <1>3 DEF TakesJob
    <2>2. \A v \in Workers :
            /\ wk'[v].pc \in InHand => wk'[v].guest \in Guests
            /\ wk'[v].pc = "postRoom" => wk'[v].folio \in Folios
      BY <2>1 DEF InHand, Marking, TypeOK
    <2> QED
      BY <1>3, <2>2 DEF TakesJob, stays, books, UsesUp, TypeOK
  <1>4. ASSUME NEW w \in Workers, ComesToRest(w) PROVE TypeOK'
    <2>1. \A v \in Workers : wk'[v] = wk[v] \/ wk'[v].pc = "idle"
      BY <1>4 DEF ComesToRest, Resting
    <2>2. \A v \in Workers :
            /\ wk'[v].pc \in InHand => wk'[v].guest \in Guests
            /\ wk'[v].pc = "postRoom" => wk'[v].folio \in Folios
      BY <2>1 DEF InHand, Marking, TypeOK
    <2> QED
      BY <1>4, <2>2 DEF ComesToRest, stays, UsesUp, TypeOK
  <1>5. ASSUME NEW w \in Workers, WorksOn(w) PROVE TypeOK'
    <2>1. \A v \in Workers \ {w} : wk'[v] = wk[v]
      BY <1>5 DEF WorksOn, RowMoves
    <2>2. wk'[w].pc \in InHand => wk'[w].guest \in Guests
      BY <1>5 DEF WorksOn
    <2>3. \A v \in Workers :
            /\ wk'[v].pc \in InHand => wk'[v].guest \in Guests
            /\ wk'[v].pc = "postRoom" => wk'[v].folio \in Folios
      BY <1>5, <2>1, <2>2, FolioInHand DEF TypeOK
    <2>4. Counted
      BY <1>5, WorkCounts
    <2>5. /\ job' \in [Dates -> JobRow] /\ openShift' \subseteq Dates
          /\ call' \in [Calls -> {Resting} \cup CallRow] /\ mishaps' \in [Kinds -> Nat]
          /\ guest' \in [Guests -> GuestRow] /\ wk' \in [Workers -> {Resting} \cup WorkerRow]
          /\ audit' \in [Dates -> AuditStatus] /\ posted' \in [Dates -> Nat] /\ scene' \in Scenes
      BY <1>5 DEF WorksOn, RowMoves, UsesUp, TypeOK
    <2> QED
      BY <2>3, <2>4, <2>5 DEF Counted, TypeOK
  <1> QED
    BY <1>1, <1>2, <1>3, <1>4, <1>5, StepEffects DEF Effect

\* A step that changes nothing.
LEMMA StutterTyped ==
    ASSUME TypeOK, UNCHANGED <<vars, scene>> PROVE TypeOK'
  BY DEF vars, TypeOK

\* Every state is well typed.
THEOREM Typed == Spec => []TypeOK
  <1>1. TypeOK /\ [Next /\ UNCHANGED scene]_<<vars, scene>> => TypeOK'
    BY StepTyped, StutterTyped
  <1> QED
    BY <1>1, InitTyped, PTL DEF Spec

-----------------------------------------------------------------------------
(* Locks, and who is asked to audit what *)

\* No more mishaps are left than the scene had.
Within == \A k \in Kinds : mishaps[k] <= scene.mishaps[k]

\* None of a kind has happened.
Spared(k) == mishaps[k] = scene.mishaps[k]

\* What has not happened after a step had not happened before it.
LEMMA SparedBefore ==
    ASSUME TypeOK, Within, UsesUp, UNCHANGED scene, NEW k \in Kinds
    PROVE  /\ mishaps'[k] <= scene'.mishaps[k]
           /\ Spared(k)' => Spared(k) /\ mishaps'[k] = mishaps[k]
  <1>1. scene.mishaps \in [Kinds -> Nat]
    BY AuditAssumption DEF TypeOK
  <1>2. /\ scene.mishaps[k] \in Nat /\ mishaps[k] \in Nat /\ mishaps'[k] \in Nat
        /\ mishaps'[k] <= mishaps[k] /\ mishaps[k] <= scene.mishaps[k]
    BY <1>1 DEF TypeOK, Within, UsesUp
  <1> HIDE DEF TypeOK
  <1> QED
    BY <1>2 DEF Spared

\* Audits are asked for, queued and run for the scene's dates only.
Asked ==
    /\ \A c \in Calls : call[c] # Resting => call[c].date \in scene.dates
    /\ \A d \in Dates : job[d].state # "none" => d \in scene.dates
    /\ \A w \in Workers : wk[w] # Resting => w \in scene.workers /\ wk[w].date \in scene.dates

\* Unless a lock ran out, whoever works on a date holds its active job.
LocksHeld ==
    LocksWereKept => \A w \in Workers : wk[w] # Resting =>
        job[wk[w].date].state = "active" /\ job[wk[w].date].lock = w

\* Unless a lock ran out or a worker died, an active job is locked.
NoneStalls ==
    LocksWereKept /\ Spared("crashes") =>
        \A d \in Dates : job[d].state = "active" => job[d].lock # Nobody

\* What holds of the queue.
QueueInv == Within /\ Asked /\ LocksHeld /\ NoneStalls

\* The queue, before anything was asked of it.
LEMMA QueueStarts == Init => QueueInv
  <1> SUFFICES ASSUME Init PROVE QueueInv
    OBVIOUS
  <1>1. scene.mishaps \in [Kinds -> Nat] /\ mishaps = scene.mishaps
    BY AuditAssumption DEF Init
  <1>2. Within
    BY <1>1 DEF Within
  <1> QED
    BY <1>2 DEF Init, QueueInv, Asked, LocksHeld, NoneStalls

\* Every step uses mishaps up, if it uses any.
LEMMA StepsUseUp == ASSUME Effect PROVE UsesUp
  BY DEF Effect, OutsideEffect, QueueEffect, TakesJob, ComesToRest, WorksOn

\* Mishaps stay within the scene's, whichever step is taken.
LEMMA WithinKept ==
    ASSUME TypeOK, QueueInv, Effect, UNCHANGED scene
    PROVE  Within' /\ \A k \in Kinds : Spared(k)' => Spared(k) /\ mishaps'[k] = mishaps[k]
  BY StepsUseUp, SparedBefore DEF QueueInv, Within

\* A worker's row says which date it works on.
LEMMA WorksOnDate ==
    ASSUME TypeOK, NEW w \in Workers, wk[w] # Resting
    PROVE  wk[w].date \in Dates
  BY AtWork DEF WorkerRow

\* What becomes of each job when a worker comes to rest.
LEMMA JobAtRest ==
    ASSUME TypeOK, NEW w \in Workers, ComesToRest(w), NEW d \in Dates
    PROVE  \/ job'[d] = job[d]
           \/ /\ job[d].lock = w /\ job'[d].state = job[d].state
              /\ mishaps'["crashes"] < mishaps["crashes"]
           \/ /\ job[d].lock = w /\ job[d].state = "active" /\ wk[w].date = d
              /\ job'[d].state = IF wk[w].pc = "done" THEN "completed" ELSE "failed"
  <1> DEFINE Died == /\ mishaps'["crashes"] < mishaps["crashes"]
                     /\ \A e \in Dates : /\ job'[e].state = job[e].state
                                         /\ job[e].lock # w => job'[e] = job[e]
             Ended(e) == IF job[e].lock = w /\ job[e].state = "active"
                         THEN job'[e].state = IF wk[w].pc = "done" THEN "completed" ELSE "failed"
                         ELSE job'[e] = job[e]
  <1>1. Died \/ ((\A e \in Dates \ {wk[w].date} : job'[e] = job[e]) /\ Ended(wk[w].date))
    BY DEF ComesToRest
  <1>2. CASE Died
    BY <1>2
  <1>3. CASE (\A e \in Dates \ {wk[w].date} : job'[e] = job[e]) /\ Ended(wk[w].date)
    <2>1. CASE d = wk[w].date
      <3>1. Ended(d)
        BY <1>3, <2>1
      <3> QED
        BY <2>1, <3>1
    <2>2. CASE d # wk[w].date
      BY <1>3, <2>2
    <2> QED
      BY <2>1, <2>2
  <1> QED
    BY <1>1, <1>2, <1>3

\* Every step keeps to the dates that were asked for.
LEMMA AskedKept ==
    ASSUME TypeOK, QueueInv, Effect, UNCHANGED scene
    PROVE  Asked'
  <1> USE DEF QueueInv, Asked
  <1>1. CASE OutsideEffect
    BY <1>1 DEF OutsideEffect, Shown
  <1>2. CASE QueueEffect
    <2>1. ASSUME NEW d \in Dates, job'[d].state # "none" PROVE d \in scene.dates
      <3>1. \/ job'[d] = job[d] \/ job'[d].state = job[d].state \/ job[d].state = "active"
            \/ \E c \in Calls : call[c] # Resting /\ call[c].date = d
        BY <1>2 DEF QueueEffect
      <3> QED
        BY <2>1, <3>1
    <2> QED
      BY <1>2, <2>1 DEF QueueEffect, CallsKept
  <1>3. ASSUME NEW w \in Workers, NEW d \in Dates, TakesJob(w, d) PROVE Asked'
    BY <1>3 DEF TakesJob
  <1>4. ASSUME NEW w \in Workers, ComesToRest(w) PROVE Asked'
    <2>2. ASSUME NEW d \in Dates, job'[d].state # "none" PROVE d \in scene.dates
      BY <1>4, <2>2, JobAtRest
    <2> QED
      BY <1>4, <2>2 DEF ComesToRest
  <1>5. ASSUME NEW w \in Workers, WorksOn(w) PROVE Asked'
    BY <1>5 DEF WorksOn, RowMoves
  <1> QED
    BY <1>1, <1>2, <1>3, <1>4, <1>5 DEF Effect

\* A lock is taken with the job and given up at its end only.
LEMMA LocksHeldKept ==
    ASSUME TypeOK, QueueInv, Effect, UNCHANGED scene
    PROVE  LocksHeld'
  <1> SUFFICES ASSUME LocksWereKept', NEW w \in Workers, wk'[w] # Resting
               PROVE  job'[wk'[w].date].state = "active" /\ job'[wk'[w].date].lock = w
    BY DEF LocksHeld
  <1>1. LocksWereKept /\ mishaps'["locks"] = mishaps["locks"]
    BY WithinKept DEF Kinds, Spared, LocksWereKept
  <1>2. \A v \in Workers : wk[v] # Resting =>
            /\ wk[v].date \in Dates /\ v # Nobody
            /\ job[wk[v].date].state = "active" /\ job[wk[v].date].lock = v
    BY <1>1, WorksOnDate, AuditAssumption DEF QueueInv, LocksHeld
  <1>3. mishaps["locks"] \in Nat /\ mishaps'["locks"] \in Nat
    BY StepsUseUp DEF UsesUp, TypeOK, Kinds
  <1>4. CASE OutsideEffect
    BY <1>2, <1>4 DEF OutsideEffect, Shown
  <1>5. CASE QueueEffect
    <2>1. wk' = wk /\ wk[w] # Resting
      BY <1>5 DEF QueueEffect
    <2> DEFINE d == wk[w].date
    <2>2. d \in Dates /\ w # Nobody /\ job[d].state = "active" /\ job[d].lock = w
      BY <1>2, <2>1
    <2> HIDE DEF d
    <2>3. \/ job'[d] = job[d] \/ job[d].state = "none" \/ job[d].lock = Nobody
          \/ mishaps'["locks"] < mishaps["locks"]
      BY <1>5, <2>2 DEF QueueEffect
    <2>4. job'[d] = job[d]
      BY <1>1, <1>3, <2>2, <2>3
    <2> QED
      BY <2>1, <2>2, <2>4 DEF d
  <1>6. ASSUME NEW v \in Workers, NEW d \in Dates, TakesJob(v, d)
        PROVE  job'[wk'[w].date].state = "active" /\ job'[wk'[w].date].lock = w
    BY <1>2, <1>6 DEF TakesJob
  <1>7. ASSUME NEW v \in Workers, ComesToRest(v)
        PROVE  job'[wk'[w].date].state = "active" /\ job'[wk'[w].date].lock = w
    <2>1. w # v /\ wk'[w] = wk[w] /\ wk[w] # Resting /\ wk[v] # Resting
      BY <1>7 DEF ComesToRest
    <2>2. wk[w].date # wk[v].date /\ job[wk[w].date].lock # v
      BY <1>2, <2>1
    <2>3. job'[wk[w].date] = job[wk[w].date]
      BY <1>2, <1>7, <2>1, <2>2, JobAtRest
    <2> QED
      BY <1>2, <2>1, <2>3
  <1>8. ASSUME NEW v \in Workers, WorksOn(v)
        PROVE  job'[wk'[w].date].state = "active" /\ job'[wk'[w].date].lock = w
    BY <1>2, <1>8 DEF WorksOn, RowMoves
  <1> QED
    BY <1>4, <1>5, <1>6, <1>7, <1>8 DEF Effect

\* Only a death or a lock that ran out leaves an active job behind.
LEMMA NoneStallsKept ==
    ASSUME TypeOK, QueueInv, Effect, UNCHANGED scene
    PROVE  NoneStalls'
  <1> SUFFICES ASSUME LocksWereKept', Spared("crashes")', NEW d \in Dates,
                      job'[d].state = "active"
               PROVE  job'[d].lock # Nobody
    BY DEF NoneStalls
  <1>1. /\ LocksWereKept /\ mishaps'["locks"] = mishaps["locks"]
        /\ Spared("crashes") /\ mishaps'["crashes"] = mishaps["crashes"]
    BY WithinKept DEF Kinds, Spared, LocksWereKept
  <1>2. job[d].state = "active" => job[d].lock # Nobody
    BY <1>1 DEF QueueInv, NoneStalls
  <1>3. /\ mishaps["locks"] \in Nat /\ mishaps'["locks"] \in Nat
        /\ mishaps["crashes"] \in Nat /\ mishaps'["crashes"] \in Nat
    BY StepsUseUp DEF UsesUp, TypeOK, Kinds
  <1>4. CASE OutsideEffect
    BY <1>2, <1>4 DEF OutsideEffect, Shown
  <1>5. CASE QueueEffect
    BY <1>1, <1>2, <1>3, <1>5 DEF QueueEffect
  <1>6. ASSUME NEW v \in Workers, NEW e \in Dates, TakesJob(v, e) PROVE job'[d].lock # Nobody
    BY <1>2, <1>6, AuditAssumption DEF TakesJob
  <1>7. ASSUME NEW v \in Workers, ComesToRest(v) PROVE job'[d].lock # Nobody
    <2>1. job'[d] = job[d]
      BY <1>1, <1>3, <1>7 DEF ComesToRest
    <2> QED
      BY <1>2, <2>1
  <1>8. ASSUME NEW v \in Workers, WorksOn(v) PROVE job'[d].lock # Nobody
    BY <1>2, <1>8 DEF WorksOn
  <1> QED
    BY <1>4, <1>5, <1>6, <1>7, <1>8 DEF Effect

\* Every step keeps the queue in order.
LEMMA QueueKept ==
    ASSUME TypeOK, QueueInv, Effect, UNCHANGED scene
    PROVE  QueueInv'
  BY WithinKept, AskedKept, LocksHeldKept, NoneStallsKept DEF QueueInv

\* Unless a lock ran out, two workers never work on one date.
LEMMA DatesApart ==
    ASSUME TypeOK, QueueInv, LocksWereKept, NEW v \in Workers, NEW w \in Workers,
           wk[v] # Resting, wk[w] # Resting, wk[v].date = wk[w].date
    PROVE  v = w
  BY DEF QueueInv, LocksHeld

-----------------------------------------------------------------------------
(* Charges and bookings *)

\* No worker goes on: charges and books stay, and no audit becomes COMPLETED.
Calm ==
    /\ UNCHANGED <<room, noShow, today, reports, journal>> /\ UsesUp
    /\ \A w \in Workers : wk'[w] = wk[w] \/ wk'[w].pc \in {"idle", "noShows"}
    /\ \A d \in Dates : audit'[d] = "COMPLETED" => audit[d] = "COMPLETED"

\* Only a worker that goes on charges or books.
LEMMA CalmOrWork ==
    ASSUME TypeOK, Effect PROVE Calm \/ \E w \in Workers : WorksOn(w)
  <1>1. CASE OutsideEffect
    BY <1>1 DEF OutsideEffect, Shown, Calm
  <1>2. CASE QueueEffect
    BY <1>2 DEF QueueEffect, stays, books, Calm
  <1>3. ASSUME NEW w \in Workers, NEW d \in Dates, TakesJob(w, d) PROVE Calm
    BY <1>3 DEF TakesJob, stays, books, Calm
  <1>4. ASSUME NEW w \in Workers, ComesToRest(w) PROVE Calm
    <2>1. Resting.pc = "idle"
      BY DEF Resting
    <2> QED
      BY <1>4, <2>1 DEF ComesToRest, stays, Calm
  <1> QED
    BY <1>1, <1>2, <1>3, <1>4 DEF Effect

\* A room charge is one row more on one folio for one date.
LEMMA RoomRow ==
    ASSUME TypeOK, NEW w \in Workers, WorksOn(w), ChargesRoom(wk[w], wk'[w])
    PROVE  /\ wk[w].guest \in Guests /\ wk[w].folio \in Folios /\ wk[w].date \in Dates
           /\ \A g \in Guests, k \in Folios, d \in Dates :
                room'[g][k][d] = IF g = wk[w].guest /\ k = wk[w].folio /\ d = wk[w].date
                                 THEN room[g][k][d] + 1 ELSE room[g][k][d]
  <1> DEFINE h == wk[w].guest
             j == wk[w].folio
             e == wk[w].date
  <1>1. h \in Guests /\ j \in Folios /\ e \in Dates
    BY WorksOnDate DEF ChargesRoom, WorksOn, RowMoves
  <1>2. room' = [room EXCEPT ![h][j][e] = @ + 1] /\ room \in [Guests -> [Folios -> [Dates -> Nat]]]
    BY DEF ChargesRoom, TypeOK
  <1> HIDE DEF h, j, e
  <1>3. \A g \in Guests, k \in Folios, d \in Dates :
            room'[g][k][d] = IF g = h /\ k = j /\ d = e THEN room[g][k][d] + 1 ELSE room[g][k][d]
    BY <1>1, <1>2
  <1> QED
    BY <1>1, <1>3 DEF h, j, e

\* A no-show charge is one row more of one reservation for one date.
LEMMA NoShowRow ==
    ASSUME TypeOK, NEW w \in Workers, WorksOn(w), ChargesNoShow(wk[w], wk'[w])
    PROVE  /\ wk[w].guest \in Guests /\ wk[w].date \in Dates
           /\ \A g \in Guests, d \in Dates :
                noShow'[g][d] = IF g = wk[w].guest /\ d = wk[w].date
                                THEN noShow[g][d] + 1 ELSE noShow[g][d]
  <1> DEFINE h == wk[w].guest
             e == wk[w].date
  <1>1. h \in Guests /\ e \in Dates
    BY WorksOnDate DEF ChargesNoShow, WorksOn, RowMoves
  <1>2. noShow' = [noShow EXCEPT ![h][e] = @ + 1] /\ noShow \in [Guests -> [Dates -> Nat]]
    BY DEF ChargesNoShow, TypeOK
  <1> HIDE DEF h, e
  <1>3. \A g \in Guests, d \in Dates :
            noShow'[g][d] = IF g = h /\ d = e THEN noShow[g][d] + 1 ELSE noShow[g][d]
    BY <1>1, <1>2
  <1> QED
    BY <1>1, <1>3 DEF h, e

\* Only those two add rows.
LEMMA RowsOtherwiseStay ==
    ASSUME NEW x, NEW y, Works(x, y)
    PROVE  /\ room' = room \/ ChargesRoom(x, y)
           /\ noShow' = noShow \/ ChargesNoShow(x, y)
  BY DEF Works, Marks, ChargesNoShow, PostsRooms, ChargesRoom, ClosesFolios, Archives, BooksNight,
         Completes, RollsDate, Breaks, SameCharges

\* Unless a lock ran out, what a worker is about to charge is not charged yet.
RoomsInv ==
    LocksWereKept =>
        /\ \A g \in Guests, k \in Folios, d \in Dates : room[g][k][d] <= 1
        /\ \A w \in Workers : wk[w].pc = "postRoom" =>
            room[wk[w].guest][wk[w].folio][wk[w].date] = 0

\* No room is charged in the beginning.
LEMMA RoomsStart == Init => RoomsInv
  BY DEF Init, RoomsInv, Resting

\* The look-up in processRoomPosting guards the charge, as nobody else posts on
\* that date meanwhile.
LEMMA RoomsKept ==
    ASSUME TypeOK, QueueInv, RoomsInv, Effect, UNCHANGED scene
    PROVE  RoomsInv'
  <1> SUFFICES ASSUME LocksWereKept'
               PROVE  /\ \A g \in Guests, k \in Folios, d \in Dates : room'[g][k][d] <= 1
                      /\ \A w \in Workers : wk'[w].pc = "postRoom" =>
                            room'[wk'[w].guest][wk'[w].folio][wk'[w].date] = 0
    BY DEF RoomsInv
  <1>1. LocksWereKept
    BY WithinKept DEF Kinds, Spared, LocksWereKept
  <1>2. /\ \A g \in Guests, k \in Folios, d \in Dates : room[g][k][d] \in Nat /\ room[g][k][d] <= 1
        /\ \A w \in Workers : wk[w].pc = "postRoom" =>
            room[wk[w].guest][wk[w].folio][wk[w].date] = 0
    BY <1>1 DEF RoomsInv, TypeOK
  <1>3. CASE Calm
    BY <1>2, <1>3 DEF Calm
  <1>4. ASSUME NEW w \in Workers, WorksOn(w), room' = room
        PROVE  \A v \in Workers : wk'[v].pc = "postRoom" =>
                    room'[wk'[v].guest][wk'[v].folio][wk'[v].date] = 0
    <2>1. /\ \A v \in Workers \ {w} : wk'[v] = wk[v]
          /\ Works(wk[w], wk'[w]) /\ wk'[w].date = wk[w].date /\ wk[w].date \in Dates
      BY <1>4, WorksOnDate DEF WorksOn, RowMoves
    <2>2. ASSUME wk'[w].pc = "postRoom"
          PROVE  room[wk'[w].guest][wk'[w].folio][wk'[w].date] = 0
      <3>1. /\ wk'[w].guest \in Guests /\ wk'[w].folio \in Folios
            /\ ~Charged(wk'[w].guest, wk'[w].folio, wk[w].date)
        BY <2>1, <2>2
        DEF Works, Marks, ChargesNoShow, PostsRooms, ChargesRoom, ClosesFolios, Archives,
            BooksNight, Completes, RollsDate, Breaks, Marking, Cycles
      <3> QED
        BY <1>2, <2>1, <3>1 DEF Charged
    <2> QED
      BY <1>2, <1>4, <2>1, <2>2
  <1>5. ASSUME NEW w \in Workers, WorksOn(w), ChargesRoom(wk[w], wk'[w])
        PROVE  /\ \A g \in Guests, k \in Folios, d \in Dates : room'[g][k][d] <= 1
               /\ \A v \in Workers : wk'[v].pc = "postRoom" =>
                    room'[wk'[v].guest][wk'[v].folio][wk'[v].date] = 0
    <2>1. /\ \A v \in Workers \ {w} : wk'[v] = wk[v]
          /\ wk[w].pc = "postRoom" /\ wk'[w].pc = "rooms" /\ wk[w] # Resting
      BY <1>5 DEF WorksOn, RowMoves, ChargesRoom
    <2>2. room[wk[w].guest][wk[w].folio][wk[w].date] = 0
      BY <1>2, <2>1
    <2>3. \A g \in Guests, k \in Folios, d \in Dates : room'[g][k][d] <= 1
      BY <1>2, <1>5, <2>2, RoomRow
    <2>4. ASSUME NEW v \in Workers, wk'[v].pc = "postRoom"
          PROVE  room'[wk'[v].guest][wk'[v].folio][wk'[v].date] = 0
      <3>1. v # w /\ wk'[v] = wk[v] /\ wk[v].pc = "postRoom"
        BY <2>1, <2>4
      <3>2. /\ wk[v] # Resting /\ wk[v].date \in Dates
            /\ wk[v].guest \in Guests /\ wk[v].folio \in Folios
        BY <3>1, Working DEF Pcs, Posting, InHand
      <3>3. wk[v].date # wk[w].date
        BY <1>1, <2>1, <3>1, <3>2, DatesApart
      <3>4. room'[wk[v].guest][wk[v].folio][wk[v].date] = room[wk[v].guest][wk[v].folio][wk[v].date]
        BY <1>5, <3>2, <3>3, RoomRow
      <3> QED
        BY <1>2, <3>1, <3>4
    <2> QED
      BY <2>3, <2>4
  <1>6. ASSUME NEW w \in Workers, WorksOn(w)
        PROVE  room' = room \/ ChargesRoom(wk[w], wk'[w])
    BY <1>6, RowsOtherwiseStay DEF WorksOn
  <1> QED
    BY <1>2, <1>3, <1>4, <1>5, <1>6, CalmOrWork

\* Audits that do not run side by side have one worker at a time, unless a lock
\* ran out.
LEMMA OneWorks ==
    ASSUME TypeOK, QueueInv, LocksWereKept, OneAuditAtATime,
           NEW v \in Workers, NEW w \in Workers, wk[v] # Resting, wk[w] # Resting
    PROVE  v = w
  <1>1. /\ v \in scene.workers /\ w \in scene.workers
        /\ wk[v].date \in scene.dates /\ wk[w].date \in scene.dates
    BY DEF QueueInv, Asked
  <1>2. v = w \/ wk[v].date = wk[w].date
    BY <1>1 DEF OneAuditAtATime
  <1> QED
    BY <1>2, DatesApart

\* Unless a lock ran out or audits run side by side, a reservation about to pay
\* for not turning up has not paid yet.
NoShowsInv ==
    LocksWereKept /\ OneAuditAtATime =>
        /\ \A g \in Guests, d, e \in Dates :
            noShow[g][d] <= 1 /\ (noShow[g][d] > 0 /\ noShow[g][e] > 0 => d = e)
        /\ \A w \in Workers : wk[w].pc = "nsPost" => ~AlreadyPosted(wk[w].guest)

\* Nobody has paid for not turning up in the beginning.
LEMMA NoShowsStart == Init => NoShowsInv
  BY DEF Init, NoShowsInv, Resting

\* The look-up in markNoShow guards the charge, as no other audit runs meanwhile.
LEMMA NoShowsKept ==
    ASSUME TypeOK, QueueInv, NoShowsInv, Effect, UNCHANGED scene
    PROVE  NoShowsInv'
  <1> SUFFICES ASSUME LocksWereKept', OneAuditAtATime'
               PROVE  /\ \A g \in Guests, d, e \in Dates :
                            /\ noShow'[g][d] <= 1
                            /\ noShow'[g][d] > 0 /\ noShow'[g][e] > 0 => d = e
                      /\ \A w \in Workers : wk'[w].pc = "nsPost" =>
                            \A d \in Dates : ~(noShow'[wk'[w].guest][d] > 0)
    BY DEF NoShowsInv, AlreadyPosted
  <1>1. LocksWereKept /\ OneAuditAtATime
    BY WithinKept DEF Kinds, Spared, LocksWereKept, OneAuditAtATime
  <1>2. /\ \A g \in Guests, d, e \in Dates :
            noShow[g][d] <= 1 /\ (noShow[g][d] > 0 /\ noShow[g][e] > 0 => d = e)
        /\ \A w \in Workers : wk[w].pc = "nsPost" => ~AlreadyPosted(wk[w].guest)
        /\ \A g \in Guests, d \in Dates : noShow[g][d] \in Nat
    BY <1>1 DEF NoShowsInv, TypeOK
  <1>3. CASE Calm
    BY <1>2, <1>3 DEF Calm, AlreadyPosted
  <1>4. ASSUME NEW w \in Workers, WorksOn(w), noShow' = noShow
        PROVE  \A v \in Workers : wk'[v].pc = "nsPost" =>
                    \A d \in Dates : ~(noShow'[wk'[v].guest][d] > 0)
    <2>1. /\ \A v \in Workers \ {w} : wk'[v] = wk[v]
          /\ Works(wk[w], wk'[w])
      BY <1>4 DEF WorksOn, RowMoves
    <2>2. wk'[w].pc = "nsPost" => ~AlreadyPosted(wk'[w].guest)
      BY <2>1
      DEF Works, Marks, ChargesNoShow, PostsRooms, ChargesRoom, ClosesFolios, Archives,
          BooksNight, Completes, RollsDate, Breaks, Cycles
    <2> QED
      BY <1>2, <1>4, <2>1, <2>2 DEF AlreadyPosted
  <1>5. ASSUME NEW w \in Workers, WorksOn(w), ChargesNoShow(wk[w], wk'[w])
        PROVE  /\ \A g \in Guests, d, e \in Dates :
                    /\ noShow'[g][d] <= 1
                    /\ noShow'[g][d] > 0 /\ noShow'[g][e] > 0 => d = e
               /\ \A v \in Workers : wk'[v].pc = "nsPost" =>
                    \A d \in Dates : ~(noShow'[wk'[v].guest][d] > 0)
    <2>1. /\ \A v \in Workers \ {w} : wk'[v] = wk[v]
          /\ wk[w].pc = "nsPost" /\ wk'[w].pc = "nsMark" /\ wk[w] # Resting
      BY <1>5 DEF WorksOn, RowMoves, ChargesNoShow
    <2>2. \A d \in Dates : noShow[wk[w].guest][d] = 0
      BY <1>2, <1>5, <2>1, NoShowRow DEF AlreadyPosted
    <2>3. ASSUME NEW g \in Guests, NEW d \in Dates, NEW e \in Dates
          PROVE  /\ noShow'[g][d] <= 1
                 /\ noShow'[g][d] > 0 /\ noShow'[g][e] > 0 => d = e
      BY <1>2, <1>5, <2>2, NoShowRow
    <2>4. ASSUME NEW v \in Workers, wk'[v].pc = "nsPost" PROVE FALSE
      <3>1. v # w /\ wk[v].pc = "nsPost"
        BY <2>1, <2>4
      <3>2. wk[v] # Resting
        BY <3>1 DEF Resting
      <3> QED
        BY <1>1, <2>1, <3>1, <3>2, OneWorks
    <2> QED
      BY <2>3, <2>4
  <1>6. ASSUME NEW w \in Workers, WorksOn(w)
        PROVE  noShow' = noShow \/ ChargesNoShow(wk[w], wk'[w])
    BY <1>6, RowsOtherwiseStay DEF WorksOn
  <1> QED
    BY <1>2, <1>3, <1>4, <1>5, <1>6, CalmOrWork

\* The summary is archived before the journal is booked, and the journal booked
\* before the audit is completed.
BookedInv ==
    /\ CompletedIsBooked
    /\ \A w \in Workers :
        /\ wk[w].pc \in Closing => reports[wk[w].date] > 0
        /\ wk[w].pc \in {"complete", "roll", "done"} => journal[wk[w].date] # NotBooked

\* Nothing is booked in the beginning.
LEMMA BooksStart == Init => BookedInv
  BY DEF Init, BookedInv, CompletedIsBooked, Resting, Closing

\* No summary and no booking is ever taken back.
LEMMA BooksStay ==
    ASSUME TypeOK, NEW w \in Workers, WorksOn(w), NEW d \in Dates
    PROVE  /\ reports'[d] >= reports[d] /\ reports[d] \in Nat /\ reports'[d] \in Nat
           /\ journal[d] # NotBooked => journal'[d] = journal[d]
  <1>1. wk[w].date \in Dates /\ Works(wk[w], wk'[w])
    BY WorksOnDate DEF WorksOn, RowMoves
  <1>2. reports \in [Dates -> Nat] /\ journal \in [Dates -> Int]
    BY DEF TypeOK
  <1>3. reports'[d] \in {reports[d], reports[d] + 1}
    <2>1. reports' = reports \/ reports' = [reports EXCEPT ![wk[w].date] = @ + 1]
      BY <1>1
      DEF Works, Marks, ChargesNoShow, PostsRooms, ChargesRoom, ClosesFolios, Archives,
          BooksNight, Completes, RollsDate, Breaks, SameBooks
    <2> QED
      BY <1>1, <1>2, <2>1
  <1>4. journal[d] # NotBooked => journal'[d] = journal[d]
    <2>1. \/ journal' = journal
          \/ journal' = [journal EXCEPT ![wk[w].date] =
                                IF @ = NotBooked THEN RowsOf(wk[w].date) ELSE @]
      BY <1>1
      DEF Works, Marks, ChargesNoShow, PostsRooms, ChargesRoom, ClosesFolios, Archives,
          BooksNight, Completes, RollsDate, Breaks, SameBooks
    <2> QED
      BY <1>1, <1>2, <2>1
  <1> QED
    BY <1>2, <1>3, <1>4

\* Where a worker can be after it went on.
LEMMA ClosingIsReached ==
    ASSUME NEW x, NEW y, Works(x, y), y.pc \in Closing
    PROVE  \/ Archives(x, y) \/ BooksNight(x, y) \/ Completes(x, y) \/ RollsDate(x, y)
  BY DEF Works, Marks, ChargesNoShow, PostsRooms, ChargesRoom, ClosesFolios, Breaks,
         Marking, Cycles, Closing

\* Every step keeps that order.
LEMMA BooksKept ==
    ASSUME TypeOK, BookedInv, Effect
    PROVE  BookedInv'
  <1>1. CASE Calm
    BY <1>1 DEF Calm, BookedInv, CompletedIsBooked, Closing
  <1>2. ASSUME NEW w \in Workers, WorksOn(w) PROVE BookedInv'
    <2> DEFINE x == wk[w]
               y == wk'[w]
    <2>1. /\ \A v \in Workers \ {w} : wk'[v] = wk[v]
          /\ Works(x, y) /\ y.date = x.date /\ x.date \in Dates
      BY <1>2, WorksOnDate DEF WorksOn, RowMoves
    <2>2. \A d \in Dates : /\ reports[d] > 0 => reports'[d] > 0
                           /\ journal[d] # NotBooked => journal'[d] # NotBooked
      <3>1. ASSUME NEW d \in Dates
            PROVE  /\ reports[d] > 0 => reports'[d] > 0
                   /\ journal[d] # NotBooked => journal'[d] # NotBooked
        <4>1. /\ reports'[d] >= reports[d] /\ reports[d] \in Nat /\ reports'[d] \in Nat
              /\ journal[d] # NotBooked => journal'[d] = journal[d]
          BY <1>2, BooksStay
        <4> QED
          BY <4>1
      <3> QED
        BY <3>1
    <2>3. /\ y.pc \in Closing => reports'[y.date] > 0
          /\ y.pc \in {"complete", "roll", "done"} => journal'[y.date] # NotBooked
      <3> SUFFICES ASSUME y.pc \in Closing
                   PROVE  /\ reports'[y.date] > 0
                          /\ y.pc \in {"complete", "roll", "done"} => journal'[y.date] # NotBooked
        BY DEF Closing
      <3>1. reports \in [Dates -> Nat] /\ journal \in [Dates -> Int] /\ BookedInv
        BY DEF TypeOK
      <3> HIDE DEF x, y
      <3>2. CASE Archives(x, y)
        <4>1. reports'[x.date] = reports[x.date] + 1 /\ y.pc = "journal"
          BY <2>1, <3>1, <3>2 DEF Archives
        <4> QED
          BY <2>1, <3>1, <4>1
      <3>3. CASE BooksNight(x, y)
        <4>1. reports[x.date] > 0
          BY <3>1, <3>3 DEF BookedInv, BooksNight, Closing, x
        <4>2. journal'[x.date] # NotBooked
          BY <2>1, <3>1, <3>3, RowsAreCounted DEF BooksNight
        <4> QED
          BY <2>1, <2>2, <4>1, <4>2
      <3>4. CASE Completes(x, y) \/ RollsDate(x, y)
        <4>1. x.pc \in {"complete", "roll"}
          BY <3>4 DEF Completes, RollsDate
        <4>2. reports[x.date] > 0 /\ journal[x.date] # NotBooked
          BY <3>1, <4>1 DEF BookedInv, Closing, x
        <4> QED
          BY <2>1, <2>2, <4>2
      <3> QED
        BY <2>1, <3>2, <3>3, <3>4, ClosingIsReached
    <2>4. ASSUME NEW d \in Dates, audit'[d] = "COMPLETED"
          PROVE  journal'[d] # NotBooked /\ reports'[d] > 0
      <3>1. CASE audit[d] = "COMPLETED"
        <4>1. journal[d] # NotBooked /\ reports[d] > 0
          BY <3>1 DEF BookedInv, CompletedIsBooked
        <4> QED
          BY <2>2, <4>1
      <3>2. CASE audit[d] # "COMPLETED"
        <4>1. x.pc = "complete" /\ d = x.date
          BY <2>1, <2>4, <3>2
          DEF Works, Marks, ChargesNoShow, PostsRooms, ChargesRoom, ClosesFolios, Archives,
              BooksNight, Completes, RollsDate, Breaks, CompletesNone, TypeOK
        <4>2. journal[d] # NotBooked /\ reports[d] > 0
          BY <4>1 DEF BookedInv, Closing
        <4> QED
          BY <2>2, <4>2
      <3> QED
        BY <3>1, <3>2
    <2>5. ASSUME NEW v \in Workers \ {w}
          PROVE  /\ wk'[v].pc \in Closing => reports'[wk'[v].date] > 0
                 /\ wk'[v].pc \in {"complete", "roll", "done"} => journal'[wk'[v].date] # NotBooked
      <3>1. wk'[v] = wk[v]
        BY <2>1
      <3>2. wk[v].pc \in Closing => wk[v].date \in Dates
        BY Working DEF Pcs
      <3>3. /\ wk[v].pc \in Closing => reports[wk[v].date] > 0
            /\ wk[v].pc \in {"complete", "roll", "done"} => journal[wk[v].date] # NotBooked
        BY DEF BookedInv
      <3> QED
        BY <2>2, <3>1, <3>2, <3>3 DEF Closing
    <2> HIDE DEF x, y
    <2> QED
      BY <2>3, <2>4, <2>5 DEF BookedInv, CompletedIsBooked, y
  <1> QED
    BY <1>1, <1>2, CalmOrWork

\* A stay that some folio bills for the date.
BilledIn(rows, g, d) == \E k \in Folios : rows[g][k][d] > 0

\* A stay the worker listed is billed for the date, or still to be looked at.
BilledInv ==
    \A w \in Workers :
        /\ wk[w].pc \in Posting =>
            \A g \in DOMAIN wk[w].listed : g \in wk[w].todo \/ Billed(g, wk[w].date)
        /\ wk[w].pc \in Cycles \cup {"journal", "complete"} =>
            \A g \in DOMAIN wk[w].listed : Billed(g, wk[w].date)

\* No worker has listed a stay in the beginning.
LEMMA BillsStart == Init => BilledInv
  BY DEF Init, BilledInv, Resting, Posting, Cycles

\* The stays a worker listed are reservations.
LEMMA ListedGuests ==
    ASSUME NEW x \in WorkerRow PROVE DOMAIN x.listed \subseteq Guests
  BY DEF WorkerRow, Listing

\* No bill is taken back.
LEMMA BillsStay ==
    ASSUME TypeOK, NEW w \in Workers, WorksOn(w), NEW g \in Guests, NEW d \in Dates, Billed(g, d)
    PROVE  BilledIn(room', g, d)
  <1>1. PICK k \in Folios : room[g][k][d] > 0
    BY DEF Billed, BilledIn
  <1>2. room[g][k][d] \in Nat
    BY DEF TypeOK
  <1>3. room' = room \/ ChargesRoom(wk[w], wk'[w])
    BY RowsOtherwiseStay DEF WorksOn
  <1>4. room'[g][k][d] > 0
    BY <1>1, <1>2, <1>3, RoomRow
  <1> QED
    BY <1>4 DEF Billed, BilledIn

\* A stay is struck off the list only once it is billed.
LEMMA BillsKept ==
    ASSUME TypeOK, BilledInv, Effect
    PROVE  BilledInv'
  <1>1. CASE Calm
    BY <1>1 DEF Calm, BilledInv, Billed, Posting, Cycles
  <1>2. ASSUME NEW w \in Workers, WorksOn(w) PROVE BilledInv'
    <2> DEFINE x == wk[w]
               y == wk'[w]
    <2>1. /\ \A v \in Workers \ {w} : wk'[v] = wk[v]
          /\ Works(x, y) /\ y.date = x.date /\ x.date \in Dates
          /\ x \in WorkerRow /\ y \in WorkerRow
      BY <1>2, WorksOnDate DEF WorksOn, RowMoves
    <2>2. \A g \in Guests, d \in Dates : Billed(g, d) => BilledIn(room', g, d)
      BY <1>2, BillsStay
    <2>3. ASSUME NEW v \in Workers \ {w}
          PROVE  /\ wk'[v].pc \in Posting =>
                    \A g \in DOMAIN wk'[v].listed :
                        g \in wk'[v].todo \/ BilledIn(room', g, wk'[v].date)
                 /\ wk'[v].pc \in Cycles \cup {"journal", "complete"} =>
                    \A g \in DOMAIN wk'[v].listed : BilledIn(room', g, wk'[v].date)
      <3>1. wk'[v] = wk[v]
        BY <2>1
      <3> SUFFICES ASSUME wk[v].pc \in Posting \cup Cycles \cup {"journal", "complete"}
                   PROVE  /\ wk[v].pc \in Posting =>
                            \A g \in DOMAIN wk[v].listed :
                                g \in wk[v].todo \/ BilledIn(room', g, wk[v].date)
                          /\ wk[v].pc \in Cycles \cup {"journal", "complete"} =>
                            \A g \in DOMAIN wk[v].listed : BilledIn(room', g, wk[v].date)
        BY <3>1 DEF Billed, BilledIn
      <3>2. wk[v].date \in Dates /\ wk[v] \in WorkerRow
        BY Working DEF Pcs, Closing
      <3>3. DOMAIN wk[v].listed \subseteq Guests
        BY <3>2, ListedGuests
      <3> QED
        BY <2>2, <3>2, <3>3 DEF BilledInv
    <2>4. /\ x.pc \in Posting => \A g \in DOMAIN x.listed : g \in x.todo \/ Billed(g, x.date)
          /\ x.pc \in Cycles \cup {"journal", "complete"} =>
                \A g \in DOMAIN x.listed : Billed(g, x.date)
          /\ DOMAIN x.listed \subseteq Guests
      BY <2>1, ListedGuests DEF BilledInv
    <2>5. /\ y.pc \in Posting =>
                \A g \in DOMAIN y.listed : g \in y.todo \/ BilledIn(room', g, x.date)
          /\ y.pc \in Cycles \cup {"journal", "complete"} =>
                \A g \in DOMAIN y.listed : BilledIn(room', g, x.date)
      <3> HIDE DEF x, y
      <3>1. CASE PostsRooms(x, y)
        BY <2>1, <2>2, <2>4, <3>1 DEF PostsRooms, Posting, Cycles
      <3>2. CASE ChargesRoom(x, y)
        <4>1. /\ y.pc = "rooms" /\ x.pc = "postRoom" /\ y.listed = x.listed
              /\ y.todo = x.todo \ {x.guest} /\ x.guest \in Guests
          BY <3>2 DEF ChargesRoom
        <4>2. BilledIn(room', x.guest, x.date)
          <5>1. x.folio \in Folios
            BY <3>2 DEF ChargesRoom
          <5>2. room'[x.guest][x.folio][x.date] = room[x.guest][x.folio][x.date] + 1
            BY <1>2, <3>2, <5>1, RoomRow DEF x, y
          <5>3. room[x.guest][x.folio][x.date] \in Nat
            BY <2>1, <4>1, <5>1 DEF TypeOK
          <5> QED
            BY <5>1, <5>2, <5>3 DEF Billed, BilledIn
        <4>3. \A g \in DOMAIN y.listed : g \in y.todo \/ BilledIn(room', g, x.date)
          BY <2>1, <2>2, <2>4, <4>1, <4>2 DEF Posting
        <4> QED
          BY <4>1, <4>3 DEF Posting, Cycles
      <3>3. CASE ClosesFolios(x, y) \/ Archives(x, y) \/ BooksNight(x, y)
        <4>1. /\ x.pc \in Cycles \cup {"journal"} /\ y.pc \notin Posting /\ y.listed = x.listed
          BY <3>3 DEF ClosesFolios, Archives, BooksNight, Cycles, Posting
        <4> QED
          BY <2>1, <2>2, <2>4, <4>1
      <3>4. CASE ~(\/ PostsRooms(x, y) \/ ChargesRoom(x, y) \/ ClosesFolios(x, y)
                   \/ Archives(x, y) \/ BooksNight(x, y))
        <4>1. y.pc \notin Posting \cup Cycles \cup {"journal", "complete"}
          BY <2>1, <3>4
          DEF Works, Marks, ChargesNoShow, Completes, RollsDate, Breaks, Marking, Posting, Cycles
        <4> QED
          BY <4>1
      <3> QED
        BY <3>1, <3>2, <3>3, <3>4
    <2>6. y.date = x.date
      BY <2>1
    <2>7. /\ y.pc \in Posting =>
                \A g \in DOMAIN y.listed : g \in y.todo \/ BilledIn(room', g, y.date)
          /\ y.pc \in Cycles \cup {"journal", "complete"} =>
                \A g \in DOMAIN y.listed : BilledIn(room', g, y.date)
      BY <2>5, <2>6 DEF Billed, BilledIn
    <2> HIDE DEF x, y
    <2> QED
      BY <2>3, <2>7 DEF BilledInv, Billed, BilledIn, y
  <1> QED
    BY <1>1, <1>2, CalmOrWork

-----------------------------------------------------------------------------
(* What the ledger holds, and how far the date has moved *)

\* The rows of a date depend on the charges of that date only.
LEMMA RowsStay ==
    ASSUME NEW d \in Dates,
           \A g \in Guests, k \in Folios : room'[g][k][d] = room[g][k][d],
           \A g \in Guests : noShow'[g][d] = noShow[g][d]
    PROVE  RowsOf(d)' = RowsOf(d)
  <1>1. [i \in Guests \X Folios |-> room'[i[1]][i[2]][d]]
            = [i \in Guests \X Folios |-> room[i[1]][i[2]][d]]
    OBVIOUS
  <1>2. [g \in Guests |-> noShow'[g][d]] = [g \in Guests |-> noShow[g][d]]
    OBVIOUS
  <1>3. RoomRows(d)' = RoomRows(d)
    BY <1>1 DEF RoomRows
  <1>4. NoShowRows(d)' = NoShowRows(d)
    BY <1>2 DEF NoShowRows
  <1> QED
    BY <1>3, <1>4 DEF RowsOf

\* As long as nothing went wrong, a booked date has been worked on to the end,
\* its job is not handed out again, and nothing is charged for it any more.
LedgerInv ==
    Undisturbed => \A d \in Dates : journal[d] # NotBooked =>
        /\ journal[d] = RowsOf(d)
        /\ job[d].state \notin {"none", "waiting"}
        /\ \A w \in Workers : wk[w] # Resting /\ wk[w].date = d =>
            wk[w].pc \in {"complete", "roll", "done"}

\* No date is booked in the beginning.
LEMMA LedgerStarts == Init => LedgerInv
  BY DEF Init, LedgerInv

\* Undisturbed after a step, the step was no mishap.
LEMMA UndisturbedBefore ==
    ASSUME TypeOK, QueueInv, Effect, UNCHANGED scene, Undisturbed'
    PROVE  /\ Undisturbed /\ LocksWereKept /\ Spared("crashes")
           /\ \A k \in Kinds : mishaps'[k] = mishaps[k] /\ mishaps[k] \in Nat
  <1>1. \A k \in Kinds : Spared(k)'
    BY DEF Undisturbed, Spared
  <1>2. \A k \in Kinds : Spared(k) /\ mishaps'[k] = mishaps[k]
    BY <1>1, WithinKept
  <1>3. scene.mishaps \in [Kinds -> Nat] /\ mishaps \in [Kinds -> Nat]
    BY AuditAssumption DEF TypeOK
  <1>4. mishaps = scene.mishaps
    BY <1>2, <1>3 DEF Spared
  <1> QED
    BY <1>2, <1>3, <1>4 DEF Undisturbed, LocksWereKept, Spared, Kinds

\* The work on a date: what it charges is charged before the date is booked.
LEMMA LedgerOfDate ==
    ASSUME TypeOK, QueueInv, LedgerInv, Effect, UNCHANGED scene, Undisturbed',
           NEW w \in Workers, WorksOn(w), NEW d \in Dates, journal'[d] # NotBooked
    PROVE  /\ journal'[d] = RowsOf(d)'
           /\ job'[d].state \notin {"none", "waiting"}
           /\ \A v \in Workers : wk'[v] # Resting /\ wk'[v].date = d =>
                wk'[v].pc \in {"complete", "roll", "done"}
  <1> DEFINE x == wk[w]
             y == wk'[w]
  <1>1. /\ Undisturbed /\ LocksWereKept
        /\ mishaps'["faults"] = mishaps["faults"] /\ mishaps["faults"] \in Nat
    BY UndisturbedBefore DEF Kinds
  <1>2. /\ \A v \in Workers \ {w} : wk'[v] = wk[v]
        /\ x # Resting /\ Works(x, y) /\ y.date = x.date /\ x.date \in Dates /\ job' = job
    BY WorksOnDate DEF WorksOn, RowMoves
  <1>3. journal[d] # NotBooked =>
            /\ journal[d] = RowsOf(d)
            /\ job[d].state \notin {"none", "waiting"}
            /\ \A v \in Workers : wk[v] # Resting /\ wk[v].date = d =>
                wk[v].pc \in {"complete", "roll", "done"}
    BY <1>1 DEF LedgerInv
  <1>4. RowsOf(d)' = RowsOf(d) \/ (x.date = d /\ x.pc \in {"nsPost", "postRoom"})
    <2>1. ASSUME ~(x.date = d /\ x.pc \in {"nsPost", "postRoom"})
          PROVE  RowsOf(d)' = RowsOf(d)
      <3>1. /\ room' = room \/ ChargesRoom(wk[w], wk'[w])
            /\ noShow' = noShow \/ ChargesNoShow(wk[w], wk'[w])
        BY <1>2, RowsOtherwiseStay
      <3>2. /\ ChargesRoom(wk[w], wk'[w]) => d # wk[w].date
            /\ ChargesNoShow(wk[w], wk'[w]) => d # wk[w].date
        BY <2>1 DEF ChargesRoom, ChargesNoShow
      <3>3. ASSUME NEW g \in Guests, NEW k \in Folios PROVE room'[g][k][d] = room[g][k][d]
        BY <3>1, <3>2, RoomRow
      <3>4. ASSUME NEW g \in Guests PROVE noShow'[g][d] = noShow[g][d]
        BY <3>1, <3>2, NoShowRow
      <3> QED
        BY <3>3, <3>4, RowsStay
    <2> QED
      BY <2>1
  <1>5. CASE journal[d] # NotBooked
    <2>1. journal'[d] = journal[d]
      BY <1>5, BooksStay
    <2>2. x.date = d => x.pc \in {"complete", "roll", "done"}
      BY <1>2, <1>3, <1>5
    <2>3. journal'[d] = RowsOf(d)'
      BY <1>3, <1>4, <1>5, <2>1, <2>2
    <2>4. ASSUME y.date = d PROVE y.pc \in {"complete", "roll", "done"}
      <3>1. x.pc \in {"complete", "roll", "done"}
        BY <1>2, <2>2, <2>4
      <3>2. Works(x, y)
        BY <1>2
      <3> HIDE DEF x, y
      <3> QED
        BY <1>1, <3>1, <3>2
        DEF Works, Marks, ChargesNoShow, PostsRooms, ChargesRoom, ClosesFolios, Archives,
            BooksNight, Completes, RollsDate, Breaks, Marking, Cycles
    <2> QED
      BY <1>2, <1>3, <1>5, <2>3, <2>4
  <1>6. CASE journal[d] = NotBooked
    <2>1. BooksNight(x, y) /\ x.date = d
      <3>1. journal' # journal
        BY <1>6
      <3>2. BooksNight(x, y)
        BY <1>2, <3>1
        DEF Works, Marks, ChargesNoShow, PostsRooms, ChargesRoom, ClosesFolios, Archives,
            Completes, RollsDate, Breaks, SameBooks
      <3>3. journal' = [journal EXCEPT ![x.date] =
                            IF journal[x.date] = NotBooked THEN RowsOf(x.date)
                            ELSE journal[x.date]]
        BY <3>2 DEF BooksNight
      <3> QED
        BY <1>2, <1>6, <3>2, <3>3 DEF TypeOK
    <2>2. journal'[d] = RowsOf(d)
      BY <1>6, <2>1 DEF BooksNight, TypeOK
    <2>3. RowsOf(d)' = RowsOf(d) /\ y.pc = "complete"
      BY <1>4, <2>1 DEF BooksNight
    <2>4. job[d].state = "active"
      BY <1>1, <1>2, <2>1 DEF QueueInv, LocksHeld
    <2>5. ASSUME NEW v \in Workers \ {w}, wk'[v] # Resting, wk'[v].date = d PROVE FALSE
      BY <1>1, <1>2, <2>1, <2>5, DatesApart
    <2> QED
      BY <1>2, <2>2, <2>3, <2>4, <2>5
  <1> QED
    BY <1>5, <1>6

\* Every step keeps booked dates as they were booked.
LEMMA LedgerKept ==
    ASSUME TypeOK, QueueInv, LedgerInv, Effect, UNCHANGED scene
    PROVE  LedgerInv'
  <1> SUFFICES ASSUME Undisturbed', NEW d \in Dates, journal'[d] # NotBooked
               PROVE  /\ journal'[d] = RowsOf(d)'
                      /\ job'[d].state \notin {"none", "waiting"}
                      /\ \A w \in Workers : wk'[w] # Resting /\ wk'[w].date = d =>
                            wk'[w].pc \in {"complete", "roll", "done"}
    BY DEF LedgerInv
  <1>1. /\ Undisturbed /\ LocksWereKept /\ Spared("crashes")
        /\ mishaps'["locks"] = mishaps["locks"] /\ mishaps["locks"] \in Nat
        /\ mishaps'["crashes"] = mishaps["crashes"] /\ mishaps["crashes"] \in Nat
    BY UndisturbedBefore DEF Kinds
  <1>2. CASE \E w \in Workers : WorksOn(w)
    BY <1>2, LedgerOfDate
  <1>3. CASE Calm
    <2>1. journal[d] # NotBooked /\ journal'[d] = journal[d] /\ RowsOf(d)' = RowsOf(d)
      BY <1>3, RowsStay DEF Calm
    <2>2. /\ journal[d] = RowsOf(d)
          /\ job[d].state \notin {"none", "waiting"}
          /\ \A w \in Workers : wk[w] # Resting /\ wk[w].date = d =>
                wk[w].pc \in {"complete", "roll", "done"}
      BY <1>1, <2>1 DEF LedgerInv
    <2>3. CASE OutsideEffect
      BY <2>1, <2>2, <2>3 DEF OutsideEffect, Shown
    <2>4. CASE QueueEffect
      <3>1. job[d].state = "active" => job[d].lock # Nobody
        BY <1>1 DEF QueueInv, NoneStalls
      <3>2. job'[d] = job[d] \/ job'[d].state = job[d].state
        BY <1>1, <2>2, <2>4, <3>1 DEF QueueEffect
      <3> QED
        BY <2>1, <2>2, <2>4, <3>2 DEF QueueEffect
    <2>5. ASSUME NEW v \in Workers, NEW e \in Dates, TakesJob(v, e)
          PROVE  /\ job'[d].state \notin {"none", "waiting"}
                 /\ \A w \in Workers : wk'[w] # Resting /\ wk'[w].date = d =>
                        wk'[w].pc \in {"complete", "roll", "done"}
      <3>1. e # d
        BY <2>2, <2>5 DEF TakesJob
      <3> QED
        BY <2>2, <2>5, <3>1 DEF TakesJob
    <2>6. ASSUME NEW v \in Workers, ComesToRest(v)
          PROVE  /\ job'[d].state \notin {"none", "waiting"}
                 /\ \A w \in Workers : wk'[w] # Resting /\ wk'[w].date = d =>
                        wk'[w].pc \in {"complete", "roll", "done"}
      <3>1. job'[d].state \notin {"none", "waiting"}
        BY <2>2, <2>6, JobAtRest
      <3> QED
        BY <2>2, <2>6, <3>1 DEF ComesToRest
    <2> QED
      BY <1>2, <2>1, <2>2, <2>3, <2>4, <2>5, <2>6 DEF Effect
  <1> QED
    BY <1>2, <1>3, CalmOrWork

\* The dates that were rolled past: their job is completed or about to be.
Rolled == {d \in Dates : \/ job[d].state = "completed"
                         \/ \E w \in Workers : wk[w].pc = "done" /\ wk[w].date = d}

\* Nobody has died and no lock has run out.
Unbroken == \A kind \in {"crashes", "locks"} : mishaps[kind] = scene.mishaps[kind]

\* Dates rolled past are booked; unless a worker died or a lock ran out, each of
\* them has moved the hotel's date once.
RollInv ==
    /\ \A d \in Rolled : journal[d] # NotBooked
    /\ Unbroken => today = Cardinality(Rolled) + 1

\* The hotel starts on its first date, with no date rolled past.
LEMMA RollsStart == Init => RollInv
  <1> SUFFICES ASSUME Init PROVE RollInv
    OBVIOUS
  <1>1. Rolled = {}
    BY DEF Init, Rolled, Resting
  <1> QED
    BY <1>1, FS_EmptySet DEF Init, RollInv

\* The date moves exactly when one more date is rolled past.
LEMMA RolledKept ==
    ASSUME TypeOK, QueueInv, Effect, UNCHANGED scene, Unbroken'
    PROVE  /\ Unbroken
           /\ \/ Rolled' = Rolled /\ today' = today
              \/ \E w \in Workers : /\ WorksOn(w) /\ RollsDate(wk[w], wk'[w])
                                    /\ wk[w].date \notin Rolled
                                    /\ Rolled' = Rolled \cup {wk[w].date}
  <1>1. /\ Unbroken /\ LocksWereKept
        /\ mishaps'["crashes"] = mishaps["crashes"] /\ mishaps["crashes"] \in Nat
    <2>1. \A k \in {"crashes", "locks"} : k \in Kinds /\ Spared(k)'
      BY DEF Kinds, Spared, Unbroken
    <2>2. \A k \in {"crashes", "locks"} : Spared(k) /\ mishaps'[k] = mishaps[k]
      BY <2>1, WithinKept
    <2>3. mishaps["crashes"] \in Nat
      BY DEF TypeOK, Kinds
    <2> QED
      BY <2>2, <2>3 DEF Spared, Unbroken, LocksWereKept
  <1>2. Resting.pc # "done"
    BY DEF Resting
  <1>3. CASE OutsideEffect
    BY <1>1, <1>3 DEF OutsideEffect, Shown, Rolled
  <1>4. CASE QueueEffect
    <2>1. Rolled' = Rolled /\ today' = today
      BY <1>4 DEF QueueEffect, Rolled, books
    <2> QED
      BY <1>1, <2>1
  <1>5. ASSUME NEW w \in Workers, NEW d \in Dates, TakesJob(w, d)
        PROVE  Rolled' = Rolled /\ today' = today
    <2>1. \A e \in Dates : job'[e].state = "completed" <=> job[e].state = "completed"
      BY <1>5 DEF TakesJob
    <2>2. \A v \in Workers : \/ wk'[v] = wk[v]
                             \/ wk'[v].pc # "done" /\ wk[v].pc # "done"
      BY <1>2, <1>5 DEF TakesJob
    <2>3. Rolled' = Rolled
      BY <2>1, <2>2 DEF Rolled
    <2> QED
      BY <1>5, <2>3 DEF TakesJob, books
  <1>6. ASSUME NEW w \in Workers, ComesToRest(w)
        PROVE  Rolled' = Rolled /\ today' = today
    <2> DEFINE e == wk[w].date
    <2>1. /\ wk[w] # Resting /\ e \in Dates
          /\ \A v \in Workers : wk'[v] = IF v = w THEN Resting ELSE wk[v]
          /\ job[e].state = "active" /\ job[e].lock = w
      BY <1>1, <1>6, WorksOnDate DEF ComesToRest, QueueInv, LocksHeld
    <2>2. job'[e].state = IF wk[w].pc = "done" THEN "completed" ELSE "failed"
      BY <1>1, <1>6, <2>1 DEF ComesToRest
    <2>3. \A d \in Dates \ {e} : job'[d] = job[d]
      BY <1>1, <1>6 DEF ComesToRest
    <2>4. \A v \in Workers \ {w} : wk[v].pc = "done" => wk[v].date # e
      BY <1>1, <1>2, <2>1, DatesApart
    <2> HIDE DEF e
    <2>5. e \in Rolled' <=> e \in Rolled
      BY <1>2, <2>1, <2>2, <2>4 DEF Rolled, e
    <2>6. \A d \in Dates \ {e} : d \in Rolled' <=> d \in Rolled
      BY <1>2, <2>1, <2>3 DEF Rolled, e
    <2>7. Rolled' = Rolled
      BY <2>5, <2>6 DEF Rolled
    <2> QED
      BY <1>6, <2>7 DEF ComesToRest
  <1>7. ASSUME NEW w \in Workers, WorksOn(w)
        PROVE  \/ Rolled' = Rolled /\ today' = today
               \/ /\ RollsDate(wk[w], wk'[w]) /\ wk[w].date \notin Rolled
                  /\ Rolled' = Rolled \cup {wk[w].date}
    <2> DEFINE x == wk[w]
               y == wk'[w]
    <2>1. /\ \A v \in Workers \ {w} : wk'[v] = wk[v]
          /\ x # Resting /\ Works(x, y) /\ y.date = x.date /\ x.date \in Dates /\ job' = job
      BY <1>7, WorksOnDate DEF WorksOn, RowMoves
    <2>2. CASE RollsDate(x, y)
      <3>1. x.pc = "roll" /\ y.pc = "done"
        BY <2>2 DEF RollsDate
      <3>2. job[x.date].state = "active"
        BY <1>1, <2>1 DEF QueueInv, LocksHeld
      <3>3. \A v \in Workers : wk[v].pc = "done" => wk[v].date # x.date
        BY <1>1, <1>2, <2>1, <3>1, DatesApart
      <3>4. x.date \notin Rolled
        BY <3>2, <3>3 DEF Rolled
      <3>5. Rolled' = Rolled \cup {x.date}
        BY <2>1, <3>1 DEF Rolled
      <3> QED
        BY <2>2, <3>4, <3>5
    <2>3. CASE ~RollsDate(x, y)
      <3>1. x.pc # "done" /\ y.pc # "done" /\ today' = today
        BY <2>1, <2>3
        DEF Works, Marks, ChargesNoShow, PostsRooms, ChargesRoom, ClosesFolios, Archives,
            BooksNight, Completes, Breaks, Marking, Cycles, SameBooks
      <3>2. Rolled' = Rolled
        BY <2>1, <3>1 DEF Rolled
      <3> QED
        BY <3>1, <3>2
    <2> QED
      BY <2>2, <2>3
  <1> QED
    BY <1>1, <1>3, <1>4, <1>5, <1>6, <1>7 DEF Effect

\* Every step keeps the count of dates rolled past.
LEMMA RollsKept ==
    ASSUME TypeOK, QueueInv, BookedInv, RollInv, Effect, UNCHANGED scene
    PROVE  RollInv'
  <1>1. ASSUME NEW d \in Dates, journal[d] # NotBooked PROVE journal'[d] # NotBooked
    BY <1>1, CalmOrWork, BooksStay DEF Calm
  <1>2. ASSUME NEW d \in Rolled' PROVE journal'[d] # NotBooked
    <2>1. d \in Dates
      BY DEF Rolled
    <2>2. CASE \E w \in Workers : wk'[w].pc = "done" /\ wk'[w].date = d
      BY <2>2, BooksKept DEF BookedInv
    <2>3. CASE job'[d].state = "completed"
      <3>1. CASE job[d].state = "completed"
        BY <1>1, <2>1, <3>1 DEF RollInv, Rolled
      <3>2. CASE job[d].state # "completed"
        <4>1. PICK w \in Workers : ComesToRest(w)
          BY <2>1, <2>3, <3>2
          DEF Effect, OutsideEffect, QueueEffect, TakesJob, WorksOn, Shown
        <4>2. wk[w].pc = "done" /\ wk[w].date = d
          BY <2>1, <2>3, <3>2, <4>1, JobAtRest
        <4> QED
          BY <1>1, <2>1, <4>2 DEF BookedInv
      <3> QED
        BY <3>1, <3>2
    <2> QED
      BY <2>2, <2>3 DEF Rolled
  <1>3. ASSUME Unbroken' PROVE today' = Cardinality(Rolled') + 1
    <2>1. Unbroken /\ today = Cardinality(Rolled) + 1
      BY <1>3, RolledKept DEF RollInv
    <2>2. IsFiniteSet(Rolled) /\ Cardinality(Rolled) \in Nat
      <3>1. Rolled \subseteq Dates /\ IsFiniteSet(Dates)
        BY AuditAssumption DEF Rolled
      <3> QED
        BY <3>1, FS_Subset, FS_CardinalityType
    <2>3. CASE Rolled' = Rolled /\ today' = today
      BY <2>1, <2>3
    <2>4. CASE \E w \in Workers : /\ WorksOn(w) /\ RollsDate(wk[w], wk'[w])
                                  /\ wk[w].date \notin Rolled
                                  /\ Rolled' = Rolled \cup {wk[w].date}
      <3>1. PICK w \in Workers : /\ RollsDate(wk[w], wk'[w]) /\ wk[w].date \notin Rolled
                                 /\ Rolled' = Rolled \cup {wk[w].date}
        BY <2>4
      <3>2. today' = today + 1
        BY <3>1 DEF RollsDate
      <3>3. Cardinality(Rolled') = Cardinality(Rolled) + 1
        BY <2>2, <3>1, FS_AddElement
      <3> QED
        BY <2>1, <2>2, <3>2, <3>3
    <2> QED
      BY <1>3, <2>3, <2>4, RolledKept
  <1> QED
    BY <1>2, <1>3 DEF RollInv

-----------------------------------------------------------------------------
(* The invariant of the night audit, and what it says *)

\* The inductive invariant.
NightInv ==
    TypeOK /\ QueueInv /\ RoomsInv /\ NoShowsInv /\ BookedInv /\ BilledInv /\ LedgerInv /\ RollInv

\* It holds in the beginning.
LEMMA NightStarts == Init => NightInv
  BY InitTyped, QueueStarts, RoomsStart, NoShowsStart, BooksStart, BillsStart, LedgerStarts,
     RollsStart
  DEF NightInv

\* Every step of the program keeps it.
LEMMA NightKept ==
    ASSUME NightInv, Next, UNCHANGED scene
    PROVE  NightInv'
  <1>1. Effect
    BY StepEffects DEF NightInv
  <1>2. TypeOK' /\ QueueInv'
    BY <1>1, StepTyped, QueueKept DEF NightInv
  <1>3. RoomsInv' /\ NoShowsInv'
    BY <1>1, RoomsKept, NoShowsKept DEF NightInv
  <1>4. BookedInv' /\ BilledInv'
    BY <1>1, BooksKept, BillsKept DEF NightInv
  <1>5. LedgerInv' /\ RollInv'
    BY <1>1, LedgerKept, RollsKept DEF NightInv
  <1> QED
    BY <1>2, <1>3, <1>4, <1>5 DEF NightInv

\* A step that changes nothing keeps it.
LEMMA NightStutters ==
    ASSUME NightInv, UNCHANGED <<vars, scene>> PROVE NightInv'
  <1>1. /\ today' = today /\ audit' = audit /\ posted' = posted /\ job' = job /\ wk' = wk
        /\ guest' = guest /\ room' = room /\ noShow' = noShow /\ reports' = reports
        /\ journal' = journal /\ openShift' = openShift /\ call' = call /\ mishaps' = mishaps
        /\ scene' = scene
    BY DEF vars
  <1>2. TypeOK' /\ QueueInv'
    BY <1>1
    DEF NightInv, TypeOK, QueueInv, Within, Asked, LocksHeld, NoneStalls, LocksWereKept, Spared
  <1>3. RoomsInv' /\ NoShowsInv'
    BY <1>1
    DEF NightInv, RoomsInv, NoShowsInv, LocksWereKept, OneAuditAtATime, AlreadyPosted
  <1>4. BookedInv' /\ BilledInv'
    BY <1>1 DEF NightInv, BookedInv, CompletedIsBooked, BilledInv, Billed
  <1>5. LedgerInv'
    <2>1. \A d \in Dates : RowsOf(d)' = RowsOf(d)
      BY <1>1, RowsStay
    <2> QED
      BY <1>1, <2>1 DEF NightInv, LedgerInv, Undisturbed
  <1>6. RollInv'
    <2>1. Rolled' = Rolled
      BY <1>1 DEF Rolled
    <2> QED
      BY <1>1, <2>1 DEF NightInv, RollInv, Unbroken
  <1> QED
    BY <1>2, <1>3, <1>4, <1>5, <1>6 DEF NightInv

\* The night audit keeps its invariant.
THEOREM NightAlways == Spec => []NightInv
  <1>1. NightInv /\ [Next /\ UNCHANGED scene]_<<vars, scene>> => NightInv'
    BY NightKept, NightStutters
  <1> QED
    BY <1>1, NightStarts, PTL DEF Spec

\* However audits fail, workers die and jobs are handed out again: as long as
\* locks are renewed in time, processRoomPosting charges a folio once a night.
THEOREM RoomsChargedOnce == Spec => []FolioChargedOnce
  <1>1. NightInv => FolioChargedOnce
    BY DEF NightInv, RoomsInv, FolioChargedOnce
  <1> QED
    BY <1>1, NightAlways, PTL

\* As long as besides no two audits run side by side, markNoShow charges a
\* reservation at most once, over all nights.
THEOREM NoShowsPayOnce == Spec => []NoShowOnce
  <1>1. NightInv => NoShowOnce
    BY DEF NightInv, NoShowsInv, NoShowOnce
  <1> QED
    BY <1>1, NightAlways, PTL

\* A COMPLETED night is archived and in the general ledger, whatever went wrong.
THEOREM CompletedNightsAreBooked == Spec => []CompletedIsBooked
  <1>1. NightInv => CompletedIsBooked
    BY DEF NightInv, BookedInv
  <1> QED
    BY <1>1, NightAlways, PTL

\* The journal entry of a COMPLETED night that nothing disturbed has every
\* charge of the night.
THEOREM LedgersAreComplete == Spec => []LedgerIsComplete
  <1>1. NightInv => LedgerIsComplete
    BY DEF NightInv, BookedInv, CompletedIsBooked, LedgerInv, LedgerIsComplete, RowsOf
  <1> QED
    BY <1>1, NightAlways, PTL

\* The hotel's date never runs ahead of the audits, unless a worker died or a
\* lock ran out.
THEOREM DatesRollOnce == Spec => []RollsOncePerAudit
  <1>1. ASSUME NightInv PROVE RollsOncePerAudit
    <2> DEFINE B == {d \in Dates : journal[d] # NotBooked}
    <2>1. Rolled \subseteq B /\ IsFiniteSet(B)
      <3>1. B \subseteq Dates /\ IsFiniteSet(Dates)
        BY AuditAssumption
      <3> QED
        BY <1>1, <3>1, FS_Subset DEF NightInv, RollInv, Rolled
    <2>2. Cardinality(Rolled) <= Cardinality(B) /\ Cardinality(Rolled) \in Nat
      BY <2>1, FS_Subset, FS_CardinalityType
    <2>3. Unbroken => today = Cardinality(Rolled) + 1
      BY <1>1 DEF NightInv, RollInv
    <2>4. Cardinality(B) \in Nat
      BY <2>1, FS_CardinalityType
    <2> HIDE DEF B
    <2>5. Unbroken => today - 1 <= Cardinality(B)
      BY <2>2, <2>3, <2>4
    <2> QED
      BY <2>5 DEF RollsOncePerAudit, Unbroken, B
  <1> QED
    BY <1>1, NightAlways, PTL

\* completeAudit is reached only when every stay that was listed is billed.
THEOREM CompletionMeansCharged == Spec => CompletedMeansCharged
  <1>1. ASSUME NightInv, NEW w \in Workers, wk[w].pc = "complete",
               NEW g \in DOMAIN wk[w].listed
        PROVE  Billed(g, wk[w].date)
    BY <1>1 DEF NightInv, BilledInv
  <1>2. NightInv /\ [Next /\ UNCHANGED scene]_<<vars, scene>> =>
            [\A w \in Workers : wk[w].pc = "complete" /\ wk'[w].pc = "roll" =>
                \A g \in DOMAIN wk[w].listed : Billed(g, wk[w].date)]_vars
    BY <1>1
  <1> QED
    BY <1>2, NightAlways, PTL DEF Spec, CompletedMeansCharged

=============================================================================
