# PURA PMS in TLA+

A verification project for PURA PMS, a hotel property-management system: a
NestJS API over PostgreSQL (through Prisma), a BullMQ queue for the night audit,
and a Next.js client. The specifications cover the parts where money, rooms and
time meet concurrency: the guest ledger and the shifts that reconcile it, the
night audit that charges it and moves the hotel's date, the settlement of folios
(city ledger, card holds, tax invoices, journal), reservations with rooms,
housekeeping and group blocks, rates and yield, the desk's small services with
their hardware jobs, the page on which guests check themselves in, the steps in
which a clerk makes a reservation, and the desk's screens with their cached lists.

Paths below are relative to `apps/api/src/` unless they start with `docs/` or
`packages/`.

## 1. The system

### Processes and what they share

* **API processes.** Each HTTP call runs one service method. The method awaits a
  handful of queries, and other calls run between any two of them. Nothing locks:
  services read, check, and later write. Only `prisma.$transaction` groups writes,
  at PostgreSQL's default level, READ COMMITTED, and the checks usually happen
  before it opens.
* **Database rows** are the only state shared by the calls.
  `packages/database/prisma/schema.prisma` gives the columns and the unique
  indexes, which do refuse duplicates (folio number, shift number, one audit per
  property and date, one journal entry per property, date and source).
* **The queue.** `startAudit` adds a job under an id made of property and date.
  Each API process also runs a worker. BullMQ gives a job to a worker under a lock
  that must be renewed, hands a job whose lock ran out to a worker once more, keeps
  finished jobs, and ignores an `add` whose id it still holds.
* **The front desk** posts, voids, checks in and out, opens and closes shifts,
  at any time, during the audit included.
* **Browsers** keep state of their own: the self check-in page (phone and kiosk), the
  four steps of a new reservation, the panel that takes a hardware job to the agent
  that runs on the desk's computer, and the lists the desk's screens show, in TanStack
  Query's cache or in a page's own state. Their calls may fail, be lost or be answered in
  any order, and what a screen shows may be older than what the API has.

### Components

| component | state | operations | hard because | correct means | module |
|---|---|---|---|---|---|
| folios | Folio, FolioWindow, FolioTransaction | create, post, void, checkout, closeAsInterim, reopen, setCreditLimit, setArAccount | balances kept twice beside the rows; every check is read before the write | balances equal rows; a void is a mirrored correction; the ledger is an append-only journal | `FolioLedger`, `LedgerContract` |
| shifts | Shift | open, close, approve, handover | shares rows with folios and nothing else; unconditional writes after stale reads | a row belongs to its writer's shift; expected cash equals rows; balanced means justified; a handover loses nothing | `CashierShifts` |
| night audit | NightAudit, AuditError, ReportArchive, Property.businessDate, the job | startAudit, processNoShows, processRoomPosting, processInterimFolios, report, completeAudit, rollBusinessDate | crash, rerun, stalled job, two workers, concurrent front desk | no double charge; completed means charged and booked; one roll per audit; an audit ends | `NightAudit` |
| ar-accounts | ARAccount, Invoice, InvoicePayment | create, update, transfer, allocatePayment | a balance read long before it is posted; `paidAmount` written as a sum | account is invoices less payments; a transfer settles the folio; no invoice is overpaid | `Settlement` |
| card-preauths | CardPreauth | create, increment, release, capture | capture races release and capture | a hold is charged once, on a folio of its own reservation, and a released one never | `Settlement` |
| tax-invoices | TaxInvoice | issue, void | check outside the transaction | one live tax invoice per folio | `Settlement` |
| financial | JournalEntry, GLAccount | postForBusinessDate; reports read | the journal is read before its transaction; voids; signs | trial balance is zero; the books follow the folios | `Settlement`, `NightAudit` |
| reservations | Reservation, ReservationStay | create, update, cancel, markNoShow, checkIn, checkOut, moveRoom, walk | whole and split stays are looked up in two ways; availability is checked before the insert; several writes per call | no room twice for a night; segments tile the stay; a guest who left has left | `FrontOffice`, `NightAudit` |
| rooms, housekeeping | Room | create, edit, updateStatus, remove, getAvailability, clean, inspect, guest requests | written by check-in, check-out, moves and housekeepers | a room is READY only after cleaning and inspection, and what dirties it sends it back; what is offered can be booked | `FrontOffice` |
| blocks | RoomBlock | create, update, attach, detach, release, release on reading | pickup counted before the write | pickup never exceeds the allotment | `FrontOffice` |
| rates, yield | the rate tree, YieldRecommendation | create, update with cascade, generate, apply, dismiss | a recursion over the database without a transaction | children follow parents; no rate derives from itself | `Rates` |
| hardware-bridge | HardwareJob, the browser's panel, the agent | createJob, completeJob, failJob, simulateJob | client retries with a key; lost answers | one job per key; logged completed means done | `GuestServices` |
| registration cards, digital keys, wake-up calls, TM.30, lost and found, complaints, feedback, messages | one status each | draft/sign/void, issue/revoke, ... | read then write, two calls race | no status is reached around the one before it; a generation covers whom it found | `GuestServices` |
| mobile check-in, kiosk | the page's React state | lookup, rooms, select, check in, reset | answers in any order, lost connections, two devices | success is real; controls come back | `SelfService` |
| new reservation (browser) | the wizard's React state | options of the stay, dates, rooms, next, back, submit | options exclude one another, lists of rooms come late | what is sent passes the API's checks; its total is the API's | `BookingWizard` |
| the desk's screens (browser) | the cached list, the calls under way, online or not | each panel's buttons and forms, invalidation, reload, reconnect | a button is shown by a status read earlier; two desks; answers dropped, or come late | a refusal is explained by somebody else's change; what a clerk has done she sees | `StaffScreens`, `StaffPages`, `Workstation` |
| partner hotels, exchange rates | one status each | create, edit, (de)activate | shown from a cached list | as above | `StaffScreens`, `Workstation` |
| guests, properties, room types, rooms, codes as pages | single rows, "in use" or not | create, edit, delete, blacklist | read by hand, no answer dropped | as above | `StaffPages`, `Workstation` |
| portal | none | reads a reservation and its folio | | | not modelled |
| users, auth | single rows, a token | CRUD, login | | | not modelled |
| prisma, logger, app | none | wiring | | | not modelled |

How they meet: reservations create folios on check-in; everything that posts goes
through the ledger's `persistPostingLines` and the lookup of an open shift, so
`CashierShifts` and `Settlement` EXTEND `FolioLedger`; the night audit lists
reservations, charges folios and asks the journal for an entry; blocks and room
status follow reservations, so one module holds the three; yield writes rates
through `updateRate`; registration cards ask hardware-bridge for a job; the self
check-in page goes through mobile-check-in or kiosk to reservations. `Workstation` puts
one screen in front of an API that takes or refuses a call by the row's status, and
leaves races among the API's calls to the modules of the services. The queue and
the agent at the desk are the two partners outside the database.

## 2. How the code is modelled

* **A call is a record in flight.** `req[r]`, `desk[d]`, `call[c]` and `wk[w]`
  hold what a handler has read so far. Each database round trip whose result or
  effect another call could change is one action, and everything may happen
  between two actions. That is where the stale reads are.
* **A transaction commits in one action**, because PostgreSQL makes its writes
  visible together. An `increment` in it adds to what is there at commit; a value
  computed before it is written as computed.
* **Unique indexes are guards** of the inserting action. The refused call ends
  by `Fail`.
* **A check that throws** is a handler that goes no further; `Fail` (`FailCall`,
  `StartFails`) ends it with no trace. The night audit's worker is different: its
  errors are recorded, and they have actions of their own.
* **Data are abstracted to what a property can tell apart.** Money is small
  integers; a posting is a sequence of priced lines (what `resolvePostingLines`
  returns); timestamps, references, remarks and reason codes are left out.

### FolioLedger (`folios/folios.service.ts` and helpers)

State: `folio` (number to row), `winbal` (FolioWindow.balance), `trx` (rows in
insertion order), `req` (handlers), and two tables written elsewhere, `shift` and
`account`. A folio is its number, since the code numbers folios by counting them.

| call | actions |
|---|---|
| create | `CreateRead` (count), `CreateCommit` (insert) |
| postTransaction | `PostRead` (folio open?), `PostResolveShift`, `PostCheckCredit`, `PostCommit` |
| voidTransaction | `VoidRead` (already void?), `VoidResolveShift`, `VoidCommit` |
| checkout, closeAsInterim | `CheckoutRead` / `InterimRead`, `CloseCommit` |
| reopen | `ReopenRead`, `ReopenCommit` |
| setCreditLimit, setArAccount | `SetCreditLimit`; `SetArRead`, `SetArCommit` |

The whole `$transaction` of a posting is `PostCommit`: rows, window and folio.
`VoidCommit` writes a correction, flags the original and moves both balances, and
like the code it neither looks at the folio's status nor at the flag again.
Not modelled: how a package is split and taxed, cash in a foreign currency, and
the migration that adds missing windows. The credit-limit warning that a posting
returns changes nothing and is left out; the same limit blocks a checkout and is in.

`LedgerContract` is what an auditor relies on: an append-only list of facts (folio,
window, code, amount, sign, writer, shift) and per folio a balance that moves by
exactly what is appended. `FolioLedger` implements it with `entries <- Facts`,
`balance <- Balances` (property `ImplementsContract`): neither a void flag nor any
status is a fact, and no row's facts ever change.

### CashierShifts (`shifts/`), composed with FolioLedger

EXTENDS `FolioLedger`, gives `shift` its real writers and keeps the ledger's calls
that meet a shift (create, post, void). One property, one business date.

| call | actions |
|---|---|
| open | `OpenCheck`, `OpenCount`, `OpenCreate` |
| close | `CloseRead`, `CloseLoad` (sum of the cash rows), `CloseShift` (unconditional) |
| approve | `ApproveRead`, `ApproveCommit` (unconditional) |
| handover | `HandoverRead` (before the transaction), `HandoverCheck`, `HandoverLoad`, `HandoverCommit` |

`handover` runs its check, its sum and its writes in one transaction; under READ
COMMITTED each reads what others committed meanwhile, so the reads are separate
actions and the two writes are one.

### NightAudit (`night-audit/`, with markNoShow, checkIn, checkOut, journals)

State: `today`, `audit` and `posted` (the NightAudit row), `job` (BullMQ), `wk` (a
worker's program counter and lists), `guest` (reservation status and folios),
`room` and `noShow` (charge rows per folio and date), `reports`, `journal`,
`openShift`, `call`, and `mishaps`, which bounds what goes wrong.

* `StartRead`, `StartCount`, `StartUpsert`, `StartAdd`: startAudit, with the
  refusal by an open shift and an error at any await.
* `TakeJob`, `Stalled`, `LoseLock`, `Crash`, `FinishJob`: BullMQ as the code uses
  it. The queue is registered without options, so there are no retries, finished
  jobs are kept, and a stalled job is handed out once more. These definitions stand
  for a library and are marked external in `PROJECT.json`.
* `NoShow*`, `ListRooms`, `RoomCheck`, `RoomPost`, `RoomTally`, `ListInterim`,
  `InterimClose`, `InterimOpen`, `InterimNote`, `Report`, `BookJournal`,
  `Complete`, `Roll`: the processor, one action per write, with `Fault` for a
  query that throws, `RecordError` for the catch block and `RoomConflict` and
  `InterimConflict` for a folio the front desk settled meanwhile. markNoShow's
  question whether the reservation paid already and its posting are two actions,
  `NoShowLook` and `NoShowCharge`, like the two round trips in the code.
* `CheckIn*`, `CheckOut`, `Settle`, `OpenShift`, `CloseShift`: the front desk.

`folios[0]` of an unordered query is a choice of any folio listed (`RoomCheck`'s
`k`). Guests in `Extended` are billed by the week or month; `CycleEnds` are the
dates on which their cycle ends, for all of them alike. Not modelled here: voids
of the audit's charges, folios opened by hand, the race for a folio number (it is
in `FolioLedger`; here it is one of the faults), a second property, the two round
trips inside `rollBusinessDate`, and split stays.

### Settlement (`ar-accounts/`, `card-preauths/`, `tax-invoices/`, `financial/journals`), composed with FolioLedger

EXTENDS `FolioLedger`; its Next holds every call of the ledger as well. New state:
`known` and `invoice`, `payment` (city ledger; the account's balance is the
ledger's `account`), `hold`, `taxInvoice`, `entry` (one journal entry per source)
and `gl` (account balances).

| call | actions |
|---|---|
| accounts | `CreateAccount`, `UpdateAccount` |
| transfer | `TransferRead`, `TransferLoad` (the balance that will be posted), `TransferCheck`, `TransferShift`, `TransferCommit` |
| allocatePayment | `AllocateRead` (what was paid so far), `AllocateCommit` |
| hold | `CreateHold`; `IncrementRead/Commit`; `ReleaseRead/Commit`; `CaptureRead`, `CaptureLoad`, `CaptureShift`, `CaptureCommit` |
| tax invoice | `IssueRead` (sum of the charges), `IssueCheck`, `IssueCommit`; `VoidTaxRead/Commit` |
| postForBusinessDate | `JournalRead` (lines of all rows that are not void), `JournalCommit` (entry and account balances) |

A journal line follows the type of the row's code, not its sign; `BuildLines` keeps that.
After a void the journal therefore leaves the original out, as it is void, and books the
correction as if it were another charge: a debit of the guests' account, although the
correction took the charge back. `BooksFollowFolios` is stated for the time in which nothing
was voided. `scene.holdsInTurn` says that of two calls on one hold the second begins when the
first has ended; other calls go on beside them. Lines posted by hand may have the code of card
payments, which the desk's payment dialog offers (`post-payment-dialog.tsx:63`). A tax
invoice's lines are their sum; addresses, numbers and dates are left out.

### FrontOffice (`reservations/`, `rooms/`, `housekeeping/`, `blocks/`)

State: `today`, `reservation` (rows with their segments, `stays`), `room` (status,
stage, guest request), `block`, `req`. `RoomsAvailable` is `assertRoomsAvailable`
with its two lookups: header windows (`HeaderConflict`, reservations without
segments) and segment windows (`SegmentConflict`); `Available` is the different one
of `getAvailability`. An update is a record of the fields given (`Changes`), and
`UpdateData` is what the code writes of it. What each check-in, check-out or move
writes to the reservation and to the room are separate actions where the code
awaits in between; `Fail` ends a call after any of them. `FindBlock` releases a
block past its cutoff, which is what reading a block does. The guest's totals and
all prices are left out; the clock's date and the business date are one.

### Rates (`rates/`, `yield/`)

State: `rate` (parent, mode, value, amount), `recommendation`, `req`, and a history
variable `stale` for the rates a cascade that stopped has not reached. The cascade is
a recursion over the database: a call carries a stack of frames, and each read of
the children (`CascadeRead`), each write of one child (`CascadeWrite`) and each
return (`CascadeUp`) is an action; a negative amount throws (`CascadeThrows`).
`GenerateDay` chooses any occupancy and competitor's amount and applies
`RecommendAmount`. Money is in whole units and rounds as the code rounds cents.

### GuestServices (hardware jobs and the desk's small services)

One table `row` of all kinds, with the calls that wrote each row (`steps`, the
columns signedAt, submittedAt, claimedAt, ...). `Take` and `WriteStatus` are the read and
the write of every status change; an operation is named with the statuses it asks
for and the one it writes. `PanelJob`, `FindJob`, `InsertJob`, `HearJob`, `RunLocal`,
`CompleteRead`, `CompleteWrite`, `FailRead`, `FailWrite` follow a hardware job
through the browser: the agent may do the work, refuse it, or do it and lose the
answer; the API's answer may be lost as well. Registration cards and TM.30 reports
have actions of their own, because unique indexes hold their calls apart.

### BookingWizard (`apps/web`, a new reservation)

State: the step, the fields of the first step, the rooms offered, the room and second room
chosen, the lists of rooms asked for. Each control is an action with what its handler sets
besides its own field; a disabled control is a guard. `RoomsLoaded` is the answer about free
rooms, for the property it was asked for, at whatever step it comes. `Payload` is what is
sent; `BillingCycleCompatible`, `RoomLockCompatible`, `StayDatesOK`, `SplitStayOK` and
`StayTotal` are the API's checks and its own sum, before it looks at any row. Web and API
count billing cycles in a copy each, and so does the module (`CountBillingCycles`,
`ApiCountBillingCycles`). A rate is a natural number, so cents and their rounding are left
out; the guest and the texts of the last step are left out too.

### SelfService (`apps/web` self check-in page, `mobile-check-in/`, `kiosk/`)

State: the reservations' status and number of folios, the page (typed number, row
shown, step, three loading flags), the calls on their way. A call goes through the
API step by step (`Find`, `Choose`, `ArriveRead`, `ArriveWrite`, `ArriveFolioFind`,
`ArriveFolioCreate`) and is heard (`Hear`, `HearFailure`), or its connection is lost
(`Lose`) while the API goes on. Phone and lobby take an answer in a way of their own
(`PhoneReceives`, `KioskReceives`). Enter starts a lookup at any time. `Elsewhere` is
another device; `Desk` cancels and checks out. The property and the last name a
guest may give are a choice between found and not found (`Throw`).

### StaffScreens, StaffPages, Workstation (`apps/web`, the desk)

`StaffScreens` and `StaffPages` are tables read off the code, one record per screen:
for each query the statuses its filter leaves out, for each step the queries that its
hook's `onSuccess` invalidates, for each panel the buttons it shows for a row by status,
its forms, and the buttons disabled while their call runs, and for each step the statuses
in which the service takes it, answers with the row as it is, or refuses it, with what
it leaves and which queries then answer otherwise. A room's status, for housekeeping, is
its stage, the guest's request and whether it is closed. The screens of `StaffScreens` read
through TanStack Query; those of `StaffPages`, except the night audit's, load by hand
into `useState`.

`Workstation` sets one screen in motion. State: `row` (statuses in the database) and
`writes` (how many changes), `online` and `heardOnline`, `mounted`, `list` (the cache entry
or the page's state: rows shown, when they were read, stale or not, a fetch on its way and
what it read), `call` (the clerk's), `own` (the last change of hers she was told of).

| what happens | actions |
|---|---|
| the clerk | `Click` (a button shown for the status shown), `FillForm`, `LeaveScreen`, `Return`, `Reload`, `TryAgain` |
| the API | `ServeChange`, `ServeSame`, `Refuse` (for the status), `Decline` (for what was typed), `ReadList`, `AnotherDesk` |
| answers | `Hear` (invalidates, reads again or leaves the page), `Lose`, `Arrive`, `FetchFails` |
| the cache | `GrowStale`, `Refetch`, `Resume` |
| the connection | `GoOffline`, `GoOnline` |

What is TanStack Query's is modelled from how the code uses it and marked external:
invalidation marks an entry stale, cancels a fetch under way if the screen has data and
asks again, and leaves a first fetch alone; a mutation made after the browser's offline
event pauses and is resumed; only some queries are kept over a reload. A page that loads by
hand shows a spinner instead of its rows while it reads, loses its state when it is left,
drops no answer (of two reads on their way either may be the last), and shows an error
in place of its rows, except for the two in `KeepsRows`.

Left out: the second within which the cache is saved, the retry of a fetch before it
counts as failed, the error some screens show in place of a list, the service worker's
runtime cache, what is typed into a search, and the second read a folio page makes as
soon as it has the first.

The properties name what the code does not owe. `OfferedRegardless` and `OfferedOnPages` are
steps that a screen offers whatever the status and the API may refuse of the very row shown
(sign a signed card, inspect a room out of order, delete a guest with reservations);
`LeftBehind` is a query no hook asks for again after a change (the ageing list after a
transfer); an older answer on its way that is not dropped is `NoOlderAnswerDue`'s case.
Outside of these two properties: the night audit's page keeps the business date it was opened
with, and the page of exchange rates has no button to activate one.

## 3. What is checked

TLC, two workers; the last column counts distinct states.

| run | instance | shows | states |
|---|---|---|---|
| `FolioLedger_concurrent` | 2 folios, 4 rows, 2 calls in flight, windows 1 and 2, a package of two lines posted by SYSTEM | `TypeOK`; `FolioIsSumOfWindows`, `WindowIsSumOfRows`: the three copies of a balance agree; `VoidsArePaired`; `ImplementsContract` | 338k |
| `CashierShifts_serial` | 1 call at a time, 2 shifts, 2 cashiers (one super admin), 2 rows, counts of 0 or 1 | `BalancedIsJustified`, `RowsOnOwnShift`, `SnapshotIsDrawer`, `HandoverConservesCash` | 222k |
| `NightAudit_nights` | four scenes: two nights without mishaps; one night with a death and an error; one with an error and a folio settled under the audit; one with two workers and a mishap of each kind; 3 folios | `FolioChargedOnce`, `NoShowOnce`, `CompletedIsBooked`, `CompletedMeansCharged`, `LedgerIsComplete`, `RollsOncePerAudit`; with fairness `JobConcludes` | 370k |
| `Settlement` | four scenes: one call at a time on 2 rows with tax invoices, or on 3 with card holds; two calls in flight on 2 rows, 1 invoice, 2 payments; the same on 1 row with two calls on one hold; card payments by hand in all of them | `InvoicesAgree`, `HoldChargedOnce`, `TransferSettles`, `BooksFollowFolios`, `AccountIsInvoicedLessPaid`, `InvoicesAreSane`, `TrialBalanceIsZero` | 1.94M |
| `FrontOffice_serial` | two scenes, 1 call at a time, which may stop halfway: 2 rooms, 2 reservations of every kind, 3 days; 1 room with a block, housekeepers, a desk and the room form (which may send a dirty status) while the date moves | `RoomBookedOnce`, `StaysTileTheBooking`, `OffersAreBookable`; `RoomsAreReadied`, `AllotmentHeld` | 1.48M |
| `Rates` | 3 rates, 1 recommendation, 4 rows, amounts to 11, cascades that stop | `DerivedFollowParents`, `NoRateDerivesFromItself` | 1.36M |
| `GuestServices` | 2 calls in flight, 2 rows of any mix of kinds | `OneJobPerKey`, `CompletedWasDone`, `StepsWereTaken`, `GeneratedMeansCovered` | 711k |
| `BookingWizard` | 2 properties, 3 rooms of 2 types, 2 days, cycles of 2 days, 1 list on its way per property | `SentIsCoherent`, `TotalAgrees` | 295k |
| `SelfService` | 1 booking, 2 calls on their way, phone and kiosk, another device and the desk | `SuccessIsReal`, `ControlsComeBack` | 106k |
| `Workstation` | every screen and page with every query of it, 1 row; on two screens 2 calls under way and 2 changes by the API, on two others a connection that comes and goes | `RefusalsAreExplained`, `OwnChangesShow` | 127k |
| `NightAudit_stuck` | one night, one guest, one worker, one error | violates `AuditConcludes` | |
| `Workstation_offline` | three screens with money, one row, a connection that comes and goes | violates `MutationsBlockedOffline` | |

A scene is chosen in Init and stays: one run then covers several mixes of bounds. The
properties that only whole calls keep say so (`OneAtATime` in `Settlement`), and those that
a stolen lock breaks are stated for the behaviours in which no lock ran out
(`LocksWereKept` in `NightAudit`). `NoShowOnce` also asks that audits of different dates do
not run side by side (`OneAuditAtATime`): markNoShow asks whether a reservation has paid and
posts in two round trips, so two such audits can both find that it has not.

**Bounds.** Two folios make folio numbers and a row's own folio matter, and every other call
touches one folio. Two calls in flight give every race between a read and one other write; a
third only repeats it. Four rows hold two packages, or a package and two voids, of the same
row in particular. Two shifts and two cashiers give a handover, a self-approval, an approval
by another and the void of another's row. One death and one error give a job that dies at any
point and runs again, which the queue allows once; the audit's folio bound (3) is more than
two cycles create. Three days are the least on which a booking has an inner night and can be
split, shortened and shifted; two rooms are needed for a move, two reservations for a
conflict. Three rates make a chain of two cascades and, with the fourth row, a sibling. Two
payments on one invoice race each other. A screen shows its rows one by one and every step is
about one row, so one row meets every status; one call of the clerk's and one change by
somebody else give each stale list, and the second of each gives two answers on their way. The
guards that use a bound stop the model and never change a result. Two days of arrival and a
split date on either side of them give a clerk every order of dates. `CHECK_DEADLOCK FALSE` is
set because the bounded instances end: a table is full, every date is audited.

**Fairness.** `NightAudit`: a call that has started and a worker that holds a job go
on (the event loop and the awaited queries return or throw), and the queue's polling
hands out waiting and stalled jobs. No user is obliged to do anything: starting an
audit, closing a shift or settling a folio is not fair, and mishaps are not either.
`SelfService`: each call on its way goes on by itself (`WF` on `Proceed(k)`): the API takes
its next step, the answer is heard or the connection is found lost; the guest owes nothing.

### What the code does not keep

`NightAudit_stuck` checks `AuditConcludes`, which `docs/adr/002-...:63` states (set
IN_PROGRESS and enqueue the job): after a failure the queue ignores the id, which it
still holds, and the audit stays IN_PROGRESS for good. TLC prints the steps.

`Workstation_offline` checks `MutationsBlockedOffline`, which `docs/adr/008-...:26` and `35`
state (mutations throw offline, "no silent mutation queue for financial data"): the query
client sets a network mode for queries only, so a mutation made after the offline event is
paused before the API client could refuse it, and is sent when the connection is back.

Seven more instances are kept to be run by hand, each for a sentence of the repository or the
plain purpose of a line that a race or a forgotten case contradicts. TLC finds each violated.

| cfg (module) | property and the sentence | what happens |
|---|---|---|
| `FolioLedger_double_void` (`MCFolioLedger`) | `VoidedAtMostOnce`; `folios/folios.service.ts:308`: 'Transaction is already voided' | two voids at once correct a row twice |
| `CashierShifts_late_row` (`MCCashierShifts`) | `NoRowOnClosedShift`; `docs/adr/003-...:120`: cannot post to a closed shift | the shift closes between lookup and commit |
| `NightAudit_late_arrival` (`MCNightAudit`) | `SeatedGuestStays`; `reservations/no-show.ts:27`: only confirmed reservations | a guest checks in during markNoShow |
| `FrontOffice_day_use` (`MCFrontOffice`) | `RoomNeverShared`; `reservations/reservations.service.spec.ts:558`: 'should reject a header-only create that overlaps a stay segment' | a day use is not compared with segments, so it and a split stay get one room |
| `FrontOffice_room_choice` (`MCFrontOffice`) | `ChosenRoomIsAssigned`; `docs/adr/022-...:53`: "Room change delegates to `ReservationsService.update(id, { roomId })`" | update looks at the room given and does not write it (`reservations.service.ts:390`, `549`): the guest keeps the room of before |
| `BookingWizard_property` (`MCBookingWizard`) | `RoomIsWhereAsked`; `reservations/new/use-new-reservation-form.ts:91` asks for the rooms of the form's property | going back and choosing another property keeps the room; its reservation is sent |
| `BookingWizard_late_rooms` (`MCBookingWizard`) | `AnswersDoNotInterrupt`; the same lines: the next step follows its own list | Next pressed twice: the second list takes the clerk back to the rooms |

**What holds one call at a time.** A serial run is not a weaker way to say the same: the
racing system does not keep these properties, and the line to blame is that of their hazards.
`RoomBookedOnce`, `OffersAreBookable` and `AllotmentHeld`: availability and pickup are read
before the insert. `HoldChargedOnce` asks for turns only among the calls on one hold, since
its status is read before the capture: two captures at once post two payments, and one that
meets a release charges a hold that was released. `InvoicesAgree`: `paidAmount` is written as
a sum of a stale read. `TransferSettles`, `BooksFollowFolios`: balance and rows are read
before the transaction. `RoomsAreReadied`: a check-out may overtake an inspection; even one
call at a time a room may be dirty and READY, because the room form sends the status with
every edit and the edit leaves the stage, so the property names that edit as the one way
around housekeeping. A check-out that stops before its write to the room leaves a room READY,
too: no step dirtied it. `DerivedFollowParents` is about one cascade at a time, and admits the
rates that one that stopped has not reached. `SnapshotIsDrawer` and `HandoverConservesCash`:
the rows are summed before the update. In the night audit, `RollsOncePerAudit` and
`FolioChargedOnce` fail with a second worker on the job, `LedgerIsComplete` after a rerun,
which charges something and finds the journal entry of the attempt before it: they are stated
for the behaviours without those mishaps.

## 4. What is proved

TLAPS proves these for every value of the constants that meets the modules' named
assumptions (`BoundsAssumption`, `NamesAssumption`, `AccountsAssumption`, `LinesAssumption`
of `FolioLedger`, `ShiftsAssumption`, `SettlementAssumption`, `AuditAssumption`,
`FrontOfficeAssumption`, `RatesAssumption`, and those of `GuestServices`, `SelfService`,
`BookingWizard` and `Workstation`): any number of calls, folios, rows, users, shifts,
companies, invoices, dates, rooms, bookings, blocks, rates, workers, jobs and amounts. Every
safety property that a run checks is a theorem. What the code leaves to its callers is a
hypothesis of the theorem, listed below with what happens without it. `CodesAreStrings` of
`Settlement` assumes nothing: it says of two string literals that they are strings, for
which the provers have no rule.

**Sums (`SumLaws`).** Balances, drawers and journals are sums over finite sets, written
with the folds of the community modules, which are recursive functions. That such a
function exists and what it does is proved there once: the library's induction theorems
take an operator, which no prover instantiates, so induction comes from the strict subset
order of a finite set being well-founded. A law that fails for some subset fails for a
least one, and holds when an element of that one is taken out. `SumByKey` is the law the
ledgers need most: a sum over all rows is the sum, over the keys, of the sums by key.

**The ledger (`FolioLedgerProofs`).** The lemmas speak of the ledger's steps beside any
handlers and tables of other services (`TypedBeside`, `Foreign`), so that the modules that
extend the ledger use them too.

* `TypeCorrect`: `TypeOK`. It is inductive by itself once it says that a void in flight
  names a row that exists.
* `BalancesAgree`, `FlagsAgree`: from the inductive invariant `Books`. Agreement alone is
  not inductive: creating a folio sets its balance to zero, so nothing may have moved the
  balance of a folio that does not exist (`BlankUntilCreated`), so every handler and row
  must name one that does (`ReferencesExist`).
* `WindowsAreSummed`: `WindowIsSumOfRows`. A posting adds what its lines come to and a void
  adds the mirror of its row, flags that change being no part of a sum.
* `LedgerIsAJournal`: `Spec => ImplementsContract`, the refinement of `LedgerContract`. Each
  step is a reader, which is a stutter, or a commit, which appends facts of one folio and
  moves its balance by what they are worth.
* `VoidsPaired`: a voided row names a later row that mirrors it, and still does after a
  second void of the same row; the first correction then points back at a row that names
  another. `VoidsStay`: an action property, from `TypeOK`.
* `NoGaps`: a count is never above the number of folios, and numbers without gaps make the
  count the highest number; what was counted cannot disappear, so a stale count hits an
  existing number and the index refuses it.

**The shifts (`CashierShiftsProofs`).**

* `OwnShift`, `Justified`, `StaysClosed`: from the inductive invariant `Drawers`, for racing
  calls too, though TLC's run is serial. A handler about to write carries a shift of its
  user, and every writer of the shift table, however stale, keeps the user of a shift that
  exists and never opens one that is closed (`Respects`).
* `SnapshotsHold`, `HandoversConserve`: of `SerialSpec`, in which one call is in flight, from
  the inductive invariant `Serial`: a handler's shift is still open (`HandlersOpen`), what a
  closing or a handover has summed is what the drawer holds now (`DesksCurrent`), and no row
  joins a shift that is closed, so its drawer stays what was stored. Cashiers, shifts, rows
  and counts are any; what one call at a time excludes is section 3's.

**Settlement (`SettlementProofs`).**

* `InvoicesStaySane`, `CompaniesOweInvoices`, `BooksBalance`: for racing calls, from the
  inductive invariant `SettleBooks`: the types of the tables and of the settlement's
  handlers beside the ledger's (`SettleTyped`), that a call in flight names rows that exist
  and carries amounts it has checked (`SettleRefers`: a payment about to be written is within
  the invoice, the journal's lines are balanced), and the three properties.
  `LinesBalance` is the lemma under the last: whatever rows the journal has read, the lines
  it builds of them are balanced.
* `CallsInTurnAgree`, `TransfersSettle`: for one call at a time, from `SettleInTurn`, which
  adds that what the call has read is still so when it writes (`CallsInTurn`), that
  `paidAmount` is the sum of the payments, and that a folio has one live invoice at most.
* `HoldsChargeOnce`: of `SettleSpec` with any number of calls in flight and no hypothesis,
  from `HoldsInTurn`: where calls on one hold take turns, what a call on a hold has read of it
  is still so when it writes (`HeldAsRead`): the hold is open, the amount is within what it
  holds, the folio is of its reservation. An action property of the row a capture
  adds, it tells that row from a card payment posted by hand, which no count by code could.
* `BooksFollow`: in turn, from `RowsAreWorth`, for lines that satisfy `LinesFollowCodes`.
  `BooksTakeNet` is the lemma: the debits less the credits of the guests' account are the sum
  of the rows. Journal lines take the absolute amount of a row and follow the type of its
  code, so the books follow the folios only where amounts are not negative, the sign of a row
  is the one its code's type implies, and the code has an account other than the guests'. The
  code sees to none of the three; the proof attempt found all of them.
  `MCSettlement` has TLC evaluate both hypotheses for the lines of the run
  (`LinesAreOrdinary`).

**The night audit (`NightAuditProofs`).** The worker has some twenty actions; the proofs sort
them by what they do to the tables (`Works`: marks, posts, closes a folio, archives, books,
completes, rolls, breaks off) and everything else by what it leaves alone (`Calm`).
`NightInv` is the inductive invariant:

| part | says | needed because |
|---|---|---|
| `TypeOK` | types, what a worker holds at each place | |
| `QueueInv` | jobs are of dates asked for; unless a lock ran out, whoever works on a date holds its active job | two workers on one date are then the same one |
| `RoomsInv` | unless a lock ran out, the charge a worker looked for and did not find is still absent | the check and the posting are two steps |
| `NoShowsInv` | the same of a no-show, if audits run one at a time | the check is over all dates, the lock over one |
| `BookedInv` | past the report it is archived, past the journal it is booked | `completeAudit` checks neither |
| `BilledInv` | each stay listed is billed or still to do, and billed for good after the rooms | the list is made once, front desk or not |
| `LedgerInv` | as long as nothing went wrong, a date once booked gets no more rows and no second job | the entry is made of the rows there are |
| `RollInv` | dates rolled past are booked; unless a worker died or a lock ran out the hotel's date is their number and one | `rollBusinessDate` increments |

Its theorems: `RoomsChargedOnce`, `NoShowsPayOnce`, `CompletedNightsAreBooked`,
`LedgersAreComplete`, `DatesRollOnce`, and the action property `CompletionMeansCharged`: all
the safety properties of the run `NightAudit_nights`.

**The front office (`FrontOfficeProofs`).** All of it for one call at a time (`OneAtATime`),
each call still cut into its reads and writes and able to stop between any two of them.

* `StaysAreTiled`: from `Rows`: every reservation is a sound row, and a call in flight will
  write one. A move changes the room of one segment and the header's, and no date
  (`reservations.service.ts:835`), so the chain stays; an update writes some of the fields it
  was given over the row, so what it checked (old and new fields mixed) must be what it writes.
  The header's room is no part of the property: after a move of the second segment it is not
  the first segment's.
* `OffersHold`: from `Rows`. `getAvailability` and `assertRoomsAvailable` look at different
  columns; that they agree on a whole stay is because segments tile it.
* `RoomsBookedOnce`: from `Held`, which adds to `Rows` that active reservations do not share
  a room and night (`Distinct`, a day use beside a split stay excepted), and that what a call in
  flight is about to write was found free and still is (`Claims`).
* `AllotmentsHold`: from `Allotted`: a block has sold at most what is left of its allotment
  (`Sold`), also when the call in flight will have written (`Grants`). Counting is by finite
  sets.
* `RoomsReadied`: from `Kept`: the stage a call is about to write was worked out from what it
  read of the room, and the room is still as it was read (`AsRead`). Any status a form may
  send is allowed.

| hypothesis | the code does not see to it because | without it |
|---|---|---|
| `RoomGoesWithSegments` | `update` asks availability for the room the call names and never writes that room (`reservations.service.ts:392`, `475`, `523`) | the dates go to the old room, which may be taken: two bookings share a room after a few calls in turn |
| `NothingRevived`, `NothingCounted` (of each `UpdateWrite`) | an update that gives only a status asks for no room (`reservations.service.ts:523`) | a cancelled booking comes back onto a room, or a pick-up into a block, that was given away |
| `AllotmentsSuffice` | a block's edit does not count its pickup | the allotment is cut under what was sold |

The attempts to prove the invariants found the first two. With the excluded call added to the
instance, TLC finds each property violated within a few calls. `MCFrontOffice` has TLC
evaluate the hypotheses about constants (`CallsAreOrdinary`); no update of its instance
revives a booking, and its one edit of an allotment raises it.

**Rates and screens (`DeskProofs`).**

* `NoLoops`, `AmountsFollow`: for one call at a time, from `Inv`. A loop of three is the
  danger, and "no chain comes back to its start" is not inductive as it stands; `Inv` says
  that the parents make a `Tree`: every set of rates has one whose parent is outside of it.
  Checking a new parent's chain against the rate keeps that (`AncestorsAre` ties the code's
  walk up to the tree). A derived rate that is not what its parent makes it must be one that
  the cascade in flight has still to write (`Waiting`), whose frames lie on one path up the
  tree (`Walking`), or one a cascade that threw has left behind. TLC checked `Inv` on the
  run's instance, too (`CallsComeInTurn` is the hypothesis evaluated).
* `SendsCoherent`, `TotalIsTheServers`: from `Coherence`: the options exclude one another at
  every step (`OptionsExclude`), not only when they are sent, and from the third step on the two
  rooms and the date between them are right (`PairIsReady`), since the way there leads through
  `Step2Next` and a form changes on the first step only. A late list of rooms goes back to
  the second step and so does no harm to either.
* `OwnChangesAreShown`, `RefusalsHaveReasons`: for every subset of the screens, any rows, any
  number of calls and changes, and with no hypothesis. What depends on a screen is read off
  the tables once: `AllScreensFit` goes through the 32 screens and shows that each step one
  offers is a step the API has and takes of that status, and that what the step changes of
  what the screen shows is read again after it, or the page is left, or the exception is one
  of those named. The rest is about any screen whose tables fit. Its invariant `Desk` says
  that a list that counts as current, or has been read and is about to, is not older than the
  clerk's last change (`ListIsCurrent`), and that a call was made with a button that was there
  (`CallsFit`). The exceptions are named step by step: the housekeeping board offers
  `markClean`, `setDnd`, `setMur` and `inspect` of rooms that are out of order or out of
  service, whose stage stays what it was, and the API refuses all four (`hk-ops.ts:55`, `91`,
  `125`). For every other refusal the row was written after the list was read, by somebody
  else or by a change of the clerk's that the list did not yet have to show. A panel may also
  be shown before it has read its row ("LOADING"); that name has to differ from every status
  (`StatusesFit`), or the panels of the messages would show a button too many.

**The guests' side (`GuestProofs`).**

* `KeysHold`, `LogIsTrue`, `NoStepSkipped`, `NobodyForgotten`: from the inductive invariant
  `Sound`, which adds to the four properties what a call in flight has read and what of it
  cannot have been undone: the steps a row has taken only grow (`Grown`), so a status read
  long ago still speaks for the steps under it.
* `ToldIsTrue`: from `Honest`: an answer on its way to a page, and the success step of a
  page, name a booking with a folio, and folios are never taken back.

`FlagsAgree`, `VoidsStay`, `NoGaps` and `StaysClosed` are proved and not checked by a run.

**Only model-checked.**

* Liveness (`JobConcludes`, `AuditConcludes`, `ControlsComeBack`): out of the prover's reach.
* What a run finds violated (`AuditConcludes`, `MutationsBlockedOffline`, and the seven
  instances run by hand): the counterexamples are TLC's.

## 5. Not modelled, and what is left

* The amounts of a posting: package split, tax and service charge, the price of a split
  stay and of a billing cycle. They are arithmetic on decimals without protocol state; the
  ledger is checked with any lines that sum up.
* Cash in a foreign currency, the guest's totals, prices of reservations, the migration
  that adds missing windows: values no guard reads.
* What is in a guest, a property, a room type or a transaction code: single rows, the last
  write wins; that they are deleted only when unused, and how the pages show them, is in
  `StaffPages`. Users and auth have no protocol state. The portal reads.
* The demonstration API inside the client (`apps/web/src/lib/api/mock/`), lists that only
  read, reports, prints, charts, and the wiring of both programs.
* The mapped lines are 34 % of the implementation's: the rest is mainly the client's forms,
  tables and texts with the demonstration API, and the Swagger, DTO and module wiring of the
  API. Nothing in them changes state that is not changed in a service that is modelled.

What would add most next: the composition of `FrontOffice` with the night audit's list of
arrivals, so that a no-show, a room's night and a charge meet in one model; `FrontOffice` with
two calls in flight under a lock the code does not have, to see what lock would do; and the
amounts of a posting, once a property needs more of them than their sum.

## 6. Files

`MC*.tla` instantiate a module for TLC, one `.cfg` per run. `*Proofs.tla` hold the theorems
of the modules they extend (`GuestProofs` of `GuestServices` and `SelfService`, `DeskProofs` of
`Rates`, `BookingWizard` and `Workstation`, the others of the one they are named for) and
`SumLaws.tla` the laws of sums they share. In a module, a
definition under a comment that begins with "Mutant:" is a plausible bug in the
definition that follows it; no action uses it. Each checked property fails when one
such definition takes the place of the original (`mutants` in `PROJECT.json`).
`PROJECT.json` also maps every definition to the lines it models and lists the
hazards with the properties that watch them.
