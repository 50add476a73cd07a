------------------------------ MODULE StaffPages ------------------------------
(***************************************************************************)
(* The desk's other pages, in the tables of StaffScreens. All but the      *)
(* night audit's read by hand: a `load` of their own puts the answer into  *)
(* the page's state and a spinner in place of the page, and a step of the  *)
(* page calls the API itself and then `load`, or leaves the page.          *)
(*                                                                         *)
(* Left out: what is typed into a search, and the second read a folio page *)
(* makes as soon as it has the first.                                      *)
(***************************************************************************)
EXTENDS StaffScreens

\* A step that changes of its row what no button looks at.
Edits(from, changes) == Step(from, {}, [status \in from |-> {status}], changes)
Refuses == Takes({}, {}, {})

-----------------------------------------------------------------------------
(* Guests: "USED" is one with reservations, which the API keeps. The list  *)
(* offers to delete any, and the page of a guest likewise.                 *)

GuestHooks == Hooks(Whole("guests"), Each({"create", "update", "delete"}, {"guests"}))
GuestTable == LET steps == {"update", "delete"} IN
    Panel("guests", [FREE |-> steps, USED |-> steps], {}, {"update"})
GuestFormDialog == Panel("guests", NoButtons, {"create"}, {"create"})
GuestService == LET any == {"FREE", "USED"} IN LET own == {"guests"} IN
    [create |-> Adds("FREE", own), update |-> Edits(any, own),
     delete |-> Takes({"FREE"}, {"NONE"}, own),
     toggleBlacklist |-> Edits(any, own), reserve |-> Takes({"FREE"}, {"USED"}, own)]
GuestsClient ==
    [hooks |-> GuestHooks, panels |-> <<GuestTable, GuestFormDialog>>, service |-> GuestService]

GuestPageHooks == Hooks(Whole("guests"), [toggleBlacklist |-> {"guests"}, delete |-> {}])
GuestDetailPage == LET steps == {"toggleBlacklist", "delete"} IN
    [hooks |-> GuestPageHooks, service |-> GuestService,
     panels |-> <<Panel("guests", [FREE |-> steps, USED |-> steps], {}, {})>>]

-----------------------------------------------------------------------------
(* Properties, room types and rooms: "USED" is one with rooms, or types of *)
(* them, or with reservations to come. The page of room types shows        *)
(* buttons to add and to edit one that do nothing.                         *)

PropertyHooks == Hooks(Whole("properties"), Each({"create", "update", "delete"}, {"properties"}))
PropertyCard == LET steps == {"update", "delete"} IN
    Panel("properties", [FREE |-> steps, USED |-> steps], {}, {"update"})
PropertyFormDialog == Panel("properties", NoButtons, {"create"}, {"create"})
PropertyService == LET own == {"properties"} IN
    [create |-> Adds("FREE", own), update |-> Edits({"FREE", "USED"}, own),
     delete |-> Takes({"FREE"}, {"NONE"}, own),
     build |-> Takes({"FREE"}, {"USED"}, own), clear |-> Takes({"USED"}, {"FREE"}, own)]
PropertiesPage ==
    [hooks |-> PropertyHooks, panels |-> <<PropertyCard, PropertyFormDialog>>,
     service |-> PropertyService]

RoomTypeHooks == Hooks(Whole("room-types"), Each({"delete"}, {"room-types"}))
RoomTypeCard == Panel("room-types", [FREE |-> {"delete"}, USED |-> {"delete"}], {}, {})
RoomTypeService == LET own == {"room-types"} IN
    [create |-> Adds("FREE", own), update |-> Edits({"FREE", "USED"}, own),
     delete |-> Takes({"FREE"}, {"NONE"}, own),
     build |-> Takes({"FREE"}, {"USED"}, own), clear |-> Takes({"USED"}, {"FREE"}, own)]
RoomTypesPage ==
    [hooks |-> RoomTypeHooks, panels |-> <<RoomTypeCard>>, service |-> RoomTypeService]

RoomPageService == LET own == {"rooms"} IN
    [create |-> Adds("FREE", own), update |-> Edits({"FREE", "USED"}, own),
     delete |-> Takes({"FREE"}, {"NONE"}, own),
     book |-> Takes({"FREE"}, {"USED"}, own), vacate |-> Takes({"USED"}, {"FREE"}, own)]
RoomDetailPage ==
    [hooks |-> Hooks(Whole("rooms"), [delete |-> {}]), service |-> RoomPageService,
     panels |-> <<Panel("rooms", [FREE |-> {"delete"}, USED |-> {"delete"}], {}, {})>>]

-----------------------------------------------------------------------------
(* Transaction codes *)

CodeHooks == Hooks(Whole("codes"), Each({"create", "update"}, {"codes"}))
TransactionCodeDialog == Panel("codes", NoButtons, {"create"}, {"create"})
CodeService ==
    [create |-> Adds("CODE", {"codes"}), update |-> Edits({"CODE"}, {"codes"})]
TransactionCodesPage ==
    [hooks |-> CodeHooks, service |-> CodeService,
     panels |-> <<Panel("codes", [CODE |-> {"update"}], {}, {"update"}), TransactionCodeDialog>>]

-----------------------------------------------------------------------------
(* The page of a reservation. It offers to delete any, which the API never *)
(* does.                                                                   *)

ReservationHooks == Hooks(Whole("reservation"),
    Both(Each({"checkIn", "checkOut", "cancel", "noShow", "walk", "moveRoom"}, {"reservation"}),
         [delete |-> {}]))
ReservationDetailActions ==
    LET over == {"CHECKED_OUT", "CANCELLED", "NO_SHOW", "WALKED"}
    IN Panel("reservation",
        Both([CONFIRMED |-> {"checkIn", "cancel", "delete"},
              CHECKED_IN |-> {"checkOut", "cancel", "delete"}],
             [status \in over |-> {"delete"}]), {}, {})
ReservationNoShowButton == Panel("reservation", [CONFIRMED |-> {"noShow"}], {}, {"noShow"})
WalkPanel == Panel("reservation", [CONFIRMED |-> {"walk"}], {}, {"walk"})
RoomMovePanel == Panel("reservation", [CHECKED_IN |-> {"moveRoom"}], {}, {"moveRoom"})
ReservationService == LET own == {"reservation"} IN
    [checkIn |-> Takes({"CONFIRMED"}, {"CHECKED_IN"}, own),
     checkOut |-> Takes({"CHECKED_IN"}, {"CHECKED_OUT"}, own),
     cancel |-> Takes({"CONFIRMED", "CHECKED_IN", "NO_SHOW", "WALKED"}, {"CANCELLED"}, own),
     noShow |-> Takes({"CONFIRMED"}, {"NO_SHOW"}, own),
     walk |-> Takes({"CONFIRMED"}, {"WALKED"}, own),
     moveRoom |-> Edits({"CHECKED_IN"}, own),
     delete |-> Refuses]
ReservationDetailPage ==
    [hooks |-> ReservationHooks, service |-> ReservationService,
     panels |-> <<ReservationDetailActions, ReservationNoShowButton, WalkPanel, RoomMovePanel>>]

-----------------------------------------------------------------------------
(* A reservation's folios: a row is a folio or one of its transactions. A  *)
(* closed folio takes charges and payments as an open one does.            *)

FolioHooks == Hooks(Whole("folios"),
    Each({"postCharge", "postPayment", "void", "setCreditLimit", "setArAccount", "checkout",
          "reopen"}, {"folios"}))
FolioCheckoutBar ==
    LET always == {"setCreditLimit", "setArAccount"}
    IN Panel("folios", [OPEN |-> always \cup {"checkout"}, CLOSED |-> always \cup {"reopen"}],
             {}, always \cup {"checkout", "reopen"})
VoidTransactionDialog == {"void"}
TransactionsTable == Panel("folios", [POSTED |-> {"void"}], {}, VoidTransactionDialog)
PostChargeDialog == Panel("folios", NoButtons, {"postCharge"}, {"postCharge"})
PostPaymentDialog == Panel("folios", NoButtons, {"postPayment"}, {"postPayment"})
FolioPostings ==
    [postCharge |-> Adds("POSTED", {"folios"}), postPayment |-> Adds("POSTED", {"folios"}),
     void |-> Takes({"POSTED"}, {"VOIDED"}, {"folios"})]
FolioClosing == LET own == {"folios"} IN
    [checkout |-> Takes({"OPEN"}, {"CLOSED"}, own), reopen |-> Takes({"CLOSED"}, {"OPEN"}, own),
     setCreditLimit |-> Edits({"OPEN", "CLOSED"}, own),
     setArAccount |-> Edits({"OPEN", "CLOSED"}, own)]
FolioDetail ==
    [hooks |-> FolioHooks, service |-> Both(FolioPostings, FolioClosing),
     panels |-> <<FolioCheckoutBar, TransactionsTable, PostChargeDialog, PostPaymentDialog>>]

-----------------------------------------------------------------------------
(* The night audit, which reads through TanStack Query. Its button is      *)
(* there until the status is read ("LOADING"), and when the audit failed.  *)
(* The page keeps the business date it has read, so that after an audit it *)
(* goes on to show that of the day before.                                 *)

AuditHooks == Hooks(Whole("night-audit-status"), Each({"start"}, {"night-audit-status"}))
AuditStatusPanel == Panel("night-audit-status",
    [status \in {"LOADING", "PENDING", "FAILED"} |-> {"start"}], {}, {"start"})
AuditService == LET own == {"night-audit-status"} IN
    [start |-> TakesOrSame({"PENDING", "FAILED"}, {"IN_PROGRESS", "COMPLETED"}, {"IN_PROGRESS"}, own),
     conclude |-> Takes({"IN_PROGRESS"}, {"COMPLETED", "FAILED"}, own)]
NightAuditPage ==
    [hooks |-> AuditHooks, panels |-> <<AuditStatusPanel>>, service |-> AuditService]

-----------------------------------------------------------------------------
AllScreens ==
    [s \in {"items", "complaints", "feedback", "messages", "staysKeys",
            "keys", "calls", "staysCalls", "reports", "cards", "signing",
            "printing", "holds", "taxInvoices", "shifts", "yield", "blocks",
            "housekeeping", "ar", "agents", "rates", "partners",
            "exchangeRates", "guests", "guest", "properties", "roomTypes",
            "room", "codes", "reservation", "folio", "nightAudit"} |->
        CASE s = "items" -> LostFoundClient [] s = "complaints" -> ComplaintsClient
          [] s = "feedback" -> FeedbackClient [] s = "messages" -> MessagesClient
          [] s = "staysKeys" -> DigitalKeyPanel [] s = "keys" -> DigitalKeysClient
          [] s = "calls" -> WakeUpCallsClient
          [] s = "staysCalls" -> WakeUpCallPanel
          [] s = "reports" -> Tm30ReportsClient
          [] s = "cards" -> RegistrationCardPanel
          [] s = "signing" -> RegistrationCardSignClient
          [] s = "printing" -> RegistrationCardPrintClient
          [] s = "holds" -> CardPreauthsClient
          [] s = "taxInvoices" -> TaxInvoicesClient [] s = "shifts" -> ShiftsClient
          [] s = "yield" -> YieldClient [] s = "blocks" -> BlocksClient
          [] s = "housekeeping" -> HousekeepingClient
          [] s = "ar" -> ArAccountsClient [] s = "agents" -> HardwareBridgeClient
          [] s = "rates" -> RatesClient [] s = "partners" -> PartnerHotelsClient
          [] s = "exchangeRates" -> ExchangeRatesClient
          [] s = "guests" -> GuestsClient [] s = "guest" -> GuestDetailPage
          [] s = "properties" -> PropertiesPage [] s = "roomTypes" -> RoomTypesPage
          [] s = "room" -> RoomDetailPage [] s = "codes" -> TransactionCodesPage
          [] s = "reservation" -> ReservationDetailPage
          [] s = "folio" -> FolioDetail [] s = "nightAudit" -> NightAuditPage]

ByHand ==
    {"guests", "guest", "properties", "roomTypes", "room", "codes", "reservation", "folio"}

\* A page that fails to read shows the error in its place, but for these,
\* which say so above the rows they had.
KeepsRows == {"codes", "folio"}

\* Reading again without leaving: from the page, or from its error alone.
ReadsAgain == {"guests", "codes"}
TriesAgain == {"properties", "roomTypes"}

\* The form is there while the page reads.
FormWhileReading == {"codes"}

\* Steps that leave the page when they succeed.
LeavesPage == {<<page, "delete">> : page \in {"guest", "room", "reservation"}}

OfferedOnPages ==
    {<<page, "delete", "USED">> : page \in {"guests", "guest", "properties", "roomTypes", "room"}}
        \cup {<<"reservation", "delete", status>> : status \in
                {"CONFIRMED", "CHECKED_IN", "CHECKED_OUT", "CANCELLED", "NO_SHOW", "WALKED"}}
OfferedAnyway == OfferedRegardless \cup OfferedOnPages
=============================================================================
