----------------------------- MODULE StaffScreens -----------------------------
(***************************************************************************)
(* The screens at the desk that read through TanStack Query, as tables:    *)
(* what each hook reads and asks for again, which buttons each panel shows *)
(* for a row, and in which statuses the API takes the call a button makes. *)
(* Workstation sets them in motion.                                        *)
(*                                                                         *)
(* A screen's rows all have one status each; "NONE" is a row not made yet. *)
(***************************************************************************)
NoButtons == [status \in {} |-> {}]

(* A panel: `list` is the query whose rows it shows, `buttons` the steps   *)
(* it shows for a row by status, `forms` those that make a row, `held` the *)
(* steps whose button is disabled while their call runs.                   *)
Panel(list, buttons, forms, held) ==
    [list |-> list, buttons |-> buttons, forms |-> forms, held |-> held]

(* What the API does for a step: it takes the statuses `from`, leaves a    *)
(* row it took in status s in one of to[s], and answers those in `same`    *)
(* with the row as it is; the answers to the queries `changes` are then    *)
(* others.                                                                 *)
Step(from, same, to, changes) == [from |-> from, same |-> same, to |-> to, changes |-> changes]
TakesOrSame(from, same, to, changes) == Step(from, same, [status \in from |-> to], changes)
Takes(from, to, changes) == TakesOrSame(from, {}, to, changes)
Adds(status, changes) == Takes({"NONE"}, {status}, changes)

(* A hooks file: for each query the statuses it leaves out, and for each   *)
(* step the queries its onSuccess invalidates.                             *)
Hooks(leavesOut, invalidates) == [leavesOut |-> leavesOut, invalidates |-> invalidates]
Whole(q) == [name \in {q} |-> {}]
Each(steps, queries) == [step \in steps |-> queries]

\* Two tables side by side.
Both(f, g) ==
    [x \in DOMAIN f \cup DOMAIN g |-> IF x \in DOMAIN f THEN f[x] ELSE g[x]]

-----------------------------------------------------------------------------
(* Found items *)

\* Mutant: a claim and a disposal leave the list of items as it was read.
ItemHooksNoRead == Hooks(Whole("lost-found"),
    Both(Each({"create", "return"}, {"lost-found"}), Each({"claim", "dispose"}, {})))
ItemHooks == Hooks(Whole("lost-found"),
                   Each({"create", "claim", "return", "dispose"}, {"lost-found"}))
LostFoundItemCard == Panel("lost-found",
    [FOUND |-> {"claim", "dispose"}, CLAIMED |-> {"return"}], {}, {})
LostFoundRegisterForm == Panel("lost-found", NoButtons, {"create"}, {"create"})
ItemService ==
    [create |-> Adds("FOUND", {"lost-found"}),
     claim |-> Takes({"FOUND"}, {"CLAIMED"}, {"lost-found"}),
     return |-> Takes({"CLAIMED"}, {"RETURNED"}, {"lost-found"}),
     dispose |-> Takes({"FOUND"}, {"DISPOSED"}, {"lost-found"})]
LostFoundClient ==
    [hooks |-> ItemHooks, panels |-> <<LostFoundItemCard, LostFoundRegisterForm>>,
     service |-> ItemService]

-----------------------------------------------------------------------------
(* Complaints *)

ComplaintHooks == Hooks(Whole("guest-complaints"),
    Each({"create", "start", "resolve", "close"}, {"guest-complaints"}))
ComplaintCard == Panel("guest-complaints",
    [OPEN |-> {"start", "resolve"}, IN_PROGRESS |-> {"resolve"}, RESOLVED |-> {"close"}],
    {}, {})
ComplaintLogForm == Panel("guest-complaints", NoButtons, {"create"}, {"create"})
ComplaintService == LET own == {"guest-complaints"} IN
    [create |-> Adds("OPEN", own),
     start |-> TakesOrSame({"OPEN"}, {"IN_PROGRESS"}, {"IN_PROGRESS"}, own),
     resolve |-> TakesOrSame({"OPEN", "IN_PROGRESS"}, {"RESOLVED"}, {"RESOLVED"}, own),
     close |-> TakesOrSame({"RESOLVED"}, {"CLOSED"}, {"CLOSED"}, own)]
ComplaintsClient ==
    [hooks |-> ComplaintHooks, panels |-> <<ComplaintCard, ComplaintLogForm>>,
     service |-> ComplaintService]

-----------------------------------------------------------------------------
(* Feedback and messages *)

FeedbackHooks == Hooks(Whole("guest-feedback"), Each({"create", "review"}, {"guest-feedback"}))
FeedbackService ==
    [create |-> Adds("OPEN", {"guest-feedback"}),
     review |-> TakesOrSame({"OPEN"}, {"REVIEWED"}, {"REVIEWED"}, {"guest-feedback"})]
FeedbackClient ==
    [hooks |-> FeedbackHooks, service |-> FeedbackService,
     panels |-> <<Panel("guest-feedback", [OPEN |-> {"review"}], {"create"}, {"create"})>>]

MessageHooks == Hooks(Whole("guest-messages"), Each({"create", "markRead"}, {"guest-messages"}))
MessageService ==
    [create |-> Adds("UNREAD", {"guest-messages"}),
     markRead |-> TakesOrSame({"UNREAD"}, {"READ"}, {"READ"}, {"guest-messages"})]
MessagesClient ==
    [hooks |-> MessageHooks, service |-> MessageService,
     panels |-> <<Panel("guest-messages", [UNREAD |-> {"markRead"}], {"create"}, {"create"})>>]

-----------------------------------------------------------------------------
(* Digital keys: on their own page and beside a reservation. The page asks *)
(* the API without a mutation and refetches its list itself.               *)

KeyHooks == Hooks(Whole("digital-keys"), Each({"issue", "issueByConfirm", "revoke"}, {"digital-keys"}))
KeyService == LET own == {"digital-keys"} IN
    [issue |-> Adds("ACTIVE", own), issueByConfirm |-> Adds("ACTIVE", own),
     revoke |-> Takes({"ACTIVE"}, {"REVOKED"}, own)]
DigitalKeyPanel ==
    [hooks |-> KeyHooks, service |-> KeyService,
     panels |-> <<Panel("digital-keys", [ACTIVE |-> {"revoke"}], {"issue"}, {"issue"})>>]
DigitalKeyCard == Panel("digital-keys", [ACTIVE |-> {"revoke"}], {}, {})
IssueForm == Panel("digital-keys", NoButtons, {"issueByConfirm"}, {"issueByConfirm"})
DigitalKeysClient ==
    [hooks |-> KeyHooks, service |-> KeyService, panels |-> <<DigitalKeyCard, IssueForm>>]

-----------------------------------------------------------------------------
(* Wake-up calls: the day's list, and those of a reservation *)

CallHooks == Hooks(Whole("wake-up-calls"),
                   Each({"create", "complete", "miss", "cancel"}, {"wake-up-calls"}))
CallService == LET own == {"wake-up-calls"} IN
    [create |-> Adds("SCHEDULED", own),
     complete |-> Takes({"SCHEDULED"}, {"COMPLETED"}, own),
     miss |-> Takes({"SCHEDULED"}, {"MISSED"}, own),
     cancel |-> Takes({"SCHEDULED"}, {"CANCELLED"}, own)]
WakeUpCallsClient ==
    [hooks |-> CallHooks, service |-> CallService,
     panels |-> <<Panel("wake-up-calls", [SCHEDULED |-> {"complete", "miss", "cancel"}], {}, {})>>]
WakeUpCallPanel ==
    [hooks |-> CallHooks, service |-> CallService,
     panels |-> <<Panel("wake-up-calls", [SCHEDULED |-> {"complete", "miss", "cancel"}],
                        {"create"}, {"create"})>>]

-----------------------------------------------------------------------------
(* TM.30 reports *)

ReportHooks == Hooks(Whole("tm30-reports"),
                     Each({"generate", "submit", "confirm", "fail"}, {"tm30-reports"}))
Tm30ReportCard == Panel("tm30-reports",
    [PENDING |-> {"submit"}, SUBMITTED |-> {"confirm", "fail"}], {}, {})
ReportService == LET own == {"tm30-reports"} IN
    [generate |-> Adds("PENDING", own),
     submit |-> Takes({"PENDING"}, {"SUBMITTED"}, own),
     confirm |-> Takes({"SUBMITTED"}, {"CONFIRMED"}, own),
     fail |-> Takes({"SUBMITTED"}, {"FAILED"}, own)]
Tm30ReportsClient ==
    [hooks |-> ReportHooks, service |-> ReportService,
     panels |-> <<Tm30ReportCard, Panel("tm30-reports", NoButtons, {"generate"}, {"generate"})>>]

-----------------------------------------------------------------------------
(* Registration cards: beside a reservation, which has one draft at most;  *)
(* the page where a guest signs one, which asks for a signature whatever   *)
(* the card's status; the page that prints one, and likewise offers it.    *)

CardHooks == Hooks(Whole("registration-cards"),
    Both(Each({"create", "sign", "void"}, {"registration-cards"}), [print |-> {}]))
CardService == LET own == {"registration-cards"} IN
    [create |-> TakesOrSame({"NONE"}, {"DRAFT"}, {"DRAFT"}, own),
     sign |-> Takes({"DRAFT"}, {"SIGNED"}, own),
     void |-> Takes({"SIGNED"}, {"VOID"}, own),
     print |-> Takes({"SIGNED"}, {"SIGNED"}, {})]
RegistrationCardPanel ==
    [hooks |-> CardHooks, service |-> CardService,
     panels |-> <<Panel("registration-cards", [SIGNED |-> {"print", "void"}],
                        {"create"}, {"create"})>>]
RegistrationCardSignClient ==
    [hooks |-> CardHooks, service |-> CardService,
     panels |-> <<Panel("registration-cards",
                        [DRAFT |-> {"sign"}, SIGNED |-> {"sign"}, VOID |-> {"sign"}], {}, {"sign"})>>]
RegistrationCardPrintClient ==
    [hooks |-> CardHooks, service |-> CardService,
     panels |-> <<Panel("registration-cards",
                        [DRAFT |-> {"print"}, SIGNED |-> {"print"}, VOID |-> {"print"}], {}, {})>>]

-----------------------------------------------------------------------------
(* Card holds *)

PreauthHooks == Hooks(Both(Whole("card-preauths"), Whole("folios")),
    Both(Each({"create", "increment", "release"}, {"card-preauths"}),
         [capture |-> {"card-preauths", "folios"}]))
CardPreauthList == LET steps == {"increment", "capture", "release"} IN
    Panel("card-preauths", [HELD |-> steps, INCREMENTAL |-> steps], {}, steps)
HoldCardPreauthForm == Panel("card-preauths", NoButtons, {"create"}, {"create"})
PreauthService == LET open == {"HELD", "INCREMENTAL"} IN
    [create |-> Adds("HELD", {"card-preauths"}),
     increment |-> Takes(open, {"INCREMENTAL"}, {"card-preauths"}),
     release |-> Takes(open, {"RELEASED"}, {"card-preauths"}),
     capture |-> Takes(open, {"CAPTURED"}, {"card-preauths", "folios"})]
CardPreauthsClient ==
    [hooks |-> PreauthHooks, service |-> PreauthService,
     panels |-> <<CardPreauthList, HoldCardPreauthForm>>]

-----------------------------------------------------------------------------
(* Tax invoices *)

TaxInvoiceHooks == Hooks(Whole("tax-invoices"), Each({"issue", "void"}, {"tax-invoices"}))
TaxInvoiceList == Panel("tax-invoices", [OPEN |-> {"void"}], {}, {"void"})
IssueTaxInvoiceForm == Panel("tax-invoices", NoButtons, {"issue"}, {"issue"})
TaxInvoiceService ==
    [issue |-> Adds("OPEN", {"tax-invoices"}),
     void |-> Takes({"OPEN"}, {"VOID"}, {"tax-invoices"})]
TaxInvoicesClient ==
    [hooks |-> TaxInvoiceHooks, service |-> TaxInvoiceService,
     panels |-> <<TaxInvoiceList, IssueTaxInvoiceForm>>]

-----------------------------------------------------------------------------
(* Shifts: one's own, which the API answers with 404 and the client with   *)
(* null when none is open, and the day's. A handover also opens the        *)
(* successor's, which is another cashier's.                                *)

ShiftQueries == [shifts |-> {}, current |-> {"CLOSED", "BALANCED"}]
ShiftHooks == Hooks(ShiftQueries,
    Each({"open", "close", "handover", "approve"}, {"shifts", "current"}))
ShiftService == LET both == {"shifts", "current"} IN
    [open |-> Adds("OPEN", both),
     close |-> Takes({"OPEN"}, {"CLOSED", "BALANCED"}, both),
     handover |-> Takes({"OPEN"}, {"CLOSED", "BALANCED"}, both),
     approve |-> Takes({"CLOSED"}, {"BALANCED"}, {"shifts"})]
OpenShiftForm == Panel("current", NoButtons, {"open"}, {"open"})
CloseShiftForm == Panel("current", [OPEN |-> {"close"}], {}, {"close"})
HandoverShiftForm == Panel("current", [OPEN |-> {"handover"}], {}, {"handover"})
TodayShiftList == Panel("shifts", [CLOSED |-> {"approve"}], {}, {"approve"})
ShiftsClient ==
    [hooks |-> ShiftHooks, service |-> ShiftService,
     panels |-> <<OpenShiftForm, CloseShiftForm, HandoverShiftForm, TodayShiftList>>]

-----------------------------------------------------------------------------
(* Recommendations of rates; only the pending ones are read. A generation, *)
(* a dismissal and a competitor's rate ask for all of the screen again.    *)

YieldQueries == [pace |-> {}, recommendations |-> {"APPLIED", "DISMISSED"}, competitors |-> {}]
YieldHooks == Hooks(YieldQueries,
    Each({"generate", "apply", "dismiss", "addCompetitor"}, DOMAIN YieldQueries))
RecommendationList == Panel("recommendations", [PENDING |-> {"apply", "dismiss"}], {}, {})
GenerateButton == Panel("recommendations", NoButtons, {"generate"}, {})
CompetitorPanel == Panel("competitors", NoButtons, {"addCompetitor"}, {})
YieldService ==
    [generate |-> Adds("PENDING", {"recommendations"}),
     apply |-> Takes({"PENDING"}, {"APPLIED"}, {"recommendations"}),
     dismiss |-> Takes({"PENDING"}, {"DISMISSED"}, {"recommendations"}),
     addCompetitor |-> Adds("NONE", {"competitors"})]
YieldClient ==
    [hooks |-> YieldHooks, service |-> YieldService,
     panels |-> <<RecommendationList, GenerateButton, CompetitorPanel>>]

-----------------------------------------------------------------------------
(* Group allotments. The panel of a block offers both steps at any status. *)

BlockHooks == Hooks(Both(Whole("blocks"), Whole("block-pickup")),
                    Each({"create", "attach", "release"}, {"blocks", "block-pickup"}))
CreateBlockForm == Panel("blocks", NoButtons, {"create"}, {})
PickupPanel == LET steps == {"attach", "release"} IN
    Panel("blocks", [OPEN |-> steps, RELEASED |-> steps], {}, {})
BlockService == LET both == {"blocks", "block-pickup"} IN
    [create |-> Adds("OPEN", both),
     attach |-> Takes({"OPEN"}, {"OPEN"}, both),
     release |-> Takes({"OPEN"}, {"RELEASED"}, both)]
BlocksClient ==
    [hooks |-> BlockHooks, service |-> BlockService, panels |-> <<CreateBlockForm, PickupPanel>>]

-----------------------------------------------------------------------------
(* Housekeeping: a row is a room, as its stage, the guest's request and    *)
(* whether it is out of order or service.                                  *)

Look(stage, request, closed) == [stage |-> stage, request |-> request, closed |-> closed]
RoomLooks ==
    [DIRTY |-> Look("DIRTY", "NONE", FALSE), DIRTY_DND |-> Look("DIRTY", "DND", FALSE),
     DIRTY_MUR |-> Look("DIRTY", "MUR", FALSE), CLEAN |-> Look("CLEAN", "NONE", FALSE),
     CLEAN_DND |-> Look("CLEAN", "DND", FALSE), CLEAN_MUR |-> Look("CLEAN", "MUR", FALSE),
     READY |-> Look("READY", "NONE", FALSE), READY_DND |-> Look("READY", "DND", FALSE),
     READY_MUR |-> Look("READY", "MUR", FALSE),
     SHUT_DIRTY |-> Look("DIRTY", "NONE", TRUE), SHUT_DIRTY_DND |-> Look("DIRTY", "DND", TRUE),
     SHUT_DIRTY_MUR |-> Look("DIRTY", "MUR", TRUE), SHUT_CLEAN |-> Look("CLEAN", "NONE", TRUE),
     SHUT_CLEAN_DND |-> Look("CLEAN", "DND", TRUE), SHUT_CLEAN_MUR |-> Look("CLEAN", "MUR", TRUE),
     SHUT_READY |-> Look("READY", "NONE", TRUE), SHUT_READY_DND |-> Look("READY", "DND", TRUE),
     SHUT_READY_MUR |-> Look("READY", "MUR", TRUE)]
AnyRoom == DOMAIN RoomLooks
Stage(stages) == {s \in AnyRoom : RoomLooks[s].stage \in stages}
Asking(requests) == {s \in AnyRoom : RoomLooks[s].request \in requests}
Shut == {s \in AnyRoom : RoomLooks[s].closed}

\* A room like it in another stage, or of another request.
Restaged(s, stage) == {t \in AnyRoom : RoomLooks[t] = [RoomLooks[s] EXCEPT !.stage = stage]}
Requested(s, request) == {t \in AnyRoom : RoomLooks[t] = [RoomLooks[s] EXCEPT !.request = request]}

RoomHooks == Hooks(Whole("housekeeping-board"),
    Each({"markClean", "setDnd", "setMur", "clearRequest", "inspect"}, {"housekeeping-board"}))
HkRoomCard == Panel("housekeeping-board",
    [s \in AnyRoom |->
        (IF s \in Asking({"DND"}) THEN {} ELSE {"setDnd"})
        \cup (IF s \in Asking({"MUR"}) THEN {} ELSE {"setMur"})
        \cup (IF s \in Asking({"NONE"}) THEN {} ELSE {"clearRequest"})
        \cup (IF s \in Stage({"DIRTY"}) \ Asking({"DND"}) THEN {"markClean"} ELSE {})], {}, {})
HkInspectPanel == Panel("housekeeping-board",
    [s \in Stage({"CLEAN"}) |-> {"inspect"}], {}, {})

RequestStep(from, request) ==
    Step(from, {}, [s \in from |-> Requested(s, request)], {"housekeeping-board"})
RoomSteps ==
    LET own == {"housekeeping-board"}
        cleanable == AnyRoom \ (Shut \cup Asking({"DND"}))
        dirty == cleanable \cap Stage({"DIRTY"})
        clean == Stage({"CLEAN"}) \ Shut
    IN
    [markClean |-> Step(dirty, cleanable \cap Stage({"CLEAN"}),
                        [s \in dirty |-> Restaged(s, "CLEAN")], own),
     setDnd |-> RequestStep(AnyRoom \ Shut, "DND"), setMur |-> RequestStep(AnyRoom \ Shut, "MUR"),
     clearRequest |-> RequestStep(AnyRoom, "NONE"),
     inspect |-> Step(clean, {},
                      [s \in clean |-> Restaged(s, "READY") \cup Restaged(s, "DIRTY")], own)]

\* No panel's: a room's status set, which moves its stage; the room's form,
\* which does not; a check-out.
HkStageForStatusChange(room, next) ==
    \/ next.stage = "DIRTY" /\ ~next.closed
    \/ next.stage = (IF room.stage = "DIRTY" THEN "CLEAN" ELSE room.stage) /\ ~next.closed
    \/ next.stage = room.stage /\ next.closed
OtherRoomSteps == LET own == {"housekeeping-board"} IN
    [updateStatus |-> Step(AnyRoom, {},
        [s \in AnyRoom |-> {t \in AnyRoom : /\ RoomLooks[t].request = RoomLooks[s].request
                                           /\ HkStageForStatusChange(RoomLooks[s], RoomLooks[t])}], own),
     update |-> Step(AnyRoom, {},
        [s \in AnyRoom |-> {t \in AnyRoom : /\ RoomLooks[t].request = RoomLooks[s].request
                                           /\ RoomLooks[t].stage = RoomLooks[s].stage}], own),
     checkOut |-> Takes(AnyRoom, {"DIRTY"}, own)]
HousekeepingClient ==
    [hooks |-> RoomHooks, panels |-> <<HkRoomCard, HkInspectPanel>>,
     service |-> Both(RoomSteps, OtherRoomSteps)]

-----------------------------------------------------------------------------
(* City ledger: a row is an invoice *)

ArQueries == [accounts |-> {}, invoices |-> {}, aging |-> {}, folios |-> {}]

\* Mutant: a payment leaves the aging of the account as it was read.
ArHooksNoAging == Hooks(ArQueries,
    [createAccount |-> {"accounts"}, transfer |-> {"accounts", "invoices", "folios"},
     allocate |-> {"accounts", "invoices"}])
ArHooks == Hooks(ArQueries,
    [createAccount |-> {"accounts"}, transfer |-> {"accounts", "invoices", "folios"},
     allocate |-> {"accounts", "invoices", "aging"}])
CreateArAccountForm == Panel("accounts", NoButtons, {"createAccount"}, {"createAccount"})
TransferFolioForm == Panel("folios", NoButtons, {"transfer"}, {"transfer"})
ArInvoicePanel == Panel("invoices",
    [OPEN |-> {"allocate"}, PARTIAL |-> {"allocate"}], {}, {"allocate"})
ArService ==
    [createAccount |-> Adds("NONE", {"accounts"}),
     transfer |-> Adds("OPEN", DOMAIN ArQueries),
     allocate |-> Takes({"OPEN", "PARTIAL"}, {"PARTIAL", "PAID"},
                        {"accounts", "invoices", "aging"})]
ArAccountsClient ==
    [hooks |-> ArHooks, service |-> ArService,
     panels |-> <<CreateArAccountForm, TransferFolioForm, ArInvoicePanel>>]

-----------------------------------------------------------------------------
(* Hardware agents; the jobs are GuestServices' *)

AgentHooks == Hooks(Both(Whole("hardware-agents"), Whole("hardware-jobs")),
    Each({"register", "heartbeat"}, {"hardware-agents", "hardware-jobs"}))
HbAgentsPanel == Panel("hardware-agents", [ONLINE |-> {"heartbeat"}], {"register"}, {})
AgentService ==
    [register |-> Adds("ONLINE", {"hardware-agents"}),
     heartbeat |-> Takes({"ONLINE"}, {"ONLINE"}, {"hardware-agents"})]
HardwareBridgeClient ==
    [hooks |-> AgentHooks, service |-> AgentService, panels |-> <<HbAgentsPanel>>]

-----------------------------------------------------------------------------
(* Rates: the list shows no amount field for one that is derived *)

RateHooks == Hooks(Whole("rates"), Each({"create", "update"}, {"rates"}))
CreateRateForm == Panel("rates", NoButtons, {"create"}, {"create"})
RateList == Panel("rates", [BASE |-> {"update"}], {}, {"update"})
RateService ==
    [create |-> Takes({"NONE"}, {"BASE", "DERIVED"}, {"rates"}),
     update |-> Takes({"BASE"}, {"BASE"}, {"rates"}),
     derive |-> Takes({"BASE"}, {"DERIVED"}, {"rates"})]
RatesClient ==
    [hooks |-> RateHooks, service |-> RateService, panels |-> <<CreateRateForm, RateList>>]

-----------------------------------------------------------------------------
(* Partner hotels and exchange rates are switched on and off; of the       *)
(* exchange rates only the active ones are read, so that nobody is ever    *)
(* shown the button that switches one on again.                            *)

PartnerHooks == Hooks(Whole("partner-hotels"), 
    Each({"create", "activate", "deactivate"}, {"partner-hotels"}))
CreatePartnerHotelForm == Panel("partner-hotels", NoButtons, {"create"}, {"create"})
PartnerHotelList == Panel("partner-hotels", [ON |-> {"deactivate"}, OFF |-> {"activate"}],
    {}, {"activate", "deactivate"})
PartnerService ==
    [create |-> Adds("ON", {"partner-hotels"}),
     activate |-> Takes({"ON", "OFF"}, {"ON"}, {"partner-hotels"}),
     deactivate |-> Takes({"ON", "OFF"}, {"OFF"}, {"partner-hotels"})]
PartnerHotelsClient ==
    [hooks |-> PartnerHooks, service |-> PartnerService,
     panels |-> <<CreatePartnerHotelForm, PartnerHotelList>>]

ExchangeRateHooks == Hooks([name \in {"exchange-rates"} |-> {"OFF"}],
    Each({"create", "activate", "deactivate"}, {"exchange-rates"}))
ExchangeRateForm == Panel("exchange-rates", NoButtons, {"create"}, {"create"})
ExchangeRateList == Panel("exchange-rates", [ON |-> {"deactivate"}, OFF |-> {"activate"}],
    {}, {"activate", "deactivate"})
ExchangeRateService ==
    [create |-> Adds("ON", {"exchange-rates"}),
     activate |-> Takes({"ON", "OFF"}, {"ON"}, {"exchange-rates"}),
     deactivate |-> Takes({"ON", "OFF"}, {"OFF"}, {"exchange-rates"})]
ExchangeRatesClient ==
    [hooks |-> ExchangeRateHooks, service |-> ExchangeRateService,
     panels |-> <<ExchangeRateForm, ExchangeRateList>>]


-----------------------------------------------------------------------------
\* The API is called without a mutation, and the list read again.
DirectSteps == {"issueByConfirm"}

\* Queries kept in IndexedDB over a reload.
PersistedQueries == {"housekeeping-board", "hardware-agents", "hardware-jobs"}

\* What a screen offers of rows whose status it does not look at.
OfferedRegardless ==
    {<<"blocks", "attach", "RELEASED">>, <<"blocks", "release", "RELEASED">>,
     <<"signing", "sign", "SIGNED">>, <<"signing", "sign", "VOID">>,
     <<"printing", "print", "DRAFT">>, <<"printing", "print", "VOID">>}
        \cup {"housekeeping"} \X {"markClean", "setDnd", "setMur", "inspect"} \X Shut

\* What a step changes and its hook does not ask for again.
LeftBehind == {<<"transfer", "aging">>}
=============================================================================
