----------------------------- MODULE Settlement -----------------------------
(***************************************************************************)
(* How folios are settled and booked: transfers to a company's account     *)
(* (city ledger) and payments of its invoices, card holds and their        *)
(* capture, tax invoices, and the journal. All of them read the guest      *)
(* ledger, most of them post on it, and each is a service of its own that  *)
(* looks at the folio once and writes later.                               *)
(***************************************************************************)
EXTENDS FolioLedger

CONSTANTS
    Holds, NoHold,      \* CardPreauth rows
    Reservations,
    ReservationOf,      \* the reservation a folio belongs to
    Sources,            \* MANUAL and NIGHT_AUDIT
    GLAccounts,
    GLCode,             \* TransactionCode.glAccountCode by code
    CodeType,           \* TransactionCode.type by code
    Amounts,            \* payments, holds and captures
    Limits,             \* what an account's limit is set to
    MaxInvoices,        \* bound: rows of Invoice
    MaxPayments,        \* bound: rows of InvoicePayment
    MaxTaxInvoices,     \* bound: rows of TaxInvoice
    Scenes              \* the inputs and bounds of a behaviour:
                        \*   calls         handlers in flight at a time
                        \*   rows          rows of FolioTransaction
                        \*   reservations  those that cards are held for
                        \*   amounts       what calls are made with
                        \*   taxInvoices   rows of TaxInvoice
                        \*   holdsInTurn   no two calls on one hold overlap

VARIABLES
    known,              \* accounts that have been created
    invoice,            \* Invoice rows, in order of their number
    payment,            \* InvoicePayment rows
    hold,               \* CardPreauth rows
    taxInvoice,         \* TaxInvoice rows, in order of their number
    entry,              \* JournalEntry by source, of one business date
    gl,                 \* GLAccount.balance
    scene               \* one of Scenes, for good

cityVars == <<known, invoice, payment>>
bookVars == <<entry, gl>>
settleVars == <<known, invoice, payment, hold, taxInvoice, entry, gl>>
allVars == <<folio, winbal, trx, req, shift, account,
             known, invoice, payment, hold, taxInvoice, entry, gl>>

-----------------------------------------------------------------------------
CITY_LEDGER == "9005"
CARD_PAYMENT == "9001"
GUEST_LEDGER == "1100"
NoEntry == [a \in GLAccounts |-> [debit |-> -1, credit |-> -1]]

ASSUME SettlementAssumption ==
    /\ NoHold \notin Holds
    /\ ReservationOf \in [Folios -> Reservations]
    /\ Amounts \subseteq Nat \ {0}
    /\ Limits \subseteq Int
    /\ MaxInvoices \in Nat /\ MaxPayments \in Nat /\ MaxTaxInvoices \in Nat
    /\ \A s \in Scenes : s.amounts \subseteq Amounts /\ s.reservations \subseteq Reservations
    /\ GUEST_LEDGER \in GLAccounts
    /\ IsFiniteSet(GLAccounts) /\ IsFiniteSet(Sources)

\* Nothing is assumed here: TLC evaluates it, the provers have no rule that
\* makes a literal a string.
ASSUME CodesAreStrings == CITY_LEDGER \in STRING /\ CARD_PAYMENT \in STRING

NoPreauth == [status |-> "NONE", reservation |-> NoHold, amount |-> 0,
              captured |-> 0, trx |-> 0]

LiveInvoices(f) == {i \in DOMAIN invoice : invoice[i].folio = f /\ invoice[i].status # "VOID"}
LiveTaxInvoices(f) == {i \in DOMAIN taxInvoice : taxInvoice[i].folio = f /\ ~taxInvoice[i].void}

OneLine(code, amount) == <<[code |-> code, amount |-> amount, sign |-> -1]>>

SettleInit ==
    /\ Init
    /\ shift \in [Shifts -> [user : Cashiers, status : {"OPEN"}]]
    /\ account = [a \in Accounts |-> [active |-> FALSE, limit |-> 0, balance |-> 0]]
    /\ known = {}
    /\ invoice = <<>> /\ payment = <<>> /\ taxInvoice = <<>>
    /\ hold = [h \in Holds |-> NoPreauth]
    /\ entry = [s \in Sources |-> NoEntry]
    /\ gl = [a \in GLAccounts |-> 0]
    /\ scene \in Scenes

-----------------------------------------------------------------------------
(* ArAccountsService: accounts *)

CreateAccount(r, a, limit, active) ==
    /\ req[r] = Idle
    /\ a \notin known
    /\ known' = known \cup {a}
    /\ account' = [account EXCEPT ![a] = [active |-> active, limit |-> limit, balance |-> 0]]
    /\ UNCHANGED <<ledgerVars, req, shift, invoice, payment, hold, taxInvoice, bookVars>>

\* findOne and the update are two queries; nobody deletes an account, and the
\* update writes only what the caller sends, never the balance.
UpdateAccount(r, a, limit, active) ==
    /\ req[r] = Idle
    /\ a \in known
    /\ account' = [account EXCEPT ![a].active = active, ![a].limit = limit]
    /\ UNCHANGED <<ledgerVars, req, shift, settleVars>>

-----------------------------------------------------------------------------
(* transfer: the account, the folio, its invoices and the shift are read   *)
(* one after the other; the transaction posts the balance read first.      *)

TransferRead(r, a) ==
    /\ a \in known
    /\ account[a].active
    /\ Begin(r, [op |-> "transferFolio", account |-> a])
    /\ UNCHANGED <<ledgerVars, shift, account, settleVars>>

TransferLoad(r, f) ==
    /\ req[r].op = "transferFolio"
    /\ Exists(f)
    /\ ~folio[f].isClosed
    /\ folio[f].status \notin {"CLOSED", "POSTED_TO_CITY_LEDGER"}
    /\ folio[f].balance > 0
    /\ req' = [req EXCEPT ![r] = [op |-> "transferCheck", account |-> @.account,
                                  folio |-> f, amount |-> folio[f].balance]]
    /\ UNCHANGED <<ledgerVars, shift, account, settleVars>>

TransferCheck(r) ==
    /\ req[r].op = "transferCheck"
    /\ LiveInvoices(req[r].folio) = {}
    /\ req' = [req EXCEPT ![r].op = "transferShift"]
    /\ UNCHANGED <<ledgerVars, shift, account, settleVars>>

TransferShift(r, u, sh) ==
    /\ req[r].op = "transferShift"
    /\ ResolvesTo(u, sh)
    /\ req' = [req EXCEPT ![r] = [op |-> "transfer", account |-> @.account, folio |-> @.folio,
                                  amount |-> @.amount, user |-> u, shift |-> sh]]
    /\ UNCHANGED <<ledgerVars, shift, account, settleVars>>

NewInvoice(h) ==
    [account |-> h.account, folio |-> h.folio, amount |-> h.amount, paid |-> 0,
     status |-> "OPEN"]

\* Mutant: the folio is invoiced and closed, nothing is posted on it.
TransferWithoutPosting(r) ==
    LET h == req[r] IN
    /\ h.op = "transfer"
    /\ Len(invoice) < MaxInvoices
    /\ invoice' = Append(invoice, NewInvoice(h))
    /\ account' = [account EXCEPT ![h.account].balance = @ + h.amount]
    /\ folio' = [folio EXCEPT ![h.folio].status = "POSTED_TO_CITY_LEDGER",
                              ![h.folio].isClosed = TRUE]
    /\ End(r)
    /\ UNCHANGED <<trx, winbal, shift, known, payment, hold, taxInvoice, bookVars>>

TransferCommit(r) ==
    LET h == req[r] IN
    /\ h.op = "transfer"
    /\ Len(invoice) < MaxInvoices
    /\ PersistPostingLines(h.folio, 1, h.user, h.shift, OneLine(CITY_LEDGER, h.amount))
    /\ invoice' = Append(invoice, NewInvoice(h))
    /\ account' = [account EXCEPT ![h.account].balance = @ + h.amount]
    /\ folio' = [folio EXCEPT ![h.folio].status = "POSTED_TO_CITY_LEDGER",
                              ![h.folio].isClosed = TRUE,
                              ![h.folio].balance = @ - h.amount]
    /\ End(r)
    /\ UNCHANGED <<shift, known, payment, hold, taxInvoice, bookVars>>

-----------------------------------------------------------------------------
(* allocatePayment: what was paid so far is read before the transaction    *)
(* and written back as a sum.                                              *)

\* Mutant: an invoice is paid only when more was paid than it asks for.
StatusOverpaid(amount, paid) ==
    IF paid <= 0 THEN "OPEN" ELSE IF amount - paid < 0 THEN "PAID" ELSE "PARTIAL"

StatusAfterPayment(amount, paid) ==
    IF paid <= 0 THEN "OPEN" ELSE IF amount - paid <= 0 THEN "PAID" ELSE "PARTIAL"

AllocateRead(r, i, amount) ==
    /\ i \in DOMAIN invoice
    /\ invoice[i].status \notin {"VOID", "PAID"}
    /\ amount <= invoice[i].amount - invoice[i].paid
    /\ Begin(r, [op |-> "allocate", invoice |-> i, amount |-> amount,
                 paid |-> invoice[i].paid + amount])
    /\ UNCHANGED <<ledgerVars, shift, account, settleVars>>

\* Mutant: only the last payment is written to the invoice.
AllocateKeepsLast(r) ==
    LET h == req[r] IN
    /\ h.op = "allocate"
    /\ Len(payment) < MaxPayments
    /\ payment' = Append(payment, [invoice |-> h.invoice, amount |-> h.amount])
    /\ account' = [account EXCEPT ![invoice[h.invoice].account].balance = @ - h.amount]
    /\ invoice' = [invoice EXCEPT ![h.invoice].paid = h.amount,
            ![h.invoice].status = StatusAfterPayment(invoice[h.invoice].amount, h.amount)]
    /\ End(r)
    /\ UNCHANGED <<ledgerVars, shift, known, hold, taxInvoice, bookVars>>

\* Mutant: the account is relieved of all that was paid so far.
AllocateRelievesTotal(r) ==
    LET h == req[r] IN
    /\ h.op = "allocate"
    /\ Len(payment) < MaxPayments
    /\ payment' = Append(payment, [invoice |-> h.invoice, amount |-> h.amount])
    /\ account' = [account EXCEPT ![invoice[h.invoice].account].balance = @ - h.paid]
    /\ invoice' = [invoice EXCEPT ![h.invoice].paid = h.paid,
            ![h.invoice].status = StatusAfterPayment(invoice[h.invoice].amount, h.paid)]
    /\ End(r)
    /\ UNCHANGED <<ledgerVars, shift, known, hold, taxInvoice, bookVars>>

AllocateCommit(r) ==
    LET h == req[r] IN
    /\ h.op = "allocate"
    /\ Len(payment) < MaxPayments
    /\ payment' = Append(payment, [invoice |-> h.invoice, amount |-> h.amount])
    /\ account' = [account EXCEPT ![invoice[h.invoice].account].balance = @ - h.amount]
    /\ invoice' = [invoice EXCEPT ![h.invoice].paid = h.paid,
            ![h.invoice].status = StatusAfterPayment(invoice[h.invoice].amount, h.paid)]
    /\ End(r)
    /\ UNCHANGED <<ledgerVars, shift, known, hold, taxInvoice, bookVars>>

-----------------------------------------------------------------------------
(* CardPreauthsService: a hold is read, then written without a condition.  *)

OpenHold(h) == hold[h].status \in {"HELD", "INCREMENTAL"}

CreateHold(r, h, reservation, amount) ==
    /\ req[r] = Idle
    /\ hold[h].status = "NONE"
    /\ hold' = [hold EXCEPT ![h] = [NoPreauth EXCEPT !.status = "HELD",
                    !.reservation = reservation, !.amount = amount]]
    /\ UNCHANGED <<ledgerVars, req, shift, account, cityVars, taxInvoice, bookVars>>

IncrementRead(r, h, amount) ==
    /\ OpenHold(h)
    /\ amount > hold[h].amount
    /\ Begin(r, [op |-> "increment", hold |-> h, amount |-> amount])
    /\ UNCHANGED <<ledgerVars, shift, account, settleVars>>

IncrementCommit(r) ==
    LET h == req[r].hold IN
    /\ req[r].op = "increment"
    /\ hold' = [hold EXCEPT ![h].amount = req[r].amount, ![h].status = "INCREMENTAL"]
    /\ End(r)
    /\ UNCHANGED <<ledgerVars, shift, account, cityVars, taxInvoice, bookVars>>

ReleaseRead(r, h) ==
    /\ OpenHold(h)
    /\ Begin(r, [op |-> "release", hold |-> h])
    /\ UNCHANGED <<ledgerVars, shift, account, settleVars>>

ReleaseCommit(r) ==
    /\ req[r].op = "release"
    /\ hold' = [hold EXCEPT ![req[r].hold].status = "RELEASED"]
    /\ End(r)
    /\ UNCHANGED <<ledgerVars, shift, account, cityVars, taxInvoice, bookVars>>

\* Mutant: any hold that exists may be captured, a captured one included.
CaptureReadAny(r, h, amount) ==
    /\ hold[h].status # "NONE"
    /\ amount <= hold[h].amount
    /\ Begin(r, [op |-> "captureFolio", hold |-> h, amount |-> amount,
                 reservation |-> hold[h].reservation])
    /\ UNCHANGED <<ledgerVars, shift, account, settleVars>>

CaptureRead(r, h, amount) ==
    /\ OpenHold(h)
    /\ amount <= hold[h].amount
    /\ Begin(r, [op |-> "captureFolio", hold |-> h, amount |-> amount,
                 reservation |-> hold[h].reservation])
    /\ UNCHANGED <<ledgerVars, shift, account, settleVars>>

\* The folio must be the reservation's; whether it is open is not asked.
CaptureLoad(r, f) ==
    /\ req[r].op = "captureFolio"
    /\ Exists(f)
    /\ ReservationOf[f] = req[r].reservation
    /\ req' = [req EXCEPT ![r] = [op |-> "captureShift", hold |-> @.hold,
                                  amount |-> @.amount, folio |-> f]]
    /\ UNCHANGED <<ledgerVars, shift, account, settleVars>>

CaptureShift(r, u, sh) ==
    /\ req[r].op = "captureShift"
    /\ ResolvesTo(u, sh)
    /\ req' = [req EXCEPT ![r] = [op |-> "capture", hold |-> @.hold, amount |-> @.amount,
                                  folio |-> @.folio, user |-> u, shift |-> sh]]
    /\ UNCHANGED <<ledgerVars, shift, account, settleVars>>

CaptureCommit(r) ==
    LET h == req[r] IN
    /\ h.op = "capture"
    /\ PersistPostingLines(h.folio, 1, h.user, h.shift, OneLine(CARD_PAYMENT, h.amount))
    /\ folio' = [folio EXCEPT ![h.folio].balance = @ - h.amount]
    /\ hold' = [hold EXCEPT ![h.hold].status = "CAPTURED", ![h.hold].captured = h.amount,
                            ![h.hold].trx = Len(trx) + 1]
    /\ End(r)
    /\ UNCHANGED <<shift, account, cityVars, taxInvoice, bookVars>>

-----------------------------------------------------------------------------
(* TaxInvoicesService: the charges are read with the folio; the invoice    *)
(* keeps the sum.                                                          *)

IsCharge(row) == ~row.void /\ row.sign = 1

SumAmounts(rows) == SumFunctionOnSet([t \in DOMAIN trx |-> trx[t].amount], rows)

SnapshotFolioCharges(f) ==
    SumAmounts({t \in DOMAIN trx : trx[t].folio = f /\ IsCharge(trx[t])})

IssueRead(r, f) ==
    /\ Exists(f)
    /\ Begin(r, [op |-> "issueCheck", folio |-> f, total |-> SnapshotFolioCharges(f)])
    /\ UNCHANGED <<ledgerVars, shift, account, settleVars>>

IssueCheck(r) ==
    /\ req[r].op = "issueCheck"
    /\ LiveTaxInvoices(req[r].folio) = {}
    /\ req' = [req EXCEPT ![r].op = "issue"]
    /\ UNCHANGED <<ledgerVars, shift, account, settleVars>>

IssueCommit(r) ==
    /\ req[r].op = "issue"
    /\ Len(taxInvoice) < scene.taxInvoices
    /\ taxInvoice' = Append(taxInvoice,
                        [folio |-> req[r].folio, total |-> req[r].total, void |-> FALSE])
    /\ End(r)
    /\ UNCHANGED <<ledgerVars, shift, account, cityVars, hold, bookVars>>

VoidTaxRead(r, i) ==
    /\ i \in DOMAIN taxInvoice
    /\ ~taxInvoice[i].void
    /\ Begin(r, [op |-> "voidTax", tax |-> i])
    /\ UNCHANGED <<ledgerVars, shift, account, settleVars>>

VoidTaxCommit(r) ==
    /\ req[r].op = "voidTax"
    /\ taxInvoice' = [taxInvoice EXCEPT ![req[r].tax].void = TRUE]
    /\ End(r)
    /\ UNCHANGED <<ledgerVars, shift, account, cityVars, hold, bookVars>>

-----------------------------------------------------------------------------
(* JournalsService.postForBusinessDate: one entry per source, from the     *)
(* rows that are not void, two lines per row that has an amount and a code *)
(* with an account. The sign of a row is not looked at when its code is a  *)
(* charge or a payment, the sign of its amount never.                      *)

IsChargeLike(row) ==
    CodeType[row.code] # "PAYMENT" /\ (CodeType[row.code] = "CHARGE" \/ row.sign = 1)

DebitOf(row) == IF IsChargeLike(row) THEN GUEST_LEDGER ELSE GLCode[row.code]
CreditOf(row) == IF IsChargeLike(row) THEN GLCode[row.code] ELSE GUEST_LEDGER

Drafted ==
    {t \in DOMAIN trx : ~trx[t].void /\ trx[t].amount # 0 /\ GLCode[trx[t].code] # ""}
Magnitude(n) == IF n < 0 THEN -n ELSE n
SumDrafted(rows) == SumFunctionOnSet([t \in DOMAIN trx |-> Magnitude(trx[t].amount)], rows)

\* Mutant: payments are journaled like charges.
LinesAllCharges ==
    [a \in GLAccounts |->
        [debit |-> SumDrafted({t \in Drafted : GUEST_LEDGER = a}),
         credit |-> SumDrafted({t \in Drafted : GLCode[trx[t].code] = a})]]

\* draftLinesForTransaction over the rows, merged by account.
BuildLines ==
    [a \in GLAccounts |->
        [debit |-> SumDrafted({t \in Drafted : DebitOf(trx[t]) = a}),
         credit |-> SumDrafted({t \in Drafted : CreditOf(trx[t]) = a})]]

\* An account that was never seeded refuses the entry; isBalanced never does.
JournalRead(r, source) ==
    /\ entry[source] = NoEntry
    /\ \A t \in Drafted : GLCode[trx[t].code] \in GLAccounts
    /\ Begin(r, [op |-> "journal", source |-> source, lines |-> BuildLines])
    /\ UNCHANGED <<ledgerVars, shift, account, settleVars>>

\* Mutant: the balances of the accounts take the debits only.
ApplyDebits(lines) == [a \in GLAccounts |-> gl[a] + lines[a].debit]

ApplyAccountBalances(lines) ==
    [a \in GLAccounts |-> gl[a] + lines[a].debit - lines[a].credit]

JournalCommit(r) ==
    /\ req[r].op = "journal"
    /\ entry[req[r].source] = NoEntry
    /\ entry' = [entry EXCEPT ![req[r].source] = req[r].lines]
    /\ gl' = ApplyAccountBalances(req[r].lines)
    /\ End(r)
    /\ UNCHANGED <<ledgerVars, shift, account, cityVars, hold, taxInvoice>>

-----------------------------------------------------------------------------
LedgerCall(r) ==
    /\ \/ CreateRead(r) \/ CreateCommit(r)
       \/ Post(r) \/ Void(r) \/ Settle(r)
       \/ \E f \in Folios, limit \in LimitChoices : SetCreditLimit(r, f, limit)
       \/ \E f \in Folios, a \in known \cup {NoAccount} : SetArRead(r, f, a)
       \/ SetArCommit(r)
       \/ Fail(r)
    /\ UNCHANGED settleVars

CityLedger(r) ==
    \/ \E a \in Accounts, limit \in Limits, active \in BOOLEAN :
            CreateAccount(r, a, limit, active) \/ UpdateAccount(r, a, limit, active)
    \/ \E a \in Accounts : TransferRead(r, a)
    \/ \E f \in Folios : TransferLoad(r, f)
    \/ TransferCheck(r)
    \/ \E u \in Users, sh \in ShiftRef : TransferShift(r, u, sh)
    \/ TransferCommit(r)
    \/ \E i \in 1..MaxInvoices, amount \in scene.amounts : AllocateRead(r, i, amount)
    \/ AllocateCommit(r)

CardHolds(r) ==
    \/ \E h \in Holds, v \in scene.reservations, amount \in scene.amounts : CreateHold(r, h, v, amount)
    \/ \E h \in Holds, amount \in scene.amounts : IncrementRead(r, h, amount) \/ CaptureRead(r, h, amount)
    \/ IncrementCommit(r)
    \/ \E h \in Holds : ReleaseRead(r, h)
    \/ ReleaseCommit(r)
    \/ \E f \in Folios : CaptureLoad(r, f)
    \/ \E u \in Users, sh \in ShiftRef : CaptureShift(r, u, sh)
    \/ CaptureCommit(r)

TaxInvoices(r) ==
    \/ \E f \in Folios : IssueRead(r, f)
    \/ IssueCheck(r) \/ IssueCommit(r)
    \/ \E i \in 1..MaxTaxInvoices : VoidTaxRead(r, i)
    \/ VoidTaxCommit(r)

Journals(r) == (\E s \in Sources : JournalRead(r, s)) \/ JournalCommit(r)

\* A call in flight goes on; another begins while the scene allows one more.
Admitted(r) == req[r] = Idle => Cardinality({s \in Requests : req[s] # Idle}) < scene.calls

\* The calls that read a hold before they write it, and a desk where one of them
\* ends before the next one on the same hold begins.
HoldCalls == {"increment", "release", "captureFolio", "captureShift", "capture"}
OneCallAHold ==
    \A r, s \in Requests :
        (/\ req[r].op \in HoldCalls /\ req[s].op \in HoldCalls
         /\ req[r].hold = req[s].hold) => r = s

SettleNext ==
    \E r \in Requests :
        /\ Admitted(r)
        /\ LedgerCall(r) \/ CityLedger(r) \/ CardHolds(r) \/ TaxInvoices(r) \/ Journals(r)
        /\ Len(trx') <= scene.rows
        /\ scene.holdsInTurn => OneCallAHold'

SettleSpec == SettleInit /\ [][SettleNext /\ UNCHANGED scene]_<<allVars, scene>>

-----------------------------------------------------------------------------
(* What settling promises *)

OneAtATime == scene.calls = 1

PaymentsOf(i) == {p \in DOMAIN payment : payment[p].invoice = i}
PaidOn(i) == SumFunctionOnSet([p \in DOMAIN payment |-> payment[p].amount], PaymentsOf(i))
InvoicesOf(a) == {i \in DOMAIN invoice : invoice[i].account = a}

\* What a company's account says it owes is what it was invoiced less what was
\* paid, whatever payments and transfers overlap.
AccountIsInvoicedLessPaid ==
    \A a \in known :
        account[a].balance =
            SumFunctionOnSet([i \in DOMAIN invoice |-> invoice[i].amount - PaidOn(i)],
                             InvoicesOf(a))

\* An invoice never shows more paid than its amount, its status follows from
\* what it shows, and a folio posted to the city ledger has an invoice.
InvoicesAreSane ==
    /\ \A i \in DOMAIN invoice :
            /\ invoice[i].paid <= invoice[i].amount
            /\ invoice[i].status = "OPEN" <=> invoice[i].paid = 0
            /\ invoice[i].status = "PAID" <=> invoice[i].paid = invoice[i].amount
    /\ \A f \in Folios :
            folio[f].status = "POSTED_TO_CITY_LEDGER" => LiveInvoices(f) # {}

\* One call at a time: an invoice shows exactly the payments made on it, and a
\* folio has at most one live invoice and one live tax invoice.
InvoicesAgree == OneAtATime =>
    /\ \A i \in DOMAIN invoice : invoice[i].paid = PaidOn(i)
    /\ \A f \in Folios :
            Cardinality(LiveInvoices(f)) <= 1 /\ Cardinality(LiveTaxInvoices(f)) <= 1

\* What a capture of h leaves: one card payment more, worth what was taken, on a
\* folio of the reservation the card was held for; the hold names that row, and
\* no more was taken than is held.
ChargesHold(h) ==
    LET n == Len(trx) + 1 IN
    /\ Len(trx') = n /\ hold'[h].trx = n
    /\ trx'[n].code = CARD_PAYMENT /\ trx'[n].sign = -1
    /\ trx'[n].amount = hold'[h].captured /\ hold'[h].captured <= hold[h].amount
    /\ ReservationOf[trx'[n].folio] = hold[h].reservation

\* Where calls on one hold take turns, and whatever else is posted or voided
\* meanwhile: a hold is charged as above, once, a hold that was released never,
\* and a capture that posts shows on its hold. What the desk posts by hand under
\* the code of card payments is no charge of a hold.
HoldChargedOnce ==
    [][scene.holdsInTurn =>
        /\ \A h \in Holds : hold'[h] # hold[h] =>
                /\ hold[h].status \notin {"RELEASED", "CAPTURED"}
                /\ hold'[h].status = "CAPTURED" => ChargesHold(h)
        /\ \A r \in Requests :
                (req[r].op = "capture" /\ req'[r] # req[r] /\ trx' # trx)
                => hold'[req[r].hold].status = "CAPTURED"]_<<hold, req, trx>>

\* One call at a time: a transfer leaves the folio owing nothing and the company
\* owing exactly what the folio owed.
TransferSettles ==
    [][\A f \in Folios :
        (/\ OneAtATime
         /\ folio[f].status # "POSTED_TO_CITY_LEDGER"
         /\ folio'[f].status = "POSTED_TO_CITY_LEDGER")
        => /\ folio'[f].balance = 0
           /\ \E i \in DOMAIN invoice' \ DOMAIN invoice :
                invoice'[i].folio = f /\ invoice'[i].amount = folio[f].balance]_folio

\* The books: every account holds what the entries put on it (an entry that
\* was not booked puts nothing), and the trial balance is zero, over both
\* sources and whatever is posted meanwhile.
TrialBalanceIsZero ==
    /\ \A a \in GLAccounts :
            gl[a] = SumFunction([s \in Sources |-> entry[s][a].debit - entry[s][a].credit])
    /\ SumFunction(gl) = 0

\* A row that is journaled for what it is worth to its folio: the amount is no
\* less than zero, the sign is the one the type of the code stands for, and the
\* code has an account other than the guests'. The code sees to none of the three.
WorthItsEntry(row) ==
    /\ row.amount >= 0
    /\ row.sign = IF IsChargeLike(row) THEN 1 ELSE -1
    /\ GLCode[row.code] \notin {"", GUEST_LEDGER}

LinesFollowCodes ==
    /\ \A lines \in PostingLines : \A i \in DOMAIN lines : WorthItsEntry(lines[i])
    /\ \A code \in {CITY_LEDGER, CARD_PAYMENT} :
            CodeType[code] = "PAYMENT" /\ GLCode[code] \notin {"", GUEST_LEDGER}

\* While nothing was voided, the guest ledger account takes what the guests'
\* folios moved by.
Net == SumFunction([t \in DOMAIN trx |-> trx[t].sign * trx[t].amount])
BooksFollowFolios ==
    [][\A s \in Sources :
        (/\ OneAtATime
         /\ entry[s] = NoEntry /\ entry'[s] # NoEntry
         /\ \A t \in DOMAIN trx : ~trx[t].void)
        => entry'[s][GUEST_LEDGER].debit - entry'[s][GUEST_LEDGER].credit = Net]_entry

=============================================================================
