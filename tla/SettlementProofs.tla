-------------------------- MODULE SettlementProofs --------------------------
(***************************************************************************)
(* What holds of the city ledger and of the books for any number of        *)
(* folios, companies, invoices, payments, journal sources and general      *)
(* ledger accounts, whatever calls overlap; and what holds besides when    *)
(* calls are served one after the other.                                   *)
(***************************************************************************)
EXTENDS Settlement, FolioLedgerProofs

-----------------------------------------------------------------------------
(* Types: the rows of each table and what the handlers carry. *)

\* The steps of a transfer and of a capture, and all operations in flight of
\* the settlement.
TransferCalls == {"transferCheck", "transferShift", "transfer"}
CaptureCalls == {"captureFolio", "captureShift", "capture"}
SettleOps == {"transferFolio", "allocate", "increment", "release", "captureFolio",
              "captureShift", "capture", "issueCheck", "issue", "voidTax", "journal"}
                \cup TransferCalls

\* The lines of a journal entry, a debit and a credit per account.
JournalLines == [GLAccounts -> [debit : Int, credit : Int]]

\* What a call of the settlement carries from one step to the next.
SettleHandler ==
    [op : {"transferFolio"}, account : Accounts]
    \cup [op : {"transferCheck", "transferShift"}, account : Accounts,
          folio : Folios, amount : Int]
    \cup [op : {"transfer"}, account : Accounts, folio : Folios, amount : Int,
          user : Users, shift : ShiftRef]
    \cup [op : {"allocate"}, invoice : Nat, amount : Int, paid : Int]
    \cup [op : {"increment"}, hold : Holds, amount : Int]
    \cup [op : {"release"}, hold : Holds]
    \cup [op : {"captureFolio"}, hold : Holds, amount : Int,
          reservation : Reservations \cup {NoHold}]
    \cup [op : {"captureShift"}, hold : Holds, amount : Int, folio : Folios]
    \cup [op : {"capture"}, hold : Holds, amount : Int, folio : Folios,
          user : Users, shift : ShiftRef]
    \cup [op : {"issueCheck", "issue"}, folio : Folios, total : Int]
    \cup [op : {"voidTax"}, tax : Nat]
    \cup [op : {"journal"}, source : Sources, lines : JournalLines]

\* Rows of the tables settling adds. No code path voids an invoice.
AccountRow == [active : BOOLEAN, limit : Int, balance : Int]
InvoiceRow == [account : Accounts, folio : Folios, amount : Int, paid : Int,
               status : {"OPEN", "PARTIAL", "PAID"}]
PaymentRow == [invoice : Nat, amount : Int]
HoldRow == [status : {"NONE", "HELD", "INCREMENTAL", "RELEASED", "CAPTURED"},
            reservation : Reservations \cup {NoHold}, amount : Int,
            captured : Int, trx : Nat]
TaxRow == [folio : Folios, total : Int, void : BOOLEAN]

\* The ledger's tables with the settlement's handlers beside the ledger's own,
\* and the tables settling adds. No invoice of this code is ever void.
SettleTyped ==
    /\ TypedBeside(SettleHandler)
    /\ known \subseteq Accounts
    /\ account \in [Accounts -> AccountRow]
    /\ invoice \in Seq(InvoiceRow)
    /\ payment \in Seq(PaymentRow)
    /\ hold \in [Holds -> HoldRow]
    /\ taxInvoice \in Seq(TaxRow)
    /\ entry \in [Sources -> JournalLines]
    /\ gl \in [GLAccounts -> Int]
    /\ scene \in Scenes

\* The settlement's handlers are none of the ledger's.
LEMMA HandlersApart == Foreign(SettleHandler) /\ \A h \in SettleHandler : h.op \in SettleOps
  BY DEF Foreign, SettleHandler, LedgerOps, SettleOps, TransferCalls

\* A handler is the settlement's if its operation is.
LEMMA SettlesIf ==
    ASSUME NEW h \in LedgerHandler \cup SettleHandler, h.op \in SettleOps
    PROVE  h \in SettleHandler
  BY DEF LedgerHandler, Idle, SettleOps, TransferCalls

\* What a call in flight names exists, a transfer and a capture have an amount
\* to move, a payment leaves its invoice paid in part or in full and no further,
\* and the lines of a journal entry balance.
Difference(lines) == [a \in GLAccounts |-> lines[a].debit - lines[a].credit]
Balanced(lines) == SumFunction(Difference(lines)) = 0

Carries(h) ==
    /\ h.op = "transferFolio" => h.account \in known
    /\ h.op \in TransferCalls => h.account \in known /\ h.amount > 0
    /\ h.op = "allocate" => /\ h.invoice \in DOMAIN invoice
                            /\ h.amount > 0 /\ h.paid > 0
                            /\ h.paid <= invoice[h.invoice].amount
    /\ h.op \in CaptureCalls => h.amount > 0
    /\ h.op = "voidTax" => h.tax \in DOMAIN taxInvoice
    /\ h.op = "journal" => Balanced(h.lines)

SettleRefers ==
    /\ \A i \in DOMAIN invoice :
            invoice[i].account \in known /\ invoice[i].amount > 0 /\ invoice[i].paid >= 0
    /\ \A p \in DOMAIN payment : payment[p].invoice \in DOMAIN invoice
    /\ \A r \in Requests : Carries(req[r])

-----------------------------------------------------------------------------
(* One call at a time: what a call has read is still true when it writes.  *)

Current(h) ==
    /\ h.op \in TransferCalls => h.amount = folio[h.folio].balance
    /\ h.op \in {"transferShift", "transfer"} => LiveInvoices(h.folio) = {}
    /\ h.op = "allocate" => h.paid = invoice[h.invoice].paid + h.amount
    /\ h.op = "issue" => LiveTaxInvoices(h.folio) = {}
    /\ h.op = "journal" => h.lines = BuildLines

-----------------------------------------------------------------------------
(* The entries balance. *)

\* A row with an amount is journaled by its magnitude.
LEMMA MagnitudeTyped == \A n \in Int : Magnitude(n) \in Int
  BY DEF Magnitude

\* draftLinesForTransaction debits one account what it credits another: added
\* up account by account, both sides come to the sum over the rows drafted.
LEMMA LinesBalance ==
    ASSUME trx \in Seq(Row), \A t \in Drafted : GLCode[trx[t].code] \in GLAccounts
    PROVE  BuildLines \in JournalLines /\ Balanced(BuildLines)
  <1> DEFINE amount == [t \in DOMAIN trx |-> Magnitude(trx[t].amount)]
             debited == [t \in DOMAIN trx |-> DebitOf(trx[t])]
             credited == [t \in DOMAIN trx |-> CreditOf(trx[t])]
             debits == [a \in GLAccounts |-> BuildLines[a].debit]
             credits == [a \in GLAccounts |-> BuildLines[a].credit]
  <1>1. IsFiniteSet(Drafted) /\ Drafted \subseteq DOMAIN trx
    <2>1. IsFiniteSet(1..Len(trx)) /\ DOMAIN trx = 1..Len(trx)
      BY FS_Interval
    <2>2. Drafted \subseteq DOMAIN trx
      BY DEF Drafted
    <2> QED
      BY <2>1, <2>2, FS_Subset
  <1>2. \A t \in Drafted : amount[t] \in Int
    <2> TAKE t \in Drafted
    <2>1. trx[t] \in Row
      BY <1>1, ElementOfSeq
    <2> QED
      BY <1>1, <2>1, MagnitudeTyped DEF Row
  <1>3. \A t \in Drafted : debited[t] \in GLAccounts /\ credited[t] \in GLAccounts
    BY <1>1, SettlementAssumption DEF DebitOf, CreditOf
  <1>4. IsFiniteSet(GLAccounts)
    BY SettlementAssumption
  <1>5. ASSUME NEW a \in GLAccounts
        PROVE  /\ BuildLines[a].debit = SumFunctionOnSet(amount, {t \in Drafted : debited[t] = a})
               /\ BuildLines[a].credit = SumFunctionOnSet(amount, {t \in Drafted : credited[t] = a})
    <2>1. {t \in Drafted : debited[t] = a} = {t \in Drafted : DebitOf(trx[t]) = a}
      BY <1>1
    <2>2. {t \in Drafted : credited[t] = a} = {t \in Drafted : CreditOf(trx[t]) = a}
      BY <1>1
    <2> QED
      BY <2>1, <2>2 DEF BuildLines, SumDrafted
  <1> HIDE DEF amount, debited, credited
  <1>6. \A a \in GLAccounts :
            /\ debits[a] = SumFunctionOnSet(amount, {t \in Drafted : debited[t] = a})
            /\ credits[a] = SumFunctionOnSet(amount, {t \in Drafted : credited[t] = a})
    BY <1>5
  <1>7. \A a \in GLAccounts : BuildLines[a].debit \in Int /\ BuildLines[a].credit \in Int
    <2> TAKE a \in GLAccounts
    <2> DEFINE D == {t \in Drafted : debited[t] = a}
               C == {t \in Drafted : credited[t] = a}
    <2>1. IsFiniteSet(D) /\ IsFiniteSet(C)
      BY <1>1, FS_Subset
    <2>2. \A t \in D \cup C : amount[t] \in Int
      BY <1>2
    <2> HIDE DEF D, C
    <2>3. SumFunctionOnSet(amount, D) \in Int /\ SumFunctionOnSet(amount, C) \in Int
      BY <2>1, <2>2, SumType
    <2> QED
      BY <1>5, <2>3 DEF D, C
  <1>8. BuildLines \in JournalLines
    <2>1. \A a \in GLAccounts : BuildLines[a] \in [debit : Int, credit : Int]
      <3> TAKE a \in GLAccounts
      <3>1. BuildLines[a] = [debit |-> BuildLines[a].debit, credit |-> BuildLines[a].credit]
        BY DEF BuildLines
      <3> QED
        BY <1>7, <3>1
    <2>2. BuildLines = [a \in GLAccounts |-> BuildLines[a]]
      BY DEF BuildLines
    <2> HIDE DEF BuildLines
    <2> QED
      BY <2>1, <2>2 DEF JournalLines
  <1>9. SumFunctionOnSet(debits, GLAccounts) = SumFunctionOnSet(amount, Drafted)
    <2> HIDE DEF debits, credits
    <2>1. ByKey(amount, debited, Drafted, debits, GLAccounts)
      BY <1>1, <1>2, <1>3, <1>4, <1>6 DEF ByKey
    <2> QED
      BY <2>1, SumByKey
  <1>10. SumFunctionOnSet(credits, GLAccounts) = SumFunctionOnSet(amount, Drafted)
    <2> HIDE DEF debits, credits
    <2>1. ByKey(amount, credited, Drafted, credits, GLAccounts)
      BY <1>1, <1>2, <1>3, <1>4, <1>6 DEF ByKey
    <2> QED
      BY <2>1, SumByKey
  <1>11. SumFunctionOnSet(debits, GLAccounts)
            = SumFunctionOnSet(Difference(BuildLines), GLAccounts)
              + SumFunctionOnSet(credits, GLAccounts)
    <2>1. \A a \in GLAccounts :
            /\ Difference(BuildLines)[a] \in Int /\ credits[a] \in Int
            /\ debits[a] = Difference(BuildLines)[a] + credits[a]
      BY <1>7 DEF Difference
    <2> HIDE DEF debits, credits
    <2> QED
      BY <1>4, <2>1, SumCombines
  <1>12. /\ SumFunctionOnSet(Difference(BuildLines), GLAccounts) \in Int
         /\ SumFunctionOnSet(amount, Drafted) \in Int
    <2>1. \A a \in GLAccounts : Difference(BuildLines)[a] \in Int
      BY <1>7 DEF Difference
    <2> QED
      BY <1>1, <1>2, <1>4, <2>1, SumType
  <1>13. SumFunctionOnSet(Difference(BuildLines), GLAccounts) = 0
    BY ONLY <1>9, <1>10, <1>11, <1>12
  <1>14. SumFunction(Difference(BuildLines))
            = SumFunctionOnSet(Difference(BuildLines), GLAccounts)
    BY DEF SumFunction, SumFunctionOnSet, Difference, FoldFunction, FoldFunctionOnSet
  <1> QED
    BY <1>8, <1>13, <1>14 DEF Balanced

-----------------------------------------------------------------------------
(* What a handler in flight carries. *)

\* A transfer in flight names an account, a folio and an amount, in the end
\* a user and a shift.
LEMMA TransferFields ==
    ASSUME NEW h \in SettleHandler, h.op \in TransferCalls
    PROVE  /\ h.account \in Accounts /\ h.folio \in Folios /\ h.amount \in Int
           /\ h.op \in {"transferCheck", "transferShift"} =>
                h \in [op : {"transferCheck", "transferShift"}, account : Accounts,
                       folio : Folios, amount : Int]
           /\ h.op = "transfer" => h.user \in Users /\ h.shift \in ShiftRef
  BY DEF SettleHandler, TransferCalls

\* A payment in flight names an invoice, an amount and what is paid with it.
LEMMA AllocateFields ==
    ASSUME NEW h \in SettleHandler, h.op = "allocate"
    PROVE  h.invoice \in Nat /\ h.amount \in Int /\ h.paid \in Int
  BY DEF SettleHandler, TransferCalls

\* A change of a hold in flight names the hold, an increment its amount.
LEMMA HoldFields ==
    ASSUME NEW h \in SettleHandler, h.op \in {"increment", "release"}
    PROVE  h.hold \in Holds /\ (h.op = "increment" => h.amount \in Int)
  BY DEF SettleHandler, TransferCalls

\* A capture in flight names its hold and an amount, then the folio, then a
\* user and a shift.
LEMMA CaptureFields ==
    ASSUME NEW h \in SettleHandler, h.op \in {"captureFolio", "captureShift", "capture"}
    PROVE  /\ h.hold \in Holds /\ h.amount \in Int
           /\ h.op # "captureFolio" => h.folio \in Folios
           /\ h.op = "capture" => h.user \in Users /\ h.shift \in ShiftRef
  BY DEF SettleHandler, TransferCalls

\* A tax invoice in flight names its folio and total, a void of one its row.
LEMMA TaxFields ==
    ASSUME NEW h \in SettleHandler
    PROVE  /\ h.op \in {"issueCheck", "issue"} =>
                /\ h \in [op : {"issueCheck", "issue"}, folio : Folios, total : Int]
                /\ h.folio \in Folios /\ h.total \in Int
           /\ h.op = "voidTax" => h.tax \in Nat
  BY DEF SettleHandler, TransferCalls

\* A journal entry in flight names its source and lines.
LEMMA JournalFields ==
    ASSUME NEW h \in SettleHandler, h.op = "journal"
    PROVE  h.source \in Sources /\ h.lines \in JournalLines
  BY DEF SettleHandler, TransferCalls

-----------------------------------------------------------------------------
(* The steps that only read. *)

\* The steps that only read, and the steps that write.
SettleReader(r) ==
    \/ \E a \in Accounts : TransferRead(r, a)
    \/ \E f \in Folios : TransferLoad(r, f)
    \/ TransferCheck(r)
    \/ \E u \in Users, sh \in ShiftRef : TransferShift(r, u, sh)
    \/ \E i \in 1..MaxInvoices, amount \in scene.amounts : AllocateRead(r, i, amount)
    \/ \E h \in Holds, amount \in scene.amounts : IncrementRead(r, h, amount)
    \/ \E h \in Holds, amount \in scene.amounts : CaptureRead(r, h, amount)
    \/ \E h \in Holds : ReleaseRead(r, h)
    \/ \E f \in Folios : CaptureLoad(r, f)
    \/ \E u \in Users, sh \in ShiftRef : CaptureShift(r, u, sh)
    \/ \E f \in Folios : IssueRead(r, f)
    \/ IssueCheck(r)
    \/ \E i \in 1..MaxTaxInvoices : VoidTaxRead(r, i)
    \/ \E s \in Sources : JournalRead(r, s)

SettleWriter(r) ==
    \/ \E a \in Accounts, limit \in Limits, active \in BOOLEAN :
            CreateAccount(r, a, limit, active) \/ UpdateAccount(r, a, limit, active)
    \/ TransferCommit(r) \/ AllocateCommit(r)
    \/ \E h \in Holds, v \in scene.reservations, amount \in scene.amounts :
            CreateHold(r, h, v, amount)
    \/ IncrementCommit(r) \/ ReleaseCommit(r) \/ CaptureCommit(r)
    \/ IssueCommit(r) \/ VoidTaxCommit(r) \/ JournalCommit(r)

TablesKept == UNCHANGED <<ledgerVars, shift, account, settleVars>>

\* The handler takes up h, which it may carry and which is up to date if what
\* it carried was.
TakesUp(r, h) ==
    /\ req' = [req EXCEPT ![r] = h]
    /\ h \in SettleHandler /\ Carries(h)
    /\ Current(req[r]) => Current(h)

\* A step of the settlement reads, or it writes.
LEMMA ReadersAndWriters ==
    ASSUME NEW r, CityLedger(r) \/ CardHolds(r) \/ TaxInvoices(r) \/ Journals(r)
    PROVE  SettleReader(r) \/ SettleWriter(r)
  BY DEF CityLedger, CardHolds, TaxInvoices, Journals, SettleReader, SettleWriter

\* The amounts a scene names are positive, its reservations are some.
LEMMA SceneTyped ==
    ASSUME scene \in Scenes
    PROVE  /\ \A n \in scene.amounts : n \in Amounts /\ n \in Int /\ n > 0
           /\ scene.reservations \subseteq Reservations
  <1>1. scene.amounts \subseteq Amounts /\ scene.reservations \subseteq Reservations
    BY SettlementAssumption, Zenon
  <1>2. Amounts \subseteq Nat \ {0}
    BY SettlementAssumption, Zenon
  <1>3. ASSUME NEW n \in scene.amounts PROVE n \in Amounts /\ n \in Int /\ n > 0
    <2>1. n \in Amounts
      BY <1>1
    <2>2. n \in Nat /\ n # 0
      BY <1>2, <2>1
    <2> QED
      BY <2>1, <2>2
  <1> QED
    BY <1>1, <1>3

\* The charges of a folio add up to an integer.
LEMMA ChargesTyped ==
    ASSUME trx \in Seq(Row), NEW f PROVE SnapshotFolioCharges(f) \in Int
  <1> DEFINE rows == {t \in DOMAIN trx : trx[t].folio = f /\ IsCharge(trx[t])}
             amount == [t \in DOMAIN trx |-> trx[t].amount]
  <1>1. IsFiniteSet(rows)
    <2>1. IsFiniteSet(1..Len(trx)) /\ DOMAIN trx = 1..Len(trx) /\ rows \subseteq DOMAIN trx
      BY FS_Interval
    <2> QED
      BY <2>1, FS_Subset
  <1>2. \A t \in rows : amount[t] \in Int
    <2> TAKE t \in rows
    <2>1. trx[t] \in Row
      BY ElementOfSeq
    <2> QED
      BY <2>1 DEF Row
  <1> HIDE DEF rows, amount
  <1>3. SumFunctionOnSet(amount, rows) \in Int
    BY <1>1, <1>2, SumType
  <1> QED
    BY <1>3 DEF SnapshotFolioCharges, SumAmounts, rows, amount

\* A reading step leaves the tables alone and takes up what it may carry.
LEMMA SettleReads ==
    ASSUME SettleTyped, SettleRefers, NEW r \in Requests, SettleReader(r)
    PROVE  TablesKept /\ \E h : TakesUp(r, h)
  <1> USE DEF TablesKept
  <1>0. /\ folio \in [Folios -> FolioRow] /\ trx \in Seq(Row)
        /\ req \in [Requests -> LedgerHandler \cup SettleHandler]
        /\ known \subseteq Accounts /\ Carries(req[r])
    BY DEF SettleTyped, TypedBeside, SettleRefers
  <1>own. req[r].op \in SettleOps => req[r] \in SettleHandler
    BY <1>0, SettlesIf
  <1>1. ASSUME NEW a \in Accounts, TransferRead(r, a)
        PROVE  TablesKept /\ \E h : TakesUp(r, h)
    <2> DEFINE h == [op |-> "transferFolio", account |-> a]
    <2>1. h \in SettleHandler /\ Carries(h) /\ Current(h)
      BY <1>1 DEF SettleHandler, Carries, Current, TransferCalls, CaptureCalls, TransferRead
    <2>2. req' = [req EXCEPT ![r] = h] /\ TablesKept
      BY <1>1 DEF TransferRead, Begin
    <2> HIDE DEF h
    <2> QED
      BY <2>1, <2>2 DEF TakesUp
  <1>2. ASSUME NEW f \in Folios, TransferLoad(r, f)
        PROVE  TablesKept /\ \E h : TakesUp(r, h)
    <2> DEFINE h == [op |-> "transferCheck", account |-> req[r].account, folio |-> f,
                     amount |-> folio[f].balance]
    <2>1. folio[f].balance \in Int /\ req[r].account \in known
      BY <1>0, <1>2, FolioRowUpdates DEF TransferLoad, Carries
    <2>2. h \in SettleHandler /\ Carries(h) /\ Current(h)
      BY <1>0, <1>2, <2>1
      DEF SettleHandler, Carries, Current, TransferCalls, CaptureCalls, TransferLoad
    <2>3. req' = [req EXCEPT ![r] = h] /\ TablesKept
      BY <1>0, <1>2 DEF TransferLoad
    <2> HIDE DEF h
    <2> QED
      BY <2>2, <2>3 DEF TakesUp
  <1>3. ASSUME TransferCheck(r)
        PROVE  TablesKept /\ \E h : TakesUp(r, h)
    <2> DEFINE h == [req[r] EXCEPT !.op = "transferShift"]
    <2>1. req[r] \in [op : {"transferCheck", "transferShift"}, account : Accounts,
                       folio : Folios, amount : Int]
      BY <1>own, <1>3, TransferFields DEF TransferCheck, SettleOps, TransferCalls
    <2>2. h \in SettleHandler
      BY <2>1 DEF SettleHandler
    <2>3. Carries(h) /\ (Current(req[r]) => Current(h))
      BY <1>0, <1>3, <2>1 DEF Carries, Current, TransferCalls, CaptureCalls, TransferCheck
    <2>4. req' = [req EXCEPT ![r] = h] /\ TablesKept
      BY <1>0, <1>3 DEF TransferCheck
    <2> HIDE DEF h
    <2> QED
      BY <2>2, <2>3, <2>4 DEF TakesUp
  <1>4. ASSUME NEW u \in Users, NEW sh \in ShiftRef, TransferShift(r, u, sh)
        PROVE  TablesKept /\ \E h : TakesUp(r, h)
    <2> DEFINE h == [op |-> "transfer", account |-> req[r].account, folio |-> req[r].folio,
                     amount |-> req[r].amount, user |-> u, shift |-> sh]
    <2>1. req[r].account \in Accounts /\ req[r].folio \in Folios /\ req[r].amount \in Int
      BY <1>own, <1>4, TransferFields DEF TransferShift, SettleOps, TransferCalls
    <2>2. h \in SettleHandler
      BY <2>1 DEF SettleHandler
    <2>3. Carries(h) /\ (Current(req[r]) => Current(h))
      BY <1>0, <1>4, <2>1 DEF Carries, Current, TransferCalls, CaptureCalls, TransferShift
    <2>4. req' = [req EXCEPT ![r] = h] /\ TablesKept
      BY <1>0, <1>4 DEF TransferShift
    <2> HIDE DEF h
    <2> QED
      BY <2>2, <2>3, <2>4 DEF TakesUp
  <1>5. ASSUME NEW i \in 1..MaxInvoices, NEW amount \in scene.amounts,
               AllocateRead(r, i, amount)
        PROVE  TablesKept /\ \E h : TakesUp(r, h)
    <2> DEFINE h == [op |-> "allocate", invoice |-> i, amount |-> amount,
                     paid |-> invoice[i].paid + amount]
    <2>1. i \in DOMAIN invoice /\ i \in Nat /\ amount \in Int /\ amount > 0
      BY <1>5, SceneTyped DEF AllocateRead, SettleTyped
    <2>2. invoice[i].paid \in Int /\ invoice[i].amount \in Int /\ invoice[i].paid >= 0
      <3>1. invoice[i] \in InvoiceRow
        BY <2>1, ElementOfSeq DEF SettleTyped
      <3> QED
        BY <2>1, <3>1 DEF InvoiceRow, SettleRefers
    <2>3. h \in SettleHandler
      BY <2>1, <2>2 DEF SettleHandler
    <2>4. Carries(h) /\ Current(h)
      BY <1>5, <2>1, <2>2 DEF Carries, Current, TransferCalls, CaptureCalls, AllocateRead
    <2>5. req' = [req EXCEPT ![r] = h] /\ TablesKept
      BY <1>5 DEF AllocateRead, Begin
    <2> HIDE DEF h
    <2> QED
      BY <2>3, <2>4, <2>5 DEF TakesUp
  <1>6. ASSUME NEW x \in Holds, NEW amount \in scene.amounts, IncrementRead(r, x, amount)
        PROVE  TablesKept /\ \E h : TakesUp(r, h)
    <2> DEFINE h == [op |-> "increment", hold |-> x, amount |-> amount]
    <2>1. amount \in Int
      BY SceneTyped DEF SettleTyped
    <2>2. h \in SettleHandler /\ Carries(h) /\ Current(h)
      BY <1>6, <2>1 DEF SettleHandler, Carries, Current, TransferCalls, CaptureCalls, IncrementRead
    <2>3. req' = [req EXCEPT ![r] = h] /\ TablesKept
      BY <1>6 DEF IncrementRead, Begin
    <2> HIDE DEF h
    <2> QED
      BY <2>2, <2>3 DEF TakesUp
  <1>7. ASSUME NEW x \in Holds, NEW amount \in scene.amounts, CaptureRead(r, x, amount)
        PROVE  TablesKept /\ \E h : TakesUp(r, h)
    <2> DEFINE h == [op |-> "captureFolio", hold |-> x, amount |-> amount,
                     reservation |-> hold[x].reservation]
    <2>1. amount \in Int /\ amount > 0 /\ hold[x].reservation \in Reservations \cup {NoHold}
      BY SceneTyped DEF SettleTyped, HoldRow
    <2>2. h \in SettleHandler /\ Carries(h) /\ Current(h)
      BY <1>7, <2>1 DEF SettleHandler, Carries, Current, TransferCalls, CaptureCalls, CaptureRead
    <2>3. req' = [req EXCEPT ![r] = h] /\ TablesKept
      BY <1>7 DEF CaptureRead, Begin
    <2> HIDE DEF h
    <2> QED
      BY <2>2, <2>3 DEF TakesUp
  <1>8. ASSUME NEW x \in Holds, ReleaseRead(r, x)
        PROVE  TablesKept /\ \E h : TakesUp(r, h)
    <2> DEFINE h == [op |-> "release", hold |-> x]
    <2>1. h \in SettleHandler /\ Carries(h) /\ Current(h)
      BY <1>8 DEF SettleHandler, Carries, Current, TransferCalls, CaptureCalls, ReleaseRead
    <2>2. req' = [req EXCEPT ![r] = h] /\ TablesKept
      BY <1>8 DEF ReleaseRead, Begin
    <2> HIDE DEF h
    <2> QED
      BY <2>1, <2>2 DEF TakesUp
  <1>9. ASSUME NEW f \in Folios, CaptureLoad(r, f)
        PROVE  TablesKept /\ \E h : TakesUp(r, h)
    <2> DEFINE h == [op |-> "captureShift", hold |-> req[r].hold, amount |-> req[r].amount,
                     folio |-> f]
    <2>1. req[r].hold \in Holds /\ req[r].amount \in Int
      BY <1>own, <1>9, CaptureFields DEF CaptureLoad, SettleOps
    <2>2. h \in SettleHandler /\ Carries(h) /\ (Current(req[r]) => Current(h))
      BY <1>0, <1>9, <2>1
      DEF SettleHandler, Carries, Current, TransferCalls, CaptureCalls, CaptureLoad
    <2>3. req' = [req EXCEPT ![r] = h] /\ TablesKept
      BY <1>0, <1>9 DEF CaptureLoad
    <2> HIDE DEF h
    <2> QED
      BY <2>2, <2>3 DEF TakesUp
  <1>10. ASSUME NEW u \in Users, NEW sh \in ShiftRef, CaptureShift(r, u, sh)
         PROVE  TablesKept /\ \E h : TakesUp(r, h)
    <2> DEFINE h == [op |-> "capture", hold |-> req[r].hold, amount |-> req[r].amount,
                     folio |-> req[r].folio, user |-> u, shift |-> sh]
    <2>1. req[r].hold \in Holds /\ req[r].amount \in Int /\ req[r].folio \in Folios
      BY <1>own, <1>10, CaptureFields DEF CaptureShift, SettleOps
    <2>2. h \in SettleHandler /\ Carries(h) /\ (Current(req[r]) => Current(h))
      BY <1>0, <1>10, <2>1
      DEF SettleHandler, Carries, Current, TransferCalls, CaptureCalls, CaptureShift
    <2>3. req' = [req EXCEPT ![r] = h] /\ TablesKept
      BY <1>0, <1>10 DEF CaptureShift
    <2> HIDE DEF h
    <2> QED
      BY <2>2, <2>3 DEF TakesUp
  <1>11. ASSUME NEW f \in Folios, IssueRead(r, f)
         PROVE  TablesKept /\ \E h : TakesUp(r, h)
    <2> DEFINE h == [op |-> "issueCheck", folio |-> f, total |-> SnapshotFolioCharges(f)]
    <2>1. h \in SettleHandler /\ Carries(h) /\ Current(h)
      BY <1>0, ChargesTyped DEF SettleHandler, Carries, Current, TransferCalls, CaptureCalls
    <2>2. req' = [req EXCEPT ![r] = h] /\ TablesKept
      BY <1>11 DEF IssueRead, Begin
    <2> HIDE DEF h
    <2> QED
      BY <2>1, <2>2 DEF TakesUp
  <1>12. ASSUME IssueCheck(r)
         PROVE  TablesKept /\ \E h : TakesUp(r, h)
    <2> DEFINE h == [req[r] EXCEPT !.op = "issue"]
    <2>1. req[r] \in [op : {"issueCheck", "issue"}, folio : Folios, total : Int]
      BY <1>own, <1>12, TaxFields DEF IssueCheck, SettleOps
    <2>2. h \in SettleHandler /\ h.op = "issue" /\ h.folio = req[r].folio
      BY <2>1 DEF SettleHandler
    <2>3. Carries(h) /\ Current(h)
      BY <1>12, <2>2 DEF Carries, Current, TransferCalls, CaptureCalls, IssueCheck
    <2>4. req' = [req EXCEPT ![r] = h] /\ TablesKept
      BY <1>0, <1>12 DEF IssueCheck
    <2> HIDE DEF h
    <2> QED
      BY <2>2, <2>3, <2>4 DEF TakesUp
  <1>13. ASSUME NEW i \in 1..MaxTaxInvoices, VoidTaxRead(r, i)
         PROVE  TablesKept /\ \E h : TakesUp(r, h)
    <2> DEFINE h == [op |-> "voidTax", tax |-> i]
    <2>1. h \in SettleHandler /\ Carries(h) /\ Current(h)
      BY <1>13 DEF SettleHandler, Carries, Current, TransferCalls, CaptureCalls, VoidTaxRead
    <2>2. req' = [req EXCEPT ![r] = h] /\ TablesKept
      BY <1>13 DEF VoidTaxRead, Begin
    <2> HIDE DEF h
    <2> QED
      BY <2>1, <2>2 DEF TakesUp
  <1>14. ASSUME NEW s \in Sources, JournalRead(r, s)
         PROVE  TablesKept /\ \E h : TakesUp(r, h)
    <2> DEFINE h == [op |-> "journal", source |-> s, lines |-> BuildLines]
    <2>1. BuildLines \in JournalLines /\ Balanced(BuildLines)
      BY <1>0, <1>14, LinesBalance DEF JournalRead
    <2>2. h \in SettleHandler /\ Carries(h) /\ Current(h)
      BY <2>1 DEF SettleHandler, Carries, Current, TransferCalls, CaptureCalls
    <2>3. req' = [req EXCEPT ![r] = h] /\ TablesKept
      BY <1>14 DEF JournalRead, Begin
    <2> HIDE DEF h
    <2> QED
      BY <2>2, <2>3 DEF TakesUp
  <1> QED
    BY <1>1, <1>2, <1>3, <1>4, <1>5, <1>6, <1>7, <1>8, <1>9, <1>10, <1>11, <1>12,
       <1>13, <1>14 DEF SettleReader

-----------------------------------------------------------------------------
(* What the writers do to their tables. *)

\* new is old with a row x at its end.
Appends(old, new, x) ==
    /\ Len(old) \in Nat /\ Len(new) = Len(old) + 1
    /\ DOMAIN old = 1..Len(old) /\ DOMAIN new = 1..Len(old) + 1
    /\ new[Len(old) + 1] = x
    /\ \A i \in 1..Len(old) : new[i] = old[i]

\* Sequence facts: Append adds a row at the end and keeps the others.
LEMMA AppendsRow ==
    ASSUME NEW S, NEW old \in Seq(S), NEW x \in S, NEW new, new = Append(old, x)
    PROVE  new \in Seq(S) /\ Appends(old, new, x)
  BY AppendProperties DEF Appends

\* new is old with the row at i replaced by x.
Replaces(old, new, i, x) ==
    /\ Len(new) = Len(old) /\ DOMAIN new = DOMAIN old
    /\ \A j \in DOMAIN old : new[j] = IF j = i THEN x ELSE old[j]

\* Sequence facts: EXCEPT at an index replaces that row and keeps the others.
LEMMA ReplacesRow ==
    ASSUME NEW S, NEW old \in Seq(S), NEW i \in DOMAIN old, NEW x \in S, NEW new,
           new = [old EXCEPT ![i] = x]
    PROVE  new \in Seq(S) /\ Replaces(old, new, i, x)
  BY ExceptSeq DEF Replaces

\* An account's balance moves by n, all other columns and accounts stay.
MovesAccount(a, n) ==
    /\ account' \in [Accounts -> AccountRow]
    /\ \A b \in Accounts :
            account'[b].balance = IF b = a THEN account[b].balance + n ELSE account[b].balance

\* An increment of the balance column moves nothing else.
LEMMA AccountMoves ==
    ASSUME account \in [Accounts -> AccountRow], NEW a \in Accounts, NEW n \in Int,
           NEW m, m = account[a].balance + n,
           account' = [account EXCEPT ![a].balance = m]
    PROVE  MovesAccount(a, n)
  BY DEF AccountRow, MovesAccount

\* A transfer appends a line and an invoice, posts the folio, and charges the
\* company.
Transfers(h) ==
    /\ h.account \in known /\ h.folio \in Folios /\ h.amount \in Int /\ h.amount > 0
    /\ trx' \in Seq(Row) /\ Len(trx') >= Len(trx)
    /\ winbal' \in [Folios -> [Windows -> Int]]
    /\ invoice' \in Seq(InvoiceRow) /\ Appends(invoice, invoice', NewInvoice(h))
    /\ MovesAccount(h.account, h.amount)
    /\ folio' \in [Folios -> FolioRow]
    /\ folio'[h.folio].balance = folio[h.folio].balance - h.amount
    /\ \A f \in Folios \ {h.folio} : folio'[f] = folio[f]

\* A line of the settlement's own is a posting line.
LEMMA OneLineTyped ==
    ASSUME NEW code \in STRING, NEW amount \in Int
    PROVE  OneLine(code, amount) \in Seq(Line)
  BY DEF OneLine, Line

\* transfer's transaction does all of Transfers in one step.
LEMMA TransferEffect ==
    ASSUME SettleTyped, SettleRefers, NEW r \in Requests, TransferCommit(r)
    PROVE  Transfers(req[r])
  <1> DEFINE h == req[r]
  <1>1. /\ h.account \in Accounts /\ h.folio \in Folios /\ h.amount \in Int
        /\ h.user \in Users /\ h.shift \in ShiftRef
    <2>1. h \in LedgerHandler \cup SettleHandler /\ h.op = "transfer"
      BY DEF SettleTyped, TypedBeside, TransferCommit
    <2>2. h \in SettleHandler
      BY <2>1, SettlesIf DEF SettleOps, TransferCalls
    <2> QED
      BY <2>1, <2>2, TransferFields DEF TransferCalls
  <1>2. h.account \in known /\ h.amount > 0
    BY DEF SettleRefers, Carries, TransferCommit, TransferCalls
  <1>3. /\ trx \in Seq(Row) /\ winbal \in [Folios -> [Windows -> Int]]
        /\ folio \in [Folios -> FolioRow] /\ account \in [Accounts -> AccountRow]
        /\ invoice \in Seq(InvoiceRow)
    BY DEF SettleTyped, TypedBeside
  <1>4. PersistPostingLines(h.folio, 1, h.user, h.shift, OneLine(CITY_LEDGER, h.amount))
    BY DEF TransferCommit
  <1>5. /\ invoice' = Append(invoice, NewInvoice(h))
        /\ account' = [account EXCEPT ![h.account].balance = @ + h.amount]
        /\ folio' = [folio EXCEPT ![h.folio].status = "POSTED_TO_CITY_LEDGER",
                                  ![h.folio].isClosed = TRUE,
                                  ![h.folio].balance = @ - h.amount]
    BY DEF TransferCommit
  <1> HIDE DEF h
  <1>6. /\ trx' \in Seq(Row) /\ Len(trx') >= Len(trx)
        /\ winbal' \in [Folios -> [Windows -> Int]]
    <2>1. OneLine(CITY_LEDGER, h.amount) \in Seq(Line)
      BY <1>1, CodesAreStrings, OneLineTyped
    <2>2. 1 \in Windows
      BY DEF Windows
    <2> QED
      BY <1>1, <1>3, <1>4, <2>1, <2>2, Persists
  <1>7. invoice' \in Seq(InvoiceRow) /\ Appends(invoice, invoice', NewInvoice(h))
    <2>1. NewInvoice(h) \in InvoiceRow
      BY <1>1 DEF NewInvoice, InvoiceRow
    <2> QED
      BY <1>3, <1>5, <2>1, AppendsRow
  <1>8. MovesAccount(h.account, h.amount)
    <2> DEFINE m == account[h.account].balance + h.amount
    <2>1. account' = [account EXCEPT ![h.account].balance = m]
      BY <1>5
    <2> HIDE DEF m
    <2> QED
      BY <1>1, <1>3, <2>1, AccountMoves DEF m
  <1>9. /\ folio' \in [Folios -> FolioRow]
        /\ folio'[h.folio].balance = folio[h.folio].balance - h.amount
        /\ \A f \in Folios \ {h.folio} : folio'[f] = folio[f]
    <2> DEFINE posted == [folio[h.folio] EXCEPT !.status = "POSTED_TO_CITY_LEDGER"]
               flagged == [posted EXCEPT !.isClosed = TRUE]
               paid == [flagged EXCEPT !.balance = @ - h.amount]
    <2>1. folio' = [folio EXCEPT ![h.folio] = paid]
      BY <1>1, <1>3, <1>5
    <2>2. folio[h.folio] \in FolioRow /\ "POSTED_TO_CITY_LEDGER" \in FolioStatus
      BY <1>1, <1>3 DEF FolioStatus
    <2>3. posted \in FolioRow /\ posted.balance = folio[h.folio].balance
      BY <2>2, FolioRowUpdates DEF FolioRow
    <2>4. flagged \in FolioRow /\ flagged.balance = posted.balance
      BY <2>3, FolioRowUpdates DEF FolioRow
    <2>5. paid \in FolioRow /\ paid.balance = flagged.balance - h.amount
      <3> HIDE DEF flagged
      <3>1. flagged.balance - h.amount \in Int
        BY <1>1, <2>4, FolioRowUpdates
      <3>2. paid = [flagged EXCEPT !.balance = flagged.balance - h.amount]
        OBVIOUS
      <3> QED
        BY <2>4, <3>1, <3>2 DEF FolioRow
    <2> HIDE DEF posted, flagged, paid
    <2> QED
      BY <1>1, <1>3, <2>1, <2>3, <2>4, <2>5
  <1> QED
    BY <1>1, <1>2, <1>6, <1>7, <1>8, <1>9 DEF Transfers, h

\* A payment is appended, its invoice shows what the handler added up, and the
\* company is relieved of it.
PaidRow(h) ==
    [invoice[h.invoice] EXCEPT
        !.paid = h.paid, !.status = StatusAfterPayment(invoice[h.invoice].amount, h.paid)]

Allocates(h) ==
    /\ h.invoice \in DOMAIN invoice /\ h.amount \in Int /\ h.amount > 0
    /\ h.paid \in Int /\ h.paid > 0 /\ h.paid <= invoice[h.invoice].amount
    /\ invoice[h.invoice] \in InvoiceRow /\ PaidRow(h) \in InvoiceRow
    /\ payment' \in Seq(PaymentRow)
    /\ Appends(payment, payment', [invoice |-> h.invoice, amount |-> h.amount])
    /\ invoice' \in Seq(InvoiceRow) /\ Replaces(invoice, invoice', h.invoice, PaidRow(h))
    /\ MovesAccount(invoice[h.invoice].account, -h.amount)

\* allocatePayment's transaction does all of Allocates in one step.
LEMMA AllocateEffect ==
    ASSUME SettleTyped, SettleRefers, NEW r \in Requests, AllocateCommit(r)
    PROVE  Allocates(req[r])
  <1> DEFINE h == req[r]
             a == invoice[h.invoice].account
  <1>1. h.invoice \in Nat /\ h.amount \in Int /\ h.paid \in Int
    <2>1. h \in LedgerHandler \cup SettleHandler /\ h.op = "allocate"
      BY DEF SettleTyped, TypedBeside, AllocateCommit
    <2>2. h \in SettleHandler
      BY <2>1, SettlesIf DEF SettleOps
    <2> QED
      BY <2>1, <2>2, AllocateFields
  <1>2. /\ h.invoice \in DOMAIN invoice /\ h.amount > 0 /\ h.paid > 0
        /\ h.paid <= invoice[h.invoice].amount
    BY DEF SettleRefers, Carries, AllocateCommit
  <1>3. /\ invoice \in Seq(InvoiceRow) /\ payment \in Seq(PaymentRow)
        /\ account \in [Accounts -> AccountRow]
    BY DEF SettleTyped
  <1>4. invoice[h.invoice] \in InvoiceRow
    BY <1>2, <1>3, ElementOfSeq
  <1>5. /\ payment' = Append(payment, [invoice |-> h.invoice, amount |-> h.amount])
        /\ account' = [account EXCEPT ![a].balance = @ - h.amount]
        /\ invoice' = [invoice EXCEPT ![h.invoice] = PaidRow(h)]
    BY <1>2, <1>3 DEF AllocateCommit, PaidRow
  <1> HIDE DEF h
  <1>6. PaidRow(h) \in InvoiceRow
    BY <1>1, <1>4 DEF PaidRow, InvoiceRow, StatusAfterPayment
  <1>7. invoice' \in Seq(InvoiceRow) /\ Replaces(invoice, invoice', h.invoice, PaidRow(h))
    BY <1>2, <1>3, <1>5, <1>6, ReplacesRow
  <1>8. /\ payment' \in Seq(PaymentRow)
        /\ Appends(payment, payment', [invoice |-> h.invoice, amount |-> h.amount])
    <2> DEFINE row == [invoice |-> h.invoice, amount |-> h.amount]
    <2>1. row \in PaymentRow
      BY <1>1 DEF PaymentRow
    <2>2. payment' = Append(payment, row)
      BY <1>5
    <2> HIDE DEF row
    <2>3. payment' \in Seq(PaymentRow) /\ Appends(payment, payment', row)
      BY <1>3, <2>1, <2>2, AppendsRow
    <2> QED
      BY <2>3 DEF row
  <1>9. MovesAccount(a, -h.amount)
    <2>1. a \in Accounts /\ account[a].balance \in Int
      BY <1>3, <1>4 DEF InvoiceRow, AccountRow
    <2> HIDE DEF a
    <2> DEFINE m == account[a].balance - h.amount
    <2>2. m = account[a].balance + (-h.amount) /\ -h.amount \in Int
      BY <1>1, <2>1
    <2>3. account' = [account EXCEPT ![a].balance = m]
      BY <1>5
    <2> HIDE DEF m
    <2> QED
      BY <1>3, <2>1, <2>2, <2>3, AccountMoves
  <1> QED
    BY <1>1, <1>2, <1>4, <1>6, <1>7, <1>8, <1>9 DEF Allocates, h

\* A capture posts what it captures and marks its hold; the folio's status is
\* left alone.
Captures(h) ==
    /\ trx' \in Seq(Row) /\ Len(trx') >= Len(trx)
    /\ winbal' \in [Folios -> [Windows -> Int]]
    /\ folio' \in [Folios -> FolioRow]
    /\ \A f \in Folios : folio'[f].status = folio[f].status
    /\ hold' \in [Holds -> HoldRow]

\* capture's transaction does all of Captures in one step.
LEMMA CaptureEffect ==
    ASSUME SettleTyped, NEW r \in Requests, CaptureCommit(r)
    PROVE  Captures(req[r])
  <1> DEFINE h == req[r]
  <1>1. /\ h.hold \in Holds /\ h.folio \in Folios /\ h.amount \in Int
        /\ h.user \in Users /\ h.shift \in ShiftRef
    <2>1. h \in LedgerHandler \cup SettleHandler /\ h.op = "capture"
      BY DEF SettleTyped, TypedBeside, CaptureCommit
    <2>2. h \in SettleHandler
      BY <2>1, SettlesIf DEF SettleOps
    <2> QED
      BY <2>1, <2>2, CaptureFields
  <1>2. /\ trx \in Seq(Row) /\ winbal \in [Folios -> [Windows -> Int]]
        /\ folio \in [Folios -> FolioRow] /\ hold \in [Holds -> HoldRow]
    BY DEF SettleTyped, TypedBeside
  <1>3. /\ PersistPostingLines(h.folio, 1, h.user, h.shift, OneLine(CARD_PAYMENT, h.amount))
        /\ folio' = [folio EXCEPT ![h.folio].balance = @ - h.amount]
        /\ hold' = [hold EXCEPT ![h.hold].status = "CAPTURED", ![h.hold].captured = h.amount,
                                ![h.hold].trx = Len(trx) + 1]
    BY DEF CaptureCommit
  <1> HIDE DEF h
  <1>4. /\ trx' \in Seq(Row) /\ Len(trx') >= Len(trx)
        /\ winbal' \in [Folios -> [Windows -> Int]]
    <2>1. OneLine(CARD_PAYMENT, h.amount) \in Seq(Line)
      BY <1>1, CodesAreStrings, OneLineTyped
    <2>2. 1 \in Windows
      BY DEF Windows
    <2> QED
      BY <1>1, <1>2, <1>3, <2>1, <2>2, Persists
  <1>5. folio' \in [Folios -> FolioRow] /\ \A f \in Folios : folio'[f].status = folio[f].status
    <2> DEFINE m == folio[h.folio].balance - h.amount
               x == [folio[h.folio] EXCEPT !.balance = m]
    <2>1. folio' = [folio EXCEPT ![h.folio] = x]
      BY <1>3
    <2>2. m \in Int /\ folio[h.folio] \in FolioRow
      BY <1>1, <1>2, FolioRowUpdates
    <2> HIDE DEF m
    <2>3. x \in FolioRow /\ x.status = folio[h.folio].status
      BY <2>2 DEF FolioRow
    <2> HIDE DEF x
    <2> QED
      BY <1>1, <1>2, <2>1, <2>3
  <1>6. hold' \in [Holds -> HoldRow]
    <2> DEFINE n == Len(trx) + 1
               x == [hold[h.hold] EXCEPT !.status = "CAPTURED", !.captured = h.amount,
                                         !.trx = n]
    <2>1. hold' = [hold EXCEPT ![h.hold] = x]
      BY <1>1, <1>2, <1>3
    <2>2. n \in Nat
      BY <1>2
    <2> HIDE DEF n
    <2>3. x \in HoldRow
      BY <1>1, <1>2, <2>2 DEF HoldRow
    <2> HIDE DEF x
    <2> QED
      BY <1>1, <1>2, <2>1, <2>3
  <1> QED
    BY <1>4, <1>5, <1>6 DEF Captures

\* Creating a hold, raising and releasing one leave rows of the table.
LEMMA HoldEffect ==
    ASSUME SettleTyped, NEW r \in Requests,
           \/ \E h \in Holds, v \in scene.reservations, amount \in scene.amounts :
                    CreateHold(r, h, v, amount)
           \/ IncrementCommit(r) \/ ReleaseCommit(r)
    PROVE  hold' \in [Holds -> HoldRow]
  <1>0. hold \in [Holds -> HoldRow]
    BY DEF SettleTyped
  <1>own. req[r].op \in {"increment", "release"} =>
            req[r].hold \in Holds /\ (req[r].op = "increment" => req[r].amount \in Int)
    BY SettlesIf, HoldFields DEF SettleTyped, TypedBeside, SettleOps
  <1>1. ASSUME NEW h \in Holds, NEW v \in scene.reservations, NEW amount \in scene.amounts,
               CreateHold(r, h, v, amount)
        PROVE  hold' \in [Holds -> HoldRow]
    <2>1. v \in Reservations /\ amount \in Int
      BY SceneTyped DEF SettleTyped
    <2>2. NoPreauth \in HoldRow
      BY DEF NoPreauth, HoldRow
    <2>3. [NoPreauth EXCEPT !.status = "HELD", !.reservation = v, !.amount = amount] \in HoldRow
      BY <2>1, <2>2 DEF HoldRow
    <2> QED
      BY <1>0, <1>1, <2>3 DEF CreateHold
  <1>2. CASE IncrementCommit(r)
    BY <1>0, <1>own, <1>2 DEF IncrementCommit, HoldRow
  <1>3. CASE ReleaseCommit(r)
    BY <1>0, <1>own, <1>3 DEF ReleaseCommit, HoldRow
  <1> QED
    BY <1>1, <1>2, <1>3

\* A tax invoice is appended, one that exists is voided.
LEMMA TaxEffect ==
    ASSUME SettleTyped, SettleRefers, NEW r \in Requests
    PROVE  /\ IssueCommit(r) =>
                /\ taxInvoice' \in Seq(TaxRow)
                /\ Appends(taxInvoice, taxInvoice',
                           [folio |-> req[r].folio, total |-> req[r].total, void |-> FALSE])
           /\ VoidTaxCommit(r) =>
                /\ taxInvoice' \in Seq(TaxRow) /\ req[r].tax \in DOMAIN taxInvoice
                /\ Replaces(taxInvoice, taxInvoice', req[r].tax,
                            [taxInvoice[req[r].tax] EXCEPT !.void = TRUE])
  <1>0. taxInvoice \in Seq(TaxRow) /\ req[r] \in LedgerHandler \cup SettleHandler
    BY DEF SettleTyped, TypedBeside
  <1>1. ASSUME IssueCommit(r)
        PROVE  /\ taxInvoice' \in Seq(TaxRow)
               /\ Appends(taxInvoice, taxInvoice',
                           [folio |-> req[r].folio, total |-> req[r].total, void |-> FALSE])
    <2> DEFINE x == [folio |-> req[r].folio, total |-> req[r].total, void |-> FALSE]
    <2>1. x \in TaxRow
      <3>1. req[r] \in SettleHandler /\ req[r].op = "issue"
        BY <1>0, <1>1, SettlesIf DEF IssueCommit, SettleOps
      <3> QED
        BY <3>1, TaxFields DEF TaxRow
    <2>2. taxInvoice' = Append(taxInvoice, x)
      BY <1>1 DEF IssueCommit
    <2> HIDE DEF x
    <2>3. taxInvoice' \in Seq(TaxRow) /\ Appends(taxInvoice, taxInvoice', x)
      BY <1>0, <2>1, <2>2, AppendsRow
    <2> QED
      BY <2>3 DEF x
  <1>2. ASSUME VoidTaxCommit(r)
        PROVE  /\ taxInvoice' \in Seq(TaxRow) /\ req[r].tax \in DOMAIN taxInvoice
               /\ Replaces(taxInvoice, taxInvoice', req[r].tax,
                           [taxInvoice[req[r].tax] EXCEPT !.void = TRUE])
    <2> DEFINE i == req[r].tax
               x == [taxInvoice[i] EXCEPT !.void = TRUE]
    <2>1. i \in DOMAIN taxInvoice
      BY <1>2 DEF VoidTaxCommit, SettleRefers, Carries
    <2>2. taxInvoice' = [taxInvoice EXCEPT ![i] = x]
      BY <1>2 DEF VoidTaxCommit
    <2>3. x \in TaxRow
      <3>1. taxInvoice[i] \in TaxRow
        BY <1>0, <2>1, ElementOfSeq
      <3> HIDE DEF i
      <3> QED
        BY <3>1 DEF TaxRow
    <2> HIDE DEF x
    <2>4. taxInvoice' \in Seq(TaxRow) /\ Replaces(taxInvoice, taxInvoice', i, x)
      BY <1>0, <2>1, <2>2, <2>3, ReplacesRow
    <2> QED
      BY <2>1, <2>4 DEF x
  <1> QED
    BY <1>1, <1>2

\* An entry is written where there was none, its lines move the accounts.
EntersBooks(h) ==
    /\ h.source \in Sources /\ h.lines \in JournalLines /\ Balanced(h.lines)
    /\ entry[h.source] = NoEntry
    /\ entry' \in [Sources -> JournalLines]
    /\ \A s \in Sources : entry'[s] = IF s = h.source THEN h.lines ELSE entry[s]
    /\ gl' \in [GLAccounts -> Int]
    /\ \A a \in GLAccounts : gl'[a] = gl[a] + h.lines[a].debit - h.lines[a].credit

\* postForBusinessDate's commit does all of EntersBooks in one step.
LEMMA JournalEffect ==
    ASSUME SettleTyped, SettleRefers, NEW r \in Requests, JournalCommit(r)
    PROVE  EntersBooks(req[r])
  <1> DEFINE h == req[r]
  <1>1. h.source \in Sources /\ h.lines \in JournalLines
    <2>1. h \in LedgerHandler \cup SettleHandler /\ h.op = "journal"
      BY DEF SettleTyped, TypedBeside, JournalCommit
    <2>2. h \in SettleHandler
      BY <2>1, SettlesIf DEF SettleOps
    <2> QED
      BY <2>1, <2>2, JournalFields
  <1>2. Balanced(h.lines)
    BY DEF SettleRefers, Carries, JournalCommit
  <1>3. /\ entry[h.source] = NoEntry
        /\ entry' = [entry EXCEPT ![h.source] = h.lines]
        /\ gl' = ApplyAccountBalances(h.lines)
    BY DEF JournalCommit
  <1>4. entry \in [Sources -> JournalLines] /\ gl \in [GLAccounts -> Int]
    BY DEF SettleTyped
  <1> HIDE DEF h
  <1>5. /\ entry' \in [Sources -> JournalLines]
        /\ \A s \in Sources : entry'[s] = IF s = h.source THEN h.lines ELSE entry[s]
    BY <1>1, <1>3, <1>4
  <1>6. \A a \in GLAccounts :
            /\ gl'[a] = gl[a] + h.lines[a].debit - h.lines[a].credit
            /\ gl'[a] \in Int
    <2> TAKE a \in GLAccounts
    <2>1. gl'[a] = gl[a] + h.lines[a].debit - h.lines[a].credit
      BY <1>3 DEF ApplyAccountBalances
    <2>2. h.lines[a].debit \in Int /\ h.lines[a].credit \in Int /\ gl[a] \in Int
      BY <1>1, <1>4 DEF JournalLines
    <2> QED
      BY <2>1, <2>2
  <1>7. gl' = [a \in GLAccounts |-> gl'[a]]
    BY <1>3 DEF ApplyAccountBalances
  <1>8. gl' \in [GLAccounts -> Int]
    BY <1>6, <1>7
  <1> QED
    BY <1>1, <1>2, <1>3, <1>5, <1>6, <1>8 DEF EntersBooks, h

\* A new account owes nothing; an update leaves what is owed alone.
OpensAccount(a) ==
    /\ a \in Accounts /\ a \notin known /\ known' = known \cup {a}
    /\ account' \in [Accounts -> AccountRow] /\ account'[a].balance = 0
    /\ \A b \in Accounts \ {a} : account'[b] = account[b]

\* create inserts an account that owes nothing, update keeps the balance.
LEMMA AccountEffect ==
    ASSUME SettleTyped, NEW r, NEW a \in Accounts, NEW limit \in Limits,
           NEW active \in BOOLEAN
    PROVE  /\ CreateAccount(r, a, limit, active) => OpensAccount(a)
           /\ UpdateAccount(r, a, limit, active) =>
                /\ account' \in [Accounts -> AccountRow]
                /\ \A b \in Accounts : account'[b].balance = account[b].balance
  <1>1. limit \in Int /\ account \in [Accounts -> AccountRow]
    BY SettlementAssumption DEF SettleTyped
  <1>2. ASSUME CreateAccount(r, a, limit, active) PROVE OpensAccount(a)
    <2> DEFINE x == [active |-> active, limit |-> limit, balance |-> 0]
    <2>1. x \in AccountRow /\ x.balance = 0
      BY <1>1 DEF AccountRow
    <2>2. /\ a \notin known /\ known' = known \cup {a}
          /\ account' = [account EXCEPT ![a] = x]
      BY <1>2 DEF CreateAccount
    <2> HIDE DEF x
    <2> QED
      BY <1>1, <2>1, <2>2 DEF OpensAccount
  <1>3. ASSUME UpdateAccount(r, a, limit, active)
        PROVE  /\ account' \in [Accounts -> AccountRow]
               /\ \A b \in Accounts : account'[b].balance = account[b].balance
    <2> DEFINE x == [account[a] EXCEPT !.active = active, !.limit = limit]
    <2>1. account' = [account EXCEPT ![a] = x]
      BY <1>1, <1>3 DEF UpdateAccount
    <2>2. x \in AccountRow /\ x.balance = account[a].balance
      BY <1>1 DEF AccountRow
    <2> HIDE DEF x
    <2> QED
      BY <1>1, <2>1, <2>2
  <1> QED
    BY <1>2, <1>3

\* The ledger's own calls move one handler, none of the settlement's, and post
\* no folio to the city ledger.
LEMMA LedgerCallEffect ==
    ASSUME SettleTyped, NEW r \in Requests, LedgerCall(r)
    PROVE  /\ [LedgerNext]_vars /\ UNCHANGED <<settleVars, account>>
           /\ \E h : req' = [req EXCEPT ![r] = h] /\ h.op \notin SettleOps
           /\ \A f \in Folios : folio'[f].status = "POSTED_TO_CITY_LEDGER"
                                => folio[f].status = "POSTED_TO_CITY_LEDGER"
  <1> DEFINE MovesOne == \E h : req' = [req EXCEPT ![r] = h] /\ h.op \notin SettleOps
             Posts == \A f \in Folios : folio'[f].status = "POSTED_TO_CITY_LEDGER"
                                        => folio[f].status = "POSTED_TO_CITY_LEDGER"
  <1>0. /\ folio \in [Folios -> FolioRow] /\ known \subseteq Accounts
        /\ req \in [Requests -> LedgerHandler \cup SettleHandler]
    BY DEF SettleTyped, TypedBeside
  <1>1. /\ [LedgerNext]_vars /\ UNCHANGED <<settleVars, account>>
    <2>1. LedgerNext
      BY <1>0 DEF LedgerCall, LedgerNext, Configure
    <2>2. UNCHANGED account
      BY DEF LedgerCall, CreateRead, CreateCommit, Post, Void, Settle, SetCreditLimit,
             SetArRead, SetArCommit, Fail, PostRead, PostResolveShift, PostCheckCredit,
             PostCommit, VoidRead, VoidResolveShift, VoidCommit, CheckoutRead, InterimRead,
             ReopenRead, CloseCommit, ReopenCommit
    <2> QED
      BY <2>1, <2>2 DEF LedgerCall
  <1>2. ASSUME NEW h, req' = [req EXCEPT ![r] = h], h.op \notin SettleOps PROVE MovesOne
    BY <1>2
  <1>idle. End(r) => MovesOne
    <2>1. Idle.op \notin SettleOps
      BY DEF Idle, SettleOps, TransferCalls
    <2> QED
      BY <1>2, <2>1 DEF End
  <1>quiet. UNCHANGED folio => Posts
    OBVIOUS
  <1> HIDE DEF MovesOne
  <1>3. CASE CreateRead(r)
    <2> DEFINE h == [op |-> "create", count |-> Cardinality({f \in Folios : Exists(f)})]
    <2>1. req' = [req EXCEPT ![r] = h] /\ h.op \notin SettleOps /\ UNCHANGED folio
      BY <1>3 DEF CreateRead, Begin, SettleOps, TransferCalls, ledgerVars
    <2> HIDE DEF h
    <2> QED
      BY <1>1, <1>2, <1>quiet, <2>1 DEF MovesOne
  <1>4. CASE CreateCommit(r)
    <2>1. Posts
      BY <1>0, <1>4 DEF CreateCommit, NoFolio
    <2> QED
      BY <1>1, <1>4, <1>idle, <2>1 DEF CreateCommit, MovesOne
  <1>5. CASE Post(r)
    <2>1. ASSUME NEW f \in Folios, NEW w \in PostWindows, NEW u \in Users,
                 NEW lines \in PostingLines, PostRead(r, f, w, u, lines)
          PROVE  MovesOne /\ Posts
      <3> DEFINE h == [op |-> "postShift", folio |-> f, window |-> w, user |-> u,
                       lines |-> lines, shift |-> NoShift]
      <3>1. req' = [req EXCEPT ![r] = h] /\ h.op \notin SettleOps /\ UNCHANGED folio
        BY <2>1 DEF PostRead, Begin, SettleOps, TransferCalls, ledgerVars
      <3> HIDE DEF h
      <3> QED
        BY <1>2, <1>quiet, <3>1
    <2>own. req[r].op \in {"postShift", "postCredit"} =>
              req[r] \in [op : {"postShift", "postCredit", "post"}, folio : Folios,
                          window : Windows, user : Users, lines : PostingLines,
                          shift : ShiftRef]
      BY <1>0, HandlersApart, OwnHandlers, PostingFields DEF LedgerOps
    <2>2. ASSUME NEW sh \in ShiftRef, PostResolveShift(r, sh) PROVE MovesOne /\ Posts
      <3> DEFINE h == [req[r] EXCEPT !.op = "postCredit", !.shift = sh]
      <3>1. req' = [req EXCEPT ![r] = h] /\ UNCHANGED folio
        BY <1>0, <2>2 DEF PostResolveShift, ledgerVars
      <3>2. h.op \notin SettleOps
        BY <2>2, <2>own DEF PostResolveShift, SettleOps, TransferCalls
      <3> HIDE DEF h
      <3> QED
        BY <1>2, <1>quiet, <3>1, <3>2
    <2>3. ASSUME PostCheckCredit(r) PROVE MovesOne /\ Posts
      <3> DEFINE h == [req[r] EXCEPT !.op = "post"]
      <3>1. req' = [req EXCEPT ![r] = h] /\ UNCHANGED folio
        BY <1>0, <2>3 DEF PostCheckCredit, ledgerVars
      <3>2. h.op \notin SettleOps
        BY <2>3, <2>own DEF PostCheckCredit, SettleOps, TransferCalls
      <3> HIDE DEF h
      <3> QED
        BY <1>2, <1>quiet, <3>1, <3>2
    <2>4. ASSUME PostCommit(r) PROVE MovesOne /\ Posts
      <3>1. PICK f, n : folio' = [folio EXCEPT ![f].balance = n]
        BY <2>4 DEF PostCommit
      <3>2. Posts
        BY <1>0, <3>1 DEF FolioRow
      <3> QED
        BY <1>idle, <2>4, <3>2 DEF PostCommit
    <2> QED
      BY <1>1, <1>5, <2>1, <2>2, <2>3, <2>4 DEF Post, MovesOne
  <1>6. CASE Void(r)
    <2>1. ASSUME NEW t \in 1..MaxTrx, NEW u \in Users, VoidRead(r, t, u)
          PROVE  MovesOne /\ Posts
      <3> DEFINE h == [op |-> "voidShift", trx |-> t, user |-> u, shift |-> NoShift]
      <3>1. req' = [req EXCEPT ![r] = h] /\ h.op \notin SettleOps /\ UNCHANGED folio
        BY <2>1 DEF VoidRead, Begin, SettleOps, TransferCalls, ledgerVars
      <3> HIDE DEF h
      <3> QED
        BY <1>2, <1>quiet, <3>1
    <2>2. ASSUME NEW sh \in ShiftRef, VoidResolveShift(r, sh) PROVE MovesOne /\ Posts
      <3> DEFINE h == [req[r] EXCEPT !.op = "void", !.shift = sh]
      <3>1. req' = [req EXCEPT ![r] = h] /\ UNCHANGED folio
        BY <1>0, <2>2 DEF VoidResolveShift, ledgerVars
      <3>2. h.op \notin SettleOps
        <4>1. req[r] \in [op : {"voidShift", "void"}, trx : Nat, user : Users,
                          shift : ShiftRef]
          BY <1>0, <2>2, HandlersApart, OwnHandlers, VoidFields
          DEF LedgerOps, VoidResolveShift
        <4> QED
          BY <4>1 DEF SettleOps, TransferCalls
      <3> HIDE DEF h
      <3> QED
        BY <1>2, <1>quiet, <3>1, <3>2
    <2>3. ASSUME VoidCommit(r) PROVE MovesOne /\ Posts
      <3>1. PICK f, n : folio' = [folio EXCEPT ![f].balance = n]
        BY <2>3 DEF VoidCommit
      <3>2. Posts
        BY <1>0, <3>1 DEF FolioRow
      <3> QED
        BY <1>idle, <2>3, <3>2 DEF VoidCommit
    <2> QED
      BY <1>1, <1>6, <2>1, <2>2, <2>3 DEF Void, MovesOne
  <1>7. CASE Settle(r)
    <2>1. ASSUME NEW f \in Folios, CheckoutRead(r, f) \/ InterimRead(r, f) \/ ReopenRead(r, f)
          PROVE  MovesOne /\ Posts
      <3>1. PICK o \in {"checkout", "interim", "reopen"} :
              req' = [req EXCEPT ![r] = [op |-> o, folio |-> f]] /\ UNCHANGED folio
        BY <2>1 DEF CheckoutRead, InterimRead, ReopenRead, Begin, ledgerVars
      <3> DEFINE h == [op |-> o, folio |-> f]
      <3>2. h.op \notin SettleOps /\ req' = [req EXCEPT ![r] = h]
        BY <3>1 DEF SettleOps, TransferCalls
      <3> HIDE DEF h
      <3> QED
        BY <1>2, <1>quiet, <3>1, <3>2
    <2>2. ASSUME CloseCommit(r) \/ ReopenCommit(r) PROVE MovesOne /\ Posts
      <3>1. Posts
        BY <1>0, <2>2 DEF CloseCommit, ReopenCommit, FolioRow
      <3> QED
        BY <1>idle, <2>2, <3>1 DEF CloseCommit, ReopenCommit
    <2> QED
      BY <1>1, <1>7, <2>1, <2>2 DEF Settle, MovesOne
  <1>8. ASSUME NEW f \in Folios, NEW limit \in LimitChoices, SetCreditLimit(r, f, limit)
        PROVE  MovesOne /\ Posts
    <2>1. req' = [req EXCEPT ![r] = req[r]] /\ req[r] = Idle
      BY <1>0, <1>8 DEF SetCreditLimit
    <2>2. Idle.op \notin SettleOps
      BY DEF Idle, SettleOps, TransferCalls
    <2>3. Posts
      BY <1>0, <1>8 DEF SetCreditLimit, FolioRow
    <2> QED
      BY <1>2, <2>1, <2>2, <2>3
  <1>9. ASSUME NEW f \in Folios, NEW a \in known \cup {NoAccount}, SetArRead(r, f, a)
        PROVE  MovesOne /\ Posts
    <2> DEFINE h == [op |-> "setAr", folio |-> f, account |-> a]
    <2>1. req' = [req EXCEPT ![r] = h] /\ h.op \notin SettleOps /\ UNCHANGED folio
      BY <1>9 DEF SetArRead, Begin, SettleOps, TransferCalls, ledgerVars
    <2> HIDE DEF h
    <2> QED
      BY <1>2, <1>quiet, <2>1
  <1>10. CASE SetArCommit(r)
    <2>1. Posts
      BY <1>0, <1>10 DEF SetArCommit, FolioRow
    <2> QED
      BY <1>1, <1>10, <1>idle, <2>1 DEF SetArCommit, MovesOne
  <1>11. CASE Fail(r)
    BY <1>1, <1>11, <1>idle, <1>quiet DEF Fail, ledgerVars, MovesOne
  <1> QED
    BY <1>1, <1>3, <1>4, <1>5, <1>6, <1>7, <1>8, <1>9, <1>10, <1>11 DEF LedgerCall, MovesOne

-----------------------------------------------------------------------------
(* Types and references are kept.                                          *)

\* A step of a request: one of the ledger's, a read or a write of the settlement.
ServiceStep(r) == LedgerCall(r) \/ SettleReader(r) \/ SettleWriter(r)

\* Every step of the system is a step of an admitted request.
LEMMA NextIsService ==
    ASSUME SettleNext
    PROVE  \E r \in Requests : ServiceStep(r) /\ Admitted(r)
  BY ReadersAndWriters DEF SettleNext, ServiceStep

\* The ledger's tables and handlers stay typed when a call of the settlement
\* ends, whatever well-typed rows it leaves.
LEMMA EndsTyped ==
    ASSUME SettleTyped, NEW r \in Requests, End(r),
           folio' \in [Folios -> FolioRow], winbal' \in [Folios -> [Windows -> Int]],
           trx' \in Seq(Row), Len(trx') >= Len(trx)
    PROVE  TypedBeside(SettleHandler)'
  <1>1. TypedBeside(SettleHandler)
    BY DEF SettleTyped
  <1> QED
    BY <1>1, HandlersEnd DEF TypedBeside

\* A step that leaves the ledger's tables alone keeps them typed.
LEMMA QuietlyTyped ==
    ASSUME SettleTyped, NEW r \in Requests, End(r) \/ UNCHANGED req, UNCHANGED ledgerVars
    PROVE  TypedBeside(SettleHandler)'
  <1>1. TypedBeside(SettleHandler)
    BY DEF SettleTyped
  <1>2. folio' = folio /\ winbal' = winbal /\ trx' = trx
    BY DEF ledgerVars
  <1>3. CASE End(r)
    BY <1>1, <1>2, <1>3, HandlersEndQuietly DEF TypedBeside
  <1>4. CASE UNCHANGED req
    BY <1>1, <1>2, <1>4 DEF TypedBeside
  <1> QED
    BY <1>3, <1>4

\* A reading step keeps every table typed.
LEMMA ReadsTyped ==
    ASSUME SettleTyped, NEW r \in Requests, NEW h, TakesUp(r, h), TablesKept,
           UNCHANGED scene
    PROVE  SettleTyped'
  <1>1. TypedBeside(SettleHandler)'
    <2>1. h.op \notin {"voidShift", "void"} /\ h \in SettleHandler
      BY HandlersApart DEF TakesUp, SettleOps, TransferCalls
    <2>2. req' = [req EXCEPT ![r] = h] /\ folio' = folio /\ winbal' = winbal /\ trx' = trx
      BY DEF TakesUp, TablesKept, ledgerVars
    <2> QED
      BY <2>1, <2>2 DEF SettleTyped, TypedBeside
  <1> QED
    BY <1>1 DEF SettleTyped, TablesKept, settleVars

\* A writing step keeps every table typed.
LEMMA WritesTyped ==
    ASSUME SettleTyped, SettleRefers, NEW r \in Requests, SettleWriter(r), UNCHANGED scene
    PROVE  SettleTyped'
  <1> USE DEF settleVars, cityVars, bookVars
  <1>1. ASSUME NEW a \in Accounts, NEW limit \in Limits, NEW active \in BOOLEAN,
               CreateAccount(r, a, limit, active) \/ UpdateAccount(r, a, limit, active)
        PROVE  SettleTyped'
    <2>1. account' \in [Accounts -> AccountRow] /\ known' \subseteq Accounts
      <3>1. CASE CreateAccount(r, a, limit, active)
        <4>1. OpensAccount(a)
          BY <3>1, AccountEffect
        <4> QED
          BY <4>1 DEF OpensAccount, SettleTyped
      <3>2. CASE UpdateAccount(r, a, limit, active)
        <4>1. account' \in [Accounts -> AccountRow]
          BY <3>2, AccountEffect
        <4> QED
          BY <3>2, <4>1 DEF UpdateAccount, SettleTyped
      <3> QED
        BY <1>1, <3>1, <3>2
    <2>2. TypedBeside(SettleHandler)'
      BY <1>1, QuietlyTyped DEF CreateAccount, UpdateAccount
    <2> QED
      BY <1>1, <2>1, <2>2 DEF SettleTyped, CreateAccount, UpdateAccount
  <1>2. CASE TransferCommit(r)
    <2>1. Transfers(req[r])
      BY <1>2, TransferEffect
    <2>2. TypedBeside(SettleHandler)'
      BY <1>2, <2>1, EndsTyped DEF Transfers, TransferCommit
    <2>3. account' \in [Accounts -> AccountRow] /\ invoice' \in Seq(InvoiceRow)
      BY <2>1 DEF Transfers, MovesAccount
    <2> QED
      BY <1>2, <2>2, <2>3 DEF SettleTyped, TransferCommit
  <1>3. CASE AllocateCommit(r)
    <2>1. Allocates(req[r])
      BY <1>3, AllocateEffect
    <2>2. TypedBeside(SettleHandler)'
      BY <1>3, QuietlyTyped DEF AllocateCommit
    <2>3. /\ account' \in [Accounts -> AccountRow] /\ invoice' \in Seq(InvoiceRow)
          /\ payment' \in Seq(PaymentRow)
      BY <2>1 DEF Allocates, MovesAccount
    <2> QED
      BY <1>3, <2>2, <2>3 DEF SettleTyped, AllocateCommit
  <1>4. CASE \/ \E h \in Holds, v \in scene.reservations, amount \in scene.amounts :
                    CreateHold(r, h, v, amount)
             \/ IncrementCommit(r) \/ ReleaseCommit(r)
    <2>1. hold' \in [Holds -> HoldRow]
      BY <1>4, HoldEffect
    <2>2. /\ UNCHANGED <<account, cityVars, taxInvoice, bookVars>>
          /\ End(r) \/ UNCHANGED req
          /\ UNCHANGED ledgerVars
      BY <1>4 DEF CreateHold, IncrementCommit, ReleaseCommit
    <2>3. TypedBeside(SettleHandler)'
      BY <2>2, QuietlyTyped
    <2> QED
      BY <2>1, <2>2, <2>3 DEF SettleTyped
  <1>5. CASE CaptureCommit(r)
    <2>1. Captures(req[r])
      BY <1>5, CaptureEffect
    <2>2. TypedBeside(SettleHandler)'
      BY <1>5, <2>1, EndsTyped DEF Captures, CaptureCommit
    <2> QED
      BY <1>5, <2>1, <2>2 DEF SettleTyped, Captures, CaptureCommit
  <1>6. CASE IssueCommit(r) \/ VoidTaxCommit(r)
    <2>1. taxInvoice' \in Seq(TaxRow)
      BY <1>6, TaxEffect
    <2>2. TypedBeside(SettleHandler)'
      BY <1>6, QuietlyTyped DEF IssueCommit, VoidTaxCommit
    <2> QED
      BY <1>6, <2>1, <2>2 DEF SettleTyped, IssueCommit, VoidTaxCommit
  <1>7. CASE JournalCommit(r)
    <2>1. EntersBooks(req[r])
      BY <1>7, JournalEffect
    <2>2. TypedBeside(SettleHandler)'
      BY <1>7, QuietlyTyped DEF JournalCommit
    <2> QED
      BY <1>7, <2>1, <2>2 DEF SettleTyped, EntersBooks, JournalCommit
  <1> QED
    BY <1>1, <1>2, <1>3, <1>4, <1>5, <1>6, <1>7 DEF SettleWriter

\* A ledger call keeps every table typed: FolioLedgerProofs' StepTyped, beside
\* the settlement's handlers.
LEMMA LedgerTyped ==
    ASSUME SettleTyped, NEW r \in Requests, LedgerCall(r), UNCHANGED scene
    PROVE  SettleTyped'
  <1>1. TypedBeside(SettleHandler)'
    BY LedgerCallEffect, HandlersApart, StepTyped DEF SettleTyped
  <1> QED
    BY <1>1, LedgerCallEffect DEF SettleTyped, settleVars

\* Every step keeps the tables and the handlers typed.
LEMMA StepSettleTyped ==
    ASSUME SettleTyped, SettleRefers, NEW r \in Requests, ServiceStep(r), UNCHANGED scene
    PROVE  SettleTyped'
  BY SettleReads, ReadsTyped, WritesTyped, LedgerTyped DEF ServiceStep

\* Each step moves one handler: to none of the settlement's calls, or on,
\* without a write.
HandlerMoves(r, h) ==
    /\ \A q \in Requests : req'[q] = IF q = r THEN h ELSE req[q]
    /\ h.op \notin SettleOps \/ (TablesKept /\ TakesUp(r, h))

\* Every step moves one handler only.
LEMMA OneMoves ==
    ASSUME SettleTyped, SettleRefers, NEW r \in Requests, ServiceStep(r)
    PROVE  \E h : HandlerMoves(r, h)
  <1>0. req \in [Requests -> LedgerHandler \cup SettleHandler]
    BY DEF SettleTyped, TypedBeside
  <1>idle. Idle.op \notin SettleOps
    BY DEF Idle, SettleOps, TransferCalls
  <1>1. CASE LedgerCall(r)
    <2>1. PICK h : req' = [req EXCEPT ![r] = h] /\ h.op \notin SettleOps
      BY <1>1, LedgerCallEffect
    <2> QED
      BY <1>0, <2>1 DEF HandlerMoves
  <1>2. CASE SettleReader(r)
    <2>1. PICK h : TablesKept /\ TakesUp(r, h)
      BY <1>2, SettleReads
    <2>2. req' = [req EXCEPT ![r] = h]
      BY <2>1 DEF TakesUp
    <2> QED
      BY <1>0, <2>1, <2>2 DEF HandlerMoves
  <1>3. CASE SettleWriter(r)
    <2>1. ASSUME UNCHANGED req, req[r] = Idle PROVE req' = [req EXCEPT ![r] = Idle]
      BY <2>1 DEF SettleTyped, TypedBeside
    <2>2. End(r) \/ (UNCHANGED req /\ req[r] = Idle)
      BY <1>3 DEF SettleWriter, CreateAccount, UpdateAccount, TransferCommit, AllocateCommit,
                  CreateHold, IncrementCommit, ReleaseCommit, CaptureCommit, IssueCommit,
                  VoidTaxCommit, JournalCommit
    <2> QED
      BY <1>0, <1>idle, <2>1, <2>2 DEF End, HandlerMoves
  <1> QED
    BY <1>1, <1>2, <1>3 DEF ServiceStep

\* Accounts, invoices and tax invoices stay; an invoice keeps what it is for.
TablesGrow ==
    /\ known \subseteq known'
    /\ DOMAIN invoice \subseteq DOMAIN invoice'
    /\ \A i \in DOMAIN invoice :
            /\ invoice'[i].account = invoice[i].account
            /\ invoice'[i].folio = invoice[i].folio
            /\ invoice'[i].amount = invoice[i].amount
    /\ DOMAIN taxInvoice \subseteq DOMAIN taxInvoice'

\* Of the writers, a transfer and a payment write invoices, an issue and a void
\* write tax invoices, a payment writes payments, a journal entry the books.
LEMMA WhoWrites ==
    ASSUME SettleTyped, SettleRefers, NEW r \in Requests, ServiceStep(r)
    PROVE  /\ TransferCommit(r) \/ AllocateCommit(r) \/ UNCHANGED invoice
           /\ IssueCommit(r) \/ VoidTaxCommit(r) \/ UNCHANGED taxInvoice
           /\ AllocateCommit(r) \/ UNCHANGED payment
           /\ JournalCommit(r) \/ UNCHANGED <<entry, gl>>
           /\ UNCHANGED known \/ \E a \in Accounts, limit \in Limits, active \in BOOLEAN :
                                    CreateAccount(r, a, limit, active)
  <1> USE DEF settleVars, cityVars, bookVars
  <1>1. CASE LedgerCall(r)
    BY <1>1, LedgerCallEffect
  <1>2. CASE SettleReader(r)
    BY <1>2, SettleReads DEF TablesKept
  <1>3. CASE SettleWriter(r)
    BY <1>3 DEF SettleWriter, UpdateAccount, CreateAccount, TransferCommit, AllocateCommit,
                CreateHold, IncrementCommit, ReleaseCommit, CaptureCommit, IssueCommit,
                VoidTaxCommit, JournalCommit
  <1> QED
    BY <1>1, <1>2, <1>3 DEF ServiceStep

\* No step removes an account or an invoice, or changes what one is for.
LEMMA TablesOnlyGrow ==
    ASSUME SettleTyped, SettleRefers, NEW r \in Requests, ServiceStep(r)
    PROVE  TablesGrow
  <1>1. known \subseteq known'
    BY WhoWrites DEF CreateAccount
  <1>2. /\ DOMAIN invoice \subseteq DOMAIN invoice'
        /\ \A i \in DOMAIN invoice :
            /\ invoice'[i].account = invoice[i].account
            /\ invoice'[i].folio = invoice[i].folio
            /\ invoice'[i].amount = invoice[i].amount
    <2>1. CASE TransferCommit(r)
      <3>1. Appends(invoice, invoice', NewInvoice(req[r]))
        BY <2>1, TransferEffect DEF Transfers
      <3> QED
        BY <3>1 DEF Appends
    <2>2. CASE AllocateCommit(r)
      <3> DEFINE h == req[r]
      <3>1. /\ Replaces(invoice, invoice', h.invoice, PaidRow(h))
            /\ invoice[h.invoice] \in InvoiceRow
        BY <2>2, AllocateEffect DEF Allocates
      <3> HIDE DEF h
      <3>2. /\ PaidRow(h).account = invoice[h.invoice].account
            /\ PaidRow(h).folio = invoice[h.invoice].folio
            /\ PaidRow(h).amount = invoice[h.invoice].amount
        BY <3>1 DEF PaidRow, InvoiceRow
      <3> QED
        BY <3>1, <3>2 DEF Replaces
    <2> QED
      BY <2>1, <2>2, WhoWrites
  <1>3. DOMAIN taxInvoice \subseteq DOMAIN taxInvoice'
    <2>1. CASE IssueCommit(r)
      <3>1. PICK x : Appends(taxInvoice, taxInvoice', x)
        BY <2>1, TaxEffect
      <3> QED
        BY <3>1 DEF Appends
    <2>2. CASE VoidTaxCommit(r)
      <3>1. PICK i, x : Replaces(taxInvoice, taxInvoice', i, x)
        BY <2>2, TaxEffect
      <3> QED
        BY <3>1 DEF Replaces
    <2> QED
      BY <2>1, <2>2, WhoWrites
  <1> QED
    BY <1>1, <1>2, <1>3 DEF TablesGrow

\* What a handler carries stays good while the tables grow.
LEMMA CarriesOn ==
    ASSUME NEW h, Carries(h), TablesGrow
    PROVE  Carries(h)'
  BY DEF Carries, TablesGrow

\* Every handler in flight carries what it may after any step.
LEMMA HandlersRefer ==
    ASSUME SettleTyped, SettleRefers, NEW r \in Requests, ServiceStep(r)
    PROVE  \A q \in Requests : Carries(req[q])'
  <1>1. TablesGrow
    BY TablesOnlyGrow
  <1>2. PICK h : HandlerMoves(r, h)
    BY OneMoves
  <1>3. Carries(h)'
    <2>1. CASE h.op \notin SettleOps
      BY <2>1 DEF Carries, SettleOps, TransferCalls, CaptureCalls
    <2>2. CASE TablesKept /\ TakesUp(r, h)
      BY <1>1, <2>2, CarriesOn DEF TakesUp
    <2> QED
      BY <1>2, <2>1, <2>2 DEF HandlerMoves
  <1>4. ASSUME NEW q \in Requests PROVE Carries(req[q])'
    <2>1. CASE q = r
      <3>1. req'[q] = h
        BY <1>2, <2>1 DEF HandlerMoves
      <3> QED
        BY <1>3, <3>1 DEF Carries
    <2>2. CASE q # r
      <3>1. req'[q] = req[q] /\ Carries(req[q])
        BY <1>2, <2>2 DEF HandlerMoves, SettleRefers
      <3> DEFINE k == req[q]
      <3>2. Carries(k) /\ req'[q] = k
        BY <3>1
      <3> QED
        BY <1>1, <3>2 DEF Carries, TablesGrow
    <2> QED
      BY <2>1, <2>2
  <1> QED
    BY <1>4

\* Invoices and payments refer to rows that exist after any step.
LEMMA StepRefers ==
    ASSUME SettleTyped, SettleRefers, NEW r \in Requests, ServiceStep(r)
    PROVE  SettleRefers'
  <1> USE DEF SettleRefers
  <1>0. TablesGrow
    BY TablesOnlyGrow
  <1>1. \A i \in DOMAIN invoice' :
            invoice'[i].account \in known' /\ invoice'[i].amount > 0 /\ invoice'[i].paid >= 0
    <2>1. CASE TransferCommit(r)
      <3> DEFINE h == req[r]
      <3>1. /\ Appends(invoice, invoice', NewInvoice(h)) /\ h.account \in known
            /\ h.amount \in Int /\ h.amount > 0
        BY <2>1, TransferEffect DEF Transfers
      <3> HIDE DEF h
      <3>2. /\ NewInvoice(h).account \in known /\ NewInvoice(h).amount > 0
            /\ NewInvoice(h).paid = 0
        BY <3>1 DEF NewInvoice
      <3>3. \A i \in DOMAIN invoice' : i \in DOMAIN invoice \/ invoice'[i] = NewInvoice(h)
        BY <3>1 DEF Appends
      <3>4. \A i \in DOMAIN invoice : invoice'[i] = invoice[i]
        BY <3>1 DEF Appends
      <3> QED
        BY <1>0, <3>2, <3>3, <3>4 DEF TablesGrow
    <2>2. CASE AllocateCommit(r)
      <3> DEFINE h == req[r]
      <3>1. /\ Replaces(invoice, invoice', h.invoice, PaidRow(h))
            /\ invoice[h.invoice] \in InvoiceRow /\ h.paid \in Int /\ h.paid > 0
        BY <2>2, AllocateEffect DEF Allocates
      <3> HIDE DEF h
      <3>2. PaidRow(h).paid = h.paid
        BY <3>1 DEF PaidRow, InvoiceRow
      <3>3. \A i \in DOMAIN invoice' :
                i \in DOMAIN invoice /\ invoice'[i].paid \in {invoice[i].paid, h.paid}
        BY <3>1, <3>2 DEF Replaces
      <3> QED
        BY <1>0, <3>1, <3>3 DEF TablesGrow
    <2>3. CASE UNCHANGED invoice
      BY <1>0, <2>3 DEF TablesGrow
    <2> QED
      BY <2>1, <2>2, <2>3, WhoWrites
  <1>2. \A p \in DOMAIN payment' : payment'[p].invoice \in DOMAIN invoice'
    <2>1. CASE AllocateCommit(r)
      <3> DEFINE h == req[r]
                 row == [invoice |-> h.invoice, amount |-> h.amount]
      <3>1. Appends(payment, payment', row) /\ row.invoice \in DOMAIN invoice
        BY <2>1, AllocateEffect DEF Allocates
      <3> HIDE DEF row
      <3>2. \A p \in DOMAIN payment' :
                (p \in DOMAIN payment /\ payment'[p] = payment[p]) \/ payment'[p] = row
        BY <3>1 DEF Appends
      <3> QED
        BY <1>0, <3>1, <3>2 DEF TablesGrow
    <2>2. CASE UNCHANGED payment
      BY <1>0, <2>2 DEF TablesGrow
    <2> QED
      BY <2>1, <2>2, WhoWrites
  <1> QED
    BY <1>1, <1>2, HandlersRefer

-----------------------------------------------------------------------------
(* Invoices.                                                               *)

\* Only a transfer posts a folio to the city ledger.
LEMMA WhoPosts ==
    ASSUME SettleTyped, SettleRefers, NEW r \in Requests, ServiceStep(r), NEW f \in Folios,
           folio'[f].status = "POSTED_TO_CITY_LEDGER"
    PROVE  \/ folio[f].status = "POSTED_TO_CITY_LEDGER"
           \/ TransferCommit(r) /\ f = req[r].folio
  <1>1. CASE LedgerCall(r)
    BY <1>1, LedgerCallEffect
  <1>2. CASE SettleReader(r)
    BY <1>2, SettleReads DEF TablesKept, ledgerVars
  <1>3. CASE TransferCommit(r)
    BY <1>3, TransferEffect DEF Transfers
  <1>4. CASE CaptureCommit(r)
    BY <1>4, CaptureEffect DEF Captures
  <1>5. CASE SettleWriter(r) /\ ~TransferCommit(r) /\ ~CaptureCommit(r)
    <2>1. UNCHANGED folio
      BY <1>5 DEF SettleWriter, CreateAccount, UpdateAccount, AllocateCommit, CreateHold,
                  IncrementCommit, ReleaseCommit, IssueCommit, VoidTaxCommit, JournalCommit,
                  ledgerVars
    <2> QED
      BY <2>1
  <1> QED
    BY <1>1, <1>2, <1>3, <1>4, <1>5 DEF ServiceStep

\* An invoice shows no more than its amount, and its status follows.
SaneRow(x) ==
    /\ x.paid <= x.amount
    /\ x.status = "OPEN" <=> x.paid = 0
    /\ x.status = "PAID" <=> x.paid = x.amount

\* A payment writes a paid amount between 0 and the invoice's and the status
\* that follows from it; a transfer writes an open invoice.
LEMMA StepSane ==
    ASSUME SettleTyped, SettleRefers, InvoicesAreSane, NEW r \in Requests, ServiceStep(r),
           SettleTyped'
    PROVE  InvoicesAreSane'
  <1>1. \A i \in DOMAIN invoice : SaneRow(invoice[i])
    BY DEF InvoicesAreSane, SaneRow
  <1>2. \A i \in DOMAIN invoice' : SaneRow(invoice'[i])
    <2>1. CASE TransferCommit(r)
      <3> DEFINE h == req[r]
      <3>1. /\ Appends(invoice, invoice', NewInvoice(h))
            /\ h.amount \in Int /\ h.amount > 0
        BY <2>1, TransferEffect DEF Transfers
      <3> HIDE DEF h
      <3>2. SaneRow(NewInvoice(h))
        BY <3>1 DEF NewInvoice, SaneRow
      <3> QED
        BY <1>1, <3>1, <3>2 DEF Appends
    <2>2. CASE AllocateCommit(r)
      <3> DEFINE h == req[r]
      <3>1. /\ Replaces(invoice, invoice', h.invoice, PaidRow(h))
            /\ invoice[h.invoice] \in InvoiceRow /\ h.paid \in Int /\ h.paid > 0
            /\ h.paid <= invoice[h.invoice].amount
        BY <2>2, AllocateEffect DEF Allocates
      <3> HIDE DEF h
      <3>2. /\ PaidRow(h).paid = h.paid /\ PaidRow(h).amount = invoice[h.invoice].amount
            /\ PaidRow(h).amount \in Int
            /\ PaidRow(h).status = StatusAfterPayment(PaidRow(h).amount, h.paid)
        BY <3>1 DEF PaidRow, InvoiceRow
      <3>3. SaneRow(PaidRow(h))
        BY <3>1, <3>2 DEF SaneRow, StatusAfterPayment
      <3> QED
        BY <1>1, <3>1, <3>3 DEF Replaces
    <2> QED
      BY <1>1, <2>1, <2>2, WhoWrites
  <1>3. ASSUME NEW f \in Folios, folio'[f].status = "POSTED_TO_CITY_LEDGER"
        PROVE  (LiveInvoices(f))' # {}
    <2>1. \A i \in DOMAIN invoice' : invoice'[i].status # "VOID"
      <3>1. \A i \in DOMAIN invoice' : invoice'[i] \in InvoiceRow
        BY ElementOfSeq DEF SettleTyped
      <3> QED
        BY <3>1 DEF InvoiceRow
    <2>2. \E i \in DOMAIN invoice' : invoice'[i].folio = f
      <3>1. CASE folio[f].status = "POSTED_TO_CITY_LEDGER"
        <4>1. PICK i \in DOMAIN invoice : invoice[i].folio = f
          BY <3>1 DEF InvoicesAreSane, LiveInvoices
        <4> QED
          BY <4>1, TablesOnlyGrow DEF TablesGrow
      <3>2. CASE TransferCommit(r) /\ f = req[r].folio
        <4>1. Appends(invoice, invoice', NewInvoice(req[r])) /\ NewInvoice(req[r]).folio = f
          BY <3>2, TransferEffect DEF Transfers, NewInvoice
        <4> QED
          BY <4>1 DEF Appends
      <3> QED
        BY <1>3, <3>1, <3>2, WhoPosts
    <2> QED
      BY <2>1, <2>2 DEF LiveInvoices
  <1> QED
    BY <1>2, <1>3 DEF InvoicesAreSane, SaneRow

-----------------------------------------------------------------------------
(* What a company owes.                                                    *)

\* The tables and the selections summed over are finite.
LEMMA RowsFinite ==
    ASSUME SettleTyped
    PROVE  /\ IsFiniteSet(DOMAIN invoice) /\ IsFiniteSet(DOMAIN payment)
           /\ \A i : IsFiniteSet(PaymentsOf(i))
           /\ \A a : IsFiniteSet(InvoicesOf(a))
  <1>1. /\ DOMAIN invoice = 1..Len(invoice) /\ DOMAIN payment = 1..Len(payment)
        /\ Len(invoice) \in Nat /\ Len(payment) \in Nat
    BY DEF SettleTyped
  <1>2. IsFiniteSet(DOMAIN invoice) /\ IsFiniteSet(DOMAIN payment)
    BY <1>1, FS_Interval
  <1>3. (\A i : PaymentsOf(i) \subseteq DOMAIN payment)
        /\ (\A a : InvoicesOf(a) \subseteq DOMAIN invoice)
    BY DEF PaymentsOf, InvoicesOf
  <1> QED
    BY <1>2, <1>3, FS_Subset

\* What a payment pays, and what is still due on an invoice.
PaidBy == [p \in DOMAIN payment |-> payment[p].amount]
Due == [i \in DOMAIN invoice |-> invoice[i].amount - PaidOn(i)]

\* The sums are integers, written with SumFunctionOnSet.
LEMMA SumsTyped ==
    ASSUME SettleTyped
    PROVE  /\ \A p \in DOMAIN payment : PaidBy[p] \in Int
           /\ \A i : PaidOn(i) = SumFunctionOnSet(PaidBy, PaymentsOf(i)) /\ PaidOn(i) \in Int
           /\ \A i \in DOMAIN invoice :
                invoice[i].amount \in Int /\ invoice[i].paid \in Int /\ Due[i] \in Int
  <1>1. \A p \in DOMAIN payment : PaidBy[p] \in Int
    <2> TAKE p \in DOMAIN payment
    <2>1. payment[p] \in PaymentRow
      BY ElementOfSeq DEF SettleTyped
    <2> QED
      BY <2>1 DEF PaidBy, PaymentRow
  <1>2. \A i : PaidOn(i) = SumFunctionOnSet(PaidBy, PaymentsOf(i))
    BY DEF PaidOn, PaidBy
  <1>3. ASSUME NEW i PROVE PaidOn(i) \in Int
    <2>1. \A p \in PaymentsOf(i) : PaidBy[p] \in Int
      BY <1>1 DEF PaymentsOf
    <2>2. IsFiniteSet(PaymentsOf(i))
      BY RowsFinite
    <2> QED
      BY <1>2, <2>1, <2>2, SumType
  <1>4. \A i \in DOMAIN invoice :
            invoice[i].amount \in Int /\ invoice[i].paid \in Int /\ Due[i] \in Int
    <2> TAKE i \in DOMAIN invoice
    <2>1. invoice[i] \in InvoiceRow
      BY ElementOfSeq DEF SettleTyped
    <2>2. invoice[i].amount \in Int /\ invoice[i].paid \in Int
      BY <2>1 DEF InvoiceRow
    <2> QED
      BY <1>3, <2>2 DEF Due
  <1> QED
    BY <1>1, <1>2, <1>3, <1>4

\* Payments and invoices that stay leave what is paid on an invoice alone; a
\* payment adds to its own invoice.
LEMMA PaymentAdds ==
    ASSUME SettleTyped, SettleTyped', NEW h, Allocates(h), NEW i
    PROVE  (PaidOn(i))' = PaidOn(i) + (IF i = h.invoice THEN h.amount ELSE 0)
  <1> DEFINE n == Len(payment) + 1
             row == [invoice |-> h.invoice, amount |-> h.amount]
             P == PaymentsOf(i)
             Q == (PaymentsOf(i))'
             old == PaidBy
             new == (PaidBy)'
  <1>1. /\ Appends(payment, payment', row)
        /\ row.invoice = h.invoice /\ row.amount = h.amount /\ h.amount \in Int
    BY DEF Allocates
  <1> HIDE DEF row
  <1>2. /\ DOMAIN payment' = DOMAIN payment \cup {n} /\ n \notin DOMAIN payment
        /\ payment'[n] = row /\ \A p \in DOMAIN payment : payment'[p] = payment[p]
    BY <1>1 DEF Appends
  <1> HIDE DEF n
  <1>3. new[n] = h.amount /\ \A p \in DOMAIN payment : new[p] = old[p]
    BY <1>1, <1>2 DEF PaidBy
  <1>4. Q = IF i = h.invoice THEN P \cup {n} ELSE P
    <2>1. \A p \in DOMAIN payment : payment'[p].invoice = payment[p].invoice
      BY <1>2
    <2>2. payment'[n].invoice = h.invoice
      BY <1>1, <1>2
    <2> QED
      BY <1>2, <2>1, <2>2 DEF PaymentsOf
  <1>5. /\ P \subseteq DOMAIN payment /\ IsFiniteSet(P) /\ PaidOn(i) \in Int
        /\ PaidOn(i) = SumFunctionOnSet(old, P)
        /\ (PaidOn(i))' = SumFunctionOnSet(new, Q)
        /\ \A p \in DOMAIN payment : old[p] \in Int
    <2>1. (PaidOn(i))' = SumFunctionOnSet(new, Q)
      BY DEF PaidOn, PaidBy
    <2> QED
      BY <2>1, RowsFinite, SumsTyped DEF PaymentsOf
  <1> HIDE DEF P, Q, old, new
  <1>6. SumFunctionOnSet(new, P) = SumFunctionOnSet(old, P)
    BY <1>3, <1>5, SumAgrees
  <1>7. CASE i = h.invoice
    <2>1. n \notin P /\ \A p \in P \cup {n} : new[p] \in Int
      BY <1>1, <1>2, <1>3, <1>5
    <2>2. SumFunctionOnSet(new, P \cup {n}) = new[n] + SumFunctionOnSet(new, P)
      BY <1>5, <2>1, SumGrows
    <2> QED
      BY <1>1, <1>3, <1>4, <1>5, <1>6, <1>7, <2>2
  <1>8. CASE i # h.invoice
    BY <1>4, <1>5, <1>6, <1>8
  <1> QED
    BY <1>7, <1>8

\* Without a payment what is paid stays.
LEMMA PaidOnKept ==
    ASSUME UNCHANGED payment, NEW i PROVE (PaidOn(i))' = PaidOn(i)
  BY DEF PaidOn, PaymentsOf

\* Nothing was paid on an invoice that does not exist yet.
LEMMA NothingPaidYet ==
    ASSUME SettleTyped, SettleRefers, NEW i, i \notin DOMAIN invoice
    PROVE  PaidOn(i) = 0
  <1>1. PaymentsOf(i) = {}
    BY DEF SettleRefers, PaymentsOf
  <1> QED
    BY <1>1, SumOfNone DEF PaidOn

\* AccountIsInvoicedLessPaid, said with Due.
LEMMA OwedAs == AccountIsInvoicedLessPaid <=>
    \A a \in known : account[a].balance = SumFunctionOnSet(Due, InvoicesOf(a))
  BY DEF AccountIsInvoicedLessPaid, Due

\* A transfer adds an invoice nothing was paid on.
LEMMA TransferOwes ==
    ASSUME SettleTyped, SettleRefers, SettleTyped', NEW h, Transfers(h), UNCHANGED payment,
           NEW a \in known
    PROVE  SumFunctionOnSet(Due', (InvoicesOf(a))')
            = SumFunctionOnSet(Due, InvoicesOf(a)) + (IF a = h.account THEN h.amount ELSE 0)
  <1>0. PICK n : n = Len(invoice) + 1
    OBVIOUS
  <1> DEFINE I == InvoicesOf(a)
             J == (InvoicesOf(a))'
             old == Due
             new == Due'
  <1>1. /\ Appends(invoice, invoice', NewInvoice(h)) /\ h.amount \in Int
        /\ NewInvoice(h).account = h.account /\ NewInvoice(h).amount = h.amount
    BY DEF Transfers, NewInvoice
  <1>2. /\ DOMAIN invoice' = DOMAIN invoice \cup {n} /\ n \notin DOMAIN invoice
        /\ invoice'[n] = NewInvoice(h) /\ \A i \in DOMAIN invoice : invoice'[i] = invoice[i]
    BY <1>0, <1>1 DEF Appends
  <1>3. new[n] = h.amount /\ \A i \in DOMAIN invoice : new[i] = old[i]
    <2>1. (PaidOn(n))' = 0 /\ \A i : (PaidOn(i))' = PaidOn(i)
      BY <1>2, PaidOnKept, NothingPaidYet
    <2>2. new = [i \in DOMAIN invoice' |-> invoice'[i].amount - (PaidOn(i))']
      BY DEF Due
    <2>3. new[n] = h.amount - 0
      BY <1>1, <1>2, <2>1, <2>2
    <2> QED
      BY <1>1, <1>2, <2>1, <2>2, <2>3 DEF Due
  <1>4. J = IF a = h.account THEN I \cup {n} ELSE I
    BY <1>1, <1>2 DEF InvoicesOf
  <1>5. /\ I \subseteq DOMAIN invoice /\ IsFiniteSet(I)
        /\ \A i \in DOMAIN invoice : old[i] \in Int
    BY RowsFinite, SumsTyped DEF InvoicesOf
  <1> HIDE DEF I, J, old, new
  <1>6. SumFunctionOnSet(new, I) = SumFunctionOnSet(old, I)
    BY <1>3, <1>5, SumAgrees
  <1>7. SumFunctionOnSet(old, I) \in Int
    BY <1>5, SumType
  <1>8. CASE a = h.account
    <2>1. n \notin I /\ \A i \in I \cup {n} : new[i] \in Int
      BY <1>1, <1>2, <1>3, <1>5
    <2>2. SumFunctionOnSet(new, I \cup {n}) = new[n] + SumFunctionOnSet(new, I)
      BY <1>5, <2>1, SumGrows
    <2> QED
      BY <1>1, <1>3, <1>4, <1>6, <1>7, <1>8, <2>2 DEF I, J, old, new
  <1>9. CASE a # h.account
    BY <1>4, <1>6, <1>7, <1>9 DEF I, J, old, new
  <1> QED
    BY <1>8, <1>9

\* A payment takes from what is due on one invoice.
LEMMA AllocateOwes ==
    ASSUME SettleTyped, SettleTyped', NEW h, Allocates(h), NEW a \in known
    PROVE  SumFunctionOnSet(Due', (InvoicesOf(a))')
            = SumFunctionOnSet(Due, InvoicesOf(a))
                + (IF a = invoice[h.invoice].account THEN -h.amount ELSE 0)
  <1> DEFINE k == h.invoice
             I == InvoicesOf(a)
             old == Due
             new == Due'
  <1>1. /\ Replaces(invoice, invoice', k, PaidRow(h)) /\ k \in DOMAIN invoice
        /\ h.amount \in Int /\ invoice[k] \in InvoiceRow
    BY DEF Allocates
  <1>2. PaidRow(h).account = invoice[k].account /\ PaidRow(h).amount = invoice[k].amount
    BY <1>1 DEF PaidRow, InvoiceRow
  <1>3. /\ DOMAIN invoice' = DOMAIN invoice
        /\ \A i \in DOMAIN invoice : /\ invoice'[i].account = invoice[i].account
                                     /\ invoice'[i].amount = invoice[i].amount
    BY <1>1, <1>2 DEF Replaces
  <1>4. (InvoicesOf(a))' = I
    BY <1>3 DEF InvoicesOf
  <1>5. new[k] = old[k] - h.amount /\ \A i \in DOMAIN invoice \ {k} : new[i] = old[i]
    <2>1. new = [i \in DOMAIN invoice' |-> invoice'[i].amount - (PaidOn(i))']
      BY DEF Due
    <2>2. \A i \in DOMAIN invoice : new[i] = invoice[i].amount - (PaidOn(i))'
      BY <1>3, <2>1
    <2>3. \A i : /\ (PaidOn(i))' = PaidOn(i) + (IF i = k THEN h.amount ELSE 0)
                 /\ PaidOn(i) \in Int
      BY PaymentAdds, SumsTyped
    <2>4. \A i \in DOMAIN invoice : old[i] = invoice[i].amount - PaidOn(i)
                                   /\ invoice[i].amount \in Int
      BY SumsTyped DEF Due
    <2> HIDE DEF k, old, new
    <2> QED
      BY <1>1, <2>2, <2>3, <2>4
  <1>6. /\ I \subseteq DOMAIN invoice /\ IsFiniteSet(I)
        /\ \A i \in DOMAIN invoice : old[i] \in Int
        /\ k \in I <=> a = invoice[k].account
    BY <1>1, RowsFinite, SumsTyped DEF InvoicesOf
  <1> HIDE DEF I, old, new, k
  <1>7. SumFunctionOnSet(old, I) \in Int
    BY <1>6, SumType
  <1>8. CASE k \in I
    <2>1. \A i \in I : old[i] \in Int /\ new[i] \in Int
      BY <1>1, <1>5, <1>6
    <2>2. \A i \in I \ {k} : new[i] = old[i]
      BY <1>5, <1>6
    <2>3. SumFunctionOnSet(new, I) = SumFunctionOnSet(old, I) + new[k] - old[k]
      BY <1>6, <1>8, <2>1, <2>2, SumMoves
    <2>4. SumFunctionOnSet(new, I) = SumFunctionOnSet(old, I) + (-h.amount)
      BY <1>1, <1>5, <1>6, <1>7, <1>8, <2>1, <2>3
    <2> QED
      BY <1>4, <1>6, <1>8, <2>4 DEF k, I, old, new
  <1>9. CASE k \notin I
    <2>1. \A i \in I : new[i] = old[i]
      BY <1>5, <1>6, <1>9
    <2>2. SumFunctionOnSet(new, I) = SumFunctionOnSet(old, I)
      BY <1>6, <2>1, SumAgrees
    <2> QED
      BY <1>4, <1>6, <1>7, <1>9, <2>2 DEF k, I, old, new
  <1> QED
    BY <1>8, <1>9

\* Every other step leaves the balances and what they add up from alone, or
\* adds an account nobody has been invoiced for.
LEMMA WhoOwes ==
    ASSUME SettleTyped, SettleRefers, NEW r \in Requests, ServiceStep(r)
    PROVE  \/ TransferCommit(r) \/ AllocateCommit(r)
           \/ /\ UNCHANGED <<invoice, payment>>
              /\ \/ \E a \in Accounts : OpensAccount(a)
                 \/ /\ UNCHANGED known
                    /\ \A b \in Accounts : account'[b].balance = account[b].balance
  <1> USE DEF settleVars, cityVars
  <1>1. CASE LedgerCall(r)
    BY <1>1, LedgerCallEffect
  <1>2. CASE SettleReader(r)
    BY <1>2, SettleReads DEF TablesKept
  <1>3. ASSUME NEW a \in Accounts, NEW limit \in Limits, NEW active \in BOOLEAN,
               CreateAccount(r, a, limit, active)
        PROVE  UNCHANGED <<invoice, payment>> /\ OpensAccount(a)
    BY <1>3, AccountEffect DEF CreateAccount
  <1>4. ASSUME NEW a \in Accounts, NEW limit \in Limits, NEW active \in BOOLEAN,
               UpdateAccount(r, a, limit, active)
        PROVE  /\ UNCHANGED <<invoice, payment, known>>
               /\ \A b \in Accounts : account'[b].balance = account[b].balance
    BY <1>4, AccountEffect DEF UpdateAccount
  <1>5. ASSUME \/ \E h \in Holds, v \in scene.reservations, amount \in scene.amounts :
                        CreateHold(r, h, v, amount)
               \/ IncrementCommit(r) \/ ReleaseCommit(r) \/ CaptureCommit(r)
               \/ IssueCommit(r) \/ VoidTaxCommit(r) \/ JournalCommit(r)
        PROVE  UNCHANGED <<invoice, payment, known, account>>
    BY <1>5 DEF CreateHold, IncrementCommit, ReleaseCommit, CaptureCommit, IssueCommit,
                VoidTaxCommit, JournalCommit
  <1> QED
    BY <1>1, <1>2, <1>3, <1>4, <1>5 DEF ServiceStep, SettleWriter

\* Every step keeps balances and invoices less payments equal.
LEMMA StepOwed ==
    ASSUME SettleTyped, SettleRefers, AccountIsInvoicedLessPaid, NEW r \in Requests,
           ServiceStep(r), SettleTyped'
    PROVE  AccountIsInvoicedLessPaid'
  <1> DEFINE owed(a) == SumFunctionOnSet(Due, InvoicesOf(a))
  <1>0. \A a \in known : account[a].balance = owed(a) /\ a \in Accounts
    BY OwedAs DEF SettleTyped
  <1>9. ASSUME \A a \in known' : account'[a].balance
                                  = SumFunctionOnSet(Due', (InvoicesOf(a))')
        PROVE  AccountIsInvoicedLessPaid'
    BY <1>9 DEF AccountIsInvoicedLessPaid, Due
  <1>1. CASE TransferCommit(r)
    <2> DEFINE h == req[r]
    <2>1. /\ Transfers(h) /\ UNCHANGED payment /\ known' = known
      BY <1>1, TransferEffect DEF TransferCommit
    <2> HIDE DEF h
    <2>2. MovesAccount(h.account, h.amount) /\ h.amount \in Int
      BY <2>1 DEF Transfers
    <2>3. ASSUME NEW a \in known
          PROVE  account'[a].balance = SumFunctionOnSet(Due', (InvoicesOf(a))')
      <3>1. SumFunctionOnSet(Due', (InvoicesOf(a))')
              = owed(a) + (IF a = h.account THEN h.amount ELSE 0)
        BY <2>1, TransferOwes
      <3>2. account'[a].balance = IF a = h.account THEN account[a].balance + h.amount
                                  ELSE account[a].balance
        BY <1>0, <2>2 DEF MovesAccount
      <3>3. account[a].balance \in Int /\ account[a].balance = owed(a)
        BY <1>0 DEF SettleTyped, AccountRow
      <3> HIDE DEF owed
      <3> QED
        BY <2>2, <3>1, <3>2, <3>3
    <2> QED
      BY <1>9, <2>1, <2>3
  <1>2. CASE AllocateCommit(r)
    <2> DEFINE h == req[r]
    <2>1. Allocates(h) /\ known' = known
      BY <1>2, AllocateEffect DEF AllocateCommit
    <2> HIDE DEF h
    <2>2. MovesAccount(invoice[h.invoice].account, -h.amount) /\ h.amount \in Int
      BY <2>1 DEF Allocates
    <2>3. ASSUME NEW a \in known
          PROVE  account'[a].balance = SumFunctionOnSet(Due', (InvoicesOf(a))')
      <3> DEFINE b == invoice[h.invoice].account
      <3>1. SumFunctionOnSet(Due', (InvoicesOf(a))')
              = owed(a) + (IF a = b THEN -h.amount ELSE 0)
        BY <2>1, AllocateOwes
      <3>2. account'[a].balance = IF a = b THEN account[a].balance + (-h.amount)
                                  ELSE account[a].balance
        BY <1>0, <2>2 DEF MovesAccount
      <3>3. account[a].balance \in Int /\ account[a].balance = owed(a)
        BY <1>0 DEF SettleTyped, AccountRow
      <3> HIDE DEF owed, b
      <3> QED
        BY <2>2, <3>1, <3>2, <3>3
    <2> QED
      BY <1>9, <2>1, <2>3
  <1>3. CASE UNCHANGED <<invoice, payment>>
    <2>1. \A a : (InvoicesOf(a))' = InvoicesOf(a)
      BY <1>3 DEF InvoicesOf
    <2>2. Due' = Due
      <3>1. \A i : (PaidOn(i))' = PaidOn(i)
        BY <1>3, PaidOnKept
      <3> QED
        BY <1>3, <3>1 DEF Due
    <2>3. ASSUME NEW b \in Accounts, OpensAccount(b)
          PROVE  AccountIsInvoicedLessPaid'
      <3>1. InvoicesOf(b) = {}
        BY <2>3 DEF InvoicesOf, OpensAccount, SettleRefers
      <3>2. owed(b) = 0
        BY <3>1, SumOfNone
      <3>3. \A a \in known' : account'[a].balance = owed(a)
        <4> TAKE a \in known'
        <4>1. CASE a = b
          BY <2>3, <3>2, <4>1 DEF OpensAccount
        <4>2. CASE a # b
          BY <1>0, <2>3, <4>2 DEF OpensAccount
        <4> QED
          BY <4>1, <4>2
      <3> QED
        BY <1>9, <2>1, <2>2, <3>3
    <2>4. ASSUME UNCHANGED known, \A b \in Accounts : account'[b].balance = account[b].balance
          PROVE  AccountIsInvoicedLessPaid'
      <3>1. \A a \in known' : account'[a].balance = owed(a)
        BY <1>0, <2>4
      <3> QED
        BY <1>9, <2>1, <2>2, <3>1
    <2>5. CASE TransferCommit(r) \/ AllocateCommit(r)
      BY <1>1, <1>2, <2>5
    <2> QED
      BY <2>3, <2>4, <2>5, WhoOwes
  <1> QED
    BY <1>1, <1>2, <1>3, WhoOwes

-----------------------------------------------------------------------------
(* The books.                                                              *)

\* What an entry moved on an account.
Booked(a) == [s \in Sources |-> entry[s][a].debit - entry[s][a].credit]

\* A journal entry's lines balance, so the trial balance stays zero.
LEMMA StepBalanced ==
    ASSUME SettleTyped, SettleRefers, TrialBalanceIsZero, NEW r \in Requests,
           ServiceStep(r), SettleTyped'
    PROVE  TrialBalanceIsZero'
  <1>1. CASE UNCHANGED <<entry, gl>>
    BY <1>1 DEF TrialBalanceIsZero
  <1>2. CASE JournalCommit(r)
    <2> DEFINE h == req[r]
    <2>1. EntersBooks(h)
      BY <1>2, JournalEffect
    <2>2. IsFiniteSet(GLAccounts) /\ IsFiniteSet(Sources)
      BY SettlementAssumption
    <2>3. /\ gl \in [GLAccounts -> Int] /\ gl' \in [GLAccounts -> Int]
          /\ entry \in [Sources -> JournalLines] /\ entry' \in [Sources -> JournalLines]
      BY DEF SettleTyped
    <2>4. \A a \in GLAccounts : gl[a] = SumFunction(Booked(a))
      BY DEF TrialBalanceIsZero, Booked
    <2>5. SumFunction(gl) = 0
      BY DEF TrialBalanceIsZero
    <2> HIDE DEF h
    <2>6. ASSUME NEW a \in GLAccounts PROVE gl'[a] = SumFunction((Booked(a))')
      <3> DEFINE old == Booked(a)
                 new == (Booked(a))'
      <3>1. /\ old = [s \in Sources |-> entry[s][a].debit - entry[s][a].credit]
            /\ new = [s \in Sources |-> entry'[s][a].debit - entry'[s][a].credit]
        BY DEF Booked
      <3>2. \A s \in Sources :
                /\ entry[s][a].debit \in Int /\ entry[s][a].credit \in Int
                /\ entry'[s][a].debit \in Int /\ entry'[s][a].credit \in Int
        BY <2>3 DEF JournalLines
      <3>3. \A s \in Sources : old[s] \in Int /\ new[s] \in Int
        BY <3>1, <3>2
      <3>4. \A s \in Sources \ {h.source} : new[s] = old[s]
        BY <2>1, <3>1 DEF EntersBooks
      <3>5. h.source \in Sources /\ old[h.source] = 0
        BY <2>1, <3>1 DEF EntersBooks, NoEntry
      <3>6. new[h.source] = h.lines[a].debit - h.lines[a].credit
        BY <2>1, <3>1, <3>5 DEF EntersBooks
      <3>7. DOMAIN old = Sources /\ DOMAIN new = Sources
        BY <3>1
      <3>8. SumFunction(old) = SumFunctionOnSet(old, Sources)
            /\ SumFunction(new) = SumFunctionOnSet(new, Sources)
        BY <3>7 DEF SumFunction, SumFunctionOnSet, FoldFunction
      <3> HIDE DEF old, new
      <3>9. SumFunctionOnSet(new, Sources)
                = SumFunctionOnSet(old, Sources) + new[h.source] - old[h.source]
        BY <2>2, <3>3, <3>4, <3>5, SumMoves
      <3>10. gl[a] = SumFunctionOnSet(old, Sources) /\ gl[a] \in Int
        BY <2>3, <2>4, <3>8 DEF old
      <3>11. gl'[a] = gl[a] + h.lines[a].debit - h.lines[a].credit
        BY <2>1 DEF EntersBooks
      <3>12. h.lines[a].debit \in Int /\ h.lines[a].credit \in Int
        BY <2>1 DEF EntersBooks, JournalLines
      <3>13. gl'[a] = SumFunctionOnSet(new, Sources)
        BY <3>5, <3>6, <3>9, <3>10, <3>11, <3>12
      <3> QED
        BY <3>8, <3>13 DEF new
    <2>7. SumFunction(gl') = 0
      <3> DEFINE d == Difference(h.lines)
      <3>1. /\ DOMAIN gl = GLAccounts /\ DOMAIN gl' = GLAccounts /\ DOMAIN d = GLAccounts
        BY <2>3 DEF Difference
      <3>2. /\ SumFunctionOnSet(gl, GLAccounts) = 0
            /\ SumFunctionOnSet(d, GLAccounts) = 0
            /\ SumFunction(gl') = SumFunctionOnSet(gl', GLAccounts)
        BY <2>1, <2>5, <3>1 DEF EntersBooks, Balanced, SumFunction, SumFunctionOnSet, FoldFunction
      <3>3. \A a \in GLAccounts : gl[a] \in Int /\ d[a] \in Int /\ gl'[a] = gl[a] + d[a]
        <4> TAKE a \in GLAccounts
        <4>1. h.lines[a].debit \in Int /\ h.lines[a].credit \in Int /\ gl[a] \in Int
          BY <2>1, <2>3 DEF EntersBooks, JournalLines
        <4>2. d[a] = h.lines[a].debit - h.lines[a].credit
          BY DEF Difference
        <4>3. gl'[a] = gl[a] + h.lines[a].debit - h.lines[a].credit
          BY <2>1 DEF EntersBooks
        <4> QED
          BY <4>1, <4>2, <4>3
      <3> HIDE DEF d
      <3>4. SumFunctionOnSet(gl', GLAccounts)
                = SumFunctionOnSet(gl, GLAccounts) + SumFunctionOnSet(d, GLAccounts)
        BY <2>2, <3>3, SumCombines
      <3> QED
        BY <3>2, <3>4
    <2> QED
      BY <2>6, <2>7 DEF TrialBalanceIsZero, Booked
  <1> QED
    BY <1>1, <1>2, WhoWrites

-----------------------------------------------------------------------------
(* From the first state on.                                                *)

\* The inductive invariant of the books, whatever calls overlap.
SettleBooks ==
    SettleTyped /\ SettleRefers /\ InvoicesAreSane /\ AccountIsInvoicedLessPaid
    /\ TrialBalanceIsZero

\* It holds before the first call.
LEMMA InitSettles == SettleInit => SettleBooks
  <1> SUFFICES ASSUME SettleInit PROVE SettleBooks
    OBVIOUS
  <1> USE DEF SettleInit
  <1>1. TypedBeside(SettleHandler)
    <2>1. TypeOK
      BY InitTypeOK
    <2> QED
      BY <2>1 DEF TypeOK, TypedBeside
  <1>2. NoEntry \in JournalLines /\ NoPreauth \in HoldRow
    BY DEF NoEntry, JournalLines, NoPreauth, HoldRow
  <1>3. account \in [Accounts -> AccountRow] /\ gl \in [GLAccounts -> Int]
    BY DEF AccountRow
  <1>4. invoice \in Seq(InvoiceRow) /\ payment \in Seq(PaymentRow) /\ taxInvoice \in Seq(TaxRow)
    OBVIOUS
  <1>5. SettleTyped
    BY <1>1, <1>2, <1>3, <1>4 DEF SettleTyped
  <1>6. SettleRefers
    <2>1. \A r \in Requests : req[r] = Idle /\ Idle.op = "idle"
      BY DEF Init, Idle
    <2> QED
      BY <2>1 DEF SettleRefers, Carries, TransferCalls, CaptureCalls
  <1>7. InvoicesAreSane
    BY DEF InvoicesAreSane, Init, NoFolio
  <1>8. AccountIsInvoicedLessPaid
    BY DEF AccountIsInvoicedLessPaid
  <1>9. TrialBalanceIsZero
    <2>1. IsFiniteSet(GLAccounts) /\ IsFiniteSet(Sources)
      BY SettlementAssumption
    <2>2. DOMAIN gl = GLAccounts /\ \A a \in GLAccounts : gl[a] = 0
      OBVIOUS
    <2>3. SumFunctionOnSet(gl, GLAccounts) = 0
      BY <2>1, <2>2, SumOfZeros
    <2>4. SumFunction(gl) = 0
      BY <2>2, <2>3 DEF SumFunction, SumFunctionOnSet
    <2>5. ASSUME NEW a \in GLAccounts PROVE SumFunction(Booked(a)) = 0
      <3> DEFINE b == Booked(a)
      <3>1. DOMAIN b = Sources /\ \A s \in Sources : b[s] = 0
        BY DEF Booked, NoEntry
      <3>2. SumFunction(b) = SumFunctionOnSet(b, Sources)
        BY <3>1 DEF SumFunction, SumFunctionOnSet
      <3> HIDE DEF b
      <3>3. SumFunctionOnSet(b, Sources) = 0
        BY <2>1, <3>1, SumOfZeros
      <3> QED
        BY <3>2, <3>3 DEF b
    <2> QED
      BY <2>2, <2>4, <2>5 DEF TrialBalanceIsZero, Booked
  <1> QED
    BY <1>5, <1>6, <1>7, <1>8, <1>9 DEF SettleBooks

\* A step of the specification leaves the chosen scene alone.
SettleStep == SettleNext /\ UNCHANGED scene

\* It is kept by every step.
LEMMA StepSettles ==
    SettleBooks /\ [SettleStep]_<<allVars, scene>> => SettleBooks'
  <1> SUFFICES ASSUME SettleBooks, [SettleStep]_<<allVars, scene>> PROVE SettleBooks'
    OBVIOUS
  <1> USE DEF SettleBooks
  <1>1. ASSUME NEW r \in Requests, ServiceStep(r), UNCHANGED scene PROVE SettleBooks'
    <2>1. SettleTyped'
      BY <1>1, StepSettleTyped
    <2> QED
      BY <1>1, <2>1, StepRefers, StepSane, StepOwed, StepBalanced
  <1>2. CASE UNCHANGED <<allVars, scene>>
    <2>1. UNCHANGED <<folio, winbal, trx, req, account, known, invoice, payment, hold,
                      taxInvoice, entry, gl, scene>>
      BY <1>2 DEF allVars
    <2>2. SettleTyped'
      BY <2>1 DEF SettleTyped, TypedBeside
    <2>3. SettleRefers'
      BY <2>1 DEF SettleRefers, Carries
    <2>4. InvoicesAreSane' /\ TrialBalanceIsZero'
      BY <2>1 DEF InvoicesAreSane, LiveInvoices, TrialBalanceIsZero
    <2>5. AccountIsInvoicedLessPaid'
      BY <2>1 DEF AccountIsInvoicedLessPaid, PaidOn, PaymentsOf, InvoicesOf
    <2> QED
      BY <2>2, <2>3, <2>4, <2>5
  <1> QED
    BY <1>1, <1>2, NextIsService DEF SettleStep

\* It always holds.
LEMMA AlwaysSettles == SettleSpec => []SettleBooks
  BY InitSettles, StepSettles, PTL DEF SettleSpec, SettleStep

\* allocatePayment and transfer: however payments and transfers overlap, an
\* invoice shows no more paid than it asks for, its status says what it shows,
\* and a folio posted to the city ledger has an invoice.
THEOREM InvoicesStaySane == SettleSpec => []InvoicesAreSane
  <1>1. SettleBooks => InvoicesAreSane
    BY DEF SettleBooks
  <1> QED
    BY <1>1, AlwaysSettles, PTL

\* The balance increments of transfer and allocatePayment: a company's account
\* owes what was invoiced to it less every payment made.
THEOREM CompaniesOweInvoices == SettleSpec => []AccountIsInvoicedLessPaid
  <1>1. SettleBooks => AccountIsInvoicedLessPaid
    BY DEF SettleBooks
  <1> QED
    BY <1>1, AlwaysSettles, PTL

\* postForBusinessDate: the general ledger holds what the entries booked and
\* its trial balance is zero, for any chart of accounts.
THEOREM BooksBalance == SettleSpec => []TrialBalanceIsZero
  <1>1. SettleBooks => TrialBalanceIsZero
    BY DEF SettleBooks
  <1> QED
    BY <1>1, AlwaysSettles, PTL

-----------------------------------------------------------------------------
(* One call at a time.                                                     *)

CallsInTurn == OneAtATime =>
    /\ \A r, q \in Requests : req[r] # Idle /\ req[q] # Idle => r = q
    /\ \A r \in Requests : Current(req[r])

\* While r steps nobody else is in flight.
LEMMA OthersIdle ==
    ASSUME CallsInTurn, OneAtATime, NEW r \in Requests, Admitted(r)
    PROVE  \A q \in Requests \ {r} : req[q] = Idle
  <1> SUFFICES ASSUME NEW q \in Requests \ {r}, req[q] # Idle PROVE FALSE
    OBVIOUS
  <1>1. req[r] = Idle
    BY DEF CallsInTurn
  <1>2. {s \in Requests : req[s] # Idle} = {q}
    BY DEF CallsInTurn
  <1>3. Cardinality({q}) = 1
    BY FS_Singleton
  <1> QED
    BY <1>1, <1>2, <1>3 DEF Admitted, OneAtATime

\* The lines of an entry are made of the rows and of nothing else.
LEMMA LinesKept == UNCHANGED trx => BuildLines' = BuildLines
  BY DEF BuildLines, SumDrafted, Drafted, DebitOf, CreditOf, IsChargeLike

\* In turn, a handler's reads are still up to date when it steps.
LEMMA StepInTurn ==
    ASSUME SettleTyped, SettleRefers, CallsInTurn, NEW r \in Requests, ServiceStep(r),
           Admitted(r), UNCHANGED scene
    PROVE  CallsInTurn'
  <1> SUFFICES ASSUME OneAtATime
               PROVE  /\ \A p, q \in Requests : req'[p] # Idle /\ req'[q] # Idle => p = q
                      /\ \A q \in Requests : (Current(req[q]))'
    BY DEF CallsInTurn, OneAtATime
  <1>1. \A q \in Requests \ {r} : req[q] = Idle
    BY OthersIdle
  <1>2. PICK h : HandlerMoves(r, h)
    BY OneMoves
  <1>3. \A q \in Requests \ {r} : req'[q] = Idle
    BY <1>1, <1>2 DEF HandlerMoves
  <1>4. Current(h)'
    <2>1. CASE h.op \notin SettleOps
      BY <2>1 DEF Current, SettleOps, TransferCalls, CaptureCalls
    <2>2. CASE TablesKept /\ TakesUp(r, h)
      <3>1. Current(h)
        BY <2>2 DEF TakesUp, CallsInTurn
      <3> QED
        BY <2>2, <3>1, LinesKept DEF Current, TablesKept, ledgerVars, settleVars,
                                     LiveInvoices, LiveTaxInvoices, OpenHold
    <2> QED
      BY <1>2, <2>1, <2>2 DEF HandlerMoves
  <1>5. ASSUME NEW q \in Requests PROVE (Current(req[q]))'
    <2>1. CASE q = r
      <3>1. req'[q] = h
        BY <1>2, <2>1 DEF HandlerMoves
      <3> QED
        BY <1>4, <3>1 DEF Current
    <2>2. CASE q # r
      <3>1. req'[q] = Idle /\ Idle.op = "idle"
        BY <1>3, <2>2 DEF Idle
      <3> QED
        BY <3>1 DEF Current, TransferCalls, CaptureCalls
    <2> QED
      BY <2>1, <2>2
  <1> QED
    BY <1>3, <1>5

\* A set with at most one element.
LEMMA AtMostOne ==
    ASSUME NEW S, IsFiniteSet(S)
    PROVE  Cardinality(S) <= 1 <=> \A x, y \in S : x = y
  <1>1. ASSUME \A x, y \in S : x = y PROVE Cardinality(S) <= 1
    <2>1. CASE S = {}
      BY <2>1, FS_EmptySet
    <2>2. CASE S # {}
      <3>1. PICK x \in S : S = {x}
        BY <1>1, <2>2
      <3> QED
        BY <3>1, FS_Singleton
    <2> QED
      BY <2>1, <2>2
  <1>2. ASSUME Cardinality(S) <= 1, NEW x \in S, NEW y \in S, x # y PROVE FALSE
    <2>1. {x, y} \subseteq S /\ IsFiniteSet({x}) /\ y \notin {x} /\ {x} \cup {y} = {x, y}
      BY <1>2, FS_Singleton
    <2>2. Cardinality({x, y}) = 2
      <3> DEFINE one == {x}
      <3>1. IsFiniteSet(one) /\ Cardinality(one) = 1
        BY FS_Singleton
      <3>2. y \notin one /\ one \cup {y} = {x, y}
        BY <2>1
      <3> HIDE DEF one
      <3>3. Cardinality(one \cup {y}) = Cardinality(one) + 1
        BY <3>1, <3>2, FS_AddElement
      <3> QED
        BY <3>1, <3>2, <3>3
    <2>3. Cardinality({x, y}) <= Cardinality(S) /\ Cardinality(S) \in Nat
      BY <2>1, FS_Subset, FS_CardinalityType
    <2> QED
      BY <1>2, <2>2, <2>3
  <1> QED
    BY <1>1, <1>2

\* A folio's live invoices are finitely many.
LEMMA LiveFinite ==
    ASSUME SettleTyped
    PROVE  \A f : /\ IsFiniteSet(LiveInvoices(f)) /\ IsFiniteSet(LiveTaxInvoices(f))
                  /\ LiveInvoices(f) = {i \in DOMAIN invoice : invoice[i].folio = f}
  <1>1. IsFiniteSet(DOMAIN invoice) /\ IsFiniteSet(DOMAIN taxInvoice)
    <2>1. /\ DOMAIN invoice = 1..Len(invoice) /\ DOMAIN taxInvoice = 1..Len(taxInvoice)
          /\ Len(invoice) \in Nat /\ Len(taxInvoice) \in Nat
      BY DEF SettleTyped
    <2> QED
      BY <2>1, FS_Interval
  <1>2. \A f : LiveInvoices(f) \subseteq DOMAIN invoice
               /\ LiveTaxInvoices(f) \subseteq DOMAIN taxInvoice
    BY DEF LiveInvoices, LiveTaxInvoices
  <1>3. \A i \in DOMAIN invoice : invoice[i].status # "VOID"
    <2>1. \A i \in DOMAIN invoice : invoice[i] \in InvoiceRow
      BY ElementOfSeq DEF SettleTyped
    <2> QED
      BY <2>1 DEF InvoiceRow
  <1>4. \A f : LiveInvoices(f) = {i \in DOMAIN invoice : invoice[i].folio = f}
    BY <1>3 DEF LiveInvoices
  <1> QED
    BY <1>1, <1>2, <1>4, FS_Subset

\* An invoice shows what was paid; a folio has one invoice of each kind.
PaidAgrees == \A i \in DOMAIN invoice : invoice[i].paid = PaidOn(i)
OneEach ==
    \A f \in Folios : /\ \A i, j \in LiveInvoices(f) : i = j
                      /\ \A i, j \in LiveTaxInvoices(f) : i = j

\* InvoicesAgree is those two, for calls in turn.
LEMMA AgreeAs == SettleTyped => (InvoicesAgree <=> (OneAtATime => PaidAgrees /\ OneEach))
  BY AtMostOne, LiveFinite DEF InvoicesAgree, PaidAgrees, OneEach

\* A payment in turn adds to an invoice what it adds to its payments; a
\* transfer's invoice starts with nothing paid.
LEMMA StepPaid ==
    ASSUME SettleTyped, SettleRefers, SettleTyped', NEW r \in Requests, ServiceStep(r),
           Current(req[r]), PaidAgrees
    PROVE  PaidAgrees'
  <1> SUFFICES ASSUME NEW i \in DOMAIN invoice' PROVE invoice'[i].paid = (PaidOn(i))'
    BY DEF PaidAgrees
  <1>0. \A j \in DOMAIN invoice : invoice[j].paid = PaidOn(j)
    BY DEF PaidAgrees
  <1>1. CASE TransferCommit(r)
    <2> DEFINE h == req[r]
    <2>1. Appends(invoice, invoice', NewInvoice(h)) /\ UNCHANGED payment
      BY <1>1, TransferEffect DEF Transfers, TransferCommit
    <2>2. (PaidOn(i))' = PaidOn(i) /\ NewInvoice(h).paid = 0
      BY <2>1, PaidOnKept DEF NewInvoice
    <2> HIDE DEF h
    <2>3. CASE i \in DOMAIN invoice
      BY <1>0, <2>1, <2>2, <2>3 DEF Appends
    <2>4. CASE i \notin DOMAIN invoice
      <3>1. PaidOn(i) = 0
        BY <2>4, NothingPaidYet
      <3>2. invoice'[i] = NewInvoice(h)
        BY <2>1, <2>4 DEF Appends
      <3> QED
        BY <2>2, <3>1, <3>2
    <2> QED
      BY <2>3, <2>4
  <1>2. CASE AllocateCommit(r)
    <2> DEFINE h == req[r]
    <2>1. Allocates(h) /\ h.op = "allocate"
      BY <1>2, AllocateEffect DEF AllocateCommit
    <2>2. h.paid = invoice[h.invoice].paid + h.amount
      BY <2>1 DEF Current
    <2> HIDE DEF h
    <2>3. /\ Replaces(invoice, invoice', h.invoice, PaidRow(h)) /\ PaidRow(h).paid = h.paid
          /\ h.invoice \in DOMAIN invoice /\ h.amount \in Int
      BY <2>1 DEF Allocates, PaidRow, InvoiceRow
    <2>4. (PaidOn(i))' = PaidOn(i) + (IF i = h.invoice THEN h.amount ELSE 0)
      BY <2>1, PaymentAdds
    <2>5. i \in DOMAIN invoice /\ PaidOn(i) \in Int
      BY <2>3, SumsTyped DEF Replaces
    <2>6. invoice'[i].paid = IF i = h.invoice THEN h.paid ELSE invoice[i].paid
      BY <2>3, <2>5 DEF Replaces
    <2> QED
      BY <1>0, <2>2, <2>3, <2>4, <2>5, <2>6
  <1>3. CASE UNCHANGED invoice /\ UNCHANGED payment
    BY <1>0, <1>3, PaidOnKept
  <1> QED
    BY <1>1, <1>2, <1>3, WhoWrites

\* A transfer and an issue in turn still find no invoice of their folio.
LEMMA StepOneEach ==
    ASSUME SettleTyped, SettleRefers, SettleTyped', NEW r \in Requests, ServiceStep(r),
           Current(req[r]), OneEach
    PROVE  OneEach'
  <1> SUFFICES ASSUME NEW f \in Folios
               PROVE  /\ \A i, j \in (LiveInvoices(f))' : i = j
                      /\ \A i, j \in (LiveTaxInvoices(f))' : i = j
    BY DEF OneEach
  <1>0. /\ \A i, j \in LiveInvoices(f) : i = j
        /\ \A i, j \in LiveTaxInvoices(f) : i = j
    BY DEF OneEach
  <1>live. /\ LiveInvoices(f) = {i \in DOMAIN invoice : invoice[i].folio = f}
           /\ (LiveInvoices(f))' = {i \in DOMAIN invoice' : invoice'[i].folio = f}
    <2>1. LiveInvoices(f) = {i \in DOMAIN invoice : invoice[i].folio = f}
      BY LiveFinite
    <2>2. \A i \in DOMAIN invoice' : invoice'[i].status # "VOID"
      <3>1. \A i \in DOMAIN invoice' : invoice'[i] \in InvoiceRow
        BY ElementOfSeq DEF SettleTyped
      <3> QED
        BY <3>1 DEF InvoiceRow
    <2> QED
      BY <2>1, <2>2 DEF LiveInvoices
  <1>1. \A i, j \in (LiveInvoices(f))' : i = j
    <2>1. CASE TransferCommit(r)
      <3> DEFINE h == req[r]
      <3>1. Appends(invoice, invoice', NewInvoice(h)) /\ h.op = "transfer"
        BY <2>1, TransferEffect DEF Transfers, TransferCommit
      <3>2. LiveInvoices(h.folio) = {} /\ NewInvoice(h).folio = h.folio
        BY <3>1 DEF Current, NewInvoice
      <3> HIDE DEF h
      <3>3. \A i \in (LiveInvoices(f))' :
                i \in LiveInvoices(f) \/ (i = Len(invoice) + 1 /\ f = h.folio)
        BY <1>live, <3>1, <3>2 DEF Appends
      <3> QED
        BY <1>0, <3>2, <3>3
    <2>2. CASE AllocateCommit(r)
      <3>1. DOMAIN invoice' = DOMAIN invoice
        BY <2>2, AllocateEffect DEF Allocates, Replaces
      <3>2. (LiveInvoices(f))' = LiveInvoices(f)
        BY <1>live, <3>1, TablesOnlyGrow DEF TablesGrow
      <3> QED
        BY <1>0, <3>2
    <2>3. CASE UNCHANGED invoice
      BY <1>0, <1>live, <2>3
    <2> QED
      BY <2>1, <2>2, <2>3, WhoWrites
  <1>2. \A i, j \in (LiveTaxInvoices(f))' : i = j
    <2>1. CASE IssueCommit(r)
      <3> DEFINE h == req[r]
                 x == [folio |-> h.folio, total |-> h.total, void |-> FALSE]
      <3>1. Appends(taxInvoice, taxInvoice', x) /\ h.op = "issue" /\ x.folio = h.folio
        BY <2>1, TaxEffect DEF IssueCommit
      <3>2. LiveTaxInvoices(h.folio) = {}
        BY <3>1 DEF Current
      <3> HIDE DEF h, x
      <3>3. \A i \in (LiveTaxInvoices(f))' :
                i \in LiveTaxInvoices(f) \/ (i = Len(taxInvoice) + 1 /\ f = h.folio)
        BY <3>1 DEF Appends, LiveTaxInvoices
      <3> QED
        BY <1>0, <3>2, <3>3
    <2>2. CASE VoidTaxCommit(r)
      <3> DEFINE k == req[r].tax
                 x == [taxInvoice[k] EXCEPT !.void = TRUE]
      <3>1. Replaces(taxInvoice, taxInvoice', k, x) /\ k \in DOMAIN taxInvoice
        BY <2>2, TaxEffect
      <3>2. x.void = TRUE
        <4>1. taxInvoice[k] \in TaxRow
          BY <3>1, ElementOfSeq DEF SettleTyped
        <4> QED
          BY <4>1 DEF TaxRow
      <3> HIDE DEF k, x
      <3>3. (LiveTaxInvoices(f))' \subseteq LiveTaxInvoices(f)
        BY <3>1, <3>2 DEF Replaces, LiveTaxInvoices
      <3> QED
        BY <1>0, <3>3
    <2>3. CASE UNCHANGED taxInvoice
      BY <1>0, <2>3 DEF LiveTaxInvoices
    <2> QED
      BY <2>1, <2>2, <2>3, WhoWrites
  <1> QED
    BY <1>1, <1>2

-----------------------------------------------------------------------------
\* The inductive invariant of calls in turn.
SettleInTurn ==
    SettleBooks /\ CallsInTurn /\ (OneAtATime => PaidAgrees /\ OneEach)

\* It holds before the first call.
LEMMA InitInTurn == SettleInit => SettleInTurn
  <1> SUFFICES ASSUME SettleInit PROVE SettleInTurn
    OBVIOUS
  <1>1. SettleBooks
    BY InitSettles
  <1>2. \A r \in Requests : req[r] = Idle /\ Idle.op = "idle"
    BY DEF SettleInit, Init, Idle
  <1>3. CallsInTurn
    BY <1>2 DEF CallsInTurn, Current, TransferCalls, CaptureCalls
  <1>4. PaidAgrees /\ OneEach
    BY DEF SettleInit, PaidAgrees, OneEach, LiveInvoices, LiveTaxInvoices
  <1> QED
    BY <1>1, <1>3, <1>4 DEF SettleInTurn

\* It is kept by every step.
LEMMA StepSettlesInTurn ==
    SettleInTurn /\ [SettleStep]_<<allVars, scene>> => SettleInTurn'
  <1> SUFFICES ASSUME SettleInTurn, [SettleStep]_<<allVars, scene>> PROVE SettleInTurn'
    OBVIOUS
  <1>1. SettleBooks /\ SettleBooks'
    BY StepSettles DEF SettleInTurn
  <1>2. ASSUME NEW r \in Requests, ServiceStep(r), Admitted(r), UNCHANGED scene
        PROVE  SettleInTurn'
    <2>1. SettleTyped /\ SettleRefers /\ SettleTyped' /\ CallsInTurn
      BY <1>1 DEF SettleBooks, SettleInTurn
    <2>2. CallsInTurn'
      BY <1>2, <2>1, StepInTurn
    <2>3. ASSUME OneAtATime PROVE PaidAgrees' /\ OneEach'
      <3>1. Current(req[r]) /\ PaidAgrees /\ OneEach
        BY <2>1, <2>3 DEF CallsInTurn, SettleInTurn
      <3> QED
        BY <1>2, <2>1, <3>1, StepPaid, StepOneEach
    <2>4. OneAtATime' <=> OneAtATime
      BY <1>2 DEF OneAtATime
    <2> QED
      BY <1>1, <2>2, <2>3, <2>4 DEF SettleInTurn
  <1>3. CASE UNCHANGED <<allVars, scene>>
    <2>1. UNCHANGED <<folio, trx, req, invoice, payment, hold, taxInvoice, scene>>
      BY <1>3 DEF allVars
    <2>2. CallsInTurn'
      BY <2>1, LinesKept DEF SettleInTurn, CallsInTurn, Current, OneAtATime, LiveInvoices,
                             LiveTaxInvoices, OpenHold
    <2>3. (OneAtATime => PaidAgrees /\ OneEach)'
      BY <2>1 DEF SettleInTurn, OneAtATime, PaidAgrees, OneEach, PaidOn, PaymentsOf,
                  LiveInvoices, LiveTaxInvoices
    <2> QED
      BY <1>1, <2>2, <2>3 DEF SettleInTurn
  <1> QED
    BY <1>2, <1>3, NextIsService DEF SettleStep

\* It always holds.
LEMMA AlwaysInTurn == SettleSpec => []SettleInTurn
  BY InitInTurn, StepSettlesInTurn, PTL DEF SettleSpec, SettleStep

\* allocatePayment, transfer and issue, called one after the other: an invoice
\* shows exactly the payments made on it, and a folio has at most one live
\* invoice and one live tax invoice.
THEOREM CallsInTurnAgree == SettleSpec => []InvoicesAgree
  <1>1. SettleInTurn => InvoicesAgree
    BY AgreeAs DEF SettleInTurn, SettleBooks
  <1> QED
    BY <1>1, AlwaysInTurn, PTL

\* transfer, called in turn: the folio is left owing nothing and the company
\* is invoiced for exactly what the folio owed.
THEOREM TransfersSettle == SettleSpec => TransferSettles
  <1>1. SettleInTurn /\ [SettleStep]_<<allVars, scene>> =>
            [\A f \in Folios :
                (/\ OneAtATime
                 /\ folio[f].status # "POSTED_TO_CITY_LEDGER"
                 /\ folio'[f].status = "POSTED_TO_CITY_LEDGER")
                => /\ folio'[f].balance = 0
                   /\ \E i \in DOMAIN invoice' \ DOMAIN invoice :
                        invoice'[i].folio = f /\ invoice'[i].amount = folio[f].balance]_folio
    <2> SUFFICES ASSUME SettleInTurn, [SettleStep]_<<allVars, scene>>, folio' # folio,
                        NEW f \in Folios, OneAtATime,
                        folio[f].status # "POSTED_TO_CITY_LEDGER",
                        folio'[f].status = "POSTED_TO_CITY_LEDGER"
                 PROVE  /\ folio'[f].balance = 0
                        /\ \E i \in DOMAIN invoice' \ DOMAIN invoice :
                             invoice'[i].folio = f /\ invoice'[i].amount = folio[f].balance
      OBVIOUS
    <2>1. PICK r \in Requests : ServiceStep(r)
      BY NextIsService DEF SettleStep, allVars
    <2> DEFINE h == req[r]
    <2>2. SettleTyped /\ SettleRefers /\ Current(h)
      BY DEF SettleInTurn, SettleBooks, CallsInTurn
    <2>3. Transfers(h) /\ h.op = "transfer" /\ f = h.folio
      BY <2>1, <2>2, TransferEffect, WhoPosts DEF TransferCommit
    <2>4. h.amount = folio[f].balance
      BY <2>2, <2>3 DEF Current, TransferCalls
    <2> HIDE DEF h
    <2>5. folio'[f].balance = 0
      BY <2>3, <2>4 DEF Transfers
    <2>6. /\ Appends(invoice, invoice', NewInvoice(h))
          /\ NewInvoice(h).folio = f /\ NewInvoice(h).amount = folio[f].balance
      BY <2>3, <2>4 DEF Transfers, NewInvoice
    <2>7. Len(invoice) + 1 \in DOMAIN invoice' \ DOMAIN invoice
          /\ invoice'[Len(invoice) + 1] = NewInvoice(h)
      BY <2>6 DEF Appends
    <2> QED
      BY <2>5, <2>6, <2>7
  <1> QED
    BY <1>1, AlwaysInTurn, PTL DEF SettleSpec, SettleStep, TransferSettles

-----------------------------------------------------------------------------
(* Who writes the rows of the ledger.                                      *)

\* Rows worth the lines are added, unlinked and not void; no row changes.
AddsRows(lines) ==
    /\ Len(trx) \in Nat /\ Len(lines) \in Nat
    /\ trx' \in Seq(Row) /\ Len(trx') = Len(trx) + Len(lines)
    /\ \A i \in 1..Len(trx) : trx'[i] = trx[i]
    /\ \A i \in 1..Len(lines) :
            LET row == trx'[Len(trx) + i] IN
            /\ row.code = lines[i].code /\ row.amount = lines[i].amount
            /\ row.sign = lines[i].sign
            /\ row.related = 0 /\ row.void = FALSE

\* The row t is marked void and linked to one added that reverses it.
Corrects(t) ==
    LET n == Len(trx) + 1 IN
    /\ t \in 1..Len(trx) /\ Len(trx) \in Nat
    /\ trx' \in Seq(Row) /\ Len(trx') = n
    /\ \A i \in 1..Len(trx) : /\ i # t => trx'[i] = trx[i]
                              /\ trx'[i].code = trx[i].code
    /\ trx'[t].void = TRUE /\ trx'[t].related = n
    /\ trx'[n].related = t /\ trx'[n].code = trx[t].code

\* persistPostingLines adds rows worth its lines.
LEMMA PersistAddsRows ==
    ASSUME SettleTyped, NEW f \in Folios, NEW w \in Windows, NEW u \in Users,
           NEW sh \in ShiftRef, NEW lines \in Seq(Line),
           PersistPostingLines(f, w, u, sh, lines)
    PROVE  AddsRows(lines)
  <1>1. trx \in Seq(Row) /\ winbal \in [Folios -> [Windows -> Int]]
    BY DEF SettleTyped, TypedBeside
  <1>2. /\ trx' \in Seq(Row)
        /\ winbal' \in [Folios -> [Windows -> Int]]
        /\ SumImpact(lines) \in Int
        /\ Len(trx) \in Nat /\ Len(trx') \in Nat /\ Len(trx') >= Len(trx)
        /\ Len(lines) \in Nat /\ Len(trx') = Len(trx) + Len(lines)
        /\ \A i \in 1..Len(lines) : trx'[Len(trx) + i] = RowsFor(f, w, u, sh, lines)[i]
        /\ \A i \in 1..Len(trx) : trx'[i] = trx[i]
        /\ \A i \in 1..Len(trx') : i > Len(trx) =>
                trx'[i].related = 0 /\ trx'[i].void = FALSE /\ trx'[i].folio = f
    BY <1>1, Persists
  <1>3. \A i \in 1..Len(lines) :
            LET row == RowsFor(f, w, u, sh, lines)[i] IN
            /\ row.code = lines[i].code /\ row.amount = lines[i].amount
            /\ row.sign = lines[i].sign /\ row.related = 0 /\ row.void = FALSE
    BY DEF RowsFor
  <1> QED
    BY <1>2, <1>3 DEF AddsRows

\* voidTransaction corrects the row it names.
LEMMA VoidCorrects ==
    ASSUME SettleTyped, NEW r \in Requests, VoidCommit(r)
    PROVE  Corrects(req[r].trx)
  <1> DEFINE t == req[r].trx
             new == Correction(t, req[r].user, req[r].shift)
             marked == [trx[t] EXCEPT !.void = TRUE, !.related = Len(trx) + 1]
  <1>1. TypedBeside(SettleHandler) /\ Foreign(SettleHandler)
    BY HandlersApart DEF SettleTyped
  <1>2. /\ t \in 1..Len(trx) /\ Len(trx) \in Nat
        /\ Reverses(new, trx[t]) /\ new.related = t
        /\ trx' \in Seq(Row) /\ Len(trx') = Len(trx) + 1
        /\ \A i \in 1..Len(trx) :
              trx'[i] = IF i = t THEN [trx[i] EXCEPT !.void = TRUE, !.related = Len(trx) + 1]
                                 ELSE trx[i]
        /\ trx'[Len(trx) + 1] = new
    BY <1>1, VoidsOneRow
  <1>3. trx[t] \in Row
    BY <1>1, <1>2, ElementOfSeq DEF TypedBeside
  <1>4. marked.void = TRUE /\ marked.related = Len(trx) + 1 /\ marked.code = trx[t].code
    BY <1>3 DEF Row
  <1>5. new.code = trx[t].code
    BY <1>2 DEF Reverses
  <1>6. \A i \in 1..Len(trx) : trx'[i] = IF i = t THEN marked ELSE trx[i]
    BY <1>2
  <1> HIDE DEF t, new, marked
  <1> QED
    BY <1>2, <1>4, <1>5, <1>6 DEF Corrects, t

\* What a transfer and a capture add.
PostsOne(r, code) ==
    req[r].amount \in Int /\ req[r].amount > 0 /\ AddsRows(OneLine(code, req[r].amount))

\* A posting adds its lines.
LEMMA PostAddsRows ==
    ASSUME SettleTyped, NEW r \in Requests, PostCommit(r)
    PROVE  \E lines \in PostingLines : AddsRows(lines)
  <1> DEFINE h == req[r]
  <1>1. h \in LedgerHandler /\ h.op = "post"
    BY HandlersApart, OwnHandlers DEF SettleTyped, TypedBeside, PostCommit, LedgerOps
  <1>2. /\ h.folio \in Folios /\ h.window \in Windows /\ h.user \in Users
        /\ h.lines \in PostingLines /\ h.shift \in ShiftRef
    BY <1>1, PostingFields
  <1>3. h.lines \in Seq(Line)
    BY <1>2, LinesAssumption
  <1>4. PersistPostingLines(h.folio, h.window, h.user, h.shift, h.lines)
    BY DEF PostCommit
  <1> HIDE DEF h
  <1> QED
    BY <1>2, <1>3, <1>4, PersistAddsRows

\* A transfer adds one line, worth what it moves.
LEMMA TransferAddsRow ==
    ASSUME SettleTyped, SettleRefers, NEW r \in Requests, TransferCommit(r)
    PROVE  PostsOne(r, CITY_LEDGER)
  <1> DEFINE h == req[r]
  <1>1. h.op = "transfer" /\ h \in SettleHandler
    BY SettlesIf DEF SettleTyped, TypedBeside, TransferCommit, SettleOps, TransferCalls
  <1>2. h.folio \in Folios /\ h.amount \in Int /\ h.user \in Users /\ h.shift \in ShiftRef
    BY <1>1, TransferFields DEF TransferCalls
  <1>3. h.amount > 0
    BY <1>1 DEF SettleRefers, Carries, TransferCalls
  <1>4. PersistPostingLines(h.folio, 1, h.user, h.shift, OneLine(CITY_LEDGER, h.amount))
    BY DEF TransferCommit
  <1> HIDE DEF h
  <1>5. OneLine(CITY_LEDGER, h.amount) \in Seq(Line)
    BY <1>2, CodesAreStrings, OneLineTyped
  <1>6. 1 \in Windows
    BY DEF Windows
  <1>7. AddsRows(OneLine(CITY_LEDGER, h.amount))
    BY <1>2, <1>4, <1>5, <1>6, PersistAddsRows
  <1> QED
    BY <1>2, <1>3, <1>7 DEF PostsOne, h

\* A capture adds one line, worth what it takes.
LEMMA CaptureAddsRow ==
    ASSUME SettleTyped, SettleRefers, NEW r \in Requests, CaptureCommit(r)
    PROVE  PostsOne(r, CARD_PAYMENT)
  <1> DEFINE h == req[r]
  <1>1. h.op = "capture" /\ h \in SettleHandler
    BY SettlesIf DEF SettleTyped, TypedBeside, CaptureCommit, SettleOps
  <1>2. h.folio \in Folios /\ h.amount \in Int /\ h.user \in Users /\ h.shift \in ShiftRef
    BY <1>1, CaptureFields
  <1>3. h.amount > 0
    BY <1>1 DEF SettleRefers, Carries, CaptureCalls
  <1>4. PersistPostingLines(h.folio, 1, h.user, h.shift, OneLine(CARD_PAYMENT, h.amount))
    BY DEF CaptureCommit
  <1> HIDE DEF h
  <1>5. OneLine(CARD_PAYMENT, h.amount) \in Seq(Line)
    BY <1>2, CodesAreStrings, OneLineTyped
  <1>6. 1 \in Windows
    BY DEF Windows
  <1>7. AddsRows(OneLine(CARD_PAYMENT, h.amount))
    BY <1>2, <1>4, <1>5, <1>6, PersistAddsRows
  <1> QED
    BY <1>2, <1>3, <1>7 DEF PostsOne, h

\* Of all steps a posting, a void, a transfer and a capture write rows.
LEMMA WhoAddsRows ==
    ASSUME SettleTyped, SettleRefers, NEW r \in Requests, ServiceStep(r)
    PROVE  \/ UNCHANGED trx
           \/ \E lines \in PostingLines : AddsRows(lines)
           \/ VoidCommit(r) /\ Corrects(req[r].trx)
           \/ TransferCommit(r) /\ PostsOne(r, CITY_LEDGER)
           \/ CaptureCommit(r) /\ PostsOne(r, CARD_PAYMENT)
  <1>1. CASE LedgerCall(r)
    <2>1. PostCommit(r) \/ VoidCommit(r) \/ UNCHANGED trx
      BY <1>1 DEF LedgerCall, ledgerVars, CreateRead, CreateCommit, Post, Void, Settle,
             SetCreditLimit, SetArRead, SetArCommit, Fail, PostRead, PostResolveShift,
             PostCheckCredit, VoidRead, VoidResolveShift, CheckoutRead, InterimRead,
             ReopenRead, CloseCommit, ReopenCommit
    <2> QED
      BY <2>1, PostAddsRows, VoidCorrects
  <1>2. CASE SettleReader(r)
    BY <1>2, SettleReads DEF TablesKept, ledgerVars
  <1>3. CASE SettleWriter(r)
    <2>1. TransferCommit(r) \/ CaptureCommit(r) \/ UNCHANGED trx
      BY <1>3 DEF SettleWriter, ledgerVars, CreateAccount, UpdateAccount, AllocateCommit,
                  CreateHold, IncrementCommit, ReleaseCommit, IssueCommit, VoidTaxCommit,
                  JournalCommit
    <2> QED
      BY <2>1, TransferAddsRow, CaptureAddsRow
  <1> QED
    BY <1>1, <1>2, <1>3 DEF ServiceStep

-----------------------------------------------------------------------------
(* Calls on a hold that take turns: it is charged once.                    *)

\* What a call on a hold has read of it is still true when it writes: the hold
\* is open, an increment raises what it holds, a capture takes no more than that
\* and is for a folio of the reservation the card was held for.
HeldAsRead(h) == h.op \in HoldCalls =>
    /\ OpenHold(h.hold)
    /\ h.op = "increment" => h.amount > hold[h.hold].amount
    /\ h.op \in CaptureCalls => h.amount <= hold[h.hold].amount
    /\ h.op = "captureFolio" => h.reservation = hold[h.hold].reservation
    /\ h.op \in {"captureShift", "capture"} =>
            ReservationOf[h.folio] = hold[h.hold].reservation

\* The inductive invariant of calls on holds.
HoldsInTurn ==
    /\ SettleTyped /\ SettleRefers
    /\ scene.holdsInTurn => OneCallAHold /\ \A r \in Requests : HeldAsRead(req[r])

\* Of all steps these write holds.
LEMMA WhoChangesHolds ==
    ASSUME SettleTyped, SettleRefers, NEW r \in Requests, ServiceStep(r)
    PROVE  \/ UNCHANGED hold
           \/ \E h \in Holds, v \in scene.reservations, amount \in scene.amounts :
                    CreateHold(r, h, v, amount)
           \/ IncrementCommit(r) \/ ReleaseCommit(r) \/ CaptureCommit(r)
  <1>1. CASE LedgerCall(r)
    BY <1>1, LedgerCallEffect DEF settleVars
  <1>2. CASE SettleReader(r)
    BY <1>2, SettleReads DEF TablesKept, settleVars
  <1>3. CASE SettleWriter(r)
    BY <1>3 DEF SettleWriter, settleVars, CreateAccount, UpdateAccount, TransferCommit,
                AllocateCommit, IssueCommit, VoidTaxCommit, JournalCommit
  <1> QED
    BY <1>1, <1>2, <1>3 DEF ServiceStep

\* A step writes the hold it names and no other: one that is new, or the one
\* that the call had read.
LEMMA OneHoldChanges ==
    ASSUME SettleTyped, SettleRefers, NEW r \in Requests, ServiceStep(r),
           NEW h \in Holds, hold'[h] # hold[h]
    PROVE  \/ hold[h].status = "NONE" /\ hold'[h].status = "HELD"
           \/ /\ req[r].op \in {"increment", "release"} /\ req[r].hold = h
              /\ hold'[h].status \in {"INCREMENTAL", "RELEASED"}
           \/ /\ CaptureCommit(r) /\ req[r].hold = h /\ hold'[h].status = "CAPTURED"
              /\ hold'[h].captured = req[r].amount /\ hold'[h].trx = Len(trx) + 1
  <1>0. hold \in [Holds -> HoldRow] /\ hold[h] \in HoldRow
    BY DEF SettleTyped
  <1>1. ASSUME NEW k \in Holds, NEW v \in scene.reservations, NEW amount \in scene.amounts,
               CreateHold(r, k, v, amount)
        PROVE  hold[h].status = "NONE" /\ hold'[h].status = "HELD"
    <2> DEFINE x == [NoPreauth EXCEPT !.status = "HELD", !.reservation = v, !.amount = amount]
    <2>1. hold' = [hold EXCEPT ![k] = x] /\ hold[k].status = "NONE"
      BY <1>1 DEF CreateHold
    <2>2. x.status = "HELD"
      BY DEF NoPreauth
    <2> HIDE DEF x
    <2> QED
      BY <1>0, <2>1, <2>2
  <1>2. CASE IncrementCommit(r)
    BY <1>0, <1>2 DEF IncrementCommit, HoldRow
  <1>3. CASE ReleaseCommit(r)
    BY <1>0, <1>3 DEF ReleaseCommit, HoldRow
  <1>4. CASE CaptureCommit(r)
    <2> DEFINE n == Len(trx) + 1
               x == [hold[h] EXCEPT !.status = "CAPTURED", !.captured = req[r].amount,
                                    !.trx = n]
    <2>1. req[r].hold = h /\ hold'[h] = x
      BY <1>0, <1>4 DEF CaptureCommit
    <2>2. x.status = "CAPTURED" /\ x.captured = req[r].amount /\ x.trx = n
      BY <1>0 DEF HoldRow
    <2> QED
      BY <1>4, <2>1, <2>2
  <1> QED
    BY <1>1, <1>2, <1>3, <1>4, WhoChangesHolds

\* A call takes up what it has just read of a hold, or what it had read before.
LEMMA ReadsHeld ==
    ASSUME SettleTyped, SettleRefers, NEW r \in Requests, SettleReader(r), HeldAsRead(req[r])
    PROVE  HeldAsRead(req'[r])
  <1>0. req \in [Requests -> LedgerHandler \cup SettleHandler]
    BY DEF SettleTyped, TypedBeside
  <1>1. CASE req'[r].op \notin HoldCalls
    BY <1>1 DEF HeldAsRead
  <1>2. ASSUME NEW h \in Holds, NEW amount \in scene.amounts,
               IncrementRead(r, h, amount) \/ CaptureRead(r, h, amount)
        PROVE  HeldAsRead(req'[r])
    BY <1>0, <1>2 DEF IncrementRead, CaptureRead, Begin, HeldAsRead, CaptureCalls
  <1>3. ASSUME NEW h \in Holds, ReleaseRead(r, h) PROVE HeldAsRead(req'[r])
    BY <1>0, <1>3 DEF ReleaseRead, Begin, HeldAsRead, CaptureCalls
  <1>4. ASSUME NEW f \in Folios, CaptureLoad(r, f) PROVE HeldAsRead(req'[r])
    BY <1>0, <1>4 DEF CaptureLoad, HeldAsRead, HoldCalls, CaptureCalls
  <1>5. ASSUME NEW u \in Users, NEW sh \in ShiftRef, CaptureShift(r, u, sh)
        PROVE  HeldAsRead(req'[r])
    BY <1>0, <1>5 DEF CaptureShift, HeldAsRead, HoldCalls, CaptureCalls
  <1>6. \/ req'[r].op \notin HoldCalls
        \/ \E h \in Holds, amount \in scene.amounts :
                IncrementRead(r, h, amount) \/ CaptureRead(r, h, amount)
        \/ \E h \in Holds : ReleaseRead(r, h)
        \/ \E f \in Folios : CaptureLoad(r, f)
        \/ \E u \in Users, sh \in ShiftRef : CaptureShift(r, u, sh)
    <2>1. ASSUME \/ \E a \in Accounts : TransferRead(r, a)
                 \/ \E f \in Folios : TransferLoad(r, f)
                 \/ \E i \in 1..MaxInvoices, amount \in scene.amounts : AllocateRead(r, i, amount)
                 \/ \E f \in Folios : IssueRead(r, f)
                 \/ \E i \in 1..MaxTaxInvoices : VoidTaxRead(r, i)
                 \/ \E s \in Sources : JournalRead(r, s)
          PROVE  req'[r].op \notin HoldCalls
      BY <1>0, <2>1 DEF TransferRead, TransferLoad, AllocateRead, IssueRead, VoidTaxRead,
                        JournalRead, Begin, HoldCalls
    <2>own. req[r].op \in SettleOps => req[r] \in SettleHandler
      BY <1>0, SettlesIf
    <2>2. CASE TransferCheck(r)
      <3>1. req[r] \in [op : {"transferCheck", "transferShift"}, account : Accounts,
                        folio : Folios, amount : Int]
        BY <2>own, <2>2, TransferFields DEF TransferCheck, TransferCalls, SettleOps
      <3>2. req'[r].op = "transferShift"
        BY <1>0, <2>2, <3>1 DEF TransferCheck
      <3> QED
        BY <3>2 DEF HoldCalls
    <2>3. CASE \E u \in Users, sh \in ShiftRef : TransferShift(r, u, sh)
      BY <1>0, <2>3 DEF TransferShift, HoldCalls
    <2>4. CASE IssueCheck(r)
      <3>1. req[r] \in [op : {"issueCheck", "issue"}, folio : Folios, total : Int]
        BY <2>own, <2>4, TaxFields DEF IssueCheck, SettleOps
      <3>2. req'[r].op = "issue"
        BY <1>0, <2>4, <3>1 DEF IssueCheck
      <3> QED
        BY <3>2 DEF HoldCalls
    <2> QED
      BY <2>1, <2>2, <2>3, <2>4 DEF SettleReader
  <1> QED
    BY <1>1, <1>2, <1>3, <1>4, <1>5, <1>6

\* While calls on a hold take turns, what they have read of it stays true.
LEMMA StepHeld ==
    ASSUME SettleTyped, SettleRefers, OneCallAHold, \A q \in Requests : HeldAsRead(req[q]),
           NEW r \in Requests, ServiceStep(r), NEW q \in Requests
    PROVE  HeldAsRead(req[q])'
  <1>0. PICK h : HandlerMoves(r, h)
    BY OneMoves
  <1>1. CASE q = r
    <2>1. CASE SettleReader(r)
      <3>1. hold' = hold
        BY <2>1, SettleReads DEF TablesKept, settleVars
      <3> QED
        BY <1>1, <2>1, <3>1, ReadsHeld DEF HeldAsRead, OpenHold
    <2>2. CASE LedgerCall(r) \/ SettleWriter(r)
      <3>0. req \in [Requests -> LedgerHandler \cup SettleHandler]
        BY DEF SettleTyped, TypedBeside
      <3>1. req'[r].op \notin HoldCalls
        <4>1. CASE LedgerCall(r)
          BY <3>0, <4>1, LedgerCallEffect DEF SettleOps, HoldCalls
        <4>2. CASE SettleWriter(r)
          <5>1. req'[r] = Idle
            BY <3>0, <4>2
            DEF SettleWriter, CreateAccount, UpdateAccount, TransferCommit, AllocateCommit,
                CreateHold, IncrementCommit, ReleaseCommit, CaptureCommit, IssueCommit,
                VoidTaxCommit, JournalCommit, End
          <5> QED
            BY <5>1 DEF Idle, HoldCalls
        <4> QED
          BY <2>2, <4>1, <4>2
      <3> QED
        BY <1>1, <3>1 DEF HeldAsRead
    <2> QED
      BY <2>1, <2>2 DEF ServiceStep
  <1>2. CASE q # r
    <2>1. req'[q] = req[q]
      BY <1>0, <1>2 DEF HandlerMoves
    <2>2. ASSUME req[q].op \in HoldCalls PROVE hold'[req[q].hold] = hold[req[q].hold]
      <3>1. req[q].hold \in Holds
        <4>1. req[q] \in SettleHandler
          BY <2>2, SettlesIf DEF SettleTyped, TypedBeside, HoldCalls, SettleOps
        <4> QED
          BY <2>2, <4>1, HoldFields, CaptureFields DEF HoldCalls
      <3>2. hold[req[q].hold].status \in {"HELD", "INCREMENTAL"}
        BY <2>2 DEF HeldAsRead, OpenHold
      <3>3. req[r].op \in HoldCalls => req[r].hold # req[q].hold
        BY <1>2, <2>2 DEF OneCallAHold
      <3>4. CaptureCommit(r) => req[r].op = "capture"
        BY DEF CaptureCommit
      <3> QED
        BY <3>1, <3>2, <3>3, <3>4, OneHoldChanges DEF HoldCalls
    <2> QED
      BY <2>1, <2>2 DEF HeldAsRead, OpenHold
  <1> QED
    BY <1>1, <1>2

\* It holds before the first call.
LEMMA InitHeld == SettleInit => HoldsInTurn
  <1> SUFFICES ASSUME SettleInit PROVE HoldsInTurn
    OBVIOUS
  <1>1. SettleTyped /\ SettleRefers
    BY InitSettles DEF SettleBooks
  <1>2. \A r \in Requests : req[r].op = "idle"
    BY DEF SettleInit, Init, Idle
  <1> QED
    BY <1>1, <1>2 DEF HoldsInTurn, OneCallAHold, HeldAsRead, HoldCalls

\* It is kept by every step.
LEMMA StepHoldsInTurn ==
    SettleBooks /\ HoldsInTurn /\ [SettleStep]_<<allVars, scene>> => HoldsInTurn'
  <1> SUFFICES ASSUME SettleBooks, HoldsInTurn, [SettleStep]_<<allVars, scene>>
               PROVE  HoldsInTurn'
    OBVIOUS
  <1>1. SettleTyped' /\ SettleRefers'
    BY StepSettles DEF SettleBooks
  <1>2. CASE SettleStep
    <2>1. PICK r \in Requests : ServiceStep(r)
      BY <1>2, NextIsService DEF SettleStep
    <2>2. scene' = scene /\ (scene.holdsInTurn => OneCallAHold')
      BY <1>2 DEF SettleStep, SettleNext
    <2> QED
      BY <1>1, <2>1, <2>2, StepHeld DEF HoldsInTurn
  <1>3. CASE UNCHANGED <<allVars, scene>>
    <2>1. UNCHANGED <<req, hold, scene>>
      BY <1>3 DEF allVars
    <2> QED
      BY <1>1, <2>1 DEF HoldsInTurn, OneCallAHold, HeldAsRead, OpenHold
  <1> QED
    BY <1>2, <1>3

\* A capture that has read an open hold charges it.
LEMMA CaptureCharges ==
    ASSUME SettleTyped, SettleRefers, NEW r \in Requests, CaptureCommit(r), HeldAsRead(req[r]),
           hold'[req[r].hold].captured = req[r].amount,
           hold'[req[r].hold].trx = Len(trx) + 1
    PROVE  ChargesHold(req[r].hold)
  <1> DEFINE h == req[r]
             n == Len(trx) + 1
             lines == OneLine(CARD_PAYMENT, h.amount)
  <1>1. h.op = "capture" /\ h \in SettleHandler
    BY SettlesIf DEF SettleTyped, TypedBeside, CaptureCommit, SettleOps
  <1>2. h.folio \in Folios /\ h.amount \in Int /\ h.user \in Users /\ h.shift \in ShiftRef
    BY <1>1, CaptureFields
  <1>3. PersistPostingLines(h.folio, 1, h.user, h.shift, lines)
    BY DEF CaptureCommit
  <1>4. /\ h.amount <= hold[h.hold].amount
        /\ ReservationOf[h.folio] = hold[h.hold].reservation
    BY <1>1 DEF HeldAsRead, HoldCalls, CaptureCalls
  <1>5. /\ lines \in Seq(Line) /\ Len(lines) = 1 /\ lines[1].code = CARD_PAYMENT
        /\ lines[1].sign = -1 /\ lines[1].amount = h.amount
    BY <1>2, CodesAreStrings, OneLineTyped DEF OneLine
  <1>6. trx \in Seq(Row) /\ winbal \in [Folios -> [Windows -> Int]] /\ 1 \in Windows
    BY DEF SettleTyped, TypedBeside, Windows
  <1> HIDE DEF lines, h
  <1>p. /\ trx' \in Seq(Row)
        /\ winbal' \in [Folios -> [Windows -> Int]]
        /\ SumImpact(lines) \in Int
        /\ Len(trx) \in Nat /\ Len(trx') \in Nat /\ Len(trx') >= Len(trx)
        /\ Len(lines) \in Nat /\ Len(trx') = Len(trx) + Len(lines)
        /\ \A i \in 1..Len(lines) :
                trx'[Len(trx) + i] = RowsFor(h.folio, 1, h.user, h.shift, lines)[i]
        /\ \A i \in 1..Len(trx) : trx'[i] = trx[i]
        /\ \A i \in 1..Len(trx') : i > Len(trx) =>
                trx'[i].related = 0 /\ trx'[i].void = FALSE /\ trx'[i].folio = h.folio
    BY <1>2, <1>3, <1>5, <1>6, Persists
  <1>7. /\ Len(trx) \in Nat /\ Len(trx') = Len(trx) + 1
        /\ trx'[Len(trx) + 1] = RowsFor(h.folio, 1, h.user, h.shift, lines)[1]
        /\ trx'[Len(trx) + 1].folio = h.folio
    BY <1>5, <1>p
  <1>8. LET row == RowsFor(h.folio, 1, h.user, h.shift, lines)[1] IN
        row.code = CARD_PAYMENT /\ row.sign = -1 /\ row.amount = h.amount
    BY <1>5 DEF RowsFor
  <1> QED
    BY <1>4, <1>7, <1>8 DEF ChargesHold, h

\* What a capture in flight posts is its own payment.
LEMMA CapturesOnlyCapture ==
    ASSUME SettleTyped, SettleRefers, NEW r \in Requests, ServiceStep(r), NEW q \in Requests,
           req[q].op = "capture", req'[q] # req[q], trx' # trx
    PROVE  q = r /\ CaptureCommit(r)
  <1>1. q = r
    BY OneMoves DEF HandlerMoves
  <1>2. CASE LedgerCall(r)
    <2>1. PostCommit(r) \/ VoidCommit(r)
      BY <1>2 DEF LedgerCall, ledgerVars, CreateRead, CreateCommit, Post, Void, Settle,
             SetCreditLimit, SetArRead, SetArCommit, Fail, PostRead, PostResolveShift,
             PostCheckCredit, VoidRead, VoidResolveShift, CheckoutRead, InterimRead,
             ReopenRead, CloseCommit, ReopenCommit
    <2> QED
      BY <1>1, <2>1 DEF PostCommit, VoidCommit
  <1>3. CASE SettleReader(r)
    BY <1>3, SettleReads DEF TablesKept, ledgerVars
  <1>4. CASE SettleWriter(r)
    BY <1>1, <1>4 DEF SettleWriter, ledgerVars, CreateAccount, UpdateAccount, AllocateCommit,
                  TransferCommit, CreateHold, IncrementCommit, ReleaseCommit, IssueCommit,
                  VoidTaxCommit, JournalCommit
  <1> QED
    BY <1>1, <1>2, <1>3, <1>4 DEF ServiceStep

\* capture, increment and release of card holds: where no two calls on one hold
\* overlap, and whatever is posted, voided or transferred meanwhile, a hold is
\* charged once, for no more than it holds, by one payment on a folio of its own
\* reservation; a released one is never charged. The desk may post card payments
\* by hand as it likes.
THEOREM HoldsChargeOnce == SettleSpec => HoldChargedOnce
  <1> DEFINE Charged ==
        scene.holdsInTurn =>
        /\ \A h \in Holds : hold'[h] # hold[h] =>
                /\ hold[h].status \notin {"RELEASED", "CAPTURED"}
                /\ hold'[h].status = "CAPTURED" => ChargesHold(h)
        /\ \A r \in Requests :
                (req[r].op = "capture" /\ req'[r] # req[r] /\ trx' # trx)
                => hold'[req[r].hold].status = "CAPTURED"
  <1>1. HoldsInTurn /\ [SettleStep]_<<allVars, scene>> => [Charged]_<<hold, req, trx>>
    <2> SUFFICES ASSUME HoldsInTurn, [SettleStep]_<<allVars, scene>>, scene.holdsInTurn,
                        ~UNCHANGED <<hold, req, trx>>
                 PROVE  Charged
      OBVIOUS
    <2>1. PICK r \in Requests : ServiceStep(r)
      BY NextIsService DEF SettleStep, allVars
    <2>2. SettleTyped /\ SettleRefers /\ HeldAsRead(req[r])
      BY DEF HoldsInTurn
    <2>3. ASSUME NEW h \in Holds, hold'[h] # hold[h]
          PROVE  /\ hold[h].status \notin {"RELEASED", "CAPTURED"}
                 /\ hold'[h].status = "CAPTURED" => ChargesHold(h)
      <3>1. CASE hold[h].status = "NONE" /\ hold'[h].status = "HELD"
        BY <3>1
      <3>2. CASE /\ req[r].op \in {"increment", "release"} /\ req[r].hold = h
                 /\ hold'[h].status \in {"INCREMENTAL", "RELEASED"}
        BY <2>2, <3>2 DEF HeldAsRead, HoldCalls, OpenHold
      <3>3. CASE /\ CaptureCommit(r) /\ req[r].hold = h /\ hold'[h].status = "CAPTURED"
                 /\ hold'[h].captured = req[r].amount /\ hold'[h].trx = Len(trx) + 1
        <4>1. OpenHold(h)
          BY <2>2, <3>3 DEF HeldAsRead, HoldCalls, CaptureCommit
        <4> QED
          BY <2>2, <3>3, <4>1, CaptureCharges DEF OpenHold
      <3> QED
        BY <2>1, <2>2, <2>3, <3>1, <3>2, <3>3, OneHoldChanges
    <2>4. ASSUME NEW q \in Requests, req[q].op = "capture", req'[q] # req[q], trx' # trx
          PROVE  hold'[req[q].hold].status = "CAPTURED"
      <3>1. q = r /\ CaptureCommit(r)
        BY <2>1, <2>2, <2>4, CapturesOnlyCapture
      <3>2. req[r].hold \in Holds
        BY <2>2, <2>4, <3>1, SettlesIf, CaptureFields DEF SettleTyped, TypedBeside, SettleOps
      <3> QED
        BY <2>2, <3>1, <3>2 DEF CaptureCommit, SettleTyped, HoldRow
    <2> QED
      BY <2>3, <2>4
  <1>2. SettleSpec => []SettleBooks
    BY AlwaysSettles
  <1> QED
    BY <1>1, <1>2, InitHeld, StepHoldsInTurn, PTL DEF SettleSpec, SettleStep, HoldChargedOnce

-----------------------------------------------------------------------------
(* While nothing was voided, the books follow the folios.                  *)

\* A row is worth its entry by its code, amount and sign.
LEMMA WorthAlike ==
    ASSUME NEW x, NEW y, x.code = y.code, x.amount = y.amount, x.sign = y.sign,
           WorthItsEntry(x)
    PROVE  WorthItsEntry(y)
  BY DEF WorthItsEntry, IsChargeLike

\* Of rows that are worth their entry the guests' account takes the sum.
LEMMA BooksTakeNet ==
    ASSUME trx \in Seq(Row), \A t \in DOMAIN trx : ~trx[t].void /\ WorthItsEntry(trx[t])
    PROVE  BuildLines[GUEST_LEDGER].debit - BuildLines[GUEST_LEDGER].credit = Net
  <1> DEFINE X == DOMAIN trx
             worth == [t \in X |-> trx[t].sign * trx[t].amount]
             size == [t \in X |-> Magnitude(trx[t].amount)]
             none == [t \in X |-> 0]
             D == {t \in Drafted : DebitOf(trx[t]) = GUEST_LEDGER}
             C == {t \in Drafted : CreditOf(trx[t]) = GUEST_LEDGER}
             Z == X \ Drafted
  <1>1. IsFiniteSet(X)
    <2>1. X = 1..Len(trx) /\ IsFiniteSet(1..Len(trx))
      BY FS_Interval
    <2> QED
      BY <2>1
  <1>2. \A t \in X : /\ trx[t] \in Row /\ trx[t].amount \in Int /\ trx[t].amount >= 0
                     /\ trx[t].sign = IF IsChargeLike(trx[t]) THEN 1 ELSE -1
                     /\ GLCode[trx[t].code] # "" /\ GLCode[trx[t].code] # GUEST_LEDGER
                     /\ (t \in Drafted <=> trx[t].amount # 0)
    <2>1. \A t \in X : trx[t] \in Row
      BY ElementOfSeq
    <2>2. \A t \in X : trx[t].amount \in Int
      BY <2>1 DEF Row
    <2> QED
      BY <2>1, <2>2 DEF WorthItsEntry, Drafted
  <1>3. ASSUME NEW t \in X
        PROVE  /\ t \in D => worth[t] = size[t]
               /\ t \in C => worth[t] = -size[t]
               /\ t \in Z => worth[t] = 0
               /\ worth[t] \in Int /\ size[t] \in Int
    <2> DEFINE n == trx[t].amount
               k == trx[t].sign
    <2>0. n \in Int /\ n >= 0 /\ (t \in Drafted <=> n # 0)
      BY <1>2
    <2>1. size[t] = n /\ n \in Int /\ n >= 0 /\ (t \in Z => n = 0)
      <3>1. Magnitude(n) = n
        BY <2>0 DEF Magnitude
      <3> QED
        BY <2>0, <3>1
    <2>2. worth[t] = k * n
      OBVIOUS
    <2>3. CASE IsChargeLike(trx[t])
      <3>1. k = 1 /\ t \notin C
        BY <1>2, <2>3 DEF CreditOf
      <3> HIDE DEF n, k
      <3>2. worth[t] = n
        BY <2>1, <2>2, <3>1
      <3> QED
        BY <2>1, <3>1, <3>2
    <2>4. CASE ~IsChargeLike(trx[t])
      <3>1. k = -1 /\ t \notin D
        BY <1>2, <2>4 DEF DebitOf
      <3> HIDE DEF n, k
      <3>2. worth[t] = -n
        BY <2>1, <2>2, <3>1
      <3> QED
        BY <2>1, <3>1, <3>2
    <2> QED
      BY <2>3, <2>4
  <1>4. X = D \cup C \cup Z /\ D \cap C = {} /\ (D \cup C) \cap Z = {}
    BY <1>2 DEF Drafted, DebitOf, CreditOf
  <1>5. /\ BuildLines[GUEST_LEDGER].debit = SumFunctionOnSet(size, D)
        /\ BuildLines[GUEST_LEDGER].credit = SumFunctionOnSet(size, C)
        /\ Net = SumFunctionOnSet(worth, X)
    BY SettlementAssumption DEF BuildLines, SumDrafted, Net, SumFunction
  <1>none. \A t \in X : none[t] = 0
    OBVIOUS
  <1> HIDE DEF X, worth, size, none, D, C, Z
  <1>6. IsFiniteSet(D) /\ IsFiniteSet(C) /\ IsFiniteSet(Z) /\ IsFiniteSet(D \cup C)
    BY <1>1, <1>4, FS_Subset
  <1>7. SumFunctionOnSet(worth, D) = SumFunctionOnSet(size, D)
    BY <1>3, <1>4, <1>6, SumAgrees
  <1>8. SumFunctionOnSet(none, C) = SumFunctionOnSet(worth, C) + SumFunctionOnSet(size, C)
    <2>1. \A t \in C : worth[t] \in Int /\ size[t] \in Int /\ none[t] = worth[t] + size[t]
      BY <1>3, <1>4, <1>none
    <2> QED
      BY <1>6, <2>1, SumCombines
  <1>9. SumFunctionOnSet(none, C) = 0 /\ SumFunctionOnSet(worth, Z) = 0
    <2>1. (\A t \in C : none[t] = 0) /\ (\A t \in Z : worth[t] = 0)
      BY <1>3, <1>4, <1>none
    <2> QED
      BY <1>6, <2>1, SumOfZeros
  <1>10. SumFunctionOnSet(worth, X) = SumFunctionOnSet(worth, D \cup C) + SumFunctionOnSet(worth, Z)
    <2>1. \A t \in (D \cup C) \cup Z : worth[t] \in Int
      BY <1>3, <1>4
    <2> QED
      BY <1>4, <1>6, <2>1, SumSplits
  <1>11. SumFunctionOnSet(worth, D \cup C) = SumFunctionOnSet(worth, D) + SumFunctionOnSet(worth, C)
    <2>1. \A t \in D \cup C : worth[t] \in Int
      BY <1>3, <1>4
    <2> QED
      BY <1>4, <1>6, <2>1, SumSplits
  <1>12. /\ SumFunctionOnSet(worth, D) \in Int /\ SumFunctionOnSet(worth, C) \in Int
         /\ SumFunctionOnSet(size, D) \in Int /\ SumFunctionOnSet(size, C) \in Int
    <2>1. /\ \A t \in D : worth[t] \in Int /\ size[t] \in Int
          /\ \A t \in C : worth[t] \in Int /\ size[t] \in Int
      BY <1>3, <1>4
    <2> QED
      BY <1>6, <2>1, SumType
  <1> QED
    BY <1>5, <1>7, <1>8, <1>9, <1>10, <1>11, <1>12

\* Once a row was voided there always is one; until then each is worth its entry.
RowsAreWorth ==
    \/ \E t \in DOMAIN trx : trx[t].void
    \/ \A t \in DOMAIN trx : WorthItsEntry(trx[t])

\* Lines worth their entry become such rows.
LEMMA AddedWorth ==
    ASSUME SettleTyped, RowsAreWorth, NEW lines \in Seq(Line), AddsRows(lines),
           \A i \in DOMAIN lines : WorthItsEntry(lines[i])
    PROVE  RowsAreWorth'
  <1>1. /\ Len(trx) \in Nat /\ Len(lines) \in Nat /\ DOMAIN trx = 1..Len(trx)
        /\ DOMAIN trx' = 1..(Len(trx) + Len(lines)) /\ DOMAIN lines = 1..Len(lines)
        /\ \A t \in DOMAIN trx : trx'[t] = trx[t]
    BY DEF SettleTyped, TypedBeside, AddsRows
  <1>2. CASE \E t \in DOMAIN trx : trx[t].void
    BY <1>1, <1>2 DEF RowsAreWorth
  <1>3. CASE \A t \in DOMAIN trx : WorthItsEntry(trx[t])
    <2>1. ASSUME NEW t \in DOMAIN trx' PROVE WorthItsEntry(trx'[t])
      <3>1. CASE t \in DOMAIN trx
        BY <1>1, <1>3, <3>1
      <3>2. CASE t \notin DOMAIN trx
        <4> DEFINE i == t - Len(trx)
        <4>1. i \in 1..Len(lines) /\ t = Len(trx) + i
          BY <1>1, <3>2
        <4> HIDE DEF i
        <4>2. /\ trx'[t].code = lines[i].code /\ trx'[t].amount = lines[i].amount
              /\ trx'[t].sign = lines[i].sign
          BY <4>1 DEF AddsRows
        <4>3. WorthItsEntry(lines[i])
          BY <1>1, <4>1
        <4> QED
          BY <4>2, <4>3, WorthAlike
      <3> QED
        BY <3>1, <3>2
    <2> QED
      BY <2>1 DEF RowsAreWorth, WorthItsEntry, IsChargeLike
  <1> QED
    BY <1>2, <1>3 DEF RowsAreWorth

\* The lines of a transfer and of a capture are worth their entry.
LEMMA OneLineWorth ==
    ASSUME LinesFollowCodes, NEW code \in {CITY_LEDGER, CARD_PAYMENT}, NEW n \in Int, n > 0
    PROVE  /\ OneLine(code, n) \in Seq(Line)
           /\ \A i \in DOMAIN OneLine(code, n) : WorthItsEntry(OneLine(code, n)[i])
  <1>1. OneLine(code, n) \in Seq(Line)
    BY CodesAreStrings, OneLineTyped
  <1>2. /\ DOMAIN OneLine(code, n) = {1}
        /\ OneLine(code, n)[1] = [code |-> code, amount |-> n, sign |-> -1]
    BY DEF OneLine
  <1>3. CodeType[code] = "PAYMENT" /\ GLCode[code] \notin {"", GUEST_LEDGER}
    BY DEF LinesFollowCodes
  <1> DEFINE x == OneLine(code, n)[1]
  <1>4. x.code = code /\ x.amount = n /\ x.sign = -1
    BY <1>2
  <1> HIDE DEF x
  <1>5. ~IsChargeLike(x)
    BY <1>3, <1>4 DEF IsChargeLike
  <1>6. WorthItsEntry(x)
    <2>1. x.amount >= 0
      BY <1>4
    <2>2. x.sign = IF IsChargeLike(x) THEN 1 ELSE -1
      BY <1>4, <1>5
    <2>3. GLCode[x.code] \notin {"", GUEST_LEDGER}
      BY <1>3, <1>4
    <2> QED
      BY <2>1, <2>2, <2>3 DEF WorthItsEntry
  <1> QED
    BY <1>1, <1>2, <1>6 DEF x

\* Every step keeps the rows so.
LEMMA StepWorth ==
    ASSUME SettleTyped, SettleRefers, NEW r \in Requests, ServiceStep(r), LinesFollowCodes,
           RowsAreWorth
    PROVE  RowsAreWorth'
  <1>1. CASE UNCHANGED trx
    BY <1>1 DEF RowsAreWorth, WorthItsEntry, IsChargeLike
  <1>2. ASSUME NEW lines \in PostingLines, AddsRows(lines) PROVE RowsAreWorth'
    BY <1>2, AddedWorth, LinesAssumption DEF LinesFollowCodes
  <1>3. CASE Corrects(req[r].trx)
    BY <1>3 DEF Corrects, RowsAreWorth
  <1>4. ASSUME NEW code \in {CITY_LEDGER, CARD_PAYMENT}, PostsOne(r, code)
        PROVE  RowsAreWorth'
    BY <1>4, AddedWorth, OneLineWorth DEF PostsOne
  <1> QED
    BY <1>1, <1>2, <1>3, <1>4, WhoAddsRows

\* The inductive invariant of the books, for lines that follow their codes.
BooksInTurn == SettleInTurn /\ (LinesFollowCodes => RowsAreWorth)

\* It holds before the first call.
LEMMA InitWorth == SettleInit => BooksInTurn
  BY InitInTurn DEF BooksInTurn, SettleInit, Init, RowsAreWorth

\* It is kept by every step.
LEMMA StepBooksInTurn ==
    BooksInTurn /\ [SettleStep]_<<allVars, scene>> => BooksInTurn'
  <1> SUFFICES ASSUME BooksInTurn, [SettleStep]_<<allVars, scene>>, LinesFollowCodes
               PROVE  RowsAreWorth'
    BY StepSettlesInTurn DEF BooksInTurn, LinesFollowCodes, WorthItsEntry, IsChargeLike
  <1>1. SettleTyped /\ SettleRefers /\ RowsAreWorth
    BY DEF BooksInTurn, SettleInTurn, SettleBooks
  <1>2. CASE UNCHANGED <<allVars, scene>>
    BY <1>1, <1>2 DEF allVars, RowsAreWorth, WorthItsEntry, IsChargeLike
  <1> QED
    BY <1>1, <1>2, StepWorth, NextIsService DEF SettleStep

\* postForBusinessDate, called in turn: while no row was voided, the guest
\* ledger account takes what the rows moved the folios by, provided the lines
\* follow their codes.
THEOREM BooksFollow ==
    ASSUME LinesFollowCodes
    PROVE  SettleSpec => BooksFollowFolios
  <1>1. BooksInTurn /\ [SettleStep]_<<allVars, scene>> =>
            [\A s \in Sources :
                (/\ OneAtATime
                 /\ entry[s] = NoEntry /\ entry'[s] # NoEntry
                 /\ \A t \in DOMAIN trx : ~trx[t].void)
                => entry'[s][GUEST_LEDGER].debit - entry'[s][GUEST_LEDGER].credit = Net]_entry
    <2> SUFFICES ASSUME BooksInTurn, [SettleStep]_<<allVars, scene>>, entry' # entry,
                        NEW s \in Sources, OneAtATime,
                        entry[s] = NoEntry, entry'[s] # NoEntry,
                        \A t \in DOMAIN trx : ~trx[t].void
                 PROVE  entry'[s][GUEST_LEDGER].debit - entry'[s][GUEST_LEDGER].credit = Net
      OBVIOUS
    <2>1. PICK r \in Requests : ServiceStep(r)
      BY NextIsService DEF SettleStep, allVars
    <2>2. SettleTyped /\ SettleRefers /\ Current(req[r]) /\ RowsAreWorth
      BY DEF BooksInTurn, SettleInTurn, SettleBooks, CallsInTurn
    <2>3. JournalCommit(r) /\ EntersBooks(req[r])
      BY <2>1, <2>2, WhoWrites, JournalEffect
    <2>4. entry'[s] = req[r].lines /\ req[r].op = "journal"
      BY <2>3 DEF EntersBooks, JournalCommit
    <2>5. entry'[s] = BuildLines
      BY <2>2, <2>4 DEF Current
    <2>6. \A t \in DOMAIN trx : WorthItsEntry(trx[t])
      BY <2>2 DEF RowsAreWorth
    <2>7. trx \in Seq(Row)
      BY <2>2 DEF SettleTyped, TypedBeside
    <2> QED
      BY <2>5, <2>6, <2>7, BooksTakeNet
  <1> QED
    BY <1>1, InitWorth, StepBooksInTurn, PTL DEF SettleSpec, SettleStep, BooksFollowFolios

=============================================================================
