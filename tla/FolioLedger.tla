---------------------------- MODULE FolioLedger ----------------------------
(***************************************************************************)
(* The guest ledger: folios, their four windows, and the postings on them. *)
(* Every endpoint of FoliosService reads what it checks first and writes   *)
(* later, so a handler is a record in req[r] that carries what it has read *)
(* from one database round trip to the next; anything may happen between.  *)
(* A prisma.$transaction commits in one step.                              *)
(***************************************************************************)
EXTENDS Integers, Sequences, FiniteSets, SequencesExt

CONSTANTS
    MaxFolios,       \* bound: folio numbers F000001 .. F<MaxFolios>
    MaxTrx,          \* bound: rows of FolioTransaction
    Requests,        \* concurrent API calls
    Cashiers,        \* users who need an open shift to post
    SYSTEM,          \* the night audit's user id, posts without a shift
    Shifts, NoShift,
    Accounts, NoAccount,
    NoLimit,
    DefaultLimit,    \* Property.defaultCreditLimit
    LimitChoices,    \* what setCreditLimit is called with
    AccountRows,     \* ARAccount rows a run starts from
    PostWindows,     \* windows the postings of a run use
    PostingLines     \* what resolvePostingLines returns: nonempty sequences
                     \* of priced lines (one, or a split package)

VARIABLES
    folio,           \* Folio rows
    winbal,          \* FolioWindow.balance
    trx,             \* FolioTransaction rows in insertion order
    req,             \* handlers in flight
    shift,           \* Shift rows, written by the shift endpoints only
    account          \* ARAccount rows, written by the AR endpoints only

ledgerVars == <<folio, winbal, trx>>
vars == <<folio, winbal, trx, req, shift, account>>

-----------------------------------------------------------------------------
Folios == 1..MaxFolios            \* a folio is its number
Windows == 1..4
Users == Cashiers \cup {SYSTEM}
ShiftRef == Shifts \cup {NoShift}
Line == [code : STRING, amount : Int, sign : {-1, 1}]

Impact(line) == IF line.sign = 1 THEN line.amount ELSE -line.amount
Impacts(lines) == [i \in DOMAIN lines |-> Impact(lines[i])]
SumImpact(lines) == SumFunction(Impacts(lines))

ASSUME BoundsAssumption == MaxFolios \in Nat /\ MaxTrx \in Nat
ASSUME NamesAssumption ==
    /\ SYSTEM \notin Cashiers
    /\ NoShift \notin Shifts
    /\ NoAccount \notin Accounts
    /\ PostWindows \subseteq Windows
ASSUME AccountsAssumption ==
    AccountRows \subseteq [active : BOOLEAN, limit : Int, balance : Int]
ASSUME LinesAssumption ==
    \A lines \in PostingLines : lines \in Seq(Line) /\ Len(lines) > 0

NoFolio == [status |-> "NONE", isClosed |-> FALSE, isInterim |-> FALSE,
            balance |-> 0, creditLimit |-> NoLimit, arAccount |-> NoAccount]
Idle == [op |-> "idle"]

Exists(f) == folio[f].status # "NONE"

Init ==
    /\ folio = [f \in Folios |-> NoFolio]
    /\ winbal = [f \in Folios |-> [w \in Windows |-> 0]]
    /\ trx = <<>>
    /\ req = [r \in Requests |-> Idle]

-----------------------------------------------------------------------------
(* Request plumbing *)

Begin(r, h) == req[r] = Idle /\ req' = [req EXCEPT ![r] = h]
End(r) == req' = [req EXCEPT ![r] = Idle]

\* A check refuses the call, the database or the process fails before the
\* write: nothing was written yet, so the call leaves no trace.
Fail(r) ==
    /\ req[r] # Idle
    /\ End(r)
    /\ UNCHANGED <<ledgerVars, shift, account>>

-----------------------------------------------------------------------------
(* create: the next number is read outside any transaction; the unique     *)
(* index on folioNumber refuses a number that was taken in between.        *)

CreateRead(r) ==
    /\ Begin(r, [op |-> "create", count |-> Cardinality({f \in Folios : Exists(f)})])
    /\ UNCHANGED <<ledgerVars, shift, account>>

CreateCommit(r) ==
    /\ req[r].op = "create"
    /\ LET f == req[r].count + 1 IN
        /\ f \in Folios
        /\ ~Exists(f)
        /\ folio' = [folio EXCEPT ![f] = [NoFolio EXCEPT !.status = "OPEN"]]
    /\ End(r)
    /\ UNCHANGED <<winbal, trx, shift, account>>

-----------------------------------------------------------------------------
(* postTransaction *)

RowsFor(f, w, user, sh, lines) ==
    [i \in 1..Len(lines) |->
        [folio |-> f, window |-> w, code |-> lines[i].code,
         amount |-> lines[i].amount, sign |-> lines[i].sign,
         user |-> user, shift |-> sh, void |-> FALSE, related |-> 0]]

\* Mutant: the window takes the impact of the first line of a package only.
PersistFirstLineOnly(f, w, user, sh, lines) ==
    /\ Len(trx) + Len(lines) <= MaxTrx
    /\ trx' = trx \o RowsFor(f, w, user, sh, lines)
    /\ winbal' = [winbal EXCEPT ![f][w] = @ + Impact(lines[1])]

\* The lines are appended and the window moves by their sum; the caller
\* moves the folio's balance in the same transaction.
PersistPostingLines(f, w, user, sh, lines) ==
    /\ Len(trx) + Len(lines) <= MaxTrx
    /\ trx' = trx \o RowsFor(f, w, user, sh, lines)
    /\ winbal' = [winbal EXCEPT ![f][w] = @ + SumImpact(lines)]

OpenShiftsOf(user) ==
    {s \in Shifts : shift[s].user = user /\ shift[s].status = "OPEN"}

\* SYSTEM posts without a shift, a cashier needs an open one.
ResolvesTo(user, sh) ==
    IF user = SYSTEM THEN sh = NoShift ELSE sh \in OpenShiftsOf(user)

PostRead(r, f, w, user, lines) ==
    /\ folio[f].status = "OPEN"
    /\ Begin(r, [op |-> "postShift", folio |-> f, window |-> w, user |-> user,
                 lines |-> lines, shift |-> NoShift])
    /\ UNCHANGED <<ledgerVars, shift, account>>

PostResolveShift(r, sh) ==
    /\ req[r].op = "postShift"
    /\ ResolvesTo(req[r].user, sh)
    /\ req' = [req EXCEPT ![r].op = "postCredit", ![r].shift = sh]
    /\ UNCHANGED <<ledgerVars, shift, account>>

ArCreditAllows(f, impact) ==
    LET a == folio[f].arAccount IN
        (impact > 0 /\ a # NoAccount) =>
            /\ account[a].active
            /\ folio[f].balance + impact <= account[a].limit - account[a].balance

PostCheckCredit(r) ==
    /\ req[r].op = "postCredit"
    /\ ArCreditAllows(req[r].folio, SumImpact(req[r].lines))
    /\ req' = [req EXCEPT ![r].op = "post"]
    /\ UNCHANGED <<ledgerVars, shift, account>>

\* Mutant: the folio's balance is written from what the handler adds up, not
\* incremented.
PostOverwritesBalance(r) ==
    LET h == req[r] IN
    /\ h.op = "post"
    /\ PersistPostingLines(h.folio, h.window, h.user, h.shift, h.lines)
    /\ folio' = [folio EXCEPT ![h.folio].balance = SumImpact(h.lines)]
    /\ End(r)
    /\ UNCHANGED <<shift, account>>

PostCommit(r) ==
    LET h == req[r] IN
    /\ h.op = "post"
    /\ PersistPostingLines(h.folio, h.window, h.user, h.shift, h.lines)
    /\ folio' = [folio EXCEPT ![h.folio].balance = @ + SumImpact(h.lines)]
    /\ End(r)
    /\ UNCHANGED <<shift, account>>

-----------------------------------------------------------------------------
(* voidTransaction: a correction of opposite sign; the original only gets  *)
(* its void flag and the link. Neither the folio's status nor, at commit,  *)
(* the void flag is looked at.                                             *)

VoidRead(r, t, user) ==
    /\ t \in DOMAIN trx
    /\ ~trx[t].void
    /\ Begin(r, [op |-> "voidShift", trx |-> t, user |-> user, shift |-> NoShift])
    /\ UNCHANGED <<ledgerVars, shift, account>>

VoidResolveShift(r, sh) ==
    /\ req[r].op = "voidShift"
    /\ ResolvesTo(req[r].user, sh)
    /\ req' = [req EXCEPT ![r].op = "void", ![r].shift = sh]
    /\ UNCHANGED <<ledgerVars, shift, account>>

\* Mutant: the correction keeps the sign of the row it corrects.
CorrectionSameSign(t, user, sh) ==
    [trx[t] EXCEPT !.user = user, !.shift = sh, !.void = FALSE, !.related = t]

\* Mutant: the correction goes to the shift of the row it corrects.
CorrectionOnOriginalShift(t, user, sh) ==
    [trx[t] EXCEPT !.sign = -@, !.user = user, !.void = FALSE, !.related = t]

Correction(t, user, sh) ==
    [trx[t] EXCEPT !.sign = -@, !.user = user, !.shift = sh,
                   !.void = FALSE, !.related = t]

\* Mutant: the window's balance is not adjusted.
VoidForgetsWindow(r) ==
    LET t == req[r].trx
        new == Correction(t, req[r].user, req[r].shift)
    IN
    /\ req[r].op = "void"
    /\ Len(trx) < MaxTrx
    /\ trx' = Append([trx EXCEPT ![t].void = TRUE, ![t].related = Len(trx) + 1], new)
    /\ folio' = [folio EXCEPT ![new.folio].balance = @ + Impact(new)]
    /\ End(r)
    /\ UNCHANGED <<winbal, shift, account>>

VoidCommit(r) ==
    LET t == req[r].trx
        new == Correction(t, req[r].user, req[r].shift)
    IN
    /\ req[r].op = "void"
    /\ Len(trx) < MaxTrx
    /\ trx' = Append([trx EXCEPT ![t].void = TRUE, ![t].related = Len(trx) + 1], new)
    /\ winbal' = [winbal EXCEPT ![new.folio][new.window] = @ + Impact(new)]
    /\ folio' = [folio EXCEPT ![new.folio].balance = @ + Impact(new)]
    /\ End(r)
    /\ UNCHANGED <<shift, account>>

-----------------------------------------------------------------------------
(* checkout, closeAsInterim, reopen *)

CreditLimitOf(f) ==
    IF folio[f].creditLimit # NoLimit THEN folio[f].creditLimit ELSE DefaultLimit

ExceedsLimit(f) ==
    CreditLimitOf(f) # NoLimit /\ folio[f].balance > CreditLimitOf(f)

CheckoutRead(r, f) ==
    /\ Exists(f)
    /\ ~folio[f].isClosed /\ folio[f].status # "CLOSED"
    /\ ~ExceedsLimit(f)
    /\ Begin(r, [op |-> "checkout", folio |-> f])
    /\ UNCHANGED <<ledgerVars, shift, account>>

InterimRead(r, f) ==
    /\ Exists(f)
    /\ ~folio[f].isClosed /\ folio[f].status # "CLOSED"
    /\ Begin(r, [op |-> "interim", folio |-> f])
    /\ UNCHANGED <<ledgerVars, shift, account>>

\* Mutant: the reservation's status name ends up on the folio.
CloseAsCheckedOut(r) ==
    LET f == req[r].folio IN
    /\ req[r].op \in {"checkout", "interim"}
    /\ folio' = [folio EXCEPT ![f].status = "CHECKED_OUT", ![f].isClosed = TRUE]
    /\ End(r)
    /\ UNCHANGED <<winbal, trx, shift, account>>

CloseCommit(r) ==
    LET f == req[r].folio IN
    /\ req[r].op \in {"checkout", "interim"}
    /\ folio' = [folio EXCEPT ![f].status = "CLOSED", ![f].isClosed = TRUE,
                              ![f].isInterim = @ \/ req[r].op = "interim"]
    /\ End(r)
    /\ UNCHANGED <<winbal, trx, shift, account>>

ReopenRead(r, f) ==
    /\ folio[f].status = "CLOSED"
    /\ Begin(r, [op |-> "reopen", folio |-> f])
    /\ UNCHANGED <<ledgerVars, shift, account>>

ReopenCommit(r) ==
    LET f == req[r].folio IN
    /\ req[r].op = "reopen"
    /\ folio' = [folio EXCEPT ![f].status = "OPEN", ![f].isClosed = FALSE]
    /\ End(r)
    /\ UNCHANGED <<winbal, trx, shift, account>>

-----------------------------------------------------------------------------
(* setCreditLimit, setArAccount *)

SetCreditLimit(r, f, limit) ==
    /\ req[r] = Idle
    /\ Exists(f)
    /\ folio' = [folio EXCEPT ![f].creditLimit = limit]
    /\ UNCHANGED <<winbal, trx, req, shift, account>>

SetArRead(r, f, a) ==
    /\ Exists(f)
    /\ a # NoAccount => account[a].active
    /\ Begin(r, [op |-> "setAr", folio |-> f, account |-> a])
    /\ UNCHANGED <<ledgerVars, shift, account>>

SetArCommit(r) ==
    /\ req[r].op = "setAr"
    /\ folio' = [folio EXCEPT ![req[r].folio].arAccount = req[r].account]
    /\ End(r)
    /\ UNCHANGED <<winbal, trx, shift, account>>

-----------------------------------------------------------------------------
Post(r) ==
    \/ \E f \in Folios, w \in PostWindows, u \in Users, lines \in PostingLines :
            PostRead(r, f, w, u, lines)
    \/ \E sh \in ShiftRef : PostResolveShift(r, sh)
    \/ PostCheckCredit(r)
    \/ PostCommit(r)

Void(r) ==
    \/ \E t \in 1..MaxTrx, u \in Users : VoidRead(r, t, u)
    \/ \E sh \in ShiftRef : VoidResolveShift(r, sh)
    \/ VoidCommit(r)

Settle(r) ==
    \/ \E f \in Folios : CheckoutRead(r, f) \/ InterimRead(r, f) \/ ReopenRead(r, f)
    \/ CloseCommit(r)
    \/ ReopenCommit(r)

Configure(r) ==
    \/ \E f \in Folios, limit \in LimitChoices : SetCreditLimit(r, f, limit)
    \/ \E f \in Folios, a \in Accounts \cup {NoAccount} : SetArRead(r, f, a)
    \/ SetArCommit(r)

LedgerNext ==
    \E r \in Requests :
        \/ CreateRead(r) \/ CreateCommit(r)
        \/ Post(r) \/ Void(r) \/ Settle(r) \/ Configure(r)
        \/ Fail(r)

\* The ledger on its own: the shift and account tables hold anything and
\* nobody writes them.
TablesInit ==
    /\ shift \in [Shifts -> [user : Cashiers, status : {"OPEN", "CLOSED"}]]
    /\ account \in [Accounts -> AccountRows]

LedgerInit == Init /\ TablesInit

Spec == LedgerInit /\ [][LedgerNext]_vars

-----------------------------------------------------------------------------
(* What the ledger promises *)

Row == [folio : Folios, window : Windows, code : STRING, amount : Int,
        sign : {-1, 1}, user : Users, shift : ShiftRef, void : BOOLEAN,
        related : Nat]

LedgerHandler ==
    {Idle}
    \cup [op : {"create"}, count : Nat]
    \cup [op : {"postShift", "postCredit", "post"}, folio : Folios,
          window : Windows, user : Users, lines : PostingLines, shift : ShiftRef]
    \cup [op : {"voidShift", "void"}, trx : Nat, user : Users, shift : ShiftRef]
    \cup [op : {"checkout", "interim", "reopen"}, folio : Folios]
    \cup [op : {"setAr"}, folio : Folios, account : Accounts \cup {NoAccount}]

FolioStatus == {"NONE", "OPEN", "CLOSED", "POSTED_TO_CITY_LEDGER"}

FolioRow == [status : FolioStatus, isClosed : BOOLEAN, isInterim : BOOLEAN,
             balance : Int, creditLimit : LimitChoices \cup {NoLimit},
             arAccount : Accounts \cup {NoAccount}]

\* Types of the ledger's tables and of the handlers; a void in flight names
\* a row that exists.
TypeOK ==
    /\ folio \in [Folios -> FolioRow]
    /\ winbal \in [Folios -> [Windows -> Int]]
    /\ trx \in Seq(Row)
    /\ req \in [Requests -> LedgerHandler]
    /\ \A r \in Requests :
            req[r].op \in {"voidShift", "void"} => req[r].trx \in DOMAIN trx

\* The balance kept on the folio is the sum of the balances kept on its four
\* windows (ADR 001 keeps both "redundantly for fast reads"), in every
\* interleaving of postings, voids, closings and reopenings.
FolioIsSumOfWindows ==
    \A f \in Folios :
        folio[f].balance =
            winbal[f][1] + winbal[f][2] + winbal[f][3] + winbal[f][4]

RowsOf(f, w) == {i \in DOMAIN trx : trx[i].folio = f /\ trx[i].window = w}
SumOfRows(rows) == SumFunctionOnSet(Impacts(trx), rows)

\* A window's balance is the signed sum of every row ever written to it,
\* voided rows and their corrections included.
WindowIsSumOfRows ==
    \A f \in Folios, w \in Windows : winbal[f][w] = SumOfRows(RowsOf(f, w))

Reverses(c, t) ==
    /\ c.folio = t.folio /\ c.window = t.window /\ c.code = t.code
    /\ c.amount = t.amount /\ c.sign = -t.sign

\* A voided row links to a later row that reverses it to the satang in the
\* same window, and a live row that carries a link is the reversal of the
\* earlier, voided row it names: no half of a correction exists alone.
VoidsArePaired ==
    \A i \in DOMAIN trx :
        LET j == trx[i].related IN
        /\ trx[i].void => j \in DOMAIN trx /\ j > i /\ Reverses(trx[j], trx[i])
        /\ (~trx[i].void /\ j # 0) =>
                j \in DOMAIN trx /\ j < i /\ trx[j].void /\ Reverses(trx[i], trx[j])

\* Folio numbers are handed out without a gap although count() and create()
\* are two round trips: a stale count hits a number that exists and is
\* refused by the unique index, it never skips one.
NumbersWithoutGaps ==
    \A f \in Folios : Exists(f) => \A g \in 1..f : Exists(g)

\* The deprecated isClosed flag and the status that replaces it never
\* disagree; checkout, the interim closing and the transfer test both.
FlagAgreesWithStatus ==
    \A f \in Folios : folio[f].isClosed <=> folio[f].status \notin {"NONE", "OPEN"}

\* The journal of facts behind the rows: what an auditor must never see change.
Facts == [i \in DOMAIN trx |->
            [folio |-> trx[i].folio, window |-> trx[i].window, code |-> trx[i].code,
             amount |-> trx[i].amount, sign |-> trx[i].sign,
             user |-> trx[i].user, shift |-> trx[i].shift]]
Balances == [f \in Folios |-> folio[f].balance]
Contract == INSTANCE LedgerContract WITH entries <- Facts, balance <- Balances

\* The ledger implements the abstract journal: facts are only appended, one
\* folio per step, and that folio's balance moves by exactly what is appended.
ImplementsContract == Contract!Spec

\* A row once voided stays voided.
VoidIsForGood ==
    [][\A i \in DOMAIN trx : trx[i].void => trx'[i].void]_trx

\* One handler at a time: a row is corrected at most once.
VoidedAtMostOnce ==
    \A i \in DOMAIN trx :
        Cardinality({j \in DOMAIN trx : j > i /\ trx[j].related = i}) <= 1

=============================================================================
