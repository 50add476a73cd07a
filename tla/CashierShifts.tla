--------------------------- MODULE CashierShifts ---------------------------
(***************************************************************************)
(* Cashier shifts beside the ledger they reconcile: ShiftsService writes   *)
(* the Shift rows, FoliosService stamps postings with an open one. The two *)
(* services share nothing but the tables, so their handlers interleave at  *)
(* every database round trip. One property on one business date.           *)
(***************************************************************************)
EXTENDS FolioLedger

CONSTANTS
    MaxShifts,       \* bound: shift numbers SH-<date>-<property>-1 .. MaxShifts
    Desks,           \* concurrent calls of the shift endpoints
    CashCounts,      \* amounts a drawer is counted or opened with
    Approvers,       \* users whose role has SHIFT_APPROVE or ALL
    SuperAdmins,     \* users whose role has ALL
    NoUser

VARIABLE desk        \* shift handlers in flight

shiftsVars == <<folio, winbal, trx, req, shift, account, desk>>

ASSUME ShiftsAssumption ==
    /\ MaxShifts \in Nat /\ Shifts = 1..MaxShifts
    /\ CashCounts \subseteq Int
    /\ SuperAdmins \subseteq Approvers
    /\ NoUser \notin Users

NoRow == [user |-> NoUser, status |-> "NONE", opening |-> 0, expected |-> 0,
          closing |-> 0, approvedBy |-> NoUser, from |-> NoShift]

Created(s) == shift[s].status # "NONE"

ShiftsInit ==
    /\ Init
    /\ shift = [s \in Shifts |-> NoRow]
    /\ account = [a \in Accounts |-> [active |-> TRUE, limit |-> 0, balance |-> 0]]
    /\ desk = [d \in Desks |-> Idle]

\* The shift endpoints write no table of the ledger.
LedgerUntouched == UNCHANGED <<folio, winbal, trx, req, account>>

StartCall(d, h) == desk[d] = Idle /\ desk' = [desk EXCEPT ![d] = h]
EndCall(d) == desk' = [desk EXCEPT ![d] = Idle]

\* A check refuses the call or the process fails before the write.
FailCall(d) ==
    /\ desk[d] # Idle
    /\ EndCall(d)
    /\ UNCHANGED shift
    /\ LedgerUntouched

-----------------------------------------------------------------------------
(* open: is there an open shift, what is the next number, insert. *)

OpenCheck(d, u, cash) ==
    /\ OpenShiftsOf(u) = {}
    /\ StartCall(d, [op |-> "openCount", user |-> u, cash |-> cash])
    /\ UNCHANGED shift
    /\ LedgerUntouched

NextShiftNumber == Cardinality({s \in Shifts : Created(s)}) + 1

OpenCount(d) ==
    /\ desk[d].op = "openCount"
    /\ desk' = [desk EXCEPT ![d] = [op |-> "open", user |-> desk[d].user,
                                    cash |-> desk[d].cash, number |-> NextShiftNumber]]
    /\ UNCHANGED shift
    /\ LedgerUntouched

\* shiftNumber is unique: a number taken since it was counted is refused.
OpenCreate(d) ==
    LET h == desk[d] IN
    /\ h.op = "open"
    /\ h.number \in Shifts /\ ~Created(h.number)
    /\ shift' = [shift EXCEPT ![h.number] =
                    [NoRow EXCEPT !.user = h.user, !.status = "OPEN", !.opening = h.cash]]
    /\ EndCall(d)
    /\ LedgerUntouched

-----------------------------------------------------------------------------
(* close, and the closing half of handover: the drawer's rows are added up *)
(* in one round trip and the shift is written, unconditionally, in another.*)

CashRows(s) == {i \in DOMAIN trx : trx[i].shift = s /\ trx[i].code = "9000"}

\* Mutant: amounts are added with the folio's sign.
DrawerByFolioSign(s) == shift[s].opening + SumOfRows(CashRows(s))

\* Cash received has sign -1 on the folio and adds to the drawer.
Drawer(s) == shift[s].opening - SumOfRows(CashRows(s))

CloseRead(d, s, counted) ==
    /\ shift[s].status = "OPEN"
    /\ StartCall(d, [op |-> "closeLoad", shift |-> s, counted |-> counted])
    /\ UNCHANGED shift
    /\ LedgerUntouched

CloseLoad(d) ==
    LET h == desk[d] IN
    /\ h.op = "closeLoad"
    /\ desk' = [desk EXCEPT ![d] = [op |-> "close", shift |-> h.shift,
                        counted |-> h.counted, expected |-> Drawer(h.shift)]]
    /\ UNCHANGED shift
    /\ LedgerUntouched

StatusForVariance(counted, expected) ==
    IF counted = expected THEN "BALANCED" ELSE "CLOSED"

ClosedRow(s, counted, expected) ==
    [shift[s] EXCEPT !.closing = counted, !.expected = expected,
                     !.status = StatusForVariance(counted, expected)]

CloseShift(d) ==
    LET h == desk[d] IN
    /\ h.op = "close"
    /\ shift' = [shift EXCEPT ![h.shift] = ClosedRow(h.shift, h.counted, h.expected)]
    /\ EndCall(d)
    /\ LedgerUntouched

-----------------------------------------------------------------------------
(* approve *)

\* Mutant: anyone with the permission may approve, the cashier included.
ApproverAllowedSelf(u, s) == u \in Approvers

ApproverAllowed(u, s) ==
    /\ u \in Approvers
    /\ u = shift[s].user => u \in SuperAdmins

ApproveRead(d, s, u) ==
    /\ shift[s].status = "CLOSED"
    /\ ApproverAllowed(u, s)
    /\ StartCall(d, [op |-> "approve", shift |-> s, user |-> u])
    /\ UNCHANGED shift
    /\ LedgerUntouched

ApproveCommit(d) ==
    LET h == desk[d] IN
    /\ h.op = "approve"
    /\ shift' = [shift EXCEPT ![h.shift].status = "BALANCED",
                              ![h.shift].approvedBy = h.user]
    /\ EndCall(d)
    /\ LedgerUntouched

-----------------------------------------------------------------------------
(* handover: the outgoing shift is read before the transaction; inside it  *)
(* the checks still read what others committed meanwhile (READ COMMITTED), *)
(* and the two writes become visible together.                             *)

HandoverRead(d, s, to, counted) ==
    /\ shift[s].status = "OPEN"
    /\ StartCall(d, [op |-> "handoverCheck", shift |-> s, to |-> to, counted |-> counted])
    /\ UNCHANGED shift
    /\ LedgerUntouched

HandoverCheck(d) ==
    /\ desk[d].op = "handoverCheck"
    /\ OpenShiftsOf(desk[d].to) = {}
    /\ desk' = [desk EXCEPT ![d] = [op |-> "handoverLoad", shift |-> desk[d].shift,
                                    to |-> desk[d].to, counted |-> desk[d].counted]]
    /\ UNCHANGED shift
    /\ LedgerUntouched

HandoverLoad(d) ==
    LET h == desk[d] IN
    /\ h.op = "handoverLoad"
    /\ desk' = [desk EXCEPT ![d] = [op |-> "handover", shift |-> h.shift, to |-> h.to,
                        counted |-> h.counted, expected |-> Drawer(h.shift)]]
    /\ UNCHANGED shift
    /\ LedgerUntouched

\* Mutant: the successor opens with the cash the books expect, not the cash
\* that was counted.
HandoverExpectedCash(d) ==
    LET h == desk[d]
        next == NextShiftNumber
    IN
    /\ h.op = "handover"
    /\ next \in Shifts /\ ~Created(next)
    /\ shift' = [shift EXCEPT
            ![h.shift] = ClosedRow(h.shift, h.counted, h.expected),
            ![next] = [NoRow EXCEPT !.user = h.to, !.status = "OPEN",
                                    !.opening = h.expected, !.from = h.shift]]
    /\ EndCall(d)
    /\ LedgerUntouched

HandoverCommit(d) ==
    LET h == desk[d]
        next == NextShiftNumber
    IN
    /\ h.op = "handover"
    /\ next \in Shifts /\ ~Created(next)
    /\ shift' = [shift EXCEPT
            ![h.shift] = ClosedRow(h.shift, h.counted, h.expected),
            ![next] = [NoRow EXCEPT !.user = h.to, !.status = "OPEN",
                                    !.opening = h.counted, !.from = h.shift]]
    /\ EndCall(d)
    /\ LedgerUntouched

-----------------------------------------------------------------------------
ShiftCall(d) ==
    \/ \E u \in Cashiers, cash \in CashCounts : OpenCheck(d, u, cash)
    \/ OpenCount(d) \/ OpenCreate(d)
    \/ \E s \in Shifts, counted \in CashCounts : CloseRead(d, s, counted)
    \/ CloseLoad(d) \/ CloseShift(d)
    \/ \E s \in Shifts, u \in Cashiers : ApproveRead(d, s, u)
    \/ ApproveCommit(d)
    \/ \E s \in Shifts, to \in Cashiers, counted \in CashCounts :
            HandoverRead(d, s, to, counted)
    \/ HandoverCheck(d) \/ HandoverLoad(d) \/ HandoverCommit(d)
    \/ FailCall(d)

\* Only postings and voids meet a shift; the ledger's other calls are left to
\* its own module.
LedgerCall(r) == CreateRead(r) \/ CreateCommit(r) \/ Post(r) \/ Void(r) \/ Fail(r)

ShiftsNext ==
    \/ \E r \in Requests : LedgerCall(r) /\ UNCHANGED desk
    \/ \E d \in Desks : ShiftCall(d)

ShiftsSpec == ShiftsInit /\ [][ShiftsNext]_shiftsVars

\* One call at a time: what the code promises when nobody races.
OneCallInFlight ==
    /\ \A r, q \in Requests : req[r] # Idle /\ req[q] # Idle => r = q
    /\ \A d, e \in Desks : desk[d] # Idle /\ desk[e] # Idle => d = e
    /\ \A r \in Requests, d \in Desks : req[r] = Idle \/ desk[d] = Idle

SerialSpec == ShiftsInit /\ [][ShiftsNext /\ OneCallInFlight']_shiftsVars

-----------------------------------------------------------------------------
(* What the shifts promise *)

\* Every row a cashier wrote carries a shift of that very cashier, and what
\* SYSTEM wrote carries none: a correction is charged to the drawer of who
\* voids, never to the drawer of who posted (ADR 003, 3).
RowsOnOwnShift ==
    \A i \in DOMAIN trx :
        LET s == trx[i].shift IN
        IF trx[i].user = SYSTEM THEN s = NoShift
        ELSE s \in Shifts /\ shift[s].user = trx[i].user

\* However closings and approvals race, a shift only counts as balanced if
\* the count met the books or somebody entitled to signed for it.
BalancedIsJustified ==
    \A s \in Shifts : shift[s].status = "BALANCED" =>
        \/ shift[s].closing = shift[s].expected
        \/ /\ shift[s].approvedBy \in Approvers
           /\ shift[s].approvedBy # shift[s].user \/ shift[s].user \in SuperAdmins

\* ADR 003, 5: "No reopen. No delete."
NeverReopened ==
    [][\A s \in Shifts : /\ Created(s) => Created(s)'
                         /\ shift[s].status \in {"CLOSED", "BALANCED"} =>
                                shift'[s].status # "OPEN"]_shift

\* One call at a time: the expected cash a closing stored is still what the
\* rows on the shift add up to, whatever is posted or voided afterwards.
SnapshotIsDrawer ==
    \A s \in Shifts : shift[s].status \in {"CLOSED", "BALANCED"} =>
        shift[s].expected = shift[s].opening
            - SumFunctionOnSet([i \in DOMAIN trx |-> trx[i].sign * trx[i].amount],
                  {i \in DOMAIN trx : trx[i].shift = s /\ trx[i].code = "9000"})

\* One call at a time: a handover passes on exactly the cash that was counted.
HandoverConservesCash ==
    \A s \in Shifts : shift[s].from # NoShift =>
        shift[s].opening = shift[shift[s].from].closing

\* ADR 003, 5: "Cannot post to CLOSED / BALANCED."
NoRowOnClosedShift ==
    [][\A i \in DOMAIN trx' \ DOMAIN trx :
            trx'[i].shift # NoShift => shift[trx'[i].shift].status = "OPEN"]_trx

=============================================================================
