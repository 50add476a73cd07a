------------------------ MODULE CashierShiftsProofs ------------------------
(***************************************************************************)
(* What holds of the shifts for any number of desks, requests, users and   *)
(* shifts. The inductive invariant is Drawers: a row is on its writer's    *)
(* shift because the handler that wrote it had resolved that very shift,   *)
(* and because the user of a shift that exists never changes, whichever    *)
(* handlers write the shift meanwhile. Amounts play no part in it. Serial  *)
(* is the one for calls that do not race: a closed shift expects what its  *)
(* drawer came to, and keeps it, because nobody still carries that shift.  *)
(***************************************************************************)
EXTENDS CashierShifts, FolioLedgerProofs

\* A record with the columns of a shift; nothing is said of their values.
HasColumns(x) ==
    x \in [user : {x.user}, status : {x.status}, opening : {x.opening},
           expected : {x.expected}, closing : {x.closing},
           approvedBy : {x.approvedBy}, from : {x.from}]

ShiftTable == shift = [s \in Shifts |-> shift[s]] /\ \A s \in Shifts : HasColumns(shift[s])

DeskTable == desk = [d \in Desks |-> desk[d]]

Owns(u, s) == IF u = SYSTEM THEN s = NoShift ELSE s \in Shifts /\ shift[s].user = u

\* A shift that was not opened belongs to nobody and is not closed.
BlankUntilOpened == \A s \in Shifts : ~Created(s) => shift[s].user = NoUser

\* A handler about to write carries a shift of its user.
HandlersOwn ==
    \A r \in Requests :
        req[r].op \in {"postCredit", "post", "void"} => Owns(req[r].user, req[r].shift)

Closers == {"closeLoad", "close", "handoverCheck", "handoverLoad", "handover"}
OnShift == Closers \cup {"approve"}

\* A desk works on a shift that exists, and only the entitled approve.
DesksRefer ==
    \A d \in Desks :
        /\ desk[d].op \in OnShift => desk[d].shift \in Shifts /\ Created(desk[d].shift)
        /\ desk[d].op = "approve" => ApproverAllowed(desk[d].user, desk[d].shift)

Tables == ShiftTable /\ DeskTable /\ BlankUntilOpened /\ DesksRefer

Drawers ==
    /\ TypeOK
    /\ Tables
    /\ HandlersOwn
    /\ RowsOnOwnShift
    /\ BalancedIsJustified

-----------------------------------------------------------------------------
(* Writing the shift table. *)

\* What every writer of the shift table respects.
Respects ==
    \A s \in Shifts :
        Created(s) => /\ Created(s)'
                      /\ shift'[s].user = shift[s].user
                      /\ shift[s].status \in {"CLOSED", "BALANCED"} => shift'[s].status # "OPEN"

\* The blank row has the columns of a shift.
LEMMA BlankRow ==
    NoRow \in [user : {NoUser}, status : {"NONE"}, opening : {0}, expected : {0},
              closing : {0}, approvedBy : {NoUser}, from : {NoShift}]
  BY DEF NoRow

\* A closing keeps the shift's user and leaves it closed, or balanced when
\* the count met the books.
LEMMA ClosedRowEffect ==
    ASSUME ShiftTable, NEW s \in Shifts, NEW counted, NEW expected
    PROVE  LET x == ClosedRow(s, counted, expected) IN
           /\ HasColumns(x) /\ x.user = shift[s].user
           /\ x.status \in {"CLOSED", "BALANCED"}
           /\ x.status = "BALANCED" => x.closing = x.expected
           /\ x.opening = shift[s].opening /\ x.from = shift[s].from
           /\ x.closing = counted /\ x.expected = expected
  <1>1. HasColumns(shift[s])
    BY DEF ShiftTable
  <1>2. StatusForVariance(counted, expected) \in {"CLOSED", "BALANCED"}
        /\ (StatusForVariance(counted, expected) = "BALANCED" => counted = expected)
    BY DEF StatusForVariance
  <1> QED
    BY <1>1, <1>2 DEF ClosedRow, HasColumns

\* What a writer does that puts x in the place of one row.
LEMMA PutRow ==
    ASSUME ShiftTable, NEW s \in Shifts, NEW x, HasColumns(x),
           shift' = [shift EXCEPT ![s] = x]
    PROVE  /\ ShiftTable'
           /\ \A q \in Shifts : shift'[q] = IF q = s THEN x ELSE shift[q]
  <1>1. \A q \in Shifts : shift'[q] = IF q = s THEN x ELSE shift[q]
    BY DEF ShiftTable
  <1>2. shift' = [q \in Shifts |-> shift'[q]]
    BY DEF ShiftTable
  <1>3. \A q \in Shifts : HasColumns(shift'[q])
    <2> TAKE q \in Shifts
    <2>1. CASE q = s
      BY <1>1, <2>1
    <2>2. CASE q # s
      BY <1>1, <2>2 DEF ShiftTable
    <2> QED
      BY <2>1, <2>2
  <1>4. ShiftTable'
    BY <1>2, <1>3 DEF ShiftTable, HasColumns
  <1> QED
    BY <1>1, <1>4

\* open inserts a row where there was none.
LEMMA OpenCreateEffect ==
    ASSUME Tables, BalancedIsJustified, NEW d \in Desks, OpenCreate(d)
    PROVE  ShiftTable' /\ Respects /\ BlankUntilOpened' /\ BalancedIsJustified'
  <1> DEFINE s == desk[d].number
             x == [NoRow EXCEPT !.user = desk[d].user, !.status = "OPEN",
                                !.opening = desk[d].cash]
  <1>1. s \in Shifts /\ ~Created(s) /\ shift' = [shift EXCEPT ![s] = x]
    BY DEF OpenCreate
  <1>2. HasColumns(x) /\ x.status = "OPEN"
    BY BlankRow DEF HasColumns
  <1> HIDE DEF x, s
  <1>3. ShiftTable' /\ \A q \in Shifts : shift'[q] = IF q = s THEN x ELSE shift[q]
    BY <1>1, <1>2, PutRow DEF Tables
  <1>6. Respects
    BY <1>1, <1>2, <1>3 DEF Respects, Created
  <1>7. BlankUntilOpened'
    BY <1>1, <1>2, <1>3 DEF Tables, BlankUntilOpened, Created
  <1>8. BalancedIsJustified'
    BY <1>1, <1>2, <1>3 DEF BalancedIsJustified
  <1> QED
    BY <1>3, <1>6, <1>7, <1>8

\* A closing writes over a shift that exists, whatever became of it since.
LEMMA CloseShiftEffect ==
    ASSUME Tables, BalancedIsJustified, NEW d \in Desks, CloseShift(d)
    PROVE  ShiftTable' /\ Respects /\ BlankUntilOpened' /\ BalancedIsJustified'
  <1> DEFINE s == desk[d].shift
             x == ClosedRow(s, desk[d].counted, desk[d].expected)
  <1>1. s \in Shifts /\ Created(s) /\ shift' = [shift EXCEPT ![s] = x]
    BY DEF CloseShift, Tables, DesksRefer, OnShift, Closers
  <1>2. /\ HasColumns(x) /\ x.user = shift[s].user
        /\ x.status \in {"CLOSED", "BALANCED"}
        /\ x.status = "BALANCED" => x.closing = x.expected
    BY <1>1, ClosedRowEffect DEF Tables
  <1> HIDE DEF x, s
  <1>3. ShiftTable' /\ \A q \in Shifts : shift'[q] = IF q = s THEN x ELSE shift[q]
    BY <1>1, <1>2, PutRow DEF Tables
  <1>6. Respects
    BY <1>1, <1>2, <1>3 DEF Respects, Created
  <1>7. BlankUntilOpened'
    BY <1>1, <1>2, <1>3 DEF Tables, BlankUntilOpened, Created
  <1>8. BalancedIsJustified'
    BY <1>2, <1>3 DEF BalancedIsJustified
  <1> QED
    BY <1>3, <1>6, <1>7, <1>8

\* An approval signs with a user who was entitled when the handler read the
\* shift, and still is, because the shift's user has not changed.
LEMMA ApproveEffect ==
    ASSUME Tables, BalancedIsJustified, NEW d \in Desks, ApproveCommit(d)
    PROVE  ShiftTable' /\ Respects /\ BlankUntilOpened' /\ BalancedIsJustified'
  <1> DEFINE s == desk[d].shift
             x == [shift[s] EXCEPT !.status = "BALANCED", !.approvedBy = desk[d].user]
  <1>1. /\ s \in Shifts /\ Created(s) /\ ApproverAllowed(desk[d].user, s)
        /\ shift = [q \in Shifts |-> shift[q]]
    BY DEF ApproveCommit, Tables, DesksRefer, OnShift, Closers, ShiftTable
  <1>2. shift' = [shift EXCEPT ![s] = x]
    BY <1>1 DEF ApproveCommit
  <1>4. /\ HasColumns(x) /\ x.user = shift[s].user /\ x.status = "BALANCED"
        /\ x.approvedBy = desk[d].user
    BY <1>1 DEF Tables, ShiftTable, HasColumns
  <1> HIDE DEF x, s
  <1>3. ShiftTable' /\ \A q \in Shifts : shift'[q] = IF q = s THEN x ELSE shift[q]
    BY <1>1, <1>2, <1>4, PutRow DEF Tables
  <1>6. Respects
    BY <1>1, <1>4, <1>3 DEF Respects, Created
  <1>7. BlankUntilOpened'
    BY <1>1, <1>4, <1>3 DEF Tables, BlankUntilOpened, Created
  <1>8. BalancedIsJustified'
    BY <1>1, <1>3, <1>4 DEF BalancedIsJustified, ApproverAllowed
  <1> QED
    BY <1>3, <1>6, <1>7, <1>8

\* A handover closes a shift that exists and inserts a row where there was none.
LEMMA HandoverEffect ==
    ASSUME Tables, BalancedIsJustified, NEW d \in Desks, HandoverCommit(d)
    PROVE  ShiftTable' /\ Respects /\ BlankUntilOpened' /\ BalancedIsJustified'
  <1> DEFINE s == desk[d].shift
             n == NextShiftNumber
             x == ClosedRow(s, desk[d].counted, desk[d].expected)
             y == [NoRow EXCEPT !.user = desk[d].to, !.status = "OPEN",
                                !.opening = desk[d].counted, !.from = s]
  <1>1. /\ s \in Shifts /\ Created(s) /\ n \in Shifts /\ ~Created(n)
        /\ shift' = [shift EXCEPT ![s] = x, ![n] = y]
    BY DEF HandoverCommit, Tables, DesksRefer, OnShift, Closers
  <1>2. /\ HasColumns(x) /\ x.user = shift[s].user
        /\ x.status \in {"CLOSED", "BALANCED"}
        /\ x.status = "BALANCED" => x.closing = x.expected
    BY <1>1, ClosedRowEffect DEF Tables
  <1>4. HasColumns(y) /\ y.status = "OPEN"
    BY BlankRow DEF HasColumns
  <1>5. shift = [q \in Shifts |-> shift[q]] /\ \A q \in Shifts : HasColumns(shift[q])
    BY DEF Tables, ShiftTable
  <1> HIDE DEF x, y, s, n
  <1>9. s # n
    BY <1>1
  <1>3. \A q \in Shifts : shift'[q] = IF q = n THEN y ELSE IF q = s THEN x ELSE shift[q]
    BY <1>1, <1>5, <1>9
  <1>10. ShiftTable'
    <2>1. shift' = [q \in Shifts |-> shift'[q]]
      BY <1>1, <1>5
    <2>2. \A q \in Shifts : HasColumns(shift'[q])
      BY <1>2, <1>3, <1>4, <1>5
    <2> QED
      BY <2>1, <2>2 DEF ShiftTable, HasColumns
  <1>6. Respects
    BY <1>1, <1>2, <1>3, <1>4, <1>9 DEF Respects, Created
  <1>7. BlankUntilOpened'
    BY <1>1, <1>2, <1>3, <1>4 DEF Tables, BlankUntilOpened, Created
  <1>8. BalancedIsJustified'
    BY <1>2, <1>3, <1>4 DEF BalancedIsJustified
  <1> QED
    BY <1>6, <1>7, <1>8, <1>10

\* The steps of a desk that only read, or end a call without a write.
DeskReader(d) ==
    \/ \E u \in Cashiers, cash \in CashCounts : OpenCheck(d, u, cash)
    \/ OpenCount(d)
    \/ \E s \in Shifts, counted \in CashCounts : CloseRead(d, s, counted)
    \/ CloseLoad(d)
    \/ \E s \in Shifts, u \in Cashiers : ApproveRead(d, s, u)
    \/ \E s \in Shifts, to \in Cashiers, counted \in CashCounts :
            HandoverRead(d, s, to, counted)
    \/ HandoverCheck(d) \/ HandoverLoad(d)
    \/ FailCall(d)

DeskWriter(d) == OpenCreate(d) \/ CloseShift(d) \/ ApproveCommit(d) \/ HandoverCommit(d)

\* What a desk may carry after a step: a shift that exists, an approval only
\* of somebody entitled to it.
Carries(h) ==
    /\ h.op \in OnShift => h.shift \in Shifts /\ Created(h.shift)
    /\ h.op = "approve" => ApproverAllowed(h.user, h.shift)

\* What a call carries while nobody races it: an open shift to close and the
\* drawer's present balance, or a closed shift to approve.
Current(h) ==
    /\ h.op \in Closers => shift[h.shift].status = "OPEN"
    /\ h.op \in {"close", "handover"} => h.expected = Drawer(h.shift)
    /\ h.op = "approve" => shift[h.shift].status = "CLOSED"

\* A reading step leaves the shifts alone, takes up what it may carry, and
\* takes nothing outdated up itself.
LEMMA DesksRead ==
    ASSUME Tables, NEW d \in Desks, DeskReader(d)
    PROVE  /\ UNCHANGED shift /\ LedgerUntouched
           /\ \E h : /\ desk' = [desk EXCEPT ![d] = h]
                  /\ Carries(h) /\ (Current(desk[d]) => Current(h))
  <1> USE DEF OnShift, Closers, Carries, Current
  <1> DEFINE Fits(h) == Carries(h) /\ (Current(desk[d]) => Current(h))
  <1>1. ASSUME NEW u, NEW cash, OpenCheck(d, u, cash)
        PROVE  /\ UNCHANGED shift /\ LedgerUntouched
               /\ \E h : desk' = [desk EXCEPT ![d] = h] /\ Fits(h)
    <2> DEFINE h == [op |-> "openCount", user |-> u, cash |-> cash]
    <2>1. Fits(h) /\ desk' = [desk EXCEPT ![d] = h] /\ UNCHANGED shift /\ LedgerUntouched
      BY <1>1 DEF OpenCheck, StartCall
    <2> HIDE DEF h, Fits
    <2> QED
      BY <2>1
  <1>2. ASSUME OpenCount(d)
        PROVE  /\ UNCHANGED shift /\ LedgerUntouched
               /\ \E h : desk' = [desk EXCEPT ![d] = h] /\ Fits(h)
    <2> DEFINE h == [op |-> "open", user |-> desk[d].user, cash |-> desk[d].cash,
                     number |-> NextShiftNumber]
    <2>1. Fits(h) /\ desk' = [desk EXCEPT ![d] = h] /\ UNCHANGED shift /\ LedgerUntouched
      BY <1>2 DEF OpenCount
    <2> HIDE DEF h, Fits
    <2> QED
      BY <2>1
  <1>3. ASSUME NEW s \in Shifts, NEW counted, CloseRead(d, s, counted)
        PROVE  /\ UNCHANGED shift /\ LedgerUntouched
               /\ \E h : desk' = [desk EXCEPT ![d] = h] /\ Fits(h)
    <2> DEFINE h == [op |-> "closeLoad", shift |-> s, counted |-> counted]
    <2>1. Fits(h) /\ desk' = [desk EXCEPT ![d] = h] /\ UNCHANGED shift /\ LedgerUntouched
      BY <1>3 DEF CloseRead, StartCall, Created
    <2> HIDE DEF h, Fits
    <2> QED
      BY <2>1
  <1>4. ASSUME CloseLoad(d)
        PROVE  /\ UNCHANGED shift /\ LedgerUntouched
               /\ \E h : desk' = [desk EXCEPT ![d] = h] /\ Fits(h)
    <2> DEFINE h == [op |-> "close", shift |-> desk[d].shift, counted |-> desk[d].counted,
                     expected |-> Drawer(desk[d].shift)]
    <2>1. Fits(h) /\ desk' = [desk EXCEPT ![d] = h] /\ UNCHANGED shift /\ LedgerUntouched
      BY <1>4 DEF CloseLoad, Tables, DesksRefer
    <2> HIDE DEF h, Fits
    <2> QED
      BY <2>1
  <1>5. ASSUME NEW s \in Shifts, NEW u, ApproveRead(d, s, u)
        PROVE  /\ UNCHANGED shift /\ LedgerUntouched
               /\ \E h : desk' = [desk EXCEPT ![d] = h] /\ Fits(h)
    <2> DEFINE h == [op |-> "approve", shift |-> s, user |-> u]
    <2>1. Fits(h) /\ desk' = [desk EXCEPT ![d] = h] /\ UNCHANGED shift /\ LedgerUntouched
      BY <1>5 DEF ApproveRead, StartCall, Created
    <2> HIDE DEF h, Fits
    <2> QED
      BY <2>1
  <1>6. ASSUME NEW s \in Shifts, NEW to, NEW counted, HandoverRead(d, s, to, counted)
        PROVE  /\ UNCHANGED shift /\ LedgerUntouched
               /\ \E h : desk' = [desk EXCEPT ![d] = h] /\ Fits(h)
    <2> DEFINE h == [op |-> "handoverCheck", shift |-> s, to |-> to, counted |-> counted]
    <2>1. Fits(h) /\ desk' = [desk EXCEPT ![d] = h] /\ UNCHANGED shift /\ LedgerUntouched
      BY <1>6 DEF HandoverRead, StartCall, Created
    <2> HIDE DEF h, Fits
    <2> QED
      BY <2>1
  <1>7. ASSUME HandoverCheck(d)
        PROVE  /\ UNCHANGED shift /\ LedgerUntouched
               /\ \E h : desk' = [desk EXCEPT ![d] = h] /\ Fits(h)
    <2> DEFINE h == [op |-> "handoverLoad", shift |-> desk[d].shift, to |-> desk[d].to,
                     counted |-> desk[d].counted]
    <2>1. Fits(h) /\ desk' = [desk EXCEPT ![d] = h] /\ UNCHANGED shift /\ LedgerUntouched
      BY <1>7 DEF HandoverCheck, Tables, DesksRefer
    <2> HIDE DEF h, Fits
    <2> QED
      BY <2>1
  <1>8. ASSUME HandoverLoad(d)
        PROVE  /\ UNCHANGED shift /\ LedgerUntouched
               /\ \E h : desk' = [desk EXCEPT ![d] = h] /\ Fits(h)
    <2> DEFINE h == [op |-> "handover", shift |-> desk[d].shift, to |-> desk[d].to,
                     counted |-> desk[d].counted, expected |-> Drawer(desk[d].shift)]
    <2>1. Fits(h) /\ desk' = [desk EXCEPT ![d] = h] /\ UNCHANGED shift /\ LedgerUntouched
      BY <1>8 DEF HandoverLoad, Tables, DesksRefer
    <2> HIDE DEF h, Fits
    <2> QED
      BY <2>1
  <1>9. ASSUME FailCall(d)
        PROVE  /\ UNCHANGED shift /\ LedgerUntouched
               /\ \E h : desk' = [desk EXCEPT ![d] = h] /\ Fits(h)
    <2>1. Fits(Idle) /\ desk' = [desk EXCEPT ![d] = Idle] /\ UNCHANGED shift /\ LedgerUntouched
      BY <1>9 DEF FailCall, EndCall, Idle
    <2> QED
      BY <2>1
  <1> QED
    BY <1>1, <1>2, <1>3, <1>4, <1>5, <1>6, <1>7, <1>8, <1>9 DEF DeskReader

\* A writing step keeps the shift table in order and ends the desk's call.
LEMMA DesksWrite ==
    ASSUME Tables, BalancedIsJustified, NEW d \in Desks, DeskWriter(d)
    PROVE  /\ ShiftTable' /\ Respects /\ BlankUntilOpened' /\ BalancedIsJustified'
           /\ LedgerUntouched /\ EndCall(d)
  <1>1. LedgerUntouched /\ EndCall(d)
    BY DEF DeskWriter, OpenCreate, CloseShift, ApproveCommit, HandoverCommit
  <1> QED
    BY <1>1, OpenCreateEffect, CloseShiftEffect, ApproveEffect, HandoverEffect DEF DeskWriter

-----------------------------------------------------------------------------
(* Desks keep what the rows rely on. *)

\* A shift somebody owns exists, so while its user is kept it stays theirs.
LEMMA OwnershipKept ==
    ASSUME BlankUntilOpened, Respects, NEW u \in Users, NEW s, Owns(u, s)
    PROVE  Owns(u, s)'
  <1>1. CASE u = SYSTEM
    BY <1>1 DEF Owns
  <1>2. CASE u # SYSTEM
    <2>1. u # NoUser
      BY ShiftsAssumption
    <2>2. Created(s)
      BY <1>2, <2>1 DEF Owns, BlankUntilOpened
    <2> QED
      BY <1>2, <2>2 DEF Owns, Respects
  <1> QED
    BY <1>1, <1>2

\* While users are kept, so is everything that speaks of the ledger's rows
\* and of the calls in flight.
LEMMA RespectKeepsRows ==
    ASSUME TypeOK, Tables, HandlersOwn, RowsOnOwnShift, Respects, LedgerUntouched
    PROVE  TypeOK' /\ HandlersOwn' /\ RowsOnOwnShift'
  <1>1. TypeOK'
    BY DEF TypeOK, LedgerUntouched
  <1>2. \A r \in Requests : req[r].op \in {"postCredit", "post", "void"} => req[r].user \in Users
    BY PostingFields, VoidFields DEF TypeOK
  <1>3. HandlersOwn'
    BY <1>2, OwnershipKept DEF HandlersOwn, LedgerUntouched, Tables
  <1>4. \A i \in DOMAIN trx : trx[i].user \in Users
    <2>1. \A i \in DOMAIN trx : trx[i] \in Row
      BY ElementOfSeq DEF TypeOK
    <2> QED
      BY <2>1 DEF Row
  <1>5. \A i \in DOMAIN trx : Owns(trx[i].user, trx[i].shift)
    BY DEF RowsOnOwnShift, Owns
  <1>6. \A i \in DOMAIN trx : Owns(trx[i].user, trx[i].shift)'
    BY <1>4, <1>5, OwnershipKept DEF LedgerUntouched, Tables
  <1>7. RowsOnOwnShift'
    BY <1>6 DEF RowsOnOwnShift, Owns, LedgerUntouched
  <1> QED
    BY <1>1, <1>3, <1>7

\* Writers never disturb what another desk carries.
LEMMA RespectKeepsDesks ==
    ASSUME Tables, Respects, NEW d \in Desks, NEW h,
           desk' = [desk EXCEPT ![d] = h],
           h.op \in OnShift => h.shift \in Shifts /\ Created(h.shift)',
           h.op = "approve" => ApproverAllowed(h.user, h.shift)'
    PROVE  DeskTable' /\ DesksRefer'
  <1>1. \A e \in Desks : desk'[e] = IF e = d THEN h ELSE desk[e]
    BY DEF Tables, DeskTable
  <1>2. DeskTable'
    BY DEF Tables, DeskTable
  <1>3. ASSUME NEW e \in Desks
        PROVE  /\ desk'[e].op \in OnShift =>
                    desk'[e].shift \in Shifts /\ shift'[desk'[e].shift].status # "NONE"
               /\ desk'[e].op = "approve" => ApproverAllowed(desk[e].user, desk[e].shift)'
    <2>1. CASE e = d
      BY <1>1, <2>1 DEF Created, ApproverAllowed
    <2>2. CASE e # d
      <3>1. desk'[e] = desk[e]
        BY <1>1, <2>2
      <3>2. desk[e].op \in OnShift => /\ desk[e].shift \in Shifts
                                      /\ shift'[desk[e].shift].status # "NONE"
                                      /\ shift'[desk[e].shift].user = shift[desk[e].shift].user
        BY DEF Tables, DesksRefer, Respects, Created
      <3>3. desk[e].op = "approve" => ApproverAllowed(desk[e].user, desk[e].shift)'
        BY <3>1, <3>2 DEF Tables, DesksRefer, OnShift, Closers, ApproverAllowed
      <3> QED
        BY <3>1, <3>2, <3>3
    <2> QED
      BY <2>1, <2>2
  <1>4. DesksRefer'
    BY <1>3 DEF DesksRefer, Created
  <1> QED
    BY <1>2, <1>4

\* Every step of a desk keeps the invariant.
LEMMA DeskStep ==
    ASSUME Drawers, NEW d \in Desks, ShiftCall(d)
    PROVE  Drawers' /\ Respects
  <1>0. Tables /\ TypeOK /\ HandlersOwn /\ RowsOnOwnShift /\ BalancedIsJustified
    BY DEF Drawers
  <1>1. CASE DeskReader(d)
    <2>1. UNCHANGED shift /\ LedgerUntouched
      BY <1>0, <1>1, DesksRead
    <2>2. PICK h : desk' = [desk EXCEPT ![d] = h] /\ Carries(h)
      BY <1>0, <1>1, DesksRead
    <2>3. Respects
      BY <2>1 DEF Respects, Created
    <2>4. ShiftTable' /\ BlankUntilOpened' /\ BalancedIsJustified'
      BY <1>0, <2>1 DEF Tables, ShiftTable, BlankUntilOpened, BalancedIsJustified, Created
    <2>5. DeskTable' /\ DesksRefer'
      BY <1>0, <2>1, <2>2, <2>3, RespectKeepsDesks DEF Carries, Created, ApproverAllowed
    <2>6. TypeOK' /\ HandlersOwn' /\ RowsOnOwnShift'
      BY <1>0, <2>1, <2>3, RespectKeepsRows
    <2> QED
      BY <2>3, <2>4, <2>5, <2>6 DEF Drawers, Tables
  <1>2. CASE DeskWriter(d)
    <2>1. /\ ShiftTable' /\ Respects /\ BlankUntilOpened' /\ BalancedIsJustified'
          /\ LedgerUntouched /\ EndCall(d)
      BY <1>0, <1>2, DesksWrite
    <2>2. desk' = [desk EXCEPT ![d] = Idle] /\ Idle.op = "idle"
      BY <2>1 DEF EndCall, Idle
    <2>3. DeskTable' /\ DesksRefer'
      BY <1>0, <2>1, <2>2, RespectKeepsDesks DEF OnShift, Closers
    <2>4. TypeOK' /\ HandlersOwn' /\ RowsOnOwnShift'
      BY <1>0, <2>1, RespectKeepsRows
    <2> QED
      BY <2>1, <2>3, <2>4 DEF Drawers, Tables
  <1> QED
    BY <1>1, <1>2 DEF ShiftCall, DeskReader, DeskWriter

-----------------------------------------------------------------------------
(* The ledger beside the desks. *)

\* The ledger's calls leave the shifts alone.
LEMMA LedgerLeavesShifts ==
    ASSUME NEW r \in Requests, LedgerCall(r)
    PROVE  UNCHANGED shift
  BY DEF LedgerCall, Post, Void, CreateRead, CreateCommit, Fail, PostRead,
     PostResolveShift, PostCheckCredit, PostCommit, VoidRead, VoidResolveShift, VoidCommit

\* A posting writes its rows for the user and on the shift it has resolved.
LEMMA PostedRows ==
    ASSUME TypeOK, NEW r \in Requests, PostCommit(r)
    PROVE  /\ Len(trx) \in Nat /\ trx' \in Seq(Row) /\ Len(trx') \in Nat
           /\ \A i \in 1..Len(trx) : trx'[i] = trx[i]
           /\ \A i \in 1..Len(trx') : i > Len(trx) =>
                    trx'[i].user = req[r].user /\ trx'[i].shift = req[r].shift
  <1> DEFINE h == req[r]
             rows == RowsFor(h.folio, h.window, h.user, h.shift, h.lines)
  <1>1. /\ h.folio \in Folios /\ h.window \in Windows /\ h.user \in Users
        /\ h.lines \in Seq(Line) /\ h.shift \in ShiftRef
        /\ PersistPostingLines(h.folio, h.window, h.user, h.shift, h.lines)
    BY PostingFields, LinesAssumption DEF TypeOK, PostCommit
  <1>2. trx \in Seq(Row) /\ trx' = trx \o rows
    BY <1>1 DEF TypeOK, PersistPostingLines
  <1>3. rows \in Seq(Row) /\ Len(rows) = Len(h.lines) /\ Len(h.lines) \in Nat
    <2> HIDE DEF h
    <2> QED
      BY <1>1, LinesTyped
  <1>4. \A i \in 1..Len(h.lines) : rows[i].user = h.user /\ rows[i].shift = h.shift
    BY DEF RowsFor
  <1> HIDE DEF rows
  <1>5. /\ trx' \in Seq(Row)
        /\ Len(trx') = Len(trx) + Len(rows)
        /\ \A i \in 1..Len(trx) + Len(rows) :
                trx'[i] = IF i <= Len(trx) THEN trx[i] ELSE rows[i - Len(trx)]
    BY <1>2, <1>3, ConcatProperties
  <1>6. Len(trx) \in Nat
    BY <1>2
  <1>7. ASSUME NEW i \in 1..Len(trx'), i > Len(trx)
        PROVE  trx'[i].user = h.user /\ trx'[i].shift = h.shift
    <2>1. i - Len(trx) \in 1..Len(h.lines) /\ trx'[i] = rows[i - Len(trx)]
      BY <1>3, <1>5, <1>6, <1>7
    <2> QED
      BY <1>4, <2>1
  <1> QED
    BY <1>3, <1>5, <1>6, <1>7

\* A void keeps who wrote a row and appends its own for its user and shift.
LEMMA VoidedRows ==
    ASSUME TypeOK, NEW r \in Requests, VoidCommit(r)
    PROVE  /\ Len(trx) \in Nat /\ trx' \in Seq(Row) /\ Len(trx') = Len(trx) + 1
           /\ \A i \in 1..Len(trx) :
                trx'[i].user = trx[i].user /\ trx'[i].shift = trx[i].shift
           /\ trx'[Len(trx) + 1].user = req[r].user
           /\ trx'[Len(trx) + 1].shift = req[r].shift
  <1> DEFINE t == req[r].trx
             new == Correction(t, req[r].user, req[r].shift)
             n == Len(trx) + 1
  <1>1. /\ t \in 1..Len(trx) /\ Len(trx) \in Nat
        /\ trx' \in Seq(Row) /\ Len(trx') = n /\ trx'[n] = new
        /\ \A i \in 1..Len(trx) :
                trx'[i] = IF i = t THEN [trx[i] EXCEPT !.void = TRUE, !.related = n]
                          ELSE trx[i]
    BY VoidEffect
  <1>2. \A i \in 1..Len(trx) : trx[i] \in Row
    BY ElementOfSeq DEF TypeOK
  <1>3. new.user = req[r].user /\ new.shift = req[r].shift
    <2>1. trx[t] \in Row
      BY <1>1, <1>2
    <2> QED
      BY <2>1 DEF Correction, Row
  <1>4. \A x \in Row : LET y == [x EXCEPT !.void = TRUE, !.related = n] IN
                       y.user = x.user /\ y.shift = x.shift
    BY DEF Row
  <1> HIDE DEF t, new, n
  <1>5. ASSUME NEW i \in 1..Len(trx)
        PROVE  trx'[i].user = trx[i].user /\ trx'[i].shift = trx[i].shift
    <2>1. CASE i = t
      <3>1. trx'[i] = [trx[i] EXCEPT !.void = TRUE, !.related = n] /\ trx[i] \in Row
        BY <1>1, <1>2, <2>1
      <3> QED
        BY <1>4, <3>1
    <2>2. CASE i # t
      BY <1>1, <2>2
    <2> QED
      BY <2>1, <2>2
  <1> QED
    BY <1>1, <1>3, <1>5 DEF n

\* Rows written by a call land on a shift of its user.
LEMMA LedgerKeepsRows ==
    ASSUME TypeOK, HandlersOwn, RowsOnOwnShift, NEW r \in Requests, LedgerCall(r)
    PROVE  RowsOnOwnShift'
  <1>1. UNCHANGED shift
    BY LedgerLeavesShifts
  <1>2. CASE PostCommit(r)
    <2>1. Owns(req[r].user, req[r].shift)
      BY <1>2 DEF PostCommit, HandlersOwn
    <2>2. DOMAIN trx = 1..Len(trx) /\ DOMAIN trx' = 1..Len(trx') /\ Len(trx) \in Nat
      BY <1>2, PostedRows DEF TypeOK
    <2> SUFFICES ASSUME NEW i \in DOMAIN trx'
                 PROVE  Owns(trx'[i].user, trx'[i].shift)
      BY <1>1 DEF RowsOnOwnShift, Owns
    <2>3. CASE i > Len(trx)
      BY <1>2, <2>1, <2>2, <2>3, PostedRows
    <2>4. CASE ~(i > Len(trx))
      <3>1. i \in DOMAIN trx /\ trx'[i] = trx[i]
        BY <1>2, <2>2, <2>4, PostedRows
      <3> QED
        BY <3>1 DEF RowsOnOwnShift, Owns
    <2> QED
      BY <2>3, <2>4
  <1>3. CASE VoidCommit(r)
    <2>1. Owns(req[r].user, req[r].shift)
      BY <1>3 DEF VoidCommit, HandlersOwn
    <2>2. DOMAIN trx = 1..Len(trx) /\ DOMAIN trx' = 1..(Len(trx) + 1) /\ Len(trx) \in Nat
      BY <1>3, VoidedRows DEF TypeOK
    <2> SUFFICES ASSUME NEW i \in DOMAIN trx'
                 PROVE  Owns(trx'[i].user, trx'[i].shift)
      BY <1>1 DEF RowsOnOwnShift, Owns
    <2>3. CASE i = Len(trx) + 1
      BY <1>3, <2>1, <2>3, VoidedRows
    <2>4. CASE i # Len(trx) + 1
      <3>1. i \in DOMAIN trx /\ trx'[i].user = trx[i].user /\ trx'[i].shift = trx[i].shift
        BY <1>3, <2>2, <2>4, VoidedRows
      <3> QED
        BY <3>1 DEF RowsOnOwnShift, Owns
    <2> QED
      BY <2>3, <2>4
  <1>4. CASE ~PostCommit(r) /\ ~VoidCommit(r)
    <2>1. UNCHANGED trx
      BY <1>4 DEF LedgerCall, Post, Void, CreateRead, CreateCommit, Fail, PostRead,
         PostResolveShift, PostCheckCredit, VoidRead, VoidResolveShift, ledgerVars
    <2> QED
      BY <1>1, <2>1 DEF RowsOnOwnShift
  <1> QED
    BY <1>2, <1>3, <1>4

Carrying == {"postCredit", "post", "void"}

\* The call h carries a shift it has just resolved, or the one g carried.
CarriesOn(g, h) ==
    h.op \in Carrying =>
        \/ ResolvesTo(h.user, h.shift)
        \/ g.op \in Carrying /\ h.user = g.user /\ h.shift = g.shift

\* A call reaches the write only by way of a shift it has resolved.
LEMMA WhoCarries ==
    ASSUME TypeOK, NEW r \in Requests, LedgerCall(r)
    PROVE  \A q \in Requests : CarriesOn(req[q], req'[q])
  <1> DEFINE Goal == \A q \in Requests : CarriesOn(req[q], req'[q])
  <1> USE DEF Carrying
  <1>0. req \in [Requests -> LedgerHandler]
    BY DEF TypeOK
  <1> DEFINE Fine(h) == CarriesOn(req[r], h)
  <1>1. ASSUME NEW h, req' = [req EXCEPT ![r] = h], Fine(h) PROVE Goal
    <2>1. \A q \in Requests : req'[q] = IF q = r THEN h ELSE req[q]
      BY <1>0, <1>1
    <2> QED
      BY <1>0, <1>1, <2>1 DEF CarriesOn
  <1>2. CASE CreateCommit(r) \/ Fail(r) \/ PostCommit(r) \/ VoidCommit(r)
    <2>1. req' = [req EXCEPT ![r] = Idle] /\ Idle.op = "idle"
      BY <1>2 DEF CreateCommit, Fail, PostCommit, VoidCommit, End, Idle
    <2> QED
      BY <1>1, <2>1 DEF CarriesOn
  <1>3. CASE CreateRead(r)
    <2> DEFINE h == [op |-> "create", count |-> Cardinality({f \in Folios : Exists(f)})]
    <2>1. Fine(h) /\ req' = [req EXCEPT ![r] = h]
      BY <1>3 DEF CreateRead, Begin, CarriesOn
    <2> HIDE DEF h
    <2> QED
      BY <1>1, <2>1
  <1>4. ASSUME NEW f, NEW w, NEW u, NEW lines, PostRead(r, f, w, u, lines) PROVE Goal
    <2> DEFINE h == [op |-> "postShift", folio |-> f, window |-> w, user |-> u,
                     lines |-> lines, shift |-> NoShift]
    <2>1. Fine(h) /\ req' = [req EXCEPT ![r] = h]
      BY <1>4 DEF PostRead, Begin, CarriesOn
    <2> HIDE DEF h
    <2> QED
      BY <1>1, <2>1
  <1>5. ASSUME NEW t, NEW u, VoidRead(r, t, u) PROVE Goal
    <2> DEFINE h == [op |-> "voidShift", trx |-> t, user |-> u, shift |-> NoShift]
    <2>1. Fine(h) /\ req' = [req EXCEPT ![r] = h]
      BY <1>5 DEF VoidRead, Begin, CarriesOn
    <2> HIDE DEF h
    <2> QED
      BY <1>1, <2>1
  <1>6. ASSUME NEW sh \in ShiftRef, PostResolveShift(r, sh) PROVE Goal
    <2> DEFINE h == [req[r] EXCEPT !.op = "postCredit", !.shift = sh]
    <2>1. req' = [req EXCEPT ![r] = h]
      BY <1>0, <1>6 DEF PostResolveShift
    <2>2. ResolvesTo(req[r].user, sh)
      BY <1>6 DEF PostResolveShift
    <2>3. h.user = req[r].user /\ h.shift = sh
      BY <1>0, <1>6, PostingFields DEF PostResolveShift
    <2> HIDE DEF h
    <2> QED
      BY <1>1, <2>1, <2>2, <2>3 DEF CarriesOn
  <1>7. ASSUME NEW sh \in ShiftRef, VoidResolveShift(r, sh) PROVE Goal
    <2> DEFINE h == [req[r] EXCEPT !.op = "void", !.shift = sh]
    <2>1. req' = [req EXCEPT ![r] = h]
      BY <1>0, <1>7 DEF VoidResolveShift
    <2>2. ResolvesTo(req[r].user, sh)
      BY <1>7 DEF VoidResolveShift
    <2>3. h.user = req[r].user /\ h.shift = sh
      BY <1>0, <1>7, VoidFields DEF VoidResolveShift
    <2> HIDE DEF h
    <2> QED
      BY <1>1, <2>1, <2>2, <2>3 DEF CarriesOn
  <1>8. CASE PostCheckCredit(r)
    <2> DEFINE h == [req[r] EXCEPT !.op = "post"]
    <2>1. req' = [req EXCEPT ![r] = h]
      BY <1>0, <1>8 DEF PostCheckCredit
    <2>2. req[r].op \in Carrying
      BY <1>8 DEF PostCheckCredit
    <2>3. h.user = req[r].user /\ h.shift = req[r].shift
      BY <1>0, <1>8, PostingFields DEF PostCheckCredit
    <2> HIDE DEF h
    <2> QED
      BY <1>1, <2>1, <2>2, <2>3 DEF CarriesOn
  <1> QED
    BY <1>2, <1>3, <1>4, <1>5, <1>6, <1>7, <1>8 DEF LedgerCall, Post, Void

\* So a handler about to write keeps carrying a shift of its user.
LEMMA LedgerKeepsHandlers ==
    ASSUME TypeOK, HandlersOwn, NEW r \in Requests, LedgerCall(r)
    PROVE  HandlersOwn'
  <1>1. UNCHANGED shift
    BY LedgerLeavesShifts
  <1>2. \A u, sh : ResolvesTo(u, sh) => Owns(u, sh)
    BY DEF ResolvesTo, OpenShiftsOf, Owns
  <1>3. \A q \in Requests : req'[q].op \in Carrying => Owns(req'[q].user, req'[q].shift)
    BY <1>2, WhoCarries DEF HandlersOwn, CarriesOn, Carrying
  <1> QED
    BY <1>1, <1>3 DEF HandlersOwn, Owns, Carrying

\* Every step of a call of the ledger keeps the invariant.
LEMMA LedgerStep ==
    ASSUME Drawers, NEW r \in Requests, LedgerCall(r), UNCHANGED desk
    PROVE  Drawers' /\ Respects
  <1>0. Tables /\ TypeOK /\ HandlersOwn /\ RowsOnOwnShift /\ BalancedIsJustified
    BY DEF Drawers
  <1>1. UNCHANGED shift
    BY LedgerLeavesShifts
  <1>2. TypeOK'
    <2>1. LedgerNext
      BY DEF LedgerNext, LedgerCall
    <2> QED
      BY <1>0, <2>1, StepTypeOK
  <1>3. RowsOnOwnShift' /\ HandlersOwn'
    BY <1>0, LedgerKeepsRows, LedgerKeepsHandlers
  <1>4. ShiftTable' /\ BlankUntilOpened' /\ BalancedIsJustified' /\ Respects
    BY <1>0, <1>1 DEF Tables, ShiftTable, BlankUntilOpened, BalancedIsJustified, Created, Respects
  <1>5. DeskTable' /\ DesksRefer'
    BY <1>0, <1>1 DEF Tables, DeskTable, DesksRefer, Created, ApproverAllowed
  <1> QED
    BY <1>2, <1>3, <1>4, <1>5 DEF Drawers, Tables

-----------------------------------------------------------------------------
(* The theorems *)

\* Nobody has opened, posted or called anything yet.
LEMMA InitDrawers == ShiftsInit => Drawers
  <1> SUFFICES ASSUME ShiftsInit PROVE Drawers
    OBVIOUS
  <1>1. Init /\ TypeOK
    BY InitTypeOK DEF ShiftsInit
  <1>2. shift = [s \in Shifts |-> NoRow] /\ desk = [d \in Desks |-> Idle]
    BY DEF ShiftsInit
  <1>3. NoRow.user = NoUser /\ NoRow.status = "NONE" /\ HasColumns(NoRow) /\ Idle.op = "idle"
    BY DEF NoRow, HasColumns, Idle
  <1>4. ShiftTable /\ DeskTable
    BY <1>2, <1>3 DEF ShiftTable, DeskTable
  <1>5. BlankUntilOpened /\ DesksRefer /\ BalancedIsJustified
    BY <1>2, <1>3 DEF BlankUntilOpened, DesksRefer, BalancedIsJustified, OnShift, Closers
  <1>6. HandlersOwn /\ RowsOnOwnShift
    BY <1>1, <1>3 DEF Init, HandlersOwn, RowsOnOwnShift
  <1> QED
    BY <1>1, <1>4, <1>5, <1>6 DEF Drawers, Tables

\* The inductive step, and what every step leaves of a shift.
LEMMA StepDrawers == Drawers /\ [ShiftsNext]_shiftsVars => Drawers' /\ Respects
  <1> SUFFICES ASSUME Drawers, [ShiftsNext]_shiftsVars PROVE Drawers' /\ Respects
    OBVIOUS
  <1>1. CASE ShiftsNext
    BY <1>1, LedgerStep, DeskStep DEF ShiftsNext
  <1>2. CASE UNCHANGED shiftsVars
    <2>1. UNCHANGED shift /\ LedgerUntouched /\ UNCHANGED desk
      BY <1>2 DEF shiftsVars, LedgerUntouched
    <2>2. Respects
      BY <2>1 DEF Respects, Created
    <2>3. TypeOK' /\ HandlersOwn' /\ RowsOnOwnShift'
      BY <2>1, <2>2, RespectKeepsRows DEF Drawers
    <2>4. Tables' /\ BalancedIsJustified'
      BY <2>1 DEF Drawers, Tables, ShiftTable, BlankUntilOpened, BalancedIsJustified,
         Created, DeskTable, DesksRefer, ApproverAllowed
    <2> QED
      BY <2>2, <2>3, <2>4 DEF Drawers
  <1> QED
    BY <1>1, <1>2

\* However opening, closing, approving and handing over interleave with
\* postings and voids, every row is on a shift of the user who wrote it.
THEOREM OwnShift == ShiftsSpec => []RowsOnOwnShift
  <1>1. Drawers => RowsOnOwnShift
    BY DEF Drawers
  <1> QED
    BY <1>1, InitDrawers, StepDrawers, PTL DEF ShiftsSpec

\* However closings and approvals race, a balanced shift was counted right or
\* signed for by somebody entitled to.
THEOREM Justified == ShiftsSpec => []BalancedIsJustified
  <1>1. Drawers => BalancedIsJustified
    BY DEF Drawers
  <1> QED
    BY <1>1, InitDrawers, StepDrawers, PTL DEF ShiftsSpec

\* No step deletes a shift or opens a closed one again.
THEOREM StaysClosed == ShiftsSpec => NeverReopened
  <1>1. Drawers /\ [ShiftsNext]_shiftsVars =>
            [\A s \in Shifts : /\ Created(s) => Created(s)'
                               /\ shift[s].status \in {"CLOSED", "BALANCED"} =>
                                        shift'[s].status # "OPEN"]_shift
    <2> SUFFICES ASSUME Drawers, [ShiftsNext]_shiftsVars, NEW s \in Shifts
                 PROVE  /\ Created(s) => Created(s)'
                        /\ shift[s].status \in {"CLOSED", "BALANCED"} =>
                                shift'[s].status # "OPEN"
      OBVIOUS
    <2>1. Respects
      BY StepDrawers
    <2> QED
      BY <2>1 DEF Respects, Created
  <1>2. ShiftsSpec => []Drawers
    BY InitDrawers, StepDrawers, PTL DEF ShiftsSpec
  <1> QED
    BY <1>1, <1>2, PTL DEF ShiftsSpec, NeverReopened

-----------------------------------------------------------------------------
(* One call at a time. *)

Closed == {"CLOSED", "BALANCED"}

\* A handler about to write carries a shift that is still open.
HandlersOpen ==
    \A r \in Requests :
        req[r].op \in Carrying /\ req[r].shift # NoShift => shift[req[r].shift].status = "OPEN"

DesksCurrent == \A d \in Desks : Current(desk[d])

\* A shift that was handed over is closed and passed on what was counted.
HandedOver ==
    \A s \in Shifts : shift[s].from # NoShift =>
        /\ shift[s].from \in Shifts /\ shift[shift[s].from].status \in Closed
        /\ shift[s].opening = shift[shift[s].from].closing

Snapshots == \A s \in Shifts : shift[s].status \in Closed => shift[s].expected = Drawer(s)

\* What holds while calls do not race.
Serial ==
    /\ Drawers /\ OneCallInFlight
    /\ HandlersOpen /\ DesksCurrent /\ HandedOver /\ Snapshots

\* A row written now is on an open shift, so a shift that is not open keeps
\* its drawer.
LEMMA ClosedDrawerKept ==
    ASSUME TypeOK, HandlersOpen, NEW r \in Requests, LedgerCall(r),
           NEW s \in Shifts, shift[s].status # "OPEN"
    PROVE  Drawer(s)' = Drawer(s)
  <1> DEFINE S == CashRows(s)
  <1>0. UNCHANGED shift /\ s # NoShift
    BY LedgerLeavesShifts, NamesAssumption
  <1>1. S \in SUBSET DOMAIN trx /\ CashRows(s)' = {i \in DOMAIN trx' : trx'[i].shift = s /\ trx'[i].code = "9000"}
    BY DEF CashRows
  <1>2. ASSUME CashRows(s)' = S, SumFunctionOnSet(Impacts(trx'), S) = SumOfRows(S)
        PROVE  Drawer(s)' = Drawer(s)
    BY <1>0, <1>2 DEF Drawer, SumOfRows
  <1>3. CASE PostCommit(r)
    <2>1. req[r].shift # s
      BY <1>0, <1>3 DEF PostCommit, HandlersOpen, Carrying
    <2>2. /\ DOMAIN trx = 1..Len(trx) /\ DOMAIN trx' = 1..Len(trx') /\ Len(trx') >= Len(trx)
          /\ Len(trx) \in Nat /\ Len(trx') \in Nat
      <3>1. GrowsBy(trx, trx', Impacts(req[r].lines))
        BY <1>3, PostingGrows
      <3> DEFINE g == Impacts(req[r].lines)
      <3>2. trx \in Seq(Row) /\ trx' \in Seq(Row) /\ g \in Seq(Int) /\ Len(trx') = Len(trx) + Len(g)
        BY <3>1 DEF GrowsBy
      <3> HIDE DEF g
      <3> QED
        BY ONLY <3>2
    <2>3. \A i : i \in CashRows(s)' <=> i \in S
      <3>1. \A i \in DOMAIN trx : i \in DOMAIN trx' /\ trx'[i] = trx[i]
        BY <1>3, <2>2, PostedRows
      <3>2. \A i \in DOMAIN trx' \ DOMAIN trx : trx'[i].shift = req[r].shift
        <4>1. \A i \in DOMAIN trx' \ DOMAIN trx : i \in 1..Len(trx') /\ i > Len(trx)
          BY ONLY <2>2
        <4> QED
          BY <1>3, <4>1, PostedRows
      <3> QED
        BY <1>1, <2>1, <3>1, <3>2 DEF CashRows
    <2>4. CashRows(s)' = S
      <3> HIDE DEF S
      <3> QED
        BY <1>1, <2>3
    <2>5. SumFunctionOnSet(Impacts(trx'), S) = SumOfRows(S)
      <3> HIDE DEF S
      <3> QED
        BY <1>1, <1>3, PostingAdds
    <2> QED
      BY <1>2, <2>4, <2>5
  <1>4. CASE VoidCommit(r)
    <2> DEFINE t == req[r].trx
               n == Len(trx) + 1
    <2>1. req[r].shift # s
      BY <1>0, <1>4 DEF VoidCommit, HandlersOpen, Carrying
    <2>2. /\ DOMAIN trx = 1..Len(trx) /\ DOMAIN trx' = 1..n /\ Len(trx) \in Nat
          /\ \A i \in 1..Len(trx) :
                trx'[i] = IF i = t THEN [trx[i] EXCEPT !.void = TRUE, !.related = n] ELSE trx[i]
      <3>1. trx \in Seq(Row) /\ trx' \in Seq(Row) /\ Len(trx) \in Nat /\ Len(trx') = n
        BY <1>4, VoidEffect DEF TypeOK
      <3>2. DOMAIN trx = 1..Len(trx) /\ DOMAIN trx' = 1..n /\ Len(trx) \in Nat
        BY ONLY <3>1
      <3> QED
        BY <1>4, <3>2, VoidEffect
    <2>3. \A i \in DOMAIN trx : trx'[i].shift = trx[i].shift /\ trx'[i].code = trx[i].code
      <3>1. \A x \in Row : LET y == [x EXCEPT !.void = TRUE, !.related = n] IN
                           y.shift = x.shift /\ y.code = x.code
        BY DEF Row
      <3>2. \A i \in DOMAIN trx : trx[i] \in Row
        BY ElementOfSeq DEF TypeOK
      <3> HIDE DEF t, n
      <3> QED
        BY <2>2, <3>1, <3>2
    <2>4. trx'[n].shift = req[r].shift
      BY <1>4, VoidedRows
    <2>5. DOMAIN trx' = DOMAIN trx \cup {n}
      <3>1. DOMAIN trx = 1..Len(trx) /\ DOMAIN trx' = 1..n /\ Len(trx) \in Nat
        BY <2>2
      <3> QED
        BY ONLY <3>1
    <2> HIDE DEF n, t
    <2>6. \A i : i \in CashRows(s)' <=> i \in S
      BY <1>1, <2>1, <2>3, <2>4, <2>5 DEF CashRows
    <2>7. CashRows(s)' = S
      <3> HIDE DEF S
      <3> QED
        BY <1>1, <2>6
    <2>8. SumFunctionOnSet(Impacts(trx'), S) = SumOfRows(S)
      <3> HIDE DEF S
      <3> QED
        BY <1>1, <1>4, VoidAdds
    <2> QED
      BY <1>2, <2>7, <2>8
  <1>5. CASE ~PostCommit(r) /\ ~VoidCommit(r)
    <2>1. UNCHANGED trx
      BY <1>5 DEF LedgerCall, Post, Void, CreateRead, CreateCommit, Fail, PostRead,
         PostResolveShift, PostCheckCredit, VoidRead, VoidResolveShift, ledgerVars
    <2> QED
      BY <1>0, <2>1 DEF Drawer, SumOfRows, CashRows
  <1> QED
    BY <1>3, <1>4, <1>5

\* While a desk is in flight no call of the ledger writes a row.
LEMMA LedgerWaits ==
    ASSUME OneCallInFlight, NEW r \in Requests, LedgerCall(r), NEW d \in Desks, desk[d] # Idle
    PROVE  UNCHANGED trx
  <1>1. req[r].op = "idle"
    BY DEF OneCallInFlight, Idle
  <1> QED
    BY <1>1 DEF LedgerCall, Post, Void, CreateRead, CreateCommit, Fail, PostRead, PostCommit,
       PostResolveShift, PostCheckCredit, VoidRead, VoidResolveShift, VoidCommit, ledgerVars

\* A call of the ledger keeps what the closed shifts and the desks rely on.
LEMMA LedgerKeepsSerial ==
    ASSUME Serial, NEW r \in Requests, LedgerCall(r), UNCHANGED desk
    PROVE  HandlersOpen' /\ DesksCurrent' /\ HandedOver' /\ Snapshots'
  <1>0. UNCHANGED shift /\ TypeOK /\ HandlersOpen /\ OneCallInFlight
    BY LedgerLeavesShifts DEF Serial, Drawers
  <1>1. HandlersOpen'
    <2>1. \A u, sh : ResolvesTo(u, sh) /\ sh # NoShift => shift[sh].status = "OPEN"
      BY DEF ResolvesTo, OpenShiftsOf
    <2>2. \A q \in Requests : req'[q].op \in Carrying /\ req'[q].shift # NoShift
                                => shift[req'[q].shift].status = "OPEN"
      BY <1>0, <2>1, WhoCarries DEF HandlersOpen, CarriesOn
    <2> QED
      BY <1>0, <2>2 DEF HandlersOpen
  <1>2. Snapshots'
    BY <1>0, ClosedDrawerKept DEF Serial, Snapshots, Closed
  <1>3. HandedOver'
    BY <1>0 DEF Serial, HandedOver
  <1>4. DesksCurrent'
    <2> SUFFICES ASSUME NEW d \in Desks PROVE Current(desk[d])'
      BY DEF DesksCurrent
    <2>1. CASE desk[d] = Idle
      BY <2>1 DEF Current, Closers, Idle
    <2>2. CASE desk[d] # Idle
      <3>1. UNCHANGED trx
        BY <1>0, <2>2, LedgerWaits
      <3>2. Current(desk[d])
        BY DEF Serial, DesksCurrent
      <3> QED
        BY <1>0, <3>1, <3>2 DEF Current, Drawer, SumOfRows, CashRows
    <2> QED
      BY <2>1, <2>2
  <1> QED
    BY <1>1, <1>2, <1>3, <1>4

\* What one row of the shift table may do in a write: stay as it is or be
\* approved, be opened with what its predecessor was counted at, or be closed
\* with what the rows add up to.
Kept(s) ==
    /\ shift'[s].status = shift[s].status \/ {shift'[s].status, shift[s].status} \subseteq Closed
    /\ shift'[s].expected = shift[s].expected /\ shift'[s].opening = shift[s].opening
    /\ shift'[s].closing = shift[s].closing /\ shift'[s].from = shift[s].from

Opened(s) ==
    /\ shift[s].status = "NONE" /\ shift'[s].status = "OPEN"
    /\ shift'[s].from # NoShift =>
        /\ shift'[s].from \in Shifts /\ shift'[shift'[s].from].status \in Closed
        /\ shift'[s].opening = shift'[shift'[s].from].closing

NowClosed(s) ==
    /\ shift[s].status = "OPEN" /\ shift'[s].status \in Closed
    /\ shift'[s].expected = Drawer(s)
    /\ shift'[s].opening = shift[s].opening /\ shift'[s].from = shift[s].from

\* Such writes keep every handover and every snapshot.
LEMMA RowChanges ==
    ASSUME Serial, UNCHANGED trx,
           \A s \in Shifts : Kept(s) \/ Opened(s) \/ NowClosed(s)
    PROVE  HandedOver' /\ Snapshots'
  <1>1. HandedOver'
    <2> SUFFICES ASSUME NEW s \in Shifts, shift'[s].from # NoShift
                 PROVE  /\ shift'[s].from \in Shifts /\ shift'[shift'[s].from].status \in Closed
                        /\ shift'[s].opening = shift'[shift'[s].from].closing
      BY DEF HandedOver
    <2>1. CASE Opened(s)
      BY <2>1 DEF Opened
    <2>2. CASE Kept(s) \/ NowClosed(s)
      <3> DEFINE p == shift[s].from
      <3>1. /\ shift'[s].from = p /\ shift'[s].opening = shift[s].opening
            /\ p \in Shifts /\ shift[p].status \in Closed /\ shift[s].opening = shift[p].closing
        BY <2>2 DEF Kept, NowClosed, Serial, HandedOver
      <3> HIDE DEF p
      <3>2. Kept(p)
        BY <3>1 DEF Opened, NowClosed, Closed
      <3> QED
        BY <3>1, <3>2 DEF Kept, Closed
    <2> QED
      BY <2>1, <2>2
  <1>2. Snapshots'
    <2> SUFFICES ASSUME NEW s \in Shifts, shift'[s].status \in Closed
                 PROVE  shift'[s].expected = Drawer(s)'
      BY DEF Snapshots
    <2>1. shift'[s].opening = shift[s].opening => Drawer(s)' = Drawer(s)
      BY DEF Drawer, SumOfRows, CashRows
    <2>2. CASE Kept(s)
      BY <2>1, <2>2 DEF Kept, Closed, Serial, Snapshots
    <2>3. CASE NowClosed(s)
      BY <2>1, <2>3 DEF NowClosed
    <2>4. ~Opened(s)
      BY DEF Opened, Closed
    <2> QED
      BY <2>2, <2>3, <2>4
  <1> QED
    BY <1>1, <1>2

\* An open call opens a shift of its own and touches no other.
LEMMA OpenCreateRows ==
    ASSUME Serial, NEW d \in Desks, OpenCreate(d)
    PROVE  \A s \in Shifts : Kept(s) \/ Opened(s)
  <1> DEFINE n == desk[d].number
             x == [NoRow EXCEPT !.user = desk[d].user, !.status = "OPEN",
                                !.opening = desk[d].cash]
  <1>1. n \in Shifts /\ ~Created(n) /\ shift' = [shift EXCEPT ![n] = x] /\ ShiftTable
    BY DEF OpenCreate, Serial, Drawers, Tables
  <1>2. HasColumns(x) /\ x.status = "OPEN" /\ x.from = NoShift
    BY BlankRow DEF HasColumns
  <1> HIDE DEF x, n
  <1>3. \A q \in Shifts : shift'[q] = IF q = n THEN x ELSE shift[q]
    BY <1>1, <1>2, PutRow
  <1> QED
    BY <1>1, <1>2, <1>3 DEF Kept, Opened, Created

\* A closing closes a shift that is still open, with what its rows add up to.
LEMMA CloseShiftRows ==
    ASSUME Serial, NEW d \in Desks, CloseShift(d)
    PROVE  \A s \in Shifts : Kept(s) \/ NowClosed(s)
  <1> DEFINE n == desk[d].shift
             x == ClosedRow(n, desk[d].counted, desk[d].expected)
  <1>1. n \in Shifts /\ shift' = [shift EXCEPT ![n] = x] /\ ShiftTable
    BY DEF CloseShift, Serial, Drawers, Tables, DesksRefer, OnShift, Closers
  <1>2. shift[n].status = "OPEN" /\ desk[d].expected = Drawer(n)
    BY DEF CloseShift, Serial, DesksCurrent, Current, Closers
  <1>3. /\ HasColumns(x) /\ x.status \in Closed
        /\ x.opening = shift[n].opening /\ x.from = shift[n].from /\ x.expected = Drawer(n)
    BY <1>1, <1>2, ClosedRowEffect DEF Closed
  <1> HIDE DEF x, n
  <1>4. \A q \in Shifts : shift'[q] = IF q = n THEN x ELSE shift[q]
    BY <1>1, <1>3, PutRow
  <1> QED
    BY <1>2, <1>3, <1>4 DEF Kept, NowClosed

\* An approval keeps every amount, and the shift it approves is still closed.
LEMMA ApproveRows ==
    ASSUME Serial, NEW d \in Desks, ApproveCommit(d)
    PROVE  \A s \in Shifts : Kept(s)
  <1> DEFINE n == desk[d].shift
             x == [shift[n] EXCEPT !.status = "BALANCED", !.approvedBy = desk[d].user]
  <1>1. n \in Shifts /\ ShiftTable /\ HasColumns(shift[n])
    BY DEF ApproveCommit, Serial, Drawers, Tables, DesksRefer, OnShift, Closers, ShiftTable
  <1>2. shift' = [shift EXCEPT ![n] = x]
    BY <1>1 DEF ApproveCommit, ShiftTable
  <1>3. shift[n].status = "CLOSED"
    BY DEF ApproveCommit, Serial, DesksCurrent, Current
  <1>4. /\ HasColumns(x) /\ x.status = "BALANCED" /\ x.expected = shift[n].expected
        /\ x.opening = shift[n].opening /\ x.closing = shift[n].closing /\ x.from = shift[n].from
    BY <1>1 DEF HasColumns
  <1> HIDE DEF x, n
  <1>5. \A q \in Shifts : shift'[q] = IF q = n THEN x ELSE shift[q]
    BY <1>1, <1>2, <1>4, PutRow
  <1> QED
    BY <1>3, <1>4, <1>5 DEF Kept, Closed

\* A handover closes one shift and opens another with what the first was counted at.
LEMMA HandoverRows ==
    ASSUME Serial, NEW d \in Desks, HandoverCommit(d)
    PROVE  \A s \in Shifts : Kept(s) \/ Opened(s) \/ NowClosed(s)
  <1> DEFINE s == desk[d].shift
             n == NextShiftNumber
             x == ClosedRow(s, desk[d].counted, desk[d].expected)
             y == [NoRow EXCEPT !.user = desk[d].to, !.status = "OPEN",
                                !.opening = desk[d].counted, !.from = s]
  <1>1. /\ s \in Shifts /\ n \in Shifts /\ ~Created(n) /\ ShiftTable
        /\ shift' = [shift EXCEPT ![s] = x, ![n] = y]
    BY DEF HandoverCommit, Serial, Drawers, Tables, DesksRefer, OnShift, Closers
  <1>2. shift[s].status = "OPEN" /\ desk[d].expected = Drawer(s)
    BY DEF HandoverCommit, Serial, DesksCurrent, Current, Closers
  <1>3. /\ x.status \in Closed /\ x.closing = desk[d].counted
        /\ x.opening = shift[s].opening /\ x.from = shift[s].from /\ x.expected = Drawer(s)
    BY <1>1, <1>2, ClosedRowEffect DEF Closed
  <1>4. y.status = "OPEN" /\ y.from = s /\ y.opening = desk[d].counted
    BY BlankRow
  <1>5. shift = [q \in Shifts |-> shift[q]]
    BY <1>1 DEF ShiftTable
  <1> HIDE DEF x, y, s, n
  <1>6. s # n
    BY <1>1, <1>2 DEF Created
  <1>7. \A q \in Shifts : shift'[q] = IF q = n THEN y ELSE IF q = s THEN x ELSE shift[q]
    BY <1>1, <1>5, <1>6
  <1>8. NowClosed(s)
    BY <1>1, <1>2, <1>3, <1>6, <1>7 DEF NowClosed
  <1>9. Opened(n)
    BY <1>1, <1>3, <1>4, <1>6, <1>7 DEF Opened, Created
  <1>10. \A q \in Shifts : q # s /\ q # n => Kept(q)
    BY <1>7 DEF Kept
  <1> QED
    BY <1>8, <1>9, <1>10

\* A desk keeps what the closed shifts and the desks rely on.
LEMMA DeskKeepsSerial ==
    ASSUME Serial, NEW d \in Desks, ShiftCall(d)
    PROVE  HandlersOpen' /\ DesksCurrent' /\ HandedOver' /\ Snapshots'
  <1>0. Tables /\ BalancedIsJustified /\ OneCallInFlight /\ Idle.op = "idle"
    BY DEF Serial, Drawers, Idle
  <1>1. CASE DeskReader(d)
    <2>1. UNCHANGED shift /\ LedgerUntouched
      BY <1>0, <1>1, DesksRead
    <2>2. PICK h : desk' = [desk EXCEPT ![d] = h] /\ (Current(desk[d]) => Current(h))
      BY <1>0, <1>1, DesksRead
    <2>3. \A e \in Desks : desk'[e] = IF e = d THEN h ELSE desk[e]
      BY <1>0, <2>2 DEF Tables, DeskTable
    <2>4. \A e \in Desks : Current(desk'[e])
      BY <2>2, <2>3 DEF Serial, DesksCurrent
    <2>5. DesksCurrent'
      BY <2>1, <2>4 DEF DesksCurrent, Current, LedgerUntouched, Drawer, SumOfRows, CashRows
    <2> QED
      BY <2>1, <2>5 DEF Serial, HandlersOpen, HandedOver, Snapshots, LedgerUntouched,
         Drawer, SumOfRows, CashRows
  <1>2. CASE DeskWriter(d)
    <2>1. LedgerUntouched /\ EndCall(d)
      BY <1>0, <1>2, DesksWrite
    <2>2. desk[d] # Idle
      BY <1>0, <1>2 DEF DeskWriter, OpenCreate, CloseShift, ApproveCommit, HandoverCommit
    <2>3. (\A r \in Requests : req'[r] = Idle) /\ \A e \in Desks : desk'[e] = Idle
      <3>1. \A e \in Desks : desk'[e] = IF e = d THEN Idle ELSE desk[e]
        BY <1>0, <2>1 DEF EndCall, Tables, DeskTable
      <3> QED
        BY <1>0, <2>1, <2>2, <3>1 DEF OneCallInFlight, LedgerUntouched
    <2>4. HandlersOpen' /\ DesksCurrent'
      BY <1>0, <2>3 DEF HandlersOpen, Carrying, DesksCurrent, Current, Closers
    <2>5. \A s \in Shifts : Kept(s) \/ Opened(s) \/ NowClosed(s)
      BY <1>2, OpenCreateRows, CloseShiftRows, ApproveRows, HandoverRows DEF DeskWriter
    <2> QED
      BY <2>1, <2>4, <2>5, RowChanges DEF LedgerUntouched
  <1> QED
    BY <1>1, <1>2 DEF ShiftCall, DeskReader, DeskWriter

\* While calls do not race the invariant is kept.
LEMMA StepSerial == Serial /\ [ShiftsNext /\ OneCallInFlight']_shiftsVars => Serial'
  <1> SUFFICES ASSUME Serial, [ShiftsNext /\ OneCallInFlight']_shiftsVars PROVE Serial'
    OBVIOUS
  <1>1. Drawers'
    BY StepDrawers DEF Serial
  <1>2. CASE ShiftsNext /\ OneCallInFlight'
    BY <1>1, <1>2, LedgerKeepsSerial, DeskKeepsSerial DEF ShiftsNext, Serial
  <1>3. CASE UNCHANGED shiftsVars
    BY <1>1, <1>3 DEF shiftsVars, Serial, OneCallInFlight, HandlersOpen, DesksCurrent, Current,
       HandedOver, Snapshots, Drawer, SumOfRows, CashRows
  <1> QED
    BY <1>2, <1>3

\* It holds before the first call.
LEMMA InitSerial == ShiftsInit => Serial
  <1> SUFFICES ASSUME ShiftsInit PROVE Serial
    OBVIOUS
  <1>1. Drawers
    BY InitDrawers
  <1>2. /\ \A r \in Requests : req[r] = Idle
        /\ \A d \in Desks : desk[d] = Idle
        /\ \A s \in Shifts : shift[s] = NoRow
    BY DEF ShiftsInit, Init
  <1>3. Idle.op = "idle" /\ NoRow.status = "NONE" /\ NoRow.from = NoShift
    BY DEF Idle, NoRow
  <1> QED
    BY <1>1, <1>2, <1>3 DEF Serial, OneCallInFlight, HandlersOpen, Carrying, DesksCurrent,
       Current, Closers, HandedOver, Snapshots, Closed

\* So it holds throughout a run in which no two calls overlap.
LEMMA AlwaysSerial == SerialSpec => []Serial
  BY InitSerial, StepSerial, PTL DEF SerialSpec

\* What the drawer holds is what the rows say it holds, sign by sign.
LEMMA DrawerBySign ==
    ASSUME TypeOK, NEW s \in Shifts
    PROVE  Drawer(s) = shift[s].opening
            - SumFunctionOnSet([i \in DOMAIN trx |-> trx[i].sign * trx[i].amount],
                  {i \in DOMAIN trx : trx[i].shift = s /\ trx[i].code = "9000"})
  <1> DEFINE f == [i \in DOMAIN trx |-> trx[i].sign * trx[i].amount]
             g == Impacts(trx)
             S == {i \in DOMAIN trx : trx[i].shift = s /\ trx[i].code = "9000"}
  <1>1. IsFiniteSet(S)
    <2>1. trx \in Seq(Row)
      BY DEF TypeOK
    <2>2. DOMAIN trx = 1..Len(trx) /\ Len(trx) \in Nat
      BY ONLY <2>1
    <2>3. S \subseteq 1..Len(trx)
      BY <2>2
    <2>4. IsFiniteSet(1..Len(trx))
      BY <2>2, FS_Interval
    <2> HIDE DEF S
    <2> QED
      BY <2>3, <2>4, FS_Subset
  <1>2. \A i \in S : f[i] = g[i]
    <2>1. \A x \in Row : x.sign * x.amount = Impact(x)
      BY DEF Row, Impact
    <2>2. \A i \in DOMAIN trx : trx[i] \in Row
      BY ElementOfSeq DEF TypeOK
    <2> QED
      BY <2>1, <2>2 DEF Impacts
  <1>3. S = CashRows(s)
    BY DEF CashRows
  <1>4. SumFunctionOnSet(f, S) = SumFunctionOnSet(g, S)
    <2> HIDE DEF f, g, S
    <2> QED
      BY <1>1, <1>2, SumAgrees
  <1> QED
    BY <1>3, <1>4 DEF Drawer, SumOfRows

\* While calls do not race, what a closing stored as expected is what the
\* drawer's rows add up to ever after.
THEOREM SnapshotsHold == SerialSpec => []SnapshotIsDrawer
  <1>1. Serial => SnapshotIsDrawer
    BY DrawerBySign DEF Serial, Drawers, Snapshots, Closed, SnapshotIsDrawer
  <1> QED
    BY <1>1, AlwaysSerial, PTL

\* While calls do not race, a handover passes on exactly what was counted.
THEOREM HandoversConserve == SerialSpec => []HandoverConservesCash
  <1>1. Serial => HandoverConservesCash
    BY DEF Serial, HandedOver, HandoverConservesCash
  <1> QED
    BY <1>1, AlwaysSerial, PTL

=============================================================================
