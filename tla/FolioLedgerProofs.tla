------------------------- MODULE FolioLedgerProofs -------------------------
(***************************************************************************)
(* What holds of the ledger for any number of folios, requests, cashiers,  *)
(* shifts and accounts and for any posting lines: types, beside whatever   *)
(* handlers other services have in flight; balances, windows and voids;    *)
(* folio numbers; and that the ledger implements LedgerContract.           *)
(***************************************************************************)
EXTENDS FolioLedger, SumLaws, SequenceTheorems, FiniteSetTheorems, TLAPS

-----------------------------------------------------------------------------
(* Other services write the same tables: their handlers H, with operations *)
(* of their own, are in flight beside the ledger's.                        *)

\* The operations in flight of the ledger. Other components' handlers, in a set
\* of their own, use other names; with H = {} the ledger is alone.
LedgerOps == {"create", "postShift", "postCredit", "post", "voidShift", "void",
              "checkout", "interim", "reopen", "setAr"}
Foreign(H) == \A h \in H : h.op \notin LedgerOps

\* The ledger's tables are typed, with handlers of H among the requests.
TypedBeside(H) ==
    /\ folio \in [Folios -> FolioRow]
    /\ winbal \in [Folios -> [Windows -> Int]]
    /\ trx \in Seq(Row)
    /\ req \in [Requests -> LedgerHandler \cup H]
    /\ \A r \in Requests :
            req[r].op \in {"voidShift", "void"} => req[r].trx \in DOMAIN trx

\* On its own the ledger has no other handlers beside it.
LEMMA TypedAlone == TypeOK <=> TypedBeside({})
  BY DEF TypeOK, TypedBeside

\* A handler is the ledger's if its operation is.
LEMMA OwnHandlers ==
    ASSUME NEW H, Foreign(H), NEW h \in LedgerHandler \cup H, h.op \in LedgerOps
    PROVE  h \in LedgerHandler
  BY DEF Foreign

-----------------------------------------------------------------------------
(* What a handler in flight carries. *)

\* A posting in flight names a folio, a window, a user, a shift and its lines.
LEMMA PostingFields ==
    ASSUME NEW h \in LedgerHandler, h.op \in {"postShift", "postCredit", "post"}
    PROVE  /\ h \in [op : {"postShift", "postCredit", "post"}, folio : Folios,
                     window : Windows, user : Users, lines : PostingLines,
                     shift : ShiftRef]
           /\ h.folio \in Folios /\ h.window \in Windows /\ h.user \in Users
           /\ h.lines \in PostingLines /\ h.shift \in ShiftRef
  BY DEF LedgerHandler, Idle

\* A void in flight names a row, a user and a shift.
LEMMA VoidFields ==
    ASSUME NEW h \in LedgerHandler, h.op \in {"voidShift", "void"}
    PROVE  /\ h \in [op : {"voidShift", "void"}, trx : Nat, user : Users,
                     shift : ShiftRef]
           /\ h.trx \in Nat /\ h.user \in Users /\ h.shift \in ShiftRef
  BY DEF LedgerHandler, Idle

\* A closing or reopening in flight names a folio.
LEMMA SettleFields ==
    ASSUME NEW h \in LedgerHandler, h.op \in {"checkout", "interim", "reopen"}
    PROVE  h.folio \in Folios
  BY DEF LedgerHandler, Idle

\* A create in flight carries the count it has read.
LEMMA CreateFields ==
    ASSUME NEW h \in LedgerHandler, h.op = "create"
    PROVE  h.count \in Nat
  BY DEF LedgerHandler, Idle

\* A setArAccount in flight names a folio and an account or none.
LEMMA SetArFields ==
    ASSUME NEW h \in LedgerHandler, h.op = "setAr"
    PROVE  h.folio \in Folios /\ h.account \in Accounts \cup {NoAccount}
  BY DEF LedgerHandler, Idle

-----------------------------------------------------------------------------
(* What the two writers of rows do to the tables. *)

\* Lines and rows move balances by integers, and lines add up to one.
LEMMA ImpactsTyped ==
    /\ \A x \in Line : Impact(x) \in Int
    /\ \A x \in Row : Impact(x) \in Int
    /\ \A lines \in Seq(Line) : SumImpact(lines) \in Int
  <1>1. (\A x \in Line : Impact(x) \in Int) /\ (\A x \in Row : Impact(x) \in Int)
    BY DEF Impact, Line, Row
  <1>2. ASSUME NEW lines \in Seq(Line) PROVE SumImpact(lines) \in Int
    <2>1. DOMAIN Impacts(lines) = 1..Len(lines) /\ Len(lines) \in Nat
      BY DEF Impacts
    <2>2. \A i \in 1..Len(lines) : Impacts(lines)[i] \in Int
      BY <1>1, ElementOfSeq DEF Impacts
    <2>3. IsFiniteSet(1..Len(lines))
      BY <2>1, FS_Interval
    <2> QED
      BY <2>1, <2>2, <2>3, SumType DEF SumImpact, SumFunction
  <1> QED
    BY <1>1, <1>2

\* The sum of a posting's lines and its rows have the types the tables need.
LEMMA LinesTyped ==
    ASSUME NEW f \in Folios, NEW w \in Windows, NEW u \in Users,
           NEW sh \in ShiftRef, NEW lines \in Seq(Line)
    PROVE  /\ SumImpact(lines) \in Int
           /\ Len(lines) \in Nat
           /\ RowsFor(f, w, u, sh, lines) \in Seq(Row)
           /\ Len(RowsFor(f, w, u, sh, lines)) = Len(lines)
           /\ \A i \in 1..Len(lines) :
                /\ RowsFor(f, w, u, sh, lines)[i].related = 0
                /\ RowsFor(f, w, u, sh, lines)[i].void = FALSE
  <1>1. lines \in Seq(Line) /\ SumImpact(lines) \in Int
    BY ImpactsTyped
  <1>2. Len(lines) \in Nat
    BY <1>1
  <1>3. \A i \in 1..Len(lines) : lines[i] \in Line
    BY <1>1, ElementOfSeq
  <1> DEFINE row(i) == [folio |-> f, window |-> w, code |-> lines[i].code,
                        amount |-> lines[i].amount, sign |-> lines[i].sign,
                        user |-> u, shift |-> sh, void |-> FALSE, related |-> 0]
  <1>4. \A i \in 1..Len(lines) : row(i) \in Row
    BY <1>3 DEF Line, Row
  <1>5. RowsFor(f, w, u, sh, lines) = [i \in 1..Len(lines) |-> row(i)]
    BY DEF RowsFor
  <1>6. [i \in 1..Len(lines) |-> row(i)] \in [1..Len(lines) -> Row]
    BY <1>4
  <1>10. \A i \in 1..Len(lines) : row(i).related = 0 /\ row(i).void = FALSE
    OBVIOUS
  <1> HIDE DEF row
  <1>7. RowsFor(f, w, u, sh, lines) \in Seq(Row)
    <2>1. [i \in 1..Len(lines) |-> row(i)] \in UNION {[1..n -> Row] : n \in Nat}
      BY <1>2, <1>6
    <2> QED
      BY <2>1, <1>5, SeqDef
  <1>8. Len(RowsFor(f, w, u, sh, lines)) = Len(lines)
    BY <1>2, <1>5
  <1>9. \A i \in 1..Len(lines) : RowsFor(f, w, u, sh, lines)[i] = row(i)
    BY <1>5
  <1> QED
    BY <1>1, <1>2, <1>7, <1>8, <1>9, <1>10

\* All lines of a posting go to the folio it names.
LEMMA RowsOnFolio ==
    ASSUME NEW f, NEW w, NEW u, NEW sh, NEW lines
    PROVE  \A i \in 1..Len(lines) : RowsFor(f, w, u, sh, lines)[i].folio = f
  BY DEF RowsFor

\* persistPostingLines appends live, unlinked rows and moves one window.
LEMMA Persists ==
    ASSUME trx \in Seq(Row), winbal \in [Folios -> [Windows -> Int]],
           NEW f \in Folios, NEW w \in Windows, NEW u \in Users,
           NEW sh \in ShiftRef, NEW lines \in Seq(Line),
           PersistPostingLines(f, w, u, sh, lines)
    PROVE  /\ trx' \in Seq(Row)
           /\ winbal' \in [Folios -> [Windows -> Int]]
           /\ SumImpact(lines) \in Int
           /\ Len(trx) \in Nat /\ Len(trx') \in Nat /\ Len(trx') >= Len(trx)
           /\ Len(lines) \in Nat /\ Len(trx') = Len(trx) + Len(lines)
           /\ \A i \in 1..Len(lines) : trx'[Len(trx) + i] = RowsFor(f, w, u, sh, lines)[i]
           /\ \A i \in 1..Len(trx) : trx'[i] = trx[i]
           /\ \A i \in 1..Len(trx') : i > Len(trx) =>
                    trx'[i].related = 0 /\ trx'[i].void = FALSE /\ trx'[i].folio = f
  <1> DEFINE rows == RowsFor(f, w, u, sh, lines)
  <1>1. trx \in Seq(Row) /\ trx' = trx \o rows
    BY DEF PersistPostingLines
  <1>2. rows \in Seq(Row) /\ Len(rows) = Len(lines) /\ Len(lines) \in Nat
    BY LinesTyped
  <1>3. \A i \in 1..Len(lines) : rows[i].related = 0 /\ rows[i].void = FALSE
    BY LinesTyped
  <1>9. \A i \in 1..Len(lines) : rows[i].folio = f
    BY RowsOnFolio
  <1> HIDE DEF rows
  <1>4. /\ trx' \in Seq(Row)
        /\ Len(trx') = Len(trx) + Len(rows)
        /\ \A i \in 1..Len(trx) + Len(rows) :
                trx'[i] = IF i <= Len(trx) THEN trx[i] ELSE rows[i - Len(trx)]
    BY <1>1, <1>2, ConcatProperties
  <1>5. Len(trx) \in Nat
    BY <1>1
  <1>6. \A i \in 1..Len(trx') : i > Len(trx) =>
            trx'[i].related = 0 /\ trx'[i].void = FALSE /\ trx'[i].folio = f
    <2> TAKE i \in 1..Len(trx')
    <2> HAVE i > Len(trx)
    <2>1. i - Len(trx) \in 1..Len(lines) /\ trx'[i] = rows[i - Len(trx)]
      BY <1>2, <1>4, <1>5
    <2> QED
      BY <2>1, <1>3, <1>9
  <1>7. SumImpact(lines) \in Int
    BY ImpactsTyped
  <1>8. winbal' \in [Folios -> [Windows -> Int]]
    BY <1>7 DEF PersistPostingLines
  <1>11. \A i \in 1..Len(lines) : trx'[Len(trx) + i] = rows[i]
    <2> TAKE i \in 1..Len(lines)
    <2>1. /\ Len(trx) + i \in 1..Len(trx) + Len(rows) /\ ~(Len(trx) + i <= Len(trx))
          /\ (Len(trx) + i) - Len(trx) = i
      BY <1>2, <1>5
    <2> QED
      BY <1>4, <2>1
  <1>12. /\ Len(trx') \in Nat /\ Len(trx') >= Len(trx)
         /\ Len(trx') = Len(trx) + Len(lines)
    BY <1>2, <1>4, <1>5
  <1>13. \A i \in 1..Len(trx) : trx'[i] = trx[i]
    BY <1>2, <1>4, <1>5
  <1>14. \A i \in 1..Len(lines) : trx'[Len(trx) + i] = RowsFor(f, w, u, sh, lines)[i]
    BY <1>11 DEF rows
  <1> QED
    BY <1>2, <1>4, <1>5, <1>6, <1>7, <1>8, <1>12, <1>13, <1>14, Zenon

\* Setting a column of a folio's row to a value of its type leaves a row.
LEMMA FolioRowUpdates ==
    ASSUME NEW x \in FolioRow
    PROVE  /\ \A n \in Int : [x EXCEPT !.balance = n] \in FolioRow
           /\ \A s \in FolioStatus : [x EXCEPT !.status = s] \in FolioRow
           /\ \A b \in BOOLEAN : [x EXCEPT !.isClosed = b] \in FolioRow
           /\ \A b \in BOOLEAN : [x EXCEPT !.isInterim = b] \in FolioRow
           /\ x.balance \in Int /\ x.isInterim \in BOOLEAN
  BY DEF FolioRow

\* Replacing a folio's row by a row leaves a table of rows.
LEMMA FolioTableUpdate ==
    ASSUME folio \in [Folios -> FolioRow], NEW f \in Folios, NEW x \in FolioRow
    PROVE  [folio EXCEPT ![f] = x] \in [Folios -> FolioRow]
  OBVIOUS

\* The two records a void writes are rows.
LEMMA VoidRowsTyped ==
    ASSUME NEW x \in Row, NEW u \in Users, NEW sh \in ShiftRef, NEW t \in Nat
    PROVE  /\ [x EXCEPT !.sign = -x.sign, !.user = u, !.shift = sh,
                        !.void = FALSE, !.related = t] \in Row
           /\ [x EXCEPT !.void = TRUE, !.related = t] \in Row
  <1>1. [x EXCEPT !.sign = -x.sign] \in Row
    BY DEF Row
  <1>2. \A y \in Row : /\ [y EXCEPT !.user = u] \in Row
                       /\ [y EXCEPT !.shift = sh] \in Row
                       /\ [y EXCEPT !.related = t] \in Row
    BY DEF Row
  <1>3. \A y \in Row : [y EXCEPT !.void = FALSE] \in Row /\ [y EXCEPT !.void = TRUE] \in Row
    BY DEF Row
  <1> HIDE DEF Row
  <1>4. [x EXCEPT !.sign = -x.sign, !.user = u] \in Row
    BY <1>1, <1>2
  <1>5. [x EXCEPT !.sign = -x.sign, !.user = u, !.shift = sh] \in Row
    BY <1>2, <1>4
  <1>6. [x EXCEPT !.sign = -x.sign, !.user = u, !.shift = sh, !.void = FALSE] \in Row
    BY <1>3, <1>5
  <1>7. [x EXCEPT !.void = TRUE] \in Row
    BY <1>3
  <1> QED
    BY <1>2, <1>6, <1>7

\* A void marks and links one row and appends its reversal, linked back.
LEMMA VoidsOneRow ==
    ASSUME NEW H, Foreign(H), TypedBeside(H), NEW r \in Requests, VoidCommit(r)
    PROVE  LET t == req[r].trx
               new == Correction(t, req[r].user, req[r].shift)
           IN /\ t \in 1..Len(trx) /\ Len(trx) \in Nat
              /\ new \in Row /\ new.folio \in Folios /\ new.window \in Windows
              /\ Impact(new) \in Int
              /\ Reverses(new, trx[t]) /\ new.related = t /\ new.void = FALSE
              /\ trx' \in Seq(Row) /\ Len(trx') = Len(trx) + 1
              /\ \A i \in 1..Len(trx) :
                    trx'[i] = IF i = t
                              THEN [trx[i] EXCEPT !.void = TRUE, !.related = Len(trx) + 1]
                              ELSE trx[i]
              /\ trx'[Len(trx) + 1] = new
              /\ winbal' \in [Folios -> [Windows -> Int]]
  <1> DEFINE t == req[r].trx
             new == Correction(t, req[r].user, req[r].shift)
             marked == [trx[t] EXCEPT !.void = TRUE, !.related = Len(trx) + 1]
             old == [trx EXCEPT ![t] = marked]
  <1>1. req[r] \in LedgerHandler /\ req[r].op = "void"
    BY OwnHandlers DEF TypedBeside, VoidCommit, LedgerOps
  <1>2. t \in 1..Len(trx) /\ req[r].user \in Users /\ req[r].shift \in ShiftRef
    BY <1>1, VoidFields DEF TypedBeside
  <1>3. trx \in Seq(Row) /\ Len(trx) \in Nat
    BY DEF TypedBeside
  <1>4. trx[t] \in Row
    BY <1>2, <1>3, ElementOfSeq
  <1>5. new \in Row /\ new.related = t /\ new.void = FALSE /\ Reverses(new, trx[t])
    <2>1. new = [trx[t] EXCEPT !.sign = -trx[t].sign, !.user = req[r].user,
                    !.shift = req[r].shift, !.void = FALSE, !.related = t]
      BY DEF Correction
    <2>2. t \in Nat
      BY <1>2, <1>3
    <2>3. new \in Row
      <3> HIDE DEF t, new
      <3> QED
        BY ONLY <1>2, <1>4, <2>1, <2>2, VoidRowsTyped
    <2> QED
      BY <1>4, <2>1, <2>3 DEF Row, Reverses
  <1>6. new.folio \in Folios /\ new.window \in Windows /\ Impact(new) \in Int
    BY <1>5 DEF Row, Impact
  <1>7. marked \in Row
    <2>1. Len(trx) + 1 \in Nat
      BY <1>3
    <2>2. PICK u \in Users, sh \in ShiftRef : TRUE
      BY <1>2
    <2> QED
      BY <1>4, <2>1, <2>2, VoidRowsTyped
  <1>8. trx' = Append(old, new)
    BY <1>2, <1>3 DEF VoidCommit
  <1>9. winbal' \in [Folios -> [Windows -> Int]]
    BY <1>6 DEF VoidCommit, TypedBeside
  <1> HIDE DEF t, new, marked
  <1>10. /\ old \in Seq(Row) /\ Len(old) = Len(trx)
         /\ \A i \in 1..Len(trx) : old[i] = IF i = t THEN marked ELSE trx[i]
    BY <1>2, <1>3, <1>7, ExceptSeq
  <1> HIDE DEF old
  <1>11. /\ trx' \in Seq(Row) /\ Len(trx') = Len(trx) + 1
         /\ \A i \in 1..Len(trx) : trx'[i] = old[i]
         /\ trx'[Len(trx) + 1] = new
    BY <1>3, <1>5, <1>8, <1>10
  <1>12. \A i \in 1..Len(trx) : trx'[i] = IF i = t THEN marked ELSE trx[i]
    BY <1>10, <1>11
  <1> QED
    BY <1>2, <1>3, <1>5, <1>6, <1>9, <1>11, <1>12 DEF t, new, marked

\* The same two for the ledger on its own.
LEMMA PersistEffect ==
    ASSUME TypeOK, NEW f \in Folios, NEW w \in Windows, NEW u \in Users,
           NEW sh \in ShiftRef, NEW lines \in PostingLines,
           PersistPostingLines(f, w, u, sh, lines)
    PROVE  /\ trx' \in Seq(Row)
           /\ winbal' \in [Folios -> [Windows -> Int]]
           /\ SumImpact(lines) \in Int
           /\ Len(trx) \in Nat /\ Len(trx') \in Nat /\ Len(trx') >= Len(trx)
           /\ Len(lines) \in Nat /\ Len(trx') = Len(trx) + Len(lines)
           /\ \A i \in 1..Len(lines) : trx'[Len(trx) + i] = RowsFor(f, w, u, sh, lines)[i]
           /\ \A i \in 1..Len(trx) : trx'[i] = trx[i]
           /\ \A i \in 1..Len(trx') : i > Len(trx) =>
                    trx'[i].related = 0 /\ trx'[i].void = FALSE /\ trx'[i].folio = f
  <1>1. trx \in Seq(Row) /\ winbal \in [Folios -> [Windows -> Int]] /\ lines \in Seq(Line)
    BY LinesAssumption DEF TypeOK
  <1> QED
    BY <1>1, Persists

\* void's transaction appends the reversal and marks the original.
LEMMA VoidEffect ==
    ASSUME TypeOK, NEW r \in Requests, VoidCommit(r)
    PROVE  LET t == req[r].trx
               new == Correction(t, req[r].user, req[r].shift)
           IN /\ t \in 1..Len(trx) /\ Len(trx) \in Nat
              /\ new \in Row /\ new.folio \in Folios /\ new.window \in Windows
              /\ Impact(new) \in Int
              /\ Reverses(new, trx[t]) /\ new.related = t /\ new.void = FALSE
              /\ trx' \in Seq(Row) /\ Len(trx') = Len(trx) + 1
              /\ \A i \in 1..Len(trx) :
                    trx'[i] = IF i = t
                              THEN [trx[i] EXCEPT !.void = TRUE, !.related = Len(trx) + 1]
                              ELSE trx[i]
              /\ trx'[Len(trx) + 1] = new
              /\ winbal' \in [Folios -> [Windows -> Int]]
  <1>1. Foreign({}) /\ TypedBeside({})
    BY TypedAlone DEF Foreign
  <1> QED
    BY <1>1, VoidsOneRow

-----------------------------------------------------------------------------
(* Type correctness. *)

\* The empty tables and idle handlers are well typed.
LEMMA InitTypeOK == Init => TypeOK
  <1> SUFFICES ASSUME Init PROVE TypeOK
    OBVIOUS
  <1>1. NoFolio \in FolioRow
    BY DEF NoFolio, FolioRow, FolioStatus
  <1>2. trx = <<>> /\ trx \in Seq(Row)
    BY DEF Init
  <1>3. req \in [Requests -> LedgerHandler] /\ \A r \in Requests : req[r].op = "idle"
    BY DEF Init, Idle, LedgerHandler
  <1> QED
    BY <1>1, <1>2, <1>3 DEF Init, TypeOK

\* A step that leaves the rows alone and gives a handler a well-typed record
\* keeps the handlers typed.
LEMMA HandlersTyped ==
    ASSUME NEW H, TypedBeside(H), NEW r \in Requests, NEW h \in LedgerHandler,
           req' = [req EXCEPT ![r] = h], trx' = trx,
           h.op \in {"voidShift", "void"} => h.trx \in DOMAIN trx
    PROVE  /\ req' \in [Requests -> LedgerHandler \cup H]
           /\ \A q \in Requests :
                req'[q].op \in {"voidShift", "void"} => req'[q].trx \in DOMAIN trx'
  BY DEF TypedBeside

\* The same for a step that ends a handler and may append rows.
LEMMA HandlersEnd ==
    ASSUME NEW H, TypedBeside(H), NEW r \in Requests, End(r), trx' \in Seq(Row),
           Len(trx') >= Len(trx)
    PROVE  /\ req' \in [Requests -> LedgerHandler \cup H]
           /\ \A q \in Requests :
                req'[q].op \in {"voidShift", "void"} => req'[q].trx \in DOMAIN trx'
  <1>1. Idle \in LedgerHandler /\ Idle.op = "idle"
    BY DEF Idle, LedgerHandler
  <1>2. DOMAIN trx = 1..Len(trx) /\ DOMAIN trx' = 1..Len(trx')
        /\ Len(trx) \in Nat /\ Len(trx') \in Nat
    BY DEF TypedBeside
  <1>3. DOMAIN trx \subseteq DOMAIN trx'
    BY <1>2
  <1>4. req' = [req EXCEPT ![r] = Idle] /\ req \in [Requests -> LedgerHandler \cup H]
    BY DEF End, TypedBeside
  <1>5. \A q \in Requests : req'[q] = IF q = r THEN Idle ELSE req[q]
    BY <1>4
  <1>6. req' \in [Requests -> LedgerHandler \cup H]
    BY <1>1, <1>4
  <1>7. ASSUME NEW q \in Requests, req'[q].op \in {"voidShift", "void"}
        PROVE  req'[q].trx \in DOMAIN trx'
    <2>1. q # r
      BY <1>1, <1>5, <1>7
    <2> QED
      BY <1>3, <1>5, <1>7, <2>1 DEF TypedBeside
  <1> QED
    BY <1>6, <1>7

\* The same for a step that ends a handler and leaves the rows alone.
LEMMA HandlersEndQuietly ==
    ASSUME NEW H, TypedBeside(H), NEW r \in Requests, End(r), trx' = trx
    PROVE  /\ req' \in [Requests -> LedgerHandler \cup H]
           /\ \A q \in Requests :
                req'[q].op \in {"voidShift", "void"} => req'[q].trx \in DOMAIN trx'
  <1>1. trx' \in Seq(Row) /\ Len(trx') >= Len(trx)
    BY DEF TypedBeside
  <1> QED
    BY <1>1, HandlersEnd

\* Only these actions write a table; every other step is a handler reading.
LEMMA StepTyped ==
    ASSUME NEW H, Foreign(H), TypedBeside(H), [LedgerNext]_vars
    PROVE  TypedBeside(H)'
  <1> USE DEF ledgerVars
  <1>0. /\ folio \in [Folios -> FolioRow] /\ winbal \in [Folios -> [Windows -> Int]]
        /\ trx \in Seq(Row) /\ req \in [Requests -> LedgerHandler \cup H]
    BY DEF TypedBeside
  <1>own. \A r \in Requests : req[r].op \in LedgerOps => req[r] \in LedgerHandler
    BY <1>0, OwnHandlers
  <1>1. ASSUME NEW r \in Requests, CreateRead(r) PROVE TypedBeside(H)'
    <2>1. Cardinality({f \in Folios : Exists(f)}) \in Nat
      <3>1. IsFiniteSet(Folios)
        BY BoundsAssumption, FS_Interval DEF Folios
      <3> QED
        BY <3>1, FS_Subset, FS_CardinalityType
    <2> DEFINE h == [op |-> "create", count |-> Cardinality({f \in Folios : Exists(f)})]
    <2>2. h \in LedgerHandler /\ h.op = "create"
      BY <2>1 DEF LedgerHandler
    <2>3. req' = [req EXCEPT ![r] = h] /\ UNCHANGED ledgerVars
      BY <1>1 DEF CreateRead, Begin
    <2> HIDE DEF h
    <2> QED
      BY <1>0, <2>2, <2>3, HandlersTyped DEF TypedBeside
  <1>2. ASSUME NEW r \in Requests, CreateCommit(r) PROVE TypedBeside(H)'
    <2>1. folio' \in [Folios -> FolioRow]
      <3>1. NoFolio \in FolioRow /\ "OPEN" \in FolioStatus
        BY DEF NoFolio, FolioRow, FolioStatus
      <3>2. [NoFolio EXCEPT !.status = "OPEN"] \in FolioRow
        BY <3>1, FolioRowUpdates
      <3> QED
        BY <1>0, <1>2, <3>2 DEF CreateCommit
    <2>2. UNCHANGED <<winbal, trx>> /\ End(r)
      BY <1>2 DEF CreateCommit
    <2>9. trx' = trx
      BY <2>2
    <2> QED
      BY <1>0, <2>1, <2>2, <2>9, HandlersEndQuietly DEF TypedBeside
  <1>3. ASSUME NEW r \in Requests, NEW f \in Folios, NEW w \in PostWindows,
               NEW u \in Users, NEW lines \in PostingLines, PostRead(r, f, w, u, lines)
        PROVE  TypedBeside(H)'
    <2> DEFINE h == [op |-> "postShift", folio |-> f, window |-> w, user |-> u,
                     lines |-> lines, shift |-> NoShift]
    <2>1. h \in LedgerHandler /\ h.op = "postShift"
      BY NamesAssumption DEF LedgerHandler, ShiftRef
    <2>2. req' = [req EXCEPT ![r] = h] /\ UNCHANGED ledgerVars
      BY <1>3 DEF PostRead, Begin
    <2> HIDE DEF h
    <2> QED
      BY <1>0, <2>1, <2>2, HandlersTyped DEF TypedBeside
  <1>4. ASSUME NEW r \in Requests, NEW sh \in ShiftRef, PostResolveShift(r, sh)
        PROVE  TypedBeside(H)'
    <2> DEFINE h == [req[r] EXCEPT !.op = "postCredit", !.shift = sh]
    <2>1. req[r] \in [op : {"postShift", "postCredit", "post"}, folio : Folios,
                     window : Windows, user : Users, lines : PostingLines,
                     shift : ShiftRef]
      BY <1>own, <1>4, PostingFields DEF LedgerOps, PostResolveShift
    <2>2. h \in LedgerHandler /\ h.op = "postCredit"
      BY <2>1 DEF LedgerHandler
    <2>3. req' = [req EXCEPT ![r] = h] /\ UNCHANGED ledgerVars
      BY <1>0, <1>4 DEF PostResolveShift
    <2> HIDE DEF h
    <2> QED
      BY <1>0, <2>2, <2>3, HandlersTyped DEF TypedBeside
  <1>5. ASSUME NEW r \in Requests, PostCheckCredit(r) PROVE TypedBeside(H)'
    <2> DEFINE h == [req[r] EXCEPT !.op = "post"]
    <2>1. req[r] \in [op : {"postShift", "postCredit", "post"}, folio : Folios,
                     window : Windows, user : Users, lines : PostingLines,
                     shift : ShiftRef]
      BY <1>own, <1>5, PostingFields DEF LedgerOps, PostCheckCredit
    <2>2. h \in LedgerHandler /\ h.op = "post"
      BY <2>1 DEF LedgerHandler
    <2>3. req' = [req EXCEPT ![r] = h] /\ UNCHANGED ledgerVars
      BY <1>0, <1>5 DEF PostCheckCredit
    <2> HIDE DEF h
    <2> QED
      BY <1>0, <2>2, <2>3, HandlersTyped DEF TypedBeside
  <1>6. ASSUME NEW r \in Requests, PostCommit(r) PROVE TypedBeside(H)'
    <2>1. /\ req[r].folio \in Folios /\ req[r].window \in Windows
          /\ req[r].user \in Users /\ req[r].lines \in Seq(Line)
          /\ req[r].shift \in ShiftRef
      BY <1>own, <1>6, PostingFields, LinesAssumption DEF LedgerOps, PostCommit
    <2>2. PersistPostingLines(req[r].folio, req[r].window, req[r].user,
                              req[r].shift, req[r].lines)
      BY <1>6 DEF PostCommit
    <2>3. /\ trx' \in Seq(Row) /\ winbal' \in [Folios -> [Windows -> Int]]
          /\ SumImpact(req[r].lines) \in Int /\ Len(trx') >= Len(trx)
      BY <1>0, <2>1, <2>2, Persists
    <2>4. folio' \in [Folios -> FolioRow]
      <3> DEFINE f == req[r].folio
                 x == [folio[f] EXCEPT !.balance = @ + SumImpact(req[r].lines)]
      <3>1. folio' = [folio EXCEPT ![f] = x]
        BY <1>6 DEF PostCommit
      <3>2. x \in FolioRow
        <4>1. folio[f] \in FolioRow /\ folio[f].balance + SumImpact(req[r].lines) \in Int
          BY <1>0, <2>1, <2>3, FolioRowUpdates
        <4> QED
          BY <4>1, FolioRowUpdates
      <3> QED
        BY <1>0, <2>1, <3>1, <3>2, FolioTableUpdate
    <2>5. End(r)
      BY <1>6 DEF PostCommit
    <2> QED
      BY <2>3, <2>4, <2>5, HandlersEnd DEF TypedBeside
  <1>7. ASSUME NEW r \in Requests, NEW t \in 1..MaxTrx, NEW u \in Users, VoidRead(r, t, u)
        PROVE  TypedBeside(H)'
    <2> DEFINE h == [op |-> "voidShift", trx |-> t, user |-> u, shift |-> NoShift]
    <2>1. h \in LedgerHandler /\ h.op = "voidShift" /\ h.trx \in DOMAIN trx
      BY <1>7, BoundsAssumption DEF LedgerHandler, ShiftRef, VoidRead
    <2>2. req' = [req EXCEPT ![r] = h] /\ UNCHANGED ledgerVars
      BY <1>7 DEF VoidRead, Begin
    <2> HIDE DEF h
    <2> QED
      BY <1>0, <2>1, <2>2, HandlersTyped DEF TypedBeside
  <1>8. ASSUME NEW r \in Requests, NEW sh \in ShiftRef, VoidResolveShift(r, sh)
        PROVE  TypedBeside(H)'
    <2> DEFINE h == [req[r] EXCEPT !.op = "void", !.shift = sh]
    <2>1. /\ req[r] \in [op : {"voidShift", "void"}, trx : Nat, user : Users,
                         shift : ShiftRef]
          /\ req[r].trx \in DOMAIN trx
      BY <1>own, <1>8, VoidFields DEF LedgerOps, VoidResolveShift, TypedBeside
    <2>2. h \in LedgerHandler /\ h.op = "void" /\ h.trx \in DOMAIN trx
      BY <2>1 DEF LedgerHandler
    <2>3. req' = [req EXCEPT ![r] = h] /\ UNCHANGED ledgerVars
      BY <1>0, <1>8 DEF VoidResolveShift
    <2> HIDE DEF h
    <2> QED
      BY <1>0, <2>2, <2>3, HandlersTyped DEF TypedBeside
  <1>9. ASSUME NEW r \in Requests, VoidCommit(r) PROVE TypedBeside(H)'
    <2> DEFINE new == Correction(req[r].trx, req[r].user, req[r].shift)
    <2>1. /\ new.folio \in Folios /\ Impact(new) \in Int
          /\ trx' \in Seq(Row) /\ Len(trx) \in Nat /\ Len(trx') = Len(trx) + 1
          /\ winbal' \in [Folios -> [Windows -> Int]]
      BY <1>9, VoidsOneRow
    <2>2. folio' = [folio EXCEPT ![new.folio].balance = @ + Impact(new)] /\ End(r)
      BY <1>9 DEF VoidCommit
    <2> HIDE DEF new
    <2>3. folio' \in [Folios -> FolioRow]
      <3> DEFINE f == new.folio
                 x == [folio[f] EXCEPT !.balance = @ + Impact(new)]
      <3>1. folio' = [folio EXCEPT ![f] = x]
        BY <2>2
      <3>2. x \in FolioRow
        <4>1. folio[f] \in FolioRow /\ folio[f].balance + Impact(new) \in Int
          BY <1>0, <2>1, FolioRowUpdates
        <4> QED
          BY <4>1, FolioRowUpdates
      <3> QED
        BY <1>0, <2>1, <3>1, <3>2, FolioTableUpdate
    <2>4. Len(trx') >= Len(trx)
      BY <2>1
    <2> QED
      BY <2>1, <2>2, <2>3, <2>4, HandlersEnd DEF TypedBeside
  <1>10. ASSUME NEW r \in Requests, NEW f \in Folios,
                CheckoutRead(r, f) \/ InterimRead(r, f) \/ ReopenRead(r, f)
         PROVE  TypedBeside(H)'
    <2>1. PICK o \in {"checkout", "interim", "reopen"} :
            req' = [req EXCEPT ![r] = [op |-> o, folio |-> f]] /\ UNCHANGED ledgerVars
      BY <1>10 DEF CheckoutRead, InterimRead, ReopenRead, Begin
    <2> DEFINE h == [op |-> o, folio |-> f]
    <2>2. h \in LedgerHandler /\ h.op \notin {"voidShift", "void"}
      BY DEF LedgerHandler
    <2>3. req' = [req EXCEPT ![r] = h]
      BY <2>1
    <2> HIDE DEF h
    <2> QED
      BY <1>0, <2>1, <2>2, <2>3, HandlersTyped DEF TypedBeside
  <1>11. ASSUME NEW r \in Requests, CloseCommit(r) \/ ReopenCommit(r) PROVE TypedBeside(H)'
    <2>1. req[r].folio \in Folios
      BY <1>own, <1>11, SettleFields DEF LedgerOps, CloseCommit, ReopenCommit
    <2>2. folio' \in [Folios -> FolioRow]
      <3> DEFINE f == req[r].folio
                 shut == [folio[f] EXCEPT !.status = "CLOSED"]
                 flagged == [shut EXCEPT !.isClosed = TRUE]
                 closed == [flagged EXCEPT !.isInterim = @ \/ req[r].op = "interim"]
                 back == [folio[f] EXCEPT !.status = "OPEN"]
                 open == [back EXCEPT !.isClosed = FALSE]
      <3>0. folio[f] \in FolioRow /\ {"OPEN", "CLOSED"} \subseteq FolioStatus
        BY <1>0, <2>1 DEF FolioStatus
      <3>1. CASE CloseCommit(r)
        <4>1. folio' = [folio EXCEPT ![f] = closed]
          BY <1>0, <2>1, <3>1 DEF CloseCommit
        <4>2. shut \in FolioRow
          BY <3>0, FolioRowUpdates
        <4>3. flagged \in FolioRow
          BY <4>2, FolioRowUpdates
        <4>4. closed \in FolioRow
          BY <4>3, FolioRowUpdates
        <4> QED
          BY <1>0, <2>1, <4>1, <4>4, FolioTableUpdate
      <3>2. CASE ReopenCommit(r)
        <4>1. folio' = [folio EXCEPT ![f] = open]
          BY <1>0, <2>1, <3>2 DEF ReopenCommit
        <4>2. back \in FolioRow
          BY <3>0, FolioRowUpdates
        <4>3. open \in FolioRow
          BY <4>2, FolioRowUpdates
        <4> QED
          BY <1>0, <2>1, <4>1, <4>3, FolioTableUpdate
      <3> QED
        BY <1>11, <3>1, <3>2
    <2>3. UNCHANGED <<winbal, trx>> /\ End(r)
      BY <1>11 DEF CloseCommit, ReopenCommit
    <2>9. trx' = trx
      BY <2>3
    <2> QED
      BY <1>0, <2>2, <2>3, <2>9, HandlersEndQuietly DEF TypedBeside
  <1>12. ASSUME NEW r \in Requests, NEW f \in Folios, NEW limit \in LimitChoices,
                SetCreditLimit(r, f, limit)
         PROVE  TypedBeside(H)'
    <2>1. folio' \in [Folios -> FolioRow]
      BY <1>0, <1>12 DEF SetCreditLimit, FolioRow
    <2>2. UNCHANGED <<winbal, trx, req>>
      BY <1>12 DEF SetCreditLimit
    <2> QED
      BY <2>1, <2>2 DEF TypedBeside
  <1>13. ASSUME NEW r \in Requests, NEW f \in Folios, NEW a \in Accounts \cup {NoAccount},
                SetArRead(r, f, a)
         PROVE  TypedBeside(H)'
    <2> DEFINE h == [op |-> "setAr", folio |-> f, account |-> a]
    <2>1. h \in LedgerHandler /\ h.op = "setAr"
      BY DEF LedgerHandler
    <2>2. req' = [req EXCEPT ![r] = h] /\ UNCHANGED ledgerVars
      BY <1>13 DEF SetArRead, Begin
    <2> HIDE DEF h
    <2> QED
      BY <1>0, <2>1, <2>2, HandlersTyped DEF TypedBeside
  <1>14. ASSUME NEW r \in Requests, SetArCommit(r) PROVE TypedBeside(H)'
    <2>1. req[r].folio \in Folios /\ req[r].account \in Accounts \cup {NoAccount}
      BY <1>own, <1>14, SetArFields DEF LedgerOps, SetArCommit
    <2>2. folio' \in [Folios -> FolioRow]
      BY <1>0, <1>14, <2>1 DEF SetArCommit, FolioRow
    <2>3. UNCHANGED <<winbal, trx>> /\ End(r)
      BY <1>14 DEF SetArCommit
    <2>9. trx' = trx
      BY <2>3
    <2> QED
      BY <1>0, <2>2, <2>3, <2>9, HandlersEndQuietly DEF TypedBeside
  <1>15. ASSUME NEW r \in Requests, Fail(r) PROVE TypedBeside(H)'
    <2>1. UNCHANGED ledgerVars /\ End(r)
      BY <1>15 DEF Fail
    <2>9. trx' = trx
      BY <2>1
    <2> QED
      BY <1>0, <2>1, <2>9, HandlersEndQuietly DEF TypedBeside
  <1>16. CASE UNCHANGED vars
    BY <1>16 DEF vars, TypedBeside
  <1> QED
    BY <1>1, <1>2, <1>3, <1>4, <1>5, <1>6, <1>7, <1>8, <1>9, <1>10, <1>11, <1>12,
       <1>13, <1>14, <1>15, <1>16 DEF LedgerNext, Post, Void, Settle, Configure

\* On its own the ledger is the case without other services.
LEMMA StepTypeOK == TypeOK /\ [LedgerNext]_vars => TypeOK'
  <1> SUFFICES ASSUME TypeOK, [LedgerNext]_vars PROVE TypeOK'
    OBVIOUS
  <1>1. Foreign({}) /\ TypedBeside({})
    BY TypedAlone DEF Foreign
  <1>2. TypedBeside({})'
    BY <1>1, StepTyped
  <1> QED
    BY <1>2 DEF TypeOK, TypedBeside

\* The ledger's tables and handlers are well typed in every reachable state.
THEOREM TypeCorrect == Spec => []TypeOK
  <1>1. Init => TypeOK
    BY InitTypeOK
  <1>2. TypeOK /\ [LedgerNext]_vars => TypeOK'
    BY StepTypeOK
  <1> QED
    BY <1>1, <1>2, PTL DEF Spec, LedgerInit

-----------------------------------------------------------------------------
(* The balances and flags of the ledger agree. The inductive invariant is  *)
(* Books: no agreement is inductive by itself, because a folio that is     *)
(* created starts from zero, so nothing may have moved a balance of a      *)
(* folio that does not exist, so every handler and every row must name a   *)
(* folio that does.                                                        *)

FolioOps == {"postShift", "postCredit", "post", "checkout", "interim", "reopen", "setAr"}

\* Every handler and every row names a folio that exists.
ReferencesExist ==
    /\ \A r \in Requests : req[r].op \in FolioOps => Exists(req[r].folio)
    /\ \A i \in DOMAIN trx : Exists(trx[i].folio)

\* Nothing has moved the balance of a folio that was not created yet.
BlankUntilCreated == \A f \in Folios : ~Exists(f) => folio[f].balance = 0

Books ==
    /\ TypeOK
    /\ ReferencesExist
    /\ BlankUntilCreated
    /\ FolioIsSumOfWindows
    /\ FlagAgreesWithStatus

-----------------------------------------------------------------------------
(* The steps of a request: readers, and commits, which end the handler.    *)

Reader(r) ==
    \/ CreateRead(r) \/ Fail(r) \/ PostCheckCredit(r)
    \/ \E f \in Folios, w \in PostWindows, u \in Users, lines \in PostingLines :
            PostRead(r, f, w, u, lines)
    \/ \E sh \in ShiftRef : PostResolveShift(r, sh)
    \/ \E sh \in ShiftRef : VoidResolveShift(r, sh)
    \/ \E t \in 1..MaxTrx, u \in Users : VoidRead(r, t, u)
    \/ \E f \in Folios : CheckoutRead(r, f) \/ InterimRead(r, f) \/ ReopenRead(r, f)
    \/ \E f \in Folios, a \in Accounts \cup {NoAccount} : SetArRead(r, f, a)

Commit(r) ==
    \/ CreateCommit(r) \/ PostCommit(r) \/ VoidCommit(r)
    \/ CloseCommit(r) \/ ReopenCommit(r) \/ SetArCommit(r)

SetsLimit(r) == \E f \in Folios, limit \in LimitChoices : SetCreditLimit(r, f, limit)

\* Every step of the ledger reads, commits or sets a limit, or changes nothing.
LEMMA StepKinds ==
    ASSUME LedgerNext
    PROVE  \E r \in Requests : Reader(r) \/ Commit(r) \/ SetsLimit(r)
  <1>1. PICK r \in Requests :
            \/ CreateRead(r) \/ CreateCommit(r)
            \/ Post(r) \/ Void(r) \/ Settle(r) \/ Configure(r)
            \/ Fail(r)
    BY DEF LedgerNext
  <1>2. CreateRead(r) \/ CreateCommit(r) \/ Fail(r) => Reader(r) \/ Commit(r)
    BY DEF Reader, Commit
  <1>3. Post(r) => Reader(r) \/ Commit(r)
    BY DEF Post, Reader, Commit
  <1>4. Void(r) => Reader(r) \/ Commit(r)
    BY DEF Void, Reader, Commit
  <1>5. Settle(r) => Reader(r) \/ Commit(r)
    BY DEF Settle, Reader, Commit
  <1>6. Configure(r) => Reader(r) \/ Commit(r) \/ SetsLimit(r)
    BY DEF Configure, Reader, Commit, SetsLimit
  <1> QED
    BY <1>1, <1>2, <1>3, <1>4, <1>5, <1>6

-----------------------------------------------------------------------------
(* What each write does to the columns the agreements are about. *)

\* A posting moves one folio and one of its windows by the same amount.
Moves(f, w, n) ==
    /\ \A g \in Folios :
        /\ folio'[g].balance = folio[g].balance + (IF g = f THEN n ELSE 0)
        /\ folio'[g].status = folio[g].status
        /\ folio'[g].isClosed = folio[g].isClosed
    /\ \A g \in Folios, v \in Windows :
        winbal'[g][v] = winbal[g][v] + (IF g = f /\ v = w THEN n ELSE 0)

\* Moving a folio's balance touches no other column and no other folio.
LEMMA MoveEffect ==
    ASSUME TypeOK, NEW f \in Folios, NEW w \in Windows, NEW n \in Int,
           folio' = [folio EXCEPT ![f].balance = @ + n],
           winbal' = [winbal EXCEPT ![f][w] = @ + n]
    PROVE  Moves(f, w, n)
  <1>1. folio \in [Folios -> FolioRow] /\ winbal \in [Folios -> [Windows -> Int]]
    BY DEF TypeOK
  <1>2. \A g \in Folios : folio[g].balance \in Int
    BY <1>1, FolioRowUpdates
  <1>3. \A g \in Folios, v \in Windows : winbal[g][v] \in Int
    BY <1>1
  <1>4. \A g \in Folios :
          /\ folio'[g].balance = folio[g].balance + (IF g = f THEN n ELSE 0)
          /\ folio'[g].status = folio[g].status
          /\ folio'[g].isClosed = folio[g].isClosed
    BY <1>1, <1>2 DEF FolioRow
  <1>5. \A g \in Folios, v \in Windows :
          winbal'[g][v] = winbal[g][v] + (IF g = f /\ v = w THEN n ELSE 0)
    BY <1>1, <1>3
  <1> QED
    BY <1>4, <1>5 DEF Moves

\* A closing sets status and flag together and keeps the balance.
LEMMA CloseEffect ==
    ASSUME TypeOK, NEW r \in Requests, CloseCommit(r)
    PROVE  /\ req[r].op \in FolioOps /\ req[r].folio \in Folios
           /\ \A g \in Folios :
                /\ folio'[g].balance = folio[g].balance
                /\ folio'[g].status = IF g = req[r].folio THEN "CLOSED" ELSE folio[g].status
                /\ folio'[g].isClosed = IF g = req[r].folio THEN TRUE ELSE folio[g].isClosed
  <1>1. req[r].folio \in Folios /\ folio \in [Folios -> FolioRow]
    BY SettleFields DEF TypeOK, CloseCommit
  <1> QED
    BY <1>1 DEF CloseCommit, FolioRow, FolioOps

\* A reopening takes status and flag back together and keeps the balance.
LEMMA ReopenEffect ==
    ASSUME TypeOK, NEW r \in Requests, ReopenCommit(r)
    PROVE  /\ req[r].op \in FolioOps /\ req[r].folio \in Folios
           /\ \A g \in Folios :
                /\ folio'[g].balance = folio[g].balance
                /\ folio'[g].status = IF g = req[r].folio THEN "OPEN" ELSE folio[g].status
                /\ folio'[g].isClosed = IF g = req[r].folio THEN FALSE ELSE folio[g].isClosed
  <1>1. req[r].folio \in Folios /\ folio \in [Folios -> FolioRow]
    BY SettleFields DEF TypeOK, ReopenCommit
  <1> QED
    BY <1>1 DEF ReopenCommit, FolioRow, FolioOps

\* Setting a limit or an account keeps status, flag and balance.
LEMMA SetEffect ==
    ASSUME TypeOK,
           NEW f \in Folios, NEW v,
           \/ folio' = [folio EXCEPT ![f].creditLimit = v]
           \/ folio' = [folio EXCEPT ![f].arAccount = v]
    PROVE  \A g \in Folios :
                /\ folio'[g].balance = folio[g].balance
                /\ folio'[g].status = folio[g].status
                /\ folio'[g].isClosed = folio[g].isClosed
  <1>1. folio \in [Folios -> FolioRow]
    BY DEF TypeOK
  <1> QED
    BY <1>1 DEF FolioRow

\* One transaction writes the folio's balance and its window's by the same
\* increment, so the sum over the windows follows the folio.
LEMMA MoveKeepsSum ==
    ASSUME TypeOK, FolioIsSumOfWindows,
           NEW f \in Folios, NEW w \in Windows, NEW n \in Int, Moves(f, w, n)
    PROVE  FolioIsSumOfWindows'
  <1> SUFFICES ASSUME NEW g \in Folios
               PROVE  folio'[g].balance =
                        winbal'[g][1] + winbal'[g][2] + winbal'[g][3] + winbal'[g][4]
    BY DEF FolioIsSumOfWindows
  <1>1. {1, 2, 3, 4} \subseteq Windows /\ w \in {1, 2, 3, 4}
    BY DEF Windows
  <1>2. /\ winbal[g][1] \in Int /\ winbal[g][2] \in Int
        /\ winbal[g][3] \in Int /\ winbal[g][4] \in Int
    BY <1>1 DEF TypeOK
  <1>3. folio[g].balance = winbal[g][1] + winbal[g][2] + winbal[g][3] + winbal[g][4]
    BY DEF FolioIsSumOfWindows
  <1>4. CASE g # f
    BY <1>1, <1>2, <1>3, <1>4 DEF Moves
  <1>5. CASE g = f
    BY <1>1, <1>2, <1>3, <1>5 DEF Moves
  <1> QED
    BY <1>4, <1>5

-----------------------------------------------------------------------------
(* The inductive invariant. *)

\* The empty ledger satisfies the inductive invariant.
LEMMA InitBooks == Init => Books
  <1> SUFFICES ASSUME Init PROVE Books
    OBVIOUS
  <1>1. TypeOK
    BY InitTypeOK
  <1>2. /\ \A f \in Folios : folio[f] = NoFolio
        /\ \A f \in Folios, w \in Windows : winbal[f][w] = 0
        /\ DOMAIN trx = {}
        /\ \A r \in Requests : req[r].op = "idle"
    BY DEF Init, Idle
  <1>3. ReferencesExist /\ BlankUntilCreated /\ FlagAgreesWithStatus
    BY <1>2 DEF ReferencesExist, BlankUntilCreated, FlagAgreesWithStatus, FolioOps,
                NoFolio
  <1>4. FolioIsSumOfWindows
    <2>1. {1, 2, 3, 4} \subseteq Windows
      BY DEF Windows
    <2> QED
      BY <1>2, <2>1 DEF FolioIsSumOfWindows, NoFolio
  <1> QED
    BY <1>1, <1>3, <1>4 DEF Books

\* A step that changes no table keeps the books if the handler it writes
\* names a folio that exists.
LEMMA ReadKeepsBooks ==
    ASSUME Books, TypeOK', NEW r \in Requests, NEW h,
           UNCHANGED ledgerVars, req' = [req EXCEPT ![r] = h],
           h.op \in FolioOps => Exists(h.folio)
    PROVE  Books'
  <1>1. ReferencesExist'
    <2>1. \A q \in Requests : req'[q] = IF q = r THEN h ELSE req[q]
      BY DEF Books, TypeOK
    <2> QED
      BY <2>1 DEF Books, ReferencesExist, ledgerVars, Exists
  <1>2. BlankUntilCreated' /\ FolioIsSumOfWindows' /\ FlagAgreesWithStatus'
    BY DEF Books, BlankUntilCreated, FolioIsSumOfWindows, FlagAgreesWithStatus,
           ledgerVars, Exists
  <1> QED
    BY <1>1, <1>2 DEF Books

\* A handler that ends cannot break the references; a folio never ceases to
\* exist, and rows that are added must name one.
LEMMA ReferencesKept ==
    ASSUME Books, NEW r \in Requests, End(r),
           \A g \in Folios : Exists(g) => Exists(g)',
           \A i \in DOMAIN trx' : trx'[i].folio \in Folios /\ Exists(trx'[i].folio)
    PROVE  ReferencesExist'
  <1>1. \A q \in Requests : req'[q] = IF q = r THEN Idle ELSE req[q]
    BY DEF Books, TypeOK, End
  <1>2. ASSUME NEW q \in Requests, req'[q].op \in FolioOps
        PROVE  Exists(req[q].folio)'
    <2>1. q # r
      BY <1>1, <1>2 DEF Idle, FolioOps
    <2>2. req[q].op \in FolioOps /\ Exists(req[q].folio)
      BY <1>1, <1>2, <2>1 DEF Books, ReferencesExist
    <2>3. req[q].folio \in Folios
      BY <2>2, PostingFields, SettleFields, SetArFields DEF Books, TypeOK, FolioOps
    <2> QED
      BY <1>1, <2>1, <2>2, <2>3 DEF Exists
  <1>3. \A i \in DOMAIN trx' : folio'[trx'[i].folio].status # "NONE"
    BY DEF Exists
  <1> QED
    BY <1>2, <1>3 DEF ReferencesExist, Exists

\* Each handler's writing step keeps the inductive invariant.
LEMMA CommitKeepsBooks ==
    ASSUME Books, NEW r \in Requests, TypeOK', Commit(r)
    PROVE  Books'
  <1>0. TypeOK /\ DOMAIN trx = 1..Len(trx) /\ Len(trx) \in Nat
    BY DEF Books, TypeOK
  <1>a. \A i \in DOMAIN trx : trx[i].folio \in Folios /\ Exists(trx[i].folio)
    <2>1. \A i \in 1..Len(trx) : trx[i] \in Row
      BY <1>0, ElementOfSeq DEF TypeOK
    <2>2. \A x \in Row : x.folio \in Folios
      BY DEF Row
    <2> QED
      BY <1>0, <2>1, <2>2 DEF Books, ReferencesExist
  <1>1. CASE CreateCommit(r)
    <2> DEFINE f == req[r].count + 1
    <2>1. /\ f \in Folios /\ ~Exists(f) /\ End(r) /\ UNCHANGED <<winbal, trx>>
          /\ folio' = [folio EXCEPT ![f] = [NoFolio EXCEPT !.status = "OPEN"]]
      BY <1>1 DEF CreateCommit
    <2>2. \A g \in Folios :
            /\ folio'[g].balance = folio[g].balance
            /\ folio'[g].status = IF g = f THEN "OPEN" ELSE folio[g].status
            /\ folio'[g].isClosed = IF g = f THEN FALSE ELSE folio[g].isClosed
      BY <1>0, <2>1 DEF TypeOK, NoFolio, Books, BlankUntilCreated
    <2>3. ReferencesExist'
      BY <1>a, <2>1, <2>2, ReferencesKept DEF Exists
    <2> HIDE DEF f
    <2>4. BlankUntilCreated' /\ FlagAgreesWithStatus'
      BY <2>2 DEF Books, BlankUntilCreated, FlagAgreesWithStatus, Exists
    <2>5. FolioIsSumOfWindows'
      BY <2>1, <2>2 DEF Books, FolioIsSumOfWindows
    <2> QED
      BY <2>3, <2>4, <2>5 DEF Books
  <1>2. CASE PostCommit(r)
    <2> DEFINE f == req[r].folio
               w == req[r].window
               n == SumImpact(req[r].lines)
    <2>1. /\ f \in Folios /\ w \in Windows /\ req[r].user \in Users
          /\ req[r].lines \in PostingLines /\ req[r].shift \in ShiftRef
          /\ Exists(f)
      BY <1>0, <1>2, PostingFields
         DEF TypeOK, PostCommit, Books, ReferencesExist, FolioOps
    <2>2. PersistPostingLines(f, w, req[r].user, req[r].shift, req[r].lines)
      BY <1>2 DEF PostCommit
    <2>3. /\ n \in Int
          /\ trx' \in Seq(Row) /\ Len(trx') \in Nat
          /\ \A i \in 1..Len(trx) : trx'[i] = trx[i]
          /\ \A i \in 1..Len(trx') : i > Len(trx) => trx'[i].folio = f
      BY <1>0, <2>1, <2>2, PersistEffect
    <2>4. Moves(f, w, n)
      <3>1. /\ folio' = [folio EXCEPT ![f].balance = @ + n]
            /\ winbal' = [winbal EXCEPT ![f][w] = @ + n]
        BY <1>2 DEF PostCommit, PersistPostingLines
      <3> HIDE DEF f, w, n
      <3> QED
        BY <1>0, <2>1, <2>3, <3>1, MoveEffect
    <2>5. \A i \in DOMAIN trx' : trx'[i].folio \in Folios /\ Exists(trx'[i].folio)
      <3> TAKE i \in DOMAIN trx'
      <3>1. DOMAIN trx' = 1..Len(trx')
        BY <2>3
      <3> HIDE DEF f
      <3>2. CASE i > Len(trx)
        BY <2>1, <2>3, <3>1, <3>2
      <3>3. CASE ~(i > Len(trx))
        BY <1>0, <1>a, <2>3, <3>1, <3>3
      <3> QED
        BY <3>2, <3>3
    <2>6. End(r)
      BY <1>2 DEF PostCommit
    <2> HIDE DEF f, w, n
    <2>7. ReferencesExist'
      BY <2>4, <2>5, <2>6, ReferencesKept DEF Moves, Exists
    <2>8. FolioIsSumOfWindows'
      BY <1>0, <2>1, <2>3, <2>4, MoveKeepsSum DEF Books
    <2>9. BlankUntilCreated' /\ FlagAgreesWithStatus'
      <3>1. \A g \in Folios : folio[g].balance \in Int
        BY <1>0, FolioRowUpdates DEF TypeOK
      <3> QED
        BY <2>1, <2>4, <3>1 DEF Moves, Books, BlankUntilCreated, FlagAgreesWithStatus, Exists
    <2> QED
      BY <2>7, <2>8, <2>9 DEF Books
  <1>3. CASE VoidCommit(r)
    <2> DEFINE t == req[r].trx
               new == Correction(t, req[r].user, req[r].shift)
               f == new.folio
               w == new.window
               n == Impact(new)
    <2>1. /\ t \in 1..Len(trx) /\ f \in Folios /\ w \in Windows /\ n \in Int
          /\ f = trx[t].folio
          /\ trx' \in Seq(Row) /\ Len(trx') = Len(trx) + 1
          /\ \A i \in 1..Len(trx) : trx'[i].folio = trx[i].folio
          /\ trx'[Len(trx) + 1].folio = f
      <3>1. \A i \in 1..Len(trx) : trx[i] \in Row
        BY <1>0, ElementOfSeq DEF TypeOK
      <3> QED
        BY <1>0, <1>3, <3>1, VoidEffect DEF Reverses, Row
    <2>2. Exists(f)
      BY <1>0, <1>a, <2>1
    <2>3. Moves(f, w, n)
      <3>1. /\ folio' = [folio EXCEPT ![f].balance = @ + n]
            /\ winbal' = [winbal EXCEPT ![f][w] = @ + n]
        BY <1>3 DEF VoidCommit
      <3> HIDE DEF f, w, n
      <3> QED
        BY <1>0, <2>1, <3>1, MoveEffect
    <2> HIDE DEF f, w, n
    <2>4. \A i \in DOMAIN trx' : trx'[i].folio \in Folios /\ Exists(trx'[i].folio)
      <3>1. DOMAIN trx' = 1..(Len(trx) + 1)
        BY <1>0, <2>1
      <3> QED
        BY <1>0, <1>a, <2>1, <2>2, <3>1
    <2>5. End(r)
      BY <1>3 DEF VoidCommit
    <2>6. ReferencesExist'
      BY <2>3, <2>4, <2>5, ReferencesKept DEF Moves, Exists
    <2>7. FolioIsSumOfWindows'
      BY <1>0, <2>1, <2>3, MoveKeepsSum DEF Books
    <2>8. BlankUntilCreated' /\ FlagAgreesWithStatus'
      <3>1. \A g \in Folios : folio[g].balance \in Int
        BY <1>0, FolioRowUpdates DEF TypeOK
      <3> QED
        BY <2>2, <2>3, <3>1 DEF Moves, Books, BlankUntilCreated, FlagAgreesWithStatus, Exists
    <2> QED
      BY <2>6, <2>7, <2>8 DEF Books
  <1>4. CASE CloseCommit(r) \/ ReopenCommit(r)
    <2>1. req[r].folio \in Folios /\ Exists(req[r].folio) /\ End(r)
          /\ UNCHANGED <<winbal, trx>>
      BY <1>0, <1>4, CloseEffect, ReopenEffect
         DEF Books, ReferencesExist, CloseCommit, ReopenCommit
    <2>2. PICK s \in {"OPEN", "CLOSED"} :
            \A g \in Folios :
                /\ folio'[g].balance = folio[g].balance
                /\ folio'[g].status = IF g = req[r].folio THEN s ELSE folio[g].status
                /\ folio'[g].isClosed = IF g = req[r].folio THEN s = "CLOSED"
                                        ELSE folio[g].isClosed
      <3>1. CASE CloseCommit(r)
        <4>1. \A g \in Folios :
                /\ folio'[g].balance = folio[g].balance
                /\ folio'[g].status = IF g = req[r].folio THEN "CLOSED" ELSE folio[g].status
                /\ folio'[g].isClosed = IF g = req[r].folio THEN "CLOSED" = "CLOSED"
                                        ELSE folio[g].isClosed
          BY <1>0, <3>1, CloseEffect
        <4> QED
          BY <4>1
      <3>2. CASE ReopenCommit(r)
        <4>1. \A g \in Folios :
                /\ folio'[g].balance = folio[g].balance
                /\ folio'[g].status = IF g = req[r].folio THEN "OPEN" ELSE folio[g].status
                /\ folio'[g].isClosed = IF g = req[r].folio THEN "OPEN" = "CLOSED"
                                        ELSE folio[g].isClosed
          BY <1>0, <3>2, ReopenEffect
        <4> QED
          BY <4>1
      <3> QED
        BY <1>4, <3>1, <3>2
    <2>3. ReferencesExist'
      BY <1>a, <2>1, <2>2, ReferencesKept DEF Exists
    <2> QED
      BY <2>1, <2>2, <2>3 DEF Books, BlankUntilCreated, FolioIsSumOfWindows,
                              FlagAgreesWithStatus, Exists
  <1>5. CASE SetArCommit(r)
    <2>1. /\ req[r].folio \in Folios /\ End(r) /\ UNCHANGED <<winbal, trx>>
          /\ folio' = [folio EXCEPT ![req[r].folio].arAccount = req[r].account]
      BY <1>0, <1>5, SetArFields DEF TypeOK, SetArCommit
    <2>2. \A g \in Folios :
                /\ folio'[g].balance = folio[g].balance
                /\ folio'[g].status = folio[g].status
                /\ folio'[g].isClosed = folio[g].isClosed
      BY <1>0, <2>1, SetEffect
    <2>3. ReferencesExist'
      BY <1>a, <2>1, <2>2, ReferencesKept DEF Exists
    <2> QED
      BY <2>1, <2>2, <2>3 DEF Books, BlankUntilCreated, FolioIsSumOfWindows,
                              FlagAgreesWithStatus, Exists
  <1> QED
    BY <1>1, <1>2, <1>3, <1>4, <1>5 DEF Commit

\* A handler that reads leaves the tables alone and names a folio that exists.
ReadsInto(r, h) ==
    /\ UNCHANGED ledgerVars
    /\ req' = [req EXCEPT ![r] = h]
    /\ h.op \in FolioOps => Exists(h.folio)
    /\ h.op = "create" => CreateRead(r)

Reads(r) == \E h : ReadsInto(r, h)

\* Each handler's reading step writes no table and names folios that exist.
LEMMA ReadersRead ==
    ASSUME Books, NEW r \in Requests, Reader(r)
    PROVE  Reads(r)
  <1> USE DEF Begin, End, FolioOps, Exists
  <1>0. req \in [Requests -> LedgerHandler]
    BY DEF Books, TypeOK
  <1>1. CASE CreateRead(r)
    <2> DEFINE h == [op |-> "create", count |-> Cardinality({f \in Folios : Exists(f)})]
    <2>1. ReadsInto(r, h)
      BY <1>1 DEF CreateRead, ReadsInto
    <2> QED
      BY <2>1 DEF Reads
  <1>2. CASE Fail(r)
    <2>1. ReadsInto(r, Idle)
      BY <1>2 DEF Fail, Idle, ReadsInto
    <2> QED
      BY <2>1 DEF Reads
  <1>3. CASE PostCheckCredit(r)
    <2> DEFINE h == [req[r] EXCEPT !.op = "post"]
    <2>0. req[r] \in [op : {"postShift", "postCredit", "post"}, folio : Folios,
                     window : Windows, user : Users, lines : PostingLines,
                     shift : ShiftRef]
      BY <1>0, <1>3, PostingFields DEF PostCheckCredit
    <2>1. h.op = "post" /\ h.folio = req[r].folio /\ Exists(req[r].folio)
      BY <1>3, <2>0 DEF PostCheckCredit, Books, ReferencesExist
    <2>2. req' = [req EXCEPT ![r] = h]
      BY <1>0, <1>3 DEF PostCheckCredit
    <2>3. ReadsInto(r, h)
      BY <1>3, <2>1, <2>2 DEF PostCheckCredit, ReadsInto
    <2> QED
      BY <2>3 DEF Reads
  <1>4. ASSUME NEW f \in Folios, NEW w, NEW u, NEW lines, PostRead(r, f, w, u, lines)
        PROVE  Reads(r)
    <2> DEFINE h == [op |-> "postShift", folio |-> f, window |-> w, user |-> u,
                     lines |-> lines, shift |-> NoShift]
    <2>1. ReadsInto(r, h)
      BY <1>4 DEF PostRead, ReadsInto
    <2> QED
      BY <2>1 DEF Reads
  <1>5. ASSUME NEW sh \in ShiftRef, PostResolveShift(r, sh) PROVE Reads(r)
    <2>0. req[r] \in [op : {"postShift", "postCredit", "post"}, folio : Folios,
                     window : Windows, user : Users, lines : PostingLines,
                     shift : ShiftRef]
      BY <1>0, <1>5, PostingFields DEF PostResolveShift
    <2> DEFINE h == [req[r] EXCEPT !.op = "postCredit", !.shift = sh]
    <2>1. h.op = "postCredit" /\ h.folio = req[r].folio /\ Exists(req[r].folio)
      BY <1>5, <2>0 DEF PostResolveShift, Books, ReferencesExist
    <2>2. req' = [req EXCEPT ![r] = h]
      BY <1>0, <1>5 DEF PostResolveShift
    <2>3. ReadsInto(r, h)
      BY <1>5, <2>1, <2>2 DEF PostResolveShift, ReadsInto
    <2> QED
      BY <2>3 DEF Reads
  <1>6. ASSUME NEW sh \in ShiftRef, VoidResolveShift(r, sh) PROVE Reads(r)
    <2>0. req[r] \in [op : {"voidShift", "void"}, trx : Nat, user : Users,
                     shift : ShiftRef]
      BY <1>0, <1>6, VoidFields DEF VoidResolveShift
    <2> DEFINE h == [req[r] EXCEPT !.op = "void", !.shift = sh]
    <2>1. h.op = "void"
      BY <2>0
    <2>2. req' = [req EXCEPT ![r] = h]
      BY <1>0, <1>6 DEF VoidResolveShift
    <2>3. ReadsInto(r, h)
      BY <1>6, <2>1, <2>2 DEF VoidResolveShift, ReadsInto
    <2> QED
      BY <2>3 DEF Reads
  <1>7. ASSUME NEW t, NEW u, VoidRead(r, t, u) PROVE Reads(r)
    <2> DEFINE h == [op |-> "voidShift", trx |-> t, user |-> u, shift |-> NoShift]
    <2>1. ReadsInto(r, h)
      BY <1>7 DEF VoidRead, ReadsInto
    <2> QED
      BY <2>1 DEF Reads
  <1>8. ASSUME NEW f \in Folios, CheckoutRead(r, f) \/ InterimRead(r, f) \/ ReopenRead(r, f)
        PROVE  Reads(r)
    <2>1. PICK o \in {"checkout", "interim", "reopen"} :
            req' = [req EXCEPT ![r] = [op |-> o, folio |-> f]]
      BY <1>8 DEF CheckoutRead, InterimRead, ReopenRead
    <2> DEFINE h == [op |-> o, folio |-> f]
    <2>2. ReadsInto(r, h)
      BY <1>8, <2>1 DEF CheckoutRead, InterimRead, ReopenRead, ReadsInto
    <2> QED
      BY <2>2 DEF Reads
  <1>9. ASSUME NEW f \in Folios, NEW a, SetArRead(r, f, a) PROVE Reads(r)
    <2> DEFINE h == [op |-> "setAr", folio |-> f, account |-> a]
    <2>1. ReadsInto(r, h)
      BY <1>9 DEF SetArRead, ReadsInto
    <2> QED
      BY <2>1 DEF Reads
  <1> QED
    BY <1>1, <1>2, <1>3, <1>4, <1>5, <1>6, <1>7, <1>8, <1>9 DEF Reader

\* The inductive step: any step of any handler keeps Books.
LEMMA StepBooks == Books /\ [LedgerNext]_vars => Books'
  <1> SUFFICES ASSUME Books, [LedgerNext]_vars PROVE Books'
    OBVIOUS
  <1>1. TypeOK'
    BY StepTypeOK DEF Books
  <1>2. ASSUME NEW r \in Requests, Reader(r) PROVE Books'
    <2>1. PICK h : ReadsInto(r, h)
      BY <1>2, ReadersRead DEF Reads
    <2> QED
      BY <1>1, <2>1, ReadKeepsBooks DEF ReadsInto
  <1>3. ASSUME NEW r \in Requests, NEW f \in Folios, NEW limit \in LimitChoices,
               SetCreditLimit(r, f, limit)
        PROVE  Books'
    <2>1. /\ UNCHANGED <<winbal, trx, req>>
          /\ folio' = [folio EXCEPT ![f].creditLimit = limit]
      BY <1>3 DEF SetCreditLimit
    <2>2. \A g \in Folios :
                /\ folio'[g].balance = folio[g].balance
                /\ folio'[g].status = folio[g].status
                /\ folio'[g].isClosed = folio[g].isClosed
      BY <2>1, SetEffect DEF Books
    <2>3. \A q \in Requests : req[q].op \in FolioOps => req[q].folio \in Folios
      BY PostingFields, SettleFields, SetArFields DEF Books, TypeOK, FolioOps
    <2>4. \A i \in DOMAIN trx : trx[i].folio \in Folios
      <3>1. \A i \in DOMAIN trx : trx[i] \in Row
        BY ElementOfSeq DEF Books, TypeOK
      <3> QED
        BY <3>1 DEF Row
    <2>5. ReferencesExist'
      BY <2>1, <2>2, <2>3, <2>4 DEF Books, ReferencesExist, Exists
    <2>6. BlankUntilCreated' /\ FlagAgreesWithStatus'
      BY <2>2 DEF Books, BlankUntilCreated, FlagAgreesWithStatus, Exists
    <2>7. FolioIsSumOfWindows'
      BY <2>1, <2>2 DEF Books, FolioIsSumOfWindows
    <2> QED
      BY <1>1, <2>5, <2>6, <2>7 DEF Books
  <1>4. CASE UNCHANGED vars
    BY <1>1, <1>4 DEF vars, Books, ReferencesExist, BlankUntilCreated,
       FolioIsSumOfWindows, FlagAgreesWithStatus, Exists
  <1>5. ASSUME NEW r \in Requests, Commit(r) PROVE Books'
    BY <1>1, <1>5, CommitKeepsBooks
  <1>6. ASSUME NEW r \in Requests, SetsLimit(r) PROVE Books'
    BY <1>3, <1>6 DEF SetsLimit
  <1>7. CASE LedgerNext
    BY <1>2, <1>5, <1>6, <1>7, StepKinds
  <1> QED
    BY <1>4, <1>7

\* Books holds in every reachable state of the ledger.
LEMMA AlwaysBooks == Spec => []Books
  <1>1. Init => Books
    BY InitBooks
  <1>2. Books /\ [LedgerNext]_vars => Books'
    BY StepBooks
  <1> QED
    BY <1>1, <1>2, PTL DEF Spec, LedgerInit

\* In every interleaving of any number of postings, voids, closings and
\* reopenings the balance kept on a folio is the sum of its windows'.
THEOREM BalancesAgree == Spec => []FolioIsSumOfWindows
  <1>1. Books => FolioIsSumOfWindows
    BY DEF Books
  <1> QED
    BY <1>1, AlwaysBooks, PTL

\* The deprecated isClosed flag and the status agree in every interleaving.
THEOREM FlagsAgree == Spec => []FlagAgreesWithStatus
  <1>1. Books => FlagAgreesWithStatus
    BY DEF Books
  <1> QED
    BY <1>1, AlwaysBooks, PTL

-----------------------------------------------------------------------------
(* Corrections. *)

\* Only a posting and a void write rows and windows.
LEMMA WhoWritesRows ==
    ASSUME [LedgerNext]_vars
    PROVE  \/ UNCHANGED <<trx, winbal>>
           \/ \E r \in Requests : PostCommit(r)
           \/ \E r \in Requests : VoidCommit(r)
  <1>1. ASSUME NEW r \in Requests, Reader(r) PROVE UNCHANGED <<trx, winbal>>
    BY <1>1 DEF Reader, CreateRead, Fail, PostCheckCredit, PostRead, PostResolveShift,
       VoidResolveShift, VoidRead, CheckoutRead, InterimRead, ReopenRead, SetArRead,
       ledgerVars
  <1>2. ASSUME NEW r \in Requests, CreateCommit(r) \/ CloseCommit(r) \/ ReopenCommit(r) \/ SetArCommit(r)
        PROVE  UNCHANGED <<trx, winbal>>
    BY <1>2 DEF CreateCommit, CloseCommit, ReopenCommit, SetArCommit
  <1>3. ASSUME NEW r \in Requests, SetsLimit(r) PROVE UNCHANGED <<trx, winbal>>
    BY <1>3 DEF SetsLimit, SetCreditLimit
  <1>4. CASE UNCHANGED vars
    BY <1>4 DEF vars
  <1>5. CASE LedgerNext
    <2>1. PICK r \in Requests : Reader(r) \/ Commit(r) \/ SetsLimit(r)
      BY <1>5, StepKinds
    <2> QED
      BY <1>1, <1>2, <1>3, <2>1 DEF Commit
  <1> QED
    BY <1>4, <1>5

\* Appending live, unlinked rows disturbs no pair.
LEMMA PostKeepsPairs ==
    ASSUME TypeOK, VoidsArePaired, NEW r \in Requests, PostCommit(r)
    PROVE  VoidsArePaired'
  <1>1. /\ req[r].folio \in Folios /\ req[r].window \in Windows
        /\ req[r].user \in Users /\ req[r].lines \in PostingLines
        /\ req[r].shift \in ShiftRef
        /\ PersistPostingLines(req[r].folio, req[r].window, req[r].user,
                              req[r].shift, req[r].lines)
    BY PostingFields DEF TypeOK, PostCommit
  <1>2. /\ trx' \in Seq(Row) /\ Len(trx) \in Nat /\ Len(trx') \in Nat
        /\ Len(trx') >= Len(trx)
        /\ \A i \in 1..Len(trx) : trx'[i] = trx[i]
        /\ \A i \in 1..Len(trx') : i > Len(trx) => trx'[i].related = 0 /\ trx'[i].void = FALSE
    BY <1>1, PersistEffect
  <1>3. DOMAIN trx' = 1..Len(trx') /\ DOMAIN trx = 1..Len(trx)
    BY <1>2 DEF TypeOK
  <1> SUFFICES ASSUME NEW i \in DOMAIN trx'
               PROVE  LET j == trx'[i].related IN
                      /\ trx'[i].void => j \in DOMAIN trx' /\ j > i /\ Reverses(trx'[j], trx'[i])
                      /\ (~trx'[i].void /\ j # 0) =>
                            j \in DOMAIN trx' /\ j < i /\ trx'[j].void /\ Reverses(trx'[i], trx'[j])
    BY DEF VoidsArePaired, Reverses
  <1>4. CASE i > Len(trx)
    BY <1>2, <1>3, <1>4
  <1>5. CASE ~(i > Len(trx))
    <2>1. i \in DOMAIN trx /\ trx'[i] = trx[i]
      BY <1>2, <1>3, <1>5
    <2>2. \A j \in DOMAIN trx : j \in DOMAIN trx' /\ trx'[j] = trx[j]
      BY <1>2, <1>3
    <2> QED
      BY <2>1, <2>2 DEF VoidsArePaired
  <1> QED
    BY <1>4, <1>5

\* The void flag and the link are no part of what is reversed, so marking a
\* row leaves every pair it is in a pair; the row and its correction are one.
LEMMA VoidKeepsPairs ==
    ASSUME TypeOK, VoidsArePaired, NEW r \in Requests, VoidCommit(r)
    PROVE  VoidsArePaired'
  <1> DEFINE t == req[r].trx
             new == Correction(t, req[r].user, req[r].shift)
             n == Len(trx) + 1
  <1>1. /\ t \in 1..Len(trx) /\ Len(trx) \in Nat
        /\ new.related = t /\ new.void = FALSE /\ Reverses(new, trx[t])
        /\ trx' \in Seq(Row) /\ Len(trx') = n
        /\ \A i \in 1..Len(trx) :
                trx'[i] = IF i = t THEN [trx[i] EXCEPT !.void = TRUE, !.related = n]
                          ELSE trx[i]
        /\ trx'[n] = new
    BY VoidEffect
  <1>9. n = Len(trx) + 1
    OBVIOUS
  <1> HIDE DEF t, new, n
  <1>2. DOMAIN trx = 1..Len(trx) /\ DOMAIN trx' = 1..n
    <2>1. trx \in Seq(Row) /\ trx' \in Seq(Row)
      BY <1>1 DEF TypeOK
    <2>2. DOMAIN trx = 1..Len(trx) /\ DOMAIN trx' = 1..Len(trx')
      BY ONLY <2>1
    <2> QED
      BY <1>1, <2>2
  <1>11. Len(trx) \in Nat /\ t \in 1..Len(trx)
    BY <1>1
  <1>10. DOMAIN trx \subseteq DOMAIN trx' /\ n \in DOMAIN trx' /\ t \in DOMAIN trx
         /\ n > t /\ \A i \in DOMAIN trx' : i # n => i \in DOMAIN trx
    BY ONLY <1>2, <1>9, <1>11
  <1>3. \A i \in DOMAIN trx :
            /\ trx'[i].folio = trx[i].folio /\ trx'[i].window = trx[i].window
            /\ trx'[i].code = trx[i].code /\ trx'[i].amount = trx[i].amount
            /\ trx'[i].sign = trx[i].sign
            /\ trx'[i].void = IF i = t THEN TRUE ELSE trx[i].void
            /\ trx'[i].related = IF i = t THEN n ELSE trx[i].related
    <2>1. \A i \in DOMAIN trx : trx[i] \in Row
      BY <1>2, ElementOfSeq DEF TypeOK
    <2>2. \A x \in Row :
            LET y == [x EXCEPT !.void = TRUE, !.related = n] IN
            /\ y.folio = x.folio /\ y.window = x.window /\ y.code = x.code
            /\ y.amount = x.amount /\ y.sign = x.sign
            /\ y.void = TRUE /\ y.related = n
      BY DEF Row
    <2>3. \A x \in Row : x.void \in BOOLEAN
      BY DEF Row
    <2> TAKE i \in DOMAIN trx
    <2>4. CASE i = t
      <3>1. trx'[i] = [trx[i] EXCEPT !.void = TRUE, !.related = n] /\ trx[i] \in Row
        BY <1>1, <1>2, <2>1, <2>4
      <3> QED
        BY <2>2, <2>4, <3>1
    <2>5. CASE i # t
      BY <1>1, <1>2, <2>1, <2>3, <2>5
    <2> QED
      BY <2>4, <2>5
  <1>4. \A i, j \in DOMAIN trx : Reverses(trx[i], trx[j]) => Reverses(trx'[i], trx'[j])
    BY <1>3 DEF Reverses
  <1>5. Reverses(trx'[n], trx'[t])
    BY <1>1, <1>2, <1>3 DEF Reverses
  <1> SUFFICES ASSUME NEW i \in DOMAIN trx'
               PROVE  LET j == trx'[i].related IN
                      /\ trx'[i].void => j \in DOMAIN trx' /\ j > i /\ Reverses(trx'[j], trx'[i])
                      /\ (~trx'[i].void /\ j # 0) =>
                            j \in DOMAIN trx' /\ j < i /\ trx'[j].void /\ Reverses(trx'[i], trx'[j])
    BY DEF VoidsArePaired, Reverses
  <1>6. CASE i = n
    BY <1>1, <1>3, <1>5, <1>6, <1>10
  <1>7. CASE i = t
    BY <1>1, <1>3, <1>5, <1>7, <1>10
  <1>8. CASE i # n /\ i # t
    <2>1. i \in DOMAIN trx /\ trx'[i].void = trx[i].void /\ trx'[i].related = trx[i].related
      <3>1. i \in DOMAIN trx
        BY <1>8, <1>10
      <3> QED
        BY <1>3, <1>8, <3>1
    <2> QED
      BY <1>3, <1>4, <1>10, <2>1 DEF VoidsArePaired
  <1> QED
    BY <1>6, <1>7, <1>8

\* A voided row and the row that reverses it always come in pairs, even when
\* handlers race to void one row or a correction is itself voided.
THEOREM VoidsPaired == Spec => []VoidsArePaired
  <1>1. Init => VoidsArePaired
    BY DEF Init, VoidsArePaired
  <1>2. TypeOK /\ VoidsArePaired /\ [LedgerNext]_vars => VoidsArePaired'
    <2> SUFFICES ASSUME TypeOK, VoidsArePaired, [LedgerNext]_vars PROVE VoidsArePaired'
      OBVIOUS
    <2>1. CASE trx' = trx
      BY <2>1 DEF VoidsArePaired, Reverses
    <2> QED
      BY <2>1, WhoWritesRows, PostKeepsPairs, VoidKeepsPairs
  <1> QED
    BY <1>1, <1>2, TypeCorrect, PTL DEF Spec, LedgerInit

\* No step ever takes a row's void flag back.
THEOREM VoidsStay == Spec => VoidIsForGood
  <1>1. TypeOK /\ [LedgerNext]_vars =>
            [\A i \in DOMAIN trx : trx[i].void => trx'[i].void]_trx
    <2> SUFFICES ASSUME TypeOK, [LedgerNext]_vars, trx' # trx, NEW i \in DOMAIN trx,
                        trx[i].void
                 PROVE  trx'[i].void
      OBVIOUS
    <2>1. i \in 1..Len(trx)
      BY DEF TypeOK
    <2>2. CASE \E r \in Requests : PostCommit(r)
      <3>1. PICK r \in Requests : PostCommit(r)
        BY <2>2
      <3>2. /\ req[r].folio \in Folios /\ req[r].window \in Windows
            /\ req[r].user \in Users /\ req[r].lines \in PostingLines
            /\ req[r].shift \in ShiftRef
            /\ PersistPostingLines(req[r].folio, req[r].window, req[r].user,
                                  req[r].shift, req[r].lines)
        BY <3>1, PostingFields DEF TypeOK, PostCommit
      <3> QED
        BY <2>1, <3>2, PersistEffect
    <2>3. CASE \E r \in Requests : VoidCommit(r)
      <3>1. PICK r \in Requests : VoidCommit(r)
        BY <2>3
      <3>2. trx'[i] = trx[i] \/ trx'[i] = [trx[i] EXCEPT !.void = TRUE, !.related = Len(trx) + 1]
        BY <2>1, <3>1, VoidEffect
      <3>3. trx[i] \in Row
        BY <2>1, ElementOfSeq DEF TypeOK
      <3> QED
        BY <3>2, <3>3 DEF Row
    <2> QED
      BY <2>2, <2>3, WhoWritesRows
  <1> QED
    BY <1>1, TypeCorrect, PTL DEF Spec, LedgerInit, VoidIsForGood

-----------------------------------------------------------------------------
(* Numbers. *)

\* Every number up to the count a create carries is taken: counts never fall.
CountsAreReached ==
    \A r \in Requests :
        req[r].op = "create" => \A g \in Folios : g <= req[r].count => Exists(g)

Numbering == Books /\ NumbersWithoutGaps /\ CountsAreReached

\* Folios whose numbers have no gap are the numbers up to how many there are.
LEMMA CountIsLast ==
    ASSUME NumbersWithoutGaps, NEW f \in Folios,
           f <= Cardinality({g \in Folios : Exists(g)})
    PROVE  Exists(f)
  <1> DEFINE S == {g \in Folios : Exists(g)}
             c == Cardinality(S)
  <1>1. IsFiniteSet(Folios) /\ S \in SUBSET Folios
    BY BoundsAssumption, FS_Interval DEF Folios
  <1>2. IsFiniteSet(S) /\ c \in Nat
    BY <1>1, FS_Subset, FS_CardinalityType
  <1>3. ASSUME NEW g \in S PROVE g \in 1..c
    <2>1. g \in Nat \ {0} /\ (1..g) \in SUBSET S
      BY <1>3, BoundsAssumption DEF NumbersWithoutGaps, Folios
    <2>2. Cardinality(1..g) = g
      BY <2>1, FS_Interval
    <2>3. Cardinality(1..g) <= c
      BY <1>2, <2>1, FS_Subset
    <2> QED
      BY <1>2, <2>1, <2>2, <2>3
  <1>4. S \in SUBSET (1..c) /\ IsFiniteSet(1..c) /\ Cardinality(1..c) = c
    BY <1>2, <1>3, FS_Interval
  <1>5. S = 1..c
    BY <1>4, FS_Subset
  <1>6. f \in S
    BY <1>2, <1>5, BoundsAssumption DEF Folios
  <1> QED
    BY <1>6

\* Other steps neither create nor remove a folio, and no handler becomes a create.
LEMMA ExistenceKept ==
    ASSUME Books, [LedgerNext]_vars,
           \A r \in Requests : ~CreateCommit(r) /\ ~CreateRead(r)
    PROVE  /\ \A g \in Folios : folio'[g].status # "NONE" <=> Exists(g)
           /\ \A q \in Requests : req'[q].op = "create" => req'[q] = req[q]
  <1>0. TypeOK /\ req \in [Requests -> LedgerHandler] /\ folio \in [Folios -> FolioRow]
    BY DEF Books, TypeOK
  <1> DEFINE Kept == /\ \A g \in Folios : folio'[g].status # "NONE" <=> Exists(g)
                     /\ \A q \in Requests : req'[q].op = "create" => req'[q] = req[q]
  <1>1. ASSUME NEW r \in Requests, Reader(r) PROVE Kept
    <2>1. PICK h : ReadsInto(r, h)
      BY <1>1, ReadersRead DEF Reads
    <2>2. folio' = folio /\ req' = [req EXCEPT ![r] = h] /\ h.op # "create"
      BY <2>1 DEF ReadsInto, ledgerVars
    <2> QED
      BY <1>0, <2>2 DEF Exists
  <1>2. ASSUME NEW r \in Requests, Commit(r) PROVE Kept
    <2>1. End(r)
      BY <1>2 DEF Commit, CreateCommit, PostCommit, VoidCommit, CloseCommit, ReopenCommit,
                  SetArCommit
    <2>2. \A q \in Requests : req'[q].op = "create" => req'[q] = req[q]
      BY <1>0, <2>1 DEF End, Idle
    <2>3. CASE PostCommit(r) \/ VoidCommit(r) \/ SetArCommit(r)
      <3>1. \A g \in Folios : folio'[g].status = folio[g].status
        <4>1. CASE PostCommit(r)
          BY <1>0, <4>1 DEF PostCommit, FolioRow
        <4>2. CASE VoidCommit(r)
          BY <1>0, <4>2 DEF VoidCommit, FolioRow
        <4>3. CASE SetArCommit(r)
          BY <1>0, <4>3 DEF SetArCommit, FolioRow
        <4> QED
          BY <2>3, <4>1, <4>2, <4>3
      <3> QED
        BY <2>2, <3>1 DEF Exists
    <2>4. CASE CloseCommit(r) \/ ReopenCommit(r)
      <3>1. req[r].folio \in Folios /\ Exists(req[r].folio)
        BY <1>0, <2>4, CloseEffect, ReopenEffect DEF Books, ReferencesExist
      <3>2. \A g \in Folios : g # req[r].folio => folio'[g].status = folio[g].status
        BY <1>0, <2>4, CloseEffect, ReopenEffect
      <3>3. folio'[req[r].folio].status \in {"OPEN", "CLOSED"}
        BY <1>0, <2>4, <3>1, CloseEffect, ReopenEffect
      <3> QED
        BY <2>2, <3>1, <3>2, <3>3 DEF Exists
    <2> QED
      BY <1>2, <2>3, <2>4 DEF Commit
  <1>3. ASSUME NEW r \in Requests, SetsLimit(r) PROVE Kept
    <2>1. PICK f \in Folios, limit \in LimitChoices : SetCreditLimit(r, f, limit)
      BY <1>3 DEF SetsLimit
    <2>2. \A g \in Folios : folio'[g].status = folio[g].status
      BY <1>0, <2>1 DEF SetCreditLimit, FolioRow
    <2> QED
      BY <2>1, <2>2 DEF SetCreditLimit, Exists
  <1>4. CASE UNCHANGED vars
    BY <1>4 DEF vars, Exists
  <1>5. CASE LedgerNext
    <2>1. PICK r \in Requests : Reader(r) \/ Commit(r) \/ SetsLimit(r)
      BY <1>5, StepKinds
    <2> QED
      BY <1>1, <1>2, <1>3, <2>1
  <1> QED
    BY <1>4, <1>5

\* The inductive step for the numbering: a create uses the number after a stale
\* or a current count, and the unique index refuses the stale one.
LEMMA StepNumbering == Numbering /\ [LedgerNext]_vars => Numbering'
  <1> SUFFICES ASSUME Numbering, [LedgerNext]_vars PROVE Numbering'
    OBVIOUS
  <1>0. Books /\ TypeOK /\ req \in [Requests -> LedgerHandler] /\ folio \in [Folios -> FolioRow]
    BY DEF Numbering, Books, TypeOK
  <1>1. Books'
    BY <1>0, StepBooks
  <1>2. ASSUME NEW r \in Requests, CreateRead(r)
        PROVE  NumbersWithoutGaps' /\ CountsAreReached'
    <2> DEFINE c == Cardinality({f \in Folios : Exists(f)})
    <2>1. folio' = folio /\ \A q \in Requests : req'[q] = IF q = r THEN [op |-> "create", count |-> c] ELSE req[q]
      BY <1>0, <1>2 DEF CreateRead, Begin, ledgerVars
    <2>2. \A g \in Folios : g <= c => Exists(g)
      BY CountIsLast DEF Numbering
    <2> HIDE DEF c
    <2> QED
      BY <2>1, <2>2 DEF Numbering, NumbersWithoutGaps, CountsAreReached, Exists
  <1>3. ASSUME NEW r \in Requests, CreateCommit(r)
        PROVE  NumbersWithoutGaps' /\ CountsAreReached'
    <2> DEFINE f == req[r].count + 1
    <2>1. /\ f \in Folios /\ req[r].op = "create" /\ req[r].count \in Nat /\ End(r)
          /\ folio' = [folio EXCEPT ![f] = [NoFolio EXCEPT !.status = "OPEN"]]
      BY <1>0, <1>3, CreateFields DEF CreateCommit
    <2>2. \A g \in Folios : folio'[g].status = IF g = f THEN "OPEN" ELSE folio[g].status
      BY <1>0, <2>1 DEF NoFolio
    <2>3. \A q \in Requests : req'[q].op = "create" => req'[q] = req[q]
      BY <1>0, <2>1 DEF End, Idle
    <2>4. \A g \in Folios : g <= req[r].count => Exists(g)
      BY <2>1 DEF Numbering, CountsAreReached
    <2>5. CountsAreReached'
      BY <2>2, <2>3 DEF Numbering, CountsAreReached, Exists
    <2>6. NumbersWithoutGaps'
      <3> SUFFICES ASSUME NEW g \in Folios, folio'[g].status # "NONE", NEW k \in 1..g
                   PROVE  folio'[k].status # "NONE"
        BY DEF NumbersWithoutGaps, Exists
      <3>1. k \in Folios /\ g \in Nat
        BY BoundsAssumption DEF Folios
      <3>2. CASE g = f
        <4>1. k = f \/ k <= req[r].count
          BY <2>1, <3>1, <3>2
        <4> QED
          BY <2>2, <2>4, <3>1, <4>1 DEF Exists
      <3>3. CASE g # f
        BY <2>2, <3>1, <3>3 DEF Numbering, NumbersWithoutGaps, Exists
      <3> QED
        BY <3>2, <3>3
    <2> QED
      BY <2>5, <2>6
  <1>4. ASSUME \A r \in Requests : ~CreateCommit(r) /\ ~CreateRead(r)
        PROVE  NumbersWithoutGaps' /\ CountsAreReached'
    <2>1. /\ \A g \in Folios : folio'[g].status # "NONE" <=> Exists(g)
          /\ \A q \in Requests : req'[q].op = "create" => req'[q] = req[q]
      BY <1>0, <1>4, ExistenceKept
    <2>2. \A g \in Folios : 1..g \subseteq Folios
      BY BoundsAssumption DEF Folios
    <2> QED
      BY <2>1, <2>2 DEF Numbering, NumbersWithoutGaps, CountsAreReached, Exists
  <1> QED
    BY <1>1, <1>2, <1>3, <1>4 DEF Numbering

\* However creates interleave, no folio number is skipped.
THEOREM NoGaps == Spec => []NumbersWithoutGaps
  <1>1. Init => Numbering
    <2> SUFFICES ASSUME Init PROVE NumbersWithoutGaps /\ CountsAreReached
      BY InitBooks DEF Numbering
    <2> QED
      BY DEF Init, NumbersWithoutGaps, CountsAreReached, Exists, NoFolio, Idle
  <1>2. Numbering /\ [LedgerNext]_vars => Numbering'
    BY StepNumbering
  <1>3. Numbering => NumbersWithoutGaps
    BY DEF Numbering
  <1> QED
    BY <1>1, <1>2, <1>3, PTL DEF Spec, LedgerInit

-----------------------------------------------------------------------------
(* Rows and the balances they add up to. *)

\* The indices a sequence gains at its end.
LEMMA NewIndices ==
    ASSUME NEW n \in Nat, NEW m \in Nat
    PROVE  /\ [i \in 1..m |-> n + i] \in Bijection(1..m, (1..n + m) \ (1..n))
           /\ (1..n) \cap ((1..n + m) \ (1..n)) = {}
  <1> DEFINE h == [i \in 1..m |-> n + i]
             R == (1..n + m) \ (1..n)
  <1>1. h \in [1..m -> R]
    OBVIOUS
  <1>2. IsInjective(h)
    BY DEF IsInjective
  <1>3. \A y \in R : \E i \in 1..m : h[i] = y
    <2> TAKE y \in R
    <2>1. y - n \in 1..m /\ n + (y - n) = y
      OBVIOUS
    <2> QED
      BY <2>1
  <1> QED
    BY <1>1, <1>2, <1>3 DEF Bijection, Injection, Surjection

\* The table new is the table old, its rows worth what they were, with rows
\* worth the numbers of g added at its end.
GrowsBy(old, new, g) ==
    /\ old \in Seq(Row) /\ new \in Seq(Row) /\ g \in Seq(Int)
    /\ Len(new) = Len(old) + Len(g)
    /\ \A i \in 1..Len(old) : Impact(new[i]) = Impact(old[i])
    /\ \A i \in 1..Len(g) : Impact(new[Len(old) + i]) = g[i]

\* Rows added at the end of the table add what they are worth to a sum that
\* takes them in and nothing to one that does not.
LEMMA SumAfterAppend ==
    ASSUME NEW old, NEW new, NEW g, GrowsBy(old, new, g), NEW S \in SUBSET DOMAIN old
    PROVE  /\ SumFunctionOnSet(Impacts(new), S) = SumFunctionOnSet(Impacts(old), S)
           /\ SumFunctionOnSet(Impacts(new), S \cup (DOMAIN new \ DOMAIN old))
                = SumFunctionOnSet(Impacts(old), S) + SumFunction(g)
  <1> USE DEF GrowsBy
  <1> DEFINE n == Len(old)
             m == Len(g)
             N == 1..m
             h == [i \in 1..m |-> n + i]
             R == (1..n + m) \ (1..n)
             F == Impacts(new)
  <1>0. n \in Nat /\ m \in Nat /\ Len(new) = n + m /\ DOMAIN old = 1..n /\ DOMAIN g = N
    OBVIOUS
  <1>1. F = [i \in 1..Len(new) |-> Impact(new[i])]
    BY DEF Impacts
  <1>2. \A i \in 1..Len(new) : F[i] \in Int
    BY <1>1, ImpactsTyped, ElementOfSeq
  <1>3. S \subseteq 1..Len(new) /\ R \subseteq 1..Len(new) /\ S \cap R = {}
    BY <1>0
  <1>4. IsFiniteSet(S) /\ IsFiniteSet(N) /\ IsFiniteSet(R)
    <2>1. IsFiniteSet(1..Len(new)) /\ IsFiniteSet(1..m)
      BY <1>0, FS_Interval
    <2> HIDE DEF R
    <2> QED
      BY <1>3, <2>1, FS_Subset
  <1>5. \A i \in N : F[h[i]] = g[i] /\ g[i] \in Int
    <2> TAKE i \in N
    <2>1. h[i] = n + i /\ n + i \in 1..Len(new)
      BY <1>0
    <2> QED
      BY <1>1, <1>2, <2>1
  <1>6. h \in Bijection(N, R)
    BY <1>0, NewIndices
  <1>7. SumFunctionOnSet(F, R) = SumFunctionOnSet(g, N)
    <2> HIDE DEF h, F, R, N
    <2> QED
      BY <1>4, <1>5, <1>6, SumRenames
  <1>8. SumFunctionOnSet(F, S) = SumFunctionOnSet(Impacts(old), S)
    <2>1. \A i \in S : F[i] = Impacts(old)[i]
      BY <1>0, <1>1 DEF Impacts
    <2> HIDE DEF F
    <2> QED
      BY <1>4, <2>1, SumAgrees
  <1>9. SumFunctionOnSet(F, S \cup R) = SumFunctionOnSet(F, S) + SumFunctionOnSet(F, R)
    <2> HIDE DEF F, R
    <2> QED
      BY <1>2, <1>3, <1>4, SumSplits
  <1>10. R = DOMAIN new \ DOMAIN old
    BY <1>0
  <1> QED
    BY <1>0, <1>7, <1>8, <1>9, <1>10 DEF SumFunction

\* Where the rows of two sequences are in their concatenation.
LEMMA AppendedRows ==
    ASSUME NEW old \in Seq(Row), NEW rows \in Seq(Row)
    PROVE  /\ old \o rows \in Seq(Row) /\ Len(old) \in Nat
           /\ Len(old \o rows) = Len(old) + Len(rows)
           /\ \A i \in 1..Len(rows) : (old \o rows)[Len(old) + i] = rows[i]
           /\ \A i \in 1..Len(old) : (old \o rows)[i] = old[i]
  OBVIOUS

\* A posting adds rows worth its lines.
LEMMA PostingGrows ==
    ASSUME TypeOK, NEW r \in Requests, PostCommit(r)
    PROVE  GrowsBy(trx, trx', Impacts(req[r].lines))
  <1> DEFINE h == req[r]
             m == Len(h.lines)
             g == Impacts(h.lines)
             rows == RowsFor(h.folio, h.window, h.user, h.shift, h.lines)
  <1>1. /\ h.folio \in Folios /\ h.window \in Windows /\ h.user \in Users /\ h.shift \in ShiftRef
        /\ h.lines \in Seq(Line) /\ m \in Nat
    BY PostingFields, LinesAssumption DEF TypeOK, PostCommit
  <1>r. rows \in Seq(Row) /\ Len(rows) = m /\ \A i \in 1..m : Impact(rows[i]) = g[i]
    <2>1. rows \in Seq(Row) /\ Len(rows) = m
      <3> HIDE DEF h
      <3> QED
        BY <1>1, LinesTyped
    <2>2. \A i \in 1..m : g[i] = Impact(h.lines[i])
      BY <1>1 DEF Impacts
    <2>3. \A i \in 1..m : Impact(rows[i]) = Impact(h.lines[i])
      BY DEF RowsFor, Impact
    <2> QED
      BY <2>1, <2>2, <2>3
  <1>g. g \in Seq(Int) /\ Len(g) = m
    BY <1>1, ImpactsTyped, ElementOfSeq DEF Impacts
  <1>t. trx \in Seq(Row) /\ trx' = trx \o rows
    BY DEF TypeOK, PostCommit, PersistPostingLines
  <1>2. /\ trx' \in Seq(Row) /\ Len(trx) \in Nat /\ Len(trx') = Len(trx) + m
        /\ \A i \in 1..m : trx'[Len(trx) + i] = rows[i]
        /\ \A i \in 1..Len(trx) : trx'[i] = trx[i]
    <2> HIDE DEF rows, m, g, h
    <2> QED
      BY <1>1, <1>r, <1>t, AppendedRows
  <1>3. \A i \in 1..m : Impact(trx'[Len(trx) + i]) = g[i]
    <2> HIDE DEF rows, m, g, h
    <2> QED
      BY <1>2, <1>r
  <1>4. \A i \in 1..Len(trx) : Impact(trx'[i]) = Impact(trx[i])
    BY <1>2
  <1>5. DOMAIN trx = 1..Len(trx) /\ DOMAIN trx' = 1..Len(trx')
    BY <1>2
  <1> HIDE DEF h, m, g
  <1>6. GrowsBy(trx, trx', g)
    BY <1>2, <1>3, <1>4, <1>g, <1>t DEF GrowsBy
  <1> QED
    BY <1>6 DEF g, h

\* What a posting adds to a sum over rows of the table.
LEMMA PostingAdds ==
    ASSUME TypeOK, NEW r \in Requests, PostCommit(r), NEW S \in SUBSET DOMAIN trx
    PROVE  /\ SumFunctionOnSet(Impacts(trx'), S) = SumOfRows(S)
           /\ SumFunctionOnSet(Impacts(trx'), S \cup (DOMAIN trx' \ DOMAIN trx))
                = SumOfRows(S) + SumImpact(req[r].lines)
  <1> DEFINE g == Impacts(req[r].lines)
  <1>1. GrowsBy(trx, trx', g)
    BY PostingGrows
  <1>2. SumFunction(g) = SumImpact(req[r].lines)
    BY DEF SumImpact
  <1> HIDE DEF g
  <1> QED
    BY <1>1, <1>2, SumAfterAppend DEF SumOfRows

\* The sum of a sequence of one number.
LEMMA SumOfOne ==
    ASSUME NEW n \in Int
    PROVE  SumFunction(<<n>>) = n
  <1> DEFINE g == <<n>>
  <1>1. IsFiniteSet({}) /\ DOMAIN g = {} \cup {1} /\ 1 \notin {} /\ g[1] = n
    BY FS_EmptySet
  <1>2. \A y \in {} \cup {1} : g[y] \in Int
    BY <1>1
  <1>3. SumFunctionOnSet(g, {} \cup {1}) = g[1] + SumFunctionOnSet(g, {})
    <2> HIDE DEF g
    <2> QED
      BY <1>1, <1>2, SumGrows
  <1>4. SumFunction(g) = n
    <2> HIDE DEF g
    <2> QED
      BY <1>1, <1>3, SumOfNone DEF SumFunction
  <1> QED
    BY <1>4

\* A void adds one row, worth its correction.
LEMMA VoidGrows ==
    ASSUME TypeOK, NEW r \in Requests, VoidCommit(r)
    PROVE  GrowsBy(trx, trx', <<Impact(Correction(req[r].trx, req[r].user, req[r].shift))>>)
  <1> DEFINE t == req[r].trx
             new == Correction(t, req[r].user, req[r].shift)
             n == Impact(new)
             g == <<n>>
  <1>1. /\ t \in 1..Len(trx) /\ Len(trx) \in Nat /\ n \in Int
        /\ trx \in Seq(Row) /\ trx' \in Seq(Row) /\ Len(trx') = Len(trx) + 1
        /\ \A i \in 1..Len(trx) :
                trx'[i] = IF i = t
                          THEN [trx[i] EXCEPT !.void = TRUE, !.related = Len(trx) + 1]
                          ELSE trx[i]
        /\ Impact(trx'[Len(trx) + 1]) = n
    BY VoidEffect DEF TypeOK
  <1> HIDE DEF t, new, n
  <1>2. \A i \in 1..Len(trx) : trx[i] \in Row
    BY <1>1, ElementOfSeq
  <1>3. \A i \in 1..Len(trx) : Impact(trx'[i]) = Impact(trx[i])
    <2>1. \A x \in Row : Impact([x EXCEPT !.void = TRUE, !.related = Len(trx) + 1]) = Impact(x)
      BY DEF Impact, Row
    <2> QED
      BY <1>1, <1>2, <2>1
  <1>4. \A i \in 1..Len(g) : Impact(trx'[Len(trx) + i]) = g[i]
    <2> TAKE i \in 1..Len(g)
    <2>1. i = 1 /\ g[i] = n
      OBVIOUS
    <2> HIDE DEF g
    <2> QED
      BY <1>1, <2>1
  <1>g. g \in Seq(Int) /\ Len(g) = 1
    <2>1. n \in Int
      BY <1>1
    <2> QED
      BY ONLY <2>1
  <1> HIDE DEF g
  <1>6. GrowsBy(trx, trx', g)
    BY <1>1, <1>3, <1>4, <1>g DEF GrowsBy
  <1> QED
    BY <1>6 DEF g, n, new, t

\* What a void adds to a sum over rows of the table: its correction.
LEMMA VoidAdds ==
    ASSUME TypeOK, NEW r \in Requests, VoidCommit(r), NEW S \in SUBSET DOMAIN trx
    PROVE  /\ SumFunctionOnSet(Impacts(trx'), S) = SumOfRows(S)
           /\ SumFunctionOnSet(Impacts(trx'), S \cup (DOMAIN trx' \ DOMAIN trx))
                = SumOfRows(S) + Impact(Correction(req[r].trx, req[r].user, req[r].shift))
  <1> DEFINE n == Impact(Correction(req[r].trx, req[r].user, req[r].shift))
             g == <<n>>
  <1>1. GrowsBy(trx, trx', g)
    BY VoidGrows
  <1>2. n \in Int
    BY VoidEffect
  <1> HIDE DEF n
  <1>3. SumFunction(g) = n
    BY <1>2, SumOfOne
  <1> HIDE DEF g
  <1> QED
    BY <1>1, <1>3, SumAfterAppend DEF SumOfRows, n

\* The rows a posting writes are all of its window, and the rows before keep theirs.
LEMMA PostingRows ==
    ASSUME TypeOK, NEW r \in Requests, PostCommit(r), NEW f \in Folios, NEW w \in Windows
    PROVE  RowsOf(f, w)' = IF f = req[r].folio /\ w = req[r].window
                           THEN RowsOf(f, w) \cup (DOMAIN trx' \ DOMAIN trx)
                           ELSE RowsOf(f, w)
  <1> DEFINE h == req[r]
             rows == RowsFor(h.folio, h.window, h.user, h.shift, h.lines)
  <1>1. rows \in Seq(Row)
    <2>1. /\ h.folio \in Folios /\ h.window \in Windows /\ h.user \in Users /\ h.shift \in ShiftRef
          /\ h.lines \in Seq(Line)
      BY PostingFields, LinesAssumption DEF TypeOK, PostCommit
    <2> HIDE DEF h
    <2> QED
      BY <2>1, LinesTyped
  <1>2. \A i \in DOMAIN rows : rows[i].folio = h.folio /\ rows[i].window = h.window
    BY DEF RowsFor
  <1>3. trx \in Seq(Row) /\ trx' = trx \o rows
    BY DEF TypeOK, PostCommit, PersistPostingLines
  <1>4. /\ \A i \in DOMAIN trx : i \in DOMAIN trx' /\ trx'[i] = trx[i]
        /\ \A i \in DOMAIN trx' \ DOMAIN trx : i - Len(trx) \in DOMAIN rows /\ trx'[i] = rows[i - Len(trx)]
    <2> HIDE DEF rows
    <2> QED
      BY ONLY <1>1, <1>3
  <1>5. \A i \in DOMAIN trx' \ DOMAIN trx : trx'[i].folio = h.folio /\ trx'[i].window = h.window
    <2> HIDE DEF rows, h
    <2> QED
      BY <1>2, <1>4
  <1> HIDE DEF rows, h
  <1>6. RowsOf(f, w)' = {i \in DOMAIN trx' : trx'[i].folio = f /\ trx'[i].window = w}
    BY DEF RowsOf
  <1>7. RowsOf(f, w) = {i \in DOMAIN trx : trx[i].folio = f /\ trx[i].window = w}
    BY DEF RowsOf
  <1>8. CASE f = h.folio /\ w = h.window
    <2>1. \A i : i \in RowsOf(f, w)' <=> i \in RowsOf(f, w) \cup (DOMAIN trx' \ DOMAIN trx)
      BY <1>4, <1>5, <1>6, <1>7, <1>8
    <2> HIDE DEF RowsOf
    <2>2. RowsOf(f, w)' = RowsOf(f, w) \cup (DOMAIN trx' \ DOMAIN trx)
      BY <2>1
    <2> QED
      BY <1>8, <2>2 DEF h
  <1>9. CASE ~(f = h.folio /\ w = h.window)
    <2>1. \A i : i \in RowsOf(f, w)' <=> i \in RowsOf(f, w)
      BY <1>4, <1>5, <1>6, <1>7, <1>9
    <2>2. RowsOf(f, w)' = RowsOf(f, w)
      BY <2>1
    <2> QED
      BY <1>9, <2>2 DEF h
  <1> QED
    BY <1>8, <1>9

\* A correction is a row of the window of the row it corrects, which keeps its own.
LEMMA VoidRows ==
    ASSUME TypeOK, NEW r \in Requests, VoidCommit(r), NEW f \in Folios, NEW w \in Windows
    PROVE  LET new == Correction(req[r].trx, req[r].user, req[r].shift) IN
           RowsOf(f, w)' = IF f = new.folio /\ w = new.window
                           THEN RowsOf(f, w) \cup (DOMAIN trx' \ DOMAIN trx)
                           ELSE RowsOf(f, w)
  <1> DEFINE t == req[r].trx
             new == Correction(t, req[r].user, req[r].shift)
  <1>1. /\ t \in 1..Len(trx) /\ Len(trx) \in Nat
        /\ trx \in Seq(Row) /\ trx' \in Seq(Row) /\ Len(trx') = Len(trx) + 1
        /\ \A i \in 1..Len(trx) :
                trx'[i] = IF i = t
                          THEN [trx[i] EXCEPT !.void = TRUE, !.related = Len(trx) + 1]
                          ELSE trx[i]
        /\ trx'[Len(trx) + 1] = new
    BY VoidEffect DEF TypeOK
  <1> HIDE DEF t, new
  <1>2. \A i \in 1..Len(trx) : trx'[i].folio = trx[i].folio /\ trx'[i].window = trx[i].window
    <2>1. \A i \in 1..Len(trx) : trx[i] \in Row
      BY <1>1, ElementOfSeq
    <2>2. \A x \in Row : LET y == [x EXCEPT !.void = TRUE, !.related = Len(trx) + 1]
                         IN  y.folio = x.folio /\ y.window = x.window
      BY DEF Row
    <2> QED
      BY <1>1, <2>1, <2>2
  <1>3. /\ DOMAIN trx = 1..Len(trx) /\ DOMAIN trx' = 1..(Len(trx) + 1)
        /\ DOMAIN trx' \ DOMAIN trx = {Len(trx) + 1}
    <2>1. trx \in Seq(Row) /\ trx' \in Seq(Row) /\ Len(trx') = Len(trx) + 1 /\ Len(trx) \in Nat
      BY <1>1
    <2>2. DOMAIN trx = 1..Len(trx) /\ DOMAIN trx' = 1..(Len(trx) + 1)
      BY ONLY <2>1
    <2> QED
      BY ONLY <2>1, <2>2
  <1>6. RowsOf(f, w)' = {i \in DOMAIN trx' : trx'[i].folio = f /\ trx'[i].window = w}
    BY DEF RowsOf
  <1>7. RowsOf(f, w) = {i \in DOMAIN trx : trx[i].folio = f /\ trx[i].window = w}
    BY DEF RowsOf
  <1>4. \A i \in DOMAIN trx : i \in DOMAIN trx' /\ trx'[i].folio = trx[i].folio
                                                /\ trx'[i].window = trx[i].window
    <2>1. Len(trx) \in Nat
      BY <1>1
    <2>2. \A i \in DOMAIN trx : i \in DOMAIN trx' /\ i \in 1..Len(trx)
      BY ONLY <1>3, <2>1
    <2> QED
      BY ONLY <1>2, <2>2
  <1>5. \A i \in DOMAIN trx' \ DOMAIN trx : trx'[i] = new
    BY <1>1, <1>3
  <1>8. CASE f = new.folio /\ w = new.window
    <2>1. \A i : i \in RowsOf(f, w)' <=> i \in RowsOf(f, w) \cup (DOMAIN trx' \ DOMAIN trx)
      BY <1>4, <1>5, <1>6, <1>7, <1>8
    <2>2. RowsOf(f, w)' = RowsOf(f, w) \cup (DOMAIN trx' \ DOMAIN trx)
      BY <2>1
    <2> QED
      BY <1>8, <2>2 DEF new, t
  <1>9. CASE ~(f = new.folio /\ w = new.window)
    <2>1. \A i : i \in RowsOf(f, w)' <=> i \in RowsOf(f, w)
      BY <1>4, <1>5, <1>6, <1>7, <1>9
    <2>2. RowsOf(f, w)' = RowsOf(f, w)
      BY <2>1
    <2> QED
      BY <1>9, <2>2 DEF new, t
  <1> QED
    BY <1>8, <1>9

\* Every window is worth its rows.
Summed == TypeOK /\ WindowIsSumOfRows

\* A posting moves its window by what its rows are worth.
LEMMA PostKeepsSums ==
    ASSUME Summed, NEW r \in Requests, PostCommit(r)
    PROVE  WindowIsSumOfRows'
  <1> DEFINE f == req[r].folio
             w == req[r].window
             n == SumImpact(req[r].lines)
             new == DOMAIN trx' \ DOMAIN trx
  <1>0. TypeOK
    BY DEF Summed
  <1>1. f \in Folios /\ w \in Windows /\ n \in Int
    BY <1>0, PostingFields, LinesAssumption, ImpactsTyped DEF TypeOK, PostCommit
  <1>2. \A g \in Folios, v \in Windows :
            winbal'[g][v] = IF g = f /\ v = w THEN winbal[g][v] + n ELSE winbal[g][v]
    <2>1. winbal' = [winbal EXCEPT ![f][w] = @ + n] /\ winbal \in [Folios -> [Windows -> Int]]
      BY <1>0 DEF PostCommit, PersistPostingLines, TypeOK
    <2> HIDE DEF f, w, n
    <2> QED
      BY <1>1, <2>1
  <1> SUFFICES ASSUME NEW g \in Folios, NEW v \in Windows
               PROVE  winbal'[g][v] = SumFunctionOnSet(Impacts(trx'), RowsOf(g, v)')
    BY DEF WindowIsSumOfRows, SumOfRows
  <1>3. winbal[g][v] = SumOfRows(RowsOf(g, v)) /\ RowsOf(g, v) \in SUBSET DOMAIN trx
    BY DEF Summed, WindowIsSumOfRows, RowsOf
  <1>4. RowsOf(g, v)' = IF g = f /\ v = w THEN RowsOf(g, v) \cup new ELSE RowsOf(g, v)
    BY <1>0, PostingRows
  <1>5. /\ SumFunctionOnSet(Impacts(trx'), RowsOf(g, v)) = SumOfRows(RowsOf(g, v))
        /\ SumFunctionOnSet(Impacts(trx'), RowsOf(g, v) \cup new) = SumOfRows(RowsOf(g, v)) + n
    <2> DEFINE S == RowsOf(g, v)
    <2>1. S \in SUBSET DOMAIN trx
      BY <1>3
    <2> HIDE DEF S
    <2>2. /\ SumFunctionOnSet(Impacts(trx'), S) = SumOfRows(S)
          /\ SumFunctionOnSet(Impacts(trx'), S \cup new) = SumOfRows(S) + n
      BY <1>0, <2>1, PostingAdds
    <2> QED
      BY <2>2 DEF S
  <1> HIDE DEF f, w, n, new
  <1> QED
    BY <1>2, <1>3, <1>4, <1>5

\* A void moves the window of its row by what the correction is worth.
LEMMA VoidKeepsSums ==
    ASSUME Summed, NEW r \in Requests, VoidCommit(r)
    PROVE  WindowIsSumOfRows'
  <1> DEFINE c == Correction(req[r].trx, req[r].user, req[r].shift)
             f == c.folio
             w == c.window
             n == Impact(c)
             new == DOMAIN trx' \ DOMAIN trx
  <1>0. TypeOK
    BY DEF Summed
  <1>1. f \in Folios /\ w \in Windows /\ n \in Int
    BY <1>0, VoidEffect
  <1>2. \A g \in Folios, v \in Windows :
            winbal'[g][v] = IF g = f /\ v = w THEN winbal[g][v] + n ELSE winbal[g][v]
    <2>1. winbal' = [winbal EXCEPT ![f][w] = @ + n] /\ winbal \in [Folios -> [Windows -> Int]]
      BY <1>0 DEF VoidCommit, TypeOK
    <2> HIDE DEF f, w, n
    <2> QED
      BY <1>1, <2>1
  <1> SUFFICES ASSUME NEW g \in Folios, NEW v \in Windows
               PROVE  winbal'[g][v] = SumFunctionOnSet(Impacts(trx'), RowsOf(g, v)')
    BY DEF WindowIsSumOfRows, SumOfRows
  <1>3. winbal[g][v] = SumOfRows(RowsOf(g, v)) /\ RowsOf(g, v) \in SUBSET DOMAIN trx
    BY DEF Summed, WindowIsSumOfRows, RowsOf
  <1>4. RowsOf(g, v)' = IF g = f /\ v = w THEN RowsOf(g, v) \cup new ELSE RowsOf(g, v)
    BY <1>0, VoidRows
  <1>5. /\ SumFunctionOnSet(Impacts(trx'), RowsOf(g, v)) = SumOfRows(RowsOf(g, v))
        /\ SumFunctionOnSet(Impacts(trx'), RowsOf(g, v) \cup new) = SumOfRows(RowsOf(g, v)) + n
    <2> DEFINE S == RowsOf(g, v)
    <2>1. S \in SUBSET DOMAIN trx
      BY <1>3
    <2> HIDE DEF S
    <2>2. /\ SumFunctionOnSet(Impacts(trx'), S) = SumOfRows(S)
          /\ SumFunctionOnSet(Impacts(trx'), S \cup new) = SumOfRows(S) + n
      BY <1>0, <2>1, VoidAdds
    <2> QED
      BY <2>2 DEF S
  <1> HIDE DEF f, w, n, new
  <1> QED
    BY <1>2, <1>3, <1>4, <1>5

\* However postings and voids interleave, and whichever rows a void copies, a
\* window's balance is the signed sum of every row ever written to it.
THEOREM WindowsAreSummed == Spec => []WindowIsSumOfRows
  <1>1. Init => Summed
    <2> SUFFICES ASSUME Init, NEW f \in Folios, NEW w \in Windows
                 PROVE  winbal[f][w] = SumOfRows(RowsOf(f, w))
      BY InitTypeOK DEF Summed, WindowIsSumOfRows
    <2>1. winbal[f][w] = 0 /\ RowsOf(f, w) = {}
      BY DEF Init, RowsOf
    <2> QED
      BY <2>1, SumOfNone DEF SumOfRows
  <1>2. Summed /\ [LedgerNext]_vars => Summed'
    <2> SUFFICES ASSUME Summed, [LedgerNext]_vars PROVE Summed'
      OBVIOUS
    <2>1. TypeOK'
      BY StepTypeOK DEF Summed
    <2>2. CASE UNCHANGED <<trx, winbal>>
      BY <2>1, <2>2 DEF Summed, WindowIsSumOfRows, SumOfRows, RowsOf
    <2> QED
      BY <2>1, <2>2, WhoWritesRows, PostKeepsSums, VoidKeepsSums DEF Summed
  <1>3. Summed => WindowIsSumOfRows
    BY DEF Summed
  <1> QED
    BY <1>1, <1>2, <1>3, PTL DEF Spec, LedgerInit

-----------------------------------------------------------------------------
(* The refinement of LedgerContract. *)

\* A step books the numbers of g on one folio: rows worth g end the table, the
\* facts of the rows before are kept, and the folio's balance moves by their sum.
BooksOn(f, g) ==
    /\ GrowsBy(trx, trx', g)
    /\ \A i \in DOMAIN trx : Facts'[i] = Facts[i]
    /\ \A i \in DOMAIN trx' \ DOMAIN trx : trx'[i].folio = f
    /\ \A k \in Folios :
            folio'[k].balance = folio[k].balance + (IF k = f THEN SumFunction(g) ELSE 0)

\* A sequence that keeps another's elements is that sequence with its own end.
LEMMA EndOfSequence ==
    ASSUME NEW T, NEW old \in Seq(T), NEW new \in Seq(T), NEW m \in Nat,
           Len(new) = Len(old) + m, \A i \in 1..Len(old) : new[i] = old[i]
    PROVE  LET end == SubSeq(new, Len(old) + 1, Len(new)) IN
           /\ new = old \o end
           /\ Len(end) = m /\ DOMAIN end = 1..m
           /\ \A i \in 1..m : end[i] = new[Len(old) + i]
  <1> DEFINE end == SubSeq(new, Len(old) + 1, Len(new))
  <1>1. /\ end \in Seq(T) /\ Len(end) = m /\ DOMAIN end = 1..m
        /\ \A i \in 1..m : end[i] = new[Len(old) + i]
    OBVIOUS
  <1> HIDE DEF end
  <1>2. /\ old \o end \in Seq(T) /\ Len(old \o end) = Len(old) + m
        /\ \A i \in 1..Len(old) + m :
                (old \o end)[i] = IF i <= Len(old) THEN old[i] ELSE end[i - Len(old)]
    BY <1>1, ConcatProperties
  <1>3. \A i \in 1..Len(new) : new[i] = (old \o end)[i]
    <2> TAKE i \in 1..Len(new)
    <2>0. Len(old) \in Nat /\ i \in 1..Len(old) + m
      OBVIOUS
    <2>1. CASE i <= Len(old)
      BY <1>2, <2>0, <2>1
    <2>2. CASE ~(i <= Len(old))
      <3>1. i - Len(old) \in 1..m /\ Len(old) + (i - Len(old)) = i
        BY <2>0, <2>2
      <3>2. new[i] = end[i - Len(old)]
        BY <1>1, <3>1
      <3> QED
        BY <1>2, <2>0, <2>2, <3>2
    <2> QED
      BY ONLY <2>1, <2>2
  <1>4. new = old \o end
    BY <1>2, <1>3, SeqEqual
  <1> QED
    BY <1>1, <1>4 DEF end

\* What LedgerContract keeps of a row.
Fact == [folio : Folios, window : Windows, code : STRING, amount : Int, sign : {-1, 1},
         user : Users, shift : ShiftRef]

FactOf(x) == [folio |-> x.folio, window |-> x.window, code |-> x.code, amount |-> x.amount,
              sign |-> x.sign, user |-> x.user, shift |-> x.shift]
FactsOf(rows) == [i \in DOMAIN rows |-> FactOf(rows[i])]

\* The facts of a table are a sequence as long as the table.
LEMMA FactsTyped ==
    ASSUME NEW rows \in Seq(Row)
    PROVE  /\ FactsOf(rows) \in Seq(Fact) /\ Len(FactsOf(rows)) = Len(rows)
           /\ \A i \in 1..Len(rows) : FactsOf(rows)[i] = FactOf(rows[i])
  <1>1. DOMAIN rows = 1..Len(rows) /\ Len(rows) \in Nat
    OBVIOUS
  <1>2. \A i \in 1..Len(rows) : FactOf(rows[i]) \in Fact
    <2>1. \A x \in Row : FactOf(x) \in Fact
      BY DEF Row, Fact, FactOf
    <2> QED
      BY <2>1, ElementOfSeq
  <1>3. FactsOf(rows) = [i \in 1..Len(rows) |-> FactOf(rows[i])]
    BY <1>1 DEF FactsOf
  <1> QED
    BY <1>1, <1>2, <1>3

\* What is appended to the facts are the facts of the new rows, worth g.
LEMMA AppendedFacts ==
    ASSUME NEW f \in Folios, NEW g, BooksOn(f, g)
    PROVE  /\ Facts' = Facts \o Contract!Appended
           /\ DOMAIN Contract!Appended = DOMAIN g
           /\ \A i \in DOMAIN g : /\ Contract!Appended[i].folio = f
                                  /\ Contract!Signed(Contract!Appended[i]) = g[i]
  <1> DEFINE A == SubSeq(Facts', Len(Facts) + 1, Len(Facts'))
             m == Len(g)
  <1>1. Contract!Appended = A
    BY DEF Contract!Appended
  <1>2. /\ trx \in Seq(Row) /\ trx' \in Seq(Row) /\ g \in Seq(Int) /\ m \in Nat /\ DOMAIN g = 1..m
        /\ Len(trx) \in Nat /\ Len(trx') = Len(trx) + m
        /\ \A i \in 1..m : Impact(trx'[Len(trx) + i]) = g[i]
    BY DEF BooksOn, GrowsBy
  <1>3. Facts \in Seq(Fact) /\ Len(Facts) = Len(trx)
    <2>1. Facts = FactsOf(trx)
      BY DEF Facts, FactsOf, FactOf
    <2> QED
      BY <1>2, <2>1, FactsTyped
  <1>4. /\ Facts' \in Seq(Fact) /\ Len(Facts') = Len(trx')
        /\ \A i \in 1..Len(trx') : /\ Facts'[i].folio = trx'[i].folio
                                   /\ Facts'[i].sign = trx'[i].sign
                                   /\ Facts'[i].amount = trx'[i].amount
    <2>1. Facts' = FactsOf(trx')
      BY DEF Facts, FactsOf, FactOf
    <2>2. /\ Facts' \in Seq(Fact) /\ Len(Facts') = Len(trx')
          /\ \A i \in 1..Len(trx') : Facts'[i] = FactOf(trx'[i])
      <3> DEFINE F == Facts'
                 R == trx'
      <3>1. F = FactsOf(R) /\ R \in Seq(Row)
        BY <1>2, <2>1
      <3> HIDE DEF F, R
      <3>2. F \in Seq(Fact) /\ Len(F) = Len(R) /\ \A i \in 1..Len(R) : F[i] = FactOf(R[i])
        BY <3>1, FactsTyped
      <3> QED
        BY <3>2 DEF F, R
    <2>3. \A x : FactOf(x).folio = x.folio /\ FactOf(x).sign = x.sign /\ FactOf(x).amount = x.amount
      BY DEF FactOf
    <2> QED
      BY <2>2, <2>3
  <1>5. \A i \in 1..Len(Facts) : Facts'[i] = Facts[i]
    BY <1>2, <1>3 DEF BooksOn
  <1>6. /\ Facts' = Facts \o A /\ DOMAIN A = 1..m
        /\ \A i \in 1..m : A[i] = Facts'[Len(Facts) + i]
    <2> DEFINE F == Facts
               G == Facts'
    <2>1. /\ F \in Seq(Fact) /\ G \in Seq(Fact) /\ m \in Nat /\ Len(G) = Len(F) + m
          /\ \A i \in 1..Len(F) : G[i] = F[i]
      BY <1>2, <1>3, <1>4, <1>5
    <2> HIDE DEF F, G, m
    <2>2. LET end == SubSeq(G, Len(F) + 1, Len(G)) IN
          /\ G = F \o end /\ DOMAIN end = 1..m
          /\ \A i \in 1..m : end[i] = G[Len(F) + i]
      BY <2>1, EndOfSequence
    <2> QED
      BY <2>2 DEF F, G
  <1> HIDE DEF A, m
  <1>7. \A i \in 1..m : Len(trx) + i \in 1..Len(trx') /\ Len(trx) + i \in DOMAIN trx' \ DOMAIN trx
    BY <1>2
  <1>8. \A i \in 1..m : A[i].folio = f
    <2> TAKE i \in 1..m
    <2>1. /\ Len(trx) + i \in 1..Len(trx') /\ Len(trx) + i \in DOMAIN trx' \ DOMAIN trx
          /\ A[i] = Facts'[Len(trx) + i]
      BY <1>3, <1>6, <1>7
    <2> QED
      BY <1>4, <2>1 DEF BooksOn
  <1>9. \A i \in 1..m : Contract!Signed(A[i]) = g[i]
    <2> TAKE i \in 1..m
    <2>1. Len(trx) + i \in 1..Len(trx') /\ A[i] = Facts'[Len(trx) + i]
      BY <1>3, <1>6, <1>7
    <2>2. Contract!Signed(A[i]) = Impact(trx'[Len(trx) + i])
      BY <1>4, <2>1 DEF Contract!Signed, Impact
    <2> QED
      BY <1>2, <2>2
  <1> QED
    BY <1>1, <1>2, <1>6, <1>8, <1>9

\* The contract's sums are the ledger's.
LEMMA SameSums ==
    ASSUME NEW g
    PROVE  Contract!SumFunction(g) = SumFunction(g)
  BY DEF Contract!SumFunction, SumFunction, Contract!SumFunctionOnSet, SumFunctionOnSet,
         Contract!FoldFunctionOnSet, FoldFunctionOnSet, Contract!MapThenFoldSet, MapThenFoldSet

\* Such a step is an append of the contract.
LEMMA BooksOnRefines ==
    ASSUME NEW f \in Folios, NEW g, BooksOn(f, g),
           \A k \in Folios : folio[k].balance \in Int
    PROVE  Contract!Book(f)
  <1> DEFINE A == Contract!Appended
  <1>1. /\ Facts' = Facts \o A /\ DOMAIN A = DOMAIN g
        /\ \A i \in DOMAIN g : A[i].folio = f /\ Contract!Signed(A[i]) = g[i]
    BY AppendedFacts
  <1>2. g \in Seq(Int)
    BY DEF BooksOn, GrowsBy
  <1> HIDE DEF A
  <1>3. Contract!Total(A) = SumFunction(g)
    <2> DEFINE S == [i \in DOMAIN A |-> Contract!Signed(A[i])]
    <2>1. S = g
      <3>1. g = [i \in DOMAIN g |-> g[i]]
        BY <1>2
      <3> QED
        BY <1>1, <3>1
    <2> HIDE DEF S
    <2>2. Contract!Total(A) = Contract!SumFunction(S)
      BY DEF Contract!Total, S
    <2> QED
      BY <2>1, <2>2, SameSums
  <1>4. Balances' = [Balances EXCEPT ![f] = @ + Contract!Total(A)]
    <2> DEFINE n == SumFunction(g)
    <2>1. \A k \in Folios : folio'[k].balance = folio[k].balance + (IF k = f THEN n ELSE 0)
      BY DEF BooksOn
    <2> HIDE DEF n
    <2>2. \A k \in Folios :
            folio'[k].balance = IF k = f THEN folio[k].balance + n ELSE folio[k].balance
      BY <2>1
    <2>3. Balances' = [Balances EXCEPT ![f] = @ + n]
      BY <2>2 DEF Balances
    <2> QED
      BY <1>3, <2>3 DEF n
  <1> QED
    BY <1>1, <1>4 DEF Contract!Book, A

\* A posting is such a step.
LEMMA PostBooks ==
    ASSUME TypeOK, NEW r \in Requests, PostCommit(r)
    PROVE  \E f \in Folios : \E g : BooksOn(f, g)
  <1> DEFINE f == req[r].folio
             w == req[r].window
             g == Impacts(req[r].lines)
             n == SumImpact(req[r].lines)
  <1>1. /\ f \in Folios /\ w \in Windows /\ n \in Int /\ n = SumFunction(g)
        /\ req[r].user \in Users /\ req[r].shift \in ShiftRef
        /\ req[r].lines \in PostingLines
        /\ PersistPostingLines(f, w, req[r].user, req[r].shift, req[r].lines)
    BY PostingFields, LinesAssumption, ImpactsTyped DEF TypeOK, PostCommit, SumImpact
  <1>2. GrowsBy(trx, trx', g)
    BY PostingGrows
  <1>3. Moves(f, w, n)
    <2>1. folio' = [folio EXCEPT ![f].balance = @ + n] /\ winbal' = [winbal EXCEPT ![f][w] = @ + n]
      BY DEF PostCommit, PersistPostingLines
    <2> HIDE DEF f, w, n
    <2> QED
      BY <1>1, <2>1, MoveEffect
  <1>4. /\ trx \in Seq(Row) /\ trx' \in Seq(Row)
        /\ \A i \in 1..Len(trx) : trx'[i] = trx[i]
        /\ \A i \in 1..Len(trx') : i > Len(trx) => trx'[i].folio = f
    <2>1. trx \in Seq(Row)
      BY DEF TypeOK
    <2> HIDE DEF f, w, g, n
    <2> QED
      BY <1>1, <2>1, PersistEffect
  <1>5. \A i \in DOMAIN trx : Facts'[i] = Facts[i]
    <2>1. DOMAIN trx \subseteq DOMAIN trx' /\ DOMAIN trx = 1..Len(trx)
      <3> DEFINE g0 == g
      <3>1. trx \in Seq(Row) /\ trx' \in Seq(Row) /\ g0 \in Seq(Int) /\ Len(trx') = Len(trx) + Len(g0)
        BY <1>2 DEF GrowsBy
      <3> HIDE DEF g0
      <3> QED
        BY ONLY <3>1
    <2>2. \A i \in DOMAIN trx : i \in DOMAIN trx' /\ trx'[i] = trx[i]
      BY <1>4, <2>1
    <2> QED
      BY <2>2 DEF Facts
  <1>6. \A i \in DOMAIN trx' \ DOMAIN trx : trx'[i].folio = f
    <2>1. \A i \in DOMAIN trx' \ DOMAIN trx : i \in 1..Len(trx') /\ i > Len(trx)
      BY ONLY <1>4
    <2> HIDE DEF f
    <2> QED
      BY <1>4, <2>1
  <1> HIDE DEF f, w, g, n
  <1>7. \A k \in Folios :
            folio'[k].balance = folio[k].balance + (IF k = f THEN SumFunction(g) ELSE 0)
    BY <1>1, <1>3 DEF Moves
  <1> QED
    BY <1>1, <1>2, <1>5, <1>6, <1>7 DEF BooksOn

\* A void is such a step: it appends the correction and touches no fact.
LEMMA VoidBooks ==
    ASSUME TypeOK, NEW r \in Requests, VoidCommit(r)
    PROVE  \E f \in Folios : \E g : BooksOn(f, g)
  <1> DEFINE t == req[r].trx
             c == Correction(t, req[r].user, req[r].shift)
             f == c.folio
             w == c.window
             n == Impact(c)
             g == <<n>>
  <1>1. /\ t \in 1..Len(trx) /\ Len(trx) \in Nat
        /\ trx \in Seq(Row) /\ trx' \in Seq(Row) /\ Len(trx') = Len(trx) + 1
        /\ \A i \in 1..Len(trx) :
                trx'[i] = IF i = t
                          THEN [trx[i] EXCEPT !.void = TRUE, !.related = Len(trx) + 1]
                          ELSE trx[i]
        /\ trx'[Len(trx) + 1] = c
        /\ f \in Folios /\ w \in Windows /\ n \in Int
    BY VoidEffect DEF TypeOK
  <1>2. GrowsBy(trx, trx', g)
    BY VoidGrows
  <1>3. Moves(f, w, n)
    <2>1. folio' = [folio EXCEPT ![f].balance = @ + n] /\ winbal' = [winbal EXCEPT ![f][w] = @ + n]
      BY DEF VoidCommit
    <2> HIDE DEF t, c, f, w, n
    <2> QED
      BY <1>1, <2>1, MoveEffect
  <1> HIDE DEF t, c, n
  <1>4. /\ DOMAIN trx = 1..Len(trx) /\ DOMAIN trx' = 1..Len(trx')
        /\ \A i \in DOMAIN trx : i \in DOMAIN trx'
        /\ \A i \in DOMAIN trx' \ DOMAIN trx : i = Len(trx) + 1
    <2>1. trx \in Seq(Row) /\ trx' \in Seq(Row) /\ Len(trx') = Len(trx) + 1 /\ Len(trx) \in Nat
      BY <1>1
    <2>2. DOMAIN trx = 1..Len(trx) /\ DOMAIN trx' = 1..Len(trx')
      BY ONLY <2>1
    <2> QED
      BY ONLY <2>1, <2>2
  <1>5. \A i \in DOMAIN trx : Facts'[i] = Facts[i]
    <2>1. \A x \in Row : FactOf([x EXCEPT !.void = TRUE, !.related = Len(trx) + 1]) = FactOf(x)
      BY DEF Row, FactOf
    <2>2. \A i \in DOMAIN trx : trx[i] \in Row
      BY <1>1, <1>4, ElementOfSeq
    <2>3. \A i \in DOMAIN trx : FactOf(trx'[i]) = FactOf(trx[i])
      BY <1>1, <1>4, <2>1, <2>2
    <2>4. Facts = FactsOf(trx) /\ Facts' = FactsOf(trx')
      BY DEF Facts, FactsOf, FactOf
    <2> QED
      BY <1>4, <2>3, <2>4 DEF FactsOf
  <1>6. \A i \in DOMAIN trx' \ DOMAIN trx : trx'[i].folio = f
    BY <1>1, <1>4
  <1>7. SumFunction(g) = n
    BY <1>1, SumOfOne
  <1> HIDE DEF f, w, g
  <1>8. \A k \in Folios :
            folio'[k].balance = folio[k].balance + (IF k = f THEN SumFunction(g) ELSE 0)
    BY <1>3, <1>7 DEF Moves
  <1> QED
    BY <1>1, <1>2, <1>5, <1>6, <1>8 DEF BooksOn

\* The other steps write no row and move no balance.
LEMMA OthersBookNothing ==
    ASSUME Books, [LedgerNext]_vars,
           \A r \in Requests : ~PostCommit(r) /\ ~VoidCommit(r)
    PROVE  UNCHANGED <<Facts, Balances>>
  <1>0. TypeOK /\ req \in [Requests -> LedgerHandler] /\ folio \in [Folios -> FolioRow]
    BY DEF Books, TypeOK
  <1>1. UNCHANGED <<trx, winbal>>
    BY WhoWritesRows
  <1>2. UNCHANGED Facts
    BY <1>1 DEF Facts
  <1> SUFFICES \A g \in Folios : folio'[g].balance = folio[g].balance
    BY <1>2 DEF Balances
  <1>3. ASSUME NEW r \in Requests, Reader(r) PROVE folio' = folio
    BY <1>3, ReadersRead DEF Reads, ReadsInto, ledgerVars
  <1>4. ASSUME NEW r \in Requests, Commit(r)
        PROVE  \A g \in Folios : folio'[g].balance = folio[g].balance
    <2>1. CASE CreateCommit(r)
      <3> DEFINE f == req[r].count + 1
      <3>1. f \in Folios /\ ~Exists(f) /\ folio' = [folio EXCEPT ![f] = [NoFolio EXCEPT !.status = "OPEN"]]
        BY <2>1 DEF CreateCommit
      <3> QED
        BY <1>0, <3>1 DEF NoFolio, Books, BlankUntilCreated
    <2>2. CASE CloseCommit(r) \/ ReopenCommit(r)
      BY <1>0, <2>2, CloseEffect, ReopenEffect
    <2>3. CASE SetArCommit(r)
      BY <1>0, <2>3, SetArFields, SetEffect DEF SetArCommit
    <2> QED
      BY <1>4, <2>1, <2>2, <2>3 DEF Commit
  <1>5. ASSUME NEW r \in Requests, SetsLimit(r)
        PROVE  \A g \in Folios : folio'[g].balance = folio[g].balance
    <2>1. PICK f \in Folios, limit \in LimitChoices : SetCreditLimit(r, f, limit)
      BY <1>5 DEF SetsLimit
    <2>2. folio' = [folio EXCEPT ![f].creditLimit = limit]
      BY <2>1 DEF SetCreditLimit
    <2> QED
      BY <1>0, <2>2, SetEffect
  <1>6. CASE UNCHANGED vars
    BY <1>6 DEF vars
  <1>7. CASE LedgerNext
    <2>1. PICK r \in Requests : Reader(r) \/ Commit(r) \/ SetsLimit(r)
      BY <1>7, StepKinds
    <2> QED
      BY <1>3, <1>4, <1>5, <2>1
  <1> QED
    BY <1>6, <1>7

\* The ledger implements the append-only journal: every step, of whichever
\* request, appends facts of one folio and moves its balance by what they are
\* worth, or leaves facts and balances alone.
THEOREM LedgerIsAJournal == Spec => ImplementsContract
  <1>1. Init => Contract!Init
    BY DEF Init, Contract!Init, Facts, Balances, NoFolio
  <1>2. Books /\ [LedgerNext]_vars => [\E f \in Folios : Contract!Book(f)]_<<Facts, Balances>>
    <2> SUFFICES ASSUME Books, [LedgerNext]_vars
                 PROVE  (\E f \in Folios : Contract!Book(f)) \/ UNCHANGED <<Facts, Balances>>
      OBVIOUS
    <2>1. TypeOK /\ \A k \in Folios : folio[k].balance \in Int
      BY FolioRowUpdates DEF Books, TypeOK
    <2>2. ASSUME NEW r \in Requests, PostCommit(r) \/ VoidCommit(r)
          PROVE  \E f \in Folios : Contract!Book(f)
      <3>1. PICK f \in Folios : \E g : BooksOn(f, g)
        BY <2>1, <2>2, PostBooks, VoidBooks
      <3>2. Contract!Book(f)
        BY <2>1, <3>1, BooksOnRefines
      <3> QED
        BY <3>2
    <2> QED
      BY <2>2, OthersBookNothing
  <1> QED
    BY <1>1, <1>2, AlwaysBooks, PTL DEF Spec, LedgerInit, ImplementsContract, Contract!Spec

=============================================================================
