---------------------------- MODULE MCSettlement ----------------------------
(* Small instances of Settlement: one reservation's folios, one company. *)
EXTENDS Settlement

MCReservationOf == [f \in Folios |-> IF f = 1 THEN "res1" ELSE "res2"]
MCGLAccounts == {"1100", "4000-01", "1000-01", "1000-02", "1100-01"}
MCGLCode == [c \in {"1000", "9000", "9001", "9005"} |->
                CASE c = "1000" -> "4000-01" [] c = "9000" -> "1000-01"
                  [] c = "9001" -> "1000-02" [] c = "9005" -> "1100-01"]
MCCodeType == [c \in {"1000", "9000", "9001", "9005"} |->
                IF c = "1000" THEN "CHARGE" ELSE "PAYMENT"]

Charge(n) == [code |-> "1000", amount |-> n, sign |-> 1]
\* A charge, and a card payment entered at the desk.
MCLines == {<<Charge(2)>>, <<[code |-> "9001", amount |-> 1, sign |-> -1]>>}
\* Any order of whole calls, tax invoices or card holds among them, or two
\* calls at once on fewer rows, which may be two on one hold.
WithTaxInvoices == [calls |-> 1, rows |-> 2, reservations |-> {}, amounts |-> {1},
                    taxInvoices |-> 2, holdsInTurn |-> TRUE]
WithHolds == [calls |-> 1, rows |-> 3, reservations |-> {"res1", "res2"}, amounts |-> {1, 2},
              taxInvoices |-> 0, holdsInTurn |-> TRUE]
TwoAtOnce == [calls |-> 2, rows |-> 2, reservations |-> {"res1"}, amounts |-> {1},
              taxInvoices |-> 0, holdsInTurn |-> TRUE]
TwoOnAHold == [TwoAtOnce EXCEPT !.rows = 1, !.holdsInTurn = FALSE]
CallsAndRaces == {WithTaxInvoices, WithHolds, TwoAtOnce, TwoOnAHold}
\* What the property of the books asks of the lines that are posted.
ASSUME LinesAreOrdinary == LinesFollowCodes

SettleSymmetry == Permutations(Requests)
=============================================================================
