--------------------------- MODULE MCFolioLedger ---------------------------
(* Small instances of FolioLedger. *)
EXTENDS FolioLedger

Charge(n) == [code |-> "1000", amount |-> n, sign |-> 1]
CashPayment(n) == [code |-> "9000", amount |-> n, sign |-> -1]

\* A split package of 2 + 1; with it a room charge of 2 and a cash payment of 1.
MCPackage == {<<Charge(2), Charge(1)>>}
MCLines == MCPackage \cup {<<Charge(2)>>, <<CashPayment(1)>>}

MCAccountRows == {[active |-> TRUE, limit |-> 3, balance |-> 0],
                  [active |-> FALSE, limit |-> 3, balance |-> 0]}

RequestSymmetry == Permutations(Requests)
=============================================================================
