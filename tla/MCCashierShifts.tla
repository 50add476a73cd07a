-------------------------- MODULE MCCashierShifts --------------------------
(* Small instances of CashierShifts. *)
EXTENDS CashierShifts

MCCash == {<<[code |-> "9000", amount |-> 1, sign |-> -1]>>}
MCShifts == 1..MaxShifts
MCSymmetry == Permutations(Desks)
=============================================================================
