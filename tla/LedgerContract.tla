--------------------------- MODULE LedgerContract --------------------------
(***************************************************************************)
(* What a ledger promises whoever reads it: an append-only journal of      *)
(* facts and, per folio, a balance that is moved by every append and by    *)
(* nothing else.                                                           *)
(***************************************************************************)
EXTENDS Integers, Sequences, SequencesExt

CONSTANT Folios
VARIABLES entries, balance

Signed(e) == IF e.sign = 1 THEN e.amount ELSE -e.amount
Total(es) == SumFunction([i \in DOMAIN es |-> Signed(es[i])])

Init == entries = <<>> /\ balance = [f \in Folios |-> 0]

\* The facts a step appends.
Appended == SubSeq(entries', Len(entries) + 1, Len(entries'))

Book(f) ==
    /\ entries' = entries \o Appended
    /\ \A i \in DOMAIN Appended : Appended[i].folio = f
    /\ balance' = [balance EXCEPT ![f] = @ + Total(Appended)]

Spec == Init /\ [][\E f \in Folios : Book(f)]_<<entries, balance>>

=============================================================================
