------------------------------- MODULE MCRates -------------------------------
(* Three rates that may derive from one another, recommendations for one day up to 11. *)
EXTENDS Rates

Plan(parent, mode, value, amount) ==
    [parent |-> parent, mode |-> mode, value |-> value, amount |-> amount, active |-> TRUE]

MCNewRates == {Plan(Null, Null, Null, 10), Plan(1, "PERCENT_OFFSET", -50, 0),
               Plan(2, "AMOUNT_OFFSET", -4, 0)}
MCChanges == {[amount |-> 6],
              [parent |-> Null, mode |-> Null, value |-> Null, active |-> FALSE],
              [parent |-> 3, mode |-> "AMOUNT_OFFSET", value |-> 0]}

\* What the properties ask of the callers.
ASSUME CallsComeInTurn == OneAtATime
=============================================================================
