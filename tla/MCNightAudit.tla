---------------------------- MODULE MCNightAudit ---------------------------
(* NightAudit on small instances. *)
EXTENDS NightAudit, TLC

NoMishaps == [k \in Kinds |-> 0]
OneOf(kinds) == [k \in Kinds |-> IF k \in kinds THEN 1 ELSE 0]
CONSTANTS g1, g2, g3, w1, w2
Scene(dates, guests, workers, budget) ==
    [dates |-> dates, guests |-> guests, workers |-> workers, mishaps |-> budget]

\* Two nights without mishaps, one on which two things go wrong, and one on
\* which two workers are at work and everything goes wrong once.
NightsAndQueue ==
    {Scene({1, 2}, {g1, g2}, {w1}, NoMishaps),
     Scene({1}, {g1, g2}, {w1}, OneOf({"crashes", "faults"})),
     Scene({1}, {g1, g2}, {w1}, OneOf({"faults", "settled"})),
     Scene({1}, {g3}, {w1, w2}, OneOf(Kinds))}
OneNightOneFault == {Scene({1}, {g1}, {w1}, OneOf({"faults"}))}
OneQuietNight == {Scene({1}, {g2}, {w1}, NoMishaps)}
=============================================================================
