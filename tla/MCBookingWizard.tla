--------------------------- MODULE MCBookingWizard ---------------------------
(* BookingWizard with two properties and three rooms of two types. *)
EXTENDS BookingWizard, TLC
MCPropertyOf == [m \in Rooms |-> IF m = "B1" THEN "B" ELSE "A"]
MCTypeOf == [m \in Rooms |-> IF m = "A1" THEN "T1" ELSE "T2"]
MCRateOf == [m \in Rooms |-> IF m = "A1" THEN 2 ELSE 3]
MCLists == {{m \in Rooms : PropertyOf[m] = p} : p \in Properties}
=============================================================================
