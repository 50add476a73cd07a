--------------------------- MODULE MCGuestServices ---------------------------
(* Two calls that may meet, two rows, one guest in two stays. *)
EXTENDS GuestServices, TLC

MCSymmetry == Permutations(Requests) \cup Permutations(Stays)
MCMixes == {{"card", "job"}, {"report"}} \cup
    {{kind} : kind \in {"key", "call", "item", "complaint", "feedback", "message"}}
=============================================================================
