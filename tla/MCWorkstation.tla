----------------------------- MODULE MCWorkstation -----------------------------
(* Workstation for TLC. *)
EXTENDS Workstation

EveryScreen == DOMAIN AllScreens
BusyScreens == {"feedback", "codes"}
FlakyScreens == {"keys", "folio"}
CashScreens == {"holds", "shifts", "taxInvoices"}

=============================================================================
