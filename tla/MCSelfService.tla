--------------------------- MODULE MCSelfService ---------------------------
(* One booking, which other devices and the desk may change as well. *)
EXTENDS SelfService
=============================================================================
