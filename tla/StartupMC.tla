----------------------------- MODULE StartupMC -----------------------------
(* Keys for TLC's runs of Startup.  They are strings, as the legacy key is. *)
EXTENDS Startup
TwoKeys == {"generated1", "generated2"}
=============================================================================
