-------------------------- MODULE MCTelnetConsole --------------------------
(* The console for TLC; its constants are small sets of names and bounds.  *)
EXTENDS TelnetConsole
=============================================================================
