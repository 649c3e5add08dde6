--------------------------- MODULE MCDiagnostics ---------------------------
(* The observer with one resource of the world, and with the journal's own  *)
(* probe before it.                                                         *)
EXTENDS DiagnosticObserver

OneProbe == <<"api">>
TwoProbes == <<"spool", "api">>
=============================================================================
