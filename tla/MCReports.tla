------------------------------ MODULE MCReports ------------------------------
(* Instance for TLC: the consoles are tabs of one browser, whose storage they *)
(* share; with the tab of another browser only the server is shared.          *)
EXTENDS ReportedCompletions

OneBrowser == [p \in Pages |-> CHOOSE b \in Browsers : TRUE]
=============================================================================
