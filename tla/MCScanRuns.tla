------------------------------ MODULE MCScanRuns ------------------------------
(***************************************************************************)
(* Instances of ScanRuns for TLC.                                          *)
(***************************************************************************)
EXTENDS ScanRuns, TLC

CONSTANTS c1, m1

OneConfig == {c1}
OneRequest == {m1}
NoRequest == {}
AllMail == {{"email_watchlist", "auto_sop", "email_reports"}}
NoMail == {{}}
AllOutcomes == {<<"all", TRUE>>, <<"all", FALSE>>, <<"some", TRUE>>, <<"some", FALSE>>, <<"none", FALSE>>}
AllOrNothing == {<<"all", TRUE>>, <<"none", FALSE>>}
OneOfEach == {<<"all", FALSE>>, <<"some", TRUE>>, <<"none", FALSE>>}
=============================================================================
