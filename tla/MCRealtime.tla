----------------------------- MODULE MCRealtime -----------------------------
(* Realtime with the values of its constants for model checking.  Nothing   *)
(* has to fail or to overlap, so the last mode includes that of screens     *)
(* that overlap and never fail.                                             *)
EXTENDS Realtime

AllModes == {{}, {"fail"}, {"fail", "overlap"}}
=============================================================================
