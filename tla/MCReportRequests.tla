------------------------- MODULE MCReportRequests -------------------------
(* One request through all endpoints: requests share no state, only the    *)
(* label edits of one request compete.  Two polls tell a verdict that is   *)
(* seen at once from one that is seen later and from one that is not seen; *)
(* three edits are what it takes to save a stale one over a fresh one.     *)
EXTENDS ReportRequests
=============================================================================
