---------------------------- MODULE MCApiKeyGate ----------------------------
(* Two calls with two keys and credits for one call each.  Every view is     *)
(* used; those that take the key in both ways are given it in one of them,   *)
(* but for the first.                                                        *)
EXTENDS ApiKeyGate

EveryView == {<<"outbound", "query">>, <<"outbound", "header">>, <<"inbound", "query">>,
              <<"networks", "header">>, <<"info", "query">>, <<"report", "header">>}
=============================================================================
