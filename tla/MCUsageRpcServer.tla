-------------------------- MODULE MCUsageRpcServer --------------------------
(* Two calls and a malformed one: the window holds two of them, so that the  *)
(* third waits while two are out; one outage and three tries are enough for  *)
(* the consumer to be stopped for good.                                      *)
EXTENDS UsageRpcServer
=============================================================================
