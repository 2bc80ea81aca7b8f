---------------------------- MODULE MCRpcClient -----------------------------
(* Two client objects, whose answers could be mistaken for each other, and   *)
(* two crashes: one before a service has answered and one after it.          *)
EXTENDS RpcClient
=============================================================================
