------------------------ MODULE MCTrackingPipeline ------------------------
(* Every tracker, two days and up to one row in each table at the start.   *)
EXTENDS TrackingPipeline

AllTrackers == {"flow", "btc", "btcflow", "path", "btcpath"}
===========================================================================
