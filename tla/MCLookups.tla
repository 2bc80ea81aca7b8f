----------------------------- MODULE MCLookups ------------------------------
(* The lookups of the public API on small instances: CATV queries of chains  *)
(* of every kind, and of addresses that do not fit into one chunk; CK queries of *)
(* three transfers and the swaps among them; recommendations.                  *)
EXTENDS Lookups, TLC

\* Of each template, of each list of the code, and of none.
SomeChains == {"BTC", "ETH", "LTC", "TRX", "EOS", "XLM", "ADA", "BNB", "XRP", "KLAY",
               "LUNC", "ETC"}

\* Both sides of every threshold of the code and of its documentation.
Thresholds == {0, 500, 501, 1000, 1001, 4999, 5000, 5001, 10000, 10001}

\* The hashes may be exchanged.
HashSymmetry == Permutations(Hashes)
============================================================================
