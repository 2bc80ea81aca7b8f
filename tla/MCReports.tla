----------------------------- MODULE MCReports ------------------------------
(* Reports on small instances: three operations on the labels of one node,   *)
(* three reports with one reader, four transfers between four addresses.     *)
EXTENDS Reports, TLC

\* Addresses and hashes differ in nothing but their names, in every part that
\* has them.
ReportsSymmetry == Permutations(Others) \cup Permutations(Hashes)
============================================================================
