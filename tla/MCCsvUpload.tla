---------------------------- MODULE MCCsvUpload ----------------------------
EXTENDS CsvUpload

\* Four addresses; the first also comes as a LUNC row or as a row whose
\* address does not fit its token.
MCRows == {[addr |-> "a", lunc |-> FALSE, valid |-> TRUE],
           [addr |-> "a", lunc |-> TRUE,  valid |-> TRUE],
           [addr |-> "a", lunc |-> FALSE, valid |-> FALSE],
           [addr |-> "b", lunc |-> FALSE, valid |-> TRUE],
           [addr |-> "c", lunc |-> TRUE,  valid |-> TRUE],
           [addr |-> "d", lunc |-> FALSE, valid |-> TRUE]}

\* Only what the chunking tells apart: three addresses.
MCPlainRows == {[addr |-> x, lunc |-> FALSE, valid |-> TRUE] : x \in {"a", "b", "c"}}
=============================================================================
