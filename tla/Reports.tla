------------------------------ MODULE Reports -------------------------------
(***************************************************************************)
(* What happens to a finished report.  The labels of a node are those of   *)
(* NodeLabels; the rest shares nothing with them nor with each other: a    *)
(* behaviour is one of labelling, reading, graphs or the totals of         *)
(* wallets, and the variables of the others stay where they are.           *)
(***************************************************************************)
EXTENDS NodeLabels, Sequences

CONSTANTS
    Requests, Paths, Readers,                                        \* of ReportReading
    Root, Others, Hashes, Amounts, Kinds,                            \* of TransactionGraph
    MaxItems, MaxDepth, Cutoff, MaxNodes,
    Tokens, MaxEntries, SampleSize                                   \* of WalletTotals

VARIABLES
    part,
    file, seen, listed, uploaded, read,
    kind, result,
    item_list

ofLabels  == <<rows, replica, nextid, op, overlap>>
ofReading == <<file, seen, listed, uploaded, read>>
ofGraph   == <<kind, result>>

Reading == INSTANCE ReportReading
Graphs  == INSTANCE TransactionGraph
Totals  == INSTANCE WalletTotals WITH Wallets <- Others, MaxItems <- MaxEntries

ASSUME ReportsAssumption ==
    Reading!ReadingAssumption /\ Graphs!GraphAssumption /\ Totals!TotalsAssumption

-----------------------------------------------------------------------------
NoReading == file = "-" /\ seen = "-" /\ listed = "-" /\ uploaded = "-" /\ read = "-"
NoGraph   == kind = "-" /\ result = "-"
NoTotals  == item_list = "-"

\* The labels are part of every behaviour, and untouched in most.
ReportsInit ==
    /\ Init
    /\ \/ part = "labels" /\ NoReading /\ NoGraph /\ NoTotals
       \/ part = "reading" /\ Reading!Init /\ NoGraph /\ NoTotals
       \/ part = "graph" /\ Graphs!Init /\ NoReading /\ NoTotals
       \/ part = "totals" /\ Totals!Init /\ NoReading /\ NoGraph

OfLabels(A)  == part = "labels" /\ A /\ UNCHANGED <<part, ofReading, ofGraph, item_list>>
OfReading(A) == part = "reading" /\ A /\ UNCHANGED <<part, ofLabels, ofGraph, item_list>>
OfGraph(A)   == part = "graph" /\ A /\ UNCHANGED <<part, ofLabels, ofReading, item_list>>
OfTotals(A)  == part = "totals" /\ A /\ UNCHANGED <<part, ofLabels, ofReading, ofGraph>>

ReportsNext ==
    \/ \E o \in Ops, u \in Users, l \in Labels : OfLabels(Post(o, u, l))
    \/ \E o \in Ops, u \in Users : OfLabels(Delete(o, u))
    \/ \E o \in Ops : OfLabels(Save(o))
    \/ \E o \in Ops : OfLabels(DeleteRow(o))
    \/ OfLabels(Replicate)
    \/ \E x \in Readers : OfReading(Reading!GetWithoutIds(x))
    \/ \E x \in Readers, pks \in SUBSET Requests \ {{}} : OfReading(Reading!Get(x, pks))
    \/ \E x \in Readers : OfReading(Reading!FetchResultFileList(x))
    \/ \E x \in Readers : OfReading(Reading!ReadFile(x))
    \/ \E x \in Readers : OfReading(Reading!Answer(x))
    \/ \E x \in Readers, q \in Requests, matching \in BOOLEAN :
            OfReading(Reading!GetOne(x, q, matching))
    \/ \E x \in Readers : OfReading(Reading!FetchResultFileUid(x))
    \/ \E x \in Readers : OfReading(Reading!ReadOne(x))
    \/ \E q \in Requests : OfReading(Reading!Replicate(q))
    \/ \E q \in Requests, f \in Reading!Files : OfReading(Reading!WorkerFinish(q, f))
    \/ \E f \in Reading!Files : OfReading(Reading!WorkerPublish(f))
    \/ \E mode \in Graphs!Modes : OfGraph(Graphs!Receive(mode))
    \/ OfTotals(Totals!Next)

ReportsSpec ==
    ReportsInit /\ [][ReportsNext]_<<part, ofLabels, ofReading, ofGraph, item_list>>

-----------------------------------------------------------------------------
(* The properties of the parts; see their modules.                           *)
TypesOK ==
    /\ TypeOK
    /\ CASE part = "labels"  -> TRUE
         [] part = "reading" -> Reading!TypeOK
         [] part = "graph"   -> Graphs!TypeOK
         [] part = "totals"  -> item_list \in Seq(Totals!Item)

\* ReportReading: a read whose files the portal all knew shows each transaction
\* under the id of its own request; a gap in the portal's list moves
\* transactions to the request of an earlier file only.
TransactionsFindTheirRequest ==
    part = "reading" => Reading!OwnTransactions /\ Reading!GapsShiftBack

\* TransactionGraph: no transfer, no amount and no node is lost or counted
\* twice, and which of the vendors' answers never become a graph is known.
NothingIsLost == part = "graph" => Graphs!NothingIsLost /\ Graphs!FewAnswersRaise

\* TransactionGraph: the levels of nodes and the depths of transactions are of one
\* scale, and count the steps from the wallet where the code takes a client's
\* depths for what they are.
DepthsAreHops == part = "graph" => Graphs!DepthsAreHops

\* TransactionGraph: what is drawn hangs together, lossy or not, is small, and
\* is still a graph when the two halves are joined.
DrawnGraphIsSound == part = "graph" => Graphs!DrawnGraphIsSound

\* WalletTotals: the two functions give the same totals, and those of a list
\* read backwards are the same where a transaction's items agree.
TotalsAgree == part = "totals" => Totals!TotalsAgree /\ Totals!OrderDoesNotMatter
============================================================================
