--------------------------- MODULE ReportReading ----------------------------
(***************************************************************************)
(* Reading reports: one (CATVReportView.get), one for matching labels      *)
(* (MatchReportLabelsView) or several at once (CATVMultiReportView), while *)
(* the worker finishes them.  A read takes the result rows from the        *)
(* replica, asks the portal for the files' names and then fetches each     *)
(* file from the bucket.  The rows and the portal's list are two sources:  *)
(* they are paired by their position.                                      *)
(***************************************************************************)
EXTENDS Integers, Sequences, FiniteSets, SequencesExt

CONSTANTS
  Requests,
  Paths,      \* path reports, whose depth is one number
  Readers     \* reads, one each

ReadingAssumption ==
  /\ IsFiniteSet(Requests) /\ Paths \subseteq Requests

Files  == 1..Cardinality(Requests)

VARIABLES
  file,      \* result_file_id of each request on 'default', 0 before it has one
  seen,      \* what 'readonly' shows of each request: nothing, the row, or its file too
  listed,    \* files the portal knows
  uploaded,  \* files in the bucket
  read       \* each read: its step, and what it holds

worker == <<file, seen, listed, uploaded>>
vars   == <<file, seen, listed, uploaded, read>>

\* items: pairs of the request a transaction is labelled with and its file
Reading == [step : {"new", "list", "uid", "fetch", "one", "shown", "notyet", "missing", "raised"},
            rows : Seq(Requests), names : Seq(Files), at : Nat \ {0},
            items : SUBSET (Requests \X Files)]

TypeOK ==
  /\ file \in [Requests -> Files \cup {0}] /\ listed \subseteq Files /\ uploaded \subseteq Files
  /\ seen \in [Requests -> {"nothing", "row", "file"}]
  /\ read \in [Readers -> Reading]

Init ==
  /\ file = [r \in Requests |-> 0] /\ seen = [r \in Requests |-> "nothing"]
  /\ listed = {} /\ uploaded = {}
  /\ read = [x \in Readers |-> [step |-> "new", rows |-> <<>>, names |-> <<>>, at |-> 1, items |-> {}]]

-----------------------------------------------------------------------------
(* Several reports                                                          *)

SeenFile(r) == IF seen[r] = "file" THEN file[r] ELSE 0

Goto(x, step) == read' = [read EXCEPT ![x].step = step]

\* What a database may answer that is asked for S, ordered by a key.
OrderedBy(S, key) ==
  {s \in SetToSeqs(S) : \A i, j \in DOMAIN s : i < j => key[s[i]] <= key[s[j]]}

\* Mutant: no order_by.
get_objects_unordered(pks) == SetToSeqs({r \in pks : seen[r] # "nothing"})
\* The rows of the reports known to the replica, by result_file_id.  Where those
\* without one stand does not matter: with one of them nothing is read.
get_objects(pks) ==
  OrderedBy({r \in pks : seen[r] # "nothing"}, [r \in Requests |-> SeenFile(r)])

\* Without `ids` no report is read and `results` has no value.
GetWithoutIds(x) == read[x].step = "new" /\ Goto(x, "raised") /\ UNCHANGED worker

Get(x, pks) ==
  /\ read[x].step = "new"
  /\ \E rows \in get_objects(pks) :
       IF \E i \in DOMAIN rows : SeenFile(rows[i]) = 0 THEN Goto(x, "notyet")
       ELSE read' = [read EXCEPT ![x].step = "list", ![x].rows = rows]
  /\ UNCHANGED worker

\* RPCClientFetchResultFileList: the portal lists the files it knows, by id.
Listed(x) ==
  OrderedBy({file[r] : r \in Range(read[x].rows)} \cap listed, [f \in Files |-> f])

FetchResultFileList(x) ==
  /\ read[x].step = "list"
  /\ \E names \in Listed(x) :
       read' = [read EXCEPT ![x].names = names, ![x].step = IF names = <<>> THEN "raised" ELSE "fetch"]
  /\ UNCHANGED worker

\* final_result.extend, with each item's id overwritten
Extend(items, pair) == items \cup {pair}

\* One round of the loop over zip(catv_results, result_files).  A path report's
\* depth has no '/' to split at, and a file that holds "False" is no report.
ReadFile(x) ==
  LET at   == read[x].at
      pair == <<read[x].rows[at], read[x].names[at]>>
  IN
  /\ read[x].step = "fetch" /\ at <= Len(read[x].names)
  /\ IF pair[2] \notin uploaded THEN Goto(x, "notyet")
     ELSE \/ Goto(x, "raised")
          \/ /\ pair[1] \notin Paths
             /\ read' = [read EXCEPT ![x].items = Extend(@, pair), ![x].at = @ + 1]
  /\ UNCHANGED worker

Answer(x) ==
  /\ read[x].step = "fetch" /\ read[x].at > Len(read[x].names)
  /\ Goto(x, "shown")
  /\ UNCHANGED worker

-----------------------------------------------------------------------------
(* One report                                                               *)

\* CATVReportView asks the portal for the file "None" where there is none;
\* the label matching does not.
GetOne(x, r, matching) ==
  /\ read[x].step = "new"
  /\ IF seen[r] = "nothing" THEN Goto(x, "missing")
     ELSE IF matching /\ seen[r] = "row" THEN Goto(x, "notyet")
     ELSE read' = [read EXCEPT ![x].step = "uid", ![x].rows = <<r>>,
                               ![x].names = IF seen[r] = "file" THEN <<file[r]>> ELSE <<>>]
  /\ UNCHANGED worker

\* A file the portal does not know has no name that the bucket knows.
FetchResultFileUid(x) ==
  /\ read[x].step = "uid"
  /\ IF Range(read[x].names) \cap listed = {} THEN Goto(x, "notyet") ELSE Goto(x, "one")
  /\ UNCHANGED worker

\* A file may hold "False" instead of a report: refused, or taken for one.
ReadOne(x) ==
  /\ read[x].step = "one"
  /\ \/ /\ Range(read[x].names) \subseteq uploaded
        /\ read' = [read EXCEPT ![x].step = "shown", ![x].items = {<<read[x].rows[1], read[x].names[1]>>}]
     \/ Goto(x, "notyet")
     \/ Range(read[x].names) \subseteq uploaded /\ Goto(x, "raised")
  /\ UNCHANGED worker

-----------------------------------------------------------------------------
(* The worker, the portal and the replica                                   *)

\* A row is saved, and gets its file when the report is ready.  Which of name
\* and content is there first is the worker's affair.
WorkerFinish(r, f) ==
  /\ file[r] = 0 /\ f \notin Range(file)
  /\ file' = [file EXCEPT ![r] = f]
  /\ UNCHANGED <<seen, listed, uploaded, read>>

WorkerPublish(f) ==
  /\ \/ f \notin listed /\ listed' = listed \cup {f} /\ UNCHANGED uploaded
     \/ f \notin uploaded /\ uploaded' = uploaded \cup {f} /\ UNCHANGED listed
  /\ UNCHANGED <<file, seen, read>>

Replicate(r) ==
  /\ \/ seen[r] = "nothing" /\ seen' = [seen EXCEPT ![r] = "row"]
     \/ seen[r] = "row" /\ file[r] # 0 /\ seen' = [seen EXCEPT ![r] = "file"]
  /\ UNCHANGED <<file, listed, uploaded, read>>

Next ==
  \/ \E x \in Readers :
       \/ GetWithoutIds(x) \/ (\E pks \in SUBSET Requests \ {{}} : Get(x, pks))
       \/ FetchResultFileList(x) \/ ReadFile(x) \/ Answer(x)
       \/ \E r \in Requests, matching \in BOOLEAN : GetOne(x, r, matching)
       \/ FetchResultFileUid(x) \/ ReadOne(x)
  \/ \E r \in Requests : Replicate(r) \/ (\E f \in Files : WorkerFinish(r, f))
  \/ \E f \in Files : WorkerPublish(f)

Spec == Init /\ [][Next]_vars

-----------------------------------------------------------------------------
(* The inductive invariant                                                  *)

\* A file belongs to one request, and the replica shows no file that is not there, ...
FilesOK ==
  /\ \A q, r \in Requests : file[q] = file[r] /\ file[q] # 0 => q = r
  /\ \A r \in Requests : seen[r] = "file" => file[r] # 0

\* ... the rows of a read have files, but for the one row of a single report, and
\* are in their order; the names are those of some of the rows, in the same order, ...
RowsOK(R) ==
  /\ \A i \in DOMAIN R.rows :
        file[R.rows[i]] = 0 => Len(R.rows) = 1 /\ R.names = <<>> /\ R.step # "list"
  /\ \A i, j \in DOMAIN R.rows : i < j => file[R.rows[i]] < file[R.rows[j]]
  /\ \A i \in DOMAIN R.names : \E j \in DOMAIN R.rows : R.names[i] = file[R.rows[j]]
  /\ \A i, j \in DOMAIN R.names : i < j => R.names[i] < R.names[j]

\* ... and the items are the pairs read so far.
Pairs(R, n) == {<<R.rows[i], R.names[i]>> : i \in 1..n}
ItemsOK(R) ==
  /\ R.step \in {"new", "list"} => R.names = <<>>
  /\ R.step = "uid" => Len(R.names) <= 1
  /\ R.step = "one" => Len(R.names) = 1
  /\ R.step = "shown" => R.items = Pairs(R, Len(R.names))
  /\ R.step # "shown" => R.at <= Len(R.names) + 1 /\ R.items = Pairs(R, R.at - 1)

IInv == TypeOK /\ FilesOK /\ \A x \in Readers : RowsOK(read[x]) /\ ItemsOK(read[x])

-----------------------------------------------------------------------------
(* Properties                                                               *)

\* A read whose files the portal all knew shows every report it found, and
\* each transaction under the id of its own request.
OwnTransactions ==
  \A x \in Readers : read[x].step = "shown" /\ Len(read[x].names) = Len(read[x].rows) =>
    read[x].items = {<<r, file[r]>> : r \in Range(read[x].rows)}

\* Where the portal's list has a gap, transactions move to the request of an
\* earlier file, never to one whose file is newer.
GapsShiftBack ==
  \A x \in Readers : \A pair \in read[x].items : file[pair[1]] <= pair[2]
=============================================================================
