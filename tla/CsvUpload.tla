----------------------------- MODULE CsvUpload -----------------------------
(***************************************************************************)
(* CATVCSVUpload.post: a CSV of addresses is read, cleaned, checked        *)
(* against the user's credits, written in bulk to three tables in one      *)
(* transaction, and then charged for.  Several uploads of one user run at  *)
(* the same time; they share the cached credits.                           *)
(*                                                                         *)
(* A file is a sequence of rows.  The cleaned data frame and what is       *)
(* written of it are sets of row numbers of the file, in the file's order. *)
(***************************************************************************)
EXTENDS Naturals, Sequences, FiniteSets

CONSTANTS
  Uploads,   \* upload requests
  Rows,      \* rows a file can hold: [addr, lunc, valid]
  MaxRows,   \* bound: length of a file
  Slice,     \* records written of each stride, 50 in the code
  Stride,    \* step of the chunking range, 100 in the code
  Price,     \* credits_requirement['catv']
  Credits,   \* what the user owns at first
  Elsewhere  \* bound: credits that are spent elsewhere, before an upload is paid

ASSUME SliceAssumption   == Slice \in Nat \ {0}
ASSUME StrideAssumption  == Stride \in Nat /\ Stride > Slice
ASSUME PriceAssumption   == Price \in Nat /\ Credits \in Nat /\ MaxRows \in Nat

VARIABLES
  pc,        \* pc[u]: the step u's handler is about to make
  file,      \* file[u]: the rows u reads
  kept,      \* kept[u]: those it still keeps
  terra,     \* terra[u]: the answer of the Terra permission RPC
  quota,     \* quota[u]: credits_left as u read it from USER_CACHE
  written,   \* written[u]: what u's open transaction has inserted, per table
  stored,    \* stored[u]: what is committed, per table
  rpc,       \* rpc[u]: the usage RPC and its answer
  reply,     \* reply[u]: the HTTP answer
  balance,   \* the user's credits at the usage service
  cached     \* credits_left in USER_CACHE

tables == <<written, stored>>
vars   == <<pc, file, kept, terra, quota, written, stored, rpc, reply, balance, cached>>

\* csv_job_queue_class, CatvRequestStatus and CatvResult, as row numbers of file[u].
Tables  == {"jobs", "statuses", "results"}
RowNumbers == 1..MaxRows
NoRows  == [t \in Tables |-> {}]
Locs    == {"idle", "read", "user", "clean", "terra", "credits", "store",
            "commit", "charge", "await", "end", "dead"}
Replies == {"none", "submitted", "throttled", "invalid", "no entries", "insufficient", "error"}

TypeOK ==
  /\ pc \in [Uploads -> Locs]
  /\ file \in [Uploads -> Seq(Rows)]
  /\ \A u \in Uploads : DOMAIN file[u] \subseteq RowNumbers
  /\ kept \in [Uploads -> SUBSET RowNumbers]
  /\ terra \in [Uploads -> {"none", "True", "False", "other"}]
  /\ quota \in [Uploads -> Nat]
  /\ written \in [Uploads -> [Tables -> SUBSET RowNumbers]]
  /\ stored \in [Uploads -> [Tables -> SUBSET RowNumbers]]
  /\ rpc \in [Uploads -> {"none", "sent", "True", "False"}]
  /\ reply \in [Uploads -> Replies]
  /\ balance \in Nat
  /\ cached \in Nat

Init ==
  /\ pc = [u \in Uploads |-> "idle"]
  /\ file = [u \in Uploads |-> <<>>]
  /\ kept = [u \in Uploads |-> {}]
  /\ terra = [u \in Uploads |-> "none"]
  /\ quota = [u \in Uploads |-> 0]
  /\ written = [u \in Uploads |-> NoRows]
  /\ stored = [u \in Uploads |-> NoRows]
  /\ rpc = [u \in Uploads |-> "none"]
  /\ reply = [u \in Uploads |-> "none"]
  /\ balance = Credits
  /\ cached = Credits

-----------------------------------------------------------------------------
(* The data                                                                 *)

\* Mutant: duplicates told apart by the whole row.
FirstOfEqualRows(rows) ==
  {i \in DOMAIN rows : \A j \in 1..(i - 1) : rows[j] # rows[i]}

\* drop_duplicates(subset="wallet_address", keep="first")
DropDuplicates(rows) ==
  {i \in DOMAIN rows : \A j \in 1..(i - 1) : rows[j].addr # rows[i].addr}

\* Then the rows whose address does not match the pattern of its token go.
process_dataframe(rows) == {i \in DropDuplicates(rows) : rows[i].valid}

Lunc(u) == {i \in kept[u] : file[u][i].lunc}

\* len(processed_df) * credits_per_addr
Cost(u) == Cardinality(kept[u]) * Price

\* Place of row i in the queue lists, from 0.
Place(i, rows) == Cardinality({j \in rows : j < i})

\* Mutant: the chunks start one record late.
WrittenLate(rows) == {i \in rows : (Place(i, rows) + 1) % Stride < Slice}

\* The records that the bulk_create loops reach:
\* [queue[i:i + 50] for i in range(0, len(queue), 100)]
Written(rows) == {i \in rows : Place(i, rows) % Stride < Slice}

-----------------------------------------------------------------------------
(* The handler                                                              *)

Goto(u, l)   == pc' = [pc EXCEPT ![u] = l] /\ UNCHANGED <<reply, file>>
Finish(u, a) ==
  /\ pc' = [pc EXCEPT ![u] = "end"]
  /\ reply' = [reply EXCEPT ![u] = a]
  /\ UNCHANGED file

\* CatvUsageExceededThrottle: the credits of one record.
Throttle(u) ==
  /\ pc[u] = "idle"
  /\ \/ cached > 0 /\ cached >= Price /\ Goto(u, "read")
     \/ ~(cached > 0 /\ cached >= Price) /\ Finish(u, "throttled")
  /\ UNCHANGED <<kept, terra, quota, rpc, balance, cached>> /\ UNCHANGED tables

\* read_csv, the emptiness test and validate_csv.
Read(u, rows) ==
  /\ pc[u] = "read"
  /\ \/ /\ rows # <<>>
        /\ file' = [file EXCEPT ![u] = rows]
        /\ kept' = [kept EXCEPT ![u] = DOMAIN rows]
        /\ pc' = [pc EXCEPT ![u] = "user"] /\ UNCHANGED reply
     \/ Finish(u, "invalid") /\ UNCHANGED kept
  /\ UNCHANGED <<terra, quota, rpc, balance, cached>> /\ UNCHANGED tables

\* The credits are those of the user's cache entry at this moment.
GetUser(u) ==
  /\ pc[u] = "user"
  /\ quota' = [quota EXCEPT ![u] = cached]
  /\ Goto(u, "clean")
  /\ UNCHANGED <<kept, terra, rpc, balance, cached>> /\ UNCHANGED tables

Clean(u) ==
  /\ pc[u] = "clean"
  /\ kept' = [kept EXCEPT ![u] = process_dataframe(file[u])]
  /\ Goto(u, "terra")
  /\ UNCHANGED <<terra, quota, rpc, balance, cached>> /\ UNCHANGED tables

\* The RPC is made only if a LUNC row is left.  The rows go if the reply says
\* "False"; any other reply lets them pass.
check_terra_permission(u) ==
  /\ pc[u] = "terra"
  /\ \/ /\ Lunc(u) = {}
        /\ UNCHANGED <<kept, terra>>
     \/ /\ Lunc(u) # {}
        /\ \E says \in {"True", "other"} : terra' = [terra EXCEPT ![u] = says]
        /\ UNCHANGED kept
     \/ /\ Lunc(u) # {}
        /\ terra' = [terra EXCEPT ![u] = "False"]
        /\ kept' = [kept EXCEPT ![u] = @ \ Lunc(u)]
  /\ Goto(u, "credits")
  /\ UNCHANGED <<quota, rpc, balance, cached>> /\ UNCHANGED tables

CheckCredits(u) ==
  /\ pc[u] = "credits"
  /\ \/ kept[u] = {} /\ Finish(u, "no entries")
     \/ kept[u] # {} /\ quota[u] < Cost(u) /\ Finish(u, "insufficient")
     \/ kept[u] # {} /\ quota[u] >= Cost(u) /\ Goto(u, "store")
  /\ UNCHANGED <<kept, terra, quota, rpc, balance, cached>> /\ UNCHANGED tables

\* Mutant: no transaction around the inserts.
InsertAutocommit(u, t) ==
  /\ pc[u] = "store"
  /\ written[u][t] = {}
  /\ written' = [written EXCEPT ![u][t] = Written(kept[u])]
  /\ stored' = [stored EXCEPT ![u][t] = Written(kept[u])]
  /\ IF t = "results" THEN Goto(u, "commit") ELSE UNCHANGED <<pc, reply, file>>
  /\ UNCHANGED <<kept, terra, quota, rpc, balance, cached>>

\* The bulk_create loop of one table, inside transaction.atomic().
Insert(u, t) ==
  /\ pc[u] = "store"
  /\ written[u][t] = {}
  /\ t = "statuses" => written[u]["jobs"] # {}
  /\ t = "results" => written[u]["statuses"] # {}
  /\ written' = [written EXCEPT ![u][t] = Written(kept[u])]
  /\ IF t = "results" THEN Goto(u, "commit") ELSE UNCHANGED <<pc, reply, file>>
  /\ UNCHANGED <<kept, terra, quota, stored, rpc, balance, cached>>

\* The end of the atomic block.
Commit(u) ==
  /\ pc[u] = "commit"
  /\ stored' = [stored EXCEPT ![u] = written[u]]
  /\ Goto(u, "charge")
  /\ UNCHANGED <<kept, terra, quota, written, rpc, balance, cached>>

\* RPCClientUpdateUsageCSVCatvCall.call, charging for all of kept[u].
Charge(u) ==
  /\ pc[u] = "charge"
  /\ rpc' = [rpc EXCEPT ![u] = "sent"]
  /\ Goto(u, "await")
  /\ UNCHANGED <<kept, terra, quota, balance, cached>> /\ UNCHANGED tables

\* The answer is printed and otherwise ignored.
AwaitUsage(u) ==
  /\ pc[u] = "await"
  /\ rpc[u] \in {"True", "False"}
  /\ Finish(u, "submitted")
  /\ UNCHANGED <<kept, terra, quota, rpc, balance, cached>> /\ UNCHANGED tables

\* An exception before, in or after the transaction: what it has not committed
\* is rolled back, what it has stays.
StepFails(u) ==
  /\ pc[u] \in {"read", "user", "clean", "terra", "store", "commit", "charge", "await"}
  /\ Finish(u, "error")
  /\ UNCHANGED <<kept, terra, quota, rpc, balance, cached>> /\ UNCHANGED tables

Crash(u) ==
  /\ pc[u] \in Locs \ {"idle", "end", "dead"}
  /\ Goto(u, "dead")
  /\ UNCHANGED <<kept, terra, quota, rpc, balance, cached>> /\ UNCHANGED tables

-----------------------------------------------------------------------------
(* Outside src/: the usage service and its refresh of the user's cache      *)

UsageReply(u) ==
  /\ rpc[u] = "sent"
  /\ \/ balance >= Cost(u) /\ rpc' = [rpc EXCEPT ![u] = "True"] /\ balance' = balance - Cost(u)
     \/ balance < Cost(u) /\ rpc' = [rpc EXCEPT ![u] = "False"] /\ UNCHANGED balance
  /\ UNCHANGED <<pc, file, kept, terra, quota, reply, cached>> /\ UNCHANGED tables

\* The same credits pay for what is submitted one by one and at the portal.
SpendElsewhere ==
  /\ balance >= Price /\ Credits < balance + Elsewhere
  /\ balance' = balance - Price
  /\ UNCHANGED <<pc, file, kept, terra, quota, rpc, reply, cached>> /\ UNCHANGED tables

RefreshCache ==
  /\ cached' = balance
  /\ UNCHANGED <<pc, file, kept, terra, quota, rpc, reply, balance>> /\ UNCHANGED tables

Next ==
  \/ \E u \in Uploads :
       \/ \E n \in 0..MaxRows : \E rows \in [1..n -> Rows] : Read(u, rows)
       \/ Throttle(u) \/ GetUser(u) \/ Clean(u) \/ check_terra_permission(u) \/ CheckCredits(u)
       \/ (\E t \in Tables : Insert(u, t)) \/ Commit(u) \/ Charge(u) \/ AwaitUsage(u) \/ StepFails(u) \/ Crash(u)
       \/ UsageReply(u)
  \/ SpendElsewhere \/ RefreshCache

Spec == Init /\ [][Next]_vars

-----------------------------------------------------------------------------
(* The inductive invariant                                                  *)

\* Nothing is written yet; everything is committed.
Early   == {"idle", "read", "user", "clean", "terra", "credits"}
Late    == {"charge", "await"}
Batch(u)  == [t \in Tables |-> Written(kept[u])]

\* The handler of u is past its credit test, or left something behind there.
Passed(u) == pc[u] \in {"store", "commit"} \cup Late \/ stored[u] # NoRows \/ rpc[u] # "none"

\* What the cleaning and the tests before the batch have established of it.
RowsOK(u) ==
  /\ kept[u] \subseteq DOMAIN file[u]
  /\ Passed(u) \/ pc[u] \in {"terra", "credits"} => kept[u] \subseteq process_dataframe(file[u])
  /\ Passed(u) \/ pc[u] = "credits" => Lunc(u) = {} \/ terra[u] \in {"True", "other"}
  /\ Passed(u) => kept[u] # {} /\ Cost(u) <= quota[u]

\* The tables, step by step, and in the order in which they are filled.
TablesOK(u) ==
  /\ pc[u] \in Early => written[u] = NoRows
  /\ pc[u] \in Early \cup {"store", "commit"} => stored[u] = NoRows
  /\ \A t \in Tables : written[u][t] \in {{}, Written(kept[u])}
  /\ written[u]["results"] # {} => written[u]["statuses"] # {}
  /\ written[u]["statuses"] # {} => written[u]["jobs"] # {}
  /\ pc[u] = "commit" => written[u] = Batch(u)
  /\ stored[u] \in {NoRows, Batch(u)}
  /\ pc[u] \in Late => stored[u] = Batch(u)

\* The charge comes after the commit, the answer after the charge.
RpcOK(u) ==
  /\ pc[u] \in Early \cup {"store", "commit", "charge"} => rpc[u] = "none"
  /\ rpc[u] # "none" => stored[u] = Batch(u)
  /\ reply[u] = "submitted" => pc[u] = "end" /\ rpc[u] \in {"True", "False"}

\* The credits only fall.
CreditsOK ==
  /\ balance <= Credits /\ cached <= Credits
  /\ \A u \in Uploads : quota[u] <= Credits

IInv ==
  /\ TypeOK
  /\ \A u \in Uploads : RowsOK(u) /\ TablesOK(u) /\ RpcOK(u)
  /\ CreditsOK

-----------------------------------------------------------------------------
(* Properties                                                               *)

\* The three tables agree on every upload, whichever step failed or crashed:
\* a worker that takes a job of the batch finds its status and result rows.
BatchIsWhole ==
  \A u \in Uploads : \A t \in Tables : stored[u][t] = stored[u]["jobs"]

\* No address of a file is charged twice, although it may come back in the
\* file under another token.
NoAddressTwice ==
  \A u \in Uploads : rpc[u] # "none" =>
    \A i, j \in kept[u] : file[u][i].addr = file[u][j].addr => i = j

\* A LUNC report is queued only after the Terra check was asked, and never
\* after it said "False"; a reply of any other kind queues it.
LuncIsNotRefused ==
  \A u \in Uploads : \A i \in stored[u]["jobs"] :
    file[u][i].lunc => terra[u] \in {"True", "other"}

\* Usage is charged only for an upload whose batch is committed.
ChargedAfterCommit ==
  \A u \in Uploads : rpc[u] # "none" => stored[u]["jobs"] # {}

\* A file of at most one slice is queued completely when it is reported as
\* submitted.
SmallFilesAreComplete ==
  \A u \in Uploads :
    reply[u] = "submitted" /\ Cardinality(kept[u]) <= Slice => stored[u]["jobs"] = kept[u]

\* What the answer says: as many addresses are submitted for report
\* generation as the cleaned file holds.  The chunking skips every other slice.
SubmittedMeansQueued ==
  \A u \in Uploads : reply[u] = "submitted" => stored[u]["jobs"] = kept[u]

\* What the refusal says: a CSV whose credits do not suffice is not processed.
\* The test reads the cached credits, so two uploads can pass it together.
ProcessedMeansPaid ==
  \A u \in Uploads : reply[u] = "submitted" => rpc[u] = "True"

=============================================================================
