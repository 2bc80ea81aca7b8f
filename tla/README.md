# catv-service: a TLA+ verification project

catv-service accepts requests for cryptocurrency tracking reports (CATV), queues
them for a worker, charges the user's credits through an RPC service, and
serves the reports.  It is a Django application (portal endpoints, an API for
customers with a key, internal endpoints for the KYT tracer) with a background
thread that answers usage calls over RabbitMQ.  The report worker, the usage
service and the portal itself live in other repositories.

This directory models the parts whose correctness depends on the order of steps
of several actors.  Every definition of the models is translated from the code;
`PROJECT.json` (`map`) names the lines.

## 1. Inventory

| component | state | operations | talks to | what makes it correct |
|---|---|---|---|---|
| Report request lifecycle (`views.py`, `api_views.py`, `internal/views.py`, `tasks.py`) | `CatvRequestStatus`, `CatvResult`, job queue tables | submit (portal), re-submit, submit and poll (API), KYT submit, label edit | database, replica, usage RPC, worker | charges match work; verdicts are recorded; answers are true |
| CSV upload (`views.py` `CATVCSVUpload`) | three tables, cached credits | clean, check, bulk insert, charge | database, usage RPC, Terra RPC | a batch is whole; what is answered and charged is queued |
| Portal usage RPC server (`rpc/RPCServer.py`, `utils.py`) | RabbitMQ queue, unacknowledged messages, retry counters | connect, consume, answer, acknowledge | RabbitMQ, database | no call lost; duplicates only after failures; calls answered |
| CloseOldConnections (`rpc/CloseOldConnections.py`) | its own database connections | sleep, ensure, close | database | stale connections get closed |
| RPC clients (`rpc/RPCClient.py`, eight alike) | callback queue, correlation id | connect, publish, pump | RabbitMQ, services | the client repeats nothing and leaves nothing behind; only a lost request is waited for without end |
| API key gate (`api_views.py`) | `API_CACHE`: key details, role rates; counters of django-ratelimit | details, rate, validate, five views, charge | three RPCs | cached details let nothing through that the credits do not cover; a key is limited by its own calls |
| Session tokens (`multitoken/`) | `TOKENS_CACHE`, `USER_CACHE` | create, verify, extend | Redis | a user's tokens are all known; ttl of token and user agree |
| Throttles (`throttling.py`) | none | allow | user cache | no work without credits |
| Node labels (`views.py`, `serializers.py`) | label rows | create or update, delete | database, replica | one label per user and wallet; a deleted one stays away; only owners change a row |
| Report reading (`views.py`, `process_node_list.py`) | none | one report, one for label matching, several | portal RPC, replica, bucket | results and files are paired correctly |
| GraphQL client (`catvutils/graphql_interface.py`) | depth and limit of the query | query with retries, follow swaps in threads, flatten | Bitquery | the retries end; what the threads do to each other's settings is known; nothing that was followed is lost |
| Coinpath and tracer clients | `api_used` | tracer first, Bitquery next | HTTP | `api_used` names the source of the data |
| CATV and CK queries (`api_views.py`) | `ES_FLAG` | annotate, trace both ways, cut at exchanges, filter | vendors, Elasticsearch, portal | newest annotation shown; one unannotated address hides data only on chains without types; nothing missing but what lies behind an exchange |
| Trace recommendations (`serializers.py`, `views.py`) | none | validate, count, recommend | tracer | the address is one of the chain the tracer is asked about, and that chain is the caller's |
| Tracking pipeline (`catvutils/tracking_results.py`) | two asynchronous results, error slot, cached rows | fetch, build graphs | thread and process pools, database | every side is drawn or named as missing; it ends unless it waits for the portal or the callback dies |
| Transaction graphs (`graphtools.py`) | none | five builders, lossy graph, join | - | nothing lost or counted twice, whichever client feeds them; levels fit depths; what is drawn hangs together |
| Wallet totals (`utils.py`) | none | totals of one wallet, of many | - | both agree |
| Database routing | - | reads from `readonly`, writes to `default` | PostgreSQL | - |
| Others | - | history inserts, address validation, serializers, vendors, caches, settings | - | see the notes in `PROJECT.json` |

Hard behaviours, in short: several commits and RPCs per handler with no
transaction around them; reads from a lagging replica; an RPC wait without a
timeout; caches that outlive what they describe; whole-row saves of stale rows;
two layers of retries around a message handler; attributes shared by the threads
of a pool; lists from two sources paired by position; tables of chains that have
to agree with each other.  `PROJECT.json` lists each of them at its line, under
`hazards`.

## 2. Modules

| module | what it is |
|---|---|
| `ReportService` | abstract specification: what the service promises about one request (accepted, one verdict, billed at most once, truthfully answered) |
| `ReportRequests` | the handlers, step by step, with replica, worker, usage service, label edits, failures and crashes; refines `ReportService` |
| `CsvUpload` | the CSV upload handler, several uploads sharing one user's credits |
| `UsageRpcServer` | the RPC consumer thread, its retry devices, the broker, the database connections, the cleaner thread |
| `RpcClient` | client objects, their callback queues, and services that deliver at least once |
| `ApiKeyGate` | the five views that take an API key: cached details, rate limit, credits, charge, and what can fail before and after it |
| `GraphQLClient` | one lookup at Bitquery: retries for less, and the tree of threads that follow swaps |
| `ChainQuery` | one query of the public API: tracer or Bitquery, rows kept by the flattening, annotation |
| `CkQuery` | one CK query: traces from both ends, followed swaps, exchanges, filters by hash, signed depths |
| `Recommendations` | validation, the chain the tracer is asked about, count and recommended depth |
| `TrackingPipeline` | one tracking request: two fetches, result thread, cached rows, builders |
| `NodeLabels` | posts and deletions of labels over primary and replica |
| `ReportReading` | reads of one or several reports while the worker finishes them |
| `TransactionGraph` | the builders of nodes and edges with the clients that feed them, the lossy graph, the joined graph |
| `WalletTotals` | the two functions for the totals of wallets |
| `Reports` | what happens to a finished report: `NodeLabels`, `ReportReading`, `TransactionGraph` and `WalletTotals` in one |
| `Lookups` | what the public API looks up: `ChainQuery`, `CkQuery` and `Recommendations` in one |
| `..._proofs` | the theorems about `ReportRequests`, `CsvUpload`, `UsageRpcServer`, `RpcClient`, `GraphQLClient`, `TrackingPipeline`; in `Reports_proofs` about `NodeLabels`, `ReportReading`, `TransactionGraph` and `WalletTotals`, in `PublicApi_proofs` about `Lookups` and `ApiKeyGate` |
| `MC...` | instances for TLC |

The parts of a composition share no state in the code either, apart from the
process they run in, so a behaviour is one of a single part and the variables of the
others keep the value "-".

### ReportRequests

A request is one `message_id`.  `pc[r]` is the step its handler is about to make;
each database commit and each RPC is a step.  The four handlers are one sequence
of named steps; what follows `admit` and `save` is given per endpoint by `Portal`,
`Resubmit`, `Api` and `Kyt`:

- portal `CATVView.post` and re-submission `CATVReportView.put`: `Admit`, `RunJob`,
  `SaveRows`, (portal only: `Reauthenticate`,) `Charge`, `AwaitUsage`;
- API `CATVReportLinkView.post`: `Admit`, `RunJob`, `SaveRows`, `LookUp`, `Poll`...,
  then `Charge` and `AwaitUsage` if the report is released;
- KYT `CATVKYTInternalView.post`: `Admit`, `Charge`, `AwaitUsage`, `SaveRows`, `RunJob`.

`versions[r]` is the history of the status column on `default`; `replica[r]` says how
much of it `readonly` has applied, so a read (`Visible`, `SeenStatus`) may be old but
never goes back.  `rpc[r]` is the usage call.  `StepFails` is every exception path
(the handlers undo nothing), `Crash` the death of the process.  `LoadForEdit` and
`SaveEdit` are the two halves of `CATVRequestDetailView.patch`, whose `save()`
writes all columns.

Outside `src/` and modelled from its use: the worker (`WorkerFinish`: takes a queued
job once and updates the status column of the row, if the row is there), the usage
service (`UsageReply`: it deducts exactly when it answers `True`) and replication
(`Replicate`: in commit order, row by row).  These three are assumptions.  What depends
on the first one alone is not stated as a property: that a job gets one verdict,
and that it gets one at all.

Data left out: search parameters, tokens, the choice between the two job queue
tables (they are used alike), the result file.

### CsvUpload

A file is a sequence of rows `[addr, lunc, valid]`: a row's address, whether its token is
LUNC, whether the address fits the token's pattern - all that the handler
distinguishes.  What is kept, inserted and stored of it are sets of row numbers, in
the file's order; `Place` is a row's position in the queue lists.  `Clean` is `process_dataframe` (first row of each address, then
validity), `check_terra_permission` the filter, `Insert` one table's
`bulk_create` loop inside `transaction.atomic()`, `Commit` its end.  `Slice` and
`Stride` are the code's literals 50 and 100, scaled down.  `balance` is the usage
service's, `cached` its copy in `USER_CACHE`, refreshed at any time by the portal;
`SpendElsewhere` are the user's other submissions.  `check_terra_permission` keeps
LUNC rows after any reply but "False", an error text included.

### UsageRpcServer

The broker keeps `waiting` messages, pushes at most `Prefetch` unacknowledged ones
(`buffer`, `current`, `parked`) and queues them all again when the connection is
lost, even under a running handler.  `Raise` is both except clauses of
`ensure_db_connections`; the last failure returns `None`, and the message stays
`parked`: neither acknowledged nor rejected.  `RunFails` is `retry_run`, whose tries
are never refilled.  A database connection belongs to a thread and is "none", "live"
or "stale"; `ensure_connection` connects only where there is none;
`close_old_connections` always closes, because `CONN_MAX_AGE` is not set.  The
branch of the handler for an empty body is left out: it is unreachable, since
such a body has already failed at `result['user_id']`.

### RpcClient

An object makes one call: `Construct` opens its connection and callback queue, `Publish`
sends one request to the queue of the class, `Pump` takes answers until one has its
correlation id.  A service takes a request from its queue, carries it out, answers and
only then acknowledges; a crash hands it back (`Crash`), the broker may lose a request
or an answer (`lost`).  The services are external.

### ApiKeyGate

One step per access to the cache, the portal or the counter: `LookUpDetails`,
`FetchDetails`, `StoreDetails`, `validate_key`, `get_rate`, `is_ratelimited`, then the view,
`Query`, `Charge` and `DropDetails`.  `roles` says whether the rates of the role are
cached; the call that finds them missing stores them and reads them back under
another key, so it has no rate.  `Bucket` is what django-ratelimit counts by: the
key of the query string, one bucket for all keys that come in the header.  Credits and
keys belong to the portal (`PortalSpends`, `Revoke`), expiry to Redis.

`Charge` has every outcome of the RPC: charged and told so; any other reply, which the
view passes over, for want of credits or not (`refused` remembers the latter); a failure
before the portal has charged, and one after it.  `DropDetails` may fail with the cache,
and the charged call is answered 500.  The errors of a vendor come back from `catv_query`
as a response, which is true like data: such a query is charged, and the response inside a
response then ends in 500 (`Finish`).  `disturbed` are the keys whose calls overlapped,
whose credits the portal spent itself, or whose payment ended without its details being dropped.

### GraphQLClient

A call is its path of swaps: `<<>>` is the lookup, `<<1, 1>>` the first swap found while
the first swap is followed.  All calls write `shared`, the depth and the limit of the one
interface object (`SetDepth`, `SetLimit`), before they build their query from it
(`Build`); `Fail` asks once more for half, `Answer` starts a thread per swap (`Dex`),
`Gather` waits for them all, `Return` is the coinpath client's second try without a token.
What a query contains apart from depth and limit, and the amounts of a swap, are left out.

### ChainQuery, CkQuery, Recommendations

`ChainQuery` keeps what the tables of `constants.py` decide: which chains are supported and
which template Bitquery is asked with.  `Check`
fails on a missing optional parameter as the view does, `AskTracer` and `AskBitquery`
fetch, `Annotate` looks the addresses up.  Of a row matters who sends and who receives,
whether it is a coinbase reward, whether its numbers convert (`flatten_node` drops it
otherwise) and whether its chain's rows have types.  Elasticsearch is asked in chunks and
gives the oldest document first (`fetch_annotations_from_es`); the portal's reply to the RPC
has no order that the code fixes, so that any of several indicators may win
(`fetch_annotations_from_rpc`).

`CkQuery` has one thread per direction on one client (`api_used`), the swaps that either client
follows (`FollowSwap`: any row may be a swap, until there are `MaxRows` of them), `dfs` to
the exchanges and the filters.  Depths carry the sign their client gives them: the tracer's
counts sources from -1 downwards, `fetch_transactions_with_source` turns them once more.
`Finish` may also fail while addresses are listed or annotations fetched.  `Recommendations`
reduces an address to the set of formats it fits, and keeps the table of chain ids and
types with its fallback.  An empty string of the code is "none" in `ChainQuery` and
`CkQuery`, and the loops with one condition are `Kept`, which the provers can look into
as they cannot into `SelectSeq`.

### TrackingPipeline

`Main` is the request's own thread with its two waits, `Worker` a thread of the pool per
side (range of dates, cached rows, vendor, count, store), `Deliver` the pool's result thread,
which runs the callback that writes the error slot; a callback that raises ends it
(`deaf`).  The trackers are records: whom they ask, for which sides, whether tables
keep their rows and whether the builder can be called at all.  A vendor's answer is any value
of JSON, by what the callback does with it: rows, nothing, an error text, and numbers,
strings or nulls in which no key can be looked up (`Deadly`).  The RPC for annotations is a
step that starts to wait and one that returns, `update_annotations`.

### NodeLabels, ReportReading, TransactionGraph, WalletTotals

A label operation reads the replica in one step and writes in a later one; `overlap`
remembers whether two of them ever ran together or on a replica that was behind.
A read of reports is a few steps (rows from the replica, names from the portal, one file
after the other) beside a worker that finishes and publishes files in any order.
What is asked for in an order may come as any sequence that has it (`OrderedBy`): rows
from the database, names from the portal.
A file may hold "False" instead of a report: the readers refuse it or take it for one.

A `kind` of `TransactionGraph` is a builder with a client: Bitquery's rows count from 1 in both
directions and go on with those of followed swaps, at depths that start anew (`Continues`);
the tracer's count sources from -1 downwards (`IsTurned`).  The builders then shift and
turn depths in their own way.  The builder for Lyze is there only as what its caller
makes of it: an argument too many, and so an exception.
Results of vendors grow by one transfer at a time, each at an address reached before,
and lists of items by one item, so that every prefix is an input of the pure functions.

## 3. Runs

| run | bounds | shows |
|---|---|---|
| `requests` | 1 request, 2 polls, 3 edits | who pays for what, that answers are true, that the verdict on KYT work is recorded, that only a stale edit reopens a request; `ReportRequests` implements `ReportService`; polling ends |
| `csv` | 1 upload, files of up to 4 of 6 kinds of rows, slice 2 of 3, 4 credits, 1 spent elsewhere | the batch is whole, no address is paid twice, small files are complete |
| `csv_chunks` | 1 upload, slice 1 of 2 | *violated*: every address answered as submitted is queued |
| `csv_credits` | 2 uploads, slice 2 of 4 | *violated*: a processed upload was paid for |
| `usage_server` | 2 good calls, 1 malformed, prefetch 2, 3 tries, 3 retries, 1 outage | no call is lost; duplicate answers need failures; a call is answered, or parked, or the window is full of parked ones, or the thread is dead |
| `usage_server_stale` | 1 call, fair cleaner | *violated*: a stale connection gets closed |
| `rpc_client` | 2 objects, 2 crashes | a call is carried out twice only after a crash; a call waits for ever only if it was lost |
| `gate` | 2 keys, 2 calls, 6 uses of 5 views, credits for one call each, rate 1, 1 event | cached details let a query through that its credits do not cover only if its key was disturbed; a key of the query string is limited by its own calls |
| `graphql` | 2 swaps side by side, 1 nested, depth 3, limit 100, 1 retry | a swap is turned away only after another call's retry; nothing that was followed is lost; the lookup ends |
| `tracking` | 5 trackers, 2 days, 1 row per table | each side is drawn or named as missing, calls and rows are those of the request, a vendor's error is reported; only an answer that kills the callback, or the portal's silence, hangs a request |
| `lookups` | 12 chains, 1 transaction; 2 addresses in chunks of 1, 2 documents each; CK: 3 transfers between 3 addresses, 2 hashes, depth 3, swaps followed up to 3 rows; 10 counts | whose data one unannotated address hides, annotations, exchanges, filters by hash, what is left of the victim's own transfers, the chain a recommendation is for |
| `reports` | 3 label operations of 2 users; 3 requests; 4 transfers of eight kinds between 4 addresses, 2 hashes, 2 amounts, depth 2, cutoff 2, 2 nodes wanted; 2 items | labels, pairing of files; no transfer or amount is lost, and which answers never become a graph; levels fit depths and, where they can, are hops; what is drawn is connected, small for destinations, and joins; totals |

Why the bounds suffice.  Requests never touch each other's rows, so one request
shows every interleaving of its own handler with worker, replica, RPC and edits;
the theorems hold for any number.  Two polls are the first one, which never times
out, and a later one.  Three edits allow one loaded before and one after the
verdict, and one more between their saves.  Slice and stride matter only by their
remainders: with 2 of 3, a file of four kept rows has a whole slice, a skipped row
and the beginning of the next slice.  Two calls and a malformed one fill a window
of two in every way; three tries are a first, a middle and the last one.  Client
objects meet only at the services, where two can be mistaken for each other.  Two
calls at the gate show every pair of steps of two threads, and the role's rates may
be cached at the start or not, so that a limit of one is met by counted calls and by
free ones; keys are alike, so that one revoked key stands for all.  Depth 3 is the
least that halves to less than itself and still above the floor; a limit of 100
is at its floor, and a larger one only multiplies the states: the theorems cover
it.  Two swaps race, a nested one is gathered through its parent.  A graph of three
nodes is over the cutoff of two; four transfers are two edges of one depth and two of
the next, or a swap with its way back and one more.  Depth 2 shifted by one is past the
ratios, and what follows a swap at depth 2 is past the search.
Three transfers are a path, a fork, a join or a cycle, and a third address is
an exchange in between.  With up to three rows found,
a swap among two transfers is followed and what it leads to is filtered.  One transaction
has the two addresses that make two chunks, and documents of each.  The twelve chains have
each template, each list of the code and none.
Two items with one hash or none are what deduplication is
about; the lists with two hashes add nothing that a list without a hash does not.

`CHECK_DEADLOCK FALSE` is set everywhere because the systems do stop: requests,
uploads, calls and reads are finite, and a thread may end for good.

Fairness.  `ReportRequests` assumes that live handler threads run: each step is
local code, a database statement or a sleep.  Nothing is assumed of the worker, the replica,
callers, label edits or the usage service: the code waits for the latter without a timeout,
so nothing is claimed about a handler in `AwaitUsage`.  In `UsageRpcServer` the
consumer thread, the broker's delivery and the cleaner's loop are fair; outages
need not end and connections need not drop.  In `RpcClient` the caller's thread, the
delivery and the service's work are; crashes and losses never have to stop, but there
are finitely many crashes.  In `GraphQLClient` every step of a
call and the return are fair, because each HTTP request has a connect and a read
timeout.  In `TrackingPipeline` the request's thread, the pool's threads and its result
thread are fair, since every HTTP request has a timeout.  `update_annotations` is not: the RPC
has none, and a request may wait for it for ever.

### Findings

1. `views.py:1165`: the chunk is 50 long, the stride 100.  Every second slice of 50 of
   an upload reaches no table, yet it is charged and answered as submitted.
2. `views.py:1118`: the credit test uses cached credits and the usage service's
   answer is ignored, so concurrent uploads are processed unpaid.
3. `CloseOldConnections.py`: the thread never closes a stale connection.  The RPC
   consumer with a stale connection answers `False` to every usage call.

### Seen while modelling

The models contain these behaviours as the code has them, and the properties are stated
around them.  Two of them contradict a text of the repository, named below, that no run
is about: the recommended depths and the signs of the tracer's depths.

- Requests: a verdict written before the status row exists is lost, since every
  endpoint but KYT queues the job first; KYT, which saves the row first, may leave a row in
  progress without a job if the insert of the job fails, and may have charged a request
  that is answered with an error (the other endpoints have work in hand whenever they
  have charged); any answer of the usage service that contains "error" is a refusal to
  KYT; `check_status` may find no row on the replica and answer a queued request
  with an error; a label edit can put a decided request back to progress for good; a
  report released after the 90 seconds is never charged; ten lost connections end the
  RPC consumer.
- CSV upload: any reply to the Terra check but "False" lets LUNC rows pass
  (`views.py:1074`).
- Gate: the call that finds the role's rates missing has no limit (`api_views.py:108`
  reads another cache key than it wrote); keys in the header share one counter; a reply
  of the portal other than "True" is passed over, and the query served unpaid; a vendor's
  error is charged and then answered 500, and so is a query whose details cannot be
  dropped from the cache; until the details expire a query may be served on credits that
  are gone.
- GraphQL client: a query may be built with the depth or limit another thread has
  just set; a branch whose request failed is missing without a word; the depth at which
  a nested swap is followed is that of its own query's answer.
- CATV and CK queries: a request without an optional parameter is answered "no data"
  although nobody was asked; rows of XLM, XRP and LUNC lack the type that an unannotated
  address is looked up by, so that one such address hides all rows; a row whose number does
  not convert is dropped without a word, and leaves what follows it loose; `ES_FLAG`
  once off stays off, and of several indicators the portal sends the last of its reply
  wins, whatever their age; two directions of a CK query share
  `api_used`, so that rows of Bitquery stay unannotated and a trail goes on behind an
  exchange; the tracer's depths of source rows are negated twice, and the filter then
  drops the victim's own transfers, all but what followed a swap (the comment at
  `tracer_interface.py:71` promises rows in Bitquery's format, which has no signs); the
  tracer's client follows swaps on ETH whatever the chain; the CK templates in
  `constants.py` are not used.
- Recommendations: the depths are 3, 2 and 1, at 500 and 5000 transactions.  The API's text
  (`views.py:320`) and the comments at `serializers.py:718` name 1, 3 and 5, the latter with
  other thresholds, and no property takes sides.  STABLE has the chain id 1, and a name in
  small letters or an unknown one falls back to it: the recommendation is then Ethereum's
  (`tracer_interface.py:120`).
- Tracking: the tracker with tables calls the coinpath client with its arguments in
  the wrong places and never asks a vendor, so that rows come from the tables only;
  `BTCTrackingResults` calls its builder with one argument too many, so that no Lyze report
  is ever built (`tracking_results.py:300`); an answer that is a number, or a string
  with the word "error", ends the pool's result thread as a null does; the RPC for
  annotations has no timeout; `CATVInternalView` never sets `_token_type`.
- Graphs: no client counts sources from 0, as the shifts of `graphtools.py` suppose.  ETH
  sources of Bitquery are drawn one level too far out, the farthest in none of the groups of
  `process_node_list`; sources of the tracer come out at levels of the other side.  Sources are
  shifted past depth 1 when the graph is thinned, so that nothing is kept and the whole
  graph is drawn; if they are as deep as one may ask for (10), the thinning asks for an
  eleventh ratio of ten, and the builder raises.  It raises for every set of the tracer's sources
  over the cutoff, for rows of followed swaps beyond the deepest search, and for two transfers of
  a Bitcoin path with one hash.
- Labels: two posts of one user, each before the other is seen, leave two labels;
  deletion looks at the first label of a node only, so others cannot delete theirs.
- Reading several reports: without ids, or if the portal knows none of the files,
  `results` has no value and the answer is an error; a report the replica does not have
  yet is missing without a word; a file the portal does not list moves transactions
  to the request of an earlier file; the depth of a path report has no slash to split;
  a file that holds "False" is refused
  or shown as a report, depending on the view and on the quotes in it.
- Totals: `calculate_wallet_total_amount` is not called any more and serves as the
  reference here; a wallet that the CSV file lists twice counts twice.

## 4. Theorems

`ReportRequests_proofs` proves, for any set of requests and any `MaxPolls`, `MaxEdits`:

| theorem | statement |
|---|---|
| `Invariance` | `Spec => []IInv` |
| `TypeCorrect` | types |
| `ApiBilling`, `KytBilling` | an API user pays only for a released report, KYT work exists only if paid for |
| `KytRecords`, `TruthfulAnswers` | `KytVerdictIsRecorded`, `AnswersAreTrue` |
| `Reopening` | `ReopensOnlyByStaleEdit` |
| `Refinement` | `Spec => Service!Spec` |

None of the safety invariants is inductive.  `IInv` adds what each step of a
handler may rely on: before a handler has queued its job nothing exists
(`StageOK`, `QueueFirstOK`, `KytOK`); a row is "progress" until its job is done, so
that the verdict is written at most once (`VerdictOK`); the replica shows a prefix
and a polling handler sees a row (`ReplicaOK`); an edit holds a status the row had
once (`EditsOK`) - without it a save could write anything, and the API could be
charged for it.  The proof goes by actions, not by conjuncts: `HandlerKeeps`,
`CommitKeeps` and `OutsideKeeps` show what a step does to the request it is about,
`Untouched` that it leaves the others alone, `StepInv` puts them together.  The
refinement uses `IInv` at both ends of a step: `AnswerStep` for the answer,
`RowStep` for the commits; every other step stutters.

`CsvUpload_proofs` proves, for any uploads, rows, size of file, price and credits, and
any slice below its stride:

| theorem | statement |
|---|---|
| `Invariance` | `Spec => []IInv` |
| `TypeCorrect` | types |
| `OneTransaction`, `EveryAddressOnce`, `SmallFiles` | the invariants of the run `csv` |
| `LuncIsGated`, `PaidForSomething` | no LUNC report is queued unless the portal was asked about Terra access and answered anything but "False"; a charge follows a batch that is not empty |

`IInv` carries what the tests before the batch established (`RowsOK`) through to the
charge and beyond a crash, the order in which the tables fill (`TablesOK`), the place
of the charge (`RpcOK`), and that credits only fall (`CreditsOK`).  Two lemmas are about the chunking itself:
`SomethingIsWritten` (the first record is always in a slice) and `OneSliceIsWhole`;
together they delimit finding 1.

`UsageRpcServer_proofs` proves, for any calls, prefetch window, tries and retries:

| theorem | statement |
|---|---|
| `Invariance` | `Spec => []IInv` |
| `TypeCorrect` | types |
| `NoCallIsLost`, `AnswersAreFew` | `NothingLost`, `DuplicatesNeedFailures` |

There `IInv` says that, while the connection is up, a message is in at most one
place, and that a lost connection leaves the message under way with the broker
(`PlacesOK`); that the window is respected (`WindowOK`); and that a message which
waits has been answered at most as often as the thread has failed (`AnswersOK`),
so that answering it once more stays within the bound.

`RpcClient_proofs` proves, for any objects and crashes:

| theorem | statement |
|---|---|
| `Invariance` | `Spec => []IInv` |
| `NeverRepeated`, `CleanEnd` | a repetition needs a crash; a finished call leaves nothing in its queue |

The invariant bounds what has been done and what is still to be done of a request
together (`RequestsOK`: done, ready and held add up to one and the crashes) and says
that the answers in a callback queue are those of its object (`RepliesOK`).

`GraphQLClient_proofs` proves, for any depth, limit, number of retries and tree of
swaps, infinite ones included:

| theorem | statement |
|---|---|
| `Invariance`, `TypeCorrect` | `Spec => []IInv`, types |
| `RetriesAskForLess` | no query asks for more than the caller did, the floors aside, in any interleaving |
| `DepthIsShared` | `TurnedAwayOnlyByARetry` |
| `NothingIsLeftBehind` | `NothingFollowedIsLost` |

`SettingsOK` bounds the settings of the object, of each call and of each query,
`TreeOK` says that a swap's thread exists only while its parent waits or has ended,
and `TurnedOK` that before the first retry all settings are the caller's, which is why
a call turned away needs another one that has asked for less.  `HandedUpOK` is about
one call and its parent: what has ended well is in what the parent has gathered.  From
there to the lookup there are as many steps as the path is long, and the prover has no
induction over paths; `HandedUpTo` takes the first call on the way up
that lacks the answer instead (`Smallest`): it and the call before it contradict `HandedUpOK`.

`TrackingPipeline_proofs` proves, for any trackers, dates, rows and errors:

| theorem | statement |
|---|---|
| `Invariance`, `TypeCorrect` | `Spec => []IInv`, types |
| `AnswersAddUp` | `TheAnswerAddsUp`: each side is drawn or named as missing, calls and rows are those of the request |
| `ErrorsAreQuoted` | `VendorErrorIsReported` |

The three parts of `TheAnswerAddsUp` hold for different reasons.  That a side is not
forgotten is a chain from thread to thread: a fetch that has ended is queued once for the result thread
or delivered (`FetchOK`, `DeliveryOK`), a delivered side passes its `get()` before it is
drawn, and the phases go through builder and annotation in order (`DrawnOK`).  That no call is
invented although both threads read and write one counter without a lock is `CountOK`:
what a thread has read counts only sides that have ended since.  That an error is quoted
needs the error slot to hold a side that has failed (`DeliveryOK`).

`Reports_proofs` proves, for any users, labels and operations, any reports, readers and depths,
for any addresses, hashes, amounts, transfers, cutoff and number of nodes wanted, and for any
list of items:

| theorem | statement |
|---|---|
| `Invariance`, `TypeCorrect` | `Spec => []IInv` of `NodeLabels`, types |
| `OneLabelEach` | `DuplicatesNeedOverlap` |
| `LabelsStay` | `LabelsStayPut` |
| `ReadingInvariance` | `Spec => []IInv` of `ReportReading` |
| `FoundUnderTheirRequest` | `ReportsSpec => []TransactionsFindTheirRequest` |
| `LabelsArePart` | `ReportsSpec => Spec`: the theorems about labels hold in the composition |
| `NothingLost` | `ReportsSpec => []NothingIsLost`: sums of edges and counts, followed swaps included, and which answers never become a graph |
| `DepthsAreHopsOfAll` | `ReportsSpec => []DepthsAreHops`: nodes and items are shifted alike; where rows come by depth and the code undoes what the client did, levels are hops |
| `DrawnSoundly` | `ReportsSpec => []DrawnGraphIsSound`: connected, small for destinations, joined |
| `TypesCorrect` | `ReportsSpec => []TypesOK`, the built graphs included |
| `TotalsOfAllAgree` | `ReportsSpec => []TotalsAgree`, for any list of items |

Labels: without an overlap an operation is alone, the replica is up to date while it is, and
what it has found is still its user's only row when it writes (`AloneOK`); that a
row, its copy and whoever has found it agree on the owner (`OwnersOK`) needs ids that
nobody knows before they are given out (`FreshOK`), and that there is one left counts
the operations that are done (`IdsOK`).

Reading: the code pairs the n-th row with the n-th name.  Rows and names are both in the order of
the files (`RowsOK`), and each name is that of some row, but which one is a question of
counting.  `PickedInOrder` answers it: positions that are picked in order have room for
those before and after them, so the i-th name belongs to the i-th row or a later one, and
to the i-th if none is missing (`Positions`).  Its two halves are least counterexamples, in
place of inductions.  `RowsOK` also has to survive the worker: a row may get its file
while a read holds it, but only a read of this one row can have seen it without (`FinishStep`).

Graphs: the state is what the vendors have answered, and all else is a function of it.  So the
invariant is about the answers (`Received`: each transfer at the wallet or where an earlier
one has arrived, at a depth that follows) and the work is in the functions.

- Every builder: `GraphIs` says once what all kinds have in common - which transfers
  they draw, which nodes and edges, what is cut - and the rest of the proof looks at no
  builder again.
- Sums: the transfers fall apart into groups, one for each edge
  (`EdgesDivide`), and the sums of groups sum up to the whole (`SumOfGroups`).  A sum is a recursive
  function over subsets, so that `SumInTable` and `SumOneMore` have to come before it.
- Levels: the builders shift the depths of nodes and of items in two places, and `GivenLevel`
  is what both must give (`LevelsMatchItems`).  A node is made at the first transfer to its
  address (`SeenFirst`); where the transfers come by depth, this one is at the least number of
  steps (`LevelsHops`).  Followed swaps come after all others, and then it need not be.
- Raising: an address without a node does not occur, because each transfer starts where an
  earlier one arrived (`NoLooseEnds`), and the depths that have no ratio are those that
  `NoneBeyond` and `FewRaise` name.
- Connected: the whole graph, because each transfer starts where an earlier one arrived
  (`FollowedFromRoot`), and the lossy one, because a group is kept only where it touches the groups
  before it (`KeptFromRoot`; the first one at the wallet, or else no group is kept at all).
  Both say what a set has to contain that has the wallet and is closed under the drawn edges;
  `Reaching` says that what `IsConnected` reaches in as many steps as there are addresses is such a set.
- Joined: ids count up from the wallet on one side and down on the other (`DrawnIds`), so that none
  is twice in the joined graph.
- Small: `Largest` keeps as many edges as it is told (`LargestOf`, counted by `SortedPlaces`), the
  odd numbers up to a depth add up to its square (`OddSums`), and rounding adds less than one
  per depth (`RoundedUp`, `KeptFew`).  `SomethingKept` shows that the whole graph is not drawn
  in its place; it needs a group at depth 1, which only destinations have.

Totals: `ByItemIsSum` and `ByHashIsSum` say what the two loops add up - for hashes, the first
item of each - and `TotalsAre` that both functions add up the same.  Backwards the first
item of a hash is another one, of which only the hash is the same: `SumMoved` is that a sum
does not depend on which places its amounts are at, so that the two lists of first items need only
belong to each other one by one (`ByHashMirrored`).

The recursions - the steps from the wallet, the groups kept so far, the two loops - are
functions on numbers; `Iterated` shows once that such a function has its values, by the least
number where it has none.

About the lookups, `PublicApi_proofs` proves, for any chains, addresses, documents, number of
transactions and size of a chunk; any people, exchanges, transfers and depth; any counts:

| theorem | statement |
|---|---|
| `LookupsInvariance`, `LookupsTyped` | `LookupsSpec => []LookupsIInv`, types |
| `UnannotatedTakesItAll`, `NewestShown` | `UnannotatedTakesAll`, `NewestAnnotationIsShown` |
| `TrailsEndAtExchanges`, `FiltersCutNoMore` | `ExchangesEndTheTrail`, `TracesAreWhole` |
| `VendorsTellTheVictims` | `VictimsTransfersByVendor` |
| `RecommendationsFit` | `RecommendationFits` |

The invariants are simple (`QueryOK`, `PhaseOK`; `FoundOK`, `ThreadsOK`, `ShownOK`): a query
is that of its chain, and what is shown is the result of what was found.  TLC has checked
`LookupsIInv` on the instance of the run `lookups`.  The work is in the functions between.

- Tables: `TypesByTemplate` compares the templates with the rows that have types, `TablesAgree`
  the pattern a wallet must fit with the type of chain the tracer is asked about, and
  `WhoAsksEthereum` finds the names that share Ethereum's row.
- Chunks: `AllAreQueried` says that the list of addresses has each of them at some place
  (an injection between sets of one size is onto), and `ChunksCover` that each place
  is in a chunk, for any size of the chunks and length of the list.
- Loops: `KeptElements` counts what a loop with a condition keeps.
- Search: `dfs` is stated with as many rounds as there are addresses.  `RoundsStop` shows
  that these are enough, since a round that adds nothing is reached before the addresses run
  out; `RoundTrails` and `PathTo` that whatever is visited lies on a path of that
  length, `BehindIsVisited` that whatever lies on a path is visited.  So the filters remove
  what the properties, which speak of paths, allow them to remove, and nothing else; and an
  answer for given hashes has every row of a path from them (`WhatFollowedIsShown`) and no row
  that shares no hash with one (`HashesAreFollowed`).
- Signs: `SourceShown` follows the depths of source rows through the two turns and the filter;
  `SwapRows` says at what depths a followed swap may put its rows.

`Kept` and `dfs` are recursive functions.  Without induction, that they have a value at all is shown by the
least number of steps without one (`SomeLoop`, `SomeRounds`), and so is what they compute.

About the gate, `PublicApi_proofs` proves, for any keys, calls, uses, price, rate, credits and events:

| theorem | statement |
|---|---|
| `Invariance`, `TypeCorrect` | `Spec => []IInv`, types |
| `UnpaidMeansDisturbed` | `UnpaidOnlyWhenDisturbed` |
| `OwnLimit` | `QueryKeysAreLimitedAlone` |

`KeyOK` is about an undisturbed key: it has one call at a time, what this call has seen of its credits
is not more than the portal has, and neither is what the cache holds, but for details
that are about to be dropped.  `CallOK` is what a call has established on its way to the charge.
`KeyKeeps` is the step of a call on its own undisturbed key, `OthersKeep` that it leaves the
other keys alone, `OutsideSpares` that the portal and the cache take only away from what is known.

The theorems rest on the assumptions on the constants, which are named in the modules,
and on the assumptions about worker, usage service, replication, broker and database
named in section 2.  Liveness is model-checked only.

## 5. Plan

Modelled, checked and proved: the modules of section 2.  What is left, in this order:

1. Session tokens: the list of tokens per user and the two ttls.
2. The matching of labels from a CSV file, and the annotation of the joined graph.

## 6. What stays out

Liveness is left to TLC, because the prover has no fairness.  Model-checked only, therefore: the
liveness properties of all runs.  Every safety property and every action property of a passing run is a
theorem.

Not modelled: the text of messages, queries and reports, address syntax, HTTP and
serializer validation, the insides of vendors, deployment; the history tasks (two
inserts without a condition); the wrappers of Redis; the ttl of session tokens; the
groups of nodes by level (`process_node_list.py`); the fields of the GraphQL templates; which
transfers are swaps, and the amounts of a followed one; a cache table that cannot be
written.  Graphs are fed with rows that hang together: a row that Bitquery's flattening has
dropped may leave others loose, and then `create_edge` raises.
