------------------------------- MODULE CkQuery -------------------------------
(* The chain keeper's lookup: ck_query of api/api_views.py.  The transfers  *)
(* after a theft are traced from the victim, or from the thief if the       *)
(* victim is an exchange; then two threads trace both directions with one   *)
(* client object, which remembers one vendor for both.  Traces are cut at   *)
(* exchanges and, on demand, to the paths of given transactions.            *)
EXTENDS Integers, Sequences, FiniteSets, SequencesExt

CONSTANTS Addresses, Hashes,
          victim, threat,     \* the two addresses a request may name
          Exchanges,          \* addresses annotated as exchanges
          MaxTransfers,       \* transfers on the chain
          MaxDepth,           \* stands for depth_limit and for 5
          MaxRows             \* rows of one direction, up to which swaps are followed

CkAssumption == /\ victim \in Addresses /\ threat \in Addresses
                /\ Exchanges \subseteq Addresses /\ IsFiniteSet(Addresses)
                /\ MaxTransfers \in Nat /\ MaxDepth \in Nat \ {0} /\ MaxRows \in Nat

Transfer == [hash : Hashes, sender : Addresses, receiver : Addresses]
Directions == {"inbound", "outbound"}

VARIABLES
    chain,      \* transfers on the chain
    request,    \* query_source, threat_address ("none" if it is empty) and txn_hashes
    docs,       \* what the index says of the victim, oldest first
    dex,        \* is_victim_dex
    phase,
    thread,     \* of each direction
    vendor,     \* who answered a direction
    api_used,   \* of the shared client
    found,      \* rows, or "errors"
    shown,      \* the rows of the answer
    answer

vars == <<chain, request, docs, dex, phase, thread, vendor, api_used, found,
          shown, answer>>

Init ==
    /\ chain = {}
    /\ request \in [query_source : BOOLEAN, threat : {"none", threat},
                    hashes : SUBSET Hashes]
    /\ docs \in BoundedSeq({"exchange", "other"}, 2)
    /\ request.query_source => docs = <<>>
    /\ dex = FALSE
    /\ phase = "chain"
    /\ thread = [d \in Directions |-> "idle"]
    /\ vendor = [d \in Directions |-> "none"]
    /\ api_used = "bitquery"
    /\ found = [d \in Directions |-> {}]
    /\ shown = {}
    /\ answer = "none"

\* The chain, before the request.
Happen ==
    /\ phase = "chain" /\ Cardinality(chain) < MaxTransfers
    /\ \E t \in Transfer : t.sender # t.receiver /\ chain' = chain \cup {t}
    /\ UNCHANGED <<request, docs, dex, phase, thread, vendor, api_used, found,
                   shown, answer>>

-----------------------------------------------------------------------------
Inner(r, d) == IF d = "outbound" THEN r.sender ELSE r.receiver
Outer(r, d) == IF d = "outbound" THEN r.receiver ELSE r.sender

\* check_if_victim_dex: sorted newest first and reversed, so that the oldest
\* document decides; an index without one, or without an answer, says no.
check_if_victim_dex(reached) == reached /\ docs # <<>> /\ Head(docs) = "exchange"

\* determine_address_to_use
Root == IF dex /\ request.threat # "none" THEN request.threat ELSE victim
DepthOf(d) == IF d = "outbound" THEN MaxDepth
              ELSE IF Root = request.threat THEN 1 ELSE 2

\* What a vendor traces: each transfer at its distance from where it begins.
TraceFrom(root, d, hops) ==
    LET level[k \in 0..MaxDepth] ==
            IF k = 0 THEN {root}
            ELSE {Outer(t, d) : t \in {u \in chain : Inner(u, d) \in level[k - 1]}}
                    \ UNION {level[j] : j \in 0..(k - 1)} IN
    UNION {{[hash |-> t.hash, sender |-> t.sender, receiver |-> t.receiver,
             depth |-> k, side |-> d] :
                t \in {u \in chain : Inner(u, d) \in level[k - 1]}} : k \in 1..hops}
Trace(d) == TraceFrom(Root, d, DepthOf(d))

Negated(rows) == {[r EXCEPT !.depth = -@] : r \in rows}
Deeper(rows)  == {[r EXCEPT !.depth = @ + 1] : r \in rows}

\* Mutant: the depth is turned around whatever the direction.
SignedBoth(rows, d) == Negated(rows)
\* The tracer's client counts sources from -1 downwards.
Signed(rows, d) == IF d = "inbound" THEN Negated(rows) ELSE rows

\* What follows a swap: the reversed transfer, and what is traced of the tokens
\* that were swapped for, from the swap's own depth on.  The tracer's client
\* always looks for what was sent.
Reversed(s) == [s EXCEPT !.sender = s.receiver, !.receiver = s.sender]
AfterSwap(s, d, by) ==
    {Reversed(s)} \cup
    (IF by = "tracer"
     THEN {[r EXCEPT !.depth = @ + s.depth, !.side = d] :
              r \in TraceFrom(s.sender, "outbound", MaxDepth)}
     ELSE {[r EXCEPT !.depth = @ + s.depth - 1] : r \in TraceFrom(s.sender, d, DepthOf(d))})

\* parse_request_params, check_if_victim_dex, and the two threads of
\* fetch_transactions_with_source, or the one lookup without them.
Start ==
    /\ phase = "chain"
    /\ phase' = "fetch"
    /\ \E reached \in BOOLEAN :
          dex' = (request.query_source \/ check_if_victim_dex(reached))
    /\ thread' = [d \in Directions |-> IF d = "outbound" \/ dex' THEN "tracer"
                                       ELSE "done"]
    /\ UNCHANGED <<chain, request, docs, vendor, api_used, found, shown, answer>>

\* get_transactions of the shared client.  The tracer's rows make it say
\* "tracer", even if they cannot be used after all.
Tracer(d) ==
    /\ thread[d] = "tracer"
    /\ \/ /\ Trace(d) # {}
          /\ api_used' = "tracer"
          /\ \/ /\ found' = [found EXCEPT ![d] = Signed(Trace(d), d)]
                /\ vendor' = [vendor EXCEPT ![d] = "tracer"]
                /\ \E next \in {"swaps", "done"} : thread' = [thread EXCEPT ![d] = next]
             \/ /\ thread' = [thread EXCEPT ![d] = "bitquery"]
                /\ UNCHANGED <<found, vendor>>
       \/ /\ thread' = [thread EXCEPT ![d] = "bitquery"]
          /\ UNCHANGED <<found, vendor, api_used>>
    /\ UNCHANGED <<chain, request, docs, dex, phase, shown, answer>>

Bitquery(d) ==
    /\ thread[d] = "bitquery"
    /\ \/ /\ \E rows \in {Trace(d), {}} : found' = [found EXCEPT ![d] = rows]
          /\ \E next \in {"swaps", "done"} : thread' = [thread EXCEPT ![d] = next]
          /\ vendor' = [vendor EXCEPT ![d] = "bitquery"]
       \/ /\ \E failure \in {"errors", "raised"} : vendor' = [vendor EXCEPT ![d] = failure]
          /\ thread' = [thread EXCEPT ![d] = "done"]
          /\ UNCHANGED found
    /\ UNCHANGED <<chain, request, docs, dex, phase, api_used, shown, answer>>

\* process_swap and _process_swap: any transfer may be a swap.  The tracer's client
\* follows those of the trace, Bitquery's those behind them, too.
FollowSwap(d) ==
    /\ thread[d] = "swaps" /\ Cardinality(found[d]) < MaxRows
    /\ \E s \in IF vendor[d] = "tracer" THEN Signed(Trace(d), d) ELSE found[d] :
          found' = [found EXCEPT ![d] = @ \cup AfterSwap(s, d, vendor[d])]
    /\ UNCHANGED <<chain, request, docs, dex, phase, thread, vendor, api_used, shown, answer>>

\* Each swap has been followed, or has failed.
SwapsEnd(d) ==
    /\ thread[d] = "swaps"
    /\ thread' = [thread EXCEPT ![d] = "done"]
    /\ UNCHANGED <<chain, request, docs, dex, phase, vendor, api_used, found, shown, answer>>

-----------------------------------------------------------------------------
\* fetch_transactions_with_source turns the depths of the source around, and
\* fetch_transactions keeps what the victim has sent.
Source == {r \in Negated(found["inbound"]) : r.sender = victim}

\* annotate_and_filter_transactions: the tracer's rows come annotated, and
\* nothing is looked up when the client says "tracer".
Annotated(d) == vendor[d] = "tracer" \/ api_used # "tracer"
Towards(rows, d) == IF d = "inbound" THEN {r \in rows : r.depth < 0}
                    ELSE {r \in rows : r.depth >= 1}

\* Mutant: only the transactions of the exchange itself, not what follows.
dfs_shallow(starts, blocked, rows, d) == starts \ blocked
\* The addresses dfs and dfst visit from where they start.
dfs(starts, blocked, rows, d) ==
    LET reached[n \in 0..Cardinality(Addresses)] ==
            IF n = 0 THEN starts \ blocked
            ELSE reached[n - 1] \cup
                 ({Outer(r, d) : r \in {q \in rows : Inner(q, d) \in reached[n - 1]}}
                  \ blocked)
    IN reached[Cardinality(Addresses)]
HashesFrom(visited, rows, d) == {r.hash : r \in {q \in rows : Inner(q, d) \in visited}}

\* filter_exchange_transactions: every transaction that has the hash of one
\* behind an exchange is removed.
filter_exchange_transactions(rows, d) ==
    LET exchanges == {Outer(r, d) : r \in {q \in rows : Outer(q, d) \in Exchanges}}
        remove == IF Annotated(d)
                  THEN HashesFrom(dfs(exchanges, {}, rows, d), rows, d) ELSE {} IN
    {r \in rows : r.hash \notin remove}

\* Mutant: the victim is not taken for visited.
filter_path_through(rows, hashes) ==
    LET starts == {r.receiver : r \in {q \in rows : q.hash \in hashes}}
        keep == hashes \cup HashesFrom(dfs(starts, {}, rows, "outbound"), rows,
                                       "outbound") IN
    {r \in rows : r.hash \in keep}

\* filter_transaction_path, which never goes on from the victim.
filter_transaction_path(rows, hashes) ==
    LET starts == {r.receiver : r \in {q \in rows : q.hash \in hashes}}
        keep == hashes \cup HashesFrom(dfs(starts, {victim}, rows, "outbound"), rows,
                                       "outbound") IN
    {r \in rows : r.hash \in keep}

\* Mutant: the depths of the source stay as they were turned.
offset_dist(src, dist) == src \cup Deeper(dist)
\* The offset of the depths: the transfer to the thief comes first.
offset(src, dist) ==
    IF dex THEN Negated(src) \cup Deeper(dist) ELSE src \cup dist

Filtered(d) ==
    filter_exchange_transactions(
        Towards(IF d = "inbound" THEN Source ELSE found[d], d), d)
Joined == offset(Filtered("inbound"), Filtered("outbound"))
Result == IF request.hashes = {} THEN Joined
          ELSE filter_transaction_path(Joined, request.hashes)

\* ck_query after the lookups.  Errors of the distribution are the answer,
\* whatever the other thread does; those of the source leave it out, and an
\* exception of either leaves no data at all.  With rows there are addresses to
\* list and annotations to fetch, which may raise as well.
Finish ==
    /\ phase = "fetch" /\ thread["outbound"] = "done"
    /\ vendor["outbound"] \notin {"errors", "raised"} => thread["inbound"] = "done"
    /\ phase' = "end"
    /\ IF vendor["outbound"] = "errors"
       THEN answer' = "vendor_error" /\ UNCHANGED shown
       ELSE \/ /\ \/ "raised" \in {vendor["outbound"], vendor["inbound"]}
                  \/ Source \cup found["outbound"] # {}
               /\ answer' = "no_data" /\ UNCHANGED shown
            \/ /\ "raised" \notin {vendor["outbound"], vendor["inbound"]}
               /\ shown' = Result
               /\ answer' = IF shown' = {} THEN "no_data" ELSE "data"
    /\ UNCHANGED <<chain, request, docs, dex, thread, vendor, api_used, found>>

Next == \/ Happen \/ Start \/ Finish
        \/ \E d \in Directions : Tracer(d) \/ Bitquery(d) \/ FollowSwap(d) \/ SwapsEnd(d)
Spec == Init /\ [][Next]_vars

-----------------------------------------------------------------------------
Row == [hash : Hashes, sender : Addresses, receiver : Addresses, depth : Int,
        side : Directions]
TypeOK ==
    /\ \A t \in chain : t \in Transfer
    /\ dex \in BOOLEAN
    /\ \A r \in shown \cup found["inbound"] \cup found["outbound"] : r \in Row
    /\ \A r \in found["outbound"] : r.depth >= 1
    /\ api_used \in {"tracer", "bitquery"}
    /\ answer \in {"none", "vendor_error", "no_data", "data"}

\* The rows of one direction behind an exchange, by the paths that lead there: to
\* pass no address twice, a path needs no more rows than there are addresses, and
\* one more for the row itself.
Paths(rows) == UNION {[1..n -> rows] : n \in 2..(Cardinality(Addresses) + 1)}
Behind(rows, d) ==
    {p[Len(p)] : p \in {q \in Paths(rows) :
        /\ Outer(q[1], d) \in Exchanges
        /\ \A i \in 1..(Len(q) - 1) : Inner(q[i + 1], d) = Outer(q[i], d)}}
SameTransfer(r, q) == /\ r.hash = q.hash /\ r.sender = q.sender
                      /\ r.receiver = q.receiver /\ r.side = q.side
Shows(r) == \E q \in shown : SameTransfer(r, q)

\* The trail of the money ends at an exchange: no shown transaction lies behind
\* one, provided that one vendor answered all there is.
ExchangesEndTheTrail ==
    phase = "end" /\ api_used = vendor["outbound"] =>
        \A r \in Behind(found["outbound"], "outbound") : ~Shows(r)

\* Nothing else is taken away: a transaction of the trail is missing from an
\* unrestricted answer only if its hash is that of one behind an exchange.
OnlyExchangesCut ==
    answer = "data" /\ request.hashes = {} =>
        \A r \in found["outbound"] :
            Shows(r) \/ \E q \in Behind(found["outbound"], "outbound") : q.hash = r.hash

\* An answer restricted to given transactions shows them and what followed from
\* them on a path that leaves the victim behind, and nothing that shares no hash
\* with these.
FollowsFrom(p) ==
    /\ p[1].hash \in request.hashes
    /\ \A i \in 1..(Len(p) - 1) : p[i + 1].sender = p[i].receiver /\ p[i].receiver # victim
AnswerFollowsTheHashes ==
    answer = "data" /\ request.hashes # {} =>
        /\ \A r \in Joined : r.hash \in request.hashes => r \in shown
        /\ \A p \in Paths(Joined) : FollowsFrom(p) => p[Len(p)] \in shown
        /\ \A r \in shown :
              \/ r.hash \in request.hashes
              \/ \E p \in Paths(shown) : FollowsFrom(p) /\ p[Len(p)].hash = r.hash

\* What the victim sent to the thief is shown as far as the vendor of the source
\* counts its hops upwards: all of it from Bitquery, and from the tracer, whose
\* client has already turned the depths around, only what followed a swap.
VictimsTransfersByVendor ==
    answer = "data" /\ request.hashes = {} /\ victim \notin Exchanges =>
        LET sent == {r \in found["inbound"] : r.sender = victim}
            shownOfThem == {r \in shown : r.side = "inbound"} IN
        /\ shownOfThem = {r \in sent : r.depth >= 1}
        /\ vendor["inbound"] = "bitquery" => shownOfThem = sent
        /\ vendor["inbound"] = "tracer" => Signed(Trace("inbound"), "inbound") \cap shownOfThem = {}

\* The inductive invariant: what is found is of its direction, nothing is found
\* of a source that is not looked up, and once rows are shown they are the result
\* of threads that are done.
FoundOK ==
    /\ found \in [Directions -> SUBSET Row]
    /\ \A d \in Directions : \A r \in found[d] : r.side = d
    /\ \A r \in found["outbound"] : r.depth >= 1
    /\ vendor["inbound"] = "bitquery" => \A r \in found["inbound"] : r.depth >= 1
    /\ ~dex => found["inbound"] = {}
ThreadsOK ==
    /\ thread \in [Directions -> {"idle", "tracer", "bitquery", "swaps", "done"}]
    /\ vendor \in [Directions -> {"none", "tracer", "bitquery", "errors", "raised"}]
    /\ api_used \in {"tracer", "bitquery"}
    /\ phase = "chain" => ~dex /\ \A d \in Directions : thread[d] = "idle"
    /\ phase # "chain" /\ ~dex => thread["inbound"] = "done"
ShownOK ==
    /\ phase \in {"chain", "fetch", "end"} /\ answer \in {"none", "vendor_error", "no_data", "data"}
    /\ phase # "end" => shown = {} /\ answer = "none"
    /\ answer = "data" => shown # {}
    /\ shown # {} => /\ shown = Result /\ shown \subseteq Row
                     /\ \A d \in Directions : thread[d] = "done"
IInv ==
    /\ chain \subseteq Transfer /\ dex \in BOOLEAN
    /\ request \in [query_source : BOOLEAN, threat : {"none", threat}, hashes : SUBSET Hashes]
    /\ FoundOK /\ ThreadsOK /\ ShownOK
=============================================================================
