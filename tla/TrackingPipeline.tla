-------------------------- MODULE TrackingPipeline --------------------------
(* One tracking request: TrackingResults and its subclasses                 *)
(* (api/catvutils/tracking_results.py) as get_tracking_results of the       *)
(* serializers (api/serializers.py) drives them.  Both sides of a wallet    *)
(* are fetched by a pool of threads whose result thread runs the callback,  *)
(* drawn by a pool of processes, annotated one after the other and joined   *)
(* into one graph; whatever is raised becomes one message for the caller.   *)
(* A request is started by a caller that has set the serializer's           *)
(* _token_type, as the views do before they validate.                       *)
EXTENDS Integers, Sequences, FiniteSets, SequencesExt

CONSTANTS Trackers,    \* the tracker classes, a subset of DOMAIN Class
          Dates,       \* the days a range is made of
          MaxRows,     \* rows a cache table holds for one wallet at the start
          SaveToDb     \* the save_to_db argument

ASSUME TrackingAssumption ==
    /\ Dates \subseteq Nat
    /\ MaxRows \in Nat
    /\ SaveToDb \in BOOLEAN

Sides  == {"source", "distribution"}
Ranges == {r \in [from : Dates, to : Dates] : r.from =< r.to}
Rows   == [range : Ranges, result : {"rows", "empty"}]

-----------------------------------------------------------------------------
(* What the clients of the vendors hand back: rows, an empty list (also for *)
(* every status but 200, like {} and "") or any other value of JSON, or an  *)
(* exception.                                                               *)
(* "error" is a dictionary with a text under that key, "null" is None, 0 or *)
(* False, in which nothing can be looked up, "scalar" a true value in which *)
(* 'error' cannot be looked up (a number, or a string with that word), and  *)
(* "other" one in which it is not found, or holds nothing.                  *)
Raised == {"timeout", "raised"}
Truthy == {"rows", "error", "scalar", "other"}
Deadly == {"null", "scalar"}    \* what the callback does not survive
Json   == {"empty", "null"} \cup Truthy

LyzeAPIInterface      == Json \cup Raised
BloxyBTCAPIInterface  == Json \cup Raised
BloxyEthAPIInterface  == Json \cup Raised

\* get_results_from_bloxy passes its arguments to the coinpath client by
\* position, in an order that is not the client's.
coinpath_parameters == <<"address", "limit", "depth_limit", "source", "chain",
                         "from_time", "till_time", "token_address">>
passed_arguments    == <<"wallet_address", "limit", "depth", "from_date",
                         "till_date", "token_address", "for_source", "chain">>
Bound(parameter) ==
    passed_arguments[CHOOSE i \in DOMAIN coinpath_parameters :
                                    coinpath_parameters[i] = parameter]

\* A chain that is no chain is not the tracer's, and a time that is no time
\* makes no query: the client then returns [] and nobody was asked.
CoinpathAsks == Bound("chain") = "chain" /\ Bound("from_time") = "from_date"
CoinpathAPIInterface ==
    IF CoinpathAsks THEN {"rows", "empty", "raised"} ELSE {"empty"}

\* The classes: whom they ask, for which sides, whether tables keep the rows,
\* and whether the builder can be called (BTCTrackingResults hands it one
\* argument too many).
TrackingResults            == [asks |-> CoinpathAPIInterface, sides |-> Sides,
                               keeps |-> TRUE, builds |-> TRUE]
BTCTrackingResults         == [asks |-> LyzeAPIInterface, sides |-> Sides,
                               keeps |-> FALSE, builds |-> FALSE]
BTCCoinpathTrackingResults == [asks |-> BloxyBTCAPIInterface, sides |-> Sides,
                               keeps |-> FALSE, builds |-> TRUE]
EthPathResults             == [asks |-> BloxyEthAPIInterface, sides |-> {"distribution"},
                               keeps |-> FALSE, builds |-> TRUE]
BtcPathResults             == EthPathResults

Class == [flow |-> TrackingResults, btc |-> BTCTrackingResults,
          btcflow |-> BTCCoinpathTrackingResults,
          path |-> EthPathResults, btcpath |-> BtcPathResults]

ASSUME TrackersAssumption == Trackers \subseteq DOMAIN Class

-----------------------------------------------------------------------------
VARIABLES
    tracker,    \* class, sides with a depth, date range and force_lookup
    table,      \* rows of BloxySource and BloxyDistribution, oldest first
    fetch,      \* pc of the pool's thread of a side
    value,      \* what fetch_results of a side returned or raised
    used,       \* the ranges whose rows a side was served
    done,       \* finished sides, in the order the result thread sees them
    got,        \* sides whose AsyncResult is ready
    deaf,       \* the pool's result thread died in the callback
    error, error_messages, ext_api_calls, loaded,
    graph,      \* the AsyncResult of a side's builder
    drawn,      \* sides whose graph is annotated
    phase, answer,
    asked       \* history: sides for which a vendor was asked

vars == <<tracker, table, fetch, value, used, done, got, deaf, error,
          error_messages, ext_api_calls, loaded, graph, drawn, phase, answer,
          asked>>

fetching == <<fetch, value, used, done, ext_api_calls, loaded, asked, table>>
drawing  == <<graph, drawn, phase, answer>>
pool     == <<got, deaf, error>>

\* __init__ : a side is asked for when it has a depth.
Init ==
    /\ \E c \in Trackers, s \in SUBSET Sides \ {{}}, r \in Ranges,
          f \in BOOLEAN :
          /\ s \subseteq Class[c].sides
          /\ f => Class[c].keeps
          /\ tracker = [class |-> c, sides |-> s, range |-> r, force |-> f]
          /\ table \in [Sides -> BoundedSeq(Rows, MaxRows)]
          /\ \A side \in Sides :
                ~Class[c].keeps \/ side \notin s => table[side] = <<>>
    /\ fetch = [s \in Sides |-> "idle"]
    /\ value = [s \in Sides |-> "none"]
    /\ used = [s \in Sides |-> {}]
    /\ done = <<>>
    /\ got = {}
    /\ deaf = FALSE
    /\ error = "none"
    /\ error_messages = {}
    /\ ext_api_calls = 0
    /\ loaded = [s \in Sides |-> 0]
    /\ graph = [s \in Sides |-> "none"]
    /\ drawn = {}
    /\ phase = "start"
    /\ answer = "none"
    /\ asked = {}

-----------------------------------------------------------------------------
(* get_tracking_data: one task for every side with a depth. *)
get_tracking_data ==
    /\ phase = "start"
    /\ phase' = "join"
    /\ fetch' = [s \in Sides |-> IF s \in tracker.sides THEN "begin" ELSE "idle"]
    /\ UNCHANGED <<tracker, table, value, used, done, pool, error_messages,
                   ext_api_calls, loaded, graph, drawn, answer, asked>>

\* The rows whose range lies inside the one asked for; the newest is taken.
Hits(s) == {i \in DOMAIN table[s] :
               /\ table[s][i].range.from >= tracker.range.from
               /\ table[s][i].range.to =< tracker.range.to}
Newest(s) == table[s][CHOOSE i \in Hits(s) : \A j \in Hits(s) : j =< i]
ServedFromDb(s) ==
    /\ Class[tracker.class].keeps /\ ~tracker.force
    /\ Hits(s) # {} /\ Newest(s).result # "empty"

\* fetch_results of TrackingResults, when the table has the rows.
Reuse(s) ==
    /\ fetch[s] = "begin" /\ ServedFromDb(s)
    /\ value' = [value EXCEPT ![s] = "rows"]
    /\ used' = [used EXCEPT ![s] = {Newest(s).range}]
    /\ fetch' = [fetch EXCEPT ![s] = "end"]
    /\ done' = Append(done, s)
    /\ UNCHANGED <<tracker, table, pool, error_messages, ext_api_calls, loaded,
                   drawing, asked>>

\* Mutant: both sides report under the key of the source.
AskOneKey(s) ==
    /\ fetch[s] = "begin" /\ ~ServedFromDb(s)
    /\ \E v \in Class[tracker.class].asks :
          /\ value' = [value EXCEPT ![s] = v]
          /\ IF v \in Raised
             THEN /\ fetch' = [fetch EXCEPT ![s] = "end"]
                  /\ done' = Append(done, s)
                  /\ UNCHANGED error_messages
             ELSE /\ fetch' = [fetch EXCEPT ![s] = "count"]
                  /\ error_messages' = IF v \in Truthy THEN error_messages
                                       ELSE error_messages \cup {"source"}
                  /\ UNCHANGED done
    /\ asked' = IF tracker.class # "flow" \/ CoinpathAsks
                THEN asked \cup {s} ELSE asked
    /\ UNCHANGED <<tracker, table, used, pool, ext_api_calls, loaded, drawing>>

\* get_results_from_bloxy, or fetch_results of a subclass up to its answer:
\* an exception ends the task, nothing at all is a message for the side.
Ask(s) ==
    /\ fetch[s] = "begin" /\ ~ServedFromDb(s)
    /\ \E v \in Class[tracker.class].asks :
          /\ value' = [value EXCEPT ![s] = v]
          /\ IF v \in Raised
             THEN /\ fetch' = [fetch EXCEPT ![s] = "end"]
                  /\ done' = Append(done, s)
                  /\ UNCHANGED error_messages
             ELSE /\ fetch' = [fetch EXCEPT ![s] = "count"]
                  /\ error_messages' = IF v \in Truthy THEN error_messages
                                       ELSE error_messages \cup {s}
                  /\ UNCHANGED done
    /\ asked' = IF tracker.class # "flow" \/ CoinpathAsks
                THEN asked \cup {s} ELSE asked
    /\ UNCHANGED <<tracker, table, used, pool, ext_api_calls, loaded, drawing>>

\* save_bloxy_result, and ext_api_calls += 1 read before it is written.
Save(s) == IF Class[tracker.class].keeps /\ SaveToDb /\ value[s] \in Truthy
           THEN [table EXCEPT ![s] = Append(@, [range |-> tracker.range,
                                                result |-> "rows"])]
           ELSE table
Load(s) ==
    /\ fetch[s] = "count"
    /\ table' = Save(s)
    /\ loaded' = [loaded EXCEPT ![s] = ext_api_calls]
    /\ fetch' = [fetch EXCEPT ![s] = "store"]
    /\ UNCHANGED <<tracker, value, used, done, pool, error_messages,
                   ext_api_calls, drawing, asked>>
Store(s) ==
    /\ fetch[s] = "store"
    /\ ext_api_calls' = loaded[s] + 1
    /\ fetch' = [fetch EXCEPT ![s] = "end"]
    /\ done' = Append(done, s)
    /\ UNCHANGED <<tracker, table, value, used, pool, error_messages, loaded,
                   drawing, asked>>

\* Mutant: a result is ready before its callback has run.
DeliverEarly ==
    /\ done # <<>> /\ ~deaf
    /\ LET s == Head(done) IN
       IF value[s] \in Deadly
       THEN deaf' = TRUE /\ UNCHANGED <<got, error, done>>
       ELSE IF s \notin got
       THEN got' = got \cup {s} /\ UNCHANGED <<error, done, deaf>>
       ELSE /\ error' = IF value[s] = "error" THEN s ELSE error
            /\ done' = Tail(done)
            /\ UNCHANGED <<got, deaf>>
    /\ UNCHANGED <<tracker, table, fetch, value, used, error_messages,
                   ext_api_calls, loaded, drawing, asked>>
\* Mutant: the callback does not survive an empty list either.
DeliverFragile ==
    /\ done # <<>> /\ ~deaf
    /\ LET s == Head(done) IN
       IF value[s] \in Deadly \cup {"empty"}
       THEN deaf' = TRUE /\ UNCHANGED <<got, error, done>>
       ELSE /\ got' = got \cup {s}
            /\ error' = IF value[s] = "error" THEN s ELSE error
            /\ done' = Tail(done)
            /\ UNCHANGED deaf
    /\ UNCHANGED <<tracker, table, fetch, value, used, error_messages,
                   ext_api_calls, loaded, drawing, asked>>

\* The result thread: bloxy_response_callback for a task that did not raise,
\* then the AsyncResult is ready.  'error' in None kills the thread, and so does
\* ['error'] of a string.
Deliver ==
    /\ done # <<>> /\ ~deaf
    /\ LET s == Head(done) IN
       IF value[s] \in Deadly
       THEN deaf' = TRUE /\ UNCHANGED <<got, error, done>>
       ELSE /\ got' = got \cup {s}
            /\ error' = IF value[s] = "error" THEN s ELSE error
            /\ done' = Tail(done)
            /\ UNCHANGED deaf
    /\ UNCHANGED <<tracker, table, fetch, value, used, error_messages,
                   ext_api_calls, loaded, drawing, asked>>

\* pool.join(): returns when every task of the pool has been delivered.
Join ==
    /\ phase = "join" /\ tracker.sides \subseteq got
    /\ phase' = "get source"
    /\ UNCHANGED <<tracker, fetching, pool, error_messages, graph, drawn,
                   answer>>

-----------------------------------------------------------------------------
(* What get_tracking_results of a serializer makes of an exception: one     *)
(* message.  An exception is never false, so the third text is never used.  *)
Message(e) == IF e = "timeout" THEN "timeout"
              ELSE IF error # "none" THEN error ELSE "oops"

CATVSerializer_results(e)           == Message(e)
CATVBTCSerializer_results(e)        == Message(e)
CATVBTCCoinpathSerializer_results(e) == Message(e)
CATVEthPathSerializer_results(e)    == Message(e)

Results(e) == CASE tracker.class = "flow"    -> CATVSerializer_results(e)
                [] tracker.class = "btc"     -> CATVBTCSerializer_results(e)
                [] tracker.class = "btcflow" -> CATVBTCCoinpathSerializer_results(e)
                [] OTHER                     -> CATVEthPathSerializer_results(e)

FailWith(e) == /\ phase' = "failed"
               /\ answer' = Results(e)

\* create_graph_data, for one side: get() raises again what the task raised,
\* and a task that returned something truthy gives the builder work.
Get(s, here, next) ==
    /\ phase = here
    /\ IF s \in tracker.sides /\ value[s] \in Raised
       THEN FailWith(value[s]) /\ UNCHANGED graph
       ELSE /\ phase' = next
            /\ graph' = IF s \in tracker.sides /\ value[s] \in Truthy
                        THEN [graph EXCEPT ![s] = "queued"] ELSE graph
            /\ UNCHANGED answer
    /\ UNCHANGED <<tracker, fetching, pool, error_messages, drawn>>

create_graph_data == \/ Get("source", "get source", "get distribution")
                     \/ Get("distribution", "get distribution", "join graphs")

\* The builders, one process each: none makes sense of a dictionary.
Build(s) ==
    /\ graph[s] = "queued"
    /\ \E g \in {"built", "broken"} :
          /\ g = "built" => Class[tracker.class].builds /\ value[s] = "rows"
          /\ graph' = [graph EXCEPT ![s] = g]
    /\ UNCHANGED <<tracker, fetching, pool, error_messages, drawn, phase,
                   answer>>

JoinGraphs ==
    /\ phase = "join graphs"
    /\ \A s \in Sides : graph[s] # "queued"
    /\ phase' = "annotate source"
    /\ UNCHANGED <<tracker, fetching, pool, error_messages, graph, drawn,
                   answer>>

\* set_annotations_from_db: the builder's exception comes back here.  A graph
\* that was built has its annotations fetched by an RPC, which may fail.
Annotate(s, here, wait, next) ==
    /\ phase = here
    /\ \/ graph[s] = "none" /\ phase' = next /\ UNCHANGED answer
       \/ graph[s] = "built" /\ phase' = wait /\ UNCHANGED answer
       \/ graph[s] # "none" /\ FailWith("raised")
    /\ UNCHANGED <<tracker, fetching, pool, error_messages, graph, drawn>>

\* update_annotations, when the portal has answered.  Nobody gives up waiting,
\* and an answer that cannot be read is an exception.
Indicators(s, wait, next) ==
    /\ phase = wait
    /\ \/ phase' = next /\ drawn' = drawn \cup {s} /\ UNCHANGED answer
       \/ FailWith("raised") /\ UNCHANGED drawn
    /\ UNCHANGED <<tracker, fetching, pool, error_messages, graph>>

set_annotations_from_db ==
    \/ Annotate("source", "annotate source", "wait source", "annotate distribution")
    \/ Annotate("distribution", "annotate distribution", "wait distribution", "answer")
update_annotations ==
    \/ Indicators("source", "wait source", "annotate distribution")
    \/ Indicators("distribution", "wait distribution", "answer")

\* make_graph_dict: both graphs joined, or the one there is.
make_graph_dict ==
    IF drawn = Sides THEN Sides
    ELSE IF "distribution" \in drawn THEN {"distribution"}
    ELSE IF "source" \in drawn THEN {"source"} ELSE {}

Return ==
    /\ phase = "answer"
    /\ phase' = "answered"
    /\ answer' = "graph"
    /\ drawn' = make_graph_dict
    /\ UNCHANGED <<tracker, fetching, pool, error_messages, graph>>

Main == \/ get_tracking_data \/ Join \/ create_graph_data
        \/ JoinGraphs \/ set_annotations_from_db \/ Return
Worker(s) == Reuse(s) \/ Ask(s) \/ Load(s) \/ Store(s) \/ Build(s)

Next == Main \/ update_annotations \/ Deliver \/ \E s \in Sides : Worker(s)

Spec == Init /\ [][Next]_vars

\* Every thread of the pools and the caller's thread are scheduled; that the
\* portal answers the RPC is not assumed.
FairSpec == Spec /\ WF_vars(Main) /\ WF_vars(Deliver)
                 /\ \A s \in Sides : WF_vars(Worker(s))

-----------------------------------------------------------------------------
Gets  == {"get source", "get distribution"}
Waits == {"wait source", "wait distribution"}
Draws == {"join graphs", "annotate source", "annotate distribution", "answer"} \cup Waits

TypeOK ==
    /\ tracker \in [class : Trackers, sides : SUBSET Sides, range : Ranges,
                    force : BOOLEAN]
    /\ table \in [Sides -> Seq(Rows)]
    /\ fetch \in [Sides -> {"idle", "begin", "count", "store", "end"}]
    /\ value \in [Sides -> {"none"} \cup Json \cup Raised]
    /\ used \in [Sides -> SUBSET Ranges]
    /\ done \in Seq(Sides) /\ Len(done) =< 2
    /\ got \subseteq tracker.sides
    /\ deaf \in BOOLEAN
    /\ error \in Sides \cup {"none"}
    /\ error_messages \subseteq tracker.sides
    /\ ext_api_calls \in 0..2 /\ loaded \in [Sides -> 0..1]
    /\ graph \in [Sides -> {"none", "queued", "built", "broken"}]
    /\ drawn \subseteq tracker.sides
    /\ phase \in {"start", "join"} \cup Gets \cup Draws \cup {"answered", "failed"}
    /\ answer \in {"none", "graph", "timeout", "oops"} \cup Sides
    /\ asked \subseteq tracker.sides

\* No side of an answered request is lost without a word: a side that was
\* asked for is in the graph, or the caller is told that it is missing.
EverySideIsAccountedFor ==
    phase = "answered" =>
        /\ drawn \cup error_messages = tracker.sides
        /\ drawn \cap error_messages = {}

\* The vendor's own words reach the caller: the general message is used only
\* if no vendor gave an error, and an error is quoted of the side it is about.
\* It needs the callbacks of both sides to have run before the first get().
VendorErrorIsReported ==
    /\ answer = "oops" => \A s \in Sides : value[s] # "error"
    /\ answer \in Sides => value[answer] = "error"

\* api_calls may miss one of two calls that end together, but a request that
\* asked a vendor says so, and a side served from its table counts nothing.
CallsAreNotInvented ==
    phase = "answered" =>
        /\ ext_api_calls =< Cardinality({s \in tracker.sides : used[s] = {}})
        /\ asked # {} => ext_api_calls >= 1

\* Rows taken from the tables never leave the range that was asked for, and
\* nothing is taken from them when the caller forces a lookup.
RowsStayInRange ==
    \A s \in Sides : \A r \in used[s] :
        /\ tracker.range.from =< r.from /\ r.to =< tracker.range.to
        /\ ~tracker.force

\* What an answered request tells of itself is true: the sides, the calls and
\* the rows.
TheAnswerAddsUp == EverySideIsAccountedFor /\ CallsAreNotInvented /\ RowsStayInRange

\* The inductive invariant of these properties.  What a side's thread has found
\* tells how far it is, ...
FetchOK ==
    \A s \in Sides :
        /\ fetch[s] = "idle" <=> phase = "start" \/ s \notin tracker.sides
        /\ value[s] = "none" <=> fetch[s] \in {"idle", "begin"}
        /\ fetch[s] \in {"count", "store"} => value[s] \notin Raised
        /\ s \in error_messages <=> value[s] \in {"empty", "null"}
        /\ s \in asked => value[s] # "none"
        /\ used[s] # {} => fetch[s] = "end" /\ s \notin asked

\* ... each side that has ended waits for the result thread or is delivered, and
\* all of them are before the first get(), ...
DeliveryOK ==
    /\ \A i, j \in DOMAIN done : done[i] = done[j] => i = j
    /\ \A s \in Sides :
          /\ fetch[s] = "end" <=> s \in got \/ \E i \in DOMAIN done : done[i] = s
          /\ s \in got => \A i \in DOMAIN done : done[i] # s
          /\ s \in got => value[s] \notin Deadly /\ (value[s] = "error" => error # "none")
    /\ error # "none" => value[error] = "error"
    /\ phase \notin {"start", "join"} => tracker.sides \subseteq got

\* ... a count that is read before it is written is at most that of the sides
\* that have ended since, ...
Ended(s) == IF fetch[s] = "end" /\ used[s] = {} THEN 1 ELSE 0
CountOK ==
    /\ ext_api_calls =< Ended("source") + Ended("distribution")
    /\ \A s, o \in Sides : fetch[s] = "store" /\ o # s => loaded[s] =< Ended(o)
    /\ \A s \in asked : fetch[s] = "end" /\ value[s] \notin Raised => ext_api_calls >= 1

\* ... what a side has found is drawn or has failed by the time the phase is past
\* it, ...
Fetched(s) == phase \in Draws \cup {"answered"} \/ (s = "source" /\ phase = "get distribution")
Annotated(s) == phase \in {"answer", "answered"} \/ (s = "source" /\ phase \in {"annotate distribution", "wait distribution"})
Waiting(s) == phase = IF s = "source" THEN "wait source" ELSE "wait distribution"
DrawnOK ==
    \A s \in Sides :
        /\ graph[s] # "none" => /\ value[s] \in Truthy /\ s \in tracker.sides
                                /\ Fetched(s) \/ phase = "failed"
        /\ s \in drawn => graph[s] = "built"
        /\ Fetched(s) => value[s] \notin Raised /\ (value[s] \in Truthy => graph[s] # "none")
        /\ Annotated(s) /\ graph[s] # "none" => s \in drawn
        /\ Waiting(s) => graph[s] = "built"

\* ... and an answer is given at the end.
AnswerOK == /\ answer # "none" => phase \in {"answered", "failed"}
            /\ VendorErrorIsReported

IInv == /\ TypeOK /\ FetchOK /\ DeliveryOK /\ CountOK /\ RowsStayInRange
        /\ DrawnOK /\ AnswerOK

\* Every request ends, unless a vendor's answer kills the result thread in its
\* callback, so that join never returns, or the portal never answers the RPC.
HangsOnlyOnAnswers ==
    \/ <>(phase \in {"answered", "failed"} \/ \E s \in Sides : value[s] \in Deadly)
    \/ <>[](phase \in Waits)

=============================================================================
