----------------------------- MODULE ChainQuery -----------------------------
(* One lookup of the public API, from the checked address to its answer:    *)
(* catv_query of api/api_views.py.  The tracer is asked first on some       *)
(* chains, Bitquery otherwise and instead; its answer is flattened chain by *)
(* chain (api/catvutils/graphql_interface.py), and the annotations are      *)
(* looked up in Elasticsearch or at the portal.  Of a row what matters is   *)
(* its addresses, their annotations, and whether it has types: annotating   *)
(* relies on them where an address has no annotation.                       *)
EXTENDS Integers, Sequences, FiniteSets, SequencesExt

CONSTANTS Chains,      \* what a caller may name as chain
          Addresses,   \* addresses of transactions
          MaxItems,    \* transactions in an answer of a vendor
          MaxDocs,     \* documents Elasticsearch has of an address
          chunk_size,  \* addresses in one query to it
          Flags        \* values of the flags of a transaction

ChainQueryAssumption == /\ MaxItems \in Nat /\ MaxDocs \in Nat
                        /\ chunk_size \in Nat \ {0}
                        /\ Flags \subseteq BOOLEAN
                        /\ "none" \notin Addresses    \* an empty string of the code, here and below

-----------------------------------------------------------------------------
(* api/constants.py *)
SUPPORTED_NETWORKS == {"BTC", "ETH", "LTC", "TRX", "EOS", "XLM", "ADA", "BNB",
                       "BCH", "XRP", "BSC", "KLAY", "DASH", "DOGE", "ZEC",
                       "FTM", "POL", "AVAX"}

CHAIN_TEMPLATE_MAPPING ==
    [ETH |-> "ETHEREUM_LIKE", KLAY |-> "ETHEREUM_LIKE", BSC |-> "ETHEREUM_LIKE",
     FTM |-> "ETHEREUM_LIKE", POL |-> "ETHEREUM_LIKE", AVAX |-> "ETHEREUM_LIKE",
     BTC |-> "BITCOIN_LIKE", BCH |-> "BITCOIN_LIKE", LTC |-> "BITCOIN_LIKE",
     DOGE |-> "BITCOIN_LIKE", ZEC |-> "BITCOIN_LIKE", DASH |-> "BITCOIN_LIKE",
     XRP |-> "RIPPLE_STELLAR", XLM |-> "RIPPLE_STELLAR", BNB |-> "BINANCE_TRON",
     TRX |-> "BINANCE_TRON", EOS |-> "EOS", ADA |-> "CARDANO", LUNC |-> "TERRA"]

-----------------------------------------------------------------------------
(* flatten_node                                                              *)

\* Mutant: the chains of Binance's template are flattened without types, too.
HasTypesFewer(chain) == chain \notin {"XRP", "XLM", "LUNC", "BNB"}
\* The rows of three chains have no sender_type and receiver_type.
HasTypes(chain) == chain \notin {"XRP", "XLM", "LUNC"}

\* The elements at some positions, in their order: one loop with one condition.
Kept(s, positions) ==
    LET upTo[n \in 0..Len(s)] ==
            IF n = 0 THEN <<>>
            ELSE IF n \in positions THEN Append(upTo[n - 1], s[n]) ELSE upTo[n - 1]
    IN upTo[Len(s)]

\* A reward of the chain itself has no receiver's address and is left out.
Coinbase(chain, item) == /\ chain \in {"BTC", "DOGE", "DASH"}
                         /\ item.reward /\ item.receiver = "none"

\* A number that does not convert raises, and the transaction is left out.
flatten_node(chain, i) == Kept(i, {n \in DOMAIN i : i[n].numeric /\ ~Coinbase(chain, i[n])})

-----------------------------------------------------------------------------
VARIABLES
    request,    \* chain, and whether the other parameters are there
    ES_FLAG,    \* of the process: Elasticsearch is used
    index,      \* the documents of an address, oldest first
    phase,
    query,      \* the template of the query sent to Bitquery
    items,      \* what the vendor answered
    rows,       \* what is made of it
    answer,
    cause       \* history: why there is no data

vars == <<request, ES_FLAG, index, phase, query, items, rows, answer, cause>>

NoQuery == "none"
Items == [sender : Addresses, receiver : Addresses \cup {"none"}, reward : Flags,
          dex : Flags, numeric : Flags]
Docs  == {"none", "old", "new"}

Init ==
    /\ request \in [chain : Chains, complete : BOOLEAN]
    /\ ES_FLAG \in BOOLEAN
    /\ index \in [Addresses -> BoundedSeq(Docs, MaxDocs)]
    /\ phase = "start"
    /\ query = NoQuery
    /\ items = <<>>
    /\ rows = <<>>
    /\ answer = "none"
    /\ cause = "none"

Reply(a, why) == phase' = "end" /\ answer' = a /\ cause' = why
Continue(next) == phase' = next /\ UNCHANGED <<answer, cause>>

\* validate_addr refuses a chain that is not supported, and a parameter that
\* catv_query takes for granted ends it if it is missing.
Check ==
    /\ phase = "start"
    /\ IF request.chain \notin SUPPORTED_NETWORKS THEN Reply("invalid", "chain")
       ELSE IF ~request.complete THEN Reply("no_data", "parameter")
       ELSE Continue("tracer")
    /\ UNCHANGED <<request, ES_FLAG, index, query, items, rows>>

TracerFirst == {"ETH", "BSC", "FTM", "POL", "ETC", "TRX", "BTC", "KLAY"}

\* get_transactions of the coinpath client, the tracer's half: rows with a
\* receiver if it has any, and Bitquery if it has none or fails.
AskTracer ==
    /\ phase = "tracer"
    /\ \/ /\ Continue("bitquery")
          /\ UNCHANGED <<items, rows>>
       \/ /\ request.chain \in TracerFirst
          /\ \E i \in BoundedSeq(Items, MaxItems) \ {<<>>} :
                /\ items' = i
                /\ rows' = Kept(i, {n \in DOMAIN i : i[n].receiver # "none"})
          /\ Continue("annotate")
    /\ UNCHANGED <<request, ES_FLAG, index, query>>

\* _graphql_query_builder, the request and the flattening of its answer, which
\* ends with the rows of the swaps that were followed.  A chain without a template
\* makes an empty list, and so do failed requests.
AskBitquery ==
    /\ phase = "bitquery"
    /\ IF request.chain \in DOMAIN CHAIN_TEMPLATE_MAPPING
       THEN /\ query' = CHAIN_TEMPLATE_MAPPING[request.chain]
            /\ \/ /\ \E i \in BoundedSeq(Items, MaxItems) :
                        items' = i /\ rows' = flatten_node(request.chain, i)
                  /\ Continue("annotate")
               \/ /\ \/ Reply("server_error", "vendor")
                     \/ Reply("no_data", "vendor")
                  /\ UNCHANGED <<items, rows>>
       ELSE Continue("annotate") /\ UNCHANGED <<query, items, rows>>
    /\ UNCHANGED <<request, ES_FLAG, index>>

-----------------------------------------------------------------------------
\* create_address_list: an address that is none is refused for the chains of
\* Ethereum's kind.
is_eth_based_wallet(chain) == chain \in {"ETH", "BSC", "KLAY", "FTM", "POL", "ETC", "AVAX"}
AddressSet == {rows[i].sender : i \in DOMAIN rows} \cup {rows[i].receiver : i \in DOMAIN rows}

\* The chunks of fetch_annotations_from_es: one more than needed, at times.
Chunks(n) == (n + 1 + chunk_size - 1) \div chunk_size
Chunk(s, k) == SubSeq(s, 1 + (k - 1) * chunk_size, Min({k * chunk_size, Len(s)}))

\* Mutant: the documents are taken in the order Elasticsearch sorts them.
WinnerUnreversed(docs) == IF docs = <<>> THEN "none" ELSE Head(docs)
\* Sorted newest first, reversed, put into a dictionary: the newest wins.
Winner(docs) == IF docs = <<>> THEN "none" ELSE Last(docs)

fetch_annotations_from_es ==
    LET addresses == SetToSeq(AddressSet)
        queried == UNION {Range(Chunk(addresses, k)) : k \in 1..Chunks(Len(addresses))} IN
    [a \in Addresses \cup {"none"} |->
        IF a \in queried /\ a # "none" THEN Winner(index[a]) ELSE "none"]

\* The portal knows an indicator for what the index has one for; of several the
\* last of its reply wins, whatever the order of the reply.
fetch_annotations_from_rpc ==
    {known \in [Addresses \cup {"none"} -> Docs] :
        \A a \in Addresses \cup {"none"} :
            known[a] \in IF a \in AddressSet /\ a # "none" /\ index[a] # <<>>
                        THEN Range(index[a]) ELSE {"none"}}

\* annotate_transactions: without an annotation the type is looked at, which
\* not every row has.
Annotated(known, a, row) ==
    IF known[a] # "none" THEN known[a] ELSE IF row.dex THEN "dex" ELSE "none"
annotate_transactions(known) ==
    [i \in DOMAIN rows |->
        [sender |-> rows[i].sender, receiver |-> rows[i].receiver,
         sender_annotation |-> Annotated(known, rows[i].sender, rows[i]),
         receiver_annotation |-> Annotated(known, rows[i].receiver, rows[i])]]
LacksType(known) ==
    /\ query # NoQuery /\ ~HasTypes(request.chain)
    /\ \E i \in DOMAIN rows : known[rows[i].sender] = "none" \/ known[rows[i].receiver] = "none"

\* check_es_status: one connect timeout turns Elasticsearch off for good, and
\* fetch_annotations then goes to the portal.  Either lookup may fail.
Annotate ==
    /\ phase = "annotate"
    /\ ES_FLAG' \in {ES_FLAG, FALSE}
    /\ \E known \in IF ES_FLAG' THEN {fetch_annotations_from_es} ELSE fetch_annotations_from_rpc :
       LET notChecksummed == /\ is_eth_based_wallet(request.chain)
                             /\ "none" \in AddressSet IN
       \/ /\ \/ rows = <<>> /\ Reply("no_data", "no_transactions")
             \/ notChecksummed /\ Reply("no_data", "address")
             \/ ~notChecksummed /\ Reply("no_data", "annotations")
             \/ ~notChecksummed /\ LacksType(known) /\ Reply("no_data", "type")
          /\ UNCHANGED rows
       \/ /\ rows # <<>> /\ ~notChecksummed /\ ~LacksType(known)
          /\ rows' = annotate_transactions(known)
          /\ Reply("data", "none")
    /\ UNCHANGED <<request, index, query, items>>

Next == Check \/ AskTracer \/ AskBitquery \/ Annotate
Spec == Init /\ [][Next]_vars

-----------------------------------------------------------------------------
TypeOK ==
    /\ request \in [chain : Chains, complete : BOOLEAN]
    /\ ES_FLAG \in BOOLEAN
    /\ phase \in {"start", "tracer", "bitquery", "annotate", "end"}
    /\ items \in Seq(Items)
    /\ \A i \in DOMAIN rows :
          IF answer = "data"
          THEN {rows[i].sender_annotation, rows[i].receiver_annotation}
                    \subseteq Docs \cup {"dex"}
          ELSE rows[i] \in Items

\* On the chains whose rows have no types, and on no others, one address that nobody
\* has annotated takes all data away: where Bitquery's rows of such a chain are
\* shown, both ends of each are annotated.
OneUnannotatedTakesAll ==
    /\ cause = "type" => query \in {"RIPPLE_STELLAR", "TERRA"}
    /\ answer = "data" /\ query \in {"RIPPLE_STELLAR", "TERRA"} =>
          \A i \in DOMAIN rows : "none" \notin {rows[i].sender_annotation, rows[i].receiver_annotation}

\* In Elasticsearch's order a row carries the newest annotation that is known of
\* its two addresses, in however many chunks they were looked up.  The portal's
\* reply has no order: it does so for addresses with one indicator.
NewestAnnotationIsShown ==
    answer = "data" => \A i \in DOMAIN rows, a \in Addresses :
        index[a] # <<>> /\ Last(index[a]) # "none" /\ (ES_FLAG \/ Len(index[a]) = 1) =>
            /\ rows[i].sender = a => rows[i].sender_annotation = Last(index[a])
            /\ rows[i].receiver = a => rows[i].receiver_annotation = Last(index[a])

\* The inductive invariant: there is nothing before a vendor has answered, what is
\* made of the answer is a sequence of its transactions until it is annotated,
\* and the query is the one of the chain asked about.
QueryOK ==
    query # NoQuery => /\ request.chain \in DOMAIN CHAIN_TEMPLATE_MAPPING
                       /\ query = CHAIN_TEMPLATE_MAPPING[request.chain]
PhaseOK ==
    /\ answer \in {"none", "invalid", "no_data", "server_error", "data"}
    /\ phase # "end" => answer = "none" /\ cause = "none"
    /\ phase \in {"start", "tracer", "bitquery"} => items = <<>> /\ rows = <<>>
    /\ answer # "data" => rows \in Seq(Items)
IInv == /\ TypeOK /\ QueryOK /\ PhaseOK
        /\ index \in [Addresses -> Seq(Docs)]
        /\ OneUnannotatedTakesAll /\ NewestAnnotationIsShown
=============================================================================
