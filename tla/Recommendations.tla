-------------------------- MODULE Recommendations ---------------------------
(***************************************************************************)
(* TracerRecommendationsView: what is asked for is validated, the tracer   *)
(* counts its transactions, and a depth is recommended.  The validation    *)
(* reads the blockchain's name in capitals, the query takes it as written. *)
(* Of the chains, one stands for all that are treated alike; of an address *)
(* or a hash only the formats it fits matter.                              *)
(***************************************************************************)
EXTENDS Naturals

CONSTANTS
  Counts,   \* answers of the tracer tried
  None

CountAssumption == Counts \subseteq Nat /\ None \notin Nat

ChainNames == {"ETH", "ETC", "XDC", "STABLE", "KLAY", "TRX", "BTC", "SOL", "XRP"}

\* An address, as the set of the patterns it fits: base58 strings fit several.
Wallets == {{"evm", "xdc"}, {"xdc"}, {"tron", "solana"}, {"btc"}, {"btc", "solana"}, {"solana"}, {}}
HashForms == {"hex", "0xhex", "other"}

Query == [chain : ChainNames, capitals : BOOLEAN,
          wallet : Wallets \cup {None}, hash : HashForms \cup {None},
          token : Wallets \cup {None}, sender : Wallets \cup {None}, receiver : Wallets \cup {None}]

VARIABLES
  query,
  step,
  asked,    \* <<chain id, chain type>> the tracer is asked about
  count,    \* transaction_count
  depth     \* depth_count

vars == <<query, step, asked, count, depth>>

\* _get_chain_info's table, for the names that pass the validation
chain_mapping ==
  [ETH |-> <<1, "evm">>, ETC |-> <<61, "evm">>, XDC |-> <<50, "evm">>, STABLE |-> <<1, "evm">>,
   KLAY |-> <<1, "klaytn">>, TRX |-> <<1, "tron">>, BTC |-> <<1, "btc">>, SOL |-> <<1, "solana">>,
   XRP |-> <<1, "xrp">>]
Ethereum == <<1, "evm">>

TypeOK ==
  /\ query \in Query /\ step \in {"new", "valid", "counted", "answered", "invalid", "error"}
  /\ asked \in {chain_mapping[c] : c \in ChainNames} \cup {None} /\ count \in Nat \cup {None}
  /\ step \in {"counted", "answered"} => count # None
  /\ depth \in Nat \cup {None}

-----------------------------------------------------------------------------
(* Validation                                                               *)

pattern_matches_token(address, pattern) == address # None /\ pattern \in address

\* Mutant: a chain without a row.
get_token_type_gap(chain) == IF chain \in {"TRX"} THEN "tron" ELSE IF chain = "SOL" THEN "solana" ELSE "evm"
\* _get_token_type, as the format of its pattern; ETC has no row of its own
get_token_type(chain) ==
  CASE chain = "TRX" -> "tron" [] chain = "BTC" -> "btc" [] chain = "SOL" -> "solana"
    [] chain = "XDC" -> "xdc" [] OTHER -> "evm"

OneSubject(q) == (q.wallet = None) # (q.hash = None)

\* The token of any EVM chain, XDC included, is matched against Ethereum's form.
TokenFits(q) ==
  q.chain \notin {"KLAY", "BTC"} /\ q.token # None =>
    pattern_matches_token(q.token, IF q.chain = "XDC" THEN "evm" ELSE get_token_type(q.chain))

HashFits(q) ==
  q.hash # None =>
    /\ q.chain \in {"ETH", "XDC", "STABLE", "KLAY", "TRX"} => q.hash \in {"hex", "0xhex"}
    /\ q.chain = "BTC" => /\ q.hash = "hex"
                          /\ pattern_matches_token(q.sender, "btc") /\ pattern_matches_token(q.receiver, "btc")

\* validate: the name in capitals
IsValid(q) ==
  /\ OneSubject(q) /\ q.chain # "XRP" /\ TokenFits(q) /\ HashFits(q)
  /\ q.wallet # None => pattern_matches_token(q.wallet, get_token_type(q.chain))

Validate ==
  /\ step = "new"
  /\ step' = IF IsValid(query) THEN "valid" ELSE "invalid"
  /\ UNCHANGED <<query, asked, count, depth>>

-----------------------------------------------------------------------------
(* The tracer                                                               *)

\* _get_chain_info: a name that is not in the table, one in lower case included, is
\* Ethereum, and so is STABLE by its row.
get_chain_info(chain, capitals) == IF capitals THEN chain_mapping[chain] ELSE Ethereum

IsSolana(q) == q.chain = "SOL" /\ q.capitals

\* result.get('transaction_count', 0)
CountOrZero(c) == IF c = None THEN 0 ELSE c

\* The tracer's answer, which may lack the count, or its failure; Solana is
\* taken for 6000 transactions without asking.
GetTransactionCount(c) ==
  /\ step = "valid"
  /\ \/ /\ ~IsSolana(query)
        /\ asked' = get_chain_info(query.chain, query.capitals)
        /\ \/ count' = CountOrZero(c) /\ step' = "counted"
           \/ step' = "error" /\ UNCHANGED count
     \/ IsSolana(query) /\ count' = 6000 /\ step' = "counted" /\ UNCHANGED asked
  /\ UNCHANGED <<query, depth>>

-----------------------------------------------------------------------------
(* The recommendation                                                       *)

generate_recommendations(c) == IF c <= 500 THEN 3 ELSE IF c < 5000 THEN 2 ELSE 1

Recommend ==
  /\ step = "counted"
  /\ depth' = generate_recommendations(count)
  /\ step' = "answered"
  /\ UNCHANGED <<query, asked, count>>

Init ==
  /\ query \in Query /\ (query.chain # "BTC" \/ query.hash = None => query.sender = None /\ query.receiver = None)
  /\ step = "new" /\ asked = None /\ count = None /\ depth = None

Next == Validate \/ (\E c \in Counts \cup {None} : GetTransactionCount(c)) \/ Recommend

Spec == Init /\ [][Next]_vars

-----------------------------------------------------------------------------
(* Properties                                                               *)

\* An address that was let through is one of the chain the tracer is asked
\* about, for a name in capitals: the tables agree on the format.  An address of
\* XDC in its own spelling is passed on as it is.
AddressFitsTheChainAsked ==
  asked # None /\ query.capitals /\ query.wallet # None =>
    \/ (IF query.chain = "KLAY" THEN "evm" ELSE asked[2]) \in query.wallet
    \/ query.chain = "XDC" /\ asked[2] = "evm"

\* Who asks about another chain gets a recommendation for it, and not for
\* Ethereum, but for STABLE and for names that are not in capitals.
EthereumIsAskedInstead ==
  asked # None =>
    (asked = Ethereum <=> query.chain \in {"ETH", "STABLE"} \/ ~query.capitals)

\* The inductive invariant: what the steps so far have established.
IInv ==
  /\ TypeOK
  /\ step \in {"valid", "counted", "answered", "error"} => IsValid(query)
  /\ asked # None => /\ step \in {"counted", "answered", "error"}
                     /\ ~IsSolana(query) /\ asked = get_chain_info(query.chain, query.capitals)
  /\ step = "answered" => depth = generate_recommendations(count)
=============================================================================
