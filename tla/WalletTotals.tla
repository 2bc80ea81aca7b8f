---------------------------- MODULE WalletTotals ----------------------------
(***************************************************************************)
(* utils.py: how much each labelled wallet of a report has moved, once for *)
(* one wallet (calculate_wallet_total_amount) and once, over indexes, for  *)
(* many (calculate_wallets_total_amounts, which match_report_labels_from_  *)
(* csv uses).  The items grow one by one, so that every list is checked.   *)
(***************************************************************************)
EXTENDS Integers, Sequences, FiniteSets, SequencesExt, FiniteSetsExt, Functions

CONSTANTS
  Wallets,
  Hashes,
  Amounts,
  Tokens,      \* symbols: "BTC" stands for BTC and LTC, "ETH" for all others
  MaxItems,    \* bound: items of the report
  SampleSize,  \* items that decide on the main token
  None         \* a field without a value

TotalsAssumption ==
  /\ IsFiniteSet(Wallets) /\ None \notin Wallets \cup Hashes /\ Amounts \subseteq Nat
  /\ Tokens \subseteq {"BTC", "ETH"} /\ MaxItems \in Nat /\ SampleSize \in Nat \ {0}

\* sent and received are the from_amount and to_amount of a BTC item; amount
\* is the one that the others have.
Item == [symbol : Tokens, is_swap : BOOLEAN, sender : Wallets \cup {None}, receiver : Wallets \cup {None},
         tx_hash : Hashes \cup {None}, sent : Amounts, received : Amounts]

VARIABLE item_list

-----------------------------------------------------------------------------
(* The main token                                                           *)

Sample(items) == SubSeq(items, 1, Min({SampleSize, Len(items)}))

TokenCount(items, s) == Cardinality({i \in DOMAIN Sample(items) : items[i].symbol = s})

\* The most frequent symbol of the sample, of several the one seen first.
find_main_token_symbol(items) ==
  LET best == {s \in Tokens : \A t \in Tokens : TokenCount(items, t) <= TokenCount(items, s)}
  IN  items[Min({i \in DOMAIN items : items[i].symbol \in best})].symbol

\* The positions of its items, swaps aside.
Main(items) == {i \in DOMAIN items : items[i].symbol = find_main_token_symbol(items) /\ ~items[i].is_swap}

-----------------------------------------------------------------------------
(* One wallet                                                               *)

\* The positions that count: without a hash none does, and of several items
\* with one hash the first.
FirstOfHash(items, at) ==
  {i \in at : /\ items[i].tx_hash # None
              /\ \A j \in at : j < i => items[j].tx_hash # items[i].tx_hash}

Sum(items, at, field) == SumFunctionOnSet([i \in at |-> items[i][field]], at)

\* An address that is None has no lower(): the function raises.
Raises(items, outbound) ==
  \E i \in Main(items) :
    \/ (find_main_token_symbol(items) = "BTC" \/ ~outbound) /\ (items[i].sender = None)
    \/ outbound /\ items[i].receiver = None

calculate_wallet_total_amount(items, w, outbound) ==
  LET sends    == {i \in Main(items) : items[i].sender = w}
      receives == {i \in Main(items) : items[i].receiver = w}
  IN
  IF find_main_token_symbol(items) = "BTC" /\ outbound
  THEN IF sends = {} THEN Sum(items, FirstOfHash(items, receives), "received")
       ELSE IF receives = {} THEN 0 ELSE Sum(items, FirstOfHash(items, sends), "sent")
  ELSE Sum(items, IF outbound THEN receives ELSE sends, "received")

-----------------------------------------------------------------------------
(* Many wallets                                                             *)

\* items_by_sender and items_by_receiver: where the items of each address are
items_by_sender(items)   == [w \in Wallets |-> {i \in Main(items) : items[i].sender = w}]
items_by_receiver(items) == [w \in Wallets |-> {i \in Main(items) : items[i].receiver = w}]

\* Adding up the amounts of these items, one after the other.
ByItem(items, at, field) ==
  LET total[n \in 0..Len(items)] ==
        IF n = 0 THEN 0 ELSE total[n - 1] + IF n \in at THEN items[n][field] ELSE 0
  IN total[Len(items)]

\* Adding up the amounts of the hashes not processed yet.
ByHash(items, at, field) ==
  LET acc[n \in 0..Len(items)] ==
        IF n = 0 THEN [processed |-> {}, total |-> 0]
        ELSE IF n \in at /\ items[n].tx_hash \notin acc[n - 1].processed \cup {None}
             THEN [processed |-> acc[n - 1].processed \cup {items[n].tx_hash},
                   total     |-> acc[n - 1].total + items[n][field]]
             ELSE acc[n - 1]
  IN acc[Len(items)].total

\* Mutant: the inner wallets of a BTC report are not told from the first one.
totals_without_receivers(items) ==
  LET sent == items_by_sender(items) got == items_by_receiver(items)
      utxo == find_main_token_symbol(items) = "BTC"
  IN [w \in Wallets |-> [outbound \in BOOLEAN |->
        IF utxo /\ outbound
        THEN IF sent[w] # {} THEN ByHash(items, sent[w], "sent") ELSE ByHash(items, got[w], "received")
        ELSE ByItem(items, IF outbound THEN got[w] ELSE sent[w], "received")]]

calculate_wallets_total_amounts(items) ==
  LET sent == items_by_sender(items) got == items_by_receiver(items)
      utxo == find_main_token_symbol(items) = "BTC"
  IN [w \in Wallets |-> [outbound \in BOOLEAN |->
        IF utxo /\ outbound
        THEN (IF sent[w] # {} /\ got[w] # {} THEN ByHash(items, sent[w], "sent") ELSE 0)
             + (IF sent[w] = {} THEN ByHash(items, got[w], "received") ELSE 0)
        ELSE ByItem(items, IF outbound THEN got[w] ELSE sent[w], "received")]]

-----------------------------------------------------------------------------
Init == item_list = <<>>

Next == Len(item_list) < MaxItems /\ \E t \in Item : item_list' = Append(item_list, t)

Spec == Init /\ [][Next]_item_list

-----------------------------------------------------------------------------
(* Properties                                                               *)

\* The function over indexes gives every wallet the total of the function for
\* one wallet, wherever that one gives an answer.
TotalsAgree ==
  item_list # <<>> =>
    \A w \in Wallets, outbound \in BOOLEAN :
      ~Raises(item_list, outbound) =>
        calculate_wallets_total_amounts(item_list)[w][outbound]
          = calculate_wallet_total_amount(item_list, w, outbound)

\* Of two lists with the same main token, one of them the other backwards, the
\* totals are the same if the items of a transaction agree on the amounts.
OrderDoesNotMatter ==
  LET back == Reverse(item_list)
      same == \A i, j \in DOMAIN item_list :
                item_list[i].tx_hash = item_list[j].tx_hash =>
                  item_list[i].sent = item_list[j].sent /\ item_list[i].received = item_list[j].received
  IN item_list # <<>> /\ find_main_token_symbol(back) = find_main_token_symbol(item_list) /\ same =>
       calculate_wallets_total_amounts(back) = calculate_wallets_total_amounts(item_list)
=============================================================================
