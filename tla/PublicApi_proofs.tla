-------------------------- MODULE PublicApi_proofs --------------------------
(***************************************************************************)
(* The public API for any instance: what a request looks up (see Lookups,  *)
(* and the inductive invariants of its parts), and the API key gate before *)
(* it, for any set of keys and calls, any price, rate and credits (see     *)
(* IInv in ApiKeyGate).                                                    *)
(***************************************************************************)
EXTENDS ApiKeyGate, Lookups, FiniteSetTheorems, SequenceTheorems, WellFoundedInduction, TLAPS

-----------------------------------------------------------------------------
\* A set of numbers that is not empty has a least one.
LEMMA Smallest ==
  ASSUME NEW S \in SUBSET Nat, S # {}
  PROVE  \E n \in S : \A m \in S : ~(m < n)
<1>1. PICK n \in S : \A m \in S : ~(<<m, n>> \in OpToRel(<, Nat))
  BY NatLessThanWellFounded, WFMin, Zenon
<1>2. \A m \in S : m < n => <<m, n>> \in OpToRel(<, Nat)
  BY DEF OpToRel
<1> QED
  BY <1>1, <1>2

-----------------------------------------------------------------------------
(* Recommendations                                                          *)

LEMMA RecommendInit == Recommend!Init => Recommend!IInv
BY DEF Recommend!Init, Recommend!IInv, Recommend!TypeOK, Recommend!Query, Recommend!Wallets

\* The validation looks at the query only.
LEMMA RecommendStep ==
  ASSUME LookupsAssumption, Recommend!IInv, [Recommend!Next]_(Recommend!vars)
  PROVE  Recommend!IInv'
<1> USE DEF Recommend!IInv, Recommend!TypeOK
<1>1. CASE Recommend!Validate
  BY <1>1 DEF Recommend!Validate, Recommend!IsSolana, Recommend!IsValid, Recommend!OneSubject,
     Recommend!TokenFits, Recommend!HashFits
<1>2. ASSUME NEW c \in Counts \cup {NoValue}, Recommend!GetTransactionCount(c) PROVE Recommend!IInv'
  <2>1. /\ UNCHANGED <<asking, depth>> /\ step = "valid" /\ Recommend!IsValid(asking)' /\ depth' = depth
        /\ asked = NoValue
    BY <1>2 DEF Recommend!GetTransactionCount, Recommend!IsValid, Recommend!OneSubject, Recommend!TokenFits,
       Recommend!HashFits
  <2>2. CASE Recommend!IsSolana(asking)
    BY <1>2, <2>1, <2>2, LookupsAssumption DEF Recommend!GetTransactionCount, LookupsAssumption,
       Recommend!CountAssumption
  <2>3. CASE ~Recommend!IsSolana(asking)
    <3>1. /\ asked' = Recommend!get_chain_info(asking.chain, asking.capitals)
          /\ \/ counted' = Recommend!CountOrZero(c) /\ step' = "counted"
             \/ step' = "error" /\ UNCHANGED counted
      BY <1>2, <2>3 DEF Recommend!GetTransactionCount
    <3>2. Recommend!CountOrZero(c) \in Nat /\ NoValue \notin Nat
      BY DEF LookupsAssumption, Recommend!CountAssumption, Recommend!CountOrZero
    <3>3. asked' \in {Recommend!chain_mapping[n] : n \in Recommend!ChainNames}
      <4>1. "ETH" \in Recommend!ChainNames /\ Recommend!chain_mapping["ETH"] = Recommend!Ethereum
        BY DEF Recommend!ChainNames, Recommend!chain_mapping, Recommend!Ethereum
      <4> QED
        BY <3>1, <2>1, <4>1 DEF Recommend!get_chain_info, Recommend!Query
    <3>4. asked' # NoValue => asked' = Recommend!get_chain_info(asking.chain, asking.capitals)'
      BY <3>1, <2>1
    <3>5. ~Recommend!IsSolana(asking)'
      BY <2>1, <2>3
    <3> QED
      BY <2>1, <3>1, <3>2, <3>3, <3>4, <3>5
  <2> QED
    BY <2>2, <2>3
<1>3. CASE Recommend!Recommend
  BY <1>3 DEF Recommend!Recommend, Recommend!generate_recommendations
<1>4. CASE UNCHANGED Recommend!vars
  BY <1>4 DEF Recommend!vars
<1> QED
  BY <1>1, <1>2, <1>3, <1>4 DEF Recommend!Next

\* The tables agree, chain by chain.
LEMMA TablesAgree ==
  ASSUME Recommend!IInv
  PROVE  Recommend!AddressFitsTheChainAsked
<1> SUFFICES ASSUME asked # NoValue, asking.capitals, asking.wallet # NoValue
             PROVE  \/ (IF asking.chain = "KLAY" THEN "evm" ELSE asked[2]) \in asking.wallet
                    \/ asking.chain = "XDC" /\ asked[2] = "evm"
  BY DEF Recommend!AddressFitsTheChainAsked
<1>1. Recommend!IsValid(asking) /\ ~Recommend!IsSolana(asking)
  BY DEF Recommend!IInv
<1>2. asked = Recommend!chain_mapping[asking.chain] /\ asking.chain \in Recommend!ChainNames
  BY DEF Recommend!IInv, Recommend!TypeOK, Recommend!Query, Recommend!get_chain_info
<1>3. Recommend!get_token_type(asking.chain) \in asking.wallet /\ asking.chain # "XRP" /\ asking.chain # "SOL"
  BY <1>1 DEF Recommend!IsValid, Recommend!pattern_matches_token, Recommend!IsSolana
<1> QED
  BY <1>2, <1>3 DEF Recommend!chain_mapping, Recommend!get_token_type, Recommend!ChainNames

\* No two rows of the table are Ethereum's but its own and STABLE's.
LEMMA WhoAsksEthereum ==
  ASSUME Recommend!IInv
  PROVE  Recommend!EthereumIsAskedInstead
<1> SUFFICES ASSUME asked # NoValue
             PROVE  asked = Recommend!Ethereum <=> asking.chain \in {"ETH", "STABLE"} \/ ~asking.capitals
  BY DEF Recommend!EthereumIsAskedInstead
<1>1. asked = Recommend!get_chain_info(asking.chain, asking.capitals) /\ asking.chain \in Recommend!ChainNames
  BY DEF Recommend!IInv, Recommend!TypeOK, Recommend!Query
<1>2. \A n \in Recommend!ChainNames :
        Recommend!chain_mapping[n] = Recommend!Ethereum <=> n \in {"ETH", "STABLE"}
  BY DEF Recommend!chain_mapping, Recommend!Ethereum, Recommend!ChainNames
<1> QED
  BY <1>1, <1>2 DEF Recommend!get_chain_info

-----------------------------------------------------------------------------
(* CK queries                                                               *)

\* The result depends on what was found and by whom, and on the request.
LEMMA ResultStays ==
  ASSUME UNCHANGED <<ckRequest, dex, vendor, api_used, found>>
  PROVE  Ck!Result' = Ck!Result
<1>1. \A d : Ck!Annotated(d)' = Ck!Annotated(d)
  BY DEF Ck!Annotated
<1>2. \A R, d : Ck!filter_exchange_transactions(R, d)' = Ck!filter_exchange_transactions(R, d)
  BY <1>1 DEF Ck!filter_exchange_transactions
<1>3. Ck!Source' = Ck!Source
  BY DEF Ck!Source
<1>4. \A d : Ck!Filtered(d)' = Ck!Filtered(d)
  BY <1>2, <1>3 DEF Ck!Filtered
<1>5. \A S, D : Ck!offset(S, D)' = Ck!offset(S, D)
  BY DEF Ck!offset
<1>6. Ck!Joined' = Ck!Joined
  BY <1>4, <1>5 DEF Ck!Joined
<1>7. \A R, H : Ck!filter_transaction_path(R, H)' = Ck!filter_transaction_path(R, H)
  BY DEF Ck!filter_transaction_path
<1> QED
  BY <1>6, <1>7 DEF Ck!Result

\* Turning depths around or moving them keeps rows rows, of the same direction.
LEMMA MovedRows ==
  ASSUME NEW R \in SUBSET Ck!Row
  PROVE  /\ Ck!Negated(R) \in SUBSET Ck!Row /\ Ck!Deeper(R) \in SUBSET Ck!Row
         /\ \A r \in Ck!Negated(R) : \E q \in R : Ck!SameTransfer(q, r) /\ r.depth = -q.depth
         /\ \A r \in Ck!Deeper(R) : \E q \in R : Ck!SameTransfer(q, r) /\ r.depth = q.depth + 1
         /\ \A q \in R : \E r \in Ck!Negated(R) : Ck!SameTransfer(q, r)
         /\ \A q \in R : \E r \in Ck!Deeper(R) : Ck!SameTransfer(q, r)
<1>1. ASSUME NEW r \in Ck!Row, NEW e \in Int
      PROVE  [r EXCEPT !.depth = e] \in Ck!Row /\ Ck!SameTransfer(r, [r EXCEPT !.depth = e])
             /\ [r EXCEPT !.depth = e].depth = e
  BY DEF Ck!Row, Ck!SameTransfer
<1>2. \A r \in R : r \in Ck!Row /\ -r.depth \in Int /\ r.depth + 1 \in Int
  BY DEF Ck!Row
<1> DEFINE Neg(r) == [r EXCEPT !.depth = -r.depth]
           Add(r) == [r EXCEPT !.depth = r.depth + 1]
<1>3. Ck!Negated(R) = {Neg(r) : r \in R} /\ Ck!Deeper(R) = {Add(r) : r \in R}
  BY DEF Ck!Negated, Ck!Deeper
<1>4. \A r \in R : /\ Neg(r) \in Ck!Row /\ Ck!SameTransfer(r, Neg(r)) /\ Neg(r).depth = -r.depth
                   /\ Add(r) \in Ck!Row /\ Ck!SameTransfer(r, Add(r)) /\ Add(r).depth = r.depth + 1
  BY <1>1, <1>2
<1> HIDE DEF Neg, Add
<1>5. /\ Ck!Negated(R) \in SUBSET Ck!Row
      /\ \A r \in Ck!Negated(R) : \E q \in R : Ck!SameTransfer(q, r) /\ r.depth = -q.depth
      /\ \A q \in R : \E r \in Ck!Negated(R) : Ck!SameTransfer(q, r)
  BY <1>3, <1>4
<1>6. /\ Ck!Deeper(R) \in SUBSET Ck!Row
      /\ \A r \in Ck!Deeper(R) : \E q \in R : Ck!SameTransfer(q, r) /\ r.depth = q.depth + 1
      /\ \A q \in R : \E r \in Ck!Deeper(R) : Ck!SameTransfer(q, r)
  BY <1>3, <1>4
<1> QED
  BY <1>5, <1>6

\* What a vendor traces is typed, of the direction asked for and at least one hop away.
LEMMA Traced ==
  ASSUME ckChain \subseteq Ck!Transfer, NEW root, NEW d \in Ck!Directions, NEW hops \in Int
  PROVE  /\ Ck!TraceFrom(root, d, hops) \in SUBSET Ck!Row
         /\ \A r \in Ck!TraceFrom(root, d, hops) : r.side = d /\ r.depth >= 1
<1> SUFFICES ASSUME NEW r \in Ck!TraceFrom(root, d, hops)
             PROVE  r \in Ck!Row /\ r.side = d /\ r.depth >= 1
  OBVIOUS
<1>1. \E k \in 1..hops : \E t \in ckChain :
         r = [hash |-> t.hash, sender |-> t.sender, receiver |-> t.receiver, depth |-> k, side |-> d]
  BY DEF Ck!TraceFrom
<1> QED
  BY <1>1 DEF Ck!Transfer, Ck!Row

LEMMA Depths == LookupsAssumption => MaxDepth \in Int /\ \A d : Ck!DepthOf(d) \in Int
BY DEF Ck!DepthOf, LookupsAssumption, Ck!CkAssumption

LEMMA VendorTraced ==
  ASSUME LookupsAssumption, ckChain \subseteq Ck!Transfer, NEW d \in Ck!Directions
  PROVE  /\ Ck!Trace(d) \in SUBSET Ck!Row
         /\ \A r \in Ck!Trace(d) : r.side = d /\ r.depth >= 1
         /\ Ck!Signed(Ck!Trace(d), d) \in SUBSET Ck!Row
         /\ \A r \in Ck!Signed(Ck!Trace(d), d) : r.side = d
         /\ d = "outbound" => \A r \in Ck!Signed(Ck!Trace(d), d) : r.depth >= 1
         /\ d = "inbound" => \A r \in Ck!Signed(Ck!Trace(d), d) : r.depth < 0
<1> DEFINE T == Ck!Trace(d)
<1>1. T \in SUBSET Ck!Row /\ \A r \in T : r.side = d /\ r.depth >= 1
  BY Depths, Traced DEF Ck!Trace
<1> HIDE DEF T
<1>2. /\ Ck!Negated(T) \in SUBSET Ck!Row
      /\ \A r \in Ck!Negated(T) : \E q \in T : Ck!SameTransfer(q, r) /\ r.depth = -q.depth
  BY <1>1, MovedRows
<1>3. \A q \in T : q.depth \in Int
  BY <1>1 DEF Ck!Row
<1>4. \A r \in Ck!Negated(T) : r.side = d /\ r.depth < 0
  BY <1>1, <1>2, <1>3 DEF Ck!SameTransfer
<1>5. Ck!Signed(T, d) = IF d = "inbound" THEN Ck!Negated(T) ELSE T
  BY DEF Ck!Signed
<1> QED
  BY <1>1, <1>2, <1>4, <1>5 DEF T

\* What follows a swap is typed, of its direction, and not before it.
LEMMA SwapRows ==
  ASSUME LookupsAssumption, ckChain \subseteq Ck!Transfer, NEW d \in Ck!Directions,
         NEW s \in Ck!Row, s.side = d, NEW by
  PROVE  /\ Ck!AfterSwap(s, d, by) \in SUBSET Ck!Row
         /\ \A r \in Ck!AfterSwap(s, d, by) : r.side = d /\ (s.depth >= 1 => r.depth >= 1)
<1> SUFFICES ASSUME NEW r \in Ck!AfterSwap(s, d, by)
             PROVE  r \in Ck!Row /\ r.side = d /\ (s.depth >= 1 => r.depth >= 1)
  OBVIOUS
<1>1. /\ s.sender \in People /\ s.receiver \in People /\ s.depth \in Int /\ s.hash \in Hashes
      /\ s = [hash |-> s.hash, sender |-> s.sender, receiver |-> s.receiver, depth |-> s.depth, side |-> s.side]
  BY DEF Ck!Row
<1>2. CASE r = Ck!Reversed(s)
  BY <1>1, <1>2 DEF Ck!Reversed, Ck!Row
<1>3. ASSUME by = "tracer", NEW q \in Ck!TraceFrom(s.sender, "outbound", MaxDepth),
             r = [q EXCEPT !.depth = @ + s.depth, !.side = d]
      PROVE  r \in Ck!Row /\ r.side = d /\ (s.depth >= 1 => r.depth >= 1)
  <2>1. q \in Ck!Row /\ q.depth >= 1
    BY Depths, Traced DEF Ck!Directions
  <2>2. q.depth + s.depth \in Int /\ q.depth \in Int
    BY <1>1, <2>1 DEF Ck!Row
  <2>3. r = [hash |-> q.hash, sender |-> q.sender, receiver |-> q.receiver, depth |-> q.depth + s.depth, side |-> d]
    BY <1>3, <2>1 DEF Ck!Row
  <2> QED
    BY <1>1, <2>1, <2>2, <2>3 DEF Ck!Row
<1>4. ASSUME by # "tracer", NEW q \in Ck!TraceFrom(s.sender, d, Ck!DepthOf(d)),
             r = [q EXCEPT !.depth = @ + s.depth - 1]
      PROVE  r \in Ck!Row /\ r.side = d /\ (s.depth >= 1 => r.depth >= 1)
  <2>1. q \in Ck!Row /\ q.depth >= 1 /\ q.side = d
    BY Depths, Traced
  <2>2. q.depth + s.depth - 1 \in Int /\ q.depth \in Int
    BY <1>1, <2>1 DEF Ck!Row
  <2>3. r = [hash |-> q.hash, sender |-> q.sender, receiver |-> q.receiver,
             depth |-> q.depth + s.depth - 1, side |-> d]
    BY <1>4, <2>1 DEF Ck!Row
  <2> QED
    BY <1>1, <2>1, <2>2, <2>3 DEF Ck!Row
<1> QED
  BY <1>2, <1>3, <1>4 DEF Ck!AfterSwap

\* What passes the filter of exchanges was there before.
LEMMA FilteredRows ==
  ASSUME Ck!FoundOK, dex \in BOOLEAN
  PROVE  /\ Ck!Filtered("inbound") \in SUBSET Ck!Row /\ \A r \in Ck!Filtered("inbound") : r.depth < 0
         /\ Ck!Filtered("inbound") \subseteq Ck!Source
         /\ Ck!Filtered("outbound") \in SUBSET Ck!Row /\ Ck!Filtered("outbound") \subseteq found["outbound"]
         /\ ~dex => Ck!Filtered("inbound") = {}
<1>1. found["inbound"] \in SUBSET Ck!Row /\ found["outbound"] \in SUBSET Ck!Row
  BY DEF Ck!FoundOK, Ck!Directions
<1>2. Ck!Source \in SUBSET Ck!Row /\ (~dex => Ck!Source = {})
  <2>1. ~dex => Ck!Negated(found["inbound"]) = {}
    BY DEF Ck!FoundOK, Ck!Negated
  <2> QED
    BY <1>1, <2>1, MovedRows DEF Ck!Source
<1>3. Ck!Filtered("inbound") \subseteq {r \in Ck!Source : r.depth < 0}
  BY DEF Ck!Filtered, Ck!Towards, Ck!filter_exchange_transactions
<1>4. Ck!Filtered("outbound") \subseteq {r \in found["outbound"] : r.depth >= 1}
  BY DEF Ck!Filtered, Ck!Towards, Ck!filter_exchange_transactions
<1> QED
  BY <1>1, <1>2, <1>3, <1>4

\* The offset makes every depth at least one, and the filter by hashes only takes away.
LEMMA JoinedRows ==
  ASSUME Ck!FoundOK, dex \in BOOLEAN
  PROVE  /\ Ck!Joined \in SUBSET Ck!Row /\ \A r \in Ck!Joined : r.depth >= 1
         /\ Ck!Result \subseteq Ck!Joined /\ (ckRequest.hashes = {} => Ck!Result = Ck!Joined)
<1> DEFINE I == Ck!Filtered("inbound")
           O == Ck!Filtered("outbound")
<1>1. /\ I \in SUBSET Ck!Row /\ (\A r \in I : r.depth < 0) /\ (~dex => I = {})
      /\ O \in SUBSET Ck!Row /\ (\A r \in O : r.depth >= 1)
  BY FilteredRows DEF Ck!FoundOK
<1>2. Ck!Joined = IF dex THEN Ck!Negated(I) \cup Ck!Deeper(O) ELSE I \cup O
  BY DEF Ck!Joined, Ck!offset
<1> HIDE DEF I, O
<1>3. /\ Ck!Negated(I) \in SUBSET Ck!Row /\ Ck!Deeper(O) \in SUBSET Ck!Row
      /\ \A r \in Ck!Negated(I) : \E q \in I : r.depth = -q.depth
      /\ \A r \in Ck!Deeper(O) : \E q \in O : r.depth = q.depth + 1
  BY <1>1, MovedRows
<1>4. \A r \in I \cup O : r.depth \in Int
  BY <1>1 DEF Ck!Row
<1>5. Ck!Joined \in SUBSET Ck!Row
  BY <1>1, <1>2, <1>3
<1>6. ASSUME NEW r \in Ck!Joined PROVE r.depth >= 1
  <2>1. CASE ~dex
    BY <1>1, <1>2, <2>1
  <2>2. CASE dex /\ r \in Ck!Negated(I)
    BY <1>1, <1>3, <1>4, <2>2
  <2>3. CASE dex /\ r \in Ck!Deeper(O)
    BY <1>1, <1>3, <1>4, <2>3
  <2> QED
    BY <1>2, <2>1, <2>2, <2>3
<1>7. Ck!Result \subseteq Ck!Joined /\ (ckRequest.hashes = {} => Ck!Result = Ck!Joined)
  BY DEF Ck!Result, Ck!Joined, Ck!filter_transaction_path
<1> QED
  BY <1>5, <1>6, <1>7

LEMMA CkInit == Ck!Init => Ck!IInv
BY DEF Ck!Init, Ck!IInv, Ck!FoundOK, Ck!ThreadsOK, Ck!ShownOK, Ck!Directions

\* While nothing is shown, only what is found and by whom has to be right.
LEMMA HappenStep ==
  ASSUME Ck!IInv, Ck!Happen
  PROVE  Ck!IInv'
<1>1. ckChain' \subseteq Ck!Transfer
  BY DEF Ck!Happen, Ck!IInv
<1>2. UNCHANGED <<ckRequest, dex, ckPhase, thread, vendor, api_used, found, shown, ckAnswer>>
  BY DEF Ck!Happen
<1>3. Ck!FoundOK' /\ Ck!ThreadsOK'
  BY <1>2 DEF Ck!IInv, Ck!FoundOK, Ck!ThreadsOK, Ck!Row
<1>4. Ck!ShownOK'
  BY <1>2, ResultStays DEF Ck!IInv, Ck!ShownOK, Ck!Row
<1> QED
  BY <1>1, <1>2, <1>3, <1>4 DEF Ck!IInv

\* The two threads start with nothing found.
LEMMA StartStep ==
  ASSUME Ck!IInv, Ck!Start
  PROVE  Ck!IInv'
<1>1. dex' \in BOOLEAN
  <2>1. PICK reached \in BOOLEAN : dex' = (ckRequest.query_source \/ Ck!check_if_victim_dex(reached))
    BY DEF Ck!Start
  <2> QED
    BY <2>1, Zenon
<1>2. /\ UNCHANGED <<ckChain, ckRequest, vendor, api_used, found, shown, ckAnswer>>
      /\ ckPhase = "chain" /\ ckPhase' = "fetch"
      /\ thread' = [d \in Ck!Directions |-> IF d = "outbound" \/ dex' THEN "tracer" ELSE "done"]
  BY DEF Ck!Start
<1>3. ~dex /\ shown = {} /\ ckAnswer = "none"
  BY <1>2 DEF Ck!IInv, Ck!ThreadsOK, Ck!ShownOK
<1>4. Ck!FoundOK'
  BY <1>2, <1>3 DEF Ck!IInv, Ck!FoundOK, Ck!Row
<1>5. Ck!ThreadsOK'
  BY <1>1, <1>2 DEF Ck!IInv, Ck!ThreadsOK, Ck!Directions
<1>6. Ck!ShownOK'
  BY <1>2, <1>3 DEF Ck!ShownOK
<1> QED
  BY <1>1, <1>2, <1>4, <1>5, <1>6 DEF Ck!IInv

\* A step of one of the two threads: it is not done yet, so nothing is shown.
LEMMA ThreadStep ==
  ASSUME Ck!IInv, NEW d \in Ck!Directions, thread[d] \in {"tracer", "bitquery", "swaps"},
         UNCHANGED <<ckChain, ckRequest, dex, ckPhase, shown, ckAnswer>>,
         NEW R \in SUBSET Ck!Row, \A r \in R : r.side = d, d = "outbound" => \A r \in R : r.depth >= 1,
         found' = found \/ found' = [found EXCEPT ![d] = R],
         NEW w \in {"tracer", "bitquery", "errors", "raised"},
         vendor' = vendor \/ vendor' = [vendor EXCEPT ![d] = w],
         vendor'["inbound"] = "bitquery" => \A r \in found'["inbound"] : r.depth >= 1,
         api_used' \in {"tracer", "bitquery"},
         NEW t \in {"bitquery", "swaps", "done"}, thread' = [thread EXCEPT ![d] = t]
  PROVE  Ck!IInv'
<1>1. shown = {}
  BY DEF Ck!IInv, Ck!ShownOK
<1>2. d = "outbound" \/ (d = "inbound" /\ dex)
  BY DEF Ck!IInv, Ck!ThreadsOK, Ck!Directions
<1>3. ckPhase # "chain"
  BY DEF Ck!IInv, Ck!ThreadsOK
<1>4. Ck!FoundOK'
  BY <1>2 DEF Ck!IInv, Ck!FoundOK, Ck!Directions, Ck!Row
<1>5. Ck!ThreadsOK'
  BY <1>2, <1>3 DEF Ck!IInv, Ck!ThreadsOK, Ck!Directions
<1>6. Ck!ShownOK'
  BY <1>1 DEF Ck!IInv, Ck!ShownOK
<1> QED
  BY <1>4, <1>5, <1>6 DEF Ck!IInv

\* One direction's thread, at either vendor.
LEMMA TracerStep ==
  ASSUME LookupsAssumption, Ck!IInv, NEW d \in Ck!Directions, Ck!Tracer(d)
  PROVE  Ck!IInv'
<1> DEFINE R == Ck!Signed(Ck!Trace(d), d)
<1>1. R \in SUBSET Ck!Row /\ (\A r \in R : r.side = d) /\ (d = "outbound" => \A r \in R : r.depth >= 1)
  BY VendorTraced DEF Ck!IInv
<1>2. /\ thread[d] = "tracer"
      /\ UNCHANGED <<ckChain, ckRequest, dex, ckPhase, shown, ckAnswer>>
      /\ \/ found' = [found EXCEPT ![d] = R] /\ vendor' = [vendor EXCEPT ![d] = "tracer"]
         \/ UNCHANGED <<found, vendor>>
      /\ \E t \in {"bitquery", "swaps", "done"} : thread' = [thread EXCEPT ![d] = t]
  BY DEF Ck!Tracer
<1>3. api_used' \in {"tracer", "bitquery"}
  BY DEF Ck!Tracer, Ck!IInv, Ck!ThreadsOK
<1> HIDE DEF R
<1>4. vendor'["inbound"] = "bitquery" => \A r \in found'["inbound"] : r.depth >= 1
  BY <1>2 DEF Ck!IInv, Ck!FoundOK, Ck!ThreadsOK, Ck!Directions
<1>5. /\ found' = found \/ found' = [found EXCEPT ![d] = R]
      /\ vendor' = vendor \/ vendor' = [vendor EXCEPT ![d] = "tracer"]
  BY <1>2
<1> QED
  BY <1>1, <1>2, <1>3, <1>4, <1>5, ThreadStep

LEMMA BitqueryStep ==
  ASSUME LookupsAssumption, Ck!IInv, NEW d \in Ck!Directions, Ck!Bitquery(d)
  PROVE  Ck!IInv'
<1>1. PICK R \in {Ck!Trace(d), {}}, w \in {"bitquery", "errors", "raised"} :
        /\ vendor' = [vendor EXCEPT ![d] = w]
        /\ found' = [found EXCEPT ![d] = R] \/ (found' = found /\ w # "bitquery")
  BY DEF Ck!Bitquery
<1>2. R \in SUBSET Ck!Row /\ \A r \in R : r.side = d /\ r.depth >= 1
  BY VendorTraced DEF Ck!IInv
<1>3. /\ thread[d] = "bitquery" /\ \E t \in {"bitquery", "swaps", "done"} : thread' = [thread EXCEPT ![d] = t]
      /\ UNCHANGED <<ckChain, ckRequest, dex, ckPhase, shown, ckAnswer, api_used>>
  BY DEF Ck!Bitquery
<1>4. api_used' \in {"tracer", "bitquery"}
  BY <1>3 DEF Ck!IInv, Ck!ThreadsOK
<1>5. vendor'["inbound"] = "bitquery" => \A r \in found'["inbound"] : r.depth >= 1
  BY <1>1, <1>2 DEF Ck!IInv, Ck!FoundOK, Ck!ThreadsOK, Ck!Directions
<1> QED
  BY <1>1, <1>2, <1>3, <1>4, <1>5, ThreadStep

LEMMA FollowStep ==
  ASSUME LookupsAssumption, Ck!IInv, NEW d \in Ck!Directions, Ck!FollowSwap(d)
  PROVE  Ck!IInv'
<1>1. PICK s \in IF vendor[d] = "tracer" THEN Ck!Signed(Ck!Trace(d), d) ELSE found[d] :
        found' = [found EXCEPT ![d] = @ \cup Ck!AfterSwap(s, d, vendor[d])]
  BY DEF Ck!FollowSwap
<1>2. /\ thread[d] = "swaps"
      /\ UNCHANGED <<ckChain, ckRequest, dex, ckPhase, thread, vendor, api_used, shown, ckAnswer>>
  BY DEF Ck!FollowSwap
<1>3. /\ found \in [Ck!Directions -> SUBSET Ck!Row] /\ \A r \in found[d] : r.side = d
      /\ d = "outbound" => \A r \in found[d] : r.depth >= 1
      /\ d = "inbound" /\ vendor[d] = "bitquery" => \A r \in found[d] : r.depth >= 1
  BY DEF Ck!IInv, Ck!FoundOK
<1>4. /\ s \in Ck!Row /\ s.side = d /\ (d = "outbound" => s.depth >= 1)
      /\ d = "inbound" /\ vendor[d] = "bitquery" => s.depth >= 1
  BY <1>1, <1>3, VendorTraced DEF Ck!IInv
<1> DEFINE R == found[d] \cup Ck!AfterSwap(s, d, vendor[d])
<1>5. /\ R \in SUBSET Ck!Row /\ \A r \in R : r.side = d
      /\ d = "outbound" => \A r \in R : r.depth >= 1
      /\ d = "inbound" /\ vendor[d] = "bitquery" => \A r \in R : r.depth >= 1
  BY <1>3, <1>4, SwapRows DEF Ck!IInv
<1>6. found' = [found EXCEPT ![d] = R]
  BY <1>1
<1> HIDE DEF R
<1>7. vendor'["inbound"] = "bitquery" => \A r \in found'["inbound"] : r.depth >= 1
  BY <1>2, <1>3, <1>5, <1>6 DEF Ck!IInv, Ck!FoundOK, Ck!Directions
<1>8. api_used' \in {"tracer", "bitquery"} /\ thread' = [thread EXCEPT ![d] = "swaps"]
  BY <1>2 DEF Ck!IInv, Ck!ThreadsOK
<1> QED
  BY <1>2, <1>5, <1>6, <1>7, <1>8, ThreadStep

LEMMA SwapsEndStep ==
  ASSUME Ck!IInv, NEW d \in Ck!Directions, Ck!SwapsEnd(d)
  PROVE  Ck!IInv'
<1>1. /\ thread[d] = "swaps" /\ thread' = [thread EXCEPT ![d] = "done"]
      /\ UNCHANGED <<ckChain, ckRequest, dex, ckPhase, vendor, api_used, found, shown, ckAnswer>>
  BY DEF Ck!SwapsEnd
<1>2. vendor'["inbound"] = "bitquery" => \A r \in found'["inbound"] : r.depth >= 1
  BY <1>1 DEF Ck!IInv, Ck!FoundOK
<1>3. api_used' \in {"tracer", "bitquery"} /\ {} \in SUBSET Ck!Row
  BY <1>1 DEF Ck!IInv, Ck!ThreadsOK
<1>4. \A r \in {} : r.side = d /\ r.depth >= 1
  OBVIOUS
<1> QED
  BY <1>1, <1>2, <1>3, <1>4, ThreadStep

\* The rows shown are the result, because both threads are done.
LEMMA FinishCk ==
  ASSUME Ck!IInv, Ck!Finish
  PROVE  Ck!IInv'
<1>1. /\ UNCHANGED <<ckChain, ckRequest, dex, thread, vendor, api_used, found>>
      /\ ckPhase = "fetch" /\ ckPhase' = "end" /\ thread["outbound"] = "done"
  BY DEF Ck!Finish
<1>2. shown = {} /\ ckAnswer = "none"
  BY <1>1 DEF Ck!IInv, Ck!ShownOK
<1>3. Ck!FoundOK' /\ Ck!ThreadsOK'
  BY <1>1 DEF Ck!IInv, Ck!FoundOK, Ck!ThreadsOK, Ck!Row
<1>4. Ck!Result \in SUBSET Ck!Row
  BY JoinedRows DEF Ck!IInv
<1>5. ASSUME shown' = {} PROVE Ck!ShownOK'
  BY <1>1, <1>2, <1>5 DEF Ck!Finish, Ck!ShownOK
<1>6. ASSUME shown' # {} PROVE Ck!ShownOK'
  <2>1. shown' = Ck!Result /\ ckAnswer' = "data" /\ thread["inbound"] = "done"
    BY <1>2, <1>6 DEF Ck!Finish
  <2>2. Ck!Result' = Ck!Result
    BY <1>1, ResultStays
  <2> QED
    BY <1>1, <1>4, <2>1, <2>2, <1>6 DEF Ck!ShownOK, Ck!Directions, Ck!Row
<1> QED
  BY <1>1, <1>3, <1>5, <1>6 DEF Ck!IInv

LEMMA CkStep ==
  ASSUME LookupsAssumption, Ck!IInv, [Ck!Next]_(Ck!vars)
  PROVE  Ck!IInv'
<1>1. CASE UNCHANGED Ck!vars
  <2>1. UNCHANGED <<ckChain, ckRequest, dex, ckPhase, thread, vendor, api_used, found, shown, ckAnswer>>
    BY <1>1 DEF Ck!vars
  <2>2. Ck!FoundOK' /\ Ck!ThreadsOK'
    BY <2>1 DEF Ck!IInv, Ck!FoundOK, Ck!ThreadsOK, Ck!Row
  <2>3. Ck!ShownOK'
    BY <2>1, ResultStays DEF Ck!IInv, Ck!ShownOK, Ck!Row
  <2> QED
    BY <2>1, <2>2, <2>3 DEF Ck!IInv
<1> QED
  BY <1>1, HappenStep, StartStep, TracerStep, BitqueryStep, FollowStep, SwapsEndStep, FinishCk DEF Ck!Next

LEMMA CkTyped ==
  ASSUME Ck!IInv
  PROVE  Ck!TypeOK
<1>1. /\ ckChain \subseteq Ck!Transfer /\ dex \in BOOLEAN
      /\ api_used \in {"tracer", "bitquery"} /\ ckAnswer \in {"none", "vendor_error", "no_data", "data"}
  BY DEF Ck!IInv, Ck!ThreadsOK, Ck!ShownOK
<1>2. /\ found["inbound"] \in SUBSET Ck!Row /\ found["outbound"] \in SUBSET Ck!Row
      /\ shown \in SUBSET Ck!Row /\ \A r \in found["outbound"] : r.depth >= 1
  BY DEF Ck!IInv, Ck!FoundOK, Ck!ShownOK, Ck!Directions
<1> QED
  BY <1>1, <1>2 DEF Ck!TypeOK

-----------------------------------------------------------------------------
(* The search of CkQuery                                                    *)

LEMMA SamePeople ==
  ASSUME LookupsAssumption
  PROVE  IsFiniteSet(People) /\ Ck!Cardinality(People) = Cardinality(People)
<1>1. Ck!IsFiniteSet(People)
  BY DEF LookupsAssumption, Ck!CkAssumption
<1>2. Ck!IsFiniteSet(People) <=> IsFiniteSet(People)
  BY Zenon DEF Ck!IsFiniteSet, IsFiniteSet
<1>3. Ck!Cardinality(People) = Cardinality(People)
  BY Zenon DEF Ck!Cardinality, Cardinality
<1> QED
  BY <1>1, <1>2, <1>3

\* One round of dfs, and its rounds up to the k-th.
Grown(V, B, R, d) == V \cup ({Ck!Outer(r, d) : r \in {q \in R : Ck!Inner(q, d) \in V}} \ B)
IsRounds(f, k, S, B, R, d) ==
  f = [n \in 0..k |-> IF n = 0 THEN S \ B ELSE Grown(f[n - 1], B, R, d)]

\* The recursive function has a value, whatever the number of rounds.
LEMMA SomeRounds ==
  ASSUME NEW S, NEW B, NEW R, NEW d
  PROVE  \A k \in Nat : \E f : IsRounds(f, k, S, B, R, d)
<1> DEFINE none == {k \in Nat : ~ \E f : IsRounds(f, k, S, B, R, d)}
<1> SUFFICES ASSUME none # {} PROVE FALSE
  OBVIOUS
<1>1. PICK k \in none : \A m \in none : ~(m < k)
  <2>1. none \in SUBSET Nat
    OBVIOUS
  <2> HIDE DEF none
  <2> QED
    BY <2>1, Smallest
<1>2. k \in Nat /\ \A f : ~IsRounds(f, k, S, B, R, d)
  OBVIOUS
<1>3. CASE k = 0
  <2> DEFINE f == [n \in 0..0 |-> S \ B]
  <2>1. f = [n \in 0..0 |-> IF n = 0 THEN S \ B ELSE Grown(f[n - 1], B, R, d)]
    OBVIOUS
  <2> QED
    BY <1>2, <1>3, <2>1 DEF IsRounds
<1>4. CASE k # 0
  <2>1. k - 1 \in Nat /\ k - 1 < k
    BY <1>2, <1>4
  <2>2. k - 1 \notin none
    <3> HIDE DEF none
    <3> QED
      BY <1>1, <2>1
  <2>3. PICK g : IsRounds(g, k - 1, S, B, R, d)
    BY <2>1, <2>2
  <2> DEFINE f == [n \in 0..k |-> IF n = k THEN Grown(g[k - 1], B, R, d) ELSE g[n]]
  <2>4. \A n \in 0..(k - 1) : g[n] = IF n = 0 THEN S \ B ELSE Grown(g[n - 1], B, R, d)
    <3>1. g = [n \in 0..(k - 1) |-> IF n = 0 THEN S \ B ELSE Grown(g[n - 1], B, R, d)]
      BY <2>3 DEF IsRounds
    <3> DEFINE h == [n \in 0..(k - 1) |-> IF n = 0 THEN S \ B ELSE Grown(g[n - 1], B, R, d)]
    <3>2. \A n \in 0..(k - 1) : h[n] = IF n = 0 THEN S \ B ELSE Grown(g[n - 1], B, R, d)
      OBVIOUS
    <3>3. g = h
      BY <3>1
    <3> HIDE DEF h
    <3> QED
      BY <3>2, <3>3
  <2>5. ASSUME NEW n \in 0..k
        PROVE  f[n] = IF n = 0 THEN S \ B ELSE Grown(f[n - 1], B, R, d)
    <3>1. CASE n = k
      <4>1. f[k] = Grown(g[k - 1], B, R, d) /\ f[k - 1] = g[k - 1]
        BY <2>1
      <4> QED
        BY <1>4, <3>1, <4>1
    <3>2. CASE n # k
      <4>1. n \in 0..(k - 1) /\ f[n] = g[n] /\ (n # 0 => f[n - 1] = g[n - 1])
        BY <1>2, <3>2
      <4> QED
        BY <2>4, <4>1
    <3> QED
      BY <3>1, <3>2
  <2>6. f = [n \in 0..k |-> f[n]]
    OBVIOUS
  <2>7. f = [n \in 0..k |-> IF n = 0 THEN S \ B ELSE Grown(f[n - 1], B, R, d)]
    <3> HIDE DEF f
    <3> QED
      BY <2>5, <2>6
  <2> QED
    BY <1>2, <2>7 DEF IsRounds
<1> QED
  BY <1>3, <1>4

\* What dfs visits is the last of its rounds.
LEMMA DfsRounds ==
  ASSUME LookupsAssumption, NEW S, NEW B, NEW R, NEW d
  PROVE  \E f : IsRounds(f, Cardinality(People), S, B, R, d) /\ Ck!dfs(S, B, R, d) = f[Cardinality(People)]
<1> DEFINE N == Cardinality(People)
           reached == CHOOSE f : f = [n \in 0..N |-> IF n = 0 THEN S \ B ELSE Grown(f[n - 1], B, R, d)]
<1>1. Ck!dfs(S, B, R, d) = reached[N]
  BY SamePeople DEF Ck!dfs, Grown
<1>2. N \in Nat
  BY SamePeople, FS_CardinalityType
<1>3. \E f : f = [n \in 0..N |-> IF n = 0 THEN S \ B ELSE Grown(f[n - 1], B, R, d)]
  <2>1. \E f : IsRounds(f, N, S, B, R, d)
    BY <1>2, SomeRounds
  <2> QED
    BY <2>1, Zenon DEF IsRounds
<1>4. reached = [n \in 0..N |-> IF n = 0 THEN S \ B ELSE Grown(reached[n - 1], B, R, d)]
  BY <1>3, Zenon
<1> HIDE DEF reached
<1> QED
  BY <1>1, <1>4 DEF IsRounds

\* The rounds one by one: what is reached stays reached.
LEMMA RoundByRound ==
  ASSUME NEW N \in Nat, NEW S \in SUBSET People, NEW B, NEW d, NEW R \in SUBSET Ck!Row,
         NEW f, IsRounds(f, N, S, B, R, d)
  PROVE  /\ f[0] = S \ B
         /\ \A n \in 0..(N - 1) : f[n + 1] = Grown(f[n], B, R, d) /\ f[n] \subseteq f[n + 1]
         /\ \A n \in 0..N : f[n] \in SUBSET People
<1>1. \A n \in 0..N : f[n] = IF n = 0 THEN S \ B ELSE Grown(f[n - 1], B, R, d)
  <2> DEFINE h == [n \in 0..N |-> IF n = 0 THEN S \ B ELSE Grown(f[n - 1], B, R, d)]
  <2>1. \A n \in 0..N : h[n] = IF n = 0 THEN S \ B ELSE Grown(f[n - 1], B, R, d)
    OBVIOUS
  <2>2. f = h
    BY DEF IsRounds
  <2> HIDE DEF h
  <2> QED
    BY <2>1, <2>2
<1>2. \A n \in 0..(N - 1) : f[n + 1] = Grown(f[n], B, R, d)
  <2> TAKE n \in 0..(N - 1)
  <2>1. n + 1 \in 0..N /\ n + 1 # 0 /\ (n + 1) - 1 = n
    OBVIOUS
  <2> QED
    BY <1>1, <2>1
<1>3. \A r \in R : Ck!Outer(r, d) \in People
  BY DEF Ck!Outer, Ck!Row
<1>4. \A V : V \subseteq Grown(V, B, R, d) /\ (V \subseteq People => Grown(V, B, R, d) \subseteq People)
  BY <1>3 DEF Grown
<1> DEFINE wrong == {n \in 0..N : ~(f[n] \subseteq People)}
<1>5. wrong = {}
  <2> SUFFICES ASSUME wrong # {} PROVE FALSE
    OBVIOUS
  <2>1. PICK n \in wrong : \A m \in wrong : ~(m < n)
    <3>1. wrong \in SUBSET Nat
      OBVIOUS
    <3> HIDE DEF wrong
    <3> QED
      BY <3>1, Smallest
  <2>2. n \in 0..N /\ ~(f[n] \subseteq People)
    OBVIOUS
  <2>3. n # 0
    BY <1>1, <2>2
  <2>4. n - 1 \in 0..(N - 1) /\ n - 1 \in 0..N /\ n - 1 < n /\ (n - 1) + 1 = n
    BY <2>2, <2>3
  <2>5. n - 1 \notin wrong
    <3> HIDE DEF wrong
    <3> QED
      BY <2>1, <2>4
  <2> QED
    BY <1>2, <1>4, <2>2, <2>4, <2>5
<1> QED
  BY <1>1, <1>2, <1>4, <1>5

\* A search that gains an address in every round gains more than there are.
LEMMA RoundsStop ==
  ASSUME LookupsAssumption, NEW S \in SUBSET People, NEW B, NEW d, NEW R \in SUBSET Ck!Row,
         NEW f, IsRounds(f, Cardinality(People), S, B, R, d)
  PROVE  \E j \in 0..(Cardinality(People) - 1) :
            /\ f[Cardinality(People)] = f[j]
            /\ Grown(f[j], B, R, d) = f[j]
<1> DEFINE N == Cardinality(People)
<1>1. N \in Nat /\ N >= 1 /\ IsFiniteSet(People)
  <2>1. IsFiniteSet(People) /\ N \in Nat
    BY SamePeople, FS_CardinalityType
  <2>2. victim \in People
    BY DEF LookupsAssumption, Ck!CkAssumption
  <2>3. N # 0
    BY <2>1, <2>2, FS_EmptySet
  <2> QED
    BY <2>1, <2>3
<1> HIDE DEF N
<1>2. /\ \A n \in 0..(N - 1) : f[n + 1] = Grown(f[n], B, R, d) /\ f[n] \subseteq f[n + 1]
      /\ \A n \in 0..N : f[n] \in SUBSET People
  BY <1>1, RoundByRound DEF N
<1>3. \A n \in 0..N : IsFiniteSet(f[n]) /\ Cardinality(f[n]) \in Nat /\ Cardinality(f[n]) <= N
  BY <1>1, <1>2, FS_Subset, FS_CardinalityType DEF N
<1>4. \E j \in 0..(N - 1) : f[j + 1] = f[j]
  <2> SUFFICES ASSUME \A j \in 0..(N - 1) : f[j + 1] # f[j] PROVE FALSE
    OBVIOUS
  <2>1. f[0] # {}
    <3>1. Grown({}, B, R, d) = {}
      BY DEF Grown
    <3> QED
      BY <1>1, <1>2, <3>1
  <2> DEFINE small == {n \in 0..N : Cardinality(f[n]) < n + 1}
  <2>2. small # {}
    <3>1. N \in small
      BY <1>1, <1>3
    <3> QED
      BY <3>1
  <2>3. PICK n \in small : \A m \in small : ~(m < n)
    <3>1. small \in SUBSET Nat
      OBVIOUS
    <3> HIDE DEF small
    <3> QED
      BY <2>2, <3>1, Smallest
  <2>4. n \in 0..N /\ Cardinality(f[n]) < n + 1
    OBVIOUS
  <2>5. n # 0
    <3>1. Cardinality(f[0]) # 0
      BY <1>1, <1>3, <2>1, FS_EmptySet
    <3> QED
      BY <1>1, <1>3, <2>4, <3>1
  <2>6. n - 1 \in 0..(N - 1) /\ n - 1 \in 0..N /\ n - 1 < n /\ (n - 1) + 1 = n
    BY <1>1, <2>4, <2>5
  <2>7. n - 1 \notin small
    <3> HIDE DEF small
    <3> QED
      BY <2>3, <2>6
  <2>8. Cardinality(f[n - 1]) >= n
    BY <1>3, <2>6, <2>7
  <2>9. f[n - 1] \subseteq f[n] /\ f[n - 1] # f[n]
    BY <1>2, <2>6
  <2>10. Cardinality(f[n - 1]) <= Cardinality(f[n]) /\ Cardinality(f[n - 1]) # Cardinality(f[n])
    BY <1>3, <2>4, <2>9, FS_Subset
  <2> QED
    BY <1>3, <2>4, <2>6, <2>8, <2>10
<1>5. PICK j \in 0..(N - 1) : f[j + 1] = f[j]
  BY <1>4
<1> DEFINE later == {n \in 0..N : n > j /\ f[n] # f[j]}
<1>6. later = {}
  <2> SUFFICES ASSUME later # {} PROVE FALSE
    OBVIOUS
  <2>1. PICK n \in later : \A m \in later : ~(m < n)
    <3>1. later \in SUBSET Nat
      OBVIOUS
    <3> HIDE DEF later
    <3> QED
      BY <3>1, Smallest
  <2>2. n \in 0..N /\ n > j /\ f[n] # f[j]
    OBVIOUS
  <2>3. n # j + 1
    BY <1>5, <2>2
  <2>4. n - 1 \in 0..(N - 1) /\ n - 1 \in 0..N /\ n - 1 > j /\ n - 1 < n /\ (n - 1) + 1 = n
    BY <1>1, <2>2, <2>3
  <2>5. n - 1 \notin later
    <3> HIDE DEF later
    <3> QED
      BY <2>1, <2>4
  <2>6. f[n - 1] = f[j]
    BY <2>4, <2>5
  <2>7. f[n] = Grown(f[j], B, R, d)
    BY <1>2, <2>4, <2>6
  <2> QED
    BY <1>2, <1>5, <2>2, <2>7
<1>7. f[N] = f[j]
  <2>1. N \in 0..N /\ N > j
    BY <1>1, <1>5
  <2> QED
    BY <1>6, <2>1
<1> QED
  BY <1>2, <1>5, <1>7 DEF N

\* Where rows lead to.
EndsOf(F, d) == {Ck!Outer(r, d) : r \in F}

LEMMA EndsArePeople ==
  ASSUME NEW F \in SUBSET Ck!Row, NEW d
  PROVE  EndsOf(F, d) \in SUBSET People
BY DEF EndsOf, Ck!Outer, Ck!Row

\* A trail: from one of the first rows F, each row at the end of the last, through
\* addresses of V that are not blocked.
IsTrail(p, l, V, F, B, R, d) ==
  /\ p \in [1..l -> R] /\ p[1] \in F
  /\ \A i \in 1..l : Ck!Outer(p[i], d) \in V /\ Ck!Outer(p[i], d) \notin B
  /\ \A i \in 1..(l - 1) : Ck!Inner(p[i + 1], d) = Ck!Outer(p[i], d)

TrailTo(a, m, V, F, B, R, d) == \E l \in 1..m : \E p : IsTrail(p, l, V, F, B, R, d) /\ Ck!Outer(p[l], d) = a

\* Rows that go on from a trail of l rows to q, wherever that leads.
GoesOn(s, l, q, V, F, B, R, d) ==
  /\ s \in [1..(l + 1) -> R] /\ s[1] \in F /\ s[l + 1] = q
  /\ \A i \in 1..l : /\ Ck!Outer(s[i], d) \in V /\ Ck!Outer(s[i], d) \notin B
                     /\ Ck!Inner(s[i + 1], d) = Ck!Outer(s[i], d)

\* A trail can be continued by a row at its end.
LEMMA Continued ==
  ASSUME NEW l \in Nat \ {0}, NEW R \in SUBSET Ck!Row, NEW F, NEW B, NEW d, NEW V,
         NEW p, IsTrail(p, l, V, F, B, R, d), NEW q \in R, Ck!Inner(q, d) = Ck!Outer(p[l], d)
  PROVE  \E s : GoesOn(s, l, q, V, F, B, R, d)
<1> DEFINE s == [i \in 1..(l + 1) |-> IF i <= l THEN p[i] ELSE q]
<1>1. (\A i \in 1..l : s[i] = p[i]) /\ s[l + 1] = q /\ s \in [1..(l + 1) -> R]
  BY DEF IsTrail
<1> HIDE DEF s
<1>2. ASSUME NEW i \in 1..l
      PROVE  /\ Ck!Outer(s[i], d) \in V /\ Ck!Outer(s[i], d) \notin B
             /\ Ck!Inner(s[i + 1], d) = Ck!Outer(s[i], d)
  <2>1. Ck!Outer(s[i], d) \in V /\ Ck!Outer(s[i], d) \notin B
    BY <1>1 DEF IsTrail
  <2>2. CASE i \in 1..(l - 1)
    <3>1. i + 1 \in 1..l
      BY <2>2
    <3>2. Ck!Inner(p[i + 1], d) = Ck!Outer(p[i], d)
      BY <2>2 DEF IsTrail
    <3>3. s[i + 1] = p[i + 1] /\ s[i] = p[i]
      BY <1>1, <3>1
    <3> QED
      BY <2>1, <3>2, <3>3
  <2>3. CASE i = l
    BY <1>1, <2>1, <2>3
  <2> QED
    BY <2>2, <2>3
<1>3. s[1] \in F
  BY <1>1 DEF IsTrail
<1> QED
  BY <1>1, <1>2, <1>3 DEF GoesOn

\* A trail with one row more.
LEMMA LongerTrail ==
  ASSUME NEW l \in Nat \ {0}, NEW R \in SUBSET Ck!Row, NEW F, NEW B, NEW d, NEW V, NEW W, V \subseteq W,
         NEW p, IsTrail(p, l, V, F, B, R, d), NEW q \in R,
         Ck!Inner(q, d) = Ck!Outer(p[l], d), Ck!Outer(q, d) \in W, Ck!Outer(q, d) \notin B
  PROVE  \E s : IsTrail(s, l + 1, W, F, B, R, d) /\ s[l + 1] = q
<1>1. PICK s : GoesOn(s, l, q, V, F, B, R, d)
  BY Continued, Zenon
<1>2. 1..(l + 1) = 1..l \cup {l + 1} /\ (l + 1) - 1 = l
  OBVIOUS
<1>3. IsTrail(s, l + 1, W, F, B, R, d)
  BY <1>1, <1>2 DEF IsTrail, GoesOn
<1> QED
  BY <1>1, <1>3 DEF GoesOn

\* Whatever is visited in a round lies at the end of a trail, of at most as many
\* rows as there were rounds, and one.
LEMMA RoundTrails ==
  ASSUME NEW N \in Nat, NEW B, NEW d, NEW R \in SUBSET Ck!Row, NEW F \in SUBSET R,
         NEW f, IsRounds(f, N, EndsOf(F, d), B, R, d)
  PROVE  \A n \in 0..N : \A a \in f[n] : TrailTo(a, n + 1, f[n], F, B, R, d)
<1> USE DEF TrailTo
<1> DEFINE Found(n, a) == TrailTo(a, n + 1, f[n], F, B, R, d)
           lost == {n \in 0..N : \E a \in f[n] : ~Found(n, a)}
<1>1. /\ f[0] = EndsOf(F, d) \ B
      /\ \A n \in 0..(N - 1) : f[n + 1] = Grown(f[n], B, R, d) /\ f[n] \subseteq f[n + 1]
      /\ \A n \in 0..N : f[n] \in SUBSET People
  <2>1. EndsOf(F, d) \in SUBSET People
    BY EndsArePeople
  <2> QED
    BY <2>1, RoundByRound, Zenon
<1> SUFFICES ASSUME lost # {} PROVE FALSE
  OBVIOUS
<1>2. PICK n \in lost : \A m \in lost : ~(m < n)
  <2>1. lost \in SUBSET Nat
    OBVIOUS
  <2> HIDE DEF lost
  <2> QED
    BY <2>1, Smallest
<1>3. PICK a \in f[n] : ~Found(n, a)
  OBVIOUS
<1>4. n \in 0..N
  OBVIOUS
<1>5. CASE n = 0
  <2>1. PICK r \in F : a = Ck!Outer(r, d) /\ a \notin B
    BY <1>1, <1>3, <1>5 DEF EndsOf
  <2> DEFINE p == [i \in 1..1 |-> r]
  <2>2. p \in [1..1 -> R] /\ (\A i \in 1..1 : p[i] = r) /\ p[1] = r /\ 1..(1 - 1) = {}
    OBVIOUS
  <2> HIDE DEF p
  <2>3. IsTrail(p, 1, f[n], F, B, R, d)
    BY <1>3, <2>1, <2>2 DEF IsTrail
  <2>4. 1 \in 1..(n + 1)
    BY <1>5
  <2> QED
    BY <1>3, <2>1, <2>2, <2>3, <2>4
<1>6. CASE n # 0
  <2>1. n - 1 \in 0..(N - 1) /\ n - 1 \in 0..N /\ n - 1 < n /\ (n - 1) + 1 = n
    BY <1>4, <1>6
  <2>2. \A b \in f[n - 1] : Found(n - 1, b)
    <3>1. n - 1 \notin lost
      <4> HIDE DEF lost
      <4> QED
        BY <1>2, <2>1
    <3> HIDE DEF Found
    <3> QED
      BY <2>1, <3>1
  <2>3. f[n] = Grown(f[n - 1], B, R, d) /\ f[n - 1] \subseteq f[n]
    BY <1>1, <2>1
  <2>4. CASE a \in f[n - 1]
    <3>1a. PICK l \in 1..n : \E p : IsTrail(p, l, f[n - 1], F, B, R, d) /\ Ck!Outer(p[l], d) = a
      BY <2>1, <2>2, <2>4
    <3>1. PICK p : IsTrail(p, l, f[n - 1], F, B, R, d) /\ Ck!Outer(p[l], d) = a
      BY <3>1a
    <3>2. IsTrail(p, l, f[n], F, B, R, d)
      BY <2>3, <3>1 DEF IsTrail
    <3>3. l \in 1..(n + 1)
      BY <1>4
    <3> QED
      BY <1>3, <3>1, <3>2, <3>3
  <2>5. CASE a \notin f[n - 1]
    <3>1. PICK q \in R : Ck!Inner(q, d) \in f[n - 1] /\ a = Ck!Outer(q, d) /\ a \notin B
      BY <1>3, <2>3, <2>5 DEF Grown
    <3>2a. PICK l \in 1..n : \E p : IsTrail(p, l, f[n - 1], F, B, R, d) /\ Ck!Outer(p[l], d) = Ck!Inner(q, d)
      BY <2>1, <2>2, <3>1
    <3>2. PICK p : IsTrail(p, l, f[n - 1], F, B, R, d) /\ Ck!Outer(p[l], d) = Ck!Inner(q, d)
      BY <3>2a
    <3>3. PICK s : IsTrail(s, l + 1, f[n], F, B, R, d) /\ s[l + 1] = q
      BY <1>3, <2>3, <3>1, <3>2, LongerTrail
    <3>4. l + 1 \in 1..(n + 1)
      BY <1>4
    <3> QED
      BY <1>3, <3>1, <3>3, <3>4
  <2> QED
    BY <2>4, <2>5
<1> QED
  BY <1>5, <1>6

\* What dfs visits: where it starts, what rows lead on to, and nothing that no
\* trail leads to, none of which needs more rows than there are addresses.
LEMMA DfsVisits ==
  ASSUME LookupsAssumption, NEW B, NEW d, NEW R \in SUBSET Ck!Row, NEW F \in SUBSET R
  PROVE  LET V == Ck!dfs(EndsOf(F, d), B, R, d) IN
         /\ \A r \in F : Ck!Outer(r, d) \notin B => Ck!Outer(r, d) \in V
         /\ \A q \in R : Ck!Inner(q, d) \in V /\ Ck!Outer(q, d) \notin B => Ck!Outer(q, d) \in V
         /\ \A a \in V : TrailTo(a, Cardinality(People), V, F, B, R, d)
<1> DEFINE N == Cardinality(People)
           S == EndsOf(F, d)
           V == Ck!dfs(S, B, R, d)
<1>1. S \in SUBSET People
  BY EndsArePeople
<1>2. N \in Nat
  BY SamePeople, FS_CardinalityType
<1>3. PICK f : IsRounds(f, N, S, B, R, d) /\ V = f[N]
  <2> HIDE DEF S
  <2> QED
    BY DfsRounds
<1>4. PICK j \in 0..(N - 1) : f[N] = f[j] /\ Grown(f[j], B, R, d) = f[j]
  <2> HIDE DEF S, V
  <2> QED
    BY <1>1, <1>3, RoundsStop
<1>5. \A a \in f[j] :
         \E l \in 1..(j + 1) : \E p : IsTrail(p, l, f[j], F, B, R, d) /\ Ck!Outer(p[l], d) = a
  <2>1. IsRounds(f, N, EndsOf(F, d), B, R, d) /\ j \in 0..N
    BY <1>2, <1>3
  <2> HIDE DEF N, S, V
  <2>2. \A n \in 0..N : \A a \in f[n] : TrailTo(a, n + 1, f[n], F, B, R, d)
    BY <1>2, <2>1, RoundTrails, Zenon
  <2> QED
    BY <2>1, <2>2 DEF TrailTo
<1>6. 1..(j + 1) \subseteq 1..N
  BY <1>2
<1>7. f[0] \subseteq f[N] /\ f[0] = S \ B
  <2>1. /\ f[0] = S \ B
        /\ \A n \in 0..(N - 1) : f[n + 1] = Grown(f[n], B, R, d) /\ f[n] \subseteq f[n + 1]
        /\ \A n \in 0..N : f[n] \in SUBSET People
    <3> HIDE DEF S, V, N
    <3> QED
      BY <1>1, <1>2, <1>3, RoundByRound, Zenon
  <2> DEFINE lost == {n \in 0..N : ~(f[0] \subseteq f[n])}
  <2>2. lost = {}
    <3> SUFFICES ASSUME lost # {} PROVE FALSE
      OBVIOUS
    <3>1. PICK n \in lost : \A m \in lost : ~(m < n)
      <4>1. lost \in SUBSET Nat
        OBVIOUS
      <4> HIDE DEF lost
      <4> QED
        BY <4>1, Smallest
    <3>2. n \in 0..N /\ ~(f[0] \subseteq f[n]) /\ n # 0
      OBVIOUS
    <3>3. n - 1 \in 0..(N - 1) /\ n - 1 \in 0..N /\ n - 1 < n /\ (n - 1) + 1 = n
      BY <1>2, <3>2
    <3>4. n - 1 \notin lost
      <4> HIDE DEF lost
      <4> QED
        BY <3>1, <3>3
    <3> HIDE DEF S, V, N
    <3> QED
      BY <2>1, <3>2, <3>3, <3>4
  <2>3. N \in 0..N
    BY <1>2
  <2> QED
    BY <2>1, <2>2, <2>3
<1>8. V = f[j] /\ Grown(V, B, R, d) = V
  BY <1>3, <1>4
<1> HIDE DEF V, N
<1>9. \A r \in F : Ck!Outer(r, d) \notin B => Ck!Outer(r, d) \in V
  BY <1>3, <1>7 DEF EndsOf
<1>10. \A q \in R : Ck!Inner(q, d) \in V /\ Ck!Outer(q, d) \notin B => Ck!Outer(q, d) \in V
  BY <1>8 DEF Grown
<1>11. \A a \in V : TrailTo(a, N, V, F, B, R, d)
  BY <1>5, <1>6, <1>8 DEF TrailTo
<1> QED
  BY <1>9, <1>10, <1>11 DEF V, N

\* A row at an address visited ends a path from one of the first rows.
LEMMA PathTo ==
  ASSUME LookupsAssumption, NEW B, NEW d, NEW R \in SUBSET Ck!Row, NEW F \in SUBSET R,
         NEW q \in R, Ck!Inner(q, d) \in Ck!dfs(EndsOf(F, d), B, R, d)
  PROVE  \E l \in 1..Cardinality(People) :
            \E s : GoesOn(s, l, q, Ck!dfs(EndsOf(F, d), B, R, d), F, B, R, d)
<1> DEFINE V == Ck!dfs(EndsOf(F, d), B, R, d)
<1>1. \A a \in V : TrailTo(a, Cardinality(People), V, F, B, R, d)
  BY DfsVisits, Zenon
<1> HIDE DEF V
<1>2a. PICK l \in 1..Cardinality(People) : \E p : IsTrail(p, l, V, F, B, R, d) /\ Ck!Outer(p[l], d) = Ck!Inner(q, d)
  BY <1>1 DEF V, TrailTo
<1>2. PICK p : IsTrail(p, l, V, F, B, R, d) /\ Ck!Outer(p[l], d) = Ck!Inner(q, d)
  BY <1>2a
<1>3. l \in Nat \ {0}
  BY SamePeople, FS_CardinalityType
<1>4. \E s : GoesOn(s, l, q, V, F, B, R, d)
  BY <1>2, <1>3, Continued, Zenon
<1> QED
  BY <1>4 DEF V

\* Such a path is among those the properties look at.
LEMMA PathOf ==
  ASSUME LookupsAssumption, NEW l \in 1..Cardinality(People), NEW R, NEW s \in [1..(l + 1) -> R]
  PROVE  s \in Ck!Paths(R) /\ Len(s) = l + 1
<1>1. Cardinality(People) \in Nat /\ Ck!Cardinality(People) = Cardinality(People)
  BY SamePeople, FS_CardinalityType
<1>2. l + 1 \in 2..(Ck!Cardinality(People) + 1)
  BY <1>1
<1> QED
  BY <1>1, <1>2 DEF Ck!Paths

-----------------------------------------------------------------------------
(* What CK queries show                                                     *)

\* Of the distribution, all is kept but what shares its hash with a row behind an
\* exchange, as far as exchanges are known.
OutRows    == found["outbound"]
ToExchange == {q \in OutRows : Ck!Outer(q, "outbound") \in Exchanges}
Visited    == Ck!dfs(EndsOf(ToExchange, "outbound"), {}, OutRows, "outbound")

LEMMA OutboundFilter ==
  ASSUME Ck!FoundOK
  PROVE  /\ OutRows \in SUBSET Ck!Row
         /\ Ck!Filtered("outbound") =
              {r \in OutRows : Ck!Annotated("outbound") =>
                                  r.hash \notin Ck!HashesFrom(Visited, OutRows, "outbound")}
<1>1. OutRows \in SUBSET Ck!Row /\ \A r \in OutRows : r.depth >= 1
  BY DEF Ck!FoundOK, Ck!Directions, OutRows
<1>2. Ck!Towards(OutRows, "outbound") = OutRows
  BY <1>1 DEF Ck!Towards
<1>3. Ck!Filtered("outbound") = Ck!filter_exchange_transactions(OutRows, "outbound")
  BY <1>2 DEF Ck!Filtered, OutRows
<1>4. Visited = Ck!dfs({Ck!Outer(r, "outbound") : r \in {q \in OutRows : Ck!Outer(q, "outbound") \in Exchanges}},
                       {}, OutRows, "outbound")
  BY DEF Visited, EndsOf, ToExchange
<1>5. Ck!filter_exchange_transactions(OutRows, "outbound") =
         {r \in OutRows : r.hash \notin IF Ck!Annotated("outbound")
                                        THEN Ck!HashesFrom(Visited, OutRows, "outbound") ELSE {}}
  BY <1>4 DEF Ck!filter_exchange_transactions
<1> QED
  BY <1>1, <1>3, <1>5

\* The rows of the distribution in the result are those that were kept.
LEMMA OutboundJoined ==
  ASSUME Ck!FoundOK, dex \in BOOLEAN
  PROVE  /\ \A q \in Ck!Joined : q.side = "outbound" => \E o \in Ck!Filtered("outbound") : Ck!SameTransfer(o, q)
         /\ \A o \in Ck!Filtered("outbound") : \E q \in Ck!Joined : Ck!SameTransfer(o, q)
<1> DEFINE I == Ck!Filtered("inbound")
           O == Ck!Filtered("outbound")
<1>1. /\ I \in SUBSET Ck!Row /\ O \in SUBSET Ck!Row
      /\ \A r \in I : r.side = "inbound"
  <2>1. found["inbound"] \in SUBSET Ck!Row /\ \A r \in found["inbound"] : r.side = "inbound"
    BY DEF Ck!FoundOK, Ck!Directions
  <2>2. \A r \in Ck!Negated(found["inbound"]) : r.side = "inbound"
    BY <2>1, MovedRows DEF Ck!SameTransfer
  <2> QED
    BY <2>2, FilteredRows DEF Ck!Source
<1>2. Ck!Joined = IF dex THEN Ck!Negated(I) \cup Ck!Deeper(O) ELSE I \cup O
  BY DEF Ck!Joined, Ck!offset
<1> HIDE DEF I, O
<1>3. /\ \A r \in Ck!Negated(I) : r.side = "inbound"
      /\ \A r \in Ck!Deeper(O) : \E o \in O : Ck!SameTransfer(o, r)
      /\ \A o \in O : \E r \in Ck!Deeper(O) : Ck!SameTransfer(o, r)
  BY <1>1, MovedRows DEF Ck!SameTransfer
<1>4. \A o \in O : Ck!SameTransfer(o, o)
  BY DEF Ck!SameTransfer
<1> QED
  BY <1>1, <1>2, <1>3, <1>4 DEF I, O

\* A path from a row whose end is visited visits whoever it leads to.
LEMMA PathIsVisited ==
  ASSUME NEW R, NEW d, NEW V, NEW B, NEW n \in Nat, n >= 2, NEW p \in [1..n -> R],
         \A q \in R : Ck!Inner(q, d) \in V /\ Ck!Outer(q, d) \notin B => Ck!Outer(q, d) \in V,
         Ck!Outer(p[1], d) \in V,
         \A i \in 1..(n - 1) : Ck!Inner(p[i + 1], d) = Ck!Outer(p[i], d) /\ Ck!Outer(p[i], d) \notin B
  PROVE  Ck!Inner(p[n], d) \in V
<1> DEFINE missed == {i \in 1..(n - 1) : Ck!Outer(p[i], d) \notin V}
<1>1. missed = {}
  <2> SUFFICES ASSUME missed # {} PROVE FALSE
    OBVIOUS
  <2>1. PICK i \in missed : \A j \in missed : ~(j < i)
    <3>1. missed \in SUBSET Nat
      OBVIOUS
    <3> HIDE DEF missed
    <3> QED
      BY <3>1, Smallest
  <2>2. i \in 1..(n - 1) /\ Ck!Outer(p[i], d) \notin V
    OBVIOUS
  <2>3. i # 1
    BY <2>2
  <2>4. i - 1 \in 1..(n - 1) /\ i - 1 < i /\ (i - 1) + 1 = i /\ p[i] \in R
    BY <2>2, <2>3
  <2>5. i - 1 \notin missed
    <3> HIDE DEF missed
    <3> QED
      BY <2>1, <2>4
  <2>6. Ck!Inner(p[i], d) = Ck!Outer(p[i - 1], d)
    BY <2>4
  <2> QED
    BY <2>2, <2>4, <2>5, <2>6
<1>2. n - 1 \in 1..(n - 1) /\ (n - 1) + 1 = n
  OBVIOUS
<1>3. Ck!Outer(p[n - 1], d) \in V
  BY <1>1, <1>2
<1> QED
  BY <1>2, <1>3

\* A path the properties look at has at least two rows.
LEMMA APath ==
  ASSUME LookupsAssumption, NEW R, NEW p \in Ck!Paths(R)
  PROVE  Len(p) \in Nat /\ Len(p) >= 2 /\ p \in [1..Len(p) -> R]
<1>1. Ck!Cardinality(People) + 1 \in Nat
  BY SamePeople, FS_CardinalityType
<1>2. PICK n \in 2..(Ck!Cardinality(People) + 1) : p \in [1..n -> R]
  BY DEF Ck!Paths
<1> QED
  BY <1>1, <1>2

\* Whoever lies behind an exchange is visited.
LEMMA BehindIsVisited ==
  ASSUME LookupsAssumption, Ck!FoundOK, NEW r \in Ck!Behind(OutRows, "outbound")
  PROVE  r \in OutRows /\ Ck!Inner(r, "outbound") \in Visited
<1>1. OutRows \in SUBSET Ck!Row /\ ToExchange \in SUBSET OutRows
  BY OutboundFilter DEF ToExchange
<1>2. /\ \A q \in ToExchange : Ck!Outer(q, "outbound") \in Visited
      /\ \A q \in OutRows : Ck!Inner(q, "outbound") \in Visited => Ck!Outer(q, "outbound") \in Visited
  BY <1>1, DfsVisits DEF Visited
<1>3. PICK p \in Ck!Paths(OutRows) :
         /\ r = p[Len(p)] /\ Ck!Outer(p[1], "outbound") \in Exchanges
         /\ \A i \in 1..(Len(p) - 1) : Ck!Inner(p[i + 1], "outbound") = Ck!Outer(p[i], "outbound")
  BY DEF Ck!Behind
<1>4. Len(p) \in Nat /\ Len(p) >= 2 /\ p \in [1..Len(p) -> OutRows]
  BY APath
<1>5. p[1] \in ToExchange /\ p[Len(p)] \in OutRows
  BY <1>3, <1>4 DEF ToExchange
<1>6. \A i \in 1..(Len(p) - 1) : /\ Ck!Inner(p[i + 1], "outbound") = Ck!Outer(p[i], "outbound")
                                 /\ Ck!Outer(p[i], "outbound") \notin {}
  BY <1>3
<1>7. \A q \in OutRows : Ck!Inner(q, "outbound") \in Visited /\ Ck!Outer(q, "outbound") \notin {}
                         => Ck!Outer(q, "outbound") \in Visited
  BY <1>2
<1>8. Ck!Outer(p[1], "outbound") \in Visited
  BY <1>2, <1>5
<1>9. Ck!Inner(p[Len(p)], "outbound") \in Visited
  <2> DEFINE n == Len(p)
  <2>1. n \in Nat /\ n >= 2 /\ p \in [1..n -> OutRows]
    BY <1>4
  <2>2. \A i \in 1..(n - 1) : /\ Ck!Inner(p[i + 1], "outbound") = Ck!Outer(p[i], "outbound")
                              /\ Ck!Outer(p[i], "outbound") \notin {}
    BY <1>6
  <2> DEFINE stops == {}
  <2>3. \A q \in OutRows : Ck!Inner(q, "outbound") \in Visited /\ Ck!Outer(q, "outbound") \notin stops
                           => Ck!Outer(q, "outbound") \in Visited
    BY <1>7
  <2>4. \A i \in 1..(n - 1) : Ck!Inner(p[i + 1], "outbound") = Ck!Outer(p[i], "outbound")
                              /\ Ck!Outer(p[i], "outbound") \notin stops
    BY <2>2
  <2> HIDE DEF n, stops
  <2>5. Ck!Inner(p[n], "outbound") \in Visited
    BY <1>8, <2>1, <2>3, <2>4, PathIsVisited
  <2> QED
    BY <2>5 DEF n
<1> QED
  BY <1>3, <1>5, <1>9

\* What is shown of the distribution was kept, unless another vendor answered.
LEMMA TheTrailEnds ==
  ASSUME LookupsAssumption, Ck!IInv
  PROVE  Ck!ExchangesEndTheTrail
<1> SUFFICES ASSUME ckPhase = "end", api_used = vendor["outbound"],
                    NEW r \in Ck!Behind(OutRows, "outbound"), NEW q \in shown, Ck!SameTransfer(r, q)
             PROVE  FALSE
  BY DEF Ck!ExchangesEndTheTrail, Ck!Shows, OutRows
<1>1. Ck!FoundOK /\ dex \in BOOLEAN
  BY DEF Ck!IInv
<1>2. r \in OutRows /\ Ck!Inner(r, "outbound") \in Visited
  BY <1>1, BehindIsVisited
<1>3. r.side = "outbound"
  BY <1>1, <1>2 DEF Ck!FoundOK, OutRows, Ck!Directions
<1>4. q \in Ck!Joined
  BY <1>1, JoinedRows DEF Ck!IInv, Ck!ShownOK
<1>5. PICK o \in Ck!Filtered("outbound") : Ck!SameTransfer(o, q)
  BY <1>1, <1>3, <1>4, OutboundJoined DEF Ck!SameTransfer
<1>6. Ck!Annotated("outbound")
  BY DEF Ck!Annotated
<1>7. o.hash \notin Ck!HashesFrom(Visited, OutRows, "outbound")
  BY <1>1, <1>6, OutboundFilter
<1>8. r.hash \in Ck!HashesFrom(Visited, OutRows, "outbound")
  BY <1>2 DEF Ck!HashesFrom
<1> QED
  BY <1>5, <1>7, <1>8 DEF Ck!SameTransfer

\* What was not kept shares its hash with a row at an address visited, and a path
\* from an exchange leads there.
LEMMA NothingElseIsCut ==
  ASSUME LookupsAssumption, Ck!IInv
  PROVE  Ck!OnlyExchangesCut
<1> SUFFICES ASSUME ckAnswer = "data", ckRequest.hashes = {}, NEW r \in OutRows, ~Ck!Shows(r)
             PROVE  \E q \in Ck!Behind(OutRows, "outbound") : q.hash = r.hash
  BY DEF Ck!OnlyExchangesCut, OutRows
<1>1. Ck!FoundOK /\ dex \in BOOLEAN
  BY DEF Ck!IInv
<1>2. shown = Ck!Joined
  BY <1>1, JoinedRows DEF Ck!IInv, Ck!ShownOK
<1>3. r \notin Ck!Filtered("outbound")
  BY <1>1, <1>2, OutboundJoined DEF Ck!Shows
<1>4. r.hash \in Ck!HashesFrom(Visited, OutRows, "outbound")
  BY <1>1, <1>3, OutboundFilter
<1>5. PICK q \in OutRows : q.hash = r.hash /\ Ck!Inner(q, "outbound") \in Visited
  BY <1>4 DEF Ck!HashesFrom
<1>6. OutRows \in SUBSET Ck!Row /\ ToExchange \in SUBSET OutRows
  BY <1>1, OutboundFilter DEF ToExchange
<1>7a. PICK l \in 1..Cardinality(People) : \E s : GoesOn(s, l, q, Visited, ToExchange, {}, OutRows, "outbound")
  BY <1>5, <1>6, PathTo, Zenon DEF Visited
<1>7. PICK s : GoesOn(s, l, q, Visited, ToExchange, {}, OutRows, "outbound")
  BY <1>7a
<1>8. s \in Ck!Paths(OutRows) /\ Len(s) = l + 1 /\ (l + 1) - 1 = l
  <2>1. l \in Nat
    BY SamePeople, FS_CardinalityType
  <2> QED
    BY <1>7, <2>1, PathOf DEF GoesOn
<1>9. q \in Ck!Behind(OutRows, "outbound")
  BY <1>7, <1>8 DEF Ck!Behind, GoesOn, ToExchange
<1> QED
  BY <1>5, <1>9

\* A search from nowhere visits nobody.
LEMMA NobodyVisited ==
  ASSUME LookupsAssumption, NEW d, NEW R \in SUBSET Ck!Row
  PROVE  Ck!dfs({}, {}, R, d) = {}
<1>1. EndsOf({}, d) = {}
  BY DEF EndsOf
<1>2. \A a \in Ck!dfs(EndsOf({}, d), {}, R, d) :
         TrailTo(a, Cardinality(People), Ck!dfs(EndsOf({}, d), {}, R, d), {}, {}, R, d)
  BY DfsVisits, Zenon
<1> QED
  BY <1>1, <1>2 DEF TrailTo, IsTrail

\* The rows of the source in the result are those the victim sent that were counted
\* upwards: no exchange is among those they came from.
LEMMA SourceShown ==
  ASSUME LookupsAssumption, Ck!IInv
  PROVE  Ck!VictimsTransfersByVendor
<1> DEFINE In == found["inbound"]
           Sent == {r \in In : r.sender = victim}
           I == Ck!Filtered("inbound")
           O == Ck!Filtered("outbound")
           OfSource(R) == {r \in R : r.side = "inbound"}
<1> SUFFICES ASSUME ckAnswer = "data", ckRequest.hashes = {}, victim \notin Exchanges
             PROVE  /\ OfSource(shown) = {r \in Sent : r.depth >= 1}
                    /\ vendor["inbound"] = "bitquery" => OfSource(shown) = Sent
                    /\ vendor["inbound"] = "tracer" =>
                          Ck!Signed(Ck!Trace("inbound"), "inbound") \cap OfSource(shown) = {}
  BY DEF Ck!VictimsTransfersByVendor
<1>1. Ck!FoundOK /\ dex \in BOOLEAN
  BY DEF Ck!IInv
<1>2. /\ shown = Ck!Joined
      /\ Ck!Joined = IF dex THEN Ck!Negated(I) \cup Ck!Deeper(O) ELSE I \cup O
  BY <1>1, JoinedRows DEF Ck!IInv, Ck!ShownOK, Ck!Joined, Ck!offset
<1>3. /\ In \in SUBSET Ck!Row /\ (\A r \in In : r.side = "inbound") /\ (~dex => In = {})
      /\ vendor["inbound"] = "bitquery" => \A r \in In : r.depth >= 1
  BY <1>1 DEF Ck!FoundOK, Ck!Directions
<1>4. I = {r \in Ck!Source : r.depth < 0}
  <2> DEFINE T == Ck!Towards(Ck!Source, "inbound")
             X == {Ck!Outer(r, "inbound") : r \in {q \in T : Ck!Outer(q, "inbound") \in Exchanges}}
  <2>1. T = {r \in Ck!Source : r.depth < 0} /\ \A r \in T : r.sender = victim
    BY DEF Ck!Towards, Ck!Source
  <2>2. X = {}
    BY <2>1 DEF Ck!Outer
  <2>3. I = {r \in T : r.hash \notin
               IF Ck!Annotated("inbound") THEN Ck!HashesFrom(Ck!dfs(X, {}, T, "inbound"), T, "inbound") ELSE {}}
    BY DEF Ck!Filtered, Ck!filter_exchange_transactions
  <2> DEFINE V == Ck!dfs(X, {}, T, "inbound")
  <2>3a. Ck!Source \in SUBSET Ck!Row
    BY <1>1, MovedRows DEF Ck!FoundOK, Ck!Directions, Ck!Source
  <2>4. V = {}
    BY <2>1, <2>2, <2>3a, NobodyVisited
  <2> HIDE DEF T, X
  <2> QED
    BY <2>1, <2>3, <2>4 DEF Ck!HashesFrom, V
<1>5. O \in SUBSET Ck!Row /\ \A r \in O : r.side = "outbound"
  <2>1. \A r \in found["outbound"] : r.side = "outbound"
    BY <1>1 DEF Ck!FoundOK, Ck!Directions
  <2> QED
    BY <1>1, <2>1, FilteredRows
<1> DEFINE Neg(r) == [r EXCEPT !.depth = -r.depth]
<1>6. \A r \in Ck!Row : /\ Neg(r) \in Ck!Row /\ Neg(r).depth = -r.depth /\ Neg(r).sender = r.sender
                        /\ Neg(r).side = r.side /\ Neg(Neg(r)) = r /\ r.depth \in Int
  <2> TAKE r \in Ck!Row
  <2>1. /\ r.depth \in Int /\ -r.depth \in Int /\ -(-r.depth) = r.depth
        /\ r.hash \in Hashes /\ r.sender \in People /\ r.receiver \in People /\ r.side \in Ck!Directions
    BY DEF Ck!Row
  <2>2. r = [hash |-> r.hash, sender |-> r.sender, receiver |-> r.receiver, depth |-> r.depth, side |-> r.side]
    BY DEF Ck!Row
  <2>3. Neg(r) = [hash |-> r.hash, sender |-> r.sender, receiver |-> r.receiver,
                  depth |-> -r.depth, side |-> r.side]
    BY <2>2
  <2> HIDE DEF Neg
  <2>4. /\ Neg(r).depth = -r.depth /\ Neg(r).sender = r.sender /\ Neg(r).side = r.side
        /\ Neg(r) \in Ck!Row
    BY <2>1, <2>3 DEF Ck!Row
  <2> DEFINE q == [hash |-> r.hash, sender |-> r.sender, receiver |-> r.receiver,
                   depth |-> -r.depth, side |-> r.side]
  <2>5a. Neg(q) = [hash |-> r.hash, sender |-> r.sender, receiver |-> r.receiver,
                   depth |-> -(-r.depth), side |-> r.side]
    BY DEF Neg
  <2>5. Neg(Neg(r)) = [hash |-> r.hash, sender |-> r.sender, receiver |-> r.receiver,
                       depth |-> -(-r.depth), side |-> r.side]
    BY <2>3, <2>5a
  <2> QED
    BY <2>1, <2>2, <2>4, <2>5
<1> HIDE DEF Neg, In, I, O
<1>7. \A R : Ck!Negated(R) = {Neg(r) : r \in R}
  BY DEF Ck!Negated, Neg
<1>8. Ck!Source = {r \in {Neg(q) : q \in In} : r.sender = victim}
  BY <1>7 DEF Ck!Source, In
<1>9. I = {r \in {Neg(q) : q \in In} : r.sender = victim /\ r.depth < 0}
  BY <1>4, <1>8
<1>10. Ck!Negated(I) = {r \in Sent : r.depth >= 1}
  <2>1. ASSUME NEW r \in Ck!Negated(I) PROVE r \in Sent /\ r.depth >= 1
    <3>1. PICK q \in In : r = Neg(Neg(q)) /\ Neg(q).sender = victim /\ Neg(q).depth < 0
      BY <1>7, <1>9, <2>1
    <3> QED
      BY <1>3, <1>6, <3>1
  <2>2. ASSUME NEW r \in Sent, r.depth >= 1 PROVE r \in Ck!Negated(I)
    <3>1. r = Neg(Neg(r)) /\ Neg(r) \in I
      BY <1>3, <1>6, <1>9, <2>2
    <3> QED
      BY <1>7, <3>1
  <2> QED
    BY <2>1, <2>2
<1>11. \A r \in Ck!Deeper(O) : r.side = "outbound"
  BY <1>5, MovedRows DEF Ck!SameTransfer
<1>12. OfSource(shown) = {r \in Sent : r.depth >= 1}
  <2>1. CASE dex
    <3>1. \A r \in Sent : r.side = "inbound"
      BY <1>3
    <3> HIDE DEF Sent
    <3> QED
      BY <1>2, <1>10, <1>11, <2>1, <3>1
  <2>2. CASE ~dex
    <3>1. In = {} /\ I = {}
      BY <1>3, <1>9, <2>2
    <3> QED
      BY <1>2, <1>5, <2>2, <3>1
  <2> QED
    BY <1>1, <2>1, <2>2
<1>13. vendor["inbound"] = "bitquery" => OfSource(shown) = Sent
  BY <1>3, <1>12
<1>14. Ck!Signed(Ck!Trace("inbound"), "inbound") \cap OfSource(shown) = {}
  <2>1. \A r \in Ck!Signed(Ck!Trace("inbound"), "inbound") : r \in Ck!Row /\ r.depth < 0
    BY VendorTraced DEF Ck!IInv, Ck!Directions
  <2>2. \A r \in Ck!Row : ~(r.depth < 0 /\ r.depth >= 1)
    BY DEF Ck!Row
  <2> QED
    BY <1>12, <2>1, <2>2
<1> QED
  BY <1>12, <1>13, <1>14

\* What a restricted answer shows, by the search from the transactions asked for.
Given    == {q \in Ck!Joined : q.hash \in ckRequest.hashes}
Followed == Ck!dfs(EndsOf(Given, "outbound"), {victim}, Ck!Joined, "outbound")

LEMMA RestrictedAnswer ==
  ASSUME LookupsAssumption, Ck!IInv, ckAnswer = "data", ckRequest.hashes # {}
  PROVE  /\ Ck!Joined \in SUBSET Ck!Row /\ Given \in SUBSET Ck!Joined
         /\ shown = {q \in Ck!Joined : q.hash \in ckRequest.hashes
                                          \cup Ck!HashesFrom(Followed, Ck!Joined, "outbound")}
<1>1. Ck!FoundOK /\ dex \in BOOLEAN
  BY DEF Ck!IInv
<1>2. shown = Ck!filter_transaction_path(Ck!Joined, ckRequest.hashes)
  BY DEF Ck!IInv, Ck!ShownOK, Ck!Result
<1>3. EndsOf(Given, "outbound") = {q.receiver : q \in {r \in Ck!Joined : r.hash \in ckRequest.hashes}}
  BY DEF EndsOf, Ck!Outer, Given
<1> QED
  BY <1>1, <1>2, <1>3, JoinedRows DEF Ck!filter_transaction_path, Given, Followed

\* Whatever follows a transaction asked for is shown.
LEMMA WhatFollowedIsShown ==
  ASSUME LookupsAssumption, Ck!IInv, ckAnswer = "data", ckRequest.hashes # {},
         NEW p \in Ck!Paths(Ck!Joined), Ck!FollowsFrom(p)
  PROVE  p[Len(p)] \in shown
<1>1. Len(p) \in Nat /\ Len(p) >= 2 /\ p \in [1..Len(p) -> Ck!Joined]
  BY APath
<1>2. /\ \A r \in Given : Ck!Outer(r, "outbound") \notin {victim} => Ck!Outer(r, "outbound") \in Followed
      /\ \A q \in Ck!Joined : Ck!Inner(q, "outbound") \in Followed /\ Ck!Outer(q, "outbound") \notin {victim}
                               => Ck!Outer(q, "outbound") \in Followed
  BY RestrictedAnswer, DfsVisits DEF Followed
<1>3. \A i \in 1..(Len(p) - 1) : /\ Ck!Inner(p[i + 1], "outbound") = Ck!Outer(p[i], "outbound")
                                 /\ Ck!Outer(p[i], "outbound") \notin {victim}
  BY DEF Ck!FollowsFrom, Ck!Inner, Ck!Outer
<1>4. p[1] \in Given /\ 1 \in 1..(Len(p) - 1)
  BY <1>1 DEF Given, Ck!FollowsFrom
<1>5. Ck!Outer(p[1], "outbound") \in Followed
  BY <1>2, <1>3, <1>4
<1>6. Ck!Inner(p[Len(p)], "outbound") \in Followed
  BY <1>1, <1>2, <1>3, <1>5, PathIsVisited
<1>7. p[Len(p)] \in Ck!Joined
  BY <1>1
<1> QED
  BY <1>6, <1>7, RestrictedAnswer DEF Ck!HashesFrom

\* The rows of a path from a transaction asked for are all shown, and whatever is
\* shown shares its hash with the end of one.
LEMMA HashesAreFollowed ==
  ASSUME LookupsAssumption, Ck!IInv
  PROVE  Ck!AnswerFollowsTheHashes
<1> SUFFICES ASSUME ckAnswer = "data", ckRequest.hashes # {}
             PROVE  /\ \A r \in Ck!Joined : r.hash \in ckRequest.hashes => r \in shown
                    /\ \A p \in Ck!Paths(Ck!Joined) : Ck!FollowsFrom(p) => p[Len(p)] \in shown
                    /\ \A r \in shown : r.hash \notin ckRequest.hashes =>
                          \E p \in Ck!Paths(shown) : Ck!FollowsFrom(p) /\ p[Len(p)].hash = r.hash
  BY DEF Ck!AnswerFollowsTheHashes
<1>1. \A r \in Ck!Joined : r.hash \in ckRequest.hashes => r \in shown
  BY RestrictedAnswer
<1>2. \A p \in Ck!Paths(Ck!Joined) : Ck!FollowsFrom(p) => p[Len(p)] \in shown
  BY WhatFollowedIsShown
<1>3. ASSUME NEW r \in shown, r.hash \notin ckRequest.hashes
      PROVE  \E p \in Ck!Paths(shown) : Ck!FollowsFrom(p) /\ p[Len(p)].hash = r.hash
  <2>1. PICK q \in Ck!Joined : q.hash = r.hash /\ Ck!Inner(q, "outbound") \in Followed
    <3>1. r.hash \in Ck!HashesFrom(Followed, Ck!Joined, "outbound")
      BY <1>3, RestrictedAnswer
    <3> QED
      BY <3>1 DEF Ck!HashesFrom
  <2>2. Ck!Joined \in SUBSET Ck!Row /\ Given \in SUBSET Ck!Joined
    BY RestrictedAnswer
  <2>3. PICK l \in 1..Cardinality(People) :
          \E s : GoesOn(s, l, q, Followed, Given, {victim}, Ck!Joined, "outbound")
    BY <2>1, <2>2, PathTo, Zenon DEF Followed
  <2>4. PICK s : GoesOn(s, l, q, Followed, Given, {victim}, Ck!Joined, "outbound")
    BY <2>3
  <2>5. l \in Nat
    BY SamePeople, FS_CardinalityType
  <2>6. /\ s \in [1..(l + 1) -> Ck!Joined] /\ s[1] \in Given /\ s[l + 1] = q
        /\ \A i \in 1..l : s[i].receiver \in Followed /\ s[i].receiver # victim /\ s[i + 1].sender = s[i].receiver
    BY <2>4 DEF GoesOn, Ck!Outer, Ck!Inner
  <2>7. ASSUME NEW i \in 1..(l + 1)
        PROVE  s[i] \in shown
    <3>1. s[i] \in Ck!Joined
      BY <2>6
    <3>2. CASE i = 1
      BY <2>6, <3>1, <3>2, RestrictedAnswer DEF Given
    <3>3. CASE i # 1
      <4>1. i - 1 \in 1..l /\ (i - 1) + 1 = i
        BY <2>5, <3>3
      <4>2. Ck!Inner(s[i], "outbound") \in Followed
        BY <2>6, <4>1 DEF Ck!Inner
      <4> QED
        BY <3>1, <4>2, RestrictedAnswer DEF Ck!HashesFrom
    <3> QED
      BY <3>2, <3>3
  <2>8. s \in [1..(l + 1) -> shown]
    BY <2>6, <2>7
  <2>9. s \in Ck!Paths(shown) /\ Len(s) = l + 1 /\ (l + 1) - 1 = l
    BY <2>5, <2>8, PathOf
  <2>10. Ck!FollowsFrom(s)
    BY <2>6, <2>9 DEF Ck!FollowsFrom, Given
  <2> QED
    BY <2>1, <2>6, <2>9, <2>10
<1> QED
  BY <1>1, <1>2, <1>3

-----------------------------------------------------------------------------
(* What is kept and looked up                                                *)

LEMMA SameNumber ==
  /\ \A S : Catv!Cardinality(S) = Cardinality(S)
  /\ \A S : Catv!IsFiniteSet(S) <=> IsFiniteSet(S)
<1>1. ASSUME NEW S PROVE Catv!Cardinality(S) = Cardinality(S)
  BY Zenon DEF Catv!Cardinality, Cardinality
<1>2. ASSUME NEW S PROVE Catv!IsFiniteSet(S) <=> IsFiniteSet(S)
  BY Zenon DEF Catv!IsFiniteSet, IsFiniteSet
<1> QED
  BY <1>1, <1>2

\* The loop of Kept over the first k elements.
Longer(g, s, K, n) == IF n \in K THEN Append(g, s[n]) ELSE g
IsLoop(f, k, s, K) == f = [n \in 0..k |-> IF n = 0 THEN <<>> ELSE Longer(f[n - 1], s, K, n)]

\* The recursive function has a value, whatever the number of elements.
LEMMA SomeLoop ==
  ASSUME NEW s, NEW K
  PROVE  \A k \in Nat : \E f : IsLoop(f, k, s, K)
<1> DEFINE none == {k \in Nat : ~ \E f : IsLoop(f, k, s, K)}
<1> SUFFICES ASSUME none # {} PROVE FALSE
  OBVIOUS
<1>1. PICK k \in none : \A m \in none : ~(m < k)
  <2>1. none \in SUBSET Nat
    OBVIOUS
  <2> HIDE DEF none
  <2> QED
    BY <2>1, Smallest
<1>2. k \in Nat /\ \A f : ~IsLoop(f, k, s, K)
  OBVIOUS
<1>3. CASE k = 0
  <2> DEFINE f == [n \in 0..0 |-> <<>>]
  <2>1. f = [n \in 0..0 |-> IF n = 0 THEN <<>> ELSE Longer(f[n - 1], s, K, n)]
    OBVIOUS
  <2> QED
    BY <1>2, <1>3, <2>1 DEF IsLoop
<1>4. CASE k # 0
  <2>1. k - 1 \in Nat /\ k - 1 < k
    BY <1>2, <1>4
  <2>2. k - 1 \notin none
    <3> HIDE DEF none
    <3> QED
      BY <1>1, <2>1
  <2>3. PICK g : IsLoop(g, k - 1, s, K)
    BY <2>1, <2>2
  <2> DEFINE f == [n \in 0..k |-> IF n = k THEN Longer(g[k - 1], s, K, k) ELSE g[n]]
  <2>4. \A n \in 0..(k - 1) : g[n] = IF n = 0 THEN <<>> ELSE Longer(g[n - 1], s, K, n)
    <3> DEFINE h == [n \in 0..(k - 1) |-> IF n = 0 THEN <<>> ELSE Longer(g[n - 1], s, K, n)]
    <3>1. \A n \in 0..(k - 1) : h[n] = IF n = 0 THEN <<>> ELSE Longer(g[n - 1], s, K, n)
      OBVIOUS
    <3>2. g = h
      BY <2>3 DEF IsLoop
    <3> HIDE DEF h
    <3> QED
      BY <3>1, <3>2
  <2>5. ASSUME NEW n \in 0..k
        PROVE  f[n] = IF n = 0 THEN <<>> ELSE Longer(f[n - 1], s, K, n)
    <3>1. CASE n = k
      <4>1. f[k] = Longer(g[k - 1], s, K, k) /\ f[k - 1] = g[k - 1]
        BY <2>1
      <4> QED
        BY <1>4, <3>1, <4>1
    <3>2. CASE n # k
      <4>1. n \in 0..(k - 1) /\ f[n] = g[n] /\ (n # 0 => f[n - 1] = g[n - 1])
        BY <1>2, <3>2
      <4> QED
        BY <2>4, <4>1
    <3> QED
      BY <3>1, <3>2
  <2>6. f = [n \in 0..k |-> f[n]]
    OBVIOUS
  <2>7. f = [n \in 0..k |-> IF n = 0 THEN <<>> ELSE Longer(f[n - 1], s, K, n)]
    <3> HIDE DEF f
    <3> QED
      BY <2>5, <2>6
  <2> QED
    BY <1>2, <2>7 DEF IsLoop
<1> QED
  BY <1>3, <1>4

\* Kept keeps as many elements as there are positions, and adds none.
LEMMA KeptElements ==
  ASSUME NEW S, NEW s \in Seq(S), NEW K \in SUBSET (1..Len(s))
  PROVE  Catv!Kept(s, K) \in Seq(S) /\ Len(Catv!Kept(s, K)) = Cardinality(K)
<1> DEFINE k == Len(s)
           upTo == CHOOSE f : f = [n \in 0..k |-> IF n = 0 THEN <<>>
                                                  ELSE IF n \in K THEN Append(f[n - 1], s[n]) ELSE f[n - 1]]
<1>1. k \in Nat /\ Catv!Kept(s, K) = upTo[k]
  BY DEF Catv!Kept
<1>2. upTo = [n \in 0..k |-> IF n = 0 THEN <<>>
                             ELSE IF n \in K THEN Append(upTo[n - 1], s[n]) ELSE upTo[n - 1]]
  <2>1. \E f : IsLoop(f, k, s, K)
    BY <1>1, SomeLoop
  <2>2. \E f : f = [n \in 0..k |-> IF n = 0 THEN <<>>
                                   ELSE IF n \in K THEN Append(f[n - 1], s[n]) ELSE f[n - 1]]
    BY <2>1, Zenon DEF IsLoop, Longer
  <2> QED
    BY <2>2, Zenon
<1>3. \A n \in 0..k : upTo[n] = IF n = 0 THEN <<>>
                                ELSE IF n \in K THEN Append(upTo[n - 1], s[n]) ELSE upTo[n - 1]
  <2> DEFINE h == [n \in 0..k |-> IF n = 0 THEN <<>>
                                  ELSE IF n \in K THEN Append(upTo[n - 1], s[n]) ELSE upTo[n - 1]]
  <2> HIDE DEF upTo
  <2>1. \A n \in 0..k : h[n] = IF n = 0 THEN <<>>
                               ELSE IF n \in K THEN Append(upTo[n - 1], s[n]) ELSE upTo[n - 1]
    OBVIOUS
  <2>2. upTo = h
    BY <1>2
  <2> HIDE DEF h
  <2> QED
    BY <2>1, <2>2
<1> HIDE DEF upTo
<1> DEFINE Right(n) == upTo[n] \in Seq(S) /\ Len(upTo[n]) = Cardinality(K \cap 1..n)
           wrong == {n \in 0..k : ~Right(n)}
<1>4. wrong = {}
  <2> SUFFICES ASSUME wrong # {} PROVE FALSE
    OBVIOUS
  <2>1. PICK n \in wrong : \A m \in wrong : ~(m < n)
    <3>1. wrong \in SUBSET Nat
      OBVIOUS
    <3> HIDE DEF wrong
    <3> QED
      BY <3>1, Smallest
  <2>2. n \in 0..k /\ ~Right(n)
    OBVIOUS
  <2>3. n # 0
    <3>1. K \cap 1..0 = {} /\ Cardinality({}) = 0
      BY FS_EmptySet
    <3>2. upTo[0] = <<>>
      BY <1>1, <1>3
    <3>3. upTo[0] \in Seq(S) /\ Len(upTo[0]) = 0
      BY <3>2
    <3> QED
      BY <2>2, <3>1, <3>3
  <2>4. n - 1 \in 0..k /\ n - 1 < n /\ n \in 1..k
    BY <1>1, <2>2, <2>3
  <2>5. Right(n - 1)
    <3>1. n - 1 \notin wrong
      <4> HIDE DEF wrong
      <4> QED
        BY <2>1, <2>4
    <3> HIDE DEF Right
    <3> QED
      BY <2>4, <3>1
  <2>6. IsFiniteSet(K \cap 1..(n - 1)) /\ n \notin K \cap 1..(n - 1) /\ Cardinality(K \cap 1..(n - 1)) \in Nat
    <3>1. 1 \in Int /\ n - 1 \in Int
      BY <2>4
    <3>2. IsFiniteSet(1..(n - 1))
      BY <3>1, FS_Interval
    <3>3. (K \cap 1..(n - 1)) \in SUBSET (1..(n - 1))
      BY Zenon
    <3>4. IsFiniteSet(K \cap 1..(n - 1))
      BY <3>2, <3>3, FS_Subset
    <3> QED
      BY <2>4, <3>4, FS_CardinalityType
  <2>7. s[n] \in S /\ Len(upTo[n - 1]) \in Nat
    BY <2>4, <2>5
  <2>8. CASE n \in K
    <3>1. K \cap 1..n = (K \cap 1..(n - 1)) \cup {n}
      BY <2>4, <2>8
    <3>2. Cardinality(K \cap 1..n) = Cardinality(K \cap 1..(n - 1)) + 1
      BY <2>6, <3>1, FS_AddElement
    <3>3. upTo[n] = Append(upTo[n - 1], s[n])
      BY <1>3, <2>3, <2>4, <2>8
    <3>4. upTo[n] \in Seq(S) /\ Len(upTo[n]) = Len(upTo[n - 1]) + 1
      BY <2>5, <2>7, <3>3
    <3> QED
      BY <2>2, <2>5, <3>2, <3>4
  <2>9. CASE n \notin K
    <3>1. K \cap 1..n = K \cap 1..(n - 1)
      BY <2>4, <2>9
    <3>2. upTo[n] = upTo[n - 1]
      BY <1>3, <2>3, <2>4, <2>9
    <3> QED
      BY <2>2, <2>5, <3>1, <3>2
  <2> QED
    BY <2>8, <2>9
<1>5. Right(k) /\ K \cap 1..k = K
  <2>1. k \in 0..k /\ K \cap (1..k) = K
    <3>1. \A x \in K : x \in 1..k
      OBVIOUS
    <3>2. k \in 0..k
      BY <1>1
    <3> HIDE DEF k
    <3> QED
      BY <3>1, <3>2
  <2>2. k \notin wrong
    BY <1>4
  <2> HIDE DEF Right
  <2> QED
    BY <2>1, <2>2
<1> QED
  BY <1>1, <1>5

\* Every place of a list is in one of its chunks.
LEMMA ChunksCover ==
  ASSUME LookupsAssumption, NEW n \in Nat, NEW j \in 1..n
  PROVE  \E k \in 1..Catv!Chunks(n) : 1 + (k - 1) * chunk_size <= j /\ j <= k * chunk_size
<1>1. chunk_size \in Nat \ {0}
  BY DEF LookupsAssumption, Catv!ChainQueryAssumption
<1> DEFINE past == {k \in Nat : j <= k * chunk_size}
<1>2. past # {}
  <2>1. j <= j * chunk_size
    BY <1>1
  <2> QED
    BY <2>1
<1>3. PICK k \in past : \A m \in past : ~(m < k)
  <2>1. past \in SUBSET Nat
    OBVIOUS
  <2> HIDE DEF past
  <2> QED
    BY <1>2, <2>1, Smallest
<1>4. k \in Nat /\ j <= k * chunk_size
  OBVIOUS
<1>5. k # 0
  BY <1>1, <1>4
<1>6. k - 1 \in Nat /\ (k - 1) * chunk_size < j
  <2>1. k - 1 \in Nat /\ k - 1 < k /\ k - 1 \notin past
    <3>1. k - 1 \in Nat /\ k - 1 < k
      BY <1>4, <1>5
    <3> HIDE DEF past
    <3> QED
      BY <1>3, <3>1
  <2>2. (k - 1) * chunk_size \in Int
    BY <1>1, <2>1
  <2> QED
    BY <2>1, <2>2
<1> DEFINE m == (n + 1 + chunk_size - 1) \div chunk_size
<1>7. m \in Nat /\ n < m * chunk_size
  BY <1>1
<1>8. k - 1 < m
  <2> HIDE DEF m
  <2>1. (k - 1) * chunk_size < m * chunk_size
    BY <1>1, <1>4, <1>5, <1>6, <1>7
  <2> QED
    BY <1>1, <1>4, <1>6, <1>7, <2>1
<1>9. k \in 1..Catv!Chunks(n)
  BY <1>4, <1>5, <1>7, <1>8 DEF Catv!Chunks
<1> QED
  BY <1>1, <1>4, <1>5, <1>6, <1>9

\* SubSeq takes the places of a chunk, wherever the list ends.
LEMMA InItsChunk ==
  ASSUME LookupsAssumption, NEW n \in Nat, NEW S, NEW s \in [1..n -> S], NEW j \in 1..n, NEW k \in Nat \ {0},
         1 + (k - 1) * chunk_size <= j, j <= k * chunk_size
  PROVE  s[j] \in Catv!Range(Catv!Chunk(s, k))
<1> DEFINE first == 1 + (k - 1) * chunk_size
           last == Catv!Min({k * chunk_size, Len(s)})
<1>1. chunk_size \in Nat \ {0} /\ Len(s) = n /\ s \in Seq(S)
  BY DEF LookupsAssumption, Catv!ChainQueryAssumption
<1>2. first \in Nat /\ first >= 1 /\ k * chunk_size \in Nat
  BY <1>1
<1>3. last \in Nat /\ j <= last /\ last <= n
  <2> DEFINE c == k * chunk_size
  <2>1. \E x \in {c, n} : \A y \in {c, n} : x <= y
    BY <1>2
  <2>3. c \in Nat /\ j <= c /\ last = Catv!Min({c, n})
    BY <1>1, <1>2
  <2> HIDE DEF c, last
  <2>2. Catv!Min({c, n}) \in {c, n} /\ \A y \in {c, n} : Catv!Min({c, n}) <= y
    BY <2>1, Zenon DEF Catv!Min
  <2> QED
    BY <2>2, <2>3
<1>4. Catv!Chunk(s, k) = SubSeq(s, first, last)
  BY DEF Catv!Chunk
<1> HIDE DEF first, last
<1>5. \A i \in first..last : s[i] \in S
  BY <1>2, <1>3
<1>6. /\ SubSeq(s, first, last) \in Seq(S)
      /\ Len(SubSeq(s, first, last)) = last - first + 1
      /\ \A i \in 1..(last - first + 1) : SubSeq(s, first, last)[i] = s[first + i - 1]
  <2>1. first <= j
    BY DEF first
  <2> QED
    BY <1>2, <1>3, <1>5, <2>1, SubSeqProperties
<1>7. j - first + 1 \in 1..(last - first + 1) /\ first + (j - first + 1) - 1 = j
  BY <1>2, <1>3 DEF first
<1>8. DOMAIN SubSeq(s, first, last) = 1..(last - first + 1)
  BY <1>6
<1>9. SubSeq(s, first, last)[j - first + 1] = s[j]
  BY <1>6, <1>7
<1> QED
  BY <1>4, <1>7, <1>8, <1>9 DEF Catv!Range

\* All addresses are looked up, in whatever order and chunks.
LEMMA AllAreQueried ==
  ASSUME LookupsAssumption, NEW A, IsFiniteSet(A), NEW a \in A
  PROVE  \E k \in 1..Catv!Chunks(Len(Catv!SetToSeq(A))) : a \in Catv!Range(Catv!Chunk(Catv!SetToSeq(A), k))
<1> DEFINE n == Cardinality(A)
           s == Catv!SetToSeq(A)
<1>1. n \in Nat /\ ExistsBijection(1..n, A)
  BY FS_CardinalityType
<1>2. PICK g : g \in Bijection(1..n, A)
  BY <1>1 DEF ExistsBijection
<1>3. g \in [1..n -> A] /\ Catv!IsInjective(g)
  BY <1>2 DEF Bijection, Injection, Catv!IsInjective, IsInjective
<1>4. s = CHOOSE f \in [1..n -> A] : Catv!IsInjective(f)
  BY SameNumber DEF Catv!SetToSeq
<1>5. s \in [1..n -> A] /\ Catv!IsInjective(s)
  BY <1>3, <1>4, Zenon
<1> HIDE DEF s, n
<1>6. s \in Injection(1..n, A)
  BY <1>5 DEF Injection, Catv!IsInjective, IsInjective
<1>7. Cardinality(1..n) = n /\ n = Cardinality(A)
  <2>1. 1 \in Int /\ n \in Int
    BY <1>1
  <2> QED
    BY <1>1, <2>1, FS_Interval DEF n
<1>8. s \in Surjection(1..n, A)
  BY <1>6, <1>7, FS_Injection
<1>9. PICK j \in 1..n : s[j] = a
  BY <1>8 DEF Surjection
<1>10. Len(s) = n
  BY <1>1, <1>5
<1>11. PICK k \in 1..Catv!Chunks(n) : 1 + (k - 1) * chunk_size <= j /\ j <= k * chunk_size
  BY <1>1, ChunksCover
<1>12. k \in Nat \ {0}
  BY <1>11
<1>13. s[j] \in Catv!Range(Catv!Chunk(s, k))
  BY <1>1, <1>5, <1>11, <1>12, InItsChunk
<1> QED
  BY <1>9, <1>10, <1>11, <1>13 DEF s

\* An answer of a vendor, and what its flattening keeps of it.
LEMMA Answered ==
  ASSUME LookupsAssumption, NEW S, NEW n \in Nat, NEW i \in Catv!BoundedSeq(S, n)
  PROVE  i \in Seq(S)
BY DEF Catv!BoundedSeq, Catv!SeqOf

\* What is made of an answer, by either vendor, is made of its transactions.
LEMMA KeptOfAnswer ==
  ASSUME NEW i \in Seq(Catv!Items), NEW c
  PROVE  /\ Catv!Kept(i, {n \in DOMAIN i : i[n].receiver # "none"}) \in Seq(Catv!Items)
         /\ Catv!flatten_node(c, i) \in Seq(Catv!Items)
<1>1. /\ {n \in DOMAIN i : i[n].receiver # "none"} \in SUBSET (1..Len(i))
      /\ {n \in DOMAIN i : i[n].numeric /\ ~Catv!Coinbase(c, i[n])} \in SUBSET (1..Len(i))
  OBVIOUS
<1> QED
  BY <1>1, KeptElements DEF Catv!flatten_node

-----------------------------------------------------------------------------
(* The steps of CATV queries                                                *)

LEMMA CatvInit ==
  ASSUME LookupsAssumption, Catv!Init
  PROVE  Catv!IInv
<1>1. /\ catvRequest \in [chain : Chains, complete : BOOLEAN] /\ cause = "none"
      /\ ES_FLAG \in BOOLEAN /\ index \in [Addresses -> Catv!BoundedSeq(Catv!Docs, MaxDocs)]
      /\ phase = "start" /\ query = Catv!NoQuery /\ items = <<>> /\ rows = <<>> /\ answer = "none"
  BY DEF Catv!Init
<1>2. index \in [Addresses -> Seq(Catv!Docs)]
  <2>1. MaxDocs \in Nat
    BY DEF LookupsAssumption, Catv!ChainQueryAssumption
  <2>2. \A a \in Addresses : index[a] \in Seq(Catv!Docs)
    BY <1>1, <2>1, Answered
  <2> QED
    BY <1>1, <2>2
<1>3. Catv!TypeOK /\ Catv!QueryOK /\ Catv!PhaseOK
  BY <1>1 DEF Catv!TypeOK, Catv!QueryOK, Catv!PhaseOK
<1>4. Catv!OneUnannotatedTakesAll /\ Catv!NewestAnnotationIsShown
  BY <1>1 DEF Catv!OneUnannotatedTakesAll, Catv!NewestAnnotationIsShown
<1> QED
  BY <1>2, <1>3, <1>4 DEF Catv!IInv

\* What a step leaves alone.
LEMMA QueryStays ==
  ASSUME Catv!QueryOK, UNCHANGED <<catvRequest, query>>
  PROVE  Catv!QueryOK'
BY DEF Catv!QueryOK

\* The chains of the two templates without types, and no others, have rows without.
LEMMA TypesByTemplate ==
  ASSUME Catv!QueryOK, query # Catv!NoQuery
  PROVE  Catv!HasTypes(catvRequest.chain) <=> query \notin {"RIPPLE_STELLAR", "TERRA"}
BY DEF Catv!QueryOK, Catv!HasTypes, Catv!CHAIN_TEMPLATE_MAPPING

\* Without rows that are shown the properties hold.
LEMMA NotShown ==
  ASSUME Catv!IInv, UNCHANGED <<catvRequest, index>>, ES_FLAG' \in BOOLEAN, Catv!QueryOK',
         phase' \in {"start", "tracer", "bitquery", "annotate", "end"},
         answer' \in {"none", "invalid", "no_data", "server_error"},
         phase' # "end" => answer' = "none" /\ cause' = "none",
         cause' = "type" => query' \in {"RIPPLE_STELLAR", "TERRA"},
         phase' \in {"start", "tracer", "bitquery"} => items' = <<>> /\ rows' = <<>>,
         items' \in Seq(Catv!Items), rows' \in Seq(Catv!Items)
  PROVE  Catv!IInv'
<1>1. Catv!TypeOK'
  <2>1. \A i \in DOMAIN rows' : rows'[i] \in Catv!Items
    OBVIOUS
  <2>2. answer' # "data"
    OBVIOUS
  <2>3. (catvRequest \in [chain : Chains, complete : BOOLEAN])'
    BY DEF Catv!IInv, Catv!TypeOK
  <2>4. (items \in Seq(Catv!Items))' /\ (\A i \in DOMAIN rows : rows[i] \in Catv!Items)'
    BY <2>1 DEF Catv!Items
  <2> QED
    BY <2>2, <2>3, <2>4 DEF Catv!TypeOK
<1>2. Catv!PhaseOK'
  BY DEF Catv!PhaseOK, Catv!Items
<1>3. Catv!OneUnannotatedTakesAll'
  BY DEF Catv!OneUnannotatedTakesAll
<1>4. Catv!NewestAnnotationIsShown'
  BY DEF Catv!NewestAnnotationIsShown
<1>5. (index \in [Addresses -> Seq(Catv!Docs)])'
  BY DEF Catv!IInv, Catv!Docs
<1> QED
  BY <1>1, <1>2, <1>3, <1>4, <1>5 DEF Catv!IInv

\* The steps before the annotation: rows are those kept of the answer.
LEMMA CheckStep ==
  ASSUME LookupsAssumption, Catv!IInv, Catv!Check
  PROVE  Catv!IInv'
<1>1. /\ UNCHANGED <<catvRequest, ES_FLAG, index, query, items, rows>> /\ items = <<>> /\ rows = <<>>
      /\ phase = "start" /\ answer = "none" /\ cause = "none" /\ Catv!QueryOK /\ ES_FLAG \in BOOLEAN
  BY DEF Catv!Check, Catv!IInv, Catv!PhaseOK, Catv!TypeOK
<1>2. /\ phase' \in {"tracer", "end"} /\ answer' \in {"none", "invalid", "no_data"}
      /\ (phase' # "end" => answer' = "none" /\ cause' = "none") /\ cause' # "type"
  BY <1>1 DEF Catv!Check, Catv!Reply, Catv!Continue
<1>3. Catv!QueryOK'
  BY <1>1, QueryStays
<1>4. items' \in Seq(Catv!Items) /\ rows' \in Seq(Catv!Items)
  BY <1>1
<1> QED
  BY <1>1, <1>2, <1>3, <1>4, NotShown

LEMMA AskTracerStep ==
  ASSUME LookupsAssumption, Catv!IInv, Catv!AskTracer
  PROVE  Catv!IInv'
<1>1. /\ UNCHANGED <<catvRequest, ES_FLAG, index, query>> /\ items = <<>> /\ rows = <<>>
      /\ phase = "tracer" /\ answer = "none" /\ cause = "none" /\ Catv!QueryOK /\ ES_FLAG \in BOOLEAN
  BY DEF Catv!AskTracer, Catv!IInv, Catv!PhaseOK, Catv!TypeOK
<1>2. Catv!QueryOK'
  BY <1>1, QueryStays
<1>3. CASE Catv!Continue("bitquery") /\ UNCHANGED <<items, rows>>
  <2>1. phase' = "bitquery" /\ answer' = "none" /\ cause' = "none"
    BY <1>1, <1>3 DEF Catv!Continue
  <2>2. items' \in Seq(Catv!Items) /\ rows' \in Seq(Catv!Items) /\ items' = <<>> /\ rows' = <<>>
    BY <1>1, <1>3
  <2> QED
    BY <1>1, <1>2, <2>1, <2>2, NotShown
<1>4. CASE /\ \E i \in Catv!BoundedSeq(Catv!Items, MaxItems) \ {<<>>} :
                items' = i /\ rows' = Catv!Kept(i, {n \in DOMAIN i : i[n].receiver # "none"})
           /\ Catv!Continue("annotate")
  <2>1. phase' = "annotate" /\ answer' = "none" /\ cause' = "none"
    BY <1>1, <1>4 DEF Catv!Continue
  <2>2. PICK i \in Catv!BoundedSeq(Catv!Items, MaxItems) :
          items' = i /\ rows' = Catv!Kept(i, {n \in DOMAIN i : i[n].receiver # "none"})
    BY <1>4
  <2>3. i \in Seq(Catv!Items)
    BY Answered DEF LookupsAssumption, Catv!ChainQueryAssumption
  <2>4. rows' \in Seq(Catv!Items)
    BY <2>2, <2>3, KeptOfAnswer
  <2> QED
    BY <1>1, <1>2, <2>1, <2>2, <2>3, <2>4, NotShown
<1> QED
  BY <1>3, <1>4 DEF Catv!AskTracer

LEMMA AskBitqueryStep ==
  ASSUME LookupsAssumption, Catv!IInv, Catv!AskBitquery
  PROVE  Catv!IInv'
<1>1. /\ UNCHANGED <<catvRequest, ES_FLAG, index>> /\ items = <<>> /\ rows = <<>>
      /\ phase = "bitquery" /\ answer = "none" /\ cause = "none" /\ Catv!QueryOK /\ ES_FLAG \in BOOLEAN
  BY DEF Catv!AskBitquery, Catv!IInv, Catv!PhaseOK, Catv!TypeOK
<1>2. ASSUME items' = items, rows' = rows
      PROVE  items' \in Seq(Catv!Items) /\ rows' \in Seq(Catv!Items)
  BY <1>1, <1>2
<1>3. CASE catvRequest.chain \notin DOMAIN Catv!CHAIN_TEMPLATE_MAPPING
  <2>1. Catv!Continue("annotate") /\ UNCHANGED <<query, items, rows>>
    BY <1>3 DEF Catv!AskBitquery
  <2>2. phase' = "annotate" /\ answer' = "none" /\ cause' = "none" /\ Catv!QueryOK'
    BY <1>1, <2>1, QueryStays DEF Catv!Continue
  <2>3. items' \in Seq(Catv!Items) /\ rows' \in Seq(Catv!Items)
    BY <1>2, <2>1
  <2> QED
    BY <1>1, <2>2, <2>3, NotShown
<1>4. CASE catvRequest.chain \in DOMAIN Catv!CHAIN_TEMPLATE_MAPPING
  <2>1. query' = Catv!CHAIN_TEMPLATE_MAPPING[catvRequest.chain]
    BY <1>4 DEF Catv!AskBitquery
  <2>2. Catv!QueryOK'
    BY <1>1, <1>4, <2>1 DEF Catv!QueryOK, Catv!CHAIN_TEMPLATE_MAPPING
  <2>3. CASE /\ \/ Catv!Reply("server_error", "vendor")
                \/ Catv!Reply("no_data", "vendor")
             /\ UNCHANGED <<items, rows>>
    <3>1. phase' = "end" /\ answer' \in {"server_error", "no_data"} /\ cause' = "vendor"
      BY <2>3 DEF Catv!Reply
    <3>2. items' \in Seq(Catv!Items) /\ rows' \in Seq(Catv!Items)
      BY <1>2, <2>3
    <3> QED
      BY <1>1, <2>2, <3>1, <3>2, NotShown
  <2>4. CASE /\ \E i \in Catv!BoundedSeq(Catv!Items, MaxItems) :
                  items' = i /\ rows' = Catv!flatten_node(catvRequest.chain, i)
             /\ Catv!Continue("annotate")
    <3>1. phase' = "annotate" /\ answer' = "none" /\ cause' = "none"
      BY <1>1, <2>4 DEF Catv!Continue
    <3>2. PICK i \in Catv!BoundedSeq(Catv!Items, MaxItems) :
             items' = i /\ rows' = Catv!flatten_node(catvRequest.chain, i)
      BY <2>4
    <3>3. i \in Seq(Catv!Items)
      BY Answered DEF LookupsAssumption, Catv!ChainQueryAssumption
    <3>4. rows' \in Seq(Catv!Items)
      BY <3>2, <3>3, KeptOfAnswer
    <3> QED
      BY <1>1, <2>2, <3>1, <3>2, <3>3, <3>4, NotShown
  <2> QED
    BY <1>4, <2>3, <2>4 DEF Catv!AskBitquery
<1> QED
  BY <1>3, <1>4

\* What either lookup knows: one of the documents, and of an address of a row the
\* newest, if the documents come in order or there is only one.
Knows(known) ==
  /\ \A a \in Addresses \cup {"none"} : known[a] \in Catv!Docs
  /\ \A a \in Addresses : a \in Catv!AddressSet /\ index[a] # <<>> /\ (ES_FLAG' \/ Len(index[a]) = 1)
                          => known[a] = Catv!Last(index[a])

LEMMA Lookup ==
  ASSUME LookupsAssumption, Catv!IInv, rows \in Seq(Catv!Items)
  PROVE  /\ Knows(Catv!fetch_annotations_from_es)
         /\ ~ES_FLAG' => \A known \in Catv!fetch_annotations_from_rpc : Knows(known)
<1>1. \A a \in Addresses : Catv!Winner(index[a]) \in Catv!Docs
  <2> SUFFICES ASSUME NEW a \in Addresses PROVE Catv!Winner(index[a]) \in Catv!Docs
    OBVIOUS
  <2>1. index[a] \in Seq(Catv!Docs)
    BY DEF Catv!IInv
  <2> QED
    BY <2>1 DEF Catv!Winner, Catv!Docs, Catv!Last
<1>2. "none" \in Catv!Docs /\ "none" \notin Addresses
  BY DEF Catv!Docs, LookupsAssumption, Catv!ChainQueryAssumption
<1>3. IsFiniteSet(Catv!AddressSet)
  <2> DEFINE n == Len(rows)
             sender == [i \in 1..n |-> rows[i].sender]
             receiver == [i \in 1..n |-> rows[i].receiver]
             S == {rows[i].sender : i \in 1..n}
             T == {rows[i].receiver : i \in 1..n}
  <2>1. IsFiniteSet(1..n) /\ n \in Nat /\ DOMAIN rows = 1..n
    <3>1. 1 \in Int /\ n \in Int /\ n \in Nat /\ DOMAIN rows = 1..n
      OBVIOUS
    <3> QED
      BY <3>1, FS_Interval
  <2>2. sender \in Surjection(1..n, S) /\ receiver \in Surjection(1..n, T)
    BY DEF Surjection
  <2>3. IsFiniteSet(S)
    <3> HIDE DEF S, sender, n
    <3> QED
      BY <2>1, <2>2, FS_Surjection
  <2>4. IsFiniteSet(T)
    <3> HIDE DEF T, receiver, n
    <3> QED
      BY <2>1, <2>2, FS_Surjection
  <2>5. Catv!AddressSet = S \cup T
    BY <2>1 DEF Catv!AddressSet
  <2> HIDE DEF S, T
  <2> QED
    BY <2>3, <2>4, <2>5, FS_Union
<1>4. ASSUME ~ES_FLAG', NEW known \in Catv!fetch_annotations_from_rpc PROVE Knows(known)
  <2>1. /\ known \in [Addresses \cup {"none"} -> Catv!Docs]
        /\ \A a \in Addresses : a \in Catv!AddressSet /\ index[a] # <<>> => known[a] \in Catv!Range(index[a])
    BY <1>2 DEF Catv!fetch_annotations_from_rpc
  <2>2. ASSUME NEW a \in Addresses, a \in Catv!AddressSet, Len(index[a]) = 1
        PROVE  known[a] = Catv!Last(index[a])
    <3>1. index[a] \in Seq(Catv!Docs)
      BY DEF Catv!IInv
    <3>2. index[a] # <<>> /\ DOMAIN index[a] = {1}
      <4>1. DOMAIN index[a] = 1..Len(index[a])
        BY <3>1
      <4>2. 1..1 = {1}
        OBVIOUS
      <4>3. DOMAIN index[a] = {1}
        BY <2>2, <4>1, <4>2
      <4>4. ASSUME index[a] = <<>> PROVE FALSE
        <5>1. Len(<<>>) = 0
          OBVIOUS
        <5>2. Len(index[a]) = 0
          BY <4>4, <5>1
        <5>3. 0 # 1
          OBVIOUS
        <5> QED
          BY <2>2, <5>2, <5>3, Zenon
      <4> QED
        BY <4>3, <4>4
    <3>3. Catv!Range(index[a]) = {index[a][1]} /\ Catv!Last(index[a]) = index[a][1]
      BY <2>2, <3>2 DEF Catv!Range, Catv!Last
    <3> QED
      BY <2>1, <2>2, <3>2, <3>3
  <2> QED
    BY <1>4, <2>1, <2>2 DEF Knows
<1>5. Knows(Catv!fetch_annotations_from_es)
  <2> DEFINE addresses == Catv!SetToSeq(Catv!AddressSet)
             queried == UNION {Catv!Range(Catv!Chunk(addresses, k)) : k \in 1..Catv!Chunks(Len(addresses))}
  <2>1. Catv!fetch_annotations_from_es =
           [a \in Addresses \cup {"none"} |->
               IF a \in queried /\ a # "none" THEN Catv!Winner(index[a]) ELSE "none"]
    BY DEF Catv!fetch_annotations_from_es
  <2>2. \A a \in Catv!AddressSet : a \in queried
    <3> SUFFICES ASSUME NEW a \in Catv!AddressSet PROVE a \in queried
      OBVIOUS
    <3>1. PICK k \in 1..Catv!Chunks(Len(addresses)) : a \in Catv!Range(Catv!Chunk(addresses, k))
      BY <1>3, AllAreQueried
    <3> HIDE DEF addresses
    <3> QED
      BY <3>1
  <2> HIDE DEF queried
  <2> QED
    BY <1>1, <1>2, <2>1, <2>2 DEF Knows, Catv!Winner
<1> QED
  BY <1>4, <1>5

\* The annotation keeps the rows and their addresses.
LEMMA AnnotateStep ==
  ASSUME LookupsAssumption, Catv!IInv, Catv!Annotate
  PROVE  Catv!IInv'
<1>1. /\ UNCHANGED <<catvRequest, index, query, items>> /\ ES_FLAG' \in BOOLEAN
      /\ phase = "annotate" /\ answer = "none" /\ Catv!QueryOK /\ rows \in Seq(Catv!Items)
      /\ items \in Seq(Catv!Items)
  BY DEF Catv!Annotate, Catv!IInv, Catv!PhaseOK, Catv!TypeOK
<1>2. Catv!QueryOK'
  BY <1>1, QueryStays
<1>3. PICK known : /\ Knows(known)
                   /\ \/ /\ phase' = "end" /\ answer' = "no_data" /\ UNCHANGED rows
                         /\ cause' = "type" => Catv!LacksType(known)
                      \/ /\ rows' = Catv!annotate_transactions(known) /\ ~Catv!LacksType(known)
                         /\ phase' = "end" /\ answer' = "data" /\ cause' = "none"
  <2>1. PICK known \in IF ES_FLAG' THEN {Catv!fetch_annotations_from_es} ELSE Catv!fetch_annotations_from_rpc :
          \/ /\ phase' = "end" /\ answer' = "no_data" /\ UNCHANGED rows
             /\ cause' = "type" => Catv!LacksType(known)
          \/ /\ rows' = Catv!annotate_transactions(known) /\ ~Catv!LacksType(known)
             /\ phase' = "end" /\ answer' = "data" /\ cause' = "none"
    BY DEF Catv!Annotate, Catv!Reply
  <2>2. Knows(known)
    BY <1>1, <2>1, Lookup
  <2> QED
    BY <2>1, <2>2
<1>4. CASE answer' = "no_data" /\ UNCHANGED rows
  <2>1. cause' = "type" => query' \in {"RIPPLE_STELLAR", "TERRA"}
    BY <1>1, <1>3, <1>4, TypesByTemplate DEF Catv!LacksType
  <2> QED
    BY <1>1, <1>2, <1>3, <1>4, <2>1, NotShown
<1>5. CASE rows' = Catv!annotate_transactions(known) /\ answer' = "data"
  <2> DEFINE Row(i) ==
               [sender |-> rows[i].sender, receiver |-> rows[i].receiver,
                sender_annotation |-> Catv!Annotated(known, rows[i].sender, rows[i]),
                receiver_annotation |-> Catv!Annotated(known, rows[i].receiver, rows[i])]
  <2>1. rows' = [i \in 1..Len(rows) |-> Row(i)] /\ Len(rows) \in Nat
    BY <1>1, <1>5 DEF Catv!annotate_transactions
  <2>2. DOMAIN rows' = 1..Len(rows) /\ Len(rows') = Len(rows) /\ \A i \in 1..Len(rows) : rows'[i] = Row(i)
    BY <2>1
  <2>3. ASSUME NEW i \in 1..Len(rows)
        PROVE  /\ rows[i].sender \in Addresses /\ rows[i].sender \in Catv!AddressSet
               /\ rows[i].receiver \in Addresses \cup {"none"} /\ rows[i].receiver \in Catv!AddressSet
    <3>1. rows[i] \in Catv!Items /\ i \in DOMAIN rows
      BY <1>1
    <3> QED
      BY <3>1 DEF Catv!Items, Catv!AddressSet
  <2>4. ASSUME NEW i \in 1..Len(rows)
        PROVE  {rows'[i].sender_annotation, rows'[i].receiver_annotation} \subseteq Catv!Docs \cup {"dex"}
    BY <1>3, <2>2, <2>3 DEF Knows, Catv!Annotated, Catv!Docs
  <2>5. Catv!TypeOK'
    <3>1. (catvRequest \in [chain : Chains, complete : BOOLEAN])'
      BY <1>1 DEF Catv!IInv, Catv!TypeOK
    <3>2. (items \in Seq(Catv!Items))'
      BY <1>1 DEF Catv!Items
    <3>3. \A i \in DOMAIN rows' :
            {rows'[i].sender_annotation, rows'[i].receiver_annotation} \subseteq (Catv!Docs \cup {"dex"})'
      BY <2>2, <2>4 DEF Catv!Docs
    <3> QED
      BY <1>1, <1>3, <1>5, <3>1, <3>2, <3>3 DEF Catv!TypeOK
  <2>6. Catv!PhaseOK'
    BY <1>3, <1>5 DEF Catv!PhaseOK
  <2>7. Catv!OneUnannotatedTakesAll'
    <3> SUFFICES ASSUME query \in {"RIPPLE_STELLAR", "TERRA"}, NEW i \in DOMAIN rows'
                 PROVE  "none" \notin {rows'[i].sender_annotation, rows'[i].receiver_annotation}
      BY <1>1, <1>3, <1>5 DEF Catv!OneUnannotatedTakesAll
    <3>1. i \in 1..Len(rows) /\ rows'[i] = Row(i) /\ i \in DOMAIN rows
      BY <1>1, <2>2
    <3>2. ~Catv!HasTypes(catvRequest.chain) /\ query # Catv!NoQuery
      BY <1>1, TypesByTemplate DEF Catv!NoQuery
    <3>3. known[rows[i].sender] # "none" /\ known[rows[i].receiver] # "none"
      BY <1>3, <1>5, <3>1, <3>2 DEF Catv!LacksType
    <3> QED
      BY <3>1, <3>3 DEF Catv!Annotated
  <2>8. Catv!NewestAnnotationIsShown'
    <3> SUFFICES ASSUME NEW i \in DOMAIN rows', NEW a \in Addresses,
                        index[a] # <<>>, Catv!Last(index[a]) # "none", ES_FLAG' \/ Len(index[a]) = 1
                 PROVE  /\ rows'[i].sender = a => rows'[i].sender_annotation = Catv!Last(index[a])
                        /\ rows'[i].receiver = a => rows'[i].receiver_annotation = Catv!Last(index[a])
      BY <1>1 DEF Catv!NewestAnnotationIsShown, Catv!Last
    <3>1. i \in 1..Len(rows) /\ rows'[i] = Row(i)
      BY <2>2
    <3>2. a \in Catv!AddressSet => known[a] = Catv!Last(index[a])
      BY <1>3 DEF Knows
    <3>3. a \in Catv!AddressSet => Catv!Annotated(known, a, rows[i]) = Catv!Last(index[a])
      BY <3>2 DEF Catv!Annotated
    <3> QED
      BY <2>3, <3>1, <3>3
  <2>9. (index \in [Addresses -> Seq(Catv!Docs)])'
    BY <1>1 DEF Catv!IInv, Catv!Docs
  <2> QED
    BY <1>2, <2>5, <2>6, <2>7, <2>8, <2>9 DEF Catv!IInv
<1> QED
  BY <1>3, <1>4, <1>5

LEMMA CatvStep ==
  ASSUME LookupsAssumption, Catv!IInv, [Catv!Next]_(Catv!vars)
  PROVE  Catv!IInv'
<1>1. CASE UNCHANGED Catv!vars
  <2>1. UNCHANGED <<catvRequest, ES_FLAG, index, phase, query, items, rows, answer, cause>>
    BY <1>1 DEF Catv!vars
  <2>2. Catv!QueryOK'
    BY <2>1, QueryStays DEF Catv!IInv
  <2>3. Catv!TypeOK' /\ Catv!PhaseOK'
    BY <2>1 DEF Catv!IInv, Catv!TypeOK, Catv!PhaseOK, Catv!Items, Catv!Docs
  <2>4. Catv!OneUnannotatedTakesAll' /\ Catv!NewestAnnotationIsShown'
    BY <2>1 DEF Catv!IInv, Catv!OneUnannotatedTakesAll, Catv!NewestAnnotationIsShown, Catv!Last
  <2>5. (index \in [Addresses -> Seq(Catv!Docs)])'
    BY <2>1 DEF Catv!IInv, Catv!Docs
  <2> QED
    BY <2>2, <2>3, <2>4, <2>5 DEF Catv!IInv
<1> QED
  BY <1>1, CheckStep, AskTracerStep, AskBitqueryStep, AnnotateStep DEF Catv!Next

-----------------------------------------------------------------------------
(* The kinds together                                                       *)

LEMMA LookupsInitInv == LookupsInit => LookupsIInv
BY LookupsAssumption, CatvInit, CkInit, RecommendInit DEF LookupsInit, LookupsIInv

\* A step is of one kind and keeps that kind's invariant.
LEMMA LookupsStepInv == LookupsIInv /\ [LookupsNext]_lookupsVars => LookupsIInv'
<1> SUFFICES ASSUME LookupsIInv, [LookupsNext]_lookupsVars PROVE LookupsIInv'
  OBVIOUS
<1>1. kind \in {"catv", "ck", "recommend"}
  BY DEF LookupsIInv
<1>2. kind' = kind
  BY DEF LookupsNext, OfQuery, OfCk, OfRecommend, lookupsVars
<1>3. CASE kind = "catv"
  <2>1. [Catv!Next]_(Catv!vars)
    BY <1>3 DEF LookupsNext, OfQuery, OfCk, OfRecommend, lookupsVars, ofQuery, Catv!Next, Catv!vars
  <2>2. Catv!IInv'
    BY <1>3, <2>1, LookupsAssumption, CatvStep DEF LookupsIInv
  <2> QED
    BY <1>2, <1>3, <2>2 DEF LookupsIInv
<1>4. CASE kind = "ck"
  <2>1. [Ck!Next]_(Ck!vars)
    BY <1>4 DEF LookupsNext, OfQuery, OfCk, OfRecommend, lookupsVars, ofCk, Ck!Next, Ck!vars
  <2>2. Ck!IInv'
    BY <1>4, <2>1, LookupsAssumption, CkStep DEF LookupsIInv
  <2> QED
    BY <1>2, <1>4, <2>2 DEF LookupsIInv
<1>5. CASE kind = "recommend"
  <2>1. [Recommend!Next]_(Recommend!vars)
    BY <1>5 DEF LookupsNext, OfQuery, OfCk, OfRecommend, lookupsVars, ofRecommend, Recommend!Next, Recommend!vars
  <2>2. Recommend!IInv'
    BY <1>5, <2>1, LookupsAssumption, RecommendStep DEF LookupsIInv
  <2> QED
    BY <1>2, <1>5, <2>2 DEF LookupsIInv
<1> QED
  BY <1>1, <1>3, <1>4, <1>5

\* Every lookup keeps the invariant of its kind.
THEOREM LookupsInvariance == LookupsSpec => []LookupsIInv
<1> QED
  BY LookupsInitInv, LookupsStepInv, PTL DEF LookupsSpec

\* The state of every lookup is well typed.
THEOREM LookupsTyped == LookupsSpec => []LookupsTypesOK
<1>1. LookupsIInv => LookupsTypesOK
  BY CkTyped DEF LookupsIInv, LookupsTypesOK, Catv!IInv, Recommend!IInv
<1> QED
  BY <1>1, LookupsInvariance, PTL

\* Whatever the annotations, a lookup fails for want of a type only on the chains of
\* the two templates without types, and there every address shown is annotated.
THEOREM UnannotatedTakesItAll == LookupsSpec => []UnannotatedTakesAll
<1>1. LookupsIInv => UnannotatedTakesAll
  BY DEF LookupsIInv, UnannotatedTakesAll, Catv!IInv
<1> QED
  BY <1>1, LookupsInvariance, PTL

\* Rows show the newest annotation of their addresses, for any number of addresses
\* and any size of the chunks they are looked up in, where the answers come in order
\* or there is one indicator.
THEOREM NewestShown == LookupsSpec => []NewestAnnotationIsShown
<1>1. LookupsIInv => NewestAnnotationIsShown
  BY DEF LookupsIInv, NewestAnnotationIsShown, Catv!IInv
<1> QED
  BY <1>1, LookupsInvariance, PTL

\* On any chain of transfers, no shown transaction lies behind an exchange if one
\* vendor answered all there is.
THEOREM TrailsEndAtExchanges == LookupsSpec => []ExchangesEndTheTrail
<1>1. LookupsIInv => ExchangesEndTheTrail
  BY LookupsAssumption, TheTrailEnds DEF LookupsIInv, ExchangesEndTheTrail
<1> QED
  BY <1>1, LookupsInvariance, PTL

\* On any chain of transfers, the filters take away what they are for and no more:
\* what is missing shares its hash with a row behind an exchange, and an answer for
\* given transactions shows these and all that followed from them, and nothing that
\* shares no hash with a path of shown rows from them.
THEOREM FiltersCutNoMore == LookupsSpec => []TracesAreWhole
<1>1. LookupsIInv => TracesAreWhole
  BY LookupsAssumption, NothingElseIsCut, HashesAreFollowed DEF LookupsIInv, TracesAreWhole
<1> QED
  BY <1>1, LookupsInvariance, PTL

\* Of what the victim sent to the thief, an answer shows all that Bitquery found and
\* nothing the tracer traced, for any chain of transfers and swaps.
THEOREM VendorsTellTheVictims == LookupsSpec => []VictimsTransfersByVendor
<1>1. LookupsIInv => VictimsTransfersByVendor
  BY LookupsAssumption, SourceShown DEF LookupsIInv, VictimsTransfersByVendor
<1> QED
  BY <1>1, LookupsInvariance, PTL

\* A recommendation is made for an address of the chain asked about, and Ethereum is
\* asked in its place exactly for STABLE and for names that are not in capitals.
THEOREM RecommendationsFit == LookupsSpec => []RecommendationFits
<1>1. LookupsIInv => RecommendationFits
  BY TablesAgree, WhoAsksEthereum DEF LookupsIInv, RecommendationFits
<1> QED
  BY <1>1, LookupsInvariance, PTL

-----------------------------------------------------------------------------
(* The API key gate                                                         *)

USE DEF portal, store, request, meter, ledger, At, Goto, Answer, Quiet, Event

\* The steps of a call and those of everything else.
LEMMA NextSteps ==
  ASSUME Next
  PROVE  \/ \E c \in Calls : Begin(c) \/ Handle(c)
         \/ \E k \in Keys : PortalSpends(k) \/ Revoke(k) \/ KeyExpires(k)
         \/ NewWindow \/ RoleExpires
BY DEF Next

\* A call begins with one of the keys, passed in one of two ways, to one view, and
\* disturbs the key if another call of the key is on its way.
LEMMA BeginStep ==
  ASSUME NEW c \in Calls, Begin(c)
  PROVE  \E k \in Keys, w \in {"query", "header"}, e \in Endpoints :
           /\ key' = [key EXCEPT ![c] = k] /\ way' = [way EXCEPT ![c] = w] /\ view' = [view EXCEPT ![c] = e]
           /\ disturbed' = IF \E d \in Calls : Busy(d) /\ key[d] = k THEN disturbed \cup {k} ELSE disturbed
           /\ pc[c] = "idle" /\ pc' = [pc EXCEPT ![c] = "details"]
           /\ UNCHANGED <<balance, approved, cache, roles, count, own, seen, status, result, paid, refused, events>>
<1> QED BY DEF Begin

\* Whoever has a key has a counter.
LEMMA BucketOf == \A c \in Calls : key[c] \in Keys => Bucket(c) \in Buckets
BY DEF Bucket, Buckets

-----------------------------------------------------------------------------
(* Types, and what a call has established                                   *)

\* Outside steps leave the calls alone.
LEMMA OutsideKeeps ==
  ASSUME IInv, (\E k \in Keys : PortalSpends(k) \/ Revoke(k) \/ KeyExpires(k)) \/ NewWindow \/ RoleExpires
  PROVE  TypeOK' /\ \A c \in Calls : CallOK(c)'
<1> USE GateAssumption DEF TypeOK, IInv, Details
<1>1. \A c \in Calls : CallOK(c)'
  BY DEF PortalSpends, Revoke, KeyExpires, NewWindow, RoleExpires, CallOK, Informed, Unpaid
<1>2. ASSUME NEW k \in Keys, PortalSpends(k) PROVE TypeOK'
  <2>1. balance[k] - Cost \in 0..Credits
    BY <1>2 DEF PortalSpends
  <2> QED
    BY <1>2, <2>1 DEF PortalSpends
<1>3. ASSUME NEW k \in Keys, Revoke(k) PROVE TypeOK'
  BY <1>3 DEF Revoke
<1>4. ASSUME NEW k \in Keys, KeyExpires(k) PROVE TypeOK'
  BY <1>4 DEF KeyExpires
<1>5. CASE NewWindow
  BY <1>1, <1>5 DEF NewWindow
<1>6. CASE RoleExpires
  <2>1. roles' \in BOOLEAN
    BY <1>6 DEF RoleExpires
  <2>2. events' \in 0..MaxEvents
    BY <1>6 DEF RoleExpires
  <2> QED
    BY <1>1, <1>6, <2>1, <2>2 DEF RoleExpires
<1> QED
  BY <1>1, <1>2, <1>3, <1>4, <1>5, <1>6

\* A step of one call touches nothing of the others.
LEMMA OthersUntouched ==
  ASSUME IInv, NEW c \in Calls, Begin(c) \/ Handle(c), NEW d \in Calls \ {c}
  PROVE  /\ pc'[d] = pc[d] /\ status'[d] = status[d]
         /\ key'[d] = key[d] /\ way'[d] = way[d] /\ view'[d] = view[d] /\ seen'[d] = seen[d]
         /\ (d \in paid' <=> d \in paid) /\ refused \subseteq refused' /\ disturbed \subseteq disturbed'
<1> USE DEF TypeOK, IInv
<1>1. CASE Begin(c)
  <2> PICK k \in Keys, w \in {"query", "header"}, e \in Endpoints :
         /\ key' = [key EXCEPT ![c] = k] /\ way' = [way EXCEPT ![c] = w] /\ view' = [view EXCEPT ![c] = e]
         /\ disturbed' = IF \E x \in Calls : Busy(x) /\ key[x] = k THEN disturbed \cup {k} ELSE disturbed
         /\ pc[c] = "idle" /\ pc' = [pc EXCEPT ![c] = "details"]
         /\ UNCHANGED <<balance, approved, cache, roles, count, own, seen, status, result, paid, refused, events>>
    BY <1>1, BeginStep
  <2> QED
    OBVIOUS
<1>2. CASE LookUpDetails(c) \/ FetchDetails(c) \/ StoreDetails(c)
  BY <1>2 DEF LookUpDetails, FetchDetails, StoreDetails
<1>3. CASE validate_key(c) \/ get_rate(c) \/ is_ratelimited(c)
  BY <1>3 DEF validate_key, get_rate, is_ratelimited
<1>4. CASE CatvOutbound(c) \/ CatvInbound(c) \/ CatvSupportedNetworks(c) \/ ApiKeyInfo(c)
  BY <1>4 DEF CatvOutbound, CatvInbound, CatvSupportedNetworks, ApiKeyInfo, Gate
<1>5. CASE Query(c) \/ Charge(c) \/ DropDetails(c)
  BY <1>5 DEF Query, Charge, DropDetails, Finish
<1> QED
  BY <1>1, <1>2, <1>3, <1>4, <1>5 DEF Handle

\* So what holds of the others stays.
LEMMA OthersKeep ==
  ASSUME IInv, NEW c \in Calls, Begin(c) \/ Handle(c), NEW d \in Calls \ {c}
  PROVE  CallOK(d)'
BY OthersUntouched DEF IInv, CallOK, Informed, Unpaid

\* Every step of a call keeps the types, and what holds of that call.
LEMMA CallKeeps ==
  ASSUME IInv, NEW c \in Calls, Begin(c) \/ Handle(c)
  PROVE  TypeOK' /\ CallOK(c)'
<1> USE GateAssumption, BucketOf DEF TypeOK, IInv, CallOK, Informed, Unpaid, Steps, Metered
<1>1. CASE Begin(c)
  <2> PICK k \in Keys, w \in {"query", "header"}, e \in Endpoints :
         /\ key' = [key EXCEPT ![c] = k] /\ way' = [way EXCEPT ![c] = w] /\ view' = [view EXCEPT ![c] = e]
         /\ disturbed' = IF \E x \in Calls : Busy(x) /\ key[x] = k THEN disturbed \cup {k} ELSE disturbed
         /\ pc[c] = "idle" /\ pc' = [pc EXCEPT ![c] = "details"]
         /\ UNCHANGED <<balance, approved, cache, roles, count, own, seen, status, result, paid, refused, events>>
    BY <1>1, BeginStep
  <2>1. disturbed' \subseteq Keys
    OBVIOUS
  <2>2. TypeOK'
    BY <2>1
  <2>3. CallOK(c)'
    OBVIOUS
  <2> QED
    BY <2>2, <2>3
<1>2. CASE LookUpDetails(c)
  BY <1>2 DEF LookUpDetails
<1>3. CASE FetchDetails(c)
  <2>1. [credits |-> balance[key[c]], approved |-> key[c] \in approved] \in Details
    BY <1>3 DEF FetchDetails, Details
  <2> QED
    BY <1>3, <2>1 DEF FetchDetails
<1>4. CASE StoreDetails(c)
  BY <1>4 DEF StoreDetails
<1>5. CASE validate_key(c)
  BY <1>5 DEF validate_key
<1>6. CASE get_rate(c)
  <2>1. CASE At(c, "rate")
    <3>1. pc' = [pc EXCEPT ![c] = "count"] \/ pc' = [pc EXCEPT ![c] = "roles"]
      BY <1>6, <2>1 DEF get_rate
    <3>2. UNCHANGED <<balance, approved, cache, roles, count, own, key,
                     way, view, seen, status, result, paid, refused, disturbed, events>>
      BY <1>6, <2>1 DEF get_rate
    <3> QED
      BY <1>6, <2>1, <3>1, <3>2
  <2>2. CASE At(c, "roles")
    <3>1. roles' \in BOOLEAN
      BY <1>6, <2>2 DEF get_rate
    <3>2. /\ pc' = [pc EXCEPT ![c] = "free"]
          /\ UNCHANGED <<balance, approved, cache, count, own, key, way, view, seen, status,
                         result, paid, refused, disturbed, events>>
      BY <1>6, <2>2 DEF get_rate
    <3> QED
      BY <2>2, <3>1, <3>2
  <2> QED
    BY <1>6, <2>1, <2>2 DEF get_rate
<1>7. CASE is_ratelimited(c)
  BY <1>7 DEF is_ratelimited
<1>8. CASE CatvOutbound(c)
  BY <1>8 DEF CatvOutbound, Verified, Gate
<1>9. CASE CatvInbound(c)
  BY <1>9 DEF CatvInbound, Verified, Gate
<1>10. CASE CatvSupportedNetworks(c)
  BY <1>10 DEF CatvSupportedNetworks, Verified
<1>11. CASE ApiKeyInfo(c)
  BY <1>11 DEF ApiKeyInfo, Verified
<1>12. CASE Query(c)
  <2>1. /\ pc[c] = "query"
        /\ UNCHANGED <<balance, approved, cache, roles, count, own, key, way, view, seen, paid,
                       refused, disturbed, events>>
        /\ \/ \E r \in {"data", "error"} :
                 result' = [result EXCEPT ![c] = r] /\ pc' = [pc EXCEPT ![c] = "charge"] /\ status' = status
           \/ \E code \in {500} \cup (IF view[c] = "report" THEN {200} ELSE {}) :
                 /\ pc' = [pc EXCEPT ![c] = "done"] /\ status' = [status EXCEPT ![c] = code] /\ result' = result
    BY <1>12 DEF Query
  <2> QED
    BY <2>1
<1>13. CASE Charge(c)
  <2>0. /\ pc[c] = "charge" /\ key[c] \in Keys /\ seen[c].credits \in Nat /\ balance[key[c]] \in 0..Credits
        /\ UNCHANGED <<approved, cache, roles, count, own, key, way, view, seen, result, events>>
    BY <1>13 DEF Charge, Details
  <2>1. CASE /\ balance[key[c]] >= Cost /\ balance' = [balance EXCEPT ![key[c]] = @ - Cost]
             /\ paid' = paid \cup {c} /\ UNCHANGED refused
             /\ \/ Goto(c, "drop") /\ UNCHANGED disturbed
                \/ Answer(c, 500) /\ disturbed' = disturbed \cup {key[c]}
    <3>1. balance[key[c]] - Cost \in 0..Credits
      BY <2>0, <2>1
    <3> QED
      BY <2>0, <2>1, <3>1
  <2>2. CASE /\ refused' = IF balance[key[c]] >= Cost THEN refused \cup {c} ELSE refused
             /\ Finish(c) /\ UNCHANGED <<balance, paid, disturbed>>
    <3>1. view[c] \in {"outbound", "inbound"} => c \in refused' \/ key[c] \in disturbed
      <4>1. ASSUME key[c] \notin disturbed
            PROVE  seen[c].credits <= balance[key[c]]
        BY <2>0, <4>1 DEF KeyOK
      <4> QED
        BY <2>0, <2>2, <4>1
    <3>2. refused' \subseteq Calls
      BY <2>2
    <3> QED
      BY <2>0, <2>2, <3>1, <3>2 DEF Finish
  <2>3. CASE Answer(c, 500) /\ UNCHANGED <<balance, paid, refused, disturbed>>
    BY <2>0, <2>3
  <2> QED
    BY <1>13, <2>1, <2>2, <2>3 DEF Charge
<1>14. CASE DropDetails(c)
  <2>1. /\ pc[c] = "drop" /\ key[c] \in Keys
        /\ UNCHANGED <<balance, approved, roles, count, own, key, way, view, seen, result, paid, refused, events>>
    BY <1>14 DEF DropDetails
  <2>2. CASE cache' = [cache EXCEPT ![key[c]] = None] /\ Finish(c) /\ UNCHANGED disturbed
    <3>1. c \in paid
      BY <2>1
    <3> QED
      BY <2>1, <2>2, <3>1 DEF Finish
  <2>3. CASE Answer(c, 500) /\ disturbed' = disturbed \cup {key[c]} /\ UNCHANGED cache
    BY <2>1, <2>3
  <2> QED
    BY <1>14, <2>2, <2>3 DEF DropDetails
<1> QED
  BY <1>1, <1>2, <1>3, <1>4, <1>5, <1>6, <1>7, <1>8, <1>9, <1>10, <1>11, <1>12,
     <1>13, <1>14 DEF Handle

-----------------------------------------------------------------------------
(* What is known of undisturbed keys                                        *)

\* Outside steps only take what is known of a key away, or disturb it.
LEMMA OutsideSpares ==
  ASSUME IInv, (\E l \in Keys : PortalSpends(l) \/ Revoke(l) \/ KeyExpires(l)) \/ NewWindow \/ RoleExpires,
         NEW k \in Keys \ disturbed'
  PROVE  KeyOK(k)'
<1> USE DEF IInv, TypeOK
<1>1. KeyOK(k)
  BY DEF PortalSpends, Revoke, KeyExpires, NewWindow, RoleExpires
<1>2. /\ UNCHANGED <<pc, key, seen>> /\ balance'[k] = balance[k]
      /\ cache'[k] = cache[k] \/ cache'[k] = None
  BY DEF PortalSpends, Revoke, KeyExpires, NewWindow, RoleExpires
<1> QED
  BY <1>1, <1>2 DEF KeyOK, Informed, Busy

\* The steps of a call that leave balances and cache alone, and learn nothing.
LEMMA IdleSteps ==
  ASSUME IInv, NEW c \in Calls, Handle(c),
         ~LookUpDetails(c), ~FetchDetails(c), ~StoreDetails(c), ~Charge(c), ~DropDetails(c)
  PROVE  /\ UNCHANGED <<balance, cache, key, seen, disturbed>>
         /\ Informed(c) /\ ~At(c, "drop") /\ \A d \in Calls \ {c} : pc'[d] = pc[d]
<1> USE DEF IInv, TypeOK, Informed, Steps
<1>1. CASE validate_key(c)
  BY <1>1 DEF validate_key
<1>2. CASE get_rate(c)
  BY <1>2 DEF get_rate
<1>3. CASE is_ratelimited(c)
  BY <1>3 DEF is_ratelimited
<1>4. CASE CatvOutbound(c) \/ CatvInbound(c) \/ CatvSupportedNetworks(c) \/ ApiKeyInfo(c)
  BY <1>4 DEF CatvOutbound, CatvInbound, CatvSupportedNetworks, ApiKeyInfo, Verified, Gate
<1>5. CASE Query(c)
  BY <1>5 DEF Query
<1> QED
  BY <1>1, <1>2, <1>3, <1>4, <1>5 DEF Handle

\* A call that has begun on an undisturbed key is its only one, so what it reads and
\* stores is what the portal holds, and what it spends nobody else has seen.
LEMMA KeyKeeps ==
  ASSUME IInv, NEW c \in Calls, Begin(c) \/ Handle(c), NEW k \in Keys \ disturbed'
  PROVE  KeyOK(k)'
<1> USE GateAssumption DEF IInv, TypeOK, Steps, Details
<1>0. \A d \in Calls \ {c} : pc'[d] = pc[d] /\ key'[d] = key[d] /\ seen'[d] = seen[d]
  BY OthersUntouched
<1>1. KeyOK(k)
  <2>1. CASE Begin(c)
    <3>1. disturbed \subseteq disturbed'
      <4> PICK l \in Keys, w \in {"query", "header"}, e \in Endpoints :
             /\ key' = [key EXCEPT ![c] = l] /\ way' = [way EXCEPT ![c] = w] /\ view' = [view EXCEPT ![c] = e]
             /\ disturbed' = IF \E x \in Calls : Busy(x) /\ key[x] = l THEN disturbed \cup {l} ELSE disturbed
             /\ pc[c] = "idle" /\ pc' = [pc EXCEPT ![c] = "details"]
             /\ UNCHANGED <<balance, approved, cache, roles, count, own, seen, status, result, paid, refused, events>>
        BY <2>1, BeginStep
      <4> QED
        OBVIOUS
    <3> QED
      BY <3>1
  <2>2. CASE Handle(c)
    <3>1. disturbed' = disturbed \/ disturbed' = disturbed \cup {key[c]}
      BY <2>2 DEF Handle, LookUpDetails, FetchDetails, StoreDetails, validate_key, get_rate, is_ratelimited,
         CatvOutbound, CatvInbound, CatvSupportedNetworks, ApiKeyInfo, Query, Charge, DropDetails
    <3> QED
      BY <3>1
  <2> QED
    BY <2>1, <2>2
<1>2. CASE Begin(c)
  <2> PICK l \in Keys, w \in {"query", "header"}, e \in Endpoints :
         /\ key' = [key EXCEPT ![c] = l] /\ way' = [way EXCEPT ![c] = w] /\ view' = [view EXCEPT ![c] = e]
         /\ disturbed' = IF \E x \in Calls : Busy(x) /\ key[x] = l THEN disturbed \cup {l} ELSE disturbed
         /\ pc[c] = "idle" /\ pc' = [pc EXCEPT ![c] = "details"]
         /\ UNCHANGED <<balance, approved, cache, roles, count, own, seen, status, result, paid, refused, events>>
    BY <1>2, BeginStep
  <2>1. l = k => ~ \E x \in Calls : Busy(x) /\ key[x] = k
    OBVIOUS
  <2>2. \A x, y \in Calls : Busy(x)' /\ Busy(y)' /\ key'[x] = k /\ key'[y] = k => x = y
    BY <1>0, <1>1, <2>1 DEF KeyOK, Busy
  <2>3. \A x \in Calls : At(x, "drop") /\ key[x] = k => At(x, "drop")' /\ key'[x] = k
    BY <1>0
  <2>4. \A x \in Calls : Informed(x)' => Informed(x) /\ key'[x] = key[x] /\ seen'[x] = seen[x]
    BY <1>0 DEF Informed
  <2> QED
    BY <1>1, <2>2, <2>3, <2>4 DEF KeyOK
<1> SUFFICES ASSUME Handle(c) PROVE KeyOK(k)'
  BY <1>2
<1>3. key' = key /\ Busy(c)
  BY DEF Handle, Busy, LookUpDetails, FetchDetails, StoreDetails, validate_key, get_rate, is_ratelimited,
     CatvOutbound, CatvInbound, CatvSupportedNetworks, ApiKeyInfo, Verified, Query, Charge, DropDetails
<1>4. \A x, y \in Calls : Busy(x)' /\ Busy(y)' /\ key'[x] = k /\ key'[y] = k => x = y
  BY <1>0, <1>1, <1>3 DEF KeyOK, Busy
<1>5. key[c] = k => \A d \in Calls \ {c} : ~(Busy(d) /\ key[d] = k)
  BY <1>1, <1>3 DEF KeyOK
<1>6. \A d \in Calls : At(d, "drop") \/ Informed(d) => Busy(d)
  BY DEF Busy, Informed
<1>7. CASE LookUpDetails(c)
  <2>1. pc[c] = "details" /\ UNCHANGED <<balance, cache>>
    BY <1>7 DEF LookUpDetails
  <2>2. Informed(c)' => cache[key[c]] # None /\ seen'[c] = cache[key[c]]
    BY <1>7 DEF LookUpDetails, Informed
  <2>3. ASSUME key[c] = k, cache[k] # None PROVE cache[k].credits <= balance[k]
    <3>1. ~ \E d \in Calls : At(d, "drop") /\ key[d] = k
      BY <1>5, <1>6, <2>1, <2>3
    <3>2. cache[k].credits \in Nat /\ balance[k] \in Nat
      BY <2>3
    <3> QED
      BY <1>1, <2>3, <3>1, <3>2 DEF KeyOK
  <2>4. \A x \in Calls : Informed(x)' /\ key'[x] = k => seen'[x].credits <= balance'[k]
    BY <1>0, <1>1, <1>3, <2>1, <2>2, <2>3 DEF KeyOK, Informed
  <2>5. cache'[k] # None /\ cache'[k].credits > balance'[k] => \E x \in Calls : At(x, "drop")' /\ key'[x] = k
    BY <1>0, <1>1, <1>3, <2>1 DEF KeyOK
  <2> QED
    BY <1>4, <2>4, <2>5 DEF KeyOK
<1>8. CASE FetchDetails(c)
  <2>1. pc[c] = "fetch" /\ UNCHANGED <<balance, cache>>
    BY <1>8 DEF FetchDetails
  <2>2. Informed(c)' => seen'[c] = [credits |-> balance[key[c]], approved |-> key[c] \in approved]
    BY <1>8 DEF FetchDetails, Informed
  <2>3. key[c] = k /\ Informed(c)' => seen'[c].credits <= balance[k]
    <3>1. balance[k] \in Nat
      OBVIOUS
    <3> QED
      BY <2>2, <3>1
  <2>4. \A x \in Calls : Informed(x)' /\ key'[x] = k => seen'[x].credits <= balance'[k]
    BY <1>0, <1>1, <1>3, <2>1, <2>3 DEF KeyOK, Informed
  <2>5. cache'[k] # None /\ cache'[k].credits > balance'[k] => \E x \in Calls : At(x, "drop")' /\ key'[x] = k
    BY <1>0, <1>1, <1>3, <2>1 DEF KeyOK
  <2> QED
    BY <1>4, <2>4, <2>5 DEF KeyOK
<1>9. CASE StoreDetails(c)
  <2>1. pc[c] = "store" /\ UNCHANGED <<balance, seen>> /\ cache' = [cache EXCEPT ![key[c]] = seen[c]]
        /\ Informed(c) /\ key[c] \in Keys
    BY <1>9 DEF StoreDetails, Informed, CallOK
  <2>2. \A x \in Calls : Informed(x)' /\ key'[x] = k => seen'[x].credits <= balance'[k]
    BY <1>0, <1>1, <1>3, <2>1 DEF KeyOK, Informed
  <2>3. cache'[k] # None /\ cache'[k].credits > balance'[k] => \E x \in Calls : At(x, "drop")' /\ key'[x] = k
    <3>1. CASE key[c] = k
      <4>1. cache'[k] = seen[c] /\ seen[c].credits <= balance[k]
        BY <1>1, <2>1, <3>1 DEF KeyOK
      <4>2. seen[c].credits \in Nat /\ balance[k] \in Nat
        BY <2>1 DEF CallOK
      <4> QED
        BY <2>1, <4>1, <4>2
    <3>2. CASE key[c] # k
      BY <1>0, <1>1, <1>3, <2>1, <3>2 DEF KeyOK
    <3> QED
      BY <3>1, <3>2
  <2> QED
    BY <1>4, <2>2, <2>3 DEF KeyOK
<1>10. CASE Charge(c)
  <2>1. /\ pc[c] = "charge" /\ UNCHANGED <<cache, seen>> /\ key[c] \in Keys
        /\ \/ balance' = [balance EXCEPT ![key[c]] = @ - Cost] /\ (pc'[c] = "drop" \/ key[c] \in disturbed')
           \/ balance' = balance
        /\ ~Informed(c)'
    BY <1>10 DEF Charge, Finish, Informed, CallOK
  <2>2. \A x \in Calls : Informed(x)' /\ key'[x] = k => seen'[x].credits <= balance'[k]
    <3>1. ASSUME NEW x \in Calls, Informed(x)', key'[x] = k PROVE seen'[x].credits <= balance'[k]
      <4>1. x # c /\ Informed(x) /\ Busy(x) /\ key[x] = k
        BY <1>0, <1>3, <1>6, <2>1, <3>1 DEF Informed
      <4>2. key[c] # k
        BY <1>5, <4>1
      <4> QED
        BY <1>1, <2>1, <4>1, <4>2 DEF KeyOK
    <3> QED
      BY <3>1
  <2>3. cache'[k] # None /\ cache'[k].credits > balance'[k] => \E x \in Calls : At(x, "drop")' /\ key'[x] = k
    <3>1. CASE key[c] = k /\ balance' # balance
      BY <1>3, <2>1, <3>1
    <3>2. CASE key[c] # k \/ balance' = balance
      BY <1>0, <1>1, <1>3, <2>1, <3>2 DEF KeyOK
    <3> QED
      BY <3>1, <3>2
  <2> QED
    BY <1>4, <2>2, <2>3 DEF KeyOK
<1>11. CASE DropDetails(c)
  <2>1. /\ pc[c] = "drop" /\ UNCHANGED <<balance, seen>> /\ key[c] \in Keys /\ pc'[c] = "done"
        /\ \/ cache' = [cache EXCEPT ![key[c]] = None]
           \/ cache' = cache /\ key[c] \in disturbed'
    BY <1>11 DEF DropDetails, Finish, CallOK
  <2>2. \A x \in Calls : Informed(x)' /\ key'[x] = k => seen'[x].credits <= balance'[k]
    BY <1>0, <1>1, <1>3, <2>1 DEF KeyOK, Informed
  <2>3. cache'[k] # None /\ cache'[k].credits > balance'[k] => \E x \in Calls : At(x, "drop")' /\ key'[x] = k
    <3>1. CASE key[c] = k
      BY <2>1, <3>1
    <3>2. CASE key[c] # k
      BY <1>0, <1>1, <1>3, <2>1, <3>2 DEF KeyOK
    <3> QED
      BY <3>1, <3>2
  <2> QED
    BY <1>4, <2>2, <2>3 DEF KeyOK
<1>12. CASE ~LookUpDetails(c) /\ ~FetchDetails(c) /\ ~StoreDetails(c) /\ ~Charge(c) /\ ~DropDetails(c)
  <2>1. /\ UNCHANGED <<balance, cache, key, seen>> /\ Informed(c) /\ ~At(c, "drop")
        /\ \A d \in Calls \ {c} : pc'[d] = pc[d]
    BY <1>12, IdleSteps
  <2>2. \A x \in Calls : Informed(x)' => Informed(x)
    BY <2>1 DEF Informed
  <2>3. \A x \in Calls : At(x, "drop") => At(x, "drop")'
    BY <2>1
  <2> QED
    BY <1>1, <1>4, <2>1, <2>2, <2>3 DEF KeyOK
<1> QED
  BY <1>7, <1>8, <1>9, <1>10, <1>11, <1>12

-----------------------------------------------------------------------------
(* The counters                                                             *)

\* Only the limit counts, a call of its key and one of its bucket at a time.
LEMMA MeterKeeps == IInv /\ Next => MeterOK'
<1> SUFFICES ASSUME IInv, Next PROVE MeterOK'
  OBVIOUS
<1> USE DEF IInv
<1>1. ASSUME NEW c \in Calls, is_ratelimited(c) PROVE MeterOK'
  <2> DEFINE b == Bucket(c)
  <2>1. b \in Buckets /\ key[c] \in Keys /\ (b \in Keys => b = key[c])
    BY <1>1, BucketOf, GateAssumption DEF is_ratelimited, CallOK, Bucket
  <2>2. count' = [count EXCEPT ![b] = @ + 1] /\ own' = [own EXCEPT ![key[c]] = @ + 1]
    BY <1>1 DEF is_ratelimited
  <2>3. ASSUME NEW k \in Keys PROVE count'[k] <= own'[k]
    <3>1. count[k] \in Nat /\ own[k] \in Nat /\ count[k] <= own[k]
      BY DEF TypeOK, MeterOK, Buckets
    <3> QED
      BY <2>1, <2>2, <3>1 DEF TypeOK, Buckets
  <2> QED
    BY <2>3 DEF MeterOK
<1>2. ASSUME NewWindow PROVE MeterOK'
  BY <1>2 DEF NewWindow, MeterOK, Buckets
<1>3. ASSUME NEW c \in Calls, Begin(c) \/ Handle(c), ~is_ratelimited(c)
      PROVE  UNCHANGED meter
  BY <1>3 DEF Begin, Handle, LookUpDetails, FetchDetails, StoreDetails, validate_key, get_rate,
       CatvOutbound, CatvInbound, CatvSupportedNetworks, ApiKeyInfo, Query, Charge, DropDetails
<1>4. ASSUME NEW k \in Keys, PortalSpends(k) \/ Revoke(k) \/ KeyExpires(k) PROVE UNCHANGED meter
  BY <1>4 DEF PortalSpends, Revoke, KeyExpires
<1>5. ASSUME RoleExpires PROVE UNCHANGED meter
  BY <1>5 DEF RoleExpires
<1>6. UNCHANGED meter => MeterOK'
  BY DEF MeterOK
<1> QED
  BY <1>1, <1>2, <1>3, <1>4, <1>5, <1>6, NextSteps

-----------------------------------------------------------------------------
(* The theorems                                                             *)

\* Nothing has happened yet.
LEMMA InitInv == Init => IInv
<1> SUFFICES ASSUME Init PROVE IInv
  OBVIOUS
<1>1. TypeOK
  <2>1. roles \in BOOLEAN
    BY DEF Init
  <2> QED
    BY <2>1, GateAssumption DEF Init, TypeOK, Steps
<1>2. ASSUME NEW k \in Keys PROVE count[k] = 0 /\ own[k] = 0 /\ cache[k] = None
  BY DEF Init, Buckets
<1>3. ASSUME NEW c \in Calls PROVE pc[c] = "idle" /\ status[c] = None
  BY DEF Init
<1>4. MeterOK
  <2>1. ASSUME NEW k \in Keys PROVE count[k] <= own[k]
    BY <1>2
  <2> QED
    BY <2>1, Zenon DEF MeterOK
<1>5. ASSUME NEW c \in Calls PROVE CallOK(c)
  BY <1>3, GateAssumption DEF CallOK, Informed, Unpaid
<1>6. ASSUME NEW k \in Keys PROVE KeyOK(k)
  BY <1>2, <1>3 DEF KeyOK, Informed, Busy
<1> QED
  BY <1>1, <1>4, <1>5, <1>6 DEF IInv

\* The lemmas above together.
LEMMA StepInv == IInv /\ [Next]_vars => IInv'
<1> SUFFICES ASSUME IInv, [Next]_vars PROVE IInv'
  OBVIOUS
<1>1. CASE UNCHANGED vars
  <2>1. TypeOK' /\ MeterOK'
    BY <1>1 DEF vars, IInv, TypeOK, MeterOK
  <2>2. \A c \in Calls : CallOK(c)'
    BY <1>1 DEF vars, IInv, CallOK, Informed, Unpaid
  <2>3. \A k \in Keys \ disturbed' : KeyOK(k)'
    BY <1>1 DEF vars, IInv, KeyOK, Informed, Busy
  <2> QED
    BY <2>1, <2>2, <2>3 DEF IInv
<1>2. CASE Next
  <2>1. MeterOK'
    BY <1>2, MeterKeeps
  <2>2. CASE \E c \in Calls : Begin(c) \/ Handle(c)
    <3> PICK c \in Calls : Begin(c) \/ Handle(c)
      BY <2>2
    <3>1. TypeOK' /\ CallOK(c)'
      BY CallKeeps
    <3>2. \A d \in Calls \ {c} : CallOK(d)'
      BY OthersKeep
    <3>3. \A k \in Keys \ disturbed' : KeyOK(k)'
      BY KeyKeeps
    <3> QED
      BY <2>1, <3>1, <3>2, <3>3 DEF IInv
  <2>3. CASE (\E k \in Keys : PortalSpends(k) \/ Revoke(k) \/ KeyExpires(k)) \/ NewWindow \/ RoleExpires
    <3>1. TypeOK' /\ \A c \in Calls : CallOK(c)'
      BY <2>3, OutsideKeeps
    <3>2. \A k \in Keys \ disturbed' : KeyOK(k)'
      BY <2>3, OutsideSpares
    <3> QED
      BY <2>1, <3>1, <3>2 DEF IInv
  <2> QED
    BY <1>2, <2>2, <2>3, NextSteps
<1> QED
  BY <1>1, <1>2

\* What a call has established and knows of its key, and how the counters belong
\* together, at every step.
THEOREM Invariance == Spec => []IInv
BY InitInv, StepInv, PTL DEF Spec

\* Every variable of gate, cache and counters keeps its type.
THEOREM TypeCorrect == Spec => []TypeOK
<1>1. IInv => TypeOK
  BY DEF IInv
<1> QED
  BY <1>1, Invariance, PTL

\* Whatever the number of calls and keys: while the calls of a key do not overlap and
\* its payments end, the cache lets no query through that the credits do not cover.
THEOREM UnpaidMeansDisturbed == Spec => []UnpaidOnlyWhenDisturbed
<1>1. IInv => UnpaidOnlyWhenDisturbed
  BY DEF IInv, CallOK, UnpaidOnlyWhenDisturbed
<1> QED
  BY <1>1, Invariance, PTL

\* A key in the query string is refused only after Rate calls of its own.
THEOREM OwnLimit == Spec => QueryKeysAreLimitedAlone
<1> DEFINE Alone(c) == At(c, "count") /\ pc'[c] = "limited" /\ way[c] = "query" => own'[key[c]] > Rate
<1>1. IInv /\ [Next]_vars => [\A c \in Calls : Alone(c)]_vars
  <2> SUFFICES ASSUME IInv, Next, NEW c \in Calls, pc[c] = "count", pc'[c] = "limited", way[c] = "query"
               PROVE  own'[key[c]] > Rate
    BY DEF Alone
  <2>1. is_ratelimited(c)
    <3>1. pc \in [Calls -> Steps]
      BY DEF IInv, TypeOK
    <3>2. ASSUME NEW d \in Calls, Begin(d) \/ Handle(d) PROVE is_ratelimited(d) /\ d = c
      <4>1. d = c
        BY <3>1, <3>2 DEF Begin, Handle, LookUpDetails, FetchDetails, StoreDetails, validate_key, get_rate,
             is_ratelimited, CatvOutbound, CatvInbound, CatvSupportedNetworks, ApiKeyInfo, Gate, Query, Charge,
             DropDetails, Finish
      <4> QED
        BY <3>1, <3>2, <4>1 DEF Begin, Handle, LookUpDetails, FetchDetails, StoreDetails, validate_key,
             get_rate, Verified, CatvOutbound, CatvInbound, CatvSupportedNetworks, ApiKeyInfo, Query, Charge,
             DropDetails, Finish
    <3>3. ~ \E k \in Keys : PortalSpends(k) \/ Revoke(k) \/ KeyExpires(k)
      BY DEF PortalSpends, Revoke, KeyExpires
    <3>4. ~NewWindow /\ ~RoleExpires
      BY DEF NewWindow, RoleExpires
    <3> QED
      BY <3>2, <3>3, <3>4, NextSteps
  <2>2. key[c] \in Keys /\ Bucket(c) = key[c]
    BY DEF IInv, CallOK, Bucket
  <2>3. count[key[c]] \in Nat /\ own[key[c]] \in Nat /\ count[key[c]] <= own[key[c]]
    BY <2>2 DEF IInv, MeterOK, TypeOK, Buckets
  <2>4. ~(count[key[c]] < Rate)
    BY <2>1, <2>2 DEF is_ratelimited, IInv, TypeOK
  <2> QED
    BY <2>1, <2>2, <2>3, <2>4, GateAssumption DEF is_ratelimited, IInv, TypeOK
<1> QED
  BY <1>1, Invariance, PTL DEF Spec, QueryKeysAreLimitedAlone
=============================================================================
