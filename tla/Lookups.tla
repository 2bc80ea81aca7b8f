------------------------------ MODULE Lookups -------------------------------
(***************************************************************************)
(* What the public API looks up.  A request is of one kind and the kinds   *)
(* share nothing: a behaviour is a CATV query, a CK query or a             *)
(* recommendation, and the variables of the others stay "-".               *)
(***************************************************************************)
EXTENDS Naturals, FiniteSets

CONSTANTS
    Chains, Addresses, MaxItems, MaxDocs, chunk_size, Flags,    \* of ChainQuery
    People, victim, threat, Exchanges, Hashes, MaxTransfers, MaxDepth, MaxRows,    \* of CkQuery
    Counts, NoValue                                             \* of Recommendations

VARIABLES
    kind,
    catvRequest, ES_FLAG, index, phase, query, items, rows, answer, cause,
    ckChain, ckRequest, docs, dex, ckPhase, thread, vendor, api_used, found,
    shown, ckAnswer,
    asking, step, asked, counted, depth

ofQuery     == <<catvRequest, ES_FLAG, index, phase, query, items, rows, answer, cause>>
ofCk        == <<ckChain, ckRequest, docs, dex, ckPhase, thread, vendor,
                 api_used, found, shown, ckAnswer>>
ofRecommend == <<asking, step, asked, counted, depth>>
lookupsVars == <<kind, ofQuery, ofCk, ofRecommend>>

Catv == INSTANCE ChainQuery WITH request <- catvRequest
Ck == INSTANCE CkQuery WITH Addresses <- People, chain <- ckChain, request <- ckRequest,
                            phase <- ckPhase, answer <- ckAnswer
Recommend == INSTANCE Recommendations WITH None <- NoValue, query <- asking, count <- counted

ASSUME LookupsAssumption ==
    /\ Catv!ChainQueryAssumption /\ Ck!CkAssumption /\ Recommend!CountAssumption

-----------------------------------------------------------------------------
NoQuery == /\ catvRequest = "-" /\ ES_FLAG = "-" /\ index = "-" /\ phase = "-"
           /\ query = "-" /\ items = "-" /\ rows = "-" /\ answer = "-" /\ cause = "-"
NoCk == /\ ckChain = "-" /\ ckRequest = "-" /\ docs = "-" /\ dex = "-" /\ ckPhase = "-"
        /\ thread = "-" /\ vendor = "-" /\ api_used = "-" /\ found = "-" /\ shown = "-"
        /\ ckAnswer = "-"
NoRecommend == asking = "-" /\ step = "-" /\ asked = "-" /\ counted = "-" /\ depth = "-"

LookupsInit ==
    \/ kind = "catv" /\ Catv!Init /\ NoCk /\ NoRecommend
    \/ kind = "ck" /\ Ck!Init /\ NoQuery /\ NoRecommend
    \/ kind = "recommend" /\ Recommend!Init /\ NoQuery /\ NoCk

OfQuery(A)     == kind = "catv" /\ A /\ UNCHANGED <<kind, ofCk, ofRecommend>>
OfCk(A)        == kind = "ck" /\ A /\ UNCHANGED <<kind, ofQuery, ofRecommend>>
OfRecommend(A) == kind = "recommend" /\ A /\ UNCHANGED <<kind, ofQuery, ofCk>>

LookupsNext ==
    \/ OfQuery(Catv!Check)
    \/ OfQuery(Catv!AskTracer)
    \/ OfQuery(Catv!AskBitquery)
    \/ OfQuery(Catv!Annotate)
    \/ OfCk(Ck!Happen)
    \/ OfCk(Ck!Start)
    \/ \E d \in Ck!Directions : OfCk(Ck!Tracer(d))
    \/ \E d \in Ck!Directions : OfCk(Ck!Bitquery(d))
    \/ \E d \in Ck!Directions : OfCk(Ck!FollowSwap(d))
    \/ \E d \in Ck!Directions : OfCk(Ck!SwapsEnd(d))
    \/ OfCk(Ck!Finish)
    \/ OfRecommend(Recommend!Validate)
    \/ \E c \in Counts \cup {NoValue} : OfRecommend(Recommend!GetTransactionCount(c))
    \/ OfRecommend(Recommend!Recommend)

LookupsSpec == LookupsInit /\ [][LookupsNext]_lookupsVars

-----------------------------------------------------------------------------
(* The properties of each kind; see the modules.                            *)
LookupsTypesOK ==
    /\ kind \in {"catv", "ck", "recommend"}
    /\ kind = "catv" => Catv!TypeOK
    /\ kind = "ck" => Ck!TypeOK
    /\ kind = "recommend" => Recommend!TypeOK

\* ChainQuery: on the chains whose rows have no types, and on no others, an address
\* without an annotation takes all data away.
UnannotatedTakesAll == kind = "catv" => Catv!OneUnannotatedTakesAll

\* ChainQuery: the newest annotation wins, in however many chunks it is looked up.
NewestAnnotationIsShown == kind = "catv" => Catv!NewestAnnotationIsShown

\* CkQuery: the trail ends at an exchange if one vendor answered all there is.
ExchangesEndTheTrail == kind = "ck" => Ck!ExchangesEndTheTrail

\* CkQuery: what is missing lies behind an exchange or shares a hash with it, and
\* an answer for given transactions shows them and what followed, and no more.
TracesAreWhole == kind = "ck" => Ck!OnlyExchangesCut /\ Ck!AnswerFollowsTheHashes

\* CkQuery: what the victim sent to the thief is shown as Bitquery answered it, and
\* of the tracer's answer only what followed a swap.
VictimsTransfersByVendor == kind = "ck" => Ck!VictimsTransfersByVendor

\* Recommendations: the address let through is one of the chain asked about, which
\* is Ethereum for two names and for any that is not in capitals.
RecommendationFits ==
    kind = "recommend" =>
        Recommend!AddressFitsTheChainAsked /\ Recommend!EthereumIsAskedInstead

\* The inductive invariant: that of the kind.
LookupsIInv ==
    /\ kind \in {"catv", "ck", "recommend"}
    /\ kind = "catv" => Catv!IInv
    /\ kind = "ck" => Ck!IInv
    /\ kind = "recommend" => Recommend!IInv
=============================================================================
