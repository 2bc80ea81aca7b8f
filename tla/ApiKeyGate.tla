----------------------------- MODULE ApiKeyGate -----------------------------
(***************************************************************************)
(* The endpoints that are opened by an API key: get_user_details with its  *)
(* twelve-hour cache, validate_key and get_rate, the views CatvOutbound,   *)
(* CatvInbound, CatvSupportedNetworks, ApiKeyInfo and the charging part of *)
(* CATVReportLinkView, and consume_key, which charges and drops the cache. *)
(*                                                                         *)
(* Calls run in threads of one service; the portal owns credits and keys.  *)
(* All keys have one role.  History variables are marked (h).              *)
(***************************************************************************)
EXTENDS Naturals

CONSTANTS
  Keys,       \* API keys, one user each
  Calls,      \* requests
  Uses,       \* what the calls may be: an endpoint and where its key is sent
  Credits,    \* credits of each user at the start
  Cost,       \* credits_required
  Rate,       \* the role's catv_rate_limit, calls per window
  MaxEvents,  \* bound: portal's own spending, revocations and new windows
  None

Endpoints == {"outbound", "inbound", "networks", "info", "report"}

\* ApiKeyInfo takes its key from the query string, the report from the header.
ASSUME GateAssumption ==
  /\ Credits \in Nat /\ Cost \in Nat \ {0} /\ Rate \in Nat \ {0} /\ MaxEvents \in Nat
  /\ Uses \subseteq ({"outbound", "inbound", "networks"} \X {"query", "header"})
              \cup {<<"info", "query">>, <<"report", "header">>}
  /\ None \notin Keys \cup Nat /\ "header" \notin Keys

VARIABLES
  balance,   \* credits of each key's user, at the portal
  approved,  \* the keys whose status is 'approved', at the portal
  cache,     \* API_CACHE[key]: the details as the portal once gave them, or None
  roles,     \* is apiroleinfo_<role> in API_CACHE?
  count,     \* django-ratelimit's counters of this window
  pc, key, way, view,   \* each call: its step, key, how the key was passed, view
  seen,      \* the details the call works with
  status,    \* HTTP status of the answer
  result,    \* what catv_query, or the report, has given the call: data or an error
  paid,      \* (h) calls the portal has charged
  refused,   \* (h) calls the portal would not charge although the credits sufficed
  disturbed, \* (h) keys whose calls overlapped, whose credits the portal spent itself,
             \*     or whose payment ended without its cached details being dropped
  own,       \* (h) counted calls of each key in this window
  events

portal  == <<balance, approved>>
store   == <<cache, roles>>
request == <<key, way, view>>
meter   == <<count, own>>
ledger  == <<result, paid, refused, disturbed>>
vars == <<portal, store, request, meter, pc, seen, status, ledger, events>>

Details == [credits : 0..Credits, approved : BOOLEAN]
Metered == {"outbound", "inbound"}
Steps == {"idle", "details", "fetch", "store", "validate", "rate", "roles", "count",
          "free", "limited", "query", "charge", "drop", "done"}

\* 'get:key' reads the query string: keys sent in the header share one counter.
\* The group is the qualified name of f, the same for every view.
Bucket(c) == IF way[c] = "query" THEN key[c] ELSE "header"
Buckets   == Keys \cup {"header"}

TypeOK ==
  /\ balance \in [Keys -> 0..Credits] /\ approved \subseteq Keys
  /\ cache \in [Keys -> Details \cup {None}] /\ roles \in BOOLEAN
  /\ count \in [Buckets -> Nat]
  /\ pc \in [Calls -> Steps]
  /\ key \in [Calls -> Keys \cup {None}] /\ way \in [Calls -> {"query", "header", None}]
  /\ view \in [Calls -> Endpoints \cup {None}]
  /\ seen \in [Calls -> Details \cup {None}]
  /\ status \in [Calls -> {None, 200, 400, 401, 402, 429, 500}]
  /\ result \in [Calls -> {None, "data", "error"}]
  /\ paid \subseteq Calls /\ refused \subseteq Calls /\ disturbed \subseteq Keys
  /\ own \in [Keys -> Nat]
  /\ events \in 0..MaxEvents

Init ==
  /\ balance = [k \in Keys |-> Credits] /\ approved = Keys
  /\ cache = [k \in Keys |-> None] /\ roles \in BOOLEAN
  /\ count = [b \in Buckets |-> 0] /\ own = [k \in Keys |-> 0]
  /\ pc = [c \in Calls |-> "idle"]
  /\ key = [c \in Calls |-> None] /\ way = key /\ view = key /\ seen = key /\ status = key
  /\ result = key /\ paid = {} /\ refused = {} /\ disturbed = {} /\ events = 0

At(c, step)  == pc[c] = step
Busy(c) == pc[c] \notin {"idle", "done"}
Goto(c, step) == pc' = [pc EXCEPT ![c] = step] /\ UNCHANGED status
Answer(c, code) == pc' = [pc EXCEPT ![c] = "done"] /\ status' = [status EXCEPT ![c] = code]

-----------------------------------------------------------------------------
(* Outside the service: callers, the portal, the clock                      *)

Begin(c) ==
  /\ At(c, "idle")
  /\ \E k \in Keys, w \in {"query", "header"}, e \in Endpoints :
       /\ <<e, w>> \in Uses
       /\ key' = [key EXCEPT ![c] = k] /\ way' = [way EXCEPT ![c] = w]
       /\ view' = [view EXCEPT ![c] = e]
       /\ disturbed' = IF \E d \in Calls : Busy(d) /\ key[d] = k THEN disturbed \cup {k} ELSE disturbed
  /\ Goto(c, "details")
  /\ UNCHANGED <<portal, store, meter, seen, result, paid, refused, events>>

Event == events < MaxEvents /\ events' = events + 1
         /\ UNCHANGED <<request, pc, seen, status, result, paid, refused>>

PortalSpends(k) ==
  Event /\ balance[k] >= Cost /\ balance' = [balance EXCEPT ![k] = @ - Cost]
        /\ disturbed' = disturbed \cup {k}
        /\ UNCHANGED <<approved, store, meter>>
Revoke(k)  == Event /\ k \in approved /\ approved' = approved \ {k}
                    /\ UNCHANGED <<balance, store, meter, disturbed>>
NewWindow  == Event /\ count' = [b \in Buckets |-> 0] /\ own' = [k \in Keys |-> 0]
                    /\ UNCHANGED <<portal, store, disturbed>>
RoleExpires == Event /\ roles /\ roles' = FALSE /\ UNCHANGED <<portal, cache, meter, disturbed>>
\* Entries live for 60 * 60 * 12 seconds.
KeyExpires(k) ==
  /\ cache[k] # None
  /\ cache' = [cache EXCEPT ![k] = None]
  /\ UNCHANGED <<portal, roles, request, meter, pc, seen, status, ledger, events>>

-----------------------------------------------------------------------------
(* get_user_details                                                         *)

LookUpDetails(c) ==
  /\ At(c, "details")
  /\ \/ cache[key[c]] # None /\ seen' = [seen EXCEPT ![c] = cache[key[c]]] /\ Goto(c, "validate")
     \/ cache[key[c]] = None /\ Goto(c, "fetch") /\ UNCHANGED seen
  /\ UNCHANGED <<portal, store, request, meter, ledger, events>>

\* RPCAPIRequestValidator; "Failed" gives None, which nothing can be read from.
FetchDetails(c) ==
  /\ At(c, "fetch")
  /\ \/ /\ seen' = [seen EXCEPT ![c] = [credits |-> balance[key[c]], approved |-> key[c] \in approved]]
        /\ Goto(c, "store")
     \/ Answer(c, IF view[c] = "report" THEN 500 ELSE 401) /\ UNCHANGED seen
  /\ UNCHANGED <<portal, store, request, meter, ledger, events>>

\* What was fetched is stored in a later step: a charge may come between.
StoreDetails(c) ==
  /\ At(c, "store")
  /\ cache' = [cache EXCEPT ![key[c]] = seen[c]]
  /\ Goto(c, "validate")
  /\ UNCHANGED <<portal, roles, request, meter, seen, ledger, events>>

-----------------------------------------------------------------------------
(* validate_key, get_rate and the rate limit                                *)

\* CATVReportLinkView takes user and price from the details, without a check.
validate_key(c) ==
  /\ At(c, "validate")
  /\ \/ view[c] = "report" /\ Goto(c, "query")
     \/ view[c] # "report" /\ ~seen[c].approved /\ Answer(c, 401)
     \/ view[c] # "report" /\ seen[c].approved /\ Goto(c, "rate")
  /\ UNCHANGED <<portal, store, request, meter, seen, ledger, events>>

\* After a miss the answer is looked up under the bare role id, which holds
\* nothing: this call has no rate, and is_ratelimited neither counts nor limits.
get_rate(c) ==
  \/ /\ At(c, "rate")
     /\ Goto(c, IF roles THEN "count" ELSE "roles")
     /\ UNCHANGED <<portal, store, request, meter, seen, ledger, events>>
  \/ /\ At(c, "roles")
     /\ roles' = TRUE
     /\ Goto(c, "free")
     /\ UNCHANGED <<portal, cache, request, meter, seen, ledger, events>>

\* Mutant: one counter for everybody.
CountTogether(c) ==
  /\ At(c, "count")
  /\ LET b == "header" IN
     /\ count' = [count EXCEPT ![b] = @ + 1]
     /\ own' = [own EXCEPT ![key[c]] = @ + 1]
     /\ Goto(c, IF count[b] < Rate THEN "free" ELSE "limited")
  /\ UNCHANGED <<portal, store, request, seen, ledger, events>>

\* is_ratelimited(increment=True): counts every call, refuses those above Rate.
is_ratelimited(c) ==
  /\ At(c, "count")
  /\ LET b == Bucket(c) IN
     /\ count' = [count EXCEPT ![b] = @ + 1]
     /\ own' = [own EXCEPT ![key[c]] = @ + 1]
     /\ Goto(c, IF count[b] < Rate THEN "free" ELSE "limited")
  /\ UNCHANGED <<portal, store, request, seen, ledger, events>>

-----------------------------------------------------------------------------
(* The views, after validate_key                                            *)

Verified(c, v) == view[c] = v /\ pc[c] \in {"free", "limited"}
Quiet == UNCHANGED <<portal, store, request, meter, seen, ledger, events>>

\* validate_request's parameters, then credits, then rate, then the address.
Gate(c) ==
  \/ Answer(c, 400)
  \/ seen[c].credits < Cost /\ Answer(c, 402)
  \/ seen[c].credits >= Cost /\ At(c, "limited") /\ Answer(c, 429)
  \/ seen[c].credits >= Cost /\ At(c, "free") /\ Goto(c, "query")

CatvOutbound(c) == Verified(c, "outbound") /\ Gate(c) /\ Quiet
CatvInbound(c)  == Verified(c, "inbound") /\ Gate(c) /\ Quiet
\* The limit counts here, but is not applied.
CatvSupportedNetworks(c) == Verified(c, "networks") /\ Answer(c, 200) /\ Quiet
ApiKeyInfo(c) ==
  Verified(c, "info") /\ Answer(c, IF At(c, "limited") THEN 429 ELSE 200) /\ Quiet

\* catv_query, or the report.  An empty or failed lookup ends in 500.  A vendor's
\* 'errors' come back as a response, which is no empty result: it is charged like
\* data.  A report that is not released, or not in time, is answered uncharged.
Query(c) ==
  /\ At(c, "query")
  /\ \/ \E r \in {"data"} \cup (IF view[c] = "report" THEN {} ELSE {"error"}) :
          result' = [result EXCEPT ![c] = r] /\ Goto(c, "charge")
     \/ \E code \in {500} \cup (IF view[c] = "report" THEN {200} ELSE {}) :
          Answer(c, code) /\ UNCHANGED result
  /\ UNCHANGED <<portal, store, request, meter, seen, paid, refused, disturbed, events>>

-----------------------------------------------------------------------------
(* update_usage and consume_key                                             *)

\* The end of a view: data is sent; a response inside a response cannot be.
Finish(c) == Answer(c, IF result[c] = "error" THEN 500 ELSE 200)

\* The portal charges and says 'True'.  Any other reply is ignored, be it for want
\* of credits or for another reason.  The call may fail before the portal has
\* charged and after: the cached details stay then.
Charge(c) ==
  /\ At(c, "charge")
  /\ \/ /\ balance[key[c]] >= Cost
        /\ balance' = [balance EXCEPT ![key[c]] = @ - Cost] /\ paid' = paid \cup {c}
        /\ \/ Goto(c, "drop") /\ UNCHANGED disturbed
           \/ Answer(c, 500) /\ disturbed' = disturbed \cup {key[c]}
        /\ UNCHANGED refused
     \/ /\ refused' = IF balance[key[c]] >= Cost THEN refused \cup {c} ELSE refused
        /\ Finish(c) /\ UNCHANGED <<balance, paid, disturbed>>
     \/ Answer(c, 500) /\ UNCHANGED <<balance, paid, refused, disturbed>>
  /\ UNCHANGED <<approved, store, request, meter, seen, result, events>>

\* Mutant: the charge leaves the cached details alone.
DropNothing(c) ==
  /\ At(c, "drop")
  /\ Finish(c)
  /\ UNCHANGED <<portal, store, request, meter, seen, ledger, events>>

\* Without the cache the charged call fails, and its details stay.
DropDetails(c) ==
  /\ At(c, "drop")
  /\ \/ cache' = [cache EXCEPT ![key[c]] = None] /\ Finish(c) /\ UNCHANGED disturbed
     \/ Answer(c, 500) /\ disturbed' = disturbed \cup {key[c]} /\ UNCHANGED cache
  /\ UNCHANGED <<portal, roles, request, meter, seen, result, paid, refused, events>>

Handle(c) ==
  \/ LookUpDetails(c) \/ FetchDetails(c) \/ StoreDetails(c)
  \/ validate_key(c) \/ get_rate(c) \/ is_ratelimited(c)
  \/ CatvOutbound(c) \/ CatvInbound(c) \/ CatvSupportedNetworks(c) \/ ApiKeyInfo(c)
  \/ Query(c) \/ Charge(c) \/ DropDetails(c)

Next ==
  \/ \E c \in Calls : Begin(c) \/ Handle(c)
  \/ \E k \in Keys : PortalSpends(k) \/ Revoke(k) \/ KeyExpires(k)
  \/ NewWindow \/ RoleExpires

Spec == Init /\ [][Next]_vars

-----------------------------------------------------------------------------
(* Properties                                                               *)

Unpaid(c) == status[c] = 200 /\ view[c] \in Metered /\ c \notin paid

\* As long as the calls of a key come one at a time, its payments run to their end
\* and the portal spends none of its credits itself, the twelve-hour cache never
\* lets a query through that the credits do not cover: only a reply of the portal's
\* own other than 'True' serves it unpaid.
UnpaidOnlyWhenDisturbed ==
  \A c \in Calls : Unpaid(c) => c \in refused \/ key[c] \in disturbed

\* Keys in the query string are limited by their own calls alone.
QueryKeysAreLimitedAlone ==
  [][\A c \in Calls :
       At(c, "count") /\ pc'[c] = "limited" /\ way[c] = "query" => own'[key[c]] > Rate]_vars

\* The inductive invariant: what a call has established on its way to the charge ...
Informed(c) == pc[c] \in Steps \ {"idle", "details", "fetch", "drop", "done"}

CallOK(c) ==
  /\ ~At(c, "idle") => key[c] \in Keys /\ way[c] \in {"query", "header"} /\ view[c] \in Endpoints
  /\ ~At(c, "done") => status[c] = None
  /\ Informed(c) => seen[c] \in Details
  /\ pc[c] \in {"query", "charge"} /\ view[c] \in Metered => seen[c].credits >= Cost
  /\ At(c, "drop") => c \in paid
  /\ Unpaid(c) => c \in refused \/ key[c] \in disturbed

\* ... that an undisturbed key has one call at a time, which knows of no credits
\* that are gone, and no others in the cache but those about to be dropped ...
KeyOK(k) ==
  /\ \A c, d \in Calls : Busy(c) /\ Busy(d) /\ key[c] = k /\ key[d] = k => c = d
  /\ cache[k] # None /\ cache[k].credits > balance[k] => \E c \in Calls : At(c, "drop") /\ key[c] = k
  /\ \A c \in Calls : Informed(c) /\ key[c] = k => seen[c].credits <= balance[k]

\* ... and how the counters of a window belong together.
MeterOK == \A k \in Keys : count[k] <= own[k]

IInv == TypeOK /\ MeterOK /\ (\A c \in Calls : CallOK(c)) /\ \A k \in Keys \ disturbed : KeyOK(k)
=============================================================================
