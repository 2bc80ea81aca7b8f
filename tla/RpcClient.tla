----------------------------- MODULE RpcClient ------------------------------
(***************************************************************************)
(* The eight classes of RPCClient.py: an object connects, declares a       *)
(* callback queue of its own, publishes one request to the queue of its    *)
(* class and pumps the connection until an answer with its correlation id  *)
(* is there.  The services behind the queues deliver at least once: they   *)
(* answer before they acknowledge, and a crash hands the request back.     *)
(***************************************************************************)
EXTENDS Naturals, FiniteSets

CONSTANTS
  Objects,       \* client objects; each makes one call, its connection is closed after it
  MaxCrashes,    \* bound: crashes of a service
  None

ASSUME ClientAssumption == IsFiniteSet(Objects) /\ MaxCrashes \in Nat /\ None \notin Objects

Queues == {"rpc_catv_update_usage_call", "rpc_csv_catv_update_usage_call",
           "rpc_catv_fetch_result_file_uid", "rpc_catv_fetch_result_file",
           "rpc_catvms_fetch_indicators", "rpc_catv_check_terra_access",
           "rpc_cara_api_rate_fetcher", "rpc_catv_api_request_validator"}

VARIABLES
  pc,        \* step of each object's caller
  route,     \* the queue the object published to
  link,      \* objects whose connection, and so callback queue, exists
  ready,     \* requests in their queues; a request is named by its correlation id
  held,      \* delivered to a service, not answered
  answered,  \* answered by the service, not acknowledged
  replies,   \* replies[o]: correlation ids of the answers in o's callback queue
  response,  \* response of each object: None, or the request it answers
  done,      \* how often a service carried each request out
  lost,      \* requests that vanished with the broker or with a service
  crashes

broker  == <<ready, held, answered, lost>>
service == <<done, crashes>>
object  == <<pc, route, link, replies, response>>
vars    == <<object, broker, service>>

TypeOK ==
  /\ pc \in [Objects -> {"new", "open", "sent", "returned", "raised"}]
  /\ route \in [Objects -> Queues \cup {None}]
  /\ link \subseteq Objects /\ ready \subseteq Objects /\ held \subseteq Objects
  /\ answered \subseteq Objects /\ lost \subseteq Objects
  /\ replies \in [Objects -> SUBSET Objects]
  /\ response \in [Objects -> Objects \cup {None}]
  /\ done \in [Objects -> Nat] /\ crashes \in 0..MaxCrashes

Init ==
  /\ pc = [o \in Objects |-> "new"]
  /\ route = [o \in Objects |-> None] /\ response = route
  /\ link = {} /\ ready = {} /\ held = {} /\ answered = {} /\ lost = {}
  /\ replies = [o \in Objects |-> {}]
  /\ done = [o \in Objects |-> 0] /\ crashes = 0

-----------------------------------------------------------------------------
(* One class                                                                *)

\* __init__: connection, channel, callback queue, consumer.
Construct(o, q) ==
  /\ pc[o] = "new"
  /\ \/ pc' = [pc EXCEPT ![o] = "open"] /\ link' = link \cup {o}
     \/ pc' = [pc EXCEPT ![o] = "raised"] /\ UNCHANGED link
  /\ route' = [route EXCEPT ![o] = q]
  /\ UNCHANGED <<replies, response, broker, service>>

\* Mutant: an unanswered request is published again.
PublishAgain(o) ==
  /\ pc[o] \in {"open", "sent"} /\ o \in link
  /\ ready' = ready \cup {o} /\ pc' = [pc EXCEPT ![o] = "sent"]
  /\ UNCHANGED <<route, link, replies, response, held, answered, lost, service>>

\* A fresh correlation id, and one message.  A dead connection raises.
Publish(o) ==
  /\ pc[o] = "open"
  /\ \/ o \in link /\ ready' = ready \cup {o} /\ pc' = [pc EXCEPT ![o] = "sent"]
     \/ o \notin link /\ pc' = [pc EXCEPT ![o] = "raised"] /\ UNCHANGED ready
  /\ UNCHANGED <<route, link, replies, response, held, answered, lost, service>>

\* Mutant: the loop does not see that the connection is gone.
PumpDeaf(o) ==
  /\ pc[o] = "sent" /\ o \in replies[o]
  /\ response' = [response EXCEPT ![o] = o]
  /\ pc' = [pc EXCEPT ![o] = "returned"]
  /\ link' = link \ {o}
  /\ replies' = [replies EXCEPT ![o] = {}]
  /\ UNCHANGED <<route, broker, service>>

\* process_data_events runs on_response for what has arrived: an answer with
\* the object's own id ends the loop, and close() takes the queue away.
Pump(o) ==
  /\ pc[o] = "sent"
  /\ \/ /\ o \in link /\ o \in replies[o]
        /\ response' = [response EXCEPT ![o] = o]
        /\ pc' = [pc EXCEPT ![o] = "returned"]
     \/ /\ o \notin link
        /\ pc' = [pc EXCEPT ![o] = "raised"]
        /\ UNCHANGED response
  /\ link' = link \ {o}
  /\ replies' = [replies EXCEPT ![o] = {}]
  /\ UNCHANGED <<route, broker, service>>

Client(o, q) == Construct(o, q) \/ (route[o] = q /\ (Publish(o) \/ Pump(o)))

RPCClientUpdateUsageCatvCall(o)    == Client(o, "rpc_catv_update_usage_call")
RPCClientUpdateUsageCSVCatvCall(o) == Client(o, "rpc_csv_catv_update_usage_call")
RPCClientFetchResultFileUid(o)     == Client(o, "rpc_catv_fetch_result_file_uid")
RPCClientFetchResultFileList(o)    == Client(o, "rpc_catv_fetch_result_file")
RPCClientCATVFetchIndicators(o)    == Client(o, "rpc_catvms_fetch_indicators")
RPCClientCATVCheckTerraAccess(o)   == Client(o, "rpc_catv_check_terra_access")
RPCAPIRateFetcher(o)               == Client(o, "rpc_cara_api_rate_fetcher")
RPCAPIRequestValidator(o)          == Client(o, "rpc_catv_api_request_validator")

Caller(o) ==
  \/ RPCClientUpdateUsageCatvCall(o) \/ RPCClientUpdateUsageCSVCatvCall(o)
  \/ RPCClientFetchResultFileUid(o) \/ RPCClientFetchResultFileList(o)
  \/ RPCClientCATVFetchIndicators(o) \/ RPCClientCATVCheckTerraAccess(o)
  \/ RPCAPIRateFetcher(o) \/ RPCAPIRequestValidator(o)

-----------------------------------------------------------------------------
(* The broker and the services                                              *)

Deliver(o) ==
  /\ o \in ready
  /\ ready' = ready \ {o} /\ held' = held \cup {o}
  /\ UNCHANGED <<object, answered, lost, service>>

\* The answer goes to reply_to with the request's id; to a queue that is gone
\* the broker drops it.
Work(o) ==
  /\ o \in held
  /\ done' = [done EXCEPT ![o] = @ + 1]
  /\ held' = held \ {o} /\ answered' = answered \cup {o}
  /\ replies' = IF o \in link THEN [replies EXCEPT ![o] = @ \cup {o}] ELSE replies
  /\ UNCHANGED <<pc, route, link, response, ready, lost, crashes>>

Acknowledge(o) ==
  /\ o \in answered
  /\ answered' = answered \ {o}
  /\ UNCHANGED <<object, ready, held, lost, service>>

\* A service dies with what it holds: redelivered, or rejected and gone.
Crash(o) ==
  /\ crashes < MaxCrashes /\ o \in held \cup answered
  /\ crashes' = crashes + 1
  /\ held' = held \ {o} /\ answered' = answered \ {o}
  /\ \/ ready' = ready \cup {o} /\ UNCHANGED lost
     \/ lost' = lost \cup {o} /\ UNCHANGED ready
  /\ UNCHANGED <<object, done>>

\* Messages are not persistent: a broker restart loses them.
Vanish(o) ==
  /\ o \in ready
  /\ ready' = ready \ {o} /\ lost' = lost \cup {o}
  /\ UNCHANGED <<object, held, answered, service>>

DropLink(o) ==
  /\ o \in link
  /\ link' = link \ {o} /\ replies' = [replies EXCEPT ![o] = {}]
  /\ UNCHANGED <<pc, route, response, broker, service>>

Next ==
  \E o \in Objects :
    \/ Caller(o) \/ Deliver(o) \/ Work(o) \/ Acknowledge(o)
    \/ Crash(o) \/ Vanish(o) \/ DropLink(o)

Spec == Init /\ [][Next]_vars
\* Threads run and services work off their queues; nothing has to crash.
FairSpec ==
  /\ Spec
  /\ \A o \in Objects : WF_vars(Caller(o)) /\ WF_vars(Deliver(o)) /\ WF_vars(Work(o))

-----------------------------------------------------------------------------
(* Properties                                                               *)

\* A request is carried out once more only for a service that crashed with it;
\* the client itself never repeats one.  A usage call charges every time.
RepeatsNeedCrashes ==
  \A o \in Objects : done[o] <= 1 + crashes /\ (done[o] > 0 => pc[o] \in {"sent", "returned", "raised"})

\* A call that is over has left no connection and no answer behind, however
\* late or often the answers come.
NothingLeftBehind ==
  \A o \in Objects : pc[o] \in {"returned", "raised"} => o \notin link /\ replies[o] = {}

\* A call waits for ever only for a request that was lost: no timeout ends it,
\* and nothing else holds it.
HangsOnlyForLostRequests ==
  \A o \in Objects : pc[o] = "sent" ~> pc[o] \in {"returned", "raised"} \/ o \in lost
-----------------------------------------------------------------------------
(* The inductive invariant                                                  *)

Out(o) == (IF o \in ready THEN 1 ELSE 0) + (IF o \in held THEN 1 ELSE 0)

\* A request is in at most one place; what is still to be carried out and what
\* has been is paid for by the one publication and the crashes.
RequestsOK ==
  \A o \in Objects :
    /\ o \in ready => o \notin held /\ o \notin answered
    /\ o \in held => o \notin answered
    /\ done[o] + Out(o) <= 1 + crashes
    /\ pc[o] \in {"new", "open"} => o \notin ready \cup held \cup answered /\ done[o] = 0

RepliesOK ==
  \A o \in Objects :
    /\ replies[o] \subseteq {o} /\ (o \in replies[o] => done[o] > 0 /\ o \in link)
    /\ pc[o] \in {"new", "returned", "raised"} => o \notin link

IInv == TypeOK /\ RequestsOK /\ RepliesOK
=============================================================================
