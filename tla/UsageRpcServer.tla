--------------------------- MODULE UsageRpcServer ---------------------------
(***************************************************************************)
(* AMQPCATVConsuming: the thread that answers the portal's usage calls     *)
(* from the queue rpc_portal_catv_call, and the two devices around it:     *)
(* ensure_db_connections, which retries a handler, and retry_run, which    *)
(* retries the thread's body.  CloseOldConnections runs beside it.         *)
(*                                                                         *)
(* A Django database connection belongs to one thread.  It is "stale" when *)
(* the server side is gone and the thread still holds the object:          *)
(* ensure_connection then does nothing, and a query raises.                *)
(***************************************************************************)
EXTENDS Naturals, Sequences, FiniteSets

CONSTANTS
  Requests,    \* usage calls of the portal
  Malformed,   \* those whose body the handler cannot read
  Prefetch,    \* prefetch_count, 20 in the code
  Tries,       \* retry_run(tries=10)
  MaxRetries,  \* max_retries of ensure_db_connections, 3
  MaxOutages,  \* bound: database outages
  None         \* no message in the handler

ASSUME RequestAssumption == IsFiniteSet(Requests) /\ Malformed \subseteq Requests /\ None \notin Requests
ASSUME LimitAssumption ==
  Prefetch \in Nat \ {0} /\ Tries \in Nat \ {0} /\ MaxRetries \in Nat \ {0} /\ MaxOutages \in Nat

VARIABLES
  called,    \* calls the portal has published
  waiting,   \* messages ready in the durable queue
  buffer,    \* delivered to this connection, not yet handled
  parked,    \* handled without an acknowledgement
  current,   \* the message in the handler
  pc,        \* step of the thread; "rows", "False": it publishes that answer next
  retries,   \* retries of the running handler
  mtries,    \* what is left of retry_run's tries
  link,      \* the AMQP connection, as the broker sees it
  conn,      \* the database connection of each thread
  up,        \* does the database accept connections?
  outages,   \* database outages so far
  answers    \* answers[r]: what was published to reply_to of r

broker == <<called, waiting, buffer, parked, link>>
store  == <<conn, up, outages>>
thread == <<current, pc, retries, mtries>>
vars   == <<broker, thread, store, answers>>

Threads  == {"consumer", "cleaner"}
Texts    == {"rows", "False"}
Unacked  == buffer \cup parked \cup ({current} \ {None})
Held     == Cardinality(buffer) + Cardinality(parked) + (IF current = None THEN 0 ELSE 1)

TypeOK ==
  /\ called \subseteq Requests /\ waiting \subseteq called
  /\ buffer \subseteq called /\ parked \subseteq called
  /\ current \in called \cup {None}
  /\ pc \in {"connect", "consume", "ensure", "query", "rows", "False", "ack", "dead"}
  /\ retries \in 0..(MaxRetries - 1)
  /\ mtries \in 0..Tries
  /\ link \in {"up", "down"}
  /\ conn \in [Threads -> {"none", "live", "stale"}]
  /\ up \in BOOLEAN /\ outages \in 0..MaxOutages
  /\ answers \in [Requests -> Seq(Texts)]

Init ==
  /\ called = {} /\ waiting = {} /\ buffer = {} /\ parked = {}
  /\ current = None /\ pc = "connect" /\ retries = 0 /\ mtries = Tries
  /\ link = "down"
  /\ conn = [t \in Threads |-> "none"] /\ up = TRUE /\ outages = 0
  /\ answers = [r \in Requests |-> <<>>]

-----------------------------------------------------------------------------
(* The broker, the portal and the database                                  *)

Call(r) ==
  /\ r \notin called
  /\ called' = called \cup {r}
  /\ waiting' = waiting \cup {r}
  /\ UNCHANGED <<buffer, parked, link, thread, store, answers>>

\* basic_qos: at most Prefetch messages unacknowledged.
Deliver(r) ==
  /\ link = "up"
  /\ r \in waiting
  /\ Held < Prefetch
  /\ waiting' = waiting \ {r}
  /\ buffer' = buffer \cup {r}
  /\ UNCHANGED <<called, parked, link, thread, store, answers>>

\* The connection goes: whatever was not acknowledged is queued again, even
\* the message the handler is still busy with.
Lose ==
  /\ link = "up"
  /\ link' = "down"
  /\ waiting' = waiting \cup Unacked
  /\ buffer' = {}
  /\ parked' = {}
  /\ UNCHANGED <<called, thread, store, answers>>

Outage ==
  /\ up /\ outages < MaxOutages
  /\ up' = FALSE
  /\ outages' = outages + 1
  /\ conn' = [t \in Threads |-> IF conn[t] = "live" THEN "stale" ELSE conn[t]]
  /\ UNCHANGED <<broker, thread, answers>>

Recover ==
  /\ ~up
  /\ up' = TRUE
  /\ UNCHANGED <<conn, outages, broker, thread, answers>>

-----------------------------------------------------------------------------
(* retry_run around run                                                     *)

Connect ==
  /\ pc = "connect"
  /\ pc' = "consume"
  /\ link' = "up"
  /\ UNCHANGED <<called, waiting, buffer, parked, current, retries, mtries, store, answers>>

\* run raises: no broker, or start_consuming finds the connection closed.
\* The tries are those of the thread's whole life; the last one is not caught.
RunFails ==
  /\ pc = "connect" \/ (pc = "consume" /\ link = "down")
  /\ mtries' = mtries - 1
  /\ pc' = IF mtries > 1 THEN "connect" ELSE "dead"
  /\ UNCHANGED <<current, retries, broker, store, answers>>

-----------------------------------------------------------------------------
(* ensure_db_connections around on_request_portal_catv_call                 *)

Take(r) ==
  /\ pc = "consume" /\ link = "up"
  /\ r \in buffer
  /\ buffer' = buffer \ {r}
  /\ current' = r
  /\ pc' = "ensure"
  /\ UNCHANGED <<called, waiting, parked, link, retries, mtries, store, answers>>

\* The callback is over.
Return(acked) ==
  /\ pc' = "consume"
  /\ retries' = 0
  /\ current' = None
  /\ parked' = IF acked \/ link = "down" THEN parked ELSE parked \cup {current}
  /\ UNCHANGED <<called, waiting, buffer, link, mtries>>

\* Mutant: the retries are not counted.
RaiseUncounted ==
  /\ conn' = [conn EXCEPT !["consumer"] = "none"]
  /\ pc' = "ensure"
  /\ UNCHANGED <<up, outages, answers, broker, current, retries, mtries>>

\* Both except clauses: close_old_connections, then another try or None.
Raise ==
  /\ conn' = [conn EXCEPT !["consumer"] = "none"]
  /\ UNCHANGED <<up, outages, answers>>
  /\ \/ /\ retries + 1 < MaxRetries
        /\ retries' = retries + 1
        /\ pc' = "ensure"
        /\ UNCHANGED <<broker, current, mtries>>
     \/ /\ retries + 1 = MaxRetries
        /\ Return(FALSE)

\* ensure_connection connects where there is no connection object, only there.
Ensure ==
  /\ pc = "ensure"
  /\ \/ /\ conn["consumer"] # "none" \/ up
        /\ conn' = IF conn["consumer"] = "none" THEN [conn EXCEPT !["consumer"] = "live"] ELSE conn
        /\ pc' = "query"
        /\ UNCHANGED <<up, outages, broker, current, retries, mtries, answers>>
     \/ /\ conn["consumer"] = "none" /\ ~up
        /\ Raise

\* The body is read; catv_usage turns every error of the query into False, and
\* a query over a stale connection always raises.
Query ==
  /\ pc = "query"
  /\ \/ current \in Malformed /\ Raise
     \/ /\ current \notin Malformed
        /\ \/ conn["consumer"] = "live" /\ pc' = "rows"
           \/ pc' = "False"
        /\ UNCHANGED <<current, retries, mtries, broker, store, answers>>

\* Mutant: the message is acknowledged before the answer is published.
PublishAfterAck(answer) ==
  /\ pc = answer
  /\ link = "up"
  /\ Return(TRUE)
  /\ UNCHANGED <<store, answers>>

\* Mutant: the handler raises after it has published.
PublishAndRaise(answer) ==
  /\ pc = answer
  /\ answers' = [answers EXCEPT ![current] = Append(@, answer)]
  /\ pc' = "ensure"
  /\ retries + 1 < MaxRetries /\ retries' = retries + 1
  /\ UNCHANGED <<current, mtries, broker, store>>

\* On a lost connection basic_publish raises, or writes to a dead socket.
Publish(answer) ==
  /\ pc = answer
  /\ \/ /\ link = "up"
        /\ answers' = [answers EXCEPT ![current] = Append(@, answer)]
        /\ pc' = "ack"
        /\ UNCHANGED <<current, retries, mtries, broker, store>>
     \/ /\ link = "down"
        /\ pc' = "ack"
        /\ UNCHANGED <<current, retries, mtries, broker, store, answers>>
     \/ link = "down" /\ Raise

Ack ==
  /\ pc = "ack"
  /\ \/ Return(TRUE) /\ UNCHANGED <<store, answers>>
     \/ link = "down" /\ Raise

-----------------------------------------------------------------------------
(* CloseOldConnections                                                      *)

\* connections[alias] is the cleaner thread's own connection.  The close is
\* reached only when ensure_connection raised, with no connection to close.
CleanUp ==
  /\ conn["cleaner"] = "none" /\ up
  /\ conn' = [conn EXCEPT !["cleaner"] = "live"]
  /\ UNCHANGED <<up, outages, broker, thread, answers>>

Serve ==
  \/ Connect \/ RunFails
  \/ \E r \in Requests : Take(r)
  \/ Ensure \/ Query \/ Ack
  \/ \E answer \in Texts : Publish(answer)

Next ==
  \/ \E r \in Requests : Call(r) \/ Deliver(r)
  \/ Lose \/ Outage \/ Recover
  \/ Serve \/ CleanUp

Spec == Init /\ [][Next]_vars

\* The thread runs, the broker pushes and the cleaner wakes up every 900 s.
\* Nothing makes the portal call, a connection drop or the database recover.
FairSpec ==
  Spec /\ WF_vars(Serve) /\ WF_vars(\E r \in Requests : Deliver(r)) /\ WF_vars(CleanUp)

-----------------------------------------------------------------------------
(* Properties                                                               *)

\* A call leaves the broker's keeping only once an answer has been published:
\* whatever connection is lost between the two, it is delivered again.
NothingLost ==
  \A r \in called : r \in waiting \cup Unacked \/ answers[r] # <<>>

\* Each repeated answer costs one of the thread's tries: the retries of
\* ensure_db_connections never repeat an answer by themselves, and no call is
\* answered more than Tries + 1 times however often connections drop.
DuplicatesNeedFailures ==
  \A r \in Requests : Len(answers[r]) <= 1 + (Tries - mtries)

\* Every call is answered unless it is parked, parked messages fill the
\* prefetch window, or the thread has used up its tries.
CallsAreAnswered ==
  \A r \in Requests :
    r \in called ~> \/ answers[r] # <<>>
                    \/ r \in parked \/ Cardinality(parked) = Prefetch
                    \/ pc = "dead"

\* What CloseOldConnections says of itself: stale connections get closed.
StaleGetsClosed ==
  \A t \in Threads : conn[t] = "stale" ~> conn[t] # "stale"
-----------------------------------------------------------------------------
(* The inductive invariant behind the safety properties                     *)

\* A live thread has a try left; and where the messages are: while the connection is up each is in one place;
\* once it is lost the broker has them all, the handler's among them.
PlacesOK ==
  /\ pc # "dead" => mtries > 0
  /\ current # None <=> pc \in {"ensure", "query", "ack"} \cup Texts
  /\ pc \in {"connect", "dead"} => link = "down"
  /\ link = "down" => buffer = {} /\ parked = {} /\ (current # None => current \in waiting)
  /\ link = "up" =>
       /\ waiting \cap buffer = {} /\ waiting \cap parked = {} /\ buffer \cap parked = {}
       /\ current \notin waiting \cup buffer \cup parked

\* Failures so far.  A message that waits for its answer has been answered at
\* most once per failed connection.
Failures == Tries - mtries

AnswersOK ==
  /\ \A r \in Requests \ called : answers[r] = <<>>
  /\ pc = "ack" /\ link = "up" => answers[current] # <<>>
  /\ pc \in {"connect", "dead"} => \A r \in Requests : Len(answers[r]) <= Failures
  /\ link = "up" => \A r \in waiting \cup buffer \cup parked : Len(answers[r]) <= Failures
  /\ link = "up" /\ current # None /\ pc # "ack" => Len(answers[current]) <= Failures

\* What basic_qos asks of the broker.
WindowOK == link = "up" => Held <= Prefetch

IInv == TypeOK /\ WindowOK /\ NothingLost /\ DuplicatesNeedFailures /\ PlacesOK /\ AnswersOK

=============================================================================
