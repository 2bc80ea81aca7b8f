--------------------------- MODULE ReportService ---------------------------
(***************************************************************************)
(* What the report service promises its callers, without handlers, queues, *)
(* replicas or RPCs.  A request enters by one of four channels.  It may be *)
(* accepted (its status row exists), get one verdict, be billed, and its   *)
(* caller may get one answer.  ReportRequests.tla, which follows the code  *)
(* step by step, implements this module.                                   *)
(***************************************************************************)

CONSTANT Requests    \* message ids: one per submission

VARIABLES
  channel,           \* channel[r]: the endpoint the request came in by
  outcome,           \* outcome[r]: status the database shows, or "absent"
  verdict,           \* verdict[r]: what the worker decided, once and for all
  billed,            \* billed[r]: the user's credits were deducted
  answer             \* answer[r]: the HTTP answer, or "none"

svars == <<channel, outcome, verdict, billed, answer>>

Channels == {"portal", "resubmit", "api", "kyt"}
Verdicts == {"released", "failed"}
Answers  == {"submitted", "released", "failed", "timeout", "denied", "error"}

Init ==
  /\ channel = [r \in Requests |-> "none"]
  /\ outcome = [r \in Requests |-> "absent"]
  /\ verdict = [r \in Requests |-> "none"]
  /\ billed  = [r \in Requests |-> FALSE]
  /\ answer  = [r \in Requests |-> "none"]

Open(r, c) ==
  /\ channel[r] = "none"
  /\ channel' = [channel EXCEPT ![r] = c]
  /\ UNCHANGED <<outcome, verdict, billed, answer>>

\* A KYT request is accepted only after it was paid for.
Accept(r) ==
  /\ channel[r] # "none"
  /\ outcome[r] = "absent"
  /\ channel[r] = "kyt" => billed[r]
  /\ outcome' = [outcome EXCEPT ![r] = "progress"]
  /\ UNCHANGED <<channel, verdict, billed, answer>>

Decide(r, v) ==
  /\ outcome[r] = "progress"
  /\ verdict[r] = "none"
  /\ outcome' = [outcome EXCEPT ![r] = v]
  /\ verdict' = [verdict EXCEPT ![r] = v]
  /\ UNCHANGED <<channel, billed, answer>>

\* Saving labels may put an older status back, never the opposite verdict.
Relabel(r) ==
  /\ verdict[r] # "none"
  /\ \E s \in {"progress", verdict[r]} : outcome' = [outcome EXCEPT ![r] = s]
  /\ UNCHANGED <<channel, verdict, billed, answer>>

\* A request is billed at most once: KYT before it is accepted, the portal
\* after, the API only for a report that was released.
Bill(r) ==
  /\ ~billed[r]
  /\ \/ channel[r] = "kyt" /\ outcome[r] = "absent"
     \/ channel[r] \in {"portal", "resubmit"} /\ outcome[r] # "absent"
     \/ channel[r] = "api" /\ verdict[r] = "released"
  /\ billed' = [billed EXCEPT ![r] = TRUE]
  /\ UNCHANGED <<channel, outcome, verdict, answer>>

\* What may be answered when.
Truthful(r, a) ==
  CASE a = "submitted" -> outcome[r] # "absent" /\ channel[r] # "api"
    [] a = "released"  -> verdict[r] = "released"
    [] a = "failed"    -> verdict[r] = "failed" /\ ~billed[r]
    [] a = "timeout"   -> channel[r] = "api" /\ ~billed[r]
    [] a = "denied"    -> outcome[r] = "absent" /\ ~billed[r]
    [] OTHER           -> TRUE

Answer(r, a) ==
  /\ answer[r] = "none"
  /\ channel[r] # "none"
  /\ Truthful(r, a)
  /\ answer' = [answer EXCEPT ![r] = a]
  /\ UNCHANGED <<channel, outcome, verdict, billed>>

Next ==
  \E r \in Requests :
    \/ \E c \in Channels : Open(r, c)
    \/ Accept(r)
    \/ \E v \in Verdicts : Decide(r, v)
    \/ Relabel(r)
    \/ Bill(r)
    \/ \E a \in Answers : Answer(r, a)

Spec == Init /\ [][Next]_svars

=============================================================================
