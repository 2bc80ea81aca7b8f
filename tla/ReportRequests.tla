--------------------------- MODULE ReportRequests ---------------------------
(***************************************************************************)
(* The life of a CATV report request: the handlers that create it, the job *)
(* queue, the status row on the primary database and its lagging read      *)
(* replica, the usage (credits) service behind an RPC, the API handler     *)
(* that polls the replica, and the label edits that write the row back.    *)
(*                                                                         *)
(* A request r is one message_id.  Handlers are sequences of steps; every  *)
(* database commit and every RPC is a step of its own, because other       *)
(* actors run between them and the process may die there.                  *)
(***************************************************************************)
EXTENDS Naturals, Sequences

CONSTANTS
  Requests,   \* message ids
  MaxPolls,   \* refreshes check_status can make in its 90 seconds (13 in fact)
  MaxEdits    \* bound: label edits considered

ASSUME MaxPollsAssumption == MaxPolls \in Nat \ {0}
ASSUME MaxEditsAssumption == MaxEdits \in Nat

VARIABLES
  kind,       \* kind[r]: endpoint that handles r, "none" before it arrives
  pc,         \* pc[r]: the step r's handler is about to make
  job,        \* job[r]: the row of the job queue table
  versions,   \* versions[r]: statuses committed for r's row on 'default', oldest first
  replica,    \* replica[r]: how many of them 'readonly' has applied
  rpc,        \* rpc[r]: the usage RPC made for r and its answer
  polls,      \* polls[r]: refreshes made by the API handler of r
  reply,      \* reply[r]: the HTTP answer
  loaded,     \* label edits that have read their row and not yet saved it
  edits       \* label edits begun

handler == <<kind, pc, reply>>
label   == <<loaded, edits>>
vars    == <<kind, pc, job, versions, replica, rpc, polls, reply, loaded, edits>>

Kinds    == {"portal", "resubmit", "api", "kyt"}
Statuses == {"progress", "released", "failed"}
Working  == {"admit", "run", "save", "reauth", "charge", "await", "lookup", "poll"}
Locs     == Working \cup {"idle", "end", "dead"}
Replies  == {"none", "submitted", "released", "failed", "timeout", "denied", "error"}
Edits    == [id : Nat, req : Requests, copy : Statuses]

TypeOK ==
  /\ kind \in [Requests -> Kinds \cup {"none"}]
  /\ pc \in [Requests -> Locs]
  /\ job \in [Requests -> {"none", "queued", "done"}]
  /\ versions \in [Requests -> Seq(Statuses)]
  /\ replica \in [Requests -> Nat]
  /\ rpc \in [Requests -> {"none", "sent", "True", "False"}]
  /\ polls \in [Requests -> 0..MaxPolls]
  /\ reply \in [Requests -> Replies]
  /\ loaded \subseteq Edits
  /\ edits \in 0..MaxEdits

Init ==
  /\ kind = [r \in Requests |-> "none"]
  /\ pc = [r \in Requests |-> "idle"]
  /\ job = [r \in Requests |-> "none"]
  /\ versions = [r \in Requests |-> <<>>]
  /\ replica = [r \in Requests |-> 0]
  /\ rpc = [r \in Requests |-> "none"]
  /\ polls = [r \in Requests |-> 0]
  /\ reply = [r \in Requests |-> "none"]
  /\ loaded = {}
  /\ edits = 0

-----------------------------------------------------------------------------
(* The row of a request                                                     *)

HasRow(r)  == versions[r] # <<>>
Status(r)  == versions[r][Len(versions[r])]
Decided(r) == HasRow(r) /\ Status(r) # "progress"
Saw(r, s)  == \E i \in 1..Len(versions[r]) : versions[r][i] = s

\* Reads go to 'readonly': a handler sees the last version applied there.
Visible(r)  == replica[r] > 0
SeenStatus(r) == versions[r][replica[r]]

Commit(r, s) == versions' = [versions EXCEPT ![r] = Append(@, s)]

-----------------------------------------------------------------------------
(* Order of the handlers' steps.  CATVView.post, CATVReportView.put and     *)
(* CATVReportLinkView.post queue the job and then save the row;             *)
(* CATVKYTInternalView.post charges, saves the row and then queues the job. *)

Portal   == [admit |-> "run", save |-> "reauth"]     \* CATVView.post
Resubmit == [admit |-> "run", save |-> "charge"]     \* CATVReportView.put

\* Mutant: the API charges before the report is out.
ApiCharging == [admit |-> "run", save |-> "charge"]
Api         == [admit |-> "run", save |-> "lookup"]  \* CATVReportLinkView.post

Kyt       == [admit |-> "charge", save |-> "run"]    \* CATVKYTInternalView.post

Order == [portal |-> Portal, resubmit |-> Resubmit, api |-> Api, kyt |-> Kyt]

Goto(r, l)   == pc' = [pc EXCEPT ![r] = l] /\ UNCHANGED <<kind, reply>>
Finish(r, a) ==
  /\ pc' = [pc EXCEPT ![r] = "end"]
  /\ reply' = [reply EXCEPT ![r] = a]
  /\ UNCHANGED kind

Arrive(r, k) ==
  /\ pc[r] = "idle"
  /\ kind' = [kind EXCEPT ![r] = k]
  /\ pc' = [pc EXCEPT ![r] = "admit"]
  /\ UNCHANGED <<job, versions, replica, rpc, polls, reply>> /\ UNCHANGED label

\* Validation, permission, throttle and credit checks, made before anything is written.
Admit(r) ==
  /\ pc[r] = "admit"
  /\ \/ Goto(r, Order[kind[r]].admit)
     \/ Finish(r, "denied")
  /\ UNCHANGED <<job, versions, replica, rpc, polls>> /\ UNCHANGED label

\* Mutant: an error of the insert is swallowed.
RunJobSwallowing(r) ==
  /\ pc[r] = "run"
  /\ \E j \in {"none", "queued"} : job' = [job EXCEPT ![r] = j]
  /\ \/ kind[r] # "kyt" /\ Goto(r, "save")
     \/ kind[r] = "kyt" /\ Finish(r, "submitted")
  /\ UNCHANGED <<versions, replica, rpc, polls>> /\ UNCHANGED label

\* The insert into the job queue, in autocommit.  It is KYT's last step.
RunJob(r) ==
  /\ pc[r] = "run"
  /\ job' = [job EXCEPT ![r] = "queued"]
  /\ \/ kind[r] # "kyt" /\ Goto(r, "save")
     \/ kind[r] = "kyt" /\ Finish(r, "submitted")
  /\ UNCHANGED <<versions, replica, rpc, polls>> /\ UNCHANGED label

\* One transaction for CatvRequestStatus and CatvResult.
SaveRows(r) ==
  /\ pc[r] = "save"
  /\ Commit(r, "progress")
  /\ Goto(r, Order[kind[r]].save)
  /\ UNCHANGED <<job, replica, rpc, polls>> /\ UNCHANGED label

\* submit_catv_request authenticates the token again before it charges; an
\* expired token or timestamp makes this step fail, see StepFails.
Reauthenticate(r) ==
  /\ pc[r] = "reauth"
  /\ Goto(r, "charge")
  /\ UNCHANGED <<job, versions, replica, rpc, polls>> /\ UNCHANGED label

\* RPCClientUpdateUsageCatvCall.call publishes its request ...
Charge(r) ==
  /\ pc[r] = "charge"
  /\ rpc' = [rpc EXCEPT ![r] = "sent"]
  /\ Goto(r, "await")
  /\ UNCHANGED <<job, versions, replica, polls>> /\ UNCHANGED label

\* Mutant: KYT goes on to its job without its row.
AwaitUsageQueueing(r) ==
  /\ pc[r] = "await"
  /\ rpc[r] \in {"True", "False"}
  /\ \/ kind[r] = "kyt" /\ rpc[r] = "True" /\ Goto(r, "run")
     \/ kind[r] = "kyt" /\ rpc[r] = "False" /\ Finish(r, "denied")
     \/ kind[r] \in {"portal", "resubmit"} /\ Finish(r, "submitted")
     \/ kind[r] = "api" /\ Finish(r, "released")
  /\ UNCHANGED <<job, versions, replica, rpc, polls>> /\ UNCHANGED label

\* ... and waits, without a timeout, for the answer.  Only KYT looks at it.
AwaitUsage(r) ==
  /\ pc[r] = "await"
  /\ rpc[r] \in {"True", "False"}
  /\ \/ kind[r] = "kyt" /\ rpc[r] = "True" /\ Goto(r, "save")
     \/ kind[r] = "kyt" /\ rpc[r] = "False" /\ Finish(r, "denied")
     \/ kind[r] \in {"portal", "resubmit"} /\ Finish(r, "submitted")
     \/ kind[r] = "api" /\ Finish(r, "released")
  /\ UNCHANGED <<job, versions, replica, rpc, polls>> /\ UNCHANGED label

\* check_status: the first read, before the loop.
LookUp(r) ==
  /\ pc[r] = "lookup"
  /\ \/ Visible(r) /\ Goto(r, "poll")
     \/ ~Visible(r) /\ Finish(r, "error")     \* DoesNotExist
  /\ UNCHANGED <<job, versions, replica, rpc, polls>> /\ UNCHANGED label

PollOnce(r) ==
  \/ SeenStatus(r) = "progress" /\ UNCHANGED handler
  \/ SeenStatus(r) = "released" /\ Goto(r, "charge")
  \/ SeenStatus(r) = "failed" /\ Finish(r, "failed")

PollForever(r) ==
  /\ pc[r] = "poll"
  /\ PollOnce(r)
  /\ UNCHANGED <<job, versions, replica, rpc, polls>> /\ UNCHANGED label

\* check_status: one refresh_from_db, and a sleep when still in progress.
Poll(r) ==
  /\ pc[r] = "poll"
  /\ polls[r] < MaxPolls
  /\ polls' = [polls EXCEPT ![r] = @ + 1]
  /\ PollOnce(r)
  /\ UNCHANGED <<job, versions, replica, rpc>> /\ UNCHANGED label

\* check_status: the clock is read before every refresh; the first reading is
\* taken right after the deadline is set and never times out.
PollTimeout(r) ==
  /\ pc[r] = "poll"
  /\ polls[r] > 0
  /\ Finish(r, "timeout")
  /\ UNCHANGED <<job, versions, replica, rpc, polls>> /\ UNCHANGED label

\* A database, cache, broker or authentication error: the handler answers with
\* an error and undoes nothing.
StepFails(r) ==
  /\ pc[r] \in Working \ {"admit"}
  /\ Finish(r, "error")
  /\ UNCHANGED <<job, versions, replica, rpc, polls>> /\ UNCHANGED label

\* The server process dies under the handler.
Crash(r) ==
  /\ pc[r] \in Working
  /\ Goto(r, "dead")
  /\ UNCHANGED <<job, versions, replica, rpc, polls>> /\ UNCHANGED label

HandlerStep(r) ==
  \/ Admit(r) \/ RunJob(r) \/ SaveRows(r) \/ Reauthenticate(r)
  \/ Charge(r) \/ AwaitUsage(r) \/ LookUp(r) \/ Poll(r) \/ PollTimeout(r)

-----------------------------------------------------------------------------
(* CATVRequestDetailView.patch: reads the row, sets labels, saves all of it *)

LoadForEdit(r) ==
  /\ edits < MaxEdits
  /\ Visible(r)
  /\ edits' = edits + 1
  /\ loaded' = loaded \cup {[id |-> edits, req |-> r, copy |-> SeenStatus(r)]}
  /\ UNCHANGED <<kind, pc, job, versions, replica, rpc, polls, reply>>

\* Mutant: the saved object is not the one that was read.
SaveEditReset(l) ==
  /\ l \in loaded
  /\ Commit(l.req, "progress")
  /\ loaded' = loaded \ {l}
  /\ UNCHANGED <<kind, pc, job, replica, rpc, polls, reply, edits>>

SaveEdit(l) ==
  /\ l \in loaded
  /\ Commit(l.req, l.copy)
  /\ loaded' = loaded \ {l}
  /\ UNCHANGED <<kind, pc, job, replica, rpc, polls, reply, edits>>

-----------------------------------------------------------------------------
(* Outside src/: the report worker, the usage service, streaming replication *)

\* The worker takes the job, generates the report and updates the status of the
\* row, if there is one yet.
WorkerFinish(r, s) ==
  /\ job[r] = "queued"
  /\ job' = [job EXCEPT ![r] = "done"]
  /\ \/ HasRow(r) /\ Commit(r, s)
     \/ ~HasRow(r) /\ UNCHANGED versions
  /\ UNCHANGED <<replica, rpc, polls>> /\ UNCHANGED handler /\ UNCHANGED label

\* The service deducts the credits iff it answers 'True'.
UsageReply(r, answer) ==
  /\ rpc[r] = "sent"
  /\ rpc' = [rpc EXCEPT ![r] = answer]
  /\ UNCHANGED <<job, versions, replica, polls>> /\ UNCHANGED handler /\ UNCHANGED label

Replicate(r) ==
  /\ replica[r] < Len(versions[r])
  /\ replica' = [replica EXCEPT ![r] = @ + 1]
  /\ UNCHANGED <<job, versions, rpc, polls>> /\ UNCHANGED handler /\ UNCHANGED label

Next ==
  \/ \E r \in Requests :
       \/ \E k \in Kinds : Arrive(r, k)
       \/ HandlerStep(r)
       \/ StepFails(r)
       \/ Crash(r)
       \/ LoadForEdit(r)
       \/ \E s \in {"released", "failed"} : WorkerFinish(r, s)
       \/ \E a \in {"True", "False"} : UsageReply(r, a)
       \/ Replicate(r)
  \/ \E l \in loaded : SaveEdit(l)

\* Handlers run on live threads.  Nothing is assumed of callers, of the worker, of
\* replication, of the usage service or of label edits.
Fairness == \A r \in Requests : WF_vars(HandlerStep(r))

Spec     == Init /\ [][Next]_vars
FairSpec == Spec /\ Fairness

-----------------------------------------------------------------------------
(* Properties                                                               *)

\* "update usage only if released" (CATVReportLinkView.post): the API user's
\* credits are touched only for a report the worker did release, although the
\* handler reads the replica and label edits write old rows back.
ApiPaysOnlyForReleased ==
  \A r \in Requests :
    kind[r] = "api" /\ rpc[r] # "none" => Saw(r, "released")

\* "Deducts credits before creating the job" (CATVKYTInternalView): whatever
\* fails or dies, KYT work that exists was paid for.
KytPaysFirst ==
  \A r \in Requests :
    kind[r] = "kyt" /\ (HasRow(r) \/ job[r] # "none") => rpc[r] = "True"

\* KYT saves the row before it queues the job, so the worker's verdict always
\* finds a row to be written to.  (The other endpoints queue the job first: their
\* verdict can be lost, see the README.)
KytVerdictIsRecorded ==
  \A r \in Requests :
    kind[r] = "kyt" /\ job[r] = "done" => Saw(r, "released") \/ Saw(r, "failed")

\* The HTTP answers are true when they are given and stay true: a submitted
\* request has its job and its row, a released one is released and was charged
\* for, a failed or timed out one costs nothing, a denied one left nothing behind.
\* An error undoes nothing, but only KYT's may be paid for without work in hand.
AnswerIsTrue(r) ==
  /\ reply[r] = "submitted" => HasRow(r) /\ job[r] # "none" /\ rpc[r] \in {"True", "False"}
  /\ reply[r] = "released" => Saw(r, "released") /\ rpc[r] \in {"True", "False"}
  /\ reply[r] = "failed" => Saw(r, "failed") /\ rpc[r] = "none"
  /\ reply[r] = "timeout" => HasRow(r) /\ job[r] # "none" /\ rpc[r] = "none"
  /\ reply[r] = "denied" => ~HasRow(r) /\ job[r] = "none" /\ rpc[r] \in {"none", "False"}
  /\ reply[r] = "error" /\ kind[r] # "kyt" /\ (HasRow(r) \/ rpc[r] # "none")
       => HasRow(r) /\ job[r] # "none"

AnswersAreTrue == \A r \in Requests : AnswerIsTrue(r)

\* A decided request goes back to "progress" in one way only: a label edit that
\* read the row before the verdict saves all of its stale copy over it.
ReopensOnlyByStaleEdit ==
  [][ \A r \in Requests :
        Decided(r) /\ Status(r)' = "progress"
          => \E l \in loaded \ loaded' : l.req = r /\ l.copy = "progress" ]_vars

\* check_status gives up: the polling loop of the API handler ends even when the
\* report stays in progress for ever.
PollingEnds == \A r \in Requests : pc[r] = "poll" ~> pc[r] # "poll"

\* The detailed system implements the promise of ReportService.
Verdict(r) == IF Saw(r, "released") THEN "released"
              ELSE IF Saw(r, "failed") THEN "failed" ELSE "none"
Outcome(r) == IF HasRow(r) THEN Status(r) ELSE "absent"
Billed(r)  == rpc[r] = "True"

Service == INSTANCE ReportService WITH
  channel <- kind,
  outcome <- [r \in Requests |-> Outcome(r)],
  verdict <- [r \in Requests |-> Verdict(r)],
  billed  <- [r \in Requests |-> Billed(r)],
  answer  <- reply

KeepsThePromise == Service!Spec

-----------------------------------------------------------------------------
(* The inductive invariant behind the safety properties                     *)

\* Until its job is done, nothing but "progress" is ever written for r.
Undecided(r) == ~Saw(r, "released") /\ ~Saw(r, "failed")

\* What each step of a handler can rely on, and what a finished one leaves.
StageOK(r) ==
  /\ pc[r] \in {"idle", "admit"} => job[r] = "none" /\ ~HasRow(r) /\ rpc[r] = "none"
  /\ pc[r] = "idle" <=> kind[r] = "none"
  /\ pc[r] = "reauth" => kind[r] = "portal"
  /\ pc[r] \in {"lookup", "poll"} => kind[r] = "api"
  /\ reply[r] # "none" => pc[r] = "end"

\* Endpoints that queue the job before they save the row.
QueueFirstOK(r) ==
  kind[r] # "kyt" =>
    /\ pc[r] = "run" => job[r] = "none" /\ ~HasRow(r) /\ rpc[r] = "none"
    /\ pc[r] = "save" => job[r] # "none" /\ ~HasRow(r) /\ rpc[r] = "none"
    /\ pc[r] \in {"reauth", "charge", "lookup", "poll"}
         => job[r] # "none" /\ HasRow(r) /\ rpc[r] = "none"
    /\ pc[r] = "await" => job[r] # "none" /\ HasRow(r)
    /\ rpc[r] # "none" => HasRow(r)
    /\ HasRow(r) => job[r] # "none"

\* KYT: charge, save the row, queue the job.
KytOK(r) ==
  kind[r] = "kyt" =>
    /\ pc[r] \in {"charge", "await"} => job[r] = "none" /\ ~HasRow(r)
    /\ pc[r] = "charge" => rpc[r] = "none"
    /\ pc[r] = "save" => job[r] = "none" /\ ~HasRow(r) /\ rpc[r] = "True"
    /\ pc[r] = "run" => job[r] = "none" /\ HasRow(r) /\ rpc[r] = "True"
    /\ job[r] # "none" => HasRow(r)

ReplicaOK(r) ==
  /\ replica[r] <= Len(versions[r])
  /\ pc[r] = "poll" => Visible(r)

VerdictOK(r) ==
  /\ job[r] # "done" => Undecided(r)
  /\ ~(Saw(r, "released") /\ Saw(r, "failed"))
  /\ kind[r] = "api" /\ (pc[r] = "charge" \/ rpc[r] # "none") => Saw(r, "released")
  /\ kind[r] = "kyt" /\ job[r] = "done" => ~Undecided(r)
  /\ kind[r] = "kyt" /\ (HasRow(r) \/ job[r] # "none") => rpc[r] = "True"

RequestOK(r) ==
  StageOK(r) /\ QueueFirstOK(r) /\ KytOK(r) /\ ReplicaOK(r) /\ VerdictOK(r) /\ AnswerIsTrue(r)

\* An edit holds a status its row did have.
EditsOK == \A l \in loaded : Saw(l.req, l.copy)

IInv == TypeOK /\ (\A r \in Requests : RequestOK(r)) /\ EditsOK

=============================================================================
