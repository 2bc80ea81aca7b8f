----------------------- MODULE ReportRequests_proofs -----------------------
(***************************************************************************)
(* Proofs about ReportRequests, for any set of requests, any number of     *)
(* polls and any number of label edits.                                    *)
(***************************************************************************)
EXTENDS ReportRequests, TLAPS

USE DEF Kinds, Statuses, Working, Locs, Replies

-----------------------------------------------------------------------------
(* The status row                                                           *)

\* A committed status is added to what the row has held; the other rows keep theirs.
LEMMA CommitAdds ==
  ASSUME TypeOK, NEW q \in Requests, NEW s \in Statuses, Commit(q, s)
  PROVE  /\ versions' \in [Requests -> Seq(Statuses)]
         /\ Status(q)' = s
         /\ \A r \in Requests :
              /\ r # q => versions'[r] = versions[r]
              /\ HasRow(r)' <=> HasRow(r) \/ r = q
              /\ \A t \in Statuses : Saw(r, t)' <=> Saw(r, t) \/ (r = q /\ t = s)
              /\ Len(versions[r])' >= Len(versions[r])
<1>1. versions' = [versions EXCEPT ![q] = Append(versions[q], s)]
  BY DEF Commit
<1>2. versions \in [Requests -> Seq(Statuses)] /\ versions[q] \in Seq(Statuses)
  BY DEF TypeOK
<1>3. Append(versions[q], s) \in Seq(Statuses)
  BY <1>2
<1>4. versions' \in [Requests -> Seq(Statuses)]
  BY <1>1, <1>2, <1>3
<1>5. ASSUME NEW r \in Requests
      PROVE  /\ HasRow(r)' <=> HasRow(r) \/ r = q
             /\ \A t \in Statuses : Saw(r, t)' <=> Saw(r, t) \/ (r = q /\ t = s)
             /\ Len(versions[r])' >= Len(versions[r])
  <2>1. CASE r # q
    <3>1. versions[r]' = versions[r]
      BY <1>1, <1>2, <2>1
    <3>2. Len(versions[r]) \in Nat
      BY <1>2
    <3> QED
      BY <2>1, <3>1, <3>2 DEF HasRow, Saw
  <2>2. CASE r = q
    <3>1. versions[q]' = Append(versions[q], s)
      BY <1>1, <1>2
    <3>2. /\ Len(versions[q]) \in Nat
          /\ Len(versions[q]') = Len(versions[q]) + 1
          /\ versions[q]'[Len(versions[q]) + 1] = s
          /\ \A i \in 1..Len(versions[q]) : versions[q]'[i] = versions[q][i]
      BY <1>2, <3>1
    <3>3. versions[q]' # <<>>
      BY <3>2
    <3>4. ASSUME NEW t \in Statuses
          PROVE  Saw(q, t)' <=> Saw(q, t) \/ t = s
      <4>1. ASSUME NEW i \in 1..Len(versions[q]'), versions[q]'[i] = t, t # s PROVE Saw(q, t)
        <5>1. i \in 1..Len(versions[q])
          BY <3>2, <4>1
        <5> QED
          BY <3>2, <4>1, <5>1 DEF Saw
      <4>2. 1..Len(versions[q]) \subseteq 1..Len(versions[q]')
            /\ Len(versions[q]) + 1 \in 1..Len(versions[q]')
        BY <3>2
      <4> QED
        BY <3>2, <4>1, <4>2 DEF Saw
    <3> QED
      BY <2>2, <3>2, <3>3, <3>4 DEF HasRow
  <2> QED
    BY <2>1, <2>2
<1>6. Status(q)' = s
  <2>1. versions'[q] = Append(versions[q], s)
    BY <1>1, <1>2
  <2>2. Len(versions'[q]) = Len(versions[q]) + 1 /\ versions'[q][Len(versions[q]) + 1] = s
    BY <1>2, <2>1
  <2> QED
    BY <2>2 DEF Status
<1>7. \A r \in Requests : r # q => versions'[r] = versions[r]
  BY <1>1, <1>2
<1> QED
  BY <1>4, <1>5, <1>6, <1>7

LEMMA NoCommit ==
  ASSUME UNCHANGED versions
  PROVE  \A r \in Requests :
           /\ HasRow(r)' <=> HasRow(r)
           /\ \A t \in Statuses : Saw(r, t)' <=> Saw(r, t)
BY DEF HasRow, Saw

\* A visible row shows a status that was committed.
LEMMA SeenIsSaw ==
  ASSUME TypeOK, NEW r \in Requests, ReplicaOK(r), Visible(r)
  PROVE  SeenStatus(r) \in Statuses /\ Saw(r, SeenStatus(r)) /\ HasRow(r)
<1>1. versions[r] \in Seq(Statuses) /\ replica[r] \in Nat
  BY DEF TypeOK
<1>2. replica[r] \in 1..Len(versions[r])
  BY <1>1 DEF ReplicaOK, Visible
<1> QED
  BY <1>1, <1>2 DEF SeenStatus, Saw, HasRow

-----------------------------------------------------------------------------
(* Type correctness                                                         *)

\* A handler that has begun has a kind, and its kind names its next step.
LEMMA NextSteps ==
  ASSUME TypeOK, NEW r \in Requests, StageOK(r), pc[r] # "idle"
  PROVE  /\ kind[r] \in Kinds
         /\ Order[kind[r]].admit = (IF kind[r] = "kyt" THEN "charge" ELSE "run")
         /\ Order[kind[r]].save = (CASE kind[r] = "portal" -> "reauth"
                                    [] kind[r] = "resubmit" -> "charge"
                                    [] kind[r] = "api" -> "lookup"
                                    [] OTHER -> "run")
<1>1. kind[r] \in Kinds
  BY DEF TypeOK, StageOK
<1> QED
  BY <1>1 DEF Order, Portal, Resubmit, Api, Kyt

\* Every variable keeps to its type in every step.
LEMMA TypeStep ==
  TypeOK /\ (\A r \in Requests : StageOK(r) /\ ReplicaOK(r)) /\ [Next]_vars => TypeOK'
<1> SUFFICES ASSUME TypeOK, \A r \in Requests : StageOK(r) /\ ReplicaOK(r), [Next]_vars
             PROVE  TypeOK'
  OBVIOUS
<1> USE DEF Goto, Finish, handler, label
<1>1. ASSUME NEW r \in Requests, NEW k \in Kinds, Arrive(r, k) PROVE TypeOK'
  BY <1>1 DEF Arrive, TypeOK
<1>2. ASSUME NEW r \in Requests, Admit(r) PROVE TypeOK'
  <2>1. Order[kind[r]].admit \in Locs
    BY <1>2, NextSteps DEF Admit
  <2>2. /\ \/ pc' = [pc EXCEPT ![r] = Order[kind[r]].admit] /\ reply' = reply
           \/ pc' = [pc EXCEPT ![r] = "end"] /\ reply' = [reply EXCEPT ![r] = "denied"]
        /\ UNCHANGED <<kind, job, versions, replica, rpc, polls, loaded, edits>>
    BY <1>2 DEF Admit
  <2>3. pc' \in [Requests -> Locs] /\ reply' \in [Requests -> Replies]
    BY <2>1, <2>2 DEF TypeOK
  <2> QED
    BY <2>2, <2>3 DEF TypeOK
<1>3. ASSUME NEW r \in Requests, RunJob(r) PROVE TypeOK'
  BY <1>3 DEF RunJob, TypeOK
<1>4. ASSUME NEW r \in Requests, SaveRows(r) PROVE TypeOK'
  <2>1. Commit(r, "progress") /\ versions' \in [Requests -> Seq(Statuses)]
    BY <1>4, CommitAdds DEF SaveRows
  <2>2. Order[kind[r]].save \in Locs
    BY <1>4, NextSteps DEF SaveRows
  <2> QED
    BY <1>4, <2>1, <2>2 DEF SaveRows, TypeOK
<1>5. ASSUME NEW r \in Requests, Reauthenticate(r) PROVE TypeOK'
  BY <1>5 DEF Reauthenticate, TypeOK
<1>6. ASSUME NEW r \in Requests, Charge(r) PROVE TypeOK'
  BY <1>6 DEF Charge, TypeOK
<1>7. ASSUME NEW r \in Requests, AwaitUsage(r) PROVE TypeOK'
  BY <1>7 DEF AwaitUsage, TypeOK
<1>8. ASSUME NEW r \in Requests, LookUp(r) PROVE TypeOK'
  BY <1>8 DEF LookUp, TypeOK
<1>9. ASSUME NEW r \in Requests, Poll(r) PROVE TypeOK'
  <2>1. polls' \in [Requests -> 0..MaxPolls]
    BY <1>9, MaxPollsAssumption DEF Poll, TypeOK
  <2> QED
    BY <1>9, <2>1 DEF Poll, PollOnce, TypeOK
<1>10. ASSUME NEW r \in Requests, PollTimeout(r) PROVE TypeOK'
  BY <1>10 DEF PollTimeout, TypeOK
<1>11. ASSUME NEW r \in Requests, StepFails(r) PROVE TypeOK'
  BY <1>11 DEF StepFails, TypeOK
<1>12. ASSUME NEW r \in Requests, Crash(r) PROVE TypeOK'
  BY <1>12 DEF Crash, TypeOK
<1>13. ASSUME NEW r \in Requests, LoadForEdit(r) PROVE TypeOK'
  <2>1. SeenStatus(r) \in Statuses
    BY <1>13, SeenIsSaw DEF LoadForEdit
  <2>2. edits \in Nat /\ edits' \in 0..MaxEdits
    BY <1>13, MaxEditsAssumption DEF LoadForEdit, TypeOK
  <2>3. loaded' \subseteq Edits
    BY <1>13, <2>1, <2>2 DEF LoadForEdit, TypeOK, Edits
  <2> QED
    BY <1>13, <2>2, <2>3 DEF LoadForEdit, TypeOK
<1>14. ASSUME NEW l \in loaded, SaveEdit(l) PROVE TypeOK'
  <2>1. l.req \in Requests /\ l.copy \in Statuses
    BY DEF TypeOK, Edits
  <2>2. Commit(l.req, l.copy)
    BY <1>14 DEF SaveEdit
  <2>3. versions' \in [Requests -> Seq(Statuses)]
    BY <2>1, <2>2, CommitAdds
  <2> QED
    BY <1>14, <2>3 DEF SaveEdit, TypeOK
<1>15. ASSUME NEW r \in Requests, NEW s \in {"released", "failed"}, WorkerFinish(r, s) PROVE TypeOK'
  <2>1. versions' \in [Requests -> Seq(Statuses)]
    <3>1. CASE HasRow(r) /\ Commit(r, s)
      BY <3>1, CommitAdds
    <3>2. CASE UNCHANGED versions
      BY <3>2 DEF TypeOK
    <3> QED
      BY <1>15, <3>1, <3>2 DEF WorkerFinish
  <2> QED
    BY <1>15, <2>1 DEF WorkerFinish, TypeOK
<1>16. ASSUME NEW r \in Requests, NEW a \in {"True", "False"}, UsageReply(r, a) PROVE TypeOK'
  BY <1>16 DEF UsageReply, TypeOK
<1>17. ASSUME NEW r \in Requests, Replicate(r) PROVE TypeOK'
  BY <1>17 DEF Replicate, TypeOK
<1>18. CASE UNCHANGED vars
  BY <1>18 DEF vars, TypeOK
<1> QED
  BY <1>1, <1>2, <1>3, <1>4, <1>5, <1>6, <1>7, <1>8, <1>9, <1>10, <1>11, <1>12, <1>13,
     <1>14, <1>15, <1>16, <1>17, <1>18 DEF Next, HandlerStep

-----------------------------------------------------------------------------
(* The inductive invariant                                                  *)

\* What a step does to a request it does not touch.
LEMMA Untouched ==
  ASSUME NEW q \in Requests, RequestOK(q),
         kind'[q] = kind[q], pc'[q] = pc[q], job'[q] = job[q], versions'[q] = versions[q],
         replica'[q] = replica[q], rpc'[q] = rpc[q], reply'[q] = reply[q]
  PROVE  RequestOK(q)'
BY DEF RequestOK, StageOK, QueueFirstOK, KytOK, ReplicaOK, VerdictOK, AnswerIsTrue,
       Undecided, Visible, HasRow, Saw

\* A step of a handler that leaves the row alone.
LEMMA HandlerKeeps ==
  ASSUME TypeOK, \A q \in Requests : RequestOK(q), NEW r \in Requests,
         \/ \E k \in Kinds : Arrive(r, k)
         \/ Admit(r) \/ RunJob(r) \/ Reauthenticate(r) \/ Charge(r) \/ AwaitUsage(r)
         \/ LookUp(r) \/ Poll(r) \/ PollTimeout(r) \/ StepFails(r) \/ Crash(r)
  PROVE  \A q \in Requests : RequestOK(q)'
<1> USE DEF Goto, Finish, PollOnce, handler, label
<1>1. UNCHANGED <<versions, replica>>
  BY DEF Arrive, Admit, RunJob, Reauthenticate, Charge, AwaitUsage, LookUp, Poll,
         PollTimeout, StepFails, Crash
<1>2. ASSUME NEW q \in Requests, q # r PROVE RequestOK(q)'
  <2>1. /\ kind'[q] = kind[q] /\ pc'[q] = pc[q] /\ job'[q] = job[q]
        /\ rpc'[q] = rpc[q] /\ reply'[q] = reply[q]
    BY <1>2 DEF TypeOK, Arrive, Admit, RunJob, Reauthenticate, Charge, AwaitUsage, LookUp,
                Poll, PollTimeout, StepFails, Crash
  <2> QED
    BY <1>1, <2>1, Untouched
<1>3. RequestOK(r)'
  <2>1. /\ HasRow(r)' <=> HasRow(r)
        /\ Saw(r, "released")' <=> Saw(r, "released")
        /\ Saw(r, "failed")' <=> Saw(r, "failed")
        /\ Len(versions[r])' = Len(versions[r]) /\ replica'[r] = replica[r]
    BY <1>1, NoCommit
  <2>2. RequestOK(r)
    OBVIOUS
  <2> USE <2>1, <2>2 DEF RequestOK, StageOK, QueueFirstOK, KytOK, ReplicaOK, VerdictOK,
          AnswerIsTrue, Undecided, Visible, TypeOK
  <2>3. ASSUME NEW k \in Kinds, Arrive(r, k) PROVE RequestOK(r)'
    BY <2>3 DEF Arrive
  <2>4. CASE Admit(r)
    <3>1. Order[kind[r]].admit = (IF kind[r] = "kyt" THEN "charge" ELSE "run")
      BY <2>4, NextSteps DEF Admit
    <3> QED
      BY <2>4, <3>1 DEF Admit
  <2>5. CASE RunJob(r)
    BY <2>5 DEF RunJob
  <2>6. CASE Reauthenticate(r)
    BY <2>6 DEF Reauthenticate
  <2>7. CASE Charge(r)
    BY <2>7 DEF Charge
  <2>8. CASE AwaitUsage(r)
    BY <2>8 DEF AwaitUsage
  <2>9. CASE LookUp(r)
    BY <2>9 DEF LookUp
  <2>10. CASE Poll(r)
    <3>1. Saw(r, SeenStatus(r))
      BY <2>10, SeenIsSaw DEF Poll
    <3> QED
      BY <2>10, <3>1 DEF Poll, PollOnce
  <2>11. CASE PollTimeout(r)
    BY <2>11 DEF PollTimeout
  <2>12. CASE StepFails(r)
    BY <2>12 DEF StepFails
  <2>13. CASE Crash(r)
    BY <2>13 DEF Crash
  <2> QED
    BY <2>3, <2>4, <2>5, <2>6, <2>7, <2>8, <2>9, <2>10, <2>11, <2>12, <2>13
<1> QED
  BY <1>2, <1>3

\* A step that commits a version of r's row: the insert, a saved edit, a verdict.
LEMMA CommitKeeps ==
  ASSUME IInv, NEW r \in Requests,
         \/ SaveRows(r)
         \/ \E l \in loaded : l.req = r /\ SaveEdit(l)
         \/ \E s \in {"released", "failed"} : HasRow(r) /\ WorkerFinish(r, s) /\ Commit(r, s)
  PROVE  \A q \in Requests : RequestOK(q)'
<1> USE DEF Goto, Finish, handler, label
<1>1. TypeOK /\ \A q \in Requests : RequestOK(q)
  BY DEF IInv
<1>2. PICK s \in Statuses : Commit(r, s)
  BY DEF SaveRows, SaveEdit, WorkerFinish, IInv, TypeOK, Edits
<1>3. UNCHANGED replica
  BY DEF SaveRows, SaveEdit, WorkerFinish
<1>4. ASSUME NEW q \in Requests, q # r PROVE RequestOK(q)'
  <2>1. /\ kind'[q] = kind[q] /\ pc'[q] = pc[q] /\ job'[q] = job[q]
        /\ rpc'[q] = rpc[q] /\ reply'[q] = reply[q] /\ versions'[q] = versions[q]
    BY <1>1, <1>2, <1>4 DEF TypeOK, SaveRows, SaveEdit, WorkerFinish, Commit
  <2> QED
    BY <1>1, <1>3, <2>1, Untouched
<1>5. RequestOK(r)'
  <2>1. /\ versions[r] \in Seq(Statuses) /\ versions'[r] \in Seq(Statuses)
        /\ Len(versions[r]) \in Nat /\ Len(versions'[r]) \in Nat /\ replica[r] \in Nat
    BY <1>1, <1>2, CommitAdds DEF TypeOK
  <2>2. RequestOK(r) /\ TypeOK
    BY <1>1
  <2> USE <1>3, <2>1, <2>2 DEF RequestOK, StageOK, QueueFirstOK, KytOK, ReplicaOK, VerdictOK,
          AnswerIsTrue, Undecided, Visible
  <2>3. CASE SaveRows(r)
    <3>1. /\ HasRow(r)' /\ Len(versions[r])' >= Len(versions[r])
          /\ Saw(r, "released")' <=> Saw(r, "released")
          /\ Saw(r, "failed")' <=> Saw(r, "failed")
      BY <1>1, <2>3, CommitAdds DEF SaveRows
    <3>2. Order[kind[r]].save = (CASE kind[r] = "portal" -> "reauth"
                                  [] kind[r] = "resubmit" -> "charge"
                                  [] kind[r] = "api" -> "lookup"
                                  [] OTHER -> "run")
      BY <2>3, NextSteps DEF SaveRows
    <3> QED
      BY <2>3, <3>1, <3>2 DEF SaveRows, TypeOK
  <2>4. ASSUME NEW l \in loaded, l.req = r, SaveEdit(l) PROVE RequestOK(r)'
    <3>1. l.copy \in Statuses /\ Saw(r, l.copy)
      BY <2>4 DEF IInv, EditsOK, TypeOK, Edits
    <3>2. HasRow(r)
      BY <2>1, <3>1 DEF Saw, HasRow
    <3>3. /\ HasRow(r)' /\ Len(versions[r])' >= Len(versions[r])
          /\ Saw(r, "released")' <=> Saw(r, "released")
          /\ Saw(r, "failed")' <=> Saw(r, "failed")
      BY <1>1, <2>4, <3>1, CommitAdds DEF SaveEdit
    <3> QED
      BY <2>4, <3>2, <3>3 DEF SaveEdit
  <2>5. ASSUME NEW v \in {"released", "failed"}, HasRow(r), WorkerFinish(r, v), Commit(r, v)
        PROVE  RequestOK(r)'
    <3>1. /\ HasRow(r)' /\ Len(versions[r])' >= Len(versions[r])
          /\ Saw(r, "released")' <=> v = "released"
          /\ Saw(r, "failed")' <=> v = "failed"
      BY <1>1, <2>5, CommitAdds DEF WorkerFinish
    <3> QED
      BY <2>5, <3>1 DEF WorkerFinish, TypeOK
  <2> QED
    BY <2>3, <2>4, <2>5
<1> QED
  BY <1>4, <1>5

\* The remaining steps: a verdict that finds no row, an RPC answer, replication.
LEMMA OutsideKeeps ==
  ASSUME TypeOK, \A q \in Requests : RequestOK(q), NEW r \in Requests,
         \/ \E s \in {"released", "failed"} : ~HasRow(r) /\ WorkerFinish(r, s)
         \/ \E a \in {"True", "False"} : UsageReply(r, a)
         \/ Replicate(r)
         \/ LoadForEdit(r)
  PROVE  \A q \in Requests : RequestOK(q)'
<1> USE DEF handler, label
<1>1. UNCHANGED <<versions, kind, pc, reply>>
  BY DEF WorkerFinish, UsageReply, Replicate, LoadForEdit
<1>2. ASSUME NEW q \in Requests, q # r PROVE RequestOK(q)'
  <2>1. job'[q] = job[q] /\ rpc'[q] = rpc[q] /\ replica'[q] = replica[q]
    BY <1>2 DEF TypeOK, WorkerFinish, UsageReply, Replicate, LoadForEdit
  <2> QED
    BY <1>1, <2>1, Untouched
<1>3. RequestOK(r)'
  <2>1. /\ HasRow(r)' <=> HasRow(r)
        /\ Saw(r, "released")' <=> Saw(r, "released")
        /\ Saw(r, "failed")' <=> Saw(r, "failed")
        /\ Len(versions[r])' = Len(versions[r]) /\ Len(versions[r]) \in Nat
    BY <1>1, NoCommit DEF TypeOK
  <2>2. RequestOK(r)
    OBVIOUS
  <2> USE <1>1, <2>1, <2>2 DEF RequestOK, StageOK, QueueFirstOK, KytOK, ReplicaOK, VerdictOK,
          AnswerIsTrue, Undecided, Visible, TypeOK
  <2>3. ASSUME NEW s \in {"released", "failed"}, ~HasRow(r), WorkerFinish(r, s)
        PROVE  RequestOK(r)'
    BY <2>3 DEF WorkerFinish
  <2>4. ASSUME NEW a \in {"True", "False"}, UsageReply(r, a) PROVE RequestOK(r)'
    BY <2>4 DEF UsageReply
  <2>5. CASE Replicate(r)
    BY <2>5 DEF Replicate
  <2>6. CASE LoadForEdit(r)
    BY <2>6 DEF LoadForEdit
  <2> QED
    BY <2>3, <2>4, <2>5, <2>6
<1> QED
  BY <1>2, <1>3

\* No step takes a status out of a row's past.
LEMMA PastStays ==
  ASSUME IInv, Next, NEW r \in Requests, NEW t \in Statuses, Saw(r, t)
  PROVE  Saw(r, t)'
<1>1. CASE UNCHANGED versions
  BY <1>1, NoCommit
<1>2. ASSUME NEW q \in Requests, NEW s \in Statuses, Commit(q, s) PROVE Saw(r, t)'
  BY <1>2, CommitAdds DEF IInv
<1>3. \A l \in loaded : l.req \in Requests /\ l.copy \in Statuses
  BY DEF IInv, TypeOK, Edits
<1>4. \A q \in Requests : SaveRows(q) => Commit(q, "progress")
  BY DEF SaveRows
<1>5. \A l \in loaded : SaveEdit(l) => Commit(l.req, l.copy)
  BY DEF SaveEdit
<1>6. \A q \in Requests, s \in {"released", "failed"} :
        WorkerFinish(q, s) => Commit(q, s) \/ UNCHANGED versions
  BY DEF WorkerFinish
<1>7. \/ UNCHANGED versions
      \/ \E q \in Requests : SaveRows(q)
      \/ \E l \in loaded : SaveEdit(l)
      \/ \E q \in Requests, s \in {"released", "failed"} : WorkerFinish(q, s)
  BY DEF Next, Arrive, HandlerStep, Admit, RunJob, Reauthenticate, Charge, AwaitUsage,
         LookUp, Poll, PollTimeout, StepFails, Crash, LoadForEdit, UsageReply, Replicate
<1> QED
  BY <1>1, <1>2, <1>3, <1>4, <1>5, <1>6, <1>7

LEMMA EditsStep == IInv /\ Next => EditsOK'
<1> SUFFICES ASSUME IInv, Next, NEW l \in loaded' PROVE Saw(l.req, l.copy)'
  BY DEF EditsOK
<1>1. CASE l \in loaded
  <2>1. l.req \in Requests /\ l.copy \in Statuses /\ Saw(l.req, l.copy)
    BY <1>1 DEF IInv, TypeOK, Edits, EditsOK
  <2> QED
    BY <2>1, PastStays
<1>2. CASE l \notin loaded
  <2>1. PICK r \in Requests : LoadForEdit(r)
    BY <1>2 DEF Next, Arrive, HandlerStep, Admit, RunJob, SaveRows, Reauthenticate, Charge,
         AwaitUsage, LookUp, Poll, PollTimeout, StepFails, Crash, SaveEdit,
         WorkerFinish, UsageReply, Replicate, label
  <2>2. SeenStatus(r) \in Statuses /\ Saw(r, SeenStatus(r))
    BY <2>1, SeenIsSaw DEF LoadForEdit, IInv, RequestOK
  <2>3. l.req = r /\ l.copy = SeenStatus(r)
    BY <1>2, <2>1 DEF LoadForEdit
  <2>4. Saw(r, SeenStatus(r))'  <=> Saw(r, SeenStatus(r))
    BY <2>1, NoCommit DEF LoadForEdit, Saw, SeenStatus
  <2> QED
    BY <2>2, <2>3, PastStays
<1> QED
  BY <1>1, <1>2

\* IInv holds at first ...
LEMMA InitInv == Init => IInv
<1> SUFFICES ASSUME Init PROVE IInv
  OBVIOUS
<1>1. TypeOK
  BY MaxPollsAssumption, MaxEditsAssumption DEF Init, TypeOK
<1>2. ASSUME NEW r \in Requests PROVE RequestOK(r)
  <2>1. ~HasRow(r) /\ (\A t : ~Saw(r, t)) /\ Len(versions[r]) = 0
    BY DEF Init, HasRow, Saw
  <2> QED
    BY <2>1 DEF Init, RequestOK, StageOK, QueueFirstOK, KytOK, ReplicaOK, VerdictOK,
                AnswerIsTrue, Undecided
<1>3. EditsOK
  BY DEF Init, EditsOK
<1> QED
  BY <1>1, <1>2, <1>3 DEF IInv

\* ... and every step keeps it.
LEMMA StepInv == IInv /\ [Next]_vars => IInv'
<1> SUFFICES ASSUME IInv, [Next]_vars PROVE IInv'
  OBVIOUS
<1>1. TypeOK'
  BY TypeStep DEF IInv, RequestOK
<1>2. CASE Next
  <2>1. EditsOK'
    BY <1>2, EditsStep
  <2>2. ASSUME NEW r \in Requests,
               \/ SaveRows(r)
               \/ \E s \in {"released", "failed"} : WorkerFinish(r, s)
        PROVE  \A q \in Requests : RequestOK(q)'
    BY <2>2, CommitKeeps, OutsideKeeps DEF WorkerFinish, IInv
  <2>3. ASSUME NEW l \in loaded, SaveEdit(l) PROVE \A q \in Requests : RequestOK(q)'
    <3>1. l.req \in Requests
      BY DEF IInv, TypeOK, Edits
    <3> QED
      BY <2>3, <3>1, CommitKeeps
  <2> QED
    BY <1>1, <1>2, <2>1, <2>2, <2>3, HandlerKeeps, OutsideKeeps DEF Next, HandlerStep, IInv
<1>3. CASE UNCHANGED vars
  <2>1. \A q \in Requests : RequestOK(q)'
    BY <1>3, Untouched DEF vars, IInv
  <2>2. EditsOK'
    BY <1>3, NoCommit DEF vars, IInv, EditsOK, Saw
  <2> QED
    BY <1>1, <2>1, <2>2 DEF IInv
<1> QED
  BY <1>2, <1>3

-----------------------------------------------------------------------------
(* Theorems                                                                 *)

\* The inductive invariant holds in every reachable state.
THEOREM Invariance == Spec => []IInv
BY InitInv, StepInv, PTL DEF Spec

\* Every variable keeps to its type.
THEOREM TypeCorrect == Spec => []TypeOK
<1>1. IInv => TypeOK
  BY DEF IInv
<1> QED
  BY <1>1, Invariance, PTL

\* API users pay only for released reports (see ApiPaysOnlyForReleased).
THEOREM ApiBilling == Spec => []ApiPaysOnlyForReleased
<1>1. IInv => ApiPaysOnlyForReleased
  BY DEF IInv, RequestOK, VerdictOK, ApiPaysOnlyForReleased
<1> QED
  BY <1>1, Invariance, PTL

\* KYT work is paid for before it exists (see KytPaysFirst).
THEOREM KytBilling == Spec => []KytPaysFirst
<1>1. IInv => KytPaysFirst
  BY DEF IInv, RequestOK, VerdictOK, Undecided, KytPaysFirst
<1> QED
  BY <1>1, Invariance, PTL

\* The verdict on KYT work is never lost (see KytVerdictIsRecorded).
THEOREM KytRecords == Spec => []KytVerdictIsRecorded
<1>1. IInv => KytVerdictIsRecorded
  BY DEF IInv, RequestOK, VerdictOK, Undecided, KytPaysFirst, KytVerdictIsRecorded
<1> QED
  BY <1>1, Invariance, PTL

\* What the handlers answer is true and stays true (see AnswersAreTrue).
THEOREM TruthfulAnswers == Spec => []AnswersAreTrue
<1>1. IInv => AnswersAreTrue
  BY DEF IInv, RequestOK, AnswersAreTrue
<1> QED
  BY <1>1, Invariance, PTL

-----------------------------------------------------------------------------
(* Refinement: the handlers keep the promise of ReportService               *)

\* What the service shows of a request.
Shown(r) == <<kind[r], Outcome(r), Verdict(r), Billed(r), reply[r]>>

\* A row shows a status it holds, and its verdict is the one it holds.
LEMMA OutcomeAndVerdict ==
  ASSUME IInv, NEW r \in Requests
  PROVE  /\ HasRow(r) => Status(r) \in Statuses /\ Saw(r, Status(r))
         /\ \A t \in {"released", "failed"} : Verdict(r) = t <=> Saw(r, t)
         /\ Verdict(r) \in {"released", "failed", "none"}
<1>1. versions[r] \in Seq(Statuses) /\ RequestOK(r)
  BY DEF IInv, TypeOK
<1>2. ASSUME HasRow(r) PROVE Status(r) \in Statuses /\ Saw(r, Status(r))
  <2>1. Len(versions[r]) \in 1..Len(versions[r])
    BY <1>1, <1>2 DEF HasRow
  <2> QED
    BY <1>1, <2>1 DEF Status, Saw
<1> QED
  BY <1>1, <1>2 DEF Verdict, RequestOK, VerdictOK

\* A step that changes nothing the service shows is a stuttering step of it.
LEMMA Stutters ==
  ASSUME TypeOK, TypeOK', \A r \in Requests : Shown(r)' = Shown(r)
  PROVE  UNCHANGED Service!svars
<1>1. kind' = kind /\ reply' = reply
  BY DEF Shown, TypeOK
<1>2. /\ [r \in Requests |-> Outcome(r)]' = [r \in Requests |-> Outcome(r)]
      /\ [r \in Requests |-> Verdict(r)]' = [r \in Requests |-> Verdict(r)]
      /\ [r \in Requests |-> Billed(r)]' = [r \in Requests |-> Billed(r)]
  BY DEF Shown
<1> QED
  BY <1>1, <1>2 DEF Service!svars

LEMMA RowsUnchanged ==
  ASSUME UNCHANGED versions
  PROVE  /\ \A r \in Requests : Outcome(r)' = Outcome(r) /\ Verdict(r)' = Verdict(r)
         /\ [r \in Requests |-> Outcome(r)]' = [r \in Requests |-> Outcome(r)]
         /\ [r \in Requests |-> Verdict(r)]' = [r \in Requests |-> Verdict(r)]
BY DEF Outcome, Verdict, HasRow, Status, Saw

\* Giving an answer is the service's Answer step.
LEMMA AnswerStep ==
  ASSUME IInv, NEW r \in Requests, RequestOK(r)', NEW a \in Replies \ {"none"},
         pc[r] \in Working, Finish(r, a), UNCHANGED <<versions, rpc>>,
         a = "submitted" => kind[r] # "api",
         a = "timeout" => kind[r] = "api",
         a = "denied" => ~HasRow(r) /\ rpc[r] \in {"none", "False"}
  PROVE  Service!Answer(r, a)
<1>1. kind[r] # "none" /\ reply[r] = "none" /\ reply \in [Requests -> Replies]
  BY DEF IInv, RequestOK, StageOK, TypeOK
<1>2. reply' = [reply EXCEPT ![r] = a] /\ kind' = kind /\ reply'[r] = a
  BY <1>1 DEF Finish
<1>3. /\ HasRow(r)' <=> HasRow(r)
      /\ Saw(r, "released")' <=> Saw(r, "released")
      /\ Saw(r, "failed")' <=> Saw(r, "failed")
  BY NoCommit
<1>4. Service!Truthful(r, a)
  <2>1. /\ Saw(r, "released") => Verdict(r) = "released"
        /\ Saw(r, "failed") => Verdict(r) = "failed"
        /\ HasRow(r) => Outcome(r) # "absent"
        /\ ~HasRow(r) => Outcome(r) = "absent"
    BY OutcomeAndVerdict DEF Outcome
  <2>2. AnswerIsTrue(r)'
    BY DEF RequestOK
  <2>3. Billed(r) <=> rpc[r] = "True"
    BY DEF Billed
  <2> QED
    BY <1>2, <1>3, <2>1, <2>2, <2>3 DEF AnswerIsTrue, Service!Truthful
<1> QED
  BY <1>1, <1>2, <1>4, RowsUnchanged DEF Service!Answer, Billed

\* A step that commits to r's row alone, with nothing else shown.
LEMMA RowStep ==
  ASSUME IInv, IInv', NEW r \in Requests, NEW s \in Statuses, Commit(r, s)
  PROVE  /\ [q \in Requests |-> Outcome(q)]' = [[q \in Requests |-> Outcome(q)] EXCEPT ![r] = s]
         /\ [q \in Requests |-> Verdict(q)]'
              = [[q \in Requests |-> Verdict(q)] EXCEPT ![r] = Verdict(r)']
         /\ \A t \in {"released", "failed"} : Verdict(r)' = t <=> Saw(r, t) \/ t = s
         /\ Verdict(r)' \in {"released", "failed", "none"}
<1>1. TypeOK
  BY DEF IInv
<1>2. ASSUME NEW q \in Requests, q # r
      PROVE  Outcome(q)' = Outcome(q) /\ Verdict(q)' = Verdict(q)
  <2>1. versions'[q] = versions[q]
    BY <1>1, <1>2, CommitAdds
  <2> QED
    BY <2>1 DEF Outcome, Verdict, HasRow, Status, Saw
<1>3. Outcome(r)' = s
  BY <1>1, CommitAdds DEF Outcome
<1>4. /\ \A t \in {"released", "failed"} : Verdict(r)' = t <=> Saw(r, t)'
      /\ Verdict(r)' \in {"released", "failed", "none"}
  <2>1. ~(Saw(r, "released")' /\ Saw(r, "failed")')
    BY DEF IInv, RequestOK, VerdictOK
  <2> QED
    BY <2>1 DEF Verdict
<1>5. \A t \in {"released", "failed"} : Saw(r, t)' <=> Saw(r, t) \/ t = s
  BY <1>1, CommitAdds
<1> QED
  BY <1>2, <1>3, <1>4, <1>5

LEMMA ServiceStep == IInv /\ [Next]_vars => [Service!Next]_(Service!svars)
<1> SUFFICES ASSUME IInv, [Next]_vars PROVE [Service!Next]_(Service!svars)
  OBVIOUS
<1>a. IInv' /\ TypeOK /\ TypeOK'
  BY StepInv DEF IInv
<1>b. \A r \in Requests : RequestOK(r) /\ RequestOK(r)'
  BY <1>a DEF IInv
\* Steps that show nothing.
<1>c. ASSUME UNCHANGED <<kind, versions, reply>>,
             \A r \in Requests : Billed(r)' = Billed(r)
      PROVE  UNCHANGED Service!svars
  BY <1>a, <1>c, RowsUnchanged, Stutters DEF Shown
<1>d. ASSUME UNCHANGED <<kind, versions, reply, rpc>> PROVE UNCHANGED Service!svars
  BY <1>c, <1>d DEF Billed
<1>e. ASSUME NEW r \in Requests, NEW a \in Replies \ {"none"}, Service!Answer(r, a)
      PROVE  Service!Next
  BY <1>e DEF Service!Next, Service!Answers
<1> USE DEF Goto, handler, label
<1>1. ASSUME NEW r \in Requests, NEW k \in Kinds, Arrive(r, k) PROVE Service!Next
  <2>1. kind[r] = "none"
    BY <1>1, <1>b DEF Arrive, RequestOK, StageOK
  <2>2. Service!Open(r, k)
    BY <1>1, <2>1, RowsUnchanged DEF Arrive, Service!Open, Billed
  <2> QED
    BY <2>2 DEF Service!Next, Service!Channels
<1>2. ASSUME NEW r \in Requests, Admit(r) PROVE [Service!Next]_(Service!svars)
  <2>1. CASE Finish(r, "denied")
    <3>1. ~HasRow(r) /\ rpc[r] = "none"
      BY <1>2, <1>b DEF Admit, RequestOK, StageOK
    <3> QED
      BY <1>2, <1>b, <1>e, <2>1, <3>1, AnswerStep DEF Admit
  <2> QED
    BY <1>2, <1>d, <2>1 DEF Admit
<1>3. ASSUME NEW r \in Requests, RunJob(r) PROVE [Service!Next]_(Service!svars)
  <2>1. CASE kind[r] = "kyt" /\ Finish(r, "submitted")
    BY <1>3, <1>b, <1>e, <2>1, AnswerStep DEF RunJob
  <2> QED
    BY <1>3, <1>d, <2>1 DEF RunJob
<1>4. ASSUME NEW r \in Requests, SaveRows(r) PROVE Service!Next
  <2>1. /\ Commit(r, "progress") /\ pc[r] = "save"
        /\ kind' = kind /\ rpc' = rpc /\ reply' = reply
    BY <1>4 DEF SaveRows
  <2>2. /\ kind[r] # "none" /\ ~HasRow(r)
        /\ kind[r] = "kyt" => rpc[r] = "True"
    BY <1>b, <2>1 DEF RequestOK, StageOK, QueueFirstOK, KytOK
  <2>3. ~Saw(r, "released") /\ ~Saw(r, "failed")
    BY <2>2 DEF HasRow, Saw
  <2>4. Verdict(r)' = "none" /\ Verdict(r) = "none"
    <3>1. "progress" \in Statuses
      OBVIOUS
    <3>2. /\ \A t \in {"released", "failed"} : Verdict(r)' = t <=> Saw(r, t) \/ t = "progress"
          /\ Verdict(r)' \in {"released", "failed", "none"}
      BY <1>a, <2>1, <3>1, RowStep
    <3>3. Verdict(r) = "none"
      BY <2>3 DEF Verdict
    <3> QED
      BY <2>3, <3>2, <3>3
  <2>5. Service!Accept(r)
    <3>1. /\ [q \in Requests |-> Verdict(q)]'
               = [[q \in Requests |-> Verdict(q)] EXCEPT ![r] = Verdict(r)']
          /\ [q \in Requests |-> Outcome(q)]'
               = [[q \in Requests |-> Outcome(q)] EXCEPT ![r] = "progress"]
      BY <1>a, <2>1, RowStep
    <3>2. [q \in Requests |-> Verdict(q)]' = [q \in Requests |-> Verdict(q)]
      BY <2>4, <3>1
    <3>3. Outcome(r) = "absent" /\ (kind[r] = "kyt" => Billed(r))
      BY <2>2 DEF Outcome, Billed
    <3>4. [q \in Requests |-> Billed(q)]' = [q \in Requests |-> Billed(q)]
      BY <2>1 DEF Billed
    <3> QED
      BY <2>1, <2>2, <3>1, <3>2, <3>3, <3>4 DEF Service!Accept
  <2> QED
    BY <2>5 DEF Service!Next
<1>5. ASSUME NEW r \in Requests, Reauthenticate(r) PROVE UNCHANGED Service!svars
  BY <1>5, <1>d DEF Reauthenticate
<1>6. ASSUME NEW r \in Requests, Charge(r) PROVE UNCHANGED Service!svars
  <2>1. rpc[r] = "none"
    BY <1>6, <1>b DEF Charge, RequestOK, StageOK, QueueFirstOK, KytOK
  <2>2. \A q \in Requests : Billed(q)' = Billed(q)
    BY <1>6, <1>a, <2>1 DEF Charge, Billed, TypeOK
  <2> QED
    BY <1>6, <1>c, <2>2 DEF Charge
<1>7. ASSUME NEW r \in Requests, AwaitUsage(r) PROVE [Service!Next]_(Service!svars)
  <2>1. CASE kind[r] = "kyt" /\ rpc[r] = "False" /\ Finish(r, "denied")
    <3>1. ~HasRow(r)
      BY <1>7, <1>b, <2>1 DEF AwaitUsage, RequestOK, KytOK
    <3> QED
      BY <1>7, <1>b, <1>e, <2>1, <3>1, AnswerStep DEF AwaitUsage
  <2>2. CASE kind[r] \in {"portal", "resubmit"} /\ Finish(r, "submitted")
    BY <1>7, <1>b, <1>e, <2>2, AnswerStep DEF AwaitUsage
  <2>3. CASE kind[r] = "api" /\ Finish(r, "released")
    BY <1>7, <1>b, <1>e, <2>3, AnswerStep DEF AwaitUsage
  <2> QED
    BY <1>7, <1>d, <2>1, <2>2, <2>3 DEF AwaitUsage
<1>8. ASSUME NEW r \in Requests, LookUp(r) PROVE [Service!Next]_(Service!svars)
  <2>1. CASE Finish(r, "error")
    BY <1>8, <1>b, <1>e, <2>1, AnswerStep DEF LookUp
  <2> QED
    BY <1>8, <1>d, <2>1 DEF LookUp
<1>9. ASSUME NEW r \in Requests, Poll(r) PROVE [Service!Next]_(Service!svars)
  <2>1. CASE Finish(r, "failed")
    BY <1>9, <1>b, <1>e, <2>1, AnswerStep DEF Poll
  <2> QED
    BY <1>9, <1>d, <2>1 DEF Poll, PollOnce
<1>10. ASSUME NEW r \in Requests, PollTimeout(r) PROVE Service!Next
  <2>1. kind[r] = "api"
    BY <1>10, <1>b DEF PollTimeout, RequestOK, StageOK
  <2> QED
    BY <1>10, <1>b, <1>e, <2>1, AnswerStep DEF PollTimeout
<1>11. ASSUME NEW r \in Requests, StepFails(r) PROVE Service!Next
  BY <1>11, <1>b, <1>e, AnswerStep DEF StepFails
<1>12. ASSUME NEW r \in Requests, Crash(r) PROVE UNCHANGED Service!svars
  BY <1>12, <1>d DEF Crash
<1>13. ASSUME NEW r \in Requests, LoadForEdit(r) PROVE UNCHANGED Service!svars
  BY <1>13, <1>d DEF LoadForEdit
<1>14. ASSUME NEW l \in loaded, SaveEdit(l) PROVE [Service!Next]_(Service!svars)
  <2>1. PICK r \in Requests : r = l.req
    BY <1>a DEF TypeOK, Edits
  <2>2. PICK s \in Statuses : s = l.copy /\ Saw(r, s)
    <3>1. l \in Edits /\ Saw(l.req, l.copy)
      BY <1>a DEF IInv, EditsOK, TypeOK
    <3>2. l.copy \in Statuses
      BY <3>1 DEF Edits
    <3> QED
      BY <2>1, <3>1, <3>2
  <2>3. Commit(r, s) /\ kind' = kind /\ rpc' = rpc /\ reply' = reply
    <3>1. Commit(l.req, l.copy)
      BY <1>14 DEF SaveEdit
    <3>2. kind' = kind /\ rpc' = rpc /\ reply' = reply
      BY <1>14 DEF SaveEdit
    <3> HIDE DEF Commit
    <3> QED
      BY <2>1, <2>2, <3>1, <3>2
  <2>4. /\ Verdict(r)' = Verdict(r)
        /\ s = "progress" \/ s = Verdict(r)
    BY <1>a, <2>2, <2>3, RowStep, OutcomeAndVerdict
  <2>5. CASE Verdict(r) # "none"
    <3>2. [q \in Requests |-> Verdict(q)]'
            = [[q \in Requests |-> Verdict(q)] EXCEPT ![r] = Verdict(r)']
      BY <1>a, <2>3, RowStep
    <3>3. [q \in Requests |-> Outcome(q)]' = [[q \in Requests |-> Outcome(q)] EXCEPT ![r] = s]
      BY <1>a, <2>3, RowStep
    <3>4. [q \in Requests |-> Verdict(q)]' = [q \in Requests |-> Verdict(q)]
      BY <2>4, <3>2
    <3>5. [q \in Requests |-> Billed(q)]' = [q \in Requests |-> Billed(q)]
      BY <2>3 DEF Billed
    <3>1. Service!Relabel(r)
      BY <2>3, <2>4, <2>5, <3>3, <3>4, <3>5 DEF Service!Relabel
    <3> QED
      BY <3>1 DEF Service!Next
  <2>6. CASE Verdict(r) = "none"
    <3>1. s = "progress"
      BY <2>4, <2>6
    <3>2. Outcome(r) = "progress"
      <4>1. HasRow(r)
        BY <1>a, <2>2 DEF Saw, HasRow, TypeOK
      <4> QED
        BY <2>6, <4>1, OutcomeAndVerdict DEF Outcome
    <3>3. /\ [q \in Requests |-> Outcome(q)]' = [q \in Requests |-> Outcome(q)]
          /\ [q \in Requests |-> Verdict(q)]' = [q \in Requests |-> Verdict(q)]
      BY <1>a, <2>3, <2>4, <3>1, <3>2, RowStep
    <3> QED
      BY <2>3, <3>3 DEF Service!svars, Billed
  <2> QED
    BY <2>5, <2>6
<1>15. ASSUME NEW r \in Requests, NEW s \in {"released", "failed"}, WorkerFinish(r, s)
       PROVE  [Service!Next]_(Service!svars)
  <2>1. CASE HasRow(r) /\ Commit(r, s)
    <3>1. kind' = kind /\ rpc' = rpc /\ reply' = reply /\ job[r] = "queued"
      BY <1>15 DEF WorkerFinish
    <3>2. ~Saw(r, "released") /\ ~Saw(r, "failed")
      BY <1>b, <3>1 DEF RequestOK, VerdictOK, Undecided
    <3>3. Outcome(r) = "progress" /\ Verdict(r) = "none" /\ Verdict(r)' = s
      BY <1>a, <2>1, <3>2, OutcomeAndVerdict, RowStep DEF Outcome, Verdict
    <3>4. Service!Decide(r, s)
      BY <1>a, <2>1, <3>1, <3>3, RowStep DEF Service!Decide, Billed
    <3> QED
      BY <3>4 DEF Service!Next, Service!Verdicts
  <2> QED
    BY <1>15, <1>d, <2>1 DEF WorkerFinish
<1>16. ASSUME NEW r \in Requests, NEW a \in {"True", "False"}, UsageReply(r, a)
       PROVE  [Service!Next]_(Service!svars)
  <2>1. /\ kind' = kind /\ versions' = versions /\ reply' = reply
        /\ rpc[r] = "sent" /\ rpc' = [rpc EXCEPT ![r] = a]
    BY <1>16 DEF UsageReply
  <2>2. rpc \in [Requests -> {"none", "sent", "True", "False"}]
    BY <1>a DEF TypeOK
  <2>3. CASE a = "False"
    BY <1>c, <2>1, <2>2, <2>3 DEF Billed
  <2>4. CASE a = "True"
    <3>1. kind[r] \in Kinds
      BY <1>a, <1>b, <2>1 DEF TypeOK, RequestOK, StageOK
    <3>2. /\ kind[r] = "kyt" => Outcome(r) = "absent"
          /\ kind[r] \in {"portal", "resubmit"} => Outcome(r) # "absent"
          /\ kind[r] = "api" => Verdict(r) = "released"
      BY <1>b, <2>1, OutcomeAndVerdict
         DEF RequestOK, QueueFirstOK, VerdictOK, Outcome
    <3>3. [q \in Requests |-> Billed(q)]' = [[q \in Requests |-> Billed(q)] EXCEPT ![r] = TRUE]
      BY <2>1, <2>2, <2>4 DEF Billed
    <3>4. ~Billed(r)
      BY <2>1 DEF Billed
    <3>5. Service!Bill(r)
      BY <2>1, <3>1, <3>2, <3>3, <3>4, RowsUnchanged DEF Service!Bill
    <3> QED
      BY <3>5 DEF Service!Next
  <2> QED
    BY <2>3, <2>4
<1>17. ASSUME NEW r \in Requests, Replicate(r) PROVE UNCHANGED Service!svars
  BY <1>17, <1>d DEF Replicate
<1>18. CASE UNCHANGED vars
  BY <1>18, <1>d DEF vars
<1> QED
  BY <1>1, <1>2, <1>3, <1>4, <1>5, <1>6, <1>7, <1>8, <1>9, <1>10, <1>11, <1>12, <1>13,
     <1>14, <1>15, <1>16, <1>17, <1>18 DEF Next, HandlerStep

\* The handlers, the worker and the label edits implement ReportService.
THEOREM Refinement == Spec => KeepsThePromise
<1>1. Init => Service!Init
  <2> SUFFICES ASSUME Init PROVE Service!Init
    OBVIOUS
  <2>1. \A r \in Requests : Outcome(r) = "absent" /\ Billed(r) = FALSE
    BY DEF Init, Outcome, HasRow, Billed
  <2>2. ASSUME NEW r \in Requests PROVE Verdict(r) = "none"
    <3>1. ~Saw(r, "released") /\ ~Saw(r, "failed")
      BY DEF Init, Saw
    <3> QED
      BY <3>1 DEF Verdict
  <2> QED
    BY <2>1, <2>2 DEF Init, Service!Init
<1> QED
  BY <1>1, Invariance, ServiceStep, PTL DEF Spec, KeepsThePromise, Service!Spec

\* Only the save of a stale copy reopens a decided request (see
\* ReopensOnlyByStaleEdit).
THEOREM Reopening == Spec => ReopensOnlyByStaleEdit
<1>1. ASSUME IInv, [Next]_vars, NEW r \in Requests, Decided(r), Status(r)' = "progress"
      PROVE  \E l \in loaded \ loaded' : l.req = r /\ l.copy = "progress"
  <2>1. TypeOK /\ RequestOK(r)
    BY <1>1 DEF IInv
  <2>2. ASSUME NEW q \in Requests, NEW s \in Statuses, Commit(q, s)
        PROVE  q = r /\ s = "progress"
    <3>1. q # r => Status(r)' = Status(r)
      BY <2>1, <2>2, CommitAdds DEF Status
    <3>2. q = r => Status(r)' = s
      BY <2>1, <2>2, CommitAdds
    <3> QED
      BY <1>1, <3>1, <3>2 DEF Decided
  <2>3. CASE UNCHANGED versions
    BY <1>1, <2>3 DEF Decided, Status
  <2>4. ASSUME NEW q \in Requests, SaveRows(q) PROVE FALSE
    <3>1. q = r
      BY <2>2, <2>4 DEF SaveRows
    <3>2. ~HasRow(r)
      BY <2>1, <2>4, <3>1 DEF SaveRows, RequestOK, QueueFirstOK, KytOK
    <3> QED
      BY <1>1, <3>2 DEF Decided
  <2>5. ASSUME NEW q \in Requests, NEW s \in {"released", "failed"}, Commit(q, s) PROVE FALSE
    BY <2>2, <2>5
  <2>6. ASSUME NEW l \in loaded, SaveEdit(l)
        PROVE  \E m \in loaded \ loaded' : m.req = r /\ m.copy = "progress"
    <3>1. l.req \in Requests /\ l.copy \in Statuses
      BY <2>1 DEF TypeOK, Edits
    <3>2. l.req = r /\ l.copy = "progress"
      BY <2>2, <2>6, <3>1 DEF SaveEdit
    <3>3. l \in loaded \ loaded'
      BY <2>6 DEF SaveEdit
    <3> QED
      BY <3>2, <3>3
  <2>7. \/ UNCHANGED versions
        \/ \E q \in Requests : SaveRows(q)
        \/ \E l \in loaded : SaveEdit(l)
        \/ \E q \in Requests, s \in {"released", "failed"} : Commit(q, s)
    BY <1>1 DEF Next, Arrive, HandlerStep, Admit, RunJob, Reauthenticate, Charge, AwaitUsage,
         LookUp, Poll, PollTimeout, StepFails, Crash, LoadForEdit, UsageReply, Replicate,
         WorkerFinish, vars
  <2> QED
    BY <2>3, <2>4, <2>5, <2>6, <2>7
<1>2. IInv /\ [Next]_vars
        => \A r \in Requests :
             Decided(r) /\ Status(r)' = "progress"
               => \E l \in loaded \ loaded' : l.req = r /\ l.copy = "progress"
  BY <1>1
<1> QED
  BY <1>2, Invariance, PTL DEF Spec, ReopensOnlyByStaleEdit

=============================================================================
