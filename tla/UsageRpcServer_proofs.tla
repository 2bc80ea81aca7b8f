------------------------ MODULE UsageRpcServer_proofs ------------------------
(***************************************************************************)
(* Safety of the usage RPC server for any set of calls, any prefetch       *)
(* window and any number of tries: see IInv in UsageRpcServer.             *)
(***************************************************************************)
EXTENDS UsageRpcServer, FiniteSetTheorems, TLAPS

USE DEF broker, store, thread

\* The actions, one by one.
LEMMA NextSteps ==
  ASSUME Next
  PROVE  \/ \E r \in Requests : Call(r)
         \/ \E r \in Requests : Deliver(r)
         \/ Lose \/ Outage \/ Recover \/ Connect \/ RunFails
         \/ \E r \in Requests : Take(r)
         \/ Ensure \/ Query \/ Ack
         \/ \E answer \in Texts : Publish(answer)
         \/ CleanUp
BY DEF Next, Serve

-----------------------------------------------------------------------------
(* Types                                                                    *)

Handling == {"ensure", "query", "ack"} \cup Texts

LEMMA ReturnTypes ==
  ASSUME TypeOK, PlacesOK, pc \in Handling, NEW acked \in BOOLEAN, Return(acked),
         UNCHANGED <<up, outages, answers>>, conn' \in [Threads -> {"none", "live", "stale"}]
  PROVE  TypeOK'
<1>1. current \in called
  BY DEF TypeOK, PlacesOK, Handling, Texts
<1>2. 0 \in 0..(MaxRetries - 1)
  BY LimitAssumption
<1> QED
  BY <1>1, <1>2 DEF TypeOK, Return

LEMMA RaiseTypes ==
  ASSUME TypeOK, PlacesOK, pc \in Handling, Raise
  PROVE  TypeOK'
<1>1. conn' \in [Threads -> {"none", "live", "stale"}]
  BY DEF TypeOK, Raise, Threads
<1> retries \in Nat /\ MaxRetries \in Nat
  BY LimitAssumption DEF TypeOK
<1>2. CASE retries + 1 < MaxRetries
  <2>1. retries + 1 \in 0..(MaxRetries - 1)
    BY <1>2, LimitAssumption DEF TypeOK
  <2>2. /\ pc' = "ensure" /\ retries' = retries + 1
        /\ UNCHANGED <<called, waiting, buffer, parked, link, current, mtries, up, outages, answers>>
    BY <1>2 DEF Raise, Return
  <2> QED
    BY <1>1, <2>1, <2>2 DEF TypeOK
<1>3. CASE retries + 1 = MaxRetries
  <2>1. Return(FALSE) /\ UNCHANGED <<up, outages, answers>>
    BY <1>3 DEF Raise, Return
  <2> QED
    BY <1>1, <2>1, ReturnTypes
<1> QED
  BY <1>2, <1>3 DEF Raise

LEMMA TypeStep == TypeOK /\ PlacesOK /\ [Next]_vars => TypeOK'
<1> SUFFICES ASSUME TypeOK, PlacesOK, [Next]_vars PROVE TypeOK'
  OBVIOUS
<1> USE DEF TypeOK
<1>1. CASE \E r \in Requests : Call(r)
  BY <1>1 DEF Call
<1>2. CASE \E r \in Requests : Deliver(r)
  BY <1>2 DEF Deliver
<1>3. CASE Lose
  BY <1>3 DEF Lose, Unacked
<1>4. CASE Outage
  <2>1. conn' \in [Threads -> {"none", "live", "stale"}]
    BY <1>4 DEF Outage
  <2>2. outages' \in 0..MaxOutages
    BY <1>4, LimitAssumption DEF Outage
  <2> QED
    BY <1>4, <2>1, <2>2 DEF Outage
<1>5. CASE Recover
  BY <1>5 DEF Recover
<1>6. CASE Connect
  BY <1>6 DEF Connect
<1>7. CASE RunFails
  BY <1>7, LimitAssumption DEF RunFails, PlacesOK
<1>8. CASE \E r \in Requests : Take(r)
  BY <1>8 DEF Take
<1>9. CASE Ensure
  BY <1>9, RaiseTypes DEF Ensure, Handling, Texts
<1>10. CASE Query
  BY <1>10, RaiseTypes DEF Query, Handling
<1>11. CASE Ack
  BY <1>11, RaiseTypes, ReturnTypes DEF Ack, Handling
<1>12. CASE \E answer \in Texts : Publish(answer)
  <2>1. PICK answer \in Texts : Publish(answer)
    BY <1>12
  <2>2. current \in Requests
    BY <2>1 DEF Publish, PlacesOK, Texts
  <2>3. Append(answers[current], answer) \in Seq(Texts)
    BY <2>2
  <2> QED
    BY <2>1, <2>2, <2>3, RaiseTypes DEF Publish, Handling, Texts
<1>13. CASE CleanUp
  BY <1>13 DEF CleanUp
<1>14. CASE UNCHANGED vars
  BY <1>14 DEF vars
<1> QED
  BY <1>1, <1>2, <1>3, <1>4, <1>5, <1>6, <1>7, <1>8, <1>9, <1>10, <1>11, <1>12,
     <1>13, <1>14, NextSteps

-----------------------------------------------------------------------------
(* What the last steps of a handler do                                      *)

\* Raise is another try or a return that parks the message.
LEMMA RaiseCases ==
  ASSUME TypeOK, Raise
  PROVE  /\ UNCHANGED <<called, waiting, buffer, link, mtries, answers>>
         /\ \/ pc' = "ensure" /\ UNCHANGED <<parked, current>>
            \/ /\ pc' = "consume" /\ current' = None
               /\ parked' = IF link = "down" THEN parked ELSE parked \cup {current}
BY DEF Raise, Return

\* Every step of the thread that leaves its message where it is, or parks it.
HandlerMoves ==
  /\ UNCHANGED <<called, waiting, buffer, link, mtries, answers>>
  /\ \/ pc' \in {"ensure", "query"} \cup Texts /\ UNCHANGED <<parked, current>>
     \/ /\ pc' = "consume" /\ current' = None
        /\ parked' = IF link = "down" THEN parked ELSE parked \cup {current}

LEMMA ReadingMoves ==
  ASSUME TypeOK, Ensure \/ Query
  PROVE  HandlerMoves /\ pc \in {"ensure", "query"}
<1>1. CASE Ensure
  BY <1>1, RaiseCases DEF Ensure, HandlerMoves
<1>2. CASE Query
  BY <1>2, RaiseCases DEF Query, HandlerMoves, Texts
<1> QED
  BY <1>1, <1>2

LEMMA PublishMoves ==
  ASSUME TypeOK, NEW answer \in Texts, Publish(answer)
  PROVE  /\ pc = answer
         /\ \/ /\ link = "up" /\ pc' = "ack"
               /\ answers' = [answers EXCEPT ![current] = Append(@, answer)]
               /\ UNCHANGED <<called, waiting, buffer, parked, current, link, mtries>>
            \/ /\ link = "down" /\ pc' = "ack"
               /\ UNCHANGED <<called, waiting, buffer, parked, current, link, mtries, answers>>
            \/ link = "down" /\ HandlerMoves
BY RaiseCases DEF Publish, HandlerMoves

LEMMA AckMoves ==
  ASSUME TypeOK, Ack
  PROVE  /\ pc = "ack"
         /\ \/ /\ pc' = "consume" /\ current' = None
               /\ UNCHANGED <<called, waiting, buffer, parked, link, mtries, answers>>
            \/ link = "down" /\ HandlerMoves
<1>1. CASE Return(TRUE) /\ UNCHANGED <<store, answers>>
  BY <1>1 DEF Return, Ack
<1>2. CASE link = "down" /\ Raise
  BY <1>2, RaiseCases DEF Ack, HandlerMoves
<1> QED
  BY <1>1, <1>2 DEF Ack

-----------------------------------------------------------------------------
(* Where the messages are                                                   *)

LEMMA PlacesStep == TypeOK /\ PlacesOK /\ [Next]_vars => PlacesOK'
<1> SUFFICES ASSUME TypeOK, PlacesOK, [Next]_vars PROVE PlacesOK'
  OBVIOUS
<1> USE DEF TypeOK, PlacesOK
<1>1. CASE \E r \in Requests : Call(r)
  BY <1>1, RequestAssumption DEF Call, Texts
<1>2. CASE \E r \in Requests : Deliver(r)
  BY <1>2 DEF Deliver, Texts
<1>3. CASE Lose
  BY <1>3 DEF Lose, Unacked, Texts
<1>4. CASE Outage \/ Recover \/ CleanUp \/ UNCHANGED vars
  BY <1>4 DEF Outage, Recover, CleanUp, vars
<1>5. CASE Connect
  BY <1>5, RequestAssumption DEF Connect, Texts
<1>6. CASE RunFails
  BY <1>6, LimitAssumption DEF RunFails, Texts
<1>7. CASE \E r \in Requests : Take(r)
  BY <1>7, RequestAssumption DEF Take, Texts
<1>8. ASSUME HandlerMoves, pc \in {"ensure", "query", "ack"} \cup Texts
      PROVE  PlacesOK'
  BY <1>8, RequestAssumption DEF HandlerMoves, Texts
<1>9. CASE Ensure \/ Query
  BY <1>8, <1>9, ReadingMoves
<1>10. CASE Ack
  BY <1>8, <1>10, AckMoves, RequestAssumption DEF Texts
<1>11. CASE \E answer \in Texts : Publish(answer)
  BY <1>8, <1>11, PublishMoves DEF Texts
<1> QED
  BY <1>1, <1>2, <1>3, <1>4, <1>5, <1>6, <1>7, <1>9, <1>10, <1>11, NextSteps

\* A message in nobody's keeping has been answered.
LEMMA LostStep ==
  TypeOK /\ PlacesOK /\ AnswersOK /\ NothingLost /\ [Next]_vars => NothingLost'
<1> SUFFICES ASSUME TypeOK, PlacesOK, AnswersOK, NothingLost, [Next]_vars PROVE NothingLost'
  OBVIOUS
<1> USE DEF NothingLost, Unacked
<1>1. CASE \E r \in Requests : Call(r)
  BY <1>1 DEF Call
<1>2. CASE \E r \in Requests : Deliver(r)
  BY <1>2 DEF Deliver
<1>3. CASE Lose
  BY <1>3 DEF Lose
<1>4. CASE Outage \/ Recover \/ CleanUp \/ UNCHANGED vars
  BY <1>4 DEF Outage, Recover, CleanUp, vars
<1>5. CASE Connect \/ RunFails
  BY <1>5 DEF Connect, RunFails
<1>6. CASE \E r \in Requests : Take(r)
  BY <1>6, RequestAssumption DEF Take, PlacesOK, TypeOK, Texts
<1>7. ASSUME HandlerMoves
      PROVE  NothingLost'
  BY <1>7 DEF HandlerMoves, PlacesOK
<1>8. CASE Ensure \/ Query
  BY <1>7, <1>8, ReadingMoves
<1>9. CASE Ack
  BY <1>7, <1>9, AckMoves DEF AnswersOK, PlacesOK, TypeOK
<1>10. CASE \E answer \in Texts : Publish(answer)
  <2>1. PICK answer \in Texts : Publish(answer)
    BY <1>10
  <2>2. CASE answers' = [answers EXCEPT ![current] = Append(@, answer)]
             /\ UNCHANGED <<called, waiting, buffer, parked, current>>
    <3>1. ASSUME NEW r \in Requests, answers[r] # <<>> PROVE answers'[r] # <<>>
      <4>1. answers \in [Requests -> Seq(Texts)]
        BY DEF TypeOK
      <4>2. CASE r = current
        <5>1. answers[r] \in Seq(Texts) /\ answers'[r] = Append(answers[r], answer)
          BY <2>2, <4>1, <4>2
        <5> QED
          BY <5>1
      <4>3. CASE r # current
        BY <2>2, <3>1, <4>1, <4>3
      <4> QED
        BY <4>2, <4>3
    <3> QED
      BY <2>2, <3>1 DEF TypeOK
  <2> QED
    BY <1>7, <2>1, <2>2, PublishMoves
<1> QED
  BY <1>1, <1>2, <1>3, <1>4, <1>5, <1>6, <1>8, <1>9, <1>10, NextSteps

-----------------------------------------------------------------------------
(* The prefetch window                                                      *)

LEMMA HeldSets ==
  ASSUME TypeOK
  PROVE  /\ IsFiniteSet(buffer) /\ IsFiniteSet(parked)
         /\ Cardinality(buffer) \in Nat /\ Cardinality(parked) \in Nat
<1>1. buffer \subseteq Requests /\ parked \subseteq Requests
  BY DEF TypeOK
<1>2. IsFiniteSet(buffer) /\ IsFiniteSet(parked)
  BY <1>1, FS_Subset, RequestAssumption
<1> QED
  BY <1>2, FS_CardinalityType

LEMMA WindowStep == TypeOK /\ PlacesOK /\ WindowOK /\ [Next]_vars => WindowOK'
<1> SUFFICES ASSUME TypeOK, PlacesOK, WindowOK, [Next]_vars PROVE WindowOK'
  OBVIOUS
<1>1. CASE \E r \in Requests : Call(r)
  BY <1>1 DEF Call, WindowOK, Held
<1>2. CASE \E r \in Requests : Deliver(r)
  <2>1. PICK r \in Requests : Deliver(r)
    BY <1>2
  <2>2. Cardinality(buffer') <= Cardinality(buffer) + 1 /\ Cardinality(buffer') \in Nat
    <3>1. Cardinality(buffer \cup {r}) = IF r \in buffer THEN Cardinality(buffer)
                                                       ELSE Cardinality(buffer) + 1
      BY HeldSets, FS_AddElement
    <3>2. buffer' = buffer \cup {r}
      BY <2>1 DEF Deliver
    <3> QED
      BY <3>1, <3>2, HeldSets
  <2>3. UNCHANGED <<parked, current>> /\ Held < Prefetch
    BY <2>1 DEF Deliver
  <2> QED
    BY <2>2, <2>3, HeldSets, LimitAssumption DEF WindowOK, Held
<1>3. CASE Lose
  BY <1>3 DEF Lose, WindowOK
<1>4. CASE Outage \/ Recover \/ CleanUp \/ UNCHANGED vars
  BY <1>4 DEF Outage, Recover, CleanUp, vars, WindowOK, Held
<1>5. CASE Connect
  <2>1. buffer' = {} /\ parked' = {} /\ current' = None
    BY <1>5 DEF Connect, PlacesOK, Texts
  <2> QED
    BY <2>1, FS_EmptySet, LimitAssumption DEF WindowOK, Held
<1>6. CASE RunFails
  BY <1>6 DEF RunFails, WindowOK, Held
<1>7. CASE \E r \in Requests : Take(r)
  <2>1. PICK r \in Requests : Take(r)
    BY <1>7
  <2>2. Cardinality(buffer') = Cardinality(buffer) - 1
    BY <2>1, HeldSets, FS_RemoveElement DEF Take
  <2>3. current = None /\ current' # None /\ parked' = parked /\ link' = link
    BY <2>1, RequestAssumption DEF Take, PlacesOK, Texts
  <2> QED
    BY <2>2, <2>3, HeldSets, LimitAssumption DEF WindowOK, Held
<1>8. ASSUME HandlerMoves, pc \in Handling
      PROVE  WindowOK'
  <2>1. CASE UNCHANGED <<parked, current>>
    BY <1>8, <2>1 DEF HandlerMoves, WindowOK, Held
  <2>2. CASE link = "up" /\ current' = None /\ parked' = parked \cup {current}
    <3>1. Cardinality(parked') <= Cardinality(parked) + 1 /\ Cardinality(parked') \in Nat
      BY <2>2, HeldSets, FS_AddElement, FS_CardinalityType
    <3>2. current # None /\ buffer' = buffer /\ link' = link
      BY <1>8 DEF HandlerMoves, PlacesOK, Handling
    <3> QED
      BY <2>2, <3>1, <3>2, HeldSets, LimitAssumption DEF WindowOK, Held
  <2>3. CASE link # "up"
    BY <1>8, <2>3 DEF HandlerMoves, WindowOK
  <2> QED
    BY <1>8, <2>1, <2>2, <2>3 DEF HandlerMoves
<1>9. CASE Ensure \/ Query
  BY <1>8, <1>9, ReadingMoves DEF Handling
<1>10. CASE Ack
  <2>1. CASE HandlerMoves
    BY <1>8, <1>10, <2>1, AckMoves DEF Handling
  <2>2. CASE current' = None /\ UNCHANGED <<buffer, parked, link>>
    BY <2>2, HeldSets, LimitAssumption DEF WindowOK, Held
  <2> QED
    BY <1>10, <2>1, <2>2, AckMoves
<1>11. CASE \E answer \in Texts : Publish(answer)
  <2>1. PICK answer \in Texts : Publish(answer)
    BY <1>11
  <2>2. CASE HandlerMoves
    BY <1>8, <2>1, <2>2, PublishMoves DEF Handling
  <2>3. CASE UNCHANGED <<buffer, parked, current, link>>
    BY <2>3 DEF WindowOK, Held
  <2> QED
    BY <2>1, <2>2, <2>3, PublishMoves
<1> QED
  BY <1>1, <1>2, <1>3, <1>4, <1>5, <1>6, <1>7, <1>9, <1>10, <1>11, NextSteps

-----------------------------------------------------------------------------
(* How often a message is answered                                          *)

AnsweredOK == AnswersOK /\ DuplicatesNeedFailures

LEMMA AnsweredStep == TypeOK /\ PlacesOK /\ AnsweredOK /\ [Next]_vars => AnsweredOK'
<1> SUFFICES ASSUME TypeOK, PlacesOK, AnsweredOK, [Next]_vars PROVE AnsweredOK'
  OBVIOUS
<1> USE DEF AnsweredOK, AnswersOK, DuplicatesNeedFailures, Failures
<1>n. /\ Failures \in Nat
      /\ \A r \in Requests : Len(answers[r]) \in Nat
  BY LimitAssumption DEF TypeOK
<1>s. /\ called \subseteq Requests /\ waiting \subseteq called
      /\ buffer \subseteq called /\ parked \subseteq called
      /\ current \in called \cup {None} /\ None \notin Requests
  BY RequestAssumption DEF TypeOK
<1>1. CASE \E r \in Requests : Call(r)
  <2>1. PICK r \in Requests : Call(r)
    BY <1>1
  <2>2. Len(answers[r]) <= Failures
    BY <2>1, <1>n DEF Call
  <2> QED
    BY <2>1, <2>2, <1>s DEF Call
<1>2. CASE \E r \in Requests : Deliver(r)
  BY <1>2, <1>s DEF Deliver
<1>3. CASE Lose
  BY <1>3 DEF Lose, PlacesOK, Texts
<1>4. CASE Outage \/ Recover \/ CleanUp \/ UNCHANGED vars
  BY <1>4 DEF Outage, Recover, CleanUp, vars
<1>5. CASE Connect
  BY <1>5, <1>s DEF Connect, PlacesOK, Texts
<1>6. CASE RunFails
  <2>1. Tries - mtries' = Failures + 1
    BY <1>6, LimitAssumption DEF RunFails, TypeOK
  <2> QED
    BY <1>6, <2>1, <1>n, <1>s DEF RunFails, PlacesOK, Texts
<1>7. CASE \E r \in Requests : Take(r)
  BY <1>7, <1>s DEF Take
<1>8. ASSUME HandlerMoves, pc \in Handling, link = "down" \/ pc # "ack"
      PROVE  AnsweredOK'
  BY <1>8, <1>s DEF HandlerMoves, PlacesOK, Handling, Texts
<1>9. CASE Ensure \/ Query
  BY <1>8, <1>9, ReadingMoves DEF Handling
<1>10. CASE Ack
  <2>1. CASE link = "down" /\ HandlerMoves
    BY <1>8, <1>10, <2>1, AckMoves DEF Handling
  <2>2. CASE /\ pc' = "consume" /\ current' = None
             /\ UNCHANGED <<called, waiting, buffer, parked, link, mtries, answers>>
    BY <2>2
  <2> QED
    BY <1>10, <2>1, <2>2, AckMoves
<1>11. CASE \E answer \in Texts : Publish(answer)
  <2>1. PICK answer \in Texts : Publish(answer)
    BY <1>11
  <2>2. CASE link = "down" /\ HandlerMoves
    BY <1>8, <2>1, <2>2, PublishMoves DEF Handling
  <2>3. CASE /\ link = "down" /\ pc' = "ack"
             /\ UNCHANGED <<called, waiting, buffer, parked, current, link, mtries, answers>>
    BY <2>3
  <2>4. CASE /\ link = "up" /\ pc' = "ack"
             /\ answers' = [answers EXCEPT ![current] = Append(@, answer)]
             /\ UNCHANGED <<called, waiting, buffer, parked, current, link, mtries>>
    <3>1. current \in called /\ Len(answers[current]) <= Failures
      BY <2>1, <2>4, <1>s DEF PlacesOK, Publish, Texts
    <3>2. \A r \in Requests \ {current} : answers'[r] = answers[r]
      BY <2>4 DEF TypeOK
    <3>3. answers[current] \in Seq(Texts) /\ answers'[current] = Append(answers[current], answer)
      BY <2>4, <3>1, <1>s DEF TypeOK
    <3>4. answers'[current] # <<>> /\ Len(answers'[current]) <= Failures + 1
      BY <3>1, <3>3, <1>n
    <3> QED
      BY <2>4, <3>1, <3>2, <3>4, <1>n, <1>s DEF PlacesOK
  <2> QED
    BY <2>1, <2>2, <2>3, <2>4, PublishMoves
<1> QED
  BY <1>1, <1>2, <1>3, <1>4, <1>5, <1>6, <1>7, <1>9, <1>10, <1>11, NextSteps

-----------------------------------------------------------------------------
(* Theorems                                                                 *)

LEMMA InitInv == Init => IInv
<1> SUFFICES ASSUME Init PROVE IInv
  OBVIOUS
<1> USE LimitAssumption, RequestAssumption DEF Init
<1>1. TypeOK
  BY DEF TypeOK
<1>2. PlacesOK
  BY DEF PlacesOK, Texts
<1>3. AnswersOK /\ DuplicatesNeedFailures /\ NothingLost /\ WindowOK
  BY DEF AnswersOK, DuplicatesNeedFailures, NothingLost, WindowOK, Failures
<1> QED
  BY <1>1, <1>2, <1>3 DEF IInv

\* The inductive invariant holds for any calls, window, tries and retries.
THEOREM Invariance == Spec => []IInv
<1>1. IInv /\ [Next]_vars => IInv'
  BY TypeStep, PlacesStep, WindowStep, LostStep, AnsweredStep DEF IInv, AnsweredOK
<1> QED
  BY InitInv, <1>1, PTL DEF Spec

\* Every variable keeps to its type.
THEOREM TypeCorrect == Spec => []TypeOK
<1>1. IInv => TypeOK
  BY DEF IInv
<1> QED
  BY <1>1, Invariance, PTL

\* A usage call leaves the broker's keeping only after it was answered.
THEOREM NoCallIsLost == Spec => []NothingLost
BY Invariance, PTL DEF IInv

\* Each repeated answer costs one of the thread's tries.
THEOREM AnswersAreFew == Spec => []DuplicatesNeedFailures
BY Invariance, PTL DEF IInv

=============================================================================
