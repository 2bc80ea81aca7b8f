-------------------------- MODULE RpcClient_proofs --------------------------
(***************************************************************************)
(* The RPC clients for any set of calls and any number of crashes: see     *)
(* IInv in RpcClient.                                                      *)
(***************************************************************************)
EXTENDS RpcClient, TLAPS

USE DEF broker, service, object

\* The classes differ only in the queue they publish to.
LEMMA NextSteps ==
  ASSUME Next
  PROVE  \E o \in Objects :
           \/ \E q \in Queues : Construct(o, q)
           \/ Publish(o) \/ Pump(o) \/ Deliver(o) \/ Work(o) \/ Acknowledge(o)
           \/ Crash(o) \/ Vanish(o) \/ DropLink(o)
<1>1. ASSUME NEW o \in Objects, Caller(o)
      PROVE  (\E q \in Queues : Construct(o, q)) \/ Publish(o) \/ Pump(o)
  BY <1>1 DEF Caller, Client, Queues, RPCClientUpdateUsageCatvCall,
       RPCClientUpdateUsageCSVCatvCall, RPCClientFetchResultFileUid,
       RPCClientFetchResultFileList, RPCClientCATVFetchIndicators,
       RPCClientCATVCheckTerraAccess, RPCAPIRateFetcher, RPCAPIRequestValidator
<1> QED
  BY <1>1 DEF Next

LEMMA TypeStep == TypeOK /\ [Next]_vars => TypeOK'
<1> SUFFICES ASSUME TypeOK, [Next]_vars PROVE TypeOK'
  OBVIOUS
<1> USE ClientAssumption DEF TypeOK
<1>1. CASE UNCHANGED vars
  BY <1>1 DEF vars
<1>2. CASE Next
  <2> PICK o \in Objects :
           \/ \E q \in Queues : Construct(o, q)
           \/ Publish(o) \/ Pump(o) \/ Deliver(o) \/ Work(o) \/ Acknowledge(o)
           \/ Crash(o) \/ Vanish(o) \/ DropLink(o)
    BY <1>2, NextSteps
  <2>1. CASE \E q \in Queues : Construct(o, q)
    BY <2>1 DEF Construct
  <2>2. CASE Publish(o)
    BY <2>2 DEF Publish
  <2>3. CASE Pump(o)
    BY <2>3 DEF Pump
  <2>4. CASE Deliver(o) \/ Acknowledge(o) \/ Vanish(o) \/ DropLink(o)
    BY <2>4 DEF Deliver, Acknowledge, Vanish, DropLink
  <2>5. CASE Work(o)
    BY <2>5 DEF Work
  <2>6. CASE Crash(o)
    BY <2>6 DEF Crash
  <2> QED
    BY <2>1, <2>2, <2>3, <2>4, <2>5, <2>6
<1> QED
  BY <1>1, <1>2

-----------------------------------------------------------------------------
(* Each action against the two parts of the invariant                      *)

\* A request stays in one place, and what is carried out again was handed
\* back by a crash.
LEMMA RequestsStep == TypeOK /\ RequestsOK /\ [Next]_vars => RequestsOK'
<1> SUFFICES ASSUME TypeOK, RequestsOK, [Next]_vars PROVE RequestsOK'
  OBVIOUS
<1> USE DEF RequestsOK, Out, TypeOK
<1>1. CASE UNCHANGED vars
  BY <1>1 DEF vars
<1>2. CASE Next
  <2> PICK o \in Objects :
           \/ \E q \in Queues : Construct(o, q)
           \/ Publish(o) \/ Pump(o) \/ Deliver(o) \/ Work(o) \/ Acknowledge(o)
           \/ Crash(o) \/ Vanish(o) \/ DropLink(o)
    BY <1>2, NextSteps
  <2>n. crashes \in Nat
    BY ClientAssumption
  <2>1. CASE \E q \in Queues : Construct(o, q)
    BY <2>1 DEF Construct
  <2>2. CASE Publish(o)
    BY <2>2, <2>n DEF Publish
  <2>3. CASE Pump(o)
    BY <2>3 DEF Pump
  <2>4. CASE Deliver(o)
    BY <2>4, <2>n DEF Deliver
  <2>5. CASE Work(o)
    BY <2>5, <2>n DEF Work
  <2>6. CASE Acknowledge(o)
    BY <2>6 DEF Acknowledge
  <2>7. CASE Crash(o)
    BY <2>7, <2>n DEF Crash
  <2>8. CASE Vanish(o)
    BY <2>8, <2>n DEF Vanish
  <2>9. CASE DropLink(o)
    BY <2>9 DEF DropLink
  <2> QED
    BY <2>1, <2>2, <2>3, <2>4, <2>5, <2>6, <2>7, <2>8, <2>9
<1> QED
  BY <1>1, <1>2

\* Only the object's own answer reaches its callback queue, which lives as
\* long as its connection.
LEMMA RepliesStep == TypeOK /\ RequestsOK /\ RepliesOK /\ [Next]_vars => RepliesOK'
<1> SUFFICES ASSUME TypeOK, RequestsOK, RepliesOK, [Next]_vars PROVE RepliesOK'
  OBVIOUS
<1> USE DEF RepliesOK, TypeOK
<1>1. CASE UNCHANGED vars
  BY <1>1 DEF vars
<1>2. CASE Next
  <2> PICK o \in Objects :
           \/ \E q \in Queues : Construct(o, q)
           \/ Publish(o) \/ Pump(o) \/ Deliver(o) \/ Work(o) \/ Acknowledge(o)
           \/ Crash(o) \/ Vanish(o) \/ DropLink(o)
    BY <1>2, NextSteps
  <2>1. CASE \E q \in Queues : Construct(o, q)
    BY <2>1 DEF Construct
  <2>2. CASE Publish(o)
    BY <2>2 DEF Publish
  <2>3. CASE Pump(o)
    BY <2>3 DEF Pump
  <2>4. CASE Work(o)
    BY <2>4 DEF Work, RequestsOK
  <2>5. CASE Deliver(o) \/ Acknowledge(o) \/ Crash(o) \/ Vanish(o)
    BY <2>5 DEF Deliver, Acknowledge, Crash, Vanish
  <2>6. CASE DropLink(o)
    BY <2>6 DEF DropLink
  <2> QED
    BY <2>1, <2>2, <2>3, <2>4, <2>5, <2>6
<1> QED
  BY <1>1, <1>2

-----------------------------------------------------------------------------
(* Theorems                                                                 *)

LEMMA InitInv == Init => IInv
<1> SUFFICES ASSUME Init PROVE IInv
  OBVIOUS
<1> USE ClientAssumption DEF Init
<1>1. TypeOK
  BY DEF TypeOK
<1>2. RequestsOK /\ RepliesOK
  BY DEF RequestsOK, Out, RepliesOK
<1> QED
  BY <1>1, <1>2 DEF IInv

\* The inductive invariant holds for any calls and any number of crashes.
THEOREM Invariance == Spec => []IInv
<1>1. IInv /\ [Next]_vars => IInv'
  BY TypeStep, RequestsStep, RepliesStep DEF IInv
<1> QED
  BY InitInv, <1>1, PTL DEF Spec

\* A request is carried out again only for a service that crashed with it.
THEOREM NeverRepeated == Spec => []RepeatsNeedCrashes
<1>1. IInv => RepeatsNeedCrashes
  <2> SUFFICES ASSUME IInv, NEW o \in Objects
               PROVE  done[o] <= 1 + crashes
                      /\ (done[o] > 0 => pc[o] \in {"sent", "returned", "raised"})
    BY DEF RepeatsNeedCrashes
  <2>1. done[o] \in Nat /\ crashes \in Nat /\ Out(o) \in Nat
    BY ClientAssumption DEF IInv, TypeOK, Out
  <2>2. done[o] + Out(o) <= 1 + crashes
    BY DEF IInv, RequestsOK
  <2>3. pc[o] \in {"new", "open"} => done[o] = 0
    BY DEF IInv, RequestsOK
  <2>4. pc[o] \in {"new", "open", "sent", "returned", "raised"}
    BY DEF IInv, TypeOK
  <2> QED
    BY <2>1, <2>2, <2>3, <2>4
<1> QED
  BY Invariance, <1>1, PTL

\* A call that is over has left no connection and no answer behind.
THEOREM CleanEnd == Spec => []NothingLeftBehind
<1>1. IInv => NothingLeftBehind
  <2> SUFFICES ASSUME IInv, NEW o \in Objects, pc[o] \in {"returned", "raised"}
               PROVE  o \notin link /\ replies[o] = {}
    BY DEF NothingLeftBehind
  <2>1. o \notin link /\ replies[o] \subseteq {o} /\ (o \in replies[o] => o \in link)
    BY DEF IInv, RepliesOK
  <2> QED
    BY <2>1
<1> QED
  BY Invariance, <1>1, PTL
=============================================================================
