--------------------------- MODULE CsvUpload_proofs ---------------------------
(***************************************************************************)
(* Safety of the CSV upload for any set of uploads, any rows, any size of  *)
(* file and any chunking: see IInv in CsvUpload.                           *)
(***************************************************************************)
EXTENDS CsvUpload, FiniteSetTheorems, WellFoundedInduction, TLAPS

-----------------------------------------------------------------------------
(* The chunking                                                             *)

\* A set of rows has a first one.
LEMMA FirstRow ==
  ASSUME NEW rows \in SUBSET Nat, rows # {}
  PROVE  \E i \in rows : \A j \in rows : ~ (j < i)
<1>1. PICK i \in rows : \A j \in rows : ~ (<<j, i>> \in OpToRel(<, Nat))
  BY NatLessThanWellFounded, WFMin, Zenon
<1>2. \A j \in rows : j < i => <<j, i>> \in OpToRel(<, Nat)
  BY DEF OpToRel
<1> QED
  BY <1>1, <1>2

\* The first record is in the first slice, whatever the slice and the stride:
\* no non-empty upload is written as an empty batch.
LEMMA SomethingIsWritten ==
  ASSUME NEW rows \in SUBSET Nat, rows # {}
  PROVE  Written(rows) # {}
<1>1. PICK i \in rows : \A j \in rows : ~ (j < i)
  BY FirstRow
<1>2. {j \in rows : j < i} = {}
  BY <1>1
<1>3. Place(i, rows) = 0
  BY <1>2, FS_EmptySet DEF Place
<1>4. 0 % Stride < Slice
  BY SliceAssumption, StrideAssumption
<1> QED
  BY <1>3, <1>4 DEF Written

\* A file of at most one slice is written as a whole.
LEMMA OneSliceIsWhole ==
  ASSUME NEW rows \in SUBSET Nat, IsFiniteSet(rows), Cardinality(rows) <= Slice
  PROVE  Written(rows) = rows
<1>1. SUFFICES ASSUME NEW i \in rows PROVE Place(i, rows) % Stride < Slice
  BY DEF Written
<1> DEFINE before == {j \in rows : j < i}
<1>2. before \in SUBSET rows /\ before # rows
  BY <1>1
<1>3. /\ IsFiniteSet(before)
      /\ Cardinality(before) <= Cardinality(rows)
      /\ Cardinality(before) # Cardinality(rows)
  BY <1>2, FS_Subset
<1>4. Cardinality(before) \in Nat /\ Cardinality(rows) \in Nat
  BY <1>3, FS_CardinalityType
<1>5. Place(i, rows) = Cardinality(before)
  BY DEF Place
<1> HIDE DEF before
<1>6. Cardinality(before) < Slice
  BY <1>3, <1>4, SliceAssumption
<1>7. Cardinality(before) % Stride = Cardinality(before)
  BY <1>4, <1>6, SliceAssumption, StrideAssumption
<1> QED
  BY <1>5, <1>6, <1>7

\* What a cleaned file costs is a number of credits.
LEMMA CostType ==
  ASSUME TypeOK, NEW u \in Uploads
  PROVE  IsFiniteSet(kept[u]) /\ Cost(u) \in Nat
<1>1. IsFiniteSet(RowNumbers)
  BY FS_Interval, PriceAssumption DEF RowNumbers
<1>2. kept[u] \in SUBSET RowNumbers
  BY DEF TypeOK
<1>3. IsFiniteSet(kept[u]) /\ Cardinality(kept[u]) \in Nat
  BY <1>1, <1>2, FS_Subset, FS_CardinalityType
<1>4. \A a, b \in Nat : a * b \in Nat
  OBVIOUS
<1> QED
  BY <1>3, <1>4, PriceAssumption DEF Cost

-----------------------------------------------------------------------------
(* What a step of one upload leaves alone                                   *)

UploadOK(u) == RowsOK(u) /\ TablesOK(u) /\ RpcOK(u)

Same(v) ==
  /\ pc'[v] = pc[v] /\ file'[v] = file[v] /\ kept'[v] = kept[v] /\ terra'[v] = terra[v]
  /\ quota'[v] = quota[v] /\ written'[v] = written[v] /\ stored'[v] = stored[v]
  /\ rpc'[v] = rpc[v] /\ reply'[v] = reply[v]

LEMMA Frame ==
  ASSUME NEW v \in Uploads, UploadOK(v), Same(v)
  PROVE  UploadOK(v)'
<1>1. RowsOK(v)'
  BY DEF UploadOK, RowsOK, Same, Passed, Lunc, Cost
<1>2. TablesOK(v)'
  BY DEF UploadOK, TablesOK, Same, Batch
<1>3. RpcOK(v)'
  BY DEF UploadOK, RpcOK, Same, Batch
<1> QED
  BY <1>1, <1>2, <1>3 DEF UploadOK

\* A step of u that spends nothing.
LEMMA StepOf ==
  ASSUME IInv, NEW u \in Uploads, TypeOK', UploadOK(u)',
         \A v \in Uploads \ {u} : Same(v),
         UNCHANGED <<balance, cached>>,
         rpc' = rpc \/ (rpc[u] = "none" /\ rpc' = [rpc EXCEPT ![u] = "sent"]),
         quota' = quota \/ quota' = [quota EXCEPT ![u] = cached]
  PROVE  IInv'
<1>1. \A v \in Uploads : UploadOK(v)'
  BY Frame DEF IInv, UploadOK
<1>2. CreditsOK'
  <2>1. balance' <= Credits /\ cached' <= Credits
    BY DEF IInv, CreditsOK
  <2>2. \A v \in Uploads : quota'[v] <= Credits
    BY DEF IInv, CreditsOK, TypeOK
  <2> QED
    BY <2>1, <2>2 DEF CreditsOK
<1> QED
  BY <1>1, <1>2 DEF IInv, UploadOK

-----------------------------------------------------------------------------
(* The steps before the batch                                               *)

\* A step that only moves the handler, or ends it.
Moves(u, l) ==
  /\ pc' = [pc EXCEPT ![u] = l]
  /\ UNCHANGED <<file, kept, terra, quota, rpc, balance, cached>> /\ UNCHANGED tables

LEMMA MoveTypes ==
  ASSUME TypeOK, NEW u \in Uploads, NEW l \in Locs, Moves(u, l),
         reply' = reply \/ (\E a \in Replies : reply' = [reply EXCEPT ![u] = a])
  PROVE  TypeOK' /\ pc'[u] = l
BY DEF TypeOK, Moves, tables

\* The handler is told no, fails or dies.
LEMMA Stops ==
  ASSUME IInv, NEW u \in Uploads, NEW l \in {"end", "dead"}, pc[u] # "end", Moves(u, l),
         \/ reply' = reply
         \/ \E a \in Replies \ {"submitted"} : reply' = [reply EXCEPT ![u] = a]
  PROVE  IInv'
<1>1. TypeOK' /\ pc'[u] = l
  BY MoveTypes DEF IInv, Locs
<1>2. reply'[u] # "submitted"
  BY DEF IInv, RpcOK, TypeOK
<1>3. \A v \in Uploads \ {u} : Same(v)
  BY DEF IInv, TypeOK, Moves, tables, Same
<1>4. UploadOK(u)'
  <2> UNCHANGED <<file, kept, terra, quota, rpc, written, stored>>
    BY DEF Moves, tables
  <2>1. RowsOK(u)'
    BY <1>1 DEF IInv, RowsOK, Passed, Lunc, Cost, Late
  <2>2. TablesOK(u)'
    BY <1>1 DEF IInv, TablesOK, Batch, Early, Late
  <2>3. RpcOK(u)'
    BY <1>1, <1>2 DEF IInv, RpcOK, Batch, Early
  <2> QED
    BY <2>1, <2>2, <2>3 DEF UploadOK
<1> QED
  BY <1>1, <1>3, <1>4, StepOf DEF Moves

LEMMA ThrottleStep ==
  ASSUME IInv, NEW u \in Uploads, Throttle(u)
  PROVE  IInv'
<1>1. CASE pc' = [pc EXCEPT ![u] = "read"] /\ reply' = reply
  <2>1. Moves(u, "read")
    BY <1>1 DEF Throttle, Moves, Goto, Finish
  <2>2. TypeOK' /\ pc'[u] = "read"
    BY <1>1, <2>1, MoveTypes DEF IInv, Locs
  <2>3. \A v \in Uploads \ {u} : Same(v)
    BY <1>1, <2>1 DEF IInv, TypeOK, Moves, tables, Same
  <2>4. UploadOK(u)'
    BY <1>1, <2>1, <2>2
    DEF IInv, UploadOK, RowsOK, TablesOK, RpcOK, Throttle, Moves, tables, Passed, Lunc, Cost, Batch, Early, Late
  <2> QED
    BY <2>1, <2>2, <2>3, <2>4, StepOf DEF Moves
<1>2. CASE Finish(u, "throttled")
  BY <1>2, Stops DEF Throttle, Finish, Moves, Replies
<1> QED
  BY <1>1, <1>2 DEF Throttle, Goto

LEMMA ReadStep ==
  ASSUME IInv, NEW u \in Uploads, NEW n \in 0..MaxRows, NEW rows \in [1..n -> Rows], Read(u, rows)
  PROVE  IInv'
<1>1. CASE /\ file' = [file EXCEPT ![u] = rows]
           /\ kept' = [kept EXCEPT ![u] = DOMAIN rows]
           /\ pc' = [pc EXCEPT ![u] = "user"] /\ UNCHANGED reply
  <2>1. rows \in Seq(Rows) /\ DOMAIN rows = 1..n /\ 1..n \subseteq RowNumbers
    BY PriceAssumption DEF RowNumbers
  <2>2. TypeOK'
    BY <1>1, <2>1 DEF IInv, TypeOK, Read, tables, Locs
  <2>3. \A v \in Uploads \ {u} : Same(v)
    BY <1>1 DEF IInv, TypeOK, Read, tables, Same
  <2>4. /\ pc[u] = "read" /\ pc'[u] = "user" /\ kept'[u] = DOMAIN file'[u]
        /\ UNCHANGED <<terra, quota, rpc, reply, written, stored>>
    BY <1>1, <2>1 DEF IInv, TypeOK, Read, tables
  <2>5. written[u] = NoRows /\ stored[u] = NoRows /\ rpc[u] = "none" /\ reply[u] # "submitted"
    BY <2>4 DEF IInv, TablesOK, RpcOK, Early
  <2>6. RowsOK(u)'
    BY <2>4, <2>5 DEF RowsOK, Passed, Late
  <2>7. TablesOK(u)'
    BY <2>4, <2>5 DEF TablesOK, NoRows, Tables, Late
  <2>8. RpcOK(u)'
    BY <2>4, <2>5 DEF RpcOK
  <2> QED
    BY <2>2, <2>3, <2>6, <2>7, <2>8, StepOf DEF Read, UploadOK
<1>2. CASE Finish(u, "invalid") /\ UNCHANGED kept
  BY <1>2, Stops DEF Read, Finish, Moves, Replies
<1> QED
  BY <1>1, <1>2 DEF Read

\* An early step leaves tables and RPC alone.
LEMMA EarlyStep ==
  ASSUME IInv, NEW u \in Uploads, pc[u] \in Early, UNCHANGED <<written, stored, rpc, reply>>,
         pc'[u] \in Early \cup {"store"}
  PROVE  TablesOK(u)' /\ RpcOK(u)' /\ stored'[u] = NoRows /\ rpc'[u] = "none"
<1>1. written[u] = NoRows /\ stored[u] = NoRows /\ rpc[u] = "none" /\ reply[u] # "submitted"
  BY DEF IInv, TablesOK, RpcOK, Early
<1>2. TablesOK(u)'
  BY <1>1 DEF TablesOK, NoRows, Tables, Late, Early
<1>3. RpcOK(u)'
  BY <1>1 DEF RpcOK
<1> QED
  BY <1>1, <1>2, <1>3

LEMMA GetUserStep ==
  ASSUME IInv, NEW u \in Uploads, GetUser(u)
  PROVE  IInv'
<1>1. pc[u] = "user" /\ pc'[u] = "clean" /\ UNCHANGED <<file, kept, terra, rpc, reply, written, stored, balance, cached>>
  BY DEF IInv, TypeOK, GetUser, Goto, tables
<1>2. TypeOK' /\ quota' = [quota EXCEPT ![u] = cached]
  BY DEF IInv, TypeOK, GetUser, Goto, tables, Locs
<1>3. \A v \in Uploads \ {u} : Same(v)
  BY DEF IInv, TypeOK, GetUser, Goto, tables, Same
<1>4. TablesOK(u)' /\ RpcOK(u)' /\ stored'[u] = NoRows /\ rpc'[u] = "none"
  BY <1>1, EarlyStep DEF Early
<1>5. RowsOK(u)'
  BY <1>1, <1>4 DEF IInv, RowsOK, Passed, Late
<1> QED
  BY <1>1, <1>2, <1>3, <1>4, <1>5, StepOf DEF UploadOK

LEMMA CleanStep ==
  ASSUME IInv, NEW u \in Uploads, Clean(u)
  PROVE  IInv'
<1>1. /\ pc[u] = "clean" /\ pc'[u] = "terra" /\ kept'[u] = process_dataframe(file[u])
      /\ UNCHANGED <<file, terra, quota, rpc, reply, written, stored, balance, cached>>
  BY DEF IInv, TypeOK, Clean, Goto, tables
<1>2. process_dataframe(file[u]) \subseteq DOMAIN file[u]
  BY DEF process_dataframe, DropDuplicates
<1>3. process_dataframe(file[u]) \in SUBSET RowNumbers
  BY <1>2 DEF IInv, TypeOK
<1>4. TypeOK'
  BY <1>3 DEF IInv, TypeOK, Clean, Goto, tables, Locs
<1>5. \A v \in Uploads \ {u} : Same(v)
  BY DEF IInv, TypeOK, Clean, Goto, tables, Same
<1>6. TablesOK(u)' /\ RpcOK(u)' /\ stored'[u] = NoRows /\ rpc'[u] = "none"
  BY <1>1, EarlyStep DEF Early
<1>7. RowsOK(u)'
  BY <1>1, <1>2, <1>6 DEF RowsOK, Passed, Late
<1> QED
  BY <1>1, <1>4, <1>5, <1>6, <1>7, StepOf DEF UploadOK, Clean

\* Only a LUNC row needs the check, and one that is kept was not refused.
LEMMA TerraStep ==
  ASSUME IInv, NEW u \in Uploads, check_terra_permission(u)
  PROVE  IInv'
<1>1. /\ pc[u] = "terra" /\ pc'[u] = "credits"
      /\ UNCHANGED <<file, quota, rpc, reply, written, stored, balance, cached>>
  BY DEF IInv, TypeOK, check_terra_permission, Goto, tables
<1>2. /\ kept' = kept \/ kept' = [kept EXCEPT ![u] = kept[u] \ Lunc(u)]
      /\ terra' \in [Uploads -> {"none", "True", "False", "other"}]
  <2>1. kept' = kept \/ kept' = [kept EXCEPT ![u] = kept[u] \ Lunc(u)]
    BY DEF check_terra_permission
  <2>2. \/ terra' = terra
        \/ \E says \in {"True", "False", "other"} : terra' = [terra EXCEPT ![u] = says]
    BY DEF check_terra_permission
  <2>3. terra \in [Uploads -> {"none", "True", "False", "other"}]
    BY DEF IInv, TypeOK
  <2> QED
    BY <2>1, <2>2, <2>3
<1>3. /\ pc[u] = "terra" /\ pc'[u] = "credits" /\ kept'[u] \in SUBSET kept[u]
      /\ kept' \in [Uploads -> SUBSET RowNumbers]
      /\ UNCHANGED <<file, quota, rpc, reply, written, stored, balance, cached>>
  <2>1. kept \in [Uploads -> SUBSET RowNumbers]
    BY DEF IInv, TypeOK
  <2>2. kept' \in [Uploads -> SUBSET RowNumbers] /\ kept'[u] \subseteq kept[u]
    BY <1>2, <2>1
  <2> QED
    BY <1>1, <2>2
<1>4. TypeOK'
  <2>1. pc' \in [Uploads -> Locs]
    <3>1. pc' = [pc EXCEPT ![u] = "credits"] /\ "credits" \in Locs
      BY DEF check_terra_permission, Goto, Locs
    <3> QED
      BY <3>1 DEF IInv, TypeOK
  <2> QED
    BY <1>2, <1>3, <2>1 DEF IInv, TypeOK
<1>5. \A v \in Uploads \ {u} : Same(v)
  BY DEF IInv, TypeOK, check_terra_permission, Goto, tables, Same
<1>6. TablesOK(u)' /\ RpcOK(u)' /\ stored'[u] = NoRows /\ rpc'[u] = "none"
  BY <1>3, EarlyStep DEF Early
<1>7. Lunc(u)' = {} \/ terra'[u] \in {"True", "other"}
  BY <1>3 DEF IInv, TypeOK, check_terra_permission, Lunc
<1>8. kept[u] \subseteq DOMAIN file[u] /\ kept[u] \subseteq process_dataframe(file[u])
  BY <1>3 DEF IInv, RowsOK
<1>9. RowsOK(u)'
  BY <1>3, <1>6, <1>7, <1>8 DEF RowsOK, Passed, Late
<1> QED
  BY <1>3, <1>4, <1>5, <1>6, <1>9, StepOf DEF UploadOK, check_terra_permission

LEMMA CheckCreditsStep ==
  ASSUME IInv, NEW u \in Uploads, CheckCredits(u)
  PROVE  IInv'
<1>1. CASE kept[u] # {} /\ quota[u] >= Cost(u) /\ Goto(u, "store")
  <2>1. Moves(u, "store") /\ pc[u] = "credits" /\ reply' = reply
    BY <1>1 DEF CheckCredits, Moves, Goto
  <2>2. TypeOK' /\ pc'[u] = "store"
    BY <2>1, MoveTypes DEF IInv, Locs
  <2>3. \A v \in Uploads \ {u} : Same(v)
    BY <2>1 DEF IInv, TypeOK, Moves, tables, Same
  <2>4. TablesOK(u)' /\ RpcOK(u)' /\ stored'[u] = NoRows /\ rpc'[u] = "none"
    BY <2>1, <2>2, EarlyStep DEF Early, Moves, tables
  <2>5. Cost(u) \in Nat /\ quota[u] \in Nat
    BY CostType DEF IInv, TypeOK
  <2>6. RowsOK(u)'
    BY <1>1, <2>1, <2>2, <2>5 DEF IInv, RowsOK, Moves, Lunc, Cost
  <2> QED
    BY <2>1, <2>2, <2>3, <2>4, <2>6, StepOf DEF UploadOK, Moves
<1>2. CASE Finish(u, "no entries") \/ Finish(u, "insufficient")
  BY <1>2, Stops DEF CheckCredits, Finish, Moves, Replies
<1> QED
  BY <1>1, <1>2 DEF CheckCredits

-----------------------------------------------------------------------------
(* The batch and what follows it                                            *)

LEMMA InsertStep ==
  ASSUME IInv, NEW u \in Uploads, NEW t \in Tables, Insert(u, t)
  PROVE  IInv'
<1>1. /\ pc[u] = "store" /\ pc'[u] \in {"store", "commit"} /\ (pc'[u] = "commit" <=> t = "results")
      /\ written'[u] = [written[u] EXCEPT ![t] = Written(kept[u])]
      /\ UNCHANGED <<file, kept, terra, quota, rpc, reply, stored, balance, cached>>
  BY DEF IInv, TypeOK, Insert, Goto
<1>2. kept[u] \in SUBSET Nat /\ kept[u] # {} /\ Written(kept[u]) \in SUBSET RowNumbers
  BY <1>1 DEF IInv, TypeOK, RowsOK, Passed, Written, RowNumbers
<1>3. Written(kept[u]) # {}
  BY <1>2, SomethingIsWritten
<1>4. TypeOK'
  BY <1>2 DEF IInv, TypeOK, Insert, Goto, Locs
<1>5. \A v \in Uploads \ {u} : Same(v)
  BY DEF IInv, TypeOK, Insert, Goto, Same
<1>6. RowsOK(u)'
  BY <1>1 DEF IInv, RowsOK, Passed, Lunc, Cost
<1>7. TablesOK(u)'
  <2>1. written[u] \in [Tables -> SUBSET RowNumbers] /\ written'[u] \in [Tables -> SUBSET RowNumbers]
    BY <1>4 DEF IInv, TypeOK
  <2>2. \A s \in Tables : written'[u][s] = IF s = t THEN Written(kept[u]) ELSE written[u][s]
    BY <1>1, <2>1
  <2>3. /\ \A s \in Tables : written[u][s] \in {{}, Written(kept[u])}
        /\ written[u]["results"] # {} => written[u]["statuses"] # {}
        /\ written[u]["statuses"] # {} => written[u]["jobs"] # {}
        /\ stored[u] = NoRows
    BY <1>1 DEF IInv, TablesOK
  <2>4. /\ t = "statuses" => written[u]["jobs"] # {}
        /\ t = "results" => written[u]["statuses"] # {}
    BY DEF Insert
  <2>5. \A s \in Tables : written'[u][s] \in {{}, Written(kept[u])}
    BY <2>2, <2>3
  <2>6. /\ written'[u]["results"] # {} => written'[u]["statuses"] # {}
        /\ written'[u]["statuses"] # {} => written'[u]["jobs"] # {}
    BY <1>3, <2>2, <2>3, <2>4 DEF Tables
  <2>7. pc'[u] = "commit" => \A s \in Tables : written'[u][s] = Written(kept[u])
    BY <1>1, <2>2, <2>3, <2>4 DEF Tables
  <2>8. pc'[u] = "commit" => written'[u] = [s \in Tables |-> Written(kept[u])]
    BY <2>1, <2>7
  <2> QED
    BY <1>1, <2>3, <2>5, <2>6, <2>8 DEF TablesOK, Batch, Early, Late
<1>8. RpcOK(u)'
  BY <1>1 DEF IInv, RpcOK, Early, Batch
<1> QED
  BY <1>1, <1>4, <1>5, <1>6, <1>7, <1>8, StepOf DEF UploadOK

LEMMA CommitStep ==
  ASSUME IInv, NEW u \in Uploads, Commit(u)
  PROVE  IInv'
<1>1. /\ pc[u] = "commit" /\ pc'[u] = "charge" /\ stored'[u] = written[u]
      /\ UNCHANGED <<file, kept, terra, quota, rpc, reply, written, balance, cached>>
  BY DEF IInv, TypeOK, Commit, Goto
<1>2. written[u] = Batch(u)
  BY <1>1 DEF IInv, TablesOK
<1>3. TypeOK'
  BY DEF IInv, TypeOK, Commit, Goto, Locs
<1>4. \A v \in Uploads \ {u} : Same(v)
  BY DEF IInv, TypeOK, Commit, Goto, Same
<1>5. RowsOK(u)'
  BY <1>1 DEF IInv, RowsOK, Passed, Lunc, Cost
<1>6. TablesOK(u)'
  BY <1>1, <1>2 DEF IInv, TablesOK, Batch, Early, Late
<1>7. RpcOK(u)'
  BY <1>1, <1>2 DEF IInv, RpcOK, Batch, Early
<1> QED
  BY <1>1, <1>3, <1>4, <1>5, <1>6, <1>7, StepOf DEF UploadOK

LEMMA ChargeStep ==
  ASSUME IInv, NEW u \in Uploads, Charge(u)
  PROVE  IInv'
<1>1. /\ pc[u] = "charge" /\ pc'[u] = "await" /\ rpc'[u] = "sent" /\ rpc' = [rpc EXCEPT ![u] = "sent"]
      /\ UNCHANGED <<file, kept, terra, quota, stored, reply, written, balance, cached>>
  BY DEF IInv, TypeOK, Charge, Goto, tables
<1>2. stored[u] = Batch(u) /\ rpc[u] = "none" /\ reply[u] # "submitted"
  BY <1>1 DEF IInv, TablesOK, RpcOK, Late
<1>3. TypeOK'
  BY DEF IInv, TypeOK, Charge, Goto, tables, Locs
<1>4. \A v \in Uploads \ {u} : Same(v)
  BY DEF IInv, TypeOK, Charge, Goto, tables, Same
<1>5. RowsOK(u)'
  BY <1>1 DEF IInv, RowsOK, Passed, Lunc, Cost, Late
<1>6. TablesOK(u)'
  BY <1>1, <1>2 DEF IInv, TablesOK, Batch, Early, Late
<1>7. RpcOK(u)'
  BY <1>1, <1>2 DEF IInv, RpcOK, Batch, Early
<1> QED
  BY <1>1, <1>2, <1>3, <1>4, <1>5, <1>6, <1>7, StepOf DEF UploadOK

LEMMA AwaitStep ==
  ASSUME IInv, NEW u \in Uploads, AwaitUsage(u)
  PROVE  IInv'
<1>1. /\ pc[u] = "await" /\ pc'[u] = "end" /\ rpc[u] \in {"True", "False"} /\ Moves(u, "end")
      /\ reply' = [reply EXCEPT ![u] = "submitted"]
  BY DEF IInv, TypeOK, AwaitUsage, Finish, Moves
<1>2. TypeOK'
  BY <1>1, MoveTypes DEF IInv, Locs, Replies
<1>3. \A v \in Uploads \ {u} : Same(v)
  BY <1>1 DEF IInv, TypeOK, Moves, tables, Same
<1> UNCHANGED <<file, kept, terra, quota, rpc, written, stored, balance, cached>>
  BY <1>1 DEF Moves, tables
<1>4. RowsOK(u)'
  BY <1>1 DEF IInv, RowsOK, Passed, Lunc, Cost, Late
<1>5. TablesOK(u)'
  BY <1>1 DEF IInv, TablesOK, Batch, Early, Late
<1>6. RpcOK(u)'
  BY <1>1 DEF IInv, RpcOK, Batch, Early
<1> QED
  BY <1>2, <1>3, <1>4, <1>5, <1>6, StepOf DEF UploadOK

LEMMA FailureSteps ==
  ASSUME IInv, NEW u \in Uploads, StepFails(u) \/ Crash(u)
  PROVE  IInv'
<1>1. CASE StepFails(u)
  BY <1>1, Stops DEF StepFails, Finish, Moves, Replies
<1>2. CASE Crash(u)
  BY <1>2, Stops DEF Crash, Goto, Moves, Locs
<1> QED
  BY <1>1, <1>2

-----------------------------------------------------------------------------
(* The usage service                                                        *)

LEMMA UsageReplyStep ==
  ASSUME IInv, NEW u \in Uploads, UsageReply(u)
  PROVE  IInv'
<1>1. /\ rpc[u] = "sent" /\ rpc'[u] \in {"True", "False"}
      /\ rpc' \in [Uploads -> {"none", "sent", "True", "False"}]
      /\ \A v \in Uploads \ {u} : rpc'[v] = rpc[v]
      /\ UNCHANGED <<pc, file, kept, terra, quota, written, stored, reply, cached>>
  <2>1. rpc[u] = "sent" /\ UNCHANGED <<pc, file, kept, terra, quota, written, stored, reply, cached>>
    BY DEF UsageReply, tables
  <2>2. rpc' = [rpc EXCEPT ![u] = "True"] \/ rpc' = [rpc EXCEPT ![u] = "False"]
    BY DEF UsageReply
  <2>3. rpc \in [Uploads -> {"none", "sent", "True", "False"}]
    BY DEF IInv, TypeOK
  <2>4. rpc' \in [Uploads -> {"none", "sent", "True", "False"}]
    BY <2>2, <2>3
  <2> QED
    BY <2>1, <2>2, <2>3, <2>4
<1>2. Cost(u) \in Nat /\ Cost(u) <= quota[u] /\ quota[u] <= Credits /\ quota[u] \in Nat
  BY <1>1, CostType DEF IInv, RowsOK, Passed, CreditsOK, TypeOK
<1>3. balance \in Nat /\ Credits \in Nat /\ balance <= Credits
  BY PriceAssumption DEF IInv, TypeOK, CreditsOK
<1>4. balance' \in Nat /\ balance' <= balance
  BY <1>2, <1>3 DEF UsageReply, IInv, TypeOK
<1>5. TypeOK'
  BY <1>1, <1>4 DEF IInv, TypeOK
<1>6. \A v \in Uploads \ {u} : Same(v)
  BY <1>1 DEF Same
<1>7. UploadOK(u)'
  <2>1. RowsOK(u)'
    BY <1>1 DEF IInv, RowsOK, Passed, Lunc, Cost
  <2>2. TablesOK(u)'
    BY <1>1 DEF IInv, TablesOK, Batch
  <2>3. RpcOK(u)'
    BY <1>1 DEF IInv, RpcOK, Batch
  <2> QED
    BY <2>1, <2>2, <2>3 DEF UploadOK
<1>8. \A v \in Uploads : UploadOK(v)'
  BY <1>6, <1>7, Frame DEF IInv, UploadOK
<1>9. CreditsOK'
  BY <1>1, <1>3, <1>4 DEF IInv, CreditsOK
<1> QED
  BY <1>5, <1>8, <1>9 DEF IInv, UploadOK

\* What is spent elsewhere is missing, and nothing else changes.
LEMMA SpendStep ==
  ASSUME IInv, SpendElsewhere
  PROVE  IInv'
<1>1. /\ UNCHANGED <<pc, file, kept, terra, quota, written, stored, rpc, reply, cached>>
      /\ balance' = balance - Price /\ balance >= Price
  BY DEF SpendElsewhere, tables
<1>2. balance' \in Nat /\ balance' <= balance /\ balance \in Nat /\ Credits \in Nat
  BY <1>1, PriceAssumption DEF IInv, TypeOK
<1>3. TypeOK'
  BY <1>1, <1>2 DEF IInv, TypeOK
<1>4. \A v \in Uploads : UploadOK(v)'
  BY <1>1, Frame DEF IInv, UploadOK, Same
<1>5. CreditsOK'
  BY <1>1, <1>2 DEF IInv, CreditsOK
<1> QED
  BY <1>3, <1>4, <1>5 DEF IInv, UploadOK

LEMMA RefreshStep ==
  ASSUME IInv, RefreshCache
  PROVE  IInv'
<1>1. UNCHANGED <<pc, file, kept, terra, quota, written, stored, rpc, reply, balance>> /\ cached' = balance
  BY DEF RefreshCache, tables
<1>2. TypeOK'
  BY <1>1 DEF IInv, TypeOK
<1>3. \A v \in Uploads : UploadOK(v)'
  BY <1>1, Frame DEF IInv, UploadOK, Same
<1>4. CreditsOK'
  BY <1>1 DEF IInv, CreditsOK
<1> QED
  BY <1>1, <1>2, <1>3, <1>4 DEF IInv, UploadOK

-----------------------------------------------------------------------------
(* The theorems                                                             *)

LEMMA StutterStep ==
  ASSUME IInv, UNCHANGED vars
  PROVE  IInv'
<1>1. UNCHANGED <<pc, file, kept, terra, quota, written, stored, rpc, reply, balance, cached>>
  BY DEF vars
<1>2. \A v \in Uploads : UploadOK(v)'
  BY <1>1, Frame DEF IInv, UploadOK, Same
<1> QED
  BY <1>1, <1>2 DEF IInv, UploadOK, TypeOK, CreditsOK

LEMMA InitEstablishes ==
  ASSUME Init
  PROVE  IInv
<1>1. TypeOK
  BY PriceAssumption DEF Init, TypeOK, NoRows, Locs, Replies
<1>2. ASSUME NEW u \in Uploads
      PROVE  RowsOK(u) /\ TablesOK(u) /\ RpcOK(u)
  BY DEF Init, RowsOK, TablesOK, RpcOK, Passed, Late, Early, NoRows, Tables
<1>3. CreditsOK
  BY PriceAssumption DEF Init, CreditsOK
<1> QED
  BY <1>1, <1>2, <1>3 DEF IInv, Init

\* The inductive invariant: at each step of each upload, how far the file is
\* cleaned and tested, what the tables hold, and that credits only fall.
THEOREM Invariance == Spec => []IInv
<1>1. Init => IInv
  BY InitEstablishes
<1>2. ASSUME IInv, [Next]_vars PROVE IInv'
  <2>1. CASE UNCHANGED vars
    BY <1>2, <2>1, StutterStep
  <2>2. CASE SpendElsewhere \/ RefreshCache
    BY <1>2, <2>2, SpendStep, RefreshStep
  <2>3. ASSUME NEW u \in Uploads, NEW n \in 0..MaxRows, NEW rows \in [1..n -> Rows], Read(u, rows)
        PROVE  IInv'
    BY <1>2, <2>3, ReadStep
  <2>4. ASSUME NEW u \in Uploads, NEW t \in Tables, Insert(u, t) PROVE IInv'
    BY <1>2, <2>4, InsertStep
  <2>5. ASSUME NEW u \in Uploads,
               \/ Throttle(u) \/ GetUser(u) \/ Clean(u) \/ check_terra_permission(u) \/ CheckCredits(u)
               \/ Commit(u) \/ Charge(u) \/ AwaitUsage(u) \/ StepFails(u) \/ Crash(u) \/ UsageReply(u)
        PROVE  IInv'
    BY <1>2, <2>5, ThrottleStep, GetUserStep, CleanStep, TerraStep, CheckCreditsStep, CommitStep,
       ChargeStep, AwaitStep, FailureSteps, UsageReplyStep
  <2> QED
    BY <1>2, <2>1, <2>2, <2>3, <2>4, <2>5 DEF Next
<1> QED
  BY <1>1, <1>2, PTL DEF Spec

\* Every variable keeps to its type.
THEOREM TypeCorrect == Spec => []TypeOK
<1>1. IInv => TypeOK
  BY DEF IInv
<1> QED
  BY <1>1, Invariance, PTL

\* Jobs, status rows and result rows of an upload always agree.
THEOREM OneTransaction == Spec => []BatchIsWhole
<1>1. ASSUME IInv, NEW u \in Uploads, NEW t \in Tables
      PROVE  stored[u][t] = stored[u]["jobs"]
  <2>1. stored[u] = NoRows \/ stored[u] = Batch(u)
    BY <1>1 DEF IInv, TablesOK
  <2>2. "jobs" \in Tables
    BY DEF Tables
  <2> QED
    BY <2>1, <2>2 DEF NoRows, Batch
<1>2. IInv => BatchIsWhole
  BY <1>1 DEF BatchIsWhole
<1> QED
  BY <1>2, Invariance, PTL

\* No address of an upload is charged twice.
THEOREM EveryAddressOnce == Spec => []NoAddressTwice
<1>1. ASSUME NEW rows \in Seq(Rows), NEW i \in DropDuplicates(rows), NEW j \in DropDuplicates(rows),
             rows[i].addr = rows[j].addr
      PROVE  i = j
  <2>1. i \in 1..Len(rows) /\ j \in 1..Len(rows)
    BY DEF DropDuplicates
  <2>2. ~ (i < j) /\ ~ (j < i)
    BY <1>1, <2>1 DEF DropDuplicates
  <2> QED
    BY <2>1, <2>2
<1>2. \A u \in Uploads : process_dataframe(file[u]) \subseteq DropDuplicates(file[u])
  BY DEF process_dataframe
<1>3. IInv => \A u \in Uploads : rpc[u] # "none" => kept[u] \subseteq DropDuplicates(file[u])
  BY <1>2 DEF IInv, RowsOK, Passed
<1>4. IInv => NoAddressTwice
  BY <1>1, <1>3 DEF IInv, TypeOK, NoAddressTwice
<1> QED
  BY <1>4, Invariance, PTL

\* No LUNC report is queued unasked, or after the Terra check said "False".
THEOREM LuncIsGated == Spec => []LuncIsNotRefused
<1>1. ASSUME IInv, NEW u \in Uploads, NEW i \in stored[u]["jobs"], file[u][i].lunc
      PROVE  terra[u] \in {"True", "other"}
  <2>1. stored[u] = Batch(u) /\ stored[u] # NoRows
    BY <1>1 DEF IInv, TablesOK, NoRows, Tables
  <2>2. i \in kept[u]
    BY <1>1, <2>1 DEF Batch, Written, Tables
  <2> QED
    BY <1>1, <2>1, <2>2 DEF IInv, RowsOK, Passed, Lunc
<1>2. IInv => LuncIsNotRefused
  BY <1>1 DEF LuncIsNotRefused
<1> QED
  BY <1>2, Invariance, PTL

\* Whatever the slice and the stride, an upload that is charged has queued
\* something.
THEOREM PaidForSomething == Spec => []ChargedAfterCommit
<1>1. ASSUME IInv, NEW u \in Uploads, rpc[u] # "none"
      PROVE  stored[u]["jobs"] # {}
  <2>1. stored[u] = Batch(u) /\ kept[u] # {} /\ kept[u] \in SUBSET Nat
    BY <1>1 DEF IInv, TypeOK, RowNumbers, RowsOK, RpcOK, Passed
  <2>2. Written(kept[u]) # {}
    BY <2>1, SomethingIsWritten
  <2> QED
    BY <2>1, <2>2 DEF Batch, Tables
<1>2. IInv => ChargedAfterCommit
  BY <1>1 DEF ChargedAfterCommit
<1> QED
  BY <1>2, Invariance, PTL

\* What fits into one slice is queued as a whole.
THEOREM SmallFiles == Spec => []SmallFilesAreComplete
<1>1. ASSUME IInv, NEW u \in Uploads, reply[u] = "submitted", Cardinality(kept[u]) <= Slice
      PROVE  stored[u]["jobs"] = kept[u]
  <2>1. rpc[u] \in {"True", "False"}
    BY <1>1 DEF IInv, RpcOK
  <2>2. stored[u] = Batch(u)
    BY <1>1, <2>1 DEF IInv, RpcOK
  <2>3. kept[u] \in SUBSET Nat
    BY <1>1 DEF IInv, TypeOK, RowNumbers
  <2>4. IsFiniteSet(kept[u])
    BY <1>1, CostType DEF IInv
  <2>5. Written(kept[u]) = kept[u]
    BY <1>1, <2>3, <2>4, OneSliceIsWhole
  <2> QED
    BY <2>2, <2>5 DEF Batch, Tables
<1>2. IInv => SmallFilesAreComplete
  BY <1>1 DEF SmallFilesAreComplete
<1> QED
  BY <1>2, Invariance, PTL

===============================================================================
