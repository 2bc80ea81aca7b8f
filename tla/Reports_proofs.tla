--------------------------- MODULE Reports_proofs ---------------------------
(***************************************************************************)
(* Labels and reading for any number of users, labels, operations, reports *)
(* and readers, and graphs for whatever a vendor may answer: see IInv in   *)
(* NodeLabels, in ReportReading and in TransactionGraph.  The totals of    *)
(* WalletTotals for any list of items.                                     *)
(***************************************************************************)
EXTENDS Reports, FiniteSetTheorems, WellFoundedInduction, TLAPS

-----------------------------------------------------------------------------
(* Rows and ids                                                             *)

\* The first of several rows is one of them.
LEMMA FirstIsOne ==
  ASSUME NEW ids \in SUBSET Ids
  PROVE  IF ids = {} THEN First(ids) = None ELSE First(ids) \in ids
<1>1. CASE ids = {}
  BY <1>1 DEF First
<1>2. CASE ids # {}
  <2>1. ids \in SUBSET Nat
    BY DEF Ids
  <2>2. PICK i \in ids : \A j \in ids : ~ (<<j, i>> \in OpToRel(<, Nat))
    BY <1>2, <2>1, NatLessThanWellFounded, WFMin, Zenon
  <2>3. \A j \in ids : i =< j
    <3>1. \A j \in ids : j < i => <<j, i>> \in OpToRel(<, Nat)
      BY <2>1 DEF OpToRel
    <3>2. \A j \in ids : ~ (j < i)
      BY <2>2, <3>1
    <3> QED
      BY <2>1, <3>2
  <2>4. Min(ids) \in ids
    BY <2>3 DEF Min
  <2> QED
    BY <1>2, <2>4 DEF First
<1> QED
  BY <1>1, <1>2

\* At most one row, said without counting.
LEMMA OneRow ==
  ASSUME NEW ids \in SUBSET Ids
  PROVE  Cardinality(ids) <= 1 <=> \A i, j \in ids : i = j
<1>1. Cardinality(Ops) \in Nat
  BY LabelAssumption, FS_CardinalityType
<1>2. IsFiniteSet(Ids)
  BY <1>1, FS_Interval DEF Ids
<1>3. IsFiniteSet(ids) /\ Cardinality(ids) \in Nat
  BY <1>2, FS_Subset, FS_CardinalityType
<1>4. Cardinality(ids) <= 1 <=> Cardinality(ids) = 0 \/ Cardinality(ids) = 1
  BY <1>3
<1>5. Cardinality(ids) = 0 <=> ids = {}
  BY <1>3, FS_EmptySet
<1>6. Cardinality(ids) = 1 <=> \E i : ids = {i}
  BY <1>3, FS_Singleton
<1> QED
  BY <1>4, <1>5, <1>6

\* Single, said without counting.
LEMMA SingleRows ==
  ASSUME NEW table
  PROVE  Single(table) <=>
           \A i, j \in Ids : /\ table[i] # None /\ table[j] # None
                             /\ table[i].user = table[j].user /\ table[i].user \in Users
                             => i = j
<1>1. \A u \in Users : Held(table, {u}) \in SUBSET Ids
  BY DEF Held
<1>2. Single(table) <=> \A u \in Users : \A i, j \in Held(table, {u}) : i = j
  BY <1>1, OneRow DEF Single
<1> QED
  BY <1>2 DEF Held

\* A row is not None.
LEMMA RowIsARow ==
  ASSUME NEW u \in Users, NEW l \in Labels
  PROVE  /\ [user |-> u, label |-> l] \in Row /\ [user |-> u, label |-> l] # None
         /\ [user |-> u, label |-> l].user = u
BY LabelAssumption DEF Row

\* An operation that is not done leaves an id to give out.
LEMMA IdsLeft ==
  ASSUME TypeOK, IdsOK, NEW o \in Ops, op[o].step # "done"
  PROVE  /\ nextid \in Ids
         /\ LET done == {p \in Ops : op[p].step = "done"} IN
            /\ Cardinality(done) \in Nat
            /\ Cardinality(done \cup {o}) = Cardinality(done) + 1
            /\ Cardinality(done \cup {o}) <= Cardinality(Ops)
<1> DEFINE done == {p \in Ops : op[p].step = "done"}
<1>1. IsFiniteSet(Ops) /\ Cardinality(Ops) \in Nat
  BY LabelAssumption, FS_CardinalityType
<1>2. done \in SUBSET Ops /\ done \cup {o} \in SUBSET Ops /\ o \notin done
  OBVIOUS
<1>3. nextid \in Nat /\ nextid >= 1 /\ nextid <= Cardinality(done) + 1
  BY <1>1 DEF TypeOK, IdsOK
<1> HIDE DEF done
<1>4. IsFiniteSet(done) /\ Cardinality(done) \in Nat
  BY <1>1, <1>2, FS_Subset, FS_CardinalityType
<1>5. Cardinality(done \cup {o}) = Cardinality(done) + 1
  BY <1>2, <1>4, FS_AddElement
<1>6. Cardinality(done \cup {o}) <= Cardinality(Ops)
  BY <1>1, <1>2, FS_Subset
<1>7. nextid \in Ids
  BY <1>1, <1>3, <1>4, <1>5, <1>6 DEF Ids
<1> QED
  BY <1>4, <1>5, <1>6, <1>7 DEF done

-----------------------------------------------------------------------------
(* The steps, said without First and EXCEPT                                 *)

\* An operation that begins writes nothing.
LEMMA BeginWritesNothing ==
  ASSUME NEW o \in Ops, NEW u \in Users,
         (\E l \in Labels : Post(o, u, l)) \/ Delete(o, u)
  PROVE  /\ op[o].step = "new" /\ UNCHANGED <<rows, replica, nextid>>
         /\ overlap' = (overlap \/ replica # rows \/ \E p \in Ops : Active(p))
BY DEF Post, Delete, Begin, Active

\* Only its own record changes, to one that has found a row of its own user.
LEMMA BeginFinds ==
  ASSUME TypeOK, NEW o \in Ops, NEW u \in Users,
         (\E l \in Labels : Post(o, u, l)) \/ Delete(o, u)
  PROVE  \E begun \in Operation :
           /\ op' = [op EXCEPT ![o] = begun]
           /\ begun.user = u
           /\ \/ begun.step = "done"
              \/ /\ begun.step = "save" /\ begun.label # None /\ begun.found = FindExisting(u)
              \/ begun.step = "delete" /\ begun.found # None
           /\ begun.step # "done" /\ begun.found # None =>
                begun.found \in Ids /\ replica[begun.found] # None /\ replica[begun.found].user = u
<1>1. PICK r \in Operation : r = op[o]
  BY DEF TypeOK
<1>2. ASSUME NEW l \in Labels, Post(o, u, l)
      PROVE  \E f \in Ids \cup {None} :
               /\ op' = [op EXCEPT ![o] = [r EXCEPT !.step = "save", !.user = u, !.label = l,
                                                   !.found = f]]
               /\ f = FindExisting(u)
               /\ f # None => f \in Ids /\ replica[f] # None /\ replica[f].user = u
  <2>1. Held(replica, {u}) \in SUBSET Ids
    BY DEF Held
  <2>2. IF Held(replica, {u}) = {} THEN FindExisting(u) = None
        ELSE FindExisting(u) \in Held(replica, {u})
    BY <2>1, FirstIsOne DEF FindExisting
  <2>3. \/ FindExisting(u) = None
        \/ /\ FindExisting(u) \in Ids /\ replica[FindExisting(u)] # None
           /\ replica[FindExisting(u)].user = u
    BY <2>2 DEF Held
  <2>4. op' = [op EXCEPT ![o] = [r EXCEPT !.step = "save", !.user = u, !.label = l,
                                          !.found = FindExisting(u)]]
    BY <1>1, <1>2 DEF Post
  <2> WITNESS FindExisting(u) \in Ids \cup {None}
  <2> QED
    BY <2>3, <2>4
<1>3. CASE \E l \in Labels : Post(o, u, l)
  <2> PICK l \in Labels : Post(o, u, l)
    BY <1>3
  <2> PICK f \in Ids \cup {None} :
               /\ op' = [op EXCEPT ![o] = [r EXCEPT !.step = "save", !.user = u, !.label = l,
                                                   !.found = f]]
               /\ f = FindExisting(u)
               /\ f # None => f \in Ids /\ replica[f] # None /\ replica[f].user = u
    BY <1>2
  <2> DEFINE begun == [r EXCEPT !.step = "save", !.user = u, !.label = l, !.found = f]
  <2>0. begun \in Operation
    BY DEF Operation
  <2>1. begun.step = "save" /\ begun.user = u /\ begun.label = l /\ begun.found = f
    BY DEF Operation
  <2>2. op' = [op EXCEPT ![o] = begun]
    OBVIOUS
  <2>3. l # None
    BY LabelAssumption
  <2> HIDE DEF begun
  <2> QED
    BY <2>0, <2>1, <2>2, <2>3
<1>4. CASE Delete(o, u)
  <2> DEFINE first == First(Held(replica, Users))
  <2>1. Held(replica, Users) \in SUBSET Ids
    BY DEF Held
  <2>2. IF Held(replica, Users) = {} THEN first = None ELSE first \in Held(replica, Users)
    BY <2>1, FirstIsOne
  <2>3. op' = [op EXCEPT ![o] = CheckOwner(o, u, first)]
    BY <1>4 DEF Delete
  <2>0. first = None \/ first \in Held(replica, Users)
    BY <2>2
  <2> HIDE DEF first
  <2>4. first = None \/ (first \in Ids /\ replica[first] # None)
    BY <2>0 DEF Held
  <2>5. CASE first = None \/ replica[first].user # u
    <3>1. PICK code \in Answers : CheckOwner(o, u, first)
                                    = [r EXCEPT !.step = "done", !.user = u, !.answer = code]
      BY <1>1, <2>5 DEF CheckOwner, Answers
    <3> DEFINE begun == [r EXCEPT !.step = "done", !.user = u, !.answer = code]
    <3>0. begun \in Operation
      BY DEF Operation
    <3>2. begun.step = "done" /\ begun.user = u
      BY DEF Operation
    <3>3. op' = [op EXCEPT ![o] = begun]
      BY <2>3, <3>1
    <3> HIDE DEF begun
    <3> QED
      BY <3>0, <3>2, <3>3
  <2>6. CASE first # None /\ replica[first].user = u
    <3>0. first \in Ids /\ replica[first] # None
      BY <2>4, <2>6
    <3> DEFINE begun == [r EXCEPT !.step = "delete", !.user = u, !.found = first]
    <3>n. begun \in Operation
      BY <3>0 DEF Operation
    <3>1. begun.step = "delete" /\ begun.user = u /\ begun.found = first
      BY DEF Operation
    <3>2. op' = [op EXCEPT ![o] = begun]
      BY <1>1, <2>3, <2>6 DEF CheckOwner
    <3> HIDE DEF begun
    <3> QED
      BY <2>6, <3>0, <3>n, <3>1, <3>2
  <2> QED
    BY <2>5, <2>6
<1> QED
  BY <1>3, <1>4

\* An operation that has written is done.
LEMMA WriteEnds ==
  ASSUME TypeOK, NEW o \in Ops, op' = [op EXCEPT ![o].step = "done", ![o].answer = 200]
  PROVE  \E over \in Operation :
           op' = [op EXCEPT ![o] = over] /\ over.step = "done" /\ over.user = op[o].user
<1>1. PICK r \in Operation : r = op[o]
  BY DEF TypeOK
<1>2. PICK s \in {"new", "save", "delete", "done"}, a \in Answers : s = "done" /\ a = 200
  BY DEF Answers
<1> DEFINE over == [r EXCEPT !.step = s, !.answer = a]
<1>3. over \in Operation /\ over.step = s /\ over.user = r.user
  BY DEF Operation
<1>4. op' = [op EXCEPT ![o].step = s, ![o].answer = a]
  BY <1>2
<1>5. op' = [op EXCEPT ![o] = over]
  BY <1>1, <1>4 DEF TypeOK
<1> HIDE DEF over
<1> QED
  BY <1>1, <1>2, <1>3, <1>5

Begins(o, begun) ==
  /\ op[o].step = "new" /\ op' = [op EXCEPT ![o] = begun] /\ UNCHANGED <<rows, replica, nextid>>
  /\ overlap' = (overlap \/ replica # rows \/ \E p \in Ops : Active(p))
  /\ begun.user \in Users
  /\ \/ begun.step = "done"
     \/ begun.step = "save" /\ begun.label # None /\ begun.found = FindExisting(begun.user)
     \/ begun.step = "delete" /\ begun.found # None
  /\ begun.step # "done" /\ begun.found # None =>
       /\ begun.found \in Ids
       /\ replica[begun.found] # None /\ replica[begun.found].user = begun.user

Ends(o, over) ==
  /\ op' = [op EXCEPT ![o] = over] /\ over.step = "done" /\ over.user = op[o].user
  /\ UNCHANGED <<replica, overlap>>

Writes(o, over, id, row) ==
  /\ op[o].step = "save" /\ Ends(o, over)
  /\ rows' = [rows EXCEPT ![id] = row] /\ row # None /\ row.user = op[o].user
  /\ \/ op[o].found = None /\ id = nextid /\ nextid' = nextid + 1
     \/ op[o].found = id /\ id < nextid /\ nextid' = nextid

Deletes(o, over) ==
  /\ op[o].step = "delete" /\ Ends(o, over)
  /\ op[o].found \in Ids /\ rows' = [rows EXCEPT ![op[o].found] = None] /\ nextid' = nextid

\* The steps of the operations, said with the records they put in place.
LEMMA Steps ==
  ASSUME TypeOK, IdsOK, FreshOK, [Next]_vars
  PROVE  \/ \E o \in Ops, begun \in Operation : Begins(o, begun)
         \/ \E o \in Ops, over \in Operation, id \in Ids, row \in Row : Writes(o, over, id, row)
         \/ \E o \in Ops, over \in Operation : Deletes(o, over)
         \/ Replicate
         \/ UNCHANGED vars
<1>1. ASSUME NEW o \in Ops, NEW u \in Users, (\E l \in Labels : Post(o, u, l)) \/ Delete(o, u)
      PROVE  \E begun \in Operation : Begins(o, begun)
  <2>1. PICK begun \in Operation :
           /\ op' = [op EXCEPT ![o] = begun]
           /\ begun.user = u
           /\ \/ begun.step = "done"
              \/ /\ begun.step = "save" /\ begun.label # None /\ begun.found = FindExisting(u)
              \/ begun.step = "delete" /\ begun.found # None
           /\ begun.step # "done" /\ begun.found # None =>
                begun.found \in Ids /\ replica[begun.found] # None /\ replica[begun.found].user = u
    BY <1>1, BeginFinds
  <2>2. /\ op[o].step = "new" /\ UNCHANGED <<rows, replica, nextid>>
        /\ overlap' = (overlap \/ replica # rows \/ \E p \in Ops : Active(p))
    BY <1>1, BeginWritesNothing
  <2> QED
    BY <2>1, <2>2 DEF Begins
<1>2. ASSUME NEW o \in Ops, Save(o)
      PROVE  \E over \in Operation, id \in Ids, row \in Row : Writes(o, over, id, row)
  <2>1. op[o].step = "save" /\ UNCHANGED <<replica, overlap>>
        /\ op' = [op EXCEPT ![o].step = "done", ![o].answer = 200]
    BY <1>2 DEF Save
  <2>2. PICK over \in Operation :
          op' = [op EXCEPT ![o] = over] /\ over.step = "done" /\ over.user = op[o].user
    BY <2>1, WriteEnds
  <2>3. op[o] \in Operation
    BY DEF TypeOK
  <2>4. op[o].user \in Users /\ op[o].label \in Labels /\ op[o].found \in Ids \cup {None}
    BY <2>1, <2>3 DEF FreshOK, Active, Operation
  <2>5. PICK row \in Row : row = [user |-> op[o].user, label |-> op[o].label]
                           /\ row # None /\ row.user = op[o].user
    BY <2>4, RowIsARow
  <2>6. nextid \in Ids
    BY <2>1, IdsLeft
  <2>7. CASE op[o].found = None
    BY <1>2, <2>1, <2>2, <2>5, <2>6, <2>7 DEF Save, Writes, Ends
  <2>8. CASE op[o].found # None
    <3>1. op[o].found \in Ids /\ op[o].found < nextid
      BY <2>1, <2>4, <2>8 DEF FreshOK, Active
    <3> QED
      BY <1>2, <2>1, <2>2, <2>5, <2>8, <3>1 DEF Save, Writes, Ends
  <2> QED
    BY <2>7, <2>8
<1>3. ASSUME NEW o \in Ops, DeleteRow(o)
      PROVE  \E over \in Operation : Deletes(o, over)
  <2>1. /\ op[o].step = "delete" /\ UNCHANGED <<replica, nextid, overlap>>
        /\ op' = [op EXCEPT ![o].step = "done", ![o].answer = 200]
        /\ rows' = [rows EXCEPT ![op[o].found] = None]
    BY <1>3 DEF DeleteRow
  <2>2. PICK over \in Operation :
          op' = [op EXCEPT ![o] = over] /\ over.step = "done" /\ over.user = op[o].user
    BY <2>1, WriteEnds
  <2>3. op[o] \in Operation
    BY DEF TypeOK
  <2>4. op[o].found \in Ids
    BY <2>1, <2>3 DEF FreshOK, Active, Operation
  <2> QED
    BY <2>1, <2>2, <2>4 DEF Deletes, Ends
<1> QED
  BY <1>1, <1>2, <1>3 DEF Next

-----------------------------------------------------------------------------
(* Each step against the parts of the invariant                             *)

\* Every step keeps the types.
LEMMA TypeStep ==
  ASSUME TypeOK, IdsOK, FreshOK, [Next]_vars
  PROVE  TypeOK'
<1>1. CASE \E o \in Ops, begun \in Operation : Begins(o, begun)
  <2> PICK o \in Ops, begun \in Operation : Begins(o, begun)
    BY <1>1
  <2>1. overlap' \in BOOLEAN
    BY DEF Begins, TypeOK
  <2> QED
    BY <2>1 DEF Begins, TypeOK
<1>2. CASE \E o \in Ops, over \in Operation, id \in Ids, row \in Row : Writes(o, over, id, row)
  <2> PICK o \in Ops, over \in Operation, id \in Ids, row \in Row : Writes(o, over, id, row)
    BY <1>2
  <2>1. rows' \in Table
    BY DEF Writes, TypeOK, Table
  <2>2. op' \in [Ops -> Operation]
    BY DEF Writes, Ends, TypeOK
  <2>3. Cardinality(Ops) \in Nat
    BY LabelAssumption, FS_CardinalityType
  <2>4. nextid' \in 1..(Cardinality(Ops) + 1)
    BY <2>3 DEF Writes, TypeOK, Ids
  <2> QED
    BY <2>1, <2>2, <2>4 DEF Writes, Ends, TypeOK
<1>3. CASE \E o \in Ops, over \in Operation : Deletes(o, over)
  <2> PICK o \in Ops, over \in Operation : Deletes(o, over)
    BY <1>3
  <2>1. rows' \in Table
    BY DEF Deletes, TypeOK, Table
  <2>2. op' \in [Ops -> Operation]
    BY DEF Deletes, Ends, TypeOK
  <2> QED
    BY <2>1, <2>2 DEF Deletes, Ends, TypeOK
<1>4. CASE Replicate \/ UNCHANGED vars
  BY <1>4 DEF Replicate, vars, TypeOK
<1> QED
  BY <1>1, <1>2, <1>3, <1>4, Steps

\* Operations end one by one, and only one that ends takes an id.
LEMMA IdsStep ==
  ASSUME TypeOK, IdsOK, FreshOK, [Next]_vars
  PROVE  IdsOK'
<1> DEFINE done == {p \in Ops : op[p].step = "done"}
<1>1. ASSUME NEW o \in Ops, NEW over \in Operation, op[o].step # "done",
             op' = [op EXCEPT ![o] = over], over.step = "done",
             nextid' = nextid \/ nextid' = nextid + 1
      PROVE  IdsOK'
  <2>1. done' = done \cup {o}
    BY <1>1 DEF TypeOK
  <2>2. Cardinality(done) \in Nat /\ Cardinality(done \cup {o}) = Cardinality(done) + 1
    BY <1>1, IdsLeft
  <2>3. Cardinality(Ops) \in Nat
    BY LabelAssumption, FS_CardinalityType
  <2>4. nextid \in Nat /\ nextid <= Cardinality(done) + 1
    BY <2>3 DEF TypeOK, IdsOK
  <2>5. PICK n \in Nat : n = Cardinality(done)
    BY <2>2
  <2>6. Cardinality(done') = n + 1
    BY <2>1, <2>2, <2>5
  <2>7. nextid' <= (n + 1) + 1
    BY <1>1, <2>4, <2>5
  <2> QED
    BY <2>6, <2>7 DEF IdsOK
<1>2. CASE \E o \in Ops, begun \in Operation : Begins(o, begun)
  <2> PICK o \in Ops, begun \in Operation : Begins(o, begun)
    BY <1>2
  <2>1. CASE begun.step = "done"
    BY <1>1, <2>1 DEF Begins
  <2>2. CASE begun.step # "done"
    <3>1. done' = done /\ nextid' = nextid
      BY <2>2 DEF Begins, TypeOK
    <3> QED
      BY <3>1 DEF IdsOK
  <2> QED
    BY <2>1, <2>2
<1>3. CASE \E o \in Ops, over \in Operation, id \in Ids, row \in Row : Writes(o, over, id, row)
  BY <1>1, <1>3 DEF Writes, Ends
<1>4. CASE \E o \in Ops, over \in Operation : Deletes(o, over)
  BY <1>1, <1>4 DEF Deletes, Ends
<1>5. CASE Replicate \/ UNCHANGED vars
  BY <1>5 DEF Replicate, vars, IdsOK
<1> QED
  BY <1>2, <1>3, <1>4, <1>5, Steps

\* Ids are found in rows, and rows have ids that were given out.
LEMMA FreshStep ==
  ASSUME TypeOK, IdsOK, FreshOK, [Next]_vars
  PROVE  FreshOK'
<1>n. nextid \in Nat /\ Ids \subseteq Nat
  <2>1. Cardinality(Ops) \in Nat
    BY LabelAssumption, FS_CardinalityType
  <2> QED
    BY <2>1 DEF TypeOK, Ids
<1>1. CASE \E o \in Ops, begun \in Operation : Begins(o, begun)
  <2> PICK o \in Ops, begun \in Operation : Begins(o, begun)
    BY <1>1
  <2>1. rows' = rows /\ replica' = replica /\ nextid' = nextid /\ op' = [op EXCEPT ![o] = begun]
    BY DEF Begins
  <2>2. begun.user # None
    BY LabelAssumption DEF Begins
  <2>3. begun.step # "done" /\ begun.found # None => begun.found < nextid
    <3> SUFFICES ASSUME begun.step # "done", begun.found # None PROVE begun.found < nextid
      OBVIOUS
    <3>1. begun.found \in Ids /\ replica[begun.found] # None
      BY DEF Begins
    <3>2. ~ (begun.found >= nextid)
      BY <3>1 DEF FreshOK
    <3>3. PICK i \in Nat : i = begun.found
      BY <1>n, <3>1
    <3>4. ~ (i >= nextid)
      BY <3>2, <3>3
    <3>5. i < nextid
      BY <1>n, <3>4
    <3> QED
      BY <3>3, <3>5
  <2>4. /\ begun.step = "save" => begun.label # None
        /\ begun.step = "delete" => begun.found # None
    BY DEF Begins
  <2> QED
    BY <2>1, <2>2, <2>3, <2>4 DEF FreshOK, Active, TypeOK
<1>2. CASE \E o \in Ops, over \in Operation, id \in Ids, row \in Row : Writes(o, over, id, row)
  <2> PICK o \in Ops, over \in Operation, id \in Ids, row \in Row : Writes(o, over, id, row)
    BY <1>2
  <2>1. nextid' \in Nat /\ nextid <= nextid' /\ id < nextid'
    BY <1>n DEF Writes
  <2>2. \A i \in Ids : i >= nextid' => rows'[i] = None /\ replica'[i] = None
    BY <1>n, <2>1 DEF Writes, Ends, FreshOK, TypeOK, Table
  <2>3. \A p \in Ops : Active(p)' => Active(p) /\ op'[p] = op[p]
    BY DEF Writes, Ends, Active, TypeOK
  <2>4. \A p \in Ops : Active(p) /\ op[p].found # None => op[p].found < nextid'
    <3> SUFFICES ASSUME NEW p \in Ops, Active(p), op[p].found # None PROVE op[p].found < nextid'
      OBVIOUS
    <3>1. op[p].found < nextid /\ op[p].found \in Ids
      BY DEF FreshOK, TypeOK, Operation
    <3>2. PICK i \in Nat : i = op[p].found
      BY <1>n, <3>1
    <3>3. i < nextid'
      BY <1>n, <2>1, <3>1, <3>2
    <3> QED
      BY <3>2, <3>3
  <2> QED
    BY <2>2, <2>3, <2>4 DEF FreshOK, Active
<1>3. CASE \E o \in Ops, over \in Operation : Deletes(o, over)
  <2> PICK o \in Ops, over \in Operation : Deletes(o, over)
    BY <1>3
  <2>1. \A i \in Ids : i >= nextid' => rows'[i] = None /\ replica'[i] = None
    BY DEF Deletes, Ends, FreshOK, TypeOK, Table
  <2>2. \A p \in Ops : Active(p)' => Active(p) /\ op'[p] = op[p]
    BY DEF Deletes, Ends, Active, TypeOK
  <2> QED
    BY <2>1, <2>2 DEF FreshOK, Active, Deletes
<1>4. CASE Replicate
  BY <1>4 DEF Replicate, FreshOK, Active
<1>5. CASE UNCHANGED vars
  BY <1>5 DEF vars, FreshOK, Active
<1> QED
  BY <1>1, <1>2, <1>3, <1>4, <1>5, Steps

\* A new row gets its owner, and no row changes it.
LEMMA OwnersStep ==
  ASSUME TypeOK, IdsOK, FreshOK, OwnersOK, [Next]_vars
  PROVE  OwnersOK'
<1>0. PICK owner \in [Ids -> Users \cup {None}] :
        /\ \A i \in Ids : /\ rows[i] # None => rows[i].user = owner[i]
                          /\ replica[i] # None => replica[i].user = owner[i]
        /\ \A o \in Ops : Active(o) /\ op[o].found # None => op[o].user = owner[op[o].found]
  BY DEF OwnersOK
<1>n. nextid \in Nat /\ Ids \subseteq Nat
  <2>1. Cardinality(Ops) \in Nat
    BY LabelAssumption, FS_CardinalityType
  <2> QED
    BY <2>1 DEF TypeOK, Ids
<1>1. CASE \E o \in Ops, begun \in Operation : Begins(o, begun)
  <2> PICK o \in Ops, begun \in Operation : Begins(o, begun)
    BY <1>1
  <2>1. rows' = rows /\ replica' = replica /\ op' = [op EXCEPT ![o] = begun]
    BY DEF Begins
  <2>2. ASSUME begun.step # "done", begun.found # None PROVE begun.user = owner[begun.found]
    <3>1. PICK i \in Ids : i = begun.found /\ replica[i] # None /\ replica[i].user = begun.user
      BY <2>2 DEF Begins
    <3> QED
      BY <1>0, <3>1
  <2>3. \A p \in Ops : Active(p)' /\ op'[p].found # None => op'[p].user = owner[op'[p].found]
    BY <1>0, <2>1, <2>2 DEF Active, TypeOK
  <2> QED
    BY <1>0, <2>1, <2>3 DEF OwnersOK
<1>2. CASE \E o \in Ops, over \in Operation, id \in Ids, row \in Row : Writes(o, over, id, row)
  <2> PICK o \in Ops, over \in Operation, id \in Ids, row \in Row : Writes(o, over, id, row)
    BY <1>2
  <2>1. \A p \in Ops : Active(p)' => Active(p) /\ op'[p] = op[p]
    BY DEF Writes, Ends, Active, TypeOK
  <2>2. /\ \A i \in Ids : rows'[i] = IF i = id THEN row ELSE rows[i]
        /\ replica' = replica /\ row.user = op[o].user
    BY DEF Writes, Ends, TypeOK, Table
  <2>3. CASE op[o].found = id
    <3>1. row.user = owner[id]
      BY <1>0, <2>2, <2>3, LabelAssumption DEF Writes, Active
    <3>2. \A i \in Ids : /\ rows'[i] # None => rows'[i].user = owner[i]
                         /\ replica'[i] # None => replica'[i].user = owner[i]
      BY <1>0, <2>2, <3>1
    <3>3. \A p \in Ops : Active(p)' /\ op'[p].found # None => op'[p].user = owner[op'[p].found]
      BY <1>0, <2>1
    <3> QED
      BY <3>2, <3>3 DEF OwnersOK
  <2>4. CASE op[o].found # id
    <3>1. id = nextid
      BY <2>4 DEF Writes
    <3> DEFINE mine == [owner EXCEPT ![id] = row.user]
    <3>2. mine \in [Ids -> Users \cup {None}]
      BY DEF Row
    <3>3. \A i \in Ids : /\ rows'[i] # None => rows'[i].user = mine[i]
                         /\ replica'[i] # None => replica'[i].user = mine[i]
      <4>1. replica[id] = None
        BY <1>n, <3>1 DEF FreshOK
      <4>2. mine[id] = row.user /\ \A i \in Ids : i # id => mine[i] = owner[i]
        OBVIOUS
      <4> HIDE DEF mine
      <4>3. \A i \in Ids : rows'[i] # None => rows'[i].user = mine[i]
        BY <1>0, <2>2, <4>2
      <4>4. \A i \in Ids : replica'[i] # None => replica'[i].user = mine[i]
        BY <1>0, <2>2, <4>1, <4>2
      <4> QED
        BY <4>3, <4>4
    <3>4. \A p \in Ops : Active(p) /\ op[p].found # None => op[p].user = mine[op[p].found]
      <4> SUFFICES ASSUME NEW p \in Ops, Active(p), op[p].found # None
                   PROVE  op[p].user = mine[op[p].found]
        OBVIOUS
      <4>1. op[p].found \in Ids /\ op[p].found < nextid
        BY DEF FreshOK, TypeOK, Operation
      <4>2. op[p].found # id
        BY <1>n, <3>1, <4>1
      <4> QED
        BY <1>0, <4>1, <4>2
    <3> HIDE DEF mine
    <3>5. \A p \in Ops : Active(p)' /\ op'[p].found # None => op'[p].user = mine[op'[p].found]
      BY <2>1, <3>4
    <3> QED
      BY <3>2, <3>3, <3>5 DEF OwnersOK
  <2> QED
    BY <2>3, <2>4
<1>3. CASE \E o \in Ops, over \in Operation : Deletes(o, over)
  <2> PICK o \in Ops, over \in Operation : Deletes(o, over)
    BY <1>3
  <2>1. \A p \in Ops : Active(p)' => Active(p) /\ op'[p] = op[p]
    BY DEF Deletes, Ends, Active, TypeOK
  <2>2. /\ \A i \in Ids : rows'[i] # None => rows'[i] = rows[i]
        /\ replica' = replica
    BY DEF Deletes, Ends, TypeOK, Table
  <2>3. \A i \in Ids : /\ rows'[i] # None => rows'[i].user = owner[i]
                       /\ replica'[i] # None => replica'[i].user = owner[i]
    BY <1>0, <2>2
  <2>4. \A p \in Ops : Active(p)' /\ op'[p].found # None => op'[p].user = owner[op'[p].found]
    BY <1>0, <2>1
  <2> QED
    BY <2>3, <2>4 DEF OwnersOK
<1>4. CASE Replicate
  BY <1>0, <1>4 DEF Replicate, OwnersOK, Active
<1>5. CASE UNCHANGED vars
  BY <1>0, <1>5 DEF vars, OwnersOK, Active
<1> QED
  BY <1>1, <1>2, <1>3, <1>4, <1>5, Steps

\* An operation that is alone replaces the only row of its user, or adds it.
LEMMA AloneStep ==
  ASSUME TypeOK, IdsOK, FreshOK, AloneOK, OwnersOK, [Next]_vars
  PROVE  AloneOK'
<1> SUFFICES ASSUME ~overlap'
             PROVE  /\ Single(rows)'
                    /\ \A o \in Ops : Active(o)' =>
                          /\ replica' = rows' /\ \A p \in Ops : Active(p)' => p = o
                          /\ (op[o].step = "save" => op[o].found = FindExisting(op[o].user))'
  BY DEF AloneOK
<1>1. CASE \E o \in Ops, begun \in Operation : Begins(o, begun)
  <2> PICK o \in Ops, begun \in Operation : Begins(o, begun)
    BY <1>1
  <2>1. /\ ~overlap /\ replica = rows /\ \A p \in Ops : ~Active(p)
        /\ rows' = rows /\ replica' = replica /\ op' = [op EXCEPT ![o] = begun]
    BY DEF Begins
  <2>2. Single(rows)'
    BY <2>1 DEF AloneOK, Single, Held
  <2>3. \A p \in Ops : Active(p)' => p = o
    BY <2>1 DEF Active, TypeOK
  <2>4. op'[o] = begun
    BY <2>1 DEF TypeOK
  <2>5. (op[o].step = "save" => op[o].found = FindExisting(op[o].user))'
    <3>1. FindExisting(op[o].user)' = FindExisting(begun.user)
      BY <2>1, <2>4 DEF FindExisting, Held
    <3>2. begun.step = "save" => begun.found = FindExisting(begun.user)
      BY DEF Begins
    <3> QED
      BY <2>4, <3>1, <3>2
  <2> QED
    BY <2>1, <2>2, <2>3, <2>5
<1>2. CASE \E o \in Ops, over \in Operation, id \in Ids, row \in Row : Writes(o, over, id, row)
  <2> PICK o \in Ops, over \in Operation, id \in Ids, row \in Row : Writes(o, over, id, row)
    BY <1>2
  <2>1. ~overlap /\ Active(o) /\ op[o].step = "save"
    BY DEF Writes, Ends, Active
  <2>2. /\ Single(rows) /\ replica = rows /\ op[o].found = FindExisting(op[o].user)
        /\ \A p \in Ops : Active(p) => p = o
    BY <2>1 DEF AloneOK
  <2>3. \A p \in Ops : ~Active(p)'
    BY <2>2 DEF Writes, Ends, Active, TypeOK
  <2>4. /\ \A i \in Ids : rows'[i] = IF i = id THEN row ELSE rows[i]
        /\ row # None /\ row.user = op[o].user
    BY DEF Writes, TypeOK, Table
  <2>5. \A i \in Ids : rows[i] # None /\ rows[i].user = op[o].user => i = id
    <3> SUFFICES ASSUME NEW i \in Ids, rows[i] # None, rows[i].user = op[o].user PROVE i = id
      OBVIOUS
    <3>1. rows[i].user \in Users
      BY DEF TypeOK, Table, Row
    <3> DEFINE mine == Held(replica, {op[o].user})
    <3>2. i \in mine /\ mine \in SUBSET Ids
      BY <2>2 DEF Held
    <3>3. op[o].found \in mine
      BY <2>2, <3>2, FirstIsOne DEF FindExisting
    <3>4. /\ op[o].found \in Ids /\ rows[op[o].found] # None
          /\ rows[op[o].found].user = op[o].user
      BY <2>2, <3>3 DEF Held
    <3>5. op[o].found = i
      BY <2>2, <3>1, <3>4, SingleRows
    <3>6. op[o].found = id
      BY <3>4, LabelAssumption DEF Writes
    <3> QED
      BY <3>5, <3>6
  <2>6. \A i, j \in Ids : /\ rows'[i] # None /\ rows'[j] # None
                          /\ rows'[i].user = rows'[j].user /\ rows'[i].user \in Users
                          => i = j
    <3>1. \A i, j \in Ids : /\ rows[i] # None /\ rows[j] # None
                            /\ rows[i].user = rows[j].user /\ rows[i].user \in Users
                            => i = j
      BY <2>2, SingleRows
    <3> QED
      BY <2>4, <2>5, <3>1
  <2>7. Single(rows)'
    BY <2>6, SingleRows
  <2> QED
    BY <2>3, <2>7
<1>3. CASE \E o \in Ops, over \in Operation : Deletes(o, over)
  <2> PICK o \in Ops, over \in Operation : Deletes(o, over)
    BY <1>3
  <2>1. ~overlap /\ Active(o)
    BY DEF Deletes, Ends, Active
  <2>2. Single(rows) /\ \A p \in Ops : Active(p) => p = o
    BY <2>1 DEF AloneOK
  <2>3. \A p \in Ops : ~Active(p)'
    BY <2>2 DEF Deletes, Ends, Active, TypeOK
  <2>4. \A i \in Ids : rows'[i] # None => rows'[i] = rows[i]
    BY DEF Deletes, TypeOK, Table
  <2>5. Single(rows)'
    BY <2>2, <2>4, SingleRows
  <2> QED
    BY <2>3, <2>5
<1>4. CASE Replicate
  <2>1. ~overlap /\ replica # rows /\ UNCHANGED <<rows, op>>
    BY <1>4 DEF Replicate
  <2>2. Single(rows) /\ \A o \in Ops : ~Active(o)
    BY <2>1 DEF AloneOK
  <2>3. Single(rows)' /\ \A o \in Ops : ~Active(o)'
    BY <2>1, <2>2 DEF Single, Held, Active
  <2> QED
    BY <2>3
<1>5. CASE UNCHANGED vars
  BY <1>5 DEF vars, AloneOK, Active, Single, FindExisting, Held
<1> QED
  BY <1>1, <1>2, <1>3, <1>4, <1>5, Steps

-----------------------------------------------------------------------------
(* The theorems                                                             *)

\* Nothing has happened yet.
LEMMA InitInv == Init => IInv
<1> SUFFICES ASSUME Init PROVE IInv
  OBVIOUS
<1>1. Cardinality(Ops) \in Nat
  BY LabelAssumption, FS_CardinalityType
<1>2. {o \in Ops : op[o].step = "done"} = {}
  BY DEF Init
<1>3. IdsOK
  BY <1>2, FS_EmptySet DEF Init, IdsOK
<1>4. TypeOK
  <2>1. [step |-> "new", user |-> None, label |-> None, found |-> None, answer |-> None]
          \in Operation
    BY DEF Operation
  <2>2. op \in [Ops -> Operation]
    BY <2>1 DEF Init
  <2>3. rows \in Table /\ replica \in Table /\ overlap \in BOOLEAN
    BY DEF Init, Table
  <2>4. nextid \in 1..(Cardinality(Ops) + 1)
    BY <1>1 DEF Init
  <2> QED
    BY <2>2, <2>3, <2>4 DEF TypeOK
<1>5. FreshOK /\ \A o \in Ops : ~Active(o)
  BY DEF Init, FreshOK, Active
<1>6. OwnersOK
  <2>1. [i \in Ids |-> None] \in [Ids -> Users \cup {None}]
    OBVIOUS
  <2> QED
    BY <1>5, <2>1 DEF Init, OwnersOK
<1>7. AloneOK
  <2>1. Single(rows)
    BY SingleRows DEF Init
  <2> QED
    BY <1>5, <2>1 DEF AloneOK
<1> QED
  BY <1>3, <1>4, <1>5, <1>6, <1>7 DEF IInv

\* Every step keeps it so.
LEMMA StepInv == IInv /\ [Next]_vars => IInv'
BY TypeStep, IdsStep, FreshStep, OwnersStep, AloneStep DEF IInv

\* What rows, copies and operations know of each other holds at every step.
THEOREM Invariance == Spec => []IInv
BY InitInv, StepInv, PTL DEF Spec

\* The records of operations and rows keep their types, and there is an id for
\* every operation that needs one.
THEOREM TypeCorrect == Spec => []TypeOK
BY Invariance, PTL DEF IInv

\* Without an overlap no user has two labels for one node, however many users
\* post and delete, and however often.
THEOREM OneLabelEach == Spec => []DuplicatesNeedOverlap
<1>1. IInv => DuplicatesNeedOverlap
  BY DEF IInv, AloneOK, DuplicatesNeedOverlap
<1> QED
  BY Invariance, <1>1, PTL

\* A label is changed by its owner only, and stays deleted without an overlap.
THEOREM LabelsStay == Spec => LabelsStayPut
<1>1. ASSUME IInv, [Next]_vars, NEW i \in Ids, rows[i] # None, rows'[i] # rows[i]
      PROVE  \E o \in Ops : op[o].step # "done" /\ op'[o].step = "done" /\ op[o].user = rows[i].user
  <2> USE <1>1 DEF IInv
  <2>0. PICK owner \in [Ids -> Users \cup {None}] :
          /\ \A j \in Ids : /\ rows[j] # None => rows[j].user = owner[j]
                            /\ replica[j] # None => replica[j].user = owner[j]
          /\ \A o \in Ops : Active(o) /\ op[o].found # None => op[o].user = owner[op[o].found]
    BY DEF OwnersOK
  <2>1. CASE \E o \in Ops, over \in Operation, id \in Ids, row \in Row : Writes(o, over, id, row)
    <3> PICK o \in Ops, over \in Operation, id \in Ids, row \in Row : Writes(o, over, id, row)
      BY <2>1
    <3>1. id = i
      BY DEF Writes, TypeOK, Table
    <3>2. op[o].found = i
      <4>1. ~ (i >= nextid)
        BY DEF FreshOK
      <4>2. i \in Nat /\ nextid \in Nat
        BY DEF Ids, TypeOK
      <4> QED
        BY <3>1, <4>1, <4>2 DEF Writes
    <3>3. op[o].user = rows[i].user
      BY <2>0, <3>2, LabelAssumption DEF Writes, Active
    <3> QED
      BY <3>3 DEF Writes, Ends, TypeOK
  <2>2. CASE \E o \in Ops, over \in Operation : Deletes(o, over)
    <3> PICK o \in Ops, over \in Operation : Deletes(o, over)
      BY <2>2
    <3>1. op[o].found = i
      BY DEF Deletes, TypeOK, Table
    <3>2. op[o].user = rows[i].user
      BY <2>0, <3>1, LabelAssumption DEF Deletes, Active
    <3> QED
      BY <3>2 DEF Deletes, Ends, TypeOK
  <2>3. CASE \E o \in Ops, begun \in Operation : Begins(o, begun)
    BY <2>3 DEF Begins
  <2> QED
    BY <2>1, <2>2, <2>3, Steps DEF Replicate, vars
<1>2. ASSUME IInv, [Next]_vars, NEW i \in Ids, ~overlap, i < nextid, rows[i] = None
      PROVE  rows'[i] = None
  <2> USE <1>2 DEF IInv
  <2>1. CASE \E o \in Ops, over \in Operation, id \in Ids, row \in Row : Writes(o, over, id, row)
    <3> PICK o \in Ops, over \in Operation, id \in Ids, row \in Row : Writes(o, over, id, row)
      BY <2>1
    <3> DEFINE mine == Held(replica, {op[o].user})
    <3>1. replica = rows /\ op[o].found = First(mine) /\ mine \in SUBSET Ids
      BY DEF Writes, Active, AloneOK, FindExisting, Held
    <3>2. op[o].found = None \/ op[o].found \in mine
      BY <3>1, FirstIsOne
    <3>3. op[o].found # i
      BY <3>1, <3>2, LabelAssumption DEF Held
    <3>4. i # nextid
      <4>1. i \in Nat /\ nextid \in Nat
        BY DEF Ids, TypeOK
      <4> QED
        BY <4>1
    <3>5. i # id
      BY <3>3, <3>4 DEF Writes
    <3> QED
      BY <3>5 DEF Writes, TypeOK, Table
  <2>2. CASE \E o \in Ops, over \in Operation : Deletes(o, over)
    BY <2>2 DEF Deletes, TypeOK, Table
  <2>3. CASE \E o \in Ops, begun \in Operation : Begins(o, begun)
    BY <2>3 DEF Begins
  <2> QED
    BY <2>1, <2>2, <2>3, Steps DEF Replicate, vars
<1>3. IInv /\ [Next]_vars =>
        [\A i \in Ids : rows[i] # None /\ rows'[i] # rows[i] =>
           \E o \in Ops : op[o].step # "done" /\ op'[o].step = "done" /\ op[o].user = rows[i].user]_vars
  BY <1>1
<1>4. IInv /\ [Next]_vars =>
        [\A i \in Ids : ~overlap /\ i < nextid /\ rows[i] = None => rows'[i] = None]_vars
  BY <1>2
<1>5. Spec => OnlyOwnersChange
  BY Invariance, <1>3, PTL DEF Spec, OnlyOwnersChange
<1>6. Spec => DeletionHolds
  BY Invariance, <1>4, PTL DEF Spec, DeletionHolds
<1> QED
  BY <1>5, <1>6 DEF LabelsStayPut

-----------------------------------------------------------------------------
(* Reading                                                                  *)

\* A set of numbers that is not empty has a least one.
LEMMA Smallest ==
  ASSUME NEW S \in SUBSET Nat, S # {}
  PROVE  \E n \in S : \A m \in S : ~(m < n)
<1>1. PICK n \in S : \A m \in S : ~(<<m, n>> \in OpToRel(<, Nat))
  BY NatLessThanWellFounded, WFMin, Zenon
<1>2. \A m \in S : m < n => <<m, n>> \in OpToRel(<, Nat)
  BY DEF OpToRel
<1> QED
  BY <1>1, <1>2

\* Positions that are picked in order: the i-th one is at least i, and leaves
\* room for those that follow.
LEMMA PickedInOrder ==
  ASSUME NEW n \in Nat, NEW k \in Nat, NEW m \in [1..n -> 1..k],
         \A i, j \in 1..n : i < j => m[i] < m[j]
  PROVE  \A i \in 1..n : i <= m[i] /\ m[i] <= k - (n - i)
<1>1. ASSUME NEW i \in 1..n, m[i] < i PROVE FALSE
  <2> DEFINE low == {j \in 1..n : m[j] < j}
  <2>1. low \in SUBSET Nat /\ low # {}
    BY <1>1
  <2>2. PICK j \in low : \A l \in low : ~(l < j)
    <3> HIDE DEF low
    <3> QED
      BY <2>1, Smallest
  <2>3. j \in 1..n /\ m[j] < j /\ m[j] \in 1..k
    OBVIOUS
  <2>4. j - 1 \in 1..n /\ m[j - 1] \in 1..k
    BY <2>3
  <2>5. m[j - 1] < m[j]
    BY <2>3, <2>4
  <2>6. j - 1 \in low
    BY <2>3, <2>4, <2>5
  <2> QED
    BY <2>2, <2>3, <2>6
<1>2. ASSUME NEW i \in 1..n, m[i] > k - (n - i) PROVE FALSE
  <2> DEFINE high == {d \in 0..(n - 1) : m[n - d] > k - d}
  <2>1. high \in SUBSET Nat /\ high # {}
    <3>1. n - i \in high
      BY <1>2
    <3>2. high \subseteq 0..(n - 1) /\ 0..(n - 1) \subseteq Nat
      OBVIOUS
    <3> HIDE DEF high
    <3> QED
      BY <3>1, <3>2
  <2>2. PICK d \in high : \A e \in high : ~(e < d)
    <3> HIDE DEF high
    <3> QED
      BY <2>1, Smallest
  <2>3. d \in 0..(n - 1) /\ m[n - d] > k - d /\ m[n - d] \in 1..k
    OBVIOUS
  <2>4. d # 0 /\ d - 1 \in 0..(n - 1) /\ m[n - (d - 1)] \in 1..k
    BY <2>3
  <2>5. m[n - d] < m[n - (d - 1)]
    BY <2>3, <2>4
  <2>6. d - 1 \in high
    BY <2>3, <2>4, <2>5
  <2>7. d - 1 < d
    BY <2>3
  <2> HIDE DEF high
  <2> QED
    BY <2>2, <2>6, <2>7
<1>3. \A i \in 1..n : m[i] \in 1..k
  OBVIOUS
<1> QED
  BY <1>1, <1>2, <1>3

\* The sets of ReportReading are counted as those of this module.
LEMMA SameCounting ==
  ASSUME NEW S
  PROVE  /\ Reading!IsFiniteSet(S) <=> IsFiniteSet(S)
         /\ Reading!Cardinality(S) = Cardinality(S)
<1>1. Reading!IsFiniteSet(S) <=> IsFiniteSet(S)
  BY Zenon DEF Reading!IsFiniteSet, IsFiniteSet
<1>2. Reading!Cardinality(S) = Cardinality(S)
  BY Zenon DEF Reading!Cardinality, Cardinality
<1> QED
  BY <1>1, <1>2

\* Files are finitely many numbers.
LEMMA FilesAreNumbers == IsFiniteSet(Reading!Files) /\ Reading!Files \subseteq Nat
<1>1. Cardinality(Requests) \in Nat
  <2>1. IsFiniteSet(Requests)
    BY ReportsAssumption, SameCounting DEF Reading!ReadingAssumption
  <2> QED
    BY <2>1, FS_CardinalityType
<1>2. Reading!Files = 1..Cardinality(Requests)
  BY SameCounting DEF Reading!Files
<1>3. 1 \in Int /\ Cardinality(Requests) \in Int
  BY <1>1
<1>4. IsFiniteSet(1..Cardinality(Requests))
  BY <1>3, FS_Interval
<1>5. 1..Cardinality(Requests) \subseteq Nat
  BY <1>1
<1> QED
  BY <1>2, <1>4, <1>5

\* A name stands where a row of a file that is not newer stands, and where all
\* rows have names, the row of its own file.
LEMMA Positions ==
  ASSUME NEW R \in Reading!Reading, Reading!RowsOK(R), Reading!TypeOK
  PROVE  \A i \in DOMAIN R.names :
           /\ i \in DOMAIN R.rows
           /\ file[R.rows[i]] <= R.names[i]
           /\ Len(R.names) = Len(R.rows) => file[R.rows[i]] = R.names[i]
<1> DEFINE n == Len(R.names)
           k == Len(R.rows)
           m == [i \in 1..n |-> CHOOSE j \in 1..k : R.names[i] = file[R.rows[j]]]
<1>1. n \in Nat /\ k \in Nat /\ DOMAIN R.names = 1..n /\ DOMAIN R.rows = 1..k
  BY DEF Reading!Reading
<1>2. \A j \in 1..k : file[R.rows[j]] \in Nat
  BY <1>1 DEF Reading!Reading, Reading!TypeOK, Reading!Files
<1>3. \A i \in 1..n : m[i] \in 1..k /\ R.names[i] = file[R.rows[m[i]]]
  BY <1>1 DEF Reading!RowsOK
<1>4. m \in [1..n -> 1..k]
  BY <1>3
<1>5. \A i, j \in 1..k : i < j => file[R.rows[i]] < file[R.rows[j]]
  BY <1>1 DEF Reading!RowsOK
<1>6. \A i, j \in 1..n : i < j => R.names[i] < R.names[j]
  BY <1>1 DEF Reading!RowsOK
<1> HIDE DEF m, n, k
<1>7. ASSUME NEW i \in 1..n, NEW j \in 1..n, i < j PROVE m[i] < m[j]
  <2>1. m[i] \in Nat /\ m[j] \in Nat
    BY <1>1, <1>3
  <2>2. m[i] # m[j]
    BY <1>2, <1>3, <1>6, <1>7
  <2>3. ~(m[j] < m[i])
    BY <1>2, <1>3, <1>5, <1>6, <1>7
  <2> QED
    BY <2>1, <2>2, <2>3
<1>8. \A i \in 1..n : i <= m[i] /\ m[i] <= k - (n - i)
  BY <1>1, <1>4, <1>7, PickedInOrder
<1>9. ASSUME NEW i \in 1..n
      PROVE  i \in 1..k /\ file[R.rows[i]] <= R.names[i] /\ (n = k => m[i] = i)
  <2>1. m[i] \in 1..k /\ i <= m[i] /\ m[i] <= k - (n - i)
    BY <1>3, <1>8
  <2>2. i \in 1..k /\ (n = k => m[i] = i)
    BY <1>1, <2>1
  <2>3. CASE m[i] = i
    BY <1>2, <1>3, <2>2, <2>3
  <2>4. CASE i < m[i]
    BY <1>2, <1>3, <1>5, <2>1, <2>2, <2>4
  <2> QED
    BY <1>1, <2>1, <2>2, <2>3, <2>4
<1> QED
  BY <1>1, <1>3, <1>9 DEF n, k

\* One read goes on, and holds what it should.
LEMMA ReadStep ==
  ASSUME Reading!IInv, NEW x \in Readers, NEW R \in Reading!Reading,
         UNCHANGED <<file, seen, listed, uploaded>>, read' = [read EXCEPT ![x] = R],
         Reading!RowsOK(R), Reading!ItemsOK(R)
  PROVE  Reading!IInv'
<1>1. Reading!TypeOK' /\ Reading!FilesOK'
  BY DEF Reading!IInv, Reading!TypeOK, Reading!FilesOK
<1>2. \A y \in Readers : read'[y] = IF y = x THEN R ELSE read[y]
  BY DEF Reading!IInv, Reading!TypeOK
<1>3. ASSUME NEW y \in Readers
      PROVE  Reading!RowsOK(read[y])' /\ Reading!ItemsOK(read[y])'
  <2>1. CASE y = x
    BY <1>2, <2>1 DEF Reading!RowsOK, Reading!ItemsOK
  <2>2. CASE y # x
    BY <1>2, <2>2 DEF Reading!IInv, Reading!RowsOK, Reading!ItemsOK
  <2> QED
    BY <2>1, <2>2
<1> QED
  BY <1>1, <1>3 DEF Reading!IInv

\* A read that only moves on holds what it held.
LEMMA GotoStep ==
  ASSUME Reading!IInv, NEW x \in Readers, NEW step, Reading!Goto(x, step),
         UNCHANGED <<file, seen, listed, uploaded>>,
         read[x].step # "shown",
         \/ step \in {"notyet", "missing", "raised"}
         \/ step = "one" /\ Len(read[x].names) = 1 /\ read[x].step = "uid"
         \/ step = "shown" /\ read[x].step = "fetch" /\ read[x].at > Len(read[x].names)
  PROVE  Reading!IInv'
<1> DEFINE old == read[x]
           R   == [old EXCEPT !.step = step]
<1>1. old \in Reading!Reading /\ Reading!RowsOK(old) /\ Reading!ItemsOK(old)
  BY DEF Reading!IInv, Reading!TypeOK
<1>2. /\ R.step = step /\ R.rows = old.rows /\ R.names = old.names
      /\ R.at = old.at /\ R.items = old.items /\ R \in Reading!Reading
  BY <1>1 DEF Reading!Reading
<1>3. read' = [read EXCEPT ![x] = R]
  BY DEF Reading!Goto
<1>4. Reading!RowsOK(R)
  <2> HIDE DEF R, old
  <2>1. step # "list"
    OBVIOUS
  <2> QED
    BY <1>1, <1>2, <2>1 DEF Reading!RowsOK
<1>5. Reading!ItemsOK(R)
  <2>1. Len(old.names) \in Nat /\ old.at \in Nat \ {0}
    BY <1>1 DEF Reading!Reading
  <2>2. old.at <= Len(old.names) + 1 /\ old.items = Reading!Pairs(old, old.at - 1)
    BY <1>1 DEF Reading!ItemsOK
  <2>3. \A n : Reading!Pairs(R, n) = Reading!Pairs(old, n)
    BY <1>2 DEF Reading!Pairs
  <2>4. step \notin {"new", "list", "uid"}
    OBVIOUS
  <2>5. step = "one" => Len(old.names) = 1
    OBVIOUS
  <2>6. step = "shown" => old.at - 1 = Len(old.names)
    BY <2>1, <2>2
  <2> HIDE DEF R, old
  <2> QED
    BY <1>2, <2>2, <2>3, <2>4, <2>5, <2>6 DEF Reading!ItemsOK
<1> QED
  BY <1>2, <1>3, <1>4, <1>5, ReadStep

\* The rows of several reports are in the order of their files, ...
LEMMA GetStep ==
  ASSUME Reading!IInv, NEW x \in Readers, NEW pks \in SUBSET Requests, Reading!Get(x, pks)
  PROVE  Reading!IInv'
<1>1. UNCHANGED <<file, seen, listed, uploaded>> /\ read[x].step = "new"
  BY DEF Reading!Get, Reading!worker
<1> PICK got \in Reading!get_objects(pks) :
      IF \E i \in DOMAIN got : Reading!SeenFile(got[i]) = 0 THEN Reading!Goto(x, "notyet")
      ELSE read' = [read EXCEPT ![x].step = "list", ![x].rows = got]
  BY DEF Reading!Get
<1>2. CASE \E i \in DOMAIN got : Reading!SeenFile(got[i]) = 0
  BY <1>1, <1>2, GotoStep
<1>3. CASE \A i \in DOMAIN got : Reading!SeenFile(got[i]) # 0
  <2> DEFINE old == read[x]
             R   == [old EXCEPT !.step = "list", !.rows = got]
             S   == {r \in pks : seen[r] # "nothing"}
  <2>1. old \in Reading!Reading /\ Reading!RowsOK(old) /\ Reading!ItemsOK(old)
    BY DEF Reading!IInv, Reading!TypeOK
  <2>2. got \in Seq(Requests) /\ got \in [1..Cardinality(S) -> S]
        /\ \A i, j \in DOMAIN got : i # j => got[i] # got[j]
    <3>1. Cardinality(S) \in Nat
      <4>1. IsFiniteSet(Requests) /\ S \subseteq Requests
        BY ReportsAssumption, SameCounting DEF Reading!ReadingAssumption
      <4> QED
        BY <4>1, FS_Subset, FS_CardinalityType
    <3>2. got \in [1..Cardinality(S) -> S] /\ \A i, j \in 1..Cardinality(S) : i # j => got[i] # got[j]
      BY SameCounting DEF Reading!get_objects, Reading!OrderedBy, Reading!SetToSeqs
    <3>3. got \in [1..Cardinality(S) -> Requests]
      BY <3>2
    <3> HIDE DEF S
    <3> QED
      BY <3>1, <3>2, <3>3
  <2>3. /\ R.step = "list" /\ R.rows = got /\ R.names = old.names
        /\ R.at = old.at /\ R.items = old.items /\ R \in Reading!Reading
    BY <2>1, <2>2 DEF Reading!Reading
  <2>4. read' = [read EXCEPT ![x] = R]
    BY <1>3
  <2>5. ASSUME NEW i \in DOMAIN got
        PROVE  got[i] \in Requests /\ file[got[i]] # 0 /\ Reading!SeenFile(got[i]) = file[got[i]]
    BY <1>3, <2>2, <2>5 DEF Reading!SeenFile
  <2>6. ASSUME NEW i \in DOMAIN got, NEW j \in DOMAIN got, i < j
        PROVE  file[got[i]] < file[got[j]]
    <3>1. Reading!SeenFile(got[i]) <= Reading!SeenFile(got[j])
      BY <2>5, <2>6 DEF Reading!get_objects, Reading!OrderedBy
    <3>2. got[i] # got[j]
      <4>1. i # j
        BY <2>2, <2>6
      <4> QED
        BY <2>2, <4>1
    <3>3. file[got[i]] # file[got[j]]
      BY <2>5, <3>2 DEF Reading!IInv, Reading!FilesOK
    <3>4. file[got[i]] \in Nat /\ file[got[j]] \in Nat
      BY <2>5 DEF Reading!IInv, Reading!TypeOK, Reading!Files
    <3> QED
      BY <2>5, <3>1, <3>3, <3>4
  <2>7. old.names = <<>>
    BY <1>1, <2>1 DEF Reading!ItemsOK
  <2>8. Reading!RowsOK(R)
    <3> HIDE DEF R, old
    <3> QED
      BY <2>3, <2>5, <2>6, <2>7 DEF Reading!RowsOK
  <2>9. Reading!ItemsOK(R)
    <3>1. R.items = Reading!Pairs(R, R.at - 1) /\ R.at = 1
      <4>1. old.at <= Len(old.names) + 1 /\ old.items = Reading!Pairs(old, old.at - 1)
        BY <1>1, <2>1 DEF Reading!ItemsOK
      <4>2. old.at = 1
        BY <2>1, <2>7, <4>1 DEF Reading!Reading
      <4>3. Reading!Pairs(R, 0) = Reading!Pairs(old, 0)
        BY DEF Reading!Pairs
      <4> HIDE DEF R, old
      <4> QED
        BY <2>3, <4>1, <4>2, <4>3
    <3> HIDE DEF R, old
    <3> QED
      BY <2>3, <2>7, <3>1 DEF Reading!ItemsOK
  <2> HIDE DEF R
  <2> QED
    BY <1>1, <2>3, <2>4, <2>8, <2>9, ReadStep
<1> QED
  BY <1>2, <1>3

\* ... and so are the names of the files that the portal knows.
LEMMA ListStep ==
  ASSUME Reading!IInv, NEW x \in Readers, Reading!FetchResultFileList(x)
  PROVE  Reading!IInv'
<1>1. UNCHANGED <<file, seen, listed, uploaded>> /\ read[x].step = "list"
  BY DEF Reading!FetchResultFileList, Reading!worker
<1> PICK names \in Reading!Listed(x) :
      read' = [read EXCEPT ![x].names = names, ![x].step = IF names = <<>> THEN "raised" ELSE "fetch"]
  BY DEF Reading!FetchResultFileList
<1> DEFINE old  == read[x]
           next == IF names = <<>> THEN "raised" ELSE "fetch"
           R    == [old EXCEPT !.names = names, !.step = next]
           S    == {file[r] : r \in Reading!Range(read[x].rows)} \cap listed
<1>2. old \in Reading!Reading /\ Reading!RowsOK(old) /\ Reading!ItemsOK(old)
  BY DEF Reading!IInv, Reading!TypeOK
<1>3. \A f \in S : f \in Reading!Files /\ \E j \in DOMAIN old.rows : f = file[old.rows[j]]
  BY DEF Reading!Range, Reading!IInv, Reading!TypeOK
<1>4. Cardinality(S) \in Nat
  <2>1. S \subseteq Reading!Files
    BY <1>3
  <2> HIDE DEF S
  <2> QED
    BY <2>1, FilesAreNumbers, FS_Subset, FS_CardinalityType
<1>5. /\ names \in [1..Cardinality(S) -> S]
      /\ \A i, j \in 1..Cardinality(S) : i # j => names[i] # names[j]
      /\ \A i, j \in DOMAIN names : i < j =>
           [f \in Reading!Files |-> f][names[i]] <= [f \in Reading!Files |-> f][names[j]]
  BY SameCounting DEF Reading!Listed, Reading!OrderedBy, Reading!SetToSeqs
<1>6. names \in Seq(Reading!Files)
  <2>1. names \in [1..Cardinality(S) -> Reading!Files]
    BY <1>3, <1>5
  <2> HIDE DEF S
  <2> QED
    BY <1>4, <2>1
<1>7. \A i \in DOMAIN names : names[i] \in Reading!Files /\ names[i] \in Nat
  BY <1>6, FilesAreNumbers
<1>8. ASSUME NEW i \in DOMAIN names, NEW j \in DOMAIN names, i < j
      PROVE  names[i] < names[j]
  <2>1. names[i] <= names[j]
    BY <1>5, <1>7, <1>8
  <2>2. names[i] # names[j]
    <3>1. DOMAIN names = 1..Cardinality(S)
      BY <1>5
    <3>2. i # j
      BY <1>4, <1>8, <3>1
    <3> QED
      BY <1>5, <3>1, <3>2
  <2> QED
    BY <1>7, <2>1, <2>2
<1>9. \A i \in DOMAIN names : \E j \in DOMAIN old.rows : names[i] = file[old.rows[j]]
  <2>1. \A i \in DOMAIN names : names[i] \in S
    BY <1>5
  <2> QED
    BY <1>3, <2>1
<1>10. /\ R.step = next /\ R.rows = old.rows /\ R.names = names
       /\ R.at = old.at /\ R.items = old.items /\ R \in Reading!Reading
  <2> HIDE DEF S
  <2> QED
    BY <1>2, <1>6 DEF Reading!Reading
<1>11. read' = [read EXCEPT ![x] = R]
  OBVIOUS
<1>12. Reading!RowsOK(R)
  <2>1. \A i \in DOMAIN old.rows : file[old.rows[i]] # 0
    BY <1>1, <1>2 DEF Reading!RowsOK
  <2> HIDE DEF R, old, S
  <2> QED
    BY <1>2, <1>8, <1>9, <1>10, <2>1 DEF Reading!RowsOK
<1>13. Reading!ItemsOK(R)
  <2>1. old.names = <<>> /\ old.at <= Len(old.names) + 1 /\ old.items = Reading!Pairs(old, old.at - 1)
    BY <1>1, <1>2 DEF Reading!ItemsOK
  <2>2. old.at = 1
    BY <1>2, <2>1 DEF Reading!Reading
  <2>3. Reading!Pairs(R, 0) = Reading!Pairs(old, 0)
    BY DEF Reading!Pairs
  <2>4. 1 <= Len(names) + 1
    BY <1>6
  <2>5. next \in {"raised", "fetch"}
    OBVIOUS
  <2> HIDE DEF R, old, S, next
  <2> QED
    BY <1>10, <2>1, <2>2, <2>3, <2>4, <2>5 DEF Reading!ItemsOK
<1> HIDE DEF R
<1> QED
  BY <1>1, <1>10, <1>11, <1>12, <1>13, ReadStep

\* One more file is read, with the row at its place.
LEMMA FileStep ==
  ASSUME Reading!IInv, NEW x \in Readers, Reading!ReadFile(x)
  PROVE  Reading!IInv'
<1> DEFINE old  == read[x]
           pair == <<old.rows[old.at], old.names[old.at]>>
           more == old.items \cup {pair}
           next == old.at + 1
           R    == [old EXCEPT !.items = more, !.at = next]
<1>1. /\ UNCHANGED <<file, seen, listed, uploaded>>
      /\ old.step = "fetch" /\ old.at <= Len(old.names)
  BY DEF Reading!ReadFile, Reading!worker
<1>2. \/ Reading!Goto(x, "notyet") \/ Reading!Goto(x, "raised")
      \/ read' = [read EXCEPT ![x] = R]
  BY DEF Reading!ReadFile, Reading!Extend
<1>3. old \in Reading!Reading /\ Reading!RowsOK(old) /\ Reading!ItemsOK(old)
  BY DEF Reading!IInv, Reading!TypeOK
<1>4. old.at \in Nat \ {0} /\ old.at \in DOMAIN old.names /\ Len(old.names) \in Nat
  BY <1>1, <1>3 DEF Reading!Reading
<1>5. CASE read' = [read EXCEPT ![x] = R]
  <2>1. pair \in Requests \X Reading!Files
    <3>1. old.at \in DOMAIN old.rows
      BY <1>3, <1>4, Positions DEF Reading!IInv
    <3>2. old.rows \in Seq(Requests) /\ old.names \in Seq(Reading!Files)
      BY <1>3 DEF Reading!Reading
    <3> HIDE DEF old
    <3> QED
      BY <1>4, <3>1, <3>2
  <2>2. /\ R.step = old.step /\ R.rows = old.rows /\ R.names = old.names
        /\ R.at = next /\ R.items = more /\ R \in Reading!Reading
    <3>1. more \subseteq Requests \X Reading!Files /\ next \in Nat \ {0}
      BY <1>3, <1>4, <2>1 DEF Reading!Reading
    <3> HIDE DEF more, next, old
    <3> QED
      BY <1>3, <3>1 DEF Reading!Reading
  <2>3. Reading!RowsOK(R)
    <3> HIDE DEF R, old, more, next
    <3> QED
      BY <1>3, <2>2 DEF Reading!RowsOK
  <2>4. R.items = Reading!Pairs(R, R.at - 1)
    <3>1. old.items = Reading!Pairs(old, old.at - 1)
      BY <1>1, <1>3 DEF Reading!ItemsOK
    <3>2. 1..old.at = 1..(old.at - 1) \cup {old.at}
      BY <1>4
    <3>3. Reading!Pairs(R, old.at) = Reading!Pairs(old, old.at - 1) \cup {pair}
      <4> HIDE DEF R
      <4> QED
        BY <2>2, <3>2 DEF Reading!Pairs
    <3>4. R.at - 1 = old.at
      BY <1>4, <2>2
    <3> QED
      BY <2>2, <3>1, <3>3, <3>4
  <2>5. Reading!ItemsOK(R)
    <3>1. R.at <= Len(R.names) + 1
      BY <1>1, <1>4, <2>2
    <3> HIDE DEF R, old
    <3> QED
      BY <1>1, <2>2, <2>4, <3>1 DEF Reading!ItemsOK
  <2> HIDE DEF R
  <2> QED
    BY <1>1, <1>5, <2>2, <2>3, <2>5, ReadStep
<1> QED
  BY <1>1, <1>2, <1>5, GotoStep

\* Lists of one element, and of none.
LEMMA Singletons ==
  ASSUME NEW S
  PROVE  /\ <<>> \in Seq(S) /\ Len(<<>>) = 0 /\ DOMAIN <<>> = {}
         /\ \A a \in S : /\ <<a>> \in Seq(S) /\ Len(<<a>>) = 1
                         /\ DOMAIN <<a>> = {1} /\ <<a>>[1] = a
<1>1. <<>> \in Seq(S) /\ Len(<<>>) = 0 /\ DOMAIN <<>> = {}
  OBVIOUS
<1>2. ASSUME NEW a \in S
      PROVE  <<a>> \in Seq(S) /\ Len(<<a>>) = 1 /\ DOMAIN <<a>> = {1} /\ <<a>>[1] = a
  OBVIOUS
<1> QED
  BY <1>1, <1>2

\* One report: a row, with its file if it has one.
LEMMA OneStep ==
  ASSUME Reading!IInv, NEW x \in Readers, NEW q \in Requests, NEW matching \in BOOLEAN,
         Reading!GetOne(x, q, matching)
  PROVE  Reading!IInv'
<1> DEFINE old   == read[x]
           names == IF seen[q] = "file" THEN <<file[q]>> ELSE <<>>
           R     == [old EXCEPT !.step = "uid", !.rows = <<q>>, !.names = names]
<1>1. UNCHANGED <<file, seen, listed, uploaded>> /\ old.step = "new"
  BY DEF Reading!GetOne, Reading!worker
<1>2. \/ Reading!Goto(x, "missing") \/ Reading!Goto(x, "notyet")
      \/ read' = [read EXCEPT ![x] = R]
  BY DEF Reading!GetOne
<1>3. old \in Reading!Reading /\ Reading!RowsOK(old) /\ Reading!ItemsOK(old)
  BY DEF Reading!IInv, Reading!TypeOK
<1>4. CASE read' = [read EXCEPT ![x] = R]
  <2>1. \/ names = <<>>
        \/ names = <<file[q]>> /\ file[q] # 0 /\ file[q] \in Reading!Files
    BY DEF Reading!IInv, Reading!FilesOK, Reading!TypeOK
  <2>2. names \in Seq(Reading!Files) /\ <<q>> \in Seq(Requests)
    <3> HIDE DEF names
    <3>1. <<q>> \in Seq(Requests)
      BY Singletons
    <3>2. CASE names = <<>>
      BY <3>1, <3>2, Singletons
    <3>3. CASE names = <<file[q]>> /\ file[q] \in Reading!Files
      BY <3>1, <3>3, Singletons
    <3> QED
      BY <2>1, <3>2, <3>3
  <2>3. /\ R.step = "uid" /\ R.rows = <<q>> /\ R.names = names
        /\ R.at = old.at /\ R.items = old.items /\ R \in Reading!Reading
    <3> HIDE DEF names, old
    <3> QED
      BY <1>3, <2>2 DEF Reading!Reading
  <2>4. Reading!RowsOK(R)
    <3> HIDE DEF R, names, old
    <3>1. DOMAIN R.rows = {1} /\ R.rows[1] = q /\ Len(R.rows) = 1
      BY <2>3, Singletons
    <3>2. \A i \in DOMAIN R.names : i = 1 /\ R.names[1] = file[q]
      BY <2>1, <2>3, Singletons
    <3>3. file[q] = 0 => R.names = <<>>
      BY <2>1, <2>3
    <3>4. \A i, j \in {1} : ~(i < j)
      OBVIOUS
    <3>5. \A i, j \in DOMAIN R.names : ~(i < j)
      BY <3>2, <3>4
    <3> QED
      BY <2>3, <3>1, <3>2, <3>3, <3>4, <3>5 DEF Reading!RowsOK
  <2>5. Reading!ItemsOK(R)
    <3>1. old.names = <<>> /\ old.at <= Len(old.names) + 1 /\ old.items = Reading!Pairs(old, old.at - 1)
      BY <1>1, <1>3 DEF Reading!ItemsOK
    <3>2. old.at = 1
      BY <1>3, <3>1 DEF Reading!Reading
    <3>3. Reading!Pairs(R, 0) = Reading!Pairs(old, 0)
      BY DEF Reading!Pairs
    <3>4. Len(names) \in {0, 1}
      <4> HIDE DEF names
      <4> QED
        BY <2>1, Singletons
    <3>5. R.at <= Len(R.names) + 1 /\ R.at - 1 = 0 /\ Len(R.names) <= 1
      BY <2>3, <3>2, <3>4
    <3> HIDE DEF R, old, names
    <3>6. R.items = Reading!Pairs(R, R.at - 1)
      BY <2>3, <3>1, <3>2, <3>3, <3>5
    <3> QED
      BY <2>3, <3>5, <3>6 DEF Reading!ItemsOK
  <2> HIDE DEF R
  <2> QED
    BY <1>1, <1>4, <2>3, <2>4, <2>5, ReadStep
<1> QED
  BY <1>1, <1>2, <1>4, GotoStep

\* Its file has a name at the portal, ...
LEMMA UidStep ==
  ASSUME Reading!IInv, NEW x \in Readers, Reading!FetchResultFileUid(x)
  PROVE  Reading!IInv'
<1>1. UNCHANGED <<file, seen, listed, uploaded>> /\ read[x].step = "uid"
  BY DEF Reading!FetchResultFileUid, Reading!worker
<1>2. \/ Reading!Goto(x, "notyet")
      \/ Reading!Goto(x, "one") /\ Reading!Range(read[x].names) # {}
  BY DEF Reading!FetchResultFileUid
<1>3. read[x] \in Reading!Reading /\ Len(read[x].names) <= 1
  BY <1>1 DEF Reading!IInv, Reading!TypeOK, Reading!ItemsOK
<1>4. CASE Reading!Goto(x, "one") /\ Reading!Range(read[x].names) # {}
  <2>1. Len(read[x].names) = 1
    <3>1. read[x].names \in Seq(Reading!Files)
      BY <1>3 DEF Reading!Reading
    <3>2. PICK i \in DOMAIN read[x].names : TRUE
      BY <1>4 DEF Reading!Range
    <3> DEFINE n == Len(read[x].names)
    <3>3. n \in Nat /\ i \in 1..n /\ n <= 1
      BY <1>3, <3>1
    <3> HIDE DEF n
    <3>4. n = 1
      BY <3>3
    <3> QED
      BY <3>4 DEF n
  <2> QED
    BY <1>1, <1>4, <2>1, GotoStep
<1> QED
  BY <1>1, <1>2, <1>4, GotoStep

\* ... and is shown.
LEMMA ShowStep ==
  ASSUME Reading!IInv, NEW x \in Readers, Reading!ReadOne(x)
  PROVE  Reading!IInv'
<1> DEFINE old  == read[x]
           pair == <<old.rows[1], old.names[1]>>
           R    == [old EXCEPT !.step = "shown", !.items = {pair}]
<1>1. UNCHANGED <<file, seen, listed, uploaded>> /\ old.step = "one"
  BY DEF Reading!ReadOne, Reading!worker
<1>2. \/ Reading!Goto(x, "notyet") \/ Reading!Goto(x, "raised")
      \/ read' = [read EXCEPT ![x] = R]
  BY DEF Reading!ReadOne
<1>3. old \in Reading!Reading /\ Reading!RowsOK(old) /\ Reading!ItemsOK(old)
  BY DEF Reading!IInv, Reading!TypeOK
<1>4. CASE read' = [read EXCEPT ![x] = R]
  <2>1. Len(old.names) = 1
    BY <1>1, <1>3 DEF Reading!ItemsOK
  <2>2. pair \in Requests \X Reading!Files
    <3>1. old.rows \in Seq(Requests) /\ old.names \in Seq(Reading!Files)
      BY <1>3 DEF Reading!Reading
    <3>2. 1 \in DOMAIN old.names
      BY <2>1, <3>1
    <3>3. 1 \in DOMAIN old.rows
      BY <1>3, <3>2, Positions DEF Reading!IInv
    <3> HIDE DEF old
    <3> QED
      BY <3>1, <3>2, <3>3
  <2>3. /\ R.step = "shown" /\ R.rows = old.rows /\ R.names = old.names
        /\ R.at = old.at /\ R.items = {pair} /\ R \in Reading!Reading
    <3> HIDE DEF pair, old
    <3> QED
      BY <1>3, <2>2 DEF Reading!Reading
  <2>4. Reading!RowsOK(R)
    <3> HIDE DEF R, old, pair
    <3> QED
      BY <1>3, <2>3 DEF Reading!RowsOK
  <2>5. Reading!ItemsOK(R)
    <3>1. Reading!Pairs(R, 1) = {pair}
      <4> HIDE DEF R
      <4> QED
        BY <2>3 DEF Reading!Pairs
    <3> HIDE DEF R, old, pair
    <3> QED
      BY <2>1, <2>3, <3>1 DEF Reading!ItemsOK
  <2> HIDE DEF R
  <2> QED
    BY <1>1, <1>4, <2>3, <2>4, <2>5, ReadStep
<1> QED
  BY <1>1, <1>2, <1>4, GotoStep

\* A report gets its file: no read has seen it, unless it reads the row alone.
LEMMA FinishStep ==
  ASSUME Reading!IInv, NEW q \in Requests, NEW f \in Reading!Files, Reading!WorkerFinish(q, f)
  PROVE  Reading!IInv'
<1>1. /\ file[q] = 0 /\ \A r \in Requests : file[r] # f
      /\ file' = [file EXCEPT ![q] = f] /\ UNCHANGED <<seen, listed, uploaded, read>>
  BY DEF Reading!WorkerFinish, Reading!Range, Reading!IInv, Reading!TypeOK
<1>2. f # 0 /\ f \in Nat
  BY DEF Reading!Files
<1>3. Reading!TypeOK'
  BY <1>1 DEF Reading!IInv, Reading!TypeOK
<1>4. \A r \in Requests : file'[r] = IF r = q THEN f ELSE file[r]
  BY <1>1 DEF Reading!IInv, Reading!TypeOK
<1>5. Reading!FilesOK'
  BY <1>1, <1>2, <1>4 DEF Reading!IInv, Reading!FilesOK
<1>6. ASSUME NEW x \in Readers
      PROVE  Reading!RowsOK(read[x])' /\ Reading!ItemsOK(read[x])'
  <2> DEFINE R == read[x]
  <2>1. R \in Reading!Reading /\ Reading!RowsOK(R) /\ Reading!ItemsOK(R) /\ read'[x] = R
    BY <1>1 DEF Reading!IInv, Reading!TypeOK
  <2>2. R.rows \in Seq(Requests) /\ R.names \in Seq(Reading!Files)
    BY <2>1 DEF Reading!Reading
  <2> HIDE DEF R
  <2>3. \A i \in DOMAIN R.rows : R.rows[i] \in Requests
    BY <2>2
  <2>4. \A i \in DOMAIN R.rows : file[R.rows[i]] # 0 => file'[R.rows[i]] = file[R.rows[i]]
    BY <1>1, <1>4, <2>3
  <2>5. ASSUME NEW i \in DOMAIN R.rows, file'[R.rows[i]] = 0
        PROVE  Len(R.rows) = 1 /\ R.names = <<>> /\ R.step # "list"
    <3>1. file[R.rows[i]] = 0
      BY <2>4, <2>5
    <3> QED
      BY <2>1, <3>1 DEF Reading!RowsOK
  <2>6. ASSUME NEW i \in DOMAIN R.rows, NEW j \in DOMAIN R.rows, i < j
        PROVE  file'[R.rows[i]] < file'[R.rows[j]]
    <3>1. Len(R.rows) # 1 /\ file[R.rows[i]] < file[R.rows[j]]
      BY <2>1, <2>2, <2>6 DEF Reading!RowsOK
    <3>2. file[R.rows[i]] # 0 /\ file[R.rows[j]] # 0
      BY <2>1, <3>1 DEF Reading!RowsOK
    <3> QED
      BY <2>4, <3>1, <3>2
  <2>7. ASSUME NEW i \in DOMAIN R.names
        PROVE  \E j \in DOMAIN R.rows : R.names[i] = file'[R.rows[j]]
    <3>1. PICK j \in DOMAIN R.rows : R.names[i] = file[R.rows[j]]
      BY <2>1 DEF Reading!RowsOK
    <3>2. R.names # <<>>
      BY <2>2, <2>7, Singletons
    <3>3. file[R.rows[j]] # 0
      BY <2>1, <3>2 DEF Reading!RowsOK
    <3> QED
      BY <2>4, <3>1, <3>3
  <2>8. \A i, j \in DOMAIN R.names : i < j => R.names[i] < R.names[j]
    BY <2>1 DEF Reading!RowsOK
  <2>9. Reading!RowsOK(read[x])'
    BY <2>1, <2>5, <2>6, <2>7, <2>8 DEF Reading!RowsOK
  <2>10. Reading!ItemsOK(read[x])'
    BY <2>1 DEF Reading!ItemsOK, Reading!Pairs
  <2> QED
    BY <2>9, <2>10
<1> QED
  BY <1>3, <1>5, <1>6 DEF Reading!IInv

\* Files are published, and the replica catches up.
LEMMA PublishStep ==
  ASSUME Reading!IInv,
         \/ \E f \in Reading!Files : Reading!WorkerPublish(f)
         \/ \E q \in Requests : Reading!Replicate(q)
  PROVE  Reading!IInv'
<1>1. UNCHANGED <<file, read>>
  BY DEF Reading!WorkerPublish, Reading!Replicate
<1>2. \A x \in Readers : Reading!RowsOK(read[x])' /\ Reading!ItemsOK(read[x])'
  BY <1>1 DEF Reading!IInv, Reading!RowsOK, Reading!ItemsOK, Reading!Pairs
<1>3. CASE \E f \in Reading!Files : Reading!WorkerPublish(f)
  <2>1. Reading!TypeOK' /\ Reading!FilesOK'
    BY <1>3 DEF Reading!WorkerPublish, Reading!IInv, Reading!TypeOK, Reading!FilesOK
  <2> QED
    BY <1>2, <2>1 DEF Reading!IInv
<1>4. CASE \E q \in Requests : Reading!Replicate(q)
  <2> PICK q \in Requests : Reading!Replicate(q)
    BY <1>4
  <2>1. \/ seen' = [seen EXCEPT ![q] = "row"]
        \/ seen' = [seen EXCEPT ![q] = "file"] /\ file[q] # 0
    BY DEF Reading!Replicate
  <2>2. UNCHANGED <<file, listed, uploaded, read>>
    BY DEF Reading!Replicate
  <2>3. seen' \in [Requests -> {"nothing", "row", "file"}]
    BY <2>1 DEF Reading!IInv, Reading!TypeOK
  <2>4. Reading!TypeOK'
    BY <2>2, <2>3 DEF Reading!IInv, Reading!TypeOK
  <2>5. Reading!FilesOK'
    <3>1. seen \in [Requests -> {"nothing", "row", "file"}]
      BY DEF Reading!IInv, Reading!TypeOK
    <3> QED
      BY <2>1, <2>2, <3>1 DEF Reading!IInv, Reading!FilesOK
  <2> QED
    BY <1>2, <2>4, <2>5 DEF Reading!IInv
<1> QED
  BY <1>3, <1>4

\* ReportReading starts as its invariant says.
LEMMA ReadingInit ==
  ASSUME Reading!Init
  PROVE  Reading!IInv
<1> DEFINE R == [step |-> "new", rows |-> <<>>, names |-> <<>>, at |-> 1, items |-> {}]
<1>1. R \in Reading!Reading
  <2>1. <<>> \in Seq(Requests) /\ <<>> \in Seq(Reading!Files)
    BY Singletons
  <2> QED
    BY <2>1 DEF Reading!Reading
<1>2. /\ file = [r \in Requests |-> 0] /\ seen = [r \in Requests |-> "nothing"]
      /\ listed = {} /\ uploaded = {} /\ read = [x \in Readers |-> R]
  BY DEF Reading!Init
<1>3. Reading!RowsOK(R) /\ Reading!ItemsOK(R)
  <2>1. R.rows = <<>> /\ R.names = <<>> /\ R.at = 1 /\ R.items = {} /\ R.step = "new"
    OBVIOUS
  <2>2. DOMAIN R.rows = {} /\ DOMAIN R.names = {} /\ Len(R.names) = 0
    BY <2>1, Singletons
  <2>3. Reading!Pairs(R, 0) = {}
    BY DEF Reading!Pairs
  <2> HIDE DEF R
  <2> QED
    BY <2>1, <2>2, <2>3 DEF Reading!RowsOK, Reading!ItemsOK
<1> HIDE DEF R
<1>4. Reading!TypeOK
  BY <1>1, <1>2 DEF Reading!TypeOK
<1> QED
  BY <1>2, <1>3, <1>4 DEF Reading!IInv, Reading!FilesOK

\* Every step of ReportReading keeps its invariant.
LEMMA ReadingStep == Reading!IInv /\ [Reading!Next]_(Reading!vars) => Reading!IInv'
<1> SUFFICES ASSUME Reading!IInv, [Reading!Next]_(Reading!vars)
             PROVE  Reading!IInv'
  OBVIOUS
<1>1. ASSUME NEW x \in Readers, Reading!GetWithoutIds(x) PROVE Reading!IInv'
  <2>1. /\ UNCHANGED <<file, seen, listed, uploaded>> /\ read[x].step = "new"
        /\ Reading!Goto(x, "raised")
    BY <1>1 DEF Reading!GetWithoutIds, Reading!worker
  <2> QED
    BY <2>1, GotoStep
<1>2. ASSUME NEW x \in Readers, Reading!Answer(x) PROVE Reading!IInv'
  <2>1. /\ UNCHANGED <<file, seen, listed, uploaded>> /\ read[x].step = "fetch"
        /\ Reading!Goto(x, "shown") /\ read[x].at > Len(read[x].names)
    BY <1>2 DEF Reading!Answer, Reading!worker
  <2> QED
    BY <2>1, GotoStep
<1>3. CASE UNCHANGED Reading!vars
  BY <1>3 DEF Reading!vars, Reading!IInv, Reading!TypeOK, Reading!FilesOK, Reading!RowsOK,
              Reading!ItemsOK, Reading!Pairs
<1>4. CASE Reading!Next
  <2>1. \/ \E x \in Readers : Reading!GetWithoutIds(x) \/ Reading!Answer(x)
        \/ \E x \in Readers, pks \in SUBSET Requests : Reading!Get(x, pks)
        \/ \E x \in Readers, r \in Requests, matching \in BOOLEAN : Reading!GetOne(x, r, matching)
        \/ \E x \in Readers : \/ Reading!FetchResultFileList(x) \/ Reading!ReadFile(x)
                              \/ Reading!FetchResultFileUid(x) \/ Reading!ReadOne(x)
        \/ \E r \in Requests, f \in Reading!Files : Reading!WorkerFinish(r, f)
        \/ \E f \in Reading!Files : Reading!WorkerPublish(f)
        \/ \E q \in Requests : Reading!Replicate(q)
    BY <1>4 DEF Reading!Next
  <2> QED
    BY <2>1, <1>1, <1>2, GetStep, OneStep, ListStep, FileStep, UidStep, ShowStep, FinishStep,
       PublishStep
<1> QED
  BY <1>3, <1>4

\* ReportReading: what reads hold of rows, names and files, for any reports and
\* any readers beside the worker.
THEOREM ReadingInvariance == Reading!Spec => []Reading!IInv
BY ReadingInit, ReadingStep, PTL DEF Reading!Spec

\* Whoever reads several reports finds each transaction under the id of its own
\* request, if the portal knew all files, and otherwise under that of an earlier file.
LEMMA ReadingIsRight == Reading!IInv => Reading!OwnTransactions /\ Reading!GapsShiftBack
<1> SUFFICES ASSUME Reading!IInv
             PROVE  Reading!OwnTransactions /\ Reading!GapsShiftBack
  OBVIOUS
<1>1. ASSUME NEW x \in Readers
      PROVE  /\ read[x].step = "shown" /\ Len(read[x].names) = Len(read[x].rows) =>
                  read[x].items = {<<r, file[r]>> : r \in Reading!Range(read[x].rows)}
             /\ \A pair \in read[x].items : file[pair[1]] <= pair[2]
  <2> DEFINE R == read[x]
  <2>1. R \in Reading!Reading /\ Reading!RowsOK(R) /\ Reading!ItemsOK(R)
    BY DEF Reading!IInv, Reading!TypeOK
  <2>2. R.rows \in Seq(Requests) /\ R.names \in Seq(Reading!Files) /\ R.at \in Nat \ {0}
    BY <2>1 DEF Reading!Reading
  <2>3. \A i \in DOMAIN R.names :
           /\ i \in DOMAIN R.rows /\ file[R.rows[i]] <= R.names[i]
           /\ Len(R.names) = Len(R.rows) => file[R.rows[i]] = R.names[i]
    BY <2>1, Positions DEF Reading!IInv
  <2> HIDE DEF R
  <2>4. ASSUME R.step = "shown", Len(R.names) = Len(R.rows)
        PROVE  R.items = {<<r, file[r]>> : r \in Reading!Range(R.rows)}
    <3>1. R.items = {<<R.rows[i], R.names[i]>> : i \in 1..Len(R.names)}
      BY <2>1, <2>4 DEF Reading!ItemsOK, Reading!Pairs
    <3>2. DOMAIN R.rows = 1..Len(R.names) /\ DOMAIN R.names = 1..Len(R.names)
      BY <2>2, <2>4
    <3>3. \A i \in 1..Len(R.names) : <<R.rows[i], R.names[i]>> = <<R.rows[i], file[R.rows[i]]>>
      BY <2>3, <2>4, <3>2
    <3>4. Reading!Range(R.rows) = {R.rows[i] : i \in 1..Len(R.names)}
      BY <3>2 DEF Reading!Range
    <3>5. R.items = {<<R.rows[i], file[R.rows[i]]>> : i \in 1..Len(R.names)}
      BY <3>1, <3>3
    <3> QED
      BY <3>4, <3>5
  <2>5. ASSUME NEW pair \in R.items
        PROVE  file[pair[1]] <= pair[2]
    <3>1. PICK n \in {R.at - 1, Len(R.names)} : R.items = Reading!Pairs(R, n) /\ n <= Len(R.names)
      BY <2>1, <2>2 DEF Reading!ItemsOK
    <3>2. PICK i \in 1..n : pair = <<R.rows[i], R.names[i]>>
      BY <2>5, <3>1 DEF Reading!Pairs
    <3>3. n \in Int /\ Len(R.names) \in Nat /\ DOMAIN R.names = 1..Len(R.names)
      BY <2>2
    <3>4. i \in DOMAIN R.names
      BY <3>1, <3>3
    <3> QED
      BY <2>3, <3>2, <3>4
  <2> QED
    BY <2>4, <2>5 DEF R
<1> QED
  BY <1>1 DEF Reading!OwnTransactions, Reading!GapsShiftBack

-----------------------------------------------------------------------------
(* Labels and reading in one process                                        *)

\* What happens beside a read is no step of it.
LEMMA ReadingAlone ==
  ASSUME [ReportsNext]_<<part, ofLabels, ofReading, ofGraph, item_list>>
  PROVE  part' = part /\ (part = "reading" => [Reading!Next]_(Reading!vars))
<1>1. CASE UNCHANGED <<part, ofLabels, ofReading, ofGraph, item_list>>
  BY <1>1 DEF ofReading, Reading!vars
<1>2. CASE ReportsNext
  <2>1. \/ part = "labels" /\ UNCHANGED part
        \/ part = "reading" /\ Reading!Next /\ UNCHANGED part
        \/ part \in {"graph", "totals"} /\ UNCHANGED part
    <3>1. ASSUME \/ \E x \in Readers :
                      \/ OfReading(Reading!GetWithoutIds(x))
                      \/ \E pks \in SUBSET Requests \ {{}} : OfReading(Reading!Get(x, pks))
                      \/ OfReading(Reading!FetchResultFileList(x))
                      \/ OfReading(Reading!ReadFile(x)) \/ OfReading(Reading!Answer(x))
                      \/ \E q \in Requests, matching \in BOOLEAN : OfReading(Reading!GetOne(x, q, matching))
                      \/ OfReading(Reading!FetchResultFileUid(x)) \/ OfReading(Reading!ReadOne(x))
                 \/ \E q \in Requests : OfReading(Reading!Replicate(q))
                 \/ \E q \in Requests, f \in Reading!Files : OfReading(Reading!WorkerFinish(q, f))
                 \/ \E f \in Reading!Files : OfReading(Reading!WorkerPublish(f))
          PROVE  part = "reading" /\ Reading!Next /\ UNCHANGED part
      BY <3>1, Zenon DEF OfReading, Reading!Next
    <3>2. ASSUME \/ \E o \in Ops, u \in Users, l \in Labels : OfLabels(Post(o, u, l))
                 \/ \E o \in Ops, u \in Users : OfLabels(Delete(o, u))
                 \/ \E o \in Ops : OfLabels(Save(o)) \/ OfLabels(DeleteRow(o))
                 \/ OfLabels(Replicate)
          PROVE  part = "labels" /\ UNCHANGED part
      BY <3>2, Zenon DEF OfLabels
    <3>3. ASSUME \/ \E mode \in Graphs!Modes : OfGraph(Graphs!Receive(mode))
                 \/ OfTotals(Totals!Next)
          PROVE  part \in {"graph", "totals"} /\ UNCHANGED part
      BY <3>3, Zenon DEF OfGraph, OfTotals
    <3> QED
      BY <1>2, <3>1, <3>2, <3>3, Zenon DEF ReportsNext
  <2> QED
    BY <2>1
<1> QED
  BY <1>1, <1>2

\* TransactionsFindTheirRequest: in no interleaving of readers, worker and replica
\* does CATVMultiReportView put a transaction under another request, unless the
\* portal's list has a gap, and then under one with an earlier file.
THEOREM FoundUnderTheirRequest == ReportsSpec => []TransactionsFindTheirRequest
<1> DEFINE Inv == part = "reading" => Reading!IInv
<1>1. ReportsInit => Inv
  BY ReadingInit DEF ReportsInit
<1>2. Inv /\ [ReportsNext]_<<part, ofLabels, ofReading, ofGraph, item_list>> => Inv'
  BY ReadingAlone, ReadingStep
<1>3. Inv => TransactionsFindTheirRequest
  BY ReadingIsRight DEF TransactionsFindTheirRequest
<1> QED
  BY <1>1, <1>2, <1>3, PTL DEF ReportsSpec

\* The other parts do nothing to the labels: what is proved of them holds here.
THEOREM LabelsArePart == ReportsSpec => Spec
<1>1. ReportsInit => Init
  BY DEF ReportsInit
<1>2. [ReportsNext]_<<part, ofLabels, ofReading, ofGraph, item_list>> => [Next]_vars
  <2> SUFFICES ASSUME [ReportsNext]_<<part, ofLabels, ofReading, ofGraph, item_list>>
               PROVE  [Next]_vars
    OBVIOUS
  <2>1. CASE UNCHANGED <<part, ofLabels, ofReading, ofGraph, item_list>>
    BY <2>1 DEF ofLabels, vars
  <2>2. CASE ReportsNext
    <3>1. ASSUME \/ \E o \in Ops, u \in Users, l \in Labels : OfLabels(Post(o, u, l))
                 \/ \E o \in Ops, u \in Users : OfLabels(Delete(o, u))
                 \/ \E o \in Ops : OfLabels(Save(o)) \/ OfLabels(DeleteRow(o))
                 \/ OfLabels(Replicate)
          PROVE  Next
      BY <3>1, Zenon DEF OfLabels, Next
    <3>2. Next \/ UNCHANGED ofLabels
      BY <2>2, <3>1, Zenon DEF ReportsNext, OfReading, OfGraph, OfTotals
    <3> QED
      BY <3>2 DEF ofLabels, vars
  <2> QED
    BY <2>1, <2>2
<1> QED
  BY <1>1, <1>2, PTL DEF ReportsSpec, Spec

-----------------------------------------------------------------------------
(* Sums                                                                     *)

\* The sets of TransactionGraph are counted as those of this module.
LEMMA GraphCounting ==
  /\ \A S : Graphs!IsFiniteSet(S) <=> IsFiniteSet(S)
  /\ \A S : Graphs!Cardinality(S) = Cardinality(S)
<1>1. ASSUME NEW S PROVE Graphs!IsFiniteSet(S) <=> IsFiniteSet(S)
  BY Zenon DEF Graphs!IsFiniteSet, IsFiniteSet
<1>2. ASSUME NEW S PROVE Graphs!Cardinality(S) = Cardinality(S)
  BY Zenon DEF Graphs!Cardinality, Cardinality
<1> QED
  BY <1>1, <1>2

\* The sum of f over S, and what makes g the table of the sums of f over the
\* subsets of S.
Sum(f, S) == Graphs!SumFunctionOnSet(f, S)
IsTable(g, f, S) ==
  /\ g \in [SUBSET S -> Nat] /\ g[{}] = 0
  /\ \A s \in SUBSET S : \A x \in s : g[s] = f[x] + g[s \ {x}]

\* Of sets that are not empty one is smallest.
LEMMA SmallestSet ==
  ASSUME NEW S, IsFiniteSet(S), NEW C \in SUBSET SUBSET S, C # {}
  PROVE  \E s \in C : IsFiniteSet(s) /\ Cardinality(s) \in Nat
                      /\ \A t \in C : ~(Cardinality(t) < Cardinality(s))
<1> DEFINE sizes == {Cardinality(s) : s \in C}
<1>1. \A s \in C : IsFiniteSet(s) /\ Cardinality(s) \in Nat
  BY FS_Subset, FS_CardinalityType
<1>2. sizes \in SUBSET Nat /\ sizes # {}
  BY <1>1
<1>3. PICK n \in sizes : \A m \in sizes : ~(m < n)
  <2> HIDE DEF sizes
  <2> QED
    BY <1>2, Smallest
<1>4. PICK s \in C : Cardinality(s) = n
  OBVIOUS
<1>5. \A t \in C : Cardinality(t) \in sizes
  OBVIOUS
<1> QED
  BY <1>1, <1>3, <1>4, <1>5

\* What an element takes away.
LEMMA OneLess ==
  ASSUME NEW S, IsFiniteSet(S), NEW x \in S
  PROVE  /\ IsFiniteSet(S \ {x}) /\ S \ {x} \in SUBSET S
         /\ Cardinality(S) \in Nat /\ Cardinality(S \ {x}) = Cardinality(S) - 1
         /\ Cardinality(S \ {x}) < Cardinality(S)
<1>1. /\ IsFiniteSet(S \ {x})
      /\ Cardinality(S \ {x}) = Cardinality(S) - 1
  BY FS_RemoveElement
<1>2. Cardinality(S) \in Nat
  BY FS_CardinalityType
<1> QED
  BY <1>1, <1>2

\* There is a table of the sums over the subsets of a finite set.
LEMMA SomeTable ==
  ASSUME NEW S, IsFiniteSet(S), NEW f, \A x \in S : f[x] \in Nat
  PROVE  \E g : IsTable(g, f, S)
<1> DEFINE none == {s \in SUBSET S : ~\E g : IsTable(g, f, s)}
<1> SUFFICES ASSUME S \in none PROVE FALSE
  OBVIOUS
<1>1. PICK T \in none : /\ IsFiniteSet(T)
                        /\ \A t \in none : ~(Cardinality(t) < Cardinality(T))
  <2>1. none \in SUBSET SUBSET S /\ none # {}
    OBVIOUS
  <2> HIDE DEF none
  <2> QED
    BY <2>1, SmallestSet
<1>2. T \in SUBSET S /\ ~\E g : IsTable(g, f, T)
  OBVIOUS
<1>3. CASE T = {}
  <2> DEFINE g == [s \in SUBSET {} |-> 0]
  <2>1. IsTable(g, f, {})
    BY DEF IsTable
  <2> QED
    BY <1>2, <1>3, <2>1
<1>4. CASE T # {}
  <2>1. PICK y \in T : TRUE
    BY <1>4
  <2> DEFINE R == T \ {y}
  <2>2. R \in SUBSET S /\ Cardinality(R) < Cardinality(T)
    BY <1>1, <1>2, OneLess
  <2>3. PICK h : IsTable(h, f, R)
    <3>1. R \notin none
      <4> HIDE DEF none, R
      <4> QED
        BY <1>1, <2>2
    <3> QED
      BY <2>2, <3>1
  <2> DEFINE g == [s \in SUBSET T |-> IF y \in s THEN f[y] + h[s \ {y}] ELSE h[s]]
  <2>4. f[y] \in Nat /\ \A x \in T : f[x] \in Nat
    BY <1>2
  <2>5. \A s \in SUBSET T : s \ {y} \in SUBSET R /\ (y \notin s => s \in SUBSET R)
    OBVIOUS
  <2>6. h \in [SUBSET R -> Nat] /\ h[{}] = 0
        /\ \A s \in SUBSET R : \A x \in s : h[s] = f[x] + h[s \ {x}]
    BY <2>3 DEF IsTable
  <2> HIDE DEF R
  <2>7. g \in [SUBSET T -> Nat] /\ g[{}] = 0
    <3>1. \A s \in SUBSET T : h[s \ {y}] \in Nat /\ (y \notin s => h[s] \in Nat)
      BY <2>5, <2>6
    <3>2. \A s \in SUBSET T : y \in s => f[y] + h[s \ {y}] \in Nat
      BY <2>4, <3>1
    <3>3. {} \in SUBSET T /\ y \notin {}
      OBVIOUS
    <3> QED
      BY <2>6, <3>1, <3>2, <3>3
  <2>8. ASSUME NEW s \in SUBSET T, NEW x \in s PROVE g[s] = f[x] + g[s \ {x}]
    <3>1. s \ {x} \in SUBSET T
      OBVIOUS
    <3>2. CASE x = y
      <4>1. g[s] = f[y] + h[s \ {y}] /\ g[s \ {x}] = h[s \ {y}]
        BY <3>1, <3>2
      <4> QED
        BY <3>2, <4>1
    <3>3. CASE x # y /\ y \in s
      <4>1. g[s] = f[y] + h[s \ {y}] /\ g[s \ {x}] = f[y] + h[(s \ {x}) \ {y}]
        BY <3>1, <3>3
      <4>2. (s \ {x}) \ {y} = (s \ {y}) \ {x} /\ x \in s \ {y} /\ s \ {y} \in SUBSET R
        BY <2>5, <3>3
      <4>3. h[s \ {y}] = f[x] + h[(s \ {y}) \ {x}]
        BY <2>6, <4>2
      <4>4. h[(s \ {y}) \ {x}] \in Nat /\ f[x] \in Nat /\ f[y] \in Nat
        BY <2>4, <2>6, <4>2
      <4> HIDE DEF g
      <4>5. g[s \ {x}] = f[y] + h[(s \ {y}) \ {x}]
        BY <4>1, <4>2, Zenon
      <4> QED
        BY <4>1, <4>3, <4>4, <4>5
    <3>4. CASE x # y /\ y \notin s
      <4>1. g[s] = h[s] /\ g[s \ {x}] = h[s \ {x}]
        BY <3>1, <3>4
      <4>2. s \in SUBSET R
        BY <2>5, <3>4
      <4> HIDE DEF g
      <4> QED
        BY <2>6, <4>1, <4>2
    <3> QED
      BY <3>2, <3>3, <3>4
  <2>9. IsTable(g, f, T)
    <3> HIDE DEF g
    <3> QED
      BY <2>7, <2>8 DEF IsTable
  <2> QED
    BY <1>2, <2>9
<1> QED
  BY <1>3, <1>4

\* The sum is what any table says.
LEMMA SumInTable ==
  ASSUME NEW S, IsFiniteSet(S), NEW f, NEW g, IsTable(g, f, S)
  PROVE  Sum(f, S) = g[S]
<1> DEFINE Solves(h) ==
             h = [s \in SUBSET S |-> IF s = {} THEN 0
                                     ELSE LET x == CHOOSE x \in s : TRUE IN f[x] + h[s \ {x}]]
           iter == CHOOSE h : Solves(h)
<1>1. Sum(f, S) = iter[S]
  BY DEF Sum, Graphs!SumFunctionOnSet, Graphs!FoldFunctionOnSet, Graphs!MapThenFoldSet
<1>2. Solves(g)
  <2> DEFINE body == [s \in SUBSET S |-> IF s = {} THEN 0
                                     ELSE LET x == CHOOSE x \in s : TRUE IN f[x] + g[s \ {x}]]
  <2>1. ASSUME NEW s \in SUBSET S PROVE body[s] = g[s]
    <3>1. CASE s = {}
      BY <3>1 DEF IsTable
    <3>2. CASE s # {}
      <4>1. (CHOOSE x \in s : TRUE) \in s
        BY <3>2
      <4> QED
        BY <3>2, <4>1 DEF IsTable
    <3> QED
      BY <3>1, <3>2
  <2>2. g = [s \in SUBSET S |-> g[s]] /\ body = [s \in SUBSET S |-> body[s]]
    BY DEF IsTable
  <2>3. g = body
    <3> HIDE DEF body
    <3> QED
      BY <2>1, <2>2
  <2> QED
    BY <2>3
<1>3. Solves(iter)
  <2> HIDE DEF Solves
  <2> QED
    BY <1>2
<1> HIDE DEF iter
<1>4. \A s \in SUBSET S : iter[s] = IF s = {} THEN 0
                                    ELSE LET x == CHOOSE x \in s : TRUE IN f[x] + iter[s \ {x}]
  <2> DEFINE body == [s \in SUBSET S |-> IF s = {} THEN 0
                                     ELSE LET x == CHOOSE x \in s : TRUE IN f[x] + iter[s \ {x}]]
  <2>1. \A s \in SUBSET S : body[s] = IF s = {} THEN 0
                                    ELSE LET x == CHOOSE x \in s : TRUE IN f[x] + iter[s \ {x}]
    OBVIOUS
  <2>2. iter = body
    BY <1>3
  <2> HIDE DEF body
  <2> QED
    BY <2>1, <2>2
<1> HIDE DEF Solves
<1> DEFINE wrong == {s \in SUBSET S : iter[s] # g[s]}
<1> SUFFICES ASSUME S \in wrong PROVE FALSE
  BY <1>1
<1>5. PICK T \in wrong : /\ IsFiniteSet(T)
                         /\ \A t \in wrong : ~(Cardinality(t) < Cardinality(T))
  <2>1. wrong \in SUBSET SUBSET S /\ wrong # {}
    OBVIOUS
  <2> HIDE DEF wrong
  <2> QED
    BY <2>1, SmallestSet
<1>6. T \in SUBSET S /\ iter[T] # g[T]
  OBVIOUS
<1>7. CASE T = {}
  BY <1>4, <1>6, <1>7 DEF IsTable
<1>8. CASE T # {}
  <2> DEFINE x == CHOOSE x \in T : TRUE
  <2>1. x \in T
    BY <1>8
  <2>2. iter[T] = f[x] + iter[T \ {x}]
    BY <1>4, <1>6, <1>8
  <2> HIDE DEF x
  <2>3. g[T] = f[x] + g[T \ {x}]
    BY <1>6, <2>1 DEF IsTable
  <2>4. T \ {x} \in SUBSET S /\ Cardinality(T \ {x}) < Cardinality(T)
    BY <1>5, <1>6, <2>1, OneLess
  <2>5. T \ {x} \notin wrong
    <3> HIDE DEF wrong
    <3> QED
      BY <1>5, <2>4
  <2> QED
    BY <1>6, <2>2, <2>3, <2>4, <2>5
<1> QED
  BY <1>7, <1>8

\* A sum of numbers is a number; whichever element comes first, it and the sum of
\* the others make the sum; only the values on S count.
LEMMA SumNat ==
  ASSUME NEW S, IsFiniteSet(S), NEW f, \A x \in S : f[x] \in Nat
  PROVE  Sum(f, S) \in Nat
<1>1. PICK g : IsTable(g, f, S)
  BY SomeTable
<1>2. Sum(f, S) = g[S]
  BY <1>1, SumInTable
<1>3. S \in SUBSET S /\ g \in [SUBSET S -> Nat]
  BY <1>1 DEF IsTable
<1> QED
  BY <1>2, <1>3

\* Nothing sums up to 0.
LEMMA SumEmpty == ASSUME NEW f PROVE Sum(f, {}) = 0
<1>1. IsFiniteSet({})
  BY FS_EmptySet
<1>2. PICK g : IsTable(g, f, {})
  BY <1>1, SomeTable
<1> QED
  BY <1>1, <1>2, SumInTable DEF IsTable

\* One element after another can be taken out of a sum, in any order.
LEMMA SumOneMore ==
  ASSUME NEW S, IsFiniteSet(S), NEW f, \A x \in S : f[x] \in Nat, NEW x \in S
  PROVE  Sum(f, S) = f[x] + Sum(f, S \ {x})
<1>1. PICK g : IsTable(g, f, S)
  BY SomeTable
<1> DEFINE R == S \ {x}
           h == [s \in SUBSET R |-> g[s]]
<1>2. IsTable(h, f, R)
  <2>1. \A s \in SUBSET R : s \in SUBSET S /\ h[s] = g[s]
    OBVIOUS
  <2>2. h \in [SUBSET R -> Nat] /\ h[{}] = 0
    BY <1>1, <2>1 DEF IsTable
  <2>3. ASSUME NEW s \in SUBSET R, NEW y \in s PROVE h[s] = f[y] + h[s \ {y}]
    <3>1. s \ {y} \in SUBSET R
      OBVIOUS
    <3> HIDE DEF h, R
    <3> QED
      BY <1>1, <2>1, <3>1 DEF IsTable
  <2> HIDE DEF h, R
  <2> QED
    BY <2>2, <2>3 DEF IsTable
<1>3. IsFiniteSet(R) /\ h[R] = g[R]
  BY OneLess
<1>4. Sum(f, S) = g[S] /\ Sum(f, R) = h[R]
  <2> HIDE DEF h, R
  <2> QED
    BY <1>1, <1>2, <1>3, SumInTable
<1>5. g[S] = f[x] + g[S \ {x}]
  BY <1>1 DEF IsTable
<1> QED
  BY <1>3, <1>4, <1>5

\* Only the values on S matter for a sum over S.
LEMMA SumAlike ==
  ASSUME NEW S, IsFiniteSet(S), NEW f, \A x \in S : f[x] \in Nat,
         NEW g, \A x \in S : g[x] = f[x]
  PROVE  Sum(f, S) = Sum(g, S)
<1>1. PICK h : IsTable(h, f, S)
  BY SomeTable
<1>2. IsTable(h, g, S)
  BY <1>1 DEF IsTable
<1> QED
  BY <1>1, <1>2, SumInTable

\* The sum of equal values.
LEMMA SumSame ==
  ASSUME NEW S, IsFiniteSet(S), NEW n \in Nat, NEW f, \A x \in S : f[x] = n
  PROVE  Sum(f, S) = n * Cardinality(S)
<1> DEFINE wrong == {s \in SUBSET S : Sum(f, s) # n * Cardinality(s)}
<1> SUFFICES ASSUME S \in wrong PROVE FALSE
  OBVIOUS
<1>1. PICK T \in wrong : /\ IsFiniteSet(T)
                         /\ \A t \in wrong : ~(Cardinality(t) < Cardinality(T))
  <2>1. wrong \in SUBSET SUBSET S /\ wrong # {}
    OBVIOUS
  <2> HIDE DEF wrong
  <2> QED
    BY <2>1, SmallestSet
<1>2. T \in SUBSET S /\ Sum(f, T) # n * Cardinality(T)
  OBVIOUS
<1>3. CASE T = {}
  BY <1>2, <1>3, SumEmpty, FS_EmptySet
<1>4. CASE T # {}
  <2>1. PICK x \in T : TRUE
    BY <1>4
  <2>2. /\ T \ {x} \in SUBSET S /\ Cardinality(T \ {x}) < Cardinality(T)
        /\ Cardinality(T) \in Nat /\ Cardinality(T \ {x}) = Cardinality(T) - 1
    BY <1>1, <1>2, <2>1, OneLess
  <2>3. T \ {x} \notin wrong
    <3> HIDE DEF wrong
    <3> QED
      BY <1>1, <2>2
  <2>4. Sum(f, T \ {x}) = n * (Cardinality(T) - 1)
    BY <2>2, <2>3
  <2>5. Sum(f, T) = n + Sum(f, T \ {x})
    <3>1. f[x] = n /\ \A y \in T : f[y] \in Nat
      BY <1>2, <2>1
    <3> QED
      BY <1>1, <2>1, <3>1, SumOneMore
  <2>6. n + n * (Cardinality(T) - 1) = n * Cardinality(T)
    BY <2>2
  <2> QED
    BY <1>2, <2>4, <2>5, <2>6
<1> QED
  BY <1>3, <1>4

\* The sum of a set is the sum of the sums of its groups: h[k] is that of the
\* elements which p puts into group k.
Grouped(S, f, K, p, h) ==
  /\ IsFiniteSet(S) /\ IsFiniteSet(K) /\ p \in [S -> K] /\ \A x \in S : f[x] \in Nat
  /\ \A k \in K : h[k] = Sum(f, {x \in S : p[x] = k})

\* The sum of the sums of groups is the sum of all.
LEMMA SumOfGroups ==
  ASSUME NEW S, NEW f, NEW K, NEW p, NEW h, Grouped(S, f, K, p, h)
  PROVE  Sum(h, K) = Sum(f, S)
<1> /\ IsFiniteSet(S) /\ IsFiniteSet(K) /\ p \in [S -> K] /\ \A x \in S : f[x] \in Nat
    /\ \A k \in K : h[k] = Sum(f, {x \in S : p[x] = k})
  BY DEF Grouped
<1> DEFINE Of(s, k)  == {x \in s : p[x] = k}
           SumsOf(s)  == [k \in K |-> Sum(f, Of(s, k))]
           wrong     == {s \in SUBSET S : Sum(SumsOf(s), K) # Sum(f, s)}
<1>1. \A s \in SUBSET S : IsFiniteSet(s) /\ \A x \in s : f[x] \in Nat
  BY FS_Subset
<1>2. \A s \in SUBSET S : \A x \in s : Sum(f, s) = f[x] + Sum(f, s \ {x})
  BY <1>1, SumOneMore
<1>3. ASSUME NEW s \in SUBSET S, NEW k \in K
      PROVE  /\ Of(s, k) \in SUBSET S /\ IsFiniteSet(Of(s, k)) /\ Sum(f, Of(s, k)) \in Nat
             /\ SumsOf(s)[k] = Sum(f, Of(s, k)) /\ SumsOf(s)[k] \in Nat
  <2>1. Of(s, k) \in SUBSET S
    OBVIOUS
  <2>2. IsFiniteSet(Of(s, k)) /\ \A x \in Of(s, k) : f[x] \in Nat
    <3> HIDE DEF Of
    <3> QED
      BY <1>1, <2>1
  <2>3. Sum(f, Of(s, k)) \in Nat
    <3> HIDE DEF Of
    <3> QED
      BY <2>2, SumNat
  <2> QED
    BY <2>1, <2>2, <2>3
<1>4. S \notin wrong => Sum(h, K) = Sum(f, S)
  <2>1. S \in SUBSET S /\ \A k \in K : SumsOf(S)[k] \in Nat /\ h[k] = SumsOf(S)[k]
    <3>1. \A k \in K : h[k] = Sum(f, Of(S, k))
      OBVIOUS
    <3>2. S \in SUBSET S
      OBVIOUS
    <3> HIDE DEF Of, SumsOf
    <3> QED
      BY <1>3, <3>1, <3>2
  <2>2. Sum(h, K) = Sum(SumsOf(S), K)
    <3> HIDE DEF SumsOf
    <3> QED
      BY <2>1, SumAlike
  <2> QED
    BY <2>1, <2>2
<1> SUFFICES ASSUME S \in wrong PROVE FALSE
  BY <1>4
<1>5. PICK T \in wrong : /\ IsFiniteSet(T)
                         /\ \A t \in wrong : ~(Cardinality(t) < Cardinality(T))
  <2>1. wrong \in SUBSET SUBSET S /\ wrong # {}
    OBVIOUS
  <2> HIDE DEF wrong
  <2> QED
    BY <2>1, SmallestSet
<1>6. T \in SUBSET S /\ Sum(SumsOf(T), K) # Sum(f, T)
  OBVIOUS
<1>7. CASE T = {}
  <2>1. \A k \in K : Of(T, k) = {}
    BY <1>7
  <2>2. \A k \in K : SumsOf(T)[k] = 0
    <3>1. Sum(f, {}) = 0
      BY SumEmpty
    <3> HIDE DEF Of, SumsOf
    <3>2. \A k \in K : SumsOf(T)[k] = Sum(f, Of(T, k))
      BY <1>3, <1>6
    <3> QED
      BY <2>1, <3>1, <3>2, Zenon
  <2>3. Sum(SumsOf(T), K) = 0
    <3>1. Cardinality(K) \in Nat /\ 0 \in Nat /\ 0 * Cardinality(K) = 0
      BY FS_CardinalityType
    <3> HIDE DEF SumsOf
    <3> QED
      BY <2>2, <3>1, SumSame
  <2> QED
    BY <1>6, <1>7, <2>3, SumEmpty
<1>8. CASE T # {}
  <2>1. PICK x \in T : TRUE
    BY <1>8
  <2> DEFINE R == T \ {x}
             k == p[x]
  <2>2. /\ R \in SUBSET S /\ Cardinality(R) < Cardinality(T)
        /\ k \in K /\ f[x] \in Nat /\ x \notin R
    BY <1>5, <1>6, <2>1, OneLess
  <2>3. Sum(SumsOf(R), K) = Sum(f, R)
    <3>1. R \notin wrong
      <4> HIDE DEF wrong, R
      <4> QED
        BY <1>5, <2>2
    <3> HIDE DEF R, SumsOf
    <3> QED
      BY <2>2, <3>1
  <2>4. Sum(f, T) = f[x] + Sum(f, R)
    BY <1>1, <1>6, <2>1, SumOneMore
  <2>5. Of(T, k) \ {x} = Of(R, k) /\ x \in Of(T, k)
    BY <2>1
  <2>6. \A l \in K \ {k} : Of(T, l) = Of(R, l)
    BY <2>1
  <2> HIDE DEF R, k, Of
  <2>7. Sum(f, Of(T, k)) = f[x] + Sum(f, Of(R, k))
    <3>1. Of(T, k) \in SUBSET S /\ x \in Of(T, k)
      BY <1>3, <1>6, <2>2, <2>5
    <3>2. Sum(f, Of(T, k)) = f[x] + Sum(f, Of(T, k) \ {x})
      BY <1>2, <3>1, Zenon
    <3> QED
      BY <2>5, <3>2
  <2>8. SumsOf(T)[k] = f[x] + SumsOf(R)[k] /\ \A l \in K \ {k} : SumsOf(T)[l] = SumsOf(R)[l]
    BY <2>2, <2>6, <2>7
  <2>9. \A l \in K : SumsOf(T)[l] \in Nat /\ SumsOf(R)[l] \in Nat
    BY <1>3, <1>6, <2>2
  <2> HIDE DEF SumsOf
  <2>10. /\ Sum(SumsOf(T), K) = SumsOf(T)[k] + Sum(SumsOf(T), K \ {k})
         /\ Sum(SumsOf(R), K) = SumsOf(R)[k] + Sum(SumsOf(R), K \ {k})
    BY <2>2, <2>9, SumOneMore
  <2>11. IsFiniteSet(K \ {k})
    BY <2>2, OneLess
  <2>12. Sum(SumsOf(T), K \ {k}) = Sum(SumsOf(R), K \ {k}) /\ Sum(SumsOf(R), K \ {k}) \in Nat
    <3>1. \A l \in K \ {k} : SumsOf(R)[l] \in Nat /\ SumsOf(T)[l] = SumsOf(R)[l]
      BY <2>8, <2>9
    <3> QED
      BY <2>11, <3>1, SumAlike, SumNat
  <2>13. SumsOf(R)[k] \in Nat
    BY <2>2, <2>9
  <2> QED
    BY <1>6, <2>2, <2>3, <2>4, <2>8, <2>10, <2>12, <2>13
<1> QED
  BY <1>7, <1>8

-----------------------------------------------------------------------------
(* Positions                                                                *)

Rank(S, i) == Cardinality({j \in S : j <= i})

\* The positions of a sequence have ranks from 1 up, in their order.
LEMMA Ranks ==
  ASSUME NEW n \in Nat, NEW S \in SUBSET (1..n)
  PROVE  /\ IsFiniteSet(S) /\ Cardinality(S) \in 0..n
         /\ \A i \in S : Rank(S, i) \in 1..Cardinality(S)
         /\ \A i, j \in S : i < j => Rank(S, i) < Rank(S, j)
<1>1. IsFiniteSet(1..n) /\ Cardinality(1..n) = n
  <2>1. 1 \in Int /\ n \in Int /\ (1 > n => n = 0)
    OBVIOUS
  <2> QED
    BY <2>1, FS_Interval
<1>2. IsFiniteSet(S) /\ Cardinality(S) \in Nat /\ Cardinality(S) <= n
  BY <1>1, FS_Subset, FS_CardinalityType
<1>3. ASSUME NEW i \in S
      PROVE  /\ IsFiniteSet({j \in S : j <= i}) /\ Rank(S, i) \in Nat
             /\ Rank(S, i) <= Cardinality(S) /\ Rank(S, i) # 0
  <2> DEFINE L == {j \in S : j <= i}
  <2>1. L \in SUBSET S /\ i \in L
    OBVIOUS
  <2>2. IsFiniteSet(L) /\ Cardinality(L) <= Cardinality(S)
    <3> HIDE DEF L
    <3> QED
      BY <1>2, <2>1, FS_Subset
  <2>3. Cardinality(L) \in Nat /\ (Cardinality(L) = 0 <=> L = {})
    <3> HIDE DEF L
    <3> QED
      BY <2>2, FS_CardinalityType, FS_EmptySet
  <2>4. L # {}
    BY <2>1
  <2> QED
    BY <2>2, <2>3, <2>4 DEF Rank
<1>4. ASSUME NEW i \in S, NEW j \in S, i < j
      PROVE  Rank(S, i) < Rank(S, j)
  <2> DEFINE L == {k \in S : k <= i}
             M == {k \in S : k <= j}
  <2>0. \A k \in S : k \in Nat
    OBVIOUS
  <2>a. \A k \in L : k \in S /\ k <= j /\ k # j
    BY <1>4, <2>0
  <2>b. j \in M
    BY <2>0
  <2>1. L \in SUBSET (M \ {j}) /\ j \in M
    BY <2>a, <2>b
  <2>2. IsFiniteSet(M)
    BY <1>3
  <2> HIDE DEF L, M
  <2>3. Cardinality(L) <= Cardinality(M \ {j}) /\ Cardinality(M \ {j}) < Cardinality(M)
        /\ IsFiniteSet(M \ {j}) /\ IsFiniteSet(L)
    BY <2>1, <2>2, OneLess, FS_Subset
  <2>4. Cardinality(L) \in Nat /\ Cardinality(M \ {j}) \in Nat /\ Cardinality(M) \in Nat
    BY <2>2, <2>3, FS_CardinalityType
  <2> QED
    BY <2>3, <2>4 DEF Rank, L, M
<1>5. Cardinality(S) \in 0..n
  BY <1>2
<1>6. ASSUME NEW i \in S PROVE Rank(S, i) \in 1..Cardinality(S)
  <2>1. Rank(S, i) \in Nat /\ Rank(S, i) <= Cardinality(S) /\ Rank(S, i) # 0
    BY <1>3
  <2> QED
    BY <1>2, <2>1
<1> QED
  BY <1>2, <1>4, <1>5, <1>6

\* Nth inverts the ranks.
LEMMA NthOf ==
  ASSUME NEW n \in Nat, NEW S \in SUBSET (1..n)
  PROVE  /\ \A k \in 1..Cardinality(S) : Graphs!Nth(S, k) \in S /\ Rank(S, Graphs!Nth(S, k)) = k
         /\ \A i \in S : Graphs!Nth(S, Rank(S, i)) = i
         /\ \A k, l \in 1..Cardinality(S) : k < l => Graphs!Nth(S, k) < Graphs!Nth(S, l)
<1> DEFINE N == Cardinality(S)
           f == [i \in S |-> Rank(S, i)]
<1>1. /\ IsFiniteSet(S) /\ N \in Nat
      /\ \A i \in S : Rank(S, i) \in 1..N
      /\ \A i, j \in S : i < j => Rank(S, i) < Rank(S, j)
  BY Ranks
<1>2. \A i, j \in S : Rank(S, i) = Rank(S, j) => i = j
  <2>1. \A i, j \in S : i = j \/ i < j \/ j < i
    OBVIOUS
  <2>2. \A i \in S : Rank(S, i) \in Int
    BY <1>1
  <2> QED
    BY <1>1, <2>1, <2>2
<1>3. f \in Surjection(S, 1..N)
  <2>1. f \in Injection(S, 1..N)
    <3>1. f \in [S -> 1..N]
      BY <1>1
    <3>2. \A i, j \in S : f[i] = f[j] => i = j
      BY <1>2
    <3> HIDE DEF f, N
    <3> QED
      BY <3>1, <3>2 DEF Injection, IsInjective
  <2>2. IsFiniteSet(1..N) /\ Cardinality(1..N) = N
    <3>1. 1 \in Int /\ N \in Int /\ (1 > N => N = 0)
      BY <1>1
    <3> QED
      BY <3>1, FS_Interval
  <2> HIDE DEF f
  <2> QED
    BY <2>1, <2>2, FS_Injection
<1>4. ASSUME NEW k \in 1..N PROVE \E i \in S : Rank(S, i) = k
  <2>1. \E i \in S : f[i] = k
    <3> HIDE DEF f, N
    <3> QED
      BY <1>3 DEF Surjection
  <2> QED
    BY <2>1
<1>5. ASSUME NEW k \in 1..N
      PROVE  Graphs!Nth(S, k) \in S /\ Rank(S, Graphs!Nth(S, k)) = k
  <2>1. \A i \in S : Graphs!Cardinality({j \in S : j <= i}) = Rank(S, i)
    BY GraphCounting DEF Rank
  <2>2. \E i \in S : Graphs!Cardinality({j \in S : j <= i}) = k
    BY <1>4, <2>1
  <2>3. Graphs!Nth(S, k) \in S /\ Graphs!Cardinality({j \in S : j <= Graphs!Nth(S, k)}) = k
    BY <2>2 DEF Graphs!Nth
  <2> QED
    BY <2>1, <2>3
<1>6. \A i \in S : Graphs!Nth(S, Rank(S, i)) = i
  BY <1>1, <1>2, <1>5
<1>7. ASSUME NEW k \in 1..N, NEW l \in 1..N, k < l
      PROVE  Graphs!Nth(S, k) < Graphs!Nth(S, l)
  <2> DEFINE i == Graphs!Nth(S, k)
             j == Graphs!Nth(S, l)
  <2>1. i \in S /\ j \in S /\ Rank(S, i) = k /\ Rank(S, j) = l
    BY <1>5
  <2> HIDE DEF i, j
  <2>2. i < j \/ i = j \/ j < i
    BY <2>1
  <2>3. i < j
    BY <1>1, <1>7, <2>1, <2>2
  <2> QED
    BY <2>3 DEF i, j
<1> QED
  BY <1>5, <1>6, <1>7

\* What Pick takes from a sequence.
LEMMA Picked ==
  ASSUME NEW T, NEW s \in Seq(T), NEW S \in SUBSET DOMAIN s
  PROVE  /\ Graphs!Pick(s, S) \in Seq(T) /\ Len(Graphs!Pick(s, S)) = Cardinality(S)
         /\ IsFiniteSet(S) /\ Cardinality(S) \in 0..Len(s)
         /\ \A k \in 1..Cardinality(S) : /\ Graphs!Pick(s, S)[k] = s[Graphs!Nth(S, k)]
                                         /\ Graphs!Nth(S, k) \in S
         /\ \A i \in S : /\ Rank(S, i) \in 1..Cardinality(S)
                         /\ Graphs!Pick(s, S)[Rank(S, i)] = s[i]
                         /\ Graphs!Nth(S, Rank(S, i)) = i
         /\ \A i, j \in S : i < j => Rank(S, i) < Rank(S, j)
<1> DEFINE N == Cardinality(S)
           p == Graphs!Pick(s, S)
<1>1. Len(s) \in Nat /\ S \in SUBSET (1..Len(s))
  OBVIOUS
<1>2. /\ IsFiniteSet(S) /\ N \in 0..Len(s)
      /\ \A i \in S : Rank(S, i) \in 1..N
      /\ \A i, j \in S : i < j => Rank(S, i) < Rank(S, j)
  BY <1>1, Ranks
<1>3. /\ \A k \in 1..N : Graphs!Nth(S, k) \in S
      /\ \A i \in S : Graphs!Nth(S, Rank(S, i)) = i
  BY <1>1, NthOf
<1>4. p = [k \in 1..N |-> s[Graphs!Nth(S, k)]]
  BY GraphCounting DEF Graphs!Pick
<1>5. N \in Nat
  BY <1>1, <1>2
<1> HIDE DEF N, p
<1>6. \A k \in 1..N : p[k] = s[Graphs!Nth(S, k)] /\ s[Graphs!Nth(S, k)] \in T
  BY <1>3, <1>4
<1>7. p \in Seq(T) /\ Len(p) = N
  BY <1>4, <1>5, <1>6
<1>8. \A i \in S : p[Rank(S, i)] = s[i]
  BY <1>2, <1>3, <1>6
<1> QED
  BY <1>1, <1>2, <1>3, <1>6, <1>7, <1>8 DEF N, p

-----------------------------------------------------------------------------
(* What vendors send                                                        *)

\* The steps from the wallet are whole, and the depth's but for the sign.
LEMMA HopsAreWhole ==
  ASSUME NEW m \in Graphs!Modes, NEW t \in Graphs!Transfer
  PROVE  /\ MaxDepth \in Nat /\ Graphs!Farthest = 2 * MaxDepth
         /\ t.depth \in Int /\ Graphs!Hops(m, t) \in Int
         /\ Graphs!IsTurned(m) => Graphs!Hops(m, t) = -t.depth
         /\ ~Graphs!IsTurned(m) => Graphs!Hops(m, t) = t.depth
         /\ m = 1 => Graphs!Hops(m, t) = t.depth
<1>1. MaxDepth \in Nat /\ Graphs!Farthest = 2 * MaxDepth
  BY ReportsAssumption DEF Graphs!GraphAssumption, Graphs!Farthest
<1>2. t.depth \in Int
  BY <1>1 DEF Graphs!Transfer
<1> QED
  BY <1>1, <1>2 DEF Graphs!Hops, Graphs!IsTurned

\* The next transfer of a vendor leaves what is known of those before as it is.
LEMMA ReceivedMore ==
  ASSUME NEW m \in Graphs!Modes, NEW r \in Seq(Graphs!Transfer), NEW t \in Graphs!Transfer,
         Graphs!Received(m, r), Graphs!Follows(m, r, t)
  PROVE  Graphs!Received(m, Append(r, t))
<1> DEFINE n == Len(r)
           s == Append(r, t)
           Last == IF Graphs!HasSwaps THEN Graphs!Farthest ELSE MaxDepth
<1>1. /\ n \in Nat /\ DOMAIN r = 1..n /\ s \in Seq(Graphs!Transfer) /\ DOMAIN s = 1..(n + 1)
      /\ \A i \in 1..n : s[i] = r[i] /\ i < n + 1 /\ i \in Nat
      /\ s[n + 1] = t
  OBVIOUS
<1> HIDE DEF n, s
<1>2. \A i \in 1..(n + 1) : i \in 1..n \/ i = n + 1
  BY <1>1
<1>3. ASSUME NEW i \in 1..n
      PROVE  \/ s[i].inner = Root /\ Graphs!Hops(m, s[i]) = 1
             \/ \E j \in 1..(i - 1) : Graphs!Continues(m, s[j], s[i])
  <2>1. \/ r[i].inner = Root /\ Graphs!Hops(m, r[i]) = 1
        \/ \E j \in 1..(i - 1) : Graphs!Continues(m, r[j], r[i])
    BY <1>1 DEF Graphs!Received
  <2>2. \A j \in 1..(i - 1) : j \in 1..n
    BY <1>1
  <2> QED
    BY <1>1, <2>1, <2>2
<1>4. /\ Graphs!Hops(m, t) \in 1..Last
      /\ \/ t.inner = Root /\ Graphs!Hops(m, t) = 1
         \/ \E j \in 1..n : Graphs!Continues(m, s[j], t)
  <2>1. Graphs!Hops(m, t) <= Last
    <3>1. Graphs!Hops(m, t) <= IF Graphs!HasSwaps /\ Graphs!HasWayBack(r)
                                 THEN Graphs!Farthest - 1 ELSE MaxDepth
      BY DEF Graphs!Follows
    <3> QED
      BY <3>1, HopsAreWhole
  <2>2. CASE t.inner = Root /\ Graphs!Hops(m, t) = 1
    BY <2>1, <2>2, HopsAreWhole
  <2>3. CASE \E i \in DOMAIN r : Graphs!Continues(m, r[i], t)
    <3>1. PICK i \in 1..n : Graphs!Continues(m, r[i], t)
      BY <1>1, <2>3
    <3>2. r[i] \in Graphs!Transfer /\ Graphs!Hops(m, r[i]) \in 1..Last
      BY <1>1 DEF Graphs!Received
    <3>3. Graphs!Hops(m, t) = Graphs!Hops(m, r[i]) + 1 \/ Graphs!Hops(m, t) = Graphs!Hops(m, r[i])
      BY <3>1, <3>2, HopsAreWhole DEF Graphs!Continues, Graphs!Hops
    <3>4. Graphs!Hops(m, t) >= 1
      BY <3>2, <3>3, HopsAreWhole
    <3> QED
      BY <1>1, <2>1, <3>1, <3>4, HopsAreWhole
  <2> QED
    BY <2>2, <2>3 DEF Graphs!Follows
<1>5. \A i \in 1..(n + 1) :
       /\ Graphs!Hops(m, s[i]) \in 1..Last
       /\ \/ s[i].inner = Root /\ Graphs!Hops(m, s[i]) = 1
          \/ \E j \in 1..(i - 1) : Graphs!Continues(m, s[j], s[i])
  <2>1. \A i \in 1..n : Graphs!Hops(m, s[i]) \in 1..Last
    BY <1>1 DEF Graphs!Received
  <2>2. (n + 1) - 1 = n
    BY <1>1
  <2> QED
    BY <1>1, <1>2, <1>3, <1>4, <2>1, <2>2
<1>6. kind = "ethpath" => \A i, j \in 1..(n + 1) : s[i].hash = s[j].hash => s[i] = s[j]
  <2> SUFFICES ASSUME kind = "ethpath", NEW i \in 1..(n + 1), NEW j \in 1..(n + 1), s[i].hash = s[j].hash
               PROVE  s[i] = s[j]
    OBVIOUS
  <2>1. CASE i \in 1..n /\ j \in 1..n
    BY <1>1, <2>1 DEF Graphs!Received
  <2>2. \A k \in 1..n : s[k].hash = t.hash => s[k] = t
    BY <1>1 DEF Graphs!Follows
  <2> QED
    BY <1>1, <1>2, <2>1, <2>2
<1>7. DOMAIN s = 1..(n + 1)
  BY <1>1
<1> QED
  BY <1>5, <1>6, <1>7 DEF Graphs!Received, s

\* TransactionGraph starts as its invariant says.
LEMMA GraphInit == Graphs!Init => Graphs!IInv
<1> SUFFICES ASSUME Graphs!Init PROVE Graphs!IInv
  OBVIOUS
<1>1. \A m \in Graphs!Modes : result[m] = <<>>
  BY DEF Graphs!Init
<1>2. \A m \in Graphs!Modes : Graphs!Received(m, <<>>)
  BY DEF Graphs!Received
<1>3. \A m \in Graphs!Modes : Graphs!Received(m, result[m])
  BY <1>1, <1>2
<1>4. result \in [Graphs!Modes -> Seq(Graphs!Transfer)] /\ -1 \in Graphs!Modes
  BY DEF Graphs!Init, Graphs!Modes
<1> QED
  BY <1>1, <1>3, <1>4 DEF Graphs!Init, Graphs!IInv

\* Every step of TransactionGraph keeps its invariant.
LEMMA GraphStep == Graphs!IInv /\ [Graphs!Next]_(Graphs!vars) => Graphs!IInv'
<1> SUFFICES ASSUME Graphs!IInv, [Graphs!Next]_(Graphs!vars) PROVE Graphs!IInv'
  OBVIOUS
<1>1. CASE UNCHANGED Graphs!vars
  BY <1>1 DEF Graphs!vars, Graphs!IInv, Graphs!Received, Graphs!Hops, Graphs!IsTurned, Graphs!HasSwaps,
              Graphs!Continues, Graphs!IsPath
<1>2. ASSUME NEW mode \in Graphs!Modes, Graphs!Receive(mode)
      PROVE  Graphs!IInv'
  <2> DEFINE r == result[mode]
  <2>1. kind' = kind /\ (Graphs!IsPath => mode = 1)
    BY <1>2 DEF Graphs!Receive
  <2>2. PICK t \in Graphs!Transfer : /\ Graphs!Follows(mode, r, t)
                                     /\ result' = [result EXCEPT ![mode] = Append(@, t)]
    BY <1>2 DEF Graphs!Receive
  <2>3. /\ r \in Seq(Graphs!Transfer) /\ result \in [Graphs!Modes -> Seq(Graphs!Transfer)]
        /\ \A m \in Graphs!Modes : Graphs!Received(m, result[m])
    BY DEF Graphs!IInv
  <2>4. Graphs!Received(mode, Append(r, t))
    <3>1. Graphs!Received(mode, r)
      BY <2>3
    <3> HIDE DEF r
    <3> QED
      BY <2>2, <2>3, <3>1, ReceivedMore
  <2>5. /\ result' \in [Graphs!Modes -> Seq(Graphs!Transfer)]
        /\ result'[mode] = Append(r, t)
        /\ \A m \in Graphs!Modes \ {mode} : result'[m] = result[m]
    <3>1. Append(r, t) \in Seq(Graphs!Transfer)
      BY <2>2, <2>3
    <3> QED
      BY <2>2, <2>3, <3>1
  <2>6. \A m \in Graphs!Modes : Graphs!Received(m, result'[m])
    <3> HIDE DEF r
    <3> QED
      BY <2>3, <2>4, <2>5
  <2>7. \A m \in Graphs!Modes : Graphs!Received(m, result[m])'
    BY <2>1, <2>6 DEF Graphs!Received, Graphs!Hops, Graphs!IsTurned, Graphs!HasSwaps, Graphs!Continues
  <2>8. (Graphs!IsPath => result[-1] = <<>>)'
    <3>1. -1 \in Graphs!Modes /\ 1 # -1
      BY DEF Graphs!Modes
    <3>2. Graphs!IsPath' <=> Graphs!IsPath
      BY <2>1 DEF Graphs!IsPath
    <3> QED
      BY <2>1, <2>5, <3>1, <3>2 DEF Graphs!IInv
  <2> QED
    BY <2>1, <2>5, <2>7, <2>8 DEF Graphs!IInv
<1> QED
  BY <1>1, <1>2 DEF Graphs!Next

-----------------------------------------------------------------------------
(* Nodes                                                                    *)

\* A list has positions from 1 up, each with a transfer.
LEMMA Listed ==
  ASSUME NEW r \in Seq(Graphs!Transfer)
  PROVE  /\ Len(r) \in Nat /\ DOMAIN r = 1..Len(r) /\ DOMAIN r \in SUBSET Nat
         /\ \A i \in DOMAIN r : /\ r[i] \in Graphs!Transfer /\ i \in Nat /\ i >= 1
                                /\ r[i].outer \in Graphs!Addresses /\ r[i].inner \in Graphs!Addresses
                                /\ \A j \in 1..(i - 1) : j \in DOMAIN r /\ j < i
         /\ r # <<>> => 1 \in DOMAIN r /\ Len(r) >= 1
<1>1. Len(r) \in Nat /\ DOMAIN r = 1..Len(r)
  OBVIOUS
<1>2. \A i \in DOMAIN r : r[i] \in Graphs!Transfer
  OBVIOUS
<1>3. \A t \in Graphs!Transfer : t.outer \in Graphs!Addresses /\ t.inner \in Graphs!Addresses
  BY DEF Graphs!Transfer
<1>4. r # <<>> => Len(r) # 0
  OBVIOUS
<1> QED
  BY <1>1, <1>2, <1>3, <1>4

\* The values of a function on a finite set.
LEMMA FiniteRange ==
  ASSUME NEW S, IsFiniteSet(S), NEW f
  PROVE  IsFiniteSet({f[x] : x \in S})
<1> DEFINE T == {f[x] : x \in S}
           g == [x \in S |-> f[x]]
<1>1. g \in Surjection(S, T)
  BY DEF Surjection
<1> HIDE DEF T, g
<1>2. IsFiniteSet(T)
  BY <1>1, FS_Surjection
<1> QED
  BY <1>2 DEF T

\* Of the positions with something in common one comes first.
LEMMA FirstWith ==
  ASSUME NEW r \in Seq(Graphs!Transfer), NEW S \in SUBSET DOMAIN r, S # {}
  PROVE  \E i \in S : \A j \in 1..(i - 1) : j \in DOMAIN r /\ j \notin S
<1>1. S \in SUBSET Nat
  BY Listed
<1>2. PICK i \in S : \A j \in S : ~(j < i)
  BY <1>1, Smallest
<1>3. \A j \in 1..(i - 1) : j \in DOMAIN r /\ j < i
  BY Listed
<1> QED
  BY <1>2, <1>3

\* Every address but the root's is outer first at one position.
LEMMA SeenFirst ==
  ASSUME NEW r \in Seq(Graphs!Transfer), NEW i \in DOMAIN r, r[i].outer # r[1].inner
  PROVE  \E j \in Graphs!uniqfy(r) : r[j].outer = r[i].outer /\ j <= i
<1> DEFINE S == {j \in DOMAIN r : r[j].outer = r[i].outer}
<1>1. S \in SUBSET DOMAIN r /\ S # {} /\ i \in S
  OBVIOUS
<1>2. PICK j \in S : \A k \in 1..(j - 1) : k \in DOMAIN r /\ k \notin S
  <2> HIDE DEF S
  <2> QED
    BY <1>1, FirstWith
<1>3. j \in DOMAIN r /\ r[j].outer = r[i].outer /\ \A k \in 1..(j - 1) : r[k].outer # r[j].outer
  BY <1>2
<1>4. j \in Nat /\ i \in Nat /\ i >= 1
  BY <1>3, Listed
<1>5. j <= i
  <2> SUFFICES ASSUME i < j PROVE FALSE
    BY <1>4
  <2>1. i \in 1..(j - 1)
    BY <1>4
  <2> QED
    BY <1>3, <2>1
<1> QED
  BY <1>3, <1>5 DEF Graphs!uniqfy

\* What nodes there are: the root, then one for each position of uniqfy.
Numbered(ns, r, mode, level) ==
  LET U == Graphs!uniqfy(r)
      N == Cardinality(U)
  IN  /\ Len(ns) = N + 1 /\ DOMAIN ns = 1..(N + 1)
      /\ ns = [k \in 1..(N + 1) |-> ns[k]]
      /\ ns[1].id = 0 /\ ns[1].address = r[1].inner /\ ns[1].level = 0
      /\ \A k \in 2..(N + 1) :
           /\ k - 1 \in 1..N /\ Graphs!Nth(U, k - 1) \in U
           /\ ns[k].id = mode * (k - 1)
           /\ ns[k].address = r[Graphs!Nth(U, k - 1)].outer
           /\ ns[k].level = level[Graphs!Nth(U, k - 1)]
      /\ \A k \in 1..(N + 1) : ns[k] = [id |-> ns[k].id, address |-> ns[k].address, level |-> ns[k].level]
      /\ \A i \in U : \E k \in 2..(N + 1) : Graphs!Nth(U, k - 1) = i

\* The transfers that get a node are some of the list.
LEMMA Uniques ==
  ASSUME NEW r \in Seq(Graphs!Transfer)
  PROVE  /\ Graphs!uniqfy(r) \in SUBSET DOMAIN r /\ IsFiniteSet(Graphs!uniqfy(r))
         /\ Cardinality(Graphs!uniqfy(r)) \in 0..Len(r) /\ Cardinality(Graphs!uniqfy(r)) \in Nat
<1>1. Graphs!uniqfy(r) \in SUBSET DOMAIN r
  BY DEF Graphs!uniqfy
<1>2. IsFiniteSet(Graphs!uniqfy(r)) /\ Cardinality(Graphs!uniqfy(r)) \in 0..Len(r)
  BY <1>1, Picked
<1> QED
  BY <1>1, <1>2, Listed

\* What assign_nodes and its kind return, element by element.
LEMMA NodesAre ==
  ASSUME NEW r \in Seq(Graphs!Transfer), NEW mode \in Graphs!Modes, NEW level
  PROVE  Numbered(Graphs!Nodes(r, mode, level), r, mode, level)
<1> DEFINE U == Graphs!uniqfy(r)
           N == Cardinality(U)
           Node(k) == [id |-> mode * k, address |-> r[Graphs!Nth(U, k)].outer,
                       level |-> level[Graphs!Nth(U, k)]]
           rest == [k \in 1..N |-> Node(k)]
           root == [id |-> 0, address |-> r[1].inner, level |-> 0]
           ns == Graphs!Nodes(r, mode, level)
<1>1. U \in SUBSET DOMAIN r
  BY DEF Graphs!uniqfy
<1>2. IsFiniteSet(U) /\ N \in 0..Len(r) /\ \A k \in 1..N : Graphs!Nth(U, k) \in U
  <2> HIDE DEF U
  <2> QED
    BY <1>1, Picked
<1>9. \A i \in U : Rank(U, i) \in 1..N /\ Graphs!Nth(U, Rank(U, i)) = i
  <2> HIDE DEF U
  <2> QED
    BY <1>1, Picked
<1>3. ns = <<root>> \o rest
  BY GraphCounting DEF Graphs!Nodes, Graphs!NewNode
<1>4. N \in Nat
  BY <1>2, Listed
<1> HIDE DEF N, Node, root, U
<1>5. <<root>> \o rest = [k \in 1..(N + 1) |-> IF k = 1 THEN root ELSE rest[k - 1]]
  BY <1>4
<1>6. /\ Len(ns) = N + 1 /\ DOMAIN ns = 1..(N + 1) /\ ns[1] = root
      /\ ns = [k \in 1..(N + 1) |-> ns[k]]
  BY <1>3, <1>4, <1>5
<1>7. ASSUME NEW k \in 2..(N + 1) PROVE k - 1 \in 1..N /\ ns[k] = Node(k - 1)
  <2>1. k \in 1..(N + 1) /\ k # 1 /\ k - 1 \in 1..N
    BY <1>4
  <2>2. rest[k - 1] = Node(k - 1)
    BY <2>1
  <2> HIDE DEF rest, ns
  <2>3. ns[k] = rest[k - 1]
    BY <1>3, <1>5, <2>1
  <2> QED
    BY <2>1, <2>2, <2>3
<1>8. ASSUME NEW i \in U PROVE \E k \in 2..(N + 1) : Graphs!Nth(U, k - 1) = i
  <2>1. Rank(U, i) \in 1..N /\ Graphs!Nth(U, Rank(U, i)) = i
    BY <1>1, <1>9
  <2>2. Rank(U, i) + 1 \in 2..(N + 1) /\ (Rank(U, i) + 1) - 1 = Rank(U, i)
    BY <1>4, <2>1
  <2> QED
    BY <2>1, <2>2
<1>10. /\ root.id = 0 /\ root.address = r[1].inner /\ root.level = 0
       /\ root = [id |-> root.id, address |-> root.address, level |-> root.level]
       /\ \A k \in 1..N : /\ Node(k).id = mode * k
                         /\ Node(k).address = r[Graphs!Nth(U, k)].outer
                         /\ Node(k).level = level[Graphs!Nth(U, k)]
                         /\ Node(k) = [id |-> Node(k).id, address |-> Node(k).address, level |-> Node(k).level]
  BY DEF root, Node
<1> HIDE DEF ns
<1>11. \A k \in 1..(N + 1) : k = 1 \/ k \in 2..(N + 1)
  BY <1>4
<1>12. \A k \in 1..(N + 1) : ns[k] = [id |-> ns[k].id, address |-> ns[k].address, level |-> ns[k].level]
  BY <1>6, <1>7, <1>10, <1>11
<1>13. /\ ns[1].id = 0 /\ ns[1].address = r[1].inner /\ ns[1].level = 0
       /\ \A k \in 2..(N + 1) : /\ k - 1 \in 1..N /\ Graphs!Nth(U, k - 1) \in U
                                /\ ns[k].id = mode * (k - 1)
                                /\ ns[k].address = r[Graphs!Nth(U, k - 1)].outer
                                /\ ns[k].level = level[Graphs!Nth(U, k - 1)]
  BY <1>2, <1>6, <1>7, <1>10
<1>14. Len(ns) = N + 1 /\ DOMAIN ns = 1..(N + 1) /\ ns = [k \in 1..(N + 1) |-> ns[k]]
  BY <1>6
<1> QED
  BY <1>8, <1>12, <1>13, <1>14 DEF Numbered, N, U, ns

\* Each address has one node, and the id of it is found.
LEMMA NodesDiffer ==
  ASSUME NEW r \in Seq(Graphs!Transfer), NEW mode \in Graphs!Modes, NEW level
  PROVE  LET ns == Graphs!Nodes(r, mode, level)
         IN  /\ \A k, l \in DOMAIN ns : ns[k].address = ns[l].address => k = l
             /\ \A k, l \in DOMAIN ns : ns[k].id = ns[l].id => k = l
             /\ \A k \in DOMAIN ns : Graphs!IdOf(ns, ns[k].address) = ns[k].id
<1> DEFINE U == Graphs!uniqfy(r)
           N == Cardinality(U)
           ns == Graphs!Nodes(r, mode, level)
           at(k) == Graphs!Nth(U, k - 1)
<1>0. U \in SUBSET DOMAIN r /\ N \in Nat
  BY Uniques
<1>1. /\ DOMAIN ns = 1..(N + 1)
      /\ ns[1].id = 0 /\ ns[1].address = r[1].inner
      /\ \A k \in 2..(N + 1) : /\ k - 1 \in 1..N /\ at(k) \in U
                              /\ ns[k].id = mode * (k - 1) /\ ns[k].address = r[at(k)].outer
  <2>1. Numbered(ns, r, mode, level)
    BY NodesAre
  <2> HIDE DEF ns
  <2> QED
    BY <2>1 DEF Numbered
<1>2. N \in Nat /\ \A i \in U : i \in Nat
  BY <1>0, Listed
<1>3. \A k, l \in 1..N : k < l => Graphs!Nth(U, k) < Graphs!Nth(U, l)
  <2>1. Len(r) \in Nat /\ U \in SUBSET (1..Len(r))
    BY <1>0, Listed
  <2> HIDE DEF U
  <2> QED
    BY <2>1, NthOf
<1>4. \A i, j \in U : i < j => r[i].outer # r[j].outer
  <2>1. \A i, j \in U : i < j => i \in 1..(j - 1)
    <3>1. \A i \in U : i \in Nat /\ i >= 1
      BY <1>0, Listed
    <3> HIDE DEF U
    <3> QED
      BY <3>1
  <2>2. \A j \in U : \A i \in 1..(j - 1) : r[i].outer # r[j].outer
    BY DEF Graphs!uniqfy
  <2> HIDE DEF U
  <2> QED
    BY <2>1, <2>2
<1>5. \A i \in U : r[i].outer # r[1].inner
  BY DEF Graphs!uniqfy
<1> HIDE DEF U, ns
<1>6. \A k \in DOMAIN ns : k # 1 => /\ at(k) \in U /\ k - 1 \in 1..N
                                    /\ ns[k].address = r[at(k)].outer /\ ns[k].id = mode * (k - 1)
  <2>1. \A k \in 1..(N + 1) : k # 1 => k \in 2..(N + 1)
    BY <1>2
  <2> HIDE DEF N, at
  <2> QED
    BY <1>1, <2>1
<1>7. DOMAIN ns = 1..(N + 1)
  BY <1>1
<1> HIDE DEF N
<1>8. ASSUME NEW k \in DOMAIN ns, NEW l \in DOMAIN ns, k < l
      PROVE  ns[k].address # ns[l].address /\ ns[k].id # ns[l].id
  <2>1. k \in Nat /\ l \in Nat /\ k >= 1 /\ l # 1 /\ mode \in {1, -1}
    BY <1>2, <1>7, <1>8 DEF Graphs!Modes
  <2>2. CASE k = 1
    <3>1. ns[k].address = r[1].inner /\ ns[k].id = 0
      BY <1>1, <2>2
    <3>2. ns[l].address # r[1].inner
      BY <1>5, <1>6, <2>1
    <3>3. ns[l].id = mode * (l - 1) /\ mode * (l - 1) # 0
      BY <1>6, <2>1
    <3> QED
      BY <3>1, <3>2, <3>3
  <2>3. CASE k # 1
    <3>1. at(k) \in U /\ at(l) \in U /\ at(k) < at(l)
      <4>1. k - 1 \in 1..N /\ l - 1 \in 1..N /\ k - 1 < l - 1
        BY <1>6, <1>8, <2>1, <2>3
      <4> QED
        BY <1>3, <1>6, <2>1, <2>3, <4>1
    <3>2. ns[k].address # ns[l].address
      BY <1>4, <1>6, <2>1, <2>3, <3>1
    <3>3. ns[k].id = mode * (k - 1) /\ ns[l].id = mode * (l - 1)
      BY <1>6, <2>1, <2>3
    <3>4. mode * (k - 1) # mode * (l - 1)
      BY <1>8, <2>1
    <3> QED
      BY <3>2, <3>3, <3>4
  <2> QED
    BY <2>2, <2>3
<1>9. \A k, l \in DOMAIN ns : k = l \/ k < l \/ l < k
  BY <1>2, <1>7
<1>10. \A k, l \in DOMAIN ns : ns[k].address = ns[l].address => k = l
  BY <1>8, <1>9
<1>11. \A k, l \in DOMAIN ns : ns[k].id = ns[l].id => k = l
  BY <1>8, <1>9
<1>12. ASSUME NEW k \in DOMAIN ns PROVE Graphs!IdOf(ns, ns[k].address) = ns[k].id
  <2> DEFINE c == CHOOSE i \in DOMAIN ns : ns[i].address = ns[k].address
  <2>1. c \in DOMAIN ns /\ ns[c].address = ns[k].address
    OBVIOUS
  <2>2. Graphs!IdOf(ns, ns[k].address) = ns[c].id
    BY DEF Graphs!IdOf
  <2> HIDE DEF c
  <2>3. c = k
    BY <1>10, <2>1
  <2> QED
    BY <2>2, <2>3
<1> QED
  BY <1>10, <1>11, <1>12 DEF ns

\* The addresses of the nodes are those of the first sender and of all that are
\* outer ones.
LEMMA NodesKnown ==
  ASSUME NEW r \in Seq(Graphs!Transfer), r # <<>>, NEW mode \in Graphs!Modes, NEW level
  PROVE  Graphs!Known(Graphs!Nodes(r, mode, level)) = {r[1].inner} \cup {r[i].outer : i \in DOMAIN r}
<1> DEFINE U == Graphs!uniqfy(r)
           N == Cardinality(U)
           ns == Graphs!Nodes(r, mode, level)
<1>0. U \in SUBSET DOMAIN r /\ N \in Nat
  BY Uniques
<1>1. /\ DOMAIN ns = 1..(N + 1)
      /\ ns[1].address = r[1].inner
      /\ \A k \in 2..(N + 1) : Graphs!Nth(U, k - 1) \in U /\ ns[k].address = r[Graphs!Nth(U, k - 1)].outer
      /\ \A i \in U : \E k \in 2..(N + 1) : Graphs!Nth(U, k - 1) = i
  <2>1. Numbered(ns, r, mode, level)
    BY NodesAre
  <2> HIDE DEF ns
  <2> QED
    BY <2>1 DEF Numbered
<1>2. 1 \in DOMAIN ns /\ \A k \in DOMAIN ns : k = 1 \/ k \in 2..(N + 1)
  BY <1>0, <1>1
<1>3. \A i \in DOMAIN r : r[i].outer # r[1].inner => \E j \in U : r[j].outer = r[i].outer
  BY SeenFirst
<1>4. \A k \in 2..(N + 1) : k \in DOMAIN ns
  BY <1>0, <1>1
<1> HIDE DEF U, ns, N
<1>5. ASSUME NEW k \in DOMAIN ns
      PROVE  ns[k].address \in {r[1].inner} \cup {r[i].outer : i \in DOMAIN r}
  <2>1. CASE k = 1
    BY <1>1, <2>1
  <2>2. CASE k # 1
    <3>1. Graphs!Nth(U, k - 1) \in DOMAIN r /\ ns[k].address = r[Graphs!Nth(U, k - 1)].outer
      BY <1>0, <1>1, <1>2, <2>2
    <3> QED
      BY <3>1
  <2> QED
    BY <2>1, <2>2
<1>6. ASSUME NEW i \in DOMAIN r PROVE \E k \in DOMAIN ns : ns[k].address = r[i].outer
  <2>1. CASE r[i].outer = r[1].inner
    BY <1>1, <1>2, <2>1
  <2>2. CASE r[i].outer # r[1].inner
    <3>1. PICK j \in U : r[j].outer = r[i].outer
      BY <1>3, <2>2
    <3>2. \E k \in DOMAIN ns : ns[k].address = r[j].outer
      BY <1>1, <1>4
    <3> QED
      BY <3>1, <3>2
  <2> QED
    BY <2>1, <2>2
<1>7. Graphs!Known(ns) = {ns[k].address : k \in DOMAIN ns}
  BY DEF Graphs!Known
<1>8. \E k \in DOMAIN ns : ns[k].address = r[1].inner
  BY <1>1, <1>2
<1>9. Graphs!Known(ns) = {r[1].inner} \cup {r[i].outer : i \in DOMAIN r}
  <2>1. \A a \in Graphs!Known(ns) : a \in {r[1].inner} \cup {r[i].outer : i \in DOMAIN r}
    BY <1>5, <1>7
  <2>2. \A i \in DOMAIN r : r[i].outer \in Graphs!Known(ns)
    BY <1>6, <1>7
  <2>3. r[1].inner \in Graphs!Known(ns)
    BY <1>7, <1>8
  <2> QED
    BY <2>1, <2>2, <2>3
<1> QED
  BY <1>9 DEF ns

-----------------------------------------------------------------------------
(* What a builder goes through                                              *)

\* The transfers a builder goes through: those of paths without repetitions.
Given(m) == IF Graphs!IsPath THEN Graphs!Distinct(result[m]) ELSE result[m]

\* The positions Distinct keeps.
Kept(r) == {i \in DOMAIN r : \A j \in 1..(i - 1) : r[j].hash # r[i].hash}

\* Each starts at the wallet or where an earlier one has arrived.
Following(r) ==
  \A i \in DOMAIN r : r[i].inner = Root \/ \E j \in 1..(i - 1) : r[i].inner = r[j].outer

\* A list of transfers, all of them of the vendor's; the first starts at the wallet.
Taken(r, s) ==
  /\ r \in Seq(Graphs!Transfer) /\ r # <<>> /\ r[1].inner = Root
  /\ Len(r) \in 1..Len(s)
  /\ \A i \in DOMAIN r : \E j \in DOMAIN s : r[i] = s[j]

\* The first transfer of a vendor starts at the wallet, the others follow.
LEMMA FirstFromRoot ==
  ASSUME NEW m \in Graphs!Modes, NEW s \in Seq(Graphs!Transfer), s # <<>>, Graphs!Received(m, s)
  PROVE  s[1].inner = Root /\ Graphs!Hops(m, s[1]) = 1 /\ Following(s)
<1>1. 1 \in DOMAIN s
  BY Listed
<1>2. 1..(1 - 1) = {}
  OBVIOUS
<1>3. s[1].inner = Root /\ Graphs!Hops(m, s[1]) = 1
  BY <1>1, <1>2 DEF Graphs!Received
<1>4. Following(s)
  BY DEF Graphs!Received, Graphs!Continues, Following
<1> QED
  BY <1>3, <1>4

\* Dropping transfers by their hash keeps the first, and on ETH whatever follows.
LEMMA DistinctTaken ==
  ASSUME NEW m \in Graphs!Modes, NEW s \in Seq(Graphs!Transfer), s # <<>>, Graphs!Received(m, s)
  PROVE  /\ Taken(Graphs!Distinct(s), s)
         /\ kind = "ethpath" => Following(Graphs!Distinct(s))
<1> DEFINE K == Kept(s)
           N == Cardinality(K)
           d == Graphs!Distinct(s)
<1>1. K \in SUBSET DOMAIN s /\ \A i \in K : \A j \in 1..(i - 1) : s[j].hash # s[i].hash
  BY DEF Kept
<1>2. d = Graphs!Pick(s, K)
  BY DEF Graphs!Distinct, Kept
<1>3. 1 \in K
  <2>1. 1 \in DOMAIN s /\ 1..(1 - 1) = {}
    BY Listed
  <2> QED
    BY <2>1 DEF Kept
<1>4. \A i \in DOMAIN s : \E k \in K : k <= i /\ s[k].hash = s[i].hash
  <2> SUFFICES ASSUME NEW i \in DOMAIN s PROVE \E k \in K : k <= i /\ s[k].hash = s[i].hash
    OBVIOUS
  <2> DEFINE S == {j \in DOMAIN s : s[j].hash = s[i].hash}
  <2>1. S \in SUBSET DOMAIN s /\ S # {} /\ i \in S
    OBVIOUS
  <2>2. PICK k \in S : \A j \in 1..(k - 1) : j \in DOMAIN s /\ j \notin S
    <3> HIDE DEF S
    <3> QED
      BY <2>1, FirstWith
  <2>3. k \in DOMAIN s /\ s[k].hash = s[i].hash /\ \A j \in 1..(k - 1) : s[j].hash # s[k].hash
    BY <2>2
  <2>4. k <= i
    <3>1. k \in Nat /\ i \in Nat /\ i >= 1
      BY <2>3, Listed
    <3>2. SUFFICES ASSUME i < k PROVE FALSE
      BY <3>1
    <3>3. i \in 1..(k - 1)
      BY <3>1, <3>2
    <3> QED
      BY <2>3, <3>3
  <2> QED
    BY <2>3, <2>4 DEF Kept
<1> HIDE DEF K, d
<1>5. /\ d \in Seq(Graphs!Transfer) /\ Len(d) = N /\ N \in 0..Len(s)
      /\ \A k \in 1..N : d[k] = s[Graphs!Nth(K, k)] /\ Graphs!Nth(K, k) \in K
      /\ \A i \in K : Rank(K, i) \in 1..N /\ d[Rank(K, i)] = s[i] /\ Graphs!Nth(K, Rank(K, i)) = i
      /\ \A i, j \in K : i < j => Rank(K, i) < Rank(K, j)
  BY <1>1, <1>2, Picked
<1>6. N \in 1..Len(s) /\ DOMAIN d = 1..N
  BY <1>3, <1>5, Listed
<1>7. Graphs!Nth(K, 1) = 1
  <2>1. 1 \in 1..N
    BY <1>5, <1>6, Listed
  <2>2. \A i \in K : i \in Nat /\ i >= 1
    BY <1>1, Listed
  <2>3. Rank(K, 1) \in 1..N /\ Graphs!Nth(K, Rank(K, 1)) = 1
    BY <1>3, <1>5
  <2>4. Graphs!Nth(K, 1) \in K
    BY <1>5, <2>1
  <2>5. Len(s) \in Nat /\ K \in SUBSET (1..Len(s))
    BY <1>1, Listed
  <2>6. Rank(K, Graphs!Nth(K, 1)) = 1
    BY <2>1, <2>5, NthOf
  <2>7. 1 < Graphs!Nth(K, 1) => Rank(K, 1) < Rank(K, Graphs!Nth(K, 1))
    BY <1>3, <1>5, <2>4
  <2>8. ~(1 < Graphs!Nth(K, 1))
    BY <1>6, <2>3, <2>6, <2>7, Listed
  <2> QED
    BY <2>2, <2>4, <2>8
<1>8. d[1].inner = Root
  BY <1>5, <1>6, <1>7, FirstFromRoot, Listed
<1>9. \A i \in DOMAIN d : \E j \in DOMAIN s : d[i] = s[j]
  BY <1>1, <1>5, <1>6
<1>10. Taken(d, s)
  <2>1. d # <<>>
    BY <1>5, <1>6, Listed
  <2> QED
    BY <1>5, <1>6, <1>8, <1>9, <2>1 DEF Taken
<1>11. ASSUME kind = "ethpath", NEW i \in DOMAIN d
       PROVE  d[i].inner = Root \/ \E j \in 1..(i - 1) : d[i].inner = d[j].outer
  <2> DEFINE a == Graphs!Nth(K, i)
  <2>1. i \in 1..N /\ a \in K /\ d[i] = s[a] /\ a \in DOMAIN s
    BY <1>1, <1>5, <1>6
  <2>2. CASE s[a].inner = Root
    BY <2>1, <2>2
  <2>3. CASE s[a].inner # Root
    <3>1. PICK j \in 1..(a - 1) : s[a].inner = s[j].outer
      BY <2>1, <2>3, FirstFromRoot DEF Following
    <3>2. j \in DOMAIN s /\ j < a
      BY <2>1, Listed
    <3>3. PICK k \in K : k <= j /\ s[k].hash = s[j].hash
      BY <1>4, <3>2
    <3>4. s[k] = s[j] /\ k < a
      <4>1. k \in Nat /\ j \in Nat /\ a \in Nat /\ k \in DOMAIN s
        BY <1>1, <2>1, <3>2, Listed
      <4> QED
        BY <1>11, <3>2, <3>3, <4>1 DEF Graphs!Received
    <3>5. Rank(K, k) \in 1..N /\ d[Rank(K, k)] = s[k] /\ Rank(K, k) < Rank(K, a)
      BY <1>5, <2>1, <3>3, <3>4
    <3>6. Rank(K, a) = i
      <4>1. Len(s) \in Nat /\ K \in SUBSET (1..Len(s))
        BY <1>1, Listed
      <4> QED
        BY <2>1, <4>1, NthOf
    <3>7. Rank(K, k) \in 1..(i - 1)
      BY <2>1, <3>5, <3>6
    <3> QED
      BY <2>1, <3>1, <3>4, <3>5, <3>7
  <2> QED
    BY <2>2, <2>3
<1> QED
  BY <1>10, <1>11 DEF d, Following

\* So what a builder goes through starts at the wallet, and follows but on BTC paths.
LEMMA GivenTaken ==
  ASSUME Graphs!IInv, NEW m \in Graphs!Modes, result[m] # <<>>
  PROVE  /\ Taken(Given(m), result[m])
         /\ kind # "btcpath" => Following(Given(m))
         /\ Graphs!IsPath => m = 1
<1>1. /\ result[m] \in Seq(Graphs!Transfer) /\ Graphs!Received(m, result[m])
      /\ kind \in Kinds /\ (Graphs!IsPath => result[-1] = <<>>) /\ m \in {1, -1}
  BY DEF Graphs!IInv, Graphs!Modes
<1>2. CASE Graphs!IsPath
  <2>1. Given(m) = Graphs!Distinct(result[m]) /\ m = 1
    BY <1>1, <1>2 DEF Given
  <2>2. kind # "btcpath" => kind = "ethpath"
    BY <1>2 DEF Graphs!IsPath
  <2> QED
    BY <1>1, <2>1, <2>2, DistinctTaken
<1>3. CASE ~Graphs!IsPath
  <2>1. Given(m) = result[m]
    BY <1>3 DEF Given
  <2>2. result[m][1].inner = Root /\ Following(result[m])
    BY <1>1, FirstFromRoot
  <2>3. Len(result[m]) \in 1..Len(result[m])
    BY <1>1, Listed
  <2> QED
    BY <1>1, <1>3, <2>1, <2>2, <2>3 DEF Taken
<1> QED
  BY <1>2, <1>3

\* No address is looked up in vain.
LEMMA NoLooseEnds ==
  ASSUME NEW r \in Seq(Graphs!Transfer), r # <<>>, r[1].inner = Root
  PROVE  /\ Following(r) => ~Graphs!HasLooseEnds(r)
         /\ ~Graphs!HasLooseEnds(r) =>
              \A i \in DOMAIN r : r[i].inner \in {Root} \cup {r[j].outer : j \in DOMAIN r}
<1>1. \A i \in DOMAIN r : \A j \in 1..(i - 1) : j \in DOMAIN r
  BY Listed
<1>2. Following(r) => ~Graphs!HasLooseEnds(r)
  BY <1>1 DEF Following, Graphs!HasLooseEnds
<1>3. ~Graphs!HasLooseEnds(r) =>
        \A i \in DOMAIN r : r[i].inner \in {Root} \cup {r[j].outer : j \in DOMAIN r}
  BY DEF Graphs!HasLooseEnds
<1> QED
  BY <1>2, <1>3

\* What is built is not of the Lyze API.
LEMMA BuiltKind == \A m \in Graphs!Built : kind # "btc" /\ m \in Graphs!Modes /\ result[m] # <<>>
  BY DEF Graphs!Built, Graphs!Raises

\* No transfer is farther than asked for, but for what follows a swap.
LEMMA NoneBeyond ==
  ASSUME Graphs!IInv, NEW m \in Graphs!Modes, NEW t \in Graphs!Range(result[m])
  PROVE  /\ t \in Graphs!Transfer /\ Graphs!Hops(m, t) \in 1..Graphs!Farthest
         /\ Graphs!Hops(m, t) > MaxDepth => Graphs!HasSwaps
<1>1. PICK i \in DOMAIN result[m] : t = result[m][i]
  BY DEF Graphs!Range
<1>2. t \in Graphs!Transfer /\ Graphs!Hops(m, t) \in 1..(IF Graphs!HasSwaps THEN Graphs!Farthest ELSE MaxDepth)
  BY <1>1, Listed DEF Graphs!IInv, Graphs!Received
<1> QED
  BY <1>2, HopsAreWhole

\* The addresses arrived at are finitely many.
LEMMA FiniteOuters ==
  ASSUME NEW s \in Seq(Graphs!Transfer)
  PROVE  IsFiniteSet({t.outer : t \in Graphs!Range(s)} \ {Root})
<1> DEFINE B == {t.outer : t \in Graphs!Range(s)} \ {Root}
           g == [i \in DOMAIN s |-> s[i].outer]
<1>1. IsFiniteSet(DOMAIN s)
  BY Listed, FS_Interval
<1>2. IsFiniteSet({g[i] : i \in DOMAIN s})
  <2> HIDE DEF g
  <2> QED
    BY <1>1, FiniteRange
<1>3. B \in SUBSET {g[i] : i \in DOMAIN s}
  BY DEF Graphs!Range
<1> HIDE DEF g, B
<1>4. IsFiniteSet(B)
  BY <1>2, <1>3, FS_Subset
<1> QED
  BY <1>4 DEF B

\* There are as many addresses to arrive at as get a node, or more.
LEMMA FewUniques ==
  ASSUME NEW s \in Seq(Graphs!Transfer), NEW r, Taken(r, s)
  PROVE  Cardinality(Graphs!uniqfy(r)) <= Cardinality({t.outer : t \in Graphs!Range(s)} \ {Root})
<1> DEFINE U == Graphs!uniqfy(r)
           A == {s[i].outer : i \in DOMAIN s}
           B == {t.outer : t \in Graphs!Range(s)} \ {Root}
           f == [i \in U |-> r[i].outer]
<1>1. r \in Seq(Graphs!Transfer) /\ r[1].inner = Root /\ \A i \in DOMAIN r : \E j \in DOMAIN s : r[i] = s[j]
  BY DEF Taken
<1>2. IsFiniteSet(B)
  BY FiniteOuters
<1>3. f \in [U -> B]
  <2> SUFFICES ASSUME NEW i \in U PROVE r[i].outer \in B
    OBVIOUS
  <2>1. i \in DOMAIN r /\ r[i].outer # Root
    BY <1>1 DEF Graphs!uniqfy
  <2>2. PICK j \in DOMAIN s : r[i] = s[j]
    BY <1>1, <2>1
  <2> QED
    BY <2>1, <2>2 DEF Graphs!Range
<1>4. \A i, j \in U : f[i] = f[j] => i = j
  <2> SUFFICES ASSUME NEW i \in U, NEW j \in U, r[i].outer = r[j].outer PROVE i = j
    OBVIOUS
  <2>1. i \in DOMAIN r /\ j \in DOMAIN r /\ \A k \in 1..(i - 1) : r[k].outer # r[i].outer
    BY DEF Graphs!uniqfy
  <2>2. \A k \in 1..(j - 1) : r[k].outer # r[j].outer
    BY DEF Graphs!uniqfy
  <2>3. i \in Nat /\ i >= 1 /\ j \in Nat /\ j >= 1
    BY <1>1, <2>1, Listed
  <2>4. ~(i < j) /\ ~(j < i)
    BY <2>1, <2>2, <2>3
  <2> QED
    BY <2>3, <2>4
<1> HIDE DEF f, B
<1>5. f \in Injection(U, B)
  BY <1>3, <1>4 DEF Injection, IsInjective
<1>6. Cardinality(U) <= Cardinality(B)
  BY <1>2, <1>5, FS_Injection
<1> QED
  BY <1>6 DEF B

\* FewAnswersRaise of TransactionGraph.
LEMMA FewRaise == Graphs!IInv => Graphs!FewAnswersRaise
<1> DEFINE B(m) == {t.outer : t \in Graphs!Range(result[m])} \ {Root}
<1> SUFFICES ASSUME Graphs!IInv, NEW m \in Graphs!Modes, result[m] # <<>>, Graphs!Raises(m),
                    kind \notin {"btc", "btcpath"}
             PROVE  /\ Graphs!Cardinality(B(m)) + 1 > Cutoff
                    /\ \/ Graphs!IsTurned(m)
                       \/ \E t \in Graphs!Range(result[m]) : t.depth > MaxDepth /\ Graphs!HasSwaps
                       \/ m = -1 /\ \E t \in Graphs!Range(result[m]) : t.depth = MaxDepth
  BY DEF Graphs!FewAnswersRaise
<1> DEFINE r == Given(m)
<1>1. /\ r \in Seq(Graphs!Transfer) /\ r # <<>> /\ r[1].inner = Root /\ Following(r)
      /\ \A i \in DOMAIN r : \E j \in DOMAIN result[m] : r[i] = result[m][j]
      /\ Graphs!IsPath => m = 1
      /\ Taken(r, result[m])
  BY GivenTaken DEF Taken
<1>2. Graphs!HasLooseEnds(r) \/ Graphs!HasNoRatio(r, m)
  BY DEF Graphs!Raises, Given
<1> HIDE DEF r
<1>3. Graphs!HasNoRatio(r, m)
  BY <1>1, <1>2, NoLooseEnds
<1>4. Graphs!Cardinality(B(m)) + 1 > Cutoff
  <2>1. Cardinality(Graphs!uniqfy(r)) + 1 > Cutoff
    BY <1>3, GraphCounting DEF Graphs!HasNoRatio, Graphs!IsLarge
  <2>2. result[m] \in Seq(Graphs!Transfer)
    BY DEF Graphs!IInv
  <2>3. Cardinality(Graphs!uniqfy(r)) <= Cardinality(B(m))
    BY <1>1, <2>2, FewUniques
  <2>4. Cardinality(Graphs!uniqfy(r)) \in Nat /\ Cutoff \in Nat
    BY <1>1, Uniques, ReportsAssumption DEF Graphs!GraphAssumption
  <2>5. Cardinality(B(m)) \in Nat
    <3>1. IsFiniteSet(B(m))
      BY <2>2, FiniteOuters
    <3> QED
      BY <3>1, FS_CardinalityType
  <2> HIDE DEF B
  <2> QED
    BY <2>1, <2>3, <2>4, <2>5, GraphCounting
<1>5. \A i \in DOMAIN r : /\ r[i] \in Graphs!Range(result[m]) /\ r[i] \in Graphs!Transfer
                          /\ Graphs!Hops(m, r[i]) \in 1..Graphs!Farthest
  <2> SUFFICES ASSUME NEW i \in DOMAIN r
               PROVE  /\ r[i] \in Graphs!Range(result[m]) /\ r[i] \in Graphs!Transfer
                      /\ Graphs!Hops(m, r[i]) \in 1..Graphs!Farthest
    OBVIOUS
  <2>1. PICK j \in DOMAIN result[m] : r[i] = result[m][j]
    BY <1>1
  <2>2. r[i] \in Graphs!Range(result[m])
    BY <2>1 DEF Graphs!Range
  <2> QED
    BY <2>2, NoneBeyond
<1>6. CASE ~Graphs!IsTurned(m)
  <2>1. \A i \in DOMAIN r : r[i].depth \in Int /\ r[i].depth >= 1 /\ MaxDepth \in Nat
    BY <1>5, <1>6, HopsAreWhole
  <2>2. PICK i \in DOMAIN r : Graphs!Shifted(r[i], m) > MaxDepth
    <3>1. \A i \in DOMAIN r : Graphs!Shifted(r[i], m) > 0
      BY <2>1 DEF Graphs!Shifted
    <3>2. \A i \in Graphs!Firsts(r) : i \in DOMAIN r
      BY DEF Graphs!Firsts
    <3>3. \E i \in Graphs!Firsts(r) : Graphs!Shifted(r[i], m) > MaxDepth
      BY <1>3, <3>1, <3>2 DEF Graphs!HasNoRatio
    <3> QED
      BY <3>2, <3>3
  <2>3. CASE r[i].depth <= MaxDepth
    <3>1. m = -1 /\ r[i].depth = MaxDepth
      BY <2>1, <2>2, <2>3 DEF Graphs!Shifted, Graphs!Modes
    <3> QED
      BY <1>4, <1>5, <3>1
  <2>4. CASE r[i].depth > MaxDepth
    <3>1. Graphs!HasSwaps
      BY <1>5, <1>6, <2>4, NoneBeyond, HopsAreWhole
    <3> QED
      BY <1>4, <1>5, <2>4, <3>1
  <2> QED
    BY <2>1, <2>3, <2>4
<1> QED
  BY <1>4, <1>6

-----------------------------------------------------------------------------
(* The graph of one direction, whatever the builder                         *)

\* What a builder makes of the depth of a transfer, and the level of its node.
LevelOf(m, t) == IF m = 1 THEN t.depth ELSE IF Graphs!IsEth THEN -(t.depth + 1) ELSE -t.depth
GivenLevel(m) == [i \in DOMAIN Given(m) |-> LevelOf(m, Given(m)[i])]
GivenNodes(m) == Graphs!Nodes(Given(m), m, GivenLevel(m))
GivenEdges(m) == Graphs!assign_edges(Given(m), GivenNodes(m))

Lossy(m) == Graphs!make_lossy_graph(GivenNodes(m), GivenEdges(m), m)
IsCut(m) == Len(GivenNodes(m)) > Cutoff /\ Lossy(m).edges # {}

Built(g, m) ==
  /\ g.nodes = GivenNodes(m) /\ g.edges = GivenEdges(m) /\ g.counts = Graphs!volume_count(Given(m))
  /\ DOMAIN g.items = DOMAIN Given(m) /\ Len(g.items) = Len(Given(m))
  /\ \A i \in DOMAIN Given(m) :
       /\ g.items[i].amount = Given(m)[i].amount
       /\ g.items[i].outer = Given(m)[i].outer
       /\ g.items[i].depth = GivenLevel(m)[i]
  /\ g.drawnEdges = (IF IsCut(m) THEN Lossy(m).edges ELSE GivenEdges(m))
  /\ g.drawnNodes = (IF IsCut(m)
                     THEN Graphs!Pick(GivenNodes(m),
                                      {i \in DOMAIN GivenNodes(m) : GivenNodes(m)[i].address \in Lossy(m).keys})
                     ELSE GivenNodes(m))

\* Half of a list with these nodes and edges.
LEMMA HalfIs ==
  ASSUME NEW m, NEW g, g = Graphs!Half(Given(m), m, GivenNodes(m), GivenEdges(m))
  PROVE  /\ g.items = Given(m) /\ g.nodes = GivenNodes(m) /\ g.edges = GivenEdges(m)
         /\ g.counts = Graphs!volume_count(Given(m))
         /\ g.drawnEdges = (IF IsCut(m) THEN Lossy(m).edges ELSE GivenEdges(m))
         /\ g.drawnNodes = (IF IsCut(m)
                     THEN Graphs!Pick(GivenNodes(m),
                                      {i \in DOMAIN GivenNodes(m) : GivenNodes(m)[i].address \in Lossy(m).keys})
                     ELSE GivenNodes(m))
  BY DEF Graphs!Half, IsCut, Lossy

\* The same transfers with other depths.
LEMMA ShiftedItems ==
  ASSUME NEW r \in Seq(Graphs!Transfer), NEW m, NEW d \in DOMAIN r
  PROVE  /\ Graphs!depth_shift_for_source(r)[d].amount = r[d].amount
         /\ Graphs!depth_shift_for_source(r)[d].outer = r[d].outer
         /\ Graphs!depth_shift_for_source(r)[d].depth = -(r[d].depth + 1)
         /\ Graphs!reverse_source_depth(r)[d].amount = r[d].amount
         /\ Graphs!reverse_source_depth(r)[d].outer = r[d].outer
         /\ Graphs!reverse_source_depth(r)[d].depth = -r[d].depth
         /\ Graphs!depth_shift_btc(r, m)[d].amount = r[d].amount
         /\ Graphs!depth_shift_btc(r, m)[d].outer = r[d].outer
         /\ Graphs!depth_shift_btc(r, m)[d].depth = r[d].depth * m
<1>1. PICK t \in Graphs!Transfer : t = r[d]
  BY Listed
<1>2. /\ Graphs!depth_shift_for_source(r)[d] = [t EXCEPT !.depth = -(t.depth + 1)]
      /\ Graphs!reverse_source_depth(r)[d] = [t EXCEPT !.depth = -t.depth]
      /\ Graphs!depth_shift_btc(r, m)[d] = [t EXCEPT !.depth = t.depth * m]
  BY <1>1 DEF Graphs!depth_shift_for_source, Graphs!reverse_source_depth, Graphs!depth_shift_btc
<1> QED
  BY <1>1, <1>2 DEF Graphs!Transfer

\* Shifting depths adds and drops nothing.
LEMMA ShiftedDomains ==
  ASSUME NEW r \in Seq(Graphs!Transfer), NEW m
  PROVE  /\ DOMAIN Graphs!depth_shift_for_source(r) = DOMAIN r
         /\ Len(Graphs!depth_shift_for_source(r)) = Len(r)
         /\ DOMAIN Graphs!reverse_source_depth(r) = DOMAIN r
         /\ Len(Graphs!reverse_source_depth(r)) = Len(r)
         /\ DOMAIN Graphs!depth_shift_btc(r, m) = DOMAIN r
         /\ Len(Graphs!depth_shift_btc(r, m)) = Len(r)
<1>1. /\ DOMAIN Graphs!depth_shift_for_source(r) = DOMAIN r
      /\ DOMAIN Graphs!reverse_source_depth(r) = DOMAIN r
      /\ DOMAIN Graphs!depth_shift_btc(r, m) = DOMAIN r
  BY DEF Graphs!depth_shift_for_source, Graphs!reverse_source_depth, Graphs!depth_shift_btc
<1>2. Len(r) \in Nat /\ DOMAIN r = 1..Len(r)
  BY Listed
<1> QED
  BY <1>1, <1>2

\* Each of the builders does what Built says.
LEMMA GraphIs ==
  ASSUME Graphs!IInv, NEW m \in Graphs!Modes, result[m] # <<>>, kind # "btc"
  PROVE  Built(Graphs!Graph(m), m)
<1> DEFINE r == Given(m)
           g == Graphs!Graph(m)
<1>1. /\ r \in Seq(Graphs!Transfer) /\ m \in {1, -1} /\ (Graphs!IsPath => m = 1)
      /\ kind \in {"eth", "other", "ethtracer", "tracer", "coinpath", "ethpath", "btcpath"}
      /\ (Graphs!IsEth <=> kind \in {"eth", "ethtracer"})
  BY GivenTaken, ReportsAssumption
  DEF Taken, Graphs!Modes, Graphs!IInv, Graphs!GraphAssumption, Graphs!IsEth
<1>2. \A i \in DOMAIN r : r[i].depth \in Int
  BY <1>1, Listed, HopsAreWhole
<1>3. ~Graphs!IsPath => r = result[m]
  BY DEF Given
<1>4. Graphs!IsPath => r = Graphs!Distinct(result[m]) /\ m = 1
  BY <1>1 DEF Given
<1>5. \A level : level = GivenLevel(m) => Graphs!Nodes(r, m, level) = GivenNodes(m)
  BY DEF GivenNodes
<1>6. GivenLevel(m) = [i \in DOMAIN r |-> LevelOf(m, r[i])]
  BY DEF GivenLevel
<1>7. Len(r) \in Nat /\ DOMAIN r = 1..Len(r)
  BY <1>1, Listed
<1> HIDE DEF r
<1>8. CASE kind \in {"eth", "other", "ethtracer", "tracer"}
  <2> DEFINE level == [i \in DOMAIN r |-> CASE m = 1                   -> r[i].depth
                                            [] m = -1 /\ Graphs!IsEth -> -(r[i].depth + 1)
                                            [] OTHER                   -> -(r[i].depth + 1) + 1]
             h == Graphs!Half(r, m, GivenNodes(m), GivenEdges(m))
  <2>1. \A i \in DOMAIN r : level[i] = LevelOf(m, r[i])
    <3> SUFFICES ASSUME NEW i \in DOMAIN r PROVE level[i] = LevelOf(m, r[i])
      OBVIOUS
    <3>2. r[i].depth \in Int
      BY <1>2
    <3>3. CASE m = 1
      BY <3>3 DEF LevelOf
    <3>4. CASE m = -1 /\ Graphs!IsEth
      BY <3>4 DEF LevelOf
    <3>5. CASE m = -1 /\ ~Graphs!IsEth
      <4>1. level[i] = -(r[i].depth + 1) + 1
        BY <3>5
      <4> QED
        BY <3>2, <3>5, <4>1 DEF LevelOf
    <3> QED
      BY <1>1, <3>3, <3>4, <3>5
  <2>2. level = GivenLevel(m)
    BY <1>6, <2>1
  <2>3. Graphs!assign_nodes(r, m) = GivenNodes(m)
    BY <1>5, <2>2 DEF Graphs!assign_nodes
  <2>4. GivenEdges(m) = Graphs!assign_edges(r, GivenNodes(m))
    BY <1>8 DEF GivenEdges, r
  <2>5. r = result[m] /\ ~Graphs!IsPath
    BY <1>3, <1>8 DEF Graphs!IsPath
  <2>6. g = IF m = 1 THEN h
            ELSE [h EXCEPT !.items = IF Graphs!IsEth THEN Graphs!depth_shift_for_source(r)
                                     ELSE Graphs!reverse_source_depth(r)]
    <3>1. Graphs!IsEth \/ kind \in {"other", "tracer"}
      BY <1>8 DEF Graphs!IsEth
    <3>2. g = Graphs!generate_nodes_edges(result[m], m)
      BY <1>8, <3>1 DEF Graphs!Graph, Graphs!IsEth
    <3> QED
      BY <2>3, <2>4, <2>5, <3>2, Zenon DEF Graphs!generate_nodes_edges
  <2>7. /\ h.items = r /\ h.nodes = GivenNodes(m) /\ h.edges = GivenEdges(m)
        /\ h.counts = Graphs!volume_count(r)
        /\ h.drawnEdges = (IF IsCut(m) THEN Lossy(m).edges ELSE GivenEdges(m))
        /\ h.drawnNodes = (IF IsCut(m)
                     THEN Graphs!Pick(GivenNodes(m),
                                      {i \in DOMAIN GivenNodes(m) : GivenNodes(m)[i].address \in Lossy(m).keys})
                     ELSE GivenNodes(m))
    BY <1>8, HalfIs DEF r
  <2>8. DOMAIN h = {"items", "nodes", "edges", "counts", "drawnEdges", "drawnNodes"}
    BY DEF Graphs!Half
  <2> HIDE DEF h, g
  <2>9. /\ g.nodes = h.nodes /\ g.edges = h.edges /\ g.counts = h.counts
        /\ g.drawnEdges = h.drawnEdges /\ g.drawnNodes = h.drawnNodes
    BY <2>6, <2>8
  <2>10. g.items = IF m = 1 THEN r ELSE IF Graphs!IsEth THEN Graphs!depth_shift_for_source(r)
                                        ELSE Graphs!reverse_source_depth(r)
    BY <2>6, <2>7, <2>8
  <2>11. /\ DOMAIN g.items = DOMAIN r /\ Len(g.items) = Len(r)
         /\ \A i \in DOMAIN r : /\ g.items[i].amount = r[i].amount
                                /\ g.items[i].outer = r[i].outer
                                /\ g.items[i].depth = GivenLevel(m)[i]
    <3>2. CASE m = 1
      <4>1. g.items = r
        BY <2>10, <3>2
      <4>2. \A i \in DOMAIN r : level[i] = r[i].depth
        BY <3>2
      <4> HIDE DEF level
      <4> QED
        BY <2>2, <4>1, <4>2
    <3>3. CASE m # 1 /\ Graphs!IsEth
      <4>1. g.items = Graphs!depth_shift_for_source(r)
        BY <2>10, <3>3
      <4>2. \A i \in DOMAIN r : level[i] = -(r[i].depth + 1)
        BY <1>1, <3>3
      <4> HIDE DEF level
      <4> QED
        BY <1>1, <2>2, <4>1, <4>2, ShiftedItems, ShiftedDomains
    <3>4. CASE m # 1 /\ ~Graphs!IsEth
      <4>1. g.items = Graphs!reverse_source_depth(r)
        BY <2>10, <3>4
      <4>2. \A i \in DOMAIN r : level[i] = -(r[i].depth + 1) + 1
        BY <1>1, <3>4
      <4>3. \A i \in DOMAIN r : level[i] = -r[i].depth
        BY <1>2, <4>2
      <4> HIDE DEF level
      <4> QED
        BY <1>1, <2>2, <4>1, <4>3, ShiftedItems, ShiftedDomains
    <3> QED
      BY <3>2, <3>3, <3>4
  <2> QED
    BY <2>7, <2>9, <2>11 DEF Built, r, g
<1>9. CASE kind = "coinpath"
  <2> DEFINE level == [i \in DOMAIN r |-> r[i].depth * m]
             h == Graphs!Half(r, m, GivenNodes(m), GivenEdges(m))
  <2>1. \A i \in DOMAIN r : level[i] = LevelOf(m, r[i])
    <3>1. ~Graphs!IsEth
      BY <1>9 DEF Graphs!IsEth
    <3> QED
      BY <1>1, <1>2, <3>1 DEF LevelOf
  <2>2. level = GivenLevel(m)
    BY <1>6, <2>1
  <2>3. Graphs!assign_nodes_btc_coinpath(r, m) = GivenNodes(m)
    BY <1>5, <2>2 DEF Graphs!assign_nodes_btc_coinpath
  <2>4. GivenEdges(m) = Graphs!assign_edges(r, GivenNodes(m))
    BY <1>9 DEF GivenEdges, r
  <2>5. r = result[m]
    BY <1>3, <1>9 DEF Graphs!IsPath
  <2>6. g = IF m = 1 THEN h ELSE [h EXCEPT !.items = Graphs!depth_shift_btc(r, m)]
    BY <1>9, <2>3, <2>4, <2>5, Zenon DEF Graphs!Graph, Graphs!IsEth, Graphs!generate_nodes_edges_coinpath
  <2>7. /\ h.items = r /\ h.nodes = GivenNodes(m) /\ h.edges = GivenEdges(m)
        /\ h.counts = Graphs!volume_count(r)
        /\ h.drawnEdges = (IF IsCut(m) THEN Lossy(m).edges ELSE GivenEdges(m))
        /\ h.drawnNodes = (IF IsCut(m)
                     THEN Graphs!Pick(GivenNodes(m),
                                      {i \in DOMAIN GivenNodes(m) : GivenNodes(m)[i].address \in Lossy(m).keys})
                     ELSE GivenNodes(m))
    BY <1>9, HalfIs DEF r
  <2>8. DOMAIN h = {"items", "nodes", "edges", "counts", "drawnEdges", "drawnNodes"}
    BY DEF Graphs!Half
  <2> HIDE DEF h, g
  <2>9. /\ g.nodes = h.nodes /\ g.edges = h.edges /\ g.counts = h.counts
        /\ g.drawnEdges = h.drawnEdges /\ g.drawnNodes = h.drawnNodes
        /\ g.items = IF m = 1 THEN r ELSE Graphs!depth_shift_btc(r, m)
    BY <2>6, <2>7, <2>8
  <2>10. /\ DOMAIN g.items = DOMAIN r /\ Len(g.items) = Len(r)
         /\ \A i \in DOMAIN r : /\ g.items[i].amount = r[i].amount
                                /\ g.items[i].outer = r[i].outer
                                /\ g.items[i].depth = GivenLevel(m)[i]
    <3>2. CASE m = 1
      BY <1>2, <2>2, <2>9, <3>2
    <3>3. CASE m # 1
      <4>1. g.items = Graphs!depth_shift_btc(r, m)
        BY <2>9, <3>3
      <4>2. \A i \in DOMAIN r : level[i] = r[i].depth * m
        OBVIOUS
      <4> HIDE DEF level
      <4> QED
        BY <1>1, <2>2, <4>1, <4>2, ShiftedItems, ShiftedDomains
    <3> QED
      BY <3>2, <3>3
  <2> QED
    BY <2>7, <2>9, <2>10 DEF Built, r, g
<1>10. CASE kind = "ethpath" \/ kind = "btcpath"
  <2> DEFINE level == [i \in DOMAIN r |-> r[i].depth]
  <2>1. Graphs!IsPath /\ m = 1
    BY <1>1, <1>10 DEF Graphs!IsPath
  <2>2. \A i \in DOMAIN r : level[i] = LevelOf(m, r[i])
    BY <2>1 DEF LevelOf
  <2>3. level = GivenLevel(m)
    BY <1>6, <2>2
  <2>4. Graphs!Nodes(r, 1, level) = GivenNodes(m)
    BY <1>5, <2>1, <2>3
  <2>5. Graphs!assign_nodes(r, 1) = GivenNodes(m) /\ Graphs!assign_nodes_btc_path(r, 1) = GivenNodes(m)
    <3>1. level = [i \in DOMAIN r |-> CASE 1 = 1                   -> r[i].depth
                                        [] 1 = -1 /\ Graphs!IsEth -> -(r[i].depth + 1)
                                        [] OTHER                   -> -(r[i].depth + 1) + 1]
      <4>1. \A i \in DOMAIN r : (CASE 1 = 1                   -> r[i].depth
                                        [] 1 = -1 /\ Graphs!IsEth -> -(r[i].depth + 1)
                                        [] OTHER                   -> -(r[i].depth + 1) + 1) = r[i].depth
        BY <1>10
      <4> QED
        BY <4>1
    <3>2. level = [i \in DOMAIN r |-> IF 1 = 1 THEN r[i].depth ELSE -(r[i].depth + 1)]
      OBVIOUS
    <3> HIDE DEF level
    <3>3. Graphs!assign_nodes(r, 1) = GivenNodes(m)
      BY <2>4, <3>1, Zenon DEF Graphs!assign_nodes
    <3>4. Graphs!assign_nodes_btc_path(r, 1) = GivenNodes(m)
      BY <2>4, <3>2, Zenon DEF Graphs!assign_nodes_btc_path
    <3> QED
      BY <3>3, <3>4
  <2>6. GivenEdges(m) = Graphs!assign_edges(r, GivenNodes(m))
    BY <1>10 DEF GivenEdges, r
  <2>7. r = Graphs!Distinct(result[m])
    BY <1>4, <2>1
  <2>8. g = Graphs!Half(r, m, GivenNodes(m), GivenEdges(m))
    <3>1. CASE kind = "ethpath"
      <4>1. g = Graphs!generate_nodes_edges_ethcoinpath(result[m])
        BY <3>1 DEF Graphs!Graph, Graphs!IsEth
      <4> QED
        BY <2>1, <2>5, <2>6, <2>7, <4>1, Zenon DEF Graphs!generate_nodes_edges_ethcoinpath
    <3>2. CASE kind = "btcpath"
      <4>1. g = Graphs!generate_nodes_edges_btccoinpath(result[m])
        BY <3>2 DEF Graphs!Graph, Graphs!IsEth
      <4> QED
        BY <2>1, <2>5, <2>6, <2>7, <4>1, Zenon DEF Graphs!generate_nodes_edges_btccoinpath
    <3> QED
      BY <1>10, <3>1, <3>2
  <2> HIDE DEF g
  <2>9. /\ g.items = r /\ g.nodes = GivenNodes(m) /\ g.edges = GivenEdges(m)
        /\ g.counts = Graphs!volume_count(r)
        /\ g.drawnEdges = (IF IsCut(m) THEN Lossy(m).edges ELSE GivenEdges(m))
        /\ g.drawnNodes = (IF IsCut(m)
                     THEN Graphs!Pick(GivenNodes(m),
                                      {i \in DOMAIN GivenNodes(m) : GivenNodes(m)[i].address \in Lossy(m).keys})
                     ELSE GivenNodes(m))
    BY <1>10, <2>8, HalfIs DEF r
  <2> QED
    BY <2>1, <2>2, <2>3, <2>9 DEF Built, r, g
<1> QED
  BY <1>1, <1>8, <1>9, <1>10

-----------------------------------------------------------------------------
(* Levels and types                                                         *)

\* What a builder goes through has the vendor's bounds, and so have its levels.
LEMMA GivenDepths ==
  ASSUME Graphs!IInv, NEW m \in Graphs!Modes, result[m] # <<>>, NEW i \in DOMAIN Given(m)
  PROVE  /\ MaxDepth \in Nat /\ Graphs!Farthest \in Nat
         /\ Given(m)[i] \in Graphs!Transfer /\ Given(m)[i].depth \in Int
         /\ Graphs!Hops(m, Given(m)[i]) \in 1..Graphs!Farthest
         /\ GivenLevel(m)[i] \in (-Graphs!Farthest - 1)..Graphs!Farthest
<1>1. PICK j \in DOMAIN result[m] : Given(m)[i] = result[m][j]
  BY GivenTaken DEF Taken
<1>2. Given(m)[i] \in Graphs!Range(result[m])
  BY <1>1 DEF Graphs!Range
<1> DEFINE t == Given(m)[i]
<1>3. /\ t \in Graphs!Transfer /\ t.depth \in Int
      /\ Graphs!Hops(m, t) \in 1..Graphs!Farthest
      /\ MaxDepth \in Nat /\ Graphs!Farthest = 2 * MaxDepth /\ Graphs!Farthest \in Nat
      /\ (Graphs!Hops(m, t) = t.depth \/ Graphs!Hops(m, t) = -t.depth)
      /\ (m = 1 => Graphs!Hops(m, t) = t.depth)
  <2> HIDE DEF t
  <2>1. t \in Graphs!Transfer /\ Graphs!Hops(m, t) \in 1..Graphs!Farthest
    BY <1>2, NoneBeyond DEF t
  <2> QED
    BY <2>1, HopsAreWhole
<1>4. GivenLevel(m)[i] = LevelOf(m, t)
  BY DEF GivenLevel
<1> HIDE DEF t
<1>5. LevelOf(m, t) \in (-Graphs!Farthest - 1)..Graphs!Farthest
  BY <1>3 DEF LevelOf
<1> QED
  BY <1>3, <1>4, <1>5 DEF t

\* What is known of the nodes of a builder.
NodesOf(ns, m) ==
  /\ DOMAIN ns = 1..Len(ns) /\ Len(ns) = Cardinality(Graphs!uniqfy(Given(m))) + 1
  /\ Len(ns) \in 1..(Len(result[m]) + 1) /\ Len(ns) \in Nat
  /\ ns[1].id = 0 /\ ns[1].address = Root /\ ns[1].level = 0
  /\ \A n \in DOMAIN ns : /\ n # 1 => LET i == Graphs!Nth(Graphs!uniqfy(Given(m)), n - 1) IN
                               /\ i \in Graphs!uniqfy(Given(m)) /\ ns[n].address = Given(m)[i].outer
                               /\ ns[n].level = GivenLevel(m)[i] /\ ns[n].id = m * (n - 1)
                         /\ ns[n] = [id |-> ns[n].id, address |-> ns[n].address, level |-> ns[n].level]
  /\ \A k, l \in DOMAIN ns : ns[k].address = ns[l].address => k = l
  /\ \A k, l \in DOMAIN ns : ns[k].id = ns[l].id => k = l
  /\ \A k \in DOMAIN ns : Graphs!IdOf(ns, ns[k].address) = ns[k].id
  /\ Graphs!Known(ns) = {Root} \cup {Given(m)[i].outer : i \in DOMAIN Given(m)}

\* The nodes of a builder are those of NodesOf.
LEMMA GivenNodesAre ==
  ASSUME Graphs!IInv, NEW m \in Graphs!Modes, result[m] # <<>>
  PROVE  NodesOf(GivenNodes(m), m)
<1> DEFINE r == Given(m)
           ns == GivenNodes(m)
           U == Graphs!uniqfy(r)
           N == Cardinality(U)
<1>1. /\ r \in Seq(Graphs!Transfer) /\ r # <<>> /\ r[1].inner = Root /\ Len(r) \in 1..Len(result[m])
      /\ result[m] \in Seq(Graphs!Transfer)
  BY GivenTaken DEF Taken, Graphs!IInv
<1> HIDE DEF r
<1>2. ns = Graphs!Nodes(r, m, GivenLevel(m))
  BY DEF GivenNodes, r
<1>3. N \in 0..Len(r) /\ N \in Nat /\ Len(r) \in Nat /\ Len(result[m]) \in Nat
  BY <1>1, Uniques, Listed
<1>4. Numbered(ns, r, m, GivenLevel(m))
  BY <1>1, <1>2, NodesAre
<1>5. /\ \A k, l \in DOMAIN ns : ns[k].address = ns[l].address => k = l
      /\ \A k, l \in DOMAIN ns : ns[k].id = ns[l].id => k = l
      /\ \A k \in DOMAIN ns : Graphs!IdOf(ns, ns[k].address) = ns[k].id
  BY <1>1, <1>2, NodesDiffer
<1>6. Graphs!Known(ns) = {Root} \cup {r[i].outer : i \in DOMAIN r}
  BY <1>1, <1>2, NodesKnown
<1> HIDE DEF ns
<1>7. /\ Len(ns) = N + 1 /\ DOMAIN ns = 1..(N + 1)
      /\ ns[1].id = 0 /\ ns[1].address = r[1].inner /\ ns[1].level = 0
      /\ \A k \in 2..(N + 1) : /\ Graphs!Nth(U, k - 1) \in U
                              /\ ns[k].id = m * (k - 1)
                              /\ ns[k].address = r[Graphs!Nth(U, k - 1)].outer
                              /\ ns[k].level = GivenLevel(m)[Graphs!Nth(U, k - 1)]
      /\ \A k \in 1..(N + 1) : ns[k] = [id |-> ns[k].id, address |-> ns[k].address, level |-> ns[k].level]
  BY <1>4 DEF Numbered
<1>8. \A k \in 1..(N + 1) : k # 1 => k \in 2..(N + 1)
  BY <1>3
<1>9. /\ DOMAIN ns = 1..Len(ns) /\ Len(ns) = N + 1 /\ Len(ns) \in 1..(Len(result[m]) + 1) /\ Len(ns) \in Nat
      /\ ns[1].id = 0 /\ ns[1].address = Root /\ ns[1].level = 0
  BY <1>1, <1>3, <1>7
<1> HIDE DEF N, U
<1>10. \A n \in DOMAIN ns : /\ n # 1 => /\ Graphs!Nth(U, n - 1) \in U
                                        /\ ns[n].address = r[Graphs!Nth(U, n - 1)].outer
                                        /\ ns[n].level = GivenLevel(m)[Graphs!Nth(U, n - 1)]
                                        /\ ns[n].id = m * (n - 1)
                            /\ ns[n] = [id |-> ns[n].id, address |-> ns[n].address, level |-> ns[n].level]
  BY <1>7, <1>8
<1>11. NodesOf(ns, m)
  BY <1>5, <1>6, <1>9, <1>10 DEF NodesOf, N, U, r
<1> QED
  BY <1>11 DEF ns

\* LevelsMatchItems and LevelsAreHops of TransactionGraph.
LEMMA LevelsHops ==
  ASSUME Graphs!IInv, NEW m \in Graphs!Built
  PROVE  Graphs!LevelsMatchItems(Graphs!Graph(m)) /\ Graphs!LevelsAreHops(m, Graphs!Graph(m))
<1> DEFINE g == Graphs!Graph(m)
           ns == GivenNodes(m)
           U == Graphs!uniqfy(Given(m))
<1>m. kind # "btc" /\ m \in Graphs!Modes /\ result[m] # <<>>
  BY BuiltKind
<1>1. /\ g.nodes = ns /\ DOMAIN g.items = DOMAIN Given(m)
      /\ \A i \in DOMAIN Given(m) : g.items[i].depth = GivenLevel(m)[i] /\ g.items[i].outer = Given(m)[i].outer
  BY <1>m, GraphIs DEF Built
<1>2. NodesOf(ns, m)
  BY <1>m, GivenNodesAre
<1>r. Given(m) \in Seq(Graphs!Transfer)
  BY <1>m, GivenTaken DEF Taken
<1> HIDE DEF g, ns
<1>3. ASSUME NEW n \in DOMAIN ns, ns[n].address = Root
      PROVE  ns[n].level = 0
  <2>1. 1 \in DOMAIN ns /\ ns[1].address = Root /\ ns[1].level = 0
    BY <1>2 DEF NodesOf
  <2>2. n = 1
    BY <1>2, <1>3, <2>1 DEF NodesOf
  <2> QED
    BY <2>1, <2>2
<1>4. ASSUME NEW n \in DOMAIN ns, ns[n].address # Root
      PROVE  \E i \in DOMAIN Given(m) :
               /\ ns[n].address = Given(m)[i].outer /\ ns[n].level = GivenLevel(m)[i]
               /\ \A j \in 1..(i - 1) : j \in DOMAIN Given(m) /\ Given(m)[j].outer # Given(m)[i].outer
  <2> DEFINE i == Graphs!Nth(U, n - 1)
  <2>1. n # 1
    BY <1>2, <1>4 DEF NodesOf
  <2>2. i \in U /\ ns[n].address = Given(m)[i].outer /\ ns[n].level = GivenLevel(m)[i]
    BY <1>2, <2>1 DEF NodesOf
  <2>3. i \in DOMAIN Given(m) /\ \A j \in 1..(i - 1) : Given(m)[j].outer # Given(m)[i].outer
    BY <2>2 DEF Graphs!uniqfy
  <2> HIDE DEF i
  <2>4. \A j \in 1..(i - 1) : j \in DOMAIN Given(m)
    BY <1>r, <2>3, Listed
  <2> QED
    BY <2>2, <2>3, <2>4
<1>5. Graphs!LevelsMatchItems(g)
  <2> SUFFICES ASSUME NEW n \in DOMAIN ns, ns[n].address # Root
               PROVE  \E i \in DOMAIN g.items :
                        /\ g.items[i].outer = ns[n].address /\ g.items[i].depth = ns[n].level
                        /\ \A j \in 1..(i - 1) : g.items[j].outer # ns[n].address
    BY <1>1, <1>3 DEF Graphs!LevelsMatchItems
  <2>1. PICK i \in DOMAIN Given(m) :
               /\ ns[n].address = Given(m)[i].outer /\ ns[n].level = GivenLevel(m)[i]
               /\ \A j \in 1..(i - 1) : j \in DOMAIN Given(m) /\ Given(m)[j].outer # Given(m)[i].outer
    BY <1>4
  <2> QED
    BY <1>1, <2>1
<1>6. ASSUME m = 1 \/ kind \in {"other", "coinpath"}, ~Graphs!IsPath,
             \A i, j \in DOMAIN result[m] : i <= j => result[m][i].depth <= result[m][j].depth,
             NEW n \in DOMAIN ns, ns[n].address # Root
      PROVE  ns[n].level =
               m * Graphs!Min({t.depth : t \in {u \in Graphs!Range(result[m]) : u.outer = ns[n].address}})
  <2> DEFINE same == {u \in Graphs!Range(result[m]) : u.outer = ns[n].address}
             H == {t.depth : t \in same}
  <2>1. Given(m) = result[m]
    BY <1>6 DEF Given
  <2>2. PICK i \in DOMAIN result[m] :
               /\ ns[n].address = result[m][i].outer /\ ns[n].level = GivenLevel(m)[i]
               /\ \A j \in 1..(i - 1) : result[m][j].outer # result[m][i].outer
    BY <1>4, <1>6, <2>1
  <2>3. \A j \in DOMAIN result[m] : result[m][j].depth \in Int
    BY <1>m, <2>1, GivenDepths
  <2>4. GivenLevel(m)[i] = LevelOf(m, result[m][i])
    BY <2>1 DEF GivenLevel
  <2>5. LevelOf(m, result[m][i]) = m * result[m][i].depth
    <3>1. m = 1 \/ (m = -1 /\ ~Graphs!IsEth)
      BY <1>m, <1>6 DEF Graphs!Modes, Graphs!IsEth
    <3> QED
      BY <2>3, <3>1 DEF LevelOf
  <2>6. \A j \in DOMAIN result[m] : result[m][j].outer = ns[n].address => result[m][i].depth <= result[m][j].depth
    <3> SUFFICES ASSUME NEW j \in DOMAIN result[m], result[m][j].outer = ns[n].address
                 PROVE  result[m][i].depth <= result[m][j].depth
      OBVIOUS
    <3>1. i \in Nat /\ i >= 1 /\ j \in Nat /\ j >= 1
      BY <1>r, <2>1, Listed
    <3>2. ~(j < i)
      BY <2>2, <3>1
    <3> QED
      BY <1>6, <3>1, <3>2
  <2>7. result[m][i] \in same /\ \A t \in same : result[m][i].depth <= t.depth /\ t.depth \in Int
    BY <2>2, <2>3, <2>6 DEF Graphs!Range
  <2> HIDE DEF same
  <2>8. result[m][i].depth \in H /\ \A h \in H : result[m][i].depth <= h /\ h \in Int
    BY <2>7
  <2> HIDE DEF H
  <2>9. Graphs!Min(H) \in H /\ \A h \in H : Graphs!Min(H) <= h
    BY <2>8 DEF Graphs!Min
  <2>10. Graphs!Min(H) = result[m][i].depth
    BY <2>8, <2>9
  <2> QED
    BY <2>2, <2>4, <2>5, <2>10 DEF H, same
<1>7. Graphs!LevelsAreHops(m, g)
  BY <1>1, <1>6 DEF Graphs!LevelsAreHops
<1> QED
  BY <1>5, <1>7 DEF g

\* Levels are the depths of items, and count the hops where the code says so.
LEMMA DepthsHops == Graphs!IInv => Graphs!DepthsAreHops
  BY LevelsHops DEF Graphs!DepthsAreHops

\* The edges of a graph that is built: one for each pair, between known addresses.
LEMMA GivenEdgesAre ==
  ASSUME Graphs!IInv, NEW m \in Graphs!Built
  PROVE  LET r == Given(m)
             ns == GivenNodes(m)
         IN  /\ GivenEdges(m) = {Graphs!create_edge(r, i, ns) : i \in Graphs!Firsts(r)}
             /\ \A i \in DOMAIN r : r[i].inner \in Graphs!Known(ns) /\ r[i].outer \in Graphs!Known(ns)
<1> DEFINE r == Given(m)
           ns == GivenNodes(m)
<1>1. /\ m \in Graphs!Modes /\ result[m] # <<>> /\ ~Graphs!Raises(m)
  BY DEF Graphs!Built
<1>2. /\ r \in Seq(Graphs!Transfer) /\ r # <<>> /\ r[1].inner = Root
      /\ kind # "btcpath" => Following(r)
  BY <1>1, GivenTaken DEF Taken
<1>3. Graphs!Known(ns) = {Root} \cup {r[i].outer : i \in DOMAIN r}
  BY <1>1, GivenNodesAre DEF NodesOf
<1>4. ~Graphs!HasLooseEnds(r)
  BY <1>1 DEF Graphs!Raises, Given
<1> HIDE DEF r, ns
<1>5. \A i \in DOMAIN r : r[i].inner \in {Root} \cup {r[j].outer : j \in DOMAIN r}
  BY <1>2, <1>4, NoLooseEnds
<1>6. \A i \in DOMAIN r : r[i].inner \in Graphs!Known(ns) /\ r[i].outer \in Graphs!Known(ns)
  BY <1>3, <1>5
<1>7. GivenEdges(m) = {Graphs!create_edge(r, i, ns) : i \in Graphs!Firsts(r)}
  BY Zenon DEF GivenEdges, r, ns, Graphs!assign_edges
<1> QED
  BY <1>6, <1>7 DEF r, ns

\* An address that is known has an id, which is that of its node.
LEMMA IdsOfKnown ==
  ASSUME Graphs!IInv, NEW m \in Graphs!Modes, result[m] # <<>>, NEW a \in Graphs!Known(GivenNodes(m))
  PROVE  \E k \in DOMAIN GivenNodes(m) : /\ GivenNodes(m)[k].address = a
                                         /\ Graphs!IdOf(GivenNodes(m), a) = GivenNodes(m)[k].id
<1> DEFINE ns == GivenNodes(m)
<1>1. NodesOf(ns, m)
  BY GivenNodesAre
<1> HIDE DEF ns
<1>2. PICK k \in DOMAIN ns : ns[k].address = a
  BY DEF Graphs!Known, ns
<1>3. Graphs!IdOf(ns, a) = ns[k].id
  BY <1>1, <1>2 DEF NodesOf
<1> QED
  BY <1>2, <1>3 DEF ns

\* The transfers with the ends of one, and the fields of their edge.
Same(r, i) == {j \in DOMAIN r : r[j].inner = r[i].inner /\ r[j].outer = r[i].outer}
IsEdge(e, r, i, ns) ==
  /\ e.first = i /\ e.depth = r[i].depth /\ e.inner = r[i].inner /\ e.outer = r[i].outer
  /\ e.from = Graphs!IdOf(ns, r[i].inner) /\ e.to = Graphs!IdOf(ns, r[i].outer)
  /\ e.data = Cardinality(Same(r, i))
  /\ e.sum = Sum([j \in Same(r, i) |-> r[j].amount], Same(r, i))

\* What create_edge returns.
LEMMA EdgeIs == \A r, i, ns : IsEdge(Graphs!create_edge(r, i, ns), r, i, ns)
  BY GraphCounting DEF Graphs!create_edge, Graphs!SumFunction, Sum, IsEdge, Same

\* TypeOK of TransactionGraph.
LEMMA GraphTypes == Graphs!IInv => Graphs!TypeOK
<1> SUFFICES ASSUME Graphs!IInv PROVE Graphs!TypeOK
  OBVIOUS
<1>1. ASSUME NEW m \in Graphs!Built
      PROVE  LET g == Graphs!Graph(m)
                 ids == {m * k : k \in 0..Len(result[m])}
             IN  /\ g.nodes \in Seq([id : ids, address : Graphs!Addresses, level : (-Graphs!Farthest - 1)..Graphs!Farthest])
                 /\ \A e \in g.edges : e.from \in ids /\ e.to \in ids /\ e.data \in 1..Len(result[m])
  <2> DEFINE r == Given(m)
             ns == GivenNodes(m)
             ids == {m * k : k \in 0..Len(result[m])}
             levels == (-Graphs!Farthest - 1)..Graphs!Farthest
  <2>1. /\ m \in Graphs!Modes /\ result[m] # <<>> /\ m \in {1, -1} /\ kind # "btc"
    BY BuiltKind DEF Graphs!Modes
  <2>2. /\ r \in Seq(Graphs!Transfer) /\ Len(r) \in 1..Len(result[m])
        /\ result[m] \in Seq(Graphs!Transfer) /\ Len(result[m]) \in Nat /\ MaxDepth \in Nat
    <3>1. result[m] \in Seq(Graphs!Transfer)
      BY <2>1 DEF Graphs!IInv
    <3> QED
      BY <2>1, <3>1, GivenTaken, ReportsAssumption DEF Taken, Graphs!GraphAssumption
  <2>3. NodesOf(ns, m)
    BY <2>1, GivenNodesAre
  <2>4. \A i \in DOMAIN r : GivenLevel(m)[i] \in levels
    BY <2>1, GivenDepths
  <2>5. 0 \in ids /\ 0 \in levels
    <3>1. m * 0 = 0 /\ 0 \in 0..Len(result[m]) /\ Graphs!Farthest \in Nat
      BY <2>1, <2>2 DEF Graphs!Farthest
    <3> QED
      BY <3>1
  <2>6. \A n \in DOMAIN ns : ns[n].id \in ids /\ ns[n].address \in Graphs!Addresses /\ ns[n].level \in levels
    <3> HIDE DEF ns, levels
    <3>1. ASSUME NEW n \in DOMAIN ns, n # 1
          PROVE  ns[n].id \in ids /\ ns[n].address \in Graphs!Addresses /\ ns[n].level \in levels
      <4> DEFINE i == Graphs!Nth(Graphs!uniqfy(Given(m)), n - 1)
      <4>1. /\ i \in Graphs!uniqfy(Given(m)) /\ ns[n].address = r[i].outer
            /\ ns[n].level = GivenLevel(m)[i] /\ ns[n].id = m * (n - 1)
            /\ n \in 1..Len(ns) /\ Len(ns) \in 1..(Len(result[m]) + 1)
        BY <2>3, <3>1 DEF NodesOf
      <4>2. n - 1 \in 0..Len(result[m])
        BY <2>2, <4>1
      <4> HIDE DEF i
      <4>3. i \in DOMAIN r
        BY <4>1 DEF Graphs!uniqfy
      <4> HIDE DEF r
      <4>4. ns[n].address \in Graphs!Addresses
        BY <2>2, <4>1, <4>3, Listed
      <4>5. ns[n].level \in levels
        BY <2>4, <4>1, <4>3
      <4> QED
        BY <4>1, <4>2, <4>4, <4>5
    <3>2. ns[1].id = 0 /\ ns[1].address = Root /\ ns[1].level = 0
      BY <2>3 DEF NodesOf
    <3> QED
      BY <2>5, <3>1, <3>2 DEF Graphs!Addresses
  <2>7. ns \in Seq([id : ids, address : Graphs!Addresses, level : levels])
    <3>1. \A n \in DOMAIN ns : ns[n] = [id |-> ns[n].id, address |-> ns[n].address, level |-> ns[n].level]
      BY <2>3 DEF NodesOf
    <3> HIDE DEF ids, levels
    <3>2. \A n \in DOMAIN ns : ns[n] \in [id : ids, address : Graphs!Addresses, level : levels]
      BY <2>6, <3>1
    <3>3. DOMAIN ns = 1..Len(ns) /\ Len(ns) \in Nat
      BY <2>3 DEF NodesOf
    <3>4. ns = [n \in 1..Len(ns) |-> ns[n]]
      BY <2>1, <2>2, NodesAre DEF Numbered, GivenNodes
    <3> DEFINE T == [id : ids, address : Graphs!Addresses, level : levels]
    <3>5. \A n \in DOMAIN ns : ns[n] \in T
      BY <3>2
    <3> HIDE DEF T, ns
    <3>6. ns \in [1..Len(ns) -> T]
      BY <3>3, <3>4, <3>5
    <3>7. ns \in Seq(T)
      BY <3>3, <3>6
    <3> QED
      BY <3>7 DEF T
  <2>8. ASSUME NEW i \in Graphs!Firsts(r)
        PROVE  LET e == Graphs!create_edge(r, i, ns) IN
               e.from \in ids /\ e.to \in ids /\ e.data \in 1..Len(result[m])
    <3> DEFINE e == Graphs!create_edge(r, i, ns)
               same == Same(r, i)
    <3>1. i \in DOMAIN r
      BY DEF Graphs!Firsts
    <3>2. r[i].inner \in Graphs!Known(ns) /\ r[i].outer \in Graphs!Known(ns)
      BY <3>1, GivenEdgesAre
    <3>3. Graphs!IdOf(ns, r[i].inner) \in ids /\ Graphs!IdOf(ns, r[i].outer) \in ids
      <4> HIDE DEF ids
      <4> QED
        BY <2>1, <2>6, <3>2, IdsOfKnown
    <3>4. same \in SUBSET DOMAIN r /\ i \in same
      BY <3>1 DEF Same
    <3>5. e.from = Graphs!IdOf(ns, r[i].inner) /\ e.to = Graphs!IdOf(ns, r[i].outer) /\ e.data = Cardinality(same)
      BY EdgeIs DEF IsEdge
    <3> HIDE DEF same, e, r
    <3>6. IsFiniteSet(same) /\ Cardinality(same) \in 0..Len(r)
      BY <2>2, <3>4, Picked
    <3>7. Cardinality(same) # 0
      BY <3>4, <3>6, FS_EmptySet
    <3>8. Cardinality(same) \in 1..Len(result[m])
      BY <2>2, <3>6, <3>7
    <3> QED
      BY <3>3, <3>5, <3>8 DEF e, ids
  <2>9. Graphs!Graph(m).nodes = ns /\ Graphs!Graph(m).edges = {Graphs!create_edge(r, i, ns) : i \in Graphs!Firsts(r)}
    <3>1. Graphs!Graph(m).nodes = ns /\ Graphs!Graph(m).edges = GivenEdges(m)
      BY <2>1, GraphIs DEF Built
    <3> QED
      BY <3>1, GivenEdgesAre
  <2> HIDE DEF ids, levels, ns, r
  <2>10. \A e \in Graphs!Graph(m).edges : e.from \in ids /\ e.to \in ids /\ e.data \in 1..Len(result[m])
    BY <2>8, <2>9
  <2> QED
    BY <2>7, <2>9, <2>10 DEF ids, levels
<1>2. kind \in Kinds /\ result \in [Graphs!Modes -> Seq(Graphs!Transfer)]
  BY DEF Graphs!IInv
<1> QED
  BY <1>1, <1>2 DEF Graphs!TypeOK

-----------------------------------------------------------------------------
(* Nothing is lost                                                          *)

\* Every transfer is on one edge, that of the first with its ends.
Divides(K, r, ns, p) ==
  /\ IsFiniteSet(K) /\ p \in [DOMAIN r -> K]
  /\ \A e \in K : /\ e.first \in DOMAIN r /\ IsEdge(e, r, e.first, ns)
                  /\ {i \in DOMAIN r : p[i] = e} = Same(r, e.first)

\* The edges of a list divide its transfers.
LEMMA EdgesDivide ==
  ASSUME NEW r \in Seq(Graphs!Transfer), NEW ns
  PROVE  \E p : Divides({Graphs!create_edge(r, i, ns) : i \in Graphs!Firsts(r)}, r, ns, p)
<1> DEFINE F == Graphs!Firsts(r)
           Edge(i) == Graphs!create_edge(r, i, ns)
           K == {Edge(i) : i \in F}
           p == [i \in DOMAIN r |-> CHOOSE e \in K : e.inner = r[i].inner /\ e.outer = r[i].outer]
<1>1. /\ F \in SUBSET DOMAIN r
      /\ \A i \in F : \A j \in 1..(i - 1) : ~(r[j].inner = r[i].inner /\ r[j].outer = r[i].outer)
  BY DEF Graphs!Firsts
<1>2. IsFiniteSet(F)
  <2> HIDE DEF F
  <2> QED
    BY <1>1, Picked
<1>3. \A i \in F : IsEdge(Edge(i), r, i, ns)
  BY EdgeIs
<1>4. \A i \in F : Edge(i).first = i /\ Edge(i).inner = r[i].inner /\ Edge(i).outer = r[i].outer
  BY <1>3 DEF IsEdge
<1>5. \A i \in DOMAIN r : \E j \in F : r[j].inner = r[i].inner /\ r[j].outer = r[i].outer
  <2> SUFFICES ASSUME NEW i \in DOMAIN r
               PROVE  \E j \in F : r[j].inner = r[i].inner /\ r[j].outer = r[i].outer
    OBVIOUS
  <2>1. Same(r, i) \in SUBSET DOMAIN r /\ Same(r, i) # {}
    BY DEF Same
  <2>2. PICK j \in Same(r, i) : \A k \in 1..(j - 1) : k \in DOMAIN r /\ k \notin Same(r, i)
    BY <2>1, FirstWith
  <2>3. j \in DOMAIN r /\ r[j].inner = r[i].inner /\ r[j].outer = r[i].outer
    BY <2>2 DEF Same
  <2>4. \A k \in 1..(j - 1) : ~(r[k].inner = r[j].inner /\ r[k].outer = r[j].outer)
    BY <2>2, <2>3 DEF Same
  <2> QED
    BY <2>3, <2>4 DEF Graphs!Firsts
<1>6. \A i, j \in F : r[i].inner = r[j].inner /\ r[i].outer = r[j].outer => i = j
  <2>1. \A i \in F : i \in Nat /\ i >= 1
    BY <1>1, Listed
  <2>2. \A i, j \in F : i < j => i \in 1..(j - 1)
    BY <2>1
  <2>3. \A i, j \in F : i = j \/ i < j \/ j < i
    BY <2>1
  <2> HIDE DEF F
  <2> QED
    BY <1>1, <2>2, <2>3
<1> HIDE DEF F, Edge
<1>7. IsFiniteSet(K)
  <2> DEFINE f == [i \in F |-> Edge(i)]
  <2>1. K = {f[i] : i \in F}
    OBVIOUS
  <2> HIDE DEF f, K
  <2> QED
    BY <1>2, <2>1, FiniteRange
<1>8. \A i \in DOMAIN r : p[i] \in K /\ p[i].inner = r[i].inner /\ p[i].outer = r[i].outer
  <2> SUFFICES ASSUME NEW i \in DOMAIN r
               PROVE  p[i] \in K /\ p[i].inner = r[i].inner /\ p[i].outer = r[i].outer
    OBVIOUS
  <2>1. PICK j \in F : r[j].inner = r[i].inner /\ r[j].outer = r[i].outer
    BY <1>5
  <2>2. Edge(j) \in K /\ Edge(j).inner = r[i].inner /\ Edge(j).outer = r[i].outer
    BY <1>4, <2>1
  <2>3. p[i] = CHOOSE e \in K : e.inner = r[i].inner /\ e.outer = r[i].outer
    OBVIOUS
  <2> HIDE DEF K, p
  <2> QED
    BY <2>2, <2>3
<1>9. \A e \in K : \E i \in F : e = Edge(i)
  OBVIOUS
<1>10. p \in [DOMAIN r -> K]
  BY <1>8
<1> HIDE DEF K, p
<1>11. ASSUME NEW e \in K
       PROVE  /\ e.first \in F /\ IsEdge(e, r, e.first, ns)
              /\ {i \in DOMAIN r : p[i] = e} = Same(r, e.first)
  <2>1. PICK i \in F : e = Edge(i)
    BY <1>9
  <2>2. e.first = i /\ e.inner = r[i].inner /\ e.outer = r[i].outer /\ IsEdge(e, r, i, ns)
    BY <1>3, <1>4, <2>1
  <2>3. \A j \in DOMAIN r : p[j] = e => r[j].inner = r[i].inner /\ r[j].outer = r[i].outer
    BY <1>8, <2>2
  <2>4. ASSUME NEW j \in DOMAIN r, r[j].inner = r[i].inner, r[j].outer = r[i].outer
        PROVE  p[j] = e
    <3>1. PICK k \in F : p[j] = Edge(k)
      BY <1>8, <1>9
    <3>2. r[k].inner = r[i].inner /\ r[k].outer = r[i].outer
      BY <1>4, <1>8, <2>4, <3>1
    <3> QED
      BY <1>6, <2>1, <3>1, <3>2
  <2> QED
    BY <2>2, <2>3, <2>4 DEF Same
<1>12. Divides(K, r, ns, p)
  BY <1>1, <1>7, <1>10, <1>11 DEF Divides
<1> QED
  BY <1>12 DEF K, F, Edge

\* The sums over the edges are those over the transfers.
LEMMA EdgesSumUp ==
  ASSUME NEW r \in Seq(Graphs!Transfer), NEW K, NEW ns, NEW p, Divides(K, r, ns, p)
  PROVE  /\ Sum([e \in K |-> e.data], K) = Len(r)
         /\ Sum([e \in K |-> e.sum], K) = Sum([i \in DOMAIN r |-> r[i].amount], DOMAIN r)
<1> DEFINE S == DOMAIN r
           ones == [i \in S |-> 1]
           amounts == [i \in S |-> r[i].amount]
           data == [e \in K |-> e.data]
           sums == [e \in K |-> e.sum]
<1>1. /\ IsFiniteSet(S) /\ Cardinality(S) = Len(r) /\ IsFiniteSet(K) /\ p \in [S -> K]
      /\ \A i \in S : ones[i] = 1 /\ amounts[i] = r[i].amount /\ amounts[i] \in Nat
  <2>1. Len(r) \in Nat /\ S = 1..Len(r)
    BY Listed
  <2>2. IsFiniteSet(1..Len(r)) /\ Cardinality(1..Len(r)) = Len(r)
    <3>1. 1 \in Int /\ Len(r) \in Int /\ (1 > Len(r) => Len(r) = 0)
      BY <2>1
    <3> QED
      BY <2>1, <3>1, FS_Interval
  <2>3. \A t \in Graphs!Transfer : t.amount \in Nat
    BY ReportsAssumption DEF Graphs!Transfer, Graphs!GraphAssumption
  <2>4. \A i \in S : r[i].amount \in Nat
    BY <2>3, Listed
  <2> QED
    BY <2>1, <2>2, <2>4 DEF Divides
<1>2. \A e \in K : data[e] = e.data /\ sums[e] = e.sum
  OBVIOUS
<1>3. ASSUME NEW e \in K
      PROVE  /\ e.data = Sum(ones, {i \in S : p[i] = e})
             /\ e.sum = Sum(amounts, {i \in S : p[i] = e})
  <2> DEFINE same == Same(r, e.first)
             own == [j \in same |-> r[j].amount]
  <2>1. /\ same = {i \in S : p[i] = e} /\ e.data = Cardinality(same) /\ e.sum = Sum(own, same)
    BY DEF Divides, IsEdge
  <2>2. same \in SUBSET S
    BY DEF Same
  <2>3. \A i \in same : own[i] = r[i].amount
    OBVIOUS
  <2> HIDE DEF same, S, ones, amounts, own
  <2>4. IsFiniteSet(same)
    BY <1>1, <2>2, FS_Subset
  <2>5. Sum(ones, same) = 1 * Cardinality(same) /\ Cardinality(same) \in Nat
    <3>1. \A i \in same : ones[i] = 1
      BY <1>1, <2>2
    <3> QED
      BY <2>4, <3>1, SumSame, FS_CardinalityType
  <2>6. Sum(amounts, same) = Sum(own, same)
    <3>1. \A i \in same : amounts[i] \in Nat /\ own[i] = amounts[i]
      BY <1>1, <2>2, <2>3
    <3> QED
      BY <2>4, <3>1, SumAlike
  <2> QED
    BY <2>1, <2>5, <2>6
<1> HIDE DEF S, ones, amounts, data, sums
<1>4. Sum(data, K) = Sum(ones, S)
  <2>1. \A i \in S : ones[i] \in Nat
    BY <1>1
  <2>2. \A e \in K : data[e] = Sum(ones, {i \in S : p[i] = e})
    BY <1>2, <1>3
  <2>3. Grouped(S, ones, K, p, data)
    BY <1>1, <2>1, <2>2 DEF Grouped
  <2> QED
    BY <2>3, SumOfGroups
<1>5. Sum(ones, S) = Len(r)
  <2>1. Sum(ones, S) = 1 * Cardinality(S) /\ Cardinality(S) \in Nat
    BY <1>1, SumSame, FS_CardinalityType
  <2> QED
    BY <1>1, <2>1
<1>6. Sum(sums, K) = Sum(amounts, S)
  <2>1. \A e \in K : sums[e] = Sum(amounts, {i \in S : p[i] = e})
    BY <1>2, <1>3
  <2>2. Grouped(S, amounts, K, p, sums)
    BY <1>1, <2>1 DEF Grouped
  <2> QED
    BY <2>2, SumOfGroups
<1> QED
  BY <1>4, <1>5, <1>6 DEF S, amounts, data, sums

\* volume_count counts each position of uniqfy once.
LEMMA CountsSumUp ==
  ASSUME NEW r \in Seq(Graphs!Transfer)
  PROVE  Graphs!SumFunction(Graphs!volume_count(r)) = Cardinality(Graphs!uniqfy(r))
<1> DEFINE U == Graphs!uniqfy(r)
           A == {r[i].inner : i \in U}
           p == [i \in U |-> r[i].inner]
           ones == [i \in U |-> 1]
           counts == [a \in A |-> Cardinality({i \in U : r[i].inner = a})]
<1>1. IsFiniteSet(U) /\ Cardinality(U) \in Nat
  BY Uniques
<1>2. counts = Graphs!volume_count(r)
  BY GraphCounting DEF Graphs!volume_count
<1>3. /\ p \in [U -> A] /\ \A i \in U : p[i] = r[i].inner /\ ones[i] = 1
      /\ DOMAIN counts = A /\ \A a \in A : counts[a] = Cardinality({i \in U : r[i].inner = a})
  OBVIOUS
<1>4. IsFiniteSet(A)
  <2> HIDE DEF U, A, p
  <2>1. A = {p[i] : i \in U}
    BY <1>3 DEF A
  <2> QED
    BY <1>1, <2>1, FiniteRange
<1> HIDE DEF U, A, p, ones, counts
<1>5. ASSUME NEW a \in A PROVE counts[a] = Sum(ones, {i \in U : p[i] = a})
  <2> DEFINE of == {i \in U : p[i] = a}
  <2>1. of = {i \in U : r[i].inner = a}
    BY <1>3
  <2>2. IsFiniteSet(of) /\ \A i \in of : ones[i] = 1
    BY <1>1, <1>3, FS_Subset
  <2>3. counts[a] = Cardinality(of)
    BY <1>3, <2>1
  <2> HIDE DEF of
  <2>4. Sum(ones, of) = 1 * Cardinality(of) /\ Cardinality(of) \in Nat
    BY <2>2, SumSame, FS_CardinalityType
  <2>5. counts[a] = Sum(ones, of)
    BY <2>3, <2>4
  <2> QED
    BY <2>5 DEF of
<1>6. Sum(counts, A) = Sum(ones, U)
  <2>1. \A i \in U : ones[i] \in Nat
    BY <1>3
  <2>2. Grouped(U, ones, A, p, counts)
    BY <1>1, <1>3, <1>4, <1>5, <2>1 DEF Grouped
  <2> QED
    BY <2>2, SumOfGroups
<1>7. Sum(ones, U) = 1 * Cardinality(U)
  BY <1>1, <1>3, SumSame
<1>8. Graphs!SumFunction(counts) = Cardinality(U)
  BY <1>1, <1>3, <1>6, <1>7 DEF Graphs!SumFunction, Sum
<1> QED
  BY <1>2, <1>8 DEF U

\* NothingIsLost of TransactionGraph.
LEMMA AllIsThere == Graphs!IInv => Graphs!NothingIsLost
<1> SUFFICES ASSUME Graphs!IInv, NEW m \in Graphs!Built
             PROVE  LET g == Graphs!Graph(m) IN
                    /\ Graphs!SumFunction([e \in g.edges |-> e.data]) = Len(g.items)
                    /\ Graphs!SumFunction([e \in g.edges |-> e.sum])
                         = Graphs!SumFunction([i \in DOMAIN g.items |-> g.items[i].amount])
                    /\ Graphs!SumFunction(g.counts) = Len(g.nodes) - 1
  BY DEF Graphs!NothingIsLost
<1> DEFINE g == Graphs!Graph(m)
           r == Given(m)
           ns == GivenNodes(m)
           K == GivenEdges(m)
<1>1. m \in Graphs!Modes /\ result[m] # <<>> /\ kind # "btc"
  BY BuiltKind
<1>2. r \in Seq(Graphs!Transfer)
  BY <1>1, GivenTaken DEF Taken
<1>3. /\ g.nodes = ns /\ g.edges = K /\ g.counts = Graphs!volume_count(r)
      /\ DOMAIN g.items = DOMAIN r /\ Len(g.items) = Len(r)
      /\ \A i \in DOMAIN r : g.items[i].amount = r[i].amount
  BY <1>1, GraphIs DEF Built
<1>4. K = {Graphs!create_edge(r, i, ns) : i \in Graphs!Firsts(r)}
  BY GivenEdgesAre
<1>5. Len(ns) = Cardinality(Graphs!uniqfy(r)) + 1 /\ Cardinality(Graphs!uniqfy(r)) \in Nat
  BY <1>1, <1>2, GivenNodesAre, Uniques DEF NodesOf
<1> HIDE DEF g, r, ns, K
<1>6. PICK p : Divides(K, r, ns, p)
  BY <1>2, <1>4, EdgesDivide
<1>7. /\ Sum([e \in K |-> e.data], K) = Len(r)
      /\ Sum([e \in K |-> e.sum], K) = Sum([i \in DOMAIN r |-> r[i].amount], DOMAIN r)
  BY <1>2, <1>6, EdgesSumUp
<1>8. Graphs!SumFunction([e \in g.edges |-> e.data]) = Len(g.items)
  BY <1>3, <1>7 DEF Graphs!SumFunction, Sum
<1>9. Graphs!SumFunction([e \in g.edges |-> e.sum]) = Graphs!SumFunction([i \in DOMAIN g.items |-> g.items[i].amount])
  <2>1. [i \in DOMAIN g.items |-> g.items[i].amount] = [i \in DOMAIN r |-> r[i].amount]
    BY <1>3
  <2> QED
    BY <1>3, <1>7, <2>1 DEF Graphs!SumFunction, Sum
<1>10. Graphs!SumFunction(g.counts) = Len(g.nodes) - 1
  BY <1>2, <1>3, <1>5, CountsSumUp
<1> QED
  BY <1>8, <1>9, <1>10 DEF g

-----------------------------------------------------------------------------
(* Functions by recursion on numbers                                        *)

\* What is got from x by F[1], then F[2], and so on.
Iterates(f, x, F, X, n) == f \in [0..n -> X] /\ f[0] = x /\ \A k \in 1..n : f[k] = F[k][f[k - 1]]

\* As far as one likes, there is such an iteration ...
LEMMA IteratedOnce ==
  ASSUME NEW X, NEW x \in X, NEW F \in [Nat -> [X -> X]], NEW n \in Nat
  PROVE  \E f : Iterates(f, x, F, X, n)
<1> DEFINE none == {k \in Nat : ~\E f : Iterates(f, x, F, X, k)}
<1>1. none = {} => \E f : Iterates(f, x, F, X, n)
  OBVIOUS
<1> SUFFICES ASSUME none # {} PROVE FALSE
  BY <1>1
<1>2. PICK k \in none : \A l \in none : ~(l < k)
  <2>1. none \in SUBSET Nat
    OBVIOUS
  <2> HIDE DEF none
  <2> QED
    BY <2>1, Smallest
<1>3. k \in Nat /\ ~\E f : Iterates(f, x, F, X, k)
  BY <1>2
<1>4. k # 0
  <2> SUFFICES ASSUME k = 0 PROVE FALSE
    OBVIOUS
  <2> DEFINE f == [j \in 0..0 |-> x]
  <2>1. f \in [0..0 -> X] /\ f[0] = x /\ 1..0 = {}
    OBVIOUS
  <2>2. Iterates(f, x, F, X, 0)
    BY <2>1, Zenon DEF Iterates
  <2> QED
    BY <1>3, <2>2
<1>5. k - 1 \in Nat /\ k - 1 < k
  BY <1>3, <1>4
<1>6. k - 1 \notin none
  <2> HIDE DEF none
  <2> QED
    BY <1>2, <1>5
<1>7. PICK f : Iterates(f, x, F, X, k - 1)
  BY <1>5, <1>6
<1> DEFINE g == [j \in 0..k |-> IF j = k THEN F[k][f[k - 1]] ELSE f[j]]
<1>8. /\ f \in [0..(k - 1) -> X] /\ f[0] = x
      /\ \A j \in 1..(k - 1) : f[j] = F[j][f[j - 1]]
  BY <1>7 DEF Iterates
<1>9. f[k - 1] \in X /\ F[k][f[k - 1]] \in X
  BY <1>3, <1>5, <1>8
<1>10. \A j \in 0..k : j = k \/ j \in 0..(k - 1)
  BY <1>3
<1>11. g \in [0..k -> X] /\ g[k] = F[k][f[k - 1]] /\ \A j \in 0..(k - 1) : g[j] = f[j]
  BY <1>3, <1>8, <1>9, <1>10
<1>12. g[0] = x
  BY <1>4, <1>5, <1>8, <1>11
<1>13. ASSUME NEW j \in 1..k PROVE g[j] = F[j][g[j - 1]]
  <2>1. CASE j = k
    BY <1>5, <1>11, <2>1
  <2>2. CASE j # k
    <3>1. j \in 1..(k - 1) /\ j - 1 \in 0..(k - 1) /\ j \in 0..(k - 1)
      BY <1>3, <2>2
    <3> HIDE DEF g
    <3> QED
      BY <1>8, <1>11, <3>1
  <2> QED
    BY <2>1, <2>2
<1> HIDE DEF g
<1>14. Iterates(g, x, F, X, k)
  BY <1>11, <1>12, <1>13 DEF Iterates
<1> QED
  BY <1>3, <1>14

\* ... and only one.
LEMMA IteratedAlike ==
  ASSUME NEW X, NEW x \in X, NEW F \in [Nat -> [X -> X]], NEW n \in Nat, NEW m \in Nat, n <= m,
         NEW f, NEW g, Iterates(f, x, F, X, n), Iterates(g, x, F, X, m)
  PROVE  f[n] = g[n]
<1> DEFINE wrong == {k \in 0..n : f[k] # g[k]}
<1>1. wrong = {} => f[n] = g[n]
  OBVIOUS
<1> SUFFICES ASSUME wrong # {} PROVE FALSE
  BY <1>1
<1>2. PICK k \in wrong : \A l \in wrong : ~(l < k)
  <2>1. wrong \in SUBSET Nat
    OBVIOUS
  <2> HIDE DEF wrong
  <2> QED
    BY <2>1, Smallest
<1>3. k \in 0..n /\ f[k] # g[k]
  BY <1>2
<1>4. f[0] = x /\ g[0] = x
  BY DEF Iterates
<1>5. k \in 1..n /\ k \in 1..m /\ k - 1 \in 0..n /\ k - 1 < k
  BY <1>3, <1>4
<1>6. k - 1 \notin wrong
  <2> HIDE DEF wrong
  <2> QED
    BY <1>2, <1>5
<1>7. f[k - 1] = g[k - 1]
  BY <1>5, <1>6
<1>8. f[k] = F[k][f[k - 1]] /\ g[k] = F[k][g[k - 1]]
  BY <1>5 DEF Iterates
<1> QED
  BY <1>3, <1>7, <1>8

Iteration(f, x, F, X) ==
  f \in [Nat -> X] /\ f[0] = x /\ \A n \in Nat : n # 0 => f[n] = F[n][f[n - 1]]

\* So there is one for all numbers.
LEMMA Iterated ==
  ASSUME NEW X, NEW x \in X, NEW F \in [Nat -> [X -> X]]
  PROVE  \E f : Iteration(f, x, F, X)
<1> DEFINE at(n) == CHOOSE f : Iterates(f, x, F, X, n)
           h == [n \in Nat |-> at(n)[n]]
<1>1. \A n \in Nat : Iterates(at(n), x, F, X, n)
  BY IteratedOnce
<1> HIDE DEF at
<1>2. \A n \in Nat : n \in 0..n /\ (n # 0 => n \in 1..n /\ n - 1 \in Nat /\ n - 1 \in 0..n /\ n - 1 <= n)
  OBVIOUS
<1>3. \A n \in Nat : at(n) \in [0..n -> X] /\ at(n)[0] = x
  BY <1>1 DEF Iterates
<1>4. h \in [Nat -> X] /\ h[0] = x
  BY <1>2, <1>3
<1>5. ASSUME NEW n \in Nat, n # 0 PROVE h[n] = F[n][h[n - 1]]
  <2>1. at(n)[n] = F[n][at(n)[n - 1]]
    BY <1>1, <1>2, <1>5 DEF Iterates
  <2>2. at(n - 1)[n - 1] = at(n)[n - 1]
    BY <1>1, <1>2, <1>5, IteratedAlike
  <2> QED
    BY <1>2, <1>5, <2>1, <2>2
<1> HIDE DEF h
<1>6. Iteration(h, x, F, X)
  BY <1>4, <1>5 DEF Iteration
<1> QED
  BY <1>6

\* Sets that grow among N elements do not grow N times.
LEMMA GrowthStops ==
  ASSUME NEW A, IsFiniteSet(A), NEW f \in [Nat -> SUBSET A], f[0] # {},
         \A n \in Nat : f[n] \subseteq f[n + 1],
         \A n \in Nat : f[n + 1] = f[n] => f[(n + 1) + 1] = f[n + 1]
  PROVE  Cardinality(A) \in Nat /\ f[Cardinality(A) + 1] = f[Cardinality(A)]
<1> DEFINE N == Cardinality(A)
           small == {n \in Nat : f[n + 1] # f[n] /\ ~(Cardinality(f[n]) >= n + 1)}
<1>1. N \in Nat
  BY FS_CardinalityType
<1>2. \A n \in Nat : IsFiniteSet(f[n]) /\ Cardinality(f[n]) \in Nat /\ Cardinality(f[n]) <= N
  BY FS_Subset, FS_CardinalityType
<1>3. small = {}
  <2> SUFFICES ASSUME small # {} PROVE FALSE
    OBVIOUS
  <2>1. PICK n \in small : \A m \in small : ~(m < n)
    <3>1. small \in SUBSET Nat
      OBVIOUS
    <3> HIDE DEF small
    <3> QED
      BY <3>1, Smallest
  <2>2. n \in Nat /\ f[n + 1] # f[n] /\ ~(Cardinality(f[n]) >= n + 1)
    BY <2>1
  <2>3. Cardinality(f[0]) # 0
    BY <1>2, FS_EmptySet
  <2>4. n # 0
    BY <1>2, <2>2, <2>3
  <2>5. n - 1 \in Nat /\ n - 1 < n /\ (n - 1) + 1 = n
    BY <2>2, <2>4
  <2>6. n - 1 \notin small
    <3> HIDE DEF small
    <3> QED
      BY <2>1, <2>5
  <2>7. f[n] # f[n - 1]
    BY <2>2, <2>5
  <2>8. Cardinality(f[n - 1]) >= n
    BY <2>5, <2>6, <2>7
  <2>9. f[n - 1] \subseteq f[n]
    BY <2>5
  <2>10. Cardinality(f[n - 1]) <= Cardinality(f[n]) /\ Cardinality(f[n - 1]) # Cardinality(f[n])
    BY <1>2, <2>2, <2>5, <2>7, <2>9, FS_Subset
  <2>11. Cardinality(f[n]) \in Nat /\ Cardinality(f[n - 1]) \in Nat
    BY <1>2, <2>2, <2>5
  <2>12. n \in Nat /\ ~(Cardinality(f[n]) >= n + 1)
    BY <2>2
  <2> HIDE DEF small
  <2> QED
    BY <2>8, <2>10, <2>11, <2>12
<1>4. N \notin small
  BY <1>3
<1>5. ~(Cardinality(f[N]) >= N + 1)
  BY <1>1, <1>2
<1> QED
  BY <1>1, <1>4, <1>5

-----------------------------------------------------------------------------
(* The groups of a lossy graph and what is kept of them                     *)

\* Edges have positions in a list, each at most one.
Placed(E, L) ==
  /\ \A e \in E : e.first \in 1..L
  /\ \A e, f \in E : e.first = f.first => e = f

\* A group for each depth.
GroupsOf(G, E, mode) ==
  /\ Len(G) \in Nat /\ DOMAIN G = 1..Len(G)
  /\ \A n \in 1..Len(G) : /\ G[n].edges = {e \in E : Graphs!Shifted(e, mode) = G[n].depth}
                          /\ \E e \in E : Graphs!Shifted(e, mode) = G[n].depth
  /\ \A k, n \in 1..Len(G) : G[k].depth = G[n].depth => k = n
  /\ \A e \in E : \E n \in 1..Len(G) : Graphs!Shifted(e, mode) = G[n].depth

\* group_by_depth makes a group for each depth, of all edges of that depth.
LEMMA Grouping ==
  ASSUME NEW E, NEW L \in Nat, Placed(E, L), NEW mode
  PROVE  GroupsOf(Graphs!group_by_depth(E, mode), E, mode)
<1> DEFINE Depth(e) == Graphs!Shifted(e, mode)
           heads == {e \in E : \A f \in E : Depth(f) = Depth(e) => e.first <= f.first}
           at == {e.first : e \in heads}
           N == Cardinality(at)
           EarliestOf(n) == CHOOSE e \in heads : e.first = Graphs!Nth(at, n)
           G == [n \in 1..N |-> [depth |-> Depth(EarliestOf(n)),
                                 edges |-> {e \in E : Depth(e) = Depth(EarliestOf(n))}]]
<1>1. Graphs!group_by_depth(E, mode) = G
  BY GraphCounting DEF Graphs!group_by_depth
<1>2. /\ \A e \in E : e.first \in 1..L /\ e.first \in Nat
      /\ \A e, f \in E : e.first = f.first => e = f
  BY DEF Placed
<1>3. heads \in SUBSET E /\ \A e \in heads : \A f \in E : Depth(f) = Depth(e) => e.first <= f.first
  OBVIOUS
<1>4. \A e \in E : \E f \in heads : Depth(f) = Depth(e)
  <2> SUFFICES ASSUME NEW e \in E PROVE \E f \in heads : Depth(f) = Depth(e)
    OBVIOUS
  <2> DEFINE places == {f.first : f \in {h \in E : Depth(h) = Depth(e)}}
  <2>1. places \in SUBSET Nat /\ places # {}
    BY <1>2
  <2>2. PICK n \in places : \A k \in places : ~(k < n)
    <3> HIDE DEF places
    <3> QED
      BY <2>1, Smallest
  <2>3. PICK f \in E : Depth(f) = Depth(e) /\ f.first = n
    BY <2>2
  <2>4. \A h \in E : Depth(h) = Depth(f) => f.first <= h.first
    <3>1. \A h \in E : Depth(h) = Depth(f) => h.first \in places
      BY <2>3
    <3> HIDE DEF places, Depth
    <3> QED
      BY <1>2, <2>2, <2>3, <3>1
  <2> QED
    BY <2>3, <2>4
<1> HIDE DEF heads, Depth
<1>5. at \in SUBSET (1..L) /\ \A n \in at : \E e \in heads : e.first = n
  BY <1>2, <1>3
<1>6. \A e \in heads : e.first \in at
  OBVIOUS
<1> HIDE DEF at, N
<1>7. /\ N \in Nat
      /\ \A n \in 1..N : Graphs!Nth(at, n) \in at
      /\ \A n \in at : Rank(at, n) \in 1..N /\ Graphs!Nth(at, Rank(at, n)) = n
      /\ \A k, n \in 1..N : k < n => Graphs!Nth(at, k) < Graphs!Nth(at, n)
  <2>1. N \in 0..L /\ \A n \in at : Rank(at, n) \in 1..N
    BY <1>5, Ranks DEF N
  <2>2. \A n \in 1..N : Graphs!Nth(at, n) \in at
    BY <1>5, NthOf DEF N
  <2>3. \A n \in at : Graphs!Nth(at, Rank(at, n)) = n
    BY <1>5, NthOf
  <2>4. \A k, n \in 1..N : k < n => Graphs!Nth(at, k) < Graphs!Nth(at, n)
    BY <1>5, NthOf DEF N
  <2>5. N \in Nat
    BY <2>1
  <2> QED
    BY <2>1, <2>2, <2>3, <2>4, <2>5
<1>8. ASSUME NEW n \in 1..N PROVE EarliestOf(n) \in heads /\ EarliestOf(n).first = Graphs!Nth(at, n)
  BY <1>5, <1>7
<1> HIDE DEF EarliestOf
<1>9. /\ Len(G) = N /\ Len(G) \in Nat /\ DOMAIN G = 1..Len(G)
      /\ \A n \in 1..N : /\ G[n].depth = Depth(EarliestOf(n))
                         /\ G[n].edges = {e \in E : Depth(e) = Depth(EarliestOf(n))}
  BY <1>7
<1> HIDE DEF G
<1>10. \A n \in 1..N : /\ G[n].edges = {e \in E : Depth(e) = G[n].depth}
                       /\ EarliestOf(n) \in E /\ Depth(EarliestOf(n)) = G[n].depth
  BY <1>3, <1>8, <1>9
<1>11. ASSUME NEW k \in 1..N, NEW n \in 1..N, G[k].depth = G[n].depth
       PROVE  k = n
  <2>1. EarliestOf(k) \in heads /\ EarliestOf(n) \in heads /\ Depth(EarliestOf(k)) = Depth(EarliestOf(n))
    BY <1>8, <1>10, <1>11
  <2>2. EarliestOf(k).first = EarliestOf(n).first
    BY <1>2, <1>3, <2>1
  <2>3. Graphs!Nth(at, k) = Graphs!Nth(at, n) /\ Graphs!Nth(at, k) \in Nat
    <3>1. EarliestOf(k).first = Graphs!Nth(at, k) /\ EarliestOf(n).first = Graphs!Nth(at, n)
      BY <1>8
    <3>2. Graphs!Nth(at, k) \in 1..L
      BY <1>5, <1>7
    <3>3. Graphs!Nth(at, k) = Graphs!Nth(at, n)
      BY <2>2, <3>1, Zenon
    <3>4. \A i \in 1..L : i \in Nat
      OBVIOUS
    <3> QED
      BY <3>2, <3>3, <3>4, Zenon
  <2>4. ~(k < n) /\ ~(n < k)
    BY <1>7, <2>3
  <2> QED
    BY <1>7, <2>4
<1>12. ASSUME NEW e \in E PROVE \E n \in 1..N : Depth(e) = G[n].depth
  <2>1. PICK f \in heads : Depth(f) = Depth(e)
    BY <1>4
  <2>2. f.first \in at /\ f \in E
    BY <1>3, <1>6
  <2>3. Rank(at, f.first) \in 1..N /\ Graphs!Nth(at, Rank(at, f.first)) = f.first
    BY <1>7, <2>2
  <2>4. EarliestOf(Rank(at, f.first)) \in E /\ EarliestOf(Rank(at, f.first)).first = f.first
    BY <1>3, <1>8, <2>3
  <2>5. EarliestOf(Rank(at, f.first)) = f
    BY <1>2, <2>2, <2>4
  <2> QED
    BY <1>9, <2>1, <2>3, <2>5
<1>13. GroupsOf(G, E, mode)
  BY <1>9, <1>10, <1>11, <1>12 DEF GroupsOf, Depth
<1> QED
  BY <1>1, <1>13 DEF G, EarliestOf, N, at, heads, Depth

\* What is kept of the first n groups: kept[n].
Near(g, K) == {e \in g.edges : g.depth = 1 \/ {e.inner, e.outer} \cap Graphs!Ends(K) # {}}
More(G, n, K) == Graphs!Largest(Near(G[n], K), Graphs!Share(G[n].depth, Graphs!Deepest(G)))
KeptBy(kept, G, E) ==
  /\ kept \in [0..Len(G) -> SUBSET E] /\ kept[0] = {}
  /\ \A n \in 1..Len(G) : kept[n] = kept[n - 1] \cup More(G, n, kept[n - 1])

\* limit_connected_edges goes through the groups one by one.
LEMMA KeptStepwise ==
  ASSUME NEW G, NEW E, Len(G) \in Nat, \A n \in 1..Len(G) : G[n].edges \subseteq E
  PROVE  \E kept : KeptBy(kept, G, E) /\ Graphs!limit_connected_edges(G) = kept[Len(G)]
<1> DEFINE L == Len(G)
           F == [n \in Nat |-> [K \in SUBSET E |-> IF n \in 1..L THEN K \cup More(G, n, K) ELSE K]]
           Solves(h) == h = [n \in 0..L |->
                               IF n = 0 THEN {}
                               ELSE LET g    == G[n]
                                        near == {e \in g.edges : g.depth = 1 \/
                                                                  {e.inner, e.outer} \cap Graphs!Ends(h[n - 1]) # {}}
                                    IN  h[n - 1] \cup Graphs!Largest(near, Graphs!Share(g.depth, Graphs!Deepest(G)))]
           kept == CHOOSE h : Solves(h)
<1>1. Graphs!limit_connected_edges(G) = kept[L]
  BY DEF Graphs!limit_connected_edges
<1>2. \A n \in 1..L : \A K \in SUBSET E : More(G, n, K) \in SUBSET E
  BY DEF More, Near, Graphs!Largest
<1>3. F \in [Nat -> [SUBSET E -> SUBSET E]] /\ {} \in SUBSET E
  BY <1>2
<1>4. \A n \in Nat : \A K \in SUBSET E : F[n][K] = IF n \in 1..L THEN K \cup More(G, n, K) ELSE K
  OBVIOUS
<1> HIDE DEF F
<1>5. PICK f : Iteration(f, {}, F, SUBSET E)
  BY <1>3, Iterated
<1> DEFINE h == [n \in 0..L |-> f[n]]
<1>6. KeptBy(h, G, E)
  <2>1. h \in [0..L -> SUBSET E] /\ h[0] = {}
    BY <1>5 DEF Iteration
  <2>2. ASSUME NEW n \in 1..L PROVE h[n] = h[n - 1] \cup More(G, n, h[n - 1])
    <3>1. n \in Nat /\ n # 0 /\ n - 1 \in Nat /\ n \in 0..L /\ n - 1 \in 0..L
      OBVIOUS
    <3>2. f[n] = F[n][f[n - 1]] /\ f[n - 1] \in SUBSET E
      BY <1>5, <3>1 DEF Iteration
    <3> QED
      BY <1>4, <3>1, <3>2
  <2> HIDE DEF h
  <2> QED
    BY <2>1, <2>2 DEF KeptBy
<1>7. \A k : Solves(k) <=> k = [n \in 0..L |-> IF n = 0 THEN {} ELSE k[n - 1] \cup More(G, n, k[n - 1])]
  BY DEF More, Near
<1> HIDE DEF Solves, h
<1>8. Solves(h)
  <2>1. \A n \in 0..L : h[n] = IF n = 0 THEN {} ELSE h[n - 1] \cup More(G, n, h[n - 1])
    BY <1>6 DEF KeptBy
  <2>2. h = [n \in 0..L |-> IF n = 0 THEN {} ELSE h[n - 1] \cup More(G, n, h[n - 1])]
    BY <1>6, <2>1 DEF KeptBy
  <2> QED
    BY <1>7, <2>2
<1>9. Solves(kept)
  BY <1>8
<1> HIDE DEF kept
<1>10. kept = [n \in 0..L |-> IF n = 0 THEN {} ELSE kept[n - 1] \cup More(G, n, kept[n - 1])]
  BY <1>7, <1>9
<1>11. kept[0] = {} /\ \A n \in 1..L : kept[n] = kept[n - 1] \cup More(G, n, kept[n - 1])
  <2>1. \A n \in 0..L : kept[n] = IF n = 0 THEN {} ELSE kept[n - 1] \cup More(G, n, kept[n - 1])
    BY <1>10
  <2>2. 0 \in 0..L /\ \A n \in 1..L : n \in 0..L /\ n # 0
    OBVIOUS
  <2> QED
    BY <2>1, <2>2
<1>12. DOMAIN kept = 0..L
  BY <1>10
<1>13. \A n \in 0..L : kept[n] \in SUBSET E
  <2> DEFINE wrong == {n \in 0..L : kept[n] \notin SUBSET E}
  <2> SUFFICES ASSUME wrong # {} PROVE FALSE
    OBVIOUS
  <2>1. PICK n \in wrong : \A k \in wrong : ~(k < n)
    <3>1. wrong \in SUBSET Nat
      OBVIOUS
    <3> HIDE DEF wrong
    <3> QED
      BY <3>1, Smallest
  <2>2. n \in 0..L /\ kept[n] \notin SUBSET E
    BY <2>1
  <2>3. n \in 1..L /\ n - 1 \in 0..L /\ n - 1 < n
    BY <1>11, <2>2
  <2>4. n - 1 \notin wrong
    <3> HIDE DEF wrong
    <3> QED
      BY <2>1, <2>3
  <2>5. kept[n - 1] \in SUBSET E
    BY <2>3, <2>4
  <2> QED
    BY <1>2, <1>11, <2>2, <2>3, <2>5
<1>14. KeptBy(kept, G, E)
  BY <1>10, <1>11, <1>12, <1>13 DEF KeptBy
<1> QED
  BY <1>1, <1>14

-----------------------------------------------------------------------------
(* What is drawn hangs together                                             *)

\* The ends of edges are the addresses they join.
LEMMA EndsAre == \A K, a : a \in Graphs!Ends(K) <=> \E e \in K : a = e.inner \/ a = e.outer
  BY DEF Graphs!Ends

\* X has both ends of a drawn edge or none.
Closed(X, D) == \A e \in D : e.inner \in X \/ e.outer \in X => e.inner \in X /\ e.outer \in X

\* One round of IsConnected.
Grow(D, X) == X \cup Graphs!Ends({e \in D : {e.inner, e.outer} \cap X # {}})

\* What is reached from the wallet is closed under the drawn edges, and a graph
\* with all its nodes in such a set is connected.
LEMMA Reaching ==
  ASSUME NEW g, \A e \in g.drawnEdges : e.inner \in Graphs!Addresses /\ e.outer \in Graphs!Addresses
  PROVE  \E X : /\ Root \in X /\ Closed(X, g.drawnEdges)
                /\ (\A i \in DOMAIN g.drawnNodes : g.drawnNodes[i].address \in X) => Graphs!IsConnected(g)
<1> DEFINE A == Graphs!Addresses
           D == g.drawnEdges
           N == Cardinality(A)
           F == [n \in Nat |-> [X \in SUBSET A |-> Grow(D, X)]]
           Solves(h) == h = [n \in Nat |->
                               IF n = 0 THEN {Root}
                               ELSE h[n - 1] \cup Graphs!Ends({e \in D : {e.inner, e.outer} \cap h[n - 1] # {}})]
           reach == CHOOSE h : Solves(h)
           drawn == {g.drawnNodes[i].address : i \in DOMAIN g.drawnNodes}
<1>1. Graphs!IsConnected(g) <=> drawn \subseteq reach[N]
  BY GraphCounting DEF Graphs!IsConnected
<1>2. /\ IsFiniteSet(A) /\ Root \in A /\ N \in Nat
  <2>1. IsFiniteSet(Others)
    BY GraphCounting, ReportsAssumption DEF Graphs!GraphAssumption
  <2>2. A = Others \cup {Root}
    BY DEF Graphs!Addresses
  <2> HIDE DEF A
  <2>3. IsFiniteSet(A)
    BY <2>1, <2>2, FS_AddElement
  <2> QED
    BY <2>2, <2>3, FS_CardinalityType
<1> HIDE DEF A, D
<1>3. \A X \in SUBSET A : Grow(D, X) \in SUBSET A
  <2>1. \A e \in D : e.inner \in A /\ e.outer \in A
    BY DEF A, D
  <2> SUFFICES ASSUME NEW X \in SUBSET A, NEW a \in Grow(D, X) PROVE a \in A
    OBVIOUS
  <2>2. a \in X \/ \E e \in D : a = e.inner \/ a = e.outer
    BY EndsAre DEF Grow
  <2> QED
    BY <2>1, <2>2
<1>4. F \in [Nat -> [SUBSET A -> SUBSET A]] /\ {Root} \in SUBSET A
  BY <1>2, <1>3
<1>5. \A n \in Nat : \A X \in SUBSET A : F[n][X] = Grow(D, X)
  OBVIOUS
<1> HIDE DEF F
<1>6. PICK f : Iteration(f, {Root}, F, SUBSET A)
  BY <1>4, Iterated
<1>7. \A h : Solves(h) <=> h = [n \in Nat |-> IF n = 0 THEN {Root} ELSE Grow(D, h[n - 1])]
  BY DEF Grow
<1> HIDE DEF Solves
<1>8. Solves(f)
  <2>1. ASSUME NEW n \in Nat PROVE f[n] = IF n = 0 THEN {Root} ELSE Grow(D, f[n - 1])
    <3>1. n # 0 => n - 1 \in Nat
      OBVIOUS
    <3>2. n # 0 => f[n] = F[n][f[n - 1]] /\ f[n - 1] \in SUBSET A
      BY <1>6, <3>1 DEF Iteration
    <3>3. f[0] = {Root}
      BY <1>6 DEF Iteration
    <3> QED
      BY <1>5, <3>2, <3>3
  <2>2. f = [n \in Nat |-> f[n]]
    BY <1>6 DEF Iteration
  <2>3. f = [n \in Nat |-> IF n = 0 THEN {Root} ELSE Grow(D, f[n - 1])]
    BY <2>1, <2>2
  <2> QED
    BY <1>7, <2>3
<1>9. Solves(reach)
  BY <1>8
<1> HIDE DEF reach
<1>10. reach[0] = {Root} /\ \A n \in Nat : reach[n + 1] = Grow(D, reach[n])
  <2>1. reach = [n \in Nat |-> IF n = 0 THEN {Root} ELSE Grow(D, reach[n - 1])]
    BY <1>7, <1>9
  <2>2. \A n \in Nat : reach[n] = IF n = 0 THEN {Root} ELSE Grow(D, reach[n - 1])
    BY <2>1
  <2>3. \A n \in Nat : n + 1 \in Nat /\ n + 1 # 0 /\ (n + 1) - 1 = n
    OBVIOUS
  <2> QED
    BY <2>2, <2>3
<1>11. \A n \in Nat : reach[n] \in SUBSET A /\ Root \in reach[n]
  <2> DEFINE wrong == {n \in Nat : ~(reach[n] \in SUBSET A /\ Root \in reach[n])}
  <2> SUFFICES ASSUME wrong # {} PROVE FALSE
    OBVIOUS
  <2>1. PICK n \in wrong : \A k \in wrong : ~(k < n)
    <3>1. wrong \in SUBSET Nat
      OBVIOUS
    <3> HIDE DEF wrong
    <3> QED
      BY <3>1, Smallest
  <2>2. n \in Nat /\ ~(reach[n] \in SUBSET A /\ Root \in reach[n])
    BY <2>1
  <2>3. n # 0
    BY <1>2, <1>10, <2>2
  <2>4. n - 1 \in Nat /\ n - 1 < n /\ (n - 1) + 1 = n
    BY <2>2, <2>3
  <2>5. n - 1 \notin wrong
    <3> HIDE DEF wrong
    <3> QED
      BY <2>1, <2>4
  <2>6. reach[n - 1] \in SUBSET A /\ Root \in reach[n - 1]
    BY <2>4, <2>5
  <2>7. reach[n] = Grow(D, reach[n - 1])
    BY <1>10, <2>4
  <2> QED
    BY <1>3, <2>2, <2>6, <2>7 DEF Grow
<1>12. reach[N + 1] = reach[N]
  <2> DEFINE q == [n \in Nat |-> reach[n]]
  <2>1. q \in [Nat -> SUBSET A]
    BY <1>11
  <2>2. \A n \in Nat : q[n] = reach[n] /\ q[n + 1] = reach[n + 1] /\ q[(n + 1) + 1] = reach[(n + 1) + 1]
    OBVIOUS
  <2> HIDE DEF q
  <2>3. q[0] # {}
    BY <1>11, <2>2
  <2>4. \A n \in Nat : q[n] \subseteq q[n + 1]
    BY <1>10, <2>2 DEF Grow
  <2>5. \A n \in Nat : q[n + 1] = q[n] => q[(n + 1) + 1] = q[n + 1]
    <3>1. \A n \in Nat : n + 1 \in Nat
      OBVIOUS
    <3> QED
      BY <1>10, <2>2, <3>1
  <2>6. q[N + 1] = q[N]
    BY <1>2, <2>1, <2>3, <2>4, <2>5, GrowthStops
  <2> QED
    BY <1>2, <2>2, <2>6
<1>13. Grow(D, reach[N]) = reach[N]
  BY <1>2, <1>10, <1>12
<1>14. Closed(reach[N], D)
  <2> SUFFICES ASSUME NEW e \in D, e.inner \in reach[N] \/ e.outer \in reach[N]
               PROVE  e.inner \in reach[N] /\ e.outer \in reach[N]
    BY DEF Closed
  <2>1. e \in {x \in D : {x.inner, x.outer} \cap reach[N] # {}}
    OBVIOUS
  <2>2. e.inner \in Graphs!Ends({x \in D : {x.inner, x.outer} \cap reach[N] # {}})
        /\ e.outer \in Graphs!Ends({x \in D : {x.inner, x.outer} \cap reach[N] # {}})
    BY <2>1, EndsAre
  <2> QED
    BY <1>13, <2>2 DEF Grow
<1>15. (\A i \in DOMAIN g.drawnNodes : g.drawnNodes[i].address \in reach[N]) => Graphs!IsConnected(g)
  BY <1>1
<1> QED
  BY <1>2, <1>11, <1>14, <1>15 DEF D

-----------------------------------------------------------------------------
(* The edges of a graph that is built                                       *)

\* Edges with the ends of transfers, one for each pair of ends.
EdgesOf(E, r, ns) ==
  /\ IsFiniteSet(E) /\ Placed(E, Len(r)) /\ Len(r) \in Nat
  /\ \A e \in E : e.first \in DOMAIN r /\ IsEdge(e, r, e.first, ns)
  /\ \A i \in DOMAIN r : \E e \in E : e.inner = r[i].inner /\ e.outer = r[i].outer

\* The edges of a graph that is built are edges of its transfers.
LEMMA GivenEdgesPlaced ==
  ASSUME Graphs!IInv, NEW m \in Graphs!Built
  PROVE  EdgesOf(GivenEdges(m), Given(m), GivenNodes(m))
<1> DEFINE r == Given(m)
           ns == GivenNodes(m)
           E == GivenEdges(m)
<1>1. r \in Seq(Graphs!Transfer)
  BY GivenTaken DEF Taken, Graphs!Built
<1>2. E = {Graphs!create_edge(r, i, ns) : i \in Graphs!Firsts(r)}
  BY GivenEdgesAre
<1> HIDE DEF r, ns, E
<1>3. PICK p : Divides(E, r, ns, p)
  BY <1>1, <1>2, EdgesDivide
<1>4. /\ IsFiniteSet(E) /\ p \in [DOMAIN r -> E]
      /\ \A e \in E : /\ e.first \in DOMAIN r /\ IsEdge(e, r, e.first, ns)
                      /\ {i \in DOMAIN r : p[i] = e} = Same(r, e.first)
  BY <1>3 DEF Divides
<1>5. \A i \in DOMAIN r : p[i].inner = r[i].inner /\ p[i].outer = r[i].outer
  <2> SUFFICES ASSUME NEW i \in DOMAIN r PROVE p[i].inner = r[i].inner /\ p[i].outer = r[i].outer
    OBVIOUS
  <2>1. p[i] \in E /\ i \in {j \in DOMAIN r : p[j] = p[i]}
    BY <1>4
  <2>2. i \in Same(r, p[i].first) /\ IsEdge(p[i], r, p[i].first, ns)
    BY <1>4, <2>1
  <2> QED
    BY <2>2 DEF Same, IsEdge
<1>6. \A e, f \in E : e.first = f.first => e = f
  <2>1. \A e \in E : e.first \in Same(r, e.first)
    BY <1>4 DEF Same
  <2>2. \A e \in E : p[e.first] = e
    BY <1>4, <2>1
  <2> QED
    BY <2>2
<1>7. Placed(E, Len(r)) /\ Len(r) \in Nat
  BY <1>1, <1>4, <1>6, Listed DEF Placed
<1>8. \A i \in DOMAIN r : \E e \in E : e.inner = r[i].inner /\ e.outer = r[i].outer
  BY <1>4, <1>5
<1> QED
  BY <1>4, <1>7, <1>8 DEF EdgesOf, E, r, ns

\* The ends of an edge are addresses with nodes, whose ids it has.
LEMMA EndsHaveNodes ==
  ASSUME Graphs!IInv, NEW m \in Graphs!Built, NEW e \in GivenEdges(m)
  PROVE  /\ e.inner \in Graphs!Addresses /\ e.outer \in Graphs!Addresses
         /\ \E k \in DOMAIN GivenNodes(m) : GivenNodes(m)[k].address = e.inner /\ GivenNodes(m)[k].id = e.from
         /\ \E k \in DOMAIN GivenNodes(m) : GivenNodes(m)[k].address = e.outer /\ GivenNodes(m)[k].id = e.to
<1> DEFINE r == Given(m)
           ns == GivenNodes(m)
<1>1. m \in Graphs!Modes /\ result[m] # <<>>
  BY DEF Graphs!Built
<1>2. e.first \in DOMAIN r /\ IsEdge(e, r, e.first, ns)
  BY GivenEdgesPlaced DEF EdgesOf
<1>3. r \in Seq(Graphs!Transfer)
  BY <1>1, GivenTaken DEF Taken
<1>4. r[e.first].inner \in Graphs!Known(ns) /\ r[e.first].outer \in Graphs!Known(ns)
  BY <1>2, GivenEdgesAre
<1>5. \A a \in Graphs!Known(ns) : \E k \in DOMAIN ns : ns[k].address = a /\ Graphs!IdOf(ns, a) = ns[k].id
  BY <1>1, IdsOfKnown
<1> HIDE DEF r, ns
<1>6. r[e.first].inner \in Graphs!Addresses /\ r[e.first].outer \in Graphs!Addresses
  BY <1>2, <1>3, Listed
<1>7. /\ e.inner = r[e.first].inner /\ e.outer = r[e.first].outer
      /\ e.from = Graphs!IdOf(ns, r[e.first].inner) /\ e.to = Graphs!IdOf(ns, r[e.first].outer)
  BY <1>2 DEF IsEdge
<1>8. \E k \in DOMAIN ns : ns[k].address = e.inner /\ ns[k].id = e.from
  BY <1>4, <1>5, <1>7
<1>9. \E k \in DOMAIN ns : ns[k].address = e.outer /\ ns[k].id = e.to
  BY <1>4, <1>5, <1>7
<1> QED
  BY <1>6, <1>7, <1>8, <1>9 DEF ns

\* One step from the wallet a destination's transfer starts there, or it is the way
\* back of one that does.
LEMMA OneStepTouches ==
  ASSUME NEW s \in Seq(Graphs!Transfer), Graphs!Received(1, s)
  PROVE  \A i \in DOMAIN s : s[i].depth = 1 => s[i].inner = Root \/ s[i].outer = Root
<1> DEFINE wrong == {i \in DOMAIN s : s[i].depth = 1 /\ s[i].inner # Root /\ s[i].outer # Root}
<1> SUFFICES ASSUME wrong # {} PROVE FALSE
  OBVIOUS
<1>1. PICK i \in wrong : \A j \in 1..(i - 1) : j \in DOMAIN s /\ j \notin wrong
  <2>1. wrong \in SUBSET DOMAIN s
    OBVIOUS
  <2> HIDE DEF wrong
  <2> QED
    BY <2>1, FirstWith
<1>2. i \in DOMAIN s /\ s[i].depth = 1 /\ s[i].inner # Root /\ s[i].outer # Root
  BY <1>1
<1>3. 1 \in Graphs!Modes /\ \A j \in DOMAIN s : s[j] \in Graphs!Transfer
  BY Listed DEF Graphs!Modes
<1>4. \A j \in DOMAIN s : Graphs!Hops(1, s[j]) = s[j].depth /\ s[j].depth \in Int
  BY <1>3, HopsAreWhole
<1>5. PICK j \in 1..(i - 1) : Graphs!Continues(1, s[j], s[i])
  BY <1>2 DEF Graphs!Received
<1>6. j \in DOMAIN s /\ j \notin wrong
  BY <1>1
<1>7. s[j].depth >= 1
  BY <1>3, <1>4, <1>6, HopsAreWhole DEF Graphs!Received
<1>8. s[j].depth = 1 /\ s[i].inner = s[j].outer /\ s[i].outer = s[j].inner
  <2>1. ~(s[i].depth = s[j].depth + 1)
    BY <1>2, <1>4, <1>6, <1>7
  <2>2. s[i].depth = s[j].depth /\ s[i].inner = s[j].outer /\ (1 = -1 \/ s[i].outer = s[j].inner)
    BY <1>2, <1>4, <1>5, <1>6, <2>1 DEF Graphs!Continues
  <2> QED
    BY <1>2, <2>2
<1> QED
  BY <1>2, <1>6, <1>8

\* The groups of destinations are numbered from depth 1 up, and what is in that of
\* depth 1 touches the wallet.  Sources have no group of depth 1.
LEMMA ShiftedEdges ==
  ASSUME Graphs!IInv, NEW m \in Graphs!Built, NEW e \in GivenEdges(m)
  PROVE  /\ e.depth \in Int /\ Graphs!Farthest \in Nat
         /\ Graphs!Shifted(e, m) = (IF m = -1 THEN e.depth + 1 ELSE e.depth)
         /\ m = 1 => Graphs!Shifted(e, m) = e.depth /\ e.depth \in 1..Graphs!Farthest
         /\ Graphs!Shifted(e, m) = 1 => e.inner = Root \/ e.outer = Root
<1> DEFINE i == e.first
           t == Given(m)[i]
<1>1. m \in Graphs!Modes /\ result[m] # <<>> /\ m \in {1, -1} /\ 1 # -1
  BY DEF Graphs!Built, Graphs!Modes
<1>2. /\ i \in DOMAIN Given(m) /\ e.depth = t.depth /\ e.inner = t.inner
      /\ e.outer = t.outer
  BY GivenEdgesPlaced DEF EdgesOf, IsEdge
<1>3. PICK j \in DOMAIN result[m] : t = result[m][j]
  BY <1>1, <1>2, GivenTaken DEF Taken
<1>4. /\ t \in Graphs!Transfer /\ t.depth \in Int /\ Graphs!Farthest \in Nat
      /\ Graphs!Hops(m, t) \in 1..Graphs!Farthest
  BY <1>1, <1>2, GivenDepths
<1>5. m = 1 => Graphs!Hops(m, t) = t.depth
  BY <1>1, <1>4, HopsAreWhole
<1>6. m = -1 => t.depth >= 1 \/ t.depth <= -1
  <2>1. Graphs!Hops(m, t) = t.depth \/ Graphs!Hops(m, t) = -t.depth
    BY <1>1, <1>4, HopsAreWhole
  <2> QED
    BY <1>4, <2>1
<1>7. m = 1 /\ t.depth = 1 => t.inner = Root \/ t.outer = Root
  <2>1. result[m] \in Seq(Graphs!Transfer) /\ Graphs!Received(m, result[m])
    BY <1>1 DEF Graphs!IInv
  <2> QED
    BY <1>3, <2>1, OneStepTouches
<1> HIDE DEF i, t
<1>8. Graphs!Shifted(e, m) = (IF m = -1 THEN e.depth + 1 ELSE e.depth)
  BY DEF Graphs!Shifted
<1>9. m = -1 => Graphs!Shifted(e, m) # 1
  BY <1>2, <1>4, <1>6, <1>8
<1> QED
  BY <1>1, <1>2, <1>4, <1>5, <1>7, <1>8, <1>9

-----------------------------------------------------------------------------
(* The lossy graph                                                          *)

\* What make_lossy_graph has gone through.
LossyBy(kept, G, E, m) ==
  /\ GroupsOf(G, E, m) /\ KeptBy(kept, G, E)
  /\ Lossy(m).edges = kept[Len(G)] /\ Lossy(m).keys = Graphs!Ends(kept[Len(G)])

\* make_lossy_graph groups the edges of a half and goes through the groups.
LEMMA LossySteps ==
  ASSUME Graphs!IInv, NEW m \in Graphs!Built
  PROVE  \E kept : LossyBy(kept, Graphs!group_by_depth(GivenEdges(m), m), GivenEdges(m), m)
<1> DEFINE E == GivenEdges(m)
           G == Graphs!group_by_depth(E, m)
<1>1. Placed(E, Len(Given(m))) /\ Len(Given(m)) \in Nat
  BY GivenEdgesPlaced DEF EdgesOf
<1> HIDE DEF E
<1>2. GroupsOf(G, E, m)
  BY <1>1, Grouping
<1>3. Lossy(m).edges = Graphs!limit_connected_edges(G) /\ Lossy(m).keys = Graphs!Ends(Graphs!limit_connected_edges(G))
  BY DEF Lossy, Graphs!make_lossy_graph, E
<1> HIDE DEF G
<1>4. Len(G) \in Nat /\ \A n \in 1..Len(G) : G[n].edges \subseteq E
  BY <1>2 DEF GroupsOf
<1>5. PICK kept : KeptBy(kept, G, E) /\ Graphs!limit_connected_edges(G) = kept[Len(G)]
  BY <1>4, KeptStepwise
<1>6. LossyBy(kept, G, E, m)
  BY <1>2, <1>3, <1>5 DEF LossyBy
<1> QED
  BY <1>6 DEF E, G

\* What is kept grows, group by group.
LEMMA KeptGrows ==
  ASSUME NEW G, NEW E, NEW kept, KeptBy(kept, G, E), Len(G) \in Nat, NEW n \in 0..Len(G)
  PROVE  kept[n] \subseteq kept[Len(G)]
<1> DEFINE wrong == {k \in Nat : k <= Len(G) /\ ~(kept[Len(G) - k] \subseteq kept[Len(G)])}
<1>1. wrong = {}
  <2> SUFFICES ASSUME wrong # {} PROVE FALSE
    OBVIOUS
  <2>1. PICK k \in wrong : \A l \in wrong : ~(l < k)
    <3>1. wrong \in SUBSET Nat
      OBVIOUS
    <3> HIDE DEF wrong
    <3> QED
      BY <3>1, Smallest
  <2>2. k \in Nat /\ k <= Len(G) /\ ~(kept[Len(G) - k] \subseteq kept[Len(G)])
    BY <2>1
  <2>3. k # 0
    BY <2>2
  <2>4. /\ k - 1 \in Nat /\ k - 1 < k /\ k - 1 <= Len(G)
        /\ Len(G) - (k - 1) \in 1..Len(G) /\ (Len(G) - (k - 1)) - 1 = Len(G) - k
    BY <2>2, <2>3
  <2>5. k - 1 \notin wrong
    <3> HIDE DEF wrong
    <3> QED
      BY <2>1, <2>4
  <2>6. kept[Len(G) - (k - 1)] \subseteq kept[Len(G)]
    BY <2>4, <2>5
  <2>7. kept[Len(G) - k] \subseteq kept[Len(G) - (k - 1)]
    BY <2>4 DEF KeptBy
  <2> QED
    BY <2>2, <2>6, <2>7
<1>2. Len(G) - n \in Nat /\ Len(G) - n <= Len(G) /\ Len(G) - (Len(G) - n) = n
  OBVIOUS
<1>3. Len(G) - n \notin wrong
  BY <1>1
<1> QED
  BY <1>2, <1>3

\* A set closed under the edges that are kept, with the ends of all of the first
\* group, has the ends of all that are kept; and what is kept at all is kept
\* from the wallet on.
LEMMA KeptFromRoot ==
  ASSUME Graphs!IInv, NEW m \in Graphs!Built,
         NEW kept, LossyBy(kept, Graphs!group_by_depth(GivenEdges(m), m), GivenEdges(m), m)
  PROVE  /\ Lossy(m).edges # {} => Root \in Lossy(m).keys
         /\ Lossy(m).edges \subseteq GivenEdges(m) /\ Lossy(m).keys = Graphs!Ends(Lossy(m).edges)
         /\ \A X : Root \in X /\ Closed(X, Lossy(m).edges) => Lossy(m).keys \subseteq X
<1> DEFINE E == GivenEdges(m)
           G == Graphs!group_by_depth(E, m)
<1> HIDE DEF G
<1>1. /\ Len(G) \in Nat /\ 0 \in 0..Len(G) /\ Len(G) \in 0..Len(G)
      /\ Lossy(m).edges = kept[Len(G)] /\ Lossy(m).keys = Graphs!Ends(kept[Len(G)])
      /\ KeptBy(kept, G, E)
  BY DEF LossyBy, GroupsOf, G
<1>2. \A n \in 0..Len(G) : kept[n] \subseteq Lossy(m).edges /\ kept[n] \subseteq E
  BY <1>1, KeptGrows DEF KeptBy
<1>3. ASSUME NEW n \in 1..Len(G), NEW e \in kept[n]
      PROVE  \/ e \in kept[n - 1] \/ e.inner = Root \/ e.outer = Root
             \/ \E f \in kept[n - 1] : \/ e.inner = f.inner \/ e.inner = f.outer
                                       \/ e.outer = f.inner \/ e.outer = f.outer
  <2>1. e \in kept[n - 1] \/ e \in More(G, n, kept[n - 1])
    BY <1>1, <1>3 DEF KeptBy
  <2>2. ASSUME e \in More(G, n, kept[n - 1]) PROVE e \in Near(G[n], kept[n - 1])
    BY <2>2 DEF More, Graphs!Largest
  <2>3. ASSUME e \in Near(G[n], kept[n - 1]), G[n].depth = 1
        PROVE  e.inner = Root \/ e.outer = Root
    <3>1. e \in E /\ Graphs!Shifted(e, m) = 1
      BY <2>3 DEF Near, LossyBy, GroupsOf, G
    <3> QED
      BY <3>1, ShiftedEdges
  <2>4. ASSUME e \in Near(G[n], kept[n - 1]), G[n].depth # 1
        PROVE  \E f \in kept[n - 1] : \/ e.inner = f.inner \/ e.inner = f.outer
                                      \/ e.outer = f.inner \/ e.outer = f.outer
    <3>1. {e.inner, e.outer} \cap Graphs!Ends(kept[n - 1]) # {}
      BY <2>4 DEF Near
    <3> QED
      BY <3>1, EndsAre
  <2> QED
    BY <2>1, <2>2, <2>3, <2>4
<1>4. \A n \in 0..Len(G) : kept[n] # {} => \E e \in kept[n] : e.inner = Root \/ e.outer = Root
  <2> DEFINE wrong == {n \in 0..Len(G) : ~(kept[n] # {} => \E e \in kept[n] : e.inner = Root \/ e.outer = Root)}
  <2> SUFFICES ASSUME wrong # {} PROVE FALSE
    OBVIOUS
  <2>1. PICK n \in wrong : \A k \in wrong : ~(k < n)
    <3>1. wrong \in SUBSET Nat
      OBVIOUS
    <3> HIDE DEF wrong
    <3> QED
      BY <3>1, Smallest
  <2>2. n \in 0..Len(G) /\ kept[n] # {} /\ \A e \in kept[n] : e.inner # Root /\ e.outer # Root
    BY <2>1
  <2>3. n # 0
    BY <1>1, <2>2 DEF KeptBy
  <2>4. n \in 1..Len(G) /\ n - 1 \in 0..Len(G) /\ n - 1 < n
    BY <1>1, <2>2, <2>3
  <2>5. n - 1 \notin wrong
    <3> HIDE DEF wrong
    <3> QED
      BY <2>1, <2>4
  <2>6. kept[n - 1] \subseteq kept[n]
    BY <1>1, <2>4 DEF KeptBy
  <2>7. kept[n - 1] = {}
    BY <2>2, <2>4, <2>5, <2>6
  <2> QED
    BY <1>3, <2>2, <2>4, <2>7
<1>5. Lossy(m).edges # {} => Root \in Lossy(m).keys
  BY <1>1, <1>4, EndsAre
<1>6. ASSUME NEW X, Root \in X, Closed(X, Lossy(m).edges)
      PROVE  Lossy(m).keys \subseteq X
  <2> DEFINE wrong == {n \in 0..Len(G) : ~\A e \in kept[n] : e.inner \in X /\ e.outer \in X}
  <2>1. wrong = {}
    <3> SUFFICES ASSUME wrong # {} PROVE FALSE
      OBVIOUS
    <3>1. PICK n \in wrong : \A k \in wrong : ~(k < n)
      <4>1. wrong \in SUBSET Nat
        OBVIOUS
      <4> HIDE DEF wrong
      <4> QED
        BY <4>1, Smallest
    <3>2. n \in 0..Len(G) /\ ~\A e \in kept[n] : e.inner \in X /\ e.outer \in X
      BY <3>1
    <3>3. n # 0
      BY <1>1, <3>2 DEF KeptBy
    <3>4. n \in 1..Len(G) /\ n - 1 \in 0..Len(G) /\ n - 1 < n
      BY <1>1, <3>2, <3>3
    <3>5. n - 1 \notin wrong
      <4> HIDE DEF wrong
      <4> QED
        BY <3>1, <3>4
    <3>6. \A e \in kept[n - 1] : e.inner \in X /\ e.outer \in X
      BY <3>4, <3>5
    <3>7. PICK e \in kept[n] : ~(e.inner \in X /\ e.outer \in X)
      BY <3>2
    <3>8. e.inner \in X \/ e.outer \in X
      BY <1>3, <1>6, <3>4, <3>6, <3>7
    <3>9. e \in Lossy(m).edges
      BY <1>2, <3>2
    <3> QED
      BY <1>6, <3>7, <3>8, <3>9 DEF Closed
  <2>2. \A e \in kept[Len(G)] : e.inner \in X /\ e.outer \in X
    BY <1>1, <2>1
  <2> QED
    BY <1>1, <2>2, EndsAre
<1>7. Lossy(m).edges \subseteq GivenEdges(m) /\ Lossy(m).keys = Graphs!Ends(Lossy(m).edges)
  BY <1>1, <1>2
<1> QED
  BY <1>5, <1>6, <1>7

-----------------------------------------------------------------------------
(* What is drawn of a half                                                  *)

NodeType(m) == [id : {m * k : k \in 0..Len(result[m])}, address : Graphs!Addresses,
                level : (-Graphs!Farthest - 1)..Graphs!Farthest]

\* Nodes of the half, the root first, and its edges between them.
HalfDrawnAs(dn, D, m) ==
  LET ns == GivenNodes(m)
  IN  /\ dn \in Seq(NodeType(m)) /\ Len(dn) \in Nat /\ Len(dn) >= 1 /\ DOMAIN dn = 1..Len(dn)
      /\ dn[1] = ns[1]
      /\ \A k \in DOMAIN dn : \E n \in DOMAIN ns : dn[k] = ns[n]
      /\ \A k, l \in DOMAIN dn : dn[k].id = dn[l].id => k = l
      /\ D \subseteq GivenEdges(m)
      /\ \A e \in D : /\ \E k \in DOMAIN dn : dn[k].id = e.from
                      /\ \E k \in DOMAIN dn : dn[k].id = e.to
HalfDrawn(g, m) == HalfDrawnAs(g.drawnNodes, g.drawnEdges, m)

\* Elements picked keep their order, the first of all if it is picked.
LEMMA PickedFirst ==
  ASSUME NEW T, NEW s \in Seq(T), NEW S \in SUBSET DOMAIN s, 1 \in S
  PROVE  /\ Graphs!Pick(s, S)[1] = s[1] /\ Cardinality(S) >= 1
         /\ \A k, l \in 1..Cardinality(S) : Graphs!Nth(S, k) = Graphs!Nth(S, l) => k = l
<1> DEFINE N == Cardinality(S)
<1>1. /\ N \in Nat /\ \A k \in 1..N : Graphs!Pick(s, S)[k] = s[Graphs!Nth(S, k)] /\ Graphs!Nth(S, k) \in S
      /\ \A i \in S : Rank(S, i) \in 1..N /\ Graphs!Nth(S, Rank(S, i)) = i
      /\ \A i, j \in S : i < j => Rank(S, i) < Rank(S, j)
  BY Picked
<1>2. /\ \A k, l \in 1..N : k < l => Graphs!Nth(S, k) < Graphs!Nth(S, l)
      /\ \A k \in 1..N : Rank(S, Graphs!Nth(S, k)) = k
  <2>1. S \in SUBSET (1..Len(s)) /\ Len(s) \in Nat
    OBVIOUS
  <2> QED
    BY <2>1, NthOf
<1> HIDE DEF N
<1>3. Rank(S, 1) \in 1..N
  BY <1>1
<1>4. 1 \in 1..N
  BY <1>1, <1>3
<1>5. Graphs!Nth(S, 1) \in S /\ Graphs!Nth(S, 1) \in Nat /\ Graphs!Nth(S, 1) >= 1
  <2>1. \A i \in S : i \in Nat /\ i >= 1
    OBVIOUS
  <2> QED
    BY <1>1, <1>4, <2>1
<1>6. Rank(S, Graphs!Nth(S, 1)) = 1
  BY <1>2, <1>4
<1>7. ~(1 < Graphs!Nth(S, 1))
  BY <1>1, <1>3, <1>5, <1>6
<1>8. Graphs!Nth(S, 1) = 1
  BY <1>5, <1>7
<1>9. Graphs!Pick(s, S)[1] = s[1] /\ N >= 1
  BY <1>1, <1>4, <1>8
<1>10. \A k, l \in 1..N : Graphs!Nth(S, k) = Graphs!Nth(S, l) => k = l
  BY <1>2, Zenon
<1> QED
  BY <1>9, <1>10 DEF N

\* Whether it is cut or not, a half is drawn with the wallet and with the nodes its
\* edges ask for.
LEMMA HalfIsDrawn ==
  ASSUME Graphs!IInv, NEW m \in Graphs!Built
  PROVE  HalfDrawn(Graphs!Graph(m), m)
<1> DEFINE g == Graphs!Graph(m)
           ns == GivenNodes(m)
           keys == Lossy(m).keys
           S == {i \in DOMAIN ns : ns[i].address \in keys}
<1>1. m \in Graphs!Modes /\ result[m] # <<>> /\ kind # "btc"
  BY BuiltKind
<1>2. Built(g, m)
  BY <1>1, GraphIs
<1>3. ns \in Seq(NodeType(m))
  <2>1. g.nodes \in Seq(NodeType(m))
    BY GraphTypes DEF Graphs!TypeOK, NodeType
  <2> QED
    BY <1>2, <2>1 DEF Built
<1>4. /\ DOMAIN ns = 1..Len(ns) /\ Len(ns) \in Nat /\ Len(ns) >= 1 /\ ns[1].address = Root
      /\ \A k, l \in DOMAIN ns : ns[k].id = ns[l].id => k = l
      /\ \A k, l \in DOMAIN ns : ns[k].address = ns[l].address => k = l
  BY <1>1, GivenNodesAre DEF NodesOf
<1>5. \A e \in GivenEdges(m) :
        /\ \E k \in DOMAIN ns : ns[k].address = e.inner /\ ns[k].id = e.from
        /\ \E k \in DOMAIN ns : ns[k].address = e.outer /\ ns[k].id = e.to
  BY EndsHaveNodes
<1>6. CASE ~IsCut(m)
  <2>1. g.drawnNodes = ns /\ g.drawnEdges = GivenEdges(m)
    BY <1>2, <1>6 DEF Built
  <2>2. \A k \in DOMAIN ns : \E n \in DOMAIN ns : ns[k] = ns[n]
    OBVIOUS
  <2>3. HalfDrawnAs(ns, GivenEdges(m), m)
    <3>1. \A e \in GivenEdges(m) : /\ \E k \in DOMAIN ns : ns[k].id = e.from
                                   /\ \E k \in DOMAIN ns : ns[k].id = e.to
      BY <1>5
    <3> QED
      BY <1>3, <1>4, <2>2, <3>1, Zenon DEF HalfDrawnAs
  <2> HIDE DEF g, ns
  <2> QED
    BY <2>1, <2>3 DEF HalfDrawn, g
<1>7. CASE IsCut(m)
  <2>1. g.drawnNodes = Graphs!Pick(ns, S) /\ g.drawnEdges = Lossy(m).edges
    BY <1>2, <1>7 DEF Built
  <2>2. Lossy(m).edges # {}
    BY <1>7 DEF IsCut
  <2>3. Root \in keys /\ Lossy(m).edges \subseteq GivenEdges(m) /\ keys = Graphs!Ends(Lossy(m).edges)
    BY <2>2, LossySteps, KeptFromRoot
  <2>4. S \in SUBSET DOMAIN ns /\ 1 \in S
    BY <1>4, <2>3
  <2>5. \A e \in Lossy(m).edges : e.inner \in keys /\ e.outer \in keys
    BY <2>3, EndsAre
  <2>6. \A i \in S : i \in DOMAIN ns
    OBVIOUS
  <2>7. \A i \in DOMAIN ns : ns[i].address \in keys => i \in S
    OBVIOUS
  <2> DEFINE dn == Graphs!Pick(ns, S)
  <2> HIDE DEF g, ns, S, keys, dn
  <2>8. /\ dn \in Seq(NodeType(m)) /\ Len(dn) = Cardinality(S) /\ Cardinality(S) \in Nat
        /\ \A k \in 1..Cardinality(S) : dn[k] = ns[Graphs!Nth(S, k)] /\ Graphs!Nth(S, k) \in S
        /\ \A i \in S : Rank(S, i) \in 1..Cardinality(S) /\ dn[Rank(S, i)] = ns[i]
    <3>1. IsFiniteSet(S)
      BY <1>3, <2>4, Picked, Zenon
    <3>2. Cardinality(S) \in Nat
      BY <3>1, FS_CardinalityType, Zenon
    <3>3. dn \in Seq(NodeType(m)) /\ Len(dn) = Cardinality(S)
      BY <1>3, <2>4, Picked, Zenon DEF dn
    <3>4. \A k \in 1..Cardinality(S) : dn[k] = ns[Graphs!Nth(S, k)] /\ Graphs!Nth(S, k) \in S
      BY <1>3, <2>4, Picked, Zenon DEF dn
    <3>5. \A i \in S : Rank(S, i) \in 1..Cardinality(S) /\ dn[Rank(S, i)] = ns[i]
      BY <1>3, <2>4, Picked, Zenon DEF dn
    <3> QED
      BY <3>2, <3>3, <3>4, <3>5, Zenon
  <2>9. /\ dn[1] = ns[1] /\ Cardinality(S) >= 1
        /\ \A k, l \in 1..Cardinality(S) : Graphs!Nth(S, k) = Graphs!Nth(S, l) => k = l
    BY <1>3, <2>4, PickedFirst, Zenon DEF dn
  <2>10. DOMAIN dn = 1..Cardinality(S)
    BY <2>8
  <2>11. \A k \in DOMAIN dn : \E n \in DOMAIN ns : dn[k] = ns[n]
    BY <2>6, <2>8, <2>10
  <2>12. \A k, l \in DOMAIN dn : dn[k].id = dn[l].id => k = l
    <3> SUFFICES ASSUME NEW k \in DOMAIN dn, NEW l \in DOMAIN dn, dn[k].id = dn[l].id PROVE k = l
      OBVIOUS
    <3>1. /\ dn[k] = ns[Graphs!Nth(S, k)] /\ Graphs!Nth(S, k) \in DOMAIN ns
          /\ dn[l] = ns[Graphs!Nth(S, l)] /\ Graphs!Nth(S, l) \in DOMAIN ns
      BY <2>6, <2>8, <2>10
    <3>2. Graphs!Nth(S, k) = Graphs!Nth(S, l)
      BY <1>4, <3>1
    <3> QED
      BY <2>9, <2>10, <3>2
  <2>13. ASSUME NEW e \in Lossy(m).edges
         PROVE  /\ \E k \in DOMAIN dn : dn[k].id = e.from
                /\ \E k \in DOMAIN dn : dn[k].id = e.to
    <3>1. /\ \E k \in S : ns[k].id = e.from
          /\ \E k \in S : ns[k].id = e.to
      BY <1>5, <2>3, <2>5, <2>7
    <3> QED
      BY <2>8, <2>10, <3>1
  <2>14. HalfDrawnAs(dn, Lossy(m).edges, m)
    <3>1. Len(dn) \in Nat /\ Len(dn) >= 1 /\ DOMAIN dn = 1..Len(dn)
      BY <2>8, <2>9, <2>10
    <3> QED
      BY <2>3, <2>8, <2>9, <2>11, <2>12, <2>13, <3>1, Zenon DEF HalfDrawnAs, ns
  <2> QED
    BY <2>1, <2>14 DEF HalfDrawn, g, dn
<1> QED
  BY <1>6, <1>7

-----------------------------------------------------------------------------
(* What is drawn hangs together                                             *)

\* A set closed under the edges of transfers that follow each other from the
\* wallet has the ends of all of them.
LEMMA FollowedFromRoot ==
  ASSUME NEW r \in Seq(Graphs!Transfer), Following(r), NEW ns, NEW E, EdgesOf(E, r, ns),
         NEW X, Root \in X, Closed(X, E)
  PROVE  \A i \in DOMAIN r : r[i].inner \in X /\ r[i].outer \in X
<1> DEFINE wrong == {i \in DOMAIN r : ~(r[i].inner \in X /\ r[i].outer \in X)}
<1> SUFFICES ASSUME wrong # {} PROVE FALSE
  OBVIOUS
<1>1. PICK i \in wrong : \A j \in 1..(i - 1) : j \in DOMAIN r /\ j \notin wrong
  <2>1. wrong \in SUBSET DOMAIN r
    OBVIOUS
  <2> HIDE DEF wrong
  <2> QED
    BY <2>1, FirstWith
<1>2. i \in DOMAIN r /\ ~(r[i].inner \in X /\ r[i].outer \in X)
  BY <1>1
<1>3. r[i].inner \in X
  <2>1. \A j \in 1..(i - 1) : r[j].outer \in X
    BY <1>1
  <2> QED
    BY <1>2, <2>1 DEF Following
<1>4. PICK e \in E : e.inner = r[i].inner /\ e.outer = r[i].outer
  BY <1>2 DEF EdgesOf
<1> QED
  BY <1>2, <1>3, <1>4 DEF Closed

\* What is drawn of a half is reached from the wallet.
LEMMA DrawnIsConnected ==
  ASSUME Graphs!IInv, NEW m \in Graphs!Built, kind # "btcpath"
  PROVE  Graphs!IsConnected(Graphs!Graph(m))
<1> DEFINE g == Graphs!Graph(m)
           r == Given(m)
           ns == GivenNodes(m)
<1>1. m \in Graphs!Modes /\ result[m] # <<>> /\ kind # "btc"
  BY BuiltKind
<1>2. Built(g, m) /\ HalfDrawn(g, m) /\ NodesOf(ns, m)
  BY <1>1, GraphIs, HalfIsDrawn, GivenNodesAre
<1>3. r \in Seq(Graphs!Transfer) /\ Following(r)
  BY <1>1, GivenTaken DEF Taken
<1>4. EdgesOf(GivenEdges(m), r, ns)
  BY GivenEdgesPlaced
<1>5. \A e \in g.drawnEdges : e.inner \in Graphs!Addresses /\ e.outer \in Graphs!Addresses
  <2>1. g.drawnEdges \subseteq GivenEdges(m)
    BY <1>2 DEF HalfDrawn, HalfDrawnAs
  <2> QED
    BY <2>1, EndsHaveNodes
<1>6. PICK X : /\ Root \in X /\ Closed(X, g.drawnEdges)
               /\ (\A i \in DOMAIN g.drawnNodes : g.drawnNodes[i].address \in X) => Graphs!IsConnected(g)
  <2> HIDE DEF g
  <2> QED
    BY <1>5, Reaching
<1>7. CASE ~IsCut(m)
  <2>1. g.drawnNodes = ns /\ g.drawnEdges = GivenEdges(m)
    BY <1>2, <1>7 DEF Built
  <2>2. \A i \in DOMAIN ns : ns[i].address \in {Root} \cup {r[j].outer : j \in DOMAIN r}
    BY <1>2 DEF NodesOf, Graphs!Known
  <2> HIDE DEF g, r, ns
  <2>3. \A i \in DOMAIN r : r[i].outer \in X
    BY <1>3, <1>4, <1>6, <2>1, FollowedFromRoot
  <2> QED
    BY <1>6, <2>1, <2>2, <2>3 DEF g
<1>8. CASE IsCut(m)
  <2> DEFINE S == {i \in DOMAIN ns : ns[i].address \in Lossy(m).keys}
  <2>1. g.drawnNodes = Graphs!Pick(ns, S) /\ g.drawnEdges = Lossy(m).edges
    BY <1>2, <1>8 DEF Built, IsCut
  <2>2. Lossy(m).keys \subseteq X
    BY <1>6, <2>1, LossySteps, KeptFromRoot
  <2>3. ns \in Seq(NodeType(m))
    <3>1. g.nodes \in Seq(NodeType(m))
      BY GraphTypes DEF Graphs!TypeOK, NodeType
    <3> QED
      BY <1>2, <3>1 DEF Built
  <2>4. S \in SUBSET DOMAIN ns /\ \A i \in S : ns[i].address \in X
    BY <2>2
  <2> HIDE DEF g, r, ns, S
  <2>5. \A i \in DOMAIN g.drawnNodes : \E k \in S : g.drawnNodes[i] = ns[k]
    <3>1. /\ Graphs!Pick(ns, S) \in Seq(NodeType(m)) /\ Len(Graphs!Pick(ns, S)) = Cardinality(S)
          /\ \A k \in 1..Cardinality(S) : Graphs!Pick(ns, S)[k] = ns[Graphs!Nth(S, k)] /\ Graphs!Nth(S, k) \in S
      BY <2>3, <2>4, Picked
    <3> QED
      BY <2>1, <3>1
  <2> QED
    BY <1>6, <2>4, <2>5 DEF g
<1> QED
  BY <1>7, <1>8

-----------------------------------------------------------------------------
(* The joined report                                                        *)

\* Ids count from the root, destinations up and sources down.
LEMMA DrawnIds ==
  ASSUME Graphs!IInv, NEW m \in Graphs!Built, NEW dn, NEW D, HalfDrawnAs(dn, D, m)
  PROVE  /\ dn[1].id = 0
         /\ \A k \in DOMAIN dn : m * dn[k].id \in Nat /\ dn[k].id \in Int /\ (k # 1 => dn[k].id # 0)
<1> DEFINE ns == GivenNodes(m)
<1>1. m \in Graphs!Modes /\ result[m] # <<>> /\ m \in {1, -1}
  BY DEF Graphs!Built, Graphs!Modes
<1>2. NodesOf(ns, m)
  BY <1>1, GivenNodesAre
<1>3. /\ DOMAIN ns = 1..Len(ns) /\ Len(ns) \in Nat /\ ns[1].id = 0
      /\ \A n \in DOMAIN ns : n # 1 => ns[n].id = m * (n - 1)
  BY <1>2 DEF NodesOf
<1> HIDE DEF ns
<1>4. ASSUME NEW n \in DOMAIN ns
      PROVE  m * ns[n].id \in Nat /\ ns[n].id \in Int
  <2>1. n \in Nat /\ n >= 1
    BY <1>3
  <2>2. CASE n = 1
    BY <1>1, <1>3, <2>2
  <2>3. CASE n # 1
    BY <1>1, <1>3, <2>1, <2>3
  <2> QED
    BY <2>2, <2>3
<1>5. /\ dn[1] = ns[1] /\ DOMAIN dn = 1..Len(dn) /\ Len(dn) >= 1 /\ Len(dn) \in Nat
      /\ \A k \in DOMAIN dn : \E n \in DOMAIN ns : dn[k] = ns[n]
      /\ \A k, l \in DOMAIN dn : dn[k].id = dn[l].id => k = l
  BY DEF HalfDrawnAs, ns
<1>6. dn[1].id = 0 /\ 1 \in DOMAIN dn
  BY <1>3, <1>5
<1>7. \A k \in DOMAIN dn : k # 1 => dn[k].id # 0
  BY <1>5, <1>6, Zenon
<1>8. \A k \in DOMAIN dn : m * dn[k].id \in Nat /\ dn[k].id \in Int
  BY <1>4, <1>5, Zenon
<1> QED
  BY <1>6, <1>7, <1>8

Joined(nodes, edges) ==
  LET ids == {nodes[i].id : i \in DOMAIN nodes}
  IN  Cardinality(ids) = Len(nodes) /\ \A e \in edges : {e.from, e.to} \subseteq ids

\* What is joined in that sense is joined in the sense of IsJoined.
LEMMA Joining == \A h : Joined(h.nodes, h.edges) => Graphs!IsJoined(h)
<1> SUFFICES ASSUME NEW h, Joined(h.nodes, h.edges) PROVE Graphs!IsJoined(h)
  OBVIOUS
<1> DEFINE ids == {h.nodes[i].id : i \in DOMAIN h.nodes}
<1>1. Cardinality(ids) = Len(h.nodes) /\ \A e \in h.edges : {e.from, e.to} \subseteq ids
  BY DEF Joined
<1> HIDE DEF ids
<1>2. \A s \in {ids} : Graphs!Cardinality(s) = Len(h.nodes) /\ \A e \in h.edges : {e.from, e.to} \subseteq s
  BY <1>1, GraphCounting, Zenon
<1> QED
  BY <1>2, Zenon DEF Graphs!IsJoined, ids

\* The two halves are drawn as one graph.
LEMMA DrawnIsJoined ==
  ASSUME Graphs!IInv, Graphs!Built = Graphs!Modes
  PROVE  Graphs!IsJoined(Graphs!make_graph_dict(Graphs!Graph(1), Graphs!Graph(-1)))
<1> DEFINE dist == Graphs!Graph(1)
           source == Graphs!Graph(-1)
           a == dist.drawnNodes
           b == source.drawnNodes
           nodes == a \o Tail(b)
           edges == dist.drawnEdges \cup source.drawnEdges
           ids == {nodes[i].id : i \in DOMAIN nodes}
           p == Len(a)
           L == Len(a) + Len(b) - 1
<1>1. 1 \in Graphs!Built /\ -1 \in Graphs!Built
  BY DEF Graphs!Modes
<1>2. HalfDrawnAs(a, dist.drawnEdges, 1) /\ HalfDrawnAs(b, source.drawnEdges, -1)
  BY <1>1, HalfIsDrawn DEF HalfDrawn
<1> DEFINE h == Graphs!make_graph_dict(dist, source)
<1>3. h.nodes = nodes /\ h.edges = edges
  BY DEF Graphs!make_graph_dict
<1> HIDE DEF h
<1> HIDE DEF dist, source
<1>4. /\ a \in Seq(NodeType(1)) /\ b \in Seq(NodeType(-1))
      /\ Len(a) \in Nat /\ Len(b) \in Nat /\ Len(a) >= 1 /\ Len(b) >= 1
      /\ DOMAIN a = 1..Len(a) /\ DOMAIN b = 1..Len(b)
      /\ \A k, l \in DOMAIN a : a[k].id = a[l].id => k = l
      /\ \A k, l \in DOMAIN b : b[k].id = b[l].id => k = l
      /\ \A e \in dist.drawnEdges : /\ \E k \in DOMAIN a : a[k].id = e.from
                                    /\ \E k \in DOMAIN a : a[k].id = e.to
      /\ \A e \in source.drawnEdges : /\ \E k \in DOMAIN b : b[k].id = e.from
                                      /\ \E k \in DOMAIN b : b[k].id = e.to
  BY <1>2 DEF HalfDrawnAs
<1>5. /\ a[1].id = 0 /\ \A k \in DOMAIN a : 1 * a[k].id \in Nat /\ a[k].id \in Int
      /\ b[1].id = 0 /\ \A k \in DOMAIN b : -1 * b[k].id \in Nat /\ b[k].id \in Int /\ (k # 1 => b[k].id # 0)
  BY <1>1, <1>2, DrawnIds
<1> HIDE DEF a, b
<1>6. /\ Len(nodes) = L /\ L \in Nat /\ DOMAIN nodes = 1..L
      /\ \A i \in 1..p : i \in DOMAIN a /\ nodes[i] = a[i]
      /\ \A i \in (p + 1)..L : i - p + 1 \in DOMAIN b /\ i - p + 1 # 1 /\ nodes[i] = b[i - p + 1]
      /\ \A i \in 1..L : i \in 1..p \/ i \in (p + 1)..L
      /\ \A k \in DOMAIN b : k # 1 => k + p - 1 \in (p + 1)..L /\ k + p - 1 - p + 1 = k
  <2>1. Tail(b) \in Seq(NodeType(-1)) /\ Len(Tail(b)) = Len(b) - 1 /\ \A k \in 1..(Len(b) - 1) : Tail(b)[k] = b[k + 1]
    BY <1>4
  <2> DEFINE t == Tail(b)
  <2> HIDE DEF t
  <2>2. Len(nodes) = Len(a) + Len(t) /\ DOMAIN nodes = 1..Len(nodes)
    BY <1>4, <2>1 DEF t
  <2>3. \A i \in 1..(Len(a) + Len(t)) : nodes[i] = IF i <= Len(a) THEN a[i] ELSE t[i - Len(a)]
    BY <1>4, <2>1 DEF t
  <2> HIDE DEF nodes
  <2>4. Len(t) = Len(b) - 1 /\ \A k \in 1..(Len(b) - 1) : t[k] = b[k + 1]
    BY <2>1 DEF t
  <2>5. \A i \in 1..p : i \in DOMAIN a /\ nodes[i] = a[i]
    <3>1. \A i \in 1..p : i \in DOMAIN a /\ i \in 1..(Len(a) + Len(t)) /\ i <= Len(a)
      BY <1>4, <2>4
    <3> QED
      BY <2>3, <3>1
  <2>6. \A i \in (p + 1)..L : i - p + 1 \in DOMAIN b /\ i - p + 1 # 1 /\ nodes[i] = b[i - p + 1]
    <3> SUFFICES ASSUME NEW i \in (p + 1)..L
                 PROVE  i - p + 1 \in DOMAIN b /\ i - p + 1 # 1 /\ nodes[i] = b[i - p + 1]
      OBVIOUS
    <3>1. /\ i \in 1..(Len(a) + Len(t)) /\ ~(i <= Len(a)) /\ i - p \in 1..(Len(b) - 1)
          /\ i - p + 1 \in DOMAIN b /\ i - p + 1 # 1
      BY <1>4, <2>4
    <3>2. nodes[i] = t[i - p]
      BY <2>3, <3>1
    <3>3. t[i - p] = b[i - p + 1]
      BY <2>4, <3>1
    <3> QED
      BY <3>1, <3>2, <3>3
  <2> QED
    BY <1>4, <2>2, <2>4, <2>5, <2>6
<1> HIDE DEF nodes
<1>7. \A i \in 1..p : a[i].id >= 0
  BY <1>5, <1>6
<1>8. \A k \in DOMAIN b : k # 1 => b[k].id < 0
  BY <1>5
<1>9. ASSUME NEW i \in 1..L, NEW j \in 1..L, nodes[i].id = nodes[j].id
      PROVE  i = j
  <2>1. CASE i \in 1..p /\ j \in 1..p
    <3>1. i \in DOMAIN a /\ j \in DOMAIN a /\ nodes[i] = a[i] /\ nodes[j] = a[j]
      BY <1>6, <2>1
    <3> QED
      BY <1>4, <1>9, <3>1, Zenon
  <2>2. CASE i \in (p + 1)..L /\ j \in (p + 1)..L
    <3>1. i - p + 1 = j - p + 1
      <4>1. b[i - p + 1].id = b[j - p + 1].id /\ i - p + 1 \in DOMAIN b /\ j - p + 1 \in DOMAIN b
        BY <1>6, <1>9, <2>2
      <4> QED
        BY <1>4, <4>1
    <3> QED
      BY <1>4, <2>2, <3>1
  <2>3. CASE i \in 1..p /\ j \in (p + 1)..L
    <3>1. nodes[i].id >= 0
      BY <1>6, <1>7, <2>3
    <3>2. nodes[j].id < 0 /\ nodes[j].id \in Int
      BY <1>5, <1>6, <1>8, <2>3
    <3> QED
      BY <1>9, <3>1, <3>2
  <2>4. CASE i \in (p + 1)..L /\ j \in 1..p
    <3>1. nodes[j].id >= 0
      BY <1>6, <1>7, <2>4
    <3>2. nodes[i].id < 0 /\ nodes[i].id \in Int
      BY <1>5, <1>6, <1>8, <2>4
    <3> QED
      BY <1>9, <3>1, <3>2
  <2> QED
    BY <1>6, <2>1, <2>2, <2>3, <2>4
<1>10. Cardinality(ids) = Len(nodes)
  <2> DEFINE f == [i \in 1..L |-> nodes[i].id]
  <2>1. f \in Bijection(1..L, ids)
    <3>1. f \in [1..L -> ids] /\ \A x \in ids : \E i \in 1..L : f[i] = x
      BY <1>6
    <3>2. \A i, j \in 1..L : f[i] = f[j] => i = j
      BY <1>9
    <3> HIDE DEF f, ids
    <3> QED
      BY <3>1, <3>2 DEF Bijection, Injection, Surjection, IsInjective
  <2>2. IsFiniteSet(1..L) /\ Cardinality(1..L) = L
    BY <1>6, FS_Interval
  <2>3. ExistsBijection(1..L, ids)
    BY <2>1, Zenon DEF ExistsBijection
  <2> HIDE DEF f, ids
  <2>4. Cardinality(ids) = Cardinality(1..L)
    BY <2>2, <2>3, FS_Bijection
  <2> QED
    BY <1>6, <2>2, <2>4
<1>11. /\ \A k \in DOMAIN a : a[k].id \in ids
       /\ \A k \in DOMAIN b : b[k].id \in ids
  <2>1. \A i \in 1..L : nodes[i].id \in ids
    BY <1>6
  <2> HIDE DEF ids
  <2>2. \A k \in DOMAIN a : k \in 1..L /\ nodes[k] = a[k]
    BY <1>4, <1>6
  <2>3. \A k \in DOMAIN b : k # 1 => k + p - 1 \in 1..L /\ nodes[k + p - 1] = b[k]
    <3> SUFFICES ASSUME NEW k \in DOMAIN b, k # 1 PROVE k + p - 1 \in 1..L /\ nodes[k + p - 1] = b[k]
      OBVIOUS
    <3>1. k + p - 1 \in (p + 1)..L /\ k + p - 1 - p + 1 = k
      BY <1>6
    <3>2. nodes[k + p - 1] = b[(k + p - 1) - p + 1]
      BY <1>6, <3>1
    <3> QED
      BY <1>4, <3>1, <3>2
  <2>4. 1 \in DOMAIN a /\ a[1].id = b[1].id
    BY <1>4, <1>5
  <2> QED
    BY <2>1, <2>2, <2>3, <2>4
<1>12. \A e \in edges : {e.from, e.to} \subseteq ids
  <2> HIDE DEF ids
  <2> QED
    BY <1>4, <1>11
<1>13. Joined(nodes, edges)
  BY <1>10, <1>12, Zenon DEF Joined
<1> QED
  BY <1>3, <1>13, Joining DEF h, dist, source

-----------------------------------------------------------------------------
(* What is drawn is small                                                   *)

\* The edges that come before an edge in sort_per_depth.
Before(E, e) == {f \in E : f.sum > e.sum \/ (f.sum = e.sum /\ f.first < e.first)}
Ordered(E) ==
  /\ IsFiniteSet(E)
  /\ \A e \in E : e.sum \in Nat /\ e.first \in Nat
  /\ \A e, f \in E : e.first = f.first => e = f

\* Sorting gives each edge a place of its own.
LEMMA SortedPlaces ==
  ASSUME NEW E, Ordered(E)
  PROVE  /\ \A e \in E : Cardinality(Before(E, e)) \in Nat
         /\ \A e, f \in E : f \in Before(E, e) => Cardinality(Before(E, f)) < Cardinality(Before(E, e))
         /\ \A e, f \in E : e = f \/ f \in Before(E, e) \/ e \in Before(E, f)
<1>1. \A e \in E : IsFiniteSet(Before(E, e)) /\ Cardinality(Before(E, e)) \in Nat
  <2> SUFFICES ASSUME NEW e \in E
               PROVE  IsFiniteSet(Before(E, e)) /\ Cardinality(Before(E, e)) \in Nat
    OBVIOUS
  <2>1. Before(E, e) \in SUBSET E /\ IsFiniteSet(E)
    BY DEF Before, Ordered
  <2>2. IsFiniteSet(Before(E, e))
    BY <2>1, FS_Subset
  <2> QED
    BY <2>2, FS_CardinalityType
<1>2. ASSUME NEW e \in E, NEW f \in E, f \in Before(E, e)
      PROVE  Cardinality(Before(E, f)) < Cardinality(Before(E, e))
  <2>1. f \notin Before(E, f)
    BY DEF Before, Ordered
  <2>2. \A h \in Before(E, f) : h \in Before(E, e)
    BY <1>2 DEF Before, Ordered
  <2>3. IsFiniteSet(Before(E, e)) /\ Before(E, f) \in SUBSET Before(E, e)
    BY <1>1, <2>2
  <2>4. /\ Cardinality(Before(E, f)) <= Cardinality(Before(E, e))
        /\ Cardinality(Before(E, e)) = Cardinality(Before(E, f)) => Before(E, e) = Before(E, f)
    BY <2>3, FS_Subset
  <2>5. Cardinality(Before(E, e)) # Cardinality(Before(E, f))
    BY <1>2, <2>1, <2>4
  <2>6. Cardinality(Before(E, e)) \in Nat /\ Cardinality(Before(E, f)) \in Nat
    BY <1>1
  <2> QED
    BY <2>4, <2>5, <2>6
<1>3. \A e, f \in E : e = f \/ f \in Before(E, e) \/ e \in Before(E, f)
  BY DEF Before, Ordered
<1> QED
  BY <1>1, <1>2, <1>3

\* At most k are the k largest, and if there is one then some are.
LEMMA LargestOf ==
  ASSUME NEW E, Ordered(E), NEW k \in Nat
  PROVE  /\ Graphs!Largest(E, k) \in SUBSET E /\ IsFiniteSet(Graphs!Largest(E, k))
         /\ Cardinality(Graphs!Largest(E, k)) <= k
         /\ E # {} /\ k >= 1 => Graphs!Largest(E, k) # {}
<1> DEFINE place == [e \in E |-> Cardinality(Before(E, e))]
           T == {e \in E : place[e] < k}
<1>1. Graphs!Largest(E, k) = T
  BY GraphCounting DEF Graphs!Largest, Before
<1>2. /\ \A e \in E : place[e] \in Nat
      /\ \A e, f \in E : f \in Before(E, e) => place[f] < place[e]
      /\ \A e, f \in E : e = f \/ f \in Before(E, e) \/ e \in Before(E, f)
  BY SortedPlaces
<1>3. T \in SUBSET E /\ IsFiniteSet(T)
  <2>1. T \in SUBSET E /\ IsFiniteSet(E)
    BY DEF Ordered
  <2> HIDE DEF T
  <2> QED
    BY <2>1, FS_Subset
<1>4. Cardinality(T) <= k
  <2> DEFINE h == [e \in T |-> place[e]]
  <2>1. h \in Injection(T, 0..(k - 1))
    <3>1. h \in [T -> 0..(k - 1)]
      BY <1>2
    <3>2. \A e, f \in T : h[e] = h[f] => e = f
      BY <1>2
    <3> HIDE DEF h, T
    <3> QED
      BY <3>1, <3>2, Zenon DEF Injection, IsInjective
  <2>2. IsFiniteSet(0..(k - 1)) /\ Cardinality(0..(k - 1)) = k
    <3>1. 0 \in Int /\ k - 1 \in Int /\ (IF 0 > k - 1 THEN 0 ELSE (k - 1) - 0 + 1) = k
      OBVIOUS
    <3> QED
      BY <3>1, FS_Interval
  <2> HIDE DEF h, T
  <2>3. Cardinality(T) <= Cardinality(0..(k - 1))
    BY <2>1, <2>2, FS_Injection
  <2> QED
    BY <2>2, <2>3
<1>5. ASSUME E # {}, k >= 1 PROVE T # {}
  <2> DEFINE places == {place[e] : e \in E}
  <2>1. places \in SUBSET Nat /\ places # {}
    BY <1>2, <1>5
  <2>2. PICK n \in places : \A l \in places : ~(l < n)
    <3> HIDE DEF places
    <3> QED
      BY <2>1, Smallest
  <2>3. PICK e \in E : place[e] = n
    BY <2>2
  <2>4. Before(E, e) = {}
    <3> SUFFICES ASSUME NEW f \in Before(E, e) PROVE FALSE
      OBVIOUS
    <3>1. f \in E
      BY DEF Before
    <3>2. place[f] \in places /\ place[f] < n
      BY <1>2, <2>3, <3>1
    <3> HIDE DEF places, place
    <3> QED
      BY <2>2, <3>2
  <2>5. place[e] = 0
    BY <2>4, FS_EmptySet
  <2>6. e \in T
    BY <1>5, <2>5
  <2> QED
    BY <2>6
<1> QED
  BY <1>1, <1>3, <1>4, <1>5

\* The odd numbers up to depth n sum up to n * n, so a part of them to less.
Odd == [d \in Nat |-> 2 * d - 1]

\* The sum of some of the odd numbers.
LEMMA OddSums == \A n \in Nat : \A P \in SUBSET (1..n) : Sum(Odd, P) <= n * n
<1> DEFINE wrong == {n \in Nat : ~\A P \in SUBSET (1..n) : Sum(Odd, P) <= n * n}
<1> SUFFICES ASSUME wrong # {} PROVE FALSE
  OBVIOUS
<1>1. PICK n \in wrong : \A k \in wrong : ~(k < n)
  <2>1. wrong \in SUBSET Nat
    OBVIOUS
  <2> HIDE DEF wrong
  <2> QED
    BY <2>1, Smallest
<1>2. n \in Nat /\ ~\A P \in SUBSET (1..n) : Sum(Odd, P) <= n * n
  BY <1>1
<1>3. PICK P \in SUBSET (1..n) : ~(Sum(Odd, P) <= n * n)
  BY <1>2
<1>4. n # 0
  <2> SUFFICES ASSUME n = 0 PROVE FALSE
    OBVIOUS
  <2>1. P = {}
    OBVIOUS
  <2>2. Sum(Odd, P) = 0
    BY <2>1, SumEmpty
  <2> QED
    BY <1>3, <2>2
<1>5. n - 1 \in Nat /\ n - 1 < n
  BY <1>2, <1>4
<1>6. n - 1 \notin wrong
  <2> HIDE DEF wrong
  <2> QED
    BY <1>1, <1>5
<1>7. \A Q \in SUBSET (1..(n - 1)) : Sum(Odd, Q) <= (n - 1) * (n - 1)
  BY <1>5, <1>6
<1>8. /\ IsFiniteSet(P) /\ \A d \in P : Odd[d] \in Nat /\ Odd[d] = 2 * d - 1
  <2>1. IsFiniteSet(P)
    <3>1. IsFiniteSet(1..n)
      BY <1>2, FS_Interval
    <3> QED
      BY <3>1, FS_Subset
  <2>2. \A d \in P : Odd[d] \in Nat /\ Odd[d] = 2 * d - 1
    BY <1>2 DEF Odd
  <2> QED
    BY <2>1, <2>2
<1>9. n * n = (n - 1) * (n - 1) + (2 * n - 1)
  BY <1>2
<1>10. P \ {n} \in SUBSET (1..(n - 1))
  BY <1>2
<1>11. Sum(Odd, P \ {n}) <= (n - 1) * (n - 1)
  BY <1>7, <1>10
<1>12. Sum(Odd, P \ {n}) \in Nat
  <2>1. IsFiniteSet(P \ {n}) /\ \A d \in P \ {n} : Odd[d] \in Nat
    BY <1>8, FS_RemoveElement
  <2> QED
    BY <2>1, SumNat
<1>13. (n - 1) * (n - 1) \in Nat
  BY <1>5
<1>14. CASE n \in P
  <2>1. Sum(Odd, P) = Odd[n] + Sum(Odd, P \ {n}) /\ Odd[n] = 2 * n - 1
    BY <1>8, <1>14, SumOneMore
  <2> DEFINE s == (n - 1) * (n - 1)
             q == n * n
  <2>2. s \in Nat /\ q = s + (2 * n - 1) /\ Sum(Odd, P \ {n}) <= s /\ ~(Sum(Odd, P) <= q)
    BY <1>3, <1>9, <1>11, <1>13
  <2> HIDE DEF s, q
  <2> QED
    BY <1>2, <1>12, <2>1, <2>2
<1>15. CASE n \notin P
  <2>1. P \ {n} = P
    BY <1>15
  <2> DEFINE s == (n - 1) * (n - 1)
             q == n * n
  <2>2. s \in Nat /\ q = s + (2 * n - 1) /\ Sum(Odd, P) <= s /\ ~(Sum(Odd, P) <= q) /\ Sum(Odd, P) \in Nat
    BY <1>3, <1>9, <1>11, <1>12, <1>13, <2>1
  <2> HIDE DEF s, q
  <2> QED
    BY <1>2, <1>4, <2>2
<1> QED
  BY <1>14, <1>15

-----------------------------------------------------------------------------
(* A lossy graph is drawn with about CATV_MAX_SCALED_NODES edges            *)

\* The ratios are positive.
LEMMA OddNat == \A d \in Nat : d >= 1 => Odd[d] = 2 * d - 1 /\ Odd[d] \in Nat /\ Odd[d] >= 1
  BY DEF Odd

\* A share is a part of them, rounded up.
LEMMA ShareIs ==
  ASSUME NEW d \in Nat, d >= 1, NEW D \in Nat, D >= 1
  PROVE  /\ Graphs!Share(d, D) \in Nat /\ Graphs!Share(d, D) >= 1
         /\ (D * D) * Graphs!Share(d, D) <= Odd[d] * MaxNodes + (D * D) - 1
<1> DEFINE Q == D * D
           x == Odd[d] * MaxNodes
           s == (x + Q - 1) \div Q
<1>1. MaxNodes \in Nat /\ MaxNodes >= 1
  BY ReportsAssumption DEF Graphs!GraphAssumption
<1>2. Odd[d] = 2 * d - 1 /\ Odd[d] \in Nat /\ Odd[d] >= 1
  BY DEF Odd
<1>3. Graphs!Share(d, D) = s
  BY <1>2 DEF Graphs!Share
<1>4. Q \in Nat /\ Q >= 1
  OBVIOUS
<1>5. x \in Nat /\ x >= 1
  <2>1. \A a, b \in Nat : a >= 1 /\ b >= 1 => a * b \in Nat /\ a * b >= 1
    OBVIOUS
  <2> QED
    BY <1>1, <1>2, <2>1
<1> HIDE DEF Q, x
<1>6. /\ s \in Nat /\ s >= 1 /\ Q * s <= x + Q - 1
  <2> DEFINE a == x + Q - 1
  <2>1. a \in Nat /\ a >= Q
    BY <1>4, <1>5
  <2> HIDE DEF a
  <2>2. s = a \div Q
    BY DEF a
  <2> HIDE DEF s
  <2>3. s \in Int /\ Q * s <= a /\ a < Q * s + Q
    BY <1>4, <2>1, <2>2
  <2>4. s >= 1
    <3> SUFFICES ASSUME s <= 0 PROVE FALSE
      BY <2>3
    <3>1. Q * s <= 0
      BY <1>4, <2>3
    <3> QED
      BY <1>4, <2>1, <2>3, <3>1
  <2> QED
    BY <2>3, <2>4 DEF a
<1> QED
  BY <1>3, <1>6 DEF Q, x

\* The depths of groups, and the greatest.
DepthsOf(G, n) == {G[k].depth : k \in 1..n}

\* The deepest of the groups is one of them.
LEMMA DeepestOf ==
  ASSUME NEW G, Len(G) \in Nat, Len(G) >= 1, DOMAIN G = 1..Len(G), NEW B \in Nat,
         \A n \in 1..Len(G) : G[n].depth \in 1..B
  PROVE  /\ Graphs!Deepest(G) \in Nat /\ Graphs!Deepest(G) >= 1
         /\ \A n \in 1..Len(G) : G[n].depth \in 1..Graphs!Deepest(G)
<1> DEFINE S == {G[n].depth : n \in DOMAIN G}
           D == CHOOSE x \in S : \A y \in S : x >= y
<1>1. Graphs!Deepest(G) = D
  BY DEF Graphs!Deepest, Graphs!Max
<1>2. /\ \A x \in S : x \in Nat /\ x >= 1 /\ x <= B
      /\ \A n \in 1..Len(G) : G[n].depth \in S
      /\ S # {}
  <2>1. \A x \in S : x \in Nat /\ x >= 1 /\ x <= B
    OBVIOUS
  <2>2. \A n \in 1..Len(G) : G[n].depth \in S
    BY Zenon
  <2>3. 1 \in 1..Len(G)
    OBVIOUS
  <2> QED
    BY <2>1, <2>2, <2>3, Zenon
<1>3. \E x \in S : \A y \in S : x >= y
  <2> HIDE DEF S
  <2> DEFINE below == {B - x : x \in S}
  <2>1. below \in SUBSET Nat /\ below # {}
    BY <1>2
  <2>2. PICK b \in below : \A c \in below : ~(c < b)
    <3> HIDE DEF below
    <3> QED
      BY <2>1, Smallest
  <2>3. PICK x \in S : b = B - x
    BY <2>2
  <2>4. ASSUME NEW y \in S PROVE x >= y
    <3>1. B - y \in below
      OBVIOUS
    <3>2. ~(B - y < B - x)
      <4> HIDE DEF below
      <4> QED
        BY <2>2, <2>3, <3>1
    <3> QED
      BY <1>2, <2>3, <3>2
  <2> QED
    BY <2>4
<1> HIDE DEF S
<1>4. D \in S /\ \A y \in S : D >= y
  BY <1>3
<1> HIDE DEF D
<1> QED
  BY <1>1, <1>2, <1>4

\* A group more is a depth more.
LEMMA OneMoreDepth ==
  ASSUME NEW E, NEW G, NEW mode, GroupsOf(G, E, mode), NEW D \in Nat, D >= 1,
         \A k \in 1..Len(G) : G[k].depth \in 1..D, NEW n \in 1..Len(G)
  PROVE  /\ Sum(Odd, DepthsOf(G, n)) = Sum(Odd, DepthsOf(G, n - 1)) + Odd[G[n].depth]
         /\ Sum(Odd, DepthsOf(G, n - 1)) \in Nat /\ Odd[G[n].depth] \in Nat
<1> DEFINE d == G[n].depth
<1>a. Len(G) \in Nat /\ n \in Nat /\ n >= 1 /\ n <= Len(G)
  BY DEF GroupsOf
<1>1. DepthsOf(G, n) = DepthsOf(G, n - 1) \cup {d}
  <2>1. \A k \in 1..n : k = n \/ k \in 1..(n - 1)
    BY <1>a
  <2>2. \A k \in 1..(n - 1) : k \in 1..n
    BY <1>a
  <2>3. n \in 1..n
    BY <1>a
  <2> QED
    BY <2>1, <2>2, <2>3 DEF DepthsOf
<1>2. d \notin DepthsOf(G, n - 1)
  <2> SUFFICES ASSUME NEW k \in 1..(n - 1), G[k].depth = d PROVE FALSE
    BY DEF DepthsOf
  <2>1. k \in 1..Len(G) /\ k # n
    BY <1>a
  <2> QED
    BY <1>a, <2>1 DEF GroupsOf
<1>3. \A x \in DepthsOf(G, n) : x \in 1..D
  BY <1>a DEF DepthsOf
<1>4. IsFiniteSet(DepthsOf(G, n)) /\ IsFiniteSet(DepthsOf(G, n - 1))
  <2>1. IsFiniteSet(1..D)
    BY FS_Interval
  <2>2. DepthsOf(G, n) \in SUBSET (1..D) /\ DepthsOf(G, n - 1) \in SUBSET (1..D)
    BY <1>1, <1>3
  <2> QED
    BY <2>1, <2>2, FS_Subset
<1>5. \A x \in DepthsOf(G, n) : Odd[x] \in Nat
  <2>1. \A x \in DepthsOf(G, n) : x \in Nat /\ x >= 1
    BY <1>3
  <2> QED
    BY <2>1, OddNat, Zenon
<1>6. DepthsOf(G, n) \ {d} = DepthsOf(G, n - 1) /\ d \in DepthsOf(G, n)
  BY <1>1, <1>2
<1> HIDE DEF d
<1>7. Sum(Odd, DepthsOf(G, n)) = Odd[d] + Sum(Odd, DepthsOf(G, n) \ {d})
  BY <1>4, <1>5, <1>6, SumOneMore
<1>8. Sum(Odd, DepthsOf(G, n - 1)) \in Nat
  <2>1. \A x \in DepthsOf(G, n - 1) : Odd[x] \in Nat
    BY <1>1, <1>5
  <2> QED
    BY <1>4, <2>1, SumNat
<1>9. Odd[d] \in Nat /\ Sum(Odd, DepthsOf(G, n)) = Odd[d] + Sum(Odd, DepthsOf(G, n - 1))
  BY <1>5, <1>6, <1>7, Zenon
<1> DEFINE a == Sum(Odd, DepthsOf(G, n))
           b == Sum(Odd, DepthsOf(G, n - 1))
           o == Odd[d]
<1>10. o \in Nat /\ b \in Nat /\ a = o + b
  BY <1>8, <1>9
<1> HIDE DEF a, b, o
<1>11. a = b + o
  BY <1>10
<1> QED
  BY <1>10, <1>11 DEF a, b, o, d

\* n groups keep their shares.
LEMMA KeptFew ==
  ASSUME NEW E, Ordered(E), NEW G, NEW mode, GroupsOf(G, E, mode), NEW kept, KeptBy(kept, G, E),
         NEW D \in Nat, D >= 1, D = Graphs!Deepest(G),
         \A n \in 1..Len(G) : G[n].depth \in 1..D
  PROVE  \A n \in 0..Len(G) :
           /\ IsFiniteSet(kept[n]) /\ Cardinality(kept[n]) \in Nat
           /\ (D * D) * Cardinality(kept[n]) <= Sum(Odd, DepthsOf(G, n)) * MaxNodes + n * ((D * D) - 1)
<1> DEFINE Q == D * D
           W(n) == Sum(Odd, DepthsOf(G, n))
           Few(n) == /\ IsFiniteSet(kept[n]) /\ Cardinality(kept[n]) \in Nat
                     /\ Q * Cardinality(kept[n]) <= W(n) * MaxNodes + n * (Q - 1)
           wrong == {n \in 0..Len(G) : ~Few(n)}
<1>1. wrong = {} => \A n \in 0..Len(G) : Few(n)
  BY Zenon
<1> SUFFICES ASSUME wrong # {} PROVE FALSE
  BY <1>1
<1>2. PICK n \in wrong : \A k \in wrong : ~(k < n)
  <2>1. wrong \in SUBSET Nat
    OBVIOUS
  <2> HIDE DEF wrong
  <2> QED
    BY <2>1, Smallest
<1>3. n \in 0..Len(G) /\ ~Few(n)
  BY <1>2, Zenon
<1>4. /\ Len(G) \in Nat /\ MaxNodes \in Nat /\ Q \in Nat /\ Q >= 1 /\ kept[0] = {}
      /\ \A k \in 1..Len(G) : kept[k] = kept[k - 1] \cup More(G, k, kept[k - 1])
      /\ \A k \in 0..Len(G) : kept[k] \in SUBSET E
  <2>1. MaxNodes \in Nat
    BY ReportsAssumption DEF Graphs!GraphAssumption
  <2>2. Len(G) \in Nat
    BY DEF GroupsOf
  <2>3. Q \in Nat /\ Q >= 1
    OBVIOUS
  <2> QED
    BY <2>1, <2>2, <2>3 DEF KeptBy
<1>5. n # 0
  <2> SUFFICES ASSUME n = 0 PROVE FALSE
    OBVIOUS
  <2>1. IsFiniteSet(kept[0]) /\ Cardinality(kept[0]) = 0
    BY <1>4, FS_EmptySet
  <2>2. DepthsOf(G, 0) = {}
    BY DEF DepthsOf
  <2>3. W(0) = 0
    BY <2>2, SumEmpty
  <2> HIDE DEF W, Q
  <2>4. Q * 0 <= 0 * MaxNodes + 0 * (Q - 1)
    BY <1>4
  <2> QED
    BY <1>3, <2>1, <2>3, <2>4
<1>6. n \in Nat /\ n \in 1..Len(G) /\ n - 1 \in 0..Len(G) /\ n - 1 < n
  BY <1>3, <1>4, <1>5
<1>7. Few(n - 1)
  <2>1. n - 1 \notin wrong
    <3> HIDE DEF wrong
    <3> QED
      BY <1>2, <1>6
  <2> HIDE DEF Few
  <2> QED
    BY <1>6, <2>1
<1> DEFINE d == G[n].depth
           K == kept[n - 1]
           near == Near(G[n], K)
           s == Graphs!Share(d, D)
           M == Graphs!Largest(near, s)
<1>8. d \in 1..D /\ d \in Nat /\ d >= 1
  BY <1>6
<1>9. s \in Nat /\ Q * s <= Odd[d] * MaxNodes + Q - 1
  <2> HIDE DEF d
  <2> QED
    BY <1>8, ShareIs
<1>10. Ordered(near)
  <2>1. near \in SUBSET E
    BY <1>6 DEF Near, GroupsOf
  <2>2. IsFiniteSet(near)
    BY <2>1, FS_Subset DEF Ordered
  <2> HIDE DEF near
  <2> QED
    BY <2>1, <2>2 DEF Ordered
<1>11. IsFiniteSet(M) /\ Cardinality(M) <= s
  <2> HIDE DEF near, s
  <2> QED
    BY <1>9, <1>10, LargestOf
<1>12. kept[n] = K \cup M
  BY <1>4, <1>6 DEF More
<1>13. /\ IsFiniteSet(kept[n]) /\ Cardinality(kept[n]) \in Nat
       /\ Cardinality(kept[n]) <= Cardinality(K) + s
  <2>1. IsFiniteSet(K) /\ Cardinality(K) \in Nat
    BY <1>7
  <2> HIDE DEF K, M, s
  <2>2. /\ IsFiniteSet(K \cup M)
        /\ Cardinality(K \cup M) = Cardinality(K) + Cardinality(M) - Cardinality(K \cap M)
    BY <1>11, <2>1, FS_Union
  <2>3. IsFiniteSet(K \cap M)
    BY <2>1, FS_Intersection
  <2>4. Cardinality(K \cap M) \in Nat /\ Cardinality(M) \in Nat /\ Cardinality(K \cup M) \in Nat
    BY <1>11, <2>2, <2>3, FS_CardinalityType
  <2>5. Cardinality(K \cup M) <= Cardinality(K) + s
    <3> DEFINE k == Cardinality(K)
               x == Cardinality(M)
               y == Cardinality(K \cap M)
               z == Cardinality(K \cup M)
    <3>1. k \in Nat /\ x \in Nat /\ y \in Nat /\ s \in Nat /\ z = k + x - y /\ x <= s
      BY <1>9, <1>11, <2>1, <2>2, <2>4
    <3> HIDE DEF k, x, y, z
    <3>2. z <= k + s
      BY <3>1
    <3> QED
      BY <3>2 DEF k, z
  <2> QED
    BY <1>12, <2>2, <2>4, <2>5, Zenon
<1>14. W(n) = W(n - 1) + Odd[d] /\ W(n - 1) \in Nat /\ Odd[d] \in Nat
  BY <1>6, OneMoreDepth
<1>15. Q * Cardinality(kept[n]) <= W(n) * MaxNodes + n * (Q - 1)
  <2> DEFINE c == Cardinality(kept[n])
             b == Cardinality(K)
             w == W(n - 1)
             o == Odd[d]
  <2>1. /\ c \in Nat /\ b \in Nat /\ c <= b + s /\ s \in Nat /\ w \in Nat /\ o \in Nat
        /\ Q * b <= w * MaxNodes + (n - 1) * (Q - 1)
        /\ Q * s <= o * MaxNodes + Q - 1
    BY <1>7, <1>9, <1>13, <1>14
  <2> HIDE DEF c, b, w, o, s, Q, W
  <2>2. Q * c <= Q * b + Q * s
    <3>1. \A i, j, k \in Nat : j <= k => i * j <= i * k
      OBVIOUS
    <3>2. Q * c <= Q * (b + s)
      BY <1>4, <2>1, <3>1
    <3>3. Q * (b + s) = Q * b + Q * s
      BY <1>4, <2>1
    <3> QED
      BY <3>2, <3>3
  <2>3. (w + o) * MaxNodes = w * MaxNodes + o * MaxNodes
    BY <1>4, <2>1
  <2>4. n * (Q - 1) = (n - 1) * (Q - 1) + (Q - 1)
    BY <1>4, <1>6
  <2>5. /\ Q * c \in Nat /\ Q * b \in Nat /\ Q * s \in Nat
        /\ w * MaxNodes \in Nat /\ o * MaxNodes \in Nat /\ (n - 1) * (Q - 1) \in Nat
    <3>1. \A i, j \in Nat : i * j \in Nat
      OBVIOUS
    <3>2. n - 1 \in Nat /\ Q - 1 \in Nat
      BY <1>4, <1>6
    <3> QED
      BY <1>4, <2>1, <3>1, <3>2
  <2> DEFINE qc == Q * c
             qb == Q * b
             qs == Q * s
             wm == w * MaxNodes
             om == o * MaxNodes
             nq == (n - 1) * (Q - 1)
  <2>6. /\ qc \in Nat /\ qb \in Nat /\ qs \in Nat /\ wm \in Nat /\ om \in Nat /\ nq \in Nat /\ Q \in Nat
        /\ qc <= qb + qs /\ qb <= wm + nq /\ qs <= om + Q - 1
    BY <1>4, <2>1, <2>2, <2>5
  <2>7. W(n) * MaxNodes = wm + om /\ n * (Q - 1) = nq + (Q - 1)
    BY <1>14, <2>3, <2>4 DEF w, o
  <2> HIDE DEF qc, qb, qs, wm, om, nq
  <2>8. qc <= (wm + om) + (nq + (Q - 1))
    BY <2>6
  <2> QED
    BY <2>7, <2>8 DEF qc, c
<1> QED
  BY <1>3, <1>13, <1>15

\* The first transfer is at the vendor's first depth, so a lossy graph whose
\* depths are shifted to start at 1 has a group of depth 1.
LEMMA FirstEdge ==
  ASSUME Graphs!IInv, NEW m \in Graphs!Built, m = 1
  PROVE  \E e \in GivenEdges(m) : Graphs!Shifted(e, m) = 1
<1> DEFINE r == Given(m)
           ns == GivenNodes(m)
           s == result[m]
           e == Graphs!create_edge(r, 1, ns)
<1>1. m \in {1, -1} /\ m \in Graphs!Modes /\ s # <<>>
  BY DEF Graphs!Built, Graphs!Modes
<1>2. s \in Seq(Graphs!Transfer) /\ Graphs!Received(m, s)
  BY <1>1 DEF Graphs!IInv
<1>3. 1 \in DOMAIN s /\ 1..(1 - 1) = {}
  BY <1>1, <1>2
<1>4. s[1].depth = 1
  <2>1. Graphs!Hops(m, s[1]) = 1
    BY <1>1, <1>2, FirstFromRoot
  <2>2. s[1] \in Graphs!Transfer
    BY <1>2, <1>3, Listed
  <2> HIDE DEF s
  <2> QED
    BY <1>1, <2>1, <2>2, HopsAreWhole
<1>5. r[1] = s[1]
  <2>1. CASE Graphs!IsPath
    <3>1. Kept(s) \in SUBSET DOMAIN s /\ 1 \in Kept(s)
      BY <1>3 DEF Kept
    <3>2. r = Graphs!Pick(s, Kept(s))
      BY <2>1 DEF Given, Graphs!Distinct, Kept
    <3> HIDE DEF r, s
    <3>3. Graphs!Pick(s, Kept(s))[1] = s[1]
      BY <1>2, <3>1, PickedFirst
    <3> QED
      BY <3>2, <3>3
  <2>2. CASE ~Graphs!IsPath
    BY <2>2 DEF Given
  <2> QED
    BY <2>1, <2>2
<1>6. 1 \in DOMAIN r
  <2>1. r \in Seq(Graphs!Transfer) /\ r # <<>>
    BY <1>1, GivenTaken DEF Taken
  <2> HIDE DEF r
  <2> QED
    BY <2>1
<1>7. 1 \in Graphs!Firsts(r)
  <2> HIDE DEF r
  <2> QED
    BY <1>3, <1>6 DEF Graphs!Firsts
<1>8. e \in GivenEdges(m)
  BY <1>7, GivenEdgesAre
<1>9. e.depth = 1
  BY <1>4, <1>5, EdgeIs DEF IsEdge
<1> HIDE DEF e
<1>10. Graphs!Shifted(e, m) = 1
  BY <1>1, <1>8, <1>9, ShiftedEdges
<1> QED
  BY <1>8, <1>10

\* The edges of a graph that is built can be sorted.
LEMMA EdgesOrdered ==
  ASSUME Graphs!IInv, NEW m \in Graphs!Built
  PROVE  Ordered(GivenEdges(m))
<1> DEFINE r == Given(m)
           E == GivenEdges(m)
<1>1. /\ IsFiniteSet(E) /\ Placed(E, Len(r))
      /\ \A e \in E : e.first \in DOMAIN r /\ IsEdge(e, r, e.first, GivenNodes(m))
  BY GivenEdgesPlaced DEF EdgesOf
<1>2. r \in Seq(Graphs!Transfer)
  BY GivenTaken DEF Taken, Graphs!Built
<1>3. \A i \in DOMAIN r : r[i].amount \in Nat
  <2>1. \A t \in Graphs!Transfer : t.amount \in Nat
    BY ReportsAssumption DEF Graphs!GraphAssumption, Graphs!Transfer
  <2> QED
    BY <1>2, <2>1, Listed
<1> HIDE DEF r, E
<1>4. ASSUME NEW e \in E PROVE e.sum \in Nat
  <2> DEFINE S == Same(r, e.first)
             f == [j \in S |-> r[j].amount]
  <2>1. e.sum = Sum(f, S)
    BY <1>1 DEF IsEdge
  <2>2. S \in SUBSET DOMAIN r
    BY DEF Same
  <2>3. IsFiniteSet(S)
    <3> HIDE DEF S
    <3> QED
      BY <1>2, <2>2, Picked
  <2>4. \A j \in S : f[j] \in Nat
    BY <1>3, <2>2
  <2> HIDE DEF S, f
  <2>5. Sum(f, S) \in Nat
    BY <2>3, <2>4, SumNat
  <2> QED
    BY <2>1, <2>5
<1>5. \A e \in E : e.first \in Nat
  BY <1>1, <1>2, Listed
<1>6. \A e, f \in E : e.first = f.first => e = f
  BY <1>1 DEF Placed
<1> QED
  BY <1>1, <1>4, <1>5, <1>6 DEF Ordered, E

\* Something is kept, so the lossy graph is what is drawn.
LEMMA SomethingKept ==
  ASSUME NEW E, Ordered(E), NEW G, NEW mode, GroupsOf(G, E, mode), NEW kept, KeptBy(kept, G, E),
         Graphs!Deepest(G) \in Nat, Graphs!Deepest(G) >= 1,
         NEW n \in 1..Len(G), G[n].depth = 1
  PROVE  kept[Len(G)] # {}
<1> DEFINE K == kept[n - 1]
           near == Near(G[n], K)
           s == Graphs!Share(G[n].depth, Graphs!Deepest(G))
<1>1. /\ near = G[n].edges /\ near \in SUBSET E /\ near # {}
  BY DEF Near, GroupsOf
<1>2. s \in Nat /\ s >= 1
  <2> DEFINE D == Graphs!Deepest(G)
  <2>1. D \in Nat /\ D >= 1 /\ 1 \in Nat /\ 1 >= 1
    OBVIOUS
  <2> HIDE DEF D
  <2>2. Graphs!Share(1, D) \in Nat /\ Graphs!Share(1, D) >= 1
    BY <2>1, ShareIs
  <2> QED
    BY <2>2 DEF D
<1>3. Ordered(near)
  <2>1. IsFiniteSet(near)
    BY <1>1, FS_Subset DEF Ordered
  <2> HIDE DEF near
  <2> QED
    BY <1>1, <2>1 DEF Ordered
<1>4. Graphs!Largest(near, s) # {}
  <2> HIDE DEF near, s
  <2> QED
    BY <1>1, <1>2, <1>3, LargestOf
<1>5. kept[n] = K \cup Graphs!Largest(near, s)
  BY DEF KeptBy, More
<1>6. Len(G) \in Nat /\ n \in 0..Len(G)
  BY DEF GroupsOf
<1>7. kept[n] \subseteq kept[Len(G)]
  BY <1>6, KeptGrows
<1> QED
  BY <1>4, <1>5, <1>7

\* As many groups as depths, at most.
LEMMA FewGroups ==
  ASSUME NEW E, IsFiniteSet(E), NEW G, NEW mode \in {1, -1}, GroupsOf(G, E, mode), \A e \in E : e.depth \in Nat
  PROVE  Len(G) <= Cardinality({e.depth : e \in E}) /\ Cardinality({e.depth : e \in E}) \in Nat
<1> DEFINE T == {e.depth : e \in E}
           by == IF mode = -1 THEN 1 ELSE 0
           h == [n \in 1..Len(G) |-> G[n].depth - by]
<1>1. /\ Len(G) \in Nat
      /\ \A n \in 1..Len(G) : \E e \in E : Graphs!Shifted(e, mode) = G[n].depth
      /\ \A k, n \in 1..Len(G) : G[k].depth = G[n].depth => k = n
  BY DEF GroupsOf
<1>2. \A e \in E : Graphs!Shifted(e, mode) = e.depth + by
  BY DEF Graphs!Shifted
<1>3. by \in Nat
  OBVIOUS
<1>4. IsFiniteSet(T) /\ Cardinality(T) \in Nat
  <2> DEFINE f == [e \in E |-> e.depth]
  <2>1. T = {f[e] : e \in E}
    OBVIOUS
  <2> HIDE DEF f, T
  <2>2. IsFiniteSet({f[e] : e \in E})
    BY FiniteRange
  <2> QED
    BY <2>1, <2>2, FS_CardinalityType
<1>5. \A n \in 1..Len(G) : G[n].depth \in Nat /\ h[n] \in T
  <2> SUFFICES ASSUME NEW n \in 1..Len(G) PROVE G[n].depth \in Nat /\ h[n] \in T
    OBVIOUS
  <2>1. PICK e \in E : Graphs!Shifted(e, mode) = G[n].depth
    BY <1>1
  <2>2. G[n].depth = e.depth + by /\ e.depth \in T /\ e.depth \in Nat
    BY <1>2, <2>1
  <2> HIDE DEF T, by
  <2>3. G[n].depth - by = e.depth /\ G[n].depth \in Nat
    BY <1>3, <2>2
  <2> QED
    BY <2>2, <2>3
<1> HIDE DEF T, by
<1>6. h \in Injection(1..Len(G), T)
  <2>1. h \in [1..Len(G) -> T]
    BY <1>5
  <2>2. \A k, n \in 1..Len(G) : h[k] = h[n] => k = n
    <3> SUFFICES ASSUME NEW k \in 1..Len(G), NEW n \in 1..Len(G), h[k] = h[n] PROVE k = n
      OBVIOUS
    <3>1. G[k].depth - by = G[n].depth - by /\ G[k].depth \in Nat /\ G[n].depth \in Nat
      BY <1>5
    <3>2. G[k].depth = G[n].depth
      BY <1>3, <3>1
    <3> QED
      BY <1>1, <3>2
  <2> HIDE DEF h
  <2> QED
    BY <2>1, <2>2, Zenon DEF Injection, IsInjective
<1>7. IsFiniteSet(1..Len(G)) /\ Cardinality(1..Len(G)) = Len(G)
  <2> DEFINE l == Len(G)
  <2>1. l \in Nat /\ 1 \in Int /\ l \in Int /\ (IF 1 > l THEN 0 ELSE l - 1 + 1) = l
    BY <1>1
  <2> HIDE DEF l
  <2>2. IsFiniteSet(1..l) /\ Cardinality(1..l) = IF 1 > l THEN 0 ELSE l - 1 + 1
    BY <2>1, FS_Interval
  <2> QED
    BY <2>1, <2>2 DEF l
<1> HIDE DEF h
<1>8. Cardinality(1..Len(G)) <= Cardinality(T)
  BY <1>4, <1>6, FS_Injection
<1> QED
  BY <1>4, <1>7, <1>8 DEF T

\* Of the shares of L groups each is rounded up by less than one edge.
LEMMA RoundedUp ==
  ASSUME NEW Q \in Nat, Q >= 1, NEW c \in Nat, NEW w \in Nat, w <= Q, NEW M \in Nat, NEW L \in Nat,
         Q * c <= w * M + L * (Q - 1)
  PROVE  c <= M + L
<1>1. w * M <= Q * M
  OBVIOUS
<1>2. L * (Q - 1) <= Q * L
  OBVIOUS
<1>3. Q * (M + L) = Q * M + Q * L
  OBVIOUS
<1>4. Q * c <= Q * (M + L)
  BY <1>1, <1>2, <1>3
<1> SUFFICES ASSUME c > M + L PROVE FALSE
  OBVIOUS
<1>5. Q * c >= Q * (M + L + 1)
  OBVIOUS
<1>6. Q * (M + L + 1) = Q * (M + L) + Q
  OBVIOUS
<1> QED
  BY <1>4, <1>5, <1>6

\* A lossy graph keeps its bound.
LEMMA DrawnIsSmall ==
  ASSUME Graphs!IInv, NEW m \in Graphs!Built
  PROVE  Graphs!IsSmall(m, Graphs!Graph(m))
<1> DEFINE g == Graphs!Graph(m)
           E == GivenEdges(m)
           G == Graphs!group_by_depth(E, m)
           D == Graphs!Deepest(G)
           depths == {e.depth : e \in E}
<1>1. m \in {1, -1} /\ Built(g, m)
  BY BuiltKind, GraphIs DEF Graphs!Modes
<1>2. g.nodes = GivenNodes(m) /\ g.edges = E /\ (IsCut(m) => g.drawnEdges = Lossy(m).edges)
  BY <1>1 DEF Built
<1>3. SUFFICES ASSUME m = 1, Len(GivenNodes(m)) > Cutoff
               PROVE  Cardinality(g.drawnEdges) <= MaxNodes + Cardinality(depths)
  BY <1>2, GraphCounting DEF Graphs!IsSmall
<1>4. PICK kept : LossyBy(kept, G, E, m)
  BY LossySteps
<1>5. PICK e \in E : Graphs!Shifted(e, m) = 1
  BY <1>3, FirstEdge
<1>6. Ordered(E) /\ \A x \in E : /\ x.depth \in Nat /\ Graphs!Farthest \in Nat
                                /\ Graphs!Shifted(x, m) \in 1..Graphs!Farthest
  <2>1. \A x \in E : /\ Graphs!Shifted(x, m) = x.depth /\ x.depth \in 1..Graphs!Farthest
                      /\ Graphs!Farthest \in Nat
    BY <1>3, ShiftedEdges
  <2> HIDE DEF E
  <2>2. \A x \in E : x.depth \in Nat
    BY <2>1
  <2> QED
    BY <2>1, <2>2, EdgesOrdered DEF E
<1> HIDE DEF g, E, G
<1>7. /\ GroupsOf(G, E, m) /\ KeptBy(kept, G, E) /\ Lossy(m).edges = kept[Len(G)]
  BY <1>4 DEF LossyBy
<1>8. PICK n \in 1..Len(G) : G[n].depth = 1
  BY <1>5, <1>7 DEF GroupsOf
<1>9. Len(G) \in Nat /\ Len(G) >= 1 /\ DOMAIN G = 1..Len(G)
  BY <1>7, <1>8 DEF GroupsOf
<1>10. ASSUME NEW k \in 1..Len(G) PROVE G[k].depth \in 1..Graphs!Farthest
  <2>1. PICK x \in E : Graphs!Shifted(x, m) = G[k].depth
    BY <1>7, Zenon DEF GroupsOf
  <2>2. Graphs!Shifted(x, m) \in 1..Graphs!Farthest
    BY <1>6
  <2> QED
    BY <2>1, <2>2, Zenon
<1>11. Graphs!Farthest \in Nat
  BY <1>5, <1>6
<1>12. D \in Nat /\ D >= 1 /\ \A k \in 1..Len(G) : G[k].depth \in 1..D
  BY <1>9, <1>10, <1>11, DeepestOf
<1>13. kept[Len(G)] # {}
  BY <1>6, <1>7, <1>8, <1>12, SomethingKept
<1>14. g.drawnEdges = kept[Len(G)]
  BY <1>2, <1>3, <1>7, <1>13 DEF IsCut
<1>15. /\ Cardinality(kept[Len(G)]) \in Nat
       /\ (D * D) * Cardinality(kept[Len(G)]) <= Sum(Odd, DepthsOf(G, Len(G))) * MaxNodes + Len(G) * ((D * D) - 1)
  <2>1. Len(G) \in 0..Len(G)
    BY <1>9
  <2> DEFINE d == D
  <2>2. d \in Nat /\ d >= 1 /\ d = Graphs!Deepest(G) /\ \A k \in 1..Len(G) : G[k].depth \in 1..d
    BY <1>12
  <2> HIDE DEF d
  <2>3. /\ Cardinality(kept[Len(G)]) \in Nat
        /\ (d * d) * Cardinality(kept[Len(G)]) <= Sum(Odd, DepthsOf(G, Len(G))) * MaxNodes + Len(G) * ((d * d) - 1)
    BY <1>6, <1>7, <2>1, <2>2, KeptFew
  <2> QED
    BY <2>3 DEF d
<1>16. Sum(Odd, DepthsOf(G, Len(G))) \in Nat /\ Sum(Odd, DepthsOf(G, Len(G))) <= D * D
  <2>1. DepthsOf(G, Len(G)) \in SUBSET (1..D)
    BY <1>12 DEF DepthsOf
  <2> HIDE DEF D
  <2>2. IsFiniteSet(DepthsOf(G, Len(G)))
    <3>1. IsFiniteSet(1..D)
      BY <1>12, FS_Interval
    <3> QED
      BY <2>1, <3>1, FS_Subset
  <2>3. \A x \in DepthsOf(G, Len(G)) : x \in Nat /\ x >= 1
    BY <1>12, <2>1
  <2>4. \A x \in DepthsOf(G, Len(G)) : Odd[x] \in Nat
    BY <2>3, OddNat, Zenon
  <2>5. Sum(Odd, DepthsOf(G, Len(G))) \in Nat
    BY <2>2, <2>4, SumNat
  <2> QED
    BY <1>12, <2>1, <2>5, OddSums
<1>17. Cardinality(kept[Len(G)]) <= MaxNodes + Len(G)
  <2> DEFINE Q == D * D
             c == Cardinality(kept[Len(G)])
             w == Sum(Odd, DepthsOf(G, Len(G)))
             L == Len(G)
  <2>1. MaxNodes \in Nat
    BY ReportsAssumption DEF Graphs!GraphAssumption
  <2>2. Q \in Nat /\ Q >= 1
    <3> HIDE DEF D
    <3> QED
      BY <1>12
  <2>3. c \in Nat /\ w \in Nat /\ w <= Q /\ L \in Nat /\ Q * c <= w * MaxNodes + L * (Q - 1)
    BY <1>9, <1>15, <1>16
  <2> HIDE DEF Q, c, w, L
  <2>4. c <= MaxNodes + L
    BY <2>1, <2>2, <2>3, RoundedUp
  <2> QED
    BY <2>4 DEF c, L
<1>18. Len(G) <= Cardinality(depths) /\ Cardinality(depths) \in Nat
  BY <1>1, <1>6, <1>7, FewGroups DEF Ordered
<1>19. Cardinality(kept[Len(G)]) <= MaxNodes + Cardinality(depths)
  <2> DEFINE c == Cardinality(kept[Len(G)])
             x == Cardinality(depths)
  <2>1. MaxNodes \in Nat
    BY ReportsAssumption DEF Graphs!GraphAssumption
  <2>2. c \in Nat /\ x \in Nat /\ c <= MaxNodes + Len(G) /\ Len(G) <= x
    BY <1>15, <1>17, <1>18
  <2> HIDE DEF c, x
  <2>3. c <= MaxNodes + x
    BY <1>9, <2>1, <2>2
  <2> QED
    BY <2>3 DEF c, x
<1> QED
  BY <1>14, <1>19

\* What is drawn of a money flow hangs together, is small, and joins up.
LEMMA DrawnIsSound == Graphs!IInv => Graphs!DrawnGraphIsSound
<1> SUFFICES ASSUME Graphs!IInv PROVE Graphs!DrawnGraphIsSound
  OBVIOUS
<1>1. ASSUME NEW m \in Graphs!Built
      PROVE  /\ kind # "btcpath" => Graphs!IsConnected(Graphs!Graph(m))
             /\ Graphs!IsSmall(m, Graphs!Graph(m))
  BY DrawnIsConnected, DrawnIsSmall
<1>2. Graphs!Built = Graphs!Modes => Graphs!IsJoined(Graphs!make_graph_dict(Graphs!Graph(1), Graphs!Graph(-1)))
  BY DrawnIsJoined
<1> QED
  BY <1>1, <1>2, Zenon DEF Graphs!DrawnGraphIsSound

-----------------------------------------------------------------------------
(* Graphs and totals in one process                                         *)

\* A step of a report on a graph or on totals is one of that part.
LEMMA GraphAlone ==
  ASSUME [ReportsNext]_<<part, ofLabels, ofReading, ofGraph, item_list>>
  PROVE  /\ part' = part
         /\ part = "graph" => [Graphs!Next]_(Graphs!vars)
         /\ part = "totals" => [Totals!Next]_item_list
<1>1. part' = part
  BY ReadingAlone
<1>2. CASE UNCHANGED <<part, ofLabels, ofReading, ofGraph, item_list>>
  BY <1>2 DEF ofGraph, Graphs!vars
<1>3. CASE ReportsNext
  <2>1. \/ part \in {"labels", "reading"}
        \/ part = "graph" /\ Graphs!Next
        \/ part = "totals" /\ Totals!Next
    <3>1. ASSUME \/ \E x \in Readers :
                      \/ OfReading(Reading!GetWithoutIds(x))
                      \/ \E pks \in SUBSET Requests \ {{}} : OfReading(Reading!Get(x, pks))
                      \/ OfReading(Reading!FetchResultFileList(x))
                      \/ OfReading(Reading!ReadFile(x)) \/ OfReading(Reading!Answer(x))
                      \/ \E q \in Requests, matching \in BOOLEAN : OfReading(Reading!GetOne(x, q, matching))
                      \/ OfReading(Reading!FetchResultFileUid(x)) \/ OfReading(Reading!ReadOne(x))
                 \/ \E q \in Requests : OfReading(Reading!Replicate(q))
                 \/ \E q \in Requests, f \in Reading!Files : OfReading(Reading!WorkerFinish(q, f))
                 \/ \E f \in Reading!Files : OfReading(Reading!WorkerPublish(f))
                 \/ \E o \in Ops, u \in Users, l \in Labels : OfLabels(Post(o, u, l))
                 \/ \E o \in Ops, u \in Users : OfLabels(Delete(o, u))
                 \/ \E o \in Ops : OfLabels(Save(o)) \/ OfLabels(DeleteRow(o))
                 \/ OfLabels(Replicate)
          PROVE  part \in {"labels", "reading"}
      BY <3>1, Zenon DEF OfReading, OfLabels
    <3>2. ASSUME \E mode \in Graphs!Modes : OfGraph(Graphs!Receive(mode))
          PROVE  part = "graph" /\ Graphs!Next
      BY <3>2, Zenon DEF OfGraph, Graphs!Next
    <3>3. ASSUME OfTotals(Totals!Next) PROVE part = "totals" /\ Totals!Next
      BY <3>3, Zenon DEF OfTotals
    <3> QED
      BY <1>3, <3>1, <3>2, <3>3, Zenon DEF ReportsNext
  <2> QED
    BY <1>1, <2>1
<1> QED
  BY <1>1, <1>2, <1>3

\* The transfers of a graph are always such as a vendor sends: see IInv in
\* TransactionGraph.
THEOREM GraphInvariance == ReportsSpec => [](part = "graph" => Graphs!IInv)
<1> DEFINE Inv == part = "graph" => Graphs!IInv
<1>1. ReportsInit => Inv
  BY GraphInit DEF ReportsInit
<1>2. Inv /\ [ReportsNext]_<<part, ofLabels, ofReading, ofGraph, item_list>> => Inv'
  BY GraphAlone, GraphStep
<1> QED
  BY <1>1, <1>2, PTL DEF ReportsSpec

\* No transfer, no amount and no node is lost or counted twice, whatever the swaps
\* followed; and but for Lyze's and those of paths of UTXO chains, no answer up to
\* the cutoff fails, and none beyond it but those of the tracer for sources, those
\* with swaps beyond the deepest search, and sources as deep as one may ask for.
THEOREM NothingLost == ReportsSpec => []NothingIsLost
<1>1. (part = "graph" => Graphs!IInv) => NothingIsLost
  BY AllIsThere, FewRaise DEF NothingIsLost
<1> QED
  BY <1>1, GraphInvariance, PTL

\* A node has the depth of the item that first arrived there, by whatever builder;
\* and where rows come by depth it is the number of steps there, for destinations
\* of every chain and sources of those whose depths are turned back.
THEOREM DepthsAreHopsOfAll == ReportsSpec => []DepthsAreHops
<1>1. (part = "graph" => Graphs!IInv) => DepthsAreHops
  BY DepthsHops DEF DepthsAreHops
<1> QED
  BY <1>1, GraphInvariance, PTL

\* What is drawn is connected, whether it has been cut or not, with the ways back
\* of swaps and sources shifted past the first depth; destinations beyond the
\* cutoff have about CATV_MAX_SCALED_NODES edges; and two halves make a graph when
\* they are joined: every edge between nodes of its own, no id twice.
THEOREM DrawnSoundly == ReportsSpec => []DrawnGraphIsSound
<1>1. (part = "graph" => Graphs!IInv) => DrawnGraphIsSound
  BY DrawnIsSound DEF DrawnGraphIsSound
<1> QED
  BY <1>1, GraphInvariance, PTL

\* Every part keeps its types: ids of nodes have the sign of their direction, edges
\* have ids of nodes, and levels lie within what swaps and the shift of sources
\* may add.
THEOREM TypesCorrect == ReportsSpec => []TypesOK
<1> DEFINE Labelled == part \in {"labels", "reading", "graph", "totals"}
           Read == part = "reading" => Reading!IInv
           Drawn == part = "graph" => Graphs!IInv
           Totalled == part = "totals" => item_list \in Seq(Totals!Item)
           Parts == Labelled /\ Read /\ Totalled
<1>1. ReportsInit => Parts
  <2>1. ReportsInit => part \in {"labels", "reading", "graph", "totals"}
    BY Zenon DEF ReportsInit
  <2>2. ReportsInit /\ part = "reading" => Reading!Init
    BY DEF ReportsInit
  <2>3. ReportsInit /\ part = "totals" => item_list = <<>>
    BY DEF ReportsInit, Totals!Init
  <2>4. <<>> \in Seq(Totals!Item)
    OBVIOUS
  <2> QED
    BY <2>1, <2>2, <2>3, <2>4, ReadingInit
<1>2. Parts /\ [ReportsNext]_<<part, ofLabels, ofReading, ofGraph, item_list>> => Parts'
  <2> SUFFICES ASSUME Parts, [ReportsNext]_<<part, ofLabels, ofReading, ofGraph, item_list>>
               PROVE  Parts'
    OBVIOUS
  <2>1. Labelled' /\ Read'
    BY ReadingAlone, ReadingStep
  <2>2. Totalled'
    <3>1. part' = part /\ (part = "totals" => [Totals!Next]_item_list)
      BY GraphAlone
    <3> QED
      BY <3>1 DEF Totals!Next
  <2> QED
    BY <2>1, <2>2
<1>3. Parts /\ Drawn /\ TypeOK => TypesOK
  BY GraphTypes DEF TypesOK, Reading!IInv
<1> QED
  BY <1>1, <1>2, <1>3, GraphInvariance, LabelsArePart, TypeCorrect, PTL DEF ReportsSpec

-----------------------------------------------------------------------------
(* The totals of wallets                                                    *)

\* From 0 up to L, one at a time.
LEMMA UpTo ==
  ASSUME NEW L \in Nat, NEW S, 0 \in S, \A n \in 1..L : n - 1 \in S => n \in S
  PROVE  \A n \in 0..L : n \in S
<1> DEFINE wrong == {n \in 0..L : n \notin S}
<1> SUFFICES ASSUME wrong # {} PROVE FALSE
  OBVIOUS
<1>1. PICK n \in wrong : \A k \in wrong : ~(k < n)
  <2>1. wrong \in SUBSET Nat
    OBVIOUS
  <2> HIDE DEF wrong
  <2> QED
    BY <2>1, Smallest
<1>2. n \in 0..L /\ n \notin S
  BY <1>1
<1>3. n \in 1..L /\ n - 1 \in 0..L /\ n - 1 < n
  BY <1>2
<1>4. n - 1 \notin wrong
  <2> HIDE DEF wrong
  <2> QED
    BY <1>1, <1>3
<1> QED
  BY <1>2, <1>3, <1>4

Amount(items, at, field) == [i \in at |-> items[i][field]]
Fields == {"sent", "received"}

\* The sums of WalletTotals are those of TransactionGraph.
LEMMA TotalIsSum ==
  ASSUME NEW items, NEW at, NEW field
  PROVE  Totals!Sum(items, at, field) = Sum(Amount(items, at, field), at)
  BY DEF Totals!Sum, Sum, Amount, Totals!SumFunctionOnSet, Totals!FoldFunctionOnSet, Totals!MapThenFoldSet,
         Graphs!SumFunctionOnSet, Graphs!FoldFunctionOnSet, Graphs!MapThenFoldSet

\* What is known of a list of items.
LEMMA ItemsAre ==
  ASSUME NEW items \in Seq(Totals!Item)
  PROVE  /\ Len(items) \in Nat /\ DOMAIN items = 1..Len(items) /\ IsFiniteSet(DOMAIN items)
         /\ \A i \in DOMAIN items : items[i] \in Totals!Item /\ items[i].tx_hash \in Hashes \cup {None}
         /\ \A i \in DOMAIN items : \A field \in Fields : items[i][field] \in Nat
<1>1. Len(items) \in Nat /\ DOMAIN items = 1..Len(items)
  OBVIOUS
<1>2. IsFiniteSet(DOMAIN items)
  BY <1>1, FS_Interval
<1>3. \A i \in DOMAIN items : items[i] \in Totals!Item
  OBVIOUS
<1>4. \A t \in Totals!Item : t.tx_hash \in Hashes \cup {None} /\ t.sent \in Nat /\ t.received \in Nat
  BY ReportsAssumption DEF Totals!Item, Totals!TotalsAssumption
<1>5. \A i \in DOMAIN items : \A field \in Fields : items[i][field] \in Nat
  BY <1>3, <1>4 DEF Fields
<1> QED
  BY <1>1, <1>2, <1>3, <1>4, <1>5

\* Sums over some of the positions.
LEMMA AmountsSum ==
  ASSUME NEW items \in Seq(Totals!Item), NEW field \in Fields,
         NEW at \in SUBSET DOMAIN items, NEW some \in SUBSET at
  PROVE  /\ Sum(Amount(items, at, field), some) \in Nat
         /\ Sum(Amount(items, at, field), some) = Totals!Sum(items, some, field)
         /\ \A n \in some : Sum(Amount(items, at, field), some)
                              = items[n][field] + Sum(Amount(items, at, field), some \ {n})
<1> DEFINE a == Amount(items, at, field)
           b == Amount(items, some, field)
<1>1. IsFiniteSet(some)
  BY ItemsAre, FS_Subset
<1>2. \A n \in some : a[n] = items[n][field] /\ b[n] = a[n] /\ a[n] \in Nat
  BY ItemsAre DEF Amount
<1> HIDE DEF a, b
<1>3. Sum(a, some) \in Nat
  BY <1>1, <1>2, SumNat
<1>4. Sum(a, some) = Sum(b, some)
  BY <1>1, <1>2, SumAlike
<1>5. \A n \in some : Sum(a, some) = items[n][field] + Sum(a, some \ {n})
  <2> SUFFICES ASSUME NEW n \in some PROVE Sum(a, some) = items[n][field] + Sum(a, some \ {n})
    OBVIOUS
  <2>1. \A x \in some : a[x] \in Nat
    BY <1>2
  <2>2. Sum(a, some) = a[n] + Sum(a, some \ {n})
    BY <1>1, <2>1, SumOneMore
  <2> QED
    BY <1>2, <2>2
<1>6. Totals!Sum(items, some, field) = Sum(b, some)
  BY TotalIsSum DEF b
<1> QED
  BY <1>3, <1>4, <1>5, <1>6, Zenon DEF a

\* The loop over all items of an address adds up their amounts.
LEMMA ByItemIsSum ==
  ASSUME NEW items \in Seq(Totals!Item), NEW field \in Fields, NEW at \in SUBSET DOMAIN items
  PROVE  Totals!ByItem(items, at, field) = Totals!Sum(items, at, field)
<1> DEFINE L == Len(items)
           a == Amount(items, at, field)
           F == [n \in Nat |-> [t \in Nat |-> t + IF n \in at THEN items[n][field] ELSE 0]]
           Solves(h) == h = [n \in 0..L |-> IF n = 0 THEN 0 ELSE h[n - 1] + IF n \in at THEN items[n][field] ELSE 0]
           total == CHOOSE h : Solves(h)
           Below(n) == at \cap 1..n
<1>1. Totals!ByItem(items, at, field) = total[L]
  BY DEF Totals!ByItem
<1>2. L \in Nat /\ \A n \in at : n \in 1..L /\ items[n][field] \in Nat
  BY ItemsAre
<1>3. F \in [Nat -> [Nat -> Nat]]
  BY <1>2
<1>4. \A n \in Nat : \A t \in Nat : F[n][t] = t + IF n \in at THEN items[n][field] ELSE 0
  OBVIOUS
<1> HIDE DEF F
<1>5. PICK f : Iteration(f, 0, F, Nat)
  BY <1>3, Iterated
<1> DEFINE g == [n \in 0..L |-> f[n]]
<1>6. Solves(g)
  <2>1. ASSUME NEW n \in 0..L
        PROVE  g[n] = IF n = 0 THEN 0 ELSE g[n - 1] + IF n \in at THEN items[n][field] ELSE 0
    <3>1. CASE n = 0
      BY <1>5, <3>1 DEF Iteration
    <3>2. CASE n # 0
      <4>1. n \in Nat /\ n - 1 \in 0..L /\ n - 1 \in Nat
        BY <1>2, <3>2
      <4>2. f[n] = F[n][f[n - 1]] /\ f[n - 1] \in Nat
        BY <1>5, <3>2, <4>1 DEF Iteration
      <4> QED
        BY <1>4, <3>2, <4>1, <4>2
    <3> QED
      BY <3>1, <3>2
  <2> QED
    BY <2>1
<1>7. Solves(total)
  <2> HIDE DEF Solves, g
  <2> QED
    BY <1>6
<1> HIDE DEF total
<1>8. total[0] = 0 /\ \A n \in 1..L : total[n] = total[n - 1] + IF n \in at THEN items[n][field] ELSE 0
  <2>1. \A n \in 0..L : total[n] = IF n = 0 THEN 0 ELSE total[n - 1] + IF n \in at THEN items[n][field] ELSE 0
    BY <1>7
  <2>2. 0 \in 0..L /\ \A n \in 1..L : n \in 0..L /\ n # 0
    BY <1>2
  <2> QED
    BY <2>1, <2>2
<1> DEFINE right == {n \in 0..L : total[n] = Sum(a, Below(n))}
<1>9. 0 \in right
  <2>1. Below(0) = {} /\ 0 \in 0..L
    BY <1>2
  <2> HIDE DEF a, Below
  <2> QED
    BY <1>8, <2>1, SumEmpty
<1>10. ASSUME NEW n \in 1..L, n - 1 \in right PROVE n \in right
  <2>1. Below(n) \in SUBSET at /\ n \in 0..L /\ n - 1 \in 0..L /\ total[n - 1] = Sum(a, Below(n - 1))
    BY <1>2, <1>10
  <2>2. CASE n \in at
    <3>1. n \in Below(n) /\ Below(n) \ {n} = Below(n - 1)
      BY <1>2, <2>2
    <3> HIDE DEF Below
    <3>2. Sum(a, Below(n)) = items[n][field] + Sum(a, Below(n - 1)) /\ Sum(a, Below(n - 1)) \in Nat
      BY <2>1, <3>1, AmountsSum
    <3>3. items[n][field] \in Nat
      BY <1>2, <2>2
    <3> HIDE DEF a
    <3> QED
      BY <1>8, <2>1, <2>2, <3>2, <3>3
  <2>3. CASE n \notin at
    <3>1. Below(n) = Below(n - 1)
      BY <1>2, <2>3
    <3> HIDE DEF Below
    <3>2. Sum(a, Below(n)) \in Nat
      BY <2>1, AmountsSum
    <3> HIDE DEF a
    <3> QED
      BY <1>8, <2>1, <2>3, <3>1, <3>2
  <2> QED
    BY <2>2, <2>3
<1>11. Below(L) = at /\ L \in 0..L
  BY <1>2
<1>12. L \in right
  <2> HIDE DEF right
  <2> QED
    BY <1>2, <1>9, <1>10, <1>11, UpTo
<1>13. total[L] = Sum(a, at)
  BY <1>11, <1>12
<1> QED
  BY <1>1, <1>13, TotalIsSum

\* Whatever has a hash shares it with one of the first.
LEMMA HashHasFirst ==
  ASSUME NEW items \in Seq(Totals!Item), NEW at \in SUBSET DOMAIN items,
         NEW i \in at, items[i].tx_hash # None
  PROVE  \E j \in Totals!FirstOfHash(items, at) : items[j].tx_hash = items[i].tx_hash
<1> DEFINE same == {j \in at : items[j].tx_hash = items[i].tx_hash}
<1>1. \A j \in at : j \in Nat
  BY ItemsAre
<1>2. PICK j \in same : \A k \in same : ~(k < j)
  <2>1. same \in SUBSET Nat /\ same # {}
    BY <1>1
  <2> HIDE DEF same
  <2> QED
    BY <2>1, Smallest
<1>3. \A k \in at : k < j => items[k].tx_hash # items[j].tx_hash
  BY <1>2
<1> QED
  BY <1>2, <1>3 DEF Totals!FirstOfHash

\* The first of a hash are told apart by it.
LEMMA FirstsDiffer ==
  ASSUME NEW items \in Seq(Totals!Item), NEW at \in SUBSET DOMAIN items,
         NEW i \in Totals!FirstOfHash(items, at), NEW j \in Totals!FirstOfHash(items, at),
         items[i].tx_hash = items[j].tx_hash
  PROVE  i = j
<1>1. i \in at /\ j \in at /\ i \in Nat /\ j \in Nat
  BY ItemsAre DEF Totals!FirstOfHash
<1>2. ~(i < j) /\ ~(j < i)
  BY <1>1 DEF Totals!FirstOfHash
<1> QED
  BY <1>1, <1>2

\* The loop that keeps the hashes it has processed adds up the amounts of the
\* first item of each.
LEMMA ByHashIsSum ==
  ASSUME NEW items \in Seq(Totals!Item), NEW field \in Fields, NEW at \in SUBSET DOMAIN items
  PROVE  Totals!ByHash(items, at, field) = Totals!Sum(items, Totals!FirstOfHash(items, at), field)
<1> DEFINE L == Len(items)
           a == Amount(items, at, field)
           first == Totals!FirstOfHash(items, at)
           X == [processed : SUBSET Hashes, total : Nat]
           start == [processed |-> {}, total |-> 0]
           Step(n, s) == IF n \in at /\ items[n].tx_hash \notin s.processed \cup {None}
                         THEN [processed |-> s.processed \cup {items[n].tx_hash},
                               total     |-> s.total + items[n][field]]
                         ELSE s
           F == [n \in Nat |-> [s \in X |-> Step(n, s)]]
           Solves(h) == h = [n \in 0..L |->
                               IF n = 0 THEN [processed |-> {}, total |-> 0]
                               ELSE IF n \in at /\ items[n].tx_hash \notin h[n - 1].processed \cup {None}
                                    THEN [processed |-> h[n - 1].processed \cup {items[n].tx_hash},
                                          total     |-> h[n - 1].total + items[n][field]]
                                    ELSE h[n - 1]]
           acc == CHOOSE h : Solves(h)
           Below(n) == at \cap 1..n
           FirstBelow(n) == first \cap 1..n
           HashesOf(n) == {items[i].tx_hash : i \in Below(n)} \ {None}
<1>1. Totals!ByHash(items, at, field) = acc[L].total
  BY DEF Totals!ByHash
<1>2. L \in Nat /\ \A n \in at : n \in 1..L /\ items[n][field] \in Nat /\ items[n].tx_hash \in Hashes \cup {None}
  BY ItemsAre
<1>3. \A n \in Nat : \A s \in X : Step(n, s) \in X
  BY <1>2
<1>4. start \in X
  OBVIOUS
<1> HIDE DEF X
<1>5. F \in [Nat -> [X -> X]]
  <2> HIDE DEF Step
  <2> QED
    BY <1>3
<1>6. \A n \in Nat : \A s \in X : F[n][s] = Step(n, s)
  <2> HIDE DEF Step
  <2> QED
    OBVIOUS
<1> HIDE DEF F, start
<1>7. PICK f : Iteration(f, start, F, X)
  BY <1>4, <1>5, Iterated
<1> DEFINE g == [n \in 0..L |-> f[n]]
<1>8. \A h : Solves(h) <=> h = [n \in 0..L |-> IF n = 0 THEN start ELSE Step(n, h[n - 1])]
  BY Zenon DEF start
<1> HIDE DEF Solves
<1>9. Solves(g)
  <2> HIDE DEF Step
  <2>1. ASSUME NEW n \in 0..L PROVE g[n] = IF n = 0 THEN start ELSE Step(n, g[n - 1])
    <3>1. CASE n = 0
      BY <1>7, <3>1 DEF Iteration
    <3>2. CASE n # 0
      <4>1. n \in Nat /\ n - 1 \in 0..L /\ n - 1 \in Nat
        BY <1>2, <3>2
      <4>2. f[n] = F[n][f[n - 1]] /\ f[n - 1] \in X
        BY <1>7, <3>2, <4>1 DEF Iteration
      <4> QED
        BY <1>6, <3>2, <4>1, <4>2
    <3> QED
      BY <3>1, <3>2
  <2>2. g = [n \in 0..L |-> IF n = 0 THEN start ELSE Step(n, g[n - 1])]
    BY <2>1
  <2> QED
    BY <1>8, <2>2
<1>10. Solves(acc)
  <2> HIDE DEF g
  <2> QED
    BY <1>9
<1> HIDE DEF acc
<1>11. acc[0] = start /\ \A n \in 1..L : acc[n] = Step(n, acc[n - 1])
  <2> HIDE DEF Step
  <2>1. acc = [n \in 0..L |-> IF n = 0 THEN start ELSE Step(n, acc[n - 1])]
    BY <1>8, <1>10
  <2>2. \A n \in 0..L : acc[n] = IF n = 0 THEN start ELSE Step(n, acc[n - 1])
    BY <2>1
  <2>3. 0 \in 0..L /\ \A n \in 1..L : n \in 0..L /\ n # 0
    BY <1>2
  <2> QED
    BY <2>2, <2>3
<1>12. first \in SUBSET at /\ \A n : FirstBelow(n) \in SUBSET at
  BY DEF Totals!FirstOfHash
<1>13. \A n \in at : n \in first <=> items[n].tx_hash \notin HashesOf(n - 1) \cup {None}
  <2> SUFFICES ASSUME NEW n \in at
               PROVE  n \in first <=> items[n].tx_hash \notin HashesOf(n - 1) \cup {None}
    OBVIOUS
  <2>1. \A j \in at : j \in Below(n - 1) <=> j < n
    BY <1>2
  <2>2. n \in first <=> items[n].tx_hash # None /\ \A j \in at : j < n => items[j].tx_hash # items[n].tx_hash
    BY DEF Totals!FirstOfHash
  <2> HIDE DEF first
  <2> QED
    BY <2>1, <2>2
<1> DEFINE right == {n \in 0..L : acc[n].processed = HashesOf(n) /\ acc[n].total = Sum(a, FirstBelow(n))}
<1>14. 0 \in right
  <2>1. Below(0) = {} /\ FirstBelow(0) = {} /\ 0 \in 0..L
    BY <1>2
  <2>2. HashesOf(0) = {}
    BY <2>1
  <2>3. acc[0].processed = {} /\ acc[0].total = 0
    BY <1>11 DEF start
  <2> HIDE DEF a, Below, FirstBelow, HashesOf
  <2>4. Sum(a, FirstBelow(0)) = 0
    BY <2>1, SumEmpty
  <2> QED
    BY <2>1, <2>2, <2>3, <2>4
<1> HIDE DEF first
<1>15. ASSUME NEW n \in 1..L, n - 1 \in right PROVE n \in right
  <2> DEFINE s == acc[n - 1]
  <2>1. /\ n \in 0..L /\ n - 1 \in 0..L /\ acc[n] = Step(n, s)
        /\ s.processed = HashesOf(n - 1) /\ s.total = Sum(a, FirstBelow(n - 1))
    <3>1. n \in 0..L /\ n - 1 \in 0..L
      BY <1>2
    <3>2. acc[n] = Step(n, s)
      <4> HIDE DEF Step
      <4> QED
        BY <1>11
    <3>3. s.processed = HashesOf(n - 1) /\ s.total = Sum(a, FirstBelow(n - 1))
      <4> HIDE DEF HashesOf, FirstBelow, a
      <4> QED
        BY <1>15
    <3> QED
      BY <3>1, <3>2, <3>3
  <2>2. CASE n \in first
    <3>1. n \in at /\ items[n].tx_hash \notin s.processed \cup {None}
      BY <1>12, <1>13, <2>1, <2>2
    <3>2. /\ acc[n].processed = s.processed \cup {items[n].tx_hash}
          /\ acc[n].total = s.total + items[n][field]
      BY <2>1, <3>1
    <3>3. n \in FirstBelow(n) /\ FirstBelow(n) \ {n} = FirstBelow(n - 1) /\ Below(n) = Below(n - 1) \cup {n}
      BY <1>2, <2>2, <3>1
    <3>4. HashesOf(n) = HashesOf(n - 1) \cup {items[n].tx_hash}
      <4> HIDE DEF Below
      <4> QED
        BY <3>1, <3>3
    <3> HIDE DEF FirstBelow, HashesOf, Step, s
    <3>5. /\ Sum(a, FirstBelow(n)) = items[n][field] + Sum(a, FirstBelow(n - 1))
          /\ Sum(a, FirstBelow(n - 1)) \in Nat /\ items[n][field] \in Nat
      BY <1>2, <1>12, <3>1, <3>3, AmountsSum
    <3> HIDE DEF a
    <3>6. acc[n].total = Sum(a, FirstBelow(n)) /\ acc[n].processed = HashesOf(n)
      BY <2>1, <3>2, <3>4, <3>5
    <3> QED
      BY <2>1, <3>6
  <2>3. CASE n \notin first
    <3>1. FirstBelow(n) = FirstBelow(n - 1)
      BY <1>2, <2>3
    <3>2. n \in at => items[n].tx_hash \in HashesOf(n - 1) \cup {None}
      BY <1>13, <2>3
    <3>3. acc[n] = s
      BY <2>1, <3>2
    <3>4. HashesOf(n) = HashesOf(n - 1)
      <4>1. \A i : i \in Below(n) <=> i \in Below(n - 1) \/ (i = n /\ n \in at)
        BY <1>2
      <4> HIDE DEF Below
      <4> QED
        BY <3>2, <4>1
    <3> HIDE DEF FirstBelow, HashesOf, Step, a
    <3> QED
      BY <2>1, <3>1, <3>3, <3>4
  <2> QED
    BY <2>2, <2>3
<1>16. FirstBelow(L) = first /\ L \in 0..L
  BY <1>2, <1>12
<1>17. L \in right
  <2> HIDE DEF right
  <2> QED
    BY <1>2, <1>14, <1>15, <1>16, UpTo
<1>18. acc[L].total = Sum(a, first)
  BY <1>16, <1>17
<1>19. Sum(a, first) = Totals!Sum(items, first, field)
  BY <1>12, AmountsSum
<1> QED
  BY <1>1, <1>18, <1>19 DEF first

\* The items of a wallet as sender and as receiver, and the total of the wallet, as
\* both functions compute it.
Sends(items, w)    == {i \in Totals!Main(items) : items[i].sender = w}
Receives(items, w) == {i \in Totals!Main(items) : items[i].receiver = w}
TotalOf(items, w, outbound) ==
  IF Totals!find_main_token_symbol(items) = "BTC" /\ outbound
  THEN IF Sends(items, w) = {} THEN Totals!Sum(items, Totals!FirstOfHash(items, Receives(items, w)), "received")
       ELSE IF Receives(items, w) = {} THEN 0
            ELSE Totals!Sum(items, Totals!FirstOfHash(items, Sends(items, w)), "sent")
  ELSE Totals!Sum(items, IF outbound THEN Receives(items, w) ELSE Sends(items, w), "received")

\* Totals are numbers.
LEMMA TotalNat ==
  ASSUME NEW items \in Seq(Totals!Item), NEW field \in Fields, NEW at \in SUBSET DOMAIN items
  PROVE  Totals!Sum(items, at, field) \in Nat
<1>1. at \in SUBSET at
  OBVIOUS
<1>2. Sum(Amount(items, at, field), at) \in Nat
  BY <1>1, AmountsSum
<1> QED
  BY <1>2, TotalIsSum

\* They compute it for any list of items.
LEMMA TotalsAre ==
  ASSUME NEW items \in Seq(Totals!Item), NEW w \in Others, NEW outbound \in BOOLEAN
  PROVE  /\ Totals!calculate_wallet_total_amount(items, w, outbound) = TotalOf(items, w, outbound)
         /\ Totals!calculate_wallets_total_amounts(items)[w][outbound] = TotalOf(items, w, outbound)
<1> DEFINE sent == Totals!items_by_sender(items)
           got == Totals!items_by_receiver(items)
           s == Sends(items, w)
           r == Receives(items, w)
           utxo == Totals!find_main_token_symbol(items) = "BTC"
           first(at) == Totals!FirstOfHash(items, at)
           many == Totals!calculate_wallets_total_amounts(items)
           entry(v, out) ==
             IF utxo /\ out
             THEN (IF sent[v] # {} /\ got[v] # {} THEN Totals!ByHash(items, sent[v], "sent") ELSE 0)
                  + (IF sent[v] = {} THEN Totals!ByHash(items, got[v], "received") ELSE 0)
             ELSE Totals!ByItem(items, IF out THEN got[v] ELSE sent[v], "received")
<1>1. Totals!calculate_wallet_total_amount(items, w, outbound) = TotalOf(items, w, outbound)
  BY Zenon DEF Totals!calculate_wallet_total_amount, TotalOf, Sends, Receives
<1>2. /\ s \in SUBSET DOMAIN items /\ r \in SUBSET DOMAIN items
      /\ "sent" \in Fields /\ "received" \in Fields
  BY DEF Totals!Main, Sends, Receives, Fields
<1>3. sent[w] = s /\ got[w] = r
  BY DEF Totals!items_by_sender, Totals!items_by_receiver, Sends, Receives
<1>4. many[w][outbound] = entry(w, outbound)
  <2>1. many = [v \in Others |-> [out \in BOOLEAN |-> entry(v, out)]]
    BY Zenon DEF Totals!calculate_wallets_total_amounts
  <2> HIDE DEF many, entry
  <2> QED
    BY <2>1
<1>5. /\ Totals!ByHash(items, s, "sent") = Totals!Sum(items, first(s), "sent")
      /\ Totals!ByHash(items, r, "received") = Totals!Sum(items, first(r), "received")
      /\ Totals!ByItem(items, s, "received") = Totals!Sum(items, s, "received")
      /\ Totals!ByItem(items, r, "received") = Totals!Sum(items, r, "received")
  BY <1>2, ByHashIsSum, ByItemIsSum
<1>6. Totals!Sum(items, first(s), "sent") \in Nat /\ Totals!Sum(items, first(r), "received") \in Nat
  <2>1. first(s) \in SUBSET DOMAIN items /\ first(r) \in SUBSET DOMAIN items
    BY <1>2 DEF Totals!FirstOfHash
  <2> QED
    BY <1>2, <2>1, TotalNat
<1> HIDE DEF sent, got, s, r, first, many
<1>7. entry(w, outbound) = TotalOf(items, w, outbound)
  BY <1>3, <1>5, <1>6 DEF TotalOf, s, r, first
<1> QED
  BY <1>1, <1>4, <1>7 DEF many

\* So they agree.
LEMMA TotalsSame ==
  ASSUME item_list \in Seq(Totals!Item)
  PROVE  Totals!TotalsAgree
  BY TotalsAre, Zenon DEF Totals!TotalsAgree

\* A sum does not depend on the names of the places.
LEMMA SumMoved ==
  ASSUME NEW S, IsFiniteSet(S), NEW f, \A x \in S : f[x] \in Nat,
         NEW T, NEW g, NEW p \in [S -> T], \A x, y \in S : p[x] = p[y] => x = y,
         \A t \in T : \E x \in S : p[x] = t, \A x \in S : g[p[x]] = f[x]
  PROVE  Sum(f, S) = Sum(g, T)
<1>1. IsFiniteSet(T)
  <2>1. p \in Surjection(S, T)
    BY Zenon DEF Surjection
  <2> QED
    BY <2>1, FS_Surjection
<1>2. ASSUME NEW t \in T PROVE g[t] = Sum(f, {x \in S : p[x] = t})
  <2> DEFINE here == {y \in S : p[y] = t}
  <2>1. PICK x \in S : p[x] = t
    OBVIOUS
  <2>2. here = {x}
    BY <2>1
  <2> HIDE DEF here
  <2>3. IsFiniteSet({x}) /\ {x} \ {x} = {}
    BY FS_Singleton
  <2>4. Sum(f, {x}) = f[x] + Sum(f, {x} \ {x})
    BY <2>3, SumOneMore
  <2>5. Sum(f, {}) = 0
    BY SumEmpty
  <2>6. f[x] \in Nat /\ g[t] = f[x]
    BY <2>1
  <2>7. g[t] = Sum(f, here)
    BY <2>2, <2>3, <2>4, <2>5, <2>6
  <2> QED
    BY <2>7 DEF here
<1>3. Grouped(S, f, T, p, g)
  BY <1>1, <1>2 DEF Grouped
<1> QED
  BY <1>3, SumOfGroups

\* Of two lists, one of them the other backwards: what is where.
Backwards(back, items) ==
  /\ items \in Seq(Totals!Item) /\ back \in Seq(Totals!Item) /\ Len(back) = Len(items)
  /\ \A i \in DOMAIN items : back[Len(items) + 1 - i] = items[i] /\ Len(items) + 1 - i \in DOMAIN items
Alike(items) ==
  \A i, j \in DOMAIN items :
    items[i].tx_hash = items[j].tx_hash => items[i].sent = items[j].sent /\ items[i].received = items[j].received
\* Where the items at these places are when the list is read backwards.
Mirror(items, at) == {Len(items) + 1 - i : i \in at}

\* Reverse gives such a list.
LEMMA ReadBackwards ==
  ASSUME NEW items \in Seq(Totals!Item)
  PROVE  Backwards(Totals!Reverse(items), items)
<1> DEFINE L == Len(items)
           back == Totals!Reverse(items)
<1>1. L \in Nat /\ DOMAIN items = 1..L /\ \A i \in 1..L : items[i] \in Totals!Item
  BY ItemsAre
<1>2. back = [i \in 1..L |-> items[(L - i) + 1]]
  BY DEF Totals!Reverse
<1> HIDE DEF back
<1>3. \A i \in 1..L : (L - i) + 1 \in 1..L
  BY <1>1
<1>4. back \in [1..L -> Totals!Item]
  BY <1>1, <1>2, <1>3
<1>5. back \in Seq(Totals!Item) /\ Len(back) = L
  BY <1>1, <1>4
<1>6. \A i \in 1..L : L + 1 - i \in 1..L /\ (L - (L + 1 - i)) + 1 = i
  BY <1>1
<1>7. \A i \in 1..L : back[L + 1 - i] = items[i]
  BY <1>2, <1>6
<1> QED
  BY <1>1, <1>5, <1>6, <1>7 DEF Backwards, back

\* Places and their mirror images belong to each other one by one.
LEMMA Mirrored ==
  ASSUME NEW items, NEW back, Backwards(back, items), NEW at \in SUBSET DOMAIN items
  PROVE  /\ Mirror(items, at) \in SUBSET DOMAIN back
         /\ \A i \in at : /\ Len(items) + 1 - i \in Mirror(items, at) /\ back[Len(items) + 1 - i] = items[i]
         /\ \A k \in Mirror(items, at) : \E i \in at : k = Len(items) + 1 - i
         /\ \A i, j \in at : Len(items) + 1 - i = Len(items) + 1 - j => i = j
         /\ Mirror(items, at) = {} <=> at = {}
<1>1. /\ Len(items) \in Nat /\ DOMAIN items = 1..Len(items) /\ DOMAIN back = 1..Len(items)
      /\ \A i \in DOMAIN items : back[Len(items) + 1 - i] = items[i] /\ Len(items) + 1 - i \in DOMAIN items
  BY ItemsAre DEF Backwards
<1>2. \A i \in at : i \in Nat
  BY <1>1
<1> QED
  BY <1>1, <1>2 DEF Mirror

\* The loop over items adds up the same backwards.
LEMMA ByItemMirrored ==
  ASSUME NEW items, NEW back, Backwards(back, items), NEW at \in SUBSET DOMAIN items, NEW field \in Fields
  PROVE  Totals!Sum(back, Mirror(items, at), field) = Totals!Sum(items, at, field)
<1> DEFINE L == Len(items)
           T == Mirror(items, at)
           f == Amount(items, at, field)
           g == Amount(back, T, field)
           p == [i \in at |-> L + 1 - i]
<1>1. items \in Seq(Totals!Item) /\ IsFiniteSet(at)
  BY ItemsAre, FS_Subset DEF Backwards
<1>2. /\ \A i \in at : L + 1 - i \in T /\ back[L + 1 - i] = items[i]
      /\ \A k \in T : \E i \in at : k = L + 1 - i
      /\ \A i, j \in at : L + 1 - i = L + 1 - j => i = j
  BY Mirrored
<1> HIDE DEF T
<1>3. p \in [at -> T] /\ \A i \in at : p[i] = L + 1 - i
  BY <1>2
<1>4. \A i \in at : f[i] = items[i][field] /\ f[i] \in Nat
  BY <1>1, ItemsAre DEF Amount
<1>5. \A i \in at : g[p[i]] = f[i]
  BY <1>2, <1>3, <1>4 DEF Amount
<1>6. /\ \A i, j \in at : p[i] = p[j] => i = j
      /\ \A t \in T : \E i \in at : p[i] = t
  BY <1>2, <1>3
<1> HIDE DEF f, g, p
<1>7. Sum(f, at) = Sum(g, T)
  BY <1>1, <1>3, <1>4, <1>5, <1>6, SumMoved
<1> QED
  BY <1>7, TotalIsSum DEF f, g, T

\* So does the loop over hashes, if the items of a transaction agree.
LEMMA ByHashMirrored ==
  ASSUME NEW items, NEW back, Backwards(back, items), Alike(items),
         NEW at \in SUBSET DOMAIN items, NEW field \in Fields
  PROVE  Totals!Sum(back, Totals!FirstOfHash(back, Mirror(items, at)), field)
           = Totals!Sum(items, Totals!FirstOfHash(items, at), field)
<1> DEFINE L == Len(items)
           M == Mirror(items, at)
           S == Totals!FirstOfHash(items, at)
           T == Totals!FirstOfHash(back, M)
           f == Amount(items, S, field)
           g == Amount(back, T, field)
           p == [i \in S |-> CHOOSE t \in T : back[t].tx_hash = items[i].tx_hash]
<1>1. /\ items \in Seq(Totals!Item) /\ back \in Seq(Totals!Item) /\ S \in SUBSET at /\ T \in SUBSET M
      /\ \A i \in S : items[i].tx_hash # None
      /\ \A t \in T : back[t].tx_hash # None
  BY DEF Backwards, Totals!FirstOfHash
<1>2. IsFiniteSet(S)
  BY <1>1, ItemsAre, FS_Subset
<1>3. /\ M \in SUBSET DOMAIN back
      /\ \A i \in at : L + 1 - i \in M /\ back[L + 1 - i] = items[i]
      /\ \A k \in M : \E i \in at : k = L + 1 - i
  BY Mirrored
<1>4. \A i \in S : \E t \in T : back[t].tx_hash = items[i].tx_hash
  <2> SUFFICES ASSUME NEW i \in S PROVE \E t \in T : back[t].tx_hash = items[i].tx_hash
    OBVIOUS
  <2>1. L + 1 - i \in M /\ back[L + 1 - i] = items[i] /\ items[i].tx_hash # None
    BY <1>1, <1>3
  <2>2. \E t \in T : back[t].tx_hash = back[L + 1 - i].tx_hash
    <3> HIDE DEF M
    <3>1. back[L + 1 - i].tx_hash # None
      BY <2>1
    <3> QED
      BY <1>1, <1>3, <2>1, <3>1, HashHasFirst
  <2> QED
    BY <2>1, <2>2
<1>5. \A t \in T : \E i \in S : back[t].tx_hash = items[i].tx_hash
  <2> SUFFICES ASSUME NEW t \in T PROVE \E i \in S : back[t].tx_hash = items[i].tx_hash
    OBVIOUS
  <2>1. PICK k \in at : t = L + 1 - k
    BY <1>1, <1>3
  <2>2. back[t] = items[k] /\ items[k].tx_hash # None
    BY <1>1, <1>3, <2>1
  <2> QED
    BY <1>1, <2>2, HashHasFirst
<1>6. \A i, j \in S : items[i].tx_hash = items[j].tx_hash => i = j
  BY <1>1, FirstsDiffer
<1>7. \A t, u \in T : back[t].tx_hash = back[u].tx_hash => t = u
  BY <1>1, <1>3, FirstsDiffer
<1>8. \A i \in S, t \in T : back[t].tx_hash = items[i].tx_hash => back[t][field] = items[i][field]
  <2> SUFFICES ASSUME NEW i \in S, NEW t \in T, back[t].tx_hash = items[i].tx_hash
               PROVE  back[t][field] = items[i][field]
    OBVIOUS
  <2>1. PICK k \in at : t = L + 1 - k
    BY <1>1, <1>3
  <2>2. back[t] = items[k]
    BY <1>3, <2>1
  <2>3. items[k].sent = items[i].sent /\ items[k].received = items[i].received
    BY <1>1, <2>2 DEF Alike
  <2> QED
    BY <2>2, <2>3 DEF Fields
<1> HIDE DEF S, T, M
<1>9. p \in [S -> T] /\ \A i \in S : back[p[i]].tx_hash = items[i].tx_hash
  BY <1>4
<1> HIDE DEF p
<1>10. \A i \in S : f[i] = items[i][field] /\ f[i] \in Nat
  BY <1>1, ItemsAre DEF Amount
<1>11. \A i \in S : g[p[i]] = f[i]
  BY <1>8, <1>9, <1>10 DEF Amount
<1>12. \A i, j \in S : p[i] = p[j] => i = j
  BY <1>6, <1>9
<1>13. \A t \in T : \E i \in S : p[i] = t
  BY <1>5, <1>7, <1>9
<1> HIDE DEF f, g
<1>14. Sum(f, S) = Sum(g, T)
  BY <1>2, <1>9, <1>10, <1>11, <1>12, <1>13, SumMoved
<1> QED
  BY <1>14, TotalIsSum DEF f, g, S, T, M

\* The items of a wallet are those of the same wallet backwards.
LEMMA WalletsMirrored ==
  ASSUME NEW items, NEW back, Backwards(back, items), NEW w,
         Totals!find_main_token_symbol(back) = Totals!find_main_token_symbol(items)
  PROVE  /\ Sends(back, w) = Mirror(items, Sends(items, w))
         /\ Receives(back, w) = Mirror(items, Receives(items, w))
<1> DEFINE L == Len(items)
           main == Totals!find_main_token_symbol(items)
<1>1. /\ L \in Nat /\ DOMAIN items = 1..L /\ DOMAIN back = 1..L
      /\ \A i \in 1..L : back[L + 1 - i] = items[i] /\ L + 1 - i \in 1..L
  BY ItemsAre DEF Backwards
<1>2. \A i \in 1..L : L + 1 - (L + 1 - i) = i
  BY <1>1
<1>3. \A i \in 1..L : back[i] = items[L + 1 - i]
  BY <1>1, <1>2
<1> HIDE DEF main
<1> DEFINE counts(t) == t.symbol = main /\ ~t.is_swap
<1>4. \A i : /\ i \in Sends(back, w) <=> i \in 1..L /\ counts(back[i]) /\ back[i].sender = w
             /\ i \in Sends(items, w) <=> i \in 1..L /\ counts(items[i]) /\ items[i].sender = w
             /\ i \in Receives(back, w) <=> i \in 1..L /\ counts(back[i]) /\ back[i].receiver = w
             /\ i \in Receives(items, w) <=> i \in 1..L /\ counts(items[i]) /\ items[i].receiver = w
  BY <1>1 DEF Sends, Receives, Totals!Main, main
<1> HIDE DEF counts
<1>5. \A i : i \in Sends(back, w) <=> i \in 1..L /\ L + 1 - i \in Sends(items, w)
  BY <1>1, <1>3, <1>4
<1>6. \A i : i \in Receives(back, w) <=> i \in 1..L /\ L + 1 - i \in Receives(items, w)
  BY <1>1, <1>3, <1>4
<1>7. \A at \in SUBSET (1..L) : \A i : i \in Mirror(items, at) <=> i \in 1..L /\ L + 1 - i \in at
  <2> SUFFICES ASSUME NEW at \in SUBSET (1..L), NEW i
               PROVE  i \in Mirror(items, at) <=> i \in 1..L /\ L + 1 - i \in at
    OBVIOUS
  <2>1. ASSUME i \in Mirror(items, at) PROVE i \in 1..L /\ L + 1 - i \in at
    BY <1>1, <1>2, <2>1 DEF Mirror
  <2>2. ASSUME i \in 1..L, L + 1 - i \in at PROVE i \in Mirror(items, at)
    BY <1>2, <2>2 DEF Mirror
  <2> QED
    BY <2>1, <2>2
<1>8. Sends(items, w) \in SUBSET (1..L) /\ Receives(items, w) \in SUBSET (1..L)
  BY <1>4
<1> QED
  BY <1>5, <1>6, <1>7, <1>8, Zenon

\* The totals of a list read backwards are the same where a transaction's items agree.
LEMMA TotalsBackwards ==
  ASSUME item_list \in Seq(Totals!Item)
  PROVE  Totals!OrderDoesNotMatter
<1> DEFINE back == Totals!Reverse(item_list)
<1> SUFFICES ASSUME Totals!find_main_token_symbol(back) = Totals!find_main_token_symbol(item_list), Alike(item_list)
             PROVE  Totals!calculate_wallets_total_amounts(back) = Totals!calculate_wallets_total_amounts(item_list)
  BY Zenon DEF Totals!OrderDoesNotMatter, Alike
<1>1. Backwards(back, item_list)
  BY ReadBackwards
<1>2. back \in Seq(Totals!Item)
  BY <1>1 DEF Backwards
<1> HIDE DEF back
<1>3. ASSUME NEW w \in Others, NEW outbound \in BOOLEAN
      PROVE  TotalOf(back, w, outbound) = TotalOf(item_list, w, outbound)
  <2> DEFINE s == Sends(item_list, w)
             r == Receives(item_list, w)
  <2>1. Sends(back, w) = Mirror(item_list, s) /\ Receives(back, w) = Mirror(item_list, r)
    BY <1>1, WalletsMirrored
  <2>2. s \in SUBSET DOMAIN item_list /\ r \in SUBSET DOMAIN item_list
    BY DEF Sends, Receives, Totals!Main
  <2>3. "sent" \in Fields /\ "received" \in Fields
    BY DEF Fields
  <2> HIDE DEF s, r
  <2>4. (Mirror(item_list, s) = {} <=> s = {}) /\ (Mirror(item_list, r) = {} <=> r = {})
    BY <1>1, <2>2, Mirrored
  <2>5. /\ Totals!Sum(back, Mirror(item_list, s), "received") = Totals!Sum(item_list, s, "received")
        /\ Totals!Sum(back, Mirror(item_list, r), "received") = Totals!Sum(item_list, r, "received")
    BY <1>1, <2>2, <2>3, ByItemMirrored
  <2>6. /\ Totals!Sum(back, Totals!FirstOfHash(back, Mirror(item_list, s)), "sent")
             = Totals!Sum(item_list, Totals!FirstOfHash(item_list, s), "sent")
        /\ Totals!Sum(back, Totals!FirstOfHash(back, Mirror(item_list, r)), "received")
             = Totals!Sum(item_list, Totals!FirstOfHash(item_list, r), "received")
    BY <1>1, <2>2, <2>3, ByHashMirrored
  <2> QED
    BY <2>1, <2>4, <2>5, <2>6 DEF TotalOf, s, r
<1> DEFINE a == Totals!calculate_wallets_total_amounts(back)
           b == Totals!calculate_wallets_total_amounts(item_list)
<1>4. ASSUME NEW w \in Others, NEW outbound \in BOOLEAN PROVE a[w][outbound] = b[w][outbound]
  BY <1>2, <1>3, TotalsAre
<1>5. /\ a = [w \in Others |-> a[w]] /\ b = [w \in Others |-> b[w]]
      /\ \A w \in Others : /\ a[w] = [outbound \in BOOLEAN |-> a[w][outbound]]
                           /\ b[w] = [outbound \in BOOLEAN |-> b[w][outbound]]
  BY DEF Totals!calculate_wallets_total_amounts
<1> HIDE DEF a, b
<1>6. ASSUME NEW w \in Others PROVE a[w] = b[w]
  BY <1>4, <1>5
<1> QED
  BY <1>5, <1>6 DEF a, b

\* Both functions give every wallet the same total, for any list of items, and
\* the order of the items does not matter where those of a transaction agree.
THEOREM TotalsOfAllAgree == ReportsSpec => []TotalsAgree
<1>1. TypesOK => (part = "totals" => item_list \in Seq(Totals!Item))
  BY DEF TypesOK
<1>2. TypesOK => TotalsAgree
  BY <1>1, TotalsSame, TotalsBackwards DEF TotalsAgree
<1> QED
  BY <1>2, TypesCorrect, PTL
=============================================================================
