----------------------------- MODULE NodeLabels -----------------------------
(***************************************************************************)
(* CATVNodeLabelView and CATVNodeLabelPostSerializer: users label a node   *)
(* of a report, over a database whose reads go to a replica.  Labels of    *)
(* other reports or wallets never meet in a query, so one node of one      *)
(* report stands for all.  Every operation reads the replica and writes in *)
(* a later step.                                                           *)
(***************************************************************************)
EXTENDS Naturals, FiniteSets, FiniteSetsExt

CONSTANTS
  Users, Labels,
  Ops,      \* posts and deletions
  None

Ids == 1..Cardinality(Ops)
Row == [user : Users, label : Labels]

ASSUME LabelAssumption ==
  /\ IsFiniteSet(Ops)
  /\ None \notin Users /\ None \notin Labels /\ None \notin Ids /\ None \notin Row

VARIABLES
  rows,     \* api_catv_node_label_request on 'default': rows[id], or None
  replica,  \* the rows as 'readonly' has them
  nextid,
  op,       \* each operation: its step, user, label, and the row it has found
  overlap   \* has an operation begun beside another one, or on a lagging replica? (h)

vars == <<rows, replica, nextid, op, overlap>>

Table == [Ids -> Row \cup {None}]
Answers == {200, 403, 404}
Operation == [step : {"new", "save", "delete", "done"}, user : Users \cup {None},
              label : Labels \cup {None}, found : Ids \cup {None}, answer : Answers \cup {None}]

TypeOK ==
  /\ rows \in Table /\ replica \in Table /\ nextid \in 1..(Cardinality(Ops) + 1)
  /\ op \in [Ops -> Operation]
  /\ overlap \in BOOLEAN

Init ==
  /\ rows = [i \in Ids |-> None] /\ replica = rows /\ nextid = 1
  /\ op = [o \in Ops |-> [step |-> "new", user |-> None, label |-> None, found |-> None, answer |-> None]]
  /\ overlap = FALSE

Held(table, who) == {i \in Ids : table[i] # None /\ table[i].user \in who}
\* .first(): by primary key
First(ids) == IF ids = {} THEN None ELSE Min(ids)

Begin(o) ==
  /\ op[o].step = "new"
  /\ overlap' = (overlap \/ replica # rows \/ \E p \in Ops : op[p].step \in {"save", "delete"})
  /\ UNCHANGED <<rows, replica, nextid>>

\* The serializer's create: is there a label of this user already?
FindExisting(u) == First(Held(replica, {u}))

Post(o, u, l) ==
  /\ Begin(o)
  /\ op' = [op EXCEPT ![o] = [@ EXCEPT !.step = "save", !.user = u, !.label = l, !.found = FindExisting(u)]]

\* Mutant: a second row whatever was found.
CreateAlways(o) ==
  /\ op[o].step = "save"
  /\ rows' = [rows EXCEPT ![nextid] = [user |-> op[o].user, label |-> op[o].label]]
  /\ nextid' = nextid + 1
  /\ op' = [op EXCEPT ![o].step = "done", ![o].answer = 200]
  /\ UNCHANGED <<replica, overlap>>

\* Mutant: the id of a deleted row is given out again.
SaveReusing(o) ==
  /\ op[o].step = "save"
  /\ LET id == IF op[o].found = None THEN Min({i \in Ids : rows[i] = None}) ELSE op[o].found IN
     /\ rows' = [rows EXCEPT ![id] = [user |-> op[o].user, label |-> op[o].label]]
     /\ nextid' = IF op[o].found = None THEN nextid + 1 ELSE nextid
  /\ op' = [op EXCEPT ![o].step = "done", ![o].answer = 200]
  /\ UNCHANGED <<replica, overlap>>

\* save() updates by primary key, and inserts the row again if it is gone.
Save(o) ==
  /\ op[o].step = "save"
  /\ LET id == IF op[o].found = None THEN nextid ELSE op[o].found IN
     /\ rows' = [rows EXCEPT ![id] = [user |-> op[o].user, label |-> op[o].label]]
     /\ nextid' = IF op[o].found = None THEN nextid + 1 ELSE nextid
  /\ op' = [op EXCEPT ![o].step = "done", ![o].answer = 200]
  /\ UNCHANGED <<replica, overlap>>

\* The view's delete: the first label of the node, whoever's it is.
CheckOwner(o, u, first) ==
  IF first = None THEN [op[o] EXCEPT !.step = "done", !.user = u, !.answer = 404]
  ELSE IF replica[first].user # u THEN [op[o] EXCEPT !.step = "done", !.user = u, !.answer = 403]
  ELSE [op[o] EXCEPT !.step = "delete", !.user = u, !.found = first]

Delete(o, u) ==
  /\ Begin(o)
  /\ op' = [op EXCEPT ![o] = CheckOwner(o, u, First(Held(replica, Users)))]

DeleteRow(o) ==
  /\ op[o].step = "delete"
  /\ rows' = [rows EXCEPT ![op[o].found] = None]
  /\ op' = [op EXCEPT ![o].step = "done", ![o].answer = 200]
  /\ UNCHANGED <<replica, nextid, overlap>>

Replicate ==
  /\ replica # rows
  /\ replica' = rows
  /\ UNCHANGED <<rows, nextid, op, overlap>>

Next ==
  \/ \E o \in Ops : \/ \E u \in Users, l \in Labels : Post(o, u, l)
                    \/ \E u \in Users : Delete(o, u)
                    \/ Save(o) \/ DeleteRow(o)
  \/ Replicate

Spec == Init /\ [][Next]_vars

-----------------------------------------------------------------------------
(* Properties                                                               *)

Single(table) == \A u \in Users : Cardinality(Held(table, {u})) <= 1

\* Operations one after the other, each on a replica that has caught up, keep
\* one label per user: a second one needs an overlap.
DuplicatesNeedOverlap == ~overlap => Single(rows)

\* A row is changed or deleted only by an operation of the user it belongs to.
OnlyOwnersChange ==
  [][\A i \in Ids : rows[i] # None /\ rows'[i] # rows[i] =>
       \E o \in Ops : op[o].step # "done" /\ op'[o].step = "done" /\ op[o].user = rows[i].user]_vars

\* Without an overlap a deleted label stays deleted: no row with a used id comes back.
DeletionHolds ==
  [][\A i \in Ids : ~overlap /\ i < nextid /\ rows[i] = None => rows'[i] = None]_vars

\* A label is changed by nobody but its owner, and a deleted one comes back
\* only where operations overlap.
LabelsStayPut == OnlyOwnersChange /\ DeletionHolds

\* The inductive invariant of these properties.  An id is used up only by an
\* operation that is done, ...
Active(o) == op[o].step \in {"save", "delete"}

IdsOK == nextid <= Cardinality({o \in Ops : op[o].step = "done"}) + 1

\* ... nothing refers to an id before it is given out, ...
FreshOK ==
  /\ \A i \in Ids : i >= nextid => rows[i] = None /\ replica[i] = None
  /\ \A o \in Ops : /\ Active(o) /\ op[o].found # None => op[o].found < nextid
                    /\ Active(o) => op[o].user # None
                    /\ op[o].step = "save" => op[o].label # None
                    /\ op[o].step = "delete" => op[o].found # None

\* ... a row, its copy and the operations that have found it agree on whose it
\* is, ...
OwnersOK ==
  \E owner \in [Ids -> Users \cup {None}] :
    /\ \A i \in Ids : /\ rows[i] # None => rows[i].user = owner[i]
                      /\ replica[i] # None => replica[i].user = owner[i]
    /\ \A o \in Ops : Active(o) /\ op[o].found # None => op[o].user = owner[op[o].found]

\* ... and without an overlap an operation is alone, and what it has found is
\* still so when it writes.
AloneOK ==
  ~overlap =>
    /\ Single(rows)
    /\ \A o \in Ops : Active(o) =>
          /\ replica = rows /\ \A p \in Ops : Active(p) => p = o
          /\ op[o].step = "save" => op[o].found = FindExisting(op[o].user)

IInv == TypeOK /\ IdsOK /\ FreshOK /\ OwnersOK /\ AloneOK
=============================================================================
