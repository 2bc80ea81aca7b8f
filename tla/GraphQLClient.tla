---------------------------- MODULE GraphQLClient ----------------------------
(* CoinpathAPIInterface.get_transactions on its way through Bitquery:       *)
(* GraphQLInterface of api/catvutils/graphql_interface.py.  One interface   *)
(* object serves one lookup.  A query that finds swaps is followed by one   *)
(* thread per swap, each of which looks up the trade and asks again; the    *)
(* calls form a tree.  All of them write the depth and the limit of the     *)
(* one object before they build their query, and a call that fails asks     *)
(* once more for less.                                                      *)
EXTENDS Integers, Sequences, FiniteSets, SequencesExt

CONSTANTS original_depth, original_limit,   \* what the caller asked for
          max_retries,
          Calls                             \* a call is its path of swaps

ASSUME GraphQLAssumption ==
    /\ original_depth \in Nat \ {0} /\ original_limit \in Nat \ {0}
    /\ max_retries \in Nat
    /\ Calls \subseteq Seq(Nat) /\ <<>> \in Calls

Main == <<>>    \* the lookup itself
Children(c) == {d \in Calls : d # Main /\ Front(d) = c}

Settings == [depth : Nat, limit : Nat]
Original == [depth |-> original_depth, limit |-> original_limit]
Most(a, b)  == IF a < b THEN b ELSE a

VARIABLES
    shared,     \* self.depth and self.limit
    pc,         \* of each call: where its thread is
    initial,    \* initial_depth of a call
    current,    \* current_depth and current_limit of a call
    retry,      \* retry_count of a call
    query,      \* the settings in the query a call sent last
    found,      \* what a call, or the process_swap around it, ended with
    rows,       \* the calls whose transactions it hands up
    token,      \* whether the lookup still names a token
    turned,     \* history: calls turned away by the depth
    retried     \* history: calls that asked for less

vars == <<shared, pc, initial, current, retry, query, found, rows, token,
          turned, retried>>

\* Anything but a list: the vendor's error object, None, or an exception.
Ends == {"list", "no token", "errors", "None", "raised"}

Init ==
    /\ shared = Original
    /\ pc = [c \in Calls |-> IF c = Main THEN "enter" ELSE "idle"]
    /\ initial = [c \in Calls |-> 0]
    /\ current = [c \in Calls |-> Original]
    /\ retry = [c \in Calls |-> 0]
    /\ query = [c \in Calls |-> Original]
    /\ found = [c \in Calls |-> "pending"]
    /\ rows = [c \in Calls |-> {}]
    /\ token \in BOOLEAN
    /\ turned = {}
    /\ retried = {}

-----------------------------------------------------------------------------
(* call_graphql_endpoint *)
GoesTo(c, label) == pc' = [pc EXCEPT ![c] = label]
EndsWith(c, what, whose) == /\ found' = [found EXCEPT ![c] = what]
                            /\ rows' = [rows EXCEPT ![c] = whose]

\* Nothing is asked beyond the depth of the object, as it is just now.
Enter(c) ==
    /\ pc[c] = "enter"
    /\ IF initial[c] >= shared.depth
       THEN /\ GoesTo(c, "back")
            /\ EndsWith(c, "list", {})
            /\ turned' = turned \cup {c}
            /\ UNCHANGED <<current, retry>>
       ELSE /\ GoesTo(c, "set depth")
            /\ current' = [current EXCEPT ![c] = Original]
            /\ retry' = [retry EXCEPT ![c] = 0]
            /\ UNCHANGED <<found, rows, turned>>
    /\ UNCHANGED <<shared, initial, query, token, retried>>

SetDepth(c) ==
    /\ pc[c] = "set depth"
    /\ shared' = [shared EXCEPT !.depth = current[c].depth]
    /\ GoesTo(c, "set limit")
    /\ UNCHANGED <<initial, current, retry, query, found, rows, token, turned,
                   retried>>

SetLimit(c) ==
    /\ pc[c] = "set limit"
    /\ shared' = [shared EXCEPT !.limit = current[c].limit]
    /\ GoesTo(c, "build")
    /\ UNCHANGED <<initial, current, retry, query, found, rows, token, turned,
                   retried>>

\* _graphql_query_builder reads the object; a query it cannot make is [].
Build(c) ==
    /\ pc[c] = "build"
    /\ \/ /\ query' = [query EXCEPT ![c] = shared]
          /\ GoesTo(c, "asked")
          /\ UNCHANGED <<found, rows>>
       \/ /\ EndsWith(c, "list", {})
          /\ GoesTo(c, "back")
          /\ UNCHANGED query
    /\ UNCHANGED <<shared, initial, current, retry, token, turned, retried>>

\* Half of each, but never below 2 and 100.
Less(settings) == [depth |-> Most(2, settings.depth \div 2),
                   limit |-> Most(100, settings.limit \div 2)]

Exhausted(attempts) == attempts = max_retries
\* Mutant: the attempt is not counted.
CountedNot(attempts) == attempts
Counted(attempts) == attempts + 1

\* A timeout or any status but 200: ask for less, until the retries are used
\* up; then [].
Fail(c) ==
    /\ pc[c] = "asked"
    /\ IF Exhausted(retry[c])
       THEN /\ EndsWith(c, "list", {})
            /\ GoesTo(c, "back")
            /\ UNCHANGED <<current, retry, retried>>
       ELSE /\ current' = [current EXCEPT ![c] = Less(@)]
            /\ retry' = [retry EXCEPT ![c] = Counted(@)]
            /\ retried' = retried \cup {c}
            /\ GoesTo(c, "set depth")
            /\ UNCHANGED <<found, rows>>
    /\ UNCHANGED <<shared, initial, query, token, turned>>

\* A body without the data: the parsed body itself is handed up.
Refuse(c) ==
    /\ pc[c] = "asked"
    /\ \E what \in {"no token", "errors"} :
          /\ what = "no token" => token \/ c # Main
          /\ EndsWith(c, what, {})
    /\ GoesTo(c, "back")
    /\ UNCHANGED <<shared, initial, current, retry, query, token, turned,
                   retried>>

\* Mutant: the swap's own depth, not the one before it.
DepthBeforeLate(d) == d

\* process_swap: the depth a swap is followed from.
DepthBefore(d) == d - 1

\* Transactions, and the swaps among them, each at a depth that was asked for.
Answer(c) ==
    /\ pc[c] = "asked"
    /\ \E swaps \in SUBSET Children(c) :
       \E depth \in [swaps -> 1..query[c].depth] :
          /\ pc' = [d \in Calls |-> IF d = c THEN "swaps"
                                    ELSE IF d \in swaps THEN "dex" ELSE pc[d]]
          /\ initial' = [d \in Calls |-> IF d \in swaps
                                         THEN DepthBefore(depth[d])
                                         ELSE initial[d]]
    /\ UNCHANGED <<shared, current, retry, query, found, rows, token, turned,
                   retried>>

\* process_swap up to its call: no trade or another contract's is None, an
\* exception is [] if it is raised inside the try, and is not caught before.
Dex(c) ==
    /\ pc[c] = "dex"
    /\ \/ /\ GoesTo(c, "enter")
          /\ UNCHANGED <<found, rows>>
       \/ /\ \E what \in {"None", "list", "raised"} : EndsWith(c, what, {})
          /\ GoesTo(c, "end")
    /\ UNCHANGED <<shared, initial, current, retry, query, token, turned,
                   retried>>

\* Mutant: what the swaps found beyond the swap's own query is left behind.
BackShallow(c) ==
    /\ pc[c] = "back" /\ c # Main
    /\ EndsWith(c, "list", IF found[c] = "list" THEN rows[c] \cap {c} ELSE {})
    /\ GoesTo(c, "end")
    /\ UNCHANGED <<shared, initial, current, retry, query, token, turned,
                   retried>>

\* process_swap after its call: only a list can be added to the swap itself.
Back(c) ==
    /\ pc[c] = "back" /\ c # Main
    /\ EndsWith(c, "list", IF found[c] = "list" THEN rows[c] ELSE {})
    /\ GoesTo(c, "end")
    /\ UNCHANGED <<shared, initial, current, retry, query, token, turned,
                   retried>>

\* get_tx_with_swaps: pool.map waits for every swap and raises what one of
\* them raised, which makes the whole call None.
Gather(c) ==
    /\ pc[c] = "swaps"
    /\ LET mine == {d \in Children(c) : pc[d] # "idle"} IN
       /\ \A d \in mine : pc[d] = "end"
       /\ IF \E d \in mine : found[d] = "raised"
          THEN EndsWith(c, "None", {})
          ELSE EndsWith(c, "list", {c} \cup UNION {rows[d] : d \in mine})
    /\ GoesTo(c, "back")
    /\ UNCHANGED <<shared, initial, current, retry, query, token, turned,
                   retried>>

-----------------------------------------------------------------------------
(* get_transactions of the coinpath client: a token that the vendor does    *)
(* not know is dropped and everything is asked again; None is an exception. *)
Return ==
    /\ pc[Main] = "back"
    /\ IF found[Main] = "no token" /\ token
       THEN /\ token' = FALSE
            /\ GoesTo(Main, "enter")
            /\ found' = [found EXCEPT ![Main] = "pending"]
       ELSE /\ GoesTo(Main, "end")
            /\ found' = [found EXCEPT ![Main] = IF @ = "None" THEN "raised" ELSE @]
            /\ UNCHANGED token
    /\ UNCHANGED <<shared, initial, current, retry, query, rows, turned, retried>>

Step(c) == \/ Enter(c) \/ SetDepth(c) \/ SetLimit(c) \/ Build(c)
           \/ Fail(c) \/ Refuse(c) \/ Answer(c)
           \/ Dex(c) \/ Back(c) \/ Gather(c)

Next == Return \/ \E c \in Calls : Step(c)

Spec == Init /\ [][Next]_vars

\* Every request has a connect and a read timeout, so that each wait ends, and
\* the threads of the pools are scheduled.
FairSpec == Spec /\ WF_vars(Return) /\ \A c \in Calls : WF_vars(Step(c))

-----------------------------------------------------------------------------
TypeOK ==
    /\ shared \in Settings
    /\ pc \in [Calls -> {"idle", "dex", "enter", "set depth", "set limit",
                         "build", "asked", "swaps", "back", "end"}]
    /\ initial \in [Calls -> 0..original_depth]
    /\ current \in [Calls -> Settings] /\ query \in [Calls -> Settings]
    /\ retry \in [Calls -> 0..max_retries]
    /\ found \in [Calls -> Ends \cup {"pending"}]
    /\ rows \in [Calls -> SUBSET Calls]
    /\ token \in BOOLEAN
    /\ turned \subseteq Calls /\ retried \subseteq Calls

\* However the threads interleave on the shared object, no query asks the
\* vendor for more than the caller did, the two floors of the retry aside.
NeverAsksForMore ==
    \A c \in Calls :
        /\ query[c].depth =< Most(2, original_depth)
        /\ query[c].limit =< Most(100, original_limit)

\* A swap is turned away by the depth only because another thread's retry had
\* lowered the shared depth at that moment: alone, every swap is followed.
TurnedAwayOnlyByARetry == turned # {} => \E c \in retried : c \notin turned

\* What the lookup hands back as a list holds the transactions of every query
\* that was answered, unless a query above it in the tree was lost.
NothingFollowedIsLost ==
    pc[Main] = "end" /\ found[Main] = "list" =>
        \A c \in Calls :
            c \in rows[c] /\ (\A n \in 0..Len(c) :
                                 LET above == SubSeq(c, 1, n) IN
                                 found[above] = "list" /\ above \in rows[above])
                => c \in rows[Main]

\* The inductive invariant of the three properties above.  No setting exceeds the
\* caller's or the floors, ...
Fits(settings) == /\ settings.depth \in 1..Most(2, original_depth)
                  /\ settings.limit =< Most(100, original_limit)
SettingsOK == Fits(shared) /\ \A c \in Calls : Fits(current[c]) /\ Fits(query[c])

\* ... a call starts its swaps once, when it has got its answer, ...
TreeOK ==
    /\ \A c \in Calls : pc[c] \notin {"back", "end"} => found[c] = "pending"
    /\ \A c \in Calls : \A d \in Children(c) :
          pc[d] # "idle" => pc[c] \in {"swaps", "back", "end"} /\ found[c] # "no token"

\* ... only a retry changes the settings of the object.
TurnedOK ==
    /\ retried = {} => /\ shared = Original /\ turned = {}
                       /\ \A c \in Calls : /\ current[c] = Original /\ query[c] = Original
                                           /\ initial[c] < original_depth
    /\ initial[Main] = 0
    /\ \A c \in turned : c # Main /\ pc[c] \in {"back", "end"} /\ c \notin retried
    /\ \A c \in retried : c = Main \/ pc[c] \notin {"idle", "dex", "enter"}

\* ... and only a list hands anything up, a swap is followed for a call, and a
\* call that has gathered its swaps hands up all that they do.
HandedUpOK ==
    /\ \A c \in Calls : found[c] # "list" => rows[c] = {}
    /\ \A c \in Calls \ {Main} : pc[c] # "idle" => Front(c) \in Calls
    /\ \A c \in Calls : c \in rows[c] =>
          \A d \in Children(c) : pc[d] # "idle" => pc[d] = "end" /\ rows[d] \subseteq rows[c]

IInv == TypeOK /\ SettingsOK /\ TreeOK /\ TurnedOK /\ HandedUpOK

\* A lookup always ends, whatever fails: with a list, an error object or an
\* exception for its caller.
EveryLookupEnds == <>(pc[Main] = "end")
=============================================================================
