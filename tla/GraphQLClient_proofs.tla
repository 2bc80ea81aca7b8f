------------------------ MODULE GraphQLClient_proofs ------------------------
(* The lookup through Bitquery for any depth, limit and number of retries,  *)
(* and any tree of swaps: see IInv in GraphQLClient.                        *)
EXTENDS GraphQLClient, WellFoundedInduction, TLAPS

\* A pool's thread is waited for by one call, and never by itself.
LEMMA MainIsACall == Main \in Calls
BY GraphQLAssumption DEF Main

\* The swaps of a call are calls, the lookup itself is none of them, and each
\* is the swap of one call.
LEMMA Tree ==
  /\ \A c \in Calls : Children(c) \subseteq Calls /\ Main \notin Children(c)
  /\ \A c, d \in Calls : \A e \in Children(c) : e \in Children(d) => c = d
BY DEF Children

\* What a retry asks for still fits, and is at least a depth of 1.
LEMMA LessFits ==
  ASSUME NEW s \in Settings, Fits(s)
  PROVE  Less(s) \in Settings /\ Fits(Less(s))
BY GraphQLAssumption DEF Less, Fits, Most, Settings

\* What the caller asked for fits.
LEMMA OriginalFits == Original \in Settings /\ Fits(Original)
<1> DEFINE od == original_depth  ol == original_limit
<1>1. od \in Nat \ {0} /\ ol \in Nat \ {0}
  BY GraphQLAssumption
<1>2. od \in 1..Most(2, od) /\ ol =< Most(100, ol)
  BY <1>1 DEF Most
<1> QED
  BY <1>1, <1>2 DEF Fits, Original, Settings

\* The object's settings are replaced one at a time.
LEMMA Mixed ==
  ASSUME NEW s \in Settings, NEW t \in Settings, Fits(s), Fits(t)
  PROVE  /\ [s EXCEPT !.depth = t.depth] \in Settings /\ Fits([s EXCEPT !.depth = t.depth])
         /\ [s EXCEPT !.limit = t.limit] \in Settings /\ Fits([s EXCEPT !.limit = t.limit])
BY DEF Settings, Fits

\* A swap was found within the depth of its query.
LEMMA SwapDepth ==
  ASSUME NEW s \in Settings, Fits(s), NEW n \in 1..s.depth
  PROVE  DepthBefore(n) \in 0..original_depth /\ (s = Original => DepthBefore(n) < original_depth)
<1>1. s.depth \in Nat /\ s.depth =< Most(2, original_depth) /\ Most(2, original_depth) \in Nat
  BY GraphQLAssumption DEF Settings, Fits, Most
<1>2. n \in Nat /\ n >= 1 /\ n =< s.depth
  BY <1>1
<1>3. n - 1 =< original_depth
  BY <1>1, <1>2, GraphQLAssumption DEF Most
<1>4. s = Original => s.depth = original_depth
  BY DEF Original
<1> QED
  BY <1>2, <1>3, <1>4, GraphQLAssumption DEF DepthBefore

\* Retries are counted up to their maximum.
LEMMA RetriesCounted ==
  /\ 0 \in 0..max_retries
  /\ \A n \in 0..max_retries : ~Exhausted(n) => Counted(n) \in 0..max_retries
BY GraphQLAssumption DEF Counted, Exhausted

\* Settings are at least one deep.
LEMMA AtLeastOneDeep ==
  ASSUME NEW s \in Settings, Fits(s)
  PROVE  s.depth \in Nat /\ s.depth >= 1
<1>1. s.depth \in Nat
  BY DEF Settings
<1>2. Most(2, original_depth) \in Nat
  BY GraphQLAssumption DEF Most
<1> QED
  BY <1>1, <1>2 DEF Fits

-----------------------------------------------------------------------------
(* Each step of a call                                                      *)

\* A call that moves or ends leaves the types of what it sets.
LEMMA EndsTyped ==
  ASSUME TypeOK, NEW c \in Calls, NEW what \in Ends, EndsWith(c, what, {})
  PROVE  /\ found' \in [Calls -> Ends \cup {"pending"}]
         /\ rows' \in [Calls -> SUBSET Calls]
BY DEF TypeOK, EndsWith

\* No step leaves the types.
LEMMA TypeStep ==
  ASSUME TypeOK, SettingsOK, NEW c \in Calls, Step(c)
  PROVE  TypeOK'
<1> USE DEF TypeOK
<1>1. CASE Enter(c)
  <2>1. CASE initial[c] >= shared.depth
    BY <1>1, <2>1 DEF Enter, GoesTo, EndsWith, Ends
  <2>2. CASE ~(initial[c] >= shared.depth)
    <3>1. current' \in [Calls -> Settings] /\ retry' \in [Calls -> 0..max_retries]
      <4>1. current' = [current EXCEPT ![c] = Original] /\ retry' = [retry EXCEPT ![c] = 0]
        BY <1>1, <2>2 DEF Enter
      <4>2. Original \in Settings /\ 0 \in 0..max_retries
        BY RetriesCounted, OriginalFits
      <4> QED
        BY <4>1, <4>2
    <3>2. pc' = [pc EXCEPT ![c] = "set depth"]
          /\ UNCHANGED <<shared, initial, query, found, rows, token, turned, retried>>
      BY <1>1, <2>2 DEF Enter, GoesTo
    <3> QED
      BY <3>1, <3>2
  <2> QED
    BY <2>1, <2>2
<1>2. CASE SetDepth(c)
  <2>1. shared' \in Settings
    BY <1>2, Mixed DEF SetDepth, SettingsOK
  <2> QED
    BY <1>2, <2>1 DEF SetDepth, GoesTo
<1>10. CASE SetLimit(c)
  <2>1. shared' \in Settings
    BY <1>10, Mixed DEF SetLimit, SettingsOK
  <2> QED
    BY <1>10, <2>1 DEF SetLimit, GoesTo
<1>3. CASE Build(c)
  <2>1. CASE query' = [query EXCEPT ![c] = shared] /\ GoesTo(c, "asked") /\ UNCHANGED <<found, rows>>
    BY <1>3, <2>1 DEF Build, GoesTo
  <2>2. CASE EndsWith(c, "list", {}) /\ GoesTo(c, "back") /\ UNCHANGED query
    BY <1>3, <2>2 DEF Build, GoesTo, EndsWith, Ends
  <2> QED
    BY <1>3, <2>1, <2>2 DEF Build
<1>4. CASE Fail(c)
  <2>1. CASE Exhausted(retry[c])
    <3>1. EndsWith(c, "list", {}) /\ GoesTo(c, "back")
          /\ UNCHANGED <<shared, initial, current, retry, query, token, turned, retried>>
      BY <1>4, <2>1 DEF Fail
    <3>2. "list" \in Ends
      BY DEF Ends
    <3> QED
      BY <3>1, <3>2, EndsTyped DEF GoesTo
  <2>2. CASE ~Exhausted(retry[c])
    <3>1. Less(current[c]) \in Settings
      BY LessFits DEF SettingsOK
    <3>2. Counted(retry[c]) \in 0..max_retries
      BY <2>2, RetriesCounted
    <3>3. /\ current' = [current EXCEPT ![c] = Less(current[c])]
          /\ retry' = [retry EXCEPT ![c] = Counted(retry[c])]
          /\ retried' = retried \cup {c}
          /\ pc' = [pc EXCEPT ![c] = "set depth"]
          /\ UNCHANGED <<found, rows, shared, initial, query, token, turned>>
      BY <1>4, <2>2 DEF Fail, GoesTo
    <3>4. current' \in [Calls -> Settings]
      BY <3>1, <3>3
    <3>5. retry' \in [Calls -> 0..max_retries]
      BY <3>2, <3>3
    <3> QED
      BY <3>3, <3>4, <3>5
  <2> QED
    BY <2>1, <2>2
<1>5. CASE Refuse(c)
  <2>1. PICK what \in Ends : EndsWith(c, what, {})
    BY <1>5 DEF Refuse, Ends
  <2>2. GoesTo(c, "back")
        /\ UNCHANGED <<shared, initial, current, retry, query, token, turned, retried>>
    BY <1>5 DEF Refuse
  <2> QED
    BY <2>1, <2>2, EndsTyped DEF GoesTo
<1>6. CASE Answer(c)
  <2> PICK swaps \in SUBSET Children(c) : \E depth \in [swaps -> 1..query[c].depth] :
        /\ pc' = [d \in Calls |-> IF d = c THEN "swaps" ELSE IF d \in swaps THEN "dex" ELSE pc[d]]
        /\ initial' = [d \in Calls |-> IF d \in swaps THEN DepthBefore(depth[d]) ELSE initial[d]]
    BY <1>6 DEF Answer
  <2> PICK depth \in [swaps -> 1..query[c].depth] :
        /\ pc' = [d \in Calls |-> IF d = c THEN "swaps" ELSE IF d \in swaps THEN "dex" ELSE pc[d]]
        /\ initial' = [d \in Calls |-> IF d \in swaps THEN DepthBefore(depth[d]) ELSE initial[d]]
    OBVIOUS
  <2>1. \A d \in swaps : DepthBefore(depth[d]) \in 0..original_depth
    BY SwapDepth DEF SettingsOK
  <2> QED
    BY <1>6, <2>1 DEF Answer
<1>7. CASE Dex(c)
  <2>1. CASE GoesTo(c, "enter") /\ UNCHANGED <<found, rows>>
    BY <1>7, <2>1 DEF Dex, GoesTo
  <2>2. CASE (\E what \in {"None", "list", "raised"} : EndsWith(c, what, {})) /\ GoesTo(c, "end")
    <3>1. PICK what \in Ends : EndsWith(c, what, {})
      BY <2>2 DEF Ends
    <3>2. UNCHANGED <<shared, initial, current, retry, query, token, turned, retried>>
      BY <1>7 DEF Dex
    <3> QED
      BY <2>2, <3>1, <3>2, EndsTyped DEF GoesTo
  <2> QED
    BY <1>7, <2>1, <2>2 DEF Dex
<1>8. CASE Back(c)
  BY <1>8 DEF Back, GoesTo, EndsWith, Ends
<1>9. CASE Gather(c)
  <2> DEFINE mine == {d \in Children(c) : pc[d] # "idle"}
             all  == {c} \cup UNION {rows[d] : d \in mine}
  <2>1. all \in SUBSET Calls
    <3>1. \A d \in mine : rows[d] \subseteq Calls
      BY Tree
    <3> HIDE DEF mine, TypeOK
    <3> QED
      BY <3>1, Zenon
  <2>2. (EndsWith(c, "None", {}) \/ EndsWith(c, "list", all)) /\ GoesTo(c, "back")
        /\ UNCHANGED <<shared, initial, current, retry, query, token, turned, retried>>
    BY <1>9 DEF Gather
  <2> HIDE DEF all
  <2> QED
    BY <2>1, <2>2 DEF GoesTo, EndsWith, Ends
<1> QED
  BY <1>1, <1>2, <1>10, <1>3, <1>4, <1>5, <1>6, <1>7, <1>8, <1>9 DEF Step

\* Settings are copied between calls and object, or lowered by a retry.
LEMMA SettingsStep ==
  ASSUME TypeOK, SettingsOK, NEW c \in Calls, Step(c)
  PROVE  SettingsOK'
<1> USE DEF TypeOK, SettingsOK
<1>1. CASE Enter(c)
  BY <1>1, OriginalFits DEF Enter
<1>2. CASE SetDepth(c)
  BY <1>2, Mixed DEF SetDepth
<1>3. CASE SetLimit(c)
  BY <1>3, Mixed DEF SetLimit
<1>4. CASE Build(c)
  BY <1>4 DEF Build
<1>5. CASE Fail(c)
  <2>1. Fits(Less(current[c]))
    BY LessFits
  <2> QED
    BY <1>5, <2>1 DEF Fail
<1>6. CASE Refuse(c) \/ Answer(c) \/ Dex(c) \/ Back(c) \/ Gather(c)
  BY <1>6 DEF Refuse, Answer, Dex, Back, Gather
<1> QED
  BY <1>1, <1>2, <1>3, <1>4, <1>5, <1>6 DEF Step

\* The threads of a call's swaps start while it has its answer in hand.
LEMMA TreeStep ==
  ASSUME TypeOK, TreeOK, NEW c \in Calls, Step(c)
  PROVE  TreeOK'
<1> USE Tree DEF TypeOK, TreeOK
<1>1. CASE Answer(c)
  <2> PICK swaps \in SUBSET Children(c) :
        pc' = [d \in Calls |-> IF d = c THEN "swaps" ELSE IF d \in swaps THEN "dex" ELSE pc[d]]
    BY <1>1 DEF Answer
  <2>1. pc[c] = "asked" /\ found' = found
    BY <1>1 DEF Answer
  <2>2. \A d \in Children(c) : pc[d] = "idle"
    BY <2>1
  <2>3. c \notin swaps
    BY <2>1, <2>2
  <2>4. ASSUME NEW b \in Calls, pc'[b] \notin {"back", "end"} PROVE found'[b] = "pending"
    BY <2>1, <2>2, <2>4
  <2>5. ASSUME NEW b \in Calls, NEW d \in Children(b), pc'[d] # "idle"
        PROVE  pc'[b] \in {"swaps", "back", "end"} /\ found'[b] # "no token"
    <3>1. CASE b = c
      BY <2>1, <3>1
    <3>2. CASE b # c /\ d = c
      BY <2>1, <2>2, <3>2
    <3>3. CASE b # c /\ d # c
      <4>1. d \notin swaps
        BY <3>3
      <4>2. pc[d] # "idle" /\ b \notin swaps
        BY <2>2, <2>5, <3>3, <4>1
      <4> QED
        BY <2>1, <3>3, <4>2
    <3> QED
      BY <3>1, <3>2, <3>3
  <2> QED
    BY <2>4, <2>5
<1>2. ASSUME ~Answer(c) PROVE TreeOK'
  <2>1. /\ \A d \in Calls \ {c} : pc'[d] = pc[d] /\ found'[d] = found[d]
        /\ pc[c] # "idle"
        /\ pc'[c] \notin {"back", "end"} => found'[c] = found[c] /\ pc[c] \notin {"back", "end"}
        /\ pc[c] \in {"swaps", "back", "end"} => pc'[c] \in {"back", "end"} /\ found'[c] # "no token"
    <3>1. CASE Enter(c)
      <4>1. pc[c] = "enter"
        BY <3>1 DEF Enter
      <4>2. \/ pc' = [pc EXCEPT ![c] = "back"] /\ found' = [found EXCEPT ![c] = "list"]
            \/ pc' = [pc EXCEPT ![c] = "set depth"] /\ found' = found
        BY <3>1 DEF Enter, GoesTo, EndsWith
      <4> QED
        BY <4>1, <4>2
    <3>5. CASE SetDepth(c) \/ SetLimit(c)
      BY <3>5 DEF SetDepth, SetLimit, GoesTo
    <3>2. CASE Build(c)
      BY <3>2 DEF Build, GoesTo, EndsWith
    <3>6. CASE Fail(c)
      <4>1. pc[c] = "asked"
        BY <3>6 DEF Fail
      <4>2. \/ pc' = [pc EXCEPT ![c] = "back"] /\ found' = [found EXCEPT ![c] = "list"]
            \/ pc' = [pc EXCEPT ![c] = "set depth"] /\ found' = found
        BY <3>6 DEF Fail, GoesTo, EndsWith
      <4> QED
        BY <4>1, <4>2
    <3>7. CASE Refuse(c)
      <4>1. pc[c] = "asked" /\ pc' = [pc EXCEPT ![c] = "back"]
        BY <3>7 DEF Refuse, GoesTo
      <4>2. PICK what \in {"no token", "errors"} : found' = [found EXCEPT ![c] = what]
        BY <3>7 DEF Refuse, EndsWith
      <4> QED
        BY <4>1, <4>2
    <3>3. CASE Dex(c)
      BY <3>3 DEF Dex, GoesTo, EndsWith
    <3>8. CASE Back(c)
      <4>1. pc' = [pc EXCEPT ![c] = "end"] /\ found' = [found EXCEPT ![c] = "list"]
            /\ pc[c] = "back"
        BY <3>8 DEF Back, GoesTo, EndsWith
      <4> QED
        BY <4>1
    <3>4. CASE Gather(c)
      <4>1. /\ pc[c] = "swaps" /\ pc' = [pc EXCEPT ![c] = "back"]
            /\ \E what \in {"None", "list"} : found' = [found EXCEPT ![c] = what]
        BY <3>4 DEF Gather, GoesTo, EndsWith
      <4> QED
        BY <4>1
    <3> QED
      BY <1>2, <3>1, <3>2, <3>3, <3>4, <3>5, <3>6, <3>7, <3>8 DEF Step
  <2>2. ASSUME NEW b \in Calls, pc'[b] \notin {"back", "end"} PROVE found'[b] = "pending"
    <3>1. CASE b = c
      BY <2>1, <2>2, <3>1
    <3>2. CASE b # c
      BY <2>1, <2>2, <3>2
    <3> QED
      BY <3>1, <3>2
  <2>3. ASSUME NEW b \in Calls, NEW d \in Children(b), pc'[d] # "idle"
        PROVE  pc'[b] \in {"swaps", "back", "end"} /\ found'[b] # "no token"
    <3>1. d \in Calls /\ pc[d] # "idle"
      BY <2>1, <2>3
    <3>2. pc[b] \in {"swaps", "back", "end"} /\ found[b] # "no token"
      BY <3>1
    <3>3. CASE b = c
      BY <2>1, <3>2, <3>3
    <3>4. CASE b # c
      BY <2>1, <3>2, <3>4
    <3> QED
      BY <3>3, <3>4
  <2> QED
    BY <2>2, <2>3
<1> QED
  BY <1>1, <1>2

\* Whoever is turned away has never asked, and somebody else has retried.
LEMMA TurnedStep ==
  ASSUME TypeOK, SettingsOK, TreeOK, TurnedOK, NEW c \in Calls, Step(c)
  PROVE  TurnedOK'
<1> USE GraphQLAssumption, MainIsACall DEF TypeOK, TurnedOK
<1>1. CASE Enter(c)
  <2>1. shared.depth >= 1 /\ shared.depth \in Nat /\ initial[c] \in Nat
    <3>1. shared \in Settings /\ Fits(shared) /\ initial[c] \in 0..original_depth
      BY DEF SettingsOK
    <3> HIDE DEF TypeOK, TurnedOK
    <3>2. shared.depth \in Nat /\ shared.depth >= 1
      BY <3>1, AtLeastOneDeep
    <3>3. initial[c] \in Nat
      BY <3>1, GraphQLAssumption
    <3> QED
      BY <3>2, <3>3
  <2>2. CASE initial[c] >= shared.depth
    <3>1. c # Main /\ retried # {}
      <4>1. c # Main
        <5>1. initial[Main] = 0
          OBVIOUS
        <5> HIDE DEF TypeOK, TurnedOK
        <5> QED
          BY <2>1, <2>2, <5>1
      <4>2. ASSUME retried = {} PROVE FALSE
        <5>1. shared = Original /\ initial[c] < original_depth
          BY <4>2 DEF TurnedOK
        <5>2. shared.depth = original_depth
          BY <5>1 DEF Original
        <5> HIDE DEF TypeOK, TurnedOK
        <5> QED
          BY <2>1, <2>2, <5>1, <5>2
      <4> QED
        BY <4>1, <4>2
    <3>2. c \notin retried
      BY <1>1, <3>1 DEF Enter
    <3> QED
      <4>1. /\ pc' = [pc EXCEPT ![c] = "back"] /\ turned' = turned \cup {c}
            /\ UNCHANGED <<shared, initial, current, query, retried>>
        BY <1>1, <2>2 DEF Enter, GoesTo
      <4> QED
        BY <1>1, <3>1, <3>2, <4>1 DEF Enter
  <2>3. CASE ~(initial[c] >= shared.depth)
    <3>1. pc[c] = "enter" /\ UNCHANGED <<shared, initial, query, turned, retried>>
      BY <1>1, <2>3 DEF Enter
    <3>2. pc' = [pc EXCEPT ![c] = "set depth"] /\ current' = [current EXCEPT ![c] = Original]
      BY <1>1, <2>3 DEF Enter, GoesTo
    <3> QED
      BY <3>1, <3>2
  <2> QED
    BY <2>2, <2>3
<1>2. CASE SetDepth(c) \/ SetLimit(c)
  <2>1. /\ pc[c] \in {"set depth", "set limit"}
        /\ UNCHANGED <<initial, current, query, turned, retried>>
    BY <1>2 DEF SetDepth, SetLimit
  <2>2. PICK l \in {"set limit", "build"} : pc' = [pc EXCEPT ![c] = l]
    BY <1>2 DEF SetDepth, SetLimit, GoesTo
  <2>3. ASSUME retried = {} PROVE shared' = Original
    <3>1. shared = Original /\ current[c] = Original
      BY <2>3
    <3> HIDE DEF TypeOK, TurnedOK
    <3> QED
      BY <1>2, <3>1 DEF SetDepth, SetLimit, Original
  <2> QED
    BY <2>1, <2>2, <2>3
<1>3. CASE Build(c)
  <2>1. pc[c] = "build" /\ UNCHANGED <<shared, initial, current, turned, retried>>
    BY <1>3 DEF Build
  <2>2. query' = query \/ query' = [query EXCEPT ![c] = shared]
    BY <1>3 DEF Build
  <2>3. PICK l \in {"asked", "back"} : pc' = [pc EXCEPT ![c] = l]
    BY <1>3 DEF Build, GoesTo
  <2> QED
    BY <2>1, <2>2, <2>3
<1>4. CASE Fail(c)
  <2>1. pc[c] = "asked" /\ UNCHANGED <<shared, initial, query, turned>>
    BY <1>4 DEF Fail
  <2>2. CASE pc' = [pc EXCEPT ![c] = "back"] /\ UNCHANGED <<current, retried>>
    BY <2>1, <2>2
  <2>3. CASE pc' = [pc EXCEPT ![c] = "set depth"] /\ retried' = retried \cup {c}
    BY <2>1, <2>3
  <2> QED
    BY <1>4, <2>2, <2>3 DEF Fail, GoesTo
<1>5. CASE Refuse(c)
  BY <1>5 DEF Refuse, GoesTo
<1>6. CASE Answer(c)
  <2> PICK swaps \in SUBSET Children(c) : \E depth \in [swaps -> 1..query[c].depth] :
        /\ pc' = [d \in Calls |-> IF d = c THEN "swaps" ELSE IF d \in swaps THEN "dex" ELSE pc[d]]
        /\ initial' = [d \in Calls |-> IF d \in swaps THEN DepthBefore(depth[d]) ELSE initial[d]]
    BY <1>6 DEF Answer
  <2> PICK depth \in [swaps -> 1..query[c].depth] :
        /\ pc' = [d \in Calls |-> IF d = c THEN "swaps" ELSE IF d \in swaps THEN "dex" ELSE pc[d]]
        /\ initial' = [d \in Calls |-> IF d \in swaps THEN DepthBefore(depth[d]) ELSE initial[d]]
    OBVIOUS
  <2>1. pc[c] = "asked" /\ UNCHANGED <<shared, current, query, turned, retried>>
    BY <1>6 DEF Answer
  <2>2. \A d \in swaps : pc[d] = "idle" /\ d # Main /\ d \notin retried /\ d \notin turned
    <3>1. \A d \in Children(c) : d \in Calls /\ d # Main
      BY Tree
    <3>2. \A d \in Children(c) : pc[d] = "idle"
      BY <2>1 DEF TreeOK
    <3> QED
      BY <3>1, <3>2
  <2>3. retried = {} => \A d \in swaps : DepthBefore(depth[d]) < original_depth
    BY SwapDepth DEF SettingsOK
  <2> QED
    BY <2>1, <2>2, <2>3
<1>7. CASE Dex(c)
  <2>1. c \notin retried \/ c = Main
    BY <1>7 DEF Dex
  <2> QED
    BY <1>7, <2>1 DEF Dex, GoesTo
<1>8. CASE Back(c)
  BY <1>8 DEF Back, GoesTo
<1>9. CASE Gather(c)
  BY <1>9 DEF Gather, GoesTo
<1> QED
  BY <1>1, <1>2, <1>3, <1>4, <1>5, <1>6, <1>7, <1>8, <1>9 DEF Step

\* What is handed up grows only when a call gathers its swaps, which have all
\* ended; and it is lost only as a whole.
LEMMA HandedUpStep ==
  ASSUME TypeOK, TreeOK, HandedUpOK, NEW c \in Calls, Step(c)
  PROVE  HandedUpOK'
<1>0. /\ DOMAIN pc = Calls /\ DOMAIN found = Calls /\ DOMAIN rows = Calls
      /\ pc = [d \in Calls |-> pc[d]] /\ found = [d \in Calls |-> found[d]]
      /\ rows = [d \in Calls |-> rows[d]]
  BY DEF TypeOK
<1> USE <1>0 DEF HandedUpOK
<1>1. CASE Answer(c)
  <2> PICK swaps \in SUBSET Children(c) :
        pc' = [d \in Calls |-> IF d = c THEN "swaps" ELSE IF d \in swaps THEN "dex" ELSE pc[d]]
    BY <1>1 DEF Answer
  <2>1. pc[c] = "asked" /\ UNCHANGED <<found, rows>>
    BY <1>1 DEF Answer
  <2>2. c \notin rows[c]
    BY <2>1 DEF TreeOK
  <2>3. \A d \in swaps : d \in Calls /\ d # Main /\ Front(d) = c
    BY DEF Children
  <2>4. ASSUME NEW b \in Calls \ {Main}, pc'[b] # "idle" PROVE Front(b) \in Calls
    BY <2>1, <2>3, <2>4
  <2>5. ASSUME NEW b \in Calls, b \in rows'[b], NEW d \in Children(b), pc'[d] # "idle"
        PROVE  pc'[d] = "end" /\ rows'[d] \subseteq rows'[b]
    <3>1. b # c /\ d \in Calls
      BY <2>1, <2>2, <2>5, Tree
    <3>2. d \notin swaps
      BY <3>1, Tree
    <3>3. CASE d = c
      BY <2>1, <2>5, <3>3
    <3>4. CASE d # c
      BY <2>1, <2>5, <3>1, <3>2, <3>4
    <3> QED
      BY <3>3, <3>4
  <2> QED
    BY <2>1, <2>4, <2>5
<1>2. CASE Gather(c)
  <2> DEFINE mine == {d \in Children(c) : pc[d] # "idle"}
             all  == {c} \cup UNION {rows[d] : d \in mine}
  <2>1. /\ pc[c] = "swaps" /\ pc' = [pc EXCEPT ![c] = "back"]
        /\ \A d \in mine : pc[d] = "end"
        /\ \/ found' = [found EXCEPT ![c] = "None"] /\ rows' = [rows EXCEPT ![c] = {}]
           \/ found' = [found EXCEPT ![c] = "list"] /\ rows' = [rows EXCEPT ![c] = all]
    BY <1>2 DEF Gather, GoesTo, EndsWith
  <2>2. \A d \in mine : rows[d] \subseteq all
    <3> HIDE DEF mine, HandedUpOK
    <3> QED
      BY Zenon
  <2>3. \A d \in Calls \ {c} : pc'[d] = pc[d] /\ found'[d] = found[d] /\ rows'[d] = rows[d]
    BY <2>1
  <2> HIDE DEF all
  <2>4. ASSUME NEW b \in Calls, found'[b] # "list" PROVE rows'[b] = {}
    BY <2>1, <2>3, <2>4
  <2>5. ASSUME NEW b \in Calls, b \in rows'[b], NEW d \in Children(b), pc'[d] # "idle"
        PROVE  pc'[d] = "end" /\ rows'[d] \subseteq rows'[b]
    <3>1. d \in Calls /\ pc[d] # "idle"
      BY <2>1, <2>3, <2>5, Tree
    <3>2. CASE b = c
      <4>1. pc[d] = "end" /\ d # c
        BY <2>1, <3>1, <3>2
      <4>2. rows'[b] = all
        BY <2>1, <2>5, <3>2
      <4> QED
        BY <2>2, <2>3, <3>1, <3>2, <4>1, <4>2
    <3>3. CASE b # c
      BY <2>1, <2>3, <2>5, <3>1, <3>3
    <3> QED
      BY <3>2, <3>3
  <2>6. ASSUME NEW b \in Calls \ {Main}, pc'[b] # "idle" PROVE Front(b) \in Calls
    BY <2>1, <2>3, <2>6
  <2> QED
    BY <2>4, <2>5, <2>6
<1>3. ASSUME ~Answer(c), ~Gather(c) PROVE HandedUpOK'
  <2>1. /\ \A d \in Calls \ {c} : pc'[d] = pc[d] /\ found'[d] = found[d] /\ rows'[d] = rows[d]
        /\ pc[c] \notin {"idle", "end"}
        /\ \/ rows'[c] = {}
           \/ rows'[c] = rows[c] /\ found'[c] \in {found[c], "list"}
    <3>1. CASE Enter(c)
      <4>1. CASE initial[c] >= shared.depth
        BY <3>1, <4>1 DEF Enter, GoesTo, EndsWith
      <4>2. CASE ~(initial[c] >= shared.depth)
        <5>1. pc[c] = "enter" /\ pc' = [pc EXCEPT ![c] = "set depth"] /\ UNCHANGED <<found, rows>>
          BY <3>1, <4>2 DEF Enter, GoesTo
        <5> QED
          BY <5>1
      <4> QED
        BY <4>1, <4>2
    <3>2. CASE SetDepth(c) \/ SetLimit(c)
      BY <3>2 DEF SetDepth, SetLimit, GoesTo
    <3>3. CASE Build(c)
      BY <3>3 DEF Build, GoesTo, EndsWith
    <3>4. CASE Fail(c)
      <4>1. CASE Exhausted(retry[c])
        BY <3>4, <4>1 DEF Fail, GoesTo, EndsWith
      <4>2. CASE ~Exhausted(retry[c])
        <5>1. pc[c] = "asked" /\ pc' = [pc EXCEPT ![c] = "set depth"] /\ UNCHANGED <<found, rows>>
          BY <3>4, <4>2 DEF Fail, GoesTo
        <5> QED
          BY <5>1
      <4> QED
        BY <4>1, <4>2
    <3>5. CASE Refuse(c)
      <4>1. pc[c] = "asked" /\ pc' = [pc EXCEPT ![c] = "back"] /\ rows' = [rows EXCEPT ![c] = {}]
        BY <3>5 DEF Refuse, GoesTo, EndsWith
      <4>2. PICK what \in {"no token", "errors"} : found' = [found EXCEPT ![c] = what]
        BY <3>5 DEF Refuse, EndsWith
      <4> QED
        BY <4>1, <4>2
    <3>6. CASE Dex(c) \/ Back(c)
      BY <3>6 DEF Dex, Back, GoesTo, EndsWith
    <3> QED
      BY <1>3, <3>1, <3>2, <3>3, <3>4, <3>5, <3>6 DEF Step
  <2>2. ASSUME NEW b \in Calls, found'[b] # "list" PROVE rows'[b] = {}
    BY <2>1, <2>2
  <2>3. ASSUME NEW b \in Calls \ {Main}, pc'[b] # "idle" PROVE Front(b) \in Calls
    BY <2>1, <2>3
  <2>4. ASSUME NEW b \in Calls, b \in rows'[b], NEW d \in Children(b), pc'[d] # "idle"
        PROVE  pc'[d] = "end" /\ rows'[d] \subseteq rows'[b]
    <3>1. d \in Calls /\ pc[d] # "idle" /\ rows'[b] = rows[b]
      BY <2>1, <2>4, Tree
    <3>2. pc[d] = "end" /\ rows[d] \subseteq rows[b]
      BY <2>4, <3>1
    <3> QED
      BY <2>1, <3>1, <3>2
  <2> QED
    BY <2>2, <2>3, <2>4
<1> QED
  BY <1>1, <1>2, <1>3

\* Asking again without the token starts the lookup over.
LEMMA ReturnStep == IInv /\ Return => IInv'
<1> SUFFICES ASSUME IInv, Return PROVE IInv'
  OBVIOUS
<1> USE MainIsACall DEF IInv, Return, GoesTo, TypeOK
<1>1. TypeOK'
  BY DEF Ends
<1>2. SettingsOK'
  BY DEF SettingsOK
<1>3. TreeOK'
  <2>1. /\ \A d \in Calls \ {Main} : pc'[d] = pc[d] /\ found'[d] = found[d]
        /\ pc[Main] = "back"
        /\ \/ pc'[Main] = "enter" /\ found'[Main] = "pending" /\ found[Main] = "no token"
           \/ pc'[Main] = "end" /\ (found'[Main] = "no token" => found[Main] = "no token")
    OBVIOUS
  <2>4. TreeOK
    OBVIOUS
  <2> HIDE DEF IInv, Return, GoesTo, TypeOK
  <2>2. ASSUME NEW b \in Calls, pc'[b] \notin {"back", "end"} PROVE found'[b] = "pending"
    BY <2>1, <2>2, <2>4 DEF TreeOK
  <2>3. ASSUME NEW b \in Calls, NEW d \in Children(b), pc'[d] # "idle"
        PROVE  pc'[b] \in {"swaps", "back", "end"} /\ found'[b] # "no token"
    <3>1. d \in Calls \ {Main}
      BY Tree
    <3>2. pc[b] \in {"swaps", "back", "end"} /\ found[b] # "no token"
      BY <2>1, <2>3, <2>4, <3>1 DEF TreeOK
    <3> QED
      BY <2>1, <3>2
  <2> QED
    BY <2>2, <2>3 DEF TreeOK
<1>4. TurnedOK'
  BY DEF TurnedOK
<1>5. HandedUpOK'
  <2>1. /\ \A d \in Calls \ {Main} : pc'[d] = pc[d] /\ found'[d] = found[d]
        /\ rows' = rows
        /\ found'[Main] # "list" => found[Main] # "list"
    <3>1. CASE found[Main] = "no token" /\ token
      BY <3>1
    <3>2. CASE ~(found[Main] = "no token" /\ token)
      BY <3>2
    <3> QED
      BY <3>1, <3>2
  <2> HIDE DEF Return
  <2>2. ASSUME NEW c \in Calls, found'[c] # "list" PROVE rows'[c] = {}
    BY <2>1, <2>2 DEF HandedUpOK
  <2>3. ASSUME NEW c \in Calls \ {Main}, pc'[c] # "idle" PROVE Front(c) \in Calls
    BY <2>1, <2>3 DEF HandedUpOK
  <2>4. ASSUME NEW c \in Calls, c \in rows'[c], NEW d \in Children(c), pc'[d] # "idle"
        PROVE  pc'[d] = "end" /\ rows'[d] \subseteq rows'[c]
    <3>1. d \in Calls \ {Main}
      BY Tree
    <3> QED
      BY <2>1, <2>4, <3>1 DEF HandedUpOK
  <2> QED
    BY <2>2, <2>3, <2>4 DEF HandedUpOK
<1> QED
  BY <1>1, <1>2, <1>3, <1>4, <1>5

-----------------------------------------------------------------------------
(* The path from a call to the lookup                                       *)

\* Every set of numbers that has an element has a least one.
LEMMA Smallest ==
  ASSUME NEW S \in SUBSET Nat, S # {}
  PROVE  \E n \in S : \A m \in S : ~(m < n)
<1>1. PICK n \in S : \A m \in S : ~(<<m, n>> \in OpToRel(<, Nat))
  BY NatLessThanWellFounded, WFMin, Zenon
<1>2. \A m \in S : m < n => <<m, n>> \in OpToRel(<, Nat)
  BY DEF OpToRel
<1> QED
  BY <1>1, <1>2

\* The paths above a call end at the lookup, one swap at a time.
LEMMA Path ==
  ASSUME NEW c \in Seq(Nat)
  PROVE  /\ SubSeq(c, 1, 0) = Main /\ SubSeq(c, 1, Len(c)) = c
         /\ \A n \in 1..Len(c) : /\ SubSeq(c, 1, n) # Main
                                 /\ Front(SubSeq(c, 1, n)) = SubSeq(c, 1, n - 1)
<1>1. SubSeq(c, 1, 0) = Main /\ SubSeq(c, 1, Len(c)) = c
  BY DEF Main
<1>2. ASSUME NEW n \in 1..Len(c) PROVE SubSeq(c, 1, n) # Main
  <2>1. Len(SubSeq(c, 1, n)) = n
    OBVIOUS
  <2> QED
    BY <2>1 DEF Main
<1>3. ASSUME NEW n \in 1..Len(c) PROVE Front(SubSeq(c, 1, n)) = SubSeq(c, 1, n - 1)
  <2> DEFINE s == SubSeq(c, 1, n)
  <2>1. s \in Seq(Nat) /\ Len(s) = n /\ \A i \in 1..n : s[i] = c[i]
    OBVIOUS
  <2> HIDE DEF s
  <2>2. Front(s) = SubSeq(s, 1, n - 1)
    BY <2>1 DEF Front
  <2>3. SubSeq(s, 1, n - 1) = SubSeq(c, 1, n - 1)
    BY <2>1
  <2> QED
    BY <2>2, <2>3 DEF s
<1> QED
  BY <1>1, <1>2, <1>3

\* Each call on the path hands up what the one below it does: otherwise there
\* is a lowest one that does not.
LEMMA HandedUpTo ==
  ASSUME IInv, NEW c \in Calls, c \in rows[c],
         \A n \in 0..Len(c) : SubSeq(c, 1, n) \in rows[SubSeq(c, 1, n)]
  PROVE  c \in rows[Main]
<1> DEFINE above(n) == SubSeq(c, 1, n)
           up(k)    == above(Len(c) - k) \in Calls /\ c \in rows[above(Len(c) - k)]
           lost     == {k \in 0..Len(c) : ~up(k)}
<1>1. c \in Seq(Nat) /\ Len(c) \in Nat
  BY GraphQLAssumption
<1>2. /\ above(0) = Main /\ above(Len(c)) = c
      /\ \A n \in 1..Len(c) : above(n) # Main /\ Front(above(n)) = above(n - 1)
  BY <1>1, Path
<1>3. \A n \in 0..Len(c) : above(n) \in rows[above(n)]
  OBVIOUS
<1> HIDE DEF above
<1>4. 0 \notin lost
  BY <1>1, <1>2
<1>5. ASSUME NEW k \in 1..Len(c), up(k - 1) PROVE up(k)
  <2> DEFINE n == Len(c) - k + 1
             d == above(n)
             b == above(n - 1)
  <2>1. n \in 1..Len(c) /\ Len(c) - (k - 1) = n /\ Len(c) - k = n - 1 /\ n - 1 \in 0..Len(c)
    BY <1>1
  <2>2. d \in Calls /\ c \in rows[d] /\ d # Main /\ Front(d) = b /\ b \in rows[b]
    BY <1>2, <1>3, <1>5, <2>1
  <2>3. Len(c) - k = n - 1
    BY <2>1
  <2> HIDE DEF n, d, b
  <2>4. pc[d] # "idle"
    BY <2>2 DEF IInv, TreeOK, HandedUpOK
  <2>5. b \in Calls /\ d \in Children(b)
    BY <2>2, <2>4 DEF IInv, HandedUpOK, Children
  <2>6. rows[d] \subseteq rows[b]
    BY <2>2, <2>4, <2>5 DEF IInv, HandedUpOK
  <2>7. b \in Calls /\ c \in rows[b]
    BY <2>2, <2>5, <2>6
  <2> QED
    BY <2>3, <2>7 DEF b
<1>6. ASSUME lost # {} PROVE FALSE
  <2>1. PICK k \in lost : \A m \in lost : ~(m < k)
    <3>1. lost \in SUBSET Nat
      BY <1>1
    <3> HIDE DEF lost
    <3> QED
      BY <1>6, <3>1, Smallest
  <2>2. k \in 1..Len(c) /\ k - 1 \in 0..Len(c)
    BY <1>1, <1>4, <2>1
  <2> HIDE DEF up
  <2>3. k - 1 \notin lost
    <3>1. k - 1 < k
      BY <1>1, <2>2
    <3> QED
      BY <2>1, <3>1
  <2>4. up(k - 1)
    BY <2>2, <2>3
  <2> QED
    BY <1>5, <2>1, <2>2, <2>4
<1>7. up(Len(c))
  BY <1>1, <1>6
<1> QED
  BY <1>1, <1>2, <1>7

-----------------------------------------------------------------------------
(* The theorems                                                             *)

\* Only the lookup itself has begun.
LEMMA InitInv == Init => IInv
<1> SUFFICES ASSUME Init PROVE IInv
  OBVIOUS
<1> USE GraphQLAssumption, MainIsACall DEF Init, Original, Settings
<1>1. TypeOK
  BY DEF TypeOK
<1>2. SettingsOK
  BY DEF SettingsOK, Fits, Most
<1>3. TreeOK
  BY Tree DEF TreeOK
<1>4. TurnedOK
  BY DEF TurnedOK
<1>5. HandedUpOK
  BY DEF HandedUpOK
<1> QED
  BY <1>1, <1>2, <1>3, <1>4, <1>5 DEF IInv

\* The lemmas above together.
LEMMA StepInv == IInv /\ [Next]_vars => IInv'
<1> SUFFICES ASSUME IInv, [Next]_vars PROVE IInv'
  OBVIOUS
<1>1. CASE UNCHANGED vars
  BY <1>1 DEF vars, IInv, TypeOK, SettingsOK, TreeOK, TurnedOK, HandedUpOK
<1>2. CASE Return
  BY <1>2, ReturnStep
<1>3. ASSUME NEW c \in Calls, Step(c) PROVE IInv'
  BY <1>3, TypeStep, SettingsStep, TreeStep, TurnedStep, HandedUpStep DEF IInv
<1> QED
  BY <1>1, <1>2, <1>3 DEF Next

\* Settings, tree of calls and retries, at every step of every lookup.
THEOREM Invariance == Spec => []IInv
BY InitInv, StepInv, PTL DEF Spec

\* Every variable of the object and of its calls keeps its type.
THEOREM TypeCorrect == Spec => []TypeOK
<1>1. IInv => TypeOK
  BY DEF IInv
<1> QED
  BY <1>1, Invariance, PTL

\* No query of any thread asks for more than the caller did, the floors aside.
THEOREM RetriesAskForLess == Spec => []NeverAsksForMore
<1>1. IInv => NeverAsksForMore
  <2> SUFFICES ASSUME IInv, NEW c \in Calls
               PROVE  query[c].depth =< Most(2, original_depth) /\ query[c].limit =< Most(100, original_limit)
    BY DEF NeverAsksForMore
  <2>1. Fits(query[c]) /\ query[c] \in Settings
    BY DEF IInv, SettingsOK, TypeOK
  <2>2. Most(2, original_depth) \in Nat
    BY GraphQLAssumption DEF Most
  <2> QED
    BY <2>1, <2>2 DEF Fits
<1> QED
  BY <1>1, Invariance, PTL

\* A swap is turned away only after another call's retry.
THEOREM DepthIsShared == Spec => []TurnedAwayOnlyByARetry
<1>1. IInv => TurnedAwayOnlyByARetry
  BY DEF IInv, TurnedOK, TurnedAwayOnlyByARetry
<1> QED
  BY <1>1, Invariance, PTL

\* The list of a lookup holds the transactions of every query that was answered,
\* unless a query above it was lost, in a tree of swaps of any depth.
THEOREM NothingIsLeftBehind == Spec => []NothingFollowedIsLost
<1>1. IInv => NothingFollowedIsLost
  BY HandedUpTo DEF NothingFollowedIsLost
<1> QED
  BY <1>1, Invariance, PTL
=============================================================================
