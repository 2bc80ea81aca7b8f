-------------------------- MODULE TransactionGraph --------------------------
(***************************************************************************)
(* graphtools.py: the nodes and edges of a money flow, from the transfers  *)
(* a vendor returns for the sources (mode -1) and the destinations (mode   *)
(* 1) of a wallet, the lossy graph that is drawn when there are too many   *)
(* nodes, and make_graph_dict, which joins the two halves.                 *)
(*                                                                         *)
(* The two results grow by one transfer at a time, each at an address      *)
(* already reached, so every prefix is checked.  "eth" and "other" are     *)
(* generate_nodes_edges for ETH and any other chain with the rows of       *)
(* Bitquery's client, "ethtracer" and "tracer" with those of the tracer's, *)
(* which counts sources from -1 downwards; "coinpath" is for the UTXO      *)
(* chains, "btc" for the Lyze API, "ethpath" and "btcpath" for the paths   *)
(* between two addresses.                                                  *)
(***************************************************************************)
EXTENDS Integers, Sequences, FiniteSets, FiniteSetsExt, Functions

CONSTANTS
  Root,      \* the wallet
  Others,    \* other addresses
  Hashes,    \* transaction hashes of paths
  Amounts,
  Kinds,     \* graph builders tried, with the clients that feed them
  MaxItems,  \* bound: transfers in both results
  MaxDepth,  \* 10: the deepest search (CATVSerializer), and the ratios of limit_connected_edges
  Cutoff,    \* CATV_GRAPH_NODES_CUTOFF
  MaxNodes,  \* CATV_MAX_SCALED_NODES
  None       \* the hash of a transfer whose hash is never looked at

GraphAssumption ==
  /\ Root \notin Others /\ IsFiniteSet(Others) /\ Amounts \subseteq Nat /\ None \notin Hashes
  /\ Kinds \subseteq {"eth", "other", "ethtracer", "tracer", "coinpath", "btc", "ethpath", "btcpath"}
  /\ MaxItems \in Nat /\ MaxDepth \in Nat /\ Cutoff \in Nat /\ MaxNodes \in Nat \ {0}

VARIABLES
  kind,    \* the builder
  result   \* result[mode]: the transfers

vars == <<kind, result>>

Modes     == {1, -1}
Addresses == {Root} \cup Others

\* The greatest depth of a row: what is traced after a swap starts anew at its depth.
Farthest  == 2 * MaxDepth
Transfer  == [outer : Addresses, inner : Addresses, depth : (-Farthest)..Farthest,
              hash : Hashes \cup {None}, amount : Amounts]

IsPath    == kind \in {"ethpath", "btcpath"}
IsEth     == kind \in {"eth", "ethtracer"}

\* Which clients turn the depths of sources, and which follow swaps.
IsTurned(mode) == mode = -1 /\ kind \in {"ethtracer", "tracer"}
HasSwaps       == kind \in {"eth", "other"}

\* The n-th of the positions S, and the elements of s at them.
Nth(S, n)  == CHOOSE i \in S : Cardinality({j \in S : j <= i}) = n
Pick(s, S) == [n \in 1..Cardinality(S) |-> s[Nth(S, n)]]

-----------------------------------------------------------------------------
(* Nodes                                                                    *)

\* uniqfy_generator: the transfers at which an outer address is seen first.
uniqfy(r) == {i \in DOMAIN r : r[i].outer # r[1].inner /\ \A j \in 1..(i - 1) : r[j].outer # r[i].outer}

\* Mutant: ids without a sign.
NewNodeUnsigned(id, address, level) ==
  [id |-> IF id < 0 THEN -id ELSE id, address |-> address, level |-> level]
NewNode(id, address, level) == [id |-> id, address |-> address, level |-> level]

\* What every builder does: the root first, then one node per new address,
\* numbered in the direction of the mode.
Nodes(r, mode, level) ==
  <<NewNode(0, r[1].inner, 0)>> \o
  [n \in 1..Cardinality(uniqfy(r)) |->
     LET i == Nth(uniqfy(r), n) IN NewNode(mode * n, r[i].outer, level[i])]

\* Mutant: every chain is shifted like ETH.
assign_nodes_shifted(r, mode) ==
  Nodes(r, mode, [i \in DOMAIN r |-> IF mode = 1 THEN r[i].depth ELSE -(r[i].depth + 1)])
assign_nodes(r, mode) ==
  Nodes(r, mode, [i \in DOMAIN r |-> CASE mode = 1            -> r[i].depth
                                       [] mode = -1 /\ IsEth -> -(r[i].depth + 1)
                                       [] OTHER              -> -(r[i].depth + 1) + 1])
assign_nodes_btc_coinpath(r, mode) ==
  Nodes(r, mode, [i \in DOMAIN r |-> r[i].depth * mode])
assign_nodes_btc_path(r, mode) ==
  Nodes(r, mode, [i \in DOMAIN r |-> IF mode = 1 THEN r[i].depth ELSE -(r[i].depth + 1)])

volume_count(r) ==
  [a \in {r[i].inner : i \in uniqfy(r)} |-> Cardinality({i \in uniqfy(r) : r[i].inner = a})]

-----------------------------------------------------------------------------
(* Edges                                                                    *)

Known(nodes) == {nodes[i].address : i \in DOMAIN nodes}
IdOf(nodes, a) == nodes[CHOOSE i \in DOMAIN nodes : nodes[i].address = a].id

\* One edge per pair, numbered in the order of the pairs.
create_edge(r, i, nodes) ==
  LET same == {j \in DOMAIN r : r[j].inner = r[i].inner /\ r[j].outer = r[i].outer} IN
  [first |-> i, depth |-> r[i].depth, inner |-> r[i].inner, outer |-> r[i].outer,
   from |-> IdOf(nodes, r[i].inner), to |-> IdOf(nodes, r[i].outer),
   sum |-> SumFunction([j \in same |-> r[j].amount]), data |-> Cardinality(same)]

Firsts(r) == {i \in DOMAIN r : \A j \in 1..(i - 1) : ~(r[j].inner = r[i].inner /\ r[j].outer = r[i].outer)}

\* Mutant: the amount of the last transfer of a pair replaces the others.
assign_edges_last(r, nodes) ==
  {[create_edge(r, i, nodes) EXCEPT !.sum = r[i].amount] : i \in Firsts(r)}
\* create_edge looks both ids up: an unknown address is a KeyError.
assign_edges(r, nodes) == {create_edge(r, i, nodes) : i \in Firsts(r)}

-----------------------------------------------------------------------------
(* The lossy graph                                                          *)

\* Sources are shifted, although no client counts theirs from 0.
Shifted(e, mode) == IF mode = -1 THEN e.depth + 1 ELSE e.depth

\* The groups, in the order in which their depths appear.
group_by_depth(edges, mode) ==
  LET heads == {e \in edges : \A f \in edges : Shifted(f, mode) = Shifted(e, mode) => e.first <= f.first}
      at    == {e.first : e \in heads}
      Depth(n) == Shifted(CHOOSE e \in heads : e.first = Nth(at, n), mode)
  IN [n \in 1..Cardinality(at) |->
        [depth |-> Depth(n), edges |-> {e \in edges : Shifted(e, mode) = Depth(n)}]]

\* sort_per_depth and take: the n largest, the earlier of two equal ones first.
Largest(edges, n) ==
  {e \in edges : Cardinality({f \in edges : f.sum > e.sum \/ (f.sum = e.sum /\ f.first < e.first)}) < n}

\* ceil(ratio_depth[d - 1] / slice_sum * CATV_MAX_SCALED_NODES): the ratios are
\* the odd numbers, and those up to depth n sum up to n * n.
Share(d, n) == ((2 * d - 1) * MaxNodes + n * n - 1) \div (n * n)

Ends(edges) == UNION {{e.inner, e.outer} : e \in edges}

Deepest(groups) == Max({groups[n].depth : n \in DOMAIN groups})

\* Mutant: deeper edges are kept whether they hang on the others or not.
limit_loose_edges(groups) ==
  UNION {Largest(groups[n].edges, Share(groups[n].depth, Deepest(groups))) : n \in DOMAIN groups}

\* Below depth 1 only edges that touch the ones kept so far.
limit_connected_edges(groups) ==
  LET kept[n \in 0..Len(groups)] ==
        IF n = 0 THEN {}
        ELSE LET g    == groups[n]
                 near == {e \in g.edges : g.depth = 1 \/ {e.inner, e.outer} \cap Ends(kept[n - 1]) # {}}
             IN kept[n - 1] \cup Largest(near, Share(g.depth, Deepest(groups)))
  IN kept[Len(groups)]

\* The edges that are drawn and the addresses they join.
make_lossy_graph(nodes, edges, mode) ==
  LET kept == limit_connected_edges(group_by_depth(edges, mode)) IN
  [edges |-> kept, keys |-> Ends(kept)]

-----------------------------------------------------------------------------
(* One half of the report                                                   *)

\* tracking_results and, after filter_update_nodes, what is drawn.  A lossy
\* graph that kept nothing is replaced by the whole graph.
Half(r, mode, nodes, edges) ==
  LET lossy == make_lossy_graph(nodes, edges, mode)
      cut   == Len(nodes) > Cutoff /\ lossy.edges # {} IN
  [items |-> r, nodes |-> nodes, edges |-> edges, counts |-> volume_count(r),
   drawnEdges |-> IF cut THEN lossy.edges ELSE edges,
   drawnNodes |-> IF cut THEN Pick(nodes, {i \in DOMAIN nodes : nodes[i].address \in lossy.keys}) ELSE nodes]

\* Items with a hash seen before are dropped: paths share their beginnings.
Distinct(r) == Pick(r, {i \in DOMAIN r : \A j \in 1..(i - 1) : r[j].hash # r[i].hash})

depth_shift_for_source(r) == [i \in DOMAIN r |-> [r[i] EXCEPT !.depth = -(@ + 1)]]
reverse_source_depth(r)   == [i \in DOMAIN r |-> [r[i] EXCEPT !.depth = -@]]
depth_shift_btc(r, mode)  == [i \in DOMAIN r |-> [r[i] EXCEPT !.depth = @ * mode]]

generate_nodes_edges(r, mode) ==
  LET nodes == assign_nodes(r, mode)
      half  == Half(r, mode, nodes, assign_edges(r, nodes))
  IN IF mode = 1 THEN half
     ELSE [half EXCEPT !.items = IF IsEth THEN depth_shift_for_source(r) ELSE reverse_source_depth(r)]
generate_nodes_edges_coinpath(r, mode) ==
  LET nodes == assign_nodes_btc_coinpath(r, mode)
      half  == Half(r, mode, nodes, assign_edges(r, nodes))
  IN IF mode = 1 THEN half ELSE [half EXCEPT !.items = depth_shift_btc(r, mode)]
generate_nodes_edges_ethcoinpath(r) ==
  LET items == Distinct(r)
      nodes == assign_nodes(items, 1)
  IN Half(items, 1, nodes, assign_edges(items, nodes))
generate_nodes_edges_btccoinpath(r) ==
  LET items == Distinct(r)
      nodes == assign_nodes_btc_path(items, 1)
  IN Half(items, 1, nodes, assign_edges(items, nodes))

Graph(mode) ==
  CASE IsEth \/ kind \in {"other", "tracer"} -> generate_nodes_edges(result[mode], mode)
    [] kind = "coinpath" -> generate_nodes_edges_coinpath(result[mode], mode)
    [] kind = "ethpath"  -> generate_nodes_edges_ethcoinpath(result[mode])
    [] kind = "btcpath"  -> generate_nodes_edges_btccoinpath(result[mode])

\* Does an edge ask for the id of an address without a node?
HasLooseEnds(r) == \E i \in DOMAIN r : r[i].inner # r[1].inner /\ \A j \in DOMAIN r : r[j].outer # r[i].inner

\* Does a lossy graph ask for the ratio of a depth that has none?  Beyond
\* MaxDepth there is none, and none at all if 0 is the deepest.
IsLarge(r)    == Cardinality(uniqfy(r)) + 1 > Cutoff
HasNoRatio(r, mode) ==
  IsLarge(r) /\ \/ \E i \in Firsts(r) : Shifted(r[i], mode) > MaxDepth
                \/ /\ \A i \in Firsts(r) : Shifted(r[i], mode) <= 0
                   /\ \E i \in Firsts(r) : Shifted(r[i], mode) = 0

\* create_graph_data passes generate_nodes_edges_btc an argument too many.
Raises(mode) ==
  LET r == IF IsPath THEN Distinct(result[mode]) ELSE result[mode]
  IN  kind = "btc" \/ HasLooseEnds(r) \/ HasNoRatio(r, mode)

\* The destinations' graph and the sources': the root leads both lists of
\* nodes, and stays once.
make_graph_dict(dist, source) ==
  [nodes |-> dist.drawnNodes \o Tail(source.drawnNodes),
   edges |-> dist.drawnEdges \cup source.drawnEdges]

-----------------------------------------------------------------------------
(* The vendors                                                              *)

Init == kind \in Kinds /\ result = [m \in Modes |-> <<>>]

\* Steps from the wallet, for which a client's depths stand.
Hops(mode, t) == IF IsTurned(mode) THEN -t.depth ELSE t.depth

\* t goes on where u has arrived.  A followed swap u gives, at its own depth, the
\* way back, and what is traced of the tokens swapped for: of what was received
\* it begins at the other end of u.
Continues(mode, u, t) ==
  /\ t.inner = u.outer
  /\ \/ Hops(mode, t) = Hops(mode, u) + 1
     \/ HasSwaps /\ t.depth = u.depth /\ (mode = -1 \/ t.outer = u.inner)

\* Has a swap been followed?
HasWayBack(r) ==
  \E i \in DOMAIN r : \E j \in 1..(i - 1) :
    r[i].inner = r[j].outer /\ r[i].outer = r[j].inner /\ r[i].depth = r[j].depth

\* The next transfer starts at the wallet or goes on from an earlier one; a path
\* goes on from its last transfer, or a new path starts at the wallet.  On ETH a
\* hash names one transfer.  Hashes are those of paths only.
Follows(mode, r, t) ==
  /\ t.hash = None <=> ~IsPath
  /\ Hops(mode, t) <= IF HasSwaps /\ HasWayBack(r) THEN Farthest - 1 ELSE MaxDepth
  /\ \/ t.inner = Root /\ Hops(mode, t) = 1
     \/ \E i \in DOMAIN r : Continues(mode, r[i], t) /\ (IsPath => i = Len(r))
  /\ kind = "ethpath" => \A i \in DOMAIN r : r[i].hash = t.hash => r[i] = t

Receive(mode) ==
  /\ Len(result[1]) + Len(result[-1]) < MaxItems
  /\ IsPath => mode = 1
  /\ \E t \in Transfer :
       /\ Follows(mode, result[mode], t)
       /\ result' = [result EXCEPT ![mode] = Append(@, t)]
  /\ UNCHANGED kind

Next == \E mode \in Modes : Receive(mode)

Spec == Init /\ [][Next]_vars

-----------------------------------------------------------------------------
(* Properties                                                               *)

\* (A bound variable is evaluated once, a name in a LET wherever it is used:
\* hence \A g \in {Graph(m)}.)
Built == {m \in Modes : result[m] # <<>> /\ ~Raises(m)}

\* Ids carry the sign of the direction, and edges the ids of nodes.
TypeOK ==
  /\ kind \in Kinds /\ result \in [Modes -> Seq(Transfer)]
  /\ \A m \in Built :
       \A g \in {Graph(m)} : LET ids == {m * k : k \in 0..Len(result[m])} IN
       /\ g.nodes \in Seq([id : ids, address : Addresses, level : (-Farthest - 1)..Farthest])
       /\ \A e \in g.edges : e.from \in ids /\ e.to \in ids /\ e.data \in 1..Len(result[m])

\* What the proofs rest on: each transfer starts at the wallet or goes on from an
\* earlier one, within the depth asked for but for swaps, and an ETH hash names one
\* transfer.
Received(mode, r) ==
  /\ \A i \in DOMAIN r :
       /\ Hops(mode, r[i]) \in 1..(IF HasSwaps THEN Farthest ELSE MaxDepth)
       /\ \/ r[i].inner = Root /\ Hops(mode, r[i]) = 1
          \/ \E j \in 1..(i - 1) : Continues(mode, r[j], r[i])
  /\ kind = "ethpath" => \A i, j \in DOMAIN r : r[i].hash = r[j].hash => r[i] = r[j]

IInv ==
  /\ kind \in Kinds /\ result \in [Modes -> Seq(Transfer)]
  /\ IsPath => result[-1] = <<>>
  /\ \A m \in Modes : Received(m, result[m])

\* Every transfer is on an edge and no amount is counted twice or lost; every
\* node but the root is counted once in volume_count.
NothingIsLost ==
  \A m \in Built :
    \A g \in {Graph(m)} :
    /\ SumFunction([e \in g.edges |-> e.data]) = Len(g.items)
    /\ SumFunction([e \in g.edges |-> e.sum]) = SumFunction([i \in DOMAIN g.items |-> g.items[i].amount])
    /\ SumFunction(g.counts) = Len(g.nodes) - 1

\* Nodes and items are shifted alike, whatever the builder and the client: a
\* node's level is the depth of the item that first arrived there.
LevelsMatchItems(g) ==
  \A n \in DOMAIN g.nodes :
    IF g.nodes[n].address = Root THEN g.nodes[n].level = 0
    ELSE \E i \in DOMAIN g.items :
           /\ g.items[i].outer = g.nodes[n].address /\ g.items[i].depth = g.nodes[n].level
           /\ \A j \in 1..(i - 1) : g.items[j].outer # g.nodes[n].address

\* Where rows come by depth, and the code undoes what the client did, the level of
\* a node is the least number of steps to it, negative for sources.  It is one
\* step more for ETH sources, and sources of the tracer are put on the other side.
LevelsAreHops(m, g) ==
  (m = 1 \/ kind \in {"other", "coinpath"}) /\ ~IsPath
    /\ (\A i, j \in DOMAIN result[m] : i <= j => result[m][i].depth <= result[m][j].depth)
  => \A n \in DOMAIN g.nodes :
       g.nodes[n].address # Root =>
         g.nodes[n].level =
           m * Min({t.depth : t \in {u \in Range(result[m]) : u.outer = g.nodes[n].address}})

DepthsAreHops ==
  \A m \in Built : \A g \in {Graph(m)} : LevelsMatchItems(g) /\ LevelsAreHops(m, g)

\* What is drawn hangs together: from the wallet every drawn node is reached
\* along drawn edges, lossy or not.  (Two outputs of one UTXO transaction share
\* a hash; where a path loses one, the rest of it may hang loose.)
IsConnected(g) ==
  LET reach[n \in Nat] ==
        IF n = 0 THEN {Root}
        ELSE reach[n - 1] \cup Ends({e \in g.drawnEdges : {e.inner, e.outer} \cap reach[n - 1] # {}})
  IN {g.drawnNodes[i].address : i \in DOMAIN g.drawnNodes} \subseteq reach[Cardinality(Addresses)]

\* Destinations beyond the cutoff are drawn with about CATV_MAX_SCALED_NODES edges:
\* one more per depth at most.  Not so for sources: group_by_depth shifts them
\* past depth 1, where nothing is kept, and the whole graph is drawn.
IsSmall(m, g) ==
  m = 1 /\ Len(g.nodes) > Cutoff =>
    Cardinality(g.drawnEdges) <= MaxNodes + Cardinality({e.depth : e \in g.edges})

\* In the joined report every drawn edge joins two drawn nodes, and ids are unique.
IsJoined(g) ==
  \A ids \in {{g.nodes[i].id : i \in DOMAIN g.nodes}} :
    /\ Cardinality(ids) = Len(g.nodes)
    /\ \A e \in g.edges : {e.from, e.to} \subseteq ids

DrawnGraphIsSound ==
  /\ \A m \in Built : \A g \in {Graph(m)} :
       /\ kind # "btcpath" => IsConnected(g)
       /\ IsSmall(m, g)
  /\ Built = Modes =>
       \A dist \in {Graph(1)}, source \in {Graph(-1)} : IsJoined(make_graph_dict(dist, source))

\* No answer asks for the id of an unknown address, but for the paths of UTXO
\* chains: where two of their transfers share a hash, the second is dropped, and
\* what follows it hangs loose.  Up to the cutoff every other answer becomes a
\* graph, except Lyze's.  Beyond it, those of the tracer for sources never do;
\* others fail only if followed swaps lead beyond the deepest search, or if
\* sources are as deep as one may ask for and shifted past the last ratio.
FewAnswersRaise ==
  \A m \in Modes :
    result[m] # <<>> /\ Raises(m) =>
      \/ kind \in {"btc", "btcpath"}
      \/ /\ Cardinality({t.outer : t \in Range(result[m])} \ {Root}) + 1 > Cutoff
         /\ \/ IsTurned(m)
            \/ \E t \in Range(result[m]) : t.depth > MaxDepth /\ HasSwaps
            \/ m = -1 /\ \E t \in Range(result[m]) : t.depth = MaxDepth
=============================================================================
