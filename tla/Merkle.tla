------------------------------- MODULE Merkle -------------------------------
(***************************************************************************)
(* The prefix trees two hubs compare (merkle.py): leaves are slices of the *)
(* hash space, so node i of level k stands for the same messages on every  *)
(* hub, those whose hash begins with the k bits of i.                      *)
(*                                                                         *)
(* Tree is the tree as the code builds it, leaves first, over a hash       *)
(* without collisions.  Federation works with Below, the messages a node   *)
(* stands for: NodesAreSets, which the instances evaluate and which is     *)
(* proved for any depth in FederationProofs, says that nodes compare       *)
(* exactly as those sets do.                                               *)
(***************************************************************************)
EXTENDS Integers, FiniteSets

CONSTANTS
    Messages,
    Depth,          \* merkle_depth
    Prefix,         \* the first k bits of a message's hash, as a number
    MaxNodes        \* MAX_NODES_PER_REQUEST

ASSUME DepthAssumption == Depth \in Nat \ {0} /\ MaxNodes \in Nat

(* Each bit leads to one of the two children.  No index is as large as     *)
(* MaxNodes: with depth 8, or any up to 10, a level has no more nodes than *)
(* one request may ask for.                                                *)
ASSUME PrefixAssumption ==
    /\ Prefix \in [Messages -> [0 .. Depth -> Nat]]
    /\ \A m \in Messages :
          /\ Prefix[m][0] = 0
          /\ \A k \in 0 .. Depth - 1 :
                Prefix[m][k + 1] \in {2 * Prefix[m][k], 2 * Prefix[m][k] + 1}
          /\ \A k \in 0 .. Depth : Prefix[m][k] < MaxNodes

EmptyNode == [node |-> "empty"]

HashLeaf(items) ==
    IF items = {} THEN EmptyNode ELSE [node |-> "leaf", items |-> items]

HashPair(left, right) ==
    IF left = EmptyNode /\ right = EmptyNode
      THEN EmptyNode
      ELSE [node |-> "pair", left |-> left, right |-> right]

Tree(items) ==
    LET level[k \in 0 .. Depth] ==
          [i \in 0 .. 2^k - 1 |->
              IF k = Depth
                THEN HashLeaf({m \in items : Prefix[m][Depth] = i})
                ELSE HashPair(level[k + 1][2 * i], level[k + 1][2 * i + 1])]
    IN  level

(* What node i of level k stands for. *)
Below(items, k, i) == {m \in items : Prefix[m][k] = i}

NodesAreSets ==
    \A S, T \in SUBSET Messages : \A k \in 0 .. Depth : \A i \in 0 .. 2^k - 1 :
        /\ (Tree(S)[k][i] = Tree(T)[k][i]) = (Below(S, k, i) = Below(T, k, i))
        /\ (Tree(S)[k][i] = EmptyNode) = (Below(S, k, i) = {})

(* The first n of some indices, in order. *)
Lowest(n, S) == {i \in S : Cardinality({j \in S : j < i}) < n}

ChildrenOf(nodes) == {2 * i : i \in nodes} \cup {2 * i + 1 : i \in nodes}

(* The children of some nodes that one request asks for. *)
Candidates(nodes) == Lowest(MaxNodes, ChildrenOf(nodes))

(* Faulty: nodes where both have something count as the same. *)
MutDiverging(local, remote, k, nodes) ==
    {i \in nodes : Below(remote, k, i) # {} /\ Below(local, k, i) = {}}

(* Where the two sides differ, but for what only we hold. *)
Diverging(local, remote, k, nodes) ==
    {i \in nodes : Below(remote, k, i) # {} /\ Below(local, k, i) # Below(remote, k, i)}
=============================================================================
