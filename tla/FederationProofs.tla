-------------------------- MODULE FederationProofs --------------------------
(***************************************************************************)
(* Proofs about Federation, for any hubs, groups, messages, trees, limits  *)
(* and numbers of rounds and failures.                                     *)
(*                                                                         *)
(* The argument for RoundIsComplete follows a message m that the peer held *)
(* from the roots on.  Until this hub stores it, m is in sight (InSight):  *)
(* in the root of an item of the agenda, or below a node that was found to *)
(* differ, or among the missing, or in the one resource the hub waits for. *)
(* Roots, nodes and leaves are read at different moments, but each of them *)
(* shows m, since the peer has had it all along, while the tree of this    *)
(* hub was read once, without m: a node over m differs at whatever moment  *)
(* it is compared.                                                         *)
(*                                                                         *)
(* The last part is about the trees themselves: that comparing two nodes   *)
(* is comparing the messages below them.                                   *)
(***************************************************************************)
EXTENDS Federation, FiniteSetTheorems, TLAPS

(* Types. *)

(* A walk is never below the leaves, and starts at the top. *)
Levels ==
    \A h \in Hubs :
        /\ pc[h] = "walk" => level[h] < Depth
        /\ pc[h] \in {"idle", "roots", "groups", "epochs"} => level[h] = 0

TablesOK ==
    /\ now \in Nat
    /\ store \in [Hubs -> SUBSET Messages] /\ ever \in [Hubs -> SUBSET Messages]
    /\ \A h \in Hubs : store[h] \subseteq ever[h]

ThreadOK ==
    /\ pc \in [Hubs -> Stages]
    /\ peer \in [Hubs -> Hubs]
    /\ linked \in [Hubs -> BOOLEAN]
    /\ \A h \in Hubs : linked[h] => pc[h] # "idle"

AgendaOK == agenda \in [Hubs -> SUBSET Items] /\ group \in [Hubs -> Groups]

WalkOK ==
    /\ epoch \in [Hubs -> Epochs \cup {0}]
    /\ local \in [Hubs -> SUBSET Messages]
    /\ level \in [Hubs -> 0 .. Depth]
    /\ nodes \in [Hubs -> SUBSET Nat]
    /\ missing \in [Hubs -> SUBSET Messages]
    /\ Levels

WireOK ==
    /\ air \in [Hubs -> SUBSET SUBSET Messages]
    /\ \A h \in Hubs : air[h] # {} => linked[h]
    /\ arrived \in [Hubs -> BOOLEAN]

PropsOK ==
    /\ rounds \in Nat /\ faults \in Nat
    /\ offered \in [Hubs -> SUBSET Messages]
    /\ failed \in [Hubs -> SUBSET Groups]

Shape == TypeOK /\ Levels

LEMMA Parts ==
    /\ Shape <=> /\ TablesOK /\ ThreadOK /\ AgendaOK /\ WalkOK /\ WireOK /\ PropsOK
    /\ Shape' <=> /\ TablesOK' /\ ThreadOK' /\ AgendaOK' /\ WalkOK' /\ WireOK' /\ PropsOK'
BY DEF Shape, TypeOK, Levels, TablesOK, ThreadOK, AgendaOK, WalkOK, WireOK, PropsOK

LEMMA SomeGroupIsOne == SomeGroup \in Groups
BY HubsAssumption DEF SomeGroup

LEMMA EpochIsOne == ASSUME NEW m \in Messages PROVE Epoch(m) \in Epochs /\ Epoch(m) \in Nat
<1>1. \A t \in Nat : t \div EpochLength \in Nat
  BY SizesAssumption
<1> QED
  BY <1>1, HubsAssumption DEF Epoch, Epochs

LEMMA FaultCounts == ASSUME PropsOK, Fault PROVE faults' \in Nat
BY DEF PropsOK, Fault

LEMMA FailsCounts == ASSUME PropsOK, NEW h \in Hubs, Fails(h) PROVE faults' \in Nat
BY DEF PropsOK, Fault, Fails

(* What a hub is told of a peer's store. *)
LEMMA RootsAreItems ==
    ASSUME TablesOK, NEW h \in Hubs, NEW g \in Groups
    PROVE  EpochRoots(h, g) \subseteq Items
<1> SUFFICES ASSUME NEW n \in store[h]
             PROVE  [group |-> g, epoch |-> Epoch(n), root |-> InEpoch(store[h], g, Epoch(n))]
                       \in Items
  BY DEF EpochRoots
<1>1. n \in Messages /\ InEpoch(store[h], g, Epoch(n)) \subseteq Messages
  BY DEF TablesOK, InEpoch
<1> QED
  BY <1>1, EpochIsOne DEF Items

LEMMA ChildrenAreNumbers == ASSUME NEW N \in SUBSET Nat PROVE ChildrenOf(N) \subseteq Nat
<1>1. \A i \in N : 2 * i \in Nat /\ 2 * i + 1 \in Nat
  OBVIOUS
<1>2. {2 * i : i \in N} \subseteq Nat /\ {2 * i + 1 : i \in N} \subseteq Nat
  BY <1>1
<1> QED
  BY <1>2 DEF ChildrenOf

LEMMA DivergingAreNodes ==
    ASSUME NEW S, NEW T, NEW k, NEW N \in SUBSET Nat
    PROVE  Diverging(S, T, k, Candidates(N)) \subseteq Nat
BY ChildrenAreNumbers DEF Diverging, Candidates, Lowest

LEMMA CloseOK ==
    ASSUME NEW h \in Hubs, ThreadOK, WalkOK, CloseEpoch(h), UNCHANGED link
    PROVE  ThreadOK' /\ WalkOK'
<1>1. 0 \in 0 .. Depth
  BY DepthAssumption
<1>2. ThreadOK'
  BY DEF ThreadOK, CloseEpoch, link, Stages
<1>3. Levels'
  BY DEF ThreadOK, WalkOK, Levels, CloseEpoch
<1> QED
  BY <1>1, <1>2, <1>3 DEF WalkOK, CloseEpoch

LEMMA IdleOK ==
    ASSUME NEW h \in Hubs, ThreadOK, AgendaOK, WireOK, PropsOK, Idle(h)
    PROVE  /\ ThreadOK' /\ AgendaOK' /\ WireOK'
           /\ offered' \in [Hubs -> SUBSET Messages] /\ failed' \in [Hubs -> SUBSET Groups]
<1>1. ThreadOK'
  BY DEF ThreadOK, Idle, Stages
<1>2. AgendaOK'
  BY SomeGroupIsOne DEF AgendaOK, Idle
<1>3. WireOK'
  BY DEF ThreadOK, WireOK, Idle
<1> QED
  BY <1>1, <1>2, <1>3 DEF PropsOK, Idle

LEMMA StoreOK ==
    ASSUME NEW h \in Hubs, NEW S \in SUBSET Messages, TablesOK, Store(h, S), UNCHANGED now
    PROVE  TablesOK'
BY DEF TablesOK, Store
----------------------------------------------------------------------------
LEMMA BeginningOK ==
    ASSUME Shape, NEW h \in Hubs,
           (\E p \in Hubs : Connect(h, p)) \/ AskRoots(h) \/ NoRoots(h) \/ EndRound(h)
    PROVE  Shape'
<1> USE Parts
<1>1. UNCHANGED <<now, tables, walk>>
  BY DEF Connect, AskRoots, NoRoots, EndRound
<1>2. TablesOK' /\ WalkOK'
  <2>1. /\ pc[h] \in {"idle", "roots", "groups"} /\ pc'[h] \in {"idle", "roots", "groups"}
        /\ \A k \in Hubs \ {h} : pc'[k] = pc[k]
    BY DEF Connect, AskRoots, NoRoots, EndRound, Idle, ThreadOK
  <2>2. Levels'
    BY <1>1, <2>1 DEF walk, WalkOK, Levels
  <2> QED
    BY <1>1, <2>2 DEF tables, walk, TablesOK, WalkOK
<1>3. ASSUME NEW p \in Hubs, Connect(h, p)
      PROVE  ThreadOK' /\ AgendaOK' /\ WireOK' /\ PropsOK'
  <2>1. ThreadOK'
    BY <1>3 DEF Connect, ThreadOK, Stages
  <2>2. rounds' \in Nat
    BY <1>3 DEF Connect, PropsOK
  <2>3. AgendaOK' /\ WireOK'
    BY <1>3 DEF Connect, ThreadOK, AgendaOK, WireOK, wire
  <2> QED
    BY <1>3, <2>1, <2>2, <2>3 DEF Connect, PropsOK
<1>4. CASE AskRoots(h)
  <2>1. peer[h] \in Hubs
    BY DEF ThreadOK
  <2>2. UNION {EpochRoots(peer[h], g) : g \in Hosts[h] \cap Hosts[peer[h]]} \subseteq Items
    BY <2>1, RootsAreItems, HubsAssumption
  <2>3. AgendaOK'
    BY <1>4, <2>2 DEF AskRoots, AgendaOK
  <2>4. ThreadOK' /\ WireOK'
    BY <1>4 DEF AskRoots, ThreadOK, WireOK, link, wire, Stages
  <2>5. PropsOK'
    BY <1>4, <2>1 DEF AskRoots, PropsOK, TablesOK, bounds
  <2> QED
    BY <1>2, <2>3, <2>4, <2>5
<1>5. CASE NoRoots(h)
  BY <1>2, <1>5, IdleOK, FailsCounts DEF NoRoots, PropsOK
<1>6. CASE EndRound(h)
  BY <1>2, <1>6, IdleOK DEF EndRound, bounds, PropsOK
<1> QED
  BY <1>2, <1>3, <1>4, <1>5, <1>6

LEMMA WalkingOK ==
    ASSUME Shape, NEW h \in Hubs,
           \/ (\E g \in Groups : EnterGroup(h, g)) \/ LeaveGroup(h) \/ OpenEpoch(h)
           \/ AskNodes(h) \/ AskBuckets(h) \/ GroupFails(h)
    PROVE  Shape'
<1> USE Parts
<1>1. UNCHANGED <<now, tables, link, wire, rounds, offered>>
  BY DEF EnterGroup, LeaveGroup, OpenEpoch, AskNodes, AskBuckets, GroupFails, bounds
<1>2. TablesOK' /\ WireOK'
  BY <1>1 DEF tables, link, wire, TablesOK, WireOK
<1>3. CASE (\E g \in Groups : EnterGroup(h, g)) \/ LeaveGroup(h)
  <2>1. UNCHANGED <<walk, bounds, failed>>
    BY <1>3 DEF EnterGroup, LeaveGroup
  <2>2. ThreadOK'
    BY <1>1, <1>3 DEF EnterGroup, LeaveGroup, ThreadOK, Stages, link
  <2>3. AgendaOK'
    BY <1>3 DEF EnterGroup, LeaveGroup, AgendaOK
  <2>4. Levels'
    BY <1>3, <2>1 DEF EnterGroup, LeaveGroup, walk, ThreadOK, WalkOK, Levels
  <2> QED
    BY <1>1, <1>2, <2>1, <2>2, <2>3, <2>4 DEF walk, bounds, WalkOK, PropsOK
<1>4. CASE OpenEpoch(h)
  <2> PICK item \in Todo(h) :
         /\ agenda' = [agenda EXCEPT ![h] = @ \ {item}]
         /\ \/ UNCHANGED <<pc, walk>>
            \/ /\ pc' = [pc EXCEPT ![h] = "walk"]
               /\ epoch' = [epoch EXCEPT ![h] = item.epoch]
               /\ local' = [local EXCEPT ![h] = InEpoch(store[h], group[h], item.epoch)]
               /\ nodes' = [nodes EXCEPT ![h] = {0}]
               /\ UNCHANGED <<level, missing>>
    BY <1>4 DEF OpenEpoch
  <2>1. item.epoch \in Epochs
    BY DEF Todo, AgendaOK, Items
  <2>2. UNCHANGED <<group, bounds, failed>> /\ pc[h] = "epochs"
    BY <1>4 DEF OpenEpoch
  <2>3. AgendaOK'
    BY <2>2 DEF AgendaOK
  <2>4. ThreadOK'
    BY <1>1, <2>2 DEF ThreadOK, link, Stages
  <2>5. Levels'
    BY <2>2, DepthAssumption DEF walk, ThreadOK, WalkOK, Levels
  <2>6. WalkOK'
    BY <2>1, <2>5 DEF WalkOK, walk, TablesOK, InEpoch
  <2> QED
    BY <1>1, <1>2, <2>2, <2>3, <2>4, <2>6 DEF bounds, PropsOK
<1>5. CASE AskNodes(h)
  <2>1. UNCHANGED <<agenda, group, bounds, failed>> /\ pc[h] = "walk"
    BY <1>5 DEF AskNodes
  <2>2. ThreadOK' /\ WalkOK'
    <3>1. CASE CloseEpoch(h)
      BY <1>1, <3>1, CloseOK
    <3>2. CASE ~CloseEpoch(h)
      <4> DEFINE differ == Diverging(local[h], Remote(h), level[h] + 1, Candidates(nodes[h]))
      <4>1. /\ level' = [level EXCEPT ![h] = level[h] + 1]
            /\ nodes' = [nodes EXCEPT ![h] = differ]
            /\ pc' = [pc EXCEPT ![h] = IF level[h] + 1 = Depth THEN "buckets" ELSE "walk"]
            /\ UNCHANGED <<epoch, local, missing>>
        BY <1>5, <3>2 DEF AskNodes
      <4>2. differ \subseteq Nat
        BY DivergingAreNodes DEF WalkOK
      <4> HIDE DEF differ
      <4>3. level[h] \in Nat /\ level[h] < Depth
        BY <2>1, DepthAssumption DEF WalkOK, Levels
      <4>4. ThreadOK'
        BY <1>1, <2>1, <4>1 DEF ThreadOK, link, Stages
      <4>5. Levels'
        BY <2>1, <4>1, <4>3, DepthAssumption DEF ThreadOK, WalkOK, Levels
      <4> QED
        BY <4>1, <4>2, <4>3, <4>4, <4>5, DepthAssumption DEF WalkOK
    <3> QED
      BY <3>1, <3>2
  <2> QED
    BY <1>1, <1>2, <2>1, <2>2 DEF AgendaOK, bounds, PropsOK
<1>6. CASE AskBuckets(h)
  <2>1. UNCHANGED <<agenda, group, bounds, failed>> /\ pc[h] = "buckets"
    BY <1>6 DEF AskBuckets
  <2>2. ThreadOK' /\ WalkOK'
    <3>1. CASE CloseEpoch(h)
      BY <1>1, <3>1, CloseOK
    <3>2. CASE ~CloseEpoch(h)
      <4> DEFINE chunk == Lowest(MaxBuckets, nodes[h])
                 found == {m \in Remote(h) : Prefix[m][Depth] \in chunk}
                 all == missing[h] \cup (found \ local[h])
      <4>1. /\ nodes' = [nodes EXCEPT ![h] = nodes[h] \ chunk]
            /\ missing' = [missing EXCEPT ![h] = all]
            /\ \E place \in {"fetch", "buckets"} : pc' = [pc EXCEPT ![h] = place]
            /\ UNCHANGED <<epoch, local, level>>
        BY <1>6, <3>2 DEF AskBuckets
      <4>2. all \subseteq Messages
        BY DEF WalkOK, ThreadOK, TablesOK, Remote, InEpoch
      <4> HIDE DEF all, chunk
      <4>3. ThreadOK'
        BY <1>1, <2>1, <4>1 DEF ThreadOK, link, Stages
      <4>4. Levels'
        BY <2>1, <4>1 DEF ThreadOK, WalkOK, Levels
      <4> QED
        BY <4>1, <4>2, <4>3, <4>4 DEF WalkOK
    <3> QED
      BY <3>1, <3>2
  <2> QED
    BY <1>1, <1>2, <2>1, <2>2 DEF AgendaOK, bounds, PropsOK
<1>7. CASE GroupFails(h)
  <2>1. ThreadOK' /\ AgendaOK'
    BY <1>1, <1>7 DEF GroupFails, ThreadOK, AgendaOK, link, Stages
  <2>2. Levels'
    BY <1>7 DEF GroupFails, ThreadOK, WalkOK, Levels
  <2>3. WalkOK'
    BY <1>7, <2>2, DepthAssumption DEF GroupFails, WalkOK
  <2>4. faults' \in Nat
    BY <1>7, FailsCounts DEF GroupFails
  <2>5. failed' \in [Hubs -> SUBSET Groups]
    BY <1>7 DEF GroupFails, PropsOK, AgendaOK
  <2> QED
    BY <1>1, <1>2, <2>1, <2>3, <2>4, <2>5 DEF PropsOK
<1> QED
  BY <1>3, <1>4, <1>5, <1>6, <1>7

LEMMA FetchingOK ==
    ASSUME Shape, NEW h \in Hubs,
           AskFetch(h) \/ Continue(h) \/ WaitTimesOut(h) \/ FetchFails(h)
    PROVE  Shape'
<1> USE Parts
<1>1. UNCHANGED <<now, tables, link, group, rounds, offered>>
  BY DEF AskFetch, Continue, WaitTimesOut, FetchFails, bounds
<1>2. TablesOK'
  BY <1>1 DEF tables, TablesOK
<1>3. CASE AskFetch(h)
  <2> PICK batch \in SUBSET missing[h] :
         \/ CloseEpoch(h) /\ UNCHANGED air
         \/ /\ missing' = [missing EXCEPT ![h] = @ \ batch]
            /\ UNCHANGED <<pc, epoch, local, level, nodes, air>>
         \/ /\ air' = [air EXCEPT ![h] = @ \cup {batch \cap store[peer[h]]}]
            /\ missing' = [missing EXCEPT ![h] = @ \ batch]
            /\ pc' = [pc EXCEPT ![h] = "wait"]
            /\ UNCHANGED <<epoch, local, level, nodes>>
    BY <1>3 DEF AskFetch
  <2>1. /\ UNCHANGED <<agenda, bounds, failed>> /\ pc[h] = "fetch" /\ linked[h]
        /\ arrived' = [arrived EXCEPT ![h] = FALSE]
    BY <1>3 DEF AskFetch
  <2>2. batch \subseteq Messages
    BY DEF WalkOK
  <2>3. ThreadOK' /\ WalkOK'
    <3>1. CASE CloseEpoch(h)
      BY <1>1, <3>1, CloseOK
    <3>2. CASE UNCHANGED <<pc, epoch, local, level, nodes>>
      BY <1>1, <3>1, <3>2 DEF ThreadOK, WalkOK, Levels, link, CloseEpoch
    <3>3. CASE pc' = [pc EXCEPT ![h] = "wait"] /\ UNCHANGED <<epoch, local, level, nodes>>
      <4>1. ThreadOK'
        BY <1>1, <2>1, <3>3 DEF ThreadOK, Stages, link
      <4>2. Levels'
        BY <2>1, <3>3 DEF ThreadOK, WalkOK, Levels
      <4> QED
        BY <3>1, <3>3, <4>1, <4>2 DEF WalkOK
    <3> QED
      BY <3>1, <3>2, <3>3
  <2>4. air' \in [Hubs -> SUBSET SUBSET Messages]
    BY <2>2 DEF WireOK
  <2>5. WireOK'
    BY <1>1, <2>1, <2>4 DEF WireOK, link, CloseEpoch
  <2> QED
    BY <1>1, <1>2, <2>1, <2>3, <2>5 DEF AgendaOK, bounds, PropsOK
<1>4. CASE Continue(h)
  <2>1. UNCHANGED <<agenda, wire, bounds, failed>> /\ pc[h] = "wait"
    BY <1>4 DEF Continue
  <2>2. ThreadOK' /\ WalkOK'
    <3>1. CASE CloseEpoch(h)
      BY <1>1, <3>1, CloseOK
    <3>2. CASE pc' = [pc EXCEPT ![h] = "fetch"] /\ UNCHANGED walk
      <4>1. ThreadOK'
        BY <1>1, <2>1, <3>2 DEF ThreadOK, Stages, link
      <4>2. Levels'
        BY <2>1, <3>2 DEF ThreadOK, WalkOK, Levels, walk
      <4> QED
        BY <3>2, <4>1, <4>2 DEF WalkOK, walk
    <3> QED
      BY <1>4, <3>1, <3>2 DEF Continue
  <2>3. AgendaOK' /\ WireOK' /\ PropsOK'
    BY <1>1, <2>1 DEF AgendaOK, WireOK, PropsOK, wire, bounds, link
  <2> QED
    BY <1>2, <2>2, <2>3
<1>5. CASE WaitTimesOut(h)
  <2>1. ThreadOK' /\ WalkOK'
    BY <1>1, <1>5, CloseOK DEF WaitTimesOut
  <2>2. AgendaOK' /\ WireOK'
    BY <1>1, <1>5 DEF WaitTimesOut, AgendaOK, WireOK, wire, link
  <2>3. PropsOK'
    BY <1>1, <1>5, FailsCounts DEF WaitTimesOut, PropsOK
  <2> QED
    BY <1>2, <2>1, <2>2, <2>3
<1>6. CASE FetchFails(h)
  <2>1. ThreadOK' /\ AgendaOK'
    BY <1>1, <1>6 DEF FetchFails, ThreadOK, AgendaOK, link, Stages
  <2>2. Levels'
    BY <1>6 DEF FetchFails, ThreadOK, WalkOK, Levels
  <2>3. WalkOK'
    BY <1>6, <2>2, DepthAssumption DEF FetchFails, WalkOK
  <2>4. WireOK'
    <3>1. missing[h] \subseteq Messages
      BY DEF WalkOK
    <3>2. CASE UNCHANGED air
      BY <1>1, <1>6, <3>2 DEF FetchFails, WireOK, link
    <3>3. ASSUME NEW sent \in SUBSET (missing[h] \cap store[peer[h]]), linked[h],
                 air' = [air EXCEPT ![h] = @ \cup {sent}]
          PROVE  WireOK'
      BY <1>1, <1>6, <3>1, <3>3 DEF FetchFails, WireOK, link
    <3> QED
      BY <1>6, <3>2, <3>3 DEF FetchFails
  <2>5. PropsOK'
    BY <1>1, <1>6, FailsCounts DEF FetchFails, PropsOK
  <2> QED
    BY <1>2, <2>1, <2>3, <2>4, <2>5
<1> QED
  BY <1>3, <1>4, <1>5, <1>6

LEMMA ArrivalOK ==
    ASSUME Shape, NEW h \in Hubs, NEW batch \in air[h],
           Arrives(h, batch) \/ ArrivesBroken(h, batch)
    PROVE  Shape'
<1> USE Parts
<1>1. /\ UNCHANGED <<now, pc, link, agenda, group, walk, rounds, offered>>
      /\ air' = [air EXCEPT ![h] = @ \ {batch}]
      /\ arrived' = [arrived EXCEPT ![h] = TRUE]
  BY DEF Arrives, ArrivesBroken, bounds
<1>2. ThreadOK' /\ AgendaOK' /\ WalkOK'
  BY <1>1 DEF link, walk, ThreadOK, AgendaOK, WalkOK, Levels
<1>3. WireOK'
  BY <1>1 DEF WireOK, link
<1>4. batch \subseteq Messages
  BY DEF WireOK
<1>5. TablesOK'
  <2>1. CASE Arrives(h, batch)
    <3>1. {m \in batch : GroupOf[m] \in Hosts[h]} \in SUBSET Messages
      BY <1>4
    <3> QED
      BY <1>1, <2>1, <3>1, StoreOK DEF Arrives
  <2>2. CASE ArrivesBroken(h, batch)
    <3>1. PICK some \in SUBSET batch : Store(h, {m \in some : GroupOf[m] \in Hosts[h]})
      BY <2>2 DEF ArrivesBroken
    <3>2. {m \in some : GroupOf[m] \in Hosts[h]} \in SUBSET Messages
      BY <1>4
    <3> QED
      BY <1>1, <3>1, <3>2, StoreOK
  <2> QED
    BY <2>1, <2>2
<1>6. PropsOK'
  BY <1>1, FaultCounts DEF Arrives, ArrivesBroken, PropsOK, bounds
<1> QED
  BY <1>2, <1>3, <1>5, <1>6

LEMMA HubOK ==
    ASSUME Shape, NEW h \in Hubs,
           (\E m \in Messages : Post(h, m)) \/ Prune(h) \/ LinkBreaks(h) \/ Restart(h)
    PROVE  Shape'
<1> USE Parts
<1>1. CASE \E m \in Messages : Post(h, m)
  <2>1. TablesOK'
    BY <1>1, StoreOK DEF Post
  <2> QED
    BY <1>1, <2>1 DEF Post, client, bounds, link, walk, wire, ThreadOK, AgendaOK, WalkOK,
                      Levels, WireOK, PropsOK
<1>2. CASE Prune(h)
  <2>1. TablesOK'
    BY <1>2 DEF Prune, TablesOK
  <2>2. offered' \in [Hubs -> SUBSET Messages]
    BY <1>2 DEF Prune, PropsOK
  <2> QED
    BY <1>2, <2>1, <2>2 DEF Prune, client, bounds, link, walk, wire, ThreadOK, AgendaOK,
                            WalkOK, Levels, WireOK, PropsOK
<1>3. CASE LinkBreaks(h)
  <2>1. ThreadOK' /\ AgendaOK' /\ WireOK'
    BY <1>3 DEF LinkBreaks, ThreadOK, AgendaOK, WireOK
  <2>2. TablesOK' /\ WalkOK'
    BY <1>3 DEF LinkBreaks, tables, walk, TablesOK, WalkOK, Levels
  <2>3. PropsOK'
    BY <1>3, FaultCounts DEF LinkBreaks, PropsOK
  <2> QED
    BY <2>1, <2>2, <2>3
<1>4. CASE Restart(h)
  <2>1. PICK cut \in SUBSET Hubs :
          /\ h \in cut
          /\ linked' = [k \in Hubs |-> k \notin cut /\ linked[k]]
          /\ air' = [k \in Hubs |-> IF k \in cut THEN {} ELSE air[k]]
          /\ failed' = [k \in Hubs |-> CASE k = h -> {}
                                         [] k \in cut \ {h} -> Groups
                                         [] OTHER -> failed[k]]
    BY <1>4 DEF Restart
  <2>2. TablesOK'
    BY <1>4 DEF Restart, tables, TablesOK
  <2>3. ThreadOK'
    <3>1. \A k \in Hubs : linked'[k] => k # h /\ linked[k]
      BY <2>1
    <3>2. linked' \in [Hubs -> BOOLEAN]
      BY <2>1
    <3> QED
      BY <1>4, <3>1, <3>2 DEF Restart, ThreadOK, Stages
  <2>4. AgendaOK'
    BY <1>4, SomeGroupIsOne DEF Restart, AgendaOK
  <2>5. Levels'
    BY <1>4 DEF Restart, ThreadOK, WalkOK, Levels
  <2>6. WalkOK'
    BY <1>4, <2>5, DepthAssumption DEF Restart, WalkOK
  <2>7. WireOK'
    <3>1. air' \in [Hubs -> SUBSET SUBSET Messages]
      BY <2>1 DEF WireOK
    <3>2. \A k \in Hubs : air'[k] # {} => linked'[k]
      BY <2>1 DEF WireOK
    <3> QED
      BY <1>4, <3>1, <3>2 DEF Restart, WireOK
  <2>8. failed' \in [Hubs -> SUBSET Groups]
    <3>1. \A k \in Hubs : failed'[k] \in {{}, Groups, failed[k]}
      BY <2>1
    <3>2. failed' = [k \in Hubs |-> failed'[k]]
      BY <2>1
    <3> QED
      BY <3>1, <3>2 DEF PropsOK
  <2>9. PropsOK'
    BY <1>4, <2>8, FaultCounts DEF Restart, PropsOK
  <2> QED
    BY <2>2, <2>3, <2>4, <2>6, <2>7, <2>9
<1> QED
  BY <1>1, <1>2, <1>3, <1>4

LEMMA ShapeStep ==
    ASSUME Shape, [Next]_vars
    PROVE  Shape'
<1>1. ASSUME NEW h \in Hubs, Round(h)
      PROVE  Shape'
  BY <1>1, BeginningOK, WalkingOK, FetchingOK DEF Round
<1>2. ASSUME NEW h \in Hubs,
             Delivery(h) \/ \E batch \in air[h] : ArrivesBroken(h, batch)
      PROVE  Shape'
  BY <1>2, ArrivalOK DEF Delivery
<1>3. CASE Tick \/ UNCHANGED vars
  <2>1. now' \in Nat /\ UNCHANGED <<tables, client, bounds, offered, failed>>
    BY <1>3, Parts DEF Tick, vars, TablesOK
  <2> QED
    BY <2>1, Parts DEF tables, client, bounds, link, walk, wire, TablesOK, ThreadOK, AgendaOK,
                       WalkOK, Levels, WireOK, PropsOK
<1> QED
  BY <1>1, <1>2, <1>3, BeginningOK, HubOK DEF Next

LEMMA ShapeInit == Init => Shape
<1> SUFFICES ASSUME Init PROVE Shape
  OBVIOUS
<1>1. TablesOK /\ PropsOK
  BY DEF Init, TablesOK, PropsOK
<1>2. ThreadOK /\ AgendaOK /\ WireOK
  BY SomeGroupIsOne DEF Init, ThreadOK, AgendaOK, WireOK, Stages
<1>3. WalkOK
  BY DepthAssumption DEF Init, WalkOK, Levels
<1> QED
  BY <1>1, <1>2, <1>3, Parts

LEMMA AlwaysShape == Spec => []Shape
BY ShapeInit, ShapeStep, PTL DEF Spec

(* Type correctness, for any hubs, groups and messages.                    *)
THEOREM TypeCorrect == Spec => []TypeOK
<1>1. Shape => TypeOK
  BY DEF Shape
<1> QED
  BY AlwaysShape, <1>1, PTL
----------------------------------------------------------------------------
(* What holds of hub h during a round. *)

HostsWhatItStores(h) == \A m \in store[h] : GroupOf[m] \in Hosts[h]

(* The peer is one of its own, and what is on its way was stored there. *)
Peered(h) ==
    /\ pc[h] # "idle" => peer[h] \in Peers[h]
    /\ \A batch \in air[h] : batch \subseteq ever[peer[h]]

(* Nothing is offered or on its way until the roots have been read. *)
Quiet(h) ==
    /\ pc[h] \in {"idle", "roots"} => offered[h] = {} /\ air[h] = {}
    /\ offered[h] \subseteq store[peer[h]]

(* As long as nothing has failed, the one resource there may be is the one *)
(* that this hub waits for.                                                *)
OneResource(h) ==
    failed[h] # Groups =>
        /\ air[h] # {} => pc[h] = "wait" /\ ~arrived[h]
        /\ \A batch, other \in air[h] : batch = other

Due(h) ==
    {m \in offered[h] : GroupOf[m] \in Hosts[h] \ failed[h] /\ Epoch(m) >= Oldest}

OnAgenda(h, m) ==
    \E item \in agenda[h] :
        item.group = GroupOf[m] /\ item.epoch = Epoch(m) /\ m \in item.root

InHand(h, m) ==
    /\ GroupOf[m] = group[h]
    /\ Epoch(m) = epoch[h]
    /\ \/ pc[h] = "walk" /\ Prefix[m][level[h]] \in nodes[h] /\ m \notin local[h]
       \/ pc[h] = "buckets" /\ Prefix[m][Depth] \in nodes[h] /\ m \notin local[h]
       \/ pc[h] \in {"buckets", "fetch", "wait"} /\ m \in missing[h]
       \/ pc[h] = "wait" /\ \E batch \in air[h] : m \in batch

InSight(h) == \A m \in Due(h) : m \in store[h] \/ OnAgenda(h, m) \/ InHand(h, m)

RoundOK(h) ==
    /\ HostsWhatItStores(h) /\ Peered(h) /\ Quiet(h) /\ OneResource(h) /\ InSight(h)

RoundsOK == \A h \in Hubs : RoundOK(h)

(* The steps of others leave what hub h does alone: they may add to what   *)
(* it and its peer store, and fail.                                        *)
Undisturbed(h) ==
    /\ pc'[h] = pc[h] /\ peer'[h] = peer[h] /\ agenda'[h] = agenda[h]
    /\ group'[h] = group[h] /\ epoch'[h] = epoch[h] /\ local'[h] = local[h]
    /\ level'[h] = level[h] /\ nodes'[h] = nodes[h] /\ missing'[h] = missing[h]
    /\ arrived'[h] = arrived[h] /\ air'[h] = air[h]
    /\ offered'[h] = offered[h] /\ failed'[h] = failed[h]

Grows(h) ==
    /\ store[h] \subseteq store'[h] /\ ever[h] \subseteq ever'[h]
    /\ \A m \in store'[h] \ store[h] : GroupOf[m] \in Hosts[h]

LEMMA OldestGrows == ASSUME now \in Nat, now' \in {now, now + 1} PROVE Oldest' >= Oldest
<1>1. \A n \in Nat : n \div EpochLength \in Int /\ (n + 1) \div EpochLength >= n \div EpochLength
  BY SizesAssumption
<1>2. Oldest \in Int /\ now' \div EpochLength \in Int
  BY <1>1, SizesAssumption DEF Oldest
<1>3. now' \div EpochLength >= now \div EpochLength
  BY <1>1
<1> QED
  BY <1>1, <1>2, <1>3, SizesAssumption DEF Oldest

LEMMA WindowMoves ==
    ASSUME now \in Nat, now' \in {now, now + 1}, NEW m \in Messages, (Epoch(m) >= Oldest)'
    PROVE  Epoch(m) >= Oldest
<1>1. Oldest \in Int /\ Oldest' \in Int
  <2>1. \A n \in Nat : n \div EpochLength \in Int
    BY SizesAssumption
  <2> QED
    BY <2>1, SizesAssumption DEF Oldest
<1>2. Epoch(m)' = Epoch(m)
  BY DEF Epoch
<1> QED
  BY <1>1, <1>2, OldestGrows, EpochIsOne

LEMMA UndisturbedOK ==
    ASSUME Shape, NEW h \in Hubs, RoundOK(h), Undisturbed(h),
           Grows(h), Grows(peer[h]), now' \in {now, now + 1}
    PROVE  RoundOK(h)'
<1>1. HostsWhatItStores(h)'
  BY DEF RoundOK, HostsWhatItStores, Grows
<1>2. Peered(h)' /\ Quiet(h)' /\ OneResource(h)'
  BY DEF RoundOK, Peered, Quiet, OneResource, Undisturbed, Grows
<1>3. InSight(h)'
  <2> SUFFICES ASSUME NEW m \in Due(h)'
               PROVE  m \in store'[h] \/ OnAgenda(h, m)' \/ InHand(h, m)'
    BY DEF InSight
  <2>1. m \in Messages /\ now \in Nat
    BY Parts DEF Due, Undisturbed, PropsOK, TablesOK
  <2>2. m \in Due(h)
    BY <2>1, WindowMoves DEF Due, Undisturbed
  <2>3. CASE m \in store[h]
    BY <2>3 DEF Grows
  <2>4. CASE OnAgenda(h, m)
    BY <2>4 DEF OnAgenda, Undisturbed, Epoch
  <2>5. CASE InHand(h, m)
    BY <2>5 DEF InHand, Undisturbed, Epoch
  <2> QED
    BY <2>2, <2>3, <2>4, <2>5 DEF RoundOK, InSight
<1> QED
  BY <1>1, <1>2, <1>3 DEF RoundOK

(* Once something has failed for all groups, nothing is due. *)
LEMMA NothingDue ==
    ASSUME Shape, NEW h \in Hubs
    PROVE  /\ failed[h] = Groups \/ offered[h] = {} => Due(h) = {}
           /\ Shape' /\ (failed'[h] = Groups \/ offered'[h] = {}) => Due(h)' = {}
BY Parts, HubsAssumption DEF Due, PropsOK
----------------------------------------------------------------------------
(* A round of hub h begins and ends. *)

LEMMA BeginningInSight ==
    ASSUME Shape, RoundsOK, NEW h \in Hubs,
           (\E p \in Hubs : Connect(h, p)) \/ AskRoots(h) \/ NoRoots(h) \/ EndRound(h)
    PROVE  RoundOK(h)'
<1> USE Parts
<1>1. RoundOK(h) /\ UNCHANGED <<now, tables>> /\ Shape'
  BY BeginningOK DEF RoundsOK, Connect, AskRoots, NoRoots, EndRound
<1>2. HostsWhatItStores(h)'
  BY <1>1 DEF RoundOK, HostsWhatItStores, tables
<1>3. ASSUME offered'[h] = {}, air'[h] = {}, pc'[h] # "idle" => peer'[h] \in Peers[h]
      PROVE  RoundOK(h)'
  <2>1. Peered(h)' /\ Quiet(h)' /\ OneResource(h)'
    BY <1>3 DEF Peered, Quiet, OneResource
  <2>2. InSight(h)'
    BY <1>1, <1>3, NothingDue DEF InSight
  <2> QED
    BY <1>2, <2>1, <2>2 DEF RoundOK
<1>4. ASSUME NEW p \in Hubs, Connect(h, p)
      PROVE  RoundOK(h)'
  BY <1>1, <1>3, <1>4 DEF Connect, RoundOK, Quiet, ThreadOK, wire
<1>5. CASE AskRoots(h)
  <2>1. /\ pc[h] = "roots" /\ peer[h] \in Hubs
        /\ pc' = [pc EXCEPT ![h] = "groups"]
        /\ agenda' = [agenda EXCEPT ![h] =
                         UNION {EpochRoots(peer[h], g) : g \in Hosts[h] \cap Hosts[peer[h]]}]
        /\ offered' = [offered EXCEPT ![h] = store[peer[h]]]
        /\ failed' = [failed EXCEPT ![h] = {}]
        /\ UNCHANGED <<peer, air, arrived>>
    BY <1>5 DEF AskRoots, link, wire, ThreadOK
  <2>2. Peered(h)' /\ OneResource(h)'
    BY <1>1, <2>1 DEF RoundOK, Peered, Quiet, OneResource, ThreadOK, tables
  <2>3. Quiet(h)'
    BY <1>1, <2>1 DEF Quiet, ThreadOK, PropsOK, tables
  <2>4. InSight(h)'
    <3> SUFFICES ASSUME NEW m \in Due(h)' PROVE OnAgenda(h, m)'
      BY DEF InSight
    <3>1. m \in store[peer[h]] /\ GroupOf[m] \in Hosts[h] /\ Epoch(m) >= Oldest
      BY <1>1, <2>1 DEF Due, PropsOK, Oldest, Epoch
    <3>2. m \in Messages /\ GroupOf[m] \in Hosts[h] \cap Hosts[peer[h]]
      BY <2>1, <3>1 DEF RoundsOK, RoundOK, HostsWhatItStores, TablesOK
    <3> DEFINE item == [group |-> GroupOf[m], epoch |-> Epoch(m),
                        root |-> InEpoch(store[peer[h]], GroupOf[m], Epoch(m))]
    <3>3. item \in EpochRoots(peer[h], GroupOf[m])
      BY <3>1 DEF EpochRoots
    <3>4. item \in agenda'[h]
      BY <2>1, <3>2, <3>3 DEF AgendaOK
    <3>5. m \in item.root
      BY <3>1 DEF InEpoch
    <3>6. Epoch(m)' = Epoch(m)
      BY DEF Epoch
    <3> QED
      BY <3>4, <3>5, <3>6 DEF OnAgenda
  <2> QED
    BY <1>2, <2>2, <2>3, <2>4 DEF RoundOK
<1>6. CASE NoRoots(h) \/ EndRound(h)
  <2>1. Idle(h)
    BY <1>6 DEF NoRoots, EndRound
  <2> QED
    BY <1>3, <2>1 DEF Idle, ThreadOK, WireOK, PropsOK
<1> QED
  BY <1>4, <1>5, <1>6

LEMMA BeginningOthers ==
    ASSUME Shape, NEW h \in Hubs,
           (\E p \in Hubs : Connect(h, p)) \/ AskRoots(h) \/ NoRoots(h) \/ EndRound(h)
    PROVE  /\ \A k \in Hubs \ {h} : Undisturbed(k)
           /\ UNCHANGED <<now, tables>>
<1> USE Parts DEF Undisturbed, ThreadOK, AgendaOK, WalkOK, WireOK, PropsOK, link, walk, wire
<1>1. CASE \E p \in Hubs : Connect(h, p)
  BY <1>1 DEF Connect
<1>2. CASE AskRoots(h)
  BY <1>2 DEF AskRoots
<1>3. CASE NoRoots(h) \/ EndRound(h)
  BY <1>3 DEF NoRoots, EndRound, Idle
<1> QED
  BY <1>1, <1>2, <1>3
----------------------------------------------------------------------------
(* A walk. *)

LEMMA WalkingOthers ==
    ASSUME Shape, NEW h \in Hubs,
           \/ (\E g \in Groups : EnterGroup(h, g)) \/ LeaveGroup(h) \/ OpenEpoch(h)
           \/ AskNodes(h) \/ AskBuckets(h) \/ GroupFails(h)
    PROVE  /\ \A k \in Hubs \ {h} : Undisturbed(k)
           /\ UNCHANGED <<now, tables, peer, wire, offered>>
<1> USE Parts DEF Undisturbed, ThreadOK, AgendaOK, WalkOK, WireOK, PropsOK, link, walk, wire
<1>1. CASE (\E g \in Groups : EnterGroup(h, g)) \/ LeaveGroup(h)
  BY <1>1 DEF EnterGroup, LeaveGroup
<1>2. CASE OpenEpoch(h)
  BY <1>2 DEF OpenEpoch
<1>3. CASE AskNodes(h)
  BY <1>3 DEF AskNodes, CloseEpoch
<1>4. CASE AskBuckets(h)
  BY <1>4 DEF AskBuckets, CloseEpoch
<1>5. CASE GroupFails(h)
  BY <1>5 DEF GroupFails
<1> QED
  BY <1>1, <1>2, <1>3, <1>4, <1>5

(* What a walk changes is of no matter to the wire and the store. *)
LEMMA WalkingKeeps ==
    ASSUME Shape, Shape', NEW h \in Hubs, RoundOK(h),
           UNCHANGED <<now, tables, peer, wire, offered>>, failed[h] \subseteq failed'[h],
           pc[h] \notin {"idle", "roots", "wait"}, pc'[h] \notin {"idle", "roots"}
    PROVE  /\ HostsWhatItStores(h)' /\ Peered(h)' /\ Quiet(h)' /\ OneResource(h)'
           /\ Due(h)' \subseteq Due(h)
<1>1. HostsWhatItStores(h)' /\ Peered(h)' /\ Quiet(h)'
  BY DEF RoundOK, HostsWhatItStores, Peered, Quiet, tables, wire
<1>2. failed[h] = Groups => failed'[h] = Groups
  BY Parts DEF PropsOK
<1>3. OneResource(h)'
  BY <1>2 DEF RoundOK, OneResource, wire
<1>4. Due(h)' \subseteq Due(h)
  BY DEF Due, Epoch, Oldest
<1> QED
  BY <1>1, <1>3, <1>4

(* The nodes of one request are all there are: none is left out.           *)
LEMMA CandidatesAreAll ==
    ASSUME NEW m \in Messages, NEW k \in 0 .. Depth - 1, NEW N \in SUBSET Nat,
           Prefix[m][k] \in N
    PROVE  Prefix[m][k + 1] \in Candidates(N)
<1> DEFINE i == Prefix[m][k + 1]
           before == {j \in ChildrenOf(N) : j < i}
<1>0. k \in 0 .. Depth /\ k + 1 \in 0 .. Depth
  BY DepthAssumption
<1>1. i \in Nat /\ i < MaxNodes /\ i \in ChildrenOf(N)
  <2>1. Prefix[m] \in [0 .. Depth -> Nat]
    BY PrefixAssumption
  <2>2. i \in Nat /\ i < MaxNodes
    BY <1>0, <2>1, PrefixAssumption
  <2>3. i \in {2 * Prefix[m][k], 2 * Prefix[m][k] + 1}
    BY PrefixAssumption
  <2> QED
    BY <2>2, <2>3 DEF ChildrenOf
<1>2. before \subseteq 0 .. (i - 1)
  BY <1>1, ChildrenAreNumbers
<1>3. IsFiniteSet(0 .. (i - 1)) /\ Cardinality(0 .. (i - 1)) = i
  <2> DEFINE last == i - 1
  <2>1. last \in Int /\ 0 \in Int /\ (IF 0 > last THEN 0 ELSE last - 0 + 1) = i
    BY <1>1
  <2> HIDE DEF last
  <2>2. /\ IsFiniteSet(0 .. last)
        /\ Cardinality(0 .. last) = IF 0 > last THEN 0 ELSE last - 0 + 1
    BY <2>1, FS_Interval
  <2>3. IsFiniteSet(0 .. last) /\ Cardinality(0 .. last) = i
    BY <2>1, <2>2
  <2> QED
    BY <2>3 DEF last
<1>4. Cardinality(before) \in Nat /\ Cardinality(before) <= i
  BY <1>2, <1>3, FS_Subset, FS_CardinalityType
<1>5. Cardinality(before) < MaxNodes
  BY <1>1, <1>4, DepthAssumption
<1> HIDE DEF before
<1> QED
  BY <1>1, <1>5 DEF Candidates, Lowest, before

(* A message that is due and was in hand at node Prefix[m][k] shows in the *)
(* peer's answer about the children, whatever else has changed there.      *)
LEMMA DueDiffers ==
    ASSUME Shape, NEW h \in Hubs, Quiet(h), NEW m \in Due(h),
           GroupOf[m] = group[h], Epoch(m) = epoch[h], m \notin local[h],
           NEW k \in 0 .. Depth - 1, Prefix[m][k] \in nodes[h]
    PROVE  /\ m \in Messages /\ m \in Remote(h)
           /\ Prefix[m][k + 1]
                 \in Diverging(local[h], Remote(h), k + 1, Candidates(nodes[h]))
<1>1. m \in Messages /\ m \in store[peer[h]] /\ nodes[h] \in SUBSET Nat
  BY Parts DEF Due, Quiet, PropsOK, WalkOK
<1>2. m \in Remote(h)
  BY <1>1 DEF Remote, InEpoch
<1>3. m \in Below(Remote(h), k + 1, Prefix[m][k + 1]) /\ m \notin Below(local[h], k + 1, Prefix[m][k + 1])
  BY <1>2 DEF Below
<1>4. Prefix[m][k + 1] \in Candidates(nodes[h])
  BY <1>1, CandidatesAreAll
<1> QED
  BY <1>1, <1>2, <1>3, <1>4 DEF Diverging

LEMMA WalkingInSight ==
    ASSUME Shape, NEW h \in Hubs, RoundOK(h),
           \/ (\E g \in Groups : EnterGroup(h, g)) \/ LeaveGroup(h) \/ OpenEpoch(h)
           \/ AskNodes(h) \/ AskBuckets(h) \/ GroupFails(h)
    PROVE  RoundOK(h)'
<1> USE Parts
<1>1. Shape' /\ UNCHANGED <<now, tables, peer, wire, offered>>
  BY WalkingOK, WalkingOthers
<1>2. /\ pc[h] \in {"groups", "epochs", "walk", "buckets"}
      /\ pc'[h] \in {"groups", "epochs", "walk", "buckets", "fetch"}
      /\ failed[h] \subseteq failed'[h]
  BY DEF EnterGroup, LeaveGroup, OpenEpoch, AskNodes, AskBuckets, CloseEpoch, GroupFails, walk,
         ThreadOK, PropsOK
<1>3. /\ HostsWhatItStores(h)' /\ Peered(h)' /\ Quiet(h)' /\ OneResource(h)'
      /\ Due(h)' \subseteq Due(h)
  BY <1>1, <1>2, WalkingKeeps
<1>4. SUFFICES ASSUME NEW m \in Due(h)', m \notin store[h]
               PROVE  m \in store'[h] \/ OnAgenda(h, m)' \/ InHand(h, m)'
  BY <1>1, <1>3 DEF RoundOK, InSight, tables
<1>5. /\ m \in Due(h) /\ m \in Messages /\ m \in store[peer[h]] /\ Quiet(h)
      /\ OnAgenda(h, m) \/ InHand(h, m)
      /\ Epoch(m)' = Epoch(m) /\ Epoch(m) >= Oldest
      /\ GroupOf[m] \notin failed'[h]
  BY <1>1, <1>3, <1>4 DEF RoundOK, InSight, Quiet, Due, PropsOK, Epoch, Oldest
<1>6. ASSUME OnAgenda(h, m), agenda'[h] = agenda[h]
      PROVE  OnAgenda(h, m)'
  BY <1>5, <1>6 DEF OnAgenda
<1>7. CASE (\E g \in Groups : EnterGroup(h, g)) \/ LeaveGroup(h)
  <2>1. pc[h] \in {"groups", "epochs"}
    BY <1>7 DEF EnterGroup, LeaveGroup
  <2>2. OnAgenda(h, m)
    BY <1>5, <2>1 DEF InHand
  <2>3. ASSUME NEW g \in Groups, EnterGroup(h, g)
        PROVE  OnAgenda(h, m)'
    <3>1. agenda'[h] = {item \in agenda[h] : item.group = g => item.epoch >= Oldest}
      BY <2>3 DEF EnterGroup, AgendaOK
    <3> QED
      BY <1>5, <2>2, <3>1 DEF OnAgenda
  <2> QED
    BY <1>6, <1>7, <2>2, <2>3 DEF LeaveGroup
<1>8. CASE OpenEpoch(h)
  <2> DEFINE mine(item) == InEpoch(store[h], group[h], item.epoch)
  <2>1. PICK item \in Todo(h) :
          /\ agenda' = [agenda EXCEPT ![h] = @ \ {item}]
          /\ \/ mine(item) = item.root
             \/ /\ pc' = [pc EXCEPT ![h] = "walk"]
                /\ epoch' = [epoch EXCEPT ![h] = item.epoch]
                /\ local' = [local EXCEPT ![h] = mine(item)]
                /\ nodes' = [nodes EXCEPT ![h] = {0}]
                /\ UNCHANGED <<level, missing>>
    BY <1>8 DEF OpenEpoch
  <2>2. pc[h] = "epochs" /\ level[h] = 0 /\ group' = group
    BY <1>8 DEF OpenEpoch, WalkOK, Levels
  <2>3. PICK other \in agenda[h] :
          other.group = GroupOf[m] /\ other.epoch = Epoch(m) /\ m \in other.root
    BY <1>5, <2>2 DEF InHand, OnAgenda
  <2>4. agenda'[h] = agenda[h] \ {item}
    BY <2>1 DEF AgendaOK
  <2>5. CASE other # item
    BY <1>5, <2>3, <2>4, <2>5 DEF OnAgenda
  <2>6. CASE other = item
    <3>1. item.group = group[h] /\ m \notin mine(item)
      BY <1>4 DEF Todo, InEpoch
    <3>2. /\ pc'[h] = "walk" /\ epoch'[h] = item.epoch /\ local'[h] = mine(item)
          /\ nodes'[h] = {0} /\ level'[h] = 0
      BY <2>1, <2>2, <2>3, <2>6, <3>1 DEF ThreadOK, WalkOK
    <3>3. Prefix[m][0] = 0
      BY <1>5, PrefixAssumption
    <3> QED
      BY <1>5, <2>2, <2>3, <2>6, <3>1, <3>2, <3>3 DEF InHand
  <2> QED
    BY <2>5, <2>6
<1>9. CASE AskNodes(h)
  <2> DEFINE differ == Diverging(local[h], Remote(h), level[h] + 1, Candidates(nodes[h]))
  <2>1. pc[h] = "walk" /\ UNCHANGED <<agenda, group>> /\ level[h] \in 0 .. Depth - 1
    BY <1>9, DepthAssumption DEF AskNodes, WalkOK, Levels
  <2>2. CASE OnAgenda(h, m)
    BY <1>6, <2>1, <2>2
  <2>3. CASE InHand(h, m)
    <3>1. /\ GroupOf[m] = group[h] /\ Epoch(m) = epoch[h]
          /\ Prefix[m][level[h]] \in nodes[h] /\ m \notin local[h]
      BY <2>1, <2>3 DEF InHand
    <3>2. Prefix[m][level[h] + 1] \in differ
      BY <1>5, <2>1, <3>1, DueDiffers
    <3>3. /\ level' = [level EXCEPT ![h] = level[h] + 1]
          /\ nodes' = [nodes EXCEPT ![h] = differ]
          /\ pc' = [pc EXCEPT ![h] = IF level[h] + 1 = Depth THEN "buckets" ELSE "walk"]
          /\ UNCHANGED <<epoch, local, missing>>
      BY <1>9, <3>2 DEF AskNodes
    <3> HIDE DEF differ
    <3>4. /\ level'[h] = level[h] + 1 /\ nodes'[h] = differ
          /\ pc'[h] = IF level[h] + 1 = Depth THEN "buckets" ELSE "walk"
      BY <3>3 DEF ThreadOK, WalkOK
    <3> QED
      BY <1>5, <2>1, <3>1, <3>2, <3>3, <3>4 DEF InHand
  <2> QED
    BY <1>5, <2>2, <2>3
<1>10. CASE AskBuckets(h)
  <2> DEFINE chunk == Lowest(MaxBuckets, nodes[h])
             found == {n \in Remote(h) : Prefix[n][Depth] \in chunk}
             all == missing[h] \cup (found \ local[h])
  <2>1. pc[h] = "buckets" /\ UNCHANGED <<agenda, group>>
    BY <1>10 DEF AskBuckets
  <2>2. CASE OnAgenda(h, m)
    BY <1>6, <2>1, <2>2
  <2>3. CASE InHand(h, m)
    <3>1. /\ GroupOf[m] = group[h] /\ Epoch(m) = epoch[h]
          /\ \/ Prefix[m][Depth] \in nodes[h] /\ m \notin local[h]
             \/ m \in missing[h]
      BY <2>1, <2>3 DEF InHand
    <3>2. m \in Remote(h)
      BY <1>5, <3>1 DEF Remote, InEpoch
    <3>3. \/ m \in all
          \/ Prefix[m][Depth] \in nodes[h] \ chunk /\ m \notin local[h]
      BY <3>1, <3>2
    <3>4. /\ nodes' = [nodes EXCEPT ![h] = nodes[h] \ chunk]
          /\ missing' = [missing EXCEPT ![h] = all]
          /\ pc' = [pc EXCEPT ![h] = IF nodes[h] \subseteq chunk THEN "fetch" ELSE "buckets"]
          /\ UNCHANGED <<epoch, local, level>>
      BY <1>10, <3>3 DEF AskBuckets
    <3> HIDE DEF chunk, all
    <3>5. /\ nodes'[h] = nodes[h] \ chunk /\ missing'[h] = all
          /\ pc'[h] = IF nodes[h] \subseteq chunk THEN "fetch" ELSE "buckets"
      BY <3>4 DEF ThreadOK, WalkOK
    <3>6. CASE m \in all
      BY <1>5, <2>1, <3>1, <3>4, <3>5, <3>6 DEF InHand
    <3>7. CASE Prefix[m][Depth] \in nodes[h] \ chunk /\ m \notin local[h]
      BY <1>5, <2>1, <3>1, <3>4, <3>5, <3>7 DEF InHand
    <3> QED
      BY <3>3, <3>6, <3>7
  <2> QED
    BY <1>5, <2>2, <2>3
<1>11. CASE GroupFails(h)
  <2>1. failed'[h] = failed[h] \cup {group[h]} /\ agenda'[h] = agenda[h] \ Todo(h)
    BY <1>11 DEF GroupFails, PropsOK, AgendaOK
  <2>2. OnAgenda(h, m)
    BY <1>5, <2>1 DEF InHand
  <2> QED
    BY <1>5, <2>1, <2>2 DEF OnAgenda, Todo
<1> QED
  BY <1>7, <1>8, <1>9, <1>10, <1>11
----------------------------------------------------------------------------
(* Fetching. *)

LEMMA FetchingOthers ==
    ASSUME Shape, NEW h \in Hubs,
           AskFetch(h) \/ Continue(h) \/ WaitTimesOut(h) \/ FetchFails(h)
    PROVE  /\ \A k \in Hubs \ {h} : Undisturbed(k)
           /\ UNCHANGED <<now, tables, peer, offered>>
<1> USE Parts DEF Undisturbed, ThreadOK, AgendaOK, WalkOK, WireOK, PropsOK, link, walk, wire
<1>1. CASE AskFetch(h)
  BY <1>1 DEF AskFetch, CloseEpoch
<1>2. CASE Continue(h)
  BY <1>2 DEF Continue, CloseEpoch
<1>3. CASE WaitTimesOut(h)
  BY <1>3 DEF WaitTimesOut, CloseEpoch
<1>4. CASE FetchFails(h)
  BY <1>4 DEF FetchFails
<1> QED
  BY <1>1, <1>2, <1>3, <1>4

LEMMA FetchingInSight ==
    ASSUME Shape, NEW h \in Hubs, RoundOK(h),
           AskFetch(h) \/ Continue(h) \/ WaitTimesOut(h) \/ FetchFails(h)
    PROVE  RoundOK(h)'
<1> USE Parts
<1>1. Shape' /\ UNCHANGED <<now, tables, peer, offered>>
  BY FetchingOK, FetchingOthers
<1>2. /\ pc[h] \in {"fetch", "wait"} /\ pc'[h] \in {"groups", "epochs", "fetch", "wait"}
      /\ peer[h] \in Hubs
  BY DEF AskFetch, Continue, WaitTimesOut, FetchFails, CloseEpoch, walk, ThreadOK
<1>3. HostsWhatItStores(h)' /\ Quiet(h)'
  BY <1>1, <1>2 DEF RoundOK, HostsWhatItStores, Quiet, tables
<1>4. Peered(h)'
  <2>1. peer[h] \in Peers[h] /\ \A batch \in air[h] : batch \subseteq ever[peer[h]]
    BY <1>2 DEF RoundOK, Peered
  <2>2. \A batch \in air'[h] \ air[h] : batch \subseteq store[peer[h]]
    BY DEF AskFetch, Continue, WaitTimesOut, FetchFails, wire, WireOK
  <2> QED
    BY <1>1, <1>2, <2>1, <2>2 DEF Peered, TablesOK, tables
<1>5. CASE WaitTimesOut(h) \/ FetchFails(h)
  <2>1. failed'[h] = Groups
    BY <1>5 DEF WaitTimesOut, FetchFails, PropsOK
  <2> QED
    BY <1>1, <1>3, <1>4, <2>1, NothingDue DEF RoundOK, OneResource, InSight
<1>6. ASSUME UNCHANGED failed,
             ASSUME NEW m \in Due(h), m \notin store[h], OnAgenda(h, m) \/ InHand(h, m)
             PROVE  OnAgenda(h, m)' \/ InHand(h, m)'
      PROVE  InSight(h)'
  <2>1. Due(h)' = Due(h)
    BY <1>1, <1>6 DEF Due, Epoch, Oldest
  <2> QED
    BY <1>1, <1>6, <2>1 DEF RoundOK, InSight, tables
<1>7. ASSUME NEW m, OnAgenda(h, m), UNCHANGED agenda
      PROVE  OnAgenda(h, m)'
  BY <1>7 DEF OnAgenda, Epoch
<1>8. CASE AskFetch(h)
  <2>1. /\ pc[h] = "fetch" /\ arrived'[h] = FALSE
        /\ UNCHANGED <<agenda, group, failed>>
    BY <1>8 DEF AskFetch, WireOK
  <2>2. PICK batch \in SUBSET missing[h] :
          \/ /\ batch \cap store[peer[h]] = {}
             /\ \/ batch = missing[h] /\ CloseEpoch(h)
                \/ /\ missing' = [missing EXCEPT ![h] = @ \ batch]
                   /\ UNCHANGED <<pc, epoch>>
             /\ UNCHANGED air
          \/ /\ air' = [air EXCEPT ![h] = @ \cup {batch \cap store[peer[h]]}]
             /\ missing' = [missing EXCEPT ![h] = @ \ batch]
             /\ pc' = [pc EXCEPT ![h] = "wait"]
             /\ UNCHANGED epoch
    BY <1>8 DEF AskFetch
  <2>3. failed[h] # Groups => air[h] = {}
    BY <2>1 DEF RoundOK, OneResource
  <2>4. OneResource(h)'
    <3>1. CASE UNCHANGED air
      BY <2>1, <2>3, <3>1 DEF OneResource
    <3>2. CASE /\ air' = [air EXCEPT ![h] = @ \cup {batch \cap store[peer[h]]}]
               /\ pc' = [pc EXCEPT ![h] = "wait"]
      BY <2>1, <2>3, <3>2 DEF OneResource, WireOK, ThreadOK
    <3> QED
      BY <2>2, <3>1, <3>2
  <2>5. ASSUME NEW m \in Due(h), m \notin store[h], OnAgenda(h, m) \/ InHand(h, m)
        PROVE  OnAgenda(h, m)' \/ InHand(h, m)'
    <3>1. CASE OnAgenda(h, m)
      BY <1>7, <2>1, <3>1
    <3>2. CASE InHand(h, m)
      <4>1. GroupOf[m] = group[h] /\ Epoch(m) = epoch[h] /\ m \in missing[h]
        BY <2>1, <3>2 DEF InHand
      <4>2. m \in store[peer[h]] /\ Epoch(m)' = Epoch(m)
        BY DEF RoundOK, Quiet, Due, Epoch
      <4>3. CASE /\ missing' = [missing EXCEPT ![h] = @ \ batch]
                 /\ UNCHANGED <<pc, epoch>>
                 /\ batch \cap store[peer[h]] = {}
        <5>1. m \in missing'[h]
          BY <4>1, <4>2, <4>3 DEF WalkOK
        <5> QED
          BY <2>1, <4>1, <4>2, <4>3, <5>1 DEF InHand
      <4>4. CASE /\ air' = [air EXCEPT ![h] = @ \cup {batch \cap store[peer[h]]}]
                 /\ missing' = [missing EXCEPT ![h] = @ \ batch]
                 /\ pc' = [pc EXCEPT ![h] = "wait"]
                 /\ UNCHANGED epoch
        <5>1. /\ pc'[h] = "wait" /\ missing'[h] = missing[h] \ batch
              /\ batch \cap store[peer[h]] \in air'[h]
          BY <4>4 DEF WalkOK, ThreadOK, WireOK
        <5>2. m \in missing'[h] \/ m \in batch \cap store[peer[h]]
          BY <4>1, <4>2, <5>1
        <5> QED
          BY <2>1, <4>1, <4>2, <4>4, <5>1, <5>2 DEF InHand
      <4> QED
        BY <2>2, <4>1, <4>2, <4>3, <4>4
    <3> QED
      BY <2>5, <3>1, <3>2
  <2> QED
    BY <1>3, <1>4, <1>6, <2>1, <2>4, <2>5 DEF RoundOK
<1>9. CASE Continue(h)
  <2>1. /\ pc[h] = "wait" /\ arrived[h]
        /\ UNCHANGED <<agenda, group, failed, air, arrived>>
    BY <1>9 DEF Continue, wire
  <2>2. failed[h] # Groups => air[h] = {}
    BY <2>1 DEF RoundOK, OneResource
  <2>3. OneResource(h)'
    BY <2>1, <2>2 DEF OneResource
  <2>4. ASSUME NEW m \in Due(h), m \notin store[h], OnAgenda(h, m) \/ InHand(h, m)
        PROVE  OnAgenda(h, m)' \/ InHand(h, m)'
    <3>1. CASE OnAgenda(h, m)
      BY <1>7, <2>1, <3>1
    <3>2. CASE InHand(h, m)
      <4>1. air[h] = {}
        BY <2>2, NothingDue
      <4>2. GroupOf[m] = group[h] /\ Epoch(m) = epoch[h] /\ m \in missing[h]
        BY <2>1, <3>2, <4>1 DEF InHand
      <4>3. pc' = [pc EXCEPT ![h] = "fetch"] /\ UNCHANGED walk
        BY <1>9, <4>2 DEF Continue
      <4> QED
        BY <2>1, <4>2, <4>3 DEF InHand, walk, ThreadOK, Epoch
    <3> QED
      BY <2>4, <3>1, <3>2
  <2> QED
    BY <1>3, <1>4, <1>6, <2>1, <2>3, <2>4 DEF RoundOK
<1> QED
  BY <1>5, <1>8, <1>9

(* Resources arrive. *)

LEMMA ArrivalOthers ==
    ASSUME Shape, NEW h \in Hubs, HostsWhatItStores(h), NEW batch \in air[h],
           Arrives(h, batch) \/ ArrivesBroken(h, batch)
    PROVE  /\ \A k \in Hubs \ {h} : Undisturbed(k)
           /\ \A k \in Hubs : Grows(k)
           /\ now' = now
<1> USE Parts
<1>1. \A k \in Hubs \ {h} : Undisturbed(k)
  BY DEF Arrives, ArrivesBroken, Undisturbed, ThreadOK, AgendaOK, WalkOK, WireOK, PropsOK, link,
         walk
<1>2. PICK S : Store(h, S) /\ \A m \in S : GroupOf[m] \in Hosts[h]
  <2>1. CASE Arrives(h, batch)
    <3>1. \A m \in {n \in batch : GroupOf[n] \in Hosts[h]} : GroupOf[m] \in Hosts[h]
      OBVIOUS
    <3> QED
      BY <2>1, <3>1 DEF Arrives
  <2>2. CASE ArrivesBroken(h, batch)
    <3>1. PICK some \in SUBSET batch : Store(h, {m \in some : GroupOf[m] \in Hosts[h]})
      BY <2>2 DEF ArrivesBroken
    <3>2. \A m \in {n \in some : GroupOf[n] \in Hosts[h]} : GroupOf[m] \in Hosts[h]
      OBVIOUS
    <3> QED
      BY <3>1, <3>2
  <2> QED
    BY <2>1, <2>2
<1>3. \A k \in Hubs : Grows(k)
  BY <1>2 DEF Store, Grows, TablesOK
<1> QED
  BY <1>1, <1>3 DEF Arrives, ArrivesBroken

LEMMA ArrivalInSight ==
    ASSUME Shape, NEW h \in Hubs, RoundOK(h), NEW batch \in air[h],
           Arrives(h, batch) \/ ArrivesBroken(h, batch)
    PROVE  RoundOK(h)'
<1> USE Parts
<1>1. /\ Shape'
      /\ UNCHANGED <<now, pc, link, agenda, group, walk, offered>>
      /\ air'[h] = air[h] \ {batch} /\ arrived'[h] = TRUE
      /\ \A k \in Hubs : Grows(k)
  BY ArrivalOK, ArrivalOthers DEF RoundOK, Arrives, ArrivesBroken, WireOK
<1>2. HostsWhatItStores(h)'
  BY <1>1 DEF RoundOK, HostsWhatItStores, Grows
<1>3. Peered(h)' /\ Quiet(h)'
  <2>1. peer[h] \in Hubs /\ UNCHANGED peer
    BY <1>1 DEF ThreadOK, link
  <2> QED
    BY <1>1, <2>1 DEF RoundOK, Peered, Quiet, Grows
<1>4. CASE Arrives(h, batch)
  <2>1. UNCHANGED failed /\ Store(h, {m \in batch : GroupOf[m] \in Hosts[h]})
    BY <1>4 DEF Arrives
  <2>2. failed[h] # Groups => air[h] = {batch}
    BY DEF RoundOK, OneResource
  <2>3. OneResource(h)'
    BY <1>1, <2>1, <2>2 DEF OneResource
  <2>4. InSight(h)'
    <3> SUFFICES ASSUME NEW m \in Due(h)', m \notin store'[h]
                 PROVE  OnAgenda(h, m)' \/ InHand(h, m)'
      BY DEF InSight
    <3>1. m \in Due(h) /\ m \notin store[h] /\ GroupOf[m] \in Hosts[h] /\ failed[h] # Groups
      BY <1>1, <2>1, NothingDue DEF Due, Epoch, Oldest, Grows
    <3>2. m \notin batch
      BY <2>1, <3>1 DEF Store, TablesOK
    <3>3. CASE OnAgenda(h, m)
      BY <1>1, <3>3 DEF OnAgenda, Epoch
    <3>4. CASE InHand(h, m)
      BY <1>1, <2>2, <3>1, <3>2, <3>4 DEF InHand, Epoch, walk
    <3> QED
      BY <3>1, <3>3, <3>4 DEF RoundOK, InSight
  <2> QED
    BY <1>2, <1>3, <2>3, <2>4 DEF RoundOK
<1>5. CASE ArrivesBroken(h, batch)
  <2>1. failed'[h] = Groups
    BY <1>5 DEF ArrivesBroken, PropsOK
  <2> QED
    BY <1>1, <1>2, <1>3, <2>1, NothingDue DEF RoundOK, OneResource, InSight
<1> QED
  BY <1>4, <1>5
----------------------------------------------------------------------------
(* The rest. *)

LEMMA OthersOK ==
    ASSUME Shape, RoundsOK, NEW k \in Hubs, Undisturbed(k), \A j \in Hubs : Grows(j),
           now' \in {now, now + 1}
    PROVE  RoundOK(k)'
BY UndisturbedOK, Parts DEF RoundsOK, ThreadOK

LEMMA PruneInSight ==
    ASSUME Shape, RoundsOK, NEW h \in Hubs, Prune(h)
    PROVE  RoundsOK'
<1> USE Parts
<1> SUFFICES ASSUME NEW k \in Hubs PROVE RoundOK(k)'
  BY DEF RoundsOK
<1>1. /\ RoundOK(k) /\ peer[k] \in Hubs
      /\ UNCHANGED <<now, ever, pc, peer, agenda, group, epoch, local, level, nodes, missing,
                     air, arrived, failed>>
  BY DEF RoundsOK, Prune, client, link, walk, wire, ThreadOK
<1>2. /\ store'[h] = {m \in store[h] : ~Expired(m)}
      /\ \A j \in Hubs \ {h} : store'[j] = store[j]
  BY DEF Prune, TablesOK
<1>3. /\ offered'[k] \subseteq offered[k]
      /\ k = h \/ peer[k] = h => \A m \in offered'[k] : ~Expired(m)
  BY DEF Prune
<1>4. HostsWhatItStores(k)'
  BY <1>1, <1>2 DEF RoundOK, HostsWhatItStores
<1>5. Quiet(k)'
  BY <1>1, <1>2, <1>3 DEF RoundOK, Quiet
<1>6. Peered(k)' /\ OneResource(k)'
  BY <1>1 DEF RoundOK, Peered, OneResource
<1>7. InSight(k)'
  <2> SUFFICES ASSUME NEW m \in Due(k)'
               PROVE  m \in store'[k] \/ OnAgenda(k, m)' \/ InHand(k, m)'
    BY DEF InSight
  <2>1. m \in Due(k) /\ m \in offered'[k]
    BY <1>1, <1>3 DEF Due, Epoch, Oldest
  <2>2. m \in store[k] => m \in store'[k]
    BY <1>2, <1>3, <2>1
  <2>3. OnAgenda(k, m) => OnAgenda(k, m)'
    BY <1>1 DEF OnAgenda, Epoch
  <2>4. InHand(k, m) => InHand(k, m)'
    BY <1>1 DEF InHand, Epoch
  <2> QED
    BY <1>1, <2>1, <2>2, <2>3, <2>4 DEF RoundOK, InSight
<1> QED
  BY <1>4, <1>5, <1>6, <1>7 DEF RoundOK

LEMMA BreakInSight ==
    ASSUME Shape, RoundsOK, NEW h \in Hubs, LinkBreaks(h) \/ Restart(h)
    PROVE  RoundsOK'
<1> USE Parts
<1>1. Shape' /\ UNCHANGED <<now, tables>>
  BY HubOK DEF LinkBreaks, Restart
<1>2. \A k \in Hubs : Grows(k)
  BY <1>1 DEF Grows, tables
<1> SUFFICES ASSUME NEW k \in Hubs PROVE RoundOK(k)'
  BY DEF RoundsOK
<1>3. RoundOK(k)
  BY DEF RoundsOK
<1>4. HostsWhatItStores(k)'
  BY <1>1, <1>3 DEF RoundOK, HostsWhatItStores, tables
<1>5. CASE Undisturbed(k)
  BY <1>1, <1>2, <1>5, OthersOK
<1>6. ASSUME failed'[k] = Groups, air'[k] = {},
             pc'[k] = pc[k], peer'[k] = peer[k], offered'[k] = offered[k]
      PROVE  RoundOK(k)'
  <2>1. Peered(k)' /\ Quiet(k)'
    BY <1>1, <1>3, <1>6 DEF RoundOK, Peered, Quiet, tables
  <2> QED
    BY <1>1, <1>4, <1>6, <2>1, NothingDue DEF RoundOK, OneResource, InSight
<1>7. CASE LinkBreaks(h)
  <2>1. CASE k = h
    BY <1>6, <1>7, <2>1 DEF LinkBreaks, WireOK, PropsOK
  <2>2. CASE k # h
    BY <1>5, <1>7, <2>2 DEF LinkBreaks, Undisturbed, WireOK, PropsOK, walk
  <2> QED
    BY <2>1, <2>2
<1>8. CASE Restart(h)
  <2>1. CASE k = h
    <3>1. pc'[k] = "idle" /\ air'[k] = {} /\ offered'[k] = {}
      BY <1>8, <2>1 DEF Restart, ThreadOK, PropsOK
    <3>2. Peered(k)' /\ Quiet(k)' /\ OneResource(k)'
      BY <3>1 DEF Peered, Quiet, OneResource
    <3> QED
      BY <1>1, <1>4, <3>1, <3>2, NothingDue DEF RoundOK, InSight
  <2>2. CASE k # h
    <3>1. /\ pc'[k] = pc[k] /\ peer'[k] = peer[k] /\ agenda'[k] = agenda[k]
          /\ group'[k] = group[k] /\ epoch'[k] = epoch[k] /\ local'[k] = local[k]
          /\ level'[k] = level[k] /\ nodes'[k] = nodes[k] /\ missing'[k] = missing[k]
          /\ arrived'[k] = arrived[k] /\ offered'[k] = offered[k]
      BY <1>8, <2>2 DEF Restart, ThreadOK, AgendaOK, WalkOK, WireOK, PropsOK
    <3>2. \/ air'[k] = {} /\ failed'[k] = Groups
          \/ air'[k] = air[k] /\ failed'[k] = failed[k]
      BY <1>8, <2>2 DEF Restart
    <3> QED
      BY <1>5, <1>6, <3>1, <3>2 DEF Undisturbed
  <2> QED
    BY <2>1, <2>2
<1> QED
  BY <1>7, <1>8

LEMMA RoundsStep ==
    ASSUME Shape, RoundsOK, [Next]_vars
    PROVE  RoundsOK'
<1>1. ASSUME NEW h \in Hubs, RoundOK(h)', \A k \in Hubs \ {h} : Undisturbed(k),
             UNCHANGED <<now, tables>>
      PROVE  RoundsOK'
  <2>1. \A k \in Hubs : Grows(k)
    BY <1>1 DEF Grows, tables
  <2> QED
    BY <1>1, <2>1, OthersOK DEF RoundsOK
<1>2. ASSUME NEW h \in Hubs, Round(h) \/ \E p \in Hubs : Connect(h, p)
      PROVE  RoundsOK'
  <2>1. RoundOK(h)
    BY DEF RoundsOK
  <2>2. CASE (\E p \in Hubs : Connect(h, p)) \/ AskRoots(h) \/ NoRoots(h) \/ EndRound(h)
    BY <1>1, <2>2, BeginningInSight, BeginningOthers
  <2>3. CASE \/ (\E g \in Groups : EnterGroup(h, g)) \/ LeaveGroup(h) \/ OpenEpoch(h)
             \/ AskNodes(h) \/ AskBuckets(h) \/ GroupFails(h)
    BY <1>1, <2>1, <2>3, WalkingInSight, WalkingOthers
  <2>4. CASE AskFetch(h) \/ Continue(h) \/ WaitTimesOut(h) \/ FetchFails(h)
    BY <1>1, <2>1, <2>4, FetchingInSight, FetchingOthers
  <2> QED
    BY <1>2, <2>2, <2>3, <2>4 DEF Round
<1>3. ASSUME NEW h \in Hubs, NEW batch \in air[h],
             Arrives(h, batch) \/ ArrivesBroken(h, batch)
      PROVE  RoundsOK'
  <2>1. RoundOK(h) /\ HostsWhatItStores(h)
    BY DEF RoundsOK, RoundOK
  <2>2. /\ \A k \in Hubs \ {h} : Undisturbed(k)
        /\ \A k \in Hubs : Grows(k)
        /\ now' = now
    BY <1>3, <2>1, ArrivalOthers
  <2>3. RoundOK(h)'
    BY <1>3, <2>1, ArrivalInSight
  <2> QED
    BY <2>2, <2>3, OthersOK DEF RoundsOK
<1>4. ASSUME NEW h \in Hubs, NEW m \in Messages, Post(h, m)
      PROVE  RoundsOK'
  <2>1. \A k \in Hubs : Undisturbed(k)
    BY <1>4 DEF Post, Undisturbed, client, link, walk, wire
  <2>2. \A k \in Hubs : Grows(k)
    BY <1>4, Parts DEF Post, Store, Grows, TablesOK
  <2> QED
    BY <1>4, <2>1, <2>2, OthersOK DEF Post, RoundsOK
<1>5. CASE Tick \/ UNCHANGED vars
  <2>1. \A k \in Hubs : Undisturbed(k) /\ Grows(k)
    BY <1>5 DEF Tick, vars, Undisturbed, Grows, client, link, walk, wire, tables
  <2> QED
    BY <1>5, <2>1, OthersOK DEF Tick, vars, RoundsOK
<1> QED
  BY <1>2, <1>3, <1>4, <1>5, PruneInSight, BreakInSight DEF Next, Delivery

LEMMA AlwaysRounds == Spec => [](Shape /\ RoundsOK)
<1>1. Init => RoundsOK
  BY DEF Init, RoundsOK, RoundOK, HostsWhatItStores, Peered, Quiet, OneResource, InSight, Due
<1> QED
  BY <1>1, ShapeInit, ShapeStep, RoundsStep, PTL DEF Spec

(* A round leaves out nothing that the peer held all along, whatever is    *)
(* posted, arrives or is pruned on either side meanwhile, and whichever    *)
(* hash prefixes the messages have (federation.py:442-483, 554-632).       *)
THEOREM RoundComplete == Spec => []RoundIsComplete
<1>1. Shape /\ RoundsOK => RoundIsComplete
  <2> SUFFICES ASSUME Shape, RoundsOK, NEW h \in Hubs, pc[h] = "groups", agenda[h] = {},
                      NEW m \in offered[h],
                      GroupOf[m] \in Hosts[h] \ failed[h], Epoch(m) >= Oldest
               PROVE  m \in store[h]
    BY DEF RoundIsComplete
  <2>1. m \in Due(h)
    BY DEF Due
  <2>2. ~OnAgenda(h, m) /\ ~InHand(h, m)
    BY DEF OnAgenda, InHand
  <2> QED
    BY <2>1, <2>2 DEF RoundsOK, RoundOK, InSight
<1> QED
  BY AlwaysRounds, <1>1, PTL
----------------------------------------------------------------------------
(* Every step is one of Sync.tla, or none. *)

LEMMA ReplicatesStep ==
    ASSUME Shape, RoundsOK, [Next]_vars
    PROVE  [Replication!Next]_<<now, store, ever>>
<1> USE Parts
<1>1. ASSUME NEW h \in Hubs, Round(h) \/ \E p \in Hubs : Connect(h, p)
      PROVE  UNCHANGED <<now, store, ever>>
  BY <1>1, BeginningOthers, WalkingOthers, FetchingOthers DEF Round, tables
<1>2. ASSUME NEW h \in Hubs, NEW batch \in air[h],
             Arrives(h, batch) \/ ArrivesBroken(h, batch)
      PROVE  Replication!Next
  <2>1. PICK S \in SUBSET batch : Store(h, S) /\ \A m \in S : GroupOf[m] \in Hosts[h]
    <3>1. PICK some \in SUBSET batch : Store(h, {m \in some : GroupOf[m] \in Hosts[h]})
      BY <1>2 DEF Arrives, ArrivesBroken
    <3>2. \A m \in {n \in some : GroupOf[n] \in Hosts[h]} : GroupOf[m] \in Hosts[h]
      OBVIOUS
    <3> QED
      BY <3>1, <3>2
  <2>2. now' = now
    BY <1>2 DEF Arrives, ArrivesBroken
  <2>3. pc[h] # "idle" /\ peer[h] \in Hubs /\ batch \in SUBSET Messages
    BY DEF ThreadOK, WireOK
  <2>4. peer[h] \in Peers[h] /\ batch \subseteq ever[peer[h]]
    BY <2>3 DEF RoundsOK, RoundOK, Peered
  <2>5. Replication!Copy(h, peer[h], S)
    BY <2>1, <2>2, <2>4 DEF Replication!Copy, Replication!Stores, Store
  <2>6. S \in SUBSET Messages
    BY <2>3
  <2> QED
    BY <2>3, <2>5, <2>6 DEF Replication!Next
<1>3. ASSUME NEW h \in Hubs, NEW m \in Messages, Post(h, m)
      PROVE  Replication!Next
  <2>1. Replication!Post(h, m)
    BY <1>3 DEF Post, Store, Replication!Post, Replication!Stores
  <2> QED
    BY <2>1 DEF Replication!Next
<1>4. ASSUME NEW h \in Hubs, Prune(h)
      PROVE  Replication!Next
  <2> DEFINE S == {m \in store[h] : Expired(m)}
  <2>1. store' = [store EXCEPT ![h] = store[h] \ S] /\ UNCHANGED <<now, ever>>
    BY <1>4 DEF Prune
  <2>2. S \in SUBSET Messages
    BY DEF TablesOK
  <2>3. Replication!Forget(h, S)
    BY <2>1 DEF Replication!Forget, Expired
  <2> QED
    BY <2>2, <2>3 DEF Replication!Next
<1>5. CASE Tick
  BY <1>5 DEF Tick, tables, Replication!Next, Replication!Pass
<1>6. ASSUME NEW h \in Hubs, LinkBreaks(h) \/ Restart(h)
      PROVE  UNCHANGED <<now, store, ever>>
  BY <1>6 DEF LinkBreaks, Restart, tables
<1>7. CASE UNCHANGED vars
  BY <1>7 DEF vars, tables
<1> QED
  BY <1>1, <1>2, <1>3, <1>4, <1>5, <1>6, <1>7 DEF Next, Delivery

(* The reconciliation implements Sync.tla: whatever hubs, trees, batches   *)
(* and failures there are, a hub stores only what was sent to it or one of *)
(* its own peers has stored, of groups it hosts, and lets go only of what  *)
(* is older than the retention.                                            *)
THEOREM ImplementsSync == Spec => Replicates
<1>1. Init => Replication!Init
  BY DEF Init, Replication!Init
<1> QED
  BY AlwaysRounds, <1>1, ReplicatesStep, PTL DEF Spec, Replicates, Replication!Spec

-----------------------------------------------------------------------------
(* The trees.  Nodes compare as the sets they stand for, at any depth.     *)

(* A set of numbers has a smallest one: of the intervals that end in it,   *)
(* one contains no other.                                                  *)
LEMMA Smallest ==
    ASSUME NEW T \in SUBSET Nat, T # {}
    PROVE  \E x \in T : \A y \in T : x <= y
<1> DEFINE U == {0..n : n \in T}
<1> DEFINE R == StrictSubsetOrdering(Nat)
<1> DEFINE S == FiniteSubsetsOf(Nat)
<1>1. IsWellFoundedOn(R, S)
  BY FS_StrictSubsetOrderingWellFounded
<1>2. U \subseteq S
  <2>1. \A n \in T : IsFiniteSet(0..n)
    BY FS_Interval
  <2> QED
    BY <2>1 DEF FiniteSubsetsOf
<1>3. U # {}
  OBVIOUS
<1>4. \E x \in U : \A y \in U : ~ (<<y, x>> \in R)
  <2> HIDE DEF U, R, S
  <2> QED
    BY <1>1, <1>2, <1>3, WFMin
<1>5. PICK x \in T : \A y \in T : ~ (<<0..y, 0..x>> \in R)
  BY <1>4
<1>6. ASSUME NEW y \in T, ~ (x <= y)
      PROVE  FALSE
  <2>1. <<0..y, 0..x>> \in R
    BY <1>6 DEF StrictSubsetOrdering
  <2> QED
    BY <1>5, <2>1
<1> QED
  BY <1>6

(* What holds of the leaves, and of each level if it holds of the one      *)
(* below, holds of all levels.  (The set of the levels it holds of stands  *)
(* for the property.)                                                      *)
LEMMA Upwards ==
    ASSUME NEW P \in SUBSET (0 .. Depth), Depth \in P,
           \A k \in 0 .. Depth - 1 : k + 1 \in P => k \in P
    PROVE  P = 0 .. Depth
<1> SUFFICES ASSUME NEW k \in 0 .. Depth, k \notin P PROVE FALSE
  OBVIOUS
<1> DEFINE T == {n \in 0 .. Depth : Depth - n \notin P}
<1>0. Depth \in Nat
  BY DepthAssumption
<1>1. T \in SUBSET Nat /\ Depth - k \in T
  BY <1>0
<1>2. PICK n \in T : \A j \in T : n <= j
  <2> HIDE DEF T
  <2> QED
    BY <1>1, Smallest
<1>3. n \in 0 .. Depth /\ Depth - n \notin P /\ n # 0
  BY <1>0
<1>4. n - 1 \in 0 .. Depth /\ n - 1 \notin T
  BY <1>0, <1>2, <1>3
<1>5. Depth - (n - 1) \in P /\ Depth - (n - 1) = (Depth - n) + 1 /\ Depth - n \in 0 .. Depth - 1
  BY <1>0, <1>3, <1>4
<1> QED
  BY <1>3, <1>5

(* The subsets of n + 1 things are those without the last, and those with. *)
LEMMA Doubling ==
    ASSUME NEW n \in Nat
    PROVE  2^n \in Nat /\ 2^(n + 1) = 2 * 2^n
<1> DEFINE A == SUBSET (1 .. n)
           B == {T \cup {n + 1} : T \in A}
           C == SUBSET (1 .. n + 1)
<1>1. /\ IsFiniteSet(1 .. n) /\ Cardinality(1 .. n) = n
      /\ IsFiniteSet(1 .. n + 1) /\ Cardinality(1 .. n + 1) = n + 1
  BY FS_Interval
<1>2. /\ IsFiniteSet(A) /\ Cardinality(A) = 2^n
      /\ Cardinality(C) = 2^(n + 1)
  BY <1>1, FS_SUBSET
<1>3. Cardinality(A) \in Nat
  BY <1>2, FS_CardinalityType
<1>4. IsFiniteSet(B) /\ Cardinality(B) = Cardinality(A)
  <2> DEFINE f == [T \in A |-> T \cup {n + 1}]
  <2>1. \A T \in A : n + 1 \notin T
    OBVIOUS
  <2>2. \A T, V \in A : f[T] = f[V] => T = V
    BY <2>1
  <2>3. f \in [A -> B] /\ \A U \in B : \E T \in A : f[T] = U
    OBVIOUS
  <2> HIDE DEF f, A, B
  <2>5. f \in Bijection(A, B)
    BY <2>2, <2>3 DEF Bijection, Injection, Surjection, IsInjective
  <2>4. ExistsBijection(A, B)
    BY <2>5 DEF ExistsBijection
  <2> QED
    BY <1>2, <2>4, FS_Bijection
<1>5. A \cup B = C
  <2>1. \A T \in C : T \in A \/ (T \ {n + 1} \in A /\ T = (T \ {n + 1}) \cup {n + 1})
    OBVIOUS
  <2>2. A \subseteq C /\ B \subseteq C
    <3>1. 1 .. n \subseteq 1 .. n + 1 /\ n + 1 \in 1 .. n + 1
      OBVIOUS
    <3> QED
      BY <3>1
  <2> QED
    BY <2>1, <2>2
<1>6. A \cap B = {}
  OBVIOUS
<1> HIDE DEF A, B, C
<1>7. Cardinality(C) = Cardinality(A) + Cardinality(B) - Cardinality(A \cap B)
  BY <1>2, <1>4, <1>5, FS_Union
<1>8. Cardinality(A \cap B) = 0
  BY <1>6, FS_EmptySet
<1> QED
  BY <1>2, <1>3, <1>4, <1>7, <1>8

(* A level as it is built over the level below. *)
Layer(items, g, k) ==
    [i \in 0 .. 2^k - 1 |->
        IF k = Depth THEN HashLeaf({m \in items : Prefix[m][Depth] = i})
                     ELSE HashPair(g[k + 1][2 * i], g[k + 1][2 * i + 1])]

LEMMA LayerOver ==
    ASSUME NEW items, NEW g, NEW f, NEW k \in 0 .. Depth, k # Depth => g[k + 1] = f[k + 1]
    PROVE  Layer(items, g, k) = Layer(items, f, k)
BY DEF Layer

(* The leaves can be built, and over each level another. *)
LEMMA TreeIsBuilt ==
    ASSUME NEW items
    PROVE  Tree(items) = [k \in 0 .. Depth |-> Layer(items, Tree(items), k)]
<1>0. Depth \in Nat
  BY DepthAssumption
<1> DEFINE Built(g, k) == \A j \in k .. Depth : g[j] = Layer(items, g, j)
<1> DEFINE P == {k \in 0 .. Depth : \E g : g = [j \in 0 .. Depth |-> g[j]] /\ Built(g, k)}
<1>1. Depth \in P
  <2> DEFINE g == [j \in 0 .. Depth |-> Layer(items, <<>>, Depth)]
  <2>1. g = [j \in 0 .. Depth |-> g[j]]
    OBVIOUS
  <2>2. Layer(items, g, Depth) = Layer(items, <<>>, Depth)
    BY <1>0, LayerOver
  <2>3. g[Depth] = Layer(items, g, Depth)
    BY <1>0, <2>2
  <2>4. Built(g, Depth)
    BY <1>0, <2>3
  <2> HIDE DEF g
  <2> QED
    BY <1>0, <2>1, <2>4
<1>2. ASSUME NEW k \in 0 .. Depth - 1, k + 1 \in P
      PROVE  k \in P
  <2>1. PICK f : f = [j \in 0 .. Depth |-> f[j]] /\ Built(f, k + 1)
    BY <1>2
  <2> DEFINE g == [j \in 0 .. Depth |-> IF j = k THEN Layer(items, f, k) ELSE f[j]]
  <2>2. g = [j \in 0 .. Depth |-> g[j]]
    OBVIOUS
  <2>3. ASSUME NEW j \in k .. Depth
        PROVE  g[j] = Layer(items, g, j)
    <3>1. j \in 0 .. Depth /\ (j # Depth => g[j + 1] = f[j + 1])
      BY <1>0
    <3>2. Layer(items, g, j) = Layer(items, f, j)
      BY <3>1, LayerOver
    <3>3. j # k => j \in k + 1 .. Depth
      BY <1>0
    <3> QED
      BY <2>1, <3>1, <3>2, <3>3
  <2> HIDE DEF g
  <2> QED
    BY <1>0, <2>2, <2>3
<1>3. 0 \in P
  <2> HIDE DEF P
  <2>1. P \subseteq 0 .. Depth
    BY DEF P
  <2> QED
    BY <1>0, <1>1, <1>2, <2>1, Upwards
<1>4. PICK g : g = [j \in 0 .. Depth |-> g[j]] /\ Built(g, 0)
  BY <1>3
<1>5. g = [k \in 0 .. Depth |-> Layer(items, g, k)]
  BY <1>4
<1>6. Tree(items) = CHOOSE f : f = [k \in 0 .. Depth |-> Layer(items, f, k)]
  BY DEF Tree, Layer
<1> QED
  BY <1>5, <1>6

(* The slices of a level are cut in two on the next. *)
LEMMA BelowIsCut ==
    ASSUME NEW S \in SUBSET Messages, NEW k \in 0 .. Depth - 1, NEW i \in 0 .. 2^k - 1
    PROVE  /\ 2 * i \in 0 .. 2^(k + 1) - 1 /\ 2 * i + 1 \in 0 .. 2^(k + 1) - 1
           /\ Below(S, k, i) = Below(S, k + 1, 2 * i) \cup Below(S, k + 1, 2 * i + 1)
           /\ \A m \in S : ~ (m \in Below(S, k + 1, 2 * i) /\ m \in Below(S, k + 1, 2 * i + 1))
<1>0. Depth \in Nat /\ k \in Nat
  BY DepthAssumption
<1>1. 2^k \in Nat /\ 2^(k + 1) = 2 * 2^k
  BY <1>0, Doubling
<1>2. ASSUME NEW m \in Messages
      PROVE  /\ Prefix[m][k] \in Nat
             /\ Prefix[m][k + 1] \in {2 * Prefix[m][k], 2 * Prefix[m][k] + 1}
  BY <1>0, PrefixAssumption
<1>3. i \in Nat
  BY <1>1
<1>4. ASSUME NEW m \in Messages
      PROVE  /\ Prefix[m][k] = i <=> Prefix[m][k + 1] = 2 * i \/ Prefix[m][k + 1] = 2 * i + 1
             /\ ~ (Prefix[m][k + 1] = 2 * i /\ Prefix[m][k + 1] = 2 * i + 1)
  <2>1. \A a, b \in Nat : b \in {2 * a, 2 * a + 1} =>
          (a = i <=> b = 2 * i \/ b = 2 * i + 1) /\ ~ (b = 2 * i /\ b = 2 * i + 1)
    BY <1>3
  <2>2. Prefix[m][k + 1] \in Nat
    BY <1>2
  <2> QED
    BY <1>2, <2>1, <2>2
<1> QED
  BY <1>1, <1>3, <1>4 DEF Below

(* Nodes of one level compare as the sets they stand for. *)
SameAsSets(k) ==
    \A S, T \in SUBSET Messages : \A i \in 0 .. 2^k - 1 :
        /\ Tree(S)[k][i] = Tree(T)[k][i] <=> Below(S, k, i) = Below(T, k, i)
        /\ Tree(S)[k][i] = EmptyNode <=> Below(S, k, i) = {}

(* A node of a hash tree equals that of another, or is empty, exactly when *)
(* the messages below it are the same, or there are none: comparing hashes *)
(* from the root down finds the differences and nothing else (merkle.py).  *)
THEOREM NodesCompareAsSets == NodesAreSets
<1>0. Depth \in Nat
  BY DepthAssumption
<1>1. ASSUME NEW S \in SUBSET Messages, NEW k \in 0 .. Depth, NEW i \in 0 .. 2^k - 1
      PROVE  Tree(S)[k][i] = IF k = Depth THEN HashLeaf(Below(S, Depth, i))
                             ELSE HashPair(Tree(S)[k + 1][2 * i], Tree(S)[k + 1][2 * i + 1])
  <2>1. Tree(S)[k] = Layer(S, Tree(S), k)
    BY TreeIsBuilt
  <2> QED
    BY <2>1 DEF Layer, Below
<1>2. SameAsSets(Depth)
  <2> SUFFICES ASSUME NEW S \in SUBSET Messages, NEW T \in SUBSET Messages,
                      NEW i \in 0 .. 2^Depth - 1
               PROVE  /\ Tree(S)[Depth][i] = Tree(T)[Depth][i]
                           <=> Below(S, Depth, i) = Below(T, Depth, i)
                      /\ Tree(S)[Depth][i] = EmptyNode <=> Below(S, Depth, i) = {}
    BY DEF SameAsSets
  <2>1. /\ Tree(S)[Depth][i] = HashLeaf(Below(S, Depth, i))
        /\ Tree(T)[Depth][i] = HashLeaf(Below(T, Depth, i))
    BY <1>0, <1>1
  <2>2. \A A, B : /\ HashLeaf(A) = HashLeaf(B) <=> A = B
                  /\ HashLeaf(A) = EmptyNode <=> A = {}
    <3>1. \A A : [node |-> "leaf", items |-> A].items = A
                /\ [node |-> "leaf", items |-> A].node = "leaf" /\ EmptyNode.node = "empty"
      BY DEF EmptyNode
    <3> QED
      BY <3>1 DEF HashLeaf
  <2> QED
    BY <2>1, <2>2
<1>3. ASSUME NEW k \in 0 .. Depth - 1, SameAsSets(k + 1)
      PROVE  SameAsSets(k)
  <2> SUFFICES ASSUME NEW S \in SUBSET Messages, NEW T \in SUBSET Messages,
                      NEW i \in 0 .. 2^k - 1
               PROVE  /\ Tree(S)[k][i] = Tree(T)[k][i] <=> Below(S, k, i) = Below(T, k, i)
                      /\ Tree(S)[k][i] = EmptyNode <=> Below(S, k, i) = {}
    BY DEF SameAsSets
  <2> DEFINE l == 2 * i
             r == 2 * i + 1
  <2>1. k \in 0 .. Depth /\ k # Depth /\ k + 1 \in 0 .. Depth
    BY <1>0
  <2>2. /\ Tree(S)[k][i] = HashPair(Tree(S)[k + 1][l], Tree(S)[k + 1][r])
        /\ Tree(T)[k][i] = HashPair(Tree(T)[k + 1][l], Tree(T)[k + 1][r])
    BY <1>1, <2>1
  <2>3. l \in 0 .. 2^(k + 1) - 1 /\ r \in 0 .. 2^(k + 1) - 1
    BY BelowIsCut
  <2>4. /\ Below(S, k, i) = Below(S, k + 1, l) \cup Below(S, k + 1, r)
        /\ Below(T, k, i) = Below(T, k + 1, l) \cup Below(T, k + 1, r)
    BY BelowIsCut
  <2>5. /\ \A m \in Messages : ~ (m \in Below(S, k + 1, l) /\ m \in Below(T, k + 1, r))
        /\ \A m \in Messages : ~ (m \in Below(T, k + 1, l) /\ m \in Below(S, k + 1, r))
    BY BelowIsCut DEF Below
  <2>6. /\ Tree(S)[k + 1][l] = Tree(T)[k + 1][l] <=> Below(S, k + 1, l) = Below(T, k + 1, l)
        /\ Tree(S)[k + 1][r] = Tree(T)[k + 1][r] <=> Below(S, k + 1, r) = Below(T, k + 1, r)
        /\ Tree(S)[k + 1][l] = EmptyNode <=> Below(S, k + 1, l) = {}
        /\ Tree(S)[k + 1][r] = EmptyNode <=> Below(S, k + 1, r) = {}
        /\ Tree(T)[k + 1][l] = EmptyNode <=> Below(T, k + 1, l) = {}
        /\ Tree(T)[k + 1][r] = EmptyNode <=> Below(T, k + 1, r) = {}
    BY <1>3, <2>3 DEF SameAsSets
  <2>7. /\ Below(S, k, i) = Below(T, k, i)
             <=> Below(S, k + 1, l) = Below(T, k + 1, l) /\ Below(S, k + 1, r) = Below(T, k + 1, r)
        /\ Below(S, k, i) = {} <=> Below(S, k + 1, l) = {} /\ Below(S, k + 1, r) = {}
    <3>1. /\ Below(S, k + 1, l) \subseteq Messages /\ Below(S, k + 1, r) \subseteq Messages
          /\ Below(T, k + 1, l) \subseteq Messages /\ Below(T, k + 1, r) \subseteq Messages
      BY DEF Below
    <3> HIDE DEF l, r
    <3> QED
      BY <2>4, <2>5, <3>1
  <2> HIDE DEF l, r
  <2>8. /\ HashPair(Tree(S)[k + 1][l], Tree(S)[k + 1][r])
             = HashPair(Tree(T)[k + 1][l], Tree(T)[k + 1][r])
             <=> /\ Tree(S)[k + 1][l] = Tree(T)[k + 1][l]
                 /\ Tree(S)[k + 1][r] = Tree(T)[k + 1][r]
        /\ HashPair(Tree(S)[k + 1][l], Tree(S)[k + 1][r]) = EmptyNode
             <=> Tree(S)[k + 1][l] = EmptyNode /\ Tree(S)[k + 1][r] = EmptyNode
    BY DEF HashPair, EmptyNode
  <2> QED
    BY <2>2, <2>6, <2>7, <2>8
<1>4. {k \in 0 .. Depth : SameAsSets(k)} = 0 .. Depth
  <2> DEFINE P == {k \in 0 .. Depth : SameAsSets(k)}
  <2>1. P \in SUBSET (0 .. Depth) /\ Depth \in P
    BY <1>0, <1>2
  <2>2. \A k \in 0 .. Depth - 1 : k + 1 \in P => k \in P
    BY <1>0, <1>3
  <2> HIDE DEF P
  <2>3. P = 0 .. Depth
    BY <2>1, <2>2, Upwards
  <2> QED
    BY <2>3 DEF P
<1> QED
  BY <1>4 DEF SameAsSets, NodesAreSets
=============================================================================
