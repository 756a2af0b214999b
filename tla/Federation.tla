----------------------------- MODULE Federation -----------------------------
(***************************************************************************)
(* Message federation between hubs (federation.py): every hub reconciles   *)
(* with one of its peers after the other over a link, group by group and   *)
(* epoch by epoch, while messages are posted, arrive and are pruned on     *)
(* both sides.                                                             *)
(*                                                                         *)
(* A step of a hub is one request with its answer, computed from what the  *)
(* peer stores at that moment, or what the hub does between two requests.  *)
(* Batches of messages come as resources, which the link's own thread      *)
(* ingests whenever they arrive: before or after the hub waits for them.   *)
(*                                                                         *)
(* A round also exchanges state and personas, which Failover.tla and       *)
(* Personas.tla are about; both may fail without a consequence for the     *)
(* messages.  Hubs share one clock here, and agree on the length of the    *)
(* epochs and the depth of the trees.                                      *)
(***************************************************************************)
EXTENDS Merkle

CONSTANTS
    Hubs, Groups,
    Peers,          \* the peers each hub is configured with
    Hosts,          \* the groups each hub hosts
    GroupOf,        \* the group of each message
    Time,           \* its timestamp, by its sender's clock
    SentTo,         \* the hubs it is sent to
    EpochLength,    \* epoch_seconds
    Retention,      \* retention_epochs
    MaxBuckets,     \* MAX_BUCKETS_PER_REQUEST
    MaxBatch,       \* max_fetch_batch
    MaxTime,        \* bound: the clock
    MaxRounds,      \* bound: rounds begun, by all hubs; 0 for any number
    MaxFaults       \* bound: requests that fail, resources lost, links and hubs that break

ASSUME HubsAssumption ==
    /\ Groups # {}
    /\ Peers \in [Hubs -> SUBSET Hubs] /\ \A h \in Hubs : h \notin Peers[h]
    /\ Hosts \in [Hubs -> SUBSET Groups]
    /\ GroupOf \in [Messages -> Groups]
    /\ Time \in [Messages -> Nat]
    /\ SentTo \in [Messages -> SUBSET Hubs]
ASSUME SizesAssumption ==
    /\ EpochLength \in Nat \ {0} /\ Retention \in Nat
    /\ MaxBuckets \in Nat \ {0} /\ MaxBatch \in Nat \ {0}
    /\ MaxTime \in Nat /\ MaxRounds \in Nat /\ MaxFaults \in Nat

VARIABLES
    now,
    store,          \* the messages each hub stores
    ever,           \* those it has ever stored
    \* The federation thread of each hub.
    pc,             \* where it is
    peer,           \* the hub at the other end of its link
    linked,         \* whether the link is up
    agenda,         \* the epochs still to look at: [group, epoch, root]
    group, epoch,   \* where in the agenda it is
    local,          \* its own tree of that epoch, read when it came to it
    level,          \* how deep in the tree it is
    nodes,          \* the nodes of that level found to differ
    missing,        \* what it has still to fetch
    air,            \* the resources on their way to it
    arrived,        \* whether one has arrived since it last asked
    \* For the bounds and the properties.
    rounds, faults,
    offered,        \* what the peer held all along this round, and it has not pruned
    failed          \* the groups in whose reconciliation something failed

tables == <<store, ever>>
link == <<peer, linked>>
walk == <<epoch, local, level, nodes, missing>>
wire == <<air, arrived>>
client == <<pc, link, agenda, group, walk, wire>>
bounds == <<rounds, faults>>
vars == <<now, tables, client, bounds, offered, failed>>

Stages == {"idle", "roots", "groups", "epochs", "walk", "buckets", "fetch", "wait"}

Epoch(m) == Time[m] \div EpochLength
Epochs == {Epoch(m) : m \in Messages}
Items == [group : Groups, epoch : Epochs, root : SUBSET Messages]

(* What stands for the group of a hub that is not in a round. *)
SomeGroup == CHOOSE g \in Groups : TRUE

TypeOK ==
    /\ now \in Nat
    /\ store \in [Hubs -> SUBSET Messages] /\ ever \in [Hubs -> SUBSET Messages]
    /\ \A h \in Hubs : store[h] \subseteq ever[h]
    /\ pc \in [Hubs -> Stages]
    /\ peer \in [Hubs -> Hubs]
    /\ linked \in [Hubs -> BOOLEAN]
    /\ \A h \in Hubs : linked[h] => pc[h] # "idle"
    /\ agenda \in [Hubs -> SUBSET Items]
    /\ group \in [Hubs -> Groups]
    /\ epoch \in [Hubs -> Epochs \cup {0}]
    /\ local \in [Hubs -> SUBSET Messages]
    /\ level \in [Hubs -> 0 .. Depth]
    /\ nodes \in [Hubs -> SUBSET Nat]
    /\ missing \in [Hubs -> SUBSET Messages]
    /\ air \in [Hubs -> SUBSET SUBSET Messages]
    /\ \A h \in Hubs : air[h] # {} => linked[h]
    /\ arrived \in [Hubs -> BOOLEAN]
    /\ rounds \in Nat /\ faults \in Nat
    /\ offered \in [Hubs -> SUBSET Messages]
    /\ failed \in [Hubs -> SUBSET Groups]

Init ==
    /\ now = 0
    /\ store = [h \in Hubs |-> {}] /\ ever = [h \in Hubs |-> {}]
    /\ pc = [h \in Hubs |-> "idle"]
    /\ peer = [h \in Hubs |-> h]
    /\ linked = [h \in Hubs |-> FALSE]
    /\ agenda = [h \in Hubs |-> {}]
    /\ group = [h \in Hubs |-> SomeGroup]
    /\ epoch = [h \in Hubs |-> 0]
    /\ local = [h \in Hubs |-> {}]
    /\ level = [h \in Hubs |-> 0]
    /\ nodes = [h \in Hubs |-> {}]
    /\ missing = [h \in Hubs |-> {}]
    /\ air = [h \in Hubs |-> {}]
    /\ arrived = [h \in Hubs |-> FALSE]
    /\ rounds = 0 /\ faults = 0
    /\ offered = [h \in Hubs |-> {}]
    /\ failed = [h \in Hubs |-> {}]
----------------------------------------------------------------------------
(* What a hub reads of its own store, for itself or for a peer. *)

Oldest == now \div EpochLength - Retention

InEpoch(S, g, e) == {m \in S : GroupOf[m] = g /\ Epoch(m) = e}

(* The roots of the epochs within the window that have messages. *)
EpochRoots(h, g) ==
    {[group |-> g, epoch |-> e, root |-> InEpoch(store[h], g, e)] :
        e \in {Epoch(m) : m \in {n \in store[h] : GroupOf[n] = g /\ Epoch(n) >= Oldest}}}

(* What the peer of hub h has of the epoch h looks at. *)
Remote(h) == InEpoch(store[peer[h]], group[h], epoch[h])

Fault ==
    /\ faults < MaxFaults
    /\ faults' = faults + 1

(* A request is answered over a link that is up; over one that is not, it  *)
(* fails, and even over one that is, it may.                               *)
Fails(h) ==
    \/ Fault
    \/ ~linked[h] /\ UNCHANGED faults
----------------------------------------------------------------------------
(* A round begins. *)

Connect(h, p) ==
    /\ pc[h] = "idle"
    /\ p \in Peers[h]
    /\ MaxRounds = 0 \/ rounds < MaxRounds
    /\ rounds' = IF MaxRounds = 0 THEN rounds ELSE rounds + 1
    /\ pc' = [pc EXCEPT ![h] = "roots"]
    /\ peer' = [peer EXCEPT ![h] = p]
    /\ linked' = [linked EXCEPT ![h] = TRUE]
    /\ UNCHANGED <<now, tables, agenda, group, walk, wire, faults, offered, failed>>

(* Only a peer that knows this hub as its peer answers, with the roots of  *)
(* all its groups; those that this hub does not host are left aside.       *)
AskRoots(h) ==
    /\ pc[h] = "roots"
    /\ linked[h]
    /\ h \in Peers[peer[h]]
    /\ pc' = [pc EXCEPT ![h] = "groups"]
    /\ agenda' = [agenda EXCEPT ![h] =
                     UNION {EpochRoots(peer[h], g) : g \in Hosts[h] \cap Hosts[peer[h]]}]
    /\ offered' = [offered EXCEPT ![h] = store[peer[h]]]
    /\ failed' = [failed EXCEPT ![h] = {}]
    /\ UNCHANGED <<now, tables, link, group, walk, wire, bounds>>

(* Faulty: the link is not torn down. *)
MutIdleKeepsLink(h) ==
    /\ pc' = [pc EXCEPT ![h] = "idle"]
    /\ peer' = [peer EXCEPT ![h] = h]
    /\ agenda' = [agenda EXCEPT ![h] = {}]
    /\ group' = [group EXCEPT ![h] = SomeGroup]
    /\ arrived' = [arrived EXCEPT ![h] = FALSE]
    /\ offered' = [offered EXCEPT ![h] = {}]
    /\ failed' = [failed EXCEPT ![h] = {}]
    /\ UNCHANGED <<linked, air>>

(* The round is over: the link is torn down, and what is on its way to     *)
(* this hub does not arrive any more.                                      *)
Idle(h) ==
    /\ pc' = [pc EXCEPT ![h] = "idle"]
    /\ peer' = [peer EXCEPT ![h] = h]
    /\ linked' = [linked EXCEPT ![h] = FALSE]
    /\ agenda' = [agenda EXCEPT ![h] = {}]
    /\ group' = [group EXCEPT ![h] = SomeGroup]
    /\ air' = [air EXCEPT ![h] = {}]
    /\ arrived' = [arrived EXCEPT ![h] = FALSE]
    /\ offered' = [offered EXCEPT ![h] = {}]
    /\ failed' = [failed EXCEPT ![h] = {}]

NoRoots(h) ==
    /\ pc[h] = "roots"
    /\ \/ Fails(h)
       \/ linked[h] /\ h \notin Peers[peer[h]] /\ UNCHANGED faults
    /\ Idle(h)
    /\ UNCHANGED <<now, tables, walk, rounds>>

EndRound(h) ==
    /\ pc[h] = "groups"
    /\ agenda[h] = {}
    /\ Idle(h)
    /\ UNCHANGED <<now, tables, walk, bounds>>
----------------------------------------------------------------------------
(* One group. *)

(* Faulty: the window is an epoch short. *)
MutEnterGroup(h, g) ==
    /\ pc[h] = "groups"
    /\ \E item \in agenda[h] : item.group = g
    /\ pc' = [pc EXCEPT ![h] = "epochs"]
    /\ group' = [group EXCEPT ![h] = g]
    /\ agenda' = [agenda EXCEPT ![h] =
                     {item \in @ : item.group = g => item.epoch > Oldest}]
    /\ UNCHANGED <<now, tables, link, walk, wire, bounds, offered, failed>>

(* Epochs that have left the window are not looked at. *)
EnterGroup(h, g) ==
    /\ pc[h] = "groups"
    /\ \E item \in agenda[h] : item.group = g
    /\ pc' = [pc EXCEPT ![h] = "epochs"]
    /\ group' = [group EXCEPT ![h] = g]
    /\ agenda' = [agenda EXCEPT ![h] =
                     {item \in @ : item.group = g => item.epoch >= Oldest}]
    /\ UNCHANGED <<now, tables, link, walk, wire, bounds, offered, failed>>

Todo(h) == {item \in agenda[h] : item.group = group[h]}

LeaveGroup(h) ==
    /\ pc[h] = "epochs"
    /\ Todo(h) = {}
    /\ pc' = [pc EXCEPT ![h] = "groups"]
    /\ UNCHANGED <<now, tables, link, agenda, group, walk, wire, bounds, offered, failed>>

(* The oldest epoch that is left: nothing to do if the roots agree. *)
OpenEpoch(h) ==
    /\ pc[h] = "epochs"
    /\ \E item \in Todo(h) :
          /\ \A other \in Todo(h) : item.epoch <= other.epoch
          /\ agenda' = [agenda EXCEPT ![h] = @ \ {item}]
          /\ LET mine == InEpoch(store[h], group[h], item.epoch)
             IN  IF mine = item.root
                   THEN UNCHANGED <<pc, walk>>
                   ELSE /\ pc' = [pc EXCEPT ![h] = "walk"]
                        /\ epoch' = [epoch EXCEPT ![h] = item.epoch]
                        /\ local' = [local EXCEPT ![h] = mine]
                        /\ nodes' = [nodes EXCEPT ![h] = {0}]
                        /\ UNCHANGED <<level, missing>>
    /\ UNCHANGED <<now, tables, link, group, wire, bounds, offered, failed>>

(* An epoch is done with, whatever came of it. *)
CloseEpoch(h) ==
    /\ pc' = [pc EXCEPT ![h] = "epochs"]
    /\ epoch' = [epoch EXCEPT ![h] = 0]
    /\ local' = [local EXCEPT ![h] = {}]
    /\ level' = [level EXCEPT ![h] = 0]
    /\ nodes' = [nodes EXCEPT ![h] = {}]
    /\ missing' = [missing EXCEPT ![h] = {}]

(* One level down: the peer's hashes of the children of the nodes that     *)
(* differ.                                                                 *)
AskNodes(h) ==
    /\ pc[h] = "walk"
    /\ linked[h]
    /\ LET below == level[h] + 1
           differ == Diverging(local[h], Remote(h), below, Candidates(nodes[h]))
       IN  IF differ = {}
             THEN CloseEpoch(h)
             ELSE /\ level' = [level EXCEPT ![h] = below]
                  /\ nodes' = [nodes EXCEPT ![h] = differ]
                  /\ pc' = [pc EXCEPT ![h] = IF below = Depth THEN "buckets" ELSE "walk"]
                  /\ UNCHANGED <<epoch, local, missing>>
    /\ UNCHANGED <<now, tables, link, agenda, group, wire, bounds, offered, failed>>

(* What the peer has in the next buckets that differ and this hub had not. *)
AskBuckets(h) ==
    /\ pc[h] = "buckets"
    /\ linked[h]
    /\ LET chunk == Lowest(MaxBuckets, nodes[h])
           found == {m \in Remote(h) : Prefix[m][Depth] \in chunk}
           all == missing[h] \cup (found \ local[h])
       IN  IF nodes[h] \subseteq chunk /\ all = {}
             THEN CloseEpoch(h)
             ELSE /\ nodes' = [nodes EXCEPT ![h] = @ \ chunk]
                  /\ missing' = [missing EXCEPT ![h] = all]
                  /\ pc' = [pc EXCEPT ![h] =
                               IF nodes[h] \subseteq chunk THEN "fetch" ELSE "buckets"]
                  /\ UNCHANGED <<epoch, local, level>>
    /\ UNCHANGED <<now, tables, link, agenda, group, wire, bounds, offered, failed>>

(* A request, or reading the hub's own store, raises: the group is given   *)
(* up for this round, the others are not.                                  *)
GroupFails(h) ==
    /\ pc[h] \in {"epochs", "walk", "buckets"}
    /\ Fails(h)
    /\ agenda' = [agenda EXCEPT ![h] = @ \ Todo(h)]
    /\ epoch' = [epoch EXCEPT ![h] = 0]
    /\ local' = [local EXCEPT ![h] = {}]
    /\ level' = [level EXCEPT ![h] = 0]
    /\ nodes' = [nodes EXCEPT ![h] = {}]
    /\ missing' = [missing EXCEPT ![h] = {}]
    /\ pc' = [pc EXCEPT ![h] = "groups"]
    /\ failed' = [failed EXCEPT ![h] = @ \cup {group[h]}]
    /\ UNCHANGED <<now, tables, link, group, wire, rounds, offered>>
----------------------------------------------------------------------------
(* Fetching. *)

(* The hub asks for the next batch; the peer sends what it still has of it *)
(* as a resource, or says that it has nothing.                             *)
AskFetch(h) ==
    /\ pc[h] = "fetch"
    /\ linked[h]
    /\ \E batch \in SUBSET missing[h] :
          /\ batch # {}
          /\ Cardinality(batch) <= MaxBatch
          /\ Cardinality(batch) = MaxBatch \/ batch = missing[h]
          /\ LET sent == batch \cap store[peer[h]]
             IN  IF sent = {}
                   THEN /\ arrived' = [arrived EXCEPT ![h] = FALSE]
                        /\ IF batch = missing[h]
                             THEN CloseEpoch(h)
                             ELSE /\ missing' = [missing EXCEPT ![h] = @ \ batch]
                                  /\ UNCHANGED <<pc, epoch, local, level, nodes>>
                        /\ UNCHANGED air
                   ELSE /\ arrived' = [arrived EXCEPT ![h] = FALSE]
                        /\ air' = [air EXCEPT ![h] = @ \cup {sent}]
                        /\ missing' = [missing EXCEPT ![h] = @ \ batch]
                        /\ pc' = [pc EXCEPT ![h] = "wait"]
                        /\ UNCHANGED <<epoch, local, level, nodes>>
    /\ UNCHANGED <<now, tables, link, agenda, group, bounds, offered, failed>>

(* A resource has arrived, this one or another. *)
Continue(h) ==
    /\ pc[h] = "wait"
    /\ arrived[h]
    /\ IF missing[h] = {}
         THEN CloseEpoch(h)
         ELSE /\ pc' = [pc EXCEPT ![h] = "fetch"]
              /\ UNCHANGED walk
    /\ UNCHANGED <<now, tables, link, agenda, group, wire, bounds, offered, failed>>

(* None has within link_timeout_sec.  The rest of the epoch is left for    *)
(* another round, and the resource may still arrive.                       *)
WaitTimesOut(h) ==
    /\ pc[h] = "wait"
    /\ ~arrived[h]
    /\ Fails(h)
    /\ CloseEpoch(h)
    /\ failed' = [failed EXCEPT ![h] = Groups]
    /\ UNCHANGED <<now, tables, link, agenda, group, wire, rounds, offered>>

(* The request for a batch fails, before or after the peer has sent it. *)
FetchFails(h) ==
    /\ pc[h] = "fetch"
    /\ Fails(h)
    /\ \/ UNCHANGED air
       \/ /\ linked[h]
          /\ \E sent \in SUBSET (missing[h] \cap store[peer[h]]) \ {{}} :
                /\ Cardinality(sent) <= MaxBatch
                /\ air' = [air EXCEPT ![h] = @ \cup {sent}]
    /\ arrived' = [arrived EXCEPT ![h] = FALSE]
    /\ agenda' = [agenda EXCEPT ![h] = @ \ Todo(h)]
    /\ epoch' = [epoch EXCEPT ![h] = 0]
    /\ local' = [local EXCEPT ![h] = {}]
    /\ level' = [level EXCEPT ![h] = 0]
    /\ nodes' = [nodes EXCEPT ![h] = {}]
    /\ missing' = [missing EXCEPT ![h] = {}]
    /\ pc' = [pc EXCEPT ![h] = "groups"]
    /\ failed' = [failed EXCEPT ![h] = Groups]
    /\ UNCHANGED <<now, tables, link, group, rounds, offered>>

(* Hub h stores some messages that it got. *)
Store(h, S) ==
    /\ store' = [store EXCEPT ![h] = @ \cup S]
    /\ ever' = [ever EXCEPT ![h] = @ \cup S]

(* The link's thread ingests a batch, the records of groups that this hub  *)
(* hosts, one by one.                                                      *)
Arrives(h, batch) ==
    /\ batch \in air[h]
    /\ Store(h, {m \in batch : GroupOf[m] \in Hosts[h]})
    /\ air' = [air EXCEPT ![h] = @ \ {batch}]
    /\ arrived' = [arrived EXCEPT ![h] = TRUE]
    /\ UNCHANGED <<now, pc, link, agenda, group, walk, bounds, offered, failed>>

(* It is incomplete, or an insert raises after some of the records. *)
ArrivesBroken(h, batch) ==
    /\ batch \in air[h]
    /\ Fault
    /\ \E some \in SUBSET batch : Store(h, {m \in some : GroupOf[m] \in Hosts[h]})
    /\ air' = [air EXCEPT ![h] = @ \ {batch}]
    /\ arrived' = [arrived EXCEPT ![h] = TRUE]
    /\ failed' = [failed EXCEPT ![h] = Groups]
    /\ UNCHANGED <<now, pc, link, agenda, group, walk, rounds, offered>>
----------------------------------------------------------------------------
(* The rest of the hub, and the world. *)

(* GroupHub.tla: a message is accepted and stored. *)
Post(h, m) ==
    /\ h \in SentTo[m]
    /\ m \notin ever[h]
    /\ GroupOf[m] \in Hosts[h]
    /\ Store(h, {m})
    /\ UNCHANGED <<now, client, bounds, offered, failed>>

(* Faulty: the cut is an epoch too late. *)
MutExpiredEarly(m) == Time[m] < now - (Retention - 1) * EpochLength

Expired(m) == Time[m] < now - Retention * EpochLength

Prune(h) ==
    /\ Retention > 0
    /\ \E m \in store[h] : Expired(m)
    /\ store' = [store EXCEPT ![h] = {m \in @ : ~Expired(m)}]
    /\ offered' = [k \in Hubs |-> IF k = h \/ peer[k] = h
                                    THEN {m \in offered[k] : ~Expired(m)}
                                    ELSE offered[k]]
    /\ UNCHANGED <<now, ever, client, bounds, failed>>

LinkBreaks(h) ==
    /\ linked[h]
    /\ Fault
    /\ linked' = [linked EXCEPT ![h] = FALSE]
    /\ air' = [air EXCEPT ![h] = {}]
    /\ failed' = [failed EXCEPT ![h] = Groups]
    /\ UNCHANGED <<now, tables, pc, peer, agenda, group, walk, arrived, rounds, offered>>

(* Hub h is killed and started again: its own round is forgotten, and the  *)
(* links of the others to it are gone.                                     *)
Restart(h) ==
    /\ Fault
    /\ pc' = [pc EXCEPT ![h] = "idle"]
    /\ peer' = [peer EXCEPT ![h] = h]
    /\ LET cut == {k \in Hubs : k = h \/ peer[k] = h}
       IN  /\ linked' = [k \in Hubs |-> k \notin cut /\ linked[k]]
           /\ air' = [k \in Hubs |-> IF k \in cut THEN {} ELSE air[k]]
           /\ failed' = [k \in Hubs |-> CASE k = h -> {}
                                          [] k \in cut \ {h} -> Groups
                                          [] OTHER -> failed[k]]
    /\ agenda' = [agenda EXCEPT ![h] = {}]
    /\ group' = [group EXCEPT ![h] = SomeGroup]
    /\ epoch' = [epoch EXCEPT ![h] = 0]
    /\ local' = [local EXCEPT ![h] = {}]
    /\ level' = [level EXCEPT ![h] = 0]
    /\ nodes' = [nodes EXCEPT ![h] = {}]
    /\ missing' = [missing EXCEPT ![h] = {}]
    /\ arrived' = [arrived EXCEPT ![h] = FALSE]
    /\ offered' = [offered EXCEPT ![h] = {}]
    /\ UNCHANGED <<now, tables, rounds>>

Tick ==
    /\ now < MaxTime
    /\ now' = now + 1
    /\ UNCHANGED <<tables, client, bounds, offered, failed>>
----------------------------------------------------------------------------
Round(h) ==
    \/ AskRoots(h) \/ NoRoots(h) \/ EndRound(h)
    \/ \E g \in Groups : EnterGroup(h, g)
    \/ LeaveGroup(h) \/ OpenEpoch(h) \/ AskNodes(h) \/ AskBuckets(h) \/ GroupFails(h)
    \/ AskFetch(h) \/ Continue(h) \/ WaitTimesOut(h) \/ FetchFails(h)

Delivery(h) == \E batch \in air[h] : Arrives(h, batch)

Next ==
    \/ \E h \in Hubs :
         \/ \E p \in Hubs : Connect(h, p)
         \/ Round(h)
         \/ Delivery(h)
         \/ \E batch \in air[h] : ArrivesBroken(h, batch)
         \/ \E m \in Messages : Post(h, m)
         \/ Prune(h) \/ LinkBreaks(h) \/ Restart(h)
    \/ Tick

Spec == Init /\ [][Next]_vars

(* The peers that hub h reconciles with: each has to name the other. *)
Mutual(h) == {p \in Peers[h] : h \in Peers[p]}

(* The thread goes through its peers again and again, a request ends, be   *)
(* it by its timeout, and what is sent over a link that stays up arrives.  *)
(* Nothing is asked of a hub no peer answers.                              *)
FairSpec ==
    /\ Spec
    /\ \A h \in {k \in Hubs : Mutual(k) # {}} :
          /\ \A p \in Mutual(h) : SF_vars(Connect(h, p))
          /\ WF_vars(Round(h))
          /\ WF_vars(Delivery(h))
----------------------------------------------------------------------------
(* Properties. *)

(* After a round, this hub has every message of a group both host that the *)
(* peer held from the roots on and that is within the window, however both *)
(* stores moved during the walk, unless something failed for that group.   *)
(* The answers of a round are of different moments: a subtree that changed *)
(* after its parent was compared must not hide what the peer had all along *)
(* (federation.py:442-483).                                                *)
RoundIsComplete ==
    \A h \in Hubs : pc[h] = "groups" /\ agenda[h] = {} =>
        \A m \in offered[h] :
            GroupOf[m] \in Hosts[h] \ failed[h] /\ Epoch(m) >= Oldest => m \in store[h]

(* What a hub stores was posted there or came from a peer of it, and goes  *)
(* when it is older than the retention: the reconciliation implements      *)
(* Sync.tla.                                                               *)
Replication == INSTANCE Sync WITH Kept <- Retention * EpochLength
Replicates == Replication!Spec

(* A message a hub holds ends up at each hub that reconciles with it and   *)
(* hosts the group, unless it is pruned or leaves the window before:       *)
(* federation "moves data in bulk" and "backfill falls out of the same     *)
(* mechanism" (README.md:195, 219).                                        *)
Converges ==
    \A h \in Hubs : \A p \in Mutual(h) :
        \A m \in {n \in Messages : GroupOf[n] \in Hosts[h]} :
            m \in store[p] ~> m \in store[h] \/ m \notin store[p] \/ Epoch(m) < Oldest

(* "epochs older than the window are skipped during sync so a pruned hub   *)
(* doesn't re-download what it just deleted" (README.md:221).  It does: a  *)
(* prune cuts inside the oldest epoch of the window (hub.py:466-470), and  *)
(* a peer that has not pruned yet still offers that epoch                  *)
(* (federation.py:583-594).                                                *)
PrunedStaysPruned ==
    [][\A h \in Hubs : \A m \in ever[h] \ store[h] : m \notin store'[h]]_vars
=============================================================================
