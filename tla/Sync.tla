-------------------------------- MODULE Sync --------------------------------
(***************************************************************************)
(* What message federation promises, whatever it exchanges to get there: a *)
(* hub comes by a message that is sent to it, or by copying it from one    *)
(* of its own peers that has stored it, and only for a group it hosts; it  *)
(* lets go of a message only when it is older than the retention.          *)
(***************************************************************************)
EXTENDS Integers

CONSTANTS
    Hubs, Messages, Groups,
    Peers,          \* the peers each hub is configured with
    Hosts,          \* the groups each hub hosts
    GroupOf,        \* the group of each message
    Time,           \* its timestamp, by its sender's clock
    SentTo,         \* the hubs it is sent to
    Kept            \* for how long a message is kept

VARIABLES
    now,
    store,          \* what each hub stores
    ever            \* what each hub has ever stored

Init ==
    /\ now \in Nat
    /\ store = [h \in Hubs |-> {}]
    /\ ever = [h \in Hubs |-> {}]

Stores(h, S) ==
    /\ \A m \in S : GroupOf[m] \in Hosts[h]
    /\ store' = [store EXCEPT ![h] = @ \cup S]
    /\ ever' = [ever EXCEPT ![h] = @ \cup S]
    /\ UNCHANGED now

Post(h, m) ==
    /\ h \in SentTo[m]
    /\ Stores(h, {m})

Copy(h, p, S) ==
    /\ p \in Peers[h]
    /\ S \subseteq ever[p]
    /\ Stores(h, S)

Forget(h, S) ==
    /\ \A m \in S : Time[m] < now - Kept
    /\ store' = [store EXCEPT ![h] = @ \ S]
    /\ UNCHANGED <<now, ever>>

Pass ==
    /\ now' = now + 1
    /\ UNCHANGED <<store, ever>>

Next ==
    \/ \E h \in Hubs :
         \/ \E m \in Messages : Post(h, m)
         \/ \E p \in Hubs, S \in SUBSET Messages : Copy(h, p, S)
         \/ \E S \in SUBSET Messages : Forget(h, S)
    \/ Pass

Spec == Init /\ [][Next]_<<now, store, ever>>
=============================================================================
