------------------------------ MODULE GroupHub ------------------------------
(***************************************************************************)
(* The group logic of one hub (hub.py) for one group: what becomes of a    *)
(* message on its way in, whoever brings it, while others change who       *)
(* belongs to the group.                                                   *)
(*                                                                         *)
(* Threads.  The router delivers in its own threads, several at a time.    *)
(* The egress thread replays the messages that were held because their     *)
(* sender's identity was not known yet.  The federation thread brings what *)
(* a peer hub stored.  All three run the same code, and nothing makes a    *)
(* message's handling atomic but the store's own transactions: the role of *)
(* the sender, the members, the adopted members and finally the insert are *)
(* one step each here.  Meanwhile the operator and the failover engine     *)
(* change the tables those steps read.                                     *)
(*                                                                         *)
(* The group exists and is attached throughout; Operator.tla is about what *)
(* happens when it is deleted or created.  Commands are enabled.  A text   *)
(* is what it asks for: a post, one of the four moderation verbs, a link   *)
(* with a code of another device's persona, or any other command, which    *)
(* changes nothing here.  The answers to commands are user rows of         *)
(* Egress.tla.                                                             *)
(***************************************************************************)
EXTENDS Naturals, Sequences

CONSTANTS
    Users,          \* LXMF addresses
    Messages,       \* the LXMF messages that are ever sent to the group
    Author,         \* the sender of each
    Text,           \* what each says: [verb |-> ..., who |-> ...]
    Genuine,        \* those whose signature is good
    PeerMembers,    \* the members the group has on peer hubs
    Routers,        \* the router's delivery threads
    Egress,         \* the egress scheduler's thread
    Federation,     \* the federation link's thread
    NoMessage,
    MaxDeliveries,  \* bound: messages the network delivers here, copies included
    MaxChanges,     \* bound: changes by the operator and the failover engine
    MaxFaults       \* bound: exceptions and kills

Threads == Routers \cup {Egress, Federation}
Verbs == {"post", "add", "remove", "ban", "unban", "link", "ask"}
Moderation == {"add", "remove", "ban", "unban"}

ASSUME ThreadsAssumption == Egress # Federation /\ Routers \cap {Egress, Federation} = {}
ASSUME MessagesAssumption ==
    /\ Author \in [Messages -> Users]
    /\ Text \in [Messages -> [verb : Verbs, who : Users]]
    /\ Genuine \subseteq Messages
    /\ NoMessage \notin Messages
    /\ PeerMembers \subseteq Users
ASSUME BoundsAssumption ==
    MaxDeliveries \in Nat /\ MaxChanges \in Nat /\ MaxFaults \in Nat

VARIABLES
    \* On disk.
    acl,          \* the group's ACL mode
    members,      \* the role of each user; "none": no row
    adopted,      \* the peer members this hub serves
    stored,       \* the messages table
    queue,        \* <<message, user>>: what was queued for a stored message
    \* In memory.
    known,        \* the senders whose identity RNS can recall
    held,         \* the messages held for their sender's identity
    batch,        \* the held messages the egress thread took and has not come to
    kept,         \* those of them it will put back
    answered,     \* the senders answered within the reply interval
    pc,           \* where each thread is
    handling,     \* the message it handles
    mode,         \* the ACL mode of the group as it read it
    fresh,        \* the senders it found answered within the interval
    newRole,      \* the role it is about to write
    to,           \* the recipients it has gathered
    listed,       \* the users it found in the members table
    \* What happened, for the bounds and the properties.
    deliveries, changes, faults,
    watch         \* <<user, kind>>: what held all along since it took the message

disk == <<acl, members, adopted, stored, queue>>
holding == <<held, batch, kept>>
reading == <<mode, fresh, newRole, to, listed>>
thread == <<pc, handling, reading>>
bounds == <<deliveries, changes, faults>>
vars == <<disk, holding, known, answered, thread, bounds, watch>>

Modes == {"public", "invite"}
Roles == {"none", "member", "admin", "banned"}
Places == {"idle", "role", "peer", "enrol", "text", "mark", "target", "write",
           "adopted", "store"}
Kinds == {"local", "served", "outside", "stranger", "banned", "admin", "plain"}
Entries == [msg : Messages, late : BOOLEAN]

TypeOK ==
    /\ acl \in Modes
    /\ members \in [Users -> Roles]
    /\ adopted \subseteq Users
    /\ stored \subseteq Messages
    /\ queue \subseteq Messages \X Users
    /\ known \subseteq Users
    /\ held \in Seq(Entries) /\ batch \in Seq(Entries) /\ kept \in Seq(Entries)
    /\ answered \subseteq Users
    /\ pc \in [Threads -> Places]
    /\ handling \in [Threads -> Messages \cup {NoMessage}]
    /\ \A t \in Threads : (pc[t] = "idle") = (handling[t] = NoMessage)
    /\ mode \in [Threads -> Modes]
    /\ fresh \in [Threads -> SUBSET Users]
    /\ newRole \in [Threads -> Roles]
    /\ to \in [Threads -> SUBSET Users]
    /\ listed \in [Threads -> SUBSET Users]
    /\ deliveries \in Nat /\ changes \in Nat /\ faults \in Nat
    /\ watch \in [Threads -> SUBSET (Users \X Kinds)]

Init ==
    /\ acl \in Modes
    /\ members \in [Users -> Roles]
    /\ adopted \in SUBSET PeerMembers
    /\ stored = {} /\ queue = {}
    /\ known \in SUBSET Users
    /\ held = <<>> /\ batch = <<>> /\ kept = <<>>
    /\ answered = {}
    /\ pc = [t \in Threads |-> "idle"]
    /\ handling = [t \in Threads |-> NoMessage]
    /\ mode = [t \in Threads |-> "invite"]
    /\ fresh = [t \in Threads |-> {}]
    /\ newRole = [t \in Threads |-> "none"]
    /\ to = [t \in Threads |-> {}]
    /\ listed = [t \in Threads |-> {}]
    /\ deliveries = 0 /\ changes = 0 /\ faults = 0
    /\ watch = [t \in Threads |-> {}]
----------------------------------------------------------------------------
(* Helpers. *)

Local == {u \in Users : members[u] \in {"member", "admin"}}
Banned == {u \in Users : members[u] = "banned"}

(* The message a thread handles, its sender and what it says. *)
Sender(t) == Author[handling[t]]
Verb(t) == Text[handling[t]].verb
Who(t) == Text[handling[t]].who

(* What is true of the users now: who is a member, who is served for a     *)
(* peer, who is neither, who has no row in an invite-only group, who is    *)
(* banned, who is an admin and who is not.                                 *)
Standing ==
    (Local \X {"local"})
      \cup ((adopted \ Banned) \X {"served"})
      \cup ({u \in Users : members[u] = "none" /\ u \notin adopted} \X {"outside"})
      \cup ({u \in Users : members[u] = "none" /\ acl = "invite"} \X {"stranger"})
      \cup (Banned \X {"banned"})
      \cup ({u \in Users : members[u] = "admin"} \X {"admin"})
      \cup ({u \in Users : members[u] # "admin"} \X {"plain"})

(* Each thread's watch keeps what stayed true since it took its message.   *)
Observe ==
    watch' = [t \in Threads |->
                 IF pc'[t] = "idle" THEN {}
                 ELSE IF pc[t] = "idle" THEN Standing'
                 ELSE watch[t] \cap Standing']

(* Thread t takes up message m: it reads the group and works with that.    *)
Begin(t, m, place) ==
    /\ pc' = [pc EXCEPT ![t] = place]
    /\ handling' = [handling EXCEPT ![t] = m]
    /\ mode' = [mode EXCEPT ![t] = acl]
    /\ UNCHANGED <<fresh, newRole, to, listed>>

Goto(t, place) ==
    /\ pc' = [pc EXCEPT ![t] = place]
    /\ UNCHANGED handling

(* Faulty: a thread that is through keeps its message. *)
MutFinishKeepsMessage(t) ==
    /\ pc' = [pc EXCEPT ![t] = "idle"]
    /\ mode' = [mode EXCEPT ![t] = "invite"]
    /\ fresh' = [fresh EXCEPT ![t] = {}]
    /\ newRole' = [newRole EXCEPT ![t] = "none"]
    /\ to' = [to EXCEPT ![t] = {}]
    /\ listed' = [listed EXCEPT ![t] = {}]
    /\ UNCHANGED handling

(* Thread t is through with its message and forgets what it read. *)
Finish(t) ==
    /\ pc' = [pc EXCEPT ![t] = "idle"]
    /\ handling' = [handling EXCEPT ![t] = NoMessage]
    /\ mode' = [mode EXCEPT ![t] = "invite"]
    /\ fresh' = [fresh EXCEPT ![t] = {}]
    /\ newRole' = [newRole EXCEPT ![t] = "none"]
    /\ to' = [to EXCEPT ![t] = {}]
    /\ listed' = [listed EXCEPT ![t] = {}]
----------------------------------------------------------------------------
(* A message comes in. *)

(* The router hands over a message.  While RNS cannot recall its sender    *)
(* nothing can be said about the signature, and the message is held.  A    *)
(* bad signature drops it.                                                 *)
Deliver(t, m) ==
    /\ pc[t] = "idle"
    /\ deliveries < MaxDeliveries
    /\ deliveries' = deliveries + 1
    /\ \/ /\ Author[m] \notin known
          /\ held' = Append(held, [msg |-> m, late |-> FALSE])
          /\ UNCHANGED thread
       \/ /\ Author[m] \in known
          /\ m \in Genuine
          /\ Begin(t, m, "role")
          /\ UNCHANGED held
       \/ /\ Author[m] \in known
          /\ m \notin Genuine
          /\ UNCHANGED <<held, thread>>
    /\ UNCHANGED <<disk, known, batch, kept, answered, changes, faults>>
    /\ Observe

(* A peer's resource brings a message it stored: not a command, and not    *)
(* checked against this hub's members.                                     *)
Ingest(m) ==
    /\ pc[Federation] = "idle"
    /\ deliveries < MaxDeliveries
    /\ m \in Genuine
    /\ Text[m].verb = "post"
    /\ deliveries' = deliveries + 1
    /\ Begin(Federation, m, "text")
    /\ UNCHANGED <<disk, holding, known, answered, changes, faults>>
    /\ Observe

(* A sender the group does not accept is heard for one thing only.         *)
Refuse(t) ==
    IF Verb(t) = "link"
      THEN Goto(t, "text") /\ UNCHANGED reading
      ELSE Finish(t)

(* Faulty: every row in the members table admits. *)
MutReadAnyRow(t) ==
    /\ pc[t] = "role"
    /\ Goto(t, IF members[Sender(t)] = "none" THEN "peer" ELSE "text")
    /\ UNCHANGED <<disk, holding, known, answered, bounds, reading>>
    /\ Observe

(* authorise: the sender's role, then whether a peer has it as a member,   *)
(* then enrolment where the group is public.                               *)
ReadRole(t) ==
    /\ pc[t] = "role"
    /\ CASE members[Sender(t)] = "banned" -> Refuse(t)
         [] members[Sender(t)] = "none" ->
                Goto(t, "peer") /\ UNCHANGED reading
         [] OTHER -> Goto(t, "text") /\ UNCHANGED reading
    /\ UNCHANGED <<disk, holding, known, answered, bounds>>
    /\ Observe

AskPeers(t) ==
    /\ pc[t] = "peer"
    /\ IF Sender(t) \in PeerMembers \/ mode[t] = "public"
         THEN /\ Goto(t, IF Sender(t) \in PeerMembers THEN "text" ELSE "enrol")
              /\ UNCHANGED reading
         ELSE Refuse(t)
    /\ UNCHANGED <<disk, holding, known, answered, bounds>>
    /\ Observe

Enrol(t) ==
    /\ pc[t] = "enrol"
    /\ members' = [members EXCEPT ![Sender(t)] = "member"]
    /\ Goto(t, "text")
    /\ UNCHANGED <<acl, adopted, stored, queue, holding, known, answered, bounds,
                   reading>>
    /\ Observe
----------------------------------------------------------------------------
(* Commands (usercmds.py). *)

(* A command within the sender's reply interval is swallowed.  Otherwise   *)
(* the role it runs with is read, and a copy of the table of answered      *)
(* senders is made that drops those whose interval is over.                *)
TakeCommand(t) ==
    /\ pc[t] = "text"
    /\ Verb(t) # "post"
    /\ \/ /\ Sender(t) \in answered
          /\ Finish(t)
       \/ /\ Sender(t) \notin answered
          /\ Goto(t, "mark")
          /\ fresh' = [fresh EXCEPT ![t] = answered]
          /\ newRole' = [newRole EXCEPT ![t] = members[Sender(t)]]
          /\ UNCHANGED <<mode, to, listed>>
    /\ UNCHANGED <<disk, holding, known, answered, bounds>>
    /\ Observe

(* The copy replaces the table and the sender enters it.  A moderation     *)
(* goes on only for an admin, and not against itself.                      *)
MarkAnswered(t) ==
    /\ pc[t] = "mark"
    /\ answered' = fresh[t] \cup {Sender(t)}
    /\ \/ /\ \/ Verb(t) = "link"
             \/ Verb(t) \in Moderation /\ newRole[t] = "admin" /\ Who(t) # Sender(t)
          /\ Goto(t, "target")
          /\ fresh' = [fresh EXCEPT ![t] = {}]
          /\ newRole' = [newRole EXCEPT ![t] = "none"]
          /\ UNCHANGED <<mode, to, listed>>
       \/ /\ \/ Verb(t) = "ask"
             \/ Verb(t) \in Moderation /\ (newRole[t] # "admin" \/ Who(t) = Sender(t))
          /\ Finish(t)
    /\ UNCHANGED <<disk, holding, known, bounds>>
    /\ Observe

(* Faulty: an admin can be demoted like anybody else. *)
MutDecisionAboutAnybody(verb, role) ==
    CASE verb = "add" -> {"member"}
      [] verb = "remove" /\ role # "none" -> {"none"}
      [] verb = "ban" -> {"banned"}
      [] verb = "unban" /\ role = "banned" -> {"member"}
      [] verb = "link" /\ role \in {"member", "admin"} -> {role}
      [] OTHER -> {}

(* The role a command gives, and to whom, by the role the named user has.  *)
(* A link carries the role of the persona's other device over.             *)
Decision(verb, role) ==
    CASE verb = "add" /\ role # "admin" -> {"member"}
      [] verb = "remove" /\ role \notin {"admin", "none"} -> {"none"}
      [] verb = "ban" /\ role # "admin" -> {"banned"}
      [] verb = "unban" /\ role = "banned" -> {"member"}
      [] verb = "link" /\ role \in {"member", "admin"} -> {role}
      [] OTHER -> {}

Subject(t) == IF Verb(t) = "link" THEN Sender(t) ELSE Who(t)

ReadTarget(t) ==
    /\ pc[t] = "target"
    /\ \/ \E role \in Decision(Verb(t), members[Who(t)]) :
              /\ newRole' = [newRole EXCEPT ![t] = role]
              /\ Goto(t, "write")
              /\ UNCHANGED <<mode, fresh, to, listed>>
       \/ /\ Decision(Verb(t), members[Who(t)]) = {}
          /\ Finish(t)
    /\ UNCHANGED <<disk, holding, known, answered, bounds>>
    /\ Observe

WriteRole(t) ==
    /\ pc[t] = "write"
    /\ members' = [members EXCEPT ![Subject(t)] = newRole[t]]
    /\ Finish(t)
    /\ UNCHANGED <<acl, adopted, stored, queue, holding, known, answered, bounds>>
    /\ Observe

(* min_reply_interval_sec after an answer its sender may ask again.        *)
IntervalEnds(u) ==
    /\ \/ u \in answered
       \/ \E t \in Threads : u \in fresh[t]
    /\ answered' = answered \ {u}
    /\ fresh' = [t \in Threads |-> fresh[t] \ {u}]
    /\ UNCHANGED <<disk, holding, known, bounds, pc, handling, mode, newRole, to, listed>>
    /\ Observe
----------------------------------------------------------------------------
(* Fan-out. *)

(* recipients: the members table, then the adoptions of users it does not  *)
(* list.                                                                   *)
ListMembers(t) ==
    /\ pc[t] = "text"
    /\ Verb(t) = "post"
    /\ to' = [to EXCEPT ![t] = Local]
    /\ listed' = [listed EXCEPT ![t] = Local \cup Banned]
    /\ Goto(t, "adopted")
    /\ UNCHANGED <<disk, holding, known, answered, bounds, mode, fresh, newRole>>
    /\ Observe

(* Faulty: an adoption counts whatever the members table says. *)
MutListEveryAdopted(t) ==
    /\ pc[t] = "adopted"
    /\ to' = [to EXCEPT ![t] = @ \cup adopted]
    /\ listed' = [listed EXCEPT ![t] = {}]
    /\ Goto(t, "store")
    /\ UNCHANGED <<disk, holding, known, answered, bounds, mode, fresh, newRole>>
    /\ Observe

ListAdopted(t) ==
    /\ pc[t] = "adopted"
    /\ to' = [to EXCEPT ![t] = @ \cup (adopted \ listed[t])]
    /\ listed' = [listed EXCEPT ![t] = {}]
    /\ Goto(t, "store")
    /\ UNCHANGED <<disk, holding, known, answered, bounds, mode, fresh, newRole>>
    /\ Observe

(* One transaction: a message that is already known queues nothing.        *)
StoreAndFanOut(t) ==
    /\ pc[t] = "store"
    /\ stored' = stored \cup {handling[t]}
    /\ queue' = IF handling[t] \in stored
                  THEN queue
                  ELSE queue \cup ({handling[t]} \X (to[t] \ {Sender(t)}))
    /\ Finish(t)
    /\ UNCHANGED <<acl, members, adopted, holding, known, answered, bounds>>
    /\ Observe

Prune(m) ==
    /\ m \in stored
    /\ stored' = stored \ {m}
    /\ queue' = {row \in queue : row[1] # m}
    /\ UNCHANGED <<acl, members, adopted, holding, known, answered, bounds, thread>>
    /\ Observe
----------------------------------------------------------------------------
(* Held messages. *)

(* The identity of a user becomes known: it announced itself. *)
Learn(u) ==
    /\ u \notin known
    /\ known' = known \cup {u}
    /\ UNCHANGED <<disk, holding, answered, bounds, thread>>
    /\ Observe

(* unverified_hold_sec pass for a held message. *)
DeadlinePasses(i) ==
    /\ ~held[i].late
    /\ held' = [held EXCEPT ![i].late = TRUE]
    /\ UNCHANGED <<disk, batch, kept, known, answered, bounds, thread>>
    /\ Observe

Retrying == pc[Egress] = "idle" /\ batch # <<>>

TakeHeld ==
    /\ pc[Egress] = "idle"
    /\ batch = <<>> /\ kept = <<>>
    /\ held # <<>>
    /\ batch' = held
    /\ held' = <<>>
    /\ UNCHANGED <<disk, kept, known, answered, bounds, thread>>
    /\ Observe

(* The deadline is over, or the signature turns out to be bad. *)
DropHeld ==
    /\ Retrying
    /\ \/ Head(batch).late
       \/ Author[Head(batch).msg] \in known /\ Head(batch).msg \notin Genuine
    /\ batch' = Tail(batch)
    /\ UNCHANGED <<disk, held, kept, known, answered, bounds, thread>>
    /\ Observe

KeepHeld ==
    /\ Retrying
    /\ ~Head(batch).late
    /\ Author[Head(batch).msg] \notin known
    /\ batch' = Tail(batch)
    /\ kept' = Append(kept, Head(batch))
    /\ UNCHANGED <<disk, held, known, answered, bounds, thread>>
    /\ Observe

Replay ==
    /\ Retrying
    /\ ~Head(batch).late
    /\ Author[Head(batch).msg] \in known
    /\ Head(batch).msg \in Genuine
    /\ batch' = Tail(batch)
    /\ Begin(Egress, Head(batch).msg, "role")
    /\ UNCHANGED <<disk, held, kept, known, answered, bounds>>
    /\ Observe

(* Faulty: what was held meanwhile is overwritten. *)
MutPutBack ==
    /\ pc[Egress] = "idle"
    /\ batch = <<>>
    /\ kept # <<>>
    /\ held' = kept
    /\ kept' = <<>>
    /\ UNCHANGED <<disk, batch, known, answered, bounds, thread>>
    /\ Observe

PutBack ==
    /\ pc[Egress] = "idle"
    /\ batch = <<>>
    /\ kept # <<>>
    /\ held' = held \o kept
    /\ kept' = <<>>
    /\ UNCHANGED <<disk, batch, known, answered, bounds, thread>>
    /\ Observe
----------------------------------------------------------------------------
(* Failures, and the others who write the tables. *)

(* A store call raises -- a full disk, a locked database -- or a held      *)
(* message cannot be unpacked.  The message's handling ends there, and in  *)
(* the egress thread the retry with it.                                    *)
Raise(t) ==
    /\ faults < MaxFaults
    /\ faults' = faults + 1
    /\ \/ pc[t] # "idle"
       \/ t = Egress /\ Retrying /\ ~Head(batch).late /\ Author[Head(batch).msg] \in known
    /\ Finish(t)
    /\ IF t = Egress
         THEN batch' = <<>> /\ kept' = <<>>
         ELSE UNCHANGED <<batch, kept>>
    /\ UNCHANGED <<disk, held, known, answered, deliveries, changes>>
    /\ Observe

(* The hub is killed and started again: only the tables survive. *)
Restart ==
    /\ faults < MaxFaults
    /\ faults' = faults + 1
    /\ held' = <<>> /\ batch' = <<>> /\ kept' = <<>>
    /\ answered' = {}
    /\ pc' = [t \in Threads |-> "idle"]
    /\ handling' = [t \in Threads |-> NoMessage]
    /\ mode' = [t \in Threads |-> "invite"]
    /\ fresh' = [t \in Threads |-> {}]
    /\ newRole' = [t \in Threads |-> "none"]
    /\ to' = [t \in Threads |-> {}]
    /\ listed' = [t \in Threads |-> {}]
    /\ UNCHANGED <<disk, known, deliveries, changes>>
    /\ Observe

Change ==
    /\ changes < MaxChanges
    /\ changes' = changes + 1
    /\ UNCHANGED <<stored, queue, holding, known, answered, deliveries, faults, thread>>

(* add-member, remove-member and set-acl. *)
OperatorSets(u, role) ==
    /\ Change
    /\ members[u] # role
    /\ members' = [members EXCEPT ![u] = role]
    /\ UNCHANGED <<acl, adopted>>
    /\ Observe

SetAcl ==
    /\ Change
    /\ acl' \in Modes \ {acl}
    /\ UNCHANGED <<members, adopted>>
    /\ Observe

Adopt(u) ==
    /\ Change
    /\ u \in PeerMembers \ adopted
    /\ adopted' = adopted \cup {u}
    /\ UNCHANGED <<acl, members>>
    /\ Observe

Release(u) ==
    /\ Change
    /\ u \in adopted
    /\ adopted' = adopted \ {u}
    /\ UNCHANGED <<acl, members>>
    /\ Observe
----------------------------------------------------------------------------
Handle(t) ==
    \/ ReadRole(t) \/ AskPeers(t) \/ Enrol(t)
    \/ TakeCommand(t) \/ MarkAnswered(t) \/ ReadTarget(t) \/ WriteRole(t)
    \/ ListMembers(t) \/ ListAdopted(t) \/ StoreAndFanOut(t)

Retry == TakeHeld \/ DropHeld \/ KeepHeld \/ Replay \/ PutBack

Others ==
    \/ \E u \in Users : Learn(u) \/ IntervalEnds(u) \/ Adopt(u) \/ Release(u)
    \/ \E u \in Users, role \in Roles : OperatorSets(u, role)
    \/ \E i \in DOMAIN held : DeadlinePasses(i)
    \/ \E m \in Messages : Prune(m)
    \/ SetAcl
    \/ Restart

Next ==
    \/ \E t \in Routers, m \in Messages : Deliver(t, m)
    \/ \E m \in Messages : Ingest(m)
    \/ \E t \in Threads : Handle(t) \/ Raise(t)
    \/ Retry
    \/ Others

Spec == Init /\ [][Next]_vars

----------------------------------------------------------------------------
(* Properties. *)

(* The thread that stores message m in this step. *)
Stores(t, m) == pc[t] = "store" /\ handling[t] = m /\ m \notin stored /\ pc'[t] = "idle"

All(t, u, kind) == <<u, kind>> \in watch[t]

(* Whoever was a member, or served for a silent peer and not banned, all   *)
(* the time the hub worked on a message has it queued once it is stored,   *)
(* whatever changed for others meanwhile; whoever was banned, or neither a *)
(* member nor served, all that time has not, and neither has its author.   *)
(* hub.py:352-386 reads two tables and then writes a third.                *)
FanOutIsFair ==
    [][\A m \in Messages : m \in stored' \ stored =>
          \E t \in Threads :
              /\ Stores(t, m)
              /\ \A u \in Users \ {Author[m]} :
                     /\ All(t, u, "local") \/ All(t, u, "served") => <<m, u>> \in queue'
                     /\ All(t, u, "banned") \/ All(t, u, "outside") => <<m, u>> \notin queue'
              /\ <<m, Author[m]>> \notin queue']_vars

(* A message that was sent to this hub is stored, and its author enrolled, *)
(* only if its signature is good and its author was, at some moment while  *)
(* the hub worked on it, welcome: not banned, and a member here or on a    *)
(* peer unless the group was public for a while, even if the message was   *)
(* held and replayed long after it came (hub.py:91-155, 212-240).          *)
Admissible(t) ==
    /\ handling[t] \in Genuine
    /\ ~All(t, Sender(t), "banned")
    /\ Sender(t) \notin PeerMembers => ~All(t, Sender(t), "stranger")

AclHolds ==
    [][\A t \in Threads \ {Federation} :
          /\ pc[t] = "enrol" /\ pc'[t] = "text" => Admissible(t)
          /\ \A m \in stored' \ stored : Stores(t, m) => Admissible(t)]_vars

(* A moderation command changes a role only for somebody who was an admin  *)
(* while it ran, never the sender's own, and never that of a user who was  *)
(* an admin all along (usercmds.py:220-244).                               *)
ModerationIsAuthorised ==
    [][\A t \in Threads :
          pc[t] = "write" /\ pc'[t] = "idle" /\ Verb(t) \in Moderation /\ members' # members =>
              /\ ~All(t, Sender(t), "plain")
              /\ members'[Sender(t)] = members[Sender(t)]
              /\ \A u \in Users : All(t, u, "admin") => members'[u] = members[u]]_vars

Holds(m) ==
    \E e \in Entries :
        e.msg = m /\ (\/ \E i \in DOMAIN held : held[i] = e
                      \/ \E i \in DOMAIN batch : batch[i] = e
                      \/ \E i \in DOMAIN kept : kept[i] = e)

(* A held message is not lost while others come and go: short of a kill or *)
(* an exception it leaves the hold in its own turn, because its deadline   *)
(* has passed, because its signature is bad now that the sender's identity *)
(* is known, or to be handled.  The retry takes the whole list, works on   *)
(* it without the lock and puts back what remains while the router goes on *)
(* holding others (hub.py:275-326).                                        *)
HeldLeavesForAReason ==
    [][\A m \in Messages : Holds(m) /\ ~Holds(m)' =>
          \/ faults' # faults
          \/ /\ Retrying /\ Head(batch).msg = m
             /\ \/ Head(batch).late
                \/ Author[m] \in known /\ (m \in Genuine => handling'[Egress] = m)]_vars
=============================================================================
