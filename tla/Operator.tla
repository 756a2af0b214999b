------------------------------ MODULE Operator ------------------------------
(***************************************************************************)
(* Administration of a running hub: the commands an operator sends over    *)
(* LXMF (control.py) or types at a shell (cli.py), the groups they create, *)
(* change and delete (admin.py), and the destinations the daemon attaches  *)
(* for the groups it finds in the database (destinations.py).              *)
(*                                                                         *)
(* Threads.  The router delivers commands in its threads, the egress       *)
(* thread replays those that were held for their sender's identity, and a  *)
(* shell is a process of its own.  Each checks a command against the       *)
(* database in one transaction and carries it out in another.  The         *)
(* supervisor lists the groups, attaches them one by one, and announces.   *)
(*                                                                         *)
(* A text is what it asks for; "ask" stands for every command that changes *)
(* nothing, the ill-formed ones included.  Names, roles, ACL modes and the *)
(* wording of answers are left out.  What the hub does with a message to a *)
(* group is in GroupHub.tla, and how an answer leaves its queue in         *)
(* Egress.tla.                                                             *)
(***************************************************************************)
EXTENDS Naturals, Sequences, FiniteSets

CONSTANTS
    Users,          \* LXMF addresses
    Operators,      \* operator_identity
    Ids,            \* group ids
    Messages,       \* the messages that are ever sent to the control address
    Author,         \* the sender of each
    Text,           \* what each says: [verb |-> ..., id |-> ..., who |-> ...]
    Genuine,        \* those whose signature is good
    Routers,        \* the router's delivery threads
    Egress,         \* the egress scheduler's thread
    Shell,          \* the shell the operator types commands at
    NoMessage,
    MaxSent,        \* bound: messages delivered here, and not forgotten
    MaxTyped,       \* bound: commands typed at the shell
    MaxFaults       \* bound: exceptions and kills

Daemon == Routers \cup {Egress}
Workers == Daemon \cup {Shell}
Verbs == {"create", "delete", "set-acl", "add", "remove", "ask"}

ASSUME WorkersAssumption == Egress \notin Routers /\ Shell \notin Daemon
ASSUME IdsAssumption == IsFiniteSet(Ids)
ASSUME CommandsAssumption ==
    /\ Operators \subseteq Users
    /\ Author \in [Messages -> Users]
    /\ Text \in [Messages -> [verb : Verbs, id : Ids, who : Users]]
    /\ Genuine \subseteq Messages
    /\ NoMessage \notin Messages
ASSUME LimitsAssumption == MaxSent \in Nat /\ MaxTyped \in Nat /\ MaxFaults \in Nat

VARIABLES
    \* On disk.  Identities are numbered as they are generated; 0 is none.
    groups,       \* the identity of each group; 0: no such group
    members,      \* the members table, as <<id, user>>
    answers,      \* the commands whose answer has been queued
    \* In the daemon's memory.
    attached,     \* the identity each group's destination was made from; 0: none
    due,          \* the groups whose announce is due
    loading,      \* whether the supervisor is hot-loading
    listing,      \* the rows it has read and not come to, as <<id, identity>>
    held, batch, kept,  \* held commands: on the list, taken for a retry, to put back
    \* Each worker.
    pc,           \* where it is
    handling,     \* the command it carries out
    \* The world.
    known,        \* the senders whose identity RNS can recall
    delivered,    \* the messages LXMF knows it has delivered
    heard,        \* the identities that have been announced
    \* Counters.
    made,         \* identities generated
    typed, faults

database == <<groups, members, answers>>
destinations == <<attached, due, loading, listing>>
holding == <<held, batch, kept>>
worker == <<pc, handling>>
world == <<known, delivered, heard>>
vars == <<database, destinations, holding, worker, world, made, typed, faults>>

Places == {"idle", "check", "role", "act", "reply"}

TypeOK ==
    /\ made \in Nat
    /\ groups \in [Ids -> 0 .. made]
    /\ members \subseteq Ids \X Users
    /\ answers \subseteq Messages
    /\ attached \in [Ids -> 0 .. made]
    /\ due \subseteq {i \in Ids : attached[i] # 0}
    /\ loading \in BOOLEAN
    /\ listing \subseteq Ids \X (1 .. made)
    /\ held \in Seq(Messages) /\ batch \in Seq(Messages) /\ kept \in Seq(Messages)
    /\ pc \in [Workers -> Places]
    /\ handling \in [Workers -> Messages \cup {NoMessage}]
    /\ \A w \in Workers : (pc[w] = "idle") = (handling[w] = NoMessage)
    /\ known \subseteq Users
    /\ delivered \subseteq Messages
    /\ heard \subseteq 1 .. made
    /\ typed \in Nat /\ faults \in Nat

(* The daemon starts on a database that may have groups already. *)
Init ==
    /\ made = Cardinality(Ids)
    /\ groups \in [Ids -> 0 .. made]
    /\ \A i, j \in Ids : groups[i] = groups[j] /\ groups[i] # 0 => i = j
    /\ members \in SUBSET (Ids \X Users)
    /\ \A row \in members : groups[row[1]] # 0
    /\ answers = {}
    /\ attached = [i \in Ids |-> 0]
    /\ due = {} /\ loading = FALSE /\ listing = {}
    /\ held = <<>> /\ batch = <<>> /\ kept = <<>>
    /\ pc = [w \in Workers |-> "idle"]
    /\ handling = [w \in Workers |-> NoMessage]
    /\ known \in SUBSET Users
    /\ delivered = {} /\ heard = {}
    /\ typed = 0 /\ faults = 0

Verb(w) == Text[handling[w]].verb
Id(w) == Text[handling[w]].id
Who(w) == Text[handling[w]].who

Fault ==
    /\ faults < MaxFaults
    /\ faults' = faults + 1
----------------------------------------------------------------------------
(* A command comes in. *)

(* Faulty: any sender whose signature is good may command. *)
MutAccepted(m) == m \in Genuine

Accepted(m) == m \in Genuine /\ Author[m] \in Operators

Take(w, m) ==
    /\ pc' = [pc EXCEPT ![w] = "check"]
    /\ handling' = [handling EXCEPT ![w] = m]

Goto(w, place) ==
    /\ pc' = [pc EXCEPT ![w] = place]
    /\ UNCHANGED handling

(* Faulty: a worker that is through keeps its command. *)
MutFinish(w) ==
    /\ pc' = [pc EXCEPT ![w] = "idle"]
    /\ UNCHANGED handling

Finish(w) ==
    /\ pc' = [pc EXCEPT ![w] = "idle"]
    /\ handling' = [handling EXCEPT ![w] = NoMessage]

(* A message whose sender RNS cannot recall is held, whoever it claims to  *)
(* be from; one that does not check out, or is not an operator's, is       *)
(* dropped.                                                                *)
Deliver(w, m) ==
    /\ w \in Routers /\ pc[w] = "idle"
    /\ m \notin delivered
    /\ Cardinality(delivered) < MaxSent
    /\ delivered' = delivered \cup {m}
    /\ \/ /\ Author[m] \notin known
          /\ held' = Append(held, m)
          /\ UNCHANGED worker
       \/ /\ Author[m] \in known
          /\ Accepted(m)
          /\ Take(w, m)
          /\ UNCHANGED held
       \/ /\ Author[m] \in known
          /\ ~Accepted(m)
          /\ UNCHANGED <<held, worker>>
    /\ UNCHANGED <<database, destinations, batch, kept, known, heard, made, typed, faults>>

Type(m) ==
    /\ pc[Shell] = "idle"
    /\ typed < MaxTyped
    /\ typed' = typed + 1
    /\ Take(Shell, m)
    /\ UNCHANGED <<database, destinations, holding, world, made, faults>>
----------------------------------------------------------------------------
(* A command is carried out. *)

(* Faulty: a refused command ends without an answer. *)
MutCheck(w) ==
    /\ pc[w] = "check"
    /\ \/ Verb(w) = "ask" /\ Goto(w, "reply")
       \/ /\ Verb(w) # "ask"
          /\ IF (Verb(w) = "create") = (groups[Id(w)] = 0)
               THEN Goto(w, IF Verb(w) = "remove" THEN "role" ELSE "act")
               ELSE Finish(w)
    /\ UNCHANGED <<database, destinations, holding, world, made, typed, faults>>

(* The group must not exist yet for create-group, and must exist for the   *)
(* others.  Refused or not, a command is answered.                         *)
Check(w) ==
    /\ pc[w] = "check"
    /\ \/ Verb(w) = "ask" /\ Goto(w, "reply")
       \/ /\ Verb(w) # "ask"
          /\ IF (Verb(w) = "create") = (groups[Id(w)] = 0)
               THEN Goto(w, IF Verb(w) = "remove" THEN "role" ELSE "act")
               ELSE Goto(w, "reply")
    /\ UNCHANGED <<database, destinations, holding, world, made, typed, faults>>

ReadRole(w) ==
    /\ pc[w] = "role"
    /\ Goto(w, IF <<Id(w), Who(w)>> \in members THEN "act" ELSE "reply")
    /\ UNCHANGED <<database, destinations, holding, world, made, typed, faults>>

Acts(w, verb) ==
    /\ pc[w] = "act"
    /\ Verb(w) = verb
    /\ Goto(w, "reply")
    /\ UNCHANGED <<answers, destinations, holding, world, typed, faults>>

(* The insert fails if the id has been taken since the check. *)
Create(w) ==
    /\ Acts(w, "create")
    /\ made' = made + 1
    /\ IF groups[Id(w)] = 0
         THEN groups' = [groups EXCEPT ![Id(w)] = made']
         ELSE UNCHANGED groups
    /\ UNCHANGED members

Delete(w) ==
    /\ Acts(w, "delete")
    /\ groups' = [groups EXCEPT ![Id(w)] = 0]
    /\ members' = {row \in members : row[1] # Id(w)}
    /\ UNCHANGED made

(* An update of no row if the group has gone; the ACL mode itself is in    *)
(* GroupHub.tla.                                                           *)
SetAcl(w) ==
    /\ Acts(w, "set-acl")
    /\ UNCHANGED <<groups, members, made>>

(* The row is written whether or not the group is still there. *)
Add(w) ==
    /\ Acts(w, "add")
    /\ members' = members \cup {<<Id(w), Who(w)>>}
    /\ UNCHANGED <<groups, made>>

Remove(w) ==
    /\ Acts(w, "remove")
    /\ members' = members \ {<<Id(w), Who(w)>>}
    /\ UNCHANGED <<groups, made>>

(* A shell prints the answer; the daemon queues it. *)
Reply(w) ==
    /\ pc[w] = "reply"
    /\ Finish(w)
    /\ answers' = IF w = Shell THEN answers ELSE answers \cup {handling[w]}
    /\ UNCHANGED <<groups, members, destinations, holding, world, made, typed, faults>>

(* The database is locked or the disk full.  In the daemon that too is an  *)
(* answer, unless it is the queueing of the answer that fails.             *)
Raises(w) ==
    /\ pc[w] # "idle"
    /\ Fault
    /\ IF w = Shell \/ pc[w] = "reply" THEN Finish(w) ELSE Goto(w, "reply")
    /\ UNCHANGED <<database, destinations, holding, world, made, typed>>
----------------------------------------------------------------------------
(* Held commands (retry_unverified). *)

Learn(u) ==
    /\ u \notin known
    /\ known' = known \cup {u}
    /\ UNCHANGED <<database, destinations, holding, worker, delivered, heard, made, typed,
                   faults>>

Retrying == pc[Egress] = "idle" /\ batch # <<>>

TakeHeld ==
    /\ pc[Egress] = "idle"
    /\ batch = <<>> /\ kept = <<>>
    /\ held # <<>>
    /\ batch' = held
    /\ held' = <<>>
    /\ UNCHANGED <<database, destinations, kept, worker, world, made, typed, faults>>

(* Its time is over, or it does not check out now that its sender is       *)
(* known.                                                                  *)
DropHeld ==
    /\ Retrying
    /\ batch' = Tail(batch)
    /\ UNCHANGED <<database, destinations, held, kept, worker, world, made, typed, faults>>

KeepHeld ==
    /\ Retrying
    /\ Author[Head(batch)] \notin known
    /\ batch' = Tail(batch)
    /\ kept' = Append(kept, Head(batch))
    /\ UNCHANGED <<database, destinations, held, worker, world, made, typed, faults>>

Replay ==
    /\ Retrying
    /\ Author[Head(batch)] \in known
    /\ Accepted(Head(batch))
    /\ Take(Egress, Head(batch))
    /\ batch' = Tail(batch)
    /\ UNCHANGED <<database, destinations, held, kept, world, made, typed, faults>>

PutBack ==
    /\ pc[Egress] = "idle"
    /\ batch = <<>>
    /\ kept # <<>>
    /\ held' = held \o kept
    /\ kept' = <<>>
    /\ UNCHANGED <<database, destinations, batch, worker, world, made, typed, faults>>
----------------------------------------------------------------------------
(* Destinations (the supervisor). *)

ListGroups ==
    /\ ~loading
    /\ loading' = TRUE
    /\ listing' = {<<i, groups[i]>> : i \in {j \in Ids : groups[j] # 0}}
    /\ UNCHANGED <<database, attached, due, holding, worker, world, made, typed, faults>>

(* Faulty: a new destination is not scheduled for an announce. *)
MutAttach(row) ==
    /\ loading
    /\ row \in listing
    /\ listing' = listing \ {row}
    /\ attached' = [attached EXCEPT ![row[1]] = IF @ = 0 THEN row[2] ELSE @]
    /\ UNCHANGED due
    /\ UNCHANGED <<database, loading, holding, worker, world, made, typed, faults>>

(* A group that has a destination keeps it; a new one is announced next. *)
Attach(row) ==
    /\ loading
    /\ row \in listing
    /\ listing' = listing \ {row}
    /\ IF attached[row[1]] = 0
         THEN /\ attached' = [attached EXCEPT ![row[1]] = row[2]]
              /\ due' = due \cup {row[1]}
         ELSE UNCHANGED <<attached, due>>
    /\ UNCHANGED <<database, loading, holding, worker, world, made, typed, faults>>

Loaded ==
    /\ loading
    /\ listing = {}
    /\ loading' = FALSE
    /\ UNCHANGED <<database, attached, due, listing, holding, worker, world, made, typed,
                   faults>>

(* The rest waits for the next time. *)
LoadRaises ==
    /\ loading
    /\ Fault
    /\ loading' = FALSE
    /\ listing' = {}
    /\ UNCHANGED <<database, attached, due, holding, worker, world, made, typed>>

Announce(i) ==
    /\ ~loading
    /\ i \in due
    /\ heard' = heard \cup {attached[i]}
    /\ due' = due \ {i}
    /\ UNCHANGED <<database, attached, loading, listing, holding, worker, known, delivered,
                   made, typed, faults>>

IntervalEnds(i) ==
    /\ attached[i] # 0
    /\ i \notin due
    /\ due' = due \cup {i}
    /\ UNCHANGED <<database, attached, loading, listing, holding, worker, world, made, typed,
                   faults>>

(* The daemon is killed and started again.  What RNS and LXMF had not      *)
(* written down of identities and delivered messages is forgotten.         *)
Restart ==
    /\ Fault
    /\ attached' = [i \in Ids |-> 0]
    /\ due' = {} /\ loading' = FALSE /\ listing' = {}
    /\ held' = <<>> /\ batch' = <<>> /\ kept' = <<>>
    /\ pc' = [w \in Workers |-> IF w = Shell THEN pc[w] ELSE "idle"]
    /\ handling' = [w \in Workers |-> IF w = Shell THEN handling[w] ELSE NoMessage]
    /\ known' \in SUBSET known
    /\ delivered' \in SUBSET delivered
    /\ UNCHANGED <<database, heard, made, typed>>
----------------------------------------------------------------------------
Work(w) ==
    \/ Check(w) \/ ReadRole(w)
    \/ Create(w) \/ Delete(w) \/ SetAcl(w) \/ Add(w) \/ Remove(w)
    \/ Reply(w)

Load == Loaded \/ \E row \in listing : Attach(row)

Next ==
    \/ \E w \in Workers :
         \/ \E m \in Messages : Deliver(w, m)
         \/ Work(w)
         \/ Raises(w)
    \/ \E m \in Messages : Type(m)
    \/ \E u \in Users : Learn(u)
    \/ TakeHeld \/ DropHeld \/ KeepHeld \/ Replay \/ PutBack
    \/ ListGroups \/ Load \/ LoadRaises
    \/ \E i \in Ids : Announce(i) \/ IntervalEnds(i)
    \/ Restart

Spec == Init /\ [][Next]_vars

(* The supervisor's loop comes to each of its tasks again and again. *)
FairSpec ==
    /\ Spec
    /\ WF_vars(ListGroups) /\ WF_vars(Load)
    /\ \A i \in Ids : SF_vars(Announce(i))
----------------------------------------------------------------------------
(* Properties. *)

(* Groups and members change at the word of an operator and nobody else,   *)
(* at the shell or in a message whose signature was found good, when it    *)
(* came or when it was replayed (control.py:116-140, 229-262).             *)
OnlyOperatorsChange ==
    [][ <<groups, members>>' # <<groups, members>> =>
          \E w \in Workers :
             /\ pc[w] = "act" /\ pc'[w] = "reply"
             /\ w # Shell => handling[w] \in Genuine /\ Author[handling[w]] \in Operators
      ]_vars

(* A group that is created while the daemon runs comes up without a        *)
(* restart: its address is announced, unless it is deleted first, or its   *)
(* id still has the destination of an earlier group (destinations.py:54).  *)
GroupsComeUp ==
    \A i \in Ids :
        groups[i] # 0
          ~> groups[i] = 0 \/ groups[i] \in heard \/ attached[i] \notin {0, groups[i]}

(* "State changes land in SQLite, and the daemon hot-loads them [...], so  *)
(* a group created over LXMF starts announcing without a restart"          *)
(* (control.py:25-28).  It does not if its id was used before: the loader  *)
(* takes the old group's destination for its own (destinations.py:58).     *)
CreatedGroupsAnnounce ==
    \A i \in Ids : groups[i] # 0 ~> groups[i] = 0 \/ groups[i] \in heard

(* No command the daemon takes up ends without its answer being queued,    *)
(* refused or not, but by a kill or an exception in the queueing itself:   *)
(* "an operator with no reply cannot tell a refused command from a hub     *)
(* that has stopped listening" (control.py:163-165).                       *)
CommandsAreAnswered ==
    [][\A w \in Daemon :
          pc[w] # "idle" /\ pc'[w] = "idle" /\ faults' = faults
             => handling[w] \in answers' ]_vars
=============================================================================
