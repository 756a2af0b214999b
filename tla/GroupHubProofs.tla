--------------------------- MODULE GroupHubProofs ---------------------------
(***************************************************************************)
(* Proofs about GroupHub, for any users, messages, threads and bounds.     *)
(*                                                                         *)
(* The invariant says, of each thread on its own, what the tables it has   *)
(* read so far tell of the facts that have held since it took its message. *)
(* Those facts only become fewer while it works (Watching), so whatever    *)
(* the other threads, the operator and the failover engine do between two  *)
(* of its steps, what the invariant says of it stays true (Unmoved).       *)
(***************************************************************************)
EXTENDS GroupHub, TLAPS

(* What a thread handles was signed by its author. *)
Signed(t) == pc[t] # "idle" => handling[t] \in Genuine

(* Which senders get past authorise. *)
Welcome(t) ==
    t # Federation =>
      /\ pc[t] \in {"role", "peer"} /\ mode[t] = "public" => ~All(t, Sender(t), "stranger")
      /\ pc[t] \in {"peer", "enrol"} => ~All(t, Sender(t), "banned")
      /\ pc[t] = "enrol" => ~All(t, Sender(t), "stranger")
      /\ \/ pc[t] = "text" /\ Verb(t) = "post"
         \/ pc[t] \in {"adopted", "store"}
         => /\ ~All(t, Sender(t), "banned")
            /\ Sender(t) \notin PeerMembers => ~All(t, Sender(t), "stranger")

(* Which commands get past the checks of their sender and their target. *)
Privileged(t) ==
    /\ pc[t] = "mark" /\ newRole[t] = "admin" => ~All(t, Sender(t), "plain")
    /\ pc[t] \in {"target", "write"} /\ Verb(t) \in Moderation =>
          ~All(t, Sender(t), "plain") /\ Who(t) # Sender(t)
    /\ pc[t] = "write" /\ Verb(t) \in Moderation => ~All(t, Who(t), "admin")

(* Whom the two tables give as recipients. *)
Gathered(t) ==
    /\ pc[t] \in {"adopted", "store"} => Verb(t) = "post"
    /\ pc[t] = "adopted" =>
         \A u \in Users :
            /\ All(t, u, "local") => u \in to[t]
            /\ All(t, u, "served") => u \in to[t] \/ u \notin listed[t]
            /\ All(t, u, "banned") => u \notin to[t] /\ u \in listed[t]
            /\ All(t, u, "outside") => u \notin to[t]
    /\ pc[t] = "store" =>
         \A u \in Users :
            /\ All(t, u, "local") \/ All(t, u, "served") => u \in to[t]
            /\ All(t, u, "banned") \/ All(t, u, "outside") => u \notin to[t]

Careful(t) == Signed(t) /\ Welcome(t) /\ Privileged(t) /\ Gathered(t)

(* Nothing is queued for a message that is not stored. *)
Queued == \A row \in queue : row[1] \in stored

Inv == TypeOK /\ Queued /\ \A t \in Threads : Careful(t)
----------------------------------------------------------------------------
(* Types. *)

ThreadsOK ==
    /\ pc \in [Threads -> Places]
    /\ handling \in [Threads -> Messages \cup {NoMessage}]
    /\ \A t \in Threads : (pc[t] = "idle") = (handling[t] = NoMessage)
    /\ mode \in [Threads -> Modes]
    /\ fresh \in [Threads -> SUBSET Users]
    /\ newRole \in [Threads -> Roles]
    /\ to \in [Threads -> SUBSET Users]
    /\ listed \in [Threads -> SUBSET Users]

(* A thread that takes up a message, goes on with it or is through with it *)
(* stays well-typed.                                                       *)
LEMMA BeginOK ==
    ASSUME ThreadsOK, acl \in Modes, NEW t \in Threads, NEW m \in Messages,
           NEW place \in Places \ {"idle"}, Begin(t, m, place)
    PROVE  ThreadsOK'
BY MessagesAssumption DEF ThreadsOK, Begin

LEMMA FinishOK ==
    ASSUME ThreadsOK, NEW t \in Threads, Finish(t)
    PROVE  ThreadsOK'
BY DEF ThreadsOK, Finish, Places, Modes, Roles

LEMMA GotoOK ==
    ASSUME ThreadsOK, NEW t \in Threads, NEW place \in Places \ {"idle"},
           pc[t] # "idle", Goto(t, place), UNCHANGED reading
    PROVE  ThreadsOK'
BY DEF ThreadsOK, Goto, reading

(* What Observe writes has its type. *)
LEMMA ObserveOK ==
    ASSUME watch \in [Threads -> SUBSET (Users \X Kinds)], Observe,
           adopted' \subseteq Users
    PROVE  watch' \in [Threads -> SUBSET (Users \X Kinds)]
<1>1. Standing' \subseteq Users \X Kinds
  BY DEF Standing, Local, Banned, Kinds
<1> QED
  BY <1>1 DEF Observe

(* Each step of a thread keeps its own part of the types. *)
LEMMA HandleThreads ==
    ASSUME TypeOK, NEW t \in Threads, Handle(t)
    PROVE  ThreadsOK'
<1> ThreadsOK /\ members \in [Users -> Roles] /\ adopted \subseteq Users
  BY DEF TypeOK, ThreadsOK
<1>a. /\ Sender(t) \in Users /\ Who(t) \in Users
      /\ handling[t] \in Messages
      \/ pc[t] = "idle"
  BY MessagesAssumption DEF ThreadsOK, Sender, Who
<1>b. ASSUME pc[t] = "role" \/ pc[t] = "peer", Refuse(t)
      PROVE  ThreadsOK'
  <2>1. CASE Verb(t) = "link"
    BY <1>b, <2>1, GotoOK DEF Refuse, Places
  <2>2. CASE Verb(t) # "link"
    BY <1>b, <2>2, FinishOK DEF Refuse
  <2> QED
    BY <2>1, <2>2
<1>1. CASE ReadRole(t)
  <2>1. CASE Refuse(t)
    BY <1>1, <1>b, <2>1 DEF ReadRole
  <2>2. CASE Goto(t, "peer") /\ UNCHANGED reading
    BY <1>1, <2>2, GotoOK DEF ReadRole, Places
  <2>3. CASE Goto(t, "text") /\ UNCHANGED reading
    BY <1>1, <2>3, GotoOK DEF ReadRole, Places
  <2> QED
    BY <1>1, <2>1, <2>2, <2>3 DEF ReadRole
<1>2. CASE AskPeers(t)
  <2>1. CASE Refuse(t)
    BY <1>2, <1>b, <2>1 DEF AskPeers
  <2>2. CASE /\ Goto(t, IF Sender(t) \in PeerMembers THEN "text" ELSE "enrol")
             /\ UNCHANGED reading
    BY <1>2, <2>2, GotoOK DEF AskPeers, Places
  <2> QED
    BY <1>2, <2>1, <2>2 DEF AskPeers
<1>3. CASE Enrol(t)
  BY <1>3, GotoOK DEF Enrol, Places
<1>4. CASE TakeCommand(t)
  <2>1. CASE Finish(t)
    BY <2>1, FinishOK
  <2>2. CASE ~Finish(t)
    <3>1. answered \subseteq Users
      BY DEF TypeOK
    <3> QED
      BY <1>4, <1>a, <2>2, <3>1 DEF TakeCommand, Goto, ThreadsOK, Places
  <2> QED
    BY <2>1, <2>2
<1>5. CASE MarkAnswered(t)
  <2>1. CASE Finish(t)
    BY <2>1, FinishOK
  <2>2. CASE ~Finish(t)
    BY <1>5, <2>2 DEF MarkAnswered, Goto, ThreadsOK, Places, Roles
  <2> QED
    BY <2>1, <2>2
<1>6. CASE ReadTarget(t)
  <2>1. CASE Finish(t)
    BY <2>1, FinishOK
  <2>2. CASE ~Finish(t)
    <3>1. PICK role \in Decision(Verb(t), members[Who(t)]) :
             /\ newRole' = [newRole EXCEPT ![t] = role]
             /\ Goto(t, "write")
             /\ UNCHANGED <<mode, fresh, to, listed>>
      BY <1>6, <2>2 DEF ReadTarget
    <3>2. role \in Roles
      BY <3>1 DEF Decision, Roles
    <3> QED
      BY <1>6, <3>1, <3>2 DEF ReadTarget, Goto, ThreadsOK, Places
  <2> QED
    BY <2>1, <2>2
<1>7. CASE WriteRole(t)
  BY <1>7, FinishOK DEF WriteRole
<1>8. CASE ListMembers(t)
  BY <1>8 DEF ListMembers, Goto, ThreadsOK, Places, Local, Banned
<1>9. CASE ListAdopted(t)
  BY <1>9 DEF ListAdopted, Goto, ThreadsOK, Places
<1>10. CASE StoreAndFanOut(t)
  BY <1>10, FinishOK DEF StoreAndFanOut
<1> QED
  BY <1>1, <1>2, <1>3, <1>4, <1>5, <1>6, <1>7, <1>8, <1>9, <1>10 DEF Handle

(* What the steps of Handle leave well-typed besides: the tables, which    *)
(* only Enrol, WriteRole and StoreAndFanOut write, and the answers.        *)
LEMMA HandleTables ==
    ASSUME TypeOK, NEW t \in Threads, Handle(t)
    PROVE  /\ members' \in [Users -> Roles]
           /\ stored' \subseteq Messages /\ queue' \subseteq Messages \X Users
           /\ answered' \subseteq Users
           /\ UNCHANGED <<acl, adopted, known, holding, bounds>>
           /\ Observe
<1>a. /\ members \in [Users -> Roles] /\ stored \subseteq Messages
      /\ queue \subseteq Messages \X Users /\ answered \subseteq Users
      /\ fresh[t] \subseteq Users /\ to[t] \subseteq Users /\ newRole[t] \in Roles
  BY DEF TypeOK
<1>b. pc[t] # "idle" => handling[t] \in Messages /\ Sender(t) \in Users /\ Who(t) \in Users
  BY MessagesAssumption DEF TypeOK, Sender, Who
<1>1. CASE ReadRole(t) \/ AskPeers(t)
  BY <1>1, <1>a DEF ReadRole, AskPeers, disk
<1>2. CASE Enrol(t)
  BY <1>2, <1>a, <1>b DEF Enrol, Roles
<1>3. CASE TakeCommand(t) \/ ReadTarget(t)
  BY <1>3, <1>a DEF TakeCommand, ReadTarget, disk
<1>4. CASE MarkAnswered(t)
  BY <1>4, <1>a, <1>b DEF MarkAnswered, disk
<1>5. CASE WriteRole(t)
  BY <1>5, <1>a, <1>b DEF WriteRole, Subject
<1>6. CASE ListMembers(t) \/ ListAdopted(t)
  BY <1>6, <1>a DEF ListMembers, ListAdopted, disk
<1>7. CASE StoreAndFanOut(t)
  BY <1>7, <1>a, <1>b DEF StoreAndFanOut
<1> QED
  BY <1>1, <1>2, <1>3, <1>4, <1>5, <1>6, <1>7 DEF Handle

LEMMA TypeStep ==
    ASSUME TypeOK, [Next]_vars
    PROVE  TypeOK'
<1> USE BoundsAssumption
<1>a. ThreadsOK
  BY DEF TypeOK, ThreadsOK
<1>b. /\ held \in Seq(Entries) /\ batch \in Seq(Entries) /\ kept \in Seq(Entries)
  BY DEF TypeOK
<1>w. ASSUME Observe, adopted' \subseteq Users
      PROVE  watch' \in [Threads -> SUBSET (Users \X Kinds)]
  BY <1>w, ObserveOK DEF TypeOK
<1>i. ASSUME batch # <<>>
      PROVE  /\ Head(batch) \in Entries
             /\ Head(batch).msg \in Messages
             /\ Tail(batch) \in Seq(Entries)
  <2>1. Head(batch) \in Entries /\ Tail(batch) \in Seq(Entries)
    BY <1>i, <1>b
  <2> QED
    BY <2>1 DEF Entries
<1>1. ASSUME NEW t \in Routers, NEW m \in Messages, Deliver(t, m)
      PROVE  TypeOK'
  <2>1. t \in Threads
    BY DEF Threads
  <2>2. ThreadsOK' /\ held' \in Seq(Entries)
    <3>1. CASE held' = Append(held, [msg |-> m, late |-> FALSE]) /\ UNCHANGED thread
      BY <3>1, <1>a, <1>b DEF ThreadsOK, thread, reading, Entries
    <3>2. CASE Begin(t, m, "role") /\ UNCHANGED held
      BY <3>2, <1>a, <1>b, <2>1, BeginOK DEF Places, TypeOK
    <3>3. CASE UNCHANGED <<held, thread>>
      BY <3>3, <1>a, <1>b DEF ThreadsOK, thread, reading
    <3> QED
      BY <1>1, <3>1, <3>2, <3>3 DEF Deliver
  <2>3. adopted' \subseteq Users
    BY <1>1 DEF Deliver, disk, TypeOK
  <2> QED
    BY <1>1, <1>w, <2>2, <2>3 DEF Deliver, TypeOK, ThreadsOK, disk, holding
<1>2. ASSUME NEW m \in Messages, Ingest(m) PROVE TypeOK'
  <2>1. ThreadsOK'
    BY <1>2, <1>a, BeginOK DEF Ingest, Threads, Places, TypeOK
  <2>2. adopted' \subseteq Users
    BY <1>2 DEF Ingest, disk, TypeOK
  <2> QED
    BY <1>2, <1>w, <2>1, <2>2 DEF Ingest, TypeOK, ThreadsOK, disk, holding
<1>3. ASSUME NEW t \in Threads, Handle(t) PROVE TypeOK'
  <2>1. adopted' \subseteq Users
    BY <1>3, HandleTables DEF TypeOK
  <2> QED
    BY <1>3, <1>w, <2>1, HandleTables, HandleThreads DEF TypeOK, ThreadsOK, holding, bounds
<1>4. ASSUME NEW t \in Threads, Raise(t) PROVE TypeOK'
  <2>1. ThreadsOK'
    BY <1>4, <1>a, FinishOK DEF Raise
  <2>2. batch' \in Seq(Entries) /\ kept' \in Seq(Entries)
    <3>1. CASE batch' = <<>> /\ kept' = <<>>
      BY <3>1
    <3>2. CASE batch' = batch /\ kept' = kept
      BY <3>2, <1>b
    <3> QED
      BY <1>4, <3>1, <3>2 DEF Raise
  <2>3. adopted' \subseteq Users
    BY <1>4 DEF Raise, disk, TypeOK
  <2> QED
    BY <1>4, <1>w, <2>1, <2>2, <2>3 DEF Raise, TypeOK, ThreadsOK, disk
<1>5. CASE TakeHeld
  <2>1. adopted' \subseteq Users /\ ThreadsOK' /\ batch' \in Seq(Entries) /\ held' \in Seq(Entries)
    BY <1>5, <1>a, <1>b DEF TakeHeld, disk, TypeOK, ThreadsOK, thread, reading
  <2> QED
    BY <1>5, <1>w, <2>1 DEF TakeHeld, TypeOK, ThreadsOK, disk, bounds
<1>6. CASE DropHeld
  <2>1. adopted' \subseteq Users /\ ThreadsOK' /\ batch' \in Seq(Entries)
    BY <1>6, <1>a, <1>i DEF DropHeld, Retrying, disk, TypeOK, ThreadsOK, thread, reading
  <2> QED
    BY <1>6, <1>w, <2>1 DEF DropHeld, TypeOK, ThreadsOK, disk, bounds
<1>7. CASE KeepHeld
  <2>1. adopted' \subseteq Users /\ ThreadsOK' /\ batch' \in Seq(Entries) /\ kept' \in Seq(Entries)
    BY <1>7, <1>a, <1>b, <1>i DEF KeepHeld, Retrying, disk, TypeOK, ThreadsOK, thread, reading
  <2> QED
    BY <1>7, <1>w, <2>1 DEF KeepHeld, TypeOK, ThreadsOK, disk, bounds
<1>8. CASE Replay
  <2>1. ThreadsOK'
    BY <1>8, <1>a, <1>i, BeginOK DEF Replay, Retrying, Threads, Places, TypeOK
  <2>2. adopted' \subseteq Users /\ batch' \in Seq(Entries)
    BY <1>8, <1>i DEF Replay, Retrying, disk, TypeOK
  <2> QED
    BY <1>8, <1>w, <2>1, <2>2 DEF Replay, TypeOK, ThreadsOK, disk, bounds
<1>9. CASE PutBack
  <2>1. adopted' \subseteq Users /\ ThreadsOK' /\ held' \in Seq(Entries) /\ kept' \in Seq(Entries)
    BY <1>9, <1>a, <1>b DEF PutBack, disk, TypeOK, ThreadsOK, thread, reading
  <2> QED
    BY <1>9, <1>w, <2>1 DEF PutBack, TypeOK, ThreadsOK, disk, bounds
<1>10. ASSUME NEW u \in Users, Learn(u) \/ IntervalEnds(u) PROVE TypeOK'
  <2>1. CASE Learn(u)
    <3>1. adopted' \subseteq Users /\ ThreadsOK'
      BY <2>1, <1>a DEF Learn, disk, TypeOK, ThreadsOK, thread, reading
    <3> QED
      BY <2>1, <1>w, <3>1 DEF Learn, TypeOK, ThreadsOK, disk, holding, bounds
  <2>2. CASE IntervalEnds(u)
    <3>1. adopted' \subseteq Users /\ ThreadsOK'
      BY <2>2, <1>a DEF IntervalEnds, disk, TypeOK, ThreadsOK
    <3> QED
      BY <2>2, <1>w, <3>1 DEF IntervalEnds, TypeOK, ThreadsOK, disk, holding, bounds
  <2> QED
    BY <1>10, <2>1, <2>2
<1>11. ASSUME NEW u \in Users, Adopt(u) \/ Release(u) PROVE TypeOK'
  <2>1. adopted' \subseteq Users /\ ThreadsOK' /\ UNCHANGED <<acl, members>>
    BY <1>11, <1>a DEF Adopt, Release, Change, TypeOK, ThreadsOK, thread, reading
  <2> QED
    BY <1>11, <1>w, <2>1 DEF Adopt, Release, Change, TypeOK, ThreadsOK, holding
<1>12. ASSUME NEW u \in Users, NEW role \in Roles, OperatorSets(u, role) PROVE TypeOK'
  <2>1. adopted' \subseteq Users /\ ThreadsOK' /\ members' \in [Users -> Roles]
    BY <1>12, <1>a DEF OperatorSets, Change, TypeOK, ThreadsOK, thread, reading
  <2> QED
    BY <1>12, <1>w, <2>1 DEF OperatorSets, Change, TypeOK, ThreadsOK, holding
<1>13. CASE SetAcl
  <2>1. adopted' \subseteq Users /\ ThreadsOK' /\ acl' \in Modes
    BY <1>13, <1>a DEF SetAcl, Change, TypeOK, ThreadsOK, thread, reading
  <2> QED
    BY <1>13, <1>w, <2>1 DEF SetAcl, Change, TypeOK, ThreadsOK, holding
<1>14. ASSUME NEW i \in DOMAIN held, DeadlinePasses(i) PROVE TypeOK'
  <2>1. adopted' \subseteq Users /\ ThreadsOK'
    BY <1>14, <1>a DEF DeadlinePasses, disk, TypeOK, ThreadsOK, thread, reading
  <2>2. held' \in Seq(Entries)
    <3>1. /\ i \in 1 .. Len(held) /\ held[i] \in Entries
      BY <1>b
    <3>2. [held[i] EXCEPT !.late = TRUE] \in Entries
      BY <3>1 DEF Entries
    <3>3. held' = [held EXCEPT ![i] = [held[i] EXCEPT !.late = TRUE]]
      BY <1>14 DEF DeadlinePasses
    <3> QED
      BY <3>1, <3>2, <3>3, <1>b
  <2> QED
    BY <1>14, <1>w, <2>1, <2>2 DEF DeadlinePasses, TypeOK, ThreadsOK, disk, bounds
<1>15. ASSUME NEW m \in Messages, Prune(m) PROVE TypeOK'
  <2>1. adopted' \subseteq Users /\ ThreadsOK'
    BY <1>15, <1>a DEF Prune, TypeOK, ThreadsOK, thread, reading
  <2>2. stored' \subseteq Messages /\ queue' \subseteq Messages \X Users
    BY <1>15 DEF Prune, TypeOK
  <2> QED
    BY <1>15, <1>w, <2>1, <2>2 DEF Prune, TypeOK, ThreadsOK, holding, bounds
<1>16. CASE Restart
  <2>1. adopted' \subseteq Users /\ ThreadsOK'
    BY <1>16, <1>a DEF Restart, disk, TypeOK, ThreadsOK, Places, Modes, Roles
  <2>2. held' \in Seq(Entries) /\ batch' \in Seq(Entries) /\ kept' \in Seq(Entries)
    BY <1>16 DEF Restart
  <2> QED
    BY <1>16, <1>w, <2>1, <2>2 DEF Restart, TypeOK, ThreadsOK, disk
<1>17. CASE UNCHANGED vars
  BY <1>17 DEF vars, TypeOK, disk, holding, thread, reading, bounds
<1> QED
  BY <1>1, <1>2, <1>3, <1>4, <1>5, <1>6, <1>7, <1>8, <1>9, <1>10, <1>11, <1>12,
     <1>13, <1>14, <1>15, <1>16, <1>17 DEF Next, Retry, Others

LEMMA TypeInit == Init => TypeOK
BY BoundsAssumption, MessagesAssumption DEF Init, TypeOK, Places, Roles, Modes, Entries

(* Every state is well-typed; in particular a thread handles a message     *)
(* exactly while it is not idle.                                           *)
THEOREM TypeCorrect == Spec => []TypeOK
BY TypeInit, TypeStep, PTL DEF Spec
----------------------------------------------------------------------------
(* The facts a thread watches. *)

(* While a thread works they become fewer, and what is left is true now.   *)
LEMMA Watching ==
    ASSUME Observe, NEW t \in Threads, pc'[t] # "idle"
    PROVE  /\ watch'[t] \subseteq Standing'
           /\ pc[t] # "idle" => watch'[t] \subseteq watch[t]
BY DEF Observe

LEMMA Present ==
    ASSUME Observe, NEW t \in Threads, pc'[t] # "idle", NEW u \in Users
    PROVE  /\ All(t, u, "local")' => members'[u] \in {"member", "admin"}
           /\ All(t, u, "served")' => u \in adopted' /\ members'[u] # "banned"
           /\ All(t, u, "outside")' => members'[u] = "none" /\ u \notin adopted'
           /\ All(t, u, "stranger")' => members'[u] = "none" /\ acl' = "invite"
           /\ All(t, u, "banned")' => members'[u] = "banned"
           /\ All(t, u, "admin")' => members'[u] = "admin"
           /\ All(t, u, "plain")' => members'[u] # "admin"
<1>1. watch'[t] \subseteq Standing'
  BY Watching
<1> QED
  BY <1>1 DEF All, Standing, Local, Banned

(* A thread is where it was, with what it had read. *)
Still(t) ==
    /\ pc'[t] = pc[t] /\ handling'[t] = handling[t] /\ mode'[t] = mode[t]
    /\ newRole'[t] = newRole[t] /\ to'[t] = to[t] /\ listed'[t] = listed[t]

LEMMA Unmoved ==
    ASSUME NEW t \in Threads, Careful(t), Observe, Still(t)
    PROVE  Careful(t)'
<1>1. CASE pc[t] = "idle"
  BY <1>1 DEF Still, Careful, Signed, Welcome, Privileged, Gathered
<1>2. CASE pc[t] # "idle"
  <2>1. watch'[t] \subseteq watch[t]
    BY <1>2, Watching DEF Still
  <2>2. \A u, k : All(t, u, k)' => All(t, u, k)
    BY <2>1 DEF All
  <2>3. Sender(t)' = Sender(t) /\ Verb(t)' = Verb(t) /\ Who(t)' = Who(t)
    BY DEF Still, Sender, Verb, Who
  <2>4. Signed(t)'
    BY DEF Still, Careful, Signed
  <2>5. Welcome(t)'
    BY <2>2, <2>3 DEF Still, Careful, Welcome
  <2>6. Privileged(t)'
    BY <2>2, <2>3 DEF Still, Careful, Privileged
  <2>7. Gathered(t)'
    BY <2>2, <2>3 DEF Still, Careful, Gathered
  <2> QED
    BY <2>4, <2>5, <2>6, <2>7 DEF Careful
<1> QED
  BY <1>1, <1>2

LEMMA AtRest ==
    ASSUME NEW t \in Threads, pc'[t] = "idle"
    PROVE  Careful(t)'
BY DEF Careful, Signed, Welcome, Privileged, Gathered

(* One thread begins with a message its author signed. *)
LEMMA BeginCareful ==
    ASSUME TypeOK, NEW t \in Threads, NEW m \in Genuine, NEW place \in {"role", "text"},
           Begin(t, m, place), Observe, acl' = acl,
           place = "text" => t = Federation /\ Text[m].verb = "post"
    PROVE  Careful(t)'
<1>1. /\ pc'[t] = place /\ handling'[t] = m /\ mode'[t] = acl
  BY DEF Begin, TypeOK
<1>2. Sender(t)' = Author[m] /\ Author[m] \in Users
  BY <1>1, MessagesAssumption DEF Sender
<1>3. mode'[t] = "public" => ~All(t, Author[m], "stranger")'
  BY <1>1, <1>2, Present
<1>4. Welcome(t)'
  BY <1>1, <1>2, <1>3 DEF Welcome
<1> QED
  BY <1>1, <1>4 DEF Careful, Signed, Privileged, Gathered

(* The moving thread's part, step by step. *)
LEMMA MoveCareful ==
    ASSUME TypeOK, NEW t \in Threads, Careful(t), Handle(t)
    PROVE  Careful(t)'
<1>a. pc[t] \in Places /\ members \in [Users -> Roles] /\ Observe
      /\ newRole[t] \in Roles
  BY HandleTables DEF TypeOK
<1>b. pc[t] # "idle"
  BY DEF Handle, ReadRole, AskPeers, Enrol, TakeCommand, MarkAnswered, ReadTarget,
     WriteRole, ListMembers, ListAdopted, StoreAndFanOut
<1>c. Sender(t) \in Users /\ Who(t) \in Users
  BY <1>b, MessagesAssumption DEF TypeOK, Sender, Who
<1>d. ASSUME Finish(t) PROVE Careful(t)'
  <2>1. pc'[t] = "idle"
    BY <1>d DEF Finish, TypeOK
  <2> QED
    BY <2>1, AtRest
<1>e. ASSUME NEW place \in Places \ {"idle"}, Goto(t, place)
      PROVE  /\ pc'[t] = place /\ handling' = handling
             /\ Sender(t)' = Sender(t) /\ Verb(t)' = Verb(t) /\ Who(t)' = Who(t)
             /\ \A u, k : All(t, u, k)' => All(t, u, k)
             /\ Signed(t)'
  <2>1. pc'[t] = place /\ handling' = handling
    BY <1>e DEF Goto, TypeOK
  <2>2. watch'[t] \subseteq watch[t]
    BY <1>a, <1>b, <2>1, Watching
  <2> QED
    BY <1>b, <2>1, <2>2 DEF Sender, Verb, Who, All, Signed, Careful
<1>f. ASSUME pc'[t] # "idle", NEW u \in Users
      PROVE  /\ All(t, u, "local")' => members'[u] \in {"member", "admin"}
             /\ All(t, u, "served")' => u \in adopted' /\ members'[u] # "banned"
             /\ All(t, u, "outside")' => members'[u] = "none" /\ u \notin adopted'
             /\ All(t, u, "stranger")' => members'[u] = "none"
             /\ All(t, u, "banned")' => members'[u] = "banned"
             /\ All(t, u, "admin")' => members'[u] = "admin"
             /\ All(t, u, "plain")' => members'[u] # "admin"
  BY <1>a, <1>f, Present
<1>g. ASSUME Refuse(t), pc[t] \in {"role", "peer"} PROVE Careful(t)'
  <2>1. CASE Verb(t) = "link"
    <3>1. Goto(t, "text") /\ "text" \in Places \ {"idle"}
      BY <1>g, <2>1 DEF Refuse, Places
    <3>2. pc'[t] = "text" /\ Verb(t)' = "link" /\ Signed(t)'
      BY <1>e, <2>1, <3>1
    <3> QED
      BY <3>2 DEF Careful, Welcome, Privileged, Gathered
  <2>2. CASE Verb(t) # "link"
    BY <1>d, <1>g, <2>2 DEF Refuse
  <2> QED
    BY <2>1, <2>2
<1>1. CASE ReadRole(t)
  <2>m. members' = members /\ pc[t] = "role"
    BY <1>1 DEF ReadRole, disk
  <2>1. CASE members[Sender(t)] = "banned"
    BY <1>1, <1>g, <2>1 DEF ReadRole
  <2>2. CASE members[Sender(t)] = "none"
    <3>1. Goto(t, "peer") /\ UNCHANGED reading /\ "peer" \in Places \ {"idle"}
      BY <1>1, <2>2 DEF ReadRole, Places
    <3>2. pc'[t] = "peer" /\ Sender(t)' = Sender(t) /\ Signed(t)' /\ mode'[t] = mode[t]
          /\ \A u, k : All(t, u, k)' => All(t, u, k)
      BY <1>e, <3>1 DEF reading
    <3>3. ~All(t, Sender(t), "banned")'
      BY <1>c, <1>f, <2>m, <2>2, <3>2
    <3>4. Welcome(t)'
      BY <2>m, <3>2, <3>3 DEF Careful, Welcome
    <3> QED
      BY <3>2, <3>4 DEF Careful, Privileged, Gathered
  <2>3. CASE members[Sender(t)] \notin {"banned", "none"}
    <3>1. Goto(t, "text") /\ "text" \in Places \ {"idle"}
      BY <1>1, <2>3 DEF ReadRole, Places
    <3>2. pc'[t] = "text" /\ Sender(t)' = Sender(t) /\ Signed(t)'
      BY <1>e, <3>1
    <3>3. ~All(t, Sender(t), "banned")' /\ ~All(t, Sender(t), "stranger")'
      BY <1>c, <1>f, <2>m, <2>3, <3>2
    <3> QED
      BY <3>2, <3>3 DEF Careful, Welcome, Privileged, Gathered
  <2> QED
    BY <2>1, <2>2, <2>3
<1>2. CASE AskPeers(t)
  <2>m. members' = members /\ pc[t] = "peer"
    BY <1>2 DEF AskPeers, disk
  <2>1. CASE Sender(t) \in PeerMembers
    <3>1. Goto(t, "text") /\ "text" \in Places \ {"idle"}
      BY <1>2, <2>1 DEF AskPeers, Places
    <3>2. pc'[t] = "text" /\ Sender(t)' = Sender(t) /\ Signed(t)'
          /\ \A u, k : All(t, u, k)' => All(t, u, k)
      BY <1>e, <3>1
    <3> QED
      BY <2>m, <2>1, <3>2 DEF Careful, Welcome, Privileged, Gathered
  <2>2. CASE Sender(t) \notin PeerMembers /\ mode[t] = "public"
    <3>1. Goto(t, "enrol") /\ "enrol" \in Places \ {"idle"}
      BY <1>2, <2>2 DEF AskPeers, Places
    <3>2. pc'[t] = "enrol" /\ Sender(t)' = Sender(t) /\ Signed(t)'
          /\ \A u, k : All(t, u, k)' => All(t, u, k)
      BY <1>e, <3>1
    <3> QED
      BY <2>m, <2>2, <3>2 DEF Careful, Welcome, Privileged, Gathered
  <2>3. CASE Sender(t) \notin PeerMembers /\ mode[t] # "public"
    BY <1>2, <1>g, <2>3 DEF AskPeers
  <2> QED
    BY <2>1, <2>2, <2>3
<1>3. CASE Enrol(t)
  <2>1. Goto(t, "text") /\ "text" \in Places \ {"idle"} /\ pc[t] = "enrol"
    BY <1>3 DEF Enrol, Places
  <2>2. pc'[t] = "text" /\ Sender(t)' = Sender(t) /\ Signed(t)'
        /\ \A u, k : All(t, u, k)' => All(t, u, k)
    BY <1>e, <2>1
  <2> QED
    BY <2>1, <2>2 DEF Careful, Welcome, Privileged, Gathered
<1>4. CASE TakeCommand(t)
  <2>1. CASE Sender(t) \in answered
    BY <1>4, <1>d, <2>1 DEF TakeCommand
  <2>2. CASE Sender(t) \notin answered
    <3>1. Goto(t, "mark") /\ "mark" \in Places \ {"idle"} /\ members' = members
          /\ newRole'[t] = members[Sender(t)]
      BY <1>4, <2>2 DEF TakeCommand, Places, TypeOK, disk
    <3>2. pc'[t] = "mark" /\ Sender(t)' = Sender(t) /\ Signed(t)'
      BY <1>e, <3>1
    <3>3. newRole'[t] = "admin" => ~All(t, Sender(t), "plain")'
      BY <1>c, <1>f, <3>1, <3>2
    <3> QED
      BY <3>2, <3>3 DEF Careful, Welcome, Privileged, Gathered
  <2> QED
    BY <2>1, <2>2
<1>5. CASE MarkAnswered(t)
  <2>1. CASE Finish(t)
    BY <1>d, <2>1
  <2>2. CASE ~Finish(t)
    <3>1. Goto(t, "target") /\ "target" \in Places \ {"idle"} /\ pc[t] = "mark"
          /\ \/ Verb(t) = "link"
             \/ newRole[t] = "admin" /\ Who(t) # Sender(t)
      BY <1>5, <2>2 DEF MarkAnswered, Places
    <3>2. pc'[t] = "target" /\ Sender(t)' = Sender(t) /\ Signed(t)'
          /\ Verb(t)' = Verb(t) /\ Who(t)' = Who(t)
          /\ \A u, k : All(t, u, k)' => All(t, u, k)
      BY <1>e, <3>1
    <3> QED
      BY <3>1, <3>2 DEF Careful, Welcome, Privileged, Gathered, Moderation
  <2> QED
    BY <2>1, <2>2
<1>6. CASE ReadTarget(t)
  <2>1. CASE Finish(t)
    BY <1>d, <2>1
  <2>2. CASE ~Finish(t)
    <3>1. Goto(t, "write") /\ "write" \in Places \ {"idle"} /\ pc[t] = "target"
          /\ Decision(Verb(t), members[Who(t)]) # {} /\ members' = members
      BY <1>6, <2>2 DEF ReadTarget, Places, disk
    <3>2. pc'[t] = "write" /\ Sender(t)' = Sender(t) /\ Signed(t)'
          /\ Verb(t)' = Verb(t) /\ Who(t)' = Who(t)
          /\ \A u, k : All(t, u, k)' => All(t, u, k)
      BY <1>e, <3>1
    <3>3. Verb(t) \in Moderation => members[Who(t)] # "admin"
      BY <3>1 DEF Decision, Moderation
    <3>4. Verb(t) \in Moderation => ~All(t, Who(t), "admin")'
      BY <1>c, <1>f, <3>1, <3>2, <3>3
    <3>5. Privileged(t)'
      BY <3>1, <3>2, <3>4 DEF Careful, Privileged
    <3> QED
      BY <3>2, <3>5 DEF Careful, Welcome, Gathered
  <2> QED
    BY <2>1, <2>2
<1>7. CASE WriteRole(t) \/ StoreAndFanOut(t)
  BY <1>7, <1>d DEF WriteRole, StoreAndFanOut
<1>8. CASE ListMembers(t)
  <2>1. Goto(t, "adopted") /\ "adopted" \in Places \ {"idle"} /\ members' = members
        /\ pc[t] = "text" /\ Verb(t) = "post"
        /\ to'[t] = Local /\ listed'[t] = Local \cup Banned
    BY <1>8 DEF ListMembers, Places, TypeOK, disk
  <2>2. pc'[t] = "adopted" /\ Sender(t)' = Sender(t) /\ Signed(t)' /\ Verb(t)' = Verb(t)
        /\ \A u, k : All(t, u, k)' => All(t, u, k)
    BY <1>e, <2>1
  <2>3. Welcome(t)'
    BY <2>1, <2>2 DEF Careful, Welcome
  <2>4. ASSUME NEW u \in Users
        PROVE  /\ All(t, u, "local")' => u \in to'[t]
               /\ All(t, u, "served")' => u \in to'[t] \/ u \notin listed'[t]
               /\ All(t, u, "banned")' => u \notin to'[t] /\ u \in listed'[t]
               /\ All(t, u, "outside")' => u \notin to'[t]
    BY <1>f, <2>1, <2>2 DEF Local, Banned
  <2>5. Gathered(t)'
    BY <2>1, <2>2, <2>4 DEF Gathered
  <2> QED
    BY <2>2, <2>3, <2>5 DEF Careful, Privileged
<1>9. CASE ListAdopted(t)
  <2>1. Goto(t, "store") /\ "store" \in Places \ {"idle"} /\ members' = members
        /\ adopted' = adopted /\ pc[t] = "adopted"
        /\ to'[t] = to[t] \cup (adopted \ listed[t])
    BY <1>9 DEF ListAdopted, Places, TypeOK, disk
  <2>2. pc'[t] = "store" /\ Sender(t)' = Sender(t) /\ Signed(t)' /\ Verb(t)' = Verb(t)
        /\ \A u, k : All(t, u, k)' => All(t, u, k)
    BY <1>e, <2>1
  <2>3. Welcome(t)'
    BY <2>1, <2>2 DEF Careful, Welcome
  <2>4. ASSUME NEW u \in Users
        PROVE  /\ All(t, u, "local")' \/ All(t, u, "served")' => u \in to'[t]
               /\ All(t, u, "banned")' \/ All(t, u, "outside")' => u \notin to'[t]
    BY <1>f, <2>1, <2>2 DEF Careful, Gathered
  <2>5. Gathered(t)'
    BY <2>1, <2>2, <2>4 DEF Careful, Gathered
  <2> QED
    BY <2>2, <2>3, <2>5 DEF Careful, Privileged
<1> QED
  BY <1>1, <1>2, <1>3, <1>4, <1>5, <1>6, <1>7, <1>8, <1>9 DEF Handle

(* A step of thread t's handling leaves the other threads where they are.  *)
LEMMA OthersStill ==
    ASSUME TypeOK, NEW t \in Threads, NEW s \in Threads \ {t},
           \/ Handle(t)
           \/ Finish(t)
           \/ \E m, place : Begin(t, m, place)
    PROVE  Still(s)
<1> USE DEF TypeOK, Still, reading
<1>1. CASE Finish(t)
  BY <1>1 DEF Finish
<1>2. CASE \E m, place : Begin(t, m, place)
  BY <1>2 DEF Begin
<1>3. CASE ReadRole(t)
  BY <1>1, <1>3 DEF ReadRole, Refuse, Goto
<1>4. CASE AskPeers(t)
  BY <1>1, <1>4 DEF AskPeers, Refuse, Goto
<1>5. CASE Enrol(t)
  BY <1>5 DEF Enrol, Goto
<1>6. CASE TakeCommand(t)
  BY <1>1, <1>6 DEF TakeCommand, Goto
<1>7. CASE MarkAnswered(t)
  BY <1>1, <1>7 DEF MarkAnswered, Goto
<1>8. CASE ReadTarget(t)
  BY <1>1, <1>8 DEF ReadTarget, Goto
<1>9. CASE WriteRole(t) \/ StoreAndFanOut(t)
  BY <1>1, <1>9 DEF WriteRole, StoreAndFanOut
<1>10. CASE ListMembers(t)
  BY <1>10 DEF ListMembers, Goto
<1>11. CASE ListAdopted(t)
  BY <1>11 DEF ListAdopted, Goto
<1> QED
  BY <1>1, <1>2, <1>3, <1>4, <1>5, <1>6, <1>7, <1>8, <1>9, <1>10, <1>11 DEF Handle

LEMMA CarefulStep ==
    ASSUME TypeOK, [Next]_vars, \A t \in Threads : Careful(t), NEW s \in Threads
    PROVE  Careful(s)'
<1>q. ASSUME Observe, UNCHANGED thread PROVE Careful(s)'
  BY <1>q, Unmoved DEF thread, reading, Still
<1>f. ASSUME NEW t \in Threads, Observe, Finish(t) PROVE Careful(s)'
  <2>1. CASE s = t
    BY <1>f, <2>1, AtRest DEF Finish, TypeOK
  <2>2. CASE s # t
    BY <1>f, <2>2, OthersStill, Unmoved
  <2> QED
    BY <2>1, <2>2
<1>b. ASSUME NEW t \in Threads, NEW m \in Genuine, NEW place \in {"role", "text"},
             Begin(t, m, place), Observe, acl' = acl,
             place = "text" => t = Federation /\ Text[m].verb = "post"
      PROVE  Careful(s)'
  <2>1. CASE s = t
    BY <1>b, <2>1, BeginCareful
  <2>2. CASE s # t
    <3>1. Still(s)
      BY <1>b, <2>2, OthersStill
    <3> QED
      BY <1>b, <3>1, Unmoved
  <2> QED
    BY <2>1, <2>2
<1>1. ASSUME NEW t \in Routers, NEW m \in Messages, Deliver(t, m) PROVE Careful(s)'
  <2>1. CASE UNCHANGED thread
    BY <1>1, <1>q, <2>1 DEF Deliver
  <2>2. CASE Begin(t, m, "role") /\ m \in Genuine
    <3>1. t \in Threads /\ Observe /\ acl' = acl
      BY <1>1 DEF Deliver, Threads, disk
    <3> QED
      BY <1>b, <2>2, <3>1
  <2> QED
    BY <1>1, <2>1, <2>2 DEF Deliver
<1>2. ASSUME NEW m \in Messages, Ingest(m) PROVE Careful(s)'
  <2>1. /\ Federation \in Threads /\ Observe /\ acl' = acl /\ m \in Genuine
        /\ Begin(Federation, m, "text") /\ Text[m].verb = "post"
    BY <1>2 DEF Ingest, Threads, disk
  <2> QED
    BY <1>b, <2>1
<1>3. ASSUME NEW t \in Threads, Handle(t) PROVE Careful(s)'
  <2>1. CASE s = t
    BY <1>3, <2>1, MoveCareful
  <2>2. CASE s # t
    BY <1>3, <2>2, OthersStill, HandleTables, Unmoved
  <2> QED
    BY <2>1, <2>2
<1>4. ASSUME NEW t \in Threads, Raise(t) PROVE Careful(s)'
  BY <1>4, <1>f DEF Raise
<1>5. CASE TakeHeld \/ DropHeld \/ KeepHeld \/ PutBack
  BY <1>5, <1>q DEF TakeHeld, DropHeld, KeepHeld, PutBack
<1>6. CASE Replay
  <2>1. /\ Egress \in Threads /\ Observe /\ acl' = acl
        /\ Head(batch).msg \in Genuine /\ Begin(Egress, Head(batch).msg, "role")
    BY <1>6 DEF Replay, Threads, disk
  <2> QED
    BY <1>b, <2>1
<1>7. ASSUME NEW u \in Users, Learn(u) PROVE Careful(s)'
  BY <1>7, <1>q DEF Learn
<1>8. ASSUME NEW u \in Users, IntervalEnds(u) PROVE Careful(s)'
  BY <1>8, Unmoved DEF IntervalEnds, Still
<1>9. ASSUME NEW u \in Users, Adopt(u) \/ Release(u) PROVE Careful(s)'
  BY <1>9, <1>q DEF Adopt, Release, Change
<1>10. ASSUME NEW u \in Users, NEW role \in Roles, OperatorSets(u, role) PROVE Careful(s)'
  BY <1>10, <1>q DEF OperatorSets, Change
<1>11. CASE SetAcl
  BY <1>11, <1>q DEF SetAcl, Change
<1>12. ASSUME NEW i \in DOMAIN held, DeadlinePasses(i) PROVE Careful(s)'
  BY <1>12, <1>q DEF DeadlinePasses
<1>13. ASSUME NEW m \in Messages, Prune(m) PROVE Careful(s)'
  BY <1>13, <1>q DEF Prune
<1>14. CASE Restart
  BY <1>14, AtRest DEF Restart
<1>15. CASE UNCHANGED vars
  <2>1. /\ Sender(s)' = Sender(s) /\ Verb(s)' = Verb(s) /\ Who(s)' = Who(s)
        /\ \A u, k : All(s, u, k)' <=> All(s, u, k)
    BY <1>15 DEF vars, thread, Sender, Verb, Who, All
  <2> QED
    BY <1>15, <2>1 DEF vars, disk, holding, thread, reading, Careful, Signed, Welcome,
       Privileged, Gathered
<1> QED
  BY <1>1, <1>2, <1>3, <1>4, <1>5, <1>6, <1>7, <1>8, <1>9, <1>10, <1>11, <1>12,
     <1>13, <1>14, <1>15 DEF Next, Retry, Others

(* Who writes the messages and their queue rows, and who the roles.        *)
LEMMA Writers ==
    ASSUME TypeOK, [Next]_vars
    PROVE  /\ \/ UNCHANGED <<stored, queue>>
              \/ \E m \in Messages : Prune(m)
              \/ \E t \in Threads : StoreAndFanOut(t)
           /\ \/ members' = members
              \/ \E t \in Threads : WriteRole(t)
              \/ \A t \in Threads : pc[t] = "write" => pc'[t] = "write"
<1> DEFINE Good ==
      /\ \/ UNCHANGED <<stored, queue>>
         \/ \E m \in Messages : Prune(m)
         \/ \E t \in Threads : StoreAndFanOut(t)
      /\ \/ members' = members
         \/ \E t \in Threads : WriteRole(t)
         \/ \A t \in Threads : pc[t] = "write" => pc'[t] = "write"
<1>1. ASSUME NEW t \in Routers, NEW m \in Messages, Deliver(t, m) PROVE Good
  BY <1>1 DEF Deliver, disk
<1>2. ASSUME NEW m \in Messages, Ingest(m) PROVE Good
  BY <1>2 DEF Ingest, disk
<1>3. ASSUME NEW t \in Threads, Handle(t) PROVE Good
  <2>1. CASE ReadRole(t) \/ AskPeers(t) \/ TakeCommand(t) \/ MarkAnswered(t)
    BY <2>1 DEF ReadRole, AskPeers, TakeCommand, MarkAnswered, disk
  <2>2. CASE ReadTarget(t) \/ ListMembers(t) \/ ListAdopted(t)
    BY <2>2 DEF ReadTarget, ListMembers, ListAdopted, disk
  <2>3. CASE Enrol(t)
    <3>1. \A s \in Threads : pc[s] = "write" => pc'[s] = "write"
      BY <2>3 DEF Enrol, Goto, TypeOK
    <3> QED
      BY <2>3, <3>1 DEF Enrol
  <2>4. CASE WriteRole(t)
    <3>1. UNCHANGED <<stored, queue>>
      BY <2>4 DEF WriteRole
    <3> QED
      BY <2>4, <3>1
  <2>5. CASE StoreAndFanOut(t)
    <3>1. members' = members
      BY <2>5 DEF StoreAndFanOut
    <3> QED
      BY <2>5, <3>1
  <2> QED
    BY <1>3, <2>1, <2>2, <2>3, <2>4, <2>5 DEF Handle
<1>4. ASSUME NEW t \in Threads, Raise(t) PROVE Good
  BY <1>4 DEF Raise, disk
<1>5. CASE Retry
  BY <1>5 DEF Retry, TakeHeld, DropHeld, KeepHeld, Replay, PutBack, disk
<1>6. ASSUME NEW u \in Users, Learn(u) \/ IntervalEnds(u) PROVE Good
  BY <1>6 DEF Learn, IntervalEnds, disk
<1>7. ASSUME NEW u \in Users, Adopt(u) \/ Release(u) PROVE Good
  BY <1>7 DEF Adopt, Release, Change
<1>8. ASSUME NEW u \in Users, NEW role \in Roles, OperatorSets(u, role) PROVE Good
  BY <1>8 DEF OperatorSets, Change, thread
<1>9. CASE SetAcl
  BY <1>9 DEF SetAcl, Change
<1>10. ASSUME NEW i \in DOMAIN held, DeadlinePasses(i) PROVE Good
  BY <1>10 DEF DeadlinePasses, disk
<1>11. ASSUME NEW m \in Messages, Prune(m) PROVE Good
  <2>1. members' = members
    BY <1>11 DEF Prune
  <2> QED
    BY <1>11, <2>1
<1>12. CASE Restart
  BY <1>12 DEF Restart, disk
<1>13. CASE UNCHANGED vars
  BY <1>13 DEF vars, disk
<1>14. Good
  BY <1>1, <1>2, <1>3, <1>4, <1>5, <1>6, <1>7, <1>8, <1>9, <1>10, <1>11, <1>12,
     <1>13 DEF Next, Others
<1> QED
  BY <1>14

LEMMA QueuedStep ==
    ASSUME TypeOK, Queued, [Next]_vars
    PROVE  Queued'
<1>1. CASE UNCHANGED <<stored, queue>>
  BY <1>1 DEF Queued
<1>2. ASSUME NEW m \in Messages, Prune(m) PROVE Queued'
  BY <1>2 DEF Prune, Queued
<1>3. ASSUME NEW t \in Threads, StoreAndFanOut(t) PROVE Queued'
  BY <1>3 DEF StoreAndFanOut, Queued
<1> QED
  BY <1>1, <1>2, <1>3, Writers

LEMMA AlwaysInv == Spec => []Inv
<1>1. Init => Inv
  <2> SUFFICES ASSUME Init PROVE Inv
    OBVIOUS
  <2>1. TypeOK
    BY TypeInit
  <2>2. Queued
    BY DEF Init, Queued
  <2>3. \A t \in Threads : Careful(t)
    BY DEF Init, Careful, Signed, Welcome, Privileged, Gathered
  <2> QED
    BY <2>1, <2>2, <2>3 DEF Inv
<1>2. Inv /\ [Next]_vars => Inv'
  <2> SUFFICES ASSUME Inv, [Next]_vars PROVE Inv'
    OBVIOUS
  <2>1. TypeOK' /\ Queued'
    BY TypeStep, QueuedStep DEF Inv
  <2>2. ASSUME NEW t \in Threads PROVE Careful(t)'
    BY CarefulStep DEF Inv
  <2> QED
    BY <2>1, <2>2 DEF Inv
<1> QED
  BY <1>1, <1>2, PTL DEF Spec
----------------------------------------------------------------------------
(* A message is queued for whoever was a member, or served for a silent    *)
(* peer, all the time the hub worked on it, and for nobody who was banned  *)
(* or a stranger all that time, with any number of threads, and whatever   *)
(* the operator and the failover engine change between the three steps of  *)
(* the fan-out.                                                            *)
THEOREM FanOut == Spec => FanOutIsFair
<1>1. Inv /\ [Next]_vars =>
        \A m \in Messages : m \in stored' \ stored =>
          \E t \in Threads :
              /\ Stores(t, m)
              /\ \A u \in Users \ {Author[m]} :
                     /\ All(t, u, "local") \/ All(t, u, "served") => <<m, u>> \in queue'
                     /\ All(t, u, "banned") \/ All(t, u, "outside") => <<m, u>> \notin queue'
              /\ <<m, Author[m]>> \notin queue'
  <2> SUFFICES ASSUME Inv, [Next]_vars, NEW m \in Messages, m \in stored', m \notin stored
               PROVE  \E t \in Threads :
                        /\ Stores(t, m)
                        /\ \A u \in Users \ {Author[m]} :
                             /\ All(t, u, "local") \/ All(t, u, "served") => <<m, u>> \in queue'
                             /\ All(t, u, "banned") \/ All(t, u, "outside") =>
                                  <<m, u>> \notin queue'
                        /\ <<m, Author[m]>> \notin queue'
    OBVIOUS
  <2>1. PICK t \in Threads : StoreAndFanOut(t)
    BY Writers DEF Inv, Prune
  <2>2. handling[t] = m /\ pc[t] = "store" /\ pc'[t] = "idle"
        /\ Sender(t) = Author[m]
        /\ queue' = queue \cup ({m} \X (to[t] \ {Author[m]}))
    BY <2>1 DEF StoreAndFanOut, Finish, Sender, Inv, TypeOK
  <2>3. \A u : <<m, u>> \notin queue
    BY DEF Inv, Queued
  <2>4. \A u : <<m, u>> \in queue' <=> u \in to[t] \ {Author[m]}
    BY <2>2, <2>3
  <2>5. Gathered(t)
    BY DEF Inv, Careful
  <2> QED
    BY <2>2, <2>4, <2>5 DEF Stores, Gathered
<1> QED
  BY <1>1, AlwaysInv, PTL DEF Spec, FanOutIsFair

(* Nothing is stored for, and nobody enrolled as, a sender whose signature *)
(* is bad, who was banned all along, or who was a stranger to an           *)
(* invite-only group all along, held messages included.                    *)
THEOREM Acl == Spec => AclHolds
<1>1. Inv =>
        \A t \in Threads \ {Federation} :
          /\ pc[t] = "enrol" /\ pc'[t] = "text" => Admissible(t)
          /\ \A m \in stored' \ stored : Stores(t, m) => Admissible(t)
  <2> SUFFICES ASSUME Inv, NEW t \in Threads \ {Federation},
                      pc[t] = "enrol" \/ pc[t] = "store"
               PROVE  Admissible(t)
    BY DEF Stores
  <2>1. Signed(t) /\ Welcome(t)
    BY DEF Inv, Careful
  <2> QED
    BY <2>1 DEF Signed, Welcome, Admissible
<1> QED
  BY <1>1, AlwaysInv, PTL DEF Spec, AclHolds

(* A moderation command that changes a role was sent by a user who was an  *)
(* admin at some moment while it ran, and is about neither the sender nor  *)
(* a user who was an admin all along.                                      *)
THEOREM ModerationAuthorised == Spec => ModerationIsAuthorised
<1>1. Inv /\ [Next]_vars =>
        \A t \in Threads :
          pc[t] = "write" /\ pc'[t] = "idle" /\ Verb(t) \in Moderation /\ members' # members =>
              /\ ~All(t, Sender(t), "plain")
              /\ members'[Sender(t)] = members[Sender(t)]
              /\ \A u \in Users : All(t, u, "admin") => members'[u] = members[u]
  <2> SUFFICES ASSUME Inv, [Next]_vars, NEW t \in Threads,
                      pc[t] = "write", pc'[t] = "idle", Verb(t) \in Moderation,
                      members' # members
               PROVE  /\ ~All(t, Sender(t), "plain")
                      /\ members'[Sender(t)] = members[Sender(t)]
                      /\ \A u \in Users : All(t, u, "admin") => members'[u] = members[u]
    OBVIOUS
  <2>1. PICK s \in Threads : WriteRole(s)
    BY Writers DEF Inv
  <2>2. s = t
    BY <2>1 DEF WriteRole, Finish, Inv, TypeOK
  <2>3. members' = [members EXCEPT ![Who(t)] = newRole[t]]
    BY <2>1, <2>2 DEF WriteRole, Subject, Moderation
  <2>4. members \in [Users -> Roles] /\ Sender(t) \in Users
    BY MessagesAssumption DEF Inv, TypeOK, Sender
  <2>5. Privileged(t)
    BY DEF Inv, Careful
  <2> QED
    BY <2>3, <2>4, <2>5 DEF Privileged
<1> QED
  BY <1>1, AlwaysInv, PTL DEF Spec, ModerationIsAuthorised
----------------------------------------------------------------------------
(* Held messages. *)

In(s, m) == \E i \in DOMAIN s : s[i].msg = m

LEMMA EntryIn ==
    ASSUME NEW s \in Seq(Entries), NEW m
    PROVE  (\E e \in Entries : e.msg = m /\ \E i \in DOMAIN s : s[i] = e) <=> In(s, m)
<1>1. \A i \in DOMAIN s : s[i] \in Entries
  OBVIOUS
<1> QED
  BY <1>1 DEF In

LEMMA InAppend ==
    ASSUME NEW s \in Seq(Entries), NEW e \in Entries, NEW m
    PROVE  /\ In(s, m) => In(Append(s, e), m)
           /\ e.msg = m => In(Append(s, e), m)
<1>1. Append(s, e)[Len(s) + 1] = e /\ Len(s) + 1 \in DOMAIN Append(s, e)
  OBVIOUS
<1>2. \A i \in DOMAIN s : i \in DOMAIN Append(s, e) /\ Append(s, e)[i] = s[i]
  OBVIOUS
<1> QED
  BY <1>1, <1>2 DEF In

LEMMA InTail ==
    ASSUME NEW s \in Seq(Entries), s # <<>>, NEW m, In(s, m)
    PROVE  Head(s).msg = m \/ In(Tail(s), m)
<1>1. PICK i \in DOMAIN s : s[i].msg = m
  BY DEF In
<1>2. CASE i = 1
  BY <1>1, <1>2
<1>3. CASE i # 1
  <2>1. i - 1 \in DOMAIN Tail(s) /\ Tail(s)[i - 1] = s[i]
    BY <1>3
  <2> QED
    BY <1>1, <2>1 DEF In
<1> QED
  BY <1>2, <1>3

LEMMA InBoth ==
    ASSUME NEW r \in Seq(Entries), NEW s \in Seq(Entries), NEW m
    PROVE  In(r, m) \/ In(s, m) => In(r \o s, m)
<1>1. ASSUME In(r, m) PROVE In(r \o s, m)
  <2>1. \A i \in DOMAIN r : i \in DOMAIN (r \o s) /\ (r \o s)[i] = r[i]
    OBVIOUS
  <2> QED
    BY <1>1, <2>1 DEF In
<1>2. ASSUME In(s, m) PROVE In(r \o s, m)
  <2>1. \A i \in DOMAIN s : Len(r) + i \in DOMAIN (r \o s) /\ (r \o s)[Len(r) + i] = s[i]
    OBVIOUS
  <2> QED
    BY <1>2, <2>1 DEF In
<1> QED
  BY <1>1, <1>2

(* The reason for which the first message of a retry leaves the hold. *)
HasReason(m) ==
    /\ Retrying /\ Head(batch).msg = m
    /\ \/ Head(batch).late
       \/ Author[m] \in known /\ (m \in Genuine => handling'[Egress] = m)

LEMMA LetsGo ==
    ASSUME TypeOK, TypeOK', [Next]_vars, NEW m \in Messages, Holds(m), ~Holds(m)'
    PROVE  faults' # faults \/ HasReason(m)
<1>1. held \in Seq(Entries) /\ batch \in Seq(Entries) /\ kept \in Seq(Entries)
  BY DEF TypeOK
<1>2. /\ In(held, m) \/ In(batch, m) \/ In(kept, m)
      /\ ~In(held', m) /\ ~In(batch', m) /\ ~In(kept', m)
  <2>1. Holds(m) <=> In(held, m) \/ In(batch, m) \/ In(kept, m)
    BY <1>1, EntryIn DEF Holds
  <2>2. held' \in Seq(Entries) /\ batch' \in Seq(Entries) /\ kept' \in Seq(Entries)
    BY DEF TypeOK
  <2>3. Holds(m)' <=> In(held', m) \/ In(batch', m) \/ In(kept', m)
    BY <2>2, EntryIn DEF Holds
  <2> QED
    BY <2>1, <2>3
<1>3. CASE UNCHANGED holding
  BY <1>2, <1>3 DEF holding
<1>4. ASSUME NEW t \in Routers, NEW n \in Messages, Deliver(t, n), held' # held
      PROVE  FALSE
  <2>1. held' = Append(held, [msg |-> n, late |-> FALSE]) /\ batch' = batch /\ kept' = kept
    BY <1>4 DEF Deliver
  <2>2. [msg |-> n, late |-> FALSE] \in Entries
    BY DEF Entries
  <2> QED
    BY <1>1, <1>2, <2>1, <2>2, InAppend
<1>5. ASSUME NEW i \in DOMAIN held, DeadlinePasses(i)
      PROVE  FALSE
  <2>1. held' = [held EXCEPT ![i].late = TRUE] /\ batch' = batch /\ kept' = kept
    BY <1>5 DEF DeadlinePasses
  <2>2. \A j \in DOMAIN held : held[j] \in Entries
    BY <1>1
  <2>3. \A j \in DOMAIN held : j \in DOMAIN held' /\ held'[j].msg = held[j].msg
    BY <2>1, <2>2 DEF Entries
  <2> QED
    BY <1>2, <2>1, <2>3 DEF In
<1>6. ASSUME TakeHeld
      PROVE  FALSE
  <2>1. ~In(<<>>, m)
    BY DEF In
  <2> QED
    BY <1>2, <1>6, <2>1 DEF TakeHeld
<1>7. ASSUME DropHeld
      PROVE  HasReason(m)
  <2>1. batch # <<>> /\ batch' = Tail(batch) /\ held' = held /\ kept' = kept
    BY <1>7 DEF DropHeld, Retrying
  <2>2. Head(batch).msg = m
    BY <1>1, <1>2, <2>1, InTail
  <2> QED
    BY <1>7, <2>2 DEF DropHeld, HasReason
<1>8. ASSUME KeepHeld
      PROVE  FALSE
  <2>1. /\ batch # <<>> /\ batch' = Tail(batch) /\ held' = held
        /\ kept' = Append(kept, Head(batch))
    BY <1>8 DEF KeepHeld, Retrying
  <2>2. Head(batch) \in Entries
    BY <1>1, <2>1
  <2> QED
    BY <1>1, <1>2, <2>1, <2>2, InTail, InAppend
<1>9. ASSUME Replay
      PROVE  HasReason(m)
  <2>1. batch # <<>> /\ batch' = Tail(batch) /\ held' = held /\ kept' = kept
    BY <1>9 DEF Replay, Retrying
  <2>2. Head(batch).msg = m
    BY <1>1, <1>2, <2>1, InTail
  <2>3. handling'[Egress] = m
    BY <1>9, <2>2 DEF Replay, Begin, TypeOK, Threads
  <2> QED
    BY <1>9, <2>2, <2>3 DEF Replay, HasReason
<1>10. ASSUME PutBack
       PROVE  FALSE
  <2>1. batch' = batch /\ batch = <<>> /\ held' = held \o kept
    BY <1>10 DEF PutBack
  <2>2. ~In(<<>>, m)
    BY DEF In
  <2> QED
    BY <1>1, <1>2, <2>1, <2>2, InBoth
<1>11. ASSUME NEW t \in Threads, Raise(t)
       PROVE  faults' # faults
  BY <1>11 DEF Raise, TypeOK
<1>12. ASSUME Restart
       PROVE  faults' # faults
  BY <1>12 DEF Restart, TypeOK
<1>13. CASE UNCHANGED vars
  BY <1>3, <1>13 DEF vars
<1>14. CASE Next
  <2>1. CASE \E t \in Routers, n \in Messages : Deliver(t, n)
    BY <1>3, <1>4, <2>1 DEF Deliver, holding
  <2>2. CASE \E n \in Messages : Ingest(n)
    BY <1>3, <2>2 DEF Ingest
  <2>3. CASE \E t \in Threads : Handle(t) \/ Raise(t)
    <3>1. ASSUME NEW t \in Threads, Handle(t)
          PROVE  UNCHANGED holding
      BY <3>1 DEF Handle, ReadRole, AskPeers, Enrol, TakeCommand, MarkAnswered, ReadTarget,
                  WriteRole, ListMembers, ListAdopted, StoreAndFanOut
    <3> QED
      BY <1>3, <1>11, <2>3, <3>1
  <2>4. CASE Retry
    BY <1>6, <1>7, <1>8, <1>9, <1>10, <2>4 DEF Retry
  <2>5. CASE Others
    <3>1. CASE \E i \in DOMAIN held : DeadlinePasses(i)
      BY <1>5, <3>1
    <3>2. CASE Restart
      BY <1>12, <3>2
    <3>3. CASE UNCHANGED holding
      BY <1>3, <3>3
    <3> QED
      BY <2>5, <3>1, <3>2, <3>3 DEF Others, Learn, IntervalEnds, Adopt, Release, OperatorSets,
                                    Prune, SetAcl, Change
  <2> QED
    BY <1>14, <2>1, <2>2, <2>3, <2>4, <2>5 DEF Next
<1> QED
  BY <1>13, <1>14

(* However many messages are held while a retry is under way, none of them *)
(* goes but in its turn and for a reason, short of an exception or a kill. *)
THEOREM HeldLeave == Spec => HeldLeavesForAReason
<1>1. TypeOK /\ TypeOK' /\ [Next]_vars =>
        \A m \in Messages : Holds(m) /\ ~Holds(m)' =>
          \/ faults' # faults
          \/ /\ Retrying /\ Head(batch).msg = m
             /\ \/ Head(batch).late
                \/ Author[m] \in known /\ (m \in Genuine => handling'[Egress] = m)
  BY LetsGo DEF HasReason
<1> QED
  BY <1>1, TypeCorrect, PTL DEF Spec, HeldLeavesForAReason
=============================================================================
