--------------------------- MODULE OperatorProofs ---------------------------
(***************************************************************************)
(* Proofs about Operator, for any users, operators, group ids, messages    *)
(* and threads, and any number of commands, exceptions and kills.          *)
(*                                                                         *)
(* Beyond the types the invariant is that a thread of the daemon carries   *)
(* out nothing but genuine commands of operators: the check that was made  *)
(* when the message came, or when it was replayed, holds until it is       *)
(* answered, since only Take gives a thread a command.                     *)
(***************************************************************************)
EXTENDS Operator, FiniteSetTheorems, TLAPS

Authorised == \A w \in Daemon : pc[w] # "idle" => Accepted(handling[w])

Inv == TypeOK /\ Authorised
----------------------------------------------------------------------------
(* Types. *)

DatabaseOK ==
    /\ groups \in [Ids -> 0 .. made]
    /\ members \subseteq Ids \X Users
    /\ answers \subseteq Messages

DestinationsOK ==
    /\ attached \in [Ids -> 0 .. made]
    /\ due \subseteq {i \in Ids : attached[i] # 0}
    /\ loading \in BOOLEAN
    /\ listing \subseteq Ids \X (1 .. made)

HoldingOK == held \in Seq(Messages) /\ batch \in Seq(Messages) /\ kept \in Seq(Messages)

WorkersOK ==
    /\ pc \in [Workers -> Places]
    /\ handling \in [Workers -> Messages \cup {NoMessage}]
    /\ \A w \in Workers : (pc[w] = "idle") = (handling[w] = NoMessage)

WorldOK ==
    /\ known \subseteq Users
    /\ delivered \subseteq Messages
    /\ heard \subseteq 1 .. made

CountersOK == made \in Nat /\ typed \in Nat /\ faults \in Nat

LEMMA Parts ==
    /\ TypeOK <=> /\ DatabaseOK /\ DestinationsOK /\ HoldingOK /\ WorkersOK
                  /\ WorldOK /\ CountersOK
    /\ TypeOK' <=> /\ DatabaseOK' /\ DestinationsOK' /\ HoldingOK' /\ WorkersOK'
                   /\ WorldOK' /\ CountersOK'
BY DEF TypeOK, DatabaseOK, DestinationsOK, HoldingOK, WorkersOK, WorldOK, CountersOK

(* A worker that takes a command, goes on with it or is through with it    *)
(* stays well-typed.                                                       *)
LEMMA TakeOK ==
    ASSUME WorkersOK, NEW w \in Workers, NEW m \in Messages, Take(w, m)
    PROVE  WorkersOK'
BY CommandsAssumption DEF WorkersOK, Take, Places

LEMMA GotoOK ==
    ASSUME WorkersOK, NEW w \in Workers, pc[w] # "idle",
           NEW place \in Places \ {"idle"}, Goto(w, place)
    PROVE  WorkersOK'
BY DEF WorkersOK, Goto

LEMMA FinishOK ==
    ASSUME WorkersOK, NEW w \in Workers, Finish(w)
    PROVE  WorkersOK'
BY DEF WorkersOK, Finish, Places

(* What a step of a worker that is busy does to the tables. *)
LEMMA Busy ==
    ASSUME WorkersOK, NEW w \in Workers, pc[w] # "idle"
    PROVE  /\ handling[w] \in Messages
           /\ Id(w) \in Ids /\ Who(w) \in Users /\ Verb(w) \in Verbs
<1>1. handling[w] \in Messages
  BY DEF WorkersOK
<1> QED
  BY <1>1, CommandsAssumption DEF Id, Who, Verb

LEMMA WorkOK ==
    ASSUME TypeOK, NEW w \in Workers, Work(w)
    PROVE  TypeOK'
<1> USE Parts
<1>1. CASE Check(w)
  <2>1. WorkersOK'
    <3>1. PICK place \in {"role", "act", "reply"} : Goto(w, place)
      BY <1>1 DEF Check
    <3> QED
      BY <1>1, <3>1, GotoOK DEF Check, Places
  <2> QED
    BY <1>1, <2>1 DEF Check, database, destinations, holding, world, DatabaseOK,
                      DestinationsOK, HoldingOK, WorldOK, CountersOK
<1>2. CASE ReadRole(w)
  <2>1. WorkersOK'
    <3>1. PICK place \in {"act", "reply"} : Goto(w, place)
      BY <1>2 DEF ReadRole
    <3> QED
      BY <1>2, <3>1, GotoOK DEF ReadRole, Places
  <2> QED
    BY <1>2, <2>1 DEF ReadRole, database, destinations, holding, world, DatabaseOK,
                      DestinationsOK, HoldingOK, WorldOK, CountersOK
<1>3. ASSUME NEW verb, Acts(w, verb)
      PROVE  /\ WorkersOK' /\ HoldingOK'
             /\ Id(w) \in Ids /\ Who(w) \in Users
             /\ UNCHANGED <<answers, attached, due, loading, listing, known, delivered,
                            heard, typed, faults>>
  <2>1. WorkersOK'
    BY <1>3, GotoOK DEF Acts, Places
  <2> QED
    BY <1>3, <2>1, Busy DEF Acts, destinations, holding, world, HoldingOK
<1>4. CASE Create(w)
  <2>1. made \in Nat /\ made' = made + 1 /\ members' = members
    BY <1>4 DEF Create, CountersOK
  <2>2. groups' \in [Ids -> 0 .. made']
    BY <1>3, <1>4, <2>1 DEF Create, DatabaseOK
  <2>3. 1 .. made \subseteq 1 .. made' /\ 0 .. made \subseteq 0 .. made'
    BY <2>1
  <2>4. DatabaseOK' /\ WorldOK' /\ CountersOK'
    BY <1>3, <1>4, <2>1, <2>2, <2>3 DEF Create, DatabaseOK, WorldOK, CountersOK
  <2>5. DestinationsOK'
    BY <1>3, <1>4, <2>3 DEF Create, DestinationsOK
  <2> QED
    BY <1>3, <1>4, <2>4, <2>5 DEF Create
<1>5. CASE Delete(w) \/ SetAcl(w) \/ Add(w) \/ Remove(w)
  <2>1. /\ WorkersOK' /\ HoldingOK' /\ made' = made
        /\ UNCHANGED <<answers, attached, due, loading, listing, known, delivered,
                       heard, typed, faults>>
    BY <1>3, <1>5 DEF Delete, SetAcl, Add, Remove
  <2>2. groups' \in [Ids -> 0 .. made] /\ members' \subseteq Ids \X Users
    <3>1. CASE Delete(w)
      <4>1. 0 \in 0 .. made
        BY DEF CountersOK
      <4>2. groups' \in [Ids -> 0 .. made]
        BY <3>1, <4>1 DEF Delete, DatabaseOK
      <4>3. members' \subseteq Ids \X Users
        BY <3>1 DEF Delete, DatabaseOK
      <4> QED
        BY <4>2, <4>3
    <3>2. CASE SetAcl(w)
      BY <3>2 DEF SetAcl, DatabaseOK
    <3>3. CASE Add(w)
      BY <1>3, <3>3 DEF Add, DatabaseOK
    <3>4. CASE Remove(w)
      BY <3>4 DEF Remove, DatabaseOK
    <3> QED
      BY <1>5, <3>1, <3>2, <3>3, <3>4
  <2> QED
    BY <2>1, <2>2 DEF DatabaseOK, DestinationsOK, WorldOK, CountersOK
<1>6. CASE Reply(w)
  <2>1. WorkersOK' /\ handling[w] \in Messages
    BY <1>6, FinishOK, Busy DEF Reply
  <2> QED
    BY <1>6, <2>1 DEF Reply, destinations, holding, world, DatabaseOK,
                      DestinationsOK, HoldingOK, WorldOK, CountersOK
<1> QED
  BY <1>1, <1>2, <1>4, <1>5, <1>6 DEF Work

LEMMA DeliveryOK ==
    ASSUME TypeOK,
           \/ \E w \in Workers : Raises(w) \/ \E m \in Messages : Deliver(w, m)
           \/ \E m \in Messages : Type(m)
           \/ \E u \in Users : Learn(u)
    PROVE  TypeOK'
<1> USE Parts
<1>1. ASSUME NEW w \in Workers, NEW m \in Messages, Deliver(w, m)
      PROVE  TypeOK'
  <2>1. WorkersOK'
    <3>1. CASE UNCHANGED worker
      BY <3>1 DEF worker, WorkersOK
    <3> QED
      BY <1>1, <3>1, TakeOK DEF Deliver
  <2>2. HoldingOK'
    BY <1>1 DEF Deliver, HoldingOK
  <2> QED
    BY <1>1, <2>1, <2>2 DEF Deliver, database, destinations, DatabaseOK, DestinationsOK,
                            WorldOK, CountersOK
<1>2. ASSUME NEW m \in Messages, Type(m)
      PROVE  TypeOK'
  <2>1. WorkersOK'
    BY <1>2, TakeOK DEF Type, Workers
  <2> QED
    BY <1>2, <2>1 DEF Type, database, destinations, holding, world, DatabaseOK,
                      DestinationsOK, HoldingOK, WorldOK, CountersOK
<1>3. ASSUME NEW w \in Workers, Raises(w)
      PROVE  TypeOK'
  <2>1. WorkersOK'
    <3>1. CASE Finish(w)
      BY <3>1, FinishOK
    <3>2. CASE Goto(w, "reply")
      BY <1>3, <3>2, GotoOK DEF Raises, Places
    <3> QED
      BY <1>3, <3>1, <3>2 DEF Raises
  <2> QED
    BY <1>3, <2>1 DEF Raises, Fault, database, destinations, holding, world, DatabaseOK,
                      DestinationsOK, HoldingOK, WorldOK, CountersOK
<1>4. ASSUME NEW u \in Users, Learn(u)
      PROVE  TypeOK'
  BY <1>4 DEF Learn, database, destinations, holding, worker, DatabaseOK, DestinationsOK,
              HoldingOK, WorkersOK, WorldOK, CountersOK
<1> QED
  BY <1>1, <1>2, <1>3, <1>4

LEMMA RetryOK ==
    ASSUME TypeOK, TakeHeld \/ DropHeld \/ KeepHeld \/ Replay \/ PutBack
    PROVE  TypeOK'
<1> USE Parts
<1>1. HoldingOK'
  <2>1. CASE TakeHeld
    BY <2>1 DEF TakeHeld, HoldingOK
  <2>2. CASE DropHeld
    BY <2>2 DEF DropHeld, Retrying, HoldingOK
  <2>3. CASE KeepHeld
    BY <2>3 DEF KeepHeld, Retrying, HoldingOK
  <2>4. CASE Replay
    BY <2>4 DEF Replay, Retrying, HoldingOK
  <2>5. CASE PutBack
    BY <2>5 DEF PutBack, HoldingOK
  <2> QED
    BY <2>1, <2>2, <2>3, <2>4, <2>5
<1>2. WorkersOK'
  <2>1. CASE Replay
    <3>1. Head(batch) \in Messages
      BY <2>1 DEF Replay, Retrying, HoldingOK
    <3> QED
      BY <2>1, <3>1, TakeOK DEF Replay, Workers, Daemon
  <2>2. CASE UNCHANGED worker
    BY <2>2 DEF worker, WorkersOK
  <2> QED
    BY <2>1, <2>2 DEF TakeHeld, DropHeld, KeepHeld, PutBack
<1>3. UNCHANGED <<database, destinations, world, made, typed, faults>>
  BY DEF TakeHeld, DropHeld, KeepHeld, Replay, PutBack
<1> QED
  BY <1>1, <1>2, <1>3 DEF database, destinations, world, DatabaseOK, DestinationsOK, WorldOK,
                          CountersOK

LEMMA LoadingOK ==
    ASSUME TypeOK,
           \/ ListGroups \/ Load \/ LoadRaises
           \/ \E i \in Ids : Announce(i) \/ IntervalEnds(i)
    PROVE  TypeOK'
<1> USE Parts
<1>1. UNCHANGED <<database, holding, worker, known, delivered, made, typed>>
  BY DEF ListGroups, Load, Loaded, Attach, LoadRaises, Announce, IntervalEnds, world
<1>2. faults' \in Nat
  BY DEF ListGroups, Load, Loaded, Attach, LoadRaises, Fault, Announce, IntervalEnds, CountersOK
<1>3. DestinationsOK' /\ heard' \subseteq 1 .. made
  <2>1. CASE ListGroups
    <3>1. \A i \in Ids : groups[i] # 0 => groups[i] \in 1 .. made
      BY DEF DatabaseOK, CountersOK
    <3>2. listing' \subseteq Ids \X (1 .. made)
      BY <2>1, <3>1 DEF ListGroups
    <3> QED
      BY <1>1, <2>1, <3>2 DEF ListGroups, world, DestinationsOK, WorldOK
  <2>2. ASSUME NEW row \in listing, Attach(row)
        PROVE  DestinationsOK' /\ heard' \subseteq 1 .. made
    <3>1. row \in Ids \X (1 .. made) /\ row[1] \in Ids /\ row[2] \in 1 .. made
      BY DEF DestinationsOK
    <3>2. made \in Nat /\ attached \in [Ids -> 0 .. made]
      BY DEF CountersOK, DestinationsOK
    <3>3. /\ attached' \in [Ids -> 0 .. made]
          /\ \A i \in Ids : attached[i] # 0 => attached'[i] # 0
          /\ due' \subseteq due \cup {row[1]}
          /\ attached'[row[1]] # 0
      BY <2>2, <3>1, <3>2 DEF Attach
    <3> QED
      BY <1>1, <2>2, <3>1, <3>3 DEF Attach, world, DestinationsOK, WorldOK
  <2>3. CASE Loaded \/ LoadRaises
    BY <1>1, <2>3 DEF Loaded, LoadRaises, world, DestinationsOK, WorldOK
  <2>4. ASSUME NEW i \in Ids, Announce(i)
        PROVE  DestinationsOK' /\ heard' \subseteq 1 .. made
    <3>1. attached[i] \in 1 .. made
      BY <2>4 DEF Announce, DestinationsOK, CountersOK
    <3> QED
      BY <1>1, <2>4, <3>1 DEF Announce, DestinationsOK, WorldOK
  <2>5. ASSUME NEW i \in Ids, IntervalEnds(i)
        PROVE  DestinationsOK' /\ heard' \subseteq 1 .. made
    BY <1>1, <2>5 DEF IntervalEnds, world, DestinationsOK, WorldOK
  <2> QED
    BY <2>1, <2>2, <2>3, <2>4, <2>5 DEF Load
<1> QED
  BY <1>1, <1>2, <1>3 DEF database, holding, worker, DatabaseOK, HoldingOK, WorkersOK, WorldOK,
                          CountersOK

LEMMA RestartOK ==
    ASSUME TypeOK, Restart
    PROVE  TypeOK'
<1> USE Parts
<1>1. made \in Nat /\ made' = made /\ typed' = typed /\ faults' \in Nat
  BY DEF Restart, Fault, CountersOK
<1>2. WorkersOK'
  BY DEF Restart, WorkersOK, Places
<1>3. DestinationsOK'
  <2>1. 0 \in 0 .. made
    BY <1>1
  <2>2. attached' \in [Ids -> 0 .. made']
    BY <1>1, <2>1 DEF Restart
  <2>3. due' = {} /\ loading' = FALSE /\ listing' = {}
    BY DEF Restart
  <2> QED
    BY <2>2, <2>3 DEF DestinationsOK
<1>4. HoldingOK'
  BY DEF Restart, HoldingOK
<1>5. DatabaseOK' /\ WorldOK'
  BY <1>1 DEF Restart, database, DatabaseOK, WorldOK
<1> QED
  BY <1>1, <1>2, <1>3, <1>4, <1>5 DEF CountersOK

LEMMA TypeStep ==
    ASSUME TypeOK, [Next]_vars
    PROVE  TypeOK'
<1>1. CASE Next
  BY <1>1, WorkOK, DeliveryOK, RetryOK, LoadingOK, RestartOK DEF Next
<1>2. CASE UNCHANGED vars
  BY <1>2 DEF vars, database, destinations, holding, worker, world, TypeOK
<1> QED
  BY <1>1, <1>2

LEMMA TypeInit == Init => TypeOK
<1> SUFFICES ASSUME Init PROVE TypeOK
  OBVIOUS
<1>1. made \in Nat
  BY IdsAssumption, FS_CardinalityType DEF Init
<1>2. \A w \in Workers : pc[w] = "idle" /\ handling[w] = NoMessage
  BY DEF Init
<1>3. 0 \in 0 .. made /\ attached \in [Ids -> 0 .. made]
  BY <1>1 DEF Init
<1>4. /\ due = {} /\ loading = FALSE /\ listing = {} /\ heard = {}
      /\ typed = 0 /\ faults = 0 /\ delivered = {} /\ answers = {}
      /\ groups \in [Ids -> 0 .. made] /\ members \subseteq Ids \X Users /\ known \subseteq Users
  BY DEF Init
<1>5. held \in Seq(Messages) /\ batch \in Seq(Messages) /\ kept \in Seq(Messages)
  BY DEF Init
<1>6. pc \in [Workers -> Places] /\ handling \in [Workers -> Messages \cup {NoMessage}]
  BY DEF Init, Places
<1>7. \A w \in Workers : (pc[w] = "idle") = (handling[w] = NoMessage)
  BY <1>2
<1> QED
  BY <1>1, <1>3, <1>4, <1>5, <1>6, <1>7 DEF TypeOK

(* Type correctness, for any commands, workers and numbers of faults.      *)
THEOREM TypeCorrect == Spec => []TypeOK
BY TypeInit, TypeStep, PTL DEF Spec
----------------------------------------------------------------------------
(* Who acts. *)

(* A thread of the daemon gets a command from Take alone. *)
LEMMA AuthorisedStep ==
    ASSUME TypeOK, Authorised, [Next]_vars
    PROVE  Authorised'
<1>1. ASSUME NEW w \in Workers, Finish(w) \/ \E place : Goto(w, place), pc[w] # "idle"
      PROVE  Authorised'
  BY <1>1 DEF TypeOK, Authorised, Accepted, Finish, Goto, Workers
<1>2. ASSUME NEW w \in Workers, NEW m, Take(w, m), w # Shell => Accepted(m)
      PROVE  Authorised'
  BY <1>2, WorkersAssumption DEF TypeOK, Authorised, Accepted, Take, Workers
<1>3. CASE UNCHANGED worker
  BY <1>3 DEF Authorised, Accepted, worker
<1>4. CASE Restart
  BY <1>4, WorkersAssumption DEF Restart, Authorised, Daemon, Workers
<1>5. CASE \E w \in Workers : Work(w) \/ Raises(w)
  BY <1>1, <1>5 DEF Work, Check, ReadRole, Create, Delete, SetAcl, Add, Remove, Acts, Reply,
                    Raises
<1>6. CASE \E w \in Workers, m \in Messages : Deliver(w, m)
  BY <1>2, <1>3, <1>6 DEF Deliver
<1>7. CASE \E m \in Messages : Type(m)
  BY <1>2, <1>7 DEF Type, Workers
<1>8. CASE Replay
  BY <1>2, <1>8 DEF Replay, Workers, Daemon
<1>9. CASE UNCHANGED vars
  BY <1>3, <1>9 DEF vars
<1> QED
  BY <1>3, <1>4, <1>5, <1>6, <1>7, <1>8, <1>9
     DEF Next, Learn, TakeHeld, DropHeld, KeepHeld, PutBack, ListGroups, Load, Loaded, Attach,
         LoadRaises, Announce, IntervalEnds

LEMMA AlwaysInv == Spec => []Inv
<1>1. Init => Inv
  BY TypeInit, WorkersAssumption DEF Init, Inv, Authorised, Workers
<1>2. Inv /\ [Next]_vars => Inv'
  BY TypeStep, AuthorisedStep DEF Inv
<1> QED
  BY <1>1, <1>2, PTL DEF Spec

(* The only steps that write the groups and members tables. *)
LEMMA Writers ==
    ASSUME [Next]_vars, <<groups, members>>' # <<groups, members>>
    PROVE  \E w \in Workers : \E verb : Acts(w, verb)
<1>1. CASE \E w \in Workers : Work(w)
  BY <1>1 DEF Work, Check, ReadRole, Create, Delete, SetAcl, Add, Remove, Reply, database
<1>2. CASE UNCHANGED database
  BY <1>2 DEF database
<1> QED
  BY <1>1, <1>2
     DEF Next, Raises, Deliver, Type, Learn, TakeHeld, DropHeld, KeepHeld, Replay, PutBack,
         ListGroups, Load, Loaded, Attach, LoadRaises, Announce, IntervalEnds, Restart, vars

(* Whatever is delivered, held, replayed and typed, in any number of       *)
(* threads, the tables of groups and members change at an operator's word  *)
(* only.                                                                   *)
THEOREM OperatorsChange == Spec => OnlyOperatorsChange
<1>1. Inv /\ [Next]_vars =>
        (<<groups, members>>' # <<groups, members>> =>
          \E w \in Workers :
             /\ pc[w] = "act" /\ pc'[w] = "reply"
             /\ w # Shell => handling[w] \in Genuine /\ Author[handling[w]] \in Operators)
  <2> SUFFICES ASSUME Inv, [Next]_vars, <<groups, members>>' # <<groups, members>>
               PROVE  \E w \in Workers :
                        /\ pc[w] = "act" /\ pc'[w] = "reply"
                        /\ w # Shell =>
                             handling[w] \in Genuine /\ Author[handling[w]] \in Operators
    OBVIOUS
  <2>1. PICK w \in Workers : \E verb : Acts(w, verb)
    BY Writers
  <2>2. pc[w] = "act" /\ pc'[w] = "reply"
    BY <2>1 DEF Acts, Goto, Inv, TypeOK
  <2>3. w # Shell => Accepted(handling[w])
    BY <2>2 DEF Inv, Authorised, Workers
  <2> QED
    BY <2>2, <2>3 DEF Accepted
<1> QED
  BY <1>1, AlwaysInv, PTL DEF Spec, OnlyOperatorsChange

(* Whichever way a command takes through its checks, in any thread of the  *)
(* daemon, it ends with its answer queued, short of a kill or an exception *)
(* in the queueing.                                                        *)
THEOREM Answered == Spec => CommandsAreAnswered
<1>1. TypeOK /\ [Next]_vars =>
        \A w \in Daemon :
          pc[w] # "idle" /\ pc'[w] = "idle" /\ faults' = faults => handling[w] \in answers'
  <2> SUFFICES ASSUME TypeOK, [Next]_vars, NEW w \in Daemon,
                      pc[w] # "idle", pc'[w] = "idle", faults' = faults
               PROVE  handling[w] \in answers'
    OBVIOUS
  <2> w \in Workers /\ w # Shell
    BY WorkersAssumption DEF Workers
  <2>1. ASSUME NEW v \in Workers, NEW place \in Places \ {"idle"}, Goto(v, place)
        PROVE  FALSE
    BY <2>1 DEF TypeOK, Goto
  <2>2. ASSUME NEW v \in Workers, NEW m, Take(v, m)
        PROVE  FALSE
    BY <2>2 DEF TypeOK, Take
  <2>3. ASSUME UNCHANGED worker
        PROVE  FALSE
    BY <2>3 DEF worker
  <2>4. ASSUME Fault
        PROVE  FALSE
    BY <2>4 DEF TypeOK, Fault
  <2>5. ASSUME NEW v \in Workers, Reply(v)
        PROVE  handling[w] \in answers'
    BY <2>5 DEF TypeOK, Reply, Finish
  <2>6. ASSUME NEW v \in Workers, Work(v)
        PROVE  handling[w] \in answers'
    BY <2>1, <2>5, <2>6 DEF Work, Check, ReadRole, Create, Delete, SetAcl, Add, Remove, Acts,
                            Places
  <2>7. ASSUME NEW v \in Workers, NEW m \in Messages, Deliver(v, m)
        PROVE  FALSE
    BY <2>2, <2>3, <2>7 DEF Deliver
  <2>8. ASSUME NEW m \in Messages, Type(m)
        PROVE  FALSE
    BY <2>2, <2>8 DEF Type, Workers
  <2>9. ASSUME Replay
        PROVE  FALSE
    BY <2>2, <2>9 DEF Replay, Workers, Daemon
  <2> QED
    BY <2>3, <2>4, <2>6, <2>7, <2>8, <2>9
       DEF Next, Raises, Learn, TakeHeld, DropHeld, KeepHeld, PutBack, ListGroups, Load, Loaded,
           Attach, LoadRaises, Announce, IntervalEnds, Restart, vars
<1> QED
  BY <1>1, TypeCorrect, PTL DEF Spec, CommandsAreAnswered
=============================================================================
