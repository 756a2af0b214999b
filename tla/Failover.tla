------------------------------ MODULE Failover ------------------------------
(***************************************************************************)
(* The failover engine of one hub (failover.py) and the tables it works on *)
(* (store.py: peer_liveness, peer_members, adoptions, members, the         *)
(* isolated flag), with the threads that write those tables beside it: the *)
(* federation thread records that a peer answered and what it serves, and  *)
(* operators and members change who belongs to a group.                    *)
(*                                                                         *)
(* A check is not atomic.  It computes a verdict on every peer and then    *)
(* works through them in many transactions: members are read, adopted and  *)
(* only then told, one notice at a time.  An exception abandons it until   *)
(* the next one, a kill loses it.                                          *)
(*                                                                         *)
(* Time advances in ticks.  A peer's silence is the time since its last    *)
(* answer and the uptime the time since the hub started; both stop         *)
(* counting one tick past the timeout, the last value a verdict tells      *)
(* apart, which also stands for a peer that never answered.  How often     *)
(* checks run against the ticks is left open.  Groups the hub does not     *)
(* host play no part, and admins and members are served alike.             *)
(***************************************************************************)
EXTENDS Naturals, FiniteSets

CONSTANTS
    Peers,         \* the peers that are ever configured
    Groups,        \* the groups this hub hosts
    Users,
    Timeout,       \* peer_timeout, in ticks
    MaxRestarts    \* bound: how often the hub is killed and started again

ASSUME TimeoutAssumption == Timeout \in Nat
ASSUME RestartsAssumption == MaxRestarts \in Nat

VARIABLES
    \* On disk.
    roles,        \* members: the role of each user in each group
    theirs,       \* peer_members: <<peer, group, user>>
    adoptions,    \* adoptions: <<peer, group, user>>
    silence,      \* the time since last_success_at of each peer
    isolated,     \* the isolated flag
    \* In memory.
    peers,        \* the peers of the running configuration
    uptime,       \* the time since started_at
    replied,      \* the peer whose answer the federation thread is recording
    stage,        \* where the check is
    verdicts,     \* its verdicts
    todo,         \* the peers it still has to deal with
    serving,      \* the peer it deals with
    groups,       \* the groups it still has to go through
    candidates,   \* the rows it is about to adopt
    toTell,       \* the notices it still has to queue
    \* What happened, for the properties.
    announced,    \* adoption notices queued for a row since it was adopted
    handedBack,   \* hand-back notices queued for a row since it was released
    unheard,      \* peers judged stale and not heard from since
    restarts

disk == <<roles, theirs, adoptions, silence, isolated>>
check == <<stage, verdicts, todo, serving, groups, candidates, toTell>>
hub == <<peers, uptime, replied>>
past == <<announced, handedBack, unheard, restarts>>
vars == <<disk, check, hub, past>>

AllRows == Peers \X Groups \X Users
Stages == {"idle", "peers", "groups", "adopt", "tell", "isolation", "spread"}
Verdicts == {"live", "stale", "unknown"}
Roles == {"none", "member", "banned"}
Span == 0..(Timeout + 1)

TypeOK ==
    /\ roles \in [Groups -> [Users -> Roles]]
    /\ theirs \subseteq AllRows
    /\ adoptions \subseteq AllRows
    /\ silence \in [Peers -> Span]
    /\ isolated \in BOOLEAN
    /\ peers \subseteq Peers
    /\ uptime \in Span
    /\ replied \subseteq Peers
    /\ stage \in Stages
    /\ verdicts \in [Peers -> Verdicts]
    /\ todo \subseteq peers
    /\ serving \subseteq peers
    /\ groups \subseteq Groups
    /\ candidates \subseteq AllRows
    /\ toTell \subseteq AllRows \cup (Groups \X Users)
    /\ announced \in [AllRows -> 0..2]
    /\ handedBack \in [AllRows -> 0..2]
    /\ unheard \subseteq Peers
    /\ restarts \in 0..MaxRestarts

Resting ==
    /\ stage = "idle" /\ todo = {} /\ serving = {} /\ groups = {}
    /\ candidates = {} /\ toTell = {}
    /\ verdicts = [p \in Peers |-> "unknown"]

Init ==
    /\ roles = [g \in Groups |-> [u \in Users |-> "none"]]
    /\ theirs = {} /\ adoptions = {}
    /\ silence = [p \in Peers |-> Timeout + 1]
    /\ isolated = FALSE
    /\ peers = Peers /\ uptime = 0 /\ replied = {}
    /\ Resting
    /\ announced = [r \in AllRows |-> 0]
    /\ handedBack = [r \in AllRows |-> 0]
    /\ unheard = {} /\ restarts = 0

-----------------------------------------------------------------------------
(* The other threads. *)

Later(t, d) == IF t + d > Timeout THEN Timeout + 1 ELSE t + d

Tick ==
    /\ uptime' = Later(uptime, 1)
    /\ silence' = [p \in Peers |-> Later(silence[p], 1)]
    /\ UNCHANGED <<roles, theirs, adoptions, isolated, peers, replied, check, past>>

(* record_peer_success: a federation round got an answer from p. *)
Answer(p) ==
    /\ p \in peers
    /\ silence' = [silence EXCEPT ![p] = 0]
    /\ unheard' = unheard \ {p}
    /\ replied' = {p}
    /\ UNCHANGED <<roles, theirs, adoptions, isolated, peers, uptime, check>>
    /\ UNCHANGED <<announced, handedBack, restarts>>

(* record_peer_state: what the answer says replaces what was known of p. *)
RecordState(p) ==
    /\ p \in replied
    /\ \E now \in SUBSET ({p} \X Groups \X Users) :
         theirs' = {r \in theirs : r[1] # p} \cup now
    /\ replied' = {}
    /\ UNCHANGED <<roles, adoptions, silence, isolated, peers, uptime, check, past>>

(* Operators, admins and joining members. *)
SetRole(g, u, role) ==
    /\ roles[g][u] # role
    /\ roles' = [roles EXCEPT ![g][u] = role]
    /\ UNCHANGED <<theirs, adoptions, silence, isolated, hub, check, past>>

-----------------------------------------------------------------------------
(* The check: failover.py. *)

(* Faulty: a hub that has just started calls a silent peer stale. *)
MutNoStartupWindow(p) == IF silence[p] <= Timeout THEN "live" ELSE "stale"

(* Faulty: a hub that has just started takes every peer for live. *)
MutStartupIsLive(p) ==
    IF silence[p] <= Timeout \/ uptime <= Timeout THEN "live" ELSE "stale"

peer_status(p) ==
    IF silence[p] <= Timeout THEN "live"
    ELSE IF uptime <= Timeout THEN "unknown"
    ELSE "stale"

Check ==
    /\ stage = "idle"
    /\ peers # {}
    /\ verdicts' = [p \in Peers |-> IF p \in peers THEN peer_status(p) ELSE "unknown"]
    /\ todo' = peers
    /\ stage' = "peers"
    /\ unheard' = unheard \cup {p \in peers : peer_status(p) = "stale"}
    /\ UNCHANGED <<serving, groups, candidates, toTell, disk, hub>>
    /\ UNCHANGED <<announced, handedBack, restarts>>

Adopted(p) == {r \in adoptions : r[1] = p}

(* Faulty: a hub that is itself cut off adopts nobody. *)
MutAdoptUnlessIsolated(p) ==
    /\ stage = "peers" /\ p \in todo
    /\ verdicts[p] = "stale"
    /\ todo' = todo \ {p}
    /\ serving' = {p}
    /\ groups' = IF isolated THEN {} ELSE Groups
    /\ stage' = "groups"
    /\ UNCHANGED <<verdicts, candidates, toTell, disk, hub, past>>

(* adopt_peer goes through the groups one by one. *)
StartAdopting(p) ==
    /\ stage = "peers" /\ p \in todo
    /\ verdicts[p] = "stale"
    /\ todo' = todo \ {p}
    /\ serving' = {p}
    /\ groups' = Groups
    /\ stage' = "groups"
    /\ UNCHANGED <<verdicts, candidates, toTell, disk, hub, past>>

(* Banned members count as local. *)
Local(g) == {u \in Users : roles[g][u] # "none"}

ReadMembers(g) ==
    /\ stage = "groups" /\ g \in groups
    /\ groups' = groups \ {g}
    /\ candidates' = {r \in theirs : r[1] \in serving /\ r[2] = g /\ r[3] \notin Local(g)}
    /\ stage' = "adopt"
    /\ UNCHANGED <<verdicts, todo, serving, toTell, disk, hub, past>>

(* Faulty: everybody is reported as newly adopted. *)
MutAdoptAgain ==
    /\ stage = "adopt"
    /\ adoptions' = adoptions \cup candidates
    /\ announced' = [r \in AllRows |-> IF r \in candidates \ adoptions THEN 0 ELSE announced[r]]
    /\ toTell' = candidates
    /\ candidates' = {}
    /\ stage' = "tell"
    /\ UNCHANGED <<verdicts, todo, serving, groups, roles, theirs, silence, isolated, hub>>
    /\ UNCHANGED <<handedBack, unheard, restarts>>

(* store.adopt inserts the rows that are not there and returns those. *)
Adopt ==
    /\ stage = "adopt"
    /\ adoptions' = adoptions \cup candidates
    /\ announced' = [r \in AllRows |-> IF r \in candidates \ adoptions THEN 0 ELSE announced[r]]
    /\ toTell' = candidates \ adoptions
    /\ candidates' = {}
    /\ stage' = "tell"
    /\ UNCHANGED <<verdicts, todo, serving, groups, roles, theirs, silence, isolated, hub>>
    /\ UNCHANGED <<handedBack, unheard, restarts>>

(* A peer that answered again gets its members back, all at once. *)
ReleasePeer(p) ==
    /\ stage = "peers" /\ p \in todo
    /\ verdicts[p] = "live"
    /\ Adopted(p) # {}
    /\ todo' = todo \ {p}
    /\ serving' = {p}
    /\ adoptions' = adoptions \ Adopted(p)
    /\ handedBack' = [r \in AllRows |-> IF r \in Adopted(p) THEN 0 ELSE handedBack[r]]
    /\ toTell' = Adopted(p)
    /\ stage' = "tell"
    /\ UNCHANGED <<verdicts, groups, candidates, roles, theirs, silence, isolated, hub>>
    /\ UNCHANGED <<announced, unheard, restarts>>

PassOver(p) ==
    /\ stage = "peers" /\ p \in todo
    /\ \/ verdicts[p] = "unknown"
       \/ verdicts[p] = "live" /\ Adopted(p) = {}
    /\ todo' = todo \ {p}
    /\ UNCHANGED <<stage, verdicts, serving, groups, candidates, toTell, disk, hub, past>>

Once(n) == IF n < 2 THEN n + 1 ELSE 2

(* The adoption or hand-back notice of one row. *)
Tell(r) ==
    /\ stage = "tell" /\ r \in toTell
    /\ toTell' = toTell \ {r}
    /\ \E p \in serving :
         IF verdicts[p] = "stale"
         THEN announced' = [announced EXCEPT ![r] = Once(@)] /\ UNCHANGED handedBack
         ELSE handedBack' = [handedBack EXCEPT ![r] = Once(@)] /\ UNCHANGED announced
    /\ UNCHANGED <<stage, verdicts, todo, serving, groups, candidates, disk, hub>>
    /\ UNCHANGED <<unheard, restarts>>

Told ==
    /\ stage = "tell" /\ toTell = {}
    /\ stage' = "groups"
    /\ UNCHANGED <<verdicts, todo, serving, groups, candidates, toTell, disk, hub, past>>

PeerDone ==
    /\ stage = "groups" /\ groups = {}
    /\ serving' = {}
    /\ stage' = "peers"
    /\ UNCHANGED <<verdicts, todo, groups, candidates, toTell, disk, hub, past>>

(* Faulty: isolation is only looked at while every peer answers. *)
MutSkipUnlessLive ==
    /\ stage = "peers" /\ todo = {}
    /\ \E p \in peers : verdicts[p] # "live"
    /\ stage' = "idle"
    /\ verdicts' = [p \in Peers |-> "unknown"]
    /\ UNCHANGED <<todo, serving, groups, candidates, toTell, disk, hub, past>>

(* With a verdict missing, nothing can be said about isolation. *)
SkipIsolation ==
    /\ stage = "peers" /\ todo = {}
    /\ \E p \in peers : verdicts[p] = "unknown"
    /\ stage' = "idle"
    /\ verdicts' = [p \in Peers |-> "unknown"]
    /\ UNCHANGED <<todo, serving, groups, candidates, toTell, disk, hub, past>>

(* check_isolation: a change is written down first, then told. *)
CheckIsolation ==
    /\ stage = "peers" /\ todo = {}
    /\ \A p \in peers : verdicts[p] # "unknown"
    /\ isolated' = \A p \in peers : verdicts[p] = "stale"
    /\ IF isolated' = isolated
       THEN stage' = "idle" /\ groups' = {}
       ELSE stage' = "isolation" /\ groups' = Groups
    /\ verdicts' = [p \in Peers |-> "unknown"]
    /\ UNCHANGED <<todo, serving, candidates, toTell, roles, theirs, adoptions, silence, hub, past>>

SpreadInGroup(g) ==
    /\ stage = "isolation" /\ g \in groups
    /\ groups' = groups \ {g}
    /\ toTell' = {g} \X {u \in Users : roles[g][u] = "member"}
    /\ stage' = "spread"
    /\ UNCHANGED <<verdicts, todo, serving, candidates, disk, hub, past>>

Spread(n) ==
    /\ stage = "spread" /\ n \in toTell
    /\ toTell' = toTell \ {n}
    /\ UNCHANGED <<stage, verdicts, todo, serving, groups, candidates, disk, hub, past>>

SpreadDone ==
    /\ \/ stage = "spread" /\ toTell = {} /\ stage' = "isolation"
       \/ stage = "isolation" /\ groups = {} /\ stage' = "idle"
    /\ UNCHANGED <<verdicts, todo, serving, groups, candidates, toTell, disk, hub, past>>

(* Faulty: an abandoned check leaves the peers it had still to deal with.  *)
MutRestKeepsTodo ==
    /\ stage' = "idle" /\ serving' = {} /\ groups' = {}
    /\ candidates' = {} /\ toTell' = {}
    /\ verdicts' = [p \in Peers |-> "unknown"]
    /\ UNCHANGED todo

Rest ==
    /\ stage' = "idle" /\ todo' = {} /\ serving' = {} /\ groups' = {}
    /\ candidates' = {} /\ toTell' = {}
    /\ verdicts' = [p \in Peers |-> "unknown"]

(* An exception ends the check; the supervision loop goes on. *)
CheckRaises ==
    /\ stage # "idle"
    /\ Rest
    /\ UNCHANGED <<disk, hub, past>>

(* The hub is killed and started again, a while later and with the peers   *)
(* its configuration then names.                                           *)
Restart ==
    /\ restarts < MaxRestarts
    /\ restarts' = restarts + 1
    /\ \E d \in Span : silence' = [p \in Peers |-> Later(silence[p], d)]
    /\ peers' \in SUBSET Peers
    /\ uptime' = 0 /\ replied' = {}
    /\ Rest
    /\ UNCHANGED <<roles, theirs, adoptions, isolated, announced, handedBack, unheard>>

Work ==
    \/ \E p \in Peers : StartAdopting(p) \/ ReleasePeer(p) \/ PassOver(p)
    \/ \E g \in Groups : ReadMembers(g) \/ SpreadInGroup(g)
    \/ Adopt \/ Told \/ PeerDone
    \/ \E r \in AllRows : Tell(r)
    \/ SkipIsolation \/ CheckIsolation
    \/ \E n \in Groups \X Users : Spread(n)
    \/ SpreadDone

Next ==
    \/ Tick \/ Check \/ Work \/ CheckRaises \/ Restart
    \/ \E p \in Peers : Answer(p) \/ RecordState(p)
    \/ \E g \in Groups, u \in Users, role \in Roles : SetRole(g, u, role)

Spec == Init /\ [][Next]_vars

(* Time passes, the supervision loop checks and a check is worked through, *)
(* and exceptions do not go on for ever.  Peers, operators and kills owe   *)
(* nothing.                                                                *)
Fairness ==
    /\ WF_vars(Tick) /\ WF_vars(Check) /\ WF_vars(Work)
    /\ <>[][CheckRaises => Work]_vars

FairSpec == Spec /\ Fairness

-----------------------------------------------------------------------------
(* Properties. *)

(* However checks are cut short and repeated, nobody is told twice of one  *)
(* adoption or of one hand-back (failover.py:25-26: a restart mid outage   *)
(* does not re-notify).                                                    *)
AnnouncedAtMostOnce ==
    \A r \in AllRows : announced[r] <= 1 /\ handedBack[r] <= 1

Silent(p) == silence[p] > Timeout \/ p \notin unheard

(* A restart is not evidence about a peer (failover.py:109-115).  Members  *)
(* are adopted only once the hub has been up for the timeout and the peer  *)
(* silent for as long, unless it answers while the check is under way; and *)
(* an adoption, however old, ends only after its peer answered again.      *)
AdoptionsFollowEvidence ==
    [][/\ \A r \in adoptions' \ adoptions : uptime > Timeout /\ Silent(r[1])
       /\ \A r \in adoptions \ adoptions' : r[1] \notin unheard]_vars

(* The isolated flag goes up only when no configured peer has been heard   *)
(* for the timeout, and comes down only when one has answered; a start of  *)
(* the hub does neither (failover.py:150-151).                             *)
IsolationFollowsEvidence ==
    [][isolated' # isolated =>
         IF isolated' THEN uptime > Timeout /\ \A p \in peers : Silent(p)
                      ELSE \E p \in peers : p \notin unheard]_vars

(* The members of a peer that stays silent are served here for good, and   *)
(* those of a peer that keeps answering are not, whatever restarts and     *)
(* exceptions came before.                                                 *)
MembersFindTheirHub ==
    \A p \in Peers :
        /\ \A g \in Groups, u \in Users :
             <>[](/\ p \in peers /\ silence[p] > Timeout
                  /\ <<p, g, u>> \in theirs /\ u \notin Local(g))
               => <>[](<<p, g, u>> \in adoptions)
        /\ <>[](p \in peers /\ silence[p] <= Timeout) => <>[](Adopted(p) = {})

(* A hub that none of its peers answers any more ends up knowing it.       *)
IsolationIsNoticed ==
    <>[](peers # {} /\ \A p \in peers : silence[p] > Timeout) => <>[]isolated
=============================================================================
