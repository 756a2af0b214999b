--------------------------- MODULE FailoverProofs ---------------------------
(***************************************************************************)
(* Proofs about Failover, for any peers, groups, users, timeout and number *)
(* of restarts.                                                            *)
(*                                                                         *)
(* The invariant has three parts on top of the types.  Evidence ties the   *)
(* verdicts of a running check to what the hub knows of the peers, and     *)
(* survives answers that come in meanwhile.  Place says where in a check   *)
(* the hub can be with which work left.  Untold says that the notices      *)
(* still to be queued have not been queued before.                         *)
(***************************************************************************)
EXTENDS Failover, TLAPS

Evidence ==
    /\ \A p \in unheard : silence[p] > Timeout
    /\ \A p \in Peers :
         /\ verdicts[p] = "stale" => uptime > Timeout /\ Silent(p)
         /\ verdicts[p] = "live" => p \notin unheard

Place ==
    /\ stage \in {"idle", "peers"} => groups = {}
    /\ stage # "idle" => peers # {}
    /\ stage = "adopt" =>
         /\ \A p \in serving : verdicts[p] = "stale"
         /\ \A r \in candidates : r[1] \in serving
    /\ stage \in {"groups", "tell"} /\ groups # {} => \A p \in serving : verdicts[p] = "stale"

Untold ==
    /\ AnnouncedAtMostOnce
    /\ stage = "tell" =>
         \A p \in serving : \A r \in toTell \cap AllRows :
            IF verdicts[p] = "stale" THEN announced[r] = 0 ELSE handedBack[r] = 0

Inv == TypeOK /\ Evidence /\ Place /\ Untold

-----------------------------------------------------------------------------
(* The clocks stop one tick past the timeout and never turn back. *)
LEMMA LaterRange ==
    ASSUME NEW t \in Span, NEW d \in Nat
    PROVE  Later(t, d) \in Span /\ (t > Timeout => Later(t, d) > Timeout)
BY TimeoutAssumption DEF Later, Span

(* Each step keeps the types. *)
LEMMA TypeStep ==
    ASSUME TypeOK, [Next]_vars
    PROVE  TypeOK'
<1> USE TimeoutAssumption, RestartsAssumption
<1> USE DEF TypeOK, AllRows, Stages, Roles, Verdicts, disk, check, hub, past
<1>1. CASE Tick
  <2>1. uptime' \in Span /\ silence' \in [Peers -> Span]
    BY <1>1, LaterRange DEF Tick
  <2> QED
    BY <1>1, <2>1 DEF Tick
<1>2. CASE Check
  BY <1>2 DEF Check, peer_status
<1>3. CASE CheckRaises
  BY <1>3 DEF CheckRaises, Rest
<1>4. CASE Restart
  <2>1. PICK d \in Span : silence' = [p \in Peers |-> Later(silence[p], d)]
    BY <1>4 DEF Restart
  <2>2. uptime' \in Span /\ silence' \in [Peers -> Span]
    BY <1>4, <2>1, LaterRange DEF Restart, Span
  <2> QED
    BY <1>4, <2>2 DEF Restart, Rest
<1>5. ASSUME NEW p \in Peers, Answer(p) PROVE TypeOK'
  BY <1>5 DEF Answer, Span
<1>6. ASSUME NEW p \in Peers, RecordState(p) PROVE TypeOK'
  BY <1>6 DEF RecordState
<1>7. ASSUME NEW g \in Groups, NEW u \in Users, NEW role \in Roles, SetRole(g, u, role) PROVE TypeOK'
  BY <1>7 DEF SetRole
<1>8. ASSUME NEW p \in Peers, StartAdopting(p) PROVE TypeOK'
  BY <1>8 DEF StartAdopting
<1>9. ASSUME NEW p \in Peers, ReleasePeer(p) PROVE TypeOK'
  BY <1>9 DEF ReleasePeer, Adopted
<1>10. ASSUME NEW p \in Peers, PassOver(p) PROVE TypeOK'
  BY <1>10 DEF PassOver
<1>11. ASSUME NEW g \in Groups, ReadMembers(g) PROVE TypeOK'
  BY <1>11 DEF ReadMembers
<1>12. ASSUME NEW g \in Groups, SpreadInGroup(g) PROVE TypeOK'
  BY <1>12 DEF SpreadInGroup
<1>13. CASE Adopt
  BY <1>13 DEF Adopt
<1>14. CASE Told
  BY <1>14 DEF Told
<1>15. CASE PeerDone
  BY <1>15 DEF PeerDone
<1>16. ASSUME NEW r \in AllRows, Tell(r) PROVE TypeOK'
  <2>1. Once(announced[r]) \in 0..2 /\ Once(handedBack[r]) \in 0..2
    BY DEF Once
  <2>2. announced' \in [AllRows -> 0..2] /\ handedBack' \in [AllRows -> 0..2]
    BY <1>16, <2>1 DEF Tell
  <2> QED
    BY <1>16, <2>2 DEF Tell
<1>17. CASE SkipIsolation
  BY <1>17 DEF SkipIsolation
<1>18. CASE CheckIsolation
  BY <1>18 DEF CheckIsolation
<1>19. ASSUME NEW n \in Groups \X Users, Spread(n) PROVE TypeOK'
  BY <1>19 DEF Spread
<1>20. CASE SpreadDone
  BY <1>20 DEF SpreadDone
<1>21. CASE UNCHANGED vars
  BY <1>21 DEF vars
<1> QED
  BY <1>1, <1>2, <1>3, <1>4, <1>5, <1>6, <1>7, <1>8, <1>9, <1>10, <1>11,
     <1>12, <1>13, <1>14, <1>15, <1>16, <1>17, <1>18, <1>19, <1>20, <1>21 DEF
     Next, Work

(* Each step keeps the verdicts supported by evidence. *)
LEMMA EvidenceStep ==
    ASSUME TypeOK, Evidence, [Next]_vars
    PROVE  Evidence'
<1> USE TimeoutAssumption
<1> USE DEF TypeOK, Evidence, Silent, disk, check, hub, past
<1>1. CASE Tick
  <2>1. uptime > Timeout => uptime' > Timeout
    BY <1>1, LaterRange DEF Tick
  <2>2. \A p \in Peers : silence[p] > Timeout => silence'[p] > Timeout
    BY <1>1, LaterRange DEF Tick
  <2> QED
    BY <1>1, <2>1, <2>2 DEF Tick
<1>2. CASE Check
  <2>1. \A p \in Peers : verdicts'[p] = "stale" =>
            p \in peers /\ silence[p] > Timeout /\ uptime > Timeout
    BY <1>2 DEF Check, peer_status, Span
  <2>2. \A p \in Peers : verdicts'[p] = "live" => silence[p] <= Timeout /\ p \notin unheard'
    BY <1>2 DEF Check, peer_status, Span
  <2>3. \A p \in unheard' : silence[p] > Timeout
    BY <1>2 DEF Check, peer_status, Span
  <2> QED
    BY <1>2, <2>1, <2>2, <2>3 DEF Check
<1>3. CASE CheckRaises
  BY <1>3 DEF CheckRaises, Rest
<1>4. CASE Restart
  <2>1. PICK d \in Span : silence' = [p \in Peers |-> Later(silence[p], d)]
    BY <1>4 DEF Restart
  <2>2. \A p \in Peers : silence[p] > Timeout => silence'[p] > Timeout
    BY <2>1, LaterRange DEF Span
  <2> QED
    BY <1>4, <2>2 DEF Restart, Rest
<1>5. ASSUME NEW p \in Peers, Answer(p) PROVE Evidence'
  <2>1. silence' = [silence EXCEPT ![p] = 0] /\ unheard' = unheard \ {p}
    BY <1>5 DEF Answer
  <2> QED
    BY <1>5, <2>1 DEF Answer
<1>6. ASSUME NEW p \in Peers, RecordState(p) PROVE Evidence'
  BY <1>6 DEF RecordState
<1>7. ASSUME NEW g \in Groups, NEW u \in Users, NEW role \in Roles, SetRole(g, u, role) PROVE Evidence'
  BY <1>7 DEF SetRole
<1>8. ASSUME NEW p \in Peers, StartAdopting(p) PROVE Evidence'
  BY <1>8 DEF StartAdopting
<1>9. ASSUME NEW p \in Peers, ReleasePeer(p) PROVE Evidence'
  BY <1>9 DEF ReleasePeer
<1>10. ASSUME NEW p \in Peers, PassOver(p) PROVE Evidence'
  BY <1>10 DEF PassOver
<1>11. ASSUME NEW g \in Groups, ReadMembers(g) PROVE Evidence'
  BY <1>11 DEF ReadMembers
<1>12. ASSUME NEW g \in Groups, SpreadInGroup(g) PROVE Evidence'
  BY <1>12 DEF SpreadInGroup
<1>13. CASE Adopt
  BY <1>13 DEF Adopt
<1>14. CASE Told
  BY <1>14 DEF Told
<1>15. CASE PeerDone
  BY <1>15 DEF PeerDone
<1>16. ASSUME NEW r \in AllRows, Tell(r) PROVE Evidence'
  BY <1>16 DEF Tell
<1>17. CASE SkipIsolation
  BY <1>17 DEF SkipIsolation
<1>18. CASE CheckIsolation
  BY <1>18 DEF CheckIsolation
<1>19. ASSUME NEW n \in Groups \X Users, Spread(n) PROVE Evidence'
  BY <1>19 DEF Spread
<1>20. CASE SpreadDone
  BY <1>20 DEF SpreadDone
<1>21. CASE UNCHANGED vars
  BY <1>21 DEF vars
<1> QED
  BY <1>1, <1>2, <1>3, <1>4, <1>5, <1>6, <1>7, <1>8, <1>9, <1>10, <1>11,
     <1>12, <1>13, <1>14, <1>15, <1>16, <1>17, <1>18, <1>19, <1>20, <1>21 DEF
     Next, Work

(* Each step leaves the check in a proper place. *)
LEMMA PlaceStep ==
    ASSUME TypeOK, Place, [Next]_vars
    PROVE  Place'
<1> USE DEF TypeOK, Place, disk, check, hub, past
<1>1. CASE Tick
  BY <1>1 DEF Tick
<1>2. CASE Check
  BY <1>2 DEF Check
<1>3. CASE CheckRaises
  BY <1>3 DEF CheckRaises, Rest
<1>4. CASE Restart
  BY <1>4 DEF Restart, Rest
<1>5. ASSUME NEW p \in Peers, Answer(p) PROVE Place'
  BY <1>5 DEF Answer
<1>6. ASSUME NEW p \in Peers, RecordState(p) PROVE Place'
  BY <1>6 DEF RecordState
<1>7. ASSUME NEW g \in Groups, NEW u \in Users, NEW role \in Roles, SetRole(g, u, role) PROVE Place'
  BY <1>7 DEF SetRole
<1>8. ASSUME NEW p \in Peers, StartAdopting(p) PROVE Place'
  BY <1>8 DEF StartAdopting
<1>9. ASSUME NEW p \in Peers, ReleasePeer(p) PROVE Place'
  BY <1>9 DEF ReleasePeer
<1>10. ASSUME NEW p \in Peers, PassOver(p) PROVE Place'
  BY <1>10 DEF PassOver
<1>11. ASSUME NEW g \in Groups, ReadMembers(g) PROVE Place'
  BY <1>11 DEF ReadMembers
<1>12. ASSUME NEW g \in Groups, SpreadInGroup(g) PROVE Place'
  BY <1>12 DEF SpreadInGroup
<1>13. CASE Adopt
  BY <1>13 DEF Adopt
<1>14. CASE Told
  BY <1>14 DEF Told
<1>15. CASE PeerDone
  BY <1>15 DEF PeerDone
<1>16. ASSUME NEW r \in AllRows, Tell(r) PROVE Place'
  BY <1>16 DEF Tell
<1>17. CASE SkipIsolation
  BY <1>17 DEF SkipIsolation
<1>18. CASE CheckIsolation
  BY <1>18 DEF CheckIsolation
<1>19. ASSUME NEW n \in Groups \X Users, Spread(n) PROVE Place'
  BY <1>19 DEF Spread
<1>20. CASE SpreadDone
  BY <1>20 DEF SpreadDone
<1>21. CASE UNCHANGED vars
  BY <1>21 DEF vars
<1> QED
  BY <1>1, <1>2, <1>3, <1>4, <1>5, <1>6, <1>7, <1>8, <1>9, <1>10, <1>11,
     <1>12, <1>13, <1>14, <1>15, <1>16, <1>17, <1>18, <1>19, <1>20, <1>21 DEF
     Next, Work

(* Each step leaves the notices still to be queued unqueued. *)
LEMMA UntoldStep ==
    ASSUME TypeOK, Place, Untold, [Next]_vars
    PROVE  Untold'
<1> USE DEF TypeOK, Untold, AnnouncedAtMostOnce, disk, check, hub, past
<1>1. CASE Tick
  BY <1>1 DEF Tick
<1>2. CASE Check
  BY <1>2 DEF Check
<1>3. CASE CheckRaises
  BY <1>3 DEF CheckRaises, Rest
<1>4. CASE Restart
  BY <1>4 DEF Restart, Rest
<1>5. ASSUME NEW p \in Peers, Answer(p) PROVE Untold'
  BY <1>5 DEF Answer
<1>6. ASSUME NEW p \in Peers, RecordState(p) PROVE Untold'
  BY <1>6 DEF RecordState
<1>7. ASSUME NEW g \in Groups, NEW u \in Users, NEW role \in Roles, SetRole(g, u, role) PROVE Untold'
  BY <1>7 DEF SetRole
<1>8. ASSUME NEW p \in Peers, StartAdopting(p) PROVE Untold'
  BY <1>8 DEF StartAdopting
<1>9. ASSUME NEW p \in Peers, ReleasePeer(p) PROVE Untold'
  BY <1>9 DEF ReleasePeer, Adopted
<1>10. ASSUME NEW p \in Peers, PassOver(p) PROVE Untold'
  BY <1>10 DEF PassOver
<1>11. ASSUME NEW g \in Groups, ReadMembers(g) PROVE Untold'
  BY <1>11 DEF ReadMembers
<1>12. ASSUME NEW g \in Groups, SpreadInGroup(g) PROVE Untold'
  BY <1>12 DEF SpreadInGroup
<1>13. CASE Adopt
  BY <1>13 DEF Adopt, Place
<1>14. CASE Told
  BY <1>14 DEF Told
<1>15. CASE PeerDone
  BY <1>15 DEF PeerDone
<1>16. ASSUME NEW r \in AllRows, Tell(r) PROVE Untold'
  BY <1>16 DEF Tell, Once
<1>17. CASE SkipIsolation
  BY <1>17 DEF SkipIsolation
<1>18. CASE CheckIsolation
  BY <1>18 DEF CheckIsolation
<1>19. ASSUME NEW n \in Groups \X Users, Spread(n) PROVE Untold'
  BY <1>19 DEF Spread
<1>20. CASE SpreadDone
  BY <1>20 DEF SpreadDone
<1>21. CASE UNCHANGED vars
  BY <1>21 DEF vars
<1> QED
  BY <1>1, <1>2, <1>3, <1>4, <1>5, <1>6, <1>7, <1>8, <1>9, <1>10, <1>11,
     <1>12, <1>13, <1>14, <1>15, <1>16, <1>17, <1>18, <1>19, <1>20, <1>21 DEF
     Next, Work

(* The invariant holds throughout. *)
LEMMA AlwaysInv == Spec => []Inv
<1>1. Init => Inv
  <2> SUFFICES ASSUME Init PROVE Inv
    OBVIOUS
  <2>1. TypeOK
    <3>1. Timeout + 1 \in Span /\ 0 \in Span
      BY TimeoutAssumption DEF Span
    <3>2. silence \in [Peers -> Span] /\ verdicts \in [Peers -> Verdicts] /\ uptime \in Span
      BY <3>1 DEF Init, Resting, Verdicts
    <3>3. roles \in [Groups -> [Users -> Roles]]
      BY DEF Init, Roles
    <3>4. announced \in [AllRows -> 0..2] /\ handedBack \in [AllRows -> 0..2]
      BY DEF Init
    <3>5. theirs = {} /\ adoptions = {} /\ peers = Peers /\ replied = {} /\ unheard = {}
      BY DEF Init
    <3>6. todo = {} /\ serving = {} /\ groups = {} /\ candidates = {} /\ toTell = {}
      BY DEF Init, Resting
    <3>7. isolated \in BOOLEAN /\ stage \in Stages
      BY Zenon DEF Init, Resting, Stages
    <3>8. restarts \in 0..MaxRestarts
      BY RestartsAssumption DEF Init
    <3> QED
      BY <3>2, <3>3, <3>4, <3>5, <3>6, <3>7, <3>8 DEF TypeOK
  <2>2. Evidence
    BY DEF Init, Resting, Evidence
  <2>3. Place
    BY DEF Init, Resting, Place
  <2>4. Untold
    BY DEF Init, Resting, Untold, AnnouncedAtMostOnce
  <2> QED
    BY <2>1, <2>2, <2>3, <2>4 DEF Inv
<1>2. Inv /\ [Next]_vars => Inv'
  BY TypeStep, EvidenceStep, PlaceStep, UntoldStep DEF Inv
<1> QED
  BY <1>1, <1>2, PTL DEF Spec

-----------------------------------------------------------------------------
(* The theorems. *)

(* Type correctness. *)
THEOREM TypeCorrect == Spec => []TypeOK
BY AlwaysInv, PTL DEF Inv

(* No adoption and no hand-back is told twice, wherever checks are cut     *)
(* short by exceptions and kills (failover.py:25-26).                      *)
THEOREM ToldAtMostOnce == Spec => []AnnouncedAtMostOnce
<1>1. Inv => AnnouncedAtMostOnce
  BY DEF Inv, Untold
<1> QED
  BY AlwaysInv, <1>1, PTL

(* A restart is not evidence about a peer: members are adopted only after  *)
(* the hub was up, and the peer silent, for the timeout, and are released  *)
(* only after the peer answered (failover.py:109-115).                     *)
THEOREM EvidenceForAdoptions == Spec => AdoptionsFollowEvidence
<1> DEFINE Good == /\ \A r \in adoptions' \ adoptions : uptime > Timeout /\ Silent(r[1])
                   /\ \A r \in adoptions \ adoptions' : r[1] \notin unheard
<1>1. Inv /\ [Next]_vars => [Good]_vars
  <2> SUFFICES ASSUME Inv, [Next]_vars PROVE Good
    OBVIOUS
  <2> USE DEF Inv, TypeOK, disk, check, hub, past
  <2>1. CASE Tick
    BY <2>1 DEF Tick
  <2>2. CASE Check
    BY <2>2 DEF Check
  <2>3. CASE CheckRaises
    BY <2>3 DEF CheckRaises, Rest
  <2>4. CASE Restart
    BY <2>4 DEF Restart, Rest
  <2>5. ASSUME NEW p \in Peers, Answer(p) PROVE Good
    BY <2>5 DEF Answer
  <2>6. ASSUME NEW p \in Peers, RecordState(p) PROVE Good
    BY <2>6 DEF RecordState
  <2>7. ASSUME NEW g \in Groups, NEW u \in Users, NEW role \in Roles, SetRole(g, u, role) PROVE Good
    BY <2>7 DEF SetRole
  <2>8. ASSUME NEW p \in Peers, StartAdopting(p) PROVE Good
    BY <2>8 DEF StartAdopting
  <2>9. ASSUME NEW p \in Peers, ReleasePeer(p) PROVE Good
    BY <2>9 DEF ReleasePeer, Evidence, Adopted, AllRows
  <2>10. ASSUME NEW p \in Peers, PassOver(p) PROVE Good
    BY <2>10 DEF PassOver
  <2>11. ASSUME NEW g \in Groups, ReadMembers(g) PROVE Good
    BY <2>11 DEF ReadMembers
  <2>12. ASSUME NEW g \in Groups, SpreadInGroup(g) PROVE Good
    BY <2>12 DEF SpreadInGroup
  <2>13. CASE Adopt
    BY <2>13 DEF Adopt, Evidence, Place, AllRows
  <2>14. CASE Told
    BY <2>14 DEF Told
  <2>15. CASE PeerDone
    BY <2>15 DEF PeerDone
  <2>16. ASSUME NEW r \in AllRows, Tell(r) PROVE Good
    BY <2>16 DEF Tell
  <2>17. CASE SkipIsolation
    BY <2>17 DEF SkipIsolation
  <2>18. CASE CheckIsolation
    BY <2>18 DEF CheckIsolation
  <2>19. ASSUME NEW n \in Groups \X Users, Spread(n) PROVE Good
    BY <2>19 DEF Spread
  <2>20. CASE SpreadDone
    BY <2>20 DEF SpreadDone
  <2>21. CASE UNCHANGED vars
    BY <2>21 DEF vars
  <2> QED
    BY <2>1, <2>2, <2>3, <2>4, <2>5, <2>6, <2>7, <2>8, <2>9, <2>10, <2>11,
       <2>12, <2>13, <2>14, <2>15, <2>16, <2>17, <2>18, <2>19, <2>20, <2>21 DEF
       Next, Work
<1> QED
  BY AlwaysInv, <1>1, PTL DEF Spec, AdoptionsFollowEvidence

(* The same for the isolated flag: only silence of every peer raises it,   *)
(* only an answer takes it down (failover.py:140-151, 208-222).            *)
THEOREM EvidenceForIsolation == Spec => IsolationFollowsEvidence
<1> DEFINE Good == isolated' # isolated =>
                     IF isolated' THEN uptime > Timeout /\ \A p \in peers : Silent(p)
                                  ELSE \E p \in peers : p \notin unheard
<1>1. Inv /\ [Next]_vars => [Good]_vars
  <2> SUFFICES ASSUME Inv, [Next]_vars PROVE Good
    OBVIOUS
  <2> USE DEF Inv, TypeOK, disk, check, hub, past
  <2>1. CASE Tick
    BY <2>1 DEF Tick
  <2>2. CASE Check
    BY <2>2 DEF Check
  <2>3. CASE CheckRaises
    BY <2>3 DEF CheckRaises, Rest
  <2>4. CASE Restart
    BY <2>4 DEF Restart, Rest
  <2>5. ASSUME NEW p \in Peers, Answer(p) PROVE Good
    BY <2>5 DEF Answer
  <2>6. ASSUME NEW p \in Peers, RecordState(p) PROVE Good
    BY <2>6 DEF RecordState
  <2>7. ASSUME NEW g \in Groups, NEW u \in Users, NEW role \in Roles, SetRole(g, u, role) PROVE Good
    BY <2>7 DEF SetRole
  <2>8. ASSUME NEW p \in Peers, StartAdopting(p) PROVE Good
    BY <2>8 DEF StartAdopting
  <2>9. ASSUME NEW p \in Peers, ReleasePeer(p) PROVE Good
    BY <2>9 DEF ReleasePeer
  <2>10. ASSUME NEW p \in Peers, PassOver(p) PROVE Good
    BY <2>10 DEF PassOver
  <2>11. ASSUME NEW g \in Groups, ReadMembers(g) PROVE Good
    BY <2>11 DEF ReadMembers
  <2>12. ASSUME NEW g \in Groups, SpreadInGroup(g) PROVE Good
    BY <2>12 DEF SpreadInGroup
  <2>13. CASE Adopt
    BY <2>13 DEF Adopt
  <2>14. CASE Told
    BY <2>14 DEF Told
  <2>15. CASE PeerDone
    BY <2>15 DEF PeerDone
  <2>16. ASSUME NEW r \in AllRows, Tell(r) PROVE Good
    BY <2>16 DEF Tell
  <2>17. CASE SkipIsolation
    BY <2>17 DEF SkipIsolation
  <2>18. CASE CheckIsolation
    <3>1. CASE \A p \in peers : verdicts[p] = "stale"
      BY <2>18, <3>1 DEF CheckIsolation, Evidence, Place
    <3>2. CASE \E p \in peers : verdicts[p] # "stale"
      BY <2>18, <3>2 DEF CheckIsolation, Evidence, Verdicts
    <3> QED
      BY <3>1, <3>2
  <2>19. ASSUME NEW n \in Groups \X Users, Spread(n) PROVE Good
    BY <2>19 DEF Spread
  <2>20. CASE SpreadDone
    BY <2>20 DEF SpreadDone
  <2>21. CASE UNCHANGED vars
    BY <2>21 DEF vars
  <2> QED
    BY <2>1, <2>2, <2>3, <2>4, <2>5, <2>6, <2>7, <2>8, <2>9, <2>10, <2>11,
       <2>12, <2>13, <2>14, <2>15, <2>16, <2>17, <2>18, <2>19, <2>20, <2>21 DEF
       Next, Work
<1> QED
  BY AlwaysInv, <1>1, PTL DEF Spec, IsolationFollowsEvidence
=============================================================================
