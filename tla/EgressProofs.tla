---------------------------- MODULE EgressProofs ----------------------------
(***************************************************************************)
(* Proofs about Egress.tla, for any rows, tables, messages and limits.     *)
(*                                                                         *)
(* The argument has three layers, each an inductive invariant that uses    *)
(* the ones before it:                                                     *)
(*                                                                         *)
(*   Shape    types, and where the egress thread can be;                   *)
(*   Charged  a copy is charged before it is handed over, where "about to  *)
(*            be handed over" (armed) counts as handed over;               *)
(*   Flying   what the router holds against what the in-flight map says.   *)
(***************************************************************************)
EXTENDS Egress, TLAPS

-----------------------------------------------------------------------------
(* The invariants. *)

(* The thread arms one row at a time, none between ticks, and never a row  *)
(* it still has to come to; operator answers are alone in their batch.     *)
(* What is due is queued, and rows that were     *)
(* never queued are nowhere.                                               *)
Shape ==
    /\ TypeOK
    /\ \A q, r \in armed : q = r
    /\ phase = "idle" => batch = {} /\ armed = {}
    /\ batch \cap armed = {}
    /\ \A r \in batch : Kind[r] = "control" <=> phase = "replies"
    /\ \A r \in due : status[r] = "queued"
    /\ \A r \in Rows : status[r] \in {"unknown", "gaveup"} => r \notin batch \cup armed
    /\ \A r \in EgressRows :
         /\ MsgOf[r] \notin seen => status[r] = "unknown"
         /\ status[r] = "queued" => MsgOf[r] \in stored
         /\ status[r] = "pruned" => MsgOf[r] \in seen \ stored
    /\ \A r \in Rows \ EgressRows : status[r] # "pruned"

(* Copies of r that were handed over or are about to be. *)
Sent(r) == copies[r] + (IF r \in armed THEN 1 ELSE 0)

Charged ==
    \A r \in Rows :
        /\ Sent(r) <= MaxAttempts
        /\ status[r] = "unknown" => copies[r] = 0
        /\ status[r] = "queued" \/ r \in batch => Sent(r) <= attempts[r]

(* A copy the router holds, or calls back about, was handed to it; if it *)
(* calls back to say that the copy got through, it did.                    *)
Flying ==
    /\ \A c \in held : c[2] \in 1..copies[c[1]]
    /\ \A c \in calls : copies[c.row] > 0
    /\ \A c \in calls : c.step = "complete" => c.delivered
    /\ \A c \in calls : c.delivered => \E d \in reached : d[1] = c.row

(* With callbacks that release before the scheduler looks again, a row     *)
(* about to be sent waits for the copy it will get, and a queued row for   *)
(* which a release is still to run has no copy out.                        *)
Releasing ==
    /\ \A r \in armed : status[r] = "queued" => inflight[r] = copies[r] + 1
    /\ \A c \in calls : c.step = "release" /\ status[c.row] = "queued" =>
         /\ c.row \notin armed
         /\ \A h \in held : h[1] # c.row

(* A row that was given up on is out of the thread's hands.  (That pruned  *)
(* rows have lost their message is part of Shape.)                         *)
Leaving ==
    \A r \in Rows :
        /\ status[r] = "gaveup" => attempts[r] = MaxAttempts /\ \A c \in held : c[1] # r
        /\ status[r] = "delivered" => \E c \in reached : c[1] = r

-----------------------------------------------------------------------------
(* The steps. *)

(* Each step keeps the shape. *)
LEMMA ShapeStep ==
    ASSUME Shape, [Next]_vars
    PROVE  Shape'
<1> USE RowsAssumption, LimitsAssumption
<1> USE DEF Shape, TypeOK, EgressRows, Outcomes, Copy, Call
<1> USE DEF disk, table, thread, flights, router, env
<1> USE DEF RowsOf, Become, BecomeDue, NoLongerDue, Complete, Defer, Turn,
   Done, DropEntry, Sendable
<1>1. ASSUME NEW m \in Messages, StoreAndEnqueue(m) PROVE Shape'
  BY <1>1 DEF StoreAndEnqueue
<1>2. ASSUME NEW m \in Messages, Prune(m) PROVE Shape'
  BY <1>2 DEF Prune
<1>3. ASSUME NEW r \in Rows, EnqueueText(r) PROVE Shape'
  BY <1>3 DEF EnqueueText
<1>4. ASSUME NEW r \in Rows, WaitEnds(r) PROVE Shape'
  BY <1>4 DEF WaitEnds
<1>5. ASSUME NEW r \in Rows, DeadlinePasses(r) PROVE Shape'
  BY <1>5 DEF DeadlinePasses
<1>6. ASSUME NEW r \in Rows, Announced(r) PROVE Shape'
  BY <1>6 DEF Announced
<1>7. ASSUME NEW r \in Rows, SkipInFlight(r) PROVE Shape'
  BY <1>7 DEF SkipInFlight
<1>8. ASSUME NEW r \in Rows, SkipExpired(r) PROVE Shape'
  BY <1>8 DEF SkipExpired, Expired
<1>9. ASSUME NEW r \in Rows, GiveUp(r) PROVE Shape'
  BY <1>9 DEF GiveUp
<1>10. ASSUME NEW r \in Rows, WaitForGroup(r) PROVE Shape'
  BY <1>10 DEF WaitForGroup
<1>11. ASSUME NEW r \in Rows, AskForPath(r) PROVE Shape'
  BY <1>11 DEF AskForPath
<1>12. ASSUME NEW r \in Rows, CannotBuild(r) PROVE Shape'
  BY <1>12 DEF CannotBuild
<1>13. ASSUME NEW r \in Rows, Arm(r) PROVE Shape'
  BY <1>13 DEF Arm
<1>14. ASSUME NEW r \in Rows, SendRaises(r) PROVE Shape'
  <2>1. CASE Kind[r] = "control"
    BY <1>14, <2>1 DEF SendRaises
  <2>2. CASE Kind[r] # "control"
    BY <1>14, <2>2 DEF SendRaises
  <2> QED
    BY <2>1, <2>2
<1>15. ASSUME NEW r \in Rows, HandOff(r) PROVE Shape'
  BY <1>15 DEF HandOff
<1>16. ASSUME NEW r \in Rows, HandOffRaises(r) PROVE Shape'
  BY <1>16 DEF HandOffRaises
<1>17. CASE StartTick
  BY <1>17 DEF StartTick, Due
<1>18. CASE TakeClients
  BY <1>18 DEF TakeClients, Due
<1>19. CASE EndTick
  BY <1>19 DEF EndTick
<1>20. CASE OutOfTokens
  BY <1>20 DEF OutOfTokens
<1>21. CASE Refill
  BY <1>21 DEF Refill
<1>22. ASSUME NEW c \in held, CopyReaches(c) PROVE Shape'
  BY <1>22 DEF CopyReaches
<1>23. ASSUME NEW c \in held, Forget(c) PROVE Shape'
  BY <1>23 DEF Forget
<1>24. ASSUME NEW c \in held, NEW d \in BOOLEAN, Conclude(c, d) PROVE Shape'
  BY <1>24 DEF Conclude
<1>25. ASSUME NEW c \in calls, Release(c) PROVE Shape'
  BY <1>25 DEF Release
<1>26. ASSUME NEW c \in calls, CompleteDelivered(c) PROVE Shape'
  BY <1>26 DEF CompleteDelivered
<1>27. CASE DeleteGroup
  BY <1>27 DEF DeleteGroup
<1>28. CASE Restart
  BY <1>28 DEF Restart
<1>29. CASE UNCHANGED vars
  BY <1>29 DEF vars
<1> QED
  BY <1>1, <1>2, <1>3, <1>4, <1>5, <1>6, <1>7, <1>8, <1>9, <1>10, <1>11,
     <1>12, <1>13, <1>14, <1>15, <1>16, <1>17, <1>18, <1>19, <1>20, <1>21,
     <1>22, <1>23, <1>24, <1>25, <1>26, <1>27, <1>28, <1>29 DEF Next, Send

(* Arm charges before HandOff sends, and nothing else sends. *)
LEMMA ChargedStep ==
    ASSUME Shape, Charged, [Next]_vars
    PROVE  Charged'
<1> USE RowsAssumption, LimitsAssumption
<1> USE DEF Shape, TypeOK, EgressRows, Charged, Sent
<1> USE DEF disk, table, thread, flights, router, env
<1> USE DEF RowsOf, Become, BecomeDue, NoLongerDue, Complete, Defer, Turn,
   Done, DropEntry, Sendable
<1>1. ASSUME NEW m \in Messages, StoreAndEnqueue(m) PROVE Charged'
  BY <1>1 DEF StoreAndEnqueue
<1>2. ASSUME NEW m \in Messages, Prune(m) PROVE Charged'
  BY <1>2 DEF Prune
<1>3. ASSUME NEW r \in Rows, EnqueueText(r) PROVE Charged'
  BY <1>3 DEF EnqueueText
<1>4. ASSUME NEW r \in Rows, WaitEnds(r) PROVE Charged'
  BY <1>4 DEF WaitEnds
<1>5. ASSUME NEW r \in Rows, DeadlinePasses(r) PROVE Charged'
  BY <1>5 DEF DeadlinePasses
<1>6. ASSUME NEW r \in Rows, Announced(r) PROVE Charged'
  BY <1>6 DEF Announced
<1>7. ASSUME NEW r \in Rows, SkipInFlight(r) PROVE Charged'
  BY <1>7 DEF SkipInFlight
<1>8. ASSUME NEW r \in Rows, SkipExpired(r) PROVE Charged'
  BY <1>8 DEF SkipExpired
<1>9. ASSUME NEW r \in Rows, GiveUp(r) PROVE Charged'
  BY <1>9 DEF GiveUp
<1>10. ASSUME NEW r \in Rows, WaitForGroup(r) PROVE Charged'
  BY <1>10 DEF WaitForGroup
<1>11. ASSUME NEW r \in Rows, AskForPath(r) PROVE Charged'
  BY <1>11 DEF AskForPath
<1>12. ASSUME NEW r \in Rows, CannotBuild(r) PROVE Charged'
  BY <1>12 DEF CannotBuild
<1>13. ASSUME NEW r \in Rows, Arm(r) PROVE Charged'
  BY <1>13 DEF Arm
<1>14. ASSUME NEW r \in Rows, SendRaises(r) PROVE Charged'
  <2>1. CASE Kind[r] = "control"
    BY <1>14, <2>1 DEF SendRaises
  <2>2. CASE Kind[r] # "control"
    BY <1>14, <2>2 DEF SendRaises
  <2> QED
    BY <2>1, <2>2
<1>15. ASSUME NEW r \in Rows, HandOff(r) PROVE Charged'
  BY <1>15 DEF HandOff
<1>16. ASSUME NEW r \in Rows, HandOffRaises(r) PROVE Charged'
  BY <1>16 DEF HandOffRaises
<1>17. CASE StartTick
  BY <1>17 DEF StartTick, Due
<1>18. CASE TakeClients
  BY <1>18 DEF TakeClients, Due
<1>19. CASE EndTick
  BY <1>19 DEF EndTick
<1>20. CASE OutOfTokens
  BY <1>20 DEF OutOfTokens
<1>21. CASE Refill
  BY <1>21 DEF Refill
<1>22. ASSUME NEW c \in held, CopyReaches(c) PROVE Charged'
  BY <1>22 DEF CopyReaches
<1>23. ASSUME NEW c \in held, Forget(c) PROVE Charged'
  BY <1>23 DEF Forget
<1>24. ASSUME NEW c \in held, NEW d \in BOOLEAN, Conclude(c, d) PROVE Charged'
  BY <1>24 DEF Conclude
<1>25. ASSUME NEW c \in calls, Release(c) PROVE Charged'
  BY <1>25 DEF Release
<1>26. ASSUME NEW c \in calls, CompleteDelivered(c) PROVE Charged'
  BY <1>26 DEF CompleteDelivered
<1>27. CASE DeleteGroup
  BY <1>27 DEF DeleteGroup
<1>28. CASE Restart
  BY <1>28 DEF Restart
<1>29. CASE UNCHANGED vars
  BY <1>29 DEF vars
<1> QED
  BY <1>1, <1>2, <1>3, <1>4, <1>5, <1>6, <1>7, <1>8, <1>9, <1>10, <1>11,
     <1>12, <1>13, <1>14, <1>15, <1>16, <1>17, <1>18, <1>19, <1>20, <1>21,
     <1>22, <1>23, <1>24, <1>25, <1>26, <1>27, <1>28, <1>29 DEF Next, Send

(* Copies and callbacks come from the router alone. *)
LEMMA FlyingStep ==
    ASSUME Shape, Charged, Flying, [Next]_vars
    PROVE  Flying'
<1> USE RowsAssumption, LimitsAssumption
<1> USE DEF Shape, TypeOK, Copy, Call, Flying
<1> USE DEF disk, table, thread, flights, router, env
<1> USE DEF RowsOf, Become, BecomeDue, NoLongerDue, Complete, Defer, Turn,
   Done, DropEntry, Sendable
<1>1. ASSUME NEW m \in Messages, StoreAndEnqueue(m) PROVE Flying'
  BY <1>1 DEF StoreAndEnqueue
<1>2. ASSUME NEW m \in Messages, Prune(m) PROVE Flying'
  BY <1>2 DEF Prune
<1>3. ASSUME NEW r \in Rows, EnqueueText(r) PROVE Flying'
  BY <1>3 DEF EnqueueText
<1>4. ASSUME NEW r \in Rows, WaitEnds(r) PROVE Flying'
  BY <1>4 DEF WaitEnds
<1>5. ASSUME NEW r \in Rows, DeadlinePasses(r) PROVE Flying'
  BY <1>5 DEF DeadlinePasses
<1>6. ASSUME NEW r \in Rows, Announced(r) PROVE Flying'
  BY <1>6 DEF Announced
<1>7. ASSUME NEW r \in Rows, SkipInFlight(r) PROVE Flying'
  BY <1>7 DEF SkipInFlight
<1>8. ASSUME NEW r \in Rows, SkipExpired(r) PROVE Flying'
  BY <1>8 DEF SkipExpired
<1>9. ASSUME NEW r \in Rows, GiveUp(r) PROVE Flying'
  BY <1>9 DEF GiveUp
<1>10. ASSUME NEW r \in Rows, WaitForGroup(r) PROVE Flying'
  BY <1>10 DEF WaitForGroup
<1>11. ASSUME NEW r \in Rows, AskForPath(r) PROVE Flying'
  BY <1>11 DEF AskForPath
<1>12. ASSUME NEW r \in Rows, CannotBuild(r) PROVE Flying'
  BY <1>12 DEF CannotBuild
<1>13. ASSUME NEW r \in Rows, Arm(r) PROVE Flying'
  BY <1>13 DEF Arm
<1>14. ASSUME NEW r \in Rows, SendRaises(r) PROVE Flying'
  <2>1. CASE Kind[r] = "control"
    BY <1>14, <2>1 DEF SendRaises
  <2>2. CASE Kind[r] # "control"
    BY <1>14, <2>2 DEF SendRaises
  <2> QED
    BY <2>1, <2>2
<1>15. ASSUME NEW r \in Rows, HandOff(r) PROVE Flying'
  BY <1>15 DEF HandOff
<1>16. ASSUME NEW r \in Rows, HandOffRaises(r) PROVE Flying'
  BY <1>16 DEF HandOffRaises
<1>17. CASE StartTick
  BY <1>17 DEF StartTick, Due
<1>18. CASE TakeClients
  BY <1>18 DEF TakeClients, Due
<1>19. CASE EndTick
  BY <1>19 DEF EndTick
<1>20. CASE OutOfTokens
  BY <1>20 DEF OutOfTokens
<1>21. CASE Refill
  BY <1>21 DEF Refill
<1>22. ASSUME NEW c \in held, CopyReaches(c) PROVE Flying'
  BY <1>22 DEF CopyReaches
<1>23. ASSUME NEW c \in held, Forget(c) PROVE Flying'
  BY <1>23 DEF Forget
<1>24. ASSUME NEW c \in held, NEW d \in BOOLEAN, Conclude(c, d) PROVE Flying'
  BY <1>24 DEF Conclude
<1>25. ASSUME NEW c \in calls, Release(c) PROVE Flying'
  <2> DEFINE next == [c EXCEPT !.step = "complete"]
  <2>1. next.row = c.row /\ next.delivered = c.delivered
    OBVIOUS
  <2>2. \A x \in calls' : x \in calls \/ (c.delivered /\ x = next)
    BY <1>25 DEF Release
  <2> QED
    BY <1>25, <2>1, <2>2 DEF Release
<1>26. ASSUME NEW c \in calls, CompleteDelivered(c) PROVE Flying'
  BY <1>26 DEF CompleteDelivered
<1>27. CASE DeleteGroup
  BY <1>27 DEF DeleteGroup
<1>28. CASE Restart
  BY <1>28 DEF Restart
<1>29. CASE UNCHANGED vars
  BY <1>29 DEF vars
<1> QED
  BY <1>1, <1>2, <1>3, <1>4, <1>5, <1>6, <1>7, <1>8, <1>9, <1>10, <1>11,
     <1>12, <1>13, <1>14, <1>15, <1>16, <1>17, <1>18, <1>19, <1>20, <1>21,
     <1>22, <1>23, <1>24, <1>25, <1>26, <1>27, <1>28, <1>29 DEF Next, Send

(* The scheduler arms a row only when its entry is gone, and an entry goes  *)
(* only when the router is done with the copy.                              *)
LEMMA ReleasingStep ==
    ASSUME PromptRelease, Shape, Charged, Flying, OneCopyAtATime, Releasing,
       [Next]_vars
    PROVE  OneCopyAtATime' /\ Releasing'
<1> USE RowsAssumption, LimitsAssumption
<1> USE DEF Shape, TypeOK, Copy, Call, Charged, Sent, Flying, Releasing,
   OneCopyAtATime, EgressRows
<1> USE DEF disk, table, thread, flights, router, env
<1> USE DEF RowsOf, Become, BecomeDue, NoLongerDue, Complete, Defer, Turn,
   Done, DropEntry, Sendable, InFlight
<1>1. ASSUME NEW m \in Messages, StoreAndEnqueue(m) PROVE OneCopyAtATime' /\
   Releasing'
  BY <1>1 DEF StoreAndEnqueue
<1>2. ASSUME NEW m \in Messages, Prune(m) PROVE OneCopyAtATime' /\ Releasing'
  BY <1>2 DEF Prune
<1>3. ASSUME NEW r \in Rows, EnqueueText(r) PROVE OneCopyAtATime' /\ Releasing'
  BY <1>3 DEF EnqueueText
<1>4. ASSUME NEW r \in Rows, WaitEnds(r) PROVE OneCopyAtATime' /\ Releasing'
  BY <1>4 DEF WaitEnds
<1>5. ASSUME NEW r \in Rows, DeadlinePasses(r) PROVE OneCopyAtATime' /\
   Releasing'
  BY <1>5 DEF DeadlinePasses
<1>6. ASSUME NEW r \in Rows, Announced(r) PROVE OneCopyAtATime' /\ Releasing'
  BY <1>6 DEF Announced
<1>7. ASSUME NEW r \in Rows, SkipInFlight(r) PROVE OneCopyAtATime' /\
   Releasing'
  BY <1>7 DEF SkipInFlight
<1>8. ASSUME NEW r \in Rows, SkipExpired(r) PROVE OneCopyAtATime' /\ Releasing'
  BY <1>8 DEF SkipExpired
<1>9. ASSUME NEW r \in Rows, GiveUp(r) PROVE OneCopyAtATime' /\ Releasing'
  BY <1>9 DEF GiveUp
<1>10. ASSUME NEW r \in Rows, WaitForGroup(r) PROVE OneCopyAtATime' /\
   Releasing'
  BY <1>10 DEF WaitForGroup
<1>11. ASSUME NEW r \in Rows, AskForPath(r) PROVE OneCopyAtATime' /\ Releasing'
  BY <1>11 DEF AskForPath
<1>12. ASSUME NEW r \in Rows, CannotBuild(r) PROVE OneCopyAtATime' /\
   Releasing'
  BY <1>12 DEF CannotBuild
<1>13. ASSUME NEW r \in Rows, Arm(r) PROVE OneCopyAtATime' /\ Releasing'
  BY <1>13 DEF Arm
<1>14. ASSUME NEW r \in Rows, SendRaises(r) PROVE OneCopyAtATime' /\ Releasing'
  <2>1. CASE Kind[r] = "control"
    BY <1>14, <2>1 DEF SendRaises
  <2>2. CASE Kind[r] # "control"
    BY <1>14, <2>2 DEF SendRaises
  <2> QED
    BY <2>1, <2>2
<1>15. ASSUME NEW r \in Rows, HandOff(r) PROVE OneCopyAtATime' /\ Releasing'
  BY <1>15 DEF HandOff
<1>16. ASSUME NEW r \in Rows, HandOffRaises(r) PROVE OneCopyAtATime' /\
   Releasing'
  BY <1>16 DEF HandOffRaises
<1>17. CASE StartTick
  BY <1>17 DEF StartTick, Due
<1>18. CASE TakeClients
  BY <1>18 DEF TakeClients, Due
<1>19. CASE EndTick
  BY <1>19 DEF EndTick
<1>20. CASE OutOfTokens
  BY <1>20 DEF OutOfTokens
<1>21. CASE Refill
  BY <1>21 DEF Refill
<1>22. ASSUME NEW c \in held, CopyReaches(c) PROVE OneCopyAtATime' /\
   Releasing'
  BY <1>22 DEF CopyReaches
<1>23. ASSUME NEW c \in held, Forget(c) PROVE OneCopyAtATime' /\ Releasing'
  BY <1>23 DEF Forget
<1>24. ASSUME NEW c \in held, NEW d \in BOOLEAN, Conclude(c, d) PROVE
   OneCopyAtATime' /\ Releasing'
  BY <1>24 DEF Conclude
<1>25. ASSUME NEW c \in calls, Release(c) PROVE OneCopyAtATime' /\ Releasing'
  BY <1>25 DEF Release
<1>26. ASSUME NEW c \in calls, CompleteDelivered(c) PROVE OneCopyAtATime' /\
   Releasing'
  BY <1>26 DEF CompleteDelivered
<1>27. CASE DeleteGroup
  BY <1>27 DEF DeleteGroup
<1>28. CASE Restart
  BY <1>28 DEF Restart
<1>29. CASE UNCHANGED vars
  BY <1>29 DEF vars
<1> QED
  BY <1>1, <1>2, <1>3, <1>4, <1>5, <1>6, <1>7, <1>8, <1>9, <1>10, <1>11,
     <1>12, <1>13, <1>14, <1>15, <1>16, <1>17, <1>18, <1>19, <1>20, <1>21,
     <1>22, <1>23, <1>24, <1>25, <1>26, <1>27, <1>28, <1>29 DEF Next, Send

(* Only GiveUp and CompleteDelivered take a row off the queue, and neither  *)
(* touches one that is in flight elsewhere.                                 *)
LEMMA LeavingStep ==
    ASSUME PromptRelease, Shape, Charged, Flying, OneCopyAtATime, Leaving,
       [Next]_vars
    PROVE  Leaving'
<1> USE RowsAssumption, LimitsAssumption
<1> USE DEF Shape, TypeOK, Copy, Call, Charged, Sent, Flying, Leaving,
   OneCopyAtATime, EgressRows
<1> USE DEF disk, table, thread, flights, router, env
<1> USE DEF RowsOf, Become, BecomeDue, NoLongerDue, Complete, Defer, Turn,
   Done, DropEntry, Sendable, InFlight
<1>1. ASSUME NEW m \in Messages, StoreAndEnqueue(m) PROVE Leaving'
  BY <1>1 DEF StoreAndEnqueue
<1>2. ASSUME NEW m \in Messages, Prune(m) PROVE Leaving'
  BY <1>2 DEF Prune
<1>3. ASSUME NEW r \in Rows, EnqueueText(r) PROVE Leaving'
  BY <1>3 DEF EnqueueText
<1>4. ASSUME NEW r \in Rows, WaitEnds(r) PROVE Leaving'
  BY <1>4 DEF WaitEnds
<1>5. ASSUME NEW r \in Rows, DeadlinePasses(r) PROVE Leaving'
  BY <1>5 DEF DeadlinePasses
<1>6. ASSUME NEW r \in Rows, Announced(r) PROVE Leaving'
  BY <1>6 DEF Announced
<1>7. ASSUME NEW r \in Rows, SkipInFlight(r) PROVE Leaving'
  BY <1>7 DEF SkipInFlight
<1>8. ASSUME NEW r \in Rows, SkipExpired(r) PROVE Leaving'
  BY <1>8 DEF SkipExpired
<1>9. ASSUME NEW r \in Rows, GiveUp(r) PROVE Leaving'
  BY <1>9 DEF GiveUp
<1>10. ASSUME NEW r \in Rows, WaitForGroup(r) PROVE Leaving'
  BY <1>10 DEF WaitForGroup
<1>11. ASSUME NEW r \in Rows, AskForPath(r) PROVE Leaving'
  BY <1>11 DEF AskForPath
<1>12. ASSUME NEW r \in Rows, CannotBuild(r) PROVE Leaving'
  BY <1>12 DEF CannotBuild
<1>13. ASSUME NEW r \in Rows, Arm(r) PROVE Leaving'
  BY <1>13 DEF Arm
<1>14. ASSUME NEW r \in Rows, SendRaises(r) PROVE Leaving'
  <2>1. CASE Kind[r] = "control"
    BY <1>14, <2>1 DEF SendRaises
  <2>2. CASE Kind[r] # "control"
    BY <1>14, <2>2 DEF SendRaises
  <2> QED
    BY <2>1, <2>2
<1>15. ASSUME NEW r \in Rows, HandOff(r) PROVE Leaving'
  BY <1>15 DEF HandOff
<1>16. ASSUME NEW r \in Rows, HandOffRaises(r) PROVE Leaving'
  BY <1>16 DEF HandOffRaises
<1>17. CASE StartTick
  BY <1>17 DEF StartTick, Due
<1>18. CASE TakeClients
  BY <1>18 DEF TakeClients, Due
<1>19. CASE EndTick
  BY <1>19 DEF EndTick
<1>20. CASE OutOfTokens
  BY <1>20 DEF OutOfTokens
<1>21. CASE Refill
  BY <1>21 DEF Refill
<1>22. ASSUME NEW c \in held, CopyReaches(c) PROVE Leaving'
  BY <1>22 DEF CopyReaches
<1>23. ASSUME NEW c \in held, Forget(c) PROVE Leaving'
  BY <1>23 DEF Forget
<1>24. ASSUME NEW c \in held, NEW d \in BOOLEAN, Conclude(c, d) PROVE Leaving'
  BY <1>24 DEF Conclude
<1>25. ASSUME NEW c \in calls, Release(c) PROVE Leaving'
  BY <1>25 DEF Release
<1>26. ASSUME NEW c \in calls, CompleteDelivered(c) PROVE Leaving'
  BY <1>26 DEF CompleteDelivered
<1>27. CASE DeleteGroup
  BY <1>27 DEF DeleteGroup
<1>28. CASE Restart
  BY <1>28 DEF Restart
<1>29. CASE UNCHANGED vars
  BY <1>29 DEF vars
<1> QED
  BY <1>1, <1>2, <1>3, <1>4, <1>5, <1>6, <1>7, <1>8, <1>9, <1>10, <1>11,
     <1>12, <1>13, <1>14, <1>15, <1>16, <1>17, <1>18, <1>19, <1>20, <1>21,
     <1>22, <1>23, <1>24, <1>25, <1>26, <1>27, <1>28, <1>29 DEF Next, Send

(* Every step of the scheduler is a step of Delivery.tla, or none.           *)
LEMMA RefinesStep ==
    ASSUME Shape, Charged, Flying, [Next]_vars
    PROVE  Abstract!Next \/ UNCHANGED Abstract!vars
<1> USE RowsAssumption, LimitsAssumption
<1> USE DEF Shape, TypeOK, Copy, Call, Charged, Sent, Flying, EgressRows,
   Outcomes
<1> USE DEF disk, table, thread, flights, router, env
<1> USE DEF RowsOf, Become, BecomeDue, NoLongerDue, Complete, Defer, Turn,
   Done, DropEntry, Sendable
<1>1. ASSUME NEW m \in Messages, StoreAndEnqueue(m) PROVE Abstract!Next \/
   UNCHANGED Abstract!vars
  <2>1. Abstract!Enqueue(RowsOf(m))
    BY <1>1 DEF StoreAndEnqueue, Abstract!Enqueue, Abstract!Become
  <2> QED
    BY <2>1 DEF Abstract!Next
<1>2. ASSUME NEW m \in Messages, Prune(m) PROVE Abstract!Next \/ UNCHANGED
   Abstract!vars
  <2> DEFINE S == {r \in RowsOf(m) : status[r] = "queued"}
  <2>1. Abstract!Expire(S)
    BY <1>2 DEF Prune, Abstract!Expire, Abstract!Become
  <2> QED
    BY <2>1 DEF Abstract!Next
<1>3. ASSUME NEW r \in Rows, EnqueueText(r) PROVE Abstract!Next \/ UNCHANGED
   Abstract!vars
  <2>1. Abstract!Enqueue({r})
    BY <1>3 DEF EnqueueText, Abstract!Enqueue, Abstract!Become
  <2> QED
    BY <2>1 DEF Abstract!Next
<1>4. ASSUME NEW r \in Rows, WaitEnds(r) PROVE Abstract!Next \/ UNCHANGED
   Abstract!vars
  BY <1>4 DEF WaitEnds, Abstract!vars
<1>5. ASSUME NEW r \in Rows, DeadlinePasses(r) PROVE Abstract!Next \/
   UNCHANGED Abstract!vars
  BY <1>5 DEF DeadlinePasses, Abstract!vars
<1>6. ASSUME NEW r \in Rows, Announced(r) PROVE Abstract!Next \/ UNCHANGED
   Abstract!vars
  BY <1>6 DEF Announced, Abstract!vars
<1>7. ASSUME NEW r \in Rows, SkipInFlight(r) PROVE Abstract!Next \/ UNCHANGED
   Abstract!vars
  BY <1>7 DEF SkipInFlight, Abstract!vars
<1>8. ASSUME NEW r \in Rows, SkipExpired(r) PROVE Abstract!Next \/ UNCHANGED
   Abstract!vars
  <2>1. status[r] # "queued"
    BY <1>8 DEF SkipExpired, Expired
  <2> QED
    BY <1>8, <2>1 DEF SkipExpired, Abstract!vars
<1>9. ASSUME NEW r \in Rows, GiveUp(r) PROVE Abstract!Next \/ UNCHANGED
   Abstract!vars
  <2>1. CASE status[r] = "queued"
    <3>1. Abstract!GiveUp(r)
      BY <1>9, <2>1 DEF GiveUp, Abstract!GiveUp, Abstract!Become
    <3> QED
      BY <3>1 DEF Abstract!Next
  <2>2. CASE status[r] # "queued"
    BY <1>9, <2>2 DEF GiveUp, Abstract!vars
  <2> QED
    BY <2>1, <2>2
<1>10. ASSUME NEW r \in Rows, WaitForGroup(r) PROVE Abstract!Next \/ UNCHANGED
   Abstract!vars
  BY <1>10 DEF WaitForGroup, Abstract!vars
<1>11. ASSUME NEW r \in Rows, AskForPath(r) PROVE Abstract!Next \/ UNCHANGED
   Abstract!vars
  BY <1>11 DEF AskForPath, Abstract!vars
<1>12. ASSUME NEW r \in Rows, CannotBuild(r) PROVE Abstract!Next \/ UNCHANGED
   Abstract!vars
  <2>1. CASE status[r] = "queued"
    <3>1. Abstract!Charge(r)
      BY <1>12, <2>1 DEF CannotBuild, Abstract!Charge, Abstract!Become
    <3> QED
      BY <3>1 DEF Abstract!Next
  <2>2. CASE status[r] # "queued"
    BY <1>12, <2>2 DEF CannotBuild, Abstract!vars
  <2> QED
    BY <2>1, <2>2
<1>13. ASSUME NEW r \in Rows, Arm(r) PROVE Abstract!Next \/ UNCHANGED
   Abstract!vars
  <2>1. CASE status[r] = "queued"
    <3>1. Abstract!Charge(r)
      BY <1>13, <2>1 DEF Arm, Abstract!Charge, Abstract!Become
    <3> QED
      BY <3>1 DEF Abstract!Next
  <2>2. CASE status[r] # "queued"
    BY <1>13, <2>2 DEF Arm, Abstract!vars
  <2> QED
    BY <2>1, <2>2
<1>14. ASSUME NEW r \in Rows, SendRaises(r) PROVE Abstract!Next \/ UNCHANGED
   Abstract!vars
  <2>1. CASE Kind[r] = "control" /\ status[r] = "queued"
    <3>1. Abstract!Charge(r)
      BY <1>14, <2>1 DEF SendRaises, Abstract!Charge
    <3> QED
      BY <3>1 DEF Abstract!Next
  <2>2. CASE ~ (Kind[r] = "control" /\ status[r] = "queued")
    BY <1>14, <2>2 DEF SendRaises, Abstract!vars
  <2> QED
    BY <2>1, <2>2
<1>15. ASSUME NEW r \in Rows, HandOff(r) PROVE Abstract!Next \/ UNCHANGED
   Abstract!vars
  <2>1. Abstract!Transmit(r)
    BY <1>15 DEF HandOff, Abstract!Transmit
  <2> QED
    BY <2>1 DEF Abstract!Next
<1>16. ASSUME NEW r \in Rows, HandOffRaises(r) PROVE Abstract!Next \/
   UNCHANGED Abstract!vars
  BY <1>16 DEF HandOffRaises, Abstract!vars
<1>17. CASE StartTick
  BY <1>17 DEF StartTick, Abstract!vars
<1>18. CASE TakeClients
  BY <1>18 DEF TakeClients, Abstract!vars
<1>19. CASE EndTick
  BY <1>19 DEF EndTick, Abstract!vars
<1>20. CASE OutOfTokens
  BY <1>20 DEF OutOfTokens, Abstract!vars
<1>21. CASE Refill
  BY <1>21 DEF Refill, Abstract!vars
<1>22. ASSUME NEW c \in held, CopyReaches(c) PROVE Abstract!Next \/ UNCHANGED
   Abstract!vars
  BY <1>22 DEF CopyReaches, Abstract!vars
<1>23. ASSUME NEW c \in held, Forget(c) PROVE Abstract!Next \/ UNCHANGED
   Abstract!vars
  BY <1>23 DEF Forget, Abstract!vars
<1>24. ASSUME NEW c \in held, NEW d \in BOOLEAN, Conclude(c, d) PROVE
   Abstract!Next \/ UNCHANGED Abstract!vars
  BY <1>24 DEF Conclude, Abstract!vars
<1>25. ASSUME NEW c \in calls, Release(c) PROVE Abstract!Next \/ UNCHANGED
   Abstract!vars
  BY <1>25 DEF Release, Abstract!vars
<1>26. ASSUME NEW c \in calls, CompleteDelivered(c) PROVE Abstract!Next \/
   UNCHANGED Abstract!vars
  <2>1. CASE status[c.row] = "queued"
    <3>1. c.row \in Rows /\ Abstract!Confirm(c.row)
      BY <1>26, <2>1 DEF CompleteDelivered, Abstract!Confirm, Abstract!Become
    <3> QED
      BY <3>1 DEF Abstract!Next
  <2>2. CASE status[c.row] # "queued"
    BY <1>26, <2>2 DEF CompleteDelivered, Abstract!vars
  <2> QED
    BY <2>1, <2>2
<1>27. CASE DeleteGroup
  BY <1>27 DEF DeleteGroup, Abstract!vars
<1>28. CASE Restart
  BY <1>28 DEF Restart, Abstract!vars
<1>29. CASE UNCHANGED vars
  BY <1>29 DEF vars, Abstract!vars
<1> QED
  BY <1>1, <1>2, <1>3, <1>4, <1>5, <1>6, <1>7, <1>8, <1>9, <1>10, <1>11,
     <1>12, <1>13, <1>14, <1>15, <1>16, <1>17, <1>18, <1>19, <1>20, <1>21,
     <1>22, <1>23, <1>24, <1>25, <1>26, <1>27, <1>28, <1>29 DEF Next, Send

-----------------------------------------------------------------------------
(* The theorems. *)

(* All three layers, for every behaviour. *)
Layers == Shape /\ Charged /\ Flying

LEMMA InitLayers == Init => Layers
BY RowsAssumption, LimitsAssumption
   DEF Init, Layers, Shape, TypeOK, Charged, Sent, Flying, EgressRows, Outcomes, Copy, Call

LEMMA AlwaysLayers == Spec => []Layers
<1>1. Layers /\ [Next]_vars => Layers'
  BY ShapeStep, ChargedStep, FlyingStep DEF Layers
<1> QED
  BY InitLayers, <1>1, PTL DEF Spec

(* What holds when callbacks release before the scheduler looks again. *)
PromptLayers == Layers /\ OneCopyAtATime /\ Releasing /\ Leaving

LEMMA AlwaysPromptLayers ==
    ASSUME PromptRelease
    PROVE  Spec => []PromptLayers
<1>1. Init => PromptLayers
  BY InitLayers DEF Init, PromptLayers, OneCopyAtATime, Releasing, Leaving
<1>2. PromptLayers /\ [Next]_vars => PromptLayers'
  BY PromptRelease, ShapeStep, ChargedStep, FlyingStep, ReleasingStep, LeavingStep
     DEF PromptLayers, Layers
<1> QED
  BY <1>1, <1>2, PTL DEF Spec

(* Type correctness; in particular no row is ever charged more than        *)
(* max_attempts times (egress.py:246, store.py:1382-1395).                 *)
THEOREM TypeCorrect == Spec => []TypeOK
<1>1. Layers => TypeOK
  BY DEF Layers, Shape
<1> QED
  BY AlwaysLayers, <1>1, PTL

(* Every copy was charged before it was sent, across any number of kills   *)
(* and whatever the callbacks do, so no row is sent more than max_attempts *)
(* times (egress.py:246, 285-292).                                         *)
THEOREM CopiesCharged == Spec => []CopiesAreCharged
<1>1. Layers => CopiesAreCharged
  BY LimitsAssumption DEF Layers, Shape, TypeOK, Charged, Sent, CopiesAreCharged
<1> QED
  BY AlwaysLayers, <1>1, PTL

(* Retention never leaves a queued reflection without its message          *)
(* (store.py:1426-1440).                                                   *)
THEOREM MessagesKept == Spec => []QueuedRowHasMessage
<1>1. Layers => QueuedRowHasMessage
  BY DEF Layers, Shape, QueuedRowHasMessage
<1> QED
  BY AlwaysLayers, <1>1, PTL

(* The scheduler implements Delivery.tla. *)
THEOREM KeepsPromise == Spec => Promise
<1>1. Init => Abstract!Init
  BY DEF Init, Abstract!Init
<1>2. Layers /\ [Next]_vars => [Abstract!Next]_(Abstract!vars)
  BY RefinesStep DEF Layers
<1> QED
  BY AlwaysLayers, <1>1, <1>2, PTL DEF Spec, Promise, Abstract!Spec

(* The in-flight map keeps the router from holding two copies of a queued  *)
(* row (egress.py:199-227), given that a callback's release comes before   *)
(* the scheduler's next look at the row.                                   *)
THEOREM OneCopy ==
    ASSUME PromptRelease
    PROVE  Spec => []OneCopyAtATime
<1>1. PromptLayers => OneCopyAtATime
  BY DEF PromptLayers
<1> QED
  BY AlwaysPromptLayers, <1>1, PTL

(* Under the same condition a row is given up on only with its attempts    *)
(* spent and no copy out, counts as delivered only if a copy got through,  *)
(* and is pruned only with its message.                                    *)
THEOREM RowsLeave ==
    ASSUME PromptRelease
    PROVE  Spec => []RowsLeaveForAReason
<1>1. PromptLayers => RowsLeaveForAReason
  BY DEF PromptLayers, Layers, Shape, Leaving, RowsLeaveForAReason, Expired, EgressRows
<1> QED
  BY AlwaysPromptLayers, <1>1, PTL
=============================================================================
