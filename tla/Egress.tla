------------------------------- MODULE Egress -------------------------------
(***************************************************************************)
(* The egress scheduler (egress.py) over the four queue tables of store.py *)
(* (egress_queue, notice_queue, user_queue, control_queue), with the LXMF  *)
(* router, its callback threads, retention and restarts around it.         *)
(*                                                                         *)
(* Threads.  The egress thread runs tick: it snapshots the due operator    *)
(* answers, sends them, then snapshots the other three queues and works    *)
(* through them while it has tokens.  The router delivers in its own       *)
(* threads and runs the callbacks there: each callback first releases the  *)
(* in-memory in-flight entry and then, if the copy got through, deletes    *)
(* the row.  Messages arrive, and are pruned, in other threads again.      *)
(*                                                                         *)
(* Time is abstract.  A row is due once its next_attempt_at has passed and *)
(* the due rows are ordered by when they became so, which is the order the *)
(* SELECT sorts by; how long a backoff, a grace or the delivery timeout    *)
(* takes against another is left open, so the grace counter, which only    *)
(* sizes a wait, is not kept.  A restart loses what is in memory and keeps *)
(* the tables.                                                             *)
(***************************************************************************)
EXTENDS Naturals, FiniteSets

CONSTANTS
    Rows,             \* the rows the four tables ever hold (ids are never reused)
    Kind,             \* the table of each row
    GroupRows,        \* the rows sent from the group's destination: reflections,
                      \* answers to members and notices other than directory answers
    Messages,         \* the stored messages egress rows point to
    MsgOf,            \* the message of each egress row
    MaxAttempts,      \* config.egress.max_attempts
    Burst,            \* config.egress.burst
    BatchSize,        \* config.egress.batch_size
    PromptRelease,    \* whether the scheduler never looks at a row between the
                      \* router dropping a copy of it and the callback's release
    MaxRestarts       \* bound: how often the hub is killed and started again

Kinds == {"egress", "notice", "user", "control"}
EgressRows == {r \in Rows : Kind[r] = "egress"}

ASSUME RowsAssumption ==
    /\ Kind \in [Rows -> Kinds]
    /\ GroupRows \subseteq Rows
    /\ MsgOf \in [EgressRows -> Messages]
ASSUME LimitsAssumption ==
    /\ MaxAttempts \in Nat \ {0}
    /\ Burst \in Nat \ {0}
    /\ BatchSize \in Nat \ {0}
    /\ MaxRestarts \in Nat
    /\ PromptRelease \in BOOLEAN

VARIABLES
    \* On disk.
    seen,        \* messages that were ever stored
    stored,      \* the messages table
    grouped,     \* the group is in the groups table
    status,      \* "queued": the row is in its table; otherwise why it is not
    attempts,    \* its attempts column
    due,         \* the rows whose next_attempt_at has passed
    older,       \* <<q, r>>: both are due, q since before r
    \* In the memory of the hub.
    attached,    \* the group's destination is registered
    known,       \* rows whose recipient's identity can be recalled
    tokens,      \* the token bucket
    phase,       \* which snapshots the egress thread works on
    batch,       \* the rows of the snapshot still to be sent
    armed,       \* the row re-armed and about to be handed to the router
    inflight,    \* _inflight: the copy each row is waiting for, 0 for no entry
    late,        \* the rows whose in-flight deadline has passed
    \* The router and its callback threads.
    held,        \* pending_outbound: <<row, copy>>
    reached,     \* copies that reached the recipient or its propagation node
    calls,       \* callbacks that have started and not ended
    copies,      \* how many copies of each row the router was handed
    restarts

disk == <<seen, stored, grouped>>
table == <<status, attempts, due, older>>
thread == <<tokens, phase, batch, armed>>
flights == <<inflight, late>>
router == <<held, reached, calls, copies>>
env == <<attached, known, restarts>>
vars == <<disk, table, thread, flights, router, env>>

Outcomes == {"unknown", "queued", "delivered", "gaveup", "pruned"}
Copy == Rows \X Nat
Call == [row : Rows, copy : Nat, delivered : BOOLEAN, step : {"release", "complete"}]

TypeOK ==
    /\ seen \subseteq Messages
    /\ stored \subseteq seen
    /\ grouped \in BOOLEAN
    /\ status \in [Rows -> Outcomes]
    /\ attempts \in [Rows -> 0..MaxAttempts]
    /\ due \subseteq Rows
    /\ older \subseteq due \X due
    /\ attached \in BOOLEAN
    /\ known \subseteq Rows
    /\ tokens \in 0..Burst
    /\ phase \in {"idle", "replies", "clients"}
    /\ batch \subseteq Rows
    /\ armed \subseteq Rows
    /\ inflight \in [Rows -> Nat]
    /\ late \subseteq Rows
    /\ held \subseteq Copy
    /\ reached \subseteq Copy
    /\ calls \subseteq Call
    /\ copies \in [Rows -> Nat]
    /\ restarts \in 0..MaxRestarts

Init ==
    /\ seen = {} /\ stored = {} /\ grouped = TRUE
    /\ status = [r \in Rows |-> "unknown"]
    /\ attempts = [r \in Rows |-> 0]
    /\ due = {} /\ older = {}
    /\ attached = TRUE /\ known = {}
    /\ tokens = Burst
    /\ phase = "idle" /\ batch = {} /\ armed = {}
    /\ inflight = [r \in Rows |-> 0] /\ late = {}
    /\ held = {} /\ reached = {} /\ calls = {}
    /\ copies = [r \in Rows |-> 0]
    /\ restarts = 0

-----------------------------------------------------------------------------
(* The tables: store.py. *)

RowsOf(m) == {r \in EgressRows : MsgOf[r] = m}

Become(S, outcome) ==
    status' = [r \in Rows |-> IF r \in S THEN outcome ELSE status[r]]

(* Rows of one commit share their next_attempt_at; rows due before are older. *)
BecomeDue(S) ==
    /\ due' = due \cup S
    /\ older' = older \cup (due \X S)

NoLongerDue(S) ==
    /\ due' = due \ S
    /\ older' = {p \in older : p[1] \notin S /\ p[2] \notin S}

(* complete_*: the row is deleted, if it is still there. *)
Complete(r, outcome) ==
    /\ Become({r} \cap {q \in Rows : status[q] = "queued"}, outcome)
    /\ NoLongerDue({r})
    /\ UNCHANGED attempts

(* Faulty: the attempt is not written down. *)
MutDeferUncharged(r, counted) ==
    /\ NoLongerDue({r})
    /\ UNCHANGED <<status, attempts>>

(* defer_*: the row waits again, and is charged an attempt if this was one. *)
(* The UPDATE finds nothing when the row is gone.                           *)
Defer(r, counted) ==
    /\ attempts' = IF counted /\ status[r] = "queued"
                   THEN [attempts EXCEPT ![r] = @ + 1]
                   ELSE attempts
    /\ NoLongerDue({r})
    /\ UNCHANGED status

(* store_and_enqueue: a message that was not stored is stored with a row   *)
(* for each recipient, due at once, in one transaction.                    *)
StoreAndEnqueue(m) ==
    /\ m \notin seen
    /\ seen' = seen \cup {m}
    /\ stored' = stored \cup {m}
    /\ Become(RowsOf(m), "queued")
    /\ BecomeDue(RowsOf(m))
    /\ UNCHANGED <<grouped, attempts, thread, flights, router, env>>

(* enqueue_notice, enqueue_user, enqueue_control. *)
EnqueueText(r) ==
    /\ r \notin EgressRows
    /\ status[r] = "unknown"
    /\ Become({r}, "queued")
    /\ BecomeDue({r})
    /\ UNCHANGED <<attempts, disk, thread, flights, router, env>>

(* next_attempt_at of a waiting row passes. *)
WaitEnds(r) ==
    /\ status[r] = "queued"
    /\ r \notin due
    /\ BecomeDue({r})
    /\ UNCHANGED <<status, attempts, disk, thread, flights, router, env>>

(* Faulty: the rows of a pruned message stay behind. *)
MutPruneMessageOnly(m) ==
    /\ m \in stored
    /\ stored' = stored \ {m}
    /\ UNCHANGED <<seen, grouped, table, thread, flights, router, env>>

(* prune_messages: a message past retention goes, and its rows with it. *)
Prune(m) ==
    /\ m \in stored
    /\ stored' = stored \ {m}
    /\ Become({r \in RowsOf(m) : status[r] = "queued"}, "pruned")
    /\ NoLongerDue(RowsOf(m))
    /\ UNCHANGED <<seen, grouped, attempts, thread, flights, router, env>>

(* delete_group, from the command line: the group's record goes, its queue *)
(* rows and its registered destination stay.                               *)
DeleteGroup ==
    /\ grouped
    /\ grouped' = FALSE
    /\ UNCHANGED <<seen, stored, table, thread, flights, router, env>>

-----------------------------------------------------------------------------
(* The egress thread: tick and send_*. *)

(* The LIMIT of the due_* queries: the rows of one table that became due first. *)
Due(k) == {r \in due : Kind[r] = k}

OldestDue(k, S) ==
    /\ S \subseteq Due(k)
    /\ \/ S = Due(k) /\ Cardinality(S) <= BatchSize
       \/ Cardinality(S) = BatchSize
    /\ \A q \in Due(k), r \in S : <<q, r>> \in older => q \in S

(* A tick first takes the operator answers that are due.  A tick that      *)
(* finds nothing due changes nothing.                                      *)
StartTick ==
    /\ phase = "idle"
    /\ due # {}
    /\ \E S \in SUBSET Due("control") : OldestDue("control", S) /\ batch' = S
    /\ phase' = "replies"
    /\ UNCHANGED <<tokens, armed, disk, table, flights, router, env>>

(* With those sent it takes what is due in the three paced queues. *)
TakeClients ==
    /\ phase = "replies" /\ batch = {} /\ armed = {}
    /\ \E U \in SUBSET Due("user"), N \in SUBSET Due("notice"), E \in SUBSET Due("egress") :
         /\ OldestDue("user", U) /\ OldestDue("notice", N) /\ OldestDue("egress", E)
         /\ batch' = U \cup N \cup E
    /\ phase' = "clients"
    /\ UNCHANGED <<tokens, armed, disk, table, flights, router, env>>

EndTick ==
    /\ phase = "clients" /\ batch = {} /\ armed = {}
    /\ phase' = "idle"
    /\ UNCHANGED <<tokens, batch, armed, disk, table, flights, router, env>>

(* No token: the tick returns and what is left of the snapshot is dropped. *)
OutOfTokens ==
    /\ phase = "clients" /\ batch # {} /\ armed = {}
    /\ tokens = 0
    /\ phase' = "idle"
    /\ batch' = {}
    /\ UNCHANGED <<tokens, armed, disk, table, flights, router, env>>

(* Answers to members go before notices, notices before reflections, and   *)
(* in each table the rows that have been due longest.                      *)
Ahead(q, r) ==
    \/ <<q, r>> \in older /\ Kind[q] = Kind[r]
    \/ Kind[q] = "user" /\ Kind[r] # "user"
    \/ Kind[q] = "notice" /\ Kind[r] = "egress"

(* It is r's turn, and if its table is paced a token can be consumed for it. *)
Turn(r) ==
    /\ phase # "idle" /\ armed = {}
    /\ r \in batch
    /\ \A q \in batch : ~ Ahead(q, r)
    /\ phase = "clients" => tokens > 0
    /\ PromptRelease => \A c \in calls : c.row = r => c.step # "release"

(* The row is dealt with.  The token consumed for it is refunded unless it *)
(* bought airtime; operator answers never cost one.                        *)
Done(r, airtime) ==
    /\ batch' = batch \ {r}
    /\ tokens' = IF airtime /\ phase = "clients" THEN tokens - 1 ELSE tokens
    /\ UNCHANGED phase

(* Faulty: a late entry counts for nothing, whatever the router holds. *)
MutInFlightUntilDeadline(r) == inflight[r] # 0 /\ r \notin late

(* Faulty: an entry without a callback is kept for ever. *)
MutInFlightForever(r) == inflight[r] # 0

(* _in_flight: the row has an entry whose deadline is still to come, or    *)
(* has passed with the router still holding the copy.                      *)
InFlight(r) ==
    /\ inflight[r] # 0
    /\ r \in late => <<r, inflight[r]>> \in held

(* An entry of neither sort is dropped by the check. *)
DropEntry(r) ==
    /\ inflight' = [inflight EXCEPT ![r] = 0]
    /\ late' = late \ {r}

Expired(r) == r \in EgressRows /\ MsgOf[r] \notin stored

(* The row is in flight: left alone, with a new deadline if it was late. *)
SkipInFlight(r) ==
    /\ Turn(r)
    /\ InFlight(r)
    /\ late' = late \ {r}
    /\ Done(r, FALSE)
    /\ UNCHANGED <<armed, inflight, disk, table, router, env>>

(* The message was pruned since the snapshot. *)
SkipExpired(r) ==
    /\ Turn(r)
    /\ ~ InFlight(r)
    /\ Expired(r)
    /\ Complete(r, "pruned")
    /\ DropEntry(r)
    /\ Done(r, FALSE)
    /\ UNCHANGED <<armed, disk, router, env>>

(* Faulty: the attempts are looked at before the in-flight entry. *)
MutGiveUpInFlight(r) ==
    /\ Turn(r)
    /\ ~ Expired(r)
    /\ attempts[r] >= MaxAttempts
    /\ Complete(r, "gaveup")
    /\ DropEntry(r)
    /\ Done(r, FALSE)
    /\ UNCHANGED <<armed, disk, router, env>>

(* Faulty: one attempt too early. *)
MutGiveUpEarly(r) ==
    /\ Turn(r)
    /\ ~ InFlight(r)
    /\ ~ Expired(r)
    /\ attempts[r] + 1 >= MaxAttempts
    /\ Complete(r, "gaveup")
    /\ DropEntry(r)
    /\ Done(r, FALSE)
    /\ UNCHANGED <<armed, disk, router, env>>

(* Every attempt is spent. *)
GiveUp(r) ==
    /\ Turn(r)
    /\ ~ InFlight(r)
    /\ ~ Expired(r)
    /\ attempts[r] >= MaxAttempts
    /\ Complete(r, "gaveup")
    /\ DropEntry(r)
    /\ Done(r, FALSE)
    /\ UNCHANGED <<armed, disk, router, env>>

(* Faulty: the budget is off by one. *)
MutSendableOnceMore(r) ==
    /\ Turn(r)
    /\ ~ InFlight(r)
    /\ ~ Expired(r)
    /\ attempts[r] <= MaxAttempts

(* None of the early returns above applies. *)
Sendable(r) ==
    /\ Turn(r)
    /\ ~ InFlight(r)
    /\ ~ Expired(r)
    /\ attempts[r] < MaxAttempts

(* The destination r is sent from is not registered: not an attempt, no    *)
(* airtime.                                                                *)
Detached(r) == r \in GroupRows /\ ~ attached

WaitForGroup(r) ==
    /\ Sendable(r)
    /\ Detached(r)
    /\ Defer(r, FALSE)
    /\ DropEntry(r)
    /\ Done(r, FALSE)
    /\ UNCHANGED <<armed, disk, router, env>>

(* The recipient's identity is unknown: a path request goes on air. *)
AskForPath(r) ==
    /\ Sendable(r)
    /\ ~ Detached(r)
    /\ r \notin known
    /\ Defer(r, FALSE)
    /\ DropEntry(r)
    /\ Done(r, TRUE)
    /\ UNCHANGED <<armed, disk, router, env>>

CannotBuild(r) ==
    /\ Sendable(r)
    /\ ~ Detached(r)
    /\ r \in known
    /\ Defer(r, TRUE)
    /\ DropEntry(r)
    /\ Done(r, FALSE)
    /\ UNCHANGED <<armed, disk, router, env>>

(* The row is charged and re-armed, then marked in flight, before anything *)
(* is handed over.                                                         *)
Arm(r) ==
    /\ Sendable(r)
    /\ ~ Detached(r)
    /\ r \in known
    /\ Defer(r, TRUE)
    /\ inflight' = [inflight EXCEPT ![r] = copies[r] + 1]
    /\ late' = late \ {r}
    /\ armed' = {r}
    /\ Done(r, TRUE)
    /\ UNCHANGED <<disk, router, env>>

(* router.handle_outbound takes the copy. *)
HandOff(r) ==
    /\ r \in armed
    /\ armed' = {}
    /\ copies' = [copies EXCEPT ![r] = @ + 1]
    /\ held' = held \cup {<<r, copies[r] + 1>>}
    /\ UNCHANGED <<tokens, phase, batch, reached, calls, disk, table, flights, env>>

(* It raises instead: the entry is released at once. *)
HandOffRaises(r) ==
    /\ r \in armed
    /\ armed' = {}
    /\ DropEntry(r)
    /\ UNCHANGED <<tokens, phase, batch, disk, table, router, env>>

(* Anything else raises.  For an operator answer the tick releases the row *)
(* and charges it; for the others the exception ends the tick.             *)
SendRaises(r) ==
    /\ Sendable(r)
    /\ DropEntry(r)
    /\ IF Kind[r] = "control"
       THEN Defer(r, TRUE) /\ Done(r, FALSE)
       ELSE /\ phase' = "idle" /\ batch' = {} /\ tokens' = tokens - 1
            /\ UNCHANGED table
    /\ UNCHANGED <<armed, disk, router, env>>

Refill ==
    /\ tokens < Burst
    /\ tokens' = tokens + 1
    /\ UNCHANGED <<phase, batch, armed, disk, table, flights, router, env>>

DeadlinePasses(r) ==
    /\ inflight[r] # 0
    /\ r \notin late
    /\ late' = late \cup {r}
    /\ UNCHANGED <<inflight, disk, table, thread, router, env>>

-----------------------------------------------------------------------------
(* The router, and the callbacks egress.py registers with it. *)

CopyReaches(c) ==
    /\ c \in held \ reached
    /\ reached' = reached \cup {c}
    /\ UNCHANGED <<held, calls, copies, disk, table, thread, flights, env>>

(* The router lets a copy go and calls back: delivered once it has a proof *)
(* that the copy got through, failed once it stops trying.                 *)
Conclude(c, delivered) ==
    /\ c \in held
    /\ delivered => c \in reached
    /\ held' = held \ {c}
    /\ calls' = calls \cup
         {[row |-> c[1], copy |-> c[2], delivered |-> delivered, step |-> "release"]}
    /\ UNCHANGED <<reached, copies, disk, table, thread, flights, env>>

(* Or it lets the copy go and never calls back. *)
Forget(c) ==
    /\ c \in held
    /\ held' = held \ {c}
    /\ UNCHANGED <<reached, calls, copies, disk, table, thread, flights, env>>

(* A callback releases the row, by its id. *)
Release(c) ==
    /\ c \in calls
    /\ c.step = "release"
    /\ DropEntry(c.row)
    /\ calls' = (calls \ {c}) \cup
         (IF c.delivered THEN {[c EXCEPT !.step = "complete"]} ELSE {})
    /\ UNCHANGED <<held, reached, copies, disk, table, thread, env>>

(* The delivery callback then deletes the row. *)
CompleteDelivered(c) ==
    /\ c \in calls
    /\ c.step = "complete"
    /\ Complete(c.row, "delivered")
    /\ calls' = calls \ {c}
    /\ UNCHANGED <<held, reached, copies, disk, thread, flights, env>>

-----------------------------------------------------------------------------
(* The rest of the world. *)

(* An announce from a recipient reaches the hub. *)
Announced(r) ==
    /\ r \notin known
    /\ known' = known \cup {r}
    /\ UNCHANGED <<attached, restarts, disk, table, thread, flights, router>>

(* The hub is killed and started again: the tables are as they were,       *)
(* everything in memory is new, the router starts with nothing pending.    *)
Restart ==
    /\ restarts < MaxRestarts
    /\ restarts' = restarts + 1
    /\ attached' = grouped
    /\ tokens' = Burst
    /\ phase' = "idle" /\ batch' = {} /\ armed' = {}
    /\ inflight' = [r \in Rows |-> 0] /\ late' = {}
    /\ held' = {} /\ calls' = {}
    /\ UNCHANGED <<known, reached, copies, disk, table>>

Send(r) ==
    \/ SkipInFlight(r) \/ SkipExpired(r) \/ GiveUp(r)
    \/ WaitForGroup(r) \/ AskForPath(r) \/ CannotBuild(r) \/ Arm(r)

Next ==
    \/ \E m \in Messages : StoreAndEnqueue(m) \/ Prune(m)
    \/ \E r \in Rows : EnqueueText(r) \/ WaitEnds(r) \/ DeadlinePasses(r) \/ Announced(r)
    \/ \E r \in Rows : Send(r) \/ SendRaises(r) \/ HandOff(r) \/ HandOffRaises(r)
    \/ StartTick \/ TakeClients \/ EndTick \/ OutOfTokens \/ Refill
    \/ \E c \in held : CopyReaches(c) \/ Forget(c)
    \/ \E c \in held, delivered \in BOOLEAN : Conclude(c, delivered)
    \/ \E c \in calls : Release(c) \/ CompleteDelivered(c)
    \/ DeleteGroup \/ Restart

Spec == Init /\ [][Next]_vars

(* The egress thread keeps running and is not interrupted by exceptions    *)
(* for ever (strong fairness of Send against SendRaises), time passes, and *)
(* the router is done with every copy some day and runs its callbacks.     *)
(* Members, operators, retention and kills owe nothing.                    *)
Fairness ==
    /\ WF_vars(StartTick) /\ WF_vars(TakeClients) /\ WF_vars(EndTick)
    /\ WF_vars(OutOfTokens) /\ WF_vars(Refill)
    /\ \A r \in Rows :
         /\ SF_vars(Send(r))
         /\ WF_vars(HandOff(r) \/ HandOffRaises(r))
         /\ WF_vars(WaitEnds(r)) /\ WF_vars(DeadlinePasses(r))
         /\ \A n \in 1..MaxAttempts :
              WF_vars(\E delivered \in BOOLEAN : Conclude(<<r, n>>, delivered) \/ Forget(<<r, n>>))
    /\ WF_vars(\E c \in calls : Release(c)) /\ WF_vars(\E c \in calls : CompleteDelivered(c))

FairSpec == Spec /\ Fairness

-----------------------------------------------------------------------------
(* Properties. *)

(* Every copy of a row that reaches the router was charged to the row on   *)
(* disk first, so kills, late callbacks and retries together never make    *)
(* the hub send a row more than max_attempts times (egress.py:246,285).    *)
CopiesAreCharged ==
    \A r \in Rows :
        /\ copies[r] <= MaxAttempts
        /\ status[r] = "queued" => copies[r] <= attempts[r]

(* The in-flight map does its job: the router never holds two copies of a  *)
(* row that is still queued, and the one it holds is the one the row is    *)
(* waiting for (egress.py:105-110).  It rests on PromptRelease.            *)
OneCopyAtATime ==
    \A c \in held : status[c[1]] = "queued" => inflight[c[1]] = c[2]

(* A row is given up on only when its attempts are spent and no copy of it *)
(* is still on its way; it counts as delivered only if a copy got through; *)
(* it is pruned only with its message.                                     *)
RowsLeaveForAReason ==
    \A r \in Rows :
        /\ status[r] = "gaveup" =>
              attempts[r] = MaxAttempts /\ \A c \in held : c[1] # r
        /\ status[r] = "delivered" => \E c \in reached : c[1] = r
        /\ status[r] = "pruned" => Expired(r)

(* A queued reflection always has its message: retention takes both in one *)
(* transaction (store.py:1429-1432), even while its copy is in flight.     *)
QueuedRowHasMessage ==
    \A r \in EgressRows : status[r] = "queued" => MsgOf[r] \in stored

(* The scheduler keeps the promise of Delivery.tla. *)
Abstract == INSTANCE Delivery WITH Perishable <- EgressRows
Promise == Abstract!Spec

(* A queued row whose recipient is known leaves the queue some day, unless *)
(* its group is deleted: neither rows ahead of it in a full batch nor lost *)
(* callbacks, spent tokens or unreachable recipients of other rows keep it *)
(* there (egress.py:62-68, 205-216).                                       *)
ReachableRowsSettle ==
    \A r \in Rows :
        status[r] = "queued" /\ r \in known /\ grouped
            ~> status[r] # "queued" \/ ~ grouped

(* What egress.py:105-110 says the in-flight map is for: a message that    *)
(* was delivered and taken off the queue is not sent a second time.        *)
NoCopyAfterDelivery ==
    [][\A r \in Rows : status[r] = "delivered" => copies'[r] = copies[r]]_vars
=============================================================================
