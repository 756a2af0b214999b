------------------------------ MODULE Delivery ------------------------------
(***************************************************************************)
(* What the outgoing queues of a hub promise, whatever happens between the *)
(* scheduler, the LXMF router and a kill -9.                               *)
(*                                                                         *)
(* A row is one text for one recipient: a reflection (egress_queue), a     *)
(* notice, an answer to a member, an answer to an operator.  The promise   *)
(* has three parts.                                                        *)
(*                                                                         *)
(*  - A row that was queued stays queued until a copy of it got through,   *)
(*    its attempts are spent, or its message aged out of retention.        *)
(*  - While it is queued, every copy given to the network was paid for by  *)
(*    an attempt that was charged first.                                   *)
(*  - No row ever puts more than MaxAttempts copies on the network.        *)
(*                                                                         *)
(* Egress.tla is the scheduler itself and implements this module.          *)
(***************************************************************************)
EXTENDS Naturals

CONSTANTS
    Rows,          \* every row any of the four queues ever holds
    Perishable,    \* the rows that carry a stored message
    MaxAttempts    \* config.egress.max_attempts

VARIABLES
    status,        \* what became of each row
    attempts,      \* attempts charged to each row
    copies         \* copies of each row given to the network

vars == <<status, attempts, copies>>

Init ==
    /\ status = [r \in Rows |-> "unknown"]
    /\ attempts = [r \in Rows |-> 0]
    /\ copies = [r \in Rows |-> 0]

Become(S, outcome) ==
    status' = [r \in Rows |-> IF r \in S THEN outcome ELSE status[r]]

(* Rows enter their queue, all those of one message at once. *)
Enqueue(S) ==
    /\ \A r \in S : status[r] = "unknown"
    /\ Become(S, "queued")
    /\ UNCHANGED <<attempts, copies>>

(* An attempt is charged to a queued row, whether or not a copy follows. *)
Charge(r) ==
    /\ status[r] = "queued"
    /\ attempts[r] < MaxAttempts
    /\ attempts' = [attempts EXCEPT ![r] = @ + 1]
    /\ UNCHANGED <<status, copies>>

(* A copy goes to the network.  A row that left its queue a moment ago may *)
(* still be sent once more, but never beyond the budget.                   *)
Transmit(r) ==
    /\ status[r] # "unknown"
    /\ copies[r] < MaxAttempts
    /\ status[r] = "queued" => copies[r] < attempts[r]
    /\ copies' = [copies EXCEPT ![r] = @ + 1]
    /\ UNCHANGED <<status, attempts>>

Confirm(r) ==
    /\ status[r] = "queued"
    /\ copies[r] > 0
    /\ Become({r}, "delivered")
    /\ UNCHANGED <<attempts, copies>>

GiveUp(r) ==
    /\ status[r] = "queued"
    /\ attempts[r] = MaxAttempts
    /\ Become({r}, "gaveup")
    /\ UNCHANGED <<attempts, copies>>

(* Retention removes messages, and with them the rows that carry them. *)
Expire(S) ==
    /\ S \subseteq Perishable
    /\ \A r \in S : status[r] = "queued"
    /\ Become(S, "pruned")
    /\ UNCHANGED <<attempts, copies>>

Next ==
    \/ \E S \in SUBSET Rows : Enqueue(S) \/ Expire(S)
    \/ \E r \in Rows : Charge(r) \/ Transmit(r) \/ Confirm(r) \/ GiveUp(r)

Spec == Init /\ [][Next]_vars
=============================================================================
