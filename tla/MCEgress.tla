------------------------------ MODULE MCEgress ------------------------------
(***************************************************************************)
(* Small instances of Egress.tla: which rows there are, in which table,    *)
(* and which reflections carry the same message.                           *)
(***************************************************************************)
EXTENDS Egress

CONSTANTS e1, e2, u1, n1, c1, m1

MCKind ==
    [r \in Rows |->
        CASE r \in {e1, e2} -> "egress"
          [] r = u1 -> "user"
          [] r = n1 -> "notice"
          [] r = c1 -> "control"]

(* The notice is a directory answer. *)
MCGroupRows == Rows \cap {e1, e2, u1}

MCMsgOf == [r \in Rows \cap {e1, e2} |-> m1]
=============================================================================
