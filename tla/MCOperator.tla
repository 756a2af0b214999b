----------------------------- MODULE MCOperator -----------------------------
(***************************************************************************)
(* Instances of Operator for TLC, about one group: operator o sends a      *)
(* command of most kinds, a stranger s signs a remove-member, and someone  *)
(* forges a question of the operator's.  At the shell they are what they   *)
(* say.                                                                    *)
(***************************************************************************)
EXTENDS Operator

CONSTANTS o, s, g, create, delete, setacl, add, stray, forged

MCAuthor == [m \in Messages |-> IF m = stray THEN s ELSE o]

MCText ==
    [m \in Messages |->
        [id |-> g, who |-> s,
         verb |-> CASE m = create -> "create"
                    [] m = delete -> "delete"
                    [] m = setacl -> "set-acl"
                    [] m = add -> "add"
                    [] m = stray -> "remove"
                    [] m = forged -> "ask"]]
=============================================================================
