----------------------------- MODULE MCGroupHub -----------------------------
(***************************************************************************)
(* Instances of GroupHub for TLC: user c posts, or links its device to a   *)
(* persona of b; b moderates c, one message per verb, or asks something.   *)
(***************************************************************************)
EXTENDS GroupHub

CONSTANTS b, c, post, add, remove, ban, unban, ask, link

MCAuthor == [m \in Messages |-> IF m \in {post, link} THEN c ELSE b]

MCText ==
    [m \in Messages |->
        CASE m = post -> [verb |-> "post", who |-> c]
          [] m = add -> [verb |-> "add", who |-> c]
          [] m = remove -> [verb |-> "remove", who |-> c]
          [] m = ban -> [verb |-> "ban", who |-> c]
          [] m = unban -> [verb |-> "unban", who |-> c]
          [] m = ask -> [verb |-> "ask", who |-> c]
          [] m = link -> [verb |-> "link", who |-> b]]
=============================================================================
