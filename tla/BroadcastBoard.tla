---------------------------- MODULE BroadcastBoard ----------------------------
(***************************************************************************)
(* What the notice board promises, without saying how: three tables that   *)
(* only grow, one row at a time.  A broadcast is published once with all   *)
(* its targets and the deadline of its calendar day; a target is confirmed *)
(* at most once, and the first confirmation stands; a reply joins the      *)
(* thread of one target, under a parent of the same thread.                *)
(***************************************************************************)
EXTENDS BroadcastTables

CONSTANT Time  \* the instants a row may be stamped with

Init ==
    /\ broadcasts = <<>>
    /\ confirmations = {}
    /\ replies = <<>>

Publish(author, targets, t) ==
    /\ broadcasts' = Append(broadcasts,
            [author |-> author, targets |-> targets, createdAt |-> t,
             deadline |-> ConfirmationDeadline(t)])
    /\ UNCHANGED <<confirmations, replies>>

Confirm(b, g, by, t) ==
    /\ g \in broadcasts[b].targets
    /\ t >= broadcasts[b].createdAt
    /\ \A c \in confirmations : ~(c.broadcast = b /\ c.group = g)
    /\ confirmations' = confirmations
            \union {[broadcast |-> b, group |-> g, by |-> by, at |-> t]}
    /\ UNCHANGED <<broadcasts, replies>>

Reply(b, g, author, ref, t) ==
    /\ g \in broadcasts[b].targets
    /\ t >= broadcasts[b].createdAt
    /\ ref # NoParent => /\ replies[ref].broadcast = b
                         /\ replies[ref].group = g
                         /\ replies[ref].createdAt <= t
    /\ replies' = Append(replies,
            [broadcast |-> b, group |-> g, author |-> author, ref |-> ref,
             createdAt |-> t])
    /\ UNCHANGED <<broadcasts, confirmations>>

Next ==
    \E a \in Account, t \in Time :
        \/ \E targets \in (SUBSET Group) \ {{}} : Publish(a, targets, t)
        \/ \E b \in DOMAIN broadcasts, g \in Group :
              \/ Confirm(b, g, a, t)
              \/ \E ref \in DOMAIN replies \union {NoParent} : Reply(b, g, a, ref, t)

Spec == Init /\ [][Next]_tables
=============================================================================
