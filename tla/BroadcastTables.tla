---------------------------- MODULE BroadcastTables ---------------------------
(***************************************************************************)
(* The tables of the notice board (src/database/model.py) and the          *)
(* constraints the database arbitrates with.  Rows are never updated or    *)
(* deleted by any operation of the program: a broadcast is stored together *)
(* with its targets, and broadcasts and replies are identified here by     *)
(* their position in commit order (the program uses random UUIDs).         *)
(***************************************************************************)
EXTENDS BroadcastCycle, Sequences

CONSTANTS
    Account,
    Group

VARIABLES
    broadcasts,     \* committed broadcasts with their broadcast_targets
    confirmations,  \* committed broadcast_confirmations
    replies         \* committed replies

tables == <<broadcasts, confirmations, replies>>

NoParent == 0  \* ref_id NULL

BroadcastRow ==
    [author : Account, targets : (SUBSET Group) \ {{}}, createdAt : Nat, deadline : Int]

ConfirmationRow == [broadcast : Nat, group : Group, by : Account, at : Nat]

ReplyRow ==
    [broadcast : Nat, group : Group, author : Account, ref : Nat, createdAt : Nat]

TablesTypeOK ==
    /\ broadcasts \in Seq(BroadcastRow)
    /\ confirmations \subseteq ConfirmationRow
    /\ replies \in Seq(ReplyRow)

\* Slip: any group may answer a broadcast that exists.
TargetedSlip(b, g) == b \in DOMAIN broadcasts

\* A row of broadcast_targets: what _target looks up, and what the composite
\* foreign keys of confirmations and replies refer to.
Targeted(b, g) == b \in DOMAIN broadcasts /\ g \in broadcasts[b].targets

\* The primary key of broadcast_confirmations.
Confirmed(b, g) == \E c \in confirmations : c.broadcast = b /\ c.group = g

\* Slip: the parent only has to hang on the same broadcast.
SameThreadSlip(ref, b, g) == ref \in DOMAIN replies /\ replies[ref].broadcast = b

\* The composite foreign key fk_replies_parent_scope, and the service's own
\* check before it: the parent is a reply of the same target's thread.
SameThread(ref, b, g) ==
    /\ ref \in DOMAIN replies
    /\ replies[ref].broadcast = b
    /\ replies[ref].group = g
=============================================================================
