----------------------------- MODULE MCDeployment -----------------------------
(***************************************************************************)
(* Small instances of Deployment: three processes, two positions, class    *)
(* groups g1 and g2, broadcasts to either (b1, b3), to both and to none.   *)
(***************************************************************************)
EXTENDS Deployment, TLC

CONSTANTS g1, g2, b0, b1, b2, b3, i1, i2

Targets == (b0 :> {}) @@ (b1 :> {g1}) @@ (b2 :> {g1, g2}) @@ (b3 :> {g2})
Names == <<i1, i2>>

Legacy(id, b, ref) ==
    [id |-> id, broadcast |-> b, group |-> NoGroup, ref |-> ref, given |-> NoGroup]

Scoped(id, b, g) ==
    [id |-> id, broadcast |-> b, group |-> g, ref |-> Nobody, given |-> g]

Setup(item) == [item |-> item, by |-> Nobody, type |-> "none"]

Holds(n, rs, es, cs) ==
    [revision |-> n, rows |-> rs, broadcasts |-> IF n < 5 THEN {} ELSE DOMAIN TargetsOf,
     replies |-> es, confirmations |-> cs]

\* Nothing; accounts without types; a thread of a broadcast to one target, a reply
\* under a parent elsewhere, a confirmation of no target; a current database.
Start ==
    {Holds(0, {}, {}, {}), Holds(3, {Setup(i1), Setup(Teacher)}, {}, {}),
     Holds(5, {}, {Legacy(1, b1, Nobody), Legacy(2, b1, 1)}, {}),
     Holds(5, {}, {Legacy(1, b1, Nobody), Legacy(2, b3, 1)}, {}),
     Holds(5, {}, {}, {<<b1, g2>>}),
     Holds(7, {}, {Scoped(1, b1, g1), Scoped(2, b2, g2)}, {<<b2, g1>>})}

Seed(dev) == [op |-> "seed", dev |-> dev]
Writes(op, b, g, ref) == [op |-> op, broadcast |-> b, group |-> g, ref |-> ref]

Jobs ==
    {Seed(FALSE), Seed(TRUE), [op |-> "upgrade"], [op |-> "downgrade", to |-> 5],
     [op |-> "downgrade", to |-> 3], Writes("legacy", b2, NoGroup, Nobody),
     Writes("reply", b2, g2, 2)}
=============================================================================
