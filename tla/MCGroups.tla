------------------------------- MODULE MCGroups -------------------------------
(***************************************************************************)
(* A small instance of Groups: class a has the subgroup b, k stands alone, *)
(* d is the target of a broadcast, and account x is in class k.            *)
(***************************************************************************)
EXTENDS Groups, TLC

CONSTANTS r1, r2, r3, a, b, k, d, x

Parents == (a :> NoGroup) @@ (b :> a) @@ (k :> NoGroup) @@ (d :> NoGroup)
Homes == (x :> k)

Asks(op, g, to) == [op |-> op, group |-> g, to |-> to, account |-> x]

\* Two pairs that can close a cycle, a subgroup made, used and deleted, and a
\* delete of every kind of group that is referred to.
Offers ==
    {Asks("create", a, b), Asks("reparent", a, b),
     Asks("reparent", a, k), Asks("reparent", k, b), Asks("reparent", a, r1),
     Asks("reparent", b, NoGroup), Asks("delete", b, NoGroup),
     Asks("delete", k, NoGroup), Asks("delete", d, NoGroup),
     Asks("delete", r1, NoGroup), Asks("place", a, b)}
=============================================================================
