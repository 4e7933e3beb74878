----------------------------- MODULE MCPermissions ----------------------------
(***************************************************************************)
(* A small instance of Permissions: the account holds position p with the  *)
(* bit confirm and role l with the bit reply, which override v denies.     *)
(***************************************************************************)
EXTENDS Permissions, TLC

CONSTANTS r1, r2, r3, p, q, l, v, confirm, reply

Requests == {r1, r2, r3}
Symmetry == Permutations(Requests)

Masks == (p :> {confirm}) @@ (q :> {}) @@ (l :> {reply})

Row(allow, deny, starts, expires) ==
    [allow |-> allow, deny |-> deny, starts |-> starts, expires |-> expires]

Overrides == (v :> Row({}, {reply}, Open, Open))

Asks(op, x, m, o, given) ==
    [op |-> op, source |-> x, mask |-> m, override |-> o, given |-> given]
Nothing == Row(Keep, Keep, Keep, Keep)
AsksOf(op, x, m) == Asks(op, x, m, v, Nothing)
AsksFor(op, o, given) == Asks(op, p, {}, o, given)

\* Evaluations, every change of what they read, and the two ends of a window.
Offers ==
    {AsksOf("check", p, {}), AsksOf("show", p, {}),
     AsksOf("set", p, {reply}), AsksOf("drop", p, {}), AsksOf("drop", l, {}),
     AsksOf("move", q, {}), AsksOf("assign", l, {}), AsksOf("unassign", l, {}),
     AsksFor("grant", v, Row({confirm, reply}, {}, 0, 1)),
     AsksFor("amend", v, Row(Keep, {confirm}, 1, Keep)),
     AsksFor("amend", v, Row(Keep, Keep, Keep, 1)),
     AsksFor("revoke", v, Nothing)}
=============================================================================
