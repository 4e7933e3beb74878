----------------------------- MODULE MCBroadcasts -----------------------------
(***************************************************************************)
(* Small instances of Broadcasts: one teacher t, students s1 and s2, class *)
(* groups g1 and g2 and an office.  Every run has its own offers and       *)
(* administrative changes; the calendar is a day of six ticks, in which    *)
(* the run of requests begins one tick before the cutoff and the deadline  *)
(* time, so that its clock passes both; the others look at no deadline.    *)
(***************************************************************************)
EXTENDS Broadcasts, TLC

CONSTANTS r1, r2, r3, t, s1, s2, g1, g2, office

Requests == {r1, r2, r3}
Symmetry == Permutations(Requests)

Teacher(active) ==
    [active |-> active, type |-> "teacher", group |-> office, may |-> {}]

Student(g, may) ==
    [active |-> TRUE, type |-> "student", group |-> g, may |-> may]

Both == {"confirm", "reply"}

GroupTypes == (g1 :> "class") @@ (g2 :> "class") @@ (office :> "other")

Asks(op, a, g) == [op |-> op, account |-> a, group |-> g, targets |-> {}]
Publishes(a, targets) ==
    [op |-> "publish", account |-> a, group |-> NoGroup, targets |-> targets]

-----------------------------------------------------------------------------
\* Two students of one group confirm one broadcast; the author and one of them
\* reply, under every parent; both read.
Accounts ==
    (t :> Teacher(TRUE)) @@ (s1 :> Student(g1, Both)) @@ (s2 :> Student(g1, {"confirm"}))

Offers ==
    {Publishes(t, {g1, g2}), Asks("confirm", s1, NoGroup), Asks("confirm", s2, g1),
     Asks("reply", t, g1), Asks("reply", t, g2), Asks("reply", s1, NoGroup),
     Asks("thread", s1, NoGroup), Asks("thread", t, NoGroup),
     Asks("read", s1, NoGroup)}

\* A student loses the permissions, is moved to a group that is no target or
\* becomes a teacher; the publisher is deactivated.
Updates ==
    {<<s1, Student(g1, {})>>, <<s1, Student(office, Both)>>, <<t, Teacher(FALSE)>>,
     <<s2, Teacher(TRUE)>>}

\* Every kind of request, and nobody administers.
QuietOffers ==
    {Publishes(t, {g1, g2}), Asks("confirm", s1, NoGroup), Asks("confirm", s2, g1),
     Asks("reply", t, g1), Asks("reply", s1, NoGroup), Asks("thread", s1, NoGroup),
     Asks("read", t, NoGroup)}

NoUpdates == {}

\* One student confirms and is moved.
MovedOffers == {Publishes(t, {g1, g2}), Asks("confirm", s1, NoGroup)}
MovedUpdates == {<<s1, Student(g2, Both)>>}
=============================================================================
