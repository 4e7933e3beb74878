-------------------------------- MODULE MCFeed --------------------------------
(***************************************************************************)
(* A small instance of Feed: a teacher t and a student s, class groups g1  *)
(* and g2, a day of two ticks, and a clock that stands one tick before the *)
(* end of a display week.                                                  *)
(***************************************************************************)
EXTENDS Feed, TLC

CONSTANTS r1, r2, t, s, g1, g2

Requests == {r1, r2}
Symmetry == Permutations(Requests)

Teacher == [active |-> TRUE, type |-> "teacher", group |-> g2, may |-> {}]
Student(g, may) == [active |-> TRUE, type |-> "student", group |-> g, may |-> may]

Accounts == (t :> Teacher) @@ (s :> Student(g1, {"confirm"}))

Asks(a, limit, offset, everything) ==
    [op |-> "feed", account |-> a, group |-> NoGroup, week |-> NoWeek,
     everything |-> everything, limit |-> limit, offset |-> offset]

\* The two pages of the student's week, the second up to the end and of a group that is
\* not his any more once he is moved; the teacher's history; and the badge by itself.
Offers ==
    {Asks(s, 1, 0, FALSE), [Asks(s, 2, 1, FALSE) EXCEPT !.group = g1],
     [Asks(t, 3, 0, TRUE) EXCEPT !.group = g2], [Asks(s, 1, 0, FALSE) EXCEPT !.op = "count"]}

Targets == {{g1}, {g1, g2}}

\* The student is moved, a role he has changes by which nothing is gained, or he leaves
\* the school as a teacher.
Updates ==
    {<<s, Student(g2, {"confirm"})>>, <<s, Student(g1, {"confirm"})>>,
     <<s, [Teacher EXCEPT !.active = FALSE]>>}

Ids == <<2, 1, 3>>
=============================================================================
