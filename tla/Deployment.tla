------------------------------ MODULE Deployment ------------------------------
(***************************************************************************)
(* What is run against the database besides the service: alembic upgrade   *)
(* and downgrade (src/alembic), the seed command (src/database/seed.py),   *)
(* and the transactions of writers of replies, old and new, that do not    *)
(* know of them.                                                           *)
(*                                                                         *)
(* Each of them is one transaction, a list of statements.  A statement     *)
(* takes a lock on its table, waits for the transactions that hold one in  *)
(* the way, and sees what has been committed by then; PostgreSQL aborts    *)
(* one of those that wait for each other.  DDL is transactional.           *)
(***************************************************************************)
EXTENDS Naturals, Sequences, FiniteSets

CONSTANTS
    Process,         \* commands and writers, numbered in the order they begin
    Job,             \* what there is to run
    ClassGroup, DevGroup, Student, Teacher,  \* what the seed creates,
    POSITION_NAMES,  \* and its positions, in this order
    Group,
    NoGroup,         \* a reply without a group
    TargetsOf,       \* broadcast -> its broadcast_targets
    Databases        \* the databases there are to begin with

Nobody == 0       \* not a process
Before == {1, 2}  \* those that wrote the replies there are to begin with

Head7 == 7
Revision == 0 .. Head7

Broadcast == DOMAIN TargetsOf
Position == {POSITION_NAMES[i] : i \in DOMAIN POSITION_NAMES}
Item == {ClassGroup, DevGroup, Student, Teacher} \union Position

ASSUME ProcessAssumption == Process \subseteq Nat \ (Before \union {Nobody})

\* What the seed creates has names of its own.
ASSUME ItemAssumption ==
    /\ POSITION_NAMES \in Seq(Position)
    /\ \A i, j \in DOMAIN POSITION_NAMES : POSITION_NAMES[i] = POSITION_NAMES[j] => i = j
    /\ {ClassGroup, DevGroup, Student, Teacher} \intersect Position = {}
    /\ ClassGroup # DevGroup /\ Student # Teacher
    /\ {ClassGroup, DevGroup} \intersect {Student, Teacher} = {}

ASSUME TargetAssumption ==
    /\ IsFiniteSet(Group) /\ NoGroup \notin Group
    /\ \A b \in Broadcast : TargetsOf[b] \subseteq Group

\* The old code knows no groups; migrations to a revision before 3 are not run.
ASSUME JobAssumption ==
    \A j \in Job :
        \/ j.op = "seed" /\ j.dev \in BOOLEAN
        \/ j.op = "upgrade"
        \/ j.op = "downgrade" /\ j.to \in 3 .. Head7
        \/ /\ j.op \in {"legacy", "reply"}
           /\ j.broadcast \in Broadcast
           /\ j.group \in Group \union {NoGroup}
           /\ j.ref \in Process \union Before \union {Nobody}
           /\ j.op = "legacy" => j.group = NoGroup

VARIABLES
    revision,       \* alembic_version, 0 without a schema
    rows,           \* groups, positions and accounts
    broadcasts,     \* the broadcasts there are, with their targets
    replies,
    confirmations,  \* the targets confirmed
    state,          \* process -> "idle", "running", or how it ended
    job,            \* process -> what it runs
    start,          \* process -> the revision when it began, while it runs
    todo,           \* process -> the statements it has still to execute
    held,           \* process -> the locks it holds
    mine,           \* process -> what it has written and not committed
    overlap         \* the pairs that have run at the same time, at least one a seed

database == <<revision, rows, broadcasts, replies, confirmations>>
local == <<state, job, start, todo, held, mine>>
vars == <<database, local, overlap>>

-----------------------------------------------------------------------------
\* type is the account_type, which is "none" before 0004 and where there is none.
Row == [item : Item, by : Process \union {Nobody}, type : {"none", "student", "teacher"}]

\* given is the group the writer gave.
Reply ==
    [id : Process \union Before, broadcast : Broadcast, group : Group \union {NoGroup},
     ref : Process \union Before \union {Nobody}, given : Group \union {NoGroup}]

Table == {"version", "groups", "positions", "accounts", "broadcasts", "targets", "confirmations",
          "replies"}

\* ACCESS SHARE and ROW SHARE, ROW EXCLUSIVE, SHARE ROW EXCLUSIVE, ACCESS EXCLUSIVE
Mode == {"share", "write", "define", "exclusive"}

InTheWay(m, n) ==
    \/ "exclusive" \in {m, n}
    \/ "define" \in {m, n} /\ {m, n} \subseteq {"write", "define"}

Outcome == {"ok", "failed", "deadlock"}

Running == {p \in Process : state[p] = "running"}

-----------------------------------------------------------------------------
(* The programs. *)

Do(what, table, mode, arg) == [do |-> what, table |-> table, mode |-> mode, arg |-> arg]

Lock(table, mode) == Do("lock", table, mode, "none")

TableOf(item) ==
    IF item \in {ClassGroup, DevGroup} THEN "groups"
    ELSE IF item \in {Student, Teacher} THEN "accounts"
    ELSE "positions"

TypeOf(item) ==
    IF item = Student THEN "student" ELSE IF item = Teacher THEN "teacher" ELSE "none"

\* _ensure_group, _ensure_position, _ensure_student_account, _ensure_teacher_account
Ensure(item) ==
    <<Do("look", TableOf(item), "share", item), Do("insert", TableOf(item), "write", item)>>

\* What seed_database ensures, in order.
Plan(dev) ==
    <<ClassGroup>> \o POSITION_NAMES \o (IF dev THEN <<DevGroup, Student, Teacher>> ELSE <<>>)

SeedProgram(dev) ==
    LET plan == Plan(dev)
    IN  [i \in 1 .. 2 * Len(plan) |-> Ensure(plan[(i + 1) \div 2])[2 - (i % 2)]]

\* Slip: nothing is locked before the preflight.
ScopeRepliesSlip ==
    <<Do("preflight", "replies", "share", "none"), Do("backfill", "replies", "exclusive", "none"),
      Lock("targets", "exclusive"), Lock("broadcasts", "exclusive")>>

\* 0006
ScopeReplies ==
    <<Lock("replies", "exclusive"), Lock("targets", "exclusive"),
      Do("preflight", "replies", "share", "none"), Do("backfill", "replies", "exclusive", "none"),
      Lock("broadcasts", "exclusive")>>

\* 0002: who adds a foreign key locks what it refers to, here and below.
AddSessions == <<Lock("accounts", "define")>>

\* 0004
TypeAccounts == <<Lock("accounts", "exclusive")>>

\* 0005
AddBroadcasts == <<Lock("accounts", "define"), Lock("groups", "define")>>

\* 0007
EnforceThreads ==
    <<Lock("replies", "exclusive"), Do("threads", "replies", "exclusive", "none"),
      Lock("confirmations", "define"), Do("confirmed", "targets", "define", "none")>>

\* The statements of the upgrade to each revision that lock or check something in
\* tables there are.
UpgradeTo ==
    << <<>>, AddSessions, <<>>, TypeAccounts, AddBroadcasts, ScopeReplies, EnforceThreads >>

\* 0004
UntypeAccounts == <<Do("untype", "accounts", "exclusive", "none")>>

\* 0005: who drops a table locks what it refers to, too.
DropBroadcasts ==
    <<Lock("replies", "exclusive"), Lock("accounts", "exclusive"),
      Lock("broadcasts", "exclusive"), Lock("confirmations", "exclusive"),
      Lock("groups", "exclusive"), Lock("targets", "exclusive")>>

\* 0006
UnscopeReplies ==
    <<Lock("replies", "exclusive"), Lock("targets", "exclusive"), Lock("broadcasts", "define")>>

\* 0007
ReleaseThreads ==
    <<Lock("confirmations", "exclusive"), Lock("targets", "exclusive"),
      Lock("replies", "exclusive")>>

\* And of the downgrade from each revision; those from 0001 to 0003 are not run.
DowngradeFrom ==
    << <<>>, <<>>, <<>>, UntypeAccounts, DropBroadcasts, UnscopeReplies, ReleaseThreads >>

\* Each migration ends with UPDATE alembic_version ... WHERE version_num = the one
\* before it.  Only the first can fail, later ones find what it has written.
Stamp == <<Do("stamp", "version", "exclusive", "none")>>

\* What an upgrade that finds the revision from runs to get to n, and what a downgrade
\* from there to to runs to leave n.
Ups(n, from) ==
    IF n <= from THEN <<>> ELSE UpgradeTo[n] \o (IF n = from + 1 THEN Stamp ELSE <<>>)

Downs(n, from, to) ==
    IF n \notin to + 1 .. from THEN <<>>
    ELSE DowngradeFrom[n] \o (IF n = from THEN Stamp ELSE <<>>)

Upgrade(from) ==
    Ups(1, from) \o Ups(2, from) \o Ups(3, from) \o Ups(4, from) \o Ups(5, from)
        \o Ups(6, from) \o Ups(7, from)

Downgrade(from, to) ==
    Downs(7, from, to) \o Downs(6, from, to) \o Downs(5, from, to) \o Downs(4, from, to)

\* A reply: the target is looked up, the parent, then the row is inserted, which
\* locks what it refers to.
ReplyProgram(j) ==
    <<Lock("targets", "share"), Do("parent", "replies", "share", "none"),
      Do("reply", "replies", "write", "none"),
      Lock(IF j.op = "legacy" THEN "broadcasts" ELSE "targets", "share")>>

\* What j runs when it finds the revision from.
Program(j, from) ==
    CASE j.op = "seed"      -> SeedProgram(j.dev)
      [] j.op = "upgrade"   -> Upgrade(from)
      [] j.op = "downgrade" -> Downgrade(from, j.to)
      [] OTHER              -> ReplyProgram(j)

-----------------------------------------------------------------------------
SameThread(x, y) == x.broadcast = y.broadcast /\ x.group = y.group

\* Slip: the constraint holds for new rows only.
ThreadsValidSlip(table) == TRUE

ThreadsValid(table) ==
    \A x \in table : x.ref # Nobody => \E y \in table : y.id = x.ref /\ SameThread(x, y)

\* A database to begin with is one that its revision allows.
ASSUME DatabaseAssumption ==
    \A d \in Databases :
        /\ d.revision \in Revision
        /\ d.rows \subseteq Row /\ d.replies \subseteq Reply
        /\ d.broadcasts \subseteq Broadcast /\ d.confirmations \subseteq Broadcast \X Group
        /\ \A x \in d.rows :
              x.by = Nobody /\ (d.revision < 4 \/ TableOf(x.item) # "accounts" => x.type = "none")
        /\ d.revision < 5 => d.broadcasts = {} /\ d.replies = {} /\ d.confirmations = {}
        /\ \A x \in d.replies :
              /\ x.broadcast \in d.broadcasts /\ x.given = x.group
              /\ IF d.revision = 5 THEN x.group = NoGroup ELSE x.group \in TargetsOf[x.broadcast]
        /\ d.revision = Head7 =>
              ThreadsValid(d.replies) /\ \A c \in d.confirmations : c[2] \in TargetsOf[c[1]]

-----------------------------------------------------------------------------
TypeOK ==
    /\ revision \in Revision
    /\ rows \subseteq Row
    /\ broadcasts \subseteq Broadcast
    /\ replies \subseteq Reply
    /\ confirmations \subseteq Broadcast \X Group
    /\ state \in [Process -> {"idle", "running"} \union Outcome]
    /\ start \in [Process -> Revision]
    /\ \A p \in Process : state[p] # "idle" => job[p] \in Job
    /\ \A p \in Process : held[p] \subseteq Table \X Mode
    /\ \A p \in Process : state[p] # "running" => held[p] = {} /\ mine[p] = {} /\ todo[p] = <<>>

Init ==
    /\ \E d \in Databases :
         /\ revision = d.revision /\ rows = d.rows /\ broadcasts = d.broadcasts
         /\ replies = d.replies /\ confirmations = d.confirmations
    /\ state = [p \in Process |-> "idle"]
    /\ job = [p \in Process |-> [op |-> "none"]]
    /\ start = [p \in Process |-> 0]
    /\ todo = [p \in Process |-> <<>>]
    /\ held = [p \in Process |-> {}]
    /\ mine = [p \in Process |-> {}]
    /\ overlap = {}

-----------------------------------------------------------------------------
(* The course of a transaction. *)

Seeding(p, jobs) == jobs[p].op = "seed"

Begin(p) ==
    /\ state[p] = "idle"
    /\ \A q \in Process : q < p => state[q] # "idle"
    /\ \E j \in Job :
         /\ job' = [job EXCEPT ![p] = j]
         /\ todo' = [todo EXCEPT ![p] = Program(j, revision)]
    /\ state' = [state EXCEPT ![p] = "running"]
    /\ start' = [start EXCEPT ![p] = revision]
    /\ overlap' = overlap \union
          {{p, q} : q \in {q \in Running : Seeding(q, job) \/ Seeding(p, job')}}
    /\ UNCHANGED <<database, held, mine>>

\* Slip: the connection of a command that fails is left as it is.
EndSlip(p, outcome) ==
    /\ state' = [state EXCEPT ![p] = outcome]
    /\ todo' = [todo EXCEPT ![p] = <<>>]
    /\ mine' = [mine EXCEPT ![p] = {}]
    /\ start' = [start EXCEPT ![p] = 0]
    /\ UNCHANGED <<job, held, overlap>>

\* The transaction is over, its locks are free and what it has not committed is gone.
End(p, outcome) ==
    /\ state' = [state EXCEPT ![p] = outcome]
    /\ todo' = [todo EXCEPT ![p] = <<>>]
    /\ held' = [held EXCEPT ![p] = {}]
    /\ mine' = [mine EXCEPT ![p] = {}]
    /\ start' = [start EXCEPT ![p] = 0]
    /\ UNCHANGED <<job, overlap>>

Fail(p, outcome) == End(p, outcome) /\ UNCHANGED database

Now(p) == Head(todo[p])

\* Rows of one item, but for groups, are kept apart by unique keys.
SameKey(x, y) == x.item = y.item /\ x.type = y.type /\ TableOf(x.item) # "groups"

NewRow(p, item) == [item |-> item, by |-> p, type |-> TypeOf(item)]

\* The transactions that hold what the next statement of p needs: a table, or the
\* key of a row they have inserted.
Blockers(p) ==
    IF state[p] # "running" \/ todo[p] = <<>> THEN {}
    ELSE {q \in Process \ {p} :
            \/ \E l \in held[q] : l[1] = Now(p).table /\ InTheWay(l[2], Now(p).mode)
            \/ /\ Now(p).do = "insert" /\ state[q] = "running" /\ job[q].op = "seed"
               /\ \E x \in mine[q] : SameKey(x, NewRow(p, Now(p).arg))}

Proceed(p, statements, written) ==
    /\ held' = [held EXCEPT ![p] = held[p] \union {<<Now(p).table, Now(p).mode>>}]
    /\ todo' = [todo EXCEPT ![p] = statements]
    /\ mine' = [mine EXCEPT ![p] = written]
    /\ UNCHANGED <<state, job, start, overlap, database>>

Next1(p) == Proceed(p, Tail(todo[p]), mine[p])

\* A statement that may not be executed ends the transaction.
Require(p, condition, step) == IF condition THEN step ELSE Fail(p, "failed")

Ready(p, what) ==
    state[p] = "running" /\ todo[p] # <<>> /\ Now(p).do = what /\ Blockers(p) = {}

-----------------------------------------------------------------------------
(* seed_database. *)

\* The tables are there, and the column account_type.
Visible(item) == revision >= IF TableOf(item) = "accounts" THEN 4 ELSE 1

\* Slip: Group.parent_id is None in place of .is_(None) finds no group.
FoundSlip(p, item) ==
    TableOf(item) # "groups" /\ \E x \in rows : x.item = item /\ x.type = TypeOf(item)

Found(p, item) == \E x \in rows \union mine[p] : x.item = item /\ x.type = TypeOf(item)

Look(p) ==
    /\ Ready(p, "look")
    /\ Require(p, Visible(Now(p).arg),
               Proceed(p, IF Found(p, Now(p).arg) THEN Tail(Tail(todo[p])) ELSE Tail(todo[p]),
                       mine[p]))

Insert(p) ==
    LET x == NewRow(p, Now(p).arg)
    IN
    /\ Ready(p, "insert")
    /\ Require(p, Visible(x.item) /\ \A y \in rows : ~SameKey(x, y),
               Proceed(p, Tail(todo[p]), mine[p] \union {x}))

-----------------------------------------------------------------------------
(* alembic. *)

TakeLock(p) == Ready(p, "lock") /\ Next1(p)

StampVersion(p) == Ready(p, "stamp") /\ Require(p, revision = start[p], Next1(p))

\* Exactly one target for each broadcast that has replies.
Preflight(p) ==
    /\ Ready(p, "preflight")
    /\ Require(p, \A x \in replies : Cardinality(TargetsOf[x.broadcast]) = 1, Next1(p))

\* UPDATE ... FROM broadcast_targets takes any row that fits; the column is NOT NULL.
Backfilled(table) ==
    {f \in [table -> Group] : \A x \in table : f[x] \in TargetsOf[x.broadcast]}

Backfill(p) ==
    /\ Ready(p, "backfill")
    /\ IF Backfilled(replies) = {} THEN Fail(p, "failed")
       ELSE \E f \in Backfilled(replies) :
              Proceed(p, Tail(todo[p]), {[x EXCEPT !.group = f[x]] : x \in replies})

\* The replies as the transaction of a migration sees them.
Draft(p) == IF start[p] = 5 THEN mine[p] ELSE replies

\* The foreign key to the parent's thread, the one to the confirmed target.
CheckThreads(p) == Ready(p, "threads") /\ Require(p, ThreadsValid(Draft(p)), Next1(p))

CheckConfirmed(p) ==
    /\ Ready(p, "confirmed")
    /\ Require(p, \A c \in confirmations : c[1] \in broadcasts /\ c[2] \in TargetsOf[c[1]],
               Next1(p))

\* uq_accounts_account_position_id knows no types.
Untype(p) ==
    /\ Ready(p, "untype")
    /\ Require(p, \A x, y \in rows : TableOf(x.item) = "accounts" /\ x.item = y.item => x = y,
               Next1(p))

-----------------------------------------------------------------------------
(* Writers of replies: ReplyService.create, and its predecessor before 0006. *)

ParentOf(j) == {y \in replies : y.id = j.ref}

FindParent(p) ==
    LET j == job[p]
    IN
    /\ Ready(p, "parent")
    /\ Require(p, /\ revision >= IF j.op = "legacy" THEN 5 ELSE 6
                  /\ j.broadcast \in broadcasts
                  /\ j.op = "reply" => j.group \in TargetsOf[j.broadcast]
                  /\ j.ref # Nobody => \E y \in ParentOf(j) : j.op = "legacy" \/ SameThread(j, y),
               Next1(p))

\* The constraints of the revision the row meets: a broadcast or a target, a group or
\* none, a parent, and from 0007 one of the same thread.
InsertReply(p) ==
    LET j == job[p]
        x == [id |-> p, broadcast |-> j.broadcast, ref |-> j.ref, given |-> j.group,
              group |-> j.group]
    IN
    /\ Ready(p, "reply")
    /\ Require(p, /\ IF j.op = "legacy" THEN revision = 5
                     ELSE revision >= 6 /\ j.group \in TargetsOf[j.broadcast]
                  /\ j.broadcast \in broadcasts
                  /\ j.ref # Nobody => \E y \in ParentOf(j) : revision < 7 \/ SameThread(x, y),
               Proceed(p, Tail(todo[p]), {x}))

-----------------------------------------------------------------------------
Typed(row, type) == IF TableOf(row.item) = "accounts" THEN [row EXCEPT !.type = type] ELSE row

\* What a command or a writer leaves behind.
Commit(p) ==
    LET j == job[p]
        done == state[p] = "running" /\ todo[p] = <<>>
    IN
    /\ done
    /\ CASE j.op = "seed" ->
              rows' = rows \union mine[p]
                /\ UNCHANGED <<revision, broadcasts, replies, confirmations>>
         [] j.op \in {"legacy", "reply"} ->
              replies' = replies \union mine[p]
                /\ UNCHANGED <<revision, rows, broadcasts, confirmations>>
         [] j.op = "upgrade" /\ start[p] < Head7 ->
              /\ revision' = Head7
              /\ rows' = IF start[p] < 4 THEN {Typed(x, "student") : x \in rows} ELSE rows
              /\ replies' = Draft(p)
              /\ UNCHANGED <<broadcasts, confirmations>>
         [] j.op = "downgrade" /\ start[p] > j.to ->
              /\ revision' = j.to
              /\ rows' = IF j.to < 4 THEN {Typed(x, "none") : x \in rows} ELSE rows
              /\ replies' = IF j.to < 5 THEN {}
                            ELSE IF j.to < 6 THEN {[x EXCEPT !.group = NoGroup] : x \in replies}
                            ELSE replies
              /\ broadcasts' = IF j.to < 5 THEN {} ELSE broadcasts
              /\ confirmations' = IF j.to < 5 THEN {} ELSE confirmations
         [] OTHER -> UNCHANGED database
    /\ End(p, "ok")

Statement(p) ==
    \/ Look(p) \/ Insert(p)
    \/ TakeLock(p) \/ StampVersion(p) \/ Preflight(p) \/ Backfill(p) \/ CheckThreads(p)
    \/ CheckConfirmed(p) \/ Untype(p)
    \/ FindParent(p) \/ InsertReply(p)
    \/ Commit(p)

\* PostgreSQL aborts one of the transactions that wait for each other.
Deadlock(p) ==
    /\ \E S \in SUBSET Running : p \in S /\ \A q \in S : Blockers(q) \intersect S # {}
    /\ Fail(p, "deadlock")

\* The command is interrupted, or its connection is lost.
Abort(p) == p \in Running /\ Fail(p, "failed")

Next == \E p \in Process : Begin(p) \/ Statement(p) \/ Deadlock(p) \/ Abort(p)

Spec == Init /\ [][Next]_vars

\* Of the commands that run, one at a time goes on, and PostgreSQL finds deadlocks.
FairSpec == Spec /\ WF_vars(\E p \in Process : Statement(p) \/ Deadlock(p))
-----------------------------------------------------------------------------
\* "The migration never guesses ownership": a reply that was written without a group
\* has none, or the only target of its broadcast; one that was written with a group
\* has that or none, also after it has lost it to a downgrade.  (0006; src/README.md)
NeverGuesses ==
    \A x \in replies :
        /\ x.given = NoGroup /\ x.group # NoGroup => TargetsOf[x.broadcast] = {x.group}
        /\ x.given # NoGroup => x.group \in {NoGroup, x.given}
        /\ x.group = NoGroup <=> revision = 5

\* At the head of the migrations every thread is closed and every confirmation is one
\* of a target, whatever writers with the old code have left behind or write while
\* the schema changes under them.  (0006, 0007)
ThreadsClosedAtHead ==
    revision = Head7 =>
        /\ \A x \in replies : x.broadcast \in broadcasts /\ x.group \in TargetsOf[x.broadcast]
        /\ \A x \in replies : x.ref # Nobody => \E y \in replies : y.id = x.ref /\ SameThread(x, y)
        /\ \A c \in confirmations : c[2] \in TargetsOf[c[1]]

Seeds == {p \in Process : Seeding(p, job)}

\* "Seed commands only create missing records": a seed that ends well leaves all of its
\* plan behind, one that does not leaves nothing; there is no second position or
\* account, and a second group only if two seeds have run at the same time, which
\* never wait for each other.  (seed_database; src/README.md)
SeedOutcome ==
    /\ \A x, y \in rows : x # y /\ x.item = y.item /\ x.type = y.type =>
          TableOf(x.item) = "groups" /\ {x.by, y.by} \in overlap
    /\ \A x \in rows : x.by \in Process => state[x.by] = "ok"
    /\ \A p \in Seeds : state[p] = "ok" =>
          LET plan == Plan(job[p].dev)
          IN  \A i \in DOMAIN plan : \E x \in rows : x.item = plan[i]
    /\ \A p \in Seeds : state[p] = "deadlock" => \E q \in Process \ Seeds : {p, q} \in overlap

\* Every command and every writer ends, whatever it waits for: alembic takes the
\* locks of a whole upgrade in an order of its own.  (0006; env.py)
EveryCommandEnds == []<>(Running = {})
=============================================================================
