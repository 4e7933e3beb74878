--------------------------- MODULE DeploymentProofs ---------------------------
(***************************************************************************)
(* Deployment for every number of processes, every job and every database  *)
(* to begin with.                                                          *)
(***************************************************************************)
EXTENDS Deployment, SequenceTheorems, FiniteSetTheorems, TLAPS

-----------------------------------------------------------------------------
(* Statements and the programs they make up. *)

\* What a process that runs j may execute.
Kinds(j) ==
    IF j.op = "seed" THEN {"look", "insert"}
    ELSE IF j.op \in {"legacy", "reply"} THEN {"lock", "parent", "reply"}
    ELSE {"lock", "stamp", "preflight", "backfill", "threads", "confirmed", "untype"}

Kind == {"look", "insert", "lock", "stamp", "preflight", "backfill", "threads", "confirmed",
         "untype", "parent", "reply"}

Stmt == [do : Kind, table : Table, mode : Mode, arg : Item \union {"none"}]

StmtOf(j) == {st \in Stmt : st.do \in Kinds(j)}

\* st is still to be executed.
In(st, s) == \E i \in DOMAIN s : s[i] = st

StampSt == Do("stamp", "version", "exclusive", "none")
RepliesSt == Lock("replies", "exclusive")
PreflightSt == Do("preflight", "replies", "share", "none")
BackfillSt == Do("backfill", "replies", "exclusive", "none")
ThreadsSt == Do("threads", "replies", "exclusive", "none")
ConfirmedSt == Do("confirmed", "targets", "define", "none")
UntypeSt == Do("untype", "accounts", "exclusive", "none")
ReplySt == Do("reply", "replies", "write", "none")
InsertSt(item) == Do("insert", TableOf(item), "write", item)

\* A migration with something to do.
Migrates(j, from) ==
    \/ j.op = "upgrade" /\ from < Head7
    \/ j.op = "downgrade" /\ from > j.to

LEMMA HeadTail ==
    ASSUME NEW S, NEW s \in Seq(S), s # <<>>
    PROVE  /\ Tail(s) \in Seq(S) /\ Head(s) \in S /\ Head(s) = s[1] /\ Len(s) \in Nat \ {0}
           /\ DOMAIN s = 1 .. Len(s) /\ DOMAIN Tail(s) = 1 .. Len(s) - 1
           /\ \A i \in 1 .. Len(s) - 1 : Tail(s)[i] = s[i + 1]
<1>1. Len(s) \in Nat \ {0} /\ DOMAIN s = 1 .. Len(s)
  BY LenProperties, EmptySeq
<1>2. Tail(s) \in Seq(S) /\ Head(s) = s[1] /\ Len(Tail(s)) = Len(s) - 1
  BY HeadTailProperties
<1>3. \A i \in 1 .. Len(s) - 1 : Tail(s)[i] = s[i + 1]
  BY <1>1, <1>2, HeadTailProperties
<1> QED
  BY <1>1, <1>2, <1>3, LenProperties, ElementOfSeq

\* Executing the first statement leaves every other one to be executed.
LEMMA InTail ==
    ASSUME NEW S, NEW s \in Seq(S), s # <<>>, NEW st
    PROVE  In(st, s) <=> st = Head(s) \/ In(st, Tail(s))
<1> DEFINE t == Tail(s)
<1>0. /\ Head(s) = s[1] /\ Len(s) \in Nat \ {0}
      /\ DOMAIN s = 1 .. Len(s) /\ DOMAIN t = 1 .. Len(s) - 1
      /\ \A i \in 1 .. Len(s) - 1 : t[i] = s[i + 1]
  BY HeadTail
<1> HIDE DEF t
<1>1. ASSUME In(st, s), st # Head(s)
      PROVE  In(st, t)
  <2>1. PICK i \in 1 .. Len(s) : s[i] = st
    BY <1>1, <1>0 DEF In
  <2>2. i # 1
    BY <2>1, <1>1, <1>0
  <2>3. i - 1 \in 1 .. Len(s) - 1 /\ t[i - 1] = s[(i - 1) + 1]
    BY <2>1, <2>2, <1>0
  <2> QED
    BY <2>1, <2>3, <1>0 DEF In
<1>2. ASSUME In(st, t)
      PROVE  In(st, s)
  <2>1. PICK i \in 1 .. Len(s) - 1 : t[i] = st
    BY <1>2, <1>0 DEF In
  <2>2. i + 1 \in 1 .. Len(s) /\ s[i + 1] = st
    BY <2>1, <1>0
  <2> QED
    BY <2>2, <1>0 DEF In
<1>3. In(Head(s), s)
  BY <1>0 DEF In
<1> QED
  BY <1>1, <1>2, <1>3 DEF t

LEMMA InCat ==
    ASSUME NEW S, NEW s \in Seq(S), NEW t \in Seq(S), NEW st, In(st, s) \/ In(st, t)
    PROVE  In(st, s \o t)
<1>1. /\ Len(s) \in Nat /\ Len(t) \in Nat /\ DOMAIN s = 1 .. Len(s) /\ DOMAIN t = 1 .. Len(t)
      /\ s \o t \in Seq(S) /\ Len(s \o t) = Len(s) + Len(t)
      /\ \A i \in 1 .. Len(s) + Len(t) :
            (s \o t)[i] = IF i <= Len(s) THEN s[i] ELSE t[i - Len(s)]
  BY LenProperties, ConcatProperties
<1>2. DOMAIN (s \o t) = 1 .. Len(s) + Len(t)
  BY <1>1, LenProperties
<1>3. CASE In(st, s)
  <2>1. PICK i \in 1 .. Len(s) : s[i] = st
    BY <1>1, <1>3 DEF In
  <2>2. i \in 1 .. Len(s) + Len(t) /\ (s \o t)[i] = st
    BY <1>1, <2>1
  <2> QED
    BY <1>2, <2>2 DEF In
<1>4. CASE In(st, t)
  <2>1. PICK i \in 1 .. Len(t) : t[i] = st
    BY <1>1, <1>4 DEF In
  <2>2. Len(s) + i \in 1 .. Len(s) + Len(t) /\ (s \o t)[Len(s) + i] = st
    BY <1>1, <2>1
  <2> QED
    BY <1>2, <2>2 DEF In
<1> QED
  BY <1>3, <1>4

\* What migrations execute.
MigrationKinds == {"lock", "stamp", "preflight", "backfill", "threads", "confirmed", "untype"}
MigrationStmt == {st \in Stmt : st.do \in MigrationKinds}

LEMMA DoType ==
    ASSUME NEW what \in Kind, NEW table \in Table, NEW mode \in Mode,
           NEW arg \in Item \union {"none"}
    PROVE  /\ Do(what, table, mode, arg) \in Stmt
           /\ Do(what, table, mode, arg).do = what /\ Do(what, table, mode, arg).table = table
           /\ Do(what, table, mode, arg).mode = mode /\ Do(what, table, mode, arg).arg = arg
BY DEF Do, Stmt

LEMMA MigrationStmts ==
    /\ {StampSt, PreflightSt, BackfillSt, ThreadsSt, ConfirmedSt, UntypeSt} \subseteq MigrationStmt
    /\ \A table \in Table, mode \in Mode : Lock(table, mode) \in MigrationStmt
<1>1. \A table \in Table, mode \in Mode, what \in MigrationKinds :
          Do(what, table, mode, "none") \in MigrationStmt
  BY DoType DEF MigrationKinds, Kind, MigrationStmt
<1>2. {"version", "replies", "targets", "accounts"} \subseteq Table
  BY DEF Table
<1>3. {"exclusive", "share", "define"} \subseteq Mode
  BY DEF Mode
<1>4. {"lock", "stamp", "preflight", "backfill", "threads", "confirmed", "untype"}
          \subseteq MigrationKinds
  BY DEF MigrationKinds
<1> QED
  BY <1>1, <1>2, <1>3, <1>4
  DEF StampSt, PreflightSt, BackfillSt, ThreadsSt, ConfirmedSt, UntypeSt, Lock

\* A list of statements written out.
LEMMA Written ==
    ASSUME NEW S
    PROVE  /\ <<>> \in Seq(S)
           /\ \A a \in S : <<a>> \in Seq(S)
           /\ \A a, b \in S : <<a, b>> \in Seq(S)
           /\ \A a, b, c \in S : <<a, b, c>> \in Seq(S)
           /\ \A a, b, c, d \in S : <<a, b, c, d>> \in Seq(S)
           /\ \A a, b, c, d, e \in S : <<a, b, c, d, e>> \in Seq(S)
           /\ \A a, b, c, d, e, f \in S : <<a, b, c, d, e, f>> \in Seq(S)
OBVIOUS

LEMMA PartTypes ==
    ASSUME NEW n \in 1 .. 7
    PROVE  UpgradeTo[n] \in Seq(MigrationStmt) /\ DowngradeFrom[n] \in Seq(MigrationStmt)
<1> DEFINE M == MigrationStmt
           l(table, mode) == Lock(table, mode)
<1>1. \A table \in {"accounts", "groups", "replies", "targets", "broadcasts", "confirmations"},
         mode \in {"define", "exclusive"} : l(table, mode) \in M
  BY MigrationStmts DEF Table, Mode
<1>2. {StampSt, PreflightSt, BackfillSt, ThreadsSt, ConfirmedSt, UntypeSt} \subseteq M
  BY MigrationStmts
<1> HIDE DEF M
<1>3. ScopeReplies \in Seq(M)
  <2>1. ScopeReplies = <<l("replies", "exclusive"), l("targets", "exclusive"), PreflightSt,
                          BackfillSt, l("broadcasts", "exclusive")>>
    BY DEF ScopeReplies, PreflightSt, BackfillSt
  <2>2. l("replies", "exclusive") \in M /\ l("targets", "exclusive") \in M
        /\ l("broadcasts", "exclusive") \in M
    BY <1>1
  <2> HIDE DEF l
  <2> QED
    BY <1>2, <2>1, <2>2, Written
<1>4. UpgradeTo[n] \in Seq(M)
  <2>1. UpgradeTo[7] = <<l("replies", "exclusive"), ThreadsSt, l("confirmations", "define"),
                         ConfirmedSt>>
    BY DEF UpgradeTo, AddSessions, TypeAccounts, AddBroadcasts, EnforceThreads, ThreadsSt,
           ConfirmedSt
  <2>2. /\ UpgradeTo[1] = <<>> /\ UpgradeTo[2] = <<l("accounts", "define")>>
        /\ UpgradeTo[3] = <<>> /\ UpgradeTo[4] = <<l("accounts", "exclusive")>>
        /\ UpgradeTo[5] = <<l("accounts", "define"), l("groups", "define")>>
        /\ UpgradeTo[6] = ScopeReplies
    BY DEF UpgradeTo, AddSessions, TypeAccounts, AddBroadcasts, EnforceThreads
  <2>3. /\ l("replies", "exclusive") \in M /\ l("confirmations", "define") \in M
        /\ l("accounts", "define") \in M /\ l("accounts", "exclusive") \in M
        /\ l("groups", "define") \in M
    BY <1>1
  <2> HIDE DEF l
  <2>4. UpgradeTo[7] \in Seq(M)
    BY <1>2, <2>1, <2>3, Written
  <2>5. UpgradeTo[1] \in Seq(M) /\ UpgradeTo[2] \in Seq(M) /\ UpgradeTo[3] \in Seq(M)
        /\ UpgradeTo[4] \in Seq(M)
    BY <2>2, <2>3, Written
  <2>6. UpgradeTo[5] \in Seq(M) /\ UpgradeTo[6] \in Seq(M)
    BY <1>3, <2>2, <2>3, Written
  <2>7. n \in {1, 2, 3, 4, 5, 6, 7}
    OBVIOUS
  <2> QED
    BY <2>4, <2>5, <2>6, <2>7
<1>5. DowngradeFrom[n] \in Seq(M)
  <2>1. /\ DowngradeFrom[1] = <<>> /\ DowngradeFrom[2] = <<>> /\ DowngradeFrom[3] = <<>>
        /\ DowngradeFrom[4] = <<UntypeSt>>
        /\ DowngradeFrom[5] =
             <<l("replies", "exclusive"), l("accounts", "exclusive"), l("broadcasts", "exclusive"),
               l("confirmations", "exclusive"), l("groups", "exclusive"),
               l("targets", "exclusive")>>
        /\ DowngradeFrom[6] = <<l("replies", "exclusive"), l("targets", "exclusive"),
                                l("broadcasts", "define")>>
        /\ DowngradeFrom[7] = <<l("confirmations", "exclusive"), l("targets", "exclusive"),
                                l("replies", "exclusive")>>
    BY DEF DowngradeFrom, UntypeAccounts, DropBroadcasts, UnscopeReplies, ReleaseThreads, UntypeSt
  <2>2. /\ l("replies", "exclusive") \in M /\ l("accounts", "exclusive") \in M
        /\ l("broadcasts", "exclusive") \in M /\ l("confirmations", "exclusive") \in M
        /\ l("groups", "exclusive") \in M /\ l("targets", "exclusive") \in M
        /\ l("broadcasts", "define") \in M
    BY <1>1
  <2> HIDE DEF l
  <2>3. DowngradeFrom[1] \in Seq(M) /\ DowngradeFrom[2] \in Seq(M) /\ DowngradeFrom[3] \in Seq(M)
        /\ DowngradeFrom[4] \in Seq(M)
    BY <1>2, <2>1, Written
  <2>4. DowngradeFrom[6] \in Seq(M) /\ DowngradeFrom[7] \in Seq(M)
    BY <2>1, <2>2, Written
  <2>5. DowngradeFrom[5] \in Seq(M)
    BY <2>1, <2>2, Written
  <2>6. n \in {1, 2, 3, 4, 5, 6, 7}
    OBVIOUS
  <2> QED
    BY <2>3, <2>4, <2>5, <2>6
<1> QED
  BY <1>4, <1>5 DEF M

LEMMA StepTypes ==
    ASSUME NEW n \in 1 .. 7, NEW from \in Revision, NEW to \in Revision
    PROVE  Ups(n, from) \in Seq(MigrationStmt) /\ Downs(n, from, to) \in Seq(MigrationStmt)
<1>1. Stamp \in Seq(MigrationStmt) /\ <<>> \in Seq(MigrationStmt)
  BY MigrationStmts, Written DEF Stamp, StampSt
<1>2. UpgradeTo[n] \in Seq(MigrationStmt) /\ DowngradeFrom[n] \in Seq(MigrationStmt)
  BY PartTypes
<1>3. \A s, t \in Seq(MigrationStmt) : s \o t \in Seq(MigrationStmt)
  BY ConcatProperties
<1> QED
  BY <1>1, <1>2, <1>3 DEF Ups, Downs

\* What some part of a migration executes the migration executes.
LEMMA UpgradeParts ==
    ASSUME NEW from \in Revision
    PROVE  /\ Upgrade(from) \in Seq(MigrationStmt)
           /\ \A n \in 1 .. 7, st \in Stmt : In(st, Ups(n, from)) => In(st, Upgrade(from))
<1> DEFINE S == Seq(MigrationStmt)
           u(n) == Ups(n, from)
           c2 == u(1) \o u(2)
           c3 == c2 \o u(3)
           c4 == c3 \o u(4)
           c5 == c4 \o u(5)
           c6 == c5 \o u(6)
           c7 == c6 \o u(7)
<1>1. \A n \in 1 .. 7 : u(n) \in S
  BY StepTypes
<1>2. \A s, t \in S : s \o t \in S
  BY ConcatProperties
<1>3. \A s, t \in S, st \in Stmt : In(st, s) \/ In(st, t) => In(st, s \o t)
  BY InCat
<1>4. Upgrade(from) = c7
  BY DEF Upgrade
<1> HIDE DEF S, u
<1>5. u(1) \in S /\ u(2) \in S /\ u(3) \in S /\ u(4) \in S /\ u(5) \in S /\ u(6) \in S /\ u(7) \in S
  BY <1>1
<1>6. c2 \in S /\ \A st \in Stmt : In(st, u(1)) \/ In(st, u(2)) => In(st, c2)
  BY <1>2, <1>3, <1>5
<1> HIDE DEF c2
<1>7. c3 \in S /\ \A st \in Stmt : In(st, c2) \/ In(st, u(3)) => In(st, c3)
  BY <1>2, <1>3, <1>5, <1>6
<1> HIDE DEF c3
<1>8. c4 \in S /\ \A st \in Stmt : In(st, c3) \/ In(st, u(4)) => In(st, c4)
  BY <1>2, <1>3, <1>5, <1>7
<1> HIDE DEF c4
<1>9. c5 \in S /\ \A st \in Stmt : In(st, c4) \/ In(st, u(5)) => In(st, c5)
  BY <1>2, <1>3, <1>5, <1>8
<1> HIDE DEF c5
<1>10. c6 \in S /\ \A st \in Stmt : In(st, c5) \/ In(st, u(6)) => In(st, c6)
  BY <1>2, <1>3, <1>5, <1>9
<1> HIDE DEF c6
<1>11. c7 \in S /\ \A st \in Stmt : In(st, c6) \/ In(st, u(7)) => In(st, c7)
  BY <1>2, <1>3, <1>5, <1>10
<1> HIDE DEF c7
<1>12. ASSUME NEW n \in 1 .. 7, NEW st \in Stmt, In(st, u(n))
       PROVE  In(st, c7)
  <2>1. n \in {1, 2, 3, 4, 5, 6, 7}
    OBVIOUS
  <2> QED
    BY <1>6, <1>7, <1>8, <1>9, <1>10, <1>11, <1>12, <2>1
<1> QED
  BY <1>4, <1>11, <1>12 DEF S, u

LEMMA DowngradeParts ==
    ASSUME NEW from \in Revision, NEW to \in Revision
    PROVE  /\ Downgrade(from, to) \in Seq(MigrationStmt)
           /\ \A n \in 4 .. 7, st \in Stmt :
                 In(st, Downs(n, from, to)) => In(st, Downgrade(from, to))
<1> DEFINE S == Seq(MigrationStmt)
           d(n) == Downs(n, from, to)
           c2 == d(7) \o d(6)
           c3 == c2 \o d(5)
           c4 == c3 \o d(4)
<1>1. \A n \in 1 .. 7 : d(n) \in S
  BY StepTypes
<1>2. \A s, t \in S : s \o t \in S
  BY ConcatProperties
<1>3. \A s, t \in S, st \in Stmt : In(st, s) \/ In(st, t) => In(st, s \o t)
  BY InCat
<1>4. Downgrade(from, to) = c4
  BY DEF Downgrade
<1> HIDE DEF S, d
<1>5. d(4) \in S /\ d(5) \in S /\ d(6) \in S /\ d(7) \in S
  BY <1>1
<1>6. c2 \in S /\ \A st \in Stmt : In(st, d(7)) \/ In(st, d(6)) => In(st, c2)
  BY <1>2, <1>3, <1>5
<1> HIDE DEF c2
<1>7. c3 \in S /\ \A st \in Stmt : In(st, c2) \/ In(st, d(5)) => In(st, c3)
  BY <1>2, <1>3, <1>5, <1>6
<1> HIDE DEF c3
<1>8. c4 \in S /\ \A st \in Stmt : In(st, c3) \/ In(st, d(4)) => In(st, c4)
  BY <1>2, <1>3, <1>5, <1>7
<1> HIDE DEF c4
<1>9. ASSUME NEW n \in 4 .. 7, NEW st \in Stmt, In(st, d(n))
      PROVE  In(st, c4)
  <2>1. n \in {4, 5, 6, 7}
    OBVIOUS
  <2> QED
    BY <1>6, <1>7, <1>8, <1>9, <2>1
<1> QED
  BY <1>4, <1>8, <1>9 DEF S, d

\* Where one statement of the upgrade from 5 stands to the others: the preflight is
\* behind the backfill, the check of the threads before it.
Shape(s) ==
    \A i \in DOMAIN s : s[i].do = "backfill" =>
        /\ \E k \in DOMAIN s : k > i /\ s[k] = ThreadsSt
        /\ \A k \in DOMAIN s : k > i => s[k].do # "preflight"

LEMMA Joined ==
    ASSUME NEW s \in Seq(MigrationStmt), NEW t \in Seq(MigrationStmt)
    PROVE  /\ s \o t \in Seq(MigrationStmt) /\ Len(s \o t) = Len(s) + Len(t)
           /\ DOMAIN (s \o t) = 1 .. Len(s) + Len(t)
           /\ \A i \in 1 .. Len(s) : (s \o t)[i] = s[i]
           /\ \A i \in 1 .. Len(t) : (s \o t)[Len(s) + i] = t[i]
<1> DEFINE w == s \o t
           m == Len(s)
           n == Len(t)
<1>0. m \in Nat /\ n \in Nat
  BY LenProperties
<1>1. /\ w \in Seq(MigrationStmt) /\ Len(w) = m + n
      /\ \A i \in 1 .. m + n : w[i] = IF i <= m THEN s[i] ELSE t[i - m]
  BY ConcatProperties
<1> HIDE DEF w, m, n
<1>2. DOMAIN w = 1 .. m + n
  BY <1>1, LenProperties
<1>3. \A i \in 1 .. m : w[i] = s[i]
  BY <1>0, <1>1
<1>4. ASSUME NEW i \in 1 .. n
      PROVE  w[m + i] = t[i]
  <2>1. m + i \in 1 .. m + n /\ ~(m + i <= m) /\ (m + i) - m = i
    BY <1>0
  <2> QED
    BY <1>1, <2>1
<1> QED
  BY <1>1, <1>2, <1>3, <1>4 DEF w, m, n

\* The upgrade from 5 and the one from 6, statement by statement.
LEMMA Upgrade5 ==
    /\ Upgrade(5) \in Seq(MigrationStmt) /\ DOMAIN Upgrade(5) = 1 .. 10
    /\ Upgrade(5)[1] = RepliesSt /\ Upgrade(5)[2] = Lock("targets", "exclusive")
    /\ Upgrade(5)[3] = PreflightSt /\ Upgrade(5)[4] = BackfillSt
    /\ Upgrade(5)[5] = Lock("broadcasts", "exclusive") /\ Upgrade(5)[6] = StampSt
    /\ Upgrade(5)[7] = RepliesSt /\ Upgrade(5)[8] = ThreadsSt
    /\ Upgrade(5)[9] = Lock("confirmations", "define") /\ Upgrade(5)[10] = ConfirmedSt
<1> DEFINE S == Seq(MigrationStmt)
           u == Ups(6, 5)
           v == Ups(7, 5)
<1>1. u \in S /\ v \in S /\ <<>> \in S
  BY StepTypes, Written DEF Revision, Head7
<1>2. Ups(1, 5) = <<>> /\ Ups(2, 5) = <<>> /\ Ups(3, 5) = <<>> /\ Ups(4, 5) = <<>>
      /\ Ups(5, 5) = <<>>
  BY DEF Ups
<1>3. Upgrade(5) = u \o v
  <2>1. <<>> \o <<>> = <<>>
    OBVIOUS
  <2>2. <<>> \o u = u
    BY <1>1, ConcatEmptySeq
  <2> HIDE DEF u, v
  <2> QED
    BY <1>2, <2>1, <2>2 DEF Upgrade, u, v
<1>4. u = ScopeReplies \o Stamp /\ v = UpgradeTo[7] \o <<>>
  BY DEF Ups, UpgradeTo, AddSessions, TypeAccounts, AddBroadcasts, EnforceThreads
<1>5. v = <<RepliesSt, ThreadsSt, Lock("confirmations", "define"), ConfirmedSt>>
  <2>1. UpgradeTo[7] = <<RepliesSt, ThreadsSt, Lock("confirmations", "define"), ConfirmedSt>>
    BY DEF UpgradeTo, AddSessions, TypeAccounts, AddBroadcasts, EnforceThreads, RepliesSt,
           ThreadsSt, ConfirmedSt
  <2>2. UpgradeTo[7] \o <<>> = UpgradeTo[7]
    BY PartTypes, ConcatEmptySeq
  <2> QED
    BY <1>4, <2>1, <2>2
<1>6. /\ DOMAIN u = 1 .. 6 /\ Len(u) = 6
      /\ u[1] = RepliesSt /\ u[2] = Lock("targets", "exclusive") /\ u[3] = PreflightSt
      /\ u[4] = BackfillSt /\ u[5] = Lock("broadcasts", "exclusive") /\ u[6] = StampSt
  <2> DEFINE a == ScopeReplies
  <2>1. /\ Len(a) = 5 /\ a[1] = RepliesSt /\ a[2] = Lock("targets", "exclusive")
        /\ a[3] = PreflightSt /\ a[4] = BackfillSt /\ a[5] = Lock("broadcasts", "exclusive")
    BY DEF ScopeReplies, RepliesSt, PreflightSt, BackfillSt
  <2>2. Len(Stamp) = 1 /\ Stamp[1] = StampSt
    BY DEF Stamp, StampSt
  <2>3. a \in S /\ Stamp \in S
    <3>1. UpgradeTo[6] = a
      BY DEF UpgradeTo, AddSessions, TypeAccounts, AddBroadcasts, EnforceThreads
    <3>2. UpgradeTo[6] \in S
      BY PartTypes
    <3>3. Stamp \in S
      BY MigrationStmts, Written DEF Stamp, StampSt
    <3> QED
      BY <3>1, <3>2, <3>3
  <2> HIDE DEF a
  <2>4. u = a \o Stamp
    BY <1>4 DEF a
  <2> HIDE DEF u
  <2>5. /\ Len(u) = 5 + 1 /\ DOMAIN u = 1 .. 5 + 1
        /\ \A i \in 1 .. 5 : u[i] = a[i]
        /\ \A i \in 1 .. 1 : u[5 + i] = Stamp[i]
    <3>1. /\ Len(u) = Len(a) + Len(Stamp) /\ DOMAIN u = 1 .. Len(a) + Len(Stamp)
          /\ \A i \in 1 .. Len(a) : u[i] = a[i]
          /\ \A i \in 1 .. Len(Stamp) : u[Len(a) + i] = Stamp[i]
      BY <2>3, <2>4, Joined
    <3> QED
      BY <2>1, <2>2, <3>1
  <2>6. u[5 + 1] = Stamp[1]
    BY <2>5
  <2>7. u[1] = a[1] /\ u[2] = a[2] /\ u[3] = a[3] /\ u[4] = a[4] /\ u[5] = a[5]
    BY <2>5
  <2> QED
    BY <2>1, <2>2, <2>5, <2>6, <2>7
<1>7. Len(v) = 4 /\ v[1] = RepliesSt /\ v[2] = ThreadsSt /\ v[3] = Lock("confirmations", "define")
      /\ v[4] = ConfirmedSt
  BY <1>5
<1> DEFINE w == u \o v
<1>8. w = u \o v
  OBVIOUS
<1> HIDE DEF u, v, w
<1>9. /\ w \in S /\ DOMAIN w = 1 .. 10 /\ \A i \in 1 .. 6 : w[i] = u[i]
      /\ w[7] = v[1] /\ w[8] = v[2] /\ w[9] = v[3] /\ w[10] = v[4]
  <2>1. /\ w \in S /\ DOMAIN w = 1 .. 6 + 4 /\ \A i \in 1 .. 6 : w[i] = u[i]
        /\ \A i \in 1 .. 4 : w[6 + i] = v[i]
    <3>1. /\ w \in S /\ DOMAIN w = 1 .. Len(u) + Len(v)
          /\ \A i \in 1 .. Len(u) : w[i] = u[i]
          /\ \A i \in 1 .. Len(v) : w[Len(u) + i] = v[i]
      BY <1>1, <1>8, Joined
    <3> QED
      BY <1>6, <1>7, <3>1
  <2>2. w[6 + 1] = v[1] /\ w[6 + 2] = v[2] /\ w[6 + 3] = v[3] /\ w[6 + 4] = v[4]
    BY <2>1
  <2> QED
    BY <2>1, <2>2
<1>10. w[1] = u[1] /\ w[2] = u[2] /\ w[3] = u[3] /\ w[4] = u[4] /\ w[5] = u[5] /\ w[6] = u[6]
  BY <1>9
<1>11. Upgrade(5) = w
  BY <1>3 DEF w
<1> QED
  BY <1>6, <1>7, <1>9, <1>10, <1>11

\* The first statement of the upgrade from 6.
LEMMA Upgrade6 ==
    /\ Upgrade(6) # <<>> /\ Head(Upgrade(6)) = RepliesSt
    /\ In(ThreadsSt, Upgrade(6)) /\ In(ConfirmedSt, Upgrade(6)) /\ In(StampSt, Upgrade(6))
<1> DEFINE u == UpgradeTo[7]
<1>1. /\ u = <<RepliesSt, ThreadsSt, Lock("confirmations", "define"), ConfirmedSt>>
      /\ u \in Seq(MigrationStmt)
  BY PartTypes DEF UpgradeTo, AddSessions, TypeAccounts, AddBroadcasts, EnforceThreads,
                   RepliesSt, ThreadsSt, ConfirmedSt
<1>2. Stamp \in Seq(MigrationStmt) /\ Stamp = <<StampSt>>
  BY MigrationStmts, Written DEF Stamp, StampSt
<1>3. Upgrade(6) = u \o Stamp
  <2>1. Ups(1, 6) = <<>> /\ Ups(2, 6) = <<>> /\ Ups(3, 6) = <<>> /\ Ups(4, 6) = <<>>
        /\ Ups(5, 6) = <<>> /\ Ups(6, 6) = <<>> /\ Ups(7, 6) = u \o Stamp
    BY DEF Ups
  <2>2. <<>> \o <<>> = <<>>
    OBVIOUS
  <2>3. u \o Stamp \in Seq(MigrationStmt)
    BY <1>1, <1>2, Joined
  <2> HIDE DEF u
  <2>4. <<>> \o (u \o Stamp) = u \o Stamp
    BY <2>3, ConcatEmptySeq
  <2> QED
    BY <2>1, <2>2, <2>4 DEF Upgrade
<1>4. Len(u) = 4 /\ u[1] = RepliesSt /\ u[2] = ThreadsSt /\ u[4] = ConfirmedSt
      /\ DOMAIN u = 1 .. 4 /\ Len(Stamp) = 1 /\ Stamp[1] = StampSt
  BY <1>1, <1>2
<1> HIDE DEF u
<1>5. In(ThreadsSt, u) /\ In(ConfirmedSt, u) /\ In(StampSt, Stamp)
  BY <1>2, <1>4 DEF In
<1>6. /\ DOMAIN (u \o Stamp) = 1 .. 4 + 1 /\ (u \o Stamp)[1] = u[1]
      /\ u \o Stamp \in Seq(MigrationStmt)
  <2>1. /\ DOMAIN (u \o Stamp) = 1 .. Len(u) + Len(Stamp) /\ u \o Stamp \in Seq(MigrationStmt)
        /\ \A i \in 1 .. Len(u) : (u \o Stamp)[i] = u[i]
    BY <1>1, <1>2, Joined
  <2> QED
    BY <1>4, <2>1
<1>7. Upgrade(6) # <<>> /\ Head(Upgrade(6)) = Upgrade(6)[1]
  <2> DEFINE w == u \o Stamp
  <2>1. w \in Seq(MigrationStmt) /\ DOMAIN w = 1 .. 5
    BY <1>6
  <2>2. Upgrade(6) = w
    BY <1>3
  <2> HIDE DEF w
  <2>3. w # <<>>
    BY <2>1
  <2>4. Head(w) = w[1]
    BY <2>1, <2>3, HeadTail
  <2> QED
    BY <2>2, <2>3, <2>4
<1>8. /\ In(ThreadsSt, u \o Stamp) /\ In(ConfirmedSt, u \o Stamp) /\ In(StampSt, u \o Stamp)
  BY <1>1, <1>2, <1>5, InCat
<1> QED
  BY <1>3, <1>4, <1>6, <1>7, <1>8

LEMMA Kindly ==
    /\ StampSt.do = "stamp" /\ PreflightSt.do = "preflight" /\ BackfillSt.do = "backfill"
    /\ ThreadsSt.do = "threads" /\ ConfirmedSt.do = "confirmed" /\ UntypeSt.do = "untype"
    /\ ReplySt.do = "reply" /\ \A table, mode : Lock(table, mode).do = "lock"
BY DEF StampSt, PreflightSt, BackfillSt, ThreadsSt, ConfirmedSt, UntypeSt, ReplySt, Lock, Do

LEMMA Upgrade5Order ==
    /\ Upgrade(5) # <<>> /\ Head(Upgrade(5)) = RepliesSt
    /\ In(StampSt, Upgrade(5)) /\ In(PreflightSt, Upgrade(5)) /\ In(BackfillSt, Upgrade(5))
    /\ In(ThreadsSt, Upgrade(5)) /\ In(ConfirmedSt, Upgrade(5))
    /\ Shape(Upgrade(5))
<1> DEFINE w == Upgrade(5)
<1>1. /\ w \in Seq(MigrationStmt) /\ DOMAIN w = 1 .. 10
      /\ w[1] = RepliesSt /\ w[2] = Lock("targets", "exclusive")
      /\ w[3] = PreflightSt /\ w[4] = BackfillSt
      /\ w[5] = Lock("broadcasts", "exclusive") /\ w[6] = StampSt
      /\ w[7] = RepliesSt /\ w[8] = ThreadsSt
      /\ w[9] = Lock("confirmations", "define") /\ w[10] = ConfirmedSt
  BY Upgrade5
<1> HIDE DEF w
<1>2. w # <<>>
  BY <1>1
<1>3. Head(w) = RepliesSt
  BY <1>1, <1>2, HeadTail
<1>4. In(StampSt, w) /\ In(PreflightSt, w) /\ In(BackfillSt, w) /\ In(ThreadsSt, w)
      /\ In(ConfirmedSt, w)
  BY <1>1 DEF In
<1>5. RepliesSt.do = "lock" /\ Lock("targets", "exclusive").do = "lock"
      /\ Lock("broadcasts", "exclusive").do = "lock" /\ Lock("confirmations", "define").do = "lock"
  BY Kindly DEF RepliesSt
<1>6. /\ w[1].do = "lock" /\ w[2].do = "lock" /\ w[3].do = "preflight" /\ w[4].do = "backfill"
      /\ w[5].do = "lock" /\ w[6].do = "stamp" /\ w[7].do = "lock" /\ w[8].do = "threads"
      /\ w[9].do = "lock" /\ w[10].do = "confirmed"
  BY <1>1, <1>5, Kindly
<1>7. \A i \in 1 .. 10 : w[i].do = "backfill" => i = 4
  BY <1>6
<1>8. \A i \in 1 .. 10 : w[i].do = "preflight" => i = 3
  BY <1>6
<1>9. Shape(w)
  BY <1>1, <1>7, <1>8 DEF Shape
<1> QED
  BY <1>2, <1>3, <1>4, <1>9 DEF w

\* Every upgrade with something to do checks and stamps the version; from before 4 it
\* rewrites the accounts.
LEMMA UpgradeContents ==
    ASSUME NEW from \in Revision, from < Head7
    PROVE  /\ In(StampSt, Upgrade(from))
           /\ from < 4 => In(Lock("accounts", "exclusive"), Upgrade(from))
           /\ from >= 5 => In(RepliesSt, Upgrade(from))
<1> DEFINE n == from + 1
<1>1. n \in 1 .. 7 /\ from \in 0 .. 6
  BY DEF Revision, Head7
<1>2. Ups(n, from) = UpgradeTo[n] \o Stamp
  BY <1>1 DEF Ups
<1>3. Stamp \in Seq(MigrationStmt) /\ In(StampSt, Stamp) /\ StampSt \in Stmt
  BY MigrationStmts, Written DEF Stamp, StampSt, In, MigrationStmt
<1>4. UpgradeTo[n] \in Seq(MigrationStmt)
  BY <1>1, PartTypes
<1>5. In(StampSt, Ups(n, from))
  <2> HIDE DEF n
  <2> QED
    BY <1>2, <1>3, <1>4, InCat
<1>6. In(StampSt, Upgrade(from))
  BY <1>1, <1>3, <1>5, UpgradeParts
<1>7. ASSUME from < 4
      PROVE  In(Lock("accounts", "exclusive"), Upgrade(from))
  <2> DEFINE a == Lock("accounts", "exclusive")
  <2>1. a \in Stmt /\ In(a, UpgradeTo[4])
    BY MigrationStmts DEF In, UpgradeTo, AddSessions, TypeAccounts, AddBroadcasts,
                          EnforceThreads, MigrationStmt, Table, Mode
  <2>2. UpgradeTo[4] \in Seq(MigrationStmt) /\ <<>> \in Seq(MigrationStmt)
    BY PartTypes, Written
  <2>3. Ups(4, from) = UpgradeTo[4] \o Stamp \/ Ups(4, from) = UpgradeTo[4] \o <<>>
    <3>1. CASE from = 3
      <4>1. ~(4 <= from) /\ 4 = from + 1
        BY <3>1
      <4> QED
        BY <4>1 DEF Ups
    <3>2. CASE from # 3
      <4>1. ~(4 <= from) /\ 4 # from + 1
        BY <1>1, <1>7, <3>2
      <4> QED
        BY <4>1 DEF Ups
    <3> QED
      BY <3>1, <3>2
  <2> HIDE DEF a
  <2>4. In(a, Ups(4, from))
    BY <1>3, <2>1, <2>2, <2>3, InCat
  <2>5. 4 \in 1 .. 7
    OBVIOUS
  <2> QED
    BY <2>1, <2>4, <2>5, UpgradeParts DEF a
<1>8. ASSUME from >= 5
      PROVE  In(RepliesSt, Upgrade(from))
  <2>1. from = 5 \/ from = 6
    BY <1>1, <1>8
  <2>2. In(RepliesSt, Upgrade(5))
    BY Upgrade5 DEF In
  <2>3. In(RepliesSt, Upgrade(6))
    <3> DEFINE u == Upgrade(6)
    <3>1. u \in Seq(MigrationStmt) /\ u # <<>> /\ Head(u) = RepliesSt
      BY Upgrade6, UpgradeParts DEF Revision, Head7
    <3> HIDE DEF u
    <3>2. In(RepliesSt, u)
      BY <3>1, InTail
    <3> QED
      BY <3>2 DEF u
  <2> QED
    BY <2>1, <2>2, <2>3
<1> QED
  BY <1>6, <1>7, <1>8

\* So does a downgrade; back from 5 or later it has locked the replies, to before 4 it has
\* checked the accounts.
LEMMA DowngradeContents ==
    ASSUME NEW from \in Revision, NEW to \in 3 .. Head7, from > to
    PROVE  /\ In(StampSt, Downgrade(from, to))
           /\ from >= 5 => In(RepliesSt, Downgrade(from, to))
           /\ to < 4 => In(UntypeSt, Downgrade(from, to))
<1>1. from \in 4 .. 7 /\ to \in Revision /\ from \in 1 .. 7
  BY DEF Revision, Head7
<1>2. Downs(from, from, to) = DowngradeFrom[from] \o Stamp
  BY <1>1 DEF Downs
<1>3. Stamp \in Seq(MigrationStmt) /\ In(StampSt, Stamp) /\ StampSt \in Stmt
  BY MigrationStmts, Written DEF Stamp, StampSt, In, MigrationStmt
<1>4. DowngradeFrom[from] \in Seq(MigrationStmt)
  BY <1>1, PartTypes
<1>5. In(StampSt, Downs(from, from, to))
  BY <1>2, <1>3, <1>4, InCat
<1>6. In(StampSt, Downgrade(from, to))
  BY <1>1, <1>3, <1>5, DowngradeParts
<1>7. ASSUME from >= 5
      PROVE  In(RepliesSt, Downgrade(from, to))
  <2>1. from = 5 \/ from = 6 \/ from = 7
    BY <1>1, <1>7
  <2>2. DowngradeFrom[5][1] = RepliesSt /\ DowngradeFrom[6][1] = RepliesSt
        /\ DowngradeFrom[7][3] = RepliesSt
        /\ 1 \in DOMAIN DowngradeFrom[5] /\ 1 \in DOMAIN DowngradeFrom[6]
        /\ 3 \in DOMAIN DowngradeFrom[7]
    BY DEF DowngradeFrom, UntypeAccounts, DropBroadcasts, UnscopeReplies, ReleaseThreads, RepliesSt
  <2>3. In(RepliesSt, DowngradeFrom[5]) /\ In(RepliesSt, DowngradeFrom[6])
        /\ In(RepliesSt, DowngradeFrom[7])
    BY <2>2 DEF In
  <2>4. In(RepliesSt, DowngradeFrom[from])
    BY <2>1, <2>3
  <2>5. In(RepliesSt, Downs(from, from, to))
    BY <1>2, <1>3, <1>4, <2>4, InCat
  <2>6. RepliesSt \in Stmt
    BY MigrationStmts DEF RepliesSt, Table, Mode, MigrationStmt
  <2> QED
    BY <1>1, <2>5, <2>6, DowngradeParts
<1>8. ASSUME to < 4
      PROVE  In(UntypeSt, Downgrade(from, to))
  <2>1. DowngradeFrom[4] = <<UntypeSt>>
    BY DEF DowngradeFrom, UntypeAccounts, DropBroadcasts, UnscopeReplies, ReleaseThreads, UntypeSt
  <2>2. DowngradeFrom[4] \in Seq(MigrationStmt) /\ <<>> \in Seq(MigrationStmt)
        /\ UntypeSt \in Stmt
    BY PartTypes, Written, MigrationStmts DEF MigrationStmt
  <2>3. In(UntypeSt, DowngradeFrom[4])
    BY <2>1 DEF In
  <2>4. \/ Downs(4, from, to) = DowngradeFrom[4] \o Stamp
        \/ Downs(4, from, to) = DowngradeFrom[4] \o <<>>
    <3>1. 4 \in to + 1 .. from
      BY <1>1, <1>8 DEF Head7
    <3>2. CASE from = 4
      <4>1. Downs(4, from, to) = DowngradeFrom[4] \o Stamp
        BY <3>1, <3>2 DEF Downs
      <4> QED
        BY <4>1
    <3>3. CASE from # 4
      <4>1. Downs(4, from, to) = DowngradeFrom[4] \o <<>>
        BY <3>1, <3>3 DEF Downs
      <4> QED
        BY <4>1
    <3> QED
      BY <3>2, <3>3
  <2>5. In(UntypeSt, Downs(4, from, to))
    BY <1>3, <2>2, <2>3, <2>4, InCat
  <2>6. 4 \in 4 .. 7
    OBVIOUS
  <2> QED
    BY <1>1, <2>2, <2>5, <2>6, DowngradeParts
<1> QED
  BY <1>6, <1>7, <1>8

-----------------------------------------------------------------------------
(* What a seed executes: two statements for every item of its plan. *)

LookSt(item) == Do("look", TableOf(item), "share", item)

\* Where an item stands in the longest plan, and so in every one that has it.
Rank(item) == CHOOSE i \in DOMAIN Plan(TRUE) : Plan(TRUE)[i] = item

SeedKinds == {"look", "insert"}
SeedStmt == {st \in Stmt : st.do \in SeedKinds}

LEMMA PlanFacts ==
    ASSUME NEW dev \in BOOLEAN
    PROVE  /\ Plan(dev) \in Seq(Item)
           /\ DOMAIN Plan(dev) \subseteq DOMAIN Plan(TRUE)
           /\ \A i \in DOMAIN Plan(dev) : Plan(dev)[i] = Plan(TRUE)[i]
           /\ \A i, j \in DOMAIN Plan(TRUE) : Plan(TRUE)[i] = Plan(TRUE)[j] => i = j
           /\ \A item \in Item : \E i \in DOMAIN Plan(TRUE) : Plan(TRUE)[i] = item
<1> DEFINE P == POSITION_NAMES
           n == Len(P)
           a == <<ClassGroup>>
           b == a \o P
           c == <<DevGroup, Student, Teacher>>
           t == b \o c
<1>1. /\ P \in Seq(Item) /\ n \in Nat /\ DOMAIN P = 1 .. n
      /\ a \in Seq(Item) /\ c \in Seq(Item) /\ <<>> \in Seq(Item)
  <2>1. Position \subseteq Item
    BY DEF Item
  <2>2. P \in Seq(Position)
    BY ItemAssumption
  <2>3. P \in Seq(Item)
    BY <2>1, <2>2, SeqMonotonic
  <2>4. ClassGroup \in Item /\ DevGroup \in Item /\ Student \in Item /\ Teacher \in Item
    BY DEF Item
  <2> QED
    BY <2>3, <2>4, LenProperties
<1>2. /\ \A i, j \in 1 .. n : P[i] = P[j] => i = j
      /\ \A i \in 1 .. n : P[i] \in Position
      /\ \A x \in Position : \E i \in 1 .. n : P[i] = x
  BY <1>1, ItemAssumption DEF Position
<1>3. Len(a) = 1 /\ a[1] = ClassGroup /\ Len(c) = 3 /\ c[1] = DevGroup /\ c[2] = Student
      /\ c[3] = Teacher
  OBVIOUS
<1> HIDE DEF P, n, a, c
<1>4. /\ b \in Seq(Item) /\ Len(b) = n + 1 /\ b[1] = ClassGroup
      /\ \A i \in 2 .. n + 1 : b[i] = P[i - 1]
  <2>1. /\ b \in Seq(Item) /\ Len(b) = Len(a) + Len(P)
        /\ \A i \in 1 .. Len(a) + Len(P) : b[i] = IF i <= Len(a) THEN a[i] ELSE P[i - Len(a)]
    BY <1>1, ConcatProperties
  <2> HIDE DEF b
  <2>2. Len(P) = n
    BY DEF n
  <2> QED
    BY <1>1, <1>3, <2>1, <2>2
<1> HIDE DEF b
<1>5. /\ t \in Seq(Item) /\ DOMAIN t = 1 .. n + 4
      /\ \A i \in 1 .. n + 1 : t[i] = b[i]
      /\ t[n + 2] = DevGroup /\ t[n + 3] = Student /\ t[n + 4] = Teacher
  <2>1. /\ t \in Seq(Item) /\ Len(t) = (n + 1) + 3
        /\ \A i \in 1 .. (n + 1) + 3 : t[i] = IF i <= n + 1 THEN b[i] ELSE c[i - (n + 1)]
    <3>1. /\ t \in Seq(Item) /\ Len(t) = Len(b) + Len(c)
          /\ \A i \in 1 .. Len(b) + Len(c) : t[i] = IF i <= Len(b) THEN b[i] ELSE c[i - Len(b)]
      BY <1>1, <1>4, ConcatProperties
    <3> HIDE DEF t
    <3> QED
      BY <1>3, <1>4, <3>1
  <2> HIDE DEF t
  <2>2. DOMAIN t = 1 .. n + 4
    BY <1>1, <2>1, LenProperties
  <2>3. \A i \in 1 .. n + 1 : t[i] = b[i]
    BY <1>1, <2>1
  <2>4. t[n + 2] = c[(n + 2) - (n + 1)] /\ t[n + 3] = c[(n + 3) - (n + 1)]
        /\ t[n + 4] = c[(n + 4) - (n + 1)]
    BY <1>1, <2>1
  <2>5. (n + 2) - (n + 1) = 1 /\ (n + 3) - (n + 1) = 2 /\ (n + 4) - (n + 1) = 3
    BY <1>1
  <2> QED
    BY <1>3, <2>1, <2>2, <2>3, <2>4, <2>5
<1>6. Plan(TRUE) = t /\ Plan(FALSE) = b
  <2>1. Plan(TRUE) = t
    BY DEF Plan, t, b, a, P, c
  <2>2. Plan(FALSE) = b \o <<>>
    BY DEF Plan, b, a, P
  <2> QED
    BY <1>4, <2>1, <2>2, ConcatEmptySeq
<1> HIDE DEF t
<1>7. DOMAIN b = 1 .. n + 1
  BY <1>4, LenProperties
<1>8. ASSUME NEW i \in 1 .. n + 4, NEW j \in 1 .. n + 4, t[i] = t[j]
      PROVE  i = j
  <2>1. \A k \in 1 .. n + 4 :
          \/ k = 1 /\ t[k] = ClassGroup
          \/ k \in 2 .. n + 1 /\ k - 1 \in 1 .. n /\ t[k] = P[k - 1] /\ t[k] \in Position
          \/ k = n + 2 /\ t[k] = DevGroup
          \/ k = n + 3 /\ t[k] = Student
          \/ k = n + 4 /\ t[k] = Teacher
    <3> TAKE k \in 1 .. n + 4
    <3>1. CASE k = 1
      BY <1>1, <1>4, <1>5, <3>1
    <3>2. CASE k \in 2 .. n + 1
      <4>1. k - 1 \in 1 .. n /\ k \in 1 .. n + 1
        BY <1>1, <3>2
      <4> QED
        BY <1>2, <1>4, <1>5, <3>2, <4>1
    <3>3. CASE k \in {n + 2, n + 3, n + 4}
      BY <1>5, <3>3
    <3>4. k = 1 \/ k \in 2 .. n + 1 \/ k \in {n + 2, n + 3, n + 4}
      BY <1>1
    <3> QED
      BY <3>1, <3>2, <3>3, <3>4
  <2>2. /\ ClassGroup \notin Position /\ DevGroup \notin Position /\ Student \notin Position
        /\ Teacher \notin Position /\ ClassGroup # DevGroup /\ Student # Teacher
        /\ ClassGroup # Student /\ ClassGroup # Teacher /\ DevGroup # Student
        /\ DevGroup # Teacher
    BY ItemAssumption
  <2>3. CASE t[i] \in Position
    <3>1. i - 1 \in 1 .. n /\ j - 1 \in 1 .. n /\ P[i - 1] = P[j - 1]
      BY <1>8, <2>1, <2>2, <2>3
    <3>2. i - 1 = j - 1
      BY <1>2, <3>1
    <3> QED
      BY <1>1, <3>2
  <2>4. CASE t[i] \notin Position
    BY <1>8, <2>1, <2>2, <2>4
  <2> QED
    BY <2>3, <2>4
<1>9. ASSUME NEW item \in Item
      PROVE  \E i \in 1 .. n + 4 : t[i] = item
  <2>1. CASE item \in Position
    <3>1. PICK k \in 1 .. n : P[k] = item
      BY <1>2, <2>1
    <3>2. k + 1 \in 2 .. n + 1 /\ (k + 1) - 1 = k /\ k + 1 \in 1 .. n + 1 /\ k + 1 \in 1 .. n + 4
      BY <1>1
    <3>3. t[k + 1] = item
      BY <1>4, <1>5, <3>1, <3>2
    <3> QED
      BY <3>2, <3>3
  <2>2. CASE item \in {ClassGroup, DevGroup, Student, Teacher}
    <3>1. 1 \in 1 .. n + 1 /\ 1 \in 1 .. n + 4 /\ n + 2 \in 1 .. n + 4 /\ n + 3 \in 1 .. n + 4
          /\ n + 4 \in 1 .. n + 4
      BY <1>1
    <3>2. t[1] = ClassGroup
      BY <1>4, <1>5, <3>1
    <3> QED
      BY <1>5, <2>2, <3>1, <3>2
  <2> QED
    BY <2>1, <2>2 DEF Item
<1>10. DOMAIN b \subseteq DOMAIN t /\ \A i \in DOMAIN b : b[i] = t[i]
  <2>1. 1 .. n + 1 \subseteq 1 .. n + 4
    BY <1>1
  <2> QED
    BY <1>5, <1>7, <2>1
<1>11. Plan(dev) = t \/ Plan(dev) = b
  BY <1>6
<1> QED
  BY <1>4, <1>5, <1>6, <1>8, <1>9, <1>10, <1>11

LEMMA RankFacts ==
    ASSUME NEW dev \in BOOLEAN
    PROVE  /\ \A i \in DOMAIN Plan(dev) : Plan(dev)[i] \in Item /\ Rank(Plan(dev)[i]) = i
           /\ \A item \in Item : Rank(item) \in Nat
           /\ \A item \in Item : Rank(item) \in DOMAIN Plan(TRUE)
           /\ \A x, y \in Item : Rank(x) = Rank(y) => x = y
           /\ \E n \in Nat : DOMAIN Plan(dev) = 1 .. n /\ Len(Plan(dev)) = n
<1>1. \A item \in Item : Rank(item) \in DOMAIN Plan(TRUE) /\ Plan(TRUE)[Rank(item)] = item
  BY PlanFacts DEF Rank
<1>2. \A i, j \in DOMAIN Plan(TRUE) : Plan(TRUE)[i] = Plan(TRUE)[j] => i = j
  BY PlanFacts
<1>3. /\ Plan(dev) \in Seq(Item) /\ Plan(TRUE) \in Seq(Item)
      /\ DOMAIN Plan(dev) \subseteq DOMAIN Plan(TRUE)
      /\ \A i \in DOMAIN Plan(dev) : Plan(dev)[i] = Plan(TRUE)[i]
  BY PlanFacts
<1>4. /\ DOMAIN Plan(dev) = 1 .. Len(Plan(dev)) /\ Len(Plan(dev)) \in Nat
      /\ DOMAIN Plan(TRUE) = 1 .. Len(Plan(TRUE))
      /\ \A i \in 1 .. Len(Plan(dev)) : Plan(dev)[i] \in Item
  BY <1>3, LenProperties, ElementOfSeq
<1>5. ASSUME NEW i \in DOMAIN Plan(dev)
      PROVE  Plan(dev)[i] \in Item /\ Rank(Plan(dev)[i]) = i
  <2>1. Plan(dev)[i] \in Item
    BY <1>4
  <2>2. i \in DOMAIN Plan(TRUE) /\ Plan(dev)[i] = Plan(TRUE)[i]
    BY <1>3
  <2> QED
    BY <1>1, <1>2, <2>1, <2>2
<1>6. \A item \in Item : Rank(item) \in Nat
  <2> TAKE item \in Item
  <2>1. Rank(item) \in 1 .. Len(Plan(TRUE))
    BY <1>1, <1>4
  <2> QED
    BY <2>1
<1> QED
  BY <1>1, <1>4, <1>5, <1>6

\* What is still to be executed of a seed goes through its plan: no look without its
\* insert behind it, no insert without its look before, no item that came before.
SeedShape(s) ==
    /\ \A i \in DOMAIN s :
          /\ s[i].arg \in Item
          /\ s[i] = LookSt(s[i].arg) \/ s[i] = InsertSt(s[i].arg)
          /\ s[i].do = "look" => i + 1 \in DOMAIN s /\ s[i + 1] = InsertSt(s[i].arg)
          /\ s[i].do = "insert" /\ i + 1 \in DOMAIN s => s[i + 1].do = "look"
    /\ \A i, j \in DOMAIN s : i < j =>
          /\ Rank(s[i].arg) <= Rank(s[j].arg)
          /\ s[i].do = "insert" => Rank(s[i].arg) < Rank(s[j].arg)

LEMMA SeedStmts ==
    ASSUME NEW item \in Item
    PROVE  /\ LookSt(item) \in SeedStmt /\ LookSt(item).do = "look" /\ LookSt(item).arg = item
           /\ LookSt(item).table = TableOf(item) /\ LookSt(item).mode = "share"
           /\ InsertSt(item) \in SeedStmt /\ InsertSt(item).do = "insert"
           /\ InsertSt(item).arg = item /\ InsertSt(item).table = TableOf(item)
           /\ InsertSt(item).mode = "write"
<1>1. TableOf(item) \in Table
  BY DEF TableOf, Table
<1>2. LookSt(item) \in Stmt /\ InsertSt(item) \in Stmt
  BY <1>1, DoType DEF LookSt, InsertSt, Kind, Mode
<1> QED
  BY <1>2 DEF LookSt, InsertSt, SeedStmt, SeedKinds, Do

LEMMA SeedProgramFacts ==
    ASSUME NEW dev \in BOOLEAN
    PROVE  /\ SeedProgram(dev) \in Seq(SeedStmt)
           /\ SeedShape(SeedProgram(dev))
           /\ \A k \in DOMAIN Plan(dev) : In(InsertSt(Plan(dev)[k]), SeedProgram(dev))
           /\ SeedProgram(dev) # <<>> => Head(SeedProgram(dev)).do = "look"
<1> DEFINE plan == Plan(dev)
           n == Len(plan)
           half(i) == (i + 1) \div 2
           f == SeedProgram(dev)
<1>1. /\ n \in Nat /\ DOMAIN plan = 1 .. n
      /\ \A k \in 1 .. n : plan[k] \in Item /\ Rank(plan[k]) = k
  BY RankFacts
<1>2. f = [i \in 1 .. 2 * n |-> Ensure(plan[half(i)])[2 - (i % 2)]]
  BY DEF SeedProgram
<1>3. \A i \in 1 .. 2 * n :
          /\ half(i) \in 1 .. n
          /\ \/ i % 2 = 1 /\ i = 2 * half(i) - 1
             \/ i % 2 = 0 /\ i = 2 * half(i)
  BY <1>1
<1>4. \A item \in Item : Ensure(item)[1] = LookSt(item) /\ Ensure(item)[2] = InsertSt(item)
  BY DEF Ensure, LookSt, InsertSt
<1>5. \A i \in 1 .. 2 * n :
          /\ i = 2 * half(i) - 1 => f[i] = LookSt(plan[half(i)])
          /\ i = 2 * half(i) => f[i] = InsertSt(plan[half(i)])
  <2> TAKE i \in 1 .. 2 * n
  <2>1. f[i] = Ensure(plan[half(i)])[2 - (i % 2)]
    BY <1>2
  <2>2. plan[half(i)] \in Item
    BY <1>1, <1>3
  <2>3. i = 2 * half(i) - 1 => 2 - (i % 2) = 1
    BY <1>3
  <2>4. i = 2 * half(i) => 2 - (i % 2) = 2
    BY <1>3
  <2> HIDE DEF f, half, plan
  <2> QED
    BY <1>4, <2>1, <2>2, <2>3, <2>4
<1>6. /\ DOMAIN f = 1 .. 2 * n
      /\ f = [i \in 1 .. 2 * n |-> f[i]]
  BY <1>2
<1> HIDE DEF f, plan, n
<1> USE DEF half
<1>7. \A i \in 1 .. 2 * n :
          /\ half(i) \in 1 .. n
          /\ plan[half(i)] \in Item /\ Rank(plan[half(i)]) = half(i)
          /\ \/ i = 2 * half(i) - 1 /\ f[i] = LookSt(plan[half(i)])
             \/ i = 2 * half(i) /\ f[i] = InsertSt(plan[half(i)])
  BY <1>1, <1>3, <1>5
<1> HIDE DEF half
<1>8. \A i \in 1 .. 2 * n : f[i] \in SeedStmt /\ f[i].arg = plan[half(i)]
  BY <1>7, SeedStmts
<1>9. f \in Seq(SeedStmt)
  <2>1. f \in [1 .. 2 * n -> SeedStmt]
    BY <1>6, <1>8
  <2>2. 2 * n \in Nat
    BY <1>1
  <2> HIDE DEF f
  <2> QED
    BY <2>1, <2>2, SeqDef
<1>10. SeedShape(f)
  <2>1. ASSUME NEW i \in 1 .. 2 * n
        PROVE  /\ f[i].arg \in Item
               /\ f[i] = LookSt(f[i].arg) \/ f[i] = InsertSt(f[i].arg)
               /\ f[i].do = "look" => i + 1 \in 1 .. 2 * n /\ f[i + 1] = InsertSt(f[i].arg)
               /\ f[i].do = "insert" /\ i + 1 \in 1 .. 2 * n => f[i + 1].do = "look"
    <3>1. f[i].arg \in Item /\ (f[i] = LookSt(f[i].arg) \/ f[i] = InsertSt(f[i].arg))
      BY <1>7, <1>8
    <3>2. ASSUME f[i].do = "look"
          PROVE  i + 1 \in 1 .. 2 * n /\ f[i + 1] = InsertSt(f[i].arg)
      <4>1. i = 2 * half(i) - 1 /\ half(i) \in 1 .. n
        BY <1>7, <3>2, SeedStmts
      <4>2. i + 1 \in 1 .. 2 * n
        BY <1>1, <4>1
      <4>3. half(i + 1) \in 1 .. n /\ (i + 1 = 2 * half(i + 1) - 1 \/ i + 1 = 2 * half(i + 1))
        BY <1>7, <4>2
      <4>4. half(i + 1) = half(i) /\ i + 1 = 2 * half(i + 1)
        BY <1>1, <4>1, <4>3
      <4>5. i + 1 # 2 * half(i + 1) - 1
        BY <4>3, <4>4
      <4>6. f[i + 1] = InsertSt(plan[half(i)])
        BY <1>7, <4>2, <4>4, <4>5
      <4> QED
        BY <1>8, <4>2, <4>6
    <3>3. ASSUME f[i].do = "insert", i + 1 \in 1 .. 2 * n
          PROVE  f[i + 1].do = "look"
      <4>1. i = 2 * half(i) /\ half(i) \in 1 .. n
        BY <1>7, <3>3, SeedStmts
      <4>2. half(i + 1) \in 1 .. n /\ (i + 1 = 2 * half(i + 1) - 1 \/ i + 1 = 2 * half(i + 1))
        BY <1>7, <3>3
      <4>3. i + 1 # 2 * half(i + 1)
        BY <1>1, <4>1, <4>2
      <4>4. f[i + 1] = LookSt(plan[half(i + 1)]) /\ plan[half(i + 1)] \in Item
        BY <1>7, <3>3, <4>3
      <4> QED
        BY <4>4, SeedStmts
    <3> QED
      BY <3>1, <3>2, <3>3
  <2>2. ASSUME NEW i \in 1 .. 2 * n, NEW j \in 1 .. 2 * n, i < j
        PROVE  /\ Rank(f[i].arg) <= Rank(f[j].arg)
               /\ f[i].do = "insert" => Rank(f[i].arg) < Rank(f[j].arg)
    <3>1. Rank(f[i].arg) = half(i) /\ Rank(f[j].arg) = half(j)
      BY <1>7, <1>8
    <3>2. /\ half(i) \in 1 .. n /\ half(j) \in 1 .. n
          /\ i = 2 * half(i) - 1 \/ i = 2 * half(i)
          /\ j = 2 * half(j) - 1 \/ j = 2 * half(j)
      BY <1>7
    <3>3. half(i) <= half(j) /\ (i = 2 * half(i) => half(i) < half(j))
      BY <1>1, <2>2, <3>2
    <3>4. f[i].do = "insert" => i = 2 * half(i)
      BY <1>7, SeedStmts
    <3> QED
      BY <3>1, <3>3, <3>4
  <2> QED
    BY <1>6, <2>1, <2>2 DEF SeedShape
<1>11. ASSUME NEW k \in 1 .. n
       PROVE  In(InsertSt(plan[k]), f)
  <2>1. 2 * k \in 1 .. 2 * n
    BY <1>1
  <2>2. half(2 * k) \in 1 .. n /\ (2 * k = 2 * half(2 * k) - 1 \/ 2 * k = 2 * half(2 * k))
    BY <1>7, <2>1
  <2>3. half(2 * k) = k /\ 2 * k # 2 * half(2 * k) - 1
    BY <1>1, <2>2
  <2>4. f[2 * k] = InsertSt(plan[k])
    BY <1>7, <2>1, <2>3
  <2> QED
    BY <1>6, <2>1, <2>4 DEF In
<1>12. ASSUME f # <<>>
       PROVE  Head(f).do = "look"
  <2>1. Head(f) = f[1] /\ 1 \in 1 .. 2 * n
    <3>1. Len(f) \in Nat \ {0} /\ DOMAIN f = 1 .. Len(f) /\ Head(f) = f[1]
      BY <1>9, <1>12, HeadTail
    <3>2. 1 \in DOMAIN f
      BY <3>1
    <3> QED
      BY <1>6, <3>1, <3>2
  <2>2. half(1) \in 1 .. n /\ (1 = 2 * half(1) - 1 \/ 1 = 2 * half(1))
    BY <1>7, <2>1
  <2>3. 1 # 2 * half(1)
    BY <1>1, <2>2
  <2>4. f[1] = LookSt(plan[half(1)]) /\ plan[half(1)] \in Item
    BY <1>7, <2>1, <2>3
  <2> QED
    BY <2>1, <2>4, SeedStmts
<1> QED
  BY <1>1, <1>9, <1>10, <1>11, <1>12 DEF f, plan, n

\* What is left of a seed or of an upgrade has the same shape after every statement.
LEMMA SeedShapeTail ==
    ASSUME NEW s \in Seq(SeedStmt), s # <<>>, SeedShape(s)
    PROVE  SeedShape(Tail(s))
<1> DEFINE t == Tail(s)
<1>1. /\ Len(s) \in Nat \ {0} /\ DOMAIN s = 1 .. Len(s) /\ DOMAIN t = 1 .. Len(s) - 1
      /\ \A i \in 1 .. Len(s) - 1 : t[i] = s[i + 1]
  BY HeadTail
<1> HIDE DEF t
<1>2. \A i \in 1 .. Len(s) - 1 : i + 1 \in 1 .. Len(s)
  BY <1>1
<1>3. ASSUME NEW i \in DOMAIN t
      PROVE  /\ t[i].arg \in Item
             /\ t[i] = LookSt(t[i].arg) \/ t[i] = InsertSt(t[i].arg)
             /\ t[i].do = "look" => i + 1 \in DOMAIN t /\ t[i + 1] = InsertSt(t[i].arg)
             /\ t[i].do = "insert" /\ i + 1 \in DOMAIN t => t[i + 1].do = "look"
  <2>1. i \in 1 .. Len(s) - 1 /\ t[i] = s[i + 1] /\ i + 1 \in DOMAIN s
    BY <1>1, <1>2, <1>3
  <2>2. t[i].do = "look" => (i + 1) + 1 \in DOMAIN s /\ s[(i + 1) + 1] = InsertSt(t[i].arg)
    BY <2>1 DEF SeedShape
  <2>3. (i + 1) + 1 \in DOMAIN s => i + 1 \in DOMAIN t /\ t[i + 1] = s[(i + 1) + 1]
    BY <1>1, <2>1
  <2>4. t[i].arg \in Item /\ (t[i] = LookSt(t[i].arg) \/ t[i] = InsertSt(t[i].arg))
    BY <2>1 DEF SeedShape
  <2>5. ASSUME t[i].do = "insert", i + 1 \in DOMAIN t
        PROVE  t[i + 1].do = "look"
    <3>1. (i + 1) + 1 \in DOMAIN s /\ t[i + 1] = s[(i + 1) + 1]
      BY <1>1, <1>2, <2>1, <2>5
    <3> QED
      BY <2>1, <2>5, <3>1 DEF SeedShape
  <2> QED
    BY <2>2, <2>3, <2>4, <2>5
<1>4. ASSUME NEW i \in DOMAIN t, NEW j \in DOMAIN t, i < j
      PROVE  /\ Rank(t[i].arg) <= Rank(t[j].arg)
             /\ t[i].do = "insert" => Rank(t[i].arg) < Rank(t[j].arg)
  <2>1. /\ i + 1 \in DOMAIN s /\ j + 1 \in DOMAIN s /\ i + 1 < j + 1
        /\ t[i] = s[i + 1] /\ t[j] = s[j + 1]
    BY <1>1, <1>2, <1>4
  <2> QED
    BY <2>1 DEF SeedShape
<1> QED
  BY <1>3, <1>4 DEF SeedShape, t

LEMMA ShapeTail ==
    ASSUME NEW S, NEW s \in Seq(S), s # <<>>, Shape(s)
    PROVE  Shape(Tail(s))
<1> DEFINE t == Tail(s)
<1>1. /\ Len(s) \in Nat \ {0} /\ DOMAIN s = 1 .. Len(s) /\ DOMAIN t = 1 .. Len(s) - 1
      /\ \A i \in 1 .. Len(s) - 1 : t[i] = s[i + 1]
  BY HeadTail
<1> HIDE DEF t
<1>2. \A i \in 1 .. Len(s) - 1 : i + 1 \in 1 .. Len(s)
  BY <1>1
<1>3. ASSUME NEW i \in DOMAIN t, t[i].do = "backfill"
      PROVE  /\ \E k \in DOMAIN t : k > i /\ t[k] = ThreadsSt
             /\ \A k \in DOMAIN t : k > i => t[k].do # "preflight"
  <2>1. i \in 1 .. Len(s) - 1 /\ t[i] = s[i + 1] /\ i + 1 \in DOMAIN s
    BY <1>1, <1>2, <1>3
  <2>2. PICK k \in DOMAIN s : k > i + 1 /\ s[k] = ThreadsSt
    BY <1>3, <2>1 DEF Shape
  <2>3. k - 1 \in 1 .. Len(s) - 1 /\ (k - 1) + 1 = k /\ k - 1 > i
    BY <1>1, <2>1, <2>2
  <2>4. t[k - 1] = ThreadsSt
    BY <1>1, <2>2, <2>3
  <2>5. ASSUME NEW h \in DOMAIN t, h > i
        PROVE  t[h].do # "preflight"
    <3>1. h + 1 \in DOMAIN s /\ h + 1 > i + 1 /\ t[h] = s[h + 1]
      BY <1>1, <1>2, <2>1, <2>5
    <3> QED
      BY <1>3, <2>1, <3>1 DEF Shape
  <2> QED
    BY <1>1, <2>3, <2>4, <2>5
<1> QED
  BY <1>3 DEF Shape, t

\* Programs are made of the statements of their jobs.
LEMMA ProgramType ==
    ASSUME NEW j \in Job, NEW from \in Revision
    PROVE  Program(j, from) \in Seq(StmtOf(j))
<1>1. CASE j.op = "seed"
  <2>1. j.dev \in BOOLEAN
    BY <1>1, JobAssumption
  <2>2. SeedProgram(j.dev) \in Seq(SeedStmt)
    BY <2>1, SeedProgramFacts
  <2>3. StmtOf(j) = SeedStmt
    BY <1>1 DEF StmtOf, Kinds, SeedStmt, SeedKinds
  <2>4. Program(j, from) = SeedProgram(j.dev)
    BY <1>1 DEF Program
  <2> QED
    BY <2>2, <2>3, <2>4
<1>2. CASE j.op = "upgrade"
  <2>1. StmtOf(j) = MigrationStmt /\ Program(j, from) = Upgrade(from)
    BY <1>2 DEF StmtOf, Kinds, MigrationStmt, MigrationKinds, Program
  <2> QED
    BY <2>1, UpgradeParts
<1>3. CASE j.op = "downgrade"
  <2>1. StmtOf(j) = MigrationStmt /\ Program(j, from) = Downgrade(from, j.to)
    BY <1>3 DEF StmtOf, Kinds, MigrationStmt, MigrationKinds, Program
  <2>2. j.to \in Revision
    BY <1>3, JobAssumption DEF Revision, Head7
  <2> QED
    BY <2>1, <2>2, DowngradeParts
<1>4. CASE j.op \in {"legacy", "reply"}
  <2> DEFINE S == StmtOf(j)
             a == Lock("targets", "share")
             b == Do("parent", "replies", "share", "none")
             c == ReplySt
             d == Lock(IF j.op = "legacy" THEN "broadcasts" ELSE "targets", "share")
  <2>1. Program(j, from) = <<a, b, c, d>>
    BY <1>4 DEF Program, ReplyProgram, ReplySt
  <2>2. Kinds(j) = {"lock", "parent", "reply"}
    BY <1>4 DEF Kinds
  <2>3. a \in S /\ b \in S /\ c \in S /\ d \in S
    BY <2>2, DoType DEF StmtOf, Lock, ReplySt, Kind, Table, Mode
  <2> HIDE DEF S, a, b, c, d
  <2>4. <<a, b, c, d>> \in Seq(S)
    BY <2>3, Written
  <2> QED
    BY <2>1, <2>4 DEF S
<1> QED
  BY <1>1, <1>2, <1>3, <1>4, JobAssumption

\* A writer locks the replies for writing.
LEMMA WriterContents ==
    ASSUME NEW j \in Job, j.op \in {"legacy", "reply"}, NEW from
    PROVE  In(ReplySt, Program(j, from))
<1>1. Program(j, from) = ReplyProgram(j)
  BY DEF Program
<1>2. DOMAIN ReplyProgram(j) = 1 .. 4 /\ ReplyProgram(j)[3] = ReplySt
  BY DEF ReplyProgram, ReplySt
<1> QED
  BY <1>1, <1>2 DEF In

-----------------------------------------------------------------------------
(* The steps of a transaction. *)

Writer(j) == j.op \in {"legacy", "reply"}

Unambiguous == \A x \in replies : Cardinality(TargetsOf[x.broadcast]) = 1

UniqueAccounts ==
    \A x, y \in rows : TableOf(x.item) = "accounts" /\ x.item = y.item => x = y

NewReply(p) ==
    LET j == job[p]
    IN  [id |-> p, broadcast |-> j.broadcast, ref |-> j.ref, given |-> j.group,
         group |-> j.group]

\* What holds when the next statement of p is executed and not refused.
Allowed(p) ==
    LET j == job[p]
        x == NewReply(p)
    IN
    /\ Now(p).do = "stamp" => revision = start[p]
    /\ Now(p).do = "preflight" => Unambiguous
    /\ Now(p).do = "threads" => ThreadsValid(Draft(p))
    /\ Now(p).do = "confirmed" =>
          \A c \in confirmations : c[1] \in broadcasts /\ c[2] \in TargetsOf[c[1]]
    /\ Now(p).do = "untype" => UniqueAccounts
    /\ Now(p).do = "insert" =>
          /\ Visible(Now(p).arg)
          /\ \A y \in rows : ~SameKey(NewRow(p, Now(p).arg), y)
    /\ Now(p).do = "reply" =>
          /\ IF j.op = "legacy" THEN revision = 5
             ELSE revision >= 6 /\ j.group \in TargetsOf[j.broadcast]
          /\ j.broadcast \in broadcasts
          /\ j.ref # Nobody => \E y \in replies : y.id = j.ref /\ (revision < 7 \/ SameThread(x, y))

\* What p writes with it.
Writes(p, written) ==
    /\ Now(p).do = "insert" => written = mine[p] \union {NewRow(p, Now(p).arg)}
    /\ Now(p).do = "backfill" =>
          \E f \in Backfilled(replies) : written = {[x EXCEPT !.group = f[x]] : x \in replies}
    /\ Now(p).do = "reply" => written = {NewReply(p)}
    /\ Now(p).do \notin {"insert", "backfill", "reply"} => written = mine[p]

\* What p is left with.
Leaves(p, statements) ==
    IF Now(p).do = "look" /\ Found(p, Now(p).arg) THEN statements = Tail(Tail(todo[p]))
    ELSE statements = Tail(todo[p])

Exec(p, statements, written) ==
    /\ state[p] = "running" /\ todo[p] # <<>> /\ Blockers(p) = {}
    /\ Proceed(p, statements, written)
    /\ Allowed(p) /\ Writes(p, written) /\ Leaves(p, statements)

\* A statement is executed, or refused, or it is the commit.
LEMMA StatementCases ==
    ASSUME NEW p \in Process, Statement(p)
    PROVE  \/ state[p] = "running" /\ Fail(p, "failed")
           \/ Commit(p)
           \/ \E statements, written : Exec(p, statements, written)
<1> DEFINE Refused == state[p] = "running" /\ Fail(p, "failed")
           Done == \E statements, written : Exec(p, statements, written)
           Goes(what) == Now(p).do = what /\ Next1(p) /\ Allowed(p) /\ Ready(p, what)
<1>1. ASSUME NEW what \in {"lock", "stamp", "preflight", "threads", "confirmed", "untype",
                           "parent"}, Goes(what)
      PROVE  Done
  <2>1. Writes(p, mine[p]) /\ Leaves(p, Tail(todo[p]))
    BY <1>1 DEF Writes, Leaves
  <2>2. Exec(p, Tail(todo[p]), mine[p])
    BY <1>1, <2>1 DEF Exec, Next1, Ready
  <2> QED
    BY <2>2
<1>2. CASE Look(p)
  <2>1. CASE ~Visible(Now(p).arg)
    BY <1>2, <2>1 DEF Look, Ready, Require
  <2>2. CASE Visible(Now(p).arg)
    <3> DEFINE s == IF Found(p, Now(p).arg) THEN Tail(Tail(todo[p])) ELSE Tail(todo[p])
    <3>1. Ready(p, "look") /\ Proceed(p, s, mine[p])
      BY <1>2, <2>2 DEF Look, Require
    <3>2. Now(p).do = "look"
      BY <3>1 DEF Ready
    <3>3. Allowed(p) /\ Writes(p, mine[p]) /\ Leaves(p, s)
      BY <3>2 DEF Allowed, Writes, Leaves
    <3>4. Exec(p, s, mine[p])
      BY <3>1, <3>3 DEF Exec, Ready
    <3> QED
      BY <3>4
  <2> QED
    BY <2>1, <2>2
<1>3. CASE Insert(p)
  <2> DEFINE x == NewRow(p, Now(p).arg)
             ok == Visible(x.item) /\ \A y \in rows : ~SameKey(x, y)
  <2>1. CASE ~ok
    BY <1>3, <2>1 DEF Insert, Ready, Require
  <2>2. CASE ok
    <3>1. Ready(p, "insert") /\ Proceed(p, Tail(todo[p]), mine[p] \union {x})
      BY <1>3, <2>2 DEF Insert, Require
    <3>2. Now(p).do = "insert"
      BY <3>1 DEF Ready
    <3>3. x.item = Now(p).arg
      BY DEF NewRow
    <3>4. Allowed(p) /\ Writes(p, mine[p] \union {x}) /\ Leaves(p, Tail(todo[p]))
      BY <2>2, <3>2, <3>3 DEF Allowed, Writes, Leaves
    <3>5. Exec(p, Tail(todo[p]), mine[p] \union {x})
      BY <3>1, <3>4 DEF Exec, Ready
    <3> QED
      BY <3>5
  <2> QED
    BY <2>1, <2>2
<1>4. CASE TakeLock(p)
  <2>1. Goes("lock")
    BY <1>4 DEF TakeLock, Ready, Allowed
  <2> QED
    BY <1>1, <2>1
<1>5. CASE StampVersion(p)
  <2>1. Refused \/ Goes("stamp")
    BY <1>5 DEF StampVersion, Ready, Require, Allowed
  <2> QED
    BY <1>1, <2>1
<1>6. CASE Preflight(p)
  <2>1. Refused \/ Goes("preflight")
    BY <1>6 DEF Preflight, Ready, Require, Allowed, Unambiguous
  <2> QED
    BY <1>1, <2>1
<1>7. CASE Backfill(p)
  <2>1. CASE Backfilled(replies) = {}
    BY <1>7, <2>1 DEF Backfill, Ready
  <2>2. CASE Backfilled(replies) # {}
    <3>1. PICK f \in Backfilled(replies) :
              Proceed(p, Tail(todo[p]), {[x EXCEPT !.group = f[x]] : x \in replies})
      BY <1>7, <2>2 DEF Backfill
    <3> DEFINE w == {[x EXCEPT !.group = f[x]] : x \in replies}
    <3>2. Ready(p, "backfill") /\ Now(p).do = "backfill"
      BY <1>7 DEF Backfill, Ready
    <3>3. Allowed(p) /\ Leaves(p, Tail(todo[p]))
      BY <3>2 DEF Allowed, Leaves
    <3>4. Writes(p, w)
      BY <3>2 DEF Writes
    <3>5. Exec(p, Tail(todo[p]), w)
      BY <3>1, <3>2, <3>3, <3>4 DEF Exec, Ready
    <3> QED
      BY <3>5
  <2> QED
    BY <2>1, <2>2
<1>8. CASE CheckThreads(p)
  <2>1. Refused \/ Goes("threads")
    BY <1>8 DEF CheckThreads, Ready, Require, Allowed
  <2> QED
    BY <1>1, <2>1
<1>9. CASE CheckConfirmed(p)
  <2>1. Refused \/ Goes("confirmed")
    BY <1>9 DEF CheckConfirmed, Ready, Require, Allowed
  <2> QED
    BY <1>1, <2>1
<1>10. CASE Untype(p)
  <2>1. Refused \/ Goes("untype")
    BY <1>10 DEF Untype, Ready, Require, Allowed, UniqueAccounts
  <2> QED
    BY <1>1, <2>1
<1>11. CASE FindParent(p)
  <2>1. Refused \/ Goes("parent")
    BY <1>11 DEF FindParent, Ready, Require, Allowed
  <2> QED
    BY <1>1, <2>1
<1>12. CASE InsertReply(p)
  <2> DEFINE j == job[p]
             x == NewReply(p)
             ok == /\ IF j.op = "legacy" THEN revision = 5
                      ELSE revision >= 6 /\ j.group \in TargetsOf[j.broadcast]
                   /\ j.broadcast \in broadcasts
                   /\ j.ref # Nobody => \E y \in ParentOf(j) : revision < 7 \/ SameThread(x, y)
  <2>1. Ready(p, "reply") /\ Require(p, ok, Proceed(p, Tail(todo[p]), {x}))
    BY <1>12 DEF InsertReply, NewReply
  <2>2. CASE ~ok
    BY <2>1, <2>2 DEF Ready, Require
  <2>3. CASE ok
    <3>1. Proceed(p, Tail(todo[p]), {x}) /\ Now(p).do = "reply"
      BY <2>1, <2>3 DEF Require, Ready
    <3>2. j.ref # Nobody => \E y \in replies : y.id = j.ref /\ (revision < 7 \/ SameThread(x, y))
      BY <2>3 DEF ParentOf
    <3>3. Allowed(p) /\ Writes(p, {x}) /\ Leaves(p, Tail(todo[p]))
      BY <2>3, <3>1, <3>2 DEF Allowed, Writes, Leaves
    <3>4. Exec(p, Tail(todo[p]), {x})
      BY <2>1, <3>1, <3>3 DEF Exec, Ready
    <3> QED
      BY <3>4
  <2> QED
    BY <2>2, <2>3
<1>13. CASE Commit(p)
  BY <1>13
<1> QED
  BY <1>2, <1>3, <1>4, <1>5, <1>6, <1>7, <1>8, <1>9, <1>10, <1>11, <1>12, <1>13 DEF Statement

\* What a commit does to the database.
Seeded(p) ==
    rows' = rows \union mine[p] /\ UNCHANGED <<revision, broadcasts, replies, confirmations>>

Replied(p) ==
    replies' = replies \union mine[p] /\ UNCHANGED <<revision, rows, broadcasts, confirmations>>

Upgraded(p) ==
    /\ revision' = Head7
    /\ rows' = IF start[p] < 4 THEN {Typed(x, "student") : x \in rows} ELSE rows
    /\ replies' = Draft(p)
    /\ UNCHANGED <<broadcasts, confirmations>>

Downgraded(p, to) ==
    /\ revision' = to
    /\ rows' = IF to < 4 THEN {Typed(x, "none") : x \in rows} ELSE rows
    /\ replies' = IF to < 5 THEN {}
                  ELSE IF to < 6 THEN {[x EXCEPT !.group = NoGroup] : x \in replies}
                  ELSE replies
    /\ broadcasts' = IF to < 5 THEN {} ELSE broadcasts
    /\ confirmations' = IF to < 5 THEN {} ELSE confirmations

LEMMA CommitCases ==
    ASSUME NEW p \in Process, Commit(p)
    PROVE  /\ state[p] = "running" /\ todo[p] = <<>> /\ End(p, "ok")
           /\ \/ job[p].op = "seed" /\ Seeded(p)
              \/ Writer(job[p]) /\ Replied(p)
              \/ job[p].op = "upgrade" /\ start[p] < Head7 /\ Upgraded(p)
              \/ job[p].op = "downgrade" /\ start[p] > job[p].to /\ Downgraded(p, job[p].to)
              \/ ~Writer(job[p]) /\ job[p].op # "seed" /\ UNCHANGED database
<1>1. state[p] = "running" /\ todo[p] = <<>> /\ End(p, "ok")
  BY DEF Commit
<1>2. CASE job[p].op = "seed"
  BY <1>2 DEF Commit, Seeded
<1>3. CASE Writer(job[p])
  BY <1>3 DEF Commit, Replied, Writer
<1>4. CASE job[p].op = "upgrade" /\ start[p] < Head7
  BY <1>4 DEF Commit, Upgraded
<1>5. CASE job[p].op = "downgrade" /\ start[p] > job[p].to
  BY <1>5 DEF Commit, Downgraded
<1>6. CASE /\ job[p].op # "seed" /\ ~Writer(job[p])
           /\ ~(job[p].op = "upgrade" /\ start[p] < Head7)
           /\ ~(job[p].op = "downgrade" /\ start[p] > job[p].to)
  BY <1>6 DEF Commit, Writer
<1> QED
  BY <1>1, <1>2, <1>3, <1>4, <1>5, <1>6

\* Transactions that wait for each other, p among them.
Deadlocked(p) ==
    \E S \in SUBSET Running : p \in S /\ \A q \in S : Blockers(q) \intersect S # {}

LEMMA Steps ==
    ASSUME [Next]_vars
    PROVE  \/ UNCHANGED vars
           \/ \E p \in Process :
                 \/ Begin(p)
                 \/ state[p] = "running" /\ Fail(p, "failed")
                 \/ state[p] = "running" /\ Deadlocked(p) /\ Fail(p, "deadlock")
                 \/ \E statements, written : Exec(p, statements, written)
                 \/ Commit(p)
<1>1. ASSUME NEW p \in Process, Statement(p)
      PROVE  \/ state[p] = "running" /\ Fail(p, "failed")
             \/ Commit(p)
             \/ \E statements, written : Exec(p, statements, written)
  BY <1>1, StatementCases
<1>2. ASSUME NEW p \in Process, Deadlock(p)
      PROVE  state[p] = "running" /\ Deadlocked(p) /\ Fail(p, "deadlock")
  BY <1>2 DEF Deadlock, Deadlocked, Running
<1>3. ASSUME NEW p \in Process, Abort(p)
      PROVE  state[p] = "running" /\ Fail(p, "failed")
  BY <1>3 DEF Abort, Running
<1> QED
  BY <1>1, <1>2, <1>3 DEF Next

-----------------------------------------------------------------------------
(* Types, locks and the version. *)

NoJob == [op |-> "none"]

MayWrite(j) == IF j.op = "seed" THEN Row ELSE Reply

LocalOK ==
    /\ job \in [Process -> Job \union {NoJob}]
    /\ held \in [Process -> SUBSET (Table \X Mode)]
    /\ todo = [p \in Process |-> todo[p]]
    /\ mine = [p \in Process |-> mine[p]]
    /\ \A p \in Process :
          /\ todo[p] \in Seq(StmtOf(job[p]))
          /\ mine[p] \subseteq MayWrite(job[p])
          /\ state[p] # "idle" => job[p] \in Job
          /\ job[p].op = "seed" => SeedShape(todo[p])

\* No two processes hold locks that are in the way of each other.
Mutex ==
    \A p, q \in Process : p # q =>
        \A l \in held[p], m \in held[q] : l[1] = m[1] => ~InTheWay(l[2], m[2])

\* What has been executed of a migration or a reply is locked until it ends.
Kept ==
    \A p \in Process : state[p] = "running" /\ job[p].op # "seed" =>
        \A st \in Stmt :
            In(st, Program(job[p], start[p])) =>
                In(st, todo[p]) \/ <<st.table, st.mode>> \in held[p]

\* Once a migration has found the version it began with nobody else changes it.
Stamped ==
    \A p \in Process :
        state[p] = "running" /\ Migrates(job[p], start[p]) /\ ~In(StampSt, todo[p]) =>
            revision = start[p]

DataTypes ==
    /\ revision \in Revision
    /\ rows \subseteq Row
    /\ broadcasts \subseteq Broadcast
    /\ replies \subseteq Reply
    /\ confirmations \subseteq Broadcast \X Group

LifeTypes ==
    /\ state \in [Process -> {"idle", "running"} \union Outcome]
    /\ start \in [Process -> Revision]
    /\ \A p \in Process :
          state[p] # "running" => held[p] = {} /\ mine[p] = {} /\ todo[p] = <<>>

Base == DataTypes /\ LifeTypes /\ LocalOK /\ Mutex /\ Kept /\ Stamped

LEMMA BaseTypes == Base => TypeOK
BY DEF Base, TypeOK, DataTypes, LifeTypes, LocalOK

LEMMA BaseInit == Init => Base
<1> SUFFICES ASSUME Init
             PROVE  Base
  OBVIOUS
<1>1. DataTypes
  BY DatabaseAssumption DEF Init, DataTypes
<1>2. LifeTypes
  BY DEF Init, LifeTypes, Revision, Head7
<1>3. LocalOK
  <2>1. \A p \in Process : todo[p] = <<>> /\ mine[p] = {} /\ job[p] = NoJob /\ state[p] = "idle"
    BY DEF Init, NoJob
  <2>2. \A S : <<>> \in Seq(S)
    BY Written
  <2>3. job \in [Process -> Job \union {NoJob}] /\ held \in [Process -> SUBSET (Table \X Mode)]
        /\ todo = [p \in Process |-> todo[p]] /\ mine = [p \in Process |-> mine[p]]
    BY DEF Init, NoJob
  <2>4. SeedShape(<<>>)
    BY DEF SeedShape
  <2> QED
    BY <2>1, <2>2, <2>3, <2>4 DEF LocalOK
<1>4. Mutex
  BY DEF Init, Mutex
<1>5. Kept /\ Stamped
  BY DEF Init, Kept, Stamped
<1> QED
  BY <1>1, <1>2, <1>3, <1>4, <1>5 DEF Base

\* The rest of the world when p moves.
Others(p) ==
    \A q \in Process \ {p} :
        /\ state'[q] = state[q] /\ job'[q] = job[q] /\ start'[q] = start[q]
        /\ todo'[q] = todo[q] /\ held'[q] = held[q] /\ mine'[q] = mine[q]

LEMMA BeginMoves ==
    ASSUME Base, NEW p \in Process, Begin(p)
    PROVE  /\ state[p] = "idle" /\ Others(p) /\ UNCHANGED database
           /\ state' = [state EXCEPT ![p] = "running"] /\ state'[p] = "running"
           /\ start' = [start EXCEPT ![p] = revision] /\ start'[p] = revision
           /\ held' = held /\ mine' = mine /\ held'[p] = {} /\ mine'[p] = {}
           /\ job'[p] \in Job /\ job' = [job EXCEPT ![p] = job'[p]]
           /\ todo'[p] = Program(job'[p], revision)
           /\ todo' = [todo EXCEPT ![p] = todo'[p]]
<1>1. PICK j \in Job : /\ job' = [job EXCEPT ![p] = j]
                       /\ todo' = [todo EXCEPT ![p] = Program(j, revision)]
  BY DEF Begin
<1>2. state' = [state EXCEPT ![p] = "running"] /\ start' = [start EXCEPT ![p] = revision]
      /\ held' = held /\ mine' = mine /\ state[p] = "idle" /\ UNCHANGED database
  BY DEF Begin
<1>3. state = [q \in Process |-> state[q]] /\ start = [q \in Process |-> start[q]]
      /\ job = [q \in Process |-> job[q]] /\ todo = [q \in Process |-> todo[q]]
      /\ held[p] = {} /\ mine[p] = {}
  BY <1>2 DEF Base, LifeTypes, LocalOK
<1>4. /\ job'[p] = j /\ todo'[p] = Program(j, revision)
      /\ state'[p] = "running" /\ start'[p] = revision
  BY <1>1, <1>2, <1>3
<1>5. Others(p)
  BY <1>1, <1>2, <1>3 DEF Others
<1> QED
  BY <1>1, <1>2, <1>3, <1>4, <1>5

LEMMA EndMoves ==
    ASSUME Base, NEW p \in Process, NEW outcome \in Outcome, End(p, outcome)
    PROVE  /\ Others(p) /\ job' = job /\ overlap' = overlap
           /\ state' = [state EXCEPT ![p] = outcome] /\ state'[p] = outcome
           /\ start' = [start EXCEPT ![p] = 0] /\ start'[p] = 0
           /\ held' = [held EXCEPT ![p] = {}] /\ held'[p] = {}
           /\ mine' = [mine EXCEPT ![p] = {}] /\ mine'[p] = {}
           /\ todo' = [todo EXCEPT ![p] = <<>>] /\ todo'[p] = <<>>
<1>1. state = [q \in Process |-> state[q]] /\ start = [q \in Process |-> start[q]]
      /\ held = [q \in Process |-> held[q]] /\ todo = [q \in Process |-> todo[q]]
      /\ mine = [q \in Process |-> mine[q]]
  BY DEF Base, LifeTypes, LocalOK
<1> QED
  BY <1>1 DEF End, Others

LEMMA ExecMoves ==
    ASSUME Base, NEW p \in Process, NEW statements, NEW written, Exec(p, statements, written)
    PROVE  /\ state[p] = "running" /\ Others(p) /\ UNCHANGED database /\ overlap' = overlap
           /\ state' = state /\ job' = job /\ start' = start
           /\ held' = [held EXCEPT ![p] = held[p] \union {<<Now(p).table, Now(p).mode>>}]
           /\ held'[p] = held[p] \union {<<Now(p).table, Now(p).mode>>}
           /\ todo' = [todo EXCEPT ![p] = statements] /\ todo'[p] = statements
           /\ mine' = [mine EXCEPT ![p] = written] /\ mine'[p] = written
<1>1. held = [q \in Process |-> held[q]] /\ todo = [q \in Process |-> todo[q]]
      /\ mine = [q \in Process |-> mine[q]]
  BY DEF Base, LocalOK
<1> QED
  BY <1>1 DEF Exec, Proceed, Others

LEMMA NowFacts ==
    ASSUME Base, NEW p \in Process, state[p] = "running", todo[p] # <<>>
    PROVE  /\ job[p] \in Job /\ Now(p) \in Stmt /\ Now(p).do \in Kinds(job[p])
           /\ Tail(todo[p]) \in Seq(StmtOf(job[p]))
           /\ Now(p).table \in Table /\ Now(p).mode \in Mode
           /\ \A st : In(st, todo[p]) <=> st = Now(p) \/ In(st, Tail(todo[p]))
<1>1. job[p] \in Job /\ todo[p] \in Seq(StmtOf(job[p]))
  BY DEF Base, LocalOK
<1>2. Now(p) \in StmtOf(job[p]) /\ Tail(todo[p]) \in Seq(StmtOf(job[p]))
  BY <1>1, HeadTail DEF Now
<1>3. \A st : In(st, todo[p]) <=> st = Head(todo[p]) \/ In(st, Tail(todo[p]))
  BY <1>1, InTail
<1> QED
  BY <1>1, <1>2, <1>3 DEF StmtOf, Stmt, Now

\* Which job executes what.
LEMMA Who ==
    ASSUME NEW j \in Job, NEW what \in Kinds(j)
    PROVE  /\ what \in {"look", "insert"} <=> j.op = "seed"
           /\ what = "reply" => Writer(j)
           /\ what \in {"stamp", "preflight", "backfill", "threads", "confirmed", "untype"} =>
                 j.op \in {"upgrade", "downgrade"}
<1>1. j.op \in {"seed", "upgrade", "downgrade", "legacy", "reply"}
  BY JobAssumption
<1>2. CASE j.op = "seed"
  BY <1>2 DEF Kinds, Writer
<1>3. CASE Writer(j)
  BY <1>3 DEF Kinds, Writer
<1>4. CASE j.op \in {"upgrade", "downgrade"}
  BY <1>4 DEF Kinds, Writer
<1> QED
  BY <1>1, <1>2, <1>3, <1>4 DEF Writer

LEMMA SeedNow ==
    ASSUME Base, NEW p \in Process, state[p] = "running", todo[p] # <<>>, job[p].op = "seed"
    PROVE  /\ Now(p).arg \in Item
           /\ Now(p) = LookSt(Now(p).arg) \/ Now(p) = InsertSt(Now(p).arg)
           /\ SeedShape(Tail(todo[p]))
           /\ Now(p).do = "look" =>
                 /\ Tail(todo[p]) # <<>> /\ Head(Tail(todo[p])) = InsertSt(Now(p).arg)
                 /\ Tail(Tail(todo[p])) \in Seq(StmtOf(job[p])) /\ SeedShape(Tail(Tail(todo[p])))
                 /\ \A st : In(st, todo[p]) <=>
                       \/ st = Now(p) \/ st = InsertSt(Now(p).arg) \/ In(st, Tail(Tail(todo[p])))
<1> DEFINE s == todo[p]
           t == Tail(s)
<1>1. s \in Seq(SeedStmt) /\ SeedShape(s) /\ s # <<>> /\ StmtOf(job[p]) = SeedStmt
  BY DEF Base, LocalOK, StmtOf, Kinds, SeedStmt, SeedKinds
<1>2. Now(p) = s[1] /\ 1 \in DOMAIN s
  BY <1>1, HeadTail DEF Now
<1>3. SeedShape(t) /\ t \in Seq(SeedStmt)
  BY <1>1, SeedShapeTail, HeadTail
<1>4. Now(p).arg \in Item /\ (Now(p) = LookSt(Now(p).arg) \/ Now(p) = InsertSt(Now(p).arg))
  BY <1>1, <1>2 DEF SeedShape
<1>5. ASSUME Now(p).do = "look"
      PROVE  /\ t # <<>> /\ Head(t) = InsertSt(Now(p).arg)
             /\ Tail(t) \in Seq(SeedStmt) /\ SeedShape(Tail(t))
             /\ \A st : In(st, s) <=>
                   st = Now(p) \/ st = InsertSt(Now(p).arg) \/ In(st, Tail(t))
  <2>1. 1 + 1 \in DOMAIN s /\ s[1 + 1] = InsertSt(Now(p).arg)
    BY <1>1, <1>2, <1>5 DEF SeedShape
  <2>2. Len(s) \in Nat \ {0} /\ DOMAIN s = 1 .. Len(s) /\ DOMAIN t = 1 .. Len(s) - 1
        /\ \A i \in 1 .. Len(s) - 1 : t[i] = s[i + 1]
    BY <1>1, HeadTail
  <2> HIDE DEF t, s
  <2>3. 1 \in 1 .. Len(s) - 1 /\ t[1] = InsertSt(Now(p).arg) /\ 1 \in DOMAIN t
    BY <2>1, <2>2
  <2>4. t # <<>>
    BY <2>3
  <2>5. Head(t) = t[1] /\ Tail(t) \in Seq(SeedStmt) /\ SeedShape(Tail(t))
    BY <1>3, <2>4, HeadTail, SeedShapeTail
  <2>6. \A st : In(st, t) <=> st = Head(t) \/ In(st, Tail(t))
    BY <1>3, <2>4, InTail
  <2>7. \A st : In(st, s) <=> st = Now(p) \/ In(st, t)
    <3>1. \A st : In(st, s) <=> st = Head(s) \/ In(st, Tail(s))
      BY <1>1, InTail
    <3> QED
      BY <3>1 DEF Now, t, s
  <2> QED
    BY <2>3, <2>4, <2>5, <2>6, <2>7
<1> QED
  BY <1>1, <1>3, <1>4, <1>5

LEMMA ExecTypes ==
    ASSUME Base, NEW p \in Process, NEW statements, NEW written, Exec(p, statements, written)
    PROVE  /\ statements \in Seq(StmtOf(job[p])) /\ written \subseteq MayWrite(job[p])
           /\ job[p].op = "seed" => SeedShape(statements)
           /\ job[p].op # "seed" => statements = Tail(todo[p])
<1>1. state[p] = "running" /\ todo[p] # <<>> /\ Writes(p, written) /\ Leaves(p, statements)
  BY DEF Exec
<1>2. /\ job[p] \in Job /\ Now(p) \in Stmt /\ Now(p).do \in Kinds(job[p])
      /\ Tail(todo[p]) \in Seq(StmtOf(job[p]))
  BY <1>1, NowFacts
<1>3. /\ Now(p).do \in {"look", "insert"} <=> job[p].op = "seed"
      /\ Now(p).do = "reply" => Writer(job[p])
      /\ Now(p).do = "backfill" => job[p].op \in {"upgrade", "downgrade"}
  BY <1>2, Who
<1>4. CASE job[p].op # "seed"
  <2>1. statements = Tail(todo[p])
    BY <1>1, <1>3, <1>4 DEF Leaves
  <2>2. CASE Now(p).do = "backfill"
    <3>1. PICK f \in Backfilled(replies) : written = {[x EXCEPT !.group = f[x]] : x \in replies}
      BY <1>1, <2>2 DEF Writes
    <3>2. f \in [replies -> Group] /\ replies \subseteq Reply
      BY DEF Backfilled, Base, DataTypes
    <3>3. \A x \in replies : [x EXCEPT !.group = f[x]] \in Reply
      BY <3>2 DEF Reply
    <3>4. written \subseteq Reply
      BY <3>1, <3>3
    <3> QED
      BY <1>2, <1>4, <2>1, <3>4 DEF MayWrite
  <2>3. CASE Now(p).do = "reply"
    <3>1. written = {NewReply(p)} /\ Writer(job[p])
      BY <1>1, <1>3, <2>3 DEF Writes
    <3>2. NewReply(p) \in Reply
      BY <1>2, <3>1, JobAssumption DEF NewReply, Reply, Writer
    <3> QED
      BY <1>2, <1>4, <2>1, <3>1, <3>2 DEF MayWrite
  <2>4. CASE Now(p).do \notin {"backfill", "reply"}
    <3>1. written = mine[p]
      BY <1>1, <1>3, <1>4, <2>4 DEF Writes
    <3> QED
      BY <1>2, <1>4, <2>1, <3>1 DEF Base, LocalOK
  <2> QED
    BY <2>2, <2>3, <2>4
<1>5. CASE job[p].op = "seed"
  <2>1. /\ Now(p).arg \in Item /\ SeedShape(Tail(todo[p]))
        /\ Now(p).do = "look" =>
             Tail(Tail(todo[p])) \in Seq(StmtOf(job[p])) /\ SeedShape(Tail(Tail(todo[p])))
    BY <1>1, <1>5, SeedNow
  <2>2. statements \in Seq(StmtOf(job[p])) /\ SeedShape(statements)
    BY <1>1, <1>2, <2>1 DEF Leaves
  <2>3. mine[p] \subseteq Row
    BY <1>5 DEF Base, LocalOK, MayWrite
  <2>4. NewRow(p, Now(p).arg) \in Row
    BY <2>1 DEF NewRow, Row, TypeOf
  <2>5. written = mine[p] \/ written = mine[p] \union {NewRow(p, Now(p).arg)}
    BY <1>1, <1>3, <1>5 DEF Writes
  <2> QED
    BY <1>5, <2>2, <2>3, <2>4, <2>5 DEF MayWrite
<1> QED
  BY <1>4, <1>5

LEMMA CommitTypes ==
    ASSUME Base, NEW p \in Process, Commit(p)
    PROVE  DataTypes'
<1>1. state[p] = "running" /\ job[p] \in Job /\ mine[p] \subseteq MayWrite(job[p])
  BY CommitCases DEF Base, LocalOK
<1>2. DataTypes
  BY DEF Base
<1>3. \A x \in Row : Typed(x, "student") \in Row /\ Typed(x, "none") \in Row
  BY DEF Typed, Row
<1>4. \A x \in Reply : [x EXCEPT !.group = NoGroup] \in Reply
  BY DEF Reply
<1>5. CASE job[p].op = "seed" /\ Seeded(p)
  BY <1>1, <1>2, <1>5 DEF Seeded, DataTypes, MayWrite
<1>6. CASE Writer(job[p]) /\ Replied(p)
  BY <1>1, <1>2, <1>6 DEF Replied, DataTypes, MayWrite, Writer
<1>7. CASE job[p].op = "upgrade" /\ Upgraded(p)
  <2>1. Draft(p) \subseteq Reply
    BY <1>1, <1>2, <1>7 DEF Draft, DataTypes, MayWrite
  <2>2. rows' \subseteq Row
    <3>1. CASE start[p] < 4
      BY <1>2, <1>3, <1>7, <3>1 DEF Upgraded, DataTypes
    <3>2. CASE ~(start[p] < 4)
      BY <1>2, <1>7, <3>2 DEF Upgraded, DataTypes
    <3> QED
      BY <3>1, <3>2
  <2>3. revision' \in Revision
    BY <1>7 DEF Upgraded, Revision, Head7
  <2> QED
    BY <1>2, <1>7, <2>1, <2>2, <2>3 DEF Upgraded, DataTypes
<1>8. CASE job[p].op = "downgrade" /\ Downgraded(p, job[p].to)
  <2> DEFINE to == job[p].to
  <2>1. to \in 3 .. Head7 /\ to \in Revision
    BY <1>1, <1>8, JobAssumption DEF Revision, Head7
  <2> HIDE DEF to
  <2>2. Downgraded(p, to)
    BY <1>8 DEF to
  <2>3. rows' \subseteq Row
    <3>1. CASE to < 4
      BY <1>2, <1>3, <2>2, <3>1 DEF Downgraded, DataTypes
    <3>2. CASE ~(to < 4)
      BY <1>2, <2>2, <3>2 DEF Downgraded, DataTypes
    <3> QED
      BY <3>1, <3>2
  <2>4. replies' \subseteq Reply
    <3>1. \/ replies' = {} \/ replies' = {[x EXCEPT !.group = NoGroup] : x \in replies}
          \/ replies' = replies
      BY <2>2 DEF Downgraded
    <3> QED
      BY <1>2, <1>4, <3>1 DEF DataTypes
  <2>5. broadcasts' \subseteq Broadcast /\ confirmations' \subseteq Broadcast \X Group
    <3>1. (broadcasts' = {} \/ broadcasts' = broadcasts)
          /\ (confirmations' = {} \/ confirmations' = confirmations)
      BY <2>2 DEF Downgraded
    <3> QED
      BY <1>2, <3>1 DEF DataTypes
  <2> QED
    BY <2>1, <2>2, <2>3, <2>4, <2>5 DEF Downgraded, DataTypes
<1>9. CASE UNCHANGED database
  BY <1>2, <1>9 DEF DataTypes, database
<1> QED
  BY <1>5, <1>6, <1>7, <1>8, <1>9, CommitCases

\* A migration that has found its version holds it.
LEMMA VersionHeld ==
    ASSUME Base, NEW p \in Process, state[p] = "running", Migrates(job[p], start[p]),
           ~In(StampSt, todo[p])
    PROVE  <<"version", "exclusive">> \in held[p] /\ revision = start[p]
<1>1. job[p] \in Job /\ start[p] \in Revision
  BY DEF Base, LocalOK, LifeTypes
<1>2. job[p].op # "seed" /\ StampSt \in Stmt
  BY MigrationStmts DEF Migrates, MigrationStmt
<1>3. In(StampSt, Program(job[p], start[p]))
  <2>1. CASE job[p].op = "upgrade" /\ start[p] < Head7
    <3>1. Program(job[p], start[p]) = Upgrade(start[p])
      BY <2>1 DEF Program
    <3> QED
      BY <1>1, <2>1, <3>1, UpgradeContents
  <2>2. CASE job[p].op = "downgrade" /\ start[p] > job[p].to
    <3>1. Program(job[p], start[p]) = Downgrade(start[p], job[p].to) /\ job[p].to \in 3 .. Head7
      BY <1>1, <2>2, JobAssumption DEF Program
    <3> QED
      BY <1>1, <2>2, <3>1, DowngradeContents
  <2> QED
    BY <2>1, <2>2 DEF Migrates
<1>4. <<StampSt.table, StampSt.mode>> \in held[p]
  BY <1>2, <1>3 DEF Base, Kept
<1>5. StampSt.table = "version" /\ StampSt.mode = "exclusive"
  BY DEF StampSt, Do
<1> QED
  BY <1>4, <1>5 DEF Base, Stamped

LEMMA NothingLeft == \A st : ~In(st, <<>>)
BY DEF In

LEMMA BaseBegin ==
    ASSUME Base, NEW p \in Process, Begin(p)
    PROVE  Base'
<1>1. /\ state[p] = "idle" /\ Others(p) /\ UNCHANGED database
      /\ state' = [state EXCEPT ![p] = "running"] /\ state'[p] = "running"
      /\ start' = [start EXCEPT ![p] = revision] /\ start'[p] = revision
      /\ held' = held /\ mine' = mine /\ held'[p] = {} /\ mine'[p] = {}
      /\ job'[p] \in Job /\ job' = [job EXCEPT ![p] = job'[p]]
      /\ todo'[p] = Program(job'[p], revision)
      /\ todo' = [todo EXCEPT ![p] = todo'[p]]
  BY BeginMoves
<1>2. revision \in Revision /\ revision' = revision
  BY <1>1 DEF Base, DataTypes, database
<1>3. DataTypes'
  BY <1>1 DEF Base, DataTypes, database
<1>4. LifeTypes'
  BY <1>1, <1>2 DEF Base, LifeTypes, Others
<1>5. LocalOK'
  <2>1. todo'[p] \in Seq(StmtOf(job'[p]))
    BY <1>1, <1>2, ProgramType
  <2>2. job'[p].op = "seed" => SeedShape(todo'[p])
    <3> SUFFICES ASSUME job'[p].op = "seed"
                 PROVE  SeedShape(todo'[p])
      OBVIOUS
    <3>1. job'[p].dev \in BOOLEAN
      BY <1>1, JobAssumption
    <3>2. todo'[p] = SeedProgram(job'[p].dev)
      BY <1>1 DEF Program
    <3> QED
      BY <3>1, <3>2, SeedProgramFacts
  <2>3. job' \in [Process -> Job \union {NoJob}] /\ held' \in [Process -> SUBSET (Table \X Mode)]
        /\ todo' = [q \in Process |-> todo'[q]] /\ mine' = [q \in Process |-> mine'[q]]
    BY <1>1 DEF Base, LocalOK
  <2>4. \A q \in Process \ {p} :
          /\ todo'[q] \in Seq(StmtOf(job'[q])) /\ mine'[q] \subseteq MayWrite(job'[q])
          /\ state'[q] # "idle" => job'[q] \in Job
          /\ job'[q].op = "seed" => SeedShape(todo'[q])
    BY <1>1 DEF Base, LocalOK, Others
  <2> QED
    BY <1>1, <2>1, <2>2, <2>3, <2>4 DEF LocalOK
<1>6. Mutex'
  BY <1>1 DEF Base, Mutex
<1>7. Kept'
  BY <1>1 DEF Base, Kept, Others
<1>8. Stamped'
  <2>1. \A q \in Process \ {p} :
          state'[q] = "running" /\ Migrates(job'[q], start'[q]) /\ ~In(StampSt, todo'[q]) =>
            revision' = start'[q]
    BY <1>1, <1>2 DEF Base, Stamped, Others
  <2> QED
    BY <1>1, <1>2, <2>1 DEF Stamped
<1> QED
  BY <1>3, <1>4, <1>5, <1>6, <1>7, <1>8 DEF Base

LEMMA BaseExec ==
    ASSUME Base, NEW p \in Process, NEW statements, NEW written, Exec(p, statements, written)
    PROVE  Base'
<1> DEFINE l == <<Now(p).table, Now(p).mode>>
<1>1. /\ state[p] = "running" /\ Others(p) /\ UNCHANGED database
      /\ state' = state /\ job' = job /\ start' = start
      /\ held' = [held EXCEPT ![p] = held[p] \union {l}]
      /\ held'[p] = held[p] \union {l}
      /\ todo' = [todo EXCEPT ![p] = statements] /\ todo'[p] = statements
      /\ mine' = [mine EXCEPT ![p] = written] /\ mine'[p] = written
  BY ExecMoves
<1>2. /\ statements \in Seq(StmtOf(job[p])) /\ written \subseteq MayWrite(job[p])
      /\ job[p].op = "seed" => SeedShape(statements)
      /\ job[p].op # "seed" => statements = Tail(todo[p])
  BY ExecTypes
<1>3. todo[p] # <<>> /\ Blockers(p) = {} /\ Allowed(p)
  BY DEF Exec
<1>4. /\ job[p] \in Job /\ Now(p) \in Stmt /\ Now(p).do \in Kinds(job[p])
      /\ Now(p).table \in Table /\ Now(p).mode \in Mode
      /\ \A st : In(st, todo[p]) <=> st = Now(p) \/ In(st, Tail(todo[p]))
  BY <1>1, <1>3, NowFacts
<1>5. DataTypes'
  BY <1>1 DEF Base, DataTypes, database
<1>6. LifeTypes'
  BY <1>1 DEF Base, LifeTypes, Others
<1>7. LocalOK'
  <2>1. l \in Table \X Mode
    BY <1>4
  <2>2. held' \in [Process -> SUBSET (Table \X Mode)]
    BY <1>1, <2>1 DEF Base, LocalOK
  <2>3. job' \in [Process -> Job \union {NoJob}]
        /\ todo' = [q \in Process |-> todo'[q]] /\ mine' = [q \in Process |-> mine'[q]]
    BY <1>1 DEF Base, LocalOK
  <2>4. \A q \in Process \ {p} :
          /\ todo'[q] \in Seq(StmtOf(job'[q])) /\ mine'[q] \subseteq MayWrite(job'[q])
          /\ state'[q] # "idle" => job'[q] \in Job
          /\ job'[q].op = "seed" => SeedShape(todo'[q])
    BY <1>1 DEF Base, LocalOK, Others
  <2> QED
    BY <1>1, <1>2, <1>4, <2>2, <2>3, <2>4 DEF LocalOK
<1>8. Mutex'
  <2>1. \A q \in Process \ {p} : \A m \in held[q] : m[1] = l[1] => ~InTheWay(m[2], l[2])
    BY <1>1, <1>3 DEF Blockers
  <2>2. \A m, n : InTheWay(m, n) <=> InTheWay(n, m)
    BY DEF InTheWay
  <2>3. \A q \in Process \ {p} : held'[q] = held[q]
    BY <1>1 DEF Others
  <2>4. ASSUME NEW q \in Process, NEW r \in Process, q # r, NEW a \in held'[q], NEW b \in held'[r],
               a[1] = b[1]
        PROVE  ~InTheWay(a[2], b[2])
    <3> HIDE DEF l
    <3>1. CASE q # p /\ r # p
      BY <2>3, <2>4, <3>1 DEF Base, Mutex
    <3>2. CASE q = p /\ r # p
      <4>1. a \in held[p] \/ a = l
        BY <1>1, <2>4, <3>2
      <4>2. b \in held[r]
        BY <2>3, <2>4, <3>2
      <4>3. CASE a = l
        BY <2>1, <2>2, <2>4, <3>2, <4>2, <4>3
      <4>4. CASE a \in held[p]
        BY <2>4, <3>2, <4>2, <4>4 DEF Base, Mutex
      <4> QED
        BY <4>1, <4>3, <4>4
    <3>3. CASE q # p /\ r = p
      <4>1. b \in held[p] \/ b = l
        BY <1>1, <2>4, <3>3
      <4>2. a \in held[q]
        BY <2>3, <2>4, <3>3
      <4>3. CASE b = l
        BY <2>1, <2>2, <2>4, <3>3, <4>2, <4>3
      <4>4. CASE b \in held[p]
        BY <2>4, <3>3, <4>2, <4>4 DEF Base, Mutex
      <4> QED
        BY <4>1, <4>3, <4>4
    <3> QED
      BY <2>4, <3>1, <3>2, <3>3
  <2> QED
    BY <2>4 DEF Mutex
<1>9. Kept'
  <2>1. ASSUME NEW q \in Process, state'[q] = "running", job'[q].op # "seed", NEW st \in Stmt,
               In(st, Program(job'[q], start'[q])), ~In(st, todo'[q])
        PROVE  <<st.table, st.mode>> \in held'[q]
    <3>1. CASE q # p
      BY <1>1, <2>1, <3>1 DEF Base, Kept, Others
    <3>2. CASE q = p
      <4>1. statements = Tail(todo[p])
        BY <1>1, <1>2, <2>1, <3>2
      <4>2. In(st, todo[p]) \/ <<st.table, st.mode>> \in held[p]
        BY <1>1, <2>1, <3>2 DEF Base, Kept
      <4>3. CASE In(st, todo[p])
        <5>1. st = Now(p)
          BY <1>1, <1>4, <2>1, <3>2, <4>1, <4>3
        <5> QED
          BY <1>1, <3>2, <5>1
      <4> QED
        BY <1>1, <3>2, <4>2, <4>3
    <3> QED
      BY <3>1, <3>2
  <2> QED
    BY <2>1 DEF Kept
<1>10. Stamped'
  <2>1. revision' = revision
    BY <1>1 DEF database
  <2>2. ASSUME NEW q \in Process, state'[q] = "running", Migrates(job'[q], start'[q]),
               ~In(StampSt, todo'[q])
        PROVE  revision' = start'[q]
    <3>1. CASE q # p
      BY <1>1, <2>1, <2>2, <3>1 DEF Base, Stamped, Others
    <3>2. CASE q = p
      <4>1. statements = Tail(todo[p])
        BY <1>1, <1>2, <2>2, <3>2 DEF Migrates
      <4>2. CASE In(StampSt, todo[p])
        <5>1. Now(p) = StampSt
          BY <1>1, <1>4, <2>2, <3>2, <4>1, <4>2
        <5>2. Now(p).do = "stamp"
          BY <5>1, Kindly
        <5> QED
          BY <1>1, <1>3, <2>1, <3>2, <5>2 DEF Allowed
      <4>3. CASE ~In(StampSt, todo[p])
        BY <1>1, <2>1, <2>2, <3>2, <4>3 DEF Base, Stamped
      <4> QED
        BY <4>2, <4>3
    <3> QED
      BY <3>1, <3>2
  <2> QED
    BY <2>2 DEF Stamped
<1> QED
  BY <1>5, <1>6, <1>7, <1>8, <1>9, <1>10 DEF Base

\* When a transaction ends its locks and its writes are gone.
LEMMA BaseEnd ==
    ASSUME Base, NEW p \in Process, NEW outcome \in Outcome, state[p] = "running",
           End(p, outcome)
    PROVE  LifeTypes' /\ LocalOK' /\ Mutex' /\ Kept'
<1>1. /\ Others(p) /\ job' = job
      /\ state' = [state EXCEPT ![p] = outcome] /\ state'[p] = outcome
      /\ start' = [start EXCEPT ![p] = 0] /\ start'[p] = 0
      /\ held' = [held EXCEPT ![p] = {}] /\ held'[p] = {}
      /\ mine' = [mine EXCEPT ![p] = {}] /\ mine'[p] = {}
      /\ todo' = [todo EXCEPT ![p] = <<>>] /\ todo'[p] = <<>>
  BY EndMoves
<1>2. outcome # "running" /\ outcome # "idle"
  BY DEF Outcome
<1>3. LifeTypes'
  <2>1. 0 \in Revision
    BY DEF Revision, Head7
  <2> QED
    BY <1>1, <2>1 DEF Base, LifeTypes, Others
<1>4. LocalOK'
  <2>1. SeedShape(<<>>) /\ \A S : <<>> \in Seq(S)
    BY Written DEF SeedShape
  <2>2. job[p] \in Job
    BY DEF Base, LocalOK
  <2>3. held' \in [Process -> SUBSET (Table \X Mode)]
        /\ todo' = [q \in Process |-> todo'[q]] /\ mine' = [q \in Process |-> mine'[q]]
    BY <1>1 DEF Base, LocalOK
  <2>4. \A q \in Process \ {p} :
          /\ todo'[q] \in Seq(StmtOf(job'[q])) /\ mine'[q] \subseteq MayWrite(job'[q])
          /\ state'[q] # "idle" => job'[q] \in Job
          /\ job'[q].op = "seed" => SeedShape(todo'[q])
    BY <1>1 DEF Base, LocalOK, Others
  <2>5. job' \in [Process -> Job \union {NoJob}]
    BY <1>1 DEF Base, LocalOK
  <2> QED
    BY <1>1, <2>1, <2>2, <2>3, <2>4, <2>5 DEF LocalOK
<1>5. Mutex'
  <2>1. \A q \in Process : held'[q] = held[q] \/ held'[q] = {}
    BY <1>1 DEF Others
  <2> QED
    BY <2>1 DEF Base, Mutex
<1>6. Kept'
  BY <1>1, <1>2 DEF Base, Kept, Others
<1> QED
  BY <1>3, <1>4, <1>5, <1>6

LEMMA BaseFail ==
    ASSUME Base, NEW p \in Process, NEW outcome \in Outcome, state[p] = "running",
           Fail(p, outcome)
    PROVE  Base'
<1>1. End(p, outcome) /\ UNCHANGED database
  BY DEF Fail
<1>2. LifeTypes' /\ LocalOK' /\ Mutex' /\ Kept'
  BY <1>1, BaseEnd
<1>3. DataTypes'
  BY <1>1 DEF Base, DataTypes, database
<1>4. Stamped'
  <2>1. Others(p) /\ state'[p] = outcome /\ outcome # "running" /\ revision' = revision
    BY <1>1, EndMoves DEF Outcome, database
  <2> QED
    BY <2>1 DEF Base, Stamped, Others
<1> QED
  BY <1>2, <1>3, <1>4 DEF Base

LEMMA BaseCommit ==
    ASSUME Base, NEW p \in Process, Commit(p)
    PROVE  Base'
<1>1. state[p] = "running" /\ todo[p] = <<>> /\ End(p, "ok") /\ "ok" \in Outcome
  BY CommitCases DEF Outcome
<1>2. LifeTypes' /\ LocalOK' /\ Mutex' /\ Kept'
  BY <1>1, BaseEnd
<1>3. DataTypes'
  BY CommitTypes
<1>4. Stamped'
  <2>1. Others(p) /\ state'[p] = "ok"
    BY <1>1, EndMoves
  <2>2. ASSUME NEW q \in Process, state'[q] = "running", Migrates(job'[q], start'[q]),
               ~In(StampSt, todo'[q])
        PROVE  revision' = start'[q]
    <3>1. /\ q # p /\ state[q] = "running" /\ Migrates(job[q], start[q])
          /\ ~In(StampSt, todo[q]) /\ start'[q] = start[q]
      BY <2>1, <2>2 DEF Others
    <3>2. <<"version", "exclusive">> \in held[q] /\ revision = start[q]
      BY <3>1, VersionHeld
    <3>3. CASE revision' = revision
      BY <3>1, <3>2, <3>3
    <3>4. CASE Migrates(job[p], start[p])
      <4>1. <<"version", "exclusive">> \in held[p]
        BY <1>1, <3>4, NothingLeft, VersionHeld
      <4>2. InTheWay("exclusive", "exclusive")
        BY DEF InTheWay
      <4>3. ~InTheWay(<<"version", "exclusive">>[2], <<"version", "exclusive">>[2])
        BY <3>1, <3>2, <4>1 DEF Base, Mutex
      <4> QED
        BY <4>2, <4>3
    <3>5. revision' = revision \/ Migrates(job[p], start[p])
      BY CommitCases DEF Seeded, Replied, Migrates, database
    <3> QED
      BY <3>3, <3>4, <3>5
  <2> QED
    BY <2>2 DEF Stamped
<1> QED
  BY <1>2, <1>3, <1>4 DEF Base

LEMMA BaseStep == Base /\ [Next]_vars => Base'
<1> SUFFICES ASSUME Base, [Next]_vars
             PROVE  Base'
  OBVIOUS
<1>1. CASE UNCHANGED vars
  BY <1>1 DEF vars, database, local, Base, DataTypes, LifeTypes, LocalOK, Mutex, Kept, Stamped
<1>2. "failed" \in Outcome /\ "deadlock" \in Outcome
  BY DEF Outcome
<1> QED
  BY <1>1, <1>2, Steps, BaseBegin, BaseExec, BaseFail, BaseCommit

LEMMA BaseHolds == Spec => []Base
BY BaseInit, BaseStep, PTL DEF Spec

\* Every variable has its type in every reachable state.
THEOREM DeploymentTypeCorrect == Spec => []TypeOK
BY BaseHolds, BaseTypes, PTL

-----------------------------------------------------------------------------
(* Replies. *)

\* What 0006 makes of the replies it finds.
Filled(table) ==
    \A x \in table :
        /\ x.broadcast \in broadcasts
        /\ TargetsOf[x.broadcast] = {x.group}
        /\ x.given \in {NoGroup, x.group}

Confirmed == \A c \in confirmations : c[2] \in TargetsOf[c[1]]

DataOK ==
    /\ revision < 5 => broadcasts = {} /\ replies = {} /\ confirmations = {}
    /\ \A x \in replies :
          /\ x.broadcast \in broadcasts
          /\ x.given # NoGroup => x.given \in TargetsOf[x.broadcast]
          /\ revision # 5 => x.group \in TargetsOf[x.broadcast]
    /\ NeverGuesses
    /\ ThreadsClosedAtHead

\* What a writer has written holds on to the schema it was written for.
WriterOK(p) ==
    state[p] = "running" /\ Writer(job[p]) =>
        /\ \A i \in DOMAIN todo[p] : todo[p][i].do = "reply" => todo[p][i] = ReplySt
        /\ \A x \in mine[p] :
              /\ <<"replies", "write">> \in held[p]
              /\ x.broadcast \in broadcasts
              /\ x.given = x.group
              /\ IF job[p].op = "legacy" THEN revision = 5 /\ x.group = NoGroup
                 ELSE revision > 5 /\ x.group \in TargetsOf[x.broadcast]
              /\ revision = Head7 /\ x.ref # Nobody =>
                    \E y \in replies : y.id = x.ref /\ SameThread(x, y)

\* What an upgrade over 0006 or 0007 has found out holds until it ends: it locks the
\* replies first.
Checked(p) ==
    /\ start[p] = 5 =>
         /\ Shape(todo[p])
         /\ In(PreflightSt, todo[p]) \/ Unambiguous
         /\ In(BackfillSt, todo[p]) \/ Filled(mine[p])
    /\ In(ThreadsSt, todo[p]) \/ ThreadsValid(Draft(p))
    /\ In(ConfirmedSt, todo[p]) \/ Confirmed

UpgradeOK(p) ==
    state[p] = "running" /\ job[p].op = "upgrade" /\ start[p] \in {5, 6} =>
        /\ todo[p] = Upgrade(start[p]) \/ <<"replies", "exclusive">> \in held[p]
        /\ Checked(p)

RepliesOK == DataOK /\ \A p \in Process : WriterOK(p) /\ UpgradeOK(p)

LEMMA Targets ==
    \A x \in Reply :
        /\ x.broadcast \in Broadcast /\ TargetsOf[x.broadcast] \subseteq Group
        /\ NoGroup \notin TargetsOf[x.broadcast] /\ IsFiniteSet(TargetsOf[x.broadcast])
BY TargetAssumption, FS_Subset DEF Reply

LEMMA RepliesInit == Init => RepliesOK
<1> SUFFICES ASSUME Init
             PROVE  RepliesOK
  OBVIOUS
<1>1. PICK d \in Databases :
          /\ revision = d.revision /\ rows = d.rows /\ broadcasts = d.broadcasts
          /\ replies = d.replies /\ confirmations = d.confirmations
  BY DEF Init
<1>2. /\ revision < 5 => broadcasts = {} /\ replies = {} /\ confirmations = {}
      /\ replies \subseteq Reply
      /\ \A x \in replies :
            /\ x.broadcast \in broadcasts /\ x.given = x.group
            /\ IF revision = 5 THEN x.group = NoGroup ELSE x.group \in TargetsOf[x.broadcast]
      /\ revision = Head7 => ThreadsValid(replies) /\ Confirmed
  BY <1>1, DatabaseAssumption DEF Confirmed
<1>3. NeverGuesses
  BY <1>2, Targets DEF NeverGuesses
<1>4. ThreadsClosedAtHead
  BY <1>2 DEF ThreadsClosedAtHead, ThreadsValid, Confirmed, Head7
<1>5. DataOK
  BY <1>2, <1>3, <1>4 DEF DataOK
<1>6. \A p \in Process : WriterOK(p) /\ UpgradeOK(p)
  BY DEF Init, WriterOK, UpgradeOK
<1> QED
  BY <1>5, <1>6 DEF RepliesOK

LEMMA RepliesSame ==
    ASSUME DataOK, UNCHANGED database
    PROVE  DataOK'
BY DEF DataOK, database, NeverGuesses, ThreadsClosedAtHead, SameThread

\* Who does not move does not notice, if nothing is committed.
LEMMA RepliesOthers ==
    ASSUME RepliesOK, NEW p \in Process, Others(p), UNCHANGED database
    PROVE  DataOK' /\ \A q \in Process \ {p} : WriterOK(q)' /\ UpgradeOK(q)'
<1>1. UNCHANGED <<revision, broadcasts, replies, confirmations>>
  BY DEF database
<1>2. ASSUME NEW q \in Process \ {p}
      PROVE  WriterOK(q)' /\ UpgradeOK(q)'
  <2>1. /\ state'[q] = state[q] /\ job'[q] = job[q] /\ start'[q] = start[q]
        /\ todo'[q] = todo[q] /\ held'[q] = held[q] /\ mine'[q] = mine[q]
    BY DEF Others
  <2>2. WriterOK(q) /\ UpgradeOK(q)
    BY DEF RepliesOK
  <2>3. WriterOK(q)'
    BY <1>1, <2>1, <2>2 DEF WriterOK, SameThread
  <2>4. Checked(q) => Checked(q)'
    BY <1>1, <2>1 DEF Checked, Draft, Filled, Confirmed, Unambiguous, ThreadsValid, SameThread
  <2>5. UpgradeOK(q)'
    BY <2>1, <2>2, <2>4 DEF UpgradeOK
  <2> QED
    BY <2>3, <2>5
<1> QED
  BY <1>2, RepliesSame DEF RepliesOK

LEMMA RepliesBegin ==
    ASSUME Base, RepliesOK, NEW p \in Process, Begin(p)
    PROVE  RepliesOK'
<1>1. /\ Others(p) /\ UNCHANGED database
      /\ start'[p] = revision /\ mine'[p] = {} /\ job'[p] \in Job
      /\ todo'[p] = Program(job'[p], revision)
  BY BeginMoves
<1>2. WriterOK(p)'
  <2>1. ASSUME Writer(job'[p]), NEW i \in DOMAIN todo'[p], todo'[p][i].do = "reply"
        PROVE  todo'[p][i] = ReplySt
    <3>1. todo'[p] = ReplyProgram(job'[p])
      BY <1>1, <2>1 DEF Program, Writer
    <3> DEFINE a == Lock("targets", "share")
               b == Do("parent", "replies", "share", "none")
               d == Lock(IF job'[p].op = "legacy" THEN "broadcasts" ELSE "targets", "share")
    <3>2. todo'[p] = <<a, b, ReplySt, d>>
      BY <3>1 DEF ReplyProgram, ReplySt
    <3>3. a.do # "reply" /\ b.do # "reply" /\ d.do # "reply"
      BY DEF Lock, Do
    <3> HIDE DEF a, b, d
    <3>4. i \in 1 .. 4
      BY <2>1, <3>2
    <3>5. i = 3
      BY <2>1, <3>2, <3>3, <3>4
    <3> QED
      BY <3>2, <3>5
  <2> QED
    BY <1>1, <2>1 DEF WriterOK
<1>3. UpgradeOK(p)'
  <2>1. ASSUME job'[p].op = "upgrade", start'[p] \in {5, 6}
        PROVE  todo'[p] = Upgrade(start'[p]) /\ Checked(p)'
    <3>1. todo'[p] = Upgrade(start'[p])
      BY <1>1, <2>1 DEF Program
    <3>2. CASE start'[p] = 5
      BY <3>1, <3>2, Upgrade5Order DEF Checked
    <3>3. CASE start'[p] = 6
      BY <3>1, <3>3, Upgrade6 DEF Checked
    <3> QED
      BY <2>1, <3>1, <3>2, <3>3
  <2> QED
    BY <2>1 DEF UpgradeOK
<1> QED
  BY <1>1, <1>2, <1>3, RepliesOthers DEF RepliesOK

LEMMA RepliesFail ==
    ASSUME Base, RepliesOK, NEW p \in Process, NEW outcome \in Outcome, Fail(p, outcome)
    PROVE  RepliesOK'
<1>1. Others(p) /\ UNCHANGED database /\ state'[p] = outcome /\ outcome # "running"
  BY EndMoves DEF Fail, Outcome
<1>2. WriterOK(p)' /\ UpgradeOK(p)'
  BY <1>1 DEF WriterOK, UpgradeOK
<1> QED
  BY <1>1, <1>2, RepliesOthers DEF RepliesOK

\* A reply by the program of a writer.
LEMMA WriterExec ==
    ASSUME Base, RepliesOK, NEW p \in Process, NEW statements, NEW written,
           Exec(p, statements, written)
    PROVE  WriterOK(p)'
<1>1. /\ state[p] = "running" /\ UNCHANGED database /\ job' = job
      /\ held'[p] = held[p] \union {<<Now(p).table, Now(p).mode>>}
      /\ todo'[p] = statements /\ mine'[p] = written
  BY ExecMoves
<1>2. todo[p] # <<>> /\ Allowed(p) /\ Writes(p, written)
  BY DEF Exec
<1> SUFFICES ASSUME Writer(job[p])
             PROVE  WriterOK(p)'
  BY <1>1 DEF WriterOK
<1>3. statements = Tail(todo[p]) /\ todo[p] \in Seq(StmtOf(job[p]))
  BY ExecTypes DEF Writer, Base, LocalOK
<1>4. Now(p).do \in {"lock", "parent", "reply"}
  BY <1>1, <1>2, NowFacts DEF Writer, Kinds
<1>5. /\ \A i \in DOMAIN todo[p] : todo[p][i].do = "reply" => todo[p][i] = ReplySt
      /\ \A x \in mine[p] :
            /\ <<"replies", "write">> \in held[p]
            /\ x.broadcast \in broadcasts
            /\ x.given = x.group
            /\ IF job[p].op = "legacy" THEN revision = 5 /\ x.group = NoGroup
               ELSE revision > 5 /\ x.group \in TargetsOf[x.broadcast]
            /\ revision = Head7 /\ x.ref # Nobody =>
                  \E y \in replies : y.id = x.ref /\ SameThread(x, y)
  BY <1>1 DEF RepliesOK, WriterOK
<1>6. /\ Now(p) = todo[p][1] /\ 1 \in DOMAIN todo[p]
      /\ \A i \in DOMAIN statements : i + 1 \in DOMAIN todo[p] /\ statements[i] = todo[p][i + 1]
  <2>1. /\ Head(todo[p]) = todo[p][1] /\ Len(todo[p]) \in Nat \ {0}
        /\ DOMAIN todo[p] = 1 .. Len(todo[p]) /\ DOMAIN statements = 1 .. Len(todo[p]) - 1
        /\ \A i \in 1 .. Len(todo[p]) - 1 : statements[i] = todo[p][i + 1]
    BY <1>2, <1>3, HeadTail
  <2>2. \A i \in 1 .. Len(todo[p]) - 1 : i + 1 \in 1 .. Len(todo[p])
    BY <2>1
  <2> QED
    BY <2>1, <2>2 DEF Now
<1>7. \A i \in DOMAIN statements : statements[i].do = "reply" => statements[i] = ReplySt
  BY <1>5, <1>6
<1>8. UNCHANGED <<revision, broadcasts, replies>> /\ revision \in Nat
  BY <1>1 DEF database, Base, DataTypes, Revision
<1>9. ASSUME NEW x \in written
      PROVE  /\ <<"replies", "write">> \in held'[p]
             /\ x.broadcast \in broadcasts
             /\ x.given = x.group
             /\ IF job[p].op = "legacy" THEN revision = 5 /\ x.group = NoGroup
                ELSE revision > 5 /\ x.group \in TargetsOf[x.broadcast]
             /\ revision = Head7 /\ x.ref # Nobody =>
                   \E y \in replies : y.id = x.ref /\ SameThread(x, y)
  <2>1. CASE Now(p).do # "reply"
    <3>1. x \in mine[p]
      BY <1>2, <1>4, <1>9, <2>1 DEF Writes
    <3> QED
      BY <1>1, <1>5, <3>1
  <2>2. CASE Now(p).do = "reply"
    <3>1. Now(p) = ReplySt
      BY <1>5, <1>6, <2>2
    <3>2. Now(p).table = "replies" /\ Now(p).mode = "write"
      BY <3>1 DEF ReplySt, Do
    <3>3. x = NewReply(p)
      BY <1>2, <1>9, <2>2 DEF Writes
    <3>4. x.broadcast = job[p].broadcast /\ x.group = job[p].group /\ x.given = x.group
          /\ x.ref = job[p].ref
      BY <3>3 DEF NewReply
    <3>5. /\ IF job[p].op = "legacy" THEN revision = 5
             ELSE revision >= 6 /\ job[p].group \in TargetsOf[job[p].broadcast]
          /\ job[p].broadcast \in broadcasts
          /\ job[p].ref # Nobody =>
                \E y \in replies : y.id = job[p].ref /\ (revision < 7 \/ SameThread(x, y))
      BY <1>2, <2>2, <3>3 DEF Allowed
    <3>6. job[p].op = "legacy" => job[p].group = NoGroup
      <4>1. job[p] \in Job
        BY <1>1 DEF Base, LocalOK
      <4> QED
        BY <4>1, JobAssumption
    <3> QED
      BY <1>1, <1>8, <3>2, <3>4, <3>5, <3>6 DEF Head7
  <2> QED
    BY <2>1, <2>2
<1> QED
  BY <1>1, <1>7, <1>8, <1>9 DEF WriterOK, SameThread

\* The backfill, of replies whose broadcasts have one target each.
LEMMA BackfillFills ==
    ASSUME Base, RepliesOK, Unambiguous, NEW f \in Backfilled(replies)
    PROVE  Filled({[x EXCEPT !.group = f[x]] : x \in replies})
<1> SUFFICES ASSUME NEW x \in replies
             PROVE  LET y == [x EXCEPT !.group = f[x]] IN
                    /\ y.broadcast \in broadcasts
                    /\ TargetsOf[y.broadcast] = {y.group}
                    /\ y.given \in {NoGroup, y.group}
  BY DEF Filled
<1> DEFINE y == [x EXCEPT !.group = f[x]]
<1>1. x \in Reply
  BY DEF Base, DataTypes
<1>2. y.broadcast = x.broadcast /\ y.given = x.given /\ y.group = f[x]
  BY <1>1 DEF Reply
<1>3. f[x] \in TargetsOf[x.broadcast]
  BY DEF Backfilled
<1>4. TargetsOf[x.broadcast] = {f[x]}
  <2>1. Cardinality(TargetsOf[x.broadcast]) = 1 /\ IsFiniteSet(TargetsOf[x.broadcast])
    BY <1>1, Targets DEF Unambiguous
  <2>2. PICK g : TargetsOf[x.broadcast] = {g}
    BY <2>1, FS_Singleton
  <2> QED
    BY <1>3, <2>2
<1>5. x.broadcast \in broadcasts /\ (x.given # NoGroup => x.given \in TargetsOf[x.broadcast])
  BY DEF RepliesOK, DataOK
<1> QED
  BY <1>2, <1>4, <1>5

LEMMA UpgradeExec ==
    ASSUME Base, RepliesOK, NEW p \in Process, NEW statements, NEW written,
           Exec(p, statements, written)
    PROVE  UpgradeOK(p)'
<1>1. /\ state[p] = "running" /\ UNCHANGED database /\ job' = job /\ start' = start
      /\ held'[p] = held[p] \union {<<Now(p).table, Now(p).mode>>}
      /\ todo'[p] = statements /\ mine'[p] = written
  BY ExecMoves
<1>2. todo[p] # <<>> /\ Allowed(p) /\ Writes(p, written)
  BY DEF Exec
<1> SUFFICES ASSUME job[p].op = "upgrade", start[p] \in {5, 6}
             PROVE  UpgradeOK(p)'
  BY <1>1 DEF UpgradeOK
<1>3. statements = Tail(todo[p]) /\ todo[p] \in Seq(StmtOf(job[p]))
  BY ExecTypes DEF Base, LocalOK
<1>4. /\ \A st : In(st, todo[p]) <=> st = Now(p) \/ In(st, statements)
      /\ Now(p).do \notin {"insert", "reply"}
  BY <1>1, <1>2, <1>3, NowFacts DEF Kinds
<1>5. Checked(p) /\ (todo[p] = Upgrade(start[p]) \/ <<"replies", "exclusive">> \in held[p])
  BY <1>1 DEF RepliesOK, UpgradeOK
<1>6. <<"replies", "exclusive">> \in held'[p]
  <2>1. CASE todo[p] = Upgrade(start[p])
    <3>1. Now(p) = RepliesSt
      BY <2>1, Upgrade5Order, Upgrade6 DEF Now
    <3>2. Now(p).table = "replies" /\ Now(p).mode = "exclusive"
      BY <3>1 DEF RepliesSt, Lock, Do
    <3> QED
      BY <1>1, <3>2
  <2> QED
    BY <1>1, <1>5, <2>1
<1>7. UNCHANGED <<broadcasts, replies, confirmations>>
  BY <1>1 DEF database
<1>8. In(ConfirmedSt, statements) \/ Confirmed
  <2>1. Now(p) = ConfirmedSt => Confirmed
    BY <1>2, Kindly DEF Allowed, Confirmed
  <2> QED
    BY <1>4, <1>5, <2>1 DEF Checked
<1>9. CASE Now(p).do # "backfill"
  <2>1. written = mine[p]
    BY <1>2, <1>4, <1>9 DEF Writes
  <2>2. In(ThreadsSt, statements) \/ ThreadsValid(Draft(p))
    <3>1. Now(p) = ThreadsSt => ThreadsValid(Draft(p))
      BY <1>2, Kindly DEF Allowed
    <3> QED
      BY <1>4, <1>5, <3>1 DEF Checked
  <2>3. ASSUME start[p] = 5
        PROVE  /\ Shape(statements)
               /\ In(PreflightSt, statements) \/ Unambiguous
               /\ In(BackfillSt, statements) \/ Filled(mine[p])
    <3>1. Shape(statements)
      BY <1>2, <1>3, <1>5, <2>3, ShapeTail DEF Checked
    <3>2. Now(p) = PreflightSt => Unambiguous
      BY <1>2, Kindly DEF Allowed
    <3>3. Now(p) # BackfillSt
      BY <1>9, Kindly
    <3> QED
      BY <1>4, <1>5, <2>3, <3>1, <3>2, <3>3 DEF Checked
  <2>4. Checked(p)'
    BY <1>1, <1>7, <1>8, <2>1, <2>2, <2>3
    DEF Checked, Draft, Filled, Confirmed, Unambiguous, ThreadsValid, SameThread
  <2> QED
    BY <1>6, <2>4 DEF UpgradeOK
<1>10. CASE Now(p).do = "backfill"
  <2>1. start[p] = 5 => In(ThreadsSt, statements) /\ ~In(PreflightSt, todo[p])
    <3> SUFFICES ASSUME start[p] = 5
                 PROVE  In(ThreadsSt, statements) /\ ~In(PreflightSt, todo[p])
      OBVIOUS
    <3>1. Shape(todo[p])
      BY <1>5 DEF Checked
    <3>2. /\ Now(p) = todo[p][1] /\ Len(todo[p]) \in Nat \ {0}
          /\ DOMAIN todo[p] = 1 .. Len(todo[p])
      BY <1>2, <1>3, HeadTail DEF Now
    <3>3. 1 \in DOMAIN todo[p] /\ todo[p][1].do = "backfill"
      BY <1>10, <3>2
    <3>4. /\ \E k \in DOMAIN todo[p] : k > 1 /\ todo[p][k] = ThreadsSt
          /\ \A k \in DOMAIN todo[p] : k > 1 => todo[p][k].do # "preflight"
      BY <3>1, <3>3 DEF Shape
    <3>5. In(ThreadsSt, todo[p])
      BY <3>4 DEF In
    <3>6. In(ThreadsSt, statements)
      BY <1>4, <1>10, <3>5, Kindly
    <3>7. \A k \in DOMAIN todo[p] : todo[p][k].do # "preflight"
      BY <3>2, <3>3, <3>4
    <3> QED
      BY <3>6, <3>7, Kindly DEF In
  <2>2. CASE start[p] = 5
    <3>1. PICK f \in Backfilled(replies) : written = {[x EXCEPT !.group = f[x]] : x \in replies}
      BY <1>2, <1>10 DEF Writes
    <3>2. Unambiguous
      BY <1>5, <2>1, <2>2 DEF Checked
    <3>3. Filled(written)
      BY <3>1, <3>2, BackfillFills
    <3>4. Shape(statements)
      BY <1>2, <1>3, <1>5, <2>2, ShapeTail DEF Checked
    <3>5. Checked(p)'
      BY <1>1, <1>7, <1>8, <2>1, <2>2, <3>2, <3>3, <3>4
      DEF Checked, Filled, Confirmed, Unambiguous
    <3> QED
      BY <1>6, <3>5 DEF UpgradeOK
  <2>3. CASE start[p] = 6
    <3>1. Now(p) # ThreadsSt /\ Draft(p) = replies /\ Draft(p)' = replies
      BY <1>1, <1>7, <1>10, <2>3, Kindly DEF Draft
    <3>2. In(ThreadsSt, statements) \/ ThreadsValid(replies)
      BY <1>4, <1>5, <3>1 DEF Checked
    <3>3. Checked(p)'
      BY <1>1, <1>7, <1>8, <2>3, <3>1, <3>2
      DEF Checked, Confirmed, ThreadsValid, SameThread
    <3> QED
      BY <1>6, <3>3 DEF UpgradeOK
  <2> QED
    BY <2>2, <2>3
<1> QED
  BY <1>9, <1>10

\* A migration away from 5 or later has the replies for itself, one from before has
\* nothing to do with them.
LEMMA MigratesAlone ==
    ASSUME Base, NEW q \in Process, state[q] = "running", todo[q] = <<>>,
           Migrates(job[q], start[q])
    PROVE  /\ revision = start[q]
           /\ start[q] >= 5 => <<"replies", "exclusive">> \in held[q]
<1>1. revision = start[q]
  BY NothingLeft, VersionHeld
<1>2. ASSUME start[q] >= 5
      PROVE  <<"replies", "exclusive">> \in held[q]
  <2>1. job[q] \in Job /\ start[q] \in Revision /\ job[q].op # "seed"
    BY DEF Base, LocalOK, LifeTypes, Migrates
  <2>2. In(RepliesSt, Program(job[q], start[q]))
    <3>1. CASE job[q].op = "upgrade" /\ start[q] < Head7
      BY <1>2, <2>1, <3>1, UpgradeContents DEF Program
    <3>2. CASE job[q].op = "downgrade" /\ start[q] > job[q].to
      <4>1. job[q].to \in 3 .. Head7
        BY <2>1, <3>2, JobAssumption
      <4> QED
        BY <1>2, <2>1, <3>2, <4>1, DowngradeContents DEF Program
    <3> QED
      BY <3>1, <3>2 DEF Migrates
  <2>3. RepliesSt \in Stmt /\ RepliesSt.table = "replies" /\ RepliesSt.mode = "exclusive"
    BY DoType DEF RepliesSt, Lock, Kind, Table, Mode
  <2> QED
    BY <2>1, <2>2, <2>3, NothingLeft DEF Base, Kept
<1> QED
  BY <1>1, <1>2

\* What the others may commit while p holds the replies.
LEMMA WhileHeld ==
    ASSUME Base, DataOK, NEW p \in Process, NEW q \in Process \ {p}, Commit(q),
           NEW mode \in {"write", "exclusive"}, <<"replies", mode>> \in held[p]
    PROVE  \/ UNCHANGED <<revision, broadcasts, replies, confirmations>>
           \/ mode = "write" /\ Writer(job[q]) /\ Replied(q)
           \/ revision < 5 /\ UNCHANGED <<broadcasts, replies, confirmations>>
<1>1. state[q] = "running" /\ todo[q] = <<>> /\ start[q] \in Revision
  BY CommitCases DEF Base, LifeTypes
<1>2. \A m \in {"write", "exclusive"} :
          <<"replies", m>> \in held[q] => mode = "write" /\ m = "write"
  <2>1. TAKE m \in {"write", "exclusive"}
  <2>2. <<"replies", m>> \in held[q] => ~InTheWay(mode, m)
    <3> DEFINE a == <<"replies", mode>>
               b == <<"replies", m>>
    <3>1. a[1] = b[1] /\ a[2] = mode /\ b[2] = m
      OBVIOUS
    <3> HIDE DEF a, b
    <3>2. b \in held[q] => ~InTheWay(a[2], b[2])
      BY <3>1 DEF Base, Mutex, a
    <3> QED
      BY <3>1, <3>2 DEF b
  <2> QED
    BY <2>2 DEF InTheWay
<1>3. CASE Writer(job[q]) /\ Replied(q)
  <2>1. job[q] \in Job /\ job[q].op # "seed"
    BY <1>1, <1>3 DEF Base, LocalOK, Writer
  <2>2. In(ReplySt, Program(job[q], start[q]))
    BY <1>3, <2>1, WriterContents DEF Writer
  <2>3. ReplySt \in Stmt /\ ReplySt.table = "replies" /\ ReplySt.mode = "write"
    BY DoType DEF ReplySt, Kind, Table, Mode
  <2>4. <<"replies", "write">> \in held[q]
    BY <1>1, <2>1, <2>2, <2>3, NothingLeft DEF Base, Kept
  <2> QED
    BY <1>2, <1>3, <2>4
<1>4. CASE Migrates(job[q], start[q])
  <2>1. revision = start[q] /\ ~(start[q] >= 5)
    BY <1>1, <1>2, <1>4, MigratesAlone
  <2>2. start[q] < 5 /\ start[q] # 5
    BY <1>1, <2>1 DEF Revision
  <2>3. broadcasts = {} /\ replies = {} /\ confirmations = {}
    BY <2>1, <2>2 DEF DataOK
  <2>4. CASE job[q].op = "upgrade" /\ start[q] < Head7 /\ Upgraded(q)
    BY <2>1, <2>2, <2>4 DEF Upgraded, Draft
  <2>5. CASE job[q].op = "downgrade" /\ start[q] > job[q].to /\ Downgraded(q, job[q].to)
    <3>1. job[q].to < 5
      <4>1. job[q].to \in 3 .. Head7
        BY <1>1, <2>5, JobAssumption DEF Base, LocalOK
      <4> QED
        BY <1>1, <2>2, <2>5, <4>1 DEF Revision, Head7
    <3> QED
      BY <2>1, <2>2, <2>3, <2>5, <3>1 DEF Downgraded
  <2>6. CASE UNCHANGED database
    BY <2>6 DEF database
  <2> QED
    BY <1>4, <2>4, <2>5, <2>6, CommitCases DEF Migrates, Writer
<1>5. CASE ~Migrates(job[q], start[q]) /\ ~(Writer(job[q]) /\ Replied(q))
  BY <1>5, CommitCases DEF Migrates, Seeded, database
<1> QED
  BY <1>3, <1>4, <1>5

LEMMA OthersCommit ==
    ASSUME Base, RepliesOK, NEW q \in Process, Commit(q), NEW p \in Process \ {q}
    PROVE  WriterOK(p)' /\ UpgradeOK(p)'
<1>1. /\ state'[p] = state[p] /\ job'[p] = job[p] /\ start'[p] = start[p]
      /\ todo'[p] = todo[p] /\ held'[p] = held[p] /\ mine'[p] = mine[p]
  BY CommitCases, EndMoves DEF Others, Outcome
<1>2. WriterOK(p) /\ UpgradeOK(p) /\ DataOK /\ revision \in Nat
  BY DEF RepliesOK, Base, DataTypes, Revision
<1>3. WriterOK(p)'
  <2> SUFFICES ASSUME state[p] = "running", Writer(job[p]), NEW x \in mine[p]
               PROVE  /\ x.broadcast \in broadcasts'
                      /\ IF job[p].op = "legacy" THEN revision' = 5 /\ x.group = NoGroup
                         ELSE revision' > 5 /\ x.group \in TargetsOf[x.broadcast]
                      /\ revision' = Head7 /\ x.ref # Nobody =>
                            \E y \in replies' : y.id = x.ref /\ SameThread(x, y)
    BY <1>1, <1>2 DEF WriterOK, SameThread
  <2>1. /\ <<"replies", "write">> \in held[p]
        /\ x.broadcast \in broadcasts
        /\ IF job[p].op = "legacy" THEN revision = 5 /\ x.group = NoGroup
           ELSE revision > 5 /\ x.group \in TargetsOf[x.broadcast]
        /\ revision = Head7 /\ x.ref # Nobody =>
              \E y \in replies : y.id = x.ref /\ SameThread(x, y)
    BY <1>2 DEF WriterOK
  <2>2. \/ UNCHANGED <<revision, broadcasts, replies, confirmations>>
        \/ Replied(q)
        \/ revision < 5
    BY <1>2, <2>1, WhileHeld
  <2>3. ~(revision < 5)
    BY <1>2, <2>1
  <2> QED
    BY <2>1, <2>2, <2>3 DEF Replied
<1>4. UpgradeOK(p)'
  <2> SUFFICES ASSUME state[p] = "running", job[p].op = "upgrade", start[p] \in {5, 6}
               PROVE  UpgradeOK(p)'
    BY <1>1 DEF UpgradeOK
  <2>1. CASE todo[p] = Upgrade(start[p])
    <3>1. Checked(p)'
      <4>1. CASE start[p] = 5
        BY <1>1, <2>1, <4>1, Upgrade5Order DEF Checked
      <4>2. CASE start[p] = 6
        BY <1>1, <2>1, <4>2, Upgrade6 DEF Checked
      <4> QED
        BY <4>1, <4>2
    <3> QED
      BY <1>1, <2>1, <3>1 DEF UpgradeOK
  <2>2. CASE <<"replies", "exclusive">> \in held[p]
    <3>1. UNCHANGED <<broadcasts, replies, confirmations>>
      BY <1>2, <2>2, WhileHeld
    <3>2. Checked(p)
      BY <1>2 DEF UpgradeOK
    <3>3. Checked(p)'
      BY <1>1, <3>1, <3>2
      DEF Checked, Draft, Filled, Confirmed, Unambiguous, ThreadsValid, SameThread
    <3> QED
      BY <1>1, <2>2, <3>3 DEF UpgradeOK
  <2> QED
    BY <1>2, <2>1, <2>2 DEF UpgradeOK
<1> QED
  BY <1>3, <1>4

LEMMA ReplyCommit ==
    ASSUME Base, RepliesOK, NEW p \in Process, state[p] = "running", Writer(job[p]), Replied(p)
    PROVE  DataOK'
<1>1. /\ replies' = replies \union mine[p]
      /\ UNCHANGED <<revision, broadcasts, confirmations>>
  BY DEF Replied
<1>2. DataOK /\ mine[p] \subseteq Reply /\ revision \in Nat
  BY DEF RepliesOK, Base, LocalOK, MayWrite, Writer, DataTypes, Revision
<1>3. ASSUME NEW x \in mine[p]
      PROVE  /\ x.broadcast \in broadcasts
             /\ x.given = x.group
             /\ IF x.group = NoGroup THEN revision = 5
                ELSE revision > 5 /\ x.group \in TargetsOf[x.broadcast]
             /\ revision = Head7 => x.group \in TargetsOf[x.broadcast]
             /\ revision = Head7 /\ x.ref # Nobody =>
                   \E y \in replies : y.id = x.ref /\ SameThread(x, y)
  <2>1. NoGroup \notin TargetsOf[x.broadcast]
    BY <1>2, Targets
  <2> QED
    BY <2>1 DEF RepliesOK, WriterOK, Head7
<1>4. \A x \in replies' :
          /\ x.broadcast \in broadcasts
          /\ x.given # NoGroup => x.given \in TargetsOf[x.broadcast]
          /\ revision # 5 => x.group \in TargetsOf[x.broadcast]
  BY <1>1, <1>2, <1>3 DEF DataOK
<1>5. NeverGuesses'
  <2>1. ASSUME NEW x \in replies'
        PROVE  /\ x.given = NoGroup /\ x.group # NoGroup => TargetsOf[x.broadcast] = {x.group}
               /\ x.given # NoGroup => x.group \in {NoGroup, x.given}
               /\ x.group = NoGroup <=> revision = 5
    <3>1. CASE x \in replies
      BY <1>2, <3>1 DEF DataOK, NeverGuesses
    <3>2. CASE x \in mine[p]
      BY <1>2, <1>3, <3>2
    <3> QED
      BY <1>1, <2>1, <3>1, <3>2
  <2> QED
    BY <1>1, <2>1 DEF NeverGuesses
<1>6. ThreadsClosedAtHead'
  <2> SUFFICES ASSUME revision = Head7
               PROVE  ThreadsClosedAtHead'
    BY <1>1 DEF ThreadsClosedAtHead
  <2>1. ASSUME NEW x \in replies', x.ref # Nobody
        PROVE  \E y \in replies' : y.id = x.ref /\ SameThread(x, y)
    <3>1. CASE x \in replies
      BY <1>1, <1>2, <2>1, <3>1 DEF DataOK, ThreadsClosedAtHead
    <3>2. CASE x \in mine[p]
      BY <1>1, <1>3, <2>1, <3>2
    <3> QED
      BY <1>1, <2>1, <3>1, <3>2
  <2>2. \A x \in replies' : x.broadcast \in broadcasts /\ x.group \in TargetsOf[x.broadcast]
    BY <1>1, <1>2, <1>3 DEF DataOK, ThreadsClosedAtHead
  <2>3. Confirmed
    BY <1>2 DEF DataOK, ThreadsClosedAtHead, Confirmed
  <2> QED
    BY <1>1, <2>1, <2>2, <2>3 DEF ThreadsClosedAtHead, Confirmed, SameThread
<1>7. revision' < 5 => broadcasts' = {} /\ replies' = {} /\ confirmations' = {}
  BY <1>1, <1>2, <1>3 DEF DataOK
<1> QED
  BY <1>1, <1>4, <1>5, <1>6, <1>7 DEF DataOK

LEMMA UpgradeCommit ==
    ASSUME Base, RepliesOK, NEW p \in Process, state[p] = "running", todo[p] = <<>>,
           job[p].op = "upgrade", start[p] < Head7, Upgraded(p)
    PROVE  DataOK'
<1>1. revision' = Head7 /\ replies' = Draft(p) /\ UNCHANGED <<broadcasts, confirmations>>
  BY DEF Upgraded
<1>2. revision = start[p] /\ start[p] \in 0 .. 6
  BY NothingLeft, VersionHeld DEF Migrates, Base, LifeTypes, Revision, Head7
<1>3. DataOK /\ mine[p] \subseteq Reply /\ replies \subseteq Reply
  BY DEF RepliesOK, Base, LocalOK, MayWrite, DataTypes
<1>4. Head7 # 5 /\ ~(Head7 < 5)
  BY DEF Head7
<1>5. CASE start[p] < 5
  <2>1. broadcasts = {} /\ replies = {} /\ confirmations = {} /\ Draft(p) = {}
    BY <1>2, <1>3, <1>5 DEF DataOK, Draft
  <2> QED
    BY <1>1, <1>4, <2>1 DEF DataOK, NeverGuesses, ThreadsClosedAtHead
<1>6. CASE start[p] \in {5, 6}
  <2>1. Checked(p)
    BY <1>6 DEF RepliesOK, UpgradeOK
  <2>2. ThreadsValid(Draft(p)) /\ Confirmed
    BY <2>1, NothingLeft DEF Checked
  <2>3. \A x \in Draft(p) :
          /\ x.broadcast \in broadcasts /\ x.group \in TargetsOf[x.broadcast] /\ x.group # NoGroup
          /\ x.given # NoGroup => x.given \in TargetsOf[x.broadcast] /\ x.group = x.given
          /\ x.given = NoGroup => TargetsOf[x.broadcast] = {x.group}
    <3> TAKE x \in Draft(p)
    <3>1. CASE start[p] = 5
      <4>1. Filled(mine[p]) /\ x \in mine[p]
        BY <2>1, <3>1, NothingLeft DEF Checked, Draft
      <4>2. x.broadcast \in broadcasts /\ TargetsOf[x.broadcast] = {x.group}
            /\ x.given \in {NoGroup, x.group}
        BY <4>1 DEF Filled
      <4>3. NoGroup \notin TargetsOf[x.broadcast]
        BY <1>3, <4>1, Targets
      <4> QED
        BY <4>2, <4>3
    <3>2. CASE start[p] = 6
      <4>1. x \in replies /\ revision = 6
        BY <1>2, <3>2 DEF Draft
      <4>2. /\ x.broadcast \in broadcasts /\ x.group \in TargetsOf[x.broadcast]
            /\ x.given # NoGroup => x.given \in TargetsOf[x.broadcast]
        BY <1>3, <4>1 DEF DataOK
      <4>3. NoGroup \notin TargetsOf[x.broadcast]
        BY <1>3, <4>1, Targets
      <4>4. /\ x.given = NoGroup /\ x.group # NoGroup => TargetsOf[x.broadcast] = {x.group}
            /\ x.given # NoGroup => x.group \in {NoGroup, x.given}
        BY <1>3, <4>1 DEF DataOK, NeverGuesses
      <4> QED
        BY <4>2, <4>3, <4>4
    <3> QED
      BY <1>6, <3>1, <3>2
  <2>4. NeverGuesses'
    BY <1>1, <1>4, <2>3 DEF NeverGuesses
  <2>5. ThreadsClosedAtHead'
    BY <1>1, <2>2, <2>3 DEF ThreadsClosedAtHead, ThreadsValid, SameThread, Confirmed
  <2> QED
    BY <1>1, <1>4, <2>3, <2>4, <2>5 DEF DataOK
<1> QED
  BY <1>2, <1>5, <1>6

LEMMA DowngradeCommit ==
    ASSUME Base, RepliesOK, NEW p \in Process, state[p] = "running", todo[p] = <<>>,
           job[p].op = "downgrade", start[p] > job[p].to, Downgraded(p, job[p].to)
    PROVE  DataOK'
<1> DEFINE to == job[p].to
<1>1. to \in 3 .. 7 /\ start[p] \in 0 .. 7
  BY JobAssumption DEF Base, LocalOK, LifeTypes, Revision, Head7
<1>2. revision = start[p] /\ start[p] > to
  BY NothingLeft, VersionHeld DEF Migrates
<1>3. Downgraded(p, to)
  OBVIOUS
<1>4. DataOK /\ replies \subseteq Reply
  BY DEF RepliesOK, Base, DataTypes
<1> HIDE DEF to
<1>5. revision' = to /\ to # Head7 /\ revision \in 0 .. 7 /\ revision > to
  BY <1>1, <1>2, <1>3 DEF Downgraded, Head7
<1>6. ThreadsClosedAtHead'
  BY <1>5 DEF ThreadsClosedAtHead
<1>7. CASE to < 5
  <2>1. broadcasts' = {} /\ replies' = {} /\ confirmations' = {}
    BY <1>3, <1>7 DEF Downgraded
  <2> QED
    BY <1>6, <2>1 DEF DataOK, NeverGuesses
<1>8. CASE to = 5
  <2>1. /\ UNCHANGED <<broadcasts, confirmations>>
        /\ replies' = {[x EXCEPT !.group = NoGroup] : x \in replies}
    BY <1>3, <1>8 DEF Downgraded
  <2>2. \A y \in replies' :
          /\ y.group = NoGroup /\ y.broadcast \in broadcasts
          /\ y.given # NoGroup => y.given \in TargetsOf[y.broadcast]
    <3> TAKE y \in replies'
    <3>1. PICK x \in replies : y = [x EXCEPT !.group = NoGroup]
      BY <2>1
    <3>2. y.group = NoGroup /\ y.broadcast = x.broadcast /\ y.given = x.given
      BY <1>4, <3>1 DEF Reply
    <3> QED
      BY <1>4, <3>2 DEF DataOK
  <2> QED
    BY <1>5, <1>6, <1>8, <2>1, <2>2 DEF DataOK, NeverGuesses
<1>9. CASE to > 5
  <2>1. UNCHANGED <<broadcasts, replies, confirmations>>
    BY <1>1, <1>3, <1>9 DEF Downgraded
  <2>2. to # 5 /\ revision # 5 /\ ~(to < 5)
    BY <1>1, <1>5, <1>9
  <2> QED
    BY <1>4, <1>5, <1>6, <2>1, <2>2 DEF DataOK, NeverGuesses
<1> QED
  BY <1>1, <1>7, <1>8, <1>9

LEMMA RepliesCommit ==
    ASSUME Base, RepliesOK, NEW p \in Process, Commit(p)
    PROVE  RepliesOK'
<1>1. state[p] = "running" /\ todo[p] = <<>> /\ End(p, "ok") /\ "ok" \in Outcome
  BY CommitCases DEF Outcome
<1>2. WriterOK(p)' /\ UpgradeOK(p)'
  BY <1>1, EndMoves DEF WriterOK, UpgradeOK
<1>3. DataOK'
  <2>1. CASE job[p].op = "seed" /\ Seeded(p)
    BY <2>1 DEF Seeded, RepliesOK, DataOK, NeverGuesses, ThreadsClosedAtHead, SameThread
  <2>2. CASE UNCHANGED database
    BY <2>2, RepliesSame DEF RepliesOK
  <2> QED
    BY <1>1, <2>1, <2>2, CommitCases, ReplyCommit, UpgradeCommit, DowngradeCommit
<1> QED
  BY <1>2, <1>3, OthersCommit DEF RepliesOK

LEMMA RepliesStep == Base /\ RepliesOK /\ [Next]_vars => RepliesOK'
<1> SUFFICES ASSUME Base, RepliesOK, [Next]_vars
             PROVE  RepliesOK'
  OBVIOUS
<1>1. CASE UNCHANGED vars
  <2>1. UNCHANGED database /\ UNCHANGED local
    BY <1>1 DEF vars
  <2>2. UNCHANGED <<revision, broadcasts, replies, confirmations, state, job, start, todo, held,
                    mine>>
    BY <2>1 DEF database, local
  <2>3. ASSUME NEW p \in Process
        PROVE  WriterOK(p)' /\ UpgradeOK(p)'
    <3>1. WriterOK(p)'
      BY <2>2 DEF RepliesOK, WriterOK, SameThread
    <3>2. UpgradeOK(p)'
      BY <2>2
      DEF RepliesOK, UpgradeOK, Checked, Draft, Filled, Confirmed, Unambiguous, ThreadsValid,
          SameThread
    <3> QED
      BY <3>1, <3>2
  <2> QED
    BY <2>1, <2>3, RepliesSame DEF RepliesOK
<1>2. ASSUME NEW p \in Process, NEW statements, NEW written, Exec(p, statements, written)
      PROVE  RepliesOK'
  <2>1. Others(p) /\ UNCHANGED database
    BY <1>2, ExecMoves
  <2>2. WriterOK(p)' /\ UpgradeOK(p)'
    BY <1>2, WriterExec, UpgradeExec
  <2> QED
    BY <2>1, <2>2, RepliesOthers DEF RepliesOK
<1>3. "failed" \in Outcome /\ "deadlock" \in Outcome
  BY DEF Outcome
<1> QED
  BY <1>1, <1>2, <1>3, Steps, RepliesBegin, RepliesFail, RepliesCommit

LEMMA RepliesHold == Spec => []RepliesOK
BY BaseHolds, RepliesInit, RepliesStep, PTL DEF Spec

\* The migration never guesses the group of a reply that was written without one.
THEOREM GroupsNeverGuessed == Spec => []NeverGuesses
<1>1. RepliesOK => NeverGuesses
  BY DEF RepliesOK, DataOK
<1> QED
  BY <1>1, RepliesHold, PTL

\* No order of writers, upgrades and downgrades leaves an open thread or a stray
\* confirmation at the head.
THEOREM HeadHasClosedThreads == Spec => []ThreadsClosedAtHead
<1>1. RepliesOK => ThreadsClosedAtHead
  BY DEF RepliesOK, DataOK
<1> QED
  BY <1>1, RepliesHold, PTL

-----------------------------------------------------------------------------
(* Seeds. *)

\* Every set of natural numbers has a least one: what is below it is a finite set.
LEMMA Smallest ==
    ASSUME NEW S \in SUBSET Nat, S # {}
    PROVE  \E n \in S : \A m \in S : n <= m
<1> DEFINE below == {1 .. n : n \in S}
           R == StrictSubsetOrdering(Nat)
           F == FiniteSubsetsOf(Nat)
<1>1. below \subseteq F /\ below # {}
  <2>1. ASSUME NEW n \in Nat
        PROVE  1 .. n \in F
    <3>1. IsFiniteSet(1 .. n)
      BY FS_Interval
    <3>2. 1 .. n \subseteq Nat
      OBVIOUS
    <3> QED
      BY <3>1, <3>2 DEF FiniteSubsetsOf
  <2> QED
    BY <2>1
<1>2. IsWellFoundedOn(R, F)
  BY FS_StrictSubsetOrderingWellFounded
<1> HIDE DEF below, R, F
<1>3. PICK a \in below : \A b \in below : <<b, a>> \notin R
  BY <1>1, <1>2, WFMin
<1>4. PICK n \in S : a = 1 .. n
  BY DEF below
<1>5. ASSUME NEW m \in S, m < n
      PROVE  FALSE
  <2>1. 1 .. m \in below /\ <<1 .. m, a>> \notin R
    BY <1>3 DEF below
  <2>2. 1 .. m \subseteq a /\ a \in SUBSET Nat /\ n \in a /\ n \notin 1 .. m
    BY <1>4, <1>5
  <2>3. <<1 .. m, a>> \in R
    BY <2>2 DEF R, StrictSubsetOrdering
  <2> QED
    BY <2>1, <2>3
<1> QED
  BY <1>5

RowsOK ==
    /\ \A x \in rows : revision < 4 \/ TableOf(x.item) # "accounts" => x.type = "none"
    /\ \A x \in rows : x.by \in Process => state[x.by] = "ok"
    /\ \A x, y \in rows : x # y /\ x.item = y.item /\ x.type = y.type =>
          TableOf(x.item) = "groups" /\ {x.by, y.by} \in overlap

Both(p, q) == p # q /\ state[p] = "running" /\ state[q] = "running"

Together ==
    \A p, q \in Process : Both(p, q) /\ job[p].op = "seed" => {p, q} \in overlap

\* No two seeds have inserted the same key.
Apart ==
    \A p, q \in Process : Both(p, q) /\ job[p].op = "seed" /\ job[q].op = "seed" =>
        \A x \in mine[p], y \in mine[q] : ~SameKey(x, y)

\* A row that p inserts is not there yet, but for a group of a seed that runs with it.
IsNew(x, p) ==
    \A y \in rows : x.item = y.item /\ x.type = y.type =>
        TableOf(x.item) = "groups" /\ {p, y.by} \in overlap

\* What a seed has inserted came before what it has still to look at.
MineOK(p) ==
    \A x \in mine[p] :
        /\ x = NewRow(p, x.item)
        /\ \A st \in Stmt : In(st, todo[p]) => Rank(x.item) < Rank(st.arg)
        /\ TableOf(x.item) = "accounts" =>
              revision >= 4 /\ <<"accounts", "write">> \in held[p]
        /\ IsNew(x, p)

\* Every item of the plan is there or still to be inserted; a group to be inserted is
\* not there, but for one of a seed that runs with it.
Covers(p, table) ==
    \A i \in DOMAIN Plan(job[p].dev) :
        \/ In(InsertSt(Plan(job[p].dev)[i]), todo[p])
        \/ \E x \in table : x.item = Plan(job[p].dev)[i]

GroupNew(p) ==
    todo[p] # <<>> /\ Now(p).do = "insert" /\ TableOf(Now(p).arg) = "groups" =>
        \A y \in rows : y.item = Now(p).arg => {p, y.by} \in overlap

SeedOK(p) ==
    state[p] = "running" /\ job[p].op = "seed" =>
        /\ \A l \in held[p] : l[2] \in {"share", "write"}
        /\ Covers(p, rows \union mine[p])
        /\ MineOK(p)
        /\ GroupNew(p)

\* What a downgrade to before 0004 has found out holds until it ends.
UntypeOK(p) ==
    state[p] = "running" /\ job[p].op = "downgrade" /\ start[p] > job[p].to /\ job[p].to < 4 =>
        In(UntypeSt, todo[p]) \/ UniqueAccounts

EndedOK(p) ==
    job[p].op = "seed" =>
        /\ state[p] = "ok" =>
              \A i \in DOMAIN Plan(job[p].dev) : \E x \in rows : x.item = Plan(job[p].dev)[i]
        /\ state[p] = "deadlock" =>
              \E q \in Process : state[q] # "idle" /\ job[q].op # "seed" /\ {p, q} \in overlap

SeedsOK ==
    /\ RowsOK /\ Together /\ Apart
    /\ \A p \in Process : SeedOK(p) /\ UntypeOK(p) /\ EndedOK(p)

LEMMA SeedsOutcome == Base /\ SeedsOK => SeedOutcome
BY DEF SeedsOK, RowsOK, EndedOK, SeedOutcome, Seeds, Seeding, Base, LocalOK, LifeTypes

LEMMA SeedsInit == Init => SeedsOK
<1> SUFFICES ASSUME Init
             PROVE  SeedsOK
  OBVIOUS
<1>1. \A x \in rows :
          x.by = Nobody /\ (revision < 4 \/ TableOf(x.item) # "accounts" => x.type = "none")
  BY DatabaseAssumption DEF Init
<1>2. Nobody \notin Process
  BY ProcessAssumption
<1>3. \A x, y \in rows : x.item = y.item /\ x.type = y.type => x = y
  <2>1. rows \subseteq Row
    BY DatabaseAssumption DEF Init
  <2> QED
    BY <1>1, <2>1 DEF Row
<1>4. RowsOK
  BY <1>1, <1>2, <1>3 DEF RowsOK
<1>5. \A p \in Process : state[p] = "idle"
  BY DEF Init
<1> QED
  BY <1>4, <1>5 DEF SeedsOK, Together, Apart, Both, SeedOK, UntypeOK, EndedOK

LEMMA ItemTypes ==
    ASSUME NEW item \in Item
    PROVE  TableOf(item) # "accounts" => TypeOf(item) = "none"
BY ItemAssumption DEF TableOf, TypeOf, Item

\* What does not touch the database is not noticed by those that do not move.
LEMMA SeedsOthers ==
    ASSUME Base, SeedsOK, NEW p \in Process, Others(p), UNCHANGED database, state[p] # "ok",
           overlap \subseteq overlap', state'[p] # "idle", state[p] # "idle" => job'[p] = job[p]
    PROVE  RowsOK' /\ \A q \in Process \ {p} : SeedOK(q)' /\ UntypeOK(q)' /\ EndedOK(q)'
<1>1. UNCHANGED <<revision, rows>>
  BY DEF database
<1>2. RowsOK'
  <2>1. \A q \in Process : state[q] = "ok" => state'[q] = "ok"
    BY DEF Others
  <2> QED
    BY <1>1, <2>1 DEF SeedsOK, RowsOK
<1>3. ASSUME NEW q \in Process \ {p}
      PROVE  SeedOK(q)' /\ UntypeOK(q)' /\ EndedOK(q)'
  <2>1. /\ state'[q] = state[q] /\ job'[q] = job[q] /\ start'[q] = start[q]
        /\ todo'[q] = todo[q] /\ held'[q] = held[q] /\ mine'[q] = mine[q]
    BY DEF Others
  <2>2. SeedOK(q) /\ UntypeOK(q) /\ EndedOK(q)
    BY DEF SeedsOK
  <2>3. SeedOK(q)'
    BY <1>1, <2>1, <2>2 DEF SeedOK, Covers, MineOK, IsNew, GroupNew, Now, NewRow
  <2>4. UntypeOK(q)'
    BY <1>1, <2>1, <2>2 DEF UntypeOK, UniqueAccounts
  <2>5. EndedOK(q)'
    <3>1. \A r \in Process : state[r] # "idle" => state'[r] # "idle" /\ job'[r] = job[r]
      BY DEF Others
    <3> QED
      BY <1>1, <2>1, <2>2, <3>1 DEF EndedOK
  <2> QED
    BY <2>3, <2>4, <2>5
<1> QED
  BY <1>2, <1>3

LEMMA SeedsBegin ==
    ASSUME Base, SeedsOK, NEW p \in Process, Begin(p)
    PROVE  SeedsOK'
<1>1. /\ state[p] = "idle" /\ Others(p) /\ UNCHANGED database
      /\ state'[p] = "running" /\ start'[p] = revision
      /\ held'[p] = {} /\ mine'[p] = {} /\ job'[p] \in Job
      /\ todo'[p] = Program(job'[p], revision)
  BY BeginMoves
<1>2. overlap' = overlap \union
        {{p, q} : q \in {q \in Running : Seeding(q, job) \/ Seeding(p, job')}}
  BY DEF Begin
<1>3. RowsOK' /\ \A q \in Process \ {p} : SeedOK(q)' /\ UntypeOK(q)' /\ EndedOK(q)'
  BY <1>1, <1>2, SeedsOthers
<1>4. Together'
  <2>1. \A q \in Process : state[q] = "running" /\ (job[q].op = "seed" \/ job'[p].op = "seed") =>
            {p, q} \in overlap'
    BY <1>2 DEF Running, Seeding
  <2>2. ASSUME NEW q \in Process, NEW r \in Process, Both(q, r)', job'[q].op = "seed"
        PROVE  {q, r} \in overlap'
    <3>1. CASE q = p
      <4>1. state[r] = "running"
        BY <1>1, <2>2, <3>1 DEF Both, Others
      <4> QED
        BY <2>1, <2>2, <3>1, <4>1
    <3>2. CASE r = p
      <4>1. state[q] = "running" /\ job[q].op = "seed"
        BY <1>1, <2>2, <3>2 DEF Both, Others
      <4>2. {q, r} = {p, q}
        BY <3>2
      <4> QED
        BY <2>1, <4>1, <4>2
    <3>3. CASE q # p /\ r # p
      <4>1. Both(q, r) /\ job[q].op = "seed"
        BY <1>1, <2>2, <3>3 DEF Both, Others
      <4> QED
        BY <1>2, <4>1 DEF SeedsOK, Together
    <3> QED
      BY <3>1, <3>2, <3>3
  <2> QED
    BY <2>2 DEF Together
<1>5. Apart'
  <2>1. ASSUME NEW q \in Process, NEW r \in Process, Both(q, r)', job'[q].op = "seed",
               job'[r].op = "seed", NEW x \in mine'[q], NEW y \in mine'[r]
        PROVE  ~SameKey(x, y)
    <3>1. q # p /\ r # p
      BY <1>1, <2>1
    <3>2. /\ Both(q, r) /\ job[q].op = "seed" /\ job[r].op = "seed"
          /\ mine'[q] = mine[q] /\ mine'[r] = mine[r]
      BY <1>1, <2>1, <3>1 DEF Both, Others
    <3> QED
      BY <2>1, <3>2 DEF SeedsOK, Apart
  <2> QED
    BY <2>1 DEF Apart, SameKey
<1>6. SeedOK(p)'
  <2> SUFFICES ASSUME job'[p].op = "seed"
               PROVE  SeedOK(p)'
    BY DEF SeedOK
  <2>1. job'[p].dev \in BOOLEAN /\ todo'[p] = SeedProgram(job'[p].dev)
    BY <1>1, JobAssumption DEF Program
  <2>2. /\ \A k \in DOMAIN Plan(job'[p].dev) : In(InsertSt(Plan(job'[p].dev)[k]), todo'[p])
        /\ todo'[p] # <<>> => Head(todo'[p]).do = "look"
    BY <2>1, SeedProgramFacts
  <2>3. Covers(p, rows \union mine[p])' /\ GroupNew(p)' /\ MineOK(p)'
    BY <1>1, <2>2 DEF Covers, GroupNew, MineOK, Now
  <2> QED
    BY <1>1, <2>3 DEF SeedOK
<1>7. UntypeOK(p)'
  <2> SUFFICES ASSUME job'[p].op = "downgrade", start'[p] > job'[p].to, job'[p].to < 4
               PROVE  In(UntypeSt, todo'[p])
    BY DEF UntypeOK
  <2>1. job'[p].to \in 3 .. Head7 /\ revision \in Revision
        /\ todo'[p] = Downgrade(revision, job'[p].to)
    BY <1>1, JobAssumption DEF Program, Base, DataTypes
  <2> QED
    BY <1>1, <2>1, DowngradeContents
<1>8. EndedOK(p)'
  BY <1>1 DEF EndedOK
<1> QED
  BY <1>3, <1>4, <1>5, <1>6, <1>7, <1>8 DEF SeedsOK

\* Seeds insert in the order of their plan: among them somebody can go on.
LEMMA SeedsGoOn ==
    ASSUME Base, SeedsOK, NEW S \in SUBSET Process, S # {},
           \A q \in S : state[q] = "running" /\ job[q].op = "seed" /\ Blockers(q) \intersect S # {}
    PROVE  FALSE
<1> DEFINE R(q) == Rank(Now(q).arg)
           L == Len(Plan(TRUE))
           T == {L - R(q) : q \in S}
<1>1. \A q \in S : todo[q] # <<>>
  BY DEF Blockers
<1>2. \A q \in S :
          /\ Now(q).arg \in Item /\ Now(q).table = TableOf(Now(q).arg)
          /\ Now(q).mode \in {"share", "write"}
          /\ Now(q) \in Stmt /\ In(Now(q), todo[q])
  <2> TAKE q \in S
  <2>1. Now(q).arg \in Item /\ (Now(q) = LookSt(Now(q).arg) \/ Now(q) = InsertSt(Now(q).arg))
    BY <1>1, SeedNow
  <2>2. In(Now(q), todo[q])
    BY <1>1, NowFacts
  <2> QED
    BY <2>1, <2>2, SeedStmts DEF SeedStmt
<1>3. ASSUME NEW q \in S
      PROVE  \E r \in S : R(q) < R(r)
  <2>1. PICK r \in S : r \in Blockers(q)
    OBVIOUS
  <2>2. \A l \in held[r] : ~InTheWay(l[2], Now(q).mode)
    <3>1. \A l \in held[r] : l[2] \in {"share", "write"}
      BY DEF SeedsOK, SeedOK
    <3> QED
      BY <1>2, <3>1 DEF InTheWay
  <2>3. PICK x \in mine[r] : SameKey(x, NewRow(q, Now(q).arg))
    BY <2>1, <2>2 DEF Blockers
  <2>4. x.item = Now(q).arg
    BY <2>3 DEF SameKey, NewRow
  <2>5. Rank(x.item) < Rank(Now(r).arg)
    BY <1>2, <2>3 DEF SeedsOK, SeedOK, MineOK
  <2> QED
    BY <2>4, <2>5
<1>4. \A q \in S : R(q) \in 1 .. L /\ L \in Nat
  BY <1>2, RankFacts
<1> HIDE DEF R, L
<1>5. T \subseteq Nat /\ T # {}
  BY <1>4
<1> HIDE DEF T
<1>6. PICK n \in T : \A m \in T : n <= m
  BY <1>5, Smallest
<1> USE DEF T
<1>7. PICK q \in S : n = L - R(q)
  OBVIOUS
<1>8. PICK r \in S : R(q) < R(r)
  BY <1>3
<1>9. L - R(r) \in T /\ L - R(q) <= L - R(r)
  BY <1>6, <1>7
<1> QED
  BY <1>4, <1>8, <1>9

LEMMA SeedsFail ==
    ASSUME Base, SeedsOK, NEW p \in Process, NEW outcome \in {"failed", "deadlock"},
           state[p] = "running", outcome = "deadlock" => Deadlocked(p), Fail(p, outcome)
    PROVE  SeedsOK'
<1>1. /\ Others(p) /\ UNCHANGED database /\ state'[p] = outcome /\ job' = job
      /\ overlap' = overlap /\ mine'[p] = {}
  BY EndMoves DEF Fail, Outcome
<1>2. RowsOK' /\ \A q \in Process \ {p} : SeedOK(q)' /\ UntypeOK(q)' /\ EndedOK(q)'
  BY <1>1, SeedsOthers
<1>3. Together' /\ Apart'
  <2>1. ASSUME NEW q \in Process, NEW r \in Process, Both(q, r)'
        PROVE  Both(q, r) /\ mine'[q] = mine[q] /\ mine'[r] = mine[r]
    BY <1>1, <2>1 DEF Both, Others
  <2> QED
    BY <1>1, <2>1 DEF SeedsOK, Together, Apart, SameKey
<1>4. SeedOK(p)' /\ UntypeOK(p)'
  BY <1>1 DEF SeedOK, UntypeOK
<1>5. EndedOK(p)'
  <2> SUFFICES ASSUME job[p].op = "seed", outcome = "deadlock"
               PROVE  \E q \in Process :
                         state'[q] # "idle" /\ job[q].op # "seed" /\ {p, q} \in overlap
    BY <1>1 DEF EndedOK
  <2>1. PICK S \in SUBSET Running : p \in S /\ \A q \in S : Blockers(q) \intersect S # {}
    BY DEF Deadlocked
  <2>2. S \in SUBSET Process /\ \A q \in S : state[q] = "running"
    BY <2>1 DEF Running
  <2>3. PICK q \in S : job[q].op # "seed"
    BY <2>1, <2>2, SeedsGoOn
  <2>4. Both(p, q)
    BY <2>2, <2>3 DEF Both
  <2>5. {p, q} \in overlap
    BY <2>2, <2>4 DEF SeedsOK, Together
  <2>6. state'[q] # "idle"
    BY <1>1, <2>2, <2>4 DEF Both, Others
  <2> QED
    BY <2>2, <2>3, <2>5, <2>6
<1> QED
  BY <1>2, <1>3, <1>4, <1>5 DEF SeedsOK

LEMMA SameKeySym == \A x, y : SameKey(x, y) => SameKey(y, x)
BY DEF SameKey

\* What a seed comes to next.
LEMMA SeedNext ==
    ASSUME Base, NEW p \in Process, state[p] = "running", todo[p] # <<>>, job[p].op = "seed"
    PROVE  /\ Now(p).do = "insert" =>
                /\ \A st : In(st, Tail(todo[p])) => Rank(Now(p).arg) < Rank(st.arg)
                /\ Tail(todo[p]) # <<>> => Head(Tail(todo[p])).do = "look"
           /\ Now(p).do = "look" /\ Tail(Tail(todo[p])) # <<>> =>
                Head(Tail(Tail(todo[p]))).do = "look"
<1> DEFINE s == todo[p]
           t == Tail(s)
           u == Tail(t)
<1>1. s \in Seq(SeedStmt) /\ SeedShape(s) /\ s # <<>> /\ StmtOf(job[p]) = SeedStmt
  BY DEF Base, LocalOK, StmtOf, Kinds, SeedStmt, SeedKinds
<1>2. /\ Len(s) \in Nat \ {0} /\ DOMAIN s = 1 .. Len(s) /\ DOMAIN t = 1 .. Len(s) - 1
      /\ \A i \in 1 .. Len(s) - 1 : t[i] = s[i + 1]
      /\ t \in Seq(SeedStmt) /\ Now(p) = s[1]
  BY <1>1, HeadTail DEF Now
<1>3. t # <<>> => Head(t) = t[1] /\ 1 \in DOMAIN t
  <2> SUFFICES ASSUME t # <<>>
               PROVE  Head(t) = t[1] /\ 1 \in DOMAIN t
    OBVIOUS
  <2>1. Head(t) = t[1] /\ Len(t) \in Nat \ {0} /\ DOMAIN t = 1 .. Len(t)
    BY <1>2, HeadTail
  <2> QED
    BY <2>1
<1>4. ASSUME Now(p).do = "look"
      PROVE  t # <<>> /\ Head(t).do = "insert"
  <2>1. t # <<>> /\ Head(t) = InsertSt(Now(p).arg) /\ Now(p).arg \in Item
    BY <1>4, SeedNow
  <2> QED
    BY <2>1, SeedStmts
<1> HIDE DEF s, t
<1>5. ASSUME Now(p).do = "insert"
      PROVE  /\ \A st : In(st, t) => Rank(Now(p).arg) < Rank(st.arg)
             /\ t # <<>> => Head(t).do = "look"
  <2>1. 1 \in DOMAIN s /\ s[1].do = "insert"
    BY <1>2, <1>5
  <2>2. ASSUME NEW st, In(st, t)
        PROVE  Rank(Now(p).arg) < Rank(st.arg)
    <3>1. PICK i \in 1 .. Len(s) - 1 : s[i + 1] = st
      BY <1>2, <2>2 DEF In
    <3>2. i + 1 \in DOMAIN s /\ 1 < i + 1
      BY <1>2
    <3> QED
      BY <1>1, <1>2, <2>1, <3>1, <3>2 DEF SeedShape
  <2>3. ASSUME t # <<>>
        PROVE  Head(t).do = "look"
    <3>1. Head(t) = t[1] /\ 1 \in 1 .. Len(s) - 1
      BY <1>2, <1>3, <2>3
    <3>2. 1 + 1 \in DOMAIN s /\ t[1] = s[1 + 1]
      BY <1>2, <3>1
    <3> QED
      BY <1>1, <2>1, <3>1, <3>2 DEF SeedShape
  <2> QED
    BY <2>2, <2>3
<1>6. ASSUME Now(p).do = "look", u # <<>>
      PROVE  Head(u).do = "look"
  <2>1. t # <<>> /\ Head(t).do = "insert" /\ Head(t) = t[1] /\ 1 \in DOMAIN t
    BY <1>3, <1>4, <1>6
  <2>2. /\ Len(t) \in Nat \ {0} /\ DOMAIN t = 1 .. Len(t) /\ DOMAIN u = 1 .. Len(t) - 1
        /\ \A i \in 1 .. Len(t) - 1 : u[i] = t[i + 1]
        /\ u \in Seq(SeedStmt)
    BY <1>2, <2>1, HeadTail
  <2>3. Head(u) = u[1] /\ Len(u) \in Nat \ {0} /\ DOMAIN u = 1 .. Len(u)
    BY <1>6, <2>2, HeadTail
  <2> HIDE DEF u
  <2>4. 1 \in DOMAIN u
    BY <2>3
  <2>5. 1 + 1 \in DOMAIN t /\ Head(u) = t[1 + 1]
    BY <2>2, <2>3, <2>4
  <2>6. SeedShape(t)
    BY <1>1, SeedShapeTail DEF t
  <2> QED
    BY <2>1, <2>5, <2>6 DEF SeedShape
<1> QED
  BY <1>5, <1>6 DEF s, t

\* A look.
LEMMA SeedLooks ==
    ASSUME Base, SeedsOK, NEW p \in Process, NEW statements, NEW written,
           Exec(p, statements, written), job[p].op = "seed", Now(p).do = "look"
    PROVE  SeedOK(p)'
<1>1. /\ state[p] = "running" /\ UNCHANGED database /\ overlap' = overlap
      /\ job' = job /\ held'[p] = held[p] \union {<<Now(p).table, Now(p).mode>>}
      /\ todo'[p] = statements /\ mine'[p] = written
  BY ExecMoves
<1>2. todo[p] # <<>> /\ written = mine[p] /\ Leaves(p, statements) /\ UNCHANGED <<revision, rows>>
  BY <1>1 DEF Exec, Writes, database
<1>3. /\ Now(p).arg \in Item /\ (Now(p) = LookSt(Now(p).arg) \/ Now(p) = InsertSt(Now(p).arg))
      /\ Tail(todo[p]) # <<>> /\ Head(Tail(todo[p])) = InsertSt(Now(p).arg)
      /\ \A st : In(st, todo[p]) <=>
            \/ st = Now(p) \/ st = InsertSt(Now(p).arg) \/ In(st, Tail(Tail(todo[p])))
  BY <1>1, <1>2, SeedNow
<1>4. \A st : In(st, todo[p]) <=> st = Now(p) \/ In(st, Tail(todo[p]))
  BY <1>1, <1>2, NowFacts
<1>5. Now(p) = LookSt(Now(p).arg) /\ Now(p).mode = "share"
  BY <1>3, SeedStmts
<1>6. /\ \A l \in held[p] : l[2] \in {"share", "write"}
      /\ Covers(p, rows \union mine[p]) /\ MineOK(p)
  BY <1>1 DEF SeedsOK, SeedOK
<1>7. \A l \in held'[p] : l[2] \in {"share", "write"}
  BY <1>1, <1>5, <1>6
<1>8. \A st : In(st, statements) => In(st, todo[p])
  BY <1>2, <1>3, <1>4 DEF Leaves
<1>9. MineOK(p)'
  BY <1>1, <1>2, <1>6, <1>8 DEF MineOK, IsNew, NewRow
<1>10. ASSUME NEW item \in Item, In(InsertSt(item), todo[p])
       PROVE  \/ In(InsertSt(item), statements)
              \/ \E x \in rows \union mine[p] : x.item = item
  <2>1. InsertSt(item) # Now(p)
    BY <1>3, <1>5, SeedStmts
  <2>2. CASE Found(p, Now(p).arg)
    <3>1. statements = Tail(Tail(todo[p]))
      BY <1>2, <2>2 DEF Leaves
    <3>2. CASE InsertSt(item) = InsertSt(Now(p).arg)
      <4>1. item = Now(p).arg
        BY <1>3, <3>2, SeedStmts
      <4> QED
        BY <2>2, <4>1 DEF Found
    <3> QED
      BY <1>3, <1>10, <2>1, <3>1, <3>2
  <2>3. CASE ~Found(p, Now(p).arg)
    BY <1>2, <1>4, <1>10, <2>1, <2>3 DEF Leaves
  <2> QED
    BY <2>2, <2>3
<1>11. Covers(p, rows \union mine[p])'
  <2>1. ASSUME NEW i \in DOMAIN Plan(job[p].dev)
        PROVE  \/ In(InsertSt(Plan(job[p].dev)[i]), statements)
               \/ \E x \in rows \union mine[p] : x.item = Plan(job[p].dev)[i]
    <3>1. job[p].dev \in BOOLEAN
      BY <1>1, JobAssumption DEF Base, LocalOK
    <3>2. Plan(job[p].dev)[i] \in Item
      BY <3>1, RankFacts
    <3> QED
      BY <1>6, <1>10, <3>2 DEF Covers
  <2> QED
    BY <1>1, <1>2, <2>1 DEF Covers
<1>12. GroupNew(p)'
  <2>1. CASE Found(p, Now(p).arg)
    <3>1. statements = Tail(Tail(todo[p]))
      BY <1>2, <2>1 DEF Leaves
    <3>2. statements # <<>> => Head(statements).do = "look"
      BY <1>1, <1>2, <3>1, SeedNext
    <3> QED
      BY <1>1, <3>2 DEF GroupNew, Now
  <2>2. CASE ~Found(p, Now(p).arg)
    <3>1. Now(p)' = InsertSt(Now(p).arg)
      BY <1>1, <1>2, <1>3, <2>2 DEF Leaves, Now
    <3>2. Now(p)'.arg = Now(p).arg
      BY <1>3, <3>1, SeedStmts
    <3>3. ASSUME TableOf(Now(p).arg) = "groups", NEW y \in rows, y.item = Now(p).arg
          PROVE  FALSE
      <4>1. y.type = "none" /\ TypeOf(Now(p).arg) = "none"
        BY <1>3, <3>3, ItemTypes DEF SeedsOK, RowsOK
      <4> QED
        BY <2>2, <3>3, <4>1 DEF Found
    <3> QED
      BY <1>2, <3>2, <3>3 DEF GroupNew
  <2> QED
    BY <2>1, <2>2
<1> QED
  BY <1>7, <1>9, <1>11, <1>12 DEF SeedOK

\* An insert.
LEMMA SeedInserts ==
    ASSUME Base, SeedsOK, NEW p \in Process, NEW statements, NEW written,
           Exec(p, statements, written), job[p].op = "seed", Now(p).do = "insert"
    PROVE  SeedOK(p)'
<1> DEFINE new == NewRow(p, Now(p).arg)
<1>1. /\ state[p] = "running" /\ UNCHANGED database /\ overlap' = overlap
      /\ job' = job /\ held'[p] = held[p] \union {<<Now(p).table, Now(p).mode>>}
      /\ todo'[p] = statements /\ mine'[p] = written
  BY ExecMoves
<1>2. /\ todo[p] # <<>> /\ written = mine[p] \union {new} /\ statements = Tail(todo[p])
      /\ UNCHANGED <<revision, rows>>
      /\ Visible(Now(p).arg) /\ \A y \in rows : ~SameKey(new, y)
  BY <1>1 DEF Exec, Writes, Leaves, Allowed, database
<1>3. Now(p).arg \in Item /\ Now(p) = InsertSt(Now(p).arg)
  <2>1. Now(p).arg \in Item /\ (Now(p) = LookSt(Now(p).arg) \/ Now(p) = InsertSt(Now(p).arg))
    BY <1>1, <1>2, SeedNow
  <2> QED
    BY <2>1, SeedStmts
<1>4. Now(p).mode = "write" /\ Now(p).table = TableOf(Now(p).arg)
  BY <1>3, SeedStmts
<1>5. \A st : In(st, todo[p]) <=> st = Now(p) \/ In(st, statements)
  BY <1>1, <1>2, NowFacts
<1>6. /\ \A st : In(st, statements) => Rank(Now(p).arg) < Rank(st.arg)
      /\ statements # <<>> => Head(statements).do = "look"
  BY <1>1, <1>2, SeedNext
<1>7. /\ \A l \in held[p] : l[2] \in {"share", "write"}
      /\ Covers(p, rows \union mine[p]) /\ MineOK(p) /\ GroupNew(p)
  BY <1>1 DEF SeedsOK, SeedOK
<1>8. \A l \in held'[p] : l[2] \in {"share", "write"}
  BY <1>1, <1>4, <1>7
<1>9. new.item = Now(p).arg /\ new = NewRow(p, new.item)
  BY DEF NewRow
<1>10. IsNew(new, p)
  <2>1. ASSUME NEW y \in rows, new.item = y.item, new.type = y.type
        PROVE  TableOf(new.item) = "groups" /\ {p, y.by} \in overlap
    <3>1. TableOf(new.item) = "groups"
      BY <1>2, <2>1 DEF SameKey
    <3> QED
      BY <1>2, <1>3, <1>7, <1>9, <2>1, <3>1 DEF GroupNew
  <2> QED
    BY <2>1 DEF IsNew
<1>11. TableOf(new.item) = "accounts" => revision >= 4 /\ <<"accounts", "write">> \in held'[p]
  BY <1>1, <1>2, <1>4, <1>9 DEF Visible
<1> HIDE DEF new
<1>12. MineOK(p)'
  <2>1. ASSUME NEW x \in written
        PROVE  /\ x = NewRow(p, x.item)
               /\ \A st \in Stmt : In(st, statements) => Rank(x.item) < Rank(st.arg)
               /\ TableOf(x.item) = "accounts" =>
                     revision >= 4 /\ <<"accounts", "write">> \in held'[p]
               /\ IsNew(x, p)
    <3>1. CASE x = new
      BY <1>6, <1>9, <1>10, <1>11, <3>1
    <3>2. CASE x \in mine[p]
      BY <1>1, <1>5, <1>7, <3>2 DEF MineOK
    <3> QED
      BY <1>2, <2>1, <3>1, <3>2
  <2> QED
    BY <1>1, <1>2, <2>1 DEF MineOK, IsNew, NewRow
<1>13. Covers(p, rows \union mine[p])'
  <2>1. ASSUME NEW i \in DOMAIN Plan(job[p].dev)
        PROVE  \/ In(InsertSt(Plan(job[p].dev)[i]), statements)
               \/ \E x \in rows \union written : x.item = Plan(job[p].dev)[i]
    <3>1. job[p].dev \in BOOLEAN
      BY <1>1, JobAssumption DEF Base, LocalOK
    <3>2. Plan(job[p].dev)[i] \in Item
      BY <3>1, RankFacts
    <3>3. CASE InsertSt(Plan(job[p].dev)[i]) = Now(p)
      <4>1. Plan(job[p].dev)[i] = Now(p).arg
        BY <3>2, <3>3, SeedStmts
      <4> QED
        BY <1>2, <1>9, <4>1
    <3> QED
      BY <1>2, <1>5, <1>7, <3>3 DEF Covers
  <2> QED
    BY <1>1, <1>2, <2>1 DEF Covers
<1>14. GroupNew(p)'
  BY <1>1, <1>6 DEF GroupNew, Now
<1> QED
  BY <1>8, <1>12, <1>13, <1>14 DEF SeedOK

LEMMA SeedsExec ==
    ASSUME Base, SeedsOK, NEW p \in Process, NEW statements, NEW written,
           Exec(p, statements, written)
    PROVE  SeedsOK'
<1>1. /\ state[p] = "running" /\ Others(p) /\ UNCHANGED database /\ overlap' = overlap
      /\ state' = state /\ job' = job /\ start' = start
      /\ todo'[p] = statements /\ mine'[p] = written
  BY ExecMoves
<1>2. todo[p] # <<>> /\ Allowed(p) /\ Writes(p, written) /\ Blockers(p) = {}
  BY DEF Exec
<1>3. RowsOK' /\ \A q \in Process \ {p} : SeedOK(q)' /\ UntypeOK(q)' /\ EndedOK(q)'
  BY <1>1, SeedsOthers
<1>4. Together'
  BY <1>1 DEF SeedsOK, Together, Both
<1>5. /\ job[p] \in Job /\ Now(p).do \in Kinds(job[p])
      /\ \A st : In(st, todo[p]) <=> st = Now(p) \/ In(st, Tail(todo[p]))
  BY <1>1, <1>2, NowFacts
<1>6. Now(p).do \in {"look", "insert"} <=> job[p].op = "seed"
  BY <1>5, Who
<1>7. SeedOK(p)'
  BY <1>1, <1>6, SeedLooks, SeedInserts DEF SeedOK
<1>8. ASSUME job[p].op = "seed", NEW r \in Process \ {p}, state[r] = "running",
             job[r].op = "seed", NEW x \in written, NEW y \in mine[r]
      PROVE  ~SameKey(x, y)
  <2>1. CASE x \in mine[p]
    BY <1>1, <1>8, <2>1 DEF SeedsOK, Apart, Both
  <2>2. CASE x \notin mine[p]
    <3>1. x = NewRow(p, Now(p).arg) /\ Now(p).do = "insert"
      BY <1>2, <1>6, <1>8, <2>2 DEF Writes
    <3>2. ~SameKey(y, x)
      BY <1>1, <1>2, <1>8, <3>1 DEF Blockers
    <3> QED
      BY <3>2, SameKeySym
  <2> QED
    BY <2>1, <2>2
<1>9. Apart'
  <2>1. ASSUME NEW q \in Process, NEW r \in Process, Both(q, r), job[q].op = "seed",
               job[r].op = "seed", NEW x \in mine'[q], NEW y \in mine'[r]
        PROVE  ~SameKey(x, y)
    <3>1. \A o \in Process \ {p} : mine'[o] = mine[o]
      BY <1>1 DEF Others
    <3>2. CASE q = p
      BY <1>1, <1>8, <2>1, <3>1, <3>2 DEF Both
    <3>3. CASE r = p
      BY <1>1, <1>8, <2>1, <3>1, <3>3, SameKeySym DEF Both
    <3>4. CASE q # p /\ r # p
      BY <2>1, <3>1, <3>4 DEF SeedsOK, Apart
    <3> QED
      BY <3>2, <3>3, <3>4
  <2> QED
    BY <1>1, <2>1 DEF Apart, Both, SameKey
<1>10. UntypeOK(p)'
  <2> SUFFICES ASSUME job[p].op = "downgrade", start[p] > job[p].to, job[p].to < 4
               PROVE  In(UntypeSt, statements) \/ UniqueAccounts'
    BY <1>1 DEF UntypeOK
  <2>1. In(UntypeSt, todo[p]) \/ UniqueAccounts
    BY <1>1 DEF SeedsOK, UntypeOK
  <2>2. Now(p) = UntypeSt => UniqueAccounts
    BY <1>2, Kindly DEF Allowed
  <2>3. statements = Tail(todo[p])
    BY ExecTypes
  <2>4. UniqueAccounts => UniqueAccounts'
    BY <1>1 DEF UniqueAccounts, database
  <2> QED
    BY <1>5, <2>1, <2>2, <2>3, <2>4
<1>11. EndedOK(p)'
  BY <1>1 DEF EndedOK
<1> QED
  BY <1>3, <1>4, <1>7, <1>9, <1>10, <1>11 DEF SeedsOK

\* A migration across 0004 rewrites the accounts, which it has for itself.
Retyped(q) ==
    /\ <<"accounts", "exclusive">> \in held[q] /\ UniqueAccounts
    /\ \E type \in {"student", "none"} :
          /\ rows' = {Typed(x, type) : x \in rows}
          /\ type = "student" => revision' = Head7

LEMMA RowsChange ==
    ASSUME Base, SeedsOK, NEW q \in Process, Commit(q)
    PROVE  \/ job[q].op = "seed" /\ Seeded(q)
           \/ job[q].op # "seed" /\ rows' = rows /\ (revision' = revision \/ revision' >= 4)
           \/ job[q].op # "seed" /\ Retyped(q)
<1>1. /\ state[q] = "running" /\ todo[q] = <<>> /\ job[q] \in Job /\ start[q] \in Revision
  BY CommitCases DEF Base, LocalOK, LifeTypes
<1>2. \A table \in Table, st \in Stmt :
          /\ st.table = table /\ st.mode = "exclusive"
          /\ job[q].op # "seed" /\ In(st, Program(job[q], start[q]))
          => <<table, "exclusive">> \in held[q]
  BY <1>1, NothingLeft DEF Base, Kept
<1>3. "accounts" \in Table
  BY DEF Table
<1>4. CASE job[q].op = "seed" /\ Seeded(q)
  BY <1>4
<1>5. CASE Writer(job[q]) /\ Replied(q)
  BY <1>5 DEF Replied, Writer
<1>6. CASE job[q].op = "upgrade" /\ start[q] < Head7 /\ Upgraded(q)
  <2>1. CASE start[q] < 4
    <3> DEFINE st == Lock("accounts", "exclusive")
    <3>1. In(st, Program(job[q], start[q]))
      BY <1>1, <1>6, <2>1, UpgradeContents DEF Program
    <3>2. st \in Stmt /\ st.table = "accounts" /\ st.mode = "exclusive"
      BY DoType DEF Lock, Kind, Table, Mode
    <3> HIDE DEF st
    <3>3. <<"accounts", "exclusive">> \in held[q]
      BY <1>2, <1>3, <1>6, <3>1, <3>2
    <3>4. revision = start[q]
      BY <1>1, <1>6, NothingLeft, VersionHeld DEF Migrates
    <3>5. UniqueAccounts
      BY <2>1, <3>4 DEF SeedsOK, RowsOK, UniqueAccounts
    <3>6. rows' = {Typed(x, "student") : x \in rows} /\ revision' = Head7
      BY <1>6, <2>1 DEF Upgraded
    <3> QED
      BY <1>6, <3>3, <3>5, <3>6 DEF Retyped
  <2>2. CASE ~(start[q] < 4)
    BY <1>6, <2>2 DEF Upgraded, Head7
  <2> QED
    BY <2>1, <2>2
<1>7. CASE job[q].op = "downgrade" /\ start[q] > job[q].to /\ Downgraded(q, job[q].to)
  <2>1. job[q].to \in 3 .. Head7
    BY <1>1, <1>7, JobAssumption
  <2>2. CASE job[q].to < 4
    <3>1. In(UntypeSt, Program(job[q], start[q]))
      BY <1>1, <1>7, <2>1, <2>2, DowngradeContents DEF Program
    <3>2. UntypeSt \in Stmt /\ UntypeSt.table = "accounts" /\ UntypeSt.mode = "exclusive"
      BY DoType DEF UntypeSt, Kind, Table, Mode
    <3>3. <<"accounts", "exclusive">> \in held[q]
      BY <1>2, <1>3, <1>7, <3>1, <3>2
    <3>4. UniqueAccounts
      BY <1>1, <1>7, <2>2, NothingLeft DEF SeedsOK, UntypeOK
    <3>5. rows' = {Typed(x, "none") : x \in rows}
      BY <1>7, <2>2 DEF Downgraded
    <3> QED
      BY <1>7, <3>3, <3>4, <3>5 DEF Retyped
  <2>3. CASE ~(job[q].to < 4)
    <3>1. rows' = rows /\ revision' = job[q].to
      BY <1>7, <2>3 DEF Downgraded
    <3> QED
      BY <1>7, <2>1, <2>3, <3>1 DEF Head7
  <2> QED
    BY <2>2, <2>3
<1>8. CASE job[q].op # "seed" /\ UNCHANGED database
  BY <1>8 DEF database
<1> QED
  BY <1>4, <1>5, <1>6, <1>7, <1>8, CommitCases

\* Retyping changes accounts only.
LEMMA Retyping ==
    ASSUME Base, NEW type \in {"student", "none"}, NEW x \in rows
    PROVE  /\ Typed(x, type).item = x.item /\ Typed(x, type).by = x.by
           /\ TableOf(x.item) = "accounts" => Typed(x, type).type = type
           /\ TableOf(x.item) # "accounts" => Typed(x, type) = x
<1>1. x \in Row
  BY DEF Base, DataTypes
<1> QED
  BY <1>1 DEF Typed, Row

LEMMA ItemsStay ==
    ASSUME Base, SeedsOK, NEW q \in Process, Commit(q), NEW x \in rows
    PROVE  \E y \in rows' : y.item = x.item
<1>1. CASE Retyped(q)
  <2>1. PICK type \in {"student", "none"} : rows' = {Typed(y, type) : y \in rows}
    BY <1>1 DEF Retyped
  <2>2. Typed(x, type) \in rows' /\ Typed(x, type).item = x.item
    BY <2>1, Retyping
  <2> QED
    BY <2>2
<1> QED
  BY <1>1, RowsChange DEF Seeded

\* Two that hold a lock on the accounts, one of them for itself.
LEMMA AccountsAlone ==
    ASSUME Base, NEW p \in Process, NEW q \in Process, p # q, NEW mode \in Mode,
           <<"accounts", "exclusive">> \in held[p], <<"accounts", mode>> \in held[q]
    PROVE  FALSE
<1> DEFINE a == <<"accounts", "exclusive">>
           b == <<"accounts", mode>>
<1>1. a[1] = b[1] /\ a[2] = "exclusive"
  OBVIOUS
<1> HIDE DEF a, b
<1>2. ~InTheWay(a[2], b[2])
  BY <1>1 DEF Base, Mutex, a, b
<1> QED
  BY <1>1, <1>2 DEF InTheWay

LEMMA RowsCommit ==
    ASSUME Base, SeedsOK, NEW q \in Process, Commit(q)
    PROVE  RowsOK'
<1>1. Others(q) /\ overlap' = overlap /\ state[q] = "running" /\ state'[q] = "ok"
  BY CommitCases, EndMoves DEF Outcome
<1>2. \A r \in Process : state[r] = "ok" => state'[r] = "ok"
  BY <1>1 DEF Others
<1>3. revision \in Nat /\ rows \subseteq Row
  BY DEF Base, DataTypes, Revision
<1>4. CASE job[q].op = "seed" /\ Seeded(q)
  <2>1. rows' = rows \union mine[q] /\ revision' = revision
    BY <1>4 DEF Seeded
  <2>2. MineOK(q) /\ mine[q] \subseteq Row
    BY <1>1, <1>4 DEF SeedsOK, SeedOK, Base, LocalOK, MayWrite
  <2>3. ASSUME NEW x \in mine[q]
        PROVE  /\ x.by = q
               /\ revision < 4 \/ TableOf(x.item) # "accounts" => x.type = "none"
               /\ \A y \in rows : x.item = y.item /\ x.type = y.type =>
                     TableOf(x.item) = "groups" /\ {q, y.by} \in overlap
               /\ \A y \in mine[q] : x.item = y.item => x = y
    <3>1. x = NewRow(q, x.item) /\ x.item \in Item
      BY <2>2 DEF MineOK, Row
    <3>2. x.by = q /\ x.type = TypeOf(x.item)
      BY <3>1 DEF NewRow
    <3>3. TableOf(x.item) = "accounts" => ~(revision < 4)
      BY <1>3, <2>2 DEF MineOK
    <3>4. \A y \in mine[q] : x.item = y.item => x = y
      BY <2>2, <3>1 DEF MineOK
    <3> QED
      BY <2>2, <3>1, <3>2, <3>3, <3>4, ItemTypes DEF MineOK, IsNew
  <2>4. ASSUME NEW x \in rows', NEW y \in rows', x # y, x.item = y.item, x.type = y.type
        PROVE  TableOf(x.item) = "groups" /\ {x.by, y.by} \in overlap
    <3>1. CASE x \in rows /\ y \in rows
      BY <2>4, <3>1 DEF SeedsOK, RowsOK
    <3>2. CASE x \in mine[q] /\ y \in rows
      BY <2>3, <2>4, <3>2
    <3>3. CASE x \in rows /\ y \in mine[q]
      <4>1. TableOf(y.item) = "groups" /\ {q, x.by} \in overlap /\ y.by = q
        BY <2>3, <2>4, <3>3
      <4>2. {x.by, y.by} = {q, x.by}
        BY <4>1
      <4> QED
        BY <2>4, <4>1, <4>2
    <3>4. CASE x \in mine[q] /\ y \in mine[q]
      BY <2>3, <2>4, <3>4
    <3> QED
      BY <2>1, <2>4, <3>1, <3>2, <3>3, <3>4
  <2>5. \A x \in rows' : revision < 4 \/ TableOf(x.item) # "accounts" => x.type = "none"
    BY <2>1, <2>3 DEF SeedsOK, RowsOK
  <2>6. \A x \in rows' : x.by \in Process => state'[x.by] = "ok"
    BY <1>1, <1>2, <2>1, <2>3 DEF SeedsOK, RowsOK
  <2> QED
    BY <1>1, <2>1, <2>4, <2>5, <2>6 DEF RowsOK
<1>5. CASE rows' = rows /\ (revision' = revision \/ revision' >= 4)
  <2>1. revision' < 4 => revision < 4
    <3>1. revision' \in Nat
      BY BaseCommit DEF Base, DataTypes, Revision
    <3> QED
      BY <1>5, <3>1
  <2> QED
    BY <1>1, <1>2, <1>5, <2>1 DEF SeedsOK, RowsOK
<1>6. CASE Retyped(q)
  <2>1. PICK type \in {"student", "none"} :
            /\ rows' = {Typed(x, type) : x \in rows}
            /\ type = "student" => revision' = Head7
    BY <1>6 DEF Retyped
  <2>2. revision' < 4 => type = "none"
    BY <2>1 DEF Head7
  <2>3. ASSUME NEW a \in rows'
        PROVE  /\ revision' < 4 \/ TableOf(a.item) # "accounts" => a.type = "none"
               /\ a.by \in Process => state'[a.by] = "ok"
    <3>1. PICK x \in rows : a = Typed(x, type)
      BY <2>1
    <3>2. /\ a.item = x.item /\ a.by = x.by
          /\ TableOf(x.item) = "accounts" => a.type = type
          /\ TableOf(x.item) # "accounts" => a = x
      BY <3>1, Retyping
    <3>3. /\ TableOf(x.item) # "accounts" => x.type = "none"
          /\ x.by \in Process => state[x.by] = "ok"
      BY DEF SeedsOK, RowsOK
    <3> QED
      BY <1>2, <2>2, <3>2, <3>3
  <2>4. ASSUME NEW a \in rows', NEW b \in rows', a # b, a.item = b.item, a.type = b.type
        PROVE  TableOf(a.item) = "groups" /\ {a.by, b.by} \in overlap
    <3>1. PICK x \in rows : a = Typed(x, type)
      BY <2>1
    <3>2. PICK y \in rows : b = Typed(y, type)
      BY <2>1
    <3>3. a.item = x.item /\ (TableOf(x.item) # "accounts" => a = x)
      BY <3>1, Retyping
    <3>4. b.item = y.item /\ (TableOf(y.item) # "accounts" => b = y)
      BY <3>2, Retyping
    <3>5. x # y /\ x.item = y.item
      BY <2>4, <3>1, <3>2, <3>3, <3>4
    <3>6. TableOf(x.item) # "accounts"
      BY <1>6, <3>5 DEF Retyped, UniqueAccounts
    <3> QED
      BY <2>4, <3>3, <3>4, <3>5, <3>6 DEF SeedsOK, RowsOK
  <2> QED
    BY <1>1, <2>3, <2>4 DEF RowsOK
<1> QED
  BY <1>4, <1>5, <1>6, RowsChange

\* A commit does not disturb the seeds that still run.
LEMMA SeedStays ==
    ASSUME Base, SeedsOK, NEW q \in Process, Commit(q), NEW p \in Process, p # q
    PROVE  SeedOK(p)'
<1>1. /\ state'[p] = state[p] /\ job'[p] = job[p] /\ start'[p] = start[p]
      /\ todo'[p] = todo[p] /\ held'[p] = held[p] /\ mine'[p] = mine[p]
      /\ overlap' = overlap /\ state[q] = "running"
  BY CommitCases, EndMoves DEF Others, Outcome
<1> SUFFICES ASSUME state[p] = "running", job[p].op = "seed"
             PROVE  SeedOK(p)'
  BY <1>1 DEF SeedOK
<1>2. /\ \A l \in held[p] : l[2] \in {"share", "write"}
      /\ Covers(p, rows \union mine[p]) /\ MineOK(p) /\ GroupNew(p)
  BY DEF SeedsOK, SeedOK
<1>3. {p, q} \in overlap
  BY <1>1 DEF SeedsOK, Together, Both
<1>4. Covers(p, rows \union mine[p])'
  <2>1. ASSUME NEW i \in DOMAIN Plan(job[p].dev), NEW x \in rows \union mine[p],
               x.item = Plan(job[p].dev)[i]
        PROVE  \E y \in rows' \union mine[p] : y.item = Plan(job[p].dev)[i]
    BY <2>1, ItemsStay
  <2> QED
    BY <1>1, <1>2, <2>1 DEF Covers
\* What is new of a row was committed by q or is an account retyped.
<1>5. ASSUME NEW b \in rows'
      PROVE  \/ b \in rows
             \/ job[q].op = "seed" /\ b \in mine[q] /\ b.by = q
             \/ TableOf(b.item) = "accounts" /\ Retyped(q)
  <2>1. CASE job[q].op = "seed" /\ Seeded(q)
    <3>1. \A x \in mine[q] : x = NewRow(q, x.item)
      BY <1>1, <2>1 DEF SeedsOK, SeedOK, MineOK
    <3>2. \A x \in mine[q] : x.by = q
      BY <3>1 DEF NewRow
    <3> QED
      BY <2>1, <3>2 DEF Seeded
  <2>2. CASE Retyped(q)
    <3>1. PICK type \in {"student", "none"} : rows' = {Typed(x, type) : x \in rows}
      BY <2>2 DEF Retyped
    <3>2. PICK x \in rows : b = Typed(x, type)
      BY <3>1
    <3> QED
      BY <2>2, <3>2, Retyping
  <2> QED
    BY <2>1, <2>2, RowsChange
<1>6. ASSUME NEW x \in mine[p], Retyped(q)
      PROVE  TableOf(x.item) # "accounts"
  <2>1. <<"accounts", "exclusive">> \in held[q]
    BY <1>6 DEF Retyped
  <2>2. TableOf(x.item) = "accounts" => <<"accounts", "write">> \in held[p]
    BY <1>2 DEF MineOK
  <2>3. "write" \in Mode
    BY DEF Mode
  <2> QED
    BY <2>1, <2>2, <2>3, AccountsAlone
<1>7. ASSUME NEW x \in mine[p]
      PROVE  /\ TableOf(x.item) = "accounts" => revision' >= 4
             /\ IsNew(x, p)'
  <2>1. TableOf(x.item) = "accounts" => revision' >= 4
    <3>1. TableOf(x.item) = "accounts" => revision >= 4
      BY <1>2 DEF MineOK
    <3> QED
      BY <1>6, <3>1, RowsChange DEF Seeded
  <2>2. ASSUME NEW b \in rows', x.item = b.item, x.type = b.type
        PROVE  TableOf(x.item) = "groups" /\ {p, b.by} \in overlap
    <3>1. CASE b \in rows
      BY <1>2, <2>2, <3>1 DEF MineOK, IsNew
    <3>2. CASE job[q].op = "seed" /\ b \in mine[q] /\ b.by = q
      <4>1. ~SameKey(x, b)
        BY <1>1, <3>2 DEF SeedsOK, Apart, Both
      <4> QED
        BY <1>3, <2>2, <3>2, <4>1 DEF SameKey
    <3> QED
      BY <1>5, <1>6, <2>2, <3>1, <3>2
  <2> QED
    BY <1>1, <2>1, <2>2 DEF IsNew
<1>8. MineOK(p)'
  BY <1>1, <1>2, <1>7 DEF MineOK, NewRow
<1>9. GroupNew(p)'
  <2>1. ASSUME todo[p] # <<>>, Now(p).do = "insert", TableOf(Now(p).arg) = "groups",
               NEW b \in rows', b.item = Now(p).arg
        PROVE  {p, b.by} \in overlap
    <3>1. CASE b \in rows
      BY <1>2, <2>1, <3>1 DEF GroupNew
    <3> QED
      BY <1>3, <1>5, <2>1, <3>1
  <2> QED
    BY <1>1, <2>1 DEF GroupNew, Now
<1> QED
  BY <1>1, <1>2, <1>4, <1>8, <1>9 DEF SeedOK

LEMMA UntypeStays ==
    ASSUME Base, SeedsOK, NEW q \in Process, Commit(q), NEW p \in Process, p # q
    PROVE  UntypeOK(p)'
<1>1. /\ state'[p] = state[p] /\ job'[p] = job[p] /\ start'[p] = start[p]
      /\ todo'[p] = todo[p] /\ state[q] = "running"
  BY CommitCases, EndMoves DEF Others, Outcome
<1> SUFFICES ASSUME state[p] = "running", job[p].op = "downgrade", start[p] > job[p].to,
                    job[p].to < 4, ~In(UntypeSt, todo[p])
             PROVE  UniqueAccounts'
  BY <1>1 DEF UntypeOK
<1>2. UniqueAccounts
  BY DEF SeedsOK, UntypeOK
<1>3. <<"accounts", "exclusive">> \in held[p]
  <2>1. job[p] \in Job /\ start[p] \in Revision
    BY DEF Base, LocalOK, LifeTypes
  <2>2. job[p].to \in 3 .. Head7
    BY <2>1, JobAssumption
  <2>3. In(UntypeSt, Program(job[p], start[p]))
    BY <2>1, <2>2, DowngradeContents DEF Program
  <2>4. UntypeSt \in Stmt /\ UntypeSt.table = "accounts" /\ UntypeSt.mode = "exclusive"
    BY DoType DEF UntypeSt, Kind, Table, Mode
  <2> QED
    BY <2>3, <2>4 DEF Base, Kept
<1>4. "write" \in Mode /\ "exclusive" \in Mode
  BY DEF Mode
<1>5. CASE job[q].op = "seed" /\ Seeded(q)
  <2>1. ASSUME NEW x \in mine[q]
        PROVE  TableOf(x.item) # "accounts"
    <3>1. TableOf(x.item) = "accounts" => <<"accounts", "write">> \in held[q]
      BY <1>1, <1>5 DEF SeedsOK, SeedOK, MineOK
    <3> QED
      BY <1>3, <1>4, <3>1, AccountsAlone
  <2> QED
    BY <1>2, <1>5, <2>1 DEF Seeded, UniqueAccounts
<1>6. CASE rows' = rows
  BY <1>2, <1>6 DEF UniqueAccounts
<1>7. CASE Retyped(q)
  BY <1>3, <1>4, <1>7, AccountsAlone DEF Retyped
<1> QED
  BY <1>5, <1>6, <1>7, RowsChange

LEMMA SeedsCommit ==
    ASSUME Base, SeedsOK, NEW q \in Process, Commit(q)
    PROVE  SeedsOK'
<1>1. /\ Others(q) /\ overlap' = overlap /\ job' = job /\ state[q] = "running"
      /\ state'[q] = "ok" /\ todo[q] = <<>>
  BY CommitCases, EndMoves DEF Outcome
<1>2. RowsOK' /\ \A p \in Process \ {q} : SeedOK(p)' /\ UntypeOK(p)'
  BY RowsCommit, SeedStays, UntypeStays
<1>3. SeedOK(q)' /\ UntypeOK(q)'
  BY <1>1 DEF SeedOK, UntypeOK
<1>4. Together' /\ Apart'
  <2>1. ASSUME NEW p \in Process, NEW r \in Process, Both(p, r)'
        PROVE  Both(p, r) /\ mine'[p] = mine[p] /\ mine'[r] = mine[r]
    BY <1>1, <2>1 DEF Both, Others
  <2> QED
    BY <1>1, <2>1 DEF SeedsOK, Together, Apart, SameKey
<1>5. ASSUME NEW p \in Process
      PROVE  EndedOK(p)'
  <2> SUFFICES ASSUME job[p].op = "seed"
               PROVE  EndedOK(p)'
    BY <1>1 DEF EndedOK
  <2>1. ASSUME state'[p] = "ok", NEW i \in DOMAIN Plan(job[p].dev)
        PROVE  \E x \in rows' : x.item = Plan(job[p].dev)[i]
    <3>1. CASE p = q
      <4>1. Seeded(q)
        BY <3>1, RowsChange
      <4>2. Covers(q, rows \union mine[q])
        BY <1>1, <3>1 DEF SeedsOK, SeedOK
      <4> QED
        BY <1>1, <2>1, <3>1, <4>1, <4>2, NothingLeft DEF Covers, Seeded
    <3>2. CASE p # q
      <4>1. state[p] = "ok"
        BY <1>1, <2>1, <3>2 DEF Others
      <4>2. \E x \in rows : x.item = Plan(job[p].dev)[i]
        BY <2>1, <4>1 DEF SeedsOK, EndedOK
      <4> QED
        BY <4>2, ItemsStay
    <3> QED
      BY <3>1, <3>2
  <2>2. ASSUME state'[p] = "deadlock"
        PROVE  \E r \in Process : state'[r] # "idle" /\ job[r].op # "seed" /\ {p, r} \in overlap
    <3>1. state[p] = "deadlock"
      BY <1>1, <2>2 DEF Others
    <3>2. PICK r \in Process : state[r] # "idle" /\ job[r].op # "seed" /\ {p, r} \in overlap
      BY <3>1 DEF SeedsOK, EndedOK
    <3>3. state'[r] # "idle"
      BY <1>1, <3>2 DEF Others
    <3> QED
      BY <3>2, <3>3
  <2> QED
    BY <1>1, <2>1, <2>2 DEF EndedOK
<1> QED
  BY <1>2, <1>3, <1>4, <1>5 DEF SeedsOK

LEMMA SeedsStep == Base /\ SeedsOK /\ [Next]_vars => SeedsOK'
<1> SUFFICES ASSUME Base, SeedsOK, [Next]_vars
             PROVE  SeedsOK'
  OBVIOUS
<1>1. CASE UNCHANGED vars
  <2>1. UNCHANGED <<revision, rows, state, job, start, todo, held, mine, overlap>>
    <3>1. UNCHANGED database /\ UNCHANGED local /\ overlap' = overlap
      BY <1>1 DEF vars
    <3> QED
      BY <3>1 DEF database, local
  <2>2. RowsOK' /\ Together' /\ Apart'
    BY <2>1 DEF SeedsOK, RowsOK, Together, Apart, Both, SameKey
  <2>3. ASSUME NEW p \in Process
        PROVE  SeedOK(p)' /\ UntypeOK(p)' /\ EndedOK(p)'
    <3>1. SeedOK(p) /\ UntypeOK(p) /\ EndedOK(p)
      BY DEF SeedsOK
    <3>2. SeedOK(p)'
      BY <2>1, <3>1 DEF SeedOK, Covers, MineOK, IsNew, GroupNew, Now, NewRow
    <3>3. UntypeOK(p)' /\ EndedOK(p)'
      BY <2>1, <3>1 DEF UntypeOK, EndedOK, UniqueAccounts
    <3> QED
      BY <3>2, <3>3
  <2> QED
    BY <2>2, <2>3 DEF SeedsOK
<1>2. ASSUME NEW p \in Process, state[p] = "running", Fail(p, "failed")
      PROVE  SeedsOK'
  BY <1>2, SeedsFail
<1>3. ASSUME NEW p \in Process, state[p] = "running", Deadlocked(p), Fail(p, "deadlock")
      PROVE  SeedsOK'
  BY <1>3, SeedsFail
<1> QED
  BY <1>1, <1>2, <1>3, Steps, SeedsBegin, SeedsExec, SeedsCommit

\* A seed that ends well leaves all of its plan, another one nothing; nothing is there
\* twice but groups of seeds that ran at the same time, which never deadlock alone.
THEOREM SeedsComplete == Spec => []SeedOutcome
<1>1. Spec => []SeedsOK
  BY BaseHolds, SeedsInit, SeedsStep, PTL DEF Spec
<1> QED
  BY <1>1, BaseHolds, SeedsOutcome, PTL
=============================================================================
