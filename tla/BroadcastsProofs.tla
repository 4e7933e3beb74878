--------------------------- MODULE BroadcastsProofs ---------------------------
(***************************************************************************)
(* Broadcasts for any number of requests, accounts and groups, any calls   *)
(* and administrative changes, and any calendar.  TypeOK is inductive; it  *)
(* carries InFlightOK, from which the invariants of the stored rows follow.*)
(***************************************************************************)
EXTENDS Broadcasts, BroadcastCycleProofs

-----------------------------------------------------------------------------
(* The three ways a handler goes on keep the types of what they touch. *)

LEMMA AdvanceType ==
    ASSUME TypeOK, NEW r \in Request, NEW step \in Step, NEW t \in Nat,
           Advance(r, step, t)
    PROVE  /\ pc' \in [Request -> Step \union {"idle", "done"}]
           /\ at' \in [Request -> Nat]
           /\ answer' \in [Request -> [status : Status, shown : SUBSET Shown]]
           /\ pc'[r] = step
           /\ \A q \in Request \ {r} : pc'[q] = pc[q]
BY DEF TypeOK, Advance

LEMMA FinishType ==
    ASSUME TypeOK, NEW r \in Request, NEW status \in Status, NEW shown \in SUBSET Shown,
           Finish(r, status, shown)
    PROVE  /\ pc' \in [Request -> Step \union {"idle", "done"}]
           /\ at' \in [Request -> Nat]
           /\ answer' \in [Request -> [status : Status, shown : SUBSET Shown]]
           /\ pc'[r] = "done"
           /\ \A q \in Request \ {r} : pc'[q] = pc[q]
BY DEF TypeOK, Finish

LEMMA CheckType ==
    ASSUME TypeOK, NEW r \in Request, NEW status \in Status, NEW step \in Step,
           NEW t \in Nat, Check(r, status, step, t)
    PROVE  /\ pc' \in [Request -> Step \union {"idle", "done"}]
           /\ at' \in [Request -> Nat]
           /\ answer' \in [Request -> [status : Status, shown : SUBSET Shown]]
           /\ pc'[r] = (IF status = "ok" THEN step ELSE "done")
           /\ \A q \in Request \ {r} : pc'[q] = pc[q]
<1>1. CASE status = "ok"
  BY <1>1, AdvanceType DEF Check
<1>2. CASE status # "ok"
  <2>1. Finish(r, status, {})
    BY <1>2 DEF Check
  <2> QED
    BY <1>2, <2>1, FinishType
<1> QED
  BY <1>1, <1>2

\* A step that only checks leaves every other variable alone, so that only what
\* is resolved about r is left to see.
LEMMA CheckKeepsTypes ==
    ASSUME TypeOK, NEW r \in Request, NEW status \in Status, NEW step \in Step,
           NEW t \in Nat, Check(r, status, step, t), pc[r] \in Step,
           step \in StepsOf(call[r].op),
           UNCHANGED <<tables, directory, now, call, committed, ever>>
    PROVE  TypeOK'
<1>1. \A q \in Request : pc'[q] \in Step => Resolved(q)'
  <2> SUFFICES ASSUME NEW q \in Request, pc'[q] \in Step
               PROVE  Resolved(q)'
    OBVIOUS
  <2>1. call' = call
    OBVIOUS
  <2>2. CASE q = r
    <3>1. Resolved(r)
      BY DEF TypeOK
    <3>2. pc'[r] = step
      BY <2>2, CheckType DEF Step
    <3> QED
      BY <2>1, <2>2, <3>1, <3>2 DEF Resolved
  <2>3. CASE q # r
    <3>1. pc'[q] = pc[q]
      BY <2>3, CheckType
    <3> QED
      BY <2>1, <3>1 DEF TypeOK, Resolved
  <2> QED
    BY <2>2, <2>3
<1> QED
  BY <1>1, CheckType DEF TypeOK, TablesTypeOK, tables, directory

-----------------------------------------------------------------------------
(* The steps that write. *)

\* The call a publication goes on with names the broadcast just stored.
LEMMA CallOnBroadcast ==
    ASSUME NEW c \in Call, NEW b \in Nat
    PROVE  /\ [c EXCEPT !.broadcast = b] \in Call
           /\ [c EXCEPT !.broadcast = b].op = c.op
           /\ [c EXCEPT !.broadcast = b].targets = c.targets
           /\ [c EXCEPT !.broadcast = b].group = c.group
           /\ [c EXCEPT !.broadcast = b].account = c.account
           /\ [c EXCEPT !.broadcast = b].broadcast = b
BY DEF Call

LEMMA PublishStoreType ==
    ASSUME TypeOK, NEW r \in Request, PublishStore(r)
    PROVE  TypeOK'
<1> USE DEF PublishStore
<1>1. /\ call[r] \in Call /\ call[r].targets \in (SUBSET Group) \ {{}}
      /\ at[r] \in Nat /\ now \in Nat /\ Resolved(r)
  BY DEF TypeOK, Step, Resolved, Call
<1>2. CASE \E g \in call[r].targets : groups[g] = "deleted"
  <2>1. Finish(r, "conflict", {}) /\ UNCHANGED <<tables, directory, now, call, committed, ever>>
    BY <1>2 DEF tables
  <2>2. Check(r, "conflict", "get", 0)
    BY <2>1 DEF Check
  <2> QED
    BY <1>1, <2>1, <2>2, CheckKeepsTypes DEF Status, Step, StepsOf
<1>3. CASE ~\E g \in call[r].targets : groups[g] = "deleted"
  <2>1. PICK t \in at[r] .. now :
          broadcasts' = Append(broadcasts,
             [author |-> call[r].account, targets |-> call[r].targets,
              createdAt |-> t, deadline |-> ConfirmationDeadline(t)])
    BY <1>3
  <2>2. t \in Nat /\ ConfirmationDeadline(t) \in Int
    BY <1>1, DeadlineType
  <2>3. broadcasts' \in Seq(BroadcastRow)
    BY <1>1, <2>1, <2>2 DEF TypeOK, TablesTypeOK, BroadcastRow, Call
  <2> DEFINE stored == [call[r] EXCEPT !.broadcast = Len(broadcasts) + 1]
  <2>4. /\ stored \in Call
        /\ stored.op = call[r].op
        /\ stored.targets = call[r].targets
    <3>1. Len(broadcasts) + 1 \in Nat
      BY DEF TypeOK, TablesTypeOK
    <3> QED
      BY <1>1, <3>1, CallOnBroadcast
  <2>5. call' = [call EXCEPT ![r] = stored]
    BY <1>3
  <2> HIDE DEF stored
  <2>6. call' \in [Request -> Call \union {NoCall}]
    BY <2>4, <2>5 DEF TypeOK
  <2>7. Advance(r, "get", 0)
    BY <1>3
  <2>8. \A q \in Request : pc'[q] \in Step => Resolved(q)'
    <3> SUFFICES ASSUME NEW q \in Request, pc'[q] \in Step
                 PROVE  Resolved(q)'
      OBVIOUS
    <3>1. CASE q = r
      <4>1. pc'[q] = "get" /\ call'[q] = stored
        BY <2>7, <2>5, <3>1, AdvanceType DEF TypeOK, Step
      <4> QED
        BY <1>1, <2>4, <4>1 DEF Resolved, StepsOf, Scoped
    <3>2. CASE q # r
      <4>1. pc'[q] = pc[q] /\ call'[q] = call[q]
        BY <2>7, <2>5, <3>2, AdvanceType DEF TypeOK, Step
      <4> QED
        BY <4>1 DEF TypeOK, Resolved
    <3> QED
      BY <3>1, <3>2
  <2> QED
    BY <1>3, <2>3, <2>6, <2>7, <2>8, AdvanceType
    DEF TypeOK, TablesTypeOK, directory, Step
<1> QED
  BY <1>2, <1>3

LEMMA ConfirmInsertType ==
    ASSUME TypeOK, NEW r \in Request, ConfirmInsert(r)
    PROVE  TypeOK'
<1> USE DEF ConfirmInsert
<1>1. at[r] \in Nat /\ now \in Nat /\ Resolved(r) /\ call[r].op = "confirm"
  BY DEF TypeOK, Step, Resolved, StepsOf, Call, Op
<1>2. CASE Finish(r, "conflict", {})
  BY <1>1, <1>2, CheckKeepsTypes DEF Check, Status, Step, StepsOf
<1>3. CASE \E t \in at[r] .. now : Advance(r, "commit", t)
  <2>1. PICK t \in at[r] .. now : Advance(r, "commit", t)
    BY <1>3
  <2>2. Check(r, "ok", "commit", t) /\ t \in Nat
    BY <1>1, <2>1 DEF Check
  <2> QED
    BY <1>1, <2>2, CheckKeepsTypes DEF Status, Step, StepsOf
<1> QED
  BY <1>2, <1>3

\* A step of r that leaves call alone and goes on to answer leaves every request
\* that is under way resolved.
LEMMA AnsweringResolved ==
    ASSUME TypeOK, NEW r \in Request, Advance(r, "get", 0), pc[r] \in Step,
           UNCHANGED call
    PROVE  \A q \in Request : pc'[q] \in Step => Resolved(q)'
<1> SUFFICES ASSUME NEW q \in Request, pc'[q] \in Step
             PROVE  Resolved(q)'
  OBVIOUS
<1>1. pc'[r] = "get" /\ (q # r => pc'[q] = pc[q])
  BY AdvanceType DEF Step
<1>2. Resolved(r) /\ (q # r => Resolved(q))
  BY <1>1 DEF TypeOK
<1> QED
  BY <1>1, <1>2 DEF Resolved, StepsOf

LEMMA ConfirmCommitType ==
    ASSUME TypeOK, NEW r \in Request, ConfirmCommit(r)
    PROVE  TypeOK'
<1> USE DEF ConfirmCommit
<1>1. at[r] \in Nat /\ Resolved(r) /\ call[r].op = "confirm"
  BY DEF TypeOK, Step, Resolved, StepsOf, Call, Op
<1>2. confirmations' \subseteq ConfirmationRow
  BY <1>1 DEF TypeOK, TablesTypeOK, ConfirmationRow, Resolved, Call, Scoped
<1>3. \A q \in Request : pc'[q] \in Step => Resolved(q)'
  BY AnsweringResolved DEF Step
<1> QED
  BY <1>2, <1>3, AdvanceType DEF TypeOK, TablesTypeOK, directory, Step

LEMMA ReplyStoreType ==
    ASSUME TypeOK, NEW r \in Request, ReplyStore(r)
    PROVE  TypeOK'
<1> USE DEF ReplyStore
<1>1. at[r] \in Nat /\ now \in Nat /\ Resolved(r)
  BY DEF TypeOK, Step
<1>2. CASE Finish(r, "conflict", {}) /\ UNCHANGED <<replies, committed>>
  <2>1. Check(r, "conflict", "get", 0)
    BY <1>2 DEF Check
  <2> QED
    BY <1>1, <1>2, <2>1, CheckKeepsTypes DEF Status, Step, StepsOf, tables
<1>3. CASE /\ Targeted(call[r].broadcast, call[r].group)
           /\ \/ call[r].ref = NoParent
              \/ SameThread(call[r].ref, call[r].broadcast, call[r].group)
  <2>1. PICK t \in at[r] .. now :
          replies' = Append(replies,
             [broadcast |-> call[r].broadcast, group |-> call[r].group,
              author |-> call[r].account, ref |-> call[r].ref, createdAt |-> t])
    BY <1>3
  <2>2. t \in Nat /\ call[r].ref \in Nat
    BY <1>1, <1>3 DEF SameThread, NoParent, TypeOK, TablesTypeOK
  <2>3. replies' \in Seq(ReplyRow)
    BY <1>1, <2>1, <2>2 DEF TypeOK, TablesTypeOK, ReplyRow, Resolved, Call, Scoped
  <2>4. \A q \in Request : pc'[q] \in Step => Resolved(q)'
    BY <1>3, AnsweringResolved DEF Step
  <2> QED
    BY <1>3, <2>3, <2>4, AdvanceType DEF TypeOK, TablesTypeOK, directory, Step
<1> QED
  BY <1>2, <1>3

-----------------------------------------------------------------------------
(* The steps that begin, check and answer. *)

LEMMA BeginType ==
    ASSUME TypeOK, NEW r \in Request, Begin(r)
    PROVE  TypeOK'
<1>1. PICK o \in Offered, b \in 0 .. Len(broadcasts),
           ref \in {UnknownReply, NoParent} \union DOMAIN replies :
        LET a == accounts[o.account]
        IN  /\ call' = [call EXCEPT ![r] =
                  [op |-> o.op, account |-> o.account, targets |-> o.targets,
                   group |-> IF o.op \in Scoped THEN ScopedGroup(a, o.group) ELSE o.group,
                   broadcast |-> b, ref |-> ref]]
            /\ ever' = [ever EXCEPT ![r] = {a}]
            /\ Check(r,
                     IF ~a.active THEN "unauthorized"
                     ELSE IF o.op \in Scoped THEN ScopeStatus(a, o.group)
                     ELSE "ok",
                     IF o.op \in Mutations THEN "actor" ELSE "get", 0)
  BY DEF Begin
<1> DEFINE a == accounts[o.account]
           status == IF ~a.active THEN "unauthorized"
                     ELSE IF o.op \in Scoped THEN ScopeStatus(a, o.group)
                     ELSE "ok"
           step == IF o.op \in Mutations THEN "actor" ELSE "get"
           group == IF o.op \in Scoped THEN ScopedGroup(a, o.group) ELSE o.group
           asked == [op |-> o.op, account |-> o.account, targets |-> o.targets,
                     group |-> group, broadcast |-> b, ref |-> ref]
<1>2. o \in Offer /\ (o.op = "publish" => o.targets # {})
  BY ParametersAssumption
<1>3. a \in AccountState /\ b \in Nat /\ ref \in Int
  BY <1>2 DEF TypeOK, TablesTypeOK, Offer, UnknownReply, NoParent
<1>4. group \in Group \union {NoGroup}
  BY <1>2, <1>3 DEF ScopedGroup, Offer, AccountState
<1>5. asked \in Call
  BY <1>2, <1>3, <1>4 DEF Call, Offer
<1>6. status = "ok" => (o.op \in Scoped => group \in Group)
  BY <1>2, <1>3, <1>4 DEF ScopedGroup, ScopeStatus, Offer, AccountState
<1>7. /\ status \in Status
      /\ step \in Step
      /\ step \in StepsOf(o.op)
  BY <1>2 DEF Status, ScopeStatus, Step, StepsOf, Mutations, Offer, Op
<1>8. /\ call' = [call EXCEPT ![r] = asked]
      /\ ever' = [ever EXCEPT ![r] = {a}]
      /\ Check(r, status, step, 0)
  BY <1>1
<1>9. asked.op = o.op /\ asked.targets = o.targets /\ asked.group = group
  OBVIOUS
<1> HIDE DEF status, step, group, asked, a
<1>10. \A q \in Request : pc'[q] \in Step => Resolved(q)'
  <2> SUFFICES ASSUME NEW q \in Request, pc'[q] \in Step
               PROVE  Resolved(q)'
    OBVIOUS
  <2>1. CASE q = r
    <3>1. status = "ok" /\ pc'[q] = step
      BY <1>7, <1>8, <2>1, CheckType DEF Step
    <3>2. call'[q] = asked
      BY <1>8, <2>1 DEF TypeOK
    <3> QED
      BY <1>2, <1>5, <1>6, <1>7, <1>9, <3>1, <3>2 DEF Resolved
  <2>2. CASE q # r
    <3>1. pc'[q] = pc[q] /\ call'[q] = call[q]
      BY <1>7, <1>8, <2>2, CheckType DEF TypeOK
    <3> QED
      BY <3>1 DEF TypeOK, Resolved
  <2> QED
    BY <2>1, <2>2
<1>11. /\ call' \in [Request -> Call \union {NoCall}]
       /\ ever' \in [Request -> SUBSET AccountState]
  BY <1>3, <1>5, <1>8 DEF TypeOK
<1> QED
  BY <1>7, <1>8, <1>10, <1>11, CheckType DEF TypeOK, TablesTypeOK, tables, directory, Begin

\* Every step that reads, decides and goes on.
LEMMA CheckingType ==
    ASSUME TypeOK, NEW r \in Request,
           \/ PublishActor(r) \/ PublishGroups(r) \/ ConfirmActor(r) \/ ConfirmPermit(r)
           \/ ReplyActor(r) \/ ReplyPermit(r) \/ ReplyParent(r) \/ Get(r)
    PROVE  TypeOK'
<1> USE DEF Step, Status
<1>1. now \in Nat /\ (pc[r] \in Step => Resolved(r) /\ call[r].op \in Op)
  BY DEF TypeOK, Resolved, Call
<1>2. CASE PublishActor(r)
  BY <1>1, <1>2, CheckKeepsTypes DEF PublishActor, StepsOf
<1>3. CASE PublishGroups(r)
  BY <1>1, <1>3, CheckKeepsTypes DEF PublishGroups, GroupsStatus, StepsOf, Resolved
<1>4. CASE ConfirmActor(r)
  BY <1>1, <1>4, CheckKeepsTypes DEF ConfirmActor, ConfirmActorStatus, StepsOf
<1>5. CASE ConfirmPermit(r)
  BY <1>1, <1>5, CheckKeepsTypes DEF ConfirmPermit, PermitStatus, StepsOf
<1>6. CASE ReplyActor(r)
  BY <1>1, <1>6, CheckKeepsTypes DEF ReplyActor, ReplyActorStatus, StepsOf
<1>7. CASE ReplyPermit(r)
  BY <1>1, <1>7, CheckKeepsTypes DEF ReplyPermit, PermitStatus, StepsOf
<1>8. CASE ReplyParent(r)
  BY <1>1, <1>8, CheckKeepsTypes DEF ReplyParent, ParentStatus, StepsOf, Resolved
<1>9. CASE Get(r)
  BY <1>1, <1>9, CheckKeepsTypes DEF Get, GetStatus, StepsOf
<1> QED
  BY <1>2, <1>3, <1>4, <1>5, <1>6, <1>7, <1>8, <1>9

\* A request that ends, answered or not.
LEMMA FinishKeepsTypes ==
    ASSUME TypeOK, NEW r \in Request, NEW status \in Status, NEW shown \in SUBSET Shown,
           Finish(r, status, shown),
           UNCHANGED <<tables, directory, now, call, committed, ever>>
    PROVE  TypeOK'
<1>1. \A q \in Request : pc'[q] \in Step => Resolved(q)'
  BY FinishType DEF TypeOK, Resolved, Step
<1> QED
  BY <1>1, FinishType DEF TypeOK, TablesTypeOK, tables, directory

LEMMA PresentType ==
    ASSUME TypeOK, NEW r \in Request, Present(r)
    PROVE  TypeOK'
<1> DEFINE shown == ShownTargets(Actor(r), call[r].broadcast, call[r].group)
<1>1. shown \in SUBSET Shown
  BY DEF ShownTargets, Shown, ConfirmationState, ConfirmationStates
<1> QED
  BY <1>1, FinishKeepsTypes DEF Present, Status

\* What happens around the requests leaves what they have resolved alone.
LEMMA AroundType ==
    ASSUME TypeOK, UNCHANGED <<tables, pc, call, at, answer, committed>>,
           accounts' \in [Account -> AccountState],
           groups' \in [Group -> {"class", "other", "deleted"}],
           now' \in Nat, changes' \in Nat,
           ever' \in [Request -> SUBSET AccountState]
    PROVE  TypeOK'
<1>1. \A q \in Request : pc'[q] \in Step => Resolved(q)'
  BY DEF TypeOK, Resolved
<1>2. TablesTypeOK'
  BY DEF TypeOK, TablesTypeOK, tables
<1> QED
  BY <1>1, <1>2 DEF TypeOK

-----------------------------------------------------------------------------
\* The types hold in every reachable state: whatever is asked and whatever
\* administrators change meanwhile, handlers only run steps of their own on calls
\* they can resolve, and only well-formed rows are stored.
THEOREM TypeCorrect == Spec => []TypeOK
<1>1. Init => TypeOK
  <2> SUFFICES ASSUME Init PROVE TypeOK
    OBVIOUS
  <2>1. TablesTypeOK
    BY DEF Init, TablesTypeOK
  <2>2. /\ accounts \in [Account -> AccountState]
        /\ groups \in [Group -> {"class", "other", "deleted"}]
    BY ParametersAssumption DEF Init
  <2>3. answer \in [Request -> [status : Status, shown : SUBSET Shown]]
    BY DEF Init, NoAnswer, Status
  <2> QED
    BY <2>1, <2>2, <2>3 DEF Init, TypeOK, Step
<1>2. TypeOK /\ [Next]_vars => TypeOK'
  <2> SUFFICES ASSUME TypeOK, [Next]_vars PROVE TypeOK'
    OBVIOUS
  <2>1. ASSUME NEW r \in Request, Begin(r) PROVE TypeOK'
    BY <2>1, BeginType
  <2>2. ASSUME NEW r \in Request, Serve(r) PROVE TypeOK'
    BY <2>2, CheckingType, PublishStoreType, ConfirmInsertType, ConfirmCommitType,
       ReplyStoreType, PresentType DEF Serve
  <2>3. ASSUME NEW r \in Request, Abort(r) PROVE TypeOK'
    BY <2>3, FinishKeepsTypes DEF Abort, Status
  <2>4. CASE Tick
    <3>1. now' \in Nat
      BY <2>4 DEF Tick, TypeOK
    <3> QED
      BY <2>4, <3>1, AroundType DEF Tick, directory, TypeOK
  <2>5. ASSUME NEW u \in AdminUpdates, UpdateAccount(u[1], u[2]) PROVE TypeOK'
    <3>1. u[1] \in Account /\ u[2] \in AccountState
      BY ParametersAssumption
    <3>2. accounts' \in [Account -> AccountState] /\ ever' \in [Request -> SUBSET AccountState]
      BY <2>5, <3>1 DEF UpdateAccount, TypeOK
    <3>3. changes' \in Nat
      BY <2>5 DEF UpdateAccount, Administer, TypeOK
    <3> QED
      BY <2>5, <3>2, <3>3, AroundType DEF UpdateAccount, TypeOK
  <2>6. ASSUME NEW g \in Group, RetypeGroup(g) \/ DeleteGroup(g) PROVE TypeOK'
    <3>1. groups' \in [Group -> {"class", "other", "deleted"}]
      BY <2>6 DEF RetypeGroup, DeleteGroup, TypeOK
    <3>2. changes' \in Nat
      BY <2>6 DEF RetypeGroup, DeleteGroup, Administer, TypeOK
    <3> QED
      BY <2>6, <3>1, <3>2, AroundType DEF RetypeGroup, DeleteGroup, TypeOK
  <2>7. CASE UNCHANGED vars
    BY <2>7, AroundType DEF vars, directory, TypeOK
  <2> QED
    BY <2>1, <2>2, <2>3, <2>4, <2>5, <2>6, <2>7 DEF Next
<1> QED
  BY <1>1, <1>2, PTL DEF Spec

-----------------------------------------------------------------------------
(* What requests under way have established, and the rows they store. *)

LEMMA StampsAreTimes ==
    ASSUME TypeOK
    PROVE  /\ \A b \in DOMAIN broadcasts : broadcasts[b].createdAt \in Nat
           /\ \A i \in DOMAIN replies : replies[i].createdAt \in Nat
<1>1. /\ \A b \in DOMAIN broadcasts : broadcasts[b] \in BroadcastRow
      /\ \A i \in DOMAIN replies : replies[i] \in ReplyRow
  BY DEF TypeOK, TablesTypeOK
<1> QED
  BY <1>1 DEF BroadcastRow, ReplyRow

StoredOK == ConfirmedOnce /\ ConfirmationsAnswerTargets /\ ThreadsClosed

\* Only request r moves, to step or to its end, and remembers t.
MovesTo(r, step, t) ==
    /\ pc'[r] \in {step, "done"}
    /\ pc'[r] = step => at'[r] = t
    /\ \A q \in Request \ {r} : pc'[q] = pc[q] /\ at'[q] = at[q]

LEMMA AdvanceMoves ==
    ASSUME TypeOK, NEW r \in Request, NEW step, NEW t, Advance(r, step, t)
    PROVE  MovesTo(r, step, t) /\ pc'[r] = step
BY DEF TypeOK, Advance, MovesTo

LEMMA FinishMoves ==
    ASSUME TypeOK, NEW r \in Request, NEW status, NEW shown, Finish(r, status, shown)
    PROVE  MovesTo(r, "done", 0) /\ pc'[r] = "done"
BY DEF TypeOK, Finish, MovesTo

LEMMA CheckMoves ==
    ASSUME TypeOK, NEW r \in Request, NEW status, NEW step, NEW t,
           Check(r, status, step, t), step # "done"
    PROVE  MovesTo(r, step, t) /\ (pc'[r] = step => status = "ok")
BY DEF TypeOK, Check, Advance, Finish, MovesTo

\* Where the tables and the clock stay, a step of r concerns r alone.
LEMMA OnlyOneMoves ==
    ASSUME InFlightOK, NEW r \in Request, NEW step, NEW t,
           MovesTo(r, step, t), UNCHANGED <<tables, now>>,
           \A q \in Request \ {r} : call'[q] = call[q],
           TargetFound(r)', ParentFound(r)', KeyOwned(r)'
    PROVE  InFlightOK'
<1> SUFFICES ASSUME NEW q \in Request, q # r
             PROVE  TargetFound(q)' /\ ParentFound(q)' /\ KeyOwned(q)'
  BY DEF InFlightOK, ClockCovers, tables
<1>1. /\ pc'[q] = pc[q] /\ at'[q] = at[q] /\ call'[q] = call[q]
      /\ broadcasts' = broadcasts /\ confirmations' = confirmations /\ replies' = replies
  BY DEF MovesTo, tables
<1>2. TargetFound(q)'
  BY <1>1 DEF InFlightOK, TargetFound, Targeted
<1>3. ParentFound(q)'
  BY <1>1 DEF InFlightOK, ParentFound
<1>4. KeyOwned(q)'
  BY <1>1 DEF InFlightOK, KeyOwned, MovesTo, SameKey, Confirmed
<1> QED
  BY <1>2, <1>3, <1>4

\* A step at which r claims nothing: it ends, or has found nothing yet.
LEMMA NothingClaimed ==
    ASSUME InFlightOK, NEW r \in Request, NEW t,
           NEW step \in {"actor", "groups", "get", "present", "done"},
           MovesTo(r, step, t), UNCHANGED <<tables, now>>,
           \A q \in Request \ {r} : call'[q] = call[q]
    PROVE  InFlightOK'
<1>1. pc'[r] \in {"actor", "groups", "get", "present", "done"}
  BY DEF MovesTo
<1>2. TargetFound(r)' /\ ParentFound(r)' /\ KeyOwned(r)'
  BY <1>1 DEF TargetFound, ParentFound, KeyOwned
<1> QED
  BY <1>2, OnlyOneMoves

LEMMA CheckingInFlight ==
    ASSUME TypeOK, InFlightOK, NEW r \in Request,
           \/ PublishActor(r) \/ PublishGroups(r) \/ ConfirmActor(r) \/ ConfirmPermit(r)
           \/ ReplyActor(r) \/ ReplyPermit(r) \/ ReplyParent(r) \/ Get(r)
    PROVE  InFlightOK'
<1>1. CASE PublishActor(r)
  BY <1>1, CheckMoves, NothingClaimed DEF PublishActor
<1>2. CASE PublishGroups(r)
  <2>1. /\ MovesTo(r, "store", now) /\ call[r].op = "publish"
        /\ UNCHANGED <<tables, now, call>>
    BY <1>2, CheckMoves DEF PublishGroups, TypeOK, Step, Resolved, StepsOf, Call, Op
  <2>2. TargetFound(r)' /\ ParentFound(r)' /\ KeyOwned(r)'
    BY <2>1 DEF TargetFound, ParentFound, KeyOwned, MovesTo
  <2> QED
    BY <2>1, <2>2, OnlyOneMoves
<1>3. CASE ConfirmActor(r)
  <2>1. /\ MovesTo(r, "permit", 0) /\ UNCHANGED <<tables, now, call>>
        /\ pc'[r] = "permit" => Targeted(call[r].broadcast, call[r].group)
    BY <1>3, CheckMoves DEF ConfirmActor, ConfirmActorStatus
  <2>2. TargetFound(r)' /\ ParentFound(r)' /\ KeyOwned(r)'
    BY <2>1 DEF TargetFound, ParentFound, KeyOwned, MovesTo, Targeted, tables
  <2> QED
    BY <2>1, <2>2, OnlyOneMoves
<1>4. CASE ConfirmPermit(r)
  <2>1. MovesTo(r, "insert", now) /\ UNCHANGED <<tables, now, call>>
    BY <1>4, CheckMoves DEF ConfirmPermit
  <2>2. /\ Targeted(call[r].broadcast, call[r].group)
        /\ now >= broadcasts[call[r].broadcast].createdAt
    BY <1>4 DEF ConfirmPermit, InFlightOK, TargetFound, ClockCovers, Targeted, TypeOK,
       TablesTypeOK, BroadcastRow
  <2>3. TargetFound(r)' /\ ParentFound(r)' /\ KeyOwned(r)'
    BY <2>1, <2>2 DEF TargetFound, ParentFound, KeyOwned, MovesTo, Targeted, tables
  <2> QED
    BY <2>1, <2>3, OnlyOneMoves
<1>5. CASE ReplyActor(r)
  <2>1. /\ \E step \in {"parent", "permit"} : MovesTo(r, step, 0)
        /\ UNCHANGED <<tables, now, call>>
        /\ pc'[r] # "done" => Targeted(call[r].broadcast, call[r].group)
    BY <1>5, CheckMoves DEF ReplyActor, ReplyActorStatus, MovesTo
  <2>2. TargetFound(r)' /\ ParentFound(r)' /\ KeyOwned(r)'
    BY <2>1 DEF TargetFound, ParentFound, KeyOwned, MovesTo, Targeted, tables
  <2> QED
    BY <2>1, <2>2, OnlyOneMoves
<1>6. CASE ReplyPermit(r)
  <2>1. MovesTo(r, "parent", 0) /\ UNCHANGED <<tables, now, call>>
    BY <1>6, CheckMoves DEF ReplyPermit
  <2>2. Targeted(call[r].broadcast, call[r].group)
    BY <1>6 DEF ReplyPermit, InFlightOK, TargetFound
  <2>3. TargetFound(r)' /\ ParentFound(r)' /\ KeyOwned(r)'
    BY <2>1, <2>2 DEF TargetFound, ParentFound, KeyOwned, MovesTo, Targeted, tables
  <2> QED
    BY <2>1, <2>3, OnlyOneMoves
<1>7. CASE ReplyParent(r)
  <2>1. /\ MovesTo(r, "store", now) /\ UNCHANGED <<tables, now, call>>
        /\ pc'[r] = "store" =>
              ParentStatus(call[r].ref, call[r].broadcast, call[r].group) = "ok"
    BY <1>7, CheckMoves DEF ReplyParent
  <2>2. /\ Targeted(call[r].broadcast, call[r].group)
        /\ now >= broadcasts[call[r].broadcast].createdAt
    BY <1>7 DEF ReplyParent, InFlightOK, TargetFound, ClockCovers, Targeted, TypeOK,
       TablesTypeOK, BroadcastRow
  <2>3. pc'[r] = "store" /\ call[r].ref # NoParent =>
           call[r].ref \in DOMAIN replies /\ now >= replies[call[r].ref].createdAt
    BY <2>1 DEF ParentStatus, SameThread, InFlightOK, ClockCovers, TypeOK, TablesTypeOK, ReplyRow
  <2>4. TargetFound(r)' /\ ParentFound(r)' /\ KeyOwned(r)'
    BY <2>1, <2>2, <2>3 DEF TargetFound, ParentFound, KeyOwned, MovesTo, Targeted, tables
  <2> QED
    BY <2>1, <2>4, OnlyOneMoves
<1>8. CASE Get(r)
  BY <1>8, CheckMoves, NothingClaimed DEF Get
<1> QED
  BY <1>1, <1>2, <1>3, <1>4, <1>5, <1>6, <1>7, <1>8

LEMMA BeginInFlight ==
    ASSUME TypeOK, InFlightOK, NEW r \in Request, Begin(r)
    PROVE  InFlightOK'
<1>1. /\ \E step \in {"actor", "get"} : MovesTo(r, step, 0)
      /\ \A q \in Request \ {r} : call'[q] = call[q]
      /\ UNCHANGED <<tables, now>>
  <2>1. PICK o \in Offered :
          Check(r, IF ~accounts[o.account].active THEN "unauthorized"
                   ELSE IF o.op \in Scoped THEN ScopeStatus(accounts[o.account], o.group)
                   ELSE "ok",
                   IF o.op \in Mutations THEN "actor" ELSE "get", 0)
    BY DEF Begin
  <2>2. MovesTo(r, IF o.op \in Mutations THEN "actor" ELSE "get", 0)
    BY <2>1, CheckMoves
  <2>3. \A q \in Request \ {r} : call'[q] = call[q]
    BY DEF Begin, TypeOK
  <2> QED
    BY <2>2, <2>3 DEF Begin
<1> QED
  BY <1>1, NothingClaimed

\* The insert that gets through owns its key: no row has it, nobody holds it.
LEMMA ConfirmInsertInFlight ==
    ASSUME TypeOK, InFlightOK, NEW r \in Request, ConfirmInsert(r)
    PROVE  InFlightOK'
<1>1. UNCHANGED <<tables, now, call>> /\ now \in Nat /\ at[r] \in Nat
  BY DEF ConfirmInsert, TypeOK
<1>2. CASE Finish(r, "conflict", {})
  BY <1>1, <1>2, FinishMoves, NothingClaimed
<1>3. CASE /\ ~Confirmed(call[r].broadcast, call[r].group)
           /\ \E t \in at[r] .. now : Advance(r, "commit", t)
  <2>1. PICK t \in at[r] .. now : Advance(r, "commit", t)
    BY <1>3
  <2>2. MovesTo(r, "commit", t)
    BY <2>1, AdvanceMoves
  <2>3. /\ Targeted(call[r].broadcast, call[r].group)
        /\ at[r] >= broadcasts[call[r].broadcast].createdAt
        /\ broadcasts[call[r].broadcast].createdAt \in Nat
    <3>1. TargetFound(r) /\ pc[r] = "insert"
      BY DEF InFlightOK, ConfirmInsert
    <3> QED
      BY <3>1, StampsAreTimes DEF TargetFound, Targeted
  <2>4. TargetFound(r)'
    BY <1>1, <2>2, <2>3 DEF TargetFound, MovesTo, Targeted, tables
  <2>5. ParentFound(r)'
    BY <2>2 DEF ParentFound, MovesTo
  <2>6. KeyOwned(r)'
    <3>1. \A q \in Request : ~(pc[q] = "commit" /\ SameKey(r, q))
      BY DEF ConfirmInsert, KeyHeld
    <3> QED
      BY <1>1, <1>3, <2>2, <3>1 DEF KeyOwned, MovesTo, SameKey, Confirmed, tables
  <2> QED
    BY <1>1, <2>2, <2>4, <2>5, <2>6, OnlyOneMoves
<1> QED
  BY <1>2, <1>3 DEF ConfirmInsert

-----------------------------------------------------------------------------
(* The steps that write keep what the others have found, and store right rows. *)

\* A broadcast is added behind those that exist.
LEMMA PublishStoreStored ==
    ASSUME TypeOK, InFlightOK, StoredOK, NEW r \in Request, PublishStore(r)
    PROVE  InFlightOK' /\ StoredOK'
<1>1. CASE \E g \in call[r].targets : groups[g] = "deleted"
  <2>1. Finish(r, "conflict", {}) /\ UNCHANGED <<tables, now, call>>
    BY <1>1 DEF PublishStore, tables
  <2>2. InFlightOK'
    BY <2>1, FinishMoves, NothingClaimed
  <2> QED
    BY <2>1, <2>2
    DEF StoredOK, ConfirmedOnce, ConfirmationsAnswerTargets, ThreadsClosed, tables
<1>2. CASE ~\E g \in call[r].targets : groups[g] = "deleted"
  <2>1. PICK t \in at[r] .. now :
          broadcasts' = Append(broadcasts,
             [author |-> call[r].account, targets |-> call[r].targets,
              createdAt |-> t, deadline |-> ConfirmationDeadline(t)])
    BY <1>2 DEF PublishStore
  <2>2. /\ UNCHANGED <<confirmations, replies, now>>
        /\ \A q \in Request \ {r} : call'[q] = call[q]
        /\ MovesTo(r, "get", 0)
    BY <1>2, AdvanceMoves DEF PublishStore, TypeOK
  <2>3. /\ at[r] \in Nat /\ now \in Nat
        /\ broadcasts \in Seq(BroadcastRow)
    BY DEF TypeOK, TablesTypeOK
  <2>4. /\ DOMAIN broadcasts \subseteq DOMAIN broadcasts'
        /\ \A b \in DOMAIN broadcasts : broadcasts'[b] = broadcasts[b]
        /\ \A b \in DOMAIN broadcasts' \ DOMAIN broadcasts : broadcasts'[b].createdAt = t
    BY <2>1, <2>3
  <2>5. ClockCovers'
    BY <2>2, <2>3, <2>4 DEF InFlightOK, ClockCovers
  <2>6. ASSUME NEW q \in Request
        PROVE  TargetFound(q)' /\ ParentFound(q)' /\ KeyOwned(q)'
    <3>1. CASE q = r
      BY <2>2, <3>1 DEF MovesTo, TargetFound, ParentFound, KeyOwned
    <3>2. CASE q # r
      <4>1. pc'[q] = pc[q] /\ at'[q] = at[q] /\ call'[q] = call[q]
        BY <2>2, <3>2 DEF MovesTo
      <4>2. TargetFound(q)'
        BY <2>4, <4>1 DEF InFlightOK, TargetFound, Targeted
      <4>3. ParentFound(q)'
        BY <2>2, <4>1 DEF InFlightOK, ParentFound
      <4>4. KeyOwned(q)'
        BY <2>2, <4>1 DEF InFlightOK, KeyOwned, MovesTo, SameKey, Confirmed
      <4> QED
        BY <4>2, <4>3, <4>4
    <3> QED
      BY <3>1, <3>2
  <2>7. ConfirmedOnce' /\ ConfirmationsAnswerTargets'
    BY <2>2, <2>4 DEF StoredOK, ConfirmedOnce, ConfirmationsAnswerTargets
  <2>8. ThreadsClosed'
    BY <2>2, <2>4 DEF StoredOK, ThreadsClosed
  <2> QED
    BY <2>5, <2>6, <2>7, <2>8 DEF InFlightOK, StoredOK
<1> QED
  BY <1>1, <1>2

\* The row a commit makes visible is the only one with its key, and the others
\* that hold a key hold another.
LEMMA ConfirmCommitStored ==
    ASSUME TypeOK, InFlightOK, StoredOK, NEW r \in Request, ConfirmCommit(r)
    PROVE  InFlightOK' /\ StoredOK'
<1> DEFINE row == [broadcast |-> call[r].broadcast, group |-> call[r].group,
                   by |-> call[r].account, at |-> at[r]]
<1>1. /\ pc[r] = "commit"
      /\ confirmations' = confirmations \union {row}
      /\ UNCHANGED <<broadcasts, replies, now, call>>
      /\ MovesTo(r, "get", 0)
  BY AdvanceMoves DEF ConfirmCommit
<1>2. TargetFound(r) /\ KeyOwned(r)
  BY DEF InFlightOK
<1>3. ConfirmedOnce'
  BY <1>1, <1>2 DEF StoredOK, ConfirmedOnce, KeyOwned, Confirmed
<1>4. ConfirmationsAnswerTargets'
  BY <1>1, <1>2 DEF StoredOK, ConfirmationsAnswerTargets, TargetFound, Targeted
<1>5. ThreadsClosed'
  BY <1>1 DEF StoredOK, ThreadsClosed
<1>6. ASSUME NEW q \in Request
      PROVE  TargetFound(q)' /\ ParentFound(q)' /\ KeyOwned(q)'
  <2>1. CASE q = r
    BY <1>1, <2>1 DEF MovesTo, TargetFound, ParentFound, KeyOwned
  <2>2. CASE q # r
    <3>1. pc'[q] = pc[q] /\ at'[q] = at[q] /\ call'[q] = call[q]
      BY <1>1, <2>2 DEF MovesTo
    <3>2. TargetFound(q)' /\ ParentFound(q)'
      BY <1>1, <3>1 DEF InFlightOK, TargetFound, ParentFound, Targeted
    <3>3. KeyOwned(q)'
      <4>1. pc[q] = "commit" => ~SameKey(r, q)
        BY <1>1, <1>2, <2>2 DEF KeyOwned
      <4>2. KeyOwned(q)
        BY DEF InFlightOK
      <4> QED
        BY <1>1, <3>1, <4>1, <4>2 DEF KeyOwned, Confirmed, SameKey, MovesTo
    <3> QED
      BY <3>2, <3>3
  <2> QED
    BY <2>1, <2>2
<1> QED
  BY <1>1, <1>3, <1>4, <1>5, <1>6 DEF InFlightOK, StoredOK, ClockCovers

\* A reply is added behind its parent, not stamped before it.
LEMMA ReplyStoreStored ==
    ASSUME TypeOK, InFlightOK, StoredOK, NEW r \in Request, ReplyStore(r)
    PROVE  InFlightOK' /\ StoredOK'
<1>1. CASE Finish(r, "conflict", {}) /\ UNCHANGED <<replies, committed>>
  <2>1. UNCHANGED <<tables, now, call>>
    BY <1>1 DEF ReplyStore, tables
  <2>2. InFlightOK'
    BY <1>1, <2>1, FinishMoves, NothingClaimed
  <2> QED
    BY <2>1, <2>2
    DEF StoredOK, ConfirmedOnce, ConfirmationsAnswerTargets, ThreadsClosed, tables
<1>2. CASE /\ Targeted(call[r].broadcast, call[r].group)
           /\ \/ call[r].ref = NoParent
              \/ SameThread(call[r].ref, call[r].broadcast, call[r].group)
  <2>1. PICK t \in at[r] .. now :
          replies' = Append(replies,
             [broadcast |-> call[r].broadcast, group |-> call[r].group,
              author |-> call[r].account, ref |-> call[r].ref, createdAt |-> t])
    BY <1>2 DEF ReplyStore
  <2> DEFINE row == [broadcast |-> call[r].broadcast, group |-> call[r].group,
                     author |-> call[r].account, ref |-> call[r].ref, createdAt |-> t]
  <2>2. /\ UNCHANGED <<broadcasts, confirmations, now, call>>
        /\ MovesTo(r, "get", 0)
        /\ pc[r] = "store" /\ call[r].op = "reply"
    BY <1>2, AdvanceMoves DEF ReplyStore
  <2>3. /\ at[r] \in Nat /\ now \in Nat /\ t \in Nat /\ t >= at[r] /\ t <= now
        /\ replies \in Seq(ReplyRow)
        /\ broadcasts \in Seq(BroadcastRow)
    BY DEF TypeOK, TablesTypeOK
  <2>4. /\ DOMAIN replies = 1 .. Len(replies) /\ Len(replies) \in Nat
        /\ DOMAIN replies' = 1 .. Len(replies) + 1
        /\ \A i \in DOMAIN replies : replies'[i] = replies[i]
        /\ replies'[Len(replies) + 1] = row
    BY <2>1, <2>3
  <2>5. ClockCovers'
    BY <2>2, <2>3, <2>4 DEF InFlightOK, ClockCovers
  <2>6. ASSUME NEW q \in Request
        PROVE  TargetFound(q)' /\ ParentFound(q)' /\ KeyOwned(q)'
    <3>1. CASE q = r
      BY <2>2, <3>1 DEF MovesTo, TargetFound, ParentFound, KeyOwned
    <3>2. CASE q # r
      <4>1. pc'[q] = pc[q] /\ at'[q] = at[q] /\ call'[q] = call[q]
        BY <2>2, <3>2 DEF MovesTo
      <4>2. TargetFound(q)'
        BY <2>2, <4>1 DEF InFlightOK, TargetFound, Targeted
      <4>3. ParentFound(q)'
        <5>1. ParentFound(q)
          BY DEF InFlightOK
        <5> QED
          BY <2>4, <4>1, <5>1 DEF ParentFound
      <4>4. KeyOwned(q)'
        BY <2>2, <4>1 DEF InFlightOK, KeyOwned, MovesTo, SameKey, Confirmed
      <4> QED
        BY <4>2, <4>3, <4>4
    <3> QED
      BY <3>1, <3>2
  <2>7. ConfirmedOnce' /\ ConfirmationsAnswerTargets'
    BY <2>2 DEF StoredOK, ConfirmedOnce, ConfirmationsAnswerTargets
  <2>8. /\ call[r].broadcast \in DOMAIN broadcasts
        /\ call[r].group \in broadcasts[call[r].broadcast].targets
        /\ t >= broadcasts[call[r].broadcast].createdAt
        /\ call[r].ref # NoParent =>
              /\ call[r].ref \in DOMAIN replies
              /\ replies[call[r].ref].broadcast = call[r].broadcast
              /\ replies[call[r].ref].group = call[r].group
              /\ replies[call[r].ref].createdAt <= t
    <3>1. TargetFound(r) /\ ParentFound(r)
      BY DEF InFlightOK
    <3>2. /\ call[r].broadcast \in DOMAIN broadcasts
          /\ call[r].group \in broadcasts[call[r].broadcast].targets
      BY <1>2 DEF Targeted
    <3>3. t >= broadcasts[call[r].broadcast].createdAt
      <4>1. broadcasts[call[r].broadcast].createdAt \in Nat
        BY <3>2, StampsAreTimes
      <4> QED
        BY <2>2, <2>3, <3>1, <4>1 DEF TargetFound
    <3>4. ASSUME call[r].ref # NoParent
          PROVE  /\ call[r].ref \in DOMAIN replies
                 /\ replies[call[r].ref].broadcast = call[r].broadcast
                 /\ replies[call[r].ref].group = call[r].group
                 /\ replies[call[r].ref].createdAt <= t
      <4>1. /\ SameThread(call[r].ref, call[r].broadcast, call[r].group)
            /\ at[r] >= replies[call[r].ref].createdAt
        BY <1>2, <2>2, <3>1, <3>4 DEF ParentFound
      <4>2. replies[call[r].ref].createdAt \in Nat
        BY <4>1, StampsAreTimes DEF SameThread
      <4> QED
        BY <2>3, <4>1, <4>2 DEF SameThread
    <3> QED
      BY <3>2, <3>3, <3>4
  <2>9. ThreadsClosed'
    <3> SUFFICES ASSUME NEW i \in DOMAIN replies'
                 PROVE  /\ replies'[i].broadcast \in DOMAIN broadcasts
                        /\ replies'[i].group \in broadcasts[replies'[i].broadcast].targets
                        /\ replies'[i].createdAt >= broadcasts[replies'[i].broadcast].createdAt
                        /\ replies'[i].ref # NoParent =>
                              /\ replies'[i].ref \in 1 .. i - 1
                              /\ replies'[replies'[i].ref].broadcast = replies'[i].broadcast
                              /\ replies'[replies'[i].ref].group = replies'[i].group
                              /\ replies'[replies'[i].ref].createdAt <= replies'[i].createdAt
      BY <2>2 DEF ThreadsClosed
    <3>1. CASE i \in DOMAIN replies
      BY <2>3, <2>4, <3>1 DEF StoredOK, ThreadsClosed
    <3>2. CASE i = Len(replies) + 1
      BY <2>4, <2>8, <3>2
    <3> QED
      BY <2>4, <3>1, <3>2
  <2> QED
    BY <2>5, <2>6, <2>7, <2>9 DEF InFlightOK, StoredOK
<1> QED
  BY <1>1, <1>2 DEF ReplyStore

-----------------------------------------------------------------------------
\* The invariants of the tables in every reachable state.
LEMMA InitStored == Init => InFlightOK /\ StoredOK
<1> SUFFICES ASSUME Init PROVE InFlightOK /\ StoredOK
  OBVIOUS
<1>1. InFlightOK
  BY DEF Init, InFlightOK, ClockCovers, TargetFound, ParentFound, KeyOwned
<1>2. StoredOK
  BY DEF Init, StoredOK, ConfirmedOnce, ConfirmationsAnswerTargets, ThreadsClosed
<1> QED
  BY <1>1, <1>2

\* Where the tables stay, what they hold stays right.
LEMMA StoredStays ==
    ASSUME StoredOK, UNCHANGED tables
    PROVE  StoredOK'
BY DEF StoredOK, ConfirmedOnce, ConfirmationsAnswerTargets, ThreadsClosed, tables

\* What happens around the requests touches neither them nor the tables; the
\* clock only moves on.
LEMMA AroundInFlight ==
    ASSUME TypeOK, InFlightOK, UNCHANGED <<tables, pc, call, at>>,
           now' = now \/ now' = now + 1
    PROVE  InFlightOK'
<1>1. ClockCovers'
  BY StampsAreTimes DEF InFlightOK, ClockCovers, tables, TypeOK
<1>2. \A r \in Request : TargetFound(r)' /\ ParentFound(r)' /\ KeyOwned(r)'
  BY DEF InFlightOK, TargetFound, ParentFound, KeyOwned, Targeted, Confirmed, SameKey, tables
<1> QED
  BY <1>1, <1>2 DEF InFlightOK

LEMMA NextStored ==
    ASSUME TypeOK, InFlightOK, StoredOK, [Next]_vars
    PROVE  InFlightOK' /\ StoredOK'
<1>1. ASSUME NEW r \in Request, Begin(r) PROVE InFlightOK' /\ StoredOK'
  BY <1>1, BeginInFlight, StoredStays DEF Begin
<1>2. ASSUME NEW r \in Request, Serve(r) PROVE InFlightOK' /\ StoredOK'
  <2>1. CASE \/ PublishActor(r) \/ PublishGroups(r) \/ ConfirmActor(r) \/ ConfirmPermit(r)
             \/ ReplyActor(r) \/ ReplyPermit(r) \/ ReplyParent(r) \/ Get(r)
    BY <2>1, CheckingInFlight, StoredStays
    DEF PublishActor, PublishGroups, ConfirmActor, ConfirmPermit,
        ReplyActor, ReplyPermit, ReplyParent, Get
  <2>2. CASE ConfirmInsert(r)
    BY <2>2, ConfirmInsertInFlight, StoredStays DEF ConfirmInsert
  <2>3. CASE PublishStore(r)
    BY <2>3, PublishStoreStored
  <2>4. CASE ConfirmCommit(r)
    BY <2>4, ConfirmCommitStored
  <2>5. CASE ReplyStore(r)
    BY <2>5, ReplyStoreStored
  <2>6. CASE Present(r)
    <3>1. MovesTo(r, "done", 0) /\ UNCHANGED <<tables, now, call>>
      BY <2>6, FinishMoves DEF Present
    <3> QED
      BY <3>1, NothingClaimed, StoredStays
  <2> QED
    BY <1>2, <2>1, <2>2, <2>3, <2>4, <2>5, <2>6 DEF Serve
<1>3. ASSUME NEW r \in Request, Abort(r) PROVE InFlightOK' /\ StoredOK'
  <2>1. MovesTo(r, "done", 0) /\ UNCHANGED <<tables, now, call>>
    BY <1>3, FinishMoves DEF Abort
  <2> QED
    BY <2>1, NothingClaimed, StoredStays
<1>4. CASE Tick
  BY <1>4, AroundInFlight, StoredStays DEF Tick
<1>5. ASSUME NEW u \in AdminUpdates, UpdateAccount(u[1], u[2])
      PROVE  InFlightOK' /\ StoredOK'
  BY <1>5, AroundInFlight, StoredStays DEF UpdateAccount
<1>6. ASSUME NEW g \in Group, RetypeGroup(g) \/ DeleteGroup(g)
      PROVE  InFlightOK' /\ StoredOK'
  BY <1>6, AroundInFlight, StoredStays DEF RetypeGroup, DeleteGroup
<1>7. CASE UNCHANGED vars
  BY <1>7, AroundInFlight, StoredStays DEF vars
<1> QED
  BY <1>1, <1>2, <1>3, <1>4, <1>5, <1>6, <1>7 DEF Next

\* What a request has established by the time it writes still holds when it does.
THEOREM InFlightCorrect == Spec => [](InFlightOK /\ StoredOK)
<1>1. TypeOK /\ (InFlightOK /\ StoredOK) /\ [Next]_vars => (InFlightOK /\ StoredOK)'
  BY NextStored
<1> QED
  BY InitStored, TypeCorrect, <1>1, PTL DEF Spec

\* Of the students of a target at most one confirms, for any number of concurrent
\* requests, rollbacks and crashes.
THEOREM ConfirmedOnceCorrect == Spec => []ConfirmedOnce
<1>1. StoredOK => ConfirmedOnce
  BY DEF StoredOK
<1> QED
  BY InFlightCorrect, <1>1, PTL

\* No confirmation without its target, or stamped before its broadcast.
THEOREM ConfirmationsCorrect == Spec => []ConfirmationsAnswerTargets
<1>1. StoredOK => ConfirmationsAnswerTargets
  BY DEF StoredOK
<1> QED
  BY InFlightCorrect, <1>1, PTL

\* Every thread is a forest whose parents come first, in storage and in time.
THEOREM ThreadsCorrect == Spec => []ThreadsClosed
<1>1. StoredOK => ThreadsClosed
  BY DEF StoredOK
<1> QED
  BY InFlightCorrect, <1>1, PTL

-----------------------------------------------------------------------------
(* Groups that are referred to stay. *)

\* A deletion is refused as long as a target or an account refers to the group,
\* and a publication is refused once the group is gone.
THEOREM TargetsCorrect == Spec => []TargetsExist
<1>1. Init => TargetsExist
  <2> SUFFICES ASSUME Init PROVE TargetsExist
    OBVIOUS
  <2>1. \A a \in Account : InitialAccounts[a].group \in Group
    BY ParametersAssumption DEF AccountState
  <2>2. \A g \in Group : InitialGroups[g] # "deleted"
    BY ParametersAssumption
  <2> QED
    BY <2>1, <2>2 DEF Init, TargetsExist
<1>2. TypeOK /\ TargetsExist /\ [Next]_vars => TargetsExist'
  <2> SUFFICES ASSUME TypeOK, TargetsExist, [Next]_vars PROVE TargetsExist'
    OBVIOUS
  <2>1. CASE UNCHANGED <<broadcasts, accounts, groups>>
    BY <2>1 DEF TargetsExist
  <2>2. ASSUME NEW r \in Request, PublishStore(r) PROVE TargetsExist'
    <3>1. CASE UNCHANGED broadcasts
      BY <2>1, <2>2, <3>1 DEF PublishStore, directory
    <3>2. CASE ~\E g \in call[r].targets : groups[g] = "deleted"
      <4>1. PICK t \in at[r] .. now :
              broadcasts' = Append(broadcasts,
                 [author |-> call[r].account, targets |-> call[r].targets,
                  createdAt |-> t, deadline |-> ConfirmationDeadline(t)])
        BY <2>2, <3>2 DEF PublishStore
      <4>2. broadcasts \in Seq(BroadcastRow)
        BY DEF TypeOK, TablesTypeOK
      <4>3. \A b \in DOMAIN broadcasts' :
              \/ b \in DOMAIN broadcasts /\ broadcasts'[b] = broadcasts[b]
              \/ broadcasts'[b].targets = call[r].targets
        BY <4>1, <4>2
      <4>4. UNCHANGED <<accounts, groups>>
        BY <2>2 DEF PublishStore, directory
      <4> QED
        BY <3>2, <4>3, <4>4 DEF TargetsExist
    <3> QED
      BY <2>2, <3>1, <3>2 DEF PublishStore
  <2>3. ASSUME NEW u \in AdminUpdates, UpdateAccount(u[1], u[2]) PROVE TargetsExist'
    <3>1. u[1] \in Account /\ groups[u[2].group] # "deleted"
      BY <2>3, ParametersAssumption DEF UpdateAccount
    <3>2. /\ accounts' = [accounts EXCEPT ![u[1]] = u[2]]
          /\ UNCHANGED <<broadcasts, groups>>
      BY <2>3 DEF UpdateAccount, tables
    <3> QED
      BY <3>1, <3>2 DEF TargetsExist, TypeOK
  <2>4. ASSUME NEW g \in Group, RetypeGroup(g) PROVE TargetsExist'
    <3>1. /\ UNCHANGED <<broadcasts, accounts>>
          /\ \A h \in Group : groups'[h] = "deleted" => groups[h] = "deleted"
      BY <2>4 DEF RetypeGroup, tables, TypeOK
    <3>2. /\ \A b \in DOMAIN broadcasts : broadcasts[b] \in BroadcastRow
          /\ \A a \in Account : accounts[a].group \in Group
      BY DEF TypeOK, TablesTypeOK, AccountState
    <3> QED
      BY <3>1, <3>2 DEF TargetsExist, BroadcastRow
  <2>5. ASSUME NEW g \in Group, DeleteGroup(g) PROVE TargetsExist'
    BY <2>5 DEF DeleteGroup, TargetsExist, tables, TypeOK
  <2>6. ASSUME NEW r \in Request, Begin(r) \/ Abort(r) \/ (Serve(r) /\ ~PublishStore(r))
        PROVE  UNCHANGED <<broadcasts, accounts, groups>>
    BY <2>6 DEF Begin, Abort, Serve, PublishActor, PublishGroups, ConfirmActor,
       ConfirmPermit, ConfirmInsert, ConfirmCommit, ReplyActor, ReplyPermit, ReplyParent,
       ReplyStore, Get, Present, tables, directory
  <2>7. Tick \/ UNCHANGED vars => UNCHANGED <<broadcasts, accounts, groups>>
    BY DEF Tick, vars, tables, directory
  <2> QED
    BY <2>1, <2>2, <2>3, <2>4, <2>5, <2>6, <2>7 DEF Next
<1> QED
  BY <1>1, <1>2, TypeCorrect, PTL DEF Spec

-----------------------------------------------------------------------------
(* The requests implement the notice board. *)

\* The bound on the clock bounds every stamp.
ClockBounded == now <= MaxTime /\ \A r \in Request : at[r] <= MaxTime

LEMMA ClockStaysBounded == Spec => []ClockBounded
<1>1. Init => ClockBounded
  BY ParametersAssumption DEF Init, ClockBounded
<1>2. TypeOK /\ ClockBounded /\ [Next]_vars => ClockBounded'
  <2> SUFFICES ASSUME TypeOK, ClockBounded, [Next]_vars PROVE ClockBounded'
    OBVIOUS
  <2>1. MaxTime \in Nat /\ now \in Nat /\ at \in [Request -> Nat]
    BY ParametersAssumption DEF TypeOK
  <2>2. ASSUME NEW r \in Request, NEW t \in Nat, t <= now, now' = now,
               at' = [at EXCEPT ![r] = t] \/ at' = [at EXCEPT ![r] = 0]
        PROVE  ClockBounded'
    BY <2>1, <2>2 DEF ClockBounded
  <2>3. ASSUME NEW r \in Request, NEW status, NEW step, NEW t \in Nat,
               Check(r, status, step, t), t <= now, now' = now
        PROVE  ClockBounded'
    BY <2>2, <2>3 DEF Check, Advance, Finish
  <2>4. ASSUME NEW r \in Request, Begin(r) PROVE ClockBounded'
    BY <2>1, <2>2, <2>4 DEF Begin, Check, Advance, Finish
  <2>5. ASSUME NEW r \in Request, Serve(r) PROVE ClockBounded'
    <3>1. at[r] \in Nat
      BY <2>1
    <3>2. CASE \/ PublishActor(r) \/ PublishGroups(r) \/ ConfirmActor(r) \/ ConfirmPermit(r)
               \/ ReplyActor(r) \/ ReplyPermit(r) \/ ReplyParent(r) \/ Get(r)
      BY <2>1, <2>3, <3>2
      DEF PublishActor, PublishGroups, ConfirmActor, ConfirmPermit,
          ReplyActor, ReplyPermit, ReplyParent, Get
    <3>3. CASE PublishStore(r) \/ ConfirmCommit(r) \/ ReplyStore(r) \/ Present(r)
      BY <2>1, <2>2, <3>3
      DEF PublishStore, ConfirmCommit, ReplyStore, Present, Advance, Finish
    <3>4. CASE ConfirmInsert(r)
      BY <2>1, <2>2, <3>1, <3>4 DEF ConfirmInsert, Advance, Finish
    <3> QED
      BY <2>5, <3>2, <3>3, <3>4 DEF Serve
  <2>6. ASSUME NEW r \in Request, Abort(r) PROVE ClockBounded'
    <3>1. now' = now /\ at' = [at EXCEPT ![r] = 0]
      BY <2>6 DEF Abort, Finish
    <3> QED
      BY <2>1, <3>1 DEF ClockBounded
  <2>7. CASE Tick
    BY <2>1, <2>7 DEF Tick, ClockBounded
  <2>8. ASSUME UNCHANGED <<now, at>> PROVE ClockBounded'
    BY <2>8 DEF ClockBounded
  <2> QED
    BY <2>4, <2>5, <2>6, <2>7, <2>8
    DEF Next, UpdateAccount, RetypeGroup, DeleteGroup, vars
<1> QED
  BY <1>1, <1>2, TypeCorrect, PTL DEF Spec

LEMMA SameCalendar ==
    ASSUME NEW t \in Int
    PROVE  Board!ConfirmationDeadline(t) = ConfirmationDeadline(t)
BY DEF Board!ConfirmationDeadline, Board!ConfirmationDay, Board!LocalDay, Board!Local,
       Board!TimeOfDay, ConfirmationDeadline, ConfirmationDay, LocalDay, Local, TimeOfDay

LEMMA PublishImplements ==
    ASSUME TypeOK, ClockBounded, NEW r \in Request, PublishStore(r)
    PROVE  Board!Next \/ UNCHANGED tables
<1>1. CASE \E g \in call[r].targets : groups[g] = "deleted"
  BY <1>1 DEF PublishStore, tables
<1>2. CASE ~\E g \in call[r].targets : groups[g] = "deleted"
  <2>1. PICK t \in at[r] .. now :
          broadcasts' = Append(broadcasts,
             [author |-> call[r].account, targets |-> call[r].targets,
              createdAt |-> t, deadline |-> ConfirmationDeadline(t)])
    BY <1>2 DEF PublishStore
  <2>2. t \in 0 .. MaxTime
    BY ParametersAssumption DEF TypeOK, ClockBounded
  <2>3. call[r].account \in Account /\ call[r].targets \in (SUBSET Group) \ {{}}
    BY DEF PublishStore, TypeOK, Step, Resolved, Call
  <2>4. Board!Publish(call[r].account, call[r].targets, t)
    BY <2>1, <2>2, SameCalendar DEF PublishStore, Board!Publish
  <2> QED
    BY <2>2, <2>3, <2>4 DEF Board!Next
<1> QED
  BY <1>1, <1>2

LEMMA ConfirmImplements ==
    ASSUME TypeOK, ClockBounded, InFlightOK, NEW r \in Request, ConfirmCommit(r)
    PROVE  Board!Next
<1>1. pc[r] = "commit" /\ Resolved(r) /\ call[r].op = "confirm"
  BY DEF ConfirmCommit, TypeOK, Step, Resolved, StepsOf, Call, Op
<1>2. TargetFound(r) /\ KeyOwned(r)
  BY DEF InFlightOK
<1>3. /\ call[r].account \in Account
      /\ call[r].group \in Group
      /\ call[r].broadcast \in DOMAIN broadcasts
  BY <1>1, <1>2 DEF Resolved, Call, Scoped, TargetFound, Targeted
<1>4. at[r] \in 0 .. MaxTime
  BY ParametersAssumption DEF ClockBounded, TypeOK
<1>5. Board!Confirm(call[r].broadcast, call[r].group, call[r].account, at[r])
  BY <1>1, <1>2 DEF ConfirmCommit, Board!Confirm, TargetFound, KeyOwned, Targeted, Confirmed
<1> QED
  BY <1>3, <1>4, <1>5 DEF Board!Next

LEMMA ReplyImplements ==
    ASSUME TypeOK, ClockBounded, InFlightOK, NEW r \in Request, ReplyStore(r)
    PROVE  Board!Next \/ UNCHANGED tables
<1>1. CASE Finish(r, "conflict", {}) /\ UNCHANGED <<replies, committed>>
  BY <1>1 DEF ReplyStore, tables
<1>2. CASE /\ Targeted(call[r].broadcast, call[r].group)
           /\ \/ call[r].ref = NoParent
              \/ SameThread(call[r].ref, call[r].broadcast, call[r].group)
  <2>1. PICK t \in at[r] .. now :
          replies' = Append(replies,
             [broadcast |-> call[r].broadcast, group |-> call[r].group,
              author |-> call[r].account, ref |-> call[r].ref, createdAt |-> t])
    BY <1>2 DEF ReplyStore
  <2>2. /\ at[r] \in Nat /\ now \in Nat /\ t \in Nat /\ t >= at[r] /\ t \in 0 .. MaxTime
    BY ParametersAssumption DEF TypeOK, ClockBounded
  <2>3. Resolved(r) /\ call[r].op = "reply" /\ pc[r] = "store"
    BY DEF ReplyStore, TypeOK, Step
  <2>4. TargetFound(r) /\ ParentFound(r)
    BY DEF InFlightOK
  <2>5. /\ call[r].account \in Account
        /\ call[r].group \in Group
        /\ call[r].broadcast \in DOMAIN broadcasts
        /\ call[r].group \in broadcasts[call[r].broadcast].targets
    BY <1>2, <2>3 DEF Resolved, Call, Scoped, Targeted
  <2>6. t >= broadcasts[call[r].broadcast].createdAt
    BY <2>2, <2>3, <2>4, <2>5, StampsAreTimes DEF TargetFound
  <2>7. call[r].ref # NoParent =>
          /\ call[r].ref \in DOMAIN replies
          /\ replies[call[r].ref].broadcast = call[r].broadcast
          /\ replies[call[r].ref].group = call[r].group
          /\ replies[call[r].ref].createdAt <= t
    BY <1>2, <2>2, <2>3, <2>4, StampsAreTimes DEF ParentFound, SameThread
  <2>8. Board!Reply(call[r].broadcast, call[r].group, call[r].account, call[r].ref, t)
    BY <2>1, <2>5, <2>6, <2>7 DEF ReplyStore, Board!Reply, NoParent, Board!NoParent
  <2>9. call[r].ref \in DOMAIN replies \union {Board!NoParent}
    BY <2>7 DEF NoParent, Board!NoParent
  <2> QED
    BY <2>2, <2>5, <2>8, <2>9 DEF Board!Next
<1> QED
  BY <1>1, <1>2 DEF ReplyStore

\* Whatever requests, crashes and administrative changes interleave to, the
\* tables change as the notice board allows: each step publishes one broadcast,
\* confirms one target for the first time, adds one reply to a thread, or leaves
\* them alone.
THEOREM Implementation == Spec => ImplementsBoard
<1>1. Init => Board!Init
  BY DEF Init, Board!Init
<1>2. TypeOK /\ ClockBounded /\ InFlightOK /\ [Next]_vars => [Board!Next]_(Board!tables)
  <2> SUFFICES ASSUME TypeOK, ClockBounded, InFlightOK, [Next]_vars
               PROVE  Board!Next \/ UNCHANGED tables
    BY DEF tables, Board!tables
  <2>1. ASSUME NEW r \in Request, PublishStore(r) \/ ConfirmCommit(r) \/ ReplyStore(r)
        PROVE  Board!Next \/ UNCHANGED tables
    BY <2>1, PublishImplements, ConfirmImplements, ReplyImplements
  <2>2. ASSUME NEW r \in Request,
               Begin(r) \/ Abort(r)
                 \/ (Serve(r) /\ ~(PublishStore(r) \/ ConfirmCommit(r) \/ ReplyStore(r)))
        PROVE  UNCHANGED tables
    BY <2>2 DEF Begin, Abort, Serve, PublishActor, PublishGroups, ConfirmActor,
       ConfirmPermit, ConfirmInsert, ReplyActor, ReplyPermit, ReplyParent, Get, Present
  <2>3. \/ Tick \/ UNCHANGED vars
        \/ \E u \in AdminUpdates : UpdateAccount(u[1], u[2])
        \/ \E g \in Group : RetypeGroup(g) \/ DeleteGroup(g)
        => UNCHANGED tables
    BY DEF Tick, vars, UpdateAccount, RetypeGroup, DeleteGroup
  <2> QED
    BY <2>1, <2>2, <2>3 DEF Next
<1> QED
  BY <1>1, <1>2, TypeCorrect, ClockStaysBounded, InFlightCorrect, PTL
  DEF Spec, ImplementsBoard, Board!Spec

-----------------------------------------------------------------------------
(* Who is entitled to what is stored and shown. *)

\* The author of the broadcast, or a member of the target with the permission.
MayReply(r) ==
    \/ /\ call[r].broadcast \in DOMAIN broadcasts
       /\ WasTeacher(r) /\ broadcasts[call[r].broadcast].author = call[r].account
    \/ WasMember(r, call[r].group) /\ WasPermitted(r, "reply")

\* What a request has found of its caller was so while it was served, and what
\* it will find next is.
Entitled(r) ==
    /\ pc[r] \in Step => Actor(r) \in ever[r]
    /\ pc[r] = "groups" \/ (pc[r] = "store" /\ call[r].op = "publish") => WasTeacher(r)
    /\ pc[r] \in {"permit", "insert", "commit"} => WasMember(r, call[r].group)
    /\ pc[r] \in {"insert", "commit"} => WasPermitted(r, "confirm")
    /\ pc[r] = "parent" \/ (pc[r] = "store" /\ call[r].op = "reply") => MayReply(r)

EntitledOK == \A r \in Request : Entitled(r)

\* Broadcasts keep their authors.
AuthorsKept ==
    /\ DOMAIN broadcasts \subseteq DOMAIN broadcasts'
    /\ \A b \in DOMAIN broadcasts : broadcasts'[b].author = broadcasts[b].author

\* What a request was entitled to it stays entitled to.
LEMMA EntitledStays ==
    ASSUME NEW r \in Request, Entitled(r), AuthorsKept,
           pc'[r] \in {pc[r], "done"}, call'[r] = call[r], ever[r] \subseteq ever'[r],
           pc'[r] \in Step => accounts'[call[r].account] \in ever'[r]
    PROVE  Entitled(r)'
BY DEF Entitled, AuthorsKept, MayReply, WasTeacher, WasMember, WasPermitted, Actor, Step

\* A request that has no more to show than who is asking.
LEMMA NothingEntitled ==
    ASSUME NEW r \in Request, pc'[r] \in {"actor", "get", "present", "done"},
           pc'[r] \in Step => Actor(r)' \in ever'[r]
    PROVE  Entitled(r)'
BY DEF Entitled

\* A step of r by which nothing is stored, and the others stay where they are.
LEMMA OneEntitled ==
    ASSUME EntitledOK, NEW r \in Request, NEW step, NEW t,
           MovesTo(r, step, t), AuthorsKept, UNCHANGED <<accounts, ever>>,
           \A q \in Request \ {r} : call'[q] = call[q],
           Entitled(r)'
    PROVE  EntitledOK'
<1> SUFFICES ASSUME NEW q \in Request, q # r
             PROVE  Entitled(q)'
  BY DEF EntitledOK
<1>1. Entitled(q) /\ pc'[q] = pc[q] /\ call'[q] = call[q]
  BY DEF EntitledOK, MovesTo
<1>2. pc'[q] \in Step => accounts'[call[q].account] \in ever'[q]
  BY <1>1 DEF Entitled, Actor
<1> QED
  BY <1>1, <1>2, EntitledStays

LEMMA CheckingEntitled ==
    ASSUME TypeOK, EntitledOK, NEW r \in Request,
           \/ PublishActor(r) \/ PublishGroups(r) \/ ConfirmActor(r) \/ ConfirmPermit(r)
           \/ ReplyActor(r) \/ ReplyPermit(r) \/ ReplyParent(r) \/ Get(r)
    PROVE  EntitledOK'
<1>1. /\ UNCHANGED <<tables, directory, call, ever>> /\ AuthorsKept
      /\ pc[r] \in Step /\ Resolved(r) /\ Entitled(r)
      /\ Actor(r) \in ever[r] /\ Actor(r)' = Actor(r)
  BY DEF PublishActor, PublishGroups, ConfirmActor, ConfirmPermit, ReplyActor, ReplyPermit,
     ReplyParent, Get, AuthorsKept, tables, directory, TypeOK, Step, EntitledOK, Entitled, Actor
<1>2. ASSUME NEW status, NEW step \in Step, NEW t, Check(r, status, step, t),
             pc'[r] = step => Entitled(r)'
      PROVE  EntitledOK'
  <2>1. MovesTo(r, step, t)
    BY <1>2, CheckMoves DEF Step
  <2>2. pc'[r] = "done" => Entitled(r)'
    BY NothingEntitled DEF Step
  <2> QED
    BY <1>1, <1>2, <2>1, <2>2, OneEntitled DEF MovesTo, directory
<1>3. CASE PublishActor(r)
  <2>1. pc'[r] = "groups" => Actor(r).active /\ Actor(r).type = "teacher"
    BY <1>3, CheckMoves DEF PublishActor
  <2>2. pc'[r] = "groups" => Entitled(r)'
    BY <1>1, <2>1 DEF Entitled, WasTeacher
  <2> QED
    BY <1>2, <1>3, <2>2 DEF PublishActor, Step
<1>4. CASE PublishGroups(r)
  <2>1. WasTeacher(r) /\ call[r].op = "publish"
    BY <1>1, <1>4 DEF PublishGroups, Entitled, Resolved, StepsOf, Call, Op
  <2>2. pc'[r] = "store" => Entitled(r)'
    BY <1>1, <2>1 DEF Entitled, WasTeacher
  <2> QED
    BY <1>2, <1>4, <2>2 DEF PublishGroups, Step
<1>5. CASE ConfirmActor(r)
  <2>1. pc'[r] = "permit" =>
          Actor(r).active /\ Actor(r).type = "student" /\ Actor(r).group = call[r].group
    BY <1>5, CheckMoves DEF ConfirmActor, ConfirmActorStatus
  <2>2. pc'[r] = "permit" => Entitled(r)'
    BY <1>1, <2>1 DEF Entitled, WasMember
  <2> QED
    BY <1>2, <1>5, <2>2 DEF ConfirmActor, Step
<1>6. CASE ConfirmPermit(r)
  <2>1. pc'[r] = "insert" => "confirm" \in Actor(r).may
    BY <1>6, CheckMoves DEF ConfirmPermit, PermitStatus
  <2>2. WasMember(r, call[r].group)
    BY <1>1, <1>6 DEF ConfirmPermit, Entitled
  <2>3. pc'[r] = "insert" => Entitled(r)'
    BY <1>1, <2>1, <2>2 DEF Entitled, WasMember, WasPermitted
  <2> QED
    BY <1>2, <1>6, <2>3 DEF ConfirmPermit, Step
<1>7. CASE ReplyActor(r)
  <2> DEFINE step == IF Authored(r) THEN "parent" ELSE "permit"
  <2>1. pc'[r] = step => ReplyActorStatus(r) = "ok"
    BY <1>7, CheckMoves DEF ReplyActor
  <2>2. ASSUME pc'[r] = step, Authored(r) PROVE Entitled(r)'
    <3>1. /\ Actor(r).active /\ Actor(r).type = "teacher"
          /\ broadcasts[call[r].broadcast].author = call[r].account
          /\ call[r].broadcast \in DOMAIN broadcasts
      BY <2>1, <2>2 DEF ReplyActorStatus, Targeted, Authored
    <3> QED
      BY <1>1, <2>2, <3>1 DEF Entitled, MayReply, WasTeacher, tables
  <2>3. ASSUME pc'[r] = step, ~Authored(r) PROVE Entitled(r)'
    <3>1. /\ Actor(r).active /\ Actor(r).type = "student"
          /\ Actor(r).group = call[r].group
      BY <2>1, <2>3 DEF ReplyActorStatus
    <3> QED
      BY <1>1, <2>3, <3>1 DEF Entitled, WasMember
  <2> QED
    BY <1>2, <1>7, <2>2, <2>3 DEF ReplyActor, Step
<1>8. CASE ReplyPermit(r)
  <2>1. pc'[r] = "parent" => "reply" \in Actor(r).may
    BY <1>8, CheckMoves DEF ReplyPermit, PermitStatus
  <2>2. WasMember(r, call[r].group)
    BY <1>1, <1>8 DEF ReplyPermit, Entitled
  <2>3. pc'[r] = "parent" => Entitled(r)'
    BY <1>1, <2>1, <2>2 DEF Entitled, MayReply, WasMember, WasPermitted
  <2> QED
    BY <1>2, <1>8, <2>3 DEF ReplyPermit, Step
<1>9. CASE ReplyParent(r)
  <2>1. MayReply(r) /\ call[r].op = "reply"
    BY <1>1, <1>9 DEF ReplyParent, Entitled, Resolved, StepsOf, Call, Op
  <2>2. pc'[r] = "store" => Entitled(r)'
    BY <1>1, <2>1 DEF Entitled, MayReply, WasTeacher, WasMember, WasPermitted, tables
  <2> QED
    BY <1>2, <1>9, <2>2 DEF ReplyParent, Step
<1>10. CASE Get(r)
  <2>1. pc'[r] = "present" => Entitled(r)'
    BY <1>1, NothingEntitled DEF Step
  <2> QED
    BY <1>2, <1>10, <2>1 DEF Get, Step
<1> QED
  BY <1>3, <1>4, <1>5, <1>6, <1>7, <1>8, <1>9, <1>10

LEMMA BeginEntitled ==
    ASSUME TypeOK, EntitledOK, NEW r \in Request, Begin(r)
    PROVE  EntitledOK'
<1>1. PICK o \in Offered, b \in 0 .. Len(broadcasts),
           ref \in {UnknownReply, NoParent} \union DOMAIN replies :
        /\ call' = [call EXCEPT ![r] =
              [op |-> o.op, account |-> o.account, targets |-> o.targets,
               group |-> IF o.op \in Scoped THEN ScopedGroup(accounts[o.account], o.group)
                         ELSE o.group,
               broadcast |-> b, ref |-> ref]]
        /\ ever' = [ever EXCEPT ![r] = {accounts[o.account]}]
        /\ Check(r, IF ~accounts[o.account].active THEN "unauthorized"
                    ELSE IF o.op \in Scoped THEN ScopeStatus(accounts[o.account], o.group)
                    ELSE "ok",
                 IF o.op \in Mutations THEN "actor" ELSE "get", 0)
  BY DEF Begin
<1>2. MovesTo(r, IF o.op \in Mutations THEN "actor" ELSE "get", 0)
  BY <1>1, CheckMoves
<1>3. accounts' = accounts /\ AuthorsKept
  BY DEF Begin, tables, directory, AuthorsKept
<1>4. Entitled(r)'
  <2>1. call'[r].account = o.account /\ ever'[r] = {accounts[o.account]}
    BY <1>1 DEF TypeOK
  <2>2. Actor(r)' \in ever'[r]
    BY <1>3, <2>1 DEF Actor
  <2> QED
    BY <1>2, <2>2, NothingEntitled DEF MovesTo
<1>5. ASSUME NEW q \in Request, q # r
      PROVE  Entitled(q)'
  <2>1. Entitled(q) /\ pc'[q] = pc[q] /\ call'[q] = call[q] /\ ever'[q] = ever[q]
    BY <1>1, <1>2, <1>5 DEF EntitledOK, MovesTo, TypeOK
  <2>2. pc'[q] \in Step => accounts'[call[q].account] \in ever'[q]
    BY <1>3, <2>1 DEF Entitled, Actor
  <2> QED
    BY <1>3, <2>1, <2>2, EntitledStays
<1> QED
  BY <1>4, <1>5 DEF EntitledOK

\* The steps that insert and store: what is left to do is to answer.
LEMMA StoringEntitled ==
    ASSUME TypeOK, EntitledOK, NEW r \in Request,
           PublishStore(r) \/ ConfirmInsert(r) \/ ConfirmCommit(r) \/ ReplyStore(r)
    PROVE  EntitledOK'
<1>1. /\ accounts' = accounts /\ ever' = ever /\ pc[r] \in Step
      /\ \A q \in Request \ {r} : call'[q] = call[q]
      /\ call'[r].account = call[r].account
  <2>1. CASE PublishStore(r)
    <3>1. pc[r] \in Step /\ accounts' = accounts /\ ever' = ever
      BY <2>1 DEF PublishStore, directory, Step
    <3>2. call[r] \in Call /\ Len(broadcasts) + 1 \in Nat
      BY <3>1 DEF TypeOK, Resolved, TablesTypeOK
    <3>3. \/ call' = call
          \/ call' = [call EXCEPT ![r] = [call[r] EXCEPT !.broadcast = Len(broadcasts) + 1]]
      BY <2>1 DEF PublishStore
    <3> DEFINE stored == [call[r] EXCEPT !.broadcast = Len(broadcasts) + 1]
    <3>4. stored.account = call[r].account
      BY <3>2, CallOnBroadcast
    <3>5. call' = call \/ call' = [call EXCEPT ![r] = stored]
      BY <3>3
    <3> HIDE DEF stored
    <3>6. call'[r].account = call[r].account /\ \A q \in Request \ {r} : call'[q] = call[q]
      BY <3>4, <3>5 DEF TypeOK
    <3> QED
      BY <3>1, <3>6
  <2>2. CASE ConfirmInsert(r) \/ ConfirmCommit(r) \/ ReplyStore(r)
    BY <2>2 DEF ConfirmInsert, ConfirmCommit, ReplyStore, directory, Step
  <2> QED
    BY <2>1, <2>2
<1>2. AuthorsKept
  <2>1. broadcasts' = broadcasts \/ \E row : broadcasts' = Append(broadcasts, row)
    BY DEF PublishStore, ConfirmInsert, ConfirmCommit, ReplyStore, tables
  <2>2. broadcasts \in Seq(BroadcastRow)
    BY DEF TypeOK, TablesTypeOK
  <2> QED
    BY <2>1, <2>2 DEF AuthorsKept
<1>3. Entitled(r) /\ Actor(r)' = Actor(r) /\ Actor(r) \in ever[r]
  BY <1>1 DEF EntitledOK, Entitled, Actor
<1>4. CASE ConfirmInsert(r)
  <2>1. PICK t : MovesTo(r, "commit", t)
    BY <1>4, FinishMoves, AdvanceMoves DEF ConfirmInsert, MovesTo
  <2>2. pc[r] = "insert" /\ call' = call
    BY <1>4 DEF ConfirmInsert
  <2>3. Entitled(r)'
    BY <1>1, <1>3, <2>1, <2>2 DEF MovesTo, Entitled, WasMember, WasPermitted, Step
  <2> QED
    BY <1>1, <1>2, <2>1, <2>3, OneEntitled
<1>5. CASE PublishStore(r) \/ ConfirmCommit(r) \/ ReplyStore(r)
  <2>1. MovesTo(r, "get", 0)
    BY <1>5, FinishMoves, AdvanceMoves DEF PublishStore, ConfirmCommit, ReplyStore, MovesTo
  <2>2. Entitled(r)'
    BY <1>1, <1>3, <2>1, NothingEntitled DEF MovesTo
  <2> QED
    BY <1>1, <1>2, <2>1, <2>2, OneEntitled
<1> QED
  BY <1>4, <1>5

\* A change of an account is seen by the requests it makes.
LEMMA UpdateEntitled ==
    ASSUME TypeOK, EntitledOK, NEW a \in Account, NEW s \in AccountState, UpdateAccount(a, s)
    PROVE  EntitledOK'
<1> SUFFICES ASSUME NEW r \in Request
             PROVE  Entitled(r)'
  BY DEF EntitledOK
<1>1. /\ accounts' = [accounts EXCEPT ![a] = s]
      /\ ever'[r] = IF r \in Running /\ call[r].account = a THEN ever[r] \union {s} ELSE ever[r]
      /\ pc' = pc /\ call' = call /\ AuthorsKept
  BY DEF UpdateAccount, TypeOK, AuthorsKept, tables
<1>2. Entitled(r) /\ ever[r] \subseteq ever'[r]
  BY <1>1 DEF EntitledOK
<1>3. pc'[r] \in Step => accounts'[call[r].account] \in ever'[r]
  <2> SUFFICES ASSUME pc[r] \in Step
               PROVE  accounts'[call[r].account] \in ever'[r]
    BY <1>1
  <2>1. r \in Running /\ accounts[call[r].account] \in ever[r] /\ call[r].account \in Account
    BY <1>2 DEF Running, Step, Entitled, Actor, TypeOK, Resolved, Call
  <2> QED
    BY <1>1, <2>1 DEF TypeOK
<1> QED
  BY <1>1, <1>2, <1>3, EntitledStays

LEMMA NextEntitled ==
    ASSUME TypeOK, EntitledOK, [Next]_vars
    PROVE  EntitledOK'
<1>1. ASSUME NEW r \in Request, Present(r) \/ Abort(r) PROVE EntitledOK'
  <2>1. MovesTo(r, "done", 0) /\ UNCHANGED <<tables, directory, call, ever>>
    BY <1>1, FinishMoves DEF Present, Abort
  <2>2. Entitled(r)' /\ AuthorsKept
    BY <2>1, NothingEntitled DEF MovesTo, Step, AuthorsKept, tables
  <2> QED
    BY <2>1, <2>2, OneEntitled DEF directory
<1>2. ASSUME NEW r \in Request, Serve(r) PROVE EntitledOK'
  BY <1>1, <1>2, CheckingEntitled, StoringEntitled DEF Serve
<1>3. ASSUME NEW r \in Request, Begin(r) PROVE EntitledOK'
  BY <1>3, BeginEntitled
<1>4. ASSUME NEW u \in AdminUpdates, UpdateAccount(u[1], u[2]) PROVE EntitledOK'
  BY <1>4, UpdateEntitled, ParametersAssumption
<1>5. ASSUME UNCHANGED <<broadcasts, accounts, pc, call, ever>> PROVE EntitledOK'
  BY <1>5 DEF EntitledOK, Entitled, MayReply, WasTeacher, WasMember, WasPermitted, Actor
<1> QED
  BY <1>1, <1>2, <1>3, <1>4, <1>5
  DEF Next, Tick, RetypeGroup, DeleteGroup, vars, tables, directory

LEMMA EntitledCorrect == Spec => []EntitledOK
<1>1. Init => EntitledOK
  BY DEF Init, EntitledOK, Entitled, Step
<1>2. TypeOK /\ EntitledOK /\ [Next]_vars => EntitledOK'
  BY NextEntitled
<1> QED
  BY <1>1, <1>2, TypeCorrect, PTL DEF Spec

\* A row is stored only for who was entitled to it while the request was served,
\* for any roles, permissions and memberships that change in between.
\* (_actor, _read_group, _require_permission)
THEOREM StoredRowsCorrect == Spec => StoredRowsWereAuthorized
<1> DEFINE Authorized(r) ==
        CASE call[r].op = "publish" -> WasTeacher(r)
          [] call[r].op = "confirm" ->
                WasMember(r, call[r].group) /\ WasPermitted(r, "confirm")
          [] call[r].op = "reply" ->
                \/ WasTeacher(r) /\ broadcasts[call[r].broadcast].author = call[r].account
                \/ WasMember(r, call[r].group) /\ WasPermitted(r, "reply")
<1>1. TypeOK /\ EntitledOK /\ [Next]_vars => [\A r \in committed' \ committed : Authorized(r)]_vars
  <2> SUFFICES ASSUME TypeOK, EntitledOK, Next, NEW r \in committed' \ committed
               PROVE  Authorized(r)
    OBVIOUS
  <2>1. PICK q \in Request : PublishStore(q) \/ ConfirmCommit(q) \/ ReplyStore(q)
    BY DEF Next, Begin, Serve, Abort, Tick, UpdateAccount, RetypeGroup, DeleteGroup,
       PublishActor, PublishGroups, ConfirmActor, ConfirmPermit, ConfirmInsert, ReplyActor,
       ReplyPermit, ReplyParent, Get, Present
  <2>2. q = r
    BY <2>1 DEF PublishStore, ConfirmCommit, ReplyStore
  <2>3. Entitled(r) /\ r \in Request
    BY <2>2 DEF EntitledOK
  <2>4. CASE PublishStore(r)
    BY <2>3, <2>4 DEF PublishStore, Entitled
  <2>5. CASE ConfirmCommit(r)
    <3>1. call[r].op = "confirm"
      BY <2>3, <2>5 DEF ConfirmCommit, TypeOK, Step, Resolved, StepsOf, Call, Op
    <3> QED
      BY <2>3, <2>5, <3>1 DEF ConfirmCommit, Entitled
  <2>6. CASE ReplyStore(r)
    BY <2>3, <2>6 DEF ReplyStore, Entitled, MayReply
  <2> QED
    BY <2>1, <2>2, <2>4, <2>5, <2>6
<1> QED
  BY <1>1, TypeCorrect, EntitledCorrect, PTL DEF Spec, StoredRowsWereAuthorized

\* What present keeps of the targets.
Stamps(b, g) == {c.at : c \in {d \in confirmations : d.broadcast = b /\ d.group = g}}

LEMMA ShownTarget ==
    ASSUME NEW a, NEW b, NEW g, NEW h \in ShownTargets(a, b, g)
    PROVE  /\ Targeted(b, h.group)
           /\ (IF a.type = "student" THEN a.group ELSE g) \in {NoGroup, h.group}
           /\ h.state = ConfirmationState(broadcasts[b].deadline, Stamps(b, h.group), now)
<1> DEFINE stateOf(k) == ConfirmationState(broadcasts[b].deadline, Stamps(b, k), now)
<1>1. PICK k \in Group :
        /\ Targeted(b, k) /\ (IF a.type = "student" THEN a.group ELSE g) \in {NoGroup, k}
        /\ h = [group |-> k, state |-> stateOf(k)]
  BY DEF ShownTargets, Stamps
<1> HIDE DEF stateOf
<1>2. h.group = k /\ h.state = stateOf(k)
  BY <1>1
<1>3. h.state = stateOf(h.group)
  BY <1>2
<1> QED
  BY <1>1, <1>2, <1>3 DEF stateOf

\* A student who was never a teacher while his request was served is shown only
\* groups he belonged to meanwhile, for any moves.  (scoped_group, present)
THEOREM ShownScopeCorrect == Spec => ShownScope
<1> DEFINE InScope(r) ==
        answer'[r].shown # answer[r].shown =>
           \/ \E s \in ever[r] : s.type = "teacher"
           \/ \A h \in answer'[r].shown : \E s \in ever[r] : s.group = h.group
<1>1. TypeOK /\ EntitledOK /\ [Next]_vars => [\A r \in Request : InScope(r)]_vars
  <2> SUFFICES ASSUME TypeOK, EntitledOK, Next, NEW r \in Request,
                      answer'[r].shown # answer[r].shown
               PROVE  \/ \E s \in ever[r] : s.type = "teacher"
                      \/ \A h \in answer'[r].shown : \E s \in ever[r] : s.group = h.group
    OBVIOUS
  <2>1. ASSUME NEW q \in Request, NEW status, Finish(q, status, {})
        PROVE  answer'[r].shown = {}
    BY <2>1 DEF Finish, TypeOK
  <2>2. ASSUME NEW q \in Request, NEW status, NEW step, NEW t, Check(q, status, step, t)
        PROVE  answer'[r].shown = {}
    BY <2>1, <2>2 DEF Check, Advance
  <2>3. ASSUME NEW q \in Request,
               \/ PublishActor(q) \/ PublishGroups(q) \/ ConfirmActor(q) \/ ConfirmPermit(q)
               \/ ReplyActor(q) \/ ReplyPermit(q) \/ ReplyParent(q) \/ Get(q)
        PROVE  answer'[r].shown = {}
    BY <2>2, <2>3 DEF PublishActor, PublishGroups, ConfirmActor, ConfirmPermit, ReplyActor,
       ReplyPermit, ReplyParent, Get
  <2>4. ASSUME NEW q \in Request,
               PublishStore(q) \/ ConfirmInsert(q) \/ ConfirmCommit(q) \/ ReplyStore(q)
        PROVE  answer'[r].shown = {}
    BY <2>1, <2>4 DEF PublishStore, ConfirmInsert, ConfirmCommit, ReplyStore, Advance
  <2>5. ASSUME NEW q \in Request, Begin(q) \/ Abort(q)
        PROVE  answer'[r].shown = {}
    BY <2>1, <2>2, <2>5 DEF Begin, Abort
  <2>6. ASSUME NEW q \in Request, Present(q)
        PROVE  \/ \E s \in ever[r] : s.type = "teacher"
               \/ \A h \in answer'[r].shown : \E s \in ever[r] : s.group = h.group
    <3>1. q = r
      BY <2>6 DEF Present, Finish, TypeOK
    <3>2. answer'[r].shown = ShownTargets(Actor(r), call[r].broadcast, call[r].group)
      BY <2>6, <3>1 DEF Present, Finish, TypeOK
    <3>3. Actor(r) \in ever[r] /\ Actor(r) \in AccountState
      BY <2>6, <3>1 DEF Present, EntitledOK, Entitled, Step, TypeOK
    <3>4. CASE Actor(r).type = "teacher"
      BY <3>3, <3>4
    <3>5. CASE Actor(r).type = "student"
      <4>1. Actor(r).group # NoGroup
        BY <3>3, ParametersAssumption DEF AccountState
      <4>2. \A h \in answer'[r].shown : h.group = Actor(r).group
        <5> SUFFICES ASSUME NEW h \in ShownTargets(Actor(r), call[r].broadcast, call[r].group)
                     PROVE  h.group = Actor(r).group
          BY <3>2
        <5>1. (IF Actor(r).type = "student" THEN Actor(r).group ELSE call[r].group)
                 \in {NoGroup, h.group}
          BY ShownTarget
        <5> QED
          BY <3>5, <4>1, <5>1
      <4> QED
        BY <3>3, <4>2
    <3> QED
      BY <3>3, <3>4, <3>5 DEF AccountState
  <2>7. answer' # answer
    OBVIOUS
  <2> QED
    BY <2>3, <2>4, <2>5, <2>6, <2>7
    DEF Next, Serve, Tick, UpdateAccount, RetypeGroup, DeleteGroup
<1> QED
  BY <1>1, TypeCorrect, EntitledCorrect, PTL DEF Spec, ShownScope

-----------------------------------------------------------------------------
(* What a status code tells of the data. *)

Refused == {"unauthorized", "conflict", "invalid"}

RivalStored(r) == \E q \in committed : call[q].op = "confirm" /\ SameKey(r, q)

\* A request has committed exactly from its commit on, and has an answer at its end.
Course(r) ==
    /\ r \in committed => pc[r] \in {"get", "present", "done"}
    /\ pc[r] \in {"get", "present"} /\ call[r].op \in Mutations => r \in committed
    /\ pc[r] # "done" => answer[r].status = "none"
    /\ pc[r] = "done" /\ answer[r].status = "created" => r \in committed
    /\ pc[r] = "done" /\ answer[r].status \in Refused => r \notin committed
    /\ pc[r] = "done" /\ answer[r].status = "conflict" /\ call[r].op = "confirm" => RivalStored(r)

\* The confirmations are those of the committed requests, one for one.
RowsAreCommitted ==
    /\ \A c \in confirmations : \E q \in committed :
          call[q].op = "confirm" /\ call[q].broadcast = c.broadcast /\ call[q].group = c.group
    /\ \A q \in committed : call[q].op = "confirm" =>
          Confirmed(call[q].broadcast, call[q].group)
    /\ \A r, q \in committed :
          call[r].op = "confirm" /\ call[q].op = "confirm" /\ SameKey(r, q) => r = q

OutcomeOK == RowsAreCommitted /\ \A r \in Request : Course(r)

\* Request r goes on or ends and commits nothing; its call was or becomes new.
LEMMA CourseOfOthers ==
    ASSUME TypeOK, OutcomeOK, NEW r \in Request, UNCHANGED <<confirmations, committed>>,
           \A q \in Request \ {r} :
              pc'[q] = pc[q] /\ answer'[q] = answer[q] /\ call'[q] = call[q],
           r \in committed => call'[r] = call[r],
           Course(r)'
    PROVE  OutcomeOK'
<1>1. \A q \in committed : q \in Request /\ call'[q] = call[q]
  BY DEF TypeOK
<1>2. RowsAreCommitted'
  BY <1>1 DEF OutcomeOK, RowsAreCommitted, SameKey, Confirmed
<1>3. ASSUME NEW q \in Request, q # r PROVE Course(q)'
  <2>1. Course(q) /\ pc'[q] = pc[q] /\ answer'[q] = answer[q] /\ call'[q] = call[q]
    BY <1>3 DEF OutcomeOK
  <2>2. RivalStored(q) => RivalStored(q)'
    BY <1>1, <2>1 DEF RivalStored, SameKey
  <2> QED
    BY <2>1, <2>2 DEF Course
<1> QED
  BY <1>2, <1>3 DEF OutcomeOK

\* A step that only checks: it commits nothing and a 401, 409 or 422 comes before
\* any commit.
LEMMA CheckingOutcome ==
    ASSUME TypeOK, OutcomeOK, NEW r \in Request, NEW status \in Status, NEW step \in Step, NEW t,
           Check(r, status, step, t), UNCHANGED <<confirmations, committed, call>>,
           pc[r] \in {"actor", "groups", "permit", "parent", "get"},
           step \in {"get", "present"} <=> pc[r] = "get",
           pc[r] = "get" => status \notin Refused,
           status \notin {"created", "conflict"}
    PROVE  OutcomeOK'
<1>1. /\ pc' = [pc EXCEPT ![r] = IF status = "ok" THEN step ELSE "done"]
      /\ answer' = IF status = "ok" THEN answer
                   ELSE [answer EXCEPT ![r] = [status |-> status, shown |-> {}]]
  BY DEF Check, Advance, Finish
<1>2. \A q \in Request \ {r} : pc'[q] = pc[q] /\ answer'[q] = answer[q] /\ call'[q] = call[q]
  BY <1>1 DEF TypeOK
<1>3. /\ pc'[r] = (IF status = "ok" THEN step ELSE "done")
      /\ status # "ok" => answer'[r].status = status
      /\ status = "ok" => answer'[r] = answer[r]
  BY <1>1 DEF TypeOK
<1>4. Course(r)
  BY DEF OutcomeOK
<1>5. CASE status = "ok"
  <2>1. pc'[r] = step /\ answer'[r] = answer[r] /\ call'[r] = call[r] /\ committed' = committed
    BY <1>3, <1>5
  <2>2. Course(r)'
    BY <1>4, <2>1 DEF Course, Step
  <2> QED
    BY <1>2, <2>2, CourseOfOthers
<1>6. CASE status # "ok"
  <2>1. /\ pc'[r] = "done" /\ answer'[r].status = status
        /\ call'[r] = call[r] /\ committed' = committed
    BY <1>3, <1>6
  <2>2. status \in Refused => r \notin committed
    BY <1>4 DEF Course
  <2>3. Course(r)'
    BY <2>1, <2>2 DEF Course
  <2> QED
    BY <1>2, <2>3, CourseOfOthers
<1> QED
  BY <1>5, <1>6

LEMMA ServingOutcome ==
    ASSUME TypeOK, OutcomeOK, NEW r \in Request,
           \/ PublishActor(r) \/ PublishGroups(r) \/ ConfirmActor(r) \/ ConfirmPermit(r)
           \/ ReplyActor(r) \/ ReplyPermit(r) \/ ReplyParent(r) \/ Get(r)
    PROVE  OutcomeOK'
<1> USE DEF Step, Status, Refused, tables
<1>1. CASE PublishActor(r)
  BY <1>1, CheckingOutcome DEF PublishActor
<1>2. CASE PublishGroups(r)
  BY <1>2, CheckingOutcome DEF PublishGroups, GroupsStatus
<1>3. CASE ConfirmActor(r)
  BY <1>3, CheckingOutcome DEF ConfirmActor, ConfirmActorStatus
<1>4. CASE ConfirmPermit(r)
  BY <1>4, CheckingOutcome DEF ConfirmPermit, PermitStatus
<1>5. CASE ReplyActor(r)
  BY <1>5, CheckingOutcome DEF ReplyActor, ReplyActorStatus
<1>6. CASE ReplyPermit(r)
  BY <1>6, CheckingOutcome DEF ReplyPermit, PermitStatus
<1>7. CASE ReplyParent(r)
  BY <1>7, CheckingOutcome DEF ReplyParent, ParentStatus
<1>8. CASE Get(r)
  BY <1>8, CheckingOutcome DEF Get, GetStatus
<1> QED
  BY <1>1, <1>2, <1>3, <1>4, <1>5, <1>6, <1>7, <1>8

\* A step that ends a request before it has committed anything, but for a 409.
LEMMA BeginOutcome ==
    ASSUME TypeOK, OutcomeOK, NEW r \in Request, Begin(r)
    PROVE  OutcomeOK'
<1>1. PICK status \in {"ok", "unauthorized", "forbidden", "invalid"}, o \in Offered :
        /\ Check(r, status, IF o.op \in Mutations THEN "actor" ELSE "get", 0)
        /\ call'[r].op = o.op
  <2>1. PICK o \in Offered, b \in 0 .. Len(broadcasts),
             ref \in {UnknownReply, NoParent} \union DOMAIN replies :
          /\ call' = [call EXCEPT ![r] =
                [op |-> o.op, account |-> o.account, targets |-> o.targets,
                 group |-> IF o.op \in Scoped THEN ScopedGroup(accounts[o.account], o.group)
                           ELSE o.group,
                 broadcast |-> b, ref |-> ref]]
          /\ Check(r, IF ~accounts[o.account].active THEN "unauthorized"
                      ELSE IF o.op \in Scoped THEN ScopeStatus(accounts[o.account], o.group)
                      ELSE "ok",
                   IF o.op \in Mutations THEN "actor" ELSE "get", 0)
    BY DEF Begin
  <2>2. call'[r].op = o.op
    BY <2>1 DEF TypeOK
  <2>3. (IF ~accounts[o.account].active THEN "unauthorized"
         ELSE IF o.op \in Scoped THEN ScopeStatus(accounts[o.account], o.group)
         ELSE "ok") \in {"ok", "unauthorized", "forbidden", "invalid"}
    BY DEF ScopeStatus
  <2> QED
    BY <2>1, <2>2, <2>3
<1>2. /\ pc[r] = "idle" /\ UNCHANGED <<confirmations, committed>>
      /\ \A q \in Request \ {r} : call'[q] = call[q]
  BY DEF Begin, tables, TypeOK
<1>3. r \notin committed
  BY <1>2 DEF OutcomeOK, Course
<1>4. \A q \in Request \ {r} : pc'[q] = pc[q] /\ answer'[q] = answer[q]
  BY <1>1 DEF Check, Advance, Finish, TypeOK
<1>5. /\ status = "ok" =>
            pc'[r] = (IF o.op \in Mutations THEN "actor" ELSE "get") /\ answer'[r] = answer[r]
      /\ status # "ok" => pc'[r] = "done" /\ answer'[r].status = status
  BY <1>1 DEF Check, Advance, Finish, TypeOK
<1>6. Course(r) /\ answer[r].status = "none"
  BY <1>2 DEF OutcomeOK, Course
<1>7. Course(r)'
  BY <1>1, <1>2, <1>3, <1>5, <1>6 DEF Course, Refused
<1> QED
  BY <1>2, <1>3, <1>4, <1>7, CourseOfOthers

\* A 409 before the commit; for a confirmation because a rival's row stands.
LEMMA ConflictOutcome ==
    ASSUME TypeOK, OutcomeOK, NEW r \in Request, Finish(r, "conflict", {}),
           UNCHANGED <<confirmations, committed, call>>, pc[r] \in {"store", "insert"},
           call[r].op = "confirm" => RivalStored(r)
    PROVE  OutcomeOK'
<1>1. /\ \A q \in Request \ {r} :
            pc'[q] = pc[q] /\ answer'[q] = answer[q] /\ call'[q] = call[q]
      /\ pc'[r] = "done" /\ answer'[r].status = "conflict"
  BY DEF Finish, TypeOK
<1>2. r \notin committed
  BY DEF OutcomeOK, Course
<1>3. Course(r)'
  BY <1>1, <1>2 DEF Course, Refused, RivalStored, SameKey
<1> QED
  BY <1>1, <1>2, <1>3, CourseOfOthers

\* A commit: the request goes on to answer, and the confirmations stand as before
\* but for its own.
LEMMA CommitOutcome ==
    ASSUME TypeOK, OutcomeOK, NEW r \in Request, Advance(r, "get", 0),
           pc[r] \in {"store", "commit"}, committed' = committed \union {r},
           \A q \in Request \ {r} : call'[q] = call[q], call'[r].op = call[r].op,
           RowsAreCommitted'
    PROVE  OutcomeOK'
<1>1. /\ \A q \in Request \ {r} : pc'[q] = pc[q] /\ answer'[q] = answer[q]
      /\ pc'[r] = "get" /\ answer'[r] = answer[r]
  BY DEF Advance, TypeOK
<1>2. Course(r) /\ r \notin committed
  BY DEF OutcomeOK, Course
<1>3. Course(r)'
  BY <1>1, <1>2 DEF Course
<1>4. ASSUME NEW q \in Request, q # r PROVE Course(q)'
  <2>1. Course(q) /\ pc'[q] = pc[q] /\ answer'[q] = answer[q] /\ call'[q] = call[q]
    BY <1>1, <1>4 DEF OutcomeOK
  <2>2. RivalStored(q) => RivalStored(q)'
    BY <1>2, <2>1 DEF RivalStored, SameKey, TypeOK
  <2> QED
    BY <1>4, <2>1, <2>2 DEF Course
<1> QED
  BY <1>3, <1>4 DEF OutcomeOK

LEMMA StoringOutcome ==
    ASSUME TypeOK, InFlightOK, OutcomeOK, NEW r \in Request,
           PublishStore(r) \/ ConfirmInsert(r) \/ ConfirmCommit(r) \/ ReplyStore(r)
    PROVE  OutcomeOK'
<1>1. committed \subseteq Request /\ Course(r)
  BY DEF TypeOK, OutcomeOK
<1>2. CASE PublishStore(r)
  <2>1. call[r].op = "publish" /\ pc[r] = "store" /\ UNCHANGED confirmations /\ call[r] \in Call
    BY <1>2 DEF PublishStore, TypeOK, Resolved, Step
  <2>2. CASE Finish(r, "conflict", {}) /\ UNCHANGED <<broadcasts, call, committed>>
    BY <2>1, <2>2, ConflictOutcome
  <2>3. CASE /\ call' = [call EXCEPT ![r].broadcast = Len(broadcasts) + 1]
             /\ committed' = committed \union {r} /\ Advance(r, "get", 0)
    <3> DEFINE stored == [call[r] EXCEPT !.broadcast = Len(broadcasts) + 1]
    <3>1. stored.op = "publish"
      BY <2>1, CallOnBroadcast DEF TypeOK, TablesTypeOK
    <3>2. call' = [call EXCEPT ![r] = stored]
      BY <2>3
    <3> HIDE DEF stored
    <3>3. call'[r].op = "publish" /\ \A q \in Request \ {r} : call'[q] = call[q]
      BY <3>1, <3>2 DEF TypeOK
    <3>4. r \notin committed
      BY <1>1, <2>1 DEF Course
    <3>5. RowsAreCommitted'
      BY <1>1, <2>1, <2>3, <3>3, <3>4 DEF OutcomeOK, RowsAreCommitted, SameKey, Confirmed
    <3> QED
      BY <2>1, <2>3, <3>3, <3>5, CommitOutcome
  <2> QED
    BY <1>2, <2>2, <2>3 DEF PublishStore
<1>3. CASE ConfirmInsert(r)
  <2>1. pc[r] = "insert" /\ UNCHANGED <<confirmations, committed, call>>
    BY <1>3 DEF ConfirmInsert, tables
  <2>2. CASE Finish(r, "conflict", {}) /\ Confirmed(call[r].broadcast, call[r].group)
    <3>1. RivalStored(r)
      BY <2>2 DEF RivalStored, SameKey, Confirmed, OutcomeOK, RowsAreCommitted
    <3> QED
      BY <2>1, <2>2, <3>1, ConflictOutcome
  <2>3. CASE \E t \in at[r] .. now : Advance(r, "commit", t)
    <3>1. /\ \A q \in Request \ {r} :
                pc'[q] = pc[q] /\ answer'[q] = answer[q] /\ call'[q] = call[q]
          /\ pc'[r] = "commit" /\ answer'[r] = answer[r] /\ call'[r] = call[r]
      BY <2>1, <2>3 DEF Advance, TypeOK
    <3>2. Course(r)'
      BY <1>1, <2>1, <3>1 DEF Course
    <3> QED
      BY <2>1, <3>1, <3>2, CourseOfOthers
  <2>4. Targeted(call[r].broadcast, call[r].group)
    BY <2>1 DEF InFlightOK, TargetFound
  <2> QED
    BY <1>3, <2>2, <2>3, <2>4 DEF ConfirmInsert
<1>4. CASE ConfirmCommit(r)
  <2>1. /\ pc[r] = "commit" /\ call' = call
        /\ confirmations' = confirmations \union
              {[broadcast |-> call[r].broadcast, group |-> call[r].group,
                by |-> call[r].account, at |-> at[r]]}
        /\ committed' = committed \union {r} /\ Advance(r, "get", 0)
    BY <1>4 DEF ConfirmCommit
  <2>2. call[r].op = "confirm"
    BY <2>1 DEF TypeOK, Step, Resolved, StepsOf, Call, Op
  <2>3. ~Confirmed(call[r].broadcast, call[r].group)
    BY <2>1 DEF InFlightOK, KeyOwned
  <2>4. \A q \in committed : call[q].op = "confirm" => ~SameKey(r, q) /\ ~SameKey(q, r)
    BY <2>3 DEF OutcomeOK, RowsAreCommitted, SameKey
  <2>5. RowsAreCommitted'
    <3>1. \A c \in confirmations' : \E q \in committed' :
             call[q].op = "confirm" /\ call[q].broadcast = c.broadcast /\ call[q].group = c.group
      <4> SUFFICES ASSUME NEW c \in confirmations'
                   PROVE  \E q \in committed' :
                             /\ call[q].op = "confirm"
                             /\ call[q].broadcast = c.broadcast /\ call[q].group = c.group
        OBVIOUS
      <4>1. CASE c \in confirmations
        BY <2>1, <4>1 DEF OutcomeOK, RowsAreCommitted
      <4>2. CASE c \notin confirmations
        <5>1. c.broadcast = call[r].broadcast /\ c.group = call[r].group
          BY <2>1, <4>2
        <5> QED
          BY <2>1, <2>2, <5>1
      <4> QED
        BY <4>1, <4>2
    <3>2. \A q \in committed' : call[q].op = "confirm" =>
             \E c \in confirmations' : c.broadcast = call[q].broadcast /\ c.group = call[q].group
      <4> SUFFICES ASSUME NEW q \in committed', call[q].op = "confirm"
                   PROVE  \E c \in confirmations' :
                             c.broadcast = call[q].broadcast /\ c.group = call[q].group
        OBVIOUS
      <4>1. CASE q = r
        <5> DEFINE row == [broadcast |-> call[r].broadcast, group |-> call[r].group,
                           by |-> call[r].account, at |-> at[r]]
        <5>1. row \in confirmations'
          BY <2>1
        <5>2. row.broadcast = call[q].broadcast /\ row.group = call[q].group
          BY <4>1
        <5> QED
          BY <5>1, <5>2
      <4>2. CASE q # r
        BY <2>1, <4>2 DEF OutcomeOK, RowsAreCommitted, Confirmed
      <4> QED
        BY <4>1, <4>2
    <3>3. \A p, q \in committed' :
             call[p].op = "confirm" /\ call[q].op = "confirm" /\ SameKey(p, q) => p = q
      BY <2>1, <2>4 DEF OutcomeOK, RowsAreCommitted
    <3> QED
      BY <2>1, <3>1, <3>2, <3>3 DEF RowsAreCommitted, SameKey, Confirmed
  <2> QED
    BY <2>1, <2>5, CommitOutcome
<1>5. CASE ReplyStore(r)
  <2>1. call[r].op = "reply" /\ pc[r] = "store" /\ UNCHANGED <<confirmations, call>>
    BY <1>5 DEF ReplyStore
  <2>2. CASE Finish(r, "conflict", {}) /\ UNCHANGED <<replies, committed>>
    BY <2>1, <2>2, ConflictOutcome
  <2>3. CASE committed' = committed \union {r} /\ Advance(r, "get", 0)
    <3>1. RowsAreCommitted'
      BY <2>1, <2>3 DEF OutcomeOK, RowsAreCommitted, SameKey, Confirmed
    <3> QED
      BY <2>1, <2>3, <3>1, CommitOutcome
  <2> QED
    BY <1>5, <2>2, <2>3 DEF ReplyStore
<1> QED
  BY <1>2, <1>3, <1>4, <1>5

LEMMA NextOutcome ==
    ASSUME TypeOK, InFlightOK, OutcomeOK, [Next]_vars
    PROVE  OutcomeOK'
<1>1. ASSUME NEW r \in Request, Present(r) \/ Abort(r) PROVE OutcomeOK'
  <2>1. /\ UNCHANGED <<confirmations, committed, call>> /\ pc'[r] = "done"
        /\ \A q \in Request \ {r} :
              pc'[q] = pc[q] /\ answer'[q] = answer[q] /\ call'[q] = call[q]
    BY <1>1 DEF Present, Abort, Finish, TypeOK, tables
  <2>2. /\ answer'[r].status \in {"created", "failed", "ok", "lost"}
        /\ answer'[r].status = "created" => pc[r] = "present" /\ call[r].op \in Mutations
    BY <1>1 DEF Present, Abort, Finish, TypeOK
  <2>3. Course(r)
    BY DEF OutcomeOK
  <2>4. Course(r)'
    BY <2>1, <2>2, <2>3 DEF Course, Refused
  <2> QED
    BY <2>1, <2>4, CourseOfOthers
<1>2. ASSUME NEW r \in Request, Serve(r) PROVE OutcomeOK'
  BY <1>1, <1>2, ServingOutcome, StoringOutcome DEF Serve
<1>3. ASSUME NEW r \in Request, Begin(r) PROVE OutcomeOK'
  BY <1>3, BeginOutcome
<1>4. ASSUME UNCHANGED <<confirmations, pc, call, answer, committed>> PROVE OutcomeOK'
  BY <1>4 DEF OutcomeOK, RowsAreCommitted, Course, RivalStored, SameKey, Confirmed
<1> QED
  BY <1>1, <1>2, <1>3, <1>4
  DEF Next, Tick, UpdateAccount, RetypeGroup, DeleteGroup, vars, tables

LEMMA OutcomeCorrect == Spec => []OutcomeOK
<1>1. Init => OutcomeOK
  BY DEF Init, OutcomeOK, RowsAreCommitted, Course, NoAnswer
<1>2. TypeOK /\ InFlightOK /\ OutcomeOK /\ [Next]_vars => OutcomeOK'
  BY NextOutcome
<1> QED
  BY <1>1, <1>2, TypeCorrect, InFlightCorrect, PTL DEF Spec

\* 201 means stored, 401, 409 and 422 mean that nothing is, a 409 for a confirmation
\* that a rival's stands, and one request at most confirms a target, whatever aborts
\* and rollbacks come in between.  (confirm, _commit_and_refresh, detail)
THEOREM AnswersTellOutcome == Spec => []AnswerTellsOutcome
<1>1. OutcomeOK => AnswerTellsOutcome
  <2> SUFFICES ASSUME OutcomeOK PROVE AnswerTellsOutcome
    OBVIOUS
  <2>1. ASSUME NEW r \in Request
        PROVE  /\ answer[r].status = "created" => r \in committed
               /\ answer[r].status \in Refused => r \notin committed
               /\ answer[r].status = "conflict" /\ call[r].op = "confirm" => RivalStored(r)
    BY DEF OutcomeOK, Course, Refused
  <2> QED
    BY <2>1 DEF AnswerTellsOutcome, OutcomeOK, RowsAreCommitted, RivalStored, Refused
<1> QED
  BY <1>1, OutcomeCorrect, PTL

-----------------------------------------------------------------------------
(* What the answer to a mutation shows. *)

\* Administrators activate, deactivate and give permissions, but move nobody to
\* another group or type.
CallersStay ==
    \A u \in AdminUpdates : /\ u[2].type = InitialAccounts[u[1]].type
                            /\ u[2].group = InitialAccounts[u[1]].group

AccountsStay ==
    \A a \in Account : /\ accounts[a].type = InitialAccounts[a].type
                       /\ accounts[a].group = InitialAccounts[a].group

ForOneTarget(r) == call[r].op \in {"confirm", "reply"}

Answered(r) ==
    /\ {h.group : h \in answer[r].shown} = {call[r].group}
    /\ call[r].op = "confirm" =>
          \A h \in answer[r].shown : h.state \in {"confirmed_on_time", "confirmed_late"}

\* A confirmation or a reply of a student is for the student's own group; once
\* its row is stored, its target is there to be shown, a confirmed one confirmed.
Addressed(r) ==
    ForOneTarget(r) =>
        /\ pc[r] \in Step /\ InitialAccounts[call[r].account].type = "student" =>
              call[r].group = InitialAccounts[call[r].account].group
        /\ pc[r] \in {"get", "present"} =>
              /\ Targeted(call[r].broadcast, call[r].group)
              /\ call[r].op = "confirm" => Confirmed(call[r].broadcast, call[r].group)
        /\ answer[r].status = "created" => Answered(r)

AddressedOK == \A r \in Request : Addressed(r)

\* Targets and confirmations stay.
TargetsStay ==
    /\ \A b, g : Targeted(b, g) => Targeted(b, g)'
    /\ \A b, g : Confirmed(b, g) => Confirmed(b, g)'

LEMMA AccountsStayed ==
    ASSUME CallersStay
    PROVE  Spec => []AccountsStay
<1>1. Init => AccountsStay
  BY DEF Init, AccountsStay
<1>2. TypeOK /\ AccountsStay /\ [Next]_vars => AccountsStay'
  <2> SUFFICES ASSUME TypeOK, AccountsStay, [Next]_vars PROVE AccountsStay'
    OBVIOUS
  <2>1. ASSUME NEW u \in AdminUpdates, UpdateAccount(u[1], u[2]) PROVE AccountsStay'
    <3>1. accounts' = [accounts EXCEPT ![u[1]] = u[2]] /\ accounts \in [Account -> AccountState]
      BY <2>1 DEF UpdateAccount, TypeOK
    <3> QED
      BY <3>1 DEF AccountsStay, CallersStay
  <2>2. CASE accounts' = accounts
    BY <2>2 DEF AccountsStay
  <2> QED
    BY <2>1, <2>2
    DEF Next, Serve, Begin, Abort, Tick, RetypeGroup, DeleteGroup, PublishActor, PublishGroups,
        PublishStore, ConfirmActor, ConfirmPermit, ConfirmInsert, ConfirmCommit, ReplyActor,
        ReplyPermit, ReplyParent, ReplyStore, Get, Present, directory, vars
<1> QED
  BY <1>1, <1>2, TypeCorrect, PTL DEF Spec

LEMMA TablesKeepTargets ==
    ASSUME TypeOK, [Next]_vars
    PROVE  TargetsStay
<1>1. broadcasts \in Seq(BroadcastRow)
  BY DEF TypeOK, TablesTypeOK
<1>2. \/ broadcasts' = broadcasts \/ \E row : broadcasts' = Append(broadcasts, row)
  BY DEF Next, Serve, Begin, Abort, Tick, UpdateAccount, RetypeGroup, DeleteGroup, PublishActor,
     PublishGroups, PublishStore, ConfirmActor, ConfirmPermit, ConfirmInsert, ConfirmCommit,
     ReplyActor, ReplyPermit, ReplyParent, ReplyStore, Get, Present, tables, vars
<1>3. confirmations \subseteq confirmations'
  BY DEF Next, Serve, Begin, Abort, Tick, UpdateAccount, RetypeGroup, DeleteGroup, PublishActor,
     PublishGroups, PublishStore, ConfirmActor, ConfirmPermit, ConfirmInsert, ConfirmCommit,
     ReplyActor, ReplyPermit, ReplyParent, ReplyStore, Get, Present, tables, vars
<1>4. \A b \in DOMAIN broadcasts : b \in DOMAIN broadcasts' /\ broadcasts'[b] = broadcasts[b]
  BY <1>1, <1>2
<1> QED
  BY <1>3, <1>4 DEF TargetsStay, Targeted, Confirmed

\* A step of r; the others keep what they were found to be for.
LEMMA OneAddressed ==
    ASSUME AddressedOK, NEW r \in Request, TargetsStay, Addressed(r)',
           \A q \in Request \ {r} :
              pc'[q] = pc[q] /\ answer'[q] = answer[q] /\ call'[q] = call[q]
    PROVE  AddressedOK'
<1> SUFFICES ASSUME NEW q \in Request, q # r
             PROVE  Addressed(q)'
  BY DEF AddressedOK
<1>1. Addressed(q) /\ pc'[q] = pc[q] /\ answer'[q] = answer[q] /\ call'[q] = call[q]
  BY DEF AddressedOK
<1> QED
  BY <1>1 DEF Addressed, Answered, ForOneTarget, TargetsStay

\* Only the answer after a commit is a 201.
LEMMA CheckingAddressed ==
    ASSUME TypeOK, OutcomeOK, AddressedOK, TargetsStay, NEW r \in Request,
           NEW status \in Status \ {"created"}, NEW step \in Step, NEW t,
           Check(r, status, step, t), call' = call, pc[r] \in Step,
           step \in {"get", "present"} => pc[r] = "get"
    PROVE  AddressedOK'
<1>1. /\ \A q \in Request \ {r} : pc'[q] = pc[q] /\ answer'[q] = answer[q] /\ call'[q] = call[q]
      /\ pc'[r] \in {step, "done"} /\ answer'[r].status # "created"
  <2>1. answer[r].status # "created"
    BY DEF OutcomeOK, Course, Step
  <2> QED
    BY <2>1 DEF Check, Advance, Finish, TypeOK
<1>2. Addressed(r)
  BY DEF AddressedOK
<1>3. Addressed(r)'
  BY <1>1, <1>2 DEF Addressed, ForOneTarget, TargetsStay, Step
<1> QED
  BY <1>1, <1>3, OneAddressed

LEMMA ServingAddressed ==
    ASSUME TypeOK, OutcomeOK, AddressedOK, TargetsStay, NEW r \in Request,
           \/ PublishActor(r) \/ PublishGroups(r) \/ ConfirmActor(r) \/ ConfirmPermit(r)
           \/ ReplyActor(r) \/ ReplyPermit(r) \/ ReplyParent(r) \/ Get(r)
    PROVE  AddressedOK'
<1> USE DEF Step, Status
<1>1. CASE PublishActor(r)
  BY <1>1, CheckingAddressed DEF PublishActor
<1>2. CASE PublishGroups(r)
  BY <1>2, CheckingAddressed DEF PublishGroups, GroupsStatus
<1>3. CASE ConfirmActor(r)
  BY <1>3, CheckingAddressed DEF ConfirmActor, ConfirmActorStatus
<1>4. CASE ConfirmPermit(r)
  BY <1>4, CheckingAddressed DEF ConfirmPermit, PermitStatus
<1>5. CASE ReplyActor(r)
  BY <1>5, CheckingAddressed DEF ReplyActor, ReplyActorStatus
<1>6. CASE ReplyPermit(r)
  BY <1>6, CheckingAddressed DEF ReplyPermit, PermitStatus
<1>7. CASE ReplyParent(r)
  BY <1>7, CheckingAddressed DEF ReplyParent, ParentStatus
<1>8. CASE Get(r)
  BY <1>8, CheckingAddressed DEF Get, GetStatus
<1> QED
  BY <1>1, <1>2, <1>3, <1>4, <1>5, <1>6, <1>7, <1>8

\* scoped_group writes a student's own group into the call.
LEMMA BeginAddressed ==
    ASSUME TypeOK, OutcomeOK, AccountsStay, AddressedOK, TargetsStay, NEW r \in Request, Begin(r)
    PROVE  AddressedOK'
<1>1. PICK o \in Offered, b \in 0 .. Len(broadcasts),
           ref \in {UnknownReply, NoParent} \union DOMAIN replies :
        /\ call' = [call EXCEPT ![r] =
              [op |-> o.op, account |-> o.account, targets |-> o.targets,
               group |-> IF o.op \in Scoped THEN ScopedGroup(accounts[o.account], o.group)
                         ELSE o.group,
               broadcast |-> b, ref |-> ref]]
        /\ Check(r, IF ~accounts[o.account].active THEN "unauthorized"
                    ELSE IF o.op \in Scoped THEN ScopeStatus(accounts[o.account], o.group)
                    ELSE "ok",
                 IF o.op \in Mutations THEN "actor" ELSE "get", 0)
  BY DEF Begin
<1>2. /\ call'[r].op = o.op /\ call'[r].account = o.account /\ o.account \in Account
      /\ o.op \in Scoped => call'[r].group = ScopedGroup(accounts[o.account], o.group)
      /\ \A q \in Request \ {r} : call'[q] = call[q]
  BY <1>1, ParametersAssumption DEF TypeOK, Offer
<1> DEFINE status == IF ~accounts[o.account].active THEN "unauthorized"
                     ELSE IF o.op \in Scoped THEN ScopeStatus(accounts[o.account], o.group)
                     ELSE "ok"
           step == IF o.op \in Mutations THEN "actor" ELSE "get"
<1>3. status # "created"
  BY DEF ScopeStatus
<1>4. Check(r, status, step, 0)
  BY <1>1
<1>5. answer[r].status # "created"
  <2>1. pc[r] = "idle"
    BY DEF Begin
  <2> QED
    BY <2>1 DEF OutcomeOK, Course
<1> HIDE DEF status
<1>6. /\ \A q \in Request \ {r} : pc'[q] = pc[q] /\ answer'[q] = answer[q]
      /\ pc'[r] \in {step, "done"} /\ answer'[r].status # "created"
  BY <1>3, <1>4, <1>5 DEF Check, Advance, Finish, TypeOK
<1>7. Addressed(r)'
  <2> SUFFICES ASSUME o.op \in {"confirm", "reply"}
               PROVE  /\ pc'[r] \notin {"get", "present"}
                      /\ InitialAccounts[o.account].type = "student" =>
                            call'[r].group = InitialAccounts[o.account].group
    BY <1>2, <1>6 DEF Addressed, ForOneTarget
  <2>1. pc'[r] \in {"actor", "done"} /\ call'[r].group = ScopedGroup(accounts[o.account], o.group)
    BY <1>2, <1>6 DEF Mutations, Scoped
  <2> QED
    BY <1>2, <2>1 DEF ScopedGroup, AccountsStay
<1> QED
  BY <1>2, <1>6, <1>7, OneAddressed

\* The insert is for a target, and the row it leaves is the one detail shows.
LEMMA StoringAddressed ==
    ASSUME TypeOK, InFlightOK, OutcomeOK, AddressedOK, TargetsStay, NEW r \in Request,
           PublishStore(r) \/ ConfirmInsert(r) \/ ConfirmCommit(r) \/ ReplyStore(r)
    PROVE  AddressedOK'
<1>1. Addressed(r) /\ answer[r].status = "none" /\ TargetFound(r)
  BY DEF AddressedOK, OutcomeOK, Course, InFlightOK,
     PublishStore, ConfirmInsert, ConfirmCommit, ReplyStore
<1>2. ASSUME NEW step, NEW t, Advance(r, step, t)
      PROVE  /\ \A q \in Request \ {r} : pc'[q] = pc[q] /\ answer'[q] = answer[q]
             /\ pc'[r] = step /\ answer'[r] = answer[r]
  BY <1>2 DEF Advance, TypeOK
<1>3. ASSUME Finish(r, "conflict", {})
      PROVE  /\ \A q \in Request \ {r} : pc'[q] = pc[q] /\ answer'[q] = answer[q]
             /\ pc'[r] = "done" /\ answer'[r].status = "conflict"
  BY <1>3 DEF Finish, TypeOK
<1>4. CASE PublishStore(r)
  <2>1. call[r].op = "publish" /\ call[r] \in Call
    BY <1>4 DEF PublishStore, TypeOK, Resolved, Step
  <2>2. CASE call' = call
    BY <1>2, <1>3, <1>4, <2>1, <2>2, OneAddressed DEF PublishStore, Addressed, ForOneTarget
  <2>3. CASE /\ call' = [call EXCEPT ![r].broadcast = Len(broadcasts) + 1]
             /\ Advance(r, "get", 0)
    <3> DEFINE stored == [call[r] EXCEPT !.broadcast = Len(broadcasts) + 1]
    <3>1. stored.op = "publish"
      BY <2>1, CallOnBroadcast DEF TypeOK, TablesTypeOK
    <3>2. call' = [call EXCEPT ![r] = stored]
      BY <2>3
    <3> HIDE DEF stored
    <3>3. call'[r].op = "publish" /\ \A q \in Request \ {r} : call'[q] = call[q]
      BY <3>1, <3>2 DEF TypeOK
    <3> QED
      BY <1>2, <2>3, <3>3, OneAddressed DEF Addressed, ForOneTarget
  <2> QED
    BY <1>4, <2>2, <2>3 DEF PublishStore
<1>5. CASE ConfirmInsert(r)
  <2>1. /\ call' = call /\ answer'[r].status # "created" /\ pc'[r] \in {"commit", "done"}
        /\ \A q \in Request \ {r} : pc'[q] = pc[q] /\ answer'[q] = answer[q]
        /\ pc[r] = "insert"
    BY <1>1, <1>2, <1>3, <1>5 DEF ConfirmInsert
  <2>2. Addressed(r)'
    BY <1>1, <2>1 DEF Addressed, ForOneTarget, Step
  <2> QED
    BY <2>1, <2>2, OneAddressed
<1>6. CASE ConfirmCommit(r)
  <2> DEFINE row == [broadcast |-> call[r].broadcast, group |-> call[r].group,
                     by |-> call[r].account, at |-> at[r]]
  <2>1. /\ pc[r] = "commit" /\ call' = call /\ Advance(r, "get", 0) /\ row \in confirmations'
    BY <1>6 DEF ConfirmCommit
  <2>2. row.broadcast = call[r].broadcast /\ row.group = call[r].group
    OBVIOUS
  <2>3. Confirmed(call[r].broadcast, call[r].group)'
    BY <2>1, <2>2 DEF Confirmed
  <2>4. Targeted(call[r].broadcast, call[r].group)'
    BY <1>1, <2>1 DEF TargetFound, TargetsStay
  <2>5. Addressed(r)'
    BY <1>1, <1>2, <2>1, <2>3, <2>4 DEF Addressed, ForOneTarget, Step
  <2> QED
    BY <1>2, <2>1, <2>5, OneAddressed
<1>7. CASE ReplyStore(r)
  <2>1. pc[r] = "store" /\ call[r].op = "reply" /\ call' = call
    BY <1>7 DEF ReplyStore
  <2>2. Targeted(call[r].broadcast, call[r].group)'
    BY <1>1, <2>1 DEF TargetFound, TargetsStay
  <2>3. /\ answer'[r].status # "created" /\ pc'[r] \in {"get", "done"}
        /\ \A q \in Request \ {r} : pc'[q] = pc[q] /\ answer'[q] = answer[q]
    BY <1>1, <1>2, <1>3, <1>7 DEF ReplyStore
  <2>4. Addressed(r)'
    BY <1>1, <2>1, <2>2, <2>3 DEF Addressed, ForOneTarget, Step
  <2> QED
    BY <2>1, <2>3, <2>4, OneAddressed
<1> QED
  BY <1>4, <1>5, <1>6, <1>7

\* Asked for one target, present keeps that target, confirmed if it is.
LEMMA OneTargetShown ==
    ASSUME NEW a, NEW b, NEW g \in Group, Targeted(b, g), g # NoGroup,
           a.type = "student" => a.group = g
    PROVE  /\ {h.group : h \in ShownTargets(a, b, g)} = {g}
           /\ Confirmed(b, g) =>
                 \A h \in ShownTargets(a, b, g) :
                    h.state \in {"confirmed_on_time", "confirmed_late"}
<1>1. (IF a.type = "student" THEN a.group ELSE g) = g
  OBVIOUS
<1>2. ASSUME NEW h \in ShownTargets(a, b, g) PROVE h.group = g
  <2>1. (IF a.type = "student" THEN a.group ELSE g) \in {NoGroup, h.group}
    BY ShownTarget
  <2> QED
    BY <1>1, <2>1
<1>3. \E h \in ShownTargets(a, b, g) : h.group = g
  <2> DEFINE stateOf(k) == ConfirmationState(broadcasts[b].deadline, Stamps(b, k), now)
             scope == IF a.type = "student" THEN a.group ELSE g
             kept == {k \in Group : Targeted(b, k) /\ scope \in {NoGroup, k}}
  <2>1. ShownTargets(a, b, g) = {[group |-> h, state |-> stateOf(h)] : h \in kept}
    BY DEF ShownTargets, Stamps
  <2>2. g \in kept
    BY <1>1
  <2> HIDE DEF stateOf, kept
  <2> DEFINE seen == [group |-> g, state |-> stateOf(g)]
  <2>3. seen \in ShownTargets(a, b, g) /\ seen.group = g
    BY <2>1, <2>2
  <2> QED
    BY <2>3
<1>4. ASSUME Confirmed(b, g), NEW h \in ShownTargets(a, b, g)
      PROVE  h.state \in {"confirmed_on_time", "confirmed_late"}
  <2>1. Stamps(b, h.group) # {}
    BY <1>2, <1>4 DEF Confirmed, Stamps
  <2> QED
    BY <2>1, ShownTarget DEF ConfirmationState
<1> QED
  BY <1>2, <1>3, <1>4

LEMMA PresentAnswers ==
    ASSUME TypeOK, AccountsStay, AddressedOK, NEW r \in Request, Present(r), ForOneTarget(r)
    PROVE  LET shown == ShownTargets(Actor(r), call[r].broadcast, call[r].group)
           IN  /\ {h.group : h \in shown} = {call[r].group}
               /\ call[r].op = "confirm" =>
                     \A h \in shown : h.state \in {"confirmed_on_time", "confirmed_late"}
<1>1. pc[r] = "present" /\ Resolved(r) /\ Addressed(r)
  BY DEF Present, TypeOK, Step, AddressedOK
<1>2. call[r].account \in Account /\ call[r].group \in Group
  BY <1>1 DEF Resolved, Call, ForOneTarget, Scoped
<1>3. /\ call[r].group # NoGroup /\ Targeted(call[r].broadcast, call[r].group)
      /\ Actor(r).type = "student" => Actor(r).group = call[r].group
      /\ call[r].op = "confirm" => Confirmed(call[r].broadcast, call[r].group)
  BY <1>1, <1>2, ParametersAssumption DEF Addressed, ForOneTarget, Step, Actor, AccountsStay
<1> QED
  BY <1>2, <1>3, OneTargetShown

LEMMA NextAddressed ==
    ASSUME TypeOK, InFlightOK, OutcomeOK, AccountsStay, AddressedOK, [Next]_vars
    PROVE  AddressedOK'
<1>1. TargetsStay
  BY TablesKeepTargets
<1>2. ASSUME NEW r \in Request, Present(r) PROVE AddressedOK'
  <2> DEFINE shown == ShownTargets(Actor(r), call[r].broadcast, call[r].group)
  <2>1. /\ call' = call /\ pc'[r] = "done" /\ answer'[r].shown = shown
        /\ \A q \in Request \ {r} : pc'[q] = pc[q] /\ answer'[q] = answer[q]
    BY <1>2 DEF Present, Finish, TypeOK
  <2>2. ForOneTarget(r) =>
          /\ {h.group : h \in shown} = {call[r].group}
          /\ call[r].op = "confirm" =>
                \A h \in shown : h.state \in {"confirmed_on_time", "confirmed_late"}
    BY <1>2, PresentAnswers
  <2> HIDE DEF shown
  <2>3. Addressed(r)'
    BY <2>1, <2>2 DEF Addressed, Answered, ForOneTarget, Step
  <2> QED
    BY <1>1, <2>1, <2>3, OneAddressed
<1>3. ASSUME NEW r \in Request, Abort(r) PROVE AddressedOK'
  <2>1. /\ call' = call /\ pc'[r] = "done" /\ answer'[r].status = "lost"
        /\ \A q \in Request \ {r} : pc'[q] = pc[q] /\ answer'[q] = answer[q]
    BY <1>3 DEF Abort, Finish, TypeOK
  <2>2. Addressed(r)'
    BY <2>1 DEF Addressed, Step
  <2> QED
    BY <1>1, <2>1, <2>2, OneAddressed
<1>4. ASSUME NEW r \in Request, Serve(r) PROVE AddressedOK'
  BY <1>1, <1>2, <1>4, ServingAddressed, StoringAddressed DEF Serve
<1>5. ASSUME NEW r \in Request, Begin(r) PROVE AddressedOK'
  BY <1>1, <1>5, BeginAddressed
<1>6. ASSUME UNCHANGED <<tables, pc, call, answer>> PROVE AddressedOK'
  BY <1>6 DEF AddressedOK, Addressed, Answered, ForOneTarget, Targeted, Confirmed, tables
<1> QED
  BY <1>3, <1>4, <1>5, <1>6
  DEF Next, Tick, UpdateAccount, RetypeGroup, DeleteGroup, vars

\* The answer to a confirmation or a reply shows that one target, a confirmed one
\* confirmed, whatever else administrators change, as long as nobody is moved to
\* another group or type; the moved run shows what happens when a caller is.
\* (src/README.md, detail, present)
THEOREM MutationsAnswerTheirTarget ==
    ASSUME CallersStay
    PROVE  Spec => []MutationAnswersItsTarget
<1>1. Init => AddressedOK
  BY DEF Init, AddressedOK, Addressed, ForOneTarget, NoAnswer, Step
<1>2. TypeOK /\ InFlightOK /\ OutcomeOK /\ AccountsStay /\ AddressedOK /\ [Next]_vars =>
        AddressedOK'
  BY NextAddressed
<1>3. AddressedOK => MutationAnswersItsTarget
  BY DEF AddressedOK, Addressed, Answered, ForOneTarget, MutationAnswersItsTarget
<1>4. Spec => []AccountsStay
  BY AccountsStayed
<1> QED
  BY <1>1, <1>2, <1>3, <1>4, TypeCorrect, InFlightCorrect, OutcomeCorrect, PTL DEF Spec
=============================================================================
