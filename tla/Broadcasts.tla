------------------------------ MODULE Broadcasts ------------------------------
(***************************************************************************)
(* The broadcast requests of the HTTP API, served concurrently:            *)
(*   src/routes/broadcast.py      the handlers, detail and present         *)
(*   src/database/service.py      Broadcast-, BroadcastConfirmation- and   *)
(*                                ReplyService, and the administrative     *)
(*                                operations that change what they read    *)
(*   src/routes/auth.py           get_current_principal (who is asking)    *)
(*                                                                         *)
(* A request is a coroutine with a database session of its own; every      *)
(* awaited statement lets other requests run, and a READ COMMITTED         *)
(* statement sees what has been committed when it runs.  One action is one *)
(* stretch of a handler that reads mutable rows at one instant.  Rows of   *)
(* the three tables never change once committed, so a lookup in them may   *)
(* share an action with a read of the caller's account.                    *)
(***************************************************************************)
EXTENDS BroadcastTables

CONSTANTS
    Request,          \* HTTP requests, each served once
    NoGroup,          \* a request that names no group
    InitialAccounts,  \* the accounts the seed leaves behind
    InitialGroups,    \* and the type of each group
    Offered,          \* the calls clients make
    AdminUpdates,     \* the account changes administrators make
    MaxTime,          \* bound on the clock
    MaxChanges        \* bound on administrative changes

VARIABLES
    accounts,   \* account -> what authorization reads of it
    groups,     \* group -> "class", "other" or "deleted"
    now,        \* the server's clock
    changes,    \* administrative changes so far
    pc,         \* request -> the next step of its handler
    call,       \* request -> what was asked, as the handler resolved it
    at,         \* request -> the clock at its last check, or its row's stamp
    answer,     \* request -> the response, once done
    committed,  \* the requests whose transaction committed a row
    ever        \* request -> the states its account had while it was served

directory == <<accounts, groups, changes>>
vars == <<tables, directory, now, pc, call, at, answer, committed, ever>>

-----------------------------------------------------------------------------
Op == {"publish", "confirm", "reply", "read", "thread"}
Mutations == {"publish", "confirm", "reply"}
Scoped == {"confirm", "reply", "thread"}  \* the routes of one target

\* A parent id that no reply has.
UnknownReply == -1

\* may: the named bits of effective_permissions, that is of the position, the
\* roles and the override windows open at the moment.
AccountState ==
    [active : BOOLEAN, type : {"student", "teacher"}, group : Group,
     may : SUBSET {"confirm", "reply"}]

Offer ==
    [op : Op, account : Account, group : Group \union {NoGroup},
     targets : SUBSET Group]

Call ==
    [op : Op, account : Account, group : Group \union {NoGroup},
     targets : SUBSET Group, broadcast : Nat, ref : Int]

NoCall == [op |-> "none"]

Step ==
    {"actor", "groups", "permit", "parent", "insert", "commit", "store",
     "get", "present"}

\* The steps of each handler.
StepsOf(op) ==
    {"get", "present"}
        \union (IF op = "publish" THEN {"actor", "groups", "store"} ELSE {})
        \union (IF op = "confirm" THEN {"actor", "permit", "insert", "commit"} ELSE {})
        \union (IF op = "reply" THEN {"actor", "permit", "parent", "store"} ELSE {})

Status ==
    {"none", "ok", "created", "unauthorized", "forbidden", "missing",
     "conflict", "invalid", "failed", "lost"}

Shown == [group : Group, state : ConfirmationStates]
NoAnswer == [status |-> "none", shown |-> {}]

ASSUME ParametersAssumption ==
    /\ NoGroup \notin Group
    /\ InitialAccounts \in [Account -> AccountState]
    /\ InitialGroups \in [Group -> {"class", "other"}]
    /\ Offered \subseteq Offer
    /\ \A o \in Offered : o.op = "publish" => o.group = NoGroup /\ o.targets # {}
    /\ AdminUpdates \subseteq Account \X AccountState
    /\ MaxTime \in Nat
    /\ MaxChanges \in Nat

\* The handlers run on calls they can resolve: every step is one of the call's
\* own handler, a publication has targets, and a route of one target has a group
\* by the time its service is called.  (PublishRequest, scoped_group)
Resolved(r) ==
    /\ call[r] \in Call
    /\ pc[r] \in StepsOf(call[r].op)
    /\ call[r].op = "publish" => call[r].targets # {}
    /\ call[r].op \in Scoped => call[r].group \in Group

TypeOK ==
    /\ TablesTypeOK
    /\ accounts \in [Account -> AccountState]
    /\ groups \in [Group -> {"class", "other", "deleted"}]
    /\ now \in Nat
    /\ changes \in Nat
    /\ pc \in [Request -> Step \union {"idle", "done"}]
    /\ call \in [Request -> Call \union {NoCall}]
    /\ \A r \in Request : pc[r] \in Step => Resolved(r)
    /\ at \in [Request -> Nat]
    /\ answer \in [Request -> [status : Status, shown : SUBSET Shown]]
    /\ committed \subseteq Request
    /\ ever \in [Request -> SUBSET AccountState]

Init ==
    /\ broadcasts = <<>> /\ confirmations = {} /\ replies = <<>>
    /\ accounts = InitialAccounts
    /\ groups = InitialGroups
    /\ now = 0
    /\ changes = 0
    /\ pc = [r \in Request |-> "idle"]
    /\ call = [r \in Request |-> NoCall]
    /\ at = [r \in Request |-> 0]
    /\ answer = [r \in Request |-> NoAnswer]
    /\ committed = {}
    /\ ever = [r \in Request |-> {}]

-----------------------------------------------------------------------------
(* The course of a request. *)

\* The caller's account as a statement of request r reads it now.
Actor(r) == accounts[call[r].account]

Running == {r \in Request : pc[r] \notin {"idle", "done"}}

\* The handler goes on to its next step; t is what it remembers of the clock.
Advance(r, step, t) ==
    /\ pc' = [pc EXCEPT ![r] = step]
    /\ at' = [at EXCEPT ![r] = t]
    /\ UNCHANGED answer

\* The handler returns, or raises and the exception handler of main.py answers.
Finish(r, status, shown) ==
    /\ pc' = [pc EXCEPT ![r] = "done"]
    /\ at' = [at EXCEPT ![r] = 0]
    /\ answer' = [answer EXCEPT ![r] = [status |-> status, shown |-> shown]]

Check(r, status, step, t) ==
    IF status = "ok" THEN Advance(r, step, t) ELSE Finish(r, status, {})

\* Slip: a teacher may leave the group out.
ScopeStatusSlip(a, g) ==
    IF a.type = "student" /\ g \notin {NoGroup, a.group} THEN "forbidden" ELSE "ok"

\* scoped_group: students are held to their own group, teachers name one.
ScopeStatus(a, g) ==
    IF a.type = "student" /\ g \notin {NoGroup, a.group} THEN "forbidden"
    ELSE IF a.type = "teacher" /\ g = NoGroup THEN "invalid"
    ELSE "ok"

ScopedGroup(a, g) == IF a.type = "student" THEN a.group ELSE g

\* get_current_principal loads the account, then the handler applies
\* scoped_group to that copy where the route has a group of its own.
Begin(r) ==
    /\ pc[r] = "idle"
    /\ \E o \in Offered, b \in 0 .. Len(broadcasts),
          ref \in {UnknownReply, NoParent} \union DOMAIN replies :
         LET a == accounts[o.account]
         IN
         /\ o.op = "publish" => b = 0
         /\ o.op # "reply" => ref = NoParent
         /\ call' = [call EXCEPT ![r] =
               [op |-> o.op, account |-> o.account, targets |-> o.targets,
                group |-> IF o.op \in Scoped THEN ScopedGroup(a, o.group) ELSE o.group,
                broadcast |-> b, ref |-> ref]]
         /\ ever' = [ever EXCEPT ![r] = {a}]
         /\ Check(r,
                  IF ~a.active THEN "unauthorized"
                  ELSE IF o.op \in Scoped THEN ScopeStatus(a, o.group)
                  ELSE "ok",
                  IF o.op \in Mutations THEN "actor" ELSE "get", 0)
    /\ UNCHANGED <<tables, directory, now, committed>>

-----------------------------------------------------------------------------
(* POST /broadcasts: BroadcastService.create. *)

PublishActor(r) ==
    /\ pc[r] = "actor" /\ call[r].op = "publish"
    /\ Check(r, IF Actor(r).active /\ Actor(r).type = "teacher"
                THEN "ok" ELSE "forbidden", "groups", 0)
    /\ UNCHANGED <<tables, directory, now, call, committed, ever>>

GroupsStatus(targets) ==
    IF \E g \in targets : groups[g] = "deleted" THEN "missing"
    ELSE IF \E g \in targets : groups[g] = "other" THEN "invalid"
    ELSE "ok"

PublishGroups(r) ==
    /\ pc[r] = "groups"
    /\ Check(r, GroupsStatus(call[r].targets), "store", now)
    /\ UNCHANGED <<tables, directory, now, call, committed, ever>>

\* Slip: the deadline of the check, the timestamp of the insert.
PublishStoreSlip(r) ==
    /\ pc[r] = "store" /\ call[r].op = "publish"
    /\ \E t \in at[r] .. now :
         broadcasts' = Append(broadcasts,
            [author |-> call[r].account, targets |-> call[r].targets,
             createdAt |-> t, deadline |-> ConfirmationDeadline(at[r])])
    /\ call' = [call EXCEPT ![r].broadcast = Len(broadcasts) + 1]
    /\ committed' = committed \union {r}
    /\ Advance(r, "get", 0)
    /\ UNCHANGED <<confirmations, replies, directory, now, ever>>

\* The flush inserts the broadcast and its targets in one transaction; a target
\* group deleted since the check breaks broadcast_targets' foreign key and
\* nothing is stored.
PublishStore(r) ==
    /\ pc[r] = "store" /\ call[r].op = "publish"
    /\ IF \E g \in call[r].targets : groups[g] = "deleted"
       THEN /\ Finish(r, "conflict", {})
            /\ UNCHANGED <<broadcasts, call, committed>>
       ELSE /\ \E t \in at[r] .. now :
                 broadcasts' = Append(broadcasts,
                    [author |-> call[r].account, targets |-> call[r].targets,
                     createdAt |-> t, deadline |-> ConfirmationDeadline(t)])
            /\ call' = [call EXCEPT ![r].broadcast = Len(broadcasts) + 1]
            /\ committed' = committed \union {r}
            /\ Advance(r, "get", 0)
    /\ UNCHANGED <<confirmations, replies, directory, now, ever>>

-----------------------------------------------------------------------------
(* POST /broadcasts/{id}/confirmations: BroadcastConfirmationService.confirm. *)

ConfirmActorStatus(a, b, g) ==
    IF ~(a.active /\ a.type = "student" /\ a.group = g) THEN "forbidden"
    ELSE IF ~Targeted(b, g) THEN "missing"
    ELSE "ok"

ConfirmActor(r) ==
    /\ pc[r] = "actor" /\ call[r].op = "confirm"
    /\ Check(r, ConfirmActorStatus(Actor(r), call[r].broadcast, call[r].group),
             "permit", 0)
    /\ UNCHANGED <<tables, directory, now, call, committed, ever>>

\* Slip: the permission is never asked for.
PermitStatusSlip(r) == "ok"

\* _require_permission: effective_permissions of the moment.
PermitStatus(r) == IF call[r].op \in Actor(r).may THEN "ok" ELSE "forbidden"

ConfirmPermit(r) ==
    /\ pc[r] = "permit" /\ call[r].op = "confirm"
    /\ Check(r, PermitStatus(r), "insert", now)
    /\ UNCHANGED <<tables, directory, now, call, committed, ever>>

SameKey(r, q) ==
    call[r].broadcast = call[q].broadcast /\ call[r].group = call[q].group

\* Slips: no constraint arbitrates between two open transactions; two requests
\* that both are about to insert wait for each other.
KeyHeldNever(r) == FALSE
KeyHeldMutually(r) ==
    \E q \in Request \ {r} : pc[q] \in {"insert", "commit"} /\ SameKey(r, q)

\* Another transaction has inserted the same primary key and not ended yet:
\* the database makes the second INSERT wait for it.
KeyHeld(r) == \E q \in Request : pc[q] = "commit" /\ SameKey(r, q)

\* Slip: a duplicate is taken for success.
ConfirmInsertSlip(r) ==
    /\ pc[r] = "insert"
    /\ ~KeyHeld(r)
    /\ IF Confirmed(call[r].broadcast, call[r].group)
       THEN Advance(r, "get", 0)
       ELSE \E t \in at[r] .. now : Advance(r, "commit", t)
    /\ UNCHANGED <<tables, directory, now, call, committed, ever>>

\* confirmed_at is stamped when the statement is built; the row is not visible
\* to others before the commit.  A committed row with the same key, or a target
\* that does not exist, makes the INSERT fail.
ConfirmInsert(r) ==
    /\ pc[r] = "insert"
    /\ ~KeyHeld(r)
    /\ IF Confirmed(call[r].broadcast, call[r].group)
            \/ ~Targeted(call[r].broadcast, call[r].group)
       THEN Finish(r, "conflict", {})
       ELSE \E t \in at[r] .. now : Advance(r, "commit", t)
    /\ UNCHANGED <<tables, directory, now, call, committed, ever>>

ConfirmCommit(r) ==
    /\ pc[r] = "commit"
    /\ confirmations' = confirmations \union
          {[broadcast |-> call[r].broadcast, group |-> call[r].group,
            by |-> call[r].account, at |-> at[r]]}
    /\ committed' = committed \union {r}
    /\ Advance(r, "get", 0)
    /\ UNCHANGED <<broadcasts, replies, directory, now, call, ever>>

-----------------------------------------------------------------------------
(* POST /broadcasts/{id}/replies: ReplyService.create. *)

\* Slip: any teacher replies as the author does.
AuthoredSlip(r) == Actor(r).type = "teacher"

Authored(r) ==
    Actor(r).type = "teacher" /\ broadcasts[call[r].broadcast].author = call[r].account

ReplyActorStatus(r) ==
    IF ~Actor(r).active THEN "forbidden"
    ELSE IF ~Targeted(call[r].broadcast, call[r].group) THEN "missing"
    ELSE IF \/ Authored(r)
            \/ Actor(r).type = "student" /\ Actor(r).group = call[r].group THEN "ok"
    ELSE "forbidden"

\* The author is not asked for a permission.
ReplyActor(r) ==
    /\ pc[r] = "actor" /\ call[r].op = "reply"
    /\ Check(r, ReplyActorStatus(r),
             IF Authored(r) THEN "parent" ELSE "permit", 0)
    /\ UNCHANGED <<tables, directory, now, call, committed, ever>>

ReplyPermit(r) ==
    /\ pc[r] = "permit" /\ call[r].op = "reply"
    /\ Check(r, PermitStatus(r), "parent", 0)
    /\ UNCHANGED <<tables, directory, now, call, committed, ever>>

ParentStatus(ref, b, g) ==
    IF ref = NoParent THEN "ok"
    ELSE IF ref \notin DOMAIN replies THEN "missing"
    ELSE IF ~SameThread(ref, b, g) THEN "invalid"
    ELSE "ok"

\* Slip: the reply is stamped when the request arrives, not when it is built.
ReplyParentSlip(r) ==
    /\ pc[r] = "parent"
    /\ Check(r, ParentStatus(call[r].ref, call[r].broadcast, call[r].group),
             "store", at[r])
    /\ UNCHANGED <<tables, directory, now, call, committed, ever>>

ReplyParent(r) ==
    /\ pc[r] = "parent"
    /\ Check(r, ParentStatus(call[r].ref, call[r].broadcast, call[r].group),
             "store", now)
    /\ UNCHANGED <<tables, directory, now, call, committed, ever>>

\* The foreign keys to the target and to the parent's thread have the last word.
ReplyStore(r) ==
    /\ pc[r] = "store" /\ call[r].op = "reply"
    /\ IF /\ Targeted(call[r].broadcast, call[r].group)
          /\ \/ call[r].ref = NoParent
             \/ SameThread(call[r].ref, call[r].broadcast, call[r].group)
       THEN /\ \E t \in at[r] .. now :
                 replies' = Append(replies,
                    [broadcast |-> call[r].broadcast, group |-> call[r].group,
                     author |-> call[r].account, ref |-> call[r].ref, createdAt |-> t])
            /\ committed' = committed \union {r}
            /\ Advance(r, "get", 0)
       ELSE Finish(r, "conflict", {}) /\ UNCHANGED <<replies, committed>>
    /\ UNCHANGED <<broadcasts, confirmations, directory, now, call, ever>>

-----------------------------------------------------------------------------
(* detail and present: how every handler answers, after the commit if it   *)
(* was a mutation.                                                         *)

GetStatus(a, b, g) ==
    IF ~a.active THEN "forbidden"
    ELSE IF \/ b \notin DOMAIN broadcasts
            \/ a.type = "student" /\ ~Targeted(b, a.group) THEN "missing"
    ELSE IF g = NoGroup THEN "ok"
    ELSE IF ScopeStatus(a, g) # "ok" THEN "forbidden"
    ELSE IF ~Targeted(b, g) THEN "missing"
    ELSE "ok"

\* BroadcastService.get re-reads the account, into the very object the
\* principal holds, so scoped_group now judges the fresh copy.
Get(r) ==
    /\ pc[r] = "get"
    /\ Check(r, GetStatus(Actor(r), call[r].broadcast, call[r].group), "present", 0)
    /\ UNCHANGED <<tables, directory, now, call, committed, ever>>

\* Slips: students see what they ask for; teachers see every target.
ShownTargetsAsked(a, b, g) ==
    {[group |-> h, state |-> "pending"] :
        h \in {k \in broadcasts[b].targets : g \in {NoGroup, k}}}
ShownTargetsWide(a, b, g) ==
    {[group |-> h, state |-> "confirmed_late"] :
        h \in {k \in broadcasts[b].targets : a.type = "teacher" \/ a.group = k}}

\* The targets present keeps, with the state each is shown in.
ShownTargets(a, b, g) ==
    LET scope == IF a.type = "student" THEN a.group ELSE g
        stamps(h) == {c.at : c \in {d \in confirmations : d.broadcast = b /\ d.group = h}}
    IN  {[group |-> h,
          state |-> ConfirmationState(broadcasts[b].deadline, stamps(h), now)] :
            h \in {k \in Group : Targeted(b, k) /\ scope \in {NoGroup, k}}}

\* permissions() refreshes the account once more and present cuts the answer to
\* the group it has then; read_replies takes the first target that is left.
Present(r) ==
    /\ pc[r] = "present"
    /\ LET shown == ShownTargets(Actor(r), call[r].broadcast, call[r].group)
       IN  Finish(r, IF call[r].op \in Mutations THEN "created"
                     ELSE IF call[r].op = "thread" /\ shown = {} THEN "failed"
                     ELSE "ok", shown)
    /\ UNCHANGED <<tables, directory, now, call, committed, ever>>

-----------------------------------------------------------------------------
(* What happens around the requests. *)

\* The worker dies or the connection drops: an open transaction rolls back, a
\* committed one stays, and the client gets no answer.
Abort(r) ==
    /\ r \in Running
    /\ Finish(r, "lost", {})
    /\ UNCHANGED <<tables, directory, now, call, committed, ever>>

Tick ==
    /\ now < MaxTime
    /\ now' = now + 1
    /\ UNCHANGED <<tables, directory, pc, call, at, answer, committed, ever>>

Administer == changes < MaxChanges /\ changes' = changes + 1

\* AccountService.update, and every other change of what authorization reads of
\* an account: roles, positions and overrides, or an override window that opens
\* or closes.  An account's group must exist (foreign key).
UpdateAccount(a, s) ==
    /\ Administer
    /\ accounts[a] # s
    /\ groups[s.group] # "deleted"
    /\ accounts' = [accounts EXCEPT ![a] = s]
    /\ ever' = [r \in Request |->
                  IF r \in Running /\ call[r].account = a
                  THEN ever[r] \union {s} ELSE ever[r]]
    /\ UNCHANGED <<tables, groups, now, pc, call, at, answer, committed>>

\* GroupService.update of the type.
RetypeGroup(g) ==
    /\ Administer
    /\ groups[g] # "deleted"
    /\ \E type \in {"class", "other"} \ {groups[g]} :
         groups' = [groups EXCEPT ![g] = type]
    /\ UNCHANGED <<tables, accounts, now, pc, call, at, answer, committed, ever>>

\* Slip: only what the service itself looks for, and no foreign key.
DeleteGroupSlip(g) ==
    /\ Administer
    /\ groups[g] # "deleted"
    /\ \A a \in Account : accounts[a].group # g
    /\ groups' = [groups EXCEPT ![g] = "deleted"]
    /\ UNCHANGED <<tables, accounts, now, pc, call, at, answer, committed, ever>>

\* GroupService.delete: refused while an account or a target refers to the
\* group, by its own checks or by the foreign keys.
DeleteGroup(g) ==
    /\ Administer
    /\ groups[g] # "deleted"
    /\ \A a \in Account : accounts[a].group # g
    /\ \A b \in DOMAIN broadcasts : g \notin broadcasts[b].targets
    /\ groups' = [groups EXCEPT ![g] = "deleted"]
    /\ UNCHANGED <<tables, accounts, now, pc, call, at, answer, committed, ever>>

\* The next stretch of a handler that has begun.
Serve(r) ==
    \/ PublishActor(r) \/ PublishGroups(r) \/ PublishStore(r)
    \/ ConfirmActor(r) \/ ConfirmPermit(r) \/ ConfirmInsert(r) \/ ConfirmCommit(r)
    \/ ReplyActor(r) \/ ReplyPermit(r) \/ ReplyParent(r) \/ ReplyStore(r)
    \/ Get(r) \/ Present(r)

Next ==
    \/ \E r \in Request : Begin(r) \/ Serve(r) \/ Abort(r)
    \/ Tick
    \/ \E u \in AdminUpdates : UpdateAccount(u[1], u[2])
    \/ \E g \in Group : RetypeGroup(g) \/ DeleteGroup(g)

Spec == Init /\ [][Next]_vars

\* The event loop runs every coroutine that can go on.  Nothing obliges clients
\* to ask, administrators to change anything, or workers to die.
FairSpec == Spec /\ \A r \in Request : WF_vars(Serve(r))

-----------------------------------------------------------------------------
(* Safety of what is stored. *)

\* A target is confirmed at most once, however many of its students confirm at
\* the same time and whichever of their transactions rolls back.
\* (the primary key of broadcast_confirmations, confirm)
ConfirmedOnce ==
    \A c, d \in confirmations :
        c.broadcast = d.broadcast /\ c.group = d.group => c = d

\* A confirmation answers a target of a published broadcast and is not stamped
\* before the publication it answers, although both stamps are taken before
\* their rows are visible.  (create, confirm)
ConfirmationsAnswerTargets ==
    \A c \in confirmations :
        /\ c.broadcast \in DOMAIN broadcasts
        /\ c.group \in broadcasts[c.broadcast].targets
        /\ c.at >= broadcasts[c.broadcast].createdAt

\* Every thread is a forest that can be shown: a reply hangs on a target, its
\* parent is an earlier reply of the same thread with a stamp not after its own,
\* so that present, which sorts by created_at and looks parents up by id, finds
\* each parent before its child.  (ReplyService.create, present)
ThreadsClosed ==
    \A i \in DOMAIN replies :
        /\ replies[i].broadcast \in DOMAIN broadcasts
        /\ replies[i].group \in broadcasts[replies[i].broadcast].targets
        /\ replies[i].createdAt >= broadcasts[replies[i].broadcast].createdAt
        /\ replies[i].ref # NoParent =>
              /\ replies[i].ref \in 1 .. i - 1
              /\ replies[replies[i].ref].broadcast = replies[i].broadcast
              /\ replies[replies[i].ref].group = replies[i].group
              /\ replies[replies[i].ref].createdAt <= replies[i].createdAt

\* No target and no account is left behind by the deletion of its group, although
\* the groups are checked in one statement and the broadcast is inserted in
\* another.  (create, GroupService.delete)
TargetsExist ==
    /\ \A b \in DOMAIN broadcasts : \A g \in broadcasts[b].targets : groups[g] # "deleted"
    /\ \A a \in Account : groups[accounts[a].group] # "deleted"

-----------------------------------------------------------------------------
(* Why these hold: what a handler has established by the time it writes. *)

\* No row is stamped in the future.
ClockCovers ==
    /\ \A b \in DOMAIN broadcasts : broadcasts[b].createdAt <= now
    /\ \A i \in DOMAIN replies : replies[i].createdAt <= now

\* Past its checks a confirmation or a reply is for a target that exists, and
\* what it remembers of the clock is not before that broadcast's publication.
TargetFound(r) ==
    /\ pc[r] \in {"permit", "insert", "commit", "parent"}
          \/ (pc[r] = "store" /\ call[r].op = "reply") =>
          Targeted(call[r].broadcast, call[r].group)
    /\ pc[r] \in {"insert", "commit"} \/ (pc[r] = "store" /\ call[r].op = "reply") =>
          at[r] >= broadcasts[call[r].broadcast].createdAt

\* A reply about to be stored comes after its parent.
ParentFound(r) ==
    pc[r] = "store" /\ call[r].op = "reply" /\ call[r].ref # NoParent =>
        /\ call[r].ref \in DOMAIN replies
        /\ at[r] >= replies[call[r].ref].createdAt

\* A request that has inserted holds its key alone.
KeyOwned(r) ==
    pc[r] = "commit" =>
        /\ ~Confirmed(call[r].broadcast, call[r].group)
        /\ \A q \in Request : pc[q] = "commit" /\ SameKey(r, q) => q = r

\* The inductive invariant: the stored rows are right because every request
\* that is about to write is.  (confirm, ReplyService.create)
InFlightOK ==
    /\ ClockCovers
    /\ \A r \in Request : TargetFound(r) /\ ParentFound(r) /\ KeyOwned(r)

-----------------------------------------------------------------------------
(* What the caller was entitled to, and is told. *)

WasTeacher(r) == \E s \in ever[r] : s.active /\ s.type = "teacher"

WasMember(r, g) ==
    \E s \in ever[r] : s.active /\ s.type = "student" /\ s.group = g

WasPermitted(r, bit) == \E s \in ever[r] : bit \in s.may

\* A row is stored only for a caller who, while the request was served, was an
\* active teacher (a broadcast), an active student of the target with the
\* permission (a confirmation, a reply), or the broadcast's author and active
\* (a reply).  The checks read the account at different instants, so membership
\* and permission need not have been held at the same one.
\* (_actor, _read_group, _require_permission)
StoredRowsWereAuthorized ==
    [][ \A r \in committed' \ committed :
          CASE call[r].op = "publish" -> WasTeacher(r)
            [] call[r].op = "confirm" ->
                  WasMember(r, call[r].group) /\ WasPermitted(r, "confirm")
            [] call[r].op = "reply" ->
                  \/ WasTeacher(r) /\ broadcasts[call[r].broadcast].author = call[r].account
                  \/ WasMember(r, call[r].group) /\ WasPermitted(r, "reply")
      ]_vars

\* A student who was never a teacher is shown only groups he belonged to while
\* the request was served, wherever administrators move him meanwhile.
\* (scoped_group, BroadcastService.get, present)
ShownScope ==
    [][ \A r \in Request :
          answer'[r].shown # answer[r].shown =>
             \/ \E s \in ever[r] : s.type = "teacher"
             \/ \A h \in answer'[r].shown : \E s \in ever[r] : s.group = h.group
      ]_vars

\* A status code tells what happened to the data: 201 means that the row is
\* stored, 401, 409 and 422 that nothing of the request is, and a 409 for a
\* confirmation that another request's confirmation stands.  Of the requests
\* for one target at most one is stored.  (confirm, _commit_and_refresh, detail;
\* 403, 404 and 500 may come from detail, after the commit.)
AnswerTellsOutcome ==
    /\ \A r \in Request :
          /\ answer[r].status = "created" => r \in committed
          /\ answer[r].status \in {"unauthorized", "conflict", "invalid"} => r \notin committed
          /\ answer[r].status = "conflict" /\ call[r].op = "confirm" =>
                \E q \in committed : call[q].op = "confirm" /\ SameKey(r, q)
    /\ \A r, q \in committed :
          call[r].op = "confirm" /\ call[q].op = "confirm" /\ SameKey(r, q) => r = q

\* "Mutations return the updated broadcast scoped to the affected target":
\* the answer to a confirmation or a reply shows that one target, a confirmed
\* one confirmed.  (src/README.md, detail, present)
MutationAnswersItsTarget ==
    \A r \in Request :
        answer[r].status = "created" /\ call[r].op \in {"confirm", "reply"} =>
            /\ {h.group : h \in answer[r].shown} = {call[r].group}
            /\ call[r].op = "confirm" => \A h \in answer[r].shown :
                  h.state \in {"confirmed_on_time", "confirmed_late"}

\* Every request is answered: a confirmation that waits for a rival's insert is
\* let through by the rival's commit or rollback, and no two wait for each other.
\* (confirm under the database's lock on the key)
EveryRequestAnswered ==
    \A r \in Request : (pc[r] # "idle") ~> (pc[r] = "done")

-----------------------------------------------------------------------------
\* The requests together implement the notice board: whatever they interleave
\* to, the tables only grow, by rows the board allows.
Board == INSTANCE BroadcastBoard WITH Time <- 0 .. MaxTime
ImplementsBoard == Board!Spec
=============================================================================
