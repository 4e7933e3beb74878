--------------------------------- MODULE Feed ---------------------------------
(***************************************************************************)
(* The feed and the pending badge (GET /broadcasts and                     *)
(* GET /broadcasts/pending-count of src/routes/broadcast.py), read while   *)
(* others publish, confirm and reply and the caller's account is changed.  *)
(*                                                                         *)
(* A feed is answered from statements each of which sees what is committed *)
(* when it runs: the ids of a page, the caller's account once more and     *)
(* what his permissions come from, the broadcasts with their               *)
(* confirmations, the replies, the count.                                  *)
(* The writers are the steps of BroadcastBoard, which the requests of      *)
(* Broadcasts implement.                                                   *)
(***************************************************************************)
EXTENDS BroadcastTables, FiniteSets

CONSTANTS
    Request,          \* HTTP requests, each served once
    NoGroup,          \* no group is named
    NoWeek,           \* no week is named
    InitialAccounts,  \* what authorization reads of the accounts
    Offered,          \* the calls clients make
    Author,           \* who writes: any account will do
    Published,        \* the sets of target groups broadcasts are published to
    AdminUpdates,     \* the changes of accounts administrators make
    Uuid,             \* the order of the ids of the broadcasts, which are random
    FirstTime,        \* the clock starts here
    MaxTime,          \* and stops here
    MaxLag,           \* a row is committed at most so long after its stamp
    MaxReplies,       \* bound on the replies
    MaxEvents         \* bound on the writes of others and the changes of accounts

VARIABLES
    accounts,   \* account -> what authorization reads of it
    now,        \* the server's clock
    events,     \* writes and changes so far
    pc,         \* request -> its next step
    call,       \* request -> what is asked
    copy,       \* request -> the caller's account as it has been loaded
    scope,      \* request -> the group of the page
    ids,        \* request -> the broadcasts of the page, in order
    read,       \* request -> the confirmations it has read
    items,      \* request -> the items of its answer
    answer,     \* request -> the response
    seen,       \* request -> how many broadcasts there were when ids was read,
                \* and how many of them the pages were cut from
    week,       \* request -> the start of the week of its page and of its badge
    ever,       \* request -> the states its account had while it was served
    met,        \* request -> the writes to its account while its mask was put together
    before      \* request -> the requests done when it began

local == <<pc, call, copy, scope, ids, read, items, answer>>
history == <<seen, week, ever, met, before>>
vars == <<tables, accounts, now, events, local, history>>

-----------------------------------------------------------------------------
AccountState ==
    [active : BOOLEAN, type : {"student", "teacher"}, group : Group,
     may : SUBSET {"confirm", "reply"}]

\* week is an instant of the week asked for; everything asks for the history.
Offer ==
    [op : {"feed", "count"}, account : Account, group : Group \union {NoGroup},
     week : Nat \union {NoWeek}, everything : BOOLEAN, limit : Nat \ {0}, offset : Nat]

NoCall == [op |-> "none"]

Step == {"ids", "account", "mask", "records", "replies", "count"}

MaxBroadcasts == Len(Uuid)

Target == [group : Group, state : ConfirmationStates, thread : SUBSET (1 .. MaxReplies)]
Item == [broadcast : 1 .. MaxBroadcasts, targets : SUBSET Target]

\* torn is an error that nobody expects of effective_permissions, failed one of present.
Status == {"none", "ok", "unauthorized", "forbidden", "torn", "failed"}
NoAnswer == [status |-> "none", items |-> <<>>, counted |-> {}]

ASSUME FeedAssumption ==
    /\ NoGroup \notin Group /\ NoWeek \notin Int
    /\ InitialAccounts \in [Account -> AccountState]
    /\ Offered \subseteq Offer
    /\ Author \subseteq Account
    /\ Published \subseteq (SUBSET Group) \ {{}}
    /\ AdminUpdates \subseteq Account \X AccountState
    /\ Uuid \in Seq(Nat) /\ \A i, j \in DOMAIN Uuid : Uuid[i] = Uuid[j] => i = j
    /\ MaxTime \in Nat /\ FirstTime \in 0 .. MaxTime /\ MaxLag \in Nat
    /\ MaxReplies \in Nat /\ MaxEvents \in Nat

TypeOK ==
    /\ TablesTypeOK
    /\ accounts \in [Account -> AccountState]
    /\ now \in FirstTime .. MaxTime
    /\ events \in 0 .. MaxEvents
    /\ Len(broadcasts) <= MaxBroadcasts /\ Len(replies) <= MaxReplies
    /\ pc \in [Request -> Step \union {"idle", "done"}]
    /\ call \in [Request -> Offered \union {NoCall}]
    /\ copy \in [Request -> AccountState \union {NoCall}]
    /\ \A r \in Request : pc[r] \in Step => call[r] \in Offered /\ copy[r] \in AccountState
    /\ scope \in [Request -> Group \union {NoGroup}]
    /\ ids \in [Request -> Seq(DOMAIN broadcasts)]
    /\ read \in [Request -> SUBSET confirmations]
    /\ items \in [Request -> Seq(Item)]
    /\ answer \in [Request -> [status : Status, items : Seq(Item),
                               counted : SUBSET DOMAIN broadcasts]]
    /\ seen \in [Request -> [there : 0 .. MaxBroadcasts, wanted : 0 .. MaxBroadcasts]]
    /\ week \in [Request -> [page : Int \union {NoWeek}, badge : Int \union {NoWeek}]]
    /\ ever \in [Request -> SUBSET AccountState]
    /\ met \in [Request -> 0 .. events]
    /\ before \in [Request -> SUBSET Request]

Init ==
    /\ broadcasts = <<>> /\ confirmations = {} /\ replies = <<>>
    /\ accounts = InitialAccounts
    /\ now = FirstTime
    /\ events = 0
    /\ pc = [r \in Request |-> "idle"]
    /\ call = [r \in Request |-> NoCall]
    /\ copy = [r \in Request |-> NoCall]
    /\ scope = [r \in Request |-> NoGroup]
    /\ ids = [r \in Request |-> <<>>]
    /\ read = [r \in Request |-> {}]
    /\ items = [r \in Request |-> <<>>]
    /\ answer = [r \in Request |-> NoAnswer]
    /\ seen = [r \in Request |-> [there |-> 0, wanted |-> 0]]
    /\ week = [r \in Request |-> [page |-> NoWeek, badge |-> NoWeek]]
    /\ ever = [r \in Request |-> {}]
    /\ met = [r \in Request |-> 0]
    /\ before = [r \in Request |-> {}]

-----------------------------------------------------------------------------
(* The course of a request. *)

Go(r, step) ==
    /\ pc' = [pc EXCEPT ![r] = step]
    /\ UNCHANGED answer

Finish(r, status, counted) ==
    /\ pc' = [pc EXCEPT ![r] = "done"]
    /\ answer' = [answer EXCEPT ![r] =
                    [status |-> status, counted |-> counted,
                     items |-> IF status = "ok" THEN items[r] ELSE <<>>]]

NoWrite == UNCHANGED <<tables, accounts, now, events>>

\* get_current_principal loads the account; scoped_group holds a student to the
\* group of this copy, a teacher may leave the group out.
Begin(r) ==
    /\ pc[r] = "idle"
    /\ \E o \in Offered :
         LET a == accounts[o.account]
             student == a.type = "student"
         IN
         /\ call' = [call EXCEPT ![r] = o]
         /\ copy' = [copy EXCEPT ![r] = a]
         /\ ever' = [ever EXCEPT ![r] = {a}]
         /\ scope' = [scope EXCEPT ![r] = IF student THEN a.group ELSE o.group]
         /\ IF ~a.active THEN Finish(r, "unauthorized", {})
            ELSE IF o.op = "count" THEN Go(r, "account")
            ELSE IF student /\ o.group \notin {NoGroup, a.group} THEN Finish(r, "forbidden", {})
            ELSE Go(r, "ids")
    /\ before' = [before EXCEPT ![r] = {q \in Request : pc[q] = "done"}]
    /\ UNCHANGED <<ids, read, items, seen, week, met>> /\ NoWrite

-----------------------------------------------------------------------------
(* GET /broadcasts. *)

\* ORDER BY created_at DESC, id
ComesBefore(b, c) ==
    \/ broadcasts[b].createdAt > broadcasts[c].createdAt
    \/ broadcasts[b].createdAt = broadcasts[c].createdAt /\ Uuid[b] < Uuid[c]

Listings(S) ==
    {s \in [1 .. Cardinality(S) -> S] :
        \A i, j \in DOMAIN s : i < j => s[i] # s[j] /\ ComesBefore(s[i], s[j])}

\* The broadcasts a page is cut from.
Wanted(r, start) ==
    {b \in DOMAIN broadcasts :
        /\ scope[r] = NoGroup \/ Targeted(b, scope[r])
        /\ call[r].everything
              \/ (broadcasts[b].createdAt >= start /\ broadcasts[b].createdAt < start + Week)}

\* Slip: the offset counts pages.
PageOfSlip(listing, limit, offset) ==
    SubSeq(listing, offset * limit + 1,
           IF Len(listing) < (offset + 1) * limit THEN Len(listing) ELSE (offset + 1) * limit)

PageOf(listing, limit, offset) ==
    SubSeq(listing, offset + 1,
           IF Len(listing) < offset + limit THEN Len(listing) ELSE offset + limit)

\* The start of the display week asked for; today's without one.
StartOf(r) == WeekStart(IF call[r].week = NoWeek THEN now ELSE call[r].week)

ReadIds(r) ==
    /\ pc[r] = "ids"
    /\ \E listing \in Listings(Wanted(r, StartOf(r))) :
         ids' = [ids EXCEPT ![r] = PageOf(listing, call[r].limit, call[r].offset)]
    /\ seen' = [seen EXCEPT ![r] = [there |-> Len(broadcasts),
                                    wanted |-> Cardinality(Wanted(r, StartOf(r)))]]
    /\ week' = [week EXCEPT ![r].page = IF call[r].everything THEN NoWeek ELSE StartOf(r)]
    /\ Go(r, "account")
    /\ UNCHANGED <<call, copy, scope, read, items, ever, met, before>> /\ NoWrite

-----------------------------------------------------------------------------
(* effective_permissions, for the feed and the badge. *)

\* Its first statement reads the account into the copy the principal holds.
ReadAccount(r) ==
    /\ pc[r] = "account"
    /\ copy' = [copy EXCEPT ![r] = accounts[call[r].account]]
    /\ Go(r, "mask")
    /\ UNCHANGED <<call, scope, ids, read, items, history>> /\ NoWrite

\* The others read the position, the roles and the overrides, one after the other: with
\* one write between them the mask is that of before or after, with more it may be one
\* that never was (OneWriteIsAtomic and MasksWithinRead of Permissions).
Masks(r) ==
    IF met[r] <= 1 THEN {copy[r].may, accounts[call[r].account].may}
    ELSE SUBSET {"confirm", "reply"}

\* A position or role that they do not find any more is an unexpected error, which
\* takes a write to the account and another that deletes what it referred to.
ReadMask(r) ==
    /\ pc[r] = "mask"
    /\ \/ \E m \in Masks(r) :
             /\ copy' = [copy EXCEPT ![r].may = m]
             /\ Go(r, IF ids[r] = <<>> THEN "count" ELSE "records")
       \/ met[r] > 1 /\ Finish(r, "torn", {}) /\ UNCHANGED copy
    /\ UNCHANGED <<call, scope, ids, read, items, history>> /\ NoWrite

-----------------------------------------------------------------------------
(* present, for the feed. *)

PageSet(r) == {ids[r][i] : i \in DOMAIN ids[r]}

\* present: the broadcasts with their targets, which never change, and their
\* confirmations.
ReadRecords(r) ==
    /\ pc[r] = "records"
    /\ read' = [read EXCEPT ![r] = {c \in confirmations : c.broadcast \in PageSet(r)}]
    /\ Go(r, "replies")
    /\ UNCHANGED <<call, copy, scope, ids, items, history>> /\ NoWrite

\* Slip: an answer is cut to the group that was asked for.
ScopeOfSlip(r) == call[r].group

\* The targets an item is cut to: of the group a student has by now.
ScopeOf(r) == IF copy[r].type = "student" THEN copy[r].group ELSE scope[r]

InScope(r, g) == ScopeOf(r) \in {NoGroup, g}

\* Slip: a thread is cut to this week, as the badge is.
ThreadOfSlip(b, g) ==
    {i \in DOMAIN replies : /\ replies[i].broadcast = b /\ replies[i].group = g
                            /\ InWeekOf(replies[i].createdAt, now)}

ThreadOf(b, g) == {i \in DOMAIN replies : replies[i].broadcast = b /\ replies[i].group = g}

ShownState(r, b, g) ==
    ConfirmationState(broadcasts[b].deadline,
        {c.at : c \in {d \in read[r] : d.broadcast = b /\ d.group = g}}, now)

ItemOf(r, b) ==
    [broadcast |-> b,
     targets |-> {[group |-> g, state |-> ShownState(r, b, g), thread |-> ThreadOf(b, g)] :
                    g \in {h \in broadcasts[b].targets : InScope(r, h)}}]

\* Whether every reply finds its parent among those that were read.
Nested(thread) ==
    \A i \in thread : replies[i].ref # NoParent => replies[i].ref \in thread

\* The replies in scope, the clock, and the items; a parent that was not read is
\* an unexpected error.
ReadReplies(r) ==
    /\ pc[r] = "replies"
    /\ IF \A b \in PageSet(r) : \A g \in broadcasts[b].targets :
             InScope(r, g) => Nested(ThreadOf(b, g))
       THEN /\ items' = [items EXCEPT ![r] = [i \in DOMAIN ids[r] |-> ItemOf(r, ids[r][i])]]
            /\ Go(r, "count")
       ELSE Finish(r, "failed", {}) /\ UNCHANGED items
    /\ UNCHANGED <<call, copy, scope, ids, read, history>> /\ NoWrite

-----------------------------------------------------------------------------
(* pending_count, for the feed and by itself. *)

\* Slip: a broadcast that any group has confirmed is not pending any more.
PendingOfSlip(g) ==
    {b \in DOMAIN broadcasts :
        Targeted(b, g) /\ InWeekOf(broadcasts[b].createdAt, now)
          /\ \A c \in confirmations : c.broadcast # b}

\* The unconfirmed targets of the group in this week.
PendingOf(g) ==
    {b \in DOMAIN broadcasts :
        Targeted(b, g) /\ InWeekOf(broadcasts[b].createdAt, now) /\ ~Confirmed(b, g)}

MayConfirm(a) == a.type = "student" /\ "confirm" \in a.may

CountPending(r) ==
    /\ pc[r] = "count"
    /\ Finish(r, "ok", IF MayConfirm(copy[r]) THEN PendingOf(copy[r].group) ELSE {})
    /\ week' = [week EXCEPT ![r].badge = WeekStart(now)]
    /\ copy' = [copy EXCEPT ![r] = NoCall]
    /\ ids' = [ids EXCEPT ![r] = <<>>]
    /\ read' = [read EXCEPT ![r] = {}]
    /\ items' = [items EXCEPT ![r] = <<>>]
    /\ UNCHANGED <<call, scope, seen, ever, met, before>> /\ NoWrite

-----------------------------------------------------------------------------
(* What goes on meanwhile. *)

Board == INSTANCE BroadcastBoard WITH Time <- 0 .. MaxTime

Stamps == {t \in 0 .. now : t + MaxLag >= now}

Event == events < MaxEvents /\ events' = events + 1

\* A row with the stamp of a while ago is committed; nothing here reads the stamp
\* of a reply.
BoardStep ==
    /\ Event
    /\ \E a \in Author :
         \/ /\ Len(broadcasts) < MaxBroadcasts
            /\ \E targets \in Published, t \in Stamps : Board!Publish(a, targets, t)
         \/ \E b \in DOMAIN broadcasts, g \in Group, t \in Stamps : Board!Confirm(b, g, a, t)
         \/ /\ Len(replies) < MaxReplies
            /\ \E b \in DOMAIN broadcasts, g \in Group, ref \in DOMAIN replies \union {NoParent} :
                  Board!Reply(b, g, a, ref, now)
    /\ UNCHANGED <<accounts, now, local, history>>

\* AccountService.update, and every other change of what authorization reads, of the
\* account's position, roles and overrides among them.
UpdateAccount ==
    /\ Event
    /\ \E u \in AdminUpdates :
         /\ accounts' = [accounts EXCEPT ![u[1]] = u[2]]
         /\ ever' = [r \in Request |->
                       IF pc[r] \in Step /\ call[r].account = u[1]
                       THEN ever[r] \union {u[2]} ELSE ever[r]]
         /\ met' = [r \in Request |->
                      IF pc[r] = "mask" /\ call[r].account = u[1] THEN met[r] + 1 ELSE met[r]]
    /\ UNCHANGED <<tables, now, local, seen, week, before>>

Tick ==
    /\ now < MaxTime
    /\ now' = now + 1
    /\ UNCHANGED <<tables, accounts, events, local, history>>

Serve(r) ==
    \/ ReadIds(r) \/ ReadAccount(r) \/ ReadMask(r) \/ ReadRecords(r) \/ ReadReplies(r)
    \/ CountPending(r)

Next ==
    \/ \E r \in Request : Begin(r) \/ Serve(r)
    \/ BoardStep \/ UpdateAccount \/ Tick

Spec == Init /\ [][Next]_vars
-----------------------------------------------------------------------------
Answered(r) == answer[r].status = "ok"
Fed(r) == Answered(r) /\ call[r].op = "feed"

\* The account stayed what it was while it was served.
Unmoved(r) == \E a \in ever[r] : ever[r] = {a}

Shown(r) == {answer[r].items[i] : i \in DOMAIN answer[r].items}

\* The targets of one group that an answer shows in one of the states.
ShownIn(r, g, states) ==
    {x.broadcast : x \in {y \in Shown(r) :
        \E t \in y.targets : t.group = g /\ t.state \in states}}

Confirmations == {"confirmed_on_time", "confirmed_late"}

\* The badge of r counts nothing its list shows confirmed; what it counts besides a
\* complete list came later, and what it leaves out is confirmed.
BadgeFits(r, group) ==
    LET open == ShownIn(r, group, {"pending", "overdue"})
        closed == ShownIn(r, group, Confirmations)
    IN  /\ answer[r].counted \intersect closed = {}
        /\ call[r].offset = 0 /\ seen[r].wanted <= call[r].limit =>
              \A b \in answer[r].counted \ open : b > seen[r].there
        /\ \A b \in open \ answer[r].counted : Confirmed(b, group)

\* "The badge always counts this week's unconfirmed targets ... independent of
\* pagination": the list and the badge of one answer come from different instants,
\* but for a student who stayed what he was and whose mask was not torn, and a list of
\* the same week, the badge counts nothing the list shows confirmed; what it counts
\* besides a complete list was published after the list was read, and what it leaves
\* out of the list has been confirmed since.
\* (src/README.md, list_broadcasts, pending_count)
BadgeAgreesWithItems ==
    \A r \in Request :
        Fed(r) /\ Unmoved(r) /\ met[r] <= 1 /\ week[r].page = week[r].badge =>
            \A a \in ever[r] : MayConfirm(a) => BadgeFits(r, a.group)

\* A reader who turns the pages of one week by limit and offset until the listing
\* ends misses no broadcast that was there when he read the first page, whatever is
\* published meanwhile, with whatever stamps.  (list_broadcasts)
PagesSkipNothing ==
    \A p, q \in Request :
        /\ Fed(p) /\ Fed(q)
        /\ scope[p] = scope[q] /\ week[p].page = week[q].page
        /\ call[p].offset = 0 /\ call[q].offset = call[p].limit
        /\ seen[p].there <= seen[q].there
        /\ seen[q].wanted <= call[q].offset + call[q].limit
        => \A b \in 1 .. seen[p].there :
              /\ scope[p] = NoGroup \/ Targeted(b, scope[p])
              /\ week[p].page = NoWeek \/ WeekStart(broadcasts[b].createdAt) = week[p].page
              => \E x \in Shown(p) \union Shown(q) : x.broadcast = b

AllStudents(r) == \A a \in ever[r] : a.type = "student"

ScopedItem(r, x) ==
    /\ \E a \in ever[r] : Targeted(x.broadcast, a.group)
    /\ \A t \in x.targets : \E a \in ever[r] : t.group = a.group
    /\ Unmoved(r) => x.targets # {}

\* A student who was never a teacher is shown broadcasts to groups he was in, and
\* of them the threads of a group he was in; an item without a thread only if he
\* was moved.  (scoped_group, present)
FeedScope ==
    \A r \in Request : Fed(r) /\ AllStudents(r) => \A x \in Shown(r) : ScopedItem(r, x)

\* What the item y may show after x has been shown of the same broadcast.
StandsBy(x, y) ==
    \A t \in x.targets, u \in y.targets : t.group = u.group =>
        /\ t.state \in Confirmations => u.state = t.state
        /\ t.state = "overdue" => u.state # "pending"
        /\ t.thread \subseteq u.thread

\* No feed fails for want of a parent, and of two feeds one after the other the second
\* shows what the first has shown: a target confirmed stays so, an overdue one is not
\* pending again, and no reply disappears from its thread.  (present)
ReaderSeesForward ==
    /\ \A r \in Request : answer[r].status # "failed"
    /\ \A p, q \in Request : Fed(p) /\ Fed(q) /\ p \in before[q] =>
          \A x \in Shown(p), y \in Shown(q) : x.broadcast = y.broadcast => StandsBy(x, y)
=============================================================================
