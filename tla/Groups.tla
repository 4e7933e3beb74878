-------------------------------- MODULE Groups --------------------------------
(***************************************************************************)
(* The hierarchy of groups: GroupService of src/database/service.py with   *)
(* the walk over the ancestors that keeps it a forest, and AccountService  *)
(* where it moves an account to a group.                                  *)
(*                                                                         *)
(* Every call runs in a database session of its own and awaits one         *)
(* statement after the other; a statement sees what is committed when it   *)
(* runs.  Nothing locks the ancestors while they are walked: two calls     *)
(* that reparent at the same time check against trees the other is about   *)
(* to change.  The foreign keys of parent_id, accounts.group_id and        *)
(* broadcast_targets.group_id have the last word on what exists.           *)
(***************************************************************************)
CONSTANTS
    Request,         \* calls of the services, each made once
    Account,
    InitialGroup,    \* the groups there are at first
    InitialParents,  \* and their parents
    InitialHomes,    \* the group of each account
    TargetGroup,     \* groups that broadcasts refer to
    NoGroup,         \* parent_id NULL
    Absent,          \* no such row
    Offered          \* the calls that may be made

\* A group is created under a new uuid4: it is named after the call.
Group == InitialGroup \union Request

VARIABLES
    parent,  \* group -> its parent, NoGroup, or Absent if there is no such row
    home,    \* account -> its group
    pc,      \* request -> its next step
    call,    \* request -> what is asked
    copy,    \* request -> parent_id or group_id of the object it has loaded
    seen,    \* request -> the groups its walk has passed
    cursor,  \* request -> the group its walk comes to next
    answer,  \* request -> how the call ended
    stored,  \* requests that have written
    raced,   \* requests whose walk a reparenting has overtaken
    skewed   \* one of those has stored its parent all the same

tables == <<parent, home>>
history == <<raced, skewed>>
vars == <<tables, pc, call, copy, seen, cursor, answer, stored, history>>

-----------------------------------------------------------------------------
Op == {"create", "reparent", "delete", "place"}

Call == [op : Op, group : Group, to : Group \union {NoGroup}, account : Account]
NoCall == [op |-> "none"]

Step ==
    {"load", "walk", "store", "children", "accounts", "again", "remove", "group",
     "refresh"}

\* conflict, descendant and cycle are ConflictErrors of different wording;
\* failed is an error of the ORM that no service expects.
Status ==
    {"none", "ok", "missing", "conflict", "descendant", "cycle", "failed", "lost"}

\* No set of groups has all its parents in itself.
Acyclic(p) == \A S \in (SUBSET Group) \ {{}} : \E g \in S : p[g] \notin S

Initially == [g \in Group |-> IF g \in InitialGroup THEN InitialParents[g] ELSE Absent]

ASSUME GroupsAssumption ==
    /\ NoGroup \notin Group /\ Absent \notin Group /\ NoGroup # Absent
    /\ InitialGroup \intersect Request = {}
    /\ InitialParents \in [InitialGroup -> InitialGroup \union {NoGroup}]
    /\ Acyclic(Initially)
    /\ InitialHomes \in [Account -> InitialGroup]
    /\ TargetGroup \subseteq InitialGroup
    /\ Offered \subseteq Call
    /\ \A o \in Offered : o.op = "place" => o.to # NoGroup

Exists(g) == parent[g] # Absent

TypeOK ==
    /\ parent \in [Group -> Group \union {NoGroup, Absent}]
    /\ home \in [Account -> Group]
    /\ pc \in [Request -> Step \union {"idle", "done"}]
    /\ call \in [Request -> Call \union {NoCall}]
    /\ \A r \in Request : pc[r] \in Step =>
          /\ call[r] \in Call
          /\ call[r].op = "create" => call[r].group = r
          /\ call[r].op = "place" => call[r].to # NoGroup
    /\ copy \in [Request -> Group \union {NoGroup, Absent}]
    /\ seen \in [Request -> SUBSET Group]
    /\ cursor \in [Request -> Group \union {NoGroup}]
    /\ \A r \in Request : pc[r] = "walk" =>
          /\ cursor[r] \in Group
          /\ call[r].op \in {"create", "reparent"}
    /\ answer \in [Request -> Status]
    /\ stored \subseteq Request
    /\ raced \subseteq Request
    /\ skewed \in BOOLEAN

Init ==
    /\ parent = Initially
    /\ home = InitialHomes
    /\ pc = [r \in Request |-> "idle"]
    /\ call = [r \in Request |-> NoCall]
    /\ copy = [r \in Request |-> NoGroup]
    /\ seen = [r \in Request |-> {}]
    /\ cursor = [r \in Request |-> NoGroup]
    /\ answer = [r \in Request |-> "none"]
    /\ stored = {}
    /\ raced = {}
    /\ skewed = FALSE

-----------------------------------------------------------------------------
(* The course of a call. *)

Go(r, step) ==
    /\ pc' = [pc EXCEPT ![r] = step]
    /\ UNCHANGED answer

Finish(r, status) ==
    /\ pc' = [pc EXCEPT ![r] = "done"]
    /\ answer' = [answer EXCEPT ![r] = status]

\* Slip: no parent is walked from as well.
StartWalkSlip(r, to) ==
    /\ Go(r, "walk")
    /\ cursor' = [cursor EXCEPT ![r] = to]

\* What a call starts with once it has no group of its own left to load:
\* _validate_parent lets NULL pass, and otherwise walks from the parent up.
StartWalk(r, to) ==
    /\ Go(r, IF to = NoGroup THEN "store" ELSE "walk")
    /\ cursor' = [cursor EXCEPT ![r] = to]

Creation(r, o) == [op |-> "create", group |-> r, to |-> o.to, account |-> o.account]

Begin(r) ==
    /\ pc[r] = "idle"
    /\ \E o \in Offered :
         /\ call' = [call EXCEPT ![r] =
                       IF o.op = "create" THEN Creation(r, o) ELSE o]
         /\ IF o.op = "create" THEN StartWalk(r, o.to)
            ELSE Go(r, "load") /\ UNCHANGED cursor
    /\ UNCHANGED <<tables, copy, seen, stored, history>>

\* The first get of update, delete and of AccountService.update, which keeps the
\* row as the object to change.  A group cannot be its own parent.
Load(r) ==
    LET g == call[r].group
        to == call[r].to
    IN
    /\ pc[r] = "load"
    /\ copy' = [copy EXCEPT ![r] =
                  IF call[r].op = "place" THEN home[call[r].account] ELSE parent[g]]
    /\ IF call[r].op = "place" THEN Go(r, "group") /\ UNCHANGED cursor
       ELSE IF ~Exists(g) THEN Finish(r, "missing") /\ UNCHANGED cursor
       ELSE IF call[r].op = "delete" THEN Go(r, "children") /\ UNCHANGED cursor
       ELSE IF to = g THEN Finish(r, "conflict") /\ UNCHANGED cursor
       ELSE StartWalk(r, to)
    /\ UNCHANGED <<tables, call, seen, stored, history>>

-----------------------------------------------------------------------------
(* _validate_parent: one session.get for every ancestor. *)

\* Slip: no record of where the walk has been.
WalkSlip(r) ==
    LET c == cursor[r]
    IN
    /\ pc[r] = "walk"
    /\ IF c = call[r].group THEN Finish(r, "descendant") /\ UNCHANGED <<seen, cursor>>
       ELSE IF parent[c] \in {Absent, NoGroup} THEN Go(r, "store") /\ UNCHANGED <<seen, cursor>>
       ELSE Go(r, "walk") /\ cursor' = [cursor EXCEPT ![r] = parent[c]] /\ UNCHANGED seen
    /\ UNCHANGED <<tables, call, copy, stored, history>>

\* Slip: only the parent asked for is compared with the group.
WalkOneSlip(r) ==
    LET c == cursor[r]
    IN
    /\ pc[r] = "walk"
    /\ IF c = call[r].group THEN Finish(r, "descendant") /\ UNCHANGED seen
       ELSE IF ~Exists(c) THEN Finish(r, "missing") /\ UNCHANGED seen
       ELSE Go(r, "store") /\ seen' = [seen EXCEPT ![r] = seen[r] \union {c}]
    /\ UNCHANGED <<tables, call, copy, cursor, stored, history>>

\* The group itself and the parent asked for are still referenced, and so come
\* from the identity map; any other is read now.  If the first is missing, it is
\* the parent asked for; a later one ends the walk as a root would.
Walk(r) ==
    LET c == cursor[r]
    IN
    /\ pc[r] = "walk"
    /\ IF c \in seen[r] /\ (c = call[r].to \/ Exists(c))
       THEN Finish(r, "cycle") /\ UNCHANGED <<seen, cursor>>
       ELSE IF c = call[r].group THEN Finish(r, "descendant") /\ UNCHANGED <<seen, cursor>>
       ELSE IF ~Exists(c)
       THEN /\ IF seen[r] = {} THEN Finish(r, "missing") ELSE Go(r, "store")
            /\ UNCHANGED <<seen, cursor>>
       ELSE /\ seen' = [seen EXCEPT ![r] = seen[r] \union {c}]
            /\ IF parent[c] = NoGroup THEN Go(r, "store") /\ UNCHANGED cursor
               ELSE Go(r, "walk") /\ cursor' = [cursor EXCEPT ![r] = parent[c]]
    /\ UNCHANGED <<tables, call, copy, stored, history>>

-----------------------------------------------------------------------------
(* The commits of create and update. *)

\* Slip: only the service's walk stands between a group and a parent.
ParentThereSlip(to) == TRUE

\* The foreign keys of parent_id and of accounts.group_id.
ParentThere(to) == to = NoGroup \/ Exists(to)

\* Slip: written before the parent is known to be there, and not taken back.
StoreNewSlip(r) ==
    /\ pc[r] = "store" /\ call[r].op = "create"
    /\ parent' = [parent EXCEPT ![r] = IF ParentThere(call[r].to) THEN call[r].to ELSE NoGroup]
    /\ stored' = stored \union {r}
    /\ IF ParentThere(call[r].to) THEN Go(r, "refresh") ELSE Finish(r, "conflict")
    /\ UNCHANGED <<home, call, copy, seen, cursor, history>>

StoreNew(r) ==
    /\ pc[r] = "store" /\ call[r].op = "create"
    /\ IF ParentThere(call[r].to)
       THEN /\ parent' = [parent EXCEPT ![r] = call[r].to]
            /\ stored' = stored \union {r}
            /\ Go(r, "refresh")
       ELSE Finish(r, "conflict") /\ UNCHANGED <<parent, stored>>
    /\ UNCHANGED <<home, call, copy, seen, cursor, history>>

\* The requests whose walk has begun and that have not yet written.
Validating == {q \in Request : call[q].op \in {"create", "reparent"} /\ pc[q] \in {"walk", "store"}}

\* The UPDATE names the columns that differ from the loaded object: none, if the
\* group has been under that parent already.  An UPDATE that finds no row is a
\* StaleDataError, which _commit_and_refresh does not turn into a conflict.
StoreParent(r) ==
    LET g == call[r].group
        to == call[r].to
    IN
    /\ pc[r] = "store" /\ call[r].op = "reparent"
    /\ IF copy[r] # to /\ Exists(g) /\ ParentThere(to)
       THEN /\ parent' = [parent EXCEPT ![g] = to]
            /\ stored' = stored \union {r}
            /\ raced' = raced \union (Validating \ {r})
            /\ skewed' = (skewed \/ (r \in raced /\ to # NoGroup))
            /\ Go(r, "refresh")
       ELSE /\ IF copy[r] = to THEN Go(r, "refresh")
               ELSE Finish(r, IF Exists(g) THEN "conflict" ELSE "failed")
            /\ UNCHANGED <<parent, stored, history>>
    /\ UNCHANGED <<home, call, copy, seen, cursor>>

\* After the commit the row is read back, and may have been deleted by then.
Refresh(r) ==
    /\ pc[r] = "refresh"
    /\ Finish(r, IF call[r].op = "place" \/ Exists(call[r].group) THEN "ok" ELSE "failed")
    /\ UNCHANGED <<tables, call, copy, seen, cursor, stored, history>>

-----------------------------------------------------------------------------
(* GroupService.delete. *)

HasChild(g) == \E h \in Group : parent[h] = g
HasAccount(g) == \E a \in Account : home[a] = g

\* Both SELECTs run before either is looked at; copy remembers that the first
\* found a child.
LookForChildren(r) ==
    /\ pc[r] = "children"
    /\ copy' = [copy EXCEPT ![r] = IF HasChild(call[r].group) THEN call[r].group ELSE Absent]
    /\ Go(r, "accounts")
    /\ UNCHANGED <<tables, call, seen, cursor, stored, history>>

LookForAccounts(r) ==
    /\ pc[r] = "accounts"
    /\ IF copy[r] = call[r].group \/ HasAccount(call[r].group)
       THEN Finish(r, "conflict") ELSE Go(r, "again")
    /\ UNCHANGED <<tables, call, copy, seen, cursor, stored, history>>

\* Nothing has kept the row of the first get: this one reads it again.
GetAgain(r) ==
    /\ pc[r] = "again"
    /\ IF Exists(call[r].group) THEN Go(r, "remove") ELSE Finish(r, "missing")
    /\ UNCHANGED <<tables, call, copy, seen, cursor, stored, history>>

\* Slip: what the service has looked for, long ago.
ReferencedSlip(g) == FALSE

\* The foreign keys: also of broadcast targets, which the service does not ask about.
Referenced(g) == HasChild(g) \/ HasAccount(g) \/ g \in TargetGroup

\* A DELETE that finds no row is only warned about.
Remove(r) ==
    /\ pc[r] = "remove"
    /\ IF Referenced(call[r].group)
       THEN Finish(r, "conflict") /\ UNCHANGED <<parent, stored>>
       ELSE /\ parent' = [parent EXCEPT ![call[r].group] = Absent]
            /\ stored' = stored \union {r}
            /\ Finish(r, "ok")
    /\ UNCHANGED <<home, call, copy, seen, cursor, history>>

-----------------------------------------------------------------------------
(* AccountService.update of group_id. *)

FindGroup(r) ==
    /\ pc[r] = "group"
    /\ IF Exists(call[r].to) THEN Go(r, "store") ELSE Finish(r, "missing")
    /\ UNCHANGED <<tables, call, copy, seen, cursor, stored, history>>

StoreHome(r) ==
    /\ pc[r] = "store" /\ call[r].op = "place"
    /\ IF copy[r] # call[r].to /\ ParentThere(call[r].to)
       THEN /\ home' = [home EXCEPT ![call[r].account] = call[r].to]
            /\ stored' = stored \union {r}
            /\ Go(r, "refresh")
       ELSE /\ IF copy[r] = call[r].to THEN Go(r, "refresh") ELSE Finish(r, "conflict")
            /\ UNCHANGED <<home, stored>>
    /\ UNCHANGED <<parent, call, copy, seen, cursor, history>>

-----------------------------------------------------------------------------
\* The process dies or the connection drops: what is not committed is undone.
Abort(r) ==
    /\ pc[r] \in Step
    /\ Finish(r, "lost")
    /\ UNCHANGED <<tables, call, copy, seen, cursor, stored, history>>

Serve(r) ==
    \/ Load(r) \/ Walk(r) \/ StoreNew(r) \/ StoreParent(r) \/ Refresh(r)
    \/ LookForChildren(r) \/ LookForAccounts(r) \/ GetAgain(r)
    \/ Remove(r) \/ FindGroup(r) \/ StoreHome(r)

Next == \E r \in Request : Begin(r) \/ Serve(r) \/ Abort(r)

Spec == Init /\ [][Next]_vars

\* The event loop resumes every coroutine whose statement has returned.
FairSpec == Spec /\ \A r \in Request : WF_vars(Serve(r))

-----------------------------------------------------------------------------
\* Whatever the calls have looked for before, no group, account or broadcast
\* refers to a group that is gone (delete against create, update and place).
ReferencesExist ==
    /\ \A g \in Group : parent[g] \in Group => Exists(parent[g])
    /\ \A a \in Account : Exists(home[a])
    /\ \A g \in TargetGroup : Exists(g)

\* The walk over the ancestors keeps the groups a forest, also against creations,
\* deletions and reparentings around it, unless a reparenting is stored between
\* the start of another's walk and its commit.
CyclesOnlyFromOverlap == ~skewed => Acyclic(parent)

\* What a caller is told is what became of the call, at whatever step it ended:
\* only a success, an error after the commit or a lost answer can have written,
\* and a cycle among the ancestors is only reported if an overlap has made one or
\* moved them under the walk.
AnswersTellOutcome ==
    \A r \in Request :
        /\ answer[r] \in {"missing", "conflict", "descendant", "cycle"} => r \notin stored
        /\ answer[r] = "ok" /\ call[r].op = "create" => r \in stored
        /\ answer[r] = "ok" /\ call[r].op = "delete" => ~Exists(call[r].group)
        /\ answer[r] = "cycle" => skewed \/ r \in raced

\* Every call ends, also a walk over ancestors that have become a cycle.
EveryRequestAnswered == \A r \in Request : pc[r] \in Step ~> pc[r] = "done"
=============================================================================
