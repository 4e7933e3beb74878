----------------------------- MODULE Permissions ------------------------------
(***************************************************************************)
(* The effective permissions of one account: effective_permissions of      *)
(* AccountService, as services and routes call it, and the services that   *)
(* change what it reads (PositionService, RoleService, AccountService and  *)
(* PermissionOverrideService of src/database/service.py).                  *)
(*                                                                         *)
(* The evaluation reads the account, its position, its role assignments,   *)
(* the roles and the overrides in five statements (selectinload), each of  *)
(* which sees what is committed when it runs; nothing holds the rows that  *)
(* were read still.                                                        *)
(***************************************************************************)
EXTENDS Naturals

CONSTANTS
    Request,          \* calls of the services, each made once
    Bit,              \* the named bits of a mask
    Position, Role,   \* ids
    InitialBits,      \* the masks of the positions and roles there are, or Gone
    InitialPosition,  \* the position of the account
    InitialRoles,     \* the roles assigned to it
    InitialOverrides, \* id -> override of the account
    Gone,             \* no such row
    Open,             \* a window without this bound
    Keep,             \* a column an update leaves alone
    Offered,          \* the calls that may be made
    MaxTime           \* the clock stops here

\* An override is created under a new uuid4: it is named after the call.
Override == DOMAIN InitialOverrides \union Request

\* What has a mask of its own.
Source == Position \union Role

VARIABLES
    position,   \* position_id of the account
    assigned,   \* its rows of account_roles
    bits,       \* source -> its mask, or Gone
    overrides,  \* id -> its row, or Gone
    now,        \* the wall clock
    pc,         \* request -> its next step
    call,       \* request -> what is asked
    at,         \* request -> the clock it has read
    found,      \* request -> the position_id it has read
    mask,       \* request -> the mask it has read or collected
    roles,      \* request -> the assignments it has read
    rows,       \* request -> the overrides it has read
    answer,     \* request -> how the call ended
    witnessed,  \* evaluation -> what the tables have been since its first read
    overlaps,   \* evaluation -> how many writes there have been since
    crossed     \* overrides whose window is a mixture of two updates

tables == <<position, assigned, bits, overrides>>
local == <<call, at, found, mask, roles, rows>>
history == <<witnessed, overlaps, crossed>>
vars == <<tables, now, pc, local, answer, history>>

-----------------------------------------------------------------------------
Time == 0 .. MaxTime

OverrideRow ==
    [allow : SUBSET Bit, deny : SUBSET Bit,
     starts : {Open} \union Time, expires : {Open} \union Time]

\* The columns of an override that a call gives.
Given ==
    [allow : {Keep} \union SUBSET Bit, deny : {Keep} \union SUBSET Bit,
     starts : {Open, Keep} \union Time, expires : {Open, Keep} \union Time]

\* check is an evaluation for _require_permission and show one for a route; set
\* and drop update and delete a position or role.
Op == {"check", "show", "set", "drop", "move", "assign", "unassign", "grant", "amend",
       "revoke"}

Call == [op : Op, source : Source, mask : SUBSET Bit, override : Override, given : Given]
NoCall == [op |-> "none"]

Evaluation == {"check", "show"}

Reading == {"position", "assignments", "roles", "overrides"}
Step ==
    Reading \union {"account", "combine", "load", "lookup", "again", "write", "refresh"}

Status ==
    {"none", "mask", "ok", "missing", "conflict", "invalid", "failed", "lost"}

\* What the tables say of the account.
Snapshot == [position |-> position, assigned |-> assigned, bits |-> bits,
             overrides |-> overrides]

Sound(row) ==
    row.starts = Open \/ row.expires = Open \/ row.starts < row.expires

ASSUME PermissionsAssumption ==
    /\ MaxTime \in Nat
    /\ Position \intersect Role = {}
    /\ DOMAIN InitialOverrides \intersect Request = {}
    /\ InitialBits \in [Source -> {Gone} \union SUBSET Bit]
    /\ InitialPosition \in Position /\ InitialBits[InitialPosition] # Gone
    /\ InitialRoles \subseteq Role /\ \A x \in InitialRoles : InitialBits[x] # Gone
    /\ \A o \in DOMAIN InitialOverrides :
          InitialOverrides[o] \in OverrideRow /\ Sound(InitialOverrides[o])
    /\ Open # Keep /\ \A t \in Time : t # Open /\ t # Keep
    /\ \A m \in SUBSET Bit : m # Keep /\ m # Gone
    /\ Offered \subseteq Call
    /\ \A o \in Offered :
          /\ o.op = "move" => o.source \in Position
          /\ o.op \in {"assign", "unassign"} => o.source \in Role
          /\ o.op = "grant" => o.given \in OverrideRow

Exists(x) == bits[x] # Gone

SnapshotType ==
    [position : Position, assigned : SUBSET Role, bits : [Source -> {Gone} \union SUBSET Bit],
     overrides : [Override -> {Gone} \union OverrideRow]]

TypeOK ==
    /\ position \in Position
    /\ assigned \subseteq Role
    /\ bits \in [Source -> {Gone} \union SUBSET Bit]
    /\ overrides \in [Override -> {Gone} \union OverrideRow]
    /\ now \in Time
    /\ pc \in [Request -> Step \union {"idle", "done"}]
    /\ call \in [Request -> Call \union {NoCall}]
    /\ \A r \in Request : pc[r] \in Step => call[r] \in Offered
    /\ at \in [Request -> Time]
    /\ found \in [Request -> Position]
    /\ mask \in [Request -> SUBSET Bit]
    /\ roles \in [Request -> SUBSET Role]
    /\ rows \in [Request -> [Override -> {Gone} \union OverrideRow]]
    /\ \A r \in Request : pc[r] = "write" /\ call[r].op = "amend" =>
          rows[r][call[r].override] # Gone
    /\ answer \in [Request -> [status : Status, mask : SUBSET Bit]]
    /\ witnessed \in [Request -> SUBSET SnapshotType]
    /\ overlaps \in [Request -> Nat]
    /\ crossed \subseteq Override

Init ==
    /\ position = InitialPosition
    /\ assigned = InitialRoles
    /\ bits = InitialBits
    /\ overrides = [o \in Override |->
                      IF o \in DOMAIN InitialOverrides THEN InitialOverrides[o] ELSE Gone]
    /\ now = 0
    /\ pc = [r \in Request |-> "idle"]
    /\ call = [r \in Request |-> NoCall]
    /\ at = [r \in Request |-> 0]
    /\ found = [r \in Request |-> InitialPosition]
    /\ mask = [r \in Request |-> {}]
    /\ roles = [r \in Request |-> {}]
    /\ rows = [r \in Request |-> [o \in Override |-> Gone]]
    /\ answer = [r \in Request |-> [status |-> "none", mask |-> {}]]
    /\ witnessed = [r \in Request |-> {}]
    /\ overlaps = [r \in Request |-> 0]
    /\ crossed = {}

-----------------------------------------------------------------------------
(* The course of a call. *)

Go(r, step) ==
    /\ pc' = [pc EXCEPT ![r] = step]
    /\ UNCHANGED answer

Finish(r, status) ==
    /\ pc' = [pc EXCEPT ![r] = "done"]
    /\ answer' = [answer EXCEPT ![r] = [status |-> status, mask |-> {}]]

\* _require_permission reads the clock before the first statement.
Begin(r) ==
    /\ pc[r] = "idle"
    /\ \E o \in Offered :
         /\ call' = [call EXCEPT ![r] = o]
         /\ Go(r, IF o.op \in Evaluation THEN "account" ELSE "load")
         /\ at' = [at EXCEPT ![r] = now]
    /\ UNCHANGED <<tables, now, found, mask, roles, rows, history>>

\* The evaluations that have begun to read see what a write makes of the tables.
Witness ==
    LET open == {q \in Request : pc[q] \in Reading}
    IN
    /\ witnessed' = [q \in Request |->
                       IF q \in open THEN witnessed[q] \union {Snapshot'} ELSE witnessed[q]]
    /\ overlaps' = [q \in Request |-> IF q \in open THEN overlaps[q] + 1 ELSE overlaps[q]]

NoWrite == UNCHANGED <<tables, history>>

-----------------------------------------------------------------------------
(* effective_permissions. *)

ReadAccount(r) ==
    /\ pc[r] = "account"
    /\ found' = [found EXCEPT ![r] = position]
    /\ witnessed' = [witnessed EXCEPT ![r] = {Snapshot}]
    /\ Go(r, "position")
    /\ UNCHANGED <<tables, now, call, at, mask, roles, rows, overlaps, crossed>>

\* A row that is gone by now is loaded as None, which has no permissions.
ReadPosition(r) ==
    /\ pc[r] = "position"
    /\ IF Exists(found[r])
       THEN /\ mask' = [mask EXCEPT ![r] = bits[found[r]]]
            /\ Go(r, "assignments")
       ELSE Finish(r, "failed") /\ UNCHANGED mask
    /\ UNCHANGED <<now, call, at, found, roles, rows>> /\ NoWrite

ReadAssignments(r) ==
    /\ pc[r] = "assignments"
    /\ roles' = [roles EXCEPT ![r] = assigned]
    /\ Go(r, IF assigned = {} THEN "overrides" ELSE "roles")
    /\ UNCHANGED <<now, call, at, found, mask, rows>> /\ NoWrite

ReadRoles(r) ==
    /\ pc[r] = "roles"
    /\ IF \A x \in roles[r] : Exists(x)
       THEN /\ mask' = [mask EXCEPT ![r] = mask[r] \union UNION {bits[x] : x \in roles[r]}]
            /\ Go(r, "overrides")
       ELSE Finish(r, "failed") /\ UNCHANGED mask
    /\ UNCHANGED <<now, call, at, found, roles, rows>> /\ NoWrite

ReadOverrides(r) ==
    /\ pc[r] = "overrides"
    /\ rows' = [rows EXCEPT ![r] = overrides]
    /\ Go(r, "combine")
    /\ UNCHANGED <<now, call, at, found, mask, roles>> /\ NoWrite

\* Slip: the end of the window still belongs to it.
IsActiveSlip(row, t) ==
    /\ row.starts = Open \/ row.starts <= t
    /\ row.expires = Open \/ row.expires >= t

\* _is_override_active
IsActive(row, t) ==
    /\ row.starts = Open \/ row.starts <= t
    /\ row.expires = Open \/ row.expires > t

\* Slip: what is allowed expressly is not denied.
CombineSlip(granted, allowed, denied) == (granted \ denied) \union allowed

\* (permissions | allowed) & ~denied
Combine(granted, allowed, denied) == (granted \union allowed) \ denied

\* The routes leave the clock to effective_permissions, which reads it last.
Evaluate(r) ==
    LET t == IF call[r].op = "show" THEN now ELSE at[r]
        active == {o \in Override : rows[r][o] # Gone /\ IsActive(rows[r][o], t)}
    IN
    /\ pc[r] = "combine"
    /\ at' = [at EXCEPT ![r] = t]
    /\ pc' = [pc EXCEPT ![r] = "done"]
    /\ answer' = [answer EXCEPT ![r] =
                    [status |-> "mask",
                     mask |-> Combine(mask[r], UNION {rows[r][o].allow : o \in active},
                                      UNION {rows[r][o].deny : o \in active})]]
    /\ UNCHANGED <<now, call, found, mask, roles, rows>> /\ NoWrite

-----------------------------------------------------------------------------
(* PositionService and RoleService: update and delete. *)

LoadSource(r) ==
    LET x == call[r].source
    IN
    /\ pc[r] = "load" /\ call[r].op \in {"set", "drop"}
    /\ IF Exists(x)
       THEN /\ mask' = [mask EXCEPT ![r] = bits[x]]
            /\ Go(r, IF call[r].op = "set" THEN "write" ELSE "lookup")
       ELSE Finish(r, "missing") /\ UNCHANGED mask
    /\ UNCHANGED <<now, call, at, found, roles, rows>> /\ NoWrite

\* An UPDATE of what differs from the loaded row; without a row to match it is an
\* error of the ORM.
SetMask(r) ==
    LET x == call[r].source
    IN
    /\ pc[r] = "write" /\ call[r].op = "set"
    /\ IF mask[r] # call[r].mask /\ Exists(x)
       THEN /\ bits' = [bits EXCEPT ![x] = call[r].mask]
            /\ Go(r, "refresh")
            /\ UNCHANGED <<position, assigned, overrides, crossed>> /\ Witness
       ELSE /\ IF mask[r] = call[r].mask THEN Go(r, "refresh") ELSE Finish(r, "failed")
            /\ NoWrite
    /\ UNCHANGED <<now, local>>

\* Slip: what the service has looked for, long ago.
ReferencedSlip(x) == FALSE

\* What delete looks for, and what the foreign keys hold.
Referenced(x) == x = position \/ x \in assigned

LookForUse(r) ==
    /\ pc[r] = "lookup" /\ call[r].op = "drop"
    /\ IF Referenced(call[r].source) THEN Finish(r, "conflict") ELSE Go(r, "again")
    /\ UNCHANGED <<now, local>> /\ NoWrite

GetAgain(r) ==
    /\ pc[r] = "again" /\ call[r].op = "drop"
    /\ IF Exists(call[r].source) THEN Go(r, "write") ELSE Finish(r, "missing")
    /\ UNCHANGED <<now, local>> /\ NoWrite

\* A DELETE that finds no row is only warned about, here and below.
DropSource(r) ==
    LET x == call[r].source
    IN
    /\ pc[r] = "write" /\ call[r].op = "drop"
    /\ IF Referenced(x)
       THEN Finish(r, "conflict") /\ NoWrite
       ELSE /\ bits' = [bits EXCEPT ![x] = Gone]
            /\ Finish(r, "ok")
            /\ UNCHANGED <<position, assigned, overrides, crossed>> /\ Witness
    /\ UNCHANGED <<now, local>>

-----------------------------------------------------------------------------
(* AccountService: update of the position, assign_role, remove_role. *)

LoadAccount(r) ==
    /\ pc[r] = "load" /\ call[r].op = "move"
    /\ found' = [found EXCEPT ![r] = position]
    /\ Go(r, "lookup")
    /\ UNCHANGED <<now, call, at, mask, roles, rows>> /\ NoWrite

FindPosition(r) ==
    /\ pc[r] = "lookup" /\ call[r].op = "move"
    /\ IF Exists(call[r].source) THEN Go(r, "write") ELSE Finish(r, "missing")
    /\ UNCHANGED <<now, local>> /\ NoWrite

Move(r) ==
    LET x == call[r].source
    IN
    /\ pc[r] = "write" /\ call[r].op = "move"
    /\ IF found[r] # x /\ Exists(x)
       THEN /\ position' = x
            /\ Go(r, "refresh")
            /\ UNCHANGED <<assigned, bits, overrides, crossed>> /\ Witness
       ELSE /\ IF found[r] = x THEN Go(r, "refresh") ELSE Finish(r, "conflict")
            /\ NoWrite
    /\ UNCHANGED <<now, local>>

FindRole(r) ==
    /\ pc[r] = "load" /\ call[r].op = "assign"
    /\ IF Exists(call[r].source) THEN Go(r, "lookup") ELSE Finish(r, "missing")
    /\ UNCHANGED <<now, local>> /\ NoWrite

FindAssignment(r) ==
    /\ \/ pc[r] = "lookup" /\ call[r].op = "assign"
             /\ IF call[r].source \in assigned THEN Finish(r, "conflict") ELSE Go(r, "write")
       \/ pc[r] = "load" /\ call[r].op = "unassign"
             /\ IF call[r].source \in assigned THEN Go(r, "write") ELSE Finish(r, "missing")
    /\ UNCHANGED <<now, local>> /\ NoWrite

Assign(r) ==
    LET x == call[r].source
    IN
    /\ pc[r] = "write" /\ call[r].op = "assign"
    /\ IF Exists(x) /\ x \notin assigned
       THEN /\ assigned' = assigned \union {x}
            /\ Go(r, "refresh")
            /\ UNCHANGED <<position, bits, overrides, crossed>> /\ Witness
       ELSE Finish(r, "conflict") /\ NoWrite
    /\ UNCHANGED <<now, local>>

Unassign(r) ==
    /\ pc[r] = "write" /\ call[r].op = "unassign"
    /\ assigned' = assigned \ {call[r].source}
    /\ Finish(r, "ok")
    /\ UNCHANGED <<position, bits, overrides, crossed>> /\ Witness
    /\ UNCHANGED <<now, local>>

-----------------------------------------------------------------------------
(* PermissionOverrideService. *)

\* The columns of new that are given, and those of row otherwise.
Over(row, given) ==
    [allow   |-> IF given.allow = Keep THEN row.allow ELSE given.allow,
     deny    |-> IF given.deny = Keep THEN row.deny ELSE given.deny,
     starts  |-> IF given.starts = Keep THEN row.starts ELSE given.starts,
     expires |-> IF given.expires = Keep THEN row.expires ELSE given.expires]

\* What an UPDATE of the columns in which new differs from copy makes of row.
Updated(row, copy, new) ==
    [allow   |-> IF new.allow = copy.allow THEN row.allow ELSE new.allow,
     deny    |-> IF new.deny = copy.deny THEN row.deny ELSE new.deny,
     starts  |-> IF new.starts = copy.starts THEN row.starts ELSE new.starts,
     expires |-> IF new.expires = copy.expires THEN row.expires ELSE new.expires]

SameWindow(row, other) == row.starts = other.starts /\ row.expires = other.expires

CheckGrant(r) ==
    /\ pc[r] = "load" /\ call[r].op = "grant"
    /\ IF Sound(call[r].given) THEN Go(r, "write") ELSE Finish(r, "invalid")
    /\ UNCHANGED <<now, local>> /\ NoWrite

Grant(r) ==
    /\ pc[r] = "write" /\ call[r].op = "grant"
    /\ overrides' = [overrides EXCEPT ![r] = call[r].given]
    /\ Go(r, "refresh")
    /\ UNCHANGED <<position, assigned, bits, crossed>> /\ Witness
    /\ UNCHANGED <<now, local>>

\* Slips: what has been loaded is taken to be there; only a window of which both
\* ends are given is looked at.
LoadOverrideUnchecked(r) ==
    LET o == call[r].override
    IN
    /\ pc[r] = "load" /\ call[r].op \in {"amend", "revoke"}
    /\ rows' = [rows EXCEPT ![r] = [rows[r] EXCEPT ![o] = overrides[o]]]
    /\ IF overrides[o] # Gone /\ call[r].op = "amend" /\ ~Sound(Over(overrides[o], call[r].given))
       THEN Finish(r, "invalid") ELSE Go(r, "write")
    /\ UNCHANGED <<now, call, at, found, mask, roles>> /\ NoWrite

LoadOverrideSlip(r) ==
    LET o == call[r].override
        given == call[r].given
    IN
    /\ pc[r] = "load" /\ call[r].op \in {"amend", "revoke"}
    /\ rows' = [rows EXCEPT ![r] = [rows[r] EXCEPT ![o] = overrides[o]]]
    /\ IF overrides[o] = Gone THEN Finish(r, "missing")
       ELSE IF call[r].op = "amend" /\ Keep \notin {given.starts, given.expires}
                 /\ ~Sound(Over(overrides[o], given)) THEN Finish(r, "invalid")
       ELSE Go(r, "write")
    /\ UNCHANGED <<now, call, at, found, mask, roles>> /\ NoWrite

\* The new window is checked against the ends of the row that was read.
LoadOverride(r) ==
    LET o == call[r].override
    IN
    /\ pc[r] = "load" /\ call[r].op \in {"amend", "revoke"}
    /\ rows' = [rows EXCEPT ![r] = [rows[r] EXCEPT ![o] = overrides[o]]]
    /\ IF overrides[o] = Gone THEN Finish(r, "missing")
       ELSE IF call[r].op = "amend" /\ ~Sound(Over(overrides[o], call[r].given))
       THEN Finish(r, "invalid")
       ELSE Go(r, "write")
    /\ UNCHANGED <<now, call, at, found, mask, roles>> /\ NoWrite

Amend(r) ==
    LET o == call[r].override
        copy == rows[r][o]
        new == Over(copy, call[r].given)
    IN
    /\ pc[r] = "write" /\ call[r].op = "amend"
    /\ IF new # copy /\ overrides[o] # Gone
       THEN /\ overrides' = [overrides EXCEPT ![o] = Updated(overrides[o], copy, new)]
            /\ crossed' = IF SameWindow(new, copy) \/ SameWindow(overrides[o], copy)
                          THEN crossed ELSE crossed \union {o}
            /\ Go(r, "refresh")
            /\ UNCHANGED <<position, assigned, bits>> /\ Witness
       ELSE /\ IF new = copy THEN Go(r, "refresh") ELSE Finish(r, "failed")
            /\ NoWrite
    /\ UNCHANGED <<now, local>>

Revoke(r) ==
    /\ pc[r] = "write" /\ call[r].op = "revoke"
    /\ overrides' = [overrides EXCEPT ![call[r].override] = Gone]
    /\ Finish(r, "ok")
    /\ UNCHANGED <<position, assigned, bits, crossed>> /\ Witness
    /\ UNCHANGED <<now, local>>

-----------------------------------------------------------------------------
\* What refresh looks for after the commit.
StillThere(r) ==
    CASE call[r].op = "set"    -> Exists(call[r].source)
      [] call[r].op = "assign" -> call[r].source \in assigned
      [] call[r].op = "grant"  -> overrides[r] # Gone
      [] call[r].op = "amend"  -> overrides[call[r].override] # Gone
      [] OTHER                 -> TRUE

Refresh(r) ==
    /\ pc[r] = "refresh"
    /\ Finish(r, IF StillThere(r) THEN "ok" ELSE "failed")
    /\ UNCHANGED <<now, local>> /\ NoWrite

\* The process dies or the connection drops: what is not committed is undone.
Abort(r) ==
    /\ pc[r] \in Step
    /\ Finish(r, "lost")
    /\ UNCHANGED <<now, local>> /\ NoWrite

Read(r) ==
    \/ ReadAccount(r) \/ ReadPosition(r) \/ ReadAssignments(r) \/ ReadRoles(r)
    \/ ReadOverrides(r) \/ Evaluate(r)

Change(r) ==
    \/ LoadSource(r) \/ SetMask(r) \/ LookForUse(r) \/ GetAgain(r) \/ DropSource(r)
    \/ LoadAccount(r) \/ FindPosition(r) \/ Move(r)
    \/ FindRole(r) \/ FindAssignment(r) \/ Assign(r) \/ Unassign(r)
    \/ CheckGrant(r) \/ Grant(r) \/ LoadOverride(r) \/ Amend(r) \/ Revoke(r)
    \/ Refresh(r)

Tick ==
    /\ now < MaxTime
    /\ now' = now + 1
    /\ UNCHANGED <<tables, pc, local, answer, history>>

Next ==
    \/ \E r \in Request : Begin(r) \/ Read(r) \/ Change(r) \/ Abort(r)
    \/ Tick

Spec == Init /\ [][Next]_vars
-----------------------------------------------------------------------------
(* What an evaluation may rely on. *)

Holds(s, x) == x = s.position \/ x \in s.assigned
Carries(s, x, b) == s.bits[x] # Gone /\ b \in s.bits[x]
Allows(s, o, b, t) ==
    s.overrides[o] # Gone /\ IsActive(s.overrides[o], t) /\ b \in s.overrides[o].allow
Denies(s, o, b, t) ==
    s.overrides[o] # Gone /\ IsActive(s.overrides[o], t) /\ b \in s.overrides[o].deny

\* An evaluation is torn between the writes it meets, but only so far: a bit in the
\* mask was carried by a position or role the account held, or allowed by an
\* override, while it ran, and no override denied it all the time; a bit that was
\* granted all the time and never denied is in the mask.
MaskWithinRead ==
    \A r \in Request : answer[r].status = "mask" =>
        LET W == witnessed[r]
            t == at[r]
        IN  \A b \in Bit :
              /\ b \in answer[r].mask =>
                   /\ \/ \E x \in Source : (\E s \in W : Holds(s, x)) /\ (\E s \in W : Carries(s, x, b))
                      \/ \E o \in Override, s \in W : Allows(s, o, b, t)
                   /\ \A o \in Override : \E s \in W : ~Denies(s, o, b, t)
              /\ \/ \E x \in Source : \A s \in W : Holds(s, x) /\ Carries(s, x, b)
                 \/ \E o \in Override : \A s \in W : Allows(s, o, b, t)
                => b \in answer[r].mask \/ \E o \in Override, s \in W : Denies(s, o, b, t)

\* The mask of the account at an instant, from the description of the overrides.
InForce(row, t) ==
    /\ row.starts # Open => t >= row.starts
    /\ row.expires # Open => t < row.expires

Effective(s, t) ==
    LET live == {o \in Override : s.overrides[o] # Gone /\ InForce(s.overrides[o], t)}
        granted == {b \in Bit : \/ \E x \in Source : Holds(s, x) /\ Carries(s, x, b)
                                \/ \E o \in live : b \in s.overrides[o].allow}
    IN  {b \in granted : \A o \in live : b \notin s.overrides[o].deny}

\* An evaluation that meets one write at most answers with the mask of an instant:
\* it takes two, of a reference and of the row behind it or of two kinds of rows,
\* to make it fail or put together what the account has never had.
OneWriteIsAtomic ==
    \A r \in Request :
        answer[r].status \in {"mask", "failed"} /\ call[r].op \in Evaluation /\ overlaps[r] <= 1 =>
            /\ answer[r].status = "mask"
            /\ \E s \in witnessed[r] : answer[r].mask = Effective(s, at[r])

\* Nobody deletes a position or role the account refers to, whatever the services
\* have looked for before the write.
ReferencesExist == Exists(position) /\ \A x \in assigned : Exists(x)

\* An override has a window that begins before it ends, also when both ends are
\* changed one by one, unless two updates overlap that each move one end.
WindowsSound ==
    \A o \in Override : overrides[o] # Gone /\ o \notin crossed => Sound(overrides[o])
=============================================================================
