# A TLA+ model of the e-FDHS notice-board backend

The repository is a FastAPI service over PostgreSQL: teachers publish
broadcasts to class groups, one permitted student of each target group confirms
it before a calendar deadline, and the author and the students discuss it in one
thread per target. Around that stand accounts with positions, roles and
permission overrides, a hierarchy of groups, and cookie sessions.

The hard part is not any single function. Every request is a coroutine with a
database session of its own; every awaited statement lets other requests run;
transactions are READ COMMITTED, so two statements of one handler can see two
different databases; the ORM's identity map serves some reads from memory and
refreshes the caller's account object under the handler's feet. What keeps the
data right is a mixture of checks in the services and constraints in the
database, and the modules here say which one arbitrates what.

## The system's parts

Line numbers are those of `src/`.

| Component | State | Operations | Interacts with | Hard behaviour | Correct when | Status |
|---|---|---|---|---|---|---|
| Confirmation calendar (`database/broadcast_cycle.py`, `week_bounds`) | none | responsibility day, deadline, shown state, display week | called by publishing, presenting, feed | 15:00 and 16:30 sharp, local against UTC midnight, the seam of two weeks | the first 16:30 after a grace period; what is shown goes forward as the stamps decide; weeks partition | modelled |
| Broadcast tables (`database/model.py`) | broadcasts, targets, confirmations, replies | insert only | foreign keys to groups and accounts | constraint arbitration between open transactions | rows are written once, threads are closed | modelled |
| Broadcast services and routes (`service.py` 757-954, `routes/broadcast.py`) | one transaction per request | publish, confirm, reply, read, thread | read accounts, groups and permissions others change | concurrent confirmations, checks and inserts in different statements, answers computed after the commit | see the properties below | modelled |
| Feed and pending badge (`routes/broadcast.py` 134-144, 220-240) | none | list, count | tables, calendar | ids, account, permissions, records, replies and count from different snapshots; pages of a growing list | list and badge differ only by what has happened in between; pages skip nothing | modelled |
| Directory administration (`service.py` 95-468) | accounts, groups, positions, roles | create, update, delete | read by every request | check-then-act under unique and foreign keys | references stay valid | partly: its updates and deletions are modelled, creating accounts, positions and roles is not |
| Group hierarchy (`GroupService`) | `parent_id` | create, reparent, delete | ancestor walk through the identity map | write skew of two reparentings | a cycle needs an overlap; the walk ends | modelled |
| Effective permissions (`service.py` 470-498, 665-750) | positions, roles, overrides with windows | evaluate, change | read by confirm, reply and present | a read torn over four statements | a mask of bits held while it was read; one write does not tear it | modelled |
| Sessions, login, password change (`routes/auth.py`, `routes/user.py`, `SessionService`) | sessions, password hash | login, touch, renew, revoke, change password | authenticate every request | stale identity map, concurrent renewals, login racing a password change | forced end, revocation is final, a change ends what it can see | partly: `SessionService.update` of other columns and the principal's lookups of position and group are left out |
| Seed (`database/seed.py`) | the initial directory | get-or-create | unique constraints | two seeds at once, a seed beside a migration, a crash | all or nothing, nothing twice unless seeds overlap | modelled |
| Migrations (`alembic/`) | schema and old rows | upgrade, downgrade | locks tables | refuse what cannot be mapped, all or nothing; lock orders | no reply gets a target that was guessed; threads are closed at the head | partly: from 0003 on |
| Exception mapping (`main.py`) | none | an exception becomes a status | every handler | - | a status tells what was stored | modelled, in `Broadcasts` |
| Configuration, route loader | none | start-up | - | - | - | not modelled |

Administrative operations exist only as services: no route calls them, but
operators and scripts do, so they are part of the environment of every request.

## The modules

| Module | What it is |
|---|---|
| `BroadcastCycle` | the calendar as pure operators over a number of ticks; parameters are the length of the day, the offset of Taipei, the cutoff and the deadline time |
| `MCBroadcastCycle` | a state machine for one target (publication, clock, the stamp of a confirmation and its commit) that checks the calendar over more than a week |
| `BroadcastTables` | the three tables, their row types, and the keys as operators (`Targeted`, `Confirmed`, `SameThread`) |
| `BroadcastBoard` | the abstract specification: three tables that only grow, by `Publish`, `Confirm`, `Reply` |
| `Broadcasts` | the requests, one action per stretch of a handler between two reads of mutable data; crashes, the clock, administrators |
| `MCBroadcasts` | small instances of `Broadcasts` |
| `Sessions` | login, authentication, renewal, logout, profile and password change, each request with its copies of the rows; crashes, the clock, administrators |
| `MCSessions` | small instances of `Sessions` |
| `Groups`, `MCGroups` | the hierarchy: create, reparent, delete, place an account, with the ancestor walk through the identity map |
| `Permissions`, `MCPermissions` | one account's positions, roles and overrides under change, and `effective_permissions` read in four statements |
| `Feed`, `MCFeed` | the list and the badge, read while the board, the accounts and the clock move |
| `Deployment`, `MCDeployment` | seeds, migrations and writers of replies as transactions with table locks |
| `BroadcastCycleProofs`, `MCBroadcastCycleProofs`, `BroadcastsProofs`, `SessionsProofs`, `GroupsProofs`, `PermissionsProofs`, `FeedProofs`, `DeploymentProofs` | the theorems |

`Broadcasts` EXTENDS `BroadcastTables`, which EXTENDS `BroadcastCycle`;
`Broadcasts` also INSTANCEs `BroadcastBoard` on the same tables (`Board`).
`Feed` EXTENDS `BroadcastTables` too, and its writers are the steps of
`BroadcastBoard`: by the refinement proved in `BroadcastsProofs` they are all a
publication, a confirmation or a reply can do to the tables.
`Sessions` stands alone: what it shows of authentication is what `Begin` of
`Broadcasts` takes for granted. `Groups` and `Permissions` show in detail what
`DeleteGroup` and `UpdateAccount` of `Broadcasts` and `Feed` do in one step: an
evaluation of permissions that is torn is one that no instant explains, which is
why `StoredRowsWereAuthorized` asks for a permission held at some instant of the
request and `Permissions` for how far a torn mask can be off.
`Deployment` brings the tables of `Broadcasts` into being: `ThreadsClosedAtHead`
is where its threads start from.
Definitions named `...Slip` (and `KeyHeldNever`, `KeyHeldMutually`,
`ShownTargetsAsked`, `ShownTargetsWide`, `AccountLockedForever`) are deliberate
mistakes beside the operator they get wrong. No specification uses them: each shows that a property
would notice a plausible change to the code.

### How `MCBroadcastCycle` corresponds to the code

`Stamp` is `confirm` reading the clock for the row it is about to insert,
`Confirm` its commit, at that instant or any later one, since the insert may wait
for a rival and the commit takes its time; `RollBack` is the insert or commit that
fails. What readers are shown (`state`) depends on committed rows only. So a
reader can be shown `overdue` first and `confirmed_on_time` later:
`StateMovesForward` says that this happens exactly if the target was pending at
the stamp, and that everything else goes forward.

### How `Broadcasts` corresponds to the code

A request `r` is one HTTP request. `pc[r]` is the next step of its handler,
`call[r]` what was asked (with the group `scoped_group` resolved), `at[r]` the
clock it remembers, `answer[r]` the response.

| Action | Code |
|---|---|
| `Begin` | `get_current_principal` loads the account (401 if inactive), the route applies `scoped_group` to that copy |
| `PublishActor`, `PublishGroups`, `PublishStore` | `BroadcastService.create`: the actor, the SELECT of the groups, the insert and commit; a group deleted in between breaks a foreign key: 409, nothing stored |
| `ConfirmActor`, `ConfirmPermit`, `ConfirmInsert`, `ConfirmCommit` | `BroadcastConfirmationService.confirm`; `KeyHeld` is the database's lock on an uncommitted primary key |
| `ReplyActor`, `ReplyPermit`, `ReplyParent`, `ReplyStore` | `ReplyService.create`; the author needs no permission |
| `Get` | `BroadcastService.get` and the target check of `detail`, on the refreshed account |
| `Present` | `permissions` and `present`: the answer is cut to the group the account has now |
| `Abort` | the worker dies or the connection drops: the session's transaction rolls back unless it has committed |
| `UpdateAccount` | `AccountService.update` and any change of roles, positions, overrides or override windows: whatever changes an account's `active`, `type`, `group` or permission bits |
| `RetypeGroup`, `DeleteGroup` | `GroupService.update` of the type, `GroupService.delete` with its foreign keys |
| `Tick` | time |

Two rows read in one action are either read by one statement or one of them is
immutable: broadcasts, targets, confirmations and replies are never changed
once committed, so looking one up at the instant of the account's read gives
what any other instant of the step would. A stamp is any instant between the
last check and the statement that carries it. `ever[r]` and `committed` are
history variables for properties; no guard reads them.

Statuses stand for exceptions: `unauthorized` 401, `forbidden` 403, `missing`
404, `conflict` 409, `invalid` 422, `failed` 500, `created` 201, `ok` 200, and
`lost` when no answer arrives.

Abstracted: contents, names and layout; the validation of blank contents and
page limits; which session authenticates a request; the capabilities
(`can_confirm`, `can_reply`) in answers; children of a group when it is deleted
(a further reason to refuse). An account that makes a request has a session row,
and sessions are never deleted, so `AccountService.delete` cannot remove it.

### How `Sessions` corresponds to the code

| Action | Code |
|---|---|
| `Begin` | a client calls with credentials or with a cookie it was given (`HeldTokens`) |
| `LoginLookup` | the account by name, `verify_password` on the loaded row |
| `LoginRehash`, `LoginRefresh` | `check_needs_rehash` and `AccountService.update` of the hash, then the refresh of `_commit_and_refresh` |
| `LoginInsert` | the TTL check and `SessionService.create`; the foreign key arbitrates against `AccountService.delete` |
| `SelectSession`, `LoadAccount`, `Touch` | `get_active_by_token_hash`, `AccountService.get`, `SessionService.touch` |
| `Logout`, `UpdateProfile` | `SessionService.revoke`, `AccountService.update` of the display name |
| `ChangeFlush`, `ChangeSweep`, `ChangeCommit` | `update_password`: verification on the copy, then one transaction of two updates |
| `Respond`, `Abort` | the answer leaves, or never does |
| `SetStatus`, `ResetPassword`, `RevokeAll`, `DeleteAccount` | the account and session services called by operators |

`mySession[r]` and `myAccount[r]` are the objects in the identity map of the
request's database session. `touch`, `revoke` and `update` fetch them by key,
get the copy, decide on it, and write only the columns that differ from it
(`Written`, `MergeSession`, `MergeAccount`). A flush and the commit that follows
it at once are one action, guarded by the row locks of whoever still holds the
row: only a password change keeps locks over several statements
(`AccountLocked`, `SessionLocked`), and its writes appear with its commit.

`created_at` is the start of the login's transaction, so a session is a little
older than the clock its expiry is counted from. A token is new and its alone,
so a login's token is the request itself. `at[r]` is the clock the handler has
read last. `granted`, `chosen`, `committed` and `revokedBefore` are history
variables that no guard reads.

Abstracted: the hash of a password is the password and whether its parameters
are outdated; which position and group names identify the account; a login that
names no account or a request with an unknown token, which end without a step;
`last_used_at`, which no decision about a session reads (a touch that only
samples it may wait for a lock, and writes nothing else); `force_ttl_hours` per
row, which no route sets to anything but the configured value. The model has
nothing to say of the cookie's own `Max-Age`: renewals lengthen the row, but no
response but the login's sets the cookie, so a browser that honours it drops it
a session lifetime after the login.

### How `Groups` corresponds to the code

| Action | Code |
|---|---|
| `Begin`, `Load` | a call of `create`, `update` with `parent_id`, `delete`, or of `AccountService.update` with `group_id`; `self.get` of the object |
| `Walk` | one turn of the loop of `_validate_parent`: a group already met is taken from the identity map, else read now |
| `StoreNew`, `StoreParent`, `StoreHome` | the commit: the foreign key refuses a parent that is gone, an UPDATE that finds no row is an ORM error |
| `LookForChildren`, `LookForAccounts`, `GetAgain`, `Remove` | `GroupService.delete`, four statements |
| `Refresh` | the refresh after the commit, which fails if the row is gone by then |

`skewed` becomes true when a reparenting is stored while another is between the
first read of its walk and its commit; `raced`, `stored` are the like for answers.
None is read by a guard.

### How `Permissions` corresponds to the code

One account is looked at. `ReadAccount`, `ReadPosition`, `ReadAssignments`,
`ReadRoles`, `ReadOverrides` are the statements of the loader of
`effective_permissions` (`populate_existing` and four `selectinload`s, in the
order SQLAlchemy issues them), `Evaluate` the loop with `_is_override_active`; a
reference whose row is gone by its statement ends in an error. The other actions
are the statements of the services: `LoadSource`, `SetMask` for the masks of
positions and roles, `LookForUse`, `GetAgain`, `DropSource` for their deletion,
`FindPosition`, `Move`, `FindRole`, `FindAssignment`, `Assign`, `Unassign` for the
account, `CheckGrant`, `Grant`, `LoadOverride`, `Amend`, `Revoke` for overrides.
`Amend` writes the columns that differ from the loaded row and no others.
`witnessed[r]` collects what the tables have been during an evaluation.

### How `Feed` corresponds to the code

`Begin` is authentication and `scoped_group`; `ReadIds` the page; `ReadAccount` and
`ReadMask` are `effective_permissions`: its first statement refreshes the account the
principal holds, the others read the position, the roles and the overrides.
`Permissions` looks at these one by one; here the mask is that of before or after
if at most one write met these statements (`met`), and any mask if more did. A
position or role that is gone by its statement is an error (status `torn`).
`ReadRecords` and `ReadReplies` are the two statements of `present` that read what
can change, with the clock after the second; `CountPending` is `pending_count`. A row
becomes visible up to `MaxLag` after its stamp, since the stamp is taken before
the commit. A parent that was not read is the `KeyError` of `present`: status
`failed`.

Abstracted: the names of authors and positions in an item, and the errors when one of
these goes meanwhile; the caller's own account is not deleted, as it has a session.

### How `Deployment` corresponds to the code

A command or a writer is a transaction, and its program a list of statements:
what it locks (in PostgreSQL's modes, with the implicit locks of DDL and foreign
keys), what it looks for, and what it checks. `Program(j, from)` is that list for
the job `j` at the revision `from` the command reads first: for a migration the
statements of each revision on the way (`Ups`, `Downs`), one after the other, with
one definition for each `upgrade` and `downgrade` (`ScopeReplies`, `UnscopeReplies`, ...).
Waiting, deadlock detection and the visibility of commits are those of PostgreSQL;
`Commit` carries out what the transaction has prepared. A migration ends with the
UPDATE of `alembic_version` (`StampVersion`), which is where one that began at another
revision is refused at the latest: it may stop earlier, at a table or column that is
or is not there, with the same outcome. The writer with op `legacy` is any program for the schema 0005 and not part of the repository.

Assumptions: PostgreSQL at READ COMMITTED with the constraints of the current
schema, one clock that does not run backwards for all workers, one `AsyncSession`
per request.

## What the runs check

| Run | Instance | Properties |
|---|---|---|
| `cycle` | half-hours, publication at each of 385 instants, 30 hours on, one confirmation at a time | `DeadlineIsFirstDueAfterGrace`, `StateMovesForward`, `BadgeCoversPending`, `WeekPagesPartition` |
| `requests` | 3 requests of two students of one group and the author, every parent; clock 0-2, past the deadline; 1 change among deactivation, moves, permissions, retyping, deletion | `InFlightOK`, `ConfirmedOnce`, `ThreadsClosed`, `TargetsExist`, `ConfirmationsAnswerTargets`, `AnswerTellsOutcome`, `StoredRowsWereAuthorized`, `ShownScope` |
| `board` | 3 requests of every kind, no changes, with fairness | `MutationAnswersItsTarget`, `ImplementsBoard`, `EveryRequestAnswered` |
| `moved` | one student confirms and is moved | violates `MutationAnswersItsTarget` |
| `renew` | 3 requests among `me`, logout and login of one account with one session; lifetime 3, forced end 5, window 2, clock 0-5 | `EndedSessionsServeNobody`, `PrincipalsOK`, `ExpiryWithinGrant`, `RevokedIsFinal` |
| `password` | 3 requests among password change, profile and login of two accounts, clock 0-1, 1 administrative change | `ChangeEndsSessions`, `ChosenPasswordStands`, `SessionsHaveAccounts` |
| `served` | 3 requests that rehash, change the password or the profile, with fairness | `EveryRequestAnswered` |
| `rehash` | the same without | violates `ChosenPasswordStands` |
| `groups` | 3 calls among create, reparent (pairs that can close a cycle), delete of each kind of referenced group, and place, on a tree of 4 groups; with fairness | `ReferencesExist`, `CyclesOnlyFromOverlap`, `AnswersTellOutcome`, `EveryRequestAnswered` |
| `permissions` | 3 calls among evaluations and every change of what they read, two ends of one window among them; 2 bits, 2 positions, a role, an override, clock 0-1 | `MaskWithinRead`, `OneWriteIsAtomic`, `ReferencesExist`, `WindowsSound` |
| `feed` | 2 requests of a student (two pages of the week, the badge) and a teacher (the history of a group); 3 writes or changes, by which the student is moved, keeps what he had or leaves as a teacher; a clock that crosses the end of a week | `BadgeAgreesWithItems`, `PagesSkipNothing`, `FeedScope`, `ReaderSeesForward` |
| `deploy` | 3 of seed, dev seed, upgrade, two downgrades, an old and a new writer of a reply, on 6 databases from empty to current; with fairness | `TypeOK`, `NeverGuesses`, `ThreadsClosedAtHead`, `SeedOutcome`, `EveryCommandEnds` |

The type invariants are theorems. Those of `Broadcasts`, `Sessions`, `Groups`,
`Permissions` and `Feed` are not repeated by a run; they are invariants TLC can
check as they stand.

The bounds: a race for a target needs its publication and two confirmations,
and the winner may roll back, so three requests; a reply under a reply in
another thread needs a publication and two replies. One administrative change
falls between any two steps of a request, and can delete a group without
accounts that is about to become a target. The day of six ticks begins at the third:
in `requests` the cutoff and the deadline time fall on the tick after the start, so
that its clock reaches that deadline and passes it, and a broadcast published on that tick is due a
day later. `board` and `moved` ask nothing of deadlines: their clock stops before the first.
In `cycle` the calendar is that of the code, and the clock passes every deadline.
`MaxTime` and `MaxChanges`, and in `Feed` `MaxEvents`, `MaxReplies` and the
length of `Uuid`, are the only bounds in guards. Requests are symmetric
in the safety runs. For sessions: two requests of one session renew it in either
order while a third revokes it or logs in; the forced end lies two ticks past the
first expiry, and the clock reaches it, so that a renewal is cut off by it and a
request comes after it. A request that holds the locks of a password change,
one that waits for them and one that logs in meanwhile are three.

A cycle of groups needs two reparentings, and a third call walks over it or
deletes from it. A mask is torn by two writes around one evaluation, a window
crossed by two updates; the third call then meets the result. Two feeds in a row
compare what a reader has seen with what he sees; three events are a broadcast,
its confirmation or reply, and a move of the reader, and the clock passes from one
week to the next between any two statements. A migration, a seed or a writer, and
a third transaction that waits for both, close every kind of deadlock; the
databases are one for each way an upgrade can be refused, and those it accepts.
Commands are numbered in the order they begin, which is no restriction.

`CHECK_DEADLOCK FALSE` everywhere: once all requests are done
and the bounds are used up, nothing is left to happen; that no request gets stuck
is `EveryRequestAnswered`.

Fairness is weak fairness of `Serve(r)` in `Broadcasts`, `Sessions` and `Groups`:
the event loop resumes every coroutine whose statement has returned, and
PostgreSQL grants a released lock. Beginning, aborting, administrating and the
clock have none. In `Deployment` it is enough that some command that can go on
does, or that one of a deadlock is aborted: as each takes finitely many
statements, all of them end.

What a reader can take from them:

- At most one confirmation per target is stored, and 201, 401, 409 and 422 tell
  truly whether something was. 403, 404 and 500 do not: `detail` runs after the
  commit and can refuse an account that was changed meanwhile, although its row
  is stored.
- Membership and permission are checked at different instants. What holds is
  that each was held at some instant while the request was served.
- Answers are cut to the group the account has when the answer is made. The
  README promises that "Mutations return the updated broadcast scoped to the
  affected target" (`src/README.md:94`): true while nobody administers (`board`),
  not when the student is moved to another target group between commit and
  answer (`moved`): he gets 201 with the other group's target, unconfirmed.
- A broadcast published on a Sunday from 15:00 is due on Monday, and from
  Monday 00:00 the badge of the current week no longer counts it.

- Revocation is final: a request that passed authentication before a logout is
  still answered, and may renew the row's expiry after it, but the renewal
  writes one column and `revoked_at` stays.
- A password change ends exactly the sessions its second statement can see. A
  login that verified the old password before the change may insert its session
  after that statement, and the session lives on: `ChangeEndsSessions` promises
  no more than that.
- A login that finds an outdated hash writes a fresh hash of the password it
  verified, without looking at the row again. A password change that commits
  between the verification and that write is lost, although it was answered 204
  (`rehash`; the tests state the contrary for calls that do not overlap). With
  fresh hashes the chosen password stands (`password`).

- Two reparentings that overlap can close a cycle of groups, each having found
  none; it takes that overlap, and no walk gets lost in the cycle. No order of
  deletions leaves a dangling reference: what the services look for first only
  makes the message better, the foreign keys decide.
- A mask of permissions can be one the account never had, but it takes two
  writes within its four statements, and each bit in it was there at some instant.
- Two updates of one override that each move one end of its window can leave it
  ending before it begins; the validation sees the loaded row only.
- List and badge of one feed can disagree, by exactly what was committed between
  their statements, as long as the permissions of the feed were not torn over two
  writes, in which case a badge may be 0 for who may confirm. Pages by limit and offset can repeat a broadcast when others
  are published, but skip none as rows are never deleted: a new one only pushes
  others to later pages.
- A migration that meets a writer of replies may be aborted as the victim of a
  deadlock, and so may the writer; nothing is half done. Two seeds at the
  same time can create the class group twice, since no key forbids it. An
  account's type does not survive a downgrade below 0004.

## What is proved

For every value of the constants (any finite or infinite sets of requests,
accounts and groups, any calls, any administrative changes, any calendar that
satisfies `CalendarAssumption`, any lifetimes, hierarchies, masks and windows),
from the assumptions the modules name only. In `Deployment` these say that
the names of the seeded rows differ (`ItemAssumption`), that targets are finitely
many groups (`TargetAssumption`), that no downgrade goes below 0003
(`JobAssumption`), and that each database to begin with is one its revision
allows (`DatabaseAssumption`). Every invariant and every action property
of a passing run is stated by a theorem:

| Theorem | Statement |
|---|---|
| `DeadlineGrace`, `StateForward` | the deadline lies within a day after the grace period; shown states move forward |
| `TypeCorrect` | `Spec => []TypeOK` |
| `InFlightCorrect` | `Spec => [](InFlightOK /\ StoredOK)` |
| `ConfirmedOnceCorrect`, `ConfirmationsCorrect`, `ThreadsCorrect` | the invariants of the stored rows |
| `TargetsCorrect` | `Spec => []TargetsExist` |
| `Implementation` | `Spec => ImplementsBoard` |
| `StoredRowsCorrect`, `ShownScopeCorrect` | every row stored was allowed, every group shown was its reader's, at some instant of the request |
| `AnswersTellOutcome` | `Spec => []AnswerTellsOutcome` |
| `MutationsAnswerTheirTarget` | `MutationAnswersItsTarget`, if no administrative change moves or retypes an account |
| `FirstDue`, `ShownForward`, `BadgeCovers`, `WeekPages` | the exact deadline, the shown states, the badge and the weeks, for every calendar |
| `SessionsTypeCorrect`, `PrincipalsCorrect` | `Spec => []TypeOK` and `Spec => []PrincipalsOK` of `Sessions` |
| `RevocationIsFinal`, `ExpiryIsWithinGrant`, `EndedSessionsAreRefused` | revocation, the bounds of renewal, and who is served |
| `ChangesEndSessions`, `NoOrphanedSessions` | the password change as one transaction; sessions and their accounts |
| `FreshHashesStand` | an account without an outdated hash has the password that was chosen last |
| `ChosenPasswordsStand` | `ChosenPasswordStands`, if no account begins with an outdated hash |
| `GroupsTypeCorrect`, `GroupReferencesExist`, `ForestKept`, `GroupAnswersTellOutcome` | `Groups`: types, references, the forest, and what answers mean |
| `PermissionsTypeCorrect`, `PermissionReferencesExist`, `PermissionWindowsSound` | `Permissions`: types, references, windows |
| `MasksWithinRead`, `OneWriteAtomic` | how far a mask can be torn, and that it takes two writes |
| `FeedTypeCorrect`, `BadgeAgreement`, `FeedScopeCorrect`, `ReaderSeesForwardCorrect` | `Feed`: types, the badge beside the list, the scope of a student, two feeds in a row |
| `PagesSkipNothingCorrect` | `Spec => []PagesSkipNothing` |
| `DeploymentTypeCorrect`, `GroupsNeverGuessed`, `HeadHasClosedThreads`, `SeedsComplete` | `Deployment`: types, the replies through migrations, what a seed leaves behind |

The argument. The invariants of the tables are not inductive: that a commit adds
no second confirmation depends on what the committing request knows.
`InFlightOK` says it: a request past its checks has a target that exists
(`TargetFound`) and remembers no clock before that broadcast's publication; a
reply about to be stored comes after its parent (`ParentFound`); a request that
has inserted holds its key alone, and no committed row has it (`KeyOwned`); and
no row is stamped in the future (`ClockCovers`). Each step of a request concerns
that request alone (`OnlyOneMoves`), except for the three steps that write,
which have a lemma each. `TypeOK` contains what `scoped_group` and the request
schemas resolve, without which a stored row could have no group. The refinement
follows from the same facts; the only addition is that every stamp lies within
the bound on the clock.

Three more invariants of `Broadcasts` follow a request from its first check to
its answer. `EntitledOK`: what a request has been found entitled to, it was
entitled to at an instant that `ever` remembers, at the step where it is now.
`OutcomeOK`: the rows of a request are there exactly when it has `committed`, and
each step of a handler (`Course`) lies on one side of the commit, so a refusal
from before it stored nothing and a conflict has a rival whose row is stored.
`AddressedOK`: a student's confirmation or reply is for his own group, and once
it is stored, its target is there to be shown. The last holds while accounts keep
type and group (`CallersStay`), and only then: `moved` shows what happens otherwise.

The calendar is arithmetic over integers of either sign. `MCBroadcastCycleProofs`
carries what `BroadcastCycleProofs` proves of division and of local time to the
state machine, where `ClockOK` says that the publication comes first, then the
confirmation if there is one, then now, and that a confirmation on its way (`draft`)
excludes a committed one. The verdict needs no more: it compares a stamp, which was
not in the future when it was taken, with the deadline.

For `Sessions` the rows alone are not inductive either: whether a renewal is
right depends on the copy it was decided on. `PrincipalsOK` says that a copy,
however old, agrees with its row on the creation, was not
revoked when it was taken, and has an expiry the session may have (`CopyOK`);
that the clock of an authentication is not before its login's (`SinceLogin`),
without which a renewal could shorten the session; and that what a request has
stored or answered fits the step it is at (`CourseOK`). Each step moves one
request (`Moves`) and keeps what is right for every stored session (`Keeps`):
creation, revocation, grant, and the bounds of the expiry. The other invariants
add to it that a served request's session was let in (`LetInOK`) and that a
handler's steps belong to its call (`HandlersOK`). `ChosenPasswordStands` is
false where a hash can be outdated, as `rehash` shows. What is proved is that this
is the only reason: an account whose hash was fresh to begin with keeps one, no
login rehashes it (`FreshOK`), and then only a change or a reset writes the
column, with what is `chosen`.

For `Groups`, that no cycle closes while no walk is overtaken rests on what a
walk has passed: unless `skewed`, the groups a reparenting has seen
form a set closed under parents as far as the walk has come, and do not contain
the group to be moved; so the new edge leads into a part of the forest from
which no path comes back. Types are proved one call at a time: a step moves one
request, and the tables as the few writing actions say.

For `Permissions`, `WindowsSound` is not inductive: an update on its way carries
a window that was sound with the row it has loaded. `WillBeSound` adds
that what it will write either fits the row as it is, or the row has been changed
at the other end meanwhile, which is when `crossed` records it.
An evaluation is followed by what it has read: `Torn` says that each part was in
the tables at an instant `witnessed` remembers, so that every bit of the mask has
a source, and no bit is missing that was granted throughout. `Single` says more
while there was one write at most: without a write the tables are as the
evaluation has seen them, and after one, what it has read is what they were
before or what they are since. As a write changes one table, some instant
explains all parts together.

For `Feed`, the three promises of an answer rest on one invariant, `FeedOK`, of the
board and of each request in its course: a target has one confirmation and a parent
its thread (`BoardOK`); what has been made up is still true and can only be
outgrown, since rows are never changed and the clock is never set back (`ShownOK`);
the page is cut to a group the student had and so are the items (`ScopeOK`, which
says of the account a feed has loaded that type and group are ones it had, and of its
mask the same only while there was one write at most); the
page holds nothing of another week and a whole list everything there was
(`ListOK`, by counting: a listing of distinct elements as long as the set leaves
none out); and a reader who comes after another has read every confirmation the
first has shown (`AfterOK`). A step changes one request (`OthersStay`), the tables
or the clock (`AllStay`); `RequestStays` and `AfterStays` carry what is right of all
others over a step, and each handler's step has a lemma of its own.

`PagesSkipNothing` is a matter of counting: behind a first page stand as many
broadcasts as it holds, and of a listing that ends with the next page fewer than
`offset` come before anything that is left out (`CutTo`, kept by every step as
`AllCut`). A broadcast published in between stands before all of these; so what the
second page leaves out at its beginning the first has shown.

For `Deployment` the argument is about locks, since nothing else keeps two
transactions apart. `Base` is the common part: no two transactions hold
conflicting locks (`Mutex`); the tables of what a transaction has executed stay
locked until it ends (`Kept`); and from the moment a migration has found its
revision, nobody else changes it (`Stamped`). `RepliesOK` is about the data: it is
what the schema allows (`DataOK`), what a writer has prepared fits the schema it
holds on to (`WriterOK`), and what an upgrade over 0006 or 0007 has found out of
the replies holds until it ends, as it locks the table before it looks
(`UpgradeOK`). `SeedsOK` says which rows exist together, that two seeds never
both prepare a row with a key that forbids it (`Apart`), and what a seed has found
or inserted so far (`SeedOK`). Seeds alone never deadlock, as they insert in one
order: among some that wait for each other, the one furthest on (found by
`Smallest`, the least-number principle) would wait for one further still. A
migration passes at most seven revisions, so which statements it still has before
it is proved by cases.

Only model-checked: liveness, that is `EveryRequestAnswered` of `Broadcasts`,
`Sessions` and `Groups` and `EveryCommandEnds` of `Deployment`. They rest on
fairness and on `ENABLED`, which the prover cannot reason about.
`MutationAnswersItsTarget` and `ChosenPasswordStands` are proved under the
condition in their theorems and refuted without it by `moved` and `rehash`.

## Not modelled

- Configuration, engine construction, route loading, the root route: start-up
  code without state of its own.
- Hashing, tokens, cookies' own lifetime, response layout, capabilities in answers.
- Creating accounts, positions and roles, and renaming them: a row and a unique
  key, no decision on an earlier read.
- `BroadcastService.list`, `status`, `list_thread`, `list_for_account` and other
  reads that no route calls and that change nothing.
- `last_used_at`, an audit column.
- Migrations 0001 to 0003 downwards, which drop all the data, and the columns a
  migration creates without a decision.
