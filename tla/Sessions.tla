------------------------------- MODULE Sessions -------------------------------
(***************************************************************************)
(* Cookie sessions, login and the requests on one's own account:           *)
(*   src/routes/auth.py          login, get_current_principal, logout, me  *)
(*   src/routes/user.py          profile and password change               *)
(*   src/database/service.py     SessionService and AccountService         *)
(*                                                                         *)
(* A request keeps the rows it has loaded in the identity map of its own   *)
(* database session, and later reads of the same rows by key come from     *)
(* there: it decides on copies.  When it writes, the ORM updates only the  *)
(* columns that differ from the copy.  A request whose transaction is one  *)
(* statement and its commit takes one action; the password change, which   *)
(* updates two tables in one transaction, holds the locks of the rows it   *)
(* has updated from one action to the next.                                *)
(***************************************************************************)
EXTENDS Integers

CONSTANTS
    Request,          \* HTTP requests, each served once
    InitialToken,     \* sessions that exist from the start
    Account,
    Password,
    Name,             \* display names
    NoSession,        \* no row with this token hash
    SessionTTL,       \* AUTH_SESSION_TTL_HOURS
    ForceTTL,         \* AUTH_SESSION_FORCE_TTL_HOURS
    RenewalWindow,    \* AUTH_SESSION_RENEWAL_WINDOW_HOURS
    InitialAccounts,
    InitialOwner,     \* the account of each initial session
    Offered,          \* the calls clients make
    MaxTime,          \* bound on the clock
    MaxChanges        \* bound on administrative changes

VARIABLES
    accounts,       \* account -> its row
    sessions,       \* token -> its row, or NoSession
    now,            \* the clock of server and database
    changes,        \* administrative changes so far
    pc,             \* request -> the next step of its handler
    call,           \* request -> what was asked
    at,             \* request -> the clock it remembers
    mySession,      \* request -> its copy of the session row
    myAccount,      \* request -> its copy of the account row
    swept,          \* request -> the sessions its password change revokes
    answer,         \* request -> the status of the response
    granted,        \* token -> the expiry that login announced
    chosen,         \* account -> the password last set for it on purpose
    committed,      \* the requests whose writes were committed
    revokedBefore   \* request -> the sessions revoked before it began

rows == <<accounts, sessions>>
history == <<granted, chosen, committed, revokedBefore>>
copies == <<mySession, myAccount, swept>>
vars == <<rows, now, changes, pc, call, at, copies, answer, history>>

-----------------------------------------------------------------------------
\* A login's token is new and its alone, so the request names it.
Token == Request \union InitialToken

\* A hash of some password, fresh unless check_needs_rehash finds it outdated.
Hash == [of : Password, fresh : BOOLEAN]

AccountRow ==
    [status : {"active", "inactive", "deleted"}, hash : Hash, name : Name]

SessionRow == [account : Account, created : Nat, expires : Nat, revoked : BOOLEAN]

Op == {"login", "me", "logout", "profile", "password"}

\* password: what login or a change proves; new and name: what is to be set.
Offer == [op : Op, account : Account, password : Password, new : Password, name : Name]

Call ==
    [op : Op, account : Account, password : Password, new : Password, name : Name,
     token : Token]

NoCall == [op |-> "none"]
NoCopy == [status |-> "none"]

LoginSteps == {"lookup", "rehash", "refresh", "insert"}
PrincipalSteps == {"session", "account", "touch"}
ServedSteps == {"revoke", "profile", "change", "sweep", "commit"}

Status == {"none", "ok", "unauthorized", "conflict", "failed", "lost"}

ASSUME SessionsAssumption ==
    /\ Request \intersect InitialToken = {}
    /\ NoSession \notin SessionRow
    /\ SessionTTL \in Nat \ {0}
    /\ ForceTTL \in Nat \ {0}
    /\ RenewalWindow \in Nat \ {0}
    /\ InitialAccounts \in [Account -> AccountRow]
    /\ InitialOwner \in [InitialToken -> Account]
    /\ \A k \in InitialToken : InitialAccounts[InitialOwner[k]].status # "deleted"
    /\ InitialToken # {} => SessionTTL <= ForceTTL
    /\ Offered \subseteq Offer
    /\ MaxTime \in Nat
    /\ MaxChanges \in Nat

Running == {r \in Request : pc[r] \notin {"idle", "done"}}

Stored(k) == sessions[k] # NoSession

\* A served request has the account it acts on at hand, and a copy of the
\* session that let it in; a sweep is of sessions that exist.
\* (AuthenticatedPrincipal)
Bound(r) ==
    /\ call[r] \in Call
    /\ pc[r] \in LoginSteps => call[r].op = "login" /\ call[r].token = r
    /\ pc[r] \in {"rehash", "touch"} \union ServedSteps => myAccount[r] \in AccountRow
    /\ pc[r] \in {"account", "touch"} \union ServedSteps => mySession[r] \in SessionRow
    /\ pc[r] \in PrincipalSteps \union ServedSteps => Stored(call[r].token)
    /\ pc[r] = "commit" => \A k \in swept[r] : Stored(k)

TypeOK ==
    /\ accounts \in [Account -> AccountRow]
    /\ sessions \in [Token -> SessionRow \union {NoSession}]
    /\ now \in Nat
    /\ changes \in Nat
    /\ pc \in [Request -> {"idle", "respond", "done"} \union LoginSteps
                             \union PrincipalSteps \union ServedSteps]
    /\ call \in [Request -> Call \union {NoCall}]
    /\ at \in [Request -> Nat]
    /\ mySession \in [Request -> SessionRow \union {NoSession}]
    /\ myAccount \in [Request -> AccountRow \union {NoCopy}]
    /\ swept \in [Request -> SUBSET Token]
    /\ answer \in [Request -> Status]
    /\ granted \in [Token -> Nat]
    /\ chosen \in [Account -> Password]
    /\ committed \subseteq Request
    /\ revokedBefore \in [Request -> SUBSET Token]
    /\ \A r \in Running : Bound(r)

Init ==
    /\ accounts = InitialAccounts
    /\ sessions = [k \in Token |->
          IF k \in InitialToken
          THEN [account |-> InitialOwner[k], created |-> 0, expires |-> SessionTTL,
                revoked |-> FALSE]
          ELSE NoSession]
    /\ now = 0
    /\ changes = 0
    /\ pc = [r \in Request |-> "idle"]
    /\ call = [r \in Request |-> NoCall]
    /\ at = [r \in Request |-> 0]
    /\ mySession = [r \in Request |-> NoSession]
    /\ myAccount = [r \in Request |-> NoCopy]
    /\ swept = [r \in Request |-> {}]
    /\ answer = [r \in Request |-> "none"]
    /\ granted = [k \in Token |-> IF k \in InitialToken THEN SessionTTL ELSE 0]
    /\ chosen = [a \in Account |-> InitialAccounts[a].hash.of]
    /\ committed = {}
    /\ revokedBefore = [r \in Request |-> {}]

-----------------------------------------------------------------------------
(* The database: row locks and what a flush writes. *)

\* Slip: the lock outlives a transaction that was cut off.
AccountLockedForever(a) ==
    \E q \in Request :
        /\ call[q] # NoCall /\ call[q].op = "password" /\ call[q].account = a
        /\ pc[q] \in {"sweep", "commit"} \/ answer[q] = "lost"

\* An uncommitted password change has updated the account's row.
AccountLocked(a) ==
    \E q \in Request : pc[q] \in {"sweep", "commit"} /\ call[q].account = a

\* ... and has revoked this session.
SessionLocked(k) ==
    /\ ~sessions[k].revoked
    /\ \E q \in Request : pc[q] = "commit" /\ k \in swept[q]

\* A column is written only if it was changed in the copy.
Written(stored, copy, new) == IF new = copy THEN stored ELSE new

\* Slip: every column is written back from the copy.
MergeSessionSlip(row, copy, new) == new

MergeSession(row, copy, new) ==
    [account |-> row.account,
     created |-> row.created,
     expires |-> Written(row.expires, copy.expires, new.expires),
     revoked |-> Written(row.revoked, copy.revoked, new.revoked)]

\* Slip: likewise.
MergeAccountSlip(row, copy, new) == new

MergeAccount(row, copy, new) ==
    [status |-> Written(row.status, copy.status, new.status),
     hash   |-> Written(row.hash, copy.hash, new.hash),
     name   |-> Written(row.name, copy.name, new.name)]

WithExpiry(s, e) ==
    [account |-> s.account, created |-> s.created, expires |-> e, revoked |-> s.revoked]

Revoked(s) ==
    [account |-> s.account, created |-> s.created, expires |-> s.expires, revoked |-> TRUE]

WithHash(a, h) == [status |-> a.status, hash |-> h, name |-> a.name]
WithName(a, n) == [status |-> a.status, hash |-> a.hash, name |-> n]
WithStatus(a, s) == [status |-> s, hash |-> a.hash, name |-> a.name]

NewHash(p) == [of |-> p, fresh |-> TRUE]

SessionsOf(a) == {k \in Token : Stored(k) /\ sessions[k].account = a}

-----------------------------------------------------------------------------
(* The course of a request. *)

Advance(r, step, t) ==
    /\ pc' = [pc EXCEPT ![r] = step]
    /\ at' = [at EXCEPT ![r] = t]
    /\ UNCHANGED answer

\* The handler returns or raises, and its database session is closed.
Finish(r, status) ==
    /\ pc' = [pc EXCEPT ![r] = "done"]
    /\ answer' = [answer EXCEPT ![r] = status]
    /\ UNCHANGED at

\* The tokens clients have: a login hands out its token with its answer.
HeldTokens ==
    InitialToken \union
        {r \in Request : call[r] # NoCall /\ call[r].op = "login" /\ answer[r] = "ok"}

Begin(r) ==
    /\ pc[r] = "idle"
    /\ \E o \in Offered, k \in Token :
         /\ IF o.op = "login" THEN k = r
            ELSE k \in HeldTokens /\ Stored(k) /\ sessions[k].account = o.account
         /\ call' = [call EXCEPT ![r] =
               [op |-> o.op, account |-> o.account, password |-> o.password,
                new |-> o.new, name |-> o.name, token |-> k]]
         /\ Advance(r, IF o.op = "login" THEN "lookup" ELSE "session", now)
    /\ revokedBefore' = [revokedBefore EXCEPT ![r] =
          {k \in Token : Stored(k) /\ sessions[k].revoked}]
    /\ UNCHANGED <<rows, now, changes, copies, granted, chosen, committed>>

Respond(r) ==
    /\ pc[r] = "respond"
    /\ Finish(r, "ok")
    /\ UNCHANGED <<rows, now, changes, call, copies, history>>

-----------------------------------------------------------------------------
(* POST /auth/login *)

\* The account is looked up, in a transaction that starts here, and the password
\* verified against the copy; the insert below still belongs to the transaction.
LoginLookup(r) ==
    /\ pc[r] = "lookup"
    /\ LET row == accounts[call[r].account]
       IN  IF row.status = "active" /\ row.hash.of = call[r].password
           THEN /\ myAccount' = [myAccount EXCEPT ![r] = row]
                /\ Advance(r, IF row.hash.fresh THEN "insert" ELSE "rehash", now)
           ELSE Finish(r, "unauthorized") /\ UNCHANGED myAccount
    /\ UNCHANGED <<rows, now, changes, call, mySession, swept, history>>

\* An outdated hash is replaced by a new one of the password that was proved.
LoginRehash(r) ==
    /\ pc[r] = "rehash"
    /\ ~AccountLocked(call[r].account)
    /\ IF accounts[call[r].account].status = "deleted"
       THEN Finish(r, "failed") /\ UNCHANGED accounts
       ELSE /\ accounts' = [accounts EXCEPT ![call[r].account] =
                  MergeAccount(@, myAccount[r],
                               WithHash(myAccount[r], NewHash(call[r].password)))]
            /\ Advance(r, "refresh", at[r])
    /\ UNCHANGED <<sessions, now, changes, call, copies, history>>

\* _commit_and_refresh reads the row again, in a new transaction.
LoginRefresh(r) ==
    /\ pc[r] = "refresh"
    /\ IF accounts[call[r].account].status = "deleted"
       THEN Finish(r, "failed")
       ELSE Advance(r, "insert", now)
    /\ UNCHANGED <<rows, now, changes, call, copies, history>>

\* Slip: no foreign key to the account.
LoginInsertSlip(r) ==
    /\ pc[r] = "insert"
    /\ sessions' = [sessions EXCEPT ![r] =
          [account |-> call[r].account, created |-> at[r],
           expires |-> now + SessionTTL, revoked |-> FALSE]]
    /\ granted' = [granted EXCEPT ![r] = now + SessionTTL]
    /\ committed' = committed \union {r}
    /\ Advance(r, "respond", at[r])
    /\ UNCHANGED <<accounts, now, changes, call, copies, chosen, revokedBefore>>

\* SessionService.create.  created_at is the start of the transaction, which is
\* earlier than the clock the expiry is counted from.
LoginInsert(r) ==
    /\ pc[r] = "insert"
    /\ IF ForceTTL < SessionTTL
       THEN Finish(r, "failed") /\ UNCHANGED <<sessions, granted, committed>>
       ELSE IF accounts[call[r].account].status = "deleted"
       THEN Finish(r, "conflict") /\ UNCHANGED <<sessions, granted, committed>>
       ELSE /\ \E t \in at[r] .. now :
                 /\ sessions' = [sessions EXCEPT ![r] =
                       [account |-> call[r].account, created |-> at[r],
                        expires |-> t + SessionTTL, revoked |-> FALSE]]
                 /\ granted' = [granted EXCEPT ![r] = t + SessionTTL]
            /\ committed' = committed \union {r}
            /\ Advance(r, "respond", at[r])
    /\ UNCHANGED <<accounts, now, changes, call, copies, chosen, revokedBefore>>

-----------------------------------------------------------------------------
(* get_current_principal *)

\* _session_force_expires_at
ForceEnd(s) == s.created + ForceTTL

\* Slip: only the expiry counts.
LiveSlip(s, t) == ~s.revoked /\ s.expires > t

Live(s, t) == ~s.revoked /\ s.expires > t /\ ForceEnd(s) > t

\* Slip: the handler goes on without the account.
SelectSessionSlip(r) ==
    /\ pc[r] = "session"
    /\ IF Live(sessions[call[r].token], at[r])
       THEN /\ mySession' = [mySession EXCEPT ![r] = sessions[call[r].token]]
            /\ Advance(r, "touch", now)
       ELSE Finish(r, "unauthorized") /\ UNCHANGED mySession
    /\ UNCHANGED <<rows, now, changes, call, myAccount, swept, history>>

\* get_active_by_token_hash: the row as it is now, the clock as the handler read
\* it before the statement.
SelectSession(r) ==
    /\ pc[r] = "session"
    /\ IF Live(sessions[call[r].token], at[r])
       THEN /\ mySession' = [mySession EXCEPT ![r] = sessions[call[r].token]]
            /\ Advance(r, "account", at[r])
       ELSE Finish(r, "unauthorized") /\ UNCHANGED mySession
    /\ UNCHANGED <<rows, now, changes, call, myAccount, swept, history>>

LoadAccount(r) ==
    /\ pc[r] = "account"
    /\ LET row == accounts[call[r].account]
       IN  IF row.status = "active"
           THEN /\ myAccount' = [myAccount EXCEPT ![r] = row]
                /\ Advance(r, "touch", now)
           ELSE Finish(r, "unauthorized") /\ UNCHANGED myAccount
    /\ UNCHANGED <<rows, now, changes, call, mySession, swept, history>>

Renews(s, t) == s.expires - t <= RenewalWindow /\ s.expires < ForceEnd(s)

\* Slip: the forced end is forgotten.
RenewedExpirySlip(s, t) == t + SessionTTL

RenewedExpiry(s, t) ==
    IF t + SessionTTL <= ForceEnd(s) THEN t + SessionTTL ELSE ForceEnd(s)

AfterTouch(op) ==
    IF op = "logout" THEN "revoke"
    ELSE IF op = "profile" THEN "profile"
    ELSE IF op = "password" THEN "change"
    ELSE "respond"

\* SessionService.touch: decides on the copy, at a clock read after the account
\* was loaded, and writes the renewed expiry once the row can be updated.
Touch(r) ==
    /\ pc[r] = "touch"
    /\ \E t \in at[r] .. now :
         LET s == mySession[r]
             renewed == WithExpiry(s, RenewedExpiry(s, t))
         IN  IF ~Live(s, t)
             THEN Finish(r, "unauthorized") /\ UNCHANGED <<sessions, mySession>>
             ELSE /\ IF Renews(s, t)
                     THEN /\ ~SessionLocked(call[r].token)
                          /\ sessions' = [sessions EXCEPT ![call[r].token] =
                                MergeSession(@, s, renewed)]
                          /\ mySession' = [mySession EXCEPT ![r] = renewed]
                     ELSE UNCHANGED <<sessions, mySession>>
                  /\ Advance(r, AfterTouch(call[r].op), t)
    /\ UNCHANGED <<accounts, now, changes, call, myAccount, swept, history>>

-----------------------------------------------------------------------------
(* The handlers that write. *)

\* POST /auth/logout: SessionService.revoke on the copy.
Logout(r) ==
    /\ pc[r] = "revoke"
    /\ ~SessionLocked(call[r].token)
    /\ sessions' = [sessions EXCEPT ![call[r].token] =
          MergeSession(@, mySession[r], Revoked(mySession[r]))]
    /\ committed' = committed \union {r}
    /\ Advance(r, "respond", at[r])
    /\ UNCHANGED <<accounts, now, changes, call, copies, granted, chosen, revokedBefore>>

\* PATCH /users/me: AccountService.update of the display name on the copy.
UpdateProfile(r) ==
    /\ pc[r] = "profile"
    /\ call[r].name = myAccount[r].name \/ ~AccountLocked(call[r].account)
    /\ accounts' = [accounts EXCEPT ![call[r].account] =
          MergeAccount(@, myAccount[r], WithName(myAccount[r], call[r].name))]
    /\ committed' = committed \union {r}
    /\ Advance(r, "respond", at[r])
    /\ UNCHANGED <<sessions, now, changes, call, copies, granted, chosen, revokedBefore>>

\* PATCH /users/me/password: the current password is verified against the copy,
\* then one transaction updates the account,
ChangeFlush(r) ==
    /\ pc[r] = "change"
    /\ IF myAccount[r].hash.of # call[r].password
       THEN Finish(r, "unauthorized")
       ELSE ~AccountLocked(call[r].account) /\ Advance(r, "sweep", at[r])
    /\ UNCHANGED <<rows, now, changes, call, copies, history>>

\* revokes the sessions that are there to see,
ChangeSweep(r) ==
    /\ pc[r] = "sweep"
    /\ swept' = [swept EXCEPT ![r] = SessionsOf(call[r].account)]
    /\ Advance(r, "commit", at[r])
    /\ UNCHANGED <<rows, now, changes, call, mySession, myAccount, history>>

\* Slip: the account is committed on its own, the sessions are not.
ChangeCommitSlip(r) ==
    /\ pc[r] = "commit"
    /\ accounts' = [accounts EXCEPT ![call[r].account] = WithHash(@, NewHash(call[r].new))]
    /\ chosen' = [chosen EXCEPT ![call[r].account] = call[r].new]
    /\ committed' = committed \union {r}
    /\ Advance(r, "respond", at[r])
    /\ UNCHANGED <<sessions, now, changes, call, copies, granted, revokedBefore>>

\* and commits both.
ChangeCommit(r) ==
    /\ pc[r] = "commit"
    /\ accounts' = [accounts EXCEPT ![call[r].account] = WithHash(@, NewHash(call[r].new))]
    /\ sessions' = [k \in Token |->
          IF k \in swept[r] THEN Revoked(sessions[k]) ELSE sessions[k]]
    /\ chosen' = [chosen EXCEPT ![call[r].account] = call[r].new]
    /\ committed' = committed \union {r}
    /\ Advance(r, "respond", at[r])
    /\ UNCHANGED <<now, changes, call, copies, granted, revokedBefore>>

-----------------------------------------------------------------------------
(* What happens around the requests. *)

\* The worker dies or the connection drops; an open transaction rolls back.
Abort(r) ==
    /\ r \in Running
    /\ Finish(r, "lost")
    /\ UNCHANGED <<rows, now, changes, call, copies, history>>

Tick ==
    /\ now < MaxTime
    /\ now' = now + 1
    /\ UNCHANGED <<rows, changes, pc, call, at, copies, answer, history>>

Administer(a) ==
    /\ changes < MaxChanges
    /\ changes' = changes + 1
    /\ accounts[a].status # "deleted"

\* AccountService.update of is_active ...
SetStatus(a, status) ==
    /\ Administer(a)
    /\ ~AccountLocked(a)
    /\ accounts[a].status # status
    /\ accounts' = [accounts EXCEPT ![a] = WithStatus(@, status)]
    /\ UNCHANGED <<sessions, now, pc, call, at, copies, answer, history>>

\* ... and of password_hash, which leaves the sessions alone.
ResetPassword(a, p) ==
    /\ Administer(a)
    /\ ~AccountLocked(a)
    /\ accounts' = [accounts EXCEPT ![a] = WithHash(@, NewHash(p))]
    /\ chosen' = [chosen EXCEPT ![a] = p]
    /\ UNCHANGED <<sessions, now, pc, call, at, copies, answer, granted, committed,
                   revokedBefore>>

\* SessionService.revoke_all_for_account.
RevokeAll(a) ==
    /\ Administer(a)
    /\ \A k \in SessionsOf(a) : ~SessionLocked(k)
    /\ sessions' = [k \in Token |->
          IF k \in SessionsOf(a) THEN Revoked(sessions[k]) ELSE sessions[k]]
    /\ UNCHANGED <<accounts, now, pc, call, at, copies, answer, history>>

\* AccountService.delete: refused while a session refers to the account, by its
\* own check or by the foreign key.
DeleteAccount(a) ==
    /\ Administer(a)
    /\ SessionsOf(a) = {}
    /\ accounts' = [accounts EXCEPT ![a] = WithStatus(@, "deleted")]
    /\ UNCHANGED <<sessions, now, pc, call, at, copies, answer, history>>

Serve(r) ==
    \/ LoginLookup(r) \/ LoginRehash(r) \/ LoginRefresh(r) \/ LoginInsert(r)
    \/ SelectSession(r) \/ LoadAccount(r) \/ Touch(r)
    \/ Logout(r) \/ UpdateProfile(r)
    \/ ChangeFlush(r) \/ ChangeSweep(r) \/ ChangeCommit(r)
    \/ Respond(r)

Next ==
    \/ \E r \in Request : Begin(r) \/ Serve(r) \/ Abort(r)
    \/ Tick
    \/ \E a \in Account :
          \/ \E status \in {"active", "inactive"} : SetStatus(a, status)
          \/ \E p \in Password : ResetPassword(a, p)
          \/ RevokeAll(a)
          \/ DeleteAccount(a)

Spec == Init /\ [][Next]_vars

\* The event loop runs every coroutine that can go on, and the database grants
\* a released lock.
FairSpec == Spec /\ \A r \in Request : WF_vars(Serve(r))

-----------------------------------------------------------------------------
\* Logout, password change and administrators revoke for good: no renewal that
\* was decided on an older copy brings a session back.
\* (touch, revoke, revoke_all_for_account_without_commit)
RevokedIsFinal ==
    [][ \A k \in Token :
          Stored(k) /\ sessions[k].revoked => sessions'[k] # NoSession /\ sessions'[k].revoked
      ]_vars

Authenticated(r) ==
    \/ pc[r] \in ServedSteps
    \/ pc[r] = "respond" /\ call[r].op # "login"
    \/ answer[r] = "ok" /\ call[r].op # "login"

\* A request is served only by a session that was not revoked before the request
\* began and whose forced end had not come when it was touched, however often
\* and by whomever the session was renewed.
\* (get_active_by_token_hash, touch, _session_force_expires_at)
EndedSessionsServeNobody ==
    \A r \in Request : Authenticated(r) =>
        /\ call[r].token \notin revokedBefore[r]
        /\ at[r] < ForceEnd(sessions[call[r].token])

WithinGrant(k, s) ==
    /\ granted[k] <= s.expires
    /\ s.expires <= granted[k] \/ s.expires <= ForceEnd(s)

\* Renewals that commit in any order leave a session no shorter than its login
\* announced, and renew it to no later than its forced end.  (login, touch)
ExpiryWithinGrant == \A k \in Token : Stored(k) => WithinGrant(k, sessions[k])

Ends(r, k) ==
    \/ call[r].op = "logout" /\ call[r].token = k
    \/ call[r].op = "password" /\ k \in swept[r]

\* A committed password change has ended every session its sweep could see,
\* whatever renewals were under way, and one that was cut off has ended none:
\* unless administrators interfere, a session is revoked exactly if a committed
\* request was to end it.  (update_password, "this atomic use case"; logout)
ChangeEndsSessions ==
    \A k \in Token : Stored(k) =>
        /\ (\E r \in committed : Ends(r, k)) => sessions[k].revoked
        /\ sessions[k].revoked => changes > 0 \/ \E r \in committed : Ends(r, k)

\* The stored password is the one that was last set on purpose: neither a profile
\* update from an older copy nor anything else puts another one back.
\* (update_password, update_profile, login)
ChosenPasswordStands ==
    \A a \in Account : accounts[a].hash.of = chosen[a]

\* No session is left without its account, although the account is looked up
\* long before the session is inserted.  (login, AccountService.delete)
SessionsHaveAccounts ==
    \A k \in Token : Stored(k) => accounts[sessions[k].account].status # "deleted"

-----------------------------------------------------------------------------
(* Why these hold: what a request knows about the session it acts on. *)

\* A request has committed or been answered only at its end, a login's session is
\* stored by nobody else, and no clock is remembered from the future.
CourseOK(r) ==
    /\ pc[r] = "idle" => answer[r] = "none"
    /\ answer[r] # "none" => pc[r] = "done"
    /\ r \in committed => pc[r] \in {"respond", "done"}
    /\ Stored(r) => r \in committed
    /\ at[r] <= now

\* The copy may be behind its row, but it agrees with the row on what never
\* changes, and its expiry is one the session may have.
CopyOK(r) ==
    pc[r] \in {"account", "touch"} \union ServedSteps =>
        /\ ~mySession[r].revoked
        /\ mySession[r].created = sessions[call[r].token].created
        /\ WithinGrant(call[r].token, mySession[r])
        /\ call[r].token \notin revokedBefore[r]

\* The clock of an authentication is not before that of the login.
SinceLogin(r) ==
    pc[r] \in PrincipalSteps => granted[call[r].token] <= at[r] + SessionTTL

\* The inductive invariant: what is decided on copies is right for the rows.
\* (get_current_principal, touch, revoke)
PrincipalsOK ==
    /\ \A k \in Token : Stored(k) =>
          granted[k] <= now + SessionTTL /\ WithinGrant(k, sessions[k])
    /\ \A r \in Request :
          /\ CourseOK(r) /\ CopyOK(r) /\ SinceLogin(r)
          /\ \A k \in revokedBefore[r] : Stored(k) /\ sessions[k].revoked

\* Every request is answered: writers of a row that a password change holds are
\* let through by its commit or rollback.
EveryRequestAnswered ==
    \A r \in Request : (pc[r] # "idle") ~> (pc[r] = "done")
=============================================================================
