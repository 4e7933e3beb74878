---------------------------- MODULE SessionsProofs ----------------------------
(***************************************************************************)
(* Sessions for any number of requests, accounts and sessions, any         *)
(* lifetimes, calls and administrative changes.                            *)
(***************************************************************************)
EXTENDS Sessions, TLAPS

-----------------------------------------------------------------------------
(* Rows stay rows. *)

LEMMA MergeSessionType ==
    ASSUME NEW row \in SessionRow, NEW copy \in SessionRow, NEW new \in SessionRow
    PROVE  MergeSession(row, copy, new) \in SessionRow
BY DEF MergeSession, SessionRow, Written

LEMMA MergeAccountType ==
    ASSUME NEW row \in AccountRow, NEW copy \in AccountRow, NEW new \in AccountRow
    PROVE  MergeAccount(row, copy, new) \in AccountRow
BY DEF MergeAccount, AccountRow, Written

LEMMA SessionRowTypes ==
    ASSUME NEW s \in SessionRow
    PROVE  /\ Revoked(s) \in SessionRow
           /\ \A e \in Nat : WithExpiry(s, e) \in SessionRow
           /\ s.expires \in Nat /\ s.created \in Nat /\ s.revoked \in BOOLEAN
           /\ s.account \in Account
BY DEF SessionRow, Revoked, WithExpiry

LEMMA AccountRowTypes ==
    ASSUME NEW a \in AccountRow
    PROVE  /\ \A h \in Hash : WithHash(a, h) \in AccountRow
           /\ \A n \in Name : WithName(a, n) \in AccountRow
           /\ \A s \in {"active", "inactive", "deleted"} : WithStatus(a, s) \in AccountRow
           /\ a.hash \in Hash /\ a.hash.of \in Password
BY DEF AccountRow, Hash, WithHash, WithName, WithStatus

LEMMA NewHashType == ASSUME NEW p \in Password PROVE NewHash(p) \in Hash /\ NewHash(p).of = p
BY DEF NewHash, Hash

LEMMA RenewedExpiryType ==
    ASSUME NEW s \in SessionRow, NEW t \in Nat
    PROVE  RenewedExpiry(s, t) \in Nat
BY SessionsAssumption DEF RenewedExpiry, ForceEnd, SessionRow

LEMMA CallTypes ==
    ASSUME NEW c \in Call
    PROVE  /\ c.op \in Op /\ c.account \in Account /\ c.password \in Password
           /\ c.new \in Password /\ c.name \in Name /\ c.token \in Token
BY DEF Call

-----------------------------------------------------------------------------
(* One request moves at a time. *)

PC == {"idle", "respond", "done"} \union LoginSteps \union PrincipalSteps
         \union ServedSteps

SessionsStay == \A k \in Token : Stored(k) => sessions'[k] # NoSession

OnlyMoves(r) ==
    /\ \A q \in Request \ {r} :
          /\ pc'[q] = pc[q] /\ call'[q] = call[q] /\ swept'[q] = swept[q]
          /\ mySession'[q] = mySession[q] /\ myAccount'[q] = myAccount[q]
    /\ SessionsStay

LEMMA AdvanceType ==
    ASSUME TypeOK, NEW r \in Request, NEW step \in PC, NEW t \in Nat, Advance(r, step, t)
    PROVE  /\ pc' \in [Request -> PC] /\ at' \in [Request -> Nat]
           /\ answer' \in [Request -> Status]
           /\ pc'[r] = step /\ at'[r] = t
           /\ \A q \in Request \ {r} : pc'[q] = pc[q] /\ at'[q] = at[q]
BY DEF TypeOK, Advance, PC

LEMMA FinishType ==
    ASSUME TypeOK, NEW r \in Request, NEW status \in Status, Finish(r, status)
    PROVE  /\ pc' \in [Request -> PC] /\ at' \in [Request -> Nat]
           /\ answer' \in [Request -> Status]
           /\ pc'[r] = "done" /\ answer'[r] = status
           /\ \A q \in Request \ {r} : pc'[q] = pc[q] /\ answer'[q] = answer[q]
BY DEF TypeOK, Finish, PC

\* What is bound to a request that does not move stays bound.
LEMMA OthersStayBound ==
    ASSUME TypeOK, NEW r \in Request, OnlyMoves(r),
           NEW q \in Request \ {r}, pc'[q] \notin {"idle", "done"}
    PROVE  Bound(q)'
<1>1. Bound(q)
  BY DEF TypeOK, Running, OnlyMoves
<1>2. /\ pc'[q] = pc[q] /\ call'[q] = call[q] /\ swept'[q] = swept[q]
      /\ mySession'[q] = mySession[q] /\ myAccount'[q] = myAccount[q]
  BY DEF OnlyMoves
<1>3. pc[q] \in PrincipalSteps \union ServedSteps => Stored(call[q].token)'
  BY <1>1, <1>2, CallTypes DEF Bound, OnlyMoves, SessionsStay, Stored
<1>4. pc[q] = "commit" => \A k \in swept[q] : Stored(k)'
  <2>1. swept[q] \subseteq Token
    BY DEF TypeOK
  <2> QED
    BY <1>1, <2>1 DEF Bound, OnlyMoves, SessionsStay, Stored
<1> QED
  BY <1>1, <1>2, <1>3, <1>4 DEF Bound

LEMMA RowsType ==
    ASSUME TypeOK, NEW r \in Request, OnlyMoves(r),
           accounts' \in [Account -> AccountRow],
           sessions' \in [Token -> SessionRow \union {NoSession}],
           UNCHANGED <<now, changes>>,
           pc' \in [Request -> PC], call' \in [Request -> Call \union {NoCall}],
           at' \in [Request -> Nat],
           mySession' \in [Request -> SessionRow \union {NoSession}],
           myAccount' \in [Request -> AccountRow \union {NoCopy}],
           swept' \in [Request -> SUBSET Token],
           answer' \in [Request -> Status],
           granted' \in [Token -> Nat], chosen' \in [Account -> Password],
           committed' \subseteq Request,
           revokedBefore' \in [Request -> SUBSET Token],
           pc'[r] \notin {"idle", "done"} => Bound(r)'
    PROVE  TypeOK'
<1>1. \A q \in Running' : Bound(q)'
  BY OthersStayBound DEF Running
<1> QED
  BY <1>1 DEF TypeOK, PC

\* A step that writes nothing shared.
LEMMA LocalType ==
    ASSUME TypeOK, NEW r \in Request,
           UNCHANGED <<rows, now, changes, call, history>>,
           pc' \in [Request -> PC], at' \in [Request -> Nat],
           answer' \in [Request -> Status],
           mySession' \in [Request -> SessionRow \union {NoSession}],
           myAccount' \in [Request -> AccountRow \union {NoCopy}],
           swept' \in [Request -> SUBSET Token],
           \A q \in Request \ {r} :
              /\ pc'[q] = pc[q] /\ swept'[q] = swept[q]
              /\ mySession'[q] = mySession[q] /\ myAccount'[q] = myAccount[q],
           pc'[r] \notin {"idle", "done"} => Bound(r)'
    PROVE  TypeOK'
<1>1. OnlyMoves(r)
  BY DEF OnlyMoves, SessionsStay, Stored, rows
<1>2. /\ accounts' \in [Account -> AccountRow]
      /\ sessions' \in [Token -> SessionRow \union {NoSession}]
      /\ call' \in [Request -> Call \union {NoCall}]
      /\ granted' \in [Token -> Nat] /\ chosen' \in [Account -> Password]
      /\ committed' \subseteq Request
      /\ revokedBefore' \in [Request -> SUBSET Token]
  BY DEF TypeOK, rows, history
<1> QED
  BY <1>1, <1>2, RowsType

-----------------------------------------------------------------------------
(* Types, one handler after the other. *)

LEMMA RunningBound ==
    ASSUME TypeOK, NEW r \in Request, pc[r] \notin {"idle", "done"}
    PROVE  Bound(r) /\ call[r] \in Call
BY DEF TypeOK, Running, Bound

LEMMA BeginType == ASSUME TypeOK, NEW r \in Request, Begin(r) PROVE TypeOK'
<1>1. PICK o \in Offered, k \in Token :
         /\ IF o.op = "login" THEN k = r
            ELSE k \in HeldTokens /\ Stored(k) /\ sessions[k].account = o.account
         /\ call' = [call EXCEPT ![r] =
               [op |-> o.op, account |-> o.account, password |-> o.password,
                new |-> o.new, name |-> o.name, token |-> k]]
         /\ Advance(r, IF o.op = "login" THEN "lookup" ELSE "session", now)
  BY DEF Begin
<1> DEFINE step == IF o.op = "login" THEN "lookup" ELSE "session"
<1>2. step \in PC /\ now \in Nat
  BY DEF PC, LoginSteps, PrincipalSteps, TypeOK
<1>3. /\ pc' \in [Request -> PC] /\ at' \in [Request -> Nat]
      /\ answer' \in [Request -> Status] /\ pc'[r] = step
      /\ \A q \in Request \ {r} : pc'[q] = pc[q]
  BY <1>1, <1>2, AdvanceType
<1>4. [op |-> o.op, account |-> o.account, password |-> o.password,
       new |-> o.new, name |-> o.name, token |-> k] \in Call
  BY SessionsAssumption DEF Offer, Call
<1>5. /\ call' \in [Request -> Call \union {NoCall}] /\ call'[r] \in Call
      /\ call'[r].op = o.op /\ call'[r].token = k
      /\ \A q \in Request \ {r} : call'[q] = call[q]
  BY <1>1, <1>4 DEF TypeOK
<1>6. Bound(r)'
  <2>1. CASE o.op = "login"
    BY <1>1, <1>3, <1>5, <2>1
    DEF Bound, LoginSteps, PrincipalSteps, ServedSteps
  <2>2. CASE o.op # "login"
    BY <1>1, <1>3, <1>5, <2>2
    DEF Bound, LoginSteps, PrincipalSteps, ServedSteps, Stored, Begin, rows
  <2> QED
    BY <2>1, <2>2
<1>7. OnlyMoves(r)
  BY <1>3, <1>5 DEF OnlyMoves, Begin, copies, rows, SessionsStay, Stored
<1>8. revokedBefore' \in [Request -> SUBSET Token]
  <2>1. {j \in Token : Stored(j) /\ sessions[j].revoked} \in SUBSET Token
    OBVIOUS
  <2> QED
    BY <2>1 DEF Begin, TypeOK
<1> QED
  <2>1. /\ accounts' \in [Account -> AccountRow]
        /\ sessions' \in [Token -> SessionRow \union {NoSession}]
        /\ mySession' \in [Request -> SessionRow \union {NoSession}]
        /\ myAccount' \in [Request -> AccountRow \union {NoCopy}]
        /\ swept' \in [Request -> SUBSET Token]
        /\ granted' \in [Token -> Nat] /\ chosen' \in [Account -> Password]
        /\ committed' \subseteq Request
        /\ UNCHANGED <<now, changes>>
    BY DEF Begin, TypeOK, rows, copies
  <2> QED
    BY <1>3, <1>5, <1>6, <1>7, <1>8, <2>1, RowsType

\* Steps that end at "done" or "respond" have nothing more to bind.
LEMMA RespondBound ==
    ASSUME TypeOK, NEW r \in Request, pc[r] \notin {"idle", "done"},
           pc'[r] = "respond", call'[r] = call[r]
    PROVE  Bound(r)'
BY RunningBound DEF Bound, LoginSteps, PrincipalSteps, ServedSteps

LEMMA LoginLookupType == ASSUME TypeOK, NEW r \in Request, LoginLookup(r) PROVE TypeOK'
<1> DEFINE row == accounts[call[r].account]
<1>1. call[r] \in Call /\ Bound(r) /\ row \in AccountRow /\ now \in Nat
  BY RunningBound, CallTypes DEF LoginLookup, TypeOK
<1>2. UNCHANGED <<rows, now, changes, call, history, mySession, swept>>
  BY DEF LoginLookup
<1>3. CASE row.status = "active" /\ row.hash.of = call[r].password
  <2> DEFINE step == IF row.hash.fresh THEN "insert" ELSE "rehash"
  <2>1. myAccount' = [myAccount EXCEPT ![r] = row] /\ Advance(r, step, now)
    BY <1>3 DEF LoginLookup
  <2>2. step \in PC /\ step \in {"insert", "rehash"}
    BY DEF PC, LoginSteps
  <2> HIDE DEF step
  <2>3. /\ pc' \in [Request -> PC] /\ at' \in [Request -> Nat]
        /\ answer' \in [Request -> Status] /\ pc'[r] = step
        /\ \A q \in Request \ {r} : pc'[q] = pc[q]
    BY <1>1, <2>1, <2>2, AdvanceType
  <2>4. /\ myAccount' \in [Request -> AccountRow \union {NoCopy}]
        /\ myAccount'[r] \in AccountRow
        /\ \A q \in Request \ {r} : myAccount'[q] = myAccount[q]
    BY <1>1, <2>1 DEF TypeOK
  <2>5. Bound(r)'
    BY <1>1, <1>2, <2>2, <2>3, <2>4
    DEF LoginLookup, Bound, LoginSteps, PrincipalSteps, ServedSteps
  <2> QED
    BY <1>2, <2>3, <2>4, <2>5, LocalType DEF TypeOK
<1>4. CASE ~(row.status = "active" /\ row.hash.of = call[r].password)
  <2>1. Finish(r, "unauthorized") /\ UNCHANGED myAccount
    BY <1>4 DEF LoginLookup
  <2> QED
    BY <1>2, <2>1, FinishType, LocalType DEF TypeOK, Status
<1> QED
  BY <1>3, <1>4

LEMMA LoginRehashType == ASSUME TypeOK, NEW r \in Request, LoginRehash(r) PROVE TypeOK'
<1> DEFINE a == call[r].account
<1>1. call[r] \in Call /\ Bound(r) /\ a \in Account /\ accounts[a] \in AccountRow
  BY RunningBound, CallTypes DEF LoginRehash, TypeOK
<1>2. UNCHANGED <<sessions, now, changes, call, copies, history>>
  BY DEF LoginRehash
<1>3. CASE accounts[a].status = "deleted"
  BY <1>2, <1>3, FinishType, LocalType DEF LoginRehash, TypeOK, Status, rows, copies
<1>4. CASE accounts[a].status # "deleted"
  <2>1. /\ accounts' = [accounts EXCEPT ![a] = MergeAccount(@, myAccount[r],
              WithHash(myAccount[r], NewHash(call[r].password)))]
        /\ Advance(r, "refresh", at[r])
    BY <1>4 DEF LoginRehash
  <2>2. myAccount[r] \in AccountRow
    BY <1>1 DEF LoginRehash, Bound
  <2>3. MergeAccount(accounts[a], myAccount[r],
              WithHash(myAccount[r], NewHash(call[r].password))) \in AccountRow
    BY <1>1, <2>2, MergeAccountType, AccountRowTypes, NewHashType, CallTypes
  <2>4. accounts' \in [Account -> AccountRow]
    BY <1>1, <2>1, <2>3 DEF TypeOK
  <2>5. /\ pc' \in [Request -> PC] /\ at' \in [Request -> Nat]
        /\ answer' \in [Request -> Status] /\ pc'[r] = "refresh"
        /\ \A q \in Request \ {r} : pc'[q] = pc[q]
    BY <2>1, AdvanceType DEF PC, LoginSteps, TypeOK
  <2>6. Bound(r)'
    BY <1>1, <1>2, <2>5 DEF LoginRehash, Bound, LoginSteps, PrincipalSteps, ServedSteps
  <2>7. OnlyMoves(r)
    BY <1>2, <2>5 DEF OnlyMoves, SessionsStay, Stored, copies
  <2> QED
    BY <1>2, <2>4, <2>5, <2>6, <2>7, RowsType DEF TypeOK, copies, history
<1> QED
  BY <1>3, <1>4

LEMMA LoginRefreshType == ASSUME TypeOK, NEW r \in Request, LoginRefresh(r) PROVE TypeOK'
<1>1. Bound(r)
  BY RunningBound DEF LoginRefresh
<1>2. UNCHANGED <<rows, now, changes, call, copies, history>>
  BY DEF LoginRefresh
<1>3. CASE Finish(r, "failed")
  BY <1>2, <1>3, FinishType, LocalType DEF TypeOK, Status, copies
<1>4. CASE Advance(r, "insert", now)
  <2>1. /\ pc' \in [Request -> PC] /\ at' \in [Request -> Nat]
        /\ answer' \in [Request -> Status] /\ pc'[r] = "insert"
        /\ \A q \in Request \ {r} : pc'[q] = pc[q]
    BY <1>4, AdvanceType DEF PC, LoginSteps, TypeOK
  <2>2. Bound(r)'
    BY <1>1, <1>2, <2>1
    DEF LoginRefresh, Bound, LoginSteps, PrincipalSteps, ServedSteps
  <2> QED
    BY <1>2, <2>1, <2>2, LocalType DEF TypeOK, copies
<1> QED
  BY <1>3, <1>4 DEF LoginRefresh

LEMMA LoginInsertType == ASSUME TypeOK, NEW r \in Request, LoginInsert(r) PROVE TypeOK'
<1> DEFINE row(t) == [account |-> call[r].account, created |-> at[r],
                      expires |-> t + SessionTTL, revoked |-> FALSE]
<1>1. call[r] \in Call /\ Bound(r) /\ r \in Token
  BY RunningBound DEF LoginInsert, Token
<1>2. UNCHANGED <<accounts, now, changes, call, copies, chosen, revokedBefore>>
  BY DEF LoginInsert
<1>3. ASSUME NEW status \in Status, Finish(r, status), UNCHANGED <<sessions, granted, committed>>
      PROVE  TypeOK'
  BY <1>2, <1>3, FinishType, LocalType DEF TypeOK, rows, history, copies
<1>4. ASSUME NEW t \in at[r] .. now,
             sessions' = [sessions EXCEPT ![r] = row(t)],
             granted' = [granted EXCEPT ![r] = t + SessionTTL],
             committed' = committed \union {r},
             Advance(r, "respond", at[r])
      PROVE  TypeOK'
  <2>1. at[r] \in Nat /\ now \in Nat /\ t \in Nat /\ t + SessionTTL \in Nat
    BY SessionsAssumption DEF TypeOK
  <2>2. row(t) \in SessionRow
    BY <1>1, <2>1, CallTypes DEF SessionRow
  <2>3. /\ sessions' \in [Token -> SessionRow \union {NoSession}]
        /\ granted' \in [Token -> Nat]
        /\ committed' \subseteq Request
        /\ SessionsStay
    BY <1>1, <1>4, <2>1, <2>2, SessionsAssumption DEF TypeOK, SessionsStay, Stored
  <2>4. /\ pc' \in [Request -> PC] /\ at' \in [Request -> Nat]
        /\ answer' \in [Request -> Status] /\ pc'[r] = "respond"
        /\ \A q \in Request \ {r} : pc'[q] = pc[q]
    BY <1>4, <2>1, AdvanceType DEF PC
  <2>5. Bound(r)'
    BY <1>2, <2>4, RespondBound DEF LoginInsert
  <2>6. OnlyMoves(r)
    BY <1>2, <2>3, <2>4 DEF OnlyMoves, copies
  <2> QED
    BY <1>2, <2>3, <2>4, <2>5, <2>6, RowsType DEF TypeOK, copies
<1> QED
  BY <1>3, <1>4 DEF LoginInsert, Status

LEMMA SelectSessionType == ASSUME TypeOK, NEW r \in Request, SelectSession(r) PROVE TypeOK'
<1> DEFINE k == call[r].token
<1>1. call[r] \in Call /\ Bound(r) /\ k \in Token /\ Stored(k) /\ sessions[k] \in SessionRow
  BY RunningBound, CallTypes DEF SelectSession, TypeOK, Bound, PrincipalSteps, Stored
<1>2. UNCHANGED <<rows, now, changes, call, myAccount, swept, history>>
  BY DEF SelectSession
<1>3. CASE Live(sessions[k], at[r])
  <2>1. mySession' = [mySession EXCEPT ![r] = sessions[k]] /\ Advance(r, "account", at[r])
    BY <1>3 DEF SelectSession
  <2>2. /\ pc' \in [Request -> PC] /\ at' \in [Request -> Nat]
        /\ answer' \in [Request -> Status] /\ pc'[r] = "account"
        /\ \A q \in Request \ {r} : pc'[q] = pc[q]
    BY <2>1, AdvanceType DEF PC, PrincipalSteps, TypeOK
  <2>3. /\ mySession' \in [Request -> SessionRow \union {NoSession}]
        /\ mySession'[r] \in SessionRow
        /\ \A q \in Request \ {r} : mySession'[q] = mySession[q]
    BY <1>1, <2>1 DEF TypeOK
  <2>4. Bound(r)'
    BY <1>1, <1>2, <2>2, <2>3
    DEF Bound, LoginSteps, PrincipalSteps, ServedSteps, Stored, rows
  <2> QED
    BY <1>2, <2>2, <2>3, <2>4, LocalType DEF TypeOK
<1>4. CASE ~Live(sessions[k], at[r])
  <2>1. Finish(r, "unauthorized") /\ UNCHANGED mySession
    BY <1>4 DEF SelectSession
  <2> QED
    BY <1>2, <2>1, FinishType, LocalType DEF TypeOK, Status
<1> QED
  BY <1>3, <1>4

LEMMA LoadAccountType == ASSUME TypeOK, NEW r \in Request, LoadAccount(r) PROVE TypeOK'
<1> DEFINE row == accounts[call[r].account]
<1>1. call[r] \in Call /\ Bound(r) /\ row \in AccountRow /\ now \in Nat
  BY RunningBound, CallTypes DEF LoadAccount, TypeOK
<1>2. UNCHANGED <<rows, now, changes, call, mySession, swept, history>>
  BY DEF LoadAccount
<1>3. CASE row.status = "active"
  <2>1. myAccount' = [myAccount EXCEPT ![r] = row] /\ Advance(r, "touch", now)
    BY <1>3 DEF LoadAccount
  <2>2. /\ pc' \in [Request -> PC] /\ at' \in [Request -> Nat]
        /\ answer' \in [Request -> Status] /\ pc'[r] = "touch"
        /\ \A q \in Request \ {r} : pc'[q] = pc[q]
    BY <1>1, <2>1, AdvanceType DEF PC, PrincipalSteps
  <2>3. /\ myAccount' \in [Request -> AccountRow \union {NoCopy}]
        /\ myAccount'[r] \in AccountRow
        /\ \A q \in Request \ {r} : myAccount'[q] = myAccount[q]
    BY <1>1, <2>1 DEF TypeOK
  <2>4. Bound(r)'
    BY <1>1, <1>2, <2>2, <2>3
    DEF LoadAccount, Bound, LoginSteps, PrincipalSteps, ServedSteps, Stored, rows
  <2> QED
    BY <1>2, <2>2, <2>3, <2>4, LocalType DEF TypeOK
<1>4. CASE row.status # "active"
  <2>1. Finish(r, "unauthorized") /\ UNCHANGED myAccount
    BY <1>4 DEF LoadAccount
  <2> QED
    BY <1>2, <2>1, FinishType, LocalType DEF TypeOK, Status
<1> QED
  BY <1>3, <1>4

LEMMA TouchType == ASSUME TypeOK, NEW r \in Request, Touch(r) PROVE TypeOK'
<1> DEFINE k == call[r].token
           s == mySession[r]
<1>1. /\ call[r] \in Call /\ Bound(r) /\ k \in Token /\ Stored(k)
      /\ sessions[k] \in SessionRow /\ s \in SessionRow /\ at[r] \in Nat /\ now \in Nat
      /\ myAccount[r] \in AccountRow
  BY RunningBound, CallTypes DEF Touch, TypeOK, Bound, PrincipalSteps, Stored
<1>2. UNCHANGED <<accounts, now, changes, call, myAccount, swept, history>>
  BY DEF Touch
<1>3. PICK t \in at[r] .. now :
         IF ~Live(s, t)
         THEN Finish(r, "unauthorized") /\ UNCHANGED <<sessions, mySession>>
         ELSE /\ IF Renews(s, t)
                 THEN /\ ~SessionLocked(k)
                      /\ sessions' = [sessions EXCEPT ![k] =
                            MergeSession(@, s, WithExpiry(s, RenewedExpiry(s, t)))]
                      /\ mySession' = [mySession EXCEPT ![r] =
                            WithExpiry(s, RenewedExpiry(s, t))]
                 ELSE UNCHANGED <<sessions, mySession>>
              /\ Advance(r, AfterTouch(call[r].op), t)
  BY DEF Touch
<1>4. t \in Nat
  BY <1>1
<1>5. CASE ~Live(s, t)
  <2>1. Finish(r, "unauthorized") /\ UNCHANGED <<sessions, mySession>>
    BY <1>3, <1>5
  <2> QED
    BY <1>2, <2>1, FinishType, LocalType DEF TypeOK, Status, rows
<1>6. CASE Live(s, t)
  <2> DEFINE step == AfterTouch(call[r].op)
  <2>1. step \in PC /\ step \in {"revoke", "profile", "change", "respond"}
    BY DEF AfterTouch, PC, ServedSteps
  <2>2. Advance(r, step, t)
    BY <1>3, <1>6
  <2> HIDE DEF step
  <2>3. /\ pc' \in [Request -> PC] /\ at' \in [Request -> Nat]
        /\ answer' \in [Request -> Status] /\ pc'[r] = step
        /\ \A q \in Request \ {r} : pc'[q] = pc[q]
    BY <1>4, <2>1, <2>2, AdvanceType
  <2>4. /\ WithExpiry(s, RenewedExpiry(s, t)) \in SessionRow
        /\ MergeSession(sessions[k], s, WithExpiry(s, RenewedExpiry(s, t))) \in SessionRow
    BY <1>1, <1>4, RenewedExpiryType, SessionRowTypes, MergeSessionType
  <2>5. /\ sessions' \in [Token -> SessionRow \union {NoSession}]
        /\ mySession' \in [Request -> SessionRow \union {NoSession}]
        /\ mySession'[r] \in SessionRow
        /\ \A q \in Request \ {r} : mySession'[q] = mySession[q]
        /\ SessionsStay /\ Stored(k)'
    <3> DEFINE renewed == WithExpiry(s, RenewedExpiry(s, t))
               merged == MergeSession(sessions[k], s, renewed)
    <3>1. renewed \in SessionRow /\ merged \in SessionRow
      BY <2>4
    <3>2. \/ /\ sessions' = [sessions EXCEPT ![k] = merged]
             /\ mySession' = [mySession EXCEPT ![r] = renewed]
          \/ UNCHANGED <<sessions, mySession>>
      BY <1>3, <1>6
    <3> HIDE DEF renewed, merged
    <3>3. CASE UNCHANGED <<sessions, mySession>>
      BY <1>1, <1>2, <3>3 DEF TypeOK, SessionsStay, Stored
    <3>4. CASE /\ sessions' = [sessions EXCEPT ![k] = merged]
               /\ mySession' = [mySession EXCEPT ![r] = renewed]
      BY <1>1, <1>2, <3>1, <3>4, SessionsAssumption DEF TypeOK, SessionsStay, Stored
    <3> QED
      BY <3>2, <3>3, <3>4
  <2>6. Bound(r)'
    BY <1>1, <1>2, <2>1, <2>3, <2>5
    DEF Bound, LoginSteps, PrincipalSteps, ServedSteps
  <2>7. OnlyMoves(r)
    BY <1>2, <2>3, <2>5 DEF OnlyMoves
  <2> QED
    BY <1>2, <2>3, <2>5, <2>6, <2>7, RowsType DEF TypeOK, history
<1> QED
  BY <1>5, <1>6

\* Steps that write and then only have to answer.
LEMMA WriteType ==
    ASSUME TypeOK, NEW r \in Request, pc[r] \notin {"idle", "done"},
           Advance(r, "respond", at[r]),
           UNCHANGED <<now, changes, call, copies, granted, revokedBefore>>,
           accounts' \in [Account -> AccountRow],
           sessions' \in [Token -> SessionRow \union {NoSession}], SessionsStay,
           chosen' \in [Account -> Password],
           committed' = committed \union {r}
    PROVE  TypeOK'
<1>1. /\ pc' \in [Request -> PC] /\ at' \in [Request -> Nat]
      /\ answer' \in [Request -> Status] /\ pc'[r] = "respond"
      /\ \A q \in Request \ {r} : pc'[q] = pc[q]
  BY AdvanceType DEF PC, TypeOK
<1>2. Bound(r)'
  BY <1>1, RespondBound
<1>3. OnlyMoves(r)
  BY <1>1 DEF OnlyMoves, copies
<1> QED
  BY <1>1, <1>2, <1>3, RowsType DEF TypeOK, copies

LEMMA LogoutType == ASSUME TypeOK, NEW r \in Request, Logout(r) PROVE TypeOK'
<1> DEFINE k == call[r].token
           merged == MergeSession(sessions[k], mySession[r], Revoked(mySession[r]))
<1>1. /\ k \in Token /\ sessions[k] \in SessionRow /\ mySession[r] \in SessionRow
  BY RunningBound, CallTypes DEF Logout, TypeOK, Bound, ServedSteps, Stored
<1>2. merged \in SessionRow
  BY <1>1, SessionRowTypes, MergeSessionType
<1>3. sessions' = [sessions EXCEPT ![k] = merged]
  BY DEF Logout
<1> HIDE DEF k, merged
<1>4. sessions' \in [Token -> SessionRow \union {NoSession}] /\ SessionsStay
  BY <1>1, <1>2, <1>3, SessionsAssumption DEF TypeOK, SessionsStay, Stored
<1> QED
  BY <1>4, WriteType DEF Logout, TypeOK

LEMMA UpdateProfileType == ASSUME TypeOK, NEW r \in Request, UpdateProfile(r) PROVE TypeOK'
<1> DEFINE a == call[r].account
           merged == MergeAccount(accounts[a], myAccount[r],
                                  WithName(myAccount[r], call[r].name))
<1>1. /\ a \in Account /\ accounts[a] \in AccountRow /\ myAccount[r] \in AccountRow
      /\ call[r].name \in Name
  BY RunningBound, CallTypes DEF UpdateProfile, TypeOK, Bound, ServedSteps
<1>2. merged \in AccountRow
  BY <1>1, AccountRowTypes, MergeAccountType
<1>3. accounts' = [accounts EXCEPT ![a] = merged]
  BY DEF UpdateProfile
<1> HIDE DEF a, merged
<1>4. accounts' \in [Account -> AccountRow]
  BY <1>1, <1>2, <1>3 DEF TypeOK
<1> QED
  BY <1>4, WriteType DEF UpdateProfile, TypeOK, SessionsStay, Stored

LEMMA ChangeFlushType == ASSUME TypeOK, NEW r \in Request, ChangeFlush(r) PROVE TypeOK'
<1>1. Bound(r)
  BY RunningBound DEF ChangeFlush
<1>2. UNCHANGED <<rows, now, changes, call, copies, history>>
  BY DEF ChangeFlush
<1>3. CASE Finish(r, "unauthorized")
  BY <1>2, <1>3, FinishType, LocalType DEF TypeOK, Status, copies
<1>4. CASE Advance(r, "sweep", at[r])
  <2>1. /\ pc' \in [Request -> PC] /\ at' \in [Request -> Nat]
        /\ answer' \in [Request -> Status] /\ pc'[r] = "sweep"
        /\ \A q \in Request \ {r} : pc'[q] = pc[q]
    BY <1>4, AdvanceType DEF PC, ServedSteps, TypeOK
  <2>2. Bound(r)'
    BY <1>1, <1>2, <2>1
    DEF ChangeFlush, Bound, LoginSteps, PrincipalSteps, ServedSteps, Stored, rows, copies
  <2> QED
    BY <1>2, <2>1, <2>2, LocalType DEF TypeOK, copies
<1> QED
  BY <1>3, <1>4 DEF ChangeFlush

LEMMA ChangeSweepType == ASSUME TypeOK, NEW r \in Request, ChangeSweep(r) PROVE TypeOK'
<1>1. Bound(r)
  BY RunningBound DEF ChangeSweep
<1>2. UNCHANGED <<rows, now, changes, call, mySession, myAccount, history>>
  BY DEF ChangeSweep
<1>3. /\ pc' \in [Request -> PC] /\ at' \in [Request -> Nat]
      /\ answer' \in [Request -> Status] /\ pc'[r] = "commit"
      /\ \A q \in Request \ {r} : pc'[q] = pc[q]
  BY AdvanceType DEF ChangeSweep, PC, ServedSteps, TypeOK
<1>4. SessionsOf(call[r].account) \subseteq Token
  BY DEF SessionsOf
<1>5. /\ swept' \in [Request -> SUBSET Token]
      /\ swept'[r] = SessionsOf(call[r].account)
      /\ \A q \in Request \ {r} : swept'[q] = swept[q]
  BY <1>4 DEF ChangeSweep, TypeOK
<1>6. \A k \in swept'[r] : Stored(k)'
  BY <1>2, <1>5 DEF SessionsOf, Stored, rows
<1>7. Bound(r)'
  BY <1>1, <1>2, <1>3, <1>6
  DEF ChangeSweep, Bound, LoginSteps, PrincipalSteps, ServedSteps, Stored, rows
<1> QED
  BY <1>2, <1>3, <1>5, <1>7, LocalType DEF TypeOK

\* What a sweep or an administrator revokes stays stored.
LEMMA RevokeType ==
    ASSUME TypeOK, NEW S \in SUBSET Token, \A k \in S : Stored(k),
           sessions' = [k \in Token |-> IF k \in S THEN Revoked(sessions[k]) ELSE sessions[k]]
    PROVE  sessions' \in [Token -> SessionRow \union {NoSession}] /\ SessionsStay
<1>1. \A k \in S : Revoked(sessions[k]) \in SessionRow
  <2> TAKE k \in S
  <2>1. sessions[k] \in SessionRow
    BY DEF TypeOK, Stored
  <2> QED
    BY <2>1, SessionRowTypes
<1>2. \A k \in Token :
         sessions'[k] = IF k \in S THEN Revoked(sessions[k]) ELSE sessions[k]
  OBVIOUS
<1>3. SessionsStay
  BY <1>1, <1>2, SessionsAssumption DEF SessionsStay, Stored
<1>4. sessions' \in [Token -> SessionRow \union {NoSession}]
  BY <1>1 DEF TypeOK
<1> QED
  BY <1>3, <1>4

LEMMA ChangeCommitType == ASSUME TypeOK, NEW r \in Request, ChangeCommit(r) PROVE TypeOK'
<1> DEFINE a == call[r].account
           changed == WithHash(accounts[a], NewHash(call[r].new))
<1>1. /\ a \in Account /\ accounts[a] \in AccountRow /\ call[r].new \in Password
      /\ swept[r] \in SUBSET Token /\ \A k \in swept[r] : Stored(k)
  BY RunningBound, CallTypes DEF ChangeCommit, TypeOK, Bound
<1>2. changed \in AccountRow
  BY <1>1, AccountRowTypes, NewHashType
<1>3. accounts' = [accounts EXCEPT ![a] = changed]
  BY DEF ChangeCommit
<1> HIDE DEF changed
<1>4. /\ accounts' \in [Account -> AccountRow]
      /\ chosen' \in [Account -> Password]
  BY <1>1, <1>2, <1>3 DEF TypeOK, ChangeCommit
<1>5. sessions' \in [Token -> SessionRow \union {NoSession}] /\ SessionsStay
  BY <1>1, RevokeType DEF ChangeCommit
<1> QED
  BY <1>4, <1>5, WriteType DEF ChangeCommit

LEMMA RespondType == ASSUME TypeOK, NEW r \in Request, Respond(r) PROVE TypeOK'
BY FinishType, LocalType DEF Respond, TypeOK, Status, copies

LEMMA AbortType == ASSUME TypeOK, NEW r \in Request, Abort(r) PROVE TypeOK'
BY FinishType, LocalType DEF Abort, TypeOK, Status, copies

LEMMA ServeType == ASSUME TypeOK, NEW r \in Request, Serve(r) PROVE TypeOK'
BY LoginLookupType, LoginRehashType, LoginRefreshType, LoginInsertType,
   SelectSessionType, LoadAccountType, TouchType, LogoutType, UpdateProfileType,
   ChangeFlushType, ChangeSweepType, ChangeCommitType, RespondType
DEF Serve

-----------------------------------------------------------------------------
\* No administrator moves a request.
LEMMA AdminType ==
    ASSUME TypeOK, NEW a \in Account,
           \/ \E status \in {"active", "inactive"} : SetStatus(a, status)
           \/ \E p \in Password : ResetPassword(a, p)
           \/ RevokeAll(a)
           \/ DeleteAccount(a)
    PROVE  TypeOK'
<1>1. /\ UNCHANGED <<now, pc, call, at, copies, answer, granted, committed, revokedBefore>>
      /\ changes' \in Nat
  BY DEF SetStatus, ResetPassword, RevokeAll, DeleteAccount, Administer, history, TypeOK
<1>2. accounts' \in [Account -> AccountRow]
  <2>1. accounts[a] \in AccountRow
    BY DEF TypeOK
  <2>2. ASSUME NEW row \in AccountRow, accounts' = [accounts EXCEPT ![a] = row]
        PROVE  accounts' \in [Account -> AccountRow]
    BY <2>2 DEF TypeOK
  <2>3. ASSUME NEW status \in {"active", "inactive"}, SetStatus(a, status)
        PROVE  accounts' \in [Account -> AccountRow]
    <3>1. accounts' = [accounts EXCEPT ![a] = WithStatus(accounts[a], status)]
      BY <2>3 DEF SetStatus
    <3> QED
      BY <2>1, <2>2, <3>1, AccountRowTypes
  <2>4. ASSUME NEW p \in Password, ResetPassword(a, p)
        PROVE  accounts' \in [Account -> AccountRow]
    <3>1. accounts' = [accounts EXCEPT ![a] = WithHash(accounts[a], NewHash(p))]
      BY <2>4 DEF ResetPassword
    <3> QED
      BY <2>1, <2>2, <3>1, AccountRowTypes, NewHashType
  <2>5. ASSUME DeleteAccount(a) PROVE accounts' \in [Account -> AccountRow]
    <3>1. accounts' = [accounts EXCEPT ![a] = WithStatus(accounts[a], "deleted")]
      BY <2>5 DEF DeleteAccount
    <3> QED
      BY <2>1, <2>2, <3>1, AccountRowTypes
  <2> QED
    BY <2>3, <2>4, <2>5 DEF RevokeAll, TypeOK
<1>3. sessions' \in [Token -> SessionRow \union {NoSession}] /\ SessionsStay
  <2>1. CASE RevokeAll(a)
    <3>1. SessionsOf(a) \in SUBSET Token /\ \A k \in SessionsOf(a) : Stored(k)
      BY DEF SessionsOf
    <3> QED
      BY <2>1, <3>1, RevokeType DEF RevokeAll
  <2>2. CASE ~RevokeAll(a)
    BY <2>2 DEF SetStatus, ResetPassword, DeleteAccount, TypeOK, SessionsStay, Stored
  <2> QED
    BY <2>1, <2>2
<1>4. chosen' \in [Account -> Password]
  BY DEF SetStatus, ResetPassword, RevokeAll, DeleteAccount, history, TypeOK
<1>5. \A q \in Running' : Bound(q)'
  <2> SUFFICES ASSUME NEW q \in Running' PROVE Bound(q)'
    OBVIOUS
  <2>1. q \in Request /\ pc[q] \notin {"idle", "done"} /\ Bound(q) /\ call[q] \in Call
    BY <1>1, RunningBound DEF Running
  <2>2. pc[q] \in PrincipalSteps \union ServedSteps => Stored(call[q].token)'
    BY <1>1, <1>3, <2>1, CallTypes DEF Bound, SessionsStay, Stored
  <2>3. pc[q] = "commit" => \A k \in swept[q] : Stored(k)'
    <3>1. swept[q] \subseteq Token
      BY <2>1 DEF TypeOK
    <3> QED
      BY <1>3, <2>1, <3>1 DEF Bound, SessionsStay, Stored
  <2> QED
    BY <1>1, <2>1, <2>2, <2>3 DEF Bound, copies
<1> QED
  BY <1>1, <1>2, <1>3, <1>4, <1>5 DEF TypeOK, copies

LEMMA InitType == Init => TypeOK
<1> SUFFICES ASSUME Init PROVE TypeOK
  OBVIOUS
<1>1. \A k \in InitialToken :
         [account |-> InitialOwner[k], created |-> 0, expires |-> SessionTTL,
          revoked |-> FALSE] \in SessionRow
  BY SessionsAssumption DEF SessionRow
<1>2. sessions \in [Token -> SessionRow \union {NoSession}]
  BY <1>1 DEF Init
<1>3. chosen \in [Account -> Password]
  BY SessionsAssumption DEF Init, AccountRow, Hash
<1>4. Running = {}
  BY DEF Init, Running
<1>5. granted \in [Token -> Nat]
  BY SessionsAssumption DEF Init
<1> QED
  BY <1>2, <1>3, <1>4, <1>5, SessionsAssumption DEF Init, TypeOK, Status

LEMMA StutterType == ASSUME TypeOK, UNCHANGED vars PROVE TypeOK'
BY DEF TypeOK, vars, rows, copies, history, Running, Bound, Stored

LEMMA TickType == ASSUME TypeOK, Tick PROVE TypeOK'
<1>1. /\ UNCHANGED <<rows, changes, pc, call, at, copies, answer, history>>
      /\ now' \in Nat
  BY DEF Tick, TypeOK
<1> QED
  BY <1>1 DEF TypeOK, rows, copies, history, Running, Bound, Stored

\* The rows keep their types, and whatever a request has bound by the step it is
\* at (the call, its copies, the stored session it acts on) is there when the
\* step runs.
THEOREM SessionsTypeCorrect == Spec => []TypeOK
<1>1. TypeOK /\ [Next]_vars => TypeOK'
  BY BeginType, ServeType, AbortType, TickType, AdminType, StutterType DEF Next
<1> QED
  BY InitType, <1>1, PTL DEF Spec

-----------------------------------------------------------------------------
(* What is right for the rows stays right: no step takes a stored session away, *)
(* changes its creation, brings it back after its revocation, or moves its      *)
(* expiry out of bounds.                                                        *)

Keeps(k) ==
    Stored(k) =>
        /\ sessions'[k] # NoSession
        /\ sessions'[k].created = sessions[k].created
        /\ sessions[k].revoked => sessions'[k].revoked
        /\ granted'[k] = granted[k]
        /\ WithinGrant(k, sessions[k]) =>
              /\ granted[k] <= sessions'[k].expires
              /\ \/ sessions'[k].expires <= granted[k]
                 \/ sessions'[k].expires <= sessions'[k].created + ForceTTL

LEMMA UnchangedKeeps ==
    ASSUME NEW k \in Token, UNCHANGED <<sessions, granted>>
    PROVE  Keeps(k)
BY DEF Keeps, Stored, WithinGrant, ForceEnd

LEMMA RevokeKeeps ==
    ASSUME TypeOK, NEW S \in SUBSET Token, UNCHANGED granted,
           sessions' = [k \in Token |-> IF k \in S THEN Revoked(sessions[k]) ELSE sessions[k]],
           NEW k \in Token
    PROVE  Keeps(k)
<1> SUFFICES ASSUME Stored(k) PROVE Keeps(k)
  BY DEF Keeps
<1>1. sessions[k] \in SessionRow
  BY DEF TypeOK, Stored
<1>2. sessions'[k] = IF k \in S THEN Revoked(sessions[k]) ELSE sessions[k]
  OBVIOUS
<1>3. Revoked(sessions[k]) \in SessionRow /\ NoSession \notin SessionRow
  BY <1>1, SessionRowTypes, SessionsAssumption
<1>4. CASE k \in S
  BY <1>2, <1>3, <1>4 DEF Keeps, Revoked, WithinGrant, ForceEnd
<1>5. CASE k \notin S
  BY <1>1, <1>2, <1>3, <1>5 DEF Keeps, WithinGrant, ForceEnd, Stored
<1> QED
  BY <1>4, <1>5

\* An authentication at a clock t not before the login's renews within the grant.
LEMMA RenewedWithinGrant ==
    ASSUME NEW s \in SessionRow, NEW t \in Nat, NEW g \in Nat,
           g <= t + SessionTTL, g <= s.expires, Renews(s, t)
    PROVE  /\ g <= RenewedExpiry(s, t)
           /\ RenewedExpiry(s, t) <= s.created + ForceTTL
BY SessionsAssumption DEF RenewedExpiry, Renews, ForceEnd, SessionRow

LEMMA TouchKeeps ==
    ASSUME TypeOK, PrincipalsOK, NEW r \in Request, Touch(r), NEW j \in Token
    PROVE  Keeps(j)
<1> DEFINE k == call[r].token
           s == mySession[r]
           row == sessions[k]
<1>1. /\ k \in Token /\ Stored(k) /\ row \in SessionRow /\ s \in SessionRow
      /\ at[r] \in Nat /\ now \in Nat /\ granted[k] \in Nat
  BY RunningBound, CallTypes DEF Touch, TypeOK, Bound, PrincipalSteps, Stored
<1>2. /\ ~s.revoked /\ s.created = row.created /\ WithinGrant(k, s)
      /\ granted[k] <= at[r] + SessionTTL
  BY DEF Touch, PrincipalsOK, CopyOK, SinceLogin, PrincipalSteps
<1>3. CASE UNCHANGED sessions
  BY <1>3, UnchangedKeeps DEF Touch, history
<1>4. ASSUME NEW t \in at[r] .. now, Renews(s, t),
             sessions' = [sessions EXCEPT ![k] =
                MergeSession(@, s, WithExpiry(s, RenewedExpiry(s, t)))]
      PROVE  Keeps(j)
  <2> DEFINE e == RenewedExpiry(s, t)
             merged == MergeSession(row, s, WithExpiry(s, e))
  <2>1. t \in Nat /\ at[r] <= t
    BY <1>1
  <2>2. granted[k] <= e /\ e <= row.created + ForceTTL /\ e \in Nat
    <3>1. granted[k] <= t + SessionTTL
      BY <1>1, <1>2, <2>1, SessionsAssumption
    <3> QED
      BY <1>1, <1>2, <1>4, <2>1, <3>1, RenewedWithinGrant, RenewedExpiryType DEF WithinGrant
  <2>3. /\ merged.created = row.created
        /\ merged.revoked = row.revoked
        /\ merged.expires = row.expires \/ merged.expires = e
    BY DEF MergeSession, WithExpiry, Written
  <2>4. merged \in SessionRow
    BY <1>1, <2>2, SessionRowTypes, MergeSessionType
  <2> HIDE DEF merged, e
  <2>5. CASE j = k
    <3>1. sessions'[j] = merged
      BY <1>1, <1>4, <2>5 DEF TypeOK, merged, e
    <3>2. granted' = granted
      BY DEF Touch, history
    <3> QED
      BY <1>1, <2>2, <2>3, <2>4, <2>5, <3>1, <3>2, SessionsAssumption
      DEF Keeps, WithinGrant, ForceEnd
  <2>6. CASE j # k
    <3>1. sessions'[j] = sessions[j]
      BY <1>1, <1>4, <2>6 DEF TypeOK
    <3>2. granted' = granted
      BY DEF Touch, history
    <3> QED
      BY <3>1, <3>2 DEF Keeps, WithinGrant, ForceEnd, Stored
  <2> QED
    BY <2>5, <2>6
<1> QED
  BY <1>3, <1>4 DEF Touch

LEMMA LogoutKeeps ==
    ASSUME TypeOK, PrincipalsOK, NEW r \in Request, Logout(r), NEW j \in Token
    PROVE  /\ Keeps(j)
           /\ sessions'[call[r].token].revoked
           /\ \A i \in Token : i # call[r].token => sessions'[i] = sessions[i]
<1> DEFINE k == call[r].token
           s == mySession[r]
           row == sessions[k]
           merged == MergeSession(row, s, Revoked(s))
<1>1. /\ k \in Token /\ Stored(k) /\ row \in SessionRow /\ s \in SessionRow
  BY RunningBound, CallTypes DEF Logout, TypeOK, Bound, ServedSteps, Stored
<1>2. ~s.revoked
  BY DEF Logout, PrincipalsOK, CopyOK, ServedSteps
<1>3. /\ merged.created = row.created /\ merged.expires = row.expires
      /\ merged.revoked
  BY <1>1, <1>2 DEF MergeSession, Revoked, Written
<1>4. merged \in SessionRow
  BY <1>1, SessionRowTypes, MergeSessionType
<1>5. sessions' = [sessions EXCEPT ![k] = merged] /\ granted' = granted
  BY DEF Logout
<1> HIDE DEF merged
<1>6. sessions'[k] = merged /\ \A i \in Token : i # k => sessions'[i] = sessions[i]
  BY <1>1, <1>5 DEF TypeOK
<1>7. Keeps(j)
  <2>1. CASE j = k
    BY <1>1, <1>3, <1>4, <1>5, <1>6, <2>1, SessionsAssumption DEF Keeps, WithinGrant, ForceEnd
  <2>2. CASE j # k
    BY <1>5, <1>6, <2>2 DEF Keeps, WithinGrant, ForceEnd, Stored
  <2> QED
    BY <2>1, <2>2
<1>8. sessions'[k].revoked
  BY <1>3, <1>6
<1> QED
  BY <1>6, <1>7, <1>8

LEMMA LoginInsertKeeps ==
    ASSUME TypeOK, PrincipalsOK, NEW r \in Request, LoginInsert(r), NEW j \in Token
    PROVE  Keeps(j)
<1>1. ~Stored(r) /\ r \in Token
  BY DEF LoginInsert, PrincipalsOK, CourseOK, Token
<1>2. CASE UNCHANGED <<sessions, granted>>
  BY <1>2, UnchangedKeeps
<1>3. CASE j = r
  BY <1>1, <1>3 DEF Keeps
<1>4. ASSUME j # r, NEW row, NEW g, sessions' = [sessions EXCEPT ![r] = row],
             granted' = [granted EXCEPT ![r] = g]
      PROVE  Keeps(j)
  <2>1. sessions'[j] = sessions[j] /\ granted'[j] = granted[j]
    BY <1>4 DEF TypeOK
  <2> QED
    BY <2>1 DEF Keeps, WithinGrant, ForceEnd, Stored
<1> QED
  BY <1>2, <1>3, <1>4 DEF LoginInsert
-----------------------------------------------------------------------------
(* One request moves at a time: what the others know stays right.              *)

OthersStay(r) ==
    \A q \in Request \ {r} :
        /\ pc'[q] = pc[q] /\ call'[q] = call[q] /\ at'[q] = at[q]
        /\ mySession'[q] = mySession[q] /\ answer'[q] = answer[q]
        /\ revokedBefore'[q] = revokedBefore[q]
        /\ q \in committed' => q \in committed
        /\ q \in committed => q \in committed'

\* Of the sessions a step stores, the request's own is the only new one.
Moves(r) ==
    /\ now' = now
    /\ \A k \in Token : Keeps(k) /\ (k # r /\ sessions'[k] # NoSession => Stored(k))
    /\ OthersStay(r)

CopySteps == {"account", "touch"} \union ServedSteps

LEMMA CopyStays ==
    ASSUME TypeOK, NEW q \in Request, CopyOK(q), pc[q] \in CopySteps,
           \A k \in Token : Keeps(k), call'[q] = call[q], mySession'[q] = mySession[q],
           revokedBefore'[q] = revokedBefore[q]
    PROVE  CopyOK(q)'
<1>1. call[q].token \in Token /\ Stored(call[q].token)
  BY RunningBound, CallTypes DEF CopySteps, Bound, PrincipalSteps, ServedSteps
<1>2. Keeps(call[q].token)
  BY <1>1
<1>3. /\ sessions'[call[q].token].created = sessions[call[q].token].created
      /\ granted'[call[q].token] = granted[call[q].token]
  BY <1>1, <1>2 DEF Keeps
<1> QED
  BY <1>3 DEF CopyOK, CopySteps, WithinGrant, ForceEnd

LEMMA SinceLoginStays ==
    ASSUME TypeOK, TypeOK', NEW q \in Request, SinceLogin(q), pc[q] \in PrincipalSteps,
           \A k \in Token : Keeps(k), call'[q] = call[q], at[q] <= at'[q]
    PROVE  SinceLogin(q)'
<1>1. call[q].token \in Token /\ Stored(call[q].token)
  BY RunningBound, CallTypes DEF Bound, PrincipalSteps
<1>2. granted'[call[q].token] = granted[call[q].token]
  BY <1>1 DEF Keeps
<1>3. granted[call[q].token] \in Nat /\ at[q] \in Nat /\ at'[q] \in Nat /\ SessionTTL \in Nat
  BY <1>1, SessionsAssumption DEF TypeOK
<1> QED
  BY <1>2, <1>3 DEF SinceLogin

LEMMA MovesOK ==
    ASSUME TypeOK, TypeOK', PrincipalsOK, NEW r \in Request, Moves(r),
           CourseOK(r)', CopyOK(r)', SinceLogin(r)',
           \A k \in revokedBefore'[r] : Stored(k) /\ sessions[k].revoked,
           sessions'[r] # NoSession /\ ~Stored(r) =>
               granted'[r] <= now + SessionTTL /\ WithinGrant(r, sessions[r])'
    PROVE  PrincipalsOK'
<1>1. ASSUME NEW k \in Token, Stored(k)'
      PROVE  (granted[k] <= now + SessionTTL /\ WithinGrant(k, sessions[k]))'
  <2>1. CASE Stored(k)
    BY <2>1 DEF Moves, Keeps, PrincipalsOK, WithinGrant, ForceEnd
  <2>2. CASE ~Stored(k)
    BY <1>1, <2>2 DEF Moves, Stored
  <2> QED
    BY <2>1, <2>2
<1>2. ASSUME NEW q \in Request, q # r
      PROVE  (CourseOK(q) /\ CopyOK(q) /\ SinceLogin(q))'
  <2>1. CourseOK(q) /\ CopyOK(q) /\ SinceLogin(q)
    BY DEF PrincipalsOK
  <2>2. CourseOK(q)'
    BY <1>2, <2>1 DEF Moves, OthersStay, CourseOK, Stored, Token
  <2>3. CopyOK(q)'
    BY <1>2, <2>1, CopyStays DEF Moves, OthersStay, CopyOK, CopySteps
  <2>4. SinceLogin(q)'
    <3>1. at[q] <= at'[q]
      BY <1>2 DEF Moves, OthersStay, TypeOK
    <3>2. pc'[q] = pc[q] /\ call'[q] = call[q] /\ \A k \in Token : Keeps(k)
      BY <1>2 DEF Moves, OthersStay
    <3>3. CASE pc[q] \in PrincipalSteps
      BY <2>1, <3>1, <3>2, <3>3, SinceLoginStays
    <3>4. CASE pc[q] \notin PrincipalSteps
      BY <3>2, <3>4 DEF SinceLogin
    <3> QED
      BY <3>3, <3>4
  <2> QED
    BY <2>2, <2>3, <2>4
<1>3. ASSUME NEW q \in Request, NEW k \in revokedBefore'[q]
      PROVE  (Stored(k) /\ sessions[k].revoked)'
  <2>1. Stored(k) /\ sessions[k].revoked
    BY <1>3 DEF Moves, OthersStay, PrincipalsOK
  <2>2. k \in Token
    BY <1>3 DEF TypeOK
  <2> QED
    BY <2>1, <2>2 DEF Moves, Keeps, Stored
<1> QED
  BY <1>1, <1>2, <1>3 DEF PrincipalsOK

\* The course of the request that moves.
LEMMA AdvanceCourse ==
    ASSUME TypeOK, PrincipalsOK, NEW r \in Request, NEW step, NEW t \in Nat,
           Advance(r, step, t), t <= now, now' = now, pc[r] # "done", step # "idle",
           r \in committed' => step \in {"respond", "done"},
           sessions'[r] # NoSession => r \in committed'
    PROVE  CourseOK(r)' /\ pc'[r] = step /\ at'[r] = t
<1>1. pc'[r] = step /\ at'[r] = t /\ answer'[r] = answer[r]
  BY DEF Advance, TypeOK
<1>2. answer[r] = "none"
  BY DEF PrincipalsOK, CourseOK
<1> QED
  BY <1>1, <1>2 DEF CourseOK, Stored

LEMMA FinishCourse ==
    ASSUME TypeOK, PrincipalsOK, NEW r \in Request, NEW status,
           Finish(r, status), now' = now, sessions'[r] # NoSession => r \in committed'
    PROVE  CourseOK(r)' /\ CopyOK(r)' /\ SinceLogin(r)' /\ pc'[r] = "done"
<1>1. pc'[r] = "done" /\ at'[r] = at[r]
  BY DEF Finish, TypeOK
<1>2. at[r] <= now
  BY DEF PrincipalsOK, CourseOK
<1> QED
  BY <1>1, <1>2 DEF CourseOK, CopyOK, SinceLogin, Stored, ServedSteps, PrincipalSteps

LEMMA OthersStayServed ==
    ASSUME TypeOK, NEW r \in Request, Begin(r) \/ Serve(r) \/ Abort(r)
    PROVE  OthersStay(r) /\ now' = now
<1> USE DEF OthersStay, TypeOK, Advance, Finish
<1>1. CASE Begin(r)
  BY <1>1 DEF Begin, copies
<1>2. CASE LoginLookup(r)
  BY <1>2 DEF LoginLookup, history
<1>3. CASE LoginRehash(r)
  BY <1>3 DEF LoginRehash, copies, history
<1>4. CASE LoginRefresh(r)
  BY <1>4 DEF LoginRefresh, copies, history
<1>5. CASE LoginInsert(r)
  BY <1>5 DEF LoginInsert, copies
<1>6. CASE SelectSession(r)
  BY <1>6 DEF SelectSession, history
<1>7. CASE LoadAccount(r)
  BY <1>7 DEF LoadAccount, history
<1>8. CASE Touch(r)
  BY <1>8 DEF Touch, history
<1>9. CASE Logout(r)
  BY <1>9 DEF Logout, copies
<1>10. CASE UpdateProfile(r)
  BY <1>10 DEF UpdateProfile, copies
<1>11. CASE ChangeFlush(r)
  BY <1>11 DEF ChangeFlush, copies, history
<1>12. CASE ChangeSweep(r)
  BY <1>12 DEF ChangeSweep, history
<1>13. CASE ChangeCommit(r)
  BY <1>13 DEF ChangeCommit, copies
<1>14. CASE Respond(r)
  BY <1>14 DEF Respond, copies, history
<1>15. CASE Abort(r)
  BY <1>15 DEF Abort, copies, history
<1> QED
  BY <1>1, <1>2, <1>3, <1>4, <1>5, <1>6, <1>7, <1>8, <1>9, <1>10, <1>11, <1>12, <1>13,
     <1>14, <1>15 DEF Serve

LEMMA ServedKeeps ==
    ASSUME TypeOK, PrincipalsOK, NEW r \in Request, Begin(r) \/ Serve(r) \/ Abort(r)
    PROVE  Moves(r)
<1>1. OthersStay(r) /\ now' = now
  BY OthersStayServed
<1>2. CASE UNCHANGED <<sessions, granted>>
  BY <1>1, <1>2, UnchangedKeeps DEF Moves, Stored
<1>3. CASE LoginInsert(r)
  <2>1. \A k \in Token : k # r => sessions'[k] = sessions[k]
    BY <1>3 DEF LoginInsert, TypeOK
  <2> QED
    BY <1>1, <1>3, <2>1, LoginInsertKeeps DEF Moves, Stored
<1>4. CASE Touch(r)
  <2>1. \A k \in Token : k # call[r].token => sessions'[k] = sessions[k]
    BY <1>4 DEF Touch, TypeOK
  <2>2. Stored(call[r].token)
    BY <1>4, RunningBound DEF Touch, Bound, PrincipalSteps
  <2> QED
    BY <1>1, <1>4, <2>1, <2>2, TouchKeeps DEF Moves, Stored
<1>5. CASE Logout(r)
  <2>1. Stored(call[r].token)
    BY <1>5, RunningBound DEF Logout, Bound, ServedSteps
  <2> QED
    BY <1>1, <1>5, <2>1, LogoutKeeps DEF Moves, Stored
<1>6. CASE ChangeCommit(r)
  <2>1. swept[r] \in SUBSET Token /\ \A k \in swept[r] : Stored(k)
    BY <1>6, RunningBound DEF ChangeCommit, Bound, TypeOK
  <2>2. UNCHANGED granted /\ sessions' = [k \in Token |->
           IF k \in swept[r] THEN Revoked(sessions[k]) ELSE sessions[k]]
    BY <1>6 DEF ChangeCommit
  <2>3. \A k \in Token : Keeps(k)
    BY <2>1, <2>2, RevokeKeeps
  <2>4. \A k \in Token : sessions'[k] # NoSession => Stored(k)
    BY <2>1, <2>2 DEF Stored
  <2> QED
    BY <1>1, <2>3, <2>4 DEF Moves
<1> QED
  BY <1>2, <1>3, <1>4, <1>5, <1>6
  DEF Serve, Begin, Abort, Respond, LoginLookup, LoginRehash, LoginRefresh, SelectSession,
      LoadAccount, UpdateProfile, ChangeFlush, ChangeSweep, rows, history

\* A request that has begun and stores no session keeps what MovesOK asks of it.
LEMMA BegunOK ==
    ASSUME TypeOK, TypeOK', PrincipalsOK, NEW r \in Request, Moves(r),
           revokedBefore'[r] = revokedBefore[r], sessions'[r] # NoSession => Stored(r),
           CourseOK(r)', CopyOK(r)', SinceLogin(r)'
    PROVE  PrincipalsOK'
<1>1. \A k \in revokedBefore'[r] : Stored(k) /\ sessions[k].revoked
  BY DEF PrincipalsOK
<1> QED
  BY <1>1, MovesOK

LEMMA StoredCommitted ==
    ASSUME PrincipalsOK, NEW r \in Request, Stored(r) PROVE r \in committed
BY DEF PrincipalsOK, CourseOK

LEMMA RememberedClock ==
    ASSUME TypeOK, PrincipalsOK, NEW r \in Request
    PROVE  at[r] \in Nat /\ now \in Nat /\ at[r] <= now
BY DEF TypeOK, PrincipalsOK, CourseOK

\* A request that has not committed and goes on, or ends.
LEMMA UncommittedOK ==
    ASSUME TypeOK, TypeOK', PrincipalsOK, NEW r \in Request, Moves(r),
           pc[r] \notin {"idle", "respond", "done"},
           UNCHANGED <<sessions, committed, revokedBefore>>,
           \/ \E status : Finish(r, status)
           \/ \E step \in LoginSteps, t \in {at[r], now} : Advance(r, step, t)
    PROVE  PrincipalsOK'
<1>1. ~Stored(r) /\ r \notin committed
  BY DEF PrincipalsOK, CourseOK
<1>2. at[r] \in Nat /\ now \in Nat /\ at[r] <= now /\ now' = now
  BY RememberedClock DEF Moves
<1>3. ASSUME NEW status, Finish(r, status) PROVE PrincipalsOK'
  BY <1>1, <1>2, <1>3, FinishCourse, BegunOK DEF Stored
<1>4. ASSUME NEW step \in LoginSteps, NEW t \in {at[r], now}, Advance(r, step, t)
      PROVE  PrincipalsOK'
  <2>1. step # "idle" /\ step \notin PrincipalSteps /\ step \notin CopySteps
    BY DEF LoginSteps, PrincipalSteps, CopySteps, ServedSteps
  <2>2. CourseOK(r)' /\ pc'[r] = step
    BY <1>1, <1>2, <1>4, <2>1, AdvanceCourse DEF Stored
  <2>3. CopyOK(r)' /\ SinceLogin(r)'
    BY <2>1, <2>2 DEF CopyOK, SinceLogin, CopySteps
  <2> QED
    BY <1>1, <2>2, <2>3, BegunOK DEF Stored
<1> QED
  BY <1>3, <1>4

LEMMA LoginOK ==
    ASSUME TypeOK, TypeOK', PrincipalsOK, NEW r \in Request,
           LoginLookup(r) \/ LoginRehash(r) \/ LoginRefresh(r)
    PROVE  PrincipalsOK'
<1>1. Moves(r)
  BY ServedKeeps DEF Serve
<1>2. pc[r] \notin {"idle", "respond", "done"}
  BY DEF LoginLookup, LoginRehash, LoginRefresh
<1>3. UNCHANGED <<sessions, committed, revokedBefore>>
  BY DEF LoginLookup, LoginRehash, LoginRefresh, rows, history
<1>4. \/ \E status : Finish(r, status)
      \/ \E step \in LoginSteps, t \in {at[r], now} : Advance(r, step, t)
  BY DEF LoginLookup, LoginRehash, LoginRefresh, LoginSteps
<1> QED
  BY <1>1, <1>2, <1>3, <1>4, UncommittedOK

LEMMA LoginInsertOK ==
    ASSUME TypeOK, TypeOK', PrincipalsOK, NEW r \in Request, LoginInsert(r)
    PROVE  PrincipalsOK'
<1>1. Moves(r)
  BY ServedKeeps DEF Serve
<1>2. pc[r] = "insert" /\ UNCHANGED revokedBefore
  BY DEF LoginInsert
<1>3. CASE UNCHANGED <<sessions, committed>> /\ \E status : Finish(r, status)
  BY <1>1, <1>2, <1>3, UncommittedOK
<1>4. ASSUME NEW t \in at[r] .. now, ~(ForceTTL < SessionTTL),
             sessions' = [sessions EXCEPT ![r] =
                 [account |-> call[r].account, created |-> at[r],
                  expires |-> t + SessionTTL, revoked |-> FALSE]],
             granted' = [granted EXCEPT ![r] = t + SessionTTL],
             committed' = committed \union {r},
             Advance(r, "respond", at[r])
      PROVE  PrincipalsOK'
  <2>1. r \in Token /\ at[r] \in Nat /\ now \in Nat /\ at[r] <= now /\ now' = now
    BY <1>1, RememberedClock DEF Token, Moves
  <2>2. CourseOK(r)' /\ pc'[r] = "respond"
    BY <1>2, <1>4, <2>1, AdvanceCourse
  <2>3. CopyOK(r)' /\ SinceLogin(r)'
    BY <2>2 DEF CopyOK, SinceLogin, CopySteps, ServedSteps, PrincipalSteps
  <2>4. sessions'[r].expires = t + SessionTTL /\ granted'[r] = t + SessionTTL
    BY <1>4, <2>1 DEF TypeOK
  <2>5. granted'[r] <= now + SessionTTL /\ WithinGrant(r, sessions[r])'
    BY <2>1, <2>4, SessionsAssumption DEF WithinGrant
  <2>6. \A k \in revokedBefore'[r] : Stored(k) /\ sessions[k].revoked
    BY <1>2 DEF PrincipalsOK
  <2> QED
    BY <1>1, <2>2, <2>3, <2>5, <2>6, MovesOK
<1> QED
  BY <1>3, <1>4 DEF LoginInsert

LEMMA SelectSessionOK ==
    ASSUME TypeOK, TypeOK', PrincipalsOK, NEW r \in Request, SelectSession(r)
    PROVE  PrincipalsOK'
<1>1. Moves(r) /\ pc[r] = "session"
  BY ServedKeeps DEF Serve, SelectSession
<1>2. UNCHANGED <<sessions, granted, committed, revokedBefore, call>>
  BY DEF SelectSession, rows, history
<1>3. CASE \E status : Finish(r, status)
  BY <1>1, <1>2, <1>3, UncommittedOK
<1>4. ASSUME Live(sessions[call[r].token], at[r]), Advance(r, "account", at[r]),
             mySession' = [mySession EXCEPT ![r] = sessions[call[r].token]]
      PROVE  PrincipalsOK'
  <2>1. ~Stored(r) /\ r \notin committed
    BY <1>1 DEF PrincipalsOK, CourseOK
  <2>2. at[r] \in Nat /\ at[r] <= now /\ now' = now
    BY <1>1, RememberedClock DEF Moves
  <2>3. CourseOK(r)' /\ pc'[r] = "account" /\ at'[r] = at[r]
    BY <1>1, <1>2, <1>4, <2>1, <2>2, AdvanceCourse DEF Stored
  <2>4. Stored(call[r].token) /\ call[r].token \in Token
    BY <1>1, RunningBound, CallTypes DEF Bound, PrincipalSteps
  <2>5. mySession'[r] = sessions[call[r].token]
    BY <1>4 DEF TypeOK
  <2>6. ~sessions[call[r].token].revoked
    BY <1>4 DEF Live
  <2>7. CopyOK(r)'
    <3>1. WithinGrant(call[r].token, sessions[call[r].token])
      BY <2>4 DEF PrincipalsOK
    <3>2. call[r].token \notin revokedBefore[r]
      BY <2>6 DEF PrincipalsOK
    <3> QED
      BY <1>2, <2>5, <2>6, <3>1, <3>2 DEF CopyOK, WithinGrant, ForceEnd
  <2>8. SinceLogin(r)'
    BY <1>1, <1>2, <2>3 DEF PrincipalsOK, SinceLogin, PrincipalSteps
  <2> QED
    BY <1>1, <1>2, <2>1, <2>3, <2>7, <2>8, BegunOK DEF Stored
<1> QED
  BY <1>3, <1>4 DEF SelectSession

\* A request that keeps its copy of the session from step to step.
LEMMA CopiedOK ==
    ASSUME TypeOK, TypeOK', PrincipalsOK, NEW r \in Request, Moves(r),
           pc[r] \in CopySteps, UNCHANGED <<call, revokedBefore>>,
           mySession'[r] = mySession[r], sessions'[r] # NoSession => Stored(r),
           NEW step \in CopySteps \union {"respond"}, NEW t \in Nat,
           at[r] <= t, t <= now, Advance(r, step, t),
           r \in committed' => r \in committed \/ step = "respond", committed \subseteq committed',
           step \in PrincipalSteps => pc[r] \in PrincipalSteps
    PROVE  PrincipalsOK'
<1>1. CopyOK(r) /\ SinceLogin(r) /\ CourseOK(r)
  BY DEF PrincipalsOK
<1>2. ~Stored(r) /\ r \notin committed /\ pc[r] # "done" /\ now' = now
  BY <1>1 DEF CourseOK, CopySteps, ServedSteps, Moves
<1>3. CourseOK(r)' /\ pc'[r] = step /\ at'[r] = t
  <2>1. step # "idle"
    BY DEF CopySteps, ServedSteps
  <2>2. r \in committed' => step \in {"respond", "done"}
    BY <1>2
  <2> QED
    BY <1>2, <2>1, <2>2, AdvanceCourse
<1>4. \A k \in Token : Keeps(k)
  BY DEF Moves
<1>5. CopyOK(r)'
  BY <1>1, <1>4, CopyStays
<1>6. SinceLogin(r)'
  <2>1. CASE step \in PrincipalSteps
    BY <1>1, <1>3, <1>4, <2>1, SinceLoginStays
  <2>2. CASE step \notin PrincipalSteps
    BY <1>3, <2>2 DEF SinceLogin
  <2> QED
    BY <2>1, <2>2
<1> QED
  BY <1>3, <1>5, <1>6, BegunOK

LEMMA LoadAccountOK ==
    ASSUME TypeOK, TypeOK', PrincipalsOK, NEW r \in Request, LoadAccount(r)
    PROVE  PrincipalsOK'
<1>1. Moves(r) /\ pc[r] = "account"
  BY ServedKeeps DEF Serve, LoadAccount
<1>2. UNCHANGED <<sessions, committed, revokedBefore, call, mySession>>
  BY DEF LoadAccount, rows, history
<1>3. CASE \E status : Finish(r, status)
  BY <1>1, <1>2, <1>3, UncommittedOK
<1>4. CASE Advance(r, "touch", now)
  <2>1. at[r] <= now /\ now \in Nat
    BY RememberedClock
  <2>2. pc[r] \in CopySteps /\ pc[r] \in PrincipalSteps /\ "touch" \in CopySteps
    BY <1>1 DEF CopySteps, PrincipalSteps
  <2> QED
    BY <1>1, <1>2, <1>4, <2>1, <2>2, CopiedOK DEF Stored
<1> QED
  BY <1>3, <1>4 DEF LoadAccount

LEMMA AfterTouchSteps ==
    ASSUME NEW op
    PROVE  AfterTouch(op) \in ServedSteps \union {"respond"} /\ AfterTouch(op) \notin PrincipalSteps
BY DEF AfterTouch, ServedSteps, PrincipalSteps

LEMMA TouchOK ==
    ASSUME TypeOK, TypeOK', PrincipalsOK, NEW r \in Request, Touch(r)
    PROVE  PrincipalsOK'
<1> DEFINE k == call[r].token
           s == mySession[r]
<1>1. Moves(r) /\ pc[r] = "touch"
  BY ServedKeeps DEF Serve, Touch
<1>2. UNCHANGED <<granted, committed, revokedBefore, call>>
  BY DEF Touch, history
<1>3. at[r] \in Nat /\ now \in Nat /\ at[r] <= now /\ now' = now
  BY <1>1, RememberedClock DEF Moves
<1>4. CASE UNCHANGED sessions /\ \E status : Finish(r, status)
  BY <1>1, <1>2, <1>4, UncommittedOK
<1>5. ASSUME NEW t \in at[r] .. now, UNCHANGED <<sessions, mySession>>,
             Advance(r, AfterTouch(call[r].op), t)
      PROVE  PrincipalsOK'
  <2>1. pc[r] \in CopySteps /\ t \in Nat /\ at[r] <= t /\ t <= now
    BY <1>1, <1>3 DEF CopySteps
  <2>2. /\ AfterTouch(call[r].op) \in CopySteps \union {"respond"}
        /\ AfterTouch(call[r].op) \notin PrincipalSteps
    BY AfterTouchSteps DEF CopySteps
  <2> QED
    BY <1>1, <1>2, <1>5, <2>1, <2>2, CopiedOK DEF Stored
<1>6. ASSUME NEW t \in at[r] .. now, Renews(s, t),
             mySession' = [mySession EXCEPT ![r] = WithExpiry(s, RenewedExpiry(s, t))],
             sessions' = [sessions EXCEPT ![k] =
                MergeSession(@, s, WithExpiry(s, RenewedExpiry(s, t)))],
             Advance(r, AfterTouch(call[r].op), t)
      PROVE  PrincipalsOK'
  <2> DEFINE e == RenewedExpiry(s, t)
  <2>1. k \in Token /\ Stored(k) /\ s \in SessionRow /\ granted[k] \in Nat
    BY <1>1, RunningBound, CallTypes DEF Bound, PrincipalSteps, TypeOK
  <2>2. t \in Nat /\ at[r] <= t /\ t <= now
    BY <1>3
  <2>3. ~Stored(r) /\ r \notin committed
    BY <1>1 DEF PrincipalsOK, CourseOK
  <2>4. sessions'[r] = sessions[r]
    BY <1>6, <2>1, <2>3 DEF TypeOK, Token
  <2>5. /\ AfterTouch(call[r].op) \in ServedSteps \union {"respond"}
        /\ AfterTouch(call[r].op) \notin PrincipalSteps
    BY AfterTouchSteps
  <2>6. CourseOK(r)' /\ pc'[r] = AfterTouch(call[r].op)
    <3>1. AfterTouch(call[r].op) # "idle" /\ pc[r] # "done"
      BY <1>1, <2>5 DEF ServedSteps
    <3> QED
      BY <1>2, <1>3, <1>6, <2>2, <2>3, <2>4, <3>1, AdvanceCourse DEF Stored
  <2>7. SinceLogin(r)'
    BY <2>5, <2>6 DEF SinceLogin
  <2>8. /\ ~s.revoked /\ s.created = sessions[k].created /\ WithinGrant(k, s)
        /\ k \notin revokedBefore[r] /\ granted[k] <= at[r] + SessionTTL
    BY <1>1 DEF PrincipalsOK, CopyOK, SinceLogin, PrincipalSteps
  <2>9. granted[k] <= e /\ e <= s.created + ForceTTL
    <3>1. granted[k] <= t + SessionTTL
      BY <1>3, <2>1, <2>2, <2>8, SessionsAssumption
    <3> QED
      BY <1>6, <2>1, <2>2, <2>8, <3>1, RenewedWithinGrant DEF WithinGrant
  <2>10. mySession'[r] = WithExpiry(s, e)
    BY <1>6 DEF TypeOK
  <2>11. /\ mySession'[r].revoked = s.revoked /\ mySession'[r].created = s.created
         /\ mySession'[r].expires = e
    BY <2>10 DEF WithExpiry
  <2>12. sessions'[k].created = sessions[k].created /\ call'[r] = call[r]
    BY <1>1, <1>2, <2>1 DEF Moves, Keeps
  <2>13. CopyOK(r)'
    BY <1>2, <2>8, <2>9, <2>11, <2>12 DEF CopyOK, WithinGrant, ForceEnd
  <2> QED
    BY <1>1, <1>2, <2>4, <2>6, <2>7, <2>13, BegunOK DEF Stored
<1> QED
  BY <1>4, <1>5, <1>6 DEF Touch

\* A handler's step, on the session it was let in by.
LEMMA WritesOK ==
    ASSUME TypeOK, TypeOK', PrincipalsOK, NEW r \in Request,
           Logout(r) \/ UpdateProfile(r) \/ ChangeFlush(r) \/ ChangeSweep(r) \/ ChangeCommit(r)
    PROVE  PrincipalsOK'
<1>1. Moves(r) /\ pc[r] \in ServedSteps /\ pc[r] \in CopySteps
  BY ServedKeeps DEF Serve, Logout, UpdateProfile, ChangeFlush, ChangeSweep, ChangeCommit,
                     ServedSteps, CopySteps
<1>2. at[r] \in Nat /\ at[r] <= now
  BY RememberedClock
<1>3. UNCHANGED <<call, mySession, revokedBefore>>
  BY DEF Logout, UpdateProfile, ChangeFlush, ChangeSweep, ChangeCommit, copies, history
<1>4. ~Stored(r) /\ r \notin committed
  BY <1>1 DEF PrincipalsOK, CourseOK, ServedSteps
<1>5. sessions'[r] = NoSession
  <2>1. r \in Token /\ sessions[r] = NoSession
    BY <1>4 DEF Token, Stored
  <2>2. CASE Logout(r)
    <3>1. Stored(call[r].token)
      BY <1>1, RunningBound DEF Bound, ServedSteps
    <3>2. call[r].token # r
      BY <1>4, <3>1
    <3> QED
      BY <2>1, <2>2, <3>2 DEF Logout, TypeOK
  <2>3. CASE ChangeCommit(r)
    <3>1. r \notin swept[r]
      BY <1>4, <2>3, RunningBound DEF Bound, ChangeCommit
    <3> QED
      BY <2>1, <2>3, <3>1 DEF ChangeCommit
  <2>4. CASE UNCHANGED sessions
    BY <2>1, <2>4
  <2> QED
    BY <2>2, <2>3, <2>4 DEF UpdateProfile, ChangeFlush, ChangeSweep, rows
<1>6. CASE committed' = committed \union {r} /\ Advance(r, "respond", at[r])
  BY <1>1, <1>2, <1>3, <1>5, <1>6, CopiedOK DEF PrincipalSteps
<1>7. ASSUME NEW step \in ServedSteps, Advance(r, step, at[r]), UNCHANGED committed
      PROVE  PrincipalsOK'
  <2>1. step \in CopySteps /\ step \notin PrincipalSteps
    BY DEF CopySteps, ServedSteps, PrincipalSteps
  <2> QED
    BY <1>1, <1>2, <1>3, <1>5, <1>7, <2>1, CopiedOK
<1>8. CASE /\ UNCHANGED <<sessions, committed, revokedBefore>>
           /\ \E status : Finish(r, status)
  BY <1>1, <1>8, UncommittedOK DEF ServedSteps
<1> QED
  BY <1>6, <1>7, <1>8
  DEF Logout, UpdateProfile, ChangeFlush, ChangeSweep, ChangeCommit, ServedSteps, rows, history

LEMMA EndOK ==
    ASSUME TypeOK, TypeOK', PrincipalsOK, NEW r \in Request, Respond(r) \/ Abort(r)
    PROVE  PrincipalsOK'
<1>1. Moves(r) /\ now' = now
  BY ServedKeeps DEF Serve, Moves
<1>2. UNCHANGED <<sessions, committed, revokedBefore>> /\ \E status : Finish(r, status)
  BY DEF Respond, Abort, rows, history
<1>3. Stored(r) => r \in committed
  BY StoredCommitted
<1> QED
  BY <1>1, <1>2, <1>3, FinishCourse, BegunOK DEF Stored

LEMMA BeginOK ==
    ASSUME TypeOK, TypeOK', PrincipalsOK, NEW r \in Request, Begin(r)
    PROVE  PrincipalsOK'
<1>1. Moves(r) /\ pc[r] = "idle" /\ now' = now
  BY ServedKeeps DEF Begin, Moves
<1>2. UNCHANGED <<sessions, granted, committed>>
  BY DEF Begin, rows
<1>3. now \in Nat
  BY DEF TypeOK
<1>4. ~Stored(r) /\ r \notin committed
  BY <1>1 DEF PrincipalsOK, CourseOK
<1>5. PICK o \in Offered, k \in Token :
         /\ o.op # "login" => Stored(k)
         /\ call' = [call EXCEPT ![r] =
               [op |-> o.op, account |-> o.account, password |-> o.password,
                new |-> o.new, name |-> o.name, token |-> k]]
         /\ Advance(r, IF o.op = "login" THEN "lookup" ELSE "session", now)
  BY DEF Begin
<1>6. CourseOK(r)' /\ pc'[r] = (IF o.op = "login" THEN "lookup" ELSE "session") /\ at'[r] = now
  BY <1>1, <1>2, <1>3, <1>4, <1>5, AdvanceCourse DEF Stored
<1>7. CopyOK(r)'
  BY <1>6 DEF CopyOK, ServedSteps
<1>8. SinceLogin(r)'
  <2>1. CASE o.op = "login"
    BY <1>6, <2>1 DEF SinceLogin, PrincipalSteps
  <2>2. CASE o.op # "login"
    <3>1. call'[r].token = k
      BY <1>5 DEF TypeOK
    <3>2. granted[k] <= now + SessionTTL
      BY <1>5, <2>2 DEF PrincipalsOK
    <3> QED
      BY <1>2, <1>6, <3>1, <3>2 DEF SinceLogin
  <2> QED
    BY <2>1, <2>2
<1>9. \A i \in revokedBefore'[r] : Stored(i) /\ sessions[i].revoked
  BY DEF Begin, TypeOK
<1> QED
  BY <1>1, <1>2, <1>4, <1>6, <1>7, <1>8, <1>9, MovesOK DEF Stored

-----------------------------------------------------------------------------
(* Steps that are no request's.                                                *)

\* Only the rows or the clock change.
LEMMA AroundOK ==
    ASSUME TypeOK, TypeOK', PrincipalsOK, now <= now',
           UNCHANGED <<pc, call, at, copies, answer, granted, committed, revokedBefore>>,
           \A k \in Token : Keeps(k) /\ (sessions'[k] # NoSession => Stored(k))
    PROVE  PrincipalsOK'
<1>1. ASSUME NEW k \in Token, Stored(k)'
      PROVE  (granted[k] <= now + SessionTTL /\ WithinGrant(k, sessions[k]))'
  <2>1. Stored(k) /\ Keeps(k)
    BY <1>1 DEF Stored
  <2>2. granted[k] <= now + SessionTTL /\ WithinGrant(k, sessions[k])
    BY <2>1 DEF PrincipalsOK
  <2>3. granted[k] <= now' + SessionTTL
    BY <2>2, SessionsAssumption DEF TypeOK
  <2> QED
    BY <2>1, <2>2, <2>3 DEF Keeps, WithinGrant, ForceEnd
<1>2. ASSUME NEW q \in Request
      PROVE  (CourseOK(q) /\ CopyOK(q) /\ SinceLogin(q))'
  <2>1. CourseOK(q) /\ CopyOK(q) /\ SinceLogin(q)
    BY DEF PrincipalsOK
  <2>2. CourseOK(q)'
    <3>1. at[q] <= now'
      BY <2>1 DEF CourseOK, TypeOK
    <3>2. sessions'[q] # NoSession => Stored(q)
      BY DEF Token
    <3> QED
      BY <2>1, <3>1, <3>2 DEF CourseOK, Stored
  <2>3. CopyOK(q)'
    <3>1. CASE pc[q] \in CopySteps
      BY <2>1, <3>1, CopyStays DEF copies
    <3>2. CASE pc[q] \notin CopySteps
      BY <3>2 DEF CopyOK, CopySteps
    <3> QED
      BY <3>1, <3>2
  <2>4. SinceLogin(q)'
    <3>1. CASE pc[q] \in PrincipalSteps
      <4>1. at[q] <= at'[q]
        BY DEF TypeOK
      <4> QED
        BY <2>1, <3>1, <4>1, SinceLoginStays
    <3>2. CASE pc[q] \notin PrincipalSteps
      BY <3>2 DEF SinceLogin
    <3> QED
      BY <3>1, <3>2
  <2> QED
    BY <2>2, <2>3, <2>4
<1>3. ASSUME NEW q \in Request, NEW k \in revokedBefore'[q]
      PROVE  (Stored(k) /\ sessions[k].revoked)'
  <2>1. Stored(k) /\ sessions[k].revoked /\ k \in Token
    BY <1>3 DEF PrincipalsOK, TypeOK
  <2> QED
    BY <2>1 DEF Keeps, Stored
<1> QED
  BY <1>1, <1>2, <1>3 DEF PrincipalsOK

Administers(a) ==
    \/ \E status \in {"active", "inactive"} : SetStatus(a, status)
    \/ \E p \in Password : ResetPassword(a, p)
    \/ RevokeAll(a)
    \/ DeleteAccount(a)

LEMMA AroundKeeps ==
    ASSUME TypeOK, (\E a \in Account : Administers(a)) \/ Tick \/ UNCHANGED vars
    PROVE  /\ now <= now'
           /\ UNCHANGED <<pc, call, at, copies, answer, granted, committed, revokedBefore>>
           /\ \A k \in Token : Keeps(k) /\ (sessions'[k] # NoSession => Stored(k))
<1>1. /\ now <= now'
      /\ UNCHANGED <<pc, call, at, copies, answer, granted, committed, revokedBefore>>
  BY DEF Administers, SetStatus, ResetPassword, RevokeAll, DeleteAccount, Tick, vars, TypeOK,
         history
<1>2. CASE UNCHANGED sessions
  BY <1>1, <1>2, UnchangedKeeps DEF Stored
<1>3. ASSUME NEW a \in Account, RevokeAll(a)
      PROVE  \A k \in Token : Keeps(k) /\ (sessions'[k] # NoSession => Stored(k))
  <2>1. SessionsOf(a) \in SUBSET Token /\ \A k \in SessionsOf(a) : Stored(k)
    BY DEF SessionsOf
  <2>2. sessions' = [k \in Token |->
           IF k \in SessionsOf(a) THEN Revoked(sessions[k]) ELSE sessions[k]]
    BY <1>3 DEF RevokeAll
  <2>3. \A k \in Token : Keeps(k)
    BY <1>1, <2>1, <2>2, RevokeKeeps
  <2> QED
    BY <2>1, <2>2, <2>3 DEF Stored
<1> QED
  BY <1>1, <1>2, <1>3
  DEF Administers, SetStatus, ResetPassword, DeleteAccount, Tick, vars, rows

LEMMA InitPrincipals == Init => PrincipalsOK
<1> SUFFICES ASSUME Init PROVE PrincipalsOK
  OBVIOUS
<1>1. ASSUME NEW k \in Token, Stored(k)
      PROVE  granted[k] <= now + SessionTTL /\ WithinGrant(k, sessions[k])
  <2>1. k \in InitialToken
    BY <1>1 DEF Init, Stored
  <2>2. granted[k] = SessionTTL /\ sessions[k].expires = SessionTTL /\ now = 0
    BY <2>1 DEF Init
  <2> QED
    BY <2>2, SessionsAssumption DEF WithinGrant
<1>2. ASSUME NEW r \in Request
      PROVE  CourseOK(r) /\ CopyOK(r) /\ SinceLogin(r) /\ revokedBefore[r] = {}
  <2>1. ~Stored(r)
    BY SessionsAssumption DEF Init, Stored, Token
  <2> QED
    BY <2>1 DEF Init, CourseOK, CopyOK, SinceLogin, ServedSteps, PrincipalSteps
<1> QED
  BY <1>1, <1>2 DEF PrincipalsOK

LEMMA StepPrincipals ==
    TypeOK /\ TypeOK' /\ PrincipalsOK /\ [Next]_vars => PrincipalsOK'
<1> SUFFICES ASSUME TypeOK, TypeOK', PrincipalsOK, [Next]_vars PROVE PrincipalsOK'
  OBVIOUS
<1>1. ASSUME NEW r \in Request, Serve(r) PROVE PrincipalsOK'
  BY <1>1, LoginOK, LoginInsertOK, SelectSessionOK, LoadAccountOK, TouchOK, WritesOK, EndOK
  DEF Serve
<1>2. CASE (\E a \in Account : Administers(a)) \/ Tick \/ UNCHANGED vars
  BY <1>2, AroundKeeps, AroundOK
<1> QED
  BY <1>1, <1>2, BeginOK, EndOK DEF Next, Administers

\* What a request has copied of its session is right for the row: it agrees with
\* it on what never changes, was not revoked, and lies within what the login
\* granted, whichever requests renew or revoke the session in the meantime.
\* (get_current_principal, SessionService.touch, SessionService.revoke)
THEOREM PrincipalsCorrect == Spec => []PrincipalsOK
BY SessionsTypeCorrect, InitPrincipals, StepPrincipals, PTL DEF Spec

\* No step brings a session back that was revoked: a renewal that was decided on
\* an older copy writes only the expiry.  (SessionService.touch)
THEOREM RevocationIsFinal == Spec => RevokedIsFinal
<1>1. TypeOK /\ PrincipalsOK /\ [Next]_vars =>
         [\A k \in Token :
             Stored(k) /\ sessions[k].revoked => sessions'[k] # NoSession /\ sessions'[k].revoked
         ]_vars
  <2> SUFFICES ASSUME TypeOK, PrincipalsOK, [Next]_vars, NEW k \in Token PROVE Keeps(k)
    BY DEF Keeps
  <2>1. CASE (\E a \in Account : Administers(a)) \/ Tick \/ UNCHANGED vars
    BY <2>1, AroundKeeps
  <2>2. ASSUME NEW r \in Request, Begin(r) \/ Serve(r) \/ Abort(r) PROVE Keeps(k)
    BY <2>2, ServedKeeps DEF Moves
  <2> QED
    BY <2>1, <2>2 DEF Next, Administers
<1> QED
  BY SessionsTypeCorrect, PrincipalsCorrect, <1>1, PTL DEF Spec, RevokedIsFinal

\* A session is never shorter than its login announced, and its renewals never
\* go past its forced end.  (login, SessionService.touch)
THEOREM ExpiryIsWithinGrant == Spec => []ExpiryWithinGrant
<1>1. PrincipalsOK => ExpiryWithinGrant
  BY DEF PrincipalsOK, ExpiryWithinGrant
<1> QED
  BY PrincipalsCorrect, <1>1, PTL

-----------------------------------------------------------------------------
(* Who is served.                                                              *)

\* What was established when the session was touched, until the answer.
LetIn(r) ==
    Authenticated(r) =>
        /\ call[r] \in Call /\ Stored(call[r].token)
        /\ call[r].token \notin revokedBefore[r]
        /\ at[r] < ForceEnd(sessions[call[r].token])

LetInOK == \A r \in Request : LetIn(r)

LEMMA LetInStays ==
    ASSUME NEW q \in Request, LetIn(q), Authenticated(q),
           \A k \in Token : Keeps(k), call'[q] = call[q], at'[q] = at[q],
           revokedBefore'[q] = revokedBefore[q]
    PROVE  LetIn(q)'
<1>1. /\ call[q] \in Call /\ Stored(call[q].token) /\ call[q].token \in Token
      /\ call[q].token \notin revokedBefore[q] /\ at[q] < ForceEnd(sessions[call[q].token])
  BY CallTypes DEF LetIn
<1>2. /\ sessions'[call[q].token].created = sessions[call[q].token].created
      /\ sessions'[call[q].token] # NoSession
  BY <1>1 DEF Keeps
<1> QED
  BY <1>1, <1>2 DEF LetIn, ForceEnd, Stored

LEMMA NotServed ==
    ASSUME TypeOK, PrincipalsOK, NEW r \in Request,
           Begin(r) \/ LoginLookup(r) \/ LoginRehash(r) \/ LoginRefresh(r) \/ LoginInsert(r)
             \/ SelectSession(r) \/ LoadAccount(r) \/ Abort(r)
    PROVE  ~Authenticated(r)'
<1>1. CASE Begin(r)
  <2>1. answer'[r] = "none"
    BY <1>1 DEF Begin, Advance, PrincipalsOK, CourseOK
  <2>2. pc'[r] \in {"lookup", "session"}
    BY <1>1 DEF Begin, Advance, TypeOK
  <2> QED
    BY <2>1, <2>2 DEF Authenticated, ServedSteps
<1>2. ASSUME \/ \E step \in LoginSteps \union {"respond"} : \E t : Advance(r, step, t)
             \/ \E status \in {"unauthorized", "failed", "conflict"} : Finish(r, status),
             call[r].op = "login", call' = call
      PROVE  ~Authenticated(r)'
  <2>1. pc'[r] \in LoginSteps \union {"respond", "done"}
    BY <1>2 DEF Advance, Finish, TypeOK
  <2> QED
    BY <1>2, <2>1 DEF Authenticated, ServedSteps, LoginSteps
<1>3. CASE LoginLookup(r) \/ LoginRehash(r) \/ LoginRefresh(r) \/ LoginInsert(r)
  <2>1. call[r].op = "login"
    BY <1>3, RunningBound
    DEF LoginLookup, LoginRehash, LoginRefresh, LoginInsert, Bound, LoginSteps
  <2> QED
    BY <1>2, <1>3, <2>1 DEF LoginLookup, LoginRehash, LoginRefresh, LoginInsert, LoginSteps
<1>4. CASE SelectSession(r) \/ LoadAccount(r)
  <2>1. answer[r] = "none"
    BY <1>4 DEF SelectSession, LoadAccount, PrincipalsOK, CourseOK
  <2>2. /\ pc'[r] \in {"account", "touch", "done"}
        /\ answer'[r] \in {"none", "unauthorized"}
    BY <1>4, <2>1 DEF SelectSession, LoadAccount, Advance, Finish, TypeOK
  <2> QED
    BY <2>2 DEF Authenticated, ServedSteps
<1>5. CASE Abort(r)
  BY <1>5 DEF Abort, Finish, TypeOK, Authenticated, ServedSteps
<1> QED
  BY <1>1, <1>3, <1>4, <1>5

LEMMA TouchLetsIn ==
    ASSUME TypeOK, PrincipalsOK, NEW r \in Request, Touch(r)
    PROVE  LetIn(r)'
<1>1. Moves(r) /\ pc[r] = "touch"
  BY ServedKeeps DEF Serve, Touch
<1>2. call[r] \in Call /\ Stored(call[r].token) /\ call[r].token \in Token
  BY <1>1, RunningBound, CallTypes DEF Bound, PrincipalSteps
<1>3. answer[r] = "none"
  BY <1>1 DEF PrincipalsOK, CourseOK
<1>4. UNCHANGED <<call, revokedBefore>>
  BY DEF Touch, history
<1>5. CASE Finish(r, "unauthorized")
  BY <1>3, <1>5 DEF Finish, LetIn, Authenticated, ServedSteps, TypeOK
<1>6. ASSUME NEW t, Live(mySession[r], t), at'[r] = t
      PROVE  LetIn(r)'
  <2>1. /\ mySession[r].created = sessions[call[r].token].created
        /\ call[r].token \notin revokedBefore[r]
    BY <1>1 DEF PrincipalsOK, CopyOK
  <2>2. t < sessions[call[r].token].created + ForceTTL
    BY <1>6, <2>1 DEF Live, ForceEnd
  <2>3. /\ sessions'[call[r].token] # NoSession
        /\ sessions'[call[r].token].created = sessions[call[r].token].created
    BY <1>1, <1>2 DEF Moves, Keeps
  <2> QED
    BY <1>2, <1>4, <1>6, <2>1, <2>2, <2>3 DEF LetIn, ForceEnd, Stored
<1>7. ASSUME NEW t \in at[r] .. now, Live(mySession[r], t), Advance(r, AfterTouch(call[r].op), t)
      PROVE  LetIn(r)'
  <2>1. at'[r] = t
    BY <1>7 DEF Advance, TypeOK
  <2> QED
    BY <1>6, <1>7, <2>1
<1> QED
  BY <1>5, <1>7 DEF Touch

LEMMA StepLetIn ==
    TypeOK /\ PrincipalsOK /\ LetInOK /\ [Next]_vars => LetInOK'
<1> SUFFICES ASSUME TypeOK, PrincipalsOK, LetInOK, [Next]_vars, NEW q \in Request
             PROVE  LetIn(q)'
  BY DEF LetInOK
<1>1. LetIn(q)
  BY DEF LetInOK
<1>2. ASSUME \A k \in Token : Keeps(k), call'[q] = call[q], at'[q] = at[q], pc'[q] = pc[q],
             answer'[q] = answer[q], revokedBefore'[q] = revokedBefore[q]
      PROVE  LetIn(q)'
  <2>1. CASE Authenticated(q)
    BY <1>1, <1>2, <2>1, LetInStays
  <2>2. CASE ~Authenticated(q)
    BY <1>2, <2>2 DEF LetIn, Authenticated
  <2> QED
    BY <2>1, <2>2
<1>3. CASE (\E a \in Account : Administers(a)) \/ Tick \/ UNCHANGED vars
  BY <1>2, <1>3, AroundKeeps
<1>4. ASSUME NEW r \in Request, Begin(r) \/ Serve(r) \/ Abort(r), q # r
      PROVE  LetIn(q)'
  <2>1. Moves(r)
    BY <1>4, ServedKeeps
  <2> QED
    BY <1>2, <1>4, <2>1 DEF Moves, OthersStay
<1>5. CASE Logout(q) \/ UpdateProfile(q) \/ ChangeFlush(q) \/ ChangeSweep(q) \/ ChangeCommit(q)
  <2>1. Moves(q)
    BY <1>5, ServedKeeps DEF Serve
  <2>2. Authenticated(q)
    BY <1>5
    DEF Logout, UpdateProfile, ChangeFlush, ChangeSweep, ChangeCommit, Authenticated, ServedSteps
  <2>3. UNCHANGED <<call, revokedBefore>>
    BY <1>5 DEF Logout, UpdateProfile, ChangeFlush, ChangeSweep, ChangeCommit, history
  <2>4. at'[q] = at[q]
    BY <1>5
    DEF Logout, UpdateProfile, ChangeFlush, ChangeSweep, ChangeCommit, Advance, Finish, TypeOK
  <2> QED
    BY <1>1, <2>1, <2>2, <2>3, <2>4, LetInStays DEF Moves
<1>6. CASE Respond(q)
  <2>1. Moves(q) /\ pc[q] = "respond" /\ at' = at /\ UNCHANGED <<call, revokedBefore>>
    BY <1>6, ServedKeeps DEF Serve, Respond, Finish, history
  <2>2. CASE call[q].op = "login"
    BY <1>6, <2>1, <2>2 DEF Respond, Finish, TypeOK, LetIn, Authenticated, ServedSteps
  <2>3. CASE call[q].op # "login"
    BY <1>1, <2>1, <2>3, LetInStays DEF Moves, Authenticated
  <2> QED
    BY <2>2, <2>3
<1>7. CASE Begin(q) \/ Serve(q) \/ Abort(q)
  <2>1. CASE ~Authenticated(q)'
    BY <2>1 DEF LetIn
  <2> QED
    BY <1>5, <1>6, <1>7, <2>1, NotServed, TouchLetsIn DEF Serve
<1> QED
  BY <1>3, <1>4, <1>7 DEF Next, Administers

\* Nobody is served by a session that was revoked before the request began, nor
\* past its forced end, however often it was renewed.  (get_current_principal)
THEOREM EndedSessionsAreRefused == Spec => []EndedSessionsServeNobody
<1>1. Init => LetInOK
  BY DEF Init, LetInOK, LetIn, Authenticated, ServedSteps
<1>2. LetInOK => EndedSessionsServeNobody
  BY DEF LetInOK, LetIn, EndedSessionsServeNobody
<1> QED
  BY SessionsTypeCorrect, PrincipalsCorrect, <1>1, StepLetIn, <1>2, PTL DEF Spec

-----------------------------------------------------------------------------
(* Sessions and their accounts.                                                *)

\* A step that deletes no account and moves no session to another one.
LEMMA AccountsStay ==
    ASSUME TypeOK, SessionsHaveAccounts,
           \A a \in Account : accounts[a].status # "deleted" => accounts'[a].status # "deleted",
           \A k \in Token : sessions'[k] # NoSession =>
               \/ Stored(k) /\ sessions'[k].account = sessions[k].account
               \/ /\ sessions'[k].account \in Account
                  /\ accounts[sessions'[k].account].status # "deleted"
    PROVE  SessionsHaveAccounts'
<1>1. \A k \in Token : Stored(k) => sessions[k].account \in Account
  BY DEF TypeOK, Stored, SessionRow
<1> QED
  BY <1>1 DEF SessionsHaveAccounts, Stored

LEMMA MergeAccountStatus ==
    ASSUME NEW row, NEW copy, NEW new, new.status = copy.status
    PROVE  MergeAccount(row, copy, new).status = row.status
BY DEF MergeAccount, Written

LEMMA StatusStays ==
    ASSUME TypeOK, NEW a \in Account, NEW row, row.status = accounts[a].status,
           accounts' = [accounts EXCEPT ![a] = row]
    PROVE  \A b \in Account : accounts'[b].status = accounts[b].status
BY DEF TypeOK

LEMMA StepSessionsHaveAccounts ==
    TypeOK /\ SessionsHaveAccounts /\ [Next]_vars => SessionsHaveAccounts'
<1> SUFFICES ASSUME TypeOK, SessionsHaveAccounts, [Next]_vars PROVE SessionsHaveAccounts'
  OBVIOUS
<1>1. ASSUME UNCHANGED sessions,
             \A a \in Account : accounts'[a].status = accounts[a].status
      PROVE  SessionsHaveAccounts'
  BY <1>1, AccountsStay DEF Stored
<1>2. CASE UNCHANGED rows
  BY <1>1, <1>2 DEF rows
<1>3. ASSUME NEW r \in Request, Serve(r) PROVE SessionsHaveAccounts'
  <2>1. CASE LoginRehash(r)
    <3>1. call[r].account \in Account
      BY <2>1, RunningBound, CallTypes DEF LoginRehash
    <3>2. CASE UNCHANGED rows
      BY <1>2, <3>2
    <3>3. ASSUME accounts' = [accounts EXCEPT ![call[r].account] =
                    MergeAccount(@, myAccount[r],
                                 WithHash(myAccount[r], NewHash(call[r].password)))]
          PROVE  SessionsHaveAccounts'
      <4>1. MergeAccount(accounts[call[r].account], myAccount[r],
                WithHash(myAccount[r], NewHash(call[r].password))).status
              = accounts[call[r].account].status
        BY MergeAccountStatus DEF WithHash
      <4>2. \A b \in Account : accounts'[b].status = accounts[b].status
        BY <3>1, <3>3, <4>1, StatusStays
      <4> QED
        BY <1>1, <2>1, <4>2 DEF LoginRehash
    <3> QED
      BY <2>1, <3>2, <3>3 DEF LoginRehash, rows
  <2>2. CASE UpdateProfile(r)
    <3>1. call[r].account \in Account
      BY <2>2, RunningBound, CallTypes DEF UpdateProfile
    <3>2. accounts' = [accounts EXCEPT ![call[r].account] =
             MergeAccount(accounts[call[r].account], myAccount[r],
                          WithName(myAccount[r], call[r].name))]
      BY <2>2 DEF UpdateProfile
    <3>3. MergeAccount(accounts[call[r].account], myAccount[r],
                       WithName(myAccount[r], call[r].name)).status
            = accounts[call[r].account].status
      BY MergeAccountStatus DEF WithName
    <3>4. \A b \in Account : accounts'[b].status = accounts[b].status
      BY <3>1, <3>2, <3>3, StatusStays
    <3> QED
      BY <1>1, <2>2, <3>4 DEF UpdateProfile
  <2>3. CASE ChangeCommit(r)
    <3>1. call[r].account \in Account
      BY <2>3, RunningBound, CallTypes DEF ChangeCommit
    <3>2. \A b \in Account : accounts'[b].status = accounts[b].status
      BY <2>3, <3>1 DEF ChangeCommit, WithHash, TypeOK
    <3>3. \A k \in swept[r] : Stored(k)
      BY <2>3, RunningBound DEF ChangeCommit, Bound
    <3>4. \A k \in Token : sessions'[k] # NoSession =>
             Stored(k) /\ sessions'[k].account = sessions[k].account
      BY <2>3, <3>3 DEF ChangeCommit, Revoked, Stored
    <3> QED
      BY <3>2, <3>4, AccountsStay
  <2>4. CASE LoginInsert(r)
    <3>1. call[r].account \in Account
      BY <2>4, RunningBound, CallTypes DEF LoginInsert
    <3>2. CASE UNCHANGED rows
      BY <1>2, <3>2
    <3>3. ASSUME accounts[call[r].account].status # "deleted",
                 NEW t, sessions' = [sessions EXCEPT ![r] =
                       [account |-> call[r].account, created |-> at[r],
                        expires |-> t, revoked |-> FALSE]]
          PROVE  SessionsHaveAccounts'
      <4>1. /\ r \in Token /\ sessions'[r].account = call[r].account
            /\ \A k \in Token : k # r => sessions'[k] = sessions[k]
        BY <3>3 DEF TypeOK, Token
      <4>2. accounts' = accounts
        BY <2>4 DEF LoginInsert
      <4> QED
        BY <3>1, <3>3, <4>1, <4>2, AccountsStay DEF Stored
    <3> QED
      BY <2>4, <3>2, <3>3 DEF LoginInsert, rows
  <2>5. ASSUME NEW k \in Token, Stored(k), NEW row, row.account = sessions[k].account,
               sessions' = [sessions EXCEPT ![k] = row], UNCHANGED accounts
        PROVE  SessionsHaveAccounts'
    <3>1. sessions'[k].account = sessions[k].account
      BY <2>5 DEF TypeOK
    <3>2. \A i \in Token : i # k => sessions'[i] = sessions[i]
      BY <2>5 DEF TypeOK
    <3>3. \A i \in Token : sessions'[i] # NoSession =>
             Stored(i) /\ sessions'[i].account = sessions[i].account
      BY <2>5, <3>1, <3>2 DEF Stored
    <3> QED
      BY <2>5, <3>3, AccountsStay
  <2>6. CASE Touch(r) \/ Logout(r)
    <3>1. Stored(call[r].token) /\ call[r].token \in Token
      BY <2>6, RunningBound, CallTypes DEF Touch, Logout, Bound, PrincipalSteps, ServedSteps
    <3>2. \A copy, new :
             MergeSession(sessions[call[r].token], copy, new).account
               = sessions[call[r].token].account
      BY DEF MergeSession
    <3>3. CASE UNCHANGED rows
      BY <1>2, <3>3
    <3>4. ASSUME NEW copy, NEW new, UNCHANGED accounts,
                 sessions' = [sessions EXCEPT ![call[r].token] =
                    MergeSession(sessions[call[r].token], copy, new)]
          PROVE  SessionsHaveAccounts'
      BY <2>5, <3>1, <3>2, <3>4
    <3> QED
      BY <2>6, <3>3, <3>4 DEF Touch, Logout, rows
  <2> QED
    BY <1>2, <1>3, <2>1, <2>2, <2>3, <2>4, <2>6
    DEF Serve, LoginLookup, LoginRefresh, SelectSession, LoadAccount, ChangeFlush, ChangeSweep,
        Respond
<1>4. ASSUME NEW a \in Account, Administers(a) PROVE SessionsHaveAccounts'
  <2>1. ASSUME NEW status \in {"active", "inactive"}, SetStatus(a, status)
        PROVE  SessionsHaveAccounts'
    <3>1. \A b \in Account : accounts[b].status # "deleted" => accounts'[b].status # "deleted"
      BY <2>1 DEF SetStatus, WithStatus, TypeOK
    <3> QED
      BY <2>1, <3>1, AccountsStay DEF SetStatus, Stored
  <2>2. ASSUME NEW p \in Password, ResetPassword(a, p) PROVE SessionsHaveAccounts'
    <3>1. \A b \in Account : accounts'[b].status = accounts[b].status
      BY <2>2 DEF ResetPassword, WithHash, TypeOK
    <3> QED
      BY <1>1, <2>2, <3>1 DEF ResetPassword
  <2>3. CASE RevokeAll(a)
    <3>1. \A k \in SessionsOf(a) : Stored(k)
      BY DEF SessionsOf
    <3>2. \A k \in Token : sessions'[k] # NoSession =>
             Stored(k) /\ sessions'[k].account = sessions[k].account
      BY <2>3, <3>1 DEF RevokeAll, Revoked, Stored
    <3> QED
      BY <2>3, <3>2, AccountsStay DEF RevokeAll
  <2>4. CASE DeleteAccount(a)
    <3>1. UNCHANGED sessions /\ \A b \in Account : b # a => accounts'[b] = accounts[b]
      BY <2>4 DEF DeleteAccount, TypeOK
    <3>2. \A k \in Token : Stored(k) => sessions[k].account # a /\ sessions[k].account \in Account
      BY <2>4 DEF DeleteAccount, SessionsOf, TypeOK, Stored, SessionRow
    <3> QED
      BY <3>1, <3>2 DEF SessionsHaveAccounts, Stored
  <2> QED
    BY <1>4, <2>1, <2>2, <2>3, <2>4 DEF Administers
<1> QED
  BY <1>2, <1>3, <1>4 DEF Next, Administers, Begin, Abort, Tick, vars

\* No session is left without its account: a login that verified the account
\* before it was deleted stores none.  (login, AccountService.delete)
THEOREM NoOrphanedSessions == Spec => []SessionsHaveAccounts
<1>1. Init => SessionsHaveAccounts
  BY SessionsAssumption DEF Init, SessionsHaveAccounts, Stored
<1> QED
  BY SessionsTypeCorrect, <1>1, StepSessionsHaveAccounts, PTL DEF Spec

-----------------------------------------------------------------------------
(* What ends a session.                                                        *)

\* A handler's steps belong to its call.
HandlersOK == \A r \in Request : pc[r] \in ServedSteps =>
    \/ pc[r] = "revoke" /\ call[r].op = "logout"
    \/ pc[r] = "profile" /\ call[r].op = "profile"
    \/ pc[r] \in {"change", "sweep", "commit"} /\ call[r].op = "password"

EndedRevoked ==
    \A r \in committed, k \in Token : Ends(r, k) => Stored(k) /\ sessions[k].revoked

RevokedEnded ==
    \A k \in Token : Stored(k) /\ sessions[k].revoked =>
        changes > 0 \/ \E r \in committed : Ends(r, k)

LEMMA StepHandlers ==
    TypeOK /\ PrincipalsOK /\ HandlersOK /\ [Next]_vars => HandlersOK'
<1> SUFFICES ASSUME TypeOK, PrincipalsOK, HandlersOK, [Next]_vars, NEW q \in Request,
                    pc'[q] \in ServedSteps
             PROVE  \/ pc'[q] = "revoke" /\ call'[q].op = "logout"
                    \/ pc'[q] = "profile" /\ call'[q].op = "profile"
                    \/ pc'[q] \in {"change", "sweep", "commit"} /\ call'[q].op = "password"
  BY DEF HandlersOK
<1>1. CASE pc'[q] = pc[q] /\ call'[q] = call[q]
  BY <1>1 DEF HandlersOK
<1>2. CASE (\E a \in Account : Administers(a)) \/ Tick \/ UNCHANGED vars
  BY <1>1, <1>2, AroundKeeps
<1>3. ASSUME NEW r \in Request, Begin(r) \/ Serve(r) \/ Abort(r), q # r
      PROVE  pc'[q] = pc[q] /\ call'[q] = call[q]
  BY <1>3, ServedKeeps DEF Moves, OthersStay
<1>4. CASE Touch(q)
  <2>1. pc'[q] = AfterTouch(call[q].op) /\ call' = call
    BY <1>4 DEF Touch, Advance, Finish, TypeOK, ServedSteps
  <2> QED
    BY <2>1 DEF AfterTouch, ServedSteps
<1>5. CASE ChangeFlush(q) \/ ChangeSweep(q)
  <2>1. pc[q] \in {"change", "sweep"} /\ pc'[q] \in {"sweep", "commit", "done"} /\ call' = call
    BY <1>5 DEF ChangeFlush, ChangeSweep, Advance, Finish, TypeOK
  <2> QED
    BY <2>1 DEF HandlersOK, ServedSteps
<1>6. CASE Begin(q) \/ Serve(q) \/ Abort(q)
  <2>1. CASE pc'[q] \in LoginSteps \union {"session", "account", "touch", "respond", "done"}
    BY <2>1 DEF LoginSteps, ServedSteps
  <2> QED
    BY <1>4, <1>5, <1>6, <2>1
    DEF Serve, Begin, Abort, Respond, LoginLookup, LoginRehash, LoginRefresh, LoginInsert,
        SelectSession, LoadAccount, Logout, UpdateProfile, ChangeCommit, Advance, Finish,
        LoginSteps, TypeOK
<1> QED
  BY <1>1, <1>2, <1>3, <1>6 DEF Next, Administers

\* What a committed request ends no longer changes.
LEMMA EndsStays ==
    ASSUME TypeOK, PrincipalsOK, [Next]_vars, NEW q \in committed
    PROVE  call'[q] = call[q] /\ swept'[q] = swept[q] /\ q \in committed'
<1>1. q \in Request /\ pc[q] \in {"respond", "done"}
  BY DEF TypeOK, PrincipalsOK, CourseOK
<1>2. CASE (\E a \in Account : Administers(a)) \/ Tick \/ UNCHANGED vars
  BY <1>2, AroundKeeps DEF copies
<1>3. ASSUME NEW r \in Request, Begin(r) \/ Serve(r) \/ Abort(r)
      PROVE  call'[q] = call[q] /\ swept'[q] = swept[q] /\ q \in committed'
  <2>1. CASE Begin(r)
    BY <1>1, <2>1 DEF Begin, TypeOK, copies
  <2>2. CASE ChangeSweep(r)
    BY <1>1, <2>2 DEF ChangeSweep, TypeOK, history
  <2>3. CASE call' = call /\ swept' = swept /\ committed \subseteq committed'
    BY <2>3
  <2> QED
    BY <1>3, <2>1, <2>2, <2>3
    DEF Serve, Abort, Respond, LoginLookup, LoginRehash, LoginRefresh, LoginInsert, SelectSession,
        LoadAccount, Touch, Logout, UpdateProfile, ChangeFlush, ChangeCommit, copies, history
<1> QED
  BY <1>2, <1>3 DEF Next, Administers

LEMMA NextKeeps ==
    ASSUME TypeOK, PrincipalsOK, [Next]_vars, NEW k \in Token PROVE Keeps(k)
BY AroundKeeps, ServedKeeps DEF Moves, Next, Administers

\* A request that commits ends what it is to end.
LEMMA CommitEnds ==
    ASSUME TypeOK, PrincipalsOK, HandlersOK, [Next]_vars, NEW q \in committed', q \notin committed,
           NEW k \in Token, Ends(q, k)'
    PROVE  sessions'[k] # NoSession /\ sessions'[k].revoked
<1>1. \E r \in Request : LoginInsert(r) \/ Logout(r) \/ UpdateProfile(r) \/ ChangeCommit(r)
  BY DEF Next, Serve, Begin, Abort, Respond, LoginLookup, LoginRehash, LoginRefresh,
         SelectSession, LoadAccount, Touch, ChangeFlush, ChangeSweep, Tick, SetStatus,
         ResetPassword, RevokeAll, DeleteAccount, history, vars
<1>2. PICK r \in Request : LoginInsert(r) \/ Logout(r) \/ UpdateProfile(r) \/ ChangeCommit(r)
  BY <1>1
<1>3. q = r /\ call' = call /\ swept' = swept
  BY <1>2 DEF LoginInsert, Logout, UpdateProfile, ChangeCommit, copies
<1>4. Ends(q, k)
  BY <1>3 DEF Ends
<1>5. CASE LoginInsert(r)
  BY <1>3, <1>4, <1>5, RunningBound DEF LoginInsert, Bound, LoginSteps, Ends
<1>6. CASE UpdateProfile(r)
  BY <1>3, <1>4, <1>6 DEF UpdateProfile, HandlersOK, ServedSteps, Ends
<1>7. CASE Logout(r)
  <2>1. call[r].op = "logout" /\ k = call[r].token
    BY <1>3, <1>4, <1>7 DEF Logout, HandlersOK, ServedSteps, Ends
  <2>2. Stored(k)
    BY <1>7, <2>1, RunningBound DEF Logout, Bound, ServedSteps
  <2> QED
    BY <1>7, <2>1, <2>2, LogoutKeeps DEF Keeps
<1>8. CASE ChangeCommit(r)
  <2>1. call[r].op = "password" /\ k \in swept[r]
    BY <1>3, <1>4, <1>8 DEF ChangeCommit, HandlersOK, ServedSteps, Ends
  <2>2. Stored(k)
    BY <1>8, <2>1, RunningBound DEF ChangeCommit, Bound
  <2>3. sessions'[k] = Revoked(sessions[k])
    BY <1>8, <2>1 DEF ChangeCommit
  <2>4. Keeps(k)
    BY NextKeeps
  <2>5. sessions'[k] # NoSession
    BY <2>2, <2>4 DEF Keeps
  <2> QED
    BY <2>3, <2>5 DEF Revoked
<1> QED
  BY <1>2, <1>5, <1>6, <1>7, <1>8

LEMMA StepEndedRevoked ==
    TypeOK /\ PrincipalsOK /\ HandlersOK /\ EndedRevoked /\ [Next]_vars => EndedRevoked'
<1> SUFFICES ASSUME TypeOK, PrincipalsOK, HandlersOK, EndedRevoked, [Next]_vars,
                    NEW q \in committed', NEW k \in Token, Ends(q, k)'
             PROVE  sessions'[k] # NoSession /\ sessions'[k].revoked
  BY DEF EndedRevoked, Stored
<1>1. CASE q \in committed
  <2>1. Ends(q, k)
    BY <1>1, EndsStays DEF Ends
  <2>2. Stored(k) /\ sessions[k].revoked
    BY <1>1, <2>1 DEF EndedRevoked
  <2>3. Keeps(k)
    BY NextKeeps
  <2> QED
    BY <2>2, <2>3 DEF Keeps
<1> QED
  BY <1>1, CommitEnds

LEMMA ChangesCount ==
    ASSUME TypeOK, [Next]_vars
    PROVE  /\ changes \in Nat
           /\ changes' = changes \/ changes' = changes + 1
           /\ \A a \in Account : RevokeAll(a) => changes' = changes + 1
BY DEF TypeOK, Next, Serve, Begin, Abort, Respond, LoginLookup, LoginRehash, LoginRefresh,
       LoginInsert, SelectSession, LoadAccount, Touch, Logout, UpdateProfile, ChangeFlush,
       ChangeSweep, ChangeCommit, Tick, SetStatus, ResetPassword, RevokeAll, DeleteAccount,
       Administer, vars

LEMMA StepRevokedEnded ==
    TypeOK /\ PrincipalsOK /\ HandlersOK /\ RevokedEnded /\ [Next]_vars => RevokedEnded'
<1> SUFFICES ASSUME TypeOK, PrincipalsOK, HandlersOK, RevokedEnded, [Next]_vars,
                    NEW k \in Token, sessions'[k] # NoSession, sessions'[k].revoked
             PROVE  changes' > 0 \/ \E r \in committed' : Ends(r, k)'
  BY DEF RevokedEnded, Stored
<1>1. CASE Stored(k) /\ sessions[k].revoked
  <2>1. CASE changes > 0
    BY <2>1, ChangesCount
  <2>2. ASSUME NEW r \in committed, Ends(r, k)
        PROVE  r \in committed' /\ Ends(r, k)'
    BY <2>2, EndsStays DEF Ends
  <2> QED
    BY <1>1, <2>1, <2>2 DEF RevokedEnded
<1>2. ASSUME ~(Stored(k) /\ sessions[k].revoked)
      PROVE  changes' > 0 \/ \E r \in committed' : Ends(r, k)'
  <2>1. sessions'[k] # sessions[k]
    BY <1>2 DEF Stored
  <2>2. ASSUME NEW r \in Request, LoginInsert(r) PROVE FALSE
    <3>1. \A i \in Token : sessions'[i] = sessions[i] \/ ~sessions'[i].revoked
      BY <2>2 DEF LoginInsert, TypeOK
    <3> QED
      BY <2>1, <3>1
  <2>3. ASSUME NEW r \in Request, Touch(r) PROVE FALSE
    <3>1. Stored(call[r].token) /\ call[r].token \in Token
      BY <2>3, RunningBound, CallTypes DEF Touch, Bound, PrincipalSteps
    <3>2. \A row, copy, e :
             MergeSession(row, copy, WithExpiry(copy, e)).revoked = row.revoked
      BY DEF MergeSession, WithExpiry, Written
    <3> DEFINE touched(e) == MergeSession(sessions[call[r].token], mySession[r],
                                          WithExpiry(mySession[r], e))
    <3> HIDE DEF touched
    <3>3. PICK e : sessions' = [sessions EXCEPT ![call[r].token] = touched(e)]
      BY <2>1, <2>3 DEF Touch, touched
    <3>4. k = call[r].token
      BY <2>1, <3>3 DEF TypeOK
    <3>5. sessions'[k] = touched(e)
      BY <3>1, <3>3, <3>4 DEF TypeOK
    <3>6. touched(e).revoked = sessions[call[r].token].revoked
      BY <3>2 DEF touched
    <3>7. sessions'[k].revoked = sessions[k].revoked
      BY <3>4, <3>5, <3>6
    <3> QED
      BY <1>2, <3>1, <3>4, <3>7
  <2>4. ASSUME NEW r \in Request, Logout(r) PROVE r \in committed' /\ Ends(r, k)'
    <3>1. k = call[r].token
      BY <2>1, <2>4, LogoutKeeps
    <3>2. call[r].op = "logout"
      BY <2>4 DEF Logout, HandlersOK, ServedSteps
    <3> QED
      BY <2>4, <3>1, <3>2 DEF Logout, Ends
  <2>5. ASSUME NEW r \in Request, ChangeCommit(r) PROVE r \in committed' /\ Ends(r, k)'
    <3>1. k \in swept[r]
      BY <2>1, <2>5 DEF ChangeCommit
    <3>2. call[r].op = "password"
      BY <2>5 DEF ChangeCommit, HandlersOK, ServedSteps
    <3> QED
      BY <2>5, <3>1, <3>2 DEF ChangeCommit, Ends, copies
  <2> QED
    BY <2>1, <2>2, <2>3, <2>4, <2>5, ChangesCount
    DEF Next, Serve, Begin, Abort, Respond, LoginLookup, LoginRehash, LoginRefresh, SelectSession,
        LoadAccount, UpdateProfile, ChangeFlush, ChangeSweep, Tick, SetStatus, ResetPassword,
        DeleteAccount, rows, vars
<1> QED
  BY <1>1, <1>2

\* A password change that committed has ended every session it could see, and one
\* that was cut off has ended none: its two updates take effect together.
\* (update_password, revoke_all_for_account_without_commit, logout)
THEOREM ChangesEndSessions == Spec => []ChangeEndsSessions
<1>1. Init => HandlersOK /\ EndedRevoked /\ RevokedEnded
  BY DEF Init, HandlersOK, EndedRevoked, RevokedEnded, ServedSteps, Stored
<1>2. EndedRevoked /\ RevokedEnded => ChangeEndsSessions
  BY DEF EndedRevoked, RevokedEnded, ChangeEndsSessions
<1> QED
  BY SessionsTypeCorrect, PrincipalsCorrect, <1>1, StepHandlers, StepEndedRevoked,
     StepRevokedEnded, <1>2, PTL DEF Spec

-----------------------------------------------------------------------------
(* The chosen password stands where no login has a hash to replace. *)

FreshAccount(a) == InitialAccounts[a].hash.fresh

\* A hash that was up to date stays so and is the chosen password's; only logins to
\* other accounts come to replace a hash.
FreshOK ==
    /\ \A a \in Account : FreshAccount(a) => accounts[a].hash = NewHash(chosen[a])
    /\ \A r \in Request : pc[r] = "rehash" => ~FreshAccount(call[r].account)

\* A step leaves the hash of account a and what was chosen for it, or sets both.
HashStands(a) ==
    \/ accounts'[a].hash = accounts[a].hash /\ chosen'[a] = chosen[a]
    \/ accounts'[a].hash = NewHash(chosen'[a])

LEMMA ProfileHash ==
    ASSUME NEW row, NEW copy, NEW n
    PROVE  MergeAccount(row, copy, WithName(copy, n)).hash = row.hash
BY DEF MergeAccount, WithName, Written

LEMMA RowHashes ==
    ASSUME NEW row
    PROVE  /\ \A h : WithHash(row, h).hash = h
           /\ \A s : WithStatus(row, s).hash = row.hash
BY DEF WithHash, WithStatus

LEMMA NewHashFields == ASSUME NEW p PROVE NewHash(p).of = p /\ NewHash(p).fresh = TRUE
BY DEF NewHash

LEMMA StepHashStands ==
    ASSUME TypeOK, FreshOK, [Next]_vars, NEW a \in Account, FreshAccount(a)
    PROVE  HashStands(a)
<1>1. ASSUME NEW r \in Request, LoginRehash(r) PROVE HashStands(a)
  <2>1. a # call[r].account
    BY <1>1 DEF LoginRehash, FreshOK
  <2> QED
    BY <1>1, <2>1 DEF LoginRehash, HashStands, history, TypeOK
<1>2. ASSUME NEW r \in Request, UpdateProfile(r) PROVE HashStands(a)
  <2>1. chosen' = chosen /\
        accounts' = [accounts EXCEPT ![call[r].account] =
           MergeAccount(accounts[call[r].account], myAccount[r],
                        WithName(myAccount[r], call[r].name))]
    BY <1>2 DEF UpdateProfile
  <2>2. CASE a = call[r].account
    <3>1. accounts'[a] = MergeAccount(accounts[a], myAccount[r],
                                      WithName(myAccount[r], call[r].name))
      BY <2>1, <2>2 DEF TypeOK
    <3> QED
      BY <2>1, <3>1, ProfileHash DEF HashStands
  <2>3. CASE a # call[r].account
    BY <2>1, <2>3 DEF HashStands, TypeOK
  <2> QED
    BY <2>2, <2>3
<1>3. ASSUME NEW r \in Request, ChangeCommit(r) PROVE HashStands(a)
  <2>1. /\ accounts' = [accounts EXCEPT ![call[r].account] =
              WithHash(accounts[call[r].account], NewHash(call[r].new))]
        /\ chosen' = [chosen EXCEPT ![call[r].account] = call[r].new]
    BY <1>3 DEF ChangeCommit
  <2>2. CASE a = call[r].account
    <3>1. accounts'[a] = WithHash(accounts[a], NewHash(call[r].new))
      BY <2>1, <2>2 DEF TypeOK
    <3>2. chosen'[a] = call[r].new
      BY <2>1, <2>2 DEF TypeOK
    <3> QED
      BY <3>1, <3>2, RowHashes DEF HashStands
  <2>3. CASE a # call[r].account
    BY <2>1, <2>3 DEF HashStands, TypeOK
  <2> QED
    BY <2>2, <2>3
<1>4. ASSUME NEW b \in Account, NEW s, SetStatus(b, s) \/ DeleteAccount(b)
      PROVE  HashStands(a)
  <2>1. PICK t : accounts' = [accounts EXCEPT ![b] = WithStatus(accounts[b], t)]
    BY <1>4 DEF SetStatus, DeleteAccount
  <2>2. chosen' = chosen
    BY <1>4 DEF SetStatus, DeleteAccount, history
  <2>3. accounts'[a].hash = accounts[a].hash
    BY <2>1, RowHashes DEF TypeOK
  <2> QED
    BY <2>2, <2>3 DEF HashStands
<1>5. ASSUME NEW b \in Account, NEW p \in Password, ResetPassword(b, p)
      PROVE  HashStands(a)
  <2>1. /\ accounts' = [accounts EXCEPT ![b] = WithHash(accounts[b], NewHash(p))]
        /\ chosen' = [chosen EXCEPT ![b] = p]
    BY <1>5 DEF ResetPassword
  <2>2. CASE a = b
    <3>1. accounts'[a].hash = NewHash(p) /\ chosen'[a] = p
      BY <2>1, <2>2, RowHashes DEF TypeOK
    <3> QED
      BY <3>1 DEF HashStands
  <2>3. CASE a # b
    BY <2>1, <2>3 DEF HashStands, TypeOK
  <2> QED
    BY <2>2, <2>3
<1>6. ASSUME accounts' = accounts, chosen' = chosen PROVE HashStands(a)
  BY <1>6 DEF HashStands
<1>7. ASSUME NEW r \in Request, Begin(r) \/ Abort(r) PROVE HashStands(a)
  BY <1>6, <1>7 DEF Begin, Abort, rows, history
<1>8. ASSUME NEW r \in Request, Serve(r) PROVE HashStands(a)
  <2>1. CASE LoginLookup(r) \/ LoginRefresh(r) \/ LoginInsert(r)
    BY <1>6, <2>1 DEF LoginLookup, LoginRefresh, LoginInsert, rows, history
  <2>2. CASE SelectSession(r) \/ LoadAccount(r) \/ Touch(r) \/ Logout(r)
    BY <1>6, <2>2 DEF SelectSession, LoadAccount, Touch, Logout, rows, history
  <2>3. CASE ChangeFlush(r) \/ ChangeSweep(r) \/ Respond(r)
    BY <1>6, <2>3 DEF ChangeFlush, ChangeSweep, Respond, rows, history
  <2> QED
    BY <1>1, <1>2, <1>3, <1>8, <2>1, <2>2, <2>3 DEF Serve
<1>9. CASE Tick \/ UNCHANGED vars
  BY <1>6, <1>9 DEF Tick, vars, rows, history
<1>10. ASSUME NEW b \in Account, RevokeAll(b) PROVE HashStands(a)
  BY <1>6, <1>10 DEF RevokeAll, history
<1> QED
  BY <1>4, <1>5, <1>7, <1>8, <1>9, <1>10 DEF Next

\* A request that comes to replace a hash has just found it outdated.
LEMMA StepRehash ==
    ASSUME TypeOK, FreshOK, [Next]_vars, NEW r \in Request, pc'[r] = "rehash"
    PROVE  ~FreshAccount(call'[r].account)
<1>1. CASE pc[r] = "rehash" /\ call'[r] = call[r]
  BY <1>1 DEF FreshOK
<1>2. ASSUME NEW q \in Request, q # r, Begin(q) \/ Serve(q) \/ Abort(q)
      PROVE  pc'[r] = pc[r] /\ call'[r] = call[r]
  BY <1>2 DEF TypeOK, Serve, Begin, Abort, Respond, LoginLookup, LoginRehash, LoginRefresh,
      LoginInsert, SelectSession, LoadAccount, Touch, Logout, UpdateProfile, ChangeFlush,
      ChangeSweep, ChangeCommit, Advance, Finish
<1>3. ASSUME LoginLookup(r) PROVE ~FreshAccount(call'[r].account)
  <2>1. call' = call /\ ~accounts[call[r].account].hash.fresh
    BY <1>3 DEF LoginLookup, Advance, Finish, TypeOK
  <2>2. call[r].account \in Account
    BY <1>3, RunningBound, CallTypes DEF LoginLookup, Bound, TypeOK
  <2> QED
    BY <2>1, <2>2, NewHashFields DEF FreshOK
<1>4. ASSUME Begin(r) \/ Abort(r) PROVE FALSE
  BY <1>4 DEF Begin, Abort, Advance, Finish, TypeOK
<1>5. ASSUME LoginRehash(r) \/ LoginRefresh(r) \/ LoginInsert(r) \/ Respond(r) PROVE FALSE
  BY <1>5 DEF LoginRehash, LoginRefresh, LoginInsert, Respond, Advance, Finish, TypeOK
<1>6. ASSUME SelectSession(r) \/ LoadAccount(r) \/ Touch(r) PROVE FALSE
  BY <1>6, AfterTouchSteps
  DEF SelectSession, LoadAccount, Touch, Advance, Finish, TypeOK, AfterTouch
<1>7. ASSUME \/ Logout(r) \/ UpdateProfile(r) \/ ChangeFlush(r) \/ ChangeSweep(r)
             \/ ChangeCommit(r)
      PROVE  FALSE
  BY <1>7 DEF Logout, UpdateProfile, ChangeFlush, ChangeSweep, ChangeCommit, Advance, Finish,
      TypeOK
<1>8. CASE UNCHANGED <<pc, call>>
  BY <1>1, <1>8
<1>9. ASSUME \/ Tick \/ UNCHANGED vars
             \/ \E b \in Account :
                   \/ \E s \in {"active", "inactive"} : SetStatus(b, s)
                   \/ \E p \in Password : ResetPassword(b, p)
                   \/ RevokeAll(b) \/ DeleteAccount(b)
      PROVE  ~FreshAccount(call'[r].account)
  BY <1>8, <1>9 DEF Tick, vars, SetStatus, ResetPassword, RevokeAll, DeleteAccount
<1>10. ASSUME NEW q \in Request, Begin(q) \/ Serve(q) \/ Abort(q)
       PROVE  ~FreshAccount(call'[r].account)
  <2>1. CASE q # r
    BY <1>1, <1>2, <1>10, <2>1
  <2>2. CASE q = r
    BY <1>3, <1>4, <1>5, <1>6, <1>7, <1>10, <2>2 DEF Serve
  <2> QED
    BY <2>1, <2>2
<1> QED
  BY <1>9, <1>10 DEF Next

LEMMA StepFresh == TypeOK /\ FreshOK /\ [Next]_vars => FreshOK'
<1> SUFFICES ASSUME TypeOK, FreshOK, [Next]_vars PROVE FreshOK'
  OBVIOUS
<1>1. ASSUME NEW a \in Account, FreshAccount(a) PROVE accounts'[a].hash = NewHash(chosen'[a])
  BY <1>1, StepHashStands DEF HashStands, FreshOK
<1> QED
  BY <1>1, StepRehash DEF FreshOK, FreshAccount

LEMMA InitFresh == Init => FreshOK
<1> SUFFICES ASSUME Init PROVE FreshOK
  OBVIOUS
<1>1. ASSUME NEW a \in Account, FreshAccount(a) PROVE accounts[a].hash = NewHash(chosen[a])
  <2>1. InitialAccounts[a].hash \in Hash
    BY SessionsAssumption, AccountRowTypes
  <2>2. InitialAccounts[a].hash = NewHash(InitialAccounts[a].hash.of)
    BY <1>1, <2>1 DEF FreshAccount, Hash, NewHash
  <2> QED
    BY <2>2 DEF Init
<1> QED
  BY <1>1 DEF FreshOK, Init

\* An account whose hash was not outdated keeps the password last set on purpose,
\* whatever logins, profile updates and password changes overlap: a login that
\* replaces an outdated hash is the only step that puts an old password back.
\* (login, update_password, update_profile)
THEOREM FreshHashesStand ==
    Spec => [](\A a \in Account : FreshAccount(a) => accounts[a].hash.of = chosen[a])
<1>1. FreshOK => \A a \in Account : FreshAccount(a) => accounts[a].hash.of = chosen[a]
  BY NewHashFields DEF FreshOK
<1> QED
  BY SessionsTypeCorrect, InitFresh, StepFresh, <1>1, PTL DEF Spec

\* So the chosen passwords stand in a database without outdated hashes.
\* (login, update_password, update_profile)
THEOREM ChosenPasswordsStand ==
    ASSUME \A a \in Account : FreshAccount(a)
    PROVE  Spec => []ChosenPasswordStands
<1>1. FreshOK => ChosenPasswordStands
  BY NewHashFields DEF FreshOK, ChosenPasswordStands
<1> QED
  BY SessionsTypeCorrect, InitFresh, StepFresh, <1>1, PTL DEF Spec
=============================================================================
