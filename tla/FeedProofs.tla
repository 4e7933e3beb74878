------------------------------ MODULE FeedProofs ------------------------------
(***************************************************************************)
(* Feed for any requests, accounts, groups, calls, limits and clock.       *)
(***************************************************************************)
EXTENDS Feed, BroadcastCycleProofs, FiniteSetTheorems, FunctionTheorems, SequenceTheorems

-----------------------------------------------------------------------------
(* What a page is cut from is a listing of finitely many broadcasts. *)

LEMMA WantedIsFinite ==
    ASSUME TypeOK, NEW r \in Request, NEW start
    PROVE  /\ IsFiniteSet(Wanted(r, start))
           /\ Cardinality(Wanted(r, start)) \in 0 .. MaxBroadcasts
           /\ Wanted(r, start) \subseteq DOMAIN broadcasts
<1>1. Len(broadcasts) \in Nat /\ DOMAIN broadcasts = 1 .. Len(broadcasts)
  BY DEF TypeOK, TablesTypeOK
<1>2. IsFiniteSet(1 .. Len(broadcasts)) /\ Cardinality(1 .. Len(broadcasts)) = Len(broadcasts)
  <2>1. /\ IsFiniteSet(1 .. Len(broadcasts))
        /\ Cardinality(1 .. Len(broadcasts))
              = IF 1 > Len(broadcasts) THEN 0 ELSE Len(broadcasts) - 1 + 1
    <3>1. 1 \in Int /\ Len(broadcasts) \in Int
      BY <1>1
    <3>2. QED
      BY <3>1, FS_Interval, Zenon
  <2>2. QED
    BY <1>1, <2>1
<1>3. Wanted(r, start) \subseteq 1 .. Len(broadcasts)
  BY <1>1 DEF Wanted
<1>4. /\ IsFiniteSet(Wanted(r, start))
      /\ Cardinality(Wanted(r, start)) <= Len(broadcasts)
  BY <1>2, <1>3, FS_Subset
<1>5. Cardinality(Wanted(r, start)) \in Nat
  BY <1>4, FS_CardinalityType
<1>6. Len(broadcasts) <= MaxBroadcasts /\ MaxBroadcasts \in Nat
  BY FeedAssumption DEF TypeOK, MaxBroadcasts
<1>7. QED
  BY <1>1, <1>3, <1>4, <1>5, <1>6

LEMMA PageType ==
    ASSUME NEW S, NEW n \in Nat, NEW listing \in [1 .. n -> S],
           NEW limit \in Nat \ {0}, NEW offset \in Nat
    PROVE  /\ PageOf(listing, limit, offset) \in Seq(S)
           /\ offset = 0 /\ n <= limit => PageOf(listing, limit, offset) = listing
<1>1. listing \in Seq(S) /\ Len(listing) = n
  OBVIOUS
<1> DEFINE last == IF n < offset + limit THEN n ELSE offset + limit
           page == PageOf(listing, limit, offset)
<1>2. page = SubSeq(listing, offset + 1, last)
  BY <1>1 DEF PageOf
<1>3. last \in Nat /\ last <= n /\ offset + 1 \in Nat
  OBVIOUS
<1>4. \A i \in offset + 1 .. last : i \in 1 .. n /\ listing[i] \in S
  BY <1>3
<1> HIDE DEF last, page
<1>5. page \in Seq(S)
  BY <1>2, <1>3, <1>4, SubSeqProperties
<1>6. ASSUME offset = 0, n <= limit
      PROVE  page = listing
  <2>1. last = n
    BY <1>6 DEF last
  <2>2. page = SubSeq(listing, 1, Len(listing))
    BY <1>1, <1>2, <1>6, <2>1
  <2>3. QED
    BY <1>1, <2>2, SubSeqFull
<1>7. QED
  BY <1>5, <1>6 DEF page

-----------------------------------------------------------------------------
(* Types, one step at a time. *)

PC == Step \union {"idle", "done"}
Response == [status : Status, items : Seq(Item), counted : SUBSET DOMAIN broadcasts]

LEMMA GoType ==
    ASSUME TypeOK, NEW r \in Request, NEW step \in Step, Go(r, step),
           UNCHANGED broadcasts
    PROVE  /\ pc' \in [Request -> PC] /\ pc'[r] = step
           /\ \A q \in Request \ {r} : pc'[q] = pc[q]
           /\ answer' \in [Request -> Response']
BY DEF TypeOK, Go, PC, Response

LEMMA FinishType ==
    ASSUME TypeOK, NEW r \in Request, NEW status \in Status,
           NEW counted \in SUBSET DOMAIN broadcasts, Finish(r, status, counted),
           UNCHANGED broadcasts
    PROVE  /\ pc' \in [Request -> PC] /\ pc'[r] = "done"
           /\ \A q \in Request \ {r} : pc'[q] = pc[q]
           /\ answer' \in [Request -> Response']
<1>1. (IF status = "ok" THEN items[r] ELSE <<>>) \in Seq(Item)
  BY DEF TypeOK
<1>2. [status |-> status, counted |-> counted,
       items |-> IF status = "ok" THEN items[r] ELSE <<>>] \in Response
  BY <1>1 DEF Response
<1>3. answer' \in [Request -> Response]
  BY <1>2 DEF Finish, TypeOK, Response
<1>4. QED
  BY <1>3 DEF Finish, TypeOK, PC, Response

LEMMA InitType == Init => TypeOK
<1> SUFFICES ASSUME Init PROVE TypeOK
  OBVIOUS
<1>1. TablesTypeOK /\ Len(broadcasts) = 0 /\ Len(replies) = 0
  BY DEF Init, TablesTypeOK
<1>2. NoAnswer \in Response
  BY DEF NoAnswer, Response, Status
<1>3. MaxBroadcasts \in Nat
  BY FeedAssumption DEF MaxBroadcasts
<1>4. QED
  BY <1>1, <1>2, <1>3, FeedAssumption DEF Init, TypeOK, Response, Step

LEMMA BeginType ==
    ASSUME TypeOK, NEW r \in Request, Begin(r)
    PROVE  TypeOK'
<1> USE DEF Begin
<1>1. PICK o \in Offered :
        LET a == accounts[o.account]
            student == a.type = "student"
        IN
        /\ call' = [call EXCEPT ![r] = o]
        /\ copy' = [copy EXCEPT ![r] = a]
        /\ ever' = [ever EXCEPT ![r] = {a}]
        /\ scope' = [scope EXCEPT ![r] = IF student THEN a.group ELSE o.group]
        /\ IF ~a.active THEN Finish(r, "unauthorized", {})
           ELSE IF o.op = "count" THEN Go(r, "account")
           ELSE IF student /\ o.group \notin {NoGroup, a.group} THEN Finish(r, "forbidden", {})
           ELSE Go(r, "ids")
  OBVIOUS
<1>2. o \in Offer
  BY FeedAssumption
<1> DEFINE a == accounts[o.account]
           sc == IF a.type = "student" THEN a.group ELSE o.group
<1>3. a \in AccountState
  BY <1>2 DEF TypeOK, Offer
<1>4. sc \in Group \union {NoGroup}
  BY <1>2, <1>3 DEF Offer, AccountState
<1>5. /\ call' = [call EXCEPT ![r] = o]
      /\ copy' = [copy EXCEPT ![r] = a]
      /\ ever' = [ever EXCEPT ![r] = {a}]
      /\ scope' = [scope EXCEPT ![r] = sc]
  BY <1>1
<1>6. \/ Finish(r, "unauthorized", {}) \/ Finish(r, "forbidden", {})
      \/ Go(r, "account") \/ Go(r, "ids")
  BY <1>1
<1> HIDE DEF a, sc
<1>7. UNCHANGED <<tables, accounts, now, events, ids, read, items, seen, week, met>>
  BY DEF NoWrite
<1>8. /\ pc' \in [Request -> PC] /\ answer' \in [Request -> Response']
      /\ \A q \in Request \ {r} : pc'[q] = pc[q]
  BY <1>6, <1>7, GoType, FinishType DEF tables, Status, Step
<1>9. before' \in [Request -> SUBSET Request]
  BY DEF TypeOK
<1>10. \A q \in Request : pc'[q] \in Step => call'[q] \in Offered /\ copy'[q] \in AccountState
  BY <1>3, <1>5, <1>8 DEF TypeOK
<1>11. /\ call' \in [Request -> Offered \union {NoCall}]
       /\ copy' \in [Request -> AccountState \union {NoCall}]
       /\ ever' \in [Request -> SUBSET AccountState]
       /\ scope' \in [Request -> Group \union {NoGroup}]
  BY <1>3, <1>4, <1>5 DEF TypeOK
<1>12. QED
  BY <1>7, <1>8, <1>9, <1>10, <1>11 DEF TypeOK, TablesTypeOK, tables, PC, Response

LEMMA ReadIdsType ==
    ASSUME TypeOK, NEW r \in Request, ReadIds(r)
    PROVE  TypeOK'
<1> DEFINE start == StartOf(r)
           wanted == Wanted(r, start)
<1>1. UNCHANGED <<tables, accounts, now, events, call, copy, scope, read, items, ever, met,
                  before>>
  BY DEF ReadIds, NoWrite
<1>2. call[r] \in Offer /\ pc[r] \in Step
  BY FeedAssumption DEF ReadIds, TypeOK, Step
<1>3. PICK listing \in Listings(wanted) :
        ids' = [ids EXCEPT ![r] = PageOf(listing, call[r].limit, call[r].offset)]
  BY DEF ReadIds
<1>4. listing \in [1 .. Cardinality(wanted) -> wanted]
  BY DEF Listings
<1>5. Cardinality(wanted) \in 0 .. MaxBroadcasts /\ wanted \subseteq DOMAIN broadcasts
  BY WantedIsFinite
<1> HIDE DEF wanted
<1>6. PageOf(listing, call[r].limit, call[r].offset) \in Seq(DOMAIN broadcasts)
  <2>1. listing \in [1 .. Cardinality(wanted) -> DOMAIN broadcasts]
    BY <1>4, <1>5
  <2>2. Cardinality(wanted) \in Nat /\ call[r].limit \in Nat \ {0} /\ call[r].offset \in Nat
    BY <1>2, <1>5 DEF Offer
  <2>3. QED
    BY <2>1, <2>2, PageType
<1>7. ids' \in [Request -> Seq(DOMAIN broadcasts)]
  BY <1>3, <1>6 DEF TypeOK
<1>8. seen' \in [Request -> [there : 0 .. MaxBroadcasts, wanted : 0 .. MaxBroadcasts]]
  <2>1. seen' = [seen EXCEPT ![r] = [there |-> Len(broadcasts), wanted |-> Cardinality(wanted)]]
    BY DEF ReadIds, wanted
  <2>2. Len(broadcasts) \in 0 .. MaxBroadcasts
    BY FeedAssumption DEF TypeOK, TablesTypeOK, MaxBroadcasts
  <2>3. QED
    BY <1>5, <2>1, <2>2 DEF TypeOK
<1>9. start \in Int
  <2>1. now \in Int
    BY FeedAssumption DEF TypeOK
  <2>2. (IF call[r].week = NoWeek THEN now ELSE call[r].week) \in Int
    BY <1>2, <2>1 DEF Offer
  <2>3. \A t \in Int : WeekStart(t) \in Int
    BY CalendarAssumption DEF WeekStart, Week, Local
  <2>4. QED
    BY <2>2, <2>3 DEF StartOf
<1>10. week' \in [Request -> [page : Int \union {NoWeek}, badge : Int \union {NoWeek}]]
  <2> DEFINE page == IF call[r].everything THEN NoWeek ELSE start
  <2>1. page \in Int \union {NoWeek}
    BY <1>9
  <2>2. week' = [week EXCEPT ![r].page = page]
    BY DEF ReadIds
  <2> HIDE DEF page
  <2>3. QED
    BY <2>1, <2>2 DEF TypeOK
<1>11. /\ pc' \in [Request -> PC] /\ pc'[r] = "account" /\ answer' \in [Request -> Response']
       /\ \A q \in Request \ {r} : pc'[q] = pc[q]
  BY <1>1, GoType DEF ReadIds, Step, tables
<1>12. \A q \in Request : pc'[q] \in Step => call'[q] \in Offered /\ copy'[q] \in AccountState
  BY <1>1, <1>2, <1>11 DEF TypeOK
<1>13. QED
  BY <1>1, <1>7, <1>8, <1>10, <1>11, <1>12 DEF TypeOK, TablesTypeOK, tables, PC, Response

LEMMA ReadAccountType ==
    ASSUME TypeOK, NEW r \in Request, ReadAccount(r)
    PROVE  TypeOK'
<1>1. UNCHANGED <<tables, accounts, now, events, call, scope, ids, read, items, seen, week,
                  ever, met, before>>
  BY DEF ReadAccount, NoWrite, history
<1>2. call[r] \in Offered /\ call[r] \in Offer /\ pc[r] \in Step
  BY FeedAssumption DEF ReadAccount, TypeOK, Step
<1>3. accounts[call[r].account] \in AccountState
  BY <1>2 DEF TypeOK, Offer
<1>4. copy' = [copy EXCEPT ![r] = accounts[call[r].account]] /\ Go(r, "mask")
  BY DEF ReadAccount
<1>5. /\ pc' \in [Request -> PC] /\ answer' \in [Request -> Response']
      /\ \A q \in Request \ {r} : pc'[q] = pc[q]
  BY <1>1, <1>4, GoType DEF Step, tables
<1>6. \A q \in Request : pc'[q] \in Step => call'[q] \in Offered /\ copy'[q] \in AccountState
  BY <1>1, <1>2, <1>3, <1>4, <1>5 DEF TypeOK
<1>7. copy' \in [Request -> AccountState \union {NoCall}]
  BY <1>3, <1>4 DEF TypeOK
<1>8. QED
  BY <1>1, <1>5, <1>6, <1>7 DEF TypeOK, TablesTypeOK, tables, PC, Response

\* A mask takes the place of the account's, and nothing else changes in the copy.
LEMMA MaskIsPut ==
    ASSUME TypeOK, NEW r \in Request, ReadMask(r)
    PROVE  \/ \E m \in Masks(r) :
                /\ copy' = [copy EXCEPT ![r].may = m]
                /\ copy'[r] = [copy[r] EXCEPT !.may = m]
                /\ copy'[r] \in AccountState
                /\ copy'[r].type = copy[r].type /\ copy'[r].group = copy[r].group
                /\ Go(r, IF ids[r] = <<>> THEN "count" ELSE "records")
           \/ met[r] > 1 /\ Finish(r, "torn", {}) /\ UNCHANGED copy
<1> SUFFICES ASSUME ~(met[r] > 1 /\ Finish(r, "torn", {}) /\ UNCHANGED copy)
             PROVE  \E m \in Masks(r) :
                /\ copy' = [copy EXCEPT ![r].may = m]
                /\ copy'[r] = [copy[r] EXCEPT !.may = m]
                /\ copy'[r] \in AccountState
                /\ copy'[r].type = copy[r].type /\ copy'[r].group = copy[r].group
                /\ Go(r, IF ids[r] = <<>> THEN "count" ELSE "records")
  OBVIOUS
<1>1. PICK m \in Masks(r) : /\ copy' = [copy EXCEPT ![r].may = m]
                            /\ Go(r, IF ids[r] = <<>> THEN "count" ELSE "records")
  BY DEF ReadMask
<1>2. call[r] \in Offer /\ copy[r] \in AccountState
  BY FeedAssumption DEF ReadMask, TypeOK, Step
<1>3. accounts[call[r].account] \in AccountState
  BY <1>2 DEF TypeOK, Offer
<1>4. m \in SUBSET {"confirm", "reply"}
  BY <1>2, <1>3 DEF Masks, AccountState
<1>5. copy'[r] = [copy[r] EXCEPT !.may = m]
  BY <1>1 DEF TypeOK
<1>6. /\ copy'[r] \in AccountState
      /\ copy'[r].type = copy[r].type /\ copy'[r].group = copy[r].group
  BY <1>2, <1>4, <1>5 DEF AccountState
<1> QED
  BY <1>1, <1>5, <1>6

LEMMA ReadMaskType ==
    ASSUME TypeOK, NEW r \in Request, ReadMask(r)
    PROVE  TypeOK'
<1>1. UNCHANGED <<tables, accounts, now, events, call, scope, ids, read, items, seen, week,
                  ever, met, before>>
  BY DEF ReadMask, NoWrite, history
<1>2. call[r] \in Offered /\ pc[r] \in Step
  BY DEF ReadMask, TypeOK, Step
<1>3. \/ /\ Go(r, IF ids[r] = <<>> THEN "count" ELSE "records")
         /\ copy'[r] \in AccountState
         /\ copy' = [copy EXCEPT ![r] = copy'[r]]
      \/ Finish(r, "torn", {}) /\ copy' = copy
  BY MaskIsPut DEF TypeOK
<1>4. /\ pc' \in [Request -> PC] /\ answer' \in [Request -> Response']
      /\ \A q \in Request \ {r} : pc'[q] = pc[q]
  BY <1>1, <1>3, GoType, FinishType DEF Step, Status, tables
<1>5. /\ copy' \in [Request -> AccountState \union {NoCall}]
      /\ \A q \in Request \ {r} : copy'[q] = copy[q]
      /\ copy'[r] \in AccountState
  BY <1>2, <1>3 DEF TypeOK
<1>6. \A q \in Request : pc'[q] \in Step => call'[q] \in Offered /\ copy'[q] \in AccountState
  BY <1>1, <1>2, <1>4, <1>5 DEF TypeOK
<1>7. QED
  BY <1>1, <1>4, <1>5, <1>6 DEF TypeOK, TablesTypeOK, tables, PC, Response

LEMMA ReadRecordsType ==
    ASSUME TypeOK, NEW r \in Request, ReadRecords(r)
    PROVE  TypeOK'
<1>1. UNCHANGED <<tables, accounts, now, events, call, copy, scope, ids, items, seen, week,
                  ever, met, before>>
  BY DEF ReadRecords, NoWrite, history
<1>2. read' \in [Request -> SUBSET confirmations]
  BY DEF ReadRecords, TypeOK
<1>3. /\ pc' \in [Request -> PC] /\ answer' \in [Request -> Response']
      /\ \A q \in Request \ {r} : pc'[q] = pc[q]
  BY <1>1, GoType DEF ReadRecords, Step, tables
<1>4. \A q \in Request : pc'[q] \in Step => call'[q] \in Offered /\ copy'[q] \in AccountState
  BY <1>1, <1>3 DEF TypeOK, ReadRecords, Step
<1>5. QED
  BY <1>1, <1>2, <1>3, <1>4 DEF TypeOK, TablesTypeOK, tables, PC, Response

LEMMA ThreadType ==
    ASSUME TypeOK, NEW b, NEW g
    PROVE  ThreadOf(b, g) \subseteq 1 .. MaxReplies
BY FeedAssumption DEF TypeOK, TablesTypeOK, ThreadOf

LEMMA ItemType ==
    ASSUME TypeOK, NEW r \in Request, NEW b \in DOMAIN broadcasts
    PROVE  ItemOf(r, b) \in Item
<1>1. b \in 1 .. MaxBroadcasts
  BY FeedAssumption DEF TypeOK, TablesTypeOK, MaxBroadcasts
<1>2. broadcasts[b].targets \subseteq Group
  <2>1. broadcasts[b] \in BroadcastRow
    BY DEF TypeOK, TablesTypeOK
  <2>2. QED
    BY <2>1 DEF BroadcastRow
<1>3. \A g : ShownState(r, b, g) \in ConfirmationStates
  BY DEF ShownState, ConfirmationState, ConfirmationStates
<1>4. \A g \in Group : [group |-> g, state |-> ShownState(r, b, g), thread |-> ThreadOf(b, g)]
                          \in Target
  BY <1>3, ThreadType DEF Target
<1>5. QED
  BY <1>1, <1>2, <1>4 DEF ItemOf, Item

LEMMA ReadRepliesType ==
    ASSUME TypeOK, NEW r \in Request, ReadReplies(r)
    PROVE  TypeOK'
<1>1. UNCHANGED <<tables, accounts, now, events, call, copy, scope, ids, read, seen, week,
                  ever, met, before>>
  BY DEF ReadReplies, NoWrite, history
<1>2. items' \in [Request -> Seq(Item)]
  <2>1. \A i \in DOMAIN ids[r] : ids[r][i] \in DOMAIN broadcasts
    BY DEF TypeOK
  <2>2. \A i \in DOMAIN ids[r] : ItemOf(r, ids[r][i]) \in Item
    BY <2>1, ItemType
  <2>3. [i \in DOMAIN ids[r] |-> ItemOf(r, ids[r][i])] \in Seq(Item)
    <3>1. Len(ids[r]) \in Nat /\ DOMAIN ids[r] = 1 .. Len(ids[r])
      BY DEF TypeOK
    <3> DEFINE item(i) == ItemOf(r, ids[r][i])
    <3>2. \A i \in 1 .. Len(ids[r]) : item(i) \in Item
      BY <2>2, <3>1
    <3> HIDE DEF item
    <3>3. [i \in 1 .. Len(ids[r]) |-> item(i)] \in Seq(Item)
      BY <3>1, <3>2
    <3>4. QED
      BY <3>1, <3>3 DEF item
  <2>4. QED
    BY <2>3 DEF TypeOK, ReadReplies
<1>3. Go(r, "count") \/ Finish(r, "failed", {})
  BY DEF ReadReplies
<1>4. /\ pc' \in [Request -> PC] /\ answer' \in [Request -> Response']
      /\ \A q \in Request \ {r} : pc'[q] = pc[q]
  BY <1>1, <1>3, GoType, FinishType DEF Step, Status, tables
<1>5. \A q \in Request : pc'[q] \in Step => call'[q] \in Offered /\ copy'[q] \in AccountState
  BY <1>1, <1>4 DEF TypeOK, ReadReplies, Step
<1>6. QED
  BY <1>1, <1>2, <1>4, <1>5 DEF TypeOK, TablesTypeOK, tables, PC, Response

LEMMA CountPendingType ==
    ASSUME TypeOK, NEW r \in Request, CountPending(r)
    PROVE  TypeOK'
<1>1. UNCHANGED <<tables, accounts, now, events, call, scope, seen, ever, met, before>>
  BY DEF CountPending, NoWrite
<1> DEFINE counted == IF MayConfirm(copy[r]) THEN PendingOf(copy[r].group) ELSE {}
<1>2. counted \subseteq DOMAIN broadcasts /\ Finish(r, "ok", counted)
  BY DEF CountPending, PendingOf
<1> HIDE DEF counted
<1>3. /\ pc' \in [Request -> PC] /\ pc'[r] = "done" /\ answer' \in [Request -> Response']
      /\ \A q \in Request \ {r} : pc'[q] = pc[q]
  BY <1>1, <1>2, FinishType DEF Status, tables
<1>4. week' \in [Request -> [page : Int \union {NoWeek}, badge : Int \union {NoWeek}]]
  <2>1. WeekStart(now) \in Int
    BY CalendarAssumption, FeedAssumption DEF TypeOK, WeekStart, Week, Local
  <2>2. week' = [week EXCEPT ![r].badge = WeekStart(now)]
    BY DEF CountPending
  <2>3. QED
    BY <2>1, <2>2 DEF TypeOK
<1>5. /\ copy' \in [Request -> AccountState \union {NoCall}]
      /\ ids' \in [Request -> Seq(DOMAIN broadcasts)]
      /\ read' \in [Request -> SUBSET confirmations]
      /\ items' \in [Request -> Seq(Item)]
  BY DEF CountPending, TypeOK
<1>6. \A q \in Request : pc'[q] \in Step => call'[q] \in Offered /\ copy'[q] \in AccountState
  BY <1>1, <1>3 DEF TypeOK, CountPending, Step
<1>7. QED
  BY <1>1, <1>3, <1>4, <1>5, <1>6 DEF TypeOK, TablesTypeOK, tables, PC, Response

-----------------------------------------------------------------------------
(* What the writers of the board do: one row, that fits the rows there are. *)

\* Nothing is in the new reply's thread before its parent.
Fits(row) ==
    row.ref # NoParent => /\ row.ref \in DOMAIN replies
                          /\ replies[row.ref].broadcast = row.broadcast
                          /\ replies[row.ref].group = row.group

NewBroadcast ==
    /\ Len(broadcasts) < MaxBroadcasts
    /\ \E row \in BroadcastRow : broadcasts' = Append(broadcasts, row)
    /\ UNCHANGED <<confirmations, replies>>

NewConfirmation ==
    /\ \E row \in ConfirmationRow :
          /\ ~Confirmed(row.broadcast, row.group)
          /\ confirmations' = confirmations \union {row}
    /\ UNCHANGED <<broadcasts, replies>>

NewReply ==
    /\ Len(replies) < MaxReplies
    /\ \E row \in ReplyRow : Fits(row) /\ replies' = Append(replies, row)
    /\ UNCHANGED <<broadcasts, confirmations>>

LEMMA BoardWrites ==
    ASSUME TypeOK, BoardStep
    PROVE  NewBroadcast \/ NewConfirmation \/ NewReply
<1>1. PICK a \in Author :
        \/ /\ Len(broadcasts) < MaxBroadcasts
           /\ \E targets \in Published, t \in Stamps : Board!Publish(a, targets, t)
        \/ \E b \in DOMAIN broadcasts, g \in Group, t \in Stamps : Board!Confirm(b, g, a, t)
        \/ /\ Len(replies) < MaxReplies
           /\ \E b \in DOMAIN broadcasts, g \in Group, ref \in DOMAIN replies \union {NoParent} :
                 Board!Reply(b, g, a, ref, now)
  BY DEF BoardStep
<1>2. a \in Account
  BY FeedAssumption
<1>3. Stamps \subseteq Nat /\ now \in Nat
  BY FeedAssumption DEF Stamps, TypeOK
<1>4. DOMAIN broadcasts \subseteq Nat /\ DOMAIN replies \subseteq Nat
  BY DEF TypeOK, TablesTypeOK
<1>5. ASSUME Len(broadcasts) < MaxBroadcasts, NEW targets \in Published, NEW t \in Stamps,
             Board!Publish(a, targets, t)
      PROVE  NewBroadcast
  <2> DEFINE row == [author |-> a, targets |-> targets, createdAt |-> t,
                     deadline |-> Board!ConfirmationDeadline(t)]
  <2>1. Board!ConfirmationDeadline(t) = ConfirmationDeadline(t)
    BY DEF Board!ConfirmationDeadline, Board!ConfirmationDay, Board!LocalDay, Board!Local,
       Board!TimeOfDay, ConfirmationDeadline, ConfirmationDay, LocalDay, Local, TimeOfDay
  <2>2. Board!ConfirmationDeadline(t) \in Int
    BY <1>3, <2>1, DeadlineType
  <2>3. row \in BroadcastRow
    BY <1>2, <1>3, <2>2, FeedAssumption DEF BroadcastRow
  <2>4. broadcasts' = Append(broadcasts, row) /\ UNCHANGED <<confirmations, replies>>
    BY <1>5 DEF Board!Publish
  <2>5. QED
    BY <1>5, <2>3, <2>4 DEF NewBroadcast
<1>6. ASSUME NEW b \in DOMAIN broadcasts, NEW g \in Group, NEW t \in Stamps,
             Board!Confirm(b, g, a, t)
      PROVE  NewConfirmation
  <2> DEFINE row == [broadcast |-> b, group |-> g, by |-> a, at |-> t]
  <2>1. row \in ConfirmationRow
    BY <1>2, <1>3, <1>4 DEF ConfirmationRow
  <2>2. ~Confirmed(row.broadcast, row.group)
    BY <1>6 DEF Board!Confirm, Confirmed
  <2>3. confirmations' = confirmations \union {row} /\ UNCHANGED <<broadcasts, replies>>
    BY <1>6 DEF Board!Confirm
  <2>4. QED
    BY <2>1, <2>2, <2>3 DEF NewConfirmation
<1>7. ASSUME Len(replies) < MaxReplies, NEW b \in DOMAIN broadcasts, NEW g \in Group,
             NEW ref \in DOMAIN replies \union {NoParent}, Board!Reply(b, g, a, ref, now)
      PROVE  NewReply
  <2> DEFINE row == [broadcast |-> b, group |-> g, author |-> a, ref |-> ref, createdAt |-> now]
  <2>1. row \in ReplyRow
    BY <1>2, <1>3, <1>4 DEF ReplyRow, NoParent
  <2>2. Fits(row)
    BY <1>7 DEF Board!Reply, Board!NoParent, NoParent, Fits
  <2>3. replies' = Append(replies, row) /\ UNCHANGED <<broadcasts, confirmations>>
    BY <1>7 DEF Board!Reply
  <2>4. QED
    BY <1>7, <2>1, <2>2, <2>3 DEF NewReply
<1>8. QED
  BY <1>1, <1>5, <1>6, <1>7

\* Rows are never changed or deleted and the clock is never set back.
Grown ==
    /\ \A b \in DOMAIN broadcasts : b \in DOMAIN broadcasts' /\ broadcasts'[b] = broadcasts[b]
    /\ \A i \in DOMAIN replies : i \in DOMAIN replies' /\ replies'[i] = replies[i]
    /\ confirmations \subseteq confirmations'
    /\ now' \in Nat /\ now \in Nat /\ now <= now'

LEMMA BoardStepType ==
    ASSUME TypeOK, BoardStep
    PROVE  TypeOK' /\ Grown
<1>1. UNCHANGED <<accounts, now, pc, call, copy, scope, ids, read, items, answer, seen, week,
                  ever, met, before>>
  BY DEF BoardStep, local, history
<1>2. events' \in 0 .. MaxEvents /\ met' \in [Request -> 0 .. events']
  <2>1. events' \in 0 .. MaxEvents /\ events' = events + 1 /\ events \in Nat
    BY FeedAssumption DEF BoardStep, Event, TypeOK
  <2>2. \A q \in Request : met[q] \in 0 .. events'
    BY <2>1 DEF TypeOK
  <2>3. QED
    BY <1>1, <2>1, <2>2 DEF TypeOK
<1>3. now \in Nat /\ MaxBroadcasts \in Nat /\ MaxReplies \in Nat
  BY FeedAssumption DEF TypeOK, MaxBroadcasts
<1>4. /\ TablesTypeOK' /\ Len(broadcasts') <= MaxBroadcasts /\ Len(replies') <= MaxReplies
      /\ Grown
  <2>1. CASE NewBroadcast
    BY <1>1, <1>3, <2>1 DEF NewBroadcast, TypeOK, TablesTypeOK, Grown
  <2>2. CASE NewConfirmation
    BY <1>1, <1>3, <2>2 DEF NewConfirmation, TypeOK, TablesTypeOK, Grown
  <2>3. CASE NewReply
    BY <1>1, <1>3, <2>3 DEF NewReply, TypeOK, TablesTypeOK, Grown
  <2>4. QED
    BY <2>1, <2>2, <2>3, BoardWrites
<1>5. DOMAIN broadcasts \subseteq DOMAIN broadcasts'
  BY <1>4 DEF Grown
<1>6. ids' \in [Request -> Seq(DOMAIN broadcasts')]
  <2>1. \A r \in Request : ids[r] \in Seq(DOMAIN broadcasts')
    <3> SUFFICES ASSUME NEW r \in Request PROVE ids[r] \in Seq(DOMAIN broadcasts')
      OBVIOUS
    <3>1. ids[r] \in Seq(DOMAIN broadcasts)
      BY DEF TypeOK
    <3> DEFINE D == DOMAIN broadcasts
               E == DOMAIN broadcasts'
    <3>2. ids[r] \in Seq(D) /\ D \subseteq E
      BY <1>5, <3>1
    <3> HIDE DEF D, E
    <3>3. ids[r] \in Seq(E)
      BY <3>2
    <3>4. QED
      BY <3>3 DEF E
  <2>2. QED
    BY <1>1, <2>1 DEF TypeOK
<1>7. answer' \in [Request -> Response']
  BY <1>1, <1>5 DEF TypeOK, Response
<1>8. read' \in [Request -> SUBSET confirmations']
  BY <1>1, <1>4 DEF TypeOK, Grown
<1>9. QED
  BY <1>1, <1>2, <1>4, <1>6, <1>7, <1>8 DEF TypeOK, Response

LEMMA UpdateAccountType ==
    ASSUME TypeOK, UpdateAccount
    PROVE  TypeOK'
<1>1. PICK u \in AdminUpdates :
        /\ accounts' = [accounts EXCEPT ![u[1]] = u[2]]
        /\ ever' = [r \in Request |->
                      IF pc[r] \in Step /\ call[r].account = u[1]
                      THEN ever[r] \union {u[2]} ELSE ever[r]]
        /\ met' = [r \in Request |->
                     IF pc[r] = "mask" /\ call[r].account = u[1] THEN met[r] + 1 ELSE met[r]]
  BY DEF UpdateAccount
<1>2. u[2] \in AccountState
  BY FeedAssumption
<1>3. /\ accounts' \in [Account -> AccountState]
      /\ ever' \in [Request -> SUBSET AccountState]
  BY <1>1, <1>2 DEF TypeOK
<1>4. events' \in 0 .. MaxEvents /\ met' \in [Request -> 0 .. events']
  <2>1. events' \in 0 .. MaxEvents /\ events' = events + 1 /\ events \in Nat
    BY FeedAssumption DEF UpdateAccount, Event, TypeOK
  <2>2. \A q \in Request : met[q] \in 0 .. events' /\ met[q] + 1 \in 0 .. events'
    BY <2>1 DEF TypeOK
  <2>3. QED
    BY <1>1, <2>1, <2>2
<1>5. UNCHANGED <<broadcasts, confirmations, replies, now, pc, call, copy, scope, ids, read,
                  items, answer, seen, week, before>>
  BY DEF UpdateAccount, tables, local
<1>6. QED
  BY <1>3, <1>4, <1>5 DEF TypeOK, TablesTypeOK

LEMMA TickType ==
    ASSUME TypeOK, Tick
    PROVE  TypeOK'
BY FeedAssumption DEF Tick, TypeOK, TablesTypeOK, tables, local, history

LEMMA StepType ==
    ASSUME TypeOK, Next
    PROVE  TypeOK'
BY BeginType, ReadIdsType, ReadAccountType, ReadMaskType, ReadRecordsType, ReadRepliesType,
   CountPendingType, BoardStepType, UpdateAccountType, TickType
DEF Next, Serve

\* Everything read and answered keeps its type, however the tables grow.
THEOREM FeedTypeCorrect == Spec => []TypeOK
<1>1. TypeOK /\ [Next]_vars => TypeOK'
  <2> SUFFICES ASSUME TypeOK, [Next]_vars PROVE TypeOK'
    OBVIOUS
  <2>1. CASE Next
    BY <2>1, StepType
  <2>2. CASE UNCHANGED vars
    BY <2>2 DEF vars, tables, local, history, TypeOK, TablesTypeOK
  <2>3. QED
    BY <2>1, <2>2
<1>2. QED
  BY <1>1, InitType, PTL DEF Spec

-----------------------------------------------------------------------------
(* What holds of one request in its course. *)

ItemsOf(r) == {items[r][i] : i \in DOMAIN items[r]}
Given(r) == ItemsOf(r) \union Shown(r)

\* Nothing is read too early and only items that are made up are answered.
CourseOK(r) ==
    /\ pc[r] # "count" => items[r] = <<>>
    /\ pc[r] # "done" => answer[r] = NoAnswer
    /\ pc[r] \in {"idle", "ids"} => ids[r] = <<>>
    /\ pc[r] \in Step /\ call[r].op = "count" => 
          ids[r] = <<>> /\ pc[r] \in {"account", "mask", "count"}
    /\ answer[r].status # "failed"

\* The page is cut to a group the student had, and so are the items; of the account that
\* has been loaded only the mask may be one it never had.
ScopeOK(r) ==
    /\ pc[r] \in Step =>
          /\ \E a \in ever[r] : copy[r].type = a.type /\ copy[r].group = a.group
          /\ Unmoved(r) /\ met[r] <= 1 => copy[r] \in ever[r]
          /\ accounts[call[r].account] \in ever[r]
    /\ pc[r] \in Step /\ call[r].op = "feed" /\ AllStudents(r) =>
          /\ \E a \in ever[r] : scope[r] = a.group
          /\ \A b \in PageSet(r) : Targeted(b, scope[r])
    /\ AllStudents(r) => \A x \in Given(r) : ScopedItem(r, x)

\* How a confirmation is shown at any time.
Verdict(c) ==
    IF c.at <= broadcasts[c.broadcast].deadline THEN "confirmed_on_time" ELSE "confirmed_late"

\* The confirmations among C that make a target be shown as t.
Behind(C, b, t) == {c \in C : c.broadcast = b /\ c.group = t.group /\ Verdict(c) = t.state}

\* What has been shown of a target and can only be outgrown.
StillTrue(b, t) ==
    /\ b \in DOMAIN broadcasts
    /\ t.group \in broadcasts[b].targets
    /\ t.state \in Confirmations => Behind(confirmations, b, t) # {}
    /\ t.state = "overdue" => now > broadcasts[b].deadline
    /\ t.thread \subseteq ThreadOf(b, t.group)

ShownOK(r) ==
    \A x \in Given(r) :
        x.broadcast \in DOMAIN broadcasts /\ \A t \in x.targets : StillTrue(x.broadcast, t)

\* A reader who comes after p has read what p has shown confirmed.
AfterOK(p, q) ==
    p \in before[q] =>
        /\ pc[p] = "done"
        /\ pc[q] = "replies" =>
              \A x \in Shown(p) : x.broadcast \in PageSet(q) =>
                  \A t \in x.targets :
                      t.state \in Confirmations => Behind(read[q], x.broadcast, t) # {}
        /\ \A x \in Shown(p), y \in Given(q) : x.broadcast = y.broadcast => StandsBy(x, y)

InPage(r, b) ==
    /\ week[r].page # NoWeek
    /\ broadcasts[b].createdAt >= week[r].page
    /\ broadcasts[b].createdAt < week[r].page + Week

Whole(r) == call[r].offset = 0 /\ seen[r].wanted <= call[r].limit

\* The page holds nothing of another week, and a whole list everything there was.
ListOK(r) ==
    /\ seen[r].there <= Len(broadcasts)
    /\ pc[r] \in {"account", "mask", "records", "replies"} /\ call[r].op = "feed" =>
          /\ week[r].page # NoWeek => \A b \in PageSet(r) : InPage(r, b)
          /\ Whole(r) =>
                \A b \in DOMAIN broadcasts :
                    b <= seen[r].there /\ Targeted(b, scope[r]) /\ InPage(r, b) => b \in PageSet(r)
    /\ pc[r] = "count" /\ call[r].op = "feed" =>
          /\ week[r].page # NoWeek => \A x \in ItemsOf(r) : InPage(r, x.broadcast)
          /\ Whole(r) /\ Unmoved(r) /\ AllStudents(r) =>
                \A a \in ever[r], b \in DOMAIN broadcasts :
                    b <= seen[r].there /\ Targeted(b, a.group) /\ InPage(r, b) =>
                        \E x \in ItemsOf(r) :
                            x.broadcast = b /\ \E t \in x.targets : t.group = a.group

\* BadgeAgreesWithItems of one request.
BadgeOK(r) ==
    Fed(r) /\ Unmoved(r) /\ met[r] <= 1 /\ week[r].page = week[r].badge =>
        \A a \in ever[r] : MayConfirm(a) => BadgeFits(r, a.group)

RequestOK(r) ==
    CourseOK(r) /\ ScopeOK(r) /\ ShownOK(r) /\ ListOK(r) /\ BadgeOK(r)

\* A target is confirmed once and every parent hangs in the same thread.
BoardOK ==
    /\ \A c, d \in confirmations : c.broadcast = d.broadcast /\ c.group = d.group => c = d
    /\ \A i \in DOMAIN replies : Fits(replies[i])

FeedOK ==
    /\ BoardOK
    /\ \A r \in Request : RequestOK(r)
    /\ \A p, q \in Request : AfterOK(p, q)

-----------------------------------------------------------------------------
(* Who moves: one request, or the world around all of them. *)

Same(q) ==
    /\ pc'[q] = pc[q] /\ call'[q] = call[q] /\ copy'[q] = copy[q] /\ scope'[q] = scope[q]
    /\ ids'[q] = ids[q] /\ read'[q] = read[q] /\ items'[q] = items[q]
    /\ answer'[q] = answer[q] /\ seen'[q] = seen[q] /\ week'[q] = week[q]
    /\ before'[q] = before[q]

\* The states the account of a request had and the writes its mask has met: more while
\* it is served, no more then.
EverGrows(q) ==
    /\ ever[q] \subseteq ever'[q]
    /\ met'[q] <= 1 => met[q] <= 1
    /\ pc[q] \notin Step => ever'[q] = ever[q] /\ met'[q] = met[q]
    /\ pc[q] \in Step /\ accounts[call[q].account] \in ever[q] =>
          accounts'[call[q].account] \in ever'[q]

Moves(r) == Begin(r) \/ Serve(r)
Around == BoardStep \/ UpdateAccount \/ Tick

LEMMA OthersStay ==
    ASSUME TypeOK, NEW r \in Request, Moves(r)
    PROVE  /\ \A q \in Request \ {r} : Same(q) /\ EverGrows(q)
           /\ UNCHANGED <<tables, accounts, now>>
           /\ Grown
           /\ pc[r] # "done"
<1>1. UNCHANGED <<broadcasts, confirmations, replies, accounts, now>> /\ pc[r] # "done"
  BY DEF Moves, Serve, Begin, ReadIds, ReadAccount, ReadMask, ReadRecords, ReadReplies,
         CountPending, NoWrite, tables
<1>2. now \in Nat
  BY FeedAssumption DEF TypeOK
<1>3. Grown
  BY <1>1, <1>2 DEF Grown
<1>4. \A q \in Request \ {r} : Same(q) /\ ever'[q] = ever[q] /\ met'[q] = met[q]
  <2>1. CASE Begin(r)
    BY <2>1 DEF TypeOK, Begin, Go, Finish, Same
  <2>2. CASE ReadIds(r)
    BY <2>2 DEF TypeOK, ReadIds, Go, Same
  <2>3. CASE ReadMask(r)
    BY <2>3 DEF TypeOK, ReadMask, Go, Finish, Same, history
  <2>4. CASE ReadRecords(r)
    BY <2>4 DEF TypeOK, ReadRecords, Go, Same, history
  <2>5. CASE ReadReplies(r)
    BY <2>5 DEF TypeOK, ReadReplies, Go, Finish, Same, history
  <2>6. CASE CountPending(r)
    BY <2>6 DEF TypeOK, CountPending, Finish, Same
  <2>7. CASE ReadAccount(r)
    BY <2>7 DEF TypeOK, ReadAccount, Go, Same, history
  <2>8. QED
    BY <2>1, <2>2, <2>3, <2>4, <2>5, <2>6, <2>7 DEF Moves, Serve
<1>5. \A q \in Request \ {r} : EverGrows(q)
  BY <1>1, <1>4 DEF EverGrows
<1>6. QED
  BY <1>1, <1>3, <1>4, <1>5 DEF tables

LEMMA AllStay ==
    ASSUME TypeOK, Around
    PROVE  /\ \A q \in Request : Same(q) /\ EverGrows(q)
           /\ Grown
<1>1. CASE BoardStep
  <2>1. /\ \A q \in Request : Same(q) /\ ever'[q] = ever[q] /\ met'[q] = met[q]
        /\ accounts' = accounts
    BY <1>1 DEF BoardStep, local, history, Same
  <2>2. Grown
    BY <1>1, BoardStepType
  <2>3. QED
    BY <2>1, <2>2 DEF EverGrows
<1>2. CASE UpdateAccount
  <2>1. \A q \in Request : Same(q)
    BY <1>2 DEF UpdateAccount, local, Same
  <2>2. Grown
    BY <1>2, FeedAssumption DEF UpdateAccount, tables, Grown, TypeOK
  <2>3. PICK u \in AdminUpdates :
          /\ accounts' = [accounts EXCEPT ![u[1]] = u[2]]
          /\ ever' = [r \in Request |->
                        IF pc[r] \in Step /\ call[r].account = u[1]
                        THEN ever[r] \union {u[2]} ELSE ever[r]]
          /\ met' = [r \in Request |->
                       IF pc[r] = "mask" /\ call[r].account = u[1]
                       THEN met[r] + 1 ELSE met[r]]
    BY <1>2 DEF UpdateAccount
  <2>4. ASSUME NEW q \in Request
        PROVE  EverGrows(q)
    <3> met'[q] <= 1 => met[q] <= 1
      BY <2>3 DEF TypeOK
    <3> pc[q] \notin Step => met'[q] = met[q]
      BY <2>3 DEF Step
    <3>1. CASE pc[q] \in Step /\ call[q].account = u[1]
      <4>1. ever'[q] = ever[q] \union {u[2]}
        BY <2>3, <3>1
      <4>2. call[q].account \in Account
        BY <3>1, FeedAssumption DEF TypeOK, Offer
      <4>3. accounts'[call[q].account] = u[2]
        BY <2>3, <3>1, <4>2 DEF TypeOK
      <4>4. QED
        BY <3>1, <4>1, <4>3 DEF EverGrows
    <3>2. CASE ~(pc[q] \in Step /\ call[q].account = u[1])
      <4>1. ever'[q] = ever[q]
        BY <2>3, <3>2
      <4>2. pc[q] \in Step => accounts'[call[q].account] = accounts[call[q].account]
        BY <2>3, <3>2, FeedAssumption DEF TypeOK, Offer
      <4>3. QED
        BY <4>1, <4>2 DEF EverGrows
    <3>3. QED
      BY <3>1, <3>2
  <2>5. QED
    BY <2>1, <2>2, <2>4
<1>3. CASE Tick
  <2>1. /\ \A q \in Request : Same(q) /\ ever'[q] = ever[q] /\ met'[q] = met[q]
        /\ accounts' = accounts
    BY <1>3 DEF Tick, local, history, Same
  <2>2. Grown
    BY <1>3, FeedAssumption DEF Tick, tables, Grown, TypeOK
  <2>3. QED
    BY <2>1, <2>2 DEF EverGrows
<1>4. QED
  BY <1>1, <1>2, <1>3 DEF Around

-----------------------------------------------------------------------------
(* What has been shown stays true while the tables and the clock go on. *)

LEMMA TargetedStays ==
    ASSUME Grown, NEW b, NEW g
    PROVE  /\ Targeted(b, g) => Targeted(b, g)'
           /\ Confirmed(b, g) => Confirmed(b, g)'
           /\ ThreadOf(b, g) \subseteq ThreadOf(b, g)'
BY DEF Grown, Targeted, Confirmed, ThreadOf

LEMMA BehindStays ==
    ASSUME Grown, NEW b \in DOMAIN broadcasts, NEW t, NEW C, NEW D, C \subseteq D
    PROVE  Behind(C, b, t) # {} => (Behind(D, b, t) # {} /\ Behind(D, b, t)' # {})
<1> SUFFICES ASSUME NEW c \in Behind(C, b, t)
             PROVE  c \in Behind(D, b, t) /\ c \in Behind(D, b, t)'
  OBVIOUS
<1>1. c \in D /\ c.broadcast = b /\ c.group = t.group /\ Verdict(c) = t.state
  BY DEF Behind
<1>2. Verdict(c)' = Verdict(c)
  BY <1>1 DEF Verdict, Grown
<1>3. QED
  BY <1>1, <1>2 DEF Behind

LEMMA StillTrueStays ==
    ASSUME TypeOK, Grown, NEW b, NEW t, StillTrue(b, t)
    PROVE  StillTrue(b, t)'
<1>1. b \in DOMAIN broadcasts /\ b \in DOMAIN broadcasts' /\ broadcasts'[b] = broadcasts[b]
  BY DEF StillTrue, Grown
<1>2. t.state \in Confirmations => Behind(confirmations, b, t)' # {}
  <2> SUFFICES ASSUME NEW c \in Behind(confirmations, b, t)
               PROVE  c \in Behind(confirmations, b, t)'
    BY DEF StillTrue
  <2>1. c \in confirmations' /\ c.broadcast = b /\ c.group = t.group /\ Verdict(c) = t.state
    BY DEF Behind, Grown
  <2>2. Verdict(c)' = Verdict(c)
    BY <1>1, <2>1 DEF Verdict
  <2>3. QED
    BY <2>1, <2>2 DEF Behind
<1>3. t.state = "overdue" => now' > broadcasts'[b].deadline
  <2>1. broadcasts[b].deadline \in Int
    <3>1. broadcasts[b] \in BroadcastRow
      BY <1>1 DEF TypeOK, TablesTypeOK
    <3>2. QED
      BY <3>1 DEF BroadcastRow
  <2>2. QED
    BY <1>1, <2>1 DEF StillTrue, Grown
<1>4. ThreadOf(b, t.group) \subseteq ThreadOf(b, t.group)'
  BY TargetedStays
<1>5. QED
  BY <1>1, <1>2, <1>3, <1>4 DEF StillTrue

LEMMA GivenStays ==
    ASSUME NEW q \in Request, Same(q)
    PROVE  /\ ItemsOf(q)' = ItemsOf(q) /\ Shown(q)' = Shown(q) /\ Given(q)' = Given(q)
           /\ PageSet(q)' = PageSet(q)
           /\ \A g, states : ShownIn(q, g, states)' = ShownIn(q, g, states)
BY DEF Same, ItemsOf, Shown, Given, PageSet, ShownIn

LEMMA InPageStays ==
    ASSUME Grown, NEW q \in Request, Same(q), NEW b \in DOMAIN broadcasts
    PROVE  InPage(q, b)' = InPage(q, b)
BY DEF Grown, Same, InPage

LEMMA CourseStays ==
    ASSUME NEW q \in Request, Same(q), CourseOK(q)
    PROVE  CourseOK(q)'
BY DEF Same, CourseOK

LEMMA ScopedStays ==
    ASSUME Grown, NEW q \in Request, ever[q] \subseteq ever'[q], NEW x, ScopedItem(q, x),
           ever[q] # {}
    PROVE  ScopedItem(q, x)'
<1>1. \E a \in ever'[q] : Targeted(x.broadcast, a.group)'
  BY TargetedStays DEF ScopedItem
<1>2. Unmoved(q)' => Unmoved(q)
  BY DEF Unmoved
<1>3. QED
  BY <1>1, <1>2 DEF ScopedItem

LEMMA ScopeStays ==
    ASSUME Grown, NEW q \in Request, Same(q), EverGrows(q), ScopeOK(q)
    PROVE  ScopeOK(q)'
<1>1. AllStudents(q)' => AllStudents(q)
  BY DEF AllStudents, EverGrows
<1>2. pc'[q] \in Step =>
        /\ \E a \in ever'[q] : copy'[q].type = a.type /\ copy'[q].group = a.group
        /\ Unmoved(q)' /\ met'[q] <= 1 => copy'[q] \in ever'[q]
        /\ accounts'[call'[q].account] \in ever'[q]
  <2> SUFFICES ASSUME pc[q] \in Step
               PROVE  /\ \E a \in ever'[q] : copy[q].type = a.type /\ copy[q].group = a.group
                      /\ Unmoved(q)' /\ met'[q] <= 1 => copy[q] \in ever'[q]
                      /\ accounts'[call[q].account] \in ever'[q]
    BY DEF Same
  <2>1. /\ \E a \in ever[q] : copy[q].type = a.type /\ copy[q].group = a.group
        /\ Unmoved(q) /\ met[q] <= 1 => copy[q] \in ever[q]
        /\ accounts[call[q].account] \in ever[q]
    BY DEF ScopeOK
  <2>2. Unmoved(q)' => Unmoved(q)
    BY <2>1 DEF Unmoved, EverGrows
  <2>3. QED
    BY <2>1, <2>2 DEF EverGrows
<1>3. pc'[q] \in Step /\ call'[q].op = "feed" /\ AllStudents(q)' =>
        /\ \E a \in ever'[q] : scope'[q] = a.group
        /\ \A b \in PageSet(q)' : Targeted(b, scope[q])'
  <2> SUFFICES ASSUME pc[q] \in Step, call[q].op = "feed", AllStudents(q)
               PROVE  /\ \E a \in ever'[q] : scope[q] = a.group
                      /\ \A b \in PageSet(q) : Targeted(b, scope[q])'
    BY <1>1, GivenStays DEF Same
  <2>1. /\ \E a \in ever[q] : scope[q] = a.group
        /\ \A b \in PageSet(q) : Targeted(b, scope[q])
    BY DEF ScopeOK
  <2>2. QED
    BY <2>1 DEF EverGrows, Targeted, Grown, Same
<1>4. scope'[q] = scope[q]
  BY DEF Same
<1>5. AllStudents(q)' => \A x \in Given(q)' : ScopedItem(q, x)'
  <2> SUFFICES ASSUME AllStudents(q), NEW x \in Given(q) PROVE ScopedItem(q, x)'
    BY <1>1, GivenStays
  <2>1. ScopedItem(q, x)
    BY DEF ScopeOK
  <2>2. ever[q] # {}
    BY <2>1 DEF ScopedItem
  <2>3. QED
    BY <2>1, <2>2, ScopedStays DEF EverGrows
<1>6. QED
  BY <1>2, <1>3, <1>4, <1>5 DEF ScopeOK

LEMMA ShownStays ==
    ASSUME TypeOK, Grown, NEW q \in Request, Same(q), ShownOK(q)
    PROVE  ShownOK(q)'
<1> SUFFICES ASSUME NEW x \in Given(q)
             PROVE  /\ x.broadcast \in DOMAIN broadcasts'
                    /\ \A t \in x.targets : StillTrue(x.broadcast, t)'
  BY GivenStays DEF ShownOK
<1>1. x.broadcast \in DOMAIN broadcasts /\ \A t \in x.targets : StillTrue(x.broadcast, t)
  BY DEF ShownOK
<1>2. QED
  BY <1>1, StillTrueStays DEF Grown

LEMMA AfterStays ==
    ASSUME Grown, NEW p \in Request, NEW q \in Request, Same(p), Same(q), AfterOK(p, q),
           ShownOK(p)
    PROVE  AfterOK(p, q)'
<1> SUFFICES ASSUME p \in before[q] PROVE AfterOK(p, q)'
  BY DEF AfterOK, Same
<1>1. pc'[p] = "done"
  BY DEF AfterOK, Same
<1>2. ASSUME pc'[q] = "replies", NEW x \in Shown(p), x.broadcast \in PageSet(q),
             NEW t \in x.targets, t.state \in Confirmations
      PROVE  Behind(read[q], x.broadcast, t)' # {}
  <2>1. Behind(read[q], x.broadcast, t) # {}
    BY <1>2 DEF AfterOK, Same
  <2>2. x.broadcast \in DOMAIN broadcasts
    BY <1>2 DEF ShownOK, Given, StillTrue
  <2>3. PICK c \in Behind(read[q], x.broadcast, t) : TRUE
    BY <2>1
  <2>4. c \in read'[q] /\ c.broadcast = x.broadcast /\ c.group = t.group /\ Verdict(c) = t.state
    BY <2>3 DEF Behind, Same
  <2>5. Verdict(c)' = Verdict(c)
    BY <2>2, <2>4 DEF Verdict, Grown
  <2>6. c \in Behind(read[q], x.broadcast, t)'
    BY <2>4, <2>5 DEF Behind
  <2>7. QED
    BY <2>6
<1>3. \A x \in Shown(p), y \in Given(q) : x.broadcast = y.broadcast => StandsBy(x, y)
  BY DEF AfterOK
<1>4. Shown(p)' = Shown(p) /\ Given(q)' = Given(q) /\ PageSet(q)' = PageSet(q)
  BY GivenStays
<1>5. \A x \in Shown(p)' : x.broadcast \in PageSet(q)' /\ pc'[q] = "replies" =>
         \A t \in x.targets : t.state \in Confirmations =>
             Behind(read[q], x.broadcast, t)' # {}
  BY <1>2, <1>4 DEF Same
<1>6. \A x, y : StandsBy(x, y)' = StandsBy(x, y)
  BY DEF StandsBy
<1>7. QED
  BY <1>1, <1>3, <1>4, <1>5, <1>6 DEF AfterOK

LEMMA ListStays ==
    ASSUME TypeOK, TypeOK', Grown, NEW q \in Request, Same(q), EverGrows(q), ListOK(q),
           ShownOK(q), pc[q] \in Step => ever[q] # {}
    PROVE  ListOK(q)'
<1>1. /\ ItemsOf(q)' = ItemsOf(q) /\ PageSet(q)' = PageSet(q) /\ Whole(q)' = Whole(q)
      /\ pc'[q] = pc[q] /\ call'[q] = call[q] /\ week'[q] = week[q] /\ seen'[q] = seen[q]
      /\ scope'[q] = scope[q]
  BY GivenStays DEF Same, Whole
<1>2. \A b \in DOMAIN broadcasts : InPage(q, b)' = InPage(q, b)
  BY InPageStays
<1>3. /\ DOMAIN broadcasts = 1 .. Len(broadcasts) /\ DOMAIN broadcasts' = 1 .. Len(broadcasts')
      /\ Len(broadcasts) \in Nat /\ Len(broadcasts') \in Nat
  BY DEF TypeOK, TablesTypeOK
<1>4. PageSet(q) \subseteq DOMAIN broadcasts /\ seen[q].there \in Nat
  BY FeedAssumption DEF TypeOK, PageSet, MaxBroadcasts
<1>5. seen[q].there <= Len(broadcasts) /\ seen[q].there <= Len(broadcasts')
  <2>1. Len(broadcasts) <= Len(broadcasts')
    BY <1>3 DEF Grown
  <2>2. QED
    BY <1>3, <1>4, <2>1 DEF ListOK
<1>6. \A b \in DOMAIN broadcasts' : b <= seen[q].there => b \in DOMAIN broadcasts
  BY <1>3, <1>4, <1>5
<1>7. \A b \in DOMAIN broadcasts : \A g : Targeted(b, g)' => Targeted(b, g)
  BY DEF Targeted, Grown
<1>8. ASSUME pc[q] \in {"account", "mask", "records", "replies"}, call[q].op = "feed"
      PROVE  /\ week[q].page # NoWeek => \A b \in PageSet(q) : InPage(q, b)'
             /\ Whole(q) =>
                  \A b \in DOMAIN broadcasts' :
                    b <= seen[q].there /\ Targeted(b, scope[q])' /\ InPage(q, b)'
                       => b \in PageSet(q)
  <2>1. week[q].page # NoWeek => \A b \in PageSet(q) : InPage(q, b)'
    BY <1>2, <1>4, <1>8 DEF ListOK
  <2>2. ASSUME Whole(q), NEW b \in DOMAIN broadcasts', b <= seen[q].there,
               Targeted(b, scope[q])', InPage(q, b)'
        PROVE  b \in PageSet(q)
    <3>1. b \in DOMAIN broadcasts
      BY <1>6, <2>2
    <3>2. Targeted(b, scope[q]) /\ InPage(q, b)
      BY <1>1, <1>2, <2>2, <3>1 DEF Targeted, Grown
    <3>3. QED
      BY <1>8, <2>2, <3>1, <3>2 DEF ListOK
  <2>3. QED
    BY <2>1, <2>2
<1>9. ASSUME pc[q] = "count", call[q].op = "feed"
      PROVE  /\ week[q].page # NoWeek => \A x \in ItemsOf(q) : InPage(q, x.broadcast)'
             /\ Whole(q) /\ Unmoved(q)' /\ AllStudents(q)' =>
                  \A a \in ever'[q], b \in DOMAIN broadcasts' :
                    b <= seen[q].there /\ Targeted(b, a.group)' /\ InPage(q, b)' =>
                        \E x \in ItemsOf(q) :
                            x.broadcast = b /\ \E t \in x.targets : t.group = a.group
  <2>1. week[q].page # NoWeek => \A x \in ItemsOf(q) : InPage(q, x.broadcast)'
    BY <1>2, <1>9 DEF ListOK, ShownOK, Given
  <2>2. ASSUME Whole(q), Unmoved(q)', AllStudents(q)', NEW a \in ever'[q],
               NEW b \in DOMAIN broadcasts', b <= seen[q].there,
               Targeted(b, a.group)', InPage(q, b)'
        PROVE  \E x \in ItemsOf(q) :
                  x.broadcast = b /\ \E t \in x.targets : t.group = a.group
    <3>1. b \in DOMAIN broadcasts
      BY <1>6, <2>2
    <3>2. Targeted(b, a.group) /\ InPage(q, b)
      BY <1>2, <1>7, <2>2, <3>1
    <3>3. ever[q] # {} /\ ever[q] \subseteq ever'[q]
      BY <1>9 DEF EverGrows, Step
    <3>4. Unmoved(q) /\ AllStudents(q) /\ a \in ever[q]
      BY <2>2, <3>3 DEF Unmoved, AllStudents
    <3>5. QED
      BY <1>9, <2>2, <3>1, <3>2, <3>4 DEF ListOK
  <2>3. QED
    BY <2>1, <2>2
<1>10. QED
  BY <1>1, <1>5, <1>8, <1>9 DEF ListOK

LEMMA BadgeStays ==
    ASSUME TypeOK, Grown, NEW q \in Request, Same(q), EverGrows(q), CourseOK(q), BadgeOK(q)
    PROVE  BadgeOK(q)'
<1> SUFFICES ASSUME Fed(q)', Unmoved(q)', met'[q] <= 1, week'[q].page = week'[q].badge,
                    NEW a \in ever'[q], MayConfirm(a)
             PROVE  BadgeFits(q, a.group)'
  BY DEF BadgeOK
<1>1. pc[q] = "done"
  BY DEF CourseOK, NoAnswer, Fed, Answered, Same
<1>2. ever'[q] = ever[q]
  BY <1>1 DEF EverGrows, Step
<1>3. Fed(q) /\ Unmoved(q) /\ met[q] <= 1 /\ week[q].page = week[q].badge
  BY <1>2 DEF EverGrows, Fed, Answered, Unmoved, Same
<1>4. BadgeFits(q, a.group)
  BY <1>2, <1>3 DEF BadgeOK
<1>5. \A g, states : ShownIn(q, g, states)' = ShownIn(q, g, states)
  BY GivenStays
<1>6. /\ answer'[q] = answer[q] /\ call'[q] = call[q] /\ seen'[q] = seen[q]
  BY DEF Same
<1>7. \A b : Confirmed(b, a.group) => Confirmed(b, a.group)'
  BY TargetedStays
<1>8. QED
  BY <1>4, <1>5, <1>6, <1>7 DEF BadgeFits

LEMMA RequestStays ==
    ASSUME TypeOK, TypeOK', Grown, NEW q \in Request, Same(q), EverGrows(q), RequestOK(q)
    PROVE  RequestOK(q)'
<1>1. pc[q] \in Step => ever[q] # {}
  BY DEF RequestOK, ScopeOK
<1>2. QED
  BY <1>1, CourseStays, ScopeStays, ShownStays, ListStays, BadgeStays DEF RequestOK

-----------------------------------------------------------------------------
(* The board: one confirmation of a target, parents within their thread. *)

LEMMA BoardStays ==
    ASSUME TypeOK, BoardOK, NewBroadcast \/ NewConfirmation \/ NewReply
    PROVE  BoardOK'
<1>1. CASE NewBroadcast
  BY <1>1 DEF NewBroadcast, BoardOK, Fits
<1>2. CASE NewConfirmation
  <2>1. PICK row \in ConfirmationRow :
          /\ ~Confirmed(row.broadcast, row.group)
          /\ confirmations' = confirmations \union {row}
    BY <1>2 DEF NewConfirmation
  <2>2. \A c, d \in confirmations' : c.broadcast = d.broadcast /\ c.group = d.group => c = d
    BY <2>1 DEF BoardOK, Confirmed
  <2>3. \A i \in DOMAIN replies' : Fits(replies[i])'
    BY <1>2 DEF NewConfirmation, BoardOK, Fits
  <2>4. QED
    BY <2>2, <2>3 DEF BoardOK
<1>3. CASE NewReply
  <2>1. PICK row \in ReplyRow : Fits(row) /\ replies' = Append(replies, row)
    BY <1>3 DEF NewReply
  <2>2. replies \in Seq(ReplyRow)
    BY DEF TypeOK, TablesTypeOK
  <2>3. /\ DOMAIN replies' = DOMAIN replies \union {Len(replies) + 1}
        /\ \A i \in DOMAIN replies : replies'[i] = replies[i]
        /\ replies'[Len(replies) + 1] = row
    BY <2>1, <2>2
  <2>4. ASSUME NEW i \in DOMAIN replies'
        PROVE  Fits(replies[i])'
    <3>1. Fits(replies'[i])
      BY <2>1, <2>3 DEF BoardOK
    <3>2. QED
      BY <2>3, <3>1 DEF Fits
  <2>5. QED
    BY <1>3, <2>4 DEF BoardOK, NewReply
<1>4. QED
  BY <1>1, <1>2, <1>3

\* Every reply in scope finds its parent.
LEMMA ThreadsAreNested ==
    ASSUME TypeOK, BoardOK, NEW b, NEW g
    PROVE  Nested(ThreadOf(b, g))
BY DEF BoardOK, Fits, ThreadOf, Nested

-----------------------------------------------------------------------------
(* The mover. *)

LEMMA InitOK == Init => FeedOK
<1> SUFFICES ASSUME Init PROVE FeedOK
  OBVIOUS
<1>1. BoardOK
  BY DEF Init, BoardOK
<1>2. \A q \in Request : Given(q) = {} /\ ItemsOf(q) = {} /\ Shown(q) = {}
  BY DEF Init, Given, ItemsOf, Shown, NoAnswer
<1>3. ASSUME NEW r \in Request
      PROVE  RequestOK(r)
  <2>1. CourseOK(r)
    BY DEF Init, CourseOK, Step, NoAnswer
  <2>2. ScopeOK(r)
    BY <1>2 DEF Init, ScopeOK, Step
  <2>3. ShownOK(r)
    BY <1>2 DEF ShownOK
  <2>4. ListOK(r)
    BY DEF Init, ListOK
  <2>5. BadgeOK(r)
    BY DEF Init, BadgeOK, Fed, Answered, NoAnswer
  <2>6. QED
    BY <2>1, <2>2, <2>3, <2>4, <2>5 DEF RequestOK
<1>4. \A p, q \in Request : AfterOK(p, q)
  BY DEF Init, AfterOK
<1>5. QED
  BY <1>1, <1>3, <1>4 DEF FeedOK

\* A step that goes on without making up items leaves nothing shown.
LEMMA NothingGiven ==
    ASSUME NEW r \in Request, CourseOK(r), pc[r] # "done", pc[r] # "count"
    PROVE  /\ items[r] = <<>> /\ answer[r] = NoAnswer
           /\ ItemsOf(r) = {} /\ Shown(r) = {} /\ Given(r) = {}
BY DEF CourseOK, ItemsOf, Shown, Given, NoAnswer

LEMMA EmptyGiven ==
    ASSUME NEW r \in Request, items'[r] = <<>>, answer'[r].items = <<>>
    PROVE  ItemsOf(r)' = {} /\ Shown(r)' = {} /\ Given(r)' = {}
BY DEF ItemsOf, Shown, Given

LEMMA GoMoves ==
    ASSUME TypeOK, NEW r \in Request, NEW step, Go(r, step)
    PROVE  pc'[r] = step /\ answer'[r] = answer[r]
BY DEF TypeOK, Go

LEMMA FinishMoves ==
    ASSUME TypeOK, NEW r \in Request, NEW status, NEW counted, Finish(r, status, counted)
    PROVE  /\ pc'[r] = "done" /\ answer'[r].status = status /\ answer'[r].counted = counted
           /\ answer'[r].items = (IF status = "ok" THEN items[r] ELSE <<>>)
<1> DEFINE given == [status |-> status, counted |-> counted,
                     items |-> IF status = "ok" THEN items[r] ELSE <<>>]
<1>1. pc'[r] = "done" /\ answer'[r] = given
  BY DEF TypeOK, Finish
<1>2. QED
  BY <1>1

LEMMA BeginOK ==
    ASSUME TypeOK, TypeOK', FeedOK, NEW r \in Request, Begin(r)
    PROVE  RequestOK(r)' /\ \A p \in Request : AfterOK(p, r)'
<1> USE DEF Begin
<1>1. PICK o \in Offered :
        LET a == accounts[o.account]
            student == a.type = "student"
        IN
        /\ call' = [call EXCEPT ![r] = o]
        /\ copy' = [copy EXCEPT ![r] = a]
        /\ ever' = [ever EXCEPT ![r] = {a}]
        /\ scope' = [scope EXCEPT ![r] = IF student THEN a.group ELSE o.group]
        /\ IF ~a.active THEN Finish(r, "unauthorized", {})
           ELSE IF o.op = "count" THEN Go(r, "account")
           ELSE IF student /\ o.group \notin {NoGroup, a.group} THEN Finish(r, "forbidden", {})
           ELSE Go(r, "ids")
  OBVIOUS
<1> DEFINE a == accounts[o.account]
<1>2. /\ call'[r] = o /\ copy'[r] = a /\ ever'[r] = {a}
      /\ a.type = "student" => scope'[r] = a.group
  BY <1>1 DEF TypeOK
<1>3. \/ Finish(r, "unauthorized", {}) \/ Finish(r, "forbidden", {})
      \/ o.op = "count" /\ Go(r, "account")
      \/ o.op # "count" /\ Go(r, "ids")
  BY <1>1
<1> HIDE DEF a
<1>4. UNCHANGED <<tables, accounts, now, events, ids, read, items, seen, week>>
  BY DEF NoWrite
<1>5. /\ items[r] = <<>> /\ answer[r] = NoAnswer /\ ids[r] = <<>>
      /\ seen[r].there <= Len(broadcasts)
  BY NothingGiven DEF FeedOK, RequestOK, CourseOK, ListOK
<1>6. \/ /\ pc'[r] = "done" /\ answer'[r].items = <<>>
         /\ answer'[r].status \in {"unauthorized", "forbidden"}
      \/ o.op = "count" /\ pc'[r] = "account" /\ answer'[r] = NoAnswer
      \/ o.op # "count" /\ pc'[r] = "ids" /\ answer'[r] = NoAnswer
  <2>1. CASE Finish(r, "unauthorized", {})
    BY <2>1, FinishMoves
  <2>2. CASE Finish(r, "forbidden", {})
    BY <2>2, FinishMoves
  <2>3. CASE o.op = "count" /\ Go(r, "account")
    BY <1>5, <2>3, GoMoves
  <2>4. CASE o.op # "count" /\ Go(r, "ids")
    BY <1>5, <2>4, GoMoves
  <2>5. QED
    BY <1>3, <2>1, <2>2, <2>3, <2>4
<1>7. ItemsOf(r)' = {} /\ Shown(r)' = {} /\ Given(r)' = {}
  BY <1>4, <1>5, <1>6, EmptyGiven DEF NoAnswer
<1>8. PageSet(r)' = {}
  BY <1>4, <1>5 DEF PageSet
<1>9. CourseOK(r)'
  BY <1>2, <1>4, <1>5, <1>6 DEF CourseOK, NoAnswer, Step
<1>10. ScopeOK(r)'
  <2>1. accounts'[call'[r].account] = a
    BY <1>2, <1>4 DEF a
  <2>2. QED
    BY <1>2, <1>7, <1>8, <2>1 DEF ScopeOK, AllStudents
<1>11. ShownOK(r)'
  BY <1>7 DEF ShownOK
<1>12. ListOK(r)'
  <2>1. seen'[r].there <= Len(broadcasts')
    BY <1>4, <1>5 DEF tables
  <2>2. pc'[r] \in {"account", "mask", "records", "replies"} => call'[r].op = "count"
    BY <1>2, <1>6
  <2>3. pc'[r] # "count"
    BY <1>6
  <2>4. QED
    BY <2>1, <2>2, <2>3 DEF ListOK
<1>13. BadgeOK(r)'
  BY <1>6 DEF BadgeOK, Fed, Answered, NoAnswer
<1>14. ASSUME NEW p \in Request
       PROVE  AfterOK(p, r)'
  <2>1. p \in before'[r] => pc[p] = "done" /\ p # r
    BY DEF TypeOK
  <2>2. p \in before'[r] => pc'[p] = "done"
    BY <2>1, OthersStay DEF Moves, Same
  <2>3. QED
    BY <1>6, <1>7, <2>2 DEF AfterOK
<1>15. QED
  BY <1>9, <1>10, <1>11, <1>12, <1>13, <1>14 DEF RequestOK

\* A listing leaves nothing out.
LEMMA ListingIsOnto ==
    ASSUME NEW S, IsFiniteSet(S), NEW listing \in Listings(S), NEW b \in S
    PROVE  \E i \in 1 .. Cardinality(S) : listing[i] = b
<1> DEFINE n == Cardinality(S)
<1>1. n \in Nat
  BY FS_CardinalityType
<1>2. listing \in [1 .. n -> S]
  BY DEF Listings
<1>3. \A i, j \in 1 .. n : listing[i] = listing[j] => i = j
  <2> SUFFICES ASSUME NEW i \in 1 .. n, NEW j \in 1 .. n, i < j
               PROVE  listing[i] # listing[j]
    BY <1>1
  <2>1. DOMAIN listing = 1 .. n
    BY <1>2
  <2>2. QED
    BY <2>1 DEF Listings
<1>4. IsFiniteSet(1 .. n) /\ Cardinality(1 .. n) = n
  <2>1. 1 \in Int /\ n \in Int
    BY <1>1
  <2>2. IsFiniteSet(1 .. n) /\ Cardinality(1 .. n) = IF 1 > n THEN 0 ELSE n - 1 + 1
    BY <2>1, FS_Interval, Zenon
  <2>3. QED
    BY <1>1, <2>2
<1> HIDE DEF n
<1>5. listing \in Injection(1 .. n, S)
  BY <1>2, <1>3, Fun_IsInj
<1>6. Cardinality(1 .. n) = Cardinality(S)
  BY <1>4 DEF n
<1>7. listing \in Surjection(1 .. n, S)
  BY <1>5, <1>6, FS_Injection
<1>8. \A x \in S : \E i \in 1 .. n : listing[i] = x
  BY <1>7 DEF Surjection
<1>9. QED
  BY <1>8 DEF n

\* A step of r under way that leaves before alone keeps what comes after others.
LEMMA AfterMoves ==
    ASSUME TypeOK, FeedOK, NEW r \in Request, Serve(r), NEW p \in Request,
           pc'[r] # "replies",
           \A x \in Shown(p), y \in Given(r)' :
               p \in before[r] /\ x.broadcast = y.broadcast => StandsBy(x, y)
    PROVE  AfterOK(p, r)'
<1>1. before'[r] = before[r]
  BY DEF Serve, ReadIds, ReadAccount, ReadMask, ReadRecords, ReadReplies, CountPending, history
<1>2. SUFFICES ASSUME p \in before[r] PROVE AfterOK(p, r)'
  BY <1>1 DEF AfterOK
<1>3. pc[p] = "done" /\ p # r
  BY <1>2, OthersStay DEF FeedOK, AfterOK, Moves
<1>4. Same(p)
  BY <1>3, OthersStay DEF Moves
<1>5. pc'[p] = "done" /\ Shown(p)' = Shown(p)
  BY <1>3, <1>4, GivenStays DEF Same
<1>6. QED
  BY <1>2, <1>5 DEF AfterOK

LEMMA ReadIdsOK ==
    ASSUME TypeOK, TypeOK', FeedOK, NEW r \in Request, ReadIds(r)
    PROVE  RequestOK(r)' /\ \A p \in Request : AfterOK(p, r)'
<1> DEFINE start == StartOf(r)
           wanted == Wanted(r, start)
<1>1. UNCHANGED <<broadcasts, confirmations, replies, accounts, now, call, copy, scope, read,
                  items, ever, met, before>>
  BY DEF ReadIds, NoWrite, tables
<1>2. pc[r] = "ids" /\ pc'[r] = "account" /\ answer'[r] = answer[r]
  BY GoMoves DEF ReadIds
<1>3. /\ items[r] = <<>> /\ answer[r] = NoAnswer
      /\ ItemsOf(r)' = {} /\ Shown(r)' = {} /\ Given(r)' = {}
  BY <1>1, <1>2, NothingGiven, EmptyGiven DEF FeedOK, RequestOK, NoAnswer
<1>4. call[r] \in Offer /\ call[r].op = "feed"
  <2>1. call[r] \in Offer
    BY <1>2, FeedAssumption DEF TypeOK, Step
  <2>2. call[r].op # "count"
    BY <1>2 DEF FeedOK, RequestOK, CourseOK, Step
  <2>3. QED
    BY <2>1, <2>2 DEF Offer
<1>5. PICK listing \in Listings(wanted) :
        ids' = [ids EXCEPT ![r] = PageOf(listing, call[r].limit, call[r].offset)]
  BY DEF ReadIds
<1> DEFINE page == PageOf(listing, call[r].limit, call[r].offset)
<1>6. ids'[r] = page
  BY <1>5 DEF TypeOK
<1>7. /\ IsFiniteSet(wanted) /\ Cardinality(wanted) \in Nat /\ wanted \subseteq DOMAIN broadcasts
      /\ listing \in [1 .. Cardinality(wanted) -> wanted]
  BY FeedAssumption, WantedIsFinite DEF Listings, MaxBroadcasts
<1>8. /\ seen'[r].there = Len(broadcasts) /\ seen'[r].wanted = Cardinality(wanted)
      /\ week'[r].page = (IF call[r].everything THEN NoWeek ELSE start)
  BY DEF ReadIds, TypeOK
<1>9. \A b \in wanted : /\ b \in DOMAIN broadcasts
                        /\ scope[r] = NoGroup \/ Targeted(b, scope[r])
                        /\ week'[r].page # NoWeek => InPage(r, b)'
  BY <1>1, <1>8 DEF Wanted, InPage
<1>10. \A b \in DOMAIN broadcasts :
         Targeted(b, scope[r]) /\ InPage(r, b)' => b \in wanted
  BY <1>1, <1>8 DEF Wanted, InPage
<1> HIDE DEF wanted, page
<1>11. /\ page \in Seq(wanted)
       /\ call[r].offset = 0 /\ Cardinality(wanted) <= call[r].limit => page = listing
  <2>1. call[r].limit \in Nat \ {0} /\ call[r].offset \in Nat
    BY <1>4 DEF Offer
  <2> DEFINE n == Cardinality(wanted)
             limit == call[r].limit
             offset == call[r].offset
  <2>2. /\ n \in Nat /\ listing \in [1 .. n -> wanted]
        /\ limit \in Nat \ {0} /\ offset \in Nat
    BY <1>7, <2>1
  <2> HIDE DEF n, limit, offset
  <2>3. PageOf(listing, limit, offset) \in Seq(wanted)
    BY <2>2, PageType
  <2>4. offset = 0 /\ n <= limit => PageOf(listing, limit, offset) = listing
    BY <2>2, PageType
  <2>5. QED
    BY <2>3, <2>4 DEF page, n, limit, offset
<1>12. PageSet(r)' \subseteq wanted
  BY <1>6, <1>11 DEF PageSet
<1>13. Whole(r)' => wanted \subseteq PageSet(r)'
  <2> SUFFICES ASSUME Whole(r)', NEW b \in wanted PROVE b \in PageSet(r)'
    OBVIOUS
  <2>1. call[r].offset = 0 /\ Cardinality(wanted) <= call[r].limit
    BY <1>1, <1>8 DEF Whole
  <2>2. page = listing
    BY <1>11, <2>1
  <2>3. PICK i \in 1 .. Cardinality(wanted) : listing[i] = b
    BY <1>5, <1>7, ListingIsOnto
  <2>4. QED
    BY <1>6, <1>7, <2>2, <2>3 DEF PageSet
<1>14. CourseOK(r)'
  BY <1>1, <1>2, <1>3, <1>4 DEF CourseOK, NoAnswer
<1>15. ScopeOK(r)'
  <2>1. AllStudents(r)' => \A b \in PageSet(r)' : Targeted(b, scope[r])'
    <3> SUFFICES ASSUME AllStudents(r), NEW b \in PageSet(r)' PROVE Targeted(b, scope[r])
      BY <1>1 DEF AllStudents, Targeted
    <3>1. \E a \in ever[r] : scope[r] = a.group
      BY <1>2, <1>4 DEF FeedOK, RequestOK, ScopeOK, Step
    <3>2. scope[r] # NoGroup
      BY <3>1, FeedAssumption DEF TypeOK, AccountState
    <3>3. QED
      BY <1>9, <1>12, <3>2
  <2>2. AllStudents(r)' => \E a \in ever'[r] : scope'[r] = a.group
    BY <1>1, <1>2, <1>4 DEF FeedOK, RequestOK, ScopeOK, Step, AllStudents
  <2>3. /\ \E a \in ever'[r] : copy'[r].type = a.type /\ copy'[r].group = a.group
        /\ Unmoved(r)' /\ met'[r] <= 1 => copy'[r] \in ever'[r]
        /\ accounts'[call'[r].account] \in ever'[r]
    BY <1>1, <1>2 DEF FeedOK, RequestOK, ScopeOK, Step, Unmoved
  <2>4. QED
    BY <1>3, <2>1, <2>2, <2>3 DEF ScopeOK
<1>16. ShownOK(r)'
  BY <1>3 DEF ShownOK
<1>17. ListOK(r)'
  <2>1. seen'[r].there <= Len(broadcasts')
    BY <1>1, <1>8 DEF TypeOK, TablesTypeOK
  <2>2. week'[r].page # NoWeek => \A b \in PageSet(r)' : InPage(r, b)'
    BY <1>9, <1>12
  <2>3. Whole(r)' => \A b \in DOMAIN broadcasts' :
           Targeted(b, scope[r])' /\ InPage(r, b)' => b \in PageSet(r)'
    BY <1>1, <1>10, <1>13 DEF Targeted
  <2>4. QED
    BY <1>2, <2>1, <2>2, <2>3 DEF ListOK
<1>18. BadgeOK(r)'
  BY <1>2, <1>3 DEF BadgeOK, Fed, Answered, NoAnswer
<1>19. \A p \in Request : AfterOK(p, r)'
  BY <1>2, <1>3, AfterMoves DEF Serve
<1>20. QED
  BY <1>14, <1>15, <1>16, <1>17, <1>18, <1>19 DEF RequestOK

LEMMA ReadAccountOK ==
    ASSUME TypeOK, TypeOK', FeedOK, NEW r \in Request, ReadAccount(r)
    PROVE  RequestOK(r)' /\ \A p \in Request : AfterOK(p, r)'
<1>1. UNCHANGED <<broadcasts, confirmations, replies, accounts, now, call, scope, ids, read,
                  items, ever, met, seen, week, before>>
  BY DEF ReadAccount, NoWrite, tables, history
<1>2. pc[r] = "account" /\ answer'[r] = answer[r] /\ pc'[r] = "mask"
  BY GoMoves DEF ReadAccount
<1>3. /\ items[r] = <<>> /\ answer[r] = NoAnswer
      /\ ItemsOf(r)' = {} /\ Shown(r)' = {} /\ Given(r)' = {}
  BY <1>1, <1>2, NothingGiven, EmptyGiven DEF FeedOK, RequestOK, NoAnswer
<1>4. copy'[r] = accounts[call[r].account] /\ accounts[call[r].account] \in ever[r]
  BY <1>2 DEF ReadAccount, TypeOK, FeedOK, RequestOK, ScopeOK, Step
<1>5. PageSet(r)' = PageSet(r)
  BY <1>1 DEF PageSet
<1>6. CourseOK(r)'
  BY <1>1, <1>2, <1>3 DEF CourseOK, NoAnswer, FeedOK, RequestOK, Step
<1>7. ScopeOK(r)'
  <2>1. ScopeOK(r) /\ pc[r] \in Step
    BY <1>2 DEF FeedOK, RequestOK, Step
  <2>2. call[r].op = "feed" /\ AllStudents(r)' =>
           /\ \E a \in ever'[r] : scope'[r] = a.group
           /\ \A b \in PageSet(r)' : Targeted(b, scope[r])'
    BY <1>1, <1>5, <2>1 DEF ScopeOK, AllStudents, Targeted
  <2>3. QED
    BY <1>1, <1>3, <1>4, <2>2 DEF ScopeOK
<1>8. ShownOK(r)'
  BY <1>3 DEF ShownOK
<1>9. ListOK(r)'
  <2>1. ListOK(r) /\ ScopeOK(r) /\ pc[r] \in Step
    BY <1>2 DEF FeedOK, RequestOK, Step
  <2>2. seen'[r].there <= Len(broadcasts')
    BY <1>1, <2>1 DEF ListOK
  <2>3. \A b : InPage(r, b)' = InPage(r, b)
    BY <1>1 DEF InPage
  <2>4. Whole(r)' = Whole(r) /\ Unmoved(r)' = Unmoved(r) /\ AllStudents(r)' = AllStudents(r)
    BY <1>1 DEF Whole, Unmoved, AllStudents
  <2>5. \A b, g : Targeted(b, g)' = Targeted(b, g)
    BY <1>1 DEF Targeted
  <2>6. QED
    BY <1>1, <1>2, <1>5, <2>1, <2>2, <2>3, <2>4, <2>5 DEF ListOK
<1>10. BadgeOK(r)'
  BY <1>2, <1>3 DEF BadgeOK, Fed, Answered, NoAnswer
<1>11. \A p \in Request : AfterOK(p, r)'
  BY <1>2, <1>3, AfterMoves DEF Serve
<1>12. QED
  BY <1>6, <1>7, <1>8, <1>9, <1>10, <1>11 DEF RequestOK

LEMMA ReadMaskOK ==
    ASSUME TypeOK, TypeOK', FeedOK, NEW r \in Request, ReadMask(r)
    PROVE  RequestOK(r)' /\ \A p \in Request : AfterOK(p, r)'
<1>1. UNCHANGED <<broadcasts, confirmations, replies, accounts, now, call, scope, ids, read,
                  items, ever, met, seen, week, before>>
  BY DEF ReadMask, NoWrite, tables, history
<1>2. /\ pc[r] = "mask"
      /\ \/ /\ answer'[r] = answer[r]
            /\ pc'[r] = (IF ids[r] = <<>> THEN "count" ELSE "records")
         \/ pc'[r] = "done" /\ answer'[r].items = <<>> /\ answer'[r].status = "torn"
  BY MaskIsPut, GoMoves, FinishMoves DEF ReadMask
<1>3. /\ items[r] = <<>> /\ answer[r] = NoAnswer
      /\ ItemsOf(r)' = {} /\ Shown(r)' = {} /\ Given(r)' = {}
  BY <1>1, <1>2, NothingGiven, EmptyGiven DEF FeedOK, RequestOK, NoAnswer
<1>4. pc'[r] # "done" =>
        /\ \E a \in ever'[r] : copy'[r].type = a.type /\ copy'[r].group = a.group
        /\ Unmoved(r)' /\ met'[r] <= 1 => copy'[r] \in ever'[r]
        /\ accounts'[call'[r].account] \in ever'[r]
  <2> SUFFICES ASSUME pc'[r] # "done"
               PROVE  /\ \E a \in ever[r] : copy'[r].type = a.type /\ copy'[r].group = a.group
                      /\ Unmoved(r) /\ met[r] <= 1 => copy'[r] \in ever[r]
                      /\ accounts[call[r].account] \in ever[r]
    BY <1>1 DEF Unmoved
  <2>1. /\ \E a \in ever[r] : copy[r].type = a.type /\ copy[r].group = a.group
        /\ Unmoved(r) /\ met[r] <= 1 => copy[r] \in ever[r]
        /\ accounts[call[r].account] \in ever[r]
    BY <1>2 DEF FeedOK, RequestOK, ScopeOK, Step
  <2>2. PICK m \in Masks(r) :
          /\ copy'[r] = [copy[r] EXCEPT !.may = m]
          /\ copy'[r].type = copy[r].type /\ copy'[r].group = copy[r].group
    BY MaskIsPut, FinishMoves
  <2>3. ASSUME Unmoved(r), met[r] <= 1
        PROVE  copy'[r] \in ever[r]
    <3>1. copy[r] \in ever[r] /\ copy[r] = accounts[call[r].account]
      BY <2>1, <2>3 DEF Unmoved
    <3>2. m = copy[r].may
      BY <2>2, <2>3, <3>1 DEF Masks
    <3>3. copy[r] \in AccountState
      BY <1>2 DEF TypeOK, Step
    <3>4. copy'[r] = copy[r]
      BY <2>2, <3>2, <3>3 DEF AccountState
    <3>5. QED
      BY <3>1, <3>4
  <2>4. QED
    BY <2>1, <2>2, <2>3
<1>5. PageSet(r)' = PageSet(r)
  BY <1>1 DEF PageSet
<1>6. CourseOK(r)'
  BY <1>1, <1>2, <1>3 DEF CourseOK, NoAnswer, FeedOK, RequestOK, Step
<1>7. ScopeOK(r)'
  <2>1. ScopeOK(r) /\ pc[r] \in Step
    BY <1>2 DEF FeedOK, RequestOK, Step
  <2>2. call[r].op = "feed" /\ AllStudents(r)' =>
           /\ \E a \in ever'[r] : scope'[r] = a.group
           /\ \A b \in PageSet(r)' : Targeted(b, scope[r])'
    BY <1>1, <1>5, <2>1 DEF ScopeOK, AllStudents, Targeted
  <2>3. QED
    BY <1>1, <1>2, <1>3, <1>4, <2>2 DEF ScopeOK, Step
<1>8. ShownOK(r)'
  BY <1>3 DEF ShownOK
<1>9. ListOK(r)'
  <2>1. ListOK(r) /\ ScopeOK(r) /\ pc[r] \in Step
    BY <1>2 DEF FeedOK, RequestOK, Step
  <2>2. seen'[r].there <= Len(broadcasts')
    BY <1>1, <2>1 DEF ListOK
  <2>3. \A b : InPage(r, b)' = InPage(r, b)
    BY <1>1 DEF InPage
  <2>4. Whole(r)' = Whole(r) /\ Unmoved(r)' = Unmoved(r) /\ AllStudents(r)' = AllStudents(r)
    BY <1>1 DEF Whole, Unmoved, AllStudents
  <2>5. \A b, g : Targeted(b, g)' = Targeted(b, g)
    BY <1>1 DEF Targeted
  <2>6. ASSUME call[r].op = "feed"
        PROVE  /\ week[r].page # NoWeek => \A b \in PageSet(r) : InPage(r, b)
               /\ Whole(r) =>
                    \A b \in DOMAIN broadcasts :
                      b <= seen[r].there /\ Targeted(b, scope[r]) /\ InPage(r, b)
                         => b \in PageSet(r)
    BY <1>2, <2>1, <2>6 DEF ListOK
  <2>7. CASE pc'[r] = "records"
    <3>1. pc'[r] = "records"
      BY <2>7
    <3>2. \A b : Targeted(b, scope[r])' = Targeted(b, scope[r])
      BY <1>1 DEF Targeted
    <3>3. QED
      BY <1>1, <1>5, <2>2, <2>3, <2>4, <2>6, <3>1, <3>2 DEF ListOK
  <2>8. CASE pc'[r] = "count"
    <3>1. pc'[r] = "count" /\ PageSet(r) = {}
      BY <1>2, <2>8 DEF PageSet
    <3>2. ASSUME call[r].op = "feed", Whole(r), Unmoved(r), AllStudents(r), NEW a \in ever[r],
                 NEW b \in DOMAIN broadcasts, b <= seen[r].there, Targeted(b, a.group),
                 InPage(r, b)
          PROVE  FALSE
      <4>1. scope[r] = a.group
        BY <2>1, <3>2 DEF ScopeOK, Unmoved
      <4>2. QED
        BY <2>6, <3>1, <3>2, <4>1
    <3>3. QED
      BY <1>1, <1>3, <2>2, <2>3, <2>4, <2>5, <3>1, <3>2 DEF ListOK
  <2>9. CASE pc'[r] = "done"
    BY <2>2, <2>9 DEF ListOK
  <2>10. QED
    BY <1>2, <2>7, <2>8, <2>9
<1>10. BadgeOK(r)'
  BY <1>2, <1>3 DEF BadgeOK, Fed, Answered, NoAnswer
<1>11. \A p \in Request : AfterOK(p, r)'
  BY <1>2, <1>3, AfterMoves DEF Serve
<1>12. QED
  BY <1>6, <1>7, <1>8, <1>9, <1>10, <1>11 DEF RequestOK

\* Whoever comes after p reads every confirmation p has shown.
LEMMA ReadRecordsOK ==
    ASSUME TypeOK, TypeOK', FeedOK, NEW r \in Request, ReadRecords(r)
    PROVE  RequestOK(r)' /\ \A p \in Request : AfterOK(p, r)'
<1>1. UNCHANGED <<broadcasts, confirmations, replies, accounts, now, call, copy, scope, ids,
                  items, ever, met, seen, week, before>>
  BY DEF ReadRecords, NoWrite, tables, history
<1>2. pc[r] = "records" /\ answer'[r] = answer[r] /\ pc'[r] = "replies"
  BY GoMoves DEF ReadRecords
<1>3. /\ items[r] = <<>> /\ answer[r] = NoAnswer
      /\ ItemsOf(r)' = {} /\ Shown(r)' = {} /\ Given(r)' = {}
  BY <1>1, <1>2, NothingGiven, EmptyGiven DEF FeedOK, RequestOK, NoAnswer
<1>4. PageSet(r)' = PageSet(r)
  BY <1>1 DEF PageSet
<1>5. read'[r] = {c \in confirmations : c.broadcast \in PageSet(r)}
  BY DEF ReadRecords, TypeOK
<1>6. CourseOK(r)'
  BY <1>1, <1>2, <1>3 DEF CourseOK, NoAnswer, FeedOK, RequestOK, Step
<1>7. ScopeOK(r)'
  <2>1. ScopeOK(r) /\ pc[r] \in Step
    BY <1>2 DEF FeedOK, RequestOK, Step
  <2>2. call[r].op = "feed" /\ AllStudents(r)' =>
           /\ \E a \in ever'[r] : scope'[r] = a.group
           /\ \A b \in PageSet(r)' : Targeted(b, scope[r])'
    BY <1>1, <1>4, <2>1 DEF ScopeOK, AllStudents, Targeted
  <2>3. QED
    BY <1>1, <1>2, <1>3, <2>1, <2>2 DEF ScopeOK, Unmoved
<1>8. ShownOK(r)'
  BY <1>3 DEF ShownOK
<1>9. ListOK(r)'
  <2>1. ListOK(r)
    BY DEF FeedOK, RequestOK
  <2>2. \A b : InPage(r, b)' = InPage(r, b) /\ Targeted(b, scope[r])' = Targeted(b, scope[r])
    BY <1>1 DEF InPage, Targeted
  <2>3. Whole(r)' = Whole(r)
    BY <1>1 DEF Whole
  <2>4. QED
    BY <1>1, <1>2, <1>4, <2>1, <2>2, <2>3 DEF ListOK
<1>10. BadgeOK(r)'
  BY <1>2, <1>3 DEF BadgeOK, Fed, Answered, NoAnswer
<1>11. ASSUME NEW p \in Request
       PROVE  AfterOK(p, r)'
  <2> SUFFICES ASSUME p \in before[r] PROVE AfterOK(p, r)'
    BY <1>1 DEF AfterOK
  <2>1. pc[p] = "done" /\ p # r
    BY <1>2 DEF FeedOK, AfterOK
  <2>2. Same(p)
    BY <2>1, OthersStay DEF Moves, Serve
  <2>3. pc'[p] = "done" /\ Shown(p)' = Shown(p)
    BY <2>1, <2>2, GivenStays DEF Same
  <2>4. ASSUME NEW x \in Shown(p), x.broadcast \in PageSet(r), NEW t \in x.targets,
               t.state \in Confirmations
        PROVE  Behind(read[r], x.broadcast, t)' # {}
    <3>1. StillTrue(x.broadcast, t)
      BY <2>4 DEF FeedOK, RequestOK, ShownOK, Given
    <3>2. PICK c \in Behind(confirmations, x.broadcast, t) : TRUE
      BY <2>4, <3>1 DEF StillTrue
    <3>3. c \in read'[r] /\ c.broadcast = x.broadcast /\ c.group = t.group /\ Verdict(c) = t.state
      BY <1>5, <2>4, <3>2 DEF Behind
    <3>4. Verdict(c)' = Verdict(c)
      BY <1>1 DEF Verdict
    <3>5. c \in Behind(read[r], x.broadcast, t)'
      BY <3>3, <3>4 DEF Behind
    <3>6. QED
      BY <3>5
  <2>5. QED
    BY <1>2, <1>3, <1>4, <2>3, <2>4 DEF AfterOK
<1>12. QED
  BY <1>6, <1>7, <1>8, <1>9, <1>10, <1>11 DEF RequestOK

-----------------------------------------------------------------------------
(* What an item says is true when it is made up. *)

LEMMA StateOfConfirmed ==
    ASSUME TypeOK, BoardOK, NEW r \in Request, NEW c \in read[r]
    PROVE  ShownState(r, c.broadcast, c.group) = Verdict(c)
<1> DEFINE own == {d \in read[r] : d.broadcast = c.broadcast /\ d.group = c.group}
           stamps == {d.at : d \in own}
<1>1. read[r] \subseteq confirmations
  BY DEF TypeOK
<1>2. own = {c}
  BY <1>1 DEF BoardOK
<1>3. stamps = {c.at}
  BY <1>2
<1> HIDE DEF own
<1>4. ShownState(r, c.broadcast, c.group)
        = ConfirmationState(broadcasts[c.broadcast].deadline, {c.at}, now)
  BY <1>3 DEF ShownState, own
<1>5. QED
  BY <1>4 DEF ConfirmationState, Verdict

LEMMA StateOfOpen ==
    ASSUME NEW r, NEW b, NEW g, \A c \in read[r] : ~(c.broadcast = b /\ c.group = g)
    PROVE  ShownState(r, b, g)
              = IF now <= broadcasts[b].deadline THEN "pending" ELSE "overdue"
<1>1. {c.at : c \in {d \in read[r] : d.broadcast = b /\ d.group = g}} = {}
  OBVIOUS
<1>2. QED
  BY <1>1 DEF ShownState, ConfirmationState

LEMMA ItemIsTrue ==
    ASSUME TypeOK, BoardOK, NEW r \in Request, NEW b \in DOMAIN broadcasts,
           NEW t \in ItemOf(r, b).targets
    PROVE  StillTrue(b, t)
<1>1. PICK g \in broadcasts[b].targets :
        /\ InScope(r, g)
        /\ t = [group |-> g, state |-> ShownState(r, b, g), thread |-> ThreadOf(b, g)]
  BY DEF ItemOf
<1>2. t.group = g /\ t.state = ShownState(r, b, g) /\ t.thread = ThreadOf(b, g)
  BY <1>1
<1>3. broadcasts[b].deadline \in Int /\ now \in Int
  <2>1. broadcasts[b] \in BroadcastRow
    BY DEF TypeOK, TablesTypeOK
  <2>2. QED
    BY <2>1, FeedAssumption DEF BroadcastRow, TypeOK
<1>4. CASE \E c \in read[r] : c.broadcast = b /\ c.group = g
  <2>1. PICK c \in read[r] : c.broadcast = b /\ c.group = g
    BY <1>4
  <2>2. t.state = Verdict(c)
    BY <1>2, <2>1, StateOfConfirmed
  <2>3. c \in Behind(confirmations, b, t)
    BY <1>2, <2>1, <2>2 DEF Behind, TypeOK
  <2>4. t.state # "overdue"
    BY <2>2 DEF Verdict
  <2>5. QED
    BY <1>2, <2>3, <2>4 DEF StillTrue
<1>5. CASE ~\E c \in read[r] : c.broadcast = b /\ c.group = g
  <2>1. t.state = IF now <= broadcasts[b].deadline THEN "pending" ELSE "overdue"
    BY <1>2, <1>5, StateOfOpen
  <2>2. t.state \notin Confirmations
    BY <2>1 DEF Confirmations
  <2>3. QED
    BY <1>2, <1>3, <2>1, <2>2 DEF StillTrue
<1>6. QED
  BY <1>4, <1>5

\* After a reader who was shown x, an item of the same broadcast stands by it.
LEMMA ItemStandsBy ==
    ASSUME TypeOK, FeedOK, NEW p \in Request, NEW r \in Request, p \in before[r],
           pc[r] = "replies", NEW x \in Shown(p), x.broadcast \in PageSet(r)
    PROVE  StandsBy(x, ItemOf(r, x.broadcast))
<1> DEFINE b == x.broadcast
<1>1. SUFFICES ASSUME NEW t \in x.targets, NEW u \in ItemOf(r, b).targets, t.group = u.group
               PROVE  /\ t.state \in Confirmations => u.state = t.state
                      /\ t.state = "overdue" => u.state # "pending"
                      /\ t.thread \subseteq u.thread
  BY DEF StandsBy
<1>2. PICK g \in broadcasts[b].targets :
        u = [group |-> g, state |-> ShownState(r, b, g), thread |-> ThreadOf(b, g)]
  BY DEF ItemOf
<1>3. u.group = g /\ t.group = g /\ u.state = ShownState(r, b, g) /\ u.thread = ThreadOf(b, g)
  BY <1>1, <1>2
<1>4. StillTrue(b, t)
  BY DEF FeedOK, RequestOK, ShownOK, Given
<1>5. ASSUME t.state \in Confirmations
      PROVE  u.state = t.state
  <2>1. PICK c \in Behind(read[r], b, t) : TRUE
    BY <1>5 DEF FeedOK, AfterOK
  <2>2. c \in read[r] /\ c.broadcast = b /\ c.group = g /\ Verdict(c) = t.state
    BY <1>3, <2>1 DEF Behind
  <2>3. QED
    BY <1>3, <2>2, StateOfConfirmed DEF FeedOK
<1>6. ASSUME t.state = "overdue"
      PROVE  u.state # "pending"
  <2>1. now > broadcasts[b].deadline /\ b \in DOMAIN broadcasts
    BY <1>4, <1>6 DEF StillTrue
  <2>2. broadcasts[b].deadline \in Int /\ now \in Int
    <3>1. broadcasts[b] \in BroadcastRow
      BY <2>1 DEF TypeOK, TablesTypeOK
    <3>2. QED
      BY <3>1, FeedAssumption DEF BroadcastRow, TypeOK
  <2>3. QED
    BY <1>3, <2>1, <2>2 DEF ShownState, ConfirmationState
<1>7. t.thread \subseteq u.thread
  BY <1>3, <1>4 DEF StillTrue
<1>8. QED
  BY <1>5, <1>6, <1>7

\* A student's item holds the thread of the group he has by then, and no other.
LEMMA ItemIsScoped ==
    ASSUME TypeOK, NEW r \in Request, pc[r] \in Step, copy[r].type = "student",
           NEW b \in DOMAIN broadcasts
    PROVE  /\ \A t \in ItemOf(r, b).targets : t.group = copy[r].group
           /\ copy[r].group \in broadcasts[b].targets =>
                 \E t \in ItemOf(r, b).targets : t.group = copy[r].group
<1> DEFINE target(g) == [group |-> g, state |-> ShownState(r, b, g), thread |-> ThreadOf(b, g)]
<1>1. ScopeOf(r) = copy[r].group /\ copy[r].group # NoGroup
  BY FeedAssumption DEF ScopeOf, TypeOK, AccountState
<1>2. \A g : InScope(r, g) <=> g = copy[r].group
  BY <1>1 DEF InScope
<1>3. ItemOf(r, b).targets = {target(g) : g \in {h \in broadcasts[b].targets : InScope(r, h)}}
  BY DEF ItemOf
<1>4. \A g : target(g).group = g
  OBVIOUS
<1> HIDE DEF target
<1>5. QED
  BY <1>2, <1>3, <1>4

LEMMA ReadRepliesOK ==
    ASSUME TypeOK, TypeOK', FeedOK, NEW r \in Request, ReadReplies(r)
    PROVE  RequestOK(r)' /\ \A p \in Request : AfterOK(p, r)'
<1>1. UNCHANGED <<broadcasts, confirmations, replies, accounts, now, call, copy, scope, ids,
                  read, ever, met, seen, week, before>>
  BY DEF ReadReplies, NoWrite, tables, history
<1>2. /\ items' = [items EXCEPT ![r] = [i \in DOMAIN ids[r] |-> ItemOf(r, ids[r][i])]]
      /\ Go(r, "count")
  BY ThreadsAreNested DEF ReadReplies, FeedOK
<1>3. pc[r] = "replies" /\ pc[r] \in Step /\ answer'[r] = answer[r] /\ pc'[r] = "count"
  BY <1>2, GoMoves DEF ReadReplies, Step
<1>4. answer[r] = NoAnswer
  BY <1>3, NothingGiven DEF FeedOK, RequestOK
<1>5. ItemsOf(r)' = {ItemOf(r, b) : b \in PageSet(r)}
  <2>1. items'[r] = [i \in DOMAIN ids[r] |-> ItemOf(r, ids[r][i])]
    BY <1>2 DEF TypeOK
  <2>2. QED
    BY <2>1 DEF ItemsOf, PageSet
<1>6. Shown(r)' = {} /\ Given(r)' = ItemsOf(r)'
  BY <1>3, <1>4 DEF Shown, Given, NoAnswer
<1>7. call[r].op = "feed" /\ PageSet(r) \subseteq DOMAIN broadcasts
  <2>1. call[r].op \in {"feed", "count"}
    BY <1>3, FeedAssumption DEF TypeOK, Offer
  <2>2. call[r].op # "count"
    BY <1>3 DEF FeedOK, RequestOK, CourseOK
  <2>3. PageSet(r) \subseteq DOMAIN broadcasts
    BY DEF TypeOK, PageSet
  <2>4. QED
    BY <2>1, <2>2, <2>3
<1>8. \A b : ItemOf(r, b).broadcast = b
  BY DEF ItemOf
<1>9. CourseOK(r)'
  BY <1>1, <1>3, <1>4, <1>7 DEF CourseOK, NoAnswer
<1>10. /\ \E a \in ever[r] : copy[r].type = a.type /\ copy[r].group = a.group
       /\ Unmoved(r) /\ met[r] <= 1 => copy[r] \in ever[r]
       /\ accounts[call[r].account] \in ever[r]
  BY <1>3 DEF FeedOK, RequestOK, ScopeOK
<1>11. ASSUME AllStudents(r)
       PROVE  /\ \E a \in ever[r] : scope[r] = a.group
              /\ \A b \in PageSet(r) : Targeted(b, scope[r])
  BY <1>3, <1>7, <1>11 DEF FeedOK, RequestOK, ScopeOK
<1>12. ScopeOK(r)'
  <2>1. ASSUME AllStudents(r), NEW b \in PageSet(r)
        PROVE  ScopedItem(r, ItemOf(r, b))
    <3>1. \E a \in ever[r] : Targeted(b, a.group)
      BY <1>11, <2>1
    <3>2. copy[r].type = "student"
      BY <1>10, <2>1 DEF AllStudents
    <3>3. \A t \in ItemOf(r, b).targets : \E a \in ever[r] : t.group = a.group
      BY <1>3, <1>7, <1>10, <2>1, <3>2, ItemIsScoped
    <3>4. ASSUME Unmoved(r)
          PROVE  ItemOf(r, b).targets # {}
      <4>1. Targeted(b, copy[r].group)
        BY <1>10, <3>1, <3>4 DEF Unmoved
      <4>2. \E t \in ItemOf(r, b).targets : t.group = copy[r].group
        BY <1>3, <1>7, <2>1, <3>2, <4>1, ItemIsScoped DEF Targeted
      <4>3. QED
        BY <4>2
    <3>5. QED
      BY <1>8, <3>1, <3>3, <3>4 DEF ScopedItem
  <2>2. AllStudents(r)' => \A x \in Given(r)' : ScopedItem(r, x)'
    BY <1>1, <1>5, <1>6, <2>1 DEF AllStudents, ScopedItem, Unmoved, Targeted
  <2>3. AllStudents(r)' =>
           /\ \E a \in ever'[r] : scope'[r] = a.group
           /\ \A b \in PageSet(r)' : Targeted(b, scope[r])'
    BY <1>1, <1>11 DEF AllStudents, PageSet, Targeted
  <2>4. QED
    BY <1>1, <1>10, <2>2, <2>3 DEF ScopeOK, Unmoved
<1>13. ShownOK(r)'
  <2>1. \A b \in PageSet(r) : \A t \in ItemOf(r, b).targets : StillTrue(b, t)
    BY <1>7, ItemIsTrue DEF FeedOK
  <2>2. \A b, t : StillTrue(b, t)' = StillTrue(b, t)
    BY <1>1 DEF StillTrue, Behind, Verdict, ThreadOf
  <2>3. QED
    BY <1>1, <1>5, <1>6, <1>7, <1>8, <2>1, <2>2 DEF ShownOK
<1>14. ListOK(r)'
  <2>1. /\ seen[r].there <= Len(broadcasts)
        /\ week[r].page # NoWeek => \A b \in PageSet(r) : InPage(r, b)
        /\ Whole(r) =>
             \A b \in DOMAIN broadcasts :
               b <= seen[r].there /\ Targeted(b, scope[r]) /\ InPage(r, b) => b \in PageSet(r)
    BY <1>3, <1>7 DEF FeedOK, RequestOK, ListOK
  <2>2. \A b : InPage(r, b)' = InPage(r, b)
    BY <1>1 DEF InPage
  <2>3. Whole(r)' = Whole(r) /\ Unmoved(r)' = Unmoved(r) /\ AllStudents(r)' = AllStudents(r)
    BY <1>1 DEF Whole, Unmoved, AllStudents
  <2>4. \A b, g : Targeted(b, g)' = Targeted(b, g)
    BY <1>1 DEF Targeted
  <2>5. ASSUME Whole(r), Unmoved(r), AllStudents(r), NEW a \in ever[r],
               NEW b \in DOMAIN broadcasts, b <= seen[r].there, Targeted(b, a.group), InPage(r, b)
        PROVE  \E x \in ItemsOf(r)' :
                  x.broadcast = b /\ \E t \in x.targets : t.group = a.group
    <3>1. scope[r] = a.group /\ copy[r].type = "student" /\ copy[r].group = a.group
      BY <1>10, <1>11, <2>5 DEF Unmoved, AllStudents
    <3>2. b \in PageSet(r)
      BY <2>1, <2>5, <3>1
    <3>3. \E t \in ItemOf(r, b).targets : t.group = a.group
      BY <1>3, <2>5, <3>1, ItemIsScoped DEF Targeted
    <3>4. QED
      BY <1>5, <1>8, <3>2, <3>3
  <2>6. \A x \in ItemsOf(r)' : week[r].page # NoWeek => InPage(r, x.broadcast)
    BY <1>5, <1>8, <2>1
  <2>7. QED
    BY <1>1, <1>3, <2>1, <2>2, <2>3, <2>4, <2>5, <2>6 DEF ListOK
<1>15. BadgeOK(r)'
  BY <1>3, <1>4 DEF BadgeOK, Fed, Answered, NoAnswer
<1>16. ASSUME NEW p \in Request
       PROVE  AfterOK(p, r)'
  <2>1. ASSUME NEW x \in Shown(p), NEW y \in Given(r)', p \in before[r],
               x.broadcast = y.broadcast
        PROVE  StandsBy(x, y)
    <3>1. PICK b \in PageSet(r) : y = ItemOf(r, b)
      BY <1>5, <1>6
    <3>2. x.broadcast = b
      BY <1>8, <2>1, <3>1
    <3>3. QED
      BY <1>3, <2>1, <3>1, <3>2, ItemStandsBy
  <2>2. pc'[r] # "replies" /\ Serve(r)
    BY <1>3 DEF Serve
  <2>3. QED
    BY <2>1, <2>2, AfterMoves
<1>17. QED
  BY <1>9, <1>12, <1>13, <1>14, <1>15, <1>16 DEF RequestOK

LEMMA CountPendingOK ==
    ASSUME TypeOK, TypeOK', FeedOK, NEW r \in Request, CountPending(r)
    PROVE  RequestOK(r)' /\ \A p \in Request : AfterOK(p, r)'
<1> DEFINE counted == IF MayConfirm(copy[r]) THEN PendingOf(copy[r].group) ELSE {}
<1>1. UNCHANGED <<broadcasts, confirmations, replies, accounts, now, call, scope, seen, ever,
                  met, before>>
  BY DEF CountPending, NoWrite, tables
<1>2. Finish(r, "ok", counted) /\ pc[r] = "count" /\ pc[r] \in Step
  BY DEF CountPending, Step
<1>3. /\ pc'[r] = "done" /\ answer'[r].status = "ok" /\ answer'[r].counted = counted
      /\ answer'[r].items = items[r]
  BY <1>2, FinishMoves
<1> HIDE DEF counted
<1>4. /\ items'[r] = <<>> /\ week'[r].page = week[r].page /\ week'[r].badge = WeekStart(now)
  BY DEF CountPending, TypeOK
<1>5. Shown(r)' = ItemsOf(r) /\ Given(r)' = ItemsOf(r) /\ ItemsOf(r) \subseteq Given(r)
  BY <1>3, <1>4 DEF Shown, ItemsOf, Given
<1>6. CourseOK(r) /\ ScopeOK(r) /\ ShownOK(r) /\ ListOK(r)
  BY DEF FeedOK, RequestOK
<1>7. CourseOK(r)'
  BY <1>3, <1>4 DEF CourseOK, Step
<1>8. ScopeOK(r)'
  <2>1. AllStudents(r)' => \A x \in Given(r)' : ScopedItem(r, x)'
    BY <1>1, <1>5, <1>6 DEF ScopeOK, AllStudents, ScopedItem, Unmoved, Targeted
  <2>2. QED
    BY <1>3, <2>1 DEF ScopeOK, Step
<1>9. ShownOK(r)'
  BY <1>1, <1>5, <1>6 DEF ShownOK, StillTrue, Behind, Verdict, ThreadOf
<1>10. ListOK(r)'
  BY <1>1, <1>3, <1>6 DEF ListOK
<1>11. BadgeOK(r)'
  <2> SUFFICES ASSUME Fed(r)', Unmoved(r)', met'[r] <= 1, week'[r].page = week'[r].badge,
                      NEW a \in ever'[r], MayConfirm(a)
               PROVE  BadgeFits(r, a.group)'
    BY DEF BadgeOK
  <2> DEFINE g == a.group
  <2>1. Unmoved(r) /\ ever[r] = {a} /\ copy[r] = a /\ call[r].op = "feed" /\ AllStudents(r)
    BY <1>1, <1>2, <1>6 DEF Unmoved, ScopeOK, Fed, AllStudents, MayConfirm
  <2>2. counted = PendingOf(g)
    BY <2>1 DEF counted
  <2>3. week[r].page = WeekStart(now) /\ week[r].page # NoWeek
    <3>1. WeekStart(now) \in Int
      BY CalendarAssumption, FeedAssumption DEF TypeOK, WeekStart, Week, Local
    <3>2. QED
      BY <1>4, <3>1, FeedAssumption
  <2>4. \A b : InPage(r, b) <=> InWeekOf(broadcasts[b].createdAt, now)
    BY <2>3 DEF InPage, InWeekOf, WeekEnd
  <2>5. ASSUME NEW x \in ItemsOf(r), NEW t \in x.targets, t.group = g
        PROVE  /\ x.broadcast \in DOMAIN broadcasts /\ Targeted(x.broadcast, g)
               /\ InWeekOf(broadcasts[x.broadcast].createdAt, now)
               /\ t.state \in Confirmations => Confirmed(x.broadcast, g)
               /\ t.state \in Confirmations \union {"pending", "overdue"}
    <3>1. StillTrue(x.broadcast, t)
      BY <1>5, <1>6, <2>5 DEF ShownOK
    <3>2. InPage(r, x.broadcast)
      BY <1>2, <1>6, <2>1, <2>3, <2>5 DEF ListOK
    <3>3. t.state \in Confirmations => Confirmed(x.broadcast, g)
      BY <2>5, <3>1 DEF StillTrue, Behind, Confirmed
    <3>4. t.state \in ConfirmationStates
      <4>1. items[r] \in Seq(Item)
        BY DEF TypeOK
      <4>2. x \in Item
        BY <2>5, <4>1 DEF ItemsOf
      <4>3. t \in Target
        BY <2>5, <4>2 DEF Item
      <4>4. QED
        BY <4>3 DEF Target
    <3>5. QED
      BY <2>4, <2>5, <3>1, <3>2, <3>3, <3>4
      DEF StillTrue, Targeted, Confirmations, ConfirmationStates
  <2> DEFINE open == {x.broadcast : x \in {y \in ItemsOf(r) :
                        \E t \in y.targets : t.group = g /\ t.state \in {"pending", "overdue"}}}
             closed == {x.broadcast : x \in {y \in ItemsOf(r) :
                          \E t \in y.targets : t.group = g /\ t.state \in Confirmations}}
  <2>6. ShownIn(r, g, {"pending", "overdue"})' = open /\ ShownIn(r, g, Confirmations)' = closed
    BY <1>5 DEF ShownIn
  <2> HIDE DEF open, closed
  <2>7. counted \intersect closed = {}
    BY <2>2, <2>5 DEF closed, PendingOf
  <2>8. ASSUME Whole(r), NEW b \in counted \ open
        PROVE  b > seen[r].there
    <3>1. b \in DOMAIN broadcasts /\ Targeted(b, g) /\ InPage(r, b) /\ ~Confirmed(b, g)
      BY <2>2, <2>4, <2>8 DEF PendingOf
    <3>2. b \in Nat /\ seen[r].there \in Nat
      <4>1. seen[r].there \in 0 .. MaxBroadcasts /\ MaxBroadcasts \in Nat
        BY FeedAssumption DEF TypeOK, MaxBroadcasts
      <4>2. b \in Nat
        BY <3>1 DEF TypeOK, TablesTypeOK
      <4>3. QED
        BY <4>1, <4>2
    <3>3. ASSUME b <= seen[r].there
          PROVE  FALSE
      <4>1. PICK x \in ItemsOf(r) : x.broadcast = b /\ \E t \in x.targets : t.group = g
        BY <1>2, <1>6, <2>1, <2>8, <3>1, <3>3 DEF ListOK
      <4>2. PICK t \in x.targets : t.group = g
        BY <4>1
      <4>3. t.state \in {"pending", "overdue"}
        BY <2>5, <3>1, <4>1, <4>2
      <4>4. QED
        BY <2>8, <4>1, <4>2, <4>3 DEF open
    <3>4. QED
      BY <3>2, <3>3
  <2>9. ASSUME NEW b \in open \ counted
        PROVE  Confirmed(b, g)
    BY <2>2, <2>5, <2>9 DEF open, PendingOf
  <2>10. \A b : Confirmed(b, g)' = Confirmed(b, g)
    BY <1>1 DEF Confirmed
  <2>11. (call'[r].offset = 0 /\ seen'[r].wanted <= call'[r].limit) => Whole(r)
    BY <1>1 DEF Whole
  <2>12. QED
    BY <1>1, <1>3, <2>6, <2>7, <2>8, <2>9, <2>10, <2>11 DEF BadgeFits
<1>12. ASSUME NEW p \in Request
       PROVE  AfterOK(p, r)'
  <2>1. \A x \in Shown(p), y \in Given(r)' :
           p \in before[r] /\ x.broadcast = y.broadcast => StandsBy(x, y)
    BY <1>5 DEF FeedOK, AfterOK
  <2>2. QED
    BY <1>3, <2>1, AfterMoves DEF Serve
<1>13. QED
  BY <1>7, <1>8, <1>9, <1>10, <1>11, <1>12 DEF RequestOK

LEMMA ServeOK ==
    ASSUME TypeOK, TypeOK', FeedOK, NEW r \in Request, Moves(r)
    PROVE  RequestOK(r)' /\ \A p \in Request : AfterOK(p, r)'
BY BeginOK, ReadIdsOK, ReadAccountOK, ReadMaskOK, ReadRecordsOK, ReadRepliesOK, CountPendingOK
DEF Moves, Serve

LEMMA StepOK ==
    ASSUME TypeOK, TypeOK', FeedOK, Next
    PROVE  FeedOK'
<1>1. CASE Around
  <2>1. Grown /\ \A q \in Request : Same(q) /\ EverGrows(q)
    BY <1>1, AllStay
  <2>2. BoardOK'
    <3>1. CASE BoardStep
      BY <3>1, BoardWrites, BoardStays DEF FeedOK
    <3>2. CASE UpdateAccount \/ Tick
      BY <3>2 DEF UpdateAccount, Tick, tables, FeedOK, BoardOK, Fits
    <3>3. QED
      BY <1>1, <3>1, <3>2 DEF Around
  <2>3. \A q \in Request : RequestOK(q)'
    BY <2>1, RequestStays DEF FeedOK
  <2>4. \A p, q \in Request : AfterOK(p, q)'
    BY <2>1, AfterStays DEF FeedOK, RequestOK
  <2>5. QED
    BY <2>2, <2>3, <2>4 DEF FeedOK
<1>2. ASSUME NEW r \in Request, Moves(r)
      PROVE  FeedOK'
  <2>1. /\ \A q \in Request \ {r} : Same(q) /\ EverGrows(q)
        /\ UNCHANGED <<tables, accounts, now>> /\ Grown /\ pc[r] # "done"
    BY <1>2, OthersStay
  <2>2. BoardOK'
    BY <2>1 DEF tables, FeedOK, BoardOK, Fits
  <2>3. RequestOK(r)' /\ \A p \in Request : AfterOK(p, r)'
    BY <1>2, ServeOK
  <2>4. \A q \in Request \ {r} : RequestOK(q)'
    BY <2>1, RequestStays DEF FeedOK
  <2>5. ASSUME NEW p \in Request, NEW q \in Request \ {r}
        PROVE  AfterOK(p, q)'
    <3>1. CASE p = r
      <4>1. r \notin before'[q]
        BY <2>1, <3>1 DEF FeedOK, AfterOK, Same
      <4>2. QED
        BY <3>1, <4>1 DEF AfterOK
    <3>2. CASE p # r
      BY <2>1, <3>2, AfterStays DEF FeedOK, RequestOK
    <3>3. QED
      BY <3>1, <3>2
  <2>6. QED
    BY <2>2, <2>3, <2>4, <2>5 DEF FeedOK
<1>3. QED
  BY <1>1, <1>2 DEF Next, Moves, Around

\* One confirmation of a target, parents within their thread, and of every request
\* what it has read and made up: the invariant the feed's promises follow from.
\* (list_broadcasts, present, pending_count)
THEOREM FeedCorrect == Spec => []FeedOK
<1>1. TypeOK /\ TypeOK' /\ FeedOK /\ [Next]_vars => FeedOK'
  <2> SUFFICES ASSUME TypeOK, TypeOK', FeedOK, [Next]_vars PROVE FeedOK'
    OBVIOUS
  <2>1. CASE Next
    BY <2>1, StepOK
  <2>2. CASE UNCHANGED vars
    <3>1. Grown /\ \A q \in Request : Same(q) /\ EverGrows(q)
      BY <2>2, FeedAssumption DEF vars, tables, local, history, Grown, Same, EverGrows, TypeOK
    <3>2. BoardOK'
      BY <2>2 DEF vars, tables, FeedOK, BoardOK, Fits
    <3>3. \A q \in Request : RequestOK(q)'
      BY <3>1, RequestStays DEF FeedOK
    <3>4. \A p, q \in Request : AfterOK(p, q)'
      BY <3>1, AfterStays DEF FeedOK, RequestOK
    <3>5. QED
      BY <3>2, <3>3, <3>4 DEF FeedOK
  <2>3. QED
    BY <2>1, <2>2
<1>2. QED
  BY <1>1, InitOK, FeedTypeCorrect, PTL DEF Spec

\* What a badge counts and what its list shows differ only by what has been
\* published and confirmed in between.  (list_broadcasts, pending_count)
THEOREM BadgeAgreement == Spec => []BadgeAgreesWithItems
<1>1. FeedOK => BadgeAgreesWithItems
  BY DEF FeedOK, RequestOK, BadgeOK, BadgeAgreesWithItems
<1>2. QED
  BY <1>1, FeedCorrect, PTL

\* A student is shown threads of groups he was in while the feed was served, and
\* nothing of other groups.  (scoped_group, present)
THEOREM FeedScopeCorrect == Spec => []FeedScope
<1>1. FeedOK => FeedScope
  BY DEF FeedOK, RequestOK, ScopeOK, Given, FeedScope
<1>2. QED
  BY <1>1, FeedCorrect, PTL

\* No feed fails on a missing parent, and a later feed stands by what an earlier
\* one has shown, whoever asks.  (present, confirmation_state)
THEOREM ReaderSeesForwardCorrect == Spec => []ReaderSeesForward
<1>1. FeedOK => ReaderSeesForward
  BY DEF FeedOK, RequestOK, CourseOK, AfterOK, Given, ReaderSeesForward
<1>2. QED
  BY <1>1, FeedCorrect, PTL

-----------------------------------------------------------------------------
(* The pages of one listing: what one leaves to the next. *)

\* The broadcasts a page was cut from: those there were when it was read.
Source(r) ==
    {b \in 1 .. seen[r].there :
        (scope[r] = NoGroup \/ Targeted(b, scope[r])) /\ (week[r].page = NoWeek \/ InPage(r, b))}

\* The page as a request holds it, as ids or as items.
PageNow(r) ==
    IF pc[r] \in {"account", "mask", "records", "replies"} THEN PageSet(r)
    ELSE {x.broadcast : x \in Given(r)}

AllBefore(S, b) == \A c \in S : ComesBefore(c, b)

\* What S was cut to page left out: behind a first page stand as many broadcasts as it
\* holds, and of a listing that ends with the page, fewer than offset come before it.
CutTo(S, page, limit, offset) ==
    \A b \in S \ page :
        /\ offset = 0 => \E T \in SUBSET S : Cardinality(T) = limit /\ AllBefore(T, b)
        /\ Cardinality(S) <= offset + limit =>
              \A T \in SUBSET S : AllBefore(T, b) => Cardinality(T) < offset

CutOK(r) ==
    /\ call[r].op = "feed"
    /\ pc[r] \in {"account", "mask", "records", "replies", "count"} \/ Answered(r)
    =>
        /\ Cardinality(Source(r)) = seen[r].wanted
        /\ CutTo(Source(r), PageNow(r), call[r].limit, call[r].offset)

AllCut == \A r \in Request : CutOK(r)

LEMMA Asymmetric ==
    ASSUME TypeOK, NEW b \in DOMAIN broadcasts, NEW c \in DOMAIN broadcasts, ComesBefore(b, c)
    PROVE  b # c /\ ~ComesBefore(c, b)
<1>1. broadcasts[b].createdAt \in Nat /\ broadcasts[c].createdAt \in Nat
  <2>1. broadcasts[b] \in BroadcastRow /\ broadcasts[c] \in BroadcastRow
    BY DEF TypeOK, TablesTypeOK
  <2> QED
    BY <2>1 DEF BroadcastRow
<1>2. Uuid[b] \in Nat /\ Uuid[c] \in Nat
  <2>1. b \in 1 .. Len(broadcasts) /\ c \in 1 .. Len(broadcasts) /\ Len(broadcasts) \in Nat
    BY DEF TypeOK, TablesTypeOK
  <2>2. Uuid \in Seq(Nat) /\ Len(broadcasts) <= Len(Uuid)
    BY FeedAssumption DEF TypeOK, MaxBroadcasts
  <2> QED
    BY <2>1, <2>2
<1> QED
  BY <1>1, <1>2 DEF ComesBefore

LEMMA UpTo ==
    ASSUME NEW n \in Nat
    PROVE  IsFiniteSet(1 .. n) /\ Cardinality(1 .. n) = n
<1>1. 1 \in Int /\ n \in Int
  OBVIOUS
<1>2. IsFiniteSet(1 .. n) /\ Cardinality(1 .. n) = IF 1 > n THEN 0 ELSE n - 1 + 1
  BY <1>1, FS_Interval, Zenon
<1> QED
  BY <1>2

\* Cutting a listing leaves out what comes after its page, or before.
LEMMA ListingCuts ==
    ASSUME TypeOK, NEW S, S \subseteq DOMAIN broadcasts, IsFiniteSet(S),
           NEW listing \in Listings(S), NEW limit \in Nat \ {0}, NEW offset \in Nat,
           NEW page,
           page = {PageOf(listing, limit, offset)[i] : i \in DOMAIN PageOf(listing, limit, offset)}
    PROVE  CutTo(S, page, limit, offset)
<1> DEFINE n == Cardinality(S)
<1>1. n \in Nat
  BY FS_CardinalityType
<1>2. listing \in [1 .. n -> S]
  BY DEF Listings
<1>3. \A i, j \in 1 .. n : i < j => listing[i] # listing[j] /\ ComesBefore(listing[i], listing[j])
  BY <1>2 DEF Listings
<1>4. \A c \in S : \E i \in 1 .. n : listing[i] = c
  BY ListingIsOnto
<1> HIDE DEF n
<1> SUFFICES ASSUME NEW b \in S \ page
             PROVE  /\ offset = 0 =>
                          \E T \in SUBSET S : Cardinality(T) = limit /\ AllBefore(T, b)
                    /\ n <= offset + limit =>
                          \A T \in SUBSET S : AllBefore(T, b) => Cardinality(T) < offset
  BY DEF CutTo, n
<1>5. PICK j \in 1 .. n : listing[j] = b
  BY <1>4
<1>6. ~(j > offset /\ j <= offset + limit)
  <2> SUFFICES ASSUME j > offset, j <= offset + limit PROVE FALSE
    OBVIOUS
  <2> DEFINE last == IF n < offset + limit THEN n ELSE offset + limit
             cut == PageOf(listing, limit, offset)
  <2>1. listing \in Seq(S) /\ Len(listing) = n
    BY <1>1, <1>2
  <2>2. cut = SubSeq(listing, offset + 1, last)
    BY <2>1 DEF PageOf
  <2>3. last \in Nat /\ last <= n /\ offset + 1 \in Nat /\ j <= last /\ offset + 1 <= last
    BY <1>1, <1>5
  <2>4. \A i \in offset + 1 .. last : listing[i] \in S
    BY <1>1, <1>2, <2>3
  <2>5. page = {cut[i] : i \in DOMAIN cut}
    OBVIOUS
  <2> HIDE DEF last, cut
  <2>6. /\ cut \in Seq(S) /\ Len(cut) = last - (offset + 1) + 1
        /\ \A i \in 1 .. last - (offset + 1) + 1 : cut[i] = listing[offset + 1 + i - 1]
    BY <2>2, <2>3, <2>4, SubSeqProperties
  <2>7. j - offset \in 1 .. last - (offset + 1) + 1 /\ (offset + 1 + (j - offset)) - 1 = j
    BY <1>1, <1>5, <2>3
  <2>8. cut[j - offset] = b
    BY <1>5, <2>6, <2>7
  <2>9. j - offset \in DOMAIN cut
    BY <2>6, <2>7
  <2> QED
    BY <2>5, <2>8, <2>9
<1>7. ASSUME offset = 0
      PROVE  \E T \in SUBSET S : Cardinality(T) = limit /\ AllBefore(T, b)
  <2>1. limit < j /\ limit <= n /\ limit \in Nat
    BY <1>1, <1>5, <1>6, <1>7
  <2> DEFINE T == {listing[i] : i \in 1 .. limit}
             f == [i \in 1 .. limit |-> listing[i]]
  <2>2. T \in SUBSET S /\ f \in [1 .. limit -> T]
    BY <1>1, <1>2, <2>1
  <2>3. AllBefore(T, b)
    BY <1>1, <1>3, <1>5, <2>1 DEF AllBefore
  <2>4. \A i, k \in 1 .. limit : f[i] = f[k] => i = k
    BY <1>1, <1>3, <2>1
  <2>5. \A x \in T : \E i \in 1 .. limit : f[i] = x
    OBVIOUS
  <2> HIDE DEF T, f
  <2>6. f \in Bijection(1 .. limit, T)
    BY <2>2, <2>4, <2>5, Fun_IsBij
  <2>7. ExistsBijection(1 .. limit, T)
    BY <2>6 DEF ExistsBijection
  <2>8. Cardinality(T) = limit
    BY <2>1, <2>7, UpTo, FS_Bijection
  <2> QED
    BY <2>2, <2>3, <2>8
<1>8. ASSUME n <= offset + limit, NEW T \in SUBSET S, AllBefore(T, b)
      PROVE  Cardinality(T) < offset
  <2>1. j <= offset /\ offset \in Nat /\ j \in Nat \ {0}
    BY <1>1, <1>5, <1>6, <1>8
  <2> DEFINE place == [c \in T |-> CHOOSE i \in 1 .. n : listing[i] = c]
  <2>2. \A c \in T : place[c] \in 1 .. n /\ listing[place[c]] = c
    BY <1>4
  <2> HIDE DEF place
  <2>3. ASSUME NEW c \in T PROVE place[c] \in 1 .. j - 1
    <3>1. place[c] \in 1 .. n /\ listing[place[c]] = c /\ ComesBefore(c, b)
      BY <2>2, <1>8 DEF AllBefore
    <3>2. b # c /\ ~ComesBefore(b, c)
      BY <3>1, Asymmetric
    <3>3. ~(j < place[c])
      BY <1>3, <1>5, <3>1, <3>2
    <3>4. j # place[c]
      BY <1>5, <3>1, <3>2
    <3> QED
      BY <1>1, <1>5, <3>1, <3>3, <3>4
  <2>4. place \in [T -> 1 .. j - 1]
    BY <2>3 DEF place
  <2>5. \A c, d \in T : place[c] = place[d] => c = d
    BY <2>2
  <2>6. place \in Injection(T, 1 .. j - 1)
    BY <2>4, <2>5, Fun_IsInj
  <2>7. IsFiniteSet(1 .. j - 1) /\ Cardinality(1 .. j - 1) = j - 1
    <3>1. j - 1 \in Nat
      BY <2>1
    <3> QED
      BY <3>1, UpTo
  <2>8. IsFiniteSet(T) /\ Cardinality(T) <= j - 1
    BY <2>6, <2>7, FS_Injection
  <2>9. Cardinality(T) \in Nat
    BY <2>8, FS_CardinalityType
  <2> QED
    BY <2>1, <2>8, <2>9
<1> QED
  BY <1>7, <1>8

\* As long as a request keeps its page, its cut stays what it is: the rows it was
\* made from never change.
LEMMA CutStays ==
    ASSUME TypeOK, Grown, NEW r \in Request, seen[r].there <= Len(broadcasts),
           seen'[r] = seen[r], scope'[r] = scope[r], week'[r].page = week[r].page,
           call'[r] = call[r], PageNow(r)' = PageNow(r),
           Cardinality(Source(r)) = seen[r].wanted,
           CutTo(Source(r), PageNow(r), call[r].limit, call[r].offset)
    PROVE  /\ Cardinality(Source(r)') = seen'[r].wanted
           /\ CutTo(Source(r), PageNow(r), call[r].limit, call[r].offset)'
<1>1. \A b \in 1 .. seen[r].there : b \in DOMAIN broadcasts /\ broadcasts'[b] = broadcasts[b]
                                     /\ b \in DOMAIN broadcasts'
  <2>1. DOMAIN broadcasts = 1 .. Len(broadcasts) /\ Len(broadcasts) \in Nat
    BY DEF TypeOK, TablesTypeOK
  <2>2. seen[r].there \in Nat
    BY FeedAssumption DEF TypeOK, MaxBroadcasts
  <2> QED
    BY <2>1, <2>2 DEF Grown
<1>2. Source(r)' = Source(r)
  BY <1>1 DEF Source, Targeted, InPage
<1>3. \A b, c \in Source(r) : ComesBefore(b, c)' = ComesBefore(b, c)
  BY <1>1 DEF ComesBefore, Source
<1>4. \A T \in SUBSET Source(r), b \in Source(r) : AllBefore(T, b)' = AllBefore(T, b)
  BY <1>3 DEF AllBefore
<1> DEFINE S == Source(r)
           page == PageNow(r)
<1>5. SUFFICES ASSUME NEW b \in S \ page
               PROVE  /\ call[r].offset = 0 =>
                            \E T \in SUBSET S : Cardinality(T) = call[r].limit /\ AllBefore(T, b)'
                      /\ Cardinality(S) <= call[r].offset + call[r].limit =>
                            \A T \in SUBSET S : AllBefore(T, b)' => Cardinality(T) < call[r].offset
  BY <1>2 DEF CutTo
<1>6. /\ call[r].offset = 0 =>
           \E T \in SUBSET S : Cardinality(T) = call[r].limit /\ AllBefore(T, b)
      /\ Cardinality(S) <= call[r].offset + call[r].limit =>
           \A T \in SUBSET S : AllBefore(T, b) => Cardinality(T) < call[r].offset
  BY <1>5 DEF CutTo
<1> QED
  BY <1>4, <1>5, <1>6

LEMMA PageSetStays ==
    ASSUME NEW r \in Request, ids'[r] = ids[r]
    PROVE  PageSet(r)' = PageSet(r)
BY DEF PageSet

LEMMA ReadIdsCuts ==
    ASSUME TypeOK, NEW r \in Request, ReadIds(r)
    PROVE  CutOK(r)'
<1> DEFINE start == StartOf(r)
           S == Wanted(r, start)
<1>1. UNCHANGED <<broadcasts, call, scope>> /\ pc[r] = "ids"
  BY DEF ReadIds, NoWrite, tables
<1>2. pc'[r] = "account"
  BY GoMoves DEF ReadIds
<1>3. call[r] \in Offer
  BY <1>1, FeedAssumption DEF TypeOK, Step
<1>4. call[r].limit \in Nat \ {0} /\ call[r].offset \in Nat
  BY <1>3 DEF Offer
<1>5. PICK listing \in Listings(S) :
        ids' = [ids EXCEPT ![r] = PageOf(listing, call[r].limit, call[r].offset)]
  BY DEF ReadIds
<1> DEFINE page == PageOf(listing, call[r].limit, call[r].offset)
<1>6. ids'[r] = page
  BY <1>5 DEF TypeOK
<1>7. IsFiniteSet(S) /\ S \subseteq DOMAIN broadcasts
  BY WantedIsFinite
<1>8. /\ seen'[r].there = Len(broadcasts) /\ seen'[r].wanted = Cardinality(S)
      /\ week'[r].page = (IF call[r].everything THEN NoWeek ELSE start)
  BY DEF ReadIds, TypeOK
<1>9. start # NoWeek
  <2>1. (IF call[r].week = NoWeek THEN now ELSE call[r].week) \in Nat
    BY <1>3, FeedAssumption DEF Offer, TypeOK
  <2>2. start \in Int
    BY <2>1, CalendarAssumption DEF StartOf, WeekStart, Week, Local
  <2> QED
    BY <2>2, FeedAssumption
<1>10. Source(r)' = S
  <2>1. DOMAIN broadcasts = 1 .. Len(broadcasts)
    BY DEF TypeOK, TablesTypeOK
  <2> HIDE DEF start
  <2> QED
    BY <1>1, <1>8, <1>9, <2>1 DEF Source, Wanted, InPage, Targeted
<1>11. PageNow(r)' = {page[i] : i \in DOMAIN page}
  BY <1>2, <1>6 DEF PageNow, PageSet
<1> HIDE DEF S, page
<1>12. CutTo(S, PageNow(r)', call[r].limit, call[r].offset)
  BY <1>4, <1>5, <1>7, <1>11, ListingCuts DEF page
<1>13. \A T, P, l, o : CutTo(T, P, l, o)' = CutTo(T, P, l, o)
  BY <1>1 DEF CutTo, AllBefore, ComesBefore
<1>14. CutTo(Source(r), PageNow(r), call[r].limit, call[r].offset)'
  BY <1>1, <1>10, <1>12, <1>13
<1> QED
  BY <1>8, <1>10, <1>14 DEF CutOK, S

\* A served request keeps its page from step to step, as ids, items or answer.
LEMMA ServeKeepsPage ==
    ASSUME TypeOK, FeedOK, NEW r \in Request, call[r].op = "feed",
           ReadAccount(r) \/ ReadMask(r) \/ ReadRecords(r) \/ ReadReplies(r) \/ CountPending(r),
           pc'[r] # "done" \/ answer'[r].status = "ok"
    PROVE  /\ PageNow(r)' = PageNow(r)
           /\ pc[r] \in {"account", "mask", "records", "replies", "count"}
           /\ week'[r].page = week[r].page
           /\ UNCHANGED <<seen, scope, call>>
<1>1. CourseOK(r)
  BY DEF FeedOK, RequestOK
<1>2. CASE ReadMask(r)
  <2>1. /\ pc[r] = "mask" /\ pc'[r] = IF ids[r] = <<>> THEN "count" ELSE "records"
        /\ answer'[r] = answer[r] /\ UNCHANGED <<ids, items, seen, scope, call, week>>
    BY <1>2, GoMoves, FinishMoves DEF ReadMask, history
  <2>2. Given(r)' = {} /\ PageSet(r)' = PageSet(r)
    BY <1>1, <2>1, NothingGiven, EmptyGiven, PageSetStays DEF NoAnswer
  <2>3. ids[r] = <<>> => PageSet(r) = {}
    BY DEF PageSet
  <2> QED
    BY <2>1, <2>2, <2>3 DEF PageNow
<1>3. CASE ReadRecords(r)
  <2>1. /\ pc[r] = "records" /\ pc'[r] = "replies"
        /\ UNCHANGED <<ids, seen, scope, call, week>>
    BY <1>3, GoMoves DEF ReadRecords, history
  <2> QED
    BY <2>1, PageSetStays DEF PageNow
<1>4. CASE ReadReplies(r)
  <2>1. /\ items' = [items EXCEPT ![r] = [i \in DOMAIN ids[r] |-> ItemOf(r, ids[r][i])]]
        /\ Go(r, "count") /\ pc[r] = "replies"
        /\ UNCHANGED <<seen, scope, call, week>>
    BY <1>4, ThreadsAreNested DEF ReadReplies, FeedOK, history
  <2>2. pc'[r] = "count" /\ answer'[r] = answer[r] /\ answer[r] = NoAnswer
    BY <1>1, <2>1, GoMoves, NothingGiven
  <2>3. items'[r] = [i \in DOMAIN ids[r] |-> ItemOf(r, ids[r][i])]
    BY <2>1 DEF TypeOK
  <2>4. Given(r)' = {ItemOf(r, ids[r][i]) : i \in DOMAIN ids[r]}
    BY <2>2, <2>3 DEF Given, ItemsOf, Shown, NoAnswer
  <2>5. \A b : ItemOf(r, b).broadcast = b
    BY DEF ItemOf
  <2>6. {x.broadcast : x \in Given(r)'} = PageSet(r)
    BY <2>4, <2>5 DEF PageSet
  <2> QED
    BY <2>1, <2>2, <2>6 DEF PageNow
<1>5. CASE CountPending(r)
  <2>1. /\ pc[r] = "count" /\ items'[r] = <<>> /\ week'[r].page = week[r].page
        /\ UNCHANGED <<seen, scope, call>>
    BY <1>5 DEF CountPending, TypeOK
  <2>2. pc'[r] = "done" /\ answer'[r].items = items[r]
    BY <1>5, FinishMoves DEF CountPending
  <2>3. answer[r] = NoAnswer
    BY <1>1, <2>1 DEF CourseOK
  <2>4. Given(r)' = ItemsOf(r) /\ Given(r) = ItemsOf(r)
    BY <2>1, <2>2, <2>3 DEF Given, ItemsOf, Shown, NoAnswer
  <2> QED
    BY <2>1, <2>2, <2>4 DEF PageNow
<1>6. CASE ReadAccount(r)
  <2>1. /\ pc[r] = "account" /\ pc'[r] = "mask"
        /\ UNCHANGED <<ids, seen, scope, call, week>>
    BY <1>6, GoMoves DEF ReadAccount, history
  <2> QED
    BY <2>1, PageSetStays DEF PageNow
<1> QED
  BY <1>2, <1>3, <1>4, <1>5, <1>6

LEMMA StepCut ==
    ASSUME TypeOK, FeedOK, AllCut, [Next]_vars
    PROVE  AllCut'
<1> SUFFICES ASSUME NEW r \in Request PROVE CutOK(r)'
  BY DEF AllCut
<1>1. seen[r].there <= Len(broadcasts)
  BY DEF FeedOK, RequestOK, ListOK
<1>2. ASSUME Grown, Same(r) PROVE CutOK(r)'
  <2> SUFFICES ASSUME call[r].op = "feed",
                      pc[r] \in {"account", "mask", "records", "replies", "count"} \/ Answered(r)
               PROVE  /\ Cardinality(Source(r)') = seen'[r].wanted
                      /\ CutTo(Source(r), PageNow(r), call[r].limit, call[r].offset)'
    BY <1>2 DEF CutOK, Same, Answered
  <2>1. PageNow(r)' = PageNow(r)
    BY <1>2, GivenStays DEF PageNow, Same
  <2> QED
    BY <1>1, <1>2, <2>1, CutStays DEF Same, AllCut, CutOK
<1>3. ASSUME NEW q \in Request, q # r, Moves(q) PROVE CutOK(r)'
  BY <1>2, <1>3, OthersStay
<1>4. CASE Around
  BY <1>2, <1>4, AllStay
<1>5. CASE UNCHANGED vars
  BY <1>2, <1>5, FeedAssumption DEF vars, tables, local, history, Grown, Same, TypeOK
<1>6. CASE Begin(r)
  <2>1. CourseOK(r) /\ pc[r] = "idle"
    BY <1>6 DEF FeedOK, RequestOK, Begin
  <2>2. answer[r] = NoAnswer
    BY <2>1, NothingGiven
  <2>3. PICK o \in Offered :
          /\ call' = [call EXCEPT ![r] = o]
          /\ \/ \E status \in {"unauthorized", "forbidden"} : Finish(r, status, {})
             \/ Go(r, "account") /\ o.op = "count"
             \/ Go(r, "ids")
    BY <1>6 DEF Begin
  <2>4. call'[r] = o
    BY <2>3 DEF TypeOK
  <2>5. CASE \E status \in {"unauthorized", "forbidden"} : Finish(r, status, {})
    BY <2>5, FinishMoves DEF CutOK, Answered
  <2>6. CASE Go(r, "account") /\ o.op = "count"
    BY <2>4, <2>6, GoMoves DEF CutOK
  <2>7. CASE Go(r, "ids")
    BY <2>2, <2>7, GoMoves DEF CutOK, Answered, NoAnswer
  <2> QED
    BY <2>3, <2>5, <2>6, <2>7
<1>7. CASE ReadIds(r)
  BY <1>7, ReadIdsCuts
<1>8. ASSUME ReadAccount(r) \/ ReadMask(r) \/ ReadRecords(r) \/ ReadReplies(r) \/ CountPending(r)
      PROVE  CutOK(r)'
  <2>1. call' = call
    BY <1>8 DEF ReadAccount, ReadMask, ReadRecords, ReadReplies, CountPending
  <2> SUFFICES ASSUME call[r].op = "feed", pc'[r] # "done" \/ answer'[r].status = "ok"
               PROVE  /\ Cardinality(Source(r)') = seen'[r].wanted
                      /\ CutTo(Source(r), PageNow(r), call[r].limit, call[r].offset)'
    BY <2>1 DEF CutOK, Answered
  <2>2. /\ PageNow(r)' = PageNow(r) /\ pc[r] \in {"account", "mask", "records", "replies", "count"}
        /\ week'[r].page = week[r].page /\ UNCHANGED <<seen, scope, call>>
    BY <1>8, ServeKeepsPage
  <2>3. Grown
    BY <1>8, OthersStay DEF Moves, Serve
  <2> QED
    BY <1>1, <2>2, <2>3, CutStays DEF AllCut, CutOK
<1> QED
  BY <1>3, <1>4, <1>5, <1>6, <1>7, <1>8 DEF Next, Moves, Serve, Around

\* Whoever turns the page misses nothing: what the first page left out stands behind
\* as many broadcasts as it holds, and these all come before it on the second, too.
LEMMA NothingSkipped == TypeOK /\ FeedOK /\ AllCut => PagesSkipNothing
<1> SUFFICES ASSUME TypeOK, FeedOK, AllCut, NEW p \in Request, NEW q \in Request,
                    Fed(p), Fed(q), scope[p] = scope[q], week[p].page = week[q].page,
                    call[p].offset = 0, call[q].offset = call[p].limit,
                    seen[p].there <= seen[q].there,
                    seen[q].wanted <= call[q].offset + call[q].limit,
                    NEW b \in 1 .. seen[p].there,
                    scope[p] = NoGroup \/ Targeted(b, scope[p]),
                    week[p].page = NoWeek \/ WeekStart(broadcasts[b].createdAt) = week[p].page,
                    ~\E x \in Shown(p) \union Shown(q) : x.broadcast = b
             PROVE  FALSE
  BY DEF PagesSkipNothing
<1>1. seen[p].there \in Nat /\ seen[q].there \in Nat
  BY FeedAssumption DEF TypeOK, MaxBroadcasts
<1>2. b \in Source(p)
  <2>1. b \in DOMAIN broadcasts
    BY <1>1 DEF FeedOK, RequestOK, ListOK, TypeOK, TablesTypeOK
  <2>2. broadcasts[b].createdAt \in Int
    <3>1. broadcasts[b] \in BroadcastRow
      BY <2>1 DEF TypeOK, TablesTypeOK
    <3> QED
      BY <3>1 DEF BroadcastRow
  <2>3. InWeekOf(broadcasts[b].createdAt, broadcasts[b].createdAt)
    BY <2>2, OwnWeek
  <2>4. week[p].page # NoWeek => InPage(p, b)
    BY <2>3 DEF InWeekOf, WeekEnd, InPage
  <2> QED
    BY <2>4 DEF Source
<1>3. Source(p) \subseteq Source(q)
  BY <1>1 DEF Source, InPage
<1>4. \A r \in {p, q} : PageNow(r) = {x.broadcast : x \in Shown(r)} /\ CutOK(r)
  <2> SUFFICES ASSUME NEW r \in {p, q} PROVE PageNow(r) = {x.broadcast : x \in Shown(r)}
    BY DEF AllCut
  <2>1. CourseOK(r) /\ Answered(r)
    BY DEF FeedOK, RequestOK, Fed
  <2>2. pc[r] = "done" /\ items[r] = <<>>
    BY <2>1 DEF CourseOK, NoAnswer, Answered
  <2> QED
    BY <2>2 DEF PageNow, Given, ItemsOf
<1>5. b \notin PageNow(p) /\ b \notin PageNow(q)
  BY <1>4
<1>6. PICK T \in SUBSET Source(p) : Cardinality(T) = call[p].limit /\ AllBefore(T, b)
  BY <1>2, <1>4, <1>5 DEF CutOK, CutTo, Fed
<1>7. Cardinality(T) < call[q].offset
  BY <1>2, <1>3, <1>4, <1>5, <1>6 DEF CutOK, CutTo, Fed
<1>8. call[p].limit \in Nat
  <2>1. call[p] \in Offered \union {NoCall}
    BY DEF TypeOK
  <2>2. call[p] # NoCall
    BY DEF Fed, NoCall
  <2>3. call[p] \in Offer
    BY <2>1, <2>2, FeedAssumption
  <2> QED
    BY <2>3 DEF Offer
<1> QED
  BY <1>6, <1>7, <1>8

\* A reader who turns the pages by limit and offset to the end of the listing misses
\* no broadcast that was there when he began, whatever is published meanwhile and
\* wherever its stamp puts it.  (list_broadcasts)
THEOREM PagesSkipNothingCorrect == Spec => []PagesSkipNothing
<1>1. Init => AllCut
  BY DEF Init, AllCut, CutOK, Answered, NoAnswer, NoCall
<1> QED
  BY <1>1, StepCut, NothingSkipped, FeedTypeCorrect, FeedCorrect, PTL DEF Spec
=============================================================================
