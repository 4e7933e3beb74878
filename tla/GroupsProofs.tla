----------------------------- MODULE GroupsProofs -----------------------------
(***************************************************************************)
(* Groups for any hierarchy, any number of calls and any offers.           *)
(***************************************************************************)
EXTENDS Groups, TLAPS

-----------------------------------------------------------------------------
(* Types, one call at a time. *)

PC == Step \union {"idle", "done"}

\* What TypeOK asks of one call.
RequestOK(r) ==
    /\ pc[r] \in Step =>
          /\ call[r] \in Call
          /\ call[r].op = "create" => call[r].group = r
          /\ call[r].op = "place" => call[r].to # NoGroup
    /\ pc[r] = "walk" =>
          /\ cursor[r] \in Group
          /\ call[r].op \in {"create", "reparent"}

TablesOK ==
    /\ parent \in [Group -> Group \union {NoGroup, Absent}]
    /\ home \in [Account -> Group]

CallsOK ==
    /\ pc \in [Request -> PC]
    /\ call \in [Request -> Call \union {NoCall}]
    /\ copy \in [Request -> Group \union {NoGroup, Absent}]
    /\ seen \in [Request -> SUBSET Group]
    /\ cursor \in [Request -> Group \union {NoGroup}]
    /\ answer \in [Request -> Status]

HistoryOK == stored \subseteq Request /\ raced \subseteq Request /\ skewed \in BOOLEAN

LEMMA TypeParts ==
    TypeOK <=> TablesOK /\ CallsOK /\ HistoryOK /\ \A r \in Request : RequestOK(r)
BY DEF TypeOK, TablesOK, CallsOK, HistoryOK, RequestOK, PC

\* The step of a call leaves the others as they are.
OthersStay(r) ==
    \A q \in Request \ {r} :
        /\ pc'[q] = pc[q] /\ call'[q] = call[q] /\ copy'[q] = copy[q]
        /\ seen'[q] = seen[q] /\ cursor'[q] = cursor[q] /\ answer'[q] = answer[q]

LEMMA GoType ==
    ASSUME CallsOK, NEW r \in Request, NEW step \in PC, Go(r, step)
    PROVE  /\ pc' \in [Request -> PC] /\ answer' \in [Request -> Status]
           /\ pc'[r] = step /\ answer'[r] = answer[r]
           /\ \A q \in Request \ {r} : pc'[q] = pc[q] /\ answer'[q] = answer[q]
BY DEF CallsOK, Go

LEMMA FinishType ==
    ASSUME CallsOK, NEW r \in Request, NEW status \in Status, Finish(r, status)
    PROVE  /\ pc' \in [Request -> PC] /\ answer' \in [Request -> Status]
           /\ pc'[r] = "done" /\ answer'[r] = status
           /\ \A q \in Request \ {r} : pc'[q] = pc[q] /\ answer'[q] = answer[q]
BY DEF CallsOK, Finish, PC

LEMMA StartWalkType ==
    ASSUME CallsOK, NEW r \in Request, NEW to \in Group \union {NoGroup}, StartWalk(r, to)
    PROVE  /\ pc' \in [Request -> PC] /\ answer' \in [Request -> Status]
           /\ cursor' \in [Request -> Group \union {NoGroup}]
           /\ pc'[r] = IF to = NoGroup THEN "store" ELSE "walk"
           /\ cursor'[r] = to /\ answer'[r] = answer[r]
           /\ \A q \in Request \ {r} :
                 pc'[q] = pc[q] /\ answer'[q] = answer[q] /\ cursor'[q] = cursor[q]
<1>1. (IF to = NoGroup THEN "store" ELSE "walk") \in PC
  BY DEF PC, Step
<1>2. QED
  BY <1>1, GoType DEF StartWalk, CallsOK

LEMMA CallTypes ==
    ASSUME NEW c \in Call
    PROVE  c.op \in Op /\ c.group \in Group /\ c.to \in Group \union {NoGroup}
           /\ c.account \in Account
BY DEF Call

LEMMA TypeOfMove ==
    ASSUME TypeOK, NEW r \in Request, OthersStay(r), TablesOK', CallsOK', HistoryOK',
           RequestOK(r)'
    PROVE  TypeOK'
<1>1. \A q \in Request \ {r} : RequestOK(q)'
  BY TypeParts DEF OthersStay, RequestOK
<1>2. TypeOK' <=> TablesOK' /\ CallsOK' /\ HistoryOK' /\ \A q \in Request : RequestOK(q)'
  BY DEF TypeOK, TablesOK, CallsOK, HistoryOK, RequestOK, PC
<1>3. QED
  BY <1>1, <1>2

LEMMA CreationType ==
    ASSUME NEW r \in Request, NEW o \in Call
    PROVE  Creation(r, o) \in Call /\ Creation(r, o).op = "create"
           /\ Creation(r, o).group = r /\ Creation(r, o).to = o.to
BY DEF Creation, Call, Op, Group

LEMMA BeginType ==
    ASSUME TypeOK, NEW r \in Request, Begin(r)
    PROVE  TypeOK' /\ OthersStay(r)
<1>1. PICK o \in Offered :
         /\ call' = [call EXCEPT ![r] = IF o.op = "create" THEN Creation(r, o) ELSE o]
         /\ IF o.op = "create" THEN StartWalk(r, o.to)
            ELSE Go(r, "load") /\ UNCHANGED cursor
  BY DEF Begin
<1>2. o \in Call /\ (o.op = "place" => o.to # NoGroup)
  BY GroupsAssumption
<1>3. /\ call' \in [Request -> Call \union {NoCall}]
      /\ call'[r] \in Call
      /\ call'[r].op = o.op
      /\ o.op = "create" => call'[r].group = r
      /\ call'[r].to = o.to
      /\ \A q \in Request \ {r} : call'[q] = call[q]
  BY <1>1, <1>2, CreationType, TypeParts DEF CallsOK
<1>4. TablesOK /\ CallsOK /\ HistoryOK
  BY TypeParts
<1>5. UNCHANGED <<tables, copy, seen, stored, history>>
  BY DEF Begin
<1>6. TablesOK' /\ HistoryOK'
  BY <1>4, <1>5 DEF TablesOK, HistoryOK, tables, history
<1>7. CASE o.op = "create"
  <2>1. StartWalk(r, o.to) /\ o.to \in Group \union {NoGroup}
    BY <1>1, <1>2, <1>7, CallTypes
  <2>2. /\ pc' \in [Request -> PC] /\ answer' \in [Request -> Status]
        /\ cursor' \in [Request -> Group \union {NoGroup}]
        /\ pc'[r] = IF o.to = NoGroup THEN "store" ELSE "walk"
        /\ cursor'[r] = o.to
        /\ \A q \in Request \ {r} :
              pc'[q] = pc[q] /\ answer'[q] = answer[q] /\ cursor'[q] = cursor[q]
    BY <2>1, <1>4, StartWalkType
  <2>3. CallsOK' /\ OthersStay(r)
    BY <2>2, <1>3, <1>4, <1>5 DEF CallsOK, OthersStay
  <2>4. RequestOK(r)'
    BY <2>1, <2>2, <1>3, <1>7 DEF RequestOK
  <2>5. QED
    BY <2>3, <2>4, <1>6, TypeOfMove
<1>8. CASE o.op # "create"
  <2>1. Go(r, "load") /\ UNCHANGED cursor /\ "load" \in PC
    BY <1>1, <1>8 DEF PC, Step
  <2>2. CallsOK' /\ OthersStay(r) /\ pc'[r] = "load"
    BY <2>1, <1>3, <1>4, <1>5, GoType DEF CallsOK, OthersStay
  <2>3. RequestOK(r)'
    BY <2>2, <1>2, <1>3, <1>8 DEF RequestOK
  <2>4. QED
    BY <2>2, <2>3, <1>6, TypeOfMove
<1>9. QED
  BY <1>7, <1>8

Moves(r) ==
    \/ \E step \in Step : Go(r, step)
    \/ \E status \in Status : Finish(r, status)

LEMMA MovesType ==
    ASSUME CallsOK, NEW r \in Request, Moves(r)
    PROVE  /\ pc' \in [Request -> PC] /\ answer' \in [Request -> Status]
           /\ \A q \in Request \ {r} : pc'[q] = pc[q] /\ answer'[q] = answer[q]
           /\ pc'[r] \in Step \union {"done"}
<1>1. Step \subseteq PC
  BY DEF PC
<1>2. QED
  BY <1>1, GoType, FinishType DEF Moves

LEMMA RunningCall ==
    ASSUME TypeOK, NEW r \in Request, pc[r] \in Step
    PROVE  /\ call[r] \in Call /\ call[r].op \in Op /\ call[r].group \in Group
           /\ call[r].to \in Group \union {NoGroup} /\ call[r].account \in Account
           /\ call[r].op = "create" => call[r].group = r
           /\ call[r].op = "place" => call[r].to \in Group
BY TypeParts, CallTypes DEF RequestOK

\* What the services' steps have in common.
LEMMA ServeType ==
    ASSUME TypeOK, NEW r \in Request, pc[r] \in Step, Moves(r), UNCHANGED call,
           TablesOK', HistoryOK',
           copy' \in [Request -> Group \union {NoGroup, Absent}],
           seen' \in [Request -> SUBSET Group],
           cursor' \in [Request -> Group \union {NoGroup}],
           \A q \in Request \ {r} :
               copy'[q] = copy[q] /\ seen'[q] = seen[q] /\ cursor'[q] = cursor[q],
           pc'[r] = "walk" => cursor'[r] \in Group /\ call[r].op \in {"create", "reparent"}
    PROVE  TypeOK' /\ OthersStay(r)
<1>1. TablesOK /\ CallsOK /\ HistoryOK /\ RequestOK(r)
  BY TypeParts
<1>2. /\ pc' \in [Request -> PC] /\ answer' \in [Request -> Status]
      /\ \A q \in Request \ {r} : pc'[q] = pc[q] /\ answer'[q] = answer[q]
  BY <1>1, MovesType
<1>3. CallsOK' /\ OthersStay(r)
  BY <1>1, <1>2 DEF CallsOK, OthersStay
<1>4. RequestOK(r)'
  BY <1>1 DEF RequestOK
<1>5. QED
  BY <1>3, <1>4, TypeOfMove

\* A step that writes nothing and moves no walk.
LEMMA ReadType ==
    ASSUME TypeOK, NEW r \in Request, pc[r] \in Step, Moves(r), pc'[r] # "walk",
           UNCHANGED <<tables, call, seen, cursor, stored, history>>,
           copy' \in [Request -> Group \union {NoGroup, Absent}],
           \A q \in Request \ {r} : copy'[q] = copy[q]
    PROVE  TypeOK' /\ OthersStay(r)
<1>1. TablesOK' /\ HistoryOK'
  BY TypeParts DEF TablesOK, HistoryOK, tables, history
<1>2. CallsOK
  BY TypeParts
<1>3. QED
  BY <1>1, <1>2, ServeType DEF CallsOK

LEMMA LoadType ==
    ASSUME TypeOK, NEW r \in Request, Load(r)
    PROVE  TypeOK' /\ OthersStay(r)
<1> DEFINE loaded == IF call[r].op = "place" THEN home[call[r].account]
                     ELSE parent[call[r].group]
<1>1. TablesOK /\ CallsOK /\ pc[r] \in Step
  BY TypeParts DEF Load, Step
<1>2. /\ call[r].op \in Op /\ call[r].group \in Group
      /\ call[r].to \in Group \union {NoGroup} /\ call[r].account \in Account
  BY <1>1, RunningCall
<1>3. loaded \in Group \union {NoGroup, Absent}
  BY <1>1, <1>2 DEF TablesOK
<1>4. copy' = [copy EXCEPT ![r] = loaded]
  BY DEF Load
<1> HIDE DEF loaded
<1>5. /\ copy' \in [Request -> Group \union {NoGroup, Absent}]
      /\ \A q \in Request \ {r} : copy'[q] = copy[q]
  BY <1>1, <1>3, <1>4 DEF CallsOK
<1>6. UNCHANGED <<tables, call, seen, stored, history>> /\ TablesOK' /\ HistoryOK'
  BY TypeParts DEF Load, TablesOK, HistoryOK, tables, history
<1>7. CASE StartWalk(r, call[r].to) /\ call[r].op \notin {"place", "delete"}
  <2>1. Moves(r)
    BY <1>7 DEF StartWalk, Moves, Step
  <2>2. /\ cursor' \in [Request -> Group \union {NoGroup}]
        /\ \A q \in Request \ {r} : cursor'[q] = cursor[q]
        /\ pc'[r] = "walk" => cursor'[r] \in Group
    BY <1>1, <1>2, <1>7, StartWalkType
  <2>3. QED
    BY <1>1, <1>2, <1>5, <1>6, <1>7, <2>1, <2>2, ServeType DEF CallsOK, Op
<1>8. CASE UNCHANGED cursor /\ Moves(r) /\ pc'[r] # "walk"
  BY <1>1, <1>5, <1>6, <1>8, ReadType
<1>9. \/ StartWalk(r, call[r].to) /\ call[r].op \notin {"place", "delete"}
      \/ UNCHANGED cursor /\ (Go(r, "group") \/ Go(r, "children") \/ Finish(r, "missing")
                              \/ Finish(r, "conflict"))
  BY DEF Load
<1>10. {"group", "children"} \subseteq Step /\ {"missing", "conflict"} \subseteq Status
  BY DEF Step, Status
<1>11. ASSUME Go(r, "group") \/ Go(r, "children") \/ Finish(r, "missing")
              \/ Finish(r, "conflict")
       PROVE  Moves(r) /\ pc'[r] # "walk"
  <2>1. Moves(r)
    BY <1>10, <1>11 DEF Moves
  <2>2. pc'[r] # "walk"
    BY <1>1, <1>11 DEF Go, Finish, CallsOK
  <2>3. QED
    BY <2>1, <2>2
<1>12. QED
  BY <1>7, <1>8, <1>9, <1>11

LEMMA WalkType ==
    ASSUME TypeOK, NEW r \in Request, Walk(r)
    PROVE  TypeOK' /\ OthersStay(r)
<1> DEFINE c == cursor[r]
<1>1. /\ TablesOK /\ CallsOK /\ pc[r] \in Step /\ c \in Group
      /\ call[r].op \in {"create", "reparent"}
  BY TypeParts DEF Walk, Step, RequestOK
<1>2. UNCHANGED <<tables, call, copy, stored, history>> /\ TablesOK' /\ HistoryOK'
  BY TypeParts DEF Walk, TablesOK, HistoryOK, tables, history
<1>3. /\ seen' \in [Request -> SUBSET Group]
      /\ cursor' \in [Request -> Group \union {NoGroup}]
      /\ \A q \in Request \ {r} : seen'[q] = seen[q] /\ cursor'[q] = cursor[q]
  BY <1>1 DEF Walk, Exists, CallsOK, TablesOK
<1>4. Moves(r)
  BY DEF Walk, Moves, Step, Status
<1>5. pc'[r] = "walk" => cursor'[r] \in Group
  BY <1>1 DEF Walk, Exists, Go, Finish, CallsOK, TablesOK
<1>6. QED
  BY <1>1, <1>2, <1>3, <1>4, <1>5, ServeType DEF CallsOK

LEMMA CopyStays ==
    ASSUME TypeOK, UNCHANGED copy
    PROVE  /\ copy' \in [Request -> Group \union {NoGroup, Absent}]
           /\ \A q \in Request : copy'[q] = copy[q]
BY TypeParts DEF CallsOK

LEMMA StoreNewType ==
    ASSUME TypeOK, NEW r \in Request, StoreNew(r)
    PROVE  TypeOK' /\ OthersStay(r)
<1>1. TablesOK /\ CallsOK /\ HistoryOK /\ pc[r] \in Step
  BY TypeParts DEF StoreNew, Step
<1>2. call[r].to \in Group \union {NoGroup} /\ r \in Group
  BY <1>1, RunningCall DEF Group
<1>3. TablesOK' /\ HistoryOK'
  BY <1>1, <1>2 DEF StoreNew, TablesOK, HistoryOK, history
<1>4. Moves(r) /\ pc'[r] # "walk"
  BY <1>1 DEF StoreNew, Moves, Step, Status, Go, Finish, CallsOK
<1>5. QED
  BY <1>1, <1>3, <1>4, CopyStays, ServeType DEF StoreNew, CallsOK

LEMMA StoreParentType ==
    ASSUME TypeOK, NEW r \in Request, StoreParent(r)
    PROVE  TypeOK' /\ OthersStay(r)
<1>1. TablesOK /\ CallsOK /\ HistoryOK /\ pc[r] \in Step
  BY TypeParts DEF StoreParent, Step
<1>2. call[r].to \in Group \union {NoGroup} /\ call[r].group \in Group
  BY <1>1, RunningCall
<1>3. TablesOK' /\ HistoryOK'
  <2>1. HistoryOK'
    BY <1>1 DEF StoreParent, HistoryOK, history, Validating
  <2>2. TablesOK'
    BY <1>1, <1>2 DEF StoreParent, TablesOK
  <2>3. QED
    BY <2>1, <2>2
<1>4. Go(r, "refresh") \/ Finish(r, "conflict") \/ Finish(r, "failed")
  BY DEF StoreParent
<1>5. Moves(r) /\ pc'[r] # "walk"
  BY <1>1, <1>4 DEF Moves, Step, Status, Go, Finish, CallsOK
<1>6. QED
  BY <1>1, <1>3, <1>5, CopyStays, ServeType DEF StoreParent, CallsOK

LEMMA RemoveType ==
    ASSUME TypeOK, NEW r \in Request, Remove(r)
    PROVE  TypeOK' /\ OthersStay(r)
<1>1. TablesOK /\ CallsOK /\ HistoryOK /\ pc[r] \in Step
  BY TypeParts DEF Remove, Step
<1>2. TablesOK' /\ HistoryOK'
  BY <1>1 DEF Remove, TablesOK, HistoryOK, history
<1>3. Finish(r, "conflict") \/ Finish(r, "ok")
  BY DEF Remove
<1>4. Moves(r) /\ pc'[r] # "walk"
  BY <1>1, <1>3 DEF Moves, Status, Finish, CallsOK
<1>5. QED
  BY <1>1, <1>2, <1>4, CopyStays, ServeType DEF Remove, CallsOK

LEMMA StoreHomeType ==
    ASSUME TypeOK, NEW r \in Request, StoreHome(r)
    PROVE  TypeOK' /\ OthersStay(r)
<1>1. TablesOK /\ CallsOK /\ HistoryOK /\ pc[r] \in Step
  BY TypeParts DEF StoreHome, Step
<1>2. call[r].to \in Group
  BY <1>1, RunningCall DEF StoreHome
<1>3. TablesOK' /\ HistoryOK'
  BY <1>1, <1>2 DEF StoreHome, TablesOK, HistoryOK, history
<1>4. Go(r, "refresh") \/ Finish(r, "conflict")
  BY DEF StoreHome
<1>5. Moves(r) /\ pc'[r] # "walk"
  BY <1>1, <1>4 DEF Moves, Step, Status, Go, Finish, CallsOK
<1>6. QED
  BY <1>1, <1>3, <1>5, CopyStays, ServeType DEF StoreHome, CallsOK

LEMMA LookType ==
    ASSUME TypeOK, NEW r \in Request,
           Refresh(r) \/ LookForChildren(r) \/ LookForAccounts(r) \/ GetAgain(r)
             \/ FindGroup(r) \/ Abort(r)
    PROVE  TypeOK' /\ OthersStay(r)
<1>1. CallsOK /\ pc[r] \in Step
  BY TypeParts DEF Refresh, LookForChildren, LookForAccounts, GetAgain, FindGroup, Abort, Step
<1>2. UNCHANGED <<tables, call, seen, cursor, stored, history>>
  BY DEF Refresh, LookForChildren, LookForAccounts, GetAgain, FindGroup, Abort
<1>3. \/ Go(r, "accounts") \/ Go(r, "again") \/ Go(r, "remove") \/ Go(r, "store")
      \/ Finish(r, "ok") \/ Finish(r, "failed") \/ Finish(r, "conflict")
      \/ Finish(r, "missing") \/ Finish(r, "lost")
  BY DEF Refresh, LookForChildren, LookForAccounts, GetAgain, FindGroup, Abort
<1>4. Moves(r) /\ pc'[r] # "walk"
  <2>1. /\ {"accounts", "again", "remove", "store"} \subseteq Step
        /\ {"ok", "failed", "conflict", "missing", "lost"} \subseteq Status
    BY DEF Step, Status
  <2>2. Moves(r)
    BY <1>3, <2>1 DEF Moves
  <2>3. pc'[r] # "walk"
    BY <1>1, <1>3 DEF Go, Finish, CallsOK
  <2>4. QED
    BY <2>2, <2>3
<1>5. /\ copy' \in [Request -> Group \union {NoGroup, Absent}]
      /\ \A q \in Request \ {r} : copy'[q] = copy[q]
  <2>1. CASE LookForChildren(r)
    <3>1. call[r].group \in Group
      BY <1>1, RunningCall
    <3>2. QED
      BY <1>1, <2>1, <3>1 DEF LookForChildren, CallsOK
  <2>2. CASE UNCHANGED copy
    BY <2>2, CopyStays
  <2>3. QED
    BY <2>1, <2>2 DEF Refresh, LookForAccounts, GetAgain, FindGroup, Abort
<1>6. QED
  BY <1>1, <1>2, <1>4, <1>5, ReadType

LEMMA StepType ==
    ASSUME TypeOK, NEW r \in Request, Begin(r) \/ Serve(r) \/ Abort(r)
    PROVE  TypeOK' /\ OthersStay(r)
BY BeginType, LoadType, WalkType, StoreNewType, StoreParentType, RemoveType, StoreHomeType,
   LookType DEF Serve

LEMMA InitType == Init => TypeOK
<1> SUFFICES ASSUME Init PROVE TypeOK
  OBVIOUS
<1>2. /\ InitialParents \in [InitialGroup -> InitialGroup \union {NoGroup}]
      /\ InitialHomes \in [Account -> InitialGroup]
  BY GroupsAssumption
<1>3. parent \in [Group -> Group \union {NoGroup, Absent}]
  BY <1>2 DEF Init, Initially, Group
<1>4. home \in [Account -> Group]
  BY <1>2 DEF Init, Group
<1>5. QED
  BY <1>3, <1>4 DEF Init, TypeOK, Step, Status

\* Tables and calls stay well-formed: no walk starts from no group, and only a
\* reparenting or a creation walks at all.
THEOREM GroupsTypeCorrect == Spec => []TypeOK
<1>1. TypeOK /\ [Next]_vars => TypeOK'
  <2> SUFFICES ASSUME TypeOK, [Next]_vars PROVE TypeOK'
    OBVIOUS
  <2>1. CASE Next
    BY <2>1, StepType DEF Next
  <2>2. CASE UNCHANGED vars
    BY <2>2 DEF vars, tables, history, TypeOK, Exists
  <2>3. QED
    BY <2>1, <2>2
<1>2. QED
  BY <1>1, InitType, PTL DEF Spec

-----------------------------------------------------------------------------
(* What happens to the tables: one row, and one call at most that writes it. *)

TablesStay == UNCHANGED <<parent, home, stored, raced, skewed>>

AddsGroup(r) ==
    /\ pc[r] = "store" /\ call[r].op = "create" /\ ParentThere(call[r].to)
    /\ parent' = [parent EXCEPT ![r] = call[r].to]
    /\ stored' = stored \union {r}
    /\ UNCHANGED <<home, raced, skewed>>

MovesGroup(r) ==
    /\ pc[r] = "store" /\ call[r].op = "reparent"
    /\ Exists(call[r].group) /\ ParentThere(call[r].to)
    /\ parent' = [parent EXCEPT ![call[r].group] = call[r].to]
    /\ stored' = stored \union {r}
    /\ raced' = raced \union (Validating \ {r})
    /\ skewed' = (skewed \/ (r \in raced /\ call[r].to # NoGroup))
    /\ UNCHANGED home

RemovesGroup(r) ==
    /\ pc[r] = "remove" /\ ~Referenced(call[r].group)
    /\ parent' = [parent EXCEPT ![call[r].group] = Absent]
    /\ stored' = stored \union {r}
    /\ UNCHANGED <<home, raced, skewed>>

MovesHome(r) ==
    /\ pc[r] = "store" /\ call[r].op = "place" /\ Exists(call[r].to)
    /\ home' = [home EXCEPT ![call[r].account] = call[r].to]
    /\ stored' = stored \union {r}
    /\ UNCHANGED <<parent, raced, skewed>>

Reads(r) ==
    \/ Load(r) \/ Walk(r) \/ Refresh(r) \/ LookForChildren(r) \/ LookForAccounts(r)
    \/ GetAgain(r) \/ FindGroup(r) \/ Abort(r)

LEMMA ReadsKeepTables ==
    ASSUME NEW r \in Request, Begin(r) \/ Reads(r)
    PROVE  TablesStay
BY DEF Reads, Begin, Load, Walk, Refresh, LookForChildren, LookForAccounts, GetAgain,
       FindGroup, Abort, TablesStay, tables, history

LEMMA Writes ==
    ASSUME TypeOK, NEW r \in Request, Begin(r) \/ Serve(r) \/ Abort(r)
    PROVE  TablesStay \/ AddsGroup(r) \/ MovesGroup(r) \/ RemovesGroup(r) \/ MovesHome(r)
<1>1. CASE Begin(r) \/ Reads(r)
  BY <1>1, ReadsKeepTables
<1>2. CASE StoreNew(r)
  BY <1>2 DEF StoreNew, TablesStay, AddsGroup, history
<1>3. CASE StoreParent(r)
  BY <1>3 DEF StoreParent, TablesStay, MovesGroup, history
<1>4. CASE Remove(r)
  BY <1>4 DEF Remove, TablesStay, RemovesGroup, history
<1>5. CASE StoreHome(r)
  <2>1. call[r].to \in Group
    BY <1>5, RunningCall DEF StoreHome, Step
  <2>2. ParentThere(call[r].to) <=> Exists(call[r].to)
    BY <2>1, GroupsAssumption DEF ParentThere
  <2>3. QED
    BY <1>5, <2>2 DEF StoreHome, TablesStay, MovesHome, history
<1>6. QED
  BY <1>1, <1>2, <1>3, <1>4, <1>5 DEF Serve, Reads

LEMMA CallAtWrite ==
    ASSUME TypeOK, NEW r \in Request, pc[r] \in Step
    PROVE  /\ call[r].group \in Group /\ call[r].to \in Group \union {NoGroup}
           /\ call[r].account \in Account /\ r \in Group
           /\ call[r].op = "create" => call[r].group = r
BY RunningCall DEF Group

-----------------------------------------------------------------------------
(* References. *)

LEMMA StepReferences ==
    ASSUME TypeOK, ReferencesExist, NEW r \in Request, Begin(r) \/ Serve(r) \/ Abort(r)
    PROVE  ReferencesExist'
<1>1. TablesOK /\ TargetGroup \subseteq Group /\ NoGroup \notin Group /\ Absent \notin Group
  BY TypeParts, GroupsAssumption DEF Group
<1>2. CASE TablesStay
  BY <1>2 DEF TablesStay, ReferencesExist, Exists
<1>3. CASE AddsGroup(r)
  <2>1. r \in Group /\ call[r].to \in Group \union {NoGroup}
    BY <1>3, CallAtWrite DEF AddsGroup, Step
  <2>2. \A g \in Group : Exists(g) => Exists(g)'
    BY <1>1, <1>3, <2>1, GroupsAssumption DEF AddsGroup, Exists, TablesOK
  <2>3. \A g \in Group : parent'[g] = parent[g] \/ parent'[g] = call[r].to
    BY <1>1, <1>3, <2>1 DEF AddsGroup, TablesOK
  <2>4. QED
    BY <1>1, <1>3, <2>2, <2>3 DEF AddsGroup, ReferencesExist, ParentThere, TablesOK
<1>4. CASE MovesGroup(r)
  <2>1. call[r].group \in Group /\ call[r].to \in Group \union {NoGroup}
    BY <1>4, CallAtWrite DEF MovesGroup, Step
  <2>2. \A g \in Group : Exists(g) => Exists(g)'
    BY <1>1, <1>4, <2>1, GroupsAssumption DEF MovesGroup, Exists, TablesOK
  <2>3. \A g \in Group : parent'[g] = parent[g] \/ parent'[g] = call[r].to
    BY <1>1, <1>4, <2>1 DEF MovesGroup, TablesOK
  <2>4. QED
    BY <1>1, <1>4, <2>2, <2>3 DEF MovesGroup, ReferencesExist, ParentThere, TablesOK
<1>5. CASE RemovesGroup(r)
  <2>1. call[r].group \in Group
    BY <1>5, CallAtWrite DEF RemovesGroup, Step
  <2>2. \A g \in Group \ {call[r].group} : Exists(g) => Exists(g)'
    BY <1>1, <1>5, <2>1 DEF RemovesGroup, Exists, TablesOK
  <2>3. \A g \in Group : parent'[g] = parent[g] \/ parent'[g] = Absent
    BY <1>1, <1>5, <2>1 DEF RemovesGroup, TablesOK
  <2>4. /\ \A g \in Group : parent[g] # call[r].group
        /\ \A a \in Account : home[a] # call[r].group
        /\ call[r].group \notin TargetGroup
    BY <1>5 DEF RemovesGroup, Referenced, HasChild, HasAccount
  <2>5. QED
    BY <1>1, <1>5, <2>2, <2>3, <2>4 DEF RemovesGroup, ReferencesExist, TablesOK
<1>6. CASE MovesHome(r)
  <2>1. call[r].account \in Account /\ call[r].to \in Group \union {NoGroup}
    BY <1>6, CallAtWrite DEF MovesHome, Step
  <2>2. \A a \in Account : home'[a] = home[a] \/ home'[a] = call[r].to
    BY <1>1, <1>6, <2>1 DEF MovesHome, TablesOK
  <2>3. QED
    BY <1>1, <1>6, <2>2 DEF MovesHome, ReferencesExist, Exists
<1>7. QED
  BY <1>2, <1>3, <1>4, <1>5, <1>6, Writes

LEMMA InitReferences == Init => ReferencesExist
<1> SUFFICES ASSUME Init PROVE ReferencesExist
  OBVIOUS
<1>1. /\ NoGroup \notin Group /\ Absent \notin Group /\ NoGroup # Absent
      /\ InitialParents \in [InitialGroup -> InitialGroup \union {NoGroup}]
      /\ InitialHomes \in [Account -> InitialGroup]
      /\ TargetGroup \subseteq InitialGroup /\ InitialGroup \subseteq Group
  BY GroupsAssumption DEF Group
<1>2. \A g \in InitialGroup : parent[g] = InitialParents[g] /\ Exists(g)
  BY <1>1 DEF Init, Initially, Exists
<1>3. \A g \in Group : parent[g] \in Group => parent[g] \in InitialGroup
  BY <1>1 DEF Init, Initially
<1>4. QED
  BY <1>1, <1>2, <1>3 DEF Init, ReferencesExist

\* No order of creations, deletions, moves and lost answers leaves a reference to a
\* group that is gone.
THEOREM GroupReferencesExist == Spec => []ReferencesExist
<1>1. TypeOK /\ ReferencesExist /\ [Next]_vars => ReferencesExist'
  <2> SUFFICES ASSUME TypeOK, ReferencesExist, [Next]_vars PROVE ReferencesExist'
    OBVIOUS
  <2>1. CASE Next
    BY <2>1, StepReferences DEF Next
  <2>2. CASE UNCHANGED vars
    BY <2>2 DEF vars, tables, ReferencesExist, Exists
  <2>3. QED
    BY <2>1, <2>2
<1>2. QED
  BY <1>1, InitReferences, GroupsTypeCorrect, PTL DEF Spec

-----------------------------------------------------------------------------
(* Forests. *)

LEMMA ForestGrows ==
    ASSUME NEW p \in [Group -> Group \union {NoGroup, Absent}], Acyclic(p),
           NEW g \in Group, NEW to \in Group \union {NoGroup, Absent}, to # g,
           \A h \in Group : p[h] # g, NoGroup \notin Group, Absent \notin Group
    PROVE  Acyclic([p EXCEPT ![g] = to])
<1> DEFINE q == [p EXCEPT ![g] = to]
<1> SUFFICES ASSUME NEW S \in (SUBSET Group) \ {{}} PROVE \E h \in S : q[h] \notin S
  BY DEF Acyclic
<1>1. \A h \in Group \ {g} : q[h] = p[h]
  OBVIOUS
<1>2. q[g] = to
  OBVIOUS
<1> HIDE DEF q
<1>3. CASE S = {g}
  BY <1>2, <1>3
<1>4. CASE S # {g}
  <2>1. S \ {g} \in (SUBSET Group) \ {{}}
    BY <1>4
  <2>2. PICK h \in S \ {g} : p[h] \notin S \ {g}
    BY <2>1 DEF Acyclic
  <2>3. QED
    BY <2>2, <1>1
<1>5. QED
  BY <1>3, <1>4

LEMMA ForestCut ==
    ASSUME NEW p \in [Group -> Group \union {NoGroup, Absent}], Acyclic(p),
           NEW g \in Group, NEW to \in {NoGroup, Absent},
           NoGroup \notin Group, Absent \notin Group
    PROVE  Acyclic([p EXCEPT ![g] = to])
<1> DEFINE q == [p EXCEPT ![g] = to]
<1> SUFFICES ASSUME NEW S \in (SUBSET Group) \ {{}} PROVE \E h \in S : q[h] \notin S
  BY DEF Acyclic
<1>1. PICK h \in S : p[h] \notin S
  BY DEF Acyclic
<1>2. q[h] = p[h] \/ q[h] \in {NoGroup, Absent}
  OBVIOUS
<1>3. QED
  BY <1>1, <1>2

\* A group may move under the first of a set of groups that does not hold it and
\* that no parent leads out of: a loop through the new edge would stay in that set.
LEMMA ForestMoves ==
    ASSUME NEW p \in [Group -> Group \union {NoGroup, Absent}], Acyclic(p),
           NEW g \in Group, NEW W \in SUBSET Group, NEW to \in W, g \notin W,
           \A w \in W : p[w] \in W \union {NoGroup, Absent},
           NoGroup \notin Group, Absent \notin Group
    PROVE  Acyclic([p EXCEPT ![g] = to])
<1> DEFINE q == [p EXCEPT ![g] = to]
<1> SUFFICES ASSUME NEW S \in (SUBSET Group) \ {{}}, \A h \in S : q[h] \in S PROVE FALSE
  BY DEF Acyclic
<1>1. (\A h \in Group \ {g} : q[h] = p[h]) /\ q[g] = to
  OBVIOUS
<1> HIDE DEF q
<1>2. g \in S
  <2>1. PICK h \in S : p[h] \notin S
    BY DEF Acyclic
  <2>2. QED
    BY <2>1, <1>1
<1>3. S \intersect W \in (SUBSET Group) \ {{}}
  BY <1>1, <1>2
<1>4. PICK h \in S \intersect W : p[h] \notin S \intersect W
  BY <1>3 DEF Acyclic
<1>5. q[h] = p[h] /\ p[h] \in S
  BY <1>1, <1>4
<1>6. QED
  BY <1>4, <1>5

-----------------------------------------------------------------------------
(* What a call has done and knows at each of its steps. *)

\* A group named after a call is there, or has been, once the call has written.
Known(g) == g \in Request => g \in stored

BornByWriting == \A r \in Request : r \notin stored => ~Exists(r)

CallOK(r) ==
    /\ pc[r] \notin {"refresh", "done"} => r \notin stored
    /\ pc[r] \in {"idle", "load"} => seen[r] = {}
    /\ pc[r] # "done" => answer[r] = "none"
    /\ pc[r] = "group" => call[r].op = "place"
    /\ pc[r] = "refresh" => call[r].op # "delete"
    /\ pc[r] = "refresh" /\ call[r].op = "create" => r \in stored
    /\ answer[r] \in {"missing", "conflict", "descendant", "cycle"} => r \notin stored
    /\ answer[r] = "ok" /\ call[r].op = "create" => r \in stored
    /\ pc[r] \in {"children", "accounts", "again", "remove"} => Known(call[r].group)
    /\ answer[r] = "ok" /\ call[r].op = "delete" =>
          call[r].group \in Group /\ Known(call[r].group) /\ ~Exists(call[r].group)
    /\ \A w \in seen[r] : Known(w)

\* While no reparenting overtakes it, a walk has passed groups whose parents it has
\* passed as well or comes to next, the parent asked for first and never the group.
WalkOK(r) ==
    ~skewed /\ r \notin raced /\ call[r].op \in {"create", "reparent"} =>
        /\ pc[r] = "walk" =>
              /\ call[r].group \notin seen[r]
              /\ cursor[r] \notin seen[r]
              /\ seen[r] = {} => cursor[r] = call[r].to
              /\ seen[r] # {} => call[r].to \in seen[r]
              /\ \A w \in seen[r] : Exists(w) => parent[w] \in seen[r] \union {cursor[r]}
        /\ pc[r] = "store" /\ call[r].to # NoGroup =>
              /\ call[r].group \notin seen[r]
              /\ call[r].to \in seen[r]
              /\ \A w \in seen[r] : Exists(w) => parent[w] \in seen[r] \union {NoGroup}

CycleTold(r) == answer[r] = "cycle" => skewed \/ r \in raced

Sound ==
    /\ TypeOK
    /\ ReferencesExist
    /\ BornByWriting
    /\ CyclesOnlyFromOverlap
    /\ \A r \in Request : CallOK(r) /\ WalkOK(r) /\ CycleTold(r)

LEMMA ForestStep ==
    ASSUME Sound, NEW r \in Request, Begin(r) \/ Serve(r) \/ Abort(r)
    PROVE  CyclesOnlyFromOverlap'
<1>1. /\ TypeOK /\ TablesOK /\ HistoryOK /\ CallsOK
      /\ NoGroup \notin Group /\ Absent \notin Group /\ NoGroup # Absent
  BY TypeParts, GroupsAssumption DEF Sound
<1>2. parent \in [Group -> Group \union {NoGroup, Absent}]
  BY <1>1 DEF TablesOK
<1>3. CASE UNCHANGED <<parent, skewed>>
  BY <1>3 DEF Sound, CyclesOnlyFromOverlap
<1>4. CASE AddsGroup(r)
  <2>1. r \in Group /\ call[r].to \in Group \union {NoGroup}
    BY <1>1, <1>4, CallAtWrite DEF AddsGroup, Step
  <2>2. r \notin stored /\ ~Exists(r)
    BY <1>4 DEF AddsGroup, Sound, CallOK, BornByWriting
  <2>3. /\ \A h \in Group : parent[h] # r
        /\ call[r].to # r
    BY <1>1, <1>4, <2>1, <2>2 DEF AddsGroup, Sound, ReferencesExist, ParentThere
  <2>4. ~skewed => Acyclic(parent')
    BY <1>1, <1>2, <1>4, <2>1, <2>3, ForestGrows DEF AddsGroup, Sound, CyclesOnlyFromOverlap
  <2>5. QED
    BY <1>4, <2>4 DEF AddsGroup, CyclesOnlyFromOverlap, Acyclic
<1>5. CASE MovesGroup(r)
  <2>1. call[r].group \in Group /\ call[r].to \in Group \union {NoGroup}
    BY <1>1, <1>5, CallAtWrite DEF MovesGroup, Step
  <2> SUFFICES ASSUME ~skewed' PROVE Acyclic(parent')
    BY DEF CyclesOnlyFromOverlap, Acyclic
  <2>2. ~skewed /\ (call[r].to = NoGroup \/ r \notin raced) /\ Acyclic(parent)
    BY <1>5 DEF MovesGroup, Sound, CyclesOnlyFromOverlap
  <2>3. CASE call[r].to = NoGroup
    BY <1>1, <1>2, <1>5, <2>1, <2>2, <2>3, ForestCut DEF MovesGroup
  <2>4. CASE call[r].to # NoGroup
    <3>1. /\ call[r].group \notin seen[r]
          /\ call[r].to \in seen[r]
          /\ \A w \in seen[r] : Exists(w) => parent[w] \in seen[r] \union {NoGroup}
      BY <1>5, <2>2, <2>4 DEF MovesGroup, Sound, WalkOK
    <3>2. seen[r] \in SUBSET Group
      BY <1>1 DEF CallsOK
    <3>3. \A w \in seen[r] : parent[w] \in seen[r] \union {NoGroup, Absent}
      BY <3>1 DEF Exists
    <3>4. QED
      BY <1>1, <1>2, <1>5, <2>1, <2>2, <3>1, <3>2, <3>3, ForestMoves DEF MovesGroup
  <2>5. QED
    BY <2>3, <2>4
<1>6. CASE RemovesGroup(r)
  <2>1. call[r].group \in Group
    BY <1>1, <1>6, CallAtWrite DEF RemovesGroup, Step
  <2>2. ~skewed => Acyclic(parent')
    BY <1>1, <1>2, <1>6, <2>1, ForestCut DEF RemovesGroup, Sound, CyclesOnlyFromOverlap
  <2>3. QED
    BY <1>6, <2>2 DEF RemovesGroup, CyclesOnlyFromOverlap, Acyclic
<1>7. QED
  BY <1>1, <1>3, <1>4, <1>5, <1>6, Writes DEF TablesStay, MovesHome

-----------------------------------------------------------------------------
(* The calls that do not move. *)

\* Rows appear under the name of the writing call, and change only by its hand.
LEMMA TablesMove ==
    ASSUME Sound, NEW r \in Request, Begin(r) \/ Serve(r) \/ Abort(r)
    PROVE  /\ stored \subseteq stored' /\ stored' \subseteq stored \union {r}
           /\ raced \subseteq raced' /\ (skewed => skewed')
           /\ BornByWriting'
           /\ \A g \in Group : ~Exists(g) /\ Known(g) => ~Exists(g)'
           /\ (\A g \in Group : Exists(g)' /\ Known(g) => Exists(g) /\ parent'[g] = parent[g])
                \/ (\A q \in Request \ {r} : pc[q] \in {"walk", "store"}
                       /\ call[q].op \in {"create", "reparent"} => q \in raced')
<1>1. /\ TypeOK /\ TablesOK /\ HistoryOK /\ CallsOK
      /\ NoGroup \notin Group /\ Absent \notin Group /\ NoGroup # Absent
  BY TypeParts, GroupsAssumption DEF Sound
<1>2. CASE TablesStay
  BY <1>2 DEF TablesStay, Sound, BornByWriting, Exists, Known
<1>3. CASE AddsGroup(r)
  <2>1. r \in Group /\ r \notin stored
    BY <1>1, <1>3, CallAtWrite DEF AddsGroup, Step, Sound, CallOK
  <2>2. \A g \in Group \ {r} : parent'[g] = parent[g]
    BY <1>1, <1>3, <2>1 DEF AddsGroup, TablesOK
  <2>3. ~Known(r) /\ r \in stored'
    BY <1>3, <2>1 DEF AddsGroup, Known
  <2>4. BornByWriting'
    BY <1>3, <2>2 DEF AddsGroup, BornByWriting, Sound, Exists, Group
  <2>5. QED
    BY <1>3, <2>2, <2>3, <2>4 DEF AddsGroup, Exists
<1>4. CASE MovesGroup(r)
  <2>1. call[r].group \in Group
    BY <1>1, <1>4, CallAtWrite DEF MovesGroup, Step
  <2>2. \A g \in Group \ {call[r].group} : parent'[g] = parent[g]
    BY <1>1, <1>4, <2>1 DEF MovesGroup, TablesOK
  <2>3. Exists(call[r].group)
    BY <1>4 DEF MovesGroup
  <2>4. \A g \in Group : ~Exists(g) => ~Exists(g)'
    BY <2>2, <2>3 DEF Exists
  <2>5. BornByWriting'
    BY <1>4, <2>4 DEF MovesGroup, BornByWriting, Sound, Group
  <2>6. \A q \in Request \ {r} : pc[q] \in {"walk", "store"}
                       /\ call[q].op \in {"create", "reparent"} => q \in raced'
    BY <1>4 DEF MovesGroup, Validating
  <2>7. QED
    BY <1>4, <2>4, <2>5, <2>6 DEF MovesGroup
<1>5. CASE RemovesGroup(r)
  <2>1. call[r].group \in Group
    BY <1>1, <1>5, CallAtWrite DEF RemovesGroup, Step
  <2>2. (\A g \in Group \ {call[r].group} : parent'[g] = parent[g])
        /\ parent'[call[r].group] = Absent
    BY <1>1, <1>5, <2>1 DEF RemovesGroup, TablesOK, Exists
  <2>3. \A g \in Group : Exists(g)' => Exists(g) /\ parent'[g] = parent[g]
    BY <2>2 DEF Exists
  <2>4. BornByWriting'
    BY <1>5, <2>3 DEF RemovesGroup, BornByWriting, Sound, Group
  <2>5. QED
    BY <1>5, <2>3, <2>4 DEF RemovesGroup
<1>6. CASE MovesHome(r)
  BY <1>6 DEF MovesHome, Sound, BornByWriting, Exists, Known
<1>7. QED
  BY <1>1, <1>2, <1>3, <1>4, <1>5, <1>6, Writes

LEMMA OthersKeep ==
    ASSUME Sound, NEW r \in Request, Begin(r) \/ Serve(r) \/ Abort(r),
           NEW q \in Request \ {r}
    PROVE  CallOK(q)' /\ WalkOK(q)' /\ CycleTold(q)'
<1>1. TypeOK /\ CallsOK /\ CallOK(q) /\ WalkOK(q) /\ CycleTold(q)
  BY TypeParts DEF Sound
<1>2. /\ pc'[q] = pc[q] /\ call'[q] = call[q] /\ copy'[q] = copy[q]
      /\ seen'[q] = seen[q] /\ cursor'[q] = cursor[q] /\ answer'[q] = answer[q]
  BY <1>1, StepType DEF OthersStay
<1>3. /\ stored \subseteq stored' /\ stored' \subseteq stored \union {r}
      /\ raced \subseteq raced' /\ (skewed => skewed')
      /\ \A g \in Group : ~Exists(g) /\ Known(g) => ~Exists(g)'
  BY TablesMove
<1>4. \A g : Known(g) => Known(g)'
  BY <1>3 DEF Known
<1>5. CallOK(q)'
  <2>1. seen[q] \in SUBSET Group
    BY <1>1 DEF CallsOK
  <2>2. q # r
    OBVIOUS
  <2>3. q \in stored' <=> q \in stored
    BY <1>3
  <2>4. \A w \in seen[q] : Known(w) => Known(w)'
    BY <1>4
  <2>5. Known(call[q].group) => (call[q].group \in Request => call[q].group \in stored')
    BY <1>3 DEF Known
  <2>6. answer[q] = "ok" /\ call[q].op = "delete" => parent'[call[q].group] = Absent
    BY <1>1, <1>3 DEF CallOK, Exists
  <2>7. QED
    BY <1>1, <1>2, <1>4, <2>3, <2>4, <2>5, <2>6 DEF CallOK, Known, Exists
<1>6. WalkOK(q)'
  <2> SUFFICES ASSUME ~skewed', q \notin raced', call[q].op \in {"create", "reparent"},
                      pc[q] \in {"walk", "store"}
               PROVE  WalkOK(q)'
    BY <1>2 DEF WalkOK
  <2>1. ~skewed /\ q \notin raced
    BY <1>3
  <2>2. \A g \in Group : Exists(g)' /\ Known(g) => Exists(g) /\ parent'[g] = parent[g]
    BY TablesMove
  <2>3. \A w \in seen[q] : w \in Group /\ Known(w)
    BY <1>1 DEF CallsOK, CallOK
  <2>4. \A w \in seen[q] : Exists(w)' => Exists(w) /\ parent'[w] = parent[w]
    BY <2>2, <2>3
  <2>5. QED
    BY <1>1, <1>2, <2>1, <2>4 DEF WalkOK
<1>7. CycleTold(q)'
  BY <1>1, <1>2, <1>3 DEF CycleTold
<1>8. QED
  BY <1>5, <1>6, <1>7

-----------------------------------------------------------------------------
(* The call that moves. *)

LEMMA BeginKeeps ==
    ASSUME Sound, NEW r \in Request, Begin(r)
    PROVE  CallOK(r)' /\ WalkOK(r)' /\ CycleTold(r)'
<1>1. TypeOK /\ CallsOK /\ CallOK(r) /\ CallsOK'
  BY TypeParts, BeginType DEF Sound, TypeOK, CallsOK, PC
<1>2. pc[r] = "idle" /\ seen[r] = {} /\ answer[r] = "none" /\ r \notin stored
  BY <1>1 DEF Begin, CallOK
<1>3. UNCHANGED <<seen, stored, answer>>
  BY DEF Begin, Go, StartWalk
<1>4. PICK o \in Offered :
         /\ call' = [call EXCEPT ![r] = IF o.op = "create" THEN Creation(r, o) ELSE o]
         /\ IF o.op = "create" THEN StartWalk(r, o.to)
            ELSE Go(r, "load") /\ UNCHANGED cursor
  BY DEF Begin
<1>5. o \in Call /\ o.to \in Group \union {NoGroup}
  BY GroupsAssumption, CallTypes
<1>6. call'[r].to = o.to
  BY <1>1, <1>4, <1>5, CreationType DEF CallsOK
<1>7. \/ pc'[r] = "load"
      \/ pc'[r] = "store" /\ call'[r].to = NoGroup
      \/ pc'[r] = "walk" /\ cursor'[r] = call'[r].to
  <2>1. CASE o.op = "create"
    <3>1. StartWalk(r, o.to)
      BY <1>4, <2>1
    <3>2. (pc'[r] = IF o.to = NoGroup THEN "store" ELSE "walk") /\ cursor'[r] = o.to
      BY <1>1, <1>5, <3>1, StartWalkType
    <3>3. QED
      BY <3>2, <1>6
  <2>2. CASE o.op # "create"
    BY <1>1, <1>4, <2>2 DEF Go, CallsOK
  <2>3. QED
    BY <2>1, <2>2
<1>8. seen'[r] = {} /\ answer'[r] = "none" /\ r \notin stored'
  BY <1>2, <1>3
<1>9. CallOK(r)'
  BY <1>7, <1>8 DEF CallOK
<1>10. WalkOK(r)'
  BY <1>7, <1>8 DEF WalkOK
<1>11. CycleTold(r)'
  BY <1>8 DEF CycleTold
<1>12. QED
  BY <1>9, <1>10, <1>11

LEMMA LoadKeeps ==
    ASSUME Sound, NEW r \in Request, Load(r)
    PROVE  CallOK(r)' /\ WalkOK(r)' /\ CycleTold(r)'
<1>1. TypeOK /\ CallsOK /\ CallOK(r) /\ BornByWriting
  BY TypeParts DEF Sound
<1>2. /\ pc[r] = "load" /\ seen[r] = {} /\ answer[r] = "none" /\ r \notin stored
      /\ UNCHANGED <<seen, stored, call>>
  BY <1>1 DEF Load, CallOK
<1>3. call[r].group \in Group /\ call[r].to \in Group \union {NoGroup}
  BY <1>1, <1>2, CallAtWrite DEF Step
<1>4. \/ pc'[r] = "group" /\ answer'[r] = "none" /\ call[r].op = "place"
      \/ pc'[r] = "done" /\ answer'[r] \in {"missing", "conflict"}
      \/ pc'[r] = "children" /\ answer'[r] = "none" /\ Exists(call[r].group)
      \/ StartWalk(r, call[r].to)
  BY <1>1, <1>2 DEF Load, Go, Finish, CallsOK
<1>5. StartWalk(r, call[r].to) =>
         /\ answer'[r] = "none"
         /\ \/ pc'[r] = "store" /\ call[r].to = NoGroup
            \/ pc'[r] = "walk" /\ cursor'[r] = call[r].to
  <2> SUFFICES ASSUME StartWalk(r, call[r].to)
               PROVE  /\ answer'[r] = "none"
                      /\ \/ pc'[r] = "store" /\ call[r].to = NoGroup
                         \/ pc'[r] = "walk" /\ cursor'[r] = call[r].to
    OBVIOUS
  <2>1. /\ (pc'[r] = IF call[r].to = NoGroup THEN "store" ELSE "walk")
        /\ cursor'[r] = call[r].to /\ answer'[r] = answer[r]
    BY <1>1, <1>3, StartWalkType
  <2>2. QED
    BY <2>1, <1>2
<1>6. pc'[r] = "children" => Known(call[r].group)
  BY <1>1, <1>2, <1>4, <1>5 DEF BornByWriting, Known
<1>7. CallOK(r)'
  BY <1>2, <1>4, <1>5, <1>6 DEF CallOK, Known
<1>8. WalkOK(r)'
  BY <1>2, <1>4, <1>5 DEF WalkOK
<1>9. CycleTold(r)'
  BY <1>4, <1>5 DEF CycleTold
<1>10. QED
  BY <1>7, <1>8, <1>9

LEMMA WalkKeeps ==
    ASSUME Sound, NEW r \in Request, Walk(r)
    PROVE  CallOK(r)' /\ WalkOK(r)' /\ CycleTold(r)'
<1> DEFINE c == cursor[r]
<1>1. /\ TypeOK /\ CallsOK /\ CallOK(r) /\ WalkOK(r) /\ ReferencesExist /\ BornByWriting
      /\ TablesOK /\ CyclesOnlyFromOverlap
      /\ NoGroup \notin Group /\ Absent \notin Group /\ NoGroup # Absent
  BY TypeParts, GroupsAssumption DEF Sound
<1>2. /\ pc[r] = "walk" /\ answer[r] = "none" /\ r \notin stored /\ c \in Group
      /\ call[r].op \in {"create", "reparent"}
      /\ UNCHANGED <<parent, call, stored, raced, skewed>>
  BY <1>1, TypeParts DEF Walk, CallOK, RequestOK, tables, history
<1>3. seen[r] \in SUBSET Group /\ call[r].to \in Group \union {NoGroup}
  BY <1>1, <1>2, RunningCall DEF CallsOK, Step
<1>4. CASE pc'[r] = "done"
  <2>1. /\ seen'[r] = seen[r]
        /\ answer'[r] \in {"cycle", "descendant", "missing"}
        /\ answer'[r] = "cycle" => c \in seen[r]
    BY <1>1, <1>2, <1>4 DEF Walk, Go, Finish, CallsOK
  <2>2. CallOK(r)'
    BY <1>1, <1>2, <1>4, <2>1 DEF CallOK, Known
  <2>3. CycleTold(r)'
    BY <1>1, <1>2, <2>1 DEF CycleTold, WalkOK
  <2>4. QED
    BY <1>4, <2>2, <2>3 DEF WalkOK
<1>5. CASE pc'[r] # "done" /\ Exists(c)
  <2>1. /\ c \notin seen[r] /\ c # call[r].group
        /\ seen'[r] = seen[r] \union {c} /\ answer'[r] = "none"
        /\ parent[c] = NoGroup => pc'[r] = "store"
        /\ parent[c] # NoGroup => pc'[r] = "walk" /\ cursor'[r] = parent[c]
    BY <1>1, <1>2, <1>5 DEF Walk, Go, Finish, CallsOK
  <2>2. pc'[r] \in {"walk", "store"}
    BY <2>1
  <2>3. Known(c)
    BY <1>1, <1>5 DEF BornByWriting, Known
  <2>4. CallOK(r)'
    BY <1>1, <1>2, <2>1, <2>2, <2>3 DEF CallOK, Known
  <2>5. CycleTold(r)'
    BY <2>1 DEF CycleTold
  <2>6. WalkOK(r)'
    <3> SUFFICES ASSUME ~skewed, r \notin raced PROVE WalkOK(r)'
      BY <1>2 DEF WalkOK
    <3>1. /\ call[r].group \notin seen[r]
          /\ seen[r] = {} => c = call[r].to
          /\ seen[r] # {} => call[r].to \in seen[r]
          /\ \A w \in seen[r] : Exists(w) => parent[w] \in seen[r] \union {c}
      BY <1>1, <1>2 DEF WalkOK
    <3>2. call[r].group \notin seen'[r] /\ call[r].to \in seen'[r] /\ seen'[r] # {}
      BY <2>1, <3>1
    <3>3. \A w \in seen'[r] : Exists(w) => parent[w] \in seen'[r] \union {parent[c]}
      BY <2>1, <3>1
    <3>4. parent[c] # NoGroup => parent[c] \notin seen'[r]
      <4> SUFFICES ASSUME parent[c] # NoGroup, parent[c] \in seen'[r] PROVE FALSE
        OBVIOUS
      <4> DEFINE T == {w \in seen'[r] : Exists(w)}
      <4>1. T \in (SUBSET Group) \ {{}}
        BY <1>2, <1>3, <1>5, <2>1
      <4>2. \A w \in T : parent[w] \in seen'[r] /\ parent[w] \in Group
        BY <3>3, <2>1, <1>2, <1>3
      <4>3. \A w \in T : Exists(parent[w])
        BY <1>1, <4>1, <4>2 DEF ReferencesExist
      <4>4. \A w \in T : parent[w] \in T
        BY <4>2, <4>3
      <4>5. QED
        BY <1>1, <4>1, <4>4 DEF CyclesOnlyFromOverlap, Acyclic
    <3>5. \A w \in seen'[r] : Exists(w)' => Exists(w)
      BY <1>2 DEF Exists
    <3>6. QED
      BY <1>2, <2>1, <2>2, <3>2, <3>3, <3>4, <3>5 DEF WalkOK, Exists
  <2>7. QED
    BY <2>4, <2>5, <2>6
<1>6. CASE pc'[r] # "done" /\ ~Exists(c)
  <2>1. pc'[r] = "store" /\ seen[r] # {} /\ seen'[r] = seen[r] /\ answer'[r] = "none"
    BY <1>1, <1>2, <1>6 DEF Walk, Go, Finish, CallsOK
  <2>2. CallOK(r)'
    BY <1>1, <1>2, <2>1 DEF CallOK, Known
  <2>3. WalkOK(r)'
    <3> SUFFICES ASSUME ~skewed, r \notin raced PROVE WalkOK(r)'
      BY <1>2 DEF WalkOK
    <3>1. /\ call[r].group \notin seen[r] /\ call[r].to \in seen[r]
          /\ \A w \in seen[r] : Exists(w) => parent[w] \in seen[r] \union {c}
      BY <1>1, <1>2, <2>1 DEF WalkOK
    <3>2. \A w \in seen[r] : Exists(w) => parent[w] \in seen[r]
      BY <1>1, <1>2, <1>3, <1>6, <3>1 DEF ReferencesExist
    <3>3. QED
      BY <1>2, <2>1, <3>1, <3>2 DEF WalkOK, Exists
  <2>4. QED
    BY <2>1, <2>2, <2>3 DEF CycleTold
<1>7. QED
  BY <1>4, <1>5, <1>6

\* Past its walk a call needs no more of it.
LEMMA PastWalk ==
    ASSUME NEW r \in Request, pc'[r] \notin {"walk", "store"}, answer'[r] # "cycle"
    PROVE  WalkOK(r)' /\ CycleTold(r)'
BY DEF WalkOK, CycleTold

LEMMA StoreKeeps ==
    ASSUME Sound, NEW r \in Request, StoreNew(r) \/ StoreParent(r) \/ StoreHome(r)
    PROVE  CallOK(r)' /\ WalkOK(r)' /\ CycleTold(r)'
<1>1. TypeOK /\ CallsOK /\ CallOK(r) /\ TablesOK
  BY TypeParts DEF Sound
<1>2. /\ pc[r] = "store" /\ r \notin stored /\ answer[r] = "none"
      /\ call[r].op \in {"create", "reparent", "place"} /\ UNCHANGED <<call, seen>>
  BY <1>1 DEF StoreNew, StoreParent, StoreHome, CallOK
<1>3. \/ pc'[r] = "refresh" /\ answer'[r] = "none"
           /\ (call[r].op = "create" => r \in stored')
      \/ pc'[r] = "done" /\ answer'[r] \in {"conflict", "failed"} /\ stored' = stored
  BY <1>1, <1>2 DEF StoreNew, StoreParent, StoreHome, Go, Finish, CallsOK
<1>4. stored \subseteq stored'
  BY DEF StoreNew, StoreParent, StoreHome
<1>5. CallOK(r)'
  BY <1>1, <1>2, <1>3, <1>4 DEF CallOK, Known
<1>6. QED
  BY <1>3, <1>5, PastWalk

LEMMA RemoveKeeps ==
    ASSUME Sound, NEW r \in Request, Remove(r)
    PROVE  CallOK(r)' /\ WalkOK(r)' /\ CycleTold(r)'
<1>1. TypeOK /\ CallsOK /\ CallOK(r) /\ TablesOK
  BY TypeParts DEF Sound
<1>2. /\ pc[r] = "remove" /\ r \notin stored /\ Known(call[r].group)
      /\ UNCHANGED <<call, seen>>
  BY <1>1 DEF Remove, CallOK
<1>3. call[r].group \in Group
  BY <1>1, <1>2, CallAtWrite DEF Step
<1>4. \/ pc'[r] = "done" /\ answer'[r] = "conflict" /\ stored' = stored
      \/ pc'[r] = "done" /\ answer'[r] = "ok" /\ parent'[call[r].group] = Absent
           /\ stored' = stored \union {r}
  BY <1>1, <1>3 DEF Remove, Finish, CallsOK, TablesOK
<1>5. CallOK(r)'
  BY <1>1, <1>2, <1>3, <1>4 DEF CallOK, Known, Exists
<1>6. QED
  BY <1>4, <1>5, PastWalk

LEMMA LookKeeps ==
    ASSUME Sound, NEW r \in Request,
           Refresh(r) \/ LookForChildren(r) \/ LookForAccounts(r) \/ GetAgain(r)
             \/ FindGroup(r) \/ Abort(r)
    PROVE  CallOK(r)' /\ WalkOK(r)' /\ CycleTold(r)'
<1>1. TypeOK /\ CallsOK /\ CallOK(r) /\ WalkOK(r)
  BY TypeParts DEF Sound
<1>2. UNCHANGED <<parent, call, seen, stored>>
  BY DEF Refresh, LookForChildren, LookForAccounts, GetAgain, FindGroup, Abort, tables
<1>3. CASE Refresh(r)
  <2>1. /\ pc[r] = "refresh" /\ pc'[r] = "done" /\ answer'[r] \in {"ok", "failed"}
    BY <1>1, <1>3 DEF Refresh, Finish, CallsOK
  <2>2. CallOK(r)'
    BY <1>1, <1>2, <2>1 DEF CallOK, Known
  <2>3. QED
    BY <2>1, <2>2, PastWalk
<1>4. CASE Abort(r)
  <2>1. pc[r] \in Step /\ pc'[r] = "done" /\ answer'[r] = "lost"
    BY <1>1, <1>4 DEF Abort, Finish, CallsOK
  <2>2. CallOK(r)'
    BY <1>1, <1>2, <2>1 DEF CallOK, Known
  <2>3. QED
    BY <2>1, <2>2, PastWalk
<1>5. CASE LookForChildren(r) \/ LookForAccounts(r) \/ GetAgain(r)
  <2>1. /\ pc[r] \in {"children", "accounts", "again"}
        /\ \/ pc'[r] \in {"accounts", "again", "remove"} /\ answer'[r] = answer[r]
           \/ pc'[r] = "done" /\ answer'[r] \in {"conflict", "missing"}
    BY <1>1, <1>5 DEF LookForChildren, LookForAccounts, GetAgain, Go, Finish, CallsOK
  <2>2. CallOK(r)'
    BY <1>1, <1>2, <2>1 DEF CallOK, Known
  <2>3. answer[r] = "none"
    BY <1>1, <2>1 DEF CallOK
  <2>4. QED
    BY <2>1, <2>2, <2>3, PastWalk
<1>6. CASE FindGroup(r)
  <2>1. /\ pc[r] = "group" /\ call[r].op = "place" /\ answer[r] = "none"
    BY <1>1, <1>6 DEF FindGroup, CallOK
  <2>2. \/ pc'[r] = "store" /\ answer'[r] = "none"
        \/ pc'[r] = "done" /\ answer'[r] = "missing"
    BY <1>1, <1>6, <2>1 DEF FindGroup, Go, Finish, CallsOK
  <2>3. CallOK(r)'
    BY <1>1, <1>2, <2>1, <2>2 DEF CallOK, Known
  <2>4. QED
    BY <1>2, <2>1, <2>2, <2>3 DEF WalkOK, CycleTold
<1>7. QED
  BY <1>3, <1>4, <1>5, <1>6

LEMMA MoverKeeps ==
    ASSUME Sound, NEW r \in Request, Begin(r) \/ Serve(r) \/ Abort(r)
    PROVE  CallOK(r)' /\ WalkOK(r)' /\ CycleTold(r)'
BY BeginKeeps, LoadKeeps, WalkKeeps, StoreKeeps, RemoveKeeps, LookKeeps DEF Serve

LEMMA StepSound ==
    ASSUME Sound, NEW r \in Request, Begin(r) \/ Serve(r) \/ Abort(r)
    PROVE  Sound'
<1>1. TypeOK'
  BY StepType DEF Sound
<1>2. ReferencesExist'
  BY StepReferences DEF Sound
<1>3. BornByWriting'
  BY TablesMove
<1>4. CyclesOnlyFromOverlap'
  BY ForestStep
<1>5. \A q \in Request : CallOK(q)' /\ WalkOK(q)' /\ CycleTold(q)'
  BY MoverKeeps, OthersKeep
<1>6. QED
  BY <1>1, <1>2, <1>3, <1>4, <1>5 DEF Sound

LEMMA InitSound == Init => Sound
<1> SUFFICES ASSUME Init PROVE Sound
  OBVIOUS
<1>1. TypeOK /\ ReferencesExist
  BY InitType, InitReferences
<1>2. CyclesOnlyFromOverlap
  BY GroupsAssumption DEF Init, CyclesOnlyFromOverlap
<1>3. BornByWriting
  BY GroupsAssumption DEF Init, BornByWriting, Exists, Initially, Group
<1>4. \A r \in Request : CallOK(r) /\ WalkOK(r) /\ CycleTold(r)
  BY DEF Init, CallOK, WalkOK, CycleTold
<1>5. QED
  BY <1>1, <1>2, <1>3, <1>4 DEF Sound

\* The inductive invariant: what each call has done at each step, and what a walk
\* has seen, next to the properties themselves.
THEOREM SoundCorrect == Spec => []Sound
<1>1. Sound /\ [Next]_vars => Sound'
  <2> SUFFICES ASSUME Sound, [Next]_vars PROVE Sound'
    OBVIOUS
  <2>1. CASE Next
    BY <2>1, StepSound DEF Next
  <2>2. CASE UNCHANGED vars
    BY <2>2 DEF vars, tables, history, Sound, TypeOK, ReferencesExist, BornByWriting,
                CyclesOnlyFromOverlap, CallOK, WalkOK, CycleTold, Known, Exists, Acyclic
  <2>3. QED
    BY <2>1, <2>2
<1>2. QED
  BY <1>1, InitSound, PTL DEF Spec

\* The ancestor walk keeps the groups a forest whatever creations, deletions and
\* lost answers fall between its reads, as long as no reparenting overtakes it.
THEOREM ForestKept == Spec => []CyclesOnlyFromOverlap
<1>1. Sound => CyclesOnlyFromOverlap
  BY DEF Sound
<1>2. QED
  BY <1>1, SoundCorrect, PTL

\* No refused call has written, every created group that was reported has been, and
\* a deleted group that was reported is gone for good.
THEOREM GroupAnswersTellOutcome == Spec => []AnswersTellOutcome
<1>1. Sound => AnswersTellOutcome
  BY DEF Sound, CallOK, CycleTold, AnswersTellOutcome
<1>2. QED
  BY <1>1, SoundCorrect, PTL
=============================================================================
