--------------------------- MODULE PermissionsProofs --------------------------
(***************************************************************************)
(* Permissions for any positions, roles, masks and overrides, any number   *)
(* of calls and any offers.                                                *)
(***************************************************************************)
EXTENDS Permissions, TLAPS

-----------------------------------------------------------------------------
(* Types, one call at a time. *)

PC == Step \union {"idle", "done"}

Mask == {Gone} \union SUBSET Bit
MaybeRow == {Gone} \union OverrideRow
Answer == [status : Status, mask : SUBSET Bit]

TablesOK ==
    /\ position \in Position
    /\ assigned \subseteq Role
    /\ bits \in [Source -> Mask]
    /\ overrides \in [Override -> MaybeRow]

CallsOK ==
    /\ pc \in [Request -> PC]
    /\ call \in [Request -> Call \union {NoCall}]
    /\ at \in [Request -> Time]
    /\ found \in [Request -> Position]
    /\ mask \in [Request -> SUBSET Bit]
    /\ roles \in [Request -> SUBSET Role]
    /\ rows \in [Request -> [Override -> MaybeRow]]
    /\ answer \in [Request -> Answer]

HistoryOK ==
    /\ witnessed \in [Request -> SUBSET SnapshotType]
    /\ overlaps \in [Request -> Nat]
    /\ crossed \subseteq Override

RequestOK(r) ==
    /\ pc[r] \in Step => call[r] \in Offered
    /\ pc[r] = "write" /\ call[r].op = "amend" => rows[r][call[r].override] # Gone

LEMMA TypeParts ==
    TypeOK <=> /\ TablesOK /\ now \in Time /\ CallsOK /\ HistoryOK
               /\ \A r \in Request : RequestOK(r)
BY DEF TypeOK, TablesOK, CallsOK, HistoryOK, RequestOK, PC, Mask, MaybeRow, Answer

\* The step of a call leaves the others as they are.
OthersStay(r) ==
    \A q \in Request \ {r} :
        /\ pc'[q] = pc[q] /\ call'[q] = call[q] /\ at'[q] = at[q] /\ found'[q] = found[q]
        /\ mask'[q] = mask[q] /\ roles'[q] = roles[q] /\ rows'[q] = rows[q]
        /\ answer'[q] = answer[q]

Moves(r) ==
    /\ pc' \in [Request -> PC] /\ answer' \in [Request -> Answer]
    /\ \A q \in Request \ {r} : pc'[q] = pc[q] /\ answer'[q] = answer[q]

LEMMA GoMoves ==
    ASSUME CallsOK, NEW r \in Request, NEW step \in PC, Go(r, step)
    PROVE  Moves(r) /\ pc'[r] = step /\ answer'[r] = answer[r]
BY DEF CallsOK, Go, Moves

LEMMA FinishMoves ==
    ASSUME CallsOK, NEW r \in Request, NEW status \in Status, Finish(r, status)
    PROVE  /\ Moves(r) /\ pc'[r] = "done"
           /\ answer'[r] = [status |-> status, mask |-> {}]
<1>1. [status |-> status, mask |-> {}] \in Answer
  BY DEF Answer
<1>2. QED
  BY <1>1 DEF CallsOK, Finish, Moves, PC

LEMMA Names ==
    /\ {"account", "combine", "load", "lookup", "again", "write", "refresh", "position",
        "assignments", "roles", "overrides"} = Step
    /\ Step \subseteq PC /\ "idle" \in PC /\ "done" \in PC /\ "idle" \notin Step
    /\ "done" \notin Step
    /\ {"mask", "ok", "missing", "conflict", "invalid", "failed", "lost", "none"} = Status
BY DEF Step, Reading, PC, Status

LEMMA OfferTypes ==
    ASSUME NEW c \in Offered
    PROVE  /\ c \in Call /\ c.op \in Op /\ c.source \in Source /\ c.mask \in SUBSET Bit
           /\ c.override \in Override /\ c.given \in Given
           /\ c.op = "move" => c.source \in Position
           /\ c.op \in {"assign", "unassign"} => c.source \in Role
           /\ c.op = "grant" => c.given \in OverrideRow
BY PermissionsAssumption DEF Call

LEMMA TypeOfMove ==
    ASSUME TypeOK, NEW r \in Request, OthersStay(r), TablesOK', now' \in Time, CallsOK',
           HistoryOK', RequestOK(r)'
    PROVE  TypeOK'
<1>1. \A q \in Request \ {r} : RequestOK(q)'
  BY TypeParts DEF OthersStay, RequestOK
<1>2. TypeOK' <=> /\ TablesOK' /\ now' \in Time /\ CallsOK' /\ HistoryOK'
                  /\ \A q \in Request : RequestOK(q)'
  BY DEF TypeOK, TablesOK, CallsOK, HistoryOK, RequestOK, PC, Mask, MaybeRow, Answer
<1>3. QED
  BY <1>1, <1>2

LEMMA Quiet ==
    ASSUME TypeOK, NoWrite
    PROVE  TablesOK' /\ HistoryOK'
BY TypeParts DEF NoWrite, TablesOK, HistoryOK, tables, history

\* A step of a call that has begun, writing or not: what it reads, it reads for itself.
LEMMA RunType ==
    ASSUME TypeOK, NEW r \in Request, pc[r] \in Step, Moves(r), UNCHANGED <<now, call>>,
           TablesOK', HistoryOK',
           at' \in [Request -> Time], found' \in [Request -> Position],
           mask' \in [Request -> SUBSET Bit], roles' \in [Request -> SUBSET Role],
           rows' \in [Request -> [Override -> MaybeRow]],
           \A q \in Request \ {r} :
               at'[q] = at[q] /\ found'[q] = found[q] /\ mask'[q] = mask[q]
                 /\ roles'[q] = roles[q] /\ rows'[q] = rows[q],
           pc'[r] = "write" /\ call[r].op = "amend" => rows'[r][call[r].override] # Gone
    PROVE  TypeOK' /\ OthersStay(r)
<1>1. CallsOK /\ RequestOK(r) /\ now \in Time
  BY TypeParts
<1>2. CallsOK' /\ OthersStay(r)
  BY <1>1 DEF CallsOK, OthersStay, Moves
<1>3. RequestOK(r)'
  BY <1>1 DEF RequestOK
<1>4. QED
  BY <1>1, <1>2, <1>3, TypeOfMove

LEMMA PlainRunType ==
    ASSUME TypeOK, NEW r \in Request, pc[r] \in Step, Moves(r), UNCHANGED <<now, local>>,
           TablesOK', HistoryOK', call[r].op # "amend" \/ pc'[r] # "write"
    PROVE  TypeOK' /\ OthersStay(r)
<1>1. CallsOK
  BY TypeParts
<1>2. UNCHANGED <<now, call, at, found, mask, roles, rows>>
  BY DEF local
<1>3. /\ at' \in [Request -> Time] /\ found' \in [Request -> Position]
      /\ mask' \in [Request -> SUBSET Bit] /\ roles' \in [Request -> SUBSET Role]
      /\ rows' \in [Request -> [Override -> MaybeRow]]
  BY <1>1, <1>2 DEF CallsOK
<1>4. QED
  BY <1>2, <1>3, RunType

LEMMA BeginType ==
    ASSUME TypeOK, NEW r \in Request, Begin(r)
    PROVE  TypeOK' /\ OthersStay(r)
<1>1. PICK o \in Offered :
         /\ call' = [call EXCEPT ![r] = o]
         /\ Go(r, IF o.op \in Evaluation THEN "account" ELSE "load")
  BY DEF Begin
<1>2. /\ CallsOK /\ now \in Time /\ TablesOK /\ HistoryOK
      /\ at' = [at EXCEPT ![r] = now]
      /\ UNCHANGED <<tables, now, found, mask, roles, rows, history>>
  BY TypeParts DEF Begin
<1>3. (IF o.op \in Evaluation THEN "account" ELSE "load") \in PC
  BY Names
<1>4. Moves(r) /\ pc'[r] # "write" /\ (pc'[r] \in {"account", "load"})
  BY <1>1, <1>2, <1>3, GoMoves
<1>5. o \in Call
  BY OfferTypes
<1>6. CallsOK' /\ OthersStay(r) /\ call'[r] = o
  BY <1>1, <1>2, <1>4, <1>5 DEF CallsOK, OthersStay, Moves
<1>7. TablesOK' /\ HistoryOK' /\ now' \in Time
  BY <1>2 DEF TablesOK, HistoryOK, tables, history
<1>8. RequestOK(r)'
  BY <1>4, <1>6 DEF RequestOK
<1>9. QED
  BY <1>6, <1>7, <1>8, TypeOfMove

\* The ways a step ends.
Goes(r) == (\E step \in Step : Go(r, step)) \/ (\E status \in Status : Finish(r, status))

LEMMA GoesMoves ==
    ASSUME TypeOK, NEW r \in Request, Goes(r)
    PROVE  Moves(r) /\ pc'[r] \in Step \union {"done"}
<1>1. CallsOK
  BY TypeParts
<1>2. QED
  BY <1>1, Names, GoMoves, FinishMoves DEF Goes

LEMMA QuietType ==
    ASSUME TypeOK, NEW r \in Request, pc[r] \in Step, Goes(r), NoWrite, UNCHANGED <<now, local>>,
           call[r].op # "amend" \/ pc'[r] # "write"
    PROVE  TypeOK' /\ OthersStay(r)
BY GoesMoves, Quiet, PlainRunType

LEMMA WitnessType ==
    ASSUME TypeOK, TablesOK', Witness, crossed' \in SUBSET Override
    PROVE  HistoryOK'
<1>1. HistoryOK
  BY TypeParts
<1>2. Snapshot' \in SnapshotType
  BY DEF Snapshot, SnapshotType, TablesOK, Mask, MaybeRow
<1>3. witnessed' \in [Request -> SUBSET SnapshotType]
  BY <1>1, <1>2 DEF Witness, HistoryOK
<1>4. overlaps' \in [Request -> Nat]
  BY <1>1 DEF Witness, HistoryOK
<1>5. QED
  BY <1>3, <1>4 DEF HistoryOK

LEMMA WriteType ==
    ASSUME TypeOK, NEW r \in Request, pc[r] \in Step, Goes(r), pc'[r] # "write",
           UNCHANGED <<now, local>>, TablesOK', Witness, crossed' \in SUBSET Override
    PROVE  TypeOK' /\ OthersStay(r)
BY GoesMoves, WitnessType, PlainRunType

LEMMA ReadType ==
    ASSUME TypeOK, NEW r \in Request, Read(r)
    PROVE  TypeOK' /\ OthersStay(r)
<1>1. TablesOK /\ CallsOK /\ HistoryOK /\ now \in Time /\ pc[r] \in Step
  BY TypeParts, Names DEF Read, ReadAccount, ReadPosition, ReadAssignments, ReadRoles,
     ReadOverrides, Evaluate
<1>2. CASE ReadAccount(r)
  <2>1. Goes(r) /\ pc'[r] # "write"
    BY <1>1, <1>2, Names DEF ReadAccount, Goes, Go, CallsOK
  <2>2. Snapshot \in SnapshotType
    BY <1>1 DEF Snapshot, SnapshotType, TablesOK, Mask, MaybeRow
  <2>3. TablesOK' /\ HistoryOK'
    BY <1>1, <1>2, <2>2 DEF ReadAccount, TablesOK, HistoryOK, tables
  <2>4. QED
    BY <1>1, <1>2, <2>1, <2>3, GoesMoves, RunType DEF ReadAccount, CallsOK, TablesOK
<1>3. CASE ReadPosition(r)
  <2>1. Goes(r) /\ pc'[r] # "write"
    BY <1>1, <1>3, Names DEF ReadPosition, Goes, Go, Finish, CallsOK
  <2>2. TablesOK' /\ HistoryOK'
    BY <1>3, Quiet DEF ReadPosition
  <2>3. Exists(found[r]) => bits[found[r]] \in SUBSET Bit
    BY <1>1 DEF TablesOK, CallsOK, Exists, Mask, Source
  <2>4. mask' \in [Request -> SUBSET Bit] /\ \A q \in Request \ {r} : mask'[q] = mask[q]
    BY <1>1, <1>3, <2>3 DEF ReadPosition, CallsOK
  <2>5. QED
    BY <1>1, <1>3, <2>1, <2>2, <2>4, GoesMoves, RunType DEF ReadPosition, CallsOK
<1>4. CASE ReadAssignments(r)
  <2>1. Goes(r) /\ pc'[r] # "write"
    BY <1>1, <1>4, Names DEF ReadAssignments, Goes, Go, CallsOK
  <2>2. TablesOK' /\ HistoryOK'
    BY <1>4, Quiet DEF ReadAssignments
  <2>3. QED
    BY <1>1, <1>4, <2>1, <2>2, GoesMoves, RunType DEF ReadAssignments, CallsOK, TablesOK
<1>5. CASE ReadRoles(r)
  <2>1. Goes(r) /\ pc'[r] # "write"
    BY <1>1, <1>5, Names DEF ReadRoles, Goes, Go, Finish, CallsOK
  <2>2. TablesOK' /\ HistoryOK'
    BY <1>5, Quiet DEF ReadRoles
  <2>3. (\A x \in roles[r] : Exists(x)) => \A x \in roles[r] : bits[x] \in SUBSET Bit
    BY <1>1 DEF TablesOK, CallsOK, Exists, Mask, Source
  <2>4. (\A x \in roles[r] : Exists(x)) =>
            mask[r] \union UNION {bits[x] : x \in roles[r]} \in SUBSET Bit
    BY <1>1, <2>3 DEF CallsOK
  <2>5. mask' \in [Request -> SUBSET Bit] /\ \A q \in Request \ {r} : mask'[q] = mask[q]
    BY <1>1, <1>5, <2>4 DEF ReadRoles, CallsOK
  <2>6. QED
    BY <1>1, <1>5, <2>1, <2>2, <2>5, GoesMoves, RunType DEF ReadRoles, CallsOK
<1>6. CASE ReadOverrides(r)
  <2>1. Goes(r) /\ pc'[r] # "write"
    BY <1>1, <1>6, Names DEF ReadOverrides, Goes, Go, CallsOK
  <2>2. TablesOK' /\ HistoryOK'
    BY <1>6, Quiet DEF ReadOverrides
  <2>3. QED
    BY <1>1, <1>6, <2>1, <2>2, GoesMoves, RunType DEF ReadOverrides, CallsOK, TablesOK
<1>7. CASE Evaluate(r)
  <2> DEFINE t == IF call[r].op = "show" THEN now ELSE at[r]
             active == {o \in Override : rows[r][o] # Gone /\ IsActive(rows[r][o], t)}
             result == Combine(mask[r], UNION {rows[r][o].allow : o \in active},
                                        UNION {rows[r][o].deny : o \in active})
  <2>1. /\ pc[r] = "combine" /\ pc' = [pc EXCEPT ![r] = "done"]
        /\ at' = [at EXCEPT ![r] = t]
        /\ answer' = [answer EXCEPT ![r] = [status |-> "mask", mask |-> result]]
        /\ UNCHANGED <<now, call, found, mask, roles, rows>>
    BY <1>7 DEF Evaluate
  <2>2. t \in Time
    BY <1>1 DEF CallsOK
  <2>3. \A o \in active : rows[r][o].allow \in SUBSET Bit
    BY <1>1 DEF CallsOK, MaybeRow, OverrideRow
  <2>4. result \in SUBSET Bit
    BY <1>1, <2>3 DEF Combine, CallsOK
  <2>5. TablesOK' /\ HistoryOK'
    BY <1>7, Quiet DEF Evaluate
  <2> HIDE DEF t, result
  <2>6. [status |-> "mask", mask |-> result] \in Answer
    BY <2>4 DEF Answer, Status
  <2>7. Moves(r) /\ pc'[r] # "write"
    BY <1>1, <2>1, <2>6, Names DEF Moves, CallsOK
  <2>8. QED
    BY <1>1, <2>1, <2>2, <2>5, <2>7, RunType DEF CallsOK
<1>8. QED
  BY <1>2, <1>3, <1>4, <1>5, <1>6, <1>7 DEF Read

\* The steps of a change that only look.
Look(r) ==
    \/ LookForUse(r) \/ GetAgain(r) \/ FindPosition(r) \/ FindRole(r) \/ FindAssignment(r)
    \/ CheckGrant(r) \/ Refresh(r)

\* The steps of a change that copy a row.
Load(r) == LoadSource(r) \/ LoadAccount(r) \/ LoadOverride(r)

\* The steps of a change that write.
Write(r) ==
    \/ SetMask(r) \/ DropSource(r) \/ Move(r) \/ Assign(r) \/ Unassign(r) \/ Grant(r)
    \/ Amend(r) \/ Revoke(r)

LEMMA ChangeKinds ==
    ASSUME NEW r \in Request
    PROVE  Change(r) <=> Look(r) \/ Load(r) \/ Write(r)
BY DEF Change, Look, Load, Write

LEMMA LookType ==
    ASSUME TypeOK, NEW r \in Request, Look(r) \/ Abort(r)
    PROVE  TypeOK' /\ OthersStay(r) /\ NoWrite /\ Goes(r)
<1>1. pc[r] \in Step /\ NoWrite /\ UNCHANGED <<now, local>>
  BY Names DEF Look, Abort, LookForUse, GetAgain, FindPosition, FindRole, FindAssignment,
     CheckGrant, Refresh
<1>2. Goes(r)
  BY Names DEF Look, Abort, LookForUse, GetAgain, FindPosition, FindRole, FindAssignment,
     CheckGrant, Refresh, Goes
<1>3. call[r].op # "amend" \/ pc'[r] # "write"
  <2>1. CallsOK
    BY TypeParts
  <2>2. CASE Refresh(r) \/ Abort(r)
    BY <2>1, <2>2 DEF Refresh, Abort, Finish, CallsOK
  <2>3. CASE LookForUse(r) \/ FindPosition(r) \/ FindRole(r) \/ FindAssignment(r) \/ CheckGrant(r)
    BY <2>3 DEF LookForUse, FindPosition, FindRole, FindAssignment, CheckGrant
  <2>4. CASE GetAgain(r)
    BY <2>4 DEF GetAgain
  <2>5. QED
    BY <2>2, <2>3, <2>4 DEF Look
<1>4. QED
  BY <1>1, <1>2, <1>3, QuietType

LEMMA LoadType ==
    ASSUME TypeOK, NEW r \in Request, Load(r)
    PROVE  TypeOK' /\ OthersStay(r) /\ NoWrite
<1>1. TablesOK /\ CallsOK /\ HistoryOK /\ now \in Time /\ RequestOK(r)
  BY TypeParts
<1>2. pc[r] \in Step /\ NoWrite /\ UNCHANGED <<now, call>> /\ TablesOK' /\ HistoryOK'
  BY Names, Quiet DEF Load, LoadSource, LoadAccount, LoadOverride
<1>3. Goes(r)
  BY Names DEF Load, LoadSource, LoadAccount, LoadOverride, Goes
<1>4. Moves(r)
  BY <1>3, GoesMoves
<1>5. call[r] \in Offered /\ call[r].source \in Source /\ call[r].override \in Override
  BY <1>1, <1>2, OfferTypes DEF RequestOK
<1>6. CASE LoadSource(r)
  <2>1. Exists(call[r].source) => bits[call[r].source] \in SUBSET Bit
    BY <1>1, <1>5 DEF TablesOK, Exists, Mask
  <2>2. mask' \in [Request -> SUBSET Bit] /\ \A q \in Request \ {r} : mask'[q] = mask[q]
    BY <1>1, <1>6, <2>1 DEF LoadSource, CallsOK
  <2>3. QED
    BY <1>1, <1>2, <1>4, <1>6, <2>2, RunType DEF LoadSource, CallsOK
<1>7. CASE LoadAccount(r)
  BY <1>1, <1>2, <1>4, <1>7, RunType DEF LoadAccount, CallsOK, TablesOK
<1>8. CASE LoadOverride(r)
  <2> DEFINE o == call[r].override
  <2>1. /\ rows' = [rows EXCEPT ![r] = [rows[r] EXCEPT ![o] = overrides[o]]]
        /\ UNCHANGED <<at, found, mask, roles>>
    BY <1>8 DEF LoadOverride
  <2>2. overrides[o] \in MaybeRow
    BY <1>1, <1>5 DEF TablesOK
  <2>3. [rows[r] EXCEPT ![o] = overrides[o]] \in [Override -> MaybeRow]
    BY <1>1, <2>2 DEF CallsOK
  <2>4. /\ rows' \in [Request -> [Override -> MaybeRow]]
        /\ \A q \in Request \ {r} : rows'[q] = rows[q]
        /\ rows'[r][o] = overrides[o]
    BY <1>1, <1>5, <2>1, <2>3 DEF CallsOK
  <2>5. pc'[r] = "write" => overrides[o] # Gone
    BY <1>1, <1>8 DEF LoadOverride, Finish, CallsOK
  <2>6. QED
    BY <1>1, <1>2, <1>4, <2>1, <2>4, <2>5, RunType DEF CallsOK
<1>9. QED
  BY <1>6, <1>7, <1>8 DEF Load

LEMMA OverType ==
    ASSUME NEW row \in OverrideRow, NEW given \in Given
    PROVE  Over(row, given) \in OverrideRow
BY DEF Over, OverrideRow, Given

LEMMA UpdatedType ==
    ASSUME NEW row \in OverrideRow, NEW copy \in OverrideRow, NEW new \in OverrideRow
    PROVE  Updated(row, copy, new) \in OverrideRow
BY DEF Updated, OverrideRow

LEMMA WriteKinds ==
    ASSUME TypeOK, NEW r \in Request, Write(r)
    PROVE  /\ Goes(r) /\ pc'[r] # "write" /\ UNCHANGED <<now, local>>
           /\ pc[r] \in Step /\ call[r] \in Offered
           /\ NoWrite \/ (Witness /\ TablesOK' /\ crossed' \in SUBSET Override)
<1>1. TablesOK /\ CallsOK /\ HistoryOK /\ RequestOK(r)
  BY TypeParts
<1>2. pc[r] = "write" /\ pc[r] \in Step /\ UNCHANGED <<now, local>>
  BY Names DEF Write, SetMask, DropSource, Move, Assign, Unassign, Grant, Amend, Revoke
<1>3. /\ call[r] \in Offered /\ call[r].source \in Source /\ call[r].mask \in SUBSET Bit
      /\ call[r].override \in Override /\ call[r].given \in Given
      /\ call[r].op = "move" => call[r].source \in Position
      /\ call[r].op \in {"assign", "unassign"} => call[r].source \in Role
      /\ call[r].op = "grant" => call[r].given \in OverrideRow
  BY <1>1, <1>2, OfferTypes DEF RequestOK
<1>4. Goes(r)
  BY Names DEF Write, SetMask, DropSource, Move, Assign, Unassign, Grant, Amend, Revoke, Goes
<1>5. pc'[r] # "write"
  <2>1. Go(r, "refresh") \/ (\E status \in Status : Finish(r, status))
    BY Names DEF Write, SetMask, DropSource, Move, Assign, Unassign, Grant, Amend, Revoke
  <2>2. QED
    BY <1>1, <2>1 DEF Go, Finish, CallsOK
<1>6. NoWrite \/ (Witness /\ TablesOK' /\ crossed' \in SUBSET Override)
  <2>1. CASE SetMask(r)
    BY <1>1, <1>3, <2>1 DEF SetMask, TablesOK, Mask, HistoryOK
  <2>2. CASE DropSource(r)
    BY <1>1, <1>3, <2>2 DEF DropSource, TablesOK, Mask, HistoryOK
  <2>3. CASE Move(r)
    BY <1>1, <1>3, <2>3 DEF Move, TablesOK, HistoryOK
  <2>4. CASE Assign(r)
    BY <1>1, <1>3, <2>4 DEF Assign, TablesOK, HistoryOK
  <2>5. CASE Unassign(r)
    BY <1>1, <1>3, <2>5 DEF Unassign, TablesOK, HistoryOK
  <2>6. CASE Grant(r)
    BY <1>1, <1>3, <2>6 DEF Grant, TablesOK, HistoryOK, MaybeRow, Override
  <2>7. CASE Amend(r)
    <3> DEFINE o == call[r].override
               copy == rows[r][o]
               new == Over(copy, call[r].given)
    <3>1. CASE new # copy /\ overrides[o] # Gone
      <4>1. copy \in OverrideRow /\ overrides[o] \in OverrideRow
        BY <1>1, <1>2, <1>3, <2>7, <3>1 DEF Amend, TablesOK, CallsOK, RequestOK, MaybeRow
      <4>2. Updated(overrides[o], copy, new) \in MaybeRow
        BY <1>3, <4>1, OverType, UpdatedType DEF MaybeRow
      <4>3. /\ overrides' = [overrides EXCEPT ![o] = Updated(overrides[o], copy, new)]
            /\ crossed' = crossed \/ crossed' = crossed \union {o}
            /\ UNCHANGED <<position, assigned, bits>> /\ Witness
        BY <2>7, <3>1 DEF Amend
      <4>4. QED
        BY <1>1, <1>3, <4>2, <4>3 DEF TablesOK, HistoryOK
    <3>2. CASE ~(new # copy /\ overrides[o] # Gone)
      BY <2>7, <3>2 DEF Amend
    <3>3. QED
      BY <3>1, <3>2
  <2>8. CASE Revoke(r)
    BY <1>1, <1>3, <2>8 DEF Revoke, TablesOK, HistoryOK, MaybeRow
  <2>9. QED
    BY <2>1, <2>2, <2>3, <2>4, <2>5, <2>6, <2>7, <2>8 DEF Write
<1>7. QED
  BY <1>2, <1>3, <1>4, <1>5, <1>6

LEMMA ChangeType ==
    ASSUME TypeOK, NEW r \in Request, Change(r)
    PROVE  TypeOK' /\ OthersStay(r)
<1>1. CASE Look(r) \/ Load(r)
  BY <1>1, LookType, LoadType
<1>2. CASE Write(r)
  BY <1>2, WriteKinds, QuietType, WriteType
<1>3. QED
  BY <1>1, <1>2, ChangeKinds

LEMMA StepType ==
    ASSUME TypeOK, [Next]_vars
    PROVE  TypeOK'
<1>1. ASSUME NEW r \in Request, Begin(r) \/ Read(r) \/ Change(r) \/ Abort(r)
      PROVE  TypeOK'
  BY <1>1, BeginType, ReadType, ChangeType, LookType
<1>2. CASE Tick
  <2>1. now' \in Time
    BY <1>2, PermissionsAssumption DEF Tick, TypeOK, Time
  <2>2. QED
    BY <1>2, <2>1 DEF Tick, TypeOK, tables, local, history
<1>3. CASE UNCHANGED vars
  BY <1>3 DEF TypeOK, vars, tables, local, history
<1>4. QED
  BY <1>1, <1>2, <1>3 DEF Next

LEMMA InitType ==
    ASSUME Init
    PROVE  TypeOK
<1>1. 0 \in Time
  BY PermissionsAssumption DEF Time
<1>2. TablesOK
  <2>1. \A o \in Override :
           (IF o \in DOMAIN InitialOverrides THEN InitialOverrides[o] ELSE Gone) \in MaybeRow
    BY PermissionsAssumption DEF MaybeRow
  <2>2. overrides \in [Override -> MaybeRow]
    BY <2>1 DEF Init
  <2>3. QED
    BY <2>2, PermissionsAssumption DEF Init, TablesOK, Mask
<1>3. [status |-> "none", mask |-> {}] \in Answer
  BY Names DEF Answer
<1>4. CallsOK
  BY <1>1, <1>3, Names, PermissionsAssumption DEF Init, CallsOK, MaybeRow
<1>5. HistoryOK /\ \A r \in Request : RequestOK(r)
  BY Names DEF Init, HistoryOK, RequestOK
<1>6. now \in Time
  BY <1>1 DEF Init
<1>7. QED
  BY <1>2, <1>4, <1>5, <1>6, TypeParts

\* The tables, the calls and what is remembered keep their types, whatever interleaves.
THEOREM PermissionsTypeCorrect == Spec => []TypeOK
<1>1. Init => TypeOK
  BY InitType
<1>2. TypeOK /\ [Next]_vars => TypeOK'
  BY StepType
<1>3. QED
  BY <1>1, <1>2, PTL DEF Spec

-----------------------------------------------------------------------------
(* What the writes keep. *)

\* A step that writes the tables is the write of one call.
LEMMA Writers ==
    ASSUME TypeOK, [Next]_vars
    PROVE  UNCHANGED <<tables, crossed>> \/ \E r \in Request : Write(r)
<1>1. ASSUME NEW r \in Request, Begin(r) \/ Read(r) \/ Look(r) \/ Load(r) \/ Abort(r)
      PROVE  UNCHANGED <<tables, crossed>>
  <2>1. CASE Look(r) \/ Load(r) \/ Abort(r)
    BY <2>1, LookType, LoadType DEF NoWrite, tables, history
  <2>2. CASE Begin(r) \/ Read(r)
    BY <2>2 DEF Begin, Read, ReadAccount, ReadPosition, ReadAssignments, ReadRoles,
       ReadOverrides, Evaluate, NoWrite, tables, history
  <2>3. QED
    BY <1>1, <2>1, <2>2
<1>2. CASE Tick
  BY <1>2 DEF Tick, tables, history
<1>3. CASE UNCHANGED vars
  BY <1>3 DEF vars, tables, history
<1>4. QED
  BY <1>1, <1>2, <1>3, ChangeKinds DEF Next

LEMMA ReferencesKept ==
    ASSUME TypeOK, ReferencesExist, [Next]_vars
    PROVE  ReferencesExist'
<1>1. CASE UNCHANGED <<tables, crossed>>
  BY <1>1 DEF ReferencesExist, Exists, tables
<1>2. ASSUME NEW r \in Request, Write(r)
      PROVE  ReferencesExist'
  <2>1. TablesOK /\ RequestOK(r)
    BY TypeParts
  <2>2. pc[r] = "write"
    BY <1>2 DEF Write, SetMask, DropSource, Move, Assign, Unassign, Grant, Amend, Revoke
  <2>3. call[r].source \in Source /\ call[r].mask # Gone
    BY <2>1, <2>2, Names, OfferTypes, PermissionsAssumption DEF RequestOK
  <2>4. position \in Source /\ assigned \subseteq Source
    BY <2>1 DEF Source, TablesOK
  <2>5. CASE SetMask(r)
    <3>1. UNCHANGED <<position, assigned>>
      BY <2>5 DEF SetMask, NoWrite, tables
    <3>2. \A y \in Source : bits[y] # Gone => bits'[y] # Gone
      BY <2>1, <2>3, <2>5 DEF SetMask, TablesOK, NoWrite, tables
    <3>3. QED
      BY <2>4, <3>1, <3>2 DEF ReferencesExist, Exists
  <2>6. CASE DropSource(r)
    <3>1. UNCHANGED <<position, assigned>>
      BY <2>6 DEF DropSource, NoWrite, tables
    <3>2. \A y \in Source : Referenced(y) => bits'[y] = bits[y]
      BY <2>1, <2>3, <2>6 DEF DropSource, TablesOK, NoWrite, tables
    <3>3. QED
      BY <2>4, <3>1, <3>2 DEF ReferencesExist, Exists, Referenced
  <2>7. CASE Move(r)
    BY <2>7 DEF Move, ReferencesExist, Exists, NoWrite, tables
  <2>8. CASE Assign(r)
    BY <2>8 DEF Assign, ReferencesExist, Exists, NoWrite, tables
  <2>9. CASE Unassign(r)
    BY <2>9 DEF Unassign, ReferencesExist, Exists, NoWrite, tables
  <2>10. CASE Grant(r) \/ Amend(r) \/ Revoke(r)
    BY <2>10 DEF Grant, Amend, Revoke, ReferencesExist, Exists, NoWrite, tables
  <2>11. QED
    BY <1>2, <2>5, <2>6, <2>7, <2>8, <2>9, <2>10 DEF Write
<1>3. QED
  BY <1>1, <1>2, Writers

\* The position and the roles of the account are rows of their tables: the look for
\* uses before a delete and the look for the row before a reference are both stale
\* when the write comes, and the foreign keys hold.
THEOREM PermissionReferencesExist == Spec => []ReferencesExist
<1>1. Init => ReferencesExist
  BY PermissionsAssumption DEF Init, ReferencesExist, Exists
<1>2. TypeOK /\ ReferencesExist /\ [Next]_vars => ReferencesExist'
  BY ReferencesKept
<1>3. QED
  BY <1>1, <1>2, PermissionsTypeCorrect, PTL DEF Spec

-----------------------------------------------------------------------------
(* Windows. *)

\* The window a call is about to write has been checked.
WillBeSound(r) ==
    /\ pc[r] = "write" /\ call[r].op = "grant" => Sound(call[r].given)
    /\ pc[r] = "write" /\ call[r].op = "amend" =>
          Sound(Over(rows[r][call[r].override], call[r].given))

Windows == WindowsSound /\ \A r \in Request : WillBeSound(r)

LEMMA UpdatedSound ==
    ASSUME NEW row \in OverrideRow, NEW copy \in OverrideRow, NEW new \in OverrideRow,
           Sound(row), Sound(new), SameWindow(new, copy) \/ SameWindow(row, copy)
    PROVE  Sound(Updated(row, copy, new))
BY DEF Updated, Sound, SameWindow, OverrideRow

LEMMA WritesSound ==
    ASSUME TypeOK, Windows, NEW r \in Request, Write(r)
    PROVE  WindowsSound'
<1>1. TablesOK /\ CallsOK /\ RequestOK(r) /\ WindowsSound /\ WillBeSound(r)
  BY TypeParts DEF Windows
<1>2. pc[r] = "write"
  BY DEF Write, SetMask, DropSource, Move, Assign, Unassign, Grant, Amend, Revoke
<1>3. call[r].override \in Override /\ call[r].given \in Given /\ r \in Override
  BY <1>1, <1>2, Names, OfferTypes DEF RequestOK, Override
<1>4. CASE SetMask(r) \/ DropSource(r) \/ Move(r) \/ Assign(r) \/ Unassign(r)
  BY <1>1, <1>4 DEF SetMask, DropSource, Move, Assign, Unassign, WindowsSound, NoWrite, tables,
     history
<1>5. CASE Grant(r)
  BY <1>1, <1>2, <1>3, <1>5 DEF Grant, WindowsSound, WillBeSound, TablesOK
<1>6. CASE Revoke(r)
  BY <1>1, <1>3, <1>6 DEF Revoke, WindowsSound, TablesOK
<1>7. CASE Amend(r)
  <2> DEFINE o == call[r].override
             copy == rows[r][o]
             new == Over(copy, call[r].given)
  <2>1. CASE ~(new # copy /\ overrides[o] # Gone)
    BY <1>1, <1>7, <2>1 DEF Amend, WindowsSound, NoWrite, tables, history
  <2>2. CASE new # copy /\ overrides[o] # Gone
    <3>1. /\ overrides' = [overrides EXCEPT ![o] = Updated(overrides[o], copy, new)]
          /\ crossed' = IF SameWindow(new, copy) \/ SameWindow(overrides[o], copy)
                        THEN crossed ELSE crossed \union {o}
      BY <1>7, <2>2 DEF Amend
    <3>2. copy \in OverrideRow /\ overrides[o] \in OverrideRow
      BY <1>1, <1>2, <1>3, <1>7, <2>2 DEF Amend, TablesOK, CallsOK, RequestOK, MaybeRow
    <3>3. Sound(new) /\ new \in OverrideRow
      BY <1>1, <1>2, <1>3, <1>7, <3>2, OverType DEF Amend, WillBeSound
    <3>4. o \notin crossed' => Sound(Updated(overrides[o], copy, new))
      BY <1>1, <1>3, <2>2, <3>1, <3>2, <3>3, UpdatedSound DEF WindowsSound
    <3>5. overrides'[o] = Updated(overrides[o], copy, new)
      BY <1>1, <1>3, <3>1 DEF TablesOK
    <3>6. \A p \in Override \ {o} :
             overrides'[p] = overrides[p] /\ (p \notin crossed' => p \notin crossed)
      BY <1>1, <3>1 DEF TablesOK
    <3>7. QED
      BY <1>1, <3>4, <3>5, <3>6 DEF WindowsSound
  <2>3. QED
    BY <2>1, <2>2
<1>8. QED
  BY <1>4, <1>5, <1>6, <1>7 DEF Write

\* A call comes to the write of a window only past the check of it.
LEMMA ChecksStand ==
    ASSUME TypeOK, NEW r \in Request, WillBeSound(r), Begin(r) \/ Read(r) \/ Change(r) \/ Abort(r)
    PROVE  WillBeSound(r)'
<1>1. TablesOK /\ CallsOK /\ RequestOK(r)
  BY TypeParts
<1>2. CASE pc'[r] # "write"
  BY <1>2 DEF WillBeSound
<1>3. CASE pc'[r] = "write"
  <2>1. CASE Begin(r) \/ Read(r) \/ Abort(r)
    <3>1. CASE Abort(r)
      BY <1>1, <1>3, <3>1 DEF Abort, Finish, CallsOK
    <3>2. CASE Read(r)
      BY <1>1, <1>3, <3>2 DEF Read, ReadAccount, ReadPosition, ReadAssignments, ReadRoles,
         ReadOverrides, Evaluate, Go, Finish, CallsOK
    <3>3. CASE Begin(r)
      BY <1>1, <1>3, <3>3 DEF Begin, Go, CallsOK
    <3>4. QED
      BY <2>1, <3>1, <3>2, <3>3
  <2>2. CASE Write(r)
    BY <1>3, <2>2, WriteKinds
  <2>3. CASE Look(r)
    <3>1. call' = call /\ rows' = rows
      BY <2>3 DEF Look, LookForUse, GetAgain, FindPosition, FindRole, FindAssignment,
         CheckGrant, Refresh, local
    <3>2. CASE CheckGrant(r)
      BY <1>1, <1>3, <3>1, <3>2 DEF CheckGrant, Finish, WillBeSound, CallsOK
    <3>3. CASE LookForUse(r) \/ GetAgain(r) \/ FindPosition(r) \/ FindRole(r) \/ FindAssignment(r)
      <4>1. call[r].op \notin {"grant", "amend"}
        BY <3>3 DEF LookForUse, GetAgain, FindPosition, FindRole, FindAssignment
      <4>2. QED
        BY <3>1, <4>1 DEF WillBeSound
    <3>4. CASE Refresh(r)
      BY <1>1, <1>3, <3>4 DEF Refresh, Finish, CallsOK
    <3>5. QED
      BY <2>3, <3>2, <3>3, <3>4 DEF Look
  <2>4. CASE Load(r)
    <3>1. CASE LoadSource(r) \/ LoadAccount(r)
      <4>1. call[r].op \notin {"grant", "amend"} /\ call' = call
        BY <3>1 DEF LoadSource, LoadAccount
      <4>2. QED
        BY <4>1 DEF WillBeSound
    <3>2. CASE LoadOverride(r)
      <4> DEFINE o == call[r].override
      <4>1. /\ call[r].op \in {"amend", "revoke"} /\ call' = call
            /\ rows' = [rows EXCEPT ![r] = [rows[r] EXCEPT ![o] = overrides[o]]]
            /\ call[r].op = "amend" => Sound(Over(overrides[o], call[r].given))
        BY <1>1, <1>3, <3>2 DEF LoadOverride, Finish, CallsOK
      <4>2. pc[r] \in Step
        BY <3>2, Names DEF LoadOverride
      <4>3. o \in Override
        BY <1>1, <4>2, OfferTypes DEF RequestOK
      <4>4. rows'[r][o] = overrides[o]
        BY <1>1, <4>1, <4>3 DEF CallsOK
      <4>5. Over(rows'[r][o], call[r].given) = Over(overrides[o], call[r].given)
        BY <4>4
      <4>6. QED
        BY <4>1, <4>5 DEF WillBeSound
    <3>3. QED
      BY <2>4, <3>1, <3>2 DEF Load
  <2>5. QED
    BY <2>1, <2>2, <2>3, <2>4, ChangeKinds
<1>4. QED
  BY <1>2, <1>3

LEMMA WindowsKept ==
    ASSUME TypeOK, Windows, [Next]_vars
    PROVE  Windows'
<1>1. WindowsSound'
  <2>1. CASE UNCHANGED <<tables, crossed>>
    BY <2>1 DEF Windows, WindowsSound, tables
  <2>2. QED
    BY <2>1, Writers, WritesSound
<1>2. \A r \in Request : WillBeSound(r)'
  <2>1. ASSUME NEW r \in Request, Begin(r) \/ Read(r) \/ Change(r) \/ Abort(r)
        PROVE  \A q \in Request : WillBeSound(q)'
    <3>1. OthersStay(r)
      BY <2>1, BeginType, ReadType, ChangeType, LookType
    <3>2. \A q \in Request \ {r} : WillBeSound(q)'
      BY <3>1 DEF Windows, WillBeSound, OthersStay
    <3>3. WillBeSound(r)'
      BY <2>1, ChecksStand DEF Windows
    <3>4. QED
      BY <3>2, <3>3
  <2>2. CASE Tick \/ UNCHANGED vars
    <3>1. pc' = pc /\ call' = call /\ rows' = rows
      BY <2>2 DEF Tick, vars, local
    <3>2. QED
      BY <3>1 DEF Windows, WillBeSound
  <2>3. QED
    BY <2>1, <2>2 DEF Next
<1>3. QED
  BY <1>1, <1>2 DEF Windows

\* The window of an override begins before it ends, however updates overlap, unless two
\* of them each move one end: the check of an update reads the row it does not lock.
THEOREM PermissionWindowsSound == Spec => []WindowsSound
<1>1. Init => Windows
  BY Names, PermissionsAssumption DEF Init, Windows, WindowsSound, WillBeSound
<1>2. TypeOK /\ Windows /\ [Next]_vars => Windows'
  BY WindowsKept
<1>3. Windows => WindowsSound
  BY DEF Windows
<1>4. QED
  BY <1>1, <1>2, <1>3, PermissionsTypeCorrect, PTL DEF Spec

-----------------------------------------------------------------------------
(* What an evaluation has read, and how its steps look from the others. *)

\* The steps of an evaluation that has read the account.
Underway == Reading \union {"combine"}

\* What the tables were is seen by whoever reads them still.
Witnessed(q) ==
    \/ UNCHANGED <<witnessed[q], overlaps[q], tables>>
    \/ /\ pc[q] \notin Reading /\ UNCHANGED <<witnessed[q], overlaps[q]>>
    \/ /\ pc[q] \in Reading /\ overlaps'[q] = overlaps[q] + 1
       /\ witnessed'[q] = witnessed[q] \union {Snapshot'}

\* A call of the others stays as it is while r moves.
Watches(q) ==
    /\ UNCHANGED <<pc[q], call[q], at[q], found[q], mask[q], roles[q], rows[q], answer[q]>>
    /\ Witnessed(q)

LEMMA SnapshotFields ==
    /\ Snapshot.position = position /\ Snapshot.assigned = assigned
    /\ Snapshot.bits = bits /\ Snapshot.overrides = overrides
BY DEF Snapshot

LEMMA SnapshotTyped ==
    ASSUME TypeOK
    PROVE  Snapshot \in SnapshotType
BY DEF TypeOK, Snapshot, SnapshotType

LEMMA QuietWitnessed ==
    ASSUME NoWrite, NEW q \in Request
    PROVE  Witnessed(q) /\ Snapshot' = Snapshot
BY DEF NoWrite, Witnessed, tables, history, Snapshot

LEMMA WriteWitnessed ==
    ASSUME TypeOK, Witness, NEW q \in Request
    PROVE  Witnessed(q)
BY DEF TypeOK, Witness, Witnessed

\* Where the steps of a change and its end leave the call.
LEMMA ChangeLeaves ==
    ASSUME TypeOK, NEW r \in Request, Change(r) \/ Abort(r)
    PROVE  /\ pc[r] \in Step /\ call' = call /\ (NoWrite \/ Witness)
           /\ \/ pc'[r] \in {"lookup", "again", "write", "refresh"} /\ answer'[r] = answer[r]
              \/ pc'[r] = "done" /\ answer'[r].status \notin {"none", "mask", "failed"}
              \/ /\ pc'[r] = "done" /\ answer'[r].status = "failed"
                 /\ pc[r] \in {"write", "refresh"}
           /\ Abort(r) \/ pc[r] \in {"load", "lookup", "again", "write", "refresh"}
<1>1. pc[r] \in Step /\ call' = call
  BY Names DEF Change, Abort, LoadSource, SetMask, LookForUse, GetAgain, DropSource, LoadAccount,
     FindPosition, Move, FindRole, FindAssignment, Assign, Unassign, CheckGrant, Grant,
     LoadOverride, Amend, Revoke, Refresh, local
<1>2. NoWrite \/ Witness
  BY DEF Change, Abort, LoadSource, SetMask, LookForUse, GetAgain, DropSource, LoadAccount,
     FindPosition, Move, FindRole, FindAssignment, Assign, Unassign, CheckGrant, Grant,
     LoadOverride, Amend, Revoke, Refresh
<1>3. \/ \E step \in {"lookup", "again", "write", "refresh"} : Go(r, step)
      \/ \E status \in {"ok", "missing", "conflict", "invalid", "lost"} : Finish(r, status)
      \/ Finish(r, "failed") /\ pc[r] \in {"write", "refresh"}
  BY DEF Change, Abort, LoadSource, SetMask, LookForUse, GetAgain, DropSource, LoadAccount,
     FindPosition, Move, FindRole, FindAssignment, Assign, Unassign, CheckGrant, Grant,
     LoadOverride, Amend, Revoke, Refresh
<1>4. Abort(r) \/ pc[r] \in {"load", "lookup", "again", "write", "refresh"}
  BY DEF Change, LoadSource, SetMask, LookForUse, GetAgain, DropSource, LoadAccount,
     FindPosition, Move, FindRole, FindAssignment, Assign, Unassign, CheckGrant, Grant,
     LoadOverride, Amend, Revoke, Refresh
<1>5. CASE \E step \in {"lookup", "again", "write", "refresh"} : Go(r, step)
  BY <1>1, <1>2, <1>4, <1>5 DEF Go, TypeOK
<1>6. CASE \E status \in {"ok", "missing", "conflict", "invalid", "lost"} : Finish(r, status)
  BY <1>1, <1>2, <1>4, <1>6 DEF Finish, TypeOK
<1>7. CASE Finish(r, "failed") /\ pc[r] \in {"write", "refresh"}
  BY <1>1, <1>2, <1>4, <1>7 DEF Finish, TypeOK
<1>8. QED
  BY <1>3, <1>5, <1>6, <1>7

\* Every step is seen by the calls that do not take it.
LEMMA OthersWatch ==
    ASSUME TypeOK, [Next]_vars
    PROVE  \/ \A q \in Request : Watches(q)
           \/ \E r \in Request : /\ Begin(r) \/ Read(r) \/ Change(r) \/ Abort(r)
                                 /\ \A q \in Request \ {r} : Watches(q)
<1>1. ASSUME NEW r \in Request, Begin(r) \/ Read(r) \/ Change(r) \/ Abort(r),
             NEW q \in Request \ {r}
      PROVE  Watches(q)
  <2>1. OthersStay(r)
    BY <1>1, BeginType, ReadType, ChangeType, LookType
  <2>2. Witnessed(q)
    <3>1. CASE Change(r) \/ Abort(r)
      BY <3>1, ChangeLeaves, QuietWitnessed, WriteWitnessed
    <3>2. CASE ReadAccount(r)
      BY <1>1, <3>2 DEF ReadAccount, Witnessed, TypeOK
    <3>3. CASE Begin(r)
      BY <3>3, QuietWitnessed DEF Begin, NoWrite
    <3>4. CASE \/ ReadPosition(r) \/ ReadAssignments(r) \/ ReadRoles(r) \/ ReadOverrides(r)
               \/ Evaluate(r)
      BY <3>4, QuietWitnessed
      DEF ReadPosition, ReadAssignments, ReadRoles, ReadOverrides, Evaluate
    <3>5. QED
      BY <1>1, <3>1, <3>2, <3>3, <3>4 DEF Read
  <2>3. QED
    BY <2>1, <2>2 DEF Watches, OthersStay
<1>2. ASSUME Tick \/ UNCHANGED vars, NEW q \in Request
      PROVE  Watches(q)
  BY <1>2 DEF Tick, vars, local, history, tables, Watches, Witnessed
<1>3. QED
  BY <1>1, <1>2 DEF Next

-----------------------------------------------------------------------------
(* How far an evaluation is torn. *)

SomeHolds(W, x) == \E s \in W : Holds(s, x)
SomeCarries(W, x, b) == \E s \in W : Carries(s, x, b)
AllGrant(W, x, b) == \A s \in W : Holds(s, x) /\ Carries(s, x, b)

\* Every bit of m came from a source the account held; m has what sources of X
\* granted all the time.
Sourced(W, m) == \A b \in m : \E x \in Source : SomeHolds(W, x) /\ SomeCarries(W, x, b)
Covered(W, m, X) == \A x \in X, b \in Bit : AllGrant(W, x, b) => b \in m

\* What MaskWithinRead says of the bits of one answer.
Within(W, t, m) ==
    \A b \in Bit :
       /\ b \in m =>
            /\ \/ \E x \in Source : (\E s \in W : Holds(s, x)) /\ (\E s \in W : Carries(s, x, b))
               \/ \E o \in Override, s \in W : Allows(s, o, b, t)
            /\ \A o \in Override : \E s \in W : ~Denies(s, o, b, t)
       /\ \/ \E x \in Source : \A s \in W : Holds(s, x) /\ Carries(s, x, b)
          \/ \E o \in Override : \A s \in W : Allows(s, o, b, t)
         => b \in m \/ \E o \in Override, s \in W : Denies(s, o, b, t)

\* What an evaluation has read so far was in the tables while it ran.
Torn(r) ==
    LET W == witnessed[r]
    IN
    /\ pc[r] \in Reading => Snapshot \in W
    /\ pc[r] \in Underway => \E s \in W : s.position = found[r]
    /\ pc[r] \in Underway \ {"position"} =>
          Sourced(W, mask[r]) /\ Covered(W, mask[r], Position)
    /\ pc[r] = "roles" =>
          /\ \A x \in roles[r] : SomeHolds(W, x)
          /\ \A x \in Role : (\A s \in W : Holds(s, x)) => x \in roles[r]
    /\ pc[r] \in {"overrides", "combine"} => Covered(W, mask[r], Source)
    /\ pc[r] = "combine" => \E s \in W : rows[r] = s.overrides
    /\ answer[r].status = "mask" => pc[r] = "done" /\ Within(W, at[r], answer[r].mask)

LEMMA Grows ==
    ASSUME NEW W, NEW V, W \subseteq V
    PROVE  /\ \A x : SomeHolds(W, x) => SomeHolds(V, x)
           /\ \A m : Sourced(W, m) => Sourced(V, m)
           /\ \A m, X : Covered(W, m, X) => Covered(V, m, X)
BY DEF SomeHolds, SomeCarries, AllGrant, Sourced, Covered

LEMMA TornWatching ==
    ASSUME NEW q \in Request, Torn(q), Watches(q)
    PROVE  Torn(q)'
<1>1. /\ witnessed[q] \subseteq witnessed'[q]
      /\ pc[q] \in Reading => Snapshot' \in witnessed'[q]
      /\ pc[q] \notin Reading => witnessed'[q] = witnessed[q]
  BY DEF Watches, Witnessed, Torn, Snapshot, tables
<1>2. UNCHANGED <<pc[q], at[q], found[q], mask[q], roles[q], rows[q], answer[q]>>
  BY DEF Watches
<1>3. /\ pc'[q] \in Underway => \E s \in witnessed'[q] : s.position = found'[q]
      /\ pc'[q] = "roles" => \A x \in roles'[q] : SomeHolds(witnessed'[q], x)
      /\ pc'[q] = "combine" => \E s \in witnessed'[q] : rows'[q] = s.overrides
  BY <1>1, <1>2, Grows DEF Torn
<1>4. /\ pc'[q] \in Underway \ {"position"} =>
            Sourced(witnessed'[q], mask'[q]) /\ Covered(witnessed'[q], mask'[q], Position)
      /\ pc'[q] \in {"overrides", "combine"} => Covered(witnessed'[q], mask'[q], Source)
  BY <1>1, <1>2, Grows DEF Torn
<1>5. pc'[q] = "roles" =>
         \A x \in Role : (\A s \in witnessed'[q] : Holds(s, x)) => x \in roles'[q]
  BY <1>1, <1>2 DEF Torn
<1>6. answer'[q].status = "mask" =>
         pc'[q] = "done" /\ Within(witnessed'[q], at'[q], answer'[q].mask)
  BY <1>1, <1>2 DEF Torn, Reading
<1>7. QED
  BY <1>1, <1>2, <1>3, <1>4, <1>5, <1>6 DEF Torn

\* Who has not begun to read, and who has ended without a mask, has read nothing.
LEMMA TornNot ==
    ASSUME NEW q \in Request, pc'[q] \notin Underway, answer'[q].status # "mask"
    PROVE  Torn(q)'
BY DEF Torn, Underway, Reading

LEMMA UnderwaySteps ==
    /\ Reading = {"position", "assignments", "roles", "overrides"}
    /\ Underway = {"position", "assignments", "roles", "overrides", "combine"}
BY DEF Reading, Underway

LEMMA ReadAccountTorn ==
    ASSUME TypeOK, NEW r \in Request, Torn(r), ReadAccount(r)
    PROVE  Torn(r)'
<1>1. /\ pc'[r] = "position" /\ found'[r] = position /\ witnessed'[r] = {Snapshot}
      /\ answer'[r] = answer[r] /\ Snapshot' = Snapshot /\ pc[r] = "account"
  BY DEF ReadAccount, Go, TypeOK, Snapshot, tables
<1>2. answer'[r].status # "mask"
  BY <1>1 DEF Torn
<1>3. QED
  BY <1>1, <1>2, SnapshotFields, UnderwaySteps DEF Torn

\* What a reading step reads is in the tables as they are seen.
LEMMA Reads ==
    ASSUME TypeOK, NEW r \in Request, Torn(r),
           ReadPosition(r) \/ ReadAssignments(r) \/ ReadRoles(r) \/ ReadOverrides(r) \/ Evaluate(r)
    PROVE  /\ witnessed'[r] = witnessed[r] /\ Snapshot' = Snapshot /\ found'[r] = found[r]
           /\ answer[r].status # "mask" /\ pc[r] \in Underway
           /\ witnessed[r] \subseteq SnapshotType
           /\ pc[r] \in Reading => Snapshot \in witnessed[r]
           /\ \E s \in witnessed[r] : s.position = found[r]
<1>1. NoWrite /\ found' = found /\ pc[r] \in Underway
  BY UnderwaySteps
  DEF ReadPosition, ReadAssignments, ReadRoles, ReadOverrides, Evaluate
<1>2. answer[r].status # "mask"
  BY <1>1, UnderwaySteps DEF Torn
<1>3. QED
  BY <1>1, <1>2 DEF Torn, NoWrite, history, tables, Snapshot, TypeOK

LEMMA ReadPositionTorn ==
    ASSUME TypeOK, NEW r \in Request, Torn(r), ReadPosition(r)
    PROVE  Torn(r)'
<1> DEFINE W == witnessed[r]
<1>1. /\ witnessed'[r] = W /\ Snapshot' = Snapshot /\ found'[r] = found[r]
      /\ answer[r].status # "mask" /\ W \subseteq SnapshotType
      /\ pc[r] \in Reading => Snapshot \in W
      /\ \E s \in W : s.position = found[r]
  BY Reads
<1>2. CASE ~Exists(found[r])
  <2>1. pc'[r] = "done" /\ answer'[r].status = "failed"
    BY <1>2 DEF ReadPosition, Finish, TypeOK
  <2>2. QED
    BY <2>1, TornNot, UnderwaySteps
<1>3. CASE Exists(found[r])
  <2>1. /\ pc[r] = "position" /\ pc'[r] = "assignments" /\ answer'[r] = answer[r]
        /\ mask'[r] = bits[found[r]] /\ found[r] \in Position
    BY <1>3 DEF ReadPosition, Go, TypeOK
  <2>2. Snapshot \in W
    BY <1>1, <2>1, UnderwaySteps
  <2>3. Sourced(W, mask'[r])
    <3>1. SomeHolds(W, found[r])
      BY <1>1 DEF SomeHolds, Holds
    <3>2. \A b \in bits[found[r]] : SomeCarries(W, found[r], b)
      BY <1>3, <2>2, SnapshotFields DEF SomeCarries, Carries, Exists
    <3>3. QED
      BY <2>1, <3>1, <3>2 DEF Sourced, Source
  <2>4. Covered(W, mask'[r], Position)
    <3> SUFFICES ASSUME NEW x \in Position, NEW b \in Bit, AllGrant(W, x, b)
                 PROVE  b \in bits[found[r]]
      BY <2>1 DEF Covered
    <3>1. PICK s \in W : s.position = found[r]
      BY <1>1
    <3>2. s.assigned \subseteq Role
      BY <1>1 DEF SnapshotType
    <3>3. x = found[r]
      BY <3>1, <3>2, PermissionsAssumption DEF AllGrant, Holds
    <3>4. QED
      BY <2>2, <3>3, SnapshotFields DEF AllGrant, Carries
  <2>5. QED
    BY <1>1, <2>1, <2>2, <2>3, <2>4, UnderwaySteps DEF Torn
<1>4. QED
  BY <1>2, <1>3

LEMMA ReadAssignmentsTorn ==
    ASSUME TypeOK, NEW r \in Request, Torn(r), ReadAssignments(r)
    PROVE  Torn(r)'
<1> DEFINE W == witnessed[r]
<1>1. /\ witnessed'[r] = W /\ Snapshot' = Snapshot /\ found'[r] = found[r]
      /\ answer[r].status # "mask" /\ W \subseteq SnapshotType
      /\ pc[r] \in Reading => Snapshot \in W
      /\ \E s \in W : s.position = found[r]
  BY Reads
<1>2. /\ pc[r] = "assignments" /\ roles'[r] = assigned /\ assigned \subseteq Role
      /\ answer'[r] = answer[r] /\ mask'[r] = mask[r]
      /\ pc'[r] = (IF assigned = {} THEN "overrides" ELSE "roles")
  BY DEF ReadAssignments, Go, TypeOK
<1>3. Snapshot \in W
  BY <1>1, <1>2, UnderwaySteps
<1>4. Sourced(W, mask[r]) /\ Covered(W, mask[r], Position)
  BY <1>2, UnderwaySteps DEF Torn
<1>5. \A x \in assigned : SomeHolds(W, x)
  BY <1>3, SnapshotFields DEF SomeHolds, Holds
<1>6. \A x \in Role : (\A s \in W : Holds(s, x)) => x \in assigned
  <2> SUFFICES ASSUME NEW x \in Role, \A s \in W : Holds(s, x)
               PROVE  x \in assigned
    OBVIOUS
  <2>1. Holds(Snapshot, x) /\ position \in Position
    BY <1>3 DEF TypeOK
  <2>2. QED
    BY <2>1, SnapshotFields, PermissionsAssumption DEF Holds
<1>7. assigned = {} => Covered(W, mask[r], Source)
  BY <1>4, <1>6 DEF Covered, AllGrant, Source
<1>8. QED
  BY <1>1, <1>2, <1>3, <1>4, <1>5, <1>6, <1>7, UnderwaySteps DEF Torn

LEMMA ReadRolesTorn ==
    ASSUME TypeOK, NEW r \in Request, Torn(r), ReadRoles(r)
    PROVE  Torn(r)'
<1> DEFINE W == witnessed[r]
           more == UNION {bits[x] : x \in roles[r]}
<1>1. /\ witnessed'[r] = W /\ Snapshot' = Snapshot /\ found'[r] = found[r]
      /\ answer[r].status # "mask" /\ W \subseteq SnapshotType
      /\ pc[r] \in Reading => Snapshot \in W
      /\ \E s \in W : s.position = found[r]
  BY Reads
<1>2. CASE \E x \in roles[r] : ~Exists(x)
  <2>1. pc'[r] = "done" /\ answer'[r].status = "failed"
    BY <1>2 DEF ReadRoles, Finish, TypeOK
  <2>2. QED
    BY <2>1, TornNot, UnderwaySteps
<1>3. CASE \A x \in roles[r] : Exists(x)
  <2>1. /\ pc[r] = "roles" /\ pc'[r] = "overrides" /\ answer'[r] = answer[r]
        /\ mask'[r] = mask[r] \union more /\ roles[r] \subseteq Role
    BY <1>3 DEF ReadRoles, Go, TypeOK
  <2>2. /\ Snapshot \in W /\ Sourced(W, mask[r]) /\ Covered(W, mask[r], Position)
        /\ \A x \in roles[r] : SomeHolds(W, x)
        /\ \A x \in Role : (\A s \in W : Holds(s, x)) => x \in roles[r]
    BY <1>1, <2>1, UnderwaySteps DEF Torn
  <2>3. Sourced(W, mask'[r])
    <3>1. \A x \in roles[r] : \A b \in bits[x] : SomeCarries(W, x, b)
      BY <1>3, <2>2, SnapshotFields DEF SomeCarries, Carries, Exists
    <3>2. \A b \in more : \E x \in Source : SomeHolds(W, x) /\ SomeCarries(W, x, b)
      BY <2>1, <2>2, <3>1 DEF Source
    <3>3. QED
      BY <2>1, <2>2, <3>2 DEF Sourced
  <2>4. Covered(W, mask'[r], Position)
    BY <2>1, <2>2 DEF Covered
  <2>5. Covered(W, mask'[r], Role)
    <3> SUFFICES ASSUME NEW x \in Role, NEW b \in Bit, AllGrant(W, x, b)
                 PROVE  b \in more
      BY <2>1 DEF Covered
    <3>1. x \in roles[r]
      BY <2>2 DEF AllGrant
    <3>2. b \in bits[x]
      BY <2>2, SnapshotFields DEF AllGrant, Carries
    <3>3. QED
      BY <3>1, <3>2
  <2>6. Covered(W, mask'[r], Source)
    BY <2>4, <2>5 DEF Covered, Source
  <2>7. QED
    BY <1>1, <2>1, <2>2, <2>3, <2>4, <2>6, UnderwaySteps DEF Torn
<1>4. QED
  BY <1>2, <1>3

LEMMA ReadOverridesTorn ==
    ASSUME TypeOK, NEW r \in Request, Torn(r), ReadOverrides(r)
    PROVE  Torn(r)'
<1>1. /\ witnessed'[r] = witnessed[r] /\ Snapshot' = Snapshot /\ found'[r] = found[r]
      /\ answer[r].status # "mask"
      /\ pc[r] \in Reading => Snapshot \in witnessed[r]
      /\ \E s \in witnessed[r] : s.position = found[r]
  BY Reads
<1>2. /\ pc[r] = "overrides" /\ pc'[r] = "combine" /\ rows'[r] = overrides
      /\ answer'[r] = answer[r] /\ mask'[r] = mask[r]
  BY DEF ReadOverrides, Go, TypeOK
<1>3. Snapshot \in witnessed[r]
  BY <1>1, <1>2, UnderwaySteps
<1>4. \E s \in witnessed[r] : rows'[r] = s.overrides
  BY <1>2, <1>3, SnapshotFields
<1>5. QED
  BY <1>1, <1>2, <1>4, UnderwaySteps DEF Torn

\* The active overrides of the rows that were read are those of one state of the tables.
LEMMA EvaluateTorn ==
    ASSUME TypeOK, NEW r \in Request, Torn(r), Evaluate(r)
    PROVE  Torn(r)'
<1> DEFINE W == witnessed[r]
           t == IF call[r].op = "show" THEN now ELSE at[r]
           active == {o \in Override : rows[r][o] # Gone /\ IsActive(rows[r][o], t)}
           allowed == UNION {rows[r][o].allow : o \in active}
           denied == UNION {rows[r][o].deny : o \in active}
           result == Combine(mask[r], allowed, denied)
<1>1. /\ pc[r] = "combine" /\ pc'[r] = "done" /\ at'[r] = t
      /\ answer'[r].status = "mask" /\ answer'[r].mask = result
      /\ witnessed'[r] = W
  BY Reads DEF Evaluate, TypeOK
<1>2. Sourced(W, mask[r]) /\ Covered(W, mask[r], Source)
  BY <1>1, UnderwaySteps DEF Torn
<1>3. PICK s \in W : rows[r] = s.overrides
  BY <1>1 DEF Torn
<1>4. /\ \A b \in Bit : b \in allowed <=> \E o \in Override : Allows(s, o, b, t)
      /\ \A b \in Bit : b \in denied <=> \E o \in Override : Denies(s, o, b, t)
  BY <1>3 DEF Allows, Denies
<1> HIDE DEF t, allowed, denied
<1>5. Within(W, t, result)
  <2> SUFFICES ASSUME NEW b \in Bit
               PROVE  /\ b \in result =>
                           /\ \/ \E x \in Source : SomeHolds(W, x) /\ SomeCarries(W, x, b)
                              \/ \E o \in Override, u \in W : Allows(u, o, b, t)
                           /\ \A o \in Override : \E u \in W : ~Denies(u, o, b, t)
                      /\ \/ \E x \in Source : AllGrant(W, x, b)
                         \/ \E o \in Override : \A u \in W : Allows(u, o, b, t)
                        => b \in result \/ \E o \in Override, u \in W : Denies(u, o, b, t)
    BY DEF Within, SomeHolds, SomeCarries, AllGrant
  <2>1. b \in result <=> (b \in mask[r] \/ b \in allowed) /\ b \notin denied
    BY DEF Combine
  <2>2. QED
    BY <1>2, <1>3, <1>4, <2>1 DEF Sourced, Covered
<1>6. QED
  BY <1>1, <1>5, UnderwaySteps DEF Torn

LEMMA NextTorn ==
    ASSUME TypeOK, \A q \in Request : Torn(q), [Next]_vars
    PROVE  \A q \in Request : Torn(q)'
<1>1. ASSUME NEW r \in Request, Begin(r) \/ Read(r) \/ Change(r) \/ Abort(r)
      PROVE  Torn(r)'
  <2>1. CASE Begin(r)
    <3>1. pc'[r] \notin Underway /\ answer'[r] = answer[r] /\ pc[r] = "idle"
      BY <2>1, UnderwaySteps DEF Begin, Go, TypeOK
    <3>2. QED
      BY <3>1, TornNot DEF Torn
  <2>2. CASE Change(r) \/ Abort(r)
    <3>1. pc'[r] \notin Underway /\ pc[r] # "done"
      BY <2>2, ChangeLeaves, UnderwaySteps, Names
    <3>2. answer'[r].status # "mask"
      BY <2>2, <3>1, ChangeLeaves DEF Torn
    <3>3. QED
      BY <3>1, <3>2, TornNot
  <2>3. CASE Read(r)
    BY <2>3, ReadAccountTorn, ReadPositionTorn, ReadAssignmentsTorn, ReadRolesTorn,
       ReadOverridesTorn, EvaluateTorn DEF Read
  <2>4. QED
    BY <1>1, <2>1, <2>2, <2>3
<1>2. QED
  BY <1>1, OthersWatch, TornWatching

LEMMA TornCorrect == Spec => [](\A r \in Request : Torn(r))
<1>1. Init => \A r \in Request : Torn(r)
  <2> SUFFICES ASSUME Init, NEW r \in Request PROVE Torn(r)
    OBVIOUS
  <2>1. pc[r] = "idle" /\ answer[r].status = "none"
    BY DEF Init
  <2>2. QED
    BY <2>1, UnderwaySteps DEF Torn
<1>2. TypeOK /\ (\A r \in Request : Torn(r)) /\ [Next]_vars => (\A r \in Request : Torn(r))'
  BY NextTorn
<1>3. QED
  BY <1>1, <1>2, PermissionsTypeCorrect, PTL DEF Spec

\* An evaluation is torn between the writes it meets, but every bit of its mask had a
\* source or an override behind it while it ran, no override denied it throughout, and
\* what was granted throughout and never denied is in the mask.
THEOREM MasksWithinRead == Spec => []MaskWithinRead
<1>1. (\A r \in Request : Torn(r)) => MaskWithinRead
  BY DEF Torn, Within, MaskWithinRead
<1>2. QED
  BY <1>1, TornCorrect, PTL

-----------------------------------------------------------------------------
(* An evaluation that meets one write. *)

\* The permissions of the position and the roles.
SourceMask(s) == s.bits[s.position] \union UNION {s.bits[x] : x \in s.assigned}

\* What r has read so far is what s says.
Meets(r, s) ==
    /\ pc[r] \in Underway => found[r] = s.position
    /\ pc[r] \in {"assignments", "roles"} => mask[r] = s.bits[s.position]
    /\ pc[r] = "roles" => roles[r] = s.assigned
    /\ pc[r] \in {"overrides", "combine"} => mask[r] = SourceMask(s)
    /\ pc[r] = "combine" => rows[r] = s.overrides

\* A write changes one column, of one source if it is a mask.
OneChange(s, n) ==
    \/ n.assigned = s.assigned /\ n.bits = s.bits /\ n.overrides = s.overrides
    \/ n.position = s.position /\ n.bits = s.bits /\ n.overrides = s.overrides
    \/ n.position = s.position /\ n.assigned = s.assigned /\ n.bits = s.bits
    \/ /\ n.position = s.position /\ n.assigned = s.assigned /\ n.overrides = s.overrides
       /\ \E x \in Source : \A y \in Source \ {x} : n.bits[y] = s.bits[y]

Whole(s) ==
    /\ s \in SnapshotType /\ s.bits[s.position] # Gone
    /\ \A x \in s.assigned : s.bits[x] # Gone

\* An instant whose mask the evaluation answers with.
Instant(r) ==
    answer[r].status = "mask" /\ \E s \in witnessed[r] : answer[r].mask = Effective(s, at[r])

\* Without a write the tables are as r has seen them; after one, what r has read is
\* what they were before or what they are since.
Single(r) ==
    /\ pc[r] \in {"idle", "account"} => overlaps[r] = 0
    /\ pc[r] \in Step => (call[r].op \in Evaluation <=> pc[r] \in Underway \union {"account"})
    /\ pc[r] # "done" => answer[r].status = "none"
    /\ pc[r] \in Reading => Snapshot \in witnessed[r]
    /\ pc[r] \in Reading /\ overlaps[r] = 0 => Meets(r, Snapshot)
    /\ pc[r] \in Reading /\ overlaps[r] = 1 =>
          \E s \in witnessed[r] :
             Whole(s) /\ OneChange(s, Snapshot) /\ (Meets(r, s) \/ Meets(r, Snapshot))
    /\ pc[r] = "combine" /\ overlaps[r] <= 1 =>
          \E s \in witnessed[r] : Whole(s) /\ Meets(r, s)
    /\ /\ pc[r] = "done" /\ answer[r].status \in {"mask", "failed"}
       /\ call[r].op \in Evaluation /\ overlaps[r] <= 1
       => Instant(r)

LEMMA SnapshotWhole ==
    ASSUME TypeOK, ReferencesExist
    PROVE  Whole(Snapshot)
BY SnapshotTyped, SnapshotFields DEF Whole, ReferencesExist, Exists

\* Every write of the services changes one thing.
LEMMA WritesOneChange ==
    ASSUME TypeOK, [Next]_vars
    PROVE  OneChange(Snapshot, Snapshot')
<1>1. CASE UNCHANGED tables
  BY <1>1 DEF tables, Snapshot, OneChange
<1>2. ASSUME NEW r \in Request, Write(r) PROVE OneChange(Snapshot, Snapshot')
  <2>1. TablesOK /\ Snapshot'.position = position' /\ Snapshot'.assigned = assigned'
        /\ Snapshot'.bits = bits' /\ Snapshot'.overrides = overrides'
    BY TypeParts DEF Snapshot
  <2>2. /\ pc[r] = "write" /\ pc[r] \in Step /\ RequestOK(r)
    BY <1>2, TypeParts, Names
    DEF Write, SetMask, DropSource, Move, Assign, Unassign, Grant, Amend, Revoke
  <2>3. call[r].source \in Source
    BY <2>2, OfferTypes DEF RequestOK
  <2>4. CASE NoWrite
    BY <2>1, <2>4, SnapshotFields DEF NoWrite, tables, OneChange
  <2>5. CASE SetMask(r) \/ DropSource(r)
    <3>1. NoWrite \/ \E m : /\ bits' = [bits EXCEPT ![call[r].source] = m]
                            /\ UNCHANGED <<position, assigned, overrides>>
      BY <2>5 DEF SetMask, DropSource
    <3>2. CASE \E m : /\ bits' = [bits EXCEPT ![call[r].source] = m]
                      /\ UNCHANGED <<position, assigned, overrides>>
      <4>1. \A y \in Source \ {call[r].source} : bits'[y] = bits[y]
        BY <2>1, <3>2 DEF TablesOK
      <4>2. QED
        BY <2>1, <2>3, <3>2, <4>1, SnapshotFields DEF OneChange
    <3>3. QED
      BY <2>4, <3>1, <3>2
  <2>6. CASE Move(r)
    BY <2>1, <2>4, <2>6, SnapshotFields DEF Move, OneChange
  <2>7. CASE Assign(r) \/ Unassign(r)
    BY <2>1, <2>4, <2>7, SnapshotFields DEF Assign, Unassign, OneChange
  <2>8. CASE Grant(r) \/ Amend(r) \/ Revoke(r)
    BY <2>1, <2>4, <2>8, SnapshotFields DEF Grant, Amend, Revoke, OneChange
  <2>9. QED
    BY <1>2, <2>5, <2>6, <2>7, <2>8 DEF Write
<1>3. QED
  BY <1>1, <1>2, Writers

LEMMA SingleWatching ==
    ASSUME TypeOK, ReferencesExist, NEW q \in Request, Single(q), Watches(q),
           OneChange(Snapshot, Snapshot')
    PROVE  Single(q)'
<1>1. UNCHANGED <<pc[q], call[q], at[q], found[q], mask[q], roles[q], rows[q], answer[q]>>
  BY DEF Watches
<1>2. \A s : Meets(q, s) => /\ pc'[q] \in Underway => found'[q] = s.position
                            /\ pc'[q] \in {"assignments", "roles"} => mask'[q] = s.bits[s.position]
                            /\ pc'[q] = "roles" => roles'[q] = s.assigned
                            /\ pc'[q] \in {"overrides", "combine"} => mask'[q] = SourceMask(s)
                            /\ pc'[q] = "combine" => rows'[q] = s.overrides
  BY <1>1 DEF Meets
<1>3. overlaps[q] \in Nat /\ Whole(Snapshot)
  BY SnapshotWhole DEF TypeOK
<1>4. CASE UNCHANGED <<witnessed[q], overlaps[q], tables>>
  <2>1. Snapshot' = Snapshot
    BY <1>4 DEF Snapshot, tables
  <2>2. QED
    BY <1>1, <1>2, <1>4, <2>1 DEF Single, Meets, Instant
<1>5. CASE pc[q] \notin Reading /\ UNCHANGED <<witnessed[q], overlaps[q]>>
  BY <1>1, <1>2, <1>5 DEF Single, Meets, Instant, Reading
<1>6. CASE /\ pc[q] \in Reading /\ overlaps'[q] = overlaps[q] + 1
           /\ witnessed'[q] = witnessed[q] \union {Snapshot'}
  <2>1. overlaps'[q] = 1 => overlaps[q] = 0
    BY <1>3, <1>6
  <2>2. overlaps[q] = 0 => Meets(q, Snapshot) /\ Snapshot \in witnessed[q]
    BY <1>6 DEF Single
  <2>3. pc'[q] \in Reading /\ Snapshot' \in witnessed'[q] /\ overlaps'[q] # 0
        /\ pc'[q] \notin {"idle", "account", "combine", "done"}
    BY <1>1, <1>3, <1>6, UnderwaySteps
  <2>4. overlaps'[q] = 1 =>
          \E s \in witnessed'[q] : Whole(s) /\ OneChange(s, Snapshot')
                                   /\ (Meets(q, s)' \/ Meets(q, Snapshot)')
    <3> SUFFICES ASSUME overlaps'[q] = 1
                 PROVE  \E s \in witnessed'[q] : Whole(s) /\ OneChange(s, Snapshot')
                           /\ /\ pc'[q] \in Underway => found'[q] = s.position
                              /\ pc'[q] \in {"assignments", "roles"} =>
                                    mask'[q] = s.bits[s.position]
                              /\ pc'[q] = "roles" => roles'[q] = s.assigned
                              /\ pc'[q] \in {"overrides", "combine"} => mask'[q] = SourceMask(s)
                              /\ pc'[q] = "combine" => rows'[q] = s.overrides
      BY DEF Meets
    <3>1. QED
      BY <1>2, <1>3, <1>6, <2>1, <2>2
  <2>5. QED
    BY <1>1, <2>3, <2>4 DEF Single
<1>7. QED
  BY <1>4, <1>5, <1>6 DEF Watches, Witnessed

\* A call that is not in the middle of an evaluation has little to keep.
LEMMA SingleOutside ==
    ASSUME NEW q \in Request, pc'[q] \notin Underway,
           pc'[q] \in {"idle", "account"} => overlaps'[q] = 0,
           pc'[q] \in Step => (call'[q].op \in Evaluation <=> pc'[q] = "account"),
           pc'[q] # "done" => answer'[q].status = "none",
           pc'[q] = "done" => answer'[q].status \notin {"mask", "failed"}
                                \/ call'[q].op \notin Evaluation \/ ~(overlaps'[q] <= 1)
    PROVE  Single(q)'
BY DEF Single, Underway, Reading

LEMMA BeginSingle ==
    ASSUME TypeOK, NEW r \in Request, Single(r), Begin(r)
    PROVE  Single(r)'
<1>1. PICK o \in Offered :
        call' = [call EXCEPT ![r] = o] /\ Go(r, IF o.op \in Evaluation THEN "account" ELSE "load")
  BY DEF Begin
<1>2. /\ pc[r] = "idle" /\ call'[r] = o /\ answer'[r] = answer[r] /\ overlaps'[r] = overlaps[r]
      /\ pc'[r] = (IF o.op \in Evaluation THEN "account" ELSE "load")
  BY <1>1 DEF Begin, Go, TypeOK, history
<1>3. QED
  BY <1>2, SingleOutside, UnderwaySteps DEF Single

LEMMA ChangeSingle ==
    ASSUME TypeOK, NEW r \in Request, Single(r), Change(r) \/ Abort(r)
    PROVE  Single(r)'
<1>1. /\ pc[r] \in Step /\ pc[r] # "done" /\ call'[r] = call[r]
      /\ pc'[r] \notin Underway /\ pc'[r] \notin {"idle", "account"}
      /\ pc[r] \in {"write", "refresh"} => call[r].op \notin Evaluation
  BY ChangeLeaves, UnderwaySteps, Names DEF Single
<1>2. pc'[r] # "done" => answer'[r].status = "none" /\ call[r].op \notin Evaluation
  <2>1. CASE Abort(r)
    BY <2>1 DEF Abort, Finish, TypeOK
  <2>2. CASE ~Abort(r)
    <3>1. pc[r] \in {"load", "lookup", "again", "write", "refresh"}
      BY <2>2, ChangeLeaves
    <3>2. call[r].op \notin Evaluation /\ answer[r].status = "none"
      BY <1>1, <3>1, UnderwaySteps DEF Single
    <3>3. QED
      BY <3>2, ChangeLeaves
  <2>3. QED
    BY <2>1, <2>2
<1>3. pc'[r] = "done" =>
        answer'[r].status \notin {"mask", "failed"} \/ call[r].op \notin Evaluation
  BY <1>1, ChangeLeaves
<1>4. QED
  BY <1>1, <1>2, <1>3, SingleOutside, Names

\* A reading step reads the tables as they are; the calls kinds stay.
LEMMA ReadsOne ==
    ASSUME TypeOK, ReferencesExist, NEW r \in Request, Single(r),
           ReadPosition(r) \/ ReadAssignments(r) \/ ReadRoles(r) \/ ReadOverrides(r)
    PROVE  /\ witnessed'[r] = witnessed[r] /\ overlaps'[r] = overlaps[r] /\ Snapshot' = Snapshot
           /\ found'[r] = found[r] /\ call'[r] = call[r] /\ call[r].op \in Evaluation
           /\ answer[r].status = "none" /\ overlaps[r] \in Nat /\ pc[r] \in Reading
           /\ Snapshot \in witnessed[r] /\ Whole(Snapshot)
           /\ overlaps[r] = 0 => Meets(r, Snapshot)
           /\ overlaps[r] = 1 => \E s \in witnessed[r] :
                 Whole(s) /\ OneChange(s, Snapshot) /\ (Meets(r, s) \/ Meets(r, Snapshot))
<1>1. NoWrite /\ found' = found /\ call' = call /\ pc[r] \in Reading
  BY UnderwaySteps DEF ReadPosition, ReadAssignments, ReadRoles, ReadOverrides
<1>2. pc[r] \in Step /\ pc[r] # "done"
  BY <1>1, UnderwaySteps DEF Step
<1>3. QED
  BY <1>1, <1>2, SnapshotWhole, UnderwaySteps
  DEF Single, NoWrite, history, tables, Snapshot, TypeOK

\* The next reading goes on as the last one did.
LEMMA SingleOnward ==
    ASSUME TypeOK, ReferencesExist, NEW r \in Request, Single(r),
           ReadPosition(r) \/ ReadAssignments(r) \/ ReadRoles(r) \/ ReadOverrides(r),
           pc'[r] \in Underway, answer'[r] = answer[r],
           Meets(r, Snapshot) => Meets(r, Snapshot)',
           \A s : Whole(s) /\ OneChange(s, Snapshot) /\ Meets(r, s) =>
                     Meets(r, s)' \/ Meets(r, Snapshot)'
    PROVE  Single(r)'
<1>1. /\ witnessed'[r] = witnessed[r] /\ overlaps'[r] = overlaps[r] /\ Snapshot' = Snapshot
      /\ call'[r] = call[r] /\ call[r].op \in Evaluation
      /\ answer[r].status = "none" /\ overlaps[r] \in Nat /\ Snapshot \in witnessed[r]
      /\ Whole(Snapshot)
      /\ overlaps[r] = 0 => Meets(r, Snapshot)
      /\ overlaps[r] = 1 => \E s \in witnessed[r] :
            Whole(s) /\ OneChange(s, Snapshot) /\ (Meets(r, s) \/ Meets(r, Snapshot))
  BY ReadsOne
<1>2. pc'[r] \in Underway /\ pc'[r] \notin {"idle", "account", "done"} /\ answer'[r].status = "none"
  BY <1>1, UnderwaySteps
<1>3. overlaps[r] = 0 => Meets(r, Snapshot)'
  BY <1>1
<1>4. overlaps[r] = 1 => \E s \in witnessed[r] :
            Whole(s) /\ OneChange(s, Snapshot) /\ (Meets(r, s)' \/ Meets(r, Snapshot)')
  BY <1>1
<1>5. overlaps[r] <= 1 => \E s \in witnessed[r] : Whole(s) /\ Meets(r, s)'
  <2>1. Meets(r, Snapshot)' => \E s \in witnessed[r] : Whole(s) /\ Meets(r, s)'
    BY <1>1 DEF Meets
  <2>2. QED
    BY <1>1, <1>3, <1>4, <2>1
<1>6. QED
  BY <1>1, <1>2, <1>3, <1>4, <1>5 DEF Single

LEMMA ReadPositionSingle ==
    ASSUME TypeOK, ReferencesExist, NEW r \in Request, Single(r), ReadPosition(r)
    PROVE  Single(r)'
<1>1. /\ pc[r] = "position" /\ found'[r] = found[r] /\ Snapshot' = Snapshot /\ pc[r] \in Reading
      /\ witnessed'[r] = witnessed[r] /\ overlaps'[r] = overlaps[r] /\ overlaps[r] \in Nat
      /\ call'[r] = call[r]
      /\ bits' = bits
  BY ReadsOne DEF ReadPosition, NoWrite, tables
<1>2. Meets(r, Snapshot) => Exists(found[r])
  BY <1>1, SnapshotFields, SnapshotWhole, UnderwaySteps DEF Meets, Whole, Exists
<1>3. \A s : Whole(s) /\ OneChange(s, Snapshot) /\ Meets(r, s) =>
             \/ Meets(r, Snapshot)
             \/ /\ found[r] = s.position /\ bits[found[r]] = s.bits[s.position]
                /\ Exists(found[r])
  <2> SUFFICES ASSUME NEW s, Whole(s), OneChange(s, Snapshot), Meets(r, s), ~Meets(r, Snapshot)
               PROVE  /\ found[r] = s.position /\ bits[found[r]] = s.bits[s.position]
                      /\ Exists(found[r])
    OBVIOUS
  <2>1. found[r] = s.position /\ found[r] # position
    BY <1>1, SnapshotFields, UnderwaySteps DEF Meets
  <2>2. bits = s.bits
    BY <2>1, SnapshotFields DEF OneChange
  <2>3. QED
    BY <2>1, <2>2 DEF Whole, Exists
<1>4. CASE Exists(found[r])
  <2>1. pc'[r] = "assignments" /\ answer'[r] = answer[r] /\ mask'[r] = bits[found[r]]
    BY <1>4 DEF ReadPosition, Go, TypeOK
  <2>2. Meets(r, Snapshot) => Meets(r, Snapshot)'
    BY <1>1, <2>1, SnapshotFields, UnderwaySteps DEF Meets
  <2>3. \A s : Whole(s) /\ OneChange(s, Snapshot) /\ Meets(r, s) =>
               Meets(r, s)' \/ Meets(r, Snapshot)'
    BY <1>1, <1>3, <2>1, <2>2 DEF Meets
  <2>4. QED
    BY <2>1, <2>2, <2>3, SingleOnward, UnderwaySteps
<1>5. CASE ~Exists(found[r])
  <2>1. pc'[r] = "done"
    BY <1>5 DEF ReadPosition, Finish, TypeOK
  <2>2. ~(overlaps[r] <= 1)
    <3>1. overlaps[r] # 0
      BY <1>1, <1>2, <1>5 DEF Single
    <3>2. overlaps[r] # 1
      BY <1>1, <1>2, <1>3, <1>5 DEF Single
    <3>3. QED
      BY <1>1, <3>1, <3>2
  <2>3. QED
    BY <1>1, <2>1, <2>2, SingleOutside, UnderwaySteps, Names
<1>6. QED
  BY <1>4, <1>5

LEMMA ReadAssignmentsSingle ==
    ASSUME TypeOK, ReferencesExist, NEW r \in Request, Single(r), ReadAssignments(r)
    PROVE  Single(r)'
<1>1. /\ pc[r] = "assignments" /\ roles'[r] = assigned /\ answer'[r] = answer[r]
      /\ pc'[r] = (IF assigned = {} THEN "overrides" ELSE "roles")
      /\ mask'[r] = mask[r] /\ found'[r] = found[r] /\ Snapshot' = Snapshot
      /\ assigned' = assigned /\ bits' = bits /\ position' = position
  BY DEF ReadAssignments, Go, TypeOK, NoWrite, tables, Snapshot
<1>2. \A s : Meets(r, s) <=> found[r] = s.position /\ mask[r] = s.bits[s.position]
  BY <1>1, UnderwaySteps DEF Meets
<1>3. \A s : /\ found[r] = s.position /\ mask[r] = s.bits[s.position] /\ s.assigned = assigned
             => Meets(r, s)'
  <2> SUFFICES ASSUME NEW s, found[r] = s.position, mask[r] = s.bits[s.position],
                      s.assigned = assigned
               PROVE  Meets(r, s)'
    OBVIOUS
  <2>1. assigned = {} => SourceMask(s) = s.bits[s.position]
    BY DEF SourceMask
  <2>2. QED
    BY <1>1, <2>1, UnderwaySteps DEF Meets
<1>4. Meets(r, Snapshot) => Meets(r, Snapshot)'
  <2>1. Meets(r, Snapshot) =>
          found[r] = position /\ mask[r] = bits[position]
    BY <1>2, SnapshotFields
  <2>2. found[r] = position /\ mask[r] = bits[position] => Meets(r, Snapshot)'
    <3>1. found[r] = position /\ mask[r] = bits[position] /\ assigned = {} =>
             mask[r] = SourceMask(Snapshot)
      BY SnapshotFields DEF SourceMask
    <3>2. QED
      BY <1>1, <3>1, SnapshotFields, UnderwaySteps DEF Meets, SourceMask
  <2>3. QED
    BY <2>1, <2>2
<1>5. \A s : Whole(s) /\ OneChange(s, Snapshot) /\ Meets(r, s) =>
             Meets(r, s)' \/ Meets(r, Snapshot)'
  <2> SUFFICES ASSUME NEW s, Whole(s), OneChange(s, Snapshot), Meets(r, s),
                      s.assigned # assigned
               PROVE  Meets(r, Snapshot)'
    BY <1>2, <1>3
  <2>1. position = s.position /\ bits = s.bits
    BY SnapshotFields DEF OneChange
  <2>2. Meets(r, Snapshot)
    BY <1>2, <2>1, SnapshotFields
  <2>3. QED
    BY <1>4, <2>2
<1>6. QED
  BY <1>1, <1>4, <1>5, SingleOnward, UnderwaySteps

\* Reading the roles completes the mask of the sources.
LEMMA MaskCompleted ==
    ASSUME NEW r \in Request, NEW s,
           mask[r] = s.bits[s.position], roles[r] = s.assigned,
           \A x \in roles[r] : bits[x] = s.bits[x]
    PROVE  mask[r] \union UNION {bits[x] : x \in roles[r]} = SourceMask(s)
<1>1. {bits[x] : x \in roles[r]} = {s.bits[x] : x \in s.assigned}
  OBVIOUS
<1>2. QED
  BY <1>1 DEF SourceMask

LEMMA ReadRolesSingle ==
    ASSUME TypeOK, ReferencesExist, NEW r \in Request, Single(r), ReadRoles(r)
    PROVE  Single(r)'
<1> DEFINE full == mask[r] \union UNION {bits[x] : x \in roles[r]}
<1>1. /\ pc[r] = "roles" /\ found'[r] = found[r] /\ Snapshot' = Snapshot /\ pc[r] \in Reading
      /\ witnessed'[r] = witnessed[r] /\ overlaps'[r] = overlaps[r] /\ overlaps[r] \in Nat
      /\ call'[r] = call[r] /\ assigned \subseteq Role /\ position \in Position
      /\ UNCHANGED <<assigned, bits, position>>
  BY ReadsOne DEF ReadRoles, NoWrite, tables, TypeOK
<1>2. \A s : Meets(r, s) <=>
             found[r] = s.position /\ mask[r] = s.bits[s.position] /\ roles[r] = s.assigned
  BY <1>1, UnderwaySteps DEF Meets
<1>3. Meets(r, Snapshot) =>
        /\ full = SourceMask(Snapshot) /\ found[r] = position /\ \A x \in roles[r] : Exists(x)
  <2> SUFFICES ASSUME Meets(r, Snapshot)
               PROVE  /\ full = SourceMask(Snapshot) /\ found[r] = position
                      /\ \A x \in roles[r] : Exists(x)
    OBVIOUS
  <2>1. /\ found[r] = position /\ mask[r] = Snapshot.bits[Snapshot.position]
        /\ roles[r] = Snapshot.assigned /\ roles[r] = assigned
    BY <1>2, SnapshotFields
  <2>2. full = SourceMask(Snapshot)
    BY <2>1, SnapshotFields, MaskCompleted
  <2>3. QED
    BY <2>1, <2>2 DEF ReferencesExist
<1>4. \A s : Whole(s) /\ OneChange(s, Snapshot) /\ Meets(r, s) =>
             \/ Meets(r, Snapshot)
             \/ /\ full = SourceMask(s) /\ found[r] = s.position /\ \A x \in roles[r] : Exists(x)
  <2> SUFFICES ASSUME NEW s, Whole(s), OneChange(s, Snapshot), Meets(r, s), ~Meets(r, Snapshot)
               PROVE  /\ full = SourceMask(s) /\ found[r] = s.position
                      /\ \A x \in roles[r] : Exists(x)
    OBVIOUS
  <2>1. found[r] = s.position /\ mask[r] = s.bits[s.position] /\ roles[r] = s.assigned
    BY <1>2
  <2>2. s.assigned \subseteq Role /\ s.position \in Position
    BY DEF Whole, SnapshotType
  <2>3. ~(found[r] = position /\ mask[r] = bits[position] /\ roles[r] = assigned)
    BY <1>2, SnapshotFields
  <2>4. \A x \in roles[r] : bits[x] = s.bits[x]
    <3>1. CASE bits = s.bits
      BY <3>1
    <3>2. CASE bits # s.bits
      <4>1. /\ position = s.position /\ assigned = s.assigned
            /\ \E x \in Source : \A y \in Source \ {x} : bits[y] = s.bits[y]
        BY <3>2, SnapshotFields DEF OneChange
      <4>2. PICK x \in Source : \A y \in Source \ {x} : bits[y] = s.bits[y]
        BY <4>1
      <4>3. bits[position] # s.bits[position]
        BY <2>1, <2>3, <4>1
      <4>4. x = position
        BY <1>1, <4>2, <4>3 DEF Source
      <4>5. \A y \in roles[r] : y \in Source \ {x}
        BY <1>1, <2>1, <2>2, <4>4, PermissionsAssumption DEF Source
      <4>6. QED
        BY <4>2, <4>5
    <3>3. QED
      BY <3>1, <3>2
  <2>5. full = SourceMask(s)
    BY <2>1, <2>4, MaskCompleted
  <2>6. QED
    BY <2>1, <2>4, <2>5 DEF Whole, Exists
<1>5. CASE \A x \in roles[r] : Exists(x)
  <2>1. pc'[r] = "overrides" /\ answer'[r] = answer[r] /\ mask'[r] = full
    BY <1>5 DEF ReadRoles, Go, TypeOK
  <2> HIDE DEF full
  <2>2. Meets(r, Snapshot) => Meets(r, Snapshot)'
    <3>1. found[r] = position /\ full = SourceMask(Snapshot) => Meets(r, Snapshot)'
      BY <1>1, <2>1, SnapshotFields, UnderwaySteps DEF Meets, SourceMask
    <3>2. QED
      BY <1>3, <3>1
  <2>3. \A s : Whole(s) /\ OneChange(s, Snapshot) /\ Meets(r, s) =>
               Meets(r, s)' \/ Meets(r, Snapshot)'
    <3>1. \A s : found[r] = s.position /\ full = SourceMask(s) => Meets(r, s)'
      BY <1>1, <2>1, UnderwaySteps DEF Meets
    <3>2. QED
      BY <1>4, <2>2, <3>1
  <2>4. QED
    BY <2>1, <2>2, <2>3, SingleOnward, UnderwaySteps
<1>6. CASE \E x \in roles[r] : ~Exists(x)
  <2>1. pc'[r] = "done"
    BY <1>6 DEF ReadRoles, Finish, TypeOK
  <2>2. ~(overlaps[r] <= 1)
    <3>1. overlaps[r] # 0
      BY <1>1, <1>3, <1>6 DEF Single
    <3>2. overlaps[r] # 1
      BY <1>1, <1>3, <1>4, <1>6 DEF Single
    <3>3. QED
      BY <1>1, <3>1, <3>2
  <2>3. QED
    BY <1>1, <2>1, <2>2, SingleOutside, UnderwaySteps, Names
<1>7. QED
  BY <1>5, <1>6

LEMMA ReadOverridesSingle ==
    ASSUME TypeOK, ReferencesExist, NEW r \in Request, Single(r), ReadOverrides(r)
    PROVE  Single(r)'
<1>1. /\ pc[r] = "overrides" /\ pc'[r] = "combine" /\ rows'[r] = overrides
      /\ answer'[r] = answer[r] /\ mask'[r] = mask[r] /\ found'[r] = found[r]
      /\ Snapshot' = Snapshot /\ UNCHANGED tables
  BY DEF ReadOverrides, Go, TypeOK, NoWrite, tables, Snapshot
<1>2. \A s : Meets(r, s) <=> found[r] = s.position /\ mask[r] = SourceMask(s)
  BY <1>1, UnderwaySteps DEF Meets
<1>3. \A s : /\ found[r] = s.position /\ mask[r] = SourceMask(s) /\ s.overrides = overrides
             => Meets(r, s)'
  BY <1>1, UnderwaySteps DEF Meets
<1>4. Meets(r, Snapshot) => Meets(r, Snapshot)'
  <2>1. Meets(r, Snapshot) => found[r] = position /\ mask[r] = SourceMask(Snapshot)
    BY <1>2, SnapshotFields
  <2>2. found[r] = position /\ mask[r] = SourceMask(Snapshot) => Meets(r, Snapshot)'
    BY <1>1, SnapshotFields, UnderwaySteps DEF Meets, SourceMask, tables
  <2>3. QED
    BY <2>1, <2>2
<1>5. \A s : Whole(s) /\ OneChange(s, Snapshot) /\ Meets(r, s) =>
             Meets(r, s)' \/ Meets(r, Snapshot)'
  <2> SUFFICES ASSUME NEW s, Whole(s), OneChange(s, Snapshot), Meets(r, s),
                      s.overrides # overrides
               PROVE  Meets(r, Snapshot)'
    BY <1>2, <1>3
  <2>1. position = s.position /\ bits = s.bits /\ assigned = s.assigned
    BY SnapshotFields DEF OneChange
  <2>2. Meets(r, Snapshot)
    BY <1>2, <2>1, SnapshotFields DEF SourceMask
  <2>3. QED
    BY <1>4, <2>2
<1>6. QED
  BY <1>1, <1>4, <1>5, SingleOnward, UnderwaySteps

LEMMA ReadAccountSingle ==
    ASSUME TypeOK, NEW r \in Request, Single(r), ReadAccount(r)
    PROVE  Single(r)'
<1>1. /\ pc[r] = "account" /\ pc'[r] = "position" /\ found'[r] = position
      /\ witnessed'[r] = {Snapshot} /\ answer'[r] = answer[r] /\ overlaps'[r] = overlaps[r]
      /\ call'[r] = call[r] /\ Snapshot' = Snapshot /\ position' = position
  BY DEF ReadAccount, Go, TypeOK, Snapshot, tables
<1>2. pc[r] \in Step /\ overlaps[r] = 0 /\ call[r].op \in Evaluation /\ answer[r].status = "none"
  BY <1>1, UnderwaySteps, Names DEF Single
<1>3. Meets(r, Snapshot)'
  BY <1>1, SnapshotFields, UnderwaySteps DEF Meets
<1>4. QED
  BY <1>1, <1>2, <1>3, UnderwaySteps DEF Single

\* _is_override_active is the window its columns describe.
LEMMA ActiveInForce ==
    ASSUME NEW row \in OverrideRow, NEW t \in Time
    PROVE  IsActive(row, t) <=> InForce(row, t)
<1>1. t \in Nat /\ row.starts \in {Open} \union Nat /\ row.expires \in {Open} \union Nat
  BY DEF Time, OverrideRow
<1>2. QED
  BY <1>1 DEF IsActive, InForce

\* Put together, a state read as a whole gives its effective mask.
LEMMA CombinedEffective ==
    ASSUME NEW s, Whole(s), NEW t \in Time
    PROVE  LET active == {o \in Override : s.overrides[o] # Gone /\ IsActive(s.overrides[o], t)}
           IN  Combine(SourceMask(s), UNION {s.overrides[o].allow : o \in active},
                       UNION {s.overrides[o].deny : o \in active}) = Effective(s, t)
<1> DEFINE active == {o \in Override : s.overrides[o] # Gone /\ IsActive(s.overrides[o], t)}
           live == {o \in Override : s.overrides[o] # Gone /\ InForce(s.overrides[o], t)}
           allowed == UNION {s.overrides[o].allow : o \in active}
           denied == UNION {s.overrides[o].deny : o \in active}
           granted == {b \in Bit : \/ \E x \in Source : Holds(s, x) /\ Carries(s, x, b)
                                   \/ \E o \in live : b \in s.overrides[o].allow}
<1>1. /\ s.overrides \in [Override -> {Gone} \union OverrideRow] /\ s.position \in Position
      /\ s.assigned \subseteq Role /\ s.bits \in [Source -> {Gone} \union SUBSET Bit]
      /\ s.bits[s.position] # Gone /\ \A x \in s.assigned : s.bits[x] # Gone
  BY DEF Whole, SnapshotType
<1>2. active = live
  BY <1>1, ActiveInForce
<1>3. \A o \in live : s.overrides[o].allow \subseteq Bit
  BY <1>1 DEF OverrideRow
<1>4. SourceMask(s) \subseteq Bit
  BY <1>1 DEF SourceMask, Source
<1>5. \A b \in Bit : b \in SourceMask(s) <=> \E x \in Source : Holds(s, x) /\ Carries(s, x, b)
  BY <1>1 DEF SourceMask, Source, Holds, Carries
<1>6. Effective(s, t) = {b \in granted : \A o \in live : b \notin s.overrides[o].deny}
  BY DEF Effective
<1> HIDE DEF live
<1>7. SourceMask(s) \union allowed = granted
  <2>1. allowed = UNION {s.overrides[o].allow : o \in live}
    BY <1>2
  <2>2. QED
    BY <1>3, <1>4, <1>5, <2>1
<1>8. \A b : b \in denied <=> \E o \in live : b \in s.overrides[o].deny
  BY <1>2
<1> HIDE DEF granted, allowed, denied
<1>9. Combine(SourceMask(s), allowed, denied) = Effective(s, t)
  BY <1>6, <1>7, <1>8 DEF Combine
<1>10. QED
  BY <1>9 DEF allowed, denied

LEMMA EvaluateSingle ==
    ASSUME TypeOK, NEW r \in Request, Single(r), Evaluate(r)
    PROVE  Single(r)'
<1> DEFINE t == IF call[r].op = "show" THEN now ELSE at[r]
           active == {o \in Override : rows[r][o] # Gone /\ IsActive(rows[r][o], t)}
           result == Combine(mask[r], UNION {rows[r][o].allow : o \in active},
                             UNION {rows[r][o].deny : o \in active})
<1>1. /\ pc[r] = "combine" /\ pc'[r] = "done" /\ at'[r] = t
      /\ answer'[r].status = "mask" /\ answer'[r].mask = result
      /\ witnessed'[r] = witnessed[r] /\ overlaps'[r] = overlaps[r] /\ t \in Time
  BY DEF Evaluate, TypeOK, NoWrite, history
<1>2. ASSUME overlaps[r] <= 1
      PROVE  \E s \in witnessed[r] : result = Effective(s, t)
  <2>1. PICK s \in witnessed[r] : Whole(s) /\ Meets(r, s)
    BY <1>1, <1>2 DEF Single
  <2>2. mask[r] = SourceMask(s) /\ rows[r] = s.overrides
    BY <1>1, <2>1 DEF Meets
  <2>3. result = Effective(s, t)
    BY <1>1, <2>1, <2>2, CombinedEffective
  <2>4. QED
    BY <2>3
<1> HIDE DEF t, result
<1>3. overlaps'[r] <= 1 => Instant(r)'
  BY <1>1, <1>2 DEF Instant
<1>4. QED
  BY <1>1, <1>3, UnderwaySteps, Names DEF Single

LEMMA NextSingle ==
    ASSUME TypeOK, ReferencesExist, \A q \in Request : Single(q), [Next]_vars
    PROVE  \A q \in Request : Single(q)'
<1>1. ASSUME NEW r \in Request, Begin(r) \/ Read(r) \/ Change(r) \/ Abort(r)
      PROVE  Single(r)'
  BY <1>1, BeginSingle, ChangeSingle, ReadAccountSingle, ReadPositionSingle,
     ReadAssignmentsSingle, ReadRolesSingle, ReadOverridesSingle, EvaluateSingle DEF Read
<1>2. QED
  BY <1>1, OthersWatch, SingleWatching, WritesOneChange

\* An evaluation that meets one write at most answers with the mask the account had at
\* an instant while it ran, and never fails: the reads come in the order of references,
\* and nothing that is referred to is deleted.
THEOREM OneWriteAtomic == Spec => []OneWriteIsAtomic
<1>1. Init => \A r \in Request : Single(r)
  <2> SUFFICES ASSUME Init, NEW r \in Request PROVE Single(r)
    OBVIOUS
  <2>1. pc[r] = "idle" /\ answer[r].status = "none" /\ overlaps[r] = 0
    BY DEF Init
  <2>2. QED
    BY <2>1, UnderwaySteps, Names DEF Single
<1>2. TypeOK /\ ReferencesExist /\ (\A r \in Request : Single(r)) /\ [Next]_vars =>
        (\A r \in Request : Single(r))'
  BY NextSingle
<1>3. (\A r \in Request : Single(r)) => OneWriteIsAtomic
  BY DEF Single, Instant, OneWriteIsAtomic
<1>4. QED
  BY <1>1, <1>2, <1>3, PermissionsTypeCorrect, PermissionReferencesExist, PTL DEF Spec
=============================================================================
