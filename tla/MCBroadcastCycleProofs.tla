------------------------ MODULE MCBroadcastCycleProofs ------------------------
(***************************************************************************)
(* One target through its confirmation cycle, for every length of the day, *)
(* offset, cutoff, deadline time, span of publication and age: what        *)
(* MCBroadcastCycle checks on half-hours follows from the calendar's       *)
(* theorems and from the clock never running behind a stamp.               *)
(***************************************************************************)
EXTENDS MCBroadcastCycle, BroadcastCycleProofs

\* Publication comes before any confirmation and neither is in the future, whether the
\* confirmation can be seen or not; there is one of them at a time.
ClockOK ==
    /\ createdAt \in Int
    /\ now \in Int
    /\ createdAt <= now
    /\ draft = {} \/ \E s \in createdAt .. now : draft = {s}
    /\ stamps = {} \/ \E s \in createdAt .. now : stamps = {s}
    /\ draft = {} \/ stamps = {}

\* The clock invariant holds in every reachable state.
LEMMA Clock == Spec => []ClockOK
<1>1. Init => ClockOK
  BY DEF Init, ClockOK
<1>2. ClockOK /\ [Next]_vars => ClockOK'
  <2> SUFFICES ASSUME ClockOK, [Next]_vars
               PROVE  ClockOK'
    OBVIOUS
  <2>1. CASE Tick
    BY <2>1 DEF Tick, ClockOK
  <2>2. CASE Stamp
    BY <2>2 DEF Stamp, ClockOK
  <2>3. CASE Confirm \/ RollBack
    BY <2>3 DEF Confirm, RollBack, ClockOK
  <2>4. CASE UNCHANGED vars
    BY <2>4 DEF vars, ClockOK
  <2> QED
    BY <2>1, <2>2, <2>3, <2>4 DEF Next
<1> QED
  BY <1>1, <1>2, PTL DEF Spec

\* Whenever a broadcast is published, its deadline is the first local DueTime that
\* leaves more than the time from the cutoff to the deadline.
\* (confirmation_day, confirmation_deadline)
THEOREM FirstDue == Spec => []DeadlineIsFirstDueAfterGrace
<1>1. ClockOK => DeadlineIsFirstDueAfterGrace
  <2> SUFFICES ASSUME ClockOK
               PROVE  DeadlineIsFirstDueAfterGrace
    OBVIOUS
  <2>1. createdAt \in Int
    BY DEF ClockOK
  <2>2. /\ deadline > createdAt + DueTime - Cutoff
        /\ deadline <= createdAt + DayLength + DueTime - Cutoff
    BY <2>1, DeadlineGrace DEF deadline
  <2>3. /\ (deadline + Offset) % DayLength = DueTime
        /\ \A t \in Int :
              (t + Offset) % DayLength = DueTime /\ t - createdAt > DueTime - Cutoff =>
                 deadline <= t
    BY <2>1, DeadlineFirst DEF deadline
  <2>4. deadline \in Int
    BY <2>1, DeadlineType DEF deadline
  <2>5. /\ deadline \in createdAt .. createdAt + 3 * DayLength
        /\ deadline - createdAt > DueTime - Cutoff
    BY <2>1, <2>2, <2>4, CalendarAssumption
  <2>6. deadline \in Due
    BY <2>3, <2>5 DEF Due
  <2>7. ASSUME NEW t \in Due, t - createdAt > DueTime - Cutoff
        PROVE  deadline <= t
    <3>1. t \in Int /\ (t + Offset) % DayLength = DueTime
      BY <2>1, CalendarAssumption DEF Due
    <3> QED
      BY <2>3, <2>7, <3>1
  <2> QED
    BY <2>5, <2>6, <2>7 DEF DeadlineIsFirstDueAfterGrace
<1> QED
  BY <1>1, Clock, PTL

\* Readers are shown states that go forward, and the verdict of a confirmation is that
\* of its stamp: an overdue target turns confirmed_on_time if and only if it was pending
\* at the stamp, however long the commit takes.  (confirmation_state, confirm)
THEOREM ShownForward == Spec => StateMovesForward
<1> DEFINE Forward ==
        /\ state = "pending" => state' # "confirmed_late"
        /\ state = "overdue" =>
              \/ state' = "overdue"
              \/ state' = "confirmed_on_time" /\ StampedWhilePending
              \/ state' = "confirmed_late" /\ ~StampedWhilePending
        /\ state \in {"confirmed_on_time", "confirmed_late"} => state' = state
<1>1. ASSUME ClockOK, [Next]_vars
      PROVE  [Forward]_vars
  <2>1. createdAt \in Int /\ now \in Int /\ deadline \in Int
    BY <1>1, DeadlineType DEF ClockOK, deadline
  <2>2. CASE Tick
    <3>1. deadline' = deadline /\ stamps' = stamps /\ now' = now + 1
      BY <2>2 DEF Tick, deadline
    <3>2. stamps = {} \/ \E s \in Int : stamps = {s}
      BY <1>1 DEF ClockOK
    <3> QED
      BY <2>1, <3>1, <3>2 DEF state, ConfirmationState
  <2>3. CASE Stamp \/ RollBack
    <3>1. deadline' = deadline /\ stamps' = stamps /\ now' = now
      BY <2>3 DEF Stamp, RollBack, deadline
    <3>2. state' = state
      BY <3>1 DEF state
    <3> QED
      BY <2>1, <3>2 DEF state, ConfirmationState
  <2>4. CASE Confirm
    <3>1. deadline' = deadline /\ stamps = {} /\ now' = now
      BY <1>1, <2>4 DEF Confirm, ClockOK, deadline
    <3>2. PICK s \in createdAt .. now : draft = {s} /\ stamps' = {s}
      BY <1>1, <2>4 DEF Confirm, ClockOK
    <3>3. state = IF now <= deadline THEN "pending" ELSE "overdue"
      BY <3>1 DEF state, ConfirmationState
    <3>4. state' = IF s <= deadline THEN "confirmed_on_time" ELSE "confirmed_late"
      BY <3>1, <3>2 DEF state, ConfirmationState
    <3>5. StampedWhilePending <=> s <= deadline
      BY <3>2 DEF StampedWhilePending, ConfirmationState
    <3>6. s <= now
      BY <2>1, <3>2
    <3> QED
      BY <2>1, <3>3, <3>4, <3>5, <3>6
  <2> QED
    BY <1>1, <2>2, <2>3, <2>4 DEF Next
<1> QED
  BY <1>1, Clock, PTL DEF Spec, StateMovesForward

\* What can still be confirmed in time is on the page of the current week, the Sunday
\* after the cutoff excepted.  (week_bounds against confirmation_deadline)
THEOREM BadgeCovers == Spec => []BadgeCoversPending
<1>1. ClockOK => BadgeCoversPending
  <2> SUFFICES ASSUME ClockOK, state = "pending",
                      ~(/\ (createdAt + Offset) % Week >= 6 * DayLength
                        /\ (createdAt + Offset) % DayLength >= Cutoff)
               PROVE  InWeekOf(createdAt, now)
    BY DEF BadgeCoversPending
  <2>1. createdAt \in Int /\ now \in Int /\ createdAt <= now
    BY DEF ClockOK
  <2>2. now <= ConfirmationDeadline(createdAt)
    BY DEF state, deadline, ConfirmationState
  <2> QED
    BY <2>1, <2>2, PendingOnPage
<1> QED
  BY <1>1, Clock, PTL

\* A broadcast is on the page of an instant exactly when one local Monday to Monday holds
\* both.  (week_bounds)
THEOREM WeekPages == Spec => []WeekPagesPartition
<1>1. ClockOK => WeekPagesPartition
  BY PagesPartition DEF ClockOK, WeekPagesPartition
<1> QED
  BY <1>1, Clock, PTL
=============================================================================
