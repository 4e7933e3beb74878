--------------------------- MODULE MCBroadcastCycle ---------------------------
(***************************************************************************)
(* One target of one broadcast through its confirmation cycle, in ticks of *)
(* half an hour over a bit more than a week: the broadcast is published at *)
(* any instant of the span, the clock runs on for MaxAge ticks, and the    *)
(* group confirms at any instant or never.  A confirmation is stamped      *)
(* before its insert, which may wait, and is seen from its commit on.      *)
(***************************************************************************)
EXTENDS BroadcastCycle

CONSTANTS
    Span,    \* publication happens in 0 .. Span
    MaxAge   \* ticks the clock runs on after publication

ASSUME SpanAssumption == Span \in Nat /\ MaxAge \in Nat

VARIABLES
    createdAt,
    now,
    draft,    \* the stamp of a confirmation on its way, as a set
    stamps    \* and of the one that is committed
vars == <<createdAt, now, draft, stamps>>

deadline == ConfirmationDeadline(createdAt)
state == ConfirmationState(deadline, stamps, now)

Init ==
    /\ createdAt \in 0 .. Span
    /\ now = createdAt
    /\ draft = {}
    /\ stamps = {}

Tick ==
    /\ now < createdAt + MaxAge
    /\ now' = now + 1
    /\ UNCHANGED <<createdAt, draft, stamps>>

\* confirm reads the clock for the row it inserts.
Stamp ==
    /\ draft = {} /\ stamps = {}
    /\ draft' = {now}
    /\ UNCHANGED <<createdAt, now, stamps>>

\* Readers see the row when it is committed ...
Confirm ==
    /\ draft # {}
    /\ stamps' = draft /\ draft' = {}
    /\ UNCHANGED <<createdAt, now>>

\* ... or never: the transaction rolls back, and the target can be confirmed anew.
RollBack ==
    /\ draft # {}
    /\ draft' = {}
    /\ UNCHANGED <<createdAt, now, stamps>>

Next == Tick \/ Stamp \/ Confirm \/ RollBack
Spec == Init /\ [][Next]_vars

-----------------------------------------------------------------------------
\* The instants at which a local day's deadline falls: 16:30 in Taipei.
Due == {t \in createdAt .. createdAt + 3 * DayLength :
            (t + Offset) % DayLength = DueTime}

\* A broadcast gets the first 16:30 that is more than an hour and a half away:
\* 15:00 sharp is already tomorrow's, and no publication time, local midnight
\* and the end of the week included, loses or gains a day.
\* (confirmation_day, confirmation_deadline)
DeadlineIsFirstDueAfterGrace ==
    LET open == {t \in Due : t - createdAt > DueTime - Cutoff}
    IN  deadline \in open /\ \A t \in open : deadline <= t

\* Who looked at the instant of the stamp was shown a target still pending.
StampedWhilePending == \E s \in draft : ConfirmationState(deadline, {}, s) = "pending"

\* What readers are shown goes forward: a confirmed target is final, an overdue one
\* is not pending again, and a pending one does not become confirmed_late at once.
\* The stamp decides, not the commit: overdue becomes confirmed_on_time exactly if
\* the confirmation was stamped while the target was pending, the deadline itself
\* included, and else confirmed_late.
\* (confirmation_state, BroadcastConfirmationService.confirm)
StateMovesForward ==
    [][ /\ state = "pending" => state' # "confirmed_late"
        /\ state = "overdue" =>
              \/ state' = "overdue"
              \/ state' = "confirmed_on_time" /\ StampedWhilePending
              \/ state' = "confirmed_late" /\ ~StampedWhilePending
        /\ state \in {"confirmed_on_time", "confirmed_late"} => state' = state
      ]_vars

\* While a target may still be confirmed in time the badge of the current week
\* counts it, with one exception that the two calendars make unavoidable: a
\* broadcast published on a Sunday from the cutoff on is due on the Monday of
\* the next page.  (week_bounds against confirmation_deadline)
BadgeCoversPending ==
    LET sundayAfterCutoff ==
            /\ (createdAt + Offset) % Week >= 6 * DayLength
            /\ (createdAt + Offset) % DayLength >= Cutoff
    IN  state = "pending" /\ ~sundayAfterCutoff => InWeekOf(createdAt, now)

\* Pages of two weeks share no broadcast and skip none: a broadcast is on the
\* page of an instant exactly when both lie between the same two local Mondays.
\* (week_bounds)
WeekPagesPartition ==
    InWeekOf(createdAt, now)
        <=> (createdAt + Offset) \div Week = (now + Offset) \div Week

=============================================================================
