---------------------------- MODULE BroadcastCycle ----------------------------
(***************************************************************************)
(* The calendar of the notice board: which day is responsible for          *)
(* confirming a broadcast, when that day's deadline falls, how the state   *)
(* of a target is derived from the stored stamps and the reader's clock,   *)
(* and which display week a broadcast belongs to.                          *)
(*   src/database/broadcast_cycle.py, week_bounds in                       *)
(*   src/routes/broadcast.py                                               *)
(*                                                                         *)
(* An instant is a number of ticks of stored (UTC) time, counted from a    *)
(* Monday 00:00 UTC.  Asia/Taipei has one fixed offset and no daylight     *)
(* saving, so local time is UTC plus Offset.                               *)
(***************************************************************************)
EXTENDS Integers

CONSTANTS
    DayLength,  \* ticks in a day
    Offset,     \* Taipei minus UTC (8 hours), in ticks
    Cutoff,     \* local time of day from which tomorrow is responsible (15:00)
    DueTime     \* local time of day of the deadline (16:30)

ASSUME CalendarAssumption ==
    /\ DayLength \in Nat \ {0}
    /\ Offset \in 0 .. DayLength - 1
    /\ Cutoff \in 0 .. DayLength - 1
    /\ DueTime \in Cutoff .. DayLength - 1

Week == 7 * DayLength

\* The wall clock in Taipei, and the local day it shows (as that day's
\* midnight on the local scale).
Local(t) == t + Offset
TimeOfDay(t) == Local(t) % DayLength
LocalDay(t) == Local(t) - TimeOfDay(t)

\* Slip: the cutoff itself still belongs to today.
ConfirmationDaySlip(createdAt) ==
    LocalDay(createdAt)
        + IF TimeOfDay(createdAt) > Cutoff THEN DayLength ELSE 0

\* The responsibility day, as a local midnight: today before the cutoff,
\* tomorrow from the cutoff on.
ConfirmationDay(createdAt) ==
    LocalDay(createdAt)
        + IF TimeOfDay(createdAt) >= Cutoff THEN DayLength ELSE 0

\* DueTime on the responsibility day, back in stored time.
ConfirmationDeadline(createdAt) == ConfirmationDay(createdAt) + DueTime - Offset

ConfirmationStates == {"pending", "confirmed_on_time", "overdue", "confirmed_late"}

\* Slip: at the deadline itself a target is shown overdue but confirms in time.
ConfirmationStateSlip(deadline, stamps, now) ==
    IF stamps # {}
    THEN IF \A s \in stamps : s <= deadline
         THEN "confirmed_on_time" ELSE "confirmed_late"
    ELSE IF now < deadline THEN "pending" ELSE "overdue"

\* stamps holds the confirmed_at of the target's confirmation, or nothing.
ConfirmationState(deadline, stamps, now) ==
    IF stamps # {}
    THEN IF \A s \in stamps : s <= deadline
         THEN "confirmed_on_time" ELSE "confirmed_late"
    ELSE IF now <= deadline THEN "pending" ELSE "overdue"

\* Slips: the week cut at Monday 00:00 UTC; a page of six days.
WeekStartSlip(t) == t - (t % Week)
WeekEndSlip(t) == t - (Local(t) % Week) + 6 * DayLength

\* The display week that contains t: Monday 00:00 local to the next one.
WeekStart(t) == t - (Local(t) % Week)
WeekEnd(t) == WeekStart(t) + Week

\* Whether a broadcast is on the page (and, while unconfirmed, in the pending
\* badge) of the week that contains t.
InWeekOf(createdAt, t) == createdAt >= WeekStart(t) /\ createdAt < WeekEnd(t)
=============================================================================
