------------------------- MODULE BroadcastCycleProofs -------------------------
(***************************************************************************)
(* The calendar for every length of the day, offset, cutoff and deadline   *)
(* time: facts the state machines' proofs use, and what MCBroadcastCycle   *)
(* checks on the half-hours of one week.                                   *)
(***************************************************************************)
EXTENDS BroadcastCycle, TLAPS

\* The wall clock shows a time of the day.
LEMMA TimeOfDayRange ==
    ASSUME NEW t \in Int
    PROVE  TimeOfDay(t) \in 0 .. DayLength - 1
BY CalendarAssumption DEF TimeOfDay, Local

LEMMA DeadlineType ==
    ASSUME NEW t \in Int
    PROVE  ConfirmationDeadline(t) \in Int
BY TimeOfDayRange, CalendarAssumption
DEF ConfirmationDeadline, ConfirmationDay, LocalDay, Local

\* Whoever publishes, at whatever instant, leaves the group more than the time
\* from the cutoff to the deadline, and at most a day more than that.
\* (confirmation_deadline)
THEOREM DeadlineGrace ==
    ASSUME NEW t \in Int
    PROVE  /\ ConfirmationDeadline(t) > t + DueTime - Cutoff
           /\ ConfirmationDeadline(t) <= t + DayLength + DueTime - Cutoff
<1>1. TimeOfDay(t) \in 0 .. DayLength - 1
  BY TimeOfDayRange
<1>2. ConfirmationDeadline(t)
        = t - TimeOfDay(t) + DueTime
            + IF TimeOfDay(t) >= Cutoff THEN DayLength ELSE 0
  BY <1>1, CalendarAssumption
  DEF ConfirmationDeadline, ConfirmationDay, LocalDay, Local
<1> QED
  BY <1>1, <1>2, CalendarAssumption

\* A broadcast is on the page of the week it is published in, and the weeks of
\* two instants are the same or do not meet.  (week_bounds)
LEMMA OwnWeek ==
    ASSUME NEW t \in Int
    PROVE  InWeekOf(t, t)
<1>1. Week \in Nat \ {0}
  BY CalendarAssumption DEF Week
<1>2. Local(t) \in Int
  BY CalendarAssumption DEF Local
<1>3. Local(t) % Week \in 0 .. Week - 1
  BY <1>1, <1>2
<1> QED
  BY <1>1, <1>3 DEF InWeekOf, WeekStart, WeekEnd

\* What a reader is shown moves forward whatever the deadline: time alone turns
\* pending into overdue, a confirmation turns either into a final state, and one
\* stamped after the deadline is never shown as on time.  (confirmation_state)
THEOREM StateForward ==
    ASSUME NEW deadline \in Int, NEW now \in Int, NEW later \in Int, NEW stamp \in Int,
           later >= now
    PROVE  /\ ConfirmationState(deadline, {}, later) = "pending" =>
                 ConfirmationState(deadline, {}, now) = "pending"
           /\ ConfirmationState(deadline, {stamp}, now)
                 = ConfirmationState(deadline, {stamp}, later)
           /\ stamp >= now /\ ConfirmationState(deadline, {}, now) = "overdue" =>
                 ConfirmationState(deadline, {stamp}, later) = "confirmed_late"
BY DEF ConfirmationState
-----------------------------------------------------------------------------
(* Division by any day or week. *)

LEMMA DivMod ==
    ASSUME NEW d \in Nat \ {0}, NEW n \in Int
    PROVE  n \div d \in Int /\ n % d \in 0 .. d - 1 /\ n = d * (n \div d) + (n % d)
OBVIOUS

LEMMA MulSign ==
    ASSUME NEW d \in Nat \ {0}, NEW k \in Int
    PROVE  /\ k >= 0 => d * k >= 0
           /\ k >= 1 => d * k >= d
           /\ k <= -1 => d * k <= -d
OBVIOUS

\* Quotient and remainder are what they are found to be.
LEMMA DivModUnique ==
    ASSUME NEW d \in Nat \ {0}, NEW q \in Int, NEW r \in 0 .. d - 1
    PROVE  (d * q + r) \div d = q /\ (d * q + r) % d = r
<1> DEFINE n == d * q + r
           k == q - n \div d
<1>1. n \in Int /\ d * q \in Int
  OBVIOUS
<1> HIDE DEF n
<1>2. n \div d \in Int /\ n % d \in 0 .. d - 1 /\ n = d * (n \div d) + (n % d)
  BY <1>1, DivMod
<1>3. d * q - d * (n \div d) = (n % d) - r
  BY <1>1, <1>2 DEF n
<1>4. d * q - d * (n \div d) = d * k
  BY <1>2
<1>5. k \in Int
  BY <1>2
<1> HIDE DEF k
<1>6. d * k < d /\ d * k > -d
  <2>1. d * k = (n % d) - r
    BY <1>3, <1>4
  <2> QED
    BY <1>2, <2>1
<1>7. (k >= 1 => d * k >= d) /\ (k <= -1 => d * k <= -d)
  BY <1>5, MulSign
<1>8. k = 0
  <2> DEFINE p == d * k
  <2>1. p \in Int /\ p < d /\ p > -d /\ (k >= 1 => p >= d) /\ (k <= -1 => p <= -d)
    BY <1>5, <1>6, <1>7
  <2> HIDE DEF p
  <2> QED
    BY <1>5, <2>1
<1> QED
  BY <1>2, <1>3, <1>4, <1>8 DEF k, n

-----------------------------------------------------------------------------
(* Deadlines and weeks as instants. *)

\* The wall clock: whole days and a time of the day.
LEMMA LocalSplit ==
    ASSUME NEW t \in Int
    PROVE  /\ t + Offset \in Int /\ (t + Offset) \div DayLength \in Int
           /\ TimeOfDay(t) \in 0 .. DayLength - 1 /\ TimeOfDay(t) = (t + Offset) % DayLength
           /\ t + Offset = DayLength * ((t + Offset) \div DayLength) + TimeOfDay(t)
<1>1. DayLength \in Nat \ {0} /\ t + Offset \in Int
  BY CalendarAssumption
<1>2. TimeOfDay(t) = (t + Offset) % DayLength
  BY DEF TimeOfDay, Local
<1> DEFINE n == t + Offset
<1>3. n \in Int
  BY <1>1
<1> HIDE DEF n
<1>4. /\ n \div DayLength \in Int /\ n % DayLength \in 0 .. DayLength - 1
      /\ n = DayLength * (n \div DayLength) + (n % DayLength)
  BY <1>1, <1>3, DivMod
<1> QED
  BY <1>1, <1>2, <1>4 DEF n

\* The deadline is DueTime on a day of the wall clock, and no instant at DueTime comes
\* before it that leaves the group more than the time from the cutoff to the deadline.
\* (confirmation_day, confirmation_deadline)
THEOREM DeadlineFirst ==
    ASSUME NEW c \in Int
    PROVE  /\ (ConfirmationDeadline(c) + Offset) % DayLength = DueTime
           /\ \A t \in Int :
                 (t + Offset) % DayLength = DueTime /\ t - c > DueTime - Cutoff =>
                    ConfirmationDeadline(c) <= t
<1> DEFINE d == DayLength
           q == (c + Offset) \div d
           m == TimeOfDay(c)
           day == IF m >= Cutoff THEN q + 1 ELSE q
<1>1. /\ q \in Int /\ m \in 0 .. d - 1 /\ c + Offset = d * q + m
      /\ d \in Nat \ {0} /\ Offset \in 0 .. d - 1 /\ Cutoff \in 0 .. d - 1
      /\ DueTime \in Cutoff .. d - 1
  BY LocalSplit, CalendarAssumption
<1>2. ConfirmationDeadline(c) = (c + Offset) - m + (IF m >= Cutoff THEN d ELSE 0) + DueTime - Offset
  BY <1>1, CalendarAssumption DEF ConfirmationDeadline, ConfirmationDay, LocalDay, Local
<1> HIDE DEF d, q, m
<1>3. day \in Int /\ d * (q + 1) = d * q + d /\ d * q \in Int
  BY <1>1
<1>4. d * day = d * q + (IF m >= Cutoff THEN d ELSE 0) /\ d * day \in Int
  BY <1>1, <1>3
<1>5. ConfirmationDeadline(c) + Offset = d * day + DueTime
  BY <1>1, <1>2, <1>3, <1>4
<1> HIDE DEF day
<1>6. DueTime \in 0 .. d - 1
  BY <1>1
<1>7. (ConfirmationDeadline(c) + Offset) % d = DueTime
  BY <1>1, <1>3, <1>5, <1>6, DivModUnique
<1>8. ASSUME NEW t \in Int, (t + Offset) % d = DueTime, t - c > DueTime - Cutoff
      PROVE  ConfirmationDeadline(c) <= t
  <2> DEFINE k == (t + Offset) \div d
             j == k - day
  <2>1. k \in Int /\ t + Offset = d * k + DueTime
    BY <1>1, <1>8, DivMod
  <2> HIDE DEF k
  <2>2. j \in Int /\ d * j = d * k - d * day /\ d * k \in Int
    BY <1>1, <1>3, <2>1
  <2>3. (j >= 0 => d * j >= 0) /\ (j <= -1 => d * j <= -d)
    BY <1>1, <2>2, MulSign
  <2> HIDE DEF j
  <2> DEFINE u == d * k
             v == d * q
             w == d * day
             x == d * j
  <2>4. /\ u \in Int /\ v \in Int /\ w \in Int /\ x = u - w
        /\ t + Offset = u + DueTime /\ c + Offset = v + m
        /\ w = v + (IF m >= Cutoff THEN d ELSE 0)
        /\ (j >= 0 => x >= 0) /\ (j <= -1 => x <= -d)
        /\ ConfirmationDeadline(c) + Offset = w + DueTime
    BY <1>1, <1>3, <1>4, <1>5, <2>1, <2>2, <2>3
  <2> HIDE DEF u, v, w, x
  <2>5. x > -d
    BY <1>1, <1>8, <2>4
  <2>6. x >= 0
    BY <1>1, <2>2, <2>4, <2>5
  <2>7. ConfirmationDeadline(c) \in Int
    BY DeadlineType
  <2> QED
    BY <1>1, <2>4, <2>6, <2>7
<1> QED
  BY <1>7, <1>8 DEF d

\* Two instants are on one page exactly when both lie between the same two Mondays of
\* the wall clock.  (week_bounds)
THEOREM PagesPartition ==
    ASSUME NEW c \in Int, NEW t \in Int
    PROVE  InWeekOf(c, t) <=> (c + Offset) \div Week = (t + Offset) \div Week
<1> DEFINE w == Week
           p == (c + Offset) \div w
           q == (t + Offset) \div w
           a == (c + Offset) % w
           b == (t + Offset) % w
           j == p - q
<1>1. w \in Nat \ {0} /\ c + Offset \in Int /\ t + Offset \in Int /\ Offset \in Int
  BY CalendarAssumption DEF Week
<1>2. /\ p \in Int /\ a \in 0 .. w - 1 /\ c + Offset = w * p + a
      /\ q \in Int /\ b \in 0 .. w - 1 /\ t + Offset = w * q + b
  BY <1>1, DivMod
<1>3. InWeekOf(c, t) <=> c >= t - b /\ c < (t - b) + w
  BY DEF InWeekOf, WeekStart, WeekEnd, Local
<1> HIDE DEF w, p, q, a, b
<1>4. j \in Int /\ w * j = w * p - w * q /\ w * p \in Int /\ w * q \in Int
  BY <1>1, <1>2
<1>5. (j >= 1 => w * j >= w) /\ (j <= -1 => w * j <= -w) /\ (j = 0 => w * j = 0)
  BY <1>1, <1>4, MulSign
<1>6. j = 0 <=> p = q
  BY <1>2
<1> HIDE DEF j
<1> DEFINE x == w * j
           y == w * p
           z == w * q
<1>7. /\ x = y - z /\ y \in Int /\ z \in Int /\ c + Offset = y + a /\ t + Offset = z + b
      /\ (j >= 1 => x >= w) /\ (j <= -1 => x <= -w) /\ (j = 0 => x = 0)
  BY <1>2, <1>4, <1>5
<1> HIDE DEF x, y, z
<1>8. InWeekOf(c, t) <=> x + a >= 0 /\ x + a < w
  BY <1>1, <1>2, <1>3, <1>7
<1>9. x + a >= 0 /\ x + a < w <=> j = 0
  BY <1>1, <1>2, <1>4, <1>7
<1> QED
  BY <1>6, <1>8, <1>9 DEF p, q, w

\* The time of the day within the week, and how many whole days come before it.
LEMMA WeekDay ==
    ASSUME NEW t \in Int
    PROVE  LET w == (t + Offset) % Week
               m == (t + Offset) % DayLength
           IN  \E i \in 0 .. 6 : w = DayLength * i + m
<1> DEFINE d == DayLength
           n == t + Offset
           k == n \div Week
           w == n % Week
           i == w \div d
           m == w % d
<1>1. d \in Nat \ {0} /\ Week \in Nat \ {0} /\ Week = 7 * d /\ n \in Int
  BY CalendarAssumption DEF Week
<1>2. k \in Int /\ w \in 0 .. Week - 1 /\ n = Week * k + w
  BY <1>1, DivMod
<1> HIDE DEF d, n, k, w
<1>3. i \in Int /\ m \in 0 .. d - 1 /\ w = d * i + m
  BY <1>1, <1>2, DivMod
<1> HIDE DEF i, m
<1>4. /\ 7 * k + i \in Int /\ d * (7 * k + i) = Week * k + d * i
  BY <1>1, <1>2, <1>3
<1>5. n = d * (7 * k + i) + m
  BY <1>1, <1>2, <1>3, <1>4
<1>6. n % d = m
  BY <1>1, <1>3, <1>4, <1>5, DivModUnique
<1>7. i \in 0 .. 6
  <2>1. i <= -1 => d * i <= -d
    BY <1>1, <1>3, MulSign
  <2>2. i >= 7 => d * i >= 7 * d
    <3>1. i - 7 >= 0 => d * (i - 7) >= 0
      BY <1>1, <1>3, MulSign
    <3>2. d * (i - 7) = d * i - 7 * d
      BY <1>1, <1>3
    <3>3. QED
      BY <1>1, <1>3, <3>1, <3>2
  <2> DEFINE x == d * i
  <2>3. /\ w = x + m /\ x \in Int /\ w \in 0 .. 7 * d - 1 /\ (i <= -1 => x <= -d)
        /\ (i >= 7 => x >= 7 * d)
    BY <1>1, <1>2, <1>3, <2>1, <2>2
  <2> HIDE DEF x
  <2>4. QED
    BY <1>1, <1>3, <2>3
<1> QED
  BY <1>3, <1>6, <1>7 DEF w, n, d

\* As long as a broadcast can still be confirmed in time it is on the page of the current
\* week, unless it was published on a Sunday from the cutoff on.
\* (week_bounds against confirmation_deadline)
THEOREM PendingOnPage ==
    ASSUME NEW c \in Int, NEW t \in Int, c <= t, t <= ConfirmationDeadline(c),
           ~(/\ (c + Offset) % Week >= 6 * DayLength
             /\ (c + Offset) % DayLength >= Cutoff)
    PROVE  InWeekOf(c, t)
<1> DEFINE d == DayLength
           w == (c + Offset) % Week
           m == (c + Offset) % d
           k == (c + Offset) \div Week
           left == t + Offset - Week * k
<1>1. /\ d \in Nat \ {0} /\ Week \in Nat \ {0} /\ Week = 7 * d /\ Offset \in 0 .. d - 1
      /\ Cutoff \in 0 .. d - 1 /\ DueTime \in 0 .. d - 1 /\ c + Offset \in Int
  BY CalendarAssumption DEF Week
<1>2. k \in Int /\ w \in 0 .. Week - 1 /\ c + Offset = Week * k + w
  BY <1>1, DivMod
<1>3. m \in 0 .. d - 1
  BY <1>1, DivMod
<1>4. PICK i \in 0 .. 6 : w = d * i + m
  BY WeekDay
<1>5. ConfirmationDeadline(c)
        = (c + Offset) - m + (IF m >= Cutoff THEN d ELSE 0) + DueTime - Offset
  BY <1>1, <1>3 DEF ConfirmationDeadline, ConfirmationDay, LocalDay, TimeOfDay, Local
<1>6. ~(w >= 6 * d /\ m >= Cutoff)
  OBVIOUS
<1> HIDE DEF d, w, m, k
<1>7. Week * k \in Int /\ left \in Int /\ left >= w
  BY <1>1, <1>2
<1>8. left <= d * i + (IF m >= Cutoff THEN d ELSE 0) + DueTime
  <2>1. d * i \in Int
    BY <1>1
  <2>2. QED
    BY <1>1, <1>2, <1>3, <1>4, <1>5, <1>7, <2>1
<1>9. left < 7 * d
  <2>1. i = 0 \/ i = 1 \/ i = 2 \/ i = 3 \/ i = 4 \/ i = 5 \/ i = 6
    OBVIOUS
  <2>2. i <= 5 => d * i <= 5 * d
    BY <1>1, <2>1
  <2>3. i = 6 => d * i = 6 * d
    BY <1>1
  <2> DEFINE x == d * i
  <2>4. /\ left <= x + (IF m >= Cutoff THEN d ELSE 0) + DueTime /\ x \in Int
        /\ (i <= 5 => x <= 5 * d) /\ (i = 6 => x = 6 * d) /\ w = x + m
    BY <1>1, <1>4, <1>8, <2>2, <2>3
  <2> HIDE DEF x
  <2>5. CASE i <= 5
    BY <1>1, <1>7, <2>4, <2>5
  <2>6. CASE i = 6
    BY <1>1, <1>3, <1>6, <1>7, <2>4, <2>6
  <2>7. QED
    BY <2>1, <2>5, <2>6
<1>10. left \in 0 .. Week - 1 /\ t + Offset = Week * k + left
  BY <1>1, <1>2, <1>7, <1>9
<1> HIDE DEF left
<1>11. (t + Offset) \div Week = k
  <2>1. Week \in Nat \ {0} /\ k \in Int /\ left \in 0 .. Week - 1
    BY <1>1, <1>2, <1>10
  <2>2. (Week * k + left) \div Week = k
    BY <2>1, DivModUnique
  <2>3. t + Offset = Week * k + left
    BY <1>10
  <2>4. QED
    BY <2>2, <2>3
<1> QED
  BY <1>11, PagesPartition DEF k
=============================================================================
