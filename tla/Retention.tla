------------------------------ MODULE Retention ------------------------------
(***************************************************************************)
(* The retention period of a hardcopy: how DocumentsService sets it when   *)
(* the document is saved, and what it tells, day by day, of the years,     *)
(* months and days that remain.  A date is a number of days; adding months *)
(* to one does what Date.setUTCMonth does, which runs over into the month  *)
(* after when the month has no such day.                                   *)
(***************************************************************************)
EXTENDS Integers, FiniteSets

CONSTANTS
  FirstYear, Years,  \* bound: the calendar, which starts on 1 January FirstYear
  Date, NoDate       \* the dates a retention period is set to

VARIABLES
  today,
  hardcopy  \* retention_enabled, retention_start_date, retention_end_date

periodVars == <<today, hardcopy>>

-----------------------------------------------------------------------------
(* The calendar *)

Leap(y) == y % 4 = 0 /\ (y % 100 # 0 \/ y % 400 = 0)

\* The days of a year before its month m, counted from 0
Before(y, m) ==
  <<0, 31, 59, 90, 120, 151, 181, 212, 243, 273, 304, 334>>[m + 1] + (IF m > 1 /\ Leap(y) THEN 1 ELSE 0)

\* The first day of month k of the calendar
MonthStart(k) ==
  LET y == k \div 12
  IN 365 * y + Cardinality({i \in 0 .. y - 1 : Leap(FirstYear + i)}) + Before(FirstYear + y, k % 12)

MonthLength(k) == MonthStart(k + 1) - MonthStart(k)

LastDay == MonthStart(12 * Years) - 1

Calendar == 0 .. LastDay

ASSUME RetentionAssumption == FirstYear \in Nat /\ Years \in Nat \ {0} /\ Date \subseteq Calendar

MonthOf(d) == CHOOSE k \in d \div 31 .. d \div 31 + Years : MonthStart(k) <= d /\ d < MonthStart(k + 1)

\* Counted from 0
DayOfMonth(d) == d - MonthStart(MonthOf(d))

\* addUtcYears is addUtcMonths by twelve
AddMonths(d, n) == MonthStart(MonthOf(d) + n) + DayOfMonth(d)

-----------------------------------------------------------------------------
(* retentionDuration *)

Reaches(d, n, to) == MonthOf(d) + n < 12 * Years /\ AddMonths(d, n) <= to

\* The cursor after at most `most` steps of n months, and how many were taken
Walk(from, n, to, most) ==
  LET walk[i \in 0 .. most] ==
        IF i = 0 THEN [at |-> from, steps |-> 0]
        ELSE LET w == walk[i - 1]
             IN IF Reaches(w.at, n, to) THEN [at |-> AddMonths(w.at, n), steps |-> w.steps + 1]
                ELSE w
  IN walk[most]

\* Mutant: the fields are subtracted, days that would be negative are 0
Duration_ByFields(from, to) ==
  LET months == MonthOf(to) - MonthOf(from)
  IN [years |-> months \div 12, months |-> months % 12,
      days  |-> IF DayOfMonth(to) < DayOfMonth(from) THEN 0 ELSE DayOfMonth(to) - DayOfMonth(from)]

retentionDuration(from, to) ==
  LET y == Walk(from, 12, to, Years)
      m == Walk(y.at, 1, to, 12)
  IN [years |-> y.steps, months |-> m.steps, days |-> to - m.at]

-----------------------------------------------------------------------------

NoRetention == [enabled |-> FALSE, start |-> NoDate, end |-> NoDate]

\* resolveRetentionData: an update that names a date but not that it is enabled disables it
SetRetention(enabled, start, end) ==
  /\ IF enabled
     THEN /\ start <= end
          /\ hardcopy' = [enabled |-> TRUE, start |-> start, end |-> end]
     ELSE hardcopy' = NoRetention
  /\ UNCHANGED today

DayPasses ==
  /\ today < LastDay /\ today' = today + 1
  /\ UNCHANGED hardcopy

RetentionInit == today = 0 /\ hardcopy = NoRetention

RetentionNext ==
  \/ DayPasses
  \/ SetRetention(FALSE, NoDate, NoDate)
  \/ \E start, end \in Date : SetRetention(TRUE, start, end)

RetentionSpec == RetentionInit /\ [][RetentionNext]_periodVars

\* withHardcopyRetention: expired on the day after the last
Runs(h, d) == h.enabled /\ d <= h.end

-----------------------------------------------------------------------------
(* Properties *)

\* What remains is told in years, at most 11 months and at most 30 days.
Normal(r) == r.months <= 11 /\ r.days <= 30

Less(r, s) ==
  \/ r.years < s.years
  \/ r.years = s.years /\ r.months < s.months
  \/ r.years = s.years /\ r.months = s.months /\ r.days < s.days

\* What remains is less every day, from the first of a month to its 29th, and carried
\* from days to months to years; after that the months that run over may leave it or
\* raise it.
CountdownFalls ==
  [][today' # today /\ Runs(hardcopy, today') =>
       LET r == retentionDuration(today', hardcopy.end) IN
       /\ Normal(r)
       /\ DayOfMonth(today) < 28 => Less(r, retentionDuration(today, hardcopy.end))]_periodVars

-----------------------------------------------------------------------------
(* Inductive invariant *)

PeriodInv ==
  /\ today \in Calendar
  /\ hardcopy.enabled \in BOOLEAN /\ (hardcopy.enabled => hardcopy.end \in Calendar)

=============================================================================
