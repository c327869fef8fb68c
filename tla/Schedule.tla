------------------------------ MODULE Schedule ------------------------------
(***************************************************************************)
(* The scheduling arithmetic (src/lib/schedule.ts).  An instant is a       *)
(* number; a zone is the number of hours its clocks are ahead.  A local    *)
(* day has HoursPerDay hours, one more when the clocks go back in it and   *)
(* one less when they go forward.  A window is given in hours on the wall  *)
(* clock, and the code adds them to midnight as hours that pass.           *)
(***************************************************************************)
EXTENDS Integers, FiniteSets, FiniteSetsExt, Sequences, SequencesExt

CONSTANTS HoursPerDay,  \* 24 in the program
          DaysPerWeek,  \* 7 in the program
          ChangeHour,   \* the hour of the night at which clocks are changed
          LongDays,     \* the days on which they go back
          ShortDays     \* the days on which they go forward

ASSUME ScheduleAssumption ==
    /\ HoursPerDay \in Nat /\ HoursPerDay > 2 /\ DaysPerWeek \in 1 .. HoursPerDay
    /\ ChangeHour \in 1 .. HoursPerDay - 2
    /\ LongDays \subseteq Nat /\ ShortDays \subseteq Nat /\ LongDays \cap ShortDays = {}

Never == -1     \* null

-----------------------------------------------------------------------------
(* The local calendar. *)

DayStart(zone, d) ==
    d * HoursPerDay - zone + Cardinality({e \in LongDays : e < d})
                           - Cardinality({e \in ShortDays : e < d})

LocalDay(zone, at) ==
    CHOOSE d \in 0 .. at + zone :
        DayStart(zone, d) <= at /\ at < DayStart(zone, d + 1)

WallClock(zone, at) ==
    LET d == LocalDay(zone, at)
        passed == at - DayStart(zone, d)
    IN IF d \in LongDays /\ passed > ChangeHour THEN passed - 1
       ELSE IF d \in ShortDays /\ passed >= ChangeHour THEN passed + 1
       ELSE passed

Weekday(d) == d % DaysPerWeek

\* (Mutant: the day of Greenwich, wherever the operator is.)
DayOfGreenwich(zone, at) ==
    LET d == LocalDay(0, at) IN [start |-> DayStart(0, d), end |-> DayStart(0, d + 1)]

localDayBounds(zone, at) ==
    LET d == LocalDay(zone, at)
    IN [start |-> DayStart(zone, d), end |-> DayStart(zone, d + 1)]

-----------------------------------------------------------------------------
(* The operating window of a campaign's settings s. *)

isOvernightWindow(s) == s.windowEnd <= s.windowStart

isWithinOperatingWindow(s, at) ==
    LET wall == WallClock(s.zone, at)
        d == LocalDay(s.zone, at)
    IN IF isOvernightWindow(s)
         THEN \/ wall >= s.windowStart /\ Weekday(d) \in s.days
              \/ wall < s.windowEnd /\ Weekday(d - 1) \in s.days
         ELSE wall >= s.windowStart /\ wall < s.windowEnd /\ Weekday(d) \in s.days

\* (Mutant: the hours before the window of today are taken for the hours after it.)
NextWindowFromTomorrow(s, at) ==
    LET tomorrow == LocalDay(s.zone, at) + 1
        days == {d \in tomorrow .. tomorrow + 2 * DaysPerWeek : Weekday(d) \in s.days}
    IN IF s.days # {} /\ isWithinOperatingWindow(s, at) THEN at
       ELSE IF days = {} THEN Never ELSE DayStart(s.zone, Min(days)) + s.windowStart

nextWindowOpen(s, at) ==
    LET today == LocalDay(s.zone, at)
        days == {d \in today .. today + 2 * DaysPerWeek : Weekday(d) \in s.days}
        openings == {o \in {DayStart(s.zone, d) + s.windowStart : d \in days} : o >= at}
    IN IF s.days # {} /\ isWithinOperatingWindow(s, at) THEN at
       ELSE IF openings = {} THEN Never ELSE Min(openings)

currentWindowClose(s, at) ==
    LET d == LocalDay(s.zone, at)
    IN IF ~isWithinOperatingWindow(s, at) THEN Never
       ELSE IF isOvernightWindow(s) /\ WallClock(s.zone, at) >= s.windowStart
            THEN DayStart(s.zone, d + 1) + s.windowEnd
       ELSE DayStart(s.zone, d) + s.windowEnd

-----------------------------------------------------------------------------
(* May a campaign run now, and if not, why not. *)

Bursting(burstUntil, now) == burstUntil # Never /\ burstUntil > now

evaluateEligibility(s, now, mine, all, globalLimit, earliest, burstUntil) ==
    CASE ~Bursting(burstUntil, now) /\ s.days = {} -> "NO_OPERATING_DAYS"
      [] ~Bursting(burstUntil, now) /\ s.days # {} /\ ~isWithinOperatingWindow(s, now) ->
           "OUTSIDE_OPERATING_HOURS"
      [] OTHER -> IF all >= globalLimit THEN "GLOBAL_DAILY_LIMIT_REACHED"
                  ELSE IF mine >= s.dailyLimit THEN "DAILY_LIMIT_REACHED"
                  ELSE IF earliest # Never /\ earliest > now THEN "NOT_YET_SCHEDULED"
                  ELSE "ELIGIBLE"

-----------------------------------------------------------------------------
(* buildSchedule: instants for `count' jobs, `gap' apart, from `from' on.  *)

PlanFull(p) == [p EXCEPT !.done = TRUE]

\* On to the next opening, with a new allowance; without one the plan ends.
Reopened(s, p, at) ==
    LET reopen == nextWindowOpen(s, at)
    IN IF reopen = Never THEN PlanFull(p)
       ELSE [p EXCEPT !.cursor = reopen, !.left = s.dailyLimit]

\* The allowance of the day may be used up.
RollOver(s, p) ==
    IF p.left > 0 THEN p ELSE Reopened(s, p, localDayBounds(s.zone, p.cursor).end)

\* (Mutant: the close of the window is not looked at.)
AdvanceThroughClose(s, p, gap) == [p EXCEPT !.cursor = p.cursor + gap]

Advance(s, p, gap) ==
    LET close == currentWindowClose(s, p.cursor)
    IN IF close = Never \/ p.cursor + gap < close THEN [p EXCEPT !.cursor = p.cursor + gap]
       ELSE Reopened(s, p, close)

Place(s, p, gap) ==
    LET q == RollOver(s, p)
        close == currentWindowClose(s, q.cursor)
    IN IF p.done \/ q.done THEN PlanFull(p)
       ELSE IF close # Never /\ q.cursor >= close THEN Reopened(s, q, close)
       ELSE Advance(s, [q EXCEPT !.plan = Append(q.plan, q.cursor), !.left = q.left - 1], gap)

buildSchedule(s, from, count, gap) ==
    LET first == nextWindowOpen(s, from)
        p[i \in 0 .. count] ==
            IF i = 0 THEN [cursor |-> first, left |-> s.dailyLimit, plan |-> <<>>,
                           done |-> first = Never]
            ELSE Place(s, p[i - 1], gap)
    IN p[count].plan
=============================================================================
