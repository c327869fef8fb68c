-------------------------- MODULE SendingBudgetProofs --------------------------
(***************************************************************************)
(* The daily limits and the schedule, whatever the instants, zones,        *)
(* changes of the clocks, bursts and retries.  The calendar comes first:   *)
(* every instant lies in one local day, and days follow one another; so    *)
(* what is counted between the bounds of a day is what was logged on it,   *)
(* and a new day starts at nothing.  A claim that counted less than the    *)
(* limit is the only one whose report is outstanding, so its report cannot *)
(* exceed it.  Then the windows: an opening is the first instant at which  *)
(* the window is open, an open window stays open until its close, and the  *)
(* loop of buildSchedule, taken as a state machine of its own, keeps an    *)
(* invariant over the plan so far.                                         *)
(***************************************************************************)
EXTENDS SendingBudget, FiniteSetTheorems, WellFoundedInduction, TLAPS, FunctionTheorems

-----------------------------------------------------------------------------
(* The calendar. *)

EarlierIn(D, d) == {e \in D : e < d}

\* The days of a set that lie before a later day: no fewer, and at most one more
\* for every day between.
LEMMA EarlierDays ==
    ASSUME NEW D, D \subseteq Nat, NEW a \in Nat, NEW b \in Nat, a <= b
    PROVE  /\ Cardinality(EarlierIn(D, a)) \in Nat
           /\ Cardinality(EarlierIn(D, b)) \in Nat
           /\ Cardinality(EarlierIn(D, a)) <= Cardinality(EarlierIn(D, b))
           /\ Cardinality(EarlierIn(D, b)) <= Cardinality(EarlierIn(D, a)) + (b - a)
<1>1. \A e \in EarlierIn(D, b) : e \in 0 .. b
  BY DEF EarlierIn
<1>2. IsFiniteSet(EarlierIn(D, b))
  <2>1. EarlierIn(D, b) \in SUBSET (0 .. b)
    BY <1>1
  <2>2. IsFiniteSet(0 .. b)
    BY FS_Interval
  <2> QED
    BY <2>1, <2>2, FS_Subset
<1>3. \A e \in EarlierIn(D, a) : e \in EarlierIn(D, b)
  BY DEF EarlierIn
<1>4. /\ IsFiniteSet(EarlierIn(D, a))
      /\ Cardinality(EarlierIn(D, a)) <= Cardinality(EarlierIn(D, b))
  <2>1. EarlierIn(D, a) \in SUBSET EarlierIn(D, b)
    BY <1>3
  <2> QED
    BY <2>1, <1>2, FS_Subset
<1>5. /\ Cardinality(EarlierIn(D, a)) \in Nat
      /\ Cardinality(EarlierIn(D, b)) \in Nat
  BY <1>2, <1>4, FS_CardinalityType
<1> DEFINE between == a .. b - 1
<1>6. IsFiniteSet(between) /\ Cardinality(between) = b - a
  <2>1. a \in Int /\ b - 1 \in Int
    OBVIOUS
  <2>2. /\ IsFiniteSet(between)
        /\ Cardinality(between) = IF a > b - 1 THEN 0 ELSE (b - 1) - a + 1
    BY <2>1, FS_Interval
  <2>3. (IF a > b - 1 THEN 0 ELSE (b - 1) - a + 1) = b - a
    OBVIOUS
  <2> QED
    BY <2>2, <2>3
<1>7. /\ \A e \in EarlierIn(D, b) : e \in EarlierIn(D, a) \cup between
      /\ \A e \in EarlierIn(D, a) : e \notin between
  BY DEF EarlierIn
<1> HIDE DEF between
<1>8. /\ IsFiniteSet(EarlierIn(D, a) \cup between)
      /\ Cardinality(EarlierIn(D, a) \cup between) =
           Cardinality(EarlierIn(D, a)) + Cardinality(between)
             - Cardinality(EarlierIn(D, a) \cap between)
  BY <1>4, <1>6, FS_Union
<1>9. Cardinality(EarlierIn(D, b)) <= Cardinality(EarlierIn(D, a) \cup between)
  <2>1. EarlierIn(D, b) \in SUBSET (EarlierIn(D, a) \cup between)
    BY <1>7
  <2> QED
    BY <1>8, <2>1, FS_Subset
<1>10. Cardinality(EarlierIn(D, a) \cap between) = 0
  <2>1. EarlierIn(D, a) \cap between = {}
    BY <1>7
  <2> QED
    BY <2>1, FS_EmptySet
<1> QED
  BY <1>4, <1>5, <1>6, <1>8, <1>9, <1>10

\* A day starts after the one before it has: changing the clocks takes one hour.
LEMMA DaysFollow ==
    ASSUME NEW zone \in Nat, NEW a \in Nat, NEW b \in Nat, a <= b
    PROVE  /\ DayStart(zone, a) \in Int /\ DayStart(zone, b) \in Int
           /\ DayStart(zone, b) - DayStart(zone, a) >= 2 * (b - a)
<1> DEFINE long(d) == Cardinality(EarlierIn(LongDays, d))
           short(d) == Cardinality(EarlierIn(ShortDays, d))
<1>1. /\ long(a) \in Nat /\ long(b) \in Nat /\ long(a) <= long(b)
      /\ short(a) \in Nat /\ short(b) \in Nat /\ short(b) <= short(a) + (b - a)
  BY ScheduleAssumption, EarlierDays
<1>2. /\ DayStart(zone, a) = a * HoursPerDay - zone + long(a) - short(a)
      /\ DayStart(zone, b) = b * HoursPerDay - zone + long(b) - short(b)
  BY DEF DayStart, EarlierIn
<1>3. HoursPerDay \in Nat /\ HoursPerDay >= 3
  BY ScheduleAssumption
<1> HIDE DEF long, short
<1>4. b * HoursPerDay - a * HoursPerDay = (b - a) * HoursPerDay
  BY <1>3
<1>5. (b - a) * HoursPerDay >= (b - a) * 3
  <2>1. b - a \in Nat
    OBVIOUS
  <2>2. \A n, h \in Nat : h >= 3 => n * h >= n * 3
    OBVIOUS
  <2> QED
    BY <2>1, <2>2, <1>3
<1>6. a * HoursPerDay \in Int /\ b * HoursPerDay \in Int
  BY <1>3
<1> QED
  BY <1>1, <1>2, <1>4, <1>5, <1>6

\* The day of an instant.
LEMMA LocalDayOf ==
    ASSUME NEW zone \in Nat, NEW at \in Nat
    PROVE  /\ LocalDay(zone, at) \in 0 .. at + zone
           /\ DayStart(zone, LocalDay(zone, at)) <= at
           /\ at < DayStart(zone, LocalDay(zone, at) + 1)
<1> DEFINE Later == {d \in Nat : at < DayStart(zone, d)}
<1>0. DayStart(zone, 0) = -zone
  <2>1. \A e \in LongDays \cup ShortDays : ~(e < 0)
    BY ScheduleAssumption
  <2>2. {e \in LongDays : e < 0} = {} /\ {e \in ShortDays : e < 0} = {}
    BY <2>1
  <2>3. DayStart(zone, 0) = 0 * HoursPerDay - zone + Cardinality({}) - Cardinality({})
    BY <2>2 DEF DayStart
  <2> QED
    BY <2>3, FS_EmptySet, ScheduleAssumption
<1>1. at + zone + 1 \in Later
  <2>1. DayStart(zone, at + zone + 1) - DayStart(zone, 0) >= 2 * (at + zone + 1)
    BY DaysFollow
  <2>2. DayStart(zone, at + zone + 1) \in Int
    BY DaysFollow
  <2> QED
    BY <2>1, <2>2, <1>0
<1>2. DayStart(zone, 0) <= at
  BY <1>0
<1>3. PICK n \in Later : \A m \in Later : ~(<<m, n>> \in OpToRel(<, Nat))
  <2>1. Later \subseteq Nat /\ Later # {}
    BY <1>1
  <2> QED
    BY <2>1, NatLessThanWellFounded, WFMin
<1>4. \A m \in Later : m >= n
  <2>1. OpToRel(<, Nat) = {ss \in Nat \X Nat : ss[1] < ss[2]}
    BY Zenon DEF OpToRel
  <2>2. \A m \in Later : <<m, n>> \notin {ss \in Nat \X Nat : ss[1] < ss[2]}
    BY <1>3, <2>1, Zenon
  <2>3. n \in Nat /\ \A m \in Later : m \in Nat
    OBVIOUS
  <2>4. \A m, k \in Nat : <<m, k>> \notin {ss \in Nat \X Nat : ss[1] < ss[2]} => m >= k
    OBVIOUS
  <2> HIDE DEF Later
  <2> QED
    BY <2>2, <2>3, <2>4, Zenon
<1>5. n # 0
  <2>1. DayStart(zone, 0) \in Int
    BY DaysFollow
  <2> QED
    BY <1>2, <2>1
<1>6. n - 1 \in 0 .. at + zone /\ n - 1 \in Nat
  BY <1>1, <1>4, <1>5
<1>7. DayStart(zone, n - 1) <= at
  <2>1. n - 1 \notin Later
    BY <1>4, <1>6
  <2>2. DayStart(zone, n - 1) \in Int
    BY <1>6, DaysFollow
  <2> QED
    BY <2>1, <2>2, <1>6
<1>8. at < DayStart(zone, (n - 1) + 1)
  <2>1. (n - 1) + 1 = n
    OBVIOUS
  <2>2. at < DayStart(zone, n)
    OBVIOUS
  <2> QED
    BY <2>1, <2>2
<1> QED
  BY <1>6, <1>7, <1>8 DEF LocalDay

\* An instant between the bounds of a day is of that day, and no other is.
LEMMA OfDay ==
    ASSUME NEW zone \in Nat, NEW at \in Nat, NEW d \in Nat
    PROVE  DayStart(zone, d) <= at /\ at < DayStart(zone, d + 1) <=> d = LocalDay(zone, at)
<1> DEFINE e == LocalDay(zone, at)
<1>1. e \in Nat /\ DayStart(zone, e) <= at /\ at < DayStart(zone, e + 1)
  BY LocalDayOf
<1> HIDE DEF e
<1>2. ASSUME d < e PROVE ~(at < DayStart(zone, d + 1))
  <2>1. d + 1 \in Nat /\ d + 1 <= e
    BY <1>1, <1>2
  <2>2. /\ DayStart(zone, d + 1) \in Int /\ DayStart(zone, e) \in Int
        /\ DayStart(zone, e) - DayStart(zone, d + 1) >= 2 * (e - (d + 1))
    BY <2>1, <1>1, DaysFollow
  <2> QED
    BY <2>1, <2>2, <1>1
<1>3. ASSUME d > e PROVE ~(DayStart(zone, d) <= at)
  <2>1. e + 1 \in Nat /\ e + 1 <= d
    BY <1>1, <1>3
  <2>2. /\ DayStart(zone, d) \in Int /\ DayStart(zone, e + 1) \in Int
        /\ DayStart(zone, d) - DayStart(zone, e + 1) >= 2 * (d - (e + 1))
    BY <2>1, DaysFollow
  <2> QED
    BY <2>1, <2>2, <1>1
<1>4. d < e \/ d = e \/ d > e
  BY <1>1
<1>5. d = e <=> DayStart(zone, d) <= at /\ at < DayStart(zone, d + 1)
  BY <1>1, <1>2, <1>3, <1>4
<1> QED
  BY <1>5 DEF e

\* Days follow time.
LEMMA DaysPass ==
    ASSUME NEW zone \in Nat, NEW s \in Nat, NEW t \in Nat, s <= t
    PROVE  LocalDay(zone, s) <= LocalDay(zone, t)
<1> DEFINE d == LocalDay(zone, s)
           e == LocalDay(zone, t)
<1>1. /\ d \in Nat /\ DayStart(zone, d) <= s
      /\ e \in Nat /\ t < DayStart(zone, e + 1)
  <2>1. LocalDay(zone, s) \in 0 .. s + zone /\ LocalDay(zone, t) \in 0 .. t + zone
    BY LocalDayOf
  <2> QED
    BY <2>1, LocalDayOf
<1> HIDE DEF d, e
<1>2. ASSUME e < d PROVE FALSE
  <2>1. e + 1 \in Nat /\ e + 1 <= d
    BY <1>1, <1>2
  <2>2. /\ DayStart(zone, d) \in Int /\ DayStart(zone, e + 1) \in Int
        /\ DayStart(zone, d) - DayStart(zone, e + 1) >= 2 * (d - (e + 1))
    BY <2>1, <1>1, DaysFollow
  <2> QED
    BY <2>1, <2>2, <1>1
<1>3. d <= e
  BY <1>1, <1>2
<1> QED
  BY <1>3 DEF d, e
-----------------------------------------------------------------------------
(* What is logged on a day. *)

OnDayOf(rows, zone, at) == {r \in rows : LocalDay(zone, r[2]) = LocalDay(zone, at)}

Of(rows, c) == {r \in rows : r[1] = c}

\* What the code counts between the bounds of a day is what was logged on that day.
LEMMA TotalIsOfTheDay ==
    ASSUME NEW zone \in Nat, NEW at \in Nat, NEW campaigns,
           NEW rows, \A r \in rows : r[2] \in Nat
    PROVE  Total(rows, campaigns, localDayBounds(zone, at))
             = Cardinality({r \in OnDayOf(rows, zone, at) : r[1] \in campaigns})
<1> DEFINE d == LocalDay(zone, at)
           day == localDayBounds(zone, at)
<1>1. d \in Nat
  BY LocalDayOf
<1>2. day.start = DayStart(zone, d) /\ day.end = DayStart(zone, d + 1)
  BY DEF localDayBounds
<1>3. \A r \in rows : day.start <= r[2] /\ r[2] < day.end <=> LocalDay(zone, r[2]) = d
  <2> SUFFICES ASSUME NEW r \in rows
               PROVE  day.start <= r[2] /\ r[2] < day.end <=> LocalDay(zone, r[2]) = d
    OBVIOUS
  <2> HIDE DEF d, day
  <2>1. DayStart(zone, d) <= r[2] /\ r[2] < DayStart(zone, d + 1)
          <=> d = LocalDay(zone, r[2])
    BY <1>1, OfDay
  <2> QED
    BY <1>2, <2>1
<1> HIDE DEF day
<1>4. {r \in rows : r[1] \in campaigns /\ day.start <= r[2] /\ r[2] < day.end}
        = {r \in OnDayOf(rows, zone, at) : r[1] \in campaigns}
  BY <1>3 DEF OnDayOf
<1>5. Total(rows, campaigns, day) =
        Cardinality({r \in rows : r[1] \in campaigns /\ day.start <= r[2] /\ r[2] < day.end})
  BY DEF Total
<1> QED
  BY <1>4, <1>5 DEF day

\* Later, of what was logged before, the same was logged today, or nothing was.
LEMMA DayTurns ==
    ASSUME NEW zone \in Nat, NEW s \in Nat, NEW t \in Nat, s <= t,
           NEW rows, \A r \in rows : r[2] \in 0 .. s
    PROVE  OnDayOf(rows, zone, t) \in {OnDayOf(rows, zone, s), {}}
<1>1. CASE LocalDay(zone, s) = LocalDay(zone, t)
  BY <1>1 DEF OnDayOf
<1>2. CASE LocalDay(zone, s) # LocalDay(zone, t)
  <2>1. LocalDay(zone, s) \in Int /\ LocalDay(zone, t) \in Int
    <3>1. LocalDay(zone, s) \in 0 .. s + zone /\ LocalDay(zone, t) \in 0 .. t + zone
      BY LocalDayOf
    <3> QED
      BY <3>1
  <2>2. LocalDay(zone, s) < LocalDay(zone, t)
    BY <1>2, <2>1, DaysPass
  <2>3. \A r \in rows : LocalDay(zone, r[2]) # LocalDay(zone, t)
    <3> SUFFICES ASSUME NEW r \in rows
                 PROVE  LocalDay(zone, r[2]) # LocalDay(zone, t)
      OBVIOUS
    <3>1. r[2] \in Nat /\ r[2] <= s
      OBVIOUS
    <3>2. LocalDay(zone, r[2]) \in 0 .. r[2] + zone
      BY <3>1, LocalDayOf
    <3>3. LocalDay(zone, r[2]) <= LocalDay(zone, s)
      BY <3>1, DaysPass
    <3> QED
      BY <2>1, <2>2, <3>2, <3>3
  <2> QED
    BY <2>3 DEF OnDayOf
<1> QED
  BY <1>1, <1>2

\* Finite sets of rows: their parts are finite, and one row adds one at most.
LEMMA OneRowMore ==
    ASSUME NEW rows, IsFiniteSet(rows), NEW x, NEW zone, NEW at, NEW c
    PROVE  /\ Cardinality(OnDayOf(rows, zone, at)) \in Nat
           /\ Cardinality(Of(OnDayOf(rows, zone, at), c)) \in Nat
           /\ Cardinality(OnDayOf(rows \cup {x}, zone, at))
                <= Cardinality(OnDayOf(rows, zone, at)) + 1
           /\ Cardinality(Of(OnDayOf(rows \cup {x}, zone, at), c))
                <= Cardinality(Of(OnDayOf(rows, zone, at), c)) + 1
           /\ x[1] # c => Of(OnDayOf(rows \cup {x}, zone, at), c)
                            = Of(OnDayOf(rows, zone, at), c)
<1>1. ASSUME NEW S, IsFiniteSet(S), NEW T, \A r \in T : r \in S \cup {x}
      PROVE  Cardinality(T) <= Cardinality(S) + 1
  <2>1. /\ IsFiniteSet(S \cup {x})
        /\ Cardinality(S \cup {x}) = IF x \in S THEN Cardinality(S) ELSE Cardinality(S) + 1
    BY <1>1, FS_AddElement
  <2>2. T \in SUBSET (S \cup {x})
    BY <1>1
  <2>3. IsFiniteSet(T) /\ Cardinality(T) <= Cardinality(S \cup {x})
    BY <2>1, <2>2, FS_Subset
  <2>4. Cardinality(S) \in Nat /\ Cardinality(T) \in Nat
    BY <1>1, <2>3, FS_CardinalityType
  <2> QED
    BY <2>1, <2>3, <2>4
<1> DEFINE D == OnDayOf(rows, zone, at)
           E == OnDayOf(rows \cup {x}, zone, at)
<1>2. /\ \A r \in D : r \in rows
      /\ \A r \in E : r \in D \cup {x}
      /\ \A r \in D : r \in E
  BY DEF OnDayOf
<1> HIDE DEF D, E
<1>3. /\ \A r \in Of(D, c) : r \in D
      /\ \A r \in Of(E, c) : r \in Of(D, c) \cup {x}
  BY <1>2 DEF Of
<1>4. IsFiniteSet(D)
  <2>1. D \in SUBSET rows
    BY <1>2
  <2> QED
    BY <2>1, FS_Subset
<1>5. IsFiniteSet(Of(D, c))
  <2>1. Of(D, c) \in SUBSET D
    BY <1>3
  <2> QED
    BY <1>4, <2>1, FS_Subset
<1>6. Cardinality(D) \in Nat /\ Cardinality(Of(D, c)) \in Nat
  BY <1>4, <1>5, FS_CardinalityType
<1>7. Cardinality(E) <= Cardinality(D) + 1
  BY <1>1, <1>2, <1>4
<1>8. Cardinality(Of(E, c)) <= Cardinality(Of(D, c)) + 1
  BY <1>1, <1>3, <1>5
<1>9. ASSUME x[1] # c PROVE Of(E, c) = Of(D, c)
  <2>1. \A r \in E : r[1] = c => r \in D
    BY <1>2, <1>9
  <2> QED
    BY <1>2, <2>1 DEF Of
<1> QED
  BY <1>6, <1>7, <1>8, <1>9 DEF D, E
-----------------------------------------------------------------------------
(* The budget of one worker. *)

Room(c) ==
    /\ Cardinality(Of(OfThisDay(log, c), c)) < settings[c].dailyLimit
    /\ Cardinality(OfThisDay(log, c)) < GlobalDailyLimit

\* What the log and the workers look like.
LogShape ==
    /\ now \in Nat /\ settings \in Settings
    /\ IsFiniteSet(log)
    /\ \A r \in log : r[1] \in Campaigns /\ r[2] \in 0 .. now
    /\ worker \in [Workers -> [phase : {"IDLE", "EVALUATED", "WORKING"}, at : Nat,
                               eligible : SUBSET Campaigns, job : SUBSET Jobs]]

\* Nothing has been logged since a worker looked at the clock, and the report of
\* a job under way still fits into the limits of its campaign's day.
BudgetInv ==
    /\ LogShape
    /\ \A w \in Workers : worker[w].phase = "EVALUATED" =>
         worker[w].at <= now /\ \A r \in log : r[2] <= worker[w].at
    /\ \A w \in Workers : worker[w].phase = "WORKING" =>
         \A j \in worker[w].job : Room(JobCampaign[j])

\* The settings of a campaign, one by one.
LEMMA SettingsShape ==
    ASSUME NEW c \in Campaigns, settings \in Settings
    PROVE  settings[c].zone \in Nat /\ settings[c].dailyLimit \in Nat
<1>1. settings[c] \in CampaignSettings
  BY BudgetAssumption
<1> QED
  BY <1>1 DEF CampaignSettings

\* Those parts of the log in which the limits are stated.
LEMMA ThisDay ==
    ASSUME NEW c \in Campaigns
    PROVE  /\ OfThisDay(log, c) = OnDayOf(log, settings[c].zone, now)
           /\ {r \in OfThisDay(log, c) : r[1] = c} = Of(OfThisDay(log, c), c)
BY DEF OfThisDay, OnDayOf, Of

\* A day that has just begun has nothing logged, or it is the day it was.
LEMMA NoMoreByWaiting ==
    ASSUME LogShape, NEW s \in Nat, NEW t \in Nat, s <= t, \A r \in log : r[2] <= s,
           NEW c \in Campaigns, NEW d
    PROVE  LET then == OnDayOf(log, settings[c].zone, s)
               later == OnDayOf(log, settings[c].zone, t)
           IN /\ Cardinality(later) \in {Cardinality(then), 0}
              /\ Cardinality(Of(later, d)) \in {Cardinality(Of(then, d)), 0}
<1>1. \A r \in log : r[2] \in 0 .. s
  BY DEF LogShape
<1>2. OnDayOf(log, settings[c].zone, t) \in {OnDayOf(log, settings[c].zone, s), {}}
  BY <1>1, SettingsShape, DayTurns DEF LogShape
<1>3. Cardinality({}) = 0 /\ Of({}, d) = {}
  BY FS_EmptySet DEF Of
<1> QED
  BY <1>2, <1>3

\* What the claim counts, at the instant it was given.
LEMMA ClaimCounts ==
    ASSUME LogShape, NEW c \in Campaigns, NEW at \in Nat, StillAllowed(c, at)
    PROVE  LET then == OnDayOf(log, settings[c].zone, at)
           IN /\ Cardinality(Of(then, c)) < settings[c].dailyLimit
              /\ Cardinality(then) < GlobalDailyLimit
<1> DEFINE zone == settings[c].zone
           then == OnDayOf(log, zone, at)
<1>1. zone \in Nat /\ settings[c].dailyLimit \in Nat /\ GlobalDailyLimit \in Nat
  BY SettingsShape, BudgetAssumption DEF LogShape
<1>2. \A r \in log : r[2] \in Nat
  BY DEF LogShape
<1>3. \A S : Total(log, S, localDayBounds(zone, at)) = Cardinality({r \in then : r[1] \in S})
  BY <1>1, <1>2, TotalIsOfTheDay
<1>4. {r \in then : r[1] \in {c}} = Of(then, c)
  BY DEF Of
<1>5. {r \in then : r[1] \in Campaigns} = then
  <2>1. \A r \in log : r[1] \in Campaigns
    BY DEF LogShape
  <2> QED
    BY <2>1 DEF OnDayOf
<1>6. Cardinality(then) \in Nat /\ Cardinality(Of(then, c)) \in Nat
  BY OneRowMore DEF LogShape
<1>7. /\ CampaignRemaining(c, at) = settings[c].dailyLimit - Cardinality(Of(then, c))
      /\ GlobalRemaining(c, at) = GlobalDailyLimit - Cardinality(then)
  BY <1>3, <1>4, <1>5 DEF CampaignRemaining, GlobalRemaining, countOutreachActions, Today
<1> HIDE DEF then, zone
<1>8. /\ settings[c].dailyLimit - Cardinality(Of(then, c)) > 0
      /\ GlobalDailyLimit - Cardinality(then) > 0
  BY <1>7 DEF StillAllowed
<1>9. Cardinality(Of(then, c)) < settings[c].dailyLimit /\ Cardinality(then) < GlobalDailyLimit
  BY <1>1, <1>6, <1>8
<1> QED
  BY <1>9 DEF then, zone
LEMMA BudgetInit ==
    ASSUME Init
    PROVE  BudgetInv
<1>1. PICK n \in EarlierToday :
        log = {c \in Campaigns : \A j \in Jobs : JobCampaign[j] # c} \X {0} \X (1 .. n)
  BY DEF Init
<1> DEFINE others == {c \in Campaigns : \A j \in Jobs : JobCampaign[j] # c}
           numbered == others \X (1 .. n)
           row == [x \in numbered |-> <<x[1], 0, x[2]>>]
<1>2. IsFiniteSet(log)
  <2>1. others \in SUBSET Campaigns
    OBVIOUS
  <2>2. IsFiniteSet(others)
    BY <2>1, BudgetAssumption, FS_Subset
  <2>3. n \in Nat
    BY BudgetAssumption
  <2>4. IsFiniteSet(1 .. n)
    BY <2>3, FS_Interval
  <2>5. IsFiniteSet(numbered)
    BY <2>2, <2>4, FS_Product
  <2>6. row \in [numbered -> log]
    BY <1>1
  <2>7. \A r \in log : \E x \in numbered : row[x] = r
    <3> SUFFICES ASSUME NEW r \in log
                 PROVE  \E x \in numbered : row[x] = r
      OBVIOUS
    <3>1. r[1] \in others /\ r[3] \in 1 .. n /\ r = <<r[1], 0, r[3]>>
      BY <1>1
    <3>2. <<r[1], r[3]>> \in numbered /\ row[<<r[1], r[3]>>] = r
      BY <3>1
    <3> QED
      BY <3>2
  <2>8. row \in Surjection(numbered, log)
    BY <2>6, <2>7 DEF Surjection
  <2> QED
    BY <2>5, <2>8, FS_Surjection
<1>3. \A r \in log : r[1] \in Campaigns /\ r[2] \in 0 .. now
  BY <1>1 DEF Init
<1>4. worker = [w \in Workers |-> Idle] /\ now = 0 /\ settings \in Settings
  BY DEF Init
<1>5. LogShape
  BY <1>2, <1>3, <1>4 DEF LogShape, Idle
<1>6. \A w \in Workers : worker[w].phase = "IDLE"
  BY <1>4 DEF Idle
<1> QED
  BY <1>5, <1>6 DEF BudgetInv

\* Only a tick moves the clock, only a report writes the log, nothing else the settings.
LEMMA LogShapeStep ==
    ASSUME LogShape, [Next]_vars
    PROVE  /\ LogShape'
           /\ settings' = settings /\ now <= now'
           /\ now' # now => UNCHANGED <<log, worker>>
<1> USE DEF LogShape
<1>1. ASSUME UNCHANGED <<now, settings, log, worker>>
      PROVE  LogShape' /\ settings' = settings /\ now' = now
  BY <1>1
<1>2. ASSUME NEW w \in Workers, NEW row, UNCHANGED <<now, settings, log>>,
             row \in [phase : {"IDLE", "EVALUATED", "WORKING"}, at : Nat,
                      eligible : SUBSET Campaigns, job : SUBSET Jobs],
             worker' = [worker EXCEPT ![w] = row]
      PROVE  LogShape' /\ settings' = settings /\ now' = now
  BY <1>2
<1> DEFINE Shape == [phase : {"IDLE", "EVALUATED", "WORKING"}, at : Nat,
                     eligible : SUBSET Campaigns, job : SUBSET Jobs]
<1>3. Idle \in Shape
  BY DEF Idle
<1>4. ASSUME NEW c \in Campaigns, GenerateQueue(c) PROVE UNCHANGED <<now, settings, log, worker>>
  BY <1>4 DEF GenerateQueue
<1>5. ASSUME NEW c \in Campaigns, NEW b \in Bursts, BurstRead(c, b[1], b[2])
      PROVE  UNCHANGED <<now, settings, log, worker>>
  BY <1>5 DEF BurstRead
<1>6. ASSUME BurstWrite PROVE UNCHANGED <<now, settings, log, worker>>
  BY <1>6 DEF BurstWrite
<1>7. ASSUME NEW j \in Jobs, Expedite(j) \/ ReapJob(j)
      PROVE  UNCHANGED <<now, settings, log, worker>>
  BY <1>7 DEF Expedite, ReapJob
<1>8. ASSUME SetReviewOnly PROVE UNCHANGED <<now, settings, log, worker>>
  BY <1>8 DEF SetReviewOnly
<1>9. ASSUME NEW w \in Workers, Evaluate(w)
      PROVE  LogShape' /\ settings' = settings /\ now' = now
  <2>1. [phase |-> "EVALUATED", at |-> now, eligible |-> EligibleCampaigns, job |-> {}] \in Shape
    BY DEF EligibleCampaigns
  <2> QED
    BY <1>2, <1>9, <2>1 DEF Evaluate
<1>10. ASSUME NEW w \in Workers, Claim(w)
       PROVE  LogShape' /\ settings' = settings /\ now' = now
  <2>1. PICK j \in Heads(Due(w)) :
          worker' = [worker EXCEPT ![w] = [phase |-> "WORKING", at |-> 0, eligible |-> {},
                                           job |-> {j}]]
    BY <1>10 DEF Claim
  <2>2. j \in Jobs
    BY DEF Heads, Due
  <2>3. [phase |-> "WORKING", at |-> 0, eligible |-> {}, job |-> {j}] \in Shape
    BY <2>2
  <2> QED
    BY <1>2, <1>10, <2>1, <2>3 DEF Claim
<1>11. ASSUME NEW w \in Workers, ClaimRollback(w) \/ ReportLost(w)
       PROVE  LogShape' /\ settings' = settings /\ now' = now
  BY <1>2, <1>3, <1>11 DEF ClaimRollback, ReportLost
<1>12. ASSUME NEW w \in Workers, Report(w)
       PROVE  LogShape' /\ settings' = settings /\ now' = now
  <2>1. PICK j \in worker[w].job : log' = OneMore(log, JobCampaign[j])
    BY <1>12 DEF Report
  <2>2. JobCampaign[j] \in Campaigns
    <3>1. j \in Jobs
      OBVIOUS
    <3> QED
      BY <3>1, BudgetAssumption
  <2>3. PICK n : log' = log \cup {<<JobCampaign[j], now, n>>}
    BY <2>1 DEF OneMore
  <2>4. IsFiniteSet(log')
    BY <2>3, FS_AddElement
  <2>5. UNCHANGED <<now, settings>> /\ worker' = [worker EXCEPT ![w] = Idle]
    BY <1>12 DEF Report
  <2>6. \A r \in log' : r[1] \in Campaigns /\ r[2] \in 0 .. now'
    BY <2>2, <2>3, <2>5
  <2>7. worker' \in [Workers -> Shape]
    BY <1>3, <2>5
  <2> QED
    BY <2>4, <2>5, <2>6, <2>7
<1>13. ASSUME Tick
       PROVE  LogShape' /\ settings' = settings /\ now <= now' /\ UNCHANGED <<log, worker>>
  BY <1>13 DEF Tick
<1>14. CASE UNCHANGED vars
  BY <1>1, <1>14 DEF vars
<1> QED
  BY <1>1, <1>4, <1>5, <1>6, <1>7, <1>8, <1>9, <1>10, <1>11, <1>12, <1>13, <1>14 DEF Next
OneWorker == \A v, w \in Workers : v = w

\* With one worker, the log grows only by the report of the job it is at, after which
\* nobody is at a job; and a claim was given the time when nothing was logged later.
LEMMA BudgetStep ==
    ASSUME OneWorker, BudgetInv, [Next]_vars
    PROVE  BudgetInv'
<1>1. LogShape /\ LogShape' /\ settings' = settings /\ now <= now'
  BY LogShapeStep DEF BudgetInv
<1>2. now \in Nat /\ now' \in Nat
  BY <1>1 DEF LogShape
<1>3. ASSUME UNCHANGED <<now, log, worker>> PROVE BudgetInv'
  <2>1. \A c \in Campaigns : OfThisDay(log, c)' = OfThisDay(log, c)
    BY <1>1, <1>3 DEF OfThisDay
  <2>2. \A c \in Campaigns : Room(c)' <=> Room(c)
    BY <1>1, <2>1 DEF Room
  <2>3. \A w \in Workers : \A j \in worker[w].job : JobCampaign[j] \in Campaigns
    BY <1>1, BudgetAssumption DEF LogShape
  <2> QED
    BY <1>1, <1>3, <2>2, <2>3 DEF BudgetInv
<1>4. ASSUME NEW w \in Workers, worker' = [worker EXCEPT ![w] = Idle] PROVE BudgetInv'
  <2>1. \A v \in Workers : v = w
    BY DEF OneWorker
  <2>2. \A v \in Workers : worker'[v].phase = "IDLE"
    BY <1>1, <1>4, <2>1 DEF LogShape, Idle
  <2> QED
    BY <1>1, <2>2 DEF BudgetInv
<1>5. ASSUME NEW w \in Workers, Evaluate(w) PROVE BudgetInv'
  <2>1. \A v \in Workers : v = w
    BY DEF OneWorker
  <2>2. \A v \in Workers : worker'[v].phase = "EVALUATED" /\ worker'[v].at = now
    BY <1>1, <1>5, <2>1 DEF LogShape, Evaluate
  <2>3. log' = log /\ now' = now
    BY <1>5 DEF Evaluate
  <2>4. \A r \in log : r[2] <= now
    BY <1>1 DEF LogShape
  <2> QED
    BY <1>1, <1>2, <2>2, <2>3, <2>4 DEF BudgetInv
<1>6. ASSUME NEW w \in Workers, Claim(w) PROVE BudgetInv'
  <2>1. PICK j \in Heads(Due(w)) :
          /\ StillAllowed(JobCampaign[j], worker[w].at)
          /\ worker' = [worker EXCEPT ![w] = [phase |-> "WORKING", at |-> 0, eligible |-> {},
                                              job |-> {j}]]
    BY <1>6 DEF Claim
  <2> DEFINE c == JobCampaign[j]
             at == worker[w].at
  <2>2. c \in Campaigns
    BY BudgetAssumption DEF Heads, Due
  <2>3. at \in Nat /\ at <= now /\ \A r \in log : r[2] <= at
    BY <1>1, <1>6 DEF BudgetInv, LogShape, Claim
  <2> HIDE DEF c, at
  <2>4. LET then == OnDayOf(log, settings[c].zone, at)
        IN /\ Cardinality(Of(then, c)) < settings[c].dailyLimit
           /\ Cardinality(then) < GlobalDailyLimit
           /\ Cardinality(then) \in Nat /\ Cardinality(Of(then, c)) \in Nat
    <3>1. StillAllowed(c, at)
      BY <2>1 DEF c, at
    <3>2. IsFiniteSet(log)
      BY <1>1 DEF LogShape
    <3>3. \A zone : /\ Cardinality(OnDayOf(log, zone, at)) \in Nat
                    /\ Cardinality(Of(OnDayOf(log, zone, at), c)) \in Nat
      BY <3>2, OneRowMore
    <3> QED
      BY <1>1, <2>2, <2>3, <3>1, <3>3, ClaimCounts
  <2>5. Room(c)
    <3>1. LET then == OnDayOf(log, settings[c].zone, at)
              later == OnDayOf(log, settings[c].zone, now)
          IN /\ Cardinality(later) \in {Cardinality(then), 0}
             /\ Cardinality(Of(later, c)) \in {Cardinality(Of(then, c)), 0}
      BY <1>1, <1>2, <2>2, <2>3, NoMoreByWaiting
    <3>2. settings[c].dailyLimit \in Nat /\ GlobalDailyLimit \in Nat
      BY <1>1, <2>2, SettingsShape, BudgetAssumption DEF LogShape
    <3>3. OfThisDay(log, c) = OnDayOf(log, settings[c].zone, now)
      BY <2>2, ThisDay
    <3> QED
      BY <2>4, <3>1, <3>2, <3>3 DEF Room
  <2>6. now' = now /\ log' = log
    BY <1>6 DEF Claim
  <2>7. Room(c)'
    <3>1. OfThisDay(log, c)' = OfThisDay(log, c)
      BY <1>1, <2>6 DEF OfThisDay
    <3> QED
      BY <1>1, <2>5, <3>1 DEF Room
  <2>8. \A v \in Workers : v = w
    BY DEF OneWorker
  <2>9. \A v \in Workers : worker'[v].phase = "WORKING" /\ worker'[v].job = {j}
    BY <1>1, <2>1, <2>8 DEF LogShape
  <2> QED
    BY <1>1, <2>7, <2>9 DEF BudgetInv, c
<1>7. ASSUME Tick PROVE BudgetInv'
  <2>1. now' = now + 1 /\ log' = log /\ worker' = worker
    BY <1>7 DEF Tick
  <2>2. ASSUME NEW c \in Campaigns, Room(c) PROVE Room(c)'
    <3>1. OfThisDay(log, c) = OnDayOf(log, settings[c].zone, now)
      BY ThisDay
    <3>2. OfThisDay(log, c)' = OnDayOf(log, settings[c].zone, now')
      BY <1>1, <2>1 DEF OfThisDay, OnDayOf
    <3>3. /\ Cardinality(OnDayOf(log, settings[c].zone, now')) \in
               {Cardinality(OnDayOf(log, settings[c].zone, now)), 0}
          /\ Cardinality(Of(OnDayOf(log, settings[c].zone, now'), c)) \in
               {Cardinality(Of(OnDayOf(log, settings[c].zone, now), c)), 0}
      <4>1. \A r \in log : r[2] <= now
        BY <1>1 DEF LogShape
      <4> QED
        BY <1>1, <1>2, <4>1, NoMoreByWaiting
    <3>4. /\ Cardinality(OnDayOf(log, settings[c].zone, now)) \in Nat
          /\ Cardinality(Of(OnDayOf(log, settings[c].zone, now), c)) \in Nat
      <4>1. IsFiniteSet(log)
        BY <1>1 DEF LogShape
      <4> QED
        BY <4>1, OneRowMore
    <3>5. settings[c].dailyLimit \in Nat /\ GlobalDailyLimit \in Nat
      BY <1>1, SettingsShape, BudgetAssumption DEF LogShape
    <3> QED
      BY <1>1, <2>2, <3>1, <3>2, <3>3, <3>4, <3>5 DEF Room
  <2>3. \A w \in Workers : \A j \in worker[w].job : JobCampaign[j] \in Campaigns
    BY <1>1, BudgetAssumption DEF LogShape
  <2>4. \A w \in Workers : worker'[w].phase = "WORKING" =>
          \A j \in worker'[w].job : Room(JobCampaign[j])'
    BY <2>1, <2>2, <2>3 DEF BudgetInv
  <2>5. \A w \in Workers : worker'[w].phase = "EVALUATED" =>
          worker'[w].at <= now' /\ \A r \in log' : r[2] <= worker'[w].at
    <3>1. \A w \in Workers : worker[w].at \in Nat
      BY <1>1 DEF LogShape
    <3> QED
      BY <1>2, <2>1, <3>1 DEF BudgetInv
  <2> QED
    BY <1>1, <2>4, <2>5 DEF BudgetInv
<1>8. ASSUME NEW c \in Campaigns, GenerateQueue(c) PROVE BudgetInv'
  BY <1>3, <1>8 DEF GenerateQueue
<1>9. ASSUME NEW c \in Campaigns, NEW b \in Bursts, BurstRead(c, b[1], b[2]) PROVE BudgetInv'
  BY <1>3, <1>9 DEF BurstRead
<1>10. ASSUME BurstWrite \/ SetReviewOnly PROVE BudgetInv'
  BY <1>3, <1>10 DEF BurstWrite, SetReviewOnly
<1>11. ASSUME NEW j \in Jobs, Expedite(j) \/ ReapJob(j) PROVE BudgetInv'
  BY <1>3, <1>11 DEF Expedite, ReapJob
<1>12. ASSUME NEW w \in Workers, ClaimRollback(w) \/ Report(w) \/ ReportLost(w) PROVE BudgetInv'
  BY <1>4, <1>12 DEF ClaimRollback, Report, ReportLost
<1>13. CASE UNCHANGED vars
  BY <1>3, <1>13 DEF vars
<1> QED
  BY <1>5, <1>6, <1>7, <1>8, <1>9, <1>10, <1>11, <1>12, <1>13 DEF Next

LEMMA BudgetInvariant ==
    ASSUME OneWorker
    PROVE  Spec => []BudgetInv
<1>1. Init => BudgetInv
  BY BudgetInit
<1>2. BudgetInv /\ [Next]_vars => BudgetInv'
  BY BudgetStep
<1> QED
  BY <1>1, <1>2, PTL DEF Spec

\* What is logged today, after a step: what was, or nothing, or what a report under
\* way has added, for which there was room.
LEMMA LoggedStep ==
    ASSUME BudgetInv, [Next]_vars, NEW c \in Campaigns
    PROVE  LET today == OfThisDay(log, c)
               today2 == OfThisDay(log, c)'
           IN /\ \/ Cardinality(today2) \in {Cardinality(today), 0}
                 \/ \E d \in Campaigns : /\ Room(d)
                                         /\ Cardinality(today2) <= Cardinality(today) + 1
              /\ \/ Cardinality(Of(today2, c)) \in {Cardinality(Of(today, c)), 0}
                 \/ /\ Room(c)
                    /\ Cardinality(Of(today2, c)) <= Cardinality(Of(today, c)) + 1
<1>1. LogShape /\ LogShape' /\ settings' = settings /\ now <= now'
  BY LogShapeStep DEF BudgetInv
<1>2. now \in Nat /\ now' \in Nat
  BY <1>1 DEF LogShape
<1> DEFINE zone == settings[c].zone
           today == OfThisDay(log, c)
           today2 == OfThisDay(log, c)'
<1>3. today = OnDayOf(log, zone, now)
  BY ThisDay
<1>4. today2 = OnDayOf(log', zone, now')
  BY <1>1 DEF OfThisDay, OnDayOf
<1> HIDE DEF zone, today, today2
<1>5. ASSUME log' = log
      PROVE  /\ Cardinality(today2) \in {Cardinality(today), 0}
             /\ Cardinality(Of(today2, c)) \in {Cardinality(Of(today, c)), 0}
  <2>1. \A r \in log : r[2] <= now
    BY <1>1 DEF LogShape
  <2> QED
    BY <1>1, <1>2, <1>3, <1>4, <1>5, <2>1, NoMoreByWaiting DEF zone
<1>6. ASSUME NEW w \in Workers, Report(w)
      PROVE  \E d \in Campaigns :
               /\ Room(d)
               /\ Cardinality(today2) <= Cardinality(today) + 1
               /\ Cardinality(Of(today2, c)) <= Cardinality(Of(today, c)) + 1
               /\ d # c => Of(today2, c) = Of(today, c)
  <2>1. PICK j \in worker[w].job : log' = OneMore(log, JobCampaign[j])
    BY <1>6 DEF Report
  <2> DEFINE d == JobCampaign[j]
  <2>2. d \in Campaigns /\ j \in Jobs
    BY <1>1, BudgetAssumption DEF LogShape
  <2>3. Room(d)
    BY <1>6 DEF BudgetInv, Report
  <2>4. PICK n : log' = log \cup {<<d, now, n>>}
    BY <2>1 DEF OneMore
  <2>5. now' = now /\ IsFiniteSet(log)
    BY <1>1, <1>6 DEF Report, LogShape
  <2> HIDE DEF d
  <2>6. /\ Cardinality(today2) <= Cardinality(today) + 1
        /\ Cardinality(Of(today2, c)) <= Cardinality(Of(today, c)) + 1
        /\ d # c => Of(today2, c) = Of(today, c)
    <3> DEFINE x == <<d, now, n>>
    <3>1. x[1] = d
      OBVIOUS
    <3> HIDE DEF x
    <3>2. log' = log \cup {x}
      BY <2>4 DEF x
    <3> QED
      BY <1>3, <1>4, <2>5, <3>1, <3>2, OneRowMore
  <2> QED
    BY <2>2, <2>3, <2>6
<1>7. log' = log \/ \E w \in Workers : Report(w)
  <2>1. ASSUME NEW w \in Workers, Evaluate(w) \/ Claim(w) \/ ClaimRollback(w) \/ ReportLost(w)
        PROVE  log' = log
    BY <2>1 DEF Evaluate, Claim, ClaimRollback, ReportLost
  <2>2. ASSUME NEW d \in Campaigns, GenerateQueue(d) PROVE log' = log
    BY <2>2 DEF GenerateQueue
  <2>3. ASSUME NEW d \in Campaigns, NEW b \in Bursts, BurstRead(d, b[1], b[2]) PROVE log' = log
    BY <2>3 DEF BurstRead
  <2>4. ASSUME NEW j \in Jobs, Expedite(j) \/ ReapJob(j) PROVE log' = log
    BY <2>4 DEF Expedite, ReapJob
  <2>5. ASSUME BurstWrite \/ SetReviewOnly \/ Tick \/ UNCHANGED vars PROVE log' = log
    BY <2>5 DEF BurstWrite, SetReviewOnly, Tick, vars
  <2> QED
    BY <2>1, <2>2, <2>3, <2>4, <2>5 DEF Next
<1>8. \/ /\ Cardinality(today2) \in {Cardinality(today), 0}
         /\ Cardinality(Of(today2, c)) \in {Cardinality(Of(today, c)), 0}
      \/ \E d \in Campaigns :
           /\ Room(d)
           /\ Cardinality(today2) <= Cardinality(today) + 1
           /\ Cardinality(Of(today2, c)) <= Cardinality(Of(today, c)) + 1
           /\ d # c => Of(today2, c) = Of(today, c)
  BY <1>5, <1>6, <1>7
<1> QED
  BY <1>8 DEF today, today2
LEMMA LimitsStep ==
    ASSUME BudgetInv, [Next]_vars
    PROVE  /\ CampaignsWithinLimit => CampaignsWithinLimit'
           /\ (AllWithinLimit /\ \A c, d \in Campaigns : settings[c].zone = settings[d].zone)
                => AllWithinLimit'
<1>1. LogShape /\ LogShape' /\ settings' = settings
  BY LogShapeStep DEF BudgetInv
<1>2. \A c \in Campaigns :
        /\ settings[c].dailyLimit \in Nat /\ GlobalDailyLimit \in Nat
        /\ Cardinality(OfThisDay(log, c)) \in Nat
        /\ Cardinality(Of(OfThisDay(log, c), c)) \in Nat
        /\ Cardinality(OfThisDay(log, c)') \in Nat
        /\ Cardinality(Of(OfThisDay(log, c)', c)) \in Nat
  <2> SUFFICES ASSUME NEW c \in Campaigns
               PROVE  /\ settings[c].dailyLimit \in Nat /\ GlobalDailyLimit \in Nat
                      /\ Cardinality(OfThisDay(log, c)) \in Nat
                      /\ Cardinality(Of(OfThisDay(log, c), c)) \in Nat
                      /\ Cardinality(OfThisDay(log, c)') \in Nat
                      /\ Cardinality(Of(OfThisDay(log, c)', c)) \in Nat
    OBVIOUS
  <2>1. settings[c].dailyLimit \in Nat /\ GlobalDailyLimit \in Nat
    BY <1>1, SettingsShape, BudgetAssumption DEF LogShape
  <2>2. /\ OfThisDay(log, c) = OnDayOf(log, settings[c].zone, now)
        /\ OfThisDay(log, c)' = OnDayOf(log', settings[c].zone, now')
    BY <1>1 DEF OfThisDay, OnDayOf
  <2>3. IsFiniteSet(log) /\ IsFiniteSet(log')
    BY <1>1 DEF LogShape
  <2>4. \A rows, zone, at : IsFiniteSet(rows) =>
          /\ Cardinality(OnDayOf(rows, zone, at)) \in Nat
          /\ Cardinality(Of(OnDayOf(rows, zone, at), c)) \in Nat
    BY OneRowMore
  <2>5. /\ Cardinality(OfThisDay(log, c)) \in Nat
        /\ Cardinality(Of(OfThisDay(log, c), c)) \in Nat
    BY <2>2, <2>3, <2>4
  <2>6. /\ Cardinality(OfThisDay(log, c)') \in Nat
        /\ Cardinality(Of(OfThisDay(log, c)', c)) \in Nat
    BY <2>2, <2>3, <2>4
  <2> QED
    BY <2>1, <2>5, <2>6
<1>3. ASSUME CampaignsWithinLimit PROVE CampaignsWithinLimit'
  <2> SUFFICES ASSUME NEW c \in Campaigns
               PROVE  Cardinality(Of(OfThisDay(log, c)', c)) <= settings[c].dailyLimit
    BY <1>1 DEF CampaignsWithinLimit, Of
  <2>1. Cardinality(Of(OfThisDay(log, c), c)) <= settings[c].dailyLimit
    BY <1>3 DEF CampaignsWithinLimit, Of
  <2> QED
    BY <1>2, <2>1, LoggedStep DEF Room
<1>4. ASSUME AllWithinLimit, \A c, d \in Campaigns : settings[c].zone = settings[d].zone
      PROVE  AllWithinLimit'
  <2> SUFFICES ASSUME NEW c \in Campaigns
               PROVE  Cardinality(OfThisDay(log, c)') <= GlobalDailyLimit
    BY DEF AllWithinLimit
  <2>1. Cardinality(OfThisDay(log, c)) <= GlobalDailyLimit
    BY <1>4 DEF AllWithinLimit
  <2>2. \A d \in Campaigns : OfThisDay(log, d) = OfThisDay(log, c)
    BY <1>4 DEF OfThisDay
  <2>3. \A d \in Campaigns : Room(d) => Cardinality(OfThisDay(log, c)) < GlobalDailyLimit
    BY <2>2 DEF Room
  <2> QED
    BY <1>2, <2>1, <2>3, LoggedStep
<1> QED
  BY <1>3, <1>4

\* With one worker - the run lease sees to that - no campaign logs more in a day of
\* its zone than its daily limit, whatever zones the campaigns have and however the
\* clocks change, and bursts, retries and expedited jobs come (claimNextJob).
THEOREM CampaignLimitHeld ==
    ASSUME OneWorker
    PROVE  CampaignsWithinLimit /\ Spec => []CampaignsWithinLimit
<1>1. BudgetInv /\ CampaignsWithinLimit /\ [Next]_vars => CampaignsWithinLimit'
  BY LimitsStep
<1> QED
  BY <1>1, BudgetInvariant, PTL DEF Spec

\* ... and where the campaigns share a zone, all of them together log no more in a
\* day than the global limit.  With two zones "today" is a different set of rows for
\* each, and each claim looks at its own only.
THEOREM LimitsHeld ==
    ASSUME OneWorker,
           \A s \in Settings : \A c, d \in Campaigns : s[c].zone = s[d].zone
    PROVE  RecordedWithinLimits /\ Spec => []RecordedWithinLimits
<1>1. BudgetInv /\ RecordedWithinLimits /\ [Next]_vars => RecordedWithinLimits'
  <2> SUFFICES ASSUME BudgetInv, RecordedWithinLimits, [Next]_vars
               PROVE  RecordedWithinLimits'
    OBVIOUS
  <2>1. \A c, d \in Campaigns : settings[c].zone = settings[d].zone
    BY DEF BudgetInv, LogShape
  <2> QED
    BY <2>1, LimitsStep DEF RecordedWithinLimits
<1> QED
  BY <1>1, BudgetInvariant, PTL DEF Spec

-----------------------------------------------------------------------------
(* The switch of a business. *)

Statuses == {"ABSENT", "WAITING", "PROCESSING", "DONE"}

\* The rows, with whatever instants they are scheduled for.
RowsDue(D) == [Jobs -> [status : Statuses, due : D,
                        priority : {EXPEDITED, BURST, STANDING}, attempts : Nat]]

JobRows == \E D : job \in RowsDue(D)

\* The claim alone makes a row PROCESSING that was not.
Started == \E j \in Jobs : job'[j].status = "PROCESSING" /\ job[j].status # "PROCESSING"

LEMMA JobStep ==
    ASSUME JobRows, [Next]_vars
    PROVE  JobRows' /\ (Started => enabled)
<1>1. PICK D : job \in RowsDue(D)
  BY DEF JobRows
<1> DEFINE Rec(E) == [status : Statuses, due : E,
                      priority : {EXPEDITED, BURST, STANDING}, attempts : Nat]
<1>2. \A j \in Jobs : job[j] \in Rec(D)
  BY <1>1 DEF RowsDue
<1>3. ASSUME job' = job PROVE JobRows' /\ ~Started
  BY <1>3 DEF Started, JobRows, RowsDue
<1>4. ASSUME NEW S, NEW f, job' = [j \in Jobs |-> IF j \in S
                                    THEN [job[j] EXCEPT !.status = "WAITING", !.due = f[j]]
                                    ELSE job[j]]
      PROVE  JobRows' /\ ~Started
  <2> DEFINE E == D \cup {f[j] : j \in Jobs}
  <2>1. \A j \in Jobs : /\ [job[j] EXCEPT !.status = "WAITING", !.due = f[j]] \in Rec(E)
                        /\ [job[j] EXCEPT !.status = "WAITING", !.due = f[j]].status = "WAITING"
                        /\ job[j] \in Rec(E)
    BY <1>2 DEF Statuses
  <2> QED
    BY <1>4, <2>1 DEF JobRows, RowsDue, Started
<1>5. ASSUME NEW S, NEW f, NEW p \in {EXPEDITED, BURST, STANDING},
             job' = [j \in Jobs |-> IF j \in S
                       THEN [job[j] EXCEPT !.priority = p, !.due = f[j]] ELSE job[j]]
      PROVE  JobRows' /\ ~Started
  <2> DEFINE E == D \cup {f[j] : j \in Jobs}
  <2>1. \A j \in Jobs : /\ [job[j] EXCEPT !.priority = p, !.due = f[j]] \in Rec(E)
                        /\ [job[j] EXCEPT !.priority = p, !.due = f[j]].status = job[j].status
                        /\ job[j] \in Rec(E)
    BY <1>2
  <2> QED
    BY <1>5, <2>1 DEF JobRows, RowsDue, Started
<1>6. ASSUME NEW j \in Jobs, NEW row, NEW E, row \in Rec(E), row.status # "PROCESSING",
             job' = [job EXCEPT ![j] = row]
      PROVE  JobRows' /\ ~Started
  <2>1. \A k \in Jobs : job'[k] = IF k = j THEN row ELSE job[k]
    BY <1>1, <1>6 DEF RowsDue
  <2>2. row \in Rec(D \cup E) /\ \A k \in Jobs : job[k] \in Rec(D \cup E)
    BY <1>2, <1>6
  <2>3. job' \in [Jobs -> Rec(D \cup E)]
    BY <1>1, <1>6, <2>2 DEF RowsDue
  <2> QED
    BY <1>6, <2>1, <2>3 DEF JobRows, RowsDue, Started
<1>7. ASSUME NEW j \in Jobs
      PROVE  /\ Settled(job[j]) \in Rec(D \cup {0}) /\ Settled(job[j]).status = "DONE"
             /\ \A t : LET row == [job[j] EXCEPT !.status = "WAITING", !.due = t]
                       IN row \in Rec({t}) /\ row.status = "WAITING"
  <2>1. job[j] \in Rec(D)
    BY <1>2
  <2>2. Settled(job[j]) \in Rec(D \cup {0}) /\ Settled(job[j]).status = "DONE"
    BY <2>1 DEF Settled, Statuses
  <2>3. \A t : LET row == [job[j] EXCEPT !.status = "WAITING", !.due = t]
               IN row \in Rec({t}) /\ row.status = "WAITING"
    BY <2>1 DEF Statuses
  <2> QED
    BY <2>2, <2>3
<1>8. ASSUME NEW c \in Campaigns, GenerateQueue(c) PROVE JobRows' /\ ~Started
  <2> DEFINE fresh == {j \in Jobs : JobCampaign[j] = c /\ job[j].status = "ABSENT"}
             order == SetToSeq(fresh)
             slot(j) == CHOOSE i \in 1 .. Len(order) : order[i] = j
  <2>1. PICK gap \in settings[c].delays :
          LET plan == buildSchedule(settings[c], now, Len(order), gap)
          IN job' = [j \in Jobs |->
                       IF j \in fresh /\ slot(j) <= Len(plan)
                         THEN [job[j] EXCEPT !.status = "WAITING", !.due = plan[slot(j)]]
                         ELSE job[j]]
    BY <1>8 DEF GenerateQueue
  <2> DEFINE plan == buildSchedule(settings[c], now, Len(order), gap)
             S == {j \in fresh : slot(j) <= Len(plan)}
             f == [j \in Jobs |-> plan[slot(j)]]
  <2> HIDE DEF slot, plan
  <2>2. job' = [j \in Jobs |-> IF j \in fresh /\ slot(j) <= Len(plan)
                                 THEN [job[j] EXCEPT !.status = "WAITING", !.due = plan[slot(j)]]
                                 ELSE job[j]]
    BY <2>1 DEF slot, plan
  <2>3. job' = [j \in Jobs |-> IF j \in S
                                 THEN [job[j] EXCEPT !.status = "WAITING", !.due = f[j]]
                                 ELSE job[j]]
    BY <2>2
  <2> HIDE DEF S, f
  <2> QED
    BY <1>4, <2>3
<1>9. ASSUME BurstWrite PROVE JobRows' /\ ~Started
  <2> DEFINE time(j) == BurstTime(CHOOSE i \in DOMAIN request.jobs : request.jobs[i] = j)
             f == [j \in Jobs |-> time(j)]
             S == ToSet(request.jobs)
  <2>1. job' = [j \in Jobs |-> IF j \in S THEN [job[j] EXCEPT !.priority = BURST, !.due = time(j)]
                                          ELSE job[j]]
    BY <1>9 DEF BurstWrite
  <2> HIDE DEF time, S
  <2>2. job' = [j \in Jobs |-> IF j \in S THEN [job[j] EXCEPT !.priority = BURST, !.due = f[j]]
                                          ELSE job[j]]
    BY <2>1
  <2> HIDE DEF f
  <2> QED
    BY <1>5, <2>2
<1>10. ASSUME NEW j \in Jobs, Expedite(j) PROVE JobRows' /\ ~Started
  <2> DEFINE f == [k \in Jobs |-> now]
             S == {j}
  <2>1. job' = [job EXCEPT ![j] = [job[j] EXCEPT !.priority = EXPEDITED, !.due = now]]
    BY <1>1, <1>10 DEF Expedite, RowsDue
  <2>2. job' = [k \in Jobs |-> IF k \in S THEN [job[k] EXCEPT !.priority = EXPEDITED, !.due = f[k]]
                                          ELSE job[k]]
    BY <1>1, <2>1 DEF RowsDue
  <2> HIDE DEF f, S
  <2> QED
    BY <1>5, <2>2
<1>11. ASSUME NEW j \in Jobs, ReapJob(j) PROVE JobRows' /\ ~Started
  <2>1. CASE job[j].attempts >= MaxAttempts
    <3>1. job' = [job EXCEPT ![j] = Settled(job[j])]
      BY <1>11, <2>1 DEF ReapJob
    <3> QED
      BY <1>6, <1>7, <3>1
  <2>2. CASE ~(job[j].attempts >= MaxAttempts)
    <3>1. job' = [job EXCEPT ![j] = [job[j] EXCEPT !.status = "WAITING", !.due = now]]
      BY <1>11, <2>2 DEF ReapJob
    <3> QED
      BY <1>6, <1>7, <3>1
  <2> QED
    BY <2>1, <2>2
<1>12. ASSUME NEW w \in Workers, Report(w) PROVE JobRows' /\ ~Started
  <2>1. PICK j \in worker[w].job : \E row \in Reported(job[j]) : job' = [job EXCEPT ![j] = row]
    BY <1>12 DEF Report
  <2>2. PICK row \in Reported(job[j]) : job' = [job EXCEPT ![j] = row]
    BY <2>1
  <2>3. CASE j \notin Jobs
    <3>1. job' = job
      BY <1>1, <2>2, <2>3 DEF RowsDue
    <3> QED
      BY <1>3, <3>1
  <2>4. CASE j \in Jobs
    <3>1. \/ row = Settled(job[j])
          \/ row = [job[j] EXCEPT !.status = "WAITING", !.due = now + Backoff]
      BY <2>2 DEF Reported
    <3> QED
      BY <1>6, <1>7, <2>2, <2>4, <3>1
  <2> QED
    BY <2>3, <2>4
<1>13. ASSUME NEW w \in Workers, Claim(w) PROVE JobRows' /\ enabled
  <2>1. PICK j \in Heads(Due(w)) :
          /\ StillAllowed(JobCampaign[j], worker[w].at)
          /\ job' = [job EXCEPT ![j].status = "PROCESSING", ![j].attempts = @ + 1]
    BY <1>13 DEF Claim
  <2>2. j \in Jobs
    BY DEF Heads, Due
  <2>3. job' \in RowsDue(D)
    BY <1>1, <2>1, <2>2 DEF RowsDue, Statuses
  <2> QED
    BY <2>1, <2>3 DEF JobRows, StillAllowed
<1>14. ASSUME NEW w \in Workers, Evaluate(w) \/ ClaimRollback(w) \/ ReportLost(w) PROVE job' = job
  BY <1>14 DEF Evaluate, ClaimRollback, ReportLost
<1>15. ASSUME NEW c \in Campaigns, NEW b \in Bursts, BurstRead(c, b[1], b[2]) PROVE job' = job
  BY <1>15 DEF BurstRead
<1>16. ASSUME SetReviewOnly \/ Tick \/ UNCHANGED vars PROVE job' = job
  BY <1>16 DEF SetReviewOnly, Tick, vars
<1> QED
  BY <1>3, <1>8, <1>9, <1>10, <1>11, <1>12, <1>13, <1>14, <1>15, <1>16 DEF Next

\* Once a business is set to review only nothing of it is claimed any more, even by a
\* claim that had found it eligible (claimNextJob reads outreachEnabled again).
THEOREM NothingClaimedWhenDisabled == Spec => DisabledClaimsNothing
<1>1. Init => JobRows
  <2> SUFFICES ASSUME Init PROVE JobRows
    OBVIOUS
  <2>1. job \in RowsDue({0})
    BY DEF Init, RowsDue, Statuses
  <2> QED
    BY <2>1 DEF JobRows
<1>2. JobRows /\ [Next]_vars => JobRows'
  BY JobStep
<1>3. JobRows /\ [Next]_vars =>
        [~enabled => \A j \in Jobs : job'[j].status = "PROCESSING"
                                       => job[j].status = "PROCESSING"]_vars
  BY JobStep DEF Started
<1> QED
  BY <1>1, <1>2, <1>3, PTL DEF Spec, DisabledClaimsNothing

-----------------------------------------------------------------------------
\* A day has its hours, one more when the clocks go back in it, one less when they
\* go forward.
LEMMA DayLength ==
    ASSUME NEW zone \in Nat, NEW d \in Nat
    PROVE  /\ DayStart(zone, d) \in Int
           /\ DayStart(zone, d + 1) = DayStart(zone, d) + HoursPerDay
                                        + (IF d \in LongDays THEN 1 ELSE 0)
                                        - (IF d \in ShortDays THEN 1 ELSE 0)
<1>1. ASSUME NEW D, D \subseteq Nat
      PROVE  /\ Cardinality(EarlierIn(D, d)) \in Nat
             /\ Cardinality(EarlierIn(D, d + 1))
                  = Cardinality(EarlierIn(D, d)) + (IF d \in D THEN 1 ELSE 0)
  <2>1. IsFiniteSet(EarlierIn(D, d))
    <3>1. \A e \in EarlierIn(D, d) : e \in 0 .. d
      BY <1>1 DEF EarlierIn
    <3>2. EarlierIn(D, d) \in SUBSET (0 .. d)
      BY <3>1
    <3>3. IsFiniteSet(0 .. d)
      BY FS_Interval
    <3> QED
      BY <3>2, <3>3, FS_Subset
  <2>2. Cardinality(EarlierIn(D, d)) \in Nat
    BY <2>1, FS_CardinalityType
  <2>0. \A e \in D : e < d + 1 <=> e < d \/ e = d
    BY <1>1
  <2>3. CASE d \in D
    <3>1. EarlierIn(D, d + 1) = EarlierIn(D, d) \cup {d}
      BY <2>0, <2>3, Zenon DEF EarlierIn
    <3>2. d \notin EarlierIn(D, d)
      BY DEF EarlierIn
    <3> QED
      BY <2>1, <2>2, <2>3, <3>1, <3>2, FS_AddElement
  <2>4. CASE d \notin D
    <3>1. EarlierIn(D, d + 1) = EarlierIn(D, d)
      BY <2>0, <2>4, Zenon DEF EarlierIn
    <3> QED
      BY <2>2, <2>4, <3>1
  <2> QED
    BY <2>3, <2>4
<1> DEFINE long(e) == Cardinality(EarlierIn(LongDays, e))
           short(e) == Cardinality(EarlierIn(ShortDays, e))
<1>2. /\ long(d) \in Nat /\ long(d + 1) = long(d) + (IF d \in LongDays THEN 1 ELSE 0)
      /\ short(d) \in Nat /\ short(d + 1) = short(d) + (IF d \in ShortDays THEN 1 ELSE 0)
  BY <1>1, ScheduleAssumption
<1>3. /\ DayStart(zone, d) = d * HoursPerDay - zone + long(d) - short(d)
      /\ DayStart(zone, d + 1) = (d + 1) * HoursPerDay - zone + long(d + 1) - short(d + 1)
  BY DEF DayStart, EarlierIn
<1> HIDE DEF long, short
<1>4. d * HoursPerDay \in Nat /\ (d + 1) * HoursPerDay = d * HoursPerDay + HoursPerDay
  BY ScheduleAssumption
<1> QED
  BY <1>2, <1>3, <1>4, ScheduleAssumption

\* What the clock on the wall says: the hours that have passed, an hour off after a
\* change, and never less than before on the same day.
LEMMA OnTheClock ==
    ASSUME NEW zone \in Nat, NEW at \in Nat
    PROVE  LET d == LocalDay(zone, at)
               passed == at - DayStart(zone, d)
               wall == WallClock(zone, at)
           IN /\ d \in Nat /\ passed \in Nat /\ wall \in Nat
              /\ d \notin LongDays \cup ShortDays => wall = passed /\ passed < HoursPerDay
              /\ d \notin LongDays => wall >= passed
              /\ wall >= passed - 1
              /\ passed <= ChangeHour => wall = passed \/ d \in ShortDays
              /\ passed < ChangeHour => wall = passed
              /\ passed > ChangeHour => wall >= ChangeHour
              /\ \A t \in Nat : at <= t /\ LocalDay(zone, t) = d => wall <= WallClock(zone, t)
<1> DEFINE d == LocalDay(zone, at)
           passed == at - DayStart(zone, d)
<1>1. d \in Nat /\ DayStart(zone, d) <= at /\ at < DayStart(zone, d + 1)
  BY LocalDayOf
<1>2. DayStart(zone, d) \in Int
  BY <1>1, DayLength
<1>3. /\ d \notin LongDays \cup ShortDays => passed < HoursPerDay
      /\ passed \in Nat
  <2>1. DayStart(zone, d + 1) = DayStart(zone, d) + HoursPerDay
                                        + (IF d \in LongDays THEN 1 ELSE 0)
                                        - (IF d \in ShortDays THEN 1 ELSE 0)
    BY <1>1, DayLength
  <2> HIDE DEF d
  <2> QED
    BY <1>1, <1>2, <2>1, ScheduleAssumption
<1>4. WallClock(zone, at) = IF d \in LongDays /\ passed > ChangeHour THEN passed - 1
                            ELSE IF d \in ShortDays /\ passed >= ChangeHour THEN passed + 1
                            ELSE passed
  BY DEF WallClock
<1>5. \A t \in Nat : LocalDay(zone, t) = d =>
        WallClock(zone, t) =
          LET later == t - DayStart(zone, d)
          IN IF d \in LongDays /\ later > ChangeHour THEN later - 1
             ELSE IF d \in ShortDays /\ later >= ChangeHour THEN later + 1
             ELSE later
  BY DEF WallClock
<1> HIDE DEF d
<1>7. LongDays \cap ShortDays = {} /\ ChangeHour \in Nat /\ ChangeHour >= 1
  BY ScheduleAssumption
<1>6. \A t \in Nat : at <= t /\ LocalDay(zone, t) = d => WallClock(zone, at) <= WallClock(zone, t)
  <2> SUFFICES ASSUME NEW t \in Nat, at <= t, LocalDay(zone, t) = d
               PROVE  WallClock(zone, at) <= WallClock(zone, t)
    OBVIOUS
  <2> DEFINE later == t - DayStart(zone, d)
  <2>1. later \in Nat /\ passed <= later
    BY <1>2, <1>3
  <2>2. WallClock(zone, t) = IF d \in LongDays /\ later > ChangeHour THEN later - 1
                             ELSE IF d \in ShortDays /\ later >= ChangeHour THEN later + 1
                             ELSE later
    BY <1>5
  <2> HIDE DEF later, passed
  <2>3. ~(d \in LongDays /\ d \in ShortDays)
    BY <1>7
  <2> QED
    BY <1>3, <1>4, <1>7, <2>1, <2>2, <2>3
<1> HIDE DEF passed
<1>8. /\ WallClock(zone, at) \in Nat
      /\ d \notin LongDays \cup ShortDays => WallClock(zone, at) = passed
      /\ d \notin LongDays => WallClock(zone, at) >= passed
      /\ WallClock(zone, at) >= passed - 1
      /\ passed <= ChangeHour => WallClock(zone, at) = passed \/ d \in ShortDays
      /\ passed < ChangeHour => WallClock(zone, at) = passed
      /\ passed > ChangeHour => WallClock(zone, at) >= ChangeHour
  BY <1>3, <1>4, <1>7
<1> QED
  BY <1>1, <1>3, <1>6, <1>8 DEF d, passed

-----------------------------------------------------------------------------
(* The window. *)

\* Every set of numbers has a least one.
LEMMA LeastNumber ==
    ASSUME NEW S \in SUBSET Nat, S # {}
    PROVE  Min(S) \in S /\ \A m \in S : Min(S) <= m
<1>1. PICK n \in S : \A m \in S : <<m, n>> \notin OpToRel(<, Nat)
  BY NatLessThanWellFounded, WFMin
<1>2. OpToRel(<, Nat) = {ss \in Nat \X Nat : ss[1] < ss[2]}
  BY Zenon DEF OpToRel
<1>3. \A m \in S : <<m, n>> \notin {ss \in Nat \X Nat : ss[1] < ss[2]}
  BY <1>1, <1>2, Zenon
<1>4. n \in Nat /\ \A m \in S : m \in Nat
  OBVIOUS
<1>5. \A m, k \in Nat : <<m, k>> \notin {ss \in Nat \X Nat : ss[1] < ss[2]} => k <= m
  OBVIOUS
<1>6. \A m \in S : n <= m
  BY <1>3, <1>4, <1>5, Zenon
<1> QED
  BY <1>1, <1>6, Zenon DEF Min

\* Where clocks change on a day on which the window opens, they change after it.
OpensByTheClock(s) ==
    /\ s.windowStart < HoursPerDay
    /\ \A d \in Nat : Weekday(d) \in s.days =>
         /\ d \in LongDays => s.windowStart <= ChangeHour
         /\ d \in ShortDays => s.windowStart < ChangeHour

Opening(s, d) == DayStart(s.zone, d) + s.windowStart

LEMMA PastOpening ==
    ASSUME NEW s \in CampaignSettings, OpensByTheClock(s), NEW at \in Nat,
           Weekday(LocalDay(s.zone, at)) \in s.days
    PROVE  WallClock(s.zone, at) >= s.windowStart <=> at >= Opening(s, LocalDay(s.zone, at))
<1> DEFINE d == LocalDay(s.zone, at)
           start == DayStart(s.zone, d)
           passed == at - start
           wall == WallClock(s.zone, at)
<1>1. s.zone \in Nat /\ s.windowStart \in Nat
  BY ScheduleAssumption DEF CampaignSettings
<1>2. /\ d \in Nat /\ passed \in Nat /\ wall \in Nat
      /\ d \notin LongDays \cup ShortDays => wall = passed
      /\ d \notin LongDays => wall >= passed
      /\ passed <= ChangeHour => wall = passed \/ d \in ShortDays
      /\ passed < ChangeHour => wall = passed
      /\ passed > ChangeHour => wall >= ChangeHour
      /\ d \in LongDays => s.windowStart <= ChangeHour
      /\ d \in ShortDays => s.windowStart < ChangeHour
  BY <1>1, OnTheClock DEF OpensByTheClock
<1>3. wall = IF d \in LongDays /\ passed > ChangeHour THEN passed - 1
             ELSE IF d \in ShortDays /\ passed >= ChangeHour THEN passed + 1
             ELSE passed
  BY DEF WallClock
<1>4. start \in Int
  BY <1>1, <1>2, DayLength
<1>5. ChangeHour \in Nat /\ ~(d \in LongDays /\ d \in ShortDays)
  <2>1. LongDays \cap ShortDays = {}
    BY ScheduleAssumption
  <2>2. ChangeHour \in Nat
    BY ScheduleAssumption
  <2> QED
    BY <2>1, <2>2
<1>6. Opening(s, d) = start + s.windowStart
  BY DEF Opening
<1>7. at = start + passed
  BY <1>2, <1>4
<1> HIDE DEF d, start, passed, wall
<1>8. wall >= s.windowStart <=> passed >= s.windowStart
  BY <1>1, <1>2, <1>3, <1>5
<1> QED
  BY <1>1, <1>2, <1>4, <1>6, <1>7, <1>8 DEF d, wall

\* The window is open at an opening, which lies on its day.
LEMMA OpenAtOpening ==
    ASSUME NEW s \in CampaignSettings, OpensByTheClock(s), NEW d \in Nat,
           Weekday(d) \in s.days, Opening(s, d) \in Nat
    PROVE  /\ LocalDay(s.zone, Opening(s, d)) = d
           /\ isWithinOperatingWindow(s, Opening(s, d))
           /\ Opening(s, d) < DayStart(s.zone, d + 1)
<1>1. s.zone \in Nat /\ s.windowStart \in Nat /\ s.windowEnd \in Nat /\ s.windowStart < HoursPerDay
  BY ScheduleAssumption DEF CampaignSettings, OpensByTheClock
<1> DEFINE start == DayStart(s.zone, d)
           next == DayStart(s.zone, d + 1)
           at == Opening(s, d)
<1>2. /\ start \in Int
      /\ next = start + HoursPerDay + (IF d \in LongDays THEN 1 ELSE 0)
                                    - (IF d \in ShortDays THEN 1 ELSE 0)
  BY <1>1, DayLength
<1>3. d \in ShortDays => s.windowStart < HoursPerDay - 2
  <2>1. ChangeHour \in Int /\ ChangeHour <= HoursPerDay - 2 /\ HoursPerDay \in Nat
    BY ScheduleAssumption
  <2>2. d \in ShortDays => s.windowStart < ChangeHour
    BY DEF OpensByTheClock
  <2> QED
    BY <1>1, <2>1, <2>2
<1>4. HoursPerDay \in Nat
  BY ScheduleAssumption
<1>5. at = start + s.windowStart
  BY DEF Opening
<1> HIDE DEF start, next, at
<1>6. start <= at /\ at < next
  BY <1>1, <1>2, <1>3, <1>4, <1>5
<1>7. LocalDay(s.zone, at) = d
  BY <1>1, <1>6, OfDay DEF start, next, at
<1>8. WallClock(s.zone, at) >= s.windowStart
  <2>1. at \in Int
    BY DEF at
  <2> QED
    BY <1>7, <2>1, PastOpening DEF at
<1>9. /\ WallClock(s.zone, at) = s.windowStart \/ isOvernightWindow(s)
  <2>1. /\ at - start <= ChangeHour => WallClock(s.zone, at) = at - start \/ d \in ShortDays
        /\ at - start < ChangeHour => WallClock(s.zone, at) = at - start
        /\ d \notin LongDays \cup ShortDays => WallClock(s.zone, at) = at - start
    BY <1>1, <1>7, OnTheClock DEF at, start
  <2>2. at - start = s.windowStart
    BY <1>1, <1>2, <1>5
  <2>3. /\ d \in LongDays => s.windowStart <= ChangeHour
        /\ d \in ShortDays => s.windowStart < ChangeHour
    BY DEF OpensByTheClock
  <2>4. ~(d \in LongDays /\ d \in ShortDays)
    <3>1. LongDays \cap ShortDays = {}
      BY ScheduleAssumption
    <3> QED
      BY <3>1
  <2> QED
    BY <2>1, <2>2, <2>3, <2>4
<1>10. isWithinOperatingWindow(s, at)
  BY <1>1, <1>7, <1>8, <1>9 DEF isWithinOperatingWindow, isOvernightWindow
<1> QED
  BY <1>6, <1>7, <1>10 DEF at, next

\* A window that is open, and was not open before, has opened in between.
LEMMA OpenedSince ==
    ASSUME NEW s \in CampaignSettings, OpensByTheClock(s), NEW at \in Nat, NEW t \in Nat,
           at <= t, isWithinOperatingWindow(s, t), ~isWithinOperatingWindow(s, at)
    PROVE  \E d \in Nat : /\ Weekday(d) \in s.days /\ LocalDay(s.zone, at) <= d
                          /\ at < Opening(s, d) /\ Opening(s, d) <= t
<1> DEFINE d == LocalDay(s.zone, t)
           e == LocalDay(s.zone, at)
<1>1. s.zone \in Nat /\ s.windowStart \in Nat /\ s.windowEnd \in Nat
  BY ScheduleAssumption DEF CampaignSettings
<1>2. /\ d \in Nat /\ e \in Nat /\ e <= d
      /\ DayStart(s.zone, d) \in Int /\ DayStart(s.zone, d) <= t
      /\ t < DayStart(s.zone, d + 1) /\ DayStart(s.zone, d + 1) \in Int
  <2>1. d \in Nat /\ e \in Nat
    BY <1>1, OnTheClock
  <2>2. d + 1 \in Nat
    BY <2>1
  <2> QED
    BY <1>1, <2>1, <2>2, LocalDayOf, DaysPass, DayLength
<1>3. ASSUME e = d PROVE WallClock(s.zone, at) <= WallClock(s.zone, t)
  BY <1>1, <1>3, OnTheClock
<1>4. WallClock(s.zone, at) \in Nat /\ WallClock(s.zone, t) \in Nat
  BY <1>1, OnTheClock
<1>5. CASE WallClock(s.zone, t) >= s.windowStart /\ Weekday(d) \in s.days
  <2>1. Opening(s, d) <= t
    BY <1>5, PastOpening
  <2>2. Opening(s, d) \in Int /\ Opening(s, d) >= DayStart(s.zone, d)
    BY <1>1, <1>2 DEF Opening
  <2>3. ASSUME Opening(s, d) <= at PROVE FALSE
    <3>1. DayStart(s.zone, d) <= at /\ at < DayStart(s.zone, d + 1)
      BY <1>2, <2>2, <2>3
    <3>2. e = d
      BY <1>1, <1>2, <3>1, OfDay
    <3>3. WallClock(s.zone, at) >= s.windowStart
      BY <1>5, <2>3, <3>2, PastOpening
    <3>4. ~isOvernightWindow(s) => WallClock(s.zone, t) < s.windowEnd
      BY DEF isWithinOperatingWindow
    <3> QED
      BY <1>1, <1>3, <1>4, <1>5, <3>2, <3>3, <3>4 DEF isWithinOperatingWindow
  <2> QED
    BY <1>2, <1>5, <2>1, <2>2, <2>3
<1>6. CASE ~(WallClock(s.zone, t) >= s.windowStart /\ Weekday(d) \in s.days)
  <2>1. /\ isOvernightWindow(s) /\ WallClock(s.zone, t) < s.windowEnd
        /\ Weekday(d - 1) \in s.days
    BY <1>6 DEF isWithinOperatingWindow
  <2>2. e < d
    <3>1. ASSUME e = d PROVE FALSE
      BY <1>1, <1>3, <1>4, <2>1, <3>1 DEF isWithinOperatingWindow
    <3> QED
      BY <1>2, <3>1
  <2> DEFINE y == d - 1
  <2>3. y \in Nat /\ e <= y /\ y + 1 = d
    BY <1>2, <2>2
  <2> HIDE DEF y
  <2>4. Weekday(y) \in s.days
    BY <2>1 DEF y
  <2>5. Opening(s, y) < DayStart(s.zone, d)
    <3>1. /\ DayStart(s.zone, y) \in Int
          /\ DayStart(s.zone, d) = DayStart(s.zone, y) + HoursPerDay
                                     + (IF y \in LongDays THEN 1 ELSE 0)
                                     - (IF y \in ShortDays THEN 1 ELSE 0)
      BY <1>1, <2>3, DayLength
    <3>2. /\ s.windowStart < HoursPerDay
          /\ y \in ShortDays => s.windowStart < ChangeHour
      BY <2>3, <2>4 DEF OpensByTheClock
    <3>3. ChangeHour \in Int /\ ChangeHour <= HoursPerDay - 2 /\ HoursPerDay \in Nat
      BY ScheduleAssumption
    <3> QED
      BY <1>1, <3>1, <3>2, <3>3 DEF Opening
  <2>6. /\ Opening(s, y) \in Int /\ Opening(s, y) >= DayStart(s.zone, y)
        /\ DayStart(s.zone, y) \in Int
    BY <1>1, <2>3, DayLength DEF Opening
  <2>7. ASSUME Opening(s, y) <= at PROVE FALSE
    <3>1. e = y
      <4>1. DayStart(s.zone, e) <= at /\ at < DayStart(s.zone, e + 1)
        BY <1>1, LocalDayOf
      <4>2. at < DayStart(s.zone, d)
        <5>1. e + 1 \in Nat /\ e + 1 <= d
          BY <1>2, <2>2
        <5>2. /\ DayStart(s.zone, e + 1) \in Int
              /\ DayStart(s.zone, d) - DayStart(s.zone, e + 1) >= 2 * (d - (e + 1))
          BY <1>1, <1>2, <5>1, DaysFollow
        <5> HIDE DEF e, d
        <5> QED
          BY <1>2, <4>1, <5>1, <5>2
      <4>3. DayStart(s.zone, y) <= at /\ at < DayStart(s.zone, y + 1)
        BY <2>3, <2>6, <2>7, <4>2
      <4> QED
        BY <1>1, <2>3, <4>3, OfDay
    <3>2. WallClock(s.zone, at) >= s.windowStart
      BY <2>4, <2>7, <3>1, PastOpening
    <3> QED
      BY <2>1, <2>4, <3>1, <3>2 DEF isWithinOperatingWindow
  <2> QED
    BY <1>2, <2>3, <2>4, <2>5, <2>6, <2>7
<1> QED
  BY <1>5, <1>6

\* What nextWindowOpen answers: never, or an instant not before, at which the window
\* is open where it opens by the clock.
LEMMA NextOpening ==
    ASSUME NEW s \in CampaignSettings, NEW at \in Nat, nextWindowOpen(s, at) # Never
    PROVE  /\ nextWindowOpen(s, at) \in Nat /\ at <= nextWindowOpen(s, at)
           /\ OpensByTheClock(s) => isWithinOperatingWindow(s, nextWindowOpen(s, at))
<1> DEFINE today == LocalDay(s.zone, at)
           days == {d \in today .. today + 2 * DaysPerWeek : Weekday(d) \in s.days}
           openings == {o \in {DayStart(s.zone, d) + s.windowStart : d \in days} : o >= at}
<1>1. nextWindowOpen(s, at) = IF s.days # {} /\ isWithinOperatingWindow(s, at) THEN at
                              ELSE IF openings = {} THEN Never ELSE Min(openings)
  BY DEF nextWindowOpen
<1>2. s.zone \in Nat /\ s.windowStart \in Nat
  BY ScheduleAssumption DEF CampaignSettings
<1>3. today \in Nat
  BY <1>2, OnTheClock
<1>4. \A d \in days : d \in Nat /\ Weekday(d) \in s.days /\ DayStart(s.zone, d) \in Int
  BY <1>2, <1>3, DayLength
<1> HIDE DEF days
<1>5. \A o \in openings : o \in Nat /\ at <= o /\ \E d \in days : o = Opening(s, d)
  BY <1>2, <1>4 DEF Opening
<1>6. CASE s.days # {} /\ isWithinOperatingWindow(s, at)
  BY <1>1, <1>6
<1>7. CASE ~(s.days # {} /\ isWithinOperatingWindow(s, at))
  <2>1. openings # {} /\ nextWindowOpen(s, at) = Min(openings)
    BY <1>1, <1>7
  <2>2. openings \in SUBSET Nat
    BY <1>5
  <2> HIDE DEF openings
  <2>3. Min(openings) \in openings
    BY <2>1, <2>2, LeastNumber
  <2>4. PICK d \in days : Min(openings) = Opening(s, d)
    BY <1>5, <2>3
  <2>5. Opening(s, d) \in Nat /\ at <= Opening(s, d)
    BY <1>5, <2>3, <2>4
  <2>6. OpensByTheClock(s) => isWithinOperatingWindow(s, Opening(s, d))
    BY <1>4, <2>5, OpenAtOpening
  <2> QED
    BY <2>1, <2>4, <2>5, <2>6
<1> QED
  BY <1>6, <1>7

\* A week on it is the same weekday.
LEMMA AWeekOn ==
    ASSUME NEW d \in Nat
    PROVE  Weekday(d + DaysPerWeek) = Weekday(d)
<1> DEFINE W == DaysPerWeek
           q == (d + W) \div W
           r == (d + W) % W
           p == d \div W
           t == d % W
<1>1. W \in Nat /\ W > 0
  BY ScheduleAssumption
<1> HIDE DEF W
<1>2. d + W = (W * q) + r /\ q \in Int /\ r \in 0 .. W - 1
  BY <1>1
<1>3. d = (W * p) + t /\ p \in Int /\ t \in 0 .. W - 1
  BY <1>1
<1> HIDE DEF q, r, p, t
<1> DEFINE k == q - p - 1
<1>4. k \in Int /\ (W * k) = t - r
  BY <1>1, <1>2, <1>3
<1> HIDE DEF k
<1>5. k > 0 => W * k >= W
  BY <1>1, <1>4
<1>6. k < 0 => W * k <= -W
  BY <1>1, <1>4
<1>7. k = 0
  BY <1>1, <1>2, <1>3, <1>4, <1>5, <1>6
<1>8. t = r
  BY <1>1, <1>2, <1>3, <1>4, <1>7
<1> QED
  BY <1>8 DEF Weekday, W, t, r

\* Every weekday comes round within a week.
LEMMA Weekly ==
    ASSUME NEW today \in Nat, NEW e \in Nat, today < e
    PROVE  \E d \in today + 1 .. today + DaysPerWeek : Weekday(d) = Weekday(e)
<1> DEFINE Alike == {d \in Nat : today < d /\ Weekday(d) = Weekday(e)}
           m == Min(Alike)
<1>1. Alike \in SUBSET Nat /\ e \in Alike
  OBVIOUS
<1>2. m \in Alike /\ \A d \in Alike : m <= d
  <2> HIDE DEF Alike
  <2> QED
    BY <1>1, LeastNumber
<1> HIDE DEF m
<1>3. m \in Nat /\ today < m /\ Weekday(m) = Weekday(e) /\ DaysPerWeek \in Nat \ {0}
  BY <1>2, ScheduleAssumption
<1>4. ASSUME today + DaysPerWeek < m PROVE FALSE
  <2> DEFINE n == m - DaysPerWeek
  <2>1. n \in Nat /\ today < n /\ n < m /\ n + DaysPerWeek = m
    BY <1>3, <1>4
  <2> HIDE DEF n
  <2>2. Weekday(n) = Weekday(e)
    BY <1>3, <2>1, AWeekOn
  <2>3. ~(m <= n)
    BY <1>3, <2>1
  <2> QED
    BY <1>2, <2>1, <2>2, <2>3
<1> QED
  BY <1>3, <1>4

\* Days are at most an hour longer than usual.
LEMMA DaysAtMost ==
    ASSUME NEW zone \in Nat, NEW a \in Nat, NEW b \in Nat, a <= b
    PROVE  DayStart(zone, b) <= DayStart(zone, a) + (b - a) * HoursPerDay + (b - a)
<1> DEFINE long(d) == Cardinality(EarlierIn(LongDays, d))
           short(d) == Cardinality(EarlierIn(ShortDays, d))
<1>1. /\ long(a) \in Nat /\ long(b) \in Nat /\ long(b) <= long(a) + (b - a)
      /\ short(a) \in Nat /\ short(b) \in Nat /\ short(a) <= short(b)
  BY ScheduleAssumption, EarlierDays
<1>2. /\ DayStart(zone, a) = a * HoursPerDay - zone + long(a) - short(a)
      /\ DayStart(zone, b) = b * HoursPerDay - zone + long(b) - short(b)
  BY DEF DayStart, EarlierIn
<1>3. HoursPerDay \in Nat
  BY ScheduleAssumption
<1> HIDE DEF long, short
<1>4. /\ b * HoursPerDay - a * HoursPerDay = (b - a) * HoursPerDay
      /\ a * HoursPerDay \in Int /\ b * HoursPerDay \in Int
  BY <1>3
<1> QED
  BY <1>1, <1>2, <1>4

\* A window with an operating day opens within a week and a day.
LEMMA SoonOpen ==
    ASSUME NEW s \in CampaignSettings, s.windowStart < HoursPerDay, NEW at \in Nat,
           NEW e \in Nat, LocalDay(s.zone, at) <= e, Weekday(e) \in s.days
    PROVE  \E d \in LocalDay(s.zone, at) .. LocalDay(s.zone, at) + DaysPerWeek :
             /\ Weekday(d) \in s.days
             /\ Opening(s, d) \in Nat /\ at <= Opening(s, d)
             /\ Opening(s, d) <= at + (DaysPerWeek + 1) * HoursPerDay
<1> DEFINE W == DaysPerWeek
           H == HoursPerDay
           today == LocalDay(s.zone, at)
           start == DayStart(s.zone, today)
<1>1. s.zone \in Nat /\ s.windowStart \in Nat /\ s.windowStart < H
  BY ScheduleAssumption DEF CampaignSettings
<1>2. H \in Nat /\ W \in 1 .. H
  BY ScheduleAssumption
<1>3. /\ today \in Nat /\ start \in Int /\ start <= at
      /\ at < DayStart(s.zone, today + 1) /\ DayStart(s.zone, today + 1) \in Int
  <2>1. today \in Nat
    BY <1>1, OnTheClock
  <2>2. today + 1 \in Nat
    BY <2>1
  <2> QED
    BY <1>1, <2>1, <2>2, LocalDayOf, DayLength
<1>4. ASSUME NEW d \in today + 1 .. today + W
      PROVE  /\ d \in Nat /\ Opening(s, d) \in Nat /\ at <= Opening(s, d)
             /\ Opening(s, d) <= start + (d - today) * H + (d - today) + s.windowStart
             /\ (d - today) * H <= W * H /\ (d - today) * H \in Nat
  <2>1. d \in Nat /\ today + 1 \in Nat /\ today + 1 <= d /\ d - today \in 1 .. W
    BY <1>2, <1>3
  <2>2. DayStart(s.zone, d) \in Int
    BY <1>1, <2>1, DayLength
  <2>3. DayStart(s.zone, d) - DayStart(s.zone, today + 1) >= 2 * (d - (today + 1))
    BY <1>1, <2>1, DaysFollow
  <2>4. DayStart(s.zone, d) <= start + (d - today) * H + (d - today)
    BY <1>1, <1>3, <2>1, DaysAtMost
  <2>5. (d - today) * H <= W * H /\ (d - today) * H \in Nat
    <3>1. \A n, m, h \in Nat : n <= m => n * h <= m * h /\ n * h \in Nat
      OBVIOUS
    <3> QED
      BY <1>2, <2>1, <3>1
  <2> HIDE DEF today, start, H, W
  <2> QED
    BY <1>1, <1>2, <1>3, <2>1, <2>2, <2>3, <2>4, <2>5 DEF Opening
<1>5. Opening(s, today) = start + s.windowStart
  BY DEF Opening
<1>6. CASE Weekday(today) \in s.days /\ at <= Opening(s, today)
  <2>1. Opening(s, today) <= at + (W + 1) * H
    <3>1. (W + 1) * H = W * H + H /\ W * H \in Nat
      BY <1>2
    <3> HIDE DEF today, start, H, W
    <3> QED
      BY <1>1, <1>2, <1>3, <1>5, <3>1
  <2>2. today \in today .. today + W /\ Opening(s, today) \in Nat
    BY <1>1, <1>2, <1>3, <1>5, <1>6
  <2> QED
    BY <1>6, <2>1, <2>2
<1>7. CASE Weekday(today) \in s.days /\ ~(at <= Opening(s, today))
  <2>1. today + W \in Nat /\ today < today + W /\ Weekday(today + W) = Weekday(today)
    BY <1>2, <1>3, AWeekOn
  <2>2. PICK d \in today + 1 .. today + W : Weekday(d) = Weekday(today + W)
    BY <1>3, <2>1, Weekly
  <2>3. Opening(s, d) <= at + (W + 1) * H
    <3>1. (W + 1) * H = W * H + H /\ W * H \in Nat
      BY <1>2
    <3>2. d - today <= W /\ d - today \in Nat
      BY <1>2, <1>3
    <3>3. /\ d \in Nat /\ Opening(s, d) \in Nat /\ at <= Opening(s, d)
          /\ Opening(s, d) <= start + (d - today) * H + (d - today) + s.windowStart
          /\ (d - today) * H <= W * H /\ (d - today) * H \in Nat
      BY <1>4
    <3> HIDE DEF today, start, H, W
    <3> QED
      BY <1>1, <1>2, <1>3, <1>5, <1>7, <3>1, <3>2, <3>3
  <2> QED
    BY <1>2, <1>3, <1>4, <1>7, <2>1, <2>2, <2>3
<1>8. CASE Weekday(today) \notin s.days
  <2>1. today < e
    <3>1. today # e
      BY <1>8
    <3> QED
      BY <1>3, <3>1
  <2>2. PICK d \in today + 1 .. today + W : Weekday(d) = Weekday(e)
    BY <1>3, <2>1, Weekly
  <2>3. d # today + W
    BY <1>3, <1>8, <2>2, AWeekOn
  <2>4. Opening(s, d) <= at + (W + 1) * H
    <3>1. (W + 1) * H = W * H + H /\ W * H \in Nat
      BY <1>2
    <3>2. d - today <= W - 1 /\ d - today \in Nat
      BY <1>2, <1>3, <2>3
    <3>3. /\ d \in Nat /\ Opening(s, d) \in Nat /\ at <= Opening(s, d)
          /\ Opening(s, d) <= start + (d - today) * H + (d - today) + s.windowStart
          /\ (d - today) * H <= W * H /\ (d - today) * H \in Nat
      BY <1>4
    <3> HIDE DEF today, start, H, W
    <3> QED
      BY <1>1, <1>2, <1>3, <3>1, <3>2, <3>3
  <2> QED
    BY <1>2, <1>3, <1>4, <2>2, <2>4
<1> QED
  BY <1>6, <1>7, <1>8

\* The instant given as the next opening is the first at which the window is open.
LEMMA NextIsFirst ==
    ASSUME NEW s \in CampaignSettings, OpensByTheClock(s), NEW at \in Nat
    PROVE  nextWindowOpen(s, at) = FirstOpening(s, at)
<1> DEFINE today == LocalDay(s.zone, at)
           days == {d \in today .. today + 2 * DaysPerWeek : Weekday(d) \in s.days}
           openings == {o \in {DayStart(s.zone, d) + s.windowStart : d \in days} : o >= at}
           ahead == at .. at + (DaysPerWeek + 1) * HoursPerDay
           open == {t \in ahead : isWithinOperatingWindow(s, t)}
<1>1. nextWindowOpen(s, at) = IF s.days # {} /\ isWithinOperatingWindow(s, at) THEN at
                              ELSE IF openings = {} THEN Never ELSE Min(openings)
  BY DEF nextWindowOpen
<1>2. FirstOpening(s, at) = IF open = {} THEN Never ELSE Min(open)
  BY DEF FirstOpening
<1>3. /\ s.zone \in Nat /\ s.windowStart \in Nat /\ s.windowStart < HoursPerDay
      /\ today \in Nat /\ DaysPerWeek \in Nat /\ (DaysPerWeek + 1) * HoursPerDay \in Nat
  <2>1. s.zone \in Nat /\ s.windowStart \in Nat
    BY ScheduleAssumption DEF CampaignSettings
  <2>2. today \in Nat
    BY <2>1, OnTheClock
  <2> QED
    BY <2>1, <2>2, ScheduleAssumption DEF OpensByTheClock
<1>4. open \in SUBSET Nat
  <2>1. \A t \in ahead : t \in Nat
    BY <1>3
  <2> QED
    BY <2>1
<1>5. \A d \in days : Opening(s, d) >= at => Opening(s, d) \in openings
  BY DEF Opening
<1>6. \A o \in openings : o \in Nat /\ \E d \in days : o = Opening(s, d)
  <2>0. \A d \in days : d \in Nat
    BY <1>3
  <2> HIDE DEF days, today
  <2>1. \A d \in days : d \in Nat /\ DayStart(s.zone, d) \in Int
    BY <1>3, <2>0, DayLength
  <2> QED
    BY <1>3, <2>1 DEF Opening
<1>7. ASSUME NEW e \in Nat, today <= e, Weekday(e) \in s.days
      PROVE  \E d \in days : /\ d <= today + DaysPerWeek
                             /\ Opening(s, d) \in openings /\ Opening(s, d) \in open
  <2>1. PICK d \in today .. today + DaysPerWeek :
             /\ Weekday(d) \in s.days
             /\ Opening(s, d) \in Nat /\ at <= Opening(s, d)
             /\ Opening(s, d) <= at + (DaysPerWeek + 1) * HoursPerDay
    BY <1>3, <1>7, SoonOpen
  <2>2. d \in days /\ d \in Nat /\ d <= today + DaysPerWeek
    BY <1>3, <2>1
  <2>3. Opening(s, d) \in openings
    BY <1>5, <2>1, <2>2
  <2>4. isWithinOperatingWindow(s, Opening(s, d))
    BY <2>1, <2>2, OpenAtOpening
  <2>5. Opening(s, d) \in ahead
    BY <1>3, <2>1
  <2> QED
    BY <2>2, <2>3, <2>4, <2>5
<1>8. ASSUME NEW d \in Nat, NEW e \in Nat, d <= e
      PROVE  Opening(s, d) <= Opening(s, e) /\ Opening(s, e) \in Int
  <2>1. /\ DayStart(s.zone, d) \in Int /\ DayStart(s.zone, e) \in Int
        /\ DayStart(s.zone, e) - DayStart(s.zone, d) >= 2 * (e - d)
    BY <1>3, <1>8, DaysFollow
  <2> QED
    BY <1>3, <1>8, <2>1 DEF Opening
<1>9. CASE isWithinOperatingWindow(s, at)
  <2>1. s.days # {}
    BY <1>9 DEF isWithinOperatingWindow
  <2>2. at \in open
    BY <1>3, <1>9
  <2> HIDE DEF open
  <2>3. Min(open) \in open /\ Min(open) <= at
    BY <1>4, <2>2, LeastNumber
  <2>4. Min(open) >= at
    BY <2>3 DEF open
  <2>5. Min(open) \in Nat
    BY <1>4, <2>3
  <2> QED
    BY <1>1, <1>2, <1>9, <2>1, <2>2, <2>3, <2>4, <2>5
<1>10. CASE ~isWithinOperatingWindow(s, at) /\ open # {}
  <2> DEFINE t == Min(open)
             o == Min(openings)
  <2>1. t \in open /\ \A u \in open : t <= u
    <3> HIDE DEF open
    <3> QED
      BY <1>4, <1>10, LeastNumber
  <2>2. t \in Nat /\ at <= t /\ isWithinOperatingWindow(s, t)
    <3> HIDE DEF t
    <3> QED
      BY <1>3, <1>4, <2>1
  <2> HIDE DEF t
  <2>3. PICK e \in Nat : /\ Weekday(e) \in s.days /\ today <= e
                         /\ at < Opening(s, e) /\ Opening(s, e) <= t
    BY <1>10, <2>2, OpenedSince
  <2>4. PICK d \in days : /\ d <= today + DaysPerWeek
                          /\ Opening(s, d) \in openings /\ Opening(s, d) \in open
    BY <1>7, <2>3
  <2>5. o \in openings /\ \A u \in openings : o <= u
    <3>1. openings \in SUBSET Nat /\ openings # {}
      BY <1>6, <2>4
    <3> HIDE DEF openings
    <3> QED
      BY <3>1, LeastNumber
  <2> HIDE DEF o
  <2>6. nextWindowOpen(s, at) = o
    BY <1>1, <1>10, <2>4 DEF o
  <2>7. o \in Nat
    BY <1>6, <2>5
  <2>8. o <= t
    <3>1. CASE e <= today + 2 * DaysPerWeek
      <4>1. e \in days
        BY <1>3, <2>3, <3>1
      <4>2. Opening(s, e) \in openings
        <5>1. Opening(s, e) >= at
          <6>1. Opening(s, e) \in Int
            BY <1>8, <2>3
          <6> QED
            BY <2>3, <6>1
        <5> QED
          BY <1>5, <4>1, <5>1
      <4>3. Opening(s, e) \in Nat
        BY <1>6, <4>2
      <4> QED
        BY <2>2, <2>3, <2>5, <2>7, <4>2, <4>3
    <3>2. CASE ~(e <= today + 2 * DaysPerWeek)
      <4>1. d \in Nat /\ d <= e
        BY <1>3, <2>3, <2>4, <3>2
      <4>2. Opening(s, d) <= Opening(s, e)
        BY <1>8, <2>3, <4>1
      <4>3. Opening(s, d) \in Nat /\ o <= Opening(s, d)
        BY <1>6, <2>4, <2>5
      <4>4. Opening(s, e) \in Int
        BY <1>8, <2>3
      <4> QED
        BY <2>2, <2>3, <2>7, <4>2, <4>3, <4>4
    <3> QED
      BY <3>1, <3>2
  <2>9. o \in open
    <3>1. o >= at
      BY <2>5
    <3>2. o # Never
      BY <2>7 DEF Never
    <3>3. isWithinOperatingWindow(s, o)
      BY <2>6, <3>2, NextOpening
    <3>4. t <= at + (DaysPerWeek + 1) * HoursPerDay
      BY <1>3, <2>1, <2>2
    <3>5. o \in ahead
      <4> HIDE DEF openings, open, days
      <4> QED
        BY <1>3, <2>2, <2>7, <2>8, <3>1, <3>4
    <3> QED
      BY <3>3, <3>5
  <2>10. o = t
    BY <2>1, <2>2, <2>7, <2>8, <2>9
  <2> QED
    BY <1>2, <1>10, <2>6, <2>10 DEF t
<1>11. CASE ~isWithinOperatingWindow(s, at) /\ open = {}
  <2>1. openings = {}
    <3> SUFFICES ASSUME openings # {} PROVE FALSE
      OBVIOUS
    <3>1. PICK d \in days : TRUE
      BY <1>6
    <3>2. d \in Nat /\ today <= d /\ Weekday(d) \in s.days
      BY <1>3
    <3> QED
      BY <1>7, <1>11, <3>2
  <2> QED
    BY <1>1, <1>2, <1>11, <2>1
<1> QED
  BY <1>9, <1>10, <1>11

-----------------------------------------------------------------------------
(* Planning. *)

FirstPlan(s, from) ==
    LET first == nextWindowOpen(s, from)
    IN [cursor |-> first, left |-> s.dailyLimit, plan |-> <<>>, done |-> first = Never]

\* buildSchedule places one job after the other.
LEMMA PlansGoThrough ==
    ASSUME NEW s, NEW from, NEW count \in Nat, NEW gap
    PROVE  \E p : /\ buildSchedule(s, from, count, gap) = p[count].plan
                  /\ p[0] = FirstPlan(s, from)
                  /\ \A i \in 1 .. count : p[i] = Place(s, p[i - 1], gap)
<1> DEFINE From(f, n) == [i \in 0 .. n |-> IF i = 0 THEN FirstPlan(s, from)
                                           ELSE Place(s, f[i - 1], gap)]
           Undefined == {n \in Nat : ~\E f : f = From(f, n)}
<1>1. Undefined = {}
  <2> SUFFICES ASSUME Undefined # {} PROVE FALSE
    OBVIOUS
  <2> DEFINE n == Min(Undefined)
  <2>1. n \in Undefined /\ \A m \in Undefined : n <= m
    BY LeastNumber
  <2> HIDE DEF n
  <2>2. n \in Nat /\ ~\E f : f = From(f, n)
    BY <2>1
  <2>3. CASE n = 0
    <3> DEFINE f == [i \in 0 .. 0 |-> FirstPlan(s, from)]
    <3>1. f = From(f, 0)
      OBVIOUS
    <3> QED BY <2>2, <2>3, <3>1
  <2>4. CASE n # 0
    <3>1. n - 1 \in Nat /\ n - 1 \notin Undefined
      <4>1. n - 1 \in Nat /\ ~(n <= n - 1)
        BY <2>2, <2>4
      <4> HIDE DEF Undefined
      <4> QED BY <2>1, <4>1
    <3>2. PICK g : g = From(g, n - 1)
      BY <3>1
    <3> DEFINE f == [i \in 0 .. n |-> IF i = n THEN Place(s, g[n - 1], gap) ELSE g[i]]
    <3>3. \A i \in 0 .. n - 1 : g[i] = IF i = 0 THEN FirstPlan(s, from)
                                       ELSE Place(s, g[i - 1], gap)
      BY <3>2
    <3>4. \A i \in 0 .. n : f[i] = IF i = 0 THEN FirstPlan(s, from) ELSE Place(s, f[i - 1], gap)
      BY <2>2, <2>4, <3>3
    <3>5. f = From(f, n)
      BY <3>4
    <3> QED BY <2>2, <3>5
  <2> QED BY <2>3, <2>4
<1> DEFINE p == CHOOSE f : f = From(f, count)
<1>2. p = From(p, count)
  BY <1>1
<1>3. buildSchedule(s, from, count, gap) = p[count].plan
  BY DEF buildSchedule, FirstPlan
<1> HIDE DEF p
<1>4. /\ p[0] = FirstPlan(s, from)
      /\ \A i \in 1 .. count : p[i] = Place(s, p[i - 1], gap)
  BY <1>2
<1> QED BY <1>3, <1>4

Plans == [cursor : Int, left : Int, plan : Seq(Nat), done : BOOLEAN]

PlanShape(p) == p \in Plans /\ (~p.done => p.cursor \in Nat)

LEMMA PlanFields ==
    ASSUME NEW p, PlanShape(p)
    PROVE  /\ p.cursor \in Int /\ p.left \in Int /\ p.plan \in Seq(Nat) /\ p.done \in BOOLEAN
           /\ ~p.done => p.cursor \in Nat
           /\ p = [cursor |-> p.cursor, left |-> p.left, plan |-> p.plan, done |-> p.done]
BY DEF PlanShape, Plans

LEMMA PlanOf ==
    ASSUME NEW c \in Int, NEW l \in Int, NEW x \in Seq(Nat), NEW b \in BOOLEAN, ~b => c \in Nat
    PROVE  PlanShape([cursor |-> c, left |-> l, plan |-> x, done |-> b])
BY DEF PlanShape, Plans

LEMMA PlanParts ==
    ASSUME NEW p, PlanShape(p), NEW c, NEW l, NEW x
    PROVE  /\ [p EXCEPT !.done = x]
                = [cursor |-> p.cursor, left |-> p.left, plan |-> p.plan, done |-> x]
           /\ [p EXCEPT !.cursor = c]
                = [cursor |-> c, left |-> p.left, plan |-> p.plan, done |-> p.done]
           /\ [p EXCEPT !.cursor = c, !.left = l]
                = [cursor |-> c, left |-> l, plan |-> p.plan, done |-> p.done]
           /\ [p EXCEPT !.plan = x, !.left = l]
                = [cursor |-> p.cursor, left |-> l, plan |-> x, done |-> p.done]
<1>0. p \in Plans
  BY DEF PlanShape
<1>1. [p EXCEPT !.done = x]
        = [cursor |-> p.cursor, left |-> p.left, plan |-> p.plan, done |-> x]
  BY <1>0 DEF Plans
<1>2. [p EXCEPT !.cursor = c]
        = [cursor |-> c, left |-> p.left, plan |-> p.plan, done |-> p.done]
  BY <1>0 DEF Plans
<1>3. [p EXCEPT !.plan = x]
        = [cursor |-> p.cursor, left |-> p.left, plan |-> x, done |-> p.done]
  BY <1>0 DEF Plans
<1>4. [p EXCEPT !.cursor = c, !.left = l]
        \in [cursor : {c}, left : {l}, plan : {p.plan}, done : {p.done}]
  BY <1>0 DEF Plans
<1>5. [p EXCEPT !.plan = x, !.left = l]
        \in [cursor : {p.cursor}, left : {l}, plan : {x}, done : {p.done}]
  BY <1>0 DEF Plans
<1>6. ASSUME NEW a, NEW b, NEW e, NEW f,
             NEW r \in [cursor : {a}, left : {b}, plan : {e}, done : {f}]
      PROVE  r = [cursor |-> a, left |-> b, plan |-> e, done |-> f]
  OBVIOUS
<1>7. [p EXCEPT !.cursor = c, !.left = l]
        = [cursor |-> c, left |-> l, plan |-> p.plan, done |-> p.done]
  BY <1>4, <1>6, Zenon
<1>8. [p EXCEPT !.plan = x, !.left = l]
        = [cursor |-> p.cursor, left |-> l, plan |-> x, done |-> p.done]
  BY <1>5, <1>6, Zenon
<1> QED
  BY <1>1, <1>2, <1>7, <1>8, Zenon

\* An open window closes no earlier than now.
LEMMA WindowCloses ==
    ASSUME NEW s \in CampaignSettings, NEW at \in Nat
    PROVE  /\ isWithinOperatingWindow(s, at)
                => currentWindowClose(s, at) \in Nat /\ at <= currentWindowClose(s, at)
           /\ ~isWithinOperatingWindow(s, at) => currentWindowClose(s, at) = Never
<1> DEFINE d == LocalDay(s.zone, at)
           start == DayStart(s.zone, d)
           next == DayStart(s.zone, d + 1)
           wall == WallClock(s.zone, at)
<1>1. s.zone \in Nat /\ s.windowStart \in Nat /\ s.windowEnd \in Nat
  BY ScheduleAssumption DEF CampaignSettings
<1>2. d \in Nat /\ at - start \in Nat /\ wall \in Nat /\ wall >= (at - start) - 1
  BY <1>1, OnTheClock
<1>3. start \in Int /\ next \in Int /\ at < next
  <2>1. d + 1 \in Nat
    BY <1>2
  <2> QED
    BY <1>1, <1>2, <2>1, LocalDayOf, DayLength
<1>4. currentWindowClose(s, at) =
        IF ~isWithinOperatingWindow(s, at) THEN Never
        ELSE IF isOvernightWindow(s) /\ wall >= s.windowStart THEN next + s.windowEnd
        ELSE start + s.windowEnd
  BY DEF currentWindowClose
<1>5. isWithinOperatingWindow(s, at) /\ ~(isOvernightWindow(s) /\ wall >= s.windowStart)
        => wall < s.windowEnd
  BY DEF isWithinOperatingWindow
<1> HIDE DEF start, next, wall, d
<1> QED
  BY <1>1, <1>2, <1>3, <1>4, <1>5

\* On to the next opening, or no further.
LEMMA ReopenedIs ==
    ASSUME NEW s \in CampaignSettings, NEW at \in Nat, NEW p, PlanShape(p), ~p.done
    PROVE  LET r == Reopened(s, p, at)
           IN /\ PlanShape(r) /\ r.plan = p.plan
              /\ ~r.done => /\ r.left = s.dailyLimit /\ at <= r.cursor
                            /\ r.cursor = nextWindowOpen(s, at) /\ nextWindowOpen(s, at) # Never
<1> DEFINE n == nextWindowOpen(s, at)
<1>1. s.dailyLimit \in Nat
  BY DEF CampaignSettings
<1>2. n = Never \/ (n # Never /\ n \in Nat /\ at <= n)
  BY NextOpening
<1>3. Reopened(s, p, at) = IF n = Never THEN [p EXCEPT !.done = TRUE]
                           ELSE [p EXCEPT !.cursor = n, !.left = s.dailyLimit]
  BY DEF Reopened, PlanFull
<1> HIDE DEF n
<1>4. CASE n = Never
  <2>1. Reopened(s, p, at) = [cursor |-> p.cursor, left |-> p.left, plan |-> p.plan, done |-> TRUE]
    BY <1>3, <1>4, PlanParts
  <2>2. PlanShape(Reopened(s, p, at))
    <3>1. p.cursor \in Int /\ p.left \in Int /\ p.plan \in Seq(Nat)
      BY PlanFields
    <3> QED
      BY <2>1, <3>1, PlanOf
  <2> QED
    BY <2>1, <2>2
<1>5. CASE n # Never
  <2>1. n \in Nat /\ at <= n
    BY <1>2, <1>5
  <2>2. Reopened(s, p, at) = [cursor |-> n, left |-> s.dailyLimit, plan |-> p.plan, done |-> p.done]
    BY <1>1, <1>3, <1>5, <2>1, PlanParts
  <2>3. PlanShape(Reopened(s, p, at))
    <3>1. /\ n \in Int /\ s.dailyLimit \in Int /\ p.plan \in Seq(Nat) /\ p.done \in BOOLEAN
          /\ ~p.done => n \in Nat
      BY <1>1, <2>1, PlanFields
    <3> QED
      BY <2>2, <3>1, PlanOf
  <2> QED
    BY <1>5, <2>1, <2>2, <2>3 DEF n
<1> QED
  BY <1>4, <1>5

\* The place of one job, with the allowance of its day.
LEMMA PlaceShape ==
    ASSUME NEW s \in CampaignSettings, NEW p, PlanShape(p), NEW gap \in Nat
    PROVE  PlanShape(Place(s, p, gap))
<1> DEFINE q == RollOver(s, p)
           close == currentWindowClose(s, q.cursor)
           placed == [q EXCEPT !.plan = Append(q.plan, q.cursor), !.left = q.left - 1]
<1>1. Place(s, p, gap) = IF p.done \/ q.done THEN PlanFull(p)
                         ELSE IF close # Never /\ q.cursor >= close THEN Reopened(s, q, close)
                         ELSE Advance(s, placed, gap)
  BY DEF Place
<1>2. PlanShape(PlanFull(p))
  BY DEF PlanShape, Plans, PlanFull
<1>3. ASSUME ~p.done PROVE PlanShape(q)
  <2>1. p.cursor \in Nat
    BY <1>3 DEF PlanShape
  <2> DEFINE end == localDayBounds(s.zone, p.cursor).end
  <2>2. end \in Nat
    <3>1. s.zone \in Nat
      BY DEF CampaignSettings
    <3> DEFINE d == LocalDay(s.zone, p.cursor)
    <3>2. d \in Nat /\ p.cursor < DayStart(s.zone, d + 1)
      BY <2>1, <3>1, OnTheClock, LocalDayOf
    <3>3. d + 1 \in Nat
      BY <3>2
    <3>4. end = DayStart(s.zone, d + 1)
      BY DEF localDayBounds
    <3>5. DayStart(s.zone, d + 1) \in Int
      BY <3>1, <3>3, DayLength
    <3> HIDE DEF d
    <3> QED
      BY <2>1, <3>2, <3>4, <3>5
  <2>3. q = IF p.left > 0 THEN p ELSE Reopened(s, p, end)
    BY DEF RollOver
  <2> HIDE DEF end, q
  <2> QED
    BY <1>3, <2>2, <2>3, ReopenedIs
<1>4. ASSUME ~p.done, ~q.done PROVE close = Never \/ close \in Nat
  <2>1. q.cursor \in Nat
    BY <1>3, <1>4 DEF PlanShape
  <2> HIDE DEF q
  <2> QED
    BY <2>1, WindowCloses
<1>5. ASSUME ~p.done, ~q.done PROVE PlanShape(Advance(s, placed, gap))
  <2>1. q.cursor \in Nat /\ PlanShape(q)
    BY <1>3, <1>5 DEF PlanShape
  <2> HIDE DEF q
  <2>2. PlanShape(placed) /\ placed.cursor = q.cursor /\ ~placed.done
    <3>1. placed = [cursor |-> q.cursor, left |-> q.left - 1, plan |-> Append(q.plan, q.cursor),
                    done |-> q.done]
      BY <2>1, PlanParts
    <3>2. q.left - 1 \in Int /\ Append(q.plan, q.cursor) \in Seq(Nat) /\ q.done \in BOOLEAN
      BY <2>1, PlanFields
    <3>3. q.cursor \in Int /\ q.done = FALSE
      BY <1>5, <2>1, <3>2
    <3> HIDE DEF placed
    <3>4. PlanShape(placed)
      BY <2>1, <3>1, <3>2, <3>3, PlanOf
    <3> QED
      BY <3>1, <3>3, <3>4
  <2> HIDE DEF placed
  <2>3. Advance(s, placed, gap) =
          IF close = Never \/ placed.cursor + gap < close
            THEN [placed EXCEPT !.cursor = placed.cursor + gap]
          ELSE Reopened(s, placed, close)
    BY <2>2 DEF Advance
  <2>4. PlanShape([placed EXCEPT !.cursor = placed.cursor + gap])
    <3> DEFINE c == placed.cursor + gap
    <3>1. c \in Nat
      BY <2>1, <2>2
    <3> HIDE DEF c
    <3>2. [placed EXCEPT !.cursor = c]
            = [cursor |-> c, left |-> placed.left, plan |-> placed.plan, done |-> placed.done]
      BY <2>2, <3>1, PlanParts
    <3>3. PlanShape([placed EXCEPT !.cursor = c])
      BY <2>2, <3>1, <3>2, PlanFields, PlanOf
    <3> QED
      BY <3>3 DEF c
  <2>5. close # Never => PlanShape(Reopened(s, placed, close))
    BY <1>4, <1>5, <2>2, ReopenedIs
  <2> QED
    BY <2>3, <2>4, <2>5
<1>6. ASSUME ~p.done, ~q.done, close # Never PROVE PlanShape(Reopened(s, q, close))
  BY <1>3, <1>4, <1>6, ReopenedIs
<1> HIDE DEF q, placed, close
<1> QED
  BY <1>1, <1>2, <1>5, <1>6

\* A plan begins at the first opening, if there is one.
LEMMA FirstShape ==
    ASSUME NEW s \in CampaignSettings, NEW from \in Nat
    PROVE  PlanShape(FirstPlan(s, from))
<1> DEFINE first == nextWindowOpen(s, from)
<1>1. /\ first = Never \/ (first # Never /\ first \in Nat)
      /\ s.dailyLimit \in Int /\ <<>> \in Seq(Nat) /\ Never \in Int
  BY NextOpening DEF CampaignSettings, Never
<1>2. FirstPlan(s, from)
        = [cursor |-> first, left |-> s.dailyLimit, plan |-> <<>>, done |-> first = Never]
  BY DEF FirstPlan
<1> HIDE DEF first
<1>3. CASE first = Never
  <2>1. FirstPlan(s, from)
          = [cursor |-> Never, left |-> s.dailyLimit, plan |-> <<>>, done |-> TRUE]
    BY <1>2, <1>3
  <2> QED BY <1>1, <2>1, PlanOf
<1>4. CASE first # Never
  <2>1. FirstPlan(s, from)
          = [cursor |-> first, left |-> s.dailyLimit, plan |-> <<>>, done |-> FALSE]
    BY <1>2, <1>4
  <2>2. first \in Int /\ first \in Nat
    BY <1>1, <1>4
  <2> QED BY <1>1, <2>1, <2>2, PlanOf
<1> QED BY <1>3, <1>4

\* A plan consists of instants.
LEMMA PlanIsOfInstants ==
    ASSUME NEW s \in CampaignSettings, NEW from \in Nat, NEW count \in Nat, NEW gap \in Nat
    PROVE  buildSchedule(s, from, count, gap) \in Seq(Nat)
<1>1. PICK p : /\ buildSchedule(s, from, count, gap) = p[count].plan
               /\ p[0] = FirstPlan(s, from)
               /\ \A i \in 1 .. count : p[i] = Place(s, p[i - 1], gap)
  BY PlansGoThrough
<1>2. PlanShape(p[0])
  BY <1>1, FirstShape
<1> DEFINE Broken == {i \in 0 .. count : ~PlanShape(p[i])}
<1>3. Broken = {}
  <2> SUFFICES ASSUME Broken # {} PROVE FALSE
    OBVIOUS
  <2> DEFINE i == Min(Broken)
  <2>1. i \in Broken /\ \A j \in Broken : i <= j
    <3>1. Broken \in SUBSET Nat
      OBVIOUS
    <3> HIDE DEF Broken
    <3> QED BY <3>1, LeastNumber
  <2> HIDE DEF i
  <2>2. i \in 1 .. count /\ ~PlanShape(p[i])
    BY <1>2, <2>1
  <2>3. PlanShape(p[i - 1])
    BY <2>1, <2>2
  <2> QED BY <1>1, <2>2, <2>3, PlaceShape
<1>4. PlanShape(p[count])
  BY <1>3
<1> QED BY <1>1, <1>4, PlanFields

\* The rows of a campaign in some order.
LEMMA OrderOf ==
    ASSUME NEW S, IsFiniteSet(S)
    PROVE  /\ Cardinality(S) \in Nat
           /\ SetToSeq(S) \in [1 .. Cardinality(S) -> S] /\ Len(SetToSeq(S)) = Cardinality(S)
           /\ \A i, k \in 1 .. Cardinality(S) : SetToSeq(S)[i] = SetToSeq(S)[k] => i = k
           /\ \A x \in S : \E i \in 1 .. Cardinality(S) : SetToSeq(S)[i] = x
<1> DEFINE n == Cardinality(S)
           Orders == {f \in [1 .. n -> S] : IsInjective(f)}
           order == SetToSeq(S)
<1>1. n \in Nat /\ ExistsBijection(1 .. n, S)
  BY FS_CardinalityType
<1>2. PICK g \in Bijection(1 .. n, S) : TRUE
  BY <1>1 DEF ExistsBijection
<1>3. g \in Orders
  <2>1. g \in [1 .. n -> S] /\ \A i, k \in 1 .. n : g[i] = g[k] => i = k
    BY <1>2, Fun_BijectionProperties
  <2> QED BY <2>1 DEF IsInjective
<1>4. order \in Orders
  BY <1>3 DEF SetToSeq
<1>5. order \in [1 .. n -> S] /\ \A i, k \in 1 .. n : order[i] = order[k] => i = k
  BY <1>4 DEF IsInjective
<1> HIDE DEF order, Orders
<1>6. Len(order) = n
  BY <1>1, <1>5
<1>7. order \in Injection(1 .. n, S)
  BY <1>5, Fun_IsInj
<1>8. Cardinality(1 .. n) = n
  BY <1>1, FS_Interval
<1>9. order \in Surjection(1 .. n, S)
  BY <1>7, <1>8, FS_Injection
<1>10. \A x \in S : \E i \in 1 .. n : order[i] = x
  BY <1>9 DEF Surjection
<1> QED BY <1>1, <1>5, <1>6, <1>10 DEF order

-----------------------------------------------------------------------------
(* Types. *)

Rows == [status : {"ABSENT", "WAITING", "PROCESSING", "DONE"}, due : Nat,
         priority : {EXPEDITED, BURST, STANDING}, attempts : 0 .. MaxAttempts]

\* A row that can be claimed has an attempt left.
Claimable(row) == row.status \in {"ABSENT", "WAITING"} => row.attempts < MaxAttempts

RowsOK == job \in [Jobs -> Rows] /\ \A j \in Jobs : Claimable(job[j])

\* Two workers are never at one job.
HandsOK ==
    /\ \A w \in Workers :
         /\ worker[w].at <= now
         /\ worker[w].phase = "WORKING" <=> worker[w].job # {}
         /\ \A j \in worker[w].job : job[j].status = "PROCESSING"
    /\ \A v, w \in Workers : v # w => worker[v].job \cap worker[w].job = {}

RequestOK ==
    /\ request.campaign \subseteq Campaigns /\ request.jobs \in Seq(Jobs)
    /\ request.at \in Nat /\ request.hours \in Nat

TimesOK ==
    /\ now \in Time /\ log \subseteq Campaigns \X Time \X Nat
    /\ enabled \in BOOLEAN /\ burst \in [Campaigns -> Int]

TypesInv == LogShape /\ RowsOK /\ HandsOK /\ RequestOK /\ TimesOK

LEMMA TypesInit ==
    ASSUME Init
    PROVE  TypesInv
<1>1. LogShape
  BY BudgetInit DEF BudgetInv
<1>2. RowsOK
  <2>1. 0 \in 0 .. MaxAttempts /\ 0 < MaxAttempts
    BY BudgetAssumption
  <2> QED BY <2>1 DEF Init, RowsOK, Rows, Claimable
<1>3. HandsOK
  BY DEF Init, HandsOK, Idle
<1>4. RequestOK
  BY DEF Init, RequestOK, NoRequest
<1>5. TimesOK
  <2>1. now \in Time
    BY BudgetAssumption DEF Init, Time
  <2>2. log \subseteq Campaigns \X Time \X Nat
    <3>1. PICK n \in EarlierToday :
            log = {c \in Campaigns : \A j \in Jobs : JobCampaign[j] # c} \X {0} \X (1 .. n)
      BY DEF Init
    <3>2. n \in Nat /\ 0 \in Time
      BY BudgetAssumption DEF Time
    <3> QED BY <3>1, <3>2
  <2> QED BY <2>1, <2>2 DEF Init, TimesOK, Never
<1> QED BY <1>1, <1>2, <1>3, <1>4, <1>5 DEF TypesInv

\* Rows that get another instant, and possibly other columns.
LEMMA RowWaits ==
    ASSUME NEW row \in Rows, NEW t \in Nat, NEW new,
           new = [row EXCEPT !.status = "WAITING", !.due = t]
    PROVE  new \in Rows /\ new.status = "WAITING" /\ new.attempts = row.attempts
  BY DEF Rows

LEMMA RowPreferred ==
    ASSUME NEW row \in Rows, NEW t \in Nat, NEW x \in {EXPEDITED, BURST, STANDING}, NEW new,
           new = [row EXCEPT !.priority = x, !.due = t]
    PROVE  new \in Rows /\ new.status = row.status /\ new.attempts = row.attempts
  BY DEF Rows

LEMMA RowSettled ==
    ASSUME NEW row \in Rows
    PROVE  Settled(row) \in Rows /\ Settled(row).status = "DONE"
  BY DEF Rows, Settled

\* Generated jobs wait for an instant of the plan.
LEMMA GenerateRows ==
    ASSUME TypesInv, NEW c \in Campaigns, GenerateQueue(c)
    PROVE  RowsOK' /\ \A j \in Jobs : job[j].status = "PROCESSING" => job'[j] = job[j]
<1> DEFINE fresh == {j \in Jobs : JobCampaign[j] = c /\ job[j].status = "ABSENT"}
           order == SetToSeq(fresh)
           slot(j) == CHOOSE i \in 1 .. Len(order) : order[i] = j
<1>1. PICK gap \in settings[c].delays :
        LET plan == buildSchedule(settings[c], now, Len(order), gap)
        IN job' = [j \in Jobs |-> IF j \in fresh /\ slot(j) <= Len(plan)
                                    THEN [job[j] EXCEPT !.status = "WAITING", !.due = plan[slot(j)]]
                                    ELSE job[j]]
  BY DEF GenerateQueue
<1> DEFINE plan == buildSchedule(settings[c], now, Len(order), gap)
<1>2. IsFiniteSet(fresh)
  <2>1. fresh \in SUBSET Jobs
    OBVIOUS
  <2> QED BY <2>1, BudgetAssumption, FS_Subset
<1>3. /\ Len(order) \in Nat
      /\ \A j \in fresh : \E i \in 1 .. Len(order) : order[i] = j
  <2> HIDE DEF fresh
  <2> QED BY <1>2, OrderOf
<1>4. plan \in Seq(Nat)
  <2>1. settings[c] \in CampaignSettings /\ now \in Nat
    BY BudgetAssumption DEF TypesInv, LogShape
  <2>2. gap \in Nat
    BY <2>1 DEF CampaignSettings
  <2> HIDE DEF order
  <2> QED BY <1>3, <2>1, <2>2, PlanIsOfInstants
<1>5. \A j \in fresh : slot(j) \in 1 .. Len(order)
  <2> SUFFICES ASSUME NEW j \in fresh PROVE slot(j) \in 1 .. Len(order)
    OBVIOUS
  <2>1. \E i \in 1 .. Len(order) : order[i] = j
    BY <1>3
  <2> HIDE DEF order, fresh
  <2> QED BY <2>1
<1>6. job' = [j \in Jobs |-> IF j \in fresh /\ slot(j) <= Len(plan)
                               THEN [job[j] EXCEPT !.status = "WAITING", !.due = plan[slot(j)]]
                               ELSE job[j]]
  BY <1>1
<1>7. \A j \in fresh : j \in Jobs /\ job[j].status = "ABSENT"
  OBVIOUS
<1> HIDE DEF plan, slot, order, fresh
<1>8. \A j \in fresh : slot(j) <= Len(plan) => plan[slot(j)] \in Nat
  <2> SUFFICES ASSUME NEW j \in fresh, slot(j) <= Len(plan) PROVE plan[slot(j)] \in Nat
    OBVIOUS
  <2>1. slot(j) \in 1 .. Len(plan)
    BY <1>3, <1>4, <1>5
  <2> QED BY <1>4, <2>1
<1>9. job \in [Jobs -> Rows] /\ \A j \in Jobs : Claimable(job[j])
  BY DEF TypesInv, RowsOK
<1>10. ASSUME NEW j \in Jobs
       PROVE  job'[j] \in Rows /\ Claimable(job'[j])
              /\ (job[j].status = "PROCESSING" => job'[j] = job[j])
  <2>1. CASE j \in fresh /\ slot(j) <= Len(plan)
    <3>1. job'[j] = [job[j] EXCEPT !.status = "WAITING", !.due = plan[slot(j)]]
      BY <1>6, <2>1
    <3>2. job[j] \in Rows /\ plan[slot(j)] \in Nat
      BY <1>8, <1>9, <2>1
    <3>3. job'[j] \in Rows /\ job'[j].attempts = job[j].attempts /\ job[j].status = "ABSENT"
      <4> DEFINE t == plan[slot(j)]
                 new == job'[j]
      <4>1. job[j] \in Rows /\ t \in Nat /\ new = [job[j] EXCEPT !.status = "WAITING", !.due = t]
        BY <3>1, <3>2
      <4> HIDE DEF t, new
      <4>2. new \in Rows /\ new.attempts = job[j].attempts
        BY <4>1, RowWaits
      <4> QED BY <1>7, <2>1, <4>2 DEF new
    <3> QED BY <1>9, <3>3 DEF Claimable
  <2>2. CASE ~(j \in fresh /\ slot(j) <= Len(plan))
    BY <1>6, <1>9, <2>2
  <2> QED BY <2>1, <2>2
<1>11. job' \in [Jobs -> Rows]
  BY <1>6, <1>10
<1> QED BY <1>10, <1>11 DEF RowsOK

\* What a burst writes keeps the statuses.
LEMMA BurstRows ==
    ASSUME TypesInv, BurstWrite
    PROVE  RowsOK' /\ \A j \in Jobs : job'[j].status = job[j].status
<1> DEFINE place(j) == CHOOSE i \in DOMAIN request.jobs : request.jobs[i] = j
           chosen == ToSet(request.jobs)
           time(j) == BurstTime(place(j))
<1>1. job' = [j \in Jobs |-> IF j \in chosen
                               THEN [job[j] EXCEPT !.priority = BURST, !.due = time(j)]
                               ELSE job[j]]
  BY DEF BurstWrite
<1>2. request.jobs \in Seq(Jobs) /\ request.at \in Nat /\ request.hours \in Nat
  BY DEF TypesInv, RequestOK
<1>3. \A j \in chosen : time(j) \in Nat
  <2> SUFFICES ASSUME NEW j \in chosen PROVE time(j) \in Nat
    OBVIOUS
  <2>1. \E i \in DOMAIN request.jobs : request.jobs[i] = j
    BY DEF ToSet
  <2>2. place(j) \in DOMAIN request.jobs
    BY <2>1
  <2>3. place(j) \in 1 .. Len(request.jobs) /\ Len(request.jobs) \in Nat
    BY <1>2, <2>2
  <2> DEFINE i == place(j)
             n == Len(request.jobs)
             h == request.hours
  <2>4. i \in 1 .. n /\ n \in Nat /\ h \in Nat
    BY <1>2, <2>3
  <2>5. time(j) = request.at + ((i - 1) * h) \div n
    BY DEF BurstTime
  <2> HIDE DEF i, n, h, time
  <2>6. (i - 1) * h \in Nat
    <3>1. i - 1 \in Nat
      BY <2>4
    <3>2. \A a, b \in Nat : a * b \in Nat
      OBVIOUS
    <3> QED BY <2>4, <3>1, <3>2
  <2>7. n \in Nat \ {0}
    BY <2>4
  <2> DEFINE x == (i - 1) * h
  <2> HIDE DEF x
  <2>8. x \div n \in Nat
    BY <2>6, <2>7 DEF x
  <2> QED BY <1>2, <2>5, <2>8 DEF x
<1> HIDE DEF time, chosen
<1>4. job \in [Jobs -> Rows] /\ \A j \in Jobs : Claimable(job[j])
  BY DEF TypesInv, RowsOK
<1>5. ASSUME NEW j \in Jobs
      PROVE  job'[j] \in Rows /\ Claimable(job'[j]) /\ job'[j].status = job[j].status
  <2>1. CASE j \in chosen
    <3>1. job'[j] = [job[j] EXCEPT !.priority = BURST, !.due = time(j)]
      BY <1>1, <2>1
    <3>2. job[j] \in Rows /\ time(j) \in Nat
      BY <1>3, <1>4, <2>1
    <3>3. job'[j] \in Rows /\ job'[j].attempts = job[j].attempts /\ job'[j].status = job[j].status
      <4> DEFINE t == time(j)
                 new == job'[j]
                 row == job[j]
      <4>1. row \in Rows /\ t \in Nat
        BY <3>2
      <4>2. new = [row EXCEPT !.priority = BURST, !.due = t]
        BY <3>1
      <4> HIDE DEF t, new, row
      <4>3. BURST \in {EXPEDITED, BURST, STANDING}
        OBVIOUS
      <4>4. new \in Rows /\ new.status = row.status /\ new.attempts = row.attempts
        BY <4>1, <4>2, <4>3 DEF Rows
      <4> QED BY <4>4 DEF new, row
    <3> QED BY <1>4, <3>3 DEF Claimable
  <2>2. CASE j \notin chosen
    BY <1>1, <1>4, <2>2
  <2> QED BY <2>1, <2>2
<1>6. job' \in [Jobs -> Rows]
  BY <1>1, <1>5
<1> QED BY <1>5, <1>6 DEF RowsOK

\* One row is replaced by another.
LEMMA OneRow ==
    ASSUME RowsOK, NEW j \in Jobs, NEW row \in Rows, Claimable(row),
           job' = [job EXCEPT ![j] = row]
    PROVE  RowsOK' /\ job'[j] = row /\ \A k \in Jobs : k # j => job'[k] = job[k]
<1>1. job \in [Jobs -> Rows] /\ \A k \in Jobs : Claimable(job[k])
  BY DEF RowsOK
<1>2. job'[j] = row /\ \A k \in Jobs : k # j => job'[k] = job[k]
  BY <1>1
<1>3. job' \in [Jobs -> Rows]
  BY <1>1
<1>4. \A k \in Jobs : Claimable(job'[k])
  BY <1>1, <1>2
<1> QED BY <1>2, <1>3, <1>4 DEF RowsOK, Claimable

\* The workers stay where they are and the rows they hold stay claimed.
LEMMA HandsKept ==
    ASSUME TypesInv, worker' = worker, now' \in Nat, now <= now',
           \A w \in Workers : \A j \in worker[w].job : job'[j].status = job[j].status
    PROVE  HandsOK'
<1>1. \A w \in Workers : worker[w].at <= now'
  BY DEF TypesInv, HandsOK, LogShape
<1> QED BY <1>1 DEF TypesInv, HandsOK

\* A worker has nothing in hand any more, or has nothing yet.
LEMMA HandsFreed ==
    ASSUME TypesInv, now' = now, NEW w \in Workers, NEW x,
           worker' = [worker EXCEPT ![w] = x],
           x.phase # "WORKING", x.at <= now, x.job = {},
           \A v \in Workers : v # w =>
                \A j \in worker[v].job : job'[j].status = job[j].status
    PROVE  HandsOK'
<1>1. worker'[w] = x /\ \A v \in Workers : v # w => worker'[v] = worker[v]
  BY DEF TypesInv, LogShape
<1>2. \A v \in Workers : /\ worker[v].at <= now
                         /\ worker[v].phase = "WORKING" <=> worker[v].job # {}
                         /\ \A j \in worker[v].job : job[j].status = "PROCESSING"
  BY DEF TypesInv, HandsOK
<1>3. ASSUME NEW v \in Workers
      PROVE  /\ worker'[v].at <= now'
             /\ worker'[v].phase = "WORKING" <=> worker'[v].job # {}
             /\ \A j \in worker'[v].job : job'[j].status = "PROCESSING"
  BY <1>1, <1>2
<1>4. ASSUME NEW u \in Workers, NEW v \in Workers, u # v
      PROVE  worker'[u].job \cap worker'[v].job = {}
  <2>1. CASE u # w /\ v # w
    BY <1>1, <1>4, <2>1 DEF TypesInv, HandsOK
  <2>2. CASE u = w \/ v = w
    BY <1>1, <1>4, <2>2
  <2> QED BY <2>1, <2>2
<1> QED BY <1>3, <1>4 DEF HandsOK

\* Generating, bursts, expediting and reaping leave the claimed rows of the workers alone.
LEMMA QueueTypes ==
    ASSUME TypesInv,
           \/ \E c \in Campaigns : GenerateQueue(c)
           \/ BurstWrite
           \/ \E j \in Jobs : Expedite(j) \/ ReapJob(j)
    PROVE  /\ RowsOK' /\ HandsOK' /\ RequestOK' /\ TimesOK'
<1>1. /\ now \in Nat /\ settings \in Settings /\ RowsOK /\ HandsOK /\ RequestOK /\ TimesOK
      /\ job \in [Jobs -> Rows] /\ \A j \in Jobs : Claimable(job[j])
      /\ \A w \in Workers : worker[w].job \subseteq Jobs
                            /\ \A j \in worker[w].job : job[j].status = "PROCESSING"
  BY DEF TypesInv, LogShape, RowsOK, HandsOK
<1>2. ASSUME NEW c \in Campaigns, GenerateQueue(c)
      PROVE  RowsOK' /\ HandsOK' /\ RequestOK' /\ TimesOK'
  <2>1. UNCHANGED <<now, settings, enabled, burst, log, worker, request>>
    BY <1>2 DEF GenerateQueue
  <2>2. RowsOK' /\ \A j \in Jobs : job[j].status = "PROCESSING" => job'[j] = job[j]
    BY <1>2, GenerateRows
  <2>3. \A w \in Workers : \A j \in worker[w].job : job'[j].status = job[j].status
    BY <1>1, <2>2
  <2>4. HandsOK'
    <3>1. worker' = worker /\ now' \in Nat /\ now <= now'
      BY <1>1, <2>1
    <3> QED BY <2>3, <3>1, HandsKept
  <2> QED BY <1>1, <2>1, <2>2, <2>4 DEF RequestOK, TimesOK
<1>3. ASSUME BurstWrite
      PROVE  RowsOK' /\ HandsOK' /\ RequestOK' /\ TimesOK'
  <2>1. /\ UNCHANGED <<now, settings, enabled, log, worker>> /\ request' = NoRequest
        /\ burst' = [c \in Campaigns |-> IF c \in request.campaign
                                           THEN request.at + request.hours + BurstSlack
                                           ELSE burst[c]]
    BY <1>3 DEF BurstWrite
  <2>2. RowsOK' /\ \A j \in Jobs : job'[j].status = job[j].status
    BY <1>3, BurstRows
  <2>3. \A w \in Workers : \A j \in worker[w].job : job'[j].status = job[j].status
    BY <1>1, <2>2
  <2>4. HandsOK'
    <3>1. worker' = worker /\ now' \in Nat /\ now <= now'
      BY <1>1, <2>1
    <3> QED BY <2>3, <3>1, HandsKept
  <2>5. burst' \in [Campaigns -> Int]
    <3>1. burst \in [Campaigns -> Int]
      BY <1>1 DEF TimesOK
    <3>2. request.at + request.hours + BurstSlack \in Int
      BY <1>1, BudgetAssumption DEF RequestOK
    <3> QED BY <2>1, <3>1, <3>2
  <2>6. RequestOK'
    BY <2>1 DEF RequestOK, NoRequest
  <2> QED BY <1>1, <2>1, <2>2, <2>4, <2>5, <2>6 DEF TimesOK
<1>4. ASSUME NEW j \in Jobs, Expedite(j)
      PROVE  RowsOK' /\ HandsOK' /\ RequestOK' /\ TimesOK'
  <2>1. UNCHANGED <<now, settings, enabled, burst, log, worker, request>>
    BY <1>4 DEF Expedite
  <2> DEFINE row == job[j]
             new == [row EXCEPT !.priority = EXPEDITED, !.due = now]
  <2>2. job' = [job EXCEPT ![j] = new]
    BY <1>4 DEF Expedite
  <2>3. row \in Rows /\ Claimable(row)
    BY <1>1
  <2>4. new \in Rows /\ new.status = row.status /\ new.attempts = row.attempts
    <3> HIDE DEF row
    <3> QED BY <1>1, <2>3, RowPreferred
  <2> HIDE DEF new
  <2>5. Claimable(new)
    BY <2>3, <2>4 DEF Claimable
  <2>6. RowsOK' /\ job'[j] = new /\ \A k \in Jobs : k # j => job'[k] = job[k]
    BY <1>1, <2>2, <2>4, <2>5, OneRow
  <2>7. \A w \in Workers : \A k \in worker[w].job : job'[k].status = job[k].status
    BY <1>1, <2>4, <2>6
  <2>8. HandsOK'
    <3>1. worker' = worker /\ now' \in Nat /\ now <= now'
      BY <1>1, <2>1
    <3> QED BY <2>7, <3>1, HandsKept
  <2> QED BY <1>1, <2>1, <2>6, <2>8 DEF RequestOK, TimesOK
<1>5. ASSUME NEW j \in Jobs, ReapJob(j)
      PROVE  RowsOK' /\ HandsOK' /\ RequestOK' /\ TimesOK'
  <2>1. /\ UNCHANGED <<now, settings, enabled, burst, log, worker, request>>
        /\ \A w \in Workers : j \notin worker[w].job
    BY <1>5 DEF ReapJob
  <2> DEFINE row == job[j]
             waiting == [row EXCEPT !.status = "WAITING", !.due = now]
             new == IF row.attempts >= MaxAttempts THEN Settled(row) ELSE waiting
  <2>2. job' = [job EXCEPT ![j] = new]
    BY <1>5 DEF ReapJob
  <2>3. row \in Rows /\ row.attempts \in Int /\ MaxAttempts \in Int
    BY <1>1, BudgetAssumption DEF Rows
  <2>4. waiting \in Rows /\ waiting.status = "WAITING" /\ waiting.attempts = row.attempts
    <3> DEFINE t == now
    <3>1. t \in Nat /\ waiting = [row EXCEPT !.status = "WAITING", !.due = t]
      BY <1>1
    <3> HIDE DEF row, waiting, t
    <3> QED BY <2>3, <3>1, RowWaits
  <2>5. Settled(row) \in Rows /\ Settled(row).status = "DONE"
    BY <2>3, RowSettled
  <2> HIDE DEF waiting, row
  <2>6. new \in Rows /\ Claimable(new)
    BY <2>3, <2>4, <2>5 DEF Claimable
  <2> HIDE DEF new
  <2>7. RowsOK' /\ \A k \in Jobs : k # j => job'[k] = job[k]
    BY <1>1, <2>2, <2>6, OneRow
  <2>8. \A w \in Workers : \A k \in worker[w].job : job'[k].status = job[k].status
    BY <1>1, <2>1, <2>7
  <2>9. HandsOK'
    <3>1. worker' = worker /\ now' \in Nat /\ now <= now'
      BY <1>1, <2>1
    <3> QED BY <2>8, <3>1, HandsKept
  <2> QED BY <1>1, <2>1, <2>7, <2>9 DEF RequestOK, TimesOK
<1> QED BY <1>2, <1>3, <1>4, <1>5

\* What a worker does changes at most the row it takes or has.
LEMMA WorkerTypes ==
    ASSUME TypesInv, NEW w \in Workers,
           Evaluate(w) \/ Claim(w) \/ ClaimRollback(w) \/ Report(w) \/ ReportLost(w)
    PROVE  /\ RowsOK' /\ HandsOK' /\ RequestOK' /\ TimesOK'
<1>1. /\ now \in Nat /\ settings \in Settings /\ RowsOK /\ HandsOK /\ RequestOK /\ TimesOK
      /\ job \in [Jobs -> Rows] /\ \A j \in Jobs : Claimable(job[j])
      /\ \A v \in Workers : worker[v].job \subseteq Jobs /\ worker[v].at <= now
                            /\ \A j \in worker[v].job : job[j].status = "PROCESSING"
  BY DEF TypesInv, LogShape, RowsOK, HandsOK
<1>2. ASSUME Evaluate(w) \/ ClaimRollback(w) \/ ReportLost(w)
      PROVE  RowsOK' /\ HandsOK' /\ RequestOK' /\ TimesOK'
  <2>1. UNCHANGED <<now, settings, enabled, burst, job, log, request>>
    BY <1>2 DEF Evaluate, ClaimRollback, ReportLost
  <2>2. PICK x : /\ worker' = [worker EXCEPT ![w] = x]
                 /\ x.phase # "WORKING" /\ x.at <= now /\ x.job = {}
    <3>1. CASE Evaluate(w)
      <4> DEFINE x == [phase |-> "EVALUATED", at |-> now, eligible |-> EligibleCampaigns,
                       job |-> {}]
      <4>1. worker' = [worker EXCEPT ![w] = x]
        BY <3>1 DEF Evaluate
      <4>2. x.phase # "WORKING" /\ x.at <= now /\ x.job = {}
        BY <1>1
      <4> QED BY <4>1, <4>2
    <3>2. CASE ClaimRollback(w) \/ ReportLost(w)
      <4>1. worker' = [worker EXCEPT ![w] = Idle]
        BY <3>2 DEF ClaimRollback, ReportLost
      <4>2. Idle.phase # "WORKING" /\ Idle.at <= now /\ Idle.job = {}
        BY <1>1 DEF Idle
      <4> QED BY <4>1, <4>2
    <3> QED BY <1>2, <3>1, <3>2
  <2>3. HandsOK'
    BY <2>1, <2>2, HandsFreed
  <2> QED BY <1>1, <2>1, <2>3 DEF RowsOK, RequestOK, TimesOK, Claimable
<1>3. ASSUME Claim(w)
      PROVE  RowsOK' /\ HandsOK' /\ RequestOK' /\ TimesOK'
  <2>1. UNCHANGED <<now, settings, enabled, burst, log, request>>
    BY <1>3 DEF Claim
  <2> DEFINE x(k) == [phase |-> "WORKING", at |-> 0, eligible |-> {}, job |-> {k}]
  <2>2. PICK j \in Heads(Due(w)) :
               /\ job' = [job EXCEPT ![j].status = "PROCESSING", ![j].attempts = @ + 1]
               /\ worker' = [worker EXCEPT ![w] = x(j)]
    BY <1>3 DEF Claim
  <2>3. j \in Jobs /\ job[j].status = "WAITING"
    BY DEF Heads, Due
  <2> DEFINE row == job[j]
             new == [row EXCEPT !.status = "PROCESSING", !.attempts = row.attempts + 1]
  <2>4. job' = [job EXCEPT ![j] = new]
    BY <2>2
  <2>5. row \in Rows /\ row.attempts < MaxAttempts
    BY <1>1, <2>3 DEF Claimable
  <2>6. new \in Rows /\ new.status = "PROCESSING"
    <3>1. row.attempts + 1 \in 0 .. MaxAttempts
      BY <2>5, BudgetAssumption DEF Rows
    <3> DEFINE n == row.attempts + 1
    <3> HIDE DEF n, row
    <3> QED BY <2>5, <3>1 DEF Rows, n
  <2> HIDE DEF new, row
  <2>7. Claimable(new)
    BY <2>6 DEF Claimable
  <2>8. RowsOK' /\ job'[j] = new /\ \A k \in Jobs : k # j => job'[k] = job[k]
    BY <1>1, <2>3, <2>4, <2>6, <2>7, OneRow
  <2>9. HandsOK'
    <3>1. worker'[w] = x(j) /\ \A v \in Workers : v # w => worker'[v] = worker[v]
      BY <2>2 DEF TypesInv, LogShape
    <3>2. \A v \in Workers : j \notin worker[v].job
      BY <1>1, <2>3
    <3>3. ASSUME NEW v \in Workers
          PROVE  /\ worker'[v].at <= now'
                 /\ worker'[v].phase = "WORKING" <=> worker'[v].job # {}
                 /\ \A k \in worker'[v].job : job'[k].status = "PROCESSING"
      <4>1. CASE v = w
        BY <1>1, <2>1, <2>6, <2>8, <3>1, <4>1
      <4>2. CASE v # w
        <5>1. worker[v].phase = "WORKING" <=> worker[v].job # {}
          BY <1>1 DEF HandsOK
        <5>2. \A k \in worker[v].job : job'[k].status = "PROCESSING"
          BY <1>1, <2>8, <3>2
        <5> QED BY <1>1, <2>1, <3>1, <4>2, <5>1, <5>2
      <4> QED BY <4>1, <4>2
    <3>4. ASSUME NEW u \in Workers, NEW v \in Workers, u # v
          PROVE  worker'[u].job \cap worker'[v].job = {}
      <4>1. CASE u # w /\ v # w
        BY <1>1, <3>1, <3>4, <4>1 DEF HandsOK
      <4>2. CASE u = w
        BY <3>1, <3>2, <3>4, <4>2
      <4>3. CASE v = w
        BY <3>1, <3>2, <3>4, <4>3
      <4> QED BY <4>1, <4>2, <4>3
    <3> QED BY <3>3, <3>4 DEF HandsOK
  <2> QED BY <1>1, <2>1, <2>8, <2>9 DEF RequestOK, TimesOK
<1>4. ASSUME Report(w)
      PROVE  RowsOK' /\ HandsOK' /\ RequestOK' /\ TimesOK'
  <2>1. UNCHANGED <<now, settings, enabled, burst, request>> /\ worker' = [worker EXCEPT ![w] = Idle]
    BY <1>4 DEF Report
  <2>2. PICK j \in worker[w].job : /\ \E row \in Reported(job[j]) : job' = [job EXCEPT ![j] = row]
                                   /\ log' = OneMore(log, JobCampaign[j])
    BY <1>4 DEF Report
  <2>3. PICK new \in Reported(job[j]) : job' = [job EXCEPT ![j] = new]
    BY <2>2
  <2>4. j \in Jobs /\ job[j] \in Rows
    BY <1>1
  <2>5. new \in Rows /\ Claimable(new)
    <3> DEFINE row == job[j]
               waiting == [row EXCEPT !.status = "WAITING", !.due = now + Backoff]
    <3>1. new = Settled(row) \/ (row.attempts < MaxAttempts /\ new = waiting)
      BY <2>3 DEF Reported
    <3>2. row \in Rows /\ now + Backoff \in Nat
      BY <1>1, <2>4, BudgetAssumption
    <3> HIDE DEF row
    <3>3. waiting \in Rows /\ waiting.status = "WAITING" /\ waiting.attempts = row.attempts
      <4> DEFINE t == now + Backoff
      <4>1. t \in Nat /\ waiting = [row EXCEPT !.status = "WAITING", !.due = t]
        BY <3>2
      <4> HIDE DEF t, waiting
      <4> QED BY <3>2, <4>1, RowWaits
    <3>4. Settled(row) \in Rows /\ Settled(row).status = "DONE"
      BY <3>2, RowSettled
    <3> HIDE DEF waiting
    <3> QED BY <3>1, <3>3, <3>4 DEF Claimable
  <2>6. RowsOK' /\ \A k \in Jobs : k # j => job'[k] = job[k]
    BY <1>1, <2>3, <2>4, <2>5, OneRow
  <2>7. HandsOK'
    <3>1. \A v \in Workers : v # w => j \notin worker[v].job
      BY <1>1, <2>2 DEF HandsOK
    <3>2. \A v \in Workers : v # w => \A k \in worker[v].job : job'[k].status = job[k].status
      BY <1>1, <2>6, <3>1
    <3>3. Idle.phase # "WORKING" /\ Idle.at <= now /\ Idle.job = {}
      BY <1>1 DEF Idle
    <3> QED BY <2>1, <3>2, <3>3, HandsFreed
  <2>8. log' \subseteq Campaigns \X Time \X Nat
    <3>1. log \subseteq Campaigns \X Time \X Nat /\ now \in Time
      BY <1>1 DEF TimesOK
    <3> DEFINE today == {r \in log : r[1] = JobCampaign[j] /\ r[2] = now}
               n == Cardinality(today)
    <3>2. n \in Nat
      <4>1. today \in SUBSET log /\ IsFiniteSet(log)
        BY DEF TypesInv, LogShape
      <4> HIDE DEF today
      <4> QED BY <4>1, FS_Subset, FS_CardinalityType
    <3>3. log' = log \cup {<<JobCampaign[j], now, 1 + n>>}
      BY <2>2 DEF OneMore
    <3>4. JobCampaign[j] \in Campaigns /\ 1 + n \in Nat
      BY <2>4, <3>2, BudgetAssumption
    <3> HIDE DEF n
    <3> QED BY <3>1, <3>3, <3>4
  <2> QED BY <1>1, <2>1, <2>6, <2>7, <2>8 DEF RequestOK, TimesOK
<1> QED BY <1>2, <1>3, <1>4

\* A burst picks rows of its campaign; it asks for at least one.
LEMMA RequestTypes ==
    ASSUME TypesInv, NEW c \in Campaigns, NEW b \in Bursts, BurstRead(c, b[1], b[2])
    PROVE  RequestOK'
<1> DEFINE allowed == Min({b[1], CampaignRemaining(c, now), GlobalRemaining(c, now),
                           Cardinality(Waiting(c))})
<1>1. PICK jobs \in {s \in [1 .. allowed -> Waiting(c)] : IsInjective(s)} :
             request' = [campaign |-> {c}, jobs |-> jobs, at |-> now, hours |-> b[2]]
  BY DEF BurstRead
<1>2. jobs \in [1 .. allowed -> Jobs] /\ allowed > 0
  BY <1>1 DEF BurstRead, Waiting
<1>3. allowed \in Nat
  <2>1. b[1] \in Int
    BY BudgetAssumption
  <2>2. CampaignRemaining(c, now) \in Int /\ GlobalRemaining(c, now) \in Int
    <3>1. settings[c].dailyLimit \in Int /\ GlobalDailyLimit \in Int
      BY SettingsShape, BudgetAssumption DEF TypesInv, LogShape
    <3>2. \A S, day : countOutreachActions(S, day) \in Int
      <4> SUFFICES ASSUME NEW S, NEW day PROVE countOutreachActions(S, day) \in Int
        OBVIOUS
      <4> DEFINE counted == {r \in log : r[1] \in S /\ day.start <= r[2] /\ r[2] < day.end}
      <4>1. counted \in SUBSET log /\ IsFiniteSet(log)
        BY DEF TypesInv, LogShape
      <4>2. countOutreachActions(S, day) = Cardinality(counted)
        BY DEF countOutreachActions, Total
      <4> HIDE DEF counted
      <4> QED BY <4>1, <4>2, FS_Subset, FS_CardinalityType
    <3> QED BY <3>1, <3>2 DEF CampaignRemaining, GlobalRemaining
  <2>3. Cardinality(Waiting(c)) \in Int
    <3>1. Waiting(c) \in SUBSET Jobs
      BY DEF Waiting
    <3> QED BY <3>1, BudgetAssumption, FS_Subset, FS_CardinalityType
  <2> DEFINE S == {b[1], CampaignRemaining(c, now), GlobalRemaining(c, now),
                   Cardinality(Waiting(c))}
  <2>4. allowed \in S
    <3>1. \A x \in S : x \in Int
      BY <2>1, <2>2, <2>3
    <3>2. \E x \in S : \A y \in S : x <= y
      <4> DEFINE m == CampaignRemaining(c, now)
                 g == GlobalRemaining(c, now)
                 n == Cardinality(Waiting(c))
                 k == b[1]
      <4>1. S = {k, m, g, n} /\ k \in Int /\ m \in Int /\ g \in Int /\ n \in Int
        BY <2>1, <2>2, <2>3
      <4> HIDE DEF m, g, n, k, S
      <4> QED BY <4>1
    <3> HIDE DEF S
    <3>3. Min(S) \in S
      BY <3>2 DEF Min
    <3> QED BY <3>3 DEF S
  <2>5. allowed \in Int
    <3> HIDE DEF allowed
    <3> QED BY <2>1, <2>2, <2>3, <2>4
  <2> HIDE DEF allowed
  <2> QED BY <1>2, <2>5
<1> HIDE DEF allowed
<1>4. jobs \in Seq(Jobs)
  BY <1>2, <1>3
<1>5. now \in Nat /\ b[2] \in Nat
  BY BudgetAssumption DEF TypesInv, LogShape
<1> QED BY <1>1, <1>4, <1>5 DEF RequestOK

LEMMA TypesStep ==
    ASSUME TypesInv, [Next]_vars
    PROVE  TypesInv'
<1>1. LogShape'
  BY LogShapeStep DEF TypesInv
<1>2. /\ now \in Nat /\ RowsOK /\ HandsOK /\ RequestOK /\ TimesOK
  BY DEF TypesInv, LogShape
<1>3. ASSUME UNCHANGED <<job, worker>>, now <= now', RequestOK', TimesOK'
      PROVE  TypesInv'
  <2>1. HandsOK'
    <3>1. now' \in Nat /\ worker' = worker /\ \A j \in Jobs : job'[j].status = job[j].status
      BY <1>1, <1>3 DEF LogShape
    <3>2. \A w \in Workers : \A j \in worker[w].job : job'[j].status = job[j].status
      BY <1>3
    <3> QED BY <1>3, <3>1, <3>2, HandsKept
  <2>2. RowsOK'
    BY <1>2, <1>3 DEF RowsOK, Claimable
  <2> QED BY <1>1, <1>3, <2>1, <2>2 DEF TypesInv
<1>4. CASE \/ \E c \in Campaigns : GenerateQueue(c)
           \/ BurstWrite
           \/ \E j \in Jobs : Expedite(j) \/ ReapJob(j)
  <2>1. RowsOK' /\ HandsOK' /\ RequestOK' /\ TimesOK'
    BY <1>4, QueueTypes
  <2> QED BY <1>1, <2>1 DEF TypesInv
<1>5. ASSUME NEW w \in Workers,
             Evaluate(w) \/ Claim(w) \/ ClaimRollback(w) \/ Report(w) \/ ReportLost(w)
      PROVE  TypesInv'
  <2>1. RowsOK' /\ HandsOK' /\ RequestOK' /\ TimesOK'
    BY <1>5, WorkerTypes
  <2> QED BY <1>1, <2>1 DEF TypesInv
<1>6. ASSUME NEW c \in Campaigns, NEW b \in Bursts, BurstRead(c, b[1], b[2])
      PROVE  TypesInv'
  <2>1. RequestOK'
    BY <1>6, RequestTypes
  <2>2. UNCHANGED <<now, settings, enabled, burst, job, log, worker>>
    BY <1>6 DEF BurstRead
  <2>3. TimesOK' /\ now <= now'
    BY <1>2, <2>2 DEF TimesOK
  <2> QED BY <1>3, <2>1, <2>2, <2>3
<1>7. CASE SetReviewOnly
  <2>1. UNCHANGED <<now, settings, burst, job, log, worker, request>> /\ enabled' = FALSE
    BY <1>7 DEF SetReviewOnly
  <2>2. RequestOK' /\ TimesOK'
    BY <1>2, <2>1 DEF RequestOK, TimesOK
  <2>3. now <= now'
    BY <1>2, <2>1
  <2> QED BY <1>3, <2>1, <2>2, <2>3
<1>8. CASE Tick
  <2>1. UNCHANGED <<settings, enabled, burst, job, log, worker, request>> /\ now <= now'
    BY <1>2, <1>8 DEF Tick
  <2>2. now' \in Time
    BY <1>2, <1>8, BudgetAssumption DEF Tick, Time
  <2>3. RequestOK' /\ TimesOK'
    BY <1>2, <2>1, <2>2 DEF RequestOK, TimesOK, Time
  <2> QED BY <1>3, <2>1, <2>3
<1>9. CASE UNCHANGED vars
  <2>1. RequestOK' /\ TimesOK' /\ now <= now' /\ UNCHANGED <<job, worker>>
    BY <1>2, <1>9 DEF vars, RequestOK, TimesOK
  <2> QED BY <1>3, <2>1
<1> QED BY <1>4, <1>5, <1>6, <1>7, <1>8, <1>9 DEF Next

LEMMA TypesInvariant == Spec => []TypesInv
<1>1. Init => TypesInv
  BY TypesInit
<1>2. TypesInv /\ [Next]_vars => TypesInv'
  BY TypesStep
<1> QED BY <1>1, <1>2, PTL DEF Spec

\* Rows, log, workers and requests keep their shape, no attempt is counted beyond the last
\* that failJob and the reaper allow, and every row a worker is at is claimed, even when a
\* burst or an operator moves the row meanwhile (claimNextJob, failJob, scheduleBurst).
THEOREM BudgetTypeCorrect == Spec => []BudgetTypeOK
<1>1. TypesInv => BudgetTypeOK
  <2> SUFFICES ASSUME TypesInv PROVE BudgetTypeOK
    OBVIOUS
  <2> USE DEF TypesInv, LogShape
  <2>1. now \in Time /\ settings \in Settings /\ enabled \in BOOLEAN /\ burst \in [Campaigns -> Int]
        /\ log \subseteq Campaigns \X Time \X Nat
    BY DEF TimesOK
  <2>2. job \in [Jobs -> Rows]
    BY DEF RowsOK
  <2>3. \A w \in Workers :
         /\ worker[w].phase \in {"IDLE", "EVALUATED", "WORKING"}
         /\ worker[w].at <= now
         /\ worker[w].eligible \subseteq Campaigns
         /\ worker[w].phase = "WORKING" <=> worker[w].job # {}
         /\ worker[w].job \subseteq {j \in Jobs : job[j].status = "PROCESSING"}
    BY DEF HandsOK
  <2>4. request.campaign \subseteq Campaigns /\ request.jobs \in Seq(Jobs)
    BY DEF RequestOK
  <2> QED BY <2>1, <2>2, <2>3, <2>4 DEF BudgetTypeOK, Rows
<1> QED BY <1>1, TypesInvariant, PTL

\* Where the clocks change after the opening, if at all, the instant given as the next
\* opening is the first at which the window is open (nextWindowOpen).
THEOREM NextOpeningIsFirst ==
    ASSUME \A st \in Settings : \A c \in Campaigns : OpensByTheClock(st[c])
    PROVE  Spec => NextOpenIsFirst
<1>1. ASSUME LogShape, [Next]_vars
      PROVE  [now' # now => \A c \in Campaigns :
                nextWindowOpen(settings[c], now') = FirstOpening(settings[c], now')]_vars
  <2>1. settings \in Settings /\ now' \in Nat
    BY <1>1, LogShapeStep DEF LogShape
  <2>2. \A c \in Campaigns : settings[c] \in CampaignSettings /\ OpensByTheClock(settings[c])
    BY <2>1, BudgetAssumption
  <2>3. \A c \in Campaigns :
          nextWindowOpen(settings[c], now') = FirstOpening(settings[c], now')
    BY <2>1, <2>2, NextIsFirst
  <2> QED BY <2>3
<1>2. TypesInv => LogShape
  BY DEF TypesInv
<1> QED BY <1>1, <1>2, TypesInvariant, PTL DEF Spec, NextOpenIsFirst

-----------------------------------------------------------------------------
(* Plans keep the limits. *)

\* Where clocks go forward on a day on which the window closes, they do after it.
ClosesByTheClock(s) ==
    \A d \in ShortDays :
        Weekday(IF isOvernightWindow(s) THEN d - 1 ELSE d) \in s.days => s.windowEnd <= ChangeHour

\* The next opening is the instant itself or the opening of a later or the same day.
LEMMA NextOpeningIs ==
    ASSUME NEW s \in CampaignSettings, NEW at \in Nat, nextWindowOpen(s, at) # Never
    PROVE  \/ nextWindowOpen(s, at) = at /\ isWithinOperatingWindow(s, at)
           \/ \E d \in Nat : /\ Weekday(d) \in s.days /\ LocalDay(s.zone, at) <= d
                             /\ nextWindowOpen(s, at) = Opening(s, d)
                             /\ Opening(s, d) \in Nat /\ at <= Opening(s, d)
<1> DEFINE today == LocalDay(s.zone, at)
           days == {d \in today .. today + 2 * DaysPerWeek : Weekday(d) \in s.days}
           openings == {o \in {DayStart(s.zone, d) + s.windowStart : d \in days} : o >= at}
<1>1. nextWindowOpen(s, at) = IF s.days # {} /\ isWithinOperatingWindow(s, at) THEN at
                              ELSE IF openings = {} THEN Never ELSE Min(openings)
  BY DEF nextWindowOpen
<1>2. s.zone \in Nat /\ s.windowStart \in Nat
  BY ScheduleAssumption DEF CampaignSettings
<1>3. today \in Nat
  BY <1>2, OnTheClock
<1>4. \A d \in days : /\ d \in Nat /\ today <= d /\ Weekday(d) \in s.days
                      /\ DayStart(s.zone, d) \in Int
  BY <1>2, <1>3, DayLength
<1> HIDE DEF days
<1>5. \A o \in openings : o \in Nat /\ at <= o /\ \E d \in days : o = Opening(s, d)
  BY <1>2, <1>4 DEF Opening
<1>6. CASE s.days # {} /\ isWithinOperatingWindow(s, at)
  BY <1>1, <1>6
<1>7. CASE ~(s.days # {} /\ isWithinOperatingWindow(s, at))
  <2>1. openings # {} /\ nextWindowOpen(s, at) = Min(openings)
    BY <1>1, <1>7
  <2>2. openings \in SUBSET Nat
    BY <1>5
  <2> HIDE DEF openings
  <2>3. Min(openings) \in openings
    BY <2>1, <2>2, LeastNumber
  <2>4. PICK d \in days : Min(openings) = Opening(s, d)
    BY <1>5, <2>3
  <2>5. Opening(s, d) \in Nat /\ at <= Opening(s, d)
    BY <1>5, <2>3, <2>4
  <2> QED BY <1>4, <2>1, <2>4, <2>5
<1> QED BY <1>6, <1>7

\* Within the hours of a day that have to pass to the end of the window, the clock has not
\* reached that end either.
LEMMA NotYetClosed ==
    ASSUME NEW s \in CampaignSettings, NEW x \in Nat, NEW d \in Nat,
           DayStart(s.zone, d) <= x, x < DayStart(s.zone, d) + s.windowEnd,
           d \in ShortDays => s.windowEnd <= ChangeHour,
           s.windowEnd < HoursPerDay \/ d \notin ShortDays
    PROVE  LocalDay(s.zone, x) = d /\ WallClock(s.zone, x) < s.windowEnd
<1> DEFINE start == DayStart(s.zone, d)
           next == DayStart(s.zone, d + 1)
           passed == x - start
           wall == WallClock(s.zone, x)
<1>1. /\ s.zone \in Nat /\ s.windowEnd \in Nat /\ s.windowEnd <= HoursPerDay
      /\ HoursPerDay \in Nat /\ ChangeHour \in Nat /\ ~(d \in LongDays /\ d \in ShortDays)
  BY ScheduleAssumption DEF CampaignSettings
<1>2. /\ start \in Int /\ next \in Int
      /\ next >= start + HoursPerDay - (IF d \in ShortDays THEN 1 ELSE 0)
  <2>1. /\ start \in Int
        /\ next = start + HoursPerDay + (IF d \in LongDays THEN 1 ELSE 0)
                                      - (IF d \in ShortDays THEN 1 ELSE 0)
    BY <1>1, DayLength
  <2> HIDE DEF start, next
  <2> QED BY <1>1, <2>1
<1>3. start <= x /\ x < next
  <2> HIDE DEF start, next
  <2>1. start <= x /\ x < start + s.windowEnd
    BY DEF start
  <2> QED BY <1>1, <1>2, <2>1
<1>4. d = LocalDay(s.zone, x)
  BY <1>1, <1>3, OfDay
<1>5. wall = IF d \in LongDays /\ passed > ChangeHour THEN passed - 1
             ELSE IF d \in ShortDays /\ passed >= ChangeHour THEN passed + 1
             ELSE passed
  BY <1>4 DEF WallClock
<1>6. passed \in Nat /\ passed < s.windowEnd
  <2> HIDE DEF start
  <2>1. start <= x /\ x < start + s.windowEnd
    BY DEF start
  <2> QED BY <1>1, <1>2, <2>1
<1> HIDE DEF start, next, passed, wall
<1>7. wall < s.windowEnd
  BY <1>1, <1>5, <1>6
<1> QED BY <1>4, <1>7 DEF wall

\* Until it closes, an open window stays open.
LEMMA WindowRuns ==
    ASSUME NEW s \in CampaignSettings, OpensByTheClock(s), ClosesByTheClock(s),
           NEW at \in Nat, isWithinOperatingWindow(s, at),
           NEW x \in Nat, at <= x, x < currentWindowClose(s, at)
    PROVE  isWithinOperatingWindow(s, x)
<1> DEFINE d == LocalDay(s.zone, at)
           start == DayStart(s.zone, d)
           next == DayStart(s.zone, d + 1)
           wall == WallClock(s.zone, at)
<1>1. /\ s.zone \in Nat /\ s.windowStart \in Nat /\ s.windowEnd \in Nat
      /\ s.windowStart < HoursPerDay /\ HoursPerDay \in Nat
  BY ScheduleAssumption DEF CampaignSettings, OpensByTheClock
<1>2. /\ d \in Nat /\ wall \in Nat
      /\ \A t \in Nat : at <= t /\ LocalDay(s.zone, t) = d => wall <= WallClock(s.zone, t)
  BY <1>1, OnTheClock
<1>3. start \in Int /\ next \in Int /\ start <= at /\ at < next
  <2>1. d + 1 \in Nat
    BY <1>2
  <2> QED BY <1>1, <1>2, <2>1, LocalDayOf, DayLength
<1>4. WallClock(s.zone, x) \in Nat /\ LocalDay(s.zone, x) \in Nat
  BY <1>1, OnTheClock
<1>5. CASE ~isOvernightWindow(s)
  <2>1. wall >= s.windowStart /\ Weekday(d) \in s.days
    BY <1>5 DEF isWithinOperatingWindow
  <2>2. currentWindowClose(s, at) = start + s.windowEnd
    BY <1>5 DEF currentWindowClose
  <2>3. d \in ShortDays => s.windowEnd <= ChangeHour
    BY <1>5, <2>1 DEF ClosesByTheClock
  <2>4. s.windowEnd < HoursPerDay \/ d \notin ShortDays
    <3>1. ChangeHour < HoursPerDay /\ ChangeHour \in Nat
      BY ScheduleAssumption
    <3> QED BY <1>1, <2>3, <3>1
  <2>5. start <= x /\ x < start + s.windowEnd
    <3> HIDE DEF start, d
    <3> QED BY <1>3, <2>2
  <2>6. LocalDay(s.zone, x) = d /\ WallClock(s.zone, x) < s.windowEnd
    <3> HIDE DEF d
    <3> QED BY <1>2, <2>3, <2>4, <2>5, NotYetClosed DEF start
  <2>7. WallClock(s.zone, x) >= s.windowStart
    <3>1. wall <= WallClock(s.zone, x)
      BY <1>2, <2>6
    <3> HIDE DEF wall
    <3> QED BY <1>1, <1>2, <1>4, <2>1, <3>1
  <2> QED BY <1>5, <2>1, <2>6, <2>7 DEF isWithinOperatingWindow
<1>6. CASE isOvernightWindow(s) /\ wall >= s.windowStart
  <2>1. s.windowEnd <= s.windowStart
    BY <1>6 DEF isOvernightWindow
  <2>2. Weekday(d) \in s.days
    <3>1. ~(wall < s.windowEnd)
      <4> HIDE DEF wall
      <4> QED BY <1>1, <1>2, <1>6, <2>1
    <3> QED BY <1>6, <3>1 DEF isWithinOperatingWindow
  <2>3. currentWindowClose(s, at) = next + s.windowEnd
    BY <1>6 DEF currentWindowClose
  <2>4. CASE x < next
    <3>1. LocalDay(s.zone, x) = d
      <4> HIDE DEF d
      <4>1. start <= x
        BY <1>3
      <4> QED BY <1>1, <1>2, <2>4, <4>1, OfDay DEF start, next
    <3>2. wall <= WallClock(s.zone, x)
      BY <1>2, <3>1
    <3>3. WallClock(s.zone, x) >= s.windowStart
      <4> HIDE DEF wall
      <4> QED BY <1>1, <1>2, <1>4, <1>6, <3>2
    <3> QED BY <1>6, <2>2, <3>1, <3>3 DEF isWithinOperatingWindow
  <2>5. CASE next <= x
    <3> DEFINE e == d + 1
    <3>1. e \in Nat /\ e - 1 = d
      BY <1>2
    <3>2. e \in ShortDays => s.windowEnd <= ChangeHour
      <4> HIDE DEF e, d
      <4> QED BY <1>6, <2>2, <3>1 DEF ClosesByTheClock
    <3>3. s.windowEnd < HoursPerDay
      BY <1>1, <2>1
    <3>4. next <= x /\ x < next + s.windowEnd
      BY <2>3, <2>5
    <3>5. LocalDay(s.zone, x) = e /\ WallClock(s.zone, x) < s.windowEnd
      <4>1. next = DayStart(s.zone, e)
        OBVIOUS
      <4> HIDE DEF e, next
      <4> QED BY <3>1, <3>2, <3>3, <3>4, <4>1, NotYetClosed
    <3>6. Weekday(LocalDay(s.zone, x) - 1) \in s.days
      BY <2>2, <3>1, <3>5
    <3> QED BY <1>6, <3>5, <3>6 DEF isWithinOperatingWindow
  <2> QED
    <3>1. x < next \/ next <= x
      <4> HIDE DEF next
      <4> QED BY <1>3
    <3> QED BY <2>4, <2>5, <3>1
<1>7. CASE isOvernightWindow(s) /\ ~(wall >= s.windowStart)
  <2>1. s.windowEnd <= s.windowStart
    BY <1>7 DEF isOvernightWindow
  <2>2. Weekday(d - 1) \in s.days
    BY <1>7 DEF isWithinOperatingWindow
  <2>3. currentWindowClose(s, at) = start + s.windowEnd
    BY <1>7 DEF currentWindowClose
  <2>4. d \in ShortDays => s.windowEnd <= ChangeHour
    <3> HIDE DEF d
    <3> QED BY <1>7, <2>2 DEF ClosesByTheClock
  <2>5. s.windowEnd < HoursPerDay
    BY <1>1, <2>1
  <2>6. start <= x /\ x < start + s.windowEnd
    <3> HIDE DEF start, d
    <3> QED BY <1>3, <2>3
  <2>7. LocalDay(s.zone, x) = d /\ WallClock(s.zone, x) < s.windowEnd
    <3> HIDE DEF d
    <3> QED BY <1>2, <2>4, <2>5, <2>6, NotYetClosed DEF start
  <2> QED BY <1>7, <2>2, <2>7 DEF isWithinOperatingWindow
<1> QED BY <1>5, <1>6, <1>7

\* After the close of a window by day comes another day, or the hour that the clock shows
\* twice, in which nothing is placed any more.
LEMMA AfterClose ==
    ASSUME NEW s \in CampaignSettings, OpensByTheClock(s), ~isOvernightWindow(s),
           NEW at \in Nat, isWithinOperatingWindow(s, at),
           nextWindowOpen(s, currentWindowClose(s, at)) # Never
    PROVE  LET r == nextWindowOpen(s, currentWindowClose(s, at))
           IN LocalDay(s.zone, at) < LocalDay(s.zone, r) \/ r = currentWindowClose(s, r)
<1> DEFINE d == LocalDay(s.zone, at)
           c == currentWindowClose(s, at)
           r == nextWindowOpen(s, c)
<1>1. s.zone \in Nat /\ s.windowStart \in Nat /\ s.windowEnd \in Nat
  BY ScheduleAssumption DEF CampaignSettings
<1>2. c \in Nat /\ at <= c
  BY WindowCloses
<1>3. c = DayStart(s.zone, d) + s.windowEnd /\ s.windowStart < s.windowEnd
  BY <1>1 DEF currentWindowClose, isOvernightWindow
<1>4. d \in Nat /\ LocalDay(s.zone, c) \in Nat
  BY <1>1, <1>2, OnTheClock
<1>5. d <= LocalDay(s.zone, c)
  BY <1>1, <1>2, DaysPass
<1>6. CASE r = c /\ isWithinOperatingWindow(s, c)
  <2>1. CASE LocalDay(s.zone, c) = d
    <3>1. currentWindowClose(s, c) = DayStart(s.zone, d) + s.windowEnd
      BY <1>6, <2>1 DEF currentWindowClose
    <3> QED BY <1>3, <1>6, <3>1
  <2>2. CASE LocalDay(s.zone, c) # d
    <3> HIDE DEF d, c
    <3> QED BY <1>4, <1>5, <1>6, <2>2 DEF d, c
  <2> QED BY <2>1, <2>2
<1>7. ASSUME NEW e \in Nat, Weekday(e) \in s.days, LocalDay(s.zone, c) <= e, r = Opening(s, e),
             Opening(s, e) \in Nat, c <= Opening(s, e)
      PROVE  d < LocalDay(s.zone, r)
  <2>1. LocalDay(s.zone, r) = e
    BY <1>7, OpenAtOpening
  <2>2. e # d
    <3>1. Opening(s, d) = DayStart(s.zone, d) + s.windowStart /\ DayStart(s.zone, d) \in Int
      BY <1>1, <1>4, DayLength DEF Opening
    <3>2. ~(c <= Opening(s, d))
      <4> HIDE DEF c, d
      <4> QED BY <1>1, <1>3, <3>1
    <3> QED BY <1>7, <3>2
  <2> HIDE DEF c, d, r
  <2> QED BY <1>4, <1>5, <1>7, <2>1, <2>2
<1>8. \/ r = c /\ isWithinOperatingWindow(s, c)
      \/ \E e \in Nat : /\ Weekday(e) \in s.days /\ LocalDay(s.zone, c) <= e
                        /\ r = Opening(s, e) /\ Opening(s, e) \in Nat /\ c <= Opening(s, e)
  BY <1>2, NextOpeningIs
<1> QED BY <1>6, <1>7, <1>8

\* After the end of a day comes another.
LEMMA AfterDay ==
    ASSUME NEW s \in CampaignSettings, NEW at \in Nat,
           nextWindowOpen(s, localDayBounds(s.zone, at).end) # Never
    PROVE  LET end == localDayBounds(s.zone, at).end
           IN /\ end \in Nat /\ at < end
              /\ LocalDay(s.zone, at) < LocalDay(s.zone, nextWindowOpen(s, end))
<1> DEFINE d == LocalDay(s.zone, at)
           end == localDayBounds(s.zone, at).end
           r == nextWindowOpen(s, end)
<1>1. s.zone \in Nat
  BY DEF CampaignSettings
<1>2. d \in Nat /\ at < DayStart(s.zone, d + 1)
  BY <1>1, OnTheClock, LocalDayOf
<1>3. end = DayStart(s.zone, d + 1)
  BY DEF localDayBounds
<1>4. d + 1 \in Nat /\ DayStart(s.zone, d + 1) \in Int
  BY <1>1, <1>2, DayLength
<1>5. end \in Nat /\ at < end
  <2> HIDE DEF d, end
  <2> QED BY <1>2, <1>3, <1>4
<1>6. LocalDay(s.zone, end) = d + 1
  <2> DEFINE e == d + 1
  <2>1. e + 1 \in Nat /\ e \in Nat
    BY <1>4
  <2>2. DayStart(s.zone, e + 1) >= DayStart(s.zone, e) + 2 /\ DayStart(s.zone, e + 1) \in Int
    <3> HIDE DEF e
    <3>1. e <= e + 1 /\ (e + 1) - e = 1
      BY <2>1
    <3>2. DayStart(s.zone, e + 1) - DayStart(s.zone, e) >= 2 * ((e + 1) - e)
          /\ DayStart(s.zone, e) \in Int /\ DayStart(s.zone, e + 1) \in Int
      BY <1>1, <2>1, <3>1, DaysFollow
    <3> QED BY <3>1, <3>2
  <2>3. DayStart(s.zone, e) <= end /\ end < DayStart(s.zone, e + 1)
    <3> HIDE DEF end
    <3> QED BY <1>3, <1>4, <2>2
  <2> HIDE DEF e, end
  <2> QED BY <1>1, <1>5, <2>1, <2>3, OfDay DEF e
<1>7. r \in Nat /\ end <= r
  <2> HIDE DEF end
  <2> QED BY <1>5, NextOpening DEF end
<1>8. LocalDay(s.zone, end) <= LocalDay(s.zone, r)
  <2> HIDE DEF end, r
  <2> QED BY <1>1, <1>5, <1>7, DaysPass
<1>9. LocalDay(s.zone, r) \in Nat
  BY <1>1, <1>7, OnTheClock
<1> HIDE DEF d, r, end
<1>10. d < LocalDay(s.zone, r)
  BY <1>2, <1>6, <1>8, <1>9
<1> QED BY <1>5, <1>10 DEF d, r, end

\* y is a delay later than x, or x's window has closed by then.
After(s, gap, x, y) == x + gap <= y \/ currentWindowClose(s, x) <= y

\* What a plan keeps: open windows, delays, and no more on a day than allowed.
PlanKept(s, gap, plan) ==
    /\ plan \in Seq(Nat)
    /\ \A i \in 1 .. Len(plan) : /\ isWithinOperatingWindow(s, plan[i])
                                 /\ plan[i] < currentWindowClose(s, plan[i])
    /\ \A i, k \in 1 .. Len(plan) : i < k => After(s, gap, plan[i], plan[k])
    /\ ~isOvernightWindow(s) =>
         \A i, k \in 1 .. Len(plan) :
            i + s.dailyLimit <= k => LocalDay(s.zone, plan[i]) < LocalDay(s.zone, plan[k])

\* The cursor is where the next job may go; what does not count against the allowance that is
\* left was placed on an earlier day, unless the window has closed.
CursorKept(s, gap, p) ==
    /\ isWithinOperatingWindow(s, p.cursor)
    /\ 0 <= p.left /\ p.left <= s.dailyLimit
    /\ \A i \in 1 .. Len(p.plan) : After(s, gap, p.plan[i], p.cursor)
    /\ ~isOvernightWindow(s) =>
         \A i \in 1 .. Len(p.plan) :
            i + s.dailyLimit <= Len(p.plan) + p.left =>
               \/ LocalDay(s.zone, p.plan[i]) < LocalDay(s.zone, p.cursor)
               \/ p.cursor = currentWindowClose(s, p.cursor)

PlanInv(s, gap, p) == PlanShape(p) /\ PlanKept(s, gap, p.plan) /\ (~p.done => CursorKept(s, gap, p))

\* What is after what was placed is later, on no earlier day, and so is all that follows.
LEMMA AfterIsLater ==
    ASSUME NEW s \in CampaignSettings, NEW gap \in Nat, NEW x \in Nat, NEW y \in Nat,
           isWithinOperatingWindow(s, x), After(s, gap, x, y)
    PROVE  /\ x <= y /\ LocalDay(s.zone, x) <= LocalDay(s.zone, y)
           /\ \A z \in Nat : y <= z => After(s, gap, x, z)
<1>1. s.zone \in Nat
  BY DEF CampaignSettings
<1>2. currentWindowClose(s, x) \in Nat /\ x <= currentWindowClose(s, x)
  BY WindowCloses
<1>3. x <= y
  BY <1>2 DEF After
<1>4. LocalDay(s.zone, x) <= LocalDay(s.zone, y)
  BY <1>1, <1>3, DaysPass
<1>5. ASSUME NEW z \in Nat, y <= z PROVE After(s, gap, x, z)
  BY <1>2, <1>5 DEF After
<1> QED BY <1>3, <1>4, <1>5

\* Going on to the next opening, with a new allowance.
LEMMA KeptReopened ==
    ASSUME NEW s \in CampaignSettings, OpensByTheClock(s), NEW gap \in Nat, NEW at \in Nat,
           NEW p, PlanShape(p), ~p.done, PlanKept(s, gap, p.plan),
           \A i \in 1 .. Len(p.plan) : After(s, gap, p.plan[i], at),
           LET n == nextWindowOpen(s, at)
           IN n # Never /\ ~isOvernightWindow(s) =>
                \A i \in 1 .. Len(p.plan) :
                   LocalDay(s.zone, p.plan[i]) < LocalDay(s.zone, n) \/ n = currentWindowClose(s, n)
    PROVE  PlanInv(s, gap, Reopened(s, p, at))
<1> DEFINE r == Reopened(s, p, at)
           n == nextWindowOpen(s, at)
<1>1. /\ PlanShape(r) /\ r.plan = p.plan
      /\ ~r.done => r.left = s.dailyLimit /\ at <= r.cursor /\ r.cursor = n /\ n # Never
  BY ReopenedIs
<1>2. s.dailyLimit \in Nat /\ Len(p.plan) \in Nat /\ p.plan \in Seq(Nat)
  BY DEF CampaignSettings, PlanKept
<1>3. \A i \in 1 .. Len(p.plan) : p.plan[i] \in Nat /\ isWithinOperatingWindow(s, p.plan[i])
  BY <1>2 DEF PlanKept
<1>4. n # Never => n \in Nat /\ at <= n /\ isWithinOperatingWindow(s, n)
  BY NextOpening
<1>5. n # Never => \A i \in 1 .. Len(p.plan) : After(s, gap, p.plan[i], n)
  BY <1>3, <1>4, AfterIsLater
<1>6. n # Never /\ ~isOvernightWindow(s) =>
        \A i \in 1 .. Len(p.plan) :
           LocalDay(s.zone, p.plan[i]) < LocalDay(s.zone, n) \/ n = currentWindowClose(s, n)
  OBVIOUS
<1> HIDE DEF r, n
<1>7. ~r.done => CursorKept(s, gap, r)
  BY <1>1, <1>2, <1>4, <1>5, <1>6 DEF CursorKept
<1>8. PlanInv(s, gap, r)
  BY <1>1, <1>7 DEF PlanInv
<1> QED BY <1>8 DEF r

\* Nothing that was placed lies beyond the cursor.
LEMMA PlacedBefore ==
    ASSUME NEW s \in CampaignSettings, NEW gap \in Nat, NEW p, PlanInv(s, gap, p), ~p.done
    PROVE  /\ p.cursor \in Nat /\ Len(p.plan) \in Nat /\ p.left \in Int
           /\ currentWindowClose(s, p.cursor) \in Nat /\ p.cursor <= currentWindowClose(s, p.cursor)
           /\ \A i \in 1 .. Len(p.plan) :
                /\ p.plan[i] \in Nat /\ isWithinOperatingWindow(s, p.plan[i])
                /\ After(s, gap, p.plan[i], p.cursor)
                /\ \A z \in Nat : p.cursor <= z => After(s, gap, p.plan[i], z)
                /\ LocalDay(s.zone, p.plan[i]) \in Nat
                /\ LocalDay(s.zone, p.plan[i]) <= LocalDay(s.zone, p.cursor)
<1>1. /\ p.cursor \in Nat /\ p.plan \in Seq(Nat) /\ Len(p.plan) \in Nat /\ p.left \in Int
      /\ s.zone \in Nat
  BY PlanFields DEF PlanInv, PlanKept, CampaignSettings
<1>2. isWithinOperatingWindow(s, p.cursor)
  BY DEF PlanInv, CursorKept
<1>3. currentWindowClose(s, p.cursor) \in Nat /\ p.cursor <= currentWindowClose(s, p.cursor)
  BY <1>1, <1>2, WindowCloses
<1>4. ASSUME NEW i \in 1 .. Len(p.plan)
      PROVE  /\ p.plan[i] \in Nat /\ isWithinOperatingWindow(s, p.plan[i])
             /\ After(s, gap, p.plan[i], p.cursor)
  BY <1>1 DEF PlanInv, PlanKept, CursorKept
<1>5. ASSUME NEW i \in 1 .. Len(p.plan)
      PROVE  /\ \A z \in Nat : p.cursor <= z => After(s, gap, p.plan[i], z)
             /\ LocalDay(s.zone, p.plan[i]) \in Nat
             /\ LocalDay(s.zone, p.plan[i]) <= LocalDay(s.zone, p.cursor)
  <2>1. LocalDay(s.zone, p.plan[i]) \in Nat
    BY <1>1, <1>4, OnTheClock
  <2> QED BY <1>1, <1>4, <2>1, AfterIsLater
<1> QED BY <1>1, <1>3, <1>4, <1>5

\* The day's allowance is used up: on to the next day.
LEMMA KeptRollOver ==
    ASSUME NEW s \in CampaignSettings, OpensByTheClock(s), NEW gap \in Nat,
           NEW p, PlanInv(s, gap, p), ~p.done
    PROVE  PlanInv(s, gap, RollOver(s, p)) /\ (~RollOver(s, p).done => RollOver(s, p).left > 0)
<1> DEFINE end == localDayBounds(s.zone, p.cursor).end
           n == nextWindowOpen(s, end)
<1>1. CASE p.left > 0
  BY <1>1 DEF RollOver
<1>2. CASE ~(p.left > 0)
  <2>1. RollOver(s, p) = Reopened(s, p, end)
    BY <1>2 DEF RollOver
  <2>2. p.cursor \in Nat /\ s.zone \in Nat /\ LocalDay(s.zone, p.cursor) \in Nat
    <3>1. p.cursor \in Nat /\ s.zone \in Nat
      BY PlacedBefore DEF CampaignSettings
    <3> QED BY <3>1, OnTheClock
  <2>3. end \in Nat /\ p.cursor < end
    <3> DEFINE d == LocalDay(s.zone, p.cursor)
    <3>1. p.cursor < DayStart(s.zone, d + 1) /\ end = DayStart(s.zone, d + 1)
      BY <2>2, LocalDayOf DEF localDayBounds
    <3>2. d + 1 \in Nat
      BY <2>2
    <3>3. DayStart(s.zone, d + 1) \in Int
      BY <2>2, <3>2, DayLength
    <3> HIDE DEF d, end
    <3> QED BY <2>2, <3>1, <3>3
  <2>4. n # Never => /\ LocalDay(s.zone, p.cursor) < LocalDay(s.zone, n)
                     /\ LocalDay(s.zone, n) \in Nat
    <3>1. n # Never => n \in Nat
      <4> HIDE DEF end
      <4> QED BY <2>3, NextOpening DEF end
    <3>2. n # Never => LocalDay(s.zone, n) \in Nat
      <4> HIDE DEF n
      <4> QED BY <2>2, <3>1, OnTheClock
    <3>3. n # Never => LocalDay(s.zone, p.cursor) < LocalDay(s.zone, n)
      BY <2>2, AfterDay
    <3> QED BY <3>2, <3>3
  <2>5. /\ \A i \in 1 .. Len(p.plan) : After(s, gap, p.plan[i], end)
        /\ \A i \in 1 .. Len(p.plan) : n # Never => LocalDay(s.zone, p.plan[i]) < LocalDay(s.zone, n)
    <3> HIDE DEF end, n
    <3> QED BY <2>2, <2>3, <2>4, PlacedBefore
  <2>6. PlanShape(p) /\ PlanKept(s, gap, p.plan)
    BY DEF PlanInv
  <2>7. PlanInv(s, gap, Reopened(s, p, end))
    <3> HIDE DEF end
    <3> QED BY <2>3, <2>5, <2>6, KeptReopened
  <2>8. ~Reopened(s, p, end).done => Reopened(s, p, end).left > 0
    <3> HIDE DEF end
    <3>1. ~Reopened(s, p, end).done => Reopened(s, p, end).left = s.dailyLimit
      BY <2>3, <2>6, ReopenedIs
    <3>2. s.dailyLimit \in Nat /\ s.dailyLimit > 0
      BY DEF CampaignSettings
    <3> QED BY <3>1, <3>2
  <2> QED BY <2>1, <2>7, <2>8
<1> QED BY <1>1, <1>2

\* The cursor has come to the close.
LEMMA KeptPast ==
    ASSUME NEW s \in CampaignSettings, OpensByTheClock(s), NEW gap \in Nat,
           NEW p, PlanInv(s, gap, p), ~p.done,
           p.cursor >= currentWindowClose(s, p.cursor)
    PROVE  PlanInv(s, gap, Reopened(s, p, currentWindowClose(s, p.cursor)))
<1> DEFINE close == currentWindowClose(s, p.cursor)
           n == nextWindowOpen(s, close)
<1>1. /\ p.cursor \in Nat /\ close = p.cursor /\ s.zone \in Nat
      /\ isWithinOperatingWindow(s, p.cursor)
  <2>1. p.cursor \in Nat /\ close \in Nat /\ p.cursor <= close
    BY PlacedBefore
  <2> HIDE DEF close
  <2>2. close = p.cursor
    BY <2>1 DEF close
  <2>3. isWithinOperatingWindow(s, p.cursor) /\ s.zone \in Nat
    BY DEF PlanInv, CursorKept, CampaignSettings
  <2> QED BY <2>1, <2>2, <2>3
<1>2. n # Never /\ ~isOvernightWindow(s) =>
        LocalDay(s.zone, p.cursor) < LocalDay(s.zone, n) \/ n = currentWindowClose(s, n)
  BY <1>1, AfterClose
<1>3. n # Never => LocalDay(s.zone, n) \in Nat
  <2>1. n # Never => n \in Nat
    <3> HIDE DEF close
    <3> QED BY <1>1, NextOpening
  <2> HIDE DEF n
  <2> QED BY <1>1, <2>1, OnTheClock
<1>4. LocalDay(s.zone, p.cursor) \in Nat
  BY <1>1, OnTheClock
<1> HIDE DEF n, close
<1>5. /\ \A i \in 1 .. Len(p.plan) : After(s, gap, p.plan[i], close)
      /\ n # Never /\ ~isOvernightWindow(s) =>
            \A i \in 1 .. Len(p.plan) :
               LocalDay(s.zone, p.plan[i]) < LocalDay(s.zone, n) \/ n = currentWindowClose(s, n)
  BY <1>1, <1>2, <1>3, <1>4, PlacedBefore
<1>6. PlanShape(p) /\ PlanKept(s, gap, p.plan) /\ close \in Nat
  BY <1>1 DEF PlanInv
<1>7. PlanInv(s, gap, Reopened(s, p, close))
  BY <1>5, <1>6, KeptReopened DEF n
<1> QED BY <1>7 DEF close

\* One more job is placed.
LEMMA KeptAppended ==
    ASSUME NEW s \in CampaignSettings, NEW gap \in Nat, NEW p, PlanInv(s, gap, p), ~p.done,
           p.left > 0, p.cursor < currentWindowClose(s, p.cursor)
    PROVE  LET plan == Append(p.plan, p.cursor)
           IN /\ PlanKept(s, gap, plan) /\ Len(plan) = Len(p.plan) + 1
              /\ \A i \in 1 .. Len(p.plan) : plan[i] = p.plan[i]
              /\ plan[Len(p.plan) + 1] = p.cursor
              /\ \A i \in 1 .. Len(plan) :
                   /\ plan[i] \in Nat /\ isWithinOperatingWindow(s, plan[i])
                   /\ LocalDay(s.zone, plan[i]) \in Nat
                   /\ LocalDay(s.zone, plan[i]) <= LocalDay(s.zone, p.cursor)
<1> DEFINE old == p.plan
           n == Len(old)
           x == p.cursor
           plan == Append(old, x)
<1>1. old \in Seq(Nat) /\ n \in Nat /\ x \in Nat
  BY PlacedBefore DEF PlanInv, PlanKept
<1>2. /\ plan \in Seq(Nat) /\ Len(plan) = n + 1 /\ plan[n + 1] = x
      /\ \A i \in 1 .. n : plan[i] = old[i]
  BY <1>1
<1>3. s.dailyLimit \in Nat /\ s.dailyLimit > 0 /\ p.left \in Int /\ p.left <= s.dailyLimit
  BY PlacedBefore DEF CampaignSettings, PlanInv, CursorKept
<1>4. \A i \in 1 .. n + 1 : i \in 1 .. n \/ i = n + 1
  BY <1>1
<1>5. /\ isWithinOperatingWindow(s, x) /\ x < currentWindowClose(s, x)
      /\ \A i \in 1 .. n : After(s, gap, old[i], x)
      /\ \A i \in 1 .. n : /\ isWithinOperatingWindow(s, old[i])
                           /\ old[i] < currentWindowClose(s, old[i])
      /\ \A i, k \in 1 .. n : i < k => After(s, gap, old[i], old[k])
  BY DEF PlanInv, PlanKept, CursorKept
<1>6. LocalDay(s.zone, x) \in Nat /\ \A i \in 1 .. n : /\ LocalDay(s.zone, old[i]) \in Nat
                                                       /\ LocalDay(s.zone, old[i]) <= LocalDay(s.zone, x)
  <2>1. s.zone \in Nat
    BY DEF CampaignSettings
  <2> QED BY <1>1, <2>1, OnTheClock, PlacedBefore
<1>7. ~isOvernightWindow(s) =>
        /\ \A i, k \in 1 .. n :
             i + s.dailyLimit <= k => LocalDay(s.zone, old[i]) < LocalDay(s.zone, old[k])
        /\ \A i \in 1 .. n : i + s.dailyLimit <= n + p.left =>
             \/ LocalDay(s.zone, old[i]) < LocalDay(s.zone, x)
             \/ x = currentWindowClose(s, x)
  BY DEF PlanInv, PlanKept, CursorKept
<1> DEFINE close == currentWindowClose(s, x)
<1>8. close \in Nat
  BY PlacedBefore
<1> HIDE DEF old, n, x, plan, close
<1>9. \A i \in 1 .. n + 1 : /\ plan[i] \in Nat /\ isWithinOperatingWindow(s, plan[i])
                            /\ plan[i] < currentWindowClose(s, plan[i])
                            /\ LocalDay(s.zone, plan[i]) \in Nat
                            /\ LocalDay(s.zone, plan[i]) <= LocalDay(s.zone, x)
  <2>1. \A i \in 1 .. n : old[i] \in Nat
    BY <1>1 DEF n
  <2> TAKE i \in 1 .. n + 1
  <2>2. CASE i \in 1 .. n
    BY <1>2, <1>5, <1>6, <2>1, <2>2
  <2>3. CASE i = n + 1
    BY <1>1, <1>2, <1>5, <1>6, <2>3
  <2> QED BY <1>4, <2>2, <2>3
<1>10. ASSUME NEW i \in 1 .. n + 1, NEW k \in 1 .. n + 1, i < k
       PROVE  After(s, gap, plan[i], plan[k])
  <2>1. i \in 1 .. n
    BY <1>1, <1>10
  <2>2. CASE k \in 1 .. n
    BY <1>2, <1>5, <1>10, <2>1, <2>2
  <2>3. CASE k = n + 1
    BY <1>2, <1>5, <2>1, <2>3
  <2> QED BY <1>4, <2>2, <2>3
<1>11. ASSUME ~isOvernightWindow(s), NEW i \in 1 .. n + 1, NEW k \in 1 .. n + 1,
              i + s.dailyLimit <= k
       PROVE  LocalDay(s.zone, plan[i]) < LocalDay(s.zone, plan[k])
  <2>1. i \in 1 .. n
    BY <1>1, <1>3, <1>11
  <2>2. CASE k \in 1 .. n
    BY <1>2, <1>7, <1>11, <2>1, <2>2
  <2>3. CASE k = n + 1
    <3>1. i + s.dailyLimit <= n + p.left
      BY <1>1, <1>3, <1>11, <2>1, <2>3
    <3>2. x # currentWindowClose(s, x)
      BY <1>1, <1>5, <1>8 DEF close
    <3>3. LocalDay(s.zone, old[i]) < LocalDay(s.zone, x)
      BY <1>7, <1>11, <2>1, <3>1, <3>2
    <3> QED BY <1>2, <2>1, <2>3, <3>3
  <2> QED BY <1>4, <2>2, <2>3
<1>12. PlanKept(s, gap, plan)
  BY <1>2, <1>9, <1>10, <1>11 DEF PlanKept
<1> QED BY <1>2, <1>9, <1>12 DEF plan, old, n, x

\* The cursor moves on by the delay, or to the next opening when the window closes before.
LEMMA KeptAdvance ==
    ASSUME NEW s \in CampaignSettings, OpensByTheClock(s), ClosesByTheClock(s), NEW gap \in Nat,
           NEW p, PlanInv(s, gap, p), ~p.done,
           p.left > 0, p.cursor < currentWindowClose(s, p.cursor)
    PROVE  PlanInv(s, gap, Advance(s, [p EXCEPT !.plan = Append(p.plan, p.cursor),
                                                !.left = p.left - 1], gap))
<1> DEFINE x == p.cursor
           plan == Append(p.plan, x)
           n == Len(p.plan)
           close == currentWindowClose(s, x)
           placed == [p EXCEPT !.plan = plan, !.left = p.left - 1]
           next == nextWindowOpen(s, close)
<1>1. /\ x \in Nat /\ n \in Nat /\ p.left \in Int /\ close \in Nat /\ s.zone \in Nat
      /\ PlanShape(p) /\ isWithinOperatingWindow(s, x) /\ p.plan \in Seq(Nat)
  BY PlacedBefore DEF PlanInv, CursorKept, PlanKept, CampaignSettings
<1>2. /\ placed = [cursor |-> x, left |-> p.left - 1, plan |-> plan, done |-> p.done]
      /\ p.done = FALSE /\ plan \in Seq(Nat)
  <2>1. placed = [cursor |-> x, left |-> p.left - 1, plan |-> plan, done |-> p.done]
    BY <1>1, PlanParts
  <2>2. p.done \in BOOLEAN
    BY <1>1, PlanFields
  <2> QED BY <1>1, <2>1, <2>2
<1>3. /\ placed.cursor = x /\ placed.left = p.left - 1 /\ placed.plan = plan /\ ~placed.done
      /\ PlanShape(placed)
  <2>1. p.left - 1 \in Int /\ x \in Int /\ FALSE \in BOOLEAN
    BY <1>1
  <2> DEFINE l == p.left - 1
             made == [cursor |-> x, left |-> l, plan |-> plan, done |-> FALSE]
  <2>2. placed = made
    BY <1>2
  <2> HIDE DEF placed, plan, x, l
  <2>3. PlanShape(made)
    BY <1>1, <1>2, <2>1, PlanOf DEF l
  <2> QED BY <2>2, <2>3 DEF l
<1>4. /\ PlanKept(s, gap, plan) /\ Len(plan) = n + 1
      /\ \A i \in 1 .. n : plan[i] = p.plan[i]
      /\ plan[n + 1] = x
      /\ \A i \in 1 .. Len(plan) :
           /\ plan[i] \in Nat /\ isWithinOperatingWindow(s, plan[i])
           /\ LocalDay(s.zone, plan[i]) \in Nat
           /\ LocalDay(s.zone, plan[i]) <= LocalDay(s.zone, x)
  BY KeptAppended
<1>5. \A i \in 1 .. n + 1 : i \in 1 .. n \/ i = n + 1
  BY <1>1
<1>6. \A i \in 1 .. n : /\ \A z \in Nat : x <= z => After(s, gap, p.plan[i], z)
  BY PlacedBefore
<1>7. Advance(s, placed, gap) =
        IF close = Never \/ x + gap < close THEN [placed EXCEPT !.cursor = x + gap]
        ELSE Reopened(s, placed, close)
  BY <1>3 DEF Advance
<1>8. close # Never /\ x < close /\ x <= close
  BY <1>1 DEF Never
<1>9. CASE x + gap < close
  <2> DEFINE c == x + gap
             new == [placed EXCEPT !.cursor = c]
  <2>1. c \in Nat /\ x <= c /\ c < close /\ c \in Int
    BY <1>1, <1>9
  <2>2. Advance(s, placed, gap) = new
    BY <1>7, <1>9
  <2>3. new = [cursor |-> c, left |-> p.left - 1, plan |-> plan, done |-> FALSE]
    <3> HIDE DEF c, placed
    <3>1. new = [cursor |-> c, left |-> placed.left, plan |-> placed.plan, done |-> placed.done]
      BY <1>3, PlanParts
    <3>2. placed.done = FALSE
      BY <1>3, PlanFields
    <3> QED BY <1>3, <3>1, <3>2
  <2>4. isWithinOperatingWindow(s, c)
    <3> HIDE DEF c, x
    <3> QED BY <1>1, <2>1, WindowRuns DEF close
  <2>5. ASSUME NEW i \in 1 .. n + 1 PROVE After(s, gap, plan[i], c)
    <3>1. CASE i \in 1 .. n
      BY <1>4, <1>6, <2>1, <3>1
    <3>2. CASE i = n + 1
      <4>1. plan[i] = x
        BY <1>4, <3>2
      <4>2. x + gap <= c
        BY <2>1
      <4> QED BY <4>1, <4>2 DEF After
    <3> QED BY <1>5, <3>1, <3>2
  <2>6. LocalDay(s.zone, x) <= LocalDay(s.zone, c) /\ LocalDay(s.zone, c) \in Nat
        /\ LocalDay(s.zone, x) \in Nat
    <3> HIDE DEF c, x
    <3> QED BY <1>1, <2>1, DaysPass, OnTheClock
  <2>7. s.dailyLimit \in Nat /\ 0 <= p.left - 1 /\ p.left <= s.dailyLimit /\ p.left - 1 \in Int
        /\ p.left - 1 <= s.dailyLimit
    <3>1. p.left <= s.dailyLimit /\ s.dailyLimit \in Nat
      BY DEF PlanInv, CursorKept, CampaignSettings
    <3> QED BY <1>1, <3>1
  <2>8. ASSUME ~isOvernightWindow(s), NEW i \in 1 .. n + 1,
               i + s.dailyLimit <= n + 1 + (p.left - 1)
        PROVE  LocalDay(s.zone, plan[i]) < LocalDay(s.zone, c)
    <3>1. i \in 1 .. n /\ i + s.dailyLimit <= n + p.left
      <4>1. /\ n \in Nat /\ i \in 1 .. n + 1 /\ p.left \in Int /\ s.dailyLimit \in Nat
            /\ p.left - 1 <= s.dailyLimit - 1
        BY <1>1, <2>7, <2>8
      <4>2. i + s.dailyLimit <= n + 1 + (p.left - 1)
        BY <2>8
      <4> HIDE DEF n
      <4> QED BY <4>1, <4>2
    <3>2. \/ LocalDay(s.zone, p.plan[i]) < LocalDay(s.zone, x)
          \/ x = close
      BY <2>8, <3>1 DEF PlanInv, CursorKept
    <3>3. LocalDay(s.zone, plan[i]) < LocalDay(s.zone, x) /\ LocalDay(s.zone, plan[i]) \in Nat
      <4>1. x # close
        BY <1>1, <1>8
      <4> QED BY <1>4, <3>1, <3>2, <4>1
    <3> HIDE DEF x, c, plan
    <3> QED BY <2>6, <3>3
  <2> HIDE DEF c, plan, x, close
  <2>9. CursorKept(s, gap, new)
    BY <1>4, <2>3, <2>4, <2>5, <2>7, <2>8 DEF CursorKept
  <2>10. PlanShape(new)
    <3>1. p.left - 1 \in Int /\ FALSE \in BOOLEAN
      BY <2>7
    <3> HIDE DEF new
    <3> DEFINE l == p.left - 1
    <3>2. new = [cursor |-> c, left |-> l, plan |-> plan, done |-> FALSE] /\ l \in Int
      BY <2>3, <3>1
    <3> HIDE DEF l
    <3> QED BY <1>2, <2>1, <3>2, PlanOf
  <2>11. PlanInv(s, gap, new)
    <3>1. new.plan = plan
      BY <2>3
    <3> HIDE DEF new
    <3> QED BY <1>4, <2>9, <2>10, <3>1 DEF PlanInv
  <2> QED BY <2>2, <2>11 DEF plan, x
<1>10. CASE ~(x + gap < close)
  <2>1. Advance(s, placed, gap) = Reopened(s, placed, close)
    BY <1>7, <1>8, <1>10
  <2>2. ASSUME NEW i \in 1 .. n + 1 PROVE After(s, gap, plan[i], close)
    <3>1. CASE i \in 1 .. n
      BY <1>1, <1>4, <1>6, <1>8, <3>1
    <3>2. CASE i = n + 1
      <4>1. plan[i] = x
        BY <1>4, <3>2
      <4> QED BY <1>1, <4>1 DEF After
    <3> QED BY <1>5, <3>1, <3>2
  <2>3. next # Never /\ ~isOvernightWindow(s) =>
          LocalDay(s.zone, x) < LocalDay(s.zone, next) \/ next = currentWindowClose(s, next)
    BY <1>1, AfterClose
  <2>4. next # Never => LocalDay(s.zone, next) \in Nat
    <3>1. next # Never => next \in Nat
      <4> HIDE DEF close
      <4> QED BY <1>1, NextOpening
    <3> HIDE DEF next
    <3> QED BY <1>1, <3>1, OnTheClock
  <2>5. LocalDay(s.zone, x) \in Nat
    BY <1>1, OnTheClock
  <2>6. next # Never /\ ~isOvernightWindow(s) =>
          \A i \in 1 .. n + 1 :
            LocalDay(s.zone, plan[i]) < LocalDay(s.zone, next) \/ next = currentWindowClose(s, next)
    <3> HIDE DEF next, plan, x, n
    <3> QED BY <1>4, <2>3, <2>4, <2>5
  <2> HIDE DEF placed, plan, close, next
  <2>7. PlanInv(s, gap, Reopened(s, placed, close))
    BY <1>1, <1>3, <1>4, <2>2, <2>6, KeptReopened DEF next
  <2> QED BY <2>1, <2>7 DEF placed, plan
<1> QED BY <1>9, <1>10

LEMMA KeptPlace ==
    ASSUME NEW s \in CampaignSettings, OpensByTheClock(s), ClosesByTheClock(s), NEW gap \in Nat,
           NEW p, PlanInv(s, gap, p)
    PROVE  PlanInv(s, gap, Place(s, p, gap))
<1> DEFINE q == RollOver(s, p)
           close == currentWindowClose(s, q.cursor)
           placed == [q EXCEPT !.plan = Append(q.plan, q.cursor), !.left = q.left - 1]
<1>1. Place(s, p, gap) = IF p.done \/ q.done THEN PlanFull(p)
                         ELSE IF close # Never /\ q.cursor >= close THEN Reopened(s, q, close)
                         ELSE Advance(s, placed, gap)
  BY DEF Place
<1>2. PlanInv(s, gap, PlanFull(p))
  <2>1. PlanFull(p) = [cursor |-> p.cursor, left |-> p.left, plan |-> p.plan, done |-> TRUE]
    BY PlanParts DEF PlanInv, PlanFull
  <2>2. PlanShape(PlanFull(p))
    <3>1. p.cursor \in Int /\ p.left \in Int /\ p.plan \in Seq(Nat)
      BY PlanFields DEF PlanInv
    <3> QED BY <2>1, <3>1, PlanOf
  <2>3. PlanFull(p).plan = p.plan /\ PlanFull(p).done
    BY <2>1
  <2> QED BY <2>2, <2>3 DEF PlanInv
<1>3. ASSUME ~p.done, ~q.done PROVE PlanInv(s, gap, q) /\ q.left > 0 /\ q.left \in Int
  <2>1. PlanInv(s, gap, q) /\ q.left > 0
    BY <1>3, KeptRollOver
  <2> HIDE DEF q
  <2> QED BY <1>3, <2>1, PlacedBefore
<1> HIDE DEF q
<1>4. ASSUME ~p.done, ~q.done, q.cursor >= close PROVE PlanInv(s, gap, Reopened(s, q, close))
  BY <1>3, <1>4, KeptPast
<1>5. ASSUME ~p.done, ~q.done, ~(q.cursor >= close) PROVE PlanInv(s, gap, Advance(s, placed, gap))
  <2>1. q.cursor \in Nat /\ close \in Nat
    BY <1>3, <1>5, PlacedBefore
  <2>2. q.cursor < close
    <3> HIDE DEF close
    <3> QED BY <1>5, <2>1
  <2> QED BY <1>3, <1>5, <2>2, KeptAdvance
<1>6. ASSUME ~p.done, ~q.done PROVE close # Never
  <2>1. close \in Nat
    BY <1>3, <1>6, PlacedBefore
  <2> HIDE DEF close
  <2> QED BY <2>1 DEF Never
<1> HIDE DEF close, placed
<1> QED BY <1>1, <1>2, <1>4, <1>5, <1>6

\* Every plan keeps to open windows, delays and the allowance of a day.
LEMMA PlanIsKept ==
    ASSUME NEW s \in CampaignSettings, OpensByTheClock(s), ClosesByTheClock(s),
           NEW from \in Nat, NEW count \in Nat, NEW gap \in Nat
    PROVE  PlanKept(s, gap, buildSchedule(s, from, count, gap))
<1>1. PICK p : /\ buildSchedule(s, from, count, gap) = p[count].plan
               /\ p[0] = FirstPlan(s, from)
               /\ \A i \in 1 .. count : p[i] = Place(s, p[i - 1], gap)
  BY PlansGoThrough
<1>2. PlanInv(s, gap, p[0])
  <2> DEFINE first == nextWindowOpen(s, from)
  <2>1. /\ first = Never \/ (first # Never /\ first \in Nat /\ isWithinOperatingWindow(s, first))
        /\ s.dailyLimit \in Nat /\ <<>> \in Seq(Nat) /\ Never \in Int /\ Len(<<>>) = 0
    BY NextOpening DEF CampaignSettings, Never
  <2>2. p[0] = [cursor |-> first, left |-> s.dailyLimit, plan |-> <<>>, done |-> first = Never]
    BY <1>1 DEF FirstPlan
  <2> HIDE DEF first
  <2>3. PlanShape(p[0])
    BY <1>1, FirstShape
  <2>4. PlanKept(s, gap, <<>>)
    BY <2>1 DEF PlanKept
  <2>5. ~p[0].done => CursorKept(s, gap, p[0])
    <3>0. ASSUME first = Never PROVE p[0].done
      <4>1. p[0] = [cursor |-> Never, left |-> s.dailyLimit, plan |-> <<>>, done |-> TRUE]
        BY <2>2, <3>0
      <4> QED BY <4>1
    <3>1. /\ p[0].cursor = first /\ p[0].left = s.dailyLimit /\ p[0].plan = <<>>
      BY <2>2
    <3>2. 1 .. Len(<<>>) = {}
      BY <2>1
    <3> QED BY <2>1, <3>0, <3>1, <3>2 DEF CursorKept
  <2>6. p[0].plan = <<>>
    BY <2>2
  <2> QED BY <2>3, <2>4, <2>5, <2>6 DEF PlanInv
<1> DEFINE Broken == {i \in 0 .. count : ~PlanInv(s, gap, p[i])}
<1>3. Broken = {}
  <2> SUFFICES ASSUME Broken # {} PROVE FALSE
    OBVIOUS
  <2> DEFINE i == Min(Broken)
  <2>1. i \in Broken /\ \A j \in Broken : i <= j
    <3>1. Broken \in SUBSET Nat
      OBVIOUS
    <3> HIDE DEF Broken
    <3> QED BY <3>1, LeastNumber
  <2> HIDE DEF i
  <2>2. i \in 1 .. count /\ ~PlanInv(s, gap, p[i])
    BY <1>2, <2>1
  <2>3. PlanInv(s, gap, p[i - 1])
    BY <2>1, <2>2
  <2> QED BY <1>1, <2>2, <2>3, KeptPlace
<1>4. PlanInv(s, gap, p[count])
  BY <1>3
<1> QED BY <1>1, <1>4 DEF PlanInv

\* Rows come to wait for the first time only when the queue of their campaign is generated.
LEMMA OnlyGenerated ==
    ASSUME TypesInv, [Next]_vars, NEW c \in Campaigns, NEW j \in Planned(c)
    PROVE  GenerateQueue(c)
<1>1. /\ j \in Jobs /\ JobCampaign[j] = c /\ job[j].status = "ABSENT" /\ job'[j].status = "WAITING"
      /\ job'[j] # job[j]
  BY DEF Planned
<1>2. /\ job \in [Jobs -> Rows]
      /\ \A w \in Workers : \A k \in worker[w].job : job[k].status = "PROCESSING"
  BY DEF TypesInv, RowsOK, HandsOK
<1>3. ASSUME NEW d \in Campaigns, GenerateQueue(d) PROVE d = c
  <2> DEFINE fresh == {k \in Jobs : JobCampaign[k] = d /\ job[k].status = "ABSENT"}
  <2>1. j \notin fresh => job'[j] = job[j]
    BY <1>1, <1>3 DEF GenerateQueue
  <2> QED BY <1>1, <2>1
<1>4. ~BurstWrite
  <2>1. BurstWrite => \A k \in Jobs : job'[k].status = job[k].status
    BY BurstRows
  <2> QED BY <1>1, <2>1
<1>5. ASSUME NEW k \in Jobs, Expedite(k) \/ ReapJob(k) PROVE FALSE
  <2>1. \A i \in Jobs : i # k => job'[i] = job[i]
    BY <1>2, <1>5 DEF Expedite, ReapJob
  <2>2. job[k].status # "ABSENT"
    BY <1>5 DEF Expedite, ReapJob
  <2> QED BY <1>1, <2>1, <2>2
<1>6. ASSUME NEW w \in Workers, Evaluate(w) \/ ClaimRollback(w) \/ ReportLost(w) PROVE FALSE
  BY <1>1, <1>6 DEF Evaluate, ClaimRollback, ReportLost
<1>7. ASSUME NEW w \in Workers, Claim(w) PROVE FALSE
  <2>1. PICK k \in Heads(Due(w)) :
             job' = [job EXCEPT ![k].status = "PROCESSING", ![k].attempts = @ + 1]
    BY <1>7 DEF Claim
  <2>2. k \in Jobs /\ job[k].status = "WAITING"
    BY DEF Heads, Due
  <2>3. \A i \in Jobs : i # k => job'[i] = job[i]
    BY <1>2, <2>1
  <2> QED BY <1>1, <2>2, <2>3
<1>8. ASSUME NEW w \in Workers, Report(w) PROVE FALSE
  <2>1. PICK k \in worker[w].job : \E row \in Reported(job[k]) : job' = [job EXCEPT ![k] = row]
    BY <1>8 DEF Report
  <2>2. job[k].status = "PROCESSING" /\ \A i \in Jobs : i # k => job'[i] = job[i]
    BY <1>2, <2>1
  <2> QED BY <1>1, <2>2
<1>9. ASSUME NEW d \in Campaigns, NEW b \in Bursts, BurstRead(d, b[1], b[2]) PROVE FALSE
  BY <1>1, <1>9 DEF BurstRead
<1>10. ~SetReviewOnly /\ ~Tick /\ ~UNCHANGED vars
  BY <1>1 DEF SetReviewOnly, Tick, vars
<1> QED BY <1>3, <1>4, <1>5, <1>6, <1>7, <1>8, <1>9, <1>10 DEF Next

\* Each generated row has a place of its own in the plan.
LEMMA GeneratedPlan ==
    ASSUME TypesInv, NEW c \in Campaigns, GenerateQueue(c)
    PROVE  \E gap \in settings[c].delays, count \in Nat :
             LET plan == buildSchedule(settings[c], now, count, gap)
             IN \E place \in [Planned(c) -> 1 .. Len(plan)] :
                  /\ \A j \in Planned(c) : job'[j].due = plan[place[j]]
                  /\ \A j, k \in Planned(c) : place[j] = place[k] => j = k
<1> DEFINE fresh == {j \in Jobs : JobCampaign[j] = c /\ job[j].status = "ABSENT"}
           order == SetToSeq(fresh)
           slot(j) == CHOOSE i \in 1 .. Len(order) : order[i] = j
<1>1. PICK gap \in settings[c].delays :
        LET plan == buildSchedule(settings[c], now, Len(order), gap)
        IN job' = [j \in Jobs |-> IF j \in fresh /\ slot(j) <= Len(plan)
                                    THEN [job[j] EXCEPT !.status = "WAITING", !.due = plan[slot(j)]]
                                    ELSE job[j]]
  BY DEF GenerateQueue
<1> DEFINE plan == buildSchedule(settings[c], now, Len(order), gap)
<1>2. IsFiniteSet(fresh)
  <2>1. fresh \in SUBSET Jobs
    OBVIOUS
  <2> QED BY <2>1, BudgetAssumption, FS_Subset
<1>3. Len(order) \in Nat /\ \A j \in fresh : \E i \in 1 .. Len(order) : order[i] = j
  <2> HIDE DEF fresh
  <2> QED BY <1>2, OrderOf
<1>4. plan \in Seq(Nat)
  <2>1. settings[c] \in CampaignSettings /\ now \in Nat
    BY BudgetAssumption DEF TypesInv, LogShape
  <2>2. gap \in Nat
    BY <2>1 DEF CampaignSettings
  <2> HIDE DEF order
  <2> QED BY <1>3, <2>1, <2>2, PlanIsOfInstants
<1>5. \A j \in fresh : slot(j) \in 1 .. Len(order) /\ order[slot(j)] = j
  <2> SUFFICES ASSUME NEW j \in fresh PROVE slot(j) \in 1 .. Len(order) /\ order[slot(j)] = j
    OBVIOUS
  <2>1. \E i \in 1 .. Len(order) : order[i] = j
    BY <1>3
  <2> HIDE DEF order, fresh
  <2> QED BY <2>1
<1>6. job' = [j \in Jobs |-> IF j \in fresh /\ slot(j) <= Len(plan)
                               THEN [job[j] EXCEPT !.status = "WAITING", !.due = plan[slot(j)]]
                               ELSE job[j]]
  BY <1>1
<1>7. job \in [Jobs -> Rows]
  BY DEF TypesInv, RowsOK
<1>8. \A j \in Planned(c) : j \in fresh /\ job'[j] # job[j] /\ j \in Jobs
  BY DEF Planned
<1> HIDE DEF plan, slot, order, fresh
<1>9. ASSUME NEW j \in Planned(c)
      PROVE  slot(j) \in 1 .. Len(plan) /\ job'[j].due = plan[slot(j)] /\ order[slot(j)] = j
  <2>1. j \in fresh /\ j \in Jobs /\ slot(j) <= Len(plan)
    BY <1>6, <1>8
  <2>2. job'[j] = [job[j] EXCEPT !.status = "WAITING", !.due = plan[slot(j)]]
    BY <1>6, <2>1
  <2>3. slot(j) \in 1 .. Len(plan) /\ order[slot(j)] = j
    BY <1>3, <1>4, <1>5, <2>1
  <2>4. job'[j].due = plan[slot(j)]
    <3> DEFINE t == plan[slot(j)]
    <3>1. job[j] \in Rows /\ job'[j] = [job[j] EXCEPT !.status = "WAITING", !.due = t]
      BY <1>7, <2>1, <2>2
    <3> HIDE DEF t
    <3>2. job'[j].due = t
      BY <3>1 DEF Rows
    <3> QED BY <3>2 DEF t
  <2> QED BY <2>3, <2>4
<1> DEFINE place == [j \in Planned(c) |-> slot(j)]
<1>10. place \in [Planned(c) -> 1 .. Len(plan)]
  BY <1>9
<1>11. \A j \in Planned(c) : job'[j].due = plan[place[j]]
  BY <1>9
<1>12. \A j, k \in Planned(c) : place[j] = place[k] => j = k
  BY <1>9
<1> HIDE DEF place
<1>13. \E p \in [Planned(c) -> 1 .. Len(plan)] :
          /\ \A j \in Planned(c) : job'[j].due = plan[p[j]]
          /\ \A j, k \in Planned(c) : p[j] = p[k] => j = k
  BY <1>10, <1>11, <1>12
<1> QED BY <1>3, <1>13 DEF plan

\* No more rows have places on a day than the day allows.
LEMMA DayAllowance ==
    ASSUME NEW L \in Nat \ {0}, NEW n \in Nat, NEW P, NEW place \in [P -> 1 .. n],
           \A j, k \in P : place[j] = place[k] => j = k,
           NEW S \in SUBSET P,
           \A j, k \in S : ~(place[j] + L <= place[k])
    PROVE  Cardinality(S) <= L
<1>1. CASE S = {}
  BY <1>1, FS_EmptySet
<1>2. CASE S # {}
  <2> DEFINE Places == {place[j] : j \in S}
             m == Min(Places)
  <2>1. Places \in SUBSET Nat /\ Places # {}
    BY <1>2
  <2>2. m \in Places /\ \A x \in Places : m <= x
    <3> HIDE DEF Places
    <3> QED BY <2>1, LeastNumber
  <2> HIDE DEF m
  <2>3. PICK j \in S : m = place[j]
    BY <2>2
  <2>4. m \in Nat /\ \A k \in S : place[k] \in m .. m + L - 1
    <3>1. m \in Nat
      BY <2>1, <2>2
    <3> SUFFICES ASSUME NEW k \in S PROVE place[k] \in m .. m + L - 1
      BY <3>1
    <3>2. place[k] \in Nat /\ m <= place[k] /\ ~(m + L <= place[k])
      BY <2>2, <2>3
    <3> QED BY <3>1, <3>2
  <2> DEFINE T == m .. m + L - 1
             f == [k \in S |-> place[k]]
  <2>5. IsFiniteSet(T) /\ Cardinality(T) = L
    <3>1. m \in Int /\ m + L - 1 \in Int /\ m <= m + L - 1 /\ (m + L - 1) - m + 1 = L
      BY <2>4
    <3> DEFINE b == m + L - 1
    <3>2. m \in Int /\ b \in Int /\ ~(m > b) /\ b - m + 1 = L
      BY <3>1
    <3> HIDE DEF b, T
    <3>3. IsFiniteSet(m .. b) /\ Cardinality(m .. b) = IF m > b THEN 0 ELSE b - m + 1
      BY <3>2, FS_Interval
    <3> QED BY <3>2, <3>3 DEF b, T
  <2>6. f \in Injection(S, T)
    <3>1. f \in [S -> T]
      BY <2>4
    <3>2. \A a, b \in S : f[a] = f[b] => a = b
      OBVIOUS
    <3> HIDE DEF f, T
    <3> QED BY <3>1, <3>2, Fun_IsInj
  <2> HIDE DEF f, T
  <2>7. Cardinality(S) <= Cardinality(T)
    BY <2>5, <2>6, FS_Injection
  <2> QED BY <2>5, <2>7
<1> QED BY <1>1, <1>2

\* Where no window opens after the clocks have changed that day nor closes after they have gone
\* forward, every job is planned for an open window, apart from the others of that window by
\* the delay at least, and a day of a window by day has no more than its limit (buildSchedule).
THEOREM PlansKeepLimits ==
    ASSUME \A st \in Settings : \A c \in Campaigns :
              OpensByTheClock(st[c]) /\ ClosesByTheClock(st[c])
    PROVE  Spec => PlanKeepsLimits
<1> DEFINE Kept(c) ==
      LET s == settings[c]
      IN /\ \A j \in Planned(c) : isWithinOperatingWindow(s, job'[j].due)
         /\ \A j, k \in Planned(c) :
              /\ j # k
              /\ job'[j].due <= job'[k].due
              /\ job'[k].due < currentWindowClose(s, job'[j].due)
              => job'[k].due - job'[j].due >= Min(s.delays)
         /\ ~isOvernightWindow(s) => \A j \in Planned(c) :
              Cardinality({k \in Planned(c) : LocalDay(s.zone, job'[k].due)
                                                = LocalDay(s.zone, job'[j].due)})
                <= s.dailyLimit
<1>1. ASSUME TypesInv, NEW c \in Campaigns, GenerateQueue(c)
      PROVE  Kept(c)
  <2> DEFINE s == settings[c]
  <2>1. s \in CampaignSettings /\ OpensByTheClock(s) /\ ClosesByTheClock(s) /\ now \in Nat
    <3>1. settings \in Settings /\ now \in Nat
      BY <1>1 DEF TypesInv, LogShape
    <3> QED BY <3>1, BudgetAssumption
  <2>2. PICK gap \in s.delays, count \in Nat :
          LET plan == buildSchedule(s, now, count, gap)
          IN \E place \in [Planned(c) -> 1 .. Len(plan)] :
               /\ \A j \in Planned(c) : job'[j].due = plan[place[j]]
               /\ \A j, k \in Planned(c) : place[j] = place[k] => j = k
    BY <1>1, GeneratedPlan
  <2> DEFINE plan == buildSchedule(s, now, count, gap)
  <2>3. PICK place \in [Planned(c) -> 1 .. Len(plan)] :
               /\ \A j \in Planned(c) : job'[j].due = plan[place[j]]
               /\ \A j, k \in Planned(c) : place[j] = place[k] => j = k
    BY <2>2
  <2>4. s.delays \in SUBSET Nat /\ gap \in Nat /\ s.dailyLimit \in Nat \ {0} /\ s.zone \in Nat
    BY <2>1 DEF CampaignSettings
  <2> HIDE DEF s
  <2>5. PlanKept(s, gap, plan)
    BY <2>1, <2>4, PlanIsKept
  <2>6. Min(s.delays) \in Nat /\ Min(s.delays) <= gap
    <3>1. Min(s.delays) \in s.delays /\ \A d \in s.delays : Min(s.delays) <= d
      BY <2>2, <2>4, LeastNumber
    <3> QED BY <2>2, <2>4, <3>1
  <2> HIDE DEF plan
  <2>7. plan \in Seq(Nat) /\ Len(plan) \in Nat
    BY <2>5 DEF PlanKept
  <2>8. \A j \in Planned(c) :
          /\ place[j] \in 1 .. Len(plan) /\ plan[place[j]] \in Nat /\ job'[j].due = plan[place[j]]
          /\ isWithinOperatingWindow(s, plan[place[j]])
          /\ plan[place[j]] < currentWindowClose(s, plan[place[j]])
    BY <2>3, <2>5, <2>7 DEF PlanKept
  <2>9. ASSUME NEW j \in Planned(c), NEW k \in Planned(c), j # k,
               job'[j].due <= job'[k].due, job'[k].due < currentWindowClose(s, job'[j].due)
        PROVE  job'[k].due - job'[j].due >= Min(s.delays)
    <3> DEFINE x == plan[place[j]]
               y == plan[place[k]]
               m == Min(s.delays)
    <3>1. /\ x \in Nat /\ y \in Nat /\ x <= y /\ y < currentWindowClose(s, x)
          /\ y < currentWindowClose(s, y) /\ job'[j].due = x /\ job'[k].due = y
          /\ place[j] \in 1 .. Len(plan) /\ place[k] \in 1 .. Len(plan)
      BY <2>8, <2>9
    <3>2. currentWindowClose(s, x) \in Nat /\ currentWindowClose(s, y) \in Nat
      <4>1. isWithinOperatingWindow(s, x) /\ isWithinOperatingWindow(s, y)
        BY <2>8
      <4> HIDE DEF x, y
      <4> QED BY <2>1, <3>1, <4>1, WindowCloses
    <3>3. place[j] < place[k] \/ place[k] < place[j]
      <4>1. place[j] # place[k]
        BY <2>3, <2>9
      <4> QED BY <2>7, <3>1, <4>1
    <3>4. CASE place[j] < place[k]
      <4>1. After(s, gap, x, y)
        BY <2>5, <3>1, <3>4 DEF PlanKept
      <4> HIDE DEF x, y, m
      <4>2. x + gap <= y
        BY <3>1, <3>2, <4>1 DEF After
      <4>3. m \in Nat /\ m <= gap
        BY <2>6 DEF m
      <4>4. y - x >= m
        BY <2>4, <3>1, <4>2, <4>3
      <4> QED BY <3>1, <4>4 DEF m
    <3>5. CASE place[k] < place[j]
      <4>1. After(s, gap, y, x)
        BY <2>5, <3>1, <3>5 DEF PlanKept
      <4> HIDE DEF x, y, m
      <4>2. y + gap <= x
        BY <3>1, <3>2, <4>1 DEF After
      <4>3. m \in Nat /\ m <= gap
        BY <2>6 DEF m
      <4>4. y - x >= m
        BY <2>4, <3>1, <4>2, <4>3
      <4> QED BY <3>1, <4>4 DEF m
    <3> QED BY <3>3, <3>4, <3>5
  <2>10. ASSUME ~isOvernightWindow(s), NEW j \in Planned(c)
         PROVE  Cardinality({k \in Planned(c) : LocalDay(s.zone, job'[k].due)
                                                  = LocalDay(s.zone, job'[j].due)})
                  <= s.dailyLimit
    <3> DEFINE S == {k \in Planned(c) : LocalDay(s.zone, job'[k].due)
                                          = LocalDay(s.zone, job'[j].due)}
               day == LocalDay(s.zone, job'[j].due)
    <3>1. day \in Nat
      <4>1. job'[j].due \in Nat
        BY <2>8
      <4> QED BY <2>4, <4>1, OnTheClock
    <3>2. \A k \in S : k \in Planned(c) /\ LocalDay(s.zone, plan[place[k]]) = day
      BY <2>8
    <3>3. S \in SUBSET Planned(c)
      OBVIOUS
    <3> HIDE DEF S, day
    <3>4. ASSUME NEW a \in S, NEW b \in S, place[a] + s.dailyLimit <= place[b]
          PROVE  FALSE
      <4>1. place[a] \in 1 .. Len(plan) /\ place[b] \in 1 .. Len(plan)
        BY <2>8, <3>2
      <4>2. LocalDay(s.zone, plan[place[a]]) < LocalDay(s.zone, plan[place[b]])
        BY <2>5, <2>10, <3>4, <4>1 DEF PlanKept
      <4> QED BY <3>1, <3>2, <4>2
    <3>5. Cardinality(S) <= s.dailyLimit
      BY <2>3, <2>4, <2>7, <3>3, <3>4, DayAllowance
    <3> QED BY <3>5 DEF S
  <2>11. \A j \in Planned(c) : isWithinOperatingWindow(s, job'[j].due)
    BY <2>8
  <2> QED BY <2>9, <2>10, <2>11 DEF s
<1>2. ASSUME TypesInv, [Next]_vars
      PROVE  \A c \in Campaigns : Kept(c)
  <2> SUFFICES ASSUME NEW c \in Campaigns PROVE Kept(c)
    OBVIOUS
  <2>1. CASE Planned(c) = {}
    BY <2>1
  <2>2. CASE Planned(c) # {}
    BY <1>1, <1>2, <2>2, OnlyGenerated
  <2> QED BY <2>1, <2>2
<1>3. TypesInv /\ [Next]_vars => [\A c \in Campaigns : Kept(c)]_vars
  BY <1>2
<1> QED BY <1>3, TypesInvariant, PTL DEF Spec, PlanKeepsLimits
=============================================================================
