-------------------------- MODULE MCSendingBudget --------------------------
EXTENDS SendingBudget

CONSTANTS c1, c2, j1, j2, w1

MCJobCampaign == (j1 :> c1) @@ (j2 :> c1)

Setting(zone, start, end, days, limit, delays) ==
    [zone |-> zone, windowStart |-> start, windowEnd |-> end, days |-> days,
     dailyLimit |-> limit, delays |-> delays]

Both(s) == [c \in {c1, c2} |-> s]

\* A window by day on two days, a window through the night on one, always open;
\* clocks an hour ahead.
ByDay == Setting(1, 1, 3, {0, 1}, 1, {1})
ByNight == Setting(1, 3, 1, {0}, 2, {1, 3})
Always == Setting(1, 0, 4, {0, 1, 2}, 1, {2})

MCSettings == {Both(ByDay), Both(ByNight), Both(Always)}

\* A window that opens after the hour at which clocks are changed.
LateWindow == {Both(Setting(0, 2, 4, {0, 1, 2}, 1, {1}))}

MCBursts == {<<2, 1>>}
=============================================================================
