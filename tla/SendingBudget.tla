---------------------------- MODULE SendingBudget ----------------------------
(***************************************************************************)
(* What a worker may send, and when: the schedule of a campaign's jobs,    *)
(* the daily limits counted in the append-only log, bursts and expedited   *)
(* jobs, and the switch that forbids a business to send (src/lib/queue.ts, *)
(* src/lib/activity.ts).  The gate, the tokens and the statuses of leads   *)
(* are in OutreachQueue; time, which is left out there, is here.           *)
(***************************************************************************)
EXTENDS Schedule, TLC

CONSTANTS Campaigns, Jobs, Workers,
          JobCampaign,        \* [Jobs -> Campaigns]
          Settings,           \* what the operators may have chosen: functions of the campaigns
          GlobalDailyLimit,   \* GLOBAL_DAILY_ACTION_LIMIT
          MaxAttempts,
          Backoff,            \* hours until a failed job is tried again
          BurstSlack,         \* hours by which a burst outlives its window
          Bursts,             \* the bursts asked for: <<count, hours>>
          EarlierToday,       \* what campaigns without jobs may have logged at the start
          Horizon,            \* bound: the last instant of the model
          Faults              \* what goes wrong: LOST_REPORT

\* What the forms and the table let an operator choose for a campaign; instants are
\* counted from where no zone is behind.
CampaignSettings ==
    [zone : Nat, windowStart : 0 .. HoursPerDay, windowEnd : 0 .. HoursPerDay,
     days : SUBSET Nat, dailyLimit : Nat \ {0}, delays : SUBSET Nat]

ASSUME BudgetAssumption ==
    /\ IsFiniteSet(Campaigns) /\ IsFiniteSet(Jobs) /\ JobCampaign \in [Jobs -> Campaigns]
    /\ Settings \subseteq [Campaigns -> CampaignSettings]
    /\ GlobalDailyLimit \in Nat /\ MaxAttempts \in Nat \ {0} /\ Horizon \in Nat
    /\ Bursts \subseteq (Nat \ {0}) \X Nat
    /\ EarlierToday \subseteq Nat
    /\ Backoff \in Nat \ {0} /\ BurstSlack \in Nat

VARIABLES now,
          settings,  \* [Campaigns -> Settings]
          enabled,   \* outreachEnabled of the campaigns' business
          burst,     \* [Campaigns -> burstUntil]
          job,       \* the queue rows: status, due (scheduledFor), priority, attempts
          log,       \* the outreach actions logged: campaign, instant, and a number
          worker,    \* what each worker's claim has read, and the job it is at
          request    \* a burst whose jobs have been chosen

vars == <<now, settings, enabled, burst, job, log, worker, request>>

Time == 0 .. Horizon
EXPEDITED == 0      \* priority -100
BURST == 1          \* priority 0
STANDING == 2       \* priority 100, the default

Idle == [phase |-> "IDLE", at |-> 0, eligible |-> {}, job |-> {}]
NoRequest == [campaign |-> {}, jobs |-> <<>>, at |-> 0, hours |-> 0]

BudgetTypeOK ==
    /\ now \in Time
    /\ settings \in Settings
    /\ enabled \in BOOLEAN
    /\ burst \in [Campaigns -> Int]
    /\ job \in [Jobs -> [status : {"ABSENT", "WAITING", "PROCESSING", "DONE"}, due : Nat,
                         priority : {EXPEDITED, BURST, STANDING}, attempts : 0 .. MaxAttempts]]
    /\ log \subseteq Campaigns \X Time \X Nat
    /\ \A w \in Workers :
         /\ worker[w].phase \in {"IDLE", "EVALUATED", "WORKING"}
         /\ worker[w].at <= now
         /\ worker[w].eligible \subseteq Campaigns
         /\ worker[w].phase = "WORKING" <=> worker[w].job # {}
         /\ worker[w].job \subseteq {j \in Jobs : job[j].status = "PROCESSING"}
    /\ request.campaign \subseteq Campaigns
    /\ request.jobs \in Seq(Jobs)

Init ==
    /\ now = 0
    /\ settings \in Settings
    /\ enabled = TRUE
    /\ burst = [c \in Campaigns |-> Never]
    /\ job = [j \in Jobs |-> [status |-> "ABSENT", due |-> 0, priority |-> STANDING,
                              attempts |-> 0]]
    /\ \E n \in EarlierToday :
         log = {c \in Campaigns : \A j \in Jobs : JobCampaign[j] # c} \X {0} \X (1 .. n)
    /\ worker = [w \in Workers |-> Idle]
    /\ request = NoRequest

-----------------------------------------------------------------------------
(* Counting: the limits look at the log, never at rows that can change.    *)

Total(rows, campaigns, day) ==
    Cardinality({r \in rows : r[1] \in campaigns /\ day.start <= r[2] /\ r[2] < day.end})

OneMore(rows, c) ==
    rows \cup {<<c, now, 1 + Cardinality({r \in rows : r[1] = c /\ r[2] = now})>>}

countOutreachActions(campaigns, day) == Total(log, campaigns, day)

Today(c, at) == localDayBounds(settings[c].zone, at)

CampaignRemaining(c, at) == settings[c].dailyLimit - countOutreachActions({c}, Today(c, at))

GlobalRemaining(c, at) == GlobalDailyLimit - countOutreachActions(Campaigns, Today(c, at))

Waiting(c) == {j \in Jobs : JobCampaign[j] = c /\ job[j].status = "WAITING"}

\* ORDER BY priority, scheduledFor; what was created first among equals is any.
Before(j, k) ==
    \/ job[j].priority < job[k].priority
    \/ job[j].priority = job[k].priority /\ job[j].due < job[k].due

Heads(S) == {j \in S : \A k \in S : ~Before(k, j)}

-----------------------------------------------------------------------------
(* What fills the queue and reorders it. *)

\* generateQueueForCampaign: the delay between two jobs is the operator's choice.
GenerateQueue(c) ==
    LET fresh == {j \in Jobs : JobCampaign[j] = c /\ job[j].status = "ABSENT"}
        order == SetToSeq(fresh)
    IN /\ fresh # {}
       /\ \E gap \in settings[c].delays :
            LET plan == buildSchedule(settings[c], now, Len(order), gap)
                slot(j) == CHOOSE i \in 1 .. Len(order) : order[i] = j
            IN job' = [j \in Jobs |->
                         IF j \in fresh /\ slot(j) <= Len(plan)
                           THEN [job[j] EXCEPT !.status = "WAITING", !.due = plan[slot(j)]]
                           ELSE job[j]]
       /\ job' # job
       /\ UNCHANGED <<now, settings, enabled, burst, log, worker, request>>

\* scheduleBurst counts, trims and picks the jobs, and writes them later.
BurstRead(c, count, hours) ==
    LET allowed == Min({count, CampaignRemaining(c, now), GlobalRemaining(c, now),
                        Cardinality(Waiting(c))})
    IN /\ request = NoRequest
       /\ burst[c] = Never  \* bound: once is enough
       /\ allowed > 0
       /\ \E jobs \in {s \in [1 .. allowed -> Waiting(c)] : IsInjective(s)} :
            /\ \A i \in 1 .. allowed :
                 jobs[i] \in Heads(Waiting(c) \ {jobs[k] : k \in 1 .. i - 1})
            /\ request' = [campaign |-> {c}, jobs |-> jobs, at |-> now, hours |-> hours]
       /\ UNCHANGED <<now, settings, enabled, burst, job, log, worker>>

\* Even spacing; the seconds of its floor and of its start are below the model's hour.
BurstTime(i) == request.at + ((i - 1) * request.hours) \div Len(request.jobs)

BurstWrite ==
    /\ request # NoRequest
    /\ job' = [j \in Jobs |->
                 IF j \in ToSet(request.jobs)
                   THEN [job[j] EXCEPT !.priority = BURST,
                           !.due = BurstTime(CHOOSE i \in DOMAIN request.jobs : request.jobs[i] = j)]
                   ELSE job[j]]
    /\ burst' = [c \in Campaigns |-> IF c \in request.campaign
                                       THEN request.at + request.hours + BurstSlack ELSE burst[c]]
    /\ request' = NoRequest
    /\ UNCHANGED <<now, settings, enabled, log, worker>>

\* expediteQueueJob read the status before; the row may have been claimed since.
Expedite(j) ==
    /\ job[j].status \in {"WAITING", "PROCESSING"}
    /\ job[j].priority # EXPEDITED  \* bound: once is enough
    /\ job' = [job EXCEPT ![j].priority = EXPEDITED, ![j].due = now]
    /\ UNCHANGED <<now, settings, enabled, burst, log, worker, request>>

\* The business is set to finding and review only; no code sets it back.
SetReviewOnly ==
    /\ enabled
    /\ enabled' = FALSE
    /\ UNCHANGED <<now, settings, burst, job, log, worker, request>>

-----------------------------------------------------------------------------
(* claimNextJob: which campaigns are eligible is read first, with the time; *)
(* the claim uses that time and counts again in its transaction.            *)

Eligibility(c) ==
    IF ~enabled THEN "OUTREACH_DISABLED"
    ELSE evaluateEligibility(settings[c], now,
           countOutreachActions({c}, Today(c, now)),
           countOutreachActions(Campaigns, Today(c, now)), GlobalDailyLimit,
           IF Waiting(c) = {} THEN Never ELSE job[CHOOSE j \in Heads(Waiting(c)) : TRUE].due,
           burst[c])

EligibleCampaigns == {c \in Campaigns : Eligibility(c) = "ELIGIBLE" /\ Waiting(c) # {}}

Evaluate(w) ==
    /\ worker[w].phase = "IDLE"
    /\ EligibleCampaigns # {}
    /\ worker' = [worker EXCEPT ![w] = [phase |-> "EVALUATED", at |-> now,
                                        eligible |-> EligibleCampaigns, job |-> {}]]
    /\ UNCHANGED <<now, settings, enabled, burst, job, log, request>>

Due(w) == {j \in Jobs : /\ job[j].status = "WAITING"
                        /\ job[j].due <= worker[w].at
                        /\ JobCampaign[j] \in worker[w].eligible}

\* (Mutant: what was read before the transaction is believed.)
AsEvaluated(c, at) == TRUE

\* The re-checks of the transaction, which roll the claim back.
StillAllowed(c, at) ==
    /\ enabled
    /\ CampaignRemaining(c, at) > 0
    /\ GlobalRemaining(c, at) > 0

Claim(w) ==
    /\ worker[w].phase = "EVALUATED"
    /\ \E j \in Heads(Due(w)) :
         /\ StillAllowed(JobCampaign[j], worker[w].at)
         /\ job' = [job EXCEPT ![j].status = "PROCESSING", ![j].attempts = @ + 1]
         /\ worker' = [worker EXCEPT ![w] = [phase |-> "WORKING", at |-> 0, eligible |-> {},
                                             job |-> {j}]]
    /\ UNCHANGED <<now, settings, enabled, burst, log, request>>

ClaimRollback(w) ==
    /\ worker[w].phase = "EVALUATED"
    /\ \A j \in Heads(Due(w)) : ~StillAllowed(JobCampaign[j], worker[w].at)
    /\ worker' = [worker EXCEPT ![w] = Idle]
    /\ UNCHANGED <<now, settings, enabled, burst, job, log, request>>

-----------------------------------------------------------------------------
(* What is logged of a visit; the visit itself is in ProfileVisit. *)

\* No schedule is kept of a row that is done with: nothing reads it.
Settled(row) == [row EXCEPT !.status = "DONE", !.due = 0, !.priority = STANDING]

\* (Mutant: one attempt too many.)
ReportedOffByOne(row) ==
    {Settled(row), [row EXCEPT !.status = "WAITING", !.due = now + Backoff]}

Reported(row) ==
    {Settled(row)} \cup
    (IF row.attempts < MaxAttempts
       THEN {[row EXCEPT !.status = "WAITING", !.due = now + Backoff]} ELSE {})

\* completeJob and failJob: either logs one outreach action, visited or not.
Report(w) ==
    /\ worker[w].phase = "WORKING"
    /\ \E j \in worker[w].job :
         /\ \E row \in Reported(job[j]) : job' = [job EXCEPT ![j] = row]
         /\ log' = OneMore(log, JobCampaign[j])
    /\ worker' = [worker EXCEPT ![w] = Idle]
    /\ UNCHANGED <<now, settings, enabled, burst, request>>

\* The report never gets through, or the process dies.
ReportLost(w) ==
    /\ "LOST_REPORT" \in Faults
    /\ worker[w].phase = "WORKING"
    /\ worker' = [worker EXCEPT ![w] = Idle]
    /\ UNCHANGED <<now, settings, enabled, burst, job, log, request>>

\* reapExpiredClaims, which logs no outreach action.
ReapJob(j) ==
    /\ job[j].status = "PROCESSING"
    /\ \A w \in Workers : j \notin worker[w].job
    /\ job' = [job EXCEPT ![j] = IF job[j].attempts >= MaxAttempts
                                   THEN Settled(job[j])
                                   ELSE [job[j] EXCEPT !.status = "WAITING", !.due = now]]
    /\ UNCHANGED <<now, settings, enabled, burst, log, worker, request>>

Tick ==
    /\ now < Horizon
    /\ now' = now + 1
    /\ UNCHANGED <<settings, enabled, burst, job, log, worker, request>>

Next ==
    \/ \E c \in Campaigns : GenerateQueue(c)
    \/ \E c \in Campaigns, b \in Bursts : BurstRead(c, b[1], b[2])
    \/ BurstWrite
    \/ \E j \in Jobs : Expedite(j) \/ ReapJob(j)
    \/ SetReviewOnly
    \/ \E w \in Workers : Evaluate(w) \/ Claim(w) \/ ClaimRollback(w)
                          \/ Report(w) \/ ReportLost(w)
    \/ Tick

Spec == Init /\ [][Next]_vars

-----------------------------------------------------------------------------

OfThisDay(rows, c) ==
    {r \in rows : LocalDay(settings[c].zone, r[2]) = LocalDay(settings[c].zone, now)}

\* However the day turns, bursts, retries and expedited jobs come, no more is
\* logged for a campaign in a day of its zone than its limit allows, and no more
\* for all campaigns together than the global one (claimNextJob, scheduleBurst).
CampaignsWithinLimit ==
    \A c \in Campaigns :
        Cardinality({r \in OfThisDay(log, c) : r[1] = c}) <= settings[c].dailyLimit

AllWithinLimit == \A c \in Campaigns : Cardinality(OfThisDay(log, c)) <= GlobalDailyLimit

RecordedWithinLimits == CampaignsWithinLimit /\ AllWithinLimit

\* From the moment a business is set to review only, nothing of it is claimed,
\* not even by a claim that had already found it eligible (claimNextJob).
DisabledClaimsNothing ==
    [][~enabled => \A j \in Jobs : job'[j].status = "PROCESSING"
                                     => job[j].status = "PROCESSING"]_vars

\* The instant given as the next opening is the first at which the window is
\* open, whatever the days, the zone and the clocks do (nextWindowOpen, "behave
\* correctly across DST boundaries").
FirstOpening(s, at) ==
    LET ahead == at .. at + (DaysPerWeek + 1) * HoursPerDay
        open == {t \in ahead : isWithinOperatingWindow(s, t)}
    IN IF open = {} THEN Never ELSE Min(open)

NextOpenIsFirst ==
    [][now' # now => \A c \in Campaigns :
         nextWindowOpen(settings[c], now') = FirstOpening(settings[c], now')]_vars

\* A generated job waits for an instant inside the window, never nearer to another
\* of the same window than the delay, and a day that has one window gets no more of them than
\* the daily limit (buildSchedule).
Planned(c) == {j \in Jobs : /\ JobCampaign[j] = c
                            /\ job[j].status = "ABSENT" /\ job'[j].status = "WAITING"}

PlanKeepsLimits ==
    [][\A c \in Campaigns :
         LET s == settings[c]
         IN /\ \A j \in Planned(c) : isWithinOperatingWindow(s, job'[j].due)
            /\ \A j, k \in Planned(c) :
                 /\ j # k
                 /\ job'[j].due <= job'[k].due
                 /\ job'[k].due < currentWindowClose(s, job'[j].due)
                 => job'[k].due - job'[j].due >= Min(s.delays)
            /\ ~isOvernightWindow(s) => \A j \in Planned(c) :
                 Cardinality({k \in Planned(c) : LocalDay(s.zone, job'[k].due)
                                                   = LocalDay(s.zone, job'[j].due)})
                   <= s.dailyLimit]_vars
=============================================================================
