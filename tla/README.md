# Verification of the outreach system

The repository is a self-hosted dashboard (Next.js, Prisma, PostgreSQL) that plans LinkedIn
connection requests for approved campaigns, and a separate browser worker that carries them out
one at a time, talking to the dashboard over HTTP. What must never happen is a second invitation
to one person, an invitation to the wrong person or with a note nobody approved, an invitation
after the operator pulled the emergency stop, or a lead that gets lost between the two processes.
This directory models the parts of the program those promises depend on, model-checks them with
TLC and proves the central ones with TLAPS.

Paths below are relative to the repository; the Next.js sources are under `src/`.

## The system

| Part | State it keeps | Operations | What makes it correct | Module |
|---|---|---|---|---|
| Outreach queue, `src/lib/queue.ts` | `queue_jobs` (status, attempts, claim token, lease, schedule), `leads.status`, `leads.invitationSentAt` | generate, claim, complete, fail, reap expired claims, clear, burst | one holder per lead, one live row per lead, no claim after an invitation, no lead left in PROCESSING, bounded attempts, daily limits | `OutreachQueue`, `SendingBudget`, abstractly `ClaimLifecycle` |
| Page-state policy, `src/lib/page-state-policy.ts` | none (a table) | look a page up | a security control is never retried | `PageStatePolicy` |
| Safety controls, `src/lib/safety.ts` | `system_state` (kill switch, active worker) | stop, clear, gate | nothing is claimed under a stop; the stop cannot be cleared over an open incident | `SafetyControls` |
| Incidents, `src/lib/incidents.ts` | `incidents` | open (deduplicate, pause, latch), resolve | an incident that latches the stop holds it | `SafetyControls` |
| Operator actions, `src/server/actions/*.ts` | none of their own | cancel, requeue, expedite, set status, create, edit, delete, import, activate, pause, resume, burst | they do not disturb a claim | `OperatorConsole`, `SendingBudget`, `LeadBook`, `ConnectionNotes` |
| Worker registry and lease, `src/lib/workers.ts` | `workers`, `system_state.activeWorkerId` | register, heartbeat, sign off, sweep | one holder of the run lease, and the lease passes on | `WorkerRegistry` |
| Worker process, `src/worker/main.ts`, `api-client.ts` | current job, abort flag, browser session | register, poll the gate, claim, visit, report, shut down | at most one real invitation per lead; a stop ends the run | `WorkerProcess`, composed in `WorkerSystem` |
| Page detection, `src/worker/page-state.ts` | none | read URL and page | a security sign wins over everything | `PageDetection` |
| Connecting, `src/worker/actions/connect.ts` | the visit | navigate, detect, click, type the note, send, verify | only the owner of the profile is invited; SENT is what was confirmed | `ProfileVisit` |
| Schedule, `src/lib/schedule.ts` | none | windows, eligibility, planning | no slot outside the window, spacing and limits kept | `Schedule` |
| Activity log, `src/lib/activity.ts` | `activity_logs` (append-only) | log, count a day's actions | the limits count what was done, in the campaign's day | `SendingBudget` |
| Import, `src/lib/csv.ts`, `src/lib/linkedin-url.ts`, `src/server/actions/leads.ts`, the wizard, `scripts/import-leads.ts` | `leads`; the tab's file, preview and selection | analyse, preview, confirm | one row per person; what was confirmed is what is written | `LeadImport`, `LeadBook` |
| Connection notes, `src/lib/template.ts`, `src/server/actions/templates.ts` | `message_templates`, `campaigns.templateId` | check, render, edit | a note that goes out is whole and is the one that was activated | `ConnectionNotes` |
| Lead discovery, `scripts/find-leads.ts`, `qualify-leads.ts`, `src/engine/discovery`, `src/lib/icp.ts` | files | collect, merge, score, rank | evidence is merged, not dropped; the worklist is ordered | `LeadFinder` |
| Authentication, statistics, alerts, pages, API routes, maintenance scripts | | | see "What is not modelled" | |

Interactions. The worker reaches the queue, the gate and the incidents only through
`src/app/api/worker/*`; the operator through server actions. All of them share one PostgreSQL
database and no memory. Almost every operator action reads a row, decides, and only then opens a
transaction that writes the row *by id*; `failJob` commits the failure in one transaction and
opens the incident in another; the reaper takes a snapshot and then walks it. These gaps, worker
processes that die or come back late, calls whose request or reply is lost, and a web page that
is whatever LinkedIn makes of it are where the hard behaviours are. `PROJECT.json` lists every
hazard found, at its line, with the properties that cover it.

## Modules

Four groups, each with its own picture of the state.

**The queue and its database.** `OutreachData` (tables, types, the two partial unique indexes of
`prisma/migrations/20260826120100_safety_constraints`), `PageStatePolicy`, `SafetyControls`,
`OutreachQueue`, `OperatorConsole`, composed in `OutreachSystem`. `OutreachProperties` states what
is checked and the fairness; `ClaimLifecycle` is the abstract promise.

* `job`, `lead`, `campaign`, `kill`, `incidents` are the tables, reduced to the columns a decision
  depends on. `worker[w]` says where a worker stands in its exchange with the API, and
  `request[o]` what a dashboard request has read and not yet acted upon.
* *Transactions.* `src/lib/prisma-factory.ts` gives the server a pool of `DATABASE_POOL_MAX`
  connections, one by default. With one connection (and one server process) a transaction runs
  alone: `SerialTx = TRUE`, and a handler's transaction is one step. With more, PostgreSQL runs
  them at READ COMMITTED: `SerialTx = FALSE` splits `completeJob`, `failJob` (`ResultRead`, then
  `CompleteWrite`/`FailWrite`) and `clearEmergencyStop` (`ClearRead`, `ClearWrite`) at the read
  their decision rests on. The other transactions remain one step there, so a violation found
  with `SerialTx = FALSE` is one of the code, and a property that holds is shown for these splits
  only.
* *Reads before a transaction* are steps of their own whatever the pool (`GenerateRead`,
  `CancelRead`, `RequeueRead`, `SetLeadRead`, `ActivateChecks`, `ActivateRead`, `ResumeRead`,
  `ResumeChecks`, `ReapScan`, `PassGate`), and anything may happen before the write.
* *Claim tokens* are random strings in the code; here the row's attempt number, which a claim
  increments and nothing resets.
* *Losses.* `Replied` lets the reply of a recorded report be lost: the worker then reports the
  same claim again. `WorkerDies` is a crash, and also a claim whose reply never arrived.
  `ResultAborted` is a transaction that never commits, `EscalationFails` an incident that is
  never opened.
* *Time* is only the lease of a claim running out. Any WAITING row may be due and a claim may
  always come back empty; the schedule is the subject of `SendingBudget`.

**The worker.** `WorkerRegistry` (rows, heartbeat freshness, the lease, the gate's lease check),
`WorkerProcess` (the program at its API calls), `WorkerSystem` (several programs, the registry and
the whole of `OutreachSystem`). A member of `Workers` is one run of the program. `proc[w].at` is
the place in `src/worker/main.ts`; `invitations` counts the invitations LinkedIn really received,
which no table knows. A lost call (`LOST_CALL`) may or may not have taken effect. What a visit
finds on the page and where it is aborted is free within what `ProfileVisit` shows of one visit:
`PageDetection` is the ordered list of rules of `detectPageState`, and `ProfileVisit` plays one
visit step by step against a LinkedIn that chooses every page, dialog and button, truthfully
about the owner's own invitation.

**Time and limits.** `Schedule` is `src/lib/schedule.ts` as operators; an instant is a number, a
local day has `HoursPerDay` hours, one more or less on the day the clocks change, and a zone is an
offset. `SendingBudget` adds the log, the limits, bursts, expedited jobs, retries and the switch
that forbids a business to send; which campaigns are eligible is read (`Evaluate`) before the
claim's transaction (`Claim`) re-counts with the time of that read.

**What goes in.** `LeadImport` is the reading of a file (header search, columns, names,
addresses, duplicates) as operators; `LeadBook` the table of leads with the wizard's tab, preview
and confirmation, the import script, leads typed and deleted, and a worker that invites meanwhile.
`LeadFinder` is what the discovery scripts make of their sources (merge, score, calibrate, rank).
`ConnectionNotes` has templates, campaigns and leads edited by several operators while the worker
claims, renders and sends; `agreed` remembers what a campaign was set running with, and `raced`
which invitations fall to an action that had read the campaign idle before it ran.

The `MC*` modules define the instances; the eight `*Proofs` modules hold the proofs.

## Runs

| Run | Checks | Shows |
|---|---|---|
| `recovery` | `TypeOK`, `OneHolderPerLead`, `NoStrandedLead`, `OneCompletedJobPerLead` | one lead with two rows, two workers, one operator (generate, reap, cancel, set status, stop, clear), split transactions: one holder, no lead left behind, one completed row |
| `console` | `OneLiveJobPerLead`, `NoClaimOnInvitedLead`, `AttemptBudget`, `LateReportChangesNothing`, `ClaimsFollowLifecycle` | generation, requeue, cancellation, activation, pause, resumption beside a second lead that keeps the campaign open: the queue implements `ClaimLifecycle` |
| `stop` | `LatchHeld`, `CompletedCampaignIdle`, `NoClaimUnderStop`, `ClaimsResolved`, `StopDrains` | CAPTCHA and login walls, stop, clear, all resolutions of incidents; progress if somebody keeps asking for the recovery sweep |
| `worker` | `SystemTypeOK`, `NoDoubleSend`, `SentMeansInvited`, `SignedOffFreesLease`, `DeadHolderReplaced`, `StopEndsRuns` | two programs over a lossy API, crashes anywhere, signals, pages that fail: nobody is invited twice, the lease passes on, a stop ends every run |
| `visit` | `VisitTypeOK`, `OnlyTheOwnerIsInvited`, `SecuritySignStopsVisit`, `SentIsConfirmed` | every combination of URL, security sign, control and dialog, strangers who offer Connect |
| `budget` | `BudgetTypeOK`, `RecordedWithinLimits`, `NextOpenIsFirst`, `DisabledClaimsNothing`, `PlanKeepsLimits` | windows by day, through the night and always open, bursts, expedited jobs, retries, lost reports |
| `import` | `BookTypeOK`, `OneRowPerPerson`, `NobodyInvitedTwice`, `ColumnsAccounted`, `ImportAsConfirmed`, `EvidenceKept`, `WorklistRanked` | two operators, a file with banner, header and two spellings of one person, a file without header, every short list of headers |
| `notes` | `NotesTypeOK`, `NoteIsWhole`, `NoteAsActivated`, `BareOnlyAsAgreed` | two operators editing one template, one campaign and one lead around a worker |

Runs that find the code doing something else than its comments say; each has an entry under
`findings` in `PROJECT.json` with the lines:

| Run | Violated | What happens |
|---|---|---|
| `stale_resume` | `ClearRestartsNothing` | a resume whose checks passed lands after the stop, and the campaign goes on when the stop is cleared |
| `safety_report_lost` | `SafetyNeverRetried` | the call that reports a CAPTCHA throws, the catch around the visit reports the job as TECHNICAL, and it is queued again |
| `false_sent` | `SentIsConfirmed` | a visible "Pending" of somebody else in the sidebar confirms an invitation that was never sent |
| `clock_change` | `NextOpenIsFirst` | on the day the clocks go back the computed opening is an hour before the window opens |

Each property of a passing run has a mutant: a definition of the model changed as a plausible bug
would change the code, marked `(Mutant: ...)` beside the original, under which TLC reports the
property violated.

What the properties are promised for, where it is less than everything:

* `AttemptBudget`: one operator, neither the reaper nor incident resolution. A second operator's
  stale requeue, a stale sweep, or a REQUEUE_LEAD resolution gives a row one attempt more.
* `LateReportChangesNothing`, `ClaimsFollowLifecycle`: serial transactions (see below).
* `NoClaimUnderStop` is run without ACTIVATE and RESUME, because of the race of `stale_resume`.
* `NoDoubleSend`: for workers whose heartbeats arrive in time. If a live worker's heartbeat is
  late (`LATE_HEARTBEAT`) or its lease is taken by force (`FORCE_TAKEOVER`) and its claim is
  reaped, two browsers can press Send for one person before either report arrives.
* `DeadHolderReplaced`, `StopEndsRuns`: see "Fairness".
* `RecordedWithinLimits` is about what the log holds. An invitation whose report is lost for good
  is not in it, so a limit can be exceeded in fact by as many reports as were lost. The global
  limit is counted over the day of the claiming campaign's zone, whereas `.env.example:78` speaks
  of "every campaign combined": with campaigns in several zones there is no one day, so an
  instance has one zone.
* `NextOpenIsFirst` holds on a day with a clock change for windows that open before the change;
  `clock_change` shows the others.
* `ImportAsConfirmed`: one file open per tab. With two, the preview of one can be shown while the
  content of the other is held (`lead-import-wizard.tsx:82`).
* `NobodyInvitedTwice` excepts those whose record was lost: a report that never arrived, or a
  deletion whose row changed between its read and its transaction (`leads.ts:449`).
* `NoteAsActivated`, `BareOnlyAsAgreed` except campaigns changed by an action that read them idle
  before they ran (`templates.ts:203`).

Observed while modelling, without a run of their own:

* `queue.ts:1216`: two overlapping sweeps; the second takes back a row that was reaped and claimed
  again, though the comment at 1193 speaks of expired leases only.
* `queue.ts:802`: with a pool larger than one, a claim can be reaped between the token guard and
  the write of its result, which then overwrites what happened since.
* `safety.ts:63`: the drain of a stop, which relies on the reaper for dead workers; nothing but an
  operator's click calls it.
* `src/server/actions/queue.ts:48`: a job claimed between the console's read and its write is
  cancelled under the worker, though the comment at 14 excludes it.
* `queue.ts:994` and `connect.ts:399`: an invitation that was clicked and not confirmed is filed
  FAILED, and can be queued again; `NoDoubleSend` holds because the next visit sees the pending
  invitation.
* `connect.ts:175-203`: Connect in the "More" menu is looked for only when the page was detected as
  offering a connection, which an item of a closed menu does not make it.
* `connect.ts:322`: a visit to a profile that sends at once reports `noteSent` by whether a note was
  wanted, not by whether one was typed.
* `queue.ts:326`: a burst's permission to run outside the window outlives its last job.
* Discovery: de-duplication is not transitive (a record that matches two others joins the first),
  `--calibrate` fails when everybody is
  disqualified, and `hacker-news.ts:263` compares the thread's root, so the replies that the comment
  above it calls conversation pass.
* `schedule.ts:304-311`: on the day the clocks go back the computed close comes an hour before the
  wall clock leaves the window. Once planning has reached it, `nextWindowOpen(close)` answers the
  close itself, every remaining iteration places nothing, and the leads that are left get no job in
  that generation.
* `schedule.ts:124-141`: on the day they go forward the computed close is an hour after the window's
  end on the wall clock, and jobs may be planned in that hour. The claim checks the window again, so
  none of them runs there; `PlansKeepLimits` needs `ClosesByTheClock` because of it.
* `schedule.ts:69`: a window from 24:00 to 0:00, which the form's schema and the CHECK constraint let
  pass, is never open, yet `nextWindowOpen` answers midnight and `buildSchedule` plans jobs there.

## Bounds

* *Queue.* Two workers are the least that race for a lead, two leads the least that share a
  campaign, two rows for one lead the least that can break the indexes. A lead with its rows used
  up gets no more. `AttemptBound` caps claims per row: two let a claim be reaped and taken again.
  `Operators` is the number of dashboard requests in flight. `Reports` and `Ops` choose what a
  run's workers and operators do, so that each run asks about one interplay; between them all
  occur.
* *Worker.* Two runs of the program on one row: one that fails and its replacement. Each program
  runs once; a crash may come at every place.
* *Visit.* Any set of signs and controls; at most one URL group beside the profile's own. The
  `visit` run has strangers who offer Connect, `false_sent` adds strangers who are pending.
* *Budget.* Days of four hours and weeks of three days, so that windows, midnight, weekdays that are
  off and a clock change all fall within a few steps; `Horizon` bounds the clock, `EarlierToday` is what
  other campaigns logged before. Each burst and expediting comes once.
* *Import.* Two people in two or three spellings, at most four columns for the lists of headers,
  `HeaderSearchRows = 3` and `ImportRows = 4` so that both limits are passed by a file. One import script runs at a time (`MostScripts`), and two invitations to one
  person (`MostInvited`) are enough to break the promise of one.
* *Notes.* A limit of three characters with values of length 0, 1 and 3: missing, fitting, too long.

Symmetry is over workers or operators, and in runs without liveness properties only. Deadlock is
not checked: with its rows used up, or under a stop nobody clears, an instance rightly comes to
rest.

## Fairness

`Fairness` (queue) assumes that time passes (`LeaseExpires`), that a worker goes on (`WorkerStep`;
dying counts as a step, so no report is assumed to arrive), and that a request that has read goes
on to write. The code schedules no reaper: `reapExpiredClaims` runs only when the operator asks
(`runRecoverySweep` in `src/server/actions/safety.ts`). `FairSpec` therefore assumes nothing about
it, and there a stop need not drain. `TendedSpec` adds an operator who keeps asking: strong
fairness, since a sweep finds something only while a lease is expired and the operator may be busy
with another request at that moment.

`SystemFairness` (worker) assumes that a running program goes on (`ProgramStep`; the event loop,
every call of `api-client.ts` has a timeout), that the control watchdog polls (`setInterval` in
`startControlWatchdog`), that the heartbeat of a program that no longer runs grows stale, and that a
replacement is started by hand again and again while it is refused, since `registerWorker` refuses
it until the old lease is stale and the program then exits. No call is assumed to get through.

## What is proved

The queue. For every set of leads, rows, workers, operators and campaigns, every attempt bound and every
choice of reports and operations, from `OutreachAssumption` alone (the shapes of the constants):

* `TypeCorrect`: `[]TypeOK`. `TypeOK` is not inductive: a failing worker's report is looked up in
  the policy table, so `TypeInv` adds which reports go with which phase (`WorkerShape`).
* `OneHolder`, `OneLiveJob`, `NoLeadStranded`, from the invariant `ClaimInv`: the token a worker
  carries is at most the attempt number of its row (`ClaimBacked`), at most one row of a lead is
  live, and a lead in PROCESSING has a claimed row. The argument: only `ClaimNextJob` makes a row
  PROCESSING, with a token larger than every token handed out for it; every other step either
  leaves a row alone or ends its claim (the predicate `Settles`), and whatever ends a claim moves
  the lead on. None of this needs serial transactions.
* `OneCompletedJob` and `CompletedIsIdle`: a row becomes COMPLETED only past the partial index, and
  a campaign only when it has no row in WAITING or PROCESSING, while a claim needs a RUNNING one.
* `NothingClaimedUnderStop`, assuming that neither ACTIVATE nor RESUME is among the operations.
  `StoppedInv` says that under the latch no campaign is RUNNING; an emergency stop pauses them all,
  and only an activation or a resumption sets one running.
* `NoSecondInvitation`, assuming `SerialTx`: no row of an invited lead is PROCESSING. `InvitedInv`
  adds to `ClaimInv` that nobody is between the guard and the write of a result. A lead is invited
  when its own live row is completed, and one row is live at a time.
* `StopStaysLatched`, assuming `SerialTx`: `LatchHeld`. `LatchInv` adds that such an incident always
  blocks, and that nobody is between the reads and the write of `clearEmergencyStop`.
* `QueueImplementsLifecycle`, assuming `SerialTx`: every behaviour of `Spec` is one of
  `ClaimLifecycle` under the mapping *held* = leads with a row in PROCESSING, *invited* = leads with
  `invitationSentAt`. Every step writes at most one claimed row (`RowWrites`); because a lead has at
  most one live row, a claim that ends frees its lead and no other, and by `InvitedInv` a lead that
  is taken is not invited.

* `LateReportsIgnored`, assuming `SerialTx`: `LateReportChangesNothing`. A report takes
  effect only while its row is PROCESSING under its token; by `InvitedInv` nobody stands between that
  guard and the write, so that a claim taken back earlier is seen by the guard.
* `ClaimsWithinBudget`, assuming `SerialTx`, one operator, and neither REAP nor RESOLVE: `AttemptBudget`.
  `Budgeted`: a row waits only with an attempt to spare, and a claim's token is the attempt it is.
  `RequeueFresh`: what the operator's requeue has read is still so when it writes. Why there is one
  operator only is said under "Runs".

The visit (`ProfileVisitProofs`), for every set of signs, controls and strangers in view:

* `VisitTypeCorrect` and `SecuritySignWins`, from `VisitInv`: the page is blank wherever a click has
  made it another one (`PageForgotten`), so a visit ends on a page only right after detection, and
  `detectPageState` asks for the security signs before anything else.
* `OwnerOnly`, from `OwnersDialog`: the open dialog belongs to the owner, because the control that is
  clicked is asked for by the owner's name.
* `SentOnlyIfConfirmed`, assuming that the sidebar has no stranger's pending invitation:
  `PageTruthful` says that the reloaded page tells the truth about the owner. The assumption cannot
  be dropped: the run `false_sent` shows what happens without it.

The notes (`ConnectionNotesProofs`), from `NotesAssumption`, for any number of templates, campaigns,
leads and operators: `NotesWhole`, `NotesAsActivated` and `BareAsAgreed`, all from `NotesInv`. A
running campaign is as agreed unless it has been raced (`AsAgreed`); what an action in flight may
change while it runs, it has read idle (`Excused`), so that its write marks the campaign as raced;
and a claim takes note and agreement in one step (`ClaimIsFaithful`), after which nothing touches
the note.

`NotesTypeCorrect` needs `WorkInv`: a lead that is held or invited waits in no queue.

The worker (`WorkerSystemProofs`), for any number of workers, from `RegistryAssumption` and
`ReportsAssumption` (worker programs send what `main.ts` sends):

* `SystemTypeCorrect`, from `SystemInv`. A program's step is a step of the queue or leaves it alone, so
  `ClaimInv` carries over: `ClaimsUnderPrograms` states one holder, one live row and no stranded lead
  again with real programs at the other end, and `ProgramsFollowLifecycle`, assuming `SerialTx`, that
  the whole system implements `ClaimLifecycle`.
* `SignedOffLease`: who has signed off or was replaced holds no lease (`SignedOffInv`: the program
  is gone and its row STOPPED; only its own calls could reopen it).
* `SentIsTrue`: an invitation in the tables was sent. `SentInv` adds the program
  about to report SENT: its lead was invited, and invitations do not become fewer (`InvitationsGrow`).
* `NoDoubleSend`, which the code owes to two mechanisms; either is enough alone.
  `LeaseKeepsSendsSingle` assumes that no heartbeat arrives late and no takeover is forced, and claims
  may be reaped at will: `AloneInv` says that a program that is running holds a fresh lease, so there
  is one, and the next visit sees the invitation of the last. `ClaimsKeepSendsSingle` assumes that
  no operation takes a claim from its worker, and the lease may pass as it likes: `ClaimedInv` says that
  a program about to press Send holds the claim of its lead. Both rest on `PressInv`: a
  program about to send has found its lead not invited, and this is still so. Without either assumption
  the property is false, as said under "Runs".

Time and limits (`SendingBudgetProofs`), from `ScheduleAssumption` and `BudgetAssumption`, for any
length of day and week, any days on which the clocks change and any number of campaigns:

* Lemmas about the calendar: local days follow each other without gap, an instant lies in one of them,
  and the wall clock shows an hour of it.
* `LimitsHeld` (`RecordedWithinLimits`) and `CampaignLimitHeld`, assuming one worker, as the run lease
  sees to, and a log that starts within the limits. The first assumes one zone, because the global
  limit is counted by the claiming campaign's day; the second does not. `BudgetInv`: nothing
  was logged since a worker looked at the clock, and the report of a job under way still has room in
  its campaign's day.
* `BudgetTypeCorrect`, for any number of workers: `TypesInv` says that two workers are never at one
  job, and that a row that waits has an attempt left.
* `NothingClaimedWhenDisabled`.
* `NextOpeningIsFirst`, assuming `OpensByTheClock`: a window opens before 24:00 and, on a day the clocks
  change, before they do. `clock_change` shows that the assumption cannot be dropped.
* `PlansKeepLimits`, assuming also `ClosesByTheClock` (a window is closed when the clocks go forward).
  The loop of `buildSchedule` is taken as a state machine with the invariant `PlanInv`: what has been
  planned lies in the window, apart by the delay, and within the limit on each day, except for windows through the night, whose
  allowance starts again at each opening (`PlanKept`); the
  cursor is an opening or a place in the window no earlier than the last job and its delay, and the
  allowance that is left counts what has been planned on its day (`CursorKept`). That it holds after every
  iteration is shown by a least counterexample, since induction is out of the prover's reach.

The lead book (`LeadBookProofs`), from `BookAssumption`, for every file and any number of operators:

* `BookTypeCorrect`, `OneRowEach` and `InvitedOnce` from `BookInv`: whatever comes into the book has the
  address `normalizeLinkedinUrl` gives, of which a person has one (`ShapeInv`), and who is not
  forgotten and was invited is in the book as invited (`InvitedInv`).
* `ImportConfirmed`: `ImportAsConfirmed`, an action property. By `RequestInv` what an import
  under way will write is of its file and as many as were confirmed.
* `NothingSightedIsLost`: `EvidenceKept`, for lists of sightings of any length, by a least
  counterexample over the merged prefix (`SeenInv`).
* `EveryColumnCounts`: `ColumnsAccounted`, for every list of headers and of fields, from
  `HeaderAssumption` too. `ColumnsInv` says that the columns in use and the columns left over are the
  headers seen (`Balanced`), each as often as it was there, and that a field has the column of its best
  alias (`BestTaken`). That it holds after every header, and for the guesses after every field, is again
  shown by a least counterexample.
* `WorklistInOrder`: `WorklistRanked`, for any number of people, any rules, any bands asked for and any
  `--top`, from `FinderAssumption`. Sorting by a strict order lists everybody once (`SortedLists`: who is
  before somebody has fewer before him), and filtering keeps the order (`ThoseLists`). The loop of `scoreLead` adds
  up the points of the rules that fire, in whatever order (`TallyIsSum`, `PointsAdd`), more points never lead to
  a lower band, whatever the cuts (`BandsFall`), and the cuts of `--calibrate` are the points of
  people on the list (`CutsAreNumbers`). So both files are in order (`FoundInOrder`, `QualifiedInOrder`).

Each theorem with an assumption names it in its statement, and each assumption is either a setting of
the instance (pool size, operators, zones, what happens in it) or explained under "Runs" and
"Observed while modelling".

Only model-checked: everything about progress (`ClaimsResolved`, `StopDrains`, `DeadHolderReplaced`,
`StopEndsRuns`), since liveness under fairness is beyond the prover; and the four runs that expect a
violation. Every other property of the passing runs is stated by a theorem above.

## What is not modelled

* In the modelled files: MESSAGE/FOLLOW jobs (nothing generates them), `controlEpoch` (written, and
  compared by nothing that acts), acknowledging an incident (changes nothing that is read),
  `pauseOnIncident = false`, alerts, screenshots and log texts, jitter below an hour, selectors
  (a group of them is one sign), fetching and paging of the discovery sources.
* The append-only trigger of `activity_logs` and the CHECK constraints of the schema, except the
  unique indexes.
* API routes (stateless: parse, authenticate, call the library, map to a status code),
  authentication, statistics, pages and components other than the import wizard (no shared state),
  the browser's launch, and the maintenance scripts. The proposals in `docs/` for a lead engine
  describe no code yet.

## Plan

1. *Done*: the queue with its operators and safety controls, the worker and its lease, the visit, time
   and limits, import and discovery, notes.
2. *Done*: theorems for all safety and action properties of the passing runs, and the refinement of
   `ClaimLifecycle` by the queue and by the system of programs.
3. Left to TLC: liveness, and what the violation runs show.
