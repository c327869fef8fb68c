---------------------------- MODULE OutreachData ----------------------------
(***************************************************************************)
(* The state every outreach component shares: the PostgreSQL tables        *)
(* (prisma/schema.prisma), the browser workers' view of the claim they     *)
(* hold, and the dashboard requests that have read a row and not yet       *)
(* written it.  The components (SafetyControls, OutreachQueue,             *)
(* OperatorConsole) define the handlers; OutreachSystem composes them.     *)
(*                                                                         *)
(* Abstractions.  Only CONNECT jobs exist, the one action the code ever    *)
(* generates.  A job row is born from a fixed pool, so that the lead of a  *)
(* row is the constant JobLead; the campaign of a row is its lead's.  A    *)
(* claim token is the job's attempt number: attempts only grows, so the    *)
(* number is as unique for a row as the random token of the code.  Time    *)
(* appears as the expiry of a claim lease; scheduledFor, priority and the  *)
(* daily budget are left to other modules, so any WAITING row may be due.  *)
(* A campaign's `active' flag is TRUE exactly when its status is RUNNING:  *)
(* every write sets both.                                                  *)
(***************************************************************************)
EXTENDS Naturals, FiniteSets, PageStatePolicy

CONSTANTS
    Leads, Campaigns, Jobs,  \* rows of the three tables
    Workers,                 \* browser-worker processes
    Operators,               \* dashboard requests that can be in flight
    JobLead,                 \* the lead each job row is for
    LeadCampaign,            \* the campaign each lead is assigned to
    NoJob, NoCampaign,       \* null references
    MaxAttemptsPerLead,      \* campaign_settings.maxAttemptsPerLead
    AttemptBound,            \* model bound on queue_jobs.attempts
    SerialTx,                \* DATABASE_POOL_MAX = 1: transactions are serial
    Reports,                 \* what the workers of this instance report
    Ops                      \* what the operators of this instance do

OpNames == {"GENERATE", "REAP", "CANCEL", "REQUEUE", "CLEAR_QUEUE", "SET_LEAD",
            "ACTIVATE", "RESUME", "PAUSE", "STOP", "CLEAR_STOP", "RESOLVE"}

ASSUME OutreachAssumption ==
    /\ JobLead \in [Jobs -> Leads]
    /\ LeadCampaign \in [Leads -> Campaigns]
    /\ NoJob \notin Jobs
    /\ NoCampaign \notin Campaigns
    /\ MaxAttemptsPerLead \in Nat \ {0}
    /\ AttemptBound \in Nat
    /\ SerialTx \in BOOLEAN
    /\ Reports \subseteq Report
    /\ Ops \subseteq OpNames

VARIABLES
    job,        \* queue_jobs
    lead,       \* leads
    campaign,   \* campaigns.status
    kill,       \* system_state.killSwitchEngaged
    incidents,  \* the incidents that are OPEN or ACKNOWLEDGED
    worker,     \* where each worker's exchange with the API stands
    request     \* what each dashboard request has read before its write

vars == <<job, lead, campaign, kill, incidents, worker, request>>
tables == <<job, lead, campaign, kill, incidents>>

-----------------------------------------------------------------------------
(* Types. *)

CampaignStatus == {"DRAFT", "RUNNING", "PAUSED", "COMPLETED"}

\* claimExpiresAt: null, in the future, or passed.
Lease == {"NONE", "LIVE", "EXPIRED"}

NoToken == 0

JobRow == [status : JobStatus \cup {"ABSENT"}, attempts : Nat, maxAttempts : Nat,
           token : Nat, lease : Lease]

LeadRow == [status : LeadStatus, invited : BOOLEAN]

\* `seq' tells apart the incidents a job raises over its attempts.  An incident
\* about a worker names no job and no campaign.
Incident == [type : IncidentType, job : Jobs \cup {NoJob},
             campaign : Campaigns \cup {NoCampaign}, seq : Nat, blocks : BOOLEAN]

\* GATED: claimNextJob passed the safety gate and has not yet run its
\* transaction.  WORKING: holds a claim.  RECORDING: complete or fail has read
\* the row and passed its guards, its updates are still to come (pool > 1).
\* ESCALATING: the failure is committed, its incident not yet opened.
Phase == {"IDLE", "GATED", "WORKING", "RECORDING", "ESCALATING"}

NoReport == [class |-> NULL, page |-> NULL]

WorkerState == [phase : Phase, job : Jobs \cup {NoJob}, token : Nat,
                report : Report \cup {NoReport}]

Idle == [phase |-> "IDLE", job |-> NoJob, token |-> NoToken, report |-> NoReport]

\* One row of the reaper's snapshot.
ReapRow == [job : Jobs, exhausted : BOOLEAN]

NoRequest == [op |-> "NONE"]

Request == {NoRequest}
    \cup [op : {"GENERATE"}, leads : SUBSET Leads]
    \cup [op : {"REAP"}, rows : SUBSET ReapRow]
    \cup [op : {"CANCEL"}, job : Jobs]
    \cup [op : {"REQUEUE"}, job : Jobs, attempts : Nat]
    \cup [op : {"SET_LEAD"}, lead : Leads]
    \cup [op : {"ACTIVATE_CHECKED", "ACTIVATE", "RESUME_PAUSED", "RESUME"},
          campaign : Campaigns]
    \cup [op : {"CLEAR_STOP"}]

TypeOK ==
    /\ job \in [Jobs -> JobRow]
    /\ lead \in [Leads -> LeadRow]
    /\ campaign \in [Campaigns -> CampaignStatus]
    /\ kill \in BOOLEAN
    /\ incidents \subseteq Incident
    /\ worker \in [Workers -> WorkerState]
    /\ request \in [Operators -> Request]

-----------------------------------------------------------------------------
(* Queries. *)

LiveStatus == {"WAITING", "PROCESSING"}

JobCampaign(j) == LeadCampaign[JobLead[j]]

JobsOf(l) == {j \in Jobs : JobLead[j] = l}

JobsIn(c) == {j \in Jobs : JobCampaign(j) = c}

LeadsIn(c) == {l \in Leads : LeadCampaign[l] = c}

\* (Mutant: the schema without its hand-written partial indexes.)
NoIndex(j) == TRUE

\* The two partial unique indexes: putting job j in a live status, or in
\* COMPLETED, is refused while another row of the lead holds that place.
LiveIndexFree(j) ==
    \A k \in JobsOf(JobLead[j]) \ {j} : job[k].status \notin LiveStatus

CompletedIndexFree(j) ==
    \A k \in JobsOf(JobLead[j]) \ {j} : job[k].status # "COMPLETED"

Blocking == {i \in incidents : i.blocks}

-----------------------------------------------------------------------------
(* Table updates that several handlers share. *)

\* The columns a row gives up when its claim ends.
Unclaimed(row) == [row EXCEPT !.token = NoToken, !.lease = "NONE"]

InStatus(row, status) == [row EXCEPT !.status = status]

SetJob(j, row) == job' = [job EXCEPT ![j] = row]

SetLeadStatus(l, status) == lead' = [lead EXCEPT ![l].status = status]

\* queueJob.updateMany: jobs of a set that are in some of these statuses.
CancelIn(S, statuses) ==
    job' = [j \in Jobs |-> IF j \in S /\ job[j].status \in statuses
                             THEN InStatus(job[j], "CANCELLED") ELSE job[j]]

\* campaign.updateMany where active or RUNNING.
PausedAll == [c \in Campaigns |-> IF campaign[c] = "RUNNING" THEN "PAUSED" ELSE campaign[c]]
=============================================================================
