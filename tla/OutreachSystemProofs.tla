------------------------ MODULE OutreachSystemProofs ------------------------
(***************************************************************************)
(* Theorems about the outreach system, for any tables, workers and         *)
(* operators, any mix of operations (Ops) and of reports (Reports).        *)
(***************************************************************************)
EXTENDS OutreachProperties, TLAPS

-----------------------------------------------------------------------------
(* What the policy table yields. *)

\* The table puts no lead in PROCESSING and leaves no job live.
LEMMA PolicyRows ==
    \A p \in PageState :
        /\ POLICIES[p].leadStatus \in (LeadStatus \ {"PROCESSING"}) \cup {NULL}
        /\ POLICIES[p].queueStatus \in {"COMPLETED", "FAILED", "REQUIRES_REVIEW"}
        /\ POLICIES[p].engageKillSwitch \in BOOLEAN
        /\ p \in SafetyStates \cup {"NETWORK_ERROR"} =>
             POLICIES[p].incidentType \in IncidentType
<1> SUFFICES ASSUME NEW p \in PageState
             PROVE  /\ POLICIES[p].leadStatus \in (LeadStatus \ {"PROCESSING"}) \cup {NULL}
                    /\ POLICIES[p].queueStatus \in {"COMPLETED", "FAILED", "REQUIRES_REVIEW"}
                    /\ POLICIES[p].engageKillSwitch \in BOOLEAN
                    /\ p \in SafetyStates \cup {"NETWORK_ERROR"} =>
                         POLICIES[p].incidentType \in IncidentType
  OBVIOUS
<1> USE DEF POLICIES, Row, VISITED, LeadStatus, IncidentType, SafetyStates, NULL
<1>1. CASE p = "AUTHENTICATED" BY <1>1
<1>2. CASE p = "PROFILE_FOUND" BY <1>2
<1>3. CASE p = "CONNECT_AVAILABLE" BY <1>3
<1>4. CASE p = "ALREADY_CONNECTED" BY <1>4
<1>5. CASE p = "INVITATION_PENDING" BY <1>5
<1>6. CASE p = "PROFILE_NOT_FOUND" BY <1>6
<1>7. CASE p = "NETWORK_ERROR" BY <1>7
<1>8. CASE p = "LOGIN_REQUIRED" BY <1>8
<1>9. CASE p = "CAPTCHA" BY <1>9
<1>10. CASE p = "SECURITY_CHALLENGE" BY <1>10
<1>11. CASE p = "ACCOUNT_RESTRICTED" BY <1>11
<1>12. CASE p = "UNKNOWN_PAGE" BY <1>12
<1> QED BY <1>1, <1>2, <1>3, <1>4, <1>5, <1>6, <1>7, <1>8, <1>9, <1>10, <1>11, <1>12 DEF PageState, PlainPages

\* A complete() call files its job as COMPLETED or FAILED and its lead in a
\* status of the enumeration, other than PROCESSING.
LEMMA CompletionTypes ==
    ASSUME NEW r \in Report, r.class = "NONE", NEW row \in LeadRow
    PROVE  /\ CompletionPolicy(r.page).queueStatus \in {"COMPLETED", "FAILED", "REQUIRES_REVIEW"}
           /\ LeadAfterCompletion(row, r.page) \in LeadRow
           /\ LeadAfterCompletion(row, r.page).status # "PROCESSING"
<1>1. r.page \in PageState \cup {SENT_RESULT}
  BY DEF Report, Completions, TechnicalFailures, PermanentFailures, SafetyReports,
         PageState, SENT_RESULT
<1>2. /\ CompletionPolicy(r.page).leadStatus \in (LeadStatus \ {"PROCESSING"}) \cup {NULL}
      /\ CompletionPolicy(r.page).queueStatus \in {"COMPLETED", "FAILED", "REQUIRES_REVIEW"}
  BY <1>1, PolicyRows DEF CompletionPolicy, SENT_POLICY, Row, LeadStatus
<1> QED BY <1>2 DEF LeadAfterCompletion, LeadRow, LeadStatus, NULL

\* A fail() call files its job and its lead in a status of the enumerations;
\* the lead not in PROCESSING, the job not in PROCESSING.
LEMMA FailureTypes ==
    ASSUME NEW r \in Report, r.class # "NONE",
           NEW d \in {"ESCALATED", "RETRY_SCHEDULED", "EXHAUSTED"}
    PROVE  LET policy == FailurePolicy(r.class, r.page)
           IN /\ FailedJobStatus(d, policy) \in {"WAITING", "FAILED", "REQUIRES_REVIEW"}
              /\ FailedLeadStatus(d, policy) \in LeadStatus \ {"PROCESSING"}
<1>1. r.page \in PageState \cup {NULL}
  BY DEF Report, Completions, TechnicalFailures, PermanentFailures, SafetyReports,
         PageState, PlainPages
<1>2. FailurePolicy(r.class, r.page).leadStatus \in (LeadStatus \ {"PROCESSING"}) \cup {NULL}
  <2>1. CASE r.class = "PERMANENT" /\ r.page = "PROFILE_FOUND"
    BY <2>1 DEF FailurePolicy, UNPROCESSABLE_POLICY, Row, LeadStatus, NULL
  <2>2. CASE ~(r.class = "PERMANENT" /\ r.page = "PROFILE_FOUND") /\ r.page = NULL
    BY <2>2 DEF FailurePolicy, NO_POLICY, Row
  <2>3. CASE ~(r.class = "PERMANENT" /\ r.page = "PROFILE_FOUND") /\ r.page # NULL
    BY <1>1, <2>3, PolicyRows DEF FailurePolicy
  <2> QED BY <2>1, <2>2, <2>3
<1> QED BY <1>2 DEF FailedJobStatus, FailedLeadStatus, LeadStatus

\* The incident a failed job raises has a type, and says whether to latch.
LEMMA EscalationTypes ==
    ASSUME NEW r \in Report, r.class # "NONE"
    PROVE  /\ EscalatedType(r) \in IncidentType
           /\ (r.class = "SAFETY" /\ POLICIES[r.page].engageKillSwitch) \in BOOLEAN
<1>1. /\ r.class \in {"TECHNICAL", "PERMANENT", "SAFETY"}
      /\ r.class = "TECHNICAL" => r.page \in {NULL, "NETWORK_ERROR"}
      /\ r.class = "SAFETY" => r.page \in SafetyStates
  BY DEF Report, Completions, TechnicalFailures, PermanentFailures, SafetyReports
<1>2. SafetyStates \cup {"NETWORK_ERROR"} \subseteq PageState
  BY DEF PageState
<1>3. CASE r.class = "PERMANENT" \/ r.page = NULL
  BY <1>3 DEF EscalatedType, IncidentType
<1>4. CASE r.class # "PERMANENT" /\ r.page # NULL
  <2>1. r.page \in SafetyStates \cup {"NETWORK_ERROR"}
    BY <1>1, <1>4
  <2> QED BY <1>2, <1>4, <2>1, PolicyRows DEF EscalatedType
<1> QED BY <1>3, <1>4

-----------------------------------------------------------------------------
(* Types.  TypeOK is not inductive alone: what a worker in a phase remembers *)
(* must be what the next step of that phase reads.                           *)

WorkerShape ==
    \A w \in Workers :
        /\ worker[w].phase \in {"IDLE", "GATED"} <=> worker[w].job = NoJob
        /\ worker[w].phase \in {"RECORDING", "ESCALATING"} => worker[w].report \in Report
        /\ worker[w].phase = "ESCALATING" => worker[w].report.class # "NONE"

TypeInv == TypeOK /\ WorkerShape

LEMMA TypeInit == Init => TypeInv
<1> SUFFICES ASSUME Init PROVE TypeInv
  OBVIOUS
<1>1. job \in [Jobs -> JobRow]
  BY DEF Init, JobRow, NoToken, Lease
<1>2. lead \in [Leads -> LeadRow]
  BY DEF Init, LeadRow, LeadStatus
<1>3. campaign \in [Campaigns -> CampaignStatus] /\ kill \in BOOLEAN /\ incidents \subseteq Incident
  BY DEF Init, CampaignStatus
<1>4. Idle \in WorkerState /\ Idle.phase = "IDLE" /\ Idle.job = NoJob
  BY DEF Idle, WorkerState, Phase, NoToken, NoReport
<1>5. worker \in [Workers -> WorkerState] /\ WorkerShape
  BY <1>4 DEF Init, WorkerShape
<1>6. request \in [Operators -> Request]
  BY DEF Init, Request
<1> QED BY <1>1, <1>2, <1>3, <1>5, <1>6 DEF TypeInv, TypeOK

\* What a request in flight remembers, by its kind.
LEMMA RequestShape ==
    ASSUME NEW r \in Request
    PROVE  /\ r.op = "GENERATE" => r.leads \subseteq Leads
           /\ r.op = "REAP" => r.rows \subseteq ReapRow
           /\ r.op = "CANCEL" => r.job \in Jobs
           /\ r.op = "REQUEUE" => r.job \in Jobs /\ r.attempts \in Nat
           /\ r.op = "SET_LEAD" => r.lead \in Leads
           /\ r.op \in {"ACTIVATE_CHECKED", "ACTIVATE", "RESUME_PAUSED", "RESUME"}
                => r.campaign \in Campaigns
  BY DEF Request, NoRequest

\* The updates that the handlers are built from.
LEMMA RowUpdates ==
    ASSUME NEW row \in JobRow, NEW s \in JobStatus
    PROVE  /\ InStatus(row, s) \in JobRow
           /\ Unclaimed(row) \in JobRow
           /\ Unclaimed(InStatus(row, s)) \in JobRow
           /\ Unclaimed(InStatus(row, s)).status = s
           /\ Unclaimed(InStatus(row, s)).attempts = row.attempts
           /\ Unclaimed(InStatus(row, s)).maxAttempts = row.maxAttempts
           /\ Unclaimed(InStatus(row, s)).token = NoToken
  BY DEF JobRow, InStatus, Unclaimed, NoToken, Lease

LEMMA CancelTypes ==
    ASSUME TypeOK, NEW S, NEW st, CancelIn(S, st)
    PROVE  job' \in [Jobs -> JobRow]
  BY RowUpdates DEF TypeOK, CancelIn, JobStatus

LEMMA PausedTypes ==
    ASSUME TypeOK
    PROVE  PausedAll \in [Campaigns -> CampaignStatus]
  BY DEF TypeOK, PausedAll, CampaignStatus

\* A lost or delivered reply leaves the worker idle or at work on its claim.
LEMMA RepliedTypes ==
    ASSUME TypeInv, NEW w \in Workers, worker[w].job # NoJob, Replied(w)
    PROVE  /\ worker' \in [Workers -> WorkerState]
           /\ WorkerShape'
<1> DEFINE atWork == [worker[w] EXCEPT !.phase = "WORKING", !.report = NoReport]
<1>1. PICK after \in {Idle, atWork} : worker' = [worker EXCEPT ![w] = after]
  BY DEF Replied
<1>2. /\ Idle \in WorkerState /\ Idle.phase = "IDLE" /\ Idle.job = NoJob
      /\ atWork \in WorkerState /\ atWork.phase = "WORKING" /\ atWork.job = worker[w].job
  BY DEF TypeInv, TypeOK, WorkerState, Idle, NoReport, NoToken, Phase
<1>3. /\ after \in WorkerState
      /\ after.phase \in {"IDLE", "WORKING"}
      /\ after.phase = "IDLE" <=> after.job = NoJob
  BY <1>1, <1>2
<1> HIDE DEF atWork
<1>4. worker' \in [Workers -> WorkerState]
  BY <1>1, <1>3 DEF TypeInv, TypeOK
<1>5. WorkerShape'
  BY <1>1, <1>3 DEF TypeInv, TypeOK, WorkerShape
<1> QED BY <1>4, <1>5

LEMMA DispositionTypes ==
    \A class, a, m : Disposition(class, a, m) \in {"ESCALATED", "RETRY_SCHEDULED", "EXHAUSTED"}
  BY DEF Disposition

\* The steps of a worker.
LEMMA WorkerTypes ==
    ASSUME TypeInv, NEW w \in Workers, WorkerStep(w)
    PROVE  TypeInv'
<1> USE OutreachAssumption DEF TypeInv, TypeOK
<1>1. /\ worker[w] \in WorkerState
      /\ worker[w].phase \notin {"IDLE", "GATED"} => worker[w].job \in Jobs
  BY DEF WorkerShape, WorkerState
<1>2. Idle \in WorkerState /\ Idle.phase = "IDLE" /\ Idle.job = NoJob
  BY DEF Idle, WorkerState, Phase, NoToken, NoReport
<1>3. CASE PassGate(w)
  BY <1>1, <1>3 DEF PassGate, WorkerState, Phase, WorkerShape, tables
<1>4. CASE ClaimEmpty(w) \/ ReportRejected(w) \/ WorkerDies(w)
  BY <1>1, <1>2, <1>4 DEF ClaimEmpty, ReportRejected, WorkerDies, WorkerShape, tables
<1>5. ASSUME NEW j \in Jobs, ClaimNextJob(w, j) PROVE TypeInv'
  <2>1. job' \in [Jobs -> JobRow]
    <3> DEFINE row == [job[j] EXCEPT !.status = "PROCESSING",
                                     !.attempts = job[j].attempts + 1,
                                     !.token = ClaimToken(j), !.lease = "LIVE"]
    <3>1. job[j] \in JobRow /\ ClaimToken(j) \in Nat /\ job[j].attempts + 1 \in Nat
      BY DEF JobRow, ClaimToken
    <3>2. row \in JobRow
      BY <3>1 DEF JobRow, JobStatus, Lease
    <3> QED BY <1>5, <3>2 DEF ClaimNextJob, SetJob
  <2>2. lead' \in [Leads -> LeadRow]
    BY <1>5 DEF ClaimNextJob, SetLeadStatus, LeadRow, LeadStatus
  <2>3. worker' \in [Workers -> WorkerState] /\ WorkerShape'
    BY <1>1, <1>5 DEF ClaimNextJob, ClaimToken, WorkerState, WorkerShape, Phase, NoReport, JobRow
  <2> QED BY <1>5, <2>1, <2>2, <2>3 DEF ClaimNextJob
<1>6. ASSUME NEW r \in Reports, ResultRead(w, r) PROVE TypeInv'
  BY <1>1, <1>6 DEF ResultRead, WorkerState, WorkerShape, Phase, tables
<1>7. ASSUME NEW r \in Report, r.class = "NONE", worker[w].job \in Jobs,
             RecordCompletion(w, r.page)
      PROVE  TypeInv'
  <2> DEFINE j == worker[w].job
  <2> DEFINE status == CompletionPolicy(r.page).queueStatus
  <2>1. status \in JobStatus
    BY <1>7, CompletionTypes DEF JobStatus
  <2>2. job' \in [Jobs -> JobRow]
    BY <1>7, <2>1, RowUpdates DEF RecordCompletion, SetJob
  <2>3. lead' \in [Leads -> LeadRow]
    BY <1>7, CompletionTypes DEF RecordCompletion
  <2>4. campaign' \in [Campaigns -> CampaignStatus]
    BY <1>7 DEF RecordCompletion, MaybeCompleteCampaign, CampaignStatus
  <2>5. worker' \in [Workers -> WorkerState] /\ WorkerShape'
    BY <1>7, RepliedTypes DEF RecordCompletion
  <2> QED BY <1>7, <2>2, <2>3, <2>4, <2>5 DEF RecordCompletion
<1>8. ASSUME NEW r \in Report, r.class # "NONE", worker[w].job \in Jobs, RecordFailure(w, r)
      PROVE  TypeInv'
  <2> DEFINE j == worker[w].job
  <2> DEFINE d == Disposition(r.class, worker[w].token, job[j].maxAttempts)
  <2> DEFINE policy == FailurePolicy(r.class, r.page)
  <2>1. d \in {"ESCALATED", "RETRY_SCHEDULED", "EXHAUSTED"}
    BY DispositionTypes
  <2>2. /\ FailedJobStatus(d, policy) \in JobStatus
        /\ FailedLeadStatus(d, policy) \in LeadStatus
    BY <1>8, <2>1, FailureTypes DEF JobStatus
  <2>3. job' \in [Jobs -> JobRow]
    BY <1>8, <2>2, RowUpdates DEF RecordFailure, SetJob
  <2>4. lead' \in [Leads -> LeadRow]
    BY <1>8, <2>2 DEF RecordFailure, SetLeadStatus, LeadRow
  <2>5. worker' \in [Workers -> WorkerState] /\ WorkerShape'
    <3>1. CASE Replied(w)
      BY <1>8, <3>1, RepliedTypes
    <3>2. CASE worker' = [worker EXCEPT ![w].phase = "ESCALATING", ![w].report = r]
      BY <1>1, <1>8, <3>2 DEF WorkerState, WorkerShape, Phase
    <3> QED BY <1>8, <3>1, <3>2 DEF RecordFailure
  <2> QED BY <1>8, <2>3, <2>4, <2>5 DEF RecordFailure
<1>9. CASE Escalate(w)
  <2> DEFINE r == worker[w].report
  <2> DEFINE j == worker[w].job
  <2> DEFINE blocks == r.class = "SAFETY"
  <2> DEFINE engage == r.class = "SAFETY" /\ POLICIES[r.page].engageKillSwitch
  <2>1. /\ r \in Report /\ r.class # "NONE" /\ j \in Jobs /\ worker[w].token \in Nat
    BY <1>1, <1>9 DEF Escalate, WorkerShape, WorkerState
  <2>2. EscalatedType(r) \in IncidentType /\ engage \in BOOLEAN /\ blocks \in BOOLEAN
    BY <2>1, EscalationTypes
  <2>3. OpenIncident(EscalatedType(r), j, JobCampaign(j), worker[w].token, blocks, engage)
    BY <1>9 DEF Escalate
  <2>4. JobCampaign(j) \in Campaigns
    BY <2>1 DEF JobCampaign
  <2>5. incidents' \subseteq Incident
    <3> SUFFICES ASSUME NEW i \in incidents' PROVE i \in Incident
      OBVIOUS
    <3> DEFINE created == [type |-> EscalatedType(r), job |-> j, campaign |-> JobCampaign(j),
                           seq |-> worker[w].token, blocks |-> blocks]
    <3>1. created \in Incident
      BY <2>1, <2>2, <2>4 DEF Incident
    <3>2. \A k \in incidents : Repointed(k, j, worker[w].token) \in Incident
      <4>1. ASSUME NEW k \in Incident, NEW x \in Jobs, NEW n \in Nat
            PROVE  Repointed(k, x, n) \in Incident
        BY DEF Incident, Repointed
      <4>2. incidents \subseteq Incident
        OBVIOUS
      <4> HIDE DEF j
      <4> QED BY <2>1, <4>1, <4>2
    <3>3. \/ i \in incidents \/ i = created
          \/ \E k \in incidents : i = Repointed(k, j, worker[w].token)
      BY <2>3 DEF OpenIncident
    <3> QED BY <3>1, <3>2, <3>3
  <2>6. kill' \in BOOLEAN
    BY <2>2, <2>3 DEF OpenIncident
  <2>7. campaign' \in [Campaigns -> CampaignStatus]
    BY <2>3, <2>4, PausedTypes DEF OpenIncident, CampaignStatus
  <2>8. worker' \in [Workers -> WorkerState] /\ WorkerShape'
    BY <1>9, <2>1, RepliedTypes DEF Escalate
  <2> QED BY <1>9, <2>5, <2>6, <2>7, <2>8 DEF Escalate
<1>10. CASE EscalationFails(w) \/ ResultAborted(w)
  BY <1>1, <1>10, RepliedTypes DEF EscalationFails, ResultAborted, tables
<1>11. CASE CompleteWrite(w)
  BY <1>1, <1>7, <1>11 DEF CompleteWrite, WorkerShape
<1>12. CASE FailWrite(w)
  BY <1>1, <1>8, <1>12 DEF FailWrite, WorkerShape
<1>13. ASSUME NEW r \in Reports, CompleteJob(w, r) \/ FailJob(w, r) PROVE TypeInv'
  BY <1>1, <1>7, <1>8, <1>13 DEF CompleteJob, FailJob
<1> QED BY <1>3, <1>4, <1>5, <1>6, <1>9, <1>10, <1>11, <1>12, <1>13 DEF WorkerStep

\* The steps of a dashboard request.
LEMMA RequestTypes ==
    ASSUME TypeInv, NEW o \in Operators, OperatorRequest(o)
    PROVE  TypeInv'
<1> USE DEF TypeInv, TypeOK
<1>1. WorkerShape /\ UNCHANGED worker => WorkerShape'
  BY DEF WorkerShape
<1>2. UNCHANGED <<tables, worker>>
  BY DEF OperatorRequest, GenerateRead, ActivateChecks, ResumeRead, CancelRead, RequeueRead,
         SetLeadRead, ReapScan, ClearRead, ActivateRead, ResumeChecks
<1>3. request' \in [Operators -> Request]
  <2>1. ASSUME NEW c \in Campaigns, GenerateRead(o, c) PROVE request' \in [Operators -> Request]
    BY <2>1 DEF GenerateRead, Candidates, LeadsIn, Request
  <2>2. ASSUME NEW c \in Campaigns, ActivateChecks(o, c) \/ ResumeRead(o, c)
        PROVE  request' \in [Operators -> Request]
    BY <2>2 DEF ActivateChecks, ResumeRead, Asks, Request
  <2>3. ASSUME NEW j \in Jobs, CancelRead(o, j) PROVE request' \in [Operators -> Request]
    BY <2>3 DEF CancelRead, Asks, Request
  <2>4. ASSUME NEW j \in Jobs, RequeueRead(o, j) PROVE request' \in [Operators -> Request]
    <3>1. job[j].attempts \in Nat
      BY DEF JobRow
    <3> QED BY <2>4, <3>1 DEF RequeueRead, Asks, Request
  <2>5. ASSUME NEW l \in Leads, SetLeadRead(o, l) PROVE request' \in [Operators -> Request]
    BY <2>5 DEF SetLeadRead, Asks, Request
  <2>6. CASE ReapScan(o)
    <3> DEFINE expired == {j \in Jobs : job[j].status = "PROCESSING" /\ job[j].lease = "EXPIRED"}
    <3> DEFINE rows == {[job |-> j, exhausted |-> job[j].attempts >= job[j].maxAttempts] :
                          j \in expired}
    <3>1. rows \subseteq ReapRow
      <4> SUFFICES ASSUME NEW j \in expired
                   PROVE  [job |-> j, exhausted |-> job[j].attempts >= job[j].maxAttempts]
                            \in ReapRow
        OBVIOUS
      <4>1. (job[j].attempts >= job[j].maxAttempts) \in BOOLEAN
        OBVIOUS
      <4> QED BY <4>1 DEF ReapRow
    <3>2. request' = [request EXCEPT ![o] = [op |-> "REAP", rows |-> rows]]
      BY <2>6 DEF ReapScan
    <3> HIDE DEF rows
    <3> QED BY <3>1, <3>2 DEF Request
  <2>7. CASE ClearRead(o)
    BY <2>7 DEF ClearRead, Request
  <2>8. CASE ActivateRead(o) \/ ResumeChecks(o)
    <3>1. request[o].campaign \in Campaigns
      BY <2>8, RequestShape DEF ActivateRead, ResumeChecks
    <3> QED BY <2>8, <3>1 DEF ActivateRead, ResumeChecks, Asks, Answered, Request
  <2> QED BY <2>1, <2>2, <2>3, <2>4, <2>5, <2>6, <2>7, <2>8 DEF OperatorRequest
<1> QED BY <1>1, <1>2, <1>3 DEF tables

LEMMA WriteTypes ==
    ASSUME TypeInv, NEW o \in Operators, OperatorWrite(o)
    PROVE  TypeInv'
<1> USE OutreachAssumption DEF TypeInv, TypeOK
<1>1. WorkerShape /\ UNCHANGED worker => WorkerShape'
  BY DEF WorkerShape
<1>2. Answered(o) => request' \in [Operators -> Request]
  BY DEF Answered, Request
<1>3. CASE GenerateWrite(o)
  <2>1. NewRow \in JobRow
    BY DEF NewRow, JobRow, JobStatus, NoToken, Lease
  <2>2. job' \in [Jobs -> JobRow]
    BY <1>3, <2>1 DEF GenerateWrite
  <2> QED BY <1>1, <1>2, <1>3, <2>2 DEF GenerateWrite, Answered
<1>4. CASE CancelWrite(o)
  <2>1. request[o].job \in Jobs
    BY <1>4, RequestShape DEF CancelWrite
  <2>2. job' \in [Jobs -> JobRow]
    BY <1>4, <2>1, RowUpdates DEF CancelWrite, SetJob, JobStatus
  <2>3. lead' \in [Leads -> LeadRow]
    BY <1>4, <2>1 DEF CancelWrite, SetLeadStatus, LeadRow, LeadStatus
  <2> QED BY <1>1, <1>2, <1>4, <2>2, <2>3 DEF CancelWrite
<1>5. CASE RequeueWrite(o)
  <2>1. request[o].job \in Jobs /\ request[o].attempts + 1 \in Nat
    BY <1>5, RequestShape DEF RequeueWrite
  <2>2. job' \in [Jobs -> JobRow]
    <3> DEFINE row == Unclaimed(InStatus(job[request[o].job], "WAITING"))
    <3>1. row \in JobRow
      BY <2>1, RowUpdates DEF JobStatus
    <3>2. [row EXCEPT !.maxAttempts = request[o].attempts + 1] \in JobRow
      <4> HIDE DEF row
      <4> QED BY <2>1, <3>1 DEF JobRow
    <3> QED BY <1>5, <2>1, <3>2 DEF RequeueWrite, SetJob
  <2>3. lead' \in [Leads -> LeadRow]
    BY <1>5, <2>1 DEF RequeueWrite, SetLeadStatus, LeadRow, LeadStatus
  <2> QED BY <1>1, <1>2, <1>5, <2>2, <2>3 DEF RequeueWrite
<1>6. ASSUME NEW s \in LeadStatus, SetLeadWrite(o, s) PROVE TypeInv'
  <2>1. request[o].lead \in Leads
    BY <1>6, RequestShape DEF SetLeadWrite
  <2>2. job' \in [Jobs -> JobRow]
    BY <1>6, CancelTypes DEF SetLeadWrite
  <2>3. lead' \in [Leads -> LeadRow]
    BY <1>6, <2>1 DEF SetLeadWrite, SetLeadStatus, LeadRow
  <2> QED BY <1>1, <1>2, <1>6, <2>2, <2>3 DEF SetLeadWrite
<1>7. CASE ReapJob(o)
  <2>1. PICK row \in request[o].rows :
          /\ Reap(row)
          /\ LET rest == request[o].rows \ {row}
             IN request' = [request EXCEPT ![o] =
                  IF rest = {} THEN NoRequest ELSE [op |-> "REAP", rows |-> rest]]
    BY <1>7 DEF ReapJob
  <2>2. request[o].rows \subseteq ReapRow /\ row \in ReapRow
    BY <1>7, <2>1, RequestShape DEF ReapJob
  <2>3. row.job \in Jobs /\ JobLead[row.job] \in Leads
    BY <2>2 DEF ReapRow
  <2>4. job' \in [Jobs -> JobRow]
    BY <2>1, <2>3, RowUpdates DEF Reap, SetJob, JobStatus
  <2>5. lead' \in [Leads -> LeadRow]
    <3>1. \A s \in LeadStatus : [lead EXCEPT ![JobLead[row.job]].status = s] \in [Leads -> LeadRow]
      BY <2>3 DEF LeadRow
    <3>2. \/ UNCHANGED lead
          \/ \E s \in {"FAILED", "PENDING"} : lead' = [lead EXCEPT ![JobLead[row.job]].status = s]
      BY <2>1 DEF Reap, SetLeadStatus
    <3> QED BY <3>1, <3>2 DEF LeadStatus
  <2>6. request' \in [Operators -> Request]
    BY <2>1, <2>2 DEF Request
  <2> QED BY <1>1, <1>7, <2>4, <2>5, <2>6 DEF ReapJob
<1>8. CASE StartWrite(o)
  <2>1. request[o].campaign \in Campaigns
    BY <1>8, RequestShape DEF StartWrite
  <2> QED BY <1>1, <1>2, <1>8, <2>1 DEF StartWrite, CampaignStatus
<1>9. CASE ClearWrite(o)
  BY <1>1, <1>2, <1>9 DEF ClearWrite, Answered
<1> QED BY <1>3, <1>4, <1>5, <1>6, <1>7, <1>8, <1>9 DEF OperatorWrite

LEMMA ActionTypes ==
    ASSUME TypeInv, OperatorAction
    PROVE  TypeInv'
<1> USE OutreachAssumption DEF TypeInv, TypeOK
<1>1. WorkerShape /\ UNCHANGED worker => WorkerShape'
  BY DEF WorkerShape
<1>2. CASE EmergencyStop
  BY <1>1, <1>2, CancelTypes, PausedTypes DEF EmergencyStop
<1>3. CASE ClearEmergencyStop
  BY <1>1, <1>3 DEF ClearEmergencyStop
<1>4. ASSUME NEW i \in incidents, ResolveIncident(i) PROVE TypeInv'
  <2>1. /\ i.job # NoJob => i.job \in Jobs /\ JobLead[i.job] \in Leads
        /\ i.campaign # NoCampaign => i.campaign \in Campaigns
    BY DEF Incident
  <2>2. CASE UNCHANGED <<job, lead, campaign>>
    BY <1>1, <1>4, <2>2 DEF ResolveIncident
  <2>3. CASE RetireLead(i, "SKIPPED") \/ RetireLead(i, "BLOCKED")
    <3>1. job' \in [Jobs -> JobRow]
      BY <2>3, CancelTypes DEF RetireLead
    <3>2. lead' \in [Leads -> LeadRow]
      BY <2>1, <2>3 DEF RetireLead, SetLeadStatus, LeadRow, LeadStatus
    <3> QED BY <1>1, <1>4, <2>3, <3>1, <3>2 DEF ResolveIncident, RetireLead
  <2>4. CASE RequeueLead(i)
    <3>1. job' \in [Jobs -> JobRow]
      BY <2>1, <2>4, RowUpdates DEF RequeueLead, SetJob, JobStatus
    <3>2. lead' \in [Leads -> LeadRow]
      BY <2>1, <2>4 DEF RequeueLead, SetLeadStatus, LeadRow, LeadStatus
    <3> QED BY <1>1, <1>4, <2>4, <3>1, <3>2 DEF ResolveIncident, RequeueLead
  <2>5. CASE StopCampaign(i)
    <3>1. job' \in [Jobs -> JobRow]
      BY <2>5, CancelTypes DEF StopCampaign
    <3>2. campaign' \in [Campaigns -> CampaignStatus]
      BY <2>1, <2>5 DEF StopCampaign, CampaignStatus
    <3> QED BY <1>1, <1>4, <2>5, <3>1, <3>2 DEF ResolveIncident, StopCampaign
  <2> QED BY <1>4, <2>2, <2>3, <2>4, <2>5 DEF ResolveIncident
<1>5. ASSUME NEW c \in Campaigns, PauseCampaign(c) PROVE TypeInv'
  BY <1>1, <1>5 DEF PauseCampaign, CampaignStatus
<1>6. ASSUME NEW c \in Campaigns, ClearCampaignQueue(c) PROVE TypeInv'
  BY <1>1, <1>6, CancelTypes DEF ClearCampaignQueue
<1> QED BY <1>2, <1>3, <1>4, <1>5, <1>6 DEF OperatorAction

LEMMA TypeStep == TypeInv /\ [Next]_vars => TypeInv'
<1> SUFFICES ASSUME TypeInv, [Next]_vars PROVE TypeInv'
  OBVIOUS
<1>1. ASSUME NEW j \in Jobs, LeaseExpires(j) PROVE TypeInv'
  BY <1>1 DEF TypeInv, TypeOK, WorkerShape, LeaseExpires, SetJob, JobRow, Lease
<1>2. CASE UNCHANGED vars
  BY <1>2 DEF TypeInv, TypeOK, WorkerShape, vars
<1> QED BY <1>1, <1>2, WorkerTypes, RequestTypes, WriteTypes, ActionTypes DEF Next

\* Every table, every worker and every request keeps its type, with what each
\* worker remembers fitting its phase.
THEOREM TypeInvariant == Spec => []TypeInv
  BY TypeInit, TypeStep, PTL DEF Spec

THEOREM TypeCorrect == Spec => []TypeOK
  BY TypeInvariant, PTL DEF TypeInv
=============================================================================
