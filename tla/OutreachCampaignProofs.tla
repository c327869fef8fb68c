----------------------- MODULE OutreachCampaignProofs -----------------------
(***************************************************************************)
(* What campaigns and completed rows keep true: a completed campaign is    *)
(* idle, a lead completes one row, and nothing is claimed under the stop.  *)
(*                                                                         *)
(* The first two are inductive given the types: the step that finishes a   *)
(* campaign, or a row, is the one that looks at everything that could      *)
(* contradict it.  The third rests on `a stopped system runs no campaign', *)
(* which a start that was checked before the stop would break: it is       *)
(* stated for systems whose operators neither activate nor resume.         *)
(* Last comes the latch itself.                                            *)
(***************************************************************************)
EXTENDS OutreachClaimProofs

-----------------------------------------------------------------------------
(* What a step may do to the campaigns. *)

FinishesCampaign(c) ==
    /\ MaybeCompleteCampaign(c)
    /\ kill' = kill

StopsCampaigns ==
    /\ \A c \in Campaigns : campaign'[c] = campaign[c] \/ campaign'[c] = "PAUSED"
    /\ (kill' # kill /\ kill') => \A c \in Campaigns : campaign'[c] # "RUNNING"

CampaignWrites ==
    \/ StopsCampaigns
    \/ \E c \in Campaigns : FinishesCampaign(c)
    \/ \E o \in Operators : StartWrite(o)

LEMMA PausedAllStops ==
    ASSUME TypeInv, campaign' = PausedAll
    PROVE  /\ \A c \in Campaigns : campaign'[c] = campaign[c] \/ campaign'[c] = "PAUSED"
           /\ \A c \in Campaigns : campaign'[c] # "RUNNING"
  BY DEF PausedAll

LEMMA SameCampaigns == campaign' = campaign /\ kill' = kill => StopsCampaigns
<1> SUFFICES ASSUME campaign' = campaign, kill' = kill PROVE StopsCampaigns
  OBVIOUS
<1>1. ~(kill' # kill)
  OBVIOUS
<1> QED BY <1>1 DEF StopsCampaigns

LEMMA WorkerCampaignWrites ==
    ASSUME TypeInv, NEW w \in Workers, WorkerStep(w)
    PROVE  CampaignWrites
<1> USE OutreachAssumption
<1>1. worker[w].phase \notin {"IDLE", "GATED"} => JobCampaign(worker[w].job) \in Campaigns
  BY DEF TypeInv, TypeOK, WorkerShape, WorkerState, JobCampaign
<1>2. ASSUME worker[w].phase \notin {"IDLE", "GATED"}, NEW p, RecordCompletion(w, p)
      PROVE  CampaignWrites
  <2>1. MaybeCompleteCampaign(JobCampaign(worker[w].job))
    BY <1>2 DEF RecordCompletion
  <2>2. kill' = kill
    BY <1>2 DEF RecordCompletion
  <2> QED BY <1>1, <1>2, <2>1, <2>2 DEF FinishesCampaign, CampaignWrites
<1>3. CASE Escalate(w)
  <2> DEFINE r == worker[w].report
  <2> DEFINE j == worker[w].job
  <2> DEFINE engage == r.class = "SAFETY" /\ POLICIES[r.page].engageKillSwitch
  <2>1. OpenIncident(EscalatedType(r), j, JobCampaign(j), worker[w].token, r.class = "SAFETY", engage)
    BY <1>3 DEF Escalate
  <2>2. kill' = (kill \/ engage)
    BY <2>1 DEF OpenIncident
  <2> HIDE DEF engage
  <2>3. CASE engage
    <3>1. campaign' = PausedAll
      BY <2>1, <2>3 DEF OpenIncident
    <3> QED BY <3>1, PausedAllStops DEF StopsCampaigns, CampaignWrites
  <2>4. CASE ~engage
    <3>1. kill' = kill
      BY <2>2, <2>4 DEF TypeInv, TypeOK
    <3>2. \A c \in Campaigns : campaign'[c] = campaign[c] \/ campaign'[c] = "PAUSED"
      BY <2>1, <2>4 DEF OpenIncident
    <3>3. ~(kill' # kill)
      BY <3>1
    <3> QED BY <3>2, <3>3 DEF StopsCampaigns, CampaignWrites
  <2> QED BY <2>3, <2>4
<1>4. ASSUME NEW r \in Reports, CompleteJob(w, r) PROVE CampaignWrites
  BY <1>2, <1>4 DEF CompleteJob
<1>5. CASE CompleteWrite(w)
  BY <1>2, <1>5 DEF CompleteWrite
<1>6. ASSUME campaign' = campaign, kill' = kill PROVE CampaignWrites
  BY <1>6, SameCampaigns DEF CampaignWrites
<1>7. ASSUME NEW j \in Jobs, ClaimNextJob(w, j) PROVE campaign' = campaign /\ kill' = kill
  BY <1>7 DEF ClaimNextJob
<1>8. ASSUME NEW r \in Reports, FailJob(w, r) \/ ResultRead(w, r)
      PROVE  campaign' = campaign /\ kill' = kill
  BY <1>8 DEF FailJob, RecordFailure, ResultRead, tables
<1>9. ASSUME \/ PassGate(w) \/ ClaimEmpty(w) \/ ReportRejected(w) \/ WorkerDies(w)
             \/ FailWrite(w) \/ EscalationFails(w) \/ ResultAborted(w)
      PROVE  campaign' = campaign /\ kill' = kill
  BY <1>9 DEF PassGate, ClaimEmpty, ReportRejected, WorkerDies, FailWrite, RecordFailure,
              EscalationFails, ResultAborted, tables
<1> QED BY <1>3, <1>4, <1>5, <1>6, <1>7, <1>8, <1>9 DEF WorkerStep

LEMMA OthersCampaignWrites ==
    ASSUME TypeInv, [Next]_vars, ~\E w \in Workers : WorkerStep(w)
    PROVE  CampaignWrites
<1>1. ASSUME campaign' = campaign, kill' = kill PROVE CampaignWrites
  BY <1>1, SameCampaigns DEF CampaignWrites
<1>2. CASE UNCHANGED vars
  BY <1>1, <1>2 DEF vars
<1>3. ASSUME NEW j \in Jobs, LeaseExpires(j) PROVE campaign' = campaign /\ kill' = kill
  BY <1>3 DEF LeaseExpires
<1>4. ASSUME NEW o \in Operators, OperatorRequest(o) PROVE campaign' = campaign /\ kill' = kill
  BY <1>4 DEF OperatorRequest, GenerateRead, ActivateChecks, ResumeRead, CancelRead, RequeueRead,
         SetLeadRead, ReapScan, ClearRead, ActivateRead, ResumeChecks, tables
<1>5. ASSUME NEW o \in Operators, OperatorWrite(o) PROVE CampaignWrites
  <2>1. CASE StartWrite(o)
    BY <2>1 DEF CampaignWrites
  <2>2. CASE ClearWrite(o)
    <3>1. campaign' = campaign /\ kill' = FALSE
      BY <2>2 DEF ClearWrite
    <3> QED BY <3>1 DEF StopsCampaigns, CampaignWrites
  <2>3. ASSUME \/ GenerateWrite(o) \/ CancelWrite(o) \/ RequeueWrite(o) \/ ReapJob(o)
               \/ \E s \in LeadStatus : SetLeadWrite(o, s)
        PROVE  campaign' = campaign /\ kill' = kill
    BY <2>3 DEF GenerateWrite, CancelWrite, RequeueWrite, ReapJob, SetLeadWrite
  <2> QED BY <1>1, <1>5, <2>1, <2>2, <2>3 DEF OperatorWrite
<1>6. CASE OperatorAction
  <2>1. CASE EmergencyStop
    <3>1. campaign' = PausedAll
      BY <2>1 DEF EmergencyStop
    <3> QED BY <3>1, PausedAllStops DEF StopsCampaigns, CampaignWrites
  <2>2. CASE ClearEmergencyStop
    <3>1. campaign' = campaign /\ kill' = FALSE
      BY <2>2 DEF ClearEmergencyStop
    <3> QED BY <3>1 DEF StopsCampaigns, CampaignWrites
  <2>3. ASSUME \/ \E i \in incidents : ResolveIncident(i)
               \/ \E c \in Campaigns : PauseCampaign(c) \/ ClearCampaignQueue(c)
        PROVE  /\ kill' = kill
               /\ \A c \in Campaigns : campaign'[c] = campaign[c] \/ campaign'[c] = "PAUSED"
    <3>1. kill' = kill
      BY <2>3 DEF ResolveIncident, PauseCampaign, ClearCampaignQueue
    <3>2. campaign' = campaign \/ \E c : campaign' = [campaign EXCEPT ![c] = "PAUSED"]
      BY <2>3 DEF ResolveIncident, RetireLead, RequeueLead, StopCampaign, PauseCampaign,
                  ClearCampaignQueue
    <3> QED BY <3>1, <3>2 DEF TypeInv, TypeOK
  <2>4. ASSUME kill' = kill,
               \A c \in Campaigns : campaign'[c] = campaign[c] \/ campaign'[c] = "PAUSED"
        PROVE  CampaignWrites
    <3>1. ~(kill' # kill)
      BY <2>4
    <3> QED BY <2>4, <3>1 DEF StopsCampaigns, CampaignWrites
  <2> QED BY <1>6, <2>1, <2>2, <2>3, <2>4 DEF OperatorAction
<1> QED BY <1>1, <1>2, <1>3, <1>4, <1>5, <1>6 DEF Next

LEMMA StepCampaignWrites == TypeInv /\ [Next]_vars => CampaignWrites
  BY WorkerCampaignWrites, OthersCampaignWrites

-----------------------------------------------------------------------------
(* A completed campaign is idle. *)

LEMMA IdleStep == ClaimInv /\ CompletedCampaignIdle /\ [Next]_vars => CompletedCampaignIdle'
<1> SUFFICES ASSUME ClaimInv, CompletedCampaignIdle, [Next]_vars PROVE CompletedCampaignIdle'
  OBVIOUS
<1> USE OutreachAssumption
<1>1. TypeInv
  BY DEF ClaimInv
<1>2. CASE \E w \in Workers, j \in Jobs : ClaimNextJob(w, j)
  <2>1. PICK w \in Workers, j \in Jobs : ClaimNextJob(w, j)
    BY <1>2
  <2>2. /\ campaign' = campaign /\ campaign[JobCampaign(j)] = "RUNNING"
        /\ \A k \in Jobs \ {j} : job'[k] = job[k]
    BY <1>1, <2>1 DEF ClaimNextJob, Claimable, SetJob, TypeInv, TypeOK
  <2> QED BY <2>2 DEF CompletedCampaignIdle, JobsIn
<1>3. CASE ~\E w \in Workers, j \in Jobs : ClaimNextJob(w, j)
  <2>1. \A j \in Jobs : job'[j].status = "PROCESSING" => job[j].status = "PROCESSING"
    <3>1. CASE UNCHANGED vars
      BY <3>1 DEF vars
    <3>2. CASE Next
      BY <1>1, <1>3, <3>2, WorkerSettles, RequestSettles, WriteSettles, ActionSettles,
         LeaseSettles DEF Next, Settles
    <3> QED BY <3>1, <3>2
  <2>2. ASSUME NEW c \in Campaigns, campaign'[c] = "COMPLETED", campaign[c] # "COMPLETED"
        PROVE  \A j \in JobsIn(c) : job'[j].status # "PROCESSING"
    <3>1. ~StopsCampaigns
      BY <2>2 DEF StopsCampaigns
    <3>2. ~\E o \in Operators : StartWrite(o)
      BY <1>1, <2>2 DEF StartWrite, TypeInv, TypeOK
    <3>3. PICK d \in Campaigns : MaybeCompleteCampaign(d)
      BY <1>1, <3>1, <3>2, StepCampaignWrites DEF CampaignWrites, FinishesCampaign
    <3>4. d = c /\ \A k \in JobsIn(d) : job'[k].status \notin LiveStatus
      BY <1>1, <2>2, <3>3 DEF MaybeCompleteCampaign, TypeInv, TypeOK
    <3> QED BY <3>4 DEF LiveStatus
  <2> QED BY <2>1, <2>2 DEF CompletedCampaignIdle, JobsIn
<1> QED BY <1>2, <1>3

\* A campaign that is called finished has no browser at work in it
\* (maybeCompleteCampaign), whatever is resumed, requeued or written late.
THEOREM CompletedIsIdle == Spec => []CompletedCampaignIdle
<1>1. Init => ClaimInv /\ CompletedCampaignIdle
  BY ClaimInit DEF Init, CompletedCampaignIdle
<1>2. ClaimInv /\ CompletedCampaignIdle /\ [Next]_vars => (ClaimInv /\ CompletedCampaignIdle)'
  BY ClaimInvStep, IdleStep
<1> QED BY <1>1, <1>2, PTL DEF Spec

-----------------------------------------------------------------------------
(* Nothing is claimed under the stop. *)

\* Stopped means that nothing runs and no start is on its way.
StoppedInv ==
    /\ TypeInv
    /\ kill => \A c \in Campaigns : campaign[c] # "RUNNING"
    /\ \A o \in Operators :
         request[o].op \notin {"ACTIVATE_CHECKED", "ACTIVATE", "RESUME_PAUSED", "RESUME"}

LEMMA NoStartRequested ==
    ASSUME "ACTIVATE" \notin Ops, "RESUME" \notin Ops, StoppedInv, TypeInv', [Next]_vars,
           NEW p \in Operators
    PROVE  request'[p].op \notin {"ACTIVATE_CHECKED", "ACTIVATE", "RESUME_PAUSED", "RESUME"}
<1> DEFINE Start == {"ACTIVATE_CHECKED", "ACTIVATE", "RESUME_PAUSED", "RESUME"}
<1>1. TypeInv /\ \A o \in Operators : request[o].op \notin Start
  BY DEF StoppedInv
<1>2. CASE UNCHANGED request
  BY <1>1, <1>2
<1>3. ASSUME NEW o \in Operators, NEW q, request' = [request EXCEPT ![o] = q], q.op \notin Start
      PROVE  request'[p].op \notin Start
  BY <1>1, <1>3 DEF TypeInv, TypeOK
<1>4. NoRequest.op \notin Start
  BY DEF NoRequest
<1>5. ASSUME NEW o \in Operators, OperatorRequest(o) PROVE request'[p].op \notin Start
  <2>1. ASSUME NEW c \in Campaigns, GenerateRead(o, c) PROVE request'[p].op \notin Start
    BY <1>3, <2>1 DEF GenerateRead
  <2>2. ASSUME NEW j \in Jobs, CancelRead(o, j) \/ RequeueRead(o, j)
        PROVE  request'[p].op \notin Start
    BY <1>3, <2>2 DEF CancelRead, RequeueRead, Asks
  <2>3. ASSUME NEW l \in Leads, SetLeadRead(o, l) PROVE request'[p].op \notin Start
    BY <1>3, <2>3 DEF SetLeadRead, Asks
  <2>4. CASE ReapScan(o) \/ ClearRead(o)
    BY <1>3, <2>4 DEF ReapScan, ClearRead
  <2>5. ASSUME NEW c \in Campaigns, ActivateChecks(o, c) \/ ResumeRead(o, c) PROVE FALSE
    BY <2>5 DEF ActivateChecks, ResumeRead
  <2>6. CASE ActivateRead(o) \/ ResumeChecks(o)
    BY <1>1, <2>6 DEF ActivateRead, ResumeChecks
  <2> QED BY <1>5, <2>1, <2>2, <2>3, <2>4, <2>5, <2>6 DEF OperatorRequest
<1>6. ASSUME NEW o \in Operators, OperatorWrite(o) PROVE request'[p].op \notin Start
  <2>1. CASE ReapJob(o)
    <3>1. PICK row \in request[o].rows : request' = [request EXCEPT ![o] =
             IF request[o].rows \ {row} = {} THEN NoRequest
             ELSE [op |-> "REAP", rows |-> request[o].rows \ {row}]]
      BY <2>1 DEF ReapJob
    <3> QED BY <1>3, <1>4, <3>1
  <2>2. CASE GenerateWrite(o) \/ ClearWrite(o)
    BY <1>3, <1>4, <2>2 DEF GenerateWrite, ClearWrite
  <2>3. CASE CancelWrite(o) \/ RequeueWrite(o) \/ StartWrite(o)
    BY <1>3, <1>4, <2>3 DEF CancelWrite, RequeueWrite, StartWrite, Answered
  <2>4. ASSUME NEW s \in LeadStatus, SetLeadWrite(o, s) PROVE request'[p].op \notin Start
    BY <1>3, <1>4, <2>4 DEF SetLeadWrite, Answered
  <2> QED BY <1>6, <2>1, <2>2, <2>3, <2>4 DEF OperatorWrite
<1>7. UNCHANGED request \/ \E o \in Operators : OperatorRequest(o) \/ OperatorWrite(o)
  <2>1. ASSUME NEW w \in Workers, WorkerStep(w) PROVE UNCHANGED request
    BY <2>1 DEF WorkerStep, PassGate, ClaimEmpty, ClaimNextJob, CompleteJob, FailJob, ResultRead,
       ResultAborted, CompleteWrite, FailWrite, RecordCompletion, RecordFailure, Escalate,
       EscalationFails, ReportRejected, WorkerDies
  <2>2. CASE OperatorAction
    BY <2>2 DEF OperatorAction, EmergencyStop, ClearEmergencyStop, ResolveIncident,
       PauseCampaign, ClearCampaignQueue
  <2> QED BY <2>1, <2>2 DEF Next, vars, LeaseExpires
<1> QED BY <1>2, <1>5, <1>6, <1>7

LEMMA StoppedStep ==
    ASSUME "ACTIVATE" \notin Ops, "RESUME" \notin Ops, StoppedInv, [Next]_vars
    PROVE  StoppedInv'
<1>1. TypeInv /\ TypeInv'
  BY TypeStep DEF StoppedInv
<1>2. ~\E o \in Operators : StartWrite(o)
  BY DEF StartWrite, StoppedInv
<1>3. ASSUME kill', NEW c \in Campaigns, campaign'[c] = "RUNNING" PROVE FALSE
  <2>1. CASE StopsCampaigns
    <3>1. campaign[c] = "RUNNING" /\ kill' = kill
      BY <1>3, <2>1 DEF StopsCampaigns
    <3> QED BY <1>3, <3>1 DEF StoppedInv
  <2>2. ASSUME NEW d \in Campaigns, FinishesCampaign(d) PROVE FALSE
    <3>1. kill' = kill
      BY <2>2 DEF FinishesCampaign
    <3>2. campaign[c] = "RUNNING"
      BY <1>1, <1>3, <2>2 DEF FinishesCampaign, MaybeCompleteCampaign, TypeInv, TypeOK
    <3> QED BY <1>3, <3>1, <3>2 DEF StoppedInv
  <2> QED BY <1>1, <1>2, <2>1, <2>2, StepCampaignWrites DEF CampaignWrites
<1> QED BY <1>1, <1>3, NoStartRequested DEF StoppedInv

LEMMA NoClaimStep ==
    ASSUME ClaimInv, StoppedInv, [Next]_vars
    PROVE  kill => \A j \in Jobs : job[j].status # "PROCESSING" => job'[j].status # "PROCESSING"
<1> SUFFICES ASSUME kill, NEW k \in Jobs, job[k].status # "PROCESSING"
             PROVE  job'[k].status # "PROCESSING"
  OBVIOUS
<1>1. ~\E w \in Workers, j \in Jobs : ClaimNextJob(w, j)
  BY OutreachAssumption DEF ClaimNextJob, Claimable, JobCampaign, StoppedInv
<1>2. CASE UNCHANGED vars
  BY <1>2 DEF vars
<1>3. CASE Next
  BY <1>1, <1>3, WorkerSettles, RequestSettles, WriteSettles, ActionSettles, LeaseSettles
  DEF Next, Settles, ClaimInv
<1> QED BY <1>2, <1>3

\* Once the stop is latched nothing is claimed, not even by a worker that passed
\* the gate just before (engageEmergencyStop, claimNextJob), unless an operator's
\* start that was checked before the stop is still on its way.
THEOREM NothingClaimedUnderStop ==
    ASSUME "ACTIVATE" \notin Ops, "RESUME" \notin Ops
    PROVE  Spec => NoClaimUnderStop
<1>1. Init => ClaimInv /\ StoppedInv
  <2>1. Init => ClaimInv /\ TypeInv
    BY ClaimInit DEF ClaimInv
  <2> QED BY <2>1 DEF Init, StoppedInv, NoRequest
<1>2. ClaimInv /\ StoppedInv /\ [Next]_vars => (ClaimInv /\ StoppedInv)'
  BY ClaimInvStep, StoppedStep
<1>3. ClaimInv /\ StoppedInv /\ [Next]_vars =>
        [kill => \A j \in Jobs : job[j].status # "PROCESSING"
                                   => job'[j].status # "PROCESSING"]_vars
  BY NoClaimStep
<1> QED BY <1>1, <1>2, <1>3, PTL DEF Spec, NoClaimUnderStop
-----------------------------------------------------------------------------
(* A lead completes one row. *)

\* A row becomes COMPLETED only while no sibling is.
CompletesOne ==
    \A j \in Jobs : job'[j].status = "COMPLETED" =>
        \/ job[j].status = "COMPLETED"
        \/ \A k \in JobsOf(JobLead[j]) \ {j} : job'[k].status # "COMPLETED"

LEMMA RowCompletes ==
    ASSUME TypeInv, NEW j \in Jobs, NEW row \in JobRow, SetJob(j, row),
           row.status = "COMPLETED" => job[j].status = "COMPLETED" \/ CompletedIndexFree(j)
    PROVE  CompletesOne
<1>1. job'[j] = row /\ \A k \in Jobs \ {j} : job'[k] = job[k]
  BY DEF SetJob, TypeInv, TypeOK
<1> QED BY <1>1 DEF CompletesOne, CompletedIndexFree, JobsOf

LEMMA SameRowsComplete == UNCHANGED job => CompletesOne
  BY DEF CompletesOne

LEMMA CancelCompletes ==
    ASSUME TypeInv, NEW S, NEW st, CancelIn(S, st)
    PROVE  CompletesOne
<1>1. ASSUME NEW j \in Jobs PROVE job'[j] = job[j] \/ job'[j].status = "CANCELLED"
  <2>1. job[j] \in JobRow
    BY DEF TypeInv, TypeOK
  <2>2. InStatus(job[j], "CANCELLED").status = "CANCELLED"
    BY <2>1 DEF InStatus, JobRow
  <2> QED BY <2>2 DEF CancelIn
<1> QED BY <1>1 DEF CompletesOne

LEMMA WorkerCompletes ==
    ASSUME TypeInv, NEW w \in Workers, WorkerStep(w)
    PROVE  CompletesOne
<1> USE OutreachAssumption
<1> DEFINE j == worker[w].job
<1>1. worker[w].phase \notin {"IDLE", "GATED"} => j \in Jobs /\ job[j] \in JobRow
  BY DEF TypeInv, TypeOK, WorkerShape, WorkerState
<1>2. ASSUME j \in Jobs, NEW r \in Report, r.class = "NONE", RecordCompletion(w, r.page)
      PROVE  CompletesOne
  <2> DEFINE status == CompletionPolicy(r.page).queueStatus
  <2>1. status \in {"COMPLETED", "FAILED", "REQUIRES_REVIEW"} /\ job[j] \in JobRow
    BY <1>2, CompletionTypes DEF TypeInv, TypeOK
  <2>2. /\ Unclaimed(InStatus(job[j], status)) \in JobRow
        /\ Unclaimed(InStatus(job[j], status)).status = status
    BY <2>1, RowUpdates DEF JobStatus
  <2> QED BY <1>2, <2>2, RowCompletes DEF RecordCompletion
<1>3. ASSUME j \in Jobs, NEW r \in Report, r.class # "NONE", RecordFailure(w, r)
      PROVE  CompletesOne
  <2> DEFINE status == FailedJobStatus(Disposition(r.class, worker[w].token, job[j].maxAttempts),
                                       FailurePolicy(r.class, r.page))
  <2>1. status \in {"WAITING", "FAILED", "REQUIRES_REVIEW"} /\ job[j] \in JobRow
    BY <1>3, FailureTypes, DispositionTypes DEF TypeInv, TypeOK
  <2>2. /\ Unclaimed(InStatus(job[j], status)) \in JobRow
        /\ Unclaimed(InStatus(job[j], status)).status = status
    BY <2>1, RowUpdates DEF JobStatus
  <2>3. SetJob(j, Unclaimed(InStatus(job[j], status)))
    BY <1>3 DEF RecordFailure
  <2> HIDE DEF status
  <2> QED BY <1>3, <2>1, <2>2, <2>3, RowCompletes
<1>4. ASSUME NEW r \in Reports, CompleteJob(w, r) \/ FailJob(w, r) PROVE CompletesOne
  BY <1>1, <1>2, <1>3, <1>4 DEF CompleteJob, FailJob
<1>5. CASE CompleteWrite(w) \/ FailWrite(w)
  BY <1>1, <1>2, <1>3, <1>5 DEF CompleteWrite, FailWrite, TypeInv, WorkerShape
<1>6. ASSUME NEW k \in Jobs, ClaimNextJob(w, k) PROVE CompletesOne
  <2>1. /\ \A i \in Jobs \ {k} : job'[i] = job[i]
        /\ job'[k].status = "PROCESSING"
    BY <1>6 DEF ClaimNextJob, SetJob, TypeInv, TypeOK, JobRow
  <2> QED BY <2>1 DEF CompletesOne
<1>7. ASSUME NEW r \in Reports, ResultRead(w, r) PROVE CompletesOne
  BY <1>7, SameRowsComplete DEF ResultRead, tables
<1>8. CASE \/ PassGate(w) \/ ClaimEmpty(w) \/ ReportRejected(w) \/ WorkerDies(w)
           \/ Escalate(w) \/ EscalationFails(w) \/ ResultAborted(w)
  BY <1>8, SameRowsComplete DEF PassGate, ClaimEmpty, ReportRejected, WorkerDies, Escalate,
                                EscalationFails, ResultAborted, tables
<1> QED BY <1>4, <1>5, <1>6, <1>7, <1>8 DEF WorkerStep

LEMMA ConsoleCompletes ==
    ASSUME TypeInv, NEW o \in Operators, OperatorRequest(o) \/ OperatorWrite(o)
    PROVE  CompletesOne
<1> USE OutreachAssumption
<1>1. request[o] \in Request
  BY DEF TypeInv, TypeOK
<1>2. CASE OperatorRequest(o)
  BY <1>2, SameRowsComplete DEF OperatorRequest, GenerateRead, ActivateChecks, ResumeRead,
     CancelRead, RequeueRead, SetLeadRead, ReapScan, ClearRead, ActivateRead, ResumeChecks, tables
<1>3. CASE GenerateWrite(o)
  <2> DEFINE rows == {InsertedRow(l) : l \in
                {l \in request[o].leads :
                   /\ FreshRows(l) # {}
                   /\ \A j \in JobsOf(l) : job[j].status \notin LiveStatus}}
  <2>1. job' = [j \in Jobs |-> IF j \in rows THEN NewRow ELSE job[j]]
    BY <1>3 DEF GenerateWrite
  <2> HIDE DEF rows
  <2>2. \A j \in Jobs : job'[j] = job[j] \/ job'[j].status = "WAITING"
    BY <2>1 DEF NewRow
  <2> QED BY <2>2 DEF CompletesOne
<1>4. CASE CancelWrite(o)
  <2> DEFINE j == request[o].job
  <2>1. j \in Jobs /\ job[j] \in JobRow
    BY <1>1, <1>4, RequestShape DEF CancelWrite, TypeInv, TypeOK
  <2>2. InStatus(job[j], "CANCELLED") \in JobRow /\ InStatus(job[j], "CANCELLED").status = "CANCELLED"
    BY <2>1 DEF InStatus, JobRow, JobStatus
  <2> QED BY <1>4, <2>1, <2>2, RowCompletes DEF CancelWrite
<1>5. CASE RequeueWrite(o)
  <2> DEFINE j == request[o].job
  <2> DEFINE row == [Unclaimed(InStatus(job[j], "WAITING"))
                       EXCEPT !.maxAttempts = request[o].attempts + 1]
  <2>1. j \in Jobs /\ job[j] \in JobRow /\ request[o].attempts \in Nat
    BY <1>1, <1>5, RequestShape DEF RequeueWrite, TypeInv, TypeOK
  <2>2. row \in JobRow /\ row.status = "WAITING"
    <3>1. /\ Unclaimed(InStatus(job[j], "WAITING")) \in JobRow
          /\ Unclaimed(InStatus(job[j], "WAITING")).status = "WAITING"
      BY <2>1, RowUpdates DEF JobStatus
    <3> QED BY <2>1, <3>1 DEF JobRow
  <2>3. UNCHANGED job \/ SetJob(j, row)
    BY <1>5 DEF RequeueWrite
  <2> HIDE DEF row
  <2> QED BY <2>1, <2>2, <2>3, RowCompletes, SameRowsComplete
<1>6. ASSUME NEW s \in LeadStatus, SetLeadWrite(o, s) PROVE CompletesOne
  BY <1>6, CancelCompletes, SameRowsComplete DEF SetLeadWrite
<1>7. CASE ReapJob(o)
  <2>1. PICK row \in request[o].rows : Reap(row)
    BY <1>7 DEF ReapJob
  <2> DEFINE j == row.job
  <2> DEFINE status == IF row.exhausted THEN "FAILED" ELSE "WAITING"
  <2>2. j \in Jobs /\ job[j] \in JobRow
    BY <1>1, <1>7, RequestShape DEF ReapJob, ReapRow, TypeInv, TypeOK
  <2>3. /\ Unclaimed(InStatus(job[j], status)) \in JobRow
        /\ Unclaimed(InStatus(job[j], status)).status = status
    BY <2>2, RowUpdates DEF JobStatus
  <2>4. UNCHANGED job \/ SetJob(j, Unclaimed(InStatus(job[j], status)))
    BY <2>1 DEF Reap
  <2> QED BY <2>2, <2>3, <2>4, RowCompletes, SameRowsComplete
<1>8. CASE StartWrite(o) \/ ClearWrite(o)
  BY <1>8, SameRowsComplete DEF StartWrite, ClearWrite
<1> QED BY <1>2, <1>3, <1>4, <1>5, <1>6, <1>7, <1>8 DEF OperatorWrite

LEMMA OthersComplete ==
    ASSUME TypeInv, OperatorAction \/ \E j \in Jobs : LeaseExpires(j)
    PROVE  CompletesOne
<1>1. ASSUME NEW i \in incidents, ResolveIncident(i) PROVE CompletesOne
  <2>1. CASE RequeueLead(i)
    <3>1. i.job \in Jobs /\ job[i.job] \in JobRow
      BY <2>1 DEF RequeueLead, Incident, TypeInv, TypeOK
    <3>2. /\ Unclaimed(InStatus(job[i.job], "WAITING")) \in JobRow
          /\ Unclaimed(InStatus(job[i.job], "WAITING")).status = "WAITING"
      BY <3>1, RowUpdates DEF JobStatus
    <3> QED BY <2>1, <3>1, <3>2, RowCompletes, SameRowsComplete DEF RequeueLead
  <2> QED BY <1>1, <2>1, CancelCompletes, SameRowsComplete
          DEF ResolveIncident, RetireLead, StopCampaign
<1>2. ASSUME NEW j \in Jobs, LeaseExpires(j) PROVE CompletesOne
  <2>1. \A k \in Jobs : job'[k].status = job[k].status
    BY <1>2 DEF LeaseExpires, SetJob, TypeInv, TypeOK, JobRow
  <2> QED BY <2>1 DEF CompletesOne
<1>3. CASE EmergencyStop \/ ClearEmergencyStop
  BY <1>3, CancelCompletes, SameRowsComplete DEF EmergencyStop, ClearEmergencyStop
<1>4. ASSUME NEW c \in Campaigns, PauseCampaign(c) \/ ClearCampaignQueue(c) PROVE CompletesOne
  BY <1>4, CancelCompletes, SameRowsComplete DEF PauseCampaign, ClearCampaignQueue
<1> QED BY <1>1, <1>2, <1>3, <1>4 DEF OperatorAction

LEMMA CompletedStep == TypeInv /\ OneCompletedJobPerLead /\ [Next]_vars => OneCompletedJobPerLead'
<1> SUFFICES ASSUME TypeInv, OneCompletedJobPerLead, [Next]_vars PROVE OneCompletedJobPerLead'
  OBVIOUS
<1>1. CompletesOne
  BY WorkerCompletes, ConsoleCompletes, OthersComplete, SameRowsComplete DEF Next, vars
<1> QED BY <1>1 DEF CompletesOne, OneCompletedJobPerLead, JobsOf

\* A lead never has two COMPLETED rows (queue_jobs_one_completed_per_lead_action),
\* whatever the size of the pool and however late a result is written.
THEOREM OneCompletedJob == Spec => []OneCompletedJobPerLead
<1>1. Init => TypeInv /\ OneCompletedJobPerLead
  BY TypeInit DEF Init, OneCompletedJobPerLead
<1>2. TypeInv /\ OneCompletedJobPerLead /\ [Next]_vars => (TypeInv /\ OneCompletedJobPerLead)'
  BY TypeStep, CompletedStep
<1> QED BY <1>1, <1>2, PTL DEF Spec

-----------------------------------------------------------------------------
(* The stop stays latched while an incident that latches it is open: such an *)
(* incident always blocks, so clearEmergencyStop refuses; and it is only     *)
(* ever opened, or re-pointed, by a report that latches.                     *)

Latches(type) == \E p \in SafetyStates : /\ POLICIES[p].incidentType = type
                                         /\ POLICIES[p].engageKillSwitch

LatchInv ==
    /\ TypeInv
    /\ LatchHeld
    /\ \A i \in incidents : Latches(i.type) => i.blocks
    /\ \A o \in Operators : request[o].op # "CLEAR_STOP"

LEMMA LatchingTypes ==
    /\ \A p \in SafetyStates \ {"LOGIN_REQUIRED"} : POLICIES[p].engageKillSwitch
    /\ \A type : Latches(type) =>
         type \notin {"PROFILE_UNPROCESSABLE", "BROWSER_ERROR", "NETWORK_FAILURE", "LOGIN_REQUIRED"}
    /\ POLICIES["LOGIN_REQUIRED"].incidentType = "LOGIN_REQUIRED"
    /\ POLICIES["NETWORK_ERROR"].incidentType = "NETWORK_FAILURE"
<1> USE DEF POLICIES, Row, SafetyStates
<1>1. ASSUME NEW p \in SafetyStates
      PROVE  /\ p # "LOGIN_REQUIRED" => POLICIES[p].engageKillSwitch
             /\ POLICIES[p].incidentType \in {"PROFILE_UNPROCESSABLE", "BROWSER_ERROR",
                                              "NETWORK_FAILURE", "LOGIN_REQUIRED"}
                  => ~POLICIES[p].engageKillSwitch
  <2>1. CASE p = "CAPTCHA" BY <2>1
  <2>2. CASE p = "SECURITY_CHALLENGE" BY <2>2
  <2>3. CASE p = "ACCOUNT_RESTRICTED" BY <2>3
  <2>4. CASE p = "LOGIN_REQUIRED" BY <2>4
  <2>5. CASE p = "UNKNOWN_PAGE" BY <2>5
  <2> QED BY <1>1, <2>1, <2>2, <2>3, <2>4, <2>5
<1>2. POLICIES["LOGIN_REQUIRED"].incidentType = "LOGIN_REQUIRED"
  OBVIOUS
<1>3. POLICIES["NETWORK_ERROR"].incidentType = "NETWORK_FAILURE"
  OBVIOUS
<1> HIDE DEF POLICIES, SafetyStates
<1> QED BY <1>1, <1>2, <1>3 DEF Latches

\* A report that raises a latching incident is one that latches, and blocks.
LEMMA LatchingReports ==
    ASSUME NEW r \in Report, r.class # "NONE", Latches(EscalatedType(r))
    PROVE  r.class = "SAFETY" /\ POLICIES[r.page].engageKillSwitch
<1>1. /\ r.class \in {"TECHNICAL", "PERMANENT", "SAFETY"}
      /\ r.class = "TECHNICAL" => r.page \in {NULL, "NETWORK_ERROR"}
      /\ r.class = "SAFETY" => r.page \in SafetyStates
  BY DEF Report, Completions, TechnicalFailures, PermanentFailures, SafetyReports
<1>2. r.class = "SAFETY"
  BY <1>1, LatchingTypes DEF EscalatedType
<1>3. r.page # NULL /\ r.page \in SafetyStates
  BY <1>1, <1>2 DEF SafetyStates, NULL
<1>4. r.page # "LOGIN_REQUIRED"
  BY <1>2, <1>3, LatchingTypes DEF EscalatedType
<1> QED BY <1>2, <1>3, <1>4, LatchingTypes

LEMMA LatchEscalate ==
    ASSUME LatchInv, NEW w \in Workers, Escalate(w)
    PROVE  /\ LatchHeld'
           /\ \A i \in incidents' : Latches(i.type) => i.blocks
<1> DEFINE r == worker[w].report
<1> DEFINE j == worker[w].job
<1> DEFINE blocks == r.class = "SAFETY"
<1> DEFINE engage == r.class = "SAFETY" /\ POLICIES[r.page].engageKillSwitch
<1> DEFINE created == [type |-> EscalatedType(r), job |-> j, campaign |-> JobCampaign(j),
                       seq |-> worker[w].token, blocks |-> blocks]
<1>1. r \in Report /\ r.class # "NONE"
  BY DEF Escalate, LatchInv, TypeInv, WorkerShape
<1>2. \A i \in incidents' :
        \/ i \in incidents
        \/ i = created
        \/ \E k \in incidents : i = Repointed(k, j, worker[w].token)
  BY DEF Escalate, OpenIncident
<1>3. kill' = (kill \/ engage)
  BY DEF Escalate, OpenIncident
<1>4. created.type = EscalatedType(r) /\ created.blocks = blocks
  OBVIOUS
<1>5. Latches(created.type) => engage /\ created.blocks
  BY <1>1, <1>4, LatchingReports
<1>6. \A k \in incidents :
        /\ Repointed(k, j, worker[w].token).type = k.type
        /\ Repointed(k, j, worker[w].token).blocks = k.blocks
  BY DEF Repointed, LatchInv, TypeInv, TypeOK, Incident
<1>7. \A i \in incidents : Latches(i.type) => i.blocks /\ kill
  BY DEF LatchInv, LatchHeld, Latches
<1> HIDE DEF created, engage
<1>8. ASSUME NEW i \in incidents', Latches(i.type)
      PROVE  i.blocks /\ (engage \/ kill)
  <2>1. CASE i \in incidents
    BY <1>7, <1>8, <2>1
  <2>2. CASE i = created
    BY <1>5, <1>8, <2>2
  <2>3. ASSUME NEW k \in incidents, i = Repointed(k, j, worker[w].token)
        PROVE  i.blocks /\ kill
    <3>1. i.type = k.type /\ i.blocks = k.blocks
      BY <1>6, <2>3
    <3> QED BY <1>7, <1>8, <3>1
  <2> QED BY <1>2, <2>1, <2>2, <2>3
<1>9. \A i \in incidents' : Latches(i.type) => kill'
  BY <1>3, <1>8
<1> QED BY <1>8, <1>9 DEF LatchHeld, Latches

LEMMA LatchStep == SerialTx /\ LatchInv /\ [Next]_vars => LatchInv'
<1> SUFFICES ASSUME SerialTx, LatchInv, [Next]_vars PROVE LatchInv'
  OBVIOUS
<1>1. TypeInv'
  BY TypeStep DEF LatchInv
<1>2. \A o \in Operators : request'[o].op # "CLEAR_STOP"
  <2>1. ASSUME NEW o \in Operators, OperatorRequest(o) \/ OperatorWrite(o)
        PROVE  request'[o].op # "CLEAR_STOP" /\ \A p \in Operators \ {o} : request'[p] = request[p]
    BY <2>1
    DEF LatchInv, TypeInv, TypeOK, OperatorRequest, OperatorWrite, GenerateRead,
        ActivateChecks, ResumeRead, CancelRead, RequeueRead, SetLeadRead, ReapScan, ClearRead,
        ActivateRead, ResumeChecks, GenerateWrite, CancelWrite, RequeueWrite, SetLeadWrite,
        ReapJob, StartWrite, ClearWrite, Asks, Answered, NoRequest
  <2>2. CASE UNCHANGED request
    BY <2>2 DEF LatchInv
  <2>3. UNCHANGED request \/ \E o \in Operators : OperatorRequest(o) \/ OperatorWrite(o)
    <3>1. ASSUME NEW w \in Workers, WorkerStep(w) PROVE UNCHANGED request
      BY <3>1
      DEF WorkerStep, PassGate, ClaimEmpty, ClaimNextJob, CompleteJob, FailJob, ResultRead,
          CompleteWrite, FailWrite, RecordCompletion, RecordFailure, Escalate,
          EscalationFails, ResultAborted, ReportRejected, WorkerDies
    <3>2. CASE OperatorAction
      BY <3>2
      DEF OperatorAction, EmergencyStop, ClearEmergencyStop, ResolveIncident, PauseCampaign,
          ClearCampaignQueue
    <3>3. CASE (\E j \in Jobs : LeaseExpires(j)) \/ UNCHANGED vars
      BY <3>3 DEF LeaseExpires, vars
    <3> QED BY <3>1, <3>2, <3>3 DEF Next
  <2> QED BY <2>1, <2>2, <2>3 DEF LatchInv
<1>3. LatchHeld' /\ \A i \in incidents' : Latches(i.type) => i.blocks
  <2>1. CASE \E w \in Workers : Escalate(w)
    BY <2>1, LatchEscalate
  <2>2. CASE ClearEmergencyStop
    <3>1. \A i \in incidents : ~i.blocks
      BY <2>2 DEF ClearEmergencyStop, ClearAllowed, Blocking
    <3> QED BY <2>2, <3>1 DEF ClearEmergencyStop, LatchInv, LatchHeld, Latches
  <2>3. CASE incidents' \subseteq incidents /\ (kill => kill')
    BY <2>3 DEF LatchInv, LatchHeld
  <2>4. ASSUME NEW w \in Workers, WorkerStep(w), ~Escalate(w)
        PROVE  incidents' = incidents /\ kill' = kill
    BY <2>4
    DEF WorkerStep, tables, PassGate, ClaimEmpty, ClaimNextJob, CompleteJob, FailJob, ResultRead,
        CompleteWrite, FailWrite, RecordCompletion, RecordFailure, EscalationFails,
        ResultAborted, ReportRejected, WorkerDies
  <2>5. ASSUME NEW o \in Operators, OperatorRequest(o)
        PROVE  incidents' = incidents /\ kill' = kill
    BY <2>5
    DEF OperatorRequest, tables, GenerateRead, ActivateChecks, ResumeRead, CancelRead,
        RequeueRead, SetLeadRead, ReapScan, ClearRead, ActivateRead, ResumeChecks
  <2>6. ASSUME NEW o \in Operators, OperatorWrite(o)
        PROVE  incidents' \subseteq incidents /\ (kill => kill')
    <3>1. ~ClearWrite(o)
      BY DEF LatchInv, ClearWrite
    <3> QED BY <2>6, <3>1
      DEF OperatorWrite, GenerateWrite, CancelWrite, RequeueWrite, SetLeadWrite, ReapJob,
          StartWrite
  <2>7. CASE OperatorAction
    <3>1. ClearEmergencyStop \/ (incidents' \subseteq incidents /\ (kill => kill'))
      BY <2>7
      DEF OperatorAction, EmergencyStop, ResolveIncident, PauseCampaign, ClearCampaignQueue
    <3> QED BY <2>2, <2>3, <3>1
  <2>8. CASE (\E j \in Jobs : LeaseExpires(j)) \/ UNCHANGED vars
    <3>1. incidents' = incidents /\ kill' = kill
      BY <2>8 DEF LeaseExpires, vars
    <3> QED BY <2>3, <3>1
  <2> QED BY <2>1, <2>3, <2>4, <2>5, <2>6, <2>7, <2>8 DEF Next
<1> QED BY <1>1, <1>2, <1>3 DEF LatchInv

\* While an incident that latches the stop is open, nobody can clear the stop
\* (clearEmergencyStop, openIncident), when the pool has one connection.
THEOREM StopStaysLatched ==
    ASSUME SerialTx
    PROVE  Spec => []LatchHeld
<1>1. Init => LatchInv
  BY TypeInit DEF Init, LatchInv, LatchHeld, NoRequest
<1>2. LatchInv /\ [Next]_vars => LatchInv'
  BY LatchStep
<1>3. LatchInv => LatchHeld
  BY DEF LatchInv
<1> QED BY <1>1, <1>2, <1>3, PTL DEF Spec
=============================================================================
