------------------------ MODULE OutreachClaimProofs ------------------------
(***************************************************************************)
(* One holder per lead, no claim on an invited lead, no stranded lead, and  *)
(* the life of a claim as ClaimLifecycle has it, as theorems.               *)
(*                                                                          *)
(* The argument for the first three: only ClaimNextJob makes a claim.       *)
(* Every other step `settles': it creates no claim, gives no worker another *)
(* job or token, revives a row only if no sibling row is live, and leaves a *)
(* lead in PROCESSING only if the claim behind it stays.  A settling step   *)
(* preserves the invariant, whatever else it does; the claim is treated by  *)
(* itself.                                                                  *)
(***************************************************************************)
EXTENDS OutreachSystemProofs

\* A worker's claim is of a row that exists, its token was issued for it, and
\* no other worker was given the same token.
ClaimBacked ==
    /\ \A w \in Workers : worker[w].job # NoJob =>
         /\ job[worker[w].job].status # "ABSENT"
         /\ worker[w].token <= job[worker[w].job].attempts
    /\ \A v, w \in Workers :
         (v # w /\ worker[v].job # NoJob /\ worker[v].job = worker[w].job)
            => worker[v].token # worker[w].token

ClaimInv == TypeInv /\ ClaimBacked /\ OneLiveJobPerLead /\ NoStrandedLead

Settles ==
    /\ \A j \in Jobs : job[j].status # "ABSENT" =>
         job'[j].status # "ABSENT" /\ job'[j].attempts = job[j].attempts
    /\ \A w \in Workers : worker'[w].job # NoJob =>
         worker'[w].job = worker[w].job /\ worker'[w].token = worker[w].token
    /\ \A j \in Jobs : job'[j].status \in LiveStatus =>
         \/ job[j].status \in LiveStatus
         \/ \A k \in JobsOf(JobLead[j]) \ {j} : job'[k].status \notin LiveStatus
    /\ \A j \in Jobs : job'[j].status = "PROCESSING" => job[j].status = "PROCESSING"
    /\ \A l \in Leads : lead'[l].status = "PROCESSING" =>
         /\ lead[l].status = "PROCESSING"
         /\ \A j \in JobsOf(l) : job[j].status = "PROCESSING" => job'[j].status = "PROCESSING"

LEMMA ClaimInit == Init => ClaimInv
<1> SUFFICES ASSUME Init PROVE ClaimInv
  OBVIOUS
<1>1. ClaimBacked
  BY DEF Init, ClaimBacked, Idle
<1>2. OneLiveJobPerLead /\ NoStrandedLead
  BY DEF Init, OneLiveJobPerLead, NoStrandedLead, LiveStatus
<1> QED BY <1>1, <1>2, TypeInit DEF ClaimInv

LEMMA SettlingStep ==
    ASSUME ClaimInv, TypeInv', Settles
    PROVE  ClaimInv'
<1> USE OutreachAssumption
<1>1. \A w \in Workers : worker'[w].job # NoJob => worker'[w].job \in Jobs
  BY DEF TypeInv, TypeOK, WorkerState
<1>2. ClaimBacked'
  BY <1>1 DEF ClaimInv, ClaimBacked, Settles
<1>3. OneLiveJobPerLead'
  BY DEF ClaimInv, OneLiveJobPerLead, Settles, JobsOf
<1>4. NoStrandedLead'
  BY DEF ClaimInv, NoStrandedLead, Settles, JobsOf
<1> QED BY <1>2, <1>3, <1>4 DEF ClaimInv

LEMMA ClaimStep ==
    ASSUME ClaimInv, TypeInv', NEW w \in Workers, NEW j \in Jobs, ClaimNextJob(w, j)
    PROVE  ClaimInv'
<1> USE OutreachAssumption DEF ClaimInv
<1>1. /\ \A k \in Jobs : k # j => job'[k] = job[k]
      /\ job[j].status = "WAITING" /\ job'[j].status = "PROCESSING"
      /\ job[j].attempts \in Nat /\ job'[j].attempts = job[j].attempts + 1
      /\ \A v \in Workers : v # w => worker'[v] = worker[v]
      /\ worker'[w].job = j /\ worker'[w].token = job[j].attempts + 1
  BY DEF ClaimNextJob, Claimable, SetJob, ClaimToken, TypeInv, TypeOK, JobRow
<1>2. \A v \in Workers : worker[v].job # NoJob =>
         worker[v].job \in Jobs /\ worker[v].token \in Nat
  BY DEF TypeInv, TypeOK, WorkerState
<1>3. ClaimBacked'
  <2>1. \A v \in Workers : worker'[v].job # NoJob =>
          /\ job'[worker'[v].job].status # "ABSENT"
          /\ worker'[v].token <= job'[worker'[v].job].attempts
    BY <1>1, <1>2 DEF ClaimBacked
  <2>2. \A v \in Workers : v # w /\ worker'[v].job = j => worker'[v].token <= job[j].attempts
    BY <1>1, <1>2 DEF ClaimBacked
  <2>3. \A v \in Workers : v # w /\ worker'[v].job = j => worker'[v].token # worker'[w].token
    BY <1>1, <1>2, <2>2
  <2> QED BY <1>1, <2>1, <2>3 DEF ClaimBacked
<1>4. OneLiveJobPerLead'
  BY <1>1 DEF OneLiveJobPerLead, LiveStatus
<1>5. NoStrandedLead'
  <2>1. \A l \in Leads : lead'[l].status = "PROCESSING" =>
           lead[l].status = "PROCESSING" \/ l = JobLead[j]
    BY DEF ClaimNextJob, SetLeadStatus, TypeInv, TypeOK, LeadRow
  <2>2. j \in JobsOf(JobLead[j])
    BY DEF JobsOf
  <2> QED BY <1>1, <2>1, <2>2 DEF NoStrandedLead, JobsOf
<1> QED BY <1>3, <1>4, <1>5

-----------------------------------------------------------------------------
(* Every step but a claim settles. *)

\* What Settles asks of the workers, of the job rows and of the leads.
KeepsWork ==
    \A w \in Workers : worker'[w].job # NoJob =>
        worker'[w].job = worker[w].job /\ worker'[w].token = worker[w].token

\* The step writes at most the rows of S, whose claims end.
EndsClaims(S) ==
    /\ \A j \in Jobs \ S : job'[j] = job[j]
    /\ \A j \in S :
         /\ job'[j].status \notin {"ABSENT", "PROCESSING"}
         /\ job[j].status # "ABSENT" => job'[j].attempts = job[j].attempts
         /\ job'[j].status = "WAITING" =>
              \/ job[j].status \in LiveStatus
              \/ \A k \in JobsOf(JobLead[j]) \ {j} : job'[k].status \notin LiveStatus

\* A lead with a claim that ends is taken out of PROCESSING.
ReleasesLeads(S) ==
    \A l \in Leads : lead'[l].status = "PROCESSING" =>
        /\ lead[l].status = "PROCESSING"
        /\ \A j \in JobsOf(l) \cap S : job[j].status # "PROCESSING"

LEMMA SettlesBy ==
    ASSUME TypeInv, NEW S \in SUBSET Jobs, KeepsWork, EndsClaims(S), ReleasesLeads(S)
    PROVE  Settles
<1>1. ASSUME NEW j \in Jobs, job[j].status # "ABSENT"
      PROVE  job'[j].status # "ABSENT" /\ job'[j].attempts = job[j].attempts
  BY <1>1 DEF EndsClaims
<1>2. ASSUME NEW j \in Jobs, job'[j].status \in LiveStatus
      PROVE  \/ job[j].status \in LiveStatus
             \/ \A k \in JobsOf(JobLead[j]) \ {j} : job'[k].status \notin LiveStatus
  <2>1. CASE j \in S
    BY <1>2, <2>1 DEF EndsClaims, LiveStatus
  <2>2. CASE j \notin S
    BY <1>2, <2>2 DEF EndsClaims
  <2> QED BY <2>1, <2>2
<1>3. ASSUME NEW j \in Jobs, job'[j].status = "PROCESSING"
      PROVE  job[j].status = "PROCESSING"
  BY <1>3 DEF EndsClaims
<1>4. ASSUME NEW l \in Leads, lead'[l].status = "PROCESSING"
      PROVE  /\ lead[l].status = "PROCESSING"
             /\ \A j \in JobsOf(l) : job[j].status = "PROCESSING" => job'[j].status = "PROCESSING"
  BY <1>4 DEF EndsClaims, ReleasesLeads, JobsOf
<1> QED BY <1>1, <1>2, <1>3, <1>4 DEF Settles, KeepsWork

LEMMA QuietSettles ==
    ASSUME TypeInv, KeepsWork, UNCHANGED <<job, lead>>
    PROVE  Settles
  BY DEF KeepsWork, Settles, LiveStatus

LEMMA RepliedKeepsWork ==
    ASSUME TypeInv, NEW w \in Workers, Replied(w)
    PROVE  KeepsWork
<1> DEFINE atWork == [worker[w] EXCEPT !.phase = "WORKING", !.report = NoReport]
<1>1. PICK after \in {Idle, atWork} : worker' = [worker EXCEPT ![w] = after]
  BY DEF Replied
<1>2. /\ Idle.job = NoJob
      /\ atWork.job = worker[w].job /\ atWork.token = worker[w].token
  BY DEF TypeInv, TypeOK, WorkerState, Idle
<1> HIDE DEF atWork
<1>3. after.job = NoJob \/ (after.job = worker[w].job /\ after.token = worker[w].token)
  BY <1>1, <1>2
<1> QED BY <1>1, <1>3 DEF KeepsWork, TypeInv, TypeOK

\* cancelling what waits or is under review touches no claim
LEMMA CancelEnds ==
    ASSUME TypeInv, NEW S \in SUBSET Jobs, NEW st \in SUBSET {"WAITING", "REQUIRES_REVIEW"},
           CancelIn(S, st)
    PROVE  \E D \in SUBSET Jobs :
             /\ EndsClaims(D)
             /\ \A j \in D : job[j].status # "PROCESSING"
<1> DEFINE D == {j \in S : job[j].status \in st}
<1>1. \A j \in D : job'[j] = InStatus(job[j], "CANCELLED") /\ job[j] \in JobRow
  BY DEF CancelIn, TypeInv, TypeOK
<1>2. \A j \in D : job'[j].status = "CANCELLED" /\ job'[j].attempts = job[j].attempts
  <2>1. ASSUME NEW r \in JobRow
        PROVE  /\ InStatus(r, "CANCELLED").status = "CANCELLED"
               /\ InStatus(r, "CANCELLED").attempts = r.attempts
    BY DEF InStatus, JobRow
  <2> HIDE DEF D
  <2> QED BY <1>1, <2>1
<1>3. \A j \in Jobs \ D : job'[j] = job[j]
  BY DEF CancelIn, TypeInv, TypeOK
<1>4. EndsClaims(D)
  BY <1>2, <1>3 DEF EndsClaims
<1> QED BY <1>4

\* Closing one row, or putting it back in the queue while no sibling is live.
LEMMA RowEnds ==
    ASSUME TypeInv, NEW j \in Jobs, NEW row \in JobRow, SetJob(j, row),
           row.status \notin {"ABSENT", "PROCESSING"}, row.attempts = job[j].attempts,
           row.status = "WAITING" => job[j].status \in LiveStatus \/ LiveIndexFree(j)
    PROVE  EndsClaims({j})
<1>1. job'[j] = row /\ \A k \in Jobs \ {j} : job'[k] = job[k]
  BY DEF SetJob, TypeInv, TypeOK
<1>2. LiveIndexFree(j) => \A k \in JobsOf(JobLead[j]) \ {j} : job'[k].status \notin LiveStatus
  BY <1>1 DEF LiveIndexFree, JobsOf
<1> QED BY <1>1, <1>2 DEF EndsClaims

\* The lead of row j takes a status other than PROCESSING.
LEMMA LeadReleased ==
    ASSUME TypeInv, NEW j \in Jobs, NEW l \in Leads, NEW row,
           lead' = [lead EXCEPT ![l] = row], row.status # "PROCESSING", l = JobLead[j]
    PROVE  ReleasesLeads({j})
  BY DEF ReleasesLeads, TypeInv, TypeOK, JobsOf

LEMMA LeadStatusReleased ==
    ASSUME TypeInv, NEW j \in Jobs, NEW s, s # "PROCESSING", SetLeadStatus(JobLead[j], s)
    PROVE  ReleasesLeads({j})
<1>1. JobLead[j] \in Leads
  BY OutreachAssumption
<1>2. lead'[JobLead[j]].status = s /\ \A l \in Leads \ {JobLead[j]} : lead'[l] = lead[l]
  BY <1>1 DEF SetLeadStatus, TypeInv, TypeOK, LeadRow
<1> QED BY <1>2 DEF ReleasesLeads, JobsOf

LEMMA WorkerSettles ==
    ASSUME TypeInv, NEW w \in Workers, WorkerStep(w), ~\E j \in Jobs : ClaimNextJob(w, j)
    PROVE  Settles
<1> USE OutreachAssumption
<1>1. /\ worker[w] \in WorkerState
      /\ worker[w].phase \notin {"IDLE", "GATED"} => worker[w].job \in Jobs
  BY DEF TypeInv, TypeOK, WorkerShape, WorkerState
<1>2. CASE PassGate(w) \/ ClaimEmpty(w) \/ ReportRejected(w) \/ WorkerDies(w)
  <2>1. KeepsWork
    BY <1>1, <1>2 DEF PassGate, ClaimEmpty, ReportRejected, WorkerDies, Idle, KeepsWork,
                      TypeInv, TypeOK, WorkerState
  <2> QED BY <1>2, <2>1, QuietSettles DEF PassGate, ClaimEmpty, ReportRejected, WorkerDies, tables
<1>3. ASSUME NEW r \in Reports, ResultRead(w, r) PROVE Settles
  <2>1. KeepsWork
    BY <1>1, <1>3 DEF ResultRead, KeepsWork, TypeInv, TypeOK, WorkerState
  <2> QED BY <1>3, <2>1, QuietSettles DEF ResultRead, tables
<1>4. CASE Escalate(w) \/ EscalationFails(w) \/ ResultAborted(w)
  BY <1>4, RepliedKeepsWork, QuietSettles DEF Escalate, EscalationFails, ResultAborted, tables
<1>5. ASSUME NEW r \in Report, r.class = "NONE", worker[w].job \in Jobs,
             RecordCompletion(w, r.page)
      PROVE  Settles
  <2> DEFINE j == worker[w].job
  <2> DEFINE l == JobLead[j]
  <2> DEFINE status == CompletionPolicy(r.page).queueStatus
  <2>1. /\ status \in {"COMPLETED", "FAILED", "REQUIRES_REVIEW"}
        /\ LeadAfterCompletion(lead[l], r.page).status # "PROCESSING"
    BY <1>5, CompletionTypes DEF TypeInv, TypeOK
  <2>2. /\ Unclaimed(InStatus(job[j], status)) \in JobRow
        /\ Unclaimed(InStatus(job[j], status)).status = status
        /\ Unclaimed(InStatus(job[j], status)).attempts = job[j].attempts
    BY <1>5, <2>1, RowUpdates DEF JobStatus, TypeInv, TypeOK
  <2>3. EndsClaims({j})
    BY <1>5, <2>1, <2>2, RowEnds DEF RecordCompletion
  <2>4. ReleasesLeads({j})
    BY <1>5, <2>1, LeadReleased DEF RecordCompletion
  <2> QED BY <1>5, <2>3, <2>4, RepliedKeepsWork, SettlesBy DEF RecordCompletion
<1>6. ASSUME NEW r \in Report, r.class # "NONE", worker[w].job \in Jobs, RecordFailure(w, r)
      PROVE  Settles
  <2> DEFINE j == worker[w].job
  <2> DEFINE d == Disposition(r.class, worker[w].token, job[j].maxAttempts)
  <2> DEFINE policy == FailurePolicy(r.class, r.page)
  <2> DEFINE status == FailedJobStatus(d, policy)
  <2>1. /\ status \in {"WAITING", "FAILED", "REQUIRES_REVIEW"}
        /\ FailedLeadStatus(d, policy) # "PROCESSING"
    BY <1>6, FailureTypes, DispositionTypes
  <2>2. /\ Unclaimed(InStatus(job[j], status)) \in JobRow
        /\ Unclaimed(InStatus(job[j], status)).status = status
        /\ Unclaimed(InStatus(job[j], status)).attempts = job[j].attempts
    BY <1>6, <2>1, RowUpdates DEF JobStatus, TypeInv, TypeOK
  <2>3. EndsClaims({j})
    BY <1>6, <2>1, <2>2, RowEnds DEF RecordFailure
  <2>4. ReleasesLeads({j})
    BY <1>6, <2>1, LeadStatusReleased DEF RecordFailure
  <2>5. KeepsWork
    <3>1. CASE worker' = [worker EXCEPT ![w].phase = "ESCALATING", ![w].report = r]
      BY <1>1, <3>1 DEF KeepsWork, TypeInv, TypeOK, WorkerState
    <3> QED BY <1>6, <3>1, RepliedKeepsWork DEF RecordFailure
  <2> QED BY <1>6, <2>3, <2>4, <2>5, SettlesBy
<1>7. CASE CompleteWrite(w)
  BY <1>1, <1>5, <1>7 DEF CompleteWrite, TypeInv, WorkerShape
<1>8. CASE FailWrite(w)
  BY <1>1, <1>6, <1>8 DEF FailWrite, TypeInv, WorkerShape
<1>9. ASSUME NEW r \in Reports, CompleteJob(w, r) \/ FailJob(w, r) PROVE Settles
  BY <1>1, <1>5, <1>6, <1>9 DEF CompleteJob, FailJob
<1> QED BY <1>2, <1>3, <1>4, <1>7, <1>8, <1>9 DEF WorkerStep

\* A step that is not a worker's keeps every worker's work.
LEMMA OthersKeepWork == UNCHANGED worker => KeepsWork
  BY DEF KeepsWork

LEMMA RequestSettles ==
    ASSUME TypeInv, NEW o \in Operators, OperatorRequest(o)
    PROVE  Settles
<1>1. UNCHANGED <<tables, worker>>
  BY DEF OperatorRequest, GenerateRead, ActivateChecks, ResumeRead, CancelRead, RequeueRead,
         SetLeadRead, ReapScan, ClearRead, ActivateRead, ResumeChecks
<1> QED BY <1>1, OthersKeepWork, QuietSettles DEF tables

LEMMA WriteSettles ==
    ASSUME ClaimInv, NEW o \in Operators, OperatorWrite(o)
    PROVE  Settles
<1> USE OutreachAssumption
<1>1. TypeInv /\ request[o] \in Request
  BY DEF ClaimInv, TypeInv, TypeOK
<1>2. CASE GenerateWrite(o)
  <2> DEFINE insertable == {l \in request[o].leads :
                              /\ FreshRows(l) # {}
                              /\ \A j \in JobsOf(l) : job[j].status \notin LiveStatus}
  <2> DEFINE rows == {InsertedRow(l) : l \in insertable}
  <2>1. \A l \in insertable : /\ InsertedRow(l) \in JobsOf(l)
                              /\ job[InsertedRow(l)].status = "ABSENT"
    <3> SUFFICES ASSUME NEW l \in insertable
                 PROVE  InsertedRow(l) \in FreshRows(l)
      BY DEF FreshRows
    <3> QED BY DEF InsertedRow
  <2>2. rows \in SUBSET Jobs
    BY <2>1 DEF JobsOf
  <2>3. /\ \A j \in rows : job'[j] = NewRow
        /\ \A j \in Jobs \ rows : job'[j] = job[j]
    BY <1>2, <2>2 DEF GenerateWrite
  <2>4. ASSUME NEW j \in rows, NEW k \in JobsOf(JobLead[j]) \ {j}
        PROVE  job'[k].status \notin LiveStatus
    <3>1. PICK l \in insertable : j = InsertedRow(l)
      OBVIOUS
    <3>2. JobLead[j] = l /\ k \in Jobs /\ JobLead[k] = l
      BY <2>1, <3>1 DEF JobsOf
    <3>3. k \notin rows
      BY <2>1, <3>1, <3>2 DEF JobsOf
    <3> QED BY <2>3, <3>2, <3>3 DEF JobsOf
  <2>5. EndsClaims(rows)
    <3>1. \A j \in rows : job[j].status = "ABSENT"
      BY <2>1
    <3> HIDE DEF rows
    <3> QED BY <2>3, <2>4, <3>1 DEF EndsClaims, NewRow
  <2>6. ReleasesLeads(rows)
    BY <1>2, <2>1 DEF GenerateWrite, ReleasesLeads
  <2> QED BY <1>1, <1>2, <2>2, <2>5, <2>6, OthersKeepWork, SettlesBy DEF GenerateWrite
<1>3. CASE CancelWrite(o)
  <2> DEFINE j == request[o].job
  <2>1. j \in Jobs /\ JobLead[j] \in Leads /\ job[j] \in JobRow
    BY <1>1, <1>3, RequestShape DEF CancelWrite, TypeInv, TypeOK
  <2>2. EndsClaims({j})
    <3>1. InStatus(job[j], "CANCELLED") \in JobRow
      BY <2>1, RowUpdates DEF JobStatus
    <3>2. /\ InStatus(job[j], "CANCELLED").status = "CANCELLED"
          /\ InStatus(job[j], "CANCELLED").attempts = job[j].attempts
      BY <2>1 DEF InStatus, JobRow
    <3> QED BY <1>1, <1>3, <2>1, <3>1, <3>2, RowEnds DEF CancelWrite
  <2>3. ReleasesLeads({j})
    BY <1>1, <1>3, <2>1, LeadStatusReleased DEF CancelWrite, ReleasesLeads, JobsOf
  <2> QED BY <1>1, <1>3, <2>1, <2>2, <2>3, OthersKeepWork, SettlesBy DEF CancelWrite
<1>4. CASE RequeueWrite(o)
  <2> DEFINE j == request[o].job
  <2>1. j \in Jobs /\ job[j] \in JobRow /\ request[o].attempts + 1 \in Nat
    BY <1>1, <1>4, RequestShape DEF RequeueWrite, TypeInv, TypeOK
  <2>2. CASE LiveIndexFree(j)
    <3> DEFINE base == Unclaimed(InStatus(job[j], "WAITING"))
    <3> DEFINE row == [base EXCEPT !.maxAttempts = request[o].attempts + 1]
    <3>1. base \in JobRow /\ base.status = "WAITING" /\ base.attempts = job[j].attempts
      BY <2>1, RowUpdates DEF JobStatus
    <3>2. row \in JobRow /\ row.status = "WAITING" /\ row.attempts = job[j].attempts
      <4> HIDE DEF base
      <4> QED BY <2>1, <3>1 DEF JobRow
    <3>3. SetJob(j, row) /\ SetLeadStatus(JobLead[j], "PENDING") /\ UNCHANGED worker
      BY <1>4, <2>2 DEF RequeueWrite
    <3> HIDE DEF row
    <3>4. EndsClaims({j})
      BY <1>1, <2>1, <2>2, <3>2, <3>3, RowEnds
    <3>5. ReleasesLeads({j})
      BY <1>1, <2>1, <3>3, LeadStatusReleased
    <3> QED BY <1>1, <2>1, <3>3, <3>4, <3>5, OthersKeepWork, SettlesBy
  <2>3. CASE ~LiveIndexFree(j)
    BY <1>1, <1>4, <2>3, OthersKeepWork, QuietSettles DEF RequeueWrite
  <2> QED BY <2>2, <2>3
<1>5. ASSUME NEW s \in LeadStatus, SetLeadWrite(o, s) PROVE Settles
  <2>1. request[o].lead \in Leads /\ s # "PROCESSING" /\ SetLeadStatus(request[o].lead, s)
    BY <1>1, <1>5, RequestShape DEF SetLeadWrite
  <2>2. PICK D \in SUBSET Jobs : EndsClaims(D) /\ \A j \in D : job[j].status # "PROCESSING"
    <3>1. CASE UNCHANGED job
      <4>1. EndsClaims({})
        BY <3>1 DEF EndsClaims
      <4> QED BY <4>1
    <3>2. CASE CancelIn(JobsOf(request[o].lead), {"WAITING", "REQUIRES_REVIEW"})
      BY <1>1, <3>2, CancelEnds DEF JobsOf
    <3> QED BY <1>5, <3>1, <3>2 DEF SetLeadWrite
  <2>3. ReleasesLeads(D)
    BY <1>1, <2>1, <2>2 DEF ReleasesLeads, SetLeadStatus, TypeInv, TypeOK, LeadRow
  <2> QED BY <1>1, <1>5, <2>2, <2>3, OthersKeepWork, SettlesBy DEF SetLeadWrite
<1>6. CASE ReapJob(o)
  <2>1. PICK row \in request[o].rows : Reap(row)
    BY <1>6 DEF ReapJob
  <2> DEFINE j == row.job
  <2> DEFINE status == IF row.exhausted THEN "FAILED" ELSE "WAITING"
  <2>2. j \in Jobs /\ JobLead[j] \in Leads /\ job[j] \in JobRow
    BY <1>1, <1>6, RequestShape DEF ReapJob, ReapRow, TypeInv, TypeOK
  <2>3. CASE job[j].status = "PROCESSING"
    <3>1. /\ Unclaimed(InStatus(job[j], status)) \in JobRow
          /\ Unclaimed(InStatus(job[j], status)).status = status
          /\ Unclaimed(InStatus(job[j], status)).attempts = job[j].attempts
      BY <2>2, RowUpdates DEF JobStatus
    <3>2. SetJob(j, Unclaimed(InStatus(job[j], status)))
      BY <2>1, <2>3 DEF Reap
    <3>3. EndsClaims({j})
      BY <1>1, <2>2, <2>3, <3>1, <3>2, RowEnds DEF LiveStatus
    <3>4. ReleasesLeads({j})
      <4>1. CASE lead[JobLead[j]].status = "PROCESSING"
        BY <1>1, <2>1, <2>2, <2>3, <4>1, LeadStatusReleased DEF Reap
      <4>2. CASE lead[JobLead[j]].status # "PROCESSING"
        BY <2>1, <2>2, <2>3, <4>2 DEF Reap, ReleasesLeads, JobsOf
      <4> QED BY <4>1, <4>2
    <3> QED BY <1>1, <1>6, <2>2, <3>3, <3>4, OthersKeepWork, SettlesBy DEF ReapJob
  <2>4. CASE job[j].status # "PROCESSING"
    BY <1>1, <1>6, <2>1, <2>4, OthersKeepWork, QuietSettles DEF ReapJob, Reap
  <2> QED BY <2>3, <2>4
<1>7. CASE StartWrite(o) \/ ClearWrite(o)
  BY <1>1, <1>7, OthersKeepWork, QuietSettles DEF StartWrite, ClearWrite
<1> QED BY <1>2, <1>3, <1>4, <1>5, <1>6, <1>7 DEF OperatorWrite

LEMMA ActionSettles ==
    ASSUME TypeInv, OperatorAction
    PROVE  Settles
<1> USE OutreachAssumption
<1>1. ASSUME NEW S \in SUBSET Jobs, NEW st \in SUBSET {"WAITING", "REQUIRES_REVIEW"},
             CancelIn(S, st), UNCHANGED worker,
             \A l \in Leads : lead'[l].status = "PROCESSING" => lead[l].status = "PROCESSING"
      PROVE  Settles
  <2>1. PICK D \in SUBSET Jobs : EndsClaims(D) /\ \A j \in D : job[j].status # "PROCESSING"
    BY <1>1, CancelEnds
  <2>2. ReleasesLeads(D)
    BY <1>1, <2>1 DEF ReleasesLeads
  <2> QED BY <1>1, <2>1, <2>2, OthersKeepWork, SettlesBy
<1>2. CASE EmergencyStop
  BY <1>1, <1>2 DEF EmergencyStop
<1>3. CASE ClearEmergencyStop
  BY <1>3, OthersKeepWork, QuietSettles DEF ClearEmergencyStop
<1>4. ASSUME NEW i \in incidents, ResolveIncident(i) PROVE Settles
  <2>1. i.job # NoJob => i.job \in Jobs /\ JobLead[i.job] \in Leads /\ job[i.job] \in JobRow
    BY DEF Incident, TypeInv, TypeOK
  <2>2. CASE UNCHANGED <<job, lead, campaign>>
    BY <1>4, <2>2, OthersKeepWork, QuietSettles DEF ResolveIncident
  <2>3. CASE RetireLead(i, "SKIPPED") \/ RetireLead(i, "BLOCKED")
    <3>1. \A l \in Leads : lead'[l].status = "PROCESSING" => lead[l].status = "PROCESSING"
      BY <2>1, <2>3 DEF RetireLead, SetLeadStatus, TypeInv, TypeOK, LeadRow
    <3> QED BY <1>1, <1>4, <2>3, <3>1 DEF RetireLead, ResolveIncident, JobsOf
  <2>4. CASE RequeueLead(i)
    <3>0. i.job \in Jobs /\ JobLead[i.job] \in Leads /\ job[i.job] \in JobRow
      BY <2>1, <2>4 DEF RequeueLead
    <3>1. ReleasesLeads({i.job})
      BY <3>0, <2>4, LeadStatusReleased DEF RequeueLead
    <3>2. CASE job[i.job].status = "REQUIRES_REVIEW"
      <4>1. /\ Unclaimed(InStatus(job[i.job], "WAITING")) \in JobRow
            /\ Unclaimed(InStatus(job[i.job], "WAITING")).status = "WAITING"
            /\ Unclaimed(InStatus(job[i.job], "WAITING")).attempts = job[i.job].attempts
        BY <3>0, RowUpdates DEF JobStatus
      <4>2. EndsClaims({i.job})
        BY <3>0, <2>4, <3>2, <4>1, RowEnds DEF RequeueLead
      <4> QED BY <1>4, <3>0, <3>1, <4>2, OthersKeepWork, SettlesBy DEF ResolveIncident
    <3>3. CASE job[i.job].status # "REQUIRES_REVIEW"
      <4>1. EndsClaims({})
        BY <2>4, <3>3 DEF RequeueLead, EndsClaims
      <4>2. ReleasesLeads({})
        BY <3>1 DEF ReleasesLeads
      <4> QED BY <1>4, <4>1, <4>2, OthersKeepWork, SettlesBy DEF ResolveIncident
    <3> QED BY <3>2, <3>3
  <2>5. CASE StopCampaign(i)
    BY <1>1, <1>4, <2>5 DEF StopCampaign, ResolveIncident, JobsIn
  <2> QED BY <1>4, <2>2, <2>3, <2>4, <2>5 DEF ResolveIncident
<1>5. ASSUME NEW c \in Campaigns, PauseCampaign(c) PROVE Settles
  BY <1>5, OthersKeepWork, QuietSettles DEF PauseCampaign
<1>6. ASSUME NEW c \in Campaigns, ClearCampaignQueue(c) PROVE Settles
  BY <1>1, <1>6 DEF ClearCampaignQueue, JobsIn
<1> QED BY <1>2, <1>3, <1>4, <1>5, <1>6 DEF OperatorAction

\* A lease that runs out changes what the reaper sees and nothing else.
LEMMA LeaseSettles ==
    ASSUME TypeInv, NEW j \in Jobs, LeaseExpires(j)
    PROVE  Settles
<1>1. \A k \in Jobs : job'[k].status = job[k].status /\ job'[k].attempts = job[k].attempts
  BY DEF LeaseExpires, SetJob, TypeInv, TypeOK, JobRow
<1> QED BY <1>1 DEF LeaseExpires, Settles, LiveStatus, JobsOf

LEMMA ClaimInvStep == ClaimInv /\ [Next]_vars => ClaimInv'
<1> SUFFICES ASSUME ClaimInv, [Next]_vars PROVE ClaimInv'
  OBVIOUS
<1>1. TypeInv /\ TypeInv'
  BY TypeStep DEF ClaimInv
<1>2. CASE \E w \in Workers, j \in Jobs : ClaimNextJob(w, j)
  BY <1>1, <1>2, ClaimStep
<1>3. CASE ~\E w \in Workers, j \in Jobs : ClaimNextJob(w, j)
  <2>1. CASE UNCHANGED vars
    BY <1>1, <2>1, OthersKeepWork, QuietSettles, SettlingStep DEF vars
  <2>2. CASE Next
    <3>1. Settles
      BY <1>1, <1>3, <2>2, WorkerSettles, RequestSettles, WriteSettles, ActionSettles,
         LeaseSettles DEF Next
    <3> QED BY <1>1, <3>1, SettlingStep
  <2> QED BY <2>1, <2>2
<1> QED BY <1>2, <1>3

THEOREM ClaimInvariant == Spec => []ClaimInv
  BY ClaimInit, ClaimInvStep, PTL DEF Spec

LEMMA OneHolderOfInv == ClaimInv => OneHolderPerLead
<1> SUFFICES ASSUME ClaimInv, NEW l \in Leads, NEW v \in Workers, NEW w \in Workers,
                    Holder(v, l), Holder(w, l)
             PROVE  v = w
  BY DEF OneHolderPerLead
<1>1. /\ worker[v].job \in Jobs /\ JobLead[worker[v].job] = l
      /\ worker[w].job \in Jobs /\ JobLead[worker[w].job] = l
  BY DEF Holder, JobsOf
<1>2. worker[v].job = worker[w].job
  BY <1>1 DEF Holder, ClaimInv, OneLiveJobPerLead, LiveStatus
<1>3. worker[v].token = worker[w].token
  BY <1>2 DEF Holder
<1> QED BY <1>1, <1>2, <1>3, OutreachAssumption DEF ClaimInv, ClaimBacked

\* Two browsers are never both entitled to act on one lead (claimNextJob,
\* completeJob, reapExpiredClaims), for any number of workers, operators and
\* rows, and whether or not transactions interleave.
THEOREM OneHolder == Spec => []OneHolderPerLead
  BY OneHolderOfInv, ClaimInvariant, PTL

\* A lead has at most one queued or claimed row.
THEOREM OneLiveJob == Spec => []OneLiveJobPerLead
  BY ClaimInvariant, PTL DEF ClaimInv

\* A lead marked as being processed has a claim behind it.
THEOREM NoLeadStranded == Spec => []NoStrandedLead
  BY ClaimInvariant, PTL DEF ClaimInv

-----------------------------------------------------------------------------
(* No claim on an invited lead, while transactions are serial: the lead of a *)
(* claim is invited only by the step that ends the claim, and no other row   *)
(* of the lead is live then.                                                 *)

InvitedInv ==
    /\ ClaimInv
    /\ NoClaimOnInvitedLead
    /\ \A w \in Workers : worker[w].phase # "RECORDING"

\* Only a recorded completion marks a lead as invited.
LEMMA OnlyCompletionInvites ==
    ASSUME ClaimInv, [Next]_vars,
           ~\E w \in Workers : \E r \in Reports : CompleteJob(w, r),
           ~\E w \in Workers : CompleteWrite(w)
    PROVE  \A l \in Leads : lead'[l].invited = lead[l].invited
<1> USE DEF ClaimInv, TypeInv, TypeOK, LeadRow
<1>1. CASE UNCHANGED lead
  BY <1>1
<1> DEFINE One == UNCHANGED lead \/ \E l, s : SetLeadStatus(l, s)
<1>2. One
  <2>1. ASSUME NEW w \in Workers, WorkerStep(w) PROVE One
    BY <2>1
    DEF WorkerStep, tables, PassGate, ClaimEmpty, ClaimNextJob, FailJob, FailWrite, RecordFailure,
        ResultRead, Escalate, EscalationFails, ResultAborted, ReportRejected, WorkerDies
  <2>2. ASSUME NEW o \in Operators, OperatorRequest(o) PROVE One
    BY <2>2
    DEF OperatorRequest, tables, GenerateRead, ActivateChecks, ResumeRead, CancelRead, RequeueRead,
        SetLeadRead, ReapScan, ClearRead, ActivateRead, ResumeChecks
  <2>3. ASSUME NEW o \in Operators, OperatorWrite(o) PROVE One
    BY <2>3
    DEF OperatorWrite, GenerateWrite, CancelWrite, RequeueWrite, SetLeadWrite, ReapJob, Reap,
        StartWrite, ClearWrite, RetireLead, RequeueLead
  <2>4. CASE OperatorAction
    BY <2>4
    DEF OperatorAction, EmergencyStop, ClearEmergencyStop, ResolveIncident, RetireLead, RequeueLead,
        StopCampaign, PauseCampaign, ClearCampaignQueue
  <2>5. CASE (\E j \in Jobs : LeaseExpires(j)) \/ UNCHANGED vars
    BY <2>5 DEF LeaseExpires, vars
  <2> QED BY <2>1, <2>2, <2>3, <2>4, <2>5 DEF Next
<1>3. ASSUME NEW l, NEW s, SetLeadStatus(l, s)
      PROVE  \A k \in Leads : lead'[k].invited = lead[k].invited
  BY <1>3 DEF SetLeadStatus
<1> QED BY <1>1, <1>2, <1>3

\* A new claim is of a lead not yet invited, and no step marks the lead of a
\* claim that goes on.
LEMMA InvitedStep == SerialTx /\ InvitedInv /\ [Next]_vars => InvitedInv'
<1> SUFFICES ASSUME SerialTx, InvitedInv, [Next]_vars PROVE InvitedInv'
  OBVIOUS
<1> USE OutreachAssumption DEF InvitedInv
<1>1. ClaimInv /\ ClaimInv' /\ TypeInv /\ TypeInv'
  BY ClaimInvStep DEF ClaimInv
<1>2. \A w \in Workers : worker'[w].phase # "RECORDING"
  <2>1. ASSUME NEW w \in Workers, Replied(w) PROVE \A v \in Workers : worker'[v].phase # "RECORDING"
    <3> DEFINE atWork == [worker[w] EXCEPT !.phase = "WORKING", !.report = NoReport]
    <3>1. PICK after \in {Idle, atWork} : worker' = [worker EXCEPT ![w] = after]
      BY <2>1 DEF Replied
    <3>2. Idle.phase = "IDLE" /\ atWork.phase = "WORKING"
      BY <1>1 DEF Idle, TypeInv, TypeOK, WorkerState
    <3>3. after.phase # "RECORDING"
      BY <3>1, <3>2
    <3> QED BY <1>1, <3>1, <3>3 DEF TypeInv, TypeOK
  <2>2. ASSUME NEW w \in Workers, WorkerStep(w)
        PROVE  \A v \in Workers : worker'[v].phase # "RECORDING"
    <3>1. \/ Replied(w)
          \/ worker' = [worker EXCEPT ![w] = Idle]
          \/ worker' = [worker EXCEPT ![w].phase = "GATED"]
          \/ \E r : worker' = [worker EXCEPT ![w].phase = "ESCALATING", ![w].report = r]
          \/ \E j, t : worker' = [worker EXCEPT ![w] =
                [phase |-> "WORKING", job |-> j, token |-> t, report |-> NoReport]]
      BY <2>2
      DEF WorkerStep, PassGate, ClaimEmpty, ClaimNextJob, CompleteJob, FailJob, ResultRead,
          CompleteWrite, FailWrite, Escalate, EscalationFails, ResultAborted, ReportRejected, WorkerDies,
          RecordCompletion, RecordFailure
    <3> QED BY <1>1, <2>1, <3>1 DEF Idle, TypeInv, TypeOK, WorkerState
  <2>3. CASE UNCHANGED worker
    BY <2>3
  <2>4. UNCHANGED worker \/ \E w \in Workers : WorkerStep(w)
    BY DEF Next, vars, OperatorRequest, OperatorWrite, OperatorAction, GenerateRead,
           ActivateChecks, ResumeRead, CancelRead, RequeueRead, SetLeadRead, ReapScan, ClearRead,
           ActivateRead, ResumeChecks, GenerateWrite, CancelWrite, RequeueWrite, SetLeadWrite,
           ReapJob, StartWrite, ClearWrite, EmergencyStop, ClearEmergencyStop, ResolveIncident,
           PauseCampaign, ClearCampaignQueue, LeaseExpires
  <2> QED BY <2>2, <2>3, <2>4
<1>3. NoClaimOnInvitedLead'
  <2>1. CASE \E w \in Workers, j \in Jobs : ClaimNextJob(w, j)
    <3>1. PICK w \in Workers, j \in Jobs : ClaimNextJob(w, j)
      BY <2>1
    <3>2. \A l \in Leads : lead'[l].invited = lead[l].invited
      BY <1>1, <3>1 DEF ClaimNextJob, SetLeadStatus, TypeInv, TypeOK, LeadRow
    <3>3. /\ ~lead[JobLead[j]].invited
          /\ \A k \in Jobs : k # j => job'[k] = job[k]
      BY <3>1 DEF ClaimNextJob, Claimable, SetJob, TypeInv, TypeOK
    <3> QED BY <3>2, <3>3 DEF NoClaimOnInvitedLead
  <2>2. CASE ~\E w \in Workers, j \in Jobs : ClaimNextJob(w, j)
    <3>1. \A j \in Jobs : job'[j].status = "PROCESSING" => job[j].status = "PROCESSING"
      <4>1. CASE UNCHANGED vars
        BY <4>1 DEF vars
      <4>2. CASE Next
        BY <1>1, <2>2, <4>2, WorkerSettles, RequestSettles, WriteSettles, ActionSettles,
           LeaseSettles DEF Next, Settles
      <4> QED BY <4>1, <4>2
    <3>2. ASSUME NEW w \in Workers, NEW r \in Reports, CompleteJob(w, r)
          PROVE  NoClaimOnInvitedLead'
      <4> DEFINE j == worker[w].job
      <4>1. j \in Jobs /\ job[j].status = "PROCESSING"
        BY <1>1, <3>2 DEF CompleteJob, HoldsClaim, TypeInv, TypeOK, WorkerShape, WorkerState
      <4>2. job'[j].status # "PROCESSING"
        <5> DEFINE status == CompletionPolicy(r.page).queueStatus
        <5>1. status \in {"COMPLETED", "FAILED", "REQUIRES_REVIEW"}
          BY <1>1, <3>2, <4>1, CompletionTypes DEF CompleteJob, TypeInv, TypeOK
        <5>2. job'[j] = Unclaimed(InStatus(job[j], status))
          BY <1>1, <3>2, <4>1 DEF CompleteJob, RecordCompletion, SetJob, TypeInv, TypeOK
        <5> QED BY <1>1, <4>1, <5>1, <5>2, RowUpdates DEF JobStatus, TypeInv, TypeOK
      <4>3. \A k \in Jobs : job'[k].status = "PROCESSING" => JobLead[k] # JobLead[j]
        BY <1>1, <3>1, <4>1, <4>2 DEF ClaimInv, OneLiveJobPerLead, LiveStatus
      <4>4. \A l \in Leads \ {JobLead[j]} : lead'[l] = lead[l]
        BY <1>1, <3>2 DEF CompleteJob, RecordCompletion, TypeInv, TypeOK
      <4> QED BY <3>1, <4>3, <4>4 DEF NoClaimOnInvitedLead
    <3>3. CASE ~\E w \in Workers : \E r \in Reports : CompleteJob(w, r)
      <4>1. ~\E w \in Workers : CompleteWrite(w)
        BY DEF CompleteWrite
      <4>2. \A l \in Leads : lead'[l].invited = lead[l].invited
        BY <1>1, <3>3, <4>1, OnlyCompletionInvites
      <4> QED BY <3>1, <4>2 DEF NoClaimOnInvitedLead
    <3> QED BY <3>2, <3>3
  <2> QED BY <2>1, <2>2
<1> QED BY <1>1, <1>2, <1>3

\* No browser is put to work on a lead that already got its invitation, when
\* the pool has one connection (DATABASE_POOL_MAX = 1).
THEOREM NoSecondInvitation ==
    ASSUME SerialTx
    PROVE  Spec => []NoClaimOnInvitedLead
<1>1. Init => InvitedInv
  BY ClaimInit DEF Init, InvitedInv, NoClaimOnInvitedLead, Idle
<1>2. InvitedInv /\ [Next]_vars => InvitedInv'
  BY InvitedStep
<1>3. InvitedInv => NoClaimOnInvitedLead
  BY DEF InvitedInv
<1> QED BY <1>1, <1>2, <1>3, PTL DEF Spec

-----------------------------------------------------------------------------
(* A late report changes nothing, while transactions are serial: then no    *)
(* worker stands between the reads and the writes of a result.              *)

\* Only its own steps move a worker.
LEMMA OwnStep ==
    ASSUME TypeInv, [Next]_vars, NEW w \in Workers, worker'[w] # worker[w]
    PROVE  WorkerStep(w)
<1>1. ASSUME NEW v \in Workers \ {w}, WorkerStep(v) PROVE worker'[w] = worker[w]
  <2>1. \E after : worker' = [worker EXCEPT ![v] = after]
    BY <1>1
    DEF WorkerStep, PassGate, ClaimEmpty, ClaimNextJob, CompleteJob, FailJob, ResultRead,
        CompleteWrite, FailWrite, Escalate, EscalationFails, ResultAborted, ReportRejected,
        WorkerDies, RecordCompletion, RecordFailure, Replied
  <2> QED BY <2>1 DEF TypeInv, TypeOK
<1>2. UNCHANGED worker \/ \E v \in Workers : WorkerStep(v)
  BY DEF Next, vars, OperatorRequest, OperatorWrite, OperatorAction, GenerateRead,
         ActivateChecks, ResumeRead, CancelRead, RequeueRead, SetLeadRead, ReapScan, ClearRead,
         ActivateRead, ResumeChecks, GenerateWrite, CancelWrite, RequeueWrite, SetLeadWrite,
         ReapJob, StartWrite, ClearWrite, EmergencyStop, ClearEmergencyStop, ResolveIncident,
         PauseCampaign, ClearCampaignQueue, LeaseExpires
<1> QED BY <1>1, <1>2

LEMMA LateReportStep ==
    ASSUME InvitedInv, [Next]_vars, NEW w \in Workers,
           worker[w].phase \in {"WORKING", "RECORDING"}, ~HoldsClaim(w),
           worker'[w] # worker[w]
    PROVE  UNCHANGED tables
<1>1. TypeInv /\ worker[w].phase = "WORKING"
  BY DEF InvitedInv, ClaimInv
<1>2. WorkerStep(w)
  BY <1>1, OwnStep
<1>3. ReportRejected(w) \/ WorkerDies(w)
  BY <1>1, <1>2
  DEF WorkerStep, PassGate, ClaimEmpty, ClaimNextJob, CompleteJob, FailJob, ResultRead,
      CompleteWrite, FailWrite, Escalate, EscalationFails, ResultAborted
<1> QED BY <1>3 DEF ReportRejected, WorkerDies

\* The report of a worker whose claim is gone (reaped, cancelled, taken by
\* another, already recorded) changes no table, with one connection.
THEOREM LateReportsIgnored ==
    ASSUME SerialTx
    PROVE  Spec => LateReportChangesNothing
<1>1. Init => InvitedInv
  BY ClaimInit DEF Init, InvitedInv, NoClaimOnInvitedLead, Idle
<1>2. InvitedInv /\ [Next]_vars => InvitedInv'
  BY InvitedStep
<1>3. InvitedInv /\ [Next]_vars =>
        [\A w \in Workers :
           (/\ worker[w].phase \in {"WORKING", "RECORDING"}
            /\ \/ job[worker[w].job].token # worker[w].token
               \/ job[worker[w].job].status # "PROCESSING"
            /\ worker'[w] # worker[w])
           => UNCHANGED tables]_vars
  BY LateReportStep DEF HoldsClaim
<1> QED BY <1>1, <1>2, <1>3, PTL DEF Spec, LateReportChangesNothing

-----------------------------------------------------------------------------
(* The attempt budget.  A row waits only with an attempt to spare, and a     *)
(* claim's token counts the attempt it is; the requeue of the one operator   *)
(* writes what it has read, for nobody else touches a row that has ended.    *)

Budgeted(row) ==
    /\ row.attempts <= row.maxAttempts
    /\ row.status = "WAITING" => row.attempts < row.maxAttempts
    /\ row.status = "PROCESSING" => row.token = row.attempts

Ended == {"REQUIRES_REVIEW", "FAILED"}

\* A requeue in flight knows the attempts of its row.
RequeueFresh(o) ==
    request[o].op = "REQUEUE" =>
        /\ job[request[o].job].status \in Ended
        /\ job[request[o].job].attempts = request[o].attempts

BudgetInv ==
    /\ InvitedInv
    /\ \A j \in Jobs : Budgeted(job[j])
    /\ \A o \in Operators : request[o].op # "REAP" /\ RequeueFresh(o)

\* What may become of a row of which a requeue may have read.
StaysBudgeted(j) ==
    \/ job'[j] = job[j]
    \/ Budgeted(job'[j]) /\ job[j].status \notin Ended

\* A row that ends keeps within its budget.
LEMMA EndedIsBudgeted ==
    ASSUME NEW row \in JobRow, Budgeted(row), NEW s \in JobStatus \ LiveStatus
    PROVE  Budgeted(InStatus(row, s)) /\ Budgeted(Unclaimed(InStatus(row, s)))
  BY DEF Budgeted, InStatus, Unclaimed, JobRow, LiveStatus

LEMMA CancelBudget ==
    ASSUME TypeInv, \A j \in Jobs : Budgeted(job[j]), NEW S, NEW st, CancelIn(S, st)
    PROVE  \A j \in Jobs : \/ job'[j] = job[j]
                           \/ Budgeted(job'[j]) /\ job[j].status \in st
<1> SUFFICES ASSUME NEW j \in Jobs, j \in S /\ job[j].status \in st
             PROVE  Budgeted(job'[j])
  BY DEF CancelIn
<1>1. job'[j] = InStatus(job[j], "CANCELLED") /\ job[j] \in JobRow
  BY DEF CancelIn, TypeInv, TypeOK
<1> QED BY <1>1, EndedIsBudgeted DEF JobStatus, LiveStatus

LEMMA WorkerBudget ==
    ASSUME BudgetInv, NEW w \in Workers, WorkerStep(w), NEW k \in Jobs
    PROVE  StaysBudgeted(k)
<1> USE OutreachAssumption
<1>1. /\ TypeInv /\ job[k] \in JobRow /\ Budgeted(job[k])
      /\ worker[w].phase # "RECORDING"
      /\ worker[w].phase \notin {"IDLE", "GATED"} => worker[w].job \in Jobs
  BY DEF BudgetInv, InvitedInv, ClaimInv, TypeInv, TypeOK, WorkerShape, WorkerState
<1>2. ASSUME NEW j \in Jobs, ClaimNextJob(w, j) PROVE StaysBudgeted(k)
  <2>1. CASE k = j
    <3>1. job[j].status = "WAITING" /\ job[j].attempts < job[j].maxAttempts
      BY <1>1, <1>2, <2>1 DEF ClaimNextJob, Claimable, Budgeted
    <3>2. /\ job'[j].status = "PROCESSING" /\ job'[j].attempts = job[j].attempts + 1
          /\ job'[j].token = job[j].attempts + 1 /\ job'[j].maxAttempts = job[j].maxAttempts
      BY <1>1, <1>2, <2>1 DEF ClaimNextJob, SetJob, ClaimToken, TypeInv, TypeOK, JobRow
    <3> QED BY <1>1, <2>1, <3>1, <3>2 DEF StaysBudgeted, Budgeted, Ended, JobRow
  <2>2. CASE k # j
    BY <1>1, <1>2, <2>2 DEF ClaimNextJob, SetJob, StaysBudgeted, TypeInv, TypeOK
  <2> QED BY <2>1, <2>2
<1>3. ASSUME NEW r \in Reports, CompleteJob(w, r) PROVE StaysBudgeted(k)
  <2> DEFINE j == worker[w].job
  <2> DEFINE status == CompletionPolicy(r.page).queueStatus
  <2>1. j \in Jobs /\ job[j].status = "PROCESSING" /\ r \in Report /\ r.class = "NONE"
    BY <1>1, <1>3 DEF CompleteJob, HoldsClaim
  <2>2. job' = [job EXCEPT ![j] = Unclaimed(InStatus(job[j], status))]
    BY <1>3 DEF CompleteJob, RecordCompletion, SetJob
  <2>3. status \in JobStatus \ LiveStatus
    <3>1. job[j] \in JobRow /\ lead[JobLead[j]] \in LeadRow
      BY <1>1, <2>1 DEF TypeInv, TypeOK
    <3> QED BY <2>1, <3>1, CompletionTypes DEF JobStatus, LiveStatus
  <2>4. CASE k = j
    BY <1>1, <2>1, <2>2, <2>3, <2>4, EndedIsBudgeted DEF StaysBudgeted, Ended, TypeInv, TypeOK
  <2>5. CASE k # j
    BY <1>1, <2>2, <2>5 DEF StaysBudgeted, TypeInv, TypeOK
  <2> QED BY <2>4, <2>5
<1>4. ASSUME NEW r \in Reports, FailJob(w, r) PROVE StaysBudgeted(k)
  <2> DEFINE j == worker[w].job
  <2> DEFINE d == Disposition(r.class, worker[w].token, job[j].maxAttempts)
  <2> DEFINE status == FailedJobStatus(d, FailurePolicy(r.class, r.page))
  <2>1. /\ j \in Jobs /\ job[j] \in JobRow /\ Budgeted(job[j]) /\ job[j].status = "PROCESSING"
        /\ worker[w].token = job[j].attempts
        /\ r \in Report /\ r.class # "NONE"
    BY <1>1, <1>4 DEF FailJob, HoldsClaim, BudgetInv, Budgeted, TypeInv, TypeOK
  <2>2. job' = [job EXCEPT ![j] = Unclaimed(InStatus(job[j], status))]
    BY <1>4 DEF FailJob, RecordFailure, SetJob
  <2>3. d \in {"ESCALATED", "RETRY_SCHEDULED", "EXHAUSTED"}
    BY DispositionTypes
  <2>4. status \in JobStatus \ {"PROCESSING"}
    BY <2>1, <2>3, FailureTypes DEF JobStatus
  <2>5. status = "WAITING" => job[j].attempts < job[j].maxAttempts
    BY <2>1 DEF FailedJobStatus, Disposition
  <2>6. Budgeted(Unclaimed(InStatus(job[j], status)))
    <3>1. CASE status = "WAITING"
      BY <2>1, <2>4, <2>5, <3>1, RowUpdates DEF Budgeted
    <3>2. CASE status # "WAITING"
      BY <2>1, <2>4, <3>2, EndedIsBudgeted DEF LiveStatus
    <3> QED BY <3>1, <3>2
  <2> HIDE DEF status, d
  <2>7. CASE k = j
    BY <1>1, <2>1, <2>2, <2>6, <2>7 DEF StaysBudgeted, Ended, TypeInv, TypeOK
  <2>8. CASE k # j
    BY <1>1, <2>2, <2>8 DEF StaysBudgeted, TypeInv, TypeOK
  <2> QED BY <2>7, <2>8
<1>5. ASSUME NEW r \in Reports, ResultRead(w, r) PROVE StaysBudgeted(k)
  BY <1>5 DEF ResultRead, tables, StaysBudgeted
<1>6. CASE PassGate(w) \/ ClaimEmpty(w) \/ ReportRejected(w) \/ WorkerDies(w)
  BY <1>6 DEF PassGate, ClaimEmpty, ReportRejected, WorkerDies, tables, StaysBudgeted
<1>7. CASE Escalate(w) \/ EscalationFails(w) \/ ResultAborted(w)
  BY <1>7 DEF Escalate, EscalationFails, ResultAborted, tables, StaysBudgeted
<1>8. ~CompleteWrite(w) /\ ~FailWrite(w)
  BY <1>1 DEF CompleteWrite, FailWrite
<1> QED BY <1>2, <1>3, <1>4, <1>5, <1>6, <1>7, <1>8 DEF WorkerStep

\* Stopping, clearing a queue and the passing of time touch no row that has ended.
LEMMA ActionBudget ==
    ASSUME BudgetInv, "RESOLVE" \notin Ops, OperatorAction \/ (\E j \in Jobs : LeaseExpires(j)),
           NEW k \in Jobs
    PROVE  StaysBudgeted(k)
<1>1. TypeInv /\ job[k] \in JobRow /\ \A j \in Jobs : Budgeted(job[j])
  BY DEF BudgetInv, InvitedInv, ClaimInv, TypeInv, TypeOK
<1>2. ASSUME NEW S, CancelIn(S, {"WAITING"}) PROVE StaysBudgeted(k)
  <2>1. job'[k] = job[k] \/ (Budgeted(job'[k]) /\ job[k].status \in {"WAITING"})
    BY <1>1, <1>2, CancelBudget
  <2> QED BY <2>1 DEF StaysBudgeted, Ended
<1>3. CASE EmergencyStop
  BY <1>2, <1>3 DEF EmergencyStop
<1>4. ASSUME NEW c \in Campaigns, ClearCampaignQueue(c) PROVE StaysBudgeted(k)
  BY <1>2, <1>4 DEF ClearCampaignQueue
<1>5. CASE UNCHANGED job
  BY <1>5 DEF StaysBudgeted
<1>6. ASSUME NEW j \in Jobs, LeaseExpires(j) PROVE StaysBudgeted(k)
  BY <1>1, <1>6 DEF LeaseExpires, SetJob, StaysBudgeted, Budgeted, Ended, TypeInv, TypeOK, JobRow
<1> QED BY <1>3, <1>4, <1>5, <1>6
        DEF OperatorAction, ClearEmergencyStop, ResolveIncident, PauseCampaign

\* What the operator's write leaves behind.
LEMMA WriteBudget ==
    ASSUME BudgetInv, NEW o \in Operators, OperatorWrite(o), NEW k \in Jobs
    PROVE  Budgeted(job'[k])
<1> USE OutreachAssumption
<1>1. /\ TypeInv /\ request[o] \in Request /\ request[o].op # "REAP"
      /\ job[k] \in JobRow /\ \A j \in Jobs : Budgeted(job[j])
  BY DEF BudgetInv, InvitedInv, ClaimInv, TypeInv, TypeOK
<1>2. CASE GenerateWrite(o)
  <2>1. Budgeted(NewRow)
    BY DEF NewRow, Budgeted
  <2>2. job'[k] \in {NewRow, job[k]}
    BY <1>2 DEF GenerateWrite
  <2> QED BY <1>1, <2>1, <2>2
<1>3. CASE CancelWrite(o)
  <2>1. job' = [job EXCEPT ![request[o].job] = InStatus(job[request[o].job], "CANCELLED")]
    BY <1>3 DEF CancelWrite, SetJob
  <2>2. job'[k] = job[k] \/ job'[k] = InStatus(job[k], "CANCELLED")
    BY <1>1, <2>1 DEF TypeInv, TypeOK
  <2> QED BY <1>1, <2>2, EndedIsBudgeted DEF JobStatus, LiveStatus
<1>4. CASE RequeueWrite(o)
  <2> DEFINE j == request[o].job
  <2> DEFINE base == Unclaimed(InStatus(job[j], "WAITING"))
  <2>1. /\ j \in Jobs /\ job[j] \in JobRow /\ request[o].attempts \in Nat
        /\ job[j].attempts = request[o].attempts
    BY <1>1, <1>4, RequestShape DEF RequeueWrite, BudgetInv, RequeueFresh, TypeInv, TypeOK
  <2>2. base \in JobRow /\ base.status = "WAITING" /\ base.attempts = job[j].attempts
    BY <2>1, RowUpdates DEF JobStatus
  <2>3. Budgeted([base EXCEPT !.maxAttempts = request[o].attempts + 1])
    <3> HIDE DEF base
    <3> QED BY <2>1, <2>2 DEF Budgeted, JobRow
  <2>4. \/ UNCHANGED job
        \/ job' = [job EXCEPT ![j] = [base EXCEPT !.maxAttempts = request[o].attempts + 1]]
    BY <1>4 DEF RequeueWrite, SetJob
  <2> HIDE DEF base
  <2> QED BY <1>1, <2>1, <2>3, <2>4 DEF TypeInv, TypeOK
<1>5. ASSUME NEW s \in LeadStatus, SetLeadWrite(o, s) PROVE Budgeted(job'[k])
  <2>1. UNCHANGED job \/ CancelIn(JobsOf(request[o].lead), {"WAITING", "REQUIRES_REVIEW"})
    BY <1>5 DEF SetLeadWrite
  <2>2. CASE CancelIn(JobsOf(request[o].lead), {"WAITING", "REQUIRES_REVIEW"})
    <3>1. job'[k] = job[k] \/ Budgeted(job'[k])
      BY <1>1, <2>2, CancelBudget
    <3> QED BY <1>1, <3>1
  <2> QED BY <1>1, <2>1, <2>2
<1>6. CASE StartWrite(o) \/ ClearWrite(o)
  BY <1>1, <1>6 DEF StartWrite, ClearWrite
<1>7. ~ReapJob(o)
  BY <1>1 DEF ReapJob
<1> QED BY <1>2, <1>3, <1>4, <1>5, <1>6, <1>7 DEF OperatorWrite

LEMMA BudgetStep ==
    ASSUME SerialTx, \A o, p \in Operators : o = p, {"REAP", "RESOLVE"} \cap Ops = {},
           BudgetInv, [Next]_vars
    PROVE  BudgetInv'
<1>1. /\ InvitedInv /\ InvitedInv' /\ TypeInv
      /\ \A j \in Jobs : job[j] \in JobRow /\ Budgeted(job[j])
  BY InvitedStep DEF BudgetInv, InvitedInv, ClaimInv, TypeInv, TypeOK
<1>2. ASSUME UNCHANGED request, \A j \in Jobs : StaysBudgeted(j)
      PROVE  BudgetInv'
  <2>1. \A j \in Jobs : Budgeted(job'[j])
    BY <1>1, <1>2 DEF StaysBudgeted
  <2>2. ASSUME NEW o \in Operators PROVE request'[o].op # "REAP" /\ RequeueFresh(o)'
    <3>1. request[o].op = "REQUEUE" => request[o].job \in Jobs
      BY <1>1, RequestShape DEF TypeInv, TypeOK
    <3> QED BY <1>2, <3>1 DEF BudgetInv, RequeueFresh, StaysBudgeted
  <2> QED BY <1>1, <2>1, <2>2 DEF BudgetInv, Budgeted
<1>3. CASE UNCHANGED vars
  BY <1>2, <1>3 DEF vars, StaysBudgeted
<1>4. ASSUME NEW w \in Workers, WorkerStep(w) PROVE BudgetInv'
  <2>1. UNCHANGED request
    BY <1>4 DEF WorkerStep, PassGate, ClaimEmpty, ClaimNextJob, CompleteJob, FailJob, ResultRead,
           ResultAborted, CompleteWrite, FailWrite, RecordCompletion, RecordFailure, Escalate,
           EscalationFails, ReportRejected, WorkerDies
  <2> QED BY <1>2, <1>4, <2>1, WorkerBudget
<1>5. CASE OperatorAction \/ \E j \in Jobs : LeaseExpires(j)
  <2>1. UNCHANGED request
    BY <1>5 DEF OperatorAction, EmergencyStop, ClearEmergencyStop, ResolveIncident,
                PauseCampaign, ClearCampaignQueue, LeaseExpires
  <2> QED BY <1>2, <1>5, <2>1, ActionBudget
<1>6. ASSUME NEW o \in Operators, OperatorWrite(o) PROVE BudgetInv'
  <2>1. \A j \in Jobs : Budgeted(job'[j])
    BY <1>6, WriteBudget
  <2>2. ~ReapJob(o)
    BY DEF ReapJob, BudgetInv
  <2>3. request' = [request EXCEPT ![o] = NoRequest]
    BY <1>6, <2>2 DEF OperatorWrite, GenerateWrite, CancelWrite, RequeueWrite, SetLeadWrite,
                      StartWrite, ClearWrite, Answered
  <2>4. \A p \in Operators : request'[p] = NoRequest
    BY <1>1, <2>3 DEF TypeInv, TypeOK
  <2> QED BY <1>1, <2>1, <2>4 DEF BudgetInv, Budgeted, RequeueFresh, NoRequest
<1>7. ASSUME NEW o \in Operators, OperatorRequest(o) PROVE BudgetInv'
  <2>1. UNCHANGED job
    BY <1>7 DEF OperatorRequest, GenerateRead, ActivateChecks, ResumeRead, CancelRead,
                RequeueRead, SetLeadRead, ReapScan, ClearRead, ActivateRead, ResumeChecks, tables
  <2>2. ASSUME NEW q, request' = [request EXCEPT ![o] = q], q.op \notin {"REAP", "REQUEUE"}
        PROVE  request'[o].op \notin {"REAP", "REQUEUE"}
    BY <1>1, <2>2 DEF TypeInv, TypeOK
  <2>3. ASSUME NEW c \in Campaigns, GenerateRead(o, c) \/ ActivateChecks(o, c) \/ ResumeRead(o, c)
        PROVE  request'[o].op \notin {"REAP", "REQUEUE"}
    BY <2>2, <2>3 DEF GenerateRead, ActivateChecks, ResumeRead, Asks
  <2>4. ASSUME NEW j \in Jobs, CancelRead(o, j) PROVE request'[o].op \notin {"REAP", "REQUEUE"}
    BY <2>2, <2>4 DEF CancelRead, Asks
  <2>5. ASSUME NEW l \in Leads, SetLeadRead(o, l)
        PROVE  request'[o].op \notin {"REAP", "REQUEUE"}
    BY <2>2, <2>5 DEF SetLeadRead, Asks
  <2>6. ~ClearRead(o)
    BY DEF ClearRead
  <2>7. ASSUME ActivateRead(o) \/ ResumeChecks(o) PROVE request'[o].op \notin {"REAP", "REQUEUE"}
    BY <2>2, <2>7 DEF ActivateRead, ResumeChecks, Asks, Answered, NoRequest
  <2>8. ASSUME NEW j \in Jobs, RequeueRead(o, j)
        PROVE  request'[o].op # "REAP" /\ RequeueFresh(o)'
    <3>1. request'[o] = [op |-> "REQUEUE", job |-> j, attempts |-> job[j].attempts]
      BY <1>1, <2>8 DEF RequeueRead, Asks, TypeInv, TypeOK
    <3>2. job[j].status \in Ended
      BY <2>8 DEF RequeueRead, Ended
    <3>3. /\ request'[o].op = "REQUEUE" /\ request'[o].job = j
          /\ request'[o].attempts = job[j].attempts
      BY <3>1
    <3> QED BY <2>1, <3>2, <3>3 DEF RequeueFresh
  <2>9. ~ReapScan(o)
    BY DEF ReapScan
  <2>10. request'[o].op # "REAP" /\ RequeueFresh(o)'
    BY <1>7, <2>3, <2>4, <2>5, <2>6, <2>7, <2>8, <2>9 DEF OperatorRequest, RequeueFresh
  <2>11. \A p \in Operators : request'[p].op # "REAP" /\ RequeueFresh(p)'
    BY <2>10
  <2>12. \A j \in Jobs : Budgeted(job'[j])
    BY <1>1, <2>1
  <2> QED BY <1>1, <2>11, <2>12 DEF BudgetInv, Budgeted
<1> QED BY <1>3, <1>4, <1>5, <1>6, <1>7 DEF Next

\* No row is claimed more often than its budget allows (claimNextJob, failJob,
\* requeueJob), with one connection and one operator, and neither the reaper,
\* whose snapshot may be stale, nor the resolution of incidents, which requeues
\* a job on the budget it has used up.
THEOREM ClaimsWithinBudget ==
    ASSUME SerialTx, \A o, p \in Operators : o = p, {"REAP", "RESOLVE"} \cap Ops = {}
    PROVE  Spec => []AttemptBudget
<1>1. Init => BudgetInv
  <2>1. Init => InvitedInv
    BY ClaimInit DEF Init, InvitedInv, NoClaimOnInvitedLead, Idle
  <2> QED BY <2>1 DEF Init, BudgetInv, Budgeted, RequeueFresh, NoRequest
<1>2. BudgetInv /\ [Next]_vars => BudgetInv'
  BY BudgetStep
<1>3. BudgetInv => AttemptBudget
  BY DEF BudgetInv, Budgeted, AttemptBudget
<1> QED BY <1>1, <1>2, <1>3, PTL DEF Spec

-----------------------------------------------------------------------------
(* The queue implements ClaimLifecycle while transactions are serial.  A     *)
(* step writes at most one claimed row (generation and the bulk              *)
(* cancellations write only rows that are not claimed), a lead has at most   *)
(* one claimed row (OneLiveJobPerLead), and so a claim that ends frees its   *)
(* lead and no other.                                                        *)

\* What a step may do to the job rows.
RowWrites ==
    \/ UNCHANGED job
    \/ \E j \in Jobs : \E row : SetJob(j, row)
    \/ \E S : CancelIn(S, {"WAITING"}) \/ CancelIn(S, {"WAITING", "REQUIRES_REVIEW"})
    \/ \E o \in Operators : GenerateWrite(o)

LEMMA WorkerRowWrites ==
    ASSUME TypeInv, NEW w \in Workers, WorkerStep(w)
    PROVE  RowWrites
<1>1. worker[w].phase \notin {"IDLE", "GATED"} => worker[w].job \in Jobs
  BY DEF TypeInv, TypeOK, WorkerShape, WorkerState
<1>2. ASSUME NEW j \in Jobs, ClaimNextJob(w, j) PROVE RowWrites
  BY <1>2 DEF ClaimNextJob, RowWrites
<1>3. ASSUME worker[w].job \in Jobs,
             (\E p : RecordCompletion(w, p)) \/ (\E r : RecordFailure(w, r))
      PROVE  RowWrites
  BY <1>3 DEF RecordCompletion, RecordFailure, RowWrites
<1>4. ASSUME NEW r \in Reports, CompleteJob(w, r) \/ FailJob(w, r) PROVE RowWrites
  BY <1>1, <1>3, <1>4 DEF CompleteJob, FailJob
<1>5. CASE CompleteWrite(w) \/ FailWrite(w)
  BY <1>1, <1>3, <1>5 DEF CompleteWrite, FailWrite
<1>6. ASSUME NEW r \in Reports, ResultRead(w, r) PROVE RowWrites
  BY <1>6 DEF ResultRead, tables, RowWrites
<1>7. CASE PassGate(w) \/ ClaimEmpty(w) \/ ReportRejected(w) \/ WorkerDies(w)
  BY <1>7 DEF PassGate, ClaimEmpty, ReportRejected, WorkerDies, tables, RowWrites
<1>8. CASE Escalate(w) \/ EscalationFails(w) \/ ResultAborted(w)
  BY <1>8 DEF Escalate, EscalationFails, ResultAborted, tables, RowWrites
<1> QED BY <1>2, <1>4, <1>5, <1>6, <1>7, <1>8 DEF WorkerStep

LEMMA ConsoleRowWrites ==
    ASSUME TypeInv, NEW o \in Operators, OperatorRequest(o) \/ OperatorWrite(o)
    PROVE  RowWrites
<1>1. request[o] \in Request
  BY DEF TypeInv, TypeOK
<1>2. CASE OperatorRequest(o)
  BY <1>2 DEF OperatorRequest, GenerateRead, ActivateChecks, ResumeRead, CancelRead, RequeueRead,
         SetLeadRead, ReapScan, ClearRead, ActivateRead, ResumeChecks, tables, RowWrites
<1>3. CASE CancelWrite(o) \/ RequeueWrite(o)
  BY <1>1, <1>3, RequestShape DEF CancelWrite, RequeueWrite, RowWrites
<1>4. ASSUME NEW s \in LeadStatus, SetLeadWrite(o, s) PROVE RowWrites
  BY <1>4 DEF SetLeadWrite, RowWrites
<1>5. CASE ReapJob(o)
  <2>1. PICK row \in request[o].rows : Reap(row)
    BY <1>5 DEF ReapJob
  <2>2. row.job \in Jobs
    BY <1>1, <1>5, RequestShape DEF ReapJob, ReapRow
  <2> QED BY <2>1, <2>2 DEF Reap, RowWrites
<1>6. CASE GenerateWrite(o) \/ StartWrite(o) \/ ClearWrite(o)
  BY <1>6 DEF StartWrite, ClearWrite, RowWrites
<1> QED BY <1>2, <1>3, <1>4, <1>5, <1>6 DEF OperatorWrite

LEMMA StepRowWrites ==
    ASSUME TypeInv, [Next]_vars
    PROVE  RowWrites
<1>1. CASE UNCHANGED vars
  BY <1>1 DEF vars, RowWrites
<1>2. CASE OperatorAction
  <2>1. ASSUME NEW i \in incidents, ResolveIncident(i) PROVE RowWrites
    <3>1. i.job # NoJob => i.job \in Jobs
      BY DEF Incident, TypeInv, TypeOK
    <3> QED BY <2>1, <3>1 DEF ResolveIncident, RetireLead, RequeueLead, StopCampaign, RowWrites
  <2> QED BY <1>2, <2>1 DEF OperatorAction, EmergencyStop, ClearEmergencyStop, PauseCampaign,
                            ClearCampaignQueue, RowWrites
<1>3. ASSUME NEW j \in Jobs, LeaseExpires(j) PROVE RowWrites
  BY <1>3 DEF LeaseExpires, RowWrites
<1> QED BY <1>1, <1>2, <1>3, WorkerRowWrites, ConsoleRowWrites DEF Next

-----------------------------------------------------------------------------
(* The refinement. *)

\* All claimed rows but at most one outlive the step.
LEMMA OneClaimEnds ==
    ASSUME TypeInv, RowWrites
    PROVE  \/ \A k \in Jobs : job[k].status = "PROCESSING" => job'[k].status = "PROCESSING"
           \/ \E j \in Jobs : \A k \in Jobs \ {j} : job'[k] = job[k]
<1>1. CASE UNCHANGED job
  BY <1>1
<1>2. ASSUME NEW j \in Jobs, NEW row, SetJob(j, row)
      PROVE  \A k \in Jobs \ {j} : job'[k] = job[k]
  BY <1>2 DEF SetJob, TypeInv, TypeOK
<1>3. ASSUME NEW S, CancelIn(S, {"WAITING"}) \/ CancelIn(S, {"WAITING", "REQUIRES_REVIEW"})
      PROVE  \A k \in Jobs : job[k].status = "PROCESSING" => job'[k].status = "PROCESSING"
  BY <1>3 DEF CancelIn
<1>4. ASSUME NEW o \in Operators, GenerateWrite(o)
      PROVE  \A k \in Jobs : job[k].status = "PROCESSING" => job'[k].status = "PROCESSING"
  <2> DEFINE insertable == {l \in request[o].leads :
                              /\ FreshRows(l) # {}
                              /\ \A j \in JobsOf(l) : job[j].status \notin LiveStatus}
  <2> DEFINE rows == {InsertedRow(l) : l \in insertable}
  <2>1. ASSUME NEW l \in insertable PROVE InsertedRow(l) \in FreshRows(l)
    BY DEF InsertedRow
  <2>2. \A k \in rows : job[k].status = "ABSENT"
    BY <2>1 DEF FreshRows
  <2>3. \A k \in Jobs : k \notin rows => job'[k] = job[k]
    BY <1>4 DEF GenerateWrite
  <2> HIDE DEF rows
  <2> QED BY <2>2, <2>3
<1> QED BY <1>1, <1>2, <1>3, <1>4 DEF RowWrites

heldLeads == {l \in Leads : \E j \in JobsOf(l) : job[j].status = "PROCESSING"}

invitedLeads == {l \in Leads : lead[l].invited}

LEMMA ClaimTakes ==
    ASSUME InvitedInv, TypeInv', NEW w \in Workers, NEW j \in Jobs, ClaimNextJob(w, j)
    PROVE  /\ JobLead[j] \in Leads
           /\ JobLead[j] \notin heldLeads /\ JobLead[j] \notin invitedLeads
           /\ heldLeads' = heldLeads \cup {JobLead[j]}
           /\ invitedLeads' = invitedLeads
<1> USE OutreachAssumption DEF InvitedInv, ClaimInv
<1>1. /\ job'[j].status = "PROCESSING"
      /\ \A k \in Jobs \ {j} : job'[k] = job[k]
      /\ \A l \in Leads : lead'[l].invited = lead[l].invited
  BY DEF ClaimNextJob, SetJob, SetLeadStatus, TypeInv, TypeOK, JobRow, LeadRow
<1>2. \A k \in JobsOf(JobLead[j]) : job[k].status # "PROCESSING"
  BY DEF ClaimNextJob, Claimable, JobsOf
<1> QED BY <1>1, <1>2 DEF heldLeads, invitedLeads, JobsOf, ClaimNextJob, Claimable

\* The claim that ends, if any, is the only one of its lead.
LEMMA OneLeadFreed ==
    ASSUME ClaimInv, Settles, RowWrites
    PROVE  \/ heldLeads' = heldLeads
           \/ \E l \in heldLeads : heldLeads' = heldLeads \ {l}
<1> USE OutreachAssumption DEF ClaimInv
<1>1. \A k \in Jobs : job'[k].status = "PROCESSING" => job[k].status = "PROCESSING"
  BY DEF Settles
<1>2. CASE \A k \in Jobs : job[k].status = "PROCESSING" => job'[k].status = "PROCESSING"
  BY <1>1, <1>2 DEF heldLeads, JobsOf
<1>3. ASSUME NEW j \in Jobs, \A k \in Jobs \ {j} : job'[k] = job[k],
             job[j].status = "PROCESSING", job'[j].status # "PROCESSING"
      PROVE  JobLead[j] \in heldLeads /\ heldLeads' = heldLeads \ {JobLead[j]}
  <2>1. \A k \in Jobs \ {j} : job[k].status = "PROCESSING" => JobLead[k] # JobLead[j]
    BY <1>3 DEF OneLiveJobPerLead, LiveStatus
  <2> QED BY <1>3, <2>1 DEF heldLeads, JobsOf
<1>4. \/ \A k \in Jobs : job[k].status = "PROCESSING" => job'[k].status = "PROCESSING"
      \/ \E j \in Jobs : /\ \A k \in Jobs \ {j} : job'[k] = job[k]
                         /\ job[j].status = "PROCESSING" /\ job'[j].status # "PROCESSING"
  BY OneClaimEnds
<1> QED BY <1>2, <1>3, <1>4

\* A recorded completion frees its lead, and may mark it as invited.
LEMMA CompletionSettles ==
    ASSUME InvitedInv, NEW w \in Workers, NEW r \in Reports, CompleteJob(w, r)
    PROVE  LET l == JobLead[worker[w].job]
           IN /\ l \in heldLeads
              /\ heldLeads' = heldLeads \ {l}
              /\ invitedLeads' \in {invitedLeads, invitedLeads \cup {l}}
<1> USE OutreachAssumption DEF InvitedInv, ClaimInv
<1> DEFINE j == worker[w].job
<1> DEFINE l == JobLead[j]
<1> DEFINE status == CompletionPolicy(r.page).queueStatus
<1>1. /\ j \in Jobs /\ l \in Leads /\ job[j] \in JobRow /\ job[j].status = "PROCESSING"
      /\ r \in Report /\ RecordCompletion(w, r.page)
  BY DEF CompleteJob, HoldsClaim, TypeInv, TypeOK, WorkerShape, WorkerState
<1>2. job'[j].status # "PROCESSING" /\ \A k \in Jobs \ {j} : job'[k] = job[k]
  <2>1. status \in {"COMPLETED", "FAILED", "REQUIRES_REVIEW"}
    BY <1>1, CompletionTypes DEF CompleteJob, TypeInv, TypeOK
  <2>2. /\ job'[j] = Unclaimed(InStatus(job[j], status))
        /\ \A k \in Jobs \ {j} : job'[k] = job[k]
    BY <1>1 DEF RecordCompletion, SetJob, TypeInv, TypeOK
  <2> QED BY <1>1, <2>1, <2>2, RowUpdates DEF JobStatus
<1>3. \A k \in Jobs \ {j} : job[k].status = "PROCESSING" => JobLead[k] # l
  BY <1>1 DEF OneLiveJobPerLead, LiveStatus
<1>4. l \in heldLeads /\ heldLeads' = heldLeads \ {l}
  BY <1>1, <1>2, <1>3 DEF heldLeads, JobsOf
<1>5. \A k \in Leads \ {l} : lead'[k] = lead[k]
  BY <1>1 DEF RecordCompletion, TypeInv, TypeOK
<1>6. ~lead[l].invited
  BY <1>1 DEF NoClaimOnInvitedLead
<1>7. invitedLeads' \in {invitedLeads, invitedLeads \cup {l}}
  BY <1>1, <1>5, <1>6 DEF invitedLeads
<1> QED BY <1>4, <1>7

LEMMA LifecycleStep ==
    ASSUME SerialTx, InvitedInv, [Next]_vars
    PROVE  \/ UNCHANGED <<heldLeads, invitedLeads>>
           \/ \E l \in Leads :
                \/ /\ l \notin heldLeads /\ l \notin invitedLeads
                   /\ heldLeads' = heldLeads \cup {l}
                   /\ invitedLeads' = invitedLeads
                \/ /\ l \in heldLeads
                   /\ heldLeads' = heldLeads \ {l}
                   /\ invitedLeads' \in {invitedLeads, invitedLeads \cup {l}}
<1>1. ClaimInv /\ TypeInv /\ TypeInv'
  BY TypeStep DEF InvitedInv, ClaimInv
<1>2. ASSUME NEW w \in Workers, NEW j \in Jobs, ClaimNextJob(w, j)
      PROVE  \E l \in Leads : /\ l \notin heldLeads /\ l \notin invitedLeads
                              /\ heldLeads' = heldLeads \cup {l}
                              /\ invitedLeads' = invitedLeads
  BY <1>1, <1>2, ClaimTakes
<1>3. ASSUME NEW w \in Workers, NEW r \in Reports, CompleteJob(w, r)
      PROVE  \E l \in Leads : /\ l \in heldLeads
                              /\ heldLeads' = heldLeads \ {l}
                              /\ invitedLeads' \in {invitedLeads, invitedLeads \cup {l}}
  BY <1>3, CompletionSettles DEF heldLeads
<1>4. ASSUME ~\E w \in Workers, j \in Jobs : ClaimNextJob(w, j),
             ~\E w \in Workers : \E r \in Reports : CompleteJob(w, r)
      PROVE  \/ UNCHANGED <<heldLeads, invitedLeads>>
             \/ \E l \in Leads : /\ l \in heldLeads
                                 /\ heldLeads' = heldLeads \ {l}
                                 /\ invitedLeads' = invitedLeads
  <2>1. Settles
    <3>1. CASE UNCHANGED vars
      BY <1>1, <3>1, OthersKeepWork, QuietSettles DEF vars
    <3>2. CASE Next
      BY <1>1, <1>4, <3>2, WorkerSettles, RequestSettles, WriteSettles, ActionSettles,
         LeaseSettles DEF Next
    <3> QED BY <3>1, <3>2
  <2>2. ~\E w \in Workers : CompleteWrite(w)
    BY DEF CompleteWrite, InvitedInv
  <2>3. invitedLeads' = invitedLeads
    BY <1>1, <1>4, <2>2, OnlyCompletionInvites DEF invitedLeads
  <2>4. heldLeads' = heldLeads \/ \E l \in heldLeads : heldLeads' = heldLeads \ {l}
    BY <1>1, <2>1, OneLeadFreed, StepRowWrites
  <2> QED BY <2>3, <2>4 DEF heldLeads
<1> QED BY <1>2, <1>3, <1>4

\* With one connection, whatever workers, operators and the reaper do to rows
\* and tokens, leads live the life of ClaimLifecycle: taken by one claim at a
\* time, invited only out of a claim, never taken again after it.
THEOREM QueueImplementsLifecycle ==
    ASSUME SerialTx
    PROVE  Spec => ClaimsFollowLifecycle
<1>1. Init => Lifecycle!Init
  BY DEF Init, Lifecycle!Init, JobsOf
<1>2. Init => InvitedInv
  BY ClaimInit DEF Init, InvitedInv, NoClaimOnInvitedLead, Idle
<1>3. InvitedInv /\ [Next]_vars => InvitedInv'
  BY InvitedStep
<1>4. InvitedInv /\ [Next]_vars => [Lifecycle!Next]_(Lifecycle!vars)
  BY LifecycleStep
  DEF Lifecycle!Next, Lifecycle!vars, Lifecycle!Take, Lifecycle!Settle, Lifecycle!Release,
      heldLeads, invitedLeads
<1> QED BY <1>1, <1>2, <1>3, <1>4, PTL DEF Spec, ClaimsFollowLifecycle, Lifecycle!Spec
=============================================================================
