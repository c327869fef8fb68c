---------------------------- MODULE OutreachQueue ----------------------------
(***************************************************************************)
(* The persistent queue (src/lib/queue.ts): generate, claim, complete,     *)
(* fail, reap and clear, each with the interleaving points of the code.    *)
(* What the code reads before a transaction is a step of its own, and so   *)
(* may be stale when the transaction runs.  Inside a transaction of        *)
(* completeJob or failJob the row is read first and updated by id later:   *)
(* one step when transactions are serial, two when they are not.           *)
(***************************************************************************)
EXTENDS SafetyControls

-----------------------------------------------------------------------------
(* generateQueueForCampaign: the candidates are read first, the rows       *)
(* created later with ON CONFLICT DO NOTHING.  The schedule may have room  *)
(* for some of the candidates only.                                        *)

Candidates(c) ==
    {l \in LeadsIn(c) :
        /\ lead[l].status \in {"PENDING", "FAILED"}
        /\ ~lead[l].invited
        /\ \A j \in JobsOf(l) : job[j].status \notin
             {"WAITING", "PROCESSING", "COMPLETED", "REQUIRES_REVIEW"}}

GenerateRead(o, c) ==
    /\ "GENERATE" \in Ops
    /\ request[o] = NoRequest
    /\ \E plan \in SUBSET Candidates(c) \ {{}} :
         request' = [request EXCEPT ![o] = [op |-> "GENERATE", leads |-> plan]]
    /\ UNCHANGED <<tables, worker>>

\* Rows not yet used; a lead whose rows are used up gets no job (model bound).
FreshRows(l) == {j \in JobsOf(l) : job[j].status = "ABSENT"}

InsertedRow(l) == CHOOSE j \in FreshRows(l) : TRUE

NewRow == [status |-> "WAITING", attempts |-> 0, maxAttempts |-> MaxAttemptsPerLead,
           token |-> NoToken, lease |-> "NONE"]

GenerateWrite(o) ==
    /\ request[o].op = "GENERATE"
    /\ LET insertable == {l \in request[o].leads :
                            /\ FreshRows(l) # {}
                            /\ \A j \in JobsOf(l) : job[j].status \notin LiveStatus}
           rows == {InsertedRow(l) : l \in insertable}
       IN job' = [j \in Jobs |-> IF j \in rows THEN NewRow ELSE job[j]]
    /\ request' = [request EXCEPT ![o] = NoRequest]
    /\ UNCHANGED <<lead, campaign, kill, incidents, worker>>

\* cancelCampaignQueue.
ClearCampaignQueue(c) ==
    /\ "CLEAR_QUEUE" \in Ops
    /\ CancelIn(JobsIn(c), {"WAITING"})
    /\ UNCHANGED <<lead, campaign, kill, incidents, worker, request>>

-----------------------------------------------------------------------------
(* claimNextJob: the safety gate first, outside the transaction; then one  *)
(* statement picks and takes the row, re-verifying lead and campaign.      *)

PassGate(w) ==
    /\ worker[w].phase = "IDLE"
    /\ GateOpen
    /\ worker' = [worker EXCEPT ![w].phase = "GATED"]
    /\ UNCHANGED <<tables, request>>

\* No campaign is eligible, no row qualifies, or the limits roll the claim back.
ClaimEmpty(w) ==
    /\ worker[w].phase = "GATED"
    /\ worker' = [worker EXCEPT ![w] = Idle]
    /\ UNCHANGED <<tables, request>>

\* (Mutant: the queue row and the campaign are believed, the lead not looked at.)
ClaimableOnQueueRow(j) ==
    /\ job[j].status = "WAITING"
    /\ campaign[JobCampaign(j)] = "RUNNING"

\* (Mutant: what was true of the campaign at the gate is believed.)
ClaimableInAnyCampaign(j) ==
    /\ job[j].status = "WAITING"
    /\ ~lead[JobLead[j]].invited
    /\ lead[JobLead[j]].status \in {"PENDING", "FAILED"}

Claimable(j) ==
    /\ job[j].status = "WAITING"
    /\ campaign[JobCampaign(j)] = "RUNNING"
    /\ ~lead[JobLead[j]].invited
    /\ lead[JobLead[j]].status \in {"PENDING", "FAILED"}
    /\ \A k \in JobsOf(JobLead[j]) \ {j} : job[k].status \notin {"COMPLETED", "PROCESSING"}

\* (Mutant: a token that names the job and not the claim.)
TokenOfJob(j) == 1

ClaimToken(j) == job[j].attempts + 1

ClaimNextJob(w, j) ==
    /\ worker[w].phase = "GATED"
    /\ Claimable(j)
    /\ job[j].attempts < AttemptBound
    /\ SetJob(j, [job[j] EXCEPT !.status = "PROCESSING",
                                !.attempts = job[j].attempts + 1,
                                !.token = ClaimToken(j), !.lease = "LIVE"])
    /\ worker' = [worker EXCEPT ![w] = [phase |-> "WORKING", job |-> j,
                                        token |-> ClaimToken(j), report |-> NoReport]]
    /\ SetLeadStatus(JobLead[j], "PROCESSING")
    /\ UNCHANGED <<campaign, kill, incidents, request>>

-----------------------------------------------------------------------------
(* The guards of completeJob and failJob. *)

\* (Mutant: the token is not compared.)
HoldsClaimByStatus(w) == job[worker[w].job].status = "PROCESSING"

HoldsClaim(w) ==
    /\ job[worker[w].job].token = worker[w].token
    /\ job[worker[w].job].status = "PROCESSING"

\* The reply reaches the worker, which moves on, or it is lost, and the worker
\* will report the same claim again.
Replied(w) ==
    \E after \in {Idle, [worker[w] EXCEPT !.phase = "WORKING", !.report = NoReport]} :
        worker' = [worker EXCEPT ![w] = after]

\* NOT_FOUND, CLAIM_MISMATCH, NOT_PROCESSING: the worker drops the outcome.
ReportRejected(w) ==
    /\ worker[w].phase = "WORKING"
    /\ ~HoldsClaim(w)
    /\ worker' = [worker EXCEPT ![w] = Idle]
    /\ UNCHANGED <<tables, request>>

\* The reads of a result transaction, when others may commit before its writes.
ResultRead(w, r) ==
    /\ ~SerialTx
    /\ worker[w].phase = "WORKING"
    /\ HoldsClaim(w)
    /\ worker' = [worker EXCEPT ![w].phase = "RECORDING", ![w].report = r]
    /\ UNCHANGED <<tables, request>>

\* The transaction never commits: an index refuses it, or its server is gone.
ResultAborted(w) ==
    /\ worker[w].phase = "RECORDING"
    /\ Replied(w)
    /\ UNCHANGED <<tables, request>>

-----------------------------------------------------------------------------
(* completeJob: job and lead take the statuses of the policy, invitation-  *)
(* SentAt is set for a SENT result, and maybeCompleteCampaign looks at     *)
(* what is left.  The index on COMPLETED rows can refuse it.               *)

LeadAfterCompletion(row, result) ==
    [status |-> IF CompletionPolicy(result).leadStatus = NULL THEN "PENDING"
                ELSE CompletionPolicy(result).leadStatus,
     invited |-> row.invited \/ result = SENT_RESULT]

\* (Mutant: only work that waits is counted as left, not what is in flight.)
CompleteCampaignWhenNoneWaits(c) ==
    campaign' =
        IF /\ campaign[c] = "RUNNING"
           /\ \A k \in JobsIn(c) : job'[k].status # "WAITING"
           /\ \A l \in LeadsIn(c) : lead'[l].status # "PENDING"
          THEN [campaign EXCEPT ![c] = "COMPLETED"]
          ELSE campaign

\* maybeCompleteCampaign, on the rows as the transaction leaves them.
MaybeCompleteCampaign(c) ==
    campaign' =
        IF /\ campaign[c] = "RUNNING"
           /\ \A k \in JobsIn(c) : job'[k].status \notin LiveStatus
           /\ \A l \in LeadsIn(c) : lead'[l].status \notin {"PENDING", "PROCESSING"}
          THEN [campaign EXCEPT ![c] = "COMPLETED"]
          ELSE campaign

RecordCompletion(w, result) ==
    LET j == worker[w].job
        l == JobLead[j]
        status == CompletionPolicy(result).queueStatus
    IN /\ status = "COMPLETED" => CompletedIndexFree(j)
       /\ SetJob(j, Unclaimed(InStatus(job[j], status)))
       /\ lead' = [lead EXCEPT ![l] = LeadAfterCompletion(lead[l], result)]
       /\ MaybeCompleteCampaign(JobCampaign(j))
       /\ Replied(w)
       /\ UNCHANGED <<kill, incidents, request>>

CompleteJob(w, r) ==
    /\ SerialTx
    /\ r.class = "NONE"
    /\ worker[w].phase = "WORKING"
    /\ HoldsClaim(w)
    /\ RecordCompletion(w, r.page)

CompleteWrite(w) ==
    /\ worker[w].phase = "RECORDING"
    /\ worker[w].report.class = "NONE"
    /\ RecordCompletion(w, worker[w].report.page)

-----------------------------------------------------------------------------
(* failJob: a SAFETY report is escalated, a TECHNICAL one is retried while *)
(* attempts remain, anything else ends the job.                            *)

\* (Mutant: one attempt too many.)
DispositionOffByOne(class, attempts, maxAttempts) ==
    CASE class = "SAFETY" -> "ESCALATED"
      [] class = "TECHNICAL" /\ attempts <= maxAttempts -> "RETRY_SCHEDULED"
      [] OTHER -> "EXHAUSTED"

Disposition(class, attempts, maxAttempts) ==
    CASE class = "SAFETY" -> "ESCALATED"
      [] class = "TECHNICAL" /\ attempts < maxAttempts -> "RETRY_SCHEDULED"
      [] OTHER -> "EXHAUSTED"

FailedJobStatus(disposition, policy) ==
    CASE disposition = "RETRY_SCHEDULED" -> "WAITING"
      [] disposition = "ESCALATED" -> "REQUIRES_REVIEW"
      [] OTHER -> IF policy.queueStatus = "REQUIRES_REVIEW" THEN "REQUIRES_REVIEW"
                                                           ELSE "FAILED"

\* (Mutant: a policy that says nothing of the lead is copied all the same.)
FailedLeadStatusOfPolicy(disposition, policy) ==
    IF disposition = "RETRY_SCHEDULED" THEN "PENDING" ELSE policy.leadStatus

FailedLeadStatus(disposition, policy) ==
    IF disposition = "RETRY_SCHEDULED" THEN "PENDING"
    ELSE IF policy.leadStatus # NULL THEN policy.leadStatus
    ELSE IF disposition = "ESCALATED" THEN "REQUIRES_REVIEW"
    ELSE "FAILED"

\* The attempt number read with the row is the token the report carries.
RecordFailure(w, r) ==
    LET j == worker[w].job
        disposition == Disposition(r.class, worker[w].token, job[j].maxAttempts)
        policy == FailurePolicy(r.class, r.page)
        status == FailedJobStatus(disposition, policy)
    IN /\ status = "WAITING" => LiveIndexFree(j)
       /\ SetJob(j, Unclaimed(InStatus(job[j], status)))
       /\ SetLeadStatus(JobLead[j], FailedLeadStatus(disposition, policy))
       /\ IF disposition = "RETRY_SCHEDULED"
            THEN Replied(w)
            ELSE worker' = [worker EXCEPT ![w].phase = "ESCALATING", ![w].report = r]
       /\ UNCHANGED <<campaign, kill, incidents, request>>

FailJob(w, r) ==
    /\ SerialTx
    /\ r.class # "NONE"
    /\ worker[w].phase = "WORKING"
    /\ HoldsClaim(w)
    /\ RecordFailure(w, r)

FailWrite(w) ==
    /\ worker[w].phase = "RECORDING"
    /\ worker[w].report.class # "NONE"
    /\ RecordFailure(w, worker[w].report)

\* The incident of a committed failure: opened by failJob for SAFETY and for
\* exhausted TECHNICAL failures, by the worker for a PERMANENT one.
EscalatedType(r) ==
    IF r.class = "PERMANENT" THEN "PROFILE_UNPROCESSABLE"
    ELSE IF r.page = NULL THEN "BROWSER_ERROR"
    ELSE POLICIES[r.page].incidentType

Escalate(w) ==
    /\ worker[w].phase = "ESCALATING"
    /\ LET r == worker[w].report
       IN OpenIncident(EscalatedType(r), worker[w].job, JobCampaign(worker[w].job),
                       worker[w].token, r.class = "SAFETY",
                       r.class = "SAFETY" /\ POLICIES[r.page].engageKillSwitch)
    /\ Replied(w)
    /\ UNCHANGED <<job, lead, request>>

\* The failure is durable even if its escalation then fails or never starts.
EscalationFails(w) ==
    /\ worker[w].phase = "ESCALATING"
    /\ Replied(w)
    /\ UNCHANGED <<tables, request>>

-----------------------------------------------------------------------------
(* reapExpiredClaims: the expired rows are read first; then one            *)
(* transaction per row, guarded by its status alone.                       *)

ReapScan(o) ==
    LET expired == {j \in Jobs : job[j].status = "PROCESSING" /\ job[j].lease = "EXPIRED"}
    IN /\ "REAP" \in Ops
       /\ request[o] = NoRequest
       /\ expired # {}
       /\ request' = [request EXCEPT ![o] =
            [op |-> "REAP",
             rows |-> {[job |-> j, exhausted |-> job[j].attempts >= job[j].maxAttempts] :
                         j \in expired}]]
       /\ UNCHANGED <<tables, worker>>

\* (Mutant: the lead is forgotten.)
ReapWithoutLead(row) ==
    /\ IF job[row.job].status = "PROCESSING"
         THEN SetJob(row.job, Unclaimed(InStatus(job[row.job],
                           IF row.exhausted THEN "FAILED" ELSE "WAITING")))
         ELSE UNCHANGED job
    /\ UNCHANGED lead

\* (Mutant: a claim whose attempts are spent is left as it is.)
ReapWhatCanRetry(row) ==
    IF job[row.job].status = "PROCESSING" /\ ~row.exhausted
      THEN /\ SetJob(row.job, Unclaimed(InStatus(job[row.job], "WAITING")))
           /\ SetLeadStatus(JobLead[row.job], "PENDING")
      ELSE UNCHANGED <<job, lead>>

Reap(row) ==
    LET l == JobLead[row.job]
    IN IF job[row.job].status = "PROCESSING"
         THEN /\ SetJob(row.job, Unclaimed(InStatus(job[row.job],
                           IF row.exhausted THEN "FAILED" ELSE "WAITING")))
              /\ IF lead[l].status = "PROCESSING"
                   THEN SetLeadStatus(l, IF row.exhausted THEN "FAILED" ELSE "PENDING")
                   ELSE UNCHANGED lead
         ELSE UNCHANGED <<job, lead>>

ReapJob(o) ==
    /\ request[o].op = "REAP"
    /\ \E row \in request[o].rows :
         /\ Reap(row)
         /\ LET rest == request[o].rows \ {row}
            IN request' = [request EXCEPT ![o] =
                 IF rest = {} THEN NoRequest ELSE [op |-> "REAP", rows |-> rest]]
    /\ UNCHANGED <<campaign, kill, incidents, worker>>
=============================================================================
