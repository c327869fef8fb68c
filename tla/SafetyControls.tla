--------------------------- MODULE SafetyControls ---------------------------
(***************************************************************************)
(* The emergency stop and the incidents (src/lib/safety.ts,                *)
(* src/lib/incidents.ts).  Every handler is one database transaction; with *)
(* more than one pooled connection (SerialTx = FALSE) clearEmergencyStop   *)
(* is two steps, because other transactions commit between its reads and   *)
(* its write.  An incident carries its job; acknowledging one changes      *)
(* nothing anyone reads, so ACKNOWLEDGED is not told apart from OPEN.      *)
(***************************************************************************)
EXTENDS OutreachData

\* evaluateWorkerGate, for a worker that the run lease does not turn away.
\* Who holds the lease is the subject of another module; here any number of
\* workers may pass, as they do while no worker holds it.
GateOpen == ~kill /\ Blocking = {}

-----------------------------------------------------------------------------
(* engageEmergencyStop: latch, pause what runs, cancel what waits; rows in  *)
(* PROCESSING are left to their worker.                                     *)

EmergencyStop ==
    /\ "STOP" \in Ops
    /\ kill' = TRUE
    /\ campaign' = PausedAll
    /\ CancelIn(Jobs, {"WAITING"})
    /\ UNCHANGED <<lead, incidents, worker, request>>

-----------------------------------------------------------------------------
(* clearEmergencyStop: refused when not engaged or while a blocking        *)
(* incident is open.                                                       *)

\* (Mutant: the open incidents are not looked at.)
ClearAllowedWhenEngaged == kill

ClearAllowed == kill /\ Blocking = {}

ClearEmergencyStop ==
    /\ "CLEAR_STOP" \in Ops
    /\ SerialTx
    /\ ClearAllowed
    /\ kill' = FALSE
    /\ UNCHANGED <<job, lead, campaign, incidents, worker, request>>

ClearRead(o) ==
    /\ "CLEAR_STOP" \in Ops
    /\ ~SerialTx
    /\ request[o] = NoRequest
    /\ ClearAllowed
    /\ request' = [request EXCEPT ![o] = [op |-> "CLEAR_STOP"]]
    /\ UNCHANGED <<tables, worker>>

ClearWrite(o) ==
    /\ request[o].op = "CLEAR_STOP"
    /\ kill' = FALSE
    /\ request' = [request EXCEPT ![o] = NoRequest]
    /\ UNCHANGED <<job, lead, campaign, incidents, worker>>

-----------------------------------------------------------------------------
(* openIncident, called after a failure is recorded or by a worker for     *)
(* what no job is to blame for.  A type of DEDUPLICATED_TYPES reuses the   *)
(* open incident, re-points it at the newest job, if there is one (its     *)
(* campaign stays), and pauses nothing; the stop is latched either way.    *)
(* pauseOnIncident has its default, TRUE.                                  *)

DEDUPLICATED_TYPES ==
    {"LOGIN_REQUIRED", "CAPTCHA", "SECURITY_CHALLENGE", "ACCOUNT_RESTRICTED",
     "WORKER_UNHEALTHY"}

\* An open incident, now pointing at the newest job.
Repointed(i, j, seq) == IF j = NoJob THEN i ELSE [i EXCEPT !.job = j, !.seq = seq]

OpenIncident(type, j, c, seq, blocks, engage) ==
    LET same == {i \in incidents : type \in DEDUPLICATED_TYPES /\ i.type = type}
        repointed == {Repointed(i, j, seq) : i \in same}
        created == [type |-> type, job |-> j, campaign |-> c, seq |-> seq, blocks |-> blocks]
        paused == [d \in Campaigns |->
                     IF same = {} /\ blocks /\ d = c /\ campaign[d] = "RUNNING"
                       THEN "PAUSED" ELSE campaign[d]]
    IN /\ incidents' = IF same = {} THEN incidents \cup {created}
                                    ELSE (incidents \ same) \cup repointed
       /\ kill' = (kill \/ engage)
       /\ campaign' = IF engage THEN PausedAll ELSE paused

-----------------------------------------------------------------------------
(* resolveIncident: the operator's decision on the lead, then the incident *)
(* is closed.  None of them clears the emergency stop.                     *)

\* SKIP_LEAD, BLOCK_LEAD: take the lead out of play with its queued work.
RetireLead(i, status) ==
    /\ i.job # NoJob
    /\ SetLeadStatus(JobLead[i.job], status)
    /\ CancelIn(JobsOf(JobLead[i.job]), {"WAITING", "REQUIRES_REVIEW"})
    /\ UNCHANGED campaign

\* REQUEUE_LEAD: the lead becomes claimable, its job too if still under review.
RequeueLead(i) ==
    /\ i.job # NoJob
    /\ SetLeadStatus(JobLead[i.job], "PENDING")
    /\ IF job[i.job].status = "REQUIRES_REVIEW"
         THEN /\ LiveIndexFree(i.job)
              /\ SetJob(i.job, Unclaimed(InStatus(job[i.job], "WAITING")))
         ELSE UNCHANGED job
    /\ UNCHANGED campaign

\* STOP_CAMPAIGN: pause it whatever its status, cancel what waits in it.
StopCampaign(i) ==
    /\ i.campaign # NoCampaign
    /\ campaign' = [campaign EXCEPT ![i.campaign] = "PAUSED"]
    /\ CancelIn(JobsIn(i.campaign), {"WAITING"})
    /\ UNCHANGED lead

ResolveIncident(i) ==
    /\ "RESOLVE" \in Ops
    /\ i \in incidents
    /\ \/ UNCHANGED <<job, lead, campaign>>          \* RESUME
       \/ RetireLead(i, "SKIPPED")
       \/ RetireLead(i, "BLOCKED")
       \/ RequeueLead(i)
       \/ StopCampaign(i)
    /\ incidents' = incidents \ {i}
    /\ UNCHANGED <<kill, worker, request>>
=============================================================================
