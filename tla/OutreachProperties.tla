-------------------------- MODULE OutreachProperties --------------------------
(***************************************************************************)
(* What the outreach system must keep true, whoever interleaves with whom. *)
(***************************************************************************)
EXTENDS OutreachSystem

-----------------------------------------------------------------------------
(* Claims. *)

\* w is at work on a claim that the database still grants it.
Holder(w, l) ==
    /\ worker[w].phase = "WORKING"
    /\ worker[w].job \in JobsOf(l)
    /\ job[worker[w].job].status = "PROCESSING"
    /\ job[worker[w].job].token = worker[w].token

\* Two browsers are never both entitled to act on one lead: not through two
\* rows queued for it, nor through a claim that was reaped and taken again
\* while its first worker is still running (claimNextJob, reapExpiredClaims).
OneHolderPerLead ==
    \A l \in Leads : \A v, w \in Workers : Holder(v, l) /\ Holder(w, l) => v = w

\* A lead has at most one queued or claimed row, whatever order generation,
\* retries, requeues and reaping come in (queue_jobs_one_live_per_lead_action).
OneLiveJobPerLead ==
    \A j, k \in Jobs :
        (/\ JobLead[j] = JobLead[k]
         /\ job[j].status \in LiveStatus
         /\ job[k].status \in LiveStatus) => j = k

\* At most one row of a lead is COMPLETED, even when a stale result is written
\* next to a newer one (queue_jobs_one_completed_per_lead_action).
OneCompletedJobPerLead ==
    \A j, k \in Jobs :
        (/\ JobLead[j] = JobLead[k]
         /\ job[j].status = "COMPLETED"
         /\ job[k].status = "COMPLETED") => j = k

\* A browser is never put to work on a lead that already got its invitation,
\* whatever requeueing has done to the rows since (claimNextJob, re-verifies).
NoClaimOnInvitedLead ==
    \A j \in Jobs : job[j].status = "PROCESSING" => ~lead[JobLead[j]].invited

\* A lead marked as being processed has a claim behind it: no path leaves it
\* in a status that generation and the operator alike refuse to touch.
NoStrandedLead ==
    \A l \in Leads : lead[l].status = "PROCESSING" =>
        \E j \in JobsOf(l) : job[j].status = "PROCESSING"

\* The report of a worker whose claim is gone (reaped, cancelled, taken by
\* another, already recorded) changes no table (completeJob, failJob).
LateReportChangesNothing ==
    [][\A w \in Workers :
        (/\ worker[w].phase \in {"WORKING", "RECORDING"}
         /\ \/ job[worker[w].job].token # worker[w].token
            \/ job[worker[w].job].status # "PROCESSING"
         /\ worker'[w] # worker[w])
        => UNCHANGED tables]_vars

\* A row is never claimed more often than its budget allows, a requeue by the
\* operator included (failJob, requeueJob).  For instances with one operator and
\* neither the reaper, whose snapshot may be stale, nor the resolution of
\* incidents, which requeues a job on the budget it has used up.
AttemptBudget ==
    \A j \in Jobs : job[j].attempts <= job[j].maxAttempts

\* The queue's handlers, with their rows, tokens, retries and operators, implement
\* the life of a claim in ClaimLifecycle: a lead is held when a row of it is
\* PROCESSING.  With serial transactions (claimNextJob to reapExpiredClaims).
Lifecycle == INSTANCE ClaimLifecycle
    WITH held <- {l \in Leads : \E j \in JobsOf(l) : job[j].status = "PROCESSING"},
         invited <- {l \in Leads : lead[l].invited}

ClaimsFollowLifecycle == Lifecycle!Spec

-----------------------------------------------------------------------------
(* Stopping. *)

\* While an incident that latches the stop is open, the stop stays latched
\* (clearEmergencyStop).
LatchHeld ==
    \A i \in incidents :
        (\E p \in SafetyStates : POLICIES[p].incidentType = i.type
                                 /\ POLICIES[p].engageKillSwitch) => kill

\* Once the stop is latched nothing is claimed, not even by a worker that
\* passed the gate just before (engageEmergencyStop, claimNextJob).
NoClaimUnderStop ==
    [][kill => \A j \in Jobs : job[j].status # "PROCESSING"
                                 => job'[j].status # "PROCESSING"]_vars

\* When the stop is cleared no campaign is running: what runs afterwards was
\* re-activated after the stop (engageEmergencyStop, clearEmergencyStop).
ClearRestartsNothing ==
    [][kill /\ ~kill' => \A c \in Campaigns : campaign[c] # "RUNNING"]_vars

\* A campaign that is called finished has no browser at work in it
\* (maybeCompleteCampaign).
CompletedCampaignIdle ==
    \A c \in Campaigns : campaign[c] = "COMPLETED" =>
        \A j \in JobsIn(c) : job[j].status # "PROCESSING"

-----------------------------------------------------------------------------
(* Progress.  Time passes, worker processes take their steps, a request     *)
(* that has read goes on to write; the reaper runs only when somebody asks. *)

Fairness ==
    /\ \A j \in Jobs : WF_vars(LeaseExpires(j))
    /\ \A w \in Workers : WF_vars(WorkerStep(w))
    /\ \A o \in Operators : WF_vars(OperatorWrite(o))

FairSpec == Spec /\ Fairness

\* An operator who keeps clicking `reap'.
TendedSpec == FairSpec /\ \A o \in Operators : SF_vars(ReapScan(o))

\* A claim does not stay open for ever: its worker reports, or the reaper
\* takes it back (claim lease, reapExpiredClaims).
ClaimsResolved ==
    \A j \in Jobs : job[j].status = "PROCESSING" ~> job[j].status # "PROCESSING"

\* After a stop the work in flight drains, unless the stop is cleared before; nothing
\* takes its place, says NoClaimUnderStop (engageEmergencyStop).
StopDrains ==
    kill ~> (~kill \/ \A j \in Jobs : job[j].status # "PROCESSING")
=============================================================================
