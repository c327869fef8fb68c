---------------------------- MODULE OutreachSystem ----------------------------
(***************************************************************************)
(* The outreach system: browser workers that claim and report, operators   *)
(* at the dashboard, the passing of time, all on one database.             *)
(***************************************************************************)
EXTENDS OperatorConsole

\* Every lead is imported PENDING and every campaign has been created; no row
\* of the queue exists yet.  A campaign starts as DRAFT; the instances begin
\* where the operator has activated it.
Init ==
    /\ job = [j \in Jobs |-> [status |-> "ABSENT", attempts |-> 0, maxAttempts |-> 0,
                              token |-> NoToken, lease |-> "NONE"]]
    /\ lead = [l \in Leads |-> [status |-> "PENDING", invited |-> FALSE]]
    /\ campaign \in [Campaigns -> {"DRAFT", "RUNNING"}]
    /\ kill = FALSE
    /\ incidents = {}
    /\ worker = [w \in Workers |-> Idle]
    /\ request = [o \in Operators |-> NoRequest]

-----------------------------------------------------------------------------
(* The environment: the claim lease runs out; a worker process dies, or    *)
(* goes on for so long that it is a zombie (it simply does not step).      *)

LeaseExpires(j) ==
    /\ job[j].status = "PROCESSING"
    /\ job[j].lease = "LIVE"
    /\ SetJob(j, [job[j] EXCEPT !.lease = "EXPIRED"])
    /\ UNCHANGED <<lead, campaign, kill, incidents, worker, request>>

WorkerDies(w) ==
    /\ worker[w].phase = "WORKING"
    /\ worker' = [worker EXCEPT ![w] = Idle]
    /\ UNCHANGED <<tables, request>>

-----------------------------------------------------------------------------

WorkerStep(w) ==
    \/ PassGate(w)
    \/ ClaimEmpty(w)
    \/ \E j \in Jobs : ClaimNextJob(w, j)
    \/ \E r \in Reports : CompleteJob(w, r) \/ FailJob(w, r) \/ ResultRead(w, r)
    \/ ResultAborted(w)
    \/ CompleteWrite(w)
    \/ FailWrite(w)
    \/ Escalate(w)
    \/ EscalationFails(w)
    \/ ReportRejected(w)
    \/ WorkerDies(w)

OperatorRequest(o) ==
    \/ \E c \in Campaigns : GenerateRead(o, c) \/ ActivateChecks(o, c) \/ ResumeRead(o, c)
    \/ \E j \in Jobs : CancelRead(o, j) \/ RequeueRead(o, j)
    \/ \E l \in Leads : SetLeadRead(o, l)
    \/ ReapScan(o)
    \/ ClearRead(o)
    \/ ActivateRead(o)
    \/ ResumeChecks(o)

OperatorWrite(o) ==
    \/ GenerateWrite(o)
    \/ CancelWrite(o)
    \/ RequeueWrite(o)
    \/ \E s \in LeadStatus : SetLeadWrite(o, s)
    \/ ReapJob(o)
    \/ StartWrite(o)
    \/ ClearWrite(o)

OperatorAction ==
    \/ EmergencyStop
    \/ ClearEmergencyStop
    \/ \E i \in incidents : ResolveIncident(i)
    \/ \E c \in Campaigns : PauseCampaign(c) \/ ClearCampaignQueue(c)

Next ==
    \/ \E w \in Workers : WorkerStep(w)
    \/ \E o \in Operators : OperatorRequest(o) \/ OperatorWrite(o)
    \/ OperatorAction
    \/ \E j \in Jobs : LeaseExpires(j)

Spec == Init /\ [][Next]_vars
=============================================================================
