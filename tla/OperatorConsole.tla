--------------------------- MODULE OperatorConsole ---------------------------
(***************************************************************************)
(* The dashboard's server actions on jobs, leads and campaigns             *)
(* (src/server/actions/queue.ts, leads.ts, campaigns.ts).  Each reads the  *)
(* row and decides, then writes it by id in a transaction that does not    *)
(* look again: a read step leaves a request in flight, a write step lands  *)
(* it, and anything may happen in between.                                 *)
(***************************************************************************)
EXTENDS OutreachQueue

Asks(o, decided) == request' = [request EXCEPT ![o] = decided]

Answered(o) == request' = [request EXCEPT ![o] = NoRequest]

-----------------------------------------------------------------------------
(* cancelQueueJob. *)

CancelRead(o, j) ==
    /\ "CANCEL" \in Ops
    /\ request[o] = NoRequest
    /\ job[j].status \in {"WAITING", "REQUIRES_REVIEW"}
    /\ Asks(o, [op |-> "CANCEL", job |-> j])
    /\ UNCHANGED <<tables, worker>>

CancelWrite(o) ==
    /\ request[o].op = "CANCEL"
    /\ LET j == request[o].job
           l == JobLead[j]
       IN /\ SetJob(j, InStatus(job[j], "CANCELLED"))
          /\ IF lead[l].status \in {"PROCESSING", "REQUIRES_REVIEW"}
               THEN SetLeadStatus(l, "PENDING")
               ELSE UNCHANGED lead
    /\ Answered(o)
    /\ UNCHANGED <<campaign, kill, incidents, worker>>

-----------------------------------------------------------------------------
(* requeueJob: one more attempt for a job that failed or is under review.  *)

RequeueRead(o, j) ==
    /\ "REQUEUE" \in Ops
    /\ request[o] = NoRequest
    /\ job[j].status \in {"REQUIRES_REVIEW", "FAILED"}
    /\ ~lead[JobLead[j]].invited
    /\ \A i \in Blocking : i.job # j
    /\ Asks(o, [op |-> "REQUEUE", job |-> j, attempts |-> job[j].attempts])
    /\ UNCHANGED <<tables, worker>>

RequeueWrite(o) ==
    /\ request[o].op = "REQUEUE"
    /\ LET j == request[o].job
       IN IF LiveIndexFree(j)
            THEN /\ SetJob(j, [Unclaimed(InStatus(job[j], "WAITING"))
                                 EXCEPT !.maxAttempts = request[o].attempts + 1])
                 /\ SetLeadStatus(JobLead[j], "PENDING")
            ELSE UNCHANGED <<job, lead>>     \* the unique index aborts it
    /\ Answered(o)
    /\ UNCHANGED <<campaign, kill, incidents, worker>>

-----------------------------------------------------------------------------
(* setLeadStatus: SENT and PROCESSING cannot be set by hand, and a lead in *)
(* PROCESSING is refused.                                                  *)

SetLeadRead(o, l) ==
    /\ "SET_LEAD" \in Ops
    /\ request[o] = NoRequest
    /\ lead[l].status # "PROCESSING"
    /\ Asks(o, [op |-> "SET_LEAD", lead |-> l])
    /\ UNCHANGED <<tables, worker>>

SetLeadWrite(o, status) ==
    /\ request[o].op = "SET_LEAD"
    /\ status \notin {"SENT", "PROCESSING"}
    /\ SetLeadStatus(request[o].lead, status)
    /\ IF status \in {"SKIPPED", "BLOCKED"}
         THEN CancelIn(JobsOf(request[o].lead), {"WAITING", "REQUIRES_REVIEW"})
         ELSE UNCHANGED job
    /\ Answered(o)
    /\ UNCHANGED <<campaign, kill, incidents, worker>>

-----------------------------------------------------------------------------
(* activateCampaign and resumeCampaign: the blocking pre-flight checks and *)
(* the status are read at different moments, in opposite orders; then the  *)
(* campaign is set RUNNING by id.  The schedule and business checks do not *)
(* depend on the modelled state.  pauseCampaign writes PAUSED over whatever *)
(* it finds, so what it read before makes no difference: one step.         *)

PreflightOk(c) ==
    /\ GateOpen
    /\ \E l \in LeadsIn(c) : lead[l].status \in {"PENDING", "FAILED"}

ActivateChecks(o, c) ==
    /\ "ACTIVATE" \in Ops
    /\ request[o] = NoRequest
    /\ PreflightOk(c)
    /\ Asks(o, [op |-> "ACTIVATE_CHECKED", campaign |-> c])
    /\ UNCHANGED <<tables, worker>>

ActivateRead(o) ==
    /\ request[o].op = "ACTIVATE_CHECKED"
    /\ IF campaign[request[o].campaign] \notin {"RUNNING", "COMPLETED"}
         THEN Asks(o, [op |-> "ACTIVATE", campaign |-> request[o].campaign])
         ELSE Answered(o)
    /\ UNCHANGED <<tables, worker>>

ResumeRead(o, c) ==
    /\ "RESUME" \in Ops
    /\ request[o] = NoRequest
    /\ campaign[c] = "PAUSED"
    /\ Asks(o, [op |-> "RESUME_PAUSED", campaign |-> c])
    /\ UNCHANGED <<tables, worker>>

ResumeChecks(o) ==
    /\ request[o].op = "RESUME_PAUSED"
    /\ IF PreflightOk(request[o].campaign)
         THEN Asks(o, [op |-> "RESUME", campaign |-> request[o].campaign])
         ELSE Answered(o)
    /\ UNCHANGED <<tables, worker>>

StartWrite(o) ==
    /\ request[o].op \in {"ACTIVATE", "RESUME"}
    /\ campaign' = [campaign EXCEPT ![request[o].campaign] = "RUNNING"]
    /\ Answered(o)
    /\ UNCHANGED <<job, lead, kill, incidents, worker>>

PauseCampaign(c) ==
    /\ "PAUSE" \in Ops
    /\ campaign[c] # "PAUSED"
    /\ campaign' = [campaign EXCEPT ![c] = "PAUSED"]
    /\ UNCHANGED <<job, lead, kill, incidents, worker, request>>
=============================================================================
