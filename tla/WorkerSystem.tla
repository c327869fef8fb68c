----------------------------- MODULE WorkerSystem -----------------------------
(***************************************************************************)
(* The outreach system with its worker programs: several runs of the       *)
(* worker, the registry and lease that keep them apart, the queue they are *)
(* fed from and the operator who stops them.                               *)
(***************************************************************************)
EXTENDS WorkerProcess

systemVars == <<vars, leases, processes>>

SystemInit == Init /\ RegistryInit /\ ProcessInit

\* What the program of w does of its own accord.
ProgramStep(w) ==
    \/ VerifySession(w)
    \/ SignOff(w)
    \/ ReadControl(w)
    \/ ClaimGate(w)
    \/ ClaimNothing(w)
    \/ ClaimJob(w)
    \/ ClaimUnheard(w)
    \/ Visit(w)
    \/ ReportOutcome(w)
    \/ ReportException(w)
    \/ ReportCrash(w)
    \/ Shutdown(w)

ProcessNext(w) ==
    \/ Register(w)
    \/ ProgramStep(w)
    \/ Watchdog(w)
    \/ Heartbeat(w)
    \/ HeartbeatGoesStale(w)
    \/ Signal(w)
    \/ Crash(w)
    \/ DetectUnhealthyWorker(w) /\ UNCHANGED processes

\* The database has other clients; none of them touches the registry.
OthersNext ==
    /\ \/ \E o \in Operators : OperatorRequest(o) \/ OperatorWrite(o)
       \/ OperatorAction
       \/ \E j \in Jobs : LeaseExpires(j)
    /\ UNCHANGED <<leases, processes>>

SystemNext == (\E w \in Workers : ProcessNext(w)) \/ OthersNext

SystemSpec == SystemInit /\ [][SystemNext]_systemVars

SystemTypeOK == TypeOK /\ RegistryTypeOK /\ ProcessTypeOK

-----------------------------------------------------------------------------

\* Nobody is invited twice, however often a visit is aborted, its report is lost
\* or its job is retried: what a worker finds on the page is looked at before it
\* acts (performConnect).  Two visits of one lead must not overlap, though: the run
\* lease sees to it while heartbeats are on time, the queue while nobody reaps,
\* cancels or requeues the claim of a live worker.
NoDoubleSend == \A l \in Leads : invitations[l] <= 1

\* What the database calls SENT has been sent (performConnect, completeJob).
SentMeansInvited == \A l \in Leads : lead[l].invited => invitations[l] > 0

\* A worker whose sign-off reached the server does not keep a replacement out,
\* even where its row was closed before and the lease still names it
\* (markWorkerStopped, registerWorker).
SignedOffFreesLease ==
    \A w \in Workers : proc[w].signedOff /\ active = w => ~HolderIsLive

\* The job of a visit that ended in a safety state is not tried again before a
\* person has looked at it (main.ts, failJob).
SafetyNeverRetried ==
    [][\A w \in Workers : proc[w].outcome.class = "SAFETY" /\ worker[w].phase = "WORKING"
        => job'[worker[w].job].status # "WAITING"]_systemVars

-----------------------------------------------------------------------------
(* Progress: programs run, the watchdog polls, time passes; a replacement is *)
(* started by hand, again and again while it is refused.                     *)

SystemFairness ==
    /\ \A w \in Workers :
         /\ WF_systemVars(ProgramStep(w))
         /\ WF_systemVars(Watchdog(w))
         /\ WF_systemVars(HeartbeatGoesStale(w) /\ ~Running(w))
         /\ WF_systemVars(Register(w))

FairSystemSpec == SystemSpec /\ SystemFairness

\* The lease of a worker that died passes to the next one that is started
\* (registerWorker: a stale lease is taken over).
DeadHolderReplaced ==
    \A v, w \in Workers :
        At(w, "GONE") /\ active = w /\ At(v, "OFF") ~> active # w

\* A stop ends every run, and those started later, while it is not cleared: the
\* visit in progress is aborted, nobody waits for the gate (startControlWatchdog,
\* mainLoop).
StopEndsRuns ==
    kill ~> [](\A w \in Workers : ~Running(w))
=============================================================================
