--------------------------- MODULE WorkerRegistry ---------------------------
(***************************************************************************)
(* The worker registry and the exclusive run lease (src/lib/workers.ts)    *)
(* and the gate that consults it (src/lib/safety.ts).  A member of Workers *)
(* is one run of the worker program: every run registers a row of its own. *)
(* Statuses that differ for display only are one: LIVE stands for          *)
(* STARTING, IDLE, RUNNING, PAUSED and DRAINING.  Time is the freshness of *)
(* the last heartbeat.                                                     *)
(***************************************************************************)
EXTENDS OutreachSystem

CONSTANT NoWorker    \* nobody holds the run lease

ASSUME RegistryAssumption == NoWorker \notin Workers

VARIABLES
    registry,   \* workers
    active      \* system_state.activeWorkerId

leases == <<registry, active>>

RegistryRow == [status : {"NONE", "LIVE", "UNHEALTHY", "STOPPED"}, fresh : BOOLEAN]

NotRegistered == [status |-> "NONE", fresh |-> FALSE]

RegistryTypeOK ==
    /\ registry \in [Workers -> RegistryRow]
    /\ active \in Workers \cup {NoWorker}

RegistryInit ==
    /\ registry = [w \in Workers |-> NotRegistered]
    /\ active = NoWorker

-----------------------------------------------------------------------------

\* (Mutant: only the age of the heartbeat is looked at.)
FreshHolderIsLive == active # NoWorker /\ registry[active].fresh

\* (Mutant: a holder that goes silent keeps the lease until it signs off.)
HolderIsLiveUntilStopped == active # NoWorker /\ registry[active].status # "STOPPED"

\* registerWorker refuses a second worker while this holds, unless forced.
HolderIsLive ==
    /\ active # NoWorker
    /\ registry[active].status # "STOPPED"
    /\ registry[active].fresh

\* registerWorker, granted: the old holder's row is closed, the lease is w's.
RegisterWorker(w, force) ==
    /\ registry[w] = NotRegistered
    /\ ~HolderIsLive \/ force
    /\ registry' = [v \in Workers |->
           CASE v = w -> [status |-> "LIVE", fresh |-> TRUE]
             [] v = active /\ v # w -> [registry[v] EXCEPT !.status = "STOPPED"]
             [] OTHER -> registry[v]]
    /\ active' = w

\* recordHeartbeat; NULL is the timer's heartbeat, which carries no status.
RecordHeartbeat(w, status) ==
    /\ registry' = [registry EXCEPT ![w] =
           [status |-> IF status = NULL THEN @.status ELSE status, fresh |-> TRUE]]
    /\ UNCHANGED active

\* markWorkerStopped: a row that is STOPPED already is left as it is, and so is
\* the lease.
MarkWorkerStopped(w) ==
    IF registry[w].status = "STOPPED"
      THEN UNCHANGED leases
      ELSE /\ registry' = [registry EXCEPT ![w].status = "STOPPED"]
           /\ active' = IF active = w THEN NoWorker ELSE active

\* evaluateWorkerGate, the third check: another worker holds the lease.
TurnedAway(w) == active \notin {w, NoWorker}

GateAllows(w) == GateOpen /\ ~TurnedAway(w)

-----------------------------------------------------------------------------

\* detectUnhealthyWorkers, one worker of the list: mark it, open an incident
\* that names no job and blocks nobody.
DetectUnhealthyWorker(w) ==
    /\ registry[w].status = "LIVE"
    /\ ~registry[w].fresh
    /\ registry' = [registry EXCEPT ![w].status = "UNHEALTHY"]
    /\ OpenIncident("WORKER_UNHEALTHY", NoJob, NoCampaign, NoToken, FALSE, FALSE)
    /\ UNCHANGED <<active, job, lead, worker, request>>
=============================================================================
