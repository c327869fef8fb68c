------------------------- MODULE WorkerSystemProofs -------------------------
(***************************************************************************)
(* Theorems about the worker programs, their lease and their queue: types, *)
(* the lease a program has signed off, no second invitation, and no SENT   *)
(* without one; for any number of programs, leads, rows and operators.     *)
(***************************************************************************)
EXTENDS WorkerSystem, OutreachClaimProofs

-----------------------------------------------------------------------------
(* Types of the processes and of the registry. *)

\* What GoTo, Ends and the shutdown make of a program.
LEMMA ProgramChanges ==
    ASSUME ProcessTypeOK, NEW w \in Workers, NEW p \in Process, proc' = [proc EXCEPT ![w] = p],
           p.aborted => p.at \in Browsing, p.at = "REPORT" => p.outcome # NoReport,
           invitations' \in [Leads -> Nat]
    PROVE  ProcessTypeOK'
  BY DEF ProcessTypeOK

LEMMA GoToTypes ==
    ASSUME ProcessTypeOK, NEW w \in Workers, NEW place \in Place, GoTo(w, place),
           place = "REPORT" => At(w, "REPORT"), invitations' \in [Leads -> Nat]
    PROVE  ProcessTypeOK'
<1> DEFINE p == [proc[w] EXCEPT !.at = place,
                    !.aborted = place \in Browsing /\ @,
                    !.outcome = IF place \in Browsing \cup Reporting THEN @ ELSE NoReport,
                    !.leaving = place # "GONE" /\ @]
<1>1. proc[w] \in Process /\ (proc[w].at = "REPORT" => proc[w].outcome # NoReport)
  BY DEF ProcessTypeOK
<1>2. (place \in Browsing /\ proc[w].aborted) \in BOOLEAN /\ (place # "GONE" /\ proc[w].leaving) \in BOOLEAN
  BY <1>1 DEF Process
<1>3. p \in Process /\ p.at = place /\ (p.aborted => place \in Browsing)
  BY <1>1, <1>2 DEF Process
<1>4. place = "REPORT" => p.outcome = proc[w].outcome
  BY <1>1 DEF Process, Reporting
<1>5. proc' = [proc EXCEPT ![w] = p]
  BY DEF GoTo
<1> HIDE DEF p
<1> QED BY <1>1, <1>3, <1>4, <1>5, ProgramChanges DEF At

LEMMA EndsTypes ==
    ASSUME ProcessTypeOK, NEW w \in Workers, ~proc[w].aborted, NEW r \in Reports,
           Ends(w, "REPORT", r), invitations' \in [Leads -> Nat]
    PROVE  ProcessTypeOK'
<1> DEFINE p == [proc[w] EXCEPT !.at = "REPORT", !.outcome = r]
<1>1. proc[w] \in Process
  BY DEF ProcessTypeOK
<1>2. "REPORT" \in Place
  BY DEF Place
<1>3. r # NoReport
  BY OutreachAssumption DEF Report, Completions, TechnicalFailures, PermanentFailures, SafetyReports, NoReport, NULL
<1>4. p \in Process /\ p.at = "REPORT" /\ p.outcome = r /\ ~p.aborted
  BY <1>1, <1>2 DEF Process
<1>5. proc' = [proc EXCEPT ![w] = p]
  BY DEF Ends
<1> HIDE DEF p
<1> QED BY <1>3, <1>4, <1>5, ProgramChanges

\* The outcomes a visit ends with are reports of this instance.
LEMMA FinishTypes ==
    ASSUME ProcessTypeOK, NEW w \in Workers, ~proc[w].aborted, invitations' \in [Leads -> Nat],
           (\E S : Finishes(w, S)) \/ Ends(w, "REPORT", Outcome("NONE", SENT_RESULT))
    PROVE  ProcessTypeOK'
<1>1. Outcome("NONE", SENT_RESULT) \in Reports
  BY ReportsAssumption
<1> QED BY <1>1, EndsTypes DEF Finishes

LEMMA InvitationCounts ==
    ASSUME ProcessTypeOK, NEW l,
           invitations' = invitations \/ invitations' = [invitations EXCEPT ![l] = @ + 1]
    PROVE  invitations' \in [Leads -> Nat]
  BY DEF ProcessTypeOK

LEMMA VisitTypes ==
    ASSUME ProcessTypeOK, NEW w \in Workers, Visit(w)
    PROVE  ProcessTypeOK'
<1>1. invitations' \in [Leads -> Nat]
  <2>1. \/ invitations' = invitations
        \/ invitations' = [invitations EXCEPT ![LeadOf(w)] = @ + 1]
    BY DEF Visit, PressConnect, SendInvitation
  <2> QED BY <2>1, InvitationCounts
<1>2. {"ABORTED", "PRESS", "DIALOG", "VERIFY", "FALLBACK"} \subseteq Place
  BY DEF Place
<1>3. ASSUME NEW place \in {"ABORTED", "PRESS", "DIALOG", "VERIFY", "FALLBACK"}, GoTo(w, place)
      PROVE  ProcessTypeOK'
  BY <1>1, <1>2, <1>3, GoToTypes
<1>4. CASE At(w, "VISIT") /\ VisitProfile(w)
  BY <1>1, <1>3, <1>4, FinishTypes DEF VisitProfile, Throws
<1>5. CASE At(w, "PRESS") /\ PressConnect(w)
  BY <1>1, <1>3, <1>5, FinishTypes DEF PressConnect
<1>6. CASE At(w, "DIALOG") /\ SendInvitation(w)
  BY <1>1, <1>3, <1>6, FinishTypes DEF SendInvitation, Throws
<1>7. CASE At(w, "VERIFY") /\ VerifyInvitation(w)
  BY <1>1, <1>3, <1>7, FinishTypes DEF VerifyInvitation, Throws
<1> QED BY <1>4, <1>5, <1>6, <1>7 DEF Visit

LEMMA ProcessTypes == ProcessTypeOK /\ [SystemNext]_systemVars => ProcessTypeOK'
<1> SUFFICES ASSUME ProcessTypeOK, [SystemNext]_systemVars PROVE ProcessTypeOK'
  OBVIOUS
<1>1. CASE UNCHANGED processes
  BY <1>1 DEF processes, ProcessTypeOK
<1>2. ASSUME NEW w \in Workers, NEW place \in Place, GoTo(w, place),
             place = "REPORT" => At(w, "REPORT"), UNCHANGED invitations
      PROVE  ProcessTypeOK'
  BY <1>2, GoToTypes, InvitationCounts
<1>3. ASSUME NEW w \in Workers, ProgramStep(w) PROVE ProcessTypeOK'
  <2> USE DEF Place
  <2>1. CASE VerifySession(w)
    BY <1>2, <2>1 DEF VerifySession
  <2>2. CASE SignOff(w) \/ ReadControl(w) \/ ClaimNothing(w) \/ ClaimJob(w) \/ ClaimUnheard(w)
    BY <1>2, <2>2 DEF SignOff, ReadControl, ClaimNothing, ClaimJob, ClaimUnheard
  <2>3. CASE ClaimGate(w)
    BY <1>1, <2>3 DEF ClaimGate
  <2>4. CASE Visit(w)
    BY <2>4, VisitTypes
  <2>5. CASE ReportOutcome(w)
    <3>1. PICK place \in Place : GoTo(w, place) /\ (place = "REPORT" => At(w, "REPORT"))
      BY <2>5 DEF ReportOutcome, AfterReport, At
    <3> QED BY <1>2, <2>5, <3>1 DEF ReportOutcome
  <2>6. CASE ReportException(w)
    <3>1. PICK place \in Place : GoTo(w, place) /\ (place = "REPORT" => At(w, "REPORT"))
      BY <2>6 DEF ReportException, At
    <3> QED BY <1>2, <2>6, <3>1 DEF ReportException
  <2>7. CASE ReportCrash(w)
    BY <1>2, <2>7 DEF ReportCrash
  <2>8. CASE Shutdown(w)
    <3> DEFINE p == [NotStarted EXCEPT !.at = "GONE", !.signedOff = TRUE]
    <3>1. p \in Process /\ p.at = "GONE" /\ ~p.aborted
      BY DEF NotStarted, Process
    <3>2. \/ proc' = [proc EXCEPT ![w] = p] /\ UNCHANGED invitations
          \/ GoTo(w, "GONE") /\ UNCHANGED invitations
      BY <2>8 DEF Shutdown
    <3> HIDE DEF p
    <3> QED BY <1>2, <3>1, <3>2, ProgramChanges, InvitationCounts
  <2> QED BY <1>3, <2>1, <2>2, <2>3, <2>4, <2>5, <2>6, <2>7, <2>8 DEF ProgramStep
<1>4. ASSUME NEW w \in Workers, Register(w) PROVE ProcessTypeOK'
  BY <1>2, <1>4 DEF Register, Place
<1>5. ASSUME NEW w \in Workers, Watchdog(w) PROVE ProcessTypeOK'
  BY <1>5 DEF Watchdog, ProcessTypeOK, Process, Browsing
<1>6. ASSUME NEW w \in Workers, Heartbeat(w) \/ Signal(w) PROVE ProcessTypeOK'
  <2>1. PICK b \in BOOLEAN : proc' = [proc EXCEPT ![w].leaving = b] /\ UNCHANGED invitations
    <3>1. (proc[w].leaving \/ active # w) \in BOOLEAN
      OBVIOUS
    <3> QED BY <1>6, <3>1 DEF Heartbeat, Signal
  <2> QED BY <2>1 DEF ProcessTypeOK, Process
<1>7. ASSUME NEW w \in Workers, HeartbeatGoesStale(w) PROVE ProcessTypeOK'
  BY <1>1, <1>7 DEF HeartbeatGoesStale
<1>8. ASSUME NEW w \in Workers, Crash(w) PROVE ProcessTypeOK'
  BY <1>2, <1>8 DEF Crash, Place
<1>9. ASSUME NEW w \in Workers, ProcessNext(w) PROVE ProcessTypeOK'
  BY <1>1, <1>3, <1>4, <1>5, <1>6, <1>7, <1>8, <1>9 DEF ProcessNext
<1>10. CASE OthersNext
  BY <1>1, <1>10 DEF OthersNext
<1>11. CASE UNCHANGED systemVars
  BY <1>1, <1>11 DEF systemVars
<1> QED BY <1>9, <1>10, <1>11 DEF SystemNext

LEMMA RegistryTypes == RegistryTypeOK /\ [SystemNext]_systemVars => RegistryTypeOK'
<1> SUFFICES ASSUME RegistryTypeOK, [SystemNext]_systemVars PROVE RegistryTypeOK'
  OBVIOUS
<1> USE DEF RegistryTypeOK, RegistryRow
<1>1. CASE UNCHANGED leases
  BY <1>1 DEF leases
<1>2. ASSUME NEW w \in Workers, NEW s \in {NULL, "LIVE", "STOPPED"}, RecordHeartbeat(w, s)
      PROVE  RegistryTypeOK'
  BY <1>2 DEF RecordHeartbeat, NULL
<1>3. ASSUME NEW w \in Workers, ProgramStep(w) PROVE RegistryTypeOK'
  <2>1. CASE SignOff(w)
    BY <1>1, <1>2, <2>1 DEF SignOff
  <2>2. CASE Shutdown(w)
    BY <1>1, <2>2 DEF Shutdown, MarkWorkerStopped
  <2>3. CASE Visit(w)
    BY <1>1, <2>3 DEF Visit, NothingStored
  <2>4. CASE VerifySession(w) \/ ReadControl(w) \/ ClaimGate(w) \/ ClaimNothing(w) \/ ClaimJob(w)
    BY <1>1, <2>4 DEF VerifySession, ReadControl, ClaimGate, ClaimNothing, ClaimJob
  <2>5. CASE ClaimUnheard(w) \/ ReportOutcome(w) \/ ReportException(w) \/ ReportCrash(w)
    BY <1>1, <2>5 DEF ClaimUnheard, ReportOutcome, ReportException, ReportCrash
  <2> QED BY <1>3, <2>1, <2>2, <2>3, <2>4, <2>5 DEF ProgramStep
<1>4. ASSUME NEW w \in Workers, Register(w) PROVE RegistryTypeOK'
  <2>1. PICK force : RegisterWorker(w, force)
    BY <1>4 DEF Register
  <2>2. \A v \in Workers : /\ [registry[v] EXCEPT !.status = "STOPPED"] \in RegistryRow
                           /\ registry[v] \in RegistryRow
    OBVIOUS
  <2>3. [status |-> "LIVE", fresh |-> TRUE] \in RegistryRow
    OBVIOUS
  <2> QED BY <2>1, <2>2, <2>3 DEF RegisterWorker
<1>5. ASSUME NEW w \in Workers, Heartbeat(w) PROVE RegistryTypeOK'
  <2>1. PICK s \in {NULL, "LIVE"} : RecordHeartbeat(w, s)
    BY <1>5 DEF Heartbeat
  <2> QED BY <1>2, <2>1
<1>6. ASSUME NEW w \in Workers, HeartbeatGoesStale(w) \/ DetectUnhealthyWorker(w)
      PROVE  RegistryTypeOK'
  <2>1. CASE HeartbeatGoesStale(w)
    BY <2>1 DEF HeartbeatGoesStale
  <2>2. CASE DetectUnhealthyWorker(w)
    BY <2>2 DEF DetectUnhealthyWorker
  <2> QED BY <1>6, <2>1, <2>2
<1>7. ASSUME NEW w \in Workers, Watchdog(w) \/ Signal(w) \/ Crash(w) PROVE RegistryTypeOK'
  BY <1>1, <1>7 DEF Watchdog, Signal, Crash
<1>8. CASE OthersNext
  BY <1>1, <1>8 DEF OthersNext
<1>9. CASE UNCHANGED systemVars
  BY <1>1, <1>9 DEF systemVars
<1> QED BY <1>3, <1>4, <1>5, <1>6, <1>7, <1>8, <1>9 DEF SystemNext, ProcessNext

-----------------------------------------------------------------------------
(* A program that has signed off is gone and its row is closed. *)

SignedOffInv ==
    /\ RegistryTypeOK
    /\ ProcessTypeOK
    /\ \A w \in Workers : proc[w].signedOff => At(w, "GONE") /\ registry[w].status = "STOPPED"

\* Only its own heartbeats and a registration reopen a row, and a program that
\* is gone does neither.
LEMMA SignedOffStep == SignedOffInv /\ [SystemNext]_systemVars => SignedOffInv'
<1> SUFFICES ASSUME SignedOffInv, [SystemNext]_systemVars,
                    NEW v \in Workers, proc'[v].signedOff
             PROVE  proc'[v].at = "GONE" /\ registry'[v].status = "STOPPED"
  BY RegistryTypes, ProcessTypes DEF SignedOffInv, At
<1> USE DEF SignedOffInv, RegistryTypeOK, RegistryRow, ProcessTypeOK
<1>1. CASE UNCHANGED <<registry, proc>>
  BY <1>1 DEF At
<1>2. ASSUME NEW w \in Workers, NEW place, GoTo(w, place), ~At(w, "GONE")
      PROVE  v # w /\ proc'[v] = proc[v]
  BY <1>2 DEF GoTo, Process, At
<1>3. ASSUME proc'[v] = proc[v], registry'[v] = registry[v]
      PROVE  proc'[v].at = "GONE" /\ registry'[v].status = "STOPPED"
  BY <1>3 DEF At
<1>4. ASSUME NEW w \in Workers, w # v, NEW s, RecordHeartbeat(w, s) PROVE registry'[v] = registry[v]
  BY <1>4 DEF RecordHeartbeat
<1>5. ASSUME NEW w \in Workers, ProgramStep(w)
      PROVE  proc'[v].at = "GONE" /\ registry'[v].status = "STOPPED"
  <2>1. CASE SignOff(w)
    BY <1>2, <1>3, <1>4, <2>1 DEF SignOff, At, leases
  <2>2. CASE Shutdown(w)
    <3>1. CASE MarkWorkerStopped(w) /\ proc' = [proc EXCEPT ![w] =
                  [NotStarted EXCEPT !.at = "GONE", !.signedOff = TRUE]]
      <4>1. CASE v = w
        BY <3>1, <4>1 DEF MarkWorkerStopped, NotStarted, leases
      <4>2. CASE v # w
        BY <1>3, <3>1, <4>2 DEF MarkWorkerStopped, leases
      <4> QED BY <4>1, <4>2
    <3>2. CASE GoTo(w, "GONE") /\ UNCHANGED leases
      BY <1>2, <1>3, <2>2, <3>2 DEF Shutdown, At, leases
    <3> QED BY <2>2, <3>1, <3>2 DEF Shutdown
  <2>3. CASE Visit(w)
    <3>1. v # w => proc'[v] = proc[v]
      BY <2>3 DEF Visit, VisitProfile, PressConnect, SendInvitation, VerifyInvitation, Finishes,
                  Throws, Ends, GoTo
    <3>2. ~proc'[w].signedOff
      <4>1. ~proc[w].signedOff
        BY <2>3 DEF Visit, At
      <4>2. proc'[w].signedOff = proc[w].signedOff
        <5>1. \/ \E place : GoTo(w, place)
              \/ \E place, outcome : Ends(w, place, outcome)
          BY <2>3 DEF Visit, VisitProfile, PressConnect, SendInvitation, VerifyInvitation, Finishes,
                      Throws
        <5>2. ASSUME NEW place, GoTo(w, place) PROVE proc'[w].signedOff = proc[w].signedOff
          BY <5>2 DEF GoTo, Process
        <5>3. ASSUME NEW place, NEW outcome, Ends(w, place, outcome)
              PROVE  proc'[w].signedOff = proc[w].signedOff
          BY <5>3 DEF Ends, Process
        <5> QED BY <5>1, <5>2, <5>3
      <4> QED BY <4>1, <4>2
    <3> QED BY <1>3, <2>3, <3>1, <3>2 DEF Visit, NothingStored, leases
  <2>4. CASE VerifySession(w) \/ ReadControl(w) \/ ClaimNothing(w) \/ ClaimJob(w) \/ ClaimUnheard(w)
    BY <1>2, <1>3, <2>4 DEF VerifySession, ReadControl, ClaimNothing, ClaimJob, ClaimUnheard,
                            At, leases
  <2>5. CASE ReportOutcome(w) \/ ReportException(w) \/ ReportCrash(w)
    <3>1. \E place : GoTo(w, place)
      BY <2>5 DEF ReportOutcome, ReportException, ReportCrash
    <3> QED BY <1>2, <1>3, <2>5, <3>1 DEF ReportOutcome, ReportException, ReportCrash, At, leases
  <2>6. CASE ClaimGate(w)
    BY <1>1, <2>6 DEF ClaimGate, leases, processes
  <2> QED BY <1>5, <2>1, <2>2, <2>3, <2>4, <2>5, <2>6 DEF ProgramStep
<1>6. ASSUME NEW w \in Workers, Register(w)
      PROVE  proc'[v].at = "GONE" /\ registry'[v].status = "STOPPED"
  <2>1. PICK force : RegisterWorker(w, force)
    BY <1>6 DEF Register
  <2>2. v # w /\ proc'[v] = proc[v]
    BY <1>2, <1>6 DEF Register, At
  <2>3. registry[v].status = "STOPPED"
    BY <2>2
  <2> QED BY <2>1, <2>2, <2>3 DEF RegisterWorker, At
<1>7. ASSUME NEW w \in Workers, Heartbeat(w)
      PROVE  proc'[v].at = "GONE" /\ registry'[v].status = "STOPPED"
  <2>1. proc'[v].signedOff = proc[v].signedOff /\ proc'[v].at = proc[v].at
    BY <1>7 DEF Heartbeat, Process
  <2>2. v # w
    BY <1>7, <2>1 DEF Heartbeat, Running, At
  <2>3. registry'[v] = registry[v]
    BY <1>4, <1>7, <2>2 DEF Heartbeat
  <2> QED BY <2>1, <2>3 DEF At
<1>8. ASSUME NEW w \in Workers, HeartbeatGoesStale(w)
      PROVE  proc'[v].at = "GONE" /\ registry'[v].status = "STOPPED"
  BY <1>8 DEF HeartbeatGoesStale, processes, At
<1>9. ASSUME NEW w \in Workers, DetectUnhealthyWorker(w), UNCHANGED processes
      PROVE  proc'[v].at = "GONE" /\ registry'[v].status = "STOPPED"
  BY <1>9 DEF DetectUnhealthyWorker, processes, At
<1>10. ASSUME NEW w \in Workers, Watchdog(w) \/ Signal(w)
       PROVE  proc'[v].at = "GONE" /\ registry'[v].status = "STOPPED"
  <2>1. proc'[v].signedOff = proc[v].signedOff /\ proc'[v].at = proc[v].at
    <3>1. CASE Watchdog(w)
      BY <3>1 DEF Watchdog, Process
    <3>2. CASE Signal(w)
      BY <3>2 DEF Signal, Process
    <3> QED BY <1>10, <3>1, <3>2
  <2> QED BY <1>10, <2>1 DEF Watchdog, Signal, leases, At
<1>11. ASSUME NEW w \in Workers, Crash(w)
       PROVE  proc'[v].at = "GONE" /\ registry'[v].status = "STOPPED"
  BY <1>2, <1>3, <1>11 DEF Crash, Running, At, leases
<1>12. ASSUME NEW w \in Workers, ProcessNext(w)
       PROVE  proc'[v].at = "GONE" /\ registry'[v].status = "STOPPED"
  BY <1>5, <1>6, <1>7, <1>8, <1>9, <1>10, <1>11, <1>12 DEF ProcessNext
<1>13. CASE OthersNext \/ UNCHANGED systemVars
  BY <1>1, <1>13 DEF OthersNext, systemVars, leases, processes
<1> QED BY <1>12, <1>13 DEF SystemNext

\* The sign-off of a worker never keeps a replacement out, even where its row was
\* closed before and the lease still names it (markWorkerStopped, registerWorker),
\* whatever is lost, late or forced.
THEOREM SignedOffLease == SystemSpec => []SignedOffFreesLease
<1>1. SystemInit => SignedOffInv
  BY RegistryAssumption
  DEF SystemInit, RegistryInit, ProcessInit, SignedOffInv, RegistryTypeOK, RegistryRow,
      NotRegistered, ProcessTypeOK, Process, NotStarted, Place, Browsing, NoReport
<1>2. SignedOffInv => SignedOffFreesLease
  BY DEF SignedOffInv, SignedOffFreesLease, HolderIsLive
<1> QED BY <1>1, <1>2, SignedOffStep, PTL DEF SystemSpec

-----------------------------------------------------------------------------
(* What the programs do to the queue. *)

\* An incident that names no job: a failed session check, a crash, a worker that
\* went silent.
Alarm ==
    /\ \E type \in IncidentType : \E blocks, engage \in BOOLEAN :
         OpenIncident(type, NoJob, NoCampaign, NoToken, blocks, engage)
    /\ UNCHANGED <<job, lead, worker, request>>

LEMMA AlarmTypes == TypeInv /\ Alarm => TypeInv'
<1> SUFFICES ASSUME TypeInv, Alarm PROVE TypeInv'
  OBVIOUS
<1>1. PICK type \in IncidentType, blocks \in BOOLEAN, engage \in BOOLEAN :
        OpenIncident(type, NoJob, NoCampaign, NoToken, blocks, engage)
  BY DEF Alarm
<1> USE DEF TypeInv, TypeOK
<1>2. incidents' \subseteq Incident
  <2> SUFFICES ASSUME NEW i \in incidents' PROVE i \in Incident
    OBVIOUS
  <2> DEFINE created == [type |-> type, job |-> NoJob, campaign |-> NoCampaign,
                         seq |-> NoToken, blocks |-> blocks]
  <2>1. created \in Incident
    BY DEF Incident, NoToken
  <2>2. \A k \in incidents : Repointed(k, NoJob, NoToken) \in Incident
    BY DEF Repointed
  <2>3. \/ i \in incidents \/ i = created
        \/ \E k \in incidents : i = Repointed(k, NoJob, NoToken)
    BY <1>1 DEF OpenIncident
  <2> QED BY <2>1, <2>2, <2>3
<1>3. kill' \in BOOLEAN
  BY <1>1 DEF OpenIncident
<1>4. campaign' \in [Campaigns -> CampaignStatus]
  BY <1>1, PausedTypes DEF OpenIncident, CampaignStatus
<1> QED BY <1>2, <1>3, <1>4 DEF Alarm, WorkerShape

LEMMA AlarmSettles ==
    ASSUME ClaimInv, Alarm
    PROVE  ClaimInv'
<1>1. TypeInv /\ TypeInv'
  BY AlarmTypes DEF ClaimInv
<1> QED BY <1>1, OthersKeepWork, QuietSettles, SettlingStep DEF Alarm

LEMMA SessionIncidents == \A state \in PageState : SessionIncident(state) \in IncidentType
<1> SUFFICES ASSUME NEW state \in PageState PROVE SessionIncident(state) \in IncidentType
  OBVIOUS
<1>1. CASE state \in SafetyStates
  BY <1>1, PolicyRows DEF SessionIncident, IncidentType
<1>2. CASE state \notin SafetyStates
  BY <1>2 DEF SessionIncident, IncidentType, SafetyStates
<1> QED BY <1>1, <1>2

\* The queue's side of a program's calls.  A result is one transaction here.
WorkerCall(w) ==
    \/ PassGate(w) \/ ClaimEmpty(w) \/ WorkerDies(w) \/ ReportRejected(w)
    \/ \E j \in Jobs : ClaimNextJob(w, j)
    \/ \E r \in Reports : CompleteJob(w, r) \/ FailJob(w, r)
    \/ Escalate(w) \/ EscalationFails(w)

LEMMA CallsAreSteps ==
    ASSUME NEW w \in Workers, WorkerCall(w)
    PROVE  WorkerStep(w)
  BY DEF WorkerCall, WorkerStep

LEMMA ServedCall ==
    ASSUME NEW w \in Workers, NEW r \in Reports, Serve(w, r)
    PROVE  WorkerCall(w)
  BY DEF Serve, WorkerCall

\* The outcome a program reports is one of the instance's reports.
LEMMA OutcomeReported ==
    ASSUME ProcessTypeOK, NEW w \in Workers, At(w, "REPORT") \/ At(w, "REFUSE")
    PROVE  (IF At(w, "REFUSE") THEN NoteNotRendered ELSE proc[w].outcome) \in Reports
<1>1. At(w, "REFUSE") \/ proc[w].outcome \in Reports
  BY DEF At, ProcessTypeOK, Process
<1> QED BY <1>1, ReportsAssumption

\* To the queue, what a program does is a call of its worker, an alarm, or nothing.
LEMMA ProcessSteps ==
    ASSUME ProcessTypeOK, NEW w \in Workers, ProcessNext(w)
    PROVE  WorkerCall(w) \/ UNCHANGED vars \/ Alarm
<1>1. ASSUME VerifySession(w) PROVE UNCHANGED vars \/ Alarm
  <2>1. PICK state \in SessionStates :
          \/ UNCHANGED vars
          \/ /\ OpenIncident(SessionIncident(state), NoJob, NoCampaign, NoToken,
                     state \in SafetyStates,
                     state \in {"CAPTCHA", "SECURITY_CHALLENGE", "ACCOUNT_RESTRICTED"})
             /\ UNCHANGED <<job, lead, worker, request>>
    BY <1>1 DEF VerifySession
  <2>2. SessionIncident(state) \in IncidentType
    BY SessionIncidents, WorkerAssumption
  <2>3. /\ (state \in SafetyStates) \in BOOLEAN
        /\ (state \in {"CAPTCHA", "SECURITY_CHALLENGE", "ACCOUNT_RESTRICTED"}) \in BOOLEAN
    OBVIOUS
  <2> QED BY <2>1, <2>2, <2>3 DEF Alarm
<1>2. ASSUME ReportCrash(w) PROVE UNCHANGED vars \/ Alarm
  BY <1>2 DEF ReportCrash, Alarm, IncidentType
<1>3. ASSUME DetectUnhealthyWorker(w) PROVE Alarm
  BY <1>3 DEF DetectUnhealthyWorker, Alarm, IncidentType
<1>4. ASSUME ReportOutcome(w) PROVE WorkerCall(w) \/ UNCHANGED vars
  <2> DEFINE r == IF At(w, "REFUSE") THEN NoteNotRendered ELSE proc[w].outcome
  <2>1. r \in Reports
    BY <1>4, OutcomeReported DEF ReportOutcome
  <2>2. Serve(w, r) \/ ReportRejected(w) \/ UNCHANGED vars
    BY <1>4 DEF ReportOutcome
  <2> HIDE DEF r
  <2> QED BY <2>1, <2>2, ServedCall DEF WorkerCall
<1>5. ASSUME ReportException(w) PROVE WorkerCall(w)
  <2>1. Serve(w, Unexplained) \/ ReportRejected(w) \/ WorkerDies(w)
    BY <1>5 DEF ReportException
  <2> QED BY <2>1, ServedCall, ReportsAssumption DEF WorkerCall
<1>6. ASSUME ClaimGate(w) \/ ClaimNothing(w) \/ ClaimJob(w) \/ ClaimUnheard(w) \/ Crash(w)
      PROVE  WorkerCall(w) \/ UNCHANGED vars
  BY <1>6 DEF ClaimGate, ClaimNothing, ClaimJob, ClaimUnheard, Crash, WorkerCall
<1>7. ASSUME \/ Register(w) \/ SignOff(w) \/ ReadControl(w) \/ Visit(w) \/ Shutdown(w)
             \/ Watchdog(w) \/ Heartbeat(w) \/ HeartbeatGoesStale(w) \/ Signal(w)
      PROVE  UNCHANGED vars
  BY <1>7 DEF Register, SignOff, ReadControl, Visit, NothingStored, Shutdown, Watchdog, Heartbeat,
              HeartbeatGoesStale, Signal
<1> QED BY <1>1, <1>2, <1>3, <1>4, <1>5, <1>6, <1>7 DEF ProcessNext, ProgramStep

\* The other clients leave every program and its claim alone.
LEMMA OthersSteps == OthersNext => Next /\ UNCHANGED <<worker, leases, processes>>
<1> SUFFICES ASSUME OthersNext PROVE Next /\ UNCHANGED <<worker, leases, processes>>
  OBVIOUS
<1>1. Next
  BY DEF OthersNext, Next
<1>2. UNCHANGED worker
  BY DEF OthersNext, OperatorRequest, OperatorWrite, OperatorAction, GenerateRead,
         ActivateChecks, ResumeRead, CancelRead, RequeueRead, SetLeadRead, ReapScan, ClearRead,
         ActivateRead, ResumeChecks, GenerateWrite, CancelWrite, RequeueWrite, SetLeadWrite,
         ReapJob, StartWrite, ClearWrite, EmergencyStop, ClearEmergencyStop, ResolveIncident,
         PauseCampaign, ClearCampaignQueue, LeaseExpires
<1> QED BY <1>1, <1>2 DEF OthersNext

SystemInv == ClaimInv /\ RegistryTypeOK /\ ProcessTypeOK

LEMMA SystemInvInit == SystemInit => SystemInv
<1> SUFFICES ASSUME SystemInit PROVE SystemInv
  OBVIOUS
<1>1. ClaimInv
  BY ClaimInit DEF SystemInit
<1>2. RegistryTypeOK
  BY DEF SystemInit, RegistryInit, RegistryTypeOK, RegistryRow, NotRegistered
<1>3. ProcessTypeOK
  BY DEF SystemInit, ProcessInit, ProcessTypeOK, Process, NotStarted, Place, Browsing, NoReport
<1> QED BY <1>1, <1>2, <1>3 DEF SystemInv

\* The programs use the queue as its own specification allows, but for the incidents
\* that name no job.
LEMMA QueueStep == SystemInv /\ [SystemNext]_systemVars => [Next]_vars \/ Alarm
<1> SUFFICES ASSUME SystemInv, [SystemNext]_systemVars PROVE [Next]_vars \/ Alarm
  OBVIOUS
<1>1. CASE \E w \in Workers : ProcessNext(w)
  BY <1>1, ProcessSteps, CallsAreSteps DEF SystemInv, Next
<1>2. CASE OthersNext
  BY <1>2, OthersSteps
<1>3. CASE UNCHANGED systemVars
  BY <1>3 DEF systemVars
<1> QED BY <1>1, <1>2, <1>3 DEF SystemNext

\* What the queue keeps true of its claims, it keeps true under the programs.
LEMMA SystemStep == SystemInv /\ [SystemNext]_systemVars => SystemInv'
<1> SUFFICES ASSUME SystemInv, [SystemNext]_systemVars PROVE SystemInv'
  OBVIOUS
<1>1. ClaimInv'
  BY QueueStep, ClaimInvStep, AlarmSettles DEF SystemInv
<1> QED BY <1>1, RegistryTypes, ProcessTypes DEF SystemInv

\* Every table, every program, the registry and the lease keep their types; the
\* signal and the outcome of a visit do not outlive it (performConnect, main.ts).
THEOREM SystemTypeCorrect == SystemSpec => []SystemTypeOK
<1>1. SystemInv => SystemTypeOK
  BY DEF SystemInv, SystemTypeOK, ClaimInv, TypeInv
<1> QED BY <1>1, SystemInvInit, SystemStep, PTL DEF SystemSpec

\* However the programs crash, hang and restart, and whichever of their calls are
\* lost: two workers never hold one lead, a lead never has two live rows, and one
\* that is marked as being processed has a claim behind it (claimNextJob, main.ts).
THEOREM ClaimsUnderPrograms ==
    SystemSpec => [](OneHolderPerLead /\ OneLiveJobPerLead /\ NoStrandedLead)
<1>1. SystemInv => OneHolderPerLead /\ OneLiveJobPerLead /\ NoStrandedLead
  BY OneHolderOfInv DEF SystemInv, ClaimInv
<1> QED BY <1>1, SystemInvInit, SystemStep, PTL DEF SystemSpec

\* Driven by the programs, the queue still implements the life of a claim, with
\* serial transactions.
THEOREM ProgramsFollowLifecycle ==
    ASSUME SerialTx
    PROVE  SystemSpec => ClaimsFollowLifecycle
<1> DEFINE Inv == SystemInv /\ InvitedInv
<1>1. SystemInit => Inv /\ Lifecycle!Init
  <2>1. SystemInit => SystemInv
    BY SystemInvInit
  <2> QED BY <2>1 DEF SystemInit, SystemInv, Init, InvitedInv, NoClaimOnInvitedLead, Idle,
                      Lifecycle!Init, JobsOf
<1>2. Inv /\ Alarm => InvitedInv'
  BY AlarmSettles DEF InvitedInv, NoClaimOnInvitedLead, Alarm
<1>3. Inv /\ [SystemNext]_systemVars => Inv'
  BY <1>2, SystemStep, QueueStep, InvitedStep
<1>4. Alarm => UNCHANGED <<heldLeads, invitedLeads>>
  BY DEF Alarm, heldLeads, invitedLeads, JobsOf
<1>5. Inv /\ [SystemNext]_systemVars => [Lifecycle!Next]_(Lifecycle!vars)
  BY <1>4, QueueStep, LifecycleStep
  DEF Lifecycle!Next, Lifecycle!vars, Lifecycle!Take, Lifecycle!Settle, Lifecycle!Release,
      heldLeads, invitedLeads
<1> QED BY <1>1, <1>3, <1>5, PTL DEF SystemSpec, ClaimsFollowLifecycle, Lifecycle!Spec

-----------------------------------------------------------------------------
(* Programs and their claims are their own. *)

LEMMA ProcApart ==
    ASSUME ProcessTypeOK, NEW w \in Workers, NEW v \in Workers \ {w}, ProcessNext(w)
    PROVE  proc'[v] = proc[v]
<1>1. ASSUME NEW place, GoTo(w, place) PROVE proc'[v] = proc[v]
  BY <1>1 DEF GoTo, ProcessTypeOK
<1>2. ASSUME NEW place, NEW r, Ends(w, place, r) PROVE proc'[v] = proc[v]
  BY <1>2 DEF Ends, ProcessTypeOK
<1>3. CASE Visit(w)
  BY <1>1, <1>2, <1>3 DEF Visit, VisitProfile, PressConnect, SendInvitation, VerifyInvitation,
                          Finishes, Throws
<1>4. ASSUME Register(w) \/ VerifySession(w) \/ SignOff(w) \/ ReadControl(w) \/ ClaimNothing(w)
      PROVE  proc'[v] = proc[v]
  BY <1>1, <1>4 DEF Register, VerifySession, SignOff, ReadControl, ClaimNothing
<1>5. ASSUME ClaimJob(w) \/ ClaimUnheard(w) \/ ReportOutcome(w) \/ ReportException(w)
             \/ ReportCrash(w) \/ Crash(w)
      PROVE  proc'[v] = proc[v]
  BY <1>1, <1>5 DEF ClaimJob, ClaimUnheard, ReportOutcome, ReportException, ReportCrash, Crash
<1>6. CASE Shutdown(w)
  BY <1>1, <1>6 DEF Shutdown, ProcessTypeOK
<1>7. CASE Watchdog(w) \/ Heartbeat(w) \/ Signal(w)
  BY <1>7 DEF Watchdog, Heartbeat, Signal, ProcessTypeOK
<1>8. CASE ClaimGate(w) \/ HeartbeatGoesStale(w) \/ (DetectUnhealthyWorker(w) /\ UNCHANGED processes)
  BY <1>8 DEF ClaimGate, HeartbeatGoesStale, processes
<1> QED BY <1>3, <1>4, <1>5, <1>6, <1>7, <1>8 DEF ProcessNext, ProgramStep

\* What a call may make of its worker: it claims, or a reply ends the work or goes
\* on with it.
CalledWork(w, x) ==
    \/ x = Idle
    \/ x.phase = "GATED" /\ worker[w].phase = "IDLE"
    \/ /\ x.phase \in {"WORKING", "ESCALATING"}
       /\ x.job = worker[w].job
       /\ x.token = worker[w].token
    \/ \E j \in Jobs : /\ ClaimNextJob(w, j)
                       /\ x = [phase |-> "WORKING", job |-> j, token |-> ClaimToken(j),
                               report |-> NoReport]

LEMMA CalledWorker ==
    ASSUME TypeInv, NEW w \in Workers, WorkerCall(w)
    PROVE  \E x : worker' = [worker EXCEPT ![w] = x] /\ CalledWork(w, x)
<1> DEFINE Goal == \E x : worker' = [worker EXCEPT ![w] = x] /\ CalledWork(w, x)
<1> USE DEF CalledWork
<1>1. worker[w] \in WorkerState
  BY DEF TypeInv, TypeOK
<1>2. ASSUME Replied(w) PROVE Goal
  <2> DEFINE atWork == [worker[w] EXCEPT !.phase = "WORKING", !.report = NoReport]
  <2>1. PICK after \in {Idle, atWork} : worker' = [worker EXCEPT ![w] = after]
    BY <1>2 DEF Replied
  <2>2. /\ atWork.phase = "WORKING" /\ atWork.job = worker[w].job
        /\ atWork.token = worker[w].token
    BY <1>1 DEF WorkerState
  <2> HIDE DEF atWork
  <2> QED BY <2>1, <2>2
<1>3. CASE PassGate(w)
  <2> DEFINE x == [worker[w] EXCEPT !.phase = "GATED"]
  <2>1. x.phase = "GATED" /\ worker[w].phase = "IDLE" /\ worker' = [worker EXCEPT ![w] = x]
    BY <1>1, <1>3 DEF PassGate, WorkerState
  <2> HIDE DEF x
  <2> QED BY <2>1
<1>4. CASE ClaimEmpty(w) \/ WorkerDies(w) \/ ReportRejected(w)
  BY <1>4 DEF ClaimEmpty, WorkerDies, ReportRejected
<1>5. ASSUME NEW j \in Jobs, ClaimNextJob(w, j) PROVE Goal
  BY <1>5 DEF ClaimNextJob
<1>6. ASSUME NEW r \in Reports, CompleteJob(w, r) PROVE Goal
  BY <1>2, <1>6 DEF CompleteJob, RecordCompletion
<1>7. ASSUME NEW r \in Reports, FailJob(w, r) PROVE Goal
  <2> DEFINE x == [worker[w] EXCEPT !.phase = "ESCALATING", !.report = r]
  <2>1. /\ x.phase = "ESCALATING" /\ x.job = worker[w].job /\ x.token = worker[w].token
    BY <1>1 DEF WorkerState
  <2>2. Replied(w) \/ worker' = [worker EXCEPT ![w] = x]
    BY <1>7 DEF FailJob, RecordFailure
  <2> HIDE DEF x
  <2> QED BY <1>2, <2>1, <2>2
<1>8. CASE Escalate(w) \/ EscalationFails(w)
  BY <1>2, <1>8 DEF Escalate, EscalationFails
<1> QED BY <1>3, <1>4, <1>5, <1>6, <1>7, <1>8 DEF WorkerCall

LEMMA WorkersApart ==
    ASSUME SystemInv, NEW w \in Workers, NEW v \in Workers \ {w}, ProcessNext(w)
    PROVE  worker'[v] = worker[v] /\ proc'[v] = proc[v]
<1>1. TypeInv /\ ProcessTypeOK
  BY DEF SystemInv, ClaimInv
<1>2. WorkerCall(w) => worker'[v] = worker[v]
  BY <1>1, CalledWorker DEF TypeInv, TypeOK
<1> QED BY <1>1, <1>2, ProcApart, ProcessSteps DEF vars, Alarm

\* The step of a program that ends on a page or with an outcome to report: a step
\* of the visit, the claim that starts it, or one that leaves both as they were.
LEMMA ProgramMoves ==
    ASSUME SystemInv, NEW w \in Workers, ProcessNext(w), ~Visit(w)
    PROVE  /\ UNCHANGED invitations
           /\ proc'[w].at \in Browsing \cup {"REPORT"} =>
                \/ proc'[w].at = "VISIT" /\ \E j \in Jobs : ClaimNextJob(w, j)
                \/ /\ proc'[w].at = proc[w].at
                   /\ proc'[w].outcome = proc[w].outcome
                   /\ \/ worker' = worker /\ job' = job
                      \/ /\ proc[w].at = "REPORT"
                         /\ worker'[w].phase = "ESCALATING"
                         /\ worker'[w].job = worker[w].job
<1> DEFINE Kept == /\ proc'[w].at = proc[w].at
                   /\ proc'[w].outcome = proc[w].outcome
                   /\ \/ worker' = worker /\ job' = job
                      \/ /\ proc[w].at = "REPORT"
                         /\ worker'[w].phase = "ESCALATING"
                         /\ worker'[w].job = worker[w].job
<1> DEFINE Places == Browsing \cup {"REPORT"}
<1>1. TypeInv /\ proc[w] \in Process /\ proc \in [Workers -> Process]
  BY DEF SystemInv, ClaimInv, ProcessTypeOK
<1>2. ASSUME NEW place, GoTo(w, place)
      PROVE  /\ proc'[w].at = place
             /\ place = "REPORT" => proc'[w].outcome = proc[w].outcome
  BY <1>1, <1>2 DEF GoTo, Process, Reporting
<1>3. ASSUME NEW place, GoTo(w, place), place \notin Places PROVE proc'[w].at \notin Places
  BY <1>2, <1>3
<1>4. CASE Register(w) \/ VerifySession(w) \/ SignOff(w) \/ ReadControl(w) \/ ClaimNothing(w)
  BY <1>3, <1>4 DEF Register, VerifySession, SignOff, ReadControl, ClaimNothing, Browsing
<1>5. CASE ClaimUnheard(w) \/ ReportException(w) \/ ReportCrash(w) \/ Crash(w)
  BY <1>3, <1>5 DEF ClaimUnheard, ReportException, ReportCrash, Crash, Browsing, At
<1>6. CASE ClaimJob(w)
  BY <1>2, <1>6 DEF ClaimJob, Browsing
<1>7. CASE ReportOutcome(w)
  <2>1. UNCHANGED invitations
    BY <1>7 DEF ReportOutcome
  <2>2. SUFFICES ASSUME proc'[w].at \in Places PROVE Kept
    BY <2>1
  <2> DEFINE r == IF At(w, "REFUSE") THEN NoteNotRendered ELSE proc[w].outcome
  <2> DEFINE onError == IF At(w, "REFUSE") THEN "CRASHING" ELSE "FALLBACK"
  <2>3. onError \notin Places /\ AfterReport(r) \notin Places /\ "LOOP" \notin Places
        /\ "CRASHING" \notin Places
    BY DEF AfterReport, Browsing
  <2>4. /\ Serve(w, r)
        /\ GoTo(w, CASE worker'[w] = Idle -> AfterReport(r)
                     [] worker'[w].phase = "WORKING" -> onError
                     [] OTHER -> proc[w].at)
    BY <1>3, <1>7, <2>2, <2>3 DEF ReportOutcome
  <2> HIDE DEF onError
  <2>5. worker'[w] # Idle /\ worker'[w].phase # "WORKING" /\ GoTo(w, proc[w].at)
    <3>1. Idle.phase # "WORKING"
      BY DEF Idle
    <3> QED BY <1>3, <2>2, <2>3, <2>4, <3>1
  <2>6. proc[w].at = "REPORT"
    BY <1>3, <1>7, <2>2, <2>5 DEF ReportOutcome, At, Browsing
  <2>7. WorkerCall(w) /\ worker[w].phase \in {"WORKING", "ESCALATING"}
    <3>1. r \in Reports
      BY <1>7, OutcomeReported DEF ReportOutcome, SystemInv
    <3> HIDE DEF r
    <3> QED BY <2>4, <3>1, ServedCall DEF Serve, CompleteJob, FailJob, Escalate, EscalationFails
  <2>8. worker'[w].phase = "ESCALATING" /\ worker'[w].job = worker[w].job
    <3>1. PICK x : worker' = [worker EXCEPT ![w] = x] /\ CalledWork(w, x)
      BY <1>1, <2>7, CalledWorker
    <3>2. worker'[w] = x
      BY <1>1, <3>1 DEF TypeInv, TypeOK
    <3> QED BY <2>5, <2>7, <3>1, <3>2 DEF CalledWork, ClaimNextJob
  <2> QED BY <1>2, <2>5, <2>6, <2>8
<1>8. CASE Shutdown(w)
  <2>1. proc'[w].at = "GONE"
    BY <1>1, <1>2, <1>8 DEF Shutdown, NotStarted
  <2> QED BY <1>8, <2>1 DEF Shutdown, Browsing
<1>9. CASE Watchdog(w)
  BY <1>1, <1>9 DEF Watchdog, Process, vars
<1>10. CASE Heartbeat(w) \/ Signal(w)
  <2>1. proc'[w].at = proc[w].at /\ proc'[w].outcome = proc[w].outcome
    <3>1. CASE Heartbeat(w)
      BY <1>1, <3>1 DEF Heartbeat, Process
    <3>2. CASE Signal(w)
      BY <1>1, <3>2 DEF Signal, Process
    <3> QED BY <1>10, <3>1, <3>2
  <2> QED BY <1>10, <2>1 DEF Heartbeat, Signal, vars
<1>11. CASE ClaimGate(w)
  BY <1>11 DEF ClaimGate, processes, At, Browsing
<1>12. CASE HeartbeatGoesStale(w) \/ (DetectUnhealthyWorker(w) /\ UNCHANGED processes)
  BY <1>12 DEF HeartbeatGoesStale, DetectUnhealthyWorker, processes, vars
<1> QED BY <1>4, <1>5, <1>6, <1>7, <1>8, <1>9, <1>10, <1>11, <1>12 DEF ProcessNext, ProgramStep

\* A program on a page is at work on a claim; one with an outcome still has its job.
AtWorkInv ==
    /\ SystemInv
    /\ \A w \in Workers :
         /\ proc[w].at \in Browsing => worker[w].phase = "WORKING"
         /\ proc[w].at = "REPORT" => worker[w].phase \in {"WORKING", "ESCALATING"}

LEMMA AtWorkStep == AtWorkInv /\ [SystemNext]_systemVars => AtWorkInv'
<1> SUFFICES ASSUME AtWorkInv, [SystemNext]_systemVars, NEW v \in Workers
             PROVE  /\ proc'[v].at \in Browsing => worker'[v].phase = "WORKING"
                    /\ proc'[v].at = "REPORT" => worker'[v].phase \in {"WORKING", "ESCALATING"}
  BY SystemStep DEF AtWorkInv
<1>1. SystemInv /\ TypeInv
  BY DEF AtWorkInv, SystemInv, ClaimInv
<1>2. CASE UNCHANGED <<worker[v], proc[v]>>
  BY <1>2 DEF AtWorkInv
<1>3. CASE ProcessNext(v) /\ Visit(v)
  <2>1. proc[v].at \in Browsing /\ worker' = worker
    BY <1>3 DEF Visit, NothingStored, At, Browsing, vars
  <2> QED BY <2>1 DEF AtWorkInv
<1>4. CASE ProcessNext(v) /\ ~Visit(v)
  <2>1. ASSUME NEW j \in Jobs, ClaimNextJob(v, j) PROVE worker'[v].phase = "WORKING"
    BY <1>1, <2>1 DEF ClaimNextJob, TypeInv, TypeOK
  <2>2. "REPORT" \notin Browsing
    BY DEF Browsing
  <2> QED BY <1>1, <1>4, <2>1, <2>2, ProgramMoves DEF AtWorkInv
<1>5. ASSUME NEW w \in Workers \ {v}, ProcessNext(w) PROVE UNCHANGED <<worker[v], proc[v]>>
  BY <1>1, <1>5, WorkersApart
<1>6. OthersNext \/ UNCHANGED systemVars => UNCHANGED <<worker[v], proc[v]>>
  BY OthersSteps DEF systemVars, processes, vars
<1> QED BY <1>2, <1>3, <1>4, <1>5, <1>6 DEF SystemNext

LEMMA AtWorkInit == SystemInit => AtWorkInv
  BY SystemInvInit DEF SystemInit, ProcessInit, AtWorkInv, NotStarted, Browsing

-----------------------------------------------------------------------------
(* What is sent. *)

\* A step of the visit: it goes on to press only where nobody was invited yet, an
\* invitation is sent from there, and SENT is reported of what was found invited.
LEMMA VisitMoves ==
    ASSUME ProcessTypeOK, NEW w \in Workers, Visit(w)
    PROVE  /\ UNCHANGED vars
           /\ proc[w].at \in Browsing
           /\ \/ UNCHANGED invitations
              \/ /\ proc[w].at \in {"PRESS", "DIALOG"}
                 /\ proc'[w].at = "VERIFY"
                 /\ invitations' = [invitations EXCEPT ![LeadOf(w)] = @ + 1]
           /\ proc'[w].at \in {"PRESS", "DIALOG"} =>
                proc[w].at = "PRESS" \/ invitations[LeadOf(w)] = 0
           /\ proc'[w].at = "REPORT" /\ proc'[w].outcome = Outcome("NONE", SENT_RESULT) =>
                invitations[LeadOf(w)] > 0
<1>1. proc[w] \in Process /\ proc \in [Workers -> Process]
  BY DEF ProcessTypeOK
<1>2. ASSUME NEW place, GoTo(w, place) PROVE proc'[w].at = place
  BY <1>1, <1>2 DEF GoTo, Process
<1>3. ASSUME NEW r, Ends(w, "REPORT", r) PROVE proc'[w].at = "REPORT" /\ proc'[w].outcome = r
  BY <1>1, <1>3 DEF Ends, Process
<1>4. ASSUME NEW S, Finishes(w, S), Outcome("NONE", SENT_RESULT) \notin S
      PROVE  proc'[w].at = "REPORT" /\ proc'[w].outcome # Outcome("NONE", SENT_RESULT)
  BY <1>3, <1>4 DEF Finishes
<1>5. UNCHANGED vars /\ proc[w].at \in Browsing
  BY DEF Visit, NothingStored, At, Browsing
<1>6. /\ Outcome("NONE", SENT_RESULT) \notin SafetyReports \cup PermanentFailures
      /\ Outcome("NONE", SENT_RESULT) \notin SafetyReports
           \cup {Outcome("TECHNICAL", "NETWORK_ERROR"), Outcome("NONE", "PROFILE_NOT_FOUND"),
                 Outcome("PERMANENT", "PROFILE_FOUND")}
      /\ Outcome("NONE", SENT_RESULT) \notin {Outcome("NONE", "INVITATION_PENDING")}
      /\ Outcome("NONE", SENT_RESULT) \notin {Outcome("PERMANENT", "CONNECT_AVAILABLE")}
      /\ Outcome("NONE", SENT_RESULT) \notin {Outcome("PERMANENT", "PROFILE_FOUND")}
  BY DEF Outcome, SENT_RESULT, SafetyReports, PermanentFailures
<1>7. CASE At(w, "VISIT") /\ VisitProfile(w) /\ UNCHANGED invitations
  BY <1>2, <1>4, <1>5, <1>6, <1>7 DEF VisitProfile, Throws
<1>8. CASE At(w, "PRESS") /\ PressConnect(w)
  BY <1>2, <1>4, <1>5, <1>6, <1>8 DEF PressConnect, At
<1>9. CASE At(w, "DIALOG") /\ SendInvitation(w)
  BY <1>2, <1>4, <1>5, <1>6, <1>9 DEF SendInvitation, Throws, At
<1>10. CASE At(w, "VERIFY") /\ VerifyInvitation(w) /\ UNCHANGED invitations
  BY <1>2, <1>3, <1>4, <1>5, <1>6, <1>10 DEF VerifyInvitation, Throws
<1> QED BY <1>7, <1>8, <1>9, <1>10 DEF Visit

\* Invitations are sent by visits only.
LEMMA OnlyVisitsInvite ==
    ASSUME SystemInv, [SystemNext]_systemVars, ~\E w \in Workers : ProcessNext(w) /\ Visit(w)
    PROVE  UNCHANGED invitations
<1>1. OthersNext \/ UNCHANGED systemVars => UNCHANGED invitations
  BY DEF OthersNext, systemVars, processes
<1> QED BY <1>1, ProgramMoves DEF SystemNext

-----------------------------------------------------------------------------
(* What the database calls SENT. *)

SentInv ==
    /\ AtWorkInv
    /\ SentMeansInvited
    /\ \A w \in Workers :
         At(w, "REPORT") /\ proc[w].outcome = Outcome("NONE", SENT_RESULT) =>
            invitations[LeadOf(w)] > 0

LEMMA InvitationsGrow ==
    ASSUME SystemInv, [SystemNext]_systemVars, NEW l \in Leads
    PROVE  invitations'[l] >= invitations[l]
<1>1. /\ ProcessTypeOK /\ invitations[l] \in Nat
      /\ \A w \in Workers : Visit(w) => \/ UNCHANGED invitations
                                        \/ invitations' = [invitations EXCEPT ![LeadOf(w)] = @ + 1]
  BY VisitMoves DEF SystemInv, ProcessTypeOK
<1>2. ASSUME NEW k, invitations' = [invitations EXCEPT ![k] = @ + 1]
      PROVE  invitations'[l] >= invitations[l]
  BY <1>1, <1>2 DEF ProcessTypeOK
<1> QED BY <1>1, <1>2, OnlyVisitsInvite

\* A lead is marked as invited only when a SENT outcome is reported.
LEMMA OnlySentInvites ==
    ASSUME SystemInv, NEW w \in Workers, ProcessNext(w), NEW l \in Leads,
           ~lead[l].invited, lead'[l].invited
    PROVE  /\ At(w, "REPORT")
           /\ proc[w].outcome = Outcome("NONE", SENT_RESULT)
           /\ l = LeadOf(w)
<1>1. ProcessTypeOK /\ lead \in [Leads -> LeadRow]
  BY DEF SystemInv, ClaimInv, TypeInv, TypeOK
<1>2. ~\E k, s : SetLeadStatus(k, s)
  BY <1>1 DEF SetLeadStatus, LeadRow
<1>3. ~UNCHANGED lead
  OBVIOUS
<1>4. ASSUME NEW r \in Reports, Serve(w, r)
      PROVE  r = Outcome("NONE", SENT_RESULT) /\ l = LeadOf(w)
  <2>1. CompleteJob(w, r)
    BY <1>2, <1>3, <1>4 DEF Serve, FailJob, RecordFailure, Escalate, EscalationFails, tables
  <2>2. r \in Report /\ r.class = "NONE"
    BY <2>1, OutreachAssumption DEF CompleteJob
  <2>3. lead' = [lead EXCEPT ![LeadOf(w)] = LeadAfterCompletion(lead[LeadOf(w)], r.page)]
    BY <2>1 DEF CompleteJob, RecordCompletion, LeadOf
  <2>4. l = LeadOf(w) /\ r.page = SENT_RESULT
    BY <1>1, <2>3 DEF LeadAfterCompletion
  <2> QED BY <2>2, <2>4
          DEF Report, Completions, TechnicalFailures, PermanentFailures, SafetyReports, Outcome
<1>5. CASE ReportOutcome(w)
  <2> DEFINE r == IF At(w, "REFUSE") THEN NoteNotRendered ELSE proc[w].outcome
  <2>1. r \in Reports
    BY <1>1, <1>5, OutcomeReported DEF ReportOutcome
  <2>2. Serve(w, r)
    BY <1>3, <1>5 DEF ReportOutcome, ReportRejected, tables, vars
  <2>3. r = Outcome("NONE", SENT_RESULT) /\ l = LeadOf(w)
    <3> HIDE DEF r
    <3> QED BY <1>4, <2>1, <2>2
  <2>4. NoteNotRendered # Outcome("NONE", SENT_RESULT)
    BY DEF NoteNotRendered, Outcome
  <2> QED BY <1>5, <2>3, <2>4 DEF ReportOutcome
<1>6. CASE ReportException(w)
  <2>1. Serve(w, Unexplained)
    BY <1>3, <1>6 DEF ReportException, ReportRejected, WorkerDies, tables
  <2>2. Unexplained \in Reports /\ Unexplained # Outcome("NONE", SENT_RESULT)
    BY ReportsAssumption DEF Unexplained, Outcome
  <2> QED BY <1>4, <2>1, <2>2
<1>7. CASE ClaimJob(w)
  BY <1>2, <1>7 DEF ClaimJob, ClaimNextJob
<1>8. CASE VerifySession(w) \/ ReportCrash(w) \/ DetectUnhealthyWorker(w)
  BY <1>3, <1>8 DEF VerifySession, ReportCrash, DetectUnhealthyWorker, vars
<1>9. CASE ClaimGate(w) \/ ClaimNothing(w) \/ ClaimUnheard(w) \/ Crash(w)
  BY <1>3, <1>9 DEF ClaimGate, PassGate, ClaimNothing, ClaimEmpty, ClaimUnheard, WorkerDies, Crash,
                    tables, vars
<1>10. CASE \/ Register(w) \/ SignOff(w) \/ ReadControl(w) \/ Visit(w) \/ Shutdown(w)
            \/ Watchdog(w) \/ Heartbeat(w) \/ HeartbeatGoesStale(w) \/ Signal(w)
  BY <1>3, <1>10 DEF Register, SignOff, ReadControl, Visit, NothingStored, Shutdown, Watchdog,
                     Heartbeat, HeartbeatGoesStale, Signal, vars
<1> QED BY <1>5, <1>6, <1>7, <1>8, <1>9, <1>10 DEF ProcessNext, ProgramStep

LEMMA OthersInviteNobody ==
    ASSUME SystemInv, OthersNext, NEW l \in Leads
    PROVE  lead'[l].invited = lead[l].invited
<1>1. lead \in [Leads -> LeadRow]
  BY DEF SystemInv, ClaimInv, TypeInv, TypeOK
<1>2. UNCHANGED lead \/ \E k, s : SetLeadStatus(k, s)
  BY DEF OthersNext, tables, OperatorRequest, OperatorWrite, OperatorAction, GenerateRead,
         ActivateChecks, ResumeRead, CancelRead, RequeueRead, SetLeadRead, ReapScan, ClearRead,
         ActivateRead, ResumeChecks, GenerateWrite, CancelWrite, RequeueWrite, SetLeadWrite,
         ReapJob, Reap, StartWrite, ClearWrite, EmergencyStop, ClearEmergencyStop,
         ResolveIncident, RetireLead, RequeueLead, StopCampaign, PauseCampaign,
         ClearCampaignQueue, LeaseExpires
<1> QED BY <1>1, <1>2 DEF SetLeadStatus, LeadRow

LEMMA SentStep == SentInv /\ [SystemNext]_systemVars => SentInv'
<1> SUFFICES ASSUME SentInv, [SystemNext]_systemVars PROVE SentInv'
  OBVIOUS
<1>1. SystemInv /\ AtWorkInv /\ AtWorkInv' /\ ProcessTypeOK
  BY AtWorkStep DEF SentInv, AtWorkInv, SystemInv
<1>2. \A l \in Leads : invitations[l] \in Nat /\ invitations'[l] \in Nat
                       /\ invitations'[l] >= invitations[l]
  BY <1>1, InvitationsGrow, ProcessTypes DEF ProcessTypeOK
<1>3. ASSUME NEW l \in Leads, lead'[l].invited PROVE invitations'[l] > 0
  <2>1. CASE lead[l].invited
    BY <1>2, <2>1 DEF SentInv, SentMeansInvited
  <2>2. CASE ~lead[l].invited
    <3>1. ~OthersNext /\ ~UNCHANGED systemVars
      BY <1>1, <1>3, <2>2, OthersInviteNobody DEF systemVars, vars
    <3>2. PICK w \in Workers : ProcessNext(w)
      BY <3>1 DEF SystemNext
    <3>3. invitations[l] > 0
      BY <1>1, <1>3, <2>2, <3>2, OnlySentInvites DEF SentInv
    <3> QED BY <1>2, <3>3
  <2> QED BY <2>1, <2>2
<1>4. ASSUME NEW v \in Workers, At(v, "REPORT")', (proc[v].outcome)' = Outcome("NONE", SENT_RESULT)
      PROVE  (invitations[LeadOf(v)])' > 0
  <2>1. LeadOf(v)' \in Leads
    BY <1>1, <1>4, OutreachAssumption
    DEF AtWorkInv, SystemInv, ClaimInv, TypeInv, TypeOK, WorkerShape, WorkerState, LeadOf, At
  <2>2. ASSUME proc[v].at = "REPORT", proc[v].outcome = Outcome("NONE", SENT_RESULT),
               worker'[v].job = worker[v].job
        PROVE  (invitations[LeadOf(v)])' > 0
    BY <1>2, <2>1, <2>2 DEF SentInv, LeadOf, At
  <2>3. CASE ProcessNext(v) /\ Visit(v)
    <3>1. invitations[LeadOf(v)] > 0 /\ worker' = worker
      BY <1>1, <1>4, <2>3, VisitMoves DEF At, vars
    <3> QED BY <1>2, <2>1, <3>1 DEF LeadOf
  <2>4. CASE ProcessNext(v) /\ ~Visit(v)
    <3>1. /\ proc[v].at = "REPORT" /\ proc[v].outcome = Outcome("NONE", SENT_RESULT)
          /\ worker'[v].job = worker[v].job
      BY <1>1, <1>4, <2>4, ProgramMoves DEF At
    <3> QED BY <2>2, <3>1
  <2>5. ASSUME NEW w \in Workers \ {v}, ProcessNext(w) PROVE (invitations[LeadOf(v)])' > 0
    BY <1>1, <1>4, <2>2, <2>5, WorkersApart DEF At
  <2>6. CASE OthersNext \/ UNCHANGED systemVars
    <3>1. worker' = worker /\ proc' = proc
      BY <2>6, OthersSteps DEF systemVars, vars, processes
    <3> QED BY <1>4, <2>2, <3>1 DEF At
  <2> QED BY <2>3, <2>4, <2>5, <2>6 DEF SystemNext
<1> QED BY <1>1, <1>3, <1>4 DEF SentInv, SentMeansInvited

\* What the database calls SENT has been sent: no crash, lost call, abort or reaping
\* lets a SENT be recorded for a lead whom LinkedIn was never asked to invite
\* (performConnect, processJob, completeJob).
THEOREM SentIsTrue == SystemSpec => []SentMeansInvited
<1>1. SystemInit => SentInv
  <2>1. SystemInit => AtWorkInv
    BY AtWorkInit
  <2> QED BY <2>1 DEF SystemInit, Init, ProcessInit, NotStarted, SentInv, SentMeansInvited, At
<1>2. SentInv => SentMeansInvited
  BY DEF SentInv
<1> QED BY <1>1, <1>2, SentStep, PTL DEF SystemSpec

-----------------------------------------------------------------------------
(* Nobody is invited twice, because the lease keeps programs apart.  Whoever *)
(* is neither out nor on its way out holds a live lease, so that no other    *)
(* program is started beside it: for heartbeats that are on time and takeovers *)
(* that are not forced.                                                      *)

Out == {"OFF", "EXIT", "GONE"}

AloneInv ==
    /\ SystemInv
    /\ \A w \in Workers : proc[w].at \notin Out =>
         /\ active = w
         /\ registry[w].fresh
         /\ registry[w].status # "STOPPED"

LEMMA AloneStep ==
    ASSUME "LATE_HEARTBEAT" \notin Troubles, "FORCE_TAKEOVER" \notin Troubles,
           AloneInv, [SystemNext]_systemVars
    PROVE  AloneInv'
<1> SUFFICES ASSUME NEW v \in Workers, proc'[v].at \notin Out
             PROVE  active' = v /\ registry'[v].fresh /\ registry'[v].status # "STOPPED"
  BY SystemStep DEF AloneInv
<1> DEFINE Safe == active' = v /\ registry'[v].fresh /\ registry'[v].status # "STOPPED"
<1>1. /\ SystemInv /\ proc \in [Workers -> Process]
      /\ registry \in [Workers -> RegistryRow] /\ active \in Workers \cup {NoWorker}
  BY DEF AloneInv, SystemInv, ProcessTypeOK, RegistryTypeOK
<1>2. ASSUME proc[v].at \notin Out, active' = active, registry'[v] = registry[v]
      PROVE  Safe
  BY <1>2 DEF AloneInv
<1>3. ASSUME NEW place, GoTo(v, place) PROVE place \notin Out
  BY <1>1, <1>3 DEF GoTo, Process
<1>4. ASSUME NEW w \in Workers, w # v, ProcessNext(w) PROVE Safe
  <2>1. /\ proc[v].at \notin Out
        /\ active = v /\ registry[v].fresh /\ registry[v].status # "STOPPED"
    BY <1>1, <1>4, WorkersApart DEF AloneInv
  <2>2. ~Register(w)
    <3>1. HolderIsLive
      BY <2>1, RegistryAssumption DEF HolderIsLive
    <3> QED BY <3>1 DEF Register, RegisterWorker
  <2>3. ~SignOff(w)
    BY <1>4, <2>1 DEF SignOff, At, AloneInv, Out
  <2>4. CASE Shutdown(w)
    <3>1. active' = active /\ registry'[v] = registry[v]
      BY <1>1, <1>4, <2>1, <2>4 DEF Shutdown, MarkWorkerStopped, leases
    <3> QED BY <1>2, <2>1, <3>1
  <2>5. CASE Heartbeat(w)
    BY <1>1, <1>2, <1>4, <2>1, <2>5 DEF Heartbeat, RecordHeartbeat
  <2>6. CASE HeartbeatGoesStale(w) \/ DetectUnhealthyWorker(w)
    BY <1>1, <1>2, <1>4, <2>1, <2>6 DEF HeartbeatGoesStale, DetectUnhealthyWorker
  <2>7. ASSUME UNCHANGED leases PROVE Safe
    BY <1>2, <2>1, <2>7 DEF leases
  <2>8. CASE VerifySession(w) \/ ReadControl(w) \/ ClaimGate(w) \/ ClaimNothing(w) \/ ClaimJob(w)
    BY <2>7, <2>8 DEF VerifySession, ReadControl, ClaimGate, ClaimNothing, ClaimJob
  <2>9. CASE ClaimUnheard(w) \/ ReportOutcome(w) \/ ReportException(w) \/ ReportCrash(w)
    BY <2>7, <2>9 DEF ClaimUnheard, ReportOutcome, ReportException, ReportCrash
  <2>10. CASE Visit(w) \/ Watchdog(w) \/ Signal(w) \/ Crash(w)
    BY <2>7, <2>10 DEF Visit, NothingStored, Watchdog, Signal, Crash
  <2> QED BY <1>4, <2>2, <2>3, <2>4, <2>5, <2>6, <2>8, <2>9, <2>10 DEF ProcessNext, ProgramStep
<1>5. CASE ProcessNext(v)
  <2>1. CASE Register(v)
    BY <1>1, <2>1 DEF Register, RegisterWorker
  <2>2. ~SignOff(v) /\ ~Crash(v) /\ ~ReportCrash(v)
    BY <1>3 DEF SignOff, Crash, ReportCrash, Out
  <2>3. ~Shutdown(v)
    <3>1. ASSUME proc' = [proc EXCEPT ![v] = [NotStarted EXCEPT !.at = "GONE", !.signedOff = TRUE]]
          PROVE  proc'[v].at = "GONE"
      BY <1>1, <3>1 DEF NotStarted
    <3> QED BY <1>3, <3>1 DEF Shutdown, Out
  <2>4. CASE Heartbeat(v)
    <3>1. proc[v].at \notin Out
      BY <2>4 DEF Heartbeat, Running, At, Out
    <3>2. PICK s \in {NULL, "LIVE"} : RecordHeartbeat(v, s)
      BY <2>4 DEF Heartbeat
    <3>3. registry'[v].fresh /\ registry'[v].status \in {registry[v].status, "LIVE"}
      BY <1>1, <3>2 DEF RecordHeartbeat
    <3> QED BY <3>1, <3>2, <3>3 DEF RecordHeartbeat, AloneInv
  <2>5. ASSUME proc[v].at \notin Out, UNCHANGED leases PROVE Safe
    BY <1>2, <2>5 DEF leases
  <2>6. CASE HeartbeatGoesStale(v) \/ (DetectUnhealthyWorker(v) /\ UNCHANGED processes)
    <3>1. proc[v].at \notin Out
      BY <2>6 DEF HeartbeatGoesStale, processes
    <3> QED BY <2>6, <3>1
            DEF HeartbeatGoesStale, DetectUnhealthyWorker, Running, Out, AloneInv
  <2>7. CASE Visit(v) \/ Watchdog(v)
    BY <2>5, <2>7 DEF Visit, NothingStored, Watchdog, At, Browsing, Out
  <2>8. CASE Signal(v)
    <3>1. proc'[v].at = proc[v].at
      BY <1>1, <2>8 DEF Signal, Process
    <3> QED BY <2>5, <2>8, <3>1 DEF Signal
  <2>9. CASE VerifySession(v) \/ ReadControl(v) \/ ClaimGate(v) \/ ClaimNothing(v) \/ ClaimJob(v)
    BY <2>5, <2>9 DEF VerifySession, ReadControl, ClaimGate, ClaimNothing, ClaimJob, At, Out
  <2>10. CASE ClaimUnheard(v) \/ ReportOutcome(v) \/ ReportException(v)
    BY <2>5, <2>10 DEF ClaimUnheard, ReportOutcome, ReportException, At, Out
  <2> QED BY <1>5, <2>1, <2>2, <2>3, <2>4, <2>6, <2>7, <2>8, <2>9, <2>10
          DEF ProcessNext, ProgramStep
<1>6. CASE OthersNext \/ UNCHANGED systemVars
  <2>1. UNCHANGED <<leases, processes>>
    BY <1>6 DEF OthersNext, systemVars
  <2> QED BY <1>2, <2>1 DEF leases, processes
<1> QED BY <1>4, <1>5, <1>6 DEF SystemNext

\* A program about to send has found nobody invited, and this is still so.
PressInv ==
    /\ NoDoubleSend
    /\ \A w \in Workers : proc[w].at \in {"PRESS", "DIALOG"} => invitations[LeadOf(w)] = 0

\* What keeps PressInv: nobody else sends while one is about to, on the same lead.
LEMMA PressStep ==
    ASSUME AtWorkInv, PressInv, [SystemNext]_systemVars,
           \A v, w \in Workers : (/\ proc[v].at \in {"PRESS", "DIALOG"}
                                  /\ proc[w].at \in {"PRESS", "DIALOG"}
                                  /\ LeadOf(v) = LeadOf(w)) => v = w
    PROVE  PressInv'
<1> DEFINE Pressing == {"PRESS", "DIALOG"}
<1>1. /\ SystemInv /\ ProcessTypeOK /\ invitations \in [Leads -> Nat]
      /\ Pressing \subseteq Browsing
  BY DEF AtWorkInv, SystemInv, ProcessTypeOK, Browsing
<1>2. \A w \in Workers : proc[w].at \in Browsing => LeadOf(w) \in Leads
  BY OutreachAssumption
  DEF AtWorkInv, SystemInv, ClaimInv, TypeInv, TypeOK, WorkerShape, WorkerState, LeadOf
<1>3. NoDoubleSend'
  <2>1. CASE UNCHANGED invitations
    BY <2>1 DEF PressInv, NoDoubleSend
  <2>2. ASSUME NEW w \in Workers, Visit(w), ~UNCHANGED invitations PROVE NoDoubleSend'
    <3>1. /\ proc[w].at \in Pressing
          /\ invitations' = [invitations EXCEPT ![LeadOf(w)] = @ + 1]
      BY <1>1, <2>2, VisitMoves
    <3>2. invitations[LeadOf(w)] = 0 /\ LeadOf(w) \in Leads
      BY <1>1, <1>2, <3>1 DEF PressInv
    <3> HIDE DEF Pressing
    <3> QED BY <1>1, <3>1, <3>2 DEF PressInv, NoDoubleSend
  <2> QED BY <1>1, <2>1, <2>2, OnlyVisitsInvite
<1>4. ASSUME NEW v \in Workers, proc'[v].at \in Pressing
      PROVE  (invitations[LeadOf(v)])' = 0
  <2>1. ASSUME proc[v].at \in Pressing, worker'[v] = worker[v], UNCHANGED invitations
        PROVE  (invitations[LeadOf(v)])' = 0
    BY <2>1 DEF PressInv, LeadOf
  <2>2. CASE ProcessNext(v) /\ Visit(v)
    <3>1. /\ worker' = worker /\ UNCHANGED invitations
          /\ proc[v].at \in Pressing \/ invitations[LeadOf(v)] = 0
      BY <1>1, <1>4, <2>2, VisitMoves DEF vars
    <3> QED BY <2>1, <3>1 DEF LeadOf
  <2>3. CASE ProcessNext(v) /\ ~Visit(v)
    <3>1. /\ UNCHANGED invitations /\ worker' = worker
          /\ proc'[v].at = proc[v].at
      BY <1>1, <1>4, <2>3, ProgramMoves
    <3> QED BY <1>4, <2>1, <3>1
  <2>4. ASSUME NEW w \in Workers \ {v}, ProcessNext(w) PROVE (invitations[LeadOf(v)])' = 0
    <3>1. worker'[v] = worker[v] /\ proc'[v] = proc[v] /\ proc[v].at \in Pressing
      BY <1>1, <1>4, <2>4, WorkersApart
    <3>2. CASE UNCHANGED invitations
      BY <2>1, <3>1, <3>2
    <3>3. CASE ~UNCHANGED invitations
      <4>1. Visit(w)
        BY <1>1, <2>4, <3>3, ProgramMoves
      <4>2. /\ proc[w].at \in Pressing
            /\ invitations' = [invitations EXCEPT ![LeadOf(w)] = @ + 1]
        BY <1>1, <3>3, <4>1, VisitMoves
      <4>3. LeadOf(v) # LeadOf(w) /\ LeadOf(v) \in Leads /\ invitations[LeadOf(v)] = 0
        BY <1>1, <1>2, <2>4, <3>1, <4>2 DEF PressInv
      <4> HIDE DEF Pressing
      <4> QED BY <1>1, <3>1, <4>2, <4>3 DEF LeadOf
    <3> QED BY <3>2, <3>3
  <2>5. CASE OthersNext \/ UNCHANGED systemVars
    <3>1. worker' = worker /\ proc' = proc /\ UNCHANGED invitations
      BY <2>5, OthersSteps DEF systemVars, vars, processes
    <3> QED BY <1>4, <2>1, <3>1
  <2> QED BY <2>2, <2>3, <2>4, <2>5 DEF SystemNext
<1> QED BY <1>3, <1>4 DEF PressInv

LEMMA PressInit == SystemInit => PressInv
  BY DEF SystemInit, ProcessInit, NotStarted, PressInv, NoDoubleSend

\* Nobody is invited twice, however often a visit is aborted, its report is lost, its
\* claim reaped or its job retried, and whatever operators do, while the run lease
\* does its work: heartbeats come in time and no takeover is forced
\* (registerWorker, performConnect).
THEOREM LeaseKeepsSendsSingle ==
    ASSUME "LATE_HEARTBEAT" \notin Troubles, "FORCE_TAKEOVER" \notin Troubles
    PROVE  SystemSpec => []NoDoubleSend
<1> DEFINE Inv == AloneInv /\ AtWorkInv /\ PressInv
<1>1. SystemInit => Inv
  <2>1. SystemInit => AloneInv
    BY SystemInvInit DEF SystemInit, ProcessInit, NotStarted, AloneInv, Out
  <2> QED BY <2>1, AtWorkInit, PressInit
<1>2. Inv /\ [SystemNext]_systemVars => Inv'
  <2>1. AloneInv => \A v, w \in Workers : (/\ proc[v].at \in {"PRESS", "DIALOG"}
                                           /\ proc[w].at \in {"PRESS", "DIALOG"}) => v = w
    BY DEF AloneInv, Out
  <2> QED BY <2>1, AloneStep, AtWorkStep, PressStep
<1>3. Inv => NoDoubleSend
  BY DEF PressInv
<1> QED BY <1>1, <1>2, <1>3, PTL DEF SystemSpec

-----------------------------------------------------------------------------
(* Nor when the lease fails and several programs run, as long as no claim is *)
(* taken from a program that lives: then a program on a page holds the claim *)
(* of its lead, and OneHolderPerLead keeps others away from it.              *)

TakesClaims == {"REAP", "CANCEL", "REQUEUE"}

ClaimedInv ==
    /\ AtWorkInv
    /\ \A o \in Operators : request[o].op \notin TakesClaims
    /\ \A w \in Workers : proc[w].at \in Browsing => Holder(w, LeadOf(w))

LEMMA RowOfAnother ==
    ASSUME TypeInv, NEW j \in Jobs, NEW k \in Jobs, j # k, NEW row, SetJob(k, row)
    PROVE  job'[j] = job[j]
  BY DEF SetJob, TypeInv, TypeOK

LEMMA ClaimNotCancelled ==
    ASSUME TypeInv, NEW j \in Jobs, job[j].status = "PROCESSING", NEW S, NEW st,
           CancelIn(S, st), "PROCESSING" \notin st
    PROVE  job'[j] = job[j]
  BY DEF CancelIn, TypeInv, TypeOK

\* What is done to claims without the operations of TakesClaims.
LEMMA OthersKeepClaims ==
    ASSUME TypeInv, OthersNext, \A o \in Operators : request[o].op \notin TakesClaims,
           NEW j \in Jobs, job[j].status = "PROCESSING"
    PROVE  job'[j].status = "PROCESSING" /\ job'[j].token = job[j].token
<1> DEFINE Kept == job'[j].status = "PROCESSING" /\ job'[j].token = job[j].token
<1>1. ASSUME job'[j] = job[j] PROVE Kept
  BY <1>1
<1>2. ASSUME NEW o \in Operators, OperatorRequest(o) PROVE Kept
  BY <1>2 DEF OperatorRequest, GenerateRead, ActivateChecks, ResumeRead, CancelRead, RequeueRead,
         SetLeadRead, ReapScan, ClearRead, ActivateRead, ResumeChecks, tables
<1>3. ASSUME NEW o \in Operators, OperatorWrite(o) PROVE Kept
  <2>1. CASE GenerateWrite(o)
    <3> DEFINE insertable == {l \in request[o].leads :
                                /\ FreshRows(l) # {}
                                /\ \A k \in JobsOf(l) : job[k].status \notin LiveStatus}
    <3> DEFINE rows == {InsertedRow(l) : l \in insertable}
    <3>1. ASSUME NEW l \in insertable PROVE InsertedRow(l) \in FreshRows(l)
      BY DEF InsertedRow
    <3>2. j \notin rows
      BY <3>1 DEF FreshRows
    <3>3. job' = [k \in Jobs |-> IF k \in rows THEN NewRow ELSE job[k]]
      BY <2>1 DEF GenerateWrite
    <3> HIDE DEF rows
    <3> QED BY <3>2, <3>3
  <2>2. ~CancelWrite(o) /\ ~RequeueWrite(o) /\ ~ReapJob(o)
    BY DEF CancelWrite, RequeueWrite, ReapJob, TakesClaims
  <2>3. ASSUME NEW s \in LeadStatus, SetLeadWrite(o, s) PROVE Kept
    BY <1>1, <2>3, ClaimNotCancelled DEF SetLeadWrite
  <2>4. CASE StartWrite(o) \/ ClearWrite(o)
    BY <2>4 DEF StartWrite, ClearWrite
  <2> QED BY <1>3, <2>1, <2>2, <2>3, <2>4 DEF OperatorWrite
<1>4. CASE OperatorAction
  <2>1. CASE EmergencyStop
    BY <1>1, <2>1, ClaimNotCancelled DEF EmergencyStop
  <2>2. CASE ClearEmergencyStop
    BY <2>2 DEF ClearEmergencyStop
  <2>3. ASSUME NEW i \in incidents, ResolveIncident(i) PROVE Kept
    <3>1. CASE UNCHANGED job
      BY <3>1
    <3>2. CASE RetireLead(i, "SKIPPED") \/ RetireLead(i, "BLOCKED") \/ StopCampaign(i)
      BY <1>1, <3>2, ClaimNotCancelled DEF RetireLead, StopCampaign
    <3>3. CASE RequeueLead(i)
      <4>1. i.job \in Jobs
        BY <3>3 DEF RequeueLead, Incident, TypeInv, TypeOK
      <4> QED BY <1>1, <3>3, <4>1, RowOfAnother DEF RequeueLead
    <3> QED BY <2>3, <3>1, <3>2, <3>3 DEF ResolveIncident
  <2>4. ASSUME NEW c \in Campaigns, PauseCampaign(c) \/ ClearCampaignQueue(c) PROVE Kept
    BY <1>1, <2>4, ClaimNotCancelled DEF PauseCampaign, ClearCampaignQueue
  <2> QED BY <1>4, <2>1, <2>2, <2>3, <2>4 DEF OperatorAction
<1>5. ASSUME NEW k \in Jobs, LeaseExpires(k) PROVE Kept
  BY <1>5 DEF LeaseExpires, SetJob, TypeInv, TypeOK, JobRow
<1> QED BY <1>2, <1>3, <1>4, <1>5 DEF OthersNext

\* A call is served on the row of its own claim, and that is nobody else's.
LEMMA CallsKeepClaims ==
    ASSUME ClaimInv, NEW w \in Workers, NEW v \in Workers \ {w}, WorkerCall(w),
           worker[v].job \in Jobs, Holder(v, JobLead[worker[v].job])
    PROVE  job'[worker[v].job] = job[worker[v].job]
<1> DEFINE j == worker[v].job
<1>1. TypeInv
  BY DEF ClaimInv
<1>2. job[j].status = "PROCESSING" /\ job[j].token = worker[v].token
  BY DEF Holder
<1>3. worker[w].phase \notin {"IDLE", "GATED"} => worker[w].job \in Jobs
  BY <1>1 DEF TypeInv, TypeOK, WorkerShape, WorkerState
<1>4. ASSUME NEW k \in Jobs, ClaimNextJob(w, k) PROVE job'[j] = job[j]
  BY <1>1, <1>2, <1>4, RowOfAnother DEF ClaimNextJob, Claimable
<1>5. HoldsClaim(w) /\ worker[w].job = j => FALSE
  BY <1>2, OutreachAssumption DEF HoldsClaim, ClaimInv, ClaimBacked
<1>6. ASSUME NEW r \in Reports, CompleteJob(w, r) \/ FailJob(w, r) PROVE job'[j] = job[j]
  BY <1>1, <1>3, <1>5, <1>6, RowOfAnother DEF CompleteJob, FailJob, RecordCompletion, RecordFailure
<1>7. CASE PassGate(w) \/ ClaimEmpty(w) \/ WorkerDies(w) \/ ReportRejected(w)
  BY <1>7 DEF PassGate, ClaimEmpty, WorkerDies, ReportRejected, tables
<1>8. CASE Escalate(w) \/ EscalationFails(w)
  BY <1>8 DEF Escalate, EscalationFails, tables
<1> QED BY <1>4, <1>6, <1>7, <1>8 DEF WorkerCall

LEMMA NoTakingRequest ==
    ASSUME TypeInv, OthersNext, Ops \cap TakesClaims = {}, NEW p \in Operators,
           \A o \in Operators : request[o].op \notin TakesClaims
    PROVE  request'[p].op \notin TakesClaims
<1> USE DEF TakesClaims
<1>1. ASSUME NEW o \in Operators, NEW q, request' = [request EXCEPT ![o] = q],
             q.op \notin TakesClaims
      PROVE  request'[p].op \notin TakesClaims
  BY <1>1 DEF TypeInv, TypeOK
<1>2. NoRequest.op \notin TakesClaims
  BY DEF NoRequest
<1>3. ASSUME NEW o \in Operators, OperatorRequest(o) PROVE request'[p].op \notin TakesClaims
  <2>1. ASSUME NEW c \in Campaigns, GenerateRead(o, c) \/ ActivateChecks(o, c) \/ ResumeRead(o, c)
        PROVE  request'[p].op \notin TakesClaims
    BY <1>1, <2>1 DEF GenerateRead, ActivateChecks, ResumeRead, Asks
  <2>2. ASSUME NEW l \in Leads, SetLeadRead(o, l) PROVE request'[p].op \notin TakesClaims
    BY <1>1, <2>2 DEF SetLeadRead, Asks
  <2>3. CASE ClearRead(o)
    BY <1>1, <2>3 DEF ClearRead
  <2>4. CASE ActivateRead(o) \/ ResumeChecks(o)
    BY <1>1, <1>2, <2>4 DEF ActivateRead, ResumeChecks, Asks, Answered
  <2>5. ~ReapScan(o) /\ \A j \in Jobs : ~CancelRead(o, j) /\ ~RequeueRead(o, j)
    BY DEF ReapScan, CancelRead, RequeueRead
  <2> QED BY <1>3, <2>1, <2>2, <2>3, <2>4, <2>5 DEF OperatorRequest
<1>4. ASSUME NEW o \in Operators, OperatorWrite(o) PROVE request'[p].op \notin TakesClaims
  <2>1. ~ReapJob(o)
    BY DEF ReapJob
  <2>2. request' = [request EXCEPT ![o] = NoRequest]
    BY <1>4, <2>1 DEF OperatorWrite, GenerateWrite, CancelWrite, RequeueWrite, SetLeadWrite,
                      StartWrite, ClearWrite, Answered
  <2> QED BY <1>1, <1>2, <2>2
<1>5. OperatorAction \/ (\E j \in Jobs : LeaseExpires(j)) => UNCHANGED request
  BY DEF OperatorAction, EmergencyStop, ClearEmergencyStop, ResolveIncident, PauseCampaign,
         ClearCampaignQueue, LeaseExpires
<1> QED BY <1>3, <1>4, <1>5 DEF OthersNext

LEMMA ClaimedStep ==
    ASSUME Ops \cap TakesClaims = {}, ClaimedInv, [SystemNext]_systemVars
    PROVE  ClaimedInv'
<1>1. /\ SystemInv /\ ClaimInv /\ TypeInv /\ ProcessTypeOK
      /\ AtWorkInv /\ AtWorkInv'
  BY AtWorkStep DEF ClaimedInv, AtWorkInv, SystemInv, ClaimInv
<1>2. \A o \in Operators : request'[o].op \notin TakesClaims
  <2>1. ASSUME NEW w \in Workers, ProcessNext(w) PROVE UNCHANGED request
    <3>1. WorkerCall(w) => UNCHANGED request
      BY DEF WorkerCall, PassGate, ClaimEmpty, WorkerDies, ReportRejected, ClaimNextJob,
             CompleteJob, FailJob, RecordCompletion, RecordFailure, Escalate, EscalationFails
    <3> QED BY <1>1, <2>1, <3>1, ProcessSteps DEF Alarm, vars
  <2>2. CASE UNCHANGED request
    BY <2>2 DEF ClaimedInv
  <2>3. CASE OthersNext
    BY <1>1, <2>3, NoTakingRequest DEF ClaimedInv
  <2> QED BY <2>1, <2>2, <2>3 DEF SystemNext, systemVars, vars
<1>3. ASSUME NEW v \in Workers, proc'[v].at \in Browsing PROVE Holder(v, LeadOf(v))'
  <2>1. ASSUME proc[v].at \in Browsing, worker'[v] = worker[v],
               job'[worker[v].job].status = job[worker[v].job].status,
               job'[worker[v].job].token = job[worker[v].job].token
        PROVE  Holder(v, LeadOf(v))'
    BY <2>1 DEF ClaimedInv, Holder, LeadOf, JobsOf
  <2>2. proc[v].at \in Browsing => /\ worker[v].job \in Jobs
                                   /\ Holder(v, JobLead[worker[v].job])
                                   /\ job[worker[v].job].status = "PROCESSING"
    BY DEF ClaimedInv, Holder, LeadOf, JobsOf
  <2>3. CASE ProcessNext(v) /\ Visit(v)
    BY <1>1, <2>1, <2>3, VisitMoves DEF vars
  <2>4. CASE ProcessNext(v) /\ ~Visit(v)
    <3>1. ASSUME NEW j \in Jobs, ClaimNextJob(v, j) PROVE Holder(v, LeadOf(v))'
      <4>1. /\ worker'[v].phase = "WORKING" /\ worker'[v].job = j
            /\ worker'[v].token = ClaimToken(j)
        BY <1>1, <3>1 DEF ClaimNextJob, TypeInv, TypeOK
      <4>2. job'[j].status = "PROCESSING" /\ job'[j].token = ClaimToken(j)
        BY <1>1, <3>1 DEF ClaimNextJob, SetJob, TypeInv, TypeOK, JobRow
      <4> QED BY <4>1, <4>2 DEF Holder, LeadOf, JobsOf
    <3>2. "REPORT" \notin Browsing
      BY DEF Browsing
    <3> QED BY <1>1, <1>3, <2>1, <2>4, <3>1, <3>2, ProgramMoves
  <2>5. ASSUME NEW w \in Workers \ {v}, ProcessNext(w) PROVE Holder(v, LeadOf(v))'
    <3>1. worker'[v] = worker[v] /\ proc[v].at \in Browsing
      BY <1>1, <1>3, <2>5, WorkersApart
    <3>2. job'[worker[v].job] = job[worker[v].job]
      BY <1>1, <2>2, <2>5, <3>1, ProcessSteps, CallsKeepClaims DEF Alarm, vars
    <3> QED BY <2>1, <3>1, <3>2
  <2>6. CASE OthersNext
    <3>1. worker' = worker /\ proc[v].at \in Browsing
      BY <1>3, <2>6, OthersSteps DEF processes
    <3> QED BY <1>1, <2>1, <2>2, <2>6, <3>1, OthersKeepClaims DEF ClaimedInv
  <2>7. CASE UNCHANGED systemVars
    BY <1>3, <2>1, <2>7 DEF systemVars, vars, processes
  <2> QED BY <2>3, <2>4, <2>5, <2>6, <2>7 DEF SystemNext
<1> QED BY <1>1, <1>2, <1>3 DEF ClaimedInv

\* Nobody is invited twice even where heartbeats come late and takeovers are forced,
\* so that several programs run at a time: the claims keep them apart, as long as no
\* reaper and no operator takes a claim from under a living program (claimNextJob,
\* the two partial indexes, performConnect).
THEOREM ClaimsKeepSendsSingle ==
    ASSUME Ops \cap TakesClaims = {}
    PROVE  SystemSpec => []NoDoubleSend
<1> DEFINE Inv == ClaimedInv /\ PressInv
<1>1. SystemInit => Inv
  <2>1. SystemInit => AtWorkInv
    BY AtWorkInit
  <2>2. SystemInit => \A o \in Operators : request[o].op \notin TakesClaims
    BY DEF SystemInit, Init, NoRequest, TakesClaims
  <2>3. SystemInit => \A w \in Workers : proc[w].at \notin Browsing
    BY DEF SystemInit, ProcessInit, NotStarted, Browsing
  <2> QED BY <2>1, <2>2, <2>3, PressInit DEF ClaimedInv
<1>2. Inv /\ [SystemNext]_systemVars => Inv'
  <2>1. ClaimedInv => \A v, w \in Workers : (/\ proc[v].at \in {"PRESS", "DIALOG"}
                                             /\ proc[w].at \in {"PRESS", "DIALOG"}
                                             /\ LeadOf(v) = LeadOf(w)) => v = w
    <3> SUFFICES ASSUME ClaimedInv, NEW v \in Workers, NEW w \in Workers,
                        proc[v].at \in {"PRESS", "DIALOG"}, proc[w].at \in {"PRESS", "DIALOG"},
                        LeadOf(v) = LeadOf(w)
                 PROVE  v = w
      OBVIOUS
    <3>1. Holder(v, LeadOf(v)) /\ Holder(w, LeadOf(v))
      BY DEF ClaimedInv, Browsing
    <3>2. LeadOf(v) \in Leads
      BY <3>1, OutreachAssumption DEF Holder, JobsOf
    <3> QED BY <3>1, <3>2, OneHolderOfInv DEF ClaimedInv, AtWorkInv, SystemInv, OneHolderPerLead
  <2> QED BY <2>1, ClaimedStep, PressStep DEF ClaimedInv
<1>3. Inv => NoDoubleSend
  BY DEF PressInv
<1> QED BY <1>1, <1>2, <1>3, PTL DEF SystemSpec
=============================================================================
