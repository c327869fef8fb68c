---------------------------- MODULE WorkerProcess ----------------------------
(***************************************************************************)
(* The browser worker (src/worker/main.ts, src/worker/actions/connect.ts)  *)
(* at its API calls (src/worker/api-client.ts): every call may be lost     *)
(* before the server sees it, and so may the reply, which the worker       *)
(* cannot tell apart.  What the handlers do to the database are the        *)
(* actions of OutreachQueue and WorkerRegistry; here is when a worker      *)
(* calls them and what it does with the answer.  How a page is read is the *)
(* subject of ProfileVisit.                                                *)
(***************************************************************************)
EXTENDS WorkerRegistry

CONSTANTS
    Troubles,        \* what goes wrong in this instance
    SessionStates    \* what the session check may find

TroubleNames == {"LOST_CALL", "CRASH", "SIGNAL", "LATE_HEARTBEAT", "FORCE_TAKEOVER", "PAGE_ERROR"}

ASSUME WorkerAssumption ==
    /\ Troubles \subseteq TroubleNames
    /\ SessionStates \subseteq PageState

VARIABLES
    proc,        \* each worker program: where it is and what it has been told
    invitations  \* ghost: the invitations LinkedIn was asked to send each person

processes == <<proc, invitations>>

\* SESSION: registered, checks the login.  SIGN_OFF: the check failed.  LOOP, CLAIM:
\* the main loop.  UNHEARD: a claim was granted, the reply is lost.  VISIT, PRESS,
\* DIALOG, VERIFY: performConnect.  REFUSE: the note could not be rendered.
\* REPORT: the outcome is being reported.  FALLBACK: an exception is reported
\* instead.  ABORTED: so is an emergency stop.  CRASHING: the error reached run().
Place == {"OFF", "SESSION", "SIGN_OFF", "LOOP", "CLAIM", "UNHEARD", "REFUSE", "VISIT", "PRESS",
          "DIALOG", "VERIFY", "REPORT", "FALLBACK", "ABORTED", "CRASHING", "EXIT", "GONE"}

Browsing == {"VISIT", "PRESS", "DIALOG", "VERIFY"}

Process == [at : Place, aborted : BOOLEAN, leaving : BOOLEAN, signedOff : BOOLEAN,
            outcome : Reports \cup {NoReport}]

NotStarted == [at |-> "OFF", aborted |-> FALSE, leaving |-> FALSE, signedOff |-> FALSE,
               outcome |-> NoReport]

ProcessInit ==
    /\ proc = [w \in Workers |-> NotStarted]
    /\ invitations = [l \in Leads |-> 0]

ProcessTypeOK ==
    /\ proc \in [Workers -> Process]
    /\ \A w \in Workers : /\ proc[w].aborted => proc[w].at \in Browsing
                          /\ proc[w].at = "REPORT" => proc[w].outcome # NoReport
    /\ invitations \in [Leads -> Nat]

At(w, place) == proc[w].at = place

Reporting == {"REPORT", "FALLBACK", "ABORTED"}

\* (Mutant: a visit that was aborted leaves its signal to the next one.)
GoToWithItsSignal(w, place) ==
    proc' = [proc EXCEPT ![w].at = place,
                         ![w].outcome = IF place \in Browsing \cup Reporting THEN @ ELSE NoReport,
                         ![w].leaving = place # "GONE" /\ @]

\* Outside a visit its signal and its outcome are gone; a program that has ended
\* remembers nothing.
GoTo(w, place) ==
    proc' = [proc EXCEPT ![w].at = place,
                         ![w].aborted = place \in Browsing /\ @,
                         ![w].outcome = IF place \in Browsing \cup Reporting THEN @ ELSE NoReport,
                         ![w].leaving = place # "GONE" /\ @]

Lost == "LOST_CALL" \in Troubles

NothingStored == UNCHANGED <<vars, leases>>

LeadOf(w) == JobLead[worker[w].job]

-----------------------------------------------------------------------------
(* run: register, verifySession. *)

\* A refused worker exits and may be started again.  When the reply is lost the
\* program ends before it has a workerId to sign off.
Register(w) ==
    /\ At(w, "OFF")
    /\ \E force \in {FALSE} \cup {t \in BOOLEAN : "FORCE_TAKEOVER" \in Troubles} :
         RegisterWorker(w, force)
    /\ \/ GoTo(w, "SESSION")
       \/ Lost /\ GoTo(w, "GONE")
    /\ UNCHANGED <<vars, invitations>>

\* The incident of a failed session check: its type, and whether it blocks.
SessionIncident(state) ==
    CASE state = "UNKNOWN_PAGE" -> "LOGIN_REQUIRED"
      [] state \in SafetyStates \ {"UNKNOWN_PAGE"} -> POLICIES[state].incidentType
      [] OTHER -> "NETWORK_FAILURE"

VerifySession(w) ==
    /\ At(w, "SESSION")
    /\ \E state \in SessionStates :
         IF state = "AUTHENTICATED"
           THEN GoTo(w, "LOOP") /\ UNCHANGED vars
           ELSE /\ GoTo(w, "SIGN_OFF")
                /\ \/ /\ OpenIncident(SessionIncident(state), NoJob, NoCampaign, NoToken,
                             state \in SafetyStates,
                             state \in {"CAPTCHA", "SECURITY_CHALLENGE", "ACCOUNT_RESTRICTED"})
                      /\ UNCHANGED <<job, lead, worker, request>>
                   \/ Lost /\ UNCHANGED vars
    /\ UNCHANGED <<leases, invitations>>

\* The heartbeat that ends a failed check says STOPPED.
SignOff(w) ==
    /\ At(w, "SIGN_OFF")
    /\ \/ RecordHeartbeat(w, "STOPPED")
       \/ Lost /\ UNCHANGED leases
    /\ GoTo(w, "EXIT")
    /\ UNCHANGED <<vars, invitations>>

-----------------------------------------------------------------------------
(* mainLoop. *)

\* (Mutant: a stop is waited out, like an incident.)
ReadControlAndWait(w) ==
    /\ At(w, "LOOP")
    /\ \/ proc[w].leaving /\ GoTo(w, "EXIT")
       \/ ~proc[w].leaving /\ GateAllows(w) /\ GoTo(w, "CLAIM")
    /\ UNCHANGED <<vars, leases, invitations>>

\* The gate is polled; a stop or a lost lease ends the run, an incident does not.
ReadControl(w) ==
    /\ At(w, "LOOP")
    /\ \/ proc[w].leaving /\ GoTo(w, "EXIT")
       \/ ~proc[w].leaving /\ GateAllows(w) /\ GoTo(w, "CLAIM")
       \/ ~proc[w].leaving /\ kill /\ GoTo(w, "EXIT")
       \/ ~proc[w].leaving /\ Blocking = {} /\ TurnedAway(w) /\ GoTo(w, "EXIT")
    /\ UNCHANGED <<vars, leases, invitations>>

\* The claim call, at the server: the gate, then the transaction.
ClaimGate(w) ==
    /\ At(w, "CLAIM")
    /\ ~TurnedAway(w)
    /\ PassGate(w)
    /\ UNCHANGED <<leases, processes>>

\* Refused by the gate, nothing to claim, or the call never arrived.
ClaimNothing(w) ==
    /\ At(w, "CLAIM")
    /\ \/ ClaimEmpty(w)
       \/ worker[w].phase = "IDLE" /\ (Lost \/ ~GateAllows(w)) /\ UNCHANGED vars
    /\ GoTo(w, "LOOP")
    /\ UNCHANGED <<leases, invitations>>

ClaimJob(w) ==
    /\ At(w, "CLAIM")
    /\ \E j \in Jobs : ClaimNextJob(w, j)
    /\ \E place \in {"VISIT", "REFUSE"} \cup {p \in {"UNHEARD"} : Lost} : GoTo(w, place)
    /\ UNCHANGED <<leases, invitations>>

\* The worker never learns of the claim: it stays open until it is reaped.
ClaimUnheard(w) ==
    /\ At(w, "UNHEARD")
    /\ WorkerDies(w)
    /\ GoTo(w, "LOOP")
    /\ UNCHANGED <<leases, invitations>>

-----------------------------------------------------------------------------
(* performConnect.  Each step looks at the abort signal before it acts.    *)

Ends(w, place, outcome) ==
    proc' = [proc EXCEPT ![w].at = place, ![w].outcome = outcome]

Finishes(w, outcomes) == \E r \in Reports \cap outcomes : Ends(w, "REPORT", r)

Outcome(class, page) == [class |-> class, page |-> page]

\* An error nobody expected, at any step of the visit.
Throws(w) == "PAGE_ERROR" \in Troubles /\ GoTo(w, "FALLBACK")

\* (Mutant: what the page says of the connection is not looked at.)
VisitBlindly(w) ==
    IF proc[w].aborted THEN GoTo(w, "ABORTED") ELSE GoTo(w, "PRESS")

\* Navigate, detect, and act only where a Connect control is offered.
VisitProfile(w) ==
    IF proc[w].aborted THEN GoTo(w, "ABORTED")
    ELSE \/ Finishes(w, SafetyReports \cup {Outcome("TECHNICAL", "NETWORK_ERROR"),
                                             Outcome("NONE", "PROFILE_NOT_FOUND"),
                                             Outcome("PERMANENT", "PROFILE_FOUND")})
         \/ invitations[LeadOf(w)] > 0 /\ Finishes(w, {Outcome("NONE", "INVITATION_PENDING")})
         \/ invitations[LeadOf(w)] = 0 /\ GoTo(w, "PRESS")
         \/ Throws(w)

\* Click the owner's Connect control; some profiles send without a dialog.
PressConnect(w) ==
    IF proc[w].aborted THEN GoTo(w, "ABORTED") /\ UNCHANGED invitations
    ELSE \/ GoTo(w, "DIALOG") /\ UNCHANGED invitations
         \/ GoTo(w, "VERIFY") /\ invitations' = [invitations EXCEPT ![LeadOf(w)] = @ + 1]
         \/ /\ Finishes(w, {Outcome("PERMANENT", "CONNECT_AVAILABLE")})
            /\ UNCHANGED invitations

\* Fill in the note and click send.  LinkedIn may drop the request.
SendInvitation(w) ==
    IF proc[w].aborted THEN GoTo(w, "ABORTED") /\ UNCHANGED invitations
    ELSE \/ GoTo(w, "VERIFY") /\ invitations' = [invitations EXCEPT ![LeadOf(w)] = @ + 1]
         \/ GoTo(w, "VERIFY") /\ UNCHANGED invitations
         \/ /\ Finishes(w, {Outcome("PERMANENT", "PROFILE_FOUND")}) \/ Throws(w)
            /\ UNCHANGED invitations

\* (Mutant: the click is believed.)
VerifyNothing(w) ==
    IF proc[w].aborted THEN GoTo(w, "ABORTED") ELSE Ends(w, "REPORT", Outcome("NONE", SENT_RESULT))

\* Read the page again.
VerifyInvitation(w) ==
    IF proc[w].aborted THEN GoTo(w, "ABORTED")
    ELSE \/ /\ invitations[LeadOf(w)] > 0
            /\ Ends(w, "REPORT", Outcome("NONE", SENT_RESULT))
         \/ Finishes(w, SafetyReports \cup PermanentFailures)
         \/ Throws(w)

Visit(w) ==
    /\ \/ At(w, "VISIT") /\ VisitProfile(w) /\ UNCHANGED invitations
       \/ At(w, "PRESS") /\ PressConnect(w)
       \/ At(w, "DIALOG") /\ SendInvitation(w)
       \/ At(w, "VERIFY") /\ VerifyInvitation(w) /\ UNCHANGED invitations
    /\ NothingStored

\* startControlWatchdog: a closed gate aborts the action in flight.
Watchdog(w) ==
    /\ proc[w].at \in Browsing
    /\ ~GateAllows(w)
    /\ proc' = [proc EXCEPT ![w].aborted = TRUE]
    /\ UNCHANGED <<vars, leases, invitations>>
-----------------------------------------------------------------------------
(* Reporting.  An answer that is an error (409, 500, or none at all) throws; *)
(* inside the visit's try block the exception is reported in turn, as a      *)
(* technical failure, and the answer to that is ignored.                     *)

NoteNotRendered == Outcome("PERMANENT", NULL)
Unexplained == Outcome("TECHNICAL", NULL)

\* An instance that limits what its workers report has what they report of their own.
ASSUME ReportsAssumption ==
    {Outcome("NONE", SENT_RESULT), NoteNotRendered, Unexplained} \subseteq Reports

\* The server works on the report r of w: completeJob, or failJob and what follows.
Serve(w, r) ==
    \/ CompleteJob(w, r)
    \/ FailJob(w, r)
    \/ worker[w].report = r /\ (Escalate(w) \/ EscalationFails(w))

\* After an answered report: a safety state ends the run.
AfterReport(r) == IF r.class = "SAFETY" THEN "EXIT" ELSE "LOOP"

\* The outcome of the visit, or of a note that could not be rendered (its call is
\* outside the try block).
ReportOutcome(w) ==
    /\ At(w, "REPORT") \/ At(w, "REFUSE")
    /\ LET r == IF At(w, "REFUSE") THEN NoteNotRendered ELSE proc[w].outcome
           onError == IF At(w, "REFUSE") THEN "CRASHING" ELSE "FALLBACK"
       IN \/ /\ Serve(w, r)
             /\ GoTo(w, CASE worker'[w] = Idle -> AfterReport(r)
                          [] worker'[w].phase = "WORKING" -> onError
                          [] OTHER -> proc[w].at)
             /\ worker'[w].phase = "WORKING" => Lost
          \/ /\ ReportRejected(w)
             /\ GoTo(w, IF At(w, "REFUSE") THEN "CRASHING" ELSE "LOOP")
          \/ /\ Lost /\ worker[w].phase = "WORKING"
             /\ GoTo(w, onError)
             /\ UNCHANGED vars
    /\ UNCHANGED <<leases, invitations>>

\* The exception's own report, once: whatever comes of it the loop goes on.  An
\* aborted visit reports the same way and ends the run; there, an error that is
\* not ignored makes it a crash.
ReportException(w) ==
    /\ At(w, "FALLBACK") \/ At(w, "ABORTED")
    /\ LET after == IF At(w, "ABORTED") THEN "EXIT" ELSE "LOOP"
           onError == IF At(w, "ABORTED") THEN "CRASHING" ELSE "LOOP"
       IN \/ /\ Serve(w, Unexplained)
             /\ worker'[w].phase # "WORKING"
             /\ GoTo(w, IF worker'[w] = Idle THEN after ELSE proc[w].at)
          \/ ReportRejected(w) /\ GoTo(w, onError)
          \/ Lost /\ WorkerDies(w) /\ GoTo(w, onError)
    /\ UNCHANGED <<leases, invitations>>

\* run, catch: the crash becomes an incident that blocks nobody.
ReportCrash(w) ==
    /\ At(w, "CRASHING")
    /\ GoTo(w, "EXIT")
    /\ \/ /\ OpenIncident("BROWSER_ERROR", NoJob, NoCampaign, NoToken, FALSE, FALSE)
          /\ UNCHANGED <<job, lead, worker, request>>
       \/ Lost /\ UNCHANGED vars
    /\ UNCHANGED <<leases, invitations>>

\* shutdown: tryReportStopped, once.
Shutdown(w) ==
    /\ At(w, "EXIT")
    /\ \/ /\ MarkWorkerStopped(w)
          /\ proc' = [proc EXCEPT ![w] = [NotStarted EXCEPT !.at = "GONE", !.signedOff = TRUE]]
       \/ Lost /\ GoTo(w, "GONE") /\ UNCHANGED leases
    /\ UNCHANGED <<vars, invitations>>

-----------------------------------------------------------------------------
(* Beside the loop: the heartbeat timer, signals, crashes. *)

Running(w) == proc[w].at \notin {"OFF", "GONE"}

\* A heartbeat that learns the lease is lost ends the run at its next turn.
\* The main loop's own heartbeats set a status, the timer's do not.
Heartbeat(w) ==
    /\ Running(w) /\ ~At(w, "EXIT")
    /\ \E status \in {NULL} \cup {s \in {"LIVE"} : proc[w].at \in {"LOOP", "VISIT"}} :
         RecordHeartbeat(w, status)
    /\ proc' = [proc EXCEPT ![w].leaving = @ \/ active # w]
    /\ UNCHANGED <<vars, invitations>>

\* The heartbeats of a process that is gone, or is late, stop counting.
HeartbeatGoesStale(w) ==
    /\ registry[w].fresh
    /\ ~Running(w) \/ "LATE_HEARTBEAT" \in Troubles
    /\ registry' = [registry EXCEPT ![w].fresh = FALSE]
    /\ UNCHANGED <<vars, active, processes>>

Signal(w) ==
    /\ "SIGNAL" \in Troubles
    /\ Running(w)
    /\ proc' = [proc EXCEPT ![w].leaving = TRUE]
    /\ UNCHANGED <<vars, leases, invitations>>

\* The process is killed; a call of its own that has arrived goes on.
Crash(w) ==
    /\ "CRASH" \in Troubles
    /\ Running(w)
    /\ \/ WorkerDies(w)
       \/ worker[w].phase = "IDLE" /\ UNCHANGED vars
    /\ GoTo(w, "GONE")
    /\ UNCHANGED <<leases, invitations>>
=============================================================================
