--------------------------- MODULE PageStatePolicy ---------------------------
(***************************************************************************)
(* What a detected page state means (src/lib/page-state-policy.ts): the    *)
(* table that turns what the browser worker saw into the row statuses, the *)
(* incident and the emergency stop that follow.  Descriptions, severities  *)
(* and display texts are left out.                                         *)
(***************************************************************************)

\* A column of the table that is null in the code.
NULL == "NULL"

JobStatus == {"WAITING", "PROCESSING", "COMPLETED", "FAILED", "CANCELLED",
              "REQUIRES_REVIEW"}

LeadStatus == {"PENDING", "PROCESSING", "SENT", "ALREADY_CONNECTED",
               "ALREADY_PENDING", "SKIPPED", "FAILED", "REQUIRES_REVIEW",
               "BLOCKED"}

IncidentType == {"LOGIN_REQUIRED", "CAPTCHA", "SECURITY_CHALLENGE",
                 "ACCOUNT_RESTRICTED", "UNEXPECTED_PAGE", "NETWORK_FAILURE",
                 "BROWSER_ERROR", "PROFILE_UNPROCESSABLE", "WORKER_UNHEALTHY"}

PlainPages == {"AUTHENTICATED", "PROFILE_FOUND", "CONNECT_AVAILABLE"}

SafetyStates == {"CAPTCHA", "SECURITY_CHALLENGE", "ACCOUNT_RESTRICTED",
                 "LOGIN_REQUIRED", "UNKNOWN_PAGE"}

PageState == PlainPages \cup SafetyStates
               \cup {"ALREADY_CONNECTED", "INVITATION_PENDING",
                     "PROFILE_NOT_FOUND", "NETWORK_ERROR"}

SENT_RESULT == "SENT"

\* One row of the table: error class, status for the job, status for the lead
\* (or NULL), incident to open (or NULL), latch the emergency stop?
Row(class, queueStatus, leadStatus, incident, kill) ==
    [errorClass |-> class, queueStatus |-> queueStatus,
     leadStatus |-> leadStatus, incidentType |-> incident,
     engageKillSwitch |-> kill]

\* A page the table files as a finished visit that says nothing of the lead.
VISITED == Row("NONE", "COMPLETED", NULL, NULL, FALSE)

POLICIES ==
    [AUTHENTICATED      |-> VISITED,
     PROFILE_FOUND      |-> VISITED,
     CONNECT_AVAILABLE  |-> VISITED,
     ALREADY_CONNECTED  |-> Row("NONE", "COMPLETED", "ALREADY_CONNECTED", NULL, FALSE),
     INVITATION_PENDING |-> Row("NONE", "COMPLETED", "ALREADY_PENDING", NULL, FALSE),
     PROFILE_NOT_FOUND  |-> Row("PERMANENT", "FAILED", "SKIPPED", NULL, FALSE),
     NETWORK_ERROR      |-> Row("TECHNICAL", "FAILED", NULL, "NETWORK_FAILURE", FALSE),
     LOGIN_REQUIRED     |-> Row("SAFETY", "REQUIRES_REVIEW", NULL, "LOGIN_REQUIRED", FALSE),
     CAPTCHA            |-> Row("SAFETY", "REQUIRES_REVIEW", "REQUIRES_REVIEW", "CAPTCHA", TRUE),
     SECURITY_CHALLENGE |-> Row("SAFETY", "REQUIRES_REVIEW", "REQUIRES_REVIEW",
                                "SECURITY_CHALLENGE", TRUE),
     ACCOUNT_RESTRICTED |-> Row("SAFETY", "REQUIRES_REVIEW", "BLOCKED",
                                "ACCOUNT_RESTRICTED", TRUE),
     UNKNOWN_PAGE       |-> Row("SAFETY", "REQUIRES_REVIEW", "REQUIRES_REVIEW",
                                "UNEXPECTED_PAGE", TRUE)]

UNPROCESSABLE_POLICY ==
    Row("PERMANENT", "REQUIRES_REVIEW", "REQUIRES_REVIEW", "PROFILE_UNPROCESSABLE", FALSE)

SENT_POLICY == Row("NONE", "COMPLETED", "SENT", NULL, FALSE)

\* The policy of a complete() call: SENT is an outcome, not a page.
CompletionPolicy(result) ==
    IF result = SENT_RESULT THEN SENT_POLICY ELSE POLICIES[result]

\* The policy of a fail() call: the page may be missing, and a PERMANENT failure
\* on a loaded profile is the unprocessable case.
NO_POLICY == Row("NONE", NULL, NULL, NULL, FALSE)

FailurePolicy(class, page) ==
    CASE class = "PERMANENT" /\ page = "PROFILE_FOUND" -> UNPROCESSABLE_POLICY
      [] page = NULL -> NO_POLICY
      [] OTHER -> POLICIES[page]

\* What the worker can report for a job (src/worker/main.ts, processJob): class
\* "NONE" is a complete() call, anything else a fail() call.
Completions == [class : {"NONE"},
                page : {SENT_RESULT, "ALREADY_CONNECTED", "INVITATION_PENDING",
                        "PROFILE_NOT_FOUND"}]
TechnicalFailures == [class : {"TECHNICAL"}, page : {NULL, "NETWORK_ERROR"}]
PermanentFailures == [class : {"PERMANENT"},
                      page : {NULL, "PROFILE_FOUND", "CONNECT_AVAILABLE", "NETWORK_ERROR",
                              "PROFILE_NOT_FOUND"}]
SafetyReports == [class : {"SAFETY"}, page : SafetyStates]

Report == Completions \cup TechnicalFailures \cup PermanentFailures \cup SafetyReports
=============================================================================
