---------------------------- MODULE MCWorkerSystem ----------------------------
(* Two runs of the worker on one lead with one job row. *)
EXTENDS WorkerSystem, TLC

CONSTANTS l1, c1, j1, w1, w2

MCJobLead == j1 :> l1
MCLeadCampaign == l1 :> c1

Sent == Outcome("NONE", SENT_RESULT)
Pending == Outcome("NONE", "INVITATION_PENDING")
Captcha == Outcome("SAFETY", "CAPTCHA")
Unconfirmed == Outcome("PERMANENT", "CONNECT_AVAILABLE")

MCReports == {Sent, Pending, Unconfirmed, NoteNotRendered, Unexplained}
SafetyReport == {Sent, Pending, Captcha, NoteNotRendered, Unexplained}
=============================================================================
