--------------------------- MODULE MCOutreachSystem ---------------------------
(* The instances TLC checks: two leads with one row each; the first lead    *)
(* with two rows, so that it can be queued twice, alone or beside a second   *)
(* lead that keeps the campaign open.                                        *)
EXTENDS OutreachProperties, TLC

CONSTANTS l1, l2, c1, c2, j1, j2, j3

MCLeads == {l1, l2}
OneCampaign == (l1 :> c1) @@ (l2 :> c1)

PairJobs == {j1, j3}
PairJobLead == (j1 :> l1) @@ (j3 :> l2)

SoloLeads == {l1}
SoloJobs == {j1, j2}
SoloJobLead == (j1 :> l1) @@ (j2 :> l1)
SoloCampaign == l1 :> c1

Sent == [class |-> "NONE", page |-> SENT_RESULT]
Technical == [class |-> "TECHNICAL", page |-> NULL]
Captcha == [class |-> "SAFETY", page |-> "CAPTCHA"]
Login == [class |-> "SAFETY", page |-> "LOGIN_REQUIRED"]
NoConnectButton == [class |-> "PERMANENT", page |-> "PROFILE_FOUND"]

RecoveryReports == {Sent, Technical}
SafetyReportsSeen == {Sent, Captcha, Login}
PooledReports == {Sent, Technical, NoConnectButton}

WorkerSymmetry == Permutations(Workers)
=============================================================================
