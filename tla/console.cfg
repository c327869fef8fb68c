SPECIFICATION Spec
CONSTANTS
  l1 = l1  l2 = l2  c1 = c1  c2 = c2  j1 = j1  j2 = j2  j3 = j3
  NoJob = NoJob  NoCampaign = NoCampaign
  Leads <- MCLeads
  Campaigns = {c1}
  Jobs <- SoloJobs
  JobLead <- SoloJobLead
  LeadCampaign <- OneCampaign
  Workers = {w1, w2}
  Operators = {o1}
  MaxAttemptsPerLead = 1
  AttemptBound = 2
  SerialTx = TRUE
  Reports <- RecoveryReports
  Ops = {"GENERATE", "REQUEUE", "CANCEL", "ACTIVATE", "RESUME", "PAUSE"}
SYMMETRY WorkerSymmetry
INVARIANTS
  OneLiveJobPerLead
  NoClaimOnInvitedLead
  AttemptBudget
PROPERTIES
  LateReportChangesNothing
  ClaimsFollowLifecycle
CHECK_DEADLOCK FALSE
