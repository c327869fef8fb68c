SPECIFICATION Spec
CONSTANTS
  l1 = l1  l2 = l2  c1 = c1  c2 = c2  j1 = j1  j2 = j2  j3 = j3
  NoJob = NoJob  NoCampaign = NoCampaign
  Leads <- SoloLeads
  Campaigns = {c1}
  Jobs <- SoloJobs
  JobLead <- SoloJobLead
  LeadCampaign <- SoloCampaign
  Workers = {w1}
  Operators = {o1}
  MaxAttemptsPerLead = 1
  AttemptBound = 1
  SerialTx = TRUE
  Reports <- RecoveryReports
  Ops = {"GENERATE", "RESUME", "PAUSE", "STOP", "CLEAR_STOP"}
PROPERTIES
  ClearRestartsNothing
CHECK_DEADLOCK FALSE
