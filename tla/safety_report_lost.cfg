SPECIFICATION SystemSpec
CONSTANTS
  l1 = l1  c1 = c1  j1 = j1  w1 = w1  w2 = w2
  NoJob = NoJob  NoCampaign = NoCampaign  NoWorker = NoWorker
  Leads = {l1}
  Campaigns = {c1}
  Jobs = {j1}
  JobLead <- MCJobLead
  LeadCampaign <- MCLeadCampaign
  Workers = {w1, w2}
  Operators = {o1}
  MaxAttemptsPerLead = 2
  AttemptBound = 2
  SerialTx = TRUE
  Reports <- SafetyReport
  Ops = {"GENERATE"}
  Troubles = {"LOST_CALL"}
  SessionStates = {"AUTHENTICATED", "LOGIN_REQUIRED"}
PROPERTIES
  SafetyNeverRetried
CHECK_DEADLOCK FALSE
