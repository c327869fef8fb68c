SPECIFICATION FairSystemSpec
CONSTANTS
  l1 = l1  c1 = c1  j1 = j1  w1 = w1  w2 = w2
  NoJob = NoJob  NoCampaign = NoCampaign  NoWorker = NoWorker
  Leads = {l1}
  Campaigns = {c1}
  Jobs = {j1}
  JobLead <- MCJobLead
  LeadCampaign <- MCLeadCampaign
  Workers = {w1, w2}
  Operators = {o1}
  MaxAttemptsPerLead = 2
  AttemptBound = 2
  SerialTx = TRUE
  Reports <- MCReports
  Ops = {"GENERATE", "REAP", "STOP"}
  Troubles = {"LOST_CALL", "CRASH", "SIGNAL", "PAGE_ERROR"}
  SessionStates = {"AUTHENTICATED", "LOGIN_REQUIRED"}
INVARIANTS
  SystemTypeOK
  NoDoubleSend
  
  SignedOffFreesLease
PROPERTIES
  DeadHolderReplaced
  StopEndsRuns
CHECK_DEADLOCK FALSE
