SPECIFICATION Spec
CONSTANTS
  l1 = l1  l2 = l2  c1 = c1  c2 = c2  j1 = j1  j2 = j2  j3 = j3
  NoJob = NoJob  NoCampaign = NoCampaign
  Leads <- SoloLeads
  Campaigns = {c1}
  Jobs <- SoloJobs
  JobLead <- SoloJobLead
  LeadCampaign <- SoloCampaign
  Workers = {w1, w2}
  Operators = {o1}
  MaxAttemptsPerLead = 2
  AttemptBound = 2
  SerialTx = FALSE
  Reports <- PooledReports
  Ops = {"GENERATE", "REAP", "CANCEL", "CLEAR_STOP", "STOP", "SET_LEAD"}
SYMMETRY WorkerSymmetry
INVARIANTS
  TypeOK
  OneHolderPerLead
  NoStrandedLead
  OneCompletedJobPerLead
CHECK_DEADLOCK FALSE
