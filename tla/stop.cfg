SPECIFICATION TendedSpec
CONSTANTS
  l1 = l1  l2 = l2  c1 = c1  c2 = c2  j1 = j1  j2 = j2  j3 = j3
  NoJob = NoJob  NoCampaign = NoCampaign
  Leads <- MCLeads
  Campaigns = {c1}
  Jobs <- PairJobs
  JobLead <- PairJobLead
  LeadCampaign <- OneCampaign
  Workers = {w1, w2}
  Operators = {o1}
  MaxAttemptsPerLead = 2
  AttemptBound = 2
  SerialTx = TRUE
  Reports <- SafetyReportsSeen
  Ops = {"GENERATE", "REAP", "STOP", "CLEAR_STOP", "RESOLVE", "CLEAR_QUEUE"}
INVARIANTS
  LatchHeld
  CompletedCampaignIdle
PROPERTIES
  NoClaimUnderStop
  ClaimsResolved
  StopDrains
CHECK_DEADLOCK FALSE
