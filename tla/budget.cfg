SPECIFICATION Spec
CONSTANTS
  c1 = c1  c2 = c2  j1 = j1  j2 = j2  w1 = w1
  HoursPerDay = 4  DaysPerWeek = 3  ChangeHour = 1
  LongDays = {1}  ShortDays = {}
  Campaigns = {c1, c2}
  Jobs = {j1, j2}
  JobCampaign <- MCJobCampaign
  Workers = {w1}
  Settings <- MCSettings
  GlobalDailyLimit = 2
  MaxAttempts = 2  Backoff = 1  BurstSlack = 1
  Horizon = 4  EarlierToday = {1}
  Faults = {"LOST_REPORT"}
  Bursts <- MCBursts
INVARIANTS
  BudgetTypeOK
  RecordedWithinLimits
PROPERTIES
  NextOpenIsFirst
  DisabledClaimsNothing
  PlanKeepsLimits
CHECK_DEADLOCK FALSE
