SPECIFICATION VisitSpec
CONSTANTS
  Sidebar = {"strangerConnect", "strangerPending"}
  UrlsSeen <- ProfileUrl
  Immediate = TRUE
INVARIANTS
  SentIsConfirmed
CHECK_DEADLOCK FALSE
