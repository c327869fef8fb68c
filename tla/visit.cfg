SPECIFICATION VisitSpec
CONSTANTS
  Sidebar = {"strangerConnect"}
  UrlsSeen <- AnyUrl
  Immediate = TRUE
INVARIANTS
  VisitTypeOK
  OnlyTheOwnerIsInvited
  
  SentIsConfirmed
CHECK_DEADLOCK FALSE
