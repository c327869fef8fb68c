SPECIFICATION Spec
CONSTANTS
  Operators = {o1, o2}
  Persons = {"ana", "bo"}
  Fields <- MCFields  HeaderSearchRows = 3  ImportRows = 4
  Files <- MCFiles  FileRows <- MCRows  Typed <- MCTyped
  HeaderCells <- MCHeaders
  OpenFiles = 1  MostScripts = 1  MostInvited = 2
  Faults = {"LOST_REPORT"}
  Posts <- MCPosts  Hits <- MCHits  Contacts <- MCContacts  ExportRows <- MCExportRows
  MostSaid = 2  MaxRecords = 2
  Rules <- MCRules  Traits <- MCTraits  HotAt = 60  WarmAt = 40  CoolAt = 20
  CalibrateFrom = 2  LongestList = 3
SYMMETRY Symmetry
INVARIANTS
  BookTypeOK
  OneRowPerPerson
  
  ColumnsAccounted
  EvidenceKept
  WorklistRanked
PROPERTIES
  ImportAsConfirmed
CHECK_DEADLOCK FALSE
