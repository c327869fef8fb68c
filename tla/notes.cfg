SPECIFICATION Spec
CONSTANTS
  Templates = {t1}
  Campaigns = {c1}
  Leads = {l1}
  Operators = {o1, o2}
  Variables = {"company"}
  Bodies <- MCBodies
  Values <- MCValues
  NoteLimit = 3
SYMMETRY Symmetry
INVARIANTS
  NotesTypeOK
  NoteIsWhole
  NoteAsActivated
  
CHECK_DEADLOCK FALSE
