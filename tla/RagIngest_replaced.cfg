SPECIFICATION Spec
CONSTANTS
  note = note
  sheet = sheet
  scan = scan
  bomb = bomb
  p1 = p1
  p2 = p2
  NoFile = NoFile
  Files = {note, scan}
  Unreadable = {}
  Poison = {}
  Retained = {}
  Uploads = {p1, p2}
  MaxDocs = 1
  MaxAttempts = 2
  MaxReindexes = 0
  MaxFaults = 0
INVARIANTS SearchableIsCurrent
CHECK_DEADLOCK FALSE
